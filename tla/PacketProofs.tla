---------------------------- MODULE PacketProofs ----------------------------
(***************************************************************************)
(* Theorems about the packets and the stream they are in: for every width  *)
(* that WidthAssumption allows and every object and list of ids that       *)
(* ContentAssumption allows, a packet says its own length, and behind any  *)
(* stream it is read as it was written unless a string is no UTF-8.        *)
(***************************************************************************)
EXTENDS PacketStream, RecvStreamProofs, SequenceTheorems, WellFoundedInduction, TLAPS

-----------------------------------------------------------------------------
(***************************************************************************)
(* Induction and recursion, for sets: a set that holds an element whenever *)
(* it holds all the smaller ones holds all; a function is determined by    *)
(* what it makes of its value at a smaller argument.                       *)
(***************************************************************************)
\* Complete induction over a measure m of the elements of D.
LEMMA MeasureInduction ==
  ASSUME NEW D, NEW m \in [D -> Nat], NEW S,
         \A d \in D : (\A e \in D : m[e] < m[d] => e \in S) => d \in S
  PROVE  D \subseteq S
<1> DEFINE T == {m[d] : d \in D \ S}
           R == OpToRel(<, Nat)
<1>1. SUFFICES ASSUME D \ S # {} PROVE FALSE
  OBVIOUS
<1>2. T \subseteq Nat /\ T # {}
  BY <1>1
<1>3. IsWellFoundedOn(R, Nat)
  BY NatLessThanWellFounded
<1>4. \A x, y \in Nat : <<x, y>> \in R <=> x < y
  BY DEF OpToRel
<1> HIDE DEF R
<1>5. PICK x \in T : \A y \in T : ~(<<y, x>> \in R)
  BY <1>2, <1>3, WFMin, Zenon
<1>6. PICK d \in D \ S : x = m[d]
  BY <1>5
<1>7. ASSUME NEW e \in D, m[e] < m[d] PROVE e \in S
  <2>1. SUFFICES ASSUME e \notin S PROVE FALSE
    OBVIOUS
  <2>2. m[e] \in T /\ m[e] \in Nat /\ m[d] \in Nat
    BY <2>1
  <2>3. ~(<<m[e], m[d]>> \in R)
    BY <1>5, <1>6, <2>2
  <2> QED BY <1>4, <1>7, <2>2, <2>3
<1> QED BY <1>6, <1>7

\* Induction over the natural numbers.
LEMMA Induction ==
  ASSUME NEW S, 0 \in S, \A n \in Nat : n \in S => n + 1 \in S
  PROVE  Nat \subseteq S
<1> DEFINE m == [n \in Nat |-> n]
<1>1. m \in [Nat -> Nat]
  OBVIOUS
<1>2. ASSUME NEW n \in Nat, \A k \in Nat : m[k] < m[n] => k \in S
      PROVE  n \in S
  <2>1. CASE n = 0
    BY <2>1
  <2>2. CASE n # 0
    <3>1. n - 1 \in Nat /\ m[n - 1] < m[n] /\ (n - 1) + 1 = n
      BY <2>2
    <3>2. n - 1 \in S
      BY <1>2, <3>1
    <3> QED BY <3>1, <3>2
  <2> QED BY <2>1, <2>2
<1> HIDE DEF m
<1> QED BY <1>1, <1>2, MeasureInduction

\* Induction over sequences, from the end.
LEMMA SeqInduction ==
  ASSUME NEW E, NEW S, << >> \in S,
         \A s \in Seq(E) : s # << >> /\ Tail(s) \in S => s \in S
  PROVE  Seq(E) \subseteq S
<1> DEFINE D == Seq(E)
           m == [s \in D |-> Len(s)]
<1>1. m \in [D -> Nat]
  OBVIOUS
<1>2. ASSUME NEW s \in D, \A t \in D : m[t] < m[s] => t \in S
      PROVE  s \in S
  <2>1. CASE s = << >>
    BY <2>1
  <2>2. CASE s # << >>
    <3>1. Tail(s) \in Seq(E) /\ m[Tail(s)] < m[s]
      BY <2>2, HeadTailProperties
    <3> QED BY <1>2, <2>2, <3>1
  <2> QED BY <2>1, <2>2
<1> HIDE DEF D, m
<1>3. D \subseteq S
  BY <1>1, <1>2, MeasureInduction
<1> QED BY <1>3 DEF D

\* On B a function with values in V is b, elsewhere g of its value at the smaller p.
Recursion(D, V, m, B, b, p, g) ==
  /\ m \in [D -> Nat] /\ B \subseteq D
  /\ b \in [B -> V] /\ p \in [D \ B -> D] /\ g \in [D \ B -> [V -> V]]
  /\ \A d \in D \ B : m[p[d]] < m[d]

Unfolds(f, d, B, b, p, g) == f[d] = IF d \in B THEN b[d] ELSE g[d][f[p[d]]]

LEMMA RecursionExists ==
  ASSUME NEW D, NEW V, NEW m, NEW B, NEW b, NEW p, NEW g,
         Recursion(D, V, m, B, b, p, g)
  PROVE  \E f \in [D -> V] : \A d \in D : Unfolds(f, d, B, b, p, g)
<1> DEFINE Below(n) == {d \in D : m[d] < n}
           Part(n) == {f \in [Below(n) -> V] :
                         \A d \in Below(n) : Unfolds(f, d, B, b, p, g)}
<1>1. ASSUME NEW n \in Nat, NEW k \in Nat, NEW f \in Part(n), NEW h \in Part(k)
      PROVE  \A d \in Below(n) \cap Below(k) : f[d] = h[d]
  <2> DEFINE S == {d \in D : d \in Below(n) \cap Below(k) => f[d] = h[d]}
  <2>1. m \in [D -> Nat]
    BY DEF Recursion
  <2>2. ASSUME NEW d \in D, \A e \in D : m[e] < m[d] => e \in S
        PROVE  d \in S
    <3>1. SUFFICES ASSUME d \in Below(n) \cap Below(k) PROVE f[d] = h[d]
      OBVIOUS
    <3>2. /\ f[d] = IF d \in B THEN b[d] ELSE g[d][f[p[d]]]
          /\ h[d] = IF d \in B THEN b[d] ELSE g[d][h[p[d]]]
      BY <3>1 DEF Unfolds
    <3>3. ASSUME d \notin B PROVE f[p[d]] = h[p[d]]
      <4>1. p[d] \in D /\ m[p[d]] < m[d]
        BY <3>3 DEF Recursion
      <4>2. p[d] \in S /\ p[d] \in Below(n) \cap Below(k)
        BY <2>1, <2>2, <3>1, <4>1
      <4> QED BY <4>2
    <3> QED BY <3>2, <3>3
  <2> HIDE DEF S
  <2>3. D \subseteq S
    BY <2>1, <2>2, MeasureInduction
  <2> QED BY <2>3 DEF S
<1>2. \A n \in Nat : Part(n) # {}
  <2> DEFINE S == {n \in Nat : Part(n) # {}}
  <2>1. 0 \in S
    <3>1. Below(0) = {}
      BY DEF Recursion
    <3>2. [d \in {} |-> 0] \in Part(0)
      BY <3>1
    <3> QED BY <3>2
  <2>2. ASSUME NEW n \in Nat, n \in S PROVE n + 1 \in S
    <3>1. PICK f \in Part(n) : TRUE
      BY <2>2
    <3> DEFINE h == [d \in Below(n + 1) |->
                       IF d \in Below(n) THEN f[d]
                       ELSE IF d \in B THEN b[d] ELSE g[d][f[p[d]]]]
    <3>2. ASSUME NEW d \in Below(n + 1), d \notin B
          PROVE  p[d] \in Below(n) /\ f[p[d]] \in V /\ h[p[d]] = f[p[d]]
      <4>1. m[p[d]] \in Nat /\ m[d] \in Nat /\ m[p[d]] < m[d] /\ m[d] < n + 1 /\ p[d] \in D
        BY <3>2 DEF Recursion
      <4>2. m[p[d]] < n /\ m[p[d]] < n + 1
        BY <4>1
      <4> QED BY <3>1, <4>1, <4>2
    <3>3. ASSUME NEW d \in Below(n + 1) PROVE h[d] \in V
      <4>1. CASE d \in Below(n)
        BY <3>1, <4>1
      <4>2. CASE d \notin Below(n) /\ d \in B
        BY <4>2 DEF Recursion
      <4>3. CASE d \notin Below(n) /\ d \notin B
        <5> QED BY <3>2, <4>3 DEF Recursion
      <4> QED BY <4>1, <4>2, <4>3
    <3>4. ASSUME NEW d \in Below(n + 1) PROVE Unfolds(h, d, B, b, p, g)
      <4>1. h[d] = IF d \in B THEN b[d] ELSE g[d][f[p[d]]]
        BY <3>1 DEF Unfolds
      <4> QED BY <3>2, <4>1 DEF Unfolds
    <3>5. h \in Part(n + 1)
      <4> HIDE DEF h
      <4>1. h \in [Below(n + 1) -> V]
        BY <3>3 DEF h
      <4> QED BY <3>4, <4>1
    <3> QED BY <3>5, n + 1 \in Nat
  <2> HIDE DEF S
  <2>3. Nat \subseteq S
    BY <2>1, <2>2, Induction
  <2> QED BY <2>3 DEF S
<1> DEFINE Pick(n) == CHOOSE f \in Part(n) : TRUE
           F == [d \in D |-> Pick(m[d] + 1)[d]]
<1>3. \A n \in Nat : Pick(n) \in Part(n)
  BY <1>2
<1>4. ASSUME NEW d \in D
      PROVE  /\ m[d] \in Nat /\ m[d] + 1 \in Nat /\ d \in Below(m[d] + 1)
             /\ F[d] = Pick(m[d] + 1)[d] /\ Pick(m[d] + 1) \in Part(m[d] + 1)
  <2>1. m[d] \in Nat
    BY DEF Recursion
  <2>2. m[d] < m[d] + 1 /\ m[d] + 1 \in Nat
    BY <2>1
  <2> QED BY <1>3, <2>1, <2>2
<1> HIDE DEF Pick, F
<1>5. \A d \in D : F[d] \in V
  BY <1>4
<1>6. ASSUME NEW d \in D PROVE Unfolds(F, d, B, b, p, g)
  <2> DEFINE f == Pick(m[d] + 1)
  <2>1. f[d] = IF d \in B THEN b[d] ELSE g[d][f[p[d]]]
    BY <1>4 DEF Unfolds
  <2>2. ASSUME d \notin B PROVE F[p[d]] = f[p[d]]
    <3>1. p[d] \in D /\ m[p[d]] < m[d] /\ m[p[d]] \in Nat /\ m[d] \in Nat
      BY <2>2 DEF Recursion
    <3>2. p[d] \in Below(m[p[d]] + 1) \cap Below(m[d] + 1)
      <4>1. m[p[d]] < m[d] + 1
        BY <3>1
      <4> QED BY <1>4, <3>1, <4>1
    <3>3. Pick(m[p[d]] + 1)[p[d]] = f[p[d]]
      <4>1. /\ m[p[d]] + 1 \in Nat /\ Pick(m[p[d]] + 1) \in Part(m[p[d]] + 1)
            /\ m[d] + 1 \in Nat /\ f \in Part(m[d] + 1)
        BY <1>4, <3>1
      <4> HIDE DEF Part, Below, f
      <4> QED BY <1>1, <3>2, <4>1
    <3> QED BY <1>4, <3>1, <3>3
  <2> QED BY <1>4, <2>1, <2>2 DEF Unfolds
<1> QED
  <2>1. F \in [D -> V]
    BY <1>5 DEF F
  <2> QED BY <1>6, <2>1

\* What unfolds so has values in V.
LEMMA RecursionTyped ==
  ASSUME NEW D, NEW V, NEW m, NEW B, NEW b, NEW p, NEW g,
         Recursion(D, V, m, B, b, p, g),
         NEW f, \A d \in B : f[d] = b[d],
         \A d \in D \ B : f[p[d]] \in V => f[d] = g[d][f[p[d]]]
  PROVE  \A d \in D : f[d] \in V
<1> DEFINE S == {d \in D : f[d] \in V}
<1>1. m \in [D -> Nat]
  BY DEF Recursion
<1>2. ASSUME NEW d \in D, \A e \in D : m[e] < m[d] => e \in S
      PROVE  d \in S
  <2>1. CASE d \in B
    BY <2>1 DEF Recursion
  <2>2. CASE d \notin B
    <3>1. p[d] \in D /\ m[p[d]] < m[d]
      BY <2>2 DEF Recursion
    <3>2. f[p[d]] \in V
      BY <1>2, <3>1
    <3>3. f[d] = g[d][f[p[d]]]
      BY <2>2, <3>2
    <3> QED BY <2>2, <3>2, <3>3 DEF Recursion
  <2> QED BY <2>1, <2>2
<1> HIDE DEF S
<1>3. D \subseteq S
  BY <1>1, <1>2, MeasureInduction
<1> QED BY <1>3 DEF S

-----------------------------------------------------------------------------
(* The recursive functions satisfy their definitions.                      *)

LEMMA UnsafeVarintDef ==
  /\ UnsafeVarint \in [Nat -> Seq(Byte)]
  /\ \A u \in Nat : UnsafeVarint[u] =
       IF u < 128 THEN <<u>> ELSE <<(u % 128) + 128>> \o UnsafeVarint[u \div 128]
<1> DEFINE V == Seq(Byte)
           m == [u \in Nat |-> u]
           B == 0..127
           b == [u \in B |-> <<u>>]
           p == [u \in Nat \ B |-> u \div 128]
           g == [u \in Nat \ B |-> [t \in V |-> <<(u % 128) + 128>> \o t]]
<1>1. /\ B \subseteq Nat /\ \A u \in Nat : u \in B <=> u < 128
      /\ \A u \in B : <<u>> \in V
      /\ \A u \in Nat \ B : u \div 128 \in Nat /\ u \div 128 < u
      /\ \A u \in Nat \ B, t \in V : <<(u % 128) + 128>> \o t \in V
  BY DEF Byte
<1>2. Recursion(Nat, V, m, B, b, p, g)
  <2> HIDE DEF V
  <2>1. m \in [Nat -> Nat] /\ B \subseteq Nat /\ b \in [B -> V] /\ p \in [Nat \ B -> Nat]
    BY <1>1
  <2>2. g \in [Nat \ B -> [V -> V]]
    BY <1>1
  <2>3. \A u \in Nat \ B : m[p[u]] < m[u]
    BY <1>1
  <2> HIDE DEF m, B, b, p, g
  <2> QED BY <2>1, <2>2, <2>3 DEF Recursion
<1>3. PICK f \in [Nat -> V] : \A u \in Nat : Unfolds(f, u, B, b, p, g)
  <2> HIDE DEF V, m, B, b, p, g
  <2> QED BY <1>2, RecursionExists
<1>4. f = [u \in Nat |->
             IF u < 128 THEN <<u>> ELSE <<(u % 128) + 128>> \o f[u \div 128]]
  <2>1. ASSUME NEW u \in Nat
        PROVE  f[u] = IF u < 128 THEN <<u>> ELSE <<(u % 128) + 128>> \o f[u \div 128]
    <3>2. u \notin B => f[u \div 128] \in V
      BY <1>1, <1>3
    <3> HIDE DEF B, V
    <3> QED BY <1>1, <1>3, <3>2 DEF Unfolds
  <2> QED BY <1>3, <2>1
<1>5. UnsafeVarint = [u \in Nat |->
        IF u < 128 THEN <<u>> ELSE <<(u % 128) + 128>> \o UnsafeVarint[u \div 128]]
  BY <1>4 DEF UnsafeVarint
<1>6. ASSUME NEW u \in Nat
      PROVE  UnsafeVarint[u] =
               IF u < 128 THEN <<u>> ELSE <<(u % 128) + 128>> \o UnsafeVarint[u \div 128]
  BY <1>5, Zenon
<1>7. \A u \in Nat : UnsafeVarint[u] \in V
  <2>1. \A u \in B : UnsafeVarint[u] = b[u]
    BY <1>1, <1>6
  <2>2. \A u \in Nat \ B : UnsafeVarint[p[u]] \in V =>
          UnsafeVarint[u] = g[u][UnsafeVarint[p[u]]]
    BY <1>1, <1>6
  <2> HIDE DEF V, m, B, b, p, g
  <2> QED BY <1>2, <2>1, <2>2, RecursionTyped
<1>8. UnsafeVarint \in [Nat -> V]
  <2> HIDE DEF V
  <2> QED BY <1>5, <1>7
<1> QED BY <1>6, <1>8

LEMMA Log2Def ==
  /\ Log2FloorNonZero \in [Nat \ {0} -> Nat]
  /\ Log2FloorNonZero[1] = 0
  /\ \A u \in Nat \ {0, 1} : Log2FloorNonZero[u] = 1 + Log2FloorNonZero[u \div 2]
<1> DEFINE D == Nat \ {0}
           m == [u \in D |-> u]
           B == {1}
           b == [u \in B |-> 0]
           p == [u \in D \ B |-> u \div 2]
           g == [u \in D \ B |-> [n \in Nat |-> 1 + n]]
<1>1. \A u \in D \ B : u \div 2 \in D /\ u \div 2 < u
  OBVIOUS
<1>2. Recursion(D, Nat, m, B, b, p, g)
  BY <1>1 DEF Recursion
<1>3. PICK f \in [D -> Nat] : \A u \in D : Unfolds(f, u, B, b, p, g)
  <2> HIDE DEF D, m, B, b, p, g
  <2> QED BY <1>2, RecursionExists
<1>4. f = [u \in D |-> IF u = 1 THEN 0 ELSE 1 + f[u \div 2]]
  BY <1>1, <1>3 DEF Unfolds
<1>5. Log2FloorNonZero = [u \in D |-> IF u = 1 THEN 0 ELSE 1 + Log2FloorNonZero[u \div 2]]
  BY <1>4 DEF Log2FloorNonZero
<1>6. ASSUME NEW u \in D
      PROVE  Log2FloorNonZero[u] = IF u = 1 THEN 0 ELSE 1 + Log2FloorNonZero[u \div 2]
  BY <1>5, Zenon
<1>7. \A u \in D : Log2FloorNonZero[u] \in Nat
  <2>1. \A u \in B : Log2FloorNonZero[u] = b[u]
    BY <1>6
  <2>2. \A u \in D \ B : Log2FloorNonZero[p[u]] \in Nat =>
          Log2FloorNonZero[u] = g[u][Log2FloorNonZero[p[u]]]
    BY <1>1, <1>6
  <2> HIDE DEF D, m, B, b, p, g
  <2> QED BY <1>2, <2>1, <2>2, RecursionTyped
<1> QED BY <1>5, <1>6, <1>7

LEMMA SumDef ==
  /\ SumOf \in [Seq(Nat) -> Nat]
  /\ SumOf[<< >>] = 0
  /\ \A ns \in Seq(Nat) : ns # << >> => SumOf[ns] = Head(ns) + SumOf[Tail(ns)]
<1> DEFINE D == Seq(Nat)
           m == [ns \in D |-> Len(ns)]
           B == {<< >>}
           b == [ns \in B |-> 0]
           p == [ns \in D \ B |-> Tail(ns)]
           g == [ns \in D \ B |-> [n \in Nat |-> Head(ns) + n]]
<1>1. /\ B \subseteq D
      /\ \A ns \in D \ B : /\ Tail(ns) \in D /\ Head(ns) \in Nat
                           /\ Len(Tail(ns)) < Len(ns)
      /\ \A ns \in D : Len(ns) \in Nat
  BY HeadTailProperties
<1>2. Recursion(D, Nat, m, B, b, p, g)
  <2> HIDE DEF D
  <2> QED BY <1>1 DEF Recursion
<1>3. PICK f \in [D -> Nat] : \A ns \in D : Unfolds(f, ns, B, b, p, g)
  <2> HIDE DEF D, m, B, b, p, g
  <2> QED BY <1>2, RecursionExists
<1>4. f = [ns \in D |-> IF ns = << >> THEN 0 ELSE Head(ns) + f[Tail(ns)]]
  <2> HIDE DEF D
  <2> QED BY <1>1, <1>3 DEF Unfolds
<1>5. SumOf = [ns \in D |-> IF ns = << >> THEN 0 ELSE Head(ns) + SumOf[Tail(ns)]]
  BY <1>4 DEF SumOf
<1>6. ASSUME NEW ns \in D
      PROVE  SumOf[ns] = IF ns = << >> THEN 0 ELSE Head(ns) + SumOf[Tail(ns)]
  BY <1>5, Zenon
<1>7. \A ns \in D : SumOf[ns] \in Nat
  <2> HIDE DEF D
  <2>1. \A ns \in B : SumOf[ns] = b[ns]
    BY <1>1, <1>6
  <2>2. \A ns \in D \ B : SumOf[p[ns]] \in Nat => SumOf[ns] = g[ns][SumOf[p[ns]]]
    BY <1>1, <1>6
  <2> HIDE DEF m, B, b, p, g
  <2> QED BY <1>2, <2>1, <2>2, RecursionTyped
<1> QED BY <1>1, <1>5, <1>6, <1>7

LEMMA FlattenDef ==
  ASSUME NEW E
  PROVE  /\ Flatten(E, << >>) = << >>
         /\ \A ss \in Seq(Seq(E)) :
              /\ Flatten(E, ss) \in Seq(E)
              /\ ss # << >> => Flatten(E, ss) = Head(ss) \o Flatten(E, Tail(ss))
<1> DEFINE V == Seq(E)
           D == Seq(V)
           m == [t \in D |-> Len(t)]
           B == {<< >>}
           b == [t \in B |-> << >>]
           p == [t \in D \ B |-> Tail(t)]
           g == [t \in D \ B |-> [s \in V |-> Head(t) \o s]]
           flat == CHOOSE f : f = [t \in D |-> IF t = << >> THEN << >> ELSE Head(t) \o f[Tail(t)]]
<1>1. /\ B \subseteq D /\ << >> \in V
      /\ \A t \in D \ B : Tail(t) \in D /\ Head(t) \in V /\ Len(Tail(t)) < Len(t)
      /\ \A t \in D : Len(t) \in Nat
      /\ \A r, s \in V : r \o s \in V
  BY HeadTailProperties, ConcatProperties
<1>2. Recursion(D, V, m, B, b, p, g)
  <2> HIDE DEF D, V
  <2> QED BY <1>1 DEF Recursion
<1>3. PICK f \in [D -> V] : \A t \in D : Unfolds(f, t, B, b, p, g)
  <2> HIDE DEF D, V, m, B, b, p, g
  <2> QED BY <1>2, RecursionExists
<1>4. f = [t \in D |-> IF t = << >> THEN << >> ELSE Head(t) \o f[Tail(t)]]
  <2> HIDE DEF D, V
  <2> QED BY <1>1, <1>3 DEF Unfolds
<1>5. flat = [t \in D |-> IF t = << >> THEN << >> ELSE Head(t) \o flat[Tail(t)]]
  BY <1>4
<1>6. \A ss : Flatten(E, ss) = flat[ss]
  BY DEF Flatten
<1> HIDE DEF flat
<1>7. ASSUME NEW t \in D
      PROVE  flat[t] = IF t = << >> THEN << >> ELSE Head(t) \o flat[Tail(t)]
  BY <1>5, Zenon
<1>8. \A t \in D : flat[t] \in V
  <2> HIDE DEF D, V
  <2>1. \A t \in B : flat[t] = b[t]
    BY <1>1, <1>7
  <2>2. \A t \in D \ B : flat[p[t]] \in V => flat[t] = g[t][flat[p[t]]]
    BY <1>1, <1>7
  <2> HIDE DEF m, B, b, p, g
  <2> QED BY <1>2, <2>1, <2>2, RecursionTyped
<1> HIDE DEF D, V
<1>9. /\ Flatten(E, << >>) = << >>
      /\ \A ss \in D : /\ Flatten(E, ss) \in V
                       /\ ss # << >> => Flatten(E, ss) = Head(ss) \o Flatten(E, Tail(ss))
  BY <1>1, <1>6, <1>7, <1>8
<1> QED BY <1>9 DEF D, V

LEMMA ReadVarintDef ==
  /\ ReadVarint \in [Seq(Byte) -> Nat]
  /\ \A b \in Seq(Byte) : b # << >> =>
       ReadVarint[b] = IF b[1] < 128 THEN b[1] ELSE b[1] - 128 + 128 * ReadVarint[Tail(b)]
<1> DEFINE D == Seq(Byte)
           m == [t \in D |-> Len(t)]
           B == {t \in D : t = << >> \/ t[1] < 128}
           b == [t \in B |-> IF t = << >> THEN 0 ELSE t[1]]
           p == [t \in D \ B |-> Tail(t)]
           g == [t \in D \ B |-> [n \in Nat |-> t[1] - 128 + 128 * n]]
<1>1. /\ \A t \in D \ B : Tail(t) \in D /\ Len(Tail(t)) < Len(t) /\ t[1] - 128 \in Nat
      /\ \A t \in D : Len(t) \in Nat
      /\ \A t \in D : t # << >> => t[1] \in Nat /\ Tail(t) \in D
  <2>1. ASSUME NEW t \in D, t # << >>
        PROVE  t[1] \in Nat /\ Tail(t) \in D /\ Len(Tail(t)) < Len(t)
    <3>1. 1 \in 1..Len(t)
      BY <2>1
    <3>2. t[1] \in Byte
      BY <3>1
    <3>3. \A x \in Byte : x \in Nat
      BY DEF Byte
    <3>4. Tail(t) \in D /\ Len(Tail(t)) < Len(t)
      BY <2>1, HeadTailProperties
    <3> QED BY <3>2, <3>3, <3>4
  <2>2. ASSUME NEW t \in D \ B PROVE t # << >> /\ ~(t[1] < 128)
    OBVIOUS
  <2>3. \A t \in D : Len(t) \in Nat
    OBVIOUS
  <2> HIDE DEF D, B
  <2>4. ASSUME NEW t \in D \ B
        PROVE  Tail(t) \in D /\ Len(Tail(t)) < Len(t) /\ t[1] - 128 \in Nat
    <3>1. t \in D /\ t # << >> /\ ~(t[1] < 128)
      BY <2>2
    <3>2. t[1] \in Nat /\ Tail(t) \in D /\ Len(Tail(t)) < Len(t)
      BY <2>1, <3>1
    <3> QED BY <3>1, <3>2
  <2>5. \A t \in D : t # << >> => t[1] \in Nat /\ Tail(t) \in D
    BY <2>1
  <2> QED BY <2>3, <2>4, <2>5
<1>2. Recursion(D, Nat, m, B, b, p, g)
  <2> HIDE DEF D
  <2>1. m \in [D -> Nat] /\ B \subseteq D /\ b \in [B -> Nat] /\ p \in [D \ B -> D]
    BY <1>1
  <2>2. g \in [D \ B -> [Nat -> Nat]]
    BY <1>1
  <2>3. \A t \in D \ B : m[p[t]] < m[t]
    BY <1>1
  <2> HIDE DEF m, B, b, p, g
  <2> QED BY <2>1, <2>2, <2>3 DEF Recursion
<1>3. PICK f \in [D -> Nat] : \A t \in D : Unfolds(f, t, B, b, p, g)
  <2> HIDE DEF D, m, B, b, p, g
  <2> QED BY <1>2, RecursionExists
<1>4. f = [t \in D |-> IF t = << >> THEN 0
                       ELSE IF t[1] < 128 THEN t[1] ELSE t[1] - 128 + 128 * f[Tail(t)]]
  <2> HIDE DEF D
  <2> QED BY <1>1, <1>3 DEF Unfolds
<1>5. ReadVarint = [t \in D |-> IF t = << >> THEN 0
                     ELSE IF t[1] < 128 THEN t[1] ELSE t[1] - 128 + 128 * ReadVarint[Tail(t)]]
  BY <1>4 DEF ReadVarint
<1>6. ASSUME NEW t \in D
      PROVE  ReadVarint[t] = IF t = << >> THEN 0
                     ELSE IF t[1] < 128 THEN t[1] ELSE t[1] - 128 + 128 * ReadVarint[Tail(t)]
  BY <1>5, Zenon
<1>7. \A t \in D : ReadVarint[t] \in Nat
  <2> HIDE DEF D
  <2>1. \A t \in B : ReadVarint[t] = b[t]
    BY <1>1, <1>6
  <2>2. \A t \in D \ B : ReadVarint[p[t]] \in Nat => ReadVarint[t] = g[t][ReadVarint[p[t]]]
    BY <1>1, <1>6
  <2> HIDE DEF m, B, b, p, g
  <2> QED BY <1>2, <2>1, <2>2, RecursionTyped
<1>8. ReadVarint \in [D -> Nat]
  <2> HIDE DEF D
  <2> QED BY <1>5, <1>7
<1> QED BY <1>6, <1>8

LEMMA CutDef ==
  ASSUME NEW L \in [Seq(Byte) -> Nat], NEW bytes \in Seq(Byte)
  PROVE  /\ Cut(L, bytes) \in Seq(Seq(Byte))
         /\ Cut(L, bytes) =
              IF L[bytes] \in 1..Len(bytes)
              THEN <<SubSeq(bytes, 1, L[bytes])>>
                     \o Cut(L, SubSeq(bytes, L[bytes] + 1, Len(bytes)))
              ELSE << >>
<1> DEFINE D == Seq(Byte)
           V == Seq(D)
           Front(t) == SubSeq(t, 1, L[t])
           Rest(t) == SubSeq(t, L[t] + 1, Len(t))
           m == [t \in D |-> Len(t)]
           B == {t \in D : L[t] \notin 1..Len(t)}
           b == [t \in B |-> << >>]
           p == [t \in D \ B |-> Rest(t)]
           g == [t \in D \ B |-> [s \in V |-> <<Front(t)>> \o s]]
           cut == CHOOSE f : f = [t \in D |-> IF L[t] \in 1..Len(t)
                                              THEN <<Front(t)>> \o f[Rest(t)] ELSE << >>]
<1>1. /\ << >> \in V
      /\ \A t \in D : Len(t) \in Nat
      /\ \A t \in D, s \in V : t \in D \ B => <<Front(t)>> \o s \in V
      /\ \A t \in D \ B : Rest(t) \in D /\ Len(Rest(t)) < Len(t)
  <2>1. ASSUME NEW t \in D \ B PROVE Front(t) \in D /\ Rest(t) \in D /\ Len(Rest(t)) < Len(t)
    <3>1. L[t] \in Int /\ 1 <= L[t] /\ L[t] <= Len(t) /\ Len(t) \in Nat
      OBVIOUS
    <3>2. \A i \in 1..Len(t) : t[i] \in Byte
      OBVIOUS
    <3>3. Front(t) \in D
      BY <3>1, <3>2, SubSeqProperties
    <3>4. Rest(t) \in D /\ Len(Rest(t)) = IF L[t] + 1 <= Len(t) THEN Len(t) - (L[t] + 1) + 1 ELSE 0
      BY <3>1, <3>2, SubSeqProperties
    <3> QED BY <3>1, <3>3, <3>4
  <2>2. ASSUME NEW t \in D \ B, NEW s \in V PROVE <<Front(t)>> \o s \in V
    <3>1. <<Front(t)>> \in V
      BY <2>1
    <3> QED BY <3>1, ConcatProperties
  <2> QED BY <2>1, <2>2
<1>2. Recursion(D, V, m, B, b, p, g)
  <2> HIDE DEF D, V, Front, Rest
  <2>1. m \in [D -> Nat] /\ B \subseteq D /\ b \in [B -> V] /\ p \in [D \ B -> D]
    BY <1>1
  <2>2. g \in [D \ B -> [V -> V]]
    BY <1>1
  <2>3. \A t \in D \ B : m[p[t]] < m[t]
    BY <1>1
  <2> HIDE DEF m, B, b, p, g
  <2> QED BY <2>1, <2>2, <2>3 DEF Recursion
<1>3. PICK f \in [D -> V] : \A t \in D : Unfolds(f, t, B, b, p, g)
  <2> HIDE DEF D, V, m, B, b, p, g
  <2> QED BY <1>2, RecursionExists
<1>4. f = [t \in D |-> IF L[t] \in 1..Len(t) THEN <<Front(t)>> \o f[Rest(t)] ELSE << >>]
  <2> HIDE DEF D, V, Front, Rest
  <2> QED BY <1>1, <1>3 DEF Unfolds
<1>5. cut = [t \in D |-> IF L[t] \in 1..Len(t) THEN <<Front(t)>> \o cut[Rest(t)] ELSE << >>]
  <2> HIDE DEF D, V, Front, Rest
  <2> QED BY <1>4
<1>6. \A t : Cut(L, t) = cut[t]
  BY DEF Cut
<1> HIDE DEF cut
<1>7. ASSUME NEW t \in D
      PROVE  cut[t] = IF L[t] \in 1..Len(t) THEN <<Front(t)>> \o cut[Rest(t)] ELSE << >>
  BY <1>5, Zenon
<1>8. \A t \in D : cut[t] \in V
  <2> HIDE DEF D, V, Front, Rest
  <2>1. \A t \in B : cut[t] = b[t]
    BY <1>1, <1>7
  <2>2. \A t \in D \ B : cut[p[t]] \in V => cut[t] = g[t][cut[p[t]]]
    BY <1>1, <1>7
  <2> HIDE DEF m, B, b, p, g
  <2> QED BY <1>2, <2>1, <2>2, RecursionTyped
<1>9. Cut(L, bytes) = IF L[bytes] \in 1..Len(bytes)
                      THEN <<Front(bytes)>> \o Cut(L, Rest(bytes)) ELSE << >>
  BY <1>6, <1>7
<1> QED BY <1>6, <1>8, <1>9

-----------------------------------------------------------------------------
(* Sequences of sequences and of numbers.                                  *)

LEMMA ConsFacts ==
  ASSUME NEW E
  PROVE  /\ \A e \in E, s \in Seq(E) :
              /\ <<e>> \o s \in Seq(E) /\ <<e>> \o s # << >>
              /\ Head(<<e>> \o s) = e /\ Tail(<<e>> \o s) = s
         /\ \A s \in Seq(E) : s # << >> =>
              Head(s) \in E /\ Tail(s) \in Seq(E) /\ s = <<Head(s)>> \o Tail(s)
<1>1. ASSUME NEW e \in E, NEW s \in Seq(E)
      PROVE  /\ <<e>> \o s \in Seq(E) /\ <<e>> \o s # << >>
             /\ Head(<<e>> \o s) = e /\ Tail(<<e>> \o s) = s
  <2> DEFINE t == <<e>> \o s
  <2>1. <<e>> \in Seq(E) /\ Len(<<e>>) = 1 /\ <<e>>[1] = e
    OBVIOUS
  <2>2. t \in Seq(E) /\ Len(t) = 1 + Len(s) /\ Len(s) \in Nat
    BY <2>1, ConcatProperties
  <2>3. \A i \in 1..(1 + Len(s)) : t[i] = IF i <= 1 THEN e ELSE s[i - 1]
    BY <2>1, ConcatProperties
  <2> HIDE DEF t
  <2>4. t # << >>
    BY <2>2
  <2>5. Head(t) = e
    BY <2>2, <2>3, <2>4
  <2>6. Tail(t) \in Seq(E) /\ Len(Tail(t)) = Len(s)
        /\ \A i \in 1..Len(s) : Tail(t)[i] = t[i + 1]
    BY <2>2, <2>4, HeadTailProperties
  <2>7. \A i \in 1..Len(s) : Tail(t)[i] = s[i]
    BY <2>2, <2>3, <2>6
  <2>8. Tail(t) = s
    BY <2>6, <2>7, SeqEqual
  <2> QED BY <2>2, <2>4, <2>5, <2>8 DEF t
<1>2. ASSUME NEW s \in Seq(E), s # << >>
      PROVE  Head(s) \in E /\ Tail(s) \in Seq(E) /\ s = <<Head(s)>> \o Tail(s)
  <2> DEFINE t == <<Head(s)>> \o Tail(s)
  <2>1. /\ Head(s) \in E /\ Tail(s) \in Seq(E) /\ Len(Tail(s)) = Len(s) - 1
        /\ \A i \in 1..Len(Tail(s)) : Tail(s)[i] = s[i + 1]
        /\ Head(s) = s[1] /\ Len(s) \in Nat /\ Len(s) >= 1
    BY <1>2, HeadTailProperties
  <2>2. <<Head(s)>> \in Seq(E) /\ Len(<<Head(s)>>) = 1 /\ <<Head(s)>>[1] = s[1]
    BY <2>1
  <2>3. /\ t \in Seq(E) /\ Len(t) = 1 + Len(Tail(s))
        /\ \A i \in 1..(1 + Len(Tail(s))) :
             t[i] = IF i <= 1 THEN <<Head(s)>>[i] ELSE Tail(s)[i - 1]
    BY <2>1, <2>2, ConcatProperties
  <2> HIDE DEF t
  <2>4. ASSUME NEW i \in 1..Len(s) PROVE s[i] = t[i]
    <3>1. CASE i = 1
      BY <2>1, <2>2, <2>3, <3>1
    <3>2. CASE i # 1
      <4>1. i - 1 \in 1..Len(Tail(s)) /\ (i - 1) + 1 = i
        BY <2>1, <3>2
      <4> QED BY <2>1, <2>3, <3>2, <4>1
    <3> QED BY <3>1, <3>2
  <2>5. Len(t) = Len(s)
    BY <2>1, <2>3
  <2>6. s = t
    BY <2>3, <2>4, <2>5, SeqEqual
  <2> QED BY <2>1, <2>6 DEF t
<1> QED BY <1>1, <1>2

\* A concatenation taken apart.
LEMMA SplitConcat ==
  ASSUME NEW E, NEW s \in Seq(E), NEW t \in Seq(E)
  PROVE  /\ SubSeq(s \o t, 1, Len(s)) = s
         /\ SubSeq(s \o t, Len(s) + 1, Len(s \o t)) = t
<1> DEFINE c == s \o t
           x == SubSeq(c, 1, Len(s))
           y == SubSeq(c, Len(s) + 1, Len(c))
<1>1. /\ c \in Seq(E) /\ Len(c) = Len(s) + Len(t)
      /\ \A i \in 1..(Len(s) + Len(t)) : c[i] = IF i <= Len(s) THEN s[i] ELSE t[i - Len(s)]
      /\ Len(s) \in Nat /\ Len(t) \in Nat /\ Len(c) \in Nat
      /\ \A i \in 1..Len(c) : c[i] \in E
  BY ConcatProperties
<1> HIDE DEF c
<1>2. /\ x \in Seq(E) /\ Len(x) = Len(s)
      /\ \A i \in 1..Len(s) : x[i] = c[i]
  <2>1. \A i \in 1..Len(s) : c[i] \in E
    BY <1>1
  <2>2. /\ x \in Seq(E) /\ Len(x) = IF 1 <= Len(s) THEN Len(s) - 1 + 1 ELSE 0
        /\ \A i \in 1..(Len(s) - 1 + 1) : x[i] = c[1 + i - 1]
    BY <1>1, <2>1, SubSeqProperties
  <2> QED BY <1>1, <2>2
<1>3. /\ y \in Seq(E) /\ Len(y) = Len(t)
      /\ \A i \in 1..Len(t) : y[i] = c[Len(s) + i]
  <2>1. \A i \in (Len(s) + 1)..Len(c) : c[i] \in E
    BY <1>1
  <2>2. /\ y \in Seq(E)
        /\ Len(y) = IF Len(s) + 1 <= Len(c) THEN Len(c) - (Len(s) + 1) + 1 ELSE 0
        /\ \A i \in 1..(Len(c) - (Len(s) + 1) + 1) : y[i] = c[(Len(s) + 1) + i - 1]
    BY <1>1, <2>1, SubSeqProperties
  <2>3. \A i \in 1..Len(t) : i \in 1..(Len(c) - (Len(s) + 1) + 1)
                             /\ (Len(s) + 1) + i - 1 = Len(s) + i
    BY <1>1
  <2>4. \A i \in 1..Len(t) : y[i] = c[Len(s) + i]
    BY <2>2, <2>3
  <2> QED BY <1>1, <2>2, <2>4
<1> HIDE DEF x, y
<1>4. x = s
  <2>1. \A i \in 1..Len(x) : x[i] = s[i]
    BY <1>1, <1>2
  <2> QED BY <1>2, <2>1, SeqEqual
<1>5. y = t
  <2>1. \A i \in 1..Len(y) : y[i] = t[i]
    BY <1>1, <1>3
  <2> QED BY <1>3, <2>1, SeqEqual
<1> QED BY <1>4, <1>5 DEF c, x, y

LEMMA FlattenCons ==
  ASSUME NEW E, NEW s \in Seq(E), NEW ss \in Seq(Seq(E))
  PROVE  Flatten(E, <<s>> \o ss) = s \o Flatten(E, ss)
<1> DEFINE V == Seq(E)
<1>1. /\ <<s>> \o ss \in Seq(V) /\ <<s>> \o ss # << >>
      /\ Head(<<s>> \o ss) = s /\ Tail(<<s>> \o ss) = ss
  <2>1. s \in V /\ ss \in Seq(V)
    OBVIOUS
  <2> HIDE DEF V
  <2> QED BY <2>1, ConsFacts
<1>2. Flatten(E, <<s>> \o ss) = Head(<<s>> \o ss) \o Flatten(E, Tail(<<s>> \o ss))
  BY <1>1, FlattenDef
<1> QED BY <1>1, <1>2

LEMMA FlattenOne ==
  ASSUME NEW E, NEW s \in Seq(E)
  PROVE  Flatten(E, <<s>>) = s
<1>1. Flatten(E, <<s>>) = s \o Flatten(E, << >>)
  <2>1. <<s>> \in Seq(Seq(E)) /\ <<s>> # << >> /\ Head(<<s>>) = s /\ Tail(<<s>>) = << >>
    OBVIOUS
  <2> QED BY <2>1, FlattenDef
<1> QED BY <1>1, FlattenDef, ConcatEmptySeq

LEMMA FlattenConcat ==
  ASSUME NEW E, NEW ss \in Seq(Seq(E)), NEW tt \in Seq(Seq(E))
  PROVE  Flatten(E, ss \o tt) = Flatten(E, ss) \o Flatten(E, tt)
<1> DEFINE V == Seq(E)
           S == {t \in Seq(V) : Flatten(E, t \o tt) = Flatten(E, t) \o Flatten(E, tt)}
<1>1. << >> \in S
  <2>1. << >> \o tt = tt /\ Flatten(E, << >>) = << >> /\ Flatten(E, tt) \in Seq(E)
    BY FlattenDef, ConcatEmptySeq
  <2>2. << >> \o Flatten(E, tt) = Flatten(E, tt)
    BY <2>1, ConcatEmptySeq
  <2> QED BY <2>1, <2>2
<1>2. ASSUME NEW t \in Seq(V), t # << >>, Tail(t) \in S PROVE t \in S
  <2> DEFINE h == Head(t)
             r == Tail(t)
  <2>1. h \in Seq(E) /\ r \in Seq(Seq(E)) /\ t = <<h>> \o r /\ <<h>> \in Seq(Seq(E))
    BY <1>2, ConsFacts
  <2>2. /\ Flatten(E, r) \in Seq(E) /\ Flatten(E, tt) \in Seq(E)
        /\ r \o tt \in Seq(Seq(E)) /\ Flatten(E, t) = h \o Flatten(E, r)
    BY <1>2, <2>1, FlattenDef, ConcatProperties
  <2>3. Flatten(E, r \o tt) = Flatten(E, r) \o Flatten(E, tt)
    BY <1>2
  <2> HIDE DEF h, r
  <2>4. t \o tt = <<h>> \o (r \o tt)
    BY <2>1, ConcatAssociative
  <2>5. Flatten(E, t \o tt) = h \o Flatten(E, r \o tt)
    BY <2>1, <2>2, <2>4, FlattenCons
  <2>6. (h \o Flatten(E, r)) \o Flatten(E, tt) = h \o (Flatten(E, r) \o Flatten(E, tt))
    BY <2>1, <2>2, ConcatAssociative
  <2> QED BY <2>2, <2>3, <2>5, <2>6
<1> HIDE DEF S
<1>3. Seq(V) \subseteq S
  <2> HIDE DEF V
  <2> QED BY <1>1, <1>2, SeqInduction
<1> QED BY <1>3 DEF S

LEMMA SumConcat ==
  ASSUME NEW a \in Seq(Nat), NEW b \in Seq(Nat)
  PROVE  SumOf[a \o b] = SumOf[a] + SumOf[b]
<1> DEFINE S == {t \in Seq(Nat) : SumOf[t \o b] = SumOf[t] + SumOf[b]}
<1>1. << >> \in S
  BY SumDef, ConcatEmptySeq
<1>2. ASSUME NEW t \in Seq(Nat), t # << >>, Tail(t) \in S PROVE t \in S
  <2> DEFINE h == Head(t)
             r == Tail(t)
  <2>1. h \in Nat /\ r \in Seq(Nat) /\ t = <<h>> \o r /\ <<h>> \in Seq(Nat)
    BY <1>2, ConsFacts
  <2>2. SumOf[r \o b] = SumOf[r] + SumOf[b] /\ SumOf[t] = h + SumOf[r]
    BY <1>2, SumDef
  <2> HIDE DEF h, r
  <2>3. t \o b = <<h>> \o (r \o b) /\ r \o b \in Seq(Nat)
    BY <2>1, ConcatAssociative, ConcatProperties
  <2>4. /\ t \o b \in Seq(Nat) /\ t \o b # << >>
        /\ Head(t \o b) = h /\ Tail(t \o b) = r \o b
    <3>1. \A e \in Nat, s \in Seq(Nat) :
            /\ <<e>> \o s \in Seq(Nat) /\ <<e>> \o s # << >>
            /\ Head(<<e>> \o s) = e /\ Tail(<<e>> \o s) = s
      BY ConsFacts
    <3> QED BY <2>1, <2>3, <3>1
  <2>5. SumOf[t \o b] = h + SumOf[r \o b]
    BY <2>4, SumDef
  <2>6. SumOf[r] \in Nat /\ SumOf[b] \in Nat
    BY <2>1, SumDef
  <2> QED BY <2>1, <2>2, <2>5, <2>6
<1> HIDE DEF S
<1>3. Seq(Nat) \subseteq S
  BY <1>1, <1>2, SeqInduction
<1> QED BY <1>3 DEF S

\* The lengths of sequences, one by one.
Lens(ss) == [i \in 1..Len(ss) |-> Len(ss[i])]

LEMMA LensType ==
  ASSUME NEW E, NEW ss \in Seq(Seq(E))
  PROVE  Lens(ss) \in Seq(Nat) /\ Len(Lens(ss)) = Len(ss)
BY DEF Lens

LEMMA LensCons ==
  ASSUME NEW E, NEW ss \in Seq(Seq(E)), ss # << >>
  PROVE  /\ Lens(ss) # << >> /\ Head(Lens(ss)) = Len(Head(ss))
         /\ Tail(Lens(ss)) = Lens(Tail(ss))
<1> DEFINE V == Seq(E)
<1>1. /\ Tail(ss) \in Seq(V) /\ Len(Tail(ss)) = Len(ss) - 1 /\ Len(ss) \in Nat \ {0}
      /\ \A i \in 1..Len(Tail(ss)) : Tail(ss)[i] = ss[i + 1]
  BY HeadTailProperties
<1>2. /\ Lens(ss) \in Seq(Nat) /\ Len(Lens(ss)) = Len(ss)
      /\ Lens(Tail(ss)) \in Seq(Nat) /\ Len(Lens(Tail(ss))) = Len(ss) - 1
  BY <1>1, LensType
<1>3. Lens(ss) # << >>
  BY <1>1, <1>2
<1>4. /\ \A i \in 1..Len(ss) : Lens(ss)[i] = Len(ss[i])
      /\ \A i \in 1..(Len(ss) - 1) : Lens(Tail(ss))[i] = Len(ss[i + 1])
  BY <1>1 DEF Lens
<1>5. Head(Lens(ss)) = Len(Head(ss))
  BY <1>1, <1>2, <1>4
<1>6. /\ Tail(Lens(ss)) \in Seq(Nat) /\ Len(Tail(Lens(ss))) = Len(ss) - 1
      /\ \A i \in 1..(Len(ss) - 1) : Tail(Lens(ss))[i] = Lens(ss)[i + 1]
  BY <1>2, <1>3, HeadTailProperties
<1>7. \A i \in 1..(Len(ss) - 1) : Tail(Lens(ss))[i] = Lens(Tail(ss))[i]
  BY <1>1, <1>4, <1>6
<1>8. Tail(Lens(ss)) = Lens(Tail(ss))
  BY <1>2, <1>6, <1>7, SeqEqual
<1> QED BY <1>3, <1>5, <1>8

LEMMA LensConcat ==
  ASSUME NEW E, NEW ss \in Seq(Seq(E)), NEW tt \in Seq(Seq(E))
  PROVE  Lens(ss \o tt) = Lens(ss) \o Lens(tt)
<1> DEFINE V == Seq(E)
           p == Lens(ss)
           q == Lens(tt)
           x == Lens(ss \o tt)
           y == p \o q
<1>1. /\ ss \o tt \in Seq(V) /\ Len(ss \o tt) = Len(ss) + Len(tt)
      /\ Len(ss) \in Nat /\ Len(tt) \in Nat
      /\ \A i \in 1..(Len(ss) + Len(tt)) :
           (ss \o tt)[i] = IF i <= Len(ss) THEN ss[i] ELSE tt[i - Len(ss)]
  BY ConcatProperties
<1>2. /\ x \in Seq(Nat) /\ Len(x) = Len(ss) + Len(tt)
      /\ p \in Seq(Nat) /\ Len(p) = Len(ss)
      /\ q \in Seq(Nat) /\ Len(q) = Len(tt)
  BY <1>1, LensType
<1>3. /\ y \in Seq(Nat) /\ Len(y) = Len(ss) + Len(tt)
      /\ \A i \in 1..(Len(ss) + Len(tt)) :
           y[i] = IF i <= Len(ss) THEN p[i] ELSE q[i - Len(ss)]
  <2> HIDE DEF x, p, q
  <2>1. /\ p \o q \in Seq(Nat) /\ Len(p \o q) = Len(p) + Len(q)
        /\ \A i \in 1..(Len(p) + Len(q)) :
             (p \o q)[i] = IF i <= Len(p) THEN p[i] ELSE q[i - Len(p)]
    <3> HIDE <1>2
    <3>1. p \in Seq(Nat) /\ q \in Seq(Nat)
      BY <1>2
    <3> QED BY <3>1, ConcatProperties
  <2>2. Len(p) = Len(ss) /\ Len(q) = Len(tt)
    BY <1>2
  <2> QED BY <2>1, <2>2
<1>4. /\ \A i \in 1..(Len(ss) + Len(tt)) : x[i] = Len((ss \o tt)[i])
      /\ \A i \in 1..Len(ss) : p[i] = Len(ss[i])
      /\ \A i \in 1..Len(tt) : q[i] = Len(tt[i])
  BY <1>1 DEF Lens
<1> HIDE DEF x, y, p, q
<1>5. ASSUME NEW i \in 1..Len(x) PROVE x[i] = y[i]
  <2>1. CASE i <= Len(ss)
    <3>1. i \in 1..Len(ss) /\ i \in 1..(Len(ss) + Len(tt))
      BY <1>1, <1>2, <2>1
    <3> QED BY <1>1, <1>3, <1>4, <2>1, <3>1
  <2>2. CASE ~(i <= Len(ss))
    <3>1. i - Len(ss) \in 1..Len(tt) /\ i \in 1..(Len(ss) + Len(tt))
      BY <1>1, <1>2, <2>2
    <3> QED BY <1>1, <1>3, <1>4, <2>2, <3>1
  <2> QED BY <2>1, <2>2
<1>6. x = y
  BY <1>2, <1>3, <1>5, SeqEqual
<1> QED BY <1>6 DEF x, y, p, q

LEMMA FlattenLen ==
  ASSUME NEW E, NEW ss \in Seq(Seq(E))
  PROVE  Len(Flatten(E, ss)) = SumOf[Lens(ss)]
<1> DEFINE V == Seq(E)
           S == {t \in Seq(V) : Len(Flatten(E, t)) = SumOf[Lens(t)]}
<1>1. << >> \in S
  <2>1. Lens(<< >>) = << >>
    BY DEF Lens
  <2>2. Flatten(E, << >>) = << >>
    BY FlattenDef
  <2>3. SumOf[<< >>] = 0 /\ Len(<< >>) = 0 /\ << >> \in Seq(V)
    BY SumDef
  <2> QED BY <2>1, <2>2, <2>3
<1>2. ASSUME NEW t \in Seq(V), t # << >>, Tail(t) \in S PROVE t \in S
  <2> DEFINE h == Head(t)
             r == Tail(t)
  <2>1. h \in Seq(E) /\ r \in Seq(Seq(E))
    BY <1>2, ConsFacts
  <2>2. /\ Len(Flatten(E, r)) = SumOf[Lens(r)] /\ Flatten(E, r) \in Seq(E)
        /\ Flatten(E, t) = h \o Flatten(E, r)
    BY <1>2, <2>1, FlattenDef
  <2>3. Len(Flatten(E, t)) = Len(h) + SumOf[Lens(r)]
    <3> HIDE DEF h, r
    <3>1. Len(h \o Flatten(E, r)) = Len(h) + Len(Flatten(E, r))
      BY <2>1, <2>2, ConcatProperties
    <3> QED BY <2>2, <3>1
  <2>4. /\ Lens(t) \in Seq(Nat) /\ Lens(t) # << >> /\ Head(Lens(t)) = Len(h)
        /\ Tail(Lens(t)) = Lens(r)
    BY <1>2, LensType, LensCons
  <2>5. SumOf[Lens(t)] = Len(h) + SumOf[Lens(r)]
    BY <2>4, SumDef
  <2> QED BY <2>3, <2>5
<1> HIDE DEF S
<1>3. Seq(V) \subseteq S
  <2> HIDE DEF V
  <2> QED BY <1>1, <1>2, SeqInduction
<1> QED BY <1>3 DEF S

\* The lengths of the sequences in sequences of sequences, summed in two steps.
LEMMA FlattenSum ==
  ASSUME NEW E, NEW sss \in Seq(Seq(Seq(E)))
  PROVE  SumOf[Lens(Flatten(Seq(E), sss))]
           = SumOf[[i \in 1..Len(sss) |-> SumOf[Lens(sss[i])]]]
<1> DEFINE V == Seq(E)
           W == Seq(V)
           Sums(t) == [i \in 1..Len(t) |-> SumOf[Lens(t[i])]]
           S == {t \in Seq(W) : SumOf[Lens(Flatten(V, t))] = SumOf[Sums(t)]}
<1>1. << >> \in S
  <2>1. Lens(<< >>) = << >> /\ Sums(<< >>) = << >>
    BY DEF Lens
  <2> QED BY <2>1, FlattenDef
<1>2. ASSUME NEW t \in Seq(W), t # << >>, Tail(t) \in S PROVE t \in S
  <2> DEFINE h == Head(t)
             r == Tail(t)
  <2>1. /\ h \in W /\ r \in Seq(W) /\ Len(r) = Len(t) - 1 /\ Len(t) \in Nat \ {0}
        /\ h = t[1] /\ \A i \in 1..Len(r) : r[i] = t[i + 1]
    BY <1>2, HeadTailProperties
  <2>2. \A u \in W : SumOf[Lens(u)] \in Nat
    BY LensType, SumDef
  <2>3. SumOf[Lens(Flatten(V, r))] = SumOf[Sums(r)]
    BY <1>2
  <2>4. SumOf[Lens(Flatten(V, t))] = SumOf[Lens(h)] + SumOf[Sums(r)]
    <3>1. Flatten(V, t) = h \o Flatten(V, r) /\ Flatten(V, r) \in W
      <4> HIDE DEF V
      <4> QED BY <1>2, <2>1, FlattenDef
    <3>2. Lens(Flatten(V, t)) = Lens(h) \o Lens(Flatten(V, r))
      BY <2>1, <3>1, LensConcat
    <3>3. Lens(h) \in Seq(Nat) /\ Lens(Flatten(V, r)) \in Seq(Nat)
      BY <2>1, <3>1, LensType
    <3> HIDE DEF V, W, h, r, Sums
    <3> QED BY <2>3, <3>2, <3>3, SumConcat
  <2>5. SumOf[Sums(t)] = SumOf[Lens(h)] + SumOf[Sums(r)]
    <3>1. \A u \in Seq(W) : Sums(u) \in Seq(Nat) /\ Len(Sums(u)) = Len(u)
      <4>1. ASSUME NEW u \in Seq(W) PROVE Sums(u) \in Seq(Nat) /\ Len(Sums(u)) = Len(u)
        <5>1. \A i \in 1..Len(u) : u[i] \in W
          OBVIOUS
        <5>2. \A i \in 1..Len(u) : SumOf[Lens(u[i])] \in Nat
          BY <2>2, <5>1
        <5>3. Len(u) \in Nat
          OBVIOUS
        <5> QED BY <5>2, <5>3
      <4> QED BY <4>1
    <3>2. /\ \A i \in 1..Len(t) : Sums(t)[i] = SumOf[Lens(t[i])]
          /\ \A i \in 1..Len(r) : Sums(r)[i] = SumOf[Lens(r[i])]
      OBVIOUS
    <3> DEFINE a == Sums(t)
               b == Sums(r)
    <3>3. a \in Seq(Nat) /\ Len(a) = Len(t) /\ b \in Seq(Nat) /\ Len(b) = Len(t) - 1
      BY <2>1, <3>1
    <3>4. a[1] = SumOf[Lens(h)] /\ \A i \in 1..(Len(t) - 1) : a[i + 1] = b[i]
      <4> HIDE DEF Sums, h, r
      <4>1. 1 \in 1..Len(t) /\ \A i \in 1..Len(r) : i + 1 \in 1..Len(t)
        BY <2>1
      <4>2. a[1] = SumOf[Lens(h)]
        BY <2>1, <3>2, <4>1
      <4>3. \A i \in 1..Len(r) : a[i + 1] = b[i]
        BY <2>1, <3>2, <4>1
      <4> QED BY <2>1, <4>2, <4>3
    <3> HIDE DEF a, b
    <3>5. a # << >>
      BY <2>1, <3>3
    <3>6. Head(a) = SumOf[Lens(h)]
      BY <3>3, <3>4, <3>5
    <3>7. /\ Tail(a) \in Seq(Nat) /\ Len(Tail(a)) = Len(t) - 1
          /\ \A i \in 1..(Len(t) - 1) : Tail(a)[i] = a[i + 1]
      BY <2>1, <3>3, <3>5, HeadTailProperties
    <3>8. Tail(a) = b
      BY <3>3, <3>4, <3>7, SeqEqual
    <3>9. SumOf[a] = SumOf[Lens(h)] + SumOf[b]
      BY <3>3, <3>5, <3>6, <3>8, SumDef
    <3> QED BY <3>9 DEF a, b
  <2> QED BY <2>4, <2>5
<1> HIDE DEF S
<1>3. Seq(W) \subseteq S
  <2> HIDE DEF W
  <2> QED BY <1>1, <1>2, SeqInduction
<1> QED BY <1>3 DEF S

-----------------------------------------------------------------------------
(***************************************************************************)
(* What is written piece by piece is cut into the same pieces, if every    *)
(* piece, whatever follows it, tells where it ends.                        *)
(***************************************************************************)
Delimited(L, r) == r # << >> /\ \A t \in Seq(Byte) : L[r \o t] = Len(r)

LEMMA CutFlatten ==
  ASSUME NEW L \in [Seq(Byte) -> Nat], NEW rs \in Seq(Seq(Byte)),
         \A i \in 1..Len(rs) : Delimited(L, rs[i])
  PROVE  Cut(L, Flatten(Byte, rs)) = rs
<1> DEFINE V == Seq(Byte)
           All(t) == \A i \in 1..Len(t) : Delimited(L, t[i])
           S == {t \in Seq(V) : All(t) => Cut(L, Flatten(Byte, t)) = t}
<1>1. << >> \in S
  <2>1. << >> \in Seq(Byte) /\ ~(L[<< >>] \in 1..Len(<< >>))
    OBVIOUS
  <2>2. Cut(L, << >>) = << >>
    BY <2>1, CutDef
  <2> QED BY <2>2, FlattenDef
<1>2. ASSUME NEW t \in Seq(V), t # << >>, Tail(t) \in S PROVE t \in S
  <2> DEFINE h == Head(t)
             r == Tail(t)
             c == Flatten(Byte, t)
  <2>1. SUFFICES ASSUME All(t) PROVE Cut(L, c) = t
    OBVIOUS
  <2>2. /\ h \in V /\ r \in Seq(V) /\ Len(r) = Len(t) - 1 /\ Len(t) \in Nat \ {0}
        /\ h = t[1] /\ \A i \in 1..Len(r) : r[i] = t[i + 1]
    BY <1>2, HeadTailProperties
  <2>3. All(r) /\ Delimited(L, h)
    <3>1. \A i \in 1..Len(r) : i + 1 \in 1..Len(t) /\ r[i] = t[i + 1]
      BY <2>2
    <3>2. 1 \in 1..Len(t)
      BY <2>2
    <3> QED BY <2>1, <2>2, <3>1, <3>2
  <2>4. Cut(L, Flatten(Byte, r)) = r
    BY <1>2, <2>3
  <2>5. c = h \o Flatten(Byte, r) /\ Flatten(Byte, r) \in V /\ c \in V
    BY <1>2, <2>2, FlattenDef
  <2>6. t = <<h>> \o r
    <3> HIDE DEF V
    <3> QED BY <1>2, ConsFacts
  <2> DEFINE d == Flatten(Byte, r)
  <2>11. c = h \o d /\ d \in V /\ c \in V /\ Cut(L, d) = r
    BY <2>4, <2>5
  <2> HIDE DEF h, r, c, d, All
  <2>7. /\ Len(c) = Len(h) + Len(d) /\ Len(h) \in Nat \ {0} /\ Len(d) \in Nat
        /\ L[c] = Len(h)
    <3>1. Len(h) \in Nat \ {0} /\ L[h \o d] = Len(h)
      BY <2>2, <2>3, <2>11 DEF Delimited
    <3> QED BY <2>2, <2>11, <3>1, ConcatProperties
  <2>8. SubSeq(c, 1, Len(h)) = h /\ SubSeq(c, Len(h) + 1, Len(c)) = d
    BY <2>2, <2>11, SplitConcat
  <2>9. L[c] \in 1..Len(c)
    BY <2>7
  <2>10. Cut(L, c) = <<SubSeq(c, 1, L[c])>> \o Cut(L, SubSeq(c, L[c] + 1, Len(c)))
    BY <2>9, <2>11, CutDef
  <2> QED BY <2>6, <2>7, <2>8, <2>10, <2>11
<1> HIDE DEF S
<1>3. Seq(V) \subseteq S
  <2> HIDE DEF V
  <2> QED BY <1>1, <1>2, SeqInduction
<1> QED BY <1>3 DEF S

-----------------------------------------------------------------------------
(* Varints.                                                                *)

\* Every byte but the last has its continuation bit set.
LEMMA VarintShape ==
  \A u \in Nat : LET s == UnsafeVarint[u]
                 IN  /\ s \in Seq(Byte) /\ Len(s) \in Nat \ {0}
                     /\ \A i \in 1..(Len(s) - 1) : s[i] >= 128
                     /\ s[Len(s)] < 128
<1> DEFINE Shape(s) == /\ s \in Seq(Byte) /\ Len(s) \in Nat \ {0}
                       /\ \A i \in 1..(Len(s) - 1) : s[i] >= 128
                       /\ s[Len(s)] < 128
           S == {u \in Nat : Shape(UnsafeVarint[u])}
           m == [u \in Nat |-> u]
<1>1. ASSUME NEW u \in Nat, \A k \in Nat : m[k] < m[u] => k \in S
      PROVE  u \in S
  <2>1. CASE u < 128
    <3>1. UnsafeVarint[u] = <<u>>
      BY <2>1, UnsafeVarintDef
    <3>2. Shape(<<u>>)
      BY <2>1 DEF Byte
    <3> QED BY <3>1, <3>2
  <2>2. CASE u >= 128
    <3> DEFINE x == (u % 128) + 128
               r == UnsafeVarint[u \div 128]
               s == <<x>> \o r
    <3>1. u \div 128 \in Nat /\ u \div 128 < u /\ x \in Byte /\ x >= 128
      BY <2>2 DEF Byte
    <3>2. Shape(r) /\ UnsafeVarint[u] = s
      <4>1. UnsafeVarint[u] = s
        BY <2>2, UnsafeVarintDef, ~(u < 128)
      <4>2. u \div 128 \in S
        BY <1>1, <3>1
      <4> HIDE DEF Shape
      <4> QED BY <4>1, <4>2
    <3>3. <<x>> \in Seq(Byte) /\ Len(<<x>>) = 1 /\ <<x>>[1] = x
      BY <3>1
    <3> HIDE DEF x, r
    <3>4. /\ s \in Seq(Byte) /\ Len(s) = 1 + Len(r)
          /\ \A i \in 1..(1 + Len(r)) : s[i] = IF i <= 1 THEN x ELSE r[i - 1]
      BY <3>2, <3>3, ConcatProperties
    <3> HIDE DEF s
    <3>5. s[Len(s)] = r[Len(r)]
      BY <3>2, <3>4
    <3>6. ASSUME NEW i \in 1..(Len(s) - 1) PROVE s[i] >= 128
      <4>1. CASE i = 1
        BY <3>1, <3>2, <3>4, <4>1
      <4>2. CASE i # 1
        <5>1. i - 1 \in 1..(Len(r) - 1) /\ i \in 1..(1 + Len(r)) /\ ~(i <= 1)
          BY <3>2, <3>4, <4>2
        <5> QED BY <3>2, <3>4, <5>1
      <4> QED BY <4>1, <4>2
    <3>7. Shape(s)
      BY <3>2, <3>4, <3>5, <3>6
    <3> HIDE DEF Shape
    <3> QED BY <3>2, <3>7
  <2> QED BY <2>1, <2>2
<1> HIDE DEF S
<1>2. Nat \subseteq S
  <2>1. m \in [Nat -> Nat]
    OBVIOUS
  <2> HIDE DEF m
  <2> QED BY <1>1, <2>1, MeasureInduction
<1> QED BY <1>2 DEF S

\* A varint is read as it was written, whatever follows it.
LEMMA VarintRead ==
  ASSUME NEW t \in Seq(Byte)
  PROVE  \A u \in Nat : ReadVarint[UnsafeVarint[u] \o t] = u
<1> DEFINE S == {u \in Nat : ReadVarint[UnsafeVarint[u] \o t] = u}
           m == [u \in Nat |-> u]
<1>0. ASSUME NEW x \in Byte, NEW r \in Seq(Byte)
      PROVE  ReadVarint[<<x>> \o r] = IF x < 128 THEN x ELSE x - 128 + 128 * ReadVarint[r]
  <2> DEFINE c == <<x>> \o r
  <2>1. c \in Seq(Byte) /\ c # << >> /\ Head(c) = x /\ Tail(c) = r
    BY ConsFacts
  <2> HIDE DEF c
  <2>2. c[1] = x
    BY <2>1
  <2>3. ReadVarint[c] =
          IF c[1] < 128 THEN c[1] ELSE c[1] - 128 + 128 * ReadVarint[Tail(c)]
    BY <2>1, ReadVarintDef
  <2>4. ReadVarint[c] = IF x < 128 THEN x ELSE x - 128 + 128 * ReadVarint[r]
    BY <2>1, <2>2, <2>3
  <2> QED BY <2>4 DEF c
<1>1. ASSUME NEW u \in Nat, \A k \in Nat : m[k] < m[u] => k \in S
      PROVE  u \in S
  <2>1. CASE u < 128
    <3>1. UnsafeVarint[u] = <<u>>
      BY <2>1, UnsafeVarintDef
    <3>2. u \in Byte
      BY <2>1 DEF Byte
    <3> QED BY <1>0, <2>1, <3>1, <3>2
  <2>2. CASE u >= 128
    <3> DEFINE x == (u % 128) + 128
               r == UnsafeVarint[u \div 128]
    <3>1. /\ u \div 128 \in Nat /\ u \div 128 < u /\ x \in Byte /\ x >= 128
          /\ x - 128 + 128 * (u \div 128) = u
      BY <2>2 DEF Byte
    <3>2. /\ r \in Seq(Byte) /\ UnsafeVarint[u] = <<x>> \o r
          /\ ReadVarint[r \o t] = u \div 128
      <4>1. UnsafeVarint[u] = <<x>> \o r
        BY <2>2, UnsafeVarintDef, ~(u < 128)
      <4>2. r \in Seq(Byte)
        BY <3>1, UnsafeVarintDef
      <4>3. u \div 128 \in S
        BY <1>1, <3>1
      <4> QED BY <4>1, <4>2, <4>3
    <3> HIDE DEF x, r
    <3>3. UnsafeVarint[u] \o t = <<x>> \o (r \o t) /\ r \o t \in Seq(Byte)
      <4>1. <<x>> \in Seq(Byte)
        BY <3>1
      <4> QED BY <3>2, <4>1, ConcatAssociative, ConcatProperties
    <3>4. ReadVarint[UnsafeVarint[u] \o t] = x - 128 + 128 * (u \div 128)
      <4> DEFINE q == r \o t
      <4>1. ReadVarint[<<x>> \o q] = IF x < 128 THEN x ELSE x - 128 + 128 * ReadVarint[q]
        <5> HIDE DEF q
        <5> QED BY <1>0, <3>1, <3>3 DEF q
      <4>2. ~(x < 128)
        BY <3>1 DEF Byte
      <4> QED BY <3>2, <3>3, <4>1, <4>2
    <3> QED BY <3>1, <3>4
  <2> QED BY <2>1, <2>2
<1> HIDE DEF S
<1>2. Nat \subseteq S
  <2>1. m \in [Nat -> Nat]
    OBVIOUS
  <2> HIDE DEF m
  <2> QED BY <1>1, <2>1, MeasureInduction
<1> QED BY <1>2 DEF S

\* And its end is found.
LEMMA VarintDelimited ==
  ASSUME NEW u \in Nat, NEW t \in Seq(Byte)
  PROVE  VarintLength[UnsafeVarint[u] \o t] = Len(UnsafeVarint[u])
<1> DEFINE s == UnsafeVarint[u]
           c == s \o t
<1>1. /\ s \in Seq(Byte) /\ Len(s) \in Nat \ {0}
      /\ \A i \in 1..(Len(s) - 1) : s[i] >= 128
      /\ s[Len(s)] < 128
  BY VarintShape
<1> HIDE DEF s
<1>2. /\ c \in Seq(Byte) /\ Len(c) = Len(s) + Len(t) /\ Len(t) \in Nat
      /\ \A i \in 1..(Len(s) + Len(t)) : c[i] = IF i <= Len(s) THEN s[i] ELSE t[i - Len(s)]
  BY <1>1, ConcatProperties
<1> HIDE DEF c
<1>3. DOMAIN c = 1..(Len(s) + Len(t))
  BY <1>2
<1> DEFINE Ends(n) == c[n] < 128 /\ \A i \in 1..(n - 1) : c[i] >= 128
<1>4. Len(s) \in DOMAIN c /\ Ends(Len(s))
  <2>1. Len(s) \in 1..(Len(s) + Len(t))
    BY <1>1, <1>2
  <2>2. c[Len(s)] = s[Len(s)]
    BY <1>2, <2>1
  <2>3. ASSUME NEW i \in 1..(Len(s) - 1) PROVE c[i] >= 128
    <3>1. i \in 1..(Len(s) + Len(t)) /\ i <= Len(s)
      BY <1>1, <1>2
    <3> QED BY <1>1, <1>2, <3>1
  <2> QED BY <1>1, <1>3, <2>1, <2>2, <2>3
<1>5. ASSUME NEW n \in DOMAIN c, Ends(n) PROVE n = Len(s)
  <2>1. n \in Nat /\ n >= 1 /\ c[n] \in Byte
    BY <1>2, <1>3
  <2>2. c[Len(s)] \in Byte
    BY <1>2, <1>3, <1>4
  <2>3. \A x \in Byte : x \in Int
    BY DEF Byte
  <2>4. ~(n < Len(s))
    <3>1. SUFFICES ASSUME n < Len(s) PROVE FALSE
      OBVIOUS
    <3>2. n \in 1..(Len(s) - 1)
      BY <1>1, <2>1, <3>1
    <3> QED BY <1>4, <1>5, <2>1, <2>3, <3>2
  <2>5. ~(Len(s) < n)
    <3>1. SUFFICES ASSUME Len(s) < n PROVE FALSE
      OBVIOUS
    <3>2. Len(s) \in 1..(n - 1)
      BY <1>1, <2>1, <3>1
    <3> QED BY <1>4, <1>5, <2>2, <2>3, <3>2
  <2> QED BY <1>1, <2>1, <2>4, <2>5
<1>6. c[Len(s)] < 128
  BY <1>4
<1>7. VarintLength[c] = CHOOSE n \in DOMAIN c : Ends(n)
  <2>1. \E n \in DOMAIN c : c[n] < 128
    BY <1>4, <1>6
  <2> QED BY <1>2, <2>1 DEF VarintLength
<1> HIDE DEF Ends
<1>8. VarintLength[c] = Len(s)
  BY <1>4, <1>5, <1>7
<1> QED BY <1>8 DEF c, s

LEMMA VarintLengthType == VarintLength \in [Seq(Byte) -> Nat]
<1>1. ASSUME NEW b \in Seq(Byte) PROVE VarintLength[b] \in Nat
  <2> DEFINE Ends(j) == b[j] < 128 /\ \A i \in 1..(j - 1) : b[i] >= 128
             k == CHOOSE n \in DOMAIN b : Ends(n)
             T == {n \in DOMAIN b : b[n] < 128}
  <2>1. VarintLength[b] = IF \E n \in DOMAIN b : b[n] < 128 THEN k ELSE 0
    BY DEF VarintLength
  <2>2. ASSUME \E n \in DOMAIN b : b[n] < 128 PROVE k \in Nat
    <3> DEFINE m == [n \in DOMAIN b |-> n]
    <3>1. /\ DOMAIN b \subseteq Nat
          /\ \A n \in DOMAIN b : 1..(n - 1) \subseteq DOMAIN b
          /\ \A n \in DOMAIN b : n - 1 < n /\ \A i \in 1..(n - 1) : i < n
      OBVIOUS
    <3>2. \E n \in DOMAIN b : Ends(n)
      <4>1. SUFFICES ASSUME \A n \in DOMAIN b : ~Ends(n) PROVE FALSE
        OBVIOUS
      <4> DEFINE S == {n \in DOMAIN b : ~(b[n] < 128)}
      <4>2. m \in [DOMAIN b -> Nat]
        BY <3>1
      <4>3. ASSUME NEW n \in DOMAIN b, \A e \in DOMAIN b : m[e] < m[n] => e \in S
            PROVE  n \in S
        <5>1. \A i \in 1..(n - 1) : ~(b[i] < 128) /\ b[i] \in Byte
          BY <3>1, <4>3
        <5>2. \A x \in Byte : ~(x < 128) => x >= 128
          BY DEF Byte
        <5>3. \A i \in 1..(n - 1) : b[i] >= 128
          BY <5>1, <5>2
        <5> QED BY <4>1, <5>3
      <4> HIDE DEF S, m
      <4>4. DOMAIN b \subseteq S
        <5> DEFINE D == DOMAIN b
        <5> HIDE DEF D
        <5>1. D \subseteq S
          BY <4>2, <4>3, MeasureInduction DEF D
        <5> QED BY <5>1 DEF D
      <4> QED BY <2>2, <4>4 DEF S
    <3> HIDE DEF Ends
    <3>3. k \in DOMAIN b
      BY <3>2
    <3> QED BY <3>1, <3>3
  <2> HIDE DEF k
  <2> QED BY <2>1, <2>2
<1>2. VarintLength = [b \in Seq(Byte) |-> VarintLength[b]]
  BY DEF VarintLength
<1> QED BY <1>1, <1>2

-----------------------------------------------------------------------------
(* Sizes of varints, and numbers that are negative.                        *)

LEMMA Log2Monotone ==
  \A u, v \in Nat \ {0} : u <= v => Log2FloorNonZero[u] <= Log2FloorNonZero[v]
<1> DEFINE D == Nat \ {0}
           S == {u \in D : \A v \in D : u <= v => Log2FloorNonZero[u] <= Log2FloorNonZero[v]}
           m == [u \in D |-> u]
<1>1. ASSUME NEW u \in D, \A k \in D : m[k] < m[u] => k \in S
      PROVE  u \in S
  <2> SUFFICES ASSUME NEW v \in D, u <= v
               PROVE  Log2FloorNonZero[u] <= Log2FloorNonZero[v]
    OBVIOUS
  <2>1. \A w \in D : Log2FloorNonZero[w] \in Nat
    BY Log2Def
  <2>2. CASE u = 1
    BY <2>1, <2>2, Log2Def
  <2>3. CASE u # 1
    <3>1. /\ u \div 2 \in D /\ v \div 2 \in D /\ u \div 2 < u
          /\ u \div 2 <= v \div 2 /\ v # 1
      BY <2>3
    <3>2. u \div 2 \in S
      BY <1>1, <3>1
    <3>3. Log2FloorNonZero[u \div 2] <= Log2FloorNonZero[v \div 2]
      BY <3>1, <3>2
    <3>4. /\ Log2FloorNonZero[u] = 1 + Log2FloorNonZero[u \div 2]
          /\ Log2FloorNonZero[v] = 1 + Log2FloorNonZero[v \div 2]
      BY <2>3, <3>1, Log2Def
    <3> QED BY <2>1, <3>1, <3>3, <3>4
  <2> QED BY <2>2, <2>3
<1> HIDE DEF S
<1>2. D \subseteq S
  <2>1. m \in [D -> Nat]
    OBVIOUS
  <2> HIDE DEF m, D
  <2> QED BY <1>1, <2>1, MeasureInduction
<1> QED BY <1>2 DEF S

LEMMA Log2Small == \A u \in 1..127 : Log2FloorNonZero[u] \in 0..6
<1> DEFINE Below(n, k) == \A u \in 1..(n - 1) : Log2FloorNonZero[u] \in 0..k
<1>1. Below(2, 0)
  BY Log2Def
<1>2. ASSUME NEW n \in Nat, NEW k \in Nat, Below(n, k)
      PROVE  Below(2 * n, k + 1)
  <2> SUFFICES ASSUME NEW u \in 1..(2 * n - 1)
               PROVE  Log2FloorNonZero[u] \in 0..(k + 1)
    OBVIOUS
  <2>1. CASE u = 1
    BY <2>1, Log2Def
  <2>2. CASE u # 1
    <3>1. u \in Nat \ {0, 1} /\ u \div 2 \in 1..(n - 1)
      BY <2>2
    <3>2. Log2FloorNonZero[u \div 2] \in 0..k
      BY <1>2, <3>1
    <3>3. Log2FloorNonZero[u] = 1 + Log2FloorNonZero[u \div 2]
      BY <3>1, Log2Def
    <3> QED BY <3>2, <3>3
  <2> QED BY <2>1, <2>2
<1> HIDE DEF Below
<1>3. Below(4, 1)
  BY <1>1, <1>2, 2 * 2 = 4, 0 + 1 = 1
<1>4. Below(8, 2)
  BY <1>2, <1>3, 2 * 4 = 8, 1 + 1 = 2
<1>5. Below(16, 3)
  BY <1>2, <1>4, 2 * 8 = 16, 2 + 1 = 3
<1>6. Below(32, 4)
  BY <1>2, <1>5, 2 * 16 = 32, 3 + 1 = 4
<1>7. Below(64, 5)
  BY <1>2, <1>6, 2 * 32 = 64, 4 + 1 = 5
<1>8. Below(128, 6)
  BY <1>2, <1>7, 2 * 64 = 128, 5 + 1 = 6
<1> QED BY <1>8 DEF Below

\* Seven bits more for every byte more.
LEMMA Log2Step ==
  ASSUME NEW u \in Nat, u >= 128
  PROVE  Log2FloorNonZero[u] = 7 + Log2FloorNonZero[u \div 128]
<1> DEFINE H(v) == v \div 2
<1>1. \A v \in Nat : v >= 2 => Log2FloorNonZero[v] = 1 + Log2FloorNonZero[H(v)]
  BY Log2Def
<1> DEFINE u1 == H(u)
           u2 == H(u1)
           u3 == H(u2)
           u4 == H(u3)
           u5 == H(u4)
           u6 == H(u5)
<1>2. /\ u1 \in Nat /\ u1 >= 64 /\ u2 \in Nat /\ u2 >= 32
      /\ u3 \in Nat /\ u3 >= 16 /\ u4 \in Nat /\ u4 >= 8
      /\ u5 \in Nat /\ u5 >= 4 /\ u6 \in Nat /\ u6 >= 2
  OBVIOUS
<1>3. H(u6) = u \div 128 /\ u \div 128 \in Nat \ {0}
  OBVIOUS
<1> HIDE DEF H
<1>4. /\ Log2FloorNonZero[u] = 1 + Log2FloorNonZero[u1]
      /\ Log2FloorNonZero[u1] = 1 + Log2FloorNonZero[u2]
      /\ Log2FloorNonZero[u2] = 1 + Log2FloorNonZero[u3]
      /\ Log2FloorNonZero[u3] = 1 + Log2FloorNonZero[u4]
      /\ Log2FloorNonZero[u4] = 1 + Log2FloorNonZero[u5]
      /\ Log2FloorNonZero[u5] = 1 + Log2FloorNonZero[u6]
      /\ Log2FloorNonZero[u6] = 1 + Log2FloorNonZero[H(u6)]
  <2> HIDE DEF u1, u2, u3, u4, u5, u6
  <2> QED BY <1>1, <1>2 DEF u1, u2, u3, u4, u5, u6
<1>5. Log2FloorNonZero[u \div 128] \in Nat
  BY <1>3, Log2Def
<1> HIDE DEF u1, u2, u3, u4, u5, u6
<1> QED BY <1>3, <1>4, <1>5

\* The magic formula counts sevens of bits.
LEMMA MagicSize ==
  \A u \in Nat \ {0} : Log2FloorNonZero[u] <= 63 =>
    (Log2FloorNonZero[u] * 9 + 73) \div 64 = Len(UnsafeVarint[u])
<1> DEFINE D == Nat \ {0}
           S == {u \in D : Log2FloorNonZero[u] <= 63 =>
                   (Log2FloorNonZero[u] * 9 + 73) \div 64 = Len(UnsafeVarint[u])}
           m == [u \in D |-> u]
<1>1. ASSUME NEW u \in D, \A k \in D : m[k] < m[u] => k \in S
      PROVE  u \in S
  <2>1. CASE u < 128
    <3>1. Log2FloorNonZero[u] \in 0..6 /\ UnsafeVarint[u] = <<u>>
      <4>1. u \in 1..127
        BY <2>1
      <4>2. UnsafeVarint[u] = <<u>>
        BY <2>1, UnsafeVarintDef
      <4> QED BY <4>1, <4>2, Log2Small
    <3>2. (Log2FloorNonZero[u] * 9 + 73) \div 64 = 1
      BY <3>1
    <3> QED BY <3>1, <3>2
  <2>2. CASE u >= 128
    <3> DEFINE v == u \div 128
               l == Log2FloorNonZero[v]
    <3>1. v \in D /\ v < u /\ v \in Nat
      BY <2>2
    <3>2. SUFFICES ASSUME Log2FloorNonZero[u] <= 63
                   PROVE  (Log2FloorNonZero[u] * 9 + 73) \div 64 = Len(UnsafeVarint[u])
      OBVIOUS
    <3>3. Log2FloorNonZero[u] = 7 + l /\ l \in Nat
      BY <2>2, <3>1, Log2Step, Log2Def
    <3>4. v \in S
      BY <1>1, <3>1
    <3>5. l <= 63 => (l * 9 + 73) \div 64 = Len(UnsafeVarint[v])
      BY <3>4
    <3>6. Len(UnsafeVarint[u]) = 1 + Len(UnsafeVarint[v])
      <4> DEFINE x == (u % 128) + 128
                 r == UnsafeVarint[v]
      <4>1. UnsafeVarint[u] = <<x>> \o r
        BY <2>2, UnsafeVarintDef, ~(u < 128)
      <4>2. x \in Byte
        BY DEF Byte
      <4>3. r \in Seq(Byte)
        BY <3>1, UnsafeVarintDef
      <4>4. <<x>> \in Seq(Byte) /\ Len(<<x>>) = 1
        BY <4>2
      <4> HIDE DEF x, r
      <4>5. Len(<<x>> \o r) = 1 + Len(r)
        BY <4>3, <4>4, ConcatProperties
      <4> QED BY <4>1, <4>5 DEF r
    <3> HIDE DEF l, v
    <3>7. l \in 0..56
      BY <3>2, <3>3
    <3>8. (l * 9 + 73) \div 64 = Len(UnsafeVarint[v])
      BY <3>5, <3>7
    <3>9. ((7 + l) * 9 + 73) \div 64 = 1 + (l * 9 + 73) \div 64
      BY <3>7
    <3> QED BY <3>3, <3>6, <3>8, <3>9
  <2> QED BY <2>1, <2>2
<1> HIDE DEF S
<1>2. D \subseteq S
  <2>1. m \in [D -> Nat]
    OBVIOUS
  <2> HIDE DEF m, D
  <2> QED BY <1>1, <2>1, MeasureInduction
<1> QED BY <1>2 DEF S

\* The size of a varint is the number of its bytes.
LEMMA VarintSizeIs ==
  ASSUME NEW u \in 0..(Wide - 1)
  PROVE  VarintSize(u) = Len(UnsafeVarint[u])
<1>1. Wide \in Nat /\ Wide - 1 \in Nat \ {0} /\ Log2FloorNonZero[Wide - 1] <= 63
  BY WidthAssumption
<1>2. CASE u = 0
  <2>1. Log2FloorNonZero[1] = 0 /\ UnsafeVarint[0] = <<0>>
    <3>1. 0 \in Nat /\ 0 < 128
      OBVIOUS
    <3>2. UnsafeVarint[0] = <<0>>
      BY <3>1, UnsafeVarintDef
    <3> QED BY <3>2, Log2Def
  <2>2. (0 * 9 + 73) \div 64 = 1 /\ Len(<<0>>) = 1
    OBVIOUS
  <2> QED BY <1>2, <2>1, <2>2 DEF VarintSize
<1>3. CASE u # 0
  <2>1. u \in Nat \ {0} /\ u <= Wide - 1
    BY <1>1, <1>3
  <2>2. Log2FloorNonZero[u] <= Log2FloorNonZero[Wide - 1]
    BY <1>1, <2>1, Log2Monotone
  <2>3. Log2FloorNonZero[u] \in Nat /\ Log2FloorNonZero[Wide - 1] \in Nat
    BY <1>1, <2>1, Log2Def
  <2>4. Log2FloorNonZero[u] <= 63
    BY <1>1, <2>2, <2>3
  <2> QED BY <1>3, <2>1, <2>4, MagicSize DEF VarintSize
<1> QED BY <1>2, <1>3

LEMMA WordFacts ==
  /\ Wide \in Nat /\ Word \in Nat /\ Word \div 2 \in Nat /\ 2 * (Word \div 2) = Word
  /\ 1 <= Word \div 2 /\ Word < Wide /\ SizeLimit \in Nat /\ 1 <= SizeLimit
  /\ \E q \in Nat : Wide = q * Word
<1>1. Wide \in Nat /\ Word \in Nat \ {0} /\ Wide % Word = 0 /\ Word % 2 = 0
  BY WidthAssumption
<1>2. 2 * (Word \div 2) = Word /\ Word \div 2 \in Nat /\ 1 <= Word \div 2
  BY <1>1
<1>3. Wide \div Word \in Nat /\ Wide = (Wide \div Word) * Word
  BY <1>1
<1> QED BY <1>2, <1>3, WidthAssumption

\* What is left of a number when a whole number of words is taken away.
LEMMA LowBits ==
  ASSUME NEW w \in Nat \ {0}, NEW q \in Int, NEW r \in 0..(w - 1)
  PROVE  (q * w + r) % w = r
<1> DEFINE n == q * w + r
           d == n \div w
           e == n % w
<1>1. n \in Int /\ d \in Int /\ e \in 0..(w - 1) /\ n = d * w + e
  OBVIOUS
<1>2. n = q * w + r
  OBVIOUS
<1> HIDE DEF n, d, e
<1>3. (d - q) * w = r - e
  BY <1>1, <1>2
<1>4. -w < r - e /\ r - e < w
  BY <1>1
<1>5. d - q = 0
  <2>1. ASSUME d - q >= 1 PROVE FALSE
    <3>1. (d - q) * w >= w
      BY <1>1, <2>1
    <3> QED BY <1>1, <1>3, <1>4, <3>1
  <2>2. ASSUME d - q <= -1 PROVE FALSE
    <3>1. (d - q) * w <= -w
      BY <1>1, <2>2
    <3> QED BY <1>1, <1>3, <1>4, <3>1
  <2> QED BY <1>1, <2>1, <2>2
<1>6. e = r
  BY <1>1, <1>3, <1>5
<1> QED BY <1>6 DEF e, n

\* An int32 is read as it was written, its sign included.
LEMMA SignedSurvives ==
  ASSUME NEW v \in Values("int32")
  PROVE  /\ SignExtend(v) \in 0..(Wide - 1)
         /\ Narrow("int32", SignExtend(v)) = v
         /\ v # 0 => VarintSizeSignExtended(v) = Len(UnsafeVarint[SignExtend(v)])
<1> DEFINE h == Word \div 2
           u == SignExtend(v)
<1>1. /\ Wide \in Nat /\ Word \in Nat \ {0} /\ h \in Nat /\ 2 * h = Word /\ 1 <= h
      /\ Word < Wide
  BY WordFacts
<1>2. v \in (-h)..(h - 1)
  BY DEF Values
<1> HIDE DEF h
<1>3. u \in 0..(Wide - 1) /\ v \in Int
  BY <1>1, <1>2 DEF SignExtend
<1>4. u % Word = IF v < 0 THEN v + Word ELSE v
  <2>1. PICK q \in Nat : Wide = q * Word
    BY WordFacts
  <2>2. CASE v < 0
    <3>1. u = (q - 1) * Word + (v + Word) /\ v + Word \in 0..(Word - 1) /\ q - 1 \in Int
      BY <1>1, <1>2, <2>1, <2>2 DEF SignExtend
    <3>2. ((q - 1) * Word + (v + Word)) % Word = v + Word
      BY <1>1, <3>1, LowBits
    <3> QED BY <2>2, <3>1, <3>2
  <2>3. CASE ~(v < 0)
    <3>1. u = 0 * Word + v /\ v \in 0..(Word - 1) /\ 0 \in Int
      BY <1>1, <1>2, <2>3 DEF SignExtend
    <3>2. (0 * Word + v) % Word = v
      BY <1>1, <3>1, LowBits
    <3> QED BY <2>3, <3>1, <3>2
  <2> QED BY <2>2, <2>3
<1>5. Narrow("int32", u) = v
  <2>1. Narrow("int32", u) = IF 2 * (u % Word) >= Word THEN (u % Word) - Word ELSE u % Word
    BY DEF Narrow
  <2> HIDE DEF u
  <2>2. CASE v < 0
    BY <1>1, <1>2, <1>4, <2>1, <2>2
  <2>3. CASE ~(v < 0)
    BY <1>1, <1>2, <1>4, <2>1, <2>3
  <2> QED BY <2>2, <2>3
<1>6. VarintSizeSignExtended(v) = Len(UnsafeVarint[u])
  <2>1. CASE v < 0
    <3>1. VarintSizeSignExtended(v) = VarintSize(Wide - 1)
      BY <2>1 DEF VarintSizeSignExtended
    <3>2. VarintSize(u) = Len(UnsafeVarint[u])
      <4> HIDE DEF u
      <4> QED BY <1>3, VarintSizeIs
    <3>3. /\ Wide - Word \in Nat \ {0} /\ Wide - 1 \in Nat \ {0} /\ u \in Nat \ {0}
          /\ Wide - Word <= u /\ u <= Wide - 1
      BY <1>1, <1>2, <2>1 DEF SignExtend
    <3> HIDE DEF u
    <3>4. /\ Log2FloorNonZero[Wide - Word] <= Log2FloorNonZero[u]
          /\ Log2FloorNonZero[u] <= Log2FloorNonZero[Wide - 1]
          /\ Log2FloorNonZero[u] \in Nat /\ Log2FloorNonZero[Wide - 1] \in Nat
      BY <3>3, Log2Monotone, Log2Def
    <3>5. Log2FloorNonZero[u] = Log2FloorNonZero[Wide - 1]
      BY <3>4, WidthAssumption
    <3>6. VarintSize(u) = VarintSize(Wide - 1)
      BY <3>3, <3>5 DEF VarintSize
    <3> QED BY <3>1, <3>2, <3>6
  <2>2. CASE ~(v < 0)
    <3>1. u = v /\ VarintSizeSignExtended(v) = VarintSize(v)
      BY <2>2 DEF SignExtend, VarintSizeSignExtended
    <3> HIDE DEF u
    <3> QED BY <1>3, <3>1, VarintSizeIs
  <2> QED BY <2>1, <2>2
<1> QED BY <1>3, <1>5, <1>6

-----------------------------------------------------------------------------
(***************************************************************************)
(* Records: what a field writes tells its number, its content and its end. *)
(***************************************************************************)
Numbers == 1..15

LEMMA RecordLengthType == RecordLength \in [Seq(Byte) -> Nat]
<1>1. ASSUME NEW b \in Seq(Byte) PROVE RecordLength[b] \in Nat
  <2> DEFINE n == VarintLength[Tail(b)]
             k == ReadVarint[Tail(b)]
  <2>1. RecordLength[b] = IF b = << >> THEN 0
                          ELSE IF n = 0 THEN 0
                          ELSE IF Head(b) % 8 = 0 THEN 1 + n ELSE 1 + n + k
    BY DEF RecordLength
  <2>2. b # << >> => Tail(b) \in Seq(Byte)
    BY HeadTailProperties
  <2>3. b # << >> => n \in Nat /\ k \in Nat
    BY <2>2, VarintLengthType, ReadVarintDef
  <2> HIDE DEF n, k
  <2> QED BY <2>1, <2>3
<1>2. RecordLength = [b \in Seq(Byte) |-> RecordLength[b]]
  BY DEF RecordLength
<1> QED BY <1>1, <1>2

\* A record is a tag, a varint and what is behind them.
LEMMA RecordShape ==
  ASSUME NEW tag \in Byte, NEW u \in Nat, NEW s \in Seq(Byte)
  PROVE  LET r == <<tag>> \o (UnsafeVarint[u] \o s)
         IN  /\ r \in Seq(Byte) /\ r # << >>
             /\ Head(r) = tag
             /\ VarintLength[Tail(r)] = Len(UnsafeVarint[u]) /\ ReadVarint[Tail(r)] = u
             /\ Len(r) = 1 + Len(UnsafeVarint[u]) + Len(s)
             /\ Body(r) = s
<1> DEFINE k == UnsafeVarint[u]
           c == k \o s
           r == <<tag>> \o c
<1>1. k \in Seq(Byte) /\ Len(k) \in Nat \ {0} /\ Len(s) \in Nat
  BY VarintShape
<1>2. VarintLength[c] = Len(k) /\ ReadVarint[c] = u
  BY VarintDelimited, VarintRead
<1> HIDE DEF k
<1>3. c \in Seq(Byte) /\ Len(c) = Len(k) + Len(s)
  BY <1>1, ConcatProperties
<1> HIDE DEF c
<1>4. r \in Seq(Byte) /\ r # << >> /\ Head(r) = tag /\ Tail(r) = c
  BY <1>3, ConsFacts
<1>5. <<tag>> \in Seq(Byte) /\ Len(<<tag>>) = 1
  OBVIOUS
<1>6. Len(r) = 1 + Len(k) + Len(s)
  <2>1. Len(r) = Len(<<tag>>) + Len(c)
    BY <1>3, <1>5, ConcatProperties
  <2> QED BY <1>1, <1>3, <1>5, <2>1
<1>7. Body(r) = s
  <2> DEFINE p == <<tag>> \o k
  <2>1. r = p \o s
    BY <1>1, <1>5, ConcatAssociative DEF c
  <2>2. p \in Seq(Byte) /\ Len(p) = 1 + Len(k)
    BY <1>1, <1>5, ConcatProperties
  <2> HIDE DEF p, r
  <2>3. SubSeq(r, Len(p) + 1, Len(r)) = s
    BY <2>1, <2>2, SplitConcat
  <2>4. VarintLength[Tail(r)] + 2 = Len(p) + 1
    <3>1. VarintLength[Tail(r)] = Len(k)
      BY <1>2, <1>4
    <3> HIDE DEF c
    <3> QED BY <1>1, <2>2, <3>1
  <2> QED BY <2>3, <2>4 DEF Body
<1> QED BY <1>2, <1>4, <1>6, <1>7 DEF c, k

\* A number's record: nothing behind the varint.
LEMMA ScalarRecord ==
  ASSUME NEW f \in Numbers, NEW u \in Nat
  PROVE  LET r == <<8 * f>> \o UnsafeVarint[u]
         IN  /\ r \in Seq(Byte)
             /\ Delimited(RecordLength, r)
             /\ Head(r) \div 8 = f
             /\ ReadVarint[Tail(r)] = u
             /\ Len(r) = 1 + Len(UnsafeVarint[u])
<1> DEFINE k == UnsafeVarint[u]
           r == <<8 * f>> \o k
<1>1. 8 * f \in Byte /\ (8 * f) \div 8 = f /\ (8 * f) % 8 = 0
  BY DEF Byte, Numbers
<1>2. k \in Seq(Byte) /\ Len(k) \in Nat \ {0}
  BY VarintShape
<1>3. << >> \in Seq(Byte) /\ k \o << >> = k /\ Len(<< >>) = 0
  BY <1>2, ConcatEmptySeq
<1>4. /\ r \in Seq(Byte) /\ r # << >> /\ Head(r) = 8 * f
      /\ ReadVarint[Tail(r)] = u /\ Len(r) = 1 + Len(k)
  <2> DEFINE q == <<8 * f>> \o (k \o << >>)
  <2>1. /\ q \in Seq(Byte) /\ q # << >> /\ Head(q) = 8 * f
        /\ ReadVarint[Tail(q)] = u /\ Len(q) = 1 + Len(k) + Len(<< >>)
    BY <1>1, <1>3, RecordShape
  <2>2. q = r
    BY <1>3
  <2> HIDE DEF q, r, k
  <2> QED BY <1>2, <1>3, <2>1, <2>2
<1>5. ASSUME NEW t \in Seq(Byte) PROVE RecordLength[r \o t] = Len(r)
  <2> DEFINE q == <<8 * f>> \o (k \o t)
  <2>1. /\ q \in Seq(Byte) /\ q # << >> /\ Head(q) = 8 * f
        /\ VarintLength[Tail(q)] = Len(k)
    BY <1>1, RecordShape
  <2>2. r \o t = q
    <3>1. <<8 * f>> \in Seq(Byte)
      BY <1>1
    <3> HIDE DEF k
    <3> QED BY <1>2, <3>1, ConcatAssociative
  <2> HIDE DEF q, r, k
  <2>3. RecordLength[q] = 1 + Len(k)
    BY <1>1, <1>2, <2>1 DEF RecordLength
  <2> QED BY <1>4, <2>2, <2>3
<1> HIDE DEF r
<1>6. Delimited(RecordLength, r)
  BY <1>4, <1>5 DEF Delimited
<1> QED BY <1>1, <1>4, <1>6 DEF r

\* A string's record: its length and its bytes.
LEMMA DelimitedRecord ==
  ASSUME NEW f \in Numbers, NEW s \in Seq(Byte)
  PROVE  LET r == <<8 * f + 2>> \o WriteLengthDelim(s)
         IN  /\ r \in Seq(Byte)
             /\ Delimited(RecordLength, r)
             /\ Head(r) \div 8 = f
             /\ Body(r) = s
             /\ Len(r) = 1 + Len(UnsafeVarint[Len(s)]) + Len(s)
<1> DEFINE tag == 8 * f + 2
           n == Len(s)
           k == UnsafeVarint[n]
           r == <<tag>> \o (k \o s)
<1>1. tag \in Byte /\ tag \div 8 = f /\ tag % 8 = 2 /\ n \in Nat
  BY DEF Byte, Numbers
<1>2. k \in Seq(Byte) /\ Len(k) \in Nat \ {0}
  BY <1>1, VarintShape
<1>3. /\ r \in Seq(Byte) /\ r # << >> /\ Head(r) = tag /\ Body(r) = s
      /\ Len(r) = 1 + Len(k) + n
  <2> HIDE DEF tag
  <2> QED BY <1>1, RecordShape
<1> HIDE DEF tag
<1>4. ASSUME NEW t \in Seq(Byte) PROVE RecordLength[r \o t] = Len(r)
  <2> DEFINE q == <<tag>> \o (k \o (s \o t))
  <2>1. s \o t \in Seq(Byte) /\ <<tag>> \in Seq(Byte) /\ k \o s \in Seq(Byte)
    BY <1>1, <1>2, ConcatProperties
  <2>2. /\ q \in Seq(Byte) /\ q # << >> /\ Head(q) = tag
        /\ VarintLength[Tail(q)] = Len(k) /\ ReadVarint[Tail(q)] = n
    <3> DEFINE x == s \o t
    <3>1. x \in Seq(Byte)
      BY <2>1
    <3> HIDE DEF x, n
    <3>2. LET y == <<tag>> \o (UnsafeVarint[n] \o x)
          IN  /\ y \in Seq(Byte) /\ y # << >> /\ Head(y) = tag
              /\ VarintLength[Tail(y)] = Len(UnsafeVarint[n]) /\ ReadVarint[Tail(y)] = n
      BY <1>1, <3>1, RecordShape
    <3> QED BY <3>2 DEF x
  <2>3. r \o t = q
    <3> HIDE DEF k
    <3>1. r \o t = <<tag>> \o ((k \o s) \o t)
      BY <2>1, ConcatAssociative
    <3>2. (k \o s) \o t = k \o (s \o t)
      BY <1>2, ConcatAssociative
    <3> QED BY <3>1, <3>2
  <2> HIDE DEF q, r, k, n
  <2>4. RecordLength[q] = 1 + Len(k) + n
    BY <1>1, <1>2, <2>2 DEF RecordLength
  <2> QED BY <1>3, <2>3, <2>4
<1> HIDE DEF r
<1>5. Delimited(RecordLength, r)
  BY <1>3, <1>4 DEF Delimited
<1>6. r = <<8 * f + 2>> \o WriteLengthDelim(s)
  BY DEF r, tag, WriteLengthDelim
<1>7. /\ r \in Seq(Byte) /\ Delimited(RecordLength, r)
      /\ Head(r) \div 8 = f /\ Body(r) = s
      /\ Len(r) = 1 + Len(UnsafeVarint[Len(s)]) + Len(s)
  BY <1>1, <1>3, <1>5
<1> HIDE DEF k, n
<1> QED BY <1>6, <1>7

\* A list of numbers in one record.
Varints(v) == [i \in DOMAIN v |-> UnsafeVarint[v[i]]]

LEMMA PackedSurvives ==
  ASSUME NEW v \in Seq(Nat)
  PROVE  /\ Varints(v) \in Seq(Seq(Byte)) /\ Len(Varints(v)) = Len(v)
         /\ Flatten(Byte, Varints(v)) \in Seq(Byte)
         /\ ReadPacked(Flatten(Byte, Varints(v))) = v
<1> DEFINE ss == Varints(v)
<1>1. /\ ss \in Seq(Seq(Byte)) /\ Len(ss) = Len(v) /\ Len(v) \in Nat
      /\ \A i \in 1..Len(v) : v[i] \in Nat /\ ss[i] = UnsafeVarint[v[i]]
  <2>1. \A i \in 1..Len(v) : v[i] \in Nat
    OBVIOUS
  <2>2. \A u \in Nat : UnsafeVarint[u] \in Seq(Byte)
    BY UnsafeVarintDef
  <2> DEFINE B == Seq(Byte)
  <2>3. \A i \in 1..Len(v) : UnsafeVarint[v[i]] \in B
    BY <2>1, <2>2
  <2>4. ss = [i \in 1..Len(v) |-> UnsafeVarint[v[i]]] /\ Len(v) \in Nat
    BY DEF Varints
  <2> HIDE DEF ss, B
  <2>5. ss \in Seq(B) /\ Len(ss) = Len(v)
    BY <2>3, <2>4
  <2> QED BY <2>1, <2>4, <2>5 DEF B
<1>2. \A i \in 1..Len(ss) : Delimited(VarintLength, ss[i])
  <2>1. ASSUME NEW u \in Nat PROVE Delimited(VarintLength, UnsafeVarint[u])
    <3>1. UnsafeVarint[u] # << >>
      BY VarintShape
    <3> QED BY <3>1, VarintDelimited DEF Delimited
  <2> QED BY <1>1, <2>1
<1> HIDE DEF ss
<1>3. Cut(VarintLength, Flatten(Byte, ss)) = ss
  BY <1>1, <1>2, CutFlatten, VarintLengthType
<1>4. \A u \in Nat : ReadVarint[UnsafeVarint[u]] = u
  <2>1. ASSUME NEW u \in Nat PROVE ReadVarint[UnsafeVarint[u]] = u
    <3>1. UnsafeVarint[u] \in Seq(Byte) /\ << >> \in Seq(Byte)
      BY UnsafeVarintDef
    <3>2. UnsafeVarint[u] \o << >> = UnsafeVarint[u]
      BY <3>1, ConcatEmptySeq
    <3> QED BY <3>1, <3>2, VarintRead
  <2> QED BY <2>1
<1>5. ReadPacked(Flatten(Byte, ss)) = v
  <2>1. ReadPacked(Flatten(Byte, ss)) = [i \in DOMAIN ss |-> ReadVarint[ss[i]]]
    BY <1>3 DEF ReadPacked
  <2>2. DOMAIN ss = 1..Len(v) /\ DOMAIN v = 1..Len(v)
    BY <1>1
  <2>3. \A i \in 1..Len(v) : ReadVarint[ss[i]] = v[i]
    BY <1>1, <1>4
  <2>4. v = [i \in 1..Len(v) |-> v[i]]
    OBVIOUS
  <2> QED BY <2>1, <2>2, <2>3, <2>4
<1>6. Flatten(Byte, ss) \in Seq(Byte)
  BY <1>1, FlattenDef
<1> QED BY <1>1, <1>5, <1>6 DEF ss

-----------------------------------------------------------------------------
(***************************************************************************)
(* Fields.  A raw packet holds its objects' bytes for its objects.         *)
(***************************************************************************)
Plain == {"uint64", "int32", "string", "uint64s"}
Kinds == Plain \cup {"objects"}

\* What a field of a raw packet may hold, and what it holds by default.
Raw(kind) == IF kind = "objects" THEN Seq(Seq(Byte)) ELSE Values(kind)
Zero(kind) == IF kind \in {"uint64", "int32"} THEN 0 ELSE << >>

\* A number's bytes, as a uint64.
LEMMA ScalarValue ==
  ASSUME NEW kind \in {"uint64", "int32"}, NEW v \in Values(kind)
  PROVE  /\ SignExtend(v) \in 0..(Wide - 1) /\ SignExtend(v) \in Nat
         /\ Narrow(kind, SignExtend(v)) = v
         /\ v # 0 => PlainSize(kind, v) = 1 + Len(UnsafeVarint[SignExtend(v)])
<1>1. CASE kind = "uint64"
  <2>1. v \in 0..(Wide - 1) /\ SignExtend(v) = v
    BY <1>1 DEF Values, SignExtend
  <2>2. VarintSize(v) = Len(UnsafeVarint[v])
    BY <2>1, VarintSizeIs
  <2> QED BY <1>1, <2>1, <2>2 DEF Narrow, PlainSize
<1>2. CASE kind = "int32"
  <2>1. /\ SignExtend(v) \in 0..(Wide - 1) /\ Narrow("int32", SignExtend(v)) = v
        /\ v # 0 => VarintSizeSignExtended(v) = Len(UnsafeVarint[SignExtend(v)])
    BY <1>2, SignedSurvives
  <2>2. PlainSize(kind, v) = IF v = 0 THEN 0 ELSE 1 + VarintSizeSignExtended(v)
    BY <1>2 DEF PlainSize
  <2>3. SignExtend(v) \in Nat
    BY <2>1
  <2> QED BY <1>2, <2>1, <2>2, <2>3
<1> QED BY <1>1, <1>2

\* Every field writes records that are found again, one after another.
LEMMA RecordsFacts ==
  ASSUME NEW f \in Numbers, NEW kind \in Kinds, NEW v \in Raw(kind)
  PROVE  /\ Records(f, kind, v) \in Seq(Seq(Byte))
         /\ \A i \in 1..Len(Records(f, kind, v)) :
              /\ Delimited(RecordLength, Records(f, kind, v)[i])
              /\ Head(Records(f, kind, v)[i]) \div 8 = f
<1> DEFINE rs == Records(f, kind, v)
           Good(r) == /\ r \in Seq(Byte) /\ Delimited(RecordLength, r)
                      /\ Head(r) \div 8 = f
<1>1. ASSUME NEW r, Good(r)
      PROVE  /\ <<r>> \in Seq(Seq(Byte))
             /\ \A i \in 1..Len(<<r>>) : Delimited(RecordLength, <<r>>[i])
                                         /\ Head(<<r>>[i]) \div 8 = f
  <2>1. r \in Seq(Byte) /\ Delimited(RecordLength, r) /\ Head(r) \div 8 = f
    BY <1>1
  <2> HIDE DEF Good
  <2>2. Len(<<r>>) = 1 /\ <<r>>[1] = r /\ \A i \in 1..1 : i = 1
    OBVIOUS
  <2>3. <<r>> \in Seq(Seq(Byte))
    BY <2>1
  <2> QED BY <2>1, <2>2, <2>3
<1>2. ASSUME rs = << >>
      PROVE  /\ rs \in Seq(Seq(Byte))
             /\ \A i \in 1..Len(rs) : Delimited(RecordLength, rs[i])
                                      /\ Head(rs[i]) \div 8 = f
  <2> HIDE DEF rs
  <2> QED BY <1>2
<1>3. CASE kind \in {"uint64", "int32"}
  <2> DEFINE r == <<8 * f>> \o UnsafeVarint[SignExtend(v)]
  <2>1. rs = IF v = 0 THEN << >> ELSE <<r>>
    BY <1>3 DEF Records
  <2>2. SignExtend(v) \in Nat
    BY <1>3, ScalarValue DEF Raw
  <2>3. Good(r)
    BY <2>2, ScalarRecord
  <2> HIDE DEF r, rs, Good
  <2> QED BY <1>1, <1>2, <2>1, <2>3 DEF rs
<1>4. CASE kind = "string"
  <2> DEFINE r == <<8 * f + 2>> \o WriteLengthDelim(v)
  <2>1. rs = IF v = << >> THEN << >> ELSE <<r>>
    BY <1>4 DEF Records
  <2>2. v \in Seq(Byte)
    BY <1>4 DEF Raw, Values
  <2>3. Good(r)
    BY <2>2, DelimitedRecord
  <2> HIDE DEF r, rs, Good
  <2> QED BY <1>1, <1>2, <2>1, <2>3 DEF rs
<1>5. CASE kind = "uint64s"
  <2> DEFINE s == Flatten(Byte, Varints(v))
             r == <<8 * f + 2>> \o WriteLengthDelim(s)
  <2>1. rs = IF v = << >> THEN << >> ELSE <<r>>
    BY <1>5 DEF Records, Varints
  <2>2. v \in Seq(Nat)
    <3>1. v \in Seq(0..(Wide - 1)) /\ 0..(Wide - 1) \subseteq Nat
      BY <1>5 DEF Raw, Values
    <3> QED BY <3>1, SeqMonotonic
  <2>3. s \in Seq(Byte)
    BY <2>2, PackedSurvives
  <2> HIDE DEF s
  <2>4. Good(r)
    BY <2>3, DelimitedRecord
  <2> HIDE DEF r, rs, Good
  <2> QED BY <1>1, <1>2, <2>1, <2>4 DEF rs
<1>6. CASE kind = "objects"
  <2> DEFINE r(i) == <<8 * f + 2>> \o WriteLengthDelim(v[i])
             B == Seq(Byte)
  <2>1. rs = [i \in DOMAIN v |-> r(i)]
    BY <1>6 DEF Records
  <2>2. v \in Seq(Seq(Byte))
    BY <1>6 DEF Raw
  <2>3. \A i \in 1..Len(v) : Good(r(i))
    <3>1. ASSUME NEW s \in Seq(Byte) PROVE Good(<<8 * f + 2>> \o WriteLengthDelim(s))
      BY DelimitedRecord
    <3>2. \A i \in 1..Len(v) : v[i] \in Seq(Byte)
      BY <2>2
    <3> HIDE DEF Good
    <3> QED BY <3>1, <3>2
  <2>4. DOMAIN v = 1..Len(v) /\ Len(v) \in Nat
    BY <2>2
  <2>5. \A i \in 1..Len(v) : /\ r(i) \in B /\ Delimited(RecordLength, r(i))
                             /\ Head(r(i)) \div 8 = f
    BY <2>3
  <2> HIDE DEF r, rs, Good, B
  <2>6. rs \in Seq(B) /\ Len(rs) = Len(v) /\ \A i \in 1..Len(v) : rs[i] = r(i)
    BY <2>1, <2>4, <2>5
  <2> QED BY <2>5, <2>6 DEF rs, B
<1> QED BY <1>3, <1>4, <1>5, <1>6 DEF Kinds, Plain

\* What is in the records of a string and of objects.
LEMMA RecordBodies ==
  ASSUME NEW f \in Numbers, NEW kind \in {"string", "objects"}, NEW v \in Raw(kind)
  PROVE  /\ kind = "string" =>
              IF v = << >> THEN Len(Records(f, kind, v)) = 0
              ELSE Len(Records(f, kind, v)) = 1 /\ Body(Records(f, kind, v)[1]) = v
         /\ kind = "objects" =>
              /\ Len(Records(f, kind, v)) = Len(v)
              /\ \A i \in 1..Len(v) : Body(Records(f, kind, v)[i]) = v[i]
<1>1. ASSUME kind = "string"
      PROVE  IF v = << >> THEN Len(Records(f, kind, v)) = 0
             ELSE Len(Records(f, kind, v)) = 1 /\ Body(Records(f, kind, v)[1]) = v
  <2> DEFINE r == <<8 * f + 2>> \o WriteLengthDelim(v)
  <2>1. Records(f, kind, v) = IF v = << >> THEN << >> ELSE <<r>>
    BY <1>1 DEF Records
  <2>2. Body(r) = v
    <3>1. v \in Seq(Byte)
      BY <1>1 DEF Raw, Values
    <3> QED BY <3>1, DelimitedRecord
  <2>3. Len(<<r>>) = 1 /\ <<r>>[1] = r /\ Len(<< >>) = 0
    OBVIOUS
  <2> HIDE DEF r
  <2> QED BY <2>1, <2>2, <2>3
<1>2. ASSUME kind = "objects"
      PROVE  /\ Len(Records(f, kind, v)) = Len(v)
             /\ \A i \in 1..Len(v) : Body(Records(f, kind, v)[i]) = v[i]
  <2> DEFINE r(i) == <<8 * f + 2>> \o WriteLengthDelim(v[i])
             B == Seq(Byte)
  <2>1. Records(f, kind, v) = [i \in DOMAIN v |-> r(i)]
    BY <1>2 DEF Records
  <2>2. v \in Seq(Seq(Byte)) /\ Len(v) \in Nat /\ DOMAIN v = 1..Len(v)
    BY <1>2 DEF Raw
  <2>3. \A i \in 1..Len(v) : r(i) \in B /\ Body(r(i)) = v[i]
    <3>1. ASSUME NEW s \in Seq(Byte)
          PROVE  LET q == <<8 * f + 2>> \o WriteLengthDelim(s)
                 IN  q \in Seq(Byte) /\ Body(q) = s
      BY DelimitedRecord
    <3>2. \A i \in 1..Len(v) : v[i] \in Seq(Byte)
      BY <2>2
    <3> QED BY <3>1, <3>2
  <2> HIDE DEF r, B
  <2>4. [i \in 1..Len(v) |-> r(i)] \in Seq(B) /\ Len([i \in 1..Len(v) |-> r(i)]) = Len(v)
    BY <2>2, <2>3
  <2> QED BY <2>1, <2>2, <2>3, <2>4
<1> QED BY <1>1, <1>2

\* A field the parser stops at.
Bad(kind, v) ==
  \/ kind = "string" /\ v \in Malformed
  \/ kind = "objects" /\ \E i \in 1..Len(v) : ~InfoAccepted(v[i])

LEMMA FieldRefused ==
  ASSUME NEW type \in Seq(Kinds), NEW f \in Numbers, f \in DOMAIN type,
         NEW v \in Raw(type[f])
  PROVE  (\E i \in 1..Len(Records(f, type[f], v)) : Refused(type, Records(f, type[f], v)[i]))
           <=> Bad(type[f], v)
<1> DEFINE kind == type[f]
           rs == Records(f, kind, v)
<1>0. kind \in Kinds /\ v \in Raw(kind)
  BY ElementOfSeq
<1>1. \A i \in 1..Len(rs) : Head(rs[i]) \div 8 = f
  BY <1>0, RecordsFacts
<1>2. \A i \in 1..Len(rs) :
        Refused(type, rs[i]) <=> \/ kind = "string" /\ Body(rs[i]) \in Malformed
                                 \/ kind = "objects" /\ ~InfoAccepted(Body(rs[i]))
  <2> HIDE DEF rs
  <2> QED BY <1>1, Zenon DEF Refused, BadString
<1>3. CASE kind = "string"
  <2>1. IF v = << >> THEN Len(rs) = 0 ELSE Len(rs) = 1 /\ Body(rs[1]) = v
    BY <1>0, <1>3, RecordBodies
  <2>2. << >> \notin Malformed
    BY ContentAssumption
  <2> HIDE DEF rs
  <2>3. CASE v = << >>
    <3>1. Len(rs) = 0
      BY <2>1, <2>3, Zenon
    <3>2. \A i \in 1..Len(rs) : FALSE
      BY <3>1
    <3>3. ~Bad(type[f], v)
      BY <1>3, <2>2, <2>3 DEF Bad
    <3> QED BY <3>2, <3>3, Zenon DEF rs
  <2>4. CASE v # << >>
    <3>0. Len(rs) = 1 /\ Body(rs[1]) = v
      BY <2>1, <2>4, Zenon
    <3>1. \A i \in 1..Len(rs) : i = 1
      BY <3>0
    <3>2. 1 \in 1..Len(rs)
      BY <3>0
    <3>3. Refused(type, rs[1]) <=> v \in Malformed
      BY <1>2, <1>3, <3>0, <3>2
    <3>4. Bad(type[f], v) <=> v \in Malformed
      BY <1>3 DEF Bad
    <3> QED BY <3>1, <3>2, <3>3, <3>4, Zenon DEF rs
  <2> QED BY <2>3, <2>4
<1>4. CASE kind = "objects"
  <2>1. Len(rs) = Len(v) /\ \A i \in 1..Len(v) : Body(rs[i]) = v[i]
    BY <1>0, <1>4, RecordBodies
  <2> HIDE DEF rs
  <2>2. \A i \in 1..Len(v) : Refused(type, rs[i]) <=> ~InfoAccepted(v[i])
    BY <1>2, <1>4, <2>1
  <2>3. Bad(type[f], v) <=> \E i \in 1..Len(v) : ~InfoAccepted(v[i])
    BY <1>4 DEF Bad
  <2> QED BY <2>1, <2>2, <2>3, Zenon DEF rs
<1>5. CASE kind \notin {"string", "objects"}
  <2>1. ~Bad(type[f], v)
    BY <1>5 DEF Bad
  <2> HIDE DEF rs
  <2> QED BY <1>2, <1>5, <2>1, Zenon DEF rs
<1> QED BY <1>3, <1>4, <1>5

\* The states a loop goes through that puts one record after another.
Puts(type, x, rs) == \A j \in 1..Len(rs) : x[j] = Put(type, x[j - 1], rs[j])

Over(type, w) == w = [g \in DOMAIN type |-> w[g]]
Filled(w, f, v) == [w EXCEPT ![f] = v]

\* Whoever reads a field's records has what the field held.
LEMMA FieldRead ==
  ASSUME NEW type \in Seq(Kinds), NEW f \in Numbers, f \in DOMAIN type,
         NEW v \in Raw(type[f]),
         NEW w, Over(type, w), w[f] = Zero(type[f]),
         NEW x, x[0] = w, Puts(type, x, Records(f, type[f], v))
  PROVE  x[Len(Records(f, type[f], v))] = Filled(w, f, v)
<1> SUFFICES x[Len(Records(f, type[f], v))] = [w EXCEPT ![f] = v]
  BY DEF Filled
<1>0. w = [g \in DOMAIN type |-> w[g]]
  BY DEF Over
<1> USE <1>0
<1> DEFINE kind == type[f]
           rs == Records(f, kind, v)
<1>1. kind \in Kinds
  OBVIOUS
<1>2. ASSUME v = w[f] PROVE [w EXCEPT ![f] = v] = w
  BY <1>2
<1>3. ASSUME NEW r, rs = <<r>> PROVE Len(rs) = 1 /\ x[1] = Put(type, w, r)
  <2>1. Len(rs) = 1 /\ rs[1] = r
    BY <1>3
  <2>2. x[1] = Put(type, x[1 - 1], rs[1])
    BY <2>1 DEF Puts
  <2> QED BY <2>1, <2>2
<1>4. ASSUME rs = << >>, v = w[f] PROVE x[Len(rs)] = [w EXCEPT ![f] = v]
  BY <1>2, <1>4
<1>5. CASE kind \in {"uint64", "int32"}
  <2> DEFINE r == <<8 * f>> \o UnsafeVarint[SignExtend(v)]
  <2>1. rs = IF v = 0 THEN << >> ELSE <<r>>
    BY <1>5 DEF Records
  <2>2. SignExtend(v) \in Nat /\ Narrow(kind, SignExtend(v)) = v
    BY <1>5, ScalarValue DEF Raw
  <2>3. Head(r) \div 8 = f /\ ReadVarint[Tail(r)] = SignExtend(v)
    BY <2>2, ScalarRecord
  <2> HIDE DEF r
  <2>4. Put(type, w, r) = [w EXCEPT ![f] = v]
    BY <1>5, <2>2, <2>3 DEF Put
  <2>5. w[f] = 0
    BY <1>5 DEF Zero
  <2> HIDE DEF rs
  <2> QED BY <1>3, <1>4, <2>1, <2>4, <2>5 DEF rs
<1>6. CASE kind = "string"
  <2> DEFINE r == <<8 * f + 2>> \o WriteLengthDelim(v)
  <2>1. rs = IF v = << >> THEN << >> ELSE <<r>>
    BY <1>6 DEF Records
  <2>2. v \in Seq(Byte)
    BY <1>6 DEF Raw, Values
  <2>3. Head(r) \div 8 = f /\ Body(r) = v
    BY <2>2, DelimitedRecord
  <2> HIDE DEF r
  <2>4. Put(type, w, r) = [w EXCEPT ![f] = v]
    BY <1>6, <2>3 DEF Put
  <2>5. w[f] = << >>
    BY <1>6 DEF Zero
  <2> HIDE DEF rs
  <2> QED BY <1>3, <1>4, <2>1, <2>4, <2>5 DEF rs
<1>7. CASE kind = "uint64s"
  <2> DEFINE s == Flatten(Byte, Varints(v))
             r == <<8 * f + 2>> \o WriteLengthDelim(s)
  <2>1. rs = IF v = << >> THEN << >> ELSE <<r>>
    BY <1>7 DEF Records, Varints
  <2>2. v \in Seq(Nat)
    <3>1. v \in Seq(0..(Wide - 1)) /\ 0..(Wide - 1) \subseteq Nat
      BY <1>7 DEF Raw, Values
    <3> QED BY <3>1, SeqMonotonic
  <2>3. s \in Seq(Byte) /\ ReadPacked(s) = v
    BY <2>2, PackedSurvives
  <2> HIDE DEF s
  <2>4. Head(r) \div 8 = f /\ Body(r) = s
    BY <2>3, DelimitedRecord
  <2> HIDE DEF r
  <2>5. w[f] = << >>
    BY <1>7 DEF Zero
  <2>6. << >> \o v = v
    BY <2>2, ConcatEmptySeq
  <2>7. Put(type, w, r) = [w EXCEPT ![f] = w[f] \o ReadPacked(Body(r))]
    BY <1>7, <2>4 DEF Put
  <2>8. Put(type, w, r) = [w EXCEPT ![f] = v]
    BY <2>3, <2>4, <2>5, <2>6, <2>7
  <2> HIDE DEF rs
  <2> QED BY <1>3, <1>4, <2>1, <2>5, <2>8 DEF rs
<1>8. CASE kind = "objects"
  <2> DEFINE r(i) == <<8 * f + 2>> \o WriteLengthDelim(v[i])
             B == Seq(Byte)
             After(j) == [w EXCEPT ![f] = SubSeq(v, 1, j)]
             S == {j \in Nat : j <= Len(v) => x[j] = After(j)}
  <2>1. v \in Seq(B) /\ Len(v) \in Nat /\ DOMAIN v = 1..Len(v)
    BY <1>8 DEF Raw
  <2>2. rs = [i \in 1..Len(v) |-> r(i)]
    BY <1>8, <2>1 DEF Records
  <2>3. \A i \in 1..Len(v) : Head(r(i)) \div 8 = f /\ Body(r(i)) = v[i]
    <3>1. \A s \in B : LET q == <<8 * f + 2>> \o WriteLengthDelim(s)
                       IN  Head(q) \div 8 = f /\ Body(q) = s
      BY DelimitedRecord
    <3>2. \A i \in 1..Len(v) : v[i] \in B
      BY <2>1
    <3> QED BY <3>1, <3>2
  <2> HIDE DEF r
  <2>4. Len(rs) = Len(v) /\ \A i \in 1..Len(v) : rs[i] = r(i)
    <3> HIDE DEF rs
    <3> QED BY <2>1, <2>2
  <2>5. w[f] = << >> /\ f \in DOMAIN w
    BY <1>8 DEF Zero
  <2>6. 0 \in S
    <3>1. SubSeq(v, 1, 0) = << >>
      BY SubSeqEmpty
    <3>2. After(0) = w
      BY <2>5, <3>1
    <3> QED BY <3>2
  <2>7. ASSUME NEW j \in Nat, j \in S PROVE j + 1 \in S
    <3> SUFFICES ASSUME j + 1 <= Len(v) PROVE x[j + 1] = After(j + 1)
      OBVIOUS
    <3>1. x[j] = After(j) /\ j + 1 \in 1..Len(v) /\ (j + 1) - 1 = j
      BY <2>1, <2>7
    <3>2. x[j + 1] = Put(type, After(j), r(j + 1))
      <4>1. x[j + 1] = Put(type, x[(j + 1) - 1], rs[j + 1])
        <5> HIDE DEF rs
        <5> QED BY <2>4, <3>1 DEF Puts, rs
      <4> HIDE DEF After, rs
      <4> QED BY <2>4, <3>1, <4>1
    <3>3. After(j)[f] = SubSeq(v, 1, j)
      BY <2>5
    <3>4. After(j) = [After(j) EXCEPT ![f] = SubSeq(v, 1, j)]
      BY <2>5
    <3>5. Put(type, After(j), r(j + 1)) = [After(j) EXCEPT ![f] = Append(SubSeq(v, 1, j), v[j + 1])]
      <4> HIDE DEF After
      <4>1. Head(r(j + 1)) \div 8 = f /\ Body(r(j + 1)) = v[j + 1]
        BY <2>3, <3>1
      <4>2. Put(type, After(j), r(j + 1))
              = [After(j) EXCEPT ![f] = Append(After(j)[f], Body(r(j + 1)))]
        BY <1>8, <4>1 DEF Put
      <4> QED BY <3>3, <4>1, <4>2
    <3>6. Append(SubSeq(v, 1, j), v[j + 1]) = SubSeq(v, 1, j + 1)
      <4> DEFINE a == SubSeq(v, 1, j)
      <4>1. a \in Seq(B) /\ v[j + 1] \in B
        <5>1. \A i \in 1..j : v[i] \in B
          BY <2>1, <3>1
        <5>2. a \in Seq(B)
          BY <5>1, SubSeqProperties
        <5> QED BY <2>1, <3>1, <5>2
      <4>2. SubSeq(v, 1, j + 1) = SubSeq(v, 1, (j + 1) - 1) \o <<v[j + 1]>>
        <5>1. 1 \in 1..Len(v) /\ j + 1 \in 1..Len(v)
          BY <3>1
        <5> QED BY <2>1, <5>1, SubSeqRecursiveSecond
      <4> HIDE DEF a
      <4>3. Append(a, v[j + 1]) = a \o <<v[j + 1]>>
        BY <4>1, AppendIsConcat
      <4> QED BY <3>1, <4>2, <4>3 DEF a
    <3>7. [After(j) EXCEPT ![f] = SubSeq(v, 1, j + 1)] = After(j + 1)
      OBVIOUS
    <3> HIDE DEF After
    <3> QED BY <3>2, <3>5, <3>6, <3>7
  <2> HIDE DEF S
  <2>8. Nat \subseteq S
    BY <2>6, <2>7, Induction
  <2>9. x[Len(v)] = After(Len(v))
    <3> DEFINE n == Len(v)
    <3>1. n \in Nat
      BY <2>1
    <3> HIDE DEF n
    <3>2. n \in S /\ n <= n
      BY <2>8, <3>1
    <3>3. n <= Len(v)
      BY <3>2 DEF n
    <3>4. x[n] = After(n)
      <4> HIDE DEF After
      <4> QED BY <3>2, <3>3 DEF S
    <3> QED BY <3>4 DEF n
  <2>10. SubSeq(v, 1, Len(v)) = v
    BY <2>1, SubSeqFull
  <2> HIDE DEF rs
  <2> QED BY <2>4, <2>9, <2>10 DEF rs
<1> QED BY <1>1, <1>5, <1>6, <1>7, <1>8 DEF Kinds, Plain

-----------------------------------------------------------------------------
(* Messages of one level.                                                  *)

\* A message with no record refused is read by putting its records, one after another,
\* into the default.
LEMMA ReadDef ==
  ASSUME NEW type, NEW bytes, Len(Cut(RecordLength, bytes)) \in Nat,
         \A i \in 1..Len(Cut(RecordLength, bytes)) :
           ~Refused(type, Cut(RecordLength, bytes)[i])
  PROVE  \E x : /\ x[0] = Default(type)
                /\ Puts(type, x, Cut(RecordLength, bytes))
                /\ Read(type, bytes) = x[Len(Cut(RecordLength, bytes))]
<1> DEFINE rs == Cut(RecordLength, bytes)
           k == Len(rs)
           G(v, m) == IF \E i \in 1..(m - 1) : Refused(type, rs[i]) THEN v
                      ELSE Put(type, v, rs[m])
           Loop(f, n) == [m \in 0..n |-> IF m = 0 THEN Default(type) ELSE G(f[m - 1], m)]
           S == {n \in Nat : \E f : f = Loop(f, n)}
           read == CHOOSE f : f = Loop(f, k)
<1>1. Read(type, bytes) = read[k]
  BY DEF Read
<1>r. \A i \in 1..k : ~Refused(type, rs[i])
  OBVIOUS
<1>g. \A m \in 1..k : \A v : G(v, m) = Put(type, v, rs[m])
  <2>1. \A m \in 1..k : \A i \in 1..(m - 1) : i \in 1..k
    OBVIOUS
  <2> HIDE DEF rs, k
  <2> QED BY <1>r, <2>1
<1> HIDE DEF rs, G
<1>2. 0 \in S
  <2>1. [m \in 0..0 |-> Default(type)] = Loop([m \in 0..0 |-> Default(type)], 0)
    OBVIOUS
  <2> QED BY <2>1
<1>3. ASSUME NEW n \in Nat, n \in S PROVE n + 1 \in S
  <2>1. PICK f : f = Loop(f, n)
    BY <1>3
  <2> DEFINE g == [m \in 0..(n + 1) |-> IF m = n + 1 THEN G(f[n], n + 1) ELSE f[m]]
  <2>2. \A m \in 0..n : /\ f[m] = IF m = 0 THEN Default(type) ELSE G(f[m - 1], m)
                        /\ m \in 0..(n + 1) /\ m # n + 1
    BY <2>1
  <2>3. \A m \in 0..n : g[m] = f[m]
    BY <2>2
  <2>4. g[n + 1] = G(f[n], n + 1) /\ n \in 0..n /\ (n + 1) - 1 = n /\ n + 1 # 0
    OBVIOUS
  <2>5. ASSUME NEW m \in 0..(n + 1)
        PROVE  g[m] = IF m = 0 THEN Default(type) ELSE G(g[m - 1], m)
    <3> HIDE DEF g
    <3>1. CASE m = n + 1
      BY <2>3, <2>4, <3>1
    <3>2. CASE m = 0
      <4>1. m \in 0..n
        BY <3>2
      <4> QED BY <2>2, <2>3, <3>2, <4>1
    <3>3. CASE m # n + 1 /\ m # 0
      <4>1. m \in 0..n /\ m - 1 \in 0..n
        BY <3>3
      <4> QED BY <2>2, <2>3, <3>3, <4>1
    <3> QED BY <3>1, <3>2, <3>3
  <2>6. g = Loop(g, n + 1)
    <3>1. g = [m \in 0..(n + 1) |-> g[m]]
      OBVIOUS
    <3> HIDE DEF g
    <3> QED BY <2>5, <3>1
  <2> HIDE DEF g, Loop
  <2> QED BY <2>6
<1> HIDE DEF S
<1>4. Nat \subseteq S
  BY <1>2, <1>3, Induction
<1>5. k \in Nat
  BY DEF rs
<1> HIDE DEF k
<1>6. read = Loop(read, k)
  <2>1. \E f : f = Loop(f, k)
    BY <1>4, <1>5 DEF S
  <2> HIDE DEF Loop
  <2> QED BY <2>1
<1> HIDE DEF read
<1>7. ASSUME NEW m \in 0..k
      PROVE  read[m] = IF m = 0 THEN Default(type) ELSE G(read[m - 1], m)
  BY <1>6, Zenon
<1>8. read[0] = Default(type)
  <2>1. 0 \in 0..k
    BY <1>5
  <2> QED BY <1>7, <2>1
<1>9. Puts(type, read, rs)
  <2>1. \A j \in 1..k : j \in 0..k /\ j # 0
    BY <1>5
  <2>2. \A j \in 1..k : read[j] = G(read[j - 1], j)
    BY <1>7, <2>1
  <2>3. \A j \in 1..k : read[j] = Put(type, read[j - 1], rs[j])
    BY <1>g, <2>2
  <2> QED BY <2>3 DEF Puts, k
<1> QED BY <1>1, <1>8, <1>9 DEF k, rs

\* Sequences of elements of P, one after another, are one of elements of P.
LEMMA FlattenSub ==
  ASSUME NEW E, NEW P \in SUBSET E, NEW ss \in Seq(Seq(P))
  PROVE  Flatten(E, ss) \in Seq(P)
<1> DEFINE V == Seq(P)
           S == {t \in Seq(V) : Flatten(E, t) \in V}
<1>1. << >> \in S
  <2>1. Flatten(E, << >>) = << >>
    BY FlattenDef
  <2>2. << >> \in Seq(V) /\ << >> \in V
    OBVIOUS
  <2> QED BY <2>1, <2>2
<1>2. ASSUME NEW t \in Seq(V), t # << >>, Tail(t) \in S PROVE t \in S
  <2>1. Head(t) \in V /\ Flatten(E, Tail(t)) \in V
    BY <1>2, HeadTailProperties
  <2>2. t \in Seq(Seq(E))
    <3>1. V \subseteq Seq(E)
      BY SeqMonotonic
    <3> HIDE DEF V
    <3> QED BY <3>1, SeqMonotonic
  <2>3. Flatten(E, t) = Head(t) \o Flatten(E, Tail(t))
    BY <1>2, <2>2, FlattenDef
  <2> QED BY <2>1, <2>3, ConcatProperties
<1> HIDE DEF S
<1>3. Seq(V) \subseteq S
  <2> HIDE DEF V
  <2> QED BY <1>1, <1>2, SeqInduction
<1> QED BY <1>3 DEF S

\* The elements of s behind the first n of t are those of r.
Holds(t, n, r) == \A j \in 1..Len(r) : t[n + j] = r[j]

\* Where the k-th of several sequences lies in all of them, one after another.
LEMMA FlattenAt ==
  ASSUME NEW E, NEW ss \in Seq(Seq(E)), NEW k \in 1..Len(ss)
  PROVE  /\ Len(Flatten(E, SubSeq(ss, 1, k - 1))) \in Nat
         /\ Len(Flatten(E, SubSeq(ss, 1, k)))
              = Len(Flatten(E, SubSeq(ss, 1, k - 1))) + Len(ss[k])
         /\ Len(Flatten(E, SubSeq(ss, 1, k - 1))) + Len(ss[k]) <= Len(Flatten(E, ss))
         /\ Holds(Flatten(E, ss), Len(Flatten(E, SubSeq(ss, 1, k - 1))), ss[k])
<1> DEFINE V == Seq(E)
           a == SubSeq(ss, 1, k - 1)
           b == SubSeq(ss, 1, k)
           c == SubSeq(ss, k + 1, Len(ss))
           s == ss[k]
           x == Flatten(E, a)
           y == Flatten(E, b)
           z == Flatten(E, c)
<1>1. /\ ss \in Seq(V) /\ Len(ss) \in Nat /\ k \in Int /\ 1 <= k /\ k <= Len(ss)
      /\ s \in V /\ \A i \in 1..Len(ss) : ss[i] \in V
  OBVIOUS
<1>2. a \in Seq(V) /\ b \in Seq(V) /\ c \in Seq(V)
  <2> HIDE DEF V
  <2>1. \A i \in 1..(k - 1) : ss[i] \in V
    BY <1>1
  <2>2. \A i \in 1..k : ss[i] \in V
    BY <1>1
  <2>3. \A i \in (k + 1)..Len(ss) : ss[i] \in V
    BY <1>1
  <2> QED BY <1>1, <2>1, <2>2, <2>3, SubSeqProperties
<1>3. b = a \o <<s>>
  <2> HIDE DEF V
  <2>1. 1 \in 1..Len(ss) /\ k \in 1..Len(ss)
    BY <1>1
  <2> QED BY <1>1, <2>1, SubSeqRecursiveSecond
<1>4. ss = b \o c
  <2> HIDE DEF V
  <2>1. 1 \in 1..(Len(ss) + 1) /\ k \in (1 - 1)..Len(ss) /\ Len(ss) \in k..Len(ss)
    BY <1>1
  <2>2. SubSeq(ss, 1, k) \o SubSeq(ss, k + 1, Len(ss)) = SubSeq(ss, 1, Len(ss))
    BY <1>1, <2>1, ConcatAdjacentSubSeq
  <2>3. SubSeq(ss, 1, Len(ss)) = ss
    BY <1>1, SubSeqFull
  <2> QED BY <2>2, <2>3
<1> HIDE DEF a, b, c, s
<1>5. x \in Seq(E) /\ y \in Seq(E) /\ z \in Seq(E) /\ <<s>> \in Seq(V)
  BY <1>1, <1>2, FlattenDef
<1>6. y = x \o s
  <2>1. Flatten(E, <<s>>) = s
    BY <1>1, FlattenOne
  <2>2. Flatten(E, a \o <<s>>) = Flatten(E, a) \o Flatten(E, <<s>>)
    BY <1>2, <1>5, FlattenConcat
  <2> QED BY <1>3, <2>1, <2>2
<1>7. Flatten(E, ss) = y \o z
  BY <1>2, <1>4, FlattenConcat
<1> HIDE DEF x, y, z
<1>8. /\ Len(y) = Len(x) + Len(s) /\ Len(x) \in Nat /\ Len(s) \in Nat /\ Len(z) \in Nat
      /\ \A i \in 1..(Len(x) + Len(s)) : y[i] = IF i <= Len(x) THEN x[i] ELSE s[i - Len(x)]
  BY <1>1, <1>5, <1>6, ConcatProperties
<1>9. /\ Len(y \o z) = Len(y) + Len(z)
      /\ \A i \in 1..(Len(y) + Len(z)) : (y \o z)[i] = IF i <= Len(y) THEN y[i] ELSE z[i - Len(y)]
  BY <1>5, ConcatProperties
<1>10. ASSUME NEW j \in 1..Len(s) PROVE (y \o z)[Len(x) + j] = s[j]
  <2>1. /\ Len(x) + j \in 1..(Len(y) + Len(z)) /\ Len(x) + j <= Len(y)
        /\ Len(x) + j \in 1..(Len(x) + Len(s)) /\ ~(Len(x) + j <= Len(x))
        /\ (Len(x) + j) - Len(x) = j
    BY <1>8
  <2> QED BY <1>8, <1>9, <2>1
<1>11. Len(x) + Len(s) <= Len(y \o z)
  BY <1>8, <1>9
<1>12. Holds(Flatten(E, ss), Len(x), s)
  <2> HIDE DEF Flatten
  <2> QED BY <1>7, <1>10 DEF Holds
<1> QED BY <1>5, <1>6, <1>7, <1>8, <1>11, <1>12 DEF a, b, s, x, y

\* The elements of several sequences are those of all of them, one after another.
LEMMA FlattenElements ==
  ASSUME NEW E, NEW ss \in Seq(Seq(E)), NEW R
  PROVE  (\E j \in 1..Len(Flatten(E, ss)) : Flatten(E, ss)[j] \in R)
           <=> (\E k \in 1..Len(ss) : \E i \in 1..Len(ss[k]) : ss[k][i] \in R)
<1> DEFINE t == Flatten(E, ss)
<1>1. ASSUME NEW k \in 1..Len(ss), NEW i \in 1..Len(ss[k]), ss[k][i] \in R
      PROVE  \E j \in 1..Len(t) : t[j] \in R
  <2> DEFINE n == Len(Flatten(E, SubSeq(ss, 1, k - 1)))
  <2>1. n \in Nat /\ n + Len(ss[k]) <= Len(t)
    BY FlattenAt
  <2>2. t[n + i] = ss[k][i]
    <3>1. Holds(t, n, ss[k])
      BY FlattenAt
    <3> HIDE DEF t, n
    <3> QED BY <3>1 DEF Holds
  <2>3. ss[k] \in Seq(E) /\ Len(ss[k]) \in Nat
    BY ElementOfSeq
  <2>4. t \in Seq(E) /\ Len(t) \in Nat
    BY FlattenDef, LenProperties
  <2> HIDE DEF t, n
  <2>5. n + i \in 1..Len(t)
    BY <2>1, <2>3, <2>4
  <2> QED BY <1>1, <2>2, <2>5
<1>2. ASSUME \A k \in 1..Len(ss) : \A i \in 1..Len(ss[k]) : ss[k][i] \notin R
      PROVE  \A j \in 1..Len(t) : t[j] \notin R
  <2> DEFINE P == E \ R
  <2>1. ASSUME NEW k \in 1..Len(ss) PROVE ss[k] \in Seq(P)
    <3> DEFINE q == ss[k]
    <3>1. q \in Seq(E)
      BY ElementOfSeq
    <3>2. \A i \in 1..Len(q) : q[i] \notin R
      BY <1>2
    <3> HIDE DEF q
    <3>3. \A i \in 1..Len(q) : q[i] \in P
      BY <3>1, <3>2, ElementOfSeq
    <3>4. Len(q) \in Nat /\ q = [i \in 1..Len(q) |-> q[i]]
      BY <3>1
    <3> HIDE DEF P
    <3> DEFINE n == Len(q)
    <3> HIDE DEF n
    <3>5. q \in [1..n -> P]
      BY <3>3, <3>4 DEF n
    <3>6. n \in Nat
      BY <3>4 DEF n
    <3>7. q \in Seq(P)
      BY <3>5, <3>6
    <3> QED BY <3>7 DEF q
  <2>2. ss \in Seq(Seq(P))
    <3> DEFINE V == Seq(P)
    <3>1. Len(ss) \in Nat /\ ss = [k \in 1..Len(ss) |-> ss[k]]
      OBVIOUS
    <3>2. \A k \in 1..Len(ss) : ss[k] \in V
      BY <2>1
    <3> HIDE DEF V
    <3>3. ss \in Seq(V)
      BY <3>1, <3>2
    <3> QED BY <3>3 DEF V
  <2>3. P \in SUBSET E
    OBVIOUS
  <2>4. t \in Seq(P)
    <3> HIDE DEF P
    <3> QED BY <2>2, <2>3, FlattenSub
  <2> HIDE DEF t
  <2> QED BY <2>4, ElementOfSeq
<1> HIDE DEF t
<1> QED BY <1>1, <1>2 DEF t

\* The kinds of a message's fields, whose tags are one byte, and a raw packet of it.
IsType(type) == type \in Seq(Kinds) /\ Len(type) <= 15

IsRaw(type, raw) ==
  /\ raw = [f \in DOMAIN type |-> raw[f]]
  /\ \A f \in DOMAIN type : raw[f] \in Raw(type[f])

LEMMA TypeFacts ==
  ASSUME NEW type, IsType(type)
  PROVE  /\ type \in Seq(Kinds) /\ Len(type) \in 0..15 /\ Len(type) \in Nat
         /\ DOMAIN type = 1..Len(type)
<1>1. type \in Seq(Kinds) /\ Len(type) <= 15
  BY DEF IsType
<1>2. Len(type) \in Nat /\ DOMAIN type = 1..Len(type)
  BY <1>1, LenProperties
<1>3. \A n \in Nat : n <= 15 => n \in 0..15
  OBVIOUS
<1>4. Len(type) \in 0..15
  BY <1>1, <1>2, <1>3, Zenon
<1> QED BY <1>1, <1>2, <1>4, Zenon

FieldRecords(type, raw) == [f \in DOMAIN type |-> Records(f, type[f], raw[f])]

\* A message's records are found again in its bytes.
LEMMA MessageCut ==
  ASSUME NEW type, IsType(type), NEW raw, IsRaw(type, raw)
  PROVE  LET rss == FieldRecords(type, raw)
         IN  /\ rss \in Seq(Seq(Seq(Byte))) /\ Len(rss) = Len(type)
             /\ Flatten(Seq(Byte), rss) \in Seq(Seq(Byte))
             /\ Write(type, raw) \in Seq(Byte)
             /\ Cut(RecordLength, Write(type, raw)) = Flatten(Seq(Byte), rss)
<1> DEFINE B == Seq(Byte)
           P == {r \in B : Delimited(RecordLength, r)}
           V == Seq(P)
           rss == FieldRecords(type, raw)
           rs == Flatten(B, rss)
<1>1. type \in Seq(Kinds) /\ Len(type) \in 0..15 /\ DOMAIN type = 1..Len(type)
  BY TypeFacts
<1>2. ASSUME NEW f \in DOMAIN type PROVE Records(f, type[f], raw[f]) \in V
  <2>1. f \in Numbers /\ type[f] \in Kinds /\ raw[f] \in Raw(type[f])
    BY <1>1 DEF IsRaw, Numbers
  <2> DEFINE q == Records(f, type[f], raw[f])
  <2>2. q \in Seq(B) /\ \A i \in 1..Len(q) : Delimited(RecordLength, q[i])
    BY <2>1, RecordsFacts
  <2> HIDE DEF q
  <2>3. \A i \in 1..Len(q) : q[i] \in P
    BY <2>2
  <2>4. q \in V
    <3> HIDE DEF P
    <3>1. Len(q) \in Nat /\ q = [i \in 1..Len(q) |-> q[i]]
      BY <2>2
    <3> QED BY <2>3, <3>1
  <2> QED BY <2>4 DEF q
<1>3. rss \in Seq(V) /\ Len(rss) = Len(type)
  <2>1. rss = [f \in 1..Len(type) |-> Records(f, type[f], raw[f])]
    BY <1>1 DEF FieldRecords
  <2> HIDE DEF V, rss
  <2> QED BY <1>1, <1>2, <2>1
<1>4. rs \in V
  <2>1. P \subseteq B
    OBVIOUS
  <2> HIDE DEF P, B, rss
  <2> QED BY <1>3, <2>1, FlattenSub
<1>5. rss \in Seq(Seq(B))
  <2>1. V \subseteq Seq(B)
    BY SeqMonotonic
  <2> HIDE DEF V, rss
  <2> QED BY <1>3, <2>1, SeqMonotonic
<1>6. Write(type, raw) = Flatten(Byte, rs)
  BY DEF Write, FieldRecords
<1> HIDE DEF rs
<1>7. rs \in Seq(B) /\ \A i \in 1..Len(rs) : Delimited(RecordLength, rs[i])
  <2>1. rs \in Seq(B)
    BY <1>4, SeqMonotonic
  <2>2. \A i \in 1..Len(rs) : rs[i] \in P
    <3> HIDE DEF P
    <3> QED BY <1>4
  <2> QED BY <2>1, <2>2
<1>8. Flatten(Byte, rs) \in B /\ Cut(RecordLength, Flatten(Byte, rs)) = rs
  BY <1>7, FlattenDef, CutFlatten, RecordLengthType
<1> HIDE DEF rss
<1> QED BY <1>3, <1>5, <1>6, <1>7, <1>8 DEF rs, rss

\* The parser reads a message to its end, unless a field of it is bad.
LEMMA MessageAccepted ==
  ASSUME NEW type, IsType(type), NEW raw, IsRaw(type, raw)
  PROVE  LET rs == Cut(RecordLength, Write(type, raw))
         IN  /\ Whole(Write(type, raw))
             /\ rs \in Seq(Seq(Byte))
             /\ \A i \in 1..Len(rs) : Head(rs[i]) \div 8 \in DOMAIN type
             /\ (\A i \in 1..Len(rs) : ~Refused(type, rs[i]))
                  <=> \A f \in DOMAIN type : ~Bad(type[f], raw[f])
<1> DEFINE B == Seq(Byte)
           rss == FieldRecords(type, raw)
           rs == Flatten(B, rss)
           R == {r \in B : Refused(type, r)}
           Q == {r \in B : Head(r) \div 8 \notin DOMAIN type}
<1>1. /\ rss \in Seq(Seq(B)) /\ Len(rss) = Len(type) /\ rs \in Seq(B)
      /\ Cut(RecordLength, Write(type, raw)) = rs
  BY MessageCut
<1>2. /\ type \in Seq(Kinds) /\ Len(type) \in 0..15 /\ DOMAIN type = 1..Len(type)
  BY TypeFacts
<1>n. DOMAIN type \subseteq Numbers
  <2> DEFINE m == Len(type)
  <2>1. m \in 0..15 /\ DOMAIN type = 1..m
    BY <1>2, Zenon
  <2> HIDE DEF m
  <2> QED BY <2>1 DEF Numbers
<1>3. Whole(Write(type, raw))
  <2>1. Write(type, raw) = Flatten(Byte, rs)
    BY DEF Write, FieldRecords
  <2> HIDE DEF rs
  <2> QED BY <1>1, <2>1 DEF Whole
<1>4. (\E j \in 1..Len(rs) : rs[j] \in R)
        <=> (\E f \in 1..Len(rss) : \E i \in 1..Len(rss[f]) : rss[f][i] \in R)
  <2> HIDE DEF rss, R, B
  <2> QED BY <1>1, FlattenElements
<1>5. ASSUME NEW f \in DOMAIN type
      PROVE  (\E i \in 1..Len(rss[f]) : rss[f][i] \in R) <=> Bad(type[f], raw[f])
  <2>1. f \in Numbers
    BY <1>n
  <2> DEFINE v == raw[f]
             q == Records(f, type[f], v)
  <2>2. v \in Raw(type[f])
    BY DEF IsRaw
  <2>3. rss[f] = q
    BY DEF FieldRecords
  <2> HIDE DEF v
  <2>4. (\E i \in 1..Len(q) : Refused(type, q[i])) <=> Bad(type[f], v)
    BY <1>2, <2>1, <2>2, FieldRefused
  <2>5. \A i \in 1..Len(q) : q[i] \in B
    <3>1. q \in Seq(B)
      BY <1>2, <2>1, <2>2, RecordsFacts, ElementOfSeq
    <3> HIDE DEF q, B
    <3> QED BY <3>1, ElementOfSeq
  <2> HIDE DEF q, rss, B
  <2> QED BY <2>3, <2>4, <2>5 DEF v
<1>6. \A j \in 1..Len(rs) : rs[j] \in B
  <2> HIDE DEF rs, B
  <2> QED BY <1>1, ElementOfSeq
<1>h. \A j \in 1..Len(rs) : Head(rs[j]) \div 8 \in DOMAIN type
  <2>1. (\E j \in 1..Len(rs) : rs[j] \in Q)
          <=> (\E f \in 1..Len(rss) : \E i \in 1..Len(rss[f]) : rss[f][i] \in Q)
    <3> HIDE DEF rss, Q, B
    <3> QED BY <1>1, FlattenElements
  <2>2. ASSUME NEW f \in DOMAIN type, NEW i \in 1..Len(rss[f])
        PROVE  Head(rss[f][i]) \div 8 = f
    <3>1. f \in Numbers
      BY <1>n
    <3>2. raw[f] \in Raw(type[f]) /\ type[f] \in Kinds
      BY <1>2, ElementOfSeq DEF IsRaw
    <3>3. rss[f] = Records(f, type[f], raw[f])
      BY DEF FieldRecords
    <3> HIDE DEF rss
    <3> QED BY <3>1, <3>2, <3>3, RecordsFacts
  <2> HIDE DEF rss, rs, B
  <2> QED BY <1>1, <1>2, <1>6, <2>1, <2>2
<1> HIDE DEF rs, rss, B
<1>7. (\A i \in 1..Len(rs) : ~Refused(type, rs[i])) <=> \A f \in DOMAIN type : ~Bad(type[f], raw[f])
  BY <1>1, <1>2, <1>4, <1>5, <1>6
<1> QED BY <1>1, <1>3, <1>7, <1>h DEF B

\* The packet when its first k fields have been read.
Upto(type, raw, k) == [f \in DOMAIN type |-> IF f <= k THEN raw[f] ELSE Zero(type[f])]

\* The number of records of the first k fields.
Before(rss, k) == Len(Flatten(Seq(Byte), SubSeq(rss, 1, k)))

LEMMA BeforeNext ==
  ASSUME NEW rss \in Seq(Seq(Seq(Byte))), NEW n \in 1..Len(rss)
  PROVE  LET rs == Flatten(Seq(Byte), rss)
         IN  /\ Before(rss, n - 1) \in Nat
             /\ Before(rss, n) = Before(rss, n - 1) + Len(rss[n])
             /\ Before(rss, n) <= Len(rs)
             /\ \A j \in 1..Len(rss[n]) : rs[Before(rss, n - 1) + j] = rss[n][j]
<1>1. /\ Before(rss, n - 1) \in Nat
      /\ Before(rss, n) = Before(rss, n - 1) + Len(rss[n])
  BY FlattenAt DEF Before
<1>2. Before(rss, n - 1) + Len(rss[n]) <= Len(Flatten(Seq(Byte), rss))
  BY FlattenAt DEF Before
<1>3. Holds(Flatten(Seq(Byte), rss), Before(rss, n - 1), rss[n])
  BY FlattenAt DEF Before
<1> QED BY <1>1, <1>2, <1>3 DEF Holds

\* One more field is read.
LEMMA FieldStep ==
  ASSUME NEW type, IsType(type), NEW raw, IsRaw(type, raw),
         NEW rss \in Seq(Seq(Seq(Byte))), Len(rss) = Len(type),
         NEW n \in 1..Len(type), rss[n] = Records(n, type[n], raw[n]),
         NEW x, Puts(type, x, Flatten(Seq(Byte), rss)),
         x[Before(rss, n - 1)] = Upto(type, raw, n - 1)
  PROVE  x[Before(rss, n)] = Upto(type, raw, n)
<1> DEFINE rs == Flatten(Seq(Byte), rss)
           b == Before(rss, n - 1)
           q == rss[n]
           w == Upto(type, raw, n - 1)
           y == [j \in 0..Len(q) |-> x[b + j]]
<1>1. type \in Seq(Kinds) /\ Len(type) \in 0..15 /\ DOMAIN type = 1..Len(type)
  BY TypeFacts
<1>2. n \in Numbers /\ n \in DOMAIN type /\ raw[n] \in Raw(type[n])
  <2>1. n \in DOMAIN type
    BY <1>1
  <2>2. n \in Numbers
    <3> DEFINE m == Len(type)
    <3>0. m \in 0..15 /\ n \in 1..m
      BY <1>1, Zenon
    <3> HIDE DEF m
    <3>1. n \in Int /\ 1 <= n /\ n <= 15
      BY <3>0
    <3> QED BY <3>1 DEF Numbers
  <2>3. raw[n] \in Raw(type[n])
    BY <2>1 DEF IsRaw
  <2> QED BY <2>1, <2>2, <2>3
<1>3. q \in Seq(Seq(Byte)) /\ rs \in Seq(Seq(Byte))
  BY FlattenDef
<1>4. Len(q) \in Nat /\ Len(rs) \in Nat
  <2> HIDE DEF q, rs
  <2> QED BY <1>3
<1>5. /\ b \in Nat /\ Before(rss, n) = b + Len(q) /\ b + Len(q) <= Len(rs)
      /\ \A j \in 1..Len(q) : rs[b + j] = q[j]
  BY BeforeNext
<1> HIDE DEF b, q, rs
<1>6. y[0] = w
  <2> HIDE DEF w
  <2>1. x[b] = w
    BY DEF w, b
  <2> QED BY <1>4, <1>5, <2>1
<1>7. Puts(type, y, q)
  <2> SUFFICES ASSUME NEW j \in 1..Len(q) PROVE y[j] = Put(type, y[j - 1], q[j])
    BY DEF Puts
  <2>1. /\ j \in 0..Len(q) /\ j - 1 \in 0..Len(q) /\ b + j \in 1..Len(rs)
        /\ (b + j) - 1 = b + (j - 1)
    BY <1>4, <1>5
  <2>2. x[b + j] = Put(type, x[(b + j) - 1], rs[b + j])
    BY <2>1 DEF Puts, rs
  <2>3. y[j] = x[b + j] /\ y[j - 1] = x[b + (j - 1)]
    BY <2>1
  <2>4. rs[b + j] = q[j]
    BY <1>5
  <2> HIDE DEF y
  <2> QED BY <2>1, <2>2, <2>3, <2>4
<1>8. y[Len(q)] = x[Before(rss, n)]
  <2>1. Len(q) \in 0..Len(q)
    BY <1>4
  <2> QED BY <1>5, <2>1
<1> HIDE DEF y
<1>9. w = [g \in DOMAIN type |-> w[g]] /\ w[n] = Zero(type[n])
  BY <1>2 DEF Upto
<1>10. [w EXCEPT ![n] = raw[n]] = Upto(type, raw, n)
  <2>1. \A g \in DOMAIN type : g \in Int /\ (g # n => (g <= n - 1 <=> g <= n))
    BY <1>1
  <2>2. \A g \in DOMAIN type :
          [w EXCEPT ![n] = raw[n]][g] = IF g <= n THEN raw[g] ELSE Zero(type[g])
    BY <1>2, <2>1 DEF Upto
  <2> QED BY <2>2 DEF Upto
<1> HIDE DEF w
<1>11. y[Len(q)] = [w EXCEPT ![n] = raw[n]]
  <2> DEFINE v == raw[n]
  <2>1. v \in Raw(type[n])
    BY <1>2
  <2> HIDE DEF v
  <2>2. q = Records(n, type[n], v)
    BY DEF q, v
  <2>3. Puts(type, y, Records(n, type[n], v))
    BY <1>7, <2>2
  <2>4. y[Len(Records(n, type[n], v))] = Filled(w, n, v)
    <3>1. type \in Seq(Kinds)
      BY <1>1, Zenon
    <3>2. n \in Numbers /\ n \in DOMAIN type
      BY <1>2, Zenon
    <3>3. Over(type, w) /\ w[n] = Zero(type[n])
      BY <1>9, Zenon DEF Over
    <3>4. y[0] = w
      BY <1>6
    <3> QED BY <2>1, <2>3, <3>1, <3>2, <3>3, <3>4, FieldRead, Zenon
  <2> QED BY <2>2, <2>4 DEF v, Filled
<1> QED BY <1>8, <1>10, <1>11

\* A message of one level without bad fields is read as it was written.
LEMMA MessageSurvives ==
  ASSUME NEW type, IsType(type), NEW raw, IsRaw(type, raw),
         \A f \in DOMAIN type : ~Bad(type[f], raw[f])
  PROVE  Read(type, Write(type, raw)) = raw
<1> DEFINE V == Seq(Byte)
           rss == FieldRecords(type, raw)
           rs == Flatten(V, rss)
           bytes == Write(type, raw)
<1>1. /\ rss \in Seq(Seq(V)) /\ Len(rss) = Len(type) /\ rs \in Seq(V)
      /\ Cut(RecordLength, bytes) = rs
  BY MessageCut
<1>2. /\ type \in Seq(Kinds) /\ Len(type) \in 0..15 /\ Len(type) \in Nat
      /\ DOMAIN type = 1..Len(type)
  BY TypeFacts
<1>3. \A f \in DOMAIN type : rss[f] = Records(f, type[f], raw[f])
  BY DEF FieldRecords
<1> HIDE DEF rss, rs, bytes
<1>4. PICK x : x[0] = Default(type) /\ Puts(type, x, rs) /\ Read(type, bytes) = x[Len(rs)]
  <2>1. Len(Cut(RecordLength, bytes)) \in Nat
    BY <1>1
  <2>2. \A i \in 1..Len(Cut(RecordLength, bytes)) :
          ~Refused(type, Cut(RecordLength, bytes)[i])
    BY MessageAccepted DEF bytes
  <2> QED BY <1>1, <2>1, <2>2, ReadDef
<1> DEFINE S == {k \in Nat : k <= Len(type) => x[Before(rss, k)] = Upto(type, raw, k)}
<1>5. 0 \in S
  <2>1. SubSeq(rss, 1, 0) = << >>
    BY SubSeqEmpty
  <2>2. Flatten(V, << >>) = << >> /\ Len(<< >>) = 0
    BY FlattenDef
  <2>3. Before(rss, 0) = 0
    BY <2>1, <2>2 DEF Before
  <2>4. Default(type) = Upto(type, raw, 0)
    BY <1>2 DEF Default, Zero, Upto
  <2> QED BY <1>4, <2>3, <2>4
<1>6. ASSUME NEW k \in Nat, k \in S PROVE k + 1 \in S
  <2> SUFFICES ASSUME k + 1 <= Len(type)
               PROVE  x[Before(rss, k + 1)] = Upto(type, raw, k + 1)
    OBVIOUS
  <2>1. /\ k <= Len(type) /\ k + 1 \in 1..Len(type) /\ (k + 1) - 1 = k
    BY <1>2
  <2>2. x[Before(rss, (k + 1) - 1)] = Upto(type, raw, (k + 1) - 1)
    BY <1>6, <2>1
  <2>3. rss[k + 1] = Records(k + 1, type[k + 1], raw[k + 1])
    BY <1>2, <1>3, <2>1
  <2> DEFINE n == k + 1
  <2> HIDE DEF n
  <2>4. x[Before(rss, n)] = Upto(type, raw, n)
    <3>1. n \in 1..Len(type) /\ rss[n] = Records(n, type[n], raw[n])
          /\ x[Before(rss, n - 1)] = Upto(type, raw, n - 1)
      BY <2>1, <2>2, <2>3 DEF n
    <3> QED BY <1>1, <1>4, <3>1, FieldStep DEF rs
  <2> QED BY <2>4 DEF n
<1> HIDE DEF S
<1>7. Nat \subseteq S
  BY <1>5, <1>6, Induction
<1>8. x[Before(rss, Len(type))] = Upto(type, raw, Len(type))
  <2> DEFINE n == Len(type)
  <2>1. n \in Nat
    BY <1>2
  <2> HIDE DEF n
  <2>2. n \in S /\ n <= n
    BY <1>7, <2>1
  <2>3. n <= Len(type)
    BY <2>2 DEF n
  <2>4. x[Before(rss, n)] = Upto(type, raw, n)
    BY <2>2, <2>3 DEF S
  <2> QED BY <2>4 DEF n
<1>9. Before(rss, Len(type)) = Len(rs)
  <2>1. SubSeq(rss, 1, Len(rss)) = rss
    BY <1>1, SubSeqFull
  <2> QED BY <1>1, <2>1 DEF rs, Before
<1>10. Upto(type, raw, Len(type)) = raw
  <2>1. \A f \in DOMAIN type : f <= Len(type)
    BY <1>2
  <2>2. Upto(type, raw, Len(type)) = [f \in DOMAIN type |-> raw[f]]
    BY <2>1 DEF Upto
  <2>3. raw = [f \in DOMAIN type |-> raw[f]]
    BY DEF IsRaw
  <2> QED BY <2>2, <2>3
<1> QED BY <1>4, <1>8, <1>9, <1>10 DEF bytes

-----------------------------------------------------------------------------
(***************************************************************************)
(* Sizes: ByteSizeLong counts the bytes that are written.                  *)
(***************************************************************************)
LEMMA SumOne ==
  ASSUME NEW n \in Nat
  PROVE  SumOf[<<n>>] = n
<1>1. <<n>> \in Seq(Nat) /\ <<n>> # << >> /\ Head(<<n>>) = n /\ Tail(<<n>>) = << >>
  OBVIOUS
<1>2. SumOf[<<n>>] = Head(<<n>>) + SumOf[Tail(<<n>>)] /\ SumOf[<< >>] = 0
  BY <1>1, SumDef
<1> QED BY <1>1, <1>2

\* No element is more than the sum.
LEMMA SumPart ==
  ASSUME NEW ns \in Seq(Nat), NEW i \in 1..Len(ns)
  PROVE  ns[i] <= SumOf[ns]
<1> DEFINE S == {t \in Seq(Nat) : \A j \in 1..Len(t) : t[j] <= SumOf[t]}
<1>1. << >> \in S
  OBVIOUS
<1>2. ASSUME NEW t \in Seq(Nat), t # << >>, Tail(t) \in S PROVE t \in S
  <2> DEFINE r == Tail(t)
  <2>1. /\ r \in Seq(Nat) /\ Head(t) = t[1] /\ Head(t) \in Nat /\ Len(t) \in Nat
        /\ Len(r) = Len(t) - 1 /\ \A j \in 1..Len(r) : r[j] = t[j + 1]
    BY <1>2, HeadTailProperties
  <2>2. SumOf[t] = Head(t) + SumOf[r] /\ SumOf[r] \in Nat
    BY <1>2, <2>1, SumDef
  <2>0. r \in S
    BY <1>2
  <2> HIDE DEF r
  <2>3. \A j \in 1..Len(r) : r[j] <= SumOf[r] /\ r[j] \in Nat
    <3>1. \A j \in 1..Len(r) : r[j] <= SumOf[r]
      BY <2>0
    <3>2. r \in Seq(Nat)
      BY <2>1
    <3>3. \A j \in 1..Len(r) : r[j] \in Nat
      BY <3>2
    <3> QED BY <3>1, <3>3
  <2> HIDE DEF r
  <2>4. ASSUME NEW j \in 1..Len(t) PROVE t[j] <= SumOf[t]
    <3>1. CASE j = 1
      BY <2>1, <2>2, <3>1
    <3>2. CASE j # 1
      <4>1. j - 1 \in 1..Len(r) /\ (j - 1) + 1 = j
        BY <2>1, <3>2
      <4>2. r[j - 1] = t[j] /\ r[j - 1] <= SumOf[r] /\ r[j - 1] \in Nat
        <5>1. r[j - 1] = t[(j - 1) + 1]
          BY <2>1, <4>1
        <5> QED BY <2>3, <4>1, <5>1
      <4>3. t[j] <= SumOf[r] /\ t[j] \in Nat
        BY <4>2
      <4>4. SumOf[t] = Head(t) + SumOf[r] /\ SumOf[r] \in Nat /\ Head(t) \in Nat
        BY <2>1, <2>2
      <4> QED BY <4>3, <4>4
    <3> QED BY <3>1, <3>2
  <2> QED BY <2>4
<1> HIDE DEF S
<1>3. Seq(Nat) \subseteq S
  BY <1>1, <1>2, SeqInduction
<1> QED BY <1>3 DEF S

\* The bytes a field writes.
FieldBytes(f, kind, v) == SumOf[Lens(Records(f, kind, v))]

LEMMA FieldBytesType ==
  ASSUME NEW f \in Numbers, NEW kind \in Kinds, NEW v \in Raw(kind)
  PROVE  FieldBytes(f, kind, v) \in Nat
BY RecordsFacts, LensType, SumDef DEF FieldBytes

LEMMA BytesNone == SumOf[Lens(<< >>)] = 0
<1>1. Lens(<< >>) = << >>
  BY DEF Lens
<1> QED BY <1>1, SumDef

LEMMA BytesOne ==
  ASSUME NEW r \in Seq(Byte)
  PROVE  SumOf[Lens(<<r>>)] = Len(r)
<1>1. Lens(<<r>>) = <<Len(r)>> /\ Len(r) \in Nat
  BY DEF Lens
<1> QED BY <1>1, SumOne

\* The message's bytes are those of its fields.
LEMMA MessageLen ==
  ASSUME NEW type, IsType(type), NEW raw, IsRaw(type, raw)
  PROVE  LET fs == [f \in DOMAIN type |-> FieldBytes(f, type[f], raw[f])]
         IN  fs \in Seq(Nat) /\ Len(Write(type, raw)) = SumOf[fs]
<1> DEFINE V == Seq(Byte)
           rss == FieldRecords(type, raw)
           rs == Flatten(V, rss)
           fs == [f \in DOMAIN type |-> FieldBytes(f, type[f], raw[f])]
<1>1. rss \in Seq(Seq(V)) /\ Len(rss) = Len(type) /\ rs \in Seq(V)
  BY MessageCut
<1>2. Len(type) \in Nat /\ DOMAIN type = 1..Len(type)
  BY TypeFacts
<1>3. fs = [f \in 1..Len(rss) |-> SumOf[Lens(rss[f])]]
  BY <1>1, <1>2 DEF FieldRecords, FieldBytes
<1>4. Write(type, raw) = Flatten(Byte, rs)
  BY DEF Write, FieldRecords
<1> HIDE DEF rss, rs, fs
<1>5. fs \in Seq(Nat)
  <2>1. ASSUME NEW f \in 1..Len(rss) PROVE SumOf[Lens(rss[f])] \in Nat
    <3>1. rss[f] \in Seq(V)
      BY <1>1
    <3> QED BY <3>1, LensType, SumDef
  <2> QED BY <1>1, <1>2, <1>3, <2>1
<1>6. Len(Flatten(Byte, rs)) = SumOf[Lens(rs)]
  BY <1>1, FlattenLen
<1>7. SumOf[Lens(rs)] = SumOf[fs]
  BY <1>1, <1>3, FlattenSum DEF rs
<1> QED BY <1>4, <1>5, <1>6, <1>7 DEF fs

\* A field without objects: its size is its bytes, if a uint64 counts them.
LEMMA PlainSizeIs ==
  ASSUME NEW f \in Numbers, NEW kind \in Plain, NEW v \in Values(kind),
         FieldBytes(f, kind, v) < Wide
  PROVE  PlainSize(kind, v) = FieldBytes(f, kind, v)
<1>0. Wide \in Nat
  BY WidthAssumption
<1>1. CASE kind \in {"uint64", "int32"}
  <2> DEFINE u == SignExtend(v)
             r == <<8 * f>> \o UnsafeVarint[u]
  <2>1. /\ u \in Nat
        /\ v # 0 => PlainSize(kind, v) = 1 + Len(UnsafeVarint[u])
    BY <1>1, ScalarValue
  <2>2. v = 0 => PlainSize(kind, v) = 0
    BY <1>1 DEF PlainSize
  <2>3. Records(f, kind, v) = IF v = 0 THEN << >> ELSE <<r>>
    BY <1>1 DEF Records
  <2> HIDE DEF u
  <2>4. r \in Seq(Byte) /\ Len(r) = 1 + Len(UnsafeVarint[u])
    BY <2>1, ScalarRecord
  <2> HIDE DEF r
  <2>5. FieldBytes(f, kind, v) = IF v = 0 THEN 0 ELSE Len(r)
    BY <2>3, <2>4, BytesNone, BytesOne DEF FieldBytes
  <2> QED BY <2>1, <2>2, <2>4, <2>5
<1>2. ASSUME NEW s \in Seq(Byte), NEW r, r = <<8 * f + 2>> \o WriteLengthDelim(s),
             Records(f, kind, v) = <<r>>
      PROVE  FieldBytes(f, kind, v) = 1 + LengthDelimitedSize(Len(s))
  <2>1. r \in Seq(Byte) /\ Len(r) = 1 + Len(UnsafeVarint[Len(s)]) + Len(s)
    BY <1>2, DelimitedRecord
  <2>2. FieldBytes(f, kind, v) = Len(r)
    BY <1>2, <2>1, BytesOne DEF FieldBytes
  <2>3. Len(s) \in Nat
    OBVIOUS
  <2>4. Len(UnsafeVarint[Len(s)]) \in Nat
    BY <2>3, VarintShape
  <2>5. Len(s) \in 0..(Wide - 1)
    BY <1>0, <2>1, <2>2, <2>3, <2>4
  <2>6. VarintSize(Len(s)) = Len(UnsafeVarint[Len(s)])
    BY <2>5, VarintSizeIs
  <2> QED BY <2>1, <2>2, <2>3, <2>4, <2>6 DEF LengthDelimitedSize
<1>3. CASE kind = "string"
  <2>1. v \in Seq(Byte)
    BY <1>3 DEF Values
  <2>2. Records(f, kind, v) = IF v = << >> THEN << >> ELSE << <<8 * f + 2>> \o WriteLengthDelim(v) >>
    BY <1>3 DEF Records
  <2>3. PlainSize(kind, v) = IF v = << >> THEN 0 ELSE 1 + LengthDelimitedSize(Len(v))
    BY <1>3 DEF PlainSize
  <2>4. CASE v = << >>
    BY <2>2, <2>3, <2>4, BytesNone DEF FieldBytes
  <2>5. CASE v # << >>
    BY <1>2, <2>1, <2>2, <2>3, <2>5
  <2> QED BY <2>4, <2>5
<1>4. CASE kind = "uint64s"
  <2> DEFINE s == Flatten(Byte, Varints(v))
             sizes == [i \in DOMAIN v |-> VarintSize(v[i])]
             n == SumOf[sizes]
  <2>1. v \in Seq(0..(Wide - 1)) /\ v \in Seq(Nat)
    <3>1. v \in Seq(0..(Wide - 1)) /\ 0..(Wide - 1) \subseteq Nat
      BY <1>4 DEF Values
    <3> QED BY <3>1, SeqMonotonic
  <2>2. /\ Varints(v) \in Seq(Seq(Byte)) /\ Len(Varints(v)) = Len(v) /\ s \in Seq(Byte)
        /\ Len(v) \in Nat /\ DOMAIN v = 1..Len(v)
    BY <2>1, PackedSurvives
  <2>3. Records(f, kind, v) = IF v = << >> THEN << >> ELSE << <<8 * f + 2>> \o WriteLengthDelim(s) >>
    BY <1>4 DEF Records, Varints
  <2>4. PlainSize(kind, v) = IF n = 0 THEN 0 ELSE 1 + LengthDelimitedSize(n)
    BY <1>4 DEF PlainSize
  <2>5. sizes = Lens(Varints(v))
    <3>1. \A i \in 1..Len(v) : v[i] \in 0..(Wide - 1)
      <4> DEFINE D == 0..(Wide - 1)
      <4>1. v \in Seq(D)
        BY <2>1
      <4> HIDE DEF D
      <4>2. \A i \in 1..Len(v) : v[i] \in D
        BY <4>1
      <4> QED BY <4>2 DEF D
    <3>2. \A i \in 1..Len(v) : VarintSize(v[i]) = Len(UnsafeVarint[v[i]])
      BY <3>1, VarintSizeIs
    <3>3. \A i \in 1..Len(v) : Varints(v)[i] = UnsafeVarint[v[i]]
      BY <2>2 DEF Varints
    <3>4. Lens(Varints(v)) = [i \in 1..Len(v) |-> Len(Varints(v)[i])]
      BY <2>2 DEF Lens
    <3> QED BY <2>2, <3>2, <3>3, <3>4
  <2> HIDE DEF sizes
  <2>6. Len(s) = n /\ sizes \in Seq(Nat) /\ Len(sizes) = Len(v)
    BY <2>2, <2>5, FlattenLen, LensType
  <2>7. v # << >> => n # 0
    <3> SUFFICES ASSUME v # << >> PROVE n # 0
      OBVIOUS
    <3>1. 1 \in 1..Len(v) /\ v[1] \in Nat
      BY <2>1
    <3>2. Varints(v)[1] = UnsafeVarint[v[1]]
      BY <2>2, <3>1 DEF Varints
    <3>3. sizes[1] = Len(UnsafeVarint[v[1]])
      BY <2>2, <2>5, <3>1, <3>2 DEF Lens
    <3>4. sizes[1] \in Nat \ {0}
      BY <3>1, <3>3, VarintShape
    <3>5. sizes[1] <= n
      BY <2>6, <3>1, SumPart
    <3>6. n \in Nat
      BY <2>6, SumDef
    <3> QED BY <3>4, <3>5, <3>6
  <2>8. v = << >> => n = 0
    BY <2>6, SumDef
  <2> HIDE DEF n, s
  <2>9. CASE v = << >>
    BY <2>3, <2>4, <2>8, <2>9, BytesNone DEF FieldBytes
  <2>10. CASE v # << >>
    <3>1. FieldBytes(f, kind, v) = 1 + LengthDelimitedSize(Len(s))
      BY <1>2, <2>2, <2>3, <2>10
    <3> QED BY <2>4, <2>6, <2>7, <2>10, <3>1
  <2> QED BY <2>9, <2>10
<1> QED BY <1>1, <1>3, <1>4 DEF Plain

-----------------------------------------------------------------------------
(***************************************************************************)
(* Packets: a message whose fields may be lists of messages of one level.  *)
(***************************************************************************)
AllPlain == UNION {Values(kind) : kind \in Plain}
Info == {o \in [DOMAIN ObjectInfo -> AllPlain] :
           \A f \in DOMAIN ObjectInfo : o[f] \in Values(ObjectInfo[f])}

IsPacket(type, pkt) ==
  /\ pkt = [f \in DOMAIN type |-> pkt[f]]
  /\ \A f \in DOMAIN type :
       IF type[f] = "objects" THEN pkt[f] \in Seq(Info) ELSE pkt[f] \in Values(type[f])

LEMMA InfoType ==
  /\ IsType(ObjectInfo) /\ \A f \in DOMAIN ObjectInfo : ObjectInfo[f] \in Plain
  /\ \A o \in Info : IsRaw(ObjectInfo, o)
<1>1. /\ ObjectInfo \in Seq(Plain) /\ Len(ObjectInfo) = 11
      /\ DOMAIN ObjectInfo = 1..11
  BY DEF ObjectInfo, Plain
<1>2. \A f \in DOMAIN ObjectInfo : ObjectInfo[f] \in Plain
  <2>1. \A f \in 1..Len(ObjectInfo) : ObjectInfo[f] \in Plain
    BY <1>1, ElementOfSeq
  <2> QED BY <1>1, <2>1
<1>3. IsType(ObjectInfo)
  <2>1. Plain \subseteq Kinds
    BY DEF Kinds
  <2>2. ObjectInfo \in Seq(Kinds)
    BY <1>1, <2>1, SeqMonotonic
  <2>3. Len(ObjectInfo) <= 15
    BY <1>1
  <2> QED BY <2>2, <2>3 DEF IsType
<1>4. ASSUME NEW o \in Info PROVE IsRaw(ObjectInfo, o)
  <2>1. o = [f \in DOMAIN ObjectInfo |-> o[f]]
    BY DEF Info
  <2>2. ASSUME NEW f \in DOMAIN ObjectInfo PROVE o[f] \in Raw(ObjectInfo[f])
    <3>1. ObjectInfo[f] # "objects"
      BY <1>2 DEF Plain
    <3>2. o[f] \in Values(ObjectInfo[f])
      BY DEF Info
    <3> QED BY <3>1, <3>2 DEF Raw
  <2> QED BY <2>1, <2>2 DEF IsRaw
<1> QED BY <1>2, <1>3, <1>4

\* An object's size is its bytes.
LEMMA InfoSizeIs ==
  ASSUME NEW o \in Info, Len(Write(ObjectInfo, o)) < Wide
  PROVE  InfoSize(o) = Len(Write(ObjectInfo, o))
<1> DEFINE type == ObjectInfo
           fs == [f \in DOMAIN type |-> FieldBytes(f, type[f], o[f])]
           ps == [f \in DOMAIN type |-> PlainSize(type[f], o[f])]
<1>1. IsType(type) /\ IsRaw(type, o) /\ \A f \in DOMAIN type : type[f] \in Plain
  BY InfoType
<1>2. fs \in Seq(Nat) /\ Len(Write(type, o)) = SumOf[fs]
  <2> HIDE DEF type
  <2> QED BY <1>1, MessageLen
<1>3. InfoSize(o) = SumOf[ps]
  BY DEF InfoSize
<1>4. ASSUME NEW f \in DOMAIN type PROVE PlainSize(type[f], o[f]) = FieldBytes(f, type[f], o[f])
  <2>0. o[f] \in Values(type[f])
    BY DEF Info
  <2> HIDE DEF type
  <2>1. Len(type) \in 0..15 /\ DOMAIN type = 1..Len(type)
    BY <1>1, TypeFacts
  <2>2. f \in Numbers
    <3> DEFINE m == Len(type)
    <3>1. m \in 0..15 /\ f \in 1..m
      BY <2>1, Zenon
    <3> HIDE DEF m
    <3> QED BY <3>1 DEF Numbers
  <2>3. f \in 1..Len(fs)
    <3>1. DOMAIN fs = DOMAIN type
      BY Zenon
    <3> HIDE DEF fs
    <3> QED BY <1>2, <3>1
  <2>4. fs[f] <= SumOf[fs]
    BY <1>2, <2>3, SumPart
  <2>5. fs[f] = FieldBytes(f, type[f], o[f])
    BY Zenon
  <2>6. type[f] \in Plain
    BY <1>1
  <2>7. FieldBytes(f, type[f], o[f]) < Wide
    <3>1. SumOf[fs] < Wide
      BY <1>2 DEF type
    <3>2. SumOf[fs] \in Nat /\ fs[f] \in Nat /\ Wide \in Nat
      <4>1. fs[f] \in Nat
        <5> HIDE DEF fs
        <5> QED BY <1>2, <2>3
      <4> QED BY <1>2, <4>1, SumDef, WidthAssumption
    <3> HIDE DEF fs
    <3> QED BY <2>4, <2>5, <3>1, <3>2
  <2> HIDE DEF fs, ps
  <2> QED BY <2>0, <2>2, <2>6, <2>7, PlainSizeIs
<1>5. ps = fs
  <2> HIDE DEF type
  <2> QED BY <1>4, Zenon
<1> QED BY <1>2, <1>3, <1>5

\* The size of a list of objects is its bytes.
LEMMA ObjectsSizeIs ==
  ASSUME NEW f \in Numbers, NEW os \in Seq(Info),
         NEW v, v = [i \in DOMAIN os |-> Write(ObjectInfo, os[i])],
         FieldBytes(f, "objects", v) < Wide
  PROVE  /\ v \in Seq(Seq(Byte))
         /\ FieldSize("objects", os) = FieldBytes(f, "objects", v)
<1> DEFINE B == Seq(Byte)
           W(o) == Write(ObjectInfo, o)
           rs == Records(f, "objects", v)
           sizes == [i \in DOMAIN os |-> 1 + LengthDelimitedSize(InfoSize(os[i]))]
           lens == Lens(rs)
<1>0. Wide \in Nat
  BY WidthAssumption
<1>1. Len(os) \in Nat /\ DOMAIN os = 1..Len(os) /\ \A i \in 1..Len(os) : os[i] \in Info
  BY LenProperties, ElementOfSeq
<1>2. \A o \in Info : W(o) \in B
  BY InfoType, MessageCut
<1>3. v \in Seq(B) /\ Len(v) = Len(os) /\ \A i \in 1..Len(os) : v[i] = W(os[i])
  <2>1. \A i \in 1..Len(os) : W(os[i]) \in B
    BY <1>1, <1>2
  <2> HIDE DEF W, B
  <2>2. v = [i \in 1..Len(os) |-> W(os[i])]
    BY <1>1 DEF W
  <2> QED BY <1>1, <2>1, <2>2
<1>4. "objects" \in Kinds /\ v \in Raw("objects")
  BY <1>3 DEF Kinds, Raw
<1>5. rs \in Seq(B)
  BY <1>4, RecordsFacts
<1>6. rs = [i \in 1..Len(os) |-> <<8 * f + 2>> \o WriteLengthDelim(v[i])]
  <2>1. rs = [i \in DOMAIN v |-> <<8 * f + 2>> \o WriteLengthDelim(v[i])]
    BY DEF Records
  <2>2. DOMAIN v = 1..Len(os)
    BY <1>1
  <2> QED BY <2>1, <2>2
<1>7. Len(rs) = Len(os)
  <2> HIDE DEF rs
  <2> QED BY <1>1, <1>6
<1>8. lens \in Seq(Nat) /\ Len(lens) = Len(os) /\ SumOf[lens] \in Nat
  <2> HIDE DEF rs
  <2> QED BY <1>5, <1>7, LensType, SumDef
<1>9. SumOf[lens] = FieldBytes(f, "objects", v)
  BY DEF FieldBytes
<1>10. ASSUME NEW i \in 1..Len(os)
       PROVE  1 + LengthDelimitedSize(InfoSize(os[i])) = lens[i]
  <2> DEFINE b == W(os[i])
             n == Len(b)
             r == <<8 * f + 2>> \o WriteLengthDelim(b)
  <2>1. b \in B /\ os[i] \in Info
    BY <1>1, <1>2
  <2>2. n \in Nat
    <3> HIDE DEF b
    <3> QED BY <2>1
  <2>3. rs[i] = r
    <3> HIDE DEF rs, W
    <3> QED BY <1>3, <1>6
  <2>4. Len(r) = 1 + Len(UnsafeVarint[n]) + n
    <3> HIDE DEF b
    <3> QED BY <2>1, DelimitedRecord
  <2>5. lens[i] = Len(r)
    <3> HIDE DEF r, rs
    <3> QED BY <1>7, <2>3 DEF Lens
  <2>6. lens[i] <= SumOf[lens]
    <3> HIDE DEF lens
    <3> QED BY <1>8, SumPart
  <2> HIDE DEF b, r, lens
  <2>7. Len(UnsafeVarint[n]) \in Nat
    <3> HIDE DEF n
    <3> QED BY <2>2, VarintShape
  <2> HIDE DEF n
  <2>8. n < Wide /\ n \in 0..(Wide - 1)
    <3>1. SumOf[lens] < Wide
      BY <1>9
    <3> QED BY <1>0, <1>8, <2>2, <2>4, <2>5, <2>6, <2>7, <3>1
  <2>9. VarintSize(n) = Len(UnsafeVarint[n])
    BY <2>8, VarintSizeIs
  <2>10. InfoSize(os[i]) = n
    BY <2>1, <2>8, InfoSizeIs DEF n, b
  <2> QED BY <2>2, <2>4, <2>5, <2>7, <2>9, <2>10 DEF LengthDelimitedSize
<1>11. sizes = lens
  <2>1. lens = [i \in 1..Len(os) |-> lens[i]]
    <3> HIDE DEF lens
    <3> QED BY <1>8
  <2> HIDE DEF lens
  <2> QED BY <1>1, <1>10, <2>1, Zenon
<1>12. FieldSize("objects", os) = SumOf[sizes]
  BY DEF FieldSize
<1> QED BY <1>3, <1>9, <1>11, <1>12

\* What Embed makes of a packet is a message of one level.
LEMMA EmbedRaw ==
  ASSUME NEW type, IsType(type), NEW pkt, IsPacket(type, pkt)
  PROVE  IsRaw(type, Embed(type, pkt))
<1> DEFINE e == Embed(type, pkt)
<1>1. e = [f \in DOMAIN type |-> e[f]]
  BY DEF Embed
<1>2. ASSUME NEW f \in DOMAIN type PROVE e[f] \in Raw(type[f])
  <2>1. CASE type[f] = "objects"
    <3> DEFINE os == pkt[f]
               B == Seq(Byte)
               W(o) == Write(ObjectInfo, o)
    <3>1. os \in Seq(Info)
      BY <2>1 DEF IsPacket
    <3>2. e[f] = [i \in DOMAIN os |-> W(os[i])]
      BY <2>1 DEF Embed
    <3>3. \A o \in Info : W(o) \in B
      BY InfoType, MessageCut
    <3> HIDE DEF os, B, W
    <3>4. Len(os) \in Nat /\ DOMAIN os = 1..Len(os) /\ \A i \in 1..Len(os) : os[i] \in Info
      BY <3>1, LenProperties, ElementOfSeq
    <3>5. [i \in 1..Len(os) |-> W(os[i])] \in Seq(B)
      BY <3>3, <3>4
    <3>6. e[f] \in Seq(B)
      BY <3>2, <3>4, <3>5
    <3> QED BY <2>1, <3>6 DEF Raw, B
  <2>2. CASE type[f] # "objects"
    <3>1. pkt[f] \in Values(type[f])
      BY <2>2 DEF IsPacket
    <3>2. e[f] = pkt[f]
      BY <2>2 DEF Embed
    <3> QED BY <2>2, <3>1, <3>2 DEF Raw
  <2> QED BY <2>1, <2>2
<1> QED BY <1>1, <1>2 DEF IsRaw

\* SerializeToArray: ByteSizeLong is the number of bytes it writes.
THEOREM ByteSizeIs ==
  ASSUME NEW type, IsType(type), NEW pkt, IsPacket(type, pkt),
         Len(Serialize(type, pkt)) < Wide
  PROVE  ByteSizeLong(type, pkt) = Len(Serialize(type, pkt))
<1> DEFINE e == Embed(type, pkt)
           fs == [f \in DOMAIN type |-> FieldBytes(f, type[f], e[f])]
           sizes == [f \in DOMAIN type |-> FieldSize(type[f], pkt[f])]
<1>0. Wide \in Nat
  BY WidthAssumption
<1>1. IsRaw(type, e)
  BY EmbedRaw
<1>2. fs \in Seq(Nat) /\ Len(Serialize(type, pkt)) = SumOf[fs]
  <2> HIDE DEF e
  <2>1. fs \in Seq(Nat) /\ Len(Write(type, e)) = SumOf[fs]
    BY <1>1, MessageLen
  <2> QED BY <2>1 DEF Serialize, e
<1>3. ByteSizeLong(type, pkt) = SumOf[sizes]
  BY DEF ByteSizeLong
<1>4. /\ type \in Seq(Kinds) /\ Len(type) \in 0..15 /\ DOMAIN type = 1..Len(type)
  BY TypeFacts
<1>5. SumOf[fs] \in Nat /\ SumOf[fs] < Wide
  <2> HIDE DEF fs
  <2> QED BY <1>2, SumDef
<1>6. ASSUME NEW f \in DOMAIN type PROVE FieldSize(type[f], pkt[f]) = FieldBytes(f, type[f], e[f])
  <2> HIDE DEF e
  <2>1. f \in Numbers
    <3> DEFINE m == Len(type)
    <3>1. m \in 0..15 /\ f \in 1..m
      BY <1>4, Zenon
    <3> HIDE DEF m
    <3> QED BY <3>1 DEF Numbers
  <2>2. type[f] \in Kinds
    BY <1>4, ElementOfSeq
  <2>3. fs[f] <= SumOf[fs] /\ fs[f] \in Nat
    <3>1. DOMAIN fs = DOMAIN type
      BY Zenon
    <3> HIDE DEF fs
    <3>2. f \in 1..Len(fs)
      BY <1>2, <3>1
    <3> QED BY <1>2, <3>2, SumPart, ElementOfSeq
  <2>4. fs[f] = FieldBytes(f, type[f], e[f])
    BY Zenon
  <2> HIDE DEF fs
  <2>5. FieldBytes(f, type[f], e[f]) < Wide
    BY <1>0, <1>5, <2>3, <2>4
  <2>6. CASE type[f] = "objects"
    <3>1. pkt[f] \in Seq(Info)
      BY <2>6 DEF IsPacket
    <3>2. e[f] = [i \in DOMAIN pkt[f] |-> Write(ObjectInfo, pkt[f][i])]
      BY <2>6 DEF e, Embed
    <3>3. FieldBytes(f, "objects", e[f]) < Wide
      BY <2>5, <2>6
    <3>4. FieldSize("objects", pkt[f]) = FieldBytes(f, "objects", e[f])
      BY <2>1, <3>1, <3>2, <3>3, ObjectsSizeIs
    <3> QED BY <2>6, <3>4
  <2>7. CASE type[f] # "objects"
    <3>1. pkt[f] \in Values(type[f]) /\ type[f] \in Plain
      BY <2>2, <2>7 DEF IsPacket, Kinds
    <3>2. e[f] = pkt[f]
      BY <2>7 DEF e, Embed
    <3>3. PlainSize(type[f], pkt[f]) = FieldBytes(f, type[f], pkt[f])
      BY <2>1, <2>5, <3>1, <3>2, PlainSizeIs
    <3> QED BY <2>7, <3>2, <3>3 DEF FieldSize
  <2> QED BY <2>6, <2>7
<1>7. sizes = fs
  <2> HIDE DEF e
  <2> QED BY <1>6, Zenon
<1> QED BY <1>2, <1>3, <1>7

\* No name of an object is bad exactly if it has none that is no UTF-8.
LEMMA InfoNames ==
  ASSUME NEW o \in Info
  PROVE  /\ InfoAccepted(Write(ObjectInfo, o)) <=> NamesOf(ObjectInfo, o) \cap Malformed = {}
         /\ InfoAccepted(Write(ObjectInfo, o)) => \A f \in DOMAIN ObjectInfo : ~Bad(ObjectInfo[f], o[f])
<1> DEFINE type == ObjectInfo
           w == Write(type, o)
           rs == Cut(RecordLength, w)
<1>1. IsType(type) /\ IsRaw(type, o) /\ \A f \in DOMAIN type : type[f] \in Plain
  BY InfoType
<1>2. InfoAccepted(w) <=> Whole(w) /\ \A i \in DOMAIN rs : ~BadString(type, rs[i])
  BY DEF InfoAccepted
<1> HIDE DEF type
<1>3. /\ Whole(w) /\ rs \in Seq(Seq(Byte))
      /\ \A i \in 1..Len(rs) : Head(rs[i]) \div 8 \in DOMAIN type
      /\ (\A i \in 1..Len(rs) : ~Refused(type, rs[i])) <=> \A f \in DOMAIN type : ~Bad(type[f], o[f])
  BY <1>1, MessageAccepted
<1> HIDE DEF w, rs
<1>4. DOMAIN rs = 1..Len(rs)
  BY <1>3, LenProperties
<1>5. \A f \in DOMAIN type : type[f] # "objects"
  BY <1>1 DEF Plain
<1>6. \A i \in 1..Len(rs) : Refused(type, rs[i]) <=> BadString(type, rs[i])
  BY <1>3, <1>5, Zenon DEF Refused
<1>7. InfoAccepted(w) <=> \A f \in DOMAIN type : ~Bad(type[f], o[f])
  BY <1>2, <1>3, <1>4, <1>6
<1>8. \A f \in DOMAIN type : Bad(type[f], o[f]) <=> type[f] = "string" /\ o[f] \in Malformed
  BY <1>5 DEF Bad
<1>9. InfoAccepted(w) <=> NamesOf(type, o) \cap Malformed = {}
  BY <1>7, <1>8 DEF NamesOf
<1> QED BY <1>7, <1>9 DEF type, w

\* A packet has no bad field exactly if all its strings are UTF-8.
LEMMA PacketNames ==
  ASSUME NEW type, IsType(type), NEW pkt, IsPacket(type, pkt)
  PROVE  (\A f \in DOMAIN type : ~Bad(type[f], Embed(type, pkt)[f])) <=> WellNamed(type, pkt)
<1> DEFINE e == Embed(type, pkt)
           Fine(o) == NamesOf(ObjectInfo, o) \cap Malformed = {}
<1>1. ASSUME NEW f \in DOMAIN type, type[f] = "objects"
      PROVE  ~Bad(type[f], e[f]) <=> \A i \in DOMAIN pkt[f] : Fine(pkt[f][i])
  <2> DEFINE os == pkt[f]
             W(o) == Write(ObjectInfo, o)
  <2>1. os \in Seq(Info)
    BY <1>1 DEF IsPacket
  <2>2. DOMAIN os = 1..Len(os) /\ Len(os) \in Nat /\ \A i \in 1..Len(os) : os[i] \in Info
    BY <2>1, LenProperties, ElementOfSeq
  <2>3. e[f] = [i \in DOMAIN os |-> W(os[i])]
    BY <1>1 DEF Embed
  <2>4. \A o \in Info : InfoAccepted(W(o)) <=> Fine(o)
    BY InfoNames
  <2> HIDE DEF os, W, Fine, e
  <2>5. Len([i \in 1..Len(os) |-> W(os[i])]) = Len(os)
    BY <2>2
  <2>6. Len(e[f]) = Len(os) /\ \A i \in 1..Len(os) : e[f][i] = W(os[i])
    BY <2>2, <2>3, <2>5
  <2>7. Bad(type[f], e[f]) <=> \E i \in 1..Len(os) : ~InfoAccepted(e[f][i])
    BY <1>1, <2>6 DEF Bad
  <2>8. Bad(type[f], e[f]) <=> \E i \in 1..Len(os) : ~Fine(os[i])
    BY <2>2, <2>4, <2>6, <2>7
  <2> QED BY <2>2, <2>8 DEF os
<1>2. ASSUME NEW f \in DOMAIN type, type[f] # "objects"
      PROVE  Bad(type[f], e[f]) <=> type[f] = "string" /\ pkt[f] \in Malformed
  BY <1>2 DEF Bad, Embed
<1>3. NamesOf(type, pkt) \cap Malformed = {}
        <=> \A f \in DOMAIN type : type[f] = "string" => pkt[f] \notin Malformed
  BY DEF NamesOf
<1> HIDE DEF e, Fine
<1>4. (\A f \in DOMAIN type : ~Bad(type[f], e[f]))
        <=> /\ \A f \in DOMAIN type : type[f] = "string" => pkt[f] \notin Malformed
            /\ \A f \in DOMAIN type : type[f] = "objects" =>
                 \A i \in DOMAIN pkt[f] : Fine(pkt[f][i])
  BY <1>1, <1>2, Zenon
<1> QED BY <1>3, <1>4, Zenon DEF WellNamed, e, Fine

\* ParseFromArray: what SerializeToArray wrote is accepted exactly if all its strings
\* are UTF-8, and then it is read as it was, objects included.
THEOREM ParseSurvives ==
  ASSUME NEW type, IsType(type), NEW pkt, IsPacket(type, pkt)
  PROVE  /\ Parse(type, Serialize(type, pkt)).accepted <=> WellNamed(type, pkt)
         /\ WellNamed(type, pkt) => Parse(type, Serialize(type, pkt)).packet = pkt
<1> DEFINE e == Embed(type, pkt)
           bytes == Serialize(type, pkt)
           Objs(raw) == [f \in DOMAIN type |->
                           IF type[f] = "objects"
                           THEN [i \in DOMAIN raw[f] |-> Read(ObjectInfo, raw[f][i])]
                           ELSE raw[f]]
<1>1. IsRaw(type, e)
  BY EmbedRaw
<1>2. bytes = Write(type, e)
  BY DEF Serialize
<1>3. /\ Parse(type, bytes).accepted = Accepted(type, bytes)
      /\ Parse(type, bytes).packet = Objs(Read(type, bytes))
  <2> HIDE DEF bytes
  <2> QED BY DEF Parse
<1>4. (\A f \in DOMAIN type : ~Bad(type[f], e[f])) <=> WellNamed(type, pkt)
  BY PacketNames
<1> HIDE DEF e, bytes
<1>5. Accepted(type, bytes) <=> WellNamed(type, pkt)
  <2> DEFINE rs == Cut(RecordLength, bytes)
  <2>1. /\ Whole(bytes) /\ rs \in Seq(Seq(Byte))
        /\ (\A i \in 1..Len(rs) : ~Refused(type, rs[i]))
             <=> \A f \in DOMAIN type : ~Bad(type[f], e[f])
    BY <1>1, <1>2, MessageAccepted
  <2>2. Accepted(type, bytes) <=> Whole(bytes) /\ \A i \in DOMAIN rs : ~Refused(type, rs[i])
    BY DEF Accepted
  <2> HIDE DEF rs
  <2>3. DOMAIN rs = 1..Len(rs)
    BY <2>1, LenProperties
  <2> QED BY <1>4, <2>1, <2>2, <2>3
<1>6. ASSUME WellNamed(type, pkt) PROVE Objs(Read(type, bytes)) = pkt
  <2>1. Read(type, bytes) = e
    BY <1>1, <1>2, <1>4, <1>6, MessageSurvives
  <2>2. ASSUME NEW f \in DOMAIN type
        PROVE  (IF type[f] = "objects" THEN [i \in DOMAIN e[f] |-> Read(ObjectInfo, e[f][i])]
                                       ELSE e[f]) = pkt[f]
    <3>1. CASE type[f] = "objects"
      <4> DEFINE os == pkt[f]
                 W(o) == Write(ObjectInfo, o)
      <4>1. os \in Seq(Info)
        BY <3>1 DEF IsPacket
      <4>2. e[f] = [i \in DOMAIN os |-> W(os[i])]
        BY <3>1 DEF Embed, e
      <4>3. \A o \in Info : NamesOf(ObjectInfo, o) \cap Malformed = {} => Read(ObjectInfo, W(o)) = o
        BY InfoType, InfoNames, MessageSurvives
      <4>4. \A i \in DOMAIN os : NamesOf(ObjectInfo, os[i]) \cap Malformed = {}
        BY <1>6, <3>1 DEF WellNamed
      <4> HIDE DEF os, W
      <4>5. DOMAIN os = 1..Len(os) /\ \A i \in 1..Len(os) : os[i] \in Info
        BY <4>1, LenProperties, ElementOfSeq
      <4>6. DOMAIN e[f] = DOMAIN os /\ \A i \in DOMAIN os : e[f][i] = W(os[i])
        BY <4>2
      <4>7. \A i \in DOMAIN os : Read(ObjectInfo, e[f][i]) = os[i]
        BY <4>3, <4>4, <4>5, <4>6
      <4>8. os = [i \in DOMAIN os |-> os[i]]
        BY <4>1
      <4>9. [i \in DOMAIN e[f] |-> Read(ObjectInfo, e[f][i])] = os
        BY <4>6, <4>7, <4>8, Zenon
      <4> QED BY <3>1, <4>9 DEF os
    <3>2. CASE type[f] # "objects"
      BY <3>2 DEF Embed, e
    <3> QED BY <3>1, <3>2
  <2>3. pkt = [f \in DOMAIN type |-> pkt[f]]
    BY DEF IsPacket
  <2>4. Objs(e) = [f \in DOMAIN type |->
                     IF type[f] = "objects" THEN [i \in DOMAIN e[f] |-> Read(ObjectInfo, e[f][i])]
                                            ELSE e[f]]
    OBVIOUS
  <2> HIDE DEF Objs
  <2> QED BY <2>1, <2>2, <2>3, <2>4, Zenon
<1> HIDE DEF Objs
<1> QED BY <1>3, <1>5, <1>6, Zenon DEF bytes

\* MakeSendBuffer and HandlePacket: the header of a packet that fits it tells its length,
\* and what the other side parses is the packet, unless it refuses a string; the sizes
\* that wrap are not noticed, and longer ones make the assert fail.
THEOREM PacketSurvives ==
  ASSUME NEW type, IsType(type), NEW pkt, IsPacket(type, pkt),
         Len(Serialize(type, pkt)) < Wide
  PROVE  Survives(type, pkt)
<1> DEFINE data == Serialize(type, pkt)
           n == Len(data)
           buf == MakeSendBuffer(type, pkt)
<1>1. SizeLimit \in Nat \ {0} /\ PacketHeader \in Nat \ {0} /\ PacketHeader <= SizeLimit
  BY WidthAssumption
<1>2. data \in Seq(Byte) /\ n \in Nat
  <2>1. data \in Seq(Byte)
    BY EmbedRaw, MessageCut DEF Serialize
  <2> HIDE DEF data
  <2> QED BY <2>1
<1>3. ByteSizeLong(type, pkt) = n
  BY ByteSizeIs
<1>4. /\ buf.size = ((n % SizeLimit) + PacketHeader) % SizeLimit
      /\ buf.data = data
      /\ buf.serialized = (n <= n % SizeLimit)
  <2> HIDE DEF data
  <2> QED BY <1>3 DEF MakeSendBuffer, data
<1> HIDE DEF n, buf
<1>5. n + PacketHeader < SizeLimit =>
        buf.serialized /\ buf.size = n + PacketHeader
  <2> SUFFICES ASSUME n + PacketHeader < SizeLimit
               PROVE  buf.serialized /\ buf.size = n + PacketHeader
    OBVIOUS
  <2>1. n % SizeLimit = n /\ (n + PacketHeader) % SizeLimit = n + PacketHeader
    BY <1>1, <1>2
  <2>2. n <= n % SizeLimit /\ buf.size = n + PacketHeader
    BY <1>2, <1>4, <2>1
  <2> QED BY <1>4, <2>2, Zenon
<1>6. ASSUME n + PacketHeader < SizeLimit
      PROVE  /\ Handle(type, buf).accepted <=> WellNamed(type, pkt)
             /\ Handle(type, buf).accepted => Handle(type, buf).packet = pkt
  <2>1. buf.size - PacketHeader = n
    BY <1>1, <1>2, <1>5, <1>6
  <2>2. SubSeq(data, 1, n) = data
    <3> HIDE DEF data
    <3> QED BY <1>2, SubSeqFull DEF n
  <2>3. /\ Parse(type, data).accepted <=> WellNamed(type, pkt)
        /\ WellNamed(type, pkt) => Parse(type, data).packet = pkt
    BY ParseSurvives
  <2> HIDE DEF data
  <2>4. Handle(type, buf) = Parse(type, data)
    BY <1>4, <2>1, <2>2 DEF Handle
  <2> QED BY <2>3, <2>4
<1>w. ASSUME n \in (SizeLimit - PacketHeader)..(SizeLimit - 1)
      PROVE  /\ buf.serialized
             /\ buf.size = n + PacketHeader - SizeLimit /\ buf.size < PacketHeader
  <2>1. n % SizeLimit = n
    BY <1>1, <1>2, <1>w
  <2>2. (n + PacketHeader) % SizeLimit = n + PacketHeader - SizeLimit
    <3> DEFINE m == n + PacketHeader - SizeLimit
    <3>1. m \in 0..(SizeLimit - 1) /\ n + PacketHeader = m + SizeLimit /\ m < PacketHeader
      BY <1>1, <1>2, <1>w
    <3> HIDE DEF m
    <3>2. (m + SizeLimit) % SizeLimit = m
      BY <1>1, <3>1
    <3> QED BY <3>1, <3>2 DEF m
  <2>3. n <= n % SizeLimit
    BY <1>2, <2>1
  <2>4. buf.serialized
    BY <1>4, <2>3, Zenon
  <2>5. buf.size = n + PacketHeader - SizeLimit
    BY <1>4, <2>1, <2>2
  <2>6. n + PacketHeader - SizeLimit < PacketHeader
    BY <1>1, <1>2, <1>w
  <2> QED BY <2>4, <2>5, <2>6
<1>7. n >= SizeLimit => ~buf.serialized
  <2>1. n % SizeLimit \in 0..(SizeLimit - 1)
    BY <1>1, <1>2
  <2>2. n >= SizeLimit => ~(n <= n % SizeLimit)
    BY <1>1, <1>2, <2>1
  <2> QED BY <1>4, <2>2, Zenon
<1>8. n = Len(buf.data)
  BY <1>4 DEF n
<1>9. Survives(type, pkt)
        <=> /\ n + PacketHeader < SizeLimit =>
                 /\ buf.serialized /\ buf.size = n + PacketHeader
                 /\ Handle(type, buf).accepted <=> WellNamed(type, pkt)
                 /\ Handle(type, buf).accepted => Handle(type, buf).packet = pkt
            /\ n \in (SizeLimit - PacketHeader)..(SizeLimit - 1) =>
                 /\ buf.serialized
                 /\ buf.size = n + PacketHeader - SizeLimit /\ buf.size < PacketHeader
            /\ n >= SizeLimit => ~buf.serialized
  BY <1>8, Zenon DEF Survives, buf
<1> QED BY <1>5, <1>6, <1>7, <1>9, <1>w, Zenon

-----------------------------------------------------------------------------
(***************************************************************************)
(* What the server and its clients send.                                   *)
(***************************************************************************)
LEMMA ObjectsAreInfo == Objects \subseteq Info
<1> SUFFICES ASSUME NEW o \in Objects PROVE o \in Info
  OBVIOUS
<1>1. /\ o = [f \in DOMAIN ObjectInfo |-> o[f]]
      /\ \A f \in DOMAIN ObjectInfo : o[f] \in Values(ObjectInfo[f])
  BY ContentAssumption
<1>2. \A f \in DOMAIN ObjectInfo : o[f] \in AllPlain
  BY <1>1, InfoType DEF AllPlain
<1>3. o \in [DOMAIN ObjectInfo -> AllPlain]
  BY <1>1, <1>2, Zenon
<1> QED BY <1>1, <1>3 DEF Info

LEMMA SentTyped ==
  ASSUME NEW s \in Sent
  PROVE  IsType(s[1]) /\ IsPacket(s[1], s[2])
<1>1. "objects" \in Kinds /\ "uint64" \in Kinds /\ "uint64s" \in Kinds
  BY DEF Kinds, Plain
<1>2. ASSUME NEW kind \in Kinds, NEW v,
             IF kind = "objects" THEN v \in Seq(Info) ELSE v \in Values(kind)
      PROVE  IsType(<<kind>>) /\ IsPacket(<<kind>>, <<v>>)
  <2>1. /\ <<kind>> \in Seq(Kinds) /\ Len(<<kind>>) = 1 /\ DOMAIN <<kind>> = {1}
        /\ <<kind>>[1] = kind /\ <<v>>[1] = v /\ DOMAIN <<v>> = {1}
    OBVIOUS
  <2>2. IsType(<<kind>>)
    BY <2>1 DEF IsType
  <2>3. <<v>> = [f \in {1} |-> <<v>>[f]]
    OBVIOUS
  <2> QED BY <1>2, <2>1, <2>2, <2>3 DEF IsPacket
<1>3. ASSUME NEW kind \in Kinds, NEW v, NEW w,
             IF kind = "objects" THEN v \in Seq(Info) /\ w \in Seq(Info)
                                 ELSE v \in Values(kind) /\ w \in Values(kind)
      PROVE  IsType(<<kind, kind>>) /\ IsPacket(<<kind, kind>>, <<v, w>>)
  <2>1. /\ <<kind, kind>> \in Seq(Kinds) /\ Len(<<kind, kind>>) = 2
        /\ DOMAIN <<kind, kind>> = {1, 2} /\ \A f \in {1, 2} : <<kind, kind>>[f] = kind
        /\ <<v, w>>[1] = v /\ <<v, w>>[2] = w
    OBVIOUS
  <2>2. IsType(<<kind, kind>>)
    BY <2>1 DEF IsType
  <2>3. <<v, w>> = [f \in {1, 2} |-> <<v, w>>[f]]
    OBVIOUS
  <2> QED BY <1>3, <2>1, <2>2, <2>3 DEF IsPacket
<1>4. ASSUME NEW o \in Objects PROVE <<o>> \in Seq(Info)
  <2>1. o \in Info
    BY ObjectsAreInfo
  <2> QED BY <2>1
<1>5. CASE s = <<S_EnterGame, <<1, 0>>>>
  <2>1. 1 \in Values("uint64") /\ 0 \in Values("uint64")
    BY WordFacts, WidthAssumption DEF Values
  <2>2. IsType(<<"uint64", "uint64">>) /\ IsPacket(<<"uint64", "uint64">>, <<1, 0>>)
    BY <1>1, <1>3, <2>1
  <2> QED BY <1>5, <2>2 DEF S_EnterGame
<1>6. CASE \E o \in Objects : s = <<S_Move, <<<<o>>>>>>
  BY <1>1, <1>2, <1>4, <1>6 DEF S_Move
<1>7. CASE \E o, p \in Objects : s = <<S_Attack, <<<<o>>, <<p>>>>>>
  BY <1>1, <1>3, <1>4, <1>7 DEF S_Attack
<1>8. CASE \E os \in UNION {[1..n -> Objects] : n \in 0..3} : s = <<S_AddObject, <<os>>>>
  <2>1. PICK os \in UNION {[1..n -> Objects] : n \in 0..3} : s = <<S_AddObject, <<os>>>>
    BY <1>8
  <2>2. os \in Seq(Objects)
    <3>1. PICK n \in 0..3 : os \in [1..n -> Objects]
      OBVIOUS
    <3>2. n \in Nat
      OBVIOUS
    <3> QED BY <3>1, <3>2
  <2>3. os \in Seq(Info)
    BY <2>2, ObjectsAreInfo, SeqMonotonic
  <2> QED BY <1>1, <1>2, <2>1, <2>3 DEF S_AddObject
<1>9. CASE \E ids \in IdLists : s = <<S_RemoveObject, <<ids>>>>
  <2>1. PICK ids \in IdLists : s = <<S_RemoveObject, <<ids>>>>
    BY <1>9
  <2>2. ids \in Values("uint64s")
    BY ContentAssumption
  <2> QED BY <1>1, <1>2, <2>1, <2>2 DEF S_RemoveObject
<1> QED BY <1>5, <1>6, <1>7, <1>8, <1>9 DEF Sent

\* Survives, of every packet that the server and its clients send.
THEOREM EveryPacketSurvives == AllSurvive
<1> SUFFICES ASSUME NEW s \in Sent PROVE Survives(s[1], s[2])
  BY DEF AllSurvive
<1>1. IsType(s[1]) /\ IsPacket(s[1], s[2])
  BY SentTyped
<1>2. Len(Serialize(s[1], s[2])) < Wide
  BY ContentAssumption
<1> QED BY <1>1, <1>2, PacketSurvives
-----------------------------------------------------------------------------
(***************************************************************************)
(* The stream with the packets in it.                                      *)
(***************************************************************************)
\* The length of a packet's payload.
Length(s) == Len(SendBuffer[s].data)

\* What MakeSendBuffer says of a packet that fits is its length.
LEMMA Fits ==
  ASSUME NEW s \in Submitted, Length(s) + PacketHeader <= MaxPacket
  PROVE  /\ SendBuffer[s].data = Serialize(s[1], s[2])
         /\ Length(s) \in Nat
         /\ SendBuffer[s].size = Length(s) + HeaderSize
         /\ SendBuffer[s].size \in Sizes
<1> DEFINE b == SendBuffer[s]
<1>1. b = MakeSendBuffer(s[1], s[2])
  BY DEF SendBuffer
<1>2. b.data = Serialize(s[1], s[2])
  BY <1>1 DEF MakeSendBuffer
<1>3. s \in Sent /\ IsType(s[1]) /\ IsPacket(s[1], s[2])
  <2>1. s \in Sent
    BY StreamAssumption
  <2> QED BY <2>1, SentTyped
<1>4. Survives(s[1], s[2])
  BY <1>3, EveryPacketSurvives DEF AllSurvive
<1>5. Len(b.data) \in Nat
  <2> DEFINE w == Serialize(s[1], s[2])
  <2>1. w \in Seq(Byte)
    BY <1>3, EmbedRaw, MessageCut DEF Serialize
  <2> HIDE DEF w
  <2>2. Len(w) \in Nat
    BY <2>1
  <2> QED BY <1>2, <2>2 DEF w
<1> HIDE DEF b
<1>6. /\ HeaderSize \in Nat /\ MaxPacket \in Nat /\ SizeLimit \in Nat
      /\ PacketHeader = HeaderSize /\ MaxPacket < SizeLimit
  BY SizesAssumption, StreamAssumption, WidthAssumption
<1>7. Len(b.data) + PacketHeader <= MaxPacket
  BY DEF Length, b
<1>8. b.size = Len(b.data) + PacketHeader
  <2>1. Len(b.data) + PacketHeader < SizeLimit
    BY <1>5, <1>6, <1>7
  <2>2. Len(b.data) + PacketHeader < SizeLimit => b.size = Len(b.data) + PacketHeader
    BY <1>1, <1>4, Zenon DEF Survives
  <2> QED BY <2>1, <2>2
<1>9. b.size \in Sizes
  BY <1>5, <1>6, <1>7, <1>8 DEF Sizes
<1> QED BY <1>2, <1>5, <1>6, <1>8, <1>9 DEF Length, b

\* Submitting packets is submitting their sizes.
LEMMA StreamSteps == [StreamNext]_<<vars, packets>> => [Next]_vars
<1> SUFFICES ASSUME StreamNext PROVE Next
  OBVIOUS
<1>1. ASSUME NEW s \in Submitted, SubmitPacket(s) PROVE Next
  <2>1. SendBuffer[s].size \in Sizes
    BY <1>1, Fits DEF SubmitPacket, Length
  <2>2. Submit(SendBuffer[s].size)
    BY <1>1 DEF SubmitPacket
  <2> DEFINE n == SendBuffer[s].size
  <2> HIDE DEF n
  <2>3. n \in Sizes /\ Submit(n)
    BY <2>1, <2>2 DEF n
  <2> QED BY <2>3 DEF Next
<1>2. CASE Others
  BY <1>2 DEF Next
<1> QED BY <1>1, <1>2 DEF StreamNext

\* The k-th packet submitted is the k-th of the stream, and the k-th delivered.
SubmittedInv ==
  /\ packets \in Seq(Submitted) /\ Len(packets) = Len(ends)
  /\ \A k \in 1..Len(ends) :
       /\ Length(packets[k]) + PacketHeader <= MaxPacket
       /\ ends[k] = End(k - 1) + Length(packets[k]) + HeaderSize

DeliveredInv ==
  /\ Len(delivered) <= Len(ends)
  /\ \A k \in 1..Len(delivered) : delivered[k] = [from |-> End(k - 1), to |-> End(k)]

ArriveInv == SubmittedInv /\ DeliveredInv

\* A packet is appended to both sequences.
LEMMA SubmitStep ==
  ASSUME Inv, ArriveInv, NEW s \in Submitted, SubmitPacket(s)
  PROVE  ArriveInv'
<1>1. /\ Length(s) \in Nat /\ SendBuffer[s].size = Length(s) + HeaderSize
      /\ SendBuffer[s].size \in Sizes /\ Length(s) + PacketHeader <= MaxPacket
  BY Fits DEF SubmitPacket, Length
<1> DEFINE size == SendBuffer[s].size
<1>2. /\ ends' = Append(ends, Total + size) /\ packets' = Append(packets, s)
      /\ delivered' = delivered
  BY DEF SubmitPacket, Submit
<1> HIDE DEF size
<1>3. /\ ends \in Seq(Nat) /\ Total \in Nat /\ size \in Nat /\ Len(ends) \in Nat
      /\ HeaderSize \in Nat /\ delivered \in Seq([from : Int, to : Int])
  BY <1>1, SizesAssumption, EndTyped DEF Inv, TypeOK, Sizes, size
<1>4. packets \in Seq(Submitted) /\ Len(packets) = Len(ends)
  BY DEF ArriveInv, SubmittedInv
<1>5. /\ Len(ends') = Len(ends) + 1 /\ ends'[Len(ends) + 1] = Total + size
      /\ \A k \in 1..Len(ends) : ends'[k] = ends[k]
  BY <1>2, <1>3
<1>6. /\ packets' \in Seq(Submitted) /\ Len(packets') = Len(ends')
      /\ packets'[Len(ends) + 1] = s /\ \A k \in 1..Len(ends) : packets'[k] = packets[k]
  BY <1>2, <1>4, <1>5
<1>7. \A k \in 0..Len(ends) : End(k)' = End(k)
  BY <1>3, <1>5 DEF End
<1>8. ASSUME NEW k \in 1..Len(ends')
      PROVE  /\ Length(packets'[k]) + PacketHeader <= MaxPacket
             /\ ends'[k] = End(k - 1)' + Length(packets'[k]) + HeaderSize
  <2>1. CASE k \in 1..Len(ends)
    <3>1. packets'[k] = packets[k] /\ ends'[k] = ends[k] /\ End(k - 1)' = End(k - 1)
      BY <1>3, <1>5, <1>6, <1>7, <2>1
    <3>2. /\ Length(packets[k]) + PacketHeader <= MaxPacket
          /\ ends[k] = End(k - 1) + Length(packets[k]) + HeaderSize
      BY <2>1 DEF ArriveInv, SubmittedInv
    <3> QED BY <3>1, <3>2
  <2>2. CASE k = Len(ends) + 1
    <3>1. End(k - 1)' = Total
      BY <1>3, <1>7, <2>2 DEF Total
    <3>2. packets'[k] = s /\ ends'[k] = Total + size
      BY <1>5, <1>6, <2>2
    <3>3. Total + size = Total + Length(s) + HeaderSize
      BY <1>1, <1>3 DEF size
    <3> QED BY <1>1, <3>1, <3>2, <3>3
  <2> QED BY <1>3, <1>5, <2>1, <2>2
<1>9. SubmittedInv'
  BY <1>6, <1>8 DEF SubmittedInv, Length
<1>10. DeliveredInv'
  <2>1. Len(delivered) <= Len(ends) /\ Len(delivered) \in Nat
    BY <1>3 DEF ArriveInv, DeliveredInv
  <2>2. \A k \in 1..Len(delivered) : End(k)' = End(k) /\ End(k - 1)' = End(k - 1)
    BY <1>3, <1>7, <2>1
  <2> QED BY <1>2, <1>3, <1>5, <2>1, <2>2 DEF ArriveInv, DeliveredInv
<1> QED BY <1>9, <1>10 DEF ArriveInv

\* A packet is delivered.
LEMMA ArriveStep == Inv /\ ArriveInv /\ [StreamNext]_<<vars, packets>> => ArriveInv'
<1> SUFFICES ASSUME Inv, ArriveInv, [StreamNext]_<<vars, packets>> PROVE ArriveInv'
  OBVIOUS
<1>1. ASSUME NEW s \in Submitted, SubmitPacket(s) PROVE ArriveInv'
  BY <1>1, SubmitStep
<1>2. CASE OnRecvPacket /\ UNCHANGED packets
  <2>1. /\ Len(delivered) < Len(ends) /\ UNCHANGED <<ends, packets>>
        /\ delivered' = Append(delivered, [from |-> End(Len(delivered)),
                                           to |-> End(Len(delivered) + 1)])
    BY <1>2, DeliversNext
  <2>2. delivered \in Seq([from : Int, to : Int]) /\ Len(delivered) \in Nat
        /\ Len(ends) \in Nat
    BY DEF Inv, TypeOK
  <2>3. SubmittedInv'
    BY <2>1 DEF ArriveInv, SubmittedInv, End, Length
  <2>4. \A k : End(k)' = End(k)
    BY <2>1 DEF End
  <2>5. /\ Len(delivered') = Len(delivered) + 1
        /\ \A k \in 1..Len(delivered) : delivered'[k] = delivered[k]
        /\ delivered'[Len(delivered) + 1] = [from |-> End(Len(delivered)),
                                             to |-> End(Len(delivered) + 1)]
    BY <2>1, <2>2
  <2>6. ASSUME NEW k \in 1..Len(delivered')
        PROVE  delivered'[k] = [from |-> End(k - 1), to |-> End(k)]
    <3>1. CASE k \in 1..Len(delivered)
      BY <2>5, <3>1 DEF ArriveInv, DeliveredInv
    <3>2. CASE k = Len(delivered) + 1
      <4>1. k - 1 = Len(delivered)
        BY <2>2, <3>2
      <4> QED BY <2>5, <3>2, <4>1
    <3> QED BY <2>2, <2>5, <3>1, <3>2
  <2>7. Len(delivered') <= Len(ends')
    BY <2>1, <2>2, <2>5
  <2>8. DeliveredInv'
    BY <2>4, <2>6, <2>7 DEF DeliveredInv
  <2> QED BY <2>3, <2>8 DEF ArriveInv
<1>3. CASE UNCHANGED <<ends, delivered, packets>>
  BY <1>3 DEF ArriveInv, SubmittedInv, DeliveredInv, End, Length
<1> QED BY <1>1, <1>2, <1>3 DEF StreamNext, Others, PeerCloses, Receive, ReceiveZero,
   Handler, RegisterRecv, ProcessRecv, FinishRecv, peer, vars

\* A byte of the k-th packet is of its sender.
LEMMA SenderOf ==
  ASSUME Inv, ArriveInv, NEW k \in 1..Len(ends), NEW d \in End(k - 1)..(ends[k] - 1)
  PROVE  Sender(d) = k
<1>1. ends \in Seq(Nat) /\ Len(ends) \in Nat /\ DOMAIN packets = 1..Len(ends)
  BY DEF Inv, TypeOK, ArriveInv, SubmittedInv
<1>2. \A i, j \in 0..Len(ends) : i < j => End(i) < End(j)
  BY DEF Inv, StreamInv
<1>3. \A j \in 0..Len(ends) : End(j) \in Nat
  BY <1>1, EndTyped
<1>4. \A j \in 1..Len(ends) : ends[j] = End(j) /\ j - 1 \in 0..Len(ends) /\ j \in 0..Len(ends)
  BY <1>1 DEF End
<1>5. ASSUME NEW j \in 1..Len(ends), d \in End(j - 1)..(ends[j] - 1) PROVE j = k
  <2>1. /\ End(j - 1) \in Nat /\ End(j) \in Nat /\ End(k - 1) \in Nat /\ End(k) \in Nat
        /\ End(j - 1) <= d /\ d < End(j) /\ End(k - 1) <= d /\ d < End(k)
    <3>1. End(j - 1) \in Nat /\ End(j) \in Nat /\ End(k - 1) \in Nat /\ End(k) \in Nat
      BY <1>3, <1>4
    <3>2. ends[j] = End(j) /\ ends[k] = End(k)
      BY <1>4
    <3> QED BY <1>5, <3>1, <3>2
  <2>2. ASSUME j < k PROVE FALSE
    <3>1. j = k - 1 \/ j < k - 1
      BY <2>2
    <3>2. End(j) <= End(k - 1)
      BY <1>2, <1>4, <2>1, <3>1
    <3> QED BY <2>1, <3>2
  <2>3. ASSUME k < j PROVE FALSE
    <3>1. k = j - 1 \/ k < j - 1
      BY <2>3
    <3>2. End(k) <= End(j - 1)
      BY <1>2, <1>4, <2>1, <3>1
    <3> QED BY <2>1, <3>2
  <2> QED BY <2>2, <2>3
<1> QED BY <1>1, <1>5 DEF Sender

\* The parser of a delivered packet finds the bytes its sender wrote.
LEMMA PayloadArrives ==
  ASSUME Inv, ArriveInv, NEW k \in 1..Len(delivered)
  PROVE  /\ packets[k] \in Submitted
         /\ HandlePacket(delivered[k])
              = Parse(packets[k][1], Serialize(packets[k][1], packets[k][2]))
<1> DEFINE s == packets[k]
           n == Length(s)
           a == End(k - 1)
           data == SendBuffer[s].data
           p == delivered[k]
<1>1. k \in 1..Len(ends) /\ Len(ends) \in Nat
  <2>1. /\ Len(delivered) \in Nat /\ Len(ends) \in Nat /\ Len(delivered) <= Len(ends)
    BY DEF Inv, TypeOK, ArriveInv, DeliveredInv
  <2> QED BY <2>1
<1>2. s \in Submitted /\ n + PacketHeader <= MaxPacket /\ ends[k] = a + n + HeaderSize
  BY <1>1, ElementOfSeq DEF ArriveInv, SubmittedInv
<1>3. data = Serialize(s[1], s[2]) /\ n \in Nat
  BY <1>2, Fits
<1>4. a \in Nat /\ HeaderSize \in Nat \ {0}
  <2>1. k - 1 \in 0..Len(ends)
    BY <1>1
  <2> QED BY <2>1, EndTyped, SizesAssumption DEF Inv, TypeOK
<1>5. p.from = a /\ p.to = a + n + HeaderSize
  <2>1. p = [from |-> End(k - 1), to |-> End(k)]
    BY DEF ArriveInv, DeliveredInv
  <2>2. End(k) = ends[k]
    BY <1>1 DEF End
  <2> QED BY <1>2, <2>1, <2>2
<1>6. \A d \in a..(a + n + HeaderSize - 1) : Sender(d) = k
  <2>1. \A d \in a..(ends[k] - 1) : Sender(d) = k
    BY <1>1, SenderOf
  <2> HIDE DEF a, n
  <2>2. ends[k] - 1 = a + n + HeaderSize - 1
    BY <1>2, <1>3, <1>4
  <2> QED BY <2>1, <2>2, Zenon
<1>7. Sender(p.from) = k
  BY <1>3, <1>4, <1>5, <1>6
<1> HIDE DEF a, n, data
<1>8. ASSUME NEW i \in 1..n PROVE ByteAt(a + HeaderSize + i - 1) = data[i]
  <2>1. Sender(a + HeaderSize + i - 1) = k
    BY <1>3, <1>4, <1>6
  <2>2. (a + HeaderSize + i - 1) - a - HeaderSize + 1 = i
    BY <1>3, <1>4
  <2> QED BY <2>1, <2>2 DEF ByteAt, a, data
<1>9. Payload(p) = [i \in 1..n |-> data[i]]
  <2>1. p.to - p.from - HeaderSize = n
    BY <1>3, <1>4, <1>5
  <2> QED BY <1>5, <1>8, <2>1 DEF Payload
<1>10. [i \in 1..n |-> data[i]] = data
  <2>1. data \in Seq(Byte)
    <3>1. IsType(s[1]) /\ IsPacket(s[1], s[2])
      BY <1>2, StreamAssumption, SentTyped
    <3>2. Serialize(s[1], s[2]) \in Seq(Byte)
      BY <3>1, EmbedRaw, MessageCut DEF Serialize
    <3> QED BY <1>3, <3>2
  <2>2. n = Len(data)
    BY DEF n, data, Length
  <2> QED BY <2>1, <2>2
<1>11. HandlePacket(p) = Parse(s[1], data)
  BY <1>7, <1>9, <1>10 DEF HandlePacket
<1> QED BY <1>2, <1>3, <1>11

\* PacketsArrive: however TCP cuts the stream and Clean moves its bytes, the parser
\* accepts the k-th packet it is handed exactly if all strings of the k-th packet
\* submitted are UTF-8, and then reads it as it was submitted.
THEOREM PacketsAlwaysArrive == StreamSpec => []PacketsArrive
<1>1. StreamSpec => SafeSpec
  BY StreamSteps, PTL DEF StreamSpec, StreamInit, SafeSpec
<1>2. StreamInit => ArriveInv
  <2> SUFFICES ASSUME StreamInit PROVE ArriveInv
    OBVIOUS
  <2>1. ends = << >> /\ delivered = << >> /\ packets = << >>
    BY DEF StreamInit, Init
  <2> QED BY <2>1 DEF ArriveInv, SubmittedInv, DeliveredInv
<1>3. StreamSpec => []ArriveInv
  BY <1>1, <1>2, Invariance, ArriveStep, PTL DEF StreamSpec
<1>4. Inv /\ ArriveInv => PacketsArrive
  <2> SUFFICES ASSUME Inv, ArriveInv, NEW k \in DOMAIN delivered
               PROVE  LET handled == HandlePacket(delivered[k])
                      IN  /\ handled.accepted <=> WellNamed(packets[k][1], packets[k][2])
                          /\ handled.accepted => handled.packet = packets[k][2]
    BY DEF PacketsArrive
  <2>1. k \in 1..Len(delivered)
    BY DEF Inv, TypeOK
  <2> DEFINE s == packets[k]
  <2>2. s \in Submitted /\ HandlePacket(delivered[k]) = Parse(s[1], Serialize(s[1], s[2]))
    BY <2>1, PayloadArrives
  <2> HIDE DEF s
  <2>3. IsType(s[1]) /\ IsPacket(s[1], s[2])
    BY <2>2, StreamAssumption, SentTyped
  <2>4. /\ Parse(s[1], Serialize(s[1], s[2])).accepted <=> WellNamed(s[1], s[2])
        /\ WellNamed(s[1], s[2]) => Parse(s[1], Serialize(s[1], s[2])).packet = s[2]
    BY <2>3, ParseSurvives
  <2> QED BY <2>2, <2>4 DEF s
<1> QED BY <1>1, <1>3, <1>4, Invariance, PTL
=============================================================================
