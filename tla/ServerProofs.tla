---------------------------- MODULE ServerProofs ----------------------------
(***************************************************************************)
(* Theorems about Server, for every set of sockets and every size of the   *)
(* accept pool, with and without asserts.                                  *)
(*                                                                         *)
(* The registries disagree while calls are under way, so the invariant     *)
(* says what the calls on the stack still owe: a session that has been     *)
(* closed stays in the service as long as there is a release frame for it, *)
(* and an accept event is posted or has a frame that will post it.         *)
(***************************************************************************)
EXTENDS Server, FiniteSetTheorems, SequenceTheorems, TLAPS

\* A call of op for x is under way.
Has(stk, op, x) == \E i \in DOMAIN stk : stk[i].op = op /\ stk[i].id = x

\* No two calls of op for the same session are under way.
Once(stk, op) ==
  \A i, j \in DOMAIN stk :
    stk[i].op = op /\ stk[j].op = op /\ stk[i].id = stk[j].id => i = j

\* Nothing happens before, or without, a Start that succeeds.
StartInv ==
  /\ proc \in {"starting", "aborted"} => ~listening
  /\ listening => AssertsRun
  /\ ~listening =>
       /\ stack = << >> /\ armed = {} /\ owns = {} /\ players = {}
       /\ acceptSession = [e \in Events |-> NoSession]

RegInv ==
  /\ manager = Open
  /\ \A s \in Sockets : s \in sessions <=> s \in Open \/ Has(stack, "release", s)
  /\ \A s \in Open : ~Has(stack, "release", s)
  /\ Once(stack, "release")
  /\ sessionCount = Cardinality(sessions)

PoolInv ==
  /\ \A e \in armed : acceptSession[e] \in Sockets /\ life[acceptSession[e]] = "fresh"
  /\ \A d, e \in Events :
       acceptSession[d] \in Sockets /\ acceptSession[d] = acceptSession[e] => d = e
  /\ listening => \A e \in Events : e \in armed \/ Has(stack, "accept", e)

IInv == TypeOK /\ StartInv /\ RegInv /\ PoolInv

-----------------------------------------------------------------------------
(* Stacks.                                                                 *)

\* What a frame is, without the CASE of its definition.
LEMMA FrameType ==
  ASSUME NEW f
  PROVE  f \in Frames <=>
           /\ f \in [op : FrameOps, id : Events \cup Sockets \cup {NoSession},
                     held : SUBSET Sockets, left : SUBSET Sockets]
           /\ f.op = "accept" => f.id \in Events
           /\ f.op = "broadcast" => f.id \in Sockets \cup {NoSession}
           /\ f.op \notin {"accept", "broadcast"} => f.id \in Sockets
BY DEF Frames

\* The stack of a function that has called others.
LEMMA CallsType ==
  ASSUME NEW stk \in Seq(Frames), NEW fs \in Seq(Frames), stk # << >>
  PROVE  fs \o Tail(stk) \in Seq(Frames)
OBVIOUS

\* Has, of a concatenation.
LEMMA HasConcat ==
  ASSUME NEW fs \in Seq(Frames), NEW t \in Seq(Frames), NEW op, NEW x
  PROVE  Has(fs \o t, op, x) <=> Has(fs, op, x) \/ Has(t, op, x)
<1>1. ASSUME Has(fs \o t, op, x) PROVE Has(fs, op, x) \/ Has(t, op, x)
  <2>1. PICK i \in 1..(Len(fs) + Len(t)) : (fs \o t)[i].op = op /\ (fs \o t)[i].id = x
    BY <1>1 DEF Has
  <2>2. CASE i <= Len(fs)
    BY <2>1, <2>2 DEF Has
  <2>3. CASE i > Len(fs)
    <3>1. i - Len(fs) \in DOMAIN t /\ (fs \o t)[i] = t[i - Len(fs)]
      BY <2>3
    <3> QED BY <2>1, <3>1 DEF Has
  <2> QED BY <2>2, <2>3
<1>2. ASSUME Has(fs, op, x) PROVE Has(fs \o t, op, x)
  <2>1. PICK i \in DOMAIN fs : fs[i].op = op /\ fs[i].id = x
    BY <1>2 DEF Has
  <2>2. i \in DOMAIN (fs \o t) /\ (fs \o t)[i] = fs[i]
    OBVIOUS
  <2> QED BY <2>1, <2>2 DEF Has
<1>3. ASSUME Has(t, op, x) PROVE Has(fs \o t, op, x)
  <2>1. PICK i \in DOMAIN t : t[i].op = op /\ t[i].id = x
    BY <1>3 DEF Has
  <2>2. Len(fs) + i \in DOMAIN (fs \o t) /\ (fs \o t)[Len(fs) + i] = t[i]
    OBVIOUS
  <2> QED BY <2>1, <2>2 DEF Has
<1> QED BY <1>1, <1>2, <1>3

\* Has, of a stack by its innermost call.
LEMMA HasHead ==
  ASSUME NEW stk \in Seq(Frames), stk # << >>, NEW op, NEW x
  PROVE  Has(stk, op, x) <=> (Head(stk).op = op /\ Head(stk).id = x) \/ Has(Tail(stk), op, x)
<1>1. stk = <<Head(stk)>> \o Tail(stk) /\ Head(stk) \in Frames /\ Tail(stk) \in Seq(Frames)
  BY HeadTailProperties
<1>2. Has(<<Head(stk)>>, op, x) <=> Head(stk).op = op /\ Head(stk).id = x
  BY DEF Has
<1>3. <<Head(stk)>> \in Seq(Frames)
  BY <1>1
<1>4. Has(<<Head(stk)>> \o Tail(stk), op, x)
        <=> Has(<<Head(stk)>>, op, x) \/ Has(Tail(stk), op, x)
  BY <1>1, <1>3, HasConcat
<1> QED BY <1>1, <1>2, <1>4

\* Once, of a concatenation without a call of op in common.
LEMMA OnceConcat ==
  ASSUME NEW fs \in Seq(Frames), NEW t \in Seq(Frames), NEW op, Once(fs, op), Once(t, op),
         \A s : ~(Has(fs, op, s) /\ Has(t, op, s))
  PROVE  Once(fs \o t, op)
<1> SUFFICES ASSUME NEW i \in 1..(Len(fs) + Len(t)), NEW j \in 1..(Len(fs) + Len(t)),
                    (fs \o t)[i].op = op, (fs \o t)[j].op = op,
                    (fs \o t)[i].id = (fs \o t)[j].id
             PROVE  i = j
  BY DEF Once
<1>1. \A k \in 1..(Len(fs) + Len(t)) :
        IF k <= Len(fs) THEN k \in DOMAIN fs /\ (fs \o t)[k] = fs[k]
                        ELSE k - Len(fs) \in DOMAIN t /\ (fs \o t)[k] = t[k - Len(fs)]
  OBVIOUS
<1>2. CASE i <= Len(fs) /\ j <= Len(fs)
  BY <1>1, <1>2 DEF Once
<1>3. CASE i > Len(fs) /\ j > Len(fs)
  <2>1. i - Len(fs) = j - Len(fs)
    BY <1>1, <1>3 DEF Once
  <2> QED BY <2>1
<1>4. CASE i <= Len(fs) /\ j > Len(fs)
  <2>1. Has(fs, op, (fs \o t)[i].id)
    BY <1>1, <1>4 DEF Has
  <2>2. Has(t, op, (fs \o t)[j].id)
    BY <1>1, <1>4 DEF Has
  <2> QED BY <2>1, <2>2
<1>5. CASE i > Len(fs) /\ j <= Len(fs)
  <2>1. Has(fs, op, (fs \o t)[j].id)
    BY <1>1, <1>5 DEF Has
  <2>2. Has(t, op, (fs \o t)[i].id)
    BY <1>1, <1>5 DEF Has
  <2> QED BY <2>1, <2>2
<1> QED BY <1>2, <1>3, <1>4, <1>5

\* Once, of what is left when a call returns; a call of op that returns is not repeated.
LEMMA OnceTail ==
  ASSUME NEW stk \in Seq(Frames), stk # << >>, NEW op, Once(stk, op)
  PROVE  /\ Once(Tail(stk), op)
         /\ Head(stk).op = op => ~Has(Tail(stk), op, Head(stk).id)
<1>1. /\ 1 \in DOMAIN stk /\ Head(stk) = stk[1]
      /\ \A i \in DOMAIN Tail(stk) : i + 1 \in DOMAIN stk /\ Tail(stk)[i] = stk[i + 1] /\ i + 1 # 1
  OBVIOUS
<1>2. Once(Tail(stk), op)
  <2> SUFFICES ASSUME NEW i \in DOMAIN Tail(stk), NEW j \in DOMAIN Tail(stk),
                      Tail(stk)[i].op = op, Tail(stk)[j].op = op,
                      Tail(stk)[i].id = Tail(stk)[j].id
               PROVE  i = j
    BY DEF Once
  <2>1. i + 1 = j + 1
    BY <1>1 DEF Once
  <2> QED BY <2>1
<1>3. Head(stk).op = op => ~Has(Tail(stk), op, Head(stk).id)
  BY <1>1 DEF Once, Has
<1> QED BY <1>2, <1>3

\* A frame that neither releases nor accepts.
Plain(f) == f.op \notin {"release", "accept"}

\* Two stacks owe the same.
SameDebts(stk, new) ==
  \A op \in {"release", "accept"} : \A x : Has(new, op, x) <=> Has(stk, op, x)

\* A function that releases nothing and accepts nothing makes calls that do not.
LEMMA PlainCall ==
  ASSUME NEW stk \in Seq(Frames), stk # << >>, Once(stk, "release"), Plain(Head(stk)),
         NEW fs \in Seq(Frames), \A i \in DOMAIN fs : Plain(fs[i])
  PROVE  /\ fs \o Tail(stk) \in Seq(Frames)
         /\ Once(fs \o Tail(stk), "release")
         /\ SameDebts(stk, fs \o Tail(stk))
<1>1. Tail(stk) \in Seq(Frames) /\ Once(Tail(stk), "release")
  BY OnceTail
<1>2. \A op \in {"release", "accept"} : \A x : ~Has(fs, op, x)
  BY DEF Has, Plain
<1>3. Once(fs, "release")
  BY DEF Once, Plain
<1>4. Once(fs \o Tail(stk), "release")
  BY <1>1, <1>2, <1>3, OnceConcat
<1>5. ASSUME NEW op \in {"release", "accept"}, NEW x
      PROVE  Has(fs \o Tail(stk), op, x) <=> Has(stk, op, x)
  <2>1. Has(fs \o Tail(stk), op, x) <=> Has(Tail(stk), op, x)
    BY <1>1, <1>2, HasConcat
  <2>2. Has(stk, op, x) <=> Has(Tail(stk), op, x)
    BY HasHead DEF Plain
  <2> QED BY <2>1, <2>2
<1> QED BY <1>1, <1>4, <1>5, CallsType DEF SameDebts

\* A handler that begins with calls that release nothing and accept nothing.
LEMMA PlainStart ==
  ASSUME NEW fs \in Seq(Frames), \A i \in DOMAIN fs : Plain(fs[i])
  PROVE  Once(fs, "release") /\ SameDebts(<< >>, fs)
BY DEF Once, SameDebts, Has, Plain

-----------------------------------------------------------------------------
(* Steps.                                                                  *)

\* A step that owes the same and leaves the registries and the pool alone.
LEMMA DebtStep ==
  ASSUME RegInv, PoolInv, Once(stack', "release"), SameDebts(stack, stack'),
         UNCHANGED <<listening, life, sessions, sessionCount, manager>>, UNCHANGED pool
  PROVE  RegInv' /\ PoolInv'
<1>1. Open' = Open
  BY DEF Open
<1>2. RegInv'
  BY <1>1 DEF RegInv, SameDebts
<1>3. PoolInv'
  BY DEF PoolInv, SameDebts, pool
<1> QED BY <1>2, <1>3

\* The variables that neither the registries nor the pool depend on.
LinkOK ==
  /\ owns \subseteq Sockets \X Ops
  /\ \A S \in {gone, registered, waiting, deaf, players} : S \subseteq Sockets

\* A plain call that returns or makes plain calls.
LEMMA PlainStep ==
  ASSUME IInv, Running, stack # << >>, Plain(Head(stack)),
         NEW fs \in Seq(Frames), \A i \in DOMAIN fs : Plain(fs[i]),
         Calls(fs), LinkOK',
         proc' \in {"running", "undefined", "crashed"},
         UNCHANGED <<listening, life, sessions, sessionCount, manager>>, UNCHANGED pool
  PROVE  IInv'
<1>1. stack' \in Seq(Frames) /\ Once(stack', "release") /\ SameDebts(stack, stack')
  BY PlainCall DEF IInv, TypeOK, RegInv, Calls
<1>2. RegInv' /\ PoolInv'
  BY <1>1, DebtStep DEF IInv
<1>3. TypeOK'
  BY <1>1 DEF IInv, TypeOK, LinkOK, pool
<1>4. StartInv'
  BY DEF IInv, StartInv
<1> QED BY <1>2, <1>3, <1>4 DEF IInv

\* A handler that starts with plain calls.
LEMMA PlainHandler ==
  ASSUME IInv, Quiet, listening,
         NEW fs \in Seq(Frames), \A i \in DOMAIN fs : Plain(fs[i]),
         stack' = fs, LinkOK',
         UNCHANGED <<proc, listening, life, sessions, sessionCount, manager>>, UNCHANGED pool
  PROVE  IInv'
<1>1. Once(stack', "release") /\ SameDebts(stack, stack')
  BY PlainStart DEF Quiet
<1>2. RegInv' /\ PoolInv'
  BY <1>1, DebtStep DEF IInv
<1>3. TypeOK'
  BY DEF IInv, TypeOK, LinkOK, pool
<1>4. StartInv'
  BY DEF IInv, StartInv, Quiet, Running
<1> QED BY <1>2, <1>3, <1>4 DEF IInv

\* Disconnect: an open session leaves the manager and is owed a release.
LEMMA DisconnectStep ==
  ASSUME IInv, Running, listening, NEW s \in Sockets,
         NEW rest \in Seq(Frames), Once(rest, "release"), SameDebts(stack, rest),
         Disconnect(s, rest), LinkOK',
         UNCHANGED <<proc, listening, sessions, sessionCount, players>>, UNCHANGED pool
  PROVE  IInv'
<1>1. CASE s \notin Open
  <2>1. stack' = rest /\ UNCHANGED <<life, manager>>
    BY <1>1 DEF Disconnect
  <2>2. RegInv' /\ PoolInv'
    BY <2>1, DebtStep DEF IInv
  <2>3. TypeOK'
    BY <2>1 DEF IInv, TypeOK, LinkOK, pool
  <2>4. StartInv'
    BY DEF IInv, StartInv, Running
  <2> QED BY <2>2, <2>3, <2>4 DEF IInv
<1>2. CASE s \in Open
  <2> DEFINE two == <<RemoveObject(s), Frame("release", s, {})>>
  <2>1. /\ life' = [life EXCEPT ![s] = "closed"]
        /\ manager' = manager \ {s}
        /\ stack' = two \o rest
    BY <1>2 DEF Disconnect
  <2>2. RemoveObject(s) \in Frames /\ Frame("release", s, {}) \in Frames
    BY FrameType DEF RemoveObject, Frame, FrameOps
  <2>3. two \in Seq(Frames)
    BY <2>2
  <2>4. /\ \A x : Has(two, "release", x) <=> x = s
        /\ \A x : ~Has(two, "accept", x)
        /\ Once(two, "release")
    <3>1. /\ DOMAIN two = 1..2
          /\ two[1].op = "remove" /\ two[2].op = "release" /\ two[2].id = s
      BY DEF RemoveObject, Frame
    <3>2. \A i \in DOMAIN two : two[i].op = "release" <=> i = 2
      BY <3>1
    <3>3. \A i \in DOMAIN two : two[i].op # "accept"
      BY <3>1
    <3> HIDE DEF two
    <3> QED BY <3>1, <3>2, <3>3 DEF Has, Once
  <2> HIDE DEF two
  <2>5. /\ \A x : Has(stack', "release", x) <=> x = s \/ Has(stack, "release", x)
        /\ \A x : Has(stack', "accept", x) <=> Has(stack, "accept", x)
    BY <2>1, <2>3, <2>4, HasConcat DEF SameDebts
  <2>6. ~Has(rest, "release", s)
    BY <1>2 DEF IInv, RegInv, SameDebts
  <2>7. Once(stack', "release")
    BY <2>1, <2>3, <2>4, <2>6, OnceConcat
  <2>8. Open' = Open \ {s}
    BY <2>1 DEF Open, IInv, TypeOK
  <2>9. RegInv'
    BY <1>2, <2>1, <2>5, <2>7, <2>8 DEF IInv, RegInv
  <2>10. PoolInv'
    <3>1. \A e \in armed : acceptSession[e] # s
      BY <1>2 DEF IInv, PoolInv, Open
    <3> QED BY <2>1, <2>5, <3>1 DEF IInv, PoolInv, TypeOK, pool
  <2>11. TypeOK'
    <3>1. stack' \in Seq(Frames)
      BY <2>1, <2>3
    <3> QED BY <2>1, <3>1 DEF IInv, TypeOK, LinkOK, pool
  <2>12. StartInv'
    BY DEF IInv, StartInv, Running
  <2> QED BY <2>9, <2>10, <2>11, <2>12 DEF IInv
<1> QED BY <1>1, <1>2

-----------------------------------------------------------------------------
(* Actions.                                                                *)

\* The frames of calls that release nothing and accept nothing.
PlainFrames == {f \in Frames : Plain(f)}

\* The frames that Server's calls push are frames, and plain.
LEMMA CallFrames ==
  /\ \A s \in Sockets :
       /\ {Send(s), RegisterSend(s), EnterRoom(s), RegisterRecv(s), RemoveObject(s),
           IocpObject(s)} \subseteq PlainFrames
       /\ Frame("erase", s, {s}) \in PlainFrames
       /\ \A op \in {"hangUp", "sendFailed", "listenFailed"} : Frame(op, s, {}) \in PlainFrames
  /\ \A ps \in SUBSET Sockets : Broadcast(ps) \in PlainFrames
<1>1. ASSUME NEW op \in FrameOps \ {"accept", "release"}, NEW x \in Sockets \cup {NoSession},
             NEW held \in SUBSET Sockets, NEW left \in SUBSET Sockets,
             op # "broadcast" => x \in Sockets
      PROVE  [op |-> op, id |-> x, held |-> held, left |-> left] \in PlainFrames
  <2> DEFINE f == [op |-> op, id |-> x, held |-> held, left |-> left]
  <2>1. /\ f \in [op : FrameOps, id : Events \cup Sockets \cup {NoSession},
                  held : SUBSET Sockets, left : SUBSET Sockets]
        /\ f.op = op /\ f.id = x
    OBVIOUS
  <2> HIDE DEF f
  <2>2. f \in Frames /\ Plain(f)
    BY <2>1, <1>1, FrameType DEF Plain
  <2> QED BY <2>2 DEF PlainFrames, f
<1>2. ASSUME NEW s \in Sockets, NEW op \in FrameOps \ {"accept", "release", "broadcast"},
             NEW held \in SUBSET Sockets
      PROVE  Frame(op, s, held) \in PlainFrames
  BY <1>1 DEF Frame
<1>3. ASSUME NEW ps \in SUBSET Sockets
      PROVE  Broadcast(ps) \in PlainFrames
  <2>1. Broadcast(ps) = [op |-> "broadcast", id |-> NoSession, held |-> {}, left |-> ps]
    BY DEF Broadcast, Frame
  <2> QED BY <1>1, <2>1 DEF FrameOps
<1> QED BY <1>2, <1>3 DEF Send, RegisterSend, EnterRoom, RegisterRecv, RemoveObject,
                          IocpObject, FrameOps

\* Up to three of them make a plain sequence.
LEMMA PlainSeqs ==
  /\ \A i \in DOMAIN << >> : Plain(<< >>[i])
  /\ \A f \in PlainFrames :
       <<f>> \in Seq(Frames) /\ \A i \in DOMAIN <<f>> : Plain(<<f>>[i])
  /\ \A f, g \in PlainFrames :
       <<f, g>> \in Seq(Frames) /\ \A i \in DOMAIN <<f, g>> : Plain(<<f, g>>[i])
  /\ \A f, g, h \in PlainFrames :
       <<f, g, h>> \in Seq(Frames) /\ \A i \in DOMAIN <<f, g, h>> : Plain(<<f, g, h>>[i])
BY DEF PlainFrames

\* What the innermost call knows.
LEMMA HereType ==
  ASSUME IInv, NEW op, Top(op)
  PROVE  /\ Running /\ listening /\ stack \in Seq(Frames) /\ stack # << >>
         /\ Head(stack) \in Frames /\ Head(stack).op = op
         /\ op \in FrameOps
         /\ op = "accept" => Here \in Events
         /\ op \notin {"accept", "broadcast"} => Here \in Sockets
<1>1. /\ Running /\ listening /\ stack \in Seq(Frames) /\ stack # << >>
      /\ Head(stack).op = op
  BY DEF IInv, TypeOK, StartInv, Top
<1>2. Head(stack) \in Frames
  BY <1>1
<1> QED BY <1>1, <1>2, FrameType DEF Here

\* The part of TypeOK that plain steps must keep.
LEMMA LinkType ==
  ASSUME IInv
  PROVE  LinkOK
BY DEF IInv, TypeOK, LinkOK

\* The rest of the loop of a broadcast that calls Send of p.
LEMMA BroadcastFrame ==
  ASSUME NEW f \in Frames, f.op = "broadcast", NEW p \in Sockets
  PROVE  [f EXCEPT !.id = p, !.left = @ \ {p}] \in PlainFrames
<1> DEFINE g == [f EXCEPT !.id = p, !.left = @ \ {p}]
<1>1. f \in [op : FrameOps, id : Events \cup Sockets \cup {NoSession},
             held : SUBSET Sockets, left : SUBSET Sockets]
  BY FrameType
<1>2. g = [op |-> f.op, id |-> p, held |-> f.held, left |-> f.left \ {p}]
  <2>1. PICK o \in FrameOps, x \in Events \cup Sockets \cup {NoSession},
             h \in SUBSET Sockets, l \in SUBSET Sockets :
          f = [op |-> o, id |-> x, held |-> h, left |-> l]
    BY <1>1
  <2>2. f.op = o /\ f.held = h /\ f.left = l
    BY <2>1
  <2>3. [f EXCEPT !.id = p] = [op |-> o, id |-> p, held |-> h, left |-> l]
    BY <2>1
  <2>4. g = [[op |-> o, id |-> p, held |-> h, left |-> l] EXCEPT !.left = l \ {p}]
    BY <2>2, <2>3
  <2> QED BY <2>2, <2>4
<1>3. /\ g \in [op : FrameOps, id : Events \cup Sockets \cup {NoSession},
                held : SUBSET Sockets, left : SUBSET Sockets]
      /\ g.op = "broadcast" /\ g.id = p
  <2>1. f.op \in FrameOps /\ f.held \in SUBSET Sockets /\ f.left \ {p} \in SUBSET Sockets
    BY <1>1
  <2> QED BY <1>2, <2>1
<1> HIDE DEF g
<1>4. g \in Frames /\ Plain(g)
  BY <1>3, FrameType DEF Plain
<1> QED BY <1>4 DEF PlainFrames, g

\* What a plain call does to everything but the stack.
Leaves ==
  /\ LinkOK' /\ UNCHANGED pool
  /\ proc' \in {"running", "undefined", "crashed"}
  /\ UNCHANGED <<listening, life, sessions, sessionCount, manager>>

\* A plain call that returns, or makes one or two plain calls.
LEMMA PlainCalls ==
  ASSUME IInv, NEW op, op \notin {"release", "accept"}, Top(op), Leaves,
         \/ Return
         \/ \E f \in PlainFrames : Calls(<<f>>)
         \/ \E f, g \in PlainFrames : Calls(<<f, g>>)
  PROVE  IInv'
<1>1. Running /\ stack # << >> /\ Plain(Head(stack))
  BY DEF Top, Plain
<1>2. ASSUME NEW fs \in Seq(Frames), \A i \in DOMAIN fs : Plain(fs[i]), Calls(fs)
      PROVE  IInv'
  BY <1>1, <1>2, PlainStep DEF Leaves
<1>3. CASE Return
  <2>1. << >> \in Seq(Frames) /\ \A i \in DOMAIN << >> : Plain(<< >>[i])
    BY PlainSeqs
  <2>2. Calls(<< >>)
    BY <1>3 DEF Return
  <2> QED BY <1>2, <2>1, <2>2
<1>4. ASSUME NEW f \in PlainFrames, Calls(<<f>>)
      PROVE  IInv'
  BY <1>2, <1>4, PlainSeqs
<1>5. ASSUME NEW f \in PlainFrames, NEW g \in PlainFrames, Calls(<<f, g>>)
      PROVE  IInv'
  BY <1>2, <1>5, PlainSeqs
<1> QED BY <1>3, <1>4, <1>5

\* Calls that change no more than owns, registered, waiting, deaf and players.
LEMMA PlainActions ==
  ASSUME IInv,
         \/ \E s \in Sockets : BroadcastNext(s)
         \/ Enter \/ Remove \/ Erase \/ RegisterDisconnect \/ SendCalled \/ PostSend
         \/ PostSendLoses \/ SendFailed \/ Listen \/ ListenDeafens \/ ListenFailed
         \/ DispatchReturns \/ BroadcastEnds
  PROVE  IInv'
<1> USE LinkType DEF LinkOK, link, registries, Running, Top
<1>1. ASSUME NEW p \in Sockets, BroadcastNext(p)
      PROVE  IInv'
  <2>1. Top("broadcast") /\ Leaves
    BY <1>1 DEF BroadcastNext, Leaves
  <2>2. [Head(stack) EXCEPT !.id = p, !.left = @ \ {p}] \in PlainFrames
    BY <2>1, HereType, BroadcastFrame
  <2>3. Send(p) \in PlainFrames
    BY CallFrames
  <2>4. Calls(<<Send(p), [Head(stack) EXCEPT !.id = p, !.left = @ \ {p}]>>)
    BY <1>1 DEF BroadcastNext
  <2> QED BY <2>1, <2>2, <2>3, <2>4, PlainCalls
<1>2. CASE Enter
  <2>1. Top("enter") /\ Here \in Sockets
    BY <1>2, HereType DEF Enter
  <2>2. Leaves
    BY <1>2, <2>1 DEF Enter, Leaves
  <2>3. Broadcast(players') \in PlainFrames
    BY <2>2, CallFrames DEF Leaves
  <2> QED BY <1>2, <2>1, <2>2, <2>3, PlainCalls DEF Enter
<1>3. CASE Remove
  <2>1. Top("remove") /\ Here \in Sockets
    BY <1>3, HereType DEF Remove
  <2>2. Leaves
    BY <1>3, <2>1 DEF Remove, Leaves
  <2>3. Broadcast(players) \in PlainFrames /\ Frame("erase", Here, {Here}) \in PlainFrames
    BY <2>1, CallFrames
  <2> QED BY <1>3, <2>1, <2>2, <2>3, PlainCalls DEF Remove, Return
<1>4. CASE Erase
  <2>1. Top("erase") /\ Here \in Sockets
    BY <1>4, HereType DEF Erase
  <2>2. Leaves
    BY <1>4, <2>1 DEF Erase, Leaves
  <2> QED BY <1>4, <2>1, <2>2, PlainCalls DEF Erase
<1>5. CASE RegisterDisconnect
  <2>1. Top("hangUp") /\ Here \in Sockets
    BY <1>5, HereType DEF RegisterDisconnect
  <2>2. Leaves
    BY <1>5, <2>1 DEF RegisterDisconnect, Leaves, Ops
  <2> QED BY <1>5, <2>1, <2>2, PlainCalls DEF RegisterDisconnect
<1>6. CASE SendCalled
  <2>1. Top("send") /\ Here \in Sockets
    BY <1>6, HereType DEF SendCalled
  <2>2. Leaves
    BY <1>6, <2>1 DEF SendCalled, Leaves
  <2>3. RegisterSend(Here) \in PlainFrames
    BY <2>1, CallFrames
  <2> QED BY <1>6, <2>1, <2>2, <2>3, PlainCalls DEF SendCalled, Return
<1>7. CASE PostSend
  <2>1. Top("post") /\ Here \in Sockets
    BY <1>7, HereType DEF PostSend
  <2>2. Leaves
    BY <1>7, <2>1 DEF PostSend, Leaves, Ops
  <2> QED BY <1>7, <2>1, <2>2, PlainCalls DEF PostSend
<1>8. CASE SendFailed
  <2>1. Top("sendFailed")
    BY <1>8 DEF SendFailed
  <2>2. Leaves
    BY <1>8, <2>1 DEF SendFailed, Leaves
  <2> QED BY <1>8, <2>1, <2>2, PlainCalls DEF SendFailed
<1>9. CASE Listen
  <2>1. Top("listen") /\ Here \in Sockets
    BY <1>9, HereType DEF Listen
  <2>2. Leaves
    BY <1>9, <2>1 DEF Listen, Leaves, Ops
  <2> QED BY <1>9, <2>1, <2>2, PlainCalls DEF Listen
<1>10. CASE ListenFailed
  <2>1. Top("listenFailed")
    BY <1>10 DEF ListenFailed
  <2>2. Leaves
    BY <1>10, <2>1 DEF ListenFailed, Leaves
  <2> QED BY <1>10, <2>1, <2>2, PlainCalls DEF ListenFailed
<1>11. CASE DispatchReturns
  <2>1. Top("return")
    BY <1>11 DEF DispatchReturns
  <2>2. Leaves
    BY <1>11, <2>1 DEF DispatchReturns, Leaves
  <2> QED BY <1>11, <2>1, <2>2, PlainCalls DEF DispatchReturns
<1>12. CASE BroadcastEnds
  <2>1. Top("broadcast")
    BY <1>12 DEF BroadcastEnds
  <2>2. Leaves
    BY <1>12, <2>1 DEF BroadcastEnds, Leaves
  <2> QED BY <1>12, <2>1, <2>2, PlainCalls DEF BroadcastEnds
<1>13. CASE PostSendLoses
  <2>1. Top("post")
    BY <1>13 DEF PostSendLoses
  <2>2. Leaves
    BY <1>13, <2>1 DEF PostSendLoses, Leaves
  <2> QED BY <1>13, <2>1, <2>2, PlainCalls DEF PostSendLoses
<1>14. CASE ListenDeafens
  <2>1. Top("listen") /\ Here \in Sockets
    BY <1>14, HereType DEF ListenDeafens
  <2>2. Leaves
    BY <1>14, <2>1 DEF ListenDeafens, Leaves
  <2> QED BY <1>14, <2>1, <2>2, PlainCalls DEF ListenDeafens
<1> QED BY <1>1, <1>2, <1>3, <1>4, <1>5, <1>6, <1>7, <1>8, <1>9, <1>10, <1>11, <1>12, <1>13,
           <1>14

\* A session that nothing refers to is in no registry and in no accept.
LEMMA Unreferenced ==
  ASSUME NEW s \in Sockets, ~Exists(s)
  PROVE  s \notin sessions /\ s \notin manager /\ \A e \in Events : acceptSession[e] # s
BY DEF Exists, Refers

\* A frame of the accept pool.
LEMMA AcceptFrame ==
  ASSUME NEW e \in Events, NEW held \in SUBSET Sockets
  PROVE  /\ Accept(e, held) \in Frames
         /\ Accept(e, held).op = "accept" /\ Accept(e, held).id = e
<1>1. Accept(e, held) = [op |-> "accept", id |-> e, held |-> held, left |-> {}]
  BY DEF Accept, Frame
<1>2. /\ Accept(e, held) \in [op : FrameOps, id : Events \cup Sockets \cup {NoSession},
                              held : SUBSET Sockets, left : SUBSET Sockets]
      /\ Accept(e, held).op = "accept" /\ Accept(e, held).id = e
  BY <1>1 DEF FrameOps
<1> QED BY <1>2, FrameType

\* An accept is posted, or called again for the same event.
LEMMA RegisterAcceptStep ==
  ASSUME IInv, NEW s \in Sockets, RegisterAccept(s)
  PROVE  IInv'
<1> DEFINE again == Accept(Here, Head(stack).held \cup {s})
<1>1. /\ Running /\ listening /\ stack \in Seq(Frames) /\ stack # << >>
      /\ Head(stack) \in Frames /\ Head(stack).op = "accept" /\ Here \in Events
  BY HereType DEF RegisterAccept
<1>2. /\ life' = [life EXCEPT ![s] = "fresh"]
      /\ acceptSession' = [acceptSession EXCEPT ![Here] = s]
      /\ UNCHANGED <<proc, listening, owns, sessions, sessionCount, manager, players>>
      /\ LinkOK'
  BY LinkType DEF RegisterAccept, CreateSession, registries, LinkOK
<1>3. s \notin sessions /\ s \notin manager /\ \A e \in Events : acceptSession[e] # s
  BY Unreferenced DEF RegisterAccept, CreateSession
<1>4. again \in Frames /\ again.op = "accept" /\ again.id = Here
  <2>1. Head(stack).held \cup {s} \in SUBSET Sockets
    BY <1>1, FrameType
  <2> QED BY <1>1, <2>1, AcceptFrame
<1> HIDE DEF again
<1>5. /\ Tail(stack) \in Seq(Frames) /\ Once(Tail(stack), "release")
      /\ \A op, x : Has(stack, op, x) <=> (op = "accept" /\ x = Here) \/ Has(Tail(stack), op, x)
  <2>1. Tail(stack) \in Seq(Frames) /\ Once(Tail(stack), "release")
    BY <1>1, OnceTail DEF IInv, RegInv
  <2>2. \A op, x : Has(stack, op, x)
                     <=> (Head(stack).op = op /\ Head(stack).id = x) \/ Has(Tail(stack), op, x)
    BY <1>1, HasHead
  <2> QED BY <1>1, <2>1, <2>2 DEF Here
<1>6. \/ armed' = armed \cup {Here} /\ stack' = Tail(stack)
      \/ armed' = armed /\ stack' = <<again>> \o Tail(stack)
  <2>1. << >> \o Tail(stack) = Tail(stack)
    BY <1>5
  <2> QED BY <2>1 DEF RegisterAccept, Calls, Return, again
<1>7. /\ stack' \in Seq(Frames) /\ Once(stack', "release")
      /\ \A x : Has(stack', "release", x) <=> Has(stack, "release", x)
      /\ \A e \in Events : e \in armed \/ Has(stack, "accept", e)
                             => e \in armed' \/ Has(stack', "accept", e)
  <2>1. CASE armed' = armed \cup {Here} /\ stack' = Tail(stack)
    BY <1>5, <2>1
  <2>2. CASE armed' = armed /\ stack' = <<again>> \o Tail(stack)
    <3>1. <<again>> \in Seq(Frames)
      BY <1>4
    <3>2. /\ \A op, x : Has(<<again>>, op, x) <=> op = "accept" /\ x = Here
          /\ Once(<<again>>, "release")
      BY <1>4 DEF Has, Once
    <3>3. \A op, x : Has(stack', op, x) <=> (op = "accept" /\ x = Here) \/ Has(Tail(stack), op, x)
      BY <1>5, <2>2, <3>1, <3>2, HasConcat
    <3>4. Once(stack', "release")
      <4>1. \A x : ~Has(<<again>>, "release", x)
        BY <3>2
      <4> QED BY <1>5, <2>2, <3>1, <3>2, <4>1, OnceConcat
    <3>5. stack' \in Seq(Frames)
      BY <1>5, <2>2, <3>1
    <3> QED BY <1>5, <2>2, <3>3, <3>4, <3>5
  <2> QED BY <1>6, <2>1, <2>2
<1>8. Open' = Open
  BY <1>2, <1>3 DEF Open, IInv, TypeOK, RegInv
<1>9. RegInv'
  BY <1>2, <1>7, <1>8 DEF IInv, RegInv
<1>10. PoolInv'
  <2>1. ASSUME NEW e \in armed'
        PROVE  acceptSession'[e] \in Sockets /\ life'[acceptSession'[e]] = "fresh"
    <3>1. CASE e = Here
      BY <1>1, <1>2, <3>1 DEF IInv, TypeOK
    <3>2. CASE e # Here
      <4>1. e \in armed /\ e \in Events
        BY <1>6, <3>2 DEF IInv, TypeOK
      <4> QED BY <1>2, <1>3, <3>2, <4>1 DEF IInv, TypeOK, PoolInv
    <3> QED BY <3>1, <3>2
  <2>2. ASSUME NEW d \in Events, NEW e \in Events,
               acceptSession'[d] \in Sockets, acceptSession'[d] = acceptSession'[e]
        PROVE  d = e
    BY <1>1, <1>2, <1>3, <2>2 DEF IInv, TypeOK, PoolInv
  <2>3. \A e \in Events : e \in armed' \/ Has(stack', "accept", e)
    BY <1>1, <1>7 DEF IInv, PoolInv
  <2> QED BY <2>1, <2>2, <2>3 DEF PoolInv
<1>11. TypeOK'
  <2>1. armed' \subseteq Events /\ acceptSession' \in [Events -> Sockets \cup {NoSession}]
    BY <1>1, <1>2, <1>6 DEF IInv, TypeOK
  <2>2. life' \in [Sockets -> {"fresh", "open", "closed"}]
    BY <1>2 DEF IInv, TypeOK
  <2> QED BY <1>2, <1>7, <2>1, <2>2 DEF IInv, TypeOK, LinkOK
<1>12. StartInv'
  BY <1>1, <1>2 DEF IInv, StartInv, Running
<1> QED BY <1>9, <1>10, <1>11, <1>12 DEF IInv

\* A released session leaves the service; the assert finds it there.
LEMMA ReleaseStep ==
  ASSUME IInv, ReleaseSession
  PROVE  IInv'
<1> DEFINE hang == Frame("hangUp", Here, {})
<1>1. /\ Running /\ listening /\ stack \in Seq(Frames) /\ stack # << >>
      /\ Head(stack) \in Frames /\ Head(stack).op = "release" /\ Here \in Sockets
  BY HereType DEF ReleaseSession
<1>2. Has(stack, "release", Here)
  BY <1>1, HasHead DEF Here
<1>3. Here \in sessions /\ AssertsRun
  BY <1>1, <1>2 DEF IInv, RegInv, StartInv
<1>4. /\ sessions' = sessions \ {Here}
      /\ sessionCount' = sessionCount - 1
      /\ stack' = <<hang>> \o Tail(stack)
      /\ UNCHANGED <<proc, listening, life, manager, players, armed, acceptSession>>
      /\ LinkOK'
  BY <1>3, LinkType DEF ReleaseSession, Calls, pool, link, LinkOK
<1>5. hang \in PlainFrames
  BY <1>1, CallFrames
<1> HIDE DEF hang
<1>6. /\ <<hang>> \in Seq(Frames) /\ Once(<<hang>>, "release")
      /\ \A op \in {"release", "accept"} : \A x : ~Has(<<hang>>, op, x)
  BY <1>5 DEF PlainFrames, Plain, Once, Has
<1>7. /\ Tail(stack) \in Seq(Frames) /\ Once(Tail(stack), "release")
      /\ ~Has(Tail(stack), "release", Here)
  BY <1>1, OnceTail DEF IInv, RegInv, Here
<1>8. \A op, x : Has(stack, op, x) <=> (op = "release" /\ x = Here) \/ Has(Tail(stack), op, x)
  BY <1>1, HasHead DEF Here
<1>9. \A op \in {"release", "accept"} : \A x : Has(stack', op, x) <=> Has(Tail(stack), op, x)
  BY <1>4, <1>6, <1>7, HasConcat
<1>10. Once(stack', "release")
  BY <1>4, <1>6, <1>7, OnceConcat
<1>11. Open' = Open
  BY <1>4 DEF Open
<1>12. sessionCount' = Cardinality(sessions') /\ sessionCount' \in Nat
  <2>1. IsFiniteSet(sessions)
    BY ServerAssumption, FS_Subset DEF IInv, TypeOK
  <2>2. Cardinality(sessions \ {Here}) = Cardinality(sessions) - 1
    BY <1>3, <2>1, FS_RemoveElement
  <2>3. IsFiniteSet(sessions \ {Here})
    BY <2>1, FS_RemoveElement
  <2> QED BY <1>4, <2>2, <2>3, FS_CardinalityType DEF IInv, RegInv
<1>13. RegInv'
  <2>1. Here \notin Open
    BY <1>2 DEF IInv, RegInv
  <2>2. ~Has(stack', "release", Here)
    BY <1>7, <1>9
  <2>3. \A s \in Sockets : s # Here => (Has(stack', "release", s) <=> Has(stack, "release", s))
    BY <1>8, <1>9
  <2>4. manager' = Open'
    BY <1>4, <1>11 DEF IInv, RegInv
  <2>5. \A s \in Sockets : s \in sessions' <=> s \in Open' \/ Has(stack', "release", s)
    BY <1>4, <1>11, <2>1, <2>2, <2>3 DEF IInv, RegInv
  <2>6. \A s \in Open' : ~Has(stack', "release", s)
    BY <1>11, <2>1, <2>3 DEF IInv, RegInv, Open
  <2> QED BY <1>10, <1>12, <2>4, <2>5, <2>6 DEF RegInv
<1>14. PoolInv'
  <2>1. \A e \in Events : Has(stack, "accept", e) <=> Has(stack', "accept", e)
    BY <1>8, <1>9
  <2> QED BY <1>4, <2>1 DEF IInv, PoolInv
<1>15. TypeOK'
  <2>1. stack' \in Seq(Frames)
    BY <1>4, <1>6, <1>7
  <2> QED BY <1>4, <1>12, <2>1 DEF IInv, TypeOK, LinkOK
<1>16. StartInv'
  BY <1>1, <1>4 DEF IInv, StartInv, Running
<1> QED BY <1>13, <1>14, <1>15, <1>16 DEF IInv

\* The start posts every accept, or nothing happens.
LEMMA StartStep ==
  ASSUME IInv, Start
  PROVE  IInv'
<1>1. /\ proc = "starting" /\ ~listening /\ stack = << >> /\ LinkOK'
      /\ UNCHANGED <<life, sessions, sessionCount, manager>> /\ UNCHANGED pool
      /\ UNCHANGED <<owns, players>>
  BY LinkType DEF Start, IInv, StartInv, link, registries, LinkOK
<1>2. CASE UNCHANGED <<listening, stack>> /\ proc' \in {"running", "aborted"}
  <2>1. Once(stack', "release") /\ SameDebts(stack, stack')
    BY <1>2 DEF IInv, RegInv, SameDebts
  <2>2. RegInv' /\ PoolInv'
    BY <1>1, <1>2, <2>1, DebtStep DEF IInv
  <2>3. TypeOK'
    BY <1>1, <1>2 DEF IInv, TypeOK, LinkOK, pool
  <2>4. StartInv'
    BY <1>1, <1>2 DEF IInv, StartInv, pool
  <2> QED BY <2>2, <2>3, <2>4 DEF IInv
<1>3. CASE /\ AssertsRun /\ proc' = "running" /\ listening'
           /\ stack' = [e \in Events |-> Accept(e, {})]
  <2>1. \A e \in Events : /\ Accept(e, {}) \in Frames
                          /\ Accept(e, {}).op = "accept" /\ Accept(e, {}).id = e
    BY AcceptFrame
  <2>2. stack' \in Seq(Frames) /\ DOMAIN stack' = Events
    BY <1>3, <2>1, ServerAssumption DEF Events
  <2>3. \A e \in Events : Has(stack', "accept", e)
    BY <1>3, <2>1, <2>2 DEF Has
  <2>4. Once(stack', "release") /\ \A x : ~Has(stack', "release", x)
    BY <1>3, <2>1, <2>2 DEF Has, Once
  <2>5. \A x : ~Has(stack, "release", x)
    BY <1>1 DEF Has
  <2>6. Open' = Open
    BY <1>1 DEF Open
  <2>7. RegInv'
    BY <1>1, <2>4, <2>5, <2>6 DEF IInv, RegInv
  <2>8. PoolInv'
    BY <1>1, <2>3 DEF IInv, PoolInv, pool
  <2>9. TypeOK'
    BY <1>1, <1>3, <2>2 DEF IInv, TypeOK, LinkOK, pool
  <2>10. StartInv'
    BY <1>3 DEF StartInv
  <2> QED BY <2>7, <2>8, <2>9, <2>10 DEF IInv
<1> QED BY <1>2, <1>3 DEF Start

\* A client is accepted; its event owes the next accept.
LEMMA ProcessAcceptStep ==
  ASSUME IInv, NEW e \in Events, ProcessAccept(e)
  PROVE  IInv'
<1> DEFINE s == acceptSession[e]
           calls == <<Send(s), Send(s), Send(s), EnterRoom(s), RegisterRecv(s)>>
           next == <<Accept(e, {s})>>
<1>1. e \in armed /\ Running /\ stack = << >>
  BY DEF ProcessAccept, Quiet
<1>2. listening
  BY <1>1 DEF IInv, StartInv
<1>3. s \in Sockets /\ life[s] = "fresh"
  BY <1>1 DEF IInv, PoolInv
<1>4. /\ armed' = armed \ {e}
      /\ life' = [life EXCEPT ![s] = "open"]
      /\ sessions' = sessions \cup {s}
      /\ sessionCount' = sessionCount + 1
      /\ manager' = manager \cup {s}
      /\ UNCHANGED <<proc, listening, acceptSession, players>>
      /\ LinkOK'
  BY LinkType DEF ProcessAccept, link, LinkOK
<1>5. /\ calls \in Seq(Frames) /\ Once(calls, "release")
      /\ \A op \in {"release", "accept"} : \A x : ~Has(calls, op, x)
  <2>1. {Send(s), EnterRoom(s), RegisterRecv(s)} \subseteq PlainFrames
    BY <1>3, CallFrames
  <2>2. calls \in Seq(PlainFrames)
    BY <2>1
  <2> HIDE DEF calls
  <2>3. \A i \in DOMAIN calls : calls[i] \in Frames /\ calls[i].op \notin {"release", "accept"}
    BY <2>2 DEF PlainFrames, Plain
  <2>4. calls \in Seq(Frames)
    BY <2>2, <2>3
  <2> QED BY <2>3, <2>4 DEF Once, Has
<1>6. /\ next \in Seq(Frames) /\ Once(next, "release")
      /\ \A x : ~Has(next, "release", x)
      /\ Has(next, "accept", e)
  <2>1. /\ Accept(e, {s}) \in Frames
        /\ Accept(e, {s}).op = "accept" /\ Accept(e, {s}).id = e
    BY <1>3, AcceptFrame
  <2> QED BY <2>1 DEF Once, Has
<1>7. stack' = calls \o next
  BY DEF ProcessAccept
<1> HIDE DEF calls, next
<1>8. /\ stack' \in Seq(Frames) /\ Once(stack', "release")
      /\ \A x : ~Has(stack', "release", x)
      /\ Has(stack', "accept", e)
  <2>1. \A op, x : Has(stack', op, x) <=> Has(calls, op, x) \/ Has(next, op, x)
    BY <1>5, <1>6, <1>7, HasConcat
  <2>2. Once(stack', "release")
    BY <1>5, <1>6, <1>7, OnceConcat
  <2> QED BY <1>5, <1>6, <1>7, <2>1, <2>2
<1>9. s \notin sessions /\ s \notin Open
  BY <1>1, <1>3 DEF IInv, RegInv, Open, Has
<1>10. Open' = Open \cup {s}
  BY <1>3, <1>4 DEF Open, IInv, TypeOK
<1>11. sessionCount' = Cardinality(sessions') /\ sessionCount' \in Nat
  <2>1. IsFiniteSet(sessions)
    BY ServerAssumption, FS_Subset DEF IInv, TypeOK
  <2>2. Cardinality(sessions \cup {s}) = Cardinality(sessions) + 1
    BY <1>9, <2>1, FS_AddElement
  <2> QED BY <1>4, <2>2 DEF IInv, RegInv, TypeOK
<1>12. RegInv'
  <2>1. \A x : ~Has(stack, "release", x)
    BY <1>1 DEF Has
  <2>2. \A t \in Sockets : t \in sessions' <=> t \in Open' \/ Has(stack', "release", t)
    BY <1>4, <1>8, <1>10, <2>1 DEF IInv, RegInv
  <2>3. manager' = Open'
    BY <1>4, <1>10 DEF IInv, RegInv
  <2> QED BY <1>8, <1>11, <2>2, <2>3 DEF RegInv
<1>13. PoolInv'
  <2>1. \A d \in armed' : d \in armed /\ d \in Events /\ acceptSession[d] # s
    BY <1>3, <1>4 DEF IInv, TypeOK, PoolInv
  <2>2. \A d \in armed' : acceptSession'[d] \in Sockets /\ life'[acceptSession'[d]] = "fresh"
    BY <1>4, <2>1 DEF IInv, TypeOK, PoolInv
  <2>3. \A d \in Events : d \in armed \/ Has(stack, "accept", d)
    BY <1>2 DEF IInv, PoolInv
  <2>4. \A d \in Events : d \in armed
    BY <1>1, <2>3 DEF Has
  <2>5. \A d \in Events : d \in armed' \/ Has(stack', "accept", d)
    BY <1>4, <1>8, <2>4
  <2>6. \A c, d \in Events :
          acceptSession'[c] \in Sockets /\ acceptSession'[c] = acceptSession'[d] => c = d
    BY <1>4 DEF IInv, PoolInv
  <2> QED BY <2>2, <2>5, <2>6 DEF PoolInv
<1>14. TypeOK'
  <2>1. life' \in [Sockets -> {"fresh", "open", "closed"}]
    BY <1>3, <1>4 DEF IInv, TypeOK
  <2> QED BY <1>3, <1>4, <1>8, <1>11, <2>1 DEF IInv, TypeOK, LinkOK
<1>15. StartInv'
  BY <1>1, <1>2, <1>4 DEF IInv, StartInv, Running
<1> QED BY <1>12, <1>13, <1>14, <1>15 DEF IInv

\* A client that is refused; its event owes the next accept.
LEMMA RefuseStep ==
  ASSUME IInv, NEW e \in Events, Refuse(e)
  PROVE  IInv'
<1> DEFINE s == acceptSession[e]
           next == <<Accept(e, {s})>>
<1>1. e \in armed /\ Running /\ stack = << >>
  BY DEF Refuse, Quiet
<1>2. listening /\ s \in Sockets
  BY <1>1 DEF IInv, StartInv, PoolInv
<1>3. /\ armed' = armed \ {e} /\ stack' = next
      /\ UNCHANGED <<proc, listening, acceptSession, life, sessions, sessionCount, manager>>
      /\ LinkOK'
  BY LinkType DEF Refuse, link, registries, LinkOK
<1>4. /\ next \in Seq(Frames) /\ Once(next, "release")
      /\ \A x : ~Has(next, "release", x)
      /\ Has(next, "accept", e)
  <2>1. /\ Accept(e, {s}) \in Frames
        /\ Accept(e, {s}).op = "accept" /\ Accept(e, {s}).id = e
    BY <1>2, AcceptFrame
  <2> QED BY <2>1 DEF Once, Has
<1> HIDE DEF next
<1>5. Open' = Open
  BY <1>3 DEF Open
<1>6. RegInv'
  <2>1. \A x : ~Has(stack, "release", x)
    BY <1>1 DEF Has
  <2> QED BY <1>3, <1>4, <1>5, <2>1 DEF IInv, RegInv
<1>7. PoolInv'
  <2>1. \A d \in Events : d \in armed
    BY <1>1, <1>2 DEF IInv, PoolInv, Has
  <2>2. \A d \in Events : d \in armed' \/ Has(stack', "accept", d)
    BY <1>3, <1>4, <2>1
  <2> QED BY <1>3, <2>2 DEF IInv, PoolInv
<1>8. TypeOK'
  BY <1>3, <1>4 DEF IInv, TypeOK, LinkOK
<1>9. StartInv'
  BY <1>1, <1>2, <1>3 DEF IInv, StartInv, Running
<1> QED BY <1>6, <1>7, <1>8, <1>9 DEF IInv

\* A call that fails at once disconnects in the middle of its function.
LEMMA FailingCalls ==
  ASSUME IInv, PostSendFails \/ ListenFails
  PROVE  IInv'
<1>1. CASE PostSendFails
  <2> DEFINE rest == <<Frame("sendFailed", Here, {})>> \o Tail(stack)
  <2>1. Top("post")
    BY <1>1 DEF PostSendFails
  <2>2. /\ Running /\ listening /\ stack \in Seq(Frames) /\ stack # << >>
        /\ Plain(Head(stack)) /\ Here \in Sockets
    BY <2>1, HereType DEF Plain
  <2>3. Frame("sendFailed", Here, {}) \in PlainFrames
    BY <2>2, CallFrames
  <2>4. rest \in Seq(Frames) /\ Once(rest, "release") /\ SameDebts(stack, rest)
    BY <2>2, <2>3, PlainSeqs, PlainCall DEF IInv, RegInv
  <2>5. /\ LinkOK' /\ UNCHANGED pool
        /\ UNCHANGED <<proc, listening, sessions, sessionCount, players>>
        /\ Disconnect(Here, rest)
    BY <1>1, <2>2, LinkType DEF PostSendFails, LinkOK, Ops
  <2> HIDE DEF rest
  <2> QED BY <2>2, <2>4, <2>5, DisconnectStep
<1>2. CASE ListenFails
  <2> DEFINE rest == <<Frame("listenFailed", Here, {})>> \o Tail(stack)
  <2>1. Top("listen")
    BY <1>2 DEF ListenFails
  <2>2. /\ Running /\ listening /\ stack \in Seq(Frames) /\ stack # << >>
        /\ Plain(Head(stack)) /\ Here \in Sockets
    BY <2>1, HereType DEF Plain
  <2>3. Frame("listenFailed", Here, {}) \in PlainFrames
    BY <2>2, CallFrames
  <2>4. rest \in Seq(Frames) /\ Once(rest, "release") /\ SameDebts(stack, rest)
    BY <2>2, <2>3, PlainSeqs, PlainCall DEF IInv, RegInv
  <2>5. /\ LinkOK' /\ UNCHANGED pool
        /\ UNCHANGED <<proc, listening, sessions, sessionCount, players>>
        /\ Disconnect(Here, rest)
    BY <1>2, <2>2, LinkType DEF ListenFails, LinkOK, Ops
  <2> HIDE DEF rest
  <2> QED BY <2>2, <2>4, <2>5, DisconnectStep
<1> QED BY <1>1, <1>2

\* An operation ends with the connection.
LEMMA CompletesEmptyStep ==
  ASSUME IInv, NEW s \in Sockets, NEW op \in {"recv", "send"}, CompletesEmpty(s, op)
  PROVE  IInv'
<1> DEFINE rest == <<IocpObject(s)>>
<1>1. Quiet /\ stack = << >> /\ Running /\ listening
  BY DEF CompletesEmpty, Completes, Quiet, IInv, StartInv
<1>2. IocpObject(s) \in PlainFrames
  BY CallFrames
<1>3. rest \in Seq(Frames) /\ Once(rest, "release") /\ SameDebts(stack, rest)
  BY <1>1, <1>2, PlainSeqs, PlainStart
<1>4. /\ LinkOK' /\ UNCHANGED pool
      /\ UNCHANGED <<proc, listening, sessions, sessionCount, players>>
      /\ Disconnect(s, rest)
  BY LinkType DEF CompletesEmpty, Completes, LinkOK
<1> HIDE DEF rest
<1> QED BY <1>1, <1>3, <1>4, DisconnectStep

\* A sequence of one before a sequence of two.
LEMMA ConcatThree ==
  ASSUME NEW f \in Frames, NEW g \in Frames, NEW h \in Frames
  PROVE  <<f>> \o <<g, h>> = <<f, g, h>>
<1>1. <<f>> \in Seq(Frames) /\ <<g, h>> \in Seq(Frames) /\ <<f, g, h>> \in Seq(Frames)
  OBVIOUS
<1>2. /\ Len(<<f>> \o <<g, h>>) = 3 /\ Len(<<f, g, h>>) = 3
      /\ <<f>> \o <<g, h>> \in Seq(Frames)
  BY <1>1
<1>3. \A i \in 1..3 : (<<f>> \o <<g, h>>)[i] = <<f, g, h>>[i]
  <2>1. \A i \in 1..3 : (<<f>> \o <<g, h>>)[i] = IF i <= 1 THEN <<f>>[i] ELSE <<g, h>>[i - 1]
    BY <1>1
  <2>2. \A i \in 1..3 : i = 1 \/ i = 2 \/ i = 3
    OBVIOUS
  <2> QED BY <2>1, <2>2
<1> QED BY <1>1, <1>2, <1>3, SeqEqual

\* A handler that makes no call.
LEMMA NoCalls ==
  ASSUME IInv, Quiet, listening, stack' = << >>, LinkOK',
         UNCHANGED <<proc, listening, life, sessions, sessionCount, manager>>, UNCHANGED pool
  PROVE  IInv'
<1>1. << >> \in Seq(Frames) /\ \A i \in DOMAIN << >> : Plain(<< >>[i])
  BY PlainSeqs
<1> QED BY <1>1, PlainHandler

\* Handlers that begin with plain calls, or make none.
LEMMA PlainHandlers ==
  ASSUME IInv,
         \/ \E s \in Sockets : ProcessRecv(s) \/ ProcessSend(s) \/ ProcessDisconnect(s)
         \/ Update
  PROVE  IInv'
<1> USE LinkType DEF LinkOK, link, registries
<1> DEFINE Stays == /\ Quiet /\ listening /\ LinkOK' /\ UNCHANGED pool
                    /\ UNCHANGED <<proc, listening, life, sessions, sessionCount, manager>>
<1>1. ASSUME Stays, NEW fs \in Seq(Frames), \A i \in DOMAIN fs : Plain(fs[i]), stack' = fs
      PROVE  IInv'
  BY <1>1, PlainHandler
<1>2. ASSUME NEW s \in Sockets, ProcessRecv(s)
      PROVE  IInv'
  <2>1. Stays
    BY <1>2 DEF ProcessRecv, Completes, Quiet, IInv, StartInv
  <2>2. /\ Broadcast(players) \in PlainFrames
        /\ RegisterRecv(s) \in PlainFrames /\ IocpObject(s) \in PlainFrames
    BY CallFrames
  <2>3. \/ stack' = <<Broadcast(players), RegisterRecv(s), IocpObject(s)>>
        \/ stack' = <<RegisterRecv(s), IocpObject(s)>>
    <3>1. CASE s \in players
      <4>1. stack' = <<Broadcast(players)>> \o <<RegisterRecv(s), IocpObject(s)>>
        BY <1>2, <3>1 DEF ProcessRecv
      <4> QED BY <2>2, <4>1, ConcatThree DEF PlainFrames
    <3>2. CASE s \notin players
      <4>1. stack' = << >> \o <<RegisterRecv(s), IocpObject(s)>>
        BY <1>2, <3>2 DEF ProcessRecv
      <4> QED BY <4>1
    <3> QED BY <3>1, <3>2
  <2> QED BY <1>1, <2>1, <2>2, <2>3, PlainSeqs
<1>3. ASSUME NEW s \in Sockets, ProcessSend(s)
      PROVE  IInv'
  <2>1. Stays
    BY <1>3 DEF ProcessSend, Completes, Quiet, IInv, StartInv
  <2>2. RegisterSend(s) \in PlainFrames /\ IocpObject(s) \in PlainFrames
    BY CallFrames
  <2>3. stack' = <<RegisterSend(s), IocpObject(s)>> \/ stack' = << >>
    BY <1>3 DEF ProcessSend, Completes, Quiet
  <2>4. CASE stack' = <<RegisterSend(s), IocpObject(s)>>
    BY <1>1, <2>1, <2>2, <2>4, PlainSeqs
  <2>5. CASE stack' = << >>
    BY <2>1, <2>5, NoCalls
  <2> QED BY <2>3, <2>4, <2>5
<1>4. ASSUME NEW s \in Sockets, ProcessDisconnect(s)
      PROVE  IInv'
  <2>1. Stays /\ stack' = << >>
    BY <1>4 DEF ProcessDisconnect, Completes, Quiet, IInv, StartInv
  <2> QED BY <2>1, NoCalls
<1>5. CASE Update
  <2>1. Stays
    BY <1>5 DEF Update, Quiet, IInv, StartInv
  <2>2. Broadcast(players) \in PlainFrames /\ \A s \in players : RemoveObject(s) \in PlainFrames
    BY CallFrames
  <2>3. \/ stack' = <<Broadcast(players)>>
        \/ \E s \in players : stack' = <<Broadcast(players), RemoveObject(s)>>
    BY <1>5 DEF Update
  <2> QED BY <1>1, <2>1, <2>2, <2>3, PlainSeqs
<1> QED BY <1>2, <1>3, <1>4, <1>5

\* Steps that leave the stack, the registries and the pool alone.
LEMMA OtherSteps ==
  ASSUME IInv, NoSocketLeft \/ (\E s \in Sockets : PeerLeaves(s)) \/ UNCHANGED vars
  PROVE  IInv'
<1>1. /\ UNCHANGED <<stack, listening, life, sessions, sessionCount, manager, players, owns>>
      /\ UNCHANGED pool /\ LinkOK'
      /\ proc' \in {proc, "crashed"}
  BY LinkType DEF NoSocketLeft, PeerLeaves, vars, pool, link, registries, LinkOK
<1>2. Once(stack', "release") /\ SameDebts(stack, stack')
  BY <1>1 DEF IInv, RegInv, SameDebts
<1>3. RegInv' /\ PoolInv'
  BY <1>1, <1>2, DebtStep DEF IInv
<1>4. TypeOK'
  BY <1>1 DEF IInv, TypeOK, LinkOK, pool
<1>5. StartInv'
  BY <1>1 DEF IInv, StartInv, pool
<1> QED BY <1>3, <1>4, <1>5 DEF IInv

-----------------------------------------------------------------------------
(* The theorems.                                                           *)

\* The initial state satisfies the invariant.
LEMMA InitInv ==
  ASSUME Init
  PROVE  IInv
<1>1. TypeOK
  <2>1. << >> \in Seq(Frames)
    OBVIOUS
  <2>2. /\ acceptSession \in [Events -> Sockets \cup {NoSession}]
        /\ life \in [Sockets -> {"fresh", "open", "closed"}]
    BY DEF Init
  <2>3. armed \subseteq Events /\ owns \subseteq Sockets \X Ops
    BY DEF Init
  <2> QED BY <2>1, <2>2, <2>3 DEF Init, TypeOK
<1>2. StartInv
  BY DEF Init, StartInv
<1>3. RegInv
  <2>1. Open = {}
    BY DEF Init, Open
  <2>2. Once(stack, "release") /\ \A x : ~Has(stack, "release", x)
    BY DEF Init, Once, Has
  <2>3. sessionCount = Cardinality(sessions)
    BY FS_EmptySet DEF Init
  <2> QED BY <2>1, <2>2, <2>3 DEF Init, RegInv
<1>4. PoolInv
  <2>1. \A e \in Events : acceptSession[e] \notin Sockets
    BY ServerAssumption DEF Init
  <2> QED BY <2>1 DEF Init, PoolInv
<1> QED BY <1>1, <1>2, <1>3, <1>4 DEF IInv

\* Every step keeps it.
LEMMA NextInv ==
  ASSUME IInv, [Next]_vars
  PROVE  IInv'
<1>1. CASE Unwind
  BY <1>1, RegisterAcceptStep, ReleaseStep, PlainActions, FailingCalls, OtherSteps DEF Unwind
<1>2. CASE Dispatch
  BY <1>2, ProcessAcceptStep, RefuseStep, PlainHandlers, CompletesEmptyStep DEF Dispatch
<1> QED BY <1>1, <1>2, StartStep, PlainHandlers, OtherSteps DEF Next

\* It holds always.
LEMMA Inductive == SafeSpec => []IInv
<1>1. Init => IInv
  BY InitInv
<1>2. IInv /\ [Next]_vars => IInv'
  BY NextInv
<1> QED BY <1>1, <1>2, PTL DEF SafeSpec

\* TypeOK, the shape of every call on the stack included.
THEOREM TypeCorrect == SafeSpec => []TypeOK
<1>1. IInv => TypeOK
  BY DEF IInv
<1> QED BY <1>1, Inductive, PTL

\* RegistriesAgree: the service, its counter and the manager agree between handlers
\* (AddSession, ReleaseSession, GameSessionManager::Add and Remove).
THEOREM RegistriesAlwaysAgree == SafeSpec => []RegistriesAgree
<1>1. IInv => RegistriesAgree
  <2> SUFFICES ASSUME IInv, Quiet
               PROVE  sessions = Open /\ manager = Open /\ sessionCount = Cardinality(Open)
    BY DEF RegistriesAgree
  <2>1. \A s : ~Has(stack, "release", s)
    BY DEF Quiet, Has
  <2>2. sessions = Open
    BY <2>1 DEF IInv, RegInv, TypeOK, Open
  <2> QED BY <2>2 DEF IInv, RegInv
<1> QED BY <1>1, Inductive, PTL

\* PoolArmed: between handlers every accept event of Listener is posted, each with a
\* fresh session of its own.
THEOREM PoolAlwaysArmed == SafeSpec => []PoolArmed
<1>1. IInv => PoolArmed
  <2> SUFFICES ASSUME IInv, Quiet, listening
               PROVE  /\ armed = Events
                      /\ \A e \in Events : life[acceptSession[e]] = "fresh"
                      /\ \A d, e \in Events : acceptSession[d] = acceptSession[e] => d = e
    BY DEF PoolArmed
  <2>1. armed = Events
    <3>1. \A e \in Events : ~Has(stack, "accept", e)
      BY DEF Quiet, Has
    <3> QED BY <3>1 DEF IInv, TypeOK, PoolInv
  <2> QED BY <2>1 DEF IInv, PoolInv
<1> QED BY <1>1, Inductive, PTL

\* NothingLeaks: between handlers a closed session that still exists has an
\* operation outstanding, or its player is in the room.
THEOREM OnlyOperationsKeep == SafeSpec => []NothingLeaks
<1>1. IInv => NothingLeaks
  <2> SUFFICES ASSUME IInv, Quiet, NEW s \in Sockets \ players, life[s] = "closed", Exists(s)
               PROVE  \E op \in Ops : <<s, op>> \in owns
    BY DEF NothingLeaks
  <2>1. s \notin Open
    BY DEF Open
  <2>2. s \notin sessions \cup manager \cup players
    BY <2>1 DEF IInv, RegInv, Quiet, Has
  <2>3. \A e \in Events : acceptSession[e] # s
    <3>1. CASE listening
      BY <3>1 DEF IInv, PoolInv, Quiet, Has
    <3>2. CASE ~listening
      BY <3>2, ServerAssumption DEF IInv, StartInv
    <3> QED BY <3>1, <3>2
  <2>4. ~\E i \in DOMAIN stack : s \in stack[i].held
    BY DEF Quiet
  <2> QED BY <2>2, <2>3, <2>4 DEF Exists, Refers
<1> QED BY <1>1, Inductive, PTL

\* ReleaseAssertHolds: the assert of ReleaseSession finds the session registered.
THEOREM ReleaseFindsSession == SafeSpec => []ReleaseAssertHolds
<1>1. IInv => ReleaseAssertHolds
  BY DEF IInv, StartInv, ReleaseAssertHolds
<1> QED BY <1>1, Inductive, PTL

-----------------------------------------------------------------------------
(* UsedIsAlive.                                                            *)

\* The outermost call.
Bottom(stk) == stk[Len(stk)]

\* The call returns into RegisterSend of its session, after a reset.
Returns(stk, i) == \E j \in DOMAIN stk : j > i /\ stk[j].op = "sendFailed" /\ stk[j].id = stk[i].id

\* What keeps the session of a call alive until the call returns.  A call of Send or
\* RegisterSend is over before its player can leave, or is made by OnConnected or
\* ProcessSend, whose session the outermost call refers to; RegisterRecv runs for the
\* session of the handler, which the outermost call refers to; whoever is
\* disconnecting has a receive outstanding, is the session of the handler or returns
\* into RegisterSend, whose event has its owner until then.
FrameLive(stk, i, own, ps, df) ==
  /\ stk[i].op \in {"send", "post"} =>
       i < Len(stk) /\ ((i = 1 /\ stk[i].id \in ps) \/ stk[i].id \in Bottom(stk).held)
  /\ stk[i].op \in {"listen", "listenFailed"} =>
       i < Len(stk) /\ stk[i].id \in Bottom(stk).held
  /\ stk[i].op \in {"release", "hangUp"} =>
       /\ i < Len(stk)
       /\ \/ <<stk[i].id, "recv">> \in own
          \/ stk[i].id \in Bottom(stk).held
          \/ Returns(stk, i)
  /\ stk[i].op = "sendFailed" =>
       /\ i < Len(stk)
       /\ <<stk[i].id, "send">> \in own
       /\ \/ <<stk[i].id, "recv">> \in own
          \/ stk[i].id \in Bottom(stk).held
          \/ stk[i].id \in df

LiveInv ==
  /\ \A i \in DOMAIN stack : FrameLive(stack, i, owns, players, deaf)
  /\ \A s \in Open : <<s, "recv">> \in owns \/ Has(stack, "listen", s) \/ s \in deaf
  /\ \A s \in Open : ~Has(stack, "listenFailed", s) /\ ~Has(stack, "sendFailed", s)
  /\ Once(stack, "sendFailed")

\* Calls that need nothing to keep their session alive.
Loose(f) == f.op \in {"accept", "enter", "remove", "erase", "broadcast", "return"}

\* What an open session has, or the session of the handler.
LEMMA OpenIsKept ==
  ASSUME LiveInv, NEW s \in Open
  PROVE  <<s, "recv">> \in owns \/ s \in Bottom(stack).held \/ s \in deaf
<1> SUFFICES ASSUME Has(stack, "listen", s)
             PROVE  s \in Bottom(stack).held
  BY DEF LiveInv
<1>1. PICK i \in DOMAIN stack : stack[i].op = "listen" /\ stack[i].id = s
  BY DEF Has
<1>2. FrameLive(stack, i, owns, players, deaf)
  BY DEF LiveInv
<1> QED BY <1>1, <1>2 DEF FrameLive

\* A call is not the outermost, or nothing is left but what it calls.
LEMMA CallsConcat ==
  ASSUME NEW stk \in Seq(Frames), stk # << >>, NEW fs \in Seq(Frames)
  PROVE  LET new == fs \o Tail(stk)
         IN  /\ Len(new) = Len(fs) + Len(stk) - 1
             /\ DOMAIN new = 1..Len(new)
             /\ \A i \in 1..Len(fs) : i \in DOMAIN new /\ new[i] = fs[i]
             /\ \A i \in 1..Len(new) :
                  i > Len(fs) => /\ i - Len(fs) + 1 \in 2..Len(stk)
                                 /\ new[i] = stk[i - Len(fs) + 1]
             /\ Len(stk) > 1 => Bottom(new) = Bottom(stk)
<1> DEFINE new == fs \o Tail(stk)
<1>1. /\ Tail(stk) \in Seq(Frames) /\ Len(Tail(stk)) = Len(stk) - 1
      /\ \A i \in 1..Len(stk) - 1 : Tail(stk)[i] = stk[i + 1]
      /\ Len(stk) \in Nat \ {0} /\ Len(fs) \in Nat
  OBVIOUS
<1>2. Len(new) = Len(fs) + Len(stk) - 1 /\ DOMAIN new = 1..Len(new)
  BY <1>1
<1>3. \A i \in 1..Len(new) : new[i] = IF i <= Len(fs) THEN fs[i] ELSE Tail(stk)[i - Len(fs)]
  BY <1>1
<1> HIDE DEF new
<1>4. \A i \in 1..Len(fs) : i \in DOMAIN new /\ new[i] = fs[i]
  BY <1>1, <1>2, <1>3
<1>5. ASSUME NEW i \in 1..Len(new), i > Len(fs)
      PROVE  i - Len(fs) + 1 \in 2..Len(stk) /\ new[i] = stk[i - Len(fs) + 1]
  <2>1. i - Len(fs) \in 1..Len(stk) - 1
    BY <1>1, <1>2, <1>5
  <2>2. new[i] = Tail(stk)[i - Len(fs)]
    BY <1>1, <1>2, <1>3, <1>5
  <2> QED BY <1>1, <2>1, <2>2
<1>6. ASSUME Len(stk) > 1
      PROVE  Bottom(new) = Bottom(stk)
  <2>1. Len(new) \in 1..Len(new) /\ Len(new) > Len(fs) /\ Len(new) - Len(fs) + 1 = Len(stk)
    BY <1>1, <1>2, <1>6
  <2> QED BY <1>5, <2>1 DEF Bottom
<1> QED BY <1>2, <1>4, <1>5, <1>6 DEF new

\* The same of the stack and its next value.
LEMMA CallsHere ==
  ASSUME stack \in Seq(Frames), stack # << >>, NEW fs \in Seq(Frames),
         stack' = fs \o Tail(stack)
  PROVE  /\ DOMAIN stack' = 1..Len(stack') /\ Len(stack') \in Nat
         /\ Len(stack') >= Len(fs)
         /\ \A i \in 1..Len(fs) : stack'[i] = fs[i]
         /\ Len(stack) > 1 => Len(stack') > Len(fs) /\ Bottom(stack') = Bottom(stack)
<1>1. Len(stack) \in Nat \ {0} /\ Len(fs) \in Nat
  OBVIOUS
<1>2. /\ Len(stack') = Len(fs) + Len(stack) - 1
      /\ DOMAIN stack' = 1..Len(stack')
      /\ \A i \in 1..Len(fs) : stack'[i] = fs[i]
      /\ Len(stack) > 1 => Bottom(stack') = Bottom(stack)
  BY CallsConcat
<1> QED BY <1>1, <1>2

\* Who returns into RegisterSend keeps the owner of its event, and stays deaf.
Keeps(s) ==
  /\ <<s, "send">> \in owns => <<s, "send">> \in owns'
  /\ s \in deaf => s \in deaf'

LEMMA KeepsAll ==
  ASSUME deaf \subseteq deaf', \A s \in Sockets : <<s, "send">> \in owns => <<s, "send">> \in owns'
  PROVE  Open \cap deaf \subseteq deaf' /\ \A s \in Sockets : Keeps(s)
BY DEF Keeps

\* A call that returns or makes calls.  Only the outermost call's session may lose
\* its receive.
LEMMA LiveStep ==
  ASSUME LiveInv, stack \in Seq(Frames), stack # << >>,
         NEW fs \in Seq(Frames), stack' = fs \o Tail(stack),
         \A i \in 1..Len(fs) : FrameLive(stack', i, owns', players', deaf'),
         \A i \in 1..Len(fs) : fs[i].op # "listen",
         \A i \in 1..Len(fs) : fs[i].op \in {"listenFailed", "sendFailed"} => fs[i].id \notin Open',
         \A i \in 1..Len(fs) : fs[i].op = "sendFailed" => fs[i].id \in Open,
         Once(fs, "sendFailed"),
         Open' \subseteq Open, Open \cap deaf \subseteq deaf',
         \A s \in Sockets : Has(Tail(stack), "sendFailed", s) => Keeps(s),
         \A s \in Sockets : <<s, "recv">> \in owns \ owns' => s \in Bottom(stack).held \ Open',
         Head(stack).op = "listen" =>
           Here \notin Open' \/ <<Here, "recv">> \in owns' \/ Here \in deaf'
  PROVE  LiveInv'
<1>1. /\ DOMAIN stack' = 1..Len(stack')
      /\ Len(stack') = Len(fs) + Len(stack) - 1
      /\ \A i \in 1..Len(stack') :
           i > Len(fs) => /\ i - Len(fs) + 1 \in 2..Len(stack)
                          /\ stack'[i] = stack[i - Len(fs) + 1]
      /\ Len(stack) > 1 => Bottom(stack') = Bottom(stack)
  BY CallsConcat
<1>2. ASSUME NEW i \in DOMAIN stack'
      PROVE  FrameLive(stack', i, owns', players', deaf')
  <2>1. CASE i <= Len(fs)
    BY <1>1, <2>1
  <2>2. CASE i > Len(fs)
    <3> DEFINE j == i - Len(fs) + 1
    <3>1. /\ j \in 2..Len(stack) /\ stack'[i] = stack[j] /\ Bottom(stack') = Bottom(stack)
          /\ Len(fs) \in Nat /\ Len(stack) \in Nat
          /\ j < Len(stack) <=> i < Len(stack')
      BY <1>1, <2>2
    <3>2. FrameLive(stack, j, owns, players, deaf) /\ j # 1
      BY <3>1 DEF LiveInv
    <3> HIDE DEF j
    <3>3. stack[j] \in Frames
      BY <3>1
    <3>4. stack[j].op \in {"release", "hangUp", "sendFailed"} => stack[j].id \in Sockets
      BY <3>3, FrameType
    <3>5. stack[j].op = "sendFailed" => Keeps(stack[j].id)
      <4>1. ASSUME stack[j].op = "sendFailed"
            PROVE  Has(Tail(stack), "sendFailed", stack[j].id)
        <5>1. j - 1 \in DOMAIN Tail(stack) /\ Tail(stack)[j - 1] = stack[j]
          BY <3>1
        <5> QED BY <4>1, <5>1 DEF Has
      <4> QED BY <3>4, <4>1
    <3>6. Returns(stack, j) => Returns(stack', i)
      <4> SUFFICES ASSUME NEW k \in DOMAIN stack, k > j, stack[k].op = "sendFailed",
                          stack[k].id = stack[j].id
                   PROVE  Returns(stack', i)
        BY DEF Returns
      <4> DEFINE m == k + Len(fs) - 1
      <4>1. m \in DOMAIN stack' /\ m > i /\ m > Len(fs) /\ m - Len(fs) + 1 = k
        BY <1>1, <2>2, <3>1 DEF j
      <4> HIDE DEF m
      <4>2. stack'[m] = stack[k]
        BY <1>1, <4>1
      <4> QED BY <3>1, <4>1, <4>2 DEF Returns
    <3> QED BY <3>1, <3>2, <3>4, <3>5, <3>6 DEF FrameLive, Keeps
  <2> QED BY <1>1, <2>1, <2>2
<1>3. Tail(stack) \in Seq(Frames)
  OBVIOUS
<1>4. \A op, x : /\ Has(stack', op, x) <=> Has(fs, op, x) \/ Has(Tail(stack), op, x)
                 /\ Has(stack, op, x) <=> (Head(stack).op = op /\ Here = x)
                                            \/ Has(Tail(stack), op, x)
  BY <1>3, HasConcat, HasHead DEF Here
<1>5. ASSUME NEW s \in Open'
      PROVE  <<s, "recv">> \in owns' \/ Has(stack', "listen", s) \/ s \in deaf'
  <2>1. s \in Sockets /\ s \in Open
    BY DEF Open
  <2> QED BY <1>4, <2>1 DEF LiveInv
<1>6. ASSUME NEW s \in Open', NEW op \in {"listenFailed", "sendFailed"}
      PROVE  ~Has(stack', op, s)
  <2>1. ~Has(Tail(stack), op, s)
    BY <1>4 DEF LiveInv
  <2>2. ~Has(fs, op, s)
    BY DEF Has
  <2> QED BY <1>4, <2>1, <2>2
<1>7. Once(stack', "sendFailed")
  <2>1. Once(Tail(stack), "sendFailed")
    BY OnceTail DEF LiveInv
  <2>2. ASSUME NEW s, Has(fs, "sendFailed", s), Has(Tail(stack), "sendFailed", s)
        PROVE  FALSE
    <3>1. s \in Open
      BY <2>2 DEF Has
    <3> QED BY <1>4, <2>2, <3>1 DEF LiveInv
  <2> QED BY <1>3, <2>1, <2>2, OnceConcat
<1> QED BY <1>2, <1>5, <1>6, <1>7 DEF LiveInv

\* A call that makes loose calls or none, and costs no session its receive.
LEMMA LooseStep ==
  ASSUME LiveInv, stack \in Seq(Frames), stack # << >>, Head(stack).op # "listen",
         NEW fs \in Seq(Frames), \A i \in 1..Len(fs) : Loose(fs[i]), Calls(fs),
         Open' \subseteq Open, Open \cap deaf \subseteq deaf',
         \A s \in Sockets : Has(Tail(stack), "sendFailed", s) => Keeps(s),
         \A s \in Sockets : <<s, "recv">> \in owns => <<s, "recv">> \in owns'
  PROVE  LiveInv'
<1>1. stack' = fs \o Tail(stack)
  BY DEF Calls
<1>2. \A i \in 1..Len(fs) : i \in DOMAIN stack' /\ stack'[i] = fs[i]
  BY <1>1, CallsConcat
<1>3. \A i \in 1..Len(fs) : FrameLive(stack', i, owns', players', deaf')
  BY <1>2 DEF FrameLive, Loose
<1>4. \A i \in 1..Len(fs) : fs[i].op \notin {"listen", "listenFailed", "sendFailed"}
  BY DEF Loose
<1>5. Once(fs, "sendFailed")
  BY <1>4 DEF Once
<1> QED BY <1>1, <1>3, <1>4, <1>5, LiveStep

\* The sequences of calls that are loose.
LEMMA LooseSeqs ==
  /\ << >> \in Seq(Frames) /\ \A i \in 1..Len(<< >>) : Loose(<< >>[i])
  /\ \A f \in Frames : Loose(f) => /\ <<f>> \in Seq(Frames)
                                   /\ \A i \in 1..Len(<<f>>) : Loose(<<f>>[i])
  /\ \A f, g \in Frames : Loose(f) /\ Loose(g) => /\ <<f, g>> \in Seq(Frames)
                                                  /\ \A i \in 1..Len(<<f, g>>) : Loose(<<f, g>>[i])
OBVIOUS

\* The frames that are loose.
LEMMA LooseFrames ==
  /\ \A s : /\ Loose(EnterRoom(s)) /\ Loose(RemoveObject(s)) /\ Loose(IocpObject(s))
            /\ Loose(Frame("erase", s, {s}))
  /\ \A e, held : Loose(Accept(e, held))
  /\ \A ps : Loose(Broadcast(ps))
BY DEF Loose, EnterRoom, RemoveObject, IocpObject, Accept, Broadcast, Frame

\* Calls that make loose calls, or return, and keep every receive.
LEMMA LooseActions ==
  ASSUME IInv, LiveInv,
         \/ \E s \in Sockets : RegisterAccept(s)
         \/ Enter \/ Remove \/ Erase \/ RegisterDisconnect \/ PostSend \/ PostSendLoses
         \/ SendFailed \/ DispatchReturns \/ BroadcastEnds
  PROVE  LiveInv'
<1> USE DEF Top
<1>1. ASSUME NEW op \in FrameOps \ {"listen"}, Top(op), Open' \subseteq Open,
             Open \cap deaf \subseteq deaf',
             \A s \in Sockets : Has(Tail(stack), "sendFailed", s) => Keeps(s),
             \A s \in Sockets : <<s, "recv">> \in owns => <<s, "recv">> \in owns',
             \/ Return
             \/ \E f \in Frames : Loose(f) /\ Calls(<<f>>)
             \/ \E f, g \in Frames : Loose(f) /\ Loose(g) /\ Calls(<<f, g>>)
      PROVE  LiveInv'
  <2>1. stack \in Seq(Frames) /\ stack # << >> /\ Head(stack).op # "listen"
    BY <1>1, HereType
  <2>2. ASSUME NEW fs \in Seq(Frames), \A i \in 1..Len(fs) : Loose(fs[i]), Calls(fs)
        PROVE  LiveInv'
    BY <1>1, <2>1, <2>2, LooseStep
  <2>3. CASE Return
    <3>1. << >> \in Seq(Frames) /\ (\A i \in 1..Len(<< >>) : Loose(<< >>[i])) /\ Calls(<< >>)
      BY <2>3, LooseSeqs DEF Return
    <3> QED BY <2>2, <3>1
  <2>4. ASSUME NEW f \in Frames, Loose(f), Calls(<<f>>)
        PROVE  LiveInv'
    BY <2>2, <2>4, LooseSeqs
  <2>5. ASSUME NEW f \in Frames, NEW g \in Frames, Loose(f), Loose(g), Calls(<<f, g>>)
        PROVE  LiveInv'
    BY <2>2, <2>5, LooseSeqs
  <2> QED BY <1>1, <2>3, <2>4, <2>5
<1>2. UNCHANGED life => Open' = Open
  BY DEF Open
<1>12. UNCHANGED deaf /\ (\A s \in Sockets : <<s, "send">> \in owns => <<s, "send">> \in owns')
         => Open \cap deaf \subseteq deaf' /\ \A s \in Sockets : Keeps(s)
  BY KeepsAll
<1>13. UNCHANGED deaf /\ UNCHANGED owns => Open \cap deaf \subseteq deaf' /\ \A s \in Sockets : Keeps(s)
  BY KeepsAll
<1>3. ASSUME NEW s \in Sockets, RegisterAccept(s)
      PROVE  LiveInv'
  <2>1. Top("accept") /\ Here \in Events /\ Head(stack) \in Frames
    BY <1>3, HereType DEF RegisterAccept
  <2>2. Head(stack).held \cup {s} \in SUBSET Sockets
    BY <2>1, FrameType
  <2>3. /\ Accept(Here, Head(stack).held \cup {s}) \in Frames
        /\ Loose(Accept(Here, Head(stack).held \cup {s}))
    BY <2>1, <2>2, AcceptFrame, LooseFrames
  <2>4. Open' \subseteq Open
    BY <1>3 DEF RegisterAccept, CreateSession, Open, IInv, TypeOK
  <2>5. owns' = owns /\ (Return \/ Calls(<<Accept(Here, Head(stack).held \cup {s})>>))
    BY <1>3 DEF RegisterAccept
  <2>6. deaf' = deaf \ {s} /\ ~Exists(s)
    BY <1>3 DEF RegisterAccept, CreateSession
  <2>7. Open \cap deaf \subseteq deaf'
    BY <2>6 DEF Exists, Refers, IInv, RegInv
  <2>8. ASSUME NEW t \in Sockets, Has(Tail(stack), "sendFailed", t)
        PROVE  Keeps(t)
    <3>1. PICK i \in DOMAIN Tail(stack) :
            Tail(stack)[i].op = "sendFailed" /\ Tail(stack)[i].id = t
      BY <2>8 DEF Has
    <3>2. stack \in Seq(Frames) /\ stack # << >>
      BY <2>1 DEF IInv, TypeOK
    <3>3. i + 1 \in DOMAIN stack /\ stack[i + 1] = Tail(stack)[i]
      BY <3>2
    <3>4. FrameLive(stack, i + 1, owns, players, deaf)
      BY <3>3 DEF LiveInv
    <3>5. <<t, "send">> \in owns
      BY <3>1, <3>3, <3>4 DEF FrameLive
    <3>6. t # s
      BY <2>6, <3>5 DEF Exists, Refers, Ops
    <3> QED BY <2>5, <2>6, <3>6 DEF Keeps
  <2> QED BY <1>1, <2>1, <2>3, <2>4, <2>5, <2>7, <2>8 DEF FrameOps
<1>4. CASE Enter
  <2>1. Top("enter") /\ Here \in Sockets
    BY <1>4, HereType DEF Enter
  <2>2. players' \subseteq Sockets
    BY <1>4, <2>1 DEF Enter, IInv, TypeOK
  <2>3. Broadcast(players') \in Frames /\ Loose(Broadcast(players'))
    BY <2>2, CallFrames, LooseFrames DEF PlainFrames
  <2>4. UNCHANGED <<life, deaf, owns>>
    BY <1>4 DEF Enter, link
  <2> QED BY <1>1, <1>2, <1>13, <1>4, <2>1, <2>3, <2>4 DEF Enter, FrameOps
<1>5. CASE Remove
  <2>1. Top("remove") /\ Here \in Sockets /\ players \subseteq Sockets
    BY <1>5, HereType DEF Remove, IInv, TypeOK
  <2>2. Broadcast(players) \in Frames /\ Frame("erase", Here, {Here}) \in Frames
    BY <2>1, CallFrames DEF PlainFrames
  <2>3. Loose(Broadcast(players)) /\ Loose(Frame("erase", Here, {Here}))
    BY LooseFrames
  <2>4. Calls(<<Broadcast(players), Frame("erase", Here, {Here})>>) \/ Return
    BY <1>5 DEF Remove, Return
  <2>5. owns' = owns /\ deaf' = deaf /\ Open' = Open
    BY <1>2, <1>5 DEF Remove, link
  <2> QED BY <1>1, <1>13, <2>1, <2>2, <2>3, <2>4, <2>5 DEF FrameOps
<1>6. CASE Erase
  <2>1. Top("erase") /\ Return /\ UNCHANGED <<life, owns, deaf>>
    BY <1>6 DEF Erase, link
  <2> QED BY <1>1, <1>2, <1>13, <2>1 DEF FrameOps
<1>7. CASE RegisterDisconnect
  <2>1. Top("hangUp") /\ Return /\ UNCHANGED <<life, deaf>> /\ owns \subseteq owns'
    BY <1>7 DEF RegisterDisconnect
  <2> QED BY <1>1, <1>2, <1>12, <2>1 DEF FrameOps
<1>8. CASE PostSend
  <2>1. Top("post") /\ Return /\ UNCHANGED <<life, deaf>> /\ owns \subseteq owns'
    BY <1>8 DEF PostSend
  <2> QED BY <1>1, <1>2, <1>12, <2>1 DEF FrameOps
<1>9. CASE SendFailed
  <2>1. Top("sendFailed") /\ Return /\ UNCHANGED <<life, deaf>> /\ owns' = owns \ {<<Here, "send">>}
    BY <1>9 DEF SendFailed
  <2>2. ~Has(Tail(stack), "sendFailed", Here)
    <3>1. stack # << >> /\ Head(stack).op = "sendFailed" /\ stack \in Seq(Frames)
      BY <2>1 DEF IInv, TypeOK
    <3> QED BY <3>1, OnceTail DEF LiveInv, Here
  <2>3. \A s \in Sockets : Has(Tail(stack), "sendFailed", s) => Keeps(s)
    BY <2>1, <2>2 DEF Keeps
  <2>4. Open \cap deaf \subseteq deaf'
    BY <2>1
  <2>5. \A s \in Sockets : <<s, "recv">> \in owns => <<s, "recv">> \in owns'
    BY <2>1
  <2> QED BY <1>1, <1>2, <2>1, <2>3, <2>4, <2>5 DEF FrameOps
<1>10. CASE DispatchReturns
  <2>1. Top("return") /\ Return /\ UNCHANGED <<life, owns, deaf>>
    BY <1>10 DEF DispatchReturns, link
  <2> QED BY <1>1, <1>2, <1>13, <2>1 DEF FrameOps
<1>11. CASE BroadcastEnds
  <2>1. Top("broadcast") /\ Return /\ UNCHANGED <<life, owns, deaf>>
    BY <1>11 DEF BroadcastEnds, link
  <2> QED BY <1>1, <1>2, <1>13, <2>1 DEF FrameOps
<1>14. CASE PostSendLoses
  <2>1. Top("post") /\ Return /\ UNCHANGED <<life, owns, deaf>>
    BY <1>14 DEF PostSendLoses
  <2> QED BY <1>1, <1>2, <1>13, <2>1 DEF FrameOps
<1> QED BY <1>3, <1>4, <1>5, <1>6, <1>7, <1>8, <1>9, <1>10, <1>11, <1>14

\* A sequence of two before a sequence of one.
LEMMA ConcatTwoOne ==
  ASSUME NEW f \in Frames, NEW g \in Frames, NEW h \in Frames
  PROVE  <<f, g>> \o <<h>> = <<f, g, h>>
<1>1. <<f, g>> \in Seq(Frames) /\ <<h>> \in Seq(Frames) /\ <<f, g, h>> \in Seq(Frames)
  OBVIOUS
<1>2. \A i \in 1..3 : (<<f, g>> \o <<h>>)[i] = IF i <= 2 THEN <<f, g>>[i] ELSE <<h>>[i - 2]
  BY <1>1
<1>3. \A i \in 1..3 : i = 1 \/ i = 2 \/ i = 3
  OBVIOUS
<1>4. \A i \in 1..3 : (<<f, g>> \o <<h>>)[i] = <<f, g, h>>[i]
  BY <1>2, <1>3
<1>5. /\ <<f, g>> \o <<h>> \in Seq(Frames)
      /\ Len(<<f, g>> \o <<h>>) = 3 /\ Len(<<f, g, h>>) = 3
  BY <1>1
<1> QED BY <1>1, <1>4, <1>5, SeqEqual

\* Disconnect before what follows it.
LEMMA DisconnectCalls ==
  ASSUME NEW s \in Sockets, NEW op \in FrameOps \ {"accept", "broadcast"}, NEW t \in Seq(Frames)
  PROVE  LET f == RemoveObject(s)
             g == Frame("release", s, {})
             h == Frame(op, s, {})
         IN  /\ <<f, g, h>> \in Seq(Frames)
             /\ <<f, g>> \o (<<h>> \o t) = <<f, g, h>> \o t
<1>1. ASSUME NEW o \in FrameOps \ {"accept", "broadcast"}, NEW held \in SUBSET Sockets
      PROVE  Frame(o, s, held) \in Frames
  BY <1>1, FrameType DEF Frame
<1>2. /\ RemoveObject(s) \in Frames /\ Frame("release", s, {}) \in Frames
      /\ Frame(op, s, {}) \in Frames
  BY <1>1 DEF RemoveObject, FrameOps
<1>3. ASSUME NEW f \in Frames, NEW g \in Frames, NEW h \in Frames
      PROVE  /\ <<f, g, h>> \in Seq(Frames)
             /\ <<f, g>> \o (<<h>> \o t) = <<f, g, h>> \o t
  <2>1. <<f, g>> \in Seq(Frames) /\ <<h>> \in Seq(Frames) /\ <<f, g, h>> \in Seq(Frames)
    OBVIOUS
  <2>2. <<f, g>> \o (<<h>> \o t) = (<<f, g>> \o <<h>>) \o t
    BY <2>1, ConcatAssociative
  <2>3. <<f, g>> \o <<h>> = <<f, g, h>>
    BY ConcatTwoOne
  <2> QED BY <2>1, <2>2, <2>3
<1> QED BY <1>2, <1>3

\* Calls that need a session alive, lose a receive or disconnect.
LEMMA TightActions ==
  ASSUME IInv, LiveInv,
         \/ \E s \in Sockets : BroadcastNext(s)
         \/ SendCalled \/ ReleaseSession \/ Listen \/ ListenDeafens \/ ListenFailed
         \/ PostSendFails \/ ListenFails
  PROVE  LiveInv'
<1>1. UNCHANGED life => Open' = Open
  BY DEF Open
<1>2. ASSUME NEW op \in {"send", "post", "listen", "listenFailed", "release"}, Top(op)
      PROVE  /\ stack \in Seq(Frames) /\ stack # << >> /\ Here \in Sockets
             /\ Head(stack).op = op /\ stack[1].op = op /\ stack[1].id = Here
             /\ FrameLive(stack, 1, owns, players, deaf) /\ 1 < Len(stack)
  <2>1. /\ stack \in Seq(Frames) /\ stack # << >> /\ Here \in Sockets
        /\ Head(stack).op = op
    BY <1>2, HereType
  <2>2. 1 \in DOMAIN stack /\ stack[1] = Head(stack)
    BY <2>1
  <2>3. FrameLive(stack, 1, owns, players, deaf)
    BY <2>2 DEF LiveInv
  <2> QED BY <2>1, <2>2, <2>3 DEF FrameLive, Here
<1>3. ASSUME NEW p \in Sockets, BroadcastNext(p)
      PROVE  LiveInv'
  <2> DEFINE f == [Head(stack) EXCEPT !.id = p, !.left = @ \ {p}]
             fs == <<Send(p), f>>
  <2>1. /\ stack \in Seq(Frames) /\ stack # << >>
        /\ Head(stack) \in Frames /\ Head(stack).op = "broadcast"
    BY <1>3, HereType DEF BroadcastNext
  <2>2. f \in Frames /\ f.op = "broadcast"
    BY <2>1, BroadcastFrame DEF PlainFrames, Frames
  <2>3. Send(p) \in Frames /\ Send(p).op = "send" /\ Send(p).id = p
    BY CallFrames DEF PlainFrames, Send, Frame
  <2>4. /\ stack' = fs \o Tail(stack) /\ p \in players'
        /\ UNCHANGED <<life, owns, deaf>>
    BY <1>3 DEF BroadcastNext, Calls, link, registries
  <2> HIDE DEF f
  <2>5. fs \in Seq(Frames) /\ Len(fs) = 2 /\ fs[1] = Send(p) /\ fs[2] = f
    BY <2>2, <2>3
  <2> HIDE DEF fs
  <2>6. /\ DOMAIN stack' = 1..Len(stack') /\ Len(stack') >= 2 /\ Len(stack') \in Nat
        /\ \A i \in 1..2 : stack'[i] = fs[i]
    BY <2>1, <2>4, <2>5, CallsHere
  <2>7. \A i \in 1..2 : i = 1 \/ i = 2
    OBVIOUS
  <2>8. \A i \in 1..2 : FrameLive(stack', i, owns', players', deaf')
    <3>1. /\ stack'[1].op = "send" /\ stack'[1].id = p /\ 1 < Len(stack')
          /\ stack'[2].op = "broadcast"
      BY <2>2, <2>3, <2>5, <2>6, <2>7
    <3>2. FrameLive(stack', 1, owns', players', deaf')
      BY <2>4, <3>1 DEF FrameLive
    <3>3. FrameLive(stack', 2, owns', players', deaf')
      BY <3>1 DEF FrameLive
    <3> QED BY <2>7, <3>2, <3>3
  <2>9. \A i \in 1..2 : fs[i].op \notin {"listen", "listenFailed", "sendFailed"}
    BY <2>2, <2>3, <2>5, <2>7
  <2>10. Once(fs, "sendFailed")
    BY <2>5, <2>9 DEF Once
  <2>11. Open \cap deaf \subseteq deaf' /\ \A s \in Sockets : Keeps(s)
    BY <2>4, KeepsAll
  <2> QED BY <1>1, <2>1, <2>4, <2>5, <2>8, <2>9, <2>10, <2>11, LiveStep
<1>4. CASE SendCalled
  <2> DEFINE fs == <<RegisterSend(Here)>>
  <2>1. /\ stack \in Seq(Frames) /\ stack # << >> /\ Here \in Sockets
        /\ Head(stack).op = "send" /\ stack[1].op = "send" /\ stack[1].id = Here
        /\ FrameLive(stack, 1, owns, players, deaf) /\ 1 < Len(stack)
    BY <1>2, <1>4 DEF SendCalled
  <2>2. UNCHANGED <<life, owns, deaf, players>>
    BY <1>4 DEF SendCalled, registries
  <2>5. Open \cap deaf \subseteq deaf' /\ \A s \in Sockets : Keeps(s)
    BY <2>2, KeepsAll
  <2>3. CASE Calls(<< >>)
    <3>1. << >> \in Seq(Frames) /\ \A i \in 1..Len(<< >>) : Loose(<< >>[i])
      BY LooseSeqs
    <3> QED BY <1>1, <2>1, <2>2, <2>3, <2>5, <3>1, LooseStep
  <2>4. CASE Calls(fs)
    <3>1. RegisterSend(Here) \in Frames /\ RegisterSend(Here).op = "post"
          /\ RegisterSend(Here).id = Here
      BY <2>1, CallFrames DEF PlainFrames, RegisterSend, Frame
    <3>2. /\ fs \in Seq(Frames) /\ Len(fs) = 1 /\ fs[1] = RegisterSend(Here)
          /\ stack' = fs \o Tail(stack)
      BY <2>4, <3>1 DEF Calls
    <3> HIDE DEF fs
    <3>3. /\ Len(stack') > 1 /\ Bottom(stack') = Bottom(stack)
          /\ stack'[1] = fs[1]
      <4>1. /\ Len(stack') \in Nat /\ \A i \in 1..Len(fs) : stack'[i] = fs[i]
            /\ Len(stack') > Len(fs) /\ Bottom(stack') = Bottom(stack)
        BY <2>1, <3>2, CallsHere
      <4>2. 1 \in 1..Len(fs)
        BY <3>2
      <4> QED BY <3>2, <4>1, <4>2
    <3>4. FrameLive(stack', 1, owns', players', deaf')
      BY <2>1, <2>2, <3>1, <3>2, <3>3 DEF FrameLive
    <3>5. \A i \in 1..Len(fs) : i = 1
      BY <3>2
    <3>6. Once(fs, "sendFailed")
      BY <3>2, <3>5 DEF Once
    <3> QED BY <1>1, <2>1, <2>2, <2>5, <3>1, <3>2, <3>4, <3>5, <3>6, LiveStep
  <2> QED BY <1>4, <2>3, <2>4 DEF SendCalled
<1>5. CASE ReleaseSession
  <2> DEFINE f == Frame("hangUp", Here, {})
             fs == <<f>>
  <2>1. /\ stack \in Seq(Frames) /\ stack # << >> /\ Here \in Sockets
        /\ Head(stack).op = "release" /\ stack[1].op = "release" /\ stack[1].id = Here
        /\ FrameLive(stack, 1, owns, players, deaf) /\ 1 < Len(stack)
    BY <1>2, <1>5 DEF ReleaseSession
  <2>2. UNCHANGED <<life, owns, deaf, players>> /\ stack' = fs \o Tail(stack)
    BY <1>5 DEF ReleaseSession, link, Calls
  <2>9. stack # << >>
    BY <2>1
  <2>3. f \in Frames /\ f.op = "hangUp" /\ f.id = Here
    BY <2>1, CallFrames DEF PlainFrames, Frame
  <2> HIDE DEF f
  <2>4. fs \in Seq(Frames) /\ Len(fs) = 1 /\ fs[1] = f
    BY <2>3
  <2> HIDE DEF fs
  <2>5. /\ Len(stack') > 1 /\ Bottom(stack') = Bottom(stack)
        /\ stack'[1] = fs[1]
    <3>1. /\ Len(stack') \in Nat /\ \A i \in 1..Len(fs) : stack'[i] = fs[i]
          /\ Len(stack') > Len(fs) /\ Bottom(stack') = Bottom(stack)
      BY <2>1, <2>2, <2>4, CallsHere
    <3>2. 1 \in 1..Len(fs)
      BY <2>4
    <3> QED BY <2>4, <3>1, <3>2
  <2>6. FrameLive(stack', 1, owns', players', deaf')
    <3>1. ASSUME Returns(stack, 1)
          PROVE  Returns(stack', 1)
      <4>1. PICK j \in DOMAIN stack :
              j > 1 /\ stack[j].op = "sendFailed" /\ stack[j].id = stack[1].id
        BY <3>1 DEF Returns
      <4>2. j \in DOMAIN stack' /\ stack'[j] = stack[j]
        <5>1. j \in 2..Len(stack) /\ Len(stack) \in Nat
          BY <2>1, <4>1
        <5>2. /\ Len(stack') = Len(fs) + Len(stack) - 1 /\ DOMAIN stack' = 1..Len(stack')
              /\ \A i \in 1..Len(stack') : i > Len(fs) => stack'[i] = stack[i - Len(fs) + 1]
          BY <2>1, <2>2, <2>4, CallsConcat
        <5>3. j - 1 + 1 = j /\ Len(stack') = Len(stack) /\ j > Len(fs)
          BY <2>4, <5>1, <5>2
        <5> QED BY <2>4, <5>1, <5>2, <5>3
      <4>3. stack'[1].id = stack[1].id
        BY <2>1, <2>3, <2>4, <2>5
      <4> QED BY <4>1, <4>2, <4>3 DEF Returns
    <3>2. stack'[1].op = "hangUp" /\ stack'[1].id = stack[1].id /\ Len(stack') > 1
      BY <2>1, <2>3, <2>4, <2>5
    <3> QED BY <2>1, <2>2, <2>5, <3>1, <3>2 DEF FrameLive
  <2>7. \A i \in 1..Len(fs) : i = 1
    BY <2>4
  <2>8. Once(fs, "sendFailed") /\ Open \cap deaf \subseteq deaf' /\ \A s \in Sockets : Keeps(s)
    BY <2>2, <2>4, <2>7, KeepsAll DEF Once
  <2> QED BY <1>1, <2>1, <2>2, <2>3, <2>4, <2>6, <2>7, <2>8, LiveStep
<1>6. CASE Listen \/ ListenDeafens \/ ListenFailed
  <2>1. Top("listen") \/ Top("listenFailed")
    BY <1>6 DEF Listen, ListenDeafens, ListenFailed
  <2>2. /\ stack \in Seq(Frames) /\ stack # << >> /\ Here \in Sockets
        /\ FrameLive(stack, 1, owns, players, deaf)
        /\ Head(stack).op = stack[1].op /\ stack[1].id = Here
        /\ stack[1].op \in {"listen", "listenFailed"}
    BY <1>2, <2>1
  <2>3. Open' = Open /\ << >> \in Seq(Frames) /\ stack' = << >> \o Tail(stack)
    BY <1>1, <1>6 DEF Listen, ListenDeafens, ListenFailed, Return, Calls
  <2>4. Here \in Bottom(stack).held
    BY <2>2 DEF FrameLive
  <2>5. Head(stack).op = "listen" =>
          Here \notin Open' \/ <<Here, "recv">> \in owns' \/ Here \in deaf'
    BY <1>6, <2>3 DEF Listen, ListenDeafens, ListenFailed, Top
  <2>6. ListenFailed => Here \notin Open'
    <3> SUFFICES ASSUME ListenFailed
                 PROVE  Has(stack, "listenFailed", Here)
      BY <2>3 DEF LiveInv
    <3> QED BY <2>2 DEF Has, ListenFailed, Top
  <2>7. \A s \in Sockets : <<s, "recv">> \in owns \ owns' => s \in Bottom(stack).held \ Open'
    BY <1>6, <2>4, <2>6 DEF Listen, ListenDeafens, ListenFailed
  <2>10. Open \cap deaf \subseteq deaf' /\ \A s \in Sockets : Keeps(s)
    <3>1. deaf \subseteq deaf' /\ \A s : <<s, "send">> \in owns => <<s, "send">> \in owns'
      BY <1>6 DEF Listen, ListenDeafens, ListenFailed
    <3> QED BY <3>1, KeepsAll
  <2> DEFINE fs == << >>
  <2>8. /\ \A i \in 1..Len(fs) : FALSE
        /\ fs \in Seq(Frames) /\ stack' = fs \o Tail(stack)
        /\ Once(fs, "sendFailed")
    BY <2>3 DEF Once
  <2>9. Open' \subseteq Open
    BY <2>3
  <2> HIDE DEF fs
  <2> QED BY <2>2, <2>5, <2>7, <2>8, <2>9, <2>10, LiveStep
<1>7. CASE PostSendFails
  <2> DEFINE s == Here
             fs == <<RemoveObject(s), Frame("release", s, {}), Frame("sendFailed", s, {})>>
  <2>1. /\ s \in Sockets /\ s \in Open /\ stack \in Seq(Frames) /\ stack # << >>
        /\ Head(stack).op = "post" /\ FrameLive(stack, 1, owns, players, deaf) /\ 1 < Len(stack)
    BY <1>7, <1>2, HereType DEF PostSendFails
  <2>2. fs \in Seq(Frames) /\ stack' = fs \o Tail(stack)
    <3>1. stack' = <<RemoveObject(s), Frame("release", s, {})>>
                     \o (<<Frame("sendFailed", s, {})>> \o Tail(stack))
      BY <1>7, <2>1 DEF PostSendFails, Disconnect
    <3>2. Tail(stack) \in Seq(Frames)
      BY <2>1
    <3> QED BY <2>1, <3>1, <3>2, DisconnectCalls DEF FrameOps
  <2>3. owns \subseteq owns' /\ Open' \subseteq Open \ {s} /\ UNCHANGED players
    BY <1>7, <2>1 DEF PostSendFails, Disconnect, Open, IInv, TypeOK
  <2>4. /\ DOMAIN stack' = 1..Len(stack') /\ Len(stack') > 3 /\ Bottom(stack') = Bottom(stack)
        /\ \A i \in 1..3 : stack'[i] = fs[i]
    BY <2>1, <2>2, CallsHere
  <2>5. /\ \A i \in 1..3 : fs[i].op \in {"remove", "release", "sendFailed"} /\ fs[i].id = s
        /\ Len(fs) = 3
    BY DEF RemoveObject, Frame
  <2>6. <<s, "recv">> \in owns \/ s \in Bottom(stack).held \/ s \in deaf
    BY <2>1, OpenIsKept
  <2>8. <<s, "send">> \in owns' /\ UNCHANGED deaf
    BY <1>7 DEF PostSendFails
  <2>9. fs[1].op = "remove" /\ fs[2].op = "release" /\ fs[3].op = "sendFailed" /\ fs[3].id = s
    BY DEF RemoveObject, Frame
  <2> HIDE DEF fs, s
  <2>13. \A i \in 1..3 : i = 1 \/ i = 2 \/ i = 3
    OBVIOUS
  <2>7. \A i \in 1..3 : FrameLive(stack', i, owns', players', deaf')
    <3>1. /\ stack'[1].op = "remove" /\ stack'[2].op = "release" /\ stack'[3].op = "sendFailed"
          /\ stack'[2].id = s /\ stack'[3].id = s
      BY <2>4, <2>5, <2>9
    <3>2. Returns(stack', 2)
      BY <2>4, <3>1 DEF Returns
    <3>3. FrameLive(stack', 1, owns', players', deaf')
      BY <3>1 DEF FrameLive
    <3>4. FrameLive(stack', 2, owns', players', deaf')
      BY <2>4, <3>1, <3>2 DEF FrameLive
    <3>5. FrameLive(stack', 3, owns', players', deaf')
      BY <2>3, <2>4, <2>6, <2>8, <3>1 DEF FrameLive
    <3> QED BY <2>13, <3>3, <3>4, <3>5
  <2>10. Open \cap deaf \subseteq deaf' /\ \A t \in Sockets : Keeps(t)
    BY <2>3, <2>8, KeepsAll
  <2>11. Once(fs, "sendFailed")
    <3>1. \A i \in DOMAIN fs : fs[i].op = "sendFailed" => i = 3
      BY <2>2, <2>5, <2>9, <2>13
    <3> QED BY <3>1 DEF Once
  <2>12. \A i \in 1..3 : /\ fs[i].op \notin {"listen", "listenFailed"}
                         /\ fs[i].op = "sendFailed" => fs[i].id \in Open /\ fs[i].id \notin Open'
    BY <2>1, <2>3, <2>5
  <2>14. Open' \subseteq Open /\ Head(stack).op # "listen"
    BY <2>1, <2>3
  <2>15. \A t \in Sockets : ~(<<t, "recv">> \in owns \ owns')
    BY <2>3
  <2> QED BY <2>1, <2>2, <2>5, <2>7, <2>10, <2>11, <2>12, <2>14, <2>15, LiveStep
<1>8. CASE ListenFails
  <2> DEFINE s == Here
             fs == <<RemoveObject(s), Frame("release", s, {}), Frame("listenFailed", s, {})>>
  <2>1. /\ s \in Sockets /\ s \in Open /\ stack \in Seq(Frames) /\ stack # << >>
        /\ Head(stack).op = "listen" /\ FrameLive(stack, 1, owns, players, deaf) /\ 1 < Len(stack)
    BY <1>8, <1>2, HereType DEF ListenFails
  <2>2. fs \in Seq(Frames) /\ stack' = fs \o Tail(stack)
    <3>1. stack' = <<RemoveObject(s), Frame("release", s, {})>>
                     \o (<<Frame("listenFailed", s, {})>> \o Tail(stack))
      BY <1>8, <2>1 DEF ListenFails, Disconnect
    <3>2. Tail(stack) \in Seq(Frames)
      BY <2>1
    <3> QED BY <2>1, <3>1, <3>2, DisconnectCalls DEF FrameOps
  <2>3. owns \subseteq owns' /\ Open' \subseteq Open \ {s} /\ UNCHANGED players
    BY <1>8, <2>1 DEF ListenFails, Disconnect, Open, IInv, TypeOK
  <2>4. /\ DOMAIN stack' = 1..Len(stack') /\ Len(stack') > 3 /\ Bottom(stack') = Bottom(stack)
        /\ \A i \in 1..3 : stack'[i] = fs[i]
    BY <2>1, <2>2, CallsHere
  <2>5. /\ \A i \in 1..3 : fs[i].op \in {"remove", "release", "listenFailed"} /\ fs[i].id = s
        /\ Len(fs) = 3
    BY DEF RemoveObject, Frame
  <2>6. s \in Bottom(stack).held
    BY <1>2, <1>8, <2>1 DEF FrameLive, ListenFails
  <2>8. UNCHANGED deaf
    BY <1>8 DEF ListenFails
  <2>9. fs[1].op = "remove" /\ fs[2].op = "release" /\ fs[3].op = "listenFailed"
    BY DEF RemoveObject, Frame
  <2> HIDE DEF fs, s
  <2>7. \A i \in 1..3 : FrameLive(stack', i, owns', players', deaf')
    BY <2>3, <2>4, <2>5, <2>6 DEF FrameLive
  <2>10. Open \cap deaf \subseteq deaf' /\ \A t \in Sockets : Keeps(t)
    BY <2>3, <2>8, KeepsAll
  <2>11. /\ \A i \in 1..3 : fs[i].op \notin {"listen", "sendFailed"} /\ fs[i].id \notin Open'
         /\ Once(fs, "sendFailed")
    <3>1. \A i \in 1..3 : fs[i].op \notin {"listen", "sendFailed"} /\ fs[i].id \notin Open'
      BY <2>3, <2>5
    <3>2. DOMAIN fs = 1..3
      BY <2>2, <2>5
    <3> QED BY <3>1, <3>2 DEF Once
  <2>12. Open' \subseteq Open /\ s \notin Open' /\ s = Here
    BY <2>3 DEF s
  <2>13. \A t \in Sockets : ~(<<t, "recv">> \in owns \ owns')
    BY <2>3
  <2> QED BY <2>1, <2>2, <2>5, <2>7, <2>10, <2>11, <2>12, <2>13, LiveStep
<1> QED BY <1>3, <1>4, <1>5, <1>6, <1>7, <1>8

\* A handler's first calls, when the sessions that are open have a receive or are
\* to get one.
LEMMA LiveHandler ==
  ASSUME NEW stk, stack' = stk, DOMAIN stk = 1..Len(stk),
         \A i \in 1..Len(stk) : FrameLive(stk, i, owns', players', deaf'),
         \A i \in 1..Len(stk) : stk[i].op \notin {"listenFailed", "sendFailed"},
         \A s \in Open' : <<s, "recv">> \in owns' \/ Has(stk, "listen", s) \/ s \in deaf'
  PROVE  LiveInv'
BY DEF LiveInv, Has, Once

\* Between handlers every open session has a receive outstanding, or is deaf.
LEMMA QuietOpen ==
  ASSUME LiveInv, Quiet
  PROVE  \A s \in Open : <<s, "recv">> \in owns \/ s \in deaf
<1>1. stack = << >>
  BY DEF Quiet
<1>2. \A s : ~Has(stack, "listen", s)
  BY <1>1 DEF Has
<1> QED BY <1>2 DEF LiveInv

\* Start pushes accepts only.
LEMMA LiveStart ==
  ASSUME IInv, LiveInv, Start
  PROVE  LiveInv'
<1>1. /\ stack = << >> /\ Open' = Open /\ owns' = owns /\ players' = players
      /\ deaf' = deaf
  BY DEF Start, IInv, StartInv, Open, link, registries
<1>2. \A s \in Open : <<s, "recv">> \in owns \/ s \in deaf
  <2>1. \A s : ~Has(stack, "listen", s)
    BY <1>1 DEF Has
  <2> QED BY <2>1 DEF LiveInv
<1>3. CASE stack' = stack
  BY <1>1, <1>3 DEF LiveInv
<1>4. CASE stack' = [e \in Events |-> Accept(e, {})]
  <2>1. AcceptCount \in Nat /\ DOMAIN stack' = 1..AcceptCount
    BY <1>4, ServerAssumption DEF Events
  <2>2. \A i \in DOMAIN stack' : stack'[i].op = "accept"
    BY <1>4, <2>1 DEF Events, Accept, Frame
  <2>3. \A i \in DOMAIN stack' : FrameLive(stack', i, owns', players', deaf')
    BY <2>2 DEF FrameLive
  <2>4. \A i \in DOMAIN stack' : stack'[i].op \notin {"listenFailed", "sendFailed"}
    BY <2>2
  <2>5. (\A s : ~Has(stack', "listenFailed", s) /\ ~Has(stack', "sendFailed", s))
        /\ Once(stack', "sendFailed")
    BY <2>4 DEF Has, Once
  <2> QED BY <1>1, <1>2, <2>3, <2>5 DEF LiveInv
<1> QED BY <1>3, <1>4 DEF Start

\* A new session is open and is to get its receive; a refused one is not open.
LEMMA LiveAccept ==
  ASSUME IInv, LiveInv, NEW e \in Events, ProcessAccept(e) \/ Refuse(e)
  PROVE  LiveInv'
<1>1. Quiet /\ owns' = owns /\ players' = players /\ deaf' = deaf
  BY DEF ProcessAccept, Refuse, link, registries
<1>2. \A s \in Open : <<s, "recv">> \in owns \/ s \in deaf
  BY <1>1, QuietOpen
<1>3. CASE ProcessAccept(e)
  <2> DEFINE s == acceptSession[e]
             stk == <<Send(s), Send(s), Send(s), EnterRoom(s), RegisterRecv(s), Accept(e, {s})>>
  <2>1. /\ DOMAIN stk = 1..6 /\ Len(stk) = 6
        /\ \A i \in 1..3 : stk[i].op = "send" /\ stk[i].id = s
        /\ stk[4].op = "enter"
        /\ stk[5].op = "listen" /\ stk[5].id = s
        /\ stk[6].op = "accept" /\ stk[6].held = {s}
    BY DEF Send, EnterRoom, RegisterRecv, Accept, Frame
  <2>2. stack' = stk /\ Open' \subseteq Open \cup {s}
    BY <1>3 DEF ProcessAccept, Open, IInv, TypeOK
  <2> HIDE DEF stk, s
  <2>3. \A i \in 1..6 : i \in 1..3 \/ i = 4 \/ i = 5 \/ i = 6
    OBVIOUS
  <2>4. \A i \in 1..Len(stk) : FrameLive(stk, i, owns', players', deaf')
    <3>1. \A i \in 1..3 : FrameLive(stk, i, owns', players', deaf')
      BY <2>1 DEF FrameLive, Bottom
    <3>2. FrameLive(stk, 4, owns', players', deaf') /\ FrameLive(stk, 6, owns', players', deaf')
      BY <2>1 DEF FrameLive
    <3>3. FrameLive(stk, 5, owns', players', deaf')
      BY <2>1 DEF FrameLive, Bottom
    <3> QED BY <2>1, <2>3, <3>1, <3>2, <3>3
  <2>5. \A i \in 1..Len(stk) : stk[i].op \notin {"listenFailed", "sendFailed"}
    BY <2>1, <2>3
  <2>6. Has(stk, "listen", s)
    BY <2>1 DEF Has
  <2>7. \A t \in Open' : <<t, "recv">> \in owns' \/ Has(stk, "listen", t) \/ t \in deaf'
    BY <1>1, <1>2, <2>2, <2>6
  <2>8. DOMAIN stk = 1..Len(stk) /\ stack' = stk
    BY <2>1, <2>2
  <2> QED BY <2>4, <2>5, <2>7, <2>8, LiveHandler
<1>4. CASE Refuse(e)
  <2> DEFINE stk == <<Accept(e, {acceptSession[e]})>>
  <2>1. DOMAIN stk = 1..Len(stk) /\ \A i \in 1..Len(stk) : stk[i].op = "accept"
    BY DEF Accept, Frame
  <2>2. stack' = stk /\ Open' = Open
    BY <1>4 DEF Refuse, Open
  <2> HIDE DEF stk
  <2>3. \A i \in 1..Len(stk) : FrameLive(stk, i, owns', players', deaf')
    BY <2>1 DEF FrameLive
  <2> QED BY <1>1, <1>2, <2>1, <2>2, <2>3, LiveHandler
<1> QED BY <1>3, <1>4

\* A handler runs under a frame that refers to its session.
LEMMA LiveCompletions ==
  ASSUME IInv, LiveInv, NEW s \in Sockets,
         \/ ProcessRecv(s) \/ ProcessSend(s) \/ ProcessDisconnect(s)
         \/ \E op \in {"recv", "send"} : CompletesEmpty(s, op)
  PROVE  LiveInv'
<1>1. Quiet /\ stack = << >>
  BY DEF ProcessRecv, ProcessSend, ProcessDisconnect, CompletesEmpty, Completes, Quiet
<1>2. \A t \in Open : <<t, "recv">> \in owns \/ t \in deaf
  BY <1>1, QuietOpen
<1>7. deaf' = deaf
  BY DEF ProcessRecv, ProcessSend, ProcessDisconnect, CompletesEmpty
<1>3. \A i \in 1..3 : i = 1 \/ i = 2 \/ i = 3
  OBVIOUS
<1>4. CASE ProcessRecv(s)
  <2>1. Open' = Open /\ owns' = owns \ {<<s, "recv">>}
    BY <1>4 DEF ProcessRecv, Completes, Open
  <2>2. CASE s \in players
    <3> DEFINE stk == <<Broadcast(players), RegisterRecv(s), IocpObject(s)>>
    <3>1. stack' = stk
      <4>1. /\ Broadcast(players) \in Frames
            /\ RegisterRecv(s) \in Frames /\ IocpObject(s) \in Frames
        BY CallFrames DEF PlainFrames, IInv, TypeOK
      <4>2. stack' = <<Broadcast(players)>> \o <<RegisterRecv(s), IocpObject(s)>>
        BY <1>4, <2>2 DEF ProcessRecv
      <4> QED BY <4>1, <4>2, ConcatThree
    <3>2. /\ DOMAIN stk = 1..3 /\ Len(stk) = 3
          /\ stk[1].op = "broadcast" /\ stk[2].op = "listen" /\ stk[2].id = s
          /\ stk[3].op = "return" /\ stk[3].held = {s}
      BY DEF Broadcast, RegisterRecv, IocpObject, Frame
    <3> HIDE DEF stk
    <3>3. \A i \in 1..Len(stk) : FrameLive(stk, i, owns', players', deaf')
      BY <1>3, <3>2 DEF FrameLive, Bottom
    <3>4. \A i \in 1..Len(stk) : stk[i].op \notin {"listenFailed", "sendFailed"}
      BY <1>3, <3>2
    <3>5. Has(stk, "listen", s)
      BY <3>2 DEF Has
    <3>6. \A t \in Open' : <<t, "recv">> \in owns' \/ Has(stk, "listen", t) \/ t \in deaf'
      BY <1>2, <1>7, <2>1, <3>5
    <3> QED BY <3>1, <3>2, <3>3, <3>4, <3>6, LiveHandler
  <2>3. CASE s \notin players
    <3> DEFINE stk == <<RegisterRecv(s), IocpObject(s)>>
    <3>1. stack' = stk
      BY <1>4, <2>3 DEF ProcessRecv
    <3>2. /\ DOMAIN stk = 1..2 /\ Len(stk) = 2
          /\ stk[1].op = "listen" /\ stk[1].id = s
          /\ stk[2].op = "return" /\ stk[2].held = {s}
      BY DEF RegisterRecv, IocpObject, Frame
    <3> HIDE DEF stk
    <3>3. \A i \in 1..Len(stk) : FrameLive(stk, i, owns', players', deaf')
      BY <3>2 DEF FrameLive, Bottom
    <3>4. \A i \in 1..Len(stk) : stk[i].op \notin {"listenFailed", "sendFailed"}
      BY <3>2
    <3>5. Has(stk, "listen", s)
      BY <3>2 DEF Has
    <3>6. \A t \in Open' : <<t, "recv">> \in owns' \/ Has(stk, "listen", t) \/ t \in deaf'
      BY <1>2, <1>7, <2>1, <3>5
    <3> QED BY <3>1, <3>2, <3>3, <3>4, <3>6, LiveHandler
  <2> QED BY <2>2, <2>3
<1>5. CASE ProcessSend(s) \/ ProcessDisconnect(s)
  <2>1. Open' = Open /\ \A t \in Open : <<t, "recv">> \in owns' \/ t \in deaf'
    BY <1>2, <1>5, <1>7 DEF ProcessSend, ProcessDisconnect, Completes, Open
  <2>2. CASE stack' = << >>
    BY <2>1, <2>2 DEF LiveInv, Has, Once
  <2>3. CASE stack' = <<RegisterSend(s), IocpObject(s)>>
    <3> DEFINE stk == <<RegisterSend(s), IocpObject(s)>>
    <3>1. /\ DOMAIN stk = 1..2 /\ Len(stk) = 2
          /\ stk[1].op = "post" /\ stk[1].id = s
          /\ stk[2].op = "return" /\ stk[2].held = {s}
      BY DEF RegisterSend, IocpObject, Frame
    <3>2. stack' = stk
      BY <2>3
    <3> HIDE DEF stk
    <3>3. \A i \in 1..Len(stk) : FrameLive(stk, i, owns', players', deaf')
      BY <3>1 DEF FrameLive, Bottom
    <3>4. \A i \in 1..Len(stk) : stk[i].op \notin {"listenFailed", "sendFailed"}
      BY <3>1
    <3> QED BY <2>1, <3>1, <3>2, <3>3, <3>4, LiveHandler
  <2> QED BY <1>1, <1>5, <2>2, <2>3 DEF ProcessSend, ProcessDisconnect
<1>6. ASSUME NEW op \in {"recv", "send"}, CompletesEmpty(s, op)
      PROVE  LiveInv'
  <2>1. owns' = owns \ {<<s, op>>} /\ Disconnect(s, <<IocpObject(s)>>)
    BY <1>6 DEF CompletesEmpty, Completes
  <2>2. Open' \subseteq Open \ {s}
    BY <2>1 DEF Disconnect, Open, IInv, TypeOK
  <2>3. \A t \in Open' : <<t, "recv">> \in owns' \/ t \in deaf'
    BY <1>2, <1>7, <2>1, <2>2
  <2>4. CASE s \in Open
    <3> DEFINE f == RemoveObject(s)
               g == Frame("release", s, {})
               h == IocpObject(s)
               stk == <<f, g, h>>
    <3>1. /\ DOMAIN stk = 1..3 /\ Len(stk) = 3
          /\ stk[1].op = "remove" /\ stk[2].op = "release" /\ stk[2].id = s
          /\ stk[3].op = "return" /\ stk[3].held = {s}
      BY DEF RemoveObject, IocpObject, Frame
    <3>2. stack' = <<f, g>> \o <<h>>
      BY <2>1, <2>4 DEF Disconnect
    <3>3. f \in Frames /\ g \in Frames /\ h \in Frames
      BY CallFrames, FrameType DEF PlainFrames, Frame, FrameOps
    <3> HIDE DEF f, g, h
    <3>4. stack' = stk
      BY <3>2, <3>3, ConcatTwoOne
    <3> HIDE DEF stk
    <3>5. \A i \in 1..Len(stk) : FrameLive(stk, i, owns', players', deaf')
      BY <1>3, <3>1 DEF FrameLive, Bottom
    <3>6. \A i \in 1..Len(stk) : stk[i].op \notin {"listenFailed", "sendFailed"}
      BY <1>3, <3>1
    <3> QED BY <2>3, <3>1, <3>4, <3>5, <3>6, LiveHandler
  <2>5. CASE s \notin Open
    <3> DEFINE stk == <<IocpObject(s)>>
    <3>1. DOMAIN stk = 1..Len(stk) /\ \A i \in 1..Len(stk) : stk[i].op = "return"
      BY DEF IocpObject, Frame
    <3>2. stack' = stk
      BY <2>1, <2>5 DEF Disconnect
    <3> HIDE DEF stk
    <3>3. \A i \in 1..Len(stk) : FrameLive(stk, i, owns', players', deaf')
      BY <3>1 DEF FrameLive
    <3> QED BY <2>3, <3>1, <3>2, <3>3, LiveHandler
  <2> QED BY <2>4, <2>5
<1> QED BY <1>4, <1>5, <1>6

\* Update broadcasts, and may remove a player.
LEMMA LiveUpdate ==
  ASSUME IInv, LiveInv, Update
  PROVE  LiveInv'
<1>1. /\ Quiet /\ owns' = owns /\ Open' = Open /\ deaf' = deaf
      /\ \A s \in Open : <<s, "recv">> \in owns \/ s \in deaf
  BY QuietOpen DEF Update, link, Open
<1>2. ASSUME NEW stk, stack' = stk, DOMAIN stk = 1..Len(stk),
             \A i \in 1..Len(stk) : Loose(stk[i])
      PROVE  LiveInv'
  BY <1>1, <1>2, LiveHandler DEF FrameLive, Loose
<1>3. \A s : Loose(RemoveObject(s)) /\ Loose(Broadcast(players))
  BY LooseFrames
<1>4. CASE stack' = <<Broadcast(players)>>
  BY <1>2, <1>3, <1>4
<1>5. ASSUME NEW s \in players, stack' = <<Broadcast(players), RemoveObject(s)>>
      PROVE  LiveInv'
  BY <1>2, <1>3, <1>5
<1> QED BY <1>4, <1>5 DEF Update

\* Steps that change none of what LiveInv is about.
LEMMA LiveOther ==
  ASSUME LiveInv, NoSocketLeft \/ (\E s \in Sockets : PeerLeaves(s)) \/ UNCHANGED vars
  PROVE  LiveInv'
<1>1. UNCHANGED <<stack, owns, players, life, deaf>>
  BY DEF NoSocketLeft, PeerLeaves, vars, link, registries
<1> QED BY <1>1 DEF LiveInv, Open

\* LiveInv holds always, given the invariant.
LEMMA LiveInductive == SafeSpec => []LiveInv
<1>1. Init => LiveInv
  BY DEF Init, LiveInv, Open, Once
<1>2. IInv /\ LiveInv /\ [Next]_vars => LiveInv'
  <2> SUFFICES ASSUME IInv, LiveInv, [Next]_vars
               PROVE  LiveInv'
    OBVIOUS
  <2>1. CASE Unwind
    BY <2>1, LooseActions, TightActions, LiveOther DEF Unwind
  <2>2. CASE Dispatch
    BY <2>2, LiveAccept, LiveCompletions DEF Dispatch
  <2> QED BY <2>1, <2>2, LiveStart, LiveUpdate, LiveOther DEF Next
<1> QED BY <1>1, <1>2, Inductive, PTL DEF SafeSpec

\* UsedIsAlive: Send, RegisterSend, RegisterRecv and Disconnect never run on in a
\* session that has been destroyed, though nobody keeps a pointer for them, but for
\* RegisterSend of a session whose WSARecv has failed and left it connected.
THEOREM UsedIsAlwaysAlive == SafeSpec => []UsedIsAlive
<1>1. IInv /\ LiveInv => UsedIsAlive
  <2> SUFFICES ASSUME IInv, LiveInv, NEW i \in DOMAIN stack
               PROVE  /\ stack[i].op \in {"send", "post", "listen", "release", "hangUp"}
                           => Exists(stack[i].id)
                      /\ stack[i].op = "sendFailed" =>
                           Refers(stack[i].id, Ops \ {"send"}) \/ stack[i].id \in deaf
                      /\ stack[i].op = "listenFailed" => Refers(stack[i].id, Ops \ {"recv"})
    BY DEF UsedIsAlive
  <2>1. FrameLive(stack, i, owns, players, deaf)
    BY DEF LiveInv
  <2>2. Len(stack) \in DOMAIN stack
    BY DEF IInv, TypeOK
  <2>3. ASSUME NEW s, NEW ops, s \in Bottom(stack).held
        PROVE  Refers(s, ops)
    BY <2>2, <2>3 DEF Refers, Bottom
  <2>4. ASSUME NEW s, NEW ops, s \in players
        PROVE  Refers(s, ops)
    BY <2>4 DEF Refers
  <2>5. ASSUME NEW s, NEW ops, "recv" \in ops, <<s, "recv">> \in owns
        PROVE  Refers(s, ops)
    BY <2>5 DEF Refers
  <2>6. "recv" \in Ops /\ "recv" \in Ops \ {"send"}
    BY DEF Ops
  <2>7. Returns(stack, i) => Exists(stack[i].id)
    <3> SUFFICES ASSUME NEW j \in DOMAIN stack, stack[j].op = "sendFailed",
                        stack[j].id = stack[i].id
                 PROVE  Exists(stack[i].id)
      BY DEF Returns
    <3>1. FrameLive(stack, j, owns, players, deaf)
      BY DEF LiveInv
    <3>2. <<stack[i].id, "send">> \in owns
      BY <3>1 DEF FrameLive
    <3> QED BY <3>2 DEF Exists, Refers, Ops
  <2> QED BY <2>1, <2>3, <2>4, <2>5, <2>6, <2>7 DEF FrameLive, Exists
<1> QED BY <1>1, Inductive, LiveInductive, PTL
=============================================================================
