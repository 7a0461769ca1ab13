------------------------------ MODULE Replicas ------------------------------
(***************************************************************************)
(* What a room promises its clients, had each of its operations been       *)
(* atomic: there is one truth, where every object is, and every client     *)
(* whose own object is in it holds a copy.  One change at a time: the      *)
(* truth changes only when all copies agree with it, by one object that    *)
(* comes, moves or goes, and every copy makes the change in one step or    *)
(* has not made it yet.  A client that comes begins with the truth; one    *)
(* that goes holds nothing.                                                *)
(***************************************************************************)
CONSTANTS
  Objects,
  Clients,          \* the objects that are clients, a subset
  Resident,         \* the objects that are there from the beginning
  Places,
  Nowhere           \* the place of an object that is not there

VARIABLES
  truth,            \* where every object is
  copies            \* what every client knows of the truth

rvars == <<truth, copies>>

There == {o \in Objects : truth[o] # Nowhere}

\* The clients the next change waits for.
Behind == {c \in Clients \cap There : copies[c] # truth}

Blank == [o \in Objects |-> Nowhere]

Init ==
  /\ truth \in [Objects -> Places \cup {Nowhere}]
  /\ There = Resident
  /\ copies = [c \in Clients |-> Blank]

Come(c) ==
  /\ Behind = {}
  /\ c \notin There
  /\ \E place \in Places : truth' = [truth EXCEPT ![c] = place]
  /\ copies' = [copies EXCEPT ![c] = truth']

Relocate(o) ==
  /\ Behind = {}
  /\ o \in There
  /\ \E place \in Places : truth' = [truth EXCEPT ![o] = place]
  /\ UNCHANGED copies

Go(o) ==
  /\ Behind = {}
  /\ o \in There
  /\ truth' = [truth EXCEPT ![o] = Nowhere]
  /\ copies' = [c \in Clients |-> IF c = o THEN Blank ELSE copies[c]]

CatchUp(c) ==
  /\ c \in Behind
  /\ copies' = [copies EXCEPT ![c] = truth]
  /\ UNCHANGED truth

Next ==
  \/ \E c \in Clients : Come(c) \/ CatchUp(c)
  \/ \E o \in Objects : Relocate(o) \/ Go(o)

SafeSpec == Init /\ [][Next]_rvars
=============================================================================
