----------------------------- MODULE SendChannel -----------------------------
(***************************************************************************)
(* What Session::Send promises its callers, without threads, locks or      *)
(* completion events.  Buffers are numbered in the order Send accepted     *)
(* them.  Everything waiting is taken as one batch (scatter-gather), one   *)
(* batch is in flight at a time, and a batch is delivered whole and in     *)
(* order or is lost whole.                                                 *)
(***************************************************************************)
EXTENDS Naturals, Sequences

CONSTANT Lossy      \* TRUE when a batch may be lost while the channel stays open

VARIABLES
  accepted,         \* number of buffers Send has accepted
  waiting,          \* accepted, not yet handed to the transport
  flight,           \* the batch handed to the transport
  delivered,        \* everything the transport reported as sent
  open              \* the connection is not being torn down

cvars == <<accepted, waiting, flight, delivered, open>>

TypeOK ==
  /\ accepted \in Nat
  /\ waiting \in Seq(Nat)
  /\ flight \in Seq(Nat)
  /\ delivered \in Seq(Nat)
  /\ open \in BOOLEAN

Init ==
  /\ accepted = 0
  /\ waiting = << >>
  /\ flight = << >>
  /\ delivered = << >>
  /\ open = TRUE

Accept ==
  /\ accepted' = accepted + 1
  /\ waiting' = Append(waiting, accepted + 1)
  /\ UNCHANGED <<flight, delivered, open>>

Take ==
  /\ flight = << >>
  /\ waiting # << >>
  /\ flight' = waiting
  /\ waiting' = << >>
  /\ UNCHANGED <<accepted, delivered, open>>

Complete ==
  /\ flight # << >>
  /\ delivered' = delivered \o flight
  /\ flight' = << >>
  /\ UNCHANGED <<accepted, waiting, open>>

\* A lost batch takes the connection down with it, or finds it already going
\* down, unless the channel is Lossy.
Lose ==
  /\ flight # << >>
  /\ flight' = << >>
  /\ open' \in {open, FALSE}
  /\ Lossy \/ ~open'
  /\ UNCHANGED <<accepted, waiting, delivered>>

Close ==
  /\ open
  /\ open' = FALSE
  /\ UNCHANGED <<accepted, waiting, flight, delivered>>

Next == Accept \/ Take \/ Complete \/ Lose \/ Close

\* While the channel is open what waits is taken; what is in flight is settled.
Fairness ==
  /\ WF_cvars(open /\ Take)
  /\ WF_cvars(Complete \/ Lose)

SafeSpec == Init /\ [][Next]_cvars

Spec == SafeSpec /\ Fairness
=============================================================================
