------------------------------ MODULE MCSession ------------------------------
(* Instances of Session for TLC.                                           *)
EXTENDS Session, TLC

\* Threads are interchangeable; sound for the runs without liveness.
ThreadSymmetry == Permutations(Threads)
=============================================================================
