------------------------------ MODULE MCServer ------------------------------
(* Instances of Server for TLC.                                            *)
EXTENDS Server, TLC

\* Sockets are interchangeable; sound for the safety properties.
SocketSymmetry == Permutations(Sockets)
=============================================================================
