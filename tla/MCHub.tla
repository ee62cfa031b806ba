------------------------------- MODULE MCHub -------------------------------
(* The instances of Hub that TLC checks.                                   *)
EXTENDS Hub, TLC

ConnSymmetry == Permutations(Players) \cup Permutations(Conns \ Players)
=============================================================================
