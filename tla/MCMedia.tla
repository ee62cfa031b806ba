------------------------------ MODULE MCMedia -------------------------------
(* The instances of Media that TLC checks.                                 *)
EXTENDS Media, TLC
=============================================================================
