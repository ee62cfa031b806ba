------------------------------ MODULE MCSocial ------------------------------
(* The instance of Social that TLC checks.                                 *)
EXTENDS Social, TLC
=============================================================================
