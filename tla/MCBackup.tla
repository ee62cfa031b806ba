------------------------------ MODULE MCBackup ------------------------------
(* The instances of Backup that TLC checks.                                *)
EXTENDS Backup, TLC

HandlerSymmetry == Permutations(Handlers)
=============================================================================
