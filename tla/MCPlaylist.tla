----------------------------- MODULE MCPlaylist -----------------------------
(* The instances of Playlist that TLC checks.                              *)
EXTENDS Playlist, TLC

HandlerSymmetry == Permutations(Handlers)
=============================================================================
