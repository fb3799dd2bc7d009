------------------------------- MODULE MCLobby -------------------------------
(***************************************************************************)
(* Instances of Lobby for TLC.                                             *)
(***************************************************************************)
EXTENDS Lobby, TLC

Symmetry == Permutations(Users) \cup Permutations(Requests)
==============================================================================
