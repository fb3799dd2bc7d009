------------------------------- MODULE MCRoom -------------------------------
(***************************************************************************)
(* Instances of Room for TLC.  Users and requests are interchangeable.     *)
(***************************************************************************)
EXTENDS Room, TLC

Symmetry == Permutations(Users) \cup Permutations(Requests)
=============================================================================
