---------------------------- MODULE MCConnections ----------------------------
(***************************************************************************)
(* TLC instance of Connections: two connections, of one player or of two.  *)
(***************************************************************************)
EXTENDS Connections

MCOwners == {[c \in Conns |-> "ann"], [c \in Conns |-> IF c = 1 THEN "ann" ELSE "bob"]}
==============================================================================
