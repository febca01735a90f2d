--------------------------- MODULE MCVectorIndex ---------------------------
(***************************************************************************)
(* VectorIndex for TLC: two members with payloads of their own, whose      *)
(* heads replace each other as those of two renditions of one version do.  *)
(***************************************************************************)
EXTENDS VectorIndex

KeyOfMember == [m \in Member |-> 1]
SetOfMember == [m \in Member |-> m]
=============================================================================
