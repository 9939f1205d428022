---------------------------- MODULE MCPckSession ----------------------------
(***************************************************************************)
(* Instances of PckSession for TLC.  Workers are interchangeable; only the *)
(* runs without a temporal property use that.                              *)
(***************************************************************************)
EXTENDS PckSession, TLC

Symmetry == Permutations(Workers)
=============================================================================
