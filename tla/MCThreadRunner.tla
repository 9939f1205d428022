--------------------------- MODULE MCThreadRunner ---------------------------
(***************************************************************************)
(* Instances of ThreadRunner for TLC.                                      *)
(*                                                                         *)
(* Four files: a compressible one with enough slack to be reallocated, an  *)
(* empty one, a compressible one with little slack, and one too small to   *)
(* be compressed.  NoCompress is 1 (20 in the code), ShrinkLimit 2.        *)
(***************************************************************************)
EXTENDS ThreadRunner

MCClear  == <<5, 0, 4, 1>>
MCBound  == <<6, 1, 5, 2>>
MCPacked == <<2, 0, 3, 1>>
MCStored == <<2, 0, 3, 1>>

\* Five entries of an archive; the second is the invalid one, the third decompresses
\* to fewer bytes than its record states, the fourth is too small to be compressed.
MCClearPck    == <<5, 4, 4, 1, 5>>
MCBoundPck    == <<6, 5, 5, 2, 6>>
MCPackedPck   == <<2, 3, 4, 1, 2>>
MCStoredPck   == <<3, 3, 4, 1, 3>>
MCInflatedPck == <<5, 4, 2, 1, 5>>
=============================================================================
