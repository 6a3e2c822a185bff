------------------------- MODULE MCGoldenOrderbook -------------------------
(***************************************************************************)
(* Instances of GoldenOrderbook for TLC.                                   *)
(***************************************************************************)
EXTENDS GoldenOrderbook, TLC

Symmetry == Permutations(Ids)
=============================================================================
