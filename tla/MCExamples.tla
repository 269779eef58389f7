----------------------------- MODULE MCExamples -----------------------------
(***************************************************************************)
(* The examples for TLC: g1 and g2 are undamaged frames, b1 a damaged one. *)
(***************************************************************************)
EXTENDS Examples

CONSTANTS g1, g2, b1
=============================================================================
