------------------------------ MODULE MCSystem ------------------------------
(***************************************************************************)
(* The access point for TLC: g1 is an ordinary report with a checksum, b1  *)
(* one damaged on the air.                                                 *)
(***************************************************************************)
EXTENDS System

CONSTANTS g1, b1
=============================================================================
