----------------------------- MODULE MCGateway ------------------------------
(***************************************************************************)
(* Instances of the gateway for TLC: g1 is an ordinary report with a checksum, *)
(* g2 a report of another event type, n1 a stray frame that is no report,  *)
(* b1 a report damaged on the air.                                         *)
(***************************************************************************)
EXTENDS PromptGateway

CONSTANTS g1, g2, n1, b1
=============================================================================
