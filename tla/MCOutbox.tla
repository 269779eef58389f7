------------------------------ MODULE MCOutbox ------------------------------
(***************************************************************************)
(* The store and forward for TLC, with the call of MQTT in full.           *)
(***************************************************************************)
EXTENDS Uplink
=============================================================================
