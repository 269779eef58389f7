------------------------------ MODULE MCDialer ------------------------------
(***************************************************************************)
(* Dialer for TLC.                                                         *)
(***************************************************************************)
EXTENDS Dialer
=============================================================================
