------------------------------ MODULE MCEscrow ------------------------------
(***************************************************************************)
(* Escrow with a few requests and deliveries as model values.              *)
(***************************************************************************)
EXTENDS Escrow

CONSTANTS u1, u2, h1, h2
=============================================================================
