-------------------------- MODULE MCPrivateGateway --------------------------
(***************************************************************************)
(* The board-side control program with two values of a parameter.          *)
(***************************************************************************)
EXTENDS PrivateGateway
=============================================================================
