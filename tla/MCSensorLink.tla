---------------------------- MODULE MCSensorLink ----------------------------
(***************************************************************************)
(* The sensor link with one parameter register beside the mode register.   *)
(***************************************************************************)
EXTENDS SensorLink
=============================================================================
