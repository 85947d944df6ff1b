---------------------------- MODULE MCMainStream ----------------------------
(***************************************************************************)
(* A buffered main stream with a publisher that polls with a timeout and   *)
(* one that waits without.                                                 *)
(***************************************************************************)
EXTENDS MainStream
=============================================================================
