----------------------------- MODULE MCWsSession ------------------------------
(***************************************************************************)
(* Instances of WsSession for TLC; the .cfg files give the bounds.         *)
(***************************************************************************)
EXTENDS WsSession
=============================================================================
