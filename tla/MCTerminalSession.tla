--------------------------- MODULE MCTerminalSession --------------------------
(***************************************************************************)
(* Instances of TerminalSession for TLC; the .cfg files give the bounds.   *)
(***************************************************************************)
EXTENDS TerminalSession
=============================================================================
