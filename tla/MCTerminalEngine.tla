--------------------------- MODULE MCTerminalEngine ---------------------------
(***************************************************************************)
(* Instances of TerminalEngine for TLC; the .cfg files give the bounds.    *)
(***************************************************************************)
EXTENDS TerminalEngine
=============================================================================
