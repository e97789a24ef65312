----------------------------- MODULE MCPtyBackend -----------------------------
(***************************************************************************)
(* Instances of PtyBackend for TLC; the .cfg files give the bounds.        *)
(***************************************************************************)
EXTENDS PtyBackend
=============================================================================
