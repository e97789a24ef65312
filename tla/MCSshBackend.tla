----------------------------- MODULE MCSshBackend -----------------------------
(***************************************************************************)
(* Instances of SshBackend for TLC; the .cfg files give the bounds.        *)
(***************************************************************************)
EXTENDS SshBackend
=============================================================================
