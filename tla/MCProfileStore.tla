---------------------------- MODULE MCProfileStore ----------------------------
(***************************************************************************)
(* Instances of ProfileStore for TLC; the .cfg files give the bounds.      *)
(***************************************************************************)
EXTENDS ProfileStore, TLC

CONSTANTS r1, r2, a, b, x, y

SymRequests == Permutations({r1, r2})
=============================================================================
