-------------------------- MODULE MCPermissionSync --------------------------
(* One or two credentials, one or two services (interchangeable, each) and *)
(* a handful of edits on both sides: enough for concurrent edits, ties,    *)
(* re-pairings and a revision that saturates.                              *)
EXTENDS PermissionSync, TLC

CONSTANTS login, vault, sudo, ssh
Interchangeable == Permutations(Credentials) \cup Permutations(Services)
=============================================================================
