----------------------------- MODULE MCSyncStore -----------------------------
(* A small store for TLC.  The accounts are interchangeable. *)
EXTENDS SyncStore

AccountSymmetry == Permutations(Accounts)
=============================================================================
