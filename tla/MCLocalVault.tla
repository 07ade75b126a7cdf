---------------------------- MODULE MCLocalVault -----------------------------
(* Two records and two passphrases for TLC. *)
EXTENDS LocalVault, TLC

AllOps   == LockedOps \cup UnlockedOps
VaultSymmetry == Permutations(Records) \cup Permutations(Keys) \cup Permutations(Calls)

\* Bound on the legacy data: once the keys need not open the file any more, runs with
\* a token left in the clear are not followed.
NoPlainTokenOnceMixed == mixed => conf # Plain
=============================================================================
