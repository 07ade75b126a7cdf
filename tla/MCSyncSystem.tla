---------------------------- MODULE MCSyncSystem -----------------------------
(* The clients of the run are interchangeable, and so are the slots. *)
EXTENDS SyncSystem, TLC

SyncSymmetry == Permutations(Clients) \cup Permutations(Slots)
=============================================================================
