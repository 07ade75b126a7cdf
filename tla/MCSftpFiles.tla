----------------------------- MODULE MCSftpFiles -----------------------------
(* The sessions of the run are interchangeable, and so are the files. *)
EXTENDS SftpFiles, TLC

SftpSymmetry == Permutations(Sessions) \cup Permutations(Paths)
=============================================================================
