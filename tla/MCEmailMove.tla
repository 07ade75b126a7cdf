----------------------------- MODULE MCEmailMove -----------------------------
(* Two users and three addresses for TLC. *)
EXTENDS EmailMove
=============================================================================
