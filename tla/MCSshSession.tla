---------------------------- MODULE MCSshSession -----------------------------
(* Constants of the SSH session for TLC. *)
EXTENDS SshSession, TLC
=============================================================================
