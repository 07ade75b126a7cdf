---------------------------- MODULE MCRdpSession ----------------------------
(* The run of RdpSession. *)
EXTENDS RdpSession
=============================================================================
