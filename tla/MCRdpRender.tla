----------------------------- MODULE MCRdpRender -----------------------------
(* Constants of the RDP picture for TLC. *)
EXTENDS RdpRender, TLC
=============================================================================
