------------------------------- MODULE MCSecOC -------------------------------
(***************************************************************************)
(* SecOC for TLC: the constants come from the configuration.               *)
(***************************************************************************)
EXTENDS SecOC
=============================================================================
