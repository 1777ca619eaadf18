---------------------------- MODULE MCSecurityLog ---------------------------
(***************************************************************************)
(* SecurityLog for TLC.                                                    *)
(***************************************************************************)
EXTENDS SecurityLog
=============================================================================
