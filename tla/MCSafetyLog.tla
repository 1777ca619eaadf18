----------------------------- MODULE MCSafetyLog ----------------------------
(***************************************************************************)
(* SafetyLog for TLC.                                                      *)
(***************************************************************************)
EXTENDS SafetyLog
=============================================================================
