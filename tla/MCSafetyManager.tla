-------------------------- MODULE MCSafetyManager --------------------------
(***************************************************************************)
(* SafetyManager for TLC: the constants come from the configuration.       *)
(***************************************************************************)
EXTENDS SafetyManager
=============================================================================
