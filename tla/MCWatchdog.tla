----------------------------- MODULE MCWatchdog -----------------------------
(***************************************************************************)
(* Watchdog for TLC: interchangeable threads.                              *)
(***************************************************************************)
EXTENDS Watchdog, TLC

MonitorSymmetry == Permutations(Monitor)
=============================================================================
