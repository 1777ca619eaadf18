-------------------------- MODULE MCE2ESupervisor --------------------------
(***************************************************************************)
(* E2ESupervisor for TLC: one channel, and a manager that other callers    *)
(* report faults to as well.                                               *)
(***************************************************************************)
EXTENDS E2ESupervisor
=============================================================================
