----------------------------- MODULE SafetyFSM -----------------------------
(***************************************************************************)
(* What the safety state machine of the master promises to the rest of the *)
(* system, with neither its counters, its timer threads nor its log: a     *)
(* safety state and the set of nodes known to be offline.                  *)
(*                                                                         *)
(*   - a fault report never makes the state less severe, and never by      *)
(*     itself silences the outputs;                                        *)
(*   - an outage of the bus is never answered with less than SAFE_STATE,   *)
(*     and NORMAL is never claimed with a node offline;                    *)
(*   - FAIL_SILENT is entered only from SAFE_STATE, and only a restart     *)
(*     leaves it.                                                          *)
(***************************************************************************)
EXTENDS Naturals

CONSTANTS Source,       \* names of nodes and channels that report faults
          Outage(_)     \* the sets of nodes too many to be offline at once

VARIABLES state, offline

fsmVars == <<state, offline>>

SafetyState == {"NORMAL", "DEGRADED", "SAFE_STATE", "FAIL_SILENT"}

\* Order of severity of the safety states.
Severity(s) == CASE s = "NORMAL"      -> 0
                 [] s = "DEGRADED"    -> 1
                 [] s = "SAFE_STATE"  -> 2
                 [] s = "FAIL_SILENT" -> 3

\* The state s may be reported while the nodes in off are offline.
Adequate(s, off) == /\ s = "NORMAL" => off = {}
                    /\ Outage(off) => s \in {"SAFE_STATE", "FAIL_SILENT"}
-----------------------------------------------------------------------------
FSMInit == state = "NORMAL" /\ offline = {}

\* A fault is reported: the state gets worse or stays, and fits the outage.
Fault == /\ offline \subseteq offline' /\ offline' \subseteq Source
         /\ state' \in SafetyState
         /\ Severity(state') >= Severity(state)
         /\ state' = "FAIL_SILENT" => state = "FAIL_SILENT"
         /\ Adequate(state', offline')

\* A component is reported healthy again: NORMAL is restored or nothing changes.
Recovery == /\ offline' \subseteq offline
            /\ \/ state' = state
               \/ /\ state \in {"DEGRADED", "SAFE_STATE"}
                  /\ state' = "NORMAL"
            /\ Adequate(state', offline')

\* SAFE_STATE has lasted too long.
Expiry == /\ state = "SAFE_STATE" /\ state' = "FAIL_SILENT"
          /\ UNCHANGED offline

Restart == state' = "NORMAL" /\ offline' = {}

FSMNext == Fault \/ Recovery \/ Expiry \/ Restart

FSMSpec == FSMInit /\ [][FSMNext]_fsmVars
=============================================================================
