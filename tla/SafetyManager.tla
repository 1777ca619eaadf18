--------------------------- MODULE SafetyManager ---------------------------
(***************************************************************************)
(* The safety manager of the master, src/src/master/safety_manager.py.     *)
(*                                                                         *)
(* Every public method runs under one lock, so a call is one step.  What   *)
(* runs beside the calls is the timer thread that SAFE_STATE starts: after *)
(* 60 s it calls the timeout handler, which then competes for the lock.    *)
(* Timer.cancel() stops a timer that is still waiting; it cannot stop a    *)
(* handler that is already waiting for the lock.                           *)
(***************************************************************************)
EXTENDS Naturals, FiniteSets

CONSTANTS Source,         \* strings used as "source" of faults: nodes, channels
          TotalNodes,     \* total_nodes
          MaxCrcCount,    \* bound on the CRC failures counted for one source
          MaxStale        \* bound on cancelled handlers waiting for the lock

ASSUME SourceAssumption == IsFiniteSet(Source)
ASSUME TotalNodesAssumption == TotalNodes \in Nat \ {0}
ASSUME BoundsAssumption == MaxCrcCount \in Nat /\ MaxStale \in Nat \ {0}

VARIABLES
  state,      \* _state
  offline,    \* _offline_nodes
  crc,        \* _crc_failure_counts, 0 for a source the dict does not have
  timer,      \* the Timer in _safe_state_timer: none, armed (waiting for its
              \* 60 s), fired (its handler waits for the lock), spent
  stale,      \* handlers of cancelled timers that still wait for the lock
  notified,   \* the state last passed to on_state_change
  record      \* the last record of the safety log and the DTC set with it

managerVars == <<state, offline, crc, timer, stale, notified, record>>

SafetyState == {"NORMAL", "DEGRADED", "SAFE_STATE", "FAIL_SILENT"}

CRC_FAILURE_THRESHOLD == 3
OFFLINE_PERCENT_THRESHOLD == 50

\* Faults whose rule in notify_fault is a plain transition.
DegradingFaults == {"PLCA_BEACON_LOST", "SEQ_ERROR"}
SafeStateFaults == {"FLOW_ERROR", "WATCHDOG_EXPIRED"}

FaultType == {"NODE_OFFLINE", "CRC_FAILURE", "TIMEOUT", "SENSOR_PLAUSIBILITY"}
                 \cup DegradingFaults \cup SafeStateFaults

Asil == {"ASIL-D", "other"}

\* The DTC that _set_dtc_for_fault hands to the DTC manager.
DtcOf(fault) ==
  CASE fault = "CRC_FAILURE"         -> "e2e_crc_failure"
    [] fault = "SEQ_ERROR"           -> "e2e_seq_error"
    [] fault = "TIMEOUT"             -> "e2e_timeout"
    [] fault = "NODE_OFFLINE"        -> "node_comm_lost"
    [] fault = "PLCA_BEACON_LOST"    -> "bus_general_error"
    [] fault = "SENSOR_PLAUSIBILITY" -> "sensor_plausibility"
    [] fault \in SafeStateFaults     -> "master_internal_error"

Event == FaultType \cup {"none", "NODE_ONLINE", "FAIL_SILENT_ENTER"}

Dtc == {DtcOf(f) : f \in FaultType} \cup {"none"}

Record == [event : Event, asil : Asil, state : SafetyState, dtc : Dtc]

Init ==
  /\ state = "NORMAL"
  /\ offline = {}
  /\ crc = [s \in Source |-> 0]
  /\ timer = "none"
  /\ stale = 0
  /\ notified = "NORMAL"
  /\ record = [event |-> "none", asil |-> "other", state |-> "NORMAL", dtc |-> "none"]
-----------------------------------------------------------------------------
ValidTransitions == {<<"NORMAL", "DEGRADED">>,
                     <<"DEGRADED", "NORMAL">>, <<"DEGRADED", "SAFE_STATE">>,
                     <<"SAFE_STATE", "NORMAL">>, <<"SAFE_STATE", "FAIL_SILENT">>,
                     <<"FAIL_SILENT", "NORMAL">>}

\* Mutants: a table with an entry too many.
FaultLeavesSilence(old, new) ==
  <<old, new>> \in ValidTransitions \cup {<<"FAIL_SILENT", "DEGRADED">>}
FaultLeavesSafeState(old, new) ==
  <<old, new>> \in ValidTransitions \cup {<<"SAFE_STATE", "DEGRADED">>}

IsValidTransition(old, new) == <<old, new>> \in ValidTransitions

\* The state in which an attempted transition ends: an invalid one is ignored.
Attempt(old, new) == IF IsValidTransition(old, new) THEN new ELSE old

\* Mutant: cancel() stops no timer, not even one that is still waiting.
CancelMissesTimer == IF timer \in {"armed", "fired"} THEN stale + 1 ELSE stale

\* Handlers that a cancel() comes too late for.
StaleAfterCancel == IF timer = "fired" THEN stale + 1 ELSE stale

\* Mutants: the timer is not cancelled, not started.
TimerNotCancelled == UNCHANGED <<timer, stale>>
TimerNotStarted == timer' = "none" /\ stale' = StaleAfterCancel

CancelSafeStateTimer == timer' = "none" /\ stale' = StaleAfterCancel

StartSafeStateTimer == timer' = "armed" /\ stale' = StaleAfterCancel

\* The state becomes new, in one or more valid transitions under the lock: the
\* callback is called for each, and SAFE_STATE, always the last, starts a timer.
TransitionTo(new) ==
  /\ state' = new
  /\ notified' = IF new # state THEN new ELSE notified
  /\ IF new # state /\ new = "SAFE_STATE"
       THEN StartSafeStateTimer
       ELSE UNCHANGED <<timer, stale>>

\* The last thing a call appends to the log, with the state it ends in.
Log(event, asil, dtc) ==
  record' = [event |-> event, asil |-> asil, state |-> state', dtc |-> dtc]

\* The end of notify_fault: the log record and the DTC.
LogFault(fault, asil) == Log(fault, asil, DtcOf(fault))
-----------------------------------------------------------------------------
(* notify_fault, one action per rule. *)

\* Mutant: "more than" instead of "at least".
OutageOfMost(nodes) ==
  100 * Cardinality(nodes) > OFFLINE_PERCENT_THRESHOLD * TotalNodes

\* offline_pct >= OFFLINE_PERCENT_THRESHOLD
OutageOf(nodes) ==
  100 * Cardinality(nodes) >= OFFLINE_PERCENT_THRESHOLD * TotalNodes

HandleNodeFault(s) ==
  LET after == IF state = "NORMAL" THEN Attempt(state, "DEGRADED") ELSE state
  IN /\ offline' = offline \cup {s}
     /\ TransitionTo(IF OutageOf(offline') THEN Attempt(after, "SAFE_STATE")
                                           ELSE after)
     /\ LogFault("NODE_OFFLINE", "other")
     /\ UNCHANGED crc

HandleCrcFailure(s) ==
  /\ crc[s] < MaxCrcCount
  /\ crc' = [crc EXCEPT ![s] = @ + 1]
  /\ TransitionTo(IF crc'[s] >= CRC_FAILURE_THRESHOLD /\ state = "NORMAL"
                    THEN Attempt(state, "DEGRADED") ELSE state)
  /\ LogFault("CRC_FAILURE", "other")
  /\ UNCHANGED offline

HandleTimeout(asil) ==
  /\ TransitionTo(CASE asil = "ASIL-D" -> Attempt(state, "SAFE_STATE")
                    [] asil # "ASIL-D" /\ state = "NORMAL" -> Attempt(state, "DEGRADED")
                    [] OTHER -> state)
  /\ LogFault("TIMEOUT", asil)
  /\ UNCHANGED <<offline, crc>>

HandleSensorPlausibility ==
  /\ TransitionTo(IF state = "NORMAL" THEN Attempt(state, "DEGRADED") ELSE state)
  /\ LogFault("SENSOR_PLAUSIBILITY", "other")
  /\ UNCHANGED <<offline, crc>>

HandleDegradingFault(fault) ==
  /\ TransitionTo(Attempt(state, "DEGRADED"))
  /\ LogFault(fault, "other")
  /\ UNCHANGED <<offline, crc>>

HandleSafeStateFault(fault) ==
  /\ TransitionTo(Attempt(state, "SAFE_STATE"))
  /\ LogFault(fault, "other")
  /\ UNCHANGED <<offline, crc>>

NotifyFault(fault, s, asil) ==
  \/ fault = "NODE_OFFLINE" /\ HandleNodeFault(s)
  \/ fault = "CRC_FAILURE" /\ HandleCrcFailure(s)
  \/ fault = "TIMEOUT" /\ HandleTimeout(asil)
  \/ fault = "SENSOR_PLAUSIBILITY" /\ HandleSensorPlausibility
  \/ fault \in DegradingFaults /\ HandleDegradingFault(fault)
  \/ fault \in SafeStateFaults /\ HandleSafeStateFault(fault)
-----------------------------------------------------------------------------
\* Mutant: the offline nodes are not looked at.
NoCrcFaultLeft(off, counts) == \A x \in Source : counts[x] = 0

\* The condition for DEGRADED -> NORMAL.
NoFaultLeft(off, counts) == off = {} /\ \A x \in Source : counts[x] = 0

NotifyRecovery(s) ==
  /\ offline' = offline \ {s}
  /\ crc' = [crc EXCEPT ![s] = 0]
  /\ \/ /\ state = "DEGRADED"
        /\ TransitionTo(IF NoFaultLeft(offline', crc')
                          THEN Attempt(state, "NORMAL") ELSE state)
     \/ /\ state = "SAFE_STATE" /\ offline' = {}
        /\ CancelSafeStateTimer
        /\ state' = Attempt(state, "NORMAL")
        /\ notified' = state'
     \/ /\ \/ state \in {"NORMAL", "FAIL_SILENT"}
           \/ state = "SAFE_STATE" /\ offline' # {}
        /\ UNCHANGED <<state, notified, timer, stale>>
  /\ Log("NODE_ONLINE", "other", "none")

\* Mutant: reset() does not call on_state_change.
ResetUnannounced ==
  /\ CancelSafeStateTimer
  /\ state' = "NORMAL"
  /\ offline' = {}
  /\ crc' = [s \in Source |-> 0]
  /\ UNCHANGED <<notified, record>>

\* reset() writes nothing to the log.
Reset ==
  /\ CancelSafeStateTimer
  /\ state' = "NORMAL"
  /\ offline' = {}
  /\ crc' = [s \in Source |-> 0]
  /\ notified' = IF state # "NORMAL" THEN "NORMAL" ELSE notified
  /\ UNCHANGED record
-----------------------------------------------------------------------------
(* The timer threads. *)

\* 60 s have passed and the thread is past its check of "cancelled".
TimerFires ==
  /\ timer = "armed" /\ stale < MaxStale
  /\ timer' = "fired"
  /\ UNCHANGED <<state, offline, crc, stale, notified, record>>

\* The body of the handler, once it has the lock.
SafeStateTimeout ==
  /\ UNCHANGED <<offline, crc>>
  /\ \/ /\ state = "SAFE_STATE"
        /\ state' = Attempt(state, "FAIL_SILENT")
        /\ notified' = state'
        /\ Log("FAIL_SILENT_ENTER", "other", "none")
     \/ /\ state # "SAFE_STATE"
        /\ UNCHANGED <<state, notified, record>>

TimeoutHandler ==
  /\ timer = "fired" /\ timer' = "spent"
  /\ SafeStateTimeout
  /\ UNCHANGED stale

StaleTimeoutHandler ==
  /\ stale > 0 /\ stale' = stale - 1
  /\ SafeStateTimeout
  /\ UNCHANGED timer
-----------------------------------------------------------------------------
Next ==
  \/ \E f \in FaultType, s \in Source, a \in Asil : NotifyFault(f, s, a)
  \/ \E s \in Source : NotifyRecovery(s)
  \/ Reset
  \/ TimerFires
  \/ TimeoutHandler
  \/ StaleTimeoutHandler

Spec == Init /\ [][Next]_managerVars

\* Timer threads run when their time is up, and get the lock, which every call
\* gives back.  Nobody is obliged to report a fault or a recovery.
TimerFairness == /\ WF_managerVars(TimerFires)
                 /\ WF_managerVars(TimeoutHandler)
                 /\ WF_managerVars(StaleTimeoutHandler)

FairSpec == Spec /\ TimerFairness
-----------------------------------------------------------------------------
\* Every variable keeps its type: the type invariant of the module.
TypeOK ==
  /\ state \in SafetyState
  /\ offline \subseteq Source
  /\ crc \in [Source -> 0..MaxCrcCount]
  /\ timer \in {"none", "armed", "fired", "spent"}
  /\ stale \in 0..MaxStale
  /\ notified \in SafetyState
  /\ record \in Record

\* NORMAL is never claimed while a node is known to be offline: neither a
\* recovery of another node nor the end of SAFE_STATE forgets one.
NormalHasNoOfflineNode == state = "NORMAL" => offline = {}

\* With half of the nodes offline the state is at least SAFE_STATE, in whatever
\* order faults of other kinds, recoveries and timeouts arrive.
OutageIsSafe == 2 * Cardinality(offline) >= TotalNodes =>
                  state \in {"SAFE_STATE", "FAIL_SILENT"}

\* SAFE_STATE always has a timer running that will end it, and no timer is left
\* over in NORMAL and DEGRADED, where the next SAFE_STATE would inherit it.
TimerInStep ==
  /\ state = "SAFE_STATE" => timer \in {"armed", "fired"}
  /\ state \in {"NORMAL", "DEGRADED"} => timer = "none"
  /\ timer = "fired" => stale < MaxStale

\* A listener that knows only what on_state_change told it knows the state.
ListenerInStep == notified = state

\* FAIL_SILENT is left only by reset(), which forgets every fault and stops the
\* timer: no fault, recovery or late timer handler switches the outputs on.
FailSilentUntilReset ==
  [][state = "FAIL_SILENT" /\ state' # "FAIL_SILENT" =>
       /\ state' = "NORMAL" /\ offline' = {} /\ timer' = "none"
       /\ \A s \in Source : crc'[s] = 0
       /\ UNCHANGED record]_managerVars

\* SAFE_STATE does not last: recovery, reset or the timer ends it.
SafeStateEnds == state = "SAFE_STATE" ~> state # "SAFE_STATE"
-----------------------------------------------------------------------------
\* The manager implements the promise of SafetyFSM.
FSM == INSTANCE SafetyFSM WITH Outage <- OutageOf
ImplementsFSM == FSM!FSMSpec
=============================================================================
