------------------------ MODULE E2ESupervisor_proofs ------------------------
(***************************************************************************)
(* Proofs about the safety manager, and about the E2E supervisor beside    *)
(* it: for every finite set of sources, every number of nodes, any number  *)
(* of channels and every bound.                                            *)
(***************************************************************************)
EXTENDS E2ESupervisor, FiniteSetTheorems, TLAPS

(***************************************************************************)
(* The safety manager.  TimerInStep is what makes its type and its outage  *)
(* rule inductive: SAFE_STATE is left for NORMAL only with no node         *)
(* offline, and entered only with no timer pending.                        *)
(***************************************************************************)
OutageHandled == OutageOf(offline) => state \in {"SAFE_STATE", "FAIL_SILENT"}

IInv == /\ TypeOK
        /\ NormalHasNoOfflineNode
        /\ OutageHandled
        /\ TimerInStep
        /\ ListenerInStep

\* No outage without an offline node, since there is at least one node.
LEMMA NoOutage == ~ OutageOf({})
BY FS_EmptySet, TotalNodesAssumption DEF OutageOf, OFFLINE_PERCENT_THRESHOLD

\* An outage is not ended by more nodes going offline, nor started by a recovery.
LEMMA OutageMonotone ==
  ASSUME NEW A, NEW B, A \subseteq B, B \subseteq Source, OutageOf(A)
  PROVE  OutageOf(B)
<1>1. IsFiniteSet(B) /\ IsFiniteSet(A)
  BY FS_Subset, SourceAssumption
<1>2. Cardinality(A) <= Cardinality(B)
  BY <1>1, FS_Subset
<1>3. Cardinality(A) \in Nat /\ Cardinality(B) \in Nat
  BY <1>1, FS_CardinalityType
<1> QED
  BY <1>2, <1>3, TotalNodesAssumption DEF OutageOf, OFFLINE_PERCENT_THRESHOLD

\* IInv holds of a new safety manager.
LEMMA InitIInv == Init => IInv
<1> SUFFICES ASSUME Init PROVE IInv
  OBVIOUS
<1>1. record \in Record
  BY DEF Init, Record, Event, Asil, SafetyState, Dtc
<1>2. TypeOK
  BY <1>1, BoundsAssumption DEF Init, TypeOK, SafetyState
<1>3. OutageHandled
  BY NoOutage DEF Init, OutageHandled
<1> QED
  BY <1>2, <1>3 DEF Init, IInv, NormalHasNoOfflineNode, TimerInStep, ListenerInStep
-----------------------------------------------------------------------------
\* The transitions that a fault report or a recovery makes in one step.
Reachable(old, new) == \/ new = old
                       \/ old = "NORMAL" /\ new = "DEGRADED"
                       \/ old \in {"NORMAL", "DEGRADED"} /\ new = "SAFE_STATE"
                       \/ old = "DEGRADED" /\ new = "NORMAL"

\* The part of the invariant that only transitions and timers can disturb.
TransitionInv == /\ state \in SafetyState /\ notified \in SafetyState
                 /\ timer \in {"none", "armed", "fired", "spent"}
                 /\ stale \in 0..MaxStale
                 /\ TimerInStep
                 /\ ListenerInStep

\* A transition keeps the timer and the listener in step with the state.
LEMMA TransitionKeepsStep ==
  ASSUME IInv, NEW new \in SafetyState, Reachable(state, new), TransitionTo(new)
  PROVE  TransitionInv'
BY BoundsAssumption
DEF IInv, TypeOK, TimerInStep, ListenerInStep, Reachable, TransitionTo, TransitionInv,
    StartSafeStateTimer, StaleAfterCancel, SafetyState

\* What a call writes to the log has the type of a record.
LEMMA RecordType ==
  ASSUME NEW f \in FaultType, NEW a \in Asil, state' \in SafetyState, LogFault(f, a)
  PROVE  record' \in Record
<1>1. DtcOf(f) \in Dtc
  BY DEF Dtc
<1> QED
  BY <1>1 DEF LogFault, Log, Record, Event

\* The log records that are not a fault's have their type.
LEMMA OtherRecordType ==
  ASSUME NEW e \in {"NODE_ONLINE", "FAIL_SILENT_ENTER"}, state' \in SafetyState,
         Log(e, "other", "none")
  PROVE  record' \in Record
BY DEF Log, Record, Event, Asil, Dtc

\* A fault that changes neither the offline nodes nor lowers the state.
LEMMA EscalationStep ==
  ASSUME IInv, NEW f \in FaultType, NEW a \in Asil, NEW new \in SafetyState,
         Reachable(state, new), new = "NORMAL" => state = "NORMAL",
         TransitionTo(new), LogFault(f, a),
         crc' \in [Source -> 0..MaxCrcCount], UNCHANGED offline
  PROVE  IInv'
<1>1. TransitionInv'
  BY TransitionKeepsStep
<1>2. record' \in Record
  BY <1>1, RecordType DEF TransitionInv
<1>3. NormalHasNoOfflineNode'
  BY DEF IInv, NormalHasNoOfflineNode, TransitionTo
<1>4. OutageHandled'
  BY DEF IInv, OutageHandled, OutageOf, TransitionTo, Reachable
<1> QED
  BY <1>1, <1>2, <1>3, <1>4 DEF IInv, TypeOK, TransitionInv

\* A node that goes offline keeps IInv, whichever transitions it causes.
LEMMA NodeFaultStep ==
  ASSUME IInv, NEW s \in Source, HandleNodeFault(s)
  PROVE  IInv'
<1> DEFINE after == IF state = "NORMAL" THEN "DEGRADED" ELSE state
           new == IF OutageOf(offline') THEN Attempt(after, "SAFE_STATE") ELSE after
<1>1. state \in SafetyState /\ offline \subseteq Source /\ crc \in [Source -> 0..MaxCrcCount]
  BY DEF IInv, TypeOK
<1>2. TransitionTo(new)
  BY DEF HandleNodeFault, Attempt, IsValidTransition, ValidTransitions
<1>3. new \in SafetyState /\ Reachable(state, new)
  BY <1>1 DEF Attempt, IsValidTransition, ValidTransitions, SafetyState, Reachable
<1>4. TransitionInv'
  BY <1>2, <1>3, TransitionKeepsStep
<1>5. record' \in Record
  BY <1>4, RecordType DEF HandleNodeFault, FaultType, Asil, TransitionInv
<1>6. offline' \subseteq Source /\ crc' \in [Source -> 0..MaxCrcCount]
  BY <1>1 DEF HandleNodeFault
<1>7. NormalHasNoOfflineNode'
  BY <1>1, <1>2 DEF TransitionTo, Attempt, IsValidTransition, ValidTransitions, NormalHasNoOfflineNode, SafetyState
<1>8. OutageHandled'
  <2> SUFFICES ASSUME OutageOf(offline')
               PROVE  state' \in {"SAFE_STATE", "FAIL_SILENT"}
    BY DEF OutageHandled, OutageOf
  <2> QED
    BY <1>1, <1>2 DEF TransitionTo, Attempt, IsValidTransition, ValidTransitions, SafetyState
<1> QED
  BY <1>4, <1>5, <1>6, <1>7, <1>8 DEF IInv, TypeOK, TransitionInv

\* The rules of notify_fault that attempt one transition: which state they end in.
LEMMA AttemptReachable ==
  ASSUME state \in SafetyState, NEW target \in {"DEGRADED", "SAFE_STATE"}
  PROVE  LET new == Attempt(state, target)
         IN  new \in SafetyState /\ Reachable(state, new) /\ (new = "NORMAL" => state = "NORMAL")
BY DEF Attempt, IsValidTransition, ValidTransitions, SafetyState, Reachable

\* Every rule of notify_fault keeps IInv.
LEMMA FaultStep ==
  ASSUME IInv, NEW f \in FaultType, NEW s \in Source, NEW a \in Asil, NotifyFault(f, s, a)
  PROVE  IInv'
<1>0. /\ state \in SafetyState /\ crc \in [Source -> 0..MaxCrcCount]
      /\ state \in SafetyState /\ Reachable(state, state)
      /\ "other" \in Asil
  BY DEF IInv, TypeOK, Reachable, Asil
<1>1. CASE f = "NODE_OFFLINE" /\ HandleNodeFault(s)
  BY <1>1, NodeFaultStep
<1>2. CASE f = "CRC_FAILURE" /\ HandleCrcFailure(s)
  <2> DEFINE new == IF crc'[s] >= CRC_FAILURE_THRESHOLD /\ state = "NORMAL"
                      THEN Attempt(state, "DEGRADED") ELSE state
  <2>1. TransitionTo(new) /\ LogFault(f, "other") /\ UNCHANGED offline
    BY <1>2 DEF HandleCrcFailure
  <2>2. new \in SafetyState /\ Reachable(state, new) /\ (new = "NORMAL" => state = "NORMAL")
    BY <1>0, AttemptReachable
  <2>3. crc' \in [Source -> 0..MaxCrcCount]
    BY <1>0, <1>2, BoundsAssumption DEF HandleCrcFailure
  <2> HIDE DEF new
  <2> QED
    BY <1>0, <2>1, <2>2, <2>3, EscalationStep
<1>3. CASE f = "TIMEOUT" /\ HandleTimeout(a)
  <2> DEFINE new == CASE a = "ASIL-D" -> Attempt(state, "SAFE_STATE")
                      [] a # "ASIL-D" /\ state = "NORMAL" -> Attempt(state, "DEGRADED")
                      [] OTHER -> state
  <2>1. TransitionTo(new) /\ LogFault(f, a) /\ UNCHANGED <<offline, crc>>
    BY <1>3 DEF HandleTimeout
  <2>2. new \in SafetyState /\ Reachable(state, new) /\ (new = "NORMAL" => state = "NORMAL")
    BY <1>0, AttemptReachable
  <2> HIDE DEF new
  <2> QED
    BY <1>0, <2>1, <2>2, EscalationStep
<1>4. CASE f = "SENSOR_PLAUSIBILITY" /\ HandleSensorPlausibility
  <2> DEFINE new == IF state = "NORMAL" THEN Attempt(state, "DEGRADED") ELSE state
  <2>1. TransitionTo(new) /\ LogFault(f, "other") /\ UNCHANGED <<offline, crc>>
    BY <1>4 DEF HandleSensorPlausibility
  <2>2. new \in SafetyState /\ Reachable(state, new) /\ (new = "NORMAL" => state = "NORMAL")
    BY <1>0, AttemptReachable
  <2> HIDE DEF new
  <2> QED
    BY <1>0, <2>1, <2>2, EscalationStep
<1>5. CASE f \in DegradingFaults /\ HandleDegradingFault(f)
  <2>1. /\ TransitionTo(Attempt(state, "DEGRADED")) /\ LogFault(f, "other")
        /\ UNCHANGED <<offline, crc>>
    BY <1>5 DEF HandleDegradingFault
  <2> QED
    BY <1>0, <2>1, AttemptReachable, EscalationStep
<1>6. CASE f \in SafeStateFaults /\ HandleSafeStateFault(f)
  <2>1. /\ TransitionTo(Attempt(state, "SAFE_STATE")) /\ LogFault(f, "other")
        /\ UNCHANGED <<offline, crc>>
    BY <1>6 DEF HandleSafeStateFault
  <2> QED
    BY <1>0, <2>1, AttemptReachable, EscalationStep
<1> QED
  BY <1>1, <1>2, <1>3, <1>4, <1>5, <1>6 DEF NotifyFault

\* Every rule of notify_recovery keeps IInv.
LEMMA RecoveryStep ==
  ASSUME IInv, NEW s \in Source, NotifyRecovery(s)
  PROVE  IInv'
<1>0. /\ state \in SafetyState /\ offline \subseteq Source
      /\ crc \in [Source -> 0..MaxCrcCount]
  BY DEF IInv, TypeOK
<1>1. /\ offline' \subseteq offline /\ offline' \subseteq Source
      /\ crc' \in [Source -> 0..MaxCrcCount]
  BY <1>0, BoundsAssumption DEF NotifyRecovery
<1>2. \/ state' = state
      \/ state \in {"DEGRADED", "SAFE_STATE"} /\ state' = "NORMAL" /\ offline' = {}
  BY DEF NotifyRecovery, NoFaultLeft, TransitionTo, Attempt, IsValidTransition, ValidTransitions
<1>3. TransitionInv'
  <2>1. CASE state = "DEGRADED"
    <3>1. PICK new \in {"NORMAL", state} : TransitionTo(new)
      BY <2>1 DEF NotifyRecovery, Attempt, IsValidTransition, ValidTransitions
    <3>2. new \in SafetyState /\ Reachable(state, new)
      BY <2>1 DEF SafetyState, Reachable
    <3> QED
      BY <3>1, <3>2, TransitionKeepsStep
  <2>2. CASE state = "SAFE_STATE" /\ offline' = {}
    BY <2>2, BoundsAssumption
    DEF NotifyRecovery, CancelSafeStateTimer, StaleAfterCancel, Attempt, IsValidTransition, ValidTransitions,
        IInv, TypeOK, TimerInStep, ListenerInStep, TransitionInv, SafetyState
  <2>3. CASE UNCHANGED <<state, notified, timer, stale>>
    BY <2>3 DEF IInv, TypeOK, TimerInStep, ListenerInStep, TransitionInv
  <2> QED
    BY <2>1, <2>2, <2>3 DEF NotifyRecovery
<1>4. record' \in Record
  BY <1>3, OtherRecordType DEF NotifyRecovery, TransitionInv
<1>5. NormalHasNoOfflineNode'
  BY <1>1, <1>2 DEF IInv, NormalHasNoOfflineNode
<1>6. OutageHandled'
  <2>1. CASE offline' = {}
    <3>1. ~ OutageOf(offline')
      BY <2>1, NoOutage
    <3> QED
      BY <3>1 DEF OutageHandled, OutageOf
  <2>2. CASE state' = state
    <3>1. OutageOf(offline') => OutageOf(offline)
      BY <1>0, <1>1, OutageMonotone
    <3> QED
      BY <2>2, <3>1 DEF IInv, OutageHandled, OutageOf
  <2> QED
    BY <1>2, <2>1, <2>2
<1> QED
  BY <1>1, <1>3, <1>4, <1>5, <1>6 DEF IInv, TypeOK, TransitionInv

\* reset() keeps IInv.
LEMMA ResetStep == ASSUME IInv, Reset PROVE IInv'
<1>1. ~ OutageOf(offline')
  BY NoOutage DEF Reset
<1>2. OutageHandled'
  BY <1>1 DEF OutageHandled, OutageOf
<1>3. crc' \in [Source -> 0..MaxCrcCount] /\ record' \in Record
  BY BoundsAssumption DEF Reset, IInv, TypeOK
<1>4. TransitionInv'
  BY BoundsAssumption
  DEF Reset, CancelSafeStateTimer, StaleAfterCancel, IInv, TypeOK, TimerInStep,
      ListenerInStep, TransitionInv, SafetyState
<1> QED
  BY <1>2, <1>3, <1>4
  DEF Reset, IInv, TypeOK, TransitionInv, NormalHasNoOfflineNode

\* What the timeout handler does, whichever timer started it.
LEMMA TimeoutEffect ==
  ASSUME IInv, SafeStateTimeout
  PROVE  /\ \/ state' = state
            \/ state = "SAFE_STATE" /\ state' = "FAIL_SILENT"
         /\ state # "SAFE_STATE" => state' = state
         /\ state = "SAFE_STATE" => state' = "FAIL_SILENT"
         /\ state' \in SafetyState /\ ListenerInStep' /\ record' \in Record
         /\ NormalHasNoOfflineNode' /\ OutageHandled'
         /\ UNCHANGED <<offline, crc>>
<1>1. /\ state # "SAFE_STATE" => state' = state
      /\ state = "SAFE_STATE" => state' = "FAIL_SILENT"
      /\ UNCHANGED <<offline, crc>>
  BY DEF SafeStateTimeout, Attempt, IsValidTransition, ValidTransitions
<1>2. state' \in SafetyState /\ ListenerInStep'
  BY <1>1 DEF SafeStateTimeout, IInv, TypeOK, ListenerInStep, SafetyState
<1>3. record' \in Record
  BY <1>2, OtherRecordType DEF SafeStateTimeout, IInv, TypeOK
<1>4. NormalHasNoOfflineNode' /\ OutageHandled'
  BY <1>1 DEF IInv, NormalHasNoOfflineNode, OutageHandled, OutageOf
<1> QED
  BY <1>1, <1>2, <1>3, <1>4

\* The timer thread keeps IInv, its stale handlers too.
LEMMA TimerStep ==
  ASSUME IInv, TimerFires \/ TimeoutHandler \/ StaleTimeoutHandler
  PROVE  IInv'
<1>1. CASE TimerFires
  BY <1>1 DEF TimerFires, IInv, TypeOK, TimerInStep, ListenerInStep, NormalHasNoOfflineNode,
              OutageHandled, OutageOf
<1>2. CASE TimeoutHandler
  <2>1. timer' = "spent" /\ stale' = stale /\ SafeStateTimeout
    BY <1>2 DEF TimeoutHandler
  <2>2. TimerInStep'
    BY <2>1, <1>2, TimeoutEffect DEF TimeoutHandler, IInv, TypeOK, TimerInStep
  <2> QED
    BY <2>1, <2>2, TimeoutEffect DEF IInv, TypeOK, ListenerInStep
<1>3. CASE StaleTimeoutHandler
  <2>1. timer' = timer /\ stale' = stale - 1 /\ stale' \in 0..MaxStale /\ SafeStateTimeout
    BY <1>3, BoundsAssumption DEF StaleTimeoutHandler, IInv, TypeOK
  <2>2. TimerInStep'
    BY <2>1, TimeoutEffect, BoundsAssumption DEF IInv, TypeOK, TimerInStep
  <2> QED
    BY <2>1, <2>2, TimeoutEffect DEF IInv, TypeOK, ListenerInStep
<1> QED
  BY <1>1, <1>2, <1>3

\* IInv is about the variables of the safety manager only.
LEMMA StutterStep == ASSUME IInv, UNCHANGED managerVars PROVE IInv'
BY DEF managerVars, IInv, TypeOK, TimerInStep, ListenerInStep, NormalHasNoOfflineNode,
       OutageHandled, OutageOf

\* IInv is inductive.
THEOREM Invariance == Spec => []IInv
<1>1. IInv /\ [Next]_managerVars => IInv'
  BY FaultStep, RecoveryStep, ResetStep, TimerStep, StutterStep DEF Next
<1> QED
  BY <1>1, InitIInv, PTL DEF Spec

\* safety_manager.py: every variable of the manager keeps its type.
THEOREM TypeCorrect == Spec => []TypeOK
<1>1. IInv => TypeOK
  BY DEF IInv
<1> QED
  BY <1>1, Invariance, PTL

\* safety_manager.py: NORMAL is never claimed with a node known to be offline.
THEOREM NormalIsHealthy == Spec => []NormalHasNoOfflineNode
<1>1. IInv => NormalHasNoOfflineNode
  BY DEF IInv
<1> QED
  BY <1>1, Invariance, PTL

\* safety_manager.py: an outage of half of the nodes is at least SAFE_STATE.
THEOREM OutageSafety == Spec => []OutageIsSafe
<1>1. IInv => OutageIsSafe
  <2> SUFFICES ASSUME IInv PROVE OutageIsSafe
    OBVIOUS
  <2>1. IsFiniteSet(offline)
    BY FS_Subset, SourceAssumption DEF IInv, TypeOK
  <2>2. Cardinality(offline) \in Nat
    BY <2>1, FS_CardinalityType
  <2>3. 2 * Cardinality(offline) >= TotalNodes => OutageOf(offline)
    BY <2>2, TotalNodesAssumption DEF OutageOf, OFFLINE_PERCENT_THRESHOLD
  <2> QED
    BY <2>3 DEF IInv, OutageHandled, OutageIsSafe
<1> QED
  BY <1>1, Invariance, PTL

\* safety_manager.py: SAFE_STATE always has its timer, NORMAL and DEGRADED none.
THEOREM TimerSafety == Spec => []TimerInStep
<1>1. IInv => TimerInStep
  BY DEF IInv
<1> QED
  BY <1>1, Invariance, PTL

\* safety_manager.py: on_state_change has told its listener the state.
THEOREM ListenerSafety == Spec => []ListenerInStep
<1>1. IInv => ListenerInStep
  BY DEF IInv
<1> QED
  BY <1>1, Invariance, PTL
-----------------------------------------------------------------------------
\* The invariant is the adequacy SafetyFSM asks of every step.
LEMMA AdequateNext ==
  ASSUME IInv'
  PROVE  FSM!Adequate(state', offline')
<1>1. OutageOf(offline') => state' \in {"SAFE_STATE", "FAIL_SILENT"}
  BY DEF IInv, OutageHandled, OutageOf
<1> QED
  BY <1>1 DEF FSM!Adequate, IInv, NormalHasNoOfflineNode

\* A fault report is a Fault of SafetyFSM, whatever the rule.
LEMMA FaultRefines ==
  ASSUME IInv, IInv', NEW f \in FaultType, NEW s \in Source, NEW a \in Asil,
         NotifyFault(f, s, a)
  PROVE  FSM!Fault
<1>0. state \in SafetyState /\ state' \in SafetyState /\ offline' \subseteq Source
  BY DEF IInv, TypeOK
<1>1. offline \subseteq offline'
  BY DEF NotifyFault, HandleNodeFault, HandleCrcFailure, HandleTimeout,
         HandleSensorPlausibility, HandleDegradingFault, HandleSafeStateFault
<1>2. \/ state' = state
      \/ state = "NORMAL" /\ state' \in {"DEGRADED", "SAFE_STATE"}
      \/ state = "DEGRADED" /\ state' = "SAFE_STATE"
  BY <1>0 DEF NotifyFault, HandleNodeFault, HandleCrcFailure, HandleTimeout,
         HandleSensorPlausibility, HandleDegradingFault, HandleSafeStateFault,
         TransitionTo, Attempt, IsValidTransition, ValidTransitions, SafetyState, Asil
<1>3. /\ FSM!Severity(state') >= FSM!Severity(state)
      /\ state' = "FAIL_SILENT" => state = "FAIL_SILENT"
  BY <1>0, <1>2 DEF FSM!Severity, SafetyState
<1>4. FSM!Adequate(state', offline')
  BY AdequateNext
<1> QED
  BY <1>0, <1>1, <1>3, <1>4 DEF FSM!Fault, FSM!SafetyState, SafetyState

\* notify_recovery is a Recovery of SafetyFSM.
LEMMA RecoveryRefines ==
  ASSUME IInv, IInv', NEW s \in Source, NotifyRecovery(s)
  PROVE  FSM!Recovery
<1>1. offline' \subseteq offline
  BY DEF NotifyRecovery
<1>2. \/ state' = state
      \/ state \in {"DEGRADED", "SAFE_STATE"} /\ state' = "NORMAL"
  BY DEF NotifyRecovery, NoFaultLeft, TransitionTo, Attempt, IsValidTransition, ValidTransitions
<1> QED
  BY <1>1, <1>2, AdequateNext DEF FSM!Recovery

\* A handler of the timer is an Expiry of SafetyFSM or changes nothing there.
LEMMA TimerRefines ==
  ASSUME IInv, TimerFires \/ TimeoutHandler \/ StaleTimeoutHandler
  PROVE  FSM!Expiry \/ UNCHANGED FSM!fsmVars
BY TimeoutEffect
DEF TimerFires, TimeoutHandler, StaleTimeoutHandler, FSM!Expiry, FSM!fsmVars

\* safety_manager.py: the manager implements the promise of SafetyFSM.
THEOREM Refinement == Spec => ImplementsFSM
<1>1. Init => FSM!FSMInit
  BY DEF Init, FSM!FSMInit
<1>2. IInv /\ IInv' /\ [Next]_managerVars => [FSM!FSMNext]_(FSM!fsmVars)
  <2> SUFFICES ASSUME IInv, IInv', [Next]_managerVars
               PROVE  FSM!FSMNext \/ UNCHANGED FSM!fsmVars
    OBVIOUS
  <2>1. ASSUME NEW f \in FaultType, NEW s \in Source, NEW a \in Asil, NotifyFault(f, s, a)
        PROVE  FSM!FSMNext
    BY <2>1, FaultRefines DEF FSM!FSMNext
  <2>2. ASSUME NEW s \in Source, NotifyRecovery(s)
        PROVE  FSM!FSMNext
    BY <2>2, RecoveryRefines DEF FSM!FSMNext
  <2>3. CASE Reset
    BY <2>3 DEF Reset, FSM!FSMNext, FSM!Restart
  <2>4. CASE TimerFires \/ TimeoutHandler \/ StaleTimeoutHandler
    BY <2>4, TimerRefines DEF FSM!FSMNext
  <2>5. CASE UNCHANGED managerVars
    BY <2>5 DEF managerVars, FSM!fsmVars
  <2> QED
    BY <2>1, <2>2, <2>3, <2>4, <2>5 DEF Next
<1> QED
  BY <1>1, <1>2, Invariance, PTL DEF Spec, ImplementsFSM, FSM!FSMSpec

\* safety_manager.py: only reset() leaves FAIL_SILENT, and it starts afresh.
THEOREM FailSilentSticky == Spec => FailSilentUntilReset
<1> DEFINE Sticky == state = "FAIL_SILENT" /\ state' # "FAIL_SILENT" =>
                       /\ state' = "NORMAL" /\ offline' = {} /\ timer' = "none"
                       /\ \A s \in Source : crc'[s] = 0
                       /\ UNCHANGED record
<1>1. IInv /\ [Next]_managerVars => [Sticky]_managerVars
  <2> SUFFICES ASSUME IInv, [Next]_managerVars, state = "FAIL_SILENT", state' # "FAIL_SILENT"
               PROVE  Reset
    BY DEF Reset, CancelSafeStateTimer
  <2>1. ASSUME NEW f \in FaultType, NEW s \in Source, NEW a \in Asil, NotifyFault(f, s, a)
        PROVE  FALSE
    BY <2>1 DEF NotifyFault, HandleNodeFault, HandleCrcFailure, HandleTimeout,
         HandleSensorPlausibility, HandleDegradingFault, HandleSafeStateFault,
         TransitionTo, Attempt, IsValidTransition, ValidTransitions, Asil
  <2>2. ASSUME NEW s \in Source, NotifyRecovery(s)
        PROVE  FALSE
    BY <2>2 DEF NotifyRecovery
  <2>3. CASE TimerFires \/ TimeoutHandler \/ StaleTimeoutHandler
    BY <2>3, TimeoutEffect DEF TimerFires, TimeoutHandler, StaleTimeoutHandler
  <2>4. CASE UNCHANGED managerVars
    BY <2>4 DEF managerVars
  <2> QED
    BY <2>1, <2>2, <2>3, <2>4 DEF Next
<1> QED
  BY <1>1, Invariance, PTL DEF Spec, FailSilentUntilReset
-----------------------------------------------------------------------------
(***************************************************************************)
(* The supervisor.  Everything it and the others do is a step of the       *)
(* safety manager or none of its business, so what is proved of the        *)
(* manager holds beside it.  Its own invariant says of a channel how its   *)
(* status, failures and checker belong together, and that the monitor's    *)
(* list of late channels holds no channel that has been heard again.       *)
(***************************************************************************)
ChannelTypes ==
  /\ registered \subseteq Channel
  /\ status \in [Channel -> E2EStatus]
  /\ failures \in [Channel -> 0..ERROR_THRESHOLD]
  /\ checker \in [Channel -> Checker]
  /\ late \in [Channel -> BOOLEAN]
  /\ wedged \in BOOLEAN /\ running \in BOOLEAN
  /\ monitor \in {"asleep", "waiting", "loop"}
  /\ due \subseteq registered /\ todo \subseteq registered

ChannelInv(c) ==
  /\ status[c] = "ERROR" <=> failures[c] >= ERROR_THRESHOLD
  /\ status[c] = "VALID" => failures[c] = 0 /\ checker[c].last # NoSeq
  /\ status[c] \in {"INVALID", "TIMEOUT"} => failures[c] > 0
  /\ c \in due => late[c]

SupervisorInv == ChannelTypes /\ \A c \in Channel : ChannelInv(c)

\* What the supervisor reports is a fault that the safety manager knows.
LEMMA FailIsFault ==
  ASSUME NEW c \in Channel, NEW new,
         NEW f \in {"CRC_FAILURE", "SEQ_ERROR", "TIMEOUT"}, Fail(c, new, f)
  PROVE  Next
<1>1. c \in Source /\ f \in FaultType /\ "other" \in Asil /\ NotifyFault(f, c, "other")
  BY ChannelAssumption DEF FaultType, DegradingFaults, Asil, Fail
<1> QED
  BY <1>1 DEF Next

\* Every step beside the safety manager is one of its steps or leaves it alone.
LEMMA StepOfManager ==
  ASSUME SupervisorNext
  PROVE  Next \/ UNCHANGED managerVars
<1>1. ASSUME NEW c \in Channel, RegisterChannel(c) \/ OnUnregistered(c) \/ DeadlinePasses(c)
      PROVE  UNCHANGED managerVars
  BY <1>1 DEF RegisterChannel, OnUnregistered, DeadlinePasses
<1>2. ASSUME NEW c \in Channel, NEW seq \in 0..(SeqMod - 1), NEW crcOk \in BOOLEAN,
             OnMessageReceived(c, seq, crcOk)
      PROVE  Next \/ UNCHANGED managerVars
  BY <1>2, FailIsFault DEF OnMessageReceived, SequenceChecked, CrcFailure, Accept
<1>3. CASE StartMonitoring \/ StopMonitoring \/ ReadClock \/ TakeLock \/ EndRound
  BY <1>3 DEF StartMonitoring, StopMonitoring, ReadClock, TakeLock, EndRound
<1>4. ASSUME NEW c \in Channel, CheckChannel(c)
      PROVE  Next \/ UNCHANGED managerVars
  BY <1>4, FailIsFault DEF CheckChannel, ChannelTimesOut
<1>5. ASSUME NEW f \in OtherFault, NEW s \in Source, NEW a \in Asil, OthersReport(f, s, a)
      PROVE  Next
  BY <1>5, OtherFaultAssumption DEF OthersReport, Next
<1>6. CASE OthersRecover
  BY <1>6 DEF OthersRecover, Next
<1>7. CASE ManagerTimers
  BY <1>7 DEF ManagerTimers, Next
<1> QED
  BY <1>1, <1>2, <1>3, <1>4, <1>5, <1>6, <1>7 DEF SupervisorNext, Monitor

\* e2e_supervisor.py, safety_manager.py: with the supervisor, its monitor thread and
\* any other callers around it, the safety manager does nothing that it would not
\* do alone, so all that is proved of it above holds in their company.
THEOREM ManagerIsUndisturbed == SupervisorSpec => Spec
<1>1. SupervisorInit => Init
  BY DEF SupervisorInit
<1>2. [SupervisorNext]_vars => [Next]_managerVars
  BY StepOfManager DEF vars
<1> QED
  BY <1>1, <1>2, PTL DEF SupervisorSpec, Spec
-----------------------------------------------------------------------------
\* e2e_protection.py, check: a message leaves a checker that has seen a message.
LEMMA CheckNextFacts ==
  ASSUME NEW chk \in Checker, NEW seq \in 0..(SeqMod - 1)
  PROVE  CheckNext(chk, seq) \in Checker /\ CheckNext(chk, seq).last # NoSeq
<1>1. Counted(chk) \in 0..InitCount /\ 1 \in 0..InitCount
  BY SeqModAssumption, SMT DEF Counted, Checker
<1>2. seq # NoSeq /\ seq \in {NoSeq} \cup 0..(SeqMod - 1)
  BY SeqModAssumption, SMT DEF NoSeq
<1>3. CASE chk.last = NoSeq
  <2>1. CheckNext(chk, seq) = [last |-> seq, valid |-> 1]
    BY <1>3 DEF CheckNext
  <2> QED
    BY <1>1, <1>2, <2>1 DEF Checker
<1>4. CASE chk.last # NoSeq /\ Delta(chk, seq) = 1
  <2>1. CheckNext(chk, seq) = [last |-> seq, valid |-> Counted(chk)]
    BY <1>4 DEF CheckNext
  <2> QED
    BY <1>1, <1>2, <2>1 DEF Checker
<1>5. CASE chk.last # NoSeq /\ Delta(chk, seq) # 1
  <2>1. CheckNext(chk, seq) = [chk EXCEPT !.last = seq]
    BY <1>5 DEF CheckNext
  <2> QED
    BY <1>2, <2>1 DEF Checker
<1> QED
  BY <1>3, <1>4, <1>5

\* One more failure of a channel leaves its status and its count in step.
LEMMA FailStep ==
  ASSUME SupervisorInv, NEW c \in Channel, NEW new \in {"INVALID", "TIMEOUT"}, NEW f,
         Fail(c, new, f)
  PROVE  /\ failures' \in [Channel -> 0..ERROR_THRESHOLD]
         /\ status' \in [Channel -> E2EStatus]
         /\ failures'[c] > 0 /\ status'[c] \in {"ERROR", new}
         /\ status'[c] = "ERROR" <=> failures'[c] >= ERROR_THRESHOLD
         /\ \A d \in Channel : d # c => failures'[d] = failures[d] /\ status'[d] = status[d]
         /\ UNCHANGED <<registered, late>>
<1> DEFINE count == IF failures[c] < ERROR_THRESHOLD THEN failures[c] + 1 ELSE failures[c]
<1>1. /\ failures \in [Channel -> 0..ERROR_THRESHOLD] /\ status \in [Channel -> E2EStatus]
  BY DEF SupervisorInv, ChannelTypes
<1>2. count \in 0..ERROR_THRESHOLD /\ count > 0
  BY <1>1, SMT DEF ERROR_THRESHOLD
<1>3. /\ failures' = [failures EXCEPT ![c] = count]
      /\ status' = [status EXCEPT ![c] = UpdatedStatus(count, new)]
      /\ UNCHANGED <<registered, late>>
  BY DEF Fail
<1>4. /\ UpdatedStatus(count, new) \in {"ERROR", new}
      /\ UpdatedStatus(count, new) = "ERROR" <=> count >= ERROR_THRESHOLD
      /\ UpdatedStatus(count, new) \in E2EStatus
  BY DEF UpdatedStatus, E2EStatus
<1> HIDE DEF count
<1> QED
  BY <1>1, <1>2, <1>3, <1>4

\* What on_message_received does keeps the supervisor's invariant.
LEMMA MessageStep ==
  ASSUME SupervisorInv, NEW c \in Channel, NEW seq \in 0..(SeqMod - 1), NEW crcOk \in BOOLEAN,
         OnMessageReceived(c, seq, crcOk)
  PROVE  SupervisorInv'
<1>1. ChannelTypes /\ \A d \in Channel : ChannelInv(d)
  BY DEF SupervisorInv
<1>2. /\ c \in registered /\ UNCHANGED <<wedged, monitor, todo, running>>
  BY DEF OnMessageReceived, monitorVars
<1>3. CASE CrcFailure(c)
  <2>1. Fail(c, "INVALID", "CRC_FAILURE") /\ UNCHANGED <<checker, due>>
    BY <1>3 DEF CrcFailure
  <2> QED
    BY <1>1, <1>2, <2>1, FailStep DEF SupervisorInv, ChannelTypes, ChannelInv
<1>4. CASE SequenceChecked(c, seq)
  <2>1. /\ checker' = [checker EXCEPT ![c] = CheckNext(checker[c], seq)]
        /\ checker[c] \in Checker
    BY <1>1, <1>4 DEF SequenceChecked, ChannelTypes
  <2>2. /\ checker' \in [Channel -> Checker] /\ checker'[c].last # NoSeq
        /\ \A d \in Channel : d # c => checker'[d] = checker[d]
    BY <1>1, <2>1, CheckNextFacts DEF ChannelTypes
  <2>3. CASE Accept(c)
    <3>1. /\ failures' = [failures EXCEPT ![c] = 0] /\ late' = [late EXCEPT ![c] = FALSE]
          /\ due' = due \ {c} /\ status' = [status EXCEPT ![c] = "VALID"]
          /\ UNCHANGED registered
      BY <2>3 DEF Accept
    <3>2. ChannelTypes'
      BY <1>1, <1>2, <2>2, <3>1, SMT DEF ChannelTypes, E2EStatus, ERROR_THRESHOLD
    <3>3. ASSUME NEW d \in Channel PROVE ChannelInv(d)'
      BY <1>1, <2>2, <3>1, SMT DEF ChannelTypes, ChannelInv, ERROR_THRESHOLD
    <3> QED
      BY <3>2, <3>3 DEF SupervisorInv
  <2>4. CASE UNCHANGED <<registered, status, failures, late, due>>
    BY <1>1, <1>2, <2>2, <2>4 DEF SupervisorInv, ChannelTypes, ChannelInv
  <2>5. CASE Fail(c, "INVALID", "SEQ_ERROR") /\ UNCHANGED due
    BY <1>1, <1>2, <2>2, <2>5, FailStep DEF SupervisorInv, ChannelTypes, ChannelInv
  <2> QED
    BY <1>4, <2>3, <2>4, <2>5 DEF SequenceChecked
<1> QED
  BY <1>3, <1>4 DEF OnMessageReceived

\* Registering a channel keeps the supervisor's invariant.
LEMMA RegisterStep ==
  ASSUME SupervisorInv, NEW c \in Channel, RegisterChannel(c)
  PROVE  SupervisorInv'
<1>1. NewChecker \in Checker
  BY SeqModAssumption, SMT DEF NewChecker, Checker
<1>2. /\ registered' = registered \cup {c} /\ status' = [status EXCEPT ![c] = "INIT"]
      /\ failures' = [failures EXCEPT ![c] = 0] /\ checker' = [checker EXCEPT ![c] = NewChecker]
      /\ late' = [late EXCEPT ![c] = FALSE] /\ due' = due \ {c}
      /\ UNCHANGED <<wedged, monitor, todo, running>>
  BY DEF RegisterChannel, monitorVars
<1>3. ChannelTypes'
  BY <1>1, <1>2, SMT DEF SupervisorInv, ChannelTypes, E2EStatus, ERROR_THRESHOLD
<1>4. ASSUME NEW d \in Channel PROVE ChannelInv(d)'
  BY <1>2, SMT DEF SupervisorInv, ChannelTypes, ChannelInv, ERROR_THRESHOLD
<1> QED
  BY <1>3, <1>4 DEF SupervisorInv

\* One channel's turn in check_timeouts keeps the supervisor's invariant.
LEMMA CheckChannelStep ==
  ASSUME SupervisorInv, NEW c \in Channel, CheckChannel(c)
  PROVE  SupervisorInv'
<1>1. ChannelTypes /\ \A d \in Channel : ChannelInv(d)
  BY DEF SupervisorInv
<1>2. /\ todo' = todo \ {c} /\ UNCHANGED <<checker, due, wedged, monitor, running>>
  BY DEF CheckChannel
<1>3. CASE Fail(c, "TIMEOUT", "TIMEOUT")
  BY <1>1, <1>2, <1>3, FailStep DEF SupervisorInv, ChannelTypes, ChannelInv
<1>4. CASE UNCHANGED <<registered, status, failures, late>>
  BY <1>1, <1>2, <1>4 DEF SupervisorInv, ChannelTypes, ChannelInv
<1> QED
  BY <1>3, <1>4 DEF CheckChannel, ChannelTimesOut

\* The steps that leave the channels' states alone, except for a deadline.
LEMMA OtherSteps ==
  ASSUME SupervisorInv,
         \/ \E c \in Channel : OnUnregistered(c) \/ DeadlinePasses(c)
         \/ StartMonitoring \/ StopMonitoring \/ ReadClock \/ TakeLock \/ EndRound
         \/ UNCHANGED supervisorVars
  PROVE  SupervisorInv'
BY DEF OnUnregistered, DeadlinePasses, StartMonitoring, StopMonitoring, ReadClock, TakeLock,
       EndRound, supervisorVars, channelVars, monitorVars, SupervisorInv, ChannelTypes, ChannelInv

\* The supervisor's invariant is inductive.
LEMMA SupervisorInvariance == SupervisorSpec => []SupervisorInv
<1>1. SupervisorInit => SupervisorInv
  <2>1. NewChecker \in Checker
    BY SeqModAssumption, SMT DEF NewChecker, Checker
  <2>2. 0 \in 0..ERROR_THRESHOLD /\ ~ (0 >= ERROR_THRESHOLD)
    BY SMT DEF ERROR_THRESHOLD
  <2> QED
    BY <2>1, <2>2 DEF SupervisorInit, SupervisorInv, ChannelTypes, ChannelInv, E2EStatus
<1>2. SupervisorInv /\ [SupervisorNext]_vars => SupervisorInv'
  <2> SUFFICES ASSUME SupervisorInv, [SupervisorNext]_vars
               PROVE  SupervisorInv'
    OBVIOUS
  <2>1. CASE \E c \in Channel : RegisterChannel(c)
    BY <2>1, RegisterStep
  <2>2. CASE \E c \in Channel, seq \in 0..(SeqMod - 1), crcOk \in BOOLEAN :
               OnMessageReceived(c, seq, crcOk)
    BY <2>2, MessageStep
  <2>3. CASE \E c \in Channel : CheckChannel(c)
    BY <2>3, CheckChannelStep
  <2>4. CASE UNCHANGED supervisorVars
    BY <2>4, OtherSteps
  <2> QED
    BY <2>1, <2>2, <2>3, <2>4, OtherSteps
    DEF SupervisorNext, Monitor, OthersReport, OthersRecover, ManagerTimers, vars
<1> QED
  BY <1>1, <1>2, PTL DEF SupervisorSpec

\* e2e_supervisor.py: every variable of the supervisor and of the manager beside it
\* keeps its type, and the monitor works on registered channels only.
THEOREM SupervisorTypeCorrect == SupervisorSpec => []SupervisorTypeOK
<1>1. TypeOK /\ SupervisorInv => SupervisorTypeOK
  BY DEF SupervisorInv, ChannelTypes, SupervisorTypeOK
<1> QED
  BY <1>1, ManagerIsUndisturbed, TypeCorrect, SupervisorInvariance, PTL

\* e2e_supervisor.py, _update_status: with any number of channels, a channel is in
\* ERROR exactly when its last ERROR_THRESHOLD checks failed, and VALID only after
\* a message that was accepted.
THEOREM StatusSafety == SupervisorSpec => []StatusMatchesFailures
<1>1. SupervisorInv => StatusMatchesFailures
  BY DEF SupervisorInv, ChannelInv, StatusMatchesFailures
<1> QED
  BY <1>1, SupervisorInvariance, PTL

\* The only step that gives a channel one failure more, with which effects.
LEMMA FailureEffects ==
  ASSUME SupervisorInv, SupervisorNext, NEW c \in Channel, failures'[c] > failures[c]
  PROVE  \/ /\ Fail(c, "INVALID", "CRC_FAILURE") /\ UNCHANGED checker
         \/ Fail(c, "INVALID", "SEQ_ERROR")
         \/ /\ Fail(c, "TIMEOUT", "TIMEOUT") /\ c \in due
<1>1. failures \in [Channel -> 0..ERROR_THRESHOLD] /\ failures[c] \in Nat
  BY SMT DEF SupervisorInv, ChannelTypes, ERROR_THRESHOLD
<1>2. failures' # failures
  BY <1>1, SMT
<1>3. ASSUME NEW d \in Channel, NEW new, NEW f, Fail(d, new, f)
      PROVE  d = c
  BY <1>1, <1>3, SMT DEF Fail
<1>4. ASSUME NEW d \in Channel, failures' = [failures EXCEPT ![d] = 0]
      PROVE  FALSE
  BY <1>1, <1>4, SMT
<1>5. ASSUME NEW d \in Channel, NEW seq \in 0..(SeqMod - 1), NEW crcOk \in BOOLEAN,
             OnMessageReceived(d, seq, crcOk)
      PROVE  \/ Fail(c, "INVALID", "CRC_FAILURE") /\ UNCHANGED checker
             \/ Fail(c, "INVALID", "SEQ_ERROR")
  BY <1>2, <1>3, <1>4, <1>5 DEF OnMessageReceived, SequenceChecked, CrcFailure, Accept
<1>6. ASSUME NEW d \in Channel, CheckChannel(d)
      PROVE  Fail(c, "TIMEOUT", "TIMEOUT") /\ c \in due
  BY <1>2, <1>3, <1>6 DEF CheckChannel, ChannelTimesOut
<1>7. ~ \E d \in Channel : RegisterChannel(d)
  BY <1>4 DEF RegisterChannel
<1> QED
  BY <1>2, <1>5, <1>6, <1>7
  DEF SupervisorNext, Monitor, OnUnregistered, DeadlinePasses, StartMonitoring,
      StopMonitoring, ReadClock, TakeLock, EndRound, OthersReport, OthersRecover,
      ManagerTimers, supervisorVars, channelVars

\* e2e_supervisor.py, check_timeouts: although the monitor reads the clock before it
\* has the lock, it reports a timeout only of a channel that is silent still.
THEOREM TimeoutSafety == SupervisorSpec => TimeoutIsReal
<1> DEFINE Real == \A c \in Channel :
             status'[c] = "TIMEOUT" /\ failures'[c] > failures[c] => late[c]
<1>1. SupervisorInv /\ [SupervisorNext]_vars => [Real]_vars
  <2> SUFFICES ASSUME SupervisorInv, SupervisorNext, NEW c \in Channel,
                      status'[c] = "TIMEOUT", failures'[c] > failures[c]
               PROVE  late[c]
    OBVIOUS
  <2>1. CASE Fail(c, "TIMEOUT", "TIMEOUT") /\ c \in due
    BY <2>1 DEF SupervisorInv, ChannelInv
  <2>2. ASSUME NEW f, Fail(c, "INVALID", f) PROVE FALSE
    BY <2>2, FailStep
  <2> QED
    BY <2>1, <2>2, FailureEffects
<1> QED
  BY <1>1, SupervisorInvariance, PTL DEF SupervisorSpec, TimeoutIsReal

\* e2e_supervisor.py, _report_fault: a timeout or a sequence error that the supervisor
\* counts leaves the safety manager in a state other than NORMAL.
THEOREM FailureSafety == SupervisorSpec => FailureDegrades
<1> DEFINE Degrades == \A c \in Channel :
             /\ failures'[c] > failures[c]
             /\ status'[c] = "TIMEOUT" \/ checker'[c] # checker[c]
             => state' # "NORMAL"
<1>1. TypeOK /\ SupervisorInv /\ [SupervisorNext]_vars => [Degrades]_vars
  <2> SUFFICES ASSUME TypeOK, SupervisorInv, SupervisorNext, NEW c \in Channel,
                      failures'[c] > failures[c],
                      status'[c] = "TIMEOUT" \/ checker'[c] # checker[c]
               PROVE  state' # "NORMAL"
    OBVIOUS
  <2>1. ~ (Fail(c, "INVALID", "CRC_FAILURE") /\ UNCHANGED checker)
    BY FailStep
  <2>2. CASE Fail(c, "INVALID", "SEQ_ERROR")
    BY <2>2 DEF Fail, NotifyFault, HandleDegradingFault, DegradingFaults, SafeStateFaults,
                TransitionTo, Attempt, IsValidTransition, ValidTransitions
  <2>3. CASE Fail(c, "TIMEOUT", "TIMEOUT")
    BY <2>3 DEF Fail, NotifyFault, HandleTimeout, DegradingFaults, SafeStateFaults,
                TransitionTo, Attempt, IsValidTransition, ValidTransitions
  <2> QED
    BY <2>1, <2>2, <2>3, FailureEffects
<1> QED
  BY <1>1, ManagerIsUndisturbed, TypeCorrect, SupervisorInvariance, PTL
  DEF SupervisorSpec, FailureDegrades
=============================================================================
