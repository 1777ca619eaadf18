------------------------ MODULE ControlNode_proofs ------------------------
(***************************************************************************)
(* Proofs about ControlNode, for every recovery count, timeout, width of   *)
(* the tick counter and speed of the main loop.                            *)
(***************************************************************************)
EXTENDS ControlNode, TLAPS

\* A record of the type that the safety manager's functions work on.
SafetyRecord == [state : SafetyState, faults : 0..FAULT_LIMIT, ok : 0..(RecoveryCount - 1),
                 age : 0..(TickMod - 1), led1 : BOOLEAN, led2 : BOOLEAN]

\* What a call of the safety manager may do: a silent node stays silent and lights
\* nothing, a node that becomes silent has its lights out, and a node that is
\* DEGRADED afterwards was so before and keeps its time, or starts at 0.
MayBecome(s, t) ==
  /\ t \in SafetyRecord
  /\ (t.led1 => s.led1) /\ (t.led2 => s.led2)
  /\ s.state \in Silent => t.state \in Silent
  /\ s.state = "FAIL_SILENT" => t.state = "FAIL_SILENT"
  /\ t.state \in Silent => s.state \in Silent \/ ~t.led1
  /\ t.state = "DEGRADED" => (s.state = "DEGRADED" /\ t.age = s.age) \/ t.age = 0

USE RecoveryAssumption, TimeAssumption

\* safety_report_fault does no more than it may.
LEMMA ReportFaultMay == ASSUME NEW s \in SafetyRecord PROVE MayBecome(s, ReportFault(s))
<1>. DEFINE n == Counted(s.faults)
           new == Escalated(s.state, n)
<1>1. n \in 0..FAULT_LIMIT
  BY DEF SafetyRecord, Counted, FAULT_LIMIT
<1>2. new \in SafetyState /\ (new = "DEGRADED" => s.state \in {"NORMAL", "DEGRADED"})
      /\ (s.state \in Silent => new = "FAIL_SILENT")
  BY DEF Escalated, SafetyRecord, SafetyState, Silent
<1>3. CASE s.state = "FAIL_SILENT"
  BY <1>3 DEF ReportFault, MayBecome, Silent
<1>4. CASE s.state # "FAIL_SILENT"
  <2>. DEFINE t == ReportFault(s)
  <2>1. t = [state |-> new, faults |-> n, ok |-> 0,
             age |-> IF s.state = "NORMAL" THEN 0 ELSE s.age,
             led1 |-> s.led1 /\ new \notin Silent, led2 |-> s.led2 /\ new \notin Silent]
    BY <1>4 DEF ReportFault
  <2>. HIDE DEF n, new, t
  <2>2. t \in SafetyRecord
    BY <2>1, <1>1, <1>2 DEF SafetyRecord
  <2>3. MayBecome(s, t)
    BY <2>1, <2>2, <1>2, <1>4 DEF MayBecome, SafetyRecord, SafetyState, Silent
  <2>. QED BY <2>3 DEF t
<1>. QED BY <1>3, <1>4

\* safety_report_ok does no more than it may.
LEMMA ReportOkMay == ASSUME NEW s \in SafetyRecord PROVE MayBecome(s, ReportOk(s))
<1>1. CASE s.state # "DEGRADED"
  BY <1>1 DEF ReportOk, MayBecome
<1>2. CASE s.state = "DEGRADED" /\ s.ok + 1 >= RecoveryCount
  <2>1. ReportOk(s) = [s EXCEPT !.state = "NORMAL", !.ok = 0]
    BY <1>2 DEF ReportOk
  <2>2. 0 \in 0..(RecoveryCount - 1) /\ "NORMAL" \in SafetyState
    BY DEF SafetyState
  <2>3. ReportOk(s) \in SafetyRecord
    BY <2>1, <2>2 DEF SafetyRecord
  <2>. QED BY <1>2, <2>1, <2>3 DEF MayBecome, SafetyRecord, SafetyState, Silent
<1>3. CASE s.state = "DEGRADED" /\ ~(s.ok + 1 >= RecoveryCount)
  <2>1. ReportOk(s) = [s EXCEPT !.ok = @ + 1]
    BY <1>3 DEF ReportOk
  <2>2. s.ok + 1 \in 0..(RecoveryCount - 1)
    BY <1>3 DEF SafetyRecord
  <2>. QED BY <1>3, <2>1, <2>2 DEF MayBecome, SafetyRecord, SafetyState, Silent
<1>. QED BY <1>1, <1>2, <1>3

\* Neither does a whole message, which may call both.
LEMMA DecodeMay ==
  ASSUME NEW s \in SafetyRecord, NEW v \in Verdict
  PROVE  MayBecome(s, Decode(s, v))
<1>1. MayBecome(s, s)
  BY DEF MayBecome, SafetyRecord
<1>2. MayBecome(s, ReportOk(s)) /\ MayBecome(s, ReportFault(s))
  BY ReportOkMay, ReportFaultMay
<1>3. MayBecome(s, ReportFault(ReportOk(s)))
  <2>1. ReportOk(s) \in SafetyRecord
    BY <1>2 DEF MayBecome
  <2>2. MayBecome(ReportOk(s), ReportFault(ReportOk(s)))
    BY <2>1, ReportFaultMay
  <2>. QED BY <1>2, <2>2 DEF MayBecome, SafetyRecord, Silent
<1>. QED BY <1>1, <1>2, <1>3 DEF Decode, Verdict
-----------------------------------------------------------------------------
\* A number below the modulus is its own remainder.
LEMMA ModSmall == ASSUME NEW x \in 0..(TickMod - 1) PROVE x % TickMod = x
  OBVIOUS

\* The moments of the main loop in which it has read the clock and not yet acted
\* on it.
BeforeCheck == {"tick", "elapsed", "tick_safe"}

\* In DEGRADED, at the loop's last reading of the clock the timeout was not over;
\* in the cycle that is about to find out, it was not over at the reading before.
DegradedIsSeen ==
  state = "DEGRADED" /\ pc # "stamp" =>
    age - lag < DegradedTimeout + (IF pc \in BeforeCheck THEN MaxLag ELSE 0)

IInv == TypeOK /\ HeadlightIsDark /\ DegradedIsSeen

\* The inductive invariant holds at the start.
LEMMA InitIInv == Init => IInv
<1>. SUFFICES ASSUME Init PROVE IInv
  OBVIOUS
<1>1. TypeOK
  <2>1. 0 \in 0..(RecoveryCount - 1) /\ 0 \in 0..(TickMod - 1) /\ 0 \in 0..MaxLag
    OBVIOUS
  <2>2. state \in SafetyState /\ faults \in 0..FAULT_LIMIT /\ reg \in 0..FAULT_LIMIT
    BY DEF Init, SafetyState, FAULT_LIMIT
  <2>3. pc \in MainStep \cup DOMAIN After
    BY DEF Init, MainStep
  <2>. QED BY <2>1, <2>2, <2>3 DEF Init, TypeOK
<1>2. HeadlightIsDark /\ DegradedIsSeen
  BY DEF Init, HeadlightIsDark, DegradedIsSeen
<1>. QED BY <1>1, <1>2 DEF IInv

\* A callback leaves the safety manager's variables where its calls may.
LEMMA SafetyType == TypeOK => Safety \in SafetyRecord
  BY DEF TypeOK, Safety, SafetyRecord

\* What a callback of either kind does to the variables.
LEMMA HandlerStep ==
  ASSUME TypeOK, NEW v \in Verdict, NEW c \in Command,
         HeadlightHandler(v, c) \/ HazardHandler(v, c)
  PROVE  /\ UNCHANGED <<pc, reg, lag>>
         /\ state' \in SafetyState /\ faults' \in 0..FAULT_LIMIT
         /\ ok' \in 0..(RecoveryCount - 1) /\ age' \in 0..(TickMod - 1)
         /\ led1' \in BOOLEAN /\ led2' \in BOOLEAN /\ hazard' \in BOOLEAN
         /\ state \in Silent => state' \in Silent
         /\ state = "FAIL_SILENT" => state' = "FAIL_SILENT"
         /\ state' \in Silent => (led1' => led1) /\ (led2' => led2)
         /\ state' \in Silent => state \in Silent \/ ~led1'
         /\ state' = "DEGRADED" => (state = "DEGRADED" /\ age' = age) \/ age' = 0
<1>. DEFINE s == Decode(Safety, v)
<1>1. MayBecome(Safety, s)
  BY DecodeMay, SafetyType
<1>2. Safety.state = state /\ Safety.age = age /\ Safety.led1 = led1 /\ Safety.led2 = led2
  BY DEF Safety
<1>3. s.state \in SafetyState /\ s.faults \in 0..FAULT_LIMIT /\ s.ok \in 0..(RecoveryCount - 1)
      /\ s.age \in 0..(TickMod - 1) /\ s.led1 \in BOOLEAN /\ s.led2 \in BOOLEAN
  BY <1>1 DEF MayBecome, SafetyRecord
<1>4. /\ (s.led1 => led1) /\ (s.led2 => led2)
      /\ state \in Silent => s.state \in Silent
      /\ state = "FAIL_SILENT" => s.state = "FAIL_SILENT"
      /\ s.state \in Silent => state \in Silent \/ ~s.led1
      /\ s.state = "DEGRADED" => (state = "DEGRADED" /\ s.age = age) \/ s.age = 0
  BY <1>1, <1>2 DEF MayBecome
<1>. HIDE DEF s
<1>5. ActuatorAllowed(s.state) => s.state \notin Silent
  BY DEF ActuatorAllowed, Silent
<1>6. CASE HeadlightHandler(v, c)
  <2>1. UNCHANGED <<pc, reg, lag, hazard>> /\ led2' = s.led2
        /\ state' = s.state /\ faults' = s.faults /\ ok' = s.ok /\ age' = s.age
    BY <1>6 DEF HeadlightHandler, SafetyBecomes, mainVars, s
  <2>2. led1' = s.led1 \/ (led1' = (c = "on") /\ s.state \notin Silent)
    BY <1>6, <1>5 DEF HeadlightHandler, s
  <2>. QED BY <2>1, <2>2, <1>3, <1>4 DEF TypeOK
<1>7. CASE HazardHandler(v, c)
  <2>1. UNCHANGED <<pc, reg, lag>> /\ led1' = s.led1
        /\ state' = s.state /\ faults' = s.faults /\ ok' = s.ok /\ age' = s.age
    BY <1>7 DEF HazardHandler, SafetyBecomes, mainVars, s
  <2>2. led2' \in BOOLEAN /\ (led2' => s.led2) /\ hazard' \in BOOLEAN
    BY <1>7 DEF HazardHandler, TypeOK, s
  <2>. QED BY <2>1, <2>2, <1>3, <1>4
<1>. QED BY <1>6, <1>7
-----------------------------------------------------------------------------
\* Every step keeps the types.
LEMMA NextType == TypeOK /\ [Next]_vars => TypeOK'
<1>. SUFFICES ASSUME TypeOK, [Next]_vars PROVE TypeOK'
  OBVIOUS
<1>. USE DEF TypeOK, MainStep, After, safetyVars, lights, mainVars, Goto
<1>1. ASSUME NEW v \in Verdict, NEW c \in Command, HeadlightHandler(v, c) \/ HazardHandler(v, c)
      PROVE  TypeOK'
  BY <1>1, HandlerStep
<1>2. CASE ReadNow
  BY <1>2 DEF ReadNow
<1>3. CASE TickState
  BY <1>3 DEF TickState
<1>4. CASE TickElapsed
  BY <1>4 DEF TickElapsed
<1>5. CASE EnterSafeState
  BY <1>5 DEF EnterSafeState, SafetyState
<1>6. CASE Led1Off
  <2>1. pc' \in {"tick_led2", "fault_led2"}
    BY <1>6 DEF Led1Off
  <2>2. led1' = FALSE /\ UNCHANGED <<safetyVars, led2, hazard, reg, lag>>
    BY <1>6 DEF Led1Off
  <2>. QED BY <2>1, <2>2
<1>17. CASE Led2Off
  <2>1. pc' \in {"test", "blink"}
    BY <1>17 DEF Led2Off
  <2>2. led2' = FALSE /\ UNCHANGED <<safetyVars, led1, hazard, reg, lag>>
    BY <1>17 DEF Led2Off
  <2>. QED BY <2>1, <2>2
<1>7. CASE PeriodicTest
  BY <1>7 DEF PeriodicTest
<1>8. CASE FaultCheck \/ FaultLoad
  BY <1>8 DEF FaultCheck, FaultLoad
<1>9. CASE FaultStore
  BY <1>9 DEF FaultStore, Counted, FAULT_LIMIT
<1>10. CASE FaultSwitch \/ FaultLimit
  BY <1>10 DEF FaultSwitch, FaultLimit, SafetyState
<1>11. CASE FaultDegrade \/ FaultStamp
  BY <1>11 DEF FaultDegrade, FaultStamp, SafetyState
<1>12. CASE FaultSilence
  BY <1>12 DEF FaultSilence, SafetyState
<1>13. CASE BlinkCheck
  BY <1>13 DEF BlinkCheck
<1>14. CASE ToggleRead \/ ToggleWrite \/ Sleep
  BY <1>14 DEF ToggleRead, ToggleWrite, Sleep
<1>15. CASE Tick
  BY <1>15 DEF Tick
<1>16. CASE UNCHANGED vars
  BY <1>16 DEF vars
<1>. QED BY <1>1, <1>2, <1>3, <1>4, <1>5, <1>6, <1>7, <1>8, <1>9, <1>10, <1>11, <1>12,
            <1>13, <1>14, <1>15, <1>16, <1>17 DEF Next, Main

\* No step lights the headlight of a silent node, or makes a node with a lit
\* headlight silent without being about to put it out.
LEMMA NextDark == TypeOK /\ HeadlightIsDark /\ [Next]_vars => HeadlightIsDark'
<1>. SUFFICES ASSUME TypeOK, HeadlightIsDark, [Next]_vars PROVE HeadlightIsDark'
  OBVIOUS
<1>. USE DEF HeadlightIsDark, safetyVars, lights, mainVars, Goto
<1>1. ASSUME NEW v \in Verdict, NEW c \in Command, HeadlightHandler(v, c) \/ HazardHandler(v, c)
      PROVE  HeadlightIsDark'
  BY <1>1, HandlerStep
<1>2. CASE ReadNow \/ TickState \/ TickElapsed \/ PeriodicTest
  BY <1>2 DEF ReadNow, TickState, TickElapsed, PeriodicTest
<1>3. CASE EnterSafeState
  BY <1>3 DEF EnterSafeState, After
<1>4. CASE Led1Off
  BY <1>4 DEF Led1Off
<1>5. CASE Led2Off \/ ToggleWrite
  BY <1>5 DEF Led2Off, ToggleWrite
<1>6. CASE FaultCheck \/ FaultLoad \/ FaultStore
  BY <1>6 DEF FaultCheck, FaultLoad, FaultStore
<1>7. CASE FaultSwitch \/ FaultLimit
  BY <1>7 DEF FaultSwitch, FaultLimit
<1>8. CASE FaultDegrade \/ FaultStamp
  BY <1>8 DEF FaultDegrade, FaultStamp, Silent
<1>9. CASE FaultSilence
  BY <1>9 DEF FaultSilence
<1>10. CASE BlinkCheck \/ ToggleRead \/ Sleep
  BY <1>10 DEF BlinkCheck, ToggleRead, Sleep
<1>11. CASE Tick
  BY <1>11 DEF Tick
<1>12. CASE UNCHANGED vars
  BY <1>12 DEF vars
<1>. QED BY <1>1, <1>2, <1>3, <1>4, <1>5, <1>6, <1>7, <1>8, <1>9, <1>10, <1>11, <1>12
         DEF Next, Main

\* The bound on age that DegradedIsSeen implies, below the modulus.
LEMMA SeenIsBounded ==
  ASSUME TypeOK, DegradedIsSeen, state = "DEGRADED", pc # "stamp"
  PROVE  age < DegradedTimeout + 2 * MaxLag /\ age + 1 \in 0..(TickMod - 1)
  BY DEF TypeOK, DegradedIsSeen

\* No step of DEGRADED goes on past a timeout that the loop has seen.
LEMMA NextSeen == TypeOK /\ DegradedIsSeen /\ [Next]_vars => DegradedIsSeen'
<1>. SUFFICES ASSUME TypeOK, DegradedIsSeen, [Next]_vars, state' = "DEGRADED", pc' # "stamp"
              PROVE  DegradedIsSeen'
  BY DEF DegradedIsSeen
<1>. USE DEF DegradedIsSeen, safetyVars, lights, mainVars, Goto, BeforeCheck
<1>1. ASSUME NEW v \in Verdict, NEW c \in Command, HeadlightHandler(v, c) \/ HazardHandler(v, c)
      PROVE  DegradedIsSeen'
  BY <1>1, HandlerStep DEF TypeOK
<1>2. CASE ReadNow
  BY <1>2 DEF ReadNow, TypeOK
<1>3. CASE TickState
  BY <1>3 DEF TickState, TypeOK
<1>4. CASE TickElapsed
  <2>1. CASE age >= lag
    <3>1. Elapsed = age - lag
      <4>1. age - lag \in 0..(TickMod - 1)
        BY <2>1 DEF TypeOK
      <4>. QED BY <4>1, ModSmall DEF Elapsed
    <3>. QED BY <1>4, <3>1 DEF TickElapsed, TimeoutIsOver, TypeOK
  <2>2. CASE age < lag
    BY <1>4, <2>2 DEF TickElapsed, TypeOK
  <2>. QED BY <2>1, <2>2 DEF TypeOK
<1>5. CASE EnterSafeState \/ FaultSilence
  BY <1>5 DEF EnterSafeState, FaultSilence
<1>6. CASE Led1Off
  BY <1>6 DEF Led1Off, After, TypeOK
<1>7. CASE Led2Off
  BY <1>7 DEF Led2Off, After, TypeOK
<1>8. CASE PeriodicTest \/ FaultCheck \/ FaultLoad \/ FaultStore
  BY <1>8 DEF PeriodicTest, FaultCheck, FaultLoad, FaultStore, TypeOK
<1>9. CASE FaultSwitch \/ FaultLimit
  BY <1>9 DEF FaultSwitch, FaultLimit, TypeOK, SafetyState
<1>10. CASE FaultDegrade \/ FaultStamp
  BY <1>10 DEF FaultDegrade, FaultStamp, TypeOK
<1>11. CASE BlinkCheck \/ ToggleRead \/ ToggleWrite \/ Sleep
  BY <1>11 DEF BlinkCheck, ToggleRead, ToggleWrite, Sleep, TypeOK
<1>12. CASE Tick
  <2>1. state = "DEGRADED" /\ pc # "stamp"
    BY <1>12 DEF Tick
  <2>2. age' = age + 1
    BY <1>12, <2>1, SeenIsBounded, ModSmall DEF Tick
  <2>. QED BY <1>12, <2>1, <2>2 DEF Tick, TypeOK
<1>13. CASE UNCHANGED vars
  BY <1>13 DEF vars
<1>. QED BY <1>1, <1>2, <1>3, <1>4, <1>5, <1>6, <1>7, <1>8, <1>9, <1>10, <1>11, <1>12,
            <1>13 DEF Next, Main
-----------------------------------------------------------------------------
\* The inductive invariant holds in every behaviour.
THEOREM Invariance == Spec => []IInv
<1>1. IInv /\ [Next]_vars => IInv'
  BY NextType, NextDark, NextSeen DEF IInv
<1>. QED BY InitIInv, <1>1, PTL DEF Spec

\* The types of the node's variables, with the recovery counter below its limit
\* and total_faults stored by two tasks.
THEOREM TypeCorrect == Spec => []TypeOK
  BY Invariance, PTL DEF IInv

\* In SAFE_STATE and FAIL_SILENT the headlight of the node is dark, wherever the
\* callbacks interrupt the main loop: safety_execute_safe_action has its way, against
\* the safe action that the documents and the master define for a headlight.
THEOREM HeadlightSafety == Spec => []HeadlightIsDark
  BY Invariance, PTL DEF IInv

\* safety_tick ends DEGRADED in time, for every width of the tick counter.
THEOREM DegradedSafety == Spec => []DegradedIsBounded
<1>1. IInv => DegradedIsBounded
  BY SeenIsBounded DEF IInv, DegradedIsBounded
<1>. QED BY Invariance, <1>1, PTL

\* No message revives a node in SAFE_STATE or FAIL_SILENT.
THEOREM MessageSafety == Spec => MessagesNeverRevive
<1>. DEFINE Dead == pc' = pc /\ state \in Silent =>
                      /\ state' \in Silent /\ (state = "FAIL_SILENT" => state' = "FAIL_SILENT")
                      /\ (led1' => led1) /\ (led2' => led2)
<1>1. TypeOK /\ [Next]_vars => [Dead]_vars
  <2>. SUFFICES ASSUME TypeOK, Next PROVE Dead
    OBVIOUS
  <2>. USE DEF safetyVars, lights, mainVars, Goto
  <2>1. ASSUME NEW v \in Verdict, NEW c \in Command,
               HeadlightHandler(v, c) \/ HazardHandler(v, c)
        PROVE  Dead
    BY <2>1, HandlerStep
  <2>2. CASE Main
    <3>1. pc' # pc
      BY <2>2 DEF Main, ReadNow, TickState, TickElapsed, EnterSafeState, Led1Off, Led2Off,
         PeriodicTest, FaultCheck, FaultLoad, FaultStore, FaultSwitch, FaultDegrade,
         FaultStamp, FaultLimit, FaultSilence, BlinkCheck, ToggleRead, ToggleWrite, Sleep, After, TypeOK, SafetyState, FAULT_LIMIT
    <3>. QED BY <3>1
  <2>3. CASE Tick
    BY <2>3 DEF Tick
  <2>. QED BY <2>1, <2>2, <2>3 DEF Next
<1>. QED BY TypeCorrect, <1>1, PTL DEF Spec, MessagesNeverRevive
=============================================================================
