---------------------------- MODULE ControlNode ----------------------------
(***************************************************************************)
(* The SAM E70 control node: the safety state machine of                   *)
(* firmware/sam-e70/safety_manager.c and its users in app_zenoh.c, the     *)
(* subscriber callbacks and the main loop of zenoh_task.                   *)
(*                                                                         *)
(* The callbacks run in the read task of zenoh-pico, which has a higher    *)
(* priority than zenoh_task, and nothing is locked: a callback may come    *)
(* between any two memory accesses of the main loop, and runs to its end   *)
(* before the loop goes on.  So a callback is one step, and the main loop  *)
(* takes a step, counted by pc, for each access that a callback can come   *)
(* before.                                                                 *)
(*                                                                         *)
(* Time is kept relative to the tick counter, modulo 2^32: lag is how many *)
(* ticks ago the loop read now, age how many ticks ago degraded_enter_tick *)
(* was set, so that now - degraded_enter_tick is age - lag.                *)
(*                                                                         *)
(* How a message is decoded is left to its verdict; whether the self-test  *)
(* and the blink interval are due is left open.  flow_verify_cycle always  *)
(* succeeds in this loop, which passes its four checkpoints in each cycle. *)
(***************************************************************************)
EXTENDS Integers

CONSTANTS RecoveryCount,    \* ASILD_RECOVERY_COUNT, 10
          DegradedTimeout,  \* ASILD_DEGRADED_TIMEOUT in ticks, 30000
          TickMod,          \* 2^32
          MaxLag            \* the loop reads the clock at least this often

ASSUME RecoveryAssumption == RecoveryCount \in Nat \ {0}
ASSUME TimeAssumption == /\ DegradedTimeout \in Nat \ {0} /\ MaxLag \in Nat
                         /\ TickMod \in Nat /\ TickMod > DegradedTimeout + 2 * MaxLag

VARIABLES
  state,      \* g_safety.state
  faults,     \* g_safety.total_faults, up to FAULT_LIMIT
  ok,         \* g_safety.consecutive_ok
  age,        \* ticks since degraded_enter_tick, modulo 2^32
  lag,        \* ticks since the main loop read now
  led1,       \* the headlight is lit
  led2,       \* the hazard light is lit
  hazard,     \* hazard_on
  pc,         \* the next access of the main loop
  reg         \* total_faults as the main loop loaded it

safetyVars == <<state, faults, ok, age>>
lights == <<led1, led2, hazard>>
mainVars == <<pc, reg, lag>>
vars == <<safetyVars, lights, mainVars>>

SafetyState == {"NORMAL", "DEGRADED", "SAFE_STATE", "FAIL_SILENT"}
Silent == {"SAFE_STATE", "FAIL_SILENT"}
FAULT_LIMIT == 4

\* What becomes of a message: too short to be looked at, rejected with a fault
\* (rate, MAC, freshness, CRC, sequence), too long for its buffer, for another
\* data_id, or accepted.
Verdict == {"short", "fault", "oversize", "wrong_id", "accepted"}
Command == {"on", "off", "other"}

\* After safety_self_test, which alone decides on the first state.
Init ==
  /\ state \in {"NORMAL", "SAFE_STATE"}
  /\ faults = 0 /\ ok = 0 /\ age = 0
  /\ led1 = FALSE /\ led2 = FALSE /\ hazard = FALSE
  /\ pc = "top" /\ reg = 0 /\ lag = 0
-----------------------------------------------------------------------------
(* The safety manager, as a callback runs it.  Safety is a record of what the *)
(* calls change, so that a callback can make several of them.                *)

Safety == [state |-> state, faults |-> faults, ok |-> ok, age |-> age,
           led1 |-> led1, led2 |-> led2]

Counted(n) == IF n < FAULT_LIMIT THEN n + 1 ELSE n

\* The state in which the n-th fault leaves the node.
Escalated(st, n) ==
  CASE st = "NORMAL" -> "DEGRADED"
    [] st = "DEGRADED" -> IF n >= FAULT_LIMIT THEN "SAFE_STATE" ELSE "DEGRADED"
    [] st \in Silent -> "FAIL_SILENT"

\* Mutant: the safe action is left out.
ReportFaultWithoutAction(s) ==
  LET n == Counted(s.faults)
  IN IF s.state = "FAIL_SILENT" THEN s
     ELSE [state |-> Escalated(s.state, n), faults |-> n, ok |-> 0,
           age |-> IF s.state = "NORMAL" THEN 0 ELSE s.age,
           led1 |-> s.led1, led2 |-> s.led2]

\* Both transitions to a silent state execute the safe action.
ReportFault(s) ==
  LET n == Counted(s.faults)
      new == Escalated(s.state, n)
  IN IF s.state = "FAIL_SILENT" THEN s
     ELSE [state |-> new, faults |-> n, ok |-> 0,
           age |-> IF s.state = "NORMAL" THEN 0 ELSE s.age,
           led1 |-> s.led1 /\ new \notin Silent, led2 |-> s.led2 /\ new \notin Silent]

\* Mutant: recovery from every state but FAIL_SILENT.
ReportOkAnywhere(s) ==
  IF s.state = "FAIL_SILENT" THEN s
  ELSE IF s.ok + 1 >= RecoveryCount THEN [s EXCEPT !.state = "NORMAL", !.ok = 0]
  ELSE [s EXCEPT !.ok = @ + 1]

\* Mutant: one message too many is asked for.
ReportOkTooLate(s) ==
  IF s.state # "DEGRADED" THEN s
  ELSE IF s.ok + 1 > RecoveryCount THEN [s EXCEPT !.state = "NORMAL", !.ok = 0]
  ELSE [s EXCEPT !.ok = @ + 1]

ReportOk(s) ==
  IF s.state # "DEGRADED" THEN s
  ELSE IF s.ok + 1 >= RecoveryCount THEN [s EXCEPT !.state = "NORMAL", !.ok = 0]
  ELSE [s EXCEPT !.ok = @ + 1]

ActuatorAllowed(st) == st \in {"NORMAL", "DEGRADED"}

\* decode_secure_message, and the check of the data_id that follows it.
Decode(s, verdict) ==
  CASE verdict = "accepted" -> ReportOk(s)
    [] verdict = "wrong_id" -> ReportFault(ReportOk(s))
    [] verdict = "fault" -> ReportFault(s)
    [] verdict \in {"short", "oversize"} -> s

SafetyBecomes(s) ==
  /\ state' = s.state /\ faults' = s.faults /\ ok' = s.ok /\ age' = s.age
-----------------------------------------------------------------------------
(* The subscriber callbacks *)

HeadlightHandler(verdict, command) ==
  LET s == Decode(Safety, verdict)
      obey == verdict = "accepted" /\ ActuatorAllowed(s.state) /\ command # "other"
  IN /\ SafetyBecomes(s)
     /\ led1' = IF obey THEN command = "on" ELSE s.led1
     /\ led2' = s.led2
     /\ UNCHANGED <<hazard, mainVars>>

HazardHandler(verdict, command) ==
  LET s == Decode(Safety, verdict)
      obey == verdict = "accepted" /\ ActuatorAllowed(s.state) /\ command # "other"
  IN /\ SafetyBecomes(s)
     /\ hazard' = IF obey THEN command = "on" ELSE hazard
     /\ led1' = s.led1
     /\ led2' = (s.led2 /\ ~(obey /\ command = "off"))
     /\ UNCHANGED mainVars
-----------------------------------------------------------------------------
(* The main loop *)

Goto(from, to) == pc = from /\ pc' = to

ReadNow ==
  /\ Goto("top", "tick")
  /\ lag' = 0
  /\ UNCHANGED <<safetyVars, lights, reg>>

\* safety_tick: the state, then the elapsed time, then the transition.
TickState ==
  /\ Goto("tick", IF state = "DEGRADED" THEN "elapsed" ELSE "test")
  /\ UNCHANGED <<safetyVars, lights, reg, lag>>

\* The unsigned current_tick - degraded_enter_tick.
Elapsed == (age - lag) % TickMod

\* Mutant: "equal" instead of "at least".
TimeoutIsNow == Elapsed = DegradedTimeout

TimeoutIsOver == Elapsed >= DegradedTimeout

TickElapsed ==
  /\ Goto("elapsed", IF TimeoutIsOver THEN "tick_safe" ELSE "test")
  /\ UNCHANGED <<safetyVars, lights, reg, lag>>

\* The transition to SAFE_STATE and its safe action, in safety_tick and in
\* safety_report_fault.
After == [tick_safe |-> "tick_led1", tick_led1 |-> "tick_led2", tick_led2 |-> "test",
          fault_safe |-> "fault_led1", fault_led1 |-> "fault_led2", fault_led2 |-> "blink"]

EnterSafeState ==
  /\ pc \in {"tick_safe", "fault_safe"} /\ pc' = After[pc]
  /\ state' = "SAFE_STATE"
  /\ UNCHANGED <<faults, ok, age, lights, reg, lag>>

Led1Off ==
  /\ pc \in {"tick_led1", "fault_led1"} /\ pc' = After[pc]
  /\ led1' = FALSE
  /\ UNCHANGED <<safetyVars, led2, hazard, reg, lag>>

Led2Off ==
  /\ pc \in {"tick_led2", "fault_led2"} /\ pc' = After[pc]
  /\ led2' = FALSE
  /\ UNCHANGED <<safetyVars, led1, hazard, reg, lag>>

\* safety_periodic_test is not due or passes, or it fails and reports.
PeriodicTest ==
  /\ pc = "test" /\ pc' \in {"blink", "report"}
  /\ UNCHANGED <<safetyVars, lights, reg, lag>>

\* safety_report_fault of the main loop.
FaultCheck ==
  /\ Goto("report", IF state = "FAIL_SILENT" THEN "blink" ELSE "load")
  /\ UNCHANGED <<safetyVars, lights, reg, lag>>

FaultLoad ==
  /\ Goto("load", "store")
  /\ reg' = faults
  /\ UNCHANGED <<safetyVars, lights, lag>>

FaultStore ==
  /\ Goto("store", "switch")
  /\ faults' = Counted(reg) /\ ok' = 0
  /\ UNCHANGED <<state, age, lights, reg, lag>>

FaultSwitch ==
  /\ Goto("switch", CASE state = "NORMAL" -> "degrade"
                      [] state = "DEGRADED" -> "limit"
                      [] state = "SAFE_STATE" -> "silence"
                      [] state = "FAIL_SILENT" -> "blink")
  /\ UNCHANGED <<safetyVars, lights, reg, lag>>

FaultDegrade ==
  /\ Goto("degrade", "stamp")
  /\ state' = "DEGRADED"
  /\ UNCHANGED <<faults, ok, age, lights, reg, lag>>

FaultStamp ==
  /\ Goto("stamp", "blink")
  /\ age' = 0
  /\ UNCHANGED <<state, faults, ok, lights, reg, lag>>

FaultLimit ==
  /\ Goto("limit", IF faults >= FAULT_LIMIT THEN "fault_safe" ELSE "blink")
  /\ UNCHANGED <<safetyVars, lights, reg, lag>>

FaultSilence ==
  /\ Goto("silence", "fault_led1")
  /\ state' = "FAIL_SILENT"
  /\ UNCHANGED <<faults, ok, age, lights, reg, lag>>

\* The blinker is due or not; it is asked for and allowed.
BlinkCheck ==
  /\ pc = "blink"
  /\ pc' \in {"sleep"} \cup IF hazard /\ ActuatorAllowed(state) THEN {"toggle"} ELSE {}
  /\ UNCHANGED <<safetyVars, lights, reg, lag>>

\* LED2_Toggle reads the output register and writes it back.
ToggleRead ==
  /\ Goto("toggle", IF led2 THEN "write_off" ELSE "write_on")
  /\ UNCHANGED <<safetyVars, lights, reg, lag>>

ToggleWrite ==
  /\ pc \in {"write_off", "write_on"} /\ pc' = "sleep"
  /\ led2' = (pc = "write_on")
  /\ UNCHANGED <<safetyVars, led1, hazard, reg, lag>>

Sleep ==
  /\ Goto("sleep", "top")
  /\ UNCHANGED <<safetyVars, lights, reg, lag>>
-----------------------------------------------------------------------------
\* The tick interrupt.
Tick ==
  /\ lag < MaxLag /\ lag' = lag + 1
  /\ age' = (age + 1) % TickMod
  /\ UNCHANGED <<state, faults, ok, lights, pc, reg>>

Main ==
  \/ ReadNow \/ TickState \/ TickElapsed \/ EnterSafeState \/ Led1Off \/ Led2Off
  \/ PeriodicTest \/ FaultCheck \/ FaultLoad \/ FaultStore \/ FaultSwitch
  \/ FaultDegrade \/ FaultStamp \/ FaultLimit \/ FaultSilence
  \/ BlinkCheck \/ ToggleRead \/ ToggleWrite \/ Sleep

Next ==
  \/ \E v \in Verdict, c \in Command : HeadlightHandler(v, c) \/ HazardHandler(v, c)
  \/ Main
  \/ Tick

Spec == Init /\ [][Next]_vars
-----------------------------------------------------------------------------
MainStep == {"top", "tick", "elapsed", "test", "report", "load", "store", "switch",
             "degrade", "stamp", "limit", "silence", "blink", "toggle", "write_on", "write_off", "sleep"}

\* Every variable keeps its type: the type invariant of the module.
TypeOK ==
  /\ state \in SafetyState
  /\ faults \in 0..FAULT_LIMIT /\ reg \in 0..FAULT_LIMIT
  /\ ok \in 0..(RecoveryCount - 1)
  /\ age \in 0..(TickMod - 1) /\ lag \in 0..MaxLag
  /\ led1 \in BOOLEAN /\ led2 \in BOOLEAN /\ hazard \in BOOLEAN
  /\ pc \in MainStep \cup DOMAIN After

\* The headlight is dark in SAFE_STATE and FAIL_SILENT, but for the moment in which
\* the main loop has written the state and not yet the output; no callback that
\* comes in that moment, or earlier in the loop, can light it.  This is what
\* safety_manager.h:67 says of safety_execute_safe_action.  The rest of the repository
\* wants the opposite, the headlight on in the safe state: functional_safety.md:290,
\* tests/test_safety_foundation.py:171-172 and tests/test_safety_manager.py:46-51.
HeadlightIsDark ==
  state \in Silent => ~led1 \/ pc \in {"tick_led1", "fault_led1"}

\* A message never brings the node back from SAFE_STATE or FAIL_SILENT and never
\* lights anything there, whatever the main loop is in the middle of.
MessagesNeverRevive ==
  [][pc' = pc /\ state \in Silent =>
       /\ state' \in Silent /\ (state = "FAIL_SILENT" => state' = "FAIL_SILENT")
       /\ (led1' => led1) /\ (led2' => led2)]_vars

\* No stay in DEGRADED goes on past its timeout, and two cycles of the main loop,
\* unseen: neither the overflow of the tick counter nor a callback between the
\* reads of safety_tick makes the loop miss it.  (A fault of the loop itself sets
\* the state before the time, which nobody reads in between.)
DegradedIsBounded == state = "DEGRADED" /\ pc # "stamp" => age < DegradedTimeout + 2 * MaxLag
-----------------------------------------------------------------------------
(* What the documents say and the code does not do. *)

\* safety_manager.h: the safe action turns off all actuators.  A toggle that the
\* main loop was about to make lights the hazard light again, for good.
SafeStateIsDark == state \in Silent /\ pc = "top" => ~led2
=============================================================================
