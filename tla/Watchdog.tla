------------------------------ MODULE Watchdog ------------------------------
(***************************************************************************)
(* The software watchdog of the master, src/src/master/watchdog.py.        *)
(*                                                                         *)
(* The main loop kicks; a thread looks every quarter of the timeout how    *)
(* long ago that was, and calls the expiry callback.  The callback runs    *)
(* without the lock and may take its time: it reports to the safety        *)
(* manager, which writes a log and a file.  Kicks, and a stop that gives   *)
(* up waiting for the thread, come in between.                             *)
(*                                                                         *)
(* Time is a number of ticks since something; a thread that is due runs    *)
(* before the next tick.  The messages to systemd are left out.            *)
(***************************************************************************)
EXTENDS Naturals

CONSTANTS Timeout,    \* _timeout_sec
          Second,     \* ticks in a second
          MaxBusy,    \* bound on the ticks that an expiry callback takes
          Monitor     \* names for the threads that can be alive together

ASSUME TimeAssumption == Timeout \in Nat /\ Timeout >= 4 /\ Second \in Nat \ {0}
ASSUME BusyAssumption == MaxBusy \in Nat

VARIABLES
  age,       \* ticks since _last_kick
  running,   \* _running
  stopped,   \* _stop_event
  thread,    \* _thread
  pc,        \* of each thread: ended, waiting, expired (in the callback, before its
             \* report), reported (after it)
  left,      \* ticks the thread has left to wait, or to spend in the callback
  joining,   \* ticks that stop() has left to wait for the thread, or NoJoin
  gaveUp,    \* (observation) a stop() has left a thread behind
  silence,   \* (observation) ticks since the last kick, report or start
  quiet      \* (observation) ticks since the last report

threadVars == <<pc, left>>
ownerVars == <<running, stopped, thread, joining, gaveUp>>
vars == <<age, threadVars, ownerVars, silence, quiet>>

NoJoin == Timeout + Second + 1
Horizon == 2 * (Timeout + MaxBusy + 1)      \* where ages are no longer counted

Init ==
  /\ age = 0 /\ silence = 0 /\ quiet = Horizon
  /\ running = FALSE /\ stopped = FALSE /\ gaveUp = FALSE
  /\ joining = NoJoin
  /\ thread \in Monitor
  /\ pc = [m \in Monitor |-> "ended"]
  /\ left = [m \in Monitor |-> 0]

\* Mutant: the thread sleeps for the timeout, not for a quarter of it.
WholeTimeout == Timeout

\* check_interval
CheckInterval == IF Timeout < 4 * Second THEN Timeout \div 4 ELSE Second
-----------------------------------------------------------------------------
(* The main loop and the owner *)

Kick ==
  /\ age' = 0 /\ silence' = 0
  /\ UNCHANGED <<threadVars, ownerVars, quiet>>

Start(m) ==
  /\ ~running /\ joining = NoJoin
  /\ pc[m] = "ended"
  /\ running' = TRUE /\ stopped' = FALSE
  /\ age' = 0 /\ silence' = 0
  /\ thread' = m
  /\ pc' = [pc EXCEPT ![m] = "waiting"]
  /\ left' = [left EXCEPT ![m] = CheckInterval]
  /\ UNCHANGED <<joining, gaveUp, quiet>>

\* Mutant: stop() does not wait for the thread.
StopWithoutJoin ==
  /\ running /\ running' = FALSE
  /\ stopped' = TRUE
  /\ UNCHANGED <<age, threadVars, thread, joining, gaveUp, silence, quiet>>

\* stop() up to the join.
Stop ==
  /\ running /\ running' = FALSE
  /\ stopped' = TRUE
  /\ joining' = Timeout + Second
  /\ UNCHANGED <<age, threadVars, thread, gaveUp, silence, quiet>>

\* The join returns: the thread has ended, or the time is up.
EndStop ==
  /\ joining # NoJoin
  /\ \/ pc[thread] = "ended" /\ UNCHANGED gaveUp
     \/ joining = 0 /\ pc[thread] # "ended" /\ gaveUp' = TRUE
  /\ joining' = NoJoin
  /\ UNCHANGED <<age, threadVars, running, stopped, thread, silence, quiet>>
-----------------------------------------------------------------------------
(* _monitor_loop *)

\* The thread wakes up: because of the stop event, or to look at the clock.
Wake(m) ==
  /\ pc[m] = "waiting" /\ (left[m] = 0 \/ stopped)
  /\ \/ /\ stopped
        /\ pc' = [pc EXCEPT ![m] = "ended"] /\ left' = [left EXCEPT ![m] = 0]
     \/ /\ ~stopped /\ age <= Timeout
        /\ left' = [left EXCEPT ![m] = CheckInterval] /\ UNCHANGED pc
     \/ /\ ~stopped /\ age > Timeout
        /\ pc' = [pc EXCEPT ![m] = "expired"] /\ left' = [left EXCEPT ![m] = MaxBusy]
  /\ UNCHANGED <<age, ownerVars, silence, quiet>>

\* The callback reports the expiry.
Report(m) ==
  /\ pc[m] = "expired"
  /\ pc' = [pc EXCEPT ![m] = "reported"]
  /\ silence' = 0 /\ quiet' = 0
  /\ UNCHANGED <<age, left, ownerVars>>

\* Mutant: _last_kick is not set again.
NoReset(m) ==
  /\ pc[m] = "reported"
  /\ pc' = [pc EXCEPT ![m] = IF stopped THEN "ended" ELSE "waiting"]
  /\ left' = [left EXCEPT ![m] = IF stopped THEN 0 ELSE CheckInterval]
  /\ UNCHANGED <<age, ownerVars, silence, quiet>>

\* The callback returns, or raises, and _last_kick is set, whatever kick came since.
EndCallback(m) ==
  /\ pc[m] = "reported"
  /\ age' = 0
  /\ pc' = [pc EXCEPT ![m] = IF stopped THEN "ended" ELSE "waiting"]
  /\ left' = [left EXCEPT ![m] = IF stopped THEN 0 ELSE CheckInterval]
  /\ UNCHANGED <<ownerVars, silence, quiet>>
-----------------------------------------------------------------------------
Later(n) == IF n < Horizon THEN n + 1 ELSE n

\* A tick, while nobody is due: no thread to wake or to return, no join to end.
Tick ==
  /\ \A m \in Monitor : pc[m] # "ended" => left[m] > 0 /\ ~(stopped /\ pc[m] = "waiting")
  /\ joining # NoJoin => joining > 0 /\ pc[thread] # "ended"
  /\ age' = Later(age) /\ silence' = Later(silence) /\ quiet' = Later(quiet)
  /\ left' = [m \in Monitor |-> IF left[m] > 0 THEN left[m] - 1 ELSE 0]
  /\ joining' = IF joining = NoJoin THEN NoJoin ELSE joining - 1
  /\ UNCHANGED <<running, stopped, thread, pc, gaveUp>>

Next ==
  \/ Kick \/ Stop \/ EndStop \/ Tick
  \/ \E m \in Monitor : Start(m) \/ Wake(m) \/ Report(m) \/ EndCallback(m)

Spec == Init /\ [][Next]_vars
-----------------------------------------------------------------------------
\* Every variable keeps its type, and a watchdog that runs has a thread: the
\* type invariant of the module.
TypeOK ==
  /\ age \in 0..Horizon /\ silence \in 0..Horizon /\ quiet \in 0..Horizon
  /\ running \in BOOLEAN /\ stopped \in BOOLEAN /\ gaveUp \in BOOLEAN
  /\ joining \in 0..NoJoin
  /\ thread \in Monitor
  /\ pc \in [Monitor -> {"ended", "waiting", "expired", "reported"}]
  /\ left \in [Monitor -> Nat]
  /\ running => ~stopped /\ pc[thread] # "ended" /\ joining = NoJoin

\* A main loop that stops kicking is reported within five quarters of the timeout
\* and the time of two callbacks: the one that is under way and sets _last_kick
\* afresh when it returns, and the one that makes the report.
HangIsReported == running => 4 * silence <= 5 * Timeout + 8 * MaxBusy

\* A hang is reported once in a timeout, not in every round of the monitor, as
\* long as no stop() has left a thread behind that goes on beside the new one.
NoRepeatedReport ==
  [][quiet' = 0 /\ quiet # 0 => quiet > Timeout \/ gaveUp]_vars

\* When stop() returns the watchdog is quiet, and a restart makes one thread, not
\* two, unless the callback outlasted the time that stop() waits.
StopIsFinal ==
  ~gaveUp => \A m \in Monitor : pc[m] # "ended" => m = thread /\ (running \/ joining # NoJoin)
=============================================================================
