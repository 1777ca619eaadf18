-------------------------- MODULE Watchdog_proofs --------------------------
(***************************************************************************)
(* Proofs about the watchdog of the master, for every timeout, every time  *)
(* that a callback may take, and any number of threads left behind.        *)
(***************************************************************************)
EXTENDS Watchdog, TLAPS

(***************************************************************************)
(* The inductive invariant.  How long a main loop that hangs has been      *)
(* silent depends on where each thread is: a thread that waits looks at    *)
(* the clock in time, one in a callback reports or has reported in time,   *)
(* and _last_kick, which a callback sets afresh when it ends, is never     *)
(* later than the last sign of life by more than a callback.               *)
(***************************************************************************)

\* _last_kick is set afresh at most a callback after the report it made.
ClockIsHonest == silence <= age + MaxBusy

\* The time that a thread has left keeps its next look, or its report, in time.
InTime(m) ==
  /\ pc[m] = "waiting" => age + left[m] <= Timeout + CheckInterval
  /\ pc[m] = "expired" => /\ silence + left[m] <= Timeout + CheckInterval + 2 * MaxBusy
                          /\ left[m] <= MaxBusy
  /\ pc[m] = "reported" => silence + left[m] <= MaxBusy

\* A thread without another beside it waits on a clock that was set after the
\* last report, and has its next report at a distance from it.
Spaced(m) ==
  ~gaveUp => /\ pc[m] = "waiting" => age <= quiet
             /\ pc[m] = "expired" => quiet > Timeout

IInv == TypeOK /\ StopIsFinal /\ ClockIsHonest /\ \A m \in Monitor : InTime(m) /\ Spaced(m)
-----------------------------------------------------------------------------
\* A thread looks at the clock at least four times in a timeout.
LEMMA Interval == CheckInterval \in Nat /\ 4 * CheckInterval <= Timeout
  BY TimeAssumption, SMT DEF CheckInterval

\* Before the first start there is no thread.
LEMMA InitInvariant == Init => IInv
  <1> SUFFICES ASSUME Init PROVE IInv
    OBVIOUS
  <1>1. /\ age \in 0..Horizon /\ silence \in 0..Horizon /\ quiet \in 0..Horizon
        /\ joining \in 0..NoJoin /\ left \in [Monitor -> Nat]
    BY TimeAssumption, BusyAssumption, SMT DEF Init, Horizon, NoJoin
  <1>2. TypeOK /\ StopIsFinal /\ \A m \in Monitor : InTime(m) /\ Spaced(m)
    BY <1>1 DEF Init, TypeOK, StopIsFinal, InTime, Spaced
  <1>3. ClockIsHonest
    BY BusyAssumption, SMT DEF Init, ClockIsHonest
  <1> QED BY <1>2, <1>3 DEF IInv
-----------------------------------------------------------------------------
(* One lemma for each action *)

\* A kick sets the clock and ends the silence.
LEMMA KickStep == ASSUME IInv, Kick PROVE IInv'
  <1> USE TimeAssumption, BusyAssumption, Interval DEF Kick, threadVars, ownerVars
  <1>1. TypeOK'
    <2>1. age' \in 0..Horizon /\ silence' \in 0..Horizon /\ quiet' \in 0..Horizon
      BY SMT DEF IInv, TypeOK, Horizon
    <2>2. joining' \in 0..NoJoin /\ left' \in [Monitor -> Nat]
      BY SMT DEF IInv, TypeOK, NoJoin
    <2>3. /\ running' \in BOOLEAN /\ stopped' \in BOOLEAN /\ gaveUp' \in BOOLEAN
          /\ thread' \in Monitor
          /\ pc' \in [Monitor -> {"ended", "waiting", "expired", "reported"}]
          /\ running' => ~stopped' /\ pc'[thread'] # "ended" /\ joining' = NoJoin
      BY DEF IInv, TypeOK
    <2> QED BY <2>1, <2>2, <2>3 DEF TypeOK
  <1>2. StopIsFinal'
    BY SMT DEF IInv, TypeOK, StopIsFinal, NoJoin
  <1>3. ClockIsHonest'
    BY SMT DEF IInv, TypeOK, ClockIsHonest, Horizon
  <1>4. ASSUME NEW k \in Monitor PROVE InTime(k)'
    BY SMT DEF IInv, TypeOK, ClockIsHonest, InTime, Horizon
  <1>5. ASSUME NEW k \in Monitor PROVE Spaced(k)'
    BY SMT DEF IInv, TypeOK, StopIsFinal, Spaced, Horizon
  <1> QED BY <1>1, <1>2, <1>3, <1>4, <1>5 DEF IInv

\* A start makes the only thread, unless a stop has left one behind.
LEMMA StartStep == ASSUME IInv, NEW m \in Monitor, Start(m) PROVE IInv'
  <1> USE TimeAssumption, BusyAssumption, Interval DEF Start
  <1>1. TypeOK'
    <2>1. age' \in 0..Horizon /\ silence' \in 0..Horizon /\ quiet' \in 0..Horizon
      BY SMT DEF IInv, TypeOK, Horizon
    <2>2. joining' \in 0..NoJoin /\ left' \in [Monitor -> Nat]
      BY SMT DEF IInv, TypeOK, NoJoin
    <2>3. /\ running' \in BOOLEAN /\ stopped' \in BOOLEAN /\ gaveUp' \in BOOLEAN
          /\ thread' \in Monitor
          /\ pc' \in [Monitor -> {"ended", "waiting", "expired", "reported"}]
          /\ running' => ~stopped' /\ pc'[thread'] # "ended" /\ joining' = NoJoin
      BY DEF IInv, TypeOK
    <2> QED BY <2>1, <2>2, <2>3 DEF TypeOK
  <1>2. StopIsFinal'
    BY SMT DEF IInv, TypeOK, StopIsFinal, NoJoin
  <1>3. ClockIsHonest'
    BY SMT DEF IInv, TypeOK, ClockIsHonest, Horizon
  <1>4. ASSUME NEW k \in Monitor PROVE InTime(k)'
    BY SMT DEF IInv, TypeOK, ClockIsHonest, InTime, Horizon
  <1>5. ASSUME NEW k \in Monitor PROVE Spaced(k)'
    BY SMT DEF IInv, TypeOK, StopIsFinal, Spaced, Horizon
  <1> QED BY <1>1, <1>2, <1>3, <1>4, <1>5 DEF IInv

\* stop() tells the thread, and waits.
LEMMA StopStep == ASSUME IInv, Stop PROVE IInv'
  <1> USE TimeAssumption, BusyAssumption, Interval DEF Stop, threadVars, ownerVars
  <1>1. TypeOK'
    <2>1. age' \in 0..Horizon /\ silence' \in 0..Horizon /\ quiet' \in 0..Horizon
      BY SMT DEF IInv, TypeOK, Horizon
    <2>2. joining' \in 0..NoJoin /\ left' \in [Monitor -> Nat]
      BY SMT DEF IInv, TypeOK, NoJoin
    <2>3. /\ running' \in BOOLEAN /\ stopped' \in BOOLEAN /\ gaveUp' \in BOOLEAN
          /\ thread' \in Monitor
          /\ pc' \in [Monitor -> {"ended", "waiting", "expired", "reported"}]
          /\ running' => ~stopped' /\ pc'[thread'] # "ended" /\ joining' = NoJoin
      BY DEF IInv, TypeOK
    <2> QED BY <2>1, <2>2, <2>3 DEF TypeOK
  <1>2. StopIsFinal'
    BY SMT DEF IInv, TypeOK, StopIsFinal, NoJoin
  <1>3. ClockIsHonest'
    BY SMT DEF IInv, TypeOK, ClockIsHonest, Horizon
  <1>4. ASSUME NEW k \in Monitor PROVE InTime(k)'
    BY SMT DEF IInv, TypeOK, ClockIsHonest, InTime, Horizon
  <1>5. ASSUME NEW k \in Monitor PROVE Spaced(k)'
    BY SMT DEF IInv, TypeOK, StopIsFinal, Spaced, Horizon
  <1> QED BY <1>1, <1>2, <1>3, <1>4, <1>5 DEF IInv

\* The join ends with the thread, or the thread is left behind.
LEMMA EndStopStep == ASSUME IInv, EndStop PROVE IInv'
  <1> USE TimeAssumption, BusyAssumption, Interval DEF EndStop, threadVars, ownerVars
  <1>1. TypeOK'
    <2>1. age' \in 0..Horizon /\ silence' \in 0..Horizon /\ quiet' \in 0..Horizon
      BY SMT DEF IInv, TypeOK, Horizon
    <2>2. joining' \in 0..NoJoin /\ left' \in [Monitor -> Nat]
      BY SMT DEF IInv, TypeOK, NoJoin
    <2>3. /\ running' \in BOOLEAN /\ stopped' \in BOOLEAN /\ gaveUp' \in BOOLEAN
          /\ thread' \in Monitor
          /\ pc' \in [Monitor -> {"ended", "waiting", "expired", "reported"}]
          /\ running' => ~stopped' /\ pc'[thread'] # "ended" /\ joining' = NoJoin
      BY DEF IInv, TypeOK
    <2> QED BY <2>1, <2>2, <2>3 DEF TypeOK
  <1>2. StopIsFinal'
    BY SMT DEF IInv, TypeOK, StopIsFinal, NoJoin
  <1>3. ClockIsHonest'
    BY SMT DEF IInv, TypeOK, ClockIsHonest, Horizon
  <1>4. ASSUME NEW k \in Monitor PROVE InTime(k)'
    BY SMT DEF IInv, TypeOK, ClockIsHonest, InTime, Horizon
  <1>5. ASSUME NEW k \in Monitor PROVE Spaced(k)'
    BY SMT DEF IInv, TypeOK, StopIsFinal, Spaced, Horizon
  <1> QED BY <1>1, <1>2, <1>3, <1>4, <1>5 DEF IInv

\* A thread that looks at the clock waits again, or has an expiry to report.
LEMMA WakeStep == ASSUME IInv, NEW m \in Monitor, Wake(m) PROVE IInv'
  <1> USE TimeAssumption, BusyAssumption, Interval DEF Wake, threadVars, ownerVars
  <1>1. TypeOK'
    <2>1. age' \in 0..Horizon /\ silence' \in 0..Horizon /\ quiet' \in 0..Horizon
      BY SMT DEF IInv, TypeOK, Horizon
    <2>2. joining' \in 0..NoJoin /\ left' \in [Monitor -> Nat]
      BY SMT DEF IInv, TypeOK, NoJoin
    <2>3. /\ running' \in BOOLEAN /\ stopped' \in BOOLEAN /\ gaveUp' \in BOOLEAN
          /\ thread' \in Monitor
          /\ pc' \in [Monitor -> {"ended", "waiting", "expired", "reported"}]
          /\ running' => ~stopped' /\ pc'[thread'] # "ended" /\ joining' = NoJoin
      BY DEF IInv, TypeOK
    <2> QED BY <2>1, <2>2, <2>3 DEF TypeOK
  <1>2. StopIsFinal'
    BY SMT DEF IInv, TypeOK, StopIsFinal, NoJoin
  <1>3. ClockIsHonest'
    BY SMT DEF IInv, TypeOK, ClockIsHonest, Horizon
  <1>4. ASSUME NEW k \in Monitor PROVE InTime(k)'
    BY SMT DEF IInv, TypeOK, ClockIsHonest, InTime, Horizon
  <1>5. ASSUME NEW k \in Monitor PROVE Spaced(k)'
    BY SMT DEF IInv, TypeOK, StopIsFinal, Spaced, Horizon
  <1> QED BY <1>1, <1>2, <1>3, <1>4, <1>5 DEF IInv

\* A report ends the silence, and comes a timeout after the last one.
LEMMA ReportStep == ASSUME IInv, NEW m \in Monitor, Report(m) PROVE IInv'
  <1> USE TimeAssumption, BusyAssumption, Interval DEF Report, threadVars, ownerVars
  <1>1. TypeOK'
    <2>1. age' \in 0..Horizon /\ silence' \in 0..Horizon /\ quiet' \in 0..Horizon
      BY SMT DEF IInv, TypeOK, Horizon
    <2>2. joining' \in 0..NoJoin /\ left' \in [Monitor -> Nat]
      BY SMT DEF IInv, TypeOK, NoJoin
    <2>3. /\ running' \in BOOLEAN /\ stopped' \in BOOLEAN /\ gaveUp' \in BOOLEAN
          /\ thread' \in Monitor
          /\ pc' \in [Monitor -> {"ended", "waiting", "expired", "reported"}]
          /\ running' => ~stopped' /\ pc'[thread'] # "ended" /\ joining' = NoJoin
      BY DEF IInv, TypeOK
    <2> QED BY <2>1, <2>2, <2>3 DEF TypeOK
  <1>2. StopIsFinal'
    BY SMT DEF IInv, TypeOK, StopIsFinal, NoJoin
  <1>3. ClockIsHonest'
    BY SMT DEF IInv, TypeOK, ClockIsHonest, Horizon
  <1>4. ASSUME NEW k \in Monitor PROVE InTime(k)'
    BY SMT DEF IInv, TypeOK, ClockIsHonest, InTime, Horizon
  <1>5. ASSUME NEW k \in Monitor PROVE Spaced(k)'
    BY SMT DEF IInv, TypeOK, StopIsFinal, Spaced, Horizon
  <1> QED BY <1>1, <1>2, <1>3, <1>4, <1>5 DEF IInv

\* The end of a callback sets the clock, no more than a callback after the report.
LEMMA EndCallbackStep == ASSUME IInv, NEW m \in Monitor, EndCallback(m) PROVE IInv'
  <1> USE TimeAssumption, BusyAssumption, Interval DEF EndCallback, threadVars, ownerVars
  <1>1. TypeOK'
    <2>1. age' \in 0..Horizon /\ silence' \in 0..Horizon /\ quiet' \in 0..Horizon
      BY SMT DEF IInv, TypeOK, Horizon
    <2>2. joining' \in 0..NoJoin /\ left' \in [Monitor -> Nat]
      BY SMT DEF IInv, TypeOK, NoJoin
    <2>3. /\ running' \in BOOLEAN /\ stopped' \in BOOLEAN /\ gaveUp' \in BOOLEAN
          /\ thread' \in Monitor
          /\ pc' \in [Monitor -> {"ended", "waiting", "expired", "reported"}]
          /\ running' => ~stopped' /\ pc'[thread'] # "ended" /\ joining' = NoJoin
      BY DEF IInv, TypeOK
    <2> QED BY <2>1, <2>2, <2>3 DEF TypeOK
  <1>2. StopIsFinal'
    BY SMT DEF IInv, TypeOK, StopIsFinal, NoJoin
  <1>3. ClockIsHonest'
    BY SMT DEF IInv, TypeOK, ClockIsHonest, Horizon, InTime
  <1>4. ASSUME NEW k \in Monitor PROVE InTime(k)'
    BY SMT DEF IInv, TypeOK, ClockIsHonest, InTime, Horizon
  <1>5. ASSUME NEW k \in Monitor PROVE Spaced(k)'
    BY SMT DEF IInv, TypeOK, StopIsFinal, Spaced, Horizon
  <1> QED BY <1>1, <1>2, <1>3, <1>4, <1>5 DEF IInv

\* Time passes only while no thread is due.
LEMMA TickStep == ASSUME IInv, Tick PROVE IInv'
  <1> USE TimeAssumption, BusyAssumption, Interval DEF Tick, Later
  <1>1. TypeOK'
    <2>1. age' \in 0..Horizon /\ silence' \in 0..Horizon /\ quiet' \in 0..Horizon
      BY SMT DEF IInv, TypeOK, Horizon
    <2>2. joining' \in 0..NoJoin /\ left' \in [Monitor -> Nat]
      BY SMT DEF IInv, TypeOK, NoJoin
    <2>3. /\ running' \in BOOLEAN /\ stopped' \in BOOLEAN /\ gaveUp' \in BOOLEAN
          /\ thread' \in Monitor
          /\ pc' \in [Monitor -> {"ended", "waiting", "expired", "reported"}]
          /\ running' => ~stopped' /\ pc'[thread'] # "ended" /\ joining' = NoJoin
      BY DEF IInv, TypeOK
    <2> QED BY <2>1, <2>2, <2>3 DEF TypeOK
  <1>2. StopIsFinal'
    BY SMT DEF IInv, TypeOK, StopIsFinal, NoJoin
  <1>3. ClockIsHonest'
    BY SMT DEF IInv, TypeOK, ClockIsHonest, Horizon
  <1>4. ASSUME NEW k \in Monitor PROVE InTime(k)'
    BY SMT DEF IInv, TypeOK, ClockIsHonest, InTime, Horizon
  <1>5. ASSUME NEW k \in Monitor PROVE Spaced(k)'
    BY SMT DEF IInv, TypeOK, StopIsFinal, Spaced, Horizon
  <1> QED BY <1>1, <1>2, <1>3, <1>4, <1>5 DEF IInv

-----------------------------------------------------------------------------
(* The theorems *)

\* The invariant of the watchdog holds throughout.
LEMMA Invariance == Spec => []IInv
  <1>1. IInv /\ [Next]_vars => IInv'
    <2> SUFFICES ASSUME IInv, [Next]_vars PROVE IInv'
      OBVIOUS
    <2>1. CASE UNCHANGED vars
      BY <2>1 DEF vars, threadVars, ownerVars, IInv, TypeOK, StopIsFinal, ClockIsHonest,
                  InTime, Spaced
    <2>2. CASE Kick \/ Stop \/ EndStop \/ Tick
      BY <2>2, KickStep, StopStep, EndStopStep, TickStep
    <2>3. ASSUME NEW m \in Monitor, Start(m) \/ Wake(m) \/ Report(m) \/ EndCallback(m)
          PROVE IInv'
      BY <2>3, StartStep, WakeStep, ReportStep, EndCallbackStep
    <2> QED BY <2>1, <2>2, <2>3 DEF Next
  <1> QED BY <1>1, InitInvariant, PTL DEF Spec

\* Every variable keeps its type, and a watchdog that runs has a thread that no
\* stop() waits for (watchdog.py, start and stop).
THEOREM TypeCorrect == Spec => []TypeOK
  <1>1. IInv => TypeOK
    BY DEF IInv
  <1> QED BY <1>1, Invariance, PTL

\* With any number of threads and restarts, stop() leaves no thread behind and a
\* restart makes one thread, unless the join gave up (watchdog.py, stop).
THEOREM StopSafety == Spec => []StopIsFinal
  <1>1. IInv => StopIsFinal
    BY DEF IInv
  <1> QED BY <1>1, Invariance, PTL

\* Whatever the timeout and however long the callbacks take, a main loop that
\* hangs is reported within five quarters of the timeout and two callbacks,
\* although a callback that ends sets _last_kick afresh (_monitor_loop).
THEOREM HangSafety == Spec => []HangIsReported
  <1>1. IInv => HangIsReported
    <2> SUFFICES ASSUME IInv, running PROVE 4 * silence <= 5 * Timeout + 8 * MaxBusy
      BY DEF HangIsReported
    <2>1. /\ thread \in Monitor /\ pc[thread] \in {"waiting", "expired", "reported"}
          /\ left[thread] \in Nat /\ silence \in Nat /\ age \in Nat
      BY DEF IInv, TypeOK
    <2>2. ClockIsHonest /\ InTime(thread)
      BY <2>1 DEF IInv
    <2> QED BY <2>1, <2>2, Interval, TimeAssumption, BusyAssumption, SMT
            DEF ClockIsHonest, InTime
  <1> QED BY <1>1, Invariance, PTL

\* A hang is reported once in a timeout and not in every round of the monitor,
\* unless a stop() has left a thread behind: the expiry callback is called
\* again only when a timeout has passed since its last report (_monitor_loop).
THEOREM ReportSpacing == Spec => NoRepeatedReport
  <1> DEFINE Spacing == quiet' = 0 /\ quiet # 0 => quiet > Timeout \/ gaveUp
  <1>1. IInv /\ [Next]_vars => [Spacing]_vars
    <2> SUFFICES ASSUME IInv, Next, quiet' = 0, quiet # 0 PROVE quiet > Timeout \/ gaveUp
      BY DEF Spacing
    <2>1. quiet \in 0..Horizon
      BY DEF IInv, TypeOK
    <2>2. ~Tick
      BY <2>1, TimeAssumption, BusyAssumption, SMT DEF Tick, Later, Horizon
    <2>3. PICK m \in Monitor : Report(m)
      BY <2>2 DEF Next, Kick, Stop, EndStop, Start, Wake, EndCallback, ownerVars
    <2> QED BY <2>3 DEF IInv, Spaced, Report
  <1> QED BY <1>1, Invariance, PTL DEF Spec, NoRepeatedReport
=============================================================================
