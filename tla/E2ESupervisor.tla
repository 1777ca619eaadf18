--------------------------- MODULE E2ESupervisor ---------------------------
(***************************************************************************)
(* The E2E supervisor of the master, src/src/master/e2e_supervisor.py,     *)
(* together with the safety manager it reports to.                         *)
(*                                                                         *)
(* The supervisor has a lock of its own, which is not re-entrant.  Message *)
(* callbacks hold it for one step; the monitor thread holds it while it    *)
(* goes through the channels, and the safety manager is called, and may be *)
(* called by others, in between.  A callback for a data_id nobody has      *)
(* registered calls register_channel with the lock held and never returns. *)
(*                                                                         *)
(* The monitor reads the clock before it waits for the lock, so what it    *)
(* compares with is older than what it finds: due are the channels that    *)
(* were over their deadline at that reading and have not been renewed.     *)
(*                                                                         *)
(* The clock itself is left out: late says that more than deadline_ms have *)
(* passed since last_valid_time.  So are the totals that only              *)
(* get_channel_stats reads, and the DTCs (see DTCManager).                 *)
(***************************************************************************)
EXTENDS SafetyManager, SequenceChecker

CONSTANTS Channel,      \* data_ids; a channel reports under a source of its own
          MaxGap,       \* max_seq_gap of the channels
          OtherFault    \* the faults that others report to the safety manager

ASSUME ChannelAssumption == Channel \subseteq Source
ASSUME MaxGapAssumption == MaxGap \in Nat
ASSUME OtherFaultAssumption == OtherFault \subseteq FaultType

VARIABLES
  registered,   \* the keys of _channels
  status,       \* E2EChannelState.status
  failures,     \* consecutive_failures, up to ERROR_THRESHOLD
  checker,      \* seq_checker
  late,         \* the deadline has passed since the last valid message
  wedged,       \* a callback holds _lock and waits for it
  monitor,      \* the thread: asleep, waiting for _lock, or in its loop with it
  due,          \* the channels late at the monitor's reading of the clock
  todo,         \* the channels the loop has still to check
  running       \* _running

channelVars == <<registered, status, failures, checker, late>>
monitorVars == <<wedged, monitor, todo, running>>
supervisorVars == <<channelVars, monitorVars, due>>
vars == <<managerVars, supervisorVars>>

ERROR_THRESHOLD == 3
E2EStatus == {"INIT", "VALID", "TIMEOUT", "INVALID", "ERROR"}

SupervisorInit ==
  /\ Init
  /\ registered = {}
  /\ status = [c \in Channel |-> "INIT"]
  /\ failures = [c \in Channel |-> 0]
  /\ checker = [c \in Channel |-> NewChecker]
  /\ late = [c \in Channel |-> FALSE]
  /\ wedged = FALSE /\ running = FALSE
  /\ monitor = "asleep" /\ due = {} /\ todo = {}

LockIsFree == ~wedged /\ monitor # "loop"
-----------------------------------------------------------------------------
\* Mutant: the escalation to ERROR comes one failure late.
StatusOneLate(count, new) == IF count > ERROR_THRESHOLD THEN "ERROR" ELSE new

\* _update_status
UpdatedStatus(count, new) == IF count >= ERROR_THRESHOLD THEN "ERROR" ELSE new

\* One more failure, which _report_fault passes on to the safety manager; the
\* details it passes name no ASIL.
Fail(c, newStatus, fault) ==
  LET count == IF failures[c] < ERROR_THRESHOLD THEN failures[c] + 1 ELSE failures[c]
  IN /\ failures' = [failures EXCEPT ![c] = count]
     /\ status' = [status EXCEPT ![c] = UpdatedStatus(count, newStatus)]
     /\ NotifyFault(fault, c, "other")
     /\ UNCHANGED <<registered, late>>

\* A channel that is registered again starts from the beginning.
RegisterChannel(c) ==
  /\ LockIsFree
  /\ registered' = registered \cup {c}
  /\ status' = [status EXCEPT ![c] = "INIT"]
  /\ failures' = [failures EXCEPT ![c] = 0]
  /\ checker' = [checker EXCEPT ![c] = NewChecker]
  /\ late' = [late EXCEPT ![c] = FALSE]
  /\ due' = due \ {c}
  /\ UNCHANGED <<managerVars, monitorVars>>
-----------------------------------------------------------------------------
(* on_message_received *)

CrcFailure(c) ==
  /\ Fail(c, "INVALID", "CRC_FAILURE")
  /\ UNCHANGED <<checker, due>>

\* Mutant: the monitor picks the late channels before it has the lock, so that a
\* message it meets on its way comes too late.
AcceptAfterPick(c) ==
  /\ failures' = [failures EXCEPT ![c] = 0]
  /\ late' = [late EXCEPT ![c] = FALSE]
  /\ status' = [status EXCEPT ![c] = "VALID"]
  /\ UNCHANGED <<managerVars, registered, due>>

\* OK, INIT and OK_SOME_LOST; the last one also writes a warning to the log.
Accept(c) ==
  /\ failures' = [failures EXCEPT ![c] = 0]
  /\ late' = [late EXCEPT ![c] = FALSE]
  /\ due' = due \ {c}
  /\ status' = [status EXCEPT ![c] = "VALID"]
  /\ UNCHANGED <<managerVars, registered>>

SequenceChecked(c, seq) ==
  LET result == CheckResult(checker[c], seq, MaxGap)
  IN /\ checker' = [checker EXCEPT ![c] = CheckNext(@, seq)]
     /\ \/ result \in {"OK", "INIT", "OK_SOME_LOST"} /\ Accept(c)
        \/ /\ result = "REPEATED"
           /\ UNCHANGED <<managerVars, registered, status, failures, late, due>>
        \/ result = "ERROR" /\ Fail(c, "INVALID", "SEQ_ERROR") /\ UNCHANGED due

OnMessageReceived(c, seq, crcOk) ==
  /\ LockIsFree
  /\ c \in registered
  /\ IF crcOk THEN SequenceChecked(c, seq) ELSE CrcFailure(c)
  /\ UNCHANGED monitorVars

\* register_channel waits for the lock its caller holds.
OnUnregistered(c) ==
  /\ LockIsFree
  /\ c \notin registered
  /\ wedged' = TRUE
  /\ UNCHANGED <<managerVars, channelVars, due, monitor, todo, running>>
-----------------------------------------------------------------------------
(* The monitor thread *)

\* stop_monitoring has waited for the thread it stopped.
StartMonitoring ==
  /\ ~running /\ monitor = "asleep"
  /\ running' = TRUE
  /\ UNCHANGED <<managerVars, channelVars, due, wedged, monitor, todo>>

\* A round that is under way is finished.
StopMonitoring ==
  /\ running /\ running' = FALSE
  /\ UNCHANGED <<managerVars, channelVars, due, wedged, monitor, todo>>

\* Mutant: a channel whose messages were fine is not looked at.
ReadClockMissesValid ==
  /\ running /\ monitor = "asleep"
  /\ monitor' = "waiting"
  /\ due' = {c \in registered : late[c] /\ status[c] # "VALID"}
  /\ UNCHANGED <<managerVars, channelVars, wedged, todo, running>>

\* check_timeouts up to the lock.
ReadClock ==
  /\ running /\ monitor = "asleep"
  /\ monitor' = "waiting"
  /\ due' = {c \in registered : late[c]}
  /\ UNCHANGED <<managerVars, channelVars, wedged, todo, running>>

TakeLock ==
  /\ monitor = "waiting" /\ LockIsFree
  /\ monitor' = "loop"
  /\ todo' = registered
  /\ UNCHANGED <<managerVars, channelVars, due, wedged, running>>

\* Mutants: a timeout is counted and not reported; a channel that is already in
\* ERROR is counted on and reported again in every round.
TimeoutNotReported(c) ==
  /\ c \in due /\ status[c] # "ERROR"
  /\ failures' = [failures EXCEPT ![c] = @ + 1]
  /\ status' = [status EXCEPT ![c] = UpdatedStatus(failures'[c], "TIMEOUT")]
  /\ UNCHANGED <<managerVars, registered, late>>
TimeoutOfError(c) ==
  /\ c \in due
  /\ failures' = [failures EXCEPT ![c] = @ + 1]
  /\ status' = [status EXCEPT ![c] = UpdatedStatus(failures'[c], "TIMEOUT")]
  /\ NotifyFault("TIMEOUT", c, "other")
  /\ UNCHANGED <<registered, late>>

ChannelTimesOut(c) ==
  /\ c \in due /\ status[c] # "ERROR"
  /\ Fail(c, "TIMEOUT", "TIMEOUT")

CheckChannel(c) ==
  /\ monitor = "loop" /\ c \in todo
  /\ todo' = todo \ {c}
  /\ \/ ChannelTimesOut(c)
     \/ /\ c \notin due \/ status[c] = "ERROR"
        /\ UNCHANGED <<managerVars, registered, status, failures, late>>
  /\ UNCHANGED <<checker, due, wedged, monitor, running>>

\* Mutant: a thread that was stopped leaves its loop with the lock.
EndRoundIfRunning ==
  /\ running /\ monitor = "loop" /\ todo = {}
  /\ monitor' = "asleep"
  /\ due' = {}
  /\ UNCHANGED <<managerVars, channelVars, wedged, todo, running>>

EndRound ==
  /\ monitor = "loop" /\ todo = {}
  /\ monitor' = "asleep"
  /\ due' = {}
  /\ UNCHANGED <<managerVars, channelVars, wedged, todo, running>>
-----------------------------------------------------------------------------
(* The environment *)

\* deadline_ms pass without a valid message.
DeadlinePasses(c) ==
  /\ c \in registered /\ ~late[c]
  /\ late' = [late EXCEPT ![c] = TRUE]
  /\ UNCHANGED <<managerVars, registered, status, failures, checker, monitorVars, due>>

\* Other callers of the safety manager, and its timer threads.
OthersReport(f, s, a) ==
  /\ NotifyFault(f, s, a)
  /\ UNCHANGED supervisorVars

OthersRecover ==
  /\ Reset \/ \E s \in Source : NotifyRecovery(s)
  /\ UNCHANGED supervisorVars

ManagerTimers ==
  /\ TimerFires \/ TimeoutHandler \/ StaleTimeoutHandler
  /\ UNCHANGED supervisorVars

Monitor == ReadClock \/ TakeLock \/ EndRound \/ \E c \in Channel : CheckChannel(c)

SupervisorNext ==
  \/ \E c \in Channel : RegisterChannel(c) \/ OnUnregistered(c) \/ DeadlinePasses(c)
  \/ \E c \in Channel, seq \in 0..(SeqMod - 1), crcOk \in BOOLEAN :
       OnMessageReceived(c, seq, crcOk)
  \/ StartMonitoring \/ StopMonitoring
  \/ Monitor
  \/ \E f \in OtherFault, s \in Source, a \in Asil : OthersReport(f, s, a)
  \/ OthersRecover
  \/ ManagerTimers

SupervisorSpec == SupervisorInit /\ [][SupervisorNext]_vars

\* The monitor thread runs while monitoring is on.
FairSupervisorSpec == SupervisorSpec /\ WF_vars(Monitor)
-----------------------------------------------------------------------------
\* Every variable keeps its type: the type invariant of the module.
SupervisorTypeOK ==
  /\ TypeOK
  /\ registered \subseteq Channel
  /\ status \in [Channel -> E2EStatus]
  /\ failures \in [Channel -> 0..ERROR_THRESHOLD]
  /\ checker \in [Channel -> Checker]
  /\ late \in [Channel -> BOOLEAN]
  /\ wedged \in BOOLEAN /\ running \in BOOLEAN
  /\ monitor \in {"asleep", "waiting", "loop"}
  /\ due \subseteq registered /\ todo \subseteq registered

\* A channel is in ERROR exactly when its last three checks failed, whichever
\* mixture of CRC, sequence and timeout failures they were, and a channel that
\* is VALID has had a message accepted and no failure since.
StatusMatchesFailures ==
  \A c \in Channel :
    /\ status[c] = "ERROR" <=> failures[c] >= ERROR_THRESHOLD
    /\ status[c] = "VALID" => failures[c] = 0 /\ checker[c].last # NoSeq
    /\ status[c] \in {"INVALID", "TIMEOUT"} => failures[c] > 0

\* A timeout is reported only of a channel that is still silent: a message that
\* comes in while the monitor waits for the lock, with its old clock reading in
\* hand, is enough to save the channel.
TimeoutIsReal ==
  [][\A c \in Channel : status'[c] = "TIMEOUT" /\ failures'[c] > failures[c] => late[c]]_vars

\* A timeout or a sequence error found by the supervisor never leaves the safety
\* manager in NORMAL, however its calls interleave with those of others.
FailureDegrades ==
  [][\A c \in Channel :
       /\ failures'[c] > failures[c]
       /\ status'[c] = "TIMEOUT" \/ checker'[c] # checker[c]
       => state' # "NORMAL"]_vars

\* A channel that stays silent is taken out of VALID, unless monitoring is
\* stopped or a callback has wedged the lock.
SilenceIsReported ==
  \A c \in Channel :
    late[c] /\ status[c] = "VALID" ~>
      ~late[c] \/ status[c] # "VALID" \/ wedged \/ ~running

\* Everyone who needs the supervisor's lock finds it free again and again: a round
\* of the monitor ends even if monitoring is stopped in the middle of it.  The one
\* exception is a callback for an unregistered data_id, which keeps the lock for
\* ever.
LockIsReleased == []<>(LockIsFree \/ wedged)
=============================================================================
