------------------------------- MODULE SecOC -------------------------------
(***************************************************************************)
(* A secured channel of the master: src/src/master/secoc.py, the wrappers  *)
(* encode_secoc and decode_secoc of src/src/common/payloads.py, and the    *)
(* sequence check of src/src/common/e2e_protection.py behind them.         *)
(*                                                                         *)
(* The sender stamps a message with an E2E counter and with a freshness    *)
(* value, the time of day in milliseconds and a counter within the         *)
(* millisecond.  The time of day is not monotonic: it can be set back.     *)
(* The network loses, repeats, delays and reorders.  The receiver compares *)
(* the freshness with the last one it accepted and with its own clock, and *)
(* passes what is valid on to the sequence check.  The wrappers are used   *)
(* in two ways: with a FreshnessCounter that is kept, or with one made for *)
(* each message, as encode_secoc does; with the last freshness passed to   *)
(* secoc_decode, or without, as decode_secoc does.                         *)
(*                                                                         *)
(* A message whose MAC is wrong, or that is not fresh, changes nothing.    *)
(* The milliseconds need no width: 48 bits last for nine thousand years.   *)
(***************************************************************************)
EXTENDS SequenceChecker, Sequences, FiniteSets

CONSTANTS CounterMod,   \* 65536: the counter within a millisecond has 16 bits
          Window,       \* window_ms
          MaxGap,       \* max_gap of the sequence check
          MaxTime,      \* bound on the time of day
          MaxSent       \* bound on the messages sent

ASSUME ChannelAssumption == /\ CounterMod \in Nat \ {0} /\ Window \in Nat
                            /\ MaxTime \in Nat \ {0} /\ MaxSent \in Nat
ASSUME GapAssumption == MaxGap \in Nat \ {0} /\ MaxGap < SeqMod

VARIABLES
  keeps,     \* the sender keeps its FreshnessCounter
  tracks,    \* the receiver passes last_freshness
  now,       \* the time of day
  sent,      \* the messages sent; all of them stay in the network.  Their epoch is
             \* an observation: it counts how often time or counter started again
  counter,   \* the sender's FreshnessCounter
  last,      \* the last message accepted, whose freshness tracks keeps; 0 for None
  checker,   \* the receiver's SequenceChecker
  accepted   \* (observation) the messages accepted

modeVars == <<keeps, tracks>>
senderVars == <<sent, counter>>
receiverVars == <<last, checker, accepted>>
vars == <<modeVars, now, senderVars, receiverVars>>

NewCounter == [ts |-> 0, count |-> 0]

Init ==
  /\ keeps \in BOOLEAN /\ tracks \in BOOLEAN
  /\ now = 1
  /\ sent = <<>> /\ counter = NewCounter
  /\ last = 0 /\ checker = NewChecker /\ accepted = {}
-----------------------------------------------------------------------------
(* The sender *)

\* Mutant: the time of the last value is not kept.
NextForgetsTime(c) == [ts |-> now, count |-> IF now = 0 THEN (c.count + 1) % CounterMod ELSE 0]

\* FreshnessCounter.next
NextFreshness(c) ==
  [ts |-> now, count |-> IF now = c.ts THEN (c.count + 1) % CounterMod ELSE 0]

\* SequenceCounterState.next, from the number of messages sent before.
SeqOf(n) == (n - 1) % SeqMod

\* The epoch of the next message: a new one if the clock has gone back behind the
\* message before, or if this millisecond has had as many messages as the counter
\* has values.
Run == {i \in 1..Len(sent) : \A j \in i..Len(sent) : sent[j].fv.ts = now}
Epoch ==
  IF sent = <<>> THEN 0
  ELSE LET before == sent[Len(sent)]
           full == Run # {} /\ Cardinality(Run) % (IF keeps THEN CounterMod ELSE 1) = 0
       IN IF now < before.fv.ts \/ full THEN before.epoch + 1 ELSE before.epoch

EncodeSecoc ==
  LET fv == NextFreshness(IF keeps THEN counter ELSE NewCounter)
  IN /\ Len(sent) < MaxSent
     /\ sent' = Append(sent, [fv |-> fv, seq |-> SeqOf(Len(sent) + 1), epoch |-> Epoch])
     /\ counter' = IF keeps THEN fv ELSE counter
     /\ UNCHANGED <<modeVars, now, receiverVars>>
-----------------------------------------------------------------------------
(* The receiver *)

\* Mutant: "less" instead of "less or equal".
Older(a, b) == a.ts < b.ts \/ (a.ts = b.ts /\ a.count < b.count)

\* FreshnessValue.__le__
NotNewer(a, b) == a.ts < b.ts \/ (a.ts = b.ts /\ a.count <= b.count)

\* abs(fv.timestamp_ms - now_ms) <= window_ms
InWindow(fv) == now - fv.ts <= Window /\ fv.ts - now <= Window

\* secoc_decode, for a message whose MAC is right.
IsValid(i) ==
  /\ ~(tracks /\ last # 0 /\ NotNewer(sent[i].fv, sent[last].fv))
  /\ InWindow(sent[i].fv)

DecodeSecoc(i) ==
  /\ IsValid(i)
  /\ last' = i
  /\ checker' = CheckNext(checker, sent[i].seq)
  /\ accepted' = accepted \cup {i}
  /\ UNCHANGED <<modeVars, now, senderVars>>
-----------------------------------------------------------------------------
TimePasses ==
  /\ now < MaxTime /\ now' = now + 1
  /\ UNCHANGED <<modeVars, senderVars, receiverVars>>

ClockSetBack ==
  /\ now' \in 1..(now - 1)
  /\ UNCHANGED <<modeVars, senderVars, receiverVars>>

Next ==
  \/ EncodeSecoc
  \/ \E i \in 1..Len(sent) : DecodeSecoc(i)
  \/ TimePasses \/ ClockSetBack

Spec == Init /\ [][Next]_vars
-----------------------------------------------------------------------------
Freshness == [ts : 0..MaxTime, count : 0..(CounterMod - 1)]

\* Every variable keeps its type: the type invariant of the module.
TypeOK ==
  /\ keeps \in BOOLEAN /\ tracks \in BOOLEAN
  /\ now \in 1..MaxTime
  /\ counter \in Freshness
  /\ sent \in Seq([fv : Freshness, seq : 0..(SeqMod - 1), epoch : Nat])
  /\ accepted \subseteq 1..Len(sent) /\ last \in accepted \cup {0}
  /\ checker \in Checker

\* While the clock is not set back and no millisecond has more messages than its
\* counter has values, the receiver that passes last_freshness accepts exactly
\* what was sent after the last message it accepted and is in its window: the
\* order of freshness values is the order of sending.
FreshIsNewer ==
  tracks /\ last # 0 =>
    \A i \in 1..Len(sent) :
      sent[i].epoch = sent[last].epoch =>
        (IsValid(i) <=> i > last /\ sent[i].fv.ts \in (now - Window)..(now + Window))

\* It accepts no message twice, nor one that has the freshness of another, whatever
\* the clocks and counters do.
AcceptedOnce == tracks => \A i \in accepted : ~IsValid(i)

\* The verdict of the sequence check on what comes through is that of true message
\* numbers, across the overflow of the counter: next, some lost, too many lost,
\* repeated, and late, as long as fewer messages lie between than the counter can
\* tell apart.
SequenceTellsGap ==
  last # 0 =>
    \A i \in 1..Len(sent) :
      LET verdict == CheckResult(checker, sent[i].seq, MaxGap)
          gap == i - last
      IN /\ gap = 1 => verdict \in {"INIT", "OK"}
         /\ gap \in 2..MaxGap => verdict = "OK_SOME_LOST"
         /\ gap > MaxGap /\ gap < SeqMod => verdict = "ERROR"
         /\ gap = 0 => verdict = "REPEATED"
         /\ gap < 0 /\ gap > MaxGap - SeqMod => verdict = "ERROR"
=============================================================================
