--------------------------- MODULE SecureReceiver ---------------------------
(***************************************************************************)
(* One secured channel to a control node: a sender with the counters of    *)
(* e2e_encode and secoc_encode, a network that loses, repeats, reorders,   *)
(* corrupts and keeps messages for as long as it likes, and                *)
(* decode_secure_message of the node: rate limiter (ids_engine.c), MAC and *)
(* freshness (secoc.c), CRC and sequence counter (e2e_protection.c).  What *)
(* the node does with the outcome is Decode in ControlNode.                *)
(*                                                                         *)
(* The node measures time in ticks since it was started, modulo TickMod,   *)
(* and may be started again at any time.  The sender does not have that    *)
(* clock.  The one of tests/test_mcu_safety_security.py reads a tick of    *)
(* the node from a message of the node and puts it on what it sends, then  *)
(* or later; the master (secoc.py) stamps the time of day.                 *)
(*                                                                         *)
(* A message has its true number and the true time of the reading behind   *)
(* its stamp, and the ring the true times of its entries; the code sees    *)
(* the number modulo SeqMod, the stamp, and the ticks of those times.      *)
(* MAC and CRC are outcomes.  The sizes that the limiter averages have no  *)
(* influence on what it lets through and are left out.                     *)
(***************************************************************************)
EXTENDS Integers, Sequences, FiniteSets

CONSTANTS
  SeqMod,        \* 65536: the sequence counter has 16 bits
  TickMod,       \* 2^32: values of the tick counter
  MaxGap,        \* E2E_ASILD_MAX_GAP, 1
  ReplayWindow,  \* SECOC_REPLAY_WINDOW_MS, 5000 ticks
  RateWindow,    \* IDS_RATE_WINDOW_MS, 1000 ticks
  MaxRate,       \* IDS_RATE_MAX_MSG, 20
  Spare,         \* slots of the ring beyond MaxRate, 4
  FirstSeq,      \* the sender's counter when the node starts
  FirstTick,     \* ticks since the start of the node when the channel starts
  LastTick,      \* bound on the time
  MaxNet         \* bound on the messages that the network keeps

ASSUME CounterAssumption ==
  /\ SeqMod \in Nat /\ FirstSeq \in 0..(SeqMod - 1) /\ MaxGap \in Nat \ {0}
  /\ MaxRate \in Nat \ {0} /\ Spare \in Nat
  /\ RateWindow \in Nat /\ ReplayWindow \in Nat
\* The sender sends at most one message in a tick: those that are still fresh have
\* different counters, and are not within the gap of each other the wrong way round.
ASSUME FreshAssumption == ReplayWindow + MaxGap < SeqMod
\* The window of the limiter is less than half of the tick counter's range.
ASSUME TickAssumption == TickMod \in Nat /\ RateWindow < TickMod \div 2
ASSUME BoundsAssumption == /\ LastTick \in Nat /\ FirstTick \in 0..LastTick
                           /\ MaxNet \in Nat

VARIABLES
  now,       \* the time
  boot,      \* when the node was started
  clock,     \* what the sender stamps: "tick", a tick of the node, or "time_of_day"
  read,      \* the sender's last reading of the node's tick, and its time
  spoke,     \* the sender has sent in this tick
  sent,      \* how many messages have been sent
  net,       \* the messages that may still arrive
  ring,      \* timestamps, ts_head and ts_count of the channel's limiter
  lastSeq,   \* last_seq of the checker
  result,    \* of the last call of decode_secure_message
  admitted,  \* observed: when the messages of the last window passed the limiter
  lastNo     \* observed: the true number behind last_seq

sender == <<clock, read, spoke, sent>>
receiver == <<ring, lastSeq, lastNo, admitted>>
vars == <<now, boot, sender, net, receiver, result>>

\* xTaskGetTickCount at a time since the last start.
TickOf(t) == (t - boot) % TickMod
Tick == TickOf(now)
\* The milliseconds since 1970 are beyond every tick and its replay window.
TimeOfDay == TickMod + ReplayWindow
SeqOf(no) == (FirstSeq + no) % SeqMod
NoSeq == -1
Cap == MaxRate + Spare
Result == {"none", "flood", "mac", "replay", "crc", "sequence", "oversize", "accepted"}
Message == [no : Nat, at : Nat, ts : Nat]
NoResult == [kind |-> "none", at |-> 0]
EmptyRing == [at |-> [i \in 0..(Cap - 1) |-> 0], head |-> 0, count |-> 0]

Init ==
  /\ now = FirstTick /\ boot = 0
  /\ clock \in {"tick", "time_of_day"}
  /\ read = [at |-> now, ts |-> Tick] /\ spoke = FALSE /\ sent = 0
  /\ net = {}
  /\ ring = EmptyRing /\ lastSeq = NoSeq /\ lastNo = 0 /\ admitted = <<>>
  /\ result = NoResult
-----------------------------------------------------------------------------
(* The rate limiter. *)

\* Mutant: a timestamp at the start of the window does not count.
RecentWithoutFirst(r) ==
  Cardinality({i \in 0..(r.count - 1) :
    (TickOf(r.at[(r.head + i) % Cap]) - (Tick - RateWindow + 1)) % TickMod < TickMod \div 2})

\* count_in_window: the difference is unsigned and then taken as signed.
Recent(r) ==
  Cardinality({i \in 0..(r.count - 1) :
    (TickOf(r.at[(r.head + i) % Cap]) - (Tick - RateWindow)) % TickMod < TickMod \div 2})

\* Mutant: ts_count grows beyond the ring.
RecordedUncapped(r) ==
  [at |-> [r.at EXCEPT ![(r.head + r.count) % Cap] = now], head |-> r.head, count |-> r.count + 1]

Recorded(r) ==
  [at |-> [r.at EXCEPT ![(r.head + r.count) % Cap] = now],
   head |-> IF r.count < Cap THEN r.head ELSE (r.head + 1) % Cap,
   count |-> IF r.count < Cap THEN r.count + 1 ELSE Cap]

Flooded == Recent(ring) >= MaxRate

\* ids_check_message lets a message pass, whatever is found out about it later.
Admit ==
  /\ ~Flooded
  /\ ring' = Recorded(ring)
  /\ admitted' = Append(admitted, now)
-----------------------------------------------------------------------------
(* Freshness and sequence. *)

\* Mutant: a time stamp from the past is always fresh.
FreshIfPast(ts) == ts - Tick <= ReplayWindow

\* secoc_decode_ex: without regard to the counter's wrap-around.
IsFresh(ts) == /\ ts - Tick <= ReplayWindow
               /\ Tick - ts <= ReplayWindow

\* Mutant: a repeated number is in sequence.
InSequenceOrRepeated(seq) == lastSeq = NoSeq \/ (seq - lastSeq) % SeqMod <= MaxGap

\* e2e_seq_check: E2E_OK.
InSequence(seq) == lastSeq = NoSeq \/ (seq - lastSeq) % SeqMod \in 1..MaxGap
-----------------------------------------------------------------------------
(* The sender *)

\* _get_mcu_tick of the tests: the freshness value of a message of the node.
ReadTick ==
  /\ clock = "tick"
  /\ read' = [at |-> now, ts |-> Tick]
  /\ result' = NoResult
  /\ UNCHANGED <<now, boot, clock, spoke, sent, net, receiver>>

Stamped(no) ==
  IF clock = "tick" THEN [no |-> no, at |-> read.at, ts |-> read.ts]
  ELSE [no |-> no, at |-> now, ts |-> TimeOfDay]

\* e2e_encode takes the next counter, secoc_encode stamps.
Send ==
  /\ ~spoke /\ Cardinality(net) < MaxNet
  /\ spoke' = TRUE /\ sent' = sent + 1
  /\ net' = net \cup {Stamped(sent + 1)}
  /\ result' = NoResult
  /\ UNCHANGED <<now, boot, clock, read, receiver>>

Lose(m) ==
  /\ net' = net \ {m}
  /\ result' = NoResult
  /\ UNCHANGED <<now, boot, sender, receiver>>
-----------------------------------------------------------------------------
(* decode_secure_message; a message that was received may come again. *)

Reject(kind) ==
  /\ result' = [kind |-> kind, at |-> 0]
  /\ UNCHANGED <<now, boot, sender, net, lastSeq, lastNo>>

\* The limiter comes first, and what it drops is not recorded.
DropFlood ==
  /\ Flooded
  /\ Reject("flood")
  /\ UNCHANGED <<ring, admitted>>

\* A message that was changed on its way: mostly the MAC finds it, a fault of the
\* sender before the MAC is computed is left to the CRC.
ReceiveCorrupt(kind) == Admit /\ Reject(kind)

ReceiveStale(m) == ~IsFresh(m.ts) /\ Admit /\ Reject("replay")

\* Any other number than the last one becomes the last one, in sequence or not.
ReceiveOutOfSequence(m) ==
  /\ IsFresh(m.ts) /\ ~InSequence(SeqOf(m.no))
  /\ Admit
  /\ lastSeq' = SeqOf(m.no) /\ lastNo' = (IF SeqOf(m.no) = lastSeq THEN lastNo ELSE m.no)
  /\ result' = [kind |-> "sequence", at |-> 0]
  /\ UNCHANGED <<now, boot, sender, net>>

\* A payload that does not fit the buffer is dropped after the checker has moved.
ReceiveInSequence(m, fits) ==
  /\ IsFresh(m.ts) /\ InSequence(SeqOf(m.no))
  /\ Admit
  /\ lastSeq' = SeqOf(m.no) /\ lastNo' = m.no
  /\ result' = [kind |-> IF fits THEN "accepted" ELSE "oversize", at |-> m.at]
  /\ UNCHANGED <<now, boot, sender, net>>

\* The times of admission, the first of admitted, that the window leaves behind.
Past == {i \in 1..Len(admitted) : (now + 1) - admitted[i] > RateWindow}

TimePasses ==
  /\ now < LastTick /\ now' = now + 1 /\ spoke' = FALSE
  /\ admitted' = SubSeq(admitted, Cardinality(Past) + 1, Len(admitted))
  /\ result' = NoResult
  /\ UNCHANGED <<boot, clock, read, sent, net, ring, lastSeq, lastNo>>

\* ids_init, the new checkers and the tick counter of a node that is started again,
\* which takes time.
Reboot ==
  /\ now < LastTick /\ now' = now + 1 /\ spoke' = FALSE
  /\ boot' = now'
  /\ ring' = EmptyRing /\ lastSeq' = NoSeq /\ lastNo' = 0 /\ admitted' = <<>>
  /\ result' = NoResult
  /\ UNCHANGED <<clock, read, sent, net>>

Receive(m) ==
  \/ ReceiveStale(m) \/ ReceiveOutOfSequence(m)
  \/ \E fits \in BOOLEAN : ReceiveInSequence(m, fits)

Next ==
  \/ ReadTick \/ Send \/ TimePasses \/ Reboot \/ DropFlood
  \/ \E kind \in {"mac", "crc"} : ReceiveCorrupt(kind)
  \/ \E m \in net : Lose(m) \/ Receive(m)

Spec == Init /\ [][Next]_vars
-----------------------------------------------------------------------------
\* Every variable keeps its type, and ts_head and ts_count stay within the ring.
TypeOK ==
  /\ now \in FirstTick..LastTick /\ boot \in 0..now
  /\ clock \in {"tick", "time_of_day"} /\ read.at \in Nat /\ read.ts \in Nat
  /\ spoke \in BOOLEAN /\ sent \in Nat /\ net \subseteq Message
  /\ ring.at \in [0..(Cap - 1) -> Nat]
  /\ ring.head \in 0..(Cap - 1) /\ ring.count \in 0..Cap
  /\ lastSeq \in {NoSeq} \cup 0..(SeqMod - 1) /\ lastNo \in Nat
  /\ result.kind \in Result /\ result.at \in Nat
  /\ admitted \in Seq(Nat)

\* The ring still has a timestamp that is older than half of the tick's range, which
\* the signed difference takes for a recent one.
HasRelic ==
  \E i \in 0..(ring.count - 1) :
    now - ring.at[(ring.head + i) % Cap] > RateWindow + (TickMod \div 2)

\* The ring of timestamps does what a log of all messages would: at no time of the
\* node's life do more than IDS_RATE_MAX_MSG messages pass in a window, and none is
\* dropped as a flood unless so many have passed, except while the ring has a
\* timestamp from more than half of the tick's range ago: after 24.8 days of silence
\* the limiter counts messages from before.
RateIsExact ==
  /\ Len(admitted) <= MaxRate
  /\ result.kind = "flood" => Len(admitted) = MaxRate \/ HasRelic

\* A message with the time of day on it is never accepted, so the node does not hear
\* the master.  One with a tick of the node is accepted within
\* SECOC_REPLAY_WINDOW_MS of the reading of that tick, and otherwise only in the two
\* cases that the comparison of ticks cannot tell: the node was started again after
\* the reading, or the tick counter has gone round since.
AcceptedIsFresh ==
  result.kind = "accepted" =>
    /\ clock = "tick"
    /\ \/ now - result.at <= ReplayWindow
       \/ result.at < boot
       \/ now - result.at >= TickMod - ReplayWindow

\* Of a message whose reading is not older than the window, the checker's gap tells
\* the order: it is accepted only if it was sent after the message that last_seq is
\* from, the wrap-around of the counter included.  So a repeated or reordered message
\* is accepted only after a start of the node or after a counted sequence fault has
\* set last_seq back.
AcceptedMovesForward ==
  [][result'.kind = "accepted" /\ now - result'.at <= ReplayWindow => lastNo' > lastNo]_vars
=============================================================================
