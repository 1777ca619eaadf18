---------------------------- MODULE SecOC_proofs ----------------------------
(***************************************************************************)
(* Proofs about a secured channel of the master, for every width of the    *)
(* sequence counter and of the counter within a millisecond, every window  *)
(* and every gap the sequence check is given.                              *)
(***************************************************************************)
EXTENDS SecOC, FiniteSetTheorems, TLAPS

-----------------------------------------------------------------------------
(* Arithmetic with a modulus *)

\* Quotient and remainder of the counters' arithmetic, as TLA+ defines them.
LEMMA ModDef ==
  ASSUME NEW M \in Nat \ {0}, NEW x \in Int
  PROVE /\ x % M \in 0..(M-1) /\ x \div M \in Int /\ x = (M * (x \div M)) + (x % M)
  BY SMT

\* A number has one remainder.
LEMMA DivUnique ==
  ASSUME NEW M \in Nat \ {0}, NEW q \in Int, NEW r \in 0..(M-1), NEW p \in Int, NEW s \in 0..(M-1),
         M * q + r = M * p + s
  PROVE r = s
<1>1. M * (q - p) = s - r BY SMT
<1>2. s - r < M /\ s - r > -M BY SMT
<1>3. CASE q - p >= 1
  <2>1. M * (q - p) >= M BY <1>3, SMT
  <2> QED BY <2>1, <1>1, <1>2, SMT
<1>4. CASE q - p <= -1
  <2>1. M * (q - p) <= -M BY <1>4, SMT
  <2> QED BY <2>1, <1>1, <1>2, SMT
<1>5. CASE q = p BY <1>5, <1>1, SMT
<1> QED BY <1>3, <1>4, <1>5, SMT

\* Whoever shows a quotient and a remainder has the remainder.
LEMMA ModUnique ==
  ASSUME NEW M \in Nat \ {0}, NEW x \in Int, NEW q \in Int, NEW r \in 0..(M-1), x = (M * q) + r
  PROVE x % M = r
<1>1. x % M \in 0..(M-1) /\ x \div M \in Int /\ x = (M * (x \div M)) + (x % M) BY ModDef
<1> QED BY <1>1, DivUnique

\* The remainder of a number within one modulus of zero, on either side.
LEMMA ModSmall ==
  ASSUME NEW M \in Nat \ {0}, NEW x \in Int
  PROVE /\ x >= 0 /\ x < M => x % M = x
        /\ x < 0 /\ x > -M => x % M = x + M
<1>1. ASSUME x >= 0, x < M PROVE x % M = x
  <2>1. x = (M * 0) + x BY SMT
  <2> QED BY <1>1, <2>1, ModUnique
<1>2. ASSUME x < 0, x > -M PROVE x % M = x + M
  <2>1. x = (M * (-1)) + (x + M) BY SMT
  <2> QED BY <1>2, <2>1, ModUnique
<1> QED BY <1>1, <1>2

\* The difference of two remainders is that of the numbers: a 16-bit counter tells
\* distances.
LEMMA ModDifference ==
  ASSUME NEW M \in Nat \ {0}, NEW a \in Int, NEW b \in Int
  PROVE ((a % M) - (b % M)) % M = (a - b) % M
<1>1. PICK q \in Int, r \in 0..(M-1) : a - b = (M * q) + r /\ r = (a - b) % M
  <2>1. a - b \in Int BY SMT
  <2> QED BY <2>1, ModDef
<1>2. a % M \in 0..(M-1) /\ a \div M \in Int /\ a = (M * (a \div M)) + (a % M) BY ModDef
<1>3. b % M \in 0..(M-1) /\ b \div M \in Int /\ b = (M * (b \div M)) + (b % M) BY ModDef
<1>4. (a % M) - (b % M) = (M * (q - (a \div M) + (b \div M))) + r
  BY <1>1, <1>2, <1>3, SMT
<1>5. (a % M) - (b % M) \in Int /\ q - (a \div M) + (b \div M) \in Int BY <1>2, <1>3, SMT
<1>6. ((a % M) - (b % M)) % M = r BY <1>4, <1>5, ModUnique
<1> QED BY <1>1, <1>6
\* The successor of a remainder, as both counters compute it: it is the remainder
\* of the successor, and larger unless it is zero.
LEMMA ModSuccessor ==
  ASSUME NEW M \in Nat \ {0}, NEW x \in Int
  PROVE /\ ((x % M) + 1) % M = (x + 1) % M
        /\ (x + 1) % M # 0 => (x + 1) % M = (x % M) + 1
<1>1. x % M \in 0..(M-1) /\ x \div M \in Int /\ x = (M * (x \div M)) + (x % M) BY ModDef
<1>2. CASE (x % M) + 1 < M
  <2>1. x + 1 = (M * (x \div M)) + ((x % M) + 1) BY <1>1, SMT
  <2>2. x + 1 \in Int /\ (x % M) + 1 \in 0..(M-1) /\ (x % M) + 1 \in Int BY <1>1, <1>2, SMT
  <2>3. (x + 1) % M = (x % M) + 1 BY <1>1, <2>1, <2>2, ModUnique
  <2>4. (x % M) + 1 = (M * 0) + ((x % M) + 1) BY <2>2, SMT
  <2>5. ((x % M) + 1) % M = (x % M) + 1 BY <2>2, <2>4, ModUnique
  <2> QED BY <2>3, <2>5
<1>3. CASE (x % M) + 1 = M
  <2>1. x + 1 = (M * ((x \div M) + 1)) + 0 BY <1>1, <1>3, SMT
  <2>2. (x + 1) % M = 0
    <3>1. x + 1 \in Int /\ (x \div M) + 1 \in Int /\ 0 \in 0..(M-1) BY <1>1, SMT
    <3> QED BY <2>1, <3>1, ModUnique
  <2>3. M % M = 0
    <3>1. M = (M * 1) + 0 /\ M \in Int /\ 0 \in 0..(M-1) BY SMT
    <3> QED BY <3>1, ModUnique
  <2> QED BY <2>2, <2>3, <1>3
<1> QED BY <1>1, <1>2, <1>3, SMT

\* The distance that the sequence check computes between messages number a and b
\* is the true one, modulo the counter's width.
LEMMA DeltaIsDistance ==
  ASSUME NEW a \in Nat \ {0}, NEW b \in Nat \ {0}, NEW chk, chk.last = SeqOf(b)
  PROVE Delta(chk, SeqOf(a)) = (a - b) % SeqMod
<1>1. ((a - 1) % SeqMod) - ((b - 1) % SeqMod) \in Int
  BY ModDef, SeqModAssumption, SMT
<1>2. (((a - 1) % SeqMod) - ((b - 1) % SeqMod)) % SeqMod = ((a - 1) - (b - 1)) % SeqMod
  <2>1. a - 1 \in Int /\ b - 1 \in Int BY SMT
  <2> QED BY <2>1, ModDifference, SeqModAssumption
<1>3. (a - 1) - (b - 1) = a - b BY SMT
<1> QED BY <1>2, <1>3 DEF Delta, SeqOf
-----------------------------------------------------------------------------
(* The inductive invariant *)

\* A message carries the remainder of its number.
NumbersAreTrue == \A i \in 1..Len(sent) : sent[i].seq = SeqOf(i)

\* The sequence check is at the message that was accepted last.
CheckerInStep == checker.last = IF last = 0 THEN NoSeq ELSE sent[last].seq

\* A receiver that passes last_freshness has accepted nothing newer than its last.
LastIsNewest ==
  /\ accepted # {} => last # 0
  /\ tracks => \A i \in accepted : NotNewer(sent[i].fv, sent[last].fv)

\* The messages since which every one has had the sender's last millisecond.
LastRun == {i \in 1..Len(sent) : \A j \in i..Len(sent) : sent[j].fv.ts = counter.ts}

\* A counter that is kept is the last message's, and has counted the messages of
\* its millisecond.
CountIsTrue ==
  keeps => /\ sent = <<>> => counter = NewCounter
           /\ sent # <<>> => /\ counter = sent[Len(sent)].fv
                             /\ counter.count = (Cardinality(LastRun) - 1) % CounterMod

\* Epochs follow each other, and within one, freshness values increase.
FreshnessGrows ==
  \A i, j \in 1..Len(sent) :
    i < j => /\ sent[i].epoch <= sent[j].epoch
             /\ sent[i].epoch = sent[j].epoch => ~NotNewer(sent[j].fv, sent[i].fv)

IInv ==
  /\ TypeOK /\ NumbersAreTrue /\ CheckerInStep /\ LastIsNewest
  /\ CountIsTrue /\ FreshnessGrows
-----------------------------------------------------------------------------
Message == [fv : Freshness, seq : 0..(SeqMod - 1), epoch : Nat]

\* The next freshness value and the next sequence number have their types.
LEMMA NextTypes ==
  ASSUME TypeOK, NEW c \in Freshness, NEW n \in Nat \ {0}
  PROVE NextFreshness(c) \in Freshness /\ SeqOf(n) \in 0..(SeqMod - 1)
<1>1. (c.count + 1) % CounterMod \in 0..(CounterMod - 1)
  BY ChannelAssumption, SMT DEF Freshness
<1>2. 0 \in 0..(CounterMod - 1) /\ now \in 0..MaxTime
  BY ChannelAssumption, SMT DEF TypeOK
<1>3. (n - 1) % SeqMod \in 0..(SeqMod - 1) BY SeqModAssumption, SMT
<1> QED BY <1>1, <1>2, <1>3, SMT DEF NextFreshness, SeqOf, Freshness

\* The order of freshness values is total and transitive.
LEMMA FreshnessOrder ==
  ASSUME NEW a \in Freshness, NEW b \in Freshness, NEW c \in Freshness
  PROVE /\ NotNewer(a, a)
        /\ ~NotNewer(a, b) => NotNewer(b, a)
        /\ NotNewer(a, b) /\ NotNewer(b, c) => NotNewer(a, c)
        /\ ~NotNewer(a, b) /\ ~NotNewer(b, c) => ~NotNewer(a, c)
  BY ChannelAssumption, SMT DEF Freshness, NotNewer

\* How a freshness value gets newer: by a later millisecond or by the next count.
LEMMA FreshnessIncreases ==
  ASSUME NEW a \in Freshness, NEW b \in Freshness,
         a.ts > b.ts \/ (a.ts = b.ts /\ a.count = b.count + 1)
  PROVE ~NotNewer(a, b)
  BY ChannelAssumption, SMT DEF Freshness, NotNewer

\* The checker after a message: at that message, with a count within its bound.
LEMMA CheckNextIsThere ==
  ASSUME NEW chk \in Checker, NEW seq \in 0..(SeqMod - 1)
  PROVE CheckNext(chk, seq) \in Checker /\ CheckNext(chk, seq).last = seq
  BY SeqModAssumption, SMT DEF Checker, CheckNext, Counted, NoSeq

\* What encoding appends, and that it leaves the rest alone.
LEMMA Appended ==
  ASSUME NEW S, NEW s \in Seq(S), NEW m \in S
  PROVE /\ Append(s, m) \in Seq(S) /\ Len(Append(s, m)) = Len(s) + 1 /\ Len(s) \in Nat
        /\ Append(s, m)[Len(s) + 1] = m
        /\ \A i \in 1..Len(s) : Append(s, m)[i] = s[i] /\ s[i] \in S
  BY SMT

\* The last element of a sequence that is not empty.
LEMMA LastOfSequence ==
  ASSUME NEW S, NEW s \in Seq(S), s # <<>>
  PROVE Len(s) \in 1..Len(s) /\ Len(s) \in Nat \ {0} /\ s[Len(s)] \in S
  BY SMT

\* The epoch of a new message is that of the one before, or the next one; and if it
\* is the same, the clock has not gone back and the counter has not come round.
LEMMA EpochGrows ==
  ASSUME TypeOK, sent # <<>>
  PROVE /\ Epoch \in Nat
        /\ Epoch >= sent[Len(sent)].epoch
        /\ Epoch = sent[Len(sent)].epoch =>
             /\ now >= sent[Len(sent)].fv.ts
             /\ Run # {} => Cardinality(Run) % (IF keeps THEN CounterMod ELSE 1) # 0
<1> DEFINE before == sent[Len(sent)]
           full == Run # {} /\ Cardinality(Run) % (IF keeps THEN CounterMod ELSE 1) = 0
<1>1. before.epoch \in Nat /\ before.fv.ts \in Nat /\ now \in Nat
  <2>1. before \in Message BY LastOfSequence DEF TypeOK, Message
  <2> HIDE DEF before
  <2> QED BY <2>1, ChannelAssumption, SMT DEF TypeOK, Message, Freshness
<1>2. Epoch = IF now < before.fv.ts \/ full THEN before.epoch + 1 ELSE before.epoch
  BY Zenon DEF Epoch
<1> HIDE DEF before, full
<1>3. /\ Epoch \in Nat /\ Epoch >= before.epoch
      /\ Epoch = before.epoch => now >= before.fv.ts /\ ~full
  BY <1>1, <1>2, SMT
<1> QED BY <1>3 DEF before, full

\* The run of messages in the present millisecond is finite, and contains the last
\* message exactly if that has this millisecond.
LEMMA RunFacts ==
  ASSUME TypeOK
  PROVE /\ IsFiniteSet(Run) /\ Cardinality(Run) \in Nat
        /\ sent = <<>> => Run = {}
        /\ sent # <<>> => (Run # {} <=> sent[Len(sent)].fv.ts = now)
        /\ Len(sent) + 1 \notin Run
<1>1. Run \subseteq 1..Len(sent) /\ Len(sent) \in Nat BY SMT DEF Run, TypeOK
<1>2. IsFiniteSet(Run)
  <2>1. 1 \in Int /\ Len(sent) \in Int BY <1>1, SMT
  <2>2. IsFiniteSet(1..Len(sent)) BY <2>1, FS_Interval
  <2> QED BY <1>1, <2>2, FS_Subset
<1>3. Cardinality(Run) \in Nat BY <1>2, FS_CardinalityType
<1>4. Len(sent) + 1 \notin Run BY <1>1, SMT
<1>5. ASSUME sent = <<>> PROVE Run = {} BY <1>5, SMT DEF Run
<1>6. ASSUME sent # <<>> PROVE Run # {} <=> sent[Len(sent)].fv.ts = now
  <2>1. Len(sent) \in 1..Len(sent) BY <1>6, LastOfSequence DEF TypeOK
  <2>2. ASSUME NEW i \in Run PROVE sent[Len(sent)].fv.ts = now
    <3>1. Len(sent) \in i..Len(sent) BY <2>1, <2>2, <1>1, SMT
    <3> QED BY <2>2, <3>1 DEF Run
  <2>3. ASSUME sent[Len(sent)].fv.ts = now PROVE Len(sent) \in Run
    <3>1. \A j \in Len(sent)..Len(sent) : j = Len(sent) BY <1>1, SMT
    <3> QED BY <2>1, <2>3, <3>1 DEF Run
  <2> QED BY <2>2, <2>3
<1> QED BY <1>2, <1>3, <1>4, <1>5, <1>6
NewMessage ==
  [fv |-> NextFreshness(IF keeps THEN counter ELSE NewCounter),
   seq |-> SeqOf(Len(sent) + 1), epoch |-> Epoch]

\* What encoding does to the messages sent.
LEMMA Encoded ==
  ASSUME TypeOK, EncodeSecoc
  PROVE /\ NewMessage \in Message
        /\ sent' \in Seq(Message) /\ Len(sent) \in Nat /\ Len(sent') = Len(sent) + 1
        /\ sent'[Len(sent) + 1] = NewMessage
        /\ \A i \in 1..Len(sent) : sent'[i] = sent[i] /\ sent[i] \in Message
<1>1. sent' = Append(sent, NewMessage) BY DEF EncodeSecoc, NewMessage
<1>2. sent \in Seq(Message) BY DEF TypeOK, Message
<1>3. NewMessage \in Message
  <2>1. NewCounter \in Freshness BY ChannelAssumption, SMT DEF NewCounter, Freshness
  <2>2. (IF keeps THEN counter ELSE NewCounter) \in Freshness BY <2>1 DEF TypeOK
  <2>3. Len(sent) + 1 \in Nat \ {0} BY <1>2, SMT
  <2>4. Epoch \in Nat
    <3>1. CASE sent = <<>> BY <3>1 DEF Epoch
    <3>2. CASE sent # <<>> BY <3>2, EpochGrows
    <3> QED BY <3>1, <3>2
  <2> QED BY <2>2, <2>3, <2>4, NextTypes DEF NewMessage, Message
<1> HIDE DEF NewMessage
<1> QED BY <1>1, <1>2, <1>3, Appended

\* Encoding a message adds it to the run of its millisecond.
LEMMA RunGrows ==
  ASSUME TypeOK, EncodeSecoc, keeps
  PROVE /\ LastRun' = Run \cup {Len(sent) + 1}
        /\ Cardinality(LastRun') = Cardinality(Run) + 1
<1> DEFINE L == Len(sent)
<1>1. counter'.ts = now BY DEF EncodeSecoc, NextFreshness
<1>2. /\ Len(sent') = L + 1 /\ L \in Nat
      /\ sent'[L + 1].fv.ts = now
      /\ \A i \in 1..L : sent'[i] = sent[i]
  BY Encoded DEF NewMessage, NextFreshness
<1> HIDE DEF L
<1>3. LastRun' = {i \in 1..(L + 1) : \A j \in i..(L + 1) : sent'[j].fv.ts = now}
  BY <1>1, <1>2 DEF LastRun
<1>4. Run = {i \in 1..L : \A j \in i..L : sent[j].fv.ts = now} BY DEF Run, L
<1>5. LastRun' = Run \cup {L + 1}
  <2>1. ASSUME NEW i \in 1..L PROVE i \in LastRun' <=> i \in Run
    <3>1. i..(L + 1) = (i..L) \cup {L + 1} /\ i \in 1..(L + 1) BY <1>2, <2>1, SMT
    <3>2. \A j \in i..L : sent'[j] = sent[j] BY <1>2, <2>1, SMT
    <3> QED BY <1>2, <1>3, <1>4, <2>1, <3>1, <3>2
  <2>2. L + 1 \in LastRun'
    <3>1. L + 1 \in 1..(L + 1) /\ \A j \in (L + 1)..(L + 1) : j = L + 1 BY <1>2, SMT
    <3> QED BY <1>2, <1>3, <3>1
  <2>3. 1..(L + 1) = (1..L) \cup {L + 1} BY <1>2, SMT
  <2>4. LastRun' \subseteq 1..(L + 1) /\ Run \subseteq 1..L BY <1>3, <1>4
  <2> QED BY <2>1, <2>2, <2>3, <2>4
<1>6. Cardinality(Run \cup {L + 1}) = Cardinality(Run) + 1
  BY RunFacts, FS_AddElement DEF L
<1> QED BY <1>5, <1>6 DEF L
-----------------------------------------------------------------------------
(* The steps *)

\* Encoding keeps the counter's account of its millisecond.
LEMMA EncodeCounts ==
  ASSUME IInv, EncodeSecoc
  PROVE CountIsTrue'
<1> SUFFICES ASSUME keeps
             PROVE /\ sent' # <<>> /\ counter' = sent'[Len(sent')].fv
                   /\ counter'.count = (Cardinality(LastRun') - 1) % CounterMod
  BY DEF CountIsTrue, EncodeSecoc, modeVars
<1> USE DEF IInv
<1>1. counter' = NextFreshness(counter) BY DEF EncodeSecoc
<1>2. sent' # <<>> /\ counter' = sent'[Len(sent')].fv
  BY <1>1, Encoded, SMT DEF NewMessage
<1>3. Cardinality(Run) \in Nat /\ Cardinality(LastRun') - 1 = Cardinality(Run)
  BY RunGrows, RunFacts, SMT
<1>4. counter'.count = Cardinality(Run) % CounterMod
  <2>1. CASE now = counter.ts
    <3>1. sent # <<>> BY <2>1, SMT DEF TypeOK, CountIsTrue, NewCounter
    <3>2. counter.count = (Cardinality(LastRun) - 1) % CounterMod BY <3>1 DEF CountIsTrue
    <3>3. LastRun = Run BY <2>1 DEF LastRun, Run
    <3>4. counter'.count = (counter.count + 1) % CounterMod BY <1>1, <2>1 DEF NextFreshness
    <3>5. Cardinality(Run) - 1 \in Int /\ (Cardinality(Run) - 1) + 1 = Cardinality(Run)
      BY <1>3, SMT
    <3> QED BY <3>2, <3>3, <3>4, <3>5, ModSuccessor, ChannelAssumption
  <2>2. CASE now # counter.ts
    <3>1. counter'.count = 0 BY <1>1, <2>2 DEF NextFreshness
    <3>2. Run = {} BY <2>2, RunFacts DEF CountIsTrue
    <3>3. Cardinality(Run) = 0 BY <3>2, FS_EmptySet
    <3>4. 0 % CounterMod = 0 BY ModSmall, ChannelAssumption, SMT
    <3> QED BY <3>1, <3>3, <3>4
  <2> QED BY <2>1, <2>2
<1> QED BY <1>2, <1>3, <1>4

\* A new message of the same epoch is newer than the one before.
LEMMA EncodeIsNewer ==
  ASSUME IInv, EncodeSecoc, sent # <<>>, Epoch = sent[Len(sent)].epoch
  PROVE ~NotNewer(NewMessage.fv, sent[Len(sent)].fv)
<1> USE DEF IInv
<1> DEFINE before == sent[Len(sent)].fv
<1>1. before \in Freshness /\ NewMessage.fv \in Freshness
  BY Encoded, LastOfSequence DEF TypeOK, Message
<1>2. NewMessage.fv.ts = now BY DEF NewMessage, NextFreshness
<1>3. now >= before.ts BY EpochGrows
<1>4. CASE now > before.ts
  BY <1>1, <1>2, <1>4, FreshnessIncreases
<1>5. CASE now = before.ts
  <2>1. Run # {} /\ Cardinality(Run) \in Nat BY <1>5, RunFacts
  <2>2. Cardinality(Run) % (IF keeps THEN CounterMod ELSE 1) # 0 BY <2>1, EpochGrows
  <2>3. keeps
    <3>1. Cardinality(Run) % 1 = 0 BY <2>1, ModDef, SMT
    <3> QED BY <2>2, <3>1
  <2>4. counter = before BY <2>3 DEF CountIsTrue
  <2>5. NewMessage.fv.count = (before.count + 1) % CounterMod
    BY <1>5, <2>3, <2>4 DEF NewMessage, NextFreshness
  <2>6. before.count = (Cardinality(Run) - 1) % CounterMod
    <3>1. LastRun = Run BY <1>5, <2>4 DEF LastRun, Run
    <3> QED BY <2>3, <2>4, <3>1 DEF CountIsTrue
  <2>7. Cardinality(Run) - 1 \in Int /\ (Cardinality(Run) - 1) + 1 = Cardinality(Run)
    BY <2>1, SMT
  <2>8. NewMessage.fv.count = before.count + 1
    <3> DEFINE k == Cardinality(Run)
    <3>1. /\ (((k - 1) % CounterMod) + 1) % CounterMod = ((k - 1) + 1) % CounterMod
          /\ ((k - 1) + 1) % CounterMod # 0 =>
               ((k - 1) + 1) % CounterMod = ((k - 1) % CounterMod) + 1
      BY <2>7, ModSuccessor, ChannelAssumption
    <3>2. k % CounterMod = before.count + 1 BY <2>2, <2>3, <2>6, <2>7, <3>1
    <3>3. (before.count + 1) % CounterMod = ((k - 1) + 1) % CounterMod BY <2>6, <3>1
    <3>4. ((k - 1) + 1) % CounterMod = k % CounterMod BY <2>7
    <3> QED BY <2>5, <3>2, <3>3, <3>4, Zenon
  <2> QED BY <1>1, <1>2, <1>5, <2>8, FreshnessIncreases
<1>6. now > before.ts \/ now = before.ts
  <2>1. now \in Int BY SMT DEF TypeOK
  <2>2. PICK b \in Int : b = before.ts
    <3>1. before.ts \in 0..MaxTime BY <1>1 DEF Freshness
    <3> QED BY <3>1
  <2>3. now >= b BY <1>3, <2>2
  <2>4. now > b \/ now = b BY <2>1, <2>3, SMT
  <2> QED BY <2>2, <2>4
<1> QED BY <1>4, <1>5, <1>6, Zenon

\* Encoding a message preserves the invariant.
LEMMA EncodeStep ==
  ASSUME IInv, EncodeSecoc
  PROVE IInv'
<1> USE DEF IInv
<1> DEFINE L == Len(sent)
<1>1. /\ NewMessage \in Message
      /\ sent' \in Seq(Message) /\ L \in Nat /\ Len(sent') = L + 1
      /\ sent'[L + 1] = NewMessage
      /\ \A i \in 1..L : sent'[i] = sent[i] /\ sent[i] \in Message
  BY Encoded
<1>2. /\ 1..(L + 1) = (1..L) \cup {L + 1} /\ L + 1 \in Nat \ {0}
      /\ \A i \in 1..L : i < L + 1 /\ i <= L /\ i \in Nat /\ ~(L + 1 < i)
  BY <1>1, SMT
<1>3. UNCHANGED <<keeps, tracks, now, last, checker, accepted>>
  BY DEF EncodeSecoc, modeVars, receiverVars
<1>4. TypeOK'
  <2>1. counter' \in Freshness
    <3>1. CASE keeps
      <4>1. counter' = NewMessage.fv BY <3>1 DEF EncodeSecoc, NewMessage
      <4> QED BY <4>1, <1>1 DEF Message
    <3>2. CASE ~keeps BY <3>2 DEF EncodeSecoc, TypeOK
    <3> QED BY <3>1, <3>2
  <2>2. accepted \subseteq 1..(L + 1) BY <1>2 DEF TypeOK
  <2> QED BY <1>1, <1>3, <2>1, <2>2 DEF TypeOK, Message
<1>5. NumbersAreTrue'
  <2>1. sent'[L + 1].seq = SeqOf(L + 1) BY <1>1 DEF NewMessage
  <2> QED BY <1>1, <1>2, <2>1 DEF NumbersAreTrue, SeqOf
<1>6. CheckerInStep' BY <1>1, <1>3 DEF CheckerInStep, TypeOK
<1>7. LastIsNewest'
  <2>1. \A i \in accepted : i \in 1..L /\ last \in 1..L BY DEF TypeOK, LastIsNewest
  <2> QED BY <1>1, <1>3, <2>1 DEF LastIsNewest, NotNewer
<1>8. CountIsTrue' BY EncodeCounts
<1>9. FreshnessGrows'
  <2> SUFFICES ASSUME NEW i \in 1..(L + 1), NEW j \in 1..(L + 1), i < j
               PROVE /\ sent'[i].epoch <= sent'[j].epoch
                     /\ sent'[i].epoch = sent'[j].epoch => ~NotNewer(sent'[j].fv, sent'[i].fv)
    BY <1>1 DEF FreshnessGrows, NotNewer
  <2>1. i \in 1..L BY <1>1, SMT
  <2>2. CASE j \in 1..L BY <1>1, <2>1, <2>2 DEF FreshnessGrows
  <2>3. CASE j = L + 1
    <3>1. sent # <<>> /\ L \in 1..L BY <2>1, <1>1, SMT
    <3>2. sent'[j].epoch = Epoch /\ sent'[j].fv = NewMessage.fv BY <1>1, <2>3 DEF NewMessage
    <3>3. Epoch \in Nat /\ Epoch >= sent[L].epoch BY <3>1, EpochGrows
    <3>4. Epoch = sent[L].epoch => ~NotNewer(NewMessage.fv, sent[L].fv)
      BY <3>1, EncodeIsNewer
    <3>5. /\ sent[i].epoch \in Nat /\ sent[L].epoch \in Nat
          /\ sent[i].fv \in Freshness /\ sent[L].fv \in Freshness
          /\ NewMessage.fv \in Freshness
      BY <1>1, <2>1, <3>1 DEF Message
    <3>6. CASE i = L BY <1>1, <2>1, <3>2, <3>3, <3>4, <3>5, <3>6, SMT
    <3>7. CASE i < L
      <4>1. /\ sent[i].epoch <= sent[L].epoch
            /\ sent[i].epoch = sent[L].epoch => ~NotNewer(sent[L].fv, sent[i].fv)
        BY <2>1, <3>1, <3>7 DEF FreshnessGrows
      <4>2. sent[i].epoch <= Epoch BY <3>3, <3>5, <4>1, SMT
      <4>3. sent[i].epoch = Epoch => sent[i].epoch = sent[L].epoch /\ Epoch = sent[L].epoch
        BY <3>3, <3>5, <4>1, SMT
      <4>4. sent[i].epoch = Epoch => ~NotNewer(NewMessage.fv, sent[i].fv)
        BY <3>4, <3>5, <4>1, <4>3, FreshnessOrder
      <4> QED BY <1>1, <2>1, <3>2, <4>2, <4>4
    <3> QED BY <1>2, <2>1, <3>1, <3>6, <3>7, SMT
  <2> QED BY <1>2, <2>2, <2>3
<1> QED BY <1>4, <1>5, <1>6, <1>7, <1>8, <1>9

\* Accepting a message preserves the invariant.
LEMMA DecodeStep ==
  ASSUME IInv, NEW i \in 1..Len(sent), DecodeSecoc(i)
  PROVE IInv'
<1> USE DEF IInv
<1>1. /\ UNCHANGED <<keeps, tracks, now, sent, counter>>
      /\ last' = i /\ accepted' = accepted \cup {i}
      /\ checker' = CheckNext(checker, sent[i].seq)
  BY DEF DecodeSecoc, modeVars, senderVars
<1>2. /\ sent \in Seq(Message) /\ Len(sent) \in Nat
      /\ \A j \in 1..Len(sent) : sent[j] \in Message
  <2>1. sent \in Seq(Message) BY DEF TypeOK, Message
  <2> QED BY <2>1, SMT
<1>3. sent[i].seq \in 0..(SeqMod - 1) /\ sent[i].fv \in Freshness BY <1>2 DEF Message
<1>4. checker' \in Checker /\ checker'.last = sent[i].seq
  BY <1>1, <1>3, CheckNextIsThere DEF TypeOK
<1>5. i # 0 /\ i \in Nat BY <1>2, SMT
<1>6. TypeOK' BY <1>1, <1>4 DEF TypeOK
<1>7. NumbersAreTrue' BY <1>1 DEF NumbersAreTrue, SeqOf
<1>8. CheckerInStep' BY <1>1, <1>4, <1>5 DEF CheckerInStep
<1>9. LastIsNewest'
  <2> SUFFICES ASSUME tracks, NEW j \in accepted \cup {i}
               PROVE NotNewer(sent[j].fv, sent[i].fv)
    BY <1>1, <1>5 DEF LastIsNewest, NotNewer
  <2>1. CASE j = i BY <1>3, <2>1, FreshnessOrder
  <2>2. CASE j \in accepted
    <3>1. last # 0 /\ last \in 1..Len(sent) /\ j \in 1..Len(sent)
      BY <2>2 DEF LastIsNewest, TypeOK
    <3>2. NotNewer(sent[j].fv, sent[last].fv) BY <2>2 DEF LastIsNewest
    <3>3. ~NotNewer(sent[i].fv, sent[last].fv) BY <3>1 DEF DecodeSecoc, IsValid
    <3>4. sent[j].fv \in Freshness /\ sent[last].fv \in Freshness BY <1>2, <3>1 DEF Message
    <3> QED BY <1>3, <3>2, <3>3, <3>4, FreshnessOrder
  <2> QED BY <2>1, <2>2
<1>10. CountIsTrue' BY <1>1 DEF CountIsTrue, LastRun
<1>11. FreshnessGrows' BY <1>1 DEF FreshnessGrows, NotNewer
<1> QED BY <1>6, <1>7, <1>8, <1>9, <1>10, <1>11
\* The clock enters the types only.
LEMMA ClockStep ==
  ASSUME IInv, TimePasses \/ ClockSetBack \/ UNCHANGED vars
  PROVE IInv'
<1> USE DEF IInv
<1>1. UNCHANGED <<keeps, tracks, sent, counter, last, checker, accepted>>
  BY DEF TimePasses, ClockSetBack, vars, modeVars, senderVars, receiverVars
<1>2. now' \in 1..MaxTime
  BY ChannelAssumption, SMT DEF TypeOK, TimePasses, ClockSetBack, vars
<1>3. TypeOK' BY <1>1, <1>2 DEF TypeOK
<1>4. NumbersAreTrue' /\ CheckerInStep'
  BY <1>1 DEF NumbersAreTrue, SeqOf, CheckerInStep
<1>5. LastIsNewest' /\ CountIsTrue' /\ FreshnessGrows'
  BY <1>1 DEF LastIsNewest, NotNewer, CountIsTrue, LastRun, FreshnessGrows
<1> QED BY <1>3, <1>4, <1>5

\* The invariant holds when nothing has been sent.
LEMMA InitInvariant == Init => IInv
<1> SUFFICES ASSUME Init PROVE IInv OBVIOUS
<1>1. Len(sent) = 0 /\ 1..Len(sent) = {} BY SMT DEF Init
<1>2. TypeOK
  <2>1. now \in 1..MaxTime BY ChannelAssumption, SMT DEF Init
  <2>2. counter \in Freshness
    BY ChannelAssumption, SMT DEF Init, NewCounter, Freshness
  <2>3. checker \in Checker
    BY SeqModAssumption, SMT DEF Init, NewChecker, Checker, NoSeq
  <2>4. sent \in Seq([fv : Freshness, seq : 0..(SeqMod - 1), epoch : Nat])
    BY SMT DEF Init
  <2> QED BY <1>1, <2>1, <2>2, <2>3, <2>4 DEF Init, TypeOK
<1>3. NumbersAreTrue /\ FreshnessGrows BY <1>1 DEF NumbersAreTrue, FreshnessGrows
<1>4. CheckerInStep /\ LastIsNewest
  BY DEF Init, CheckerInStep, LastIsNewest, NewChecker
<1>5. CountIsTrue BY DEF Init, CountIsTrue
<1> QED BY <1>2, <1>3, <1>4, <1>5 DEF IInv

\* IInv is an invariant of the channel.
LEMMA Invariance == Spec => []IInv
<1>1. ASSUME IInv, [Next]_vars PROVE IInv'
  <2>1. CASE EncodeSecoc BY <1>1, <2>1, EncodeStep
  <2>2. CASE \E i \in 1..Len(sent) : DecodeSecoc(i) BY <1>1, <2>2, DecodeStep
  <2>3. CASE TimePasses \/ ClockSetBack \/ UNCHANGED vars BY <1>1, <2>3, ClockStep
  <2> QED BY <1>1, <2>1, <2>2, <2>3 DEF Next
<1> QED BY <1>1, InitInvariant, PTL DEF Spec
-----------------------------------------------------------------------------
(* The theorems *)

\* The variables of sender and receiver keep their types, for every width of the
\* counters, every window and every bound.
THEOREM TypeCorrect == Spec => []TypeOK
<1>1. IInv => TypeOK BY DEF IInv
<1> QED BY <1>1, Invariance, PTL

\* secoc_decode accepts no freshness value twice when it is passed the last one,
\* whatever the clocks and counters do.
THEOREM NoReplay == Spec => []AcceptedOnce
<1>1. IInv => AcceptedOnce
  BY DEF IInv, LastIsNewest, AcceptedOnce, IsValid
<1> QED BY <1>1, Invariance, PTL

\* The order in which secoc_decode compares freshness values is the order of sending,
\* as long as the clock is not set back and the counter of a millisecond has not
\* come round.
THEOREM FreshnessSafety == Spec => []FreshIsNewer
<1>1. ASSUME IInv PROVE FreshIsNewer
  <2> SUFFICES ASSUME tracks, last # 0, NEW i \in 1..Len(sent), sent[i].epoch = sent[last].epoch
               PROVE IsValid(i) <=>
                       i > last /\ sent[i].fv.ts \in (now - Window)..(now + Window)
    BY DEF FreshIsNewer
  <2> USE <1>1 DEF IInv
  <2>1. sent \in Seq(Message) BY DEF TypeOK, Message
  <2>2. last \in 1..Len(sent) BY DEF TypeOK
  <2>3. sent[i] \in Message /\ sent[last] \in Message /\ i \in Nat /\ last \in Nat
    BY <2>1, <2>2, SMT
  <2>4. sent[i].fv \in Freshness /\ sent[last].fv \in Freshness BY <2>3 DEF Message
  <2>5. InWindow(sent[i].fv) <=> sent[i].fv.ts \in (now - Window)..(now + Window)
    <3>1. sent[i].fv.ts \in 0..MaxTime BY <2>4 DEF Freshness
    <3>2. now \in 1..MaxTime BY DEF TypeOK
    <3>3. PICK t \in Int : t = sent[i].fv.ts BY <3>1
    <3>4. now \in Int /\ Window \in Int BY <3>2, ChannelAssumption
    <3>5. (now - t <= Window /\ t - now <= Window) <=> t \in (now - Window)..(now + Window)
      BY <3>4, SMT
    <3> QED BY <3>3, <3>5 DEF InWindow
  <2>6. NotNewer(sent[i].fv, sent[last].fv) <=> ~(i > last)
    <3>1. CASE i > last BY <2>2, <2>3, <3>1, SMT DEF FreshnessGrows
    <3>2. CASE i = last BY <2>4, <3>2, FreshnessOrder
    <3>3. CASE i < last
      <4>1. ~NotNewer(sent[last].fv, sent[i].fv) BY <2>2, <3>3 DEF FreshnessGrows
      <4>2. ~(i > last) BY <2>3, <3>3, SMT
      <4> QED BY <2>4, <4>1, <4>2, FreshnessOrder
    <3>4. i = last => ~(i > last) BY <2>3, SMT
    <3> QED BY <2>3, <3>1, <3>2, <3>3, <3>4, SMT
  <2> QED BY <2>5, <2>6 DEF IsValid
<1> QED BY <1>1, Invariance, PTL

\* SequenceChecker.check tells the next message from a gap, a gap from a loss that is
\* too large, a repetition and a late message from either, across the overflow of
\* the counter, for every width and every max_gap below it.
THEOREM SequenceSafety == Spec => []SequenceTellsGap
<1>1. ASSUME IInv PROVE SequenceTellsGap
  <2> SUFFICES ASSUME last # 0, NEW i \in 1..Len(sent)
               PROVE LET verdict == CheckResult(checker, sent[i].seq, MaxGap)
                         gap == i - last
                     IN /\ gap = 1 => verdict \in {"INIT", "OK"}
                        /\ gap \in 2..MaxGap => verdict = "OK_SOME_LOST"
                        /\ gap > MaxGap /\ gap < SeqMod => verdict = "ERROR"
                        /\ gap = 0 => verdict = "REPEATED"
                        /\ gap < 0 /\ gap > MaxGap - SeqMod => verdict = "ERROR"
    BY DEF SequenceTellsGap
  <2> USE <1>1 DEF IInv
  <2> DEFINE gap == i - last
             delta == Delta(checker, sent[i].seq)
             verdict == CheckResult(checker, sent[i].seq, MaxGap)
  <2>1. last \in 1..Len(sent) /\ Len(sent) \in Nat BY SMT DEF TypeOK
  <2>2. i \in Nat \ {0} /\ last \in Nat \ {0} /\ gap \in Int BY <2>1, SMT
  <2>3. checker.last = SeqOf(last) /\ sent[i].seq = SeqOf(i)
    BY <2>1 DEF CheckerInStep, NumbersAreTrue
  <2>4. delta = gap % SeqMod BY <2>2, <2>3, DeltaIsDistance
  <2>5. checker.last # NoSeq
    <3>1. (last - 1) % SeqMod \in 0..(SeqMod - 1) BY <2>2, SeqModAssumption, SMT
    <3>2. SeqOf(last) \in 0..(SeqMod - 1) BY <3>1 DEF SeqOf
    <3> QED BY <2>3, <3>2, SeqModAssumption, SMT DEF NoSeq
  <2>6. /\ gap >= 0 /\ gap < SeqMod => delta = gap
        /\ gap < 0 /\ gap > -SeqMod => delta = gap + SeqMod
    BY <2>2, <2>4, ModSmall, SeqModAssumption
  <2>7. verdict = CASE delta = 0 -> "REPEATED"
                    [] delta = 1 -> IF Counted(checker) < InitCount THEN "INIT" ELSE "OK"
                    [] delta >= 2 /\ delta <= MaxGap -> "OK_SOME_LOST"
                    [] delta >= 2 /\ delta > MaxGap -> "ERROR"
    BY <2>5 DEF CheckResult
  <2> HIDE DEF gap, delta, verdict
  <2>8. /\ gap = 1 => delta = 1
        /\ gap \in 2..MaxGap => delta \in 2..MaxGap
        /\ gap > MaxGap /\ gap < SeqMod => delta >= 2 /\ delta > MaxGap /\ delta \in Int
        /\ gap = 0 => delta = 0
        /\ gap < 0 /\ gap > MaxGap - SeqMod => delta >= 2 /\ delta > MaxGap /\ delta \in Int
    BY <2>2, <2>6, GapAssumption, SeqModAssumption, SMT
  <2>9. /\ delta = 1 => verdict \in {"INIT", "OK"}
        /\ delta \in 2..MaxGap => verdict = "OK_SOME_LOST"
        /\ delta >= 2 /\ delta > MaxGap /\ delta \in Int => verdict = "ERROR"
        /\ delta = 0 => verdict = "REPEATED"
    BY <2>7, GapAssumption, SMT
  <2>10. /\ gap = 1 => verdict \in {"INIT", "OK"}
         /\ gap \in 2..MaxGap => verdict = "OK_SOME_LOST"
         /\ gap > MaxGap /\ gap < SeqMod => verdict = "ERROR"
         /\ gap = 0 => verdict = "REPEATED"
         /\ gap < 0 /\ gap > MaxGap - SeqMod => verdict = "ERROR"
    BY <2>8, <2>9
  <2> QED BY <2>10 DEF gap, verdict
<1> QED BY <1>1, Invariance, PTL
=============================================================================
