----------------------- MODULE SecureReceiver_proofs -----------------------
(***************************************************************************)
(* Proofs about a secured channel to a control node, for every width of    *)
(* the sequence counter and of the tick counter, every rate and every      *)
(* window that the assumptions of SecureReceiver allow.                    *)
(***************************************************************************)
EXTENDS SecureReceiver, FiniteSetTheorems, SequenceTheorems, TLAPS

(***************************************************************************)
(* The inductive invariant.  The code sees counters and times only modulo  *)
(* their widths; the invariant says what the true ones are: how far a      *)
(* message in the network can be behind the sender, which number is behind *)
(* last_seq, and which moments the entries of the ring stand for.          *)
(***************************************************************************)

\* A stamp of this life of the node is its tick at the time of the reading.
StampInv(at, ts) == at <= now /\ (at >= boot => ts = TickOf(at))

\* What the sender has read, and how far a message can be behind the sender: one
\* message in a tick, so not further in number than its reading is in time.
NetInv ==
  /\ StampInv(read.at, read.ts)
  /\ \A m \in net :
       /\ m.no \in 1..sent /\ m.at <= now
       /\ sent - m.no <= now - m.at
       /\ ~spoke => sent - m.no < now - m.at
       /\ clock = "tick" => StampInv(m.at, m.ts)
       /\ clock # "tick" => m.ts = TimeOfDay

\* last_seq is the counter of a message that has been sent.
SeqInv ==
  /\ lastNo <= sent
  /\ lastSeq = NoSeq => lastNo = 0
  /\ lastSeq # NoSeq => lastSeq = SeqOf(lastNo)

\* The i-th of the ring's timestamps, the oldest first.
Entry(r, i) == r.at[(r.head + i) % Cap]

\* The newest entries of the ring are the messages of the window, in order, and
\* what is before them was admitted before the window.
RingInv ==
  LET first == ring.count - Len(admitted)
  IN /\ Len(admitted) <= MaxRate /\ Len(admitted) <= ring.count
     /\ \A i \in 1..Len(admitted) :
          /\ admitted[i] \in boot..now /\ now - admitted[i] <= RateWindow
          /\ Entry(ring, first + i - 1) = admitted[i]
          /\ \A j \in 1..Len(admitted) : i <= j => admitted[i] <= admitted[j]
     /\ \A i \in 0..(first - 1) :
          Entry(ring, i) \in boot..now /\ now - Entry(ring, i) > RateWindow

IInv == TypeOK /\ NetInv /\ SeqInv /\ RingInv /\ RateIsExact /\ AcceptedIsFresh
-----------------------------------------------------------------------------
(* Arithmetic with a modulus *)

\* Quotient and remainder, as TLA+ defines them.
LEMMA ModDef ==
  ASSUME NEW M \in Nat \ {0}, NEW x \in Int
  PROVE /\ x % M \in 0..(M-1) /\ x \div M \in Int /\ x = (M * (x \div M)) + (x % M)
  BY SMT

\* Whoever shows a quotient and a remainder has the remainder.
LEMMA ModUnique ==
  ASSUME NEW M \in Nat \ {0}, NEW x \in Int, NEW q \in Int, NEW r \in 0..(M-1), x = (M * q) + r
  PROVE x % M = r
  <1>1. PICK p \in Int, s \in 0..(M-1) : x = (M * p) + s /\ s = x % M
    BY ModDef
  <1>2. M * (q - p) = s - r
    BY <1>1, SMT
  <1>3. CASE q - p >= 1
    <2>1. M * (q - p) >= M
      BY <1>3, SMT
    <2> QED BY <2>1, <1>2, SMT
  <1>4. CASE q - p <= -1
    <2>1. M * (q - p) <= -M
      BY <1>4, SMT
    <2> QED BY <2>1, <1>2, SMT
  <1>5. CASE q = p
    <2>1. s = r
      BY <1>2, <1>5, SMT
    <2> QED BY <1>1, <2>1
  <1> QED BY <1>3, <1>4, <1>5, SMT

\* Multiples of the modulus do not matter.
LEMMA ModShift ==
  ASSUME NEW M \in Nat \ {0}, NEW x \in Int, NEW k \in Int
  PROVE (x + (M * k)) % M = x % M
  <1>1. PICK q \in Int, r \in 0..(M-1) : x = (M * q) + r /\ r = x % M
    BY ModDef
  <1>2. x + (M * k) \in Int /\ q + k \in Int /\ x + (M * k) = (M * (q + k)) + r
    BY <1>1, SMT
  <1>3. (x + (M * k)) % M = r
    BY <1>2, ModUnique
  <1> QED BY <1>1, <1>3

\* The remainder of a number that is not a modulus away from the first range.
LEMMA ModNear ==
  ASSUME NEW M \in Nat \ {0}, NEW x \in Int
  PROVE /\ x >= 0 /\ x < M => x % M = x
        /\ x < 0 /\ x >= -M => x % M = x + M
        /\ x >= M /\ x < 2 * M => x % M = x - M
  <1>1. ASSUME x >= 0, x < M PROVE x % M = x
    <2>1. x = (M * 0) + x /\ x \in 0..(M-1)
      BY <1>1, SMT
    <2> QED BY <2>1, ModUnique
  <1>2. ASSUME x < 0, x >= -M PROVE x % M = x + M
    <2>1. x = (M * (-1)) + (x + M) /\ x + M \in 0..(M-1) /\ -1 \in Int
      BY <1>2, SMT
    <2> QED BY <2>1, ModUnique
  <1>3. ASSUME x >= M, x < 2 * M PROVE x % M = x - M
    <2>1. x = (M * 1) + (x - M) /\ x - M \in 0..(M-1)
      BY <1>3, SMT
    <2> QED BY <2>1, ModUnique
  <1> QED BY <1>1, <1>2, <1>3

\* The difference of two remainders is that of the numbers but for a multiple of
\* the modulus, so that they have one remainder.
LEMMA ModDifference ==
  ASSUME NEW M \in Nat \ {0}, NEW a \in Int, NEW b \in Int
  PROVE \E k \in Int : (a % M) - (b % M) = (a - b) + (M * k)
  <1>1. PICK p \in Int, r \in 0..(M-1) : a = (M * p) + r /\ r = a % M
    BY ModDef
  <1>2. PICK q \in Int, s \in 0..(M-1) : b = (M * q) + s /\ s = b % M
    BY ModDef
  <1>3. r - s = (a - b) + (M * (q - p)) /\ q - p \in Int
    BY <1>1, <1>2, SMT
  <1> QED BY <1>1, <1>2, <1>3

\* The same with a constant added, as the limiter computes it.
LEMMA ModDistance ==
  ASSUME NEW M \in Nat \ {0}, NEW a \in Int, NEW b \in Int, NEW c \in Int
  PROVE ((a % M) - ((b % M) - c)) % M = ((a - b) + c) % M
  <1>1. PICK k \in Int : (a % M) - (b % M) = (a - b) + (M * k)
    BY ModDifference
  <1>2. /\ a % M \in Int /\ b % M \in Int /\ (a - b) + c \in Int
    BY SMT
  <1>3. (a % M) - ((b % M) - c) = ((a - b) + c) + (M * k)
    BY <1>1, <1>2, SMT
  <1>4. (((a - b) + c) + (M * k)) % M = ((a - b) + c) % M
    BY <1>2, ModShift
  <1> QED BY <1>3, <1>4

\* The widths of the counters are not zero, and the ring has a slot.
LEMMA Widths ==
  /\ SeqMod \in Nat \ {0} /\ TickMod \in Nat \ {0} /\ Cap \in Nat \ {0} /\ MaxRate <= Cap
  /\ 2 * (TickMod \div 2) <= TickMod
  <1>1. SeqMod \in Nat \ {0} /\ Cap \in Nat \ {0} /\ MaxRate <= Cap
    BY CounterAssumption, SMT DEF Cap
  <1>2. TickMod \in Nat \ {0} /\ 2 * (TickMod \div 2) <= TickMod
    <2>1. TickMod \in Int /\ 2 \in Nat \ {0}
      BY TickAssumption, SMT
    <2>2. PICK h, x : h = TickMod \div 2 /\ x = TickMod % 2
      OBVIOUS
    <2>3. x \in 0..1 /\ h \in Int /\ TickMod = (2 * h) + x
      <3>1. /\ TickMod % 2 \in 0..(2 - 1) /\ TickMod \div 2 \in Int
            /\ TickMod = (2 * (TickMod \div 2)) + (TickMod % 2)
        BY <2>1, ModDef
      <3>2. 2 - 1 = 1
        BY SMT
      <3> QED BY <2>2, <3>1, <3>2
    <2>4. TickMod \in Nat /\ RateWindow < h /\ RateWindow \in Nat
      BY <2>2, TickAssumption, CounterAssumption
    <2>5. TickMod \in Nat \ {0} /\ 2 * h <= TickMod
      BY <2>3, <2>4, SMT
    <2> QED BY <2>2, <2>5
  <1> QED BY <1>1, <1>2
-----------------------------------------------------------------------------
(* What the code computes, in terms of the true numbers and times *)

\* count_in_window: the signed difference takes every moment of the window for one,
\* wherever the tick counter has wrapped, and no other one of the last half of the
\* counter's range.
LEMMA WindowTest ==
  ASSUME NEW b \in Nat, NEW t \in Nat, NEW n \in Nat, b <= t, t <= n
  PROVE LET test == (((t - b) % TickMod) - (((n - b) % TickMod) - RateWindow)) % TickMod
                      < TickMod \div 2
        IN /\ n - t <= RateWindow => test
           /\ test => n - t <= RateWindow \/ n - t > RateWindow + (TickMod \div 2)
  <1>1. PICK h \in Nat : h = TickMod \div 2 /\ RateWindow < h /\ 2 * h <= TickMod
    <2>1. TickMod \div 2 \in Nat
      BY TickAssumption, SMT
    <2> QED BY <2>1, Widths, TickAssumption
  <1>2. PICK M \in Nat \ {0}, W \in Nat : M = TickMod /\ W = RateWindow /\ W < h /\ 2 * h <= M
    BY <1>1, Widths, CounterAssumption
  <1>3. PICK x \in Int : x = (t - n) + W
    BY SMT
  <1>4. (((t - b) % M) - (((n - b) % M) - W)) % M = x % M
    <2>1. PICK p \in Int, q \in Int : p = t - b /\ q = n - b /\ (p - q) + W = x
      BY <1>3, SMT
    <2>2. W \in Int
      BY SMT
    <2>3. ((p % M) - ((q % M) - W)) % M = ((p - q) + W) % M
      BY <2>2, ModDistance, Zenon
    <2> QED BY <2>1, <2>3
  <1>5. ASSUME n - t <= W PROVE x % M < h
    <2>1. x >= 0 /\ x < M /\ x < h
      BY <1>2, <1>3, <1>5, SMT
    <2>2. x % M = x
      BY <2>1, ModNear
    <2> QED BY <2>1, <2>2
  <1>6. ASSUME n - t > W, ~ (n - t > W + h) PROVE ~ (x % M < h)
    <2>1. x < 0 /\ x >= -M /\ ~ (x + M < h)
      BY <1>2, <1>3, <1>6, SMT
    <2>2. x % M = x + M
      BY <2>1, ModNear
    <2> QED BY <2>1, <2>2
  <1>7. n - t <= W \/ n - t > W
    BY SMT
  <1> QED BY <1>1, <1>2, <1>4, <1>5, <1>6, <1>7

\* secoc_decode_ex: the comparison does not know of the wrap-around, so a stamp that
\* passes it was read within the window or about one wrap-around ago.
LEMMA FreshIsRecent ==
  ASSUME now \in Nat, boot \in Nat, NEW at \in Nat, boot <= at, at <= now, IsFresh(TickOf(at))
  PROVE now - at <= ReplayWindow \/ now - at >= TickMod - ReplayWindow
  <1>1. PICK k \in Int :
          ((now - boot) % TickMod) - ((at - boot) % TickMod) = (now - at) + (TickMod * k)
    <2>1. now - boot \in Int /\ at - boot \in Int /\ (now - boot) - (at - boot) = now - at
      BY SMT
    <2>2. \E k \in Int : ((now - boot) % TickMod) - ((at - boot) % TickMod)
                            = ((now - boot) - (at - boot)) + (TickMod * k)
      BY <2>1, Widths, ModDifference
    <2> QED BY <2>1, <2>2
  <1>2. PICK x, y : x = (now - boot) % TickMod /\ y = (at - boot) % TickMod
    OBVIOUS
  <1>3. x \in 0..(TickMod - 1) /\ y \in 0..(TickMod - 1)
    <2>1. now - boot \in Int /\ at - boot \in Int
      BY SMT
    <2> QED BY <1>2, <2>1, Widths, ModDef
  <1>4. x - y <= ReplayWindow /\ y - x <= ReplayWindow
    BY <1>2 DEF IsFresh, Tick, TickOf
  <1>5. PICK z \in Int : z = TickMod * k /\ x - y = (now - at) + z /\ (k >= 0 => z >= 0)
                         /\ (k < 0 => z <= -TickMod)
    <2>1. TickMod * k \in Int /\ (k >= 0 => TickMod * k >= 0) /\ (k < 0 => TickMod * k <= -TickMod)
      BY Widths, SMT
    <2> QED BY <1>1, <1>2, <2>1
  <1> QED BY <1>3, <1>4, <1>5, Widths, CounterAssumption, SMT

\* The time of day is beyond the window of every tick.
LEMMA TimeOfDayIsStale == ASSUME Tick \in 0..(TickMod - 1) PROVE ~ IsFresh(TimeOfDay)
  BY Widths, CounterAssumption, SMT DEF IsFresh, TimeOfDay

\* e2e_seq_check: of two messages whose numbers are not too far apart, the one in
\* sequence is the later one, the wrap-around of the counter included.
LEMMA InSequenceIsLater ==
  ASSUME NEW a \in Nat, NEW b \in Nat, b - a <= ReplayWindow,
         (SeqOf(a) - SeqOf(b)) % SeqMod \in 1..MaxGap
  PROVE a > b
  <1> SUFFICES ASSUME a <= b PROVE FALSE
    BY SMT
  <1>1. FirstSeq + a \in Int /\ FirstSeq + b \in Int /\ a - b \in Int /\ 0 \in Int
    BY CounterAssumption, SMT
  <1>2. PICK k \in Int : SeqOf(a) - SeqOf(b) = ((FirstSeq + a) - (FirstSeq + b)) + (SeqMod * k)
    BY <1>1, Widths, ModDifference DEF SeqOf
  <1>3. (FirstSeq + a) - (FirstSeq + b) = a - b
    BY CounterAssumption, SMT
  <1>4. (a - b) % SeqMod \in 1..MaxGap
    <2>1. ((a - b) + (SeqMod * k)) % SeqMod = (a - b) % SeqMod
      BY <1>1, Widths, ModShift
    <2> QED BY <1>2, <1>3, <2>1
  <1>5. CASE a = b
    <2>1. a - b = 0 /\ 0 < SeqMod
      BY <1>5, Widths, SMT
    <2>2. (a - b) % SeqMod = 0
      BY <2>1, <1>1, Widths, ModNear
    <2> QED BY <2>2, <1>4, SMT
  <1>6. CASE a # b
    <2>1. a - b < 0 /\ a - b >= -SeqMod
      BY <1>6, CounterAssumption, FreshAssumption, SMT
    <2>2. (a - b) % SeqMod = (a - b) + SeqMod
      BY <1>1, <2>1, Widths, ModNear
    <2> QED BY <1>4, <2>2, CounterAssumption, FreshAssumption, SMT
  <1> QED BY <1>5, <1>6
-----------------------------------------------------------------------------
(* The ring of timestamps *)

RingTypes(r) ==
  /\ r.at \in [0..(Cap - 1) -> Nat]
  /\ r.head \in 0..(Cap - 1) /\ r.count \in 0..Cap

\* The slot of the i-th entry of a ring with its head at h, without the modulus.
Slot(h, i) == IF h + i < Cap THEN h + i ELSE (h + i) - Cap

\* It is what the code's modulus gives, and a slot of the ring.
LEMMA SlotFacts ==
  ASSUME NEW h \in 0..(Cap - 1), NEW i \in 0..Cap
  PROVE (h + i) % Cap = Slot(h, i) /\ Slot(h, i) \in 0..(Cap - 1)
  <1>1. PICK x \in Int : x = h + i
    BY Widths, SMT
  <1>2. x >= 0 /\ x < 2 * Cap
    BY <1>1, Widths, SMT
  <1>3. x % Cap = IF x < Cap THEN x ELSE x - Cap
    <2>1. CASE x < Cap
      BY <1>2, <2>1, Widths, ModNear
    <2>2. CASE x >= Cap
      <3>1. x % Cap = x - Cap
        BY <1>2, <2>2, Widths, ModNear
      <3>2. ~ (x < Cap)
        BY <2>2, Widths, SMT
      <3> QED BY <3>1, <3>2
    <2> QED BY <2>1, <2>2, Widths, SMT
  <1>4. Slot(h, i) \in 0..(Cap - 1)
    BY Widths, SMT DEF Slot
  <1> QED BY <1>1, <1>3, <1>4 DEF Slot

\* Different entries are in different slots; the entry behind the last of a full
\* ring is in the slot of its head; and to move the head is to move the entries.
LEMMA SlotOrder ==
  ASSUME NEW h \in 0..(Cap - 1)
  PROVE /\ \A i, j \in 0..(Cap - 1) : Slot(h, i) = Slot(h, j) => i = j
        /\ Slot(h, 0) = h /\ Slot(h, Cap) = h
        /\ \A j \in 0..(Cap - 1) : Slot(Slot(h, 1), j) = Slot(h, j + 1)
  BY Widths, SMT DEF Slot

\* record_timestamp: the time becomes the newest entry; the others keep their order
\* and only the oldest one of a full ring is lost.
LEMMA RecordedFacts ==
  ASSUME NEW r, RingTypes(r), now \in Nat
  PROVE \E s \in {0, 1} :
          /\ s = 1 <=> r.count = Cap
          /\ RingTypes(Recorded(r)) /\ Recorded(r).count = r.count + 1 - s
          /\ \A j \in 0..(r.count - s - 1) : Entry(Recorded(r), j) = Entry(r, j + s)
          /\ Entry(Recorded(r), r.count - s) = now
  <1>1. PICK h \in 0..(Cap - 1), c \in 0..Cap, f \in [0..(Cap - 1) -> Nat] :
          h = r.head /\ c = r.count /\ f = r.at
    BY DEF RingTypes
  <1>2. PICK h2, c2, g : h2 = Recorded(r).head /\ c2 = Recorded(r).count /\ g = Recorded(r).at
    OBVIOUS
  <1>3. (h + c) % Cap = Slot(h, c) /\ Slot(h, c) \in 0..(Cap - 1) /\ Cap \in Nat \ {0}
    BY SlotFacts, Widths
  <1>4. /\ g = [f EXCEPT ![Slot(h, c)] = now]
        /\ h2 = IF c < Cap THEN h ELSE (h + 1) % Cap
        /\ c2 = IF c < Cap THEN c + 1 ELSE Cap
    BY <1>1, <1>2, <1>3 DEF Recorded
  <1>5. /\ g \in [0..(Cap - 1) -> Nat] /\ g[Slot(h, c)] = now
        /\ \A x \in 0..(Cap - 1) : x # Slot(h, c) => g[x] = f[x]
    BY <1>3, <1>4
  <1>6. \A i \in 0..Cap : Entry(r, i) = f[Slot(h, i)]
    BY <1>1, SlotFacts DEF Entry
  <1>7. CASE c < Cap
    <2>1. h2 = h /\ c2 = c + 1 /\ c2 \in 0..Cap /\ c \in 0..(Cap - 1)
      BY <1>3, <1>4, <1>7, SMT
    <2>2. \A i \in 0..Cap : Entry(Recorded(r), i) = g[Slot(h, i)]
      BY <1>2, <2>1, SlotFacts DEF Entry
    <2>3. ASSUME NEW j \in 0..(c - 1) PROVE Entry(Recorded(r), j) = Entry(r, j)
      <3>1. j \in 0..Cap /\ j \in 0..(Cap - 1) /\ j # c
        BY <1>3, <1>7, SMT
      <3>2. Slot(h, j) # Slot(h, c) /\ Slot(h, j) \in 0..(Cap - 1)
        BY <2>1, <3>1, SlotFacts, SlotOrder
      <3> QED BY <1>5, <1>6, <2>2, <3>1, <3>2
    <2>4. Entry(Recorded(r), c) = now
      BY <1>5, <2>2
    <2>5. RingTypes(Recorded(r))
      BY <1>2, <1>5, <2>1 DEF RingTypes
    <2>6. /\ c - 0 = c /\ c + 1 - 0 = c + 1 /\ c # Cap /\ \A j \in 0..(c - 1) : j + 0 = j
      BY <1>3, <1>7, SMT
    <2> WITNESS 0 \in {0, 1}
    <2> QED BY <1>1, <1>2, <2>1, <2>3, <2>4, <2>5, <2>6
  <1>8. CASE c = Cap
    <2>1. Slot(h, 1) \in 0..(Cap - 1) /\ (h + 1) % Cap = Slot(h, 1) /\ Cap \in 0..Cap
      <3>1. 1 \in 0..Cap /\ Cap \in 0..Cap
        BY <1>3, SMT
      <3> QED BY <3>1, SlotFacts
    <2>2. h2 = Slot(h, 1) /\ c2 = Cap /\ Slot(h, c) = h
      <3>1. ~ (c < Cap)
        BY <1>3, <1>8, SMT
      <3> QED BY <1>4, <1>8, <2>1, <3>1, SlotOrder
    <2>3. ASSUME NEW j \in 0..(Cap - 1)
          PROVE  /\ Entry(Recorded(r), j) = g[Slot(h, j + 1)] /\ j + 1 \in 0..Cap
                 /\ Slot(h, j + 1) \in 0..(Cap - 1)
      <3>1. j \in 0..Cap /\ j + 1 \in 0..Cap
        BY <1>3, SMT
      <3>2. Entry(Recorded(r), j) = g[Slot(h2, j)]
        BY <1>2, <2>1, <2>2, <3>1, SlotFacts DEF Entry
      <3> QED BY <2>2, <3>1, <3>2, SlotFacts, SlotOrder
    <2>4. ASSUME NEW j \in 0..(Cap - 2) PROVE Entry(Recorded(r), j) = Entry(r, j + 1)
      <3>1. j \in 0..(Cap - 1) /\ j + 1 \in 0..(Cap - 1) /\ 0 \in 0..(Cap - 1) /\ j + 1 # 0
        BY <1>3, SMT
      <3>2. Slot(h, j + 1) # Slot(h, c)
        BY <2>2, <3>1, SlotOrder
      <3> QED BY <1>5, <1>6, <2>3, <3>1, <3>2
    <2>5. Entry(Recorded(r), Cap - 1) = now
      <3>1. Cap - 1 \in 0..(Cap - 1) /\ Cap - 1 + 1 = Cap
        BY <1>3, SMT
      <3> QED BY <1>5, <1>8, <2>3, <3>1
    <2>6. RingTypes(Recorded(r))
      BY <1>2, <1>5, <2>1, <2>2 DEF RingTypes
    <2>7. Cap + 1 - 1 = Cap /\ Cap - 1 - 1 = Cap - 2
      BY <1>3, SMT
    <2> WITNESS 1 \in {0, 1}
    <2> QED BY <1>1, <1>2, <1>8, <2>2, <2>4, <2>5, <2>6, <2>7
  <1>9. c < Cap \/ c = Cap
    BY <1>3, SMT
  <1> QED BY <1>7, <1>8, <1>9

\* The tick has its type.
LEMMA TickType == ASSUME TypeOK PROVE now \in Nat /\ boot \in Nat /\ Tick \in 0..(TickMod - 1)
  <1>1. now \in Nat /\ boot \in Nat /\ now - boot \in Int
    BY BoundsAssumption, SMT DEF TypeOK
  <1> QED BY <1>1, Widths, ModDef DEF Tick, TickOf

\* The limiter counts every message that passed in the window, and no other one
\* while the ring has no timestamp from more than half of the counter's range ago.
LEMMA RecentIsExact ==
  ASSUME TypeOK, RingInv
  PROVE /\ Recent(ring) \in Nat /\ Len(admitted) <= Recent(ring)
        /\ ~HasRelic => Recent(ring) = Len(admitted)
  <1> DEFINE first == ring.count - Len(admitted)
             InWindow(i) == (TickOf(ring.at[(ring.head + i) % Cap]) - (Tick - RateWindow)) % TickMod
                              < TickMod \div 2
             Counted == {i \in 0..(ring.count - 1) : InWindow(i)}
  <1>1. /\ ring.count \in Nat /\ Len(admitted) \in Nat /\ Len(admitted) <= ring.count
        /\ first \in Nat
    <2>1. Len(admitted) \in Nat
      BY LenProperties DEF TypeOK
    <2> QED BY <2>1, Widths, SMT DEF TypeOK, RingInv
  <1>2. ASSUME NEW i \in 0..(ring.count - 1), NEW t, t = Entry(ring, i), t \in boot..now
        PROVE  /\ now - t <= RateWindow => InWindow(i)
               /\ InWindow(i) => now - t <= RateWindow \/ HasRelic
    <2>1. boot \in Nat /\ t \in Nat /\ now \in Nat /\ boot <= t /\ t <= now
      BY <1>2, TickType, SMT
    <2>2. InWindow(i) <=>
            (((t - boot) % TickMod) - (((now - boot) % TickMod) - RateWindow)) % TickMod
              < TickMod \div 2
      BY <1>2 DEF Entry, Tick, TickOf
    <2>3. now - t > RateWindow + (TickMod \div 2) => HasRelic
      BY <1>2 DEF Entry, HasRelic
    <2> HIDE DEF InWindow
    <2> QED BY <2>1, <2>2, <2>3, WindowTest
  <1>3. ASSUME NEW i \in first..(ring.count - 1) PROVE i \in Counted
    <2>1. PICK k \in 1..Len(admitted) : (ring.count - Len(admitted)) + k - 1 = i
      <3>1. PICK L \in Nat, n \in Nat : L = Len(admitted) /\ n = ring.count
        BY <1>1
      <3>2. i \in (n - L)..(n - 1) /\ L <= n
        BY <1>1, <3>1
      <3>3. (i - (n - L)) + 1 \in 1..L /\ (n - L) + ((i - (n - L)) + 1) - 1 = i
        BY ONLY <3>2, L \in Nat, n \in Nat, SMT
      <3> QED BY <3>1, <3>3
    <2>2. /\ Entry(ring, i) = admitted[k]
          /\ admitted[k] \in boot..now /\ now - admitted[k] <= RateWindow
      BY <2>1 DEF RingInv
    <2>3. i \in 0..(ring.count - 1)
      BY <1>1, SMT
    <2> QED BY <1>2, <2>2, <2>3
  <1>4. ASSUME ~HasRelic, NEW i \in Counted PROVE i \in first..(ring.count - 1)
    <2>1. i \in 0..(ring.count - 1) /\ InWindow(i)
      OBVIOUS
    <2>2. CASE i >= first
      BY <1>1, <2>1, <2>2, SMT
    <2>3. CASE ~ (i >= first)
      <3>1. i \in 0..((ring.count - Len(admitted)) - 1)
        BY <1>1, <2>1, <2>3, SMT
      <3>2. Entry(ring, i) \in boot..now /\ now - Entry(ring, i) > RateWindow
        BY <3>1 DEF RingInv
      <3>3. now - Entry(ring, i) <= RateWindow
        BY <1>2, <1>4, <2>1, <3>2
      <3>4. PICK t \in boot..now : t = Entry(ring, i)
        BY <3>2
      <3>5. now - t > RateWindow /\ now - t <= RateWindow
        BY <3>2, <3>3, <3>4
      <3> QED BY <3>5, TickType, CounterAssumption, SMT
    <2> QED BY <2>2, <2>3
  <1>5. Cardinality(first..(ring.count - 1)) = Len(admitted)
    <2>1. first \in Int /\ ring.count - 1 \in Int
      BY <1>1, SMT
    <2>2. Cardinality(first..(ring.count - 1))
            = IF first > ring.count - 1 THEN 0 ELSE (ring.count - 1) - first + 1
      BY <2>1, FS_Interval
    <2> QED BY <1>1, <2>2, SMT
  <1>6. Recent(ring) = Cardinality(Counted)
    BY DEF Recent
  <1>7. IsFiniteSet(Counted)
    <2>1. 0 \in Int /\ ring.count - 1 \in Int
      BY <1>1, SMT
    <2>2. IsFiniteSet(0..(ring.count - 1)) /\ Counted \subseteq 0..(ring.count - 1)
      BY <2>1, FS_Interval
    <2> QED BY <2>2, FS_Subset
  <1> HIDE DEF first, Counted
  <1>8. first..(ring.count - 1) \subseteq Counted
    BY <1>3
  <1>9. Cardinality(Counted) \in Nat /\ Cardinality(first..(ring.count - 1)) <= Cardinality(Counted)
    BY <1>7, <1>8, FS_CardinalityType, FS_Subset
  <1>10. ASSUME ~HasRelic PROVE Counted = first..(ring.count - 1)
    BY <1>4, <1>8, <1>10
  <1> QED BY <1>5, <1>6, <1>9, <1>10
-----------------------------------------------------------------------------
(* The steps of the limiter *)

\* The limiter lets a message pass: it is the newest entry, and the last of the window.
LEMMA AdmitKeepsRing ==
  ASSUME TypeOK, RingInv, Admit, now' = now, boot' = boot
  PROVE RingTypes(ring') /\ admitted' \in Seq(Nat) /\ RingInv'
  <1>1. /\ now \in Nat /\ boot \in Nat /\ boot <= now /\ RingTypes(ring) /\ admitted \in Seq(Nat)
        /\ ring' = Recorded(ring) /\ admitted' = Append(admitted, now)
    <2>1. boot <= now
      BY BoundsAssumption, SMT DEF TypeOK
    <2> QED BY <2>1, TickType DEF TypeOK, RingTypes, Admit
  <1>2. PICK L \in Nat, c \in Nat : L = Len(admitted) /\ c = ring.count
    BY <1>1, LenProperties, Widths, SMT DEF RingTypes
  <1>3. L < MaxRate /\ L <= c /\ c <= Cap
    <2>1. Recent(ring) \in Nat /\ L <= Recent(ring)
      BY <1>2, RecentIsExact
    <2>2. ~ (Recent(ring) >= MaxRate)
      BY DEF Admit, Flooded
    <2> QED BY <1>1, <1>2, <2>1, <2>2, CounterAssumption, Widths, SMT DEF RingInv, RingTypes
  <1>4. PICK s \in {0, 1} :
          /\ s = 1 <=> c = Cap
          /\ RingTypes(ring') /\ ring'.count = c + 1 - s
          /\ \A j \in 0..(c - s - 1) : Entry(ring', j) = Entry(ring, j + s)
          /\ Entry(ring', c - s) = now
    BY <1>1, <1>2, RecordedFacts
  <1>5. /\ admitted' \in Seq(Nat) /\ Len(admitted') = L + 1
        /\ \A i \in 1..L : admitted'[i] = admitted[i]
        /\ admitted'[L + 1] = now
    BY <1>1, <1>2, AppendProperties
  <1>6. /\ \A i \in 1..L : /\ admitted[i] \in boot..now /\ now - admitted[i] <= RateWindow
                           /\ Entry(ring, (c - L) + i - 1) = admitted[i]
                           /\ \A j \in 1..L : i <= j => admitted[i] <= admitted[j]
        /\ \A i \in 0..((c - L) - 1) :
             Entry(ring, i) \in boot..now /\ now - Entry(ring, i) > RateWindow
    BY <1>2 DEF RingInv
  <1>7. PICK first \in Nat : /\ first = (c + 1 - s) - (L + 1) /\ first + s = c - L
                             /\ first + L = c - s /\ L + 1 <= c + 1 - s
    <2>1. (c - s) - L \in Nat /\ L + 1 <= c + 1 - s
      BY <1>3, <1>4, CounterAssumption, Widths, SMT
    <2>2. /\ (c - s) - L = (c + 1 - s) - (L + 1) /\ ((c - s) - L) + s = c - L
          /\ ((c - s) - L) + L = c - s
      BY SMT
    <2> QED BY <2>1, <2>2
  <1>8. ASSUME NEW i \in 1..(L + 1)
        PROVE /\ admitted'[i] \in boot..now /\ now - admitted'[i] <= RateWindow
              /\ Entry(ring', first + i - 1) = admitted'[i]
              /\ \A j \in 1..(L + 1) : i <= j => admitted'[i] <= admitted'[j]
    <2>1. CASE i \in 1..L
      <3>1. first + i - 1 \in 0..(c - s - 1) /\ (first + i - 1) + s = (c - L) + i - 1
        BY <1>7, <2>1, SMT
      <3>2. Entry(ring', first + i - 1) = admitted'[i]
        BY <1>4, <1>5, <1>6, <2>1, <3>1
      <3>3. ASSUME NEW j \in 1..(L + 1), i <= j PROVE admitted'[i] <= admitted'[j]
        <4>1. CASE j \in 1..L
          BY <1>5, <1>6, <2>1, <3>3, <4>1
        <4>2. CASE j = L + 1
          <5>1. admitted[i] <= now
            BY <1>1, <1>6, <2>1, SMT
          <5> QED BY <1>5, <2>1, <4>2, <5>1
        <4> QED BY <4>1, <4>2, SMT
      <3> QED BY <1>5, <1>6, <2>1, <3>2, <3>3
    <2>2. CASE i = L + 1
      <3>1. first + i - 1 = c - s /\ now \in boot..now /\ now - now <= RateWindow
        <4>1. first + i - 1 = c - s
          BY <1>4, <1>7, <2>2, SMT
        <4>2. now \in boot..now /\ now - now <= RateWindow
          BY <1>1, CounterAssumption, SMT
        <4> QED BY <4>1, <4>2
      <3>2. Entry(ring', first + i - 1) = admitted'[i]
        BY <1>4, <1>5, <2>2, <3>1
      <3>3. ASSUME NEW j \in 1..(L + 1), i <= j PROVE admitted'[i] <= admitted'[j]
        <4>1. j = L + 1 /\ now <= now
          BY <1>1, <2>2, <3>3, SMT
        <4> QED BY <1>5, <2>2, <4>1
      <3> QED BY <1>5, <2>2, <3>1, <3>2, <3>3
    <2> QED BY <2>1, <2>2, SMT
  <1>9. ASSUME NEW i \in 0..(first - 1)
        PROVE Entry(ring', i) \in boot..now /\ now - Entry(ring', i) > RateWindow
    <2>1. i \in 0..(c - s - 1) /\ i + s \in 0..((c - L) - 1)
      BY <1>7, SMT
    <2> QED BY <1>4, <1>6, <2>1
  <1>10. L + 1 <= MaxRate
    BY <1>3, CounterAssumption, SMT
  <1> QED BY <1>4, <1>5, <1>7, <1>8, <1>9, <1>10 DEF RingInv

\* The numbers up to n are n.
LEMMA UpTo == ASSUME NEW n \in Nat PROVE IsFiniteSet(1..n) /\ Cardinality(1..n) = n
  <1>1. IsFiniteSet(1..n) /\ Cardinality(1..n) = (IF 1 > n THEN 0 ELSE n - 1 + 1)
    BY FS_Interval, SMT
  <1>2. (IF 1 > n THEN 0 ELSE n - 1 + 1) = n
    BY SMT
  <1> QED BY <1>1, <1>2

\* The times that the window leaves behind are the first ones.
LEMMA PastIsPrefix ==
  ASSUME TypeOK, RingInv
  PROVE Past = 1..Cardinality(Past) /\ Cardinality(Past) \in 0..Len(admitted)
  <1>1. PICK L \in Nat : L = Len(admitted)
    BY LenProperties DEF TypeOK
  <1>2. Past \subseteq 1..L /\ IsFiniteSet(1..L) /\ Cardinality(1..L) = L
    BY <1>1, UpTo DEF Past
  <1>3. PICK k \in Nat : k = Cardinality(Past) /\ IsFiniteSet(Past) /\ k <= L
    <2>1. IsFiniteSet(Past) /\ Cardinality(Past) <= L
      BY <1>2, FS_Subset
    <2>2. Cardinality(Past) \in Nat
      BY <2>1, FS_CardinalityType
    <2> QED BY <2>1, <2>2
  <1>5. ASSUME NEW i \in Past PROVE i \in 1..k
    <2>1. i \in 1..L /\ i \in Nat
      BY <1>2, SMT
    <2>2. 1..i \subseteq Past
      <3> SUFFICES ASSUME NEW j \in 1..i PROVE j \in Past
        OBVIOUS
      <3>1. j \in 1..L /\ j <= i
        BY <2>1, SMT
      <3>2. /\ admitted[j] <= admitted[i] /\ admitted[j] \in boot..now
            /\ admitted[i] \in boot..now /\ (now + 1) - admitted[i] > RateWindow
        BY <1>1, <2>1, <3>1 DEF RingInv, Past
      <3>3. (now + 1) - admitted[j] > RateWindow
        <4>1. now \in Int /\ RateWindow \in Int
          BY CounterAssumption, SMT DEF TypeOK
        <4>2. PICK x, y : x = admitted[j] /\ y = admitted[i]
          OBVIOUS
        <4>3. x \in boot..now /\ y \in boot..now /\ x <= y /\ (now + 1) - y > RateWindow
          BY <3>2, <4>2
        <4>4. (now + 1) - x > RateWindow
          BY <4>1, <4>3, SMT
        <4> QED BY <4>2, <4>4
      <3> QED BY <1>1, <3>1, <3>3 DEF Past
    <2>3. i <= k
      <3>1. Cardinality(1..i) <= Cardinality(Past)
        BY <1>3, <2>2, FS_Subset
      <3> QED BY <1>3, <2>1, <3>1, UpTo
    <2> QED BY <2>1, <2>3, SMT
  <1>6. Past = 1..k
    <2>1. Past \subseteq 1..k
      BY <1>5
    <2>2. IsFiniteSet(1..k) /\ Cardinality(1..k) = Cardinality(Past)
      BY <1>3, UpTo
    <2> QED BY <2>1, <2>2, FS_Subset
  <1> QED BY <1>1, <1>3, <1>6, SMT

\* Time passes: the first messages of the window leave it, and stay in the ring as
\* entries from before the window.
LEMMA TimeKeepsRing ==
  ASSUME TypeOK, RingInv, TimePasses
  PROVE admitted' \in Seq(Nat) /\ RingInv'
  <1>1. /\ now \in Nat /\ boot \in Nat /\ now' = now + 1 /\ boot' = boot /\ ring' = ring
        /\ admitted \in Seq(Nat)
        /\ admitted' = SubSeq(admitted, Cardinality(Past) + 1, Len(admitted))
    BY TickType DEF TypeOK, TimePasses
  <1>2. PICK L \in Nat, c \in Nat : L = Len(admitted) /\ c = ring.count
    BY <1>1, LenProperties, Widths, SMT DEF TypeOK
  <1>3. PICK k \in 0..L : k = Cardinality(Past) /\ Past = 1..k
    BY <1>2, PastIsPrefix
  <1>4. PICK N \in Nat : N = L - k
    BY SMT
  <1>5. /\ admitted' \in Seq(Nat) /\ Len(admitted') = N
        /\ \A i \in 1..N : admitted'[i] = admitted[k + i]
    <2>1. /\ k + 1 \in Int /\ L \in Int
      BY SMT
    <2>2. \A i \in (k + 1)..L : admitted[i] \in Nat
      <3>1. admitted \in [1..L -> Nat]
        BY <1>1, <1>2, LenProperties
      <3>2. (k + 1)..L \subseteq 1..L
        BY SMT
      <3> QED BY <3>1, <3>2
    <2>3. /\ SubSeq(admitted, k + 1, L) \in Seq(Nat)
          /\ Len(SubSeq(admitted, k + 1, L)) = IF k + 1 <= L THEN L - (k + 1) + 1 ELSE 0
          /\ \A i \in 1..(L - (k + 1) + 1) :
               SubSeq(admitted, k + 1, L)[i] = admitted[(k + 1) + i - 1]
      BY <2>1, <2>2, SubSeqProperties
    <2>4. /\ (IF k + 1 <= L THEN L - (k + 1) + 1 ELSE 0) = N /\ L - (k + 1) + 1 = N
          /\ \A i \in 1..N : (k + 1) + i - 1 = k + i
      BY <1>4, SMT
    <2> QED BY <1>1, <1>2, <1>3, <2>3, <2>4
  <1>6. /\ L <= MaxRate /\ L <= c
        /\ \A i \in 1..L : /\ admitted[i] \in boot..now /\ now - admitted[i] <= RateWindow
                           /\ Entry(ring, (c - L) + i - 1) = admitted[i]
                           /\ \A j \in 1..L : i <= j => admitted[i] <= admitted[j]
        /\ \A i \in 0..((c - L) - 1) :
             Entry(ring, i) \in boot..now /\ now - Entry(ring, i) > RateWindow
    BY <1>2 DEF RingInv
  <1>7. ASSUME NEW t \in boot..now
        PROVE t \in boot..(now + 1) /\ t \in Nat /\ (now - t > RateWindow => (now + 1) - t > RateWindow)
    BY <1>1, CounterAssumption, SMT
  <1>8. ASSUME NEW i \in 1..N
        PROVE /\ admitted'[i] \in boot..(now + 1) /\ (now + 1) - admitted'[i] <= RateWindow
              /\ Entry(ring, (c - N) + i - 1) = admitted'[i]
              /\ \A j \in 1..N : i <= j => admitted'[i] <= admitted'[j]
    <2>1. k + i \in 1..L /\ k + i \notin 1..k /\ (c - N) + i - 1 = (c - L) + (k + i) - 1
      BY <1>4, SMT
    <2>2. (now + 1) - admitted[k + i] <= RateWindow
      <3>1. ~ ((now + 1) - admitted[k + i] > RateWindow)
        BY <1>2, <1>3, <2>1 DEF Past
      <3>2. admitted[k + i] \in Nat
        BY <1>6, <1>7, <2>1
      <3> QED BY <1>1, <3>1, <3>2, CounterAssumption, SMT
    <2>3. ASSUME NEW j \in 1..N, i <= j PROVE admitted'[i] <= admitted'[j]
      <3>1. k + j \in 1..L /\ k + i <= k + j
        BY <1>4, <2>3, SMT
      <3> QED BY <1>5, <1>6, <2>1, <3>1
    <2> QED BY <1>5, <1>6, <1>7, <2>1, <2>2, <2>3
  <1>9. ASSUME NEW i \in 0..((c - N) - 1)
        PROVE Entry(ring, i) \in boot..(now + 1) /\ (now + 1) - Entry(ring, i) > RateWindow
    <2>1. CASE i < c - L
      <3>1. i \in 0..((c - L) - 1)
        BY <1>6, <2>1, SMT
      <3> QED BY <1>6, <1>7, <3>1
    <2>2. CASE i >= c - L
      <3>1. PICK j \in 1..k : (c - L) + j - 1 = i
        <4>1. (i - (c - L)) + 1 \in 1..k /\ (c - L) + ((i - (c - L)) + 1) - 1 = i
          BY <1>4, <1>6, <2>2, SMT
        <4> QED BY <4>1
      <3>2. j \in 1..L /\ (now + 1) - admitted[j] > RateWindow
        BY <1>3, SMT DEF Past
      <3>3. admitted[j] \in boot..(now + 1) /\ Entry(ring, i) = admitted[j]
        BY <1>6, <1>7, <3>1, <3>2
      <3> QED BY <3>2, <3>3
    <2> QED BY <1>6, <2>1, <2>2, SMT
  <1>10. N <= MaxRate /\ N <= c
    BY <1>4, <1>6, CounterAssumption, SMT
  <1> QED BY <1>1, <1>2, <1>5, <1>8, <1>9, <1>10 DEF RingInv
-----------------------------------------------------------------------------
(* One lemma for each action *)

\* The counter of a message has its type.
LEMMA SeqOfType == ASSUME NEW no \in Nat PROVE SeqOf(no) \in 0..(SeqMod - 1) /\ SeqOf(no) # NoSeq
  <1>1. FirstSeq + no \in Int
    BY CounterAssumption, SMT
  <1>2. SeqOf(no) \in 0..(SeqMod - 1)
    BY <1>1, Widths, ModDef DEF SeqOf
  <1> QED BY <1>2, Widths, SMT DEF NoSeq

\* A fact that the provers of first-order logic do not know.
LEMMA ZeroIsNat == 0 \in Nat
  BY SMT

\* An empty ring and an empty window.
LEMMA EmptyRingFacts ==
  /\ RingTypes(EmptyRing) /\ EmptyRing.count = 0
  /\ <<>> \in Seq(Nat) /\ Len(<<>>) = 0
  <1>1. EmptyRing.at \in [0..(Cap - 1) -> Nat] /\ EmptyRing.head = 0 /\ EmptyRing.count = 0
    BY DEF EmptyRing
  <1>2. 0 \in 0..(Cap - 1) /\ 0 \in 0..Cap
    BY Widths, SMT
  <1> QED BY <1>1, <1>2, EmptySeq DEF RingTypes

\* What the ring and the window are for a node that has just started.
LEMMA StartedRing == ASSUME ring = EmptyRing, admitted = <<>> PROVE RingInv
  <1>1. Len(admitted) = 0 /\ ring.count = 0 /\ 0 <= MaxRate /\ 0 - 0 = 0 /\ 0 - 1 = -1
    BY EmptyRingFacts, CounterAssumption, SMT
  <1>2. (\A i \in 1..0 : FALSE) /\ (\A i \in 0..(-1) : FALSE)
    BY SMT
  <1> QED BY <1>1, <1>2 DEF RingInv

\* When the channel starts, nothing has been sent and the ring is empty.
LEMMA InitInvariant == Init => IInv
  <1> SUFFICES ASSUME Init PROVE IInv
    OBVIOUS
  <1>1. /\ admitted = <<>> /\ ring = EmptyRing /\ result.kind = "none" /\ result.at = 0
        /\ read.at = now /\ read.ts = Tick /\ net = {} /\ boot = 0 /\ now = FirstTick
    BY DEF Init, NoResult
  <1>2. now \in FirstTick..LastTick /\ boot \in 0..now /\ now \in Nat
    BY <1>1, BoundsAssumption, SMT
  <1>3. Tick \in Nat
    <2>1. now - boot \in Int
      BY <1>1, <1>2, SMT
    <2>2. Tick \in 0..(TickMod - 1)
      BY <2>1, Widths, ModDef DEF Tick, TickOf
    <2> QED BY <2>2, Widths, SMT
  <1>4. TypeOK
    <2>1. 0 \in Nat /\ 0 \in 0..now /\ FALSE \in BOOLEAN /\ {} \subseteq Message
      BY <1>2, SMT
    <2>2. lastSeq = NoSeq /\ lastNo = 0 /\ sent = 0 /\ spoke = FALSE /\ clock \in {"tick", "time_of_day"}
      BY DEF Init
    <2>3. RingTypes(ring) /\ admitted \in Seq(Nat)
      BY <1>1, EmptyRingFacts
    <2> QED BY <1>1, <1>2, <1>3, <2>1, <2>2, <2>3, Zenon DEF TypeOK, Result, RingTypes
  <1>5. NetInv
    <2>1. now <= now
      BY <1>2, SMT
    <2> QED BY <1>1, <2>1 DEF NetInv, StampInv, Tick
  <1>6. SeqInv
    BY SMT DEF Init, SeqInv
  <1>7. RingInv
    BY <1>1, StartedRing
  <1>8. RateIsExact /\ AcceptedIsFresh
    BY <1>1, <1>7 DEF RateIsExact, RingInv, AcceptedIsFresh
  <1> QED BY <1>4, <1>5, <1>6, <1>7, <1>8 DEF IInv

\* Every call of decode_secure_message that the limiter lets pass, whatever comes of
\* it, if only the checker's part of the invariant is kept.
LEMMA ReceiveStep ==
  ASSUME IInv, Admit, UNCHANGED <<now, boot, sender, net>>, SeqInv',
         lastSeq' \in {NoSeq} \cup 0..(SeqMod - 1), lastNo' \in Nat,
         result'.kind \in Result \ {"flood"}, result'.at \in Nat, AcceptedIsFresh'
  PROVE IInv'
  <1>1. UNCHANGED <<now, boot, clock, read, spoke, sent, net>>
    BY DEF sender
  <1>2. RingTypes(ring') /\ admitted' \in Seq(Nat) /\ RingInv'
    BY <1>1, AdmitKeepsRing DEF IInv
  <1>3. TypeOK'
    BY <1>1, <1>2 DEF IInv, TypeOK, RingTypes
  <1>4. NetInv'
    BY <1>1 DEF IInv, NetInv, StampInv, TickOf
  <1>5. RateIsExact'
    BY <1>2 DEF RateIsExact, RingInv
  <1> QED BY <1>2, <1>3, <1>4, <1>5 DEF IInv

\* What is known of a message in the network, and of the message before it.
LEMMA NetFacts ==
  ASSUME IInv, NEW m \in net
  PROVE /\ m.no \in Nat /\ m.at \in Nat /\ m.no >= 1 /\ m.no <= sent
        /\ m.at <= now /\ sent - m.no <= now - m.at
        /\ (~spoke => sent - m.no < now - m.at)
        /\ now \in Nat /\ sent \in Nat /\ lastNo \in Nat /\ lastNo <= sent
  <1>1. m.no \in Nat /\ m.at \in Nat /\ now \in Nat /\ sent \in Nat /\ lastNo \in Nat
    BY TickType DEF IInv, TypeOK, Message
  <1>2. m.no \in 1..sent
    BY DEF IInv, NetInv
  <1> QED BY <1>1, <1>2, SMT DEF IInv, NetInv, SeqInv

\* A message that is corrupt or stale leaves the checker alone.
LEMMA RejectStep ==
  ASSUME IInv, NEW kind \in {"mac", "crc", "replay"}, Admit, Reject(kind)
  PROVE IInv'
  <1>1. /\ UNCHANGED <<now, boot, sender, net, lastSeq, lastNo>>
        /\ result'.kind = kind /\ result'.at = 0
    BY DEF Reject
  <1>2. SeqInv' /\ AcceptedIsFresh'
    BY <1>1 DEF IInv, SeqInv, SeqOf, AcceptedIsFresh, sender
  <1> QED BY <1>1, <1>2, ReceiveStep DEF IInv, TypeOK, Result

\* A message out of sequence becomes the last one.
LEMMA OutOfSequenceStep ==
  ASSUME IInv, NEW m \in net, ReceiveOutOfSequence(m)
  PROVE IInv'
  <1>1. /\ UNCHANGED <<now, boot, sender, net>> /\ Admit
        /\ lastSeq' = SeqOf(m.no) /\ lastNo' = (IF SeqOf(m.no) = lastSeq THEN lastNo ELSE m.no)
        /\ result'.kind = "sequence" /\ result'.at = 0
    BY DEF ReceiveOutOfSequence
  <1>2. /\ SeqOf(m.no) \in 0..(SeqMod - 1) /\ SeqOf(m.no) # NoSeq /\ m.no \in Nat
        /\ m.no <= sent /\ lastNo \in Nat /\ lastNo <= sent
    BY NetFacts, SeqOfType
  <1>3. SeqInv' /\ lastNo' \in Nat
    BY <1>1, <1>2 DEF IInv, SeqInv, SeqOf, sender
  <1> QED BY <1>1, <1>2, <1>3, ReceiveStep DEF AcceptedIsFresh, Result

\* A stamp that passes the check is a tick of the node, from the window or from one
\* of the two excepted times.
LEMMA FreshStamp ==
  ASSUME IInv, NEW m \in net, IsFresh(m.ts)
  PROVE /\ clock = "tick"
        /\ \/ now - m.at <= ReplayWindow
           \/ m.at < boot
           \/ now - m.at >= TickMod - ReplayWindow
  <1>1. /\ now \in Nat /\ boot \in Nat /\ Tick \in 0..(TickMod - 1)
        /\ m.at \in Nat /\ m.at <= now
    BY TickType, NetFacts DEF IInv
  <1>2. clock = "tick"
    <2>1. clock # "tick" => m.ts = TimeOfDay
      BY DEF IInv, NetInv
    <2> QED BY <1>1, <2>1, TimeOfDayIsStale
  <1>3. m.at >= boot => m.ts = TickOf(m.at)
    BY <1>2 DEF IInv, NetInv, StampInv
  <1>4. CASE m.at < boot
    BY <1>2, <1>4
  <1>5. CASE m.at >= boot
    <2>1. boot <= m.at /\ IsFresh(TickOf(m.at))
      BY <1>1, <1>3, <1>5, SMT
    <2> QED BY <1>1, <1>2, <2>1, FreshIsRecent
  <1>6. m.at < boot \/ m.at >= boot
    BY <1>1, SMT
  <1> QED BY <1>4, <1>5, <1>6

\* A message in sequence becomes the last one.  If its reading is not older than the
\* window, it was sent later than the last one.
LEMMA InSequenceStep ==
  ASSUME IInv, NEW m \in net, NEW fits \in BOOLEAN, ReceiveInSequence(m, fits)
  PROVE IInv' /\ (now - result'.at <= ReplayWindow => lastNo' > lastNo)
  <1>1. /\ UNCHANGED <<now, boot, sender, net>> /\ Admit /\ IsFresh(m.ts)
        /\ InSequence(SeqOf(m.no))
        /\ lastSeq' = SeqOf(m.no) /\ lastNo' = m.no
        /\ result'.kind = (IF fits THEN "accepted" ELSE "oversize") /\ result'.at = m.at
    BY DEF ReceiveInSequence
  <1>2. /\ SeqOf(m.no) \in 0..(SeqMod - 1) /\ SeqOf(m.no) # NoSeq /\ m.no \in Nat
        /\ m.no >= 1 /\ m.no <= sent /\ lastNo \in Nat /\ lastNo <= sent
        /\ m.at \in Nat /\ m.at <= now /\ now \in Nat /\ sent \in Nat
        /\ sent - m.no <= now - m.at
    BY NetFacts, SeqOfType
  <1>3. ASSUME now - m.at <= ReplayWindow PROVE lastNo' > lastNo
    <2>1. CASE lastSeq = NoSeq
      BY <1>1, <1>2, <2>1, SMT DEF IInv, SeqInv
    <2>2. CASE lastSeq # NoSeq
      <3>1. lastSeq = SeqOf(lastNo) /\ (SeqOf(m.no) - lastSeq) % SeqMod \in 1..MaxGap
        BY <1>1, <2>2 DEF IInv, SeqInv, InSequence
      <3>2. lastNo - m.no <= ReplayWindow
        BY <1>2, <1>3, CounterAssumption, SMT
      <3>3. m.no > lastNo
        BY <1>2, <3>1, <3>2, InSequenceIsLater
      <3> QED BY <1>1, <3>3
    <2> QED BY <2>1, <2>2
  <1>4. AcceptedIsFresh'
    <2>1. /\ clock = "tick"
          /\ \/ now - m.at <= ReplayWindow
             \/ m.at < boot
             \/ now - m.at >= TickMod - ReplayWindow
      BY <1>1, FreshStamp
    <2> QED BY <1>1, <2>1 DEF AcceptedIsFresh, sender
  <1>5. SeqInv' /\ lastNo' \in Nat
    BY <1>1, <1>2 DEF SeqInv, SeqOf, sender
  <1>6. result'.kind \in Result \ {"flood"} /\ result'.at \in Nat
    BY <1>1, <1>2 DEF Result
  <1>7. IInv'
    BY <1>1, <1>2, <1>4, <1>5, <1>6, ReceiveStep
  <1> QED BY <1>1, <1>3, <1>7

\* A message that is dropped as a flood finds the window full, or a relic in the ring.
LEMMA DropFloodStep == ASSUME IInv, DropFlood PROVE IInv'
  <1>1. /\ UNCHANGED <<now, boot, clock, read, spoke, sent, net, lastSeq, lastNo, ring, admitted>>
        /\ result'.kind = "flood" /\ result'.at = 0
    BY DEF DropFlood, Reject, sender
  <1>2. TypeOK'
    BY <1>1 DEF IInv, TypeOK, Result
  <1>3. NetInv' /\ SeqInv'
    BY <1>1 DEF IInv, NetInv, StampInv, TickOf, SeqInv, SeqOf
  <1>4. RingInv' /\ (HasRelic' <=> HasRelic)
    BY <1>1 DEF IInv, RingInv, Entry, HasRelic
  <1>5. RateIsExact'
    <2>1. ~HasRelic => Recent(ring) = Len(admitted)
      BY RecentIsExact DEF IInv
    <2>2. Len(admitted) \in Nat /\ Len(admitted) <= MaxRate
      BY LenProperties DEF IInv, TypeOK, RingInv
    <2>3. Recent(ring) >= MaxRate
      BY DEF DropFlood, Flooded
    <2>4. ASSUME ~HasRelic PROVE Len(admitted) = MaxRate
      BY <2>1, <2>2, <2>3, <2>4, CounterAssumption, SMT
    <2> QED BY <1>1, <1>4, <2>2, <2>4 DEF RateIsExact
  <1>6. AcceptedIsFresh'
    BY <1>1 DEF AcceptedIsFresh
  <1> QED BY <1>2, <1>3, <1>4, <1>5, <1>6 DEF IInv

\* A step that leaves the receiver alone and has no result.
LEMMA SenderStep ==
  ASSUME IInv, UNCHANGED <<now, boot, receiver>>, result' = NoResult, TypeOK', NetInv',
         sent' >= sent, sent' \in Nat
  PROVE IInv'
  <1>1. /\ UNCHANGED <<now, boot, ring, lastSeq, lastNo, admitted>>
        /\ result'.kind = "none"
    BY DEF receiver, NoResult
  <1>2. sent \in Nat /\ lastNo \in Nat
    BY DEF IInv, TypeOK
  <1>3. SeqInv'
    BY <1>1, <1>2, SMT DEF IInv, SeqInv, SeqOf
  <1>4. RingInv'
    BY <1>1 DEF IInv, RingInv, Entry
  <1>5. RateIsExact' /\ AcceptedIsFresh'
    BY <1>1 DEF IInv, RateIsExact, AcceptedIsFresh
  <1> QED BY <1>3, <1>4, <1>5 DEF IInv

\* The sender reads the tick of this moment.
LEMMA ReadTickStep == ASSUME IInv, ReadTick PROVE IInv'
  <1>1. /\ UNCHANGED <<now, boot, clock, spoke, sent, net, ring, lastSeq, lastNo, admitted>>
        /\ read'.at = now /\ read'.ts = Tick /\ result' = NoResult
    BY DEF ReadTick, receiver
  <1>2. now \in Nat /\ now <= now /\ Tick \in Nat /\ sent \in Nat /\ sent <= sent
    <2>1. now \in Nat /\ Tick \in 0..(TickMod - 1) /\ sent \in Nat
      BY TickType DEF IInv, TypeOK
    <2> QED BY <2>1, Widths, SMT
  <1>3. TypeOK'
    BY <1>1, <1>2 DEF IInv, TypeOK, Result, NoResult
  <1>4. NetInv'
    BY <1>1, <1>2 DEF IInv, NetInv, StampInv, TickOf, Tick
  <1>5. UNCHANGED <<now, boot, receiver>> /\ sent' >= sent /\ sent' \in Nat
    BY <1>1, <1>2, SMT DEF receiver
  <1> QED BY <1>1, <1>3, <1>4, <1>5, SenderStep

\* A message that is sent is the only one of its tick.
LEMMA SendStep == ASSUME IInv, Send PROVE IInv'
  <1>1. /\ UNCHANGED <<now, boot, clock, read, ring, lastSeq, lastNo, admitted>>
        /\ ~spoke /\ spoke' = TRUE /\ sent' = sent + 1
        /\ net' = net \cup {Stamped(sent + 1)} /\ result' = NoResult
    BY DEF Send, receiver
  <1>2. PICK new : new = Stamped(sent + 1)
    OBVIOUS
  <1>3. /\ now \in Nat /\ boot \in Nat /\ sent \in Nat /\ read.at \in Nat /\ read.ts \in Nat
        /\ StampInv(read.at, read.ts) /\ TimeOfDay \in Nat
    <2>1. TimeOfDay \in Nat
      BY Widths, CounterAssumption, SMT DEF TimeOfDay
    <2> QED BY <2>1, TickType DEF IInv, TypeOK, NetInv
  <1>4. /\ new \in Message /\ new.no = sent + 1 /\ new.at <= now /\ new.at \in Nat
        /\ clock = "tick" => StampInv(new.at, new.ts)
        /\ clock # "tick" => new.ts = TimeOfDay
    <2>1. sent + 1 \in Nat /\ now <= now
      BY <1>3, SMT
    <2>2. CASE clock = "tick"
      BY <1>2, <1>3, <2>1, <2>2 DEF Stamped, Message, StampInv
    <2>3. CASE clock # "tick"
      BY <1>2, <1>3, <2>1, <2>3 DEF Stamped, Message
    <2> QED BY <2>2, <2>3
  <1>5. TypeOK'
    <2>1. sent + 1 \in Nat
      BY <1>3, SMT
    <2> QED BY <1>1, <1>2, <1>4, <2>1 DEF IInv, TypeOK, Result, NoResult
  <1>6. NetInv'
    <2>1. ASSUME NEW m \in net'
          PROVE /\ m.no \in 1..sent' /\ m.at <= now /\ sent' - m.no <= now - m.at
                /\ clock = "tick" => StampInv(m.at, m.ts)
                /\ clock # "tick" => m.ts = TimeOfDay
      <3>1. CASE m \in net
        <4>1. /\ m.no \in Nat /\ m.at \in Nat /\ m.no >= 1 /\ m.no <= sent
              /\ m.at <= now /\ sent - m.no < now - m.at
          BY <1>1, <3>1, NetFacts
        <4>2. m.no \in 1..sent' /\ sent' - m.no <= now - m.at
          BY <1>1, <1>3, <4>1, SMT
        <4> QED BY <3>1, <4>1, <4>2 DEF IInv, NetInv
      <3>2. CASE m = new
        <4>1. sent + 1 \in 1..(sent + 1) /\ (sent + 1) - (sent + 1) <= now - new.at
          BY <1>3, <1>4, SMT
        <4> QED BY <1>1, <1>4, <3>2, <4>1
      <3> QED BY <1>1, <1>2, <3>1, <3>2
    <2> QED BY <1>1, <1>3, <2>1 DEF NetInv, StampInv, TickOf
  <1>7. UNCHANGED <<now, boot, receiver>> /\ sent' >= sent /\ sent' \in Nat
    BY <1>1, <1>3, SMT DEF receiver
  <1> QED BY <1>1, <1>5, <1>6, <1>7, SenderStep

\* The network loses a message.
LEMMA LoseStep == ASSUME IInv, NEW m \in net, Lose(m) PROVE IInv'
  <1>1. /\ UNCHANGED <<now, boot, clock, read, spoke, sent, ring, lastSeq, lastNo, admitted>>
        /\ net' \subseteq net /\ result' = NoResult
    BY DEF Lose, sender, receiver
  <1>2. TypeOK' /\ sent \in Nat
    BY <1>1 DEF IInv, TypeOK, Result, NoResult
  <1>3. NetInv'
    BY <1>1 DEF IInv, NetInv, StampInv, TickOf
  <1>4. UNCHANGED <<now, boot, receiver>> /\ sent' >= sent /\ sent' \in Nat
    BY <1>1, <1>2, SMT DEF receiver
  <1> QED BY <1>1, <1>2, <1>3, <1>4, SenderStep

\* As time passes, messages fall behind no faster than the sender can send.
LEMMA TimeKeepsNet ==
  ASSUME IInv, now' = now + 1, spoke' = FALSE, UNCHANGED <<clock, read, sent, net>>,
         boot' \in Nat, boot' = boot \/ boot' = now'
  PROVE NetInv'
  <1>1. now \in Nat /\ sent \in Nat /\ read.at \in Nat /\ boot \in Nat
    BY TickType DEF IInv, TypeOK
  <1>2. ASSUME NEW at \in Nat, NEW ts, StampInv(at, ts) PROVE StampInv(at, ts)'
    <2>1. at <= now
      BY <1>2 DEF StampInv
    <2>2. at <= now' /\ (boot' = now' => ~ (at >= boot'))
      BY <1>1, <2>1, SMT
    <2>3. boot' = boot => TickOf(at)' = TickOf(at)
      BY DEF TickOf
    <2> QED BY <1>2, <2>2, <2>3 DEF StampInv
  <1>3. ASSUME NEW m \in net
        PROVE /\ m.no \in 1..sent /\ m.at <= now' /\ m.at \in Nat
              /\ sent - m.no <= now' - m.at /\ sent - m.no < now' - m.at
    <2>1. /\ m.no \in Nat /\ m.at \in Nat /\ m.no >= 1 /\ m.no <= sent
          /\ m.at <= now /\ sent - m.no <= now - m.at
      BY NetFacts
    <2> QED BY <1>1, <2>1, SMT
  <1> QED BY <1>1, <1>2, <1>3 DEF IInv, NetInv

\* A tick: what is past leaves the window.
LEMMA TimePassesStep == ASSUME IInv, TimePasses PROVE IInv'
  <1>1. /\ now < LastTick /\ now' = now + 1 /\ spoke' = FALSE
        /\ UNCHANGED <<boot, clock, read, sent, net, ring, lastSeq, lastNo>>
        /\ result'.kind = "none" /\ result'.at = 0
    BY DEF TimePasses, NoResult
  <1>2. admitted' \in Seq(Nat) /\ RingInv'
    BY TimeKeepsRing DEF IInv
  <1>3. TypeOK'
    <2>1. now' \in FirstTick..LastTick /\ boot \in 0..now'
      BY <1>1, BoundsAssumption, SMT DEF IInv, TypeOK
    <2>2. result'.kind \in Result /\ result'.at \in Nat /\ spoke' \in BOOLEAN
      BY <1>1, ZeroIsNat, Zenon DEF Result
    <2> QED BY <1>1, <1>2, <2>1, <2>2, Zenon DEF IInv, TypeOK
  <1>4. NetInv'
    BY <1>1, TickType, TimeKeepsNet DEF IInv
  <1>5. SeqInv' /\ RateIsExact' /\ AcceptedIsFresh'
    BY <1>1, <1>2 DEF IInv, SeqInv, SeqOf, RingInv, RateIsExact, AcceptedIsFresh
  <1> QED BY <1>2, <1>3, <1>4, <1>5 DEF IInv

\* A start of the node empties the limiter and forgets the last number.
LEMMA RebootStep == ASSUME IInv, Reboot PROVE IInv'
  <1>1. /\ now < LastTick /\ now' = now + 1 /\ boot' = now' /\ spoke' = FALSE
        /\ UNCHANGED <<clock, read, sent, net>>
        /\ ring' = EmptyRing /\ admitted' = <<>> /\ lastSeq' = NoSeq /\ lastNo' = 0
        /\ result'.kind = "none" /\ result'.at = 0
    BY DEF Reboot, NoResult
  <1>2. now' \in FirstTick..LastTick /\ boot' \in 0..now' /\ boot' \in Nat
    BY <1>1, BoundsAssumption, SMT DEF IInv, TypeOK
  <1>3. TypeOK'
    <2>1. result'.kind \in Result /\ result'.at \in Nat /\ spoke' \in BOOLEAN /\ lastNo' \in Nat
      BY <1>1, ZeroIsNat, Zenon DEF Result
    <2>2. RingTypes(ring') /\ admitted' \in Seq(Nat)
      BY <1>1, EmptyRingFacts
    <2> QED BY <1>1, <1>2, <2>1, <2>2, Zenon DEF IInv, TypeOK, RingTypes
  <1>4. NetInv'
    BY <1>1, <1>2, TimeKeepsNet
  <1>5. SeqInv'
    BY <1>1, SMT DEF IInv, TypeOK, SeqInv
  <1>6. RingInv'
    <2>1. Len(admitted') = 0 /\ ring'.count = 0 /\ 0 <= MaxRate /\ 0 - 0 = 0 /\ 0 - 1 = -1
      BY <1>1, EmptyRingFacts, CounterAssumption, SMT
    <2>2. (\A i \in 1..0 : FALSE) /\ (\A i \in 0..(-1) : FALSE)
      BY SMT
    <2> QED BY <2>1, <2>2 DEF RingInv
  <1>7. RateIsExact' /\ AcceptedIsFresh'
    BY <1>1, <1>6 DEF RateIsExact, RingInv, AcceptedIsFresh
  <1> QED BY <1>3, <1>4, <1>5, <1>6, <1>7 DEF IInv
-----------------------------------------------------------------------------
(* The theorems *)

\* Every step keeps the invariant, and a fresh message that it accepts moves forward.
LEMMA NextStep ==
  ASSUME IInv, [Next]_vars
  PROVE /\ IInv'
        /\ [result'.kind = "accepted" /\ now - result'.at <= ReplayWindow => lastNo' > lastNo]_vars
  <1>1. CASE UNCHANGED vars
    <2>1. UNCHANGED <<now, boot, clock, read, spoke, sent, net, ring, lastSeq, lastNo, admitted, result>>
      BY <1>1 DEF vars, sender, receiver
    <2>2. TypeOK' /\ NetInv' /\ SeqInv' /\ RateIsExact' /\ AcceptedIsFresh'
      BY <2>1 DEF IInv, TypeOK, NetInv, StampInv, TickOf, SeqInv, SeqOf, RateIsExact, HasRelic,
                  AcceptedIsFresh
    <2>3. RingInv'
      BY <2>1 DEF IInv, RingInv, Entry
    <2> QED BY <1>1, <2>2, <2>3 DEF IInv
  <1>2. CASE ReadTick \/ Send \/ TimePasses \/ Reboot \/ DropFlood
    <2>1. result'.kind # "accepted"
      BY <1>2 DEF ReadTick, Send, TimePasses, Reboot, DropFlood, Reject, NoResult
    <2> QED BY <1>2, <2>1, ReadTickStep, SendStep, TimePassesStep, RebootStep, DropFloodStep
  <1>3. ASSUME NEW kind \in {"mac", "crc", "replay"}, Admit, Reject(kind)
        PROVE IInv' /\ result'.kind # "accepted"
    BY <1>3, RejectStep DEF Reject
  <1>4. ASSUME NEW m \in net, ReceiveOutOfSequence(m)
        PROVE IInv' /\ result'.kind # "accepted"
    BY <1>4, OutOfSequenceStep DEF ReceiveOutOfSequence
  <1>5. ASSUME NEW m \in net, NEW fits \in BOOLEAN, ReceiveInSequence(m, fits)
        PROVE IInv' /\ (now - result'.at <= ReplayWindow => lastNo' > lastNo)
    BY <1>5, InSequenceStep
  <1>6. ASSUME NEW m \in net, Lose(m) PROVE IInv' /\ result'.kind # "accepted"
    BY <1>6, LoseStep DEF Lose, NoResult
  <1>7. CASE \E m \in net : Lose(m) \/ Receive(m)
    BY <1>3, <1>4, <1>5, <1>6, <1>7 DEF Receive, ReceiveStale
  <1>8. CASE \E kind \in {"mac", "crc"} : ReceiveCorrupt(kind)
    BY <1>3, <1>8 DEF ReceiveCorrupt
  <1> QED BY <1>1, <1>2, <1>7, <1>8 DEF Next

\* The invariant of the channel holds throughout.
LEMMA Invariance == Spec => []IInv
  <1>1. IInv /\ [Next]_vars => IInv'
    BY NextStep
  <1> QED BY <1>1, InitInvariant, PTL DEF Spec

\* Every variable keeps its type, and ts_head and ts_count of the limiter never
\* leave the ring, however often it wraps (ids_engine.c, record_timestamp).
THEOREM TypeCorrect == Spec => []TypeOK
  <1>1. IInv => TypeOK
    BY DEF IInv
  <1> QED BY <1>1, Invariance, PTL

\* At no time of a node's life, however long it is, do more than IDS_RATE_MAX_MSG
\* messages pass the limiter in a window; and none is dropped unless so many have
\* passed or the ring has a timestamp from before half of the tick counter's range
\* (ids_engine.c, count_in_window).
THEOREM RateSafety == Spec => []RateIsExact
  <1>1. IInv => RateIsExact
    BY DEF IInv
  <1> QED BY <1>1, Invariance, PTL

\* A message that is accepted has a tick of the node on it, read within
\* SECOC_REPLAY_WINDOW_MS, before the last start of the node, or about one or more
\* rounds of the tick counter ago: the cases in which the comparison of secoc.c,
\* secoc_decode_ex, goes wrong are these two and no other.
THEOREM FreshnessSafety == Spec => []AcceptedIsFresh
  <1>1. IInv => AcceptedIsFresh
    BY DEF IInv
  <1> QED BY <1>1, Invariance, PTL

\* What the node accepts within the window of its reading was sent after what it took
\* for the last message before: a repeated or reordered message of any 16-bit number
\* is accepted only after a sequence fault has been counted or the node has been
\* started again (e2e_protection.c, e2e_seq_check).
THEOREM SequenceSafety == Spec => AcceptedMovesForward
  <1>1. IInv /\ [Next]_vars =>
          [result'.kind = "accepted" /\ now - result'.at <= ReplayWindow => lastNo' > lastNo]_vars
    BY NextStep
  <1> QED BY <1>1, Invariance, PTL DEF Spec, AcceptedMovesForward
=============================================================================
