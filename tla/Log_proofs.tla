----------------------------- MODULE Log_proofs -----------------------------
(***************************************************************************)
(* Proofs about the two logs of the master, SafetyLog and SecurityLog, for *)
(* every bound on numbers and lines and every size and period of the       *)
(* rotation.  The lemmas on files of lines serve both.                     *)
(***************************************************************************)
EXTENDS SafetyLog, SecurityLog, SequenceTheorems, TLAPS

USE RotationAssumption, BoundsAssumption
-----------------------------------------------------------------------------
(* Files of lines *)

\* A file whose lines are records of S or junk; an open line is a line.
Sound(f, S) ==
  /\ f.lines \in Seq({Junk} \cup S)
  /\ f.open \in BOOLEAN
  /\ f.open => f.lines # <<>>

\* What an append of r makes of f, line by line: nothing, junk of the open line,
\* or one more line.
Appended(f, r, g) ==
  \/ g.lines = f.lines /\ g.open = f.open
  \/ /\ f.open /\ Len(g.lines) = Len(f.lines) /\ g.lines[Len(f.lines)] = Junk
     /\ \A i \in 1..(Len(f.lines) - 1) : g.lines[i] = f.lines[i]
  \/ /\ ~f.open /\ Len(g.lines) = Len(f.lines) + 1
     /\ g.lines[Len(f.lines) + 1] \in {Junk, r}
     /\ \A i \in 1..Len(f.lines) : g.lines[i] = f.lines[i]

\* An append of any extent leaves a sound file, which Appended describes.
LEMMA ExtendedShape ==
  ASSUME NEW S, NEW f, NEW r \in S, NEW e \in Extent, Sound(f, S)
  PROVE  Sound(Extended(f, r, e), S) /\ Appended(f, r, Extended(f, r, e))
<1> DEFINE L == {Junk} \cup S
<1>1. f.lines \in Seq(L) /\ Len(f.lines) \in Nat
  BY LenProperties DEF Sound
<1>2. CASE e = "none"
  BY <1>2 DEF Extended, Appended
<1>3. CASE e # "none" /\ f.open
  <2> DEFINE n == Len(f.lines)
             x == [f.lines EXCEPT ![n] = Junk]
  <2>1. n \in 1..Len(f.lines)
    BY <1>1, <1>3, EmptySeq DEF Sound
  <2>2. x \in Seq(L) /\ Len(x) = n /\ \A i \in 1..n : x[i] = IF i = n THEN Junk ELSE f.lines[i]
    BY <1>1, <2>1, ExceptSeq
  <2>3. Extended(f, r, e) = [lines |-> x, open |-> e # "line"]
    BY <1>3 DEF Extended
  <2>4. x # <<>>
    BY <2>1, <2>2
  <2>5. \A i \in 1..(n - 1) : x[i] = f.lines[i]
    BY <1>1, <2>2
  <2>6. x[n] = Junk
    BY <2>1, <2>2
  <2>7. PICK g : g = Extended(f, r, e)
    OBVIOUS
  <2>8. g.lines = x /\ g.open = (e # "line")
    BY <2>3, <2>7
  <2> HIDE DEF x
  <2>9. Sound(g, S)
    BY <2>2, <2>4, <2>8 DEF Sound
  <2>10. Appended(f, r, g)
    BY <1>3, <2>2, <2>5, <2>6, <2>8 DEF Appended
  <2> QED
    BY <2>7, <2>9, <2>10
<1>4. CASE e # "none" /\ ~f.open
  <2> DEFINE z == IF e = "part" THEN Junk ELSE r
             x == Append(f.lines, z)
  <2>1. z \in L /\ z \in {Junk, r}
    OBVIOUS
  <2>2. /\ x \in Seq(L) /\ Len(x) = Len(f.lines) + 1 /\ x[Len(f.lines) + 1] = z
        /\ \A i \in 1..Len(f.lines) : x[i] = f.lines[i]
    BY <1>1, <2>1, AppendProperties
  <2>3. Extended(f, r, e) = [lines |-> x, open |-> e # "line"]
    BY <1>4 DEF Extended
  <2>4. x # <<>>
    BY <1>1, <2>2
  <2> HIDE DEF z, x
  <2> QED
    BY <1>4, <2>1, <2>2, <2>3, <2>4 DEF Sound, Appended
<1> QED
  BY <1>2, <1>3, <1>4 DEF Sound

\* The readable lines of g are those of f from line k on.
PartOf(g, f, k) ==
  \A i \in 1..Len(g.lines) : g.lines[i] # Junk =>
    i + k \in 1..Len(f.lines) /\ g.lines[i] = f.lines[i + k]

\* The numbers that increase in a file do in what is left of a part of it in which
\* some lines have become junk.
LEMMA PartIncreasing ==
  ASSUME NEW S, NEW f, NEW g, Sound(f, S), Sound(g, S), NEW m, Increasing(f, m), NEW k \in Nat,
         PartOf(g, f, k)
  PROVE  Increasing(g, m)
<1>1. Len(f.lines) \in Nat /\ Len(g.lines) \in Nat
  BY LenProperties DEF Sound
<1> SUFFICES ASSUME NEW i \in 1..Len(g.lines), g.lines[i] # Junk
             PROVE  /\ g.lines[i].seq < m
                    /\ \A j \in 1..(i - 1) : g.lines[j] # Junk => g.lines[j].seq < g.lines[i].seq
  BY DEF Increasing
<1>2. PICK a \in 1..Len(f.lines) : a = i + k /\ g.lines[i] = f.lines[a]
  BY DEF PartOf
<1>3. g.lines[i].seq < m
  BY <1>2 DEF Increasing
<1>4. ASSUME NEW j \in 1..(i - 1), g.lines[j] # Junk PROVE g.lines[j].seq < g.lines[i].seq
  <2>1. j \in 1..Len(g.lines)
    BY <1>1
  <2>2. PICK b \in 1..Len(f.lines) : b = j + k /\ g.lines[j] = f.lines[b]
    BY <1>4, <2>1 DEF PartOf
  <2>3. b \in 1..(a - 1)
    BY <1>1, <1>2, <2>1, <2>2
  <2> QED
    BY <1>2, <1>4, <2>2, <2>3 DEF Increasing
<1> QED
  BY <1>3, <1>4

\* A next number that is higher still keeps them increasing.
LEMMA IncreasingFurther ==
  ASSUME NEW S, \A s \in S : s.seq \in Nat, NEW f, Sound(f, S),
         NEW m \in Nat, NEW n \in Nat, m <= n, Increasing(f, m)
  PROVE  Increasing(f, n)
<1>1. f.lines \in Seq({Junk} \cup S)
  BY DEF Sound
<1>2. ASSUME NEW i \in 1..Len(f.lines), f.lines[i] # Junk PROVE f.lines[i].seq < n
  <2>1. f.lines[i].seq \in Nat
    BY <1>1, <1>2, ElementOfSeq
  <2>2. f.lines[i].seq < m
    BY <1>2 DEF Increasing
  <2> QED
    BY <2>1, <2>2
<1> QED
  BY <1>2 DEF Increasing

\* If the numbers increase up to that of r, they do after r was appended.
LEMMA AppendedIncreasing ==
  ASSUME NEW S, \A s \in S : s.seq \in Nat, NEW f, NEW g, NEW r \in S,
         Sound(f, S), Sound(g, S), Appended(f, r, g), Increasing(f, r.seq)
  PROVE  Increasing(g, r.seq + 1)
<1>1. /\ Len(f.lines) \in Nat /\ Len(g.lines) \in Nat
      /\ r.seq \in Nat /\ r.seq + 1 \in Nat /\ r.seq <= r.seq + 1
  BY LenProperties DEF Sound
<1>2. Increasing(f, r.seq + 1)
  BY <1>1, IncreasingFurther
<1>3. CASE PartOf(g, f, 0)
  <2>1. 0 \in Nat
    OBVIOUS
  <2> QED
    BY <1>2, <1>3, <2>1, PartIncreasing, Zenon
<1>4. CASE g.lines = f.lines /\ g.open = f.open
  BY <1>2, <1>4 DEF Increasing
<1>5. CASE /\ f.open /\ Len(g.lines) = Len(f.lines) /\ g.lines[Len(f.lines)] = Junk
           /\ \A i \in 1..(Len(f.lines) - 1) : g.lines[i] = f.lines[i]
  <2>1. ASSUME NEW i \in 1..Len(g.lines), g.lines[i] # Junk
        PROVE  i + 0 \in 1..Len(f.lines) /\ g.lines[i] = f.lines[i + 0]
    <3>1. i \in 1..(Len(f.lines) - 1) /\ i + 0 = i
      BY <1>1, <1>5, <2>1
    <3> QED
      BY <1>1, <1>5, <3>1
  <2> QED
    BY <1>3, <2>1 DEF PartOf
<1>6. CASE /\ ~f.open /\ Len(g.lines) = Len(f.lines) + 1
           /\ g.lines[Len(f.lines) + 1] \in {Junk, r}
           /\ \A i \in 1..Len(f.lines) : g.lines[i] = f.lines[i]
  <2> SUFFICES ASSUME NEW i \in 1..Len(g.lines), g.lines[i] # Junk
               PROVE  /\ g.lines[i].seq < r.seq + 1
                      /\ \A j \in 1..(i - 1) : g.lines[j] # Junk => g.lines[j].seq < g.lines[i].seq
    BY DEF Increasing
  <2>1. \A j \in 1..(i - 1) : j \in 1..Len(f.lines)
    BY <1>1, <1>6
  <2>2. CASE i = Len(f.lines) + 1
    <3>1. g.lines[i] = r
      BY <1>6, <2>2
    <3>2. ASSUME NEW j \in 1..(i - 1), g.lines[j] # Junk PROVE g.lines[j].seq < r.seq
      <4>1. j \in 1..Len(f.lines) /\ g.lines[j] = f.lines[j]
        BY <1>6, <2>1
      <4> QED
        BY <3>2, <4>1 DEF Increasing
    <3> QED
      BY <1>1, <3>1, <3>2
  <2>3. CASE i # Len(f.lines) + 1
    <3>1. i \in 1..Len(f.lines)
      BY <1>1, <1>6, <2>3
    <3> QED
      BY <1>2, <1>6, <2>1, <3>1 DEF Increasing
  <2> QED
    BY <2>2, <2>3
<1> QED
  BY <1>4, <1>5, <1>6 DEF Appended

\* A restart that goes on from the last line of a file, or from 0 if there is none,
\* goes on above all of them.
LEMMA RecoveredIncreasing ==
  ASSUME NEW S, \A s \in S : s.seq \in Nat, NEW f, Sound(f, S), NEW m, Increasing(f, m),
         NEW n, EndsReadable(f) => n = LastLine(f).seq, f.lines = <<>> \/ EndsReadable(f)
  PROVE  Increasing(f, n + 1)
<1>1. f.lines \in Seq({Junk} \cup S) /\ Len(f.lines) \in Nat
  BY LenProperties DEF Sound
<1>2. CASE f.lines = <<>>
  <2>1. Len(f.lines) = 0
    BY <1>2, EmptySeq
  <2> QED
    BY <2>1 DEF Increasing
<1>3. CASE EndsReadable(f)
  <2>1. PICK l \in 1..Len(f.lines) : l = Len(f.lines) /\ f.lines[l] # Junk /\ n = f.lines[l].seq
    BY <1>1, <1>3, EmptySeq DEF EndsReadable, LastLine
  <2>2. n \in Nat
    BY <1>1, <2>1, ElementOfSeq
  <2>3. ASSUME NEW i \in 1..Len(f.lines), f.lines[i] # Junk PROVE f.lines[i].seq < n + 1
    <3>1. f.lines[i].seq \in Nat
      BY <1>1, <2>3, ElementOfSeq
    <3>2. i = l \/ i \in 1..(l - 1)
      BY <1>1, <2>1
    <3>3. i \in 1..(l - 1) => f.lines[i].seq < n
      BY <2>1, <2>3 DEF Increasing
    <3> QED
      BY <2>1, <2>2, <3>1, <3>2, <3>3
  <2> QED
    BY <2>3 DEF Increasing
<1> QED
  BY <1>2, <1>3

\* Sequences of length n that agree up to n are the same beginning.
LEMMA SameBeginning ==
  ASSUME NEW T, NEW s \in Seq(T), NEW t \in Seq(T), Len(s) <= Len(t),
         \A i \in 1..Len(s) : s[i] = t[i]
  PROVE  SubSeq(t, 1, Len(s)) = s
<1>1. Len(s) \in Nat /\ Len(t) \in Nat
  BY LenProperties
<1>2. /\ SubSeq(t, 1, Len(s)) \in Seq(T)
      /\ Len(SubSeq(t, 1, Len(s))) = Len(s)
      /\ \A i \in 1..Len(s) : SubSeq(t, 1, Len(s))[i] = t[i]
  BY <1>1, SubSeqProperties
<1> QED
  BY <1>1, <1>2, SeqEqual

\* The closed lines are the lines but for an open one.
LEMMA ClosedShape ==
  ASSUME NEW S, NEW f, Sound(f, S)
  PROVE  /\ Closed(f) \in Seq({Junk} \cup S)
         /\ Len(Closed(f)) = IF f.open THEN Len(f.lines) - 1 ELSE Len(f.lines)
         /\ Len(Closed(f)) \in Nat /\ Len(Closed(f)) <= Len(f.lines)
         /\ \A i \in 1..Len(Closed(f)) : Closed(f)[i] = f.lines[i]
<1>1. f.lines \in Seq({Junk} \cup S) /\ Len(f.lines) \in Nat
  BY LenProperties DEF Sound
<1>2. CASE ~f.open
  BY <1>1, <1>2 DEF Closed
<1>3. CASE f.open
  <2>1. Len(f.lines) # 0
    BY <1>1, <1>3, EmptySeq DEF Sound
  <2> QED
    BY <1>1, <1>3, <2>1, SubSeqProperties DEF Closed
<1> QED
  BY <1>2, <1>3 DEF Sound

\* What is appended leaves the closed lines as they are.
LEMMA AppendedContinues ==
  ASSUME NEW S, NEW f, NEW g, NEW r, Sound(f, S), Sound(g, S), Appended(f, r, g)
  PROVE  Continues(f, g)
<1>1. /\ f.lines \in Seq({Junk} \cup S) /\ Len(f.lines) \in Nat
      /\ g.lines \in Seq({Junk} \cup S) /\ Len(g.lines) \in Nat
  BY LenProperties DEF Sound
<1>2. /\ Closed(f) \in Seq({Junk} \cup S)
      /\ Len(Closed(f)) = IF f.open THEN Len(f.lines) - 1 ELSE Len(f.lines)
      /\ \A i \in 1..Len(Closed(f)) : Closed(f)[i] = f.lines[i]
  BY ClosedShape
<1>3. /\ Len(Closed(f)) <= Len(g.lines)
      /\ \A i \in 1..Len(Closed(f)) : Closed(f)[i] = g.lines[i]
  <2>1. CASE g.lines = f.lines
    BY <1>1, <1>2, <2>1
  <2>2. CASE g.lines # f.lines
    BY <1>1, <1>2, <2>2 DEF Appended
  <2> QED
    BY <2>1, <2>2
<1> QED
  BY <1>1, <1>2, <1>3, SameBeginning DEF Continues
-----------------------------------------------------------------------------
(* What a rotation leaves *)

\* The newest MaxEvents lines.
LEMMA KeptShape ==
  ASSUME NEW S, NEW f, Sound(f, S), Len(f.lines) > MaxEvents
  PROVE  /\ Sound(Kept(f), S) /\ Len(Kept(f).lines) = MaxEvents
         /\ \A i \in 1..MaxEvents : Kept(f).lines[i] = f.lines[Len(f.lines) - MaxEvents + i]
<1> DEFINE n == Len(f.lines)
           x == SubSeq(f.lines, n - MaxEvents + 1, n)
<1>1. f.lines \in Seq({Junk} \cup S) /\ n \in Nat
  BY LenProperties DEF Sound
<1>2. \A i \in (n - MaxEvents + 1)..n : f.lines[i] \in {Junk} \cup S
  <2> SUFFICES ASSUME NEW i \in (n - MaxEvents + 1)..n
               PROVE  f.lines[i] \in {Junk} \cup S
    OBVIOUS
  <2>1. i \in 1..Len(f.lines)
    BY <1>1
  <2> QED
    BY <1>1, <2>1, ElementOfSeq
<1>3. n - MaxEvents + 1 \in Int /\ n \in Int
  BY <1>1
<1>4. /\ x \in Seq({Junk} \cup S)
      /\ Len(x) = IF n - MaxEvents + 1 <= n THEN n - (n - MaxEvents + 1) + 1 ELSE 0
      /\ \A i \in 1..(n - (n - MaxEvents + 1) + 1) : x[i] = f.lines[(n - MaxEvents + 1) + i - 1]
  <2> HIDE DEF n
  <2>1. PICK m \in Int : m = n - MaxEvents + 1
    BY <1>3
  <2>2. \A i \in m..n : f.lines[i] \in {Junk} \cup S
    BY <1>2, <2>1
  <2>3. /\ SubSeq(f.lines, m, n) \in Seq({Junk} \cup S)
        /\ Len(SubSeq(f.lines, m, n)) = IF m <= n THEN n - m + 1 ELSE 0
        /\ \A i \in 1..(n - m + 1) : SubSeq(f.lines, m, n)[i] = f.lines[m + i - 1]
    BY <1>3, <2>2, SubSeqProperties
  <2> QED
    BY <2>1, <2>3
<1>5. Len(x) = MaxEvents /\ \A i \in 1..MaxEvents : x[i] = f.lines[n - MaxEvents + i]
  BY <1>1, <1>4
<1>6. Kept(f) = [lines |-> x, open |-> f.open]
  BY DEF Kept
<1>7. x # <<>>
  BY <1>5
<1> HIDE DEF x
<1> QED
  BY <1>4, <1>5, <1>6, <1>7 DEF Sound

\* The numbers that increase in a file do in its newest lines.
LEMMA KeptIncreasing ==
  ASSUME NEW S, NEW f, Sound(f, S), Len(f.lines) > MaxEvents,
         NEW m, Increasing(f, m)
  PROVE  Increasing(Kept(f), m)
<1>1. PICK n \in Nat : n = Len(f.lines)
  BY LenProperties DEF Sound
<1>2. PICK k \in Nat : k = n - MaxEvents
  <2>1. n > MaxEvents
    BY <1>1, Zenon
  <2>2. n - MaxEvents \in Nat
    BY <2>1, SMT
  <2> QED
    BY <2>2, Zenon
<1>3. /\ Sound(Kept(f), S) /\ Len(Kept(f).lines) = MaxEvents
      /\ \A i \in 1..MaxEvents : Kept(f).lines[i] = f.lines[Len(f.lines) - MaxEvents + i]
  BY KeptShape, Zenon
<1>4. ASSUME NEW i \in 1..MaxEvents PROVE i + k \in 1..n /\ n - MaxEvents + i = i + k
  BY <1>1, <1>2
<1>5. PICK g : g = Kept(f)
  OBVIOUS
<1>6. PartOf(g, f, k)
  BY <1>1, <1>3, <1>4, <1>5 DEF PartOf
<1>7. Sound(g, S)
  BY <1>3, <1>5
<1>8. Increasing(g, m)
  BY <1>6, <1>7, PartIncreasing, Zenon
<1> QED
  BY <1>5, <1>8

\* The lines of a beginning of a file are its lines, but for a last one cut off.
LEMMA PrefixShape ==
  ASSUME NEW S, NEW k, Sound(k, S), NEW g \in Prefixes(k)
  PROVE  /\ Sound(g, S) /\ Len(g.lines) <= Len(k.lines)
         /\ \A i \in 1..Len(g.lines) :
              \/ g.lines[i] = k.lines[i]
              \/ i = Len(g.lines) /\ g.open /\ g.lines[i] = Junk
<1> DEFINE L == {Junk} \cup S
<1>1. k.lines \in Seq(L) /\ Len(k.lines) \in Nat
  BY LenProperties DEF Sound
<1>2. ASSUME NEW n \in 0..Len(k.lines)
      PROVE  /\ SubSeq(k.lines, 1, n) \in Seq(L) /\ Len(SubSeq(k.lines, 1, n)) = n
             /\ \A i \in 1..n : SubSeq(k.lines, 1, n)[i] = k.lines[i]
  <2>1. \A i \in 1..n : k.lines[i] \in L
    BY <1>1, ElementOfSeq
  <2> QED
    BY <1>1, <2>1, SubSeqProperties
<1>3. CASE \E n \in 0..Len(k.lines) : g = Prefix(k, n)
  <2>1. PICK n \in 0..Len(k.lines) : g = Prefix(k, n)
    BY <1>3
  <2>2. PICK x : x = SubSeq(k.lines, 1, n)
    OBVIOUS
  <2>3. x \in Seq(L) /\ Len(x) = n /\ \A i \in 1..n : x[i] = k.lines[i]
    BY <1>2, <2>2
  <2>4. g = [lines |-> x, open |-> n = Len(k.lines) /\ k.open]
    BY <2>1, <2>2 DEF Prefix
  <2>5. n = Len(k.lines) /\ k.open => x # <<>>
    BY <1>1, <2>3, EmptySeq DEF Sound
  <2>6. g.lines = x /\ g.open = (n = Len(k.lines) /\ k.open)
    BY <2>4
  <2>7. Sound(g, S)
    BY <2>3, <2>5, <2>6 DEF Sound
  <2> QED
    BY <1>1, <2>3, <2>6, <2>7
<1>4. CASE \E n \in 1..Len(k.lines) : g = CutOff(k, n)
  <2>1. PICK n \in 1..Len(k.lines) : g = CutOff(k, n)
    BY <1>4
  <2>2. PICK x : x = SubSeq(k.lines, 1, n)
    OBVIOUS
  <2>3. x \in Seq(L) /\ Len(x) = n /\ \A i \in 1..n : x[i] = k.lines[i]
    BY <1>2, <2>2
  <2>4. PICK y : y = [x EXCEPT ![n] = Junk]
    OBVIOUS
  <2>5. y \in Seq(L) /\ Len(y) = n /\ \A i \in 1..n : y[i] = IF i = n THEN Junk ELSE x[i]
    BY <1>1, <2>3, <2>4, ExceptSeq
  <2>6. g = [lines |-> y, open |-> TRUE]
    BY <2>1, <2>2, <2>4 DEF CutOff
  <2>7. y # <<>>
    BY <2>5
  <2> QED
    BY <1>1, <2>3, <2>5, <2>6, <2>7 DEF Sound
<1>5. CASE \E n \in 1..Len(k.lines) : g = Unended(k, n)
  <2>1. PICK n \in 1..Len(k.lines) : g = Unended(k, n)
    BY <1>5
  <2>2. PICK x : x = SubSeq(k.lines, 1, n)
    OBVIOUS
  <2>3. x \in Seq(L) /\ Len(x) = n /\ \A i \in 1..n : x[i] = k.lines[i]
    BY <1>2, <2>2
  <2>4. g.lines = x /\ g.open = TRUE
    BY <2>1, <2>2 DEF Unended
  <2>5. x # <<>>
    BY <2>3
  <2>6. Sound(g, S)
    BY <2>3, <2>4, <2>5 DEF Sound
  <2> QED
    BY <1>1, <2>3, <2>4, <2>6
<1> QED
  BY <1>3, <1>4, <1>5 DEF Prefixes

\* The numbers that increase in a file do in a beginning of it.
LEMMA PrefixIncreasing ==
  ASSUME NEW S, NEW k, Sound(k, S), NEW m, Increasing(k, m), NEW g \in Prefixes(k)
  PROVE  Increasing(g, m)
<1>1. Sound(g, S) /\ Len(k.lines) \in Nat /\ Len(g.lines) \in Nat /\ Len(g.lines) <= Len(k.lines)
  BY PrefixShape, LenProperties DEF Sound
<1>2. \A i \in 1..Len(g.lines) : g.lines[i] # Junk => g.lines[i] = k.lines[i]
  BY PrefixShape
<1>3. \A i \in 1..Len(g.lines) : i + 0 = i /\ i \in 1..Len(k.lines)
  BY <1>1
<1>4. PartOf(g, k, 0) /\ 0 \in Nat
  BY <1>2, <1>3 DEF PartOf
<1> QED
  BY <1>1, <1>4, PartIncreasing, Zenon

\* The closed lines of a beginning are a beginning of the lines.
LEMMA PrefixClosed ==
  ASSUME NEW S, NEW k, Sound(k, S), NEW g \in Prefixes(k)
  PROVE  Closed(g) = SubSeq(k.lines, 1, Len(Closed(g)))
<1>1. /\ Sound(g, S) /\ Len(g.lines) <= Len(k.lines)
      /\ \A i \in 1..Len(g.lines) :
           \/ g.lines[i] = k.lines[i]
           \/ i = Len(g.lines) /\ g.open /\ g.lines[i] = Junk
  BY PrefixShape
<1>2. /\ Closed(g) \in Seq({Junk} \cup S)
      /\ Len(Closed(g)) = IF g.open THEN Len(g.lines) - 1 ELSE Len(g.lines)
      /\ Len(Closed(g)) \in Nat /\ Len(Closed(g)) <= Len(g.lines)
      /\ \A i \in 1..Len(Closed(g)) : Closed(g)[i] = g.lines[i]
  BY <1>1, ClosedShape
<1>3. k.lines \in Seq({Junk} \cup S) /\ Len(k.lines) \in Nat /\ Len(g.lines) \in Nat
  BY <1>1, LenProperties DEF Sound
<1>4. Len(Closed(g)) <= Len(k.lines)
  BY <1>1, <1>2, <1>3
<1>5. \A i \in 1..Len(Closed(g)) : Closed(g)[i] = k.lines[i]
  <2> SUFFICES ASSUME NEW i \in 1..Len(Closed(g)) PROVE Closed(g)[i] = k.lines[i]
    OBVIOUS
  <2>1. i \in 1..Len(g.lines) /\ ~(i = Len(g.lines) /\ g.open)
    BY <1>2, <1>3
  <2> QED
    BY <1>1, <1>2, <2>1
<1> QED
  BY <1>2, <1>3, <1>4, <1>5, SameBeginning
-----------------------------------------------------------------------------
(* SafetyLog *)

Records == {Record(n) : n \in 1..MaxSeq}

\* A number has been taken when a record is written, and there is something to
\* remove when the file is rewritten.
CallInv ==
  /\ phase \in {"write", "sync"} => seq >= 1
  /\ phase = "rewrite" => Len(file.lines) > MaxEvents

IInv == TypeOK /\ Sound(file, Records) /\ CallInv /\ SequenceIncreases

\* The records of the safety log carry their numbers.
LEMMA RecordFacts ==
  /\ \A n \in 1..MaxSeq : Record(n) \in Records /\ Record(n).seq = n
  /\ \A s \in Records : s.seq \in 1..MaxSeq /\ s.seq \in Nat
<1>1. \A n \in 1..MaxSeq : Record(n) \in Records /\ Record(n).seq = n
  BY DEF Records, Record
<1>2. ASSUME NEW s \in Records PROVE s.seq \in 1..MaxSeq /\ s.seq \in Nat
  <2>1. PICK n \in 1..MaxSeq : s = Record(n)
    BY DEF Records
  <2> QED
    BY <1>1, <2>1
<1> QED
  BY <1>1, <1>2

\* What a power failure leaves: a sound file, the old one with the append that was
\* under way in some extent, or a beginning of what the rotation was writing.
LEMMA CrashShape ==
  ASSUME TypeOK, Sound(file, Records), CallInv, NEW g \in FileAfterCrash
  PROVE  /\ Sound(g, Records)
         /\ phase = "sync" => Appended(file, Record(seq), g)
         /\ phase = "rewrite" => g = file \/ g \in Prefixes(Kept(file))
         /\ phase \notin {"sync", "rewrite"} => g = file
<1>1. CASE phase = "sync"
  <2>1. PICK e \in Reached(written) : g = Extended(file, Record(seq), e)
    BY <1>1 DEF FileAfterCrash
  <2>2. e \in Extent
    BY DEF Reached, Extent, TypeOK
  <2>3. Record(seq) \in Records
    BY <1>1, RecordFacts DEF CallInv, TypeOK
  <2>4. Sound(g, Records) /\ Appended(file, Record(seq), g)
    BY <2>1, <2>2, <2>3, ExtendedShape
  <2> QED
    BY <1>1, <2>4
<1>2. CASE phase = "rewrite"
  <2>1. g = file \/ g \in Prefixes(Kept(file))
    BY <1>2 DEF FileAfterCrash
  <2>2. Sound(Kept(file), Records)
    BY <1>2, KeptShape DEF CallInv
  <2>3. Sound(g, Records)
    BY <2>1, <2>2, PrefixShape
  <2> QED
    BY <1>2, <2>1, <2>3
<1>3. CASE phase \notin {"sync", "rewrite"}
  BY <1>3 DEF FileAfterCrash
<1> QED
  BY <1>1, <1>2, <1>3

\* The numbers in what a power failure leaves increase.
LEMMA CrashIncreasing ==
  ASSUME TypeOK, Sound(file, Records), CallInv, NEW g \in FileAfterCrash,
         SequenceIncreases, errors = {}
  PROVE  Increasing(g, seq + 1)
<1>1. Increasing(file, seq + 1)
  <2>1. seq \in Nat /\ seq + 1 \in Nat /\ seq <= seq + 1
    BY DEF TypeOK
  <2>2. Increasing(file, seq) \/ Increasing(file, seq + 1)
    BY DEF SequenceIncreases
  <2> QED
    BY <2>1, <2>2, RecordFacts, IncreasingFurther
<1>2. CASE phase = "sync"
  <2>1. seq \in 1..MaxSeq
    BY <1>2 DEF TypeOK, CallInv
  <2>2. Increasing(file, Record(seq).seq) /\ Record(seq) \in Records /\ Record(seq).seq = seq
    BY <1>2, <2>1, RecordFacts DEF SequenceIncreases
  <2>3. Sound(g, Records) /\ Appended(file, Record(seq), g)
    BY <1>2, CrashShape
  <2>4. Increasing(g, Record(seq).seq + 1)
    BY <2>2, <2>3, RecordFacts, AppendedIncreasing
  <2> QED
    BY <2>2, <2>4
<1>3. CASE phase = "rewrite"
  <2>1. Increasing(Kept(file), seq + 1) /\ Sound(Kept(file), Records)
    BY <1>1, <1>3, KeptIncreasing, KeptShape DEF CallInv
  <2>2. g = file \/ g \in Prefixes(Kept(file))
    BY <1>3, CrashShape
  <2> QED
    BY <1>1, <2>1, <2>2, PrefixIncreasing
<1>4. CASE phase \notin {"sync", "rewrite"}
  BY <1>1, <1>4, CrashShape
<1> QED
  BY <1>2, <1>3, <1>4

\* IInv holds in the empty log.
LEMMA InitIInv == LogInit => IInv
<1> SUFFICES ASSUME LogInit PROVE IInv
  OBVIOUS
<1>1. file.lines = <<>> /\ file.open = FALSE
  BY DEF LogInit, EmptyFile
<1>2. Sound(file, Records)
  BY <1>1, EmptySeq DEF Sound
<1>3. TypeOK
  BY <1>2 DEF TypeOK, LogInit, Sound, Records, Extent
<1>4. SequenceIncreases
  <2>1. Len(file.lines) = 0
    BY <1>1, EmptySeq
  <2> QED
    BY <2>1 DEF SequenceIncreases, Increasing
<1> QED
  BY <1>2, <1>3, <1>4 DEF IInv, CallInv, LogInit

\* Every step of the safety log keeps IInv.
LEMMA StepIInv == IInv /\ [Next]_logVars => IInv'
<1> SUFFICES ASSUME IInv, [Next]_logVars PROVE IInv'
  OBVIOUS
<1> USE DEF IInv
<1>0. seq \in Nat /\ Len(file.lines) \in Nat
  BY LenProperties DEF TypeOK, Sound
<1>1. ASSUME Sound(file', Records) PROVE file'.lines \in Seq({Junk} \cup Records)
                                         /\ file'.open \in BOOLEAN
  BY <1>1 DEF Sound
<1>2. CASE LogEvent
  <2>1. seq + 1 \in 0..MaxSeq
    BY <1>2 DEF LogEvent, TypeOK
  <2>2. Sound(file', Records) /\ TypeOK' /\ CallInv'
    BY <1>0, <1>2, <2>1 DEF LogEvent, TypeOK, CallInv
  <2>3. SequenceIncreases'
    BY <1>2 DEF LogEvent, SequenceIncreases
  <2> QED
    BY <2>2, <2>3
<1>3. CASE WriteFails
  <2>1. Sound(file', Records) /\ TypeOK' /\ CallInv'
    BY <1>3 DEF WriteFails, TypeOK, CallInv
  <2>2. SequenceIncreases'
    BY <1>0, <1>3, RecordFacts, IncreasingFurther DEF WriteFails, SequenceIncreases
  <2> QED
    BY <2>1, <2>2
<1>4. ASSUME NEW e \in Extent, WriteLine(e) PROVE IInv'
  <2>1. Sound(file', Records) /\ TypeOK' /\ CallInv'
    BY <1>4 DEF WriteLine, TypeOK, CallInv
  <2>2. SequenceIncreases'
    BY <1>4 DEF WriteLine, SequenceIncreases
  <2> QED
    BY <2>1, <2>2
<1>5. CASE SyncLine \/ SyncFails
  <2>1. /\ phase = "sync" /\ phase' \in {"rotate", "idle"} /\ written' = "none"
        /\ UNCHANGED <<seq, errors>>
    BY <1>5 DEF SyncLine, SyncFails
  <2>2. file' \in FileAfterCrash
    <3>1. CASE SyncLine
      <4>1. written \in Reached(written)
        BY DEF TypeOK, Extent, Reached
      <4> QED
        BY <3>1, <4>1 DEF SyncLine, FileAfterCrash
    <3> QED
      BY <1>5, <3>1 DEF SyncFails
  <2>3. Sound(file', Records)
    BY <2>2, CrashShape
  <2>4. TypeOK' /\ CallInv'
    BY <1>1, <2>1, <2>3 DEF TypeOK, CallInv, Records, Extent
  <2>5. SequenceIncreases'
    BY <2>1, <2>2, CrashIncreasing DEF SequenceIncreases
  <2> QED
    BY <2>3, <2>4, <2>5
<1>6. CASE BeginRotation
  <2>1. Sound(file', Records) /\ TypeOK' /\ CallInv'
    BY <1>6 DEF BeginRotation, TypeOK, CallInv
  <2>2. SequenceIncreases'
    BY <1>6 DEF BeginRotation, SequenceIncreases
  <2> QED
    BY <2>1, <2>2
<1>7. CASE EndRotation
  <2>1. Sound(file', Records)
    BY <1>7, KeptShape DEF EndRotation, CallInv
  <2>2. TypeOK' /\ CallInv'
    BY <1>1, <1>7, <2>1 DEF EndRotation, TypeOK, CallInv, Records
  <2>3. SequenceIncreases'
    BY <1>7, KeptIncreasing DEF EndRotation, CallInv, SequenceIncreases
  <2> QED
    BY <2>1, <2>2, <2>3
<1>8. CASE RotationFails
  <2>1. file' \in FileAfterCrash
    BY <1>8 DEF RotationFails, FileAfterCrash
  <2>2. Sound(file', Records)
    BY <2>1, CrashShape
  <2>3. TypeOK' /\ CallInv'
    BY <1>1, <1>8, <2>2 DEF RotationFails, TypeOK, CallInv, Records
  <2>4. SequenceIncreases'
    BY <1>8, <2>1, CrashIncreasing DEF RotationFails, SequenceIncreases
  <2> QED
    BY <2>2, <2>3, <2>4
<1>9. ASSUME NEW unreadable \in BOOLEAN, Restart(unreadable) PROVE IInv'
  <2>1. Sound(file', Records)
    BY <1>9, CrashShape DEF Restart
  <2>2. file'.lines \in Seq({Junk} \cup Records) /\ Len(file'.lines) \in Nat
    BY <2>1, LenProperties DEF Sound
  <2>3. EndsReadable(file') => LastLine(file').seq \in 1..MaxSeq
    BY <2>2, EmptySeq, ElementOfSeq, RecordFacts DEF EndsReadable, LastLine
  <2>4. seq' \in 0..MaxSeq
    BY <1>9, <2>3 DEF Restart, RecoveredSeq
  <2>5. errors' \subseteq {"torn", "read"}
    BY <1>9 DEF Restart, TypeOK, Lost
  <2>6. TypeOK' /\ CallInv'
    BY <1>1, <1>9, <2>1, <2>4, <2>5 DEF Restart, TypeOK, CallInv, Records, Extent
  <2>7. SequenceIncreases'
    <3> SUFFICES ASSUME errors' = {} PROVE Increasing(file', seq' + 1)
      BY <1>9 DEF Restart, SequenceIncreases
    <3>1. errors = {} /\ ~unreadable /\ (file'.lines = <<>> \/ EndsReadable(file'))
      BY <1>9 DEF Restart, Lost
    <3>2. Increasing(file', seq + 1)
      BY <1>9, <3>1, CrashIncreasing DEF Restart
    <3>3. EndsReadable(file') => seq' = LastLine(file').seq
      BY <1>9, <3>1 DEF Restart, RecoveredSeq
    <3> QED
      BY <2>1, <3>1, <3>2, <3>3, RecordFacts, RecoveredIncreasing
  <2> QED
    BY <2>1, <2>6, <2>7
<1>10. CASE UNCHANGED logVars
  BY <1>10 DEF logVars, TypeOK, CallInv, SequenceIncreases
<1> QED
  BY <1>2, <1>3, <1>4, <1>5, <1>6, <1>7, <1>8, <1>9, <1>10 DEF Next

\* Every reachable state of the safety log satisfies IInv.
LEMMA Invariance == Spec => []IInv
  BY InitIInv, StepIInv, PTL DEF Spec

\* The variables of SafetyLog keep their types: log_event, _rotate_if_needed and
\* _recover_sequence never put anything but records and torn lines into the file.
THEOREM TypeCorrect == Spec => []TypeOK
<1>1. IInv => TypeOK
  BY DEF IInv
<1> QED
  BY <1>1, Invariance, PTL

\* The numbers of all records that are in the file increase, across torn lines and
\* through failed writes and fsyncs, rotations that fail or are cut short and restarts,
\* for every MAX_EVENTS and rotation period, as long as _recover_sequence can read and
\* parse the last line.  When it cannot, the numbers begin again with 1, of which the
\* theorem says nothing.
THEOREM SequenceSafety == Spec => []SequenceIncreases
<1>1. IInv => SequenceIncreases
  BY DEF IInv
<1> QED
  BY <1>1, Invariance, PTL

\* What FinishedLinesStay says of a step.
FinishedLinesStep ==
  \/ Continues(file, file')
  \/ EndRotation /\ file'.lines = Newest
  \/ /\ phase = "rewrite" /\ ~EndRotation
     /\ Closed(file') = SubSeq(Newest, 1, Len(Closed(file')))

\* A file that stays continues itself.
LEMMA SameContinues ==
  ASSUME NEW S, NEW f, Sound(f, S)
  PROVE  Continues(f, f)
<1>1. Appended(f, Junk, f)
  BY DEF Appended
<1> QED
  BY <1>1, AppendedContinues

\* What is left by a power failure in FileAfterCrash keeps the finished lines, or
\* is a beginning of the newest ones.
LEMMA CrashLines ==
  ASSUME IInv, file' \in FileAfterCrash, phase = "rewrite" => ~EndRotation
  PROVE  FinishedLinesStep
<1>1. /\ Sound(file', Records)
      /\ phase = "sync" => Appended(file, Record(seq), file')
      /\ phase = "rewrite" => file' = file \/ file' \in Prefixes(Kept(file))
      /\ phase \notin {"sync", "rewrite"} => file' = file
  BY CrashShape DEF IInv
<1>2. CASE file' = file
  BY <1>2, SameContinues DEF IInv, FinishedLinesStep
<1>3. CASE phase = "sync"
  BY <1>1, <1>3, AppendedContinues DEF IInv, FinishedLinesStep
<1>4. CASE phase = "rewrite" /\ file' \in Prefixes(Kept(file))
  <2>1. Sound(Kept(file), Records)
    BY <1>4, KeptShape DEF IInv, CallInv
  <2>2. Closed(file') = SubSeq(Kept(file).lines, 1, Len(Closed(file')))
    BY <1>4, <2>1, PrefixClosed
  <2>3. Kept(file).lines = Newest
    BY DEF Kept, Newest
  <2> QED
    BY <1>4, <2>2, <2>3 DEF FinishedLinesStep
<1> QED
  BY <1>1, <1>2, <1>3, <1>4

\* Finished lines stay as they are whatever fails or restarts, but for a rotation.
\* One that ends leaves exactly the newest MAX_EVENTS lines, one that fails or is
\* interrupted a beginning of them: there the log loses lines.
THEOREM LinesSafety == Spec => FinishedLinesStay
<1>1. ASSUME IInv, [Next]_logVars PROVE [FinishedLinesStep]_logVars
  <2>1. CASE UNCHANGED file
    BY <1>1, <2>1, SameContinues DEF IInv, FinishedLinesStep
  <2>2. CASE SyncLine
    <3>1. written \in Reached(written) /\ phase # "rewrite"
      BY <1>1, <2>2 DEF IInv, TypeOK, Extent, Reached, SyncLine
    <3>2. file' \in FileAfterCrash
      BY <2>2, <3>1 DEF SyncLine, FileAfterCrash
    <3> QED
      BY <1>1, <3>1, <3>2, CrashLines
  <2>3. CASE EndRotation
    BY <2>3 DEF EndRotation, Kept, Newest, FinishedLinesStep
  <2>4. CASE (SyncFails \/ RotationFails \/ \E unreadable \in BOOLEAN : Restart(unreadable))
               /\ ~EndRotation
    <3>1. file' \in FileAfterCrash
      BY <2>4 DEF SyncFails, RotationFails, Restart, FileAfterCrash
    <3> QED
      BY <1>1, <2>4, <3>1, CrashLines
  <2> QED
    BY <1>1, <2>1, <2>2, <2>3, <2>4
    DEF Next, LogEvent, WriteFails, WriteLine, BeginRotation, logVars
<1>2. [][FinishedLinesStep]_logVars => FinishedLinesStay
  BY PTL DEF FinishedLinesStay, FinishedLinesStep
<1> QED
  BY <1>1, <1>2, Invariance, PTL DEF Spec
-----------------------------------------------------------------------------
(* SecurityLog *)

SecRecords == [seq : 1..MaxSeq, hash : Seq(1..MaxSeq)]

\* An append that writes something ends the file in junk or in its record.
LEMMA ExtendedEnd ==
  ASSUME NEW S, NEW f, NEW r \in S, NEW e \in Extent, e # "none", Sound(f, S)
  PROVE  /\ Extended(f, r, e).lines # <<>>
         /\ EndsReadable(Extended(f, r, e)) => LastLine(Extended(f, r, e)) = r
<1>1. f.lines \in Seq({Junk} \cup S) /\ Len(f.lines) \in Nat
  BY LenProperties DEF Sound
<1>2. PICK g : g = Extended(f, r, e)
  OBVIOUS
<1>3. CASE f.open
  <2>1. PICK x : x = [f.lines EXCEPT ![Len(f.lines)] = Junk]
    OBVIOUS
  <2>2. Len(f.lines) \in 1..Len(f.lines)
    BY <1>1, <1>3, EmptySeq DEF Sound
  <2>3. Len(x) = Len(f.lines) /\ x[Len(f.lines)] = Junk
    BY <1>1, <2>1, <2>2, ExceptSeq
  <2>4. g.lines = x
    BY <1>2, <1>3, <2>1 DEF Extended
  <2>5. x # <<>>
    BY <2>2, <2>3
  <2> QED
    BY <1>2, <2>3, <2>4, <2>5 DEF EndsReadable
<1>4. CASE ~f.open
  <2>1. PICK z \in {Junk, r} : z = IF e = "part" THEN Junk ELSE r
    OBVIOUS
  <2>2. PICK x : x = Append(f.lines, z)
    OBVIOUS
  <2>3. Len(x) = Len(f.lines) + 1 /\ x[Len(f.lines) + 1] = z
    BY <1>1, <2>1, <2>2, AppendProperties
  <2>4. g.lines = x
    BY <1>2, <1>4, <2>1, <2>2 DEF Extended
  <2>5. x # <<>>
    BY <1>1, <2>3
  <2> QED
    BY <1>2, <2>1, <2>3, <2>4, <2>5 DEF EndsReadable, LastLine
<1> QED
  BY <1>3, <1>4

\* Readable neighbours follow from each other, a readable first line follows from
\* GENESIS_HASH, and the hash c continues the file.
Linked(f) ==
  \A i \in 2..Len(f.lines) : f.lines[i - 1] # Junk /\ f.lines[i] # Junk =>
    Follows(f.lines[i], f.lines[i - 1].hash)
Rooted(f) ==
  f.lines # <<>> /\ f.lines[1] # Junk => Follows(f.lines[1], GENESIS_HASH)
Headed(f, c) ==
  /\ f.lines = <<>> => c = GENESIS_HASH
  /\ EndsReadable(f) => c = LastLine(f).hash

\* A record whose hash follows from the kept one extends the chain.
LEMMA AppendedLinked ==
  ASSUME NEW S, NEW f, NEW g, NEW r, NEW c, Sound(f, S), Sound(g, S), Appended(f, r, g),
         Linked(f), Rooted(f), Headed(f, c), Follows(r, c)
  PROVE  Linked(g) /\ Rooted(g)
<1>1. /\ f.lines \in Seq({Junk} \cup S) /\ Len(f.lines) \in Nat
      /\ g.lines \in Seq({Junk} \cup S) /\ Len(g.lines) \in Nat
  BY LenProperties DEF Sound
<1>2. /\ f.lines = <<>> <=> Len(f.lines) = 0
      /\ g.lines = <<>> <=> Len(g.lines) = 0
  BY <1>1, EmptySeq
<1>3. CASE g.lines = f.lines /\ g.open = f.open
  BY <1>3 DEF Linked, Rooted
<1>4. CASE /\ f.open /\ Len(g.lines) = Len(f.lines) /\ g.lines[Len(f.lines)] = Junk
           /\ \A i \in 1..(Len(f.lines) - 1) : g.lines[i] = f.lines[i]
  <2>1. Linked(g)
    <3> SUFFICES ASSUME NEW i \in 2..Len(g.lines), g.lines[i - 1] # Junk, g.lines[i] # Junk
                 PROVE  Follows(g.lines[i], g.lines[i - 1].hash)
      BY DEF Linked
    <3>1. i # Len(f.lines)
      BY <1>4
    <3>2. i \in 2..Len(f.lines) /\ i \in 1..(Len(f.lines) - 1) /\ i - 1 \in 1..(Len(f.lines) - 1)
      BY <1>1, <1>4, <3>1
    <3>3. g.lines[i] = f.lines[i] /\ g.lines[i - 1] = f.lines[i - 1]
      BY <1>4, <3>2
    <3> QED
      BY <3>2, <3>3 DEF Linked
  <2>2. Rooted(g)
    <3> SUFFICES ASSUME g.lines # <<>>, g.lines[1] # Junk
                 PROVE  Follows(g.lines[1], GENESIS_HASH)
      BY DEF Rooted
    <3>1. 1 \in 1..(Len(f.lines) - 1)
      BY <1>1, <1>2, <1>4
    <3> QED
      BY <1>2, <1>4, <3>1 DEF Rooted
  <2> QED
    BY <2>1, <2>2
<1>5. CASE /\ ~f.open /\ Len(g.lines) = Len(f.lines) + 1
           /\ g.lines[Len(f.lines) + 1] \in {Junk, r}
           /\ \A i \in 1..Len(f.lines) : g.lines[i] = f.lines[i]
  <2>1. Linked(g)
    <3> SUFFICES ASSUME NEW i \in 2..Len(g.lines), g.lines[i - 1] # Junk, g.lines[i] # Junk
                 PROVE  Follows(g.lines[i], g.lines[i - 1].hash)
      BY DEF Linked
    <3>1. i - 1 \in 1..Len(f.lines)
      BY <1>1, <1>5
    <3>2. g.lines[i - 1] = f.lines[i - 1]
      BY <1>5, <3>1
    <3>3. CASE i = Len(f.lines) + 1
      <4>1. g.lines[i] = r /\ i - 1 = Len(f.lines)
        BY <1>1, <1>5, <3>3
      <4>2. EndsReadable(f) /\ LastLine(f) = g.lines[i - 1]
        BY <1>2, <3>1, <3>2, <4>1 DEF EndsReadable, LastLine
      <4> QED
        BY <4>1, <4>2 DEF Headed
    <3>4. CASE i # Len(f.lines) + 1
      <4>1. i \in 2..Len(f.lines) /\ i \in 1..Len(f.lines)
        BY <1>1, <1>5, <3>4
      <4> QED
        BY <1>5, <3>2, <4>1 DEF Linked
    <3> QED
      BY <3>3, <3>4
  <2>2. Rooted(g)
    <3> SUFFICES ASSUME g.lines # <<>>, g.lines[1] # Junk
                 PROVE  Follows(g.lines[1], GENESIS_HASH)
      BY DEF Rooted
    <3>1. CASE Len(f.lines) = 0
      BY <1>2, <1>5, <3>1 DEF Headed
    <3>2. CASE Len(f.lines) # 0
      <4>1. 1 \in 1..Len(f.lines)
        BY <1>1, <3>2
      <4> QED
        BY <1>2, <1>5, <3>2, <4>1 DEF Rooted
    <3> QED
      BY <3>1, <3>2
  <2> QED
    BY <2>1, <2>2
<1> QED
  BY <1>3, <1>4, <1>5 DEF Appended

\* A number has been taken and something was written when a record waits for fsync;
\* the chain in the file and the hash in memory go together.
SecCallInv ==
  /\ phase # "idle" => seq >= 1
  /\ phase = "sync" => written # "none"
ChainInv == errors \cap {"fsync", "read"} = {} => Linked(file) /\ Rooted(file) /\ Headed(file, chain)

SecInv ==
  SecurityTypeOK /\ Sound(file, SecRecords) /\ SecCallInv /\ ChainInv /\ SecuritySequenceIncreases

\* The record under way has a type, its number and a hash that follows.
LEMMA SecRecordFacts ==
  ASSUME SecurityTypeOK, seq >= 1
  PROVE  /\ SecurityRecord(seq, chain) \in SecRecords
         /\ SecurityRecord(seq, chain).seq = seq
         /\ SecurityRecord(seq, chain).hash = Hash(chain, seq)
         /\ Follows(SecurityRecord(seq, chain), chain)
         /\ Hash(chain, seq) \in Seq(1..MaxSeq)
<1>1. seq \in 1..MaxSeq /\ chain \in Seq(1..MaxSeq)
  BY DEF SecurityTypeOK
<1>2. Hash(chain, seq) \in Seq(1..MaxSeq)
  BY <1>1, AppendProperties DEF Hash
<1> QED
  BY <1>1, <1>2 DEF SecRecords, SecurityRecord, Follows

\* Every record of the security log has a number and a hash.
LEMMA SecRecordTypes ==
  \A s \in SecRecords : s.seq \in 1..MaxSeq /\ s.seq \in Nat /\ s.hash \in Seq(1..MaxSeq)
  BY DEF SecRecords

\* What a power failure leaves of the security log.
LEMMA SecCrashShape ==
  ASSUME SecurityTypeOK, Sound(file, SecRecords), SecCallInv, NEW g \in SecurityFileAfterCrash
  PROVE  /\ Sound(g, SecRecords)
         /\ phase = "sync" => Appended(file, SecurityRecord(seq, chain), g)
         /\ phase # "sync" => g = file
<1>1. CASE phase = "sync"
  <2>1. PICK e \in Reached(written) : g = Extended(file, SecurityRecord(seq, chain), e)
    BY <1>1 DEF SecurityFileAfterCrash
  <2>2. e \in Extent
    BY DEF Reached, Extent, SecurityTypeOK
  <2>3. g = Extended(file, SecurityRecord(seq, chain), e)
    BY <2>1
  <2>4. SecurityRecord(seq, chain) \in SecRecords
    BY <1>1, SecRecordFacts DEF SecCallInv
  <2>5. Sound(g, SecRecords) /\ Appended(file, SecurityRecord(seq, chain), g)
    BY <2>2, <2>3, <2>4, ExtendedShape
  <2> QED
    BY <1>1, <2>5
<1>2. CASE phase # "sync"
  BY <1>2 DEF SecurityFileAfterCrash
<1> QED
  BY <1>1, <1>2

\* Its numbers increase and its chain holds if they did before.
LEMMA SecCrashGood ==
  ASSUME SecInv, NEW g \in SecurityFileAfterCrash
  PROVE  /\ errors \cap {"torn", "read"} = {} => Increasing(g, seq + 1)
         /\ errors \cap {"fsync", "read"} = {} => Linked(g) /\ Rooted(g)
<1> USE DEF SecInv
<1>0. seq \in Nat
  BY DEF SecurityTypeOK
<1>1. CASE phase = "sync"
  <2> DEFINE r == SecurityRecord(seq, chain)
  <2>1. r \in SecRecords /\ r.seq = seq /\ Follows(r, chain)
    BY <1>1, SecRecordFacts DEF SecCallInv
  <2>2. Sound(g, SecRecords) /\ Appended(file, r, g)
    BY <1>1, SecCrashShape
  <2>3. errors \cap {"torn", "read"} = {} => Increasing(file, r.seq)
    BY <1>1, <2>1 DEF SecuritySequenceIncreases
  <2> HIDE DEF r
  <2>4. errors \cap {"torn", "read"} = {} => Increasing(g, r.seq + 1)
    BY <2>1, <2>2, <2>3, SecRecordTypes, AppendedIncreasing
  <2>5. errors \cap {"fsync", "read"} = {} => Linked(g) /\ Rooted(g)
    BY <2>1, <2>2, AppendedLinked DEF ChainInv
  <2> QED
    BY <2>1, <2>4, <2>5
<1>2. CASE phase # "sync"
  <2>1. g = file
    BY <1>2, SecCrashShape
  <2>2. ASSUME errors \cap {"torn", "read"} = {} PROVE Increasing(file, seq + 1)
    <3>1. Increasing(file, IF phase = "idle" THEN seq + 1 ELSE seq)
      BY <2>2 DEF SecuritySequenceIncreases
    <3> QED
      BY <1>0, <3>1, SecRecordTypes, IncreasingFurther
  <2> QED
    BY <2>1, <2>2 DEF ChainInv
<1> QED
  BY <1>1, <1>2

\* SecInv holds in the empty log.
LEMMA SecInitInv == SecurityInit => SecInv
<1> SUFFICES ASSUME SecurityInit PROVE SecInv
  OBVIOUS
<1>1. file.lines = <<>> /\ file.open = FALSE
  BY DEF SecurityInit, LogInit, EmptyFile
<1>2. Sound(file, SecRecords) /\ chain \in Seq(1..MaxSeq)
  BY <1>1, EmptySeq DEF Sound, SecurityInit, LogInit, GENESIS_HASH
<1>3. SecurityTypeOK
  <2>1. file.lines \in Seq({Junk} \cup [seq : 1..MaxSeq, hash : Seq(1..MaxSeq)])
    BY <1>2 DEF Sound, SecRecords
  <2>2. seq \in 0..MaxSeq
    BY DEF SecurityInit, LogInit
  <2> QED
    BY <1>1, <1>2, <2>1, <2>2 DEF SecurityTypeOK, SecurityInit, LogInit, Extent
<1>4. Len(file.lines) = 0
  BY <1>1, EmptySeq
<1>5. SecuritySequenceIncreases
  BY <1>1, <1>4 DEF SecuritySequenceIncreases, Increasing, EndsReadable
<1>6. ChainInv
  BY <1>1, <1>4 DEF ChainInv, Linked, Rooted, Headed, EndsReadable, SecurityInit, LogInit
<1> QED
  BY <1>2, <1>3, <1>5, <1>6 DEF SecInv, SecCallInv, SecurityInit, LogInit

\* Every step of the security log keeps SecInv.
LEMMA SecStepInv == SecInv /\ [SecurityNext]_securityVars => SecInv'
<1> SUFFICES ASSUME SecInv, [SecurityNext]_securityVars PROVE SecInv'
  OBVIOUS
<1> USE DEF SecInv
<1>0. seq \in Nat
  BY DEF SecurityTypeOK
<1>1. ASSUME Sound(file', SecRecords)
      PROVE  file'.lines \in Seq({Junk} \cup [seq : 1..MaxSeq, hash : Seq(1..MaxSeq)])
             /\ file'.open \in BOOLEAN
  BY <1>1 DEF Sound, SecRecords
<1>2. CASE SecurityLogEvent
  <2>1. seq + 1 \in 0..MaxSeq
    BY <1>2 DEF SecurityLogEvent, LogEvent, SecurityTypeOK
  <2>2. Sound(file', SecRecords) /\ SecurityTypeOK' /\ SecCallInv'
    BY <1>0, <1>2, <2>1 DEF SecurityLogEvent, LogEvent, SecurityTypeOK, SecCallInv
  <2>3. SecuritySequenceIncreases' /\ ChainInv'
    BY <1>2 DEF SecurityLogEvent, LogEvent, SecuritySequenceIncreases, ChainInv
  <2> QED
    BY <2>2, <2>3
<1>3. ASSUME NEW e \in Extent, SecurityWriteLine(e) PROVE SecInv'
  <2>1. Sound(file', SecRecords) /\ SecurityTypeOK' /\ SecCallInv'
    BY <1>3 DEF SecurityWriteLine, WriteLine, SecurityTypeOK, SecCallInv
  <2>2. SecuritySequenceIncreases' /\ ChainInv'
    BY <1>3 DEF SecurityWriteLine, WriteLine, SecuritySequenceIncreases, ChainInv
  <2> QED
    BY <2>1, <2>2
<1>4. CASE SecurityWriteFails
  <2>1. Sound(file', SecRecords) /\ SecurityTypeOK' /\ SecCallInv'
    BY <1>4 DEF SecurityWriteFails, WriteFails, SecurityTypeOK, SecCallInv
  <2>2. ChainInv'
    BY <1>4 DEF SecurityWriteFails, WriteFails, ChainInv
  <2>3. file \in SecurityFileAfterCrash
    BY <1>4 DEF SecurityWriteFails, WriteFails, SecurityFileAfterCrash
  <2>4. errors \cap {"torn", "read"} = {} => Increasing(file, seq + 1)
    BY <2>3, SecCrashGood
  <2>5. SecuritySequenceIncreases'
    BY <1>4, <2>4 DEF SecurityWriteFails, WriteFails, SecuritySequenceIncreases
  <2> QED
    BY <2>1, <2>2, <2>5
<1>5. CASE SecuritySyncLine
  <2> DEFINE r == SecurityRecord(seq, chain)
  <2>1. written \in Reached(written) /\ written \in Extent /\ written # "none"
    BY <1>5 DEF SecuritySyncLine, SecurityTypeOK, Extent, Reached, SecCallInv
  <2>2. file' \in SecurityFileAfterCrash
    BY <1>5, <2>1 DEF SecuritySyncLine, SecurityFileAfterCrash
  <2>3. Sound(file', SecRecords)
    BY <2>2, SecCrashShape
  <2>4. r \in SecRecords /\ r.hash = Hash(chain, seq) /\ Hash(chain, seq) \in Seq(1..MaxSeq)
    BY <1>5, SecRecordFacts DEF SecuritySyncLine, SecCallInv
  <2>5. SecurityTypeOK' /\ SecCallInv'
    BY <1>1, <1>5, <2>3, <2>4 DEF SecuritySyncLine, SecurityTypeOK, SecCallInv, Extent
  <2>6. SecuritySequenceIncreases'
    BY <1>5, <2>2, SecCrashGood DEF SecuritySyncLine, SecuritySequenceIncreases
  <2>7. file' = Extended(file, r, written)
    BY <1>5 DEF SecuritySyncLine
  <2> HIDE DEF r
  <2>8. file'.lines # <<>> /\ (EndsReadable(file') => LastLine(file') = r)
    BY <2>1, <2>4, <2>7, ExtendedEnd
  <2>9. Headed(file', chain')
    BY <1>5, <2>4, <2>8 DEF Headed, SecuritySyncLine
  <2>10. ChainInv'
    BY <1>5, <2>2, <2>9, SecCrashGood DEF ChainInv, SecuritySyncLine
  <2> QED
    BY <2>3, <2>5, <2>6, <2>10
<1>6. CASE SecuritySyncFails
  <2>1. file' \in SecurityFileAfterCrash
    BY <1>6 DEF SecuritySyncFails
  <2>2. Sound(file', SecRecords)
    BY <2>1, SecCrashShape
  <2>3. SecurityTypeOK' /\ SecCallInv'
    BY <1>1, <1>6, <2>2 DEF SecuritySyncFails, SecurityTypeOK, SecCallInv, Extent
  <2>4. SecuritySequenceIncreases'
    BY <1>6, <2>1, SecCrashGood DEF SecuritySyncFails, SecuritySequenceIncreases
  <2>5. ChainInv'
    BY <1>6 DEF SecuritySyncFails, ChainInv
  <2> QED
    BY <2>2, <2>3, <2>4, <2>5
<1>7. ASSUME NEW unreadable \in BOOLEAN, SecurityRestart(unreadable) PROVE SecInv'
  <2>1. file' \in SecurityFileAfterCrash
    BY <1>7 DEF SecurityRestart
  <2>2. Sound(file', SecRecords)
    BY <2>1, SecCrashShape
  <2>3. file'.lines \in Seq({Junk} \cup SecRecords) /\ Len(file'.lines) \in Nat
    BY <2>2, LenProperties DEF Sound
  <2>4. EndsReadable(file') => LastLine(file') \in SecRecords
    BY <2>3, EmptySeq, ElementOfSeq DEF EndsReadable, LastLine
  <2>5. \/ /\ EndsReadable(file') /\ ~unreadable
           /\ seq' = LastLine(file').seq /\ chain' = LastLine(file').hash
        \/ /\ ~(EndsReadable(file') /\ ~unreadable)
           /\ seq' = 0 /\ chain' = GENESIS_HASH
    BY <1>7 DEF SecurityRestart
  <2>6. seq' \in 0..MaxSeq /\ chain' \in Seq(1..MaxSeq)
    <3>1. GENESIS_HASH \in Seq(1..MaxSeq) /\ 0 \in 0..MaxSeq
      BY EmptySeq DEF GENESIS_HASH
    <3>2. EndsReadable(file') => LastLine(file').seq \in 0..MaxSeq
                                 /\ LastLine(file').hash \in Seq(1..MaxSeq)
      BY <2>4, SecRecordTypes
    <3> QED
      BY <2>5, <3>1, <3>2
  <2>7. /\ errors' \subseteq {"fsync", "torn", "read"} /\ errors \subseteq errors'
        /\ unreadable => "read" \in errors'
        /\ "torn" \notin errors' => file'.lines = <<>> \/ EndsReadable(file')
    BY <1>7 DEF SecurityRestart, SecurityTypeOK, Lost
  <2>8. SecurityTypeOK' /\ SecCallInv'
    BY <1>1, <1>7, <2>2, <2>6, <2>7 DEF SecurityRestart, SecurityTypeOK, SecCallInv, Extent
  <2>9. SecuritySequenceIncreases'
    <3> SUFFICES ASSUME errors' \cap {"torn", "read"} = {} PROVE Increasing(file', seq' + 1)
      BY <1>7 DEF SecurityRestart, SecuritySequenceIncreases
    <3>1. Increasing(file', seq + 1)
      BY <2>1, <2>7, SecCrashGood
    <3>2. ~unreadable /\ (file'.lines = <<>> \/ EndsReadable(file'))
      BY <2>7
    <3>3. EndsReadable(file') => seq' = LastLine(file').seq
      BY <2>5, <3>2
    <3> QED
      BY <2>2, <3>1, <3>2, <3>3, SecRecordTypes, RecoveredIncreasing
  <2>10. ChainInv'
    <3> SUFFICES ASSUME errors' \cap {"fsync", "read"} = {}
                 PROVE  Linked(file') /\ Rooted(file') /\ Headed(file', chain')
      BY DEF ChainInv
    <3>1. Linked(file') /\ Rooted(file')
      BY <2>1, <2>7, SecCrashGood
    <3>2. Headed(file', chain')
      BY <2>5, <2>7 DEF Headed, EndsReadable
    <3> QED
      BY <3>1, <3>2
  <2> QED
    BY <2>2, <2>8, <2>9, <2>10
<1>8. CASE UNCHANGED securityVars
  BY <1>8 DEF securityVars, logVars, SecurityTypeOK, SecCallInv, ChainInv, SecuritySequenceIncreases
<1> QED
  BY <1>2, <1>3, <1>4, <1>5, <1>6, <1>7, <1>8 DEF SecurityNext

\* Every reachable state of the security log satisfies SecInv.
LEMMA SecInvariance == SecuritySpec => []SecInv
  BY SecInitInv, SecStepInv, PTL DEF SecuritySpec

\* The variables of SecurityLog keep their types: log_event and _recover_state never
\* put anything but records with a hash and torn lines into the file.
THEOREM SecurityTypeCorrect == SecuritySpec => []SecurityTypeOK
<1>1. SecInv => SecurityTypeOK
  BY DEF SecInv
<1> QED
  BY <1>1, SecInvariance, PTL

\* The numbers of all records in the security log increase, across torn lines and
\* whatever writes and fsyncs fail, as long as _recover_state can read the file and
\* parse its last line.
THEOREM SecuritySequenceSafety == SecuritySpec => []SecuritySequenceIncreases
<1>1. SecInv => SecuritySequenceIncreases
  BY DEF SecInv
<1> QED
  BY <1>1, SecInvariance, PTL

\* Failed and short writes and restarts leave a chain of hashes in which readable
\* neighbours follow from each other and which verify_chain accepts if no line is torn.
THEOREM ChainSafety == SecuritySpec => []ChainVerifies
<1>1. ASSUME SecInv PROVE ChainVerifies
  <2> SUFFICES ASSUME errors \cap {"fsync", "read"} = {}
               PROVE  /\ \A i \in 2..Len(file.lines) :
                           file.lines[i - 1] # Junk /\ file.lines[i] # Junk =>
                             Follows(file.lines[i], file.lines[i - 1].hash)
                      /\ (\A i \in 1..Len(file.lines) : file.lines[i] # Junk) =>
                           VerifyChain(file.lines)
    BY DEF ChainVerifies
  <2>1. Linked(file) /\ Rooted(file)
    BY <1>1 DEF SecInv, ChainInv
  <2>2. file.lines \in Seq({Junk} \cup SecRecords) /\ Len(file.lines) \in Nat
    BY <1>1, LenProperties DEF SecInv, Sound
  <2>3. ASSUME \A i \in 1..Len(file.lines) : file.lines[i] # Junk,
               NEW i \in 1..Len(file.lines)
        PROVE  Follows(file.lines[i],
                           IF i = 1 THEN GENESIS_HASH ELSE file.lines[i - 1].hash)
    <3>1. CASE i = 1
      <4>1. file.lines # <<>>
        BY <2>2, <2>3, EmptySeq
      <4> QED
        BY <2>1, <2>3, <3>1, <4>1 DEF Rooted
    <3>2. CASE i # 1
      <4>1. i \in 2..Len(file.lines) /\ i - 1 \in 1..Len(file.lines)
        BY <2>2, <3>2
      <4> QED
        BY <2>1, <2>3, <3>2, <4>1 DEF Linked
    <3> QED
      BY <3>1, <3>2
  <2> QED
    BY <2>1, <2>3 DEF Linked, VerifyChain
<1> QED
  BY <1>1, SecInvariance, PTL

\* No line of the security log that is finished is changed or removed again, by
\* log_event, a failing fsync or a restart.
THEOREM SecurityLinesSafety == SecuritySpec => SecurityLinesStay
<1>1. ASSUME SecInv, [SecurityNext]_securityVars PROVE [Continues(file, file')]_securityVars
  <2>1. CASE UNCHANGED file
    BY <1>1, <2>1, SameContinues DEF SecInv
  <2>2. CASE file' \in SecurityFileAfterCrash
    <3>1. /\ Sound(file', SecRecords)
          /\ phase = "sync" => Appended(file, SecurityRecord(seq, chain), file')
          /\ phase # "sync" => file' = file
      BY <1>1, <2>2, SecCrashShape DEF SecInv
    <3>2. CASE phase = "sync"
      BY <1>1, <3>1, <3>2, AppendedContinues DEF SecInv
    <3> QED
      BY <2>1, <3>1, <3>2
  <2>3. CASE SecuritySyncLine
    <3>1. written \in Reached(written)
      BY <1>1 DEF SecInv, SecurityTypeOK, Extent, Reached
    <3> QED
      BY <2>2, <2>3, <3>1 DEF SecuritySyncLine, SecurityFileAfterCrash
  <2> QED
    BY <1>1, <2>1, <2>2, <2>3
    DEF SecurityNext, SecurityLogEvent, LogEvent, SecurityWriteFails, WriteFails,
        SecurityWriteLine, WriteLine, SecuritySyncFails,
        SecurityRestart, securityVars, logVars
<1> QED
  BY <1>1, SecInvariance, PTL DEF SecuritySpec, SecurityLinesStay
=============================================================================
