-------------------------- MODULE SequenceChecker --------------------------
(***************************************************************************)
(* The receiver's check of the E2E sequence counter, class SequenceChecker *)
(* of src/src/common/e2e_protection.py.  A checker is a record: the last   *)
(* sequence number (NoSeq before the first message) and how many messages  *)
(* in sequence it has counted, up to InitCount, the only value the code    *)
(* compares the count with.                                                *)
(***************************************************************************)
EXTENDS Integers

CONSTANTS SeqMod,       \* 65536: the counter has 16 bits
          InitCount     \* _init_count, 3

ASSUME SeqModAssumption == SeqMod \in Nat \ {0} /\ InitCount \in Nat \ {0}

NoSeq == -1

Checker == [last : {NoSeq} \cup 0..(SeqMod - 1), valid : 0..InitCount]
NewChecker == [last |-> NoSeq, valid |-> 0]

\* Mutant: the distance is taken without regard to the overflow.
Distance(chk, seq) == IF seq < chk.last THEN chk.last - seq ELSE seq - chk.last

Delta(chk, seq) == (seq - chk.last) % SeqMod

\* The count after a message in sequence.
Counted(chk) == IF chk.valid < InitCount THEN chk.valid + 1 ELSE InitCount

CheckResult(chk, seq, maxGap) ==
  IF chk.last = NoSeq THEN "INIT"
  ELSE LET delta == Delta(chk, seq)
       IN CASE delta = 0 -> "REPEATED"
            [] delta = 1 -> IF Counted(chk) < InitCount THEN "INIT" ELSE "OK"
            [] delta >= 2 /\ delta <= maxGap -> "OK_SOME_LOST"
            [] delta >= 2 /\ delta > maxGap -> "ERROR"

\* The checker after the check: a repeated message leaves it alone.
CheckNext(chk, seq) ==
  CASE chk.last = NoSeq -> [last |-> seq, valid |-> 1]
    [] chk.last # NoSeq /\ Delta(chk, seq) = 1 -> [last |-> seq, valid |-> Counted(chk)]
    [] chk.last # NoSeq /\ Delta(chk, seq) # 1 -> [chk EXCEPT !.last = seq]
=============================================================================
