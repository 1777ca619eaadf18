----------------------------- MODULE SafetyLog -----------------------------
(***************************************************************************)
(* The safety log of the master, src/src/master/safety_log.py.             *)
(*                                                                         *)
(* log_event holds the lock while it takes a number, appends a record,     *)
(* waits for fsync and, every RotateEvery records, rewrites the file with  *)
(* its last MaxEvents lines.  Of a record only its number is kept.         *)
(***************************************************************************)
EXTENDS LogFile

CONSTANTS MaxEvents,    \* MAX_EVENTS, 10000
          RotateEvery   \* 500

ASSUME RotationAssumption == MaxEvents \in Nat \ {0} /\ RotateEvery \in Nat \ {0}

Record(n) == [seq |-> n]
-----------------------------------------------------------------------------
\* Mutant: the first lines are kept and not the last.
KeptOldest(f) == [lines |-> SubSeq(f.lines, 1, MaxEvents), open |-> FALSE]

\* lines[-MAX_EVENTS:]
Kept(f) == [lines |-> SubSeq(f.lines, Len(f.lines) - MaxEvents + 1, Len(f.lines)),
            open |-> f.open]

\* What may be on the disk when the power fails.
FileAfterCrash ==
  CASE phase = "sync" ->
         {Extended(file, Record(seq), e) : e \in Reached(written)}
    [] phase = "rewrite" -> {file} \cup Prefixes(Kept(file))
    [] OTHER -> {file}
-----------------------------------------------------------------------------
SyncLine ==
  /\ phase = "sync"
  /\ file' = Extended(file, Record(seq), written)
  /\ phase' = IF seq % RotateEvery = 0 THEN "rotate" ELSE "idle"
  /\ written' = "none"
  /\ UNCHANGED <<seq, errors>>

\* fsync raises OSError: some of the append has got to the disk, and there is no rotation.
SyncFails ==
  /\ phase = "sync" /\ phase' = "idle"
  /\ file' \in FileAfterCrash
  /\ written' = "none"
  /\ UNCHANGED <<seq, errors>>
-----------------------------------------------------------------------------
(* _rotate_if_needed *)

BeginRotation ==
  /\ phase = "rotate"
  /\ phase' = IF Len(file.lines) > MaxEvents THEN "rewrite" ELSE "idle"
  /\ UNCHANGED <<file, seq, written, errors>>

\* open(path, "w"), writelines, flush and fsync.
EndRotation ==
  /\ phase = "rewrite" /\ phase' = "idle"
  /\ file' = Kept(file)
  /\ UNCHANGED <<seq, written, errors>>

\* One of them raises OSError, which is logged; the file stays as it is then.
RotationFails ==
  /\ phase = "rewrite" /\ phase' = "idle"
  /\ file' \in {file} \cup Prefixes(Kept(file))
  /\ UNCHANGED <<seq, written, errors>>
-----------------------------------------------------------------------------
\* Mutant: the number is taken from the first line.
RecoveredFromFirst(f) == IF EndsReadable(f) /\ f.lines[1] # Junk THEN f.lines[1].seq ELSE 0

\* _recover_sequence: 0 if the last line cannot be parsed, or the file not be read.
RecoveredSeq(f) == IF EndsReadable(f) THEN LastLine(f).seq ELSE 0

Restart(unreadable) ==
  /\ file' \in FileAfterCrash
  /\ seq' = IF unreadable THEN 0 ELSE RecoveredSeq(file')
  /\ errors' = errors \cup Lost(file', unreadable)
  /\ phase' = "idle" /\ written' = "none"

Next ==
  \/ LogEvent \/ WriteFails
  \/ \E e \in Extent : WriteLine(e)
  \/ SyncLine \/ SyncFails
  \/ BeginRotation \/ EndRotation \/ RotationFails
  \/ \E unreadable \in BOOLEAN : Restart(unreadable)

Spec == LogInit /\ [][Next]_logVars
-----------------------------------------------------------------------------
\* Every variable keeps its type, and only one log_event at a time is writing.
TypeOK ==
  /\ file.lines \in Seq({Junk} \cup {Record(n) : n \in 1..MaxSeq})
  /\ file.open \in BOOLEAN
  /\ seq \in 0..MaxSeq
  /\ phase \in {"idle", "write", "sync", "rotate", "rewrite"}
  /\ written \in Extent /\ (written # "none" => phase = "sync")
  /\ errors \subseteq {"torn", "read"}

\* The numbers of all records in the file increase, and the next number is higher:
\* torn lines, failed writes and fsyncs, rotations that fail or are cut short and
\* restarts in any order do not disturb that, until a restart cannot parse the last
\* line, or cannot read the file.  Then _recover_sequence starts from 0, and the next
\* record has the number 1 behind higher ones, though the log is documented as one of
\* monotonic numbers.  It is about the records that are in the file: the number of one
\* that was lost, by a failed write or with the end of the file, is given out again
\* after a restart.
SequenceIncreases ==
  errors = {} => Increasing(file, IF phase \in {"write", "sync"} THEN seq ELSE seq + 1)

Newest == SubSeq(file.lines, Len(file.lines) - MaxEvents + 1, Len(file.lines))

\* A finished line stays as it is, before a torn line and through restarts.  Only
\* _rotate_if_needed removes lines.  A rotation that ends leaves the newest MAX_EVENTS
\* lines and no other; what one that fails or is interrupted leaves is a beginning of
\* these, which may be empty: that it loses lines for good is LinesAreDurable's.
FinishedLinesStay ==
  [][\/ Continues(file, file')
     \/ EndRotation /\ file'.lines = Newest
     \/ /\ phase = "rewrite" /\ ~EndRotation
        /\ Closed(file') = SubSeq(Newest, 1, Len(Closed(file')))]_logVars

\* What safety_log.py:27-30 and docs/functional_safety.md:485-488 require: a finished
\* line, which has been through its fsync, is not lost while it is one of the newest
\* MAX_EVENTS.  The code does not keep it: _rotate_if_needed empties the file before
\* it writes these lines again.
LinesAreDurable ==
  [][Continues(file, file') \/ (phase = "rewrite" /\ file'.lines = Newest)]_logVars
=============================================================================
