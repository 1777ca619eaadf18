------------------------------ MODULE LogFile ------------------------------
(***************************************************************************)
(* A file of JSON lines to which records are appended, as the safety log   *)
(* and the security log of the master keep it.                             *)
(*                                                                         *)
(* A file is the sequence of its lines and whether the last one is open,   *)
(* that is, has no newline.  An append that does not get to its end leaves *)
(* part of a line, or the whole line without its newline; what is appended *)
(* next continues that line, and neither record can be parsed any more.    *)
(*                                                                         *)
(* The variable file is what is on the disk; what has been written since   *)
(* the last fsync is on top of it, and a power failure may take any part   *)
(* of that.  In both logs log_event holds the lock while it takes a        *)
(* number, appends a record and waits for fsync; its first two steps are   *)
(* the same in both and are here.                                          *)
(***************************************************************************)
EXTENDS Sequences, Naturals

CONSTANTS MaxSeq,   \* bound on the numbers given out
          MaxLines  \* bound on the lines of the file

ASSUME BoundsAssumption == MaxSeq \in Nat /\ MaxLines \in Nat

VARIABLES
  file,
  seq,      \* _seq
  phase,    \* of log_event: idle, write, sync; of the rotation: rotate, rewrite
  written,  \* the extent of the append that waits for fsync
  errors    \* observed: the errors after which the logs promise less

logVars == <<file, seq, phase, written, errors>>

Junk == [junk |-> TRUE]               \* a line that json.loads rejects
EmptyFile == [lines |-> <<>>, open |-> FALSE]

\* How much of a record is written: nothing, a part, all but the newline, all.
Extent == {"none", "part", "record", "line"}
Reached(extent) == CASE extent = "none"   -> {"none"}
                     [] extent = "part"   -> {"none", "part"}
                     [] extent = "record" -> {"none", "part", "record"}
                     [] extent = "line"   -> Extent

\* Mutant: the file is opened for writing and not for appending.
Overwritten(f, record, extent) ==
  IF extent = "none" THEN f
  ELSE [lines |-> <<IF extent = "part" THEN Junk ELSE record>>, open |-> extent # "line"]

\* os.write of a record with O_APPEND.
Extended(f, record, extent) ==
  IF extent = "none" THEN f
  ELSE [lines |-> IF f.open
                    THEN [f.lines EXCEPT ![Len(f.lines)] = Junk]
                    ELSE Append(f.lines, IF extent = "part" THEN Junk ELSE record),
        open |-> extent # "line"]

\* The file ends in a line that a restart can read.
EndsReadable(f) == f.lines # <<>> /\ f.lines[Len(f.lines)] # Junk
LastLine(f) == f.lines[Len(f.lines)]

\* The first n lines, of which the last may lack its newline or be cut off.
Prefix(f, n) == [lines |-> SubSeq(f.lines, 1, n), open |-> n = Len(f.lines) /\ f.open]
CutOff(f, n) == [lines |-> [SubSeq(f.lines, 1, n) EXCEPT ![n] = Junk], open |-> TRUE]
Unended(f, n) == [lines |-> SubSeq(f.lines, 1, n), open |-> TRUE]
Prefixes(f) == {Prefix(f, n) : n \in 0..Len(f.lines)}
                 \cup {CutOff(f, n) : n \in 1..Len(f.lines)}
                 \cup {Unended(f, n) : n \in 1..Len(f.lines)}

\* A restart with this file cannot go on from its last line: it cannot be parsed, or
\* the file not be read.
Lost(f, unreadable) ==
  (IF f.lines # <<>> /\ ~EndsReadable(f) THEN {"torn"} ELSE {})
    \cup (IF unreadable THEN {"read"} ELSE {})

\* The numbers of all records increase, whatever is torn between them, and the next
\* number is higher still.
Increasing(f, next) ==
  \A i \in 1..Len(f.lines) : f.lines[i] # Junk =>
    /\ f.lines[i].seq < next
    /\ \A j \in 1..(i - 1) : f.lines[j] # Junk => f.lines[j].seq < f.lines[i].seq

\* The lines that nothing appended later can change.
Closed(f) == IF f.open THEN SubSeq(f.lines, 1, Len(f.lines) - 1) ELSE f.lines

\* The second file has all closed lines of the first.
Continues(f, next) ==
  /\ Len(Closed(f)) <= Len(next.lines)
  /\ SubSeq(next.lines, 1, Len(Closed(f))) = Closed(f)
-----------------------------------------------------------------------------
LogInit ==
  /\ file = EmptyFile /\ seq = 0
  /\ phase = "idle" /\ written = "none" /\ errors = {}

LogEvent ==
  /\ phase = "idle"
  /\ seq < MaxSeq /\ Len(file.lines) < MaxLines
  /\ seq' = seq + 1 /\ phase' = "write"
  /\ UNCHANGED <<file, written, errors>>

\* os.write may write less than it is given; nobody looks at its result.
WriteLine(extent) ==
  /\ phase = "write" /\ extent # "none"
  /\ phase' = "sync" /\ written' = extent
  /\ UNCHANGED <<file, seq, errors>>

\* os.open or os.write raises OSError, which the caller gets: the number is used up.
WriteFails ==
  /\ phase = "write" /\ phase' = "idle"
  /\ UNCHANGED <<file, seq, written, errors>>
=============================================================================
