---------------------------- MODULE DTCManager ----------------------------
(***************************************************************************)
(* The DTC manager of the master, src/src/master/dtc_manager.py: trouble   *)
(* codes, their status and aging, and the file that keeps them.            *)
(*                                                                         *)
(* Every call changes the table and then writes the whole file, holding    *)
(* the lock.  The write is not atomic: open(..., "w") empties the file,    *)
(* and it has contents again only when json.dump and fsync are done.  The  *)
(* process may stop, and be started again, between any two of these steps. *)
(*                                                                         *)
(* Time stamps, fault texts and freeze frames are left out.  Of the status *)
(* byte, bits that always change together are one: failed (testFailed and  *)
(* its this-cycle bit), pending, confirmed (and the warning indicator).    *)
(***************************************************************************)
EXTENDS Naturals, FiniteSets

CONSTANTS Code,          \* the trouble codes in use
          MaxDtcs,       \* MAX_DTCS, 256
          AgingCycles    \* AGING_CYCLES, 40

ASSUME CodeAssumption == IsFiniteSet(Code)
ASSUME LimitAssumption == MaxDtcs \in Nat /\ AgingCycles \in Nat \ {0}

VARIABLES
  dtcs,       \* _dtcs, Absent for a code it does not have
  disk,       \* what _load makes of the file: no entries of one that is cut off
  phase,      \* of the save under way: none, table changed, file emptied
  dirty,      \* the last save failed with an OSError
  durable     \* (observation) codes written to the file and not cleared since, none of
              \* them after a stop or a failure has hit the emptied file

vars == <<dtcs, disk, phase, dirty, durable>>

CONFIRM_COUNT == 2
Absent == [count |-> 0, passing |-> 0, failed |-> FALSE, pending |-> FALSE, confirmed |-> FALSE]

\* occurrence_count up to CONFIRM_COUNT and passing_cycles up to AgingCycles, the
\* only values they are compared with.
Entry == [count : 0..CONFIRM_COUNT, passing : 0..AgingCycles,
          failed : BOOLEAN, pending : BOOLEAN, confirmed : BOOLEAN]

Table == [Code -> Entry]
EmptyTable == [c \in Code |-> Absent]
Stored(table) == {c \in Code : table[c] # Absent}

Init ==
  /\ dtcs = EmptyTable /\ disk = EmptyTable
  /\ phase = "none" /\ dirty = FALSE
  /\ durable = {}
-----------------------------------------------------------------------------
Count(n, limit) == IF n < limit THEN n + 1 ELSE n

\* Mutant: the passing cycles are not forgotten.
FailedKeepsPassing(e) ==
  LET n == Count(e.count, CONFIRM_COUNT)
  IN [count |-> n, passing |-> e.passing, failed |-> TRUE, pending |-> TRUE,
      confirmed |-> e.confirmed \/ n >= CONFIRM_COUNT]

\* set_dtc on the entry of a code; a new one starts as pending.
Failed(e) ==
  LET n == Count(e.count, CONFIRM_COUNT)
  IN [count |-> n, passing |-> 0, failed |-> TRUE, pending |-> TRUE,
      confirmed |-> e.confirmed \/ n >= CONFIRM_COUNT]

\* Mutant: a code that has aged is removed.
PassedForgets(e) ==
  IF e.passing + 1 >= AgingCycles THEN Absent ELSE [e EXCEPT !.failed = FALSE, !.passing = @ + 1]

\* report_passing on the entry of a code.
Passed(e) ==
  LET n == Count(e.passing, AgingCycles)
      aged == n >= AgingCycles
  IN [e EXCEPT !.failed = FALSE, !.passing = n,
               !.pending = @ /\ ~aged, !.confirmed = @ /\ ~aged]

\* The table changes and _save begins; the caller holds the lock until its end.
Change(table) ==
  /\ phase = "none"
  /\ dtcs' = table /\ phase' = "changed"
  /\ UNCHANGED <<disk, dirty>>

\* Mutant: one entry too many.
FullOneLate(table) == Cardinality(Stored(table)) > MaxDtcs

\* len(self._dtcs) >= MAX_DTCS
Full(table) == Cardinality(Stored(table)) >= MaxDtcs

\* A full store takes no new code, and does not save.
SetDtc(c) ==
  \/ /\ dtcs[c] # Absent \/ ~Full(dtcs)
     /\ Change([dtcs EXCEPT ![c] = Failed(@)])
     /\ UNCHANGED durable
  \/ /\ phase = "none" /\ dtcs[c] = Absent /\ Full(dtcs)
     /\ UNCHANGED vars

ReportPassing(c) ==
  /\ dtcs[c] # Absent
  /\ Change([dtcs EXCEPT ![c] = Passed(@)])
  /\ UNCHANGED durable

\* Mutant: the file is not written.
ClearUnsaved(c) ==
  /\ dtcs[c] # Absent /\ phase = "none"
  /\ dtcs' = [dtcs EXCEPT ![c] = Absent]
  /\ durable' = durable \ {c}
  /\ UNCHANGED <<disk, phase, dirty>>

ClearDtc(c) ==
  /\ dtcs[c] # Absent
  /\ Change([dtcs EXCEPT ![c] = Absent])
  /\ durable' = durable \ {c}

ClearAll ==
  /\ Change(EmptyTable)
  /\ durable' = {}
-----------------------------------------------------------------------------
(* _save *)

OpenFile ==
  /\ phase = "changed" /\ phase' = "emptied"
  /\ disk' = EmptyTable
  /\ UNCHANGED <<dtcs, dirty, durable>>

WriteFile ==
  /\ phase = "emptied" /\ phase' = "none"
  /\ disk' = dtcs /\ dirty' = FALSE
  /\ durable' = durable \cup Stored(dtcs)
  /\ UNCHANGED dtcs

StillDurable == IF phase = "emptied" THEN {} ELSE durable

\* mkdir, open, write or fsync raises OSError, which is logged and forgotten; when it
\* is fsync, the file has its new contents.
SaveFails ==
  /\ phase # "none" /\ phase' = "none"
  /\ disk' \in IF phase = "emptied" THEN {disk, dtcs} ELSE {disk}
  /\ dirty' = TRUE
  /\ durable' = StillDurable
  /\ UNCHANGED dtcs

\* The process stops and is started again, and _load reads the file.
Restart ==
  /\ dtcs' = disk
  /\ phase' = "none" /\ dirty' = FALSE
  /\ durable' = StillDurable
  /\ UNCHANGED disk

Next ==
  \/ \E c \in Code : SetDtc(c) \/ ReportPassing(c) \/ ClearDtc(c)
  \/ ClearAll
  \/ OpenFile \/ WriteFile \/ SaveFails
  \/ Restart

Spec == Init /\ [][Next]_vars
-----------------------------------------------------------------------------
\* Every variable keeps its type, and the table and the file their limit, across
\* restarts and however many codes are reported: the type invariant of the module.
TypeOK ==
  /\ dtcs \in Table /\ Cardinality(Stored(dtcs)) <= MaxDtcs
  /\ disk \in Table /\ Cardinality(Stored(disk)) <= MaxDtcs
  /\ phase \in {"none", "changed", "emptied"}
  /\ dirty \in BOOLEAN
  /\ durable \subseteq Code

\* The status of an entry agrees with its counters, in the table and in the file, over
\* every order of faults, passes, failed saves and restarts.  It is the code's rule for
\* confirmed and not the documented one: any second occurrence since the code was
\* cleared confirms it, with passing cycles in between too, and after ageing the first
\* fault does so at once, while docs/functional_safety.md:463 asks for the same fault
\* in two consecutive cycles.
StatusIsConsistent ==
  \A table \in {dtcs, disk} : \A c \in Stored(table) :
    LET e == table[c]
    IN /\ e.count > 0
       /\ e.confirmed <=> e.count >= CONFIRM_COUNT /\ e.passing < AgingCycles
       /\ e.pending <=> e.passing < AgingCycles
       /\ e.failed <=> e.passing = 0

\* What a call has done is in the file when it returns, unless the write failed:
\* a restart then finds the table as it was.
SavedIsCurrent == phase = "none" /\ ~dirty => disk = dtcs

\* A code that was stored is found again after any restart until it is cleared:
\* neither a full store, nor aging, nor a failed write loses it, except a stop or
\* a failure in the moment in which the file is empty.
CodesSurvive ==
  /\ durable \subseteq Stored(dtcs)
  /\ phase # "emptied" => durable \subseteq Stored(disk)
=============================================================================
