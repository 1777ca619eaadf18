------------------------- MODULE DTCManager_proofs -------------------------
(***************************************************************************)
(* Proofs about DTCManager, for every finite set of codes, size of the     *)
(* store and number of aging cycles.                                       *)
(***************************************************************************)
EXTENDS DTCManager, FiniteSetTheorems, TLAPS

\* The relation between status and counters of one entry.
Consistent(e) ==
  /\ e.count > 0
  /\ e.confirmed <=> e.count >= CONFIRM_COUNT /\ e.passing < AgingCycles
  /\ e.pending <=> e.passing < AgingCycles
  /\ e.failed <=> e.passing = 0

\* What every table must be, in memory and in the file.
GoodTable(table) ==
  /\ table \in Table
  /\ Cardinality(Stored(table)) <= MaxDtcs
  /\ \A c \in Stored(table) : Consistent(table[c])

GoodTables == GoodTable(dtcs) /\ GoodTable(disk)

Bookkeeping ==
  /\ phase \in {"none", "changed", "emptied"}
  /\ dirty \in BOOLEAN
  /\ durable \subseteq Code

IInv == GoodTables /\ Bookkeeping /\ SavedIsCurrent /\ CodesSurvive

USE CodeAssumption, LimitAssumption

\* The inductive invariant is the conjunction of the invariants to be shown.
LEMMA IInvImplies == IInv => TypeOK /\ StatusIsConsistent /\ SavedIsCurrent /\ CodesSurvive
  BY DEF IInv, GoodTables, GoodTable, Bookkeeping, TypeOK, StatusIsConsistent, Consistent

\* An entry that does not exist has the type of an entry.
LEMMA AbsentType == Absent \in Entry
  BY DEF Absent, Entry, CONFIRM_COUNT

\* set_dtc makes an entry that exists, and is consistent, of either kind of entry.
LEMMA FailedGood ==
  ASSUME NEW e \in Entry, e = Absent \/ Consistent(e)
  PROVE  Failed(e) \in Entry /\ Failed(e) # Absent /\ Consistent(Failed(e))
<1>. DEFINE n == Count(e.count, CONFIRM_COUNT)
<1>1. n \in 0..CONFIRM_COUNT /\ n > 0 /\ (e.count >= CONFIRM_COUNT => n >= CONFIRM_COUNT)
  BY DEF Count, CONFIRM_COUNT, Entry
<1>2. e.confirmed \in BOOLEAN /\ (e.confirmed => n >= CONFIRM_COUNT)
  BY <1>1 DEF Entry, Absent, Consistent
<1>. DEFINE f == [count |-> n, passing |-> 0, failed |-> TRUE, pending |-> TRUE,
                  confirmed |-> e.confirmed \/ n >= CONFIRM_COUNT]
<1>3. Failed(e) = f
  BY DEF Failed
<1>. HIDE DEF n
<1>4. f \in Entry
  BY <1>1, <1>2 DEF Entry
<1>5. f.count > 0 /\ f.failed /\ f.passing = 0 /\ f.pending
      /\ (f.confirmed <=> f.count >= CONFIRM_COUNT) /\ f.count = n
  BY <1>1, <1>2
<1>6. f # Absent
  BY <1>5 DEF Absent
<1>7. Consistent(f)
  BY <1>5 DEF Consistent
<1>. QED BY <1>3, <1>4, <1>6, <1>7

\* report_passing keeps an entry consistent.
LEMMA PassedGood ==
  ASSUME NEW e \in Entry, Consistent(e)
  PROVE  Passed(e) \in Entry /\ Passed(e) # Absent /\ Consistent(Passed(e))
<1>. DEFINE n == Count(e.passing, AgingCycles)
            aged == n >= AgingCycles
            f == [e EXCEPT !.failed = FALSE, !.passing = n,
                           !.pending = @ /\ ~aged, !.confirmed = @ /\ ~aged]
<1>1. n \in 0..AgingCycles /\ n > 0 /\ e.passing <= n
  BY DEF Count, Entry
<1>2. Passed(e) = f
  BY DEF Passed
<1>3. e.pending \in BOOLEAN /\ e.confirmed \in BOOLEAN /\ e.count \in 0..CONFIRM_COUNT
      /\ e.passing \in 0..AgingCycles
  BY DEF Entry
<1>. HIDE DEF n
<1>4. f \in Entry
  BY <1>1, <1>3 DEF Entry
<1>5. f.count = e.count /\ f.passing = n /\ f.failed = FALSE
      /\ f.pending = (e.pending /\ ~aged) /\ f.confirmed = (e.confirmed /\ ~aged)
  BY DEF Entry
<1>. HIDE DEF f
<1>6. f # Absent
  <2>1. f.count > 0
    BY <1>5 DEF Consistent
  <2>. QED BY <2>1 DEF Absent
<1>7. Consistent(f)
  <2>1. f.count > 0 /\ (f.failed <=> f.passing = 0)
    BY <1>1, <1>5 DEF Consistent
  <2>2. aged <=> ~(f.passing < AgingCycles)
    BY <1>1, <1>5
  <2>3. ~aged => e.passing < AgingCycles
    BY <1>1, <1>3
  <2>4. f.pending <=> f.passing < AgingCycles
    BY <1>5, <2>2, <2>3, Zenon DEF Consistent
  <2>5. f.confirmed <=> f.count >= CONFIRM_COUNT /\ f.passing < AgingCycles
    BY <1>5, <2>2, <2>3, Zenon DEF Consistent
  <2>. QED BY <2>1, <2>4, <2>5 DEF Consistent
<1>. QED BY <1>2, <1>4, <1>6, <1>7
-----------------------------------------------------------------------------
\* The empty table is good.
LEMMA EmptyGood == GoodTable(EmptyTable)
<1>1. EmptyTable \in Table
  BY AbsentType DEF EmptyTable, Table
<1>2. Stored(EmptyTable) = {}
  BY DEF Stored, EmptyTable
<1>. QED BY <1>1, <1>2, FS_EmptySet DEF GoodTable

\* An entry may be replaced by a good one, if it was there or there is room.
LEMMA PutGood ==
  ASSUME NEW table, GoodTable(table), NEW c \in Code,
         NEW e \in Entry, e # Absent, Consistent(e),
         table[c] # Absent \/ ~Full(table)
  PROVE  GoodTable([table EXCEPT ![c] = e])
<1>. DEFINE new == [table EXCEPT ![c] = e]
<1>1. new \in Table
  BY DEF GoodTable, Table
<1>2. Stored(new) = Stored(table) \cup {c}
  BY DEF Stored, GoodTable, Table
<1>3. \A x \in Stored(new) : Consistent(new[x])
  BY DEF Stored, GoodTable, Table
<1>4. Cardinality(Stored(new)) <= MaxDtcs
  <2>1. IsFiniteSet(Stored(table)) /\ Cardinality(Stored(table)) \in Nat
    BY FS_Subset, FS_CardinalityType DEF Stored
  <2>2. CASE table[c] # Absent
    <3>1. Stored(new) = Stored(table)
      BY <1>2, <2>2 DEF Stored
    <3>. QED BY <3>1 DEF GoodTable
  <2>3. CASE table[c] = Absent
    <3>1. c \notin Stored(table)
      BY <2>3 DEF Stored
    <3>2. Cardinality(Stored(new)) = Cardinality(Stored(table)) + 1
      BY <1>2, <2>1, <3>1, FS_AddElement
    <3>3. ~(Cardinality(Stored(table)) >= MaxDtcs)
      BY <2>3 DEF Full
    <3>. QED BY <2>1, <3>2, <3>3
  <2>. QED BY <2>2, <2>3
<1>. QED BY <1>1, <1>3, <1>4 DEF GoodTable

\* It takes no other entry's place.
LEMMA PutStored ==
  ASSUME NEW table \in Table, NEW c \in Code, NEW e \in Entry, e # Absent
  PROVE  Stored(table) \subseteq Stored([table EXCEPT ![c] = e])
  BY DEF Stored, Table

\* An entry may be removed.
LEMMA RemoveGood ==
  ASSUME NEW table, GoodTable(table), NEW c \in Code
  PROVE  GoodTable([table EXCEPT ![c] = Absent])
<1>. DEFINE new == [table EXCEPT ![c] = Absent]
<1>1. new \in Table
  BY AbsentType DEF GoodTable, Table
<1>2. Stored(new) \subseteq Stored(table)
  BY DEF Stored, GoodTable, Table
<1>3. \A x \in Stored(new) : Consistent(new[x])
  BY DEF Stored, GoodTable, Table
<1>4. Cardinality(Stored(new)) <= MaxDtcs
  <2>1. IsFiniteSet(Stored(table)) /\ Cardinality(Stored(table)) \in Nat
    BY FS_Subset, FS_CardinalityType DEF Stored
  <2>2. Cardinality(Stored(new)) \in Nat /\ Cardinality(Stored(new)) <= Cardinality(Stored(table))
    BY <1>2, <2>1, FS_Subset, FS_CardinalityType
  <2>. QED BY <2>1, <2>2 DEF GoodTable
<1>. QED BY <1>1, <1>3, <1>4 DEF GoodTable
-----------------------------------------------------------------------------
\* The inductive invariant holds at the start.
LEMMA InitIInv == Init => IInv
<1>. SUFFICES ASSUME Init PROVE IInv
  OBVIOUS
<1>1. GoodTables /\ SavedIsCurrent /\ CodesSurvive
  BY EmptyGood DEF Init, GoodTables, SavedIsCurrent, CodesSurvive
<1>2. Bookkeeping
  BY DEF Init, Bookkeeping
<1>. QED BY <1>1, <1>2 DEF IInv

\* The entries of a good table.
LEMMA GoodEntry ==
  ASSUME NEW table, GoodTable(table), NEW c \in Code
  PROVE  table[c] \in Entry /\ (table[c] = Absent \/ Consistent(table[c]))
  BY DEF GoodTable, Table, Stored

\* set_dtc keeps the tables good and the file as it is.
LEMMA SetDtcGood ==
  ASSUME GoodTables, SavedIsCurrent, CodesSurvive, NEW c \in Code, SetDtc(c)
  PROVE  /\ GoodTables' /\ SavedIsCurrent' /\ CodesSurvive' /\ UNCHANGED <<dirty, durable>>
         /\ phase' \in {"none", "changed"}
<1>1. CASE /\ dtcs[c] # Absent \/ ~Full(dtcs)
           /\ Change([dtcs EXCEPT ![c] = Failed(@)])
           /\ UNCHANGED durable
  <2>1. GoodTable([dtcs EXCEPT ![c] = Failed(dtcs[c])])
    BY <1>1, GoodEntry, FailedGood, PutGood DEF GoodTables
  <2>2. Stored(dtcs) \subseteq Stored(dtcs')
    BY <1>1, GoodEntry, FailedGood, PutStored DEF GoodTables, GoodTable, Change
  <2>3. CodesSurvive'
    BY <1>1, <2>2 DEF Change, CodesSurvive, Stored
  <2>. QED BY <1>1, <2>1, <2>3 DEF Change, GoodTables, SavedIsCurrent
<1>2. CASE UNCHANGED vars /\ phase = "none"
  BY <1>2 DEF vars, GoodTables, SavedIsCurrent, CodesSurvive
<1>. QED BY <1>1, <1>2 DEF SetDtc

\* Every step keeps the inductive invariant.
LEMMA NextIInv == IInv /\ [Next]_vars => IInv'
<1>. SUFFICES ASSUME IInv, [Next]_vars PROVE IInv'
  OBVIOUS
<1>. USE DEF IInv
<1>1. ASSUME NEW c \in Code, SetDtc(c) PROVE IInv'
  BY <1>1, SetDtcGood DEF Bookkeeping
<1>2. ASSUME NEW c \in Code, ReportPassing(c) PROVE IInv'
  <2>1. Consistent(dtcs[c]) /\ dtcs[c] \in Entry
    BY <1>2, GoodEntry DEF ReportPassing, GoodTables
  <2>2. GoodTable([dtcs EXCEPT ![c] = Passed(dtcs[c])])
    BY <1>2, <2>1, PassedGood, PutGood DEF ReportPassing, GoodTables
  <2>3. Stored(dtcs) \subseteq Stored(dtcs')
    BY <1>2, <2>1, PassedGood, PutStored DEF ReportPassing, Change, GoodTables, GoodTable
  <2>4. CodesSurvive'
    BY <1>2, <2>3 DEF ReportPassing, Change, CodesSurvive
  <2>. QED BY <1>2, <2>2, <2>4 DEF ReportPassing, Change, GoodTables, Bookkeeping, SavedIsCurrent
<1>3. ASSUME NEW c \in Code, ClearDtc(c) PROVE IInv'
  <2>1. GoodTable([dtcs EXCEPT ![c] = Absent])
    BY RemoveGood DEF GoodTables
  <2>2. Stored(dtcs') = Stored(dtcs) \ {c}
    BY <1>3 DEF ClearDtc, Change, Stored, GoodTables, GoodTable, Table
  <2>3. CodesSurvive'
    BY <1>3, <2>2 DEF ClearDtc, Change, CodesSurvive
  <2>. QED BY <1>3, <2>1, <2>3 DEF ClearDtc, Change, GoodTables, Bookkeeping, SavedIsCurrent
<1>4. CASE ClearAll
  BY <1>4, EmptyGood DEF ClearAll, Change, GoodTables, Bookkeeping, SavedIsCurrent, CodesSurvive
<1>5. CASE OpenFile
  BY <1>5, EmptyGood DEF OpenFile, GoodTables, Bookkeeping, SavedIsCurrent, CodesSurvive
<1>6. CASE WriteFile
  BY <1>6 DEF WriteFile, GoodTables, Bookkeeping, SavedIsCurrent, CodesSurvive, Stored
<1>7. CASE SaveFails
  BY <1>7 DEF SaveFails, StillDurable, GoodTables, Bookkeeping, SavedIsCurrent, CodesSurvive
<1>8. CASE Restart
  BY <1>8 DEF Restart, StillDurable, GoodTables, Bookkeeping, SavedIsCurrent, CodesSurvive
<1>9. CASE UNCHANGED vars
  BY <1>9 DEF vars, GoodTables, Bookkeeping, SavedIsCurrent, CodesSurvive
<1>. QED BY <1>1, <1>2, <1>3, <1>4, <1>5, <1>6, <1>7, <1>8, <1>9 DEF Next

\* The inductive invariant holds in every behaviour.
THEOREM Invariance == Spec => []IInv
  BY InitIInv, NextIInv, PTL DEF Spec

\* The types, and the limit on the number of codes, of the DTC manager's tables.
THEOREM TypeCorrect == Spec => []TypeOK
  BY Invariance, IInvImplies, PTL

\* Status and counters of a trouble code agree, in memory and in the file, by the
\* rule of the code: confirmed on any second occurrence, consecutive or not.
THEOREM StatusSafety == Spec => []StatusIsConsistent
  BY Invariance, IInvImplies, PTL

\* What a call of the DTC manager stored is in the file, unless a write failed.
THEOREM SaveSafety == Spec => []SavedIsCurrent
  BY Invariance, IInvImplies, PTL

\* A stored code stays stored through full stores, aging, failed writes and restarts,
\* until it is cleared or a stop hits the emptied file.
THEOREM SurvivalSafety == Spec => []CodesSurvive
  BY Invariance, IInvImplies, PTL
=============================================================================
