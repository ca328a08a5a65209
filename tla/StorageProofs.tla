--------------------------- MODULE StorageProofs ---------------------------
(***************************************************************************)
(* Theorems about Storage, and at the end about a reader beside it that    *)
(* takes no lease (TraceRead), for every value of their constants.         *)
(***************************************************************************)
EXTENDS TraceRead, TLAPS

LEMMA BucketFacts ==
    /\ Home \in Buckets
    /\ \A b \in Buckets : Day(b) \in Days
    /\ \A d \in Days, k \in Keys : <<d, k>> \in Buckets /\ Day(<<d, k>>) = d
    /\ Days \subseteq Nat
<1>1. 1 \in Days
  BY StorageAssumption DEF Days
<1>2. \E b \in Buckets : TRUE
  <2>1. PICK k \in Keys : TRUE
    BY StorageAssumption
  <2>2. <<1, k>> \in Buckets
    BY <1>1 DEF Buckets
  <2>3. QED
    BY <2>2
<1>3. Home \in Buckets
  BY <1>2 DEF Home
<1>4. QED
  BY <1>3 DEF Buckets, Day, Days

LEMMA FileFacts ==
    /\ NoFile \in Files
    /\ Torn \in Files
    /\ Whole(<<>>) \in Files
    /\ \A f \in Files : f.lines \in Seq(Entries) /\ Whole(f.lines) \in Files
    /\ \A f \in Files, e \in Entries : [f EXCEPT !.lines = Append(@, e)] \in Files
    /\ \A f \in Files : Len(f.lines) \in Nat
<1> USE DEF Files
<1>1. <<>> \in Seq(Entries)
  OBVIOUS
<1>2. NoFile \in Files /\ Torn \in Files
  BY <1>1 DEF NoFile, Torn
<1>3. ASSUME NEW s \in Seq(Entries) PROVE Whole(s) \in Files
  BY <1>3 DEF Whole
<1>4. ASSUME NEW f \in Files
      PROVE  f.lines \in Seq(Entries) /\ Len(f.lines) \in Nat
  OBVIOUS
<1>5. ASSUME NEW f \in Files, NEW e \in Entries
      PROVE  [f EXCEPT !.lines = Append(@, e)] \in Files
  <2>1. Append(f.lines, e) \in Seq(Entries)
    OBVIOUS
  <2>2. QED
    BY <2>1
<1>6. QED
  BY <1>1, <1>2, <1>3, <1>4, <1>5

USE DEF clockVars, writerVars, tableVars, monitorVars, diskVars, exportVars,
        GzipFrame, MonitorFrame, NoDisk, ExportFrame, Fails, Succeeds

LEMMA TableFacts ==
    ASSUME L!TableType, NEW b \in Buckets
    PROVE  /\ L!Acquire(b) => L!TableType'
           /\ L!Release(b) => L!TableType'
           /\ L!MarkDeleting(b) => L!TableType'
           /\ L!UnmarkDeleting(b) => L!TableType'
           /\ L!ForgetLeases => L!TableType'
           /\ UNCHANGED <<refs, deleting>> => L!TableType'
<1> USE DEF L!TableType
<1>1. ASSUME L!Acquire(b) PROVE L!TableType'
  BY <1>1 DEF L!Acquire
<1>2. ASSUME L!Release(b) PROVE L!TableType'
  BY <1>2 DEF L!Release
<1>3. ASSUME L!MarkDeleting(b) PROVE L!TableType'
  BY <1>3 DEF L!MarkDeleting
<1>4. ASSUME L!UnmarkDeleting(b) PROVE L!TableType'
  BY <1>4 DEF L!UnmarkDeleting
<1>5. ASSUME L!ForgetLeases PROVE L!TableType'
  BY <1>5 DEF L!ForgetLeases
<1>6. ASSUME UNCHANGED <<refs, deleting>> PROVE L!TableType'
  BY <1>6
<1>7. QED
  BY <1>1, <1>2, <1>3, <1>4, <1>5, <1>6

LEMMA TypeInit == Init => TypeOK
  BY BucketFacts, FileFacts, StorageAssumption
  DEF Init, TypeOK, L!NoLeases, L!TableType, WriterPCs, GzipPCs, MonitorPCs,
      ExportPCs, OnePath, Days

LEMMA WriterType ==
    ASSUME TypeOK, \/ \E k \in Keys : WriterTakes(k)
                   \/ WriterStep
                   \/ \E b \in Buckets : IdleCloses(b)
    PROVE  TypeOK'
<1> USE BucketFacts, StorageAssumption
    DEF TypeOK, WriterPCs, OnePath, RecordDone
<1>1. ASSUME NEW k \in Keys, WriterTakes(k) PROVE TypeOK'
  <2>1. <<day, k>> \in Buckets
    OBVIOUS
  <2>2. seq + 1 \in Traces /\ seq' \in 0..MaxTraces /\ wt' = seq + 1
    BY <1>1 DEF WriterTakes, Traces
  <2>3. wpc' \in WriterPCs \ {"idle"} /\ wb' = <<day, k>>
    BY <1>1 DEF WriterTakes
  <2>4. L!TableType'
    BY <1>1, TableFacts DEF WriterTakes
  <2>5. QED
    BY <1>1, <2>1, <2>2, <2>3, <2>4 DEF WriterTakes
<1>2. ASSUME NEW c \in Buckets, WriterRotates(c) PROVE TypeOK'
  <2>1. gz' \in [Buckets -> GzipPCs]
    BY <1>2 DEF WriterRotates, GzipPCs
  <2>2. L!TableType'
    BY <1>2, TableFacts DEF WriterRotates
  <2>3. QED
    BY <1>2, <2>1, <2>2 DEF WriterRotates
<1>3. CASE WriterAcquires
  <2>1. L!TableType'
    BY <1>3, TableFacts DEF WriterAcquires
  <2>2. wt' \in IF wpc' = "idle" THEN {0} ELSE Traces
    BY <1>3 DEF WriterAcquires
  <2>3. wpc' \in WriterPCs /\ wb' \in Buckets /\ woff' \in Nat
    BY <1>3 DEF WriterAcquires
  <2>4. QED
    BY <1>3, <2>1, <2>2, <2>3 DEF WriterAcquires
<1>4. CASE WriterOpens
  <2>1. plain' \in [Buckets -> Files]
    <3>1. Whole(<<>>) \in Files
      BY FileFacts
    <3>2. CASE UNCHANGED plain
      BY <3>2
    <3>3. CASE plain' = [plain EXCEPT ![wb] = IF @.st = "absent" THEN Whole(<<>>) ELSE @]
      <4> HIDE DEF Whole
      <4>1. plain[wb] \in Files
        BY BucketFacts
      <4>2. QED
        BY <3>1, <3>3, <4>1
    <3>4. QED
      BY <1>4, <3>2, <3>3 DEF WriterOpens
  <2>2. L!TableType'
    BY <1>4, TableFacts DEF WriterOpens
  <2>3. QED
    BY <1>4, <2>1, <2>2 DEF WriterOpens
<1>5. CASE WriterWrites
  <2>1. ASSUME NEW e \in Entries, WriteThrough(e) PROVE plain' \in [Buckets -> Files]
    <3>1. [plain[wb] EXCEPT !.lines = Append(@, e)] \in Files
      BY FileFacts
    <3>2. [plain EXCEPT ![wb] = [plain[wb] EXCEPT !.lines = Append(@, e)]]
              \in [Buckets -> Files]
      BY <3>1
    <3>3. QED
      BY <2>1, <3>2 DEF WriteThrough
  <2>2. plain' \in [Buckets -> Files]
    <3>1. wt \in Entries /\ 0 \in Entries
      BY DEF Entries, Traces
    <3>2. WriteThrough(wt) \/ WriteThrough(0) \/ UNCHANGED plain
      BY <1>5 DEF WriterWrites
    <3>3. QED
      BY <2>1, <3>1, <3>2
  <2>3. Len(plain[wb].lines) \in Nat
    BY FileFacts
  <2>4. L!TableType'
    BY <1>5, TableFacts DEF WriterWrites
  <2>5. woff' \in Nat /\ wpc' \in WriterPCs /\ wb' \in Buckets
    BY <1>5, <2>3 DEF WriterWrites
  <2>6. wt' \in IF wpc' = "idle" THEN {0} ELSE Traces
    BY <1>5 DEF WriterWrites
  <2>7. QED
    BY <1>5, <2>2, <2>4, <2>5, <2>6 DEF WriterWrites
<1>6. CASE WriterExtracts
  <2>1. L!TableType'
    BY <1>6, TableFacts DEF WriterExtracts
  <2>2. QED
    BY <1>6, <2>1 DEF WriterExtracts
<1>7. CASE WriterIndexes
  <2>1. L!TableType'
    BY <1>7, TableFacts DEF WriterIndexes
  <2>2. rows' \subseteq Rows
    <3>1. wt \in Traces
      BY <1>7 DEF WriterIndexes
    <3>2. [bucket |-> wb, off |-> woff, trace |-> wt] \in Rows
      BY <3>1 DEF Rows
    <3>3. QED
      BY <1>7, <3>2 DEF WriterIndexes
  <2>3. QED
    BY <1>7, <2>1, <2>2 DEF WriterIndexes
<1>8. ASSUME NEW c \in Buckets, IdleCloses(c) PROVE TypeOK'
  <2>1. L!TableType'
    BY <1>8, TableFacts DEF IdleCloses
  <2>2. QED
    BY <1>8, <2>1 DEF IdleCloses
<1>9. QED
  BY <1>1, <1>2, <1>3, <1>4, <1>5, <1>6, <1>7, <1>8 DEF WriterStep

LEMMA GzipType ==
    ASSUME TypeOK, NEW b \in Buckets, GzipStep(b)
    PROVE  TypeOK'
<1> USE BucketFacts, StorageAssumption DEF TypeOK, GzipPCs, GzipReleases
<1>1. gz' \in [Buckets -> GzipPCs]
  BY DEF GzipStep, GzipAcquires, GzipOpens, GzipCopies, GzipUnlinks
<1>2. L!TableType'
  BY TableFacts DEF GzipStep, GzipAcquires, GzipOpens, GzipCopies, GzipUnlinks
<1>3. plain[b] \in Files
  OBVIOUS
<1>4. Whole(plain[b].lines) \in Files /\ NoFile \in Files /\ Torn \in Files
  BY <1>3, FileFacts
<1>5. zip' \in [Buckets -> Files]
  BY <1>4 DEF GzipStep, GzipAcquires, GzipOpens, GzipCopies, GzipUnlinks
<1>6. plain' \in [Buckets -> Files]
  BY <1>4 DEF GzipStep, GzipAcquires, GzipOpens, GzipCopies, GzipUnlinks
<1>7. faultsLeft' \in 0..MaxFaults
  BY DEF GzipStep, GzipAcquires, GzipOpens, GzipCopies, GzipUnlinks
<1>8. GzipFrame
  BY DEF GzipStep, GzipAcquires, GzipOpens, GzipCopies, GzipUnlinks
<1>9. QED
  BY <1>1, <1>2, <1>5, <1>6, <1>7, <1>8

LEMMA MonitorType ==
    ASSUME TypeOK, MonitorStep
    PROVE  TypeOK'
<1> USE BucketFacts, StorageAssumption DEF TypeOK, MonitorPCs, OnePath
<1>1. CASE MonitorWalks
  BY <1>1, TableFacts DEF MonitorWalks
<1>2. CASE MonitorLists
  <2>1. Paths \subseteq Buckets
    BY DEF Paths, Rows
  <2>2. QED
    BY <1>2, <2>1, TableFacts DEF MonitorLists
<1>3. ASSUME NEW b \in Buckets, MonitorStats(b) PROVE TypeOK'
  BY <1>3, TableFacts DEF MonitorStats
<1>4. CASE MonitorAsksLease
  BY <1>4, TableFacts DEF MonitorAsksLease
<1>5. CASE MonitorDropsOrphan
  BY <1>5, TableFacts DEF MonitorDropsOrphan, DropRows
<1>6. CASE MonitorScanned
  BY <1>6, TableFacts DEF MonitorScanned
<1>7. CASE MonitorSelects
  BY <1>7, TableFacts DEF MonitorSelects
<1>8. ASSUME NEW b \in Buckets, MonitorMarks(b) PROVE TypeOK'
  BY <1>8, TableFacts DEF MonitorMarks
<1>9. CASE MonitorRemovesPlain
  <2>1. NoFile \in Files
    BY FileFacts
  <2>2. plain' \in [Buckets -> Files]
    BY <1>9, <2>1 DEF MonitorRemovesPlain
  <2>3. L!TableType'
    BY <1>9, TableFacts DEF MonitorRemovesPlain
  <2>4. QED
    BY <1>9, <2>2, <2>3 DEF MonitorRemovesPlain
<1>10. CASE MonitorRemovesZip
  <2>1. NoFile \in Files
    BY FileFacts
  <2>2. zip' \in [Buckets -> Files]
    BY <1>10, <2>1 DEF MonitorRemovesZip
  <2>3. L!TableType'
    BY <1>10, TableFacts DEF MonitorRemovesZip
  <2>4. QED
    BY <1>10, <2>2, <2>3 DEF MonitorRemovesZip
<1>11. CASE MonitorRemovesMedia
  BY <1>11, TableFacts DEF MonitorRemovesMedia
<1>12. CASE MonitorRemovesRows
  BY <1>12, TableFacts DEF MonitorRemovesRows, DropRows
<1>13. CASE MonitorUnmarks
  BY <1>13, TableFacts DEF MonitorUnmarks
<1>14. CASE MonitorFinishes
  BY <1>14, TableFacts DEF MonitorFinishes
<1>15. QED
  BY <1>1, <1>2, <1>3, <1>4, <1>5, <1>6, <1>7, <1>8, <1>9, <1>10, <1>11, <1>12,
     <1>13, <1>14 DEF MonitorStep

LEMMA OtherType ==
    ASSUME TypeOK, Midnight \/ ExportStarts \/ ExportStep \/ Crash \/ UNCHANGED vars
    PROVE  TypeOK'
<1> USE BucketFacts, StorageAssumption DEF TypeOK
<1>1. CASE Midnight
  BY <1>1, TableFacts DEF Midnight, Days
<1>2. CASE ExportStarts
  BY <1>2, TableFacts DEF ExportStarts, ExportPCs
<1>3. ASSUME NEW b \in Buckets, ExportAcquires(b) PROVE TypeOK'
  BY <1>3, TableFacts DEF ExportAcquires, ExportPCs
<1>4. CASE ExportCopies
  BY <1>4, TableFacts DEF ExportCopies, ExportPCs
<1>5. CASE ExportEnds
  BY <1>5, TableFacts DEF ExportEnds, ExportPCs
<1>6. CASE Crash
  <2>1. L!TableType'
    BY <1>6, TableFacts DEF Crash
  <2>2. gz' \in [Buckets -> GzipPCs]
    BY <1>6 DEF Crash, GzipPCs
  <2>3. QED
    BY <1>6, <2>1, <2>2
    DEF Crash, RecordDone, WriterPCs, MonitorPCs, OnePath, ExportPCs
<1>7. CASE UNCHANGED vars
  BY <1>7, TableFacts DEF vars
<1>8. QED
  BY <1>1, <1>2, <1>3, <1>4, <1>5, <1>6, <1>7 DEF ExportStep

LEMMA TypeStep == TypeOK /\ [Next]_vars => TypeOK'
  BY WriterType, GzipType, MonitorType, OtherType DEF Next, Work

\* Every variable keeps to its type; in particular no table entry goes
\* negative and no tick deletes more than its cap.
THEOREM TypeCorrect == Spec => []TypeOK
  BY TypeInit, TypeStep, PTL DEF Spec

-----------------------------------------------------------------------------
(* The inductive invariant.  Each conjunct is carried over a step by the     *)
(* conjuncts before the step, so IInv is carried as a whole.                 *)

USE DEF WriterHolds, GzipHolds, ExportHolds

LEMMA InvInit == Init => IInv
<1> SUFFICES ASSUME Init PROVE IInv
  OBVIOUS
<1>1. TypeOK
  BY TypeInit
<1>2. QED
  BY <1>1 DEF IInv, Init, L!NoLeases, LeaseAccounting, DeleteExclusion, MarkOwned,
              NoDetachedHandle, HandlesBacked, CompressedIsPast, FormsAgree, NoFile, Count

LEMMA AccountingStep ==
    ASSUME IInv, [Next]_vars
    PROVE  LeaseAccounting'
<1> USE DEF IInv, LeaseAccounting, Count
<1>0. /\ refs \in [Buckets -> Nat]
      /\ wb \in Buckets /\ xb \in Buckets
      /\ gz \in [Buckets -> GzipPCs]
  BY DEF TypeOK, L!TableType
<1>1. ASSUME NEW k \in Keys, WriterTakes(k) PROVE LeaseAccounting'
  BY <1>0, <1>1 DEF WriterTakes
<1>2. ASSUME NEW c \in Buckets, WriterRotates(c) PROVE LeaseAccounting'
  BY <1>0, <1>2 DEF WriterRotates, L!Release, GzipPCs, CompressedIsPast, HandlesBacked
<1>3. CASE WriterAcquires
  BY <1>0, <1>3 DEF WriterAcquires, L!Acquire, RecordDone, HandlesBacked
<1>4. CASE WriterOpens
  BY <1>0, <1>4 DEF WriterOpens, L!Release, RecordDone, HandlesBacked
<1>5. CASE WriterWrites \/ WriterExtracts \/ WriterIndexes
  BY <1>0, <1>5 DEF WriterWrites, WriterExtracts, WriterIndexes, RecordDone
<1>6. ASSUME NEW c \in Buckets, IdleCloses(c) PROVE LeaseAccounting'
  BY <1>0, <1>6 DEF IdleCloses, L!Release
<1>7. ASSUME NEW b \in Buckets, GzipAcquires(b) PROVE LeaseAccounting'
  BY <1>0, <1>7 DEF GzipAcquires, L!Acquire, GzipPCs
<1>8. ASSUME NEW b \in Buckets, GzipOpens(b) PROVE LeaseAccounting'
  BY <1>0, <1>8 DEF GzipOpens, L!Release, GzipReleases, GzipPCs
<1>9. ASSUME NEW b \in Buckets, GzipCopies(b) PROVE LeaseAccounting'
  BY <1>0, <1>9 DEF GzipCopies, L!Release, GzipReleases, GzipPCs
<1>10. ASSUME NEW b \in Buckets, GzipUnlinks(b) PROVE LeaseAccounting'
  BY <1>0, <1>10 DEF GzipUnlinks, L!Release, GzipReleases, GzipPCs
<1>11. CASE MonitorStep
  BY <1>0, <1>11
  DEF MonitorStep, MonitorWalks, MonitorLists, MonitorStats, MonitorAsksLease,
      MonitorDropsOrphan, MonitorScanned, MonitorSelects, MonitorMarks,
      MonitorRemovesPlain, MonitorRemovesZip, MonitorRemovesMedia, MonitorRemovesRows,
      MonitorUnmarks, MonitorFinishes, L!MarkDeleting, L!UnmarkDeleting
<1>12. ASSUME NEW b \in Buckets, ExportAcquires(b) PROVE LeaseAccounting'
  BY <1>0, <1>12 DEF ExportAcquires, L!Acquire
<1>13. CASE ExportCopies
  BY <1>0, <1>13 DEF ExportCopies, L!Release
<1>14. CASE ExportStarts \/ ExportEnds \/ Midnight
  BY <1>0, <1>14 DEF ExportStarts, ExportEnds, Midnight
<1>15. CASE Crash
  BY <1>0, <1>15 DEF Crash, RecordDone, L!ForgetLeases
<1>16. CASE UNCHANGED vars
  BY <1>16 DEF vars
<1>17. QED
  BY <1>1, <1>2, <1>3, <1>4, <1>5, <1>6, <1>7, <1>8, <1>9, <1>10, <1>11, <1>12,
     <1>13, <1>14, <1>15, <1>16 DEF Next, Work, WriterStep, GzipStep, ExportStep

LEMMA ExclusionStep ==
    ASSUME IInv, [Next]_vars
    PROVE  DeleteExclusion'
<1> USE DEF IInv, DeleteExclusion
<1>0. /\ refs \in [Buckets -> Nat] /\ deleting \subseteq Buckets
      /\ gz \in [Buckets -> GzipPCs]
  BY DEF TypeOK, L!TableType
<1>1. ASSUME NEW k \in Keys, WriterTakes(k) PROVE DeleteExclusion'
  BY <1>0, <1>1 DEF WriterTakes
<1>2. ASSUME NEW c \in Buckets, WriterRotates(c) PROVE DeleteExclusion'
  BY <1>0, <1>2 DEF WriterRotates, L!Release, GzipPCs
<1>3. CASE WriterAcquires
  BY <1>0, <1>3 DEF WriterAcquires, L!Acquire, L!Refused, RecordDone
<1>4. CASE WriterOpens
  BY <1>0, <1>4 DEF WriterOpens, L!Release, RecordDone
<1>5. CASE WriterWrites \/ WriterExtracts \/ WriterIndexes
  BY <1>0, <1>5 DEF WriterWrites, WriterExtracts, WriterIndexes, RecordDone
<1>6. ASSUME NEW c \in Buckets, IdleCloses(c) PROVE DeleteExclusion'
  BY <1>0, <1>6 DEF IdleCloses, L!Release
<1>7. ASSUME NEW b \in Buckets, GzipStep(b) PROVE DeleteExclusion'
  BY <1>0, <1>7
  DEF GzipStep, GzipAcquires, GzipOpens, GzipCopies, GzipUnlinks, GzipReleases,
      L!Acquire, L!Refused, L!Release, GzipPCs
<1>8. CASE MonitorStep
  <2>1. ASSUME NEW b \in Buckets, MonitorMarks(b) PROVE DeleteExclusion'
    <3>1. CASE L!MarkDeleting(b)
      <4>1. refs[b] = 0
        BY <1>0, <3>1 DEF L!MarkDeleting, L!MarkRefused, L!IsLeased
      <4>2. ~ WriterHolds(b) /\ ~ GzipHolds(b) /\ ~ ExportHolds(b)
        BY <4>1 DEF LeaseAccounting, Count
      <4>3. QED
        BY <2>1, <3>1, <4>2 DEF MonitorMarks, L!MarkDeleting
    <3>2. CASE UNCHANGED deleting
      BY <2>1, <3>2 DEF MonitorMarks
    <3>3. QED
      BY <2>1, <3>1, <3>2 DEF MonitorMarks
  <2>2. CASE MonitorUnmarks
    BY <2>2 DEF MonitorUnmarks, L!UnmarkDeleting
  <2>3. QED
    BY <1>8, <2>1, <2>2
    DEF MonitorStep, MonitorWalks, MonitorLists, MonitorStats, MonitorAsksLease,
        MonitorDropsOrphan, MonitorScanned, MonitorSelects, MonitorRemovesPlain,
        MonitorRemovesZip, MonitorRemovesMedia, MonitorRemovesRows, MonitorFinishes
<1>9. CASE ExportStarts \/ ExportStep \/ Midnight
  BY <1>0, <1>9 DEF ExportStarts, ExportStep, ExportAcquires, ExportCopies, ExportEnds,
                  Midnight, L!Acquire, L!Refused, L!Release
<1>10. CASE Crash
  BY <1>10 DEF Crash, L!ForgetLeases
<1>11. CASE UNCHANGED vars
  BY <1>11 DEF vars
<1>12. QED
  BY <1>1, <1>2, <1>3, <1>4, <1>5, <1>6, <1>7, <1>8, <1>9, <1>10, <1>11
  DEF Next, Work, WriterStep

LEMMA MarkStep ==
    ASSUME IInv, [Next]_vars
    PROVE  MarkOwned'
<1> USE DEF IInv, MarkOwned
<1>1. CASE MonitorStep
  BY <1>1
  DEF MonitorStep, MonitorWalks, MonitorLists, MonitorStats, MonitorAsksLease,
      MonitorDropsOrphan, MonitorScanned, MonitorSelects, MonitorMarks,
      MonitorRemovesPlain, MonitorRemovesZip, MonitorRemovesMedia, MonitorRemovesRows,
      MonitorUnmarks, MonitorFinishes, L!MarkDeleting, L!UnmarkDeleting
<1>2. CASE Crash
  BY <1>2 DEF Crash, L!ForgetLeases
<1>3. CASE WriterStep \/ \E k \in Keys : WriterTakes(k)
  BY <1>3 DEF WriterStep, WriterTakes, WriterRotates, WriterAcquires, WriterOpens,
              WriterWrites, WriterExtracts, WriterIndexes, L!Acquire, L!Release
<1>4. CASE \E b \in Buckets : IdleCloses(b) \/ GzipStep(b)
  BY <1>4 DEF IdleCloses, GzipStep, GzipAcquires, GzipOpens, GzipCopies, GzipUnlinks,
              GzipReleases, L!Acquire, L!Release
<1>5. CASE ExportStarts \/ ExportStep \/ Midnight \/ UNCHANGED vars
  BY <1>5 DEF ExportStarts, ExportStep, ExportAcquires, ExportCopies, ExportEnds,
              Midnight, L!Acquire, L!Release, vars
<1>6. QED
  BY <1>1, <1>2, <1>3, <1>4, <1>5 DEF Next, Work

\* What the monitor deletes, nobody has open and no worker compresses.
LEMMA DeletedIsIdle ==
    ASSUME IInv, mpc \in {"rmPlain", "rmZip"}
    PROVE  mb \in Buckets /\ mb \notin open /\ ~ GzipHolds(mb) /\ (wpc = "open" => wb # mb)
  BY DEF IInv, TypeOK, MarkOwned, DeleteExclusion

LEMMA HandlesStep ==
    ASSUME IInv, [Next]_vars
    PROVE  NoDetachedHandle' /\ HandlesBacked'
<1> USE DEF IInv, NoDetachedHandle, HandlesBacked
<1>0. /\ wb \in Buckets /\ open \subseteq Buckets
      /\ plain \in [Buckets -> Files]
      /\ day \in Nat
      /\ \A b \in Buckets : Day(b) \in Nat
  BY BucketFacts DEF TypeOK
<1>1. ASSUME NEW k \in Keys, WriterTakes(k) PROVE NoDetachedHandle' /\ HandlesBacked'
  <2>1. Day(<<day, k>>) = day
    BY DEF Day
  <2>2. QED
    BY <1>0, <1>1, <2>1 DEF WriterTakes
<1>2. ASSUME NEW c \in Buckets, WriterRotates(c)
      PROVE  NoDetachedHandle' /\ HandlesBacked'
  BY <1>0, <1>2 DEF WriterRotates
<1>3. CASE WriterAcquires
  BY <1>0, <1>3 DEF WriterAcquires, RecordDone
<1>4. CASE WriterOpens
  BY <1>0, <1>4 DEF WriterOpens, RecordDone, Whole, FormsAgree, Files
<1>5. CASE WriterWrites
  <2>1. \A b \in Buckets : plain'[b].st = plain[b].st
    BY <1>0, <1>5 DEF WriterWrites, WriteThrough, Files
  <2>2. QED
    BY <1>0, <1>5, <2>1 DEF WriterWrites, RecordDone
<1>6. CASE WriterExtracts \/ WriterIndexes
  BY <1>0, <1>6 DEF WriterExtracts, WriterIndexes, RecordDone
<1>7. ASSUME NEW c \in Buckets, IdleCloses(c) PROVE NoDetachedHandle' /\ HandlesBacked'
  BY <1>0, <1>7 DEF IdleCloses
<1>8. ASSUME NEW b \in Buckets, GzipStep(b) PROVE NoDetachedHandle' /\ HandlesBacked'
  <2>1. b \notin open
    BY <1>8 DEF CompressedIsPast, GzipStep, GzipAcquires, GzipOpens, GzipCopies,
                GzipUnlinks
  <2>2. QED
    BY <1>0, <1>8, <2>1 DEF GzipStep, GzipAcquires, GzipOpens, GzipCopies, GzipUnlinks
<1>9. CASE MonitorStep
  <2>1. CASE MonitorRemovesPlain
    BY <1>0, <2>1, DeletedIsIdle DEF MonitorRemovesPlain
  <2>2. QED
    BY <1>0, <1>9, <2>1
    DEF MonitorStep, MonitorWalks, MonitorLists, MonitorStats, MonitorAsksLease,
        MonitorDropsOrphan, MonitorScanned, MonitorSelects, MonitorMarks,
        MonitorRemovesZip, MonitorRemovesMedia, MonitorRemovesRows, MonitorUnmarks,
        MonitorFinishes
<1>10. CASE Midnight
  BY <1>0, <1>10 DEF Midnight
<1>11. CASE ExportStarts \/ ExportStep \/ UNCHANGED vars
  BY <1>0, <1>11 DEF ExportStarts, ExportStep, ExportAcquires, ExportCopies, ExportEnds,
                   vars
<1>12. CASE Crash
  BY <1>12 DEF Crash, RecordDone
<1>13. QED
  BY <1>1, <1>2, <1>3, <1>4, <1>5, <1>6, <1>7, <1>8, <1>9, <1>10, <1>11, <1>12
  DEF Next, Work, WriterStep

LEMMA PastStep ==
    ASSUME IInv, [Next]_vars
    PROVE  CompressedIsPast'
<1> USE DEF IInv, CompressedIsPast
<1>0. /\ wb \in Buckets /\ open \subseteq Buckets
      /\ gz \in [Buckets -> GzipPCs] /\ zip \in [Buckets -> Files]
      /\ day \in Nat
      /\ \A b \in Buckets : Day(b) \in Nat
      /\ wpc # "idle" => Day(wb) <= day
  BY BucketFacts DEF TypeOK, HandlesBacked
<1>1. ASSUME NEW k \in Keys, WriterTakes(k) PROVE CompressedIsPast'
  <2>1. Day(<<day, k>>) = day
    BY DEF Day
  <2>2. QED
    BY <1>0, <1>1, <2>1 DEF WriterTakes
<1>2. ASSUME NEW c \in Buckets, WriterRotates(c) PROVE CompressedIsPast'
  BY <1>0, <1>2 DEF WriterRotates
<1>3. CASE WriterAcquires \/ WriterOpens \/ WriterWrites \/ WriterExtracts \/ WriterIndexes
  BY <1>0, <1>3 DEF WriterAcquires, WriterOpens, WriterWrites, WriterExtracts,
                  WriterIndexes, RecordDone
<1>4. ASSUME NEW c \in Buckets, IdleCloses(c) PROVE CompressedIsPast'
  BY <1>0, <1>4 DEF IdleCloses
<1>5. ASSUME NEW b \in Buckets, GzipStep(b) PROVE CompressedIsPast'
  BY <1>0, <1>5 DEF GzipStep, GzipAcquires, GzipOpens, GzipCopies, GzipUnlinks,
                  GzipReleases
<1>6. CASE MonitorStep
  BY <1>0, <1>6
  DEF MonitorStep, MonitorWalks, MonitorLists, MonitorStats, MonitorAsksLease,
      MonitorDropsOrphan, MonitorScanned, MonitorSelects, MonitorMarks,
      MonitorRemovesPlain, MonitorRemovesZip, MonitorRemovesMedia, MonitorRemovesRows,
      MonitorUnmarks, MonitorFinishes, NoFile
<1>7. CASE Midnight
  BY <1>0, <1>7 DEF Midnight
<1>8. CASE ExportStarts \/ ExportStep \/ UNCHANGED vars
  BY <1>0, <1>8 DEF ExportStarts, ExportStep, ExportAcquires, ExportCopies, ExportEnds,
                  vars
<1>9. CASE Crash
  BY <1>0, <1>9 DEF Crash, RecordDone
<1>10. QED
  BY <1>1, <1>2, <1>3, <1>4, <1>5, <1>6, <1>7, <1>8, <1>9
  DEF Next, Work, WriterStep

LEMMA FormsStep ==
    ASSUME IInv, [Next]_vars
    PROVE  FormsAgree'
<1> USE DEF IInv, FormsAgree
<1>0. /\ wb \in Buckets
      /\ gz \in [Buckets -> GzipPCs]
      /\ zip \in [Buckets -> Files] /\ plain \in [Buckets -> Files]
      /\ Day(wb) \in Nat
  BY BucketFacts DEF TypeOK
<1>1. wpc \in {"open", "write"} => zip[wb].st = "absent" /\ gz[wb] = "none"
  BY <1>0 DEF CompressedIsPast
<1>2. CASE WriterOpens
  BY <1>0, <1>1, <1>2 DEF WriterOpens, Whole
<1>3. CASE WriterWrites
  <2>1. plain[wb].st = "whole" /\ zip[wb].st = "absent" /\ gz[wb] = "none"
    BY <1>1, <1>3 DEF WriterWrites, HandlesBacked
  <2>2. UNCHANGED <<zip, gz>>
    BY <1>3 DEF WriterWrites
  <2>3. \A b \in Buckets : /\ plain'[b].st = plain[b].st
                           /\ b # wb => plain'[b] = plain[b]
    BY <1>0, <1>3 DEF WriterWrites, WriteThrough, Files
  <2>4. QED
    BY <1>0, <2>1, <2>2, <2>3
<1>4. ASSUME NEW c \in Buckets, WriterRotates(c) PROVE FormsAgree'
  BY <1>0, <1>4 DEF WriterRotates
<1>5. CASE WriterAcquires \/ WriterExtracts \/ WriterIndexes
  BY <1>0, <1>5 DEF WriterAcquires, WriterExtracts, WriterIndexes
<1>6. ASSUME NEW k \in Keys, WriterTakes(k) PROVE FormsAgree'
  BY <1>0, <1>6 DEF WriterTakes
<1>7. ASSUME NEW b \in Buckets, IdleCloses(b) \/ GzipAcquires(b) PROVE FormsAgree'
  BY <1>0, <1>7 DEF IdleCloses, GzipAcquires
<1>8. ASSUME NEW b \in Buckets, GzipOpens(b) PROVE FormsAgree'
  <2>1. plain[b].st # "absent" => plain[b].st = "whole"
    BY <1>0 DEF Files
  <2>2. QED
    BY <1>0, <1>8, <2>1 DEF GzipOpens, GzipReleases, Torn
<1>9. ASSUME NEW b \in Buckets, GzipCopies(b) PROVE FormsAgree'
  BY <1>0, <1>9 DEF GzipCopies, GzipReleases, Whole, NoFile
<1>10. ASSUME NEW b \in Buckets, GzipUnlinks(b) PROVE FormsAgree'
  BY <1>0, <1>10 DEF GzipUnlinks, GzipReleases, NoFile
<1>11. CASE MonitorRemovesPlain
  BY <1>0, <1>11, DeletedIsIdle DEF MonitorRemovesPlain, NoFile
<1>12. CASE MonitorRemovesZip
  BY <1>0, <1>12, DeletedIsIdle DEF MonitorRemovesZip, NoFile
<1>13. CASE MonitorStep /\ UNCHANGED <<plain, zip>>
  BY <1>0, <1>13
  DEF MonitorStep, MonitorWalks, MonitorLists, MonitorStats, MonitorAsksLease,
      MonitorDropsOrphan, MonitorScanned, MonitorSelects, MonitorMarks,
      MonitorRemovesPlain, MonitorRemovesZip, MonitorRemovesMedia, MonitorRemovesRows,
      MonitorUnmarks, MonitorFinishes
<1>14. CASE MonitorStep
  BY <1>11, <1>12, <1>13, <1>14
  DEF MonitorStep, MonitorWalks, MonitorLists, MonitorStats, MonitorAsksLease,
      MonitorDropsOrphan, MonitorScanned, MonitorSelects, MonitorMarks,
      MonitorRemovesMedia, MonitorRemovesRows, MonitorUnmarks, MonitorFinishes
<1>15. CASE ExportStarts \/ ExportStep \/ Midnight \/ UNCHANGED vars
  BY <1>0, <1>15 DEF ExportStarts, ExportStep, ExportAcquires, ExportCopies, ExportEnds,
                   Midnight, vars
<1>16. CASE Crash
  BY <1>0, <1>16 DEF Crash
<1>17. QED
  BY <1>2, <1>3, <1>4, <1>5, <1>6, <1>7, <1>8, <1>9, <1>10, <1>14, <1>15, <1>16
  DEF Next, Work, WriterStep, GzipStep

LEMMA InvStep == IInv /\ [Next]_vars => IInv'
  BY TypeStep, AccountingStep, ExclusionStep, MarkStep, HandlesStep, PastStep, FormsStep
  DEF IInv

\* The whole inductive invariant holds in every reachable state.
THEOREM Invariance == Spec => []IInv
  BY InvInit, InvStep, PTL DEF Spec

\* The lease table counts exactly the goroutines that hold a lease.
THEOREM LeasesAccounted == Spec => []LeaseAccounting
<1>1. IInv => LeaseAccounting
  BY DEF IInv
<1>2. QED
  BY <1>1, Invariance, PTL

\* Eviction never removes a file that the writer, a gzip worker or an
\* exporter has open.
THEOREM EvictionExcludesUsers == Spec => []DeleteExclusion
<1>1. IInv => DeleteExclusion
  BY DEF IInv
<1>2. QED
  BY <1>1, Invariance, PTL

\* The writer never writes into an unlinked file.
THEOREM HandlesStayAttached == Spec => []NoDetachedHandle
<1>1. IInv => NoDetachedHandle
  BY DEF IInv
<1>2. QED
  BY <1>1, Invariance, PTL

\* No lease is leaked or given back twice, and no file that is open is removed.
THEOREM LeasesAreSafe == Spec => []LeasesSafe
<1>1. IInv => LeasesSafe
  BY DEF IInv, LeasesSafe
<1>2. QED
  BY <1>1, Invariance, PTL

-----------------------------------------------------------------------------
(* Storage implements BucketLog. *)

LEMMA SameUsers ==
    ASSUME \A c \in Clients, b \in Buckets : Holds(c, b)' <=> Holds(c, b)
    PROVE  UserSets' = UserSets
  BY DEF UserSets

LEMMA MoreUsers ==
    ASSUME NEW c \in Clients, NEW b \in Buckets,
           \A e \in Clients, d \in Buckets :
               Holds(e, d)' <=> Holds(e, d) \/ (e = c /\ d = b)
    PROVE  UserSets' = [UserSets EXCEPT ![b] = @ \cup {c}]
  BY DEF UserSets

LEMMA FewerUsers ==
    ASSUME NEW c \in Clients, NEW b \in Buckets,
           \A e \in Clients, d \in Buckets :
               Holds(e, d)' <=> Holds(e, d) /\ ~ (e = c /\ d = b)
    PROVE  UserSets' = [UserSets EXCEPT ![b] = @ \ {c}]
  BY DEF UserSets

LEMMA SameLogs ==
    ASSUME UNCHANGED <<plain, zip>>
    PROVE  Logs' = Logs
  BY DEF Logs, Lines

\* A step that only lets client c into bucket b is Enter(c, b).
LEMMA Entering ==
    ASSUME NEW c \in Clients, NEW b \in Buckets,
           b \notin deleting, ~ Holds(c, b),
           \A e \in Clients, d \in Buckets :
               Holds(e, d)' <=> Holds(e, d) \/ (e = c /\ d = b),
           UNCHANGED <<plain, zip, deleting>>
    PROVE  Promise!Next
<1>1. Promise!Enter(c, b)
  <2>1. c \notin UserSets[b]
    BY DEF UserSets
  <2>2. QED
    BY <2>1, MoreUsers, SameLogs DEF Promise!Enter
<1>2. QED
  BY <1>1 DEF Promise!Next

\* A step that only takes client c out of bucket b is Leave(c, b).
LEMMA Leaving ==
    ASSUME NEW c \in Clients, NEW b \in Buckets,
           Holds(c, b),
           \A e \in Clients, d \in Buckets :
               Holds(e, d)' <=> Holds(e, d) /\ ~ (e = c /\ d = b),
           Logs' = Logs, UNCHANGED deleting
    PROVE  Promise!Next
<1>1. Promise!Leave(c, b)
  <2>1. c \in UserSets[b]
    BY DEF UserSets
  <2>2. QED
    BY <2>1, FewerUsers DEF Promise!Leave
<1>2. QED
  BY <1>1 DEF Promise!Next

\* A step that changes no lease, no mark and no log is a stutter.
LEMMA Stuttering ==
    ASSUME \A e \in Clients, d \in Buckets : Holds(e, d)' <=> Holds(e, d),
           Logs' = Logs, UNCHANGED deleting
    PROVE  UNCHANGED Promise!logVars
  BY SameUsers DEF Promise!logVars

LEMMA PromiseInit == Init => Promise!Init
<1> SUFFICES ASSUME Init PROVE Promise!Init
  OBVIOUS
<1>1. Logs = [b \in Buckets |-> <<>>]
  BY DEF Init, Logs, Lines, NoFile
<1>2. UserSets = [b \in Buckets |-> {}]
  BY DEF Init, UserSets, Holds
<1>3. QED
  BY <1>1, <1>2 DEF Init, L!NoLeases, Promise!Init

LEMMA PromiseWriter ==
    ASSUME IInv, \/ \E k \in Keys : WriterTakes(k)
                 \/ WriterStep
                 \/ \E b \in Buckets : IdleCloses(b)
    PROVE  [Promise!Next]_Promise!logVars
<1> USE DEF IInv, Holds, Clients
<1>0. /\ wb \in Buckets /\ open \subseteq Buckets /\ Day(wb) \in Nat
      /\ plain \in [Buckets -> Files] /\ zip \in [Buckets -> Files]
  BY BucketFacts DEF TypeOK
<1>1. ASSUME NEW k \in Keys, WriterTakes(k) PROVE UNCHANGED Promise!logVars
  BY <1>1, Stuttering, SameLogs DEF WriterTakes
<1>2. ASSUME NEW c \in Buckets, WriterRotates(c) PROVE Promise!Next
  BY <1>2, Leaving, SameLogs DEF WriterRotates, L!Release, CompressedIsPast, GzipPCs
<1>3. CASE WriterAcquires
  <2>1. CASE L!Acquire(wb) /\ wpc' = "open" /\ UNCHANGED <<wb, wt, woff>>
    BY <1>0, <1>3, <2>1, Entering DEF WriterAcquires, L!Acquire, L!Refused, HandlesBacked
  <2>2. CASE RecordDone /\ UNCHANGED tableVars
    BY <1>3, <2>2, Stuttering, SameLogs DEF WriterAcquires, RecordDone
  <2>3. QED
    BY <1>3, <2>1, <2>2 DEF WriterAcquires
<1>4. CASE WriterOpens
  <2>1. CASE wpc' = "write" /\ UNCHANGED <<wb, wt, woff, tableVars>>
    <3>1. zip[wb].st = "absent"
      BY <1>0, <1>4 DEF WriterOpens, CompressedIsPast
    <3>2. \A b \in Buckets : Lines(b)' = Lines(b)
      BY <1>0, <1>4, <2>1, <3>1 DEF WriterOpens, Lines, Whole
    <3>3. Logs' = Logs
      BY <3>2 DEF Logs
    <3>4. \A b \in Buckets : WriterHolds(b)' <=> WriterHolds(b)
      BY <1>4, <2>1 DEF WriterOpens, RecordDone
    <3>5. \A c \in Clients, b \in Buckets : Holds(c, b)' <=> Holds(c, b)
      BY <1>4, <3>4 DEF WriterOpens
    <3>6. UNCHANGED deleting
      BY <2>1
    <3>7. QED
      BY <3>3, <3>5, <3>6, Stuttering
  <2>2. CASE L!Release(wb) /\ RecordDone /\ UNCHANGED <<open, plain>>
    BY <1>0, <1>4, <2>2, Leaving, SameLogs
    DEF WriterOpens, RecordDone, L!Release, HandlesBacked
  <2>3. QED
    BY <1>4, <2>1, <2>2 DEF WriterOpens
<1>5. CASE WriterWrites
  <2>1. ASSUME NEW e \in Entries, WriteThrough(e) PROVE Promise!Grow(wb, e)
    <3>1. wb \in open /\ wb \notin detached /\ plain[wb].st = "whole"
      BY <1>5 DEF WriterWrites, NoDetachedHandle, HandlesBacked
    <3>2. UserSets[wb] # {}
      BY <1>0, <3>1 DEF UserSets
    <3>3. UserSets' = UserSets
      BY <1>5, SameUsers DEF WriterWrites, RecordDone
    <3>4. plain' = [plain EXCEPT ![wb].lines = Append(@, e)] /\ UNCHANGED zip
      BY <1>5, <2>1, <3>1 DEF WriterWrites, WriteThrough
    <3>5. ASSUME NEW b \in Buckets, b = wb PROVE Lines(b)' = Append(Lines(b), e)
      <4>1. plain'[b] = [plain[b] EXCEPT !.lines = Append(@, e)]
        BY <1>0, <3>4, <3>5
      <4>2. plain'[b].st = "whole" /\ plain'[b].lines = Append(plain[b].lines, e)
        BY <1>0, <3>1, <3>5, <4>1 DEF Files
      <4>3. QED
        BY <3>1, <3>5, <4>2 DEF Lines
    <3>6. ASSUME NEW b \in Buckets, b # wb PROVE Lines(b)' = Lines(b)
      BY <1>0, <3>4, <3>6 DEF Lines
    <3>7. Logs' = [Logs EXCEPT ![wb] = Append(@, e)]
      <4> HIDE DEF IInv, Holds, Clients
      <4>1. \A b \in Buckets :
                Lines(b)' = IF b = wb THEN Append(Lines(b), e) ELSE Lines(b)
        BY <3>5, <3>6
      <4>2. QED
        BY <1>0, <4>1 DEF Logs
    <3>8. QED
      BY <1>5, <3>2, <3>3, <3>7 DEF WriterWrites, Promise!Grow
  <2>2. CASE UNCHANGED plain
    BY <1>5, <2>2, Stuttering, SameLogs DEF WriterWrites, RecordDone
  <2>3. wt \in Entries /\ 0 \in Entries
    BY StorageAssumption DEF TypeOK, Entries, Traces
  <2>4. QED
    BY <1>0, <1>5, <2>1, <2>2, <2>3 DEF WriterWrites, Promise!Next
<1>6. CASE WriterExtracts \/ WriterIndexes
  BY <1>6, Stuttering, SameLogs DEF WriterExtracts, WriterIndexes, RecordDone
<1>7. ASSUME NEW c \in Buckets, IdleCloses(c) PROVE Promise!Next
  BY <1>7, Leaving, SameLogs DEF IdleCloses, L!Release
<1>8. QED
  BY <1>1, <1>2, <1>3, <1>4, <1>5, <1>6, <1>7 DEF WriterStep

LEMMA PromiseGzip ==
    ASSUME IInv, NEW b \in Buckets, GzipStep(b)
    PROVE  [Promise!Next]_Promise!logVars
<1> USE DEF IInv, Holds, Clients
<1>0. /\ gz \in [Buckets -> GzipPCs]
      /\ plain \in [Buckets -> Files] /\ zip \in [Buckets -> Files]
  BY DEF TypeOK
<1>1. CASE GzipAcquires(b)
  <2>1. CASE L!Acquire(b) /\ gz' = [gz EXCEPT ![b] = "leased"]
    BY <1>0, <1>1, <2>1, Entering DEF GzipAcquires, L!Acquire, L!Refused
  <2>2. CASE gz' = [gz EXCEPT ![b] = "none"] /\ UNCHANGED tableVars
    BY <1>0, <1>1, <2>2, Stuttering, SameLogs DEF GzipAcquires
  <2>3. QED
    BY <1>1, <2>1, <2>2 DEF GzipAcquires
<1>2. ASSUME Logs' = Logs, GzipFrame, GzipHolds(b),
             \/ GzipReleases(b)
             \/ \E pc \in {"copying", "unlinking"} :
                    gz' = [gz EXCEPT ![b] = pc] /\ UNCHANGED tableVars
      PROVE  [Promise!Next]_Promise!logVars
  <2>1. CASE GzipReleases(b)
    <3>1. /\ gz'[b] = "none" /\ \A d \in Buckets : d # b => gz'[d] = gz[d]
          /\ UNCHANGED deleting
      BY <1>0, <2>1 DEF GzipReleases, L!Release
    <3>2. QED
      BY <1>2, <3>1, Leaving
  <2>2. CASE \E pc \in {"copying", "unlinking"} :
                gz' = [gz EXCEPT ![b] = pc] /\ UNCHANGED tableVars
    <3>1. /\ gz'[b] \in {"copying", "unlinking"}
          /\ \A d \in Buckets : d # b => gz'[d] = gz[d]
      BY <1>0, <2>2
    <3>2. QED
      BY <1>2, <2>2, <3>1, Stuttering
  <2>3. QED
    BY <1>2, <2>1, <2>2
<1>3. CASE GzipOpens(b)
  <2>1. \A d \in Buckets : Lines(d)' = Lines(d)
    BY <1>0, <1>3 DEF GzipOpens, Lines
  <2>2. Logs' = Logs
    BY <2>1 DEF Logs
  <2>3. QED
    BY <1>2, <1>3, <2>2 DEF GzipOpens
<1>4. CASE GzipCopies(b)
  <2>1. plain[b].st = "whole"
    BY <1>4 DEF GzipCopies, FormsAgree
  <2>2. \A d \in Buckets : Lines(d)' = Lines(d)
    BY <1>0, <1>4, <2>1 DEF GzipCopies, Lines
  <2>3. Logs' = Logs
    BY <2>2 DEF Logs
  <2>4. QED
    BY <1>2, <1>4, <2>3 DEF GzipCopies
<1>5. CASE GzipUnlinks(b)
  <2>1. /\ plain[b].st = "whole" /\ zip[b].st = "whole"
        /\ zip[b].lines = plain[b].lines
    BY <1>5 DEF GzipUnlinks, FormsAgree
  <2>2. \A d \in Buckets : Lines(d)' = Lines(d)
    BY <1>0, <1>5, <2>1 DEF GzipUnlinks, Lines, NoFile
  <2>3. Logs' = Logs
    BY <2>2 DEF Logs
  <2>4. QED
    BY <1>2, <1>5, <2>3 DEF GzipUnlinks
<1>6. QED
  BY <1>1, <1>3, <1>4, <1>5 DEF GzipStep

LEMMA PromiseMonitor ==
    ASSUME IInv, MonitorStep
    PROVE  [Promise!Next]_Promise!logVars
<1> USE DEF IInv, Holds, Clients
<1>0. /\ refs \in [Buckets -> Nat]
      /\ plain \in [Buckets -> Files] /\ zip \in [Buckets -> Files]
      /\ mb \in Buckets
  BY DEF TypeOK, L!TableType
<1>1. \A c \in Clients, b \in Buckets : Holds(c, b)' <=> Holds(c, b)
  BY DEF MonitorStep, MonitorWalks, MonitorLists, MonitorStats, MonitorAsksLease,
         MonitorDropsOrphan, MonitorScanned, MonitorSelects, MonitorMarks,
         MonitorRemovesPlain, MonitorRemovesZip, MonitorRemovesMedia,
         MonitorRemovesRows, MonitorUnmarks, MonitorFinishes
<1>2. UserSets' = UserSets
  BY <1>1, SameUsers
<1>3. ASSUME NEW b \in Buckets, MonitorMarks(b) PROVE [Promise!Next]_Promise!logVars
  <2>1. CASE L!MarkDeleting(b)
    <3>1. refs[b] = 0 /\ b \notin deleting
      BY <1>0, <2>1 DEF L!MarkDeleting, L!MarkRefused, L!IsLeased
    <3>2. UserSets[b] = {}
      BY <3>1 DEF UserSets, LeaseAccounting, Count
    <3>3. Promise!Reserve(b)
      BY <1>2, <1>3, <2>1, <3>1, <3>2, SameLogs
      DEF MonitorMarks, L!MarkDeleting, Promise!Reserve
    <3>4. QED
      BY <3>3 DEF Promise!Next
  <2>2. CASE UNCHANGED tableVars
    BY <1>1, <1>3, <2>2, Stuttering, SameLogs DEF MonitorMarks
  <2>3. QED
    BY <1>3, <2>1, <2>2 DEF MonitorMarks
<1>4. CASE MonitorUnmarks
  <2>1. mb \in deleting
    BY <1>4 DEF MonitorUnmarks, MarkOwned
  <2>2. Promise!Unreserve(mb)
    BY <1>2, <1>4, <2>1, SameLogs DEF MonitorUnmarks, L!UnmarkDeleting, Promise!Unreserve
  <2>3. QED
    BY <1>0, <2>2 DEF Promise!Next
<1>5. ASSUME mb \in deleting, UNCHANGED <<mb, deleting>>,
             Lines(mb)' = Lines(mb) \/ Lines(mb)' = <<>>,
             \A b \in Buckets : b # mb => Lines(b)' = Lines(b)
      PROVE  [Promise!Next]_Promise!logVars
  <2>1. CASE Lines(mb)' = Lines(mb)
    <3>1. \A b \in Buckets : Lines(b)' = Lines(b)
      BY <1>5, <2>1
    <3>2. Logs' = Logs
      BY <3>1 DEF Logs
    <3>3. QED
      BY <1>1, <1>5, <3>2, Stuttering
  <2>2. CASE Lines(mb)' = <<>>
    <3>1. \A b \in Buckets : Lines(b)' = IF b = mb THEN <<>> ELSE Lines(b)
      BY <1>5, <2>2
    <3>2. Logs' = [Logs EXCEPT ![mb] = <<>>]
      BY <1>0, <3>1 DEF Logs
    <3>3. Promise!Discard(mb)
      BY <1>2, <1>5, <3>2 DEF Promise!Discard
    <3>4. QED
      BY <1>0, <3>3 DEF Promise!Next
  <2>3. QED
    BY <1>5, <2>1, <2>2
<1>6. CASE MonitorRemovesPlain
  <2>1. mb \in deleting
    BY <1>6 DEF MonitorRemovesPlain, MarkOwned
  <2>2. \A b \in Buckets : b # mb => Lines(b)' = Lines(b)
    BY <1>0, <1>6 DEF MonitorRemovesPlain, Lines
  <2>3. ASSUME NEW b \in Buckets, b = mb
        PROVE  Lines(b)' = Lines(b) \/ Lines(b)' = <<>>
    BY <1>0, <1>6, <2>3 DEF MonitorRemovesPlain, Lines, NoFile, FormsAgree, Files
  <2>4. UNCHANGED <<mb, deleting>>
    BY <1>6 DEF MonitorRemovesPlain
  <2>5. QED
    BY <1>0, <1>5, <2>1, <2>2, <2>3, <2>4
<1>7. CASE MonitorRemovesZip
  <2>1. mb \in deleting
    BY <1>7 DEF MonitorRemovesZip, MarkOwned
  <2>2. \A b \in Buckets : b # mb => Lines(b)' = Lines(b)
    BY <1>0, <1>7 DEF MonitorRemovesZip, Lines
  <2>3. ASSUME NEW b \in Buckets, b = mb
        PROVE  Lines(b)' = Lines(b) \/ Lines(b)' = <<>>
    BY <1>0, <1>7, <2>3 DEF MonitorRemovesZip, Lines, NoFile
  <2>4. UNCHANGED <<mb, deleting>>
    BY <1>7 DEF MonitorRemovesZip
  <2>5. QED
    BY <1>0, <1>5, <2>1, <2>2, <2>3, <2>4
<1>8. CASE UNCHANGED <<plain, zip, deleting>>
  BY <1>1, <1>8, Stuttering, SameLogs
<1>9. QED
  BY <1>3, <1>4, <1>6, <1>7, <1>8
  DEF MonitorStep, MonitorWalks, MonitorLists, MonitorStats, MonitorAsksLease,
      MonitorDropsOrphan, MonitorScanned, MonitorSelects, MonitorRemovesMedia,
      MonitorRemovesRows, MonitorFinishes

LEMMA PromiseOther ==
    ASSUME IInv, Midnight \/ ExportStarts \/ ExportStep \/ Crash \/ UNCHANGED vars
    PROVE  [Promise!Next]_Promise!logVars
<1> USE DEF IInv, Holds, Clients
<1>0. xb \in Buckets
  BY DEF TypeOK
<1>1. CASE Midnight \/ ExportStarts \/ ExportEnds \/ UNCHANGED vars
  BY <1>1, Stuttering, SameLogs DEF Midnight, ExportStarts, ExportEnds, vars
<1>2. ASSUME NEW b \in Buckets, ExportAcquires(b) PROVE [Promise!Next]_Promise!logVars
  <2>1. CASE L!Acquire(b) /\ xb' = b /\ xpc' = "copy"
    BY <1>2, <2>1, Entering DEF ExportAcquires, L!Acquire, L!Refused
  <2>2. CASE UNCHANGED <<xpc, xb, tableVars>>
    BY <1>2, <2>2, Stuttering, SameLogs DEF ExportAcquires
  <2>3. QED
    BY <1>2, <2>1, <2>2 DEF ExportAcquires
<1>3. CASE ExportCopies
  BY <1>0, <1>3, Leaving, SameLogs DEF ExportCopies, L!Release
<1>4. CASE Crash
  <2>1. UserSets' = [b \in Buckets |-> {}]
    BY <1>4 DEF Crash, RecordDone, UserSets
  <2>2. deleting' = {} /\ Logs' = Logs
    BY <1>4, SameLogs DEF Crash, L!ForgetLeases
  <2>3. Promise!Crash
    BY <2>1, <2>2 DEF Promise!Crash
  <2>4. QED
    BY <2>3 DEF Promise!Next
<1>5. QED
  BY <1>1, <1>2, <1>3, <1>4 DEF ExportStep

LEMMA PromiseStep == IInv /\ [Next]_vars => [Promise!Next]_Promise!logVars
  BY PromiseWriter, PromiseGzip, PromiseMonitor, PromiseOther DEF Next, Work

\* Storage implements BucketLog: whatever the writer, the gzip workers, the
\* exporter, failures and crashes do, the lines a reader finds in a bucket
\* only grow, except under an eviction that has the bucket to itself.
THEOREM StorageKeepsPromise == Spec => KeepsPromise
  BY PromiseInit, PromiseStep, Invariance, PTL DEF Spec, Promise!Spec, KeepsPromise

-----------------------------------------------------------------------------
(***************************************************************************)
(* What a row is worth to a reader that takes no lease.                    *)
(*                                                                         *)
(* RowsResolve is carried by two facts about a step of Storage: outside    *)
(* the buckets that carry the delete mark a log only grows (LogsGrow, from *)
(* the refinement of BucketLog), and the writer, between its write and its *)
(* insert, holds an offset at which its line stands (WriterAtLine).        *)
(* ReadAnswersOwnLine needs a third: a bucket that is compressed, and not  *)
(* marked, stays as it is (CompressedStays), so a reader that has seen no  *)
(* plain file finds the whole .gz.                                         *)
(***************************************************************************)

\* The line that is about to be indexed stands where its row will say.
WriterAtLine ==
    wpc \in {"extract", "index"} =>
        /\ woff < Len(plain[wb].lines)
        /\ plain[wb].lines[woff + 1] = wt

ReadType == rpc \in ReadPCs /\ (rpc # "idle" => rrow \in Rows)

\* What an undisturbed read has seen is still so.
ReadUndisturbed ==
    /\ rclean => rrow.bucket \notin deleting
    /\ rclean /\ rpc # "idle" =>
        /\ LineAt(rrow) = rrow.trace
        /\ rzipped \/ rpc \in {"statZip", "openZip", "failed"} =>
            plain[rrow.bucket].st = "absent"
        /\ rpc \in {"openPlain", "failed"} => ~ rzipped
        /\ rpc = "answered" => rline = rrow.trace

ReadInv == WriterAtLine /\ RowsResolve /\ ReadType /\ ReadUndisturbed

USE DEF clockVars, writerVars, tableVars, monitorVars, diskVars, exportVars,
        GzipFrame, MonitorFrame, NoDisk, ExportFrame, Fails, Succeeds,
        WriterHolds, GzipHolds, ExportHolds

LEMMA ReadingIsStorage == [ReadNext]_allVars => [Next]_vars
  BY DEF ReadNext, ReadStep, ReadStatsPlain, ReadOpensPlain, ReadStatsZip, ReadOpensZip,
         ReadStarts, ReadFrame, Around, ReadDies, Next, allVars

\* Storage goes on as if nobody read, so its invariant is this system's too.
LEMMA ReadKeepsIInv == ReadSpec => []IInv
<1>1. ReadInit => Init
  BY DEF ReadInit
<1> QED BY <1>1, ReadingIsStorage, InvInit, InvStep, PTL DEF ReadSpec

-----------------------------------------------------------------------------
(* A step of Storage. *)

\* Outside the buckets that are being deleted a log only grows, at its end.
LEMMA LogsGrow ==
    ASSUME IInv, [Next]_vars, NEW b \in Buckets, b \notin deleting
    PROVE  Lines(b)' = Lines(b) \/ \E e \in Entries : Lines(b)' = Append(Lines(b), e)
<1>1. [Promise!Next]_Promise!logVars
  BY PromiseStep
<1>2. Lines(b) = Logs[b] /\ Lines(b)' = Logs'[b]
  BY DEF Logs
<1>3. CASE Logs' = Logs
  BY <1>2, <1>3
<1>4. ASSUME NEW d \in Buckets, NEW e \in Entries, Promise!Grow(d, e)
      PROVE  Logs'[b] = Logs[b] \/ Logs'[b] = Append(Logs[b], e)
  <2>1. Logs' = [Logs EXCEPT ![d] = Append(@, e)]
    BY <1>4 DEF Promise!Grow
  <2>2. Logs \in [Buckets -> {Logs[c] : c \in Buckets}]
    BY DEF Logs
  <2> QED BY <2>1, <2>2
<1>5. ASSUME NEW d \in Buckets, Promise!Discard(d)
      PROVE  Logs'[b] = Logs[b]
  BY <1>5 DEF Promise!Discard
<1>6. CASE Promise!Next /\ Logs' # Logs
  <2>1. \/ \E d \in Buckets, e \in Entries : Promise!Grow(d, e)
        \/ \E d \in Buckets : Promise!Discard(d)
    BY <1>6 DEF Promise!Next, Promise!Enter, Promise!Leave, Promise!Reserve,
                Promise!Unreserve, Promise!Crash
  <2> QED BY <1>2, <1>4, <1>5, <2>1
<1> QED BY <1>1, <1>3, <1>6 DEF Promise!logVars

\* Every line is a sequence of entries.
LEMMA LinesType ==
    ASSUME TypeOK, NEW b \in Buckets
    PROVE  Lines(b) \in Seq(Entries)
<1>1. plain[b] \in Files /\ zip[b] \in Files
  BY DEF TypeOK
<1>2. plain[b].lines \in Seq(Entries) /\ zip[b].lines \in Seq(Entries)
  BY <1>1, FileFacts
<1>3. <<>> \in Seq(Entries)
  OBVIOUS
<1> QED BY <1>2, <1>3 DEF Lines

\* A row that resolves in a bucket that is not being deleted goes on to.
LEMMA ResolvesOn ==
    ASSUME IInv, [Next]_vars, NEW r \in Rows, r.bucket \notin deleting,
           LineAt(r) = r.trace
    PROVE  LineAt(r)' = r.trace
<1>1. r.bucket \in Buckets /\ r.off \in Nat /\ r.trace # 0
  BY StorageAssumption DEF Rows, Traces
<1>2. Lines(r.bucket) \in Seq(Entries)
  BY <1>1, LinesType DEF IInv
<1>3. r.off < Len(Lines(r.bucket)) /\ Lines(r.bucket)[r.off + 1] = r.trace
  BY <1>1 DEF LineAt
<1>4. CASE Lines(r.bucket)' = Lines(r.bucket)
  BY <1>3, <1>4 DEF LineAt
<1>5. ASSUME NEW e \in Entries, Lines(r.bucket)' = Append(Lines(r.bucket), e)
      PROVE  LineAt(r)' = r.trace
  <2>1. /\ r.off < Len(Append(Lines(r.bucket), e))
        /\ Append(Lines(r.bucket), e)[r.off + 1] = r.trace
    BY <1>1, <1>2, <1>3
  <2> QED BY <1>5, <2>1 DEF LineAt
<1> QED BY <1>1, <1>4, <1>5, LogsGrow

\* A bucket that is compressed, and not being deleted, stays as it is.
LEMMA CompressedStays ==
    ASSUME IInv, [Next]_vars, NEW b \in Buckets, b \notin deleting,
           plain[b].st = "absent", zip[b].st = "whole"
    PROVE  plain'[b].st = "absent" /\ zip'[b].st = "whole"
<1>0. /\ plain \in [Buckets -> Files] /\ zip \in [Buckets -> Files]
      /\ wb \in Buckets
  BY DEF IInv, TypeOK
<1>1. b \notin open /\ (wpc # "idle" => b # wb)
  <2>1. Day(b) \in Nat
    BY BucketFacts
  <2> QED BY <2>1 DEF IInv, CompressedIsPast
<1>2. gz[b] \notin {"copying", "unlinking"}
  BY DEF IInv, FormsAgree
<1>3. ASSUME UNCHANGED <<plain, zip>> PROVE plain'[b].st = "absent" /\ zip'[b].st = "whole"
  BY <1>3
<1>4. CASE WriterOpens \/ WriterWrites
  BY <1>0, <1>1, <1>4 DEF WriterOpens, WriterWrites, WriteThrough
<1>5. CASE (\E k \in Keys : WriterTakes(k)) \/ (\E c \in Buckets : WriterRotates(c) \/ IdleCloses(c))
           \/ WriterAcquires \/ WriterExtracts \/ WriterIndexes
  BY <1>3, <1>5 DEF WriterTakes, WriterRotates, IdleCloses, WriterAcquires, WriterExtracts,
                    WriterIndexes
<1>6. ASSUME NEW c \in Buckets, GzipStep(c) PROVE plain'[b].st = "absent" /\ zip'[b].st = "whole"
  BY <1>0, <1>2, <1>6 DEF GzipStep, GzipAcquires, GzipOpens, GzipCopies, GzipUnlinks
<1>7. CASE MonitorRemovesPlain \/ MonitorRemovesZip
  <2>1. b # mb
    BY <1>7 DEF MonitorRemovesPlain, MonitorRemovesZip, IInv, MarkOwned
  <2> QED BY <1>0, <1>7, <2>1 DEF MonitorRemovesPlain, MonitorRemovesZip
<1>8. CASE MonitorStep /\ ~ MonitorRemovesPlain /\ ~ MonitorRemovesZip
  BY <1>3, <1>8
  DEF MonitorStep, MonitorWalks, MonitorLists, MonitorStats, MonitorAsksLease,
      MonitorDropsOrphan, MonitorScanned, MonitorSelects, MonitorMarks, MonitorRemovesMedia,
      MonitorRemovesRows, MonitorUnmarks, MonitorFinishes
<1>9. CASE Midnight \/ ExportStarts \/ ExportStep \/ Crash \/ UNCHANGED vars
  BY <1>3, <1>9 DEF Midnight, ExportStarts, ExportStep, ExportAcquires, ExportCopies,
                    ExportEnds, Crash, vars
<1> QED BY <1>4, <1>5, <1>6, <1>7, <1>8, <1>9 DEF Next, Work, WriterStep

-----------------------------------------------------------------------------
(* The writer's line and the rows. *)

LEMMA WriterAtLineStep ==
    ASSUME IInv, WriterAtLine, [Next]_vars
    PROVE  WriterAtLine'
<1>0. /\ wb \in Buckets /\ plain \in [Buckets -> Files] /\ woff \in Nat
      /\ plain[wb].lines \in Seq(Entries)
  BY FileFacts DEF IInv, TypeOK
<1> USE DEF WriterAtLine
<1>1. CASE WriterWrites
  <2>1. CASE RecordDone
    BY <2>1 DEF RecordDone
  <2>2. CASE WriteThrough(wt) /\ wpc' = "extract" /\ ~ RecordDone
    <3>1. wb \notin detached /\ wb' = wb /\ wt' = wt /\ woff' = Len(plain[wb].lines)
      BY <1>1, <2>2 DEF WriterWrites, IInv, NoDetachedHandle
    <3>2. plain'[wb].lines = Append(plain[wb].lines, wt)
      BY <1>0, <2>2, <3>1 DEF WriteThrough, Files
    <3>3. wt \in Entries
      BY <1>1 DEF IInv, TypeOK, WriterWrites, Traces, Entries
    <3> QED BY <1>0, <3>1, <3>2, <3>3
  <2> QED BY <1>1, <2>1, <2>2 DEF WriterWrites
<1>2. ASSUME UNCHANGED <<wb, wt, woff>>, wpc' = wpc \/ wpc = "extract",
             plain'[wb] = plain[wb] \/ wpc \notin {"extract", "index"}
      PROVE  WriterAtLine'
  BY <1>2
<1>3. CASE WriterExtracts
  BY <1>2, <1>3 DEF WriterExtracts
<1>4. CASE WriterIndexes \/ WriterAcquires \/ WriterOpens \/ \E k \in Keys : WriterTakes(k)
  BY <1>4 DEF WriterIndexes, WriterAcquires, WriterOpens, WriterTakes, RecordDone
<1>5. CASE \E c \in Buckets : WriterRotates(c) \/ IdleCloses(c)
  BY <1>2, <1>5 DEF WriterRotates, IdleCloses
<1>6. ASSUME NEW c \in Buckets, GzipStep(c) PROVE WriterAtLine'
  <2>1. CASE GzipUnlinks(c)
    <3>1. wpc \in {"extract", "index"} => wb # c
      BY <2>1 DEF GzipUnlinks, IInv, HandlesBacked, CompressedIsPast
    <3> QED BY <1>0, <1>2, <2>1, <3>1 DEF GzipUnlinks
  <2>2. CASE GzipAcquires(c) \/ GzipOpens(c) \/ GzipCopies(c)
    BY <1>2, <2>2 DEF GzipAcquires, GzipOpens, GzipCopies
  <2> QED BY <1>6, <2>1, <2>2 DEF GzipStep
<1>7. CASE MonitorRemovesPlain
  <2>1. wpc \in {"extract", "index"} => wb # mb
    BY <1>7 DEF MonitorRemovesPlain, IInv, HandlesBacked, MarkOwned, DeleteExclusion, TypeOK
  <2> QED BY <1>0, <1>2, <1>7, <2>1 DEF MonitorRemovesPlain
<1>8. CASE MonitorStep /\ ~ MonitorRemovesPlain
  BY <1>2, <1>8
  DEF MonitorStep, MonitorWalks, MonitorLists, MonitorStats, MonitorAsksLease,
      MonitorDropsOrphan, MonitorScanned, MonitorSelects, MonitorMarks, MonitorRemovesZip,
      MonitorRemovesMedia, MonitorRemovesRows, MonitorUnmarks, MonitorFinishes
<1>9. CASE Midnight \/ ExportStarts \/ ExportStep \/ UNCHANGED vars
  BY <1>2, <1>9 DEF Midnight, ExportStarts, ExportStep, ExportAcquires, ExportCopies,
                    ExportEnds, vars
<1>10. CASE Crash
  BY <1>10 DEF Crash, RecordDone
<1> QED BY <1>1, <1>3, <1>4, <1>5, <1>6, <1>7, <1>8, <1>9, <1>10
        DEF Next, Work, WriterStep

\* Only the writer adds rows, and it adds the row of the line it wrote.
LEMMA NewRow ==
    ASSUME [Next]_vars, NEW r \in rows', r \notin rows
    PROVE  /\ wpc = "index" /\ UNCHANGED <<plain, zip, deleting>>
           /\ r = [bucket |-> wb, off |-> woff, trace |-> wt]
<1>1. CASE WriterIndexes
  BY <1>1 DEF WriterIndexes
<1>2. CASE MonitorDropsOrphan \/ MonitorRemovesRows
  BY <1>2 DEF MonitorDropsOrphan, MonitorRemovesRows, DropRows
<1>3. CASE UNCHANGED rows
  BY <1>3
<1>4. CASE MonitorStep /\ ~ MonitorDropsOrphan /\ ~ MonitorRemovesRows
  BY <1>3, <1>4
  DEF MonitorStep, MonitorWalks, MonitorLists, MonitorStats, MonitorAsksLease,
      MonitorScanned, MonitorSelects, MonitorMarks, MonitorRemovesPlain, MonitorRemovesZip,
      MonitorRemovesMedia, MonitorUnmarks, MonitorFinishes
<1>5. CASE (\E k \in Keys : WriterTakes(k)) \/ (\E c \in Buckets : WriterRotates(c) \/ IdleCloses(c))
           \/ WriterAcquires \/ WriterOpens \/ WriterWrites \/ WriterExtracts
  BY <1>3, <1>5 DEF WriterTakes, WriterRotates, IdleCloses, WriterAcquires, WriterOpens,
                    WriterWrites, WriterExtracts
<1>6. CASE \E c \in Buckets : GzipStep(c)
  BY <1>3, <1>6 DEF GzipStep, GzipAcquires, GzipOpens, GzipCopies, GzipUnlinks
<1>7. CASE Midnight \/ ExportStarts \/ ExportStep \/ Crash \/ UNCHANGED vars
  BY <1>3, <1>7 DEF Midnight, ExportStarts, ExportStep, ExportAcquires, ExportCopies,
                    ExportEnds, Crash, vars
<1> QED BY <1>1, <1>2, <1>4, <1>5, <1>6, <1>7 DEF Next, Work, WriterStep

LEMMA RowsResolveStep ==
    ASSUME IInv, WriterAtLine, RowsResolve, [ReadNext]_allVars
    PROVE  RowsResolve'
<1> SUFFICES ASSUME NEW r \in rows', Sound(r.bucket)' PROVE LineAt(r)' = r.trace
  BY DEF RowsResolve
<1>0. [Next]_vars
  BY ReadingIsStorage
<1>1. CASE r \notin rows
  <2>1. /\ wpc = "index" /\ UNCHANGED <<plain, zip>>
        /\ r = [bucket |-> wb, off |-> woff, trace |-> wt]
    BY <1>0, <1>1, NewRow
  <2>2. plain[wb].st = "whole"
    BY <2>1 DEF IInv, HandlesBacked
  <2> QED BY <2>1, <2>2 DEF WriterAtLine, LineAt, Lines
<1>2. CASE r \in rows
  <2>1. r \in Rows
    BY <1>2 DEF IInv, TypeOK
  <2>2. r.bucket \in Paths'
    BY DEF Paths
  \* A deletion that ends while the row is there cuts its bucket short.
  <2>3. CutsShort \/ UNCHANGED <<cut, deleting>>
    BY DEF ReadNext, ReadStep, ReadStatsPlain, ReadOpensPlain, ReadStatsZip, ReadOpensZip,
           ReadStarts, ReadFrame, Around, ReadDies, allVars, readVars, vars
  <2>4. Sound(r.bucket)
    BY <2>2, <2>3 DEF Sound, CutsShort
  <2>5. LineAt(r) = r.trace /\ r.bucket \notin deleting
    BY <1>2, <2>4 DEF RowsResolve, Sound
  <2> QED BY <1>0, <2>1, <2>5, ResolvesOn
<1> QED BY <1>1, <1>2

-----------------------------------------------------------------------------
(* The read. *)

LEMMA ReadInvInit == ReadInit => ReadInv
  BY DEF ReadInit, ReadInv, Init, L!NoLeases, WriterAtLine, RowsResolve, ReadType, ReadPCs,
      ReadUndisturbed

\* A row that is found at its place shows which form of the bucket holds it.
LEMMA LineIsSomewhere ==
    ASSUME IInv, ReadType, rpc # "idle", LineAt(rrow) = rrow.trace
    PROVE  LET b == rrow.bucket IN
           /\ b \in Buckets
           /\ plain[b].st = "absent" => zip[b].st = "whole"
           /\ plain[b].st # "absent" =>
                rrow.off < Len(plain[b].lines) /\ plain[b].lines[rrow.off + 1] = rrow.trace
           /\ zip[b].st = "whole" =>
                rrow.off < Len(zip[b].lines) /\ zip[b].lines[rrow.off + 1] = rrow.trace
<1> DEFINE b == rrow.bucket
<1>1. b \in Buckets /\ rrow.off \in Nat /\ rrow.trace # 0
  BY StorageAssumption DEF ReadType, Rows, Traces
<1>2. rrow.off < Len(Lines(b)) /\ Lines(b)[rrow.off + 1] = rrow.trace
  BY <1>1 DEF LineAt
<1>3. plain[b].st = "absent" => zip[b].st = "whole"
  BY <1>1, <1>2 DEF Lines
<1>4. plain[b] \in Files
  BY <1>1 DEF IInv, TypeOK
<1>5. plain[b].st # "absent" /\ zip[b].st = "whole" => zip[b].lines = plain[b].lines
  BY <1>1, <1>4 DEF IInv, FormsAgree, Files
<1> QED BY <1>1, <1>2, <1>3, <1>5 DEF Lines

LEMMA ReadStepKeeps ==
    ASSUME IInv, ReadType, ReadUndisturbed, ReadStep
    PROVE  ReadType' /\ ReadUndisturbed'
<1>1. UNCHANGED <<plain, zip, deleting, rrow, rclean, rzipped>>
  BY DEF ReadStep, ReadStatsPlain, ReadOpensPlain, ReadStatsZip, ReadOpensZip, ReadFrame, vars
<1>2. LineAt(rrow)' = LineAt(rrow)
  BY <1>1 DEF LineAt, Lines
<1>3. rpc # "idle" /\ rpc' # "idle" /\ rpc' \in ReadPCs
  BY DEF ReadStep, ReadStatsPlain, ReadOpensPlain, ReadStatsZip, ReadOpensZip, Answers, ReadPCs
<1>4. ReadType'
  BY <1>1, <1>3 DEF ReadType
<1>5. CASE ~ rclean
  BY <1>1, <1>4, <1>5 DEF ReadUndisturbed
<1>6. CASE rclean
  <2>1. LineAt(rrow) = rrow.trace
    BY <1>3, <1>6 DEF ReadUndisturbed
  <2>2. CASE ReadStatsPlain
    BY <1>1, <1>2, <1>4, <1>6, <2>2 DEF ReadUndisturbed, ReadStatsPlain
  <2>3. CASE ReadOpensPlain
    BY <1>1, <1>2, <1>4, <1>6, <2>1, <2>3, LineIsSomewhere
    DEF ReadUndisturbed, ReadOpensPlain, Answers
  <2>4. CASE ReadStatsZip
    BY <1>1, <1>2, <1>4, <1>6, <2>1, <2>4, LineIsSomewhere DEF ReadUndisturbed, ReadStatsZip
  <2>5. CASE ReadOpensZip
    BY <1>1, <1>2, <1>4, <1>6, <2>1, <2>5, LineIsSomewhere
    DEF ReadUndisturbed, ReadOpensZip, Answers
  <2> QED BY <2>2, <2>3, <2>4, <2>5 DEF ReadStep
<1> QED BY <1>5, <1>6

LEMMA ReadStartsKeeps ==
    ASSUME IInv, RowsResolve, NEW r \in rows, ReadStarts(r)
    PROVE  ReadType' /\ ReadUndisturbed'
<1>1. /\ UNCHANGED <<plain, zip, deleting>> /\ rrow' = r /\ rpc' = "statPlain"
      /\ rclean' = Sound(r.bucket) /\ rzipped' = (plain[r.bucket].st = "absent")
  BY DEF ReadStarts, vars
<1>2. ReadType'
  BY <1>1 DEF ReadType, ReadPCs, IInv, TypeOK
<1>3. LineAt(rrow)' = LineAt(r)
  BY <1>1 DEF LineAt, Lines
<1> QED BY <1>1, <1>2, <1>3 DEF ReadUndisturbed, RowsResolve, Sound

LEMMA AroundKeeps ==
    ASSUME IInv, ReadType, ReadUndisturbed, Around
    PROVE  ReadType' /\ ReadUndisturbed'
<1>1. /\ UNCHANGED <<rpc, rrow, rline, rzipped>>
      /\ rclean' = (rclean /\ rrow.bucket \notin deleting')
  BY DEF Around
<1>2. ReadType'
  BY <1>1 DEF ReadType
<1>3. CASE rclean' /\ rpc # "idle"
  <2>1. rclean /\ rrow.bucket \notin deleting
    BY <1>1, <1>3 DEF ReadUndisturbed
  <2>2. LineAt(rrow) = rrow.trace
    BY <1>3, <2>1 DEF ReadUndisturbed
  <2>3. [Next]_vars
    BY DEF Around, Next
  <2>4. LineAt(rrow)' = rrow'.trace
    <3>1. rrow \in Rows
      BY <1>3 DEF ReadType
    <3>2. ASSUME NEW r \in Rows, r = rrow PROVE LineAt(r)' = LineAt(rrow)'
      BY <1>1, <3>2 DEF LineAt
    <3> QED BY <1>1, <2>1, <2>2, <2>3, <3>1, <3>2, ResolvesOn
  <2>5. plain[rrow.bucket].st = "absent" => plain'[rrow.bucket].st = "absent"
    BY <1>3, <2>1, <2>2, <2>3, LineIsSomewhere, CompressedStays
  <2> QED BY <1>1, <1>2, <1>3, <2>1, <2>4, <2>5 DEF ReadUndisturbed
<1> QED BY <1>1, <1>2, <1>3 DEF ReadUndisturbed

LEMMA ReadDiesKeeps ==
    ASSUME IInv, ReadDies
    PROVE  ReadType' /\ ReadUndisturbed'
  BY DEF ReadDies, Crash, L!ForgetLeases, ReadType, ReadPCs, ReadUndisturbed

LEMMA ReadInvStep == IInv /\ ReadInv /\ [ReadNext]_allVars => ReadInv'
<1> SUFFICES ASSUME IInv, ReadInv, [ReadNext]_allVars PROVE ReadInv'
  OBVIOUS
<1>1. WriterAtLine' /\ RowsResolve'
  BY ReadingIsStorage, WriterAtLineStep, RowsResolveStep DEF ReadInv
<1>2. CASE ReadNext
  BY <1>1, <1>2, ReadStepKeeps, ReadStartsKeeps, AroundKeeps, ReadDiesKeeps
  DEF ReadNext, ReadInv
<1>3. CASE UNCHANGED allVars
  <2>1. LineAt(rrow)' = LineAt(rrow)
    BY <1>3 DEF LineAt, Lines, allVars, readVars, vars
  <2>2. ReadType' /\ ReadUndisturbed'
    BY <1>3, <2>1 DEF ReadInv, ReadType, ReadUndisturbed, allVars, readVars, vars
  <2> QED BY <1>1, <2>2 DEF ReadInv
<1> QED BY <1>2, <1>3

LEMMA ReadInvariance == ReadSpec => []ReadInv
  BY ReadKeepsIInv, ReadInvInit, ReadInvStep, PTL DEF ReadSpec

\* Through partial writes, failures, rotation, compression, eviction and restarts a
\* row of the index keeps pointing at the line of its own trace, in every bucket in
\* which no deletion is at work or was cut short (appendOne, compressInPlace,
\* deleteIfIdle).
THEOREM RowsAlwaysResolve == ReadSpec => []RowsResolve
<1>1. ReadInv => RowsResolve
  BY DEF ReadInv
<1> QED BY <1>1, ReadInvariance, PTL

\* GET /api/traces/{id}, which takes no lease, never answers with another trace's
\* line, and fails on a line that is on disk only when the bucket was compressed
\* between its stat and its open (readJSONLLine).
THEOREM ReadsAnswerOwnLine == ReadSpec => []ReadAnswersOwnLine
<1>1. IInv /\ ReadInv => ReadAnswersOwnLine
  <2> SUFFICES ASSUME IInv, ReadInv, rclean PROVE
        /\ rpc = "answered" => rline = rrow.trace
        /\ rpc = "failed" /\ LineAt(rrow) = rrow.trace =>
            ~ rzipped /\ plain[rrow.bucket].st = "absent" /\ zip[rrow.bucket].st = "whole"
    BY DEF ReadAnswersOwnLine
  <2> QED BY LineIsSomewhere DEF ReadInv, ReadUndisturbed
<1> QED BY <1>1, ReadKeepsIInv, ReadInvariance, PTL
=============================================================================
