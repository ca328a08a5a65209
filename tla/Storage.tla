------------------------------ MODULE Storage ------------------------------
(***************************************************************************)
(* The write path and the retention path of api-log around one data        *)
(* directory and one SQLite index.                                         *)
(*                                                                         *)
(*   writer      one goroutine: appends a trace to the JSONL file of its   *)
(*               bucket, then indexes it       (internal/writer/writer.go) *)
(*   gzip worker one goroutine per rotated bucket          (compressInPlace)*)
(*   monitor     one goroutine: walk, reconcile, evict                     *)
(*                          (internal/storage/{monitor,eviction}.go)       *)
(*   exporter    one HTTP handler: rows first, files later                 *)
(*                          (internal/exporter/exporter.go)                *)
(*                                                                         *)
(* They meet in the file system, in the index and in the lease table       *)
(* (Lease.tla).  A step is what one of them does between two points where  *)
(* another may run.                                                        *)
(*                                                                         *)
(* A trace is its number, a line is the trace on it, and an offset is the  *)
(* number of lines before it: the code only compares byte offsets with     *)
(* line starts.  0 is the fragment that a failed write leaves behind; it   *)
(* has no newline, so the next line is glued to it.                        *)
(***************************************************************************)
EXTENDS Naturals, Sequences, FiniteSets

CONSTANTS
    Keys,           \* short key hashes
    MaxDay,         \* UTC days the clock runs through
    MaxTraces,      \* traces the proxy hands to the writer
    MaxExports,     \* exports the viewer asks for
    EvictionCap,    \* files (and orphan paths) a tick may delete
    Faults,         \* the kinds of failure a run admits
    MaxFaults       \* how many failures in all

FaultKinds == {"crash", "open", "write", "index", "gzip", "unlink", "deleteRow"}

ASSUME StorageAssumption ==
    /\ Keys # {}
    /\ MaxDay \in Nat \ {0}
    /\ MaxTraces \in Nat
    /\ MaxExports \in Nat
    /\ EvictionCap \in Nat \ {0}
    /\ Faults \subseteq FaultKinds
    /\ MaxFaults \in Nat

Days == 1..MaxDay
Buckets == Days \X Keys
Day(b) == b[1]
Home == CHOOSE b \in Buckets : TRUE     \* what a bucket variable holds when unused

Traces == 1..MaxTraces
Entries == 0..MaxTraces
Rows == [bucket: Buckets, off: Nat, trace: Traces]

\* A directory entry and the lines behind it.  Only a .gz is ever torn.
Files == [st: {"absent", "torn", "whole"}, lines: Seq(Entries)]
NoFile == [st |-> "absent", lines |-> <<>>]
Torn == [st |-> "torn", lines |-> <<>>]
Whole(s) == [st |-> "whole", lines |-> s]

WriterPCs == {"idle", "rotate", "open", "write", "extract", "index"}
GzipPCs == {"none", "spawned", "leased", "copying", "unlinking"}
MonitorPCs == {"sleep", "list", "scan", "leased", "orphan", "select", "evict",
               "rmPlain", "rmZip", "rmMedia", "rmRows", "unmark"}
ExportPCs == {"idle", "next", "copy"}

VARIABLES
    day, seq,               \* the UTC date; traces taken so far
    wpc, wb, wt, woff,      \* the writer: its step, bucket, trace, offset
    open,                   \* Writer.files: the buckets with an open handle
    detached,               \* open handles whose file was unlinked under them
    gz,                     \* gz[b]: the gzip worker of b
    refs, deleting,         \* the lease table
    mpc, mb, mtodo, mn,     \* the monitor: step, bucket, work list, deletions
    inv,                    \* what the monitor's walk found
    plain, zip, media,      \* on disk: .jsonl, .jsonl.gz, media subtrees
    rows,                   \* the SQLite index
    xpc, xb, xtodo, xleft,  \* the exporter: step, bucket, rows, exports left
    faultsLeft              \* failures still to come

L == INSTANCE Lease

clockVars == <<day, seq>>
writerVars == <<wpc, wb, wt, woff, open, detached>>
tableVars == <<refs, deleting>>
monitorVars == <<mpc, mb, mtodo, mn, inv>>
diskVars == <<plain, zip, media>>
exportVars == <<xpc, xb, xtodo, xleft>>
vars == <<clockVars, writerVars, gz, tableVars, monitorVars, diskVars, rows,
          exportVars, faultsLeft>>

-----------------------------------------------------------------------------
(* What everybody sees on disk. *)

\* FSExists: either form of the bucket's JSONL file is there.
FSExists(b) == plain[b].st # "absent" \/ zip[b].st # "absent"

\* openJSONL and readJSONLLine: the plain file if there is one, else the .gz,
\* which is only readable when its writer finished it.
Lines(b) ==
    IF plain[b].st # "absent" THEN plain[b].lines
    ELSE IF zip[b].st = "whole" THEN zip[b].lines ELSE <<>>

\* The line a row points at.
LineAt(r) == IF r.off < Len(Lines(r.bucket)) THEN Lines(r.bucket)[r.off + 1] ELSE 0

Paths == {r.bucket : r \in rows}

Fails(kind) ==
    /\ kind \in Faults
    /\ faultsLeft > 0
    /\ faultsLeft' = faultsLeft - 1
Succeeds == UNCHANGED faultsLeft

-----------------------------------------------------------------------------
Init ==
    /\ day = 1 /\ seq = 0
    /\ wpc = "idle" /\ wb = Home /\ wt = 0 /\ woff = 0
    /\ open = {} /\ detached = {}
    /\ gz = [b \in Buckets |-> "none"]
    /\ L!NoLeases
    /\ mpc = "sleep" /\ mb = Home /\ mtodo = {} /\ mn = 0 /\ inv = {}
    /\ plain = [b \in Buckets |-> NoFile]
    /\ zip = [b \in Buckets |-> NoFile]
    /\ media = {}
    /\ rows = {}
    /\ xpc = "idle" /\ xb = Home /\ xtodo = {} /\ xleft = MaxExports
    /\ faultsLeft = MaxFaults

Midnight ==
    /\ day < MaxDay
    /\ day' = day + 1
    /\ UNCHANGED <<seq, writerVars, gz, tableVars, monitorVars, diskVars, rows,
                   exportVars, faultsLeft>>

-----------------------------------------------------------------------------
(* The writer: runLoop takes a record, appendOne sees it through.  The date *)
(* is read once, when the record is taken.                                  *)

\* appendOne returns: what it held of the record is gone.
RecordDone == wpc' = "idle" /\ wb' = Home /\ wt' = 0 /\ woff' = 0

WriterTakes(k) ==
    /\ wpc = "idle"
    /\ seq < MaxTraces
    /\ seq' = seq + 1
    /\ wt' = seq + 1
    /\ wb' = <<day, k>>
    /\ wpc' = IF <<day, k>> \in open THEN "write" ELSE "rotate"
    /\ UNCHANGED <<day, woff, open, detached, gz, tableVars, monitorVars, diskVars,
                   rows, exportVars, faultsLeft>>

\* fileFor meets a handle of an earlier date: it lets go of the lease, closes
\* the handle and leaves the compression to a goroutine.
WriterRotates(c) ==
    /\ wpc = "rotate"
    /\ c \in open
    /\ Day(c) < Day(wb)
    /\ open' = open \ {c}
    /\ detached' = detached \ {c}
    /\ L!Release(c)
    /\ gz' = [gz EXCEPT ![c] = "spawned"]
    /\ UNCHANGED <<clockVars, wpc, wb, wt, woff, monitorVars, diskVars, rows,
                   exportVars, faultsLeft>>

RotationDone == \A c \in open : Day(c) >= Day(wb)

\* fileFor takes the lease before it touches the file.  Refused, it returns
\* the error and appendOne drops the record.
WriterAcquires ==
    /\ wpc = "rotate"
    /\ RotationDone
    /\ \/ /\ L!Acquire(wb)
          /\ wpc' = "open"
          /\ UNCHANGED <<wb, wt, woff>>
       \/ /\ L!Refused(wb)
          /\ RecordDone
          /\ UNCHANGED tableVars
    /\ UNCHANGED <<clockVars, open, detached, gz, monitorVars, diskVars, rows,
                   exportVars, faultsLeft>>

\* MUTANT: a failed open keeps the lease.
WriterOpensLeaky ==
    /\ wpc = "open"
    /\ \/ /\ Succeeds
          /\ plain' = [plain EXCEPT ![wb] = IF @.st = "absent" THEN Whole(<<>>) ELSE @]
          /\ open' = open \cup {wb}
          /\ wpc' = "write"
          /\ UNCHANGED <<wb, wt, woff, tableVars>>
       \/ /\ Fails("open")
          /\ RecordDone
          /\ UNCHANGED <<open, plain, tableVars>>
    /\ UNCHANGED <<clockVars, detached, gz, monitorVars, zip, media, rows, exportVars>>

\* OpenFile creates the file or appends to the one that is there.
WriterOpens ==
    /\ wpc = "open"
    /\ \/ /\ Succeeds
          /\ plain' = [plain EXCEPT ![wb] = IF @.st = "absent" THEN Whole(<<>>) ELSE @]
          /\ open' = open \cup {wb}
          /\ wpc' = "write"
          /\ UNCHANGED <<wb, wt, woff, tableVars>>
       \/ /\ Fails("open")
          /\ L!Release(wb)
          /\ RecordDone
          /\ UNCHANGED <<open, plain>>
    /\ UNCHANGED <<clockVars, detached, gz, monitorVars, zip, media, rows, exportVars>>

\* A write through the handle: lost to every reader if the file was unlinked.
WriteThrough(e) ==
    plain' = IF wb \in detached THEN plain
             ELSE [plain EXCEPT ![wb].lines = Append(@, e)]

\* MUTANT: the offset is taken after the write.
WriterWritesThenMeasures ==
    /\ wpc = "write"
    /\ Succeeds
    /\ WriteThrough(wt)
    /\ woff' = IF wb \in detached THEN 0 ELSE Len(plain[wb].lines) + 1
    /\ wpc' = "extract"
    /\ UNCHANGED <<clockVars, wb, wt, open, detached, gz, tableVars, monitorVars, zip,
                   media, rows, exportVars>>

\* The offset is the size before the write.  A failed write may leave part of
\* a line; the record is dropped and the handle stays open.
WriterWrites ==
    /\ wpc = "write"
    /\ \/ /\ Succeeds
          /\ WriteThrough(wt)
          /\ woff' = IF wb \in detached THEN 0 ELSE Len(plain[wb].lines)
          /\ wpc' = "extract"
          /\ UNCHANGED <<wb, wt>>
       \/ /\ Fails("write")
          /\ WriteThrough(0) \/ UNCHANGED plain
          /\ RecordDone
    /\ UNCHANGED <<clockVars, open, detached, gz, tableVars, monitorVars, zip, media,
                   rows, exportVars>>

\* Media extraction is best effort: it may or may not leave files behind.
WriterExtracts ==
    /\ wpc = "extract"
    /\ media' \in {media, media \cup {wb}}
    /\ wpc' = "index"
    /\ UNCHANGED <<clockVars, wb, wt, woff, open, detached, gz, tableVars, monitorVars,
                   plain, zip, rows, exportVars, faultsLeft>>

\* AppendTrace inserts the row, or fails and leaves the line without one.
WriterIndexes ==
    /\ wpc = "index"
    /\ \/ /\ Succeeds
          /\ rows' = rows \cup {[bucket |-> wb, off |-> woff, trace |-> wt]}
       \/ /\ Fails("index")
          /\ UNCHANGED rows
    /\ RecordDone
    /\ UNCHANGED <<clockVars, open, detached, gz, tableVars, monitorVars, diskVars,
                   exportVars>>

\* idleSweep lets go of a quiet handle.  Nothing is compressed.
IdleCloses(c) ==
    /\ wpc = "idle"
    /\ c \in open
    /\ open' = open \ {c}
    /\ detached' = detached \ {c}
    /\ L!Release(c)
    /\ UNCHANGED <<clockVars, wpc, wb, wt, woff, gz, monitorVars, diskVars, rows,
                   exportVars, faultsLeft>>

-----------------------------------------------------------------------------
(* compressInPlace, one worker per rotated bucket. *)

GzipFrame == UNCHANGED <<clockVars, writerVars, monitorVars, media, rows, exportVars>>

GzipReleases(b) == L!Release(b) /\ gz' = [gz EXCEPT ![b] = "none"]

GzipAcquires(b) ==
    /\ gz[b] = "spawned"
    /\ \/ /\ L!Acquire(b)
          /\ gz' = [gz EXCEPT ![b] = "leased"]
       \/ /\ L!Refused(b)
          /\ gz' = [gz EXCEPT ![b] = "none"]
          /\ UNCHANGED tableVars
    /\ Succeeds
    /\ UNCHANGED <<plain, zip>>
    /\ GzipFrame

\* Open the plain file and create, or truncate, its .gz.
GzipOpens(b) ==
    /\ gz[b] = "leased"
    /\ \/ /\ Succeeds
          /\ plain[b].st # "absent"
          /\ zip' = [zip EXCEPT ![b] = Torn]
          /\ gz' = [gz EXCEPT ![b] = "copying"]
          /\ UNCHANGED tableVars
       \/ /\ \/ plain[b].st = "absent" /\ Succeeds
             \/ Fails("gzip")
          /\ GzipReleases(b)
          /\ UNCHANGED zip
    /\ UNCHANGED plain
    /\ GzipFrame

\* MUTANT: nobody looks at the error of the copy or of the close.
GzipCopiesUnchecked(b) ==
    /\ gz[b] = "copying"
    /\ \/ Succeeds /\ zip' = [zip EXCEPT ![b] = Whole(plain[b].lines)]
       \/ Fails("gzip") /\ UNCHANGED zip
    /\ gz' = [gz EXCEPT ![b] = "unlinking"]
    /\ UNCHANGED <<tableVars, plain>>
    /\ GzipFrame

\* Copy and close; when either fails the .gz is taken away again.
GzipCopies(b) ==
    /\ gz[b] = "copying"
    /\ \/ /\ Succeeds
          /\ zip' = [zip EXCEPT ![b] = Whole(plain[b].lines)]
          /\ gz' = [gz EXCEPT ![b] = "unlinking"]
          /\ UNCHANGED tableVars
       \/ /\ Fails("gzip")
          /\ zip' = [zip EXCEPT ![b] = NoFile]
          /\ GzipReleases(b)
    /\ UNCHANGED plain
    /\ GzipFrame

\* Remove the plain file; a failure leaves both forms.
GzipUnlinks(b) ==
    /\ gz[b] = "unlinking"
    /\ \/ /\ Succeeds
          /\ plain' = [plain EXCEPT ![b] = NoFile]
       \/ /\ Fails("unlink")
          /\ UNCHANGED plain
    /\ GzipReleases(b)
    /\ UNCHANGED zip
    /\ GzipFrame

-----------------------------------------------------------------------------
(* The monitor: runTick walks the data directory, reconciles orphan rows    *)
(* and evicts.  Which of the walked buckets the retention policy condemns   *)
(* is left open here.                                                       *)

MonitorFrame == UNCHANGED <<clockVars, wpc, wb, wt, woff, open, gz, exportVars>>
NoDisk == UNCHANGED <<diskVars, detached>>

MonitorWalks ==
    /\ mpc = "sleep"
    /\ inv' = {b \in Buckets : FSExists(b) \/ b \in media}
    /\ mpc' = "list"
    /\ UNCHANGED <<mb, mtodo, mn, tableVars, rows, faultsLeft>>
    /\ NoDisk
    /\ MonitorFrame

\* reconcileOrphans starts from the paths the index knows.
MonitorLists ==
    /\ mpc = "list"
    /\ mtodo' = Paths
    /\ mn' = 0
    /\ mpc' = "scan"
    /\ UNCHANGED <<mb, inv, tableVars, rows, faultsLeft>>
    /\ NoDisk
    /\ MonitorFrame

\* Stat the next path: one that is there is no orphan.
MonitorStats(b) ==
    /\ mpc = "scan"
    /\ b \in mtodo
    /\ mn < EvictionCap
    /\ mtodo' = mtodo \ {b}
    /\ IF FSExists(b) THEN UNCHANGED <<mpc, mb>> ELSE mpc' = "leased" /\ mb' = b
    /\ UNCHANGED <<mn, inv, tableVars, rows, faultsLeft>>
    /\ NoDisk
    /\ MonitorFrame

\* A lease means that a writer is about to create the file.
MonitorAsksLease ==
    /\ mpc = "leased"
    /\ IF L!IsLeased(mb) THEN mpc' = "scan" /\ mb' = Home
       ELSE mpc' = "orphan" /\ UNCHANGED mb
    /\ UNCHANGED <<mtodo, mn, inv, tableVars, rows, faultsLeft>>
    /\ NoDisk
    /\ MonitorFrame

DropRows(b) == rows' = {r \in rows : r.bucket # b}

\* MUTANT: the reconciliation is left out.
MonitorKeepsOrphan ==
    /\ mpc = "orphan"
    /\ Succeeds
    /\ mpc' = "scan"
    /\ mb' = Home
    /\ mn' = mn + 1
    /\ UNCHANGED <<mtodo, inv, tableVars, rows>>
    /\ NoDisk
    /\ MonitorFrame

\* The rows of the path go, without the delete mark.
MonitorDropsOrphan ==
    /\ mpc = "orphan"
    /\ \/ Succeeds /\ DropRows(mb) /\ mn' = mn + 1
       \/ Fails("deleteRow") /\ UNCHANGED <<rows, mn>>
    /\ mpc' = "scan"
    /\ mb' = Home
    /\ UNCHANGED <<mtodo, inv, tableVars>>
    /\ NoDisk
    /\ MonitorFrame

WorkDone == mtodo = {} \/ mn = EvictionCap

MonitorScanned ==
    /\ mpc = "scan"
    /\ WorkDone
    /\ mpc' = "select"
    /\ mtodo' = {}
    /\ mn' = 0
    /\ UNCHANGED <<mb, inv, tableVars, rows, faultsLeft>>
    /\ NoDisk
    /\ MonitorFrame

\* The first pass of runEviction condemns some of what the walk found.
MonitorSelects ==
    /\ mpc = "select"
    /\ mtodo' \in SUBSET inv
    /\ inv' = {}
    /\ mpc' = "evict"
    /\ UNCHANGED <<mb, mn, tableVars, rows, faultsLeft>>
    /\ NoDisk
    /\ MonitorFrame

\* The second pass: deleteIfIdle marks a bucket, or skips one in use.
MonitorMarks(b) ==
    /\ mpc = "evict"
    /\ b \in mtodo
    /\ mn < EvictionCap
    /\ mtodo' = mtodo \ {b}
    /\ \/ /\ L!MarkDeleting(b)
          /\ mpc' = "rmPlain"
          /\ mb' = b
       \/ /\ L!MarkRefused(b)
          /\ UNCHANGED <<mpc, mb, tableVars>>
    /\ UNCHANGED <<mn, inv, rows, faultsLeft>>
    /\ NoDisk
    /\ MonitorFrame

\* Remove the plain form.  A handle that is still open loses its file.
MonitorRemovesPlain ==
    /\ mpc = "rmPlain"
    /\ \/ /\ Succeeds
          /\ plain' = [plain EXCEPT ![mb] = NoFile]
          /\ detached' = detached \cup ({mb} \cap open)
          /\ mpc' = "rmZip"
       \/ /\ Fails("unlink")
          /\ mpc' = "unmark"
          /\ UNCHANGED <<plain, detached>>
    /\ UNCHANGED <<mb, mtodo, mn, inv, tableVars, zip, media, rows>>
    /\ MonitorFrame

MonitorRemovesZip ==
    /\ mpc = "rmZip"
    /\ \/ Succeeds /\ zip' = [zip EXCEPT ![mb] = NoFile] /\ mpc' = "rmMedia"
       \/ Fails("unlink") /\ mpc' = "unmark" /\ UNCHANGED zip
    /\ UNCHANGED <<mb, mtodo, mn, inv, tableVars, plain, media, detached, rows>>
    /\ MonitorFrame

\* A failure to remove the media is logged and forgotten.
MonitorRemovesMedia ==
    /\ mpc = "rmMedia"
    /\ \/ Succeeds /\ media' = media \ {mb}
       \/ Fails("unlink") /\ UNCHANGED media
    /\ mpc' = "rmRows"
    /\ UNCHANGED <<mb, mtodo, mn, inv, tableVars, plain, zip, detached, rows>>
    /\ MonitorFrame

MonitorRemovesRows ==
    /\ mpc = "rmRows"
    /\ \/ Succeeds /\ DropRows(mb) /\ mn' = mn + 1
       \/ Fails("deleteRow") /\ UNCHANGED <<rows, mn>>
    /\ mpc' = "unmark"
    /\ UNCHANGED <<mb, mtodo, inv, tableVars>>
    /\ NoDisk
    /\ MonitorFrame

\* The deferred unmarkDeleting, on every way out of deleteIfIdle.
MonitorUnmarks ==
    /\ mpc = "unmark"
    /\ L!UnmarkDeleting(mb)
    /\ mpc' = "evict"
    /\ mb' = Home
    /\ UNCHANGED <<mtodo, mn, inv, rows, faultsLeft>>
    /\ NoDisk
    /\ MonitorFrame

MonitorFinishes ==
    /\ mpc = "evict"
    /\ WorkDone
    /\ mpc' = "sleep"
    /\ mtodo' = {}
    /\ mn' = 0
    /\ UNCHANGED <<mb, inv, tableVars, rows, faultsLeft>>
    /\ NoDisk
    /\ MonitorFrame

-----------------------------------------------------------------------------
(* The exporter: WriteZip reads every row first and the files afterwards,   *)
(* each group of rows under the lease of its bucket.                        *)

ExportFrame ==
    UNCHANGED <<clockVars, writerVars, gz, monitorVars, diskVars, rows, faultsLeft>>

Group(b) == {r \in xtodo : r.bucket = b}

ExportStarts ==
    /\ xpc = "idle"
    /\ xleft > 0
    /\ xleft' = xleft - 1
    /\ xtodo' = rows
    /\ xpc' = "next"
    /\ UNCHANGED <<xb, tableVars>>
    /\ ExportFrame

\* A bucket that is being deleted is skipped.
ExportAcquires(b) ==
    /\ xpc = "next"
    /\ Group(b) # {}
    /\ \/ /\ L!Acquire(b)
          /\ xb' = b
          /\ xpc' = "copy"
          /\ UNCHANGED xtodo
       \/ /\ L!Refused(b)
          /\ xtodo' = xtodo \ Group(b)
          /\ UNCHANGED <<xpc, xb, tableVars>>
    /\ UNCHANGED xleft
    /\ ExportFrame

\* A walk of the file by newlines meets a line at this offset.
StartsLine(b, off) == off < Len(Lines(b)) /\ (off = 0 \/ Lines(b)[off] # 0)

\* The lines copied: those the walk meets at an offset of the group.
Copied(b) == {LineAt(r) : r \in {q \in Group(b) : StartsLine(b, q.off)}}

\* writeGroupEntry copies the matching lines; without a readable file it
\* fails and the export ends there.
ExportCopies ==
    /\ xpc = "copy"
    /\ L!Release(xb)
    /\ xb' = Home
    /\ IF plain[xb].st # "absent" \/ zip[xb].st = "whole"
       THEN xtodo' = xtodo \ Group(xb) /\ xpc' = "next"
       ELSE xtodo' = {} /\ xpc' = "idle"
    /\ UNCHANGED xleft
    /\ ExportFrame

ExportEnds ==
    /\ xpc = "next"
    /\ xtodo = {}
    /\ xpc' = "idle"
    /\ UNCHANGED <<xb, xtodo, xleft, tableVars>>
    /\ ExportFrame

-----------------------------------------------------------------------------
(* The process dies and is started again: what is on disk stays, torn files *)
(* included, and nothing else does.  Startup reads no JSONL file.           *)
Crash ==
    /\ Fails("crash")
    /\ RecordDone
    /\ open' = {} /\ detached' = {}
    /\ gz' = [b \in Buckets |-> "none"]
    /\ L!ForgetLeases
    /\ mpc' = "sleep" /\ mb' = Home /\ mtodo' = {} /\ mn' = 0 /\ inv' = {}
    /\ xpc' = "idle" /\ xb' = Home /\ xtodo' = {}
    /\ UNCHANGED <<clockVars, diskVars, rows, xleft>>

WriterStep ==
    \/ \E c \in Buckets : WriterRotates(c)
    \/ WriterAcquires
    \/ WriterOpens
    \/ WriterWrites
    \/ WriterExtracts
    \/ WriterIndexes

GzipStep(b) == GzipAcquires(b) \/ GzipOpens(b) \/ GzipCopies(b) \/ GzipUnlinks(b)

MonitorStep ==
    \/ MonitorWalks
    \/ MonitorLists
    \/ \E b \in Buckets : MonitorStats(b) \/ MonitorMarks(b)
    \/ MonitorAsksLease
    \/ MonitorDropsOrphan
    \/ MonitorScanned
    \/ MonitorSelects
    \/ MonitorRemovesPlain
    \/ MonitorRemovesZip
    \/ MonitorRemovesMedia
    \/ MonitorRemovesRows
    \/ MonitorUnmarks
    \/ MonitorFinishes

ExportStep ==
    \/ \E b \in Buckets : ExportAcquires(b)
    \/ ExportCopies
    \/ ExportEnds

Work ==
    \/ Midnight
    \/ \E k \in Keys : WriterTakes(k)
    \/ WriterStep
    \/ \E b \in Buckets : IdleCloses(b) \/ GzipStep(b)
    \/ MonitorStep
    \/ ExportStarts
    \/ ExportStep

Next == Work \/ Crash

Spec == Init /\ [][Next]_vars

(* Goroutines that can run do run, and the tickers of the monitor and of    *)
(* the idle sweep keep firing.  Nothing makes traffic, midnight, an export  *)
(* request or a failure come.                                               *)
Fairness ==
    /\ WF_vars(WriterStep)
    /\ WF_vars(MonitorStep)
    /\ WF_vars(ExportStep)
    /\ \A b \in Buckets : WF_vars(IdleCloses(b)) /\ WF_vars(GzipStep(b))

FairSpec == Spec /\ Fairness

-----------------------------------------------------------------------------
(* Properties. *)

\* The steps at which the monitor is busy with one path of its work list.
OnePath == {"leased", "orphan", "rmPlain", "rmZip", "rmMedia", "rmRows"}

TypeOK ==
    /\ day \in Days /\ seq \in 0..MaxTraces
    /\ wpc \in WriterPCs /\ wb \in Buckets /\ woff \in Nat
    /\ wt \in IF wpc = "idle" THEN {0} ELSE Traces
    /\ open \subseteq Buckets /\ detached \subseteq Buckets
    /\ gz \in [Buckets -> GzipPCs]
    /\ L!TableType
    /\ mpc \in MonitorPCs /\ mb \in Buckets /\ mtodo \subseteq Buckets
    /\ mn \in 0..EvictionCap /\ inv \subseteq Buckets
    /\ mpc \in OnePath => mn < EvictionCap
    /\ plain \in [Buckets -> Files] /\ zip \in [Buckets -> Files]
    /\ media \subseteq Buckets
    /\ rows \subseteq Rows
    /\ xpc \in ExportPCs /\ xb \in Buckets /\ xtodo \subseteq Rows
    /\ xleft \in 0..MaxExports
    /\ faultsLeft \in 0..MaxFaults

WriterHolds(b) == b \in open \/ (wpc = "open" /\ wb = b)
GzipHolds(b) == gz[b] \in {"leased", "copying", "unlinking"}
ExportHolds(b) == xpc = "copy" /\ xb = b

Count(held) == IF held THEN 1 ELSE 0

\* The table counts exactly the goroutines that hold a lease: none is leaked
\* on an early return, none is given back twice.
LeaseAccounting ==
    \A b \in Buckets :
        refs[b] = Count(WriterHolds(b)) + Count(GzipHolds(b)) + Count(ExportHolds(b))

\* While deleteIfIdle is at work on a bucket nobody has its files open.
DeleteExclusion ==
    \A b \in deleting : ~ WriterHolds(b) /\ ~ GzipHolds(b) /\ ~ ExportHolds(b)

\* The mark belongs to the deletion in progress, and to nothing else.
MarkOwned ==
    deleting = IF mpc \in {"rmPlain", "rmZip", "rmMedia", "rmRows", "unmark"}
               THEN {mb} ELSE {}

\* No open handle writes into a file that was unlinked.
NoDetachedHandle == detached = {}

\* Whoever uses a bucket holds one lease on it, and is alone with it or with
\* other users: no lease is leaked or given back twice, and no file that is
\* open is removed (Lease, deleteIfIdle).
LeasesSafe == LeaseAccounting /\ DeleteExclusion /\ NoDetachedHandle

\* A handle stands for a file, and the writer works through a handle it has.
HandlesBacked ==
    /\ \A b \in open : plain[b].st = "whole"
    /\ wpc \in {"rotate", "open"} => wb \notin open
    /\ wpc \in {"write", "extract", "index"} => wb \in open
    /\ wpc # "idle" => Day(wb) <= day
    /\ \A b \in open : Day(b) <= day

\* A bucket is compressed only when the writer will not come back to it.
CompressedIsPast ==
    \A b \in Buckets :
        gz[b] # "none" \/ zip[b].st # "absent" =>
            /\ Day(b) < day
            /\ wpc # "idle" => Day(b) < Day(wb)
            /\ b \notin open

\* The two forms of a bucket agree whenever both can be read, and a worker
\* that is about to unlink the plain form has finished the other one.
FormsAgree ==
    \A b \in Buckets :
        /\ plain[b].st # "torn"
        /\ plain[b].st = "absent" => plain[b].lines = <<>>
        /\ zip[b].st # "whole" => zip[b].lines = <<>>
        /\ gz[b] \in {"copying", "unlinking"} => plain[b].st = "whole"
        /\ gz[b] = "unlinking" => zip[b].st = "whole"
        /\ plain[b].st = "whole" /\ zip[b].st = "whole" => zip[b].lines = plain[b].lines

\* The inductive invariant behind the theorems of StorageProofs.
IInv ==
    /\ TypeOK
    /\ LeaseAccounting
    /\ DeleteExclusion
    /\ MarkOwned
    /\ NoDetachedHandle
    /\ HandlesBacked
    /\ CompressedIsPast
    /\ FormsAgree

\* Storage through the eyes of BucketLog: who uses a bucket, and what a
\* reader finds in it.
Clients == {"writer", "gzip", "export"}
Holds(c, b) ==
    \/ c = "writer" /\ WriterHolds(b)
    \/ c = "gzip" /\ GzipHolds(b)
    \/ c = "export" /\ ExportHolds(b)
Logs == [b \in Buckets |-> Lines(b)]
UserSets == [b \in Buckets |-> {c \in Clients : Holds(c, b)}]

Promise == INSTANCE BucketLog WITH
    log <- Logs, users <- UserSets, removing <- deleting

\* Rotation, compression, idle close, exports, failures and crashes never
\* change what a reader of a bucket finds, except by appending to it; only
\* an eviction that has the bucket to itself takes lines away.
KeepsPromise == Promise!Spec

\* Every lease is given back and every delete mark taken off in the end, so
\* that no bucket is kept from eviction, or from the writer, for good.
LeaseTableClears ==
    \A b \in Buckets :
        /\ refs[b] > 0 ~> refs[b] = 0
        /\ b \in deleting ~> b \notin deleting

\* A row whose file is gone does not stay alone: reconcileOrphans removes it,
\* unless the writer creates the file again.
Orphaned(b) == b \in Paths /\ ~ FSExists(b)
OrphansReconciled == \A b \in Buckets : Orphaned(b) ~> ~ Orphaned(b)

(* What comments of the code say, and the code does not do. *)

\* monitor.go:134-138: thanks to the fresh stat and the look at the leases,
\* reconcileOrphans does not delete rows of a file that exists.
ReconcileSparesLiveRows ==
    [][mpc = "orphan" /\ rows' # rows => ~ FSExists(mb)]_vars

\* eviction.go:180-182: rows left over from a deletion that failed half way are
\* reconciled by the next monitor tick.
Stale(r) == r \in rows /\ LineAt(r) # r.trace
LeftoverRowsReconciled ==
    \A b \in Buckets, i \in 0..MaxTraces, t \in Traces :
        LET r == [bucket |-> b, off |-> i, trace |-> t] IN Stale(r) ~> ~ Stale(r)

\* writer.go:266-270 and ARCHITECTURE.md:64: once the writer has moved on to a
\* later date, the files of earlier dates are compressed, those whose handle
\* was closed for being idle included.
PastBucketsCompressed ==
    \A b \in Buckets :
        plain[b].st # "absent" /\ (\E c \in open : Day(c) > Day(b))
            ~> plain[b].st = "absent"

\* writer.go:407-409: a startup rebuild recovers the rows that could not be
\* inserted.
Unindexed(b) ==
    {i \in 1..Len(Lines(b)) :
        /\ Lines(b)[i] # 0
        /\ \A r \in rows : ~ (r.bucket = b /\ r.off = i - 1)}
StartupRebuildsIndex == [][Crash => \A b \in Buckets : Unindexed(b)' = {}]_vars

\* exporter.go:394-396: an entry of the archive contains only lines of rows
\* that matched.
ExportOnlyMatching ==
    xpc = "copy" => Copied(xb) \subseteq {r.trace : r \in Group(xb)}

\* writer.go:315-316: the offset of a row is where its line begins, so that
\* the walk of an export and the seek of the API find the same line.
RowsStartLines == \A r \in rows : LineAt(r) = r.trace => StartsLine(r.bucket, r.off)
=============================================================================
