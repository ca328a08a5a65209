----------------------------- MODULE TraceRead -----------------------------
(***************************************************************************)
(* GET /api/traces/{id} against a running Storage: internal/api/traces.go  *)
(* reads the row, then readJSONLLine (internal/api/jsonlread.go) looks for *)
(* the file, opens it and reads one line.  It takes no lease, so every     *)
(* look at the file system is a step of its own.                           *)
(***************************************************************************)
EXTENDS Storage

CONSTANT MaxReads       \* requests the viewer makes

ASSUME ReadAssumption == MaxReads \in Nat

VARIABLES
    rpc,                \* the step of the handler, or how it ended
    rrow,               \* the row it serves
    rline,              \* the line it answered with
    rleft,              \* requests still to come
    cut,                \* history: buckets with a deletion that left rows behind
    rclean,             \* history: no deletion at work on the bucket, none cut short
    rzipped             \* history: its bucket was compressed already

readVars == <<rpc, rrow, rline, rleft, cut, rclean, rzipped>>
allVars == <<vars, readVars>>

NoRow == [bucket |-> Home, off |-> 0, trace |-> 1]
ReadPCs == {"idle", "statPlain", "openPlain", "statZip", "openZip", "answered", "failed"}

ReadInit ==
    /\ Init
    /\ rpc = "idle" /\ rrow = NoRow /\ rline = 0
    /\ rleft = MaxReads /\ cut = {} /\ rclean = TRUE /\ rzipped = FALSE

ReadFrame == UNCHANGED <<vars, rrow, rleft, cut, rclean, rzipped>>

\* GetByID.  A row may be a leftover of a deletion that was cut short.
Sound(b) == b \notin deleting \cup cut
ReadStarts(r) ==
    /\ rpc \in {"idle", "answered", "failed"}
    /\ rleft > 0
    /\ rleft' = rleft - 1
    /\ rrow' = r
    /\ rline' = 0
    /\ rclean' = Sound(r.bucket)
    /\ rzipped' = (plain[r.bucket].st = "absent")
    /\ rpc' = "statPlain"
    /\ UNCHANGED <<vars, cut>>

\* MUTANT: the plain file or nothing.
ReadStatsPlainOnly ==
    /\ rpc = "statPlain"
    /\ rpc' = IF plain[rrow.bucket].st # "absent" THEN "openPlain" ELSE "failed"
    /\ UNCHANGED rline
    /\ ReadFrame

ReadStatsPlain ==
    /\ rpc = "statPlain"
    /\ rpc' = IF plain[rrow.bucket].st # "absent" THEN "openPlain" ELSE "statZip"
    /\ UNCHANGED rline
    /\ ReadFrame

\* One line of the opened file; an offset past the end is an error.
Answers(s) ==
    IF rrow.off < Len(s) THEN rpc' = "answered" /\ rline' = s[rrow.off + 1]
    ELSE rpc' = "failed" /\ UNCHANGED rline

ReadOpensPlain ==
    /\ rpc = "openPlain"
    /\ IF plain[rrow.bucket].st # "absent" THEN Answers(plain[rrow.bucket].lines)
       ELSE rpc' = "failed" /\ UNCHANGED rline
    /\ ReadFrame

ReadStatsZip ==
    /\ rpc = "statZip"
    /\ rpc' = IF zip[rrow.bucket].st # "absent" THEN "openZip" ELSE "failed"
    /\ UNCHANGED rline
    /\ ReadFrame

ReadOpensZip ==
    /\ rpc = "openZip"
    /\ IF zip[rrow.bucket].st = "whole" THEN Answers(zip[rrow.bucket].lines)
       ELSE rpc' = "failed" /\ UNCHANGED rline
    /\ ReadFrame

ReadStep ==
    \/ ReadStatsPlain
    \/ ReadOpensPlain
    \/ ReadStatsZip
    \/ ReadOpensZip

\* A deletion ends, and rows of its bucket are still there.
CutsShort == cut' = cut \cup ((deleting \ deleting') \cap Paths')

\* A step of the rest of the system.
Around ==
    /\ Work
    /\ CutsShort
    /\ rclean' = (rclean /\ rrow.bucket \notin deleting')
    /\ UNCHANGED <<rpc, rrow, rline, rleft, rzipped>>

\* The handler dies with its process.
ReadDies ==
    /\ Crash
    /\ CutsShort
    /\ rpc' = "idle"
    /\ rrow' = NoRow
    /\ UNCHANGED <<rline, rleft, rclean, rzipped>>

ReadNext == ReadStep \/ Around \/ ReadDies \/ \E r \in rows : ReadStarts(r)

ReadSpec == ReadInit /\ [][ReadNext]_allVars

-----------------------------------------------------------------------------
\* Every row points at its own line, through partial writes, rotation,
\* compression, eviction and restarts, as long as no deletion was cut short.
RowsResolve == \A r \in rows : Sound(r.bucket) => LineAt(r) = r.trace

\* Whatever rotation and compression do meanwhile, a read of a bucket that no
\* deletion works on answers with the line of its trace.  It fails on a line that
\* is on disk only if the bucket was compressed under it, and the next read of
\* the row finds the line (readJSONLLine).
ReadAnswersOwnLine ==
    rclean =>
        /\ rpc = "answered" => rline = rrow.trace
        /\ rpc = "failed" /\ LineAt(rrow) = rrow.trace =>
            ~ rzipped /\ plain[rrow.bucket].st = "absent" /\ zip[rrow.bucket].st = "whole"

(* What comments of the code say, and the code does not do. *)

\* jsonlread.go:23-25 and ARCHITECTURE.md:821: the read finds the line in the
\* plain file or in the .gz, so it does not fail while the line is on disk.
ReadFindsLine == rpc = "failed" /\ rclean => LineAt(rrow) # rrow.trace
=============================================================================
