------------------------------ MODULE Capture ------------------------------
(***************************************************************************)
(* One proxied request and its capture, from the accept to the record that *)
(* is handed to the writer:                                                *)
(*                                                                         *)
(*   handler   proxyHandler of cmd/api-log/main.go, and inside it          *)
(*             httputil.ReverseProxy copying the response                  *)
(*   uploader  the goroutine of http.Transport that reads the request body *)
(*   drainers  one per direction          (internal/capture/drain.go)      *)
(*   watchdog  the stream-idle timer      (internal/proxy/watchdog.go)     *)
(*                                                                         *)
(* The tees of internal/proxy/transport.go hand every chunk to a Sink,     *)
(* which sends it on a bounded channel or drops it.  A byte is the number  *)
(* of the chunk it came in: chunk n of length l is n repeated l times.     *)
(*                                                                         *)
(* A send on a closed channel is a Go panic in a goroutine without recover:*)
(* the process is gone, and nothing happens any more.                      *)
(***************************************************************************)
EXTENDS Naturals, Sequences, FiniteSetsExt

CONSTANTS
    MaxChunks,      \* MaxChunks[d]: chunks in direction d
    ChunkLens,      \* ChunkLens[d]: their possible lengths
    ChanSize,       \* Storage.CaptureChanSize
    MaxBody,        \* Storage.MaxBodyBytes
    Streams,        \* may the response be a text/event-stream?
    Faults          \* what may go wrong

FaultKinds == {"dial", "upstream", "client", "idle", "disk", "busy"}

Dirs == {"req", "resp"}

ASSUME CaptureAssumption ==
    /\ MaxChunks \in [Dirs -> Nat \ {0}]
    /\ ChunkLens \in [Dirs -> SUBSET (Nat \ {0})]
    /\ ChanSize \in Nat \ {0}
    /\ MaxBody \in Nat \ {0}
    /\ Streams \subseteq BOOLEAN /\ Streams # {}
    /\ Faults \subseteq FaultKinds

ChunkIds == 1..Max({MaxChunks[d] : d \in Dirs})
Bytes(n, l) == [i \in 1..l |-> n]
Chunks == {Bytes(n, l) : n \in ChunkIds, l \in ChunkLens["req"] \cup ChunkLens["resp"]}
NoRecord == [status |-> "none"]

HandlerPCs == {"start", "chain", "round", "copy", "write", "stop", "close", "joinReq",
               "joinResp", "build", "done", "aborted"}
Open == {"round", "copy", "write"}  \* the handler is inside ReverseProxy
Over == {"done", "aborted"}

VARIABLES
    hpc,                    \* the handler
    sent,                   \* sent[d]: chunks that came in direction d
    wire,                   \* wire[d]: the bytes the tee of d let through
    queue, closed,          \* the capture channels
    dropped,                \* dropped[d]: a Sink found its channel full
    dpc,                    \* dpc[d]: the drainer of d
    file, timings,          \* its tmp file; ChunkTimings, [off, at] each
    trunc, halted, diskErr, \* Drain's truncated, stopped and writeErr
    upc, upheld,            \* the uploader and the chunk in its hands
    armed, firing,          \* the timer; its function has been started
    fired, wstopped,        \* the watchdog's two flags
    cancelled, left,        \* the request context is; the client is gone
    status,                 \* what the client was told
    sse,                    \* the response is an event stream that decodes
    complete, marked,       \* it came to its end; in this chunk a terminator did
    tmp,                    \* the two tmp files are there
    rec,                    \* the trace handed to the writer
    panicked

netVars == <<sent, wire>>
chanVars == <<queue, closed, dropped>>
drainVars == <<dpc, file, timings, trunc, halted, diskErr>>
upVars == <<upc, upheld>>
dogVars == <<armed, firing, fired, wstopped>>
ctxVars == <<cancelled, left>>
respVars == <<status, sse, complete, marked>>
vars == <<hpc, netVars, chanVars, drainVars, upVars, dogVars, ctxVars, respVars,
          tmp, rec, panicked>>

Init ==
    /\ hpc = "start"
    /\ sent = [d \in Dirs |-> 0] /\ wire = [d \in Dirs |-> <<>>]
    /\ queue = [d \in Dirs |-> <<>>]
    /\ closed = [d \in Dirs |-> FALSE] /\ dropped = [d \in Dirs |-> FALSE]
    /\ dpc = [d \in Dirs |-> "none"]
    /\ file = [d \in Dirs |-> <<>>] /\ timings = [d \in Dirs |-> <<>>]
    /\ trunc = [d \in Dirs |-> FALSE] /\ halted = [d \in Dirs |-> FALSE]
    /\ diskErr = [d \in Dirs |-> FALSE]
    /\ upc = "none" /\ upheld = <<>>
    /\ armed = FALSE /\ firing = FALSE /\ fired = FALSE /\ wstopped = FALSE
    /\ cancelled = FALSE /\ left = FALSE
    /\ status = "none" /\ sse = FALSE /\ complete = FALSE /\ marked = 0
    /\ tmp = FALSE /\ rec = NoRecord /\ panicked = FALSE

-----------------------------------------------------------------------------
(* Sink.Write: send without blocking, or drop. *)

SinkWrites(d, c) ==
    /\ wire' = [wire EXCEPT ![d] = @ \o c]
    /\ IF Len(queue[d]) < ChanSize
       THEN queue' = [queue EXCEPT ![d] = Append(@, c)] /\ UNCHANGED dropped
       ELSE dropped' = [dropped EXCEPT ![d] = TRUE] /\ UNCHANGED queue
    /\ UNCHANGED closed

\* Pulse re-arms the timer, and does nothing after Stop or once it fired.
Pulses == armed' = (armed \/ ~ (wstopped \/ fired))

-----------------------------------------------------------------------------
(* The handler. *)

\* capture_filter matches, or the tmp files cannot be made: no trace.
Untraced ==
    /\ hpc = "start"
    /\ hpc' = "done"
    /\ UNCHANGED <<netVars, chanVars, drainVars, upVars, dogVars, ctxVars, respVars,
                   tmp, rec, panicked>>

\* startTrace: tmp files, channels, drainers; then the watchdog.
StartTrace ==
    /\ hpc = "start"
    /\ hpc' = "chain"
    /\ tmp' = TRUE
    /\ dpc' = [d \in Dirs |-> "drain"]
    /\ armed' = TRUE
    /\ UNCHANGED <<netVars, chanVars, file, timings, trunc, halted, diskErr, upVars,
                   firing, fired, wstopped, ctxVars, respVars, rec, panicked>>

\* A BEFORE plugin answers in place of the upstream: serveIntercept writes
\* its reply straight to the client.
Intercepts(l) ==
    /\ hpc = "chain"
    /\ hpc' = "stop"
    /\ status' = "plugin"
    /\ complete' = TRUE
    /\ sent' = [sent EXCEPT !["resp"] = 1]
    /\ wire' = [wire EXCEPT !["resp"] = Bytes(1, l)]
    /\ UNCHANGED <<chanVars, drainVars, upVars, dogVars, ctxVars, sse, marked, tmp, rec,
                   panicked>>

\* ReverseProxy calls RoundTrip; a request with a body gets an uploader.
Forwards ==
    /\ hpc = "chain"
    /\ hpc' = "round"
    /\ upc' \in {"none", "read"}
    /\ UNCHANGED <<netVars, chanVars, drainVars, upheld, dogVars, ctxVars, respVars,
                   tmp, rec, panicked>>

\* The upstream may answer before it has read the whole request.
RoundTripReturns ==
    /\ hpc = "round"
    /\ hpc' = "copy"
    /\ status' = "upstream"
    /\ sse' \in Streams
    /\ UNCHANGED <<netVars, chanVars, drainVars, upVars, dogVars, ctxVars, complete, marked,
                   tmp, rec, panicked>>

\* No answer: errorHandler replies 502.
RoundTripFails ==
    /\ hpc = "round"
    /\ cancelled \/ "dial" \in Faults
    /\ hpc' = "stop"
    /\ status' = "badGateway"
    /\ UNCHANGED <<netVars, chanVars, drainVars, upVars, dogVars, ctxVars, sse, complete,
                   marked, tmp, rec, panicked>>

\* One Read of the teed body.
CopyChunk(l) ==
    /\ hpc = "copy"
    /\ hpc' = "write"
    /\ sent["resp"] < MaxChunks["resp"]
    /\ sent' = [sent EXCEPT !["resp"] = @ + 1]
    /\ SinkWrites("resp", Bytes(sent["resp"] + 1, l))
    /\ Pulses
    /\ UNCHANGED <<drainVars, upVars, firing, fired, wstopped, ctxVars, respVars, tmp, rec,
                   panicked>>

\* The chunk goes to the client, and there is no WriteTimeout.
WritesChunk ==
    /\ hpc = "write"
    /\ hpc' = "copy"
    /\ UNCHANGED <<netVars, chanVars, drainVars, upVars, dogVars, ctxVars, respVars, tmp,
                   rec, panicked>>

CopyEnds ==
    /\ hpc = "copy"
    /\ hpc' = "stop"
    /\ complete' = TRUE
    /\ UNCHANGED <<netVars, chanVars, drainVars, upVars, dogVars, ctxVars, status, sse,
                   marked, tmp, rec, panicked>>

\* A read fails at the upstream or at a cancelled context, a write only when
\* the client is gone: it does not look at the context.
ReadFails == hpc = "copy" /\ (cancelled \/ "upstream" \in Faults)
WriteFails == hpc = "write" /\ left

\* The copy fails: ReverseProxy panics with ErrAbortHandler, and of the
\* handler only the deferred cancel and reg.remove still run.
CopyAborts ==
    /\ ReadFails \/ WriteFails
    /\ hpc' = "aborted"
    /\ cancelled' = TRUE
    /\ UNCHANGED <<netVars, chanVars, drainVars, upVars, dogVars, left, respVars, tmp, rec,
                   panicked>>

StopsWatchdog ==
    /\ hpc = "stop"
    /\ hpc' = "close"
    /\ wstopped' = TRUE
    /\ armed' = FALSE
    /\ UNCHANGED <<netVars, chanVars, drainVars, upVars, firing, fired, ctxVars, respVars,
                   tmp, rec, panicked>>

\* MUTANT: the response channel is forgotten.
ClosesRequestOnly ==
    /\ hpc = "close"
    /\ hpc' = "joinReq"
    /\ closed' = [closed EXCEPT !["req"] = TRUE]
    /\ UNCHANGED <<netVars, queue, dropped, drainVars, upVars, dogVars, ctxVars, respVars,
                   tmp, rec, panicked>>

ClosesChannels ==
    /\ hpc = "close"
    /\ hpc' = "joinReq"
    /\ closed' = [d \in Dirs |-> TRUE]
    /\ UNCHANGED <<netVars, queue, dropped, drainVars, upVars, dogVars, ctxVars, respVars,
                   tmp, rec, panicked>>

\* MUTANT: the drainer is not waited for.
AbandonsDrainer(d, next) ==
    /\ hpc = IF d = "req" THEN "joinReq" ELSE "joinResp"
    /\ hpc' = next
    /\ UNCHANGED <<netVars, chanVars, drainVars, upVars, dogVars, ctxVars, respVars, tmp,
                   rec, panicked>>

Joins(d, next) ==
    /\ hpc = IF d = "req" THEN "joinReq" ELSE "joinResp"
    /\ dpc[d] = "done"
    /\ hpc' = next
    /\ UNCHANGED <<netVars, chanVars, drainVars, upVars, dogVars, ctxVars, respVars, tmp,
                   rec, panicked>>

\* The parser knows three terminators: [DONE], response.completed and
\* message_stop.  A stream that came to its end need not have one of them
\* (response.failed; the streams of Gemini; a Chat stream that a plugin edits,
\* whose [DONE] the tee does not see).  Nothing looks for it before the trace
\* is built, so that its chunk, 0 for none, is chosen there.
Marks == IF sse THEN 0..sent["resp"] ELSE {0}

\* buildTrace finds a stream without a terminator to be disconnected.  Of a
\* damaged capture the terminator may or may not be there, and if the body was
\* encoded it may not decode.
Terminated(m) ==
    /\ m > 0
    /\ \E n \in DOMAIN wire["resp"] :
        /\ file["resp"] = SubSeq(wire["resp"], 1, n)
        /\ \A i \in DOMAIN wire["resp"] : wire["resp"][i] = m => i <= n
Disconnects(m) ==
    IF ~ sse \/ file["resp"] = <<>> \/ Terminated(m) THEN {FALSE}
    ELSE IF file["resp"] = wire["resp"] THEN {TRUE} ELSE BOOLEAN

\* buildTrace, the OnFinalize plugins, TrySend and RemoveTraceFiles.  A parse
\* error, a plugin and a full writer channel each keep the record back.
Builds ==
    /\ hpc = "build"
    /\ hpc' = "done"
    /\ marked' \in Marks
    /\ \/ \E unmarked \in Disconnects(marked') :
              rec' = [status |-> status,
                      truncated |-> trunc,
                      disconnected |-> fired \/ unmarked]
       \/ "busy" \in Faults /\ UNCHANGED rec
    /\ tmp' = FALSE
    /\ cancelled' = TRUE
    /\ UNCHANGED <<netVars, chanVars, drainVars, upVars, dogVars, left, status, sse, complete,
                   panicked>>

-----------------------------------------------------------------------------
(* The uploader.  Its reads fail once ReverseProxy has closed the body, but *)
(* it may be between a read and the write to the sink then.                 *)

UploadReads(l) ==
    /\ upc = "read"
    /\ hpc \in Open
    /\ sent["req"] < MaxChunks["req"]
    /\ sent' = [sent EXCEPT !["req"] = @ + 1]
    /\ upheld' = Bytes(sent["req"] + 1, l)
    /\ upc' = "tee"
    /\ UNCHANGED <<hpc, wire, chanVars, drainVars, dogVars, ctxVars, respVars, tmp, rec,
                   panicked>>

UploadTees ==
    /\ upc = "tee"
    /\ upc' = "read"
    /\ upheld' = <<>>
    /\ IF closed["req"]
       THEN panicked' = TRUE /\ UNCHANGED <<wire, chanVars>>
       ELSE SinkWrites("req", upheld) /\ UNCHANGED panicked
    /\ UNCHANGED <<hpc, sent, drainVars, dogVars, ctxVars, respVars, tmp, rec>>

UploadEnds ==
    /\ upc = "read"
    /\ upc' = "done"
    /\ UNCHANGED <<hpc, netVars, chanVars, drainVars, upheld, dogVars, ctxVars, respVars,
                   tmp, rec, panicked>>

-----------------------------------------------------------------------------
(* Drain. *)

DrainFrame ==
    UNCHANGED <<hpc, netVars, closed, dropped, upVars, dogVars, ctxVars, respVars, tmp,
                rec, panicked>>

Room(d) == MaxBody - Len(file[d])
Fitting(c, room) == SubSeq(c, 1, IF Len(c) < room THEN Len(c) ELSE room)
Takes(d) == dpc[d] = "drain" /\ queue[d] # <<>> /\ queue' = [queue EXCEPT ![d] = Tail(@)]
\* MUTANT: timings carry the end of their chunk.
TimedByEnd(d) == timings' = [timings EXCEPT ![d] = Append(@,
    [off |-> Len(file[d]) + Len(Head(queue[d])), at |-> Head(queue[d])[1]])]
Timed(d) == timings' = [timings EXCEPT ![d] = Append(@, [off |-> Len(file[d]),
                                                         at |-> Head(queue[d])[1]])]

\* MUTANT: a chunk is cut without a flag.
DrainsUnflagged(d) ==
    /\ Takes(d)
    /\ ~ halted[d] /\ Room(d) > 0
    /\ file' = [file EXCEPT ![d] = @ \o Fitting(Head(queue[d]), Room(d))]
    /\ Timed(d)
    /\ UNCHANGED <<dpc, trunc, halted, diskErr>>
    /\ DrainFrame

\* Write what still fits, and flag what does not.
Drains(d) ==
    /\ Takes(d)
    /\ ~ halted[d] /\ Room(d) > 0
    /\ LET c == Head(queue[d])
           cut == Len(c) > Room(d)
       IN  /\ file' = [file EXCEPT ![d] = @ \o Fitting(c, Room(d))]
           /\ Timed(d)
           /\ trunc' = [trunc EXCEPT ![d] = cut]
           /\ halted' = [halted EXCEPT ![d] = cut]
    /\ UNCHANGED <<dpc, diskErr>>
    /\ DrainFrame

\* The cap was met exactly: this chunk is the first that has no room.
DrainsNothing(d) ==
    /\ Takes(d)
    /\ ~ halted[d] /\ Room(d) = 0
    /\ trunc' = [trunc EXCEPT ![d] = TRUE]
    /\ halted' = [halted EXCEPT ![d] = TRUE]
    /\ UNCHANGED <<dpc, file, timings, diskErr>>
    /\ DrainFrame

\* A write error after n bytes ends the writing; a cut is flagged before it.
DrainFails(d, n) ==
    /\ "disk" \in Faults
    /\ Takes(d)
    /\ ~ halted[d] /\ n < Len(Fitting(Head(queue[d]), Room(d)))
    /\ file' = [file EXCEPT ![d] = @ \o SubSeq(Head(queue[d]), 1, n)]
    /\ Timed(d)
    /\ trunc' = [trunc EXCEPT ![d] = Len(Head(queue[d])) > Room(d)]
    /\ halted' = [halted EXCEPT ![d] = TRUE]
    /\ diskErr' = [diskErr EXCEPT ![d] = TRUE]
    /\ UNCHANGED dpc
    /\ DrainFrame

DrainsAway(d) ==
    /\ Takes(d)
    /\ halted[d]
    /\ UNCHANGED drainVars
    /\ DrainFrame

\* The channel is closed and empty: close the file, send the result.
DrainEnds(d) ==
    /\ dpc[d] = "drain"
    /\ closed[d] /\ queue[d] = <<>>
    /\ dpc' = [dpc EXCEPT ![d] = "done"]
    /\ UNCHANGED <<queue, file, timings, trunc, halted, diskErr>>
    /\ DrainFrame

-----------------------------------------------------------------------------
(* The watchdog and the client. *)

TimerExpires ==
    /\ "idle" \in Faults
    /\ armed
    /\ armed' = FALSE
    /\ firing' = TRUE
    /\ UNCHANGED <<hpc, netVars, chanVars, drainVars, upVars, fired, wstopped, ctxVars,
                   respVars, tmp, rec, panicked>>

\* MUTANT: the flag is set and the context forgotten.
FiresIdly ==
    /\ firing
    /\ firing' = FALSE
    /\ fired' = (fired \/ ~ wstopped)
    /\ UNCHANGED <<hpc, netVars, chanVars, drainVars, upVars, armed, wstopped, ctxVars,
                   respVars, tmp, rec, panicked>>

WatchdogFires ==
    /\ firing
    /\ firing' = FALSE
    /\ fired' = (fired \/ ~ wstopped)
    /\ cancelled' = (cancelled \/ ~ wstopped)
    /\ UNCHANGED <<hpc, netVars, chanVars, drainVars, upVars, armed, wstopped, left, respVars,
                   tmp, rec, panicked>>

\* The server, or the failing upload, cancels the context.
ClientLeaves ==
    /\ "client" \in Faults
    /\ hpc \in Open
    /\ ~ left
    /\ left' = TRUE
    /\ cancelled' = TRUE
    /\ UNCHANGED <<hpc, netVars, chanVars, drainVars, upVars, dogVars, respVars, tmp, rec,
                   panicked>>

-----------------------------------------------------------------------------
Finalizes ==
    \/ StopsWatchdog
    \/ ClosesChannels
    \/ Joins("req", "joinResp")
    \/ Joins("resp", "build")
    \/ Builds

Handles ==
    \/ Untraced
    \/ StartTrace
    \/ \E l \in ChunkLens["resp"] : Intercepts(l) \/ CopyChunk(l)
    \/ Forwards
    \/ RoundTripReturns
    \/ RoundTripFails
    \/ WritesChunk
    \/ CopyEnds
    \/ CopyAborts
    \/ Finalizes

DrainStep(d) ==
    \/ Drains(d)
    \/ DrainsNothing(d)
    \/ \E n \in 0..MaxBody : DrainFails(d, n)
    \/ DrainsAway(d)
    \/ DrainEnds(d)

Next ==
    /\ ~ panicked
    /\ \/ Handles
       \/ \E l \in ChunkLens["req"] : UploadReads(l)
       \/ UploadTees
       \/ UploadEnds
       \/ \E d \in Dirs : DrainStep(d)
       \/ TimerExpires
       \/ WatchdogFires
       \/ ClientLeaves

Spec == Init /\ [][Next]_vars

(* Runnable goroutines run and timers expire.  The upstream owes nothing,   *)
(* and neither does the client: it may stop reading or uploading for ever.  *)
(* A cancelled context ends a round trip or a read of the response, but     *)
(* both wait for an upload that is itself inside a read from the client.    *)
Live(A) == ~ panicked /\ A
HandlerRuns ==
    \/ StartTrace \/ Forwards \/ Finalizes
    \/ cancelled /\ upc # "read" /\ (RoundTripFails \/ (ReadFails /\ CopyAborts))
    \/ WriteFails /\ CopyAborts
UploadRuns == UploadTees \/ (left /\ UploadEnds)
FairSpec ==
    /\ Spec
    /\ WF_vars(Live(HandlerRuns))
    /\ WF_vars(Live(UploadRuns))
    /\ \A d \in Dirs : WF_vars(Live(DrainStep(d)))
    /\ WF_vars(Live(TimerExpires))
    /\ WF_vars(Live(WatchdogFires))

-----------------------------------------------------------------------------
(* Properties. *)

TypeOK ==
    /\ hpc \in HandlerPCs
    /\ sent \in [Dirs -> Nat] /\ \A d \in Dirs : sent[d] <= MaxChunks[d]
    /\ wire \in [Dirs -> Seq(ChunkIds)] /\ file \in [Dirs -> Seq(ChunkIds)]
    /\ queue \in [Dirs -> Seq(Chunks)]
    /\ \A d \in Dirs : Len(queue[d]) <= ChanSize /\ Len(file[d]) <= MaxBody
    /\ dpc \in [Dirs -> {"none", "drain", "done"}]
    /\ timings \in [Dirs -> Seq([off: 0..MaxBody, at: ChunkIds])]
    /\ {closed, dropped, trunc, halted, diskErr} \subseteq [Dirs -> BOOLEAN]
    /\ upc \in {"none", "read", "tee", "done"} /\ upheld \in Chunks \cup {<<>>}
    /\ {armed, firing, fired, wstopped, cancelled, left, sse, complete, tmp, panicked} \subseteq BOOLEAN
    /\ marked \in 0..MaxChunks["resp"]
    /\ status \in {"none", "upstream", "badGateway", "plugin"}
    /\ rec = NoRecord
       \/ rec \in [status: {"upstream", "badGateway", "plugin"},
                   truncated: [Dirs -> BOOLEAN], disconnected: BOOLEAN]

Recorded == rec # NoRecord
Clean(d) == ~ dropped[d] /\ ~ diskErr[d]

\* What a trace keeps of a body is in the order of the wire; without drops it
\* is a prefix of what went over it, and without disk errors all of it unless
\* the trace says that the size cap cut it: the flag is set exactly when bytes
\* were cut, at the boundary too.  (The reply of a BEFORE plugin is another
\* matter, see below.)
BodyWholeOrFlagged ==
    Recorded /\ status # "plugin" =>
        \A d \in Dirs :
            /\ \A i, j \in DOMAIN file[d] : i < j => file[d][i] <= file[d][j]
            /\ ~ dropped[d] => file[d] = SubSeq(wire[d], 1, Len(file[d]))
            /\ Clean(d) => (rec.truncated[d] <=> Len(file[d]) < Len(wire[d]))

\* Once the record is built nobody writes to the files it was built from,
\* and no drainer is still at work.
RecordFinal == [][Recorded => UNCHANGED <<file, trunc, timings>>]_vars

\* LookupChunkTime, the binary search of the finalize phase.
LookupChunkTime(ts, off) ==
    LET search[w \in (1..Len(ts)) \X (1..(Len(ts) + 1))] ==
            LET lo == w[1]
                hi == w[2]
                mid == (lo + hi) \div 2
            IN  IF lo + 1 < hi
                THEN IF ts[mid].off <= off THEN search[<<mid, hi>>] ELSE search[<<lo, mid>>]
                ELSE ts[lo].at
    IN  IF Len(ts) = 0 \/ off < ts[1].off THEN 0 ELSE search[<<1, Len(ts) + 1>>]

\* The time an SSE event is given is that of the chunk its first byte came
\* in, although chunks were dropped, cut or lost before it.
EventsTimedByTheirChunk ==
    \A d \in Dirs, i \in 1..MaxBody :
        i <= Len(file[d]) => LookupChunkTime(timings[d], i - 1) = file[d][i]

\* Of a response that was captured whole the record says disconnected exactly
\* when the watchdog had fired, or when it was an event stream that never sent
\* a terminator the parser knows, however it ended (buildTrace).
DisconnectedMeansUnmarked ==
    Recorded /\ Clean("resp") /\ ~ rec.truncated["resp"] =>
        (rec.disconnected <=> fired \/ (sse /\ wire["resp"] # <<>> /\ marked = 0))

\* What the record says of the response and of the bodies is so (buildTrace).
RecordTellsTruth == BodyWholeOrFlagged /\ DisconnectedMeansUnmarked

\* finalize returns: the drainers are joined, whatever state they were in.
FinalizeReturns == hpc = "stop" ~> hpc = "done" \/ panicked

\* A client that is there and neither takes the chunk nor sends the next one.
ClientHolds == ~ left /\ (hpc = "write" \/ upc = "read")

\* Only such a client can hold a request for ever.  A silent upstream cannot:
\* the watchdog cancels the context under the round trip or the read.  Nor
\* can a client that left.
StalledRequestsEnd ==
    ~ <>[]ClientHolds => (hpc \in Open ~> hpc \notin Open \/ panicked)

(* What comments and documents say, and the code does not do. *)

\* sink.go:6-7, ARCHITECTURE.md:749: a dropped chunk flips truncated_*.
DropsAreFlagged == Recorded => \A d \in Dirs : dropped[d] => rec.truncated[d]

\* ARCHITECTURE.md:801: after a failed write to a tmp file truncated_* is true.
DiskErrorsAreFlagged == Recorded => \A d \in Dirs : diskErr[d] => rec.truncated[d]

\* sink.go:76-77: Sink.Write is not called once the channel is closed.
NoSendAfterClose == ~ panicked

\* ARCHITECTURE.md:752-755, README.md:142: finalize runs however the response
\* ends, a client that leaves and the watchdog included.
EveryTraceFinalized == hpc = "copy" ~> hpc = "done" \/ panicked

\* watchdog.go:11-15, ARCHITECTURE.md:1067: the watchdog unblocks the copy of
\* the body and closes the connection of the client.
WatchdogEndsRequests == hpc \in Open ~> hpc \notin Open \/ panicked

\* ARCHITECTURE.md:229: disconnected means that a side closed before the
\* clean end of the response.
DisconnectedMeansCut == Recorded /\ rec.disconnected => ~ complete

\* ARCHITECTURE.md:800: after an upstream error the trace is disconnected.
UpstreamErrorDisconnects ==
    Recorded /\ rec.status = "badGateway" => rec.disconnected

\* plugin-b-c-spec.md 6.2: the line has what the client received.
InterceptBodyRecorded ==
    Recorded /\ rec.status = "plugin" =>
        \/ file["resp"] = wire["resp"]
        \/ rec.truncated["resp"]
=============================================================================
