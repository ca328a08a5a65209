------------------------------ MODULE Shutdown ------------------------------
(***************************************************************************)
(* How the process stops (the end of run in cmd/api-log/main.go): main     *)
(* shuts both listeners down within one grace period, closes the writer    *)
(* channel, waits for the writer and its gzip workers, closes the plugins  *)
(* and the store, and exits.  Beside it run the proxy handlers, which end  *)
(* in the OnFinalize plugins and TrySend, the API handlers, the writer and *)
(* the storage monitor.                                                    *)
(***************************************************************************)
EXTENDS Naturals, FiniteSets

CONSTANTS
    Requests,       \* proxied requests
    Queries,        \* API requests
    ChanCap,        \* capacity of Writer.in
    MaxGzip         \* rotations the writer meets in the run

ASSUME ShutdownAssumption ==
    /\ IsFiniteSet(Requests)
    /\ ChanCap \in Nat \ {0}
    /\ MaxGzip \in Nat

MainPCs == {"serving", "proxy", "api", "close", "drain", "gzip", "plugins", "store",
            "exited"}
RequestPCs == {"new", "serving", "plugins", "sending", "over", "panicked"}

VARIABLES
    main,               \* where run is
    signalled,          \* rootCtx is done
    graceOver,          \* shutdownCtx is done
    rpc, qpc,           \* the proxied requests, the API requests
    chan, chanClosed,   \* Writer.in: how many records, closed or not
    wpc,                \* the writer: "run", "append", "done"
    gzRun, gzLeft,      \* gzip workers running; rotations still to come
    accepted, written,  \* records taken by TrySend; records seen through
    mon,                \* the monitor: "wait", "tick", "done"
    pluginsOpen, storeOpen

serveVars == <<rpc, qpc>>
writerVars == <<wpc, gzRun, gzLeft, written>>
chanVars == <<chan, chanClosed, accepted>>
ownVars == <<pluginsOpen, storeOpen>>
vars == <<main, signalled, graceOver, serveVars, writerVars, chanVars, mon, ownVars>>

Init ==
    /\ main = "serving" /\ signalled = FALSE /\ graceOver = FALSE
    /\ rpc = [r \in Requests |-> "new"] /\ qpc = [q \in Queries |-> "new"]
    /\ chan = 0 /\ chanClosed = FALSE
    /\ wpc = "run" /\ gzRun = 0 /\ gzLeft = MaxGzip
    /\ accepted = 0 /\ written = 0
    /\ mon = "tick"
    /\ pluginsOpen = TRUE /\ storeOpen = TRUE

Running == main # "exited"

-----------------------------------------------------------------------------
(* Requests.  A handler takes as long as it likes. *)

RequestMoves(r, from, to) ==
    /\ Running
    /\ rpc[r] = from
    /\ rpc' = [rpc EXCEPT ![r] = to]
    /\ UNCHANGED <<main, signalled, graceOver, qpc, writerVars, mon, ownVars>>

\* The proxy listener accepts until Shutdown closes it.
RequestArrives(r) ==
    /\ main = "serving"
    /\ RequestMoves(r, "new", "serving")
    /\ UNCHANGED chanVars

\* The response is through; the record is built and the plugins are asked.
RequestFinalizes(r) ==
    /\ RequestMoves(r, "serving", "plugins")
    /\ UNCHANGED chanVars

\* OnFinalize keeps the record or drops it.
PluginsAnswer(r) ==
    /\ \E to \in {"sending", "over"} : RequestMoves(r, "plugins", to)
    /\ UNCHANGED chanVars

\* TrySend: queued, dropped at a full channel, or a panic at a closed one,
\* which net/http recovers at the cost of the rest of the handler.
TrySend(r) ==
    \/ /\ ~ chanClosed /\ chan < ChanCap
       /\ RequestMoves(r, "sending", "over")
       /\ chan' = chan + 1 /\ accepted' = accepted + 1
       /\ UNCHANGED chanClosed
    \/ /\ ~ chanClosed /\ chan = ChanCap
       /\ RequestMoves(r, "sending", "over")
       /\ UNCHANGED chanVars
    \/ /\ chanClosed
       /\ RequestMoves(r, "sending", "panicked")
       /\ UNCHANGED chanVars

QueryMoves(q, from, to) ==
    /\ Running
    /\ qpc[q] = from
    /\ qpc' = [qpc EXCEPT ![q] = to]
    /\ UNCHANGED <<main, signalled, graceOver, rpc, writerVars, chanVars, mon, ownVars>>

\* The API listener stays open until the proxy has been shut down.
QueryArrives(q) == main \in {"serving", "proxy"} /\ QueryMoves(q, "new", "serving")
QueryEnds(q) == QueryMoves(q, "serving", "over")

-----------------------------------------------------------------------------
(* The writer and its gzip workers. *)

WriterFrame ==
    UNCHANGED <<main, signalled, graceOver, serveVars, chanClosed, accepted, mon, ownVars>>

WriterTakes ==
    /\ Running /\ wpc = "run" /\ chan > 0
    /\ chan' = chan - 1
    /\ wpc' = "append"
    /\ UNCHANGED <<gzRun, gzLeft, written>>
    /\ WriterFrame

\* A record is appended and indexed, or given up; a rotation on the way
\* starts a gzip worker.
WriterAppends ==
    /\ Running /\ wpc = "append"
    /\ wpc' = "run"
    /\ written' = written + 1
    /\ \/ UNCHANGED <<gzRun, gzLeft>>
       \/ gzLeft > 0 /\ gzRun' = gzRun + 1 /\ gzLeft' = gzLeft - 1
    /\ UNCHANGED chan
    /\ WriterFrame

\* MUTANT: runLoop leaves as soon as the channel is closed.
WriterLeaves ==
    /\ Running /\ wpc = "run" /\ chanClosed
    /\ wpc' = "done"
    /\ UNCHANGED <<chan, gzRun, gzLeft, written>>
    /\ WriterFrame

\* A closed channel ends runLoop only when it is empty.
WriterEnds ==
    /\ Running /\ wpc = "run" /\ chanClosed /\ chan = 0
    /\ wpc' = "done"
    /\ UNCHANGED <<chan, gzRun, gzLeft, written>>
    /\ WriterFrame

GzipEnds ==
    /\ Running /\ gzRun > 0
    /\ gzRun' = gzRun - 1
    /\ UNCHANGED <<chan, wpc, gzLeft, written>>
    /\ WriterFrame

-----------------------------------------------------------------------------
(* The monitor: main starts it and never asks for it again. *)

MonitorMoves(from, to) ==
    /\ Running
    /\ mon = from
    /\ mon' = to
    /\ UNCHANGED <<main, signalled, graceOver, serveVars, writerVars, chanVars, ownVars>>

MonitorTicks == MonitorMoves("wait", "tick")
MonitorRests == MonitorMoves("tick", "wait")
MonitorStops == signalled /\ MonitorMoves("wait", "done")

-----------------------------------------------------------------------------
(* main. *)

MainFrame == UNCHANGED <<serveVars, writerVars, mon>>

\* SIGINT or SIGTERM; the grace period begins.
Signal ==
    /\ main = "serving"
    /\ main' = "proxy"
    /\ signalled' = TRUE
    /\ UNCHANGED <<graceOver, chanVars, ownVars>>
    /\ MainFrame

\* A listener fails: run returns the error at once.
ListenerFails ==
    /\ main = "serving"
    /\ main' = "exited"
    /\ UNCHANGED <<signalled, graceOver, chanVars, ownVars>>
    /\ MainFrame

GraceExpires ==
    /\ main \in {"proxy", "api"}
    /\ ~ graceOver
    /\ graceOver' = TRUE
    /\ UNCHANGED <<main, signalled, chanVars, ownVars>>
    /\ MainFrame

ProxyIdle == \A r \in Requests : rpc[r] \in {"new", "over", "panicked"}
ApiIdle == \A q \in Queries : qpc[q] \in {"new", "over"}

\* MUTANT: Shutdown closes the listener and does not wait for handlers.
ProxyDownAtOnce ==
    /\ main = "proxy"
    /\ main' = "api"
    /\ UNCHANGED <<signalled, graceOver, chanVars, ownVars>>
    /\ MainFrame

\* MUTANT: Shutdown without a deadline.
ProxyDownWhenIdle ==
    /\ main = "proxy" /\ ProxyIdle
    /\ main' = "api"
    /\ UNCHANGED <<signalled, graceOver, chanVars, ownVars>>
    /\ MainFrame

\* Shutdown returns when every handler has, or when the grace is over.
ProxyDown ==
    /\ main = "proxy"
    /\ ProxyIdle \/ graceOver
    /\ main' = "api"
    /\ UNCHANGED <<signalled, graceOver, chanVars, ownVars>>
    /\ MainFrame

ApiDown ==
    /\ main = "api"
    /\ ApiIdle \/ graceOver
    /\ main' = "close"
    /\ UNCHANGED <<signalled, graceOver, chanVars, ownVars>>
    /\ MainFrame

\* The stop function of the writer: close the channel ...
ClosesChannel ==
    /\ main = "close"
    /\ main' = "drain"
    /\ chanClosed' = TRUE
    /\ UNCHANGED <<signalled, graceOver, chan, accepted, ownVars>>
    /\ MainFrame

\* ... wait for runLoop ...
WriterDrained ==
    /\ main = "drain"
    /\ wpc = "done"
    /\ main' = "gzip"
    /\ UNCHANGED <<signalled, graceOver, chanVars, ownVars>>
    /\ MainFrame

\* MUTANT: the gzip workers are not waited for.
GzipForgotten ==
    /\ main = "gzip"
    /\ main' = "plugins"
    /\ UNCHANGED <<signalled, graceOver, chanVars, ownVars>>
    /\ MainFrame

\* ... and for the gzip workers, then close the handles.
GzipDrained ==
    /\ main = "gzip"
    /\ gzRun = 0
    /\ main' = "plugins"
    /\ UNCHANGED <<signalled, graceOver, chanVars, ownVars>>
    /\ MainFrame

ClosesPlugins ==
    /\ main = "plugins"
    /\ main' = "store"
    /\ pluginsOpen' = FALSE
    /\ UNCHANGED <<signalled, graceOver, chanVars, storeOpen>>
    /\ MainFrame

ClosesStore ==
    /\ main = "store"
    /\ main' = "exited"
    /\ storeOpen' = FALSE
    /\ UNCHANGED <<signalled, graceOver, chanVars, pluginsOpen>>
    /\ MainFrame

-----------------------------------------------------------------------------
WriterStep == WriterTakes \/ WriterAppends \/ WriterEnds

MainStep ==
    \/ ProxyDown
    \/ ApiDown
    \/ ClosesChannel
    \/ WriterDrained
    \/ GzipDrained
    \/ ClosesPlugins
    \/ ClosesStore

Next ==
    \/ \E r \in Requests :
        RequestArrives(r) \/ RequestFinalizes(r) \/ PluginsAnswer(r) \/ TrySend(r)
    \/ \E q \in Queries : QueryArrives(q) \/ QueryEnds(q)
    \/ WriterStep
    \/ GzipEnds
    \/ MonitorTicks \/ MonitorRests \/ MonitorStops
    \/ Signal \/ ListenerFails
    \/ GraceExpires
    \/ MainStep

Spec == Init /\ [][Next]_vars

\* main, the writer and the grace timer keep going.  No handler and no
\* gzip worker need ever end.
SlowSpec == Spec /\ WF_vars(MainStep) /\ WF_vars(WriterStep) /\ WF_vars(GraceExpires)

\* The gzip workers get to the end of their files.
FairSpec == SlowSpec /\ WF_vars(GzipEnds)

-----------------------------------------------------------------------------
(* Properties. *)

TypeOK ==
    /\ main \in MainPCs
    /\ signalled \in BOOLEAN /\ graceOver \in BOOLEAN /\ chanClosed \in BOOLEAN
    /\ pluginsOpen \in BOOLEAN /\ storeOpen \in BOOLEAN
    /\ rpc \in [Requests -> RequestPCs]
    /\ qpc \in [Queries -> {"new", "serving", "over"}]
    /\ chan \in 0..ChanCap
    /\ wpc \in {"run", "append", "done"}
    /\ gzRun \in Nat /\ gzLeft \in Nat /\ gzRun + gzLeft <= MaxGzip
    /\ accepted \in Nat /\ written \in Nat
    /\ mon \in {"wait", "tick", "done"}

\* Every record TrySend took is accounted for: in the channel, in the
\* writer's hands, or seen through.
RecordsAccounted ==
    accepted = chan + written + (IF wpc = "append" THEN 1 ELSE 0)

\* When main goes past the writer nothing accepted is left behind.
StopOrder ==
    /\ chanClosed <=> main \in {"drain", "gzip", "plugins", "store"} \/ ~ storeOpen
    /\ wpc = "done" => chanClosed /\ chan = 0
    /\ main \in {"gzip", "plugins", "store"} \/ ~ storeOpen => wpc = "done"
    /\ main \in {"plugins", "store"} \/ ~ storeOpen => gzRun = 0
    /\ main = "exited" /\ signalled => ~ storeOpen
    /\ storeOpen \/ main = "exited"
    /\ main = "serving" => ~ signalled

\* The inductive invariant: no record is lost between the channel, the writer
\* and the files, and nothing stops before what it waits for (runShutdownSequence).
IInv == TypeOK /\ RecordsAccounted /\ StopOrder

\* What TrySend accepted is written before a process that was told to stop
\* is gone, although handlers go on sending while main shuts down.
AcceptedIsWritten == main = "exited" /\ signalled => written = accepted

\* The writer and its gzip workers are gone before the store is closed.
StoreOutlivesWriter == ~ storeOpen => wpc = "done" /\ gzRun = 0

\* As long as the grace period lasts no handler meets the closed channel or a
\* plugin that is closed: main has waited for all of them.
OrderlyWithinGrace ==
    ~ graceOver => \A r \in Requests :
        rpc[r] # "panicked" /\ (rpc[r] = "plugins" => pluginsOpen)

\* A signal stops the process, whatever handlers and clients do.
ShutdownEnds == signalled ~> main = "exited"

(* What comments and documents say, and the code does not do. *)

\* main.go:672-677, writer.go:191-193: a late handler's TrySend queues or
\* drops the record and returns.
TrySendReturns == \A r \in Requests : rpc[r] # "panicked"

\* main.go:693-696: no hook call is in flight when the plugins are closed.
NoHookAfterClose == \A r \in Requests : rpc[r] = "plugins" => pluginsOpen

\* monitor.go:31-32: the shutdown sequence waits for the monitor.
StoreOutlivesMonitor == ~ storeOpen => mon = "done"

\* ARCHITECTURE.md:832: gzip workers are interrupted when the grace is over.
GzipInterrupted == main = "gzip" ~> main # "gzip"
=============================================================================
