----------------------------- MODULE Retention -----------------------------
(***************************************************************************)
(* The retention configuration and the published status of the storage     *)
(* coordinator (internal/storage: coordinator.go, status.go and runTick of *)
(* monitor.go).  Both are atomic pointers; a PUT and a tick of the monitor *)
(* load, compute and store them without a lock between the steps.          *)
(***************************************************************************)
EXTENDS Naturals

CONSTANTS
    Puts,           \* PUT /api/config/retention requests
    Configs,        \* retention configurations, none of them Off
    Off,            \* retention disabled: the nil pointer
    Pending,        \* no status yet: the nil pointer
    MaxBytes,       \* bytes of the data directory
    MaxEvictions    \* ticks that delete something

Retentions == Configs \cup {Off}

\* What computeStatus fills in: the thresholds and the bytes; beside it the
\* number of the last eviction reported and EngineRunning.
Statuses == [cfg : Retentions, bytes : 0..MaxBytes, evicted : 0..MaxEvictions, running : BOOLEAN]

\* A nil pointer is neither a configuration nor a status.
ASSUME RetentionAssumption ==
    /\ Off \notin Configs /\ Pending \notin Statuses
    /\ MaxBytes \in Nat /\ MaxEvictions \in Nat

VARIABLES
    retention, status,      \* the two pointers
    bytes, evictions,       \* the disk; how many ticks have deleted something
    tpc, tick,              \* the monitor: where it is, what it has computed
    ppc, pcfg, pprev,       \* each PUT: where it is, what it has loaded
    ticked,                 \* a tick has been published
    overlapped              \* two of them have run at the same time

world == <<bytes, evictions>>
tickVars == <<tpc, tick>>
putVars == <<ppc, pcfg, pprev>>
statusVars == <<retention, status, world, tickVars, putVars, ticked, overlapped>>

Baseline(c) == [cfg |-> c, bytes |-> 0, evicted |-> 0, running |-> FALSE]

\* New seeds the pointer with the defaults; main applies an override with
\* UpdateConfig before it starts the monitor.
StatusInit ==
    /\ \/ retention \in Configs /\ status = Pending
       \/ retention \in Retentions /\ status = Baseline(retention)
    /\ bytes \in 0..MaxBytes /\ evictions = 0
    /\ tpc = "idle" /\ tick = Baseline(Off)
    /\ ppc = [p \in Puts |-> "new"]
    /\ pcfg = [p \in Puts |-> Off] /\ pprev = [p \in Puts |-> Pending]
    /\ ticked = FALSE /\ overlapped = FALSE

PutActive(p) == ppc[p] \notin {"new", "done"}
Busy == tpc # "idle" \/ \E p \in Puts : PutActive(p)

\* Proxied traffic changes the directory.
Traffic ==
    /\ bytes' \in 0..MaxBytes
    /\ UNCHANGED <<retention, status, evictions, tickVars, putVars, ticked, overlapped>>

-----------------------------------------------------------------------------
(* runTick. *)

TickFrame == UNCHANGED <<retention, putVars>>

TickWalks ==
    /\ tpc = "idle"
    /\ tpc' = "walked"
    /\ tick' = [Baseline(Off) EXCEPT !.bytes = bytes, !.running = TRUE]
    /\ overlapped' = (overlapped \/ Busy)
    /\ UNCHANGED <<status, world, ticked>>
    /\ TickFrame

\* The configuration is loaded; unless retention is off some buckets may be
\* evicted, and the size that is published is the one after that.
TickEvicts ==
    /\ tpc = "walked"
    /\ tpc' = "evicted"
    /\ \/ tick' = [tick EXCEPT !.cfg = retention]
          /\ UNCHANGED world
       \/ /\ retention # Off /\ evictions < MaxEvictions
          /\ \E b \in 0..tick.bytes :
                /\ bytes' = IF bytes >= tick.bytes - b THEN bytes - (tick.bytes - b) ELSE 0
                /\ tick' = [tick EXCEPT !.cfg = retention, !.bytes = b, !.evicted = evictions + 1]
          /\ evictions' = evictions + 1
    /\ UNCHANGED <<status, ticked, overlapped>>
    /\ TickFrame

\* A tick that deleted nothing carries the last eviction over.
TickCarries ==
    /\ tpc = "evicted"
    /\ tpc' = "ready"
    /\ tick' = IF tick.evicted = 0 /\ status # Pending THEN [tick EXCEPT !.evicted = status.evicted] ELSE tick
    /\ UNCHANGED <<status, world, ticked, overlapped>>
    /\ TickFrame

\* MUTANT: the tick publishes only what it has deleted.
TickStoresEvictions ==
    /\ tpc = "ready"
    /\ tpc' = "idle"
    /\ status' = IF tick.evicted = evictions /\ evictions > 0 THEN tick ELSE status
    /\ ticked' = TRUE
    /\ UNCHANGED <<tick, world, overlapped>>
    /\ TickFrame

TickStores ==
    /\ tpc = "ready"
    /\ tpc' = "idle"
    /\ status' = tick
    /\ ticked' = TRUE
    /\ UNCHANGED <<tick, world, overlapped>>
    /\ TickFrame

-----------------------------------------------------------------------------
(* putConfigRetention and UpdateConfig. *)

PutMoves(p, from, to) == ppc[p] = from /\ ppc' = [ppc EXCEPT ![p] = to]
PutFrame == UNCHANGED <<world, tickVars, ticked>>

\* Negative or out of range knobs are refused before anything changes.
PutRefused(p) ==
    /\ PutMoves(p, "new", "done")
    /\ UNCHANGED <<retention, status, pcfg, pprev, overlapped>>
    /\ PutFrame

PutSwaps(p) ==
    /\ PutMoves(p, "new", "swapped")
    /\ retention' \in Retentions
    /\ overlapped' = (overlapped \/ Busy)
    /\ UNCHANGED <<status, pcfg, pprev>>
    /\ PutFrame

PutLoadsConfig(p) ==
    /\ PutMoves(p, "swapped", "loaded")
    /\ pcfg' = [pcfg EXCEPT ![p] = retention]
    /\ UNCHANGED <<retention, status, pprev, overlapped>>
    /\ PutFrame

PutLoadsStatus(p) ==
    /\ PutMoves(p, "loaded", "ready")
    /\ pprev' = [pprev EXCEPT ![p] = status]
    /\ UNCHANGED <<retention, status, pcfg, overlapped>>
    /\ PutFrame

\* MUTANT: the recomputation starts from nothing.
FromNothing(p) == Baseline(pcfg[p])

\* The fields computeStatus does not touch are carried forward.
Recomputed(p) ==
    IF pprev[p] = Pending THEN Baseline(pcfg[p]) ELSE [pprev[p] EXCEPT !.cfg = pcfg[p]]

PutStores(p) ==
    /\ PutMoves(p, "ready", "done")
    /\ status' = Recomputed(p)
    /\ UNCHANGED <<retention, pcfg, pprev, overlapped>>
    /\ PutFrame

-----------------------------------------------------------------------------
Tick == TickWalks \/ TickEvicts \/ TickCarries \/ TickStores
Put(p) == PutLoadsConfig(p) \/ PutLoadsStatus(p) \/ PutStores(p)

StatusNext ==
    \/ Traffic
    \/ Tick
    \/ \E p \in Puts : PutRefused(p) \/ PutSwaps(p) \/ Put(p)

StatusSpec == StatusInit /\ [][StatusNext]_statusVars

\* The ticker keeps ticking, and a PUT that has begun is finished.
FairStatusSpec == StatusSpec /\ WF_statusVars(Tick) /\ \A p \in Puts : WF_statusVars(Put(p))

-----------------------------------------------------------------------------
(* Properties. *)

StatusTypeOK ==
    /\ retention \in Retentions
    /\ status \in Statuses \cup {Pending}
    /\ bytes \in 0..MaxBytes /\ evictions \in 0..MaxEvictions
    /\ tpc \in {"idle", "walked", "evicted", "ready"} /\ tick \in Statuses
    /\ ppc \in [Puts -> {"new", "swapped", "loaded", "ready", "done"}]
    /\ pcfg \in [Puts -> Retentions] /\ pprev \in [Puts -> Statuses \cup {Pending}]
    /\ ticked \in BOOLEAN /\ overlapped \in BOOLEAN
    /\ ticked => status # Pending

\* As long as no two of them overlap, PUTs and ticks leave a status that
\* has the configuration, the last eviction and the engine right.
SerialStatusExact ==
    ~ overlapped /\ ~ Busy /\ ticked =>
        status.cfg = retention /\ status.evicted = evictions /\ status.running

\* Whatever overlaps, the thresholds the status shows end up being the
\* ones in force, and the engine is shown running.
StatusConverges ==
    <>[](status # Pending /\ status.cfg = retention /\ status.running)

(* What comments say, and overlaps break. *)

\* coordinator.go:165-167: once a PUT is answered the status has the new
\* thresholds.
StatusFollowsPut == ~ Busy /\ status # Pending => status.cfg = retention

\* status.go:48-50: the last eviction reported is the most recent one.
LastEvictionReported == ~ Busy /\ ticked => status.evicted = evictions

\* status.go:70-73: a monitor that has ticked is shown running.
EngineReported == ~ Busy /\ ticked => status.running
=============================================================================
