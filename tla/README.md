# Verification of api-log in TLA+

api-log is a forward proxy for LLM APIs: it passes requests on, records what
went over the wire, keeps the records in JSONL files beside an SQLite index,
and serves them to a viewer. This directory holds TLA+ models of its core,
model-checked with TLC, and proofs checked with TLAPS. Paths below are relative
to `src/`; `internal/` is left out where no confusion arises.

1. [The system](#1-the-system)
2. [Modules](#2-modules)
3. [Runs, bounds and fairness](#3-runs-bounds-and-fairness)
4. [Proofs](#4-proofs)
5. [Statements the code does not keep](#5-statements-the-code-does-not-keep)
6. [Not modelled](#6-not-modelled)
7. [Plan](#7-plan)

## 1. The system

One Go process. Goroutines and what they share:

```
 client --> proxyHandler --> ReverseProxy --> upstream       plugins: BEFORE on the way up,
               | tee            | tee                         AFTER on the way down
             Sink(req)       Sink(resp)          bounded channels, drop when full
               |                |
             drainer          drainer            tmp files, body cap, chunk times
                \____finalize___/
                       | TrySend                 bounded channel, drop when full
                     writer  ---- gzip worker per rotated bucket
                       |               |
   JSONL files, media directories, SQLite rows   <--- monitor: walk, reconcile, evict
                       |
     exporter (leases), trace reads (no lease), PUT/DELETE config handlers
```

### Components

| component | state it keeps | operations | hard behaviour | what makes it correct |
|---|---|---|---|---|
| lease table, `storage/lease.go` | reference count and delete mark per bucket (a UTC date and a key hash) | Acquire, Release, mark, unmark | writer, gzip workers, exporters and eviction take and give back leases of one bucket in any order, on every error path | the count is the number of holders; a marked bucket has none; all of it goes away in the end |
| writer, `writer/writer.go`, `gzip.go` | open handles, one per bucket; the input channel | fileFor, append, insert, idle sweep, rotation, gzip | half-written lines, failed inserts, rotation at midnight beside the idle sweep, crashes | a line once written stays until it is evicted; a row finds its line; no handle outlives its file |
| monitor: reconcile and evict, `storage/monitor.go`, `eviction.go` | none between ticks | tick: walk, reconcile orphans, choose, delete | everything it knows is stale when it deletes | eviction is alone with a bucket; oldest first, no more than the caps ask for; orphan rows go |
| inventory, `storage/inventory.go` | result of a walk | walkAndStat | the files change form under the walk | what is left alone is measured exactly |
| retention status, `storage/coordinator.go`, `status.go` | two atomic pointers: configuration, status | UpdateConfig, tick | a PUT and a tick load, compute and store without a lock | the status tells what is in force |
| exporter, `exporter/exporter.go` | a cursor's rows | WriteZip | rows first, leases later | an export holds the lines of its rows |
| trace read, `api/jsonlread.go` | none | stat, open, seek, read | takes no lease | it answers with the line of its own trace |
| capture, `capture/`, `proxy/`, `cmd/api-log/main.go` | two channels, two tmp files, chunk timings, watchdog | tee, drain, cap, finalize | drops, full disks, a watchdog beside the last byte, aborts by panic, uploads that outlive the response | what the record keeps went over the wire, cut exactly when it says so; finalize ends |
| shutdown, `cmd/api-log/main.go` | where main is; the grace period | signal, two listeners, writer, plugins, store | handlers of any length, a closed channel, a monitor nobody waits for | accepted records are written before the exit; the process ends |
| runtime overrides, `runtime/overrides.go`, `api/config*.go`, `api/plugins.go` | `runtime_overrides.json`, its `.tmp` sibling, what is in force | load, mutate, write, rename; reload and roll back | two handlers at once, a crash between two steps, a failed roll-back | file and process agree, no block is lost, no list runs that cannot be built |
| plugin streams, `plugin/v2/stream.go`, `plugin_wiring.go` | the held-back last text of each block, a pipe | classify, dispatch, flush | blocks beside each other, clients that leave, bodies that fail, callbacks that panic | each frame goes out once, in its place, with the callbacks it is due |
| plugin chains, `plugin/v2/registry.go`, `hook.go`, `recover.go`, `plugin_wiring.go` | an atomic pointer to the list of instances; the request and response of one handler | BEFORE, AFTER and stream chains; mutate, intercept; Reload | a reload between two instances or two chains, plugins that panic, bodies above the cap or cut off, replies of plugins that other plugins decorate | a chain is one whole list; the record names who answered; the AFTER chain sees what was forwarded |
| bodies and builtins, `plugin/v2/parsed.go`, `build.go`, `http.go`, `builtin/` | none | parse and rebuild requests and responses of four protocols; append, replace | one text is changed among images, tool calls and fields nobody parses; the same plugin has a whole response or pieces of one | nothing a view does not show is lost, tool calls stay as they were, a stream says what the whole response would |
| session index, `session/`, `store/sqlite/` | one row per trace: the hash of its turns, its parent, its root | AppendTrace, DeleteByJSONLPath, List | traces recorded in another order than they were sent, parents that are evicted, pages read while rows come and go | a session is one conversation of one key and system prompt; a list shows every lasting row once |
| start-up: tmp, admin token, viewer host, `capture/tmpfile.go`, `admin/token.go`, `viewerhost/` | files in the data directory | wipe, ensure token, resolve, download, verify, unpack | crashes at any step, and what the next start makes of what is left; a release server that fails, lies or hangs | no foreign file in tmp; a printed token is in force; a viewer is whole and as pinned; every start ends |
| SSE scanner and parser, `sse/` | line buffer | lines to frames | frames cut anywhere | (planned; whole frames are in Stream) |
| media, parser, API export, counters, configuration, ids, packaging | see PROJECT.json | | | not modelled, section 6 |

### How they interact

* **Channels.** Sinks to drainers and handlers to the writer; both drop instead
  of blocking, and both are closed by somebody else than their senders
  (`transport.go:146`, `writer.go:200`).
* **Lease table.** The writer holds a lease as long as a handle is open, a gzip
  worker and an exporter while they work; eviction needs a bucket without leases
  and then keeps everybody out. Rows, rotation order and reads are outside it.
* **Files and rows.** A line is written before its row, files are deleted before
  rows; a process that stops in between leaves one without the other.
* **Atomic pointers.** Retention configuration and status, media flag and plugin
  list are each swapped at once, but never together with the file. Each plugin
  chain loads the list for itself.
* **Context slots.** The handler hands the request as the BEFORE chain left it, and
  who intercepted, to the response side of ReverseProxy.
* **Processes.** What one process leaves in the data directory (tmp, the token, the
  viewer cache, the overrides, JSONL files and the index) the next one starts from.

## 2. Modules

| module | models | state | remarks |
|---|---|---|---|
| `Lease` | `storage/lease.go` | `refs`, `deleting` | one operator per method; no Next of its own, `Storage` instantiates it as `L` |
| `BucketLog` | what the storage layer promises | `log`, `users`, `removing` | abstract: a log grows at its end while used, and loses entries only to a remover that has it to itself |
| `Storage` | writer, gzip workers, monitor, exporter, crash and restart | handles, files, rows, lease table, one program counter per goroutine | implements `BucketLog` (`KeepsPromise`) by the refinement mapping `Promise` |
| `TraceRead` | `GET /api/traces/{id}` | one read | extends `Storage`; its steps interleave with all of Storage's |
| `Eviction` | one tick's choice in `runEviction`, over several ticks | sizes, ages, caps, the two passes | what a deletion does is in `Storage` |
| `Inventory` | `walkAndStat` of a day directory | files in bytes, the listing, what was found | beside writer and gzip worker |
| `Retention` | `UpdateConfig`, `computeStatus`, `runTick` | the two pointers, a tick, the PUTs | |
| `Capture` | one request from accept to TrySend | handler, uploader, drainers, watchdog | chunks are byte sequences, so that caps cut in the middle |
| `Shutdown` | the end of `run` | main, handlers, channel, writer, monitor | |
| `RuntimeConfig` | `SaveOverride` and the handlers that call it | inodes, what is in force, the handlers, the next process | |
| `Stream` | `modifyStreamingResponse` and `StreamDispatcher` | frames, what is held back, the pipe | four protocols |
| `Bodies` | `parsed.go`, `build.go`, `http.go`: parsing and rebuilding of bodies | none | operators only |
| `Builtins` | routes, `text-append`, `text-replace`, the plugins a Go program may register beside them, recovery | none | operators only, over the views of `Bodies` |
| `Chains` | one request through the handler and the plugins, beside reloads | the registry's list, the chain under way, the request, the reply | composes `Bodies`, `Builtins` and the registry |
| `Startup` | `run` up to its listeners, over several processes | tmp, token file, viewer cache, configuration | |
| `Index` | `session.Build`, `AppendTrace`, `DeleteByJSONLPath`, `List` and a client that pages | rows, the client's cursor | |
| `StorageProofs` (Storage and TraceRead), `CaptureProofs`, `ProcessProofs` (Startup and Shutdown), `MonitorProofs` (Eviction, Inventory and Retention), `RuntimeConfigProofs`, `StreamProofs`, `ChainsProofs`, `IndexProofs` | | | section 4 |
| `MC*` | instances for TLC | | constants only |

How to read a module: a step is what a goroutine does between two points at
which another may run, and its operator carries the name of the function, or of
what the function does there. `PROJECT.json` gives the source lines of each
definition. A `pc` variable stands for the place in the function; a variable
that is called *history* in its comment exists for a property only.

An operator that is marked `MUTANT` is a plausible bug: the definition after it
with a guard dropped, a step forgotten or an order swapped. Nothing uses it;
`PROJECT.json` says which property breaks when it takes that definition's place.

**Storage in more detail.** A trace is a number, a line is the trace on it, an
offset is the number of lines before it: the code compares offsets with line
starts only. The fragment of a failed write is entry 0 and has no newline, so
the next line is glued to it. A `.gz` is absent, torn or whole. `fileFor` is the
steps rotate, acquire, open; the write, the media extraction and the insert
follow, each with its failure. `IdleCloses` is the sweep, `Midnight` the clock.
A gzip worker acquires, copies, renames and unlinks. The monitor lists the paths
of the index, stats, looks at leases and deletes orphan rows (four steps, as
nothing holds between them), then marks, removes plain, gz, media and rows, and
unmarks. The exporter collects rows, then takes a lease per group. A crash
forgets handles, leases and marks and keeps files and rows. Which buckets a tick
chooses is left open here, so the safety properties hold for every choice.

**Capture.** The record is finished in the order of the code: watchdog stop,
close of both channels, join of the two drainers, then `buildTrace`. A step of
ReverseProxy that fails while copying goes straight to `aborted`, as its panic does.
The copy alternates between a read from the upstream (`copy`), which the tee sees and
which a cancelled context ends, and a write to the client (`write`), which may take for
ever: the server has no WriteTimeout, and a write does not look at the context. Only a
client that is gone (`left`) makes it fail. Whether the record says disconnected is up
to the SSE parser, which knows three terminators. `sse` is an event stream whose bytes
decode and hold frames; `marked` is the chunk that brought a terminator, and 0 is a
possible value of every stream, whole ones included. It is chosen when the trace is
built, as nothing looks at it before.

**RuntimeConfig.** A file is an inode: a handler that has opened the `.tmp` goes
on writing to it after another has renamed it into place. Writing a shorter text
over a longer one leaves a `mixed` file. `limit` is how many handlers this
operator lets run at the same time; properties that only hold for one say
`Serial`.

**Stream.** Responses are generated frame by frame as the protocol allows them;
the interesting part, which frame is held and what flushes it, is the
dispatcher's.

**Bodies and Builtins.** A body is a record of what the code looks at: the model
name, the system prompt, the turns, each with a role, whether its content was a
plain string, and typed parts; a part says whether it has fields that nobody
reads (`extra`), and so has the root. A text is a sequence of tokens, so that
appends, replacements and joins can be told apart and a match is a token. A part of a
type that nobody lifts goes back as it came, with its `extra`; the others are written anew
from what was lifted of them. `json`
says whether the body has the shape of its protocol (`fits`), is JSON of another
shape (`odd`) or none (`broken`). Gemini and unknown protocols are parsed but not
rebuilt, as in the code.

**Chains.** `pc` is the place in the handler; one step is one instance of a chain,
so that a reload comes between any two. `InForce` is the list a chain has loaded.
`text-append` with a probability draws once per chain (`luck`), as all its draws
being equal is what the properties need told apart. `past` is the history of lists
since a chain could have begun, against which the chains are compared: with what
one list makes as a whole. Two types beside the builtins stand for what a registered plugin
may do: `blocks` and `replaces` intercept, `panics` panics, `hollow` intercepts
without a response. A stream is the blocks of an answer cut into deltas: they end between
any two tokens or inside of any set of tokens (`cuts`, chosen by the step), and the rules run on each
delta by itself (`RewrittenDeltas`), so that they do not find a token that two deltas
share. What is appended goes behind the last delta, and into no block that has no text.

**Startup.** The file of the token and each file of the viewer are created in one
step and written in another; downloads may be of any release, and a hash stands
for the bytes it was taken of. A crash, or an orderly end, leads to `down`, from
where the next process starts with any viewer configuration. A refusal to start
(`Fails`, `RefusesToken`) leads there as well.

**Index.** Traces are numbered in the order of their identifiers and recorded in
any order, as a row is inserted when its response ends. A hash stands for the
turns it was taken of. `row` keeps rows that were deleted as a history.

## 3. Runs, bounds and fairness

| run | question | constants | why these |
|---|---|---|---|
| `storage` | leases, exclusion, detached handles, refinement and liveness of the storage layer | 1 key, 2 days, 2 traces, 1 export, cap 1, one failure of any of seven kinds | two days give a rotation and a bucket that is created again; two traces a second append, a second row, and a writer that comes back while the tick works. What one key leaves out, several handles closed by one rotation and gzip workers beside each other, the theorems of section 4 cover: they hold for any number of keys |
| `trace_read` | does a lease-free read answer its own line? | 1 key, 2 days, 3 traces, no export, 1 read | a third trace lets an offset of the old file fall into the middle of a new one |
| `capture` | is the record true, and does finalize end? | 1 upload chunk of 1 byte and 3 response chunks of 1 or 2, channel of 1, cap of 3 | the channel overflows, a chunk is cut by the cap in its middle, a second one is dropped after it |
| `shutdown` | is anything lost, in which order does all stop, does it? | 3 requests, 1 query, channel of 1, 1 rotation | one record in the writer, one in the channel, one refused |
| `eviction` | which buckets go? | 3 buckets, sizes and caps around each other, 2 deletions a tick, 1 refusal | a bucket older, one younger and one in between; the third needs a second tick |
| `inventory` | what does a walk see while files change? | 2 keys, 2 bytes | the second key is visited after the first has changed |
| `retention` | is the status exact, does it become so? | 2 PUTs, 1 configuration beside off, 1 byte, 2 evictions | two PUTs around a tick and around each other |
| `runtime_config` | do file and process agree? | 3 requests of eight bodies, 1 or 2 at a time, 1 failing operation, 1 crash | two overlap, the third overwrites what they left, and the next process starts from it |
| `stream` | does every frame go out once, in its place? | 7 frames, 3 blocks, 4 protocols, 1 panic | two blocks open and closed, and one beside them |
| `chains` | do chains, interception and rewriting do what one list says? | 14 requests in 5 protocols, 6 answers, 8 lists of up to 5 instances, 2 reloads | short and rich bodies of each protocol, bodies that are too long, cut off, broken, odd or missing; lists with disabled, panicking, hollow, blocking and replacing instances in several orders and one that cannot be built; with two reloads BEFORE, AFTER and a reload in the middle of either have lists of their own |
| `startup` | what does a start make of what earlier ones left? | 1 trace, 3 releases of which 2 are pinned, 2 crashes, 1 removal of the token | one release has everything under `dist` and its index last, one has its index first and then an entry that leaves the directory, one is nobody's; a crash leaves something and a second one hits the process that starts from it; orderly ends and refusals are not bounded |
| `index` | what is in one session, what does a client see? | 4 traces of 11 requests, 2 keys, 2 days, pages of 1 or 2, 2 filters | a conversation of three turns, its repetition, fork, other spelling and other protocols, and prompts of its own; two of the four have one millisecond; the four come in every order, and every bucket may go between any two |

Counters that would grow for ever are bounded in the guards by the constants
named above (`MaxTraces`, `MaxExports`, `MaxFaults`, `MaxReads`, `MaxRefusals`,
`MaxEvictions`, `MaxFailures`, `MaxCrashes`, `MaxEvents`, `MaxBlocks`,
`MaxPanics`, `MaxGzip`, `MaxReloads`, `MaxRemovals`, `MaxDay`). Deadlock is checked
except in Capture (a request ends, or the process is gone), Shutdown (the process
exits) and Index (every trace is recorded, every bucket gone).

### What the properties say

* **storage.** `LeasesSafe`: the count of a bucket is the number of its holders
  through every error path, while a tick deletes a bucket nobody has it open, and
  the writer never appends to an unlinked file (`LeaseAccounting`,
  `DeleteExclusion`, `NoDetachedHandle`). `KeepsPromise`: what a reader finds only
  grows at its end except by an eviction, whatever is compressed, torn, retried or
  crashes. `LeaseTableClears` and `OrphansReconciled`: leases, marks and rows
  without a file do not stay.
* **trace_read.** `RowsResolve`: every row finds its line in whichever form the
  bucket has, except for what a half-failed deletion left behind.
  `ReadAnswersOwnLine`: a read that answers answers with its trace, and the one way
  to fail while the line exists is the unlink of the plain file between the look
  and the open.
* **capture.** `RecordTellsTruth`: without drops and disk errors the recorded body
  is what went over the wire, or a prefix of it as long as the cap and flagged; a
  response that was captured whole is called disconnected exactly when the watchdog
  had fired or it was an event stream without a terminator that the parser knows,
  however it ended (`DisconnectedMeansUnmarked`). `EventsTimedByTheirChunk`: an offset looks up the
  arrival of the chunk it came in. `RecordFinal`: nothing of a record changes once
  it is built. `FinalizeReturns`: the join ends. `StalledRequestsEnd`: unless the
  client is there and for ever neither takes what the handler writes nor sends what
  the upload waits for, the handler leaves ReverseProxy; a silent upstream is ended by
  the watchdog, and a client that left by its connection.
* **shutdown.** `AcceptedIsWritten`, `StoreOutlivesWriter`, `OrderlyWithinGrace`
  (no handler meets a closed channel or plugin before the grace period is over),
  `ShutdownEnds`.
* **eviction.** `OldestFirst`; `UnderCapUnlessHindered`: a tick that nothing hinders
  ends within the cap, and no tick deletes a bucket more than that takes;
  `CatchesUp`: again and again the directory is within its cap or has fresh buckets
  only.
* **inventory.** `QuietBucketMeasured`: a bucket nobody touched since the listing has its
  exact size, date and media, and a log that keeps its form is found.
* **retention.** `SerialStatusExact`: without overlap the status has the
  configuration, the last eviction and the engine right. `StatusConverges`: with
  it, later ticks repair the thresholds.
* **runtime_config.** `NeverTorn`: the file in place is always whole, and even with
  two requests at a time no knob appears that nobody set. `SiblingsKept`: a rename
  changes its own block only. `ProcessMatchesFile`: with no request under way
  plugins, media flag and knobs are those a restart would load, and with two at a
  time still no list runs that cannot be built.
* **stream.** `WholeStream`: a response that ends cleanly has every frame once,
  with its delta callback once and the last-text callback on the last text of
  its block. `TextInPlace`: texts keep their order, none comes after the end of
  its block, and only a held-back text is ever overtaken, and only by frames of no
  text. `GoroutineEnds`: with its body or its reader.
* **chains.** `ChainsAreWhole`: what a chain has made when it ends is what one list
  that was in force makes as a whole, with the instances that are disabled or that
  panic left out. `MarkerTellsSource`: the recorded plugin is the one
  whose reply the client has. `AfterSeesForwarded`: the forwarded body, parsed
  again, is the request the AFTER chain is shown, and fields that nobody lifts are
  still in it. `PartsReachUpstream`: whatever is rewritten around them, no part that is
  no text is lost, doubled or out of its order: what is lifted of tool calls, results and images
  reaches the upstream, and parts of other types do with all they have. (In Chat a result is a
  turn of its own, whose text plugins may rewrite, and of a system turn only the text is
  lifted, so that the turn is written without anything else.) What is not lifted of them is
  lost when a body is written again, see `ToolsUntouched` in section 5.
  `StreamedAsBuffered`: whatever the deltas of a stream, as long as none ends inside of
  what a rule looks for, callbacks on them make the text that the same plugins make of the
  whole; for the deltas left out see `RulesReachEveryText` in section 5.
* **startup.** `TmpIsOwn`: behind the wipe tmp has nobody else's files, and all of
  those of a trace under way. `TokenStands`: a token that was printed is the token
  in force until the operator removes it. `ViewerWholeOrNone`: what is unpacked under
  a pin is of that release; what is served is all there, what is not leaves nothing
  behind, except after a crash within the fetch or a failed clean-up. `StartEnds`.
* **index.** `RootIsPrefix`: a trace begins with all the turns of the trace its session
  is named after, of the same key, whatever was evicted between them.
  `SessionsShareSystem`: a session has one system prompt across protocols.
  `ContinuationsJoin`: when nothing is evicted, repeated or late, a continuation
  is in the session of what it continues; a trace without turns, such as of embeddings, continues nothing and
  disturbs nothing. `ListedOnce`: paging shows every row that
  was there all the time once and in order, and no other row twice.

Every state machine has its `TypeOK`. No run spends itself on it alone: in Storage,
Capture, Shutdown, Eviction, Inventory (`WalkTypeOK`), Retention (`StatusTypeOK`),
RuntimeConfig, Stream and Chains it is proved (section 4), and the
other modules' hold when they are put into the configuration of their run.

### Fairness

* Storage: weak fairness of each goroutine's next step (writer, monitor,
  exporter, each gzip worker, the idle sweep of each bucket). They are goroutines
  that wait for nothing but the disk, and tickers that go on. None for
  Midnight, crashes, failures, the arrival of traces or exports.
* Capture: the handler up to the round trip and from the end of the copy on, the
  drainers (they wait for their channel only), the timer and its function. None
  for the upstream and none for the client: neither an answer nor a chunk has to come,
  and a write to a client that stopped reading and an upload from one that stopped
  sending may take for ever. A cancelled context ends a round trip and a read of the
  response, but not while the upload is inside a read from the client, as
  the transport waits for it. A write, or such a read, fails once the client is gone.
* Shutdown: main, the writer, the grace timer (`SlowSpec`); in `FairSpec` also that a gzip
  worker gets to the end of its file. None for handlers, API requests or the
  signal.
* Eviction: the tick; cancellation, which only a shutdown brings, is left out of
  `FairSpec`. Retention (`FairStatusSpec`): ticks and PUTs that have begun.
* Stream: the goroutine's writes and the transport's reads of the pipe, its end,
  and that a body whose reader has closed fails. None for the upstream's frames.
* Startup (`FairStartSpec`): every step of a start that waits for nobody, and the time-out or refusal
  that ends a wait (`GivesUp`: the client of the release server has one of 30
  seconds). None for the release server, the operator, traces or the end of the process.
* Inventory, RuntimeConfig, TraceRead, Chains and Index have safety properties only.

## 4. Proofs

TLAPS checks these for every value of the constants that satisfies the named
assumptions: `StorageAssumption`, `ReadAssumption`, `CaptureAssumption`,
`ShutdownAssumption`, `EvictionAssumption`, `InventoryAssumption`,
`RetentionAssumption`, `RuntimeConfigAssumption`,
`StreamAssumption`, `ChainsAssumption`, `IndexAssumption`, `StartupAssumption`, `PinsAssumption`: a
release that somebody pinned has an `index.html`, `MarksAssumption` and `ShapesAssumption`.

* `MarksAssumption`: an upstream's answer is a response with its four fields, the types of plugins that are not
  built in are the four kinds modelled (`Others`), and the first token of an
  interceptor's response is in no text of an upstream or of another plugin, and no rule looks for it, so that
  who speaks can be told by it.
* `ShapesAssumption`: a request body has its fields, its texts are sequences of tokens, and what the
  builtins append to a request or put into it by their rules are such texts, too. A body that fits its protocol
  has no tool result among the parts of a Chat turn (a result is a turn of role `tool`; `chatParseContent` makes no such part), and
  a Messages turn that is a string holds text only (`messagesParseContent` makes a text part of it).

The others say of which kind a constant is,
that a set is finite, that a limit is not 0, that a configuration of plugins is a list, which
may be empty, that a nil pointer is neither a configuration nor a status; three say more. A PUT of the media
flag names a value, as `putConfigMedia` answers 400 to one that does not
(`config.go:53`), before it does anything. Traces are numbered in the order of their time stamps
(`IndexAssumption`), as identifiers begin with the time. A directory lists each of its
entries exactly once (`InventoryAssumption`).
TLC evaluates each assumption in a run.

| module | theorem | says |
|---|---|---|
| `StorageProofs` | `Invariance` | `Spec => []IInv` |
| | `LeasesAccounted` | `LeaseAccounting` always holds |
| | `EvictionExcludesUsers` | `DeleteExclusion` |
| | `HandlesStayAttached` | `NoDetachedHandle` |
| | `LeasesAreSafe` | the three together, which is `LeasesSafe` |
| | `StorageKeepsPromise` | Storage implements BucketLog |
| | `RowsAlwaysResolve` | `RowsResolve` of TraceRead |
| | `ReadsAnswerOwnLine` | `ReadAnswersOwnLine` of TraceRead |
| `CaptureProofs` | `CaptureInvariance`, `TypeCorrect` | `CaptureInv`, and `TypeOK` in it |
| | `RecordIsFinal` | `RecordFinal` |
| | `RecordsTellTruth` | `RecordTellsTruth` |
| | `EventsTimed` | `EventsTimedByTheirChunk` |
| `ProcessProofs` | `Invariance` | `Spec => []IInv` of Shutdown |
| | `NothingAcceptedIsLost` | `AcceptedIsWritten` |
| | `StoreClosedLast` | `StoreOutlivesWriter` |
| | `OrderlyShutdown` | `OrderlyWithinGrace` |
| | `TmpAlwaysOwn` | `TmpIsOwn` of Startup |
| | `TokenAlwaysStands` | `TokenStands` |
| | `ViewerAlwaysWhole` | `ViewerWholeOrNone` |
| `MonitorProofs` | `Invariance` | `Spec => []IInv` of Eviction |
| | `EvictsOldestFirst` | `OldestFirst` |
| | `FreshAreSpared` | no bucket within its idle lag is ever marked |
| | `UnderCap` | `UnderCapUnlessHindered` |
| | `StatusInvariance` | `StatusInv` of Retention, `StatusTypeOK` in it |
| | `StatusIsExact` | `SerialStatusExact` |
| | `WalkInvariance` | `WalkInv` of Inventory, `WalkTypeOK` in it |
| | `QuietAreMeasured` | `QuietBucketMeasured` |
| `RuntimeConfigProofs` | `ConfigInvariance`, `TypeCorrect` | `ConfigInv`, and `TypeOK` in it |
| | `NeverTornFile` | `NeverTorn` |
| | `SavesKeepSiblings` | `SiblingsKept` |
| | `ProcessMatches` | `ProcessMatchesFile` |
| `StreamProofs` | `StreamInvariance`, `TypeCorrect` | `StreamInv`, and `TypeOK` in it |
| | `TextsStayInPlace` | `TextInPlace` |
| | `StreamsAreWhole` | `WholeStream` |
| `ChainsProofs` | `ChainsInvariance` | `ChainsInv`, and `TypeOK` in it |
| | `ChainsWhole` | `ChainsAreWhole` |
| | `MarkersTell` | `MarkerTellsSource` |
| | `StreamsAsBuffered` | `StreamedAsBuffered` |
| | `AfterSeesTheForwarded` | `AfterSeesForwarded` |
| | `PartsReach` | `PartsReachUpstream` |
| `IndexProofs` | `SessionRoots` | `RootIsPrefix` |
| | `SessionSystem` | `SessionsShareSystem` |
| | `SessionsJoin` | `ContinuationsJoin` |
| | `PagesList` | `ListedOnce` |

**Storage.** That nobody has a bucket open while it is deleted follows from two
facts about the lease table, and neither is inductive alone: the count must be
exactly the number of processes whose program counter says that they hold
(`LeaseAccounting`), and every mark must belong to the deletion under way
(`MarkOwned`). To these `IInv` adds that a handle has a file behind it
(`HandlesBacked`), that only buckets of past days are compressed, so that the writer and a gzip
worker never append to and remove one file (`CompressedIsPast`), and what the
two forms of a bucket say while one replaces the other (`FormsAgree`). The
proof has a lemma per conjunct and in it a step per process; the lemmas about
`[refs EXCEPT ...]` and file records come first. `StorageKeepsPromise` then maps
each step to a step of BucketLog or to a stutter: the log of a bucket is what a
reader finds there, its users are the holders of its leases, `removing` is
the set of delete marks. Where a compression replaces one form by the other, `FormsAgree` shows
that the log stays.

**Trace read.** The steps of a read are added to Storage's and change nothing of it, so `IInv`
is an invariant here too (`ReadKeepsIInv`). A row points at its own line
because the writer is at the end of the file when it appends, which `WriterAtLine` says between the
write and the insert, and `FormsAgree` carries the row over a compression.
`ReadUndisturbed` is what a read may rely on while no deletion works on its bucket: the
line is there; a read that was sent to the `.gz` was sent there since the plain file is
gone, which no step undoes, as nobody appends to a compressed bucket.

**Capture.** `CaptureInv` follows each byte from the wire through the channel and
the hands of the drainer to the file. `InOrder` and `Placed` say that what is on its way are the
chunks of the wire, in order and behind those in the file; `Flagged`, that the
truncation flag is the cap's doing; `Control` and `RecordInv` tie the handler, the closed channels
and the drainers to each other, so that when the record is built both drainers
have ended and the watchdog has been stopped. That a whole capture is called disconnected exactly for the
two reasons then follows from file and wire being one sequence, by `Placed`. The times of the chunks have a witness (`TimesChunks`): the place in the file where
each began. `EventsTimed` then needs that the binary search ends at the last
chunk that begins at or before the offset. It is defined as a function on pairs, of
which the lemma proves the value by the least counterexample in the distance of the
two bounds.

**Shutdown.** `RecordsAccounted` says that each accepted record is in the channel, in the
writer's hands or written; `StopOrder` ties what is closed to where main is.
Together they give the two results at the last steps. `GraceInv` adds what the grace period
buys: a main that has gone on to the API server, or closed the channel, while the period
lasted has seen every handler return, and nobody arrives after that.

**Eviction.** `OldestFirst` speaks of marks, and is kept by the first pass
only because `currentBytes` never grows: where the byte cap spared a bucket it
spares every younger one. `Swept` says so for the part of the inventory already passed,
`Ahead` that the second pass meets each bucket once, which bounds the deletions
by the cap. `UnderCap` is about the numbers: `TallyInv` says which buckets `total`
and `current` are the sums of in each pass, and that the first pass leaves nothing
above the cap that it may take; `NoneInVain`, that what was added up in front of a bucket
did not suffice. The lemmas on sums come first. `Bytes` is a fold of the community
modules, thus a recursive function chosen by its equation: `SumExists` shows that one exists,
`SumUnique` that there is no other, `SumAdds` what a further bucket adds.

**Inventory.** `WalkInv` says of every entry of the walk what the property says at its
end: a bucket that nobody has touched is as it was listed, and measured as far as it was
visited (`QuietSoFar`). For a visit to keep that it must be the first one of its form:
`Entries` shows that the walk comes to each form of each key exactly once, by division of the
place by the number of forms. That a listed log which is still there gets its
time stamp, whatever goes on, needs `DatedSoFar`: a log that was listed and is gone was removed by
its gzip worker, which is then at its end, so that no file of that name appears before the walk is over.

**Retention.** As long as no two of them have overlapped, whoever loads a pointer has what is in
force until it stores: a PUT the configuration it swapped in and the status it carries forward
(`PutExact`), a tick the thresholds and, once it has carried it over, the last eviction
(`TickExact`). `OneByOne` is what "not overlapped" means for the program counters, and
`Published` that from the first tick on only a PUT under way may be ahead of the
status. Traffic changes the bytes at any time, of which nothing is claimed.

**Index.** `RootIsPrefix` needs `SessionInv`: every row's turns are what `Build` makes
of its request (`BuildType` says what those are in each protocol), so that a strict
prefix of them is never empty, and the root of a row is a row of the
same key that is its own root. A new row gets the root of its parent; its turns
begin with those of the parent, those with the root's, and `IsPrefixOf` is
transitive (`PrefixTrans`). Rows that are deleted stay in the history, so evictions
disturb nothing. Of sessions with a system prompt the first turn is that of
`VirtualTurns`, which root and row share by the prefix: hence `SessionsShareSystem`.
`SessionsJoin`: of the traces that a new one continues the code takes the longest; any other is a
prefix of that one too, so that the two were joined before (`JoinInv`, by which rows
and history are the same as long as nothing was evicted). A row without turns is
exempt, as it is in the property. `PagesList`: `PageInv` says that the cursor is the last row shown,
that each row that was there all the time has been shown or is older than the cursor, and that what was
shown goes down in time stamp and identifier. A page is the beginning of the sorted list of what
is older; that such a list exists and is the only one is proved of its
`CHOOSE`. A row inserted meanwhile may be shown or not, and is not shown twice.

**RuntimeConfig.** The three properties are about one handler at a time, and the
invariant says step by step what this one has: `Handles`, that the sibling it
opened is the one behind `.tmp` and what it has written or loaded is what the
file is to become; `Differs`, in what the process differs from the file until
it has finished. When it is gone nothing differs (`Agreed`). What holds however many overlap
stands beside it: a knob in a file was asked for by somebody (`AskedFor`),
lists that run were built (`RunsWhatBuilds`), and `OpenedOnce`: each inode in use
has an opener of its own, which is an injection into pairs of handler and save, so that
the number of inodes the model has is never exceeded (`TypeCorrect`).

**Stream.** `Given` is what was written and what waits to be written. `WellMarked`
says of each such frame which callbacks it was due; `Precedes`, which frame may
be written before which, and `InOrder`, that all of them are. `Holds` describes the text that is
held back: the last of the block that is open. For it to be inductive `GivenInv` says that it may still
follow every frame given out, which is why a frame that passes it must belong to no
text. `AllInv` says that every frame was given out or is held, as long as the goroutine
lives. A flush writes what is held in the order of its blocks; the
invariant shows that there is never more than one (`HeldOne`), and a flush is
then one frame.

**Chains.** In the middle of a chain the view is what the instances so far make of what the
chain was given, and none of them intercepts (`Followed`); `MadeUpTo` is the
recursion of `MadeBy`, stopped there. For it to carry over to the next instance the recursion must
have a solution: `SoFar`, by the shortest part of a list that has none. What an
instance that lets the chain go on has done is what `Made` says of it (`GoesOn`), and one that
panics, is disabled or answers without a response has done nothing. A reload changes `live` only,
and `past` forgets lists only between two chains, so that the list of a chain under way is
always one that was in force since there was something to run it on (`Control`).

Who is on record is who is heard (`SourceInv`): as long as nobody has intercepted, the reply, the view of it and
the callbacks are without marks; after a BEFORE plugin did, the reply is its response, and the
view of it has the mark in front, which no AFTER plugin that goes on removes (`MutatesKeeps`). What is built from the view
then speaks like the view (`BuildSays`), and a body that cannot be built is the raw one. Under it lie the operators of
`Bodies` and `Builtins`: texts without a mark stay so and a mark in front stays
there, whatever is joined, rewritten by rules (`RulesKeep`) or lifted from blocks (`ParseKeeps`, `ParseMarked`). Each is
a recursion along a sequence; `Recursion` shows that it has a solution in every set that its steps do not
leave, by the least place where it has none.

That a stream carries what the buffered text would have become has two halves. A rule
that looks for one token makes of two joined texts what it makes of each, joined (`ReplaceJoins`),
and so do all rules one after the other (`RulesJoin`, `RewrittenJoins`). Deltas are such
pieces, and a token that two of them share stays as it is, which it would as well in one piece if no rule looks
for it (`DeltasAre`). So the stream carries what the callbacks make of the whole text. The other half goes along the list
(`Alongside`): after each instance, the callbacks so far make of the text what the hooks so far have made of it.
An append is the last of them, which is why no append may come before a replacement: the
callback of the append waits for the end of the block, wherever it stands in the list.

What is forwarded is not compared with what the client sent step by step but by two
joins. A sequence that is filtered, selected or flattened is one sequence per element, joined (`Across`),
and of a message count what it says (`Said`) and its parts that are no text (`PairsOf`). Parsing and
building keep both joins, though they may merge and drop single parts
(`ChatTurnIs`, `MessagesTurnIs`, `ResponsesTurnIs`). So a view that a body was lifted to is one that can be
written (`Rebuildable`; `ChatLifted`, `MessagesLifted`, `ResponsesLifted`), and what is written of such a view, parsed
again, shows the same (`ChatAgain`, `MessagesAgain`, `ResponsesAgain`). The invariant in between is `RequestInv`: while
BEFORE plugins run, the view is the lifted one but for its texts (`SameButTexts`, which keeps a
view rebuildable), and afterwards either the client's body goes on as it came and the view
lifted of it is kept, or the body is built of the view that is kept. Without the first half the second cannot be
carried over `Rebuilds`: a view that lost a role or gained a part that its protocol cannot
write would come back as another one. `AfterSeesForwarded` and `PartsReachUpstream` both follow from it.

**Startup.** Three invariants that do not need each other. `TmpInv`: behind the wipe
nothing is in tmp until the listeners are up, and no trace is under way before.
`TokenInv`: what was printed is in the file, the file and the process agree
unless the file was removed, and before the print nothing was printed: so a
crash at any step loses only tokens that nobody has seen. `ViewerInv`: while a
fetch of a pin has not come to extraction its tree has no index and is thus
empty (a whole one would have been a hit, which is what `PinsAssumption` is for);
during extraction the entries in front of the present one are there and whole
(`Unpacked`, kept by `EntryKeeps`); and what is extracted is the pinned release.

Model-checked only:

* Every liveness property (`LeaseTableClears`, `OrphansReconciled`, `FinalizeReturns`,
  `StalledRequestsEnd`, `ShutdownEnds`, `CatchesUp`, `StatusConverges`, `GoroutineEnds`,
  `StartEnds`): the prover has no rule for fairness and ENABLED.

Every invariant and every action property without fairness that a run checks is a theorem.

The prover shaped the models in a few places. `LookupChunkTime` searches over pairs, as
functions of several arguments have no counterpart in SMT. `Sorted` of Stream is given by what a sorted
sequence is, as `SortSeq` of TLC has a definition that cannot be expanded in a
proof. And an induction over a number goes by its least counterexample
(`LeastNat` and its like), since the library's theorems take the predicate as a
parameter. `Listing` of Inventory takes its pairs apart by index, as a set comprehension over a
tuple is not translated. `MadeBy` of Chains is a recursive function and not a fold with an operator, whose
definition would have to be proved to be one first; so are `Lines`, `ApplyRules` and `Rewritten`, and `BlockTexts` and
`Subsequence` of Bodies are a `FlattenSeq` as `SelectSeq` cannot be expanded. `NoMessage` has a name
as the empty string cannot be written in an obligation for the SMT solver, and `FirstText` takes the least place. The definitions of Inventory, Retention and Startup have names of their
own (`WalkInit`, `StatusInit`, `StartInit`), so that `MonitorProofs` and `ProcessProofs` can extend them beside others.

## 5. Statements the code does not keep

Comments and documents of the repository say things that the models refute. Each
is a definition in its module, under the heading that it is not kept. Put
the name as INVARIANT or PROPERTY into the configuration of the same module to see
TLC's counterexample (for properties with `~>` the specification must be the fair
one).

| definition | module | code | the statement |
|---|---|---|---|
| `ReconcileSparesLiveRows` | Storage | `monitor.go:205`: the stat and the lease check of an orphan path are stale when its rows are deleted; a writer that has created the file in between loses its fresh row | monitor.go:134-138: thanks to the fresh stat and the leases, no rows of a file that exists are deleted |
| `LeftoverRowsReconciled` | Storage | `eviction.go:181`: rows of a half-failed deletion stay when the file is created again before the next tick | "orphan rows from partial failures get reconciled by the next monitor tick" |
| `PastBucketsCompressed` | Storage | `writer.go:290`: the idle sweep takes a bucket out of `files`, and rotation compresses only what is in it | writer.go:267 "gzip still fires at date-cross rotation" |
| `StartupRebuildsIndex` | Storage | `writer.go:409`: nothing reads JSONL files at startup | "a startup rebuild will recover" (`ARCHITECTURE.md:876` disagrees as well) |
| `ExportOnlyMatching` | Storage | `exporter.go:271`: the bucket is evicted and created again between cursor and lease | exporter.go:395 "only the matching lines" |
| `RowsStartLines` | Storage | `writer.go:322`: after a write that failed half way the handle stays in use | writer.go:315 "where this line begins" |
| `ReadFindsLine` | TraceRead | `jsonlread.go:31`: the plain file is unlinked between stat and open | `ARCHITECTURE.md:821`: the read falls back to the `.gz` |
| `DropsAreFlagged` | Capture | `main.go:749`: a chunk dropped at a full channel sets no flag | sink.go:7, main.go:475 |
| `EveryTraceFinalized` | Capture | `main.go:436`: ReverseProxy aborts a handler by a panic when the copy to the client fails, past the finalize block: no record, and the drainers wait for ever | `ARCHITECTURE.md:752-755`: finalize runs however the response ends |
| `DiskErrorsAreFlagged` | Capture | `drain.go:98`: a failed write sets `Err`, which buildTrace does not look at | `ARCHITECTURE.md:801`: "`truncated_*: true`" |
| `NoSendAfterClose` | Capture | `transport.go:146`: an upload that outlives the response sends on the closed channel, and the process is gone | sink.go:76 "Sink.Write must not be called after Close" |
| `DisconnectedMeansCut` | Capture | `main.go:472`, `843`, `parser.go:101`, `122`: a late watchdog, a capture cut by the cap, or an end the parser does not know (a Gemini stream, `response.failed`, `response.incomplete`, a Chat stream whose `[DONE]` the scanner of the AFTER plugins consumes) marks a whole response | `ARCHITECTURE.md:229` |
| `WatchdogEndsRequests` | Capture | `main.go:542`: a cancelled context does not end a write to a client that stopped reading, nor a read of its upload | watchdog.go:11-13 "That unblocks the ReverseProxy body copy"; `ARCHITECTURE.md:1067`: "closing both the upstream and the client connection" |
| `UpstreamErrorDisconnects` | Capture | `proxy.go:57`: a dial error is recorded as 502 | `ARCHITECTURE.md:800`: "`status: -1`, `disconnected: true`" |
| `InterceptBodyRecorded` | Capture | `plugin_wiring.go:250`: the intercepted response goes around the sink | plugin-b-c-spec 6.2: what "the client actually received" |
| `TrySendReturns` | Shutdown | `writer.go:200`: a handler that outlives the grace period sends on the closed channel | main.go:673-677 |
| `NoHookAfterClose` | Shutdown | `main.go:697`: such a handler is inside a hook | main.go:693 "no BeforeRecord invocation can still be in flight" |
| `StoreOutlivesMonitor` | Shutdown | `main.go:564`: nobody waits for the monitor | monitor.go:31 "main.go's graceful-shutdown sequence waits on this return" |
| `GzipInterrupted` (under `SlowSpec`) | Shutdown | `writer.go:169`: an unbounded wait | `ARCHITECTURE.md:832`: "interrupted at a `shutdown_grace_seconds` ceiling" |
| `EvictsUntilUnderCap` | Eviction | `eviction.go:106`: the bytes of a leased bucket are taken off in the first pass and not made up for | `docs/retention.md:11` "evicted first until under cap" |
| `UndatedHasNoLog` | Inventory | `inventory.go:121`: a compression between listing and visit makes a bucket look like media without a log, which a tick deletes whatever its age | inventory.go:28 "zero if no JSONL on disk" |
| `StatusFollowsPut` | Retention | `monitor.go:123`: a tick publishes the configuration it loaded before a PUT | coordinator.go:165 "/healthz reflects the new thresholds immediately" |
| `LastEvictionReported` | Retention | `coordinator.go:222`: a PUT stores a copy of the status from before a tick | status.go:48 "the most recent eviction tick" |
| `EngineReported` | Retention | `coordinator.go:228`: a PUT beside the first tick publishes its baseline over it | status.go:70 |
| `NeverTorn` without `Serial` | RuntimeConfig | `overrides.go:186`: one `.tmp` name for all | overrides.go:148 "never a torn write" |
| `SiblingsKept` without `Serial` | RuntimeConfig | `overrides.go:163`: load and rename are not one step | overrides.go:146 "without clobbering siblings" |
| `RegistryMatchesFile` without `Serial` | RuntimeConfig | `plugins.go:280`: saved in one order, reloaded in the other | plugins.go:508 "tracks exactly what's on disk" |
| `RetentionMatchesFile` without `NamesBoth` | RuntimeConfig | `config_retention.go:77`: a knob a PUT leaves out is zeroed in the process and kept in the file | config_retention.go:3 |
| `OrderKept` | Stream | `stream.go:529`: the Chat frame with the finish reason overtakes the last text | stream.go:553 "to preserve ordering" |
| `DoneForwarded` | Stream | `scanner.go:144`: `data: [DONE]` is consumed and not written again | plugin-b-c-spec:679 |
| `PanicChangesNothing` | Stream | `plugin_wiring.go:541`: a callback that panics ends the stream | plugin-b-c-spec:533 "The proxy continues." |
| `PassesThrough` | Chains | `plugin_wiring.go:185`: a body above `max_body_bytes`, or one that breaks off, has been read and closed when the chain gives up, and nothing takes its place | plugin_wiring.go:165 "plugin failures never block forwarding" |
| `ToolsUntouched` | Chains | `parsed.go:474`, `build.go:287`: a body that is written again has of a tool result its texts only, without its images, and of a tool part none of the keys that are not lifted, such as `cache_control` | textreplace.go:14 "tool_use / tool_result / image / audio parts are left alone" |
| `RulesReachEveryText` | Chains | `stream.go:539`, `textreplace.go:141`: rules run on one delta at a time, so that a match which two deltas share goes to the client as it came, though it is replaced in a whole response | textreplace.go:5 "rewrite outbound response content before it reaches the client" |
| `AfterSeesEveryForwarded` | Chains | `plugin_wiring.go:221`: a request whose protocol cannot be written goes out as it came, and the AFTER chain gets the mutated view of it | plugin_wiring.go:63 "the same request the upstream actually got" |
| `CacheHitVerified` | Startup | `fetch.go:109`: extraction writes into the place that the next start looks at, so one that was cut off after `index.html` is a cache hit | fetch.go:49 "a verified viewer dist tree exists on disk" |
| `TokenIsWhole` | Startup | `token.go:42`: a write that failed half way leaves a token of any length, which later starts take | token.go:66 "the 64-char hex value generated by EnsureToken" |
| `AlwaysJoined` | Index | `insert.go:201`: the parent is looked for once, when the row is inserted: a continuation that is recorded before its parent, or after the parent was evicted, is a session of its own | `ARCHITECTURE.md:379` "iff T is a continuation of C's conversation" |

Stale comments met on the way: `overrides.go:42` says that a missing retention
block means disabled, while main starts with its defaults; `config_retention.go`
says that its order (apply, then persist) matches the media handler's, which
persists first. `insert.go:113` relies on a rebuild at startup, as the writer does.
`textappend.go:198` says that the suffix goes to "the first text block"; it goes to
the last text of each.
`textreplace.go:15` says that only texts are touched; a `function_call` item of a
Responses request becomes a message without content when the request is rebuilt.
`build.go:36` says that mutations of Gemini requests do not fail silently; while
the original body is there they do.

Met on the way as well, and denied by no comment:

* An empty `admin_token` (a crash between creation and write) stops every later
  start until the operator removes it.
* A suffix is appended to error responses as to any other, and a rebuilt Chat
  response has no finish reason and no further choices.
* A JSON body of another shape than its protocol's is rebuilt from an empty view
  when `text-append` has a system prompt for it.
* `text-append` in front of `text-replace` gives another text in a stream than in a
  whole response, as a stream appends last (`AppendsLast`).
* The export's row cap can be exceeded by rows inserted between its count and its
  cursor.
* A second process on the same data directory wipes the tmp files of the first.

## 6. Not modelled

* The parser's extraction of fields and usage, SQL, schema migration, HTTP routing,
  authentication, configuration reading, counters, identifiers, logging: data
  transformations without interleaving or failure, which unit tests reach.
* Rendering of exports (formats, zip layout) and the copy of media directories,
  which takes no lease; extraction and replay of media.
* Frames assembled from lines (`sse/scanner.go`, `sse/parser.go`); a frame is whole here.
* In Bodies: Unicode, escapes and numbers of JSON, headers, and matches of
  `text-replace` that overlap or that only a replacement or a join of two texts makes (a match is a token).
* A plugin that writes into the view it was given, against its contract.
* The state label and percentage of `status.go`; the file names of buckets and
  their canonical form (a bucket is a pair here).
* A wall clock that steps back over midnight: days only grow here, and
  `writer.go:552` would open a past bucket again.
* The path of a listener that fails: `ListenerFails` is a step of Shutdown, but
  nothing is claimed about what is lost: `run` returns (`main.go:660`) without the drain.
* Transport details of net/http beyond what the handler observes: connections
  that hang, hop-by-hop headers, HTTP/2. Serving the viewer's files.
* Offline tools: packaging command, benchmarks, experiments.

## 7. Plan

In order of importance:

1. One monitor tick composed from Inventory, Eviction and the lease table, so
   that the idle lag and the stale walk meet the writer; this replaces the
   separate runs of its parts.
2. The SSE scanner as an algorithm against a reference definition of frames,
   with lines cut anywhere.
3. The exporter's second half (media copies without leases, an abort after the
   headers), `api/export.go`, media extraction.
4. Failures not admitted yet: a clock that steps back, a failing listener.

No proof is outstanding: what the plan adds brings properties of its own.
