------------------------------ MODULE Startup ------------------------------
(***************************************************************************)
(* The start of the process (run in cmd/api-log/main.go) over what earlier *)
(* processes have left in the data directory: trace files in tmp           *)
(* (internal/capture/tmpfile.go), the admin token (internal/admin/         *)
(* token.go), and the viewer that is fetched, verified and unpacked        *)
(* (internal/viewerhost).  A process may die at any step and be started    *)
(* again, with another configuration.                                      *)
(***************************************************************************)
EXTENDS Integers, Sequences

CONSTANTS
    Traces,         \* trace identifiers
    Releases,       \* what a release server may hand out as dist.zip
    Archive,        \* its entries: paths, as sequences of names
    Pins,           \* releases whose hash is pinned, by a binary or its operator
    MaxCrashes, MaxRemovals

ASSUME StartupAssumption ==
    /\ Pins \subseteq Releases \ {"disabled", "local", "unpinned"}
    /\ Archive \in [Releases -> Seq(Seq(STRING))]
    /\ MaxCrashes \in Nat /\ MaxRemovals \in Nat

Absent == "absent"
Partial == "partial"
Unset == "unset"

\* Tokens are numbered; these are what admin_token, and the process, may have instead.
NoToken == -2
EmptyToken == -1
CutToken == 0
Settings == {"disabled", "local", "unpinned"} \cup Pins

VARIABLES
    pc,
    tmp,                    \* files in tmp: trace and direction
    traces,                 \* what this process does with each trace
    file, mine, tokens,     \* admin_token, the token of the process, how many were generated
    printed,                \* tokens printed since the file was last removed
    setting,                \* cfg.Viewer
    dist, zip,              \* per pin, the files of <key>/dist, and .tmp-<key>.zip
    at,                     \* the entry that is extracted
    source,                 \* Info.Source
    torn,                   \* pins whose fetch was cut off, or not cleaned up
    crashes, removals

tokenVars == <<file, mine, tokens, printed>>
viewerVars == <<setting, dist, zip, at, source, torn>>
budget == <<crashes, removals>>
startVars == <<pc, tmp, traces, tokenVars, viewerVars, budget>>

NoFiles == [f \in {} |-> Absent]

StartInit ==
    /\ pc = "down"
    /\ tmp = {} /\ traces = [t \in Traces |-> "new"]
    /\ file = NoToken /\ mine = NoToken /\ tokens = 0 /\ printed = {}
    /\ setting = "disabled" /\ source = Unset /\ at = 1 /\ torn = {}
    /\ dist = [p \in Pins |-> NoFiles] /\ zip = [p \in Pins |-> Absent]
    /\ crashes = 0 /\ removals = 0

Moves(from, to) == pc = from /\ pc' = to

\* What the process knew is gone.
Forgets == mine' = NoToken /\ setting' = "disabled" /\ source' = Unset /\ at' = 1

\* run returns an error: the process ends, whatever it has started.
Fails(from) ==
    /\ Moves(from, "down") /\ Forgets
    /\ UNCHANGED <<tmp, traces, file, tokens, printed, dist, zip, torn, budget>>

-----------------------------------------------------------------------------
(* Configuration, directories, index, token. *)

Starts ==
    /\ Moves("down", "wipe")
    /\ setting' \in Settings
    /\ UNCHANGED <<tmp, traces, tokenVars, dist, zip, at, source, torn, budget>>

\* MUTANT: MkdirAll alone.
WipesNothing == Moves("wipe", "sqlite") /\ UNCHANGED <<tmp, traces, tokenVars, viewerVars, budget>>

\* NewTmpDir: RemoveAll goes from file to file.
Wipes ==
    /\ UNCHANGED <<traces, tokenVars, viewerVars, budget>>
    /\ \/ \E f \in tmp : pc = "wipe" /\ tmp' = tmp \ {f} /\ UNCHANGED pc
       \/ tmp = {} /\ Moves("wipe", "sqlite") /\ UNCHANGED tmp

OpensStore == Moves("sqlite", "token") /\ UNCHANGED <<tmp, traces, tokenVars, viewerVars, budget>>

\* EnsureToken: a file that is there is the token, unless nothing is in it.
ReadsToken ==
    /\ file \notin {NoToken, EmptyToken} /\ Moves("token", "registry")
    /\ mine' = file
    /\ UNCHANGED <<tmp, traces, file, tokens, printed, viewerVars, budget>>

RefusesToken == file = EmptyToken /\ Fails("token")

\* MUTANT: the token is printed before it is kept.
PrintsThenCreates ==
    /\ file = NoToken /\ Moves("token", "tokenWrite")
    /\ file' = EmptyToken
    /\ mine' = tokens + 1 /\ tokens' = tokens + 1 /\ printed' = printed \cup {tokens + 1}
    /\ UNCHANGED <<tmp, traces, viewerVars, budget>>

\* os.WriteFile: creation, then the bytes, of which some may be there when it fails.
CreatesToken ==
    /\ file = NoToken /\ Moves("token", "tokenWrite")
    /\ file' = EmptyToken
    /\ mine' = tokens + 1 /\ tokens' = tokens + 1
    /\ UNCHANGED <<tmp, traces, printed, viewerVars, budget>>

WritesToken ==
    /\ Moves("tokenWrite", "tokenPrint")
    /\ file' = mine
    /\ UNCHANGED <<tmp, traces, mine, tokens, printed, viewerVars, budget>>

FailsToken ==
    /\ Moves("tokenWrite", "down") /\ Forgets
    /\ file' \in {EmptyToken, CutToken}
    /\ UNCHANGED <<tmp, traces, tokens, printed, dist, zip, torn, budget>>

PrintsToken ==
    /\ Moves("tokenPrint", "registry")
    /\ printed' = printed \cup {mine}
    /\ UNCHANGED <<tmp, traces, file, mine, tokens, viewerVars, budget>>

\* Overrides, coordinator, filters, plugins, writer, monitor; overrides that cannot be
\* read are passed over, filters and plugins that cannot be built end the start.
BuildsRegistry == Moves("registry", "viewer") /\ UNCHANGED <<tmp, traces, tokenVars, viewerVars, budget>>

-----------------------------------------------------------------------------
(* viewerhost.New. *)

ViewerFrame == UNCHANGED <<tmp, traces, tokenVars, setting, budget>>
Index == <<"index.html">>

\* The start goes on, whatever comes of the viewer.
Settles(from, s) == Moves(from, "listen") /\ source' = s

Unfetched ==
    /\ \/ setting = "disabled" /\ Settles("viewer", "disabled")
       \/ setting = "unpinned" /\ Settles("viewer", "error")
       \/ setting = "local" /\ \E s \in {"local", "error"} : Settles("viewer", s)
    /\ UNCHANGED <<dist, zip, at, torn>> /\ ViewerFrame

CacheHit ==
    /\ setting \in Pins /\ Index \in DOMAIN dist[setting]
    /\ Settles("viewer", "cache")
    /\ UNCHANGED <<dist, zip, at, torn>> /\ ViewerFrame

CacheMiss ==
    /\ setting \in Pins /\ Index \notin DOMAIN dist[setting]
    /\ Moves("viewer", "resolve")
    /\ UNCHANGED <<dist, zip, at, source, torn>> /\ ViewerFrame

\* resolveAssetURL, within the 30 seconds of httpClient.
Resolves ==
    /\ Moves("resolve", "download")
    /\ UNCHANGED <<dist, zip, at, source, torn>> /\ ViewerFrame

ResolveFails ==
    /\ Settles("resolve", "error")
    /\ UNCHANGED <<dist, zip, at, torn>> /\ ViewerFrame

\* downloadAndHash truncates what is there.
CreatesZip ==
    /\ Moves("download", "stream")
    /\ zip' = [zip EXCEPT ![setting] = Partial]
    /\ UNCHANGED <<dist, at, source, torn>> /\ ViewerFrame

DownloadFails == \E from \in {"download", "stream"} :
    /\ Settles(from, "error")
    /\ zip' = [zip EXCEPT ![setting] = Absent]
    /\ UNCHANGED <<dist, at, torn>> /\ ViewerFrame

Downloads == \E r \in Releases :
    /\ Moves("stream", "verify")
    /\ zip' = [zip EXCEPT ![setting] = r]
    /\ UNCHANGED <<dist, at, source, torn>> /\ ViewerFrame

\* A hash stands for the bytes it was taken of.
Verifies ==
    /\ UNCHANGED <<dist, torn>> /\ ViewerFrame
    /\ \/ /\ Moves("verify", "extract") /\ zip[setting] = setting
          /\ at' = 1 /\ UNCHANGED <<zip, source>>
       \/ /\ Settles("verify", "error") /\ zip[setting] # setting
          /\ zip' = [zip EXCEPT ![setting] = Absent] /\ UNCHANGED at

\* allHaveDistPrefix.
StripDist(r) ==
    /\ Archive[r] # <<>>
    /\ \A i \in DOMAIN Archive[r] : Head(Archive[r][i]) = "dist"

Target(r, i) == IF StripDist(r) THEN Tail(Archive[r][i]) ELSE Archive[r][i]

\* What is pinned is a viewer.
ASSUME PinsAssumption == \A p \in Pins : \E i \in DOMAIN Archive[p] : Target(p, i) = Index

\* Absolute paths, and those that name a parent directory.
Escapes(path) == Head(path) = "" \/ \E i \in DOMAIN path : path[i] = ".."

Content(r, whole) == [of |-> r, whole |-> whole]

\* writeZipEntry: creation, then the bytes.
Unpacks(whole) ==
    LET r == zip[setting] IN
    /\ at \in DOMAIN Archive[r] /\ ~ Escapes(Target(r, at))
    /\ dist' = [dist EXCEPT ![setting] =
                    [f \in DOMAIN @ \cup {Target(r, at)} |-> IF f = Target(r, at) THEN Content(r, whole) ELSE @[f]]]

CreatesEntry ==
    /\ Moves("extract", "entry")
    /\ Unpacks(FALSE)
    /\ UNCHANGED <<zip, at, source, torn>> /\ ViewerFrame

WritesEntry ==
    /\ Moves("entry", "extract")
    /\ Unpacks(TRUE)
    /\ at' = at + 1
    /\ UNCHANGED <<zip, source, torn>> /\ ViewerFrame

\* MUTANT: what was extracted is left to the next start.
ExtractFailsDirty == \E from \in {"extract", "entry"} :
    /\ Settles(from, "error")
    /\ zip' = [zip EXCEPT ![setting] = Absent]
    /\ UNCHANGED <<dist, at, torn>> /\ ViewerFrame

\* A path that escapes, an archive that cannot be read, a full disk: the whole key is
\* removed, or, as errors of that are not looked at, some of it is.
ExtractFails == \E from \in {"extract", "entry"} :
    /\ Settles(from, "error")
    /\ \/ dist' = [dist EXCEPT ![setting] = NoFiles] /\ UNCHANGED torn
       \/ torn' = torn \cup {setting} /\ UNCHANGED dist
    /\ zip' = [zip EXCEPT ![setting] = Absent] /\ at' = 1
    /\ ViewerFrame

Extracted ==
    /\ Settles("extract", "fetched") /\ at \notin DOMAIN Archive[zip[setting]]
    /\ zip' = [zip EXCEPT ![setting] = Absent] /\ at' = 1
    /\ UNCHANGED <<dist, torn>> /\ ViewerFrame

\* MUTANT: a server that does not answer is waited for.
GivesUpNever == FALSE

\* What httpClient's time-out, or a signal, makes of a server that does not answer.
GivesUp == ResolveFails \/ DownloadFails

-----------------------------------------------------------------------------
(* The running process, its operator, and its end. *)

Listens == Moves("listen", "serving") /\ UNCHANGED <<tmp, traces, tokenVars, viewerVars, budget>>

TraceFrame == pc = "serving" /\ UNCHANGED <<pc, tokenVars, viewerVars, budget>>

\* CreateTraceFiles: the request's, then the response's; if that fails the first goes.
CreatesFile(t) ==
    /\ TraceFrame
    /\ \/ /\ traces[t] = "new" /\ traces' = [traces EXCEPT ![t] = "half"]
          /\ tmp' = tmp \cup {<<t, "req">>}
       \/ /\ traces[t] = "half" /\ traces' = [traces EXCEPT ![t] = "open"]
          /\ tmp' = tmp \cup {<<t, "resp">>}
       \/ /\ traces[t] = "half" /\ traces' = [traces EXCEPT ![t] = "done"]
          /\ tmp' = tmp \ {<<t, "req">>}

\* RemoveTraceFiles, or a handler that is aborted in front of it.
TraceEnds(t) ==
    /\ TraceFrame
    /\ traces[t] = "open" /\ traces' = [traces EXCEPT ![t] = "done"]
    /\ tmp' \in {tmp, tmp \ ({t} \X {"req", "resp"})}

\* The operator asks for a new token.
RemovesToken ==
    /\ pc \in {"down", "serving"} /\ file # NoToken
    /\ removals < MaxRemovals /\ removals' = removals + 1
    /\ file' = NoToken /\ printed' = {}
    /\ UNCHANGED <<pc, tmp, traces, mine, tokens, viewerVars, crashes>>

Ends ==
    /\ pc' = "down" /\ Forgets
    /\ traces' = [t \in Traces |-> IF traces[t] \in {"half", "open"} THEN "done" ELSE traces[t]]
    /\ torn' = torn \cup (IF pc \in {"stream", "verify", "extract", "entry"} THEN {setting} ELSE {})
    /\ UNCHANGED <<tmp, file, tokens, printed, dist, zip, removals>>

Crash == pc # "down" /\ crashes < MaxCrashes /\ crashes' = crashes + 1 /\ Ends

\* An orderly end has let the traces come to theirs.
Stops ==
    /\ pc = "serving" /\ \A t \in Traces : traces[t] \notin {"half", "open"}
    /\ Ends /\ UNCHANGED crashes

Startup ==
    \/ Wipes \/ OpensStore \/ ReadsToken \/ RefusesToken \/ CreatesToken \/ WritesToken \/ FailsToken \/ PrintsToken
    \/ BuildsRegistry \/ Unfetched \/ CacheHit \/ CacheMiss \/ GivesUp
    \/ Verifies \/ CreatesEntry \/ WritesEntry \/ ExtractFails \/ Extracted \/ Listens
    \/ \E step \in {"wipe", "sqlite", "registry", "listen"} : Fails(step)

\* The release server answers.
Network == Resolves \/ CreatesZip \/ Downloads

StartNext ==
    \/ Starts \/ Startup \/ Network
    \/ \E t \in Traces : CreatesFile(t) \/ TraceEnds(t)
    \/ RemovesToken \/ Crash \/ Stops

StartSpec == StartInit /\ [][StartNext]_startVars

\* run goes on as long as it need not wait for the release server.
FairStartSpec == StartSpec /\ WF_startVars(Startup)

-----------------------------------------------------------------------------
(* Properties. *)

Starting == pc \notin {"down", "serving"}

StartTypeOK ==
    /\ tmp \subseteq Traces \X {"req", "resp"}
    /\ traces \in [Traces -> {"new", "half", "open", "done"}]
    /\ mine \in NoToken..tokens
    /\ setting \in Settings /\ torn \subseteq Pins
    /\ source \in {Unset, "disabled", "local", "error", "cache", "fetched"}

Wiped == pc \notin {"down", "wipe"}

\* Behind the wipe, tmp has no file of a trace of an earlier process, and the files of
\* every trace that is under way (NewTmpDir before anything is captured).
TmpIsOwn ==
    /\ Wiped /\ pc # "serving" => tmp = {}
    /\ \A t \in Traces : traces[t] = "open" => {t} \X {"req", "resp"} \subseteq tmp

PastToken == pc \in {"registry", "viewer", "resolve", "download", "stream", "verify", "extract", "entry", "listen", "serving"}

\* Whatever token has been printed since the operator last removed the file is the one
\* that the process goes by, over any number of crashes and restarts (EnsureToken and
\* its caller).
TokenStands == PastToken => printed \subseteq {mine}

Files(r) == {Target(r, i) : i \in DOMAIN Archive[r]}

\* What is unpacked under a pin is of the release that was pinned, however downloads,
\* crashes and restarts follow each other (ensureCache's verification).
OnlyPinnedUnpacked == \A p \in Pins : \A f \in DOMAIN dist[p] : dist[p][f].of = p

IsWhole(p) ==
    /\ DOMAIN dist[p] = Files(p)
    /\ \A f \in DOMAIN dist[p] : dist[p][f].whole

\* A viewer that is served out of the cache directory is the pinned one and all there,
\* and one that is not leaves nothing behind, unless the fetch was cut off by a crash or
\* its clean-up failed (ensureCache).
ViewerWholeOrNone ==
    /\ OnlyPinnedUnpacked
    /\ pc = "serving" /\ setting \in Pins \ torn =>
        /\ zip[setting] = Absent
        /\ IF source = "error" THEN dist[setting] = NoFiles ELSE IsWhole(setting)

\* A fetch that a server does not answer ends all the same, and with it the start.
StartEnds == Starting ~> ~ Starting

(* What comments say, and the code does not keep. *)

\* fetch.go:49: there is a verified tree when ensureCache is content with what it finds.
CacheHitVerified == pc = "serving" /\ source = "cache" => IsWhole(setting)

\* token.go:66: the token is one that EnsureToken has generated.
TokenIsWhole == PastToken => mine # CutToken
=============================================================================
