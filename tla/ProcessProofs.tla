---------------------------- MODULE ProcessProofs ----------------------------
(***************************************************************************)
(* The start and the end of a process, proved.  Whatever the               *)
(* configurations, the releases and the crashes, tmp is the process's own, *)
(* a token that was printed stands, and a viewer is whole or none.  And    *)
(* what a signalled process owes its records, for any number of requests,  *)
(* any channel capacity and any number of rotations.                       *)
(***************************************************************************)
EXTENDS Startup, Shutdown, TLAPS

-----------------------------------------------------------------------------
(* The start. *)

\* The wipe is over before a trace is captured, and a trace has its files while it is
\* under way.
TmpInv ==
    /\ traces \in [Traces -> {"new", "half", "open", "done"}]
    /\ Wiped /\ pc # "serving" => tmp = {}
    /\ pc # "serving" => \A t \in Traces : traces[t] \notin {"half", "open"}
    /\ \A t \in Traces :
        /\ traces[t] \in {"half", "open"} => <<t, "req">> \in tmp
        /\ traces[t] = "open" => <<t, "resp">> \in tmp

\* What was printed is in the file, and the file is what the process goes by unless it
\* was removed.
TokenInv ==
    /\ tokens \in Nat
    /\ printed \subseteq {file}
    /\ file \in {NoToken, EmptyToken} => printed = {}
    /\ pc \in {"tokenWrite", "tokenPrint"} => printed = {} /\ mine \in Nat \ {0}
    /\ pc = "tokenPrint" => file = mine
    /\ PastToken => file \in {mine, NoToken}

Fetching == pc \in {"resolve", "download", "stream", "verify"}
Unpacking == pc \in {"extract", "entry"}

\* The entries in front of the one that is extracted are there, and that one may be half.
Unpacked(p) ==
    /\ DOMAIN dist[p] \subseteq Files(p)
    /\ \A i \in DOMAIN Archive[p] : i < at => Target(p, i) \in DOMAIN dist[p]
    /\ \A f \in DOMAIN dist[p] : dist[p][f].whole \/ (pc = "entry" /\ f = Target(p, at))

\* The files of a pin: all or none, but for the one that is unpacked.
Tidy(p) ==
    IF Unpacking /\ setting = p THEN Unpacked(p)
    ELSE dist[p] = NoFiles \/ IsWhole(p)

Settled ==
    pc \in {"listen", "serving"} /\ setting \in Pins \ torn =>
        IF source = "error" THEN dist[setting] = NoFiles ELSE IsWhole(setting)

ViewerInv ==
    /\ dist = [p \in Pins |-> dist[p]] /\ zip = [p \in Pins |-> zip[p]]
    /\ torn \subseteq Pins
    /\ OnlyPinnedUnpacked
    /\ Fetching \/ Unpacking => setting \in Pins
    /\ Fetching => Index \notin DOMAIN dist[setting]
    /\ Unpacking => zip[setting] = setting /\ at \in 1..(Len(Archive[setting]) + 1)
    /\ pc = "entry" => at \in DOMAIN Archive[setting]
    /\ \A p \in Pins \ torn :
        /\ Tidy(p)
        /\ zip[p] = Absent \/ (setting = p /\ pc \in {"stream", "verify", "extract", "entry"})
    /\ Settled

-----------------------------------------------------------------------------
(* tmp. *)

LEMMA TmpInit == StartInit => TmpInv
  BY DEF StartInit, TmpInv, Wiped

\* Steps that leave tmp and the traces alone, and lead from behind the wipe to behind it
\* or into the listeners.
LEMMA TmpQuiet ==
    ASSUME TmpInv, UNCHANGED <<tmp, traces>>,
           pc' = pc \/ (Wiped /\ pc # "serving") \/ pc' \in {"down", "wipe"},
           pc = "serving" => pc' = "serving"
    PROVE  TmpInv'
  BY DEF TmpInv, Wiped

LEMMA TmpStep == TmpInv /\ [StartNext]_startVars => TmpInv'
  <1> SUFFICES ASSUME TmpInv, [StartNext]_startVars PROVE TmpInv'
    OBVIOUS
  <1>1. CASE Starts
    BY <1>1, TmpQuiet DEF Starts, Moves
  <1>2. CASE Wipes
    BY <1>2 DEF Wipes, Moves, TmpInv, Wiped
  <1>3. CASE OpensStore \/ ReadsToken \/ CreatesToken \/ WritesToken \/ PrintsToken \/ BuildsRegistry \/ Listens
    BY <1>3, TmpQuiet DEF OpensStore, ReadsToken, CreatesToken, WritesToken, PrintsToken, BuildsRegistry, Listens, Moves, Wiped
  <1>4. CASE RefusesToken \/ FailsToken \/ \E step \in {"wipe", "sqlite", "registry", "listen"} : Fails(step)
    BY <1>4, TmpQuiet DEF RefusesToken, FailsToken, Fails, Moves
  <1>5. CASE Unfetched \/ CacheHit \/ CacheMiss \/ Resolves \/ ResolveFails \/ CreatesZip \/ DownloadFails \/ Downloads
    BY <1>5, TmpQuiet DEF Unfetched, CacheHit, CacheMiss, Resolves, ResolveFails, CreatesZip, DownloadFails, Downloads,
                          Settles, Moves, ViewerFrame, Wiped
  <1>6. CASE Verifies \/ CreatesEntry \/ WritesEntry \/ ExtractFails \/ Extracted
    BY <1>6, TmpQuiet DEF Verifies, CreatesEntry, WritesEntry, ExtractFails, Extracted, Settles, Moves, ViewerFrame, Wiped
  <1>7. ASSUME NEW t \in Traces, CreatesFile(t) \/ TraceEnds(t)
        PROVE  TmpInv'
    BY <1>7 DEF CreatesFile, TraceEnds, TraceFrame, TmpInv, Wiped
  <1>8. CASE RemovesToken
    BY <1>8, TmpQuiet DEF RemovesToken, viewerVars
  <1>9. CASE Crash \/ Stops
    BY <1>9 DEF Crash, Stops, Ends, TmpInv, Wiped
  <1>10. CASE UNCHANGED startVars
    BY <1>10, TmpQuiet DEF startVars
  <1> QED
    BY <1>1, <1>2, <1>3, <1>4, <1>5, <1>6, <1>7, <1>8, <1>9, <1>10 DEF StartNext, Startup, Network, GivesUp

\* TmpIsOwn always holds: whichever process died with whatever in tmp, the next one
\* captures into files of its own (NewTmpDir, CreateTraceFiles).
THEOREM TmpAlwaysOwn == StartSpec => []TmpIsOwn
  <1>1. ASSUME TmpInv, NEW t \in Traces, traces[t] = "open"
        PROVE  {t} \X {"req", "resp"} \subseteq tmp
    <2>1. <<t, "req">> \in tmp /\ <<t, "resp">> \in tmp
      BY <1>1 DEF TmpInv
    <2> QED BY <2>1
  <1>2. TmpInv => TmpIsOwn
    BY <1>1 DEF TmpInv, TmpIsOwn
  <1> QED BY <1>2, TmpInit, TmpStep, PTL DEF StartSpec

-----------------------------------------------------------------------------
(* The admin token. *)

LEMMA TokenInit == StartInit => TokenInv
  BY DEF StartInit, TokenInv, PastToken, NoToken

\* Steps that leave the token alone, among those of a running process or to its end.
LEMMA TokenQuiet ==
    ASSUME TokenInv, UNCHANGED <<file, tokens, printed>>,
           mine' = mine /\ (PastToken \/ ~ PastToken'), pc' \notin {"tokenWrite", "tokenPrint"} \/ pc' = pc
    PROVE  TokenInv'
  BY DEF TokenInv, PastToken

LEMMA TokenDown ==
    ASSUME TokenInv, UNCHANGED <<file, tokens, printed>>, pc' = "down"
    PROVE  TokenInv'
  BY DEF TokenInv, PastToken

LEMMA TokenStep == TokenInv /\ [StartNext]_startVars => TokenInv'
  <1> SUFFICES ASSUME TokenInv, [StartNext]_startVars PROVE TokenInv'
    OBVIOUS
  <1>1. CASE Starts \/ Wipes \/ OpensStore
    BY <1>1, TokenQuiet DEF Starts, Wipes, OpensStore, Moves, PastToken, tokenVars
  <1>2. CASE ReadsToken
    BY <1>2 DEF ReadsToken, Moves, TokenInv, PastToken
  <1>3. CASE CreatesToken
    BY <1>3 DEF CreatesToken, Moves, TokenInv, PastToken, NoToken, EmptyToken
  <1>4. CASE WritesToken
    BY <1>4 DEF WritesToken, Moves, TokenInv, PastToken
  <1>5. CASE PrintsToken
    BY <1>5 DEF PrintsToken, Moves, TokenInv, PastToken, NoToken, EmptyToken
  <1>6. CASE FailsToken
    BY <1>6 DEF FailsToken, Moves, TokenInv, PastToken
  <1>7. CASE RefusesToken \/ \E step \in {"wipe", "sqlite", "registry", "listen"} : Fails(step)
    BY <1>7, TokenDown DEF RefusesToken, Fails, Moves
  <1>8. CASE BuildsRegistry \/ Listens
    BY <1>8, TokenQuiet DEF BuildsRegistry, Listens, Moves, PastToken, tokenVars
  <1>9. CASE Unfetched \/ CacheHit \/ CacheMiss \/ Resolves \/ ResolveFails \/ CreatesZip \/ DownloadFails \/ Downloads
    BY <1>9, TokenQuiet DEF Unfetched, CacheHit, CacheMiss, Resolves, ResolveFails, CreatesZip, DownloadFails, Downloads,
                            Settles, Moves, ViewerFrame, PastToken, tokenVars
  <1>10. CASE Verifies \/ CreatesEntry \/ WritesEntry \/ ExtractFails \/ Extracted
    BY <1>10, TokenQuiet DEF Verifies, CreatesEntry, WritesEntry, ExtractFails, Extracted,
                             Settles, Moves, ViewerFrame, PastToken, tokenVars
  <1>11. ASSUME NEW t \in Traces, CreatesFile(t) \/ TraceEnds(t)
         PROVE  TokenInv'
    BY <1>11, TokenQuiet DEF CreatesFile, TraceEnds, TraceFrame, PastToken, tokenVars
  <1>12. CASE RemovesToken
    BY <1>12 DEF RemovesToken, TokenInv, PastToken
  <1>13. CASE Crash \/ Stops
    BY <1>13, TokenDown DEF Crash, Stops, Ends
  <1>14. CASE UNCHANGED startVars
    BY <1>14, TokenQuiet DEF startVars, tokenVars, PastToken
  <1> QED
    BY <1>1, <1>2, <1>3, <1>4, <1>5, <1>6, <1>7, <1>8, <1>9, <1>10, <1>11, <1>12, <1>13, <1>14
    DEF StartNext, Startup, Network, GivesUp

\* TokenStands always holds: any number of crashes between the creation, the write and the
\* print of a token, and any number of starts, leave a printed one in force (EnsureToken).
THEOREM TokenAlwaysStands == StartSpec => []TokenStands
  <1>1. TokenInv => TokenStands
    BY DEF TokenInv, TokenStands
  <1> QED BY <1>1, TokenInit, TokenStep, PTL DEF StartSpec

-----------------------------------------------------------------------------
(* The viewer. *)

LEMMA ViewerInit == StartInit => ViewerInv
  <1> SUFFICES ASSUME StartInit PROVE ViewerInv
    OBVIOUS
  <1>1. \A p \in Pins : dist[p] = NoFiles /\ DOMAIN dist[p] = {} /\ zip[p] = Absent
    BY DEF StartInit, NoFiles
  <1>2. OnlyPinnedUnpacked
    BY <1>1 DEF OnlyPinnedUnpacked
  <1> QED BY <1>1, <1>2 DEF StartInit, ViewerInv, Fetching, Unpacking, Tidy, Settled

\* Steps of which the viewer sees nothing.
LEMMA ViewerQuiet ==
    ASSUME ViewerInv, UNCHANGED viewerVars,
           pc \notin {"resolve", "download", "stream", "verify", "extract", "entry"} \/ pc' = pc,
           pc' \notin {"resolve", "download", "stream", "verify", "extract", "entry"} \/ pc' = pc,
           pc' \in {"listen", "serving"} => pc \in {"listen", "serving"}
    PROVE  ViewerInv'
  BY ZenonT(60) DEF ViewerInv, viewerVars, Fetching, Unpacking, OnlyPinnedUnpacked, Tidy, Settled, IsWhole, Unpacked

\* Steps that leave the cache as it is outside of a fetch.
LEMMA ViewerRests ==
    ASSUME ViewerInv, UNCHANGED <<dist, zip>>, torn \subseteq torn', torn' \subseteq Pins,
           pc' \in {"down", "wipe"},
           pc \in {"stream", "verify", "extract", "entry"} => setting \in torn'
    PROVE  ViewerInv'
  BY DEF ViewerInv, Fetching, Unpacking, OnlyPinnedUnpacked, Tidy, Settled, IsWhole, Unpacked

\* A pin has its index in a tree that is whole.
LEMMA WholeHasIndex ==
    ASSUME NEW p \in Pins, IsWhole(p)
    PROVE  Index \in DOMAIN dist[p]
  BY PinsAssumption DEF IsWhole, Files

\* The creation and the write of one entry.
LEMMA EntryKeeps ==
    ASSUME ViewerInv, NEW whole \in BOOLEAN, Unpacks(whole), UNCHANGED <<setting, zip, source, torn>>,
           IF whole THEN pc = "entry" /\ pc' = "extract" /\ at' = at + 1
           ELSE pc = "extract" /\ pc' = "entry" /\ at' = at
    PROVE  ViewerInv'
  <1> DEFINE p == setting
             t == Target(p, at)
             new == [f \in DOMAIN dist[p] \cup {t} |-> IF f = t THEN Content(p, whole) ELSE dist[p][f]]
  <1>1. p \in Pins /\ zip[p] = p /\ Len(Archive[p]) \in Nat /\ DOMAIN Archive[p] = 1..Len(Archive[p])
    BY StartupAssumption DEF ViewerInv, Unpacking
  <1>2. at \in DOMAIN Archive[p] /\ dist' = [dist EXCEPT ![p] = new]
    BY <1>1 DEF Unpacks
  <1>3. dist'[p] = new /\ \A q \in Pins \ {p} : dist'[q] = dist[q]
    BY <1>1, <1>2 DEF ViewerInv
  <1>4. /\ DOMAIN new = DOMAIN dist[p] \cup {t}
        /\ \A f \in DOMAIN new : new[f] = IF f = t THEN Content(p, whole) ELSE dist[p][f]
    OBVIOUS
  <1> HIDE DEF new
  <1>5. \A f \in DOMAIN new : new[f].of = p
    BY <1>1, <1>4 DEF ViewerInv, OnlyPinnedUnpacked, Content
  <1>6. OnlyPinnedUnpacked'
    BY <1>3, <1>5 DEF ViewerInv, OnlyPinnedUnpacked
  <1>7. p \notin torn => Unpacked(p)'
    <2> SUFFICES ASSUME p \notin torn PROVE Unpacked(p)'
      OBVIOUS
    <2>1. Unpacked(p)
      BY <1>1 DEF ViewerInv, Unpacking, Tidy
    <2>2. t \in Files(p)
      BY <1>2 DEF Files
    <2>3. DOMAIN new \subseteq Files(p)
      BY <1>4, <2>1, <2>2 DEF Unpacked
    <2>4. \A i \in DOMAIN Archive[p] : i < at' => Target(p, i) \in DOMAIN new
      <3> SUFFICES ASSUME NEW i \in DOMAIN Archive[p], i < at' PROVE Target(p, i) \in DOMAIN new
        OBVIOUS
      <3>1. i < at \/ i = at
        BY <1>1, <1>2
      <3> QED BY <1>4, <2>1, <3>1 DEF Unpacked
    <2>5. \A f \in DOMAIN new : new[f].whole \/ (pc' = "entry" /\ f = t)
      BY <1>4, <2>1 DEF Unpacked, Content
    <2>6. pc' = "entry" => Target(p, at)' = t
      BY DEF Target
    <2> QED BY <1>3, <2>3, <2>4, <2>5, <2>6 DEF Unpacked, Files, Target
  <1>8. \A q \in (Pins \ torn) \ {p} : Tidy(q)'
    BY <1>3 DEF ViewerInv, Tidy, IsWhole
  <1>9. (\A q \in Pins \ torn : Tidy(q))'
    BY <1>7, <1>8 DEF Tidy, Unpacking
  <1>10. dist' = [q \in Pins |-> dist'[q]]
    BY <1>2 DEF ViewerInv
  <1>11. at' \in 1..(Len(Archive[p]) + 1)
    BY <1>1, <1>2
  <1> QED BY <1>1, <1>2, <1>6, <1>9, <1>10, <1>11 DEF ViewerInv, Fetching, Unpacking, Settled

LEMMA ViewerStep == ViewerInv /\ [StartNext]_startVars => ViewerInv'
  <1> SUFFICES ASSUME ViewerInv, [StartNext]_startVars PROVE ViewerInv'
    OBVIOUS
  <1>1. CASE Starts
    BY <1>1, ViewerRests DEF Starts, Moves, ViewerInv
  <1>2. CASE Wipes \/ OpensStore \/ ReadsToken \/ CreatesToken \/ WritesToken \/ PrintsToken \/ BuildsRegistry \/ Listens
    BY <1>2, ViewerQuiet DEF Wipes, OpensStore, ReadsToken, CreatesToken, WritesToken, PrintsToken, BuildsRegistry, Listens, Moves
  <1>3. CASE RefusesToken \/ FailsToken \/ \E step \in {"wipe", "sqlite", "registry", "listen"} : Fails(step)
    BY <1>3, ViewerRests DEF RefusesToken, FailsToken, Fails, Moves, ViewerInv
  <1>4. CASE Unfetched
    BY <1>4, StartupAssumption DEF Unfetched, Settles, Moves, ViewerFrame, ViewerInv, Fetching, Unpacking,
                                   OnlyPinnedUnpacked, Tidy, Settled, IsWhole, Unpacked
  <1>5. CASE CacheHit
    <2>1. setting \in Pins \ torn => IsWhole(setting)
      BY <1>5 DEF CacheHit, Settles, Moves, ViewerInv, Tidy, Unpacking, NoFiles
    <2> QED BY <1>5, <2>1 DEF CacheHit, Settles, Moves, ViewerFrame, ViewerInv, Fetching, Unpacking,
                              OnlyPinnedUnpacked, Tidy, Settled, IsWhole, Unpacked
  <1>6. CASE CacheMiss \/ Resolves
    BY <1>6 DEF CacheMiss, Resolves, Moves, ViewerFrame, ViewerInv, Fetching, Unpacking,
                OnlyPinnedUnpacked, Tidy, Settled, IsWhole, Unpacked
  <1>7. Fetching => setting \in Pins /\ (setting \notin torn => dist[setting] = NoFiles)
    BY WholeHasIndex DEF ViewerInv, Fetching, Unpacking, Tidy
  <1>8. CASE CreatesZip \/ Downloads
    BY <1>8 DEF CreatesZip, Downloads, Moves, ViewerFrame, ViewerInv, Fetching, Unpacking,
                OnlyPinnedUnpacked, Tidy, Settled, IsWhole, Unpacked
  <1>9. CASE ResolveFails \/ DownloadFails
    BY <1>7, <1>9 DEF ResolveFails, DownloadFails, Settles, Moves, ViewerFrame, ViewerInv, Fetching, Unpacking,
                      OnlyPinnedUnpacked, Tidy, Settled, IsWhole, Unpacked
  <1>l. \A p \in Pins : Archive[p] \in Seq(Seq(STRING)) /\ Len(Archive[p]) \in Nat /\ DOMAIN Archive[p] = 1..Len(Archive[p])
    BY StartupAssumption
  <1>10. CASE Verifies
    <2>1. CASE zip[setting] = setting
      <3>1. Moves("verify", "extract") /\ at' = 1 /\ UNCHANGED <<setting, dist, zip, source, torn>>
        BY <1>10, <2>1 DEF Verifies, ViewerFrame
      <3>2. setting \in Pins /\ (setting \notin torn => Unpacked(setting)')
        BY <1>7, <1>l, <3>1 DEF Moves, Fetching, Unpacked, NoFiles
      <3> QED BY <1>l, <2>1, <3>1, <3>2 DEF Moves, ViewerInv, Fetching, Unpacking, OnlyPinnedUnpacked, Tidy, Settled, IsWhole
    <2>2. CASE zip[setting] # setting
      BY <1>7, <1>10, <2>2 DEF Verifies, Settles, Moves, ViewerFrame, ViewerInv, Fetching, Unpacking,
                               OnlyPinnedUnpacked, Tidy, Settled, IsWhole, Unpacked
    <2> QED BY <2>1, <2>2
  <1>11. CASE CreatesEntry
    <2>1. /\ pc = "extract" /\ pc' = "entry"
          /\ Unpacks(FALSE) /\ UNCHANGED <<setting, zip, at, source, torn>>
      BY <1>11 DEF CreatesEntry, Moves, ViewerFrame
    <2> QED BY <2>1, EntryKeeps
  <1>12. CASE WritesEntry
    <2>1. /\ pc = "entry" /\ pc' = "extract"
          /\ Unpacks(TRUE) /\ at' = at + 1 /\ UNCHANGED <<setting, zip, source, torn>>
      BY <1>12 DEF WritesEntry, Moves, ViewerFrame
    <2> QED BY <2>1, EntryKeeps
  <1>13. CASE ExtractFails
    BY <1>13, SMTT(60) DEF ExtractFails, Settles, Moves, ViewerFrame, ViewerInv, Fetching, Unpacking,
                      OnlyPinnedUnpacked, Tidy, Settled, IsWhole, Unpacked, NoFiles
  <1>14. CASE Extracted
    <2>1. /\ pc = "extract" /\ pc' = "listen" /\ source' = "fetched" /\ UNCHANGED <<setting, dist, torn>>
          /\ zip' = [zip EXCEPT ![setting] = Absent] /\ at \notin DOMAIN Archive[zip[setting]]
      BY <1>14 DEF Extracted, Settles, Moves, ViewerFrame
    <2>2. /\ setting \in Pins /\ zip[setting] = setting
          /\ \A i \in DOMAIN Archive[setting] : i < at
      BY <1>l, <2>1 DEF ViewerInv, Unpacking
    <2>3. setting \notin torn => IsWhole(setting)
      BY <2>1, <2>2 DEF ViewerInv, Unpacking, Tidy, Unpacked, IsWhole, Files
    <2> QED BY <2>1, <2>2, <2>3 DEF ViewerInv, Fetching, Unpacking, OnlyPinnedUnpacked, Tidy, Settled, IsWhole
  <1>15. ASSUME NEW t \in Traces, CreatesFile(t) \/ TraceEnds(t)
         PROVE  ViewerInv'
    BY <1>15, ViewerQuiet DEF CreatesFile, TraceEnds, TraceFrame
  <1>16. CASE RemovesToken
    BY <1>16, ViewerQuiet DEF RemovesToken
  <1>17. CASE Crash \/ Stops
    BY <1>17, ViewerRests DEF Crash, Stops, Ends, ViewerInv, Fetching, Unpacking
  <1>18. CASE UNCHANGED startVars
    BY <1>18, ViewerQuiet DEF startVars
  <1> QED
    BY <1>1, <1>2, <1>3, <1>4, <1>5, <1>6, <1>8, <1>9, <1>10, <1>11, <1>12, <1>13, <1>14, <1>15, <1>16, <1>17, <1>18
    DEF StartNext, Startup, Network, GivesUp

\* ViewerWholeOrNone always holds, for any releases and whichever of them a server hands
\* out: what is unpacked under a pin is of the release that was pinned, and all there
\* when it is served (ensureCache).
THEOREM ViewerAlwaysWhole == StartSpec => []ViewerWholeOrNone
  <1>1. ViewerInv => ViewerWholeOrNone
    BY DEF ViewerInv, ViewerWholeOrNone, Settled
  <1> QED BY <1>1, ViewerInit, ViewerStep, PTL DEF StartSpec

-----------------------------------------------------------------------------
(* The end.  AcceptedIsWritten is not inductive: it needs that the channel *)
(* is closed before main waits for the writer, that a writer that is done  *)
(* left the channel empty, and that nothing is queued on a closed channel. *)
(* That is IInv = TypeOK /\ RecordsAccounted /\ StopOrder.                 *)

LEMMA InitIInv == Init => IInv
<1> SUFFICES ASSUME Init PROVE IInv
  OBVIOUS
<1>1. TypeOK
  <2>1. chan \in 0..ChanCap /\ gzRun + gzLeft <= MaxGzip /\ gzRun \in Nat /\ gzLeft \in Nat
    BY ShutdownAssumption DEF Init
  <2>2. rpc \in [Requests -> RequestPCs] /\ qpc \in [Queries -> {"new", "serving", "over"}]
    BY DEF Init, RequestPCs
  <2>3. accepted \in Nat /\ written \in Nat
    BY DEF Init
  <2> QED BY <2>1, <2>2, <2>3, Zenon DEF Init, TypeOK, MainPCs
<1>2. RecordsAccounted
  BY DEF Init, RecordsAccounted
<1>3. StopOrder
  BY DEF Init, StopOrder
<1> QED BY <1>1, <1>2, <1>3 DEF IInv

\* A move of a request, with whatever it does to the channel.
LEMMA RequestKeeps ==
  ASSUME IInv, NEW r \in Requests,
         RequestArrives(r) \/ RequestFinalizes(r) \/ PluginsAnswer(r) \/ TrySend(r)
  PROVE  IInv'
<1> USE ShutdownAssumption
<1> USE DEF IInv, TypeOK, RecordsAccounted, StopOrder, MainPCs, RequestPCs, RequestMoves,
            writerVars, chanVars, ownVars, Running
<1>1. CASE RequestArrives(r)
  BY <1>1 DEF RequestArrives
<1>2. CASE RequestFinalizes(r)
  BY <1>2 DEF RequestFinalizes
<1>3. CASE PluginsAnswer(r)
  BY <1>3 DEF PluginsAnswer
<1>4. CASE TrySend(r)
  <2>1. CASE ~ chanClosed /\ chan < ChanCap
    BY <1>4, <2>1 DEF TrySend
  <2>2. CASE ~ (~ chanClosed /\ chan < ChanCap)
    BY <1>4, <2>2 DEF TrySend
  <2> QED BY <2>1, <2>2
<1> QED BY <1>1, <1>2, <1>3, <1>4

LEMMA QueryKeeps ==
  ASSUME IInv, NEW q \in Queries, QueryArrives(q) \/ QueryEnds(q)
  PROVE  IInv'
  BY ShutdownAssumption
  DEF IInv, TypeOK, RecordsAccounted, StopOrder, MainPCs, RequestPCs, QueryArrives, QueryEnds,
      QueryMoves, writerVars, chanVars, ownVars, Running

LEMMA WriterKeeps ==
  ASSUME IInv, WriterStep \/ GzipEnds
  PROVE  IInv'
<1> USE ShutdownAssumption
<1> USE DEF IInv, TypeOK, RecordsAccounted, StopOrder, MainPCs, RequestPCs, WriterFrame,
            serveVars, ownVars, Running
<1>1. CASE WriterTakes
  BY <1>1 DEF WriterTakes
<1>2. CASE WriterAppends
  BY <1>2 DEF WriterAppends
<1>3. CASE WriterEnds
  BY <1>3 DEF WriterEnds
<1>4. CASE GzipEnds
  BY <1>4 DEF GzipEnds
<1> QED BY <1>1, <1>2, <1>3, <1>4 DEF WriterStep

LEMMA MonitorKeeps ==
  ASSUME IInv, MonitorTicks \/ MonitorRests \/ MonitorStops
  PROVE  IInv'
  BY ShutdownAssumption
  DEF IInv, TypeOK, RecordsAccounted, StopOrder, MainPCs, RequestPCs, MonitorTicks,
      MonitorRests, MonitorStops, MonitorMoves, serveVars, writerVars, chanVars, ownVars, Running

LEMMA MainKeeps ==
  ASSUME IInv, Signal \/ ListenerFails \/ GraceExpires \/ MainStep
  PROVE  IInv'
<1> USE ShutdownAssumption
<1> USE DEF IInv, TypeOK, RecordsAccounted, StopOrder, MainPCs, RequestPCs, MainFrame,
            serveVars, writerVars, chanVars, ownVars
<1>1. CASE Signal
  BY <1>1 DEF Signal
<1>6. CASE ListenerFails
  BY <1>6 DEF ListenerFails
<1>7. CASE GraceExpires
  BY <1>7 DEF GraceExpires
<1>2. CASE ProxyDown \/ ApiDown
  BY <1>2 DEF ProxyDown, ApiDown
<1>3. CASE ClosesChannel
  BY <1>3 DEF ClosesChannel
<1>4. CASE WriterDrained \/ GzipDrained
  BY <1>4 DEF WriterDrained, GzipDrained
<1>5. CASE ClosesPlugins \/ ClosesStore
  BY <1>5 DEF ClosesPlugins, ClosesStore
<1> QED BY <1>1, <1>2, <1>3, <1>4, <1>5, <1>6, <1>7 DEF MainStep

LEMMA NextIInv == IInv /\ [Next]_vars => IInv'
<1> SUFFICES ASSUME IInv, [Next]_vars PROVE IInv'
  OBVIOUS
<1>1. CASE UNCHANGED vars
  BY <1>1 DEF vars, serveVars, writerVars, chanVars, ownVars, IInv, TypeOK,
              RecordsAccounted, StopOrder
<1>2. CASE Next
  BY <1>2, RequestKeeps, QueryKeeps, WriterKeeps, MonitorKeeps, MainKeeps DEF Next
<1> QED BY <1>1, <1>2

THEOREM Invariance == Spec => []IInv
  BY InitIInv, NextIInv, PTL DEF Spec

\* Type correctness.
THEOREM TypeCorrect == Spec => []TypeOK
<1>1. IInv => TypeOK BY DEF IInv
<1> QED BY <1>1, Invariance, PTL

\* Whatever handlers are still sending while main shuts down, a process that
\* exits on a signal has written every record that TrySend accepted.
THEOREM NothingAcceptedIsLost == Spec => []AcceptedIsWritten
<1>1. IInv => AcceptedIsWritten
  BY DEF IInv, TypeOK, RecordsAccounted, StopOrder, AcceptedIsWritten
<1> QED BY <1>1, Invariance, PTL

\* The store is closed only after the writer and every gzip worker are gone.
THEOREM StoreClosedLast == Spec => []StoreOutlivesWriter
<1>1. IInv => StoreOutlivesWriter
  BY DEF IInv, StopOrder, StoreOutlivesWriter
<1> QED BY <1>1, Invariance, PTL

-----------------------------------------------------------------------------
(* What the grace period buys.  OrderlyWithinGrace needs that a main which  *)
(* left the proxy within the grace has seen every handler return, that no   *)
(* request arrives after that, and that the plugins close after the channel.*)

GraceInv ==
    /\ main \in {"api", "close"} \/ chanClosed => graceOver \/ ProxyIdle
    /\ ~ pluginsOpen => chanClosed
    /\ ~ graceOver => \A r \in Requests : rpc[r] # "panicked"

LEMMA InitGrace == Init => GraceInv
  BY DEF Init, GraceInv

LEMMA RequestKeepsGrace ==
  ASSUME IInv, GraceInv, NEW r \in Requests,
         RequestArrives(r) \/ RequestFinalizes(r) \/ PluginsAnswer(r) \/ TrySend(r)
  PROVE  GraceInv'
<1> USE DEF IInv, TypeOK, StopOrder, GraceInv, ProxyIdle, RequestMoves, chanVars, ownVars
<1>1. CASE RequestArrives(r)
  BY <1>1 DEF RequestArrives
<1>2. CASE RequestFinalizes(r)
  BY <1>2 DEF RequestFinalizes
<1>3. CASE PluginsAnswer(r)
  BY <1>3 DEF PluginsAnswer
<1>4. CASE TrySend(r)
  \* A handler that is sending at a closed channel: the grace is over.
  BY <1>4 DEF TrySend
<1> QED BY <1>1, <1>2, <1>3, <1>4

LEMMA MainKeepsGrace ==
  ASSUME IInv, GraceInv, Signal \/ ListenerFails \/ GraceExpires \/ MainStep
  PROVE  GraceInv'
<1> USE DEF IInv, TypeOK, StopOrder, GraceInv, ProxyIdle, MainFrame, serveVars, writerVars,
            chanVars, ownVars
<1>1. CASE Signal \/ ListenerFails \/ GraceExpires
  BY <1>1 DEF Signal, ListenerFails, GraceExpires
<1>2. CASE ProxyDown \/ ApiDown
  BY <1>2 DEF ProxyDown, ApiDown
<1>3. CASE ClosesChannel
  BY <1>3 DEF ClosesChannel
<1>4. CASE WriterDrained \/ GzipDrained
  BY <1>4 DEF WriterDrained, GzipDrained
<1>5. CASE ClosesPlugins \/ ClosesStore
  BY <1>5 DEF ClosesPlugins, ClosesStore
<1> QED BY <1>1, <1>2, <1>3, <1>4, <1>5 DEF MainStep

LEMMA NextGrace == IInv /\ GraceInv /\ [Next]_vars => GraceInv'
<1> SUFFICES ASSUME IInv, GraceInv, [Next]_vars PROVE GraceInv'
  OBVIOUS
<1>1. ASSUME UNCHANGED <<main, graceOver, rpc, chanClosed, pluginsOpen>>
      PROVE  GraceInv'
  BY <1>1 DEF GraceInv, ProxyIdle
<1>2. CASE UNCHANGED vars
  BY <1>1, <1>2 DEF vars, serveVars, chanVars, ownVars
<1>3. CASE \E q \in Queries : QueryArrives(q) \/ QueryEnds(q)
  BY <1>1, <1>3 DEF QueryArrives, QueryEnds, QueryMoves, chanVars, ownVars
<1>4. CASE WriterStep \/ GzipEnds
  BY <1>1, <1>4 DEF WriterStep, WriterTakes, WriterAppends, WriterEnds, GzipEnds, WriterFrame,
                    serveVars, ownVars
<1>5. CASE MonitorTicks \/ MonitorRests \/ MonitorStops
  BY <1>1, <1>5 DEF MonitorTicks, MonitorRests, MonitorStops, MonitorMoves, serveVars, chanVars,
                    ownVars
<1> QED BY <1>2, <1>3, <1>4, <1>5, RequestKeepsGrace, MainKeepsGrace DEF Next

\* A shutdown that stays within its grace period is orderly: no handler, whatever
\* it was doing when the signal came, meets the closed channel in TrySend or asks a
\* plugin that runShutdownSequence has closed.
THEOREM OrderlyShutdown == Spec => []OrderlyWithinGrace
<1>1. IInv /\ GraceInv => OrderlyWithinGrace
  BY DEF GraceInv, ProxyIdle, OrderlyWithinGrace
<1> QED BY <1>1, Invariance, InitGrace, NextGrace, PTL DEF Spec
=============================================================================
