--------------------------- MODULE RuntimeConfig ---------------------------
(***************************************************************************)
(* The settings an operator changes at run time: runtime_overrides.json    *)
(* (internal/runtime/overrides.go), the PUT and DELETE handlers that       *)
(* rewrite it (internal/api: config.go, config_retention.go, plugins.go),  *)
(* what they change in the running process, and how the next process       *)
(* starts from it (cmd/api-log/main.go).  SaveOverride reads the file,     *)
(* writes a sibling whose name is always the same, and renames it, without *)
(* a lock; a file is an inode here, since a writer keeps writing to the    *)
(* one it has opened when another renames it.                              *)
(***************************************************************************)
EXTENDS Integers, FiniteSets

CONSTANTS
    Requests,       \* requests of the operator
    Bodies,         \* what they ask for
    MaxActive,      \* the most handlers that run at the same time
    MaxFailures,    \* file operations that fail
    MaxCrashes

Absent == -1
Knob == Absent..1
Lists == {"none", "empty", "good", "better", "bad"}

\* A list with a bad instance cannot be built.
Builds(list) == list # "bad"

\* The file's blocks; set tells an empty retention block from none.
Block == [set : BOOLEAN, bytes : Knob, age : Knob]
Overrides == [media : Knob, retention : Block, plugins : Lists]
NoBlock == [set |-> FALSE, bytes |-> Absent, age |-> Absent]
NoOverrides == [media |-> Absent, retention |-> NoBlock, plugins |-> "none"]

\* What a request can ask for; putConfigMedia refuses one that does not name the flag.
Asks == [op : {"media", "retention", "plugins", "patch", "delete"},
         on : Knob, bytes : Knob, age : Knob, list : Lists]

ASSUME RuntimeConfigAssumption ==
    /\ IsFiniteSet(Requests)
    /\ Bodies \subseteq Asks /\ \A b \in Bodies : b.op = "media" => b.on # Absent
    /\ MaxActive \in Nat \ {0} /\ MaxFailures \in Nat /\ MaxCrashes \in Nat

\* Every request opens at most two files, and a file has one of four states.
Files == 1..(2 * Cardinality(Requests))
NoFile == 0
Contents == [state : {"empty", "whole", "mixed"}, ov : Overrides]
Whole(ov) == [state |-> "whole", ov |-> ov]
Empty == [state |-> "empty", ov |-> NoOverrides]
Mixed == [state |-> "mixed", ov |-> NoOverrides]

VARIABLES
    content, used,          \* the inodes, and how many there have been
    path, tmp,              \* runtime_overrides.json and its .tmp sibling
    up,                     \* the process is running
    media, retention, registry,     \* what is in force
    pc, body, ov, prev, fd, rolling,    \* the handlers
    answer,                 \* what a request was told
    limit,                  \* how many of them this operator runs at the same time
    drift,                  \* a rollback that could not be written was logged
    failures, crashes

fileVars == <<content, used, path, tmp>>
liveVars == <<media, retention, registry>>
handlerVars == <<pc, body, ov, prev, fd, rolling, answer>>
given == <<body, limit>>
vars == <<fileVars, up, liveVars, handlerVars, limit, drift, failures, crashes>>

Val(x) == IF x = Absent THEN 0 ELSE x

\* DefaultMaxBytes and DefaultMaxAgeDays, unless there is a block.
Effective(block) ==
    IF block.set THEN [bytes |-> Val(block.bytes), age |-> Val(block.age)] ELSE [bytes |-> 1, age |-> 1]

\* A nil block leaves the plugins of the YAML file: none.
InForce(list) == IF list = "none" THEN "empty" ELSE list

\* LoadOverrides: a missing and an empty file are no override at all.
Readable == path \in {NoFile} \cup {f \in Files : content[f].state # "mixed"}
Read == IF path = NoFile THEN NoOverrides ELSE content[path].ov

Init ==
    /\ content = [f \in Files |-> Empty] /\ used = 0
    /\ path = NoFile /\ tmp = NoFile
    /\ up = TRUE
    /\ media = 0 /\ retention = Effective(NoBlock) /\ registry = "empty"
    /\ pc = [r \in Requests |-> "new"]
    /\ body \in [Requests -> Bodies] /\ limit \in 1..MaxActive
    /\ ov = [r \in Requests |-> NoOverrides] /\ prev = [r \in Requests |-> "none"]
    /\ fd = [r \in Requests |-> NoFile] /\ rolling = [r \in Requests |-> FALSE]
    /\ answer = [r \in Requests |-> "none"]
    /\ drift = FALSE /\ failures = 0 /\ crashes = 0

-----------------------------------------------------------------------------
(* The handlers. *)

Quiet == \A r \in Requests : pc[r] \in {"new", "done"}
Active == {r \in Requests : pc[r] \notin {"new", "done"}}

Goes(r, from, to) == up /\ pc[r] = from /\ pc' = [pc EXCEPT ![r] = to] /\ UNCHANGED <<up, crashes, given>>

\* The request is answered, and its handler is gone.
Answers(r, from, what) == Goes(r, from, "done") /\ answer' = [answer EXCEPT ![r] = what]

FirstStep(b) ==
    CASE b.op = "media" -> "load"
      [] b.op = "retention" -> "apply"
      [] b.op = "patch" -> "find"
      [] OTHER -> "prev"

Arrives(r) ==
    /\ Cardinality(Active) < limit
    /\ Goes(r, "new", FirstStep(body[r]))
    /\ UNCHANGED <<fileVars, liveVars, ov, prev, fd, rolling, answer, drift, failures>>

\* putConfigRetention: the coordinator first; an absent knob is zero.
AppliesRetention(r) ==
    /\ Goes(r, "apply", "load")
    /\ retention' = [bytes |-> Val(body[r].bytes), age |-> Val(body[r].age)]
    /\ UNCHANGED <<fileVars, media, registry, ov, prev, fd, rolling, answer, drift, failures>>

\* putConfigPluginInstance: there must be an instance to patch.
Finds(r) ==
    /\ \/ Readable /\ Read.plugins \notin {"none", "empty"} /\ Goes(r, "find", "prev") /\ UNCHANGED answer
       \/ ~ (Readable /\ Read.plugins \notin {"none", "empty"}) /\ Answers(r, "find", "error")
    /\ UNCHANGED <<fileVars, liveVars, ov, prev, fd, rolling, drift, failures>>

\* What a failed reload goes back to.
LoadsPrev(r) ==
    /\ \/ Readable /\ Goes(r, "prev", "load") /\ prev' = [prev EXCEPT ![r] = Read.plugins] /\ UNCHANGED answer
       \/ ~ Readable /\ Answers(r, "prev", "error") /\ UNCHANGED prev
    /\ UNCHANGED <<fileVars, liveVars, ov, fd, rolling, drift, failures>>

-----------------------------------------------------------------------------
(* SaveOverride. *)

\* The mutators the handlers give it.
Merged(old, b) ==
    [set |-> TRUE,
     bytes |-> IF b.bytes = Absent THEN old.bytes ELSE b.bytes,
     age |-> IF b.age = Absent THEN old.age ELSE b.age]

MutatedPlugins(r, list) ==
    CASE rolling[r] -> prev[r]
      [] ~ rolling[r] /\ body[r].op = "delete" -> "none"
      [] ~ rolling[r] /\ body[r].op = "patch" /\ list \in {"none", "empty"} -> list
      [] OTHER -> body[r].list

\* MUTANT: the block is written without its siblings.
MutatedAlone(r, old) ==
    CASE body[r].op = "media" -> [NoOverrides EXCEPT !.media = body[r].on]
      [] body[r].op = "retention" -> [NoOverrides EXCEPT !.retention = Merged(old.retention, body[r])]
      [] OTHER -> [NoOverrides EXCEPT !.plugins = MutatedPlugins(r, old.plugins)]

Mutated(r, old) ==
    CASE body[r].op = "media" -> [old EXCEPT !.media = body[r].on]
      [] body[r].op = "retention" -> [old EXCEPT !.retention = Merged(@, body[r])]
      [] OTHER -> [old EXCEPT !.plugins = MutatedPlugins(r, @)]

\* An error of SaveOverride ends the request; that of a rollback is only logged.
SaveFails(r, from) == Answers(r, from, "error") /\ drift' = (drift \/ rolling[r])

LoadsOverrides(r) ==
    /\ \/ /\ Readable /\ Goes(r, "load", "open")
          /\ ov' = [ov EXCEPT ![r] = Mutated(r, Read)]
          /\ UNCHANGED <<answer, drift>>
       \/ ~ Readable /\ SaveFails(r, "load") /\ UNCHANGED ov
    /\ UNCHANGED <<fileVars, liveVars, prev, fd, rolling, failures>>

\* MUTANT: without O_TRUNC.
OpensTmpOver(r) ==
    /\ Goes(r, "open", "write")
    /\ \/ tmp = NoFile /\ used' = used + 1 /\ tmp' = used'
       \/ tmp # NoFile /\ UNCHANGED <<used, tmp>>
    /\ fd' = [fd EXCEPT ![r] = tmp']
    /\ UNCHANGED <<content, path, liveVars, ov, prev, rolling, answer, drift, failures>>

\* O_CREATE and O_TRUNC: a sibling that is there already is emptied, whoever opened it.
OpensTmp(r) ==
    /\ Goes(r, "open", "write")
    /\ \/ /\ tmp = NoFile /\ used' = used + 1 /\ tmp' = used'
          /\ UNCHANGED content
       \/ /\ tmp # NoFile /\ content' = [content EXCEPT ![tmp] = Empty]
          /\ UNCHANGED <<used, tmp>>
    /\ fd' = [fd EXCEPT ![r] = tmp']
    /\ UNCHANGED <<path, liveVars, ov, prev, rolling, answer, drift, failures>>

\* The bytes go to the start of the file: over a longer text they leave its tail behind.
Writes(r) ==
    /\ Goes(r, "write", "rename")
    /\ \E c \in {Whole(ov[r]), Mixed} :
        /\ c = Mixed => content[fd[r]] \notin {Empty, Whole(ov[r])}
        /\ content' = [content EXCEPT ![fd[r]] = c]
    /\ UNCHANGED <<used, path, tmp, liveVars, ov, prev, fd, rolling, answer, drift, failures>>

\* The disk is full: what was opened stays.
WriteFails(r) ==
    /\ failures < MaxFailures /\ failures' = failures + 1
    /\ \/ SaveFails(r, "open")
       \/ SaveFails(r, "write")
    /\ UNCHANGED <<fileVars, liveVars, ov, prev, fd, rolling>>

Renames(r) ==
    /\ tmp # NoFile
    /\ path' = tmp /\ tmp' = NoFile
    /\ \/ ~ rolling[r] /\ Goes(r, "rename", "saved") /\ UNCHANGED answer
       \/ rolling[r] /\ Answers(r, "rename", "error")
    /\ UNCHANGED <<content, used, liveVars, ov, prev, fd, rolling, drift, failures>>

\* Somebody else has renamed it.
RenameFails(r) ==
    /\ tmp = NoFile
    /\ Goes(r, "rename", "remove")
    /\ UNCHANGED <<fileVars, liveVars, ov, prev, fd, rolling, answer, drift, failures>>

\* The clean-up removes whatever has the name by then.
RemovesTmp(r) ==
    /\ SaveFails(r, "remove")
    /\ tmp' = NoFile
    /\ UNCHANGED <<content, used, path, liveVars, ov, prev, fd, rolling, failures>>

-----------------------------------------------------------------------------
(* What follows a save that succeeded. *)

\* putConfigMedia: persist first, then the flag.
StoresMedia(r) ==
    /\ body[r].op = "media"
    /\ Answers(r, "saved", "ok")
    /\ media' = body[r].on
    /\ UNCHANGED <<fileVars, retention, registry, ov, prev, fd, rolling, drift, failures>>

RetentionDone(r) ==
    /\ body[r].op = "retention"
    /\ Answers(r, "saved", "ok")
    /\ UNCHANGED <<fileVars, liveVars, ov, prev, fd, rolling, drift, failures>>

\* MUTANT: the error is returned and the file left as it is.
RollsBackNever(r, from) ==
    up /\ pc[r] = from /\ pc' = [pc EXCEPT ![r] = "done"] /\ UNCHANGED <<up, crashes, given, rolling>>

\* rollbackPluginsOverride: SaveOverride again, with the block loaded before.
RollsBack(r, from) == Goes(r, from, "load") /\ rolling' = [rolling EXCEPT ![r] = TRUE]

\* A patch reloads what the file holds by now.
Refreshes(r) ==
    /\ body[r].op = "patch"
    /\ \/ Readable /\ Goes(r, "saved", "reload") /\ ov' = [ov EXCEPT ![r] = Read] /\ UNCHANGED rolling
       \/ ~ Readable /\ RollsBack(r, "saved") /\ UNCHANGED ov
    /\ UNCHANGED <<fileVars, liveVars, prev, fd, answer, drift, failures>>

\* The full list and the removal reload what they wrote.
KeepsList(r) ==
    /\ body[r].op \in {"plugins", "delete"}
    /\ Goes(r, "saved", "reload")
    /\ UNCHANGED <<fileVars, liveVars, ov, prev, fd, rolling, answer, drift, failures>>

\* Registry.Reload: all or nothing.
Reloads(r) ==
    /\ \/ /\ Builds(ov[r].plugins)
          /\ registry' = InForce(ov[r].plugins)
          /\ Answers(r, "reload", "ok")
          /\ UNCHANGED rolling
       \/ /\ ~ Builds(ov[r].plugins)
          /\ RollsBack(r, "reload")
          /\ UNCHANGED <<registry, answer>>
    /\ UNCHANGED <<fileVars, media, retention, ov, prev, fd, drift, failures>>

-----------------------------------------------------------------------------
(* The process. *)

\* A crash, and the start that follows: an unreadable file is only warned about,
\* an instance that cannot be built is fatal.
Restart ==
    /\ up /\ crashes < MaxCrashes /\ crashes' = crashes + 1
    /\ LET o == IF Readable THEN Read ELSE NoOverrides IN
        /\ up' = Builds(o.plugins)
        /\ media' = Val(o.media)
        /\ retention' = Effective(o.retention)
        /\ registry' = IF Builds(o.plugins) THEN InForce(o.plugins) ELSE "empty"
    /\ pc' = [r \in Requests |-> IF pc[r] = "new" THEN "new" ELSE "done"]
    /\ UNCHANGED <<fileVars, given, ov, prev, fd, rolling, answer, drift, failures>>

Finished == ~ up \/ (\A r \in Requests : pc[r] = "done")
Rests == Finished /\ UNCHANGED vars

Next ==
    \/ \E r \in Requests :
        \/ Arrives(r) \/ AppliesRetention(r) \/ Finds(r) \/ LoadsPrev(r)
        \/ LoadsOverrides(r) \/ OpensTmp(r) \/ Writes(r) \/ WriteFails(r)
        \/ Renames(r) \/ RenameFails(r) \/ RemovesTmp(r)
        \/ StoresMedia(r) \/ RetentionDone(r) \/ Refreshes(r) \/ KeepsList(r) \/ Reloads(r)
    \/ Restart
    \/ Rests

Spec == Init /\ [][Next]_vars

-----------------------------------------------------------------------------
(* Properties. *)

Steps == {"new", "apply", "find", "prev", "load", "open", "write", "rename", "remove", "saved", "reload", "done"}

TypeOK ==
    /\ content \in [Files -> Contents] /\ used \in 0..Cardinality(Files)
    /\ path \in 0..used /\ tmp \in 0..used
    /\ up \in BOOLEAN /\ drift \in BOOLEAN
    /\ media \in 0..1 /\ retention \in [bytes : 0..1, age : 0..1] /\ registry \in Lists
    /\ pc \in [Requests -> Steps] /\ body \in [Requests -> Bodies]
    /\ ov \in [Requests -> Overrides] /\ prev \in [Requests -> Lists]
    /\ fd \in [Requests -> 0..used] /\ rolling \in [Requests -> BOOLEAN]
    /\ answer \in [Requests -> {"none", "ok", "error"}]
    /\ limit \in 1..MaxActive /\ failures \in 0..MaxFailures /\ crashes \in 0..MaxCrashes

(* Nothing serialises the handlers, and the next five hold only as long as  *)
(* the operator waits for one request to be answered before the next.       *)
Serial == limit = 1

\* Readers see the old file or the new one: never an empty one, nor one of two texts (SaveOverride).
\* Whatever overlaps, a knob is in a file only if some operator has set it (putConfigRetention).
NeverTorn ==
    /\ Serial /\ path # NoFile => content[path].state = "whole"
    /\ \A f \in Files :
        /\ content[f].ov.retention.bytes # Absent =>
            \E r \in Requests : body[r].op = "retention" /\ body[r].bytes = content[f].ov.retention.bytes
        /\ content[f].ov.retention.age # Absent =>
            \E r \in Requests : body[r].op = "retention" /\ body[r].age = content[f].ov.retention.age

\* A save changes the block its caller owns, and no sibling (SaveOverride).
Blocks == [media |-> Read.media, retention |-> Read.retention, plugins |-> Read.plugins]
Owner(op) == IF op \in {"media", "retention"} THEN op ELSE "plugins"
SiblingsKept == [][\A r \in Requests :
    Serial /\ pc[r] = "rename" /\ pc'[r] # "rename" /\ path' # path =>
        \A b \in DOMAIN Blocks : Blocks'[b] # Blocks[b] => b = Owner(body[r].op)]_vars

\* With no request under way the file names the plugins that run, unless the log
\* has told of a rollback that failed (rollbackPluginsOverride).
RegistryMatchesFile == Serial /\ up /\ Quiet /\ ~ drift => registry = InForce(Read.plugins)

\* With no request under way the flag is the one a restart would restore (putConfigMedia).
MediaMatchesFile == Serial /\ up /\ Quiet => media = Val(Read.media)

\* With no request under way the knobs are those a restart would restore, if every
\* PUT named both of them and none could not be saved (putConfigRetention, run).
NamesBoth(b) == b.op = "retention" => b.bytes # Absent /\ b.age # Absent
RetentionMatchesFile ==
    Serial /\ up /\ Quiet /\ failures = 0 /\ (\A r \in Requests : NamesBoth(body[r])) =>
        retention = Effective(Read.retention)

\* Whatever overlaps or fails, the plugins that run are ones that could be built,
\* and the process starts unless the file holds ones that cannot (Reload, run).
RunsWhatBuilds == Builds(registry) /\ (up \/ ~ Builds(Read.plugins))

\* One request at a time, the process and the file agree: a restart changes nothing.
ProcessMatchesFile == RegistryMatchesFile /\ MediaMatchesFile /\ RetentionMatchesFile /\ RunsWhatBuilds
=============================================================================
