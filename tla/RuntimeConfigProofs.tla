------------------------ MODULE RuntimeConfigProofs ------------------------
(* Proofs about RuntimeConfig, for any requests: what every save leaves in  *)
(* the file, and, for an operator who waits for each answer, that the file  *)
(* and the process agree whenever no request is under way.                  *)
EXTENDS RuntimeConfig, FiniteSetTheorems, FunctionTheorems, TLAPS

\* A save opens the sibling once, and a handler saves at most twice: no more
\* inodes than there are files in the model, since each has an opener of its own.
Opened(r, save) ==
    IF save = 2 THEN rolling[r] /\ pc[r] \notin {"load", "open"}
                ELSE rolling[r] \/ pc[r] \in {"write", "rename", "remove", "saved", "reload", "done"}
OpenedOnce ==
    \E opener \in Injection(1..used, Requests \X (1..2)) :
        \A f \in 1..used : Opened(opener[f][1], opener[f][2])

\* What the step of a handler says of its request.
PluginOp(r) == body[r].op \in {"plugins", "patch", "delete"}
StepFits ==
    /\ \A f \in Files : f > used => content[f] = Empty
    /\ tmp # NoFile => tmp # path
    /\ ~ up => Quiet
    /\ \A r \in Requests :
        /\ pc[r] = "apply" => body[r].op = "retention"
        /\ pc[r] \in {"find", "prev", "reload"} \/ rolling[r] => PluginOp(r)
        /\ rolling[r] => pc[r] \in {"load", "open", "write", "rename", "remove", "done"}

\* A knob that is set was named by a request.
Asked(o) ==
    /\ o.retention.bytes # Absent =>
        \E r \in Requests : body[r].op = "retention" /\ body[r].bytes = o.retention.bytes
    /\ o.retention.age # Absent =>
        \E r \in Requests : body[r].op = "retention" /\ body[r].age = o.retention.age
AskedFor == (\A f \in Files : Asked(content[f].ov)) /\ (\A r \in Requests : Asked(ov[r]))

\* With nobody at work the process is what a restart would make it.
Undisturbed == failures = 0 /\ \A r \in Requests : NamesBoth(body[r])
Agreed ==
    /\ ~ drift => registry = InForce(Read.plugins)
    /\ media = Val(Read.media)
    /\ Undisturbed => retention = Effective(Read.retention)

\* What holds while the handler of r is the only one: the sibling it writes, what it has
\* loaded, and what the process and the file disagree about until it has finished.
Saving == {"load", "open", "write", "rename"}
Handles(r) ==
    /\ pc[r] # "remove"
    /\ pc[r] \in {"write", "rename"} => tmp # NoFile /\ fd[r] = tmp
    /\ pc[r] = "write" => content[tmp] = Empty
    /\ pc[r] = "rename" => content[tmp] = Whole(ov[r])
    /\ pc[r] \in {"open", "write", "rename"} => ov[r] = Mutated(r, Read)
    /\ pc[r] \in {"saved", "reload"} => ov[r] = Read
    /\ PluginOp(r) /\ pc[r] \in Saving /\ ~ rolling[r] => prev[r] = Read.plugins
Differs(r) ==
    /\ ~ drift => registry = InForce(IF PluginOp(r) /\ (rolling[r] \/ pc[r] \in {"saved", "reload"})
                                     THEN prev[r] ELSE Read.plugins)
    /\ IF body[r].op = "media" /\ pc[r] = "saved"
       THEN Read.media = body[r].on
       ELSE media = Val(Read.media)
    /\ Undisturbed =>
        retention = IF body[r].op = "retention" /\ pc[r] \in Saving
                    THEN [bytes |-> Val(body[r].bytes), age |-> Val(body[r].age)]
                    ELSE Effective(Read.retention)
OneAtATime ==
    Serial =>
        /\ path # NoFile => content[path].state = "whole"
        /\ up /\ Quiet => Agreed
        /\ \A r \in Active : Active = {r} /\ Handles(r) /\ Differs(r)

ConfigInv == TypeOK /\ OpenedOnce /\ StepFits /\ AskedFor /\ RunsWhatBuilds /\ OneAtATime

-----------------------------------------------------------------------------
(* Types, and the inodes. *)

LEMMA AsksTyped ==
    \A b \in Bodies : /\ b.op \in {"media", "retention", "plugins", "patch", "delete"}
                      /\ b.on \in Knob /\ b.bytes \in Knob /\ b.age \in Knob /\ b.list \in Lists
                      /\ b.op = "media" => b.on # Absent
  BY RuntimeConfigAssumption DEF Asks

LEMMA FilesCounted ==
    /\ Cardinality(Requests) \in Nat /\ IsFiniteSet(Files)
    /\ Cardinality(Files) = 2 * Cardinality(Requests)
    /\ Cardinality(Requests \X (1..2)) = 2 * Cardinality(Requests)
    /\ IsFiniteSet(Requests \X (1..2))
  <1>1. Cardinality(Requests) \in Nat
    BY RuntimeConfigAssumption, FS_CardinalityType
  <1>2. IsFiniteSet(Files) /\ Cardinality(Files) = 2 * Cardinality(Requests)
    <2>1. 2 * Cardinality(Requests) \in Nat
      BY <1>1
    <2> QED BY <2>1, FS_Interval DEF Files
  <1>3. IsFiniteSet(1..2) /\ Cardinality(1..2) = 2
    <2>1. \A n \in Nat : IsFiniteSet(1..n) /\ Cardinality(1..n) = n
      BY FS_Interval
    <2>2. 2 \in Nat
      OBVIOUS
    <2> QED BY <2>1, <2>2, Zenon
  <1>4. /\ IsFiniteSet(Requests \X (1..2))
        /\ Cardinality(Requests \X (1..2)) = Cardinality(Requests) * Cardinality(1..2)
    BY <1>3, RuntimeConfigAssumption, FS_Product
  <1> QED BY <1>1, <1>2, <1>3, <1>4

\* What SaveOverride is given is what it returns, in one block of the overrides.
LEMMA MutatedTyped ==
    ASSUME TypeOK, NEW r \in Requests, NEW old \in Overrides
    PROVE  Mutated(r, old) \in Overrides
  <1>1. /\ body[r] \in Bodies /\ prev[r] \in Lists /\ rolling[r] \in BOOLEAN
    BY DEF TypeOK
  <1>2. /\ body[r].on \in Knob /\ body[r].bytes \in Knob /\ body[r].age \in Knob
        /\ body[r].list \in Lists
    BY <1>1, AsksTyped
  <1>3. /\ old.media \in Knob /\ old.retention \in Block /\ old.plugins \in Lists
        /\ old.retention.bytes \in Knob /\ old.retention.age \in Knob
        /\ old = [media |-> old.media, retention |-> old.retention, plugins |-> old.plugins]
    BY DEF Overrides, Block
  <1>4. Merged(old.retention, body[r]) \in Block
    <2>1. (IF body[r].bytes = Absent THEN old.retention.bytes ELSE body[r].bytes) \in Knob
      BY <1>2, <1>3
    <2>2. (IF body[r].age = Absent THEN old.retention.age ELSE body[r].age) \in Knob
      BY <1>2, <1>3
    <2> QED BY <2>1, <2>2 DEF Merged, Block
  <1>5. MutatedPlugins(r, old.plugins) \in Lists
    BY <1>1, <1>2, <1>3 DEF MutatedPlugins, Lists
  <1> HIDE DEF Knob, Lists, Block
  <1>6. CASE body[r].op = "media"
    BY <1>2, <1>3, <1>6 DEF Mutated, Overrides
  <1>7. CASE body[r].op = "retention"
    BY <1>3, <1>4, <1>7 DEF Mutated, Overrides
  <1>8. CASE body[r].op \notin {"media", "retention"}
    <2>1. Mutated(r, old) = [old EXCEPT !.plugins = MutatedPlugins(r, old.plugins)]
      BY <1>8 DEF Mutated
    <2> QED BY <1>3, <1>5, <2>1 DEF Overrides
  <1> QED BY <1>6, <1>7, <1>8

LEMMA ReadTyped ==
    ASSUME TypeOK
    PROVE  /\ Read \in Overrides /\ NoOverrides \in Overrides
           /\ path # NoFile => path \in Files
  <1>1. NoOverrides \in Overrides
    BY DEF NoOverrides, NoBlock, Overrides, Block, Knob, Absent, Lists
  <1>2. path # NoFile => path \in Files
    <2>1. path \in 0..used /\ used \in 0..Cardinality(Files)
      BY DEF TypeOK
    <2> QED BY <2>1, FilesCounted DEF Files, NoFile
  <1>3. \A f \in Files : content[f].ov \in Overrides
    BY DEF TypeOK, Contents
  <1> QED BY <1>1, <1>2, <1>3 DEF Read

LEMMA ConfigInit == Init => ConfigInv
  <1> SUFFICES ASSUME Init PROVE ConfigInv
    OBVIOUS
  <1> USE DEF Init
  <1>1. NoOverrides \in Overrides
    BY DEF NoOverrides, NoBlock, Overrides, Block, Knob, Absent, Lists
  <1>2. TypeOK
    <2>1. Empty \in Contents
      BY <1>1 DEF Empty, Contents
    <2>2. retention \in [bytes : 0..1, age : 0..1]
      BY DEF Effective, NoBlock
    <2>4. used \in 0..Cardinality(Files)
      BY FilesCounted
    <2>5. media \in 0..1 /\ failures \in 0..MaxFailures /\ crashes \in 0..MaxCrashes
      BY RuntimeConfigAssumption
    <2>6. /\ fd \in [Requests -> 0..used] /\ path \in 0..used /\ tmp \in 0..used
      BY DEF NoFile
    <2>11. /\ rolling \in [Requests -> BOOLEAN] /\ up \in BOOLEAN /\ drift \in BOOLEAN
      BY Zenon
    <2>7. pc \in [Requests -> Steps] /\ answer \in [Requests -> {"none", "ok", "error"}]
      BY DEF Steps
    <2>8. content \in [Files -> Contents] /\ ov \in [Requests -> Overrides] /\ registry \in Lists
      BY <1>1, <2>1 DEF Lists
    <2>9. prev \in [Requests -> Lists]
      BY DEF Lists
    <2> QED BY <2>2, <2>4, <2>5, <2>6, <2>7, <2>8, <2>9, <2>11 DEF TypeOK
  <1>3. OpenedOnce
    <2>1. [f \in 1..used |-> <<1, 1>>] \in Injection(1..used, Requests \X (1..2))
      BY DEF Injection, IsInjective
    <2> QED BY <2>1 DEF OpenedOnce
  <1>4. Quiet /\ Active = {}
    BY DEF Quiet, Active
  <1>5. StepFits /\ AskedFor
    BY <1>4 DEF StepFits, AskedFor, Asked, NoFile, Empty, NoOverrides, NoBlock
  <1>6. Read = NoOverrides
    BY DEF Read
  <1>7. RunsWhatBuilds /\ OneAtATime
    BY <1>4, <1>6 DEF RunsWhatBuilds, Builds, OneAtATime, Agreed, InForce, NoOverrides, Val, Absent
  <1> QED BY <1>2, <1>3, <1>5, <1>7 DEF ConfigInv

\* One handler goes on, the others stay where they are.
LEMMA GoesOn ==
    ASSUME TypeOK, NEW r \in Requests, NEW from, NEW to \in Steps, Goes(r, from, to)
    PROVE  /\ up /\ pc[r] = from /\ pc'[r] = to /\ \A s \in Requests \ {r} : pc'[s] = pc[s]
           /\ pc' \in [Requests -> Steps]
           /\ UNCHANGED <<up, crashes, body, limit>>
  BY DEF TypeOK, Goes, given

\* The opener of a new inode has opened none in this save, so there is room for it.
LEMMA OpensOnce ==
    ASSUME ConfigInv, NEW r \in Requests, OpensTmp(r)
    PROVE  /\ used' \in 0..Cardinality(Files) /\ used <= used' /\ tmp' \in 1..used' /\ OpenedOnce'
  <1> DEFINE openers == Requests \X (1..2)
  <1>0. PICK save \in 1..2 : save = IF rolling[r] THEN 2 ELSE 1
    OBVIOUS
  <1>1. TypeOK /\ OpenedOnce /\ used \in Nat /\ tmp \in 0..used /\ used <= Cardinality(Files)
    BY FilesCounted DEF ConfigInv, TypeOK
  <1>2. /\ pc[r] = "open" /\ pc'[r] = "write" /\ \A s \in Requests \ {r} : pc'[s] = pc[s]
        /\ UNCHANGED rolling
    BY <1>1, GoesOn DEF OpensTmp, Steps
  <1>3. /\ ~ Opened(r, save) /\ Opened(r, save)'
        /\ \A s \in Requests, i \in 1..2 : Opened(s, i) => Opened(s, i)'
    BY <1>0, <1>2 DEF Opened
  <1>4. PICK opener \in Injection(1..used, openers) :
            \A f \in 1..used : Opened(opener[f][1], opener[f][2])
    BY <1>1 DEF OpenedOnce
  <1>5. /\ opener \in [1..used -> openers]
        /\ \A f, g \in 1..used : opener[f] = opener[g] => f = g
    <2> HIDE DEF openers
    <2> QED BY <1>4 DEF Injection, IsInjective
  <1>6. \A f \in 1..used : /\ opener[f][1] \in Requests /\ opener[f][2] \in 1..2
                           /\ opener[f] # <<r, save>>
    BY <1>3, <1>4, <1>5
  <1>7. CASE tmp = NoFile
    <2>0. PICK opener2 : opener2 = [f \in 1..(used + 1) |-> IF f = used + 1 THEN <<r, save>> ELSE opener[f]]
      OBVIOUS
    <2>1. <<r, save>> \in openers
      OBVIOUS
    <2>2. \A f \in 1..(used + 1) : f = used + 1 \/ f \in 1..used
      BY <1>1
    <2>3. opener2 \in [1..(used + 1) -> openers]
      BY <1>5, <2>0, <2>1, <2>2
    <2>4. \A f, g \in 1..(used + 1) : opener2[f] = opener2[g] => f = g
      BY <1>5, <1>6, <2>0, <2>2
    <2>5. \A f \in 1..(used + 1) : Opened(opener2[f][1], opener2[f][2])'
      <3>1. ASSUME NEW f \in 1..(used + 1), f = used + 1
            PROVE  Opened(opener2[f][1], opener2[f][2])'
        <4>1. opener2[f][1] = r /\ opener2[f][2] = save
          BY <2>0, <3>1
        <4> QED BY <1>3, <4>1
      <3>2. ASSUME NEW f \in 1..(used + 1), f # used + 1
            PROVE  Opened(opener2[f][1], opener2[f][2])'
        <4>1. f \in 1..used /\ opener2[f] = opener[f]
          BY <2>0, <2>2, <3>2
        <4>2. /\ opener2[f][1] = opener[f][1] /\ opener2[f][2] = opener[f][2]
              /\ opener[f][1] \in Requests /\ opener[f][2] \in 1..2
          BY <1>6, <4>1
        <4>3. Opened(opener[f][1], opener[f][2])'
          BY <1>3, <1>4, <4>1, <4>2
        <4> QED BY <4>2, <4>3
      <3> QED BY <3>1, <3>2
    <2> HIDE DEF openers
    <2>6. opener2 \in Injection(1..(used + 1), openers)
      BY <2>3, <2>4, Fun_IsInj
    <2>7. used + 1 <= Cardinality(Files)
      <3>1. Cardinality(1..(used + 1)) = used + 1
        BY <1>1, FS_Interval
      <3>2. IsFiniteSet(openers)
        BY FilesCounted DEF openers
      <3>3. Cardinality(1..(used + 1)) <= Cardinality(openers)
        BY <2>6, <3>2, FS_Injection
      <3> QED BY <3>1, <3>3, FilesCounted DEF openers
    <2>8. used' = used + 1 /\ tmp' = used'
      BY <1>7 DEF OpensTmp
    <2>9. OpenedOnce'
      BY <2>5, <2>6, <2>8 DEF OpenedOnce, openers
    <2> QED BY <1>1, <2>7, <2>8, <2>9, FilesCounted
  <1>8. CASE tmp # NoFile
    <2>1. used' = used /\ tmp' = tmp
      BY <1>8 DEF OpensTmp
    <2>2. \A f \in 1..used : Opened(opener[f][1], opener[f][2])'
      BY <1>3, <1>4, <1>6
    <2> QED BY <1>1, <1>4, <1>8, <2>1, <2>2, FilesCounted DEF OpenedOnce, NoFile
  <1> QED BY <1>7, <1>8

\* What has been opened stays opened.
LEMMA OpenedStays ==
    ASSUME ConfigInv, UNCHANGED used,
           \A s \in Requests, i \in 1..2 : Opened(s, i) => Opened(s, i)'
    PROVE  OpenedOnce'
  <1>1. PICK opener \in Injection(1..used, Requests \X (1..2)) :
            \A f \in 1..used : Opened(opener[f][1], opener[f][2])
    BY DEF ConfigInv, OpenedOnce
  <1>2. \A f \in 1..used : opener[f][1] \in Requests /\ opener[f][2] \in 1..2
    BY <1>1 DEF Injection
  <1>3. \A f \in 1..used : Opened(opener[f][1], opener[f][2])'
    BY <1>1, <1>2
  <1> QED BY <1>1, <1>3 DEF OpenedOnce

\* A step of one handler moves it along an edge of this graph (the disjuncts of Next).
Edge(from, to) ==
    \/ from = "new" /\ to \in {"load", "apply", "find", "prev"}
    \/ from = "apply" /\ to = "load"
    \/ from = "find" /\ to \in {"prev", "done"}
    \/ from = "prev" /\ to \in {"load", "done"}
    \/ from = "load" /\ to \in {"open", "done"}
    \/ from = "open" /\ to \in {"write", "done"}
    \/ from = "write" /\ to \in {"rename", "done"}
    \/ from = "rename" /\ to \in {"saved", "done", "remove"}
    \/ from = "remove" /\ to = "done"
    \/ from = "saved" /\ to \in {"done", "reload", "load"}
    \/ from = "reload" /\ to \in {"done", "load"}

Handler(r) ==
    \/ Arrives(r) \/ AppliesRetention(r) \/ Finds(r) \/ LoadsPrev(r)
    \/ LoadsOverrides(r) \/ OpensTmp(r) \/ Writes(r) \/ WriteFails(r)
    \/ Renames(r) \/ RenameFails(r) \/ RemovesTmp(r)
    \/ StoresMedia(r) \/ RetentionDone(r) \/ Refreshes(r) \/ KeepsList(r) \/ Reloads(r)

LEMMA OneMoves ==
    ASSUME TypeOK, NEW r \in Requests, Handler(r)
    PROVE  /\ up /\ up' /\ UNCHANGED <<crashes, body, limit>>
           /\ pc' \in [Requests -> Steps] /\ Edge(pc[r], pc'[r])
           /\ \A s \in Requests \ {r} : pc'[s] = pc[s] /\ rolling'[s] = rolling[s]
           /\ rolling' \in [Requests -> BOOLEAN]
           /\ rolling'[r] = (rolling[r] \/ (pc[r] \in {"saved", "reload"} /\ pc'[r] = "load"))
  <1> USE DEF Answers, SaveFails, RollsBack
  <1>1. rolling \in [Requests -> BOOLEAN] /\ body[r].op \in {"media", "retention", "plugins", "patch", "delete"}
    BY AsksTyped DEF TypeOK
  <1>2. CASE Arrives(r)
    BY <1>1, <1>2, GoesOn DEF Arrives, FirstStep, Edge, Steps
  <1>3. CASE AppliesRetention(r)
    BY <1>1, <1>3, GoesOn DEF AppliesRetention, Edge, Steps
  <1>4. CASE Finds(r)
    BY <1>1, <1>4, GoesOn DEF Finds, Edge, Steps
  <1>5. CASE LoadsPrev(r)
    BY <1>1, <1>5, GoesOn DEF LoadsPrev, Edge, Steps
  <1>6. CASE LoadsOverrides(r)
    BY <1>1, <1>6, GoesOn DEF LoadsOverrides, Edge, Steps
  <1>7. CASE OpensTmp(r)
    BY <1>1, <1>7, GoesOn DEF OpensTmp, Edge, Steps
  <1>8. CASE Writes(r)
    BY <1>1, <1>8, GoesOn DEF Writes, Edge, Steps
  <1>9. CASE WriteFails(r)
    BY <1>1, <1>9, GoesOn DEF WriteFails, Edge, Steps
  <1>10. CASE Renames(r)
    BY <1>1, <1>10, GoesOn DEF Renames, Edge, Steps
  <1>11. CASE RenameFails(r)
    BY <1>1, <1>11, GoesOn DEF RenameFails, Edge, Steps
  <1>12. CASE RemovesTmp(r)
    BY <1>1, <1>12, GoesOn DEF RemovesTmp, Edge, Steps
  <1>13. CASE StoresMedia(r) \/ RetentionDone(r)
    BY <1>1, <1>13, GoesOn DEF StoresMedia, RetentionDone, Edge, Steps
  <1>14. CASE Refreshes(r)
    <2>1. CASE Goes(r, "saved", "reload") /\ UNCHANGED rolling
      BY <1>1, <2>1, GoesOn DEF Edge, Steps
    <2>2. CASE Goes(r, "saved", "load") /\ rolling' = [rolling EXCEPT ![r] = TRUE]
      <3>1. /\ rolling' \in [Requests -> BOOLEAN] /\ rolling'[r]
            /\ \A s \in Requests \ {r} : rolling'[s] = rolling[s]
        BY <1>1, <2>2, Zenon
      <3>2. "load" \in Steps
        BY DEF Steps
      <3>3. /\ pc[r] \in {"saved", "reload"} /\ pc'[r] = "load" /\ up /\ pc' \in [Requests -> Steps]
            /\ \A s \in Requests \ {r} : pc'[s] = pc[s]
            /\ UNCHANGED <<up, crashes, body, limit>>
        BY <2>2, <3>2, GoesOn
      <3>4. Edge(pc[r], pc'[r])
        BY <3>3 DEF Edge
      <3> QED BY <3>1, <3>3, <3>4
    <2> QED BY <1>14, <2>1, <2>2 DEF Refreshes
  <1>15. CASE KeepsList(r)
    BY <1>1, <1>15, GoesOn DEF KeepsList, Edge, Steps
  <1>16. CASE Reloads(r)
    <2>1. CASE Goes(r, "reload", "done") /\ UNCHANGED rolling
      BY <1>1, <2>1, GoesOn DEF Edge, Steps
    <2>2. CASE Goes(r, "reload", "load") /\ rolling' = [rolling EXCEPT ![r] = TRUE]
      <3>1. /\ rolling' \in [Requests -> BOOLEAN] /\ rolling'[r]
            /\ \A s \in Requests \ {r} : rolling'[s] = rolling[s]
        BY <1>1, <2>2, Zenon
      <3>2. "load" \in Steps
        BY DEF Steps
      <3>3. /\ pc[r] \in {"saved", "reload"} /\ pc'[r] = "load" /\ up /\ pc' \in [Requests -> Steps]
            /\ \A s \in Requests \ {r} : pc'[s] = pc[s]
            /\ UNCHANGED <<up, crashes, body, limit>>
        BY <2>2, <3>2, GoesOn
      <3>4. Edge(pc[r], pc'[r])
        BY <3>3 DEF Edge
      <3> QED BY <3>1, <3>3, <3>4
    <2> QED BY <1>16, <2>1, <2>2 DEF Reloads
  <1> QED BY <1>2, <1>3, <1>4, <1>5, <1>6, <1>7, <1>8, <1>9, <1>10, <1>11, <1>12, <1>13, <1>14,
             <1>15, <1>16 DEF Handler

\* What the steps of the handlers do to the other variables.
LEMMA HandlerTyped ==
    ASSUME ConfigInv, NEW r \in Requests, Handler(r)
    PROVE  TypeOK' /\ OpenedOnce' /\ used <= used'
  <1>1. TypeOK /\ used \in Nat
    BY FilesCounted DEF ConfigInv, TypeOK
  <1>2. /\ up' \in BOOLEAN /\ pc' \in [Requests -> Steps] /\ body' \in [Requests -> Bodies]
        /\ rolling' \in [Requests -> BOOLEAN] /\ limit' \in 1..MaxActive /\ crashes' \in 0..MaxCrashes
    BY <1>1, OneMoves DEF TypeOK
  <1>3. used' \in 0..Cardinality(Files) /\ used <= used' /\ OpenedOnce'
    <2>1. CASE OpensTmp(r)
      BY <1>1, <2>1, OpensOnce DEF TypeOK
    <2>2. CASE ~ OpensTmp(r)
      <3>1. used' = used
        BY <2>2 DEF Handler, Arrives, AppliesRetention, Finds, LoadsPrev, LoadsOverrides, Writes,
                    WriteFails, Renames, RenameFails, RemovesTmp, StoresMedia, RetentionDone,
                    Refreshes, KeepsList, Reloads, fileVars
      <3>2. \A s \in Requests, i \in 1..2 : Opened(s, i) => Opened(s, i)'
        <4>1. ASSUME NEW s \in Requests, NEW i \in 1..2, Opened(s, i)
              PROVE  Opened(s, i)'
          <5>1. pc[r] # "open" \/ pc'[r] \in {"done"}
            BY <1>1, <2>2, OneMoves DEF Handler, Arrives, AppliesRetention, Finds, LoadsPrev,
               LoadsOverrides, Writes, WriteFails, Renames, RenameFails, RemovesTmp, StoresMedia,
               RetentionDone, Refreshes, KeepsList, Reloads, Goes, Answers, SaveFails, RollsBack
          <5>2. CASE s = r
            <6>1. Edge(pc[r], pc'[r]) /\ (rolling[r] => rolling'[r])
                  /\ (pc[r] \in {"saved", "reload"} /\ pc'[r] = "load" => rolling'[r])
              BY <1>1, OneMoves
            <6>2. rolling[r] => pc[r] \in {"load", "open", "write", "rename", "remove", "done"}
              BY DEF ConfigInv, StepFits
            <6>3. CASE i = 2
              BY <4>1, <5>2, <6>1, <6>2, <6>3 DEF Opened, Edge
            <6>4. CASE i # 2
              BY <4>1, <5>2, <6>1, <6>2, <6>4 DEF Opened, Edge
            <6> QED BY <6>3, <6>4
          <5>3. CASE s # r
            BY <1>1, <4>1, <5>3, OneMoves DEF Opened
          <5> QED BY <5>2, <5>3
        <4> QED BY <4>1
      <3> QED BY <1>1, <3>1, <3>2, OpenedStays DEF TypeOK
    <2> QED BY <2>1, <2>2
  <1>4. path' \in 0..used' /\ tmp' \in 0..used'
    <2>1. CASE OpensTmp(r)
      BY <1>1, <1>3, <2>1, OpensOnce DEF TypeOK, OpensTmp
    <2>2. CASE ~ OpensTmp(r)
      BY <1>1, <2>2 DEF TypeOK, Handler, Arrives, AppliesRetention, Finds, LoadsPrev, LoadsOverrides,
         Writes, WriteFails, Renames, RenameFails, RemovesTmp, StoresMedia, RetentionDone,
         Refreshes, KeepsList, Reloads, fileVars, NoFile
    <2> QED BY <2>1, <2>2
  <1>5. fd' \in [Requests -> 0..used']
    <2>1. CASE OpensTmp(r)
      <3>1. fd' = [fd EXCEPT ![r] = tmp']
        BY <2>1 DEF OpensTmp
      <3>2. \A n \in 0..used : n \in 0..used'
        BY <1>1, <1>3
      <3>3. fd \in [Requests -> 0..used] /\ tmp' \in 0..used'
        BY <1>1, <1>4 DEF TypeOK
      <3> QED BY <3>1, <3>2, <3>3
    <2>2. CASE ~ OpensTmp(r)
      BY <1>1, <2>2 DEF TypeOK, Handler, Arrives, AppliesRetention, Finds, LoadsPrev, LoadsOverrides,
         Writes, WriteFails, Renames, RenameFails, RemovesTmp, StoresMedia, RetentionDone,
         Refreshes, KeepsList, Reloads, fileVars
    <2> QED BY <2>1, <2>2
  <1>6. ov' \in [Requests -> Overrides]
    <2>1. ov \in [Requests -> Overrides] /\ Read \in Overrides /\ Mutated(r, Read) \in Overrides
      BY <1>1, ReadTyped, MutatedTyped DEF TypeOK
    <2>2. ov' \in {ov, [ov EXCEPT ![r] = Mutated(r, Read)], [ov EXCEPT ![r] = Read]}
      BY DEF Handler, Arrives, AppliesRetention, Finds, LoadsPrev, LoadsOverrides, OpensTmp, Writes,
         WriteFails, Renames, RenameFails, RemovesTmp, StoresMedia, RetentionDone, Refreshes,
         KeepsList, Reloads
    <2> HIDE DEF Overrides
    <2> QED BY <2>1, <2>2
  <1>7. prev' \in [Requests -> Lists] /\ answer' \in [Requests -> {"none", "ok", "error"}]
    <2>1. /\ prev \in [Requests -> Lists] /\ Read.plugins \in Lists
          /\ answer \in [Requests -> {"none", "ok", "error"}]
      BY <1>1, ReadTyped DEF TypeOK, Overrides
    <2>2. prev' \in {prev, [prev EXCEPT ![r] = Read.plugins]}
      BY DEF Handler, Arrives, AppliesRetention, Finds, LoadsPrev, LoadsOverrides, OpensTmp, Writes,
         WriteFails, Renames, RenameFails, RemovesTmp, StoresMedia, RetentionDone, Refreshes,
         KeepsList, Reloads
    <2>3. answer' \in {answer, [answer EXCEPT ![r] = "ok"], [answer EXCEPT ![r] = "error"]}
      BY DEF Handler, Arrives, AppliesRetention, Finds, LoadsPrev, LoadsOverrides, OpensTmp, Writes,
         WriteFails, Renames, RenameFails, RemovesTmp, StoresMedia, RetentionDone, Refreshes,
         KeepsList, Reloads, Answers, SaveFails
    <2> HIDE DEF Lists
    <2> QED BY <2>1, <2>2, <2>3
  <1>8. content' \in [Files -> Contents]
    <2>1. ov[r] \in Overrides /\ NoOverrides \in Overrides /\ content \in [Files -> Contents]
      BY <1>1, ReadTyped DEF TypeOK
    <2>2. Whole(ov[r]) \in Contents /\ Empty \in Contents /\ Mixed \in Contents
      BY <2>1 DEF Contents, Whole, Empty, Mixed
    <2>3. \/ content' = content
          \/ content' = [content EXCEPT ![tmp] = Empty]
          \/ \E c \in {Whole(ov[r]), Mixed} : content' = [content EXCEPT ![fd[r]] = c]
      BY DEF Handler, Arrives, AppliesRetention, Finds, LoadsPrev, LoadsOverrides, OpensTmp, Writes,
         WriteFails, Renames, RenameFails, RemovesTmp, StoresMedia, RetentionDone, Refreshes,
         KeepsList, Reloads, fileVars
    <2> HIDE DEF Contents, Files
    <2> QED BY <2>1, <2>2, <2>3
  <1>9. media' \in 0..1 /\ retention' \in [bytes : 0..1, age : 0..1] /\ registry' \in Lists
    <2>1. /\ media \in 0..1 /\ retention \in [bytes : 0..1, age : 0..1] /\ registry \in Lists
          /\ ov[r].plugins \in Lists /\ body[r] \in Bodies
      BY <1>1 DEF TypeOK, Overrides
    <2>2. Val(body[r].bytes) \in 0..1 /\ Val(body[r].age) \in 0..1
      BY <2>1, AsksTyped DEF Val, Knob, Absent
    <2>3. CASE StoresMedia(r)
      <3>1. body[r].on \in 0..1
        BY <2>1, <2>3, AsksTyped DEF StoresMedia, Knob, Absent
      <3> QED BY <2>1, <2>3, <3>1 DEF StoresMedia
    <2>4. CASE AppliesRetention(r)
      BY <2>1, <2>2, <2>4 DEF AppliesRetention
    <2>5. CASE Reloads(r)
      BY <2>1, <2>5 DEF Reloads, InForce, Lists
    <2>6. CASE ~ (StoresMedia(r) \/ AppliesRetention(r) \/ Reloads(r))
      BY <2>1, <2>6 DEF Handler, Arrives, Finds, LoadsPrev, LoadsOverrides, OpensTmp, Writes,
         WriteFails, Renames, RenameFails, RemovesTmp, RetentionDone, Refreshes, KeepsList, liveVars
    <2> QED BY <2>3, <2>4, <2>5, <2>6
  <1>10. drift' \in BOOLEAN /\ failures' \in 0..MaxFailures
    <2>1. rolling[r] \in BOOLEAN /\ drift \in BOOLEAN /\ failures \in 0..MaxFailures
      BY <1>1 DEF TypeOK
    <2>2. drift' \in {drift, drift \/ rolling[r]}
      BY DEF Handler, Arrives, AppliesRetention, Finds, LoadsPrev, LoadsOverrides, OpensTmp, Writes,
         WriteFails, Renames, RenameFails, RemovesTmp, StoresMedia, RetentionDone, Refreshes,
         KeepsList, Reloads, SaveFails
    <2>3. failures' = failures \/ (failures < MaxFailures /\ failures' = failures + 1)
      BY DEF Handler, Arrives, AppliesRetention, Finds, LoadsPrev, LoadsOverrides, OpensTmp, Writes,
         WriteFails, Renames, RenameFails, RemovesTmp, StoresMedia, RetentionDone, Refreshes,
         KeepsList, Reloads
    <2>4. failures' \in 0..MaxFailures
      BY <2>1, <2>3, RuntimeConfigAssumption
    <2> QED BY <2>1, <2>2, <2>4, Zenon
  <1> QED BY <1>2, <1>3, <1>4, <1>5, <1>6, <1>7, <1>8, <1>9, <1>10 DEF TypeOK

LEMMA HandlerFits ==
    ASSUME ConfigInv, NEW r \in Requests, Handler(r)
    PROVE  StepFits'
  <1>1. TypeOK /\ StepFits
    BY DEF ConfigInv
  <1>0. \A f \in Files : f > used' => content'[f] = Empty
    <2>1. /\ content \in [Files -> Contents] /\ used \in Nat /\ tmp \in 0..used /\ fd[r] \in 0..used
          /\ used' \in Nat /\ used <= used'
      BY <1>1, FilesCounted, HandlerTyped DEF TypeOK
    <2>2. \/ content' = content
          \/ content' = [content EXCEPT ![tmp] = Empty]
          \/ \E c \in {Whole(ov[r]), Mixed} : content' = [content EXCEPT ![fd[r]] = c]
      BY DEF Handler, Arrives, AppliesRetention, Finds, LoadsPrev, LoadsOverrides, OpensTmp, Writes,
         WriteFails, Renames, RenameFails, RemovesTmp, StoresMedia, RetentionDone, Refreshes,
         KeepsList, Reloads, fileVars
    <2>3. ASSUME NEW f \in Files, f > used'
          PROVE  f > used /\ f # tmp /\ f # fd[r]
      BY <2>1, <2>3, FilesCounted DEF Files
    <2>4. \A f \in Files : f > used' => content'[f] = content[f]
      BY <2>1, <2>2, <2>3
    <2> QED BY <1>1, <2>3, <2>4 DEF StepFits
  <1>2. tmp' # NoFile => tmp' # path'
    <2>1. CASE OpensTmp(r)
      <3>1. path \in 0..used /\ used \in Nat /\ path' = path
        BY <1>1, <2>1, FilesCounted DEF TypeOK, OpensTmp
      <3>2. tmp' = tmp \/ tmp' = used + 1
        BY <2>1 DEF OpensTmp
      <3>3. tmp' = tmp => tmp # NoFile
        BY <3>1, <2>1 DEF OpensTmp, NoFile
      <3> QED BY <1>1, <3>1, <3>2, <3>3 DEF StepFits
    <2>2. CASE ~ OpensTmp(r)
      <3>1. (UNCHANGED <<tmp, path>>) \/ tmp' = NoFile
        BY <2>2 DEF Handler, Arrives, AppliesRetention, Finds, LoadsPrev, LoadsOverrides, Writes,
           WriteFails, Renames, RenameFails, RemovesTmp, StoresMedia, RetentionDone, Refreshes,
           KeepsList, Reloads, fileVars
      <3> QED BY <1>1, <3>1 DEF StepFits
    <2> QED BY <2>1, <2>2
  <1>3. /\ up' /\ UNCHANGED body /\ Edge(pc[r], pc'[r])
        /\ \A s \in Requests \ {r} : pc'[s] = pc[s] /\ rolling'[s] = rolling[s]
        /\ rolling'[r] <=> (rolling[r] \/ (pc[r] \in {"saved", "reload"} /\ pc'[r] = "load"))
    BY <1>1, OneMoves
  <1>4. /\ pc'[r] = "apply" => body[r].op = "retention"
        /\ pc'[r] = "find" => PluginOp(r)
        /\ pc[r] = "new" /\ pc'[r] = "prev" => PluginOp(r)
    <2>1. pc'[r] \in {"apply", "find"} \/ (pc[r] = "new" /\ pc'[r] = "prev") => pc[r] = "new"
      BY <1>3 DEF Edge
    <2>2. pc[r] = "new" => Arrives(r)
      BY DEF Handler, AppliesRetention, Finds, LoadsPrev, LoadsOverrides, OpensTmp, Writes,
         WriteFails, Renames, RenameFails, RemovesTmp, StoresMedia, RetentionDone, Refreshes,
         KeepsList, Reloads, Goes, Answers, SaveFails, RollsBack
    <2>3. /\ Arrives(r) => pc'[r] = FirstStep(body[r])
          /\ body[r].op \in {"media", "retention", "plugins", "patch", "delete"}
      BY <1>1, AsksTyped DEF Arrives, Goes, TypeOK
    <2> QED BY <2>1, <2>2, <2>3 DEF FirstStep, PluginOp
  <1>5. pc[r] = "saved" /\ pc'[r] \in {"reload", "load"} => PluginOp(r)
    <2>1. pc[r] = "saved" => StoresMedia(r) \/ RetentionDone(r) \/ Refreshes(r) \/ KeepsList(r)
      BY DEF Handler, Arrives, AppliesRetention, Finds, LoadsPrev, LoadsOverrides, OpensTmp, Writes,
         WriteFails, Renames, RenameFails, RemovesTmp, Reloads, Goes, Answers, SaveFails, RollsBack
    <2>2. StoresMedia(r) \/ RetentionDone(r) => pc'[r] = "done"
      BY <1>1 DEF StoresMedia, RetentionDone, Answers, Goes, TypeOK
    <2> QED BY <2>1, <2>2 DEF Refreshes, KeepsList, PluginOp
  <1>6. rolling[r] /\ pc[r] = "rename" => pc'[r] # "saved"
    <2>1. pc[r] = "rename" => Renames(r) \/ RenameFails(r)
      BY DEF Handler, Arrives, AppliesRetention, Finds, LoadsPrev, LoadsOverrides, OpensTmp, Writes,
         WriteFails, RemovesTmp, StoresMedia, RetentionDone, Refreshes,
         KeepsList, Reloads, Goes, Answers, SaveFails, RollsBack
    <2> QED BY <1>1, <2>1 DEF Renames, RenameFails, Answers, Goes, TypeOK
  <1>7. ASSUME NEW s \in Requests
        PROVE  /\ pc'[s] = "apply" => body'[s].op = "retention"
               /\ pc'[s] \in {"find", "prev", "reload"} \/ rolling'[s] => PluginOp(s)'
               /\ rolling'[s] => pc'[s] \in {"load", "open", "write", "rename", "remove", "done"}
    <2>1. CASE s # r
      BY <1>1, <1>3, <2>1 DEF StepFits, PluginOp
    <2>2. CASE s = r
      <3>1. /\ pc[r] = "apply" => body[r].op = "retention"
            /\ pc[r] \in {"find", "prev", "reload"} \/ rolling[r] => PluginOp(r)
            /\ rolling[r] => pc[r] \in {"load", "open", "write", "rename", "remove", "done"}
        BY <1>1 DEF StepFits
      <3>2. PluginOp(r)' <=> PluginOp(r)
        BY <1>3 DEF PluginOp
      <3>3. pc'[r] \in {"find", "prev", "reload"} \/ rolling'[r] => PluginOp(r)'
        BY <1>3, <1>4, <1>5, <3>1, <3>2 DEF Edge
      <3>4. rolling'[r] => pc'[r] \in {"load", "open", "write", "rename", "remove", "done"}
        BY <1>3, <1>6, <3>1 DEF Edge
      <3> QED BY <1>3, <1>4, <2>2, <3>3, <3>4
    <2> QED BY <2>1, <2>2
  <1> QED BY <1>0, <1>2, <1>3, <1>7 DEF StepFits

LEMMA HandlerAsked ==
    ASSUME ConfigInv, NEW r \in Requests, Handler(r)
    PROVE  AskedFor'
  <1>1. TypeOK /\ AskedFor /\ UNCHANGED body
    BY OneMoves DEF ConfigInv
  <1>2. Asked(NoOverrides) /\ Asked(Read) /\ Asked(ov[r])
    <2>1. Asked(NoOverrides)
      BY DEF Asked, NoOverrides, NoBlock
    <2> QED BY <1>1, <2>1, ReadTyped DEF AskedFor, Read
  <1>3. Asked(Mutated(r, Read))
    <2>1. Read \in Overrides
      BY <1>1, ReadTyped
    <2>2. CASE body[r].op = "retention"
      <3>1. Mutated(r, Read).retention = Merged(Read.retention, body[r])
        BY <2>1, <2>2 DEF Mutated, Overrides
      <3> QED BY <1>2, <2>2, <3>1 DEF Asked, Merged
    <2>3. CASE body[r].op # "retention"
      <3>1. Mutated(r, Read).retention = Read.retention
        BY <2>1, <2>3 DEF Mutated, Overrides
      <3> QED BY <1>2, <3>1 DEF Asked
    <2> QED BY <2>2, <2>3
  <1>4. \A o : Asked(o) => Asked(o)'
    BY <1>1 DEF Asked
  <1>5. \A f \in Files : Asked(content'[f].ov)
    <2>1. \/ content' = content
          \/ content' = [content EXCEPT ![tmp] = Empty]
          \/ \E c \in {Whole(ov[r]), Mixed} : content' = [content EXCEPT ![fd[r]] = c]
      BY DEF Handler, Arrives, AppliesRetention, Finds, LoadsPrev, LoadsOverrides, OpensTmp, Writes,
         WriteFails, Renames, RenameFails, RemovesTmp, StoresMedia, RetentionDone, Refreshes,
         KeepsList, Reloads, fileVars
    <2>2. /\ content \in [Files -> Contents] /\ \A f \in Files : Asked(content[f].ov)
          /\ Asked(Whole(ov[r]).ov) /\ Asked(Empty.ov) /\ Asked(Mixed.ov)
      BY <1>1, <1>2 DEF TypeOK, AskedFor, Whole, Empty, Mixed
    <2> HIDE DEF Asked, Files, Contents, Whole, Empty, Mixed
    <2> QED BY <2>1, <2>2
  <1>6. \A s \in Requests : Asked(ov'[s])
    <2>1. ov' \in {ov, [ov EXCEPT ![r] = Mutated(r, Read)], [ov EXCEPT ![r] = Read]}
      BY DEF Handler, Arrives, AppliesRetention, Finds, LoadsPrev, LoadsOverrides, OpensTmp, Writes,
         WriteFails, Renames, RenameFails, RemovesTmp, StoresMedia, RetentionDone, Refreshes,
         KeepsList, Reloads
    <2>2. ov \in [Requests -> Overrides] /\ \A s \in Requests : Asked(ov[s])
      BY <1>1 DEF TypeOK, AskedFor
    <2> HIDE DEF Asked, Overrides, Mutated, Read
    <2> QED BY <1>2, <1>3, <2>1, <2>2
  <1> QED BY <1>1, <1>5, <1>6 DEF AskedFor, Asked

LEMMA HandlerBuilds ==
    ASSUME ConfigInv, NEW r \in Requests, Handler(r)
    PROVE  RunsWhatBuilds'
  <1>1. up' /\ Builds(registry)
    BY OneMoves DEF ConfigInv, RunsWhatBuilds
  <1>2. CASE Reloads(r)
    BY <1>1, <1>2 DEF Reloads, Builds, InForce, RunsWhatBuilds
  <1>3. CASE ~ Reloads(r)
    <2>1. registry' = registry
      BY <1>3 DEF Handler, Arrives, AppliesRetention, Finds, LoadsPrev, LoadsOverrides, OpensTmp,
         Writes, WriteFails, Renames, RenameFails, RemovesTmp, StoresMedia, RetentionDone,
         Refreshes, KeepsList, liveVars
    <2> QED BY <1>1, <2>1 DEF RunsWhatBuilds, Builds
  <1> QED BY <1>2, <1>3

-----------------------------------------------------------------------------
(* One request at a time. *)

\* The handler that goes on is the only one.
LEMMA Alone ==
    ASSUME ConfigInv, Serial, NEW r \in Requests, Handler(r)
    PROVE  /\ Serial' /\ up /\ TypeOK /\ r \in Requests
           /\ path # NoFile => path \in Files /\ content[path].state = "whole"
           /\ Readable /\ (tmp # NoFile => tmp # path)
           /\ pc[r] = "new" => Agreed /\ ~ rolling[r]
           /\ pc[r] # "new" => Handles(r) /\ Differs(r)
           /\ Active' = {r} \ {s \in {r} : pc'[s] = "done"}
           /\ pc'[r] \notin {"new", "apply"} \/ (pc'[r] = "apply" /\ pc[r] = "new")
  <1>1. TypeOK /\ StepFits /\ OneAtATime
    BY DEF ConfigInv
  <1>2. /\ up /\ UNCHANGED <<body, limit>> /\ Edge(pc[r], pc'[r])
        /\ \A s \in Requests \ {r} : pc'[s] = pc[s]
    BY <1>1, OneMoves
  <1>3. path # NoFile => path \in Files /\ content[path].state = "whole"
    BY <1>1, ReadTyped DEF OneAtATime
  <1>4. CASE pc[r] = "new"
    <2>1. Arrives(r)
      BY <1>4 DEF Handler, AppliesRetention, Finds, LoadsPrev, LoadsOverrides, OpensTmp, Writes,
         WriteFails, Renames, RenameFails, RemovesTmp, StoresMedia, RetentionDone, Refreshes,
         KeepsList, Reloads, Goes, Answers, SaveFails, RollsBack
    <2>2. Active = {}
      <3>1. IsFiniteSet(Active)
        BY RuntimeConfigAssumption, FS_Subset DEF Active
      <3>2. Cardinality(Active) \in Nat /\ Cardinality(Active) < 1
        BY <2>1, <3>1, FS_CardinalityType DEF Arrives, Serial
      <3>3. Cardinality(Active) = 0
        BY <3>2
      <3> QED BY <3>1, <3>3, FS_EmptySet
    <2>3. Quiet /\ Agreed
      BY <1>1, <1>2, <2>2 DEF Quiet, Active, OneAtATime
    <2>4. ~ rolling[r]
      BY <1>1, <1>4 DEF StepFits
    <2> QED BY <1>1, <1>2, <1>3, <1>4, <2>2, <2>3, <2>4 DEF Serial, Readable, StepFits, Active, Edge
  <1>5. CASE pc[r] # "new"
    <2>1. r \in Active
      BY <1>2, <1>5 DEF Edge, Active
    <2>2. Active = {r} /\ Handles(r) /\ Differs(r)
      BY <1>1, <2>1 DEF OneAtATime
    <2>3. Active' = {r} \ {s \in {r} : pc'[s] = "done"}
      <3>1. \A s \in Requests \ {r} : s \notin Active'
        BY <1>2, <2>2 DEF Active
      <3>2. r \in Active' <=> pc'[r] # "done"
        BY <1>2 DEF Active, Edge
      <3> QED BY <3>1, <3>2 DEF Active
    <2>4. pc'[r] \notin {"new", "apply"}
      BY <1>2, <1>5 DEF Edge
    <2> QED BY <1>1, <1>2, <1>3, <1>5, <2>2, <2>3, <2>4 DEF Serial, Readable, StepFits
  <1> QED BY <1>4, <1>5

\* What is to be shown of it.
LEMMA AloneKeeps ==
    ASSUME ConfigInv, Serial, NEW r \in Requests, Handler(r),
           path' # NoFile => content'[path'].state = "whole",
           pc'[r] = "done" => Agreed',
           pc'[r] # "done" => Handles(r)' /\ Differs(r)'
    PROVE  OneAtATime'
  <1>1. up' /\ (Quiet' => Active' = {})
    BY OneMoves DEF ConfigInv, Quiet, Active
  <1>2. Active' = {r} \ {s \in {r} : pc'[s] = "done"}
    BY Alone
  <1>3. Quiet' => Agreed'
    BY <1>1, <1>2
  <1>4. \A s \in Active' : s = r /\ pc'[r] # "done" /\ Active' = {r}
    BY <1>2
  <1> QED BY <1>3, <1>4 DEF OneAtATime

\* What does not touch the file that is read leaves what it says.
LEMMA ReadStays ==
    ASSUME ConfigInv, Serial, NEW r \in Requests, Handler(r), path' = path,
           path # NoFile => content'[path] = content[path]
    PROVE  /\ Read' = Read
           /\ path' # NoFile => content'[path'].state = "whole"
  BY Alone DEF Read

LEMMA MutatedStays ==
    ASSUME NEW r \in Requests, UNCHANGED <<body, rolling, prev>>, Read' = Read
    PROVE  Mutated(r, Read)' = Mutated(r, Read)
  BY DEF Mutated, MutatedPlugins, Merged

LEMMA AloneBegins ==
    ASSUME ConfigInv, Serial, NEW r \in Requests,
           Arrives(r) \/ AppliesRetention(r) \/ Finds(r) \/ LoadsPrev(r)
    PROVE  OneAtATime'
  <1>1. Handler(r)
    BY DEF Handler
  <1>2. /\ TypeOK /\ Readable
        /\ pc[r] = "new" => Agreed /\ ~ rolling[r]
        /\ pc[r] # "new" => Handles(r) /\ Differs(r)
    BY <1>1, Alone
  <1>3. /\ UNCHANGED <<body, rolling, media, registry, drift, failures, fileVars>>
        /\ Edge(pc[r], pc'[r]) /\ pc'[r] # "new"
    <2>1. Edge(pc[r], pc'[r]) /\ UNCHANGED body
      BY <1>1, <1>2, OneMoves
    <2> QED BY <2>1 DEF Arrives, AppliesRetention, Finds, LoadsPrev, liveVars, Edge
  <1>4. Read' = Read /\ (path' # NoFile => content'[path'].state = "whole")
    BY <1>1, <1>3, ReadStays DEF fileVars
  <1>5. (NamesBoth(body[r]) /\ Undisturbed)' <=> NamesBoth(body[r]) /\ Undisturbed
    BY <1>3 DEF NamesBoth, Undisturbed
  <1>6. ~ rolling[r]
    BY <1>2 DEF ConfigInv, StepFits, Arrives, AppliesRetention, Finds, LoadsPrev, Goes, Answers
  <1>7. pc[r] = "new" => Agreed
    BY <1>2
  <1>8. (PluginOp(r)' <=> PluginOp(r)) /\ (Undisturbed' <=> Undisturbed)
    BY <1>3 DEF PluginOp, Undisturbed, NamesBoth
  <1>9. pc'[r] \in {"load", "apply", "find", "prev", "done"} /\ pc[r] \in {"new", "apply", "find", "prev"}
    BY <1>2, OneMoves DEF Arrives, AppliesRetention, Finds, LoadsPrev, Edge, Goes, Answers, Handler
  <1>10. Agreed \/ Differs(r)
    BY <1>2
  <1>11. \/ Agreed
         \/ /\ ~ drift => registry = InForce(Read.plugins)
            /\ media = Val(Read.media)
            /\ Undisturbed => retention = Effective(Read.retention)
    BY <1>6, <1>9, <1>10 DEF Differs, Saving
  <1>12. Agreed
    BY <1>11 DEF Agreed
  <1>13. CASE AppliesRetention(r)
    <2>1. /\ pc'[r] = "load" /\ body[r].op = "retention"
          /\ retention' = [bytes |-> Val(body[r].bytes), age |-> Val(body[r].age)]
      BY <1>2, <1>13, OneMoves DEF AppliesRetention, Goes, ConfigInv, StepFits, TypeOK
    <2>2. ~ PluginOp(r)
      BY <2>1 DEF PluginOp
    <2>3. Handles(r)'
      BY <1>8, <2>1, <2>2 DEF Handles
    <2>4. Differs(r)'
      BY <1>3, <1>4, <1>8, <1>12, <2>1, <2>2 DEF Differs, Saving, Agreed
    <2> QED BY <1>1, <1>4, <2>1, <2>3, <2>4, AloneKeeps
  <1>14. CASE ~ AppliesRetention(r)
    <2>1. retention' = retention
      BY <1>14 DEF Arrives, AppliesRetention, Finds, LoadsPrev, liveVars
    <2>2. pc'[r] = "done" => Agreed'
      BY <1>3, <1>4, <1>8, <1>12, <2>1 DEF Agreed
    <2>3. PluginOp(r) /\ pc'[r] = "load" => prev'[r] = Read.plugins
      <3>1. PluginOp(r) => ~ (Arrives(r) /\ pc'[r] = "load")
        BY <1>2 DEF Arrives, Goes, FirstStep, PluginOp, TypeOK
      <3>2. ~ (Finds(r) /\ pc'[r] = "load")
        BY <1>2 DEF Finds, Goes, Answers, TypeOK
      <3>3. LoadsPrev(r) /\ pc'[r] = "load" => prev'[r] = Read.plugins
        BY <1>2 DEF LoadsPrev, Goes, Answers, TypeOK
      <3> QED BY <1>1, <1>14, <3>1, <3>2, <3>3
    <2>4. Handles(r)'
      BY <1>3, <1>4, <1>8, <1>9, <2>3 DEF Handles, Saving
    <2>5. body[r].op = "retention" => pc'[r] # "load"
      BY <1>2, <1>14 DEF Arrives, Finds, LoadsPrev, Goes, Answers, FirstStep, PluginOp, TypeOK,
         ConfigInv, StepFits
    <2>6. Differs(r)'
      BY <1>3, <1>4, <1>6, <1>8, <1>9, <1>12, <2>1, <2>5 DEF Differs, Saving, Agreed
    <2> QED BY <1>1, <1>4, <2>2, <2>4, <2>6, AloneKeeps
  <1> QED BY <1>13, <1>14

LEMMA AloneOpens ==
    ASSUME ConfigInv, Serial, NEW r \in Requests, LoadsOverrides(r) \/ OpensTmp(r) \/ Writes(r)
    PROVE  OneAtATime'
  <1>1. Handler(r)
    BY DEF Handler
  <1>2. /\ TypeOK /\ Readable /\ (tmp # NoFile => tmp # path)
        /\ pc[r] # "new" => Handles(r) /\ Differs(r)
        /\ path # NoFile => path \in Files
    BY <1>1, Alone
  <1>3. /\ UNCHANGED <<body, rolling, prev, media, registry, retention, drift, failures, path>>
    <2>1. UNCHANGED body
      BY <1>1, <1>2, OneMoves
    <2> QED BY <1>2, <2>1 DEF LoadsOverrides, OpensTmp, Writes, liveVars, fileVars
  <1>4. pc[r] \in {"load", "open", "write"} /\ pc'[r] \in {"open", "write", "rename"}
    BY <1>1, <1>2, OneMoves DEF LoadsOverrides, OpensTmp, Writes, Goes, TypeOK
  <1>5. Handles(r) /\ Differs(r) /\ pc[r] \in Saving /\ pc'[r] \in Saving
    BY <1>2, <1>4 DEF Saving
  <1>6. path # NoFile => content'[path] = content[path]
    <2>1. content \in [Files -> Contents]
      BY <1>2 DEF TypeOK
    <2>2. CASE LoadsOverrides(r)
      BY <2>2 DEF LoadsOverrides, fileVars
    <2>3. CASE OpensTmp(r)
      BY <1>2, <2>1, <2>3 DEF OpensTmp
    <2>4. CASE Writes(r)
      <3>1. fd[r] = tmp /\ tmp # NoFile
        BY <1>5, <2>4 DEF Writes, Goes, Handles
      <3> QED BY <1>2, <2>1, <2>4, <3>1 DEF Writes
    <2> QED BY <2>2, <2>3, <2>4
  <1>7. Read' = Read /\ (path' # NoFile => content'[path'].state = "whole")
    BY <1>1, <1>3, <1>6, ReadStays
  <1>8. (PluginOp(r)' <=> PluginOp(r)) /\ (Undisturbed' <=> Undisturbed)
    BY <1>3 DEF PluginOp, Undisturbed, NamesBoth
  <1>9. Differs(r)'
    BY <1>3, <1>4, <1>5, <1>7, <1>8 DEF Differs, Saving
  <1>10. Mutated(r, Read)' = Mutated(r, Read)
    BY <1>3, <1>7, MutatedStays
  <1>11. PluginOp(r) /\ ~ rolling[r] => prev[r] = Read.plugins
    BY <1>5 DEF Handles
  <1>12. /\ tmp' # NoFile \/ pc'[r] = "open"
         /\ pc'[r] \in {"write", "rename"} => fd'[r] = tmp'
         /\ pc'[r] = "write" => content'[tmp'] = Empty
         /\ pc'[r] = "rename" => content'[tmp'] = Whole(ov'[r])
         /\ ov'[r] = Mutated(r, Read)
    <2>1. CASE LoadsOverrides(r)
      BY <1>2, <1>4, <2>1 DEF LoadsOverrides, Goes, TypeOK, SaveFails, Answers
    <2>2. CASE OpensTmp(r)
      <3>1. /\ pc[r] = "open" /\ pc'[r] = "write" /\ ov' = ov
            /\ content \in [Files -> Contents] /\ fd \in [Requests -> 0..used]
            /\ fd' = [fd EXCEPT ![r] = tmp']
        BY <1>2, <2>2 DEF OpensTmp, Goes, TypeOK
      <3>2. tmp' \in Files
        <4>1. tmp' \in 1..used' /\ used' \in 0..Cardinality(Files)
          BY <2>2, OpensOnce
        <4> QED BY <4>1, FilesCounted DEF Files
      <3>3. content'[tmp'] = Empty
        <4>1. CASE tmp = NoFile
          <5>1. content' = content /\ tmp' = used + 1 /\ used \in Nat
            BY <1>2, <2>2, <4>1, FilesCounted DEF OpensTmp, TypeOK
          <5>2. tmp' > used
            BY <5>1
          <5> QED BY <3>2, <5>1, <5>2 DEF ConfigInv, StepFits
        <4>2. CASE tmp # NoFile
          BY <2>2, <3>1, <3>2, <4>2 DEF OpensTmp
        <4> QED BY <4>1, <4>2
      <3>4. tmp' # NoFile
        BY <3>2 DEF Files, NoFile
      <3>5. ov[r] = Mutated(r, Read)
        BY <1>5, <3>1 DEF Handles
      <3>6. fd'[r] = tmp'
        BY <3>1
      <3> QED BY <3>1, <3>3, <3>4, <3>5, <3>6
    <2>3. CASE Writes(r)
      <3>1. /\ pc[r] = "write" /\ pc'[r] = "rename" /\ ov' = ov /\ fd' = fd /\ tmp' = tmp
            /\ content \in [Files -> Contents]
        BY <1>2, <2>3 DEF Writes, Goes, TypeOK
      <3>2. fd[r] = tmp /\ tmp # NoFile /\ content[tmp] = Empty /\ ov[r] = Mutated(r, Read)
        BY <1>5, <3>1 DEF Handles
      <3>3. content' = [content EXCEPT ![tmp] = Whole(ov[r])]
        BY <2>3, <3>2 DEF Writes
      <3>4. tmp \in Files
        <4>1. tmp \in 0..used /\ used \in 0..Cardinality(Files)
          BY <1>2 DEF TypeOK
        <4> QED BY <3>2, <4>1, FilesCounted DEF Files, NoFile
      <3> QED BY <3>1, <3>2, <3>3, <3>4
    <2> QED BY <2>1, <2>2, <2>3
  <1>13. Handles(r)'
    BY <1>3, <1>4, <1>7, <1>8, <1>10, <1>11, <1>12 DEF Handles
  <1>14. pc'[r] # "done"
    BY <1>4
  <1> QED BY <1>1, <1>7, <1>9, <1>13, <1>14, AloneKeeps

\* A save changes the block of its owner, and that one as its request says.
LEMMA MutatedSays ==
    ASSUME TypeOK, NEW r \in Requests
    PROVE  LET m == Mutated(r, Read) IN
           /\ m.media = IF body[r].op = "media" THEN body[r].on ELSE Read.media
           /\ m.retention = IF body[r].op = "retention" THEN Merged(Read.retention, body[r])
                            ELSE Read.retention
           /\ PluginOp(r) /\ rolling[r] => m.plugins = prev[r]
           /\ ~ PluginOp(r) => m.plugins = Read.plugins
  <1>1. Read \in Overrides
    BY ReadTyped
  <1>2. body[r].op \in {"media", "retention", "plugins", "patch", "delete"}
    BY AsksTyped DEF TypeOK
  <1>3. rolling[r] => MutatedPlugins(r, Read.plugins) = prev[r]
    BY DEF MutatedPlugins
  <1> HIDE DEF Read
  <1> QED BY <1>1, <1>2, <1>3 DEF Mutated, Overrides, PluginOp

LEMMA AloneRenames ==
    ASSUME ConfigInv, Serial, NEW r \in Requests, Renames(r)
    PROVE  /\ OneAtATime' /\ Read' = Mutated(r, Read)
  <1>1. Handler(r)
    BY DEF Handler
  <1>2. /\ TypeOK /\ Readable
        /\ pc[r] # "new" => Handles(r) /\ Differs(r)
    BY <1>1, Alone
  <1>3. /\ UNCHANGED <<body, rolling, prev, ov, media, registry, retention, drift, failures, content>>
        /\ path' = tmp /\ tmp # NoFile
    <2>1. UNCHANGED body
      BY <1>1, <1>2, OneMoves
    <2> QED BY <1>2, <2>1 DEF Renames, liveVars
  <1>4. /\ pc[r] = "rename" /\ pc'[r] \in {"saved", "done"}
        /\ pc'[r] = "saved" <=> ~ rolling[r]
    BY <1>1, <1>2, OneMoves DEF Renames, Goes, Answers, TypeOK
  <1>5. Handles(r) /\ Differs(r)
    BY <1>2, <1>4
  <1>6. content[tmp] = Whole(ov[r]) /\ ov[r] = Mutated(r, Read)
    BY <1>4, <1>5 DEF Handles
  <1>7. Read' = Mutated(r, Read) /\ content'[path'].state = "whole"
    BY <1>3, <1>6 DEF Read, Whole
  <1>8. (PluginOp(r)' <=> PluginOp(r)) /\ (Undisturbed' <=> Undisturbed)
    BY <1>3 DEF PluginOp, Undisturbed, NamesBoth
  <1>9. /\ body[r].op \in {"media", "retention", "plugins", "patch", "delete"}
        /\ rolling[r] => PluginOp(r)
    BY <1>2, AsksTyped DEF ConfigInv, StepFits, TypeOK
  <1>10. /\ ~ drift => registry = InForce(IF PluginOp(r) THEN prev[r] ELSE Read.plugins)
         /\ media = Val(Read.media)
         /\ Undisturbed =>
              retention = IF body[r].op = "retention"
                          THEN [bytes |-> Val(body[r].bytes), age |-> Val(body[r].age)]
                          ELSE Effective(Read.retention)
    <2>1. PluginOp(r) /\ ~ rolling[r] => prev[r] = Read.plugins
      BY <1>4, <1>5 DEF Handles, Saving
    <2> QED BY <1>4, <1>5, <2>1 DEF Differs, Saving
  <1>11. Undisturbed /\ body[r].op = "retention" =>
            Effective(Merged(Read.retention, body[r])) =
                [bytes |-> Val(body[r].bytes), age |-> Val(body[r].age)]
    <2>1. Undisturbed /\ body[r].op = "retention" => body[r].bytes # Absent /\ body[r].age # Absent
      BY DEF Undisturbed, NamesBoth
    <2> QED BY <2>1 DEF Effective, Merged
  <1>12. /\ body[r].op # "media" => Read'.media = Read.media
         /\ body[r].op = "media" => Read'.media = body[r].on
         /\ ~ PluginOp(r) => Read'.plugins = Read.plugins
         /\ PluginOp(r) /\ rolling[r] => Read'.plugins = prev[r]
         /\ body[r].op # "retention" => Read'.retention = Read.retention
         /\ body[r].op = "retention" => Read'.retention = Merged(Read.retention, body[r])
    BY <1>2, <1>7, MutatedSays
  <1>13. Undisturbed => retention = Effective(Read'.retention)
    BY <1>10, <1>11, <1>12
  <1>14. CASE rolling[r]
    <2>1. PluginOp(r) /\ body[r].op # "media"
      BY <1>9, <1>14 DEF PluginOp
    <2>2. Agreed'
      <3>1. ~ drift' => registry' = InForce(Read'.plugins)
        BY <1>3, <1>10, <1>12, <1>14, <2>1
      <3>2. media' = Val(Read'.media)
        BY <1>3, <1>10, <1>12, <2>1
      <3>3. Undisturbed' => retention' = Effective(Read'.retention)
        BY <1>3, <1>8, <1>13
      <3> QED BY <3>1, <3>2, <3>3 DEF Agreed
    <2> QED BY <1>1, <1>4, <1>7, <1>14, <2>2, AloneKeeps
  <1>15. CASE ~ rolling[r]
    <2>1. pc'[r] = "saved" /\ ov'[r] = Read' /\ ~ rolling'[r]
      BY <1>3, <1>4, <1>6, <1>7, <1>15
    <2>2. Handles(r)'
      BY <2>1 DEF Handles, Saving
    <2>3. ~ drift' => registry' = InForce(IF PluginOp(r) THEN prev'[r] ELSE Read'.plugins)
      BY <1>3, <1>10, <1>12
    <2>4. IF body'[r].op = "media" THEN Read'.media = body'[r].on ELSE media' = Val(Read'.media)
      BY <1>3, <1>10, <1>12
    <2>5. Undisturbed' => retention' = Effective(Read'.retention)
      BY <1>3, <1>8, <1>13
    <2>6. Differs(r)'
      BY <1>8, <2>1, <2>3, <2>4, <2>5 DEF Differs, Saving
    <2> QED BY <1>1, <1>7, <2>1, <2>2, <2>6, AloneKeeps
  <1> QED BY <1>7, <1>14, <1>15

LEMMA AloneStops ==
    ASSUME ConfigInv, Serial, NEW r \in Requests,
           WriteFails(r) \/ RenameFails(r) \/ RemovesTmp(r) \/ StoresMedia(r) \/ RetentionDone(r)
    PROVE  OneAtATime'
  <1>1. Handler(r)
    BY DEF Handler
  <1>2. /\ TypeOK /\ Readable
        /\ pc[r] # "new" => Handles(r) /\ Differs(r)
    BY <1>1, Alone
  <1>3. /\ UNCHANGED <<body, rolling, registry, retention, path, content>>
    <2>1. UNCHANGED body
      BY <1>1, <1>2, OneMoves
    <2> QED BY <1>2, <2>1 DEF WriteFails, RenameFails, RemovesTmp, StoresMedia, RetentionDone,
            liveVars, fileVars
  <1>4. /\ pc[r] \in {"open", "write", "rename", "remove", "saved"}
        /\ RenameFails(r) => pc[r] = "rename" /\ tmp = NoFile
        /\ RemovesTmp(r) => pc[r] = "remove"
    BY DEF WriteFails, RenameFails, RemovesTmp, StoresMedia, RetentionDone, SaveFails, Answers, Goes
  <1>5. Handles(r) /\ Differs(r)
    BY <1>2, <1>4
  <1>6. ~ RenameFails(r) /\ ~ RemovesTmp(r)
    BY <1>4, <1>5 DEF Handles
  <1>7. Read' = Read /\ (path' # NoFile => content'[path'].state = "whole")
    BY <1>1, <1>3, ReadStays
  <1>8. /\ PluginOp(r)' <=> PluginOp(r)
        /\ failures' = 0 /\ failures = 0 => (Undisturbed' <=> Undisturbed)
    BY <1>3 DEF PluginOp, Undisturbed, NamesBoth
  <1>9. pc'[r] = "done"
    BY <1>2, <1>6 DEF WriteFails, StoresMedia, RetentionDone, SaveFails, Answers, Goes, TypeOK
  <1>10. CASE WriteFails(r)
    <2>1. /\ pc[r] \in {"open", "write"} /\ media' = media /\ (drift' <=> (drift \/ rolling[r]))
          /\ failures' = failures + 1
      BY <1>10 DEF WriteFails, SaveFails, Answers, Goes, liveVars
    <2>2. ~ Undisturbed'
      <3>1. failures \in Nat
        BY <1>2, RuntimeConfigAssumption DEF TypeOK
      <3> QED BY <2>1, <3>1 DEF Undisturbed
    <2>3. /\ ~ drift' => registry = InForce(Read.plugins)
          /\ media = Val(Read.media)
      BY <1>5, <2>1 DEF Differs
    <2>4. Agreed'
      BY <1>3, <1>7, <2>1, <2>2, <2>3 DEF Agreed
    <2> QED BY <1>1, <1>7, <1>9, <2>4, AloneKeeps
  <1>11. CASE StoresMedia(r) \/ RetentionDone(r)
    <2>1. /\ pc[r] = "saved" /\ ~ PluginOp(r) /\ UNCHANGED <<drift, failures>> /\ ~ rolling[r]
      BY <1>11 DEF StoresMedia, RetentionDone, Answers, Goes, PluginOp, ConfigInv, StepFits
    <2>2. media' = Val(Read.media)
      <3>1. CASE StoresMedia(r)
        <4>1. media' = body[r].on /\ body[r].op = "media"
          BY <3>1 DEF StoresMedia
        <4>2. Read.media = body[r].on
          BY <1>5, <2>1, <4>1 DEF Differs
        <4>3. body[r].on # Absent
          BY <1>2, <4>1, AsksTyped DEF TypeOK
        <4> QED BY <4>1, <4>2, <4>3 DEF Val
      <3>2. CASE RetentionDone(r)
        BY <1>5, <3>2 DEF RetentionDone, Differs, liveVars
      <3> QED BY <1>11, <3>1, <3>2
    <2>3. /\ ~ drift => registry = InForce(Read.plugins)
          /\ Undisturbed => retention = Effective(Read.retention)
      BY <1>5, <2>1 DEF Differs, Saving
    <2>4. Undisturbed' <=> Undisturbed
      BY <1>3, <2>1 DEF Undisturbed, NamesBoth
    <2>5. Agreed'
      BY <1>3, <1>7, <2>1, <2>2, <2>3, <2>4 DEF Agreed
    <2> QED BY <1>1, <1>7, <1>9, <2>5, AloneKeeps
  <1> QED BY <1>6, <1>10, <1>11

LEMMA AloneReloads ==
    ASSUME ConfigInv, Serial, NEW r \in Requests, Refreshes(r) \/ KeepsList(r) \/ Reloads(r)
    PROVE  OneAtATime'
  <1>1. Handler(r)
    BY DEF Handler
  <1>2. /\ TypeOK /\ Readable
        /\ pc[r] # "new" => Handles(r) /\ Differs(r)
    BY <1>1, Alone
  <1>3. /\ UNCHANGED <<body, prev, media, retention, path, content, drift, failures>>
    <2>1. UNCHANGED body
      BY <1>1, <1>2, OneMoves
    <2> QED BY <1>2, <2>1 DEF Refreshes, KeepsList, Reloads, liveVars, fileVars
  <1>4. /\ pc[r] \in {"saved", "reload"} /\ PluginOp(r) /\ ~ rolling[r]
        /\ body[r].op \notin {"media", "retention"}
    <2>1. pc[r] \in {"saved", "reload"}
      BY DEF Refreshes, KeepsList, Reloads, RollsBack, Answers, Goes
    <2>2. PluginOp(r)
      BY DEF Refreshes, KeepsList, Reloads, RollsBack, Answers, Goes, PluginOp, ConfigInv, StepFits
    <2> QED BY <2>1, <2>2 DEF ConfigInv, StepFits, PluginOp
  <1>5. Handles(r) /\ Differs(r)
    BY <1>2, <1>4
  <1>6. Read' = Read /\ (path' # NoFile => content'[path'].state = "whole")
    BY <1>1, <1>3, ReadStays
  <1>7. (PluginOp(r)' <=> PluginOp(r)) /\ (Undisturbed' <=> Undisturbed)
    BY <1>3 DEF PluginOp, Undisturbed, NamesBoth
  <1>8. /\ ~ drift => registry = InForce(prev[r])
        /\ media = Val(Read.media)
        /\ Undisturbed => retention = Effective(Read.retention)
        /\ ov[r] = Read
    BY <1>4, <1>5 DEF Differs, Handles
  <1>9. CASE /\ pc'[r] = "reload" /\ ov'[r] = Read /\ registry' = registry
    <2>1. Handles(r)'
      BY <1>6, <1>9 DEF Handles, Saving
    <2>2. Differs(r)'
      BY <1>3, <1>4, <1>6, <1>7, <1>8, <1>9 DEF Differs
    <2> QED BY <1>1, <1>6, <1>9, <2>1, <2>2, AloneKeeps
  <1>10. CASE /\ pc'[r] = "load" /\ rolling'[r] /\ registry' = registry
    <2>1. Handles(r)'
      BY <1>10 DEF Handles
    <2>2. Differs(r)'
      BY <1>3, <1>4, <1>6, <1>7, <1>8, <1>10 DEF Differs
    <2> QED BY <1>1, <1>6, <1>10, <2>1, <2>2, AloneKeeps
  <1>11. CASE /\ pc'[r] = "done" /\ registry' = InForce(ov[r].plugins)
    <2>1. Agreed'
      BY <1>3, <1>6, <1>7, <1>8, <1>11 DEF Agreed
    <2> QED BY <1>1, <1>6, <1>11, <2>1, AloneKeeps
  <1>12. CASE Refreshes(r) \/ KeepsList(r)
    <2>1. pc'[r] = "reload" /\ ov'[r] = Read /\ registry' = registry
      BY <1>2, <1>8, <1>12 DEF Refreshes, KeepsList, Goes, liveVars, TypeOK
    <2> QED BY <1>9, <2>1
  <1>13. CASE Reloads(r)
    <2>1. CASE Builds(ov[r].plugins)
      BY <1>2, <1>11, <1>13, <2>1 DEF Reloads, Answers, Goes, TypeOK
    <2>2. CASE ~ Builds(ov[r].plugins)
      BY <1>2, <1>10, <1>13, <2>2 DEF Reloads, RollsBack, Goes, TypeOK
    <2> QED BY <2>1, <2>2
  <1> QED BY <1>12, <1>13

-----------------------------------------------------------------------------
(* The theorems. *)

LEMMA RestartKeeps == ConfigInv /\ Restart => ConfigInv'
  <1> SUFFICES ASSUME ConfigInv, Restart PROVE ConfigInv'
    OBVIOUS
  <1> DEFINE o == IF Readable THEN Read ELSE NoOverrides
  <1>1. TypeOK /\ StepFits
    BY DEF ConfigInv
  <1>2. o \in Overrides /\ o.media \in Knob /\ o.plugins \in Lists /\ o.retention \in Block
    <2>1. o \in Overrides
      BY <1>1, ReadTyped
    <2> HIDE DEF o
    <2> QED BY <2>1 DEF Overrides
  <1>3. /\ UNCHANGED <<content, used, path, tmp, body, limit, ov, prev, fd, rolling, answer, drift, failures>>
        /\ crashes' = crashes + 1 /\ crashes < MaxCrashes
        /\ up' = Builds(o.plugins) /\ media' = Val(o.media) /\ retention' = Effective(o.retention)
        /\ registry' = IF Builds(o.plugins) THEN InForce(o.plugins) ELSE "empty"
        /\ pc' = [r \in Requests |-> IF pc[r] = "new" THEN "new" ELSE "done"]
    BY DEF Restart, fileVars, given
  <1>4. Read' = Read
    BY <1>3 DEF Read
  <1>5. Quiet' /\ Active' = {}
    BY <1>3 DEF Quiet, Active
  <1> HIDE DEF o
  <1>6. TypeOK'
    <2>1. up' \in BOOLEAN
      BY <1>3 DEF Builds
    <2>2. pc' \in [Requests -> Steps]
      BY <1>3 DEF Steps
    <2>3. Val(o.media) \in 0..1
      BY <1>2 DEF Val, Knob, Absent
    <2>4. Effective(o.retention) \in [bytes : 0..1, age : 0..1]
      <3>1. Val(o.retention.bytes) \in 0..1 /\ Val(o.retention.age) \in 0..1
        BY <1>2 DEF Block, Val, Knob, Absent
      <3> QED BY <3>1 DEF Effective
    <2>5. registry' \in Lists
      BY <1>2, <1>3 DEF InForce, Lists
    <2>6. crashes' \in 0..MaxCrashes
      BY <1>1, <1>3, RuntimeConfigAssumption DEF TypeOK
    <2> QED BY <1>1, <1>3, <2>1, <2>2, <2>3, <2>4, <2>5, <2>6 DEF TypeOK
  <1>7. OpenedOnce'
    <2>1. \A s \in Requests, i \in 1..2 : Opened(s, i) => Opened(s, i)'
      BY <1>1, <1>3 DEF Opened, StepFits
    <2> QED BY <1>3, <2>1, OpenedStays
  <1>8. StepFits'
    BY <1>1, <1>3, <1>5 DEF StepFits, PluginOp
  <1>9. AskedFor'
    BY <1>3 DEF ConfigInv, AskedFor, Asked
  <1>10. RunsWhatBuilds'
    <2>1. ~ Builds(o.plugins) => ~ Builds(Read.plugins)
      BY DEF o, Builds, NoOverrides
    <2>2. Builds(registry')
      BY <1>3 DEF Builds, InForce
    <2> QED BY <1>3, <1>4, <2>1, <2>2 DEF RunsWhatBuilds, Builds
  <1>11. OneAtATime'
    <2> SUFFICES ASSUME Serial' PROVE OneAtATime'
      BY DEF OneAtATime
    <2>1. path # NoFile => path \in Files /\ content[path].state = "whole"
      BY <1>1, <1>3, ReadTyped DEF ConfigInv, OneAtATime, Serial
    <2>2. o = Read
      BY <2>1 DEF o, Readable
    <2>3. up' => Agreed'
      BY <1>3, <1>4, <2>2 DEF Agreed
    <2> QED BY <1>3, <1>5, <2>1, <2>3 DEF OneAtATime
  <1> QED BY <1>6, <1>7, <1>8, <1>9, <1>10, <1>11 DEF ConfigInv

LEMMA RestsKeep == ConfigInv /\ UNCHANGED vars => ConfigInv'
  <1> SUFFICES ASSUME ConfigInv, UNCHANGED vars PROVE ConfigInv'
    OBVIOUS
  <1> USE DEF vars, fileVars, liveVars, handlerVars
  <1>1. TypeOK'
    BY DEF ConfigInv, TypeOK
  <1>2. OpenedOnce'
    BY OpenedStays DEF Opened
  <1>3. StepFits' /\ AskedFor' /\ RunsWhatBuilds'
    BY DEF ConfigInv, StepFits, AskedFor, Asked, RunsWhatBuilds, Quiet, PluginOp, Read
  <1>4. OneAtATime'
    <2>1. /\ Read' = Read /\ (Quiet' <=> Quiet) /\ Active' = Active /\ (Serial' <=> Serial)
          /\ Agreed' <=> Agreed
      BY DEF Read, Quiet, Active, Serial, Agreed, Undisturbed, NamesBoth
    <2>2. ASSUME NEW r \in Requests
          PROVE  (Handles(r)' <=> Handles(r)) /\ (Differs(r)' <=> Differs(r))
      BY <2>1 DEF Handles, Differs, PluginOp, Mutated, MutatedPlugins, Merged, Undisturbed, NamesBoth
    <2>3. Active \subseteq Requests
      BY DEF Active
    <2> QED BY <2>1, <2>2, <2>3 DEF ConfigInv, OneAtATime
  <1> QED BY <1>1, <1>2, <1>3, <1>4 DEF ConfigInv

LEMMA ConfigStep == ConfigInv /\ [Next]_vars => ConfigInv'
  <1> SUFFICES ASSUME ConfigInv, [Next]_vars PROVE ConfigInv'
    OBVIOUS
  <1>1. ASSUME NEW r \in Requests, Handler(r) PROVE ConfigInv'
    <2>1. TypeOK' /\ OpenedOnce' /\ StepFits' /\ AskedFor' /\ RunsWhatBuilds'
      BY <1>1, HandlerTyped, HandlerFits, HandlerAsked, HandlerBuilds
    <2>2. OneAtATime'
      <3>1. CASE Serial
        BY <1>1, <3>1, AloneBegins, AloneOpens, AloneRenames, AloneStops, AloneReloads DEF Handler
      <3>2. CASE ~ Serial
        <4>1. ~ Serial'
          BY <1>1, <3>2, OneMoves DEF Serial, ConfigInv
        <4> QED BY <4>1 DEF OneAtATime
      <3> QED BY <3>1, <3>2
    <2> QED BY <2>1, <2>2 DEF ConfigInv
  <1>2. CASE Restart
    BY <1>2, RestartKeeps
  <1>3. CASE UNCHANGED vars
    BY <1>3, RestsKeep
  <1> QED BY <1>1, <1>2, <1>3 DEF Next, Handler, Rests

\* The types, what the file holds, and how the process and the file differ while one handler
\* is at work, in every reachable state.
THEOREM ConfigInvariance ==
    Spec => []ConfigInv
  BY ConfigInit, ConfigStep, PTL DEF Spec

\* The settings and the handlers have the types the code gives them, and no request opens
\* more than two files.
THEOREM TypeCorrect ==
    Spec => []TypeOK
  <1>1. ConfigInv => TypeOK
    BY DEF ConfigInv
  <1> QED BY <1>1, ConfigInvariance, PTL

\* One request at a time, a reader of runtime_overrides.json sees a whole text; whatever overlaps,
\* a knob is in a file only if some operator has set it (SaveOverride, putConfigRetention).
THEOREM NeverTornFile ==
    Spec => []NeverTorn
  <1>1. ConfigInv => NeverTorn
    BY DEF ConfigInv, OneAtATime, AskedFor, Asked, NeverTorn
  <1> QED BY <1>1, ConfigInvariance, PTL

\* One request at a time, a save changes the block of its owner and no sibling (SaveOverride).
THEOREM SavesKeepSiblings ==
    Spec => SiblingsKept
  <1> DEFINE Kept(r) ==
        Serial /\ pc[r] = "rename" /\ pc'[r] # "rename" /\ path' # path =>
            \A b \in DOMAIN Blocks : Blocks'[b] # Blocks[b] => b = Owner(body[r].op)
  <1>1. ASSUME ConfigInv, [Next]_vars, NEW r \in Requests PROVE Kept(r)
    <2> SUFFICES ASSUME Serial, pc[r] = "rename", pc'[r] # "rename", path' # path
                 PROVE  \A b \in DOMAIN Blocks : Blocks'[b] # Blocks[b] => b = Owner(body[r].op)
      OBVIOUS
    <2>1. PICK s \in Requests : Renames(s)
      BY <1>1 DEF Next, Arrives, AppliesRetention, Finds, LoadsPrev, LoadsOverrides, OpensTmp, Writes,
         WriteFails, RenameFails, RemovesTmp, StoresMedia, RetentionDone, Refreshes, KeepsList,
         Reloads, Restart, Rests, vars, fileVars
    <2>2. s = r
      <3>1. /\ Handler(s) /\ TypeOK
        BY <1>1, <2>1 DEF Handler, ConfigInv
      <3>2. \A t \in Requests \ {s} : pc'[t] = pc[t]
        BY <3>1, OneMoves
      <3> QED BY <3>2
    <2>3. Read' = Mutated(r, Read) /\ TypeOK
      BY <1>1, <2>1, <2>2, AloneRenames DEF ConfigInv
    <2>4. body[r].op \in {"media", "retention", "plugins", "patch", "delete"}
      BY <2>3, AsksTyped DEF TypeOK
    <2>5. /\ body[r].op # "media" => Read'.media = Read.media
          /\ body[r].op # "retention" => Read'.retention = Read.retention
          /\ ~ PluginOp(r) => Read'.plugins = Read.plugins
      BY <2>3, MutatedSays
    <2> QED BY <2>4, <2>5 DEF Blocks, Owner, PluginOp
  <1>2. ConfigInv /\ [Next]_vars => [\A r \in Requests : Kept(r)]_vars
    BY <1>1
  <1> QED BY <1>2, ConfigInvariance, PTL DEF Spec, SiblingsKept

\* One request at a time, the process and the file agree whenever no request is under way: what
\* runs is what a restart would load (putConfigMedia, putConfigRetention, rollbackPluginsOverride);
\* whatever overlaps, the plugins that run could be built (Reload).
THEOREM ProcessMatches ==
    Spec => []ProcessMatchesFile
  <1>1. ConfigInv => ProcessMatchesFile
    BY DEF ConfigInv, OneAtATime, Agreed, Undisturbed, ProcessMatchesFile, RegistryMatchesFile,
       MediaMatchesFile, RetentionMatchesFile
  <1> QED BY <1>1, ConfigInvariance, PTL
=============================================================================
