---------------------------- MODULE CaptureProofs ----------------------------
(***************************************************************************)
(* What the record of a request says of its bodies, for any chunks, channel*)
(* capacity and size cap.                                                  *)
(*                                                                         *)
(* The bytes of a direction go wire -> queue -> file, and at every moment  *)
(* the file and the chunks in the queue tell where they stand on the wire: *)
(*                                                                         *)
(*   InOrder     the chunks of file and queue are numbered in the order of *)
(*               the wire, whatever was dropped between them;              *)
(*   Placed      without a drop the file is the head of the wire, and      *)
(*               while it is written to, the queue is the rest;            *)
(*   Flagged     a drainer that stopped writing says why;                  *)
(*   TimesChunks ChunkTimings cut the file at the chunk borders.           *)
(*                                                                         *)
(* Control ties them to the handler: it builds the record after it closed  *)
(* both channels and joined both drainers.                                 *)
(***************************************************************************)
EXTENDS Capture, SequenceTheorems, WellFoundedInduction, TLAPS

\* Chunks of a direction that reached the tee.
Handed(d) == IF d = "req" /\ upc = "tee" THEN sent[d] - 1 ELSE sent[d]

InOrder(d) ==
    /\ \A i \in 1..Len(file[d]) :
        /\ file[d][i] <= Handed(d)
        /\ \A j \in 1..Len(file[d]) : i < j => file[d][i] <= file[d][j]
    /\ \A q \in 1..Len(queue[d]) :
        /\ queue[d][q][1] <= Handed(d)
        /\ \A i \in 1..Len(file[d]) : file[d][i] < queue[d][q][1]
        /\ \A p \in 1..Len(queue[d]) : p < q => queue[d][p][1] < queue[d][q][1]

\* pos cuts what follows the file on the wire into the chunks of the queue.
Cuts(d, pos) ==
    /\ pos[1] = Len(file[d])
    /\ pos[Len(queue[d]) + 1] = Len(wire[d])
    /\ \A k \in 1..Len(queue[d]) :
        /\ pos[k + 1] = pos[k] + Len(queue[d][k])
        /\ \A i \in (pos[k] + 1)..pos[k + 1] : wire[d][i] = queue[d][k][1]

Placed(d) ==
    status # "plugin" /\ ~ dropped[d] =>
        /\ Len(file[d]) <= Len(wire[d])
        /\ \A i \in 1..Len(file[d]) : file[d][i] = wire[d][i]
        /\ ~ halted[d] =>
            \E pos \in [1..(Len(queue[d]) + 1) -> 0..Len(wire[d])] : Cuts(d, pos)
        /\ trunc[d] => Len(file[d]) < Len(wire[d])

Flagged(d) == /\ trunc[d] => halted[d]
              /\ halted[d] => trunc[d] \/ diskErr[d]

TimesChunks(d) ==
    LET ts == timings[d] IN
    /\ Len(file[d]) > 0 => Len(ts) > 0
    /\ Len(ts) > 0 => ts[1].off = 0
    /\ \A j \in 1..Len(ts) :
        /\ ts[j].off <= Len(file[d])
        /\ ts[j].off = Len(file[d]) => halted[d]
        /\ \A k \in 1..Len(ts) : j < k => ts[j].off < ts[k].off
        /\ \A i \in (ts[j].off + 1)..Len(file[d]) :
            (j < Len(ts) => i <= ts[j + 1].off) => file[d][i] = ts[j].at

\* What the handler has seen to when it is at a step.
Control ==
    /\ hpc \in {"start", "chain"} =>
        /\ upc = "none"
        /\ \A d \in Dirs : sent[d] = 0 /\ wire[d] = <<>> /\ queue[d] = <<>> /\ file[d] = <<>>
    /\ upc = "tee" => upheld # <<>> /\ upheld[1] = sent["req"]
    /\ \A d \in Dirs : closed[d] => hpc \in {"joinReq", "joinResp", "build", "done"}
    /\ \A d \in Dirs : dpc[d] = "done" => closed[d] /\ queue[d] = <<>>
    /\ hpc \in {"joinResp", "build"} => dpc["req"] = "done"
    /\ hpc = "build" => dpc["resp"] = "done"
    /\ hpc \in {"copy", "write", "stop", "close", "joinReq", "joinResp", "build"} => status # "none"
    /\ status = "plugin" => hpc \notin {"start", "chain", "round", "copy", "write"} /\ ~ sse
    /\ hpc \in {"start", "chain", "round"} => ~ sse
    /\ hpc \in {"close", "joinReq", "joinResp", "build"} => wstopped

\* The record of a whole response says that its stream had no terminator.
Unmarked == sse /\ wire["resp"] # <<>> /\ marked = 0

RecordInv ==
    Recorded =>
        /\ hpc = "done"
        /\ \A d \in Dirs : dpc[d] = "done"
        /\ rec.truncated = trunc
        /\ wstopped
        /\ ~ sse \/ file["resp"] = wire["resp"] => (rec.disconnected <=> fired \/ Unmarked)

BodiesInv == \A d \in Dirs : InOrder(d) /\ Placed(d) /\ Flagged(d)
TimingsInv == \A d \in Dirs : TimesChunks(d)
CaptureInv == TypeOK /\ Control /\ BodiesInv /\ RecordInv /\ TimingsInv

-----------------------------------------------------------------------------
(* Chunks and bytes. *)

LEMMA IdFacts ==
    /\ ChunkIds \subseteq Nat \ {0} /\ 1 \in ChunkIds
    /\ \A d \in Dirs : MaxChunks[d] \in Nat \ {0} /\ 1..MaxChunks[d] \subseteq ChunkIds
<1> DEFINE sizes == {MaxChunks[d] : d \in Dirs}
<1>1. MaxChunks["req"] \in Nat \ {0} /\ MaxChunks["resp"] \in Nat \ {0}
  BY CaptureAssumption DEF Dirs
<1>2. sizes = {MaxChunks["req"], MaxChunks["resp"]}
  BY DEF Dirs
<1>3. \E m \in sizes : \A n \in sizes : m >= n
  <2>1. CASE MaxChunks["req"] >= MaxChunks["resp"]
    BY <1>1, <1>2, <2>1
  <2>2. CASE MaxChunks["resp"] >= MaxChunks["req"]
    BY <1>1, <1>2, <2>2
  <2> QED BY <1>1, <2>1, <2>2
<1>4. Max(sizes) \in sizes /\ \A n \in sizes : Max(sizes) >= n
  <2> HIDE DEF sizes
  <2> QED BY <1>3 DEF Max
<1>5. ChunkIds = 1..Max(sizes)
  BY DEF ChunkIds
<1> HIDE DEF sizes
<1>6. Max(sizes) \in Nat \ {0}
  BY <1>1, <1>2, <1>4
<1>7. ASSUME NEW d \in Dirs
      PROVE  MaxChunks[d] \in Nat \ {0} /\ 1..MaxChunks[d] \subseteq ChunkIds
  <2>1. MaxChunks[d] \in sizes /\ MaxChunks[d] \in Nat \ {0}
    BY CaptureAssumption DEF sizes
  <2>2. MaxChunks[d] <= Max(sizes)
    BY <1>4, <1>6, <2>1
  <2> QED BY <1>5, <1>6, <2>1, <2>2
<1> QED BY <1>5, <1>6, <1>7

\* The lengths of the chunks of either direction.
Lens == ChunkLens["req"] \cup ChunkLens["resp"]

LEMMA BytesFacts ==
    ASSUME NEW n \in ChunkIds, NEW l \in Lens
    PROVE  /\ Bytes(n, l) \in Chunks
           /\ Bytes(n, l) \in Seq(ChunkIds)
           /\ Len(Bytes(n, l)) = l /\ l \in Nat \ {0}
           /\ \A i \in 1..l : Bytes(n, l)[i] = n
<1>1. l \in Nat \ {0}
  BY CaptureAssumption DEF Lens, Dirs
<1>2. Bytes(n, l) \in [1..l -> ChunkIds]
  BY DEF Bytes
<1>3. Bytes(n, l) \in Seq(ChunkIds) /\ Len(Bytes(n, l)) = l
  BY <1>1, <1>2
<1> QED BY <1>1, <1>3 DEF Bytes, Chunks, Lens

LEMMA ChunkFacts ==
    ASSUME NEW c \in Chunks
    PROVE  /\ c \in Seq(ChunkIds)
           /\ Len(c) \in Nat \ {0}
           /\ c[1] \in ChunkIds
           /\ \A i \in 1..Len(c) : c[i] = c[1]
<1>1. PICK n \in ChunkIds, l \in Lens : c = Bytes(n, l)
  BY DEF Chunks, Lens
<1> QED BY <1>1, BytesFacts

\* What TypeOK says of one direction.
LEMMA TypeFacts ==
    ASSUME TypeOK, NEW d \in Dirs
    PROVE  /\ sent[d] \in Nat /\ sent[d] <= MaxChunks[d]
           /\ wire[d] \in Seq(ChunkIds) /\ Len(wire[d]) \in Nat
           /\ file[d] \in Seq(ChunkIds) /\ Len(file[d]) \in 0..MaxBody
           /\ queue[d] \in Seq(Chunks) /\ Len(queue[d]) \in 0..ChanSize
           /\ timings[d] \in Seq([off: 0..MaxBody, at: ChunkIds]) /\ Len(timings[d]) \in Nat
<1>1. sent[d] \in Nat /\ sent[d] <= MaxChunks[d]
  BY DEF TypeOK
<1>2. /\ wire[d] \in Seq(ChunkIds) /\ file[d] \in Seq(ChunkIds) /\ queue[d] \in Seq(Chunks)
      /\ timings[d] \in Seq([off: 0..MaxBody, at: ChunkIds])
      /\ Len(queue[d]) <= ChanSize /\ Len(file[d]) <= MaxBody
  BY DEF TypeOK
<1>3. /\ Len(wire[d]) \in Nat /\ Len(file[d]) \in Nat /\ Len(queue[d]) \in Nat
      /\ Len(timings[d]) \in Nat
  BY <1>2, LenProperties
<1> QED BY <1>1, <1>2, <1>3, CaptureAssumption

\* A Sink takes a chunk, or drops it.
LEMMA SinkTypes ==
    ASSUME TypeOK, NEW d \in Dirs, NEW c \in Chunks, SinkWrites(d, c)
    PROVE  /\ wire' \in [Dirs -> Seq(ChunkIds)]
           /\ queue' \in [Dirs -> Seq(Chunks)]
           /\ \A e \in Dirs : Len(queue'[e]) <= ChanSize
           /\ dropped' \in [Dirs -> BOOLEAN]
<1>1. c \in Seq(ChunkIds)
  BY ChunkFacts
<1>2. wire[d] \o c \in Seq(ChunkIds)
  BY <1>1, TypeFacts, ConcatProperties
<1>3. Append(queue[d], c) \in Seq(Chunks) /\ Len(Append(queue[d], c)) = Len(queue[d]) + 1
  BY TypeFacts, AppendProperties
<1>4. wire' \in [Dirs -> Seq(ChunkIds)]
  BY <1>2 DEF SinkWrites, TypeOK
<1>5. CASE Len(queue[d]) < ChanSize
  <2>1. queue' = [queue EXCEPT ![d] = Append(@, c)] /\ dropped' = dropped
    BY <1>5 DEF SinkWrites
  <2>2. queue' \in [Dirs -> Seq(Chunks)]
    BY <1>3, <2>1 DEF TypeOK
  <2>3. \A e \in Dirs : Len(queue'[e]) <= ChanSize
    BY <1>3, <1>5, <2>1, TypeFacts, CaptureAssumption DEF TypeOK
  <2> QED BY <1>4, <2>1, <2>2, <2>3 DEF TypeOK
<1>6. CASE ~ (Len(queue[d]) < ChanSize)
  <2>1. queue' = queue /\ dropped' = [dropped EXCEPT ![d] = TRUE]
    BY <1>6 DEF SinkWrites
  <2> QED BY <1>4, <2>1 DEF TypeOK
<1> QED BY <1>5, <1>6

\* A drainer takes the head of its queue.
LEMMA TakesTypes ==
    ASSUME TypeOK, NEW d \in Dirs, Takes(d)
    PROVE  /\ queue' \in [Dirs -> Seq(Chunks)]
           /\ \A e \in Dirs : Len(queue'[e]) <= ChanSize
           /\ Head(queue[d]) \in Chunks
           /\ Len(queue'[d]) = Len(queue[d]) - 1
           /\ \A q \in 1..(Len(queue[d]) - 1) : queue'[d][q] = queue[d][q + 1]
           /\ Head(queue[d]) = queue[d][1] /\ Len(queue[d]) > 0
<1>1. queue[d] \in Seq(Chunks) /\ queue[d] # <<>>
  BY TypeFacts DEF Takes
<1>2. /\ Head(queue[d]) \in Chunks /\ Tail(queue[d]) \in Seq(Chunks)
      /\ Len(Tail(queue[d])) = Len(queue[d]) - 1
      /\ \A i \in 1..Len(Tail(queue[d])) : Tail(queue[d])[i] = queue[d][i + 1]
  BY <1>1, HeadTailProperties
<1>3. queue' = [queue EXCEPT ![d] = Tail(@)]
  BY DEF Takes
<1>4. queue'[d] = Tail(queue[d])
  BY <1>3 DEF TypeOK
<1>5. queue' \in [Dirs -> Seq(Chunks)]
  BY <1>2, <1>3 DEF TypeOK
<1>6. \A e \in Dirs : Len(queue'[e]) <= ChanSize
  BY <1>2, <1>3, TypeFacts, CaptureAssumption DEF TypeOK
<1>7. Head(queue[d]) = queue[d][1] /\ Len(queue[d]) > 0
  BY <1>1
<1> QED BY <1>2, <1>4, <1>5, <1>6, <1>7

-----------------------------------------------------------------------------
(* Beginnings of sequences, and numbers up to a bound. *)

LEMMA TakesFirst ==
    ASSUME NEW S, NEW c \in Seq(S), NEW n \in 0..Len(c)
    PROVE  /\ SubSeq(c, 1, n) \in Seq(S) /\ Len(SubSeq(c, 1, n)) = n
           /\ \A i \in 1..n : SubSeq(c, 1, n)[i] = c[i]
<1>1. Len(c) \in Nat /\ n \in Nat /\ n <= Len(c)
  BY LenProperties
<1>2. \A i \in 1..n : c[i] \in S
  BY <1>1, ElementOfSeq
<1> QED BY <1>1, <1>2, SubSeqProperties

LEMMA OneMore ==
    ASSUME NEW n \in Nat, NEW i \in 1..(n + 1)
    PROVE  i = n + 1 \/ i \in 1..n
  OBVIOUS

LEMMA Behind ==
    ASSUME NEW n \in Nat, NEW q \in 1..n
    PROVE  \A p \in 1..(n + 1) : p < q => p \in 1..n
  OBVIOUS

LEMMA Neighbours ==
    ASSUME NEW n \in Nat, NEW k \in 1..n
    PROVE  k \in 1..(n + 1) /\ k + 1 \in 1..(n + 1)
  OBVIOUS

LEMMA Within ==
    ASSUME NEW a \in Nat, NEW f \in Nat, NEW n \in Nat, NEW i \in (a + 1)..(f + n), i <= f
    PROVE  i \in (a + 1)..f /\ i \in 1..f
  OBVIOUS

-----------------------------------------------------------------------------
(* Type correctness. *)

USE DEF netVars, chanVars, drainVars, upVars, dogVars, ctxVars, respVars, DrainFrame

LEMMA TypeInit == Init => TypeOK
<1> SUFFICES ASSUME Init PROVE TypeOK
  OBVIOUS
<1>1. \A d \in Dirs : MaxChunks[d] \in Nat
  BY IdFacts
<1>2. /\ sent \in [Dirs -> Nat] /\ \A d \in Dirs : sent[d] <= MaxChunks[d]
      /\ wire \in [Dirs -> Seq(ChunkIds)] /\ file \in [Dirs -> Seq(ChunkIds)]
      /\ queue \in [Dirs -> Seq(Chunks)]
      /\ timings \in [Dirs -> Seq([off: 0..MaxBody, at: ChunkIds])]
      /\ \A d \in Dirs : Len(queue[d]) <= ChanSize /\ Len(file[d]) <= MaxBody
  BY <1>1, CaptureAssumption DEF Init
<1>3. 0 \in 0..MaxChunks["resp"]
  BY <1>1 DEF Dirs
<1> QED BY <1>2, <1>3 DEF Init, TypeOK, HandlerPCs

\* The handler's moves that leave the bodies alone.
LEMMA HandlerType ==
    ASSUME TypeOK,
           \/ Untraced \/ StartTrace \/ Forwards \/ RoundTripReturns \/ RoundTripFails
           \/ WritesChunk \/ CopyEnds \/ CopyAborts \/ StopsWatchdog \/ ClosesChannels
           \/ Joins("req", "joinResp") \/ Joins("resp", "build")
    PROVE  TypeOK'
<1> USE CaptureAssumption DEF TypeOK, HandlerPCs
<1>1. CASE Untraced \/ WritesChunk \/ CopyEnds \/ CopyAborts \/ StopsWatchdog
  BY <1>1, ZenonT(60) DEF Untraced, WritesChunk, CopyEnds, CopyAborts, StopsWatchdog
<1>2. CASE StartTrace
  BY <1>2 DEF StartTrace
<1>3. CASE Forwards \/ RoundTripReturns \/ RoundTripFails
  BY <1>3, ZenonT(60) DEF Forwards, RoundTripReturns, RoundTripFails
<1>4. CASE ClosesChannels
  <2>1. {closed', dropped', trunc', halted', diskErr'} \subseteq [Dirs -> BOOLEAN]
    BY <1>4, ZenonT(60) DEF ClosesChannels
  <2> QED BY <1>4, <2>1, Zenon DEF ClosesChannels
<1>5. CASE Joins("req", "joinResp") \/ Joins("resp", "build")
  BY <1>5, ZenonT(60) DEF Joins
<1> QED BY <1>1, <1>2, <1>3, <1>4, <1>5

LEMMA CopyType ==
    ASSUME TypeOK, Control, NEW l \in Lens, Intercepts(l) \/ CopyChunk(l)
    PROVE  TypeOK'
<1> USE DEF HandlerPCs
<1>0. "resp" \in Dirs /\ sent["resp"] \in Nat
  BY DEF Dirs, TypeOK
<1>1. CASE Intercepts(l)
  <2>1. sent' \in [Dirs -> Nat] /\ \A d \in Dirs : sent'[d] <= MaxChunks[d]
    BY <1>0, <1>1, IdFacts DEF TypeOK, Intercepts
  <2>2. wire' \in [Dirs -> Seq(ChunkIds)]
    BY <1>0, <1>1, IdFacts, BytesFacts DEF TypeOK, Intercepts
  <2> QED BY <1>1, <2>1, <2>2 DEF TypeOK, Intercepts
<1>2. CASE CopyChunk(l)
  <2>1. sent["resp"] + 1 \in 1..MaxChunks["resp"]
    BY <1>0, <1>2, IdFacts DEF CopyChunk
  <2>2. Bytes(sent["resp"] + 1, l) \in Chunks
    BY <1>0, <2>1, IdFacts, BytesFacts
  <2>3. SinkWrites("resp", Bytes(sent["resp"] + 1, l))
    BY <1>2 DEF CopyChunk
  <2>4. /\ wire' \in [Dirs -> Seq(ChunkIds)] /\ queue' \in [Dirs -> Seq(Chunks)]
        /\ \A e \in Dirs : Len(queue'[e]) <= ChanSize
        /\ dropped' \in [Dirs -> BOOLEAN] /\ UNCHANGED closed
    <3>1. UNCHANGED closed
      BY <2>3 DEF SinkWrites
    <3> QED BY <1>0, <2>2, <2>3, <3>1, SinkTypes
  <2>5. sent' \in [Dirs -> Nat] /\ \A d \in Dirs : sent'[d] <= MaxChunks[d]
    BY <1>0, <1>2, <2>1, IdFacts DEF TypeOK, CopyChunk
  <2>6. armed' \in BOOLEAN
    BY <1>2 DEF TypeOK, CopyChunk, Pulses
  <2>7. /\ UNCHANGED <<drainVars, upVars, firing, fired, wstopped, ctxVars, respVars,
                       tmp, rec, panicked>>
        /\ hpc' = "write"
    BY <1>2 DEF CopyChunk
  <2>8. {closed', dropped', trunc', halted', diskErr'} \subseteq [Dirs -> BOOLEAN]
    BY <2>4, <2>7, ZenonT(60) DEF TypeOK
  <2>9. {armed', firing', fired', wstopped', cancelled', left', sse', complete', tmp', panicked'}
            \subseteq BOOLEAN /\ marked' \in 0..MaxChunks["resp"]
    BY <2>6, <2>7 DEF TypeOK
  <2>10. \A d \in Dirs : Len(queue'[d]) <= ChanSize /\ Len(file'[d]) <= MaxBody
    BY <2>4, <2>7, Zenon DEF TypeOK
  <2>11. /\ hpc' \in HandlerPCs /\ file' \in [Dirs -> Seq(ChunkIds)]
         /\ dpc' \in [Dirs -> {"none", "drain", "done"}]
         /\ timings' \in [Dirs -> Seq([off: 0..MaxBody, at: ChunkIds])]
    BY <2>7, Zenon DEF TypeOK
  <2>12. /\ upc' \in {"none", "read", "tee", "done"} /\ upheld' \in Chunks \cup {<<>>}
         /\ status' \in {"none", "upstream", "badGateway", "plugin"}
         /\ rec' = NoRecord
            \/ rec' \in [status: {"upstream", "badGateway", "plugin"},
                         truncated: [Dirs -> BOOLEAN], disconnected: BOOLEAN]
    BY <2>7, Zenon DEF TypeOK
  <2> QED BY <2>4, <2>5, <2>8, <2>9, <2>10, <2>11, <2>12, Zenon DEF TypeOK
<1> QED BY <1>1, <1>2

LEMMA BuildType ==
    ASSUME TypeOK, Control, Builds
    PROVE  TypeOK'
<1>1. /\ hpc' = "done" /\ tmp' = FALSE /\ cancelled' = TRUE
      /\ UNCHANGED <<netVars, chanVars, drainVars, upVars, dogVars, left, status, sse, complete,
                     panicked>>
  BY DEF Builds
<1>3. marked' \in 0..MaxChunks["resp"]
  <2>1. /\ marked' \in IF sse THEN 0..sent["resp"] ELSE {0}
        /\ sent["resp"] \in Nat /\ MaxChunks["resp"] \in Nat /\ sent["resp"] <= MaxChunks["resp"]
    BY TypeFacts, IdFacts DEF Builds, Marks, Dirs
  <2> QED BY <2>1
<1>2. \/ rec' = rec
      \/ rec' \in [status: {"upstream", "badGateway", "plugin"},
                   truncated: [Dirs -> BOOLEAN], disconnected: BOOLEAN]
  <2>1. trunc \in [Dirs -> BOOLEAN]
    BY Zenon DEF TypeOK
  <2>3. status \in {"upstream", "badGateway", "plugin"}
    BY DEF Builds, Control, TypeOK
  <2>4. \/ rec' = rec
        \/ \E cut \in BOOLEAN :
              rec' = [status |-> status, truncated |-> trunc, disconnected |-> cut]
    BY Zenon DEF Builds
  <2> QED BY <2>1, <2>3, <2>4
<1> QED BY <1>1, <1>2, <1>3 DEF TypeOK, HandlerPCs

LEMMA UploadType ==
    ASSUME TypeOK, Control,
           (\E l \in Lens : UploadReads(l)) \/ UploadTees \/ UploadEnds
    PROVE  TypeOK'
<1>0. "req" \in Dirs /\ sent["req"] \in Nat
  BY DEF Dirs, TypeOK
<1>1. ASSUME NEW l \in Lens, UploadReads(l) PROVE TypeOK'
  <2>1. sent["req"] + 1 \in 1..MaxChunks["req"]
    BY <1>0, <1>1, IdFacts DEF UploadReads
  <2>2. upheld' \in Chunks
    BY <1>0, <1>1, <2>1, IdFacts, BytesFacts DEF UploadReads
  <2>3. sent' \in [Dirs -> Nat] /\ \A d \in Dirs : sent'[d] <= MaxChunks[d]
    <3>1. /\ sent \in [Dirs -> Nat] /\ \A d \in Dirs : sent[d] <= MaxChunks[d]
          /\ "req" \in Dirs /\ MaxChunks["req"] \in Nat
      BY <1>0, IdFacts DEF TypeOK
    <3>2. sent' = [sent EXCEPT !["req"] = sent["req"] + 1]
      BY <1>1 DEF UploadReads
    <3> QED BY <2>1, <3>1, <3>2, SMTT(60)
  <2> QED BY <1>1, <2>2, <2>3 DEF TypeOK, UploadReads
<1>2. CASE UploadTees
  <2> DEFINE Rest ==
        /\ upc' = "read" /\ upheld' = <<>>
        /\ UNCHANGED <<hpc, sent, drainVars, dogVars, ctxVars, respVars, tmp, rec>>
  <2>4. Rest
    BY <1>2 DEF UploadTees
  <2>1. CASE closed["req"]
    <3>1. UNCHANGED <<wire, chanVars>> /\ panicked' = TRUE
      BY <1>2, <2>1 DEF UploadTees
    <3> QED BY <2>4, <3>1 DEF TypeOK
  <2>2. CASE ~ closed["req"]
    <3>1. SinkWrites("req", upheld) /\ UNCHANGED panicked
      BY <1>2, <2>2 DEF UploadTees
    <3>2. upheld \in Chunks
      BY <1>2 DEF TypeOK, Control, UploadTees
    <3>3. /\ wire' \in [Dirs -> Seq(ChunkIds)] /\ queue' \in [Dirs -> Seq(Chunks)]
          /\ \A e \in Dirs : Len(queue'[e]) <= ChanSize
          /\ dropped' \in [Dirs -> BOOLEAN] /\ UNCHANGED closed
      <4>1. UNCHANGED closed
        BY <3>1 DEF SinkWrites
      <4> QED BY <1>0, <3>1, <3>2, <4>1, SinkTypes
    <3> QED BY <2>4, <3>1, <3>3, ZenonT(60) DEF TypeOK
  <2> QED BY <2>1, <2>2
<1>3. CASE UploadEnds
  BY <1>3 DEF TypeOK, UploadEnds
<1> QED BY <1>1, <1>2, <1>3

LEMMA DogType ==
    ASSUME TypeOK, TimerExpires \/ WatchdogFires \/ ClientLeaves \/ UNCHANGED vars
    PROVE  TypeOK'
  BY ZenonT(60) DEF TypeOK, TimerExpires, WatchdogFires, ClientLeaves, vars

-----------------------------------------------------------------------------
(* What a drainer does, for the proofs: it writes the first n bytes of the  *)
(* chunk at the head of the queue, all that fit unless the disk fails.      *)

Writes(d, n) ==
    LET c == Head(queue[d]) IN
    /\ Takes(d) /\ ~ halted[d] /\ Room(d) > 0
    /\ n \in 0..Len(c) /\ n <= Room(d)
    /\ file' = [file EXCEPT ![d] = @ \o SubSeq(c, 1, n)]
    /\ timings' = [timings EXCEPT ![d] = Append(@, [off |-> Len(file[d]), at |-> c[1]])]
    /\ trunc' = [trunc EXCEPT ![d] = Len(c) > Room(d)]
    /\ \/ /\ n = IF Len(c) > Room(d) THEN Room(d) ELSE Len(c)
          /\ halted' = [halted EXCEPT ![d] = Len(c) > Room(d)] /\ UNCHANGED diskErr
       \/ /\ n < Len(c)
          /\ halted' = [halted EXCEPT ![d] = TRUE] /\ diskErr' = [diskErr EXCEPT ![d] = TRUE]
    /\ UNCHANGED dpc
    /\ DrainFrame

LEMMA DrainingWrites ==
    ASSUME TypeOK, NEW d \in Dirs,
           Drains(d) \/ \E n \in 0..MaxBody : DrainFails(d, n)
    PROVE  \E n \in Nat : Writes(d, n)
<1> DEFINE c == Head(queue[d])
           k == IF Len(c) < Room(d) THEN Len(c) ELSE Room(d)
<1>1. Takes(d) /\ ~ halted[d]
  BY DEF Drains, DrainFails
<1>2. c \in Chunks
  BY <1>1, TakesTypes
<1>3. c \in Seq(ChunkIds) /\ Len(c) \in Nat \ {0} /\ Room(d) \in Nat
  BY <1>2, ChunkFacts, TypeFacts, CaptureAssumption DEF Room
<1>4. Fitting(c, Room(d)) = SubSeq(c, 1, k) /\ k \in 0..Len(c) /\ k <= Room(d)
  BY <1>3 DEF Fitting
<1>5. Len(SubSeq(c, 1, k)) = k
  <2>1. \A i \in 1..k : c[i] \in ChunkIds
    BY <1>3, <1>4
  <2> QED BY <1>4, <2>1, SubSeqProperties
<1> HIDE DEF k
<1>6. CASE Drains(d)
  <2>1. Writes(d, k)
    <3>1. k = IF Len(c) > Room(d) THEN Room(d) ELSE Len(c)
      BY <1>3 DEF k
    <3> QED BY <1>3, <1>4, <1>6, <3>1 DEF Drains, Writes, Timed
  <2> QED BY <1>4, <2>1
<1>7. ASSUME NEW n \in 0..MaxBody, DrainFails(d, n) PROVE Writes(d, n)
  <2>1. n < k
    BY <1>4, <1>5, <1>7 DEF DrainFails
  <2>2. n \in 0..Len(c) /\ n <= Room(d) /\ Room(d) > 0 /\ n < Len(c)
    BY <1>3, <1>4, <2>1, CaptureAssumption
  <2> QED BY <1>7, <2>2 DEF DrainFails, Writes, Timed
<1> QED BY <1>6, <1>7, CaptureAssumption

\* The other steps of a drainer: the chunk is dropped, or the queue has ended.
Passes(d) ==
    /\ UNCHANGED <<file, timings, diskErr>> /\ DrainFrame
    /\ \/ DrainsNothing(d) \/ DrainsAway(d) \/ DrainEnds(d)

LEMMA DrainCases ==
    ASSUME TypeOK, NEW d \in Dirs, DrainStep(d)
    PROVE  (\E n \in Nat : Writes(d, n)) \/ Passes(d)
  BY DrainingWrites DEF DrainStep, Passes, DrainsNothing, DrainsAway, DrainEnds

LEMMA WritesEffect ==
    ASSUME TypeOK, NEW d \in Dirs, NEW n \in Nat, Writes(d, n)
    PROVE  LET c == queue[d][1] IN
           /\ file' \in [Dirs -> Seq(ChunkIds)]
           /\ \A e \in Dirs : Len(file'[e]) <= MaxBody
           /\ timings' \in [Dirs -> Seq([off: 0..MaxBody, at: ChunkIds])]
           /\ c \in Chunks /\ Len(c) \in Nat \ {0} /\ n <= Len(c)
           /\ Len(file'[d]) = Len(file[d]) + n
           /\ \A i \in 1..Len(file[d]) : file'[d][i] = file[d][i]
           /\ \A i \in (Len(file[d]) + 1)..(Len(file[d]) + n) : file'[d][i] = c[1]
           /\ timings'[d] = Append(timings[d], [off |-> Len(file[d]), at |-> c[1]])
<1> DEFINE c == Head(queue[d])
<1>1. Takes(d) /\ n \in 0..Len(c) /\ n <= Room(d) /\ Room(d) > 0
  BY DEF Writes
<1>2. c \in Chunks /\ c = queue[d][1]
  BY <1>1, TakesTypes
<1>3. Len(c) \in Nat \ {0}
  BY <1>2, ChunkFacts
<1>4. /\ file' = [file EXCEPT ![d] = @ \o SubSeq(c, 1, n)]
      /\ timings' = [timings EXCEPT ![d] = Append(@, [off |-> Len(file[d]), at |-> c[1]])]
  BY DEF Writes
<1>5. timings'[d] = Append(timings[d], [off |-> Len(file[d]), at |-> c[1]])
  BY <1>4 DEF TypeOK
<1> HIDE DEF c
<1>6. c \in Seq(ChunkIds) /\ c[1] \in ChunkIds /\ \A i \in 1..Len(c) : c[i] = c[1]
  BY <1>2, ChunkFacts
<1> DEFINE s == SubSeq(c, 1, n)
<1>7. s \in Seq(ChunkIds) /\ Len(s) = n /\ \A i \in 1..n : s[i] = c[1]
  <2>1. n \in 0..Len(c) /\ \A i \in 1..n : i \in 1..Len(c)
    BY <1>1, <1>3
  <2>2. s \in Seq(ChunkIds) /\ Len(s) = n /\ \A i \in 1..n : s[i] = c[i]
    BY <1>6, <2>1, TakesFirst, ZenonT(30)
  <2> QED BY <1>6, <2>1, <2>2, ZenonT(30)
<1>8. file' = [file EXCEPT ![d] = file[d] \o s]
  BY <1>4 DEF s
<1> HIDE DEF s
<1>9. /\ file[d] \o s \in Seq(ChunkIds) /\ Len(file[d] \o s) = Len(file[d]) + n
      /\ \A i \in 1..(Len(file[d]) + n) :
            (file[d] \o s)[i] = IF i <= Len(file[d]) THEN file[d][i] ELSE s[i - Len(file[d])]
  <2>1. file[d] \in Seq(ChunkIds)
    BY TypeFacts
  <2>2. /\ file[d] \o s \in Seq(ChunkIds) /\ Len(file[d] \o s) = Len(file[d]) + Len(s)
        /\ \A i \in 1..(Len(file[d]) + Len(s)) :
              (file[d] \o s)[i] = IF i <= Len(file[d]) THEN file[d][i] ELSE s[i - Len(file[d])]
    BY <1>7, <2>1, ConcatProperties
  <2> QED BY <1>7, <2>2
<1>10. file'[d] = file[d] \o s /\ file' \in [Dirs -> Seq(ChunkIds)]
  <2>1. file \in [Dirs -> Seq(ChunkIds)]
    BY DEF TypeOK
  <2> QED BY <1>8, <1>9, <2>1
<1>11. \A e \in Dirs : Len(file'[e]) <= MaxBody
  BY <1>1, <1>8, <1>9, <1>10, TypeFacts, CaptureAssumption DEF TypeOK, Room
<1>12. timings' \in [Dirs -> Seq([off: 0..MaxBody, at: ChunkIds])]
  <2>1. [off |-> Len(file[d]), at |-> c[1]] \in [off: 0..MaxBody, at: ChunkIds]
    BY <1>6, TypeFacts
  <2>2. Append(timings[d], [off |-> Len(file[d]), at |-> c[1]])
            \in Seq([off: 0..MaxBody, at: ChunkIds])
    BY <2>1, TypeFacts, AppendProperties
  <2> QED BY <1>4, <2>2 DEF TypeOK
<1>13. \A i \in 1..Len(file[d]) : file'[d][i] = file[d][i]
  BY <1>9, <1>10, TypeFacts
<1>14. \A i \in (Len(file[d]) + 1)..(Len(file[d]) + n) : file'[d][i] = c[1]
  BY <1>7, <1>9, <1>10, TypeFacts
<1>15. n <= Len(c)
  BY <1>1
<1>16. Len(file'[d]) = Len(file[d]) + n
  BY <1>9, <1>10
<1> QED
  BY <1>2, <1>3, <1>5, <1>10, <1>11, <1>12, <1>13, <1>14, <1>15, <1>16, Zenon

LEMMA DrainType ==
    ASSUME TypeOK, NEW d \in Dirs, DrainStep(d)
    PROVE  TypeOK'
<1>1. queue' \in [Dirs -> Seq(Chunks)] /\ \A e \in Dirs : Len(queue'[e]) <= ChanSize
  <2>1. CASE Takes(d)
    BY <2>1, TakesTypes
  <2>2. CASE UNCHANGED queue
    BY <2>2 DEF TypeOK
  <2> QED BY <2>1, <2>2 DEF DrainStep, Drains, DrainsNothing, DrainFails, DrainsAway, DrainEnds
<1>2. /\ file' \in [Dirs -> Seq(ChunkIds)] /\ \A e \in Dirs : Len(file'[e]) <= MaxBody
      /\ timings' \in [Dirs -> Seq([off: 0..MaxBody, at: ChunkIds])]
  <2>1. CASE \E n \in Nat : Writes(d, n)
    BY <2>1, WritesEffect
  <2>2. CASE UNCHANGED <<file, timings>>
    BY <2>2 DEF TypeOK
  <2> QED BY <2>1, <2>2, DrainCases DEF Passes
<1>3. dpc' \in [Dirs -> {"none", "drain", "done"}]
  BY DEF TypeOK, DrainStep, Drains, DrainsNothing, DrainFails, DrainsAway, DrainEnds
<1>4. {closed', dropped', trunc', halted', diskErr'} \subseteq [Dirs -> BOOLEAN]
  <2>1. DrainFrame
    BY DEF DrainStep, Drains, DrainsNothing, DrainFails, DrainsAway, DrainEnds
  <2>2. {closed, dropped, trunc, halted, diskErr} \subseteq [Dirs -> BOOLEAN]
    BY Zenon DEF TypeOK
  <2>3. ASSUME NEW f \in [Dirs -> BOOLEAN], NEW v \in BOOLEAN
        PROVE  [f EXCEPT ![d] = v] \in [Dirs -> BOOLEAN]
    BY Zenon
  <2>4. \A x, y : (x > y) \in BOOLEAN
    OBVIOUS
  <2>5. CASE \E n \in Nat : Writes(d, n)
    <3>1. PICK n \in Nat : Writes(d, n)
      BY <2>5
    <3>2. trunc' \in [Dirs -> BOOLEAN] /\ halted' \in [Dirs -> BOOLEAN] /\ diskErr' \in [Dirs -> BOOLEAN]
      BY <2>2, <2>3, <2>4, <3>1, Zenon DEF Writes
    <3> QED BY <2>1, <2>2, <3>2, Zenon
  <2>6. CASE Passes(d)
    <3>1. trunc' \in [Dirs -> BOOLEAN] /\ halted' \in [Dirs -> BOOLEAN]
      <4>1. CASE DrainsNothing(d)
        BY <2>2, <2>3, <4>1, Zenon DEF DrainsNothing
      <4>2. CASE UNCHANGED <<trunc, halted>>
        BY <2>2, <4>2, Zenon
      <4> QED BY <2>6, <4>1, <4>2 DEF Passes, DrainsAway, DrainEnds
    <3>2. UNCHANGED <<diskErr, closed, dropped>>
      BY <2>6, Zenon DEF Passes, DrainFrame
    <3> QED BY <2>2, <3>1, <3>2, Zenon
  <2> QED BY <2>5, <2>6, DrainCases
<1>5. DrainFrame
  BY DEF DrainStep, Drains, DrainsNothing, DrainFails, DrainsAway, DrainEnds
<1> QED BY <1>1, <1>2, <1>3, <1>4, <1>5 DEF TypeOK

-----------------------------------------------------------------------------
(* The bodies. *)

\* A chunk goes over the wire, and into the queue or nowhere.
LEMMA SinkEffect ==
    ASSUME TypeOK, NEW d \in Dirs, NEW c \in Chunks, SinkWrites(d, c)
    PROVE  /\ Len(wire'[d]) = Len(wire[d]) + Len(c)
           /\ \A i \in 1..Len(wire[d]) : wire'[d][i] = wire[d][i]
           /\ \A i \in (Len(wire[d]) + 1)..(Len(wire[d]) + Len(c)) : wire'[d][i] = c[1]
           /\ \A e \in Dirs \ {d} : /\ wire'[e] = wire[e] /\ queue'[e] = queue[e]
                                    /\ dropped'[e] = dropped[e]
           /\ \/ /\ Len(queue'[d]) = Len(queue[d]) + 1
                 /\ queue'[d][Len(queue[d]) + 1] = c
                 /\ \A q \in 1..Len(queue[d]) : queue'[d][q] = queue[d][q]
                 /\ dropped' = dropped
              \/ queue' = queue /\ dropped'[d]
<1>1. c \in Seq(ChunkIds) /\ Len(c) \in Nat \ {0} /\ \A i \in 1..Len(c) : c[i] = c[1]
  BY ChunkFacts
<1>2. /\ wire[d] \in Seq(ChunkIds) /\ Len(wire[d]) \in Nat
      /\ queue[d] \in Seq(Chunks) /\ Len(queue[d]) \in Nat
  BY TypeFacts, CaptureAssumption
<1>3. /\ Len(wire[d] \o c) = Len(wire[d]) + Len(c)
      /\ \A i \in 1..(Len(wire[d]) + Len(c)) :
            (wire[d] \o c)[i] = IF i <= Len(wire[d]) THEN wire[d][i] ELSE c[i - Len(wire[d])]
  BY <1>1, <1>2, ConcatProperties
<1>4. wire' = [wire EXCEPT ![d] = wire[d] \o c]
  BY DEF SinkWrites
<1>5. wire'[d] = wire[d] \o c /\ \A e \in Dirs \ {d} : wire'[e] = wire[e]
  BY <1>4 DEF TypeOK
<1>6. /\ Len(wire'[d]) = Len(wire[d]) + Len(c)
      /\ \A i \in 1..Len(wire[d]) : wire'[d][i] = wire[d][i]
      /\ \A i \in (Len(wire[d]) + 1)..(Len(wire[d]) + Len(c)) : wire'[d][i] = c[1]
  <2>1. ASSUME NEW i \in (Len(wire[d]) + 1)..(Len(wire[d]) + Len(c))
        PROVE  wire'[d][i] = c[1]
    <3>1. i \in 1..(Len(wire[d]) + Len(c)) /\ ~ (i <= Len(wire[d])) /\ i - Len(wire[d]) \in 1..Len(c)
      BY <1>1, <1>2
    <3> QED BY <1>1, <1>3, <1>5, <3>1
  <2>2. \A i \in 1..Len(wire[d]) : wire'[d][i] = wire[d][i]
    BY <1>1, <1>2, <1>3, <1>5
  <2> QED BY <1>3, <1>5, <2>1, <2>2
<1>7. CASE Len(queue[d]) < ChanSize
  <2>1. queue' = [queue EXCEPT ![d] = Append(queue[d], c)] /\ dropped' = dropped
    BY <1>7 DEF SinkWrites
  <2>2. queue'[d] = Append(queue[d], c) /\ \A e \in Dirs \ {d} : queue'[e] = queue[e]
    BY <2>1 DEF TypeOK
  <2>3. /\ Len(queue'[d]) = Len(queue[d]) + 1
        /\ queue'[d][Len(queue[d]) + 1] = c
        /\ \A q \in 1..Len(queue[d]) : queue'[d][q] = queue[d][q]
    BY <1>2, <2>2, AppendProperties
  <2> QED BY <1>5, <1>6, <2>1, <2>2, <2>3
<1>8. CASE ~ (Len(queue[d]) < ChanSize)
  <2>1. queue' = queue /\ dropped' = [dropped EXCEPT ![d] = TRUE]
    BY <1>8 DEF SinkWrites
  <2>2. dropped'[d] /\ \A e \in Dirs \ {d} : dropped'[e] = dropped[e]
    <3>1. dropped \in [Dirs -> BOOLEAN]
      BY Zenon DEF TypeOK
    <3> QED BY <2>1, <3>1, Zenon
  <2> QED BY <1>5, <1>6, <2>1, <2>2
<1> QED BY <1>7, <1>8

\* The numbers of the chunks in file and queue.
LEMMA Numbers ==
    ASSUME TypeOK, NEW d \in Dirs
    PROVE  /\ Len(file[d]) \in Nat /\ Len(queue[d]) \in Nat /\ Len(wire[d]) \in Nat
           /\ Handed(d) \in Int
           /\ \A i \in 1..Len(file[d]) : file[d][i] \in Nat
           /\ \A q \in 1..Len(queue[d]) :
                queue[d][q] \in Chunks /\ queue[d][q][1] \in Nat /\ Len(queue[d][q]) \in Nat \ {0}
<1>1. /\ Len(file[d]) \in Nat /\ Len(queue[d]) \in Nat /\ Len(wire[d]) \in Nat
      /\ file[d] \in Seq(ChunkIds) /\ queue[d] \in Seq(Chunks)
      /\ sent[d] \in Nat
  BY TypeFacts, CaptureAssumption
<1>2. \A i \in 1..Len(file[d]) : file[d][i] \in ChunkIds
  BY <1>1
<1>3. \A q \in 1..Len(queue[d]) : queue[d][q] \in Chunks
  BY <1>1
<1>4. Handed(d) \in Int
  BY <1>1 DEF Handed
<1> QED BY <1>1, <1>2, <1>3, <1>4, ChunkFacts, IdFacts

\* A step of one direction leaves the other as it was.
LEMMA OtherDirection ==
    ASSUME NEW d \in Dirs, InOrder(d), Placed(d), Flagged(d), TimesChunks(d),
           wire'[d] = wire[d], queue'[d] = queue[d], dropped'[d] = dropped[d],
           file'[d] = file[d], timings'[d] = timings[d], trunc'[d] = trunc[d],
           halted'[d] = halted[d], diskErr'[d] = diskErr[d],
           status' = status, Handed(d)' = Handed(d)
    PROVE  InOrder(d)' /\ Placed(d)' /\ Flagged(d)' /\ TimesChunks(d)'
<1>1. InOrder(d)'
  BY DEF InOrder
<1>2. Placed(d)'
  <2>1. \A pos : Cuts(d, pos)' <=> Cuts(d, pos)
    BY DEF Cuts
  <2> QED BY <2>1 DEF Placed
<1>3. Flagged(d)' /\ TimesChunks(d)'
  BY DEF Flagged, TimesChunks
<1> QED BY <1>1, <1>2, <1>3

\* Steps that leave wire, queue and file alone.
LEMMA BodiesRest ==
    ASSUME TypeOK, BodiesInv, TimingsInv,
           UNCHANGED <<wire, queue, dropped, file, timings, trunc, halted, diskErr>>,
           status # "plugin" \/ status' = "plugin",
           \A d \in Dirs : Handed(d)' \in Int /\ Handed(d) <= Handed(d)'
    PROVE  BodiesInv' /\ TimingsInv'
<1> SUFFICES ASSUME NEW d \in Dirs
             PROVE  (InOrder(d) /\ Placed(d) /\ Flagged(d))' /\ TimesChunks(d)'
  BY DEF BodiesInv, TimingsInv
<1>1. InOrder(d) /\ Placed(d) /\ Flagged(d) /\ TimesChunks(d)
  BY DEF BodiesInv, TimingsInv
<1>2. InOrder(d)'
  <2>1. \A x \in Nat : x <= Handed(d) => x <= Handed(d)'
    BY Numbers
  <2>2. \A i \in 1..Len(file[d]) :
          /\ file[d][i] <= Handed(d)'
          /\ \A j \in 1..Len(file[d]) : i < j => file[d][i] <= file[d][j]
    BY <1>1, <2>1, Numbers DEF InOrder
  <2>3. \A q \in 1..Len(queue[d]) :
          /\ queue[d][q][1] <= Handed(d)'
          /\ \A i \in 1..Len(file[d]) : file[d][i] < queue[d][q][1]
          /\ \A p \in 1..Len(queue[d]) : p < q => queue[d][p][1] < queue[d][q][1]
    BY <1>1, <2>1, Numbers DEF InOrder
  <2> QED BY <2>2, <2>3 DEF InOrder
<1>3. Placed(d)'
  <2>1. \A pos : Cuts(d, pos)' <=> Cuts(d, pos)
    BY DEF Cuts
  <2> QED BY <1>1, <2>1 DEF Placed
<1>4. Flagged(d)' /\ TimesChunks(d)'
  BY <1>1 DEF Flagged, TimesChunks
<1> QED BY <1>2, <1>3, <1>4

\* A tee hands a chunk to its Sink.
LEMMA HandingOn ==
    ASSUME TypeOK, BodiesInv, TimingsInv, NEW d \in Dirs, NEW c \in Chunks,
           SinkWrites(d, c), c[1] = Handed(d) + 1, Handed(d)' = c[1], Handed(d) \in Nat,
           \A e \in Dirs \ {d} : Handed(e)' = Handed(e),
           UNCHANGED <<file, timings, trunc, halted, diskErr, status>>
    PROVE  BodiesInv' /\ TimingsInv'
<1> SUFFICES ASSUME NEW e \in Dirs
             PROVE  (InOrder(e) /\ Placed(e) /\ Flagged(e))' /\ TimesChunks(e)'
  BY DEF BodiesInv, TimingsInv
<1>1. InOrder(e) /\ Placed(e) /\ Flagged(e) /\ TimesChunks(e)
  BY DEF BodiesInv, TimingsInv
<1>2. Flagged(e)' /\ TimesChunks(e)'
  BY <1>1 DEF Flagged, TimesChunks
<1>3. CASE e # d
  <2>1. wire'[e] = wire[e] /\ queue'[e] = queue[e] /\ dropped'[e] = dropped[e]
    BY <1>3, SinkEffect
  <2>2. InOrder(e)'
    BY <1>1, <1>3, <2>1 DEF InOrder
  <2>3. Placed(e)'
    <3>1. \A pos : Cuts(e, pos)' <=> Cuts(e, pos)
      BY <2>1 DEF Cuts
    <3> QED BY <1>1, <2>1, <3>1 DEF Placed
  <2> QED BY <1>2, <2>2, <2>3
<1>4. CASE e = d
  <2> DEFINE n == Len(queue[d])
             w == Len(wire[d])
  <2>0. /\ n \in Nat /\ w \in Nat /\ Len(c) \in Nat \ {0} /\ Len(file[d]) \in Nat
        /\ \A i \in 1..Len(file[d]) : file[d][i] \in Nat
        /\ \A q \in 1..n : queue[d][q][1] \in Nat
    <3>1. /\ n \in Nat /\ w \in Nat /\ Len(file[d]) \in Nat
          /\ file[d] \in Seq(ChunkIds) /\ queue[d] \in Seq(Chunks)
      BY TypeFacts, CaptureAssumption
    <3>2. \A i \in 1..Len(file[d]) : file[d][i] \in ChunkIds
      BY <3>1
    <3>3. \A q \in 1..n : queue[d][q] \in Chunks
      BY <3>1
    <3> QED BY <3>1, <3>2, <3>3, ChunkFacts, IdFacts
  <2>1. CASE queue' = queue /\ dropped'[d]
    <3>1. InOrder(d)'
      <4>1. file' = file /\ Handed(d)' = Handed(d) + 1 /\ Handed(d) \in Nat
        OBVIOUS
      <4>2. \A x \in Nat : x <= Handed(d) => x <= Handed(d) + 1
        BY <4>1
      <4> QED BY <1>1, <1>4, <2>0, <2>1, <4>1, <4>2 DEF InOrder
    <3>2. Placed(d)'
      BY <2>1 DEF Placed
    <3> QED BY <1>2, <1>4, <3>1, <3>2
  <2>2. CASE /\ Len(queue'[d]) = n + 1
             /\ queue'[d][n + 1] = c
             /\ \A q \in 1..n : queue'[d][q] = queue[d][q]
             /\ dropped' = dropped
    <3>1. InOrder(d)'
      <4>1. file' = file /\ Handed(d)' = Handed(d) + 1 /\ c[1] = Handed(d) + 1 /\ Handed(d) \in Nat
        OBVIOUS
      <4>2. InOrder(d)
        BY <1>1, <1>4
      <4>3. \A i \in 1..Len(file[d]) :
                /\ file[d][i] <= Handed(d) + 1 /\ file[d][i] < c[1]
                /\ \A j \in 1..Len(file[d]) : i < j => file[d][i] <= file[d][j]
        BY <2>0, <4>1, <4>2 DEF InOrder
      <4>4. ASSUME NEW q \in 1..(n + 1)
            PROVE  /\ queue'[d][q][1] <= Handed(d) + 1
                   /\ \A i \in 1..Len(file[d]) : file[d][i] < queue'[d][q][1]
                   /\ \A p \in 1..(n + 1) : p < q => queue'[d][p][1] < queue'[d][q][1]
        <5>1. CASE q = n + 1
          <6>1. \A p \in 1..n : queue[d][p][1] < c[1]
            BY <2>0, <4>1, <4>2 DEF InOrder
          <6>2. /\ queue'[d][q] = c /\ n \in Nat
                /\ \A p \in 1..(n + 1) : p < q => p \in 1..n /\ queue'[d][p] = queue[d][p]
            BY <2>0, <2>2, <5>1
          <6>3. \A i \in 1..Len(file[d]) : file[d][i] < queue'[d][q][1]
            BY <4>3, <6>2
          <6>4. queue'[d][q][1] <= Handed(d) + 1
            BY <4>1, <6>2
          <6> HIDE DEF n
          <6>5. \A p \in 1..(n + 1) : p < q => queue'[d][p][1] < queue'[d][q][1]
            BY <6>1, <6>2
          <6> QED BY <6>3, <6>4, <6>5
        <5>2. CASE q \in 1..n
          <6>1. /\ queue[d][q][1] <= Handed(d) /\ queue[d][q][1] \in Nat
                /\ \A i \in 1..Len(file[d]) : file[d][i] < queue[d][q][1]
                /\ \A p \in 1..n : p < q => queue[d][p][1] < queue[d][q][1]
            BY <2>0, <4>2, <5>2 DEF InOrder
          <6>2. /\ queue'[d][q] = queue[d][q] /\ n \in Nat
                /\ \A p \in 1..(n + 1) : p < q => p \in 1..n /\ queue'[d][p] = queue[d][p]
            <7>1. n \in Nat
              BY <2>0
            <7>2. \A p \in 1..(n + 1) : p < q => p \in 1..n
              BY <5>2, <7>1, Behind, ZenonT(30)
            <7> HIDE DEF n
            <7> QED BY <2>2, <5>2, <7>1, <7>2, SMTT(60)
          <6>3. \A i \in 1..Len(file[d]) : file[d][i] < queue'[d][q][1]
            BY <6>1, <6>2
          <6>4. queue'[d][q][1] <= Handed(d) + 1
            BY <4>1, <6>1, <6>2
          <6> HIDE DEF n
          <6>5. \A p \in 1..(n + 1) : p < q => queue'[d][p][1] < queue'[d][q][1]
            BY <6>1, <6>2
          <6> QED BY <6>3, <6>4, <6>5
        <5> QED BY <2>0, <5>1, <5>2
      <4> HIDE DEF n
      <4> QED BY <2>2, <4>1, <4>3, <4>4 DEF InOrder
    <3>2. /\ Len(wire'[d]) = w + Len(c)
          /\ \A i \in 1..w : wire'[d][i] = wire[d][i]
          /\ \A i \in (w + 1)..(w + Len(c)) : wire'[d][i] = c[1]
      BY SinkEffect
    <3>3. Placed(d)'
      <4> SUFFICES ASSUME status' # "plugin", ~ dropped'[d]
                   PROVE  /\ Len(file'[d]) <= Len(wire'[d])
                          /\ \A i \in 1..Len(file'[d]) : file'[d][i] = wire'[d][i]
                          /\ ~ halted'[d] =>
                              \E pos \in [1..(Len(queue'[d]) + 1) -> 0..Len(wire'[d])] : Cuts(d, pos)'
                          /\ trunc'[d] => Len(file'[d]) < Len(wire'[d])
        BY DEF Placed
      <4>1. status # "plugin" /\ ~ dropped[d]
        BY <2>2
      <4>2. Len(file[d]) <= w /\ \A i \in 1..Len(file[d]) : file[d][i] = wire[d][i]
        BY <1>1, <1>4, <4>1 DEF Placed
      <4>3. Len(file'[d]) <= Len(wire'[d]) /\ \A i \in 1..Len(file'[d]) : file'[d][i] = wire'[d][i]
        BY <2>0, <3>2, <4>2
      <4>4. trunc'[d] => Len(file'[d]) < Len(wire'[d])
        BY <1>1, <1>4, <2>0, <3>2, <4>1 DEF Placed
      <4>5. ASSUME ~ halted'[d]
            PROVE  \E pos \in [1..(Len(queue'[d]) + 1) -> 0..Len(wire'[d])] : Cuts(d, pos)'
        <5>1. PICK pos \in [1..(n + 1) -> 0..w] : Cuts(d, pos)
          BY <1>1, <1>4, <4>1, <4>5 DEF Placed
        <5>2. PICK more \in [1..(n + 2) -> 0..(w + Len(c))] :
                  more[n + 2] = w + Len(c) /\ \A k \in 1..(n + 1) : more[k] = pos[k]
          <6> DEFINE m == [k \in 1..(n + 2) |-> IF k = n + 2 THEN w + Len(c) ELSE pos[k]]
          <6>1. m \in [1..(n + 2) -> 0..(w + Len(c))]
            BY <2>0, <5>1, SMTT(60)
          <6>2. m[n + 2] = w + Len(c) /\ \A k \in 1..(n + 1) : m[k] = pos[k]
            BY <2>0
          <6> HIDE DEF m
          <6> QED BY <6>1, <6>2
        <5>3. Cuts(d, more)'
          <6>1. more[1] = Len(file'[d]) /\ more[Len(queue'[d]) + 1] = Len(wire'[d])
            BY <2>0, <2>2, <3>2, <5>1, <5>2 DEF Cuts
          <6>2. ASSUME NEW k \in 1..n
                PROVE  /\ more[k + 1] = more[k] + Len(queue'[d][k])
                       /\ \A i \in (more[k] + 1)..more[k + 1] : wire'[d][i] = queue'[d][k][1]
            <7>1. more[k] = pos[k] /\ more[k + 1] = pos[k + 1] /\ pos[k] \in 0..w /\ pos[k + 1] \in 0..w
              <8>1. k \in 1..(n + 1) /\ k + 1 \in 1..(n + 1)
                BY <2>0, Neighbours, ZenonT(30)
              <8> HIDE DEF n, w
              <8> QED BY <5>1, <5>2, <8>1
            <7>2. /\ pos[k + 1] = pos[k] + Len(queue[d][k])
                  /\ \A i \in (pos[k] + 1)..pos[k + 1] : wire[d][i] = queue[d][k][1]
              BY <5>1 DEF Cuts
            <7>3. queue'[d][k] = queue[d][k]
              BY <2>2
            <7>4. \A i \in (pos[k] + 1)..pos[k + 1] : i \in 1..w
              BY <2>0, <7>1, SMTT(60)
            <7> QED BY <3>2, <7>1, <7>2, <7>3, <7>4
          <6>3. /\ more[n + 2] = more[n + 1] + Len(c)
                /\ \A i \in (more[n + 1] + 1)..more[n + 2] : wire'[d][i] = c[1]
            <7>1. more[n + 2] = w + Len(c) /\ more[n + 1] = w
              <8>1. n + 1 \in 1..(n + 1) /\ pos[n + 1] = w
                BY <2>0, <5>1 DEF Cuts
              <8> QED BY <5>2, <8>1
            <7> QED BY <3>2, <7>1
          <6>4. ASSUME NEW k \in 1..(n + 1)
                PROVE  /\ more[k + 1] = more[k] + Len(queue'[d][k])
                       /\ \A i \in (more[k] + 1)..more[k + 1] : wire'[d][i] = queue'[d][k][1]
            <7>1. CASE k \in 1..n
              BY <6>2, <7>1
            <7>2. CASE k = n + 1
              <8>1. k + 1 = n + 2 /\ queue'[d][k] = c
                BY <2>0, <2>2, <7>2
              <8> QED BY <6>3, <7>2, <8>1
            <7>3. k \in 1..n \/ k = n + 1
              BY <2>0
            <7> QED BY <7>1, <7>2, <7>3
          <6> HIDE DEF n
          <6> QED BY <2>2, <6>1, <6>4 DEF Cuts
        <5>4. Len(queue'[d]) + 1 = n + 2 /\ Len(wire'[d]) = w + Len(c)
          BY <2>0, <2>2, <3>2
        <5>5. more \in [1..(Len(queue'[d]) + 1) -> 0..Len(wire'[d])]
          BY <5>2, <5>4
        <5> QED BY <5>3, <5>5
      <4> QED BY <4>3, <4>4, <4>5
    <3> QED BY <1>2, <1>4, <3>1, <3>3
  <2> QED BY <2>1, <2>2, SinkEffect
<1> QED BY <1>3, <1>4

\* The chunk at the head of the queue is what the wire has after the file.
LEMMA HeadPlaced ==
    ASSUME TypeOK, NEW d \in Dirs, Placed(d), Len(queue[d]) > 0,
           status # "plugin", ~ dropped[d], ~ halted[d]
    PROVE  LET c == queue[d][1] IN
           /\ Len(file[d]) + Len(c) <= Len(wire[d])
           /\ \A i \in (Len(file[d]) + 1)..(Len(file[d]) + Len(c)) : wire[d][i] = c[1]
           /\ \E rest \in [1..Len(queue[d]) -> 0..Len(wire[d])] :
                /\ rest[1] = Len(file[d]) + Len(c)
                /\ rest[Len(queue[d])] = Len(wire[d])
                /\ \A k \in 1..(Len(queue[d]) - 1) :
                    /\ rest[k + 1] = rest[k] + Len(queue[d][k + 1])
                    /\ \A i \in (rest[k] + 1)..rest[k + 1] : wire[d][i] = queue[d][k + 1][1]
<1> DEFINE Q == Len(queue[d])
           w == Len(wire[d])
           f == Len(file[d])
<1>1. Q \in Nat \ {0} /\ w \in Nat /\ f \in Nat /\ Len(queue[d][1]) \in Nat
  BY Numbers
<1>2. PICK pos \in [1..(Q + 1) -> 0..w] : Cuts(d, pos)
  BY DEF Placed
<1>3. /\ pos[1] = f /\ pos[Q + 1] = w
      /\ \A k \in 1..Q :
            /\ pos[k + 1] = pos[k] + Len(queue[d][k])
            /\ \A i \in (pos[k] + 1)..pos[k + 1] : wire[d][i] = queue[d][k][1]
  BY <1>2 DEF Cuts
<1>4. /\ pos[2] = f + Len(queue[d][1]) /\ pos[2] \in 0..w
      /\ \A i \in (f + 1)..pos[2] : wire[d][i] = queue[d][1][1]
  <2>1. 1 \in 1..Q /\ 2 \in 1..(Q + 1) /\ 1 + 1 = 2
    BY <1>1
  <2> HIDE DEF Q, w, f
  <2> QED BY <1>2, <1>3, <2>1
<1>5. /\ f + Len(queue[d][1]) <= w
      /\ \A i \in (f + 1)..(f + Len(queue[d][1])) : wire[d][i] = queue[d][1][1]
  <2>1. (f + 1)..(f + Len(queue[d][1])) = (f + 1)..pos[2]
    BY <1>4
  <2>2. f + Len(queue[d][1]) <= w
    <3> HIDE DEF f, w
    <3> QED BY <1>1, <1>4
  <2> QED BY <1>4, <2>1, <2>2
<1> DEFINE rest == [k \in 1..Q |-> pos[k + 1]]
<1>6. rest \in [1..Q -> 0..w]
  BY <1>1, <1>2
<1>7. rest[1] = f + Len(queue[d][1]) /\ rest[Q] = w
  <2>1. 1 \in 1..Q /\ Q \in 1..Q /\ 1 + 1 = 2
    BY <1>1
  <2>2. rest[1] = pos[2] /\ rest[Q] = pos[Q + 1]
    BY <2>1
  <2> QED BY <1>3, <1>4, <2>2
<1>8. ASSUME NEW k \in 1..(Q - 1)
      PROVE  /\ rest[k + 1] = rest[k] + Len(queue[d][k + 1])
             /\ \A i \in (rest[k] + 1)..rest[k + 1] : wire[d][i] = queue[d][k + 1][1]
  <2>1. k \in 1..Q /\ k + 1 \in 1..Q
    BY <1>1
  <2>2. rest[k] = pos[k + 1] /\ rest[k + 1] = pos[(k + 1) + 1]
    BY <2>1
  <2> HIDE DEF rest, Q
  <2> QED BY <1>3, <2>1, <2>2
<1> HIDE DEF rest
<1> QED BY <1>5, <1>6, <1>7, <1>8

\* A drainer writes: the head of the queue goes to the end of the file.
LEMMA WritesBodies ==
    ASSUME TypeOK, BodiesInv, TimingsInv, NEW d \in Dirs, NEW n \in Nat, Writes(d, n)
    PROVE  InOrder(d)' /\ Placed(d)' /\ Flagged(d)' /\ TimesChunks(d)'
<1> DEFINE c == queue[d][1]
           f == Len(file[d])
           Q == Len(queue[d])
<1>1. InOrder(d) /\ Placed(d) /\ Flagged(d) /\ TimesChunks(d)
  BY DEF BodiesInv, TimingsInv
<1>2. /\ Takes(d) /\ ~ halted[d] /\ Head(queue[d]) = c /\ Q \in Nat \ {0}
      /\ Len(queue'[d]) = Q - 1
      /\ \A q \in 1..(Q - 1) : queue'[d][q] = queue[d][q + 1]
  <2>1. Takes(d) /\ ~ halted[d]
    BY DEF Writes
  <2> QED BY <2>1, TakesTypes, Numbers
<1>3. /\ f \in Nat /\ Len(c) \in Nat \ {0} /\ c[1] \in Nat /\ Len(wire[d]) \in Nat
      /\ Handed(d) \in Int /\ Room(d) \in Nat
  <2>1. Room(d) \in Nat
    BY TypeFacts, CaptureAssumption DEF Room
  <2>2. 1 \in 1..Q
    BY <1>2
  <2>3. c[1] \in Nat /\ Len(c) \in Nat \ {0}
    BY <2>2, Numbers
  <2> QED BY <2>1, <2>3, Numbers
<1>4. /\ n <= Len(c)
      /\ Len(file'[d]) = f + n
      /\ \A i \in 1..f : file'[d][i] = file[d][i]
      /\ \A i \in (f + 1)..(f + n) : file'[d][i] = c[1]
      /\ timings'[d] = Append(timings[d], [off |-> f, at |-> c[1]])
  BY WritesEffect
<1>5. /\ UNCHANGED <<wire, sent, upc, status, dropped>>
      /\ Handed(d)' = Handed(d)
  <2>1. UNCHANGED <<wire, sent, upc, status, dropped>>
    BY DEF Writes
  <2> QED BY <2>1 DEF Handed
<1>6. /\ trunc'[d] = (Len(c) > Room(d)) /\ n <= Room(d) /\ Room(d) > 0
      /\ \/ /\ n = IF Len(c) > Room(d) THEN Room(d) ELSE Len(c)
            /\ halted'[d] = (Len(c) > Room(d))
         \/ /\ n < Len(c)
            /\ halted'[d] = TRUE /\ diskErr'[d] = TRUE
  <2>1. trunc \in [Dirs -> BOOLEAN] /\ halted \in [Dirs -> BOOLEAN] /\ diskErr \in [Dirs -> BOOLEAN]
    BY Zenon DEF TypeOK
  <2>2. \A v : [trunc EXCEPT ![d] = v][d] = v /\ [halted EXCEPT ![d] = v][d] = v
                 /\ [diskErr EXCEPT ![d] = v][d] = v
    BY <2>1, Zenon
  <2>3. trunc'[d] = (Len(c) > Room(d)) /\ n <= Room(d) /\ Room(d) > 0
    BY <1>2, <2>2, ZenonT(60) DEF Writes
  <2>4. \/ /\ n = IF Len(c) > Room(d) THEN Room(d) ELSE Len(c)
           /\ halted'[d] = (Len(c) > Room(d))
        \/ /\ n < Len(c)
           /\ halted'[d] = TRUE /\ diskErr'[d] = TRUE
    BY <1>2, <2>2, ZenonT(60) DEF Writes
  <2> QED BY <2>3, <2>4
<1> HIDE DEF c, f, Q
<1>7. Flagged(d)'
  BY <1>6 DEF Flagged
<1>8. InOrder(d)'
  <2>1. /\ \A i \in 1..f : file[d][i] \in Nat /\ file[d][i] < c[1]
        /\ \A i, j \in 1..f : i < j => file[d][i] <= file[d][j]
        /\ c[1] <= Handed(d)
    <3>1. 1 \in 1..Q
      BY <1>2
    <3> QED BY <1>1, <3>1, Numbers DEF InOrder, c, f, Q
  <2>2. ASSUME NEW i \in 1..(f + n)
        PROVE  /\ file'[d][i] <= c[1]
               /\ \A j \in 1..(f + n) : i < j => file'[d][i] <= file'[d][j]
    <3>1. \A j \in 1..(f + n) : \/ j \in 1..f /\ file'[d][j] = file[d][j]
                                \/ j \in (f + 1)..(f + n) /\ file'[d][j] = c[1]
      <4>1. \A j \in 1..(f + n) : j \in 1..f \/ j \in (f + 1)..(f + n)
        BY <1>3
      <4> QED BY <1>4, <4>1
    <3>2. CASE i \in 1..f /\ file'[d][i] = file[d][i]
      BY <1>3, <2>1, <3>1, <3>2
    <3>3. CASE i \in (f + 1)..(f + n) /\ file'[d][i] = c[1]
      BY <1>3, <3>1, <3>3, SMTT(30)
    <3> QED BY <3>1, <3>2, <3>3
  <2>3. ASSUME NEW q \in 1..(Q - 1)
        PROVE  /\ c[1] < queue'[d][q][1] /\ queue'[d][q][1] <= Handed(d)
               /\ queue'[d][q][1] \in Nat
               /\ \A p \in 1..(Q - 1) : p < q => queue'[d][p][1] < queue'[d][q][1]
    <3>1. /\ 1 \in 1..Q /\ q + 1 \in 1..Q /\ 1 < q + 1
          /\ \A p \in 1..(Q - 1) : p + 1 \in 1..Q /\ (p < q => p + 1 < q + 1)
      BY <1>2
    <3>2. /\ queue[d][q + 1][1] <= Handed(d) /\ queue[d][q + 1][1] \in Nat
          /\ \A p \in 1..Q : p < q + 1 => queue[d][p][1] < queue[d][q + 1][1]
      BY <1>1, <3>1, Numbers DEF InOrder, Q
    <3> QED BY <1>2, <3>1, <3>2 DEF c
  <2>4. \A i \in 1..(f + n) : /\ file'[d][i] <= Handed(d) /\ file'[d][i] \in Nat
                              /\ \A q \in 1..(Q - 1) : file'[d][i] < queue'[d][q][1]
    <3>1. \A i \in 1..(f + n) : file'[d][i] \in Nat /\ file'[d][i] <= c[1]
      <4>1. \A j \in 1..(f + n) : \/ j \in 1..f /\ file'[d][j] = file[d][j]
                                  \/ file'[d][j] = c[1]
        BY <1>3, <1>4, SMTT(60)
      <4> QED BY <1>3, <2>1, <2>2, <4>1
    <3> QED BY <1>3, <2>1, <2>3, <3>1, SMTT(60)
  <2> QED BY <1>2, <1>4, <1>5, <2>2, <2>3, <2>4 DEF InOrder
<1>9. Placed(d)'
  <2> SUFFICES ASSUME status' # "plugin", ~ dropped'[d]
               PROVE  /\ Len(file'[d]) <= Len(wire'[d])
                      /\ \A i \in 1..Len(file'[d]) : file'[d][i] = wire'[d][i]
                      /\ ~ halted'[d] =>
                          \E pos \in [1..(Len(queue'[d]) + 1) -> 0..Len(wire'[d])] : Cuts(d, pos)'
                      /\ trunc'[d] => Len(file'[d]) < Len(wire'[d])
    BY DEF Placed
  <2>1. status # "plugin" /\ ~ dropped[d] /\ wire' = wire
    BY <1>5
  <2>2. /\ f + Len(c) <= Len(wire[d])
        /\ \A i \in (f + 1)..(f + Len(c)) : wire[d][i] = c[1]
        /\ \E rest \in [1..Q -> 0..Len(wire[d])] :
              /\ rest[1] = f + Len(c)
              /\ rest[Q] = Len(wire[d])
              /\ \A k \in 1..(Q - 1) :
                    /\ rest[k + 1] = rest[k] + Len(queue[d][k + 1])
                    /\ \A i \in (rest[k] + 1)..rest[k + 1] : wire[d][i] = queue[d][k + 1][1]
    <3>1. Len(queue[d]) > 0
      BY <1>2 DEF Q
    <3> QED BY <1>1, <1>2, <2>1, <3>1, HeadPlaced DEF c, f, Q
  <2>3. Len(file'[d]) <= Len(wire'[d]) /\ (trunc'[d] => Len(file'[d]) < Len(wire'[d]))
    <3>1. f + Len(c) <= Len(wire[d])
      BY <2>2
    <3>2. Len(file'[d]) = f + n /\ n <= Len(c) /\ Len(wire'[d]) = Len(wire[d])
      BY <1>4, <2>1
    <3>3. trunc'[d] => n < Len(c)
      BY <1>3, <1>6
    <3> QED BY <1>3, <3>1, <3>2, <3>3
  <2>4. \A i \in 1..Len(file'[d]) : file'[d][i] = wire'[d][i]
    <3>1. \A i \in 1..f : file[d][i] = wire[d][i]
      BY <1>1, <2>1 DEF Placed, f
    <3>2. \A i \in (f + 1)..(f + n) : wire[d][i] = c[1]
      <4>1. n <= Len(c)
        BY <1>4
      <4>2. \A i \in (f + 1)..(f + n) : i \in (f + 1)..(f + Len(c))
        BY <1>3, <4>1
      <4> QED BY <2>2, <4>2
    <3>3. \A i \in 1..(f + n) : i \in 1..f \/ i \in (f + 1)..(f + n)
      BY <1>3
    <3> QED BY <1>4, <2>1, <3>1, <3>2, <3>3
  <2>5. ASSUME ~ halted'[d]
        PROVE  \E pos \in [1..(Len(queue'[d]) + 1) -> 0..Len(wire'[d])] : Cuts(d, pos)'
    <3>1. n = Len(c)
      BY <1>6, <2>5
    <3>2. PICK rest \in [1..Q -> 0..Len(wire[d])] :
              /\ rest[1] = f + Len(c)
              /\ rest[Q] = Len(wire[d])
              /\ \A k \in 1..(Q - 1) :
                    /\ rest[k + 1] = rest[k] + Len(queue[d][k + 1])
                    /\ \A i \in (rest[k] + 1)..rest[k + 1] : wire[d][i] = queue[d][k + 1][1]
      BY <2>2
    <3>3. (Q - 1) + 1 = Q
      BY <1>2
    <3>4. Cuts(d, rest)'
      <4>1. rest[1] = Len(file'[d]) /\ rest[Len(queue'[d]) + 1] = Len(wire'[d])
        BY <1>2, <1>4, <2>1, <3>1, <3>2, <3>3
      <4>2. ASSUME NEW k \in 1..Len(queue'[d])
            PROVE  /\ rest[k + 1] = rest[k] + Len(queue'[d][k])
                   /\ \A i \in (rest[k] + 1)..rest[k + 1] : wire'[d][i] = queue'[d][k][1]
        <5>1. k \in 1..(Q - 1) /\ queue'[d][k] = queue[d][k + 1]
          BY <1>2
        <5> QED BY <2>1, <3>2, <5>1
      <4> QED BY <4>1, <4>2 DEF Cuts
    <3> QED BY <1>2, <2>1, <3>2, <3>3, <3>4
  <2> QED BY <2>3, <2>4, <2>5
<1>10. TimesChunks(d)'
  <2> DEFINE ts == timings[d]
             m == Len(timings[d])
  <2>1. /\ m \in Nat /\ Len(timings'[d]) = m + 1
        /\ timings'[d][m + 1] = [off |-> f, at |-> c[1]]
        /\ \A j \in 1..m : timings'[d][j] = ts[j] /\ ts[j].off \in Nat
    <3>1. ts \in Seq([off: 0..MaxBody, at: ChunkIds]) /\ m \in Nat
      BY TypeFacts
    <3>2. \A j \in 1..m : ts[j] \in [off: 0..MaxBody, at: ChunkIds]
      BY <3>1, ElementOfSeq
    <3> QED BY <1>4, <3>1, <3>2, AppendProperties
  <2>2. /\ f > 0 => m > 0
        /\ m > 0 => ts[1].off = 0
        /\ \A j \in 1..m :
              /\ ts[j].off < f
              /\ \A k \in 1..m : j < k => ts[j].off < ts[k].off
              /\ \A i \in (ts[j].off + 1)..f :
                    (j < m => i <= ts[j + 1].off) => file[d][i] = ts[j].at
    <3>1. \A j \in 1..m : ts[j].off <= f /\ ts[j].off # f
      BY <1>1, <1>2 DEF TimesChunks, f
    <3> QED BY <1>1, <1>3, <2>1, <3>1, SMTT(60) DEF TimesChunks, f
  <2> HIDE DEF ts, m
  <2>3. timings'[d][1].off = 0
    BY <1>3, <2>1, <2>2, SMTT(60)
  <2>4. ASSUME NEW j \in 1..(m + 1)
        PROVE  /\ timings'[d][j].off <= f + n
               /\ timings'[d][j].off = f + n => halted'[d]
               /\ \A k \in 1..(m + 1) : j < k => timings'[d][j].off < timings'[d][k].off
               /\ \A i \in (timings'[d][j].off + 1)..(f + n) :
                    (j < m + 1 => i <= timings'[d][j + 1].off) => file'[d][i] = timings'[d][j].at
    <3>1. CASE j = m + 1
      <4>1. n = 0 => halted'[d]
        BY <1>3, <1>6
      <4> QED BY <1>3, <1>4, <2>1, <3>1, <4>1, SMTT(60)
    <3>2. CASE j \in 1..m
      <4>1. timings'[d][j] = ts[j] /\ ts[j].off \in Nat /\ ts[j].off < f
        BY <2>1, <2>2, <3>2
      <4>2. \A k \in 1..(m + 1) : j < k => ts[j].off < timings'[d][k].off
        <5>1. \A k \in 1..(m + 1) : k = m + 1 \/ k \in 1..m
          BY <2>1
        <5> QED BY <2>1, <2>2, <3>2, <4>1, <5>1
      <4>3. ASSUME NEW i \in (ts[j].off + 1)..(f + n), i <= timings'[d][j + 1].off
            PROVE  file'[d][i] = ts[j].at
        <5>1. CASE j = m
          <6>1. timings'[d][j + 1].off = f
            BY <2>1, <5>1
          <6>2. i \in (ts[j].off + 1)..f /\ i \in 1..f
            <7>1. f \in Nat /\ n \in Nat /\ i <= f
              BY <1>3, <4>3, <6>1
            <7> QED BY <4>1, <4>3, <7>1, Within, ZenonT(30)
          <6> QED BY <1>4, <2>1, <2>2, <3>2, <5>1, <6>2
        <5>2. CASE j < m
          <6>1. j + 1 \in 1..m /\ timings'[d][j + 1].off = ts[j + 1].off /\ ts[j + 1].off < f
            BY <2>1, <2>2, <3>2, <5>2, SMTT(60)
          <6>2. i \in (ts[j].off + 1)..f /\ i \in 1..f
            BY <1>3, <2>1, <4>1, <4>3, <6>1, SMTT(60)
          <6> QED BY <1>4, <2>2, <3>2, <4>3, <6>1, <6>2
        <5> QED BY <2>1, <3>2, <5>1, <5>2
      <4> QED BY <1>3, <2>1, <3>2, <4>1, <4>2, <4>3, SMTT(60)
    <3> QED BY <2>1, <3>1, <3>2
  <2>5. Len(file'[d]) = f + n /\ Len(timings'[d]) = m + 1 /\ m + 1 > 0 /\ m + 1 \in Nat
    BY <1>4, <2>1
  <2>6. \A j \in 1..Len(timings'[d]) :
          /\ timings'[d][j].off <= Len(file'[d])
          /\ timings'[d][j].off = Len(file'[d]) => halted'[d]
          /\ \A k \in 1..Len(timings'[d]) : j < k => timings'[d][j].off < timings'[d][k].off
          /\ \A i \in (timings'[d][j].off + 1)..Len(file'[d]) :
               (j < Len(timings'[d]) => i <= timings'[d][j + 1].off) =>
                    file'[d][i] = timings'[d][j].at
    BY <2>4, <2>5, Zenon
  <2> QED BY <2>3, <2>5, <2>6 DEF TimesChunks
<1> QED BY <1>7, <1>8, <1>9, <1>10

\* A drainer leaves the file alone.
LEMMA PassesBodies ==
    ASSUME TypeOK, BodiesInv, TimingsInv, NEW d \in Dirs, Passes(d)
    PROVE  InOrder(d)' /\ Placed(d)' /\ Flagged(d)' /\ TimesChunks(d)'
<1>1. InOrder(d) /\ Placed(d) /\ Flagged(d) /\ TimesChunks(d)
  BY DEF BodiesInv, TimingsInv
<1>2. /\ UNCHANGED <<file, timings, diskErr, wire, sent, upc, status, dropped>>
      /\ Handed(d)' = Handed(d)
  <2>1. UNCHANGED <<file, timings, diskErr, wire, sent, upc, status, dropped>>
    BY DEF Passes
  <2> QED BY <2>1 DEF Handed
<1>3. CASE DrainEnds(d)
  <2>1. UNCHANGED <<queue, trunc, halted>>
    BY <1>3 DEF DrainEnds
  <2> QED BY <1>1, <1>2, <2>1, OtherDirection
<1>4. CASE DrainsNothing(d) \/ DrainsAway(d)
  <2> DEFINE Q == Len(queue[d])
  <2>1. /\ Takes(d) /\ Q \in Nat \ {0} /\ Len(queue'[d]) = Q - 1
        /\ \A q \in 1..(Q - 1) : queue'[d][q] = queue[d][q + 1]
    <3>1. Takes(d)
      BY <1>4 DEF DrainsNothing, DrainsAway
    <3> QED BY <3>1, TakesTypes, Numbers
  <2>2. /\ halted'[d]
        /\ \/ DrainsNothing(d) /\ ~ halted[d] /\ trunc'[d]
           \/ halted[d] /\ trunc'[d] = trunc[d]
    <3>1. trunc \in [Dirs -> BOOLEAN] /\ halted \in [Dirs -> BOOLEAN]
      BY Zenon DEF TypeOK
    <3>2. CASE DrainsNothing(d)
      BY <3>1, <3>2, Zenon DEF DrainsNothing
    <3>3. CASE DrainsAway(d)
      BY <3>3, Zenon DEF DrainsAway, drainVars
    <3> QED BY <1>4, <3>2, <3>3
  <2>3. InOrder(d)'
    <3>1. ASSUME NEW q \in 1..(Q - 1)
          PROVE  /\ queue'[d][q][1] <= Handed(d)
                 /\ \A i \in 1..Len(file[d]) : file[d][i] < queue'[d][q][1]
                 /\ \A p \in 1..(Q - 1) : p < q => queue'[d][p][1] < queue'[d][q][1]
      <4>1. /\ q + 1 \in 1..Q
            /\ \A p \in 1..(Q - 1) : p + 1 \in 1..Q /\ (p < q => p + 1 < q + 1)
        BY <2>1
      <4>2. /\ queue[d][q + 1][1] <= Handed(d)
            /\ \A i \in 1..Len(file[d]) : file[d][i] < queue[d][q + 1][1]
            /\ \A p \in 1..Q : p < q + 1 => queue[d][p][1] < queue[d][q + 1][1]
        BY <1>1, <4>1 DEF InOrder
      <4> HIDE DEF Q
      <4> QED BY <2>1, <4>1, <4>2
    <3>2. \A i \in 1..Len(file[d]) :
            /\ file[d][i] <= Handed(d)
            /\ \A j \in 1..Len(file[d]) : i < j => file[d][i] <= file[d][j]
      BY <1>1 DEF InOrder
    <3> HIDE DEF Q
    <3> QED BY <1>2, <2>1, <3>1, <3>2 DEF InOrder
  <2>4. Flagged(d)'
    BY <1>1, <1>2, <2>2 DEF Flagged
  <2>5. TimesChunks(d)'
    <3>1. timings' = timings /\ file' = file /\ halted'[d]
      BY <1>2, <2>2
    <3> QED BY <1>1, <3>1 DEF TimesChunks
  <2>6. ASSUME status # "plugin", ~ dropped[d], trunc'[d]
        PROVE  Len(file[d]) < Len(wire[d])
    <3>1. CASE DrainsNothing(d) /\ ~ halted[d]
      <4>1. 1 \in 1..Q /\ Len(queue[d]) > 0
        BY <2>1
      <4>2. Len(file[d]) + Len(queue[d][1]) <= Len(wire[d])
        BY <1>1, <2>6, <3>1, <4>1, HeadPlaced
      <4>3. Len(queue[d][1]) \in Nat \ {0} /\ Len(file[d]) \in Nat /\ Len(wire[d]) \in Nat
        BY <4>1, Numbers
      <4>4. \A a, b \in Nat, l \in Nat \ {0} : a + l <= b => a < b
        OBVIOUS
      <4> QED BY <4>2, <4>3, <4>4, Zenon
    <3>2. CASE trunc'[d] = trunc[d]
      BY <1>1, <2>6, <3>2 DEF Placed
    <3> QED BY <2>2, <3>1, <3>2
  <2>7. Placed(d)'
    <3>1. /\ Len(file[d]) = Len(file'[d]) /\ wire' = wire /\ file' = file
          /\ status' = status /\ dropped' = dropped /\ halted'[d]
      BY <1>2, <2>2
    <3> QED BY <1>1, <2>6, <3>1 DEF Placed
  <2> QED BY <2>3, <2>4, <2>5, <2>7
<1> QED BY <1>3, <1>4 DEF Passes

LEMMA DrainBodies ==
    ASSUME TypeOK, BodiesInv, TimingsInv, NEW d \in Dirs, DrainStep(d)
    PROVE  BodiesInv' /\ TimingsInv'
<1> SUFFICES ASSUME NEW e \in Dirs
             PROVE  InOrder(e)' /\ Placed(e)' /\ Flagged(e)' /\ TimesChunks(e)'
  BY DEF BodiesInv, TimingsInv
<1>1. InOrder(e) /\ Placed(e) /\ Flagged(e) /\ TimesChunks(e)
  BY DEF BodiesInv, TimingsInv
<1>2. CASE e = d
  BY <1>2, DrainCases, WritesBodies, PassesBodies
<1>3. CASE e # d
  <2>1. UNCHANGED <<wire, sent, upc, status, dropped>>
    BY DEF DrainStep, Drains, DrainsNothing, DrainFails, DrainsAway, DrainEnds
  <2>2. Handed(e)' = Handed(e)
    BY <2>1 DEF Handed
  <2>3. queue'[e] = queue[e] /\ file'[e] = file[e] /\ timings'[e] = timings[e]
    <3>1. \A v : /\ [queue EXCEPT ![d] = v][e] = queue[e] /\ [file EXCEPT ![d] = v][e] = file[e]
                 /\ [timings EXCEPT ![d] = v][e] = timings[e]
      BY <1>3 DEF TypeOK
    <3> QED BY <3>1, ZenonT(60) DEF DrainStep, Drains, DrainsNothing, DrainFails, DrainsAway,
                                   DrainEnds, Takes, Timed
  <2>4. trunc'[e] = trunc[e] /\ halted'[e] = halted[e] /\ diskErr'[e] = diskErr[e]
    <3>1. trunc \in [Dirs -> BOOLEAN] /\ halted \in [Dirs -> BOOLEAN] /\ diskErr \in [Dirs -> BOOLEAN]
      BY Zenon DEF TypeOK
    <3>2. \A v : /\ [trunc EXCEPT ![d] = v][e] = trunc[e] /\ [halted EXCEPT ![d] = v][e] = halted[e]
                 /\ [diskErr EXCEPT ![d] = v][e] = diskErr[e]
      BY <1>3, <3>1, Zenon
    <3> QED BY <3>2, Zenon DEF DrainStep, Drains, DrainsNothing, DrainFails, DrainsAway, DrainEnds
  <2> QED BY <1>1, <2>1, <2>2, <2>3, <2>4, OtherDirection
<1> QED BY <1>2, <1>3

\* Every step keeps the bodies.
LEMMA BodiesStep ==
    ASSUME TypeOK, Control, BodiesInv, TimingsInv, Next
    PROVE  BodiesInv' /\ TimingsInv'
<1>0. /\ "req" \in Dirs /\ "resp" \in Dirs /\ "req" # "resp"
      /\ \A d \in Dirs : sent[d] \in Nat
      /\ \A d \in Dirs : Handed(d) \in Int
  BY Numbers, TypeFacts DEF Dirs
<1>1. CASE \/ Untraced \/ StartTrace \/ Forwards \/ RoundTripReturns \/ RoundTripFails
           \/ WritesChunk \/ CopyEnds \/ CopyAborts \/ Finalizes
           \/ UploadEnds \/ TimerExpires \/ WatchdogFires \/ ClientLeaves
  <2>1. UNCHANGED <<sent, wire, queue, dropped, file, timings, trunc, halted, diskErr>>
    BY <1>1 DEF Untraced, StartTrace, Forwards, RoundTripReturns, RoundTripFails, WritesChunk,
                CopyEnds, CopyAborts, Finalizes, StopsWatchdog, ClosesChannels, Joins, Builds, UploadEnds,
                TimerExpires, WatchdogFires, ClientLeaves
  <2>2. (upc = "tee") = (upc' = "tee")
    BY <1>1 DEF Untraced, StartTrace, Forwards, RoundTripReturns, RoundTripFails, WritesChunk,
                CopyEnds, CopyAborts, Finalizes, StopsWatchdog, ClosesChannels, Joins, Builds, UploadEnds,
                TimerExpires, WatchdogFires, ClientLeaves, Control
  <2>3. status # "plugin" \/ status' = "plugin"
    BY <1>1 DEF Untraced, StartTrace, Forwards, RoundTripReturns, RoundTripFails, WritesChunk,
                CopyEnds, CopyAborts, Finalizes, StopsWatchdog, ClosesChannels, Joins, Builds, UploadEnds,
                TimerExpires, WatchdogFires, ClientLeaves, Control
  <2>4. \A d \in Dirs : Handed(d)' = Handed(d)
    BY <2>1, <2>2 DEF Handed
  <2>5. \A d \in Dirs : Handed(d)' \in Int /\ Handed(d) <= Handed(d)'
    BY <1>0, <2>4
  <2> QED BY <2>1, <2>3, <2>5, BodiesRest
<1>2. ASSUME NEW l \in Lens, UploadReads(l) PROVE BodiesInv' /\ TimingsInv'
  <2>1. UNCHANGED <<wire, queue, dropped, file, timings, trunc, halted, diskErr, status>>
    BY <1>2 DEF UploadReads
  <2>2. /\ upc = "read" /\ upc' = "tee" /\ sent'["req"] = sent["req"] + 1
        /\ sent'["resp"] = sent["resp"]
    BY <1>0, <1>2 DEF UploadReads, TypeOK
  <2>3. Handed("req")' = Handed("req") /\ Handed("resp")' = Handed("resp")
    BY <1>0, <2>2 DEF Handed
  <2>4. \A d \in Dirs : Handed(d)' \in Int /\ Handed(d) <= Handed(d)'
    BY <1>0, <2>3 DEF Dirs
  <2> QED BY <2>1, <2>4, BodiesRest
<1>3. CASE UploadTees
  <2>1. /\ upc = "tee" /\ upc' = "read"
        /\ UNCHANGED <<sent, file, timings, trunc, halted, diskErr, status>>
    BY <1>3 DEF UploadTees
  <2>2. /\ Handed("req") = sent["req"] - 1 /\ Handed("req")' = sent["req"]
        /\ Handed("resp")' = Handed("resp")
    BY <1>0, <2>1 DEF Handed
  <2>3. CASE closed["req"]
    <3>1. UNCHANGED <<wire, queue, dropped>>
      BY <1>3, <2>3 DEF UploadTees
    <3>2. \A d \in Dirs : Handed(d)' \in Int /\ Handed(d) <= Handed(d)'
      BY <1>0, <2>2 DEF Dirs
    <3> QED BY <2>1, <3>1, <3>2, BodiesRest
  <2>4. CASE ~ closed["req"]
    <3>1. SinkWrites("req", upheld)
      BY <1>3, <2>4 DEF UploadTees
    <3>2. upheld \in Chunks /\ upheld[1] = sent["req"]
      BY <2>1 DEF Control, TypeOK
    <3>3. /\ upheld[1] = Handed("req") + 1 /\ Handed("req")' = upheld[1] /\ Handed("req") \in Nat
          /\ \A e \in Dirs \ {"req"} : Handed(e)' = Handed(e)
      <4>1. upheld[1] \in Nat \ {0}
        BY <3>2, ChunkFacts, IdFacts
      <4> QED BY <1>0, <2>2, <3>2, <4>1 DEF Dirs
    <3> QED BY <1>0, <2>1, <3>1, <3>2, <3>3, HandingOn
  <2> QED BY <2>3, <2>4
<1>4. ASSUME NEW l \in Lens, Intercepts(l) PROVE BodiesInv' /\ TimingsInv'
  <2> SUFFICES ASSUME NEW d \in Dirs
               PROVE  InOrder(d)' /\ Placed(d)' /\ Flagged(d)' /\ TimesChunks(d)'
    BY DEF BodiesInv, TimingsInv
  <2>1. InOrder(d) /\ Placed(d) /\ Flagged(d) /\ TimesChunks(d)
    BY DEF BodiesInv, TimingsInv
  <2>2. /\ UNCHANGED <<file, queue, timings, trunc, halted, diskErr>> /\ status' = "plugin"
    BY <1>4 DEF Intercepts
  <2>3. file[d] = <<>> /\ queue[d] = <<>>
    BY <1>4 DEF Control, Intercepts
  <2>4. InOrder(d)'
    BY <2>2, <2>3 DEF InOrder
  <2>5. Placed(d)' /\ Flagged(d)'
    BY <2>1, <2>2 DEF Placed, Flagged
  <2>6. TimesChunks(d)'
    BY <2>1, <2>2 DEF TimesChunks
  <2> QED BY <2>4, <2>5, <2>6
<1>5. ASSUME NEW l \in Lens, CopyChunk(l) PROVE BodiesInv' /\ TimingsInv'
  <2>1. /\ sent' = [sent EXCEPT !["resp"] = @ + 1]
        /\ sent["resp"] + 1 \in 1..MaxChunks["resp"]
        /\ SinkWrites("resp", Bytes(sent["resp"] + 1, l))
        /\ UNCHANGED <<file, timings, trunc, halted, diskErr, status, upc>>
    BY <1>0, <1>5, IdFacts DEF CopyChunk
  <2>2. sent'["resp"] = sent["resp"] + 1 /\ sent'["req"] = sent["req"]
    BY <1>0, <2>1 DEF TypeOK
  <2>3. /\ Bytes(sent["resp"] + 1, l) \in Chunks
        /\ Bytes(sent["resp"] + 1, l)[1] = sent["resp"] + 1
    <3>1. sent["resp"] + 1 \in ChunkIds
      BY <1>0, <2>1, IdFacts
    <3>2. 1 \in 1..l
      BY <3>1, BytesFacts
    <3> QED BY <3>1, <3>2, BytesFacts
  <2>4. /\ Handed("resp") = sent["resp"] /\ Handed("resp")' = sent["resp"] + 1
        /\ \A e \in Dirs \ {"resp"} : Handed(e)' = Handed(e)
    BY <1>0, <2>1, <2>2 DEF Handed, Dirs
  <2> DEFINE c == Bytes(sent["resp"] + 1, l)
  <2>5. c \in Chunks /\ SinkWrites("resp", c) /\ c[1] = Handed("resp") + 1 /\ Handed("resp")' = c[1]
    BY <2>1, <2>3, <2>4
  <2> HIDE DEF c
  <2> QED BY <1>0, <2>1, <2>4, <2>5, HandingOn
<1>6. ASSUME NEW d \in Dirs, DrainStep(d) PROVE BodiesInv' /\ TimingsInv'
  BY <1>6, DrainBodies
<1> QED BY <1>1, <1>2, <1>3, <1>4, <1>5, <1>6 DEF Next, Handles, Lens

-----------------------------------------------------------------------------
(* The handler, and the record it leaves. *)

LEMMA ControlHandler ==
    ASSUME TypeOK, Control,
           \/ Untraced \/ StartTrace \/ Forwards \/ RoundTripReturns \/ RoundTripFails
           \/ WritesChunk \/ CopyEnds \/ CopyAborts \/ Finalizes
           \/ UploadEnds \/ TimerExpires \/ WatchdogFires \/ ClientLeaves
    PROVE  Control'
<1> USE DEF Control, Dirs
<1>1. CASE Untraced \/ WritesChunk \/ CopyEnds \/ CopyAborts \/ StopsWatchdog
  BY <1>1 DEF Untraced, WritesChunk, CopyEnds, CopyAborts, StopsWatchdog,
             ReadFails, WriteFails
<1>2. CASE StartTrace
  BY <1>2 DEF StartTrace
<1>3. CASE Forwards \/ RoundTripReturns \/ RoundTripFails
  BY <1>3 DEF Forwards, RoundTripReturns, RoundTripFails
<1>4. CASE ClosesChannels
  BY <1>4 DEF ClosesChannels
<1>5. CASE Joins("req", "joinResp") \/ Joins("resp", "build")
  BY <1>5 DEF Joins
<1>6. CASE Builds
  BY <1>6 DEF Builds
<1>7. CASE UploadEnds \/ TimerExpires \/ WatchdogFires \/ ClientLeaves
  BY <1>7 DEF UploadEnds, TimerExpires, WatchdogFires, ClientLeaves
<1> QED BY <1>1, <1>2, <1>3, <1>4, <1>5, <1>6, <1>7 DEF Finalizes

LEMMA ControlChunks ==
    ASSUME TypeOK, Control,
           \/ \E l \in Lens : Intercepts(l) \/ CopyChunk(l) \/ UploadReads(l)
           \/ UploadTees
    PROVE  Control'
<1>0. "req" \in Dirs /\ "resp" \in Dirs /\ "req" # "resp" /\ \A d \in Dirs : sent[d] \in Nat
  BY TypeFacts DEF Dirs
<1>1. ASSUME NEW l \in Lens, Intercepts(l) PROVE Control'
  BY <1>1 DEF Control, Intercepts
<1>2. ASSUME NEW l \in Lens, CopyChunk(l) PROVE Control'
  BY <1>0, <1>2 DEF Control, CopyChunk, SinkWrites, TypeOK
<1>3. ASSUME NEW l \in Lens, UploadReads(l) PROVE Control'
  <2>1. sent["req"] + 1 \in ChunkIds
    BY <1>0, <1>3, IdFacts DEF UploadReads
  <2>2. 1 \in 1..l
    BY <2>1, BytesFacts
  <2>3. upheld' # <<>> /\ upheld'[1] = sent'["req"]
    BY <1>0, <1>3, <2>1, <2>2, BytesFacts DEF UploadReads, TypeOK
  <2> QED BY <1>3, <2>3 DEF Control, UploadReads, Open
<1>4. CASE UploadTees
  <2>1. CASE closed["req"]
    BY <1>4, <2>1 DEF Control, UploadTees
  <2>2. CASE ~ closed["req"]
    BY <1>0, <1>4, <2>2, SMTT(60) DEF Control, UploadTees, SinkWrites, TypeOK
  <2> QED BY <2>1, <2>2
<1> QED BY <1>1, <1>2, <1>3, <1>4

LEMMA ControlDrain ==
    ASSUME TypeOK, Control, NEW d \in Dirs, DrainStep(d)
    PROVE  Control'
<1>1. /\ UNCHANGED <<hpc, sent, wire, closed, upc, upheld, status, sse, wstopped>>
      /\ hpc \notin {"start", "chain"}
      /\ dpc[d] = "drain"
  <2>1. /\ UNCHANGED <<hpc, sent, wire, closed, upc, upheld, status, sse, wstopped>>
        /\ dpc[d] = "drain"
    BY DEF DrainStep, Drains, DrainsNothing, DrainFails, DrainsAway, DrainEnds, Takes
  <2>2. queue[d] # <<>> \/ closed[d]
    BY DEF DrainStep, Drains, DrainsNothing, DrainFails, DrainsAway, DrainEnds, Takes
  <2> QED BY <2>1, <2>2 DEF Control
<1>2. \A e \in Dirs : dpc[e] = "done" => dpc'[e] = "done" /\ queue'[e] = queue[e]
  BY <1>1 DEF DrainStep, Drains, DrainsNothing, DrainFails, DrainsAway, DrainEnds, Takes, TypeOK
<1>3. \A e \in Dirs : dpc'[e] = "done" => dpc[e] = "done" \/ (e = d /\ closed[d] /\ queue'[d] = <<>>)
  BY <1>1 DEF DrainStep, Drains, DrainsNothing, DrainFails, DrainsAway, DrainEnds, Takes, TypeOK
<1> QED BY <1>1, <1>2, <1>3 DEF Control, Dirs

LEMMA ControlStep ==
    ASSUME TypeOK, Control, Next
    PROVE  Control'
  BY ControlHandler, ControlChunks, ControlDrain DEF Next, Handles, Lens

\* A record is built once, of files that nobody writes any more.
LEMMA RecordIsLast ==
    ASSUME TypeOK, Control, RecordInv, Recorded, Next
    PROVE  /\ UNCHANGED <<hpc, sent, wire, dropped, closed, queue, drainVars, status, sse,
                          complete, marked, wstopped, fired, rec>>
<1>1. hpc = "done" /\ wstopped /\ \A d \in Dirs : dpc[d] = "done" /\ closed[d]
  BY DEF RecordInv, Control
<1>2. \A d \in Dirs : ~ DrainStep(d)
  BY <1>1 DEF DrainStep, Drains, DrainsNothing, DrainFails, DrainsAway, DrainEnds, Takes
<1>3. ~ Handles /\ ~ ClientLeaves /\ ~ \E l \in ChunkLens["req"] : UploadReads(l)
  BY <1>1 DEF Handles, Untraced, StartTrace, Intercepts, CopyChunk, Forwards, RoundTripReturns,
              RoundTripFails, WritesChunk, CopyEnds, CopyAborts, Finalizes, StopsWatchdog, ClosesChannels,
              Joins, Builds, ClientLeaves, UploadReads, Open, ReadFails, WriteFails
<1>4. "req" \in Dirs
  BY DEF Dirs
<1>5. CASE UploadTees
  BY <1>1, <1>4, <1>5 DEF UploadTees
<1>6. CASE UploadEnds \/ TimerExpires
  BY <1>6 DEF UploadEnds, TimerExpires
<1>7. CASE WatchdogFires
  <2>1. fired' = fired
    BY <1>1, <1>7, Zenon DEF WatchdogFires, TypeOK
  <2> QED BY <1>7, <2>1 DEF WatchdogFires
<1> QED BY <1>2, <1>3, <1>5, <1>6, <1>7 DEF Next

LEMMA RecordStep ==
    ASSUME TypeOK, Control, RecordInv, Next
    PROVE  RecordInv'
<1>1. CASE Recorded
  <2> QED BY <1>1, RecordIsLast DEF RecordInv, Recorded, Unmarked
<1>2. CASE ~ Recorded
  <2>1. CASE Builds /\ rec' # rec
    <3>1. /\ hpc = "build" /\ hpc' = "done"
          /\ UNCHANGED <<netVars, chanVars, drainVars, dogVars, status, sse>>
      BY <2>1 DEF Builds
    <3>2. PICK cut \in Disconnects(marked') :
            rec' = [status |-> status, truncated |-> trunc, disconnected |-> fired \/ cut]
      BY <2>1 DEF Builds
    <3>3. dpc["req"] = "done" /\ dpc["resp"] = "done" /\ wstopped
      BY <3>1 DEF Control
    <3>4. ASSUME ~ sse \/ file["resp"] = wire["resp"]
          PROVE  cut <=> sse /\ wire["resp"] # <<>> /\ marked' = 0
      <4>1. CASE ~ sse
        BY <3>2, <4>1 DEF Disconnects
      <4>2. CASE sse /\ wire["resp"] = <<>>
        BY <3>2, <3>4, <4>2 DEF Disconnects
      <4>3. CASE sse /\ wire["resp"] # <<>>
        <5>1. /\ wire["resp"] \in Seq(ChunkIds) /\ Len(wire["resp"]) \in Nat \ {0}
              /\ marked' \in Nat
          BY <2>1, <4>3, TypeFacts DEF Dirs, Builds, Marks
        <5>2. wire["resp"] = SubSeq(wire["resp"], 1, Len(wire["resp"]))
          BY <5>1
        <5>3. Terminated(marked') <=> marked' # 0
          <6> DEFINE w == wire["resp"]
          <6>1. /\ Len(w) \in DOMAIN w /\ file["resp"] = SubSeq(w, 1, Len(w))
                /\ \A i \in DOMAIN w : i <= Len(w)
            BY <3>4, <4>3, <5>1, <5>2
          <6> QED BY <5>1, <6>1 DEF Terminated
        <5> QED BY <3>2, <3>4, <4>3, <5>3 DEF Disconnects
      <4> QED BY <4>1, <4>2, <4>3
    <3> QED BY <3>1, <3>2, <3>3, <3>4 DEF RecordInv, Unmarked, Dirs
  <2>2. CASE rec' = rec
    BY <1>2, <2>2 DEF RecordInv, Recorded
  <2> QED
    BY <2>1, <2>2 DEF Next, Handles, Untraced, StartTrace, Intercepts, CopyChunk, Forwards,
              RoundTripReturns, RoundTripFails, WritesChunk, CopyEnds, CopyAborts, Finalizes, StopsWatchdog,
              ClosesChannels, Joins, ClientLeaves, UploadReads, UploadTees, UploadEnds,
              TimerExpires, WatchdogFires, DrainStep, Drains, DrainsNothing, DrainFails,
              DrainsAway, DrainEnds
<1> QED BY <1>1, <1>2

-----------------------------------------------------------------------------
(* The invariant and what it gives. *)

LEMMA CaptureInit == Init => CaptureInv
<1> SUFFICES ASSUME Init PROVE CaptureInv
  OBVIOUS
<1>1. TypeOK
  BY TypeInit
<1>2. Control
  BY DEF Init, Control
<1>3. RecordInv
  BY DEF Init, RecordInv, Recorded
<1>4. ASSUME NEW d \in Dirs PROVE InOrder(d) /\ Placed(d) /\ Flagged(d) /\ TimesChunks(d)
  <2>1. /\ file[d] = <<>> /\ queue[d] = <<>> /\ wire[d] = <<>> /\ timings[d] = <<>>
        /\ ~ trunc[d] /\ ~ halted[d] /\ Len(file[d]) = 0 /\ Len(queue[d]) = 0
        /\ Len(wire[d]) = 0 /\ Len(timings[d]) = 0
    BY DEF Init
  <2>2. InOrder(d) /\ Flagged(d) /\ TimesChunks(d)
    BY <2>1 DEF InOrder, Flagged, TimesChunks
  <2>3. \E pos \in [1..(Len(queue[d]) + 1) -> 0..Len(wire[d])] : Cuts(d, pos)
    <3>1. PICK pos \in [1..1 -> 0..0] : pos[1] = 0
      <4> DEFINE p == [k \in 1..1 |-> 0]
      <4>1. p \in [1..1 -> 0..0] /\ p[1] = 0
        OBVIOUS
      <4> QED BY <4>1
    <3>2. Cuts(d, pos)
      BY <2>1, <3>1 DEF Cuts
    <3> QED BY <2>1, <3>1, <3>2
  <2>4. Placed(d)
    BY <2>1, <2>3 DEF Placed
  <2> QED BY <2>2, <2>4
<1> QED BY <1>1, <1>2, <1>3, <1>4 DEF CaptureInv, BodiesInv, TimingsInv

LEMMA CaptureNext == CaptureInv /\ [Next]_vars => CaptureInv'
<1> SUFFICES ASSUME CaptureInv, [Next]_vars PROVE CaptureInv'
  OBVIOUS
<1>1. TypeOK /\ Control /\ BodiesInv /\ RecordInv /\ TimingsInv
  BY DEF CaptureInv
<1>2. CASE Next
  <2>1. TypeOK'
    <3>1. CASE Handles
      BY <1>1, <3>1, HandlerType, CopyType, BuildType DEF Handles, Finalizes, Lens
    <3>2. CASE (\E l \in Lens : UploadReads(l)) \/ UploadTees \/ UploadEnds
      BY <1>1, <3>2, UploadType
    <3>3. CASE TimerExpires \/ WatchdogFires \/ ClientLeaves
      BY <1>1, <3>3, DogType
    <3>4. CASE \E d \in Dirs : DrainStep(d)
      BY <1>1, <3>4, DrainType
    <3> QED BY <1>2, <3>1, <3>2, <3>3, <3>4 DEF Next, Lens
  <2>2. Control'
    BY <1>1, <1>2, ControlStep
  <2>3. BodiesInv' /\ TimingsInv'
    BY <1>1, <1>2, BodiesStep
  <2>4. RecordInv'
    BY <1>1, <1>2, RecordStep
  <2> QED BY <2>1, <2>2, <2>3, <2>4 DEF CaptureInv
<1>3. CASE UNCHANGED vars
  <2>1. TypeOK'
    BY <1>1, <1>3, DogType
  <2>2. Control'
    BY <1>1, <1>3 DEF vars, Control
  <2>3. BodiesInv' /\ TimingsInv'
    <3>1. /\ UNCHANGED <<wire, queue, dropped, file, timings, trunc, halted, diskErr, status>>
          /\ \A d \in Dirs : Handed(d)' = Handed(d)
      BY <1>3 DEF vars, Handed
    <3> QED BY <1>1, <3>1, BodiesRest, Numbers
  <2>4. RecordInv'
    <3> QED BY <1>1, <1>3 DEF vars, RecordInv, Recorded, Unmarked
  <2> QED BY <2>1, <2>2, <2>3, <2>4 DEF CaptureInv
<1> QED BY <1>2, <1>3

\* The state of the request stays what CaptureInv says, whatever the chunks,
\* the faults and the capacity of the channels.
THEOREM CaptureInvariance == Spec => []CaptureInv
<1> QED BY CaptureInit, CaptureNext, PTL DEF Spec

THEOREM TypeCorrect == Spec => []TypeOK
<1>1. CaptureInv => TypeOK
  BY DEF CaptureInv
<1> QED BY <1>1, CaptureInvariance, PTL

\* Once the record is built nobody writes to the files it was built from:
\* the handler joined the drainers first.
THEOREM RecordIsFinal == Spec => RecordFinal
<1>1. CaptureInv /\ [Next]_vars => [Recorded => UNCHANGED <<file, trunc, timings>>]_vars
  <2> SUFFICES ASSUME CaptureInv, Next, Recorded
               PROVE  UNCHANGED <<file, trunc, timings>>
    OBVIOUS
  <2> QED BY RecordIsLast DEF CaptureInv
<1> QED BY <1>1, CaptureInvariance, PTL DEF Spec, RecordFinal

\* What the record says of a body is so: what is kept of it is in the order of
\* the wire, without drops it is the head of the wire, and without disk errors
\* the flag is set exactly when the cap cut bytes; a response that was captured
\* whole is called disconnected exactly when the watchdog had fired, or when it
\* was an event stream without a terminator that the parser knows.
THEOREM RecordsTellTruth == Spec => []RecordTellsTruth
<1>1. CaptureInv => BodyWholeOrFlagged
  <2> SUFFICES ASSUME CaptureInv, Recorded, status # "plugin", NEW d \in Dirs
               PROVE  /\ \A i, j \in DOMAIN file[d] : i < j => file[d][i] <= file[d][j]
                      /\ ~ dropped[d] => file[d] = SubSeq(wire[d], 1, Len(file[d]))
                      /\ Clean(d) => (rec.truncated[d] <=> Len(file[d]) < Len(wire[d]))
    BY DEF BodyWholeOrFlagged
  <2>1. TypeOK /\ InOrder(d) /\ Placed(d) /\ Flagged(d) /\ RecordInv /\ Control
    BY DEF CaptureInv, BodiesInv
  <2>2. /\ file[d] \in Seq(ChunkIds) /\ wire[d] \in Seq(ChunkIds)
        /\ Len(file[d]) \in Nat /\ Len(wire[d]) \in Nat
        /\ DOMAIN file[d] = 1..Len(file[d])
    BY <2>1, TypeFacts, LenProperties
  <2>3. \A i, j \in DOMAIN file[d] : i < j => file[d][i] <= file[d][j]
    BY <2>1, <2>2 DEF InOrder
  <2>4. ASSUME ~ dropped[d] PROVE file[d] = SubSeq(wire[d], 1, Len(file[d]))
    <3>1. Len(file[d]) <= Len(wire[d]) /\ \A i \in 1..Len(file[d]) : file[d][i] = wire[d][i]
      BY <2>1, <2>4 DEF Placed
    <3> DEFINE s == SubSeq(wire[d], 1, Len(file[d]))
    <3>2. \A i \in 1..Len(file[d]) : wire[d][i] \in ChunkIds
      BY <2>2, <3>1
    <3>3. /\ s \in Seq(ChunkIds) /\ Len(s) = Len(file[d])
          /\ \A i \in 1..Len(file[d]) : s[i] = wire[d][i]
      BY <2>2, <3>2, SubSeqProperties
    <3> HIDE DEF s
    <3>4. s = file[d]
      BY <2>2, <3>1, <3>3, SeqEqual
    <3> QED BY <3>4 DEF s
  <2>5. ASSUME ~ dropped[d], ~ diskErr[d]
        PROVE  rec.truncated[d] <=> Len(file[d]) < Len(wire[d])
    <3>1. rec.truncated = trunc /\ queue[d] = <<>>
      BY <2>1 DEF RecordInv, Control
    <3>2. trunc[d] => Len(file[d]) < Len(wire[d])
      BY <2>1, <2>5 DEF Placed
    <3>3. ASSUME ~ trunc[d] PROVE Len(file[d]) = Len(wire[d])
      <4>1. PICK pos \in [1..(Len(queue[d]) + 1) -> 0..Len(wire[d])] : Cuts(d, pos)
        BY <2>1, <2>5, <3>3 DEF Placed, Flagged
      <4>2. Len(queue[d]) + 1 = 1
        BY <3>1
      <4> QED BY <4>1, <4>2 DEF Cuts
    <3>4. trunc[d] \in BOOLEAN
      BY <2>1, Zenon DEF TypeOK
    <3> QED BY <2>2, <3>1, <3>2, <3>3, <3>4
  <2> QED BY <2>3, <2>4, <2>5 DEF Clean
<1>2. CaptureInv => DisconnectedMeansUnmarked
  <2> SUFFICES ASSUME CaptureInv, Recorded, Clean("resp"), ~ rec.truncated["resp"]
               PROVE  rec.disconnected <=> fired \/ Unmarked
    BY DEF DisconnectedMeansUnmarked, Unmarked
  <2>1. TypeOK /\ Placed("resp") /\ RecordInv /\ Control /\ "resp" \in Dirs
    BY DEF CaptureInv, BodiesInv, Dirs
  <2>2. CASE status = "plugin"
    BY <2>1, <2>2 DEF RecordInv, Control
  <2>3. CASE status # "plugin"
    <3>1. /\ file["resp"] = SubSeq(wire["resp"], 1, Len(file["resp"]))
          /\ ~ (Len(file["resp"]) < Len(wire["resp"]))
      BY <1>1, <2>1, <2>3 DEF BodyWholeOrFlagged, Clean
    <3>2. /\ wire["resp"] \in Seq(ChunkIds) /\ Len(wire["resp"]) \in Nat
          /\ Len(file["resp"]) \in Nat /\ Len(file["resp"]) <= Len(wire["resp"])
      BY <2>1, <2>3, TypeFacts DEF Placed, Clean
    <3>3. file["resp"] = wire["resp"]
      BY <3>1, <3>2
    <3> QED BY <2>1, <3>3 DEF RecordInv
  <2> QED BY <2>2, <2>3
<1> QED BY <1>1, <1>2, CaptureInvariance, PTL DEF RecordTellsTruth

-----------------------------------------------------------------------------
(* The time of an event. *)

\* A set of naturals has a least element: what stands for an induction here.
LEMMA LeastNat ==
    ASSUME NEW T, T \subseteq Nat, T # {}
    PROVE  \E m \in T : \A n \in T : m <= n
<1>1. PICK m \in T : \A n \in T : ~ (<<n, m>> \in OpToRel(<, Nat))
  BY NatLessThanWellFounded, WFMin
<1>2. \A n \in T : ~ (n < m)
  BY <1>1 DEF OpToRel
<1> QED BY <1>2

\* The binary search of LookupChunkTime ends at the last entry not after off.
LEMMA SearchFinds ==
    ASSUME NEW ts, NEW off \in Nat, NEW m \in Nat \ {0}, Len(ts) = m,
           NEW J \in 1..m, \A j \in 1..m : ts[j].off \in Nat,
           \A j \in 1..m : ts[j].off <= off <=> j <= J
    PROVE  LookupChunkTime(ts, off) = ts[J].at
<1> DEFINE W == (1..m) \X (1..(m + 1))
           Middle(w) == (w[1] + w[2]) \div 2
           Step(s) == [w \in W |->
                IF w[1] + 1 < w[2]
                THEN IF ts[Middle(w)].off <= off THEN s[<<Middle(w), w[2]>>] ELSE s[<<w[1], Middle(w)>>]
                ELSE ts[w[1]].at]
           search == CHOOSE s : s = Step(s)
           r(lo, hi) == IF hi <= lo + 1 \/ J < lo THEN lo ELSE IF J >= hi THEN hi - 1 ELSE J
           g == [w \in W |-> ts[r(w[1], w[2])].at]
<1>1. LookupChunkTime(ts, off) = search[<<1, m + 1>>]
  <2>1. ~ (Len(ts) = 0 \/ off < ts[1].off)
    <3>1. 1 \in 1..m /\ 1 <= J
      OBVIOUS
    <3>2. ts[1].off <= off /\ ts[1].off \in Nat
      BY <3>1
    <3> QED BY <3>2
  <2> QED BY <2>1 DEF LookupChunkTime
\* Halving the window keeps the chunk in it.
<1>2. ASSUME NEW w \in W, w[1] + 1 < w[2]
      PROVE  /\ <<Middle(w), w[2]>> \in W /\ <<w[1], Middle(w)>> \in W
             /\ w[1] < Middle(w) /\ Middle(w) < w[2]
             /\ ts[Middle(w)].off <= off => r(Middle(w), w[2]) = r(w[1], w[2])
             /\ ~ (ts[Middle(w)].off <= off) => r(w[1], Middle(w)) = r(w[1], w[2])
  <2>1. w[1] \in 1..m /\ w[2] \in 1..(m + 1)
    OBVIOUS
  <2> DEFINE lo == w[1]
             hi == w[2]
             mid == Middle(w)
  <2>2. mid \in 1..m /\ lo < mid /\ mid < hi
    BY <1>2, <2>1
  <2>3. ts[mid].off <= off <=> mid <= J
    <3> HIDE DEF mid
    <3> QED BY <2>2
  <2> HIDE DEF mid, lo, hi
  <2>4. lo \in 1..m /\ hi \in 1..(m + 1) /\ lo + 1 < hi
    BY <1>2, <2>1 DEF lo, hi
  <2>5. mid <= J => r(mid, hi) = r(lo, hi)
    BY <2>2, <2>4
  <2>6. ~ (mid <= J) => r(lo, mid) = r(lo, hi)
    BY <2>2, <2>4
  <2>7. <<mid, hi>> \in W /\ <<lo, mid>> \in W
    BY <2>2, <2>4
  <2> HIDE DEF r, W
  <2> QED BY <2>2, <2>3, <2>5, <2>6, <2>7 DEF mid, lo, hi
<1>3. \A w \in W : g[w] = ts[r(w[1], w[2])].at
  OBVIOUS
<1>4. g = Step(g)
  <2> HIDE DEF g, r, W, Middle
  <2>1. ASSUME NEW w \in W
        PROVE  g[w] = IF w[1] + 1 < w[2]
                      THEN IF ts[Middle(w)].off <= off THEN g[<<Middle(w), w[2]>>]
                                                       ELSE g[<<w[1], Middle(w)>>]
                      ELSE ts[w[1]].at
    <3>1. CASE w[1] + 1 < w[2]
      <4>1. /\ <<Middle(w), w[2]>> \in W /\ <<w[1], Middle(w)>> \in W
            /\ ts[Middle(w)].off <= off => r(Middle(w), w[2]) = r(w[1], w[2])
            /\ ~ (ts[Middle(w)].off <= off) => r(w[1], Middle(w)) = r(w[1], w[2])
        BY <1>2, <3>1
      <4>2. /\ g[<<Middle(w), w[2]>>] = ts[r(Middle(w), w[2])].at
            /\ g[<<w[1], Middle(w)>>] = ts[r(w[1], Middle(w))].at
        BY <1>3, <4>1
      <4> QED BY <1>3, <3>1, <4>1, <4>2
    <3>2. CASE ~ (w[1] + 1 < w[2])
      <4>1. w[2] <= w[1] + 1
        BY <3>2 DEF W
      <4> QED BY <1>3, <3>2, <4>1 DEF r
    <3> QED BY <3>1, <3>2
  <2>2. g = [w \in W |-> g[w]]
    BY DEF g
  <2> QED BY <2>1, <2>2
<1>5. search = Step(search)
  <2> HIDE DEF g, Step
  <2> QED BY <1>4
<1>6. ASSUME NEW w \in W
      PROVE  search[w] = IF w[1] + 1 < w[2]
                         THEN IF ts[Middle(w)].off <= off THEN search[<<Middle(w), w[2]>>]
                                                          ELSE search[<<w[1], Middle(w)>>]
                         ELSE ts[w[1]].at
  <2> HIDE DEF search, W, Middle
  <2> QED BY <1>5
<1> HIDE DEF search, g, Step
<1>7. \A w \in W : search[w] = ts[r(w[1], w[2])].at
  <2> DEFINE size(w) == IF w[1] < w[2] THEN w[2] - w[1] ELSE 0
             Bad == {w \in W : search[w] # ts[r(w[1], w[2])].at}
             T == {size(w) : w \in Bad}
  <2>1. SUFFICES ASSUME Bad # {} PROVE FALSE
    OBVIOUS
  <2>2. T \subseteq Nat /\ T # {}
    BY <2>1
  <2>3. PICK t \in T : \A n \in T : t <= n
    <3> HIDE DEF T
    <3> QED BY <2>2, LeastNat
  <2>4. PICK w \in Bad : t = size(w)
    OBVIOUS
  <2>5. w \in W /\ search[w] # ts[r(w[1], w[2])].at
    BY <2>4
  <2>6. \A u \in W : size(u) < size(w) => search[u] = ts[r(u[1], u[2])].at
    <3>1. ASSUME NEW u \in W, search[u] # ts[r(u[1], u[2])].at
          PROVE  size(u) \in T
      BY <3>1
    <3>2. \A n \in T : ~ (n < t)
      <4> HIDE DEF T
      <4> QED BY <2>2, <2>3
    <3> HIDE DEF T, size
    <3> QED BY <2>4, <3>1, <3>2
  <2> HIDE DEF T, Bad
  <2>7. CASE w[1] + 1 < w[2]
    <3>1. /\ <<Middle(w), w[2]>> \in W /\ <<w[1], Middle(w)>> \in W
          /\ w[1] < Middle(w) /\ Middle(w) < w[2]
          /\ ts[Middle(w)].off <= off => r(Middle(w), w[2]) = r(w[1], w[2])
          /\ ~ (ts[Middle(w)].off <= off) => r(w[1], Middle(w)) = r(w[1], w[2])
      BY <1>2, <2>5, <2>7
    <3> HIDE DEF Middle
    <3>2. size(<<Middle(w), w[2]>>) < size(w) /\ size(<<w[1], Middle(w)>>) < size(w)
      BY <2>5, <2>7, <3>1
    <3> HIDE DEF r, size, W
    <3>3. /\ search[<<Middle(w), w[2]>>] = ts[r(Middle(w), w[2])].at
          /\ search[<<w[1], Middle(w)>>] = ts[r(w[1], Middle(w))].at
      BY <2>6, <3>1, <3>2
    <3> QED BY <1>6, <2>5, <2>7, <3>1, <3>3
  <2>8. CASE ~ (w[1] + 1 < w[2])
    <3>1. w[2] <= w[1] + 1
      BY <2>5, <2>8
    <3> HIDE DEF W, Middle
    <3> QED BY <1>6, <2>5, <2>8, <3>1
  <2> QED BY <2>7, <2>8
<1>8. r(1, m + 1) = J /\ <<1, m + 1>> \in W
  OBVIOUS
<1> HIDE DEF r, W
<1> QED BY <1>1, <1>7, <1>8

\* The time an SSE event is given is that of the chunk its first byte came in,
\* although chunks were dropped, cut or lost before it.
THEOREM EventsTimed == Spec => []EventsTimedByTheirChunk
<1>1. CaptureInv => EventsTimedByTheirChunk
  <2> SUFFICES ASSUME CaptureInv, NEW d \in Dirs, NEW i \in 1..MaxBody, i <= Len(file[d])
               PROVE  LookupChunkTime(timings[d], i - 1) = file[d][i]
    BY DEF EventsTimedByTheirChunk
  <2> DEFINE ts == timings[d]
             m == Len(timings[d])
             off == i - 1
             f == Len(file[d])
  <2>1. TypeOK /\ TimesChunks(d)
    BY DEF CaptureInv, TimingsInv
  <2>2. i \in Nat /\ off \in Nat /\ i = off + 1 /\ f \in Nat /\ i <= f
    BY <2>1, CaptureAssumption, Numbers
  <2>3. m \in Nat \ {0} /\ \A j \in 1..m : ts[j].off \in Nat
    <3>1. ts \in Seq([off: 0..MaxBody, at: ChunkIds]) /\ m \in Nat
      BY <2>1, TypeFacts
    <3>2. \A j \in 1..m : ts[j] \in [off: 0..MaxBody, at: ChunkIds]
      BY <3>1, ElementOfSeq
    <3>3. m > 0
      BY <2>1, <2>2 DEF TimesChunks
    <3> QED BY <3>1, <3>2, <3>3
  <2>4. /\ ts[1].off = 0
        /\ \A j, k \in 1..m : j < k => ts[j].off < ts[k].off
        /\ \A j \in 1..m : \A n \in (ts[j].off + 1)..f :
             (j < m => n <= ts[j + 1].off) => file[d][n] = ts[j].at
    BY <2>1, <2>3 DEF TimesChunks
  <2> HIDE DEF ts, m, off, f
  \* The first entry after off, or the end.
  <2> DEFINE Later == {j \in 2..(m + 1) : j = m + 1 \/ off < ts[j].off}
  <2>5. PICK e \in Later : \A n \in Later : e <= n
    <3>1. m + 1 \in Later /\ Later \subseteq Nat
      BY <2>3
    <3> HIDE DEF Later
    <3> QED BY <3>1, LeastNat
  <2>6. e \in 2..(m + 1) /\ e - 1 \in 1..m /\ (e = m + 1 \/ off < ts[e].off)
    BY <2>3, <2>5
  <2>7. ASSUME NEW j \in 1..m
        PROVE  ts[j].off <= off <=> j <= e - 1
    <3>1. CASE j = 1
      BY <2>2, <2>4, <2>6, <3>1
    <3>2. CASE j # 1 /\ j <= e - 1
      <4>1. j \notin Later
        <5>1. ~ (e <= j)
          BY <2>6, <3>2
        <5> HIDE DEF Later
        <5> QED BY <2>5, <5>1
      <4>2. j \in 2..(m + 1) /\ j # m + 1
        BY <2>3, <3>2
      <4> QED BY <2>2, <2>3, <3>2, <4>1, <4>2
    <3>3. CASE ~ (j <= e - 1)
      <4>1. e <= j /\ e \in 1..m
        BY <2>3, <2>6, <3>3
      <4>2. off < ts[e].off /\ ts[e].off <= ts[j].off
        <5>1. e # m + 1
          BY <2>3, <4>1
        <5>2. e = j \/ e < j
          BY <4>1
        <5> QED BY <2>3, <2>4, <2>6, <4>1, <5>1, <5>2
      <4> QED BY <2>2, <2>3, <3>3, <4>1, <4>2
    <3> QED BY <3>1, <3>2, <3>3
  <2>8. LookupChunkTime(ts, off) = ts[e - 1].at
    <3>1. Len(ts) = m
      BY DEF ts, m
    <3> QED BY <2>2, <2>3, <2>6, <2>7, <3>1, SearchFinds
  <2>9. file[d][i] = ts[e - 1].at
    <3>1. i \in (ts[e - 1].off + 1)..f
      BY <2>2, <2>3, <2>6, <2>7
    <3>2. e - 1 < m => i <= ts[(e - 1) + 1].off
      <4>1. e - 1 < m => e \in 1..m /\ (e - 1) + 1 = e /\ e # m + 1
        BY <2>3, <2>6
      <4> QED BY <2>2, <2>3, <2>6, <4>1
    <3> QED BY <2>4, <2>6, <3>1, <3>2
  <2> QED BY <2>8, <2>9 DEF ts, off
<1> QED BY <1>1, CaptureInvariance, PTL
=============================================================================
