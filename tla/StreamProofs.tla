---------------------------- MODULE StreamProofs ----------------------------
(***************************************************************************)
(* Proofs about Stream: for any protocol, any number of frames, blocks and *)
(* panics, a stream that ended without an error has every frame once, each *)
(* as it should be written and in its place.                               *)
(*                                                                         *)
(* The invariant speaks of what the dispatcher has given out, whether the  *)
(* client has taken it or not (Given): every frame of it is marked as the  *)
(* frames so far call for, any two are in their order, and the text that   *)
(* is held back may still follow all of them.                              *)
(***************************************************************************)
EXTENDS Stream, SequenceTheorems, FiniteSetTheorems, TLAPS

-----------------------------------------------------------------------------
(* The inductive invariant. *)

\* What the dispatcher has given out.
Given == sent \o out

\* The frames the upstream has sent: numbered, each of a block that has begun,
\* nothing behind the end of a block or of the stream.
GotInv ==
    /\ \A i \in DOMAIN got :
        /\ got[i].n = i /\ got[i].inst <= blocks
        /\ got[i].block = IF proto = "messages" THEN got[i].inst ELSE 0
        /\ got[i].class = "stop" => InBlocks
        /\ got[i].class = "stop" /\ got[i].inst = blocks => kind = "none"
        /\ got[i].class = "terminal" => over
    /\ ~ InBlocks => kind = "none" /\ blocks = 0

\* The text got[k] is held back, and is the last of the block that is open.
Holds(k) ==
    /\ k \in DOMAIN got /\ got[k].class = "content" /\ got[k].inst = blocks
    /\ InBlocks => kind = "text"
    /\ pending = [b \in {got[k].block} |-> Marked(got[k], 1, 0)]
    /\ \A i \in DOMAIN got : i > k => got[i].class # "content"

\* Once the goroutine is done nothing is held back any more, in effect.
HeldInv == gpc # "done" => pending = NoneHeld \/ \E k \in DOMAIN got : Holds(k)

\* No text can come for the block.
Closed(b) == over \/ ended # "no" \/ b < blocks \/ (InBlocks /\ kind = "none")

\* A text of the same block has come after it.
Superseded(w) == \E i \in DOMAIN got : i > w.n /\ got[i].class = "content" /\ got[i].inst = w.inst

\* A frame that was given out is marked as it should be.
WellMarked(w) ==
    /\ w.n \in DOMAIN got /\ got[w.n].class # "done" /\ w.last \in {0, 1}
    /\ w = Marked(got[w.n], IF got[w.n].class \in {"content", "reasoning"} THEN 1 ELSE 0, w.last)
    /\ w.last = 1 => w.class = "content" /\ Closed(w.inst) /\ ~ Superseded(w)
    /\ w.class = "content" /\ w.last = 0 => Superseded(w)

\* The frame v may be written before the frame w.
Precedes(v, w) ==
    /\ v.n # w.n
    /\ w.class = "content" =>
        /\ v.class = "content" => v.n < w.n
        /\ v.class = "stop" => v.inst # w.inst
        /\ v.class # "terminal"
    /\ w.n < v.n => w.class = "content" /\ v.class \in {"reasoning", "tool", "other"}

InOrder(s) == \A i, j \in DOMAIN s : i < j => Precedes(s[i], s[j])

GivenInv ==
    /\ \A w \in ToSet(Given) : WellMarked(w)
    /\ InOrder(Given)
    /\ gpc # "done" => \A k \in DOMAIN got : Holds(k) => \A v \in ToSet(Given) : Precedes(v, got[k])

\* Every frame so far was given out, is held back, or is the scanner's own.
AllInv ==
    gpc # "done" \/ pipe = "ended" =>
        \A n \in DOMAIN got :
            \/ got[n].class = "done"
            \/ \E w \in ToSet(Given) : w.n = n
            \/ Holds(n)

PhaseInv ==
    /\ gpc = "read" => out = <<>> /\ ended = "no"
    /\ gpc # "done" /\ ended # "no" => pending = NoneHeld
    /\ pipe = "ended" => gpc = "done" /\ out = <<>> /\ ended # "no" /\ pending = NoneHeld

StreamInv == TypeOK /\ GotInv /\ HeldInv /\ GivenInv /\ AllInv /\ PhaseInv


-----------------------------------------------------------------------------
(* What is held, as a sequence. *)

\* Nothing held is the empty sequence (flushAll).
LEMMA HeldNone == Held({}) = <<>>
<1> DEFINE Fits(s) == \A i, j \in DOMAIN s : i < j => s[i] < s[j]
<1>1. Cardinality({}) = 0  BY FS_EmptySet
<1>2. <<>> \in [1..0 -> {}] /\ Fits(<<>>)  OBVIOUS
<1>3. Sorted({}) \in [1..0 -> {}]  BY <1>1, <1>2 DEF Sorted
<1>4. Len(Sorted({})) = 0  BY <1>3
<1> QED  BY <1>4 DEF Held

\* One held text is a sequence of one (flushAll, handleContentDelta).
LEMMA HeldOne == ASSUME NEW b \in Int PROVE Held({b}) = <<pending[b]>>
<1> DEFINE Fits(s) == \A i, j \in DOMAIN s : i < j => s[i] < s[j]
<1>1. Cardinality({b}) = 1  BY FS_Singleton
<1>2. <<b>> \in [1..1 -> {b}] /\ Fits(<<b>>)  OBVIOUS
<1>3. Sorted({b}) \in [1..1 -> {b}]  BY <1>1, <1>2 DEF Sorted
<1>4. Len(Sorted({b})) = 1 /\ Sorted({b})[1] = b  BY <1>3
<1> DEFINE t == Sorted({b})
<1>5. Held({b}) = [i \in 1..Len(t) |-> pending[t[i]]]  BY DEF Held
<1>6. Len(t) = 1 /\ t[1] = b  BY <1>4
<1> HIDE DEF t
<1>7. [i \in 1..1 |-> pending[t[i]]] = [i \in 1..1 |-> pending[b]]  BY <1>6
<1> QED  BY <1>5, <1>6, <1>7

-----------------------------------------------------------------------------
(* Arrivals. *)

\* What the frames are (Frames).
LEMMA FrameType ==
    ASSUME TypeOK, NEW i \in DOMAIN got
    PROVE  got[i] \in Frames /\ got[i].inst \in Nat /\ got[i].block \in Blocks /\ got[i].class \in Classes
<1>1. got \in Seq(Frames)  BY DEF TypeOK
<1>2. got[i] \in Frames  BY <1>1, ElementOfSeq
<1>3. Blocks \subseteq Nat  BY StreamAssumption DEF Blocks
<1> QED  BY <1>2, <1>3 DEF Frames

\* A frame that arrives is the next one, of the last block that has begun.
LEMMA Arrival ==
    ASSUME TypeOK, NEW f \in Coming, Arrives(f)
    PROVE  /\ f \in Frames /\ f.n = Len(got) + 1 /\ f.inst = blocks /\ f.block = WireIndex
           /\ got' = Append(got, f) /\ got' \in Seq(Frames) /\ Len(got') = Len(got) + 1
           /\ \A i \in DOMAIN got : i \in DOMAIN got' /\ got'[i] = got[i]
           /\ got'[Len(got) + 1] = f
           /\ \A i \in DOMAIN got' : i \in DOMAIN got \/ i = Len(got) + 1
           /\ DOMAIN got = 1..Len(got) /\ DOMAIN got' = 1..(Len(got) + 1)
           /\ Len(got) \in Nat
<1>1. PICK class \in Classes : f = Frame(class)  BY DEF Coming
<1>2. Len(got) \in Nat /\ Len(got) < MaxEvents /\ got' = Append(got, f)
  BY DEF TypeOK, Arrives
<1>3. blocks \in Blocks /\ WireIndex \in Blocks  BY StreamAssumption DEF TypeOK, WireIndex, Blocks
<1>4. f \in Frames /\ f.n = Len(got) + 1 /\ f.inst = blocks /\ f.block = WireIndex
  BY <1>1, <1>2, <1>3, StreamAssumption DEF Frame, Frames
<1>5. got \in Seq(Frames)  BY DEF TypeOK
<1> QED  BY <1>2, <1>4, <1>5

\* What each class of frame says of the protocol and of the blocks (Classify).
LEMMA ArrivalClass ==
    ASSUME TypeOK, GotInv, NEW f \in Coming, Arrives(f)
    PROVE  /\ ~ over /\ ended = "no" /\ UNCHANGED <<proto, ended>>
           /\ blocks' \in {blocks, blocks + 1} /\ blocks' \in Blocks
           /\ kind' \in {"none", "text", "thinking", "tool"} /\ over' \in BOOLEAN
           /\ f.class = "content" => (InBlocks => kind = "text") /\ UNCHANGED <<kind, blocks, over>>
           /\ f.class = "stop" => InBlocks /\ kind # "none" /\ kind' = "none" /\ UNCHANGED <<blocks, over>>
           /\ f.class = "terminal" => over' /\ UNCHANGED <<kind, blocks>>
           /\ f.class = "done" => proto = "chat" /\ over' /\ UNCHANGED <<kind, blocks>>
           /\ (InBlocks /\ kind = "text" /\ f.class # "stop") => UNCHANGED <<kind, blocks>>
           /\ blocks' = blocks + 1 => InBlocks /\ kind = "none"
           /\ ~ InBlocks => kind' = "none" /\ blocks' = 0
           /\ over => over'
           /\ (kind = "none" /\ kind' # "none") => blocks' = blocks + 1
<1> USE StreamAssumption DEF TypeOK, Blocks
<1>0. ~ over /\ ended = "no" /\ UNCHANGED <<proto, ended>>  BY DEF Arrives
<1>1. CASE Unclassified(f)
  <2>1. f.class = "other" /\ UNCHANGED <<kind, blocks, over>>  BY <1>1 DEF Unclassified, Frame
  <2> QED  BY <2>1, <1>0 DEF GotInv
<1>2. CASE OpensBlock(f)
  <2>1. f.class = "other" /\ UNCHANGED over /\ InBlocks /\ kind = "none" /\ blocks < MaxBlocks
        /\ kind' \in {"text", "thinking", "tool"} /\ blocks' = blocks + 1
    BY <1>2 DEF OpensBlock, Frame
  <2> QED  BY <2>1, <1>0 DEF GotInv
<1>3. CASE Delta(f)
  <2>1. UNCHANGED <<kind, blocks, over>>  BY <1>3 DEF Delta
  <2>2. CASE InBlocks
    <3>1. kind # "none" /\ f.class = ClassOfKind(kind)  BY <1>3, <2>2 DEF Delta, Frame
    <3>2. f.class \in {"content", "reasoning", "tool"} /\ (f.class = "content" => kind = "text")
      BY <3>1 DEF ClassOfKind
    <3> QED  BY <2>1, <2>2, <3>2, <1>0 DEF GotInv
  <2>3. CASE ~ InBlocks
    <3>1. f.class \in {"content", "tool"}  BY <1>3, <2>3 DEF Delta, Frame
    <3> QED  BY <2>1, <2>3, <3>1, <1>0 DEF GotInv
  <2> QED  BY <2>2, <2>3
<1>4. CASE StopsBlock(f)
  <2>1. UNCHANGED <<blocks, over>> /\ InBlocks /\ kind # "none" /\ kind' = "none" /\ f.class = StopClass
    BY <1>4 DEF StopsBlock, Frame
  <2>2. f.class \in {"stop", "other"} /\ (kind = "text" => f.class = "stop")  BY <2>1 DEF StopClass
  <2> QED  BY <2>1, <2>2, <1>0 DEF GotInv
<1>5. CASE Terminates(f)
  <2>1. UNCHANGED <<kind, blocks>> /\ over' = TRUE /\ f.class \in {"terminal", "done"}
        /\ (f.class = "done" => proto = "chat")
    BY <1>5 DEF Terminates, Frame
  <2>2. over' \in BOOLEAN /\ over'  BY <2>1
  <2>3. f.class # "content" /\ f.class # "stop"  BY <2>1
  <2>4. kind' = kind /\ blocks' = blocks  BY <2>1
  <2>5. kind' \in {"none", "text", "thinking", "tool"} /\ blocks' \in Blocks /\ blocks' \in {blocks, blocks + 1}
    BY <2>4
  <2>6. ~ InBlocks => kind' = "none" /\ blocks' = 0  BY <2>4 DEF GotInv
  <2>7. blocks' # blocks + 1  BY <2>4
  <2> HIDE DEF TypeOK, Blocks
  <2> QED  BY <2>1, <2>2, <2>3, <2>4, <2>5, <2>6, <2>7, <1>0
<1> QED  BY <1>1, <1>2, <1>3, <1>4, <1>5 DEF Arrives

\* The frames stay numbered, and in their blocks (Classify).
LEMMA GotStep ==
    ASSUME TypeOK, GotInv, NEW f \in Coming, Arrives(f)
    PROVE  GotInv'
<1> USE StreamAssumption
<1>0. blocks \in Nat /\ blocks' \in Nat  BY ArrivalClass DEF TypeOK, Blocks
<1>1. InBlocks' = InBlocks  BY ArrivalClass DEF InBlocks
<1>2. ASSUME NEW i \in DOMAIN got, got[i].class = "stop", got[i].inst = blocks' PROVE kind' = "none"
  <2>1. got[i].inst <= blocks /\ (got[i].inst = blocks => kind = "none")  BY <1>2 DEF GotInv
  <2>2. got[i].inst \in Nat  BY FrameType
  <2>3. blocks' = blocks /\ kind = "none"  BY <1>0, <1>2, <2>1, <2>2, ArrivalClass
  <2> QED  BY <2>3, <1>0, ArrivalClass
<1>3. ASSUME NEW i \in DOMAIN got
      PROVE  /\ got[i].n = i /\ got[i].inst <= blocks'
             /\ got[i].block = IF proto' = "messages" THEN got[i].inst ELSE 0
             /\ got[i].class = "stop" => InBlocks'
             /\ got[i].class = "terminal" => over'
  <2>1. got[i].inst \in Nat  BY FrameType
  <2>2. blocks <= blocks'  BY <1>0, ArrivalClass
  <2>3. proto' = proto /\ (over => over')  BY ArrivalClass
  <2> QED  BY <1>0, <1>1, <2>1, <2>2, <2>3 DEF GotInv
<1>4. /\ f.n = Len(got) + 1 /\ f.inst <= blocks'
      /\ f.block = IF proto' = "messages" THEN f.inst ELSE 0
      /\ f.class = "stop" => InBlocks' /\ kind' = "none"
      /\ f.class = "terminal" => over'
  BY <1>0, <1>1, Arrival, ArrivalClass DEF WireIndex
<1>5. ~ InBlocks' => kind' = "none" /\ blocks' = 0  BY <1>1, ArrivalClass
<1>6. \A i \in DOMAIN got' :
        /\ got'[i].n = i /\ got'[i].inst <= blocks'
        /\ got'[i].block = IF proto' = "messages" THEN got'[i].inst ELSE 0
        /\ got'[i].class = "stop" => InBlocks'
        /\ got'[i].class = "stop" /\ got'[i].inst = blocks' => kind' = "none"
        /\ got'[i].class = "terminal" => over'
  BY <1>2, <1>3, <1>4, Arrival
<1> QED  BY <1>5, <1>6 DEF GotInv

\* A frame that was well marked stays so: no text can come for a block whose last
\* text has been marked (handleContentBlockStop, flushAll).
LEMMA MarkedStays ==
    ASSUME TypeOK, GotInv, NEW f \in Coming, Arrives(f), NEW w, WellMarked(w)
    PROVE  WellMarked(w)'
<1>1. w.n \in DOMAIN got /\ w.n \in DOMAIN got' /\ got'[w.n] = got[w.n] /\ w.n <= Len(got)
  BY Arrival DEF WellMarked
<1>2. w.inst = got[w.n].inst /\ w.class = got[w.n].class  BY DEF WellMarked, Marked
<1>3. w.inst \in Nat /\ w.inst <= blocks  BY <1>1, <1>2, FrameType DEF GotInv
<1>4. blocks \in Nat /\ blocks' \in Nat  BY ArrivalClass, StreamAssumption DEF TypeOK, Blocks
<1>5. InBlocks' = InBlocks  BY ArrivalClass DEF InBlocks
<1>6. ASSUME Closed(w.inst) PROVE Closed(w.inst)'
  <2>1. w.inst < blocks \/ (InBlocks /\ kind = "none")  BY <1>6, ArrivalClass DEF Closed
  <2>2. CASE w.inst < blocks
    <3>1. w.inst < blocks'  BY <1>3, <1>4, <2>2, ArrivalClass
    <3> QED  BY <3>1 DEF Closed
  <2>3. CASE InBlocks /\ kind = "none"
    <3>1. CASE kind' = "none"  BY <1>5, <2>3, <3>1 DEF Closed
    <3>2. CASE kind' # "none"
      <4>1. blocks' = blocks + 1  BY <2>3, <3>2, ArrivalClass
      <4>2. w.inst < blocks'  BY <1>3, <1>4, <4>1
      <4> QED  BY <4>2 DEF Closed
    <3> QED  BY <3>1, <3>2
  <2> QED  BY <2>1, <2>2, <2>3
<1>7. ASSUME Closed(w.inst), f.class = "content", f.inst = w.inst PROVE FALSE
  <2>1. f.inst = blocks  BY Arrival
  <2>2. ~ over /\ ended = "no" /\ (InBlocks => kind = "text")  BY <1>7, ArrivalClass
  <2>3. ~ (w.inst < blocks)  BY <1>3, <1>4, <1>7, <2>1
  <2> QED  BY <1>7, <2>2, <2>3 DEF Closed
<1>8. Superseded(w) => Superseded(w)'  BY Arrival DEF Superseded
<1>9. ASSUME Closed(w.inst), ~ Superseded(w), NEW i \in DOMAIN got', i > w.n,
             got'[i].class = "content", got'[i].inst = w.inst
      PROVE  FALSE
  <2>1. CASE i \in DOMAIN got  BY <1>9, <2>1, Arrival DEF Superseded
  <2>2. CASE i = Len(got) + 1  BY <1>7, <1>9, <2>2, Arrival
  <2> QED  BY <2>1, <2>2, Arrival
<1>10. Closed(w.inst) /\ ~ Superseded(w) => ~ Superseded(w)'  BY <1>9 DEF Superseded
<1>11. /\ w.last = 1 => w.class = "content" /\ Closed(w.inst)' /\ ~ Superseded(w)'
       /\ w.class = "content" /\ w.last = 0 => Superseded(w)'
  BY <1>6, <1>8, <1>10 DEF WellMarked
<1>12. /\ w.last \in {0, 1} /\ got[w.n].class # "done"
       /\ w = Marked(got[w.n], IF got[w.n].class \in {"content", "reasoning"} THEN 1 ELSE 0, w.last)
  BY DEF WellMarked
<1> QED  BY <1>1, <1>11, <1>12 DEF WellMarked

\* The frame itself is marked as its class asks for (Process).
LEMMA NewMarked ==
    ASSUME TypeOK, GotInv, NEW f \in Coming, Arrives(f), f.class \notin {"content", "done"}
    PROVE  WellMarked(Marked(f, IF f.class = "reasoning" THEN 1 ELSE 0, 0))'
<1> DEFINE w == Marked(f, IF f.class = "reasoning" THEN 1 ELSE 0, 0)
<1>1. w.n = Len(got) + 1 /\ w.last = 0 /\ w.class = f.class  BY Arrival DEF Marked
<1>2. w.n \in DOMAIN got' /\ got'[w.n] = f  BY <1>1, Arrival
<1>3. w = Marked(got'[w.n], IF got'[w.n].class \in {"content", "reasoning"} THEN 1 ELSE 0, w.last)
  BY <1>1, <1>2
<1> QED  BY <1>1, <1>2, <1>3 DEF WellMarked

\* A text that is held back and followed by another was not the last one (handleContentDelta).
LEMMA FollowedMarked ==
    ASSUME TypeOK, GotInv, NEW f \in Coming, Arrives(f), f.class = "content",
           NEW k \in DOMAIN got, Holds(k), NEW w, w = Marked(got[k], 1, 0)
    PROVE  WellMarked(w)'
<1>1. got[k].n = k /\ got[k].class = "content" /\ got[k].inst = blocks  BY DEF GotInv, Holds
<1>2. w.n = k /\ w.last = 0 /\ w.class = "content" /\ w.inst = blocks  BY <1>1 DEF Marked
<1>3. k \in DOMAIN got' /\ got'[k] = got[k]  BY Arrival
<1>4. Len(got) + 1 \in DOMAIN got' /\ Len(got) + 1 > w.n /\ got'[Len(got) + 1] = f /\ f.inst = w.inst
  BY <1>2, Arrival
<1>5. Superseded(w)'  BY <1>4 DEF Superseded
<1>6. w = Marked(got'[w.n], IF got'[w.n].class \in {"content", "reasoning"} THEN 1 ELSE 0, w.last)
  BY <1>1, <1>2, <1>3
<1> QED  BY <1>1, <1>2, <1>3, <1>5, <1>6 DEF WellMarked

\* One that is held back at the end of its block or of the stream was (applyLastTextDelta).
LEMMA LastMarked ==
    ASSUME TypeOK, GotInv, NEW f \in Coming, Arrives(f), f.class \in {"stop", "terminal"},
           NEW k \in DOMAIN got, Holds(k), NEW w, w = Marked(got[k], 1, 1)
    PROVE  WellMarked(w)'
<1>1. got[k].n = k /\ got[k].class = "content" /\ got[k].inst = blocks  BY DEF GotInv, Holds
<1>2. w.n = k /\ w.last = 1 /\ w.class = "content" /\ w.inst = blocks  BY <1>1 DEF Marked
<1>3. k \in DOMAIN got' /\ got'[k] = got[k]  BY Arrival
<1>4. Closed(blocks)'
  <2>1. CASE f.class = "stop"
    <3>1. InBlocks /\ kind' = "none"  BY <2>1, ArrivalClass
    <3>2. InBlocks'  BY <3>1, ArrivalClass DEF InBlocks
    <3> QED  BY <3>1, <3>2 DEF Closed
  <2>2. CASE f.class = "terminal"  BY <2>2, ArrivalClass DEF Closed
  <2> QED  BY <2>1, <2>2
<1>5. blocks' = blocks  BY ArrivalClass
<1>6. Closed(w.inst)'
  <2>1. \/ over' \/ ended' # "no" \/ blocks' < blocks' \/ (InBlocks' /\ kind' = "none")  BY <1>4 DEF Closed
  <2>2. \/ over' \/ ended' # "no" \/ w.inst < blocks' \/ (InBlocks' /\ kind' = "none")  BY <1>2, <1>5, <2>1
  <2> QED  BY <2>2 DEF Closed
<1>7. ASSUME NEW i \in DOMAIN got', i > w.n, got'[i].class = "content" PROVE FALSE
  <2>1. CASE i \in DOMAIN got  BY <1>2, <1>7, <2>1, Arrival DEF Holds
  <2>2. CASE i = Len(got) + 1  BY <1>7, <2>2, Arrival
  <2> QED  BY <2>1, <2>2, Arrival
<1>8. ~ Superseded(w)'  BY <1>7 DEF Superseded
<1>9. w = Marked(got'[w.n], IF got'[w.n].class \in {"content", "reasoning"} THEN 1 ELSE 0, w.last)
  BY <1>1, <1>2, <1>3
<1> QED  BY <1>1, <1>2, <1>3, <1>6, <1>8, <1>9 DEF WellMarked

-----------------------------------------------------------------------------
(* What the dispatcher makes of a frame. *)

\* The text it holds is of the block the frame is of (WireIndex).
LEMMA SameBlock ==
    ASSUME TypeOK, GotInv, NEW f \in Coming, Arrives(f), NEW k \in DOMAIN got, Holds(k)
    PROVE  /\ f.block = got[k].block /\ f.block \in Int
           /\ DOMAIN pending = {f.block} /\ pending[f.block] = Marked(got[k], 1, 0)
           /\ Held(DOMAIN pending) = <<Marked(got[k], 1, 0)>>
           /\ Own(f.block) = <<Marked(got[k], 1, 0)>> /\ Others(f.block) = <<>>
<1>1. got[k].inst = blocks /\ got[k].block = IF proto = "messages" THEN got[k].inst ELSE 0
  BY DEF GotInv, Holds
<1>2. f.block = got[k].block  BY <1>1, Arrival DEF WireIndex
<1>3. f.block \in Int  BY <1>2, FrameType, StreamAssumption DEF Blocks
<1>4. pending = [b \in {f.block} |-> Marked(got[k], 1, 0)]  BY <1>2 DEF Holds
<1>5. DOMAIN pending = {f.block} /\ pending[f.block] = Marked(got[k], 1, 0)  BY <1>4
<1>6. Held({f.block}) = <<Marked(got[k], 1, 0)>>  BY <1>3, <1>5, HeldOne
<1>7. {f.block} \ {f.block} = {} /\ {f.block} \cap {f.block} = {f.block}  OBVIOUS
<1>8. Own(f.block) = Held({f.block}) /\ Others(f.block) = Held({})  BY <1>5, <1>7 DEF Own, Others
<1> QED  BY <1>2, <1>3, <1>5, <1>6, <1>8, HeldNone

\* With nothing held there is nothing of any block.
LEMMA NoBlock ==
    ASSUME pending = NoneHeld
    PROVE  Held(DOMAIN pending) = <<>> /\ \A b : Own(b) = <<>> /\ Others(b) = <<>>
<1>1. DOMAIN pending = {}  BY DEF NoneHeld
<1>2. \A b : {} \ {b} = {} /\ {} \cap {b} = {}  OBVIOUS
<1> QED  BY <1>1, <1>2, HeldNone DEF Own, Others

\* The end of the stream makes a last text of what is held (flushAll).
LEMMA Flushes ==
    /\ pending = NoneHeld => FlushAll = <<>>
    /\ \A k \in DOMAIN got : TypeOK /\ Holds(k) => FlushAll = <<Marked(got[k], 1, 1)>>
<1>1. ASSUME pending = NoneHeld PROVE FlushAll = <<>>
  <2>1. Held(DOMAIN pending) = <<>>  BY <1>1, NoBlock
  <2> QED  BY <2>1 DEF FlushAll
<1>2. ASSUME NEW k \in DOMAIN got, TypeOK, Holds(k) PROVE FlushAll = <<Marked(got[k], 1, 1)>>
  <2> DEFINE h == Marked(got[k], 1, 0)
  <2>1. got[k].block \in Int  BY <1>2, FrameType, StreamAssumption DEF Blocks
  <2>2. DOMAIN pending = {got[k].block} /\ pending[got[k].block] = h  BY <1>2 DEF Holds
  <2>3. Held(DOMAIN pending) = <<h>>  BY <2>1, <2>2, HeldOne
  <2>4. ApplyLast(h) = Marked(got[k], 1, 1)  BY DEF ApplyLast, Marked
  <2> HIDE DEF h
  <2>5. FlushAll = [i \in DOMAIN <<h>> |-> ApplyLast(<<h>>[i])]  BY <2>3 DEF FlushAll
  <2>6. [i \in DOMAIN <<h>> |-> ApplyLast(<<h>>[i])] = [i \in 1..1 |-> ApplyLast(h)]  OBVIOUS
  <2>7. [i \in 1..1 |-> ApplyLast(h)] = <<ApplyLast(h)>>  OBVIOUS
  <2> QED  BY <2>4, <2>5, <2>6, <2>7
<1> QED  BY <1>1, <1>2

\* Two sequences of one make a sequence of two.
LEMMA PairConcat ==
    ASSUME NEW a, NEW b
    PROVE  <<a>> \o <<b>> = <<a, b>> /\ <<>> \o <<a>> = <<a>>
<1>1. <<a>> \in Seq({a, b}) /\ <<b>> \in Seq({a, b}) /\ <<a, b>> \in Seq({a, b})  OBVIOUS
<1> DEFINE s == <<a>> \o <<b>>
<1>2. s \in Seq({a, b}) /\ Len(s) = 2 /\ s[1] = a /\ s[2] = b  BY <1>1
<1>3. Len(<<a, b>>) = 2 /\ <<a, b>>[1] = a /\ <<a, b>>[2] = b  OBVIOUS
<1> HIDE DEF s
<1>4. Len(s) = Len(<<a, b>>) /\ \A i \in 1..Len(s) : s[i] = <<a, b>>[i]
  <2>1. \A i \in 1..2 : i = 1 \/ i = 2  OBVIOUS
  <2> QED  BY <1>2, <1>3, <2>1
<1>5. s = <<a, b>>  BY <1>1, <1>2, <1>4, SeqEqual
<1> QED  BY <1>5 DEF s

\* With nothing held back a text is held, the end of the stream's frames is the
\* scanner's, and any other frame goes out (Process).
LEMMA DispatchFree ==
    ASSUME TypeOK, GotInv, NEW f \in Coming, Arrives(f), Process(f), pending = NoneHeld
    PROVE  /\ f.class = "content" => out' = <<>> /\ pending' = [b \in {f.block} |-> Marked(f, 1, 0)]
           /\ f.class = "done" => out' = <<>> /\ pending' = NoneHeld
           /\ f.class \notin {"content", "done"} =>
                out' = <<Marked(f, IF f.class = "reasoning" THEN 1 ELSE 0, 0)>> /\ pending' = NoneHeld
<1>1. CASE f.class = "content" /\ HandleContentDelta(f)
  <2>1. out' = <<>> \o <<>> /\ pending' = [b \in {f.block} |-> Marked(f, 1, 0)]
    BY <1>1, NoBlock DEF HandleContentDelta
  <2> QED  BY <1>1, <2>1
<1>2. CASE f.class = "stop" /\ HandleContentBlockStop(f)
  <2>1. Own(f.block) = <<>> /\ Others(f.block) = <<>>  BY NoBlock
  <2>2. out' = <<>> \o [i \in DOMAIN <<>> |-> ApplyLast(<<>>[i])] \o <<Raw(f)>> /\ pending' = NoneHeld
    BY <1>2, <2>1 DEF HandleContentBlockStop
  <2>3. [i \in DOMAIN <<>> |-> ApplyLast(<<>>[i])] = <<>>  OBVIOUS
  <2>4. <<>> \o <<>> \o <<Raw(f)>> = <<Raw(f)>>  OBVIOUS
  <2> QED  BY <1>2, <2>2, <2>3, <2>4 DEF Raw
<1>3. CASE f.class = "terminal" /\ HandleTerminal(f)
  <2>1. out' = <<>> \o <<Raw(f)>> /\ pending' = NoneHeld  BY <1>3, Flushes DEF HandleTerminal
  <2>2. <<>> \o <<Raw(f)>> = <<Raw(f)>>  OBVIOUS
  <2> QED  BY <1>3, <2>1, <2>2 DEF Raw
<1>4. CASE f.class \in {"reasoning", "tool", "other"} /\ PassesOn(f)  BY <1>4 DEF PassesOn
<1>5. CASE f.class = "done" /\ out' = <<>> /\ UNCHANGED pending  BY <1>5
<1> QED  BY <1>1, <1>2, <1>3, <1>4, <1>5 DEF Process

\* With a text held back, the next text lets it go, the end of its block or of the
\* stream makes it the last, and any other frame passes it (Process).
LEMMA DispatchHeld ==
    ASSUME TypeOK, GotInv, NEW f \in Coming, Arrives(f), Process(f), NEW k \in DOMAIN got, Holds(k)
    PROVE  /\ f.class = "content" =>
                out' = <<Marked(got[k], 1, 0)>> /\ pending' = [b \in {f.block} |-> Marked(f, 1, 0)]
           /\ f.class \in {"stop", "terminal"} =>
                out' = <<Marked(got[k], 1, 1), Marked(f, 0, 0)>> /\ pending' = NoneHeld
           /\ f.class = "done" => out' = <<>> /\ pending' = pending
           /\ f.class \in {"reasoning", "tool", "other"} =>
                out' = <<Marked(f, IF f.class = "reasoning" THEN 1 ELSE 0, 0)>> /\ pending' = pending
<1> DEFINE h == Marked(got[k], 1, 0)
<1>0. Own(f.block) = <<h>> /\ Others(f.block) = <<>>  BY SameBlock
<1>a. ApplyLast(h) = Marked(got[k], 1, 1)  BY DEF ApplyLast, Marked
<1> HIDE DEF h
<1>1. CASE f.class = "content" /\ HandleContentDelta(f)
  <2>1. out' = <<>> \o <<h>> /\ pending' = [b \in {f.block} |-> Marked(f, 1, 0)]
    BY <1>0, <1>1 DEF HandleContentDelta
  <2>2. <<>> \o <<h>> = <<h>>  OBVIOUS
  <2> QED  BY <1>1, <2>1, <2>2 DEF h
<1>2. CASE f.class = "stop" /\ HandleContentBlockStop(f)
  <2>1. out' = <<>> \o [i \in DOMAIN <<h>> |-> ApplyLast(<<h>>[i])] \o <<Raw(f)>> /\ pending' = NoneHeld
    BY <1>0, <1>2 DEF HandleContentBlockStop
  <2>2. [i \in DOMAIN <<h>> |-> ApplyLast(<<h>>[i])] = [i \in 1..1 |-> ApplyLast(h)]  OBVIOUS
  <2>3. [i \in 1..1 |-> ApplyLast(h)] = <<ApplyLast(h)>>  OBVIOUS
  <2>4. <<>> \o <<ApplyLast(h)>> \o <<Raw(f)>> = <<ApplyLast(h), Raw(f)>>  BY PairConcat
  <2> QED  BY <1>a, <1>2, <2>1, <2>2, <2>3, <2>4 DEF Raw
<1>3. CASE f.class = "terminal" /\ HandleTerminal(f)
  <2>1. out' = <<Marked(got[k], 1, 1)>> \o <<Raw(f)>> /\ pending' = NoneHeld
    BY <1>3, Flushes DEF HandleTerminal
  <2>2. <<Marked(got[k], 1, 1)>> \o <<Raw(f)>> = <<Marked(got[k], 1, 1), Raw(f)>>  BY PairConcat
  <2> QED  BY <1>3, <2>1, <2>2 DEF Raw
<1>4. CASE f.class \in {"reasoning", "tool", "other"} /\ PassesOn(f)  BY <1>4 DEF PassesOn
<1>5. CASE f.class = "done" /\ out' = <<>> /\ UNCHANGED pending  BY <1>5
<1> QED  BY <1>1, <1>2, <1>3, <1>4, <1>5 DEF Process

-----------------------------------------------------------------------------
(* The order of what is given out. *)

\* The elements of a sequence that grows at its end.
LEMMA ConcatSet ==
    ASSUME NEW S, NEW s \in Seq(S), NEW t \in Seq(S)
    PROVE  ToSet(s \o t) = ToSet(s) \cup ToSet(t)
<1>1. /\ s \o t \in Seq(S) /\ Len(s \o t) = Len(s) + Len(t)
      /\ \A i \in 1..Len(s) + Len(t) : (s \o t)[i] = IF i <= Len(s) THEN s[i] ELSE t[i - Len(s)]
      /\ Len(s) \in Nat /\ Len(t) \in Nat
      /\ DOMAIN s = 1..Len(s) /\ DOMAIN t = 1..Len(t) /\ DOMAIN (s \o t) = 1..Len(s) + Len(t)
  OBVIOUS
<1>2. ASSUME NEW i \in DOMAIN (s \o t) PROVE (s \o t)[i] \in ToSet(s) \cup ToSet(t)
  <2>1. CASE i <= Len(s)
    <3>1. i \in DOMAIN s /\ (s \o t)[i] = s[i]  BY <1>1, <2>1
    <3> QED  BY <3>1 DEF ToSet
  <2>2. CASE ~ (i <= Len(s))
    <3>1. i - Len(s) \in DOMAIN t /\ (s \o t)[i] = t[i - Len(s)]  BY <1>1, <2>2
    <3> QED  BY <3>1 DEF ToSet
  <2> QED  BY <2>1, <2>2
<1>3. ASSUME NEW i \in DOMAIN s PROVE s[i] \in ToSet(s \o t)
  <2>1. i \in DOMAIN (s \o t) /\ (s \o t)[i] = s[i]  BY <1>1
  <2> QED  BY <2>1 DEF ToSet
<1>4. ASSUME NEW i \in DOMAIN t PROVE t[i] \in ToSet(s \o t)
  <2>1. Len(s) + i \in DOMAIN (s \o t) /\ (s \o t)[Len(s) + i] = t[i]  BY <1>1
  <2> QED  BY <2>1 DEF ToSet
<1>5. ToSet(s \o t) \subseteq ToSet(s) \cup ToSet(t)  BY <1>2 DEF ToSet
<1>6. ToSet(s) \subseteq ToSet(s \o t) /\ ToSet(t) \subseteq ToSet(s \o t)
  <2>1. \A x \in ToSet(s) : x \in ToSet(s \o t)
    <3> TAKE x \in ToSet(s)
    <3>1. PICK i \in DOMAIN s : x = s[i]  BY DEF ToSet
    <3> QED  BY <1>3, <3>1
  <2>2. \A x \in ToSet(t) : x \in ToSet(s \o t)
    <3> TAKE x \in ToSet(t)
    <3>1. PICK i \in DOMAIN t : x = t[i]  BY DEF ToSet
    <3> QED  BY <1>4, <3>1
  <2> QED  BY <2>1, <2>2
<1> QED  BY <1>5, <1>6

\* Two sequences in order make one, when all of the first may precede all of the second.
LEMMA ConcatOrder ==
    ASSUME NEW S, NEW s \in Seq(S), NEW t \in Seq(S), InOrder(s), InOrder(t),
           \A v \in ToSet(s), w \in ToSet(t) : Precedes(v, w)
    PROVE  InOrder(s \o t)
<1>1. /\ \A i \in 1..Len(s) + Len(t) : (s \o t)[i] = IF i <= Len(s) THEN s[i] ELSE t[i - Len(s)]
      /\ Len(s) \in Nat /\ Len(t) \in Nat
      /\ DOMAIN s = 1..Len(s) /\ DOMAIN t = 1..Len(t) /\ DOMAIN (s \o t) = 1..Len(s) + Len(t)
  OBVIOUS
<1>2. ASSUME NEW i \in DOMAIN (s \o t), NEW j \in DOMAIN (s \o t), i < j
      PROVE  Precedes((s \o t)[i], (s \o t)[j])
  <2>0. i \in Int /\ j \in Int  BY <1>1
  <2>1. CASE j <= Len(s)
    <3>1. i \in DOMAIN s /\ j \in DOMAIN s /\ (s \o t)[i] = s[i] /\ (s \o t)[j] = s[j]
      BY <1>1, <1>2, <2>0, <2>1
    <3> QED  BY <1>2, <3>1 DEF InOrder
  <2>2. CASE i <= Len(s) /\ ~ (j <= Len(s))
    <3>1. i \in DOMAIN s /\ j - Len(s) \in DOMAIN t /\ (s \o t)[i] = s[i] /\ (s \o t)[j] = t[j - Len(s)]
      BY <1>1, <1>2, <2>0, <2>2
    <3>2. s[i] \in ToSet(s) /\ t[j - Len(s)] \in ToSet(t)  BY <3>1 DEF ToSet
    <3> QED  BY <3>1, <3>2
  <2>3. CASE ~ (i <= Len(s))
    <3>1. /\ i - Len(s) \in DOMAIN t /\ j - Len(s) \in DOMAIN t /\ i - Len(s) < j - Len(s)
          /\ (s \o t)[i] = t[i - Len(s)] /\ (s \o t)[j] = t[j - Len(s)]
      BY <1>1, <1>2, <2>0, <2>3
    <3> QED  BY <3>1 DEF InOrder
  <2> QED  BY <1>1, <1>2, <2>0, <2>1, <2>2, <2>3
<1> QED  BY <1>2 DEF InOrder

\* Short sequences.
LEMMA ShortSeqs ==
    /\ ToSet(<<>>) = {} /\ InOrder(<<>>)
    /\ \A a : ToSet(<<a>>) = {a} /\ InOrder(<<a>>)
    /\ \A a, b : ToSet(<<a, b>>) = {a, b} /\ (Precedes(a, b) => InOrder(<<a, b>>))
<1>1. ToSet(<<>>) = {} /\ InOrder(<<>>)  BY DEF ToSet, InOrder
<1>2. ASSUME NEW a PROVE ToSet(<<a>>) = {a} /\ InOrder(<<a>>)
  <2>1. DOMAIN <<a>> = 1..1 /\ <<a>>[1] = a  OBVIOUS
  <2>2. \A i \in 1..1 : i = 1  OBVIOUS
  <2>3. 1 \in 1..1  OBVIOUS
  <2>4. ToSet(<<a>>) = {a}  BY <2>1, <2>2, <2>3 DEF ToSet
  <2>5. \A i, j \in 1..1 : ~ (i < j)  OBVIOUS
  <2> QED  BY <2>1, <2>4, <2>5 DEF InOrder
<1>3. ASSUME NEW a, NEW b PROVE ToSet(<<a, b>>) = {a, b} /\ (Precedes(a, b) => InOrder(<<a, b>>))
  <2>1. DOMAIN <<a, b>> = 1..2 /\ <<a, b>>[1] = a /\ <<a, b>>[2] = b  OBVIOUS
  <2>2. \A i \in 1..2 : i = 1 \/ i = 2  OBVIOUS
  <2>3. 1 \in 1..2 /\ 2 \in 1..2  OBVIOUS
  <2>4. ToSet(<<a, b>>) = {a, b}  BY <2>1, <2>2, <2>3 DEF ToSet
  <2>5. \A i, j \in 1..2 : i < j => i = 1 /\ j = 2  OBVIOUS
  <2> QED  BY <2>1, <2>4, <2>5 DEF InOrder
<1> QED  BY <1>1, <1>2, <1>3

\* A frame that arrives may follow all that was given out before.
LEMMA NewFollows ==
    ASSUME TypeOK, GotInv, NEW f \in Coming, Arrives(f), NEW v, WellMarked(v),
           NEW d \in {0, 1}, NEW l \in {0, 1}
    PROVE  Precedes(v, f) /\ Precedes(v, Marked(f, d, l))
<1>1. v.n \in DOMAIN got /\ v.inst = got[v.n].inst /\ v.class = got[v.n].class /\ got[v.n].n = v.n
  BY DEF WellMarked, Marked, GotInv
<1>2. v.n \in Nat /\ v.n <= Len(got) /\ f.n = Len(got) + 1 /\ f.inst = blocks  BY <1>1, Arrival
<1>3. v.n # f.n /\ v.n < f.n /\ ~ (f.n < v.n)  BY <1>1, <1>2, Arrival
<1>4. v.class # "terminal"  BY <1>1, ArrivalClass DEF GotInv
<1>5. f.class = "content" /\ v.class = "stop" => v.inst # f.inst  BY <1>1, <1>2, ArrivalClass DEF GotInv
<1>6. Precedes(v, f)  BY <1>3, <1>4, <1>5 DEF Precedes
<1> QED  BY <1>6 DEF Precedes, Marked

\* One text at most is held back.
LEMMA HoldsOne ==
    ASSUME TypeOK, NEW k \in DOMAIN got, Holds(k)
    PROVE  pending # NoneHeld /\ \A l \in DOMAIN got : Holds(l) => l = k
<1>1. DOMAIN pending = {got[k].block}  BY DEF Holds
<1>2. pending # NoneHeld  BY <1>1 DEF NoneHeld
<1>3. DOMAIN got \subseteq Int  BY DEF TypeOK
<1>4. \A l \in DOMAIN got : Holds(l) => ~ (l > k) /\ ~ (k > l)  BY DEF Holds
<1> QED  BY <1>2, <1>3, <1>4

-----------------------------------------------------------------------------
(* A frame is processed. *)

\* What is written is a frame with its marks.
LEMMA MarkedType ==
    ASSUME NEW f \in Frames, NEW d \in {0, 1}, NEW l \in {0, 1}
    PROVE  Marked(f, d, l) \in Written /\ Marked(f, d, l).n = f.n
<1>1. d \in 0..1 /\ l \in 0..1  OBVIOUS
<1> QED  BY <1>1 DEF Marked, Written, Frames

\* What is given out grows at its end by what is put into out.
LEMMA GivenGrows ==
    ASSUME TypeOK, GivenInv, out = <<>>, sent' = sent, out' \in Seq(Written), InOrder(out'),
           \A w \in ToSet(Given) : WellMarked(w)',
           \A w \in ToSet(out') : WellMarked(w)',
           \A v \in ToSet(Given), w \in ToSet(out') : Precedes(v, w)
    PROVE  /\ ToSet(Given') = ToSet(Given) \cup ToSet(out')
           /\ \A w \in ToSet(Given') : WellMarked(w)'
           /\ InOrder(Given')
<1>1. sent \in Seq(Written)  BY DEF TypeOK
<1>2. Given = sent  BY <1>1 DEF Given
<1>3. Given \in Seq(Written)  BY <1>1, <1>2
<1>4. Given' = Given \o out'  BY <1>2 DEF Given
<1>5. ToSet(Given \o out') = ToSet(Given) \cup ToSet(out')  BY <1>3, ConcatSet
<1>6. InOrder(Given)  BY DEF GivenInv
<1>7. InOrder(Given \o out')  BY <1>3, <1>6, ConcatOrder
<1> QED  BY <1>4, <1>5, <1>7

\* With nothing held back.
LEMMA ScanFree ==
    ASSUME StreamInv, NEW f \in Coming, gpc = "read", Arrives(f), Process(f), sent' = sent, pending = NoneHeld
    PROVE  /\ out' \in Seq(Written)
           /\ DOMAIN pending' \subseteq Blocks /\ \A b \in DOMAIN pending' : pending'[b] \in Written
           /\ (HeldInv /\ GivenInv)'
           /\ \A n \in DOMAIN got' : got'[n].class = "done" \/ (\E w \in ToSet(Given') : w.n = n) \/ Holds(n)'
<1> DEFINE e == Marked(f, IF f.class = "reasoning" THEN 1 ELSE 0, 0)
<1>m. PICK m : m = Len(got) + 1  OBVIOUS
<1>0. TypeOK /\ GotInv /\ HeldInv /\ GivenInv /\ AllInv /\ PhaseInv  BY DEF StreamInv
<1>1. out = <<>>  BY <1>0 DEF PhaseInv
<1>2. \A w \in ToSet(Given) : WellMarked(w)'  BY <1>0, MarkedStays DEF GivenInv
<1>3. f \in Frames /\ f.n = m /\ m \in DOMAIN got' /\ got'[m] = f  BY <1>m, <1>0, Arrival
<1>4. GotInv'  BY <1>0, GotStep
<1>5. \A n \in DOMAIN got : got[n].class = "done" \/ (\E w \in ToSet(Given) : w.n = n)
  BY <1>0, HoldsOne DEF AllInv
<1>6. CASE f.class = "content"
  <2>1. out' = <<>> /\ pending' = [b \in {f.block} |-> Marked(f, 1, 0)]  BY <1>0, <1>6, DispatchFree
  <2>2. out' \in Seq(Written) /\ InOrder(out') /\ ToSet(out') = {}  BY <2>1, ShortSeqs
  <2>3. ToSet(Given') = ToSet(Given) /\ (\A w \in ToSet(Given') : WellMarked(w)') /\ InOrder(Given')
    BY <1>0, <1>1, <1>2, <2>2, GivenGrows
  <2>4. Holds(m)'
    <3>1. got'[m].inst = blocks' /\ (InBlocks' => kind' = "text")
      BY <1>0, <1>3, <1>6, Arrival, ArrivalClass DEF InBlocks
    <3>2. \A i \in DOMAIN got' : ~ (i > m)  BY <1>m, <1>0, Arrival
    <3> QED  BY <1>3, <1>6, <2>1, <3>1, <3>2 DEF Holds
  <2>5. ASSUME NEW l \in DOMAIN got', Holds(l)' PROVE l = m
    <3>1. pending' = [b \in {got'[l].block} |-> Marked(got'[l], 1, 0)]  BY <2>5 DEF Holds
    <3>2. Marked(got'[l], 1, 0) = Marked(f, 1, 0)  BY <2>1, <3>1
    <3>3. got'[l].n = f.n  BY <3>2 DEF Marked
    <3> QED  BY <1>3, <1>4, <3>3 DEF GotInv
  <2>6. \A v \in ToSet(Given') : Precedes(v, got'[m])  BY <1>0, <1>3, <2>3, NewFollows DEF GivenInv
  <2>7. GivenInv'
    <3>1. \A k \in DOMAIN got' : Holds(k)' => \A v \in ToSet(Given') : Precedes(v, got'[k])  BY <2>5, <2>6
    <3> QED  BY <2>3, <3>1 DEF GivenInv
  <2>8. HeldInv'  BY <1>3, <2>4 DEF HeldInv
  <2>9. ASSUME NEW n \in DOMAIN got'
        PROVE  got'[n].class = "done" \/ (\E w \in ToSet(Given') : w.n = n) \/ Holds(n)'
    <3>1. CASE n \in DOMAIN got  BY <1>0, <1>5, <2>3, <3>1, Arrival
    <3> QED  BY <1>m, <1>0, <2>4, <3>1, Arrival
  <2>10. DOMAIN pending' \subseteq Blocks /\ \A b \in DOMAIN pending' : pending'[b] \in Written
    <3>1. Marked(f, 1, 0) \in Written  BY <1>3, MarkedType
    <3>2. f.block \in Blocks  BY <1>3 DEF Frames
    <3> QED  BY <2>1, <3>1, <3>2
  <2> QED  BY <2>2, <2>7, <2>8, <2>9, <2>10
<1>7. CASE f.class # "content"
  <2>1. pending' = NoneHeld /\ out' = IF f.class = "done" THEN <<>> ELSE <<e>>  BY <1>0, <1>7, DispatchFree
  <2>2. e \in Written /\ e.n = m  BY <1>3, MarkedType
  <2>3. out' \in Seq(Written) /\ InOrder(out') /\ ToSet(out') \subseteq {e}
        /\ (f.class # "done" => e \in ToSet(out'))
    <3> HIDE DEF e
    <3>1. ToSet(<<e>>) = {e} /\ InOrder(<<e>>) /\ ToSet(<<>>) = {} /\ InOrder(<<>>)  BY ShortSeqs
    <3>2. <<e>> \in Seq(Written) /\ <<>> \in Seq(Written)  BY <2>2
    <3> QED  BY <2>1, <3>1, <3>2
  <2>4. f.class # "done" => WellMarked(e)'  BY <1>0, <1>7, NewMarked
  <2>5. \A w \in ToSet(out') : WellMarked(w)'
    <3>1. CASE f.class = "done"  BY <2>1, <3>1, ShortSeqs
    <3>2. CASE f.class # "done"
      <4> HIDE DEF e
      <4> QED  BY <2>3, <2>4, <3>2
    <3> QED  BY <3>1, <3>2
  <2>6. \A v \in ToSet(Given) : Precedes(v, e)  BY <1>0, NewFollows DEF GivenInv
  <2>7. /\ ToSet(Given') = ToSet(Given) \cup ToSet(out')
        /\ \A w \in ToSet(Given') : WellMarked(w)'
        /\ InOrder(Given')
    <3> HIDE DEF e
    <3>1. \A v \in ToSet(Given), w \in ToSet(out') : Precedes(v, w)  BY <2>3, <2>6
    <3> QED  BY <1>0, <1>1, <1>2, <2>3, <2>5, <3>1, GivenGrows
  <2>8. \A l \in DOMAIN got' : ~ Holds(l)'
    <3>1. DOMAIN pending' = {}  BY <2>1 DEF NoneHeld
    <3> QED  BY <3>1 DEF Holds
  <2>9. HeldInv' /\ GivenInv'  BY <2>1, <2>7, <2>8 DEF HeldInv, GivenInv
  <2>10. ASSUME NEW n \in DOMAIN got'
         PROVE  got'[n].class = "done" \/ (\E w \in ToSet(Given') : w.n = n) \/ Holds(n)'
    <3> HIDE DEF e
    <3>1. CASE n \in DOMAIN got  BY <1>0, <1>5, <2>7, <3>1, Arrival
    <3>2. CASE n = m  BY <1>3, <2>2, <2>3, <2>7, <3>2
    <3> QED  BY <1>m, <1>0, <3>1, <3>2, Arrival
  <2>11. DOMAIN pending' \subseteq Blocks /\ \A b \in DOMAIN pending' : pending'[b] \in Written
    BY <2>1 DEF NoneHeld
  <2> QED  BY <2>3, <2>9, <2>10, <2>11
<1> QED  BY <1>6, <1>7

\* The marks have no part in the order.
LEMMA MarkedOrder ==
    ASSUME NEW f, NEW d, NEW l, NEW v
    PROVE  /\ Precedes(v, f) => Precedes(v, Marked(f, d, l))
           /\ Precedes(f, v) => Precedes(Marked(f, d, l), v)
BY DEF Precedes, Marked

\* With a text held back.
LEMMA ScanHeld ==
    ASSUME StreamInv, NEW f \in Coming, gpc = "read", Arrives(f), Process(f), sent' = sent,
           NEW k \in DOMAIN got, Holds(k)
    PROVE  /\ out' \in Seq(Written)
           /\ DOMAIN pending' \subseteq Blocks /\ \A b \in DOMAIN pending' : pending'[b] \in Written
           /\ (HeldInv /\ GivenInv)'
           /\ \A n \in DOMAIN got' : got'[n].class = "done" \/ (\E w \in ToSet(Given') : w.n = n) \/ Holds(n)'
<1>m. PICK m : m = Len(got) + 1  OBVIOUS
<1>g. PICK g : g = got[k]  OBVIOUS
<1>0. TypeOK /\ GotInv /\ HeldInv /\ GivenInv /\ AllInv /\ PhaseInv  BY DEF StreamInv
<1>1. out = <<>>  BY <1>0 DEF PhaseInv
<1>2. \A w \in ToSet(Given) : WellMarked(w)'  BY <1>0, MarkedStays DEF GivenInv
<1>3. f \in Frames /\ f.n = m /\ m \in DOMAIN got' /\ got'[m] = f /\ f.inst = blocks /\ m = Len(got) + 1
  BY <1>m, <1>0, Arrival
<1>4. GotInv'  BY <1>0, GotStep
<1>5. /\ g \in Frames /\ g.n = k /\ k \in DOMAIN got' /\ got'[k] = g /\ k < m
      /\ g.class = "content" /\ g.inst = blocks /\ (InBlocks => kind = "text")
      /\ pending = [b \in {g.block} |-> Marked(g, 1, 0)]
  BY <1>0, <1>g, <1>m, Arrival, FrameType DEF Holds, GotInv
<1>6. \A v \in ToSet(Given) : Precedes(v, g)  BY <1>0, <1>g DEF GivenInv
<1>7. \A n \in DOMAIN got : n = k \/ got[n].class = "done" \/ (\E w \in ToSet(Given) : w.n = n)
  BY <1>0, HoldsOne DEF AllInv
<1>8. \A n \in DOMAIN got' : n = m \/ (n \in DOMAIN got /\ got'[n] = got[n])  BY <1>m, <1>0, Arrival
<1>9. Marked(g, 1, 0) \in Written /\ g.block \in Blocks  BY <1>5, MarkedType DEF Frames
<1>10. CASE f.class = "content"
  <2> DEFINE h == Marked(g, 1, 0)
  <2>1. out' = <<h>> /\ pending' = [b \in {f.block} |-> Marked(f, 1, 0)]  BY <1>0, <1>g, <1>10, DispatchHeld
  <2>2. WellMarked(h)'  BY <1>0, <1>g, <1>10, FollowedMarked
  <2>3. h.n = k /\ h \in Written /\ \A v \in ToSet(Given) : Precedes(v, h)
    BY <1>5, <1>6, <1>9, MarkedType, MarkedOrder
  <2>a. Precedes(g, f)
    <3>1. g.n < f.n /\ g.n \in Nat /\ f.n \in Nat  BY <1>3, <1>5 DEF Frames
    <3> QED  BY <1>5, <1>10, <3>1 DEF Precedes
  <2>b. Precedes(h, f)  BY <2>a, MarkedOrder
  <2> HIDE DEF h
  <2>4. out' \in Seq(Written) /\ InOrder(out') /\ ToSet(out') = {h}  BY <2>1, <2>3, ShortSeqs
  <2>5. ToSet(Given') = ToSet(Given) \cup {h} /\ (\A w \in ToSet(Given') : WellMarked(w)') /\ InOrder(Given')
    BY <1>0, <1>1, <1>2, <2>2, <2>3, <2>4, GivenGrows
  <2>6. Holds(m)'
    <3>1. got'[m].inst = blocks' /\ (InBlocks' => kind' = "text")
      BY <1>0, <1>3, <1>10, ArrivalClass DEF InBlocks
    <3>2. \A i \in DOMAIN got' : ~ (i > m)  BY <1>m, <1>0, Arrival
    <3> QED  BY <1>3, <1>10, <2>1, <3>1, <3>2 DEF Holds
  <2>7. ASSUME NEW l \in DOMAIN got', Holds(l)' PROVE l = m
    <3>1. pending' = [b \in {got'[l].block} |-> Marked(got'[l], 1, 0)]  BY <2>7 DEF Holds
    <3>2. Marked(got'[l], 1, 0) = Marked(f, 1, 0)  BY <2>1, <3>1
    <3>3. got'[l].n = f.n  BY <3>2 DEF Marked
    <3> QED  BY <1>3, <1>4, <3>3 DEF GotInv
  <2>8. \A v \in ToSet(Given') : Precedes(v, got'[m])  BY <1>0, <1>3, <2>b, <2>5, NewFollows DEF GivenInv
  <2>9. GivenInv'
    <3>1. \A l \in DOMAIN got' : Holds(l)' => \A v \in ToSet(Given') : Precedes(v, got'[l])  BY <2>7, <2>8
    <3> QED  BY <2>5, <3>1 DEF GivenInv
  <2>10. HeldInv'  BY <1>3, <2>6 DEF HeldInv
  <2>11. ASSUME NEW n \in DOMAIN got'
         PROVE  got'[n].class = "done" \/ (\E w \in ToSet(Given') : w.n = n) \/ Holds(n)'
    BY <1>7, <1>8, <2>3, <2>5, <2>6
  <2>12. DOMAIN pending' \subseteq Blocks /\ \A b \in DOMAIN pending' : pending'[b] \in Written
    <3>1. Marked(f, 1, 0) \in Written /\ f.block \in Blocks  BY <1>3, MarkedType DEF Frames
    <3> QED  BY <2>1, <3>1
  <2> QED  BY <2>4, <2>9, <2>10, <2>11, <2>12
<1>11. CASE f.class \in {"stop", "terminal"}
  <2> DEFINE h == Marked(g, 1, 1)
  <2> DEFINE e == Marked(f, 0, 0)
  <2>1. out' = <<h, e>> /\ pending' = NoneHeld  BY <1>0, <1>g, <1>11, DispatchHeld
  <2>2. WellMarked(h)'  BY <1>0, <1>g, <1>11, LastMarked
  <2>3. WellMarked(e)'  BY <1>0, <1>11, NewMarked
  <2>4. h.n = k /\ h \in Written /\ \A v \in ToSet(Given) : Precedes(v, h)
    BY <1>5, <1>6, MarkedType, MarkedOrder
  <2>5. e.n = m /\ e \in Written /\ \A v \in ToSet(Given) : Precedes(v, e)
    BY <1>0, <1>3, MarkedType, NewFollows DEF GivenInv
  <2>6. Precedes(h, e)
    <3>1. Precedes(g, f)  BY <1>3, <1>5, <1>11 DEF Precedes
    <3> QED  BY <3>1, MarkedOrder
  <2> HIDE DEF h, e
  <2>7. InOrder(out') /\ ToSet(out') = {h, e}  BY <2>1, <2>6, ShortSeqs
  <2>8. out' \in Seq(Written)  BY <2>1, <2>4, <2>5
  <2>9. /\ ToSet(Given') = ToSet(Given) \cup {h, e}
        /\ \A w \in ToSet(Given') : WellMarked(w)'
        /\ InOrder(Given')
    BY <1>0, <1>1, <1>2, <2>2, <2>3, <2>4, <2>5, <2>7, <2>8, GivenGrows
  <2>10. \A l \in DOMAIN got' : ~ Holds(l)'
    <3>1. DOMAIN pending' = {}  BY <2>1 DEF NoneHeld
    <3> QED  BY <3>1 DEF Holds
  <2>11. HeldInv' /\ GivenInv'  BY <2>1, <2>9, <2>10 DEF HeldInv, GivenInv
  <2>12. ASSUME NEW n \in DOMAIN got'
         PROVE  got'[n].class = "done" \/ (\E w \in ToSet(Given') : w.n = n) \/ Holds(n)'
    BY <1>7, <1>8, <2>4, <2>5, <2>9
  <2>13. DOMAIN pending' \subseteq Blocks /\ \A b \in DOMAIN pending' : pending'[b] \in Written
    BY <2>1 DEF NoneHeld
  <2> QED  BY <2>8, <2>11, <2>12, <2>13
<1>12. CASE f.class \notin {"content", "stop", "terminal"}
  <2> DEFINE e == Marked(f, IF f.class = "reasoning" THEN 1 ELSE 0, 0)
  <2>0. f.class \in {"reasoning", "tool", "other", "done"}  BY <1>3, <1>12 DEF Frames, Classes
  <2>1. pending' = pending /\ out' = IF f.class = "done" THEN <<>> ELSE <<e>>
    BY <1>0, <1>12, <2>0, DispatchHeld
  <2>2. e \in Written /\ e.n = m  BY <1>3, MarkedType
  <2>3. f.class # "done" => WellMarked(e)' /\ Precedes(e, g)
    <3>1. ASSUME f.class # "done" PROVE Precedes(e, g)
      <4>1. Precedes(f, g)  BY <1>3, <1>5, <2>0, <3>1 DEF Precedes
      <4> QED  BY <4>1, MarkedOrder
    <3> QED  BY <1>0, <1>12, <3>1, NewMarked
  <2>4. \A v \in ToSet(Given) : Precedes(v, e)  BY <1>0, NewFollows DEF GivenInv
  <2> HIDE DEF e
  <2>5. out' \in Seq(Written) /\ InOrder(out') /\ ToSet(out') = IF f.class = "done" THEN {} ELSE {e}
    <3>1. ToSet(<<e>>) = {e} /\ InOrder(<<e>>) /\ ToSet(<<>>) = {} /\ InOrder(<<>>)  BY ShortSeqs
    <3>2. <<e>> \in Seq(Written) /\ <<>> \in Seq(Written)  BY <2>2
    <3> QED  BY <2>1, <3>1, <3>2
  <2>6. /\ ToSet(Given') = ToSet(Given) \cup ToSet(out')
        /\ \A w \in ToSet(Given') : WellMarked(w)'
        /\ InOrder(Given')
    BY <1>0, <1>1, <1>2, <2>3, <2>4, <2>5, GivenGrows
  <2>7. Holds(k)'
    <3>1. InBlocks' = InBlocks  BY <1>0, ArrivalClass DEF InBlocks
    <3>2. blocks' = blocks /\ (InBlocks => kind' = "text")
      BY <1>0, <1>5, <1>12, ArrivalClass DEF GotInv
    <3>3. \A i \in DOMAIN got' : i > k => got'[i].class # "content"  BY <1>3, <1>8, <1>12 DEF Holds
    <3> QED  BY <1>5, <2>1, <3>1, <3>2, <3>3 DEF Holds
  <2>8. ASSUME NEW l \in DOMAIN got', Holds(l)' PROVE l = k
    <3>1. pending' = [b \in {got'[l].block} |-> Marked(got'[l], 1, 0)]  BY <2>8 DEF Holds
    <3>2. Marked(got'[l], 1, 0) = Marked(g, 1, 0)  BY <1>5, <2>1, <3>1, ZenonT(60)
    <3>3. got'[l].n = g.n  BY <3>2 DEF Marked
    <3> QED  BY <1>4, <1>5, <3>3 DEF GotInv
  <2>9. \A v \in ToSet(Given') : Precedes(v, g)  BY <1>6, <2>3, <2>5, <2>6
  <2>10. GivenInv'
    <3>1. \A l \in DOMAIN got' : Holds(l)' => \A v \in ToSet(Given') : Precedes(v, got'[l])
      BY <1>5, <2>8, <2>9
    <3> QED  BY <2>6, <3>1 DEF GivenInv
  <2>11. HeldInv'  BY <1>5, <2>7 DEF HeldInv
  <2>12. ASSUME NEW n \in DOMAIN got'
         PROVE  got'[n].class = "done" \/ (\E w \in ToSet(Given') : w.n = n) \/ Holds(n)'
    BY <1>3, <1>7, <1>8, <2>2, <2>5, <2>6, <2>7
  <2>13. DOMAIN pending' \subseteq Blocks /\ \A b \in DOMAIN pending' : pending'[b] \in Written
    BY <1>0, <2>1 DEF TypeOK
  <2> QED  BY <2>5, <2>10, <2>11, <2>12, <2>13
<1> QED  BY <1>10, <1>11, <1>12

-----------------------------------------------------------------------------
(* The steps. *)

\* A step that neither receives a frame nor gives one out.
LEMMA Untouched ==
    ASSUME StreamInv, UNCHANGED <<upVars, ended, got, pending>>, Given' = Given,
           gpc' # "done" => gpc # "done",
           pipe' = "ended" => pipe = "ended" \/ gpc # "done"
    PROVE  (GotInv /\ HeldInv /\ GivenInv /\ AllInv)'
<1>0. GotInv /\ HeldInv /\ GivenInv /\ AllInv  BY DEF StreamInv
<1>1. proto' = proto /\ kind' = kind /\ blocks' = blocks /\ (over' <=> over) /\ ended' = ended /\ got' = got
      /\ pending' = pending
  BY DEF upVars
<1>2. InBlocks' <=> InBlocks  BY <1>1 DEF InBlocks
<1>3. GotInv'  BY <1>0, <1>1, <1>2 DEF GotInv
<1>4. \A k : Holds(k)' <=> Holds(k)  BY <1>1, <1>2 DEF Holds
<1>5. \A w : WellMarked(w)' <=> WellMarked(w)
  <2>1. \A w : Closed(w.inst)' <=> Closed(w.inst)  BY <1>1, <1>2 DEF Closed
  <2>2. \A w : Superseded(w)' <=> Superseded(w)  BY <1>1 DEF Superseded
  <2> QED  BY <1>1, <2>1, <2>2 DEF WellMarked
<1>6. HeldInv'  BY <1>0, <1>1, <1>4 DEF HeldInv
<1>7. GivenInv'
  <2>1. \A w \in ToSet(Given') : WellMarked(w)'  BY <1>0, <1>5 DEF GivenInv
  <2>2. InOrder(Given')  BY <1>0 DEF GivenInv
  <2>3. gpc' # "done" => \A k \in DOMAIN got' : Holds(k)' => \A v \in ToSet(Given') : Precedes(v, got'[k])
    BY <1>0, <1>1, <1>4 DEF GivenInv
  <2> QED  BY <2>1, <2>2, <2>3 DEF GivenInv
<1>8. AllInv'  BY <1>0, <1>1, <1>4 DEF AllInv
<1> QED  BY <1>3, <1>6, <1>7, <1>8

\* A frame is taken from the upstream (Scans).
LEMMA ScansStep == StreamInv /\ Scans => StreamInv'
<1> SUFFICES ASSUME StreamInv, NEW f \in Coming, gpc = "read", gpc' = "write", Arrives(f), Process(f),
                    UNCHANGED <<pipe, sent, panics>>
             PROVE  StreamInv'
  BY DEF Scans
<1>0. TypeOK /\ GotInv /\ HeldInv /\ PhaseInv  BY DEF StreamInv
<1>1. /\ out' \in Seq(Written)
      /\ DOMAIN pending' \subseteq Blocks /\ \A b \in DOMAIN pending' : pending'[b] \in Written
      /\ (HeldInv /\ GivenInv)'
      /\ \A n \in DOMAIN got' : got'[n].class = "done" \/ (\E w \in ToSet(Given') : w.n = n) \/ Holds(n)'
  <2>1. CASE pending = NoneHeld  BY <2>1, ScanFree
  <2>2. CASE \E k \in DOMAIN got : Holds(k)
    <3>1. PICK k \in DOMAIN got : Holds(k)  BY <2>2
    <3> QED  BY <3>1, ScanHeld
  <2> QED  BY <1>0, <2>1, <2>2 DEF HeldInv
<1>2. AllInv'  BY <1>1 DEF AllInv
<1>3. GotInv'  BY <1>0, GotStep
<1>4. PhaseInv'
  <2>1. pipe' # "ended" /\ ended' = "no"  BY <1>0, ArrivalClass DEF PhaseInv
  <2> QED  BY <2>1 DEF PhaseInv
<1>5. TypeOK'
  <2>1. /\ proto' \in Protocols /\ kind' \in {"none", "text", "thinking", "tool"} /\ blocks' \in Blocks
        /\ ended' \in {"no", "eof", "error"} /\ got' \in Seq(Frames)
    BY <1>0, Arrival, ArrivalClass DEF TypeOK
  <2>2. over' \in BOOLEAN  BY <1>0, ArrivalClass
  <2>3. sent' \in Seq(Written) /\ pipe' \in {"open", "ended", "failed", "closed"} /\ panics' \in 0..MaxPanics
    BY <1>0 DEF TypeOK
  <2> QED  BY <1>1, <2>1, <2>2, <2>3 DEF TypeOK
<1> QED  BY <1>1, <1>2, <1>3, <1>4, <1>5 DEF StreamInv

\* A callback panics: nothing more is given out (ScanPanics).
LEMMA ScanPanicsStep == StreamInv /\ ScanPanics => StreamInv'
<1> SUFFICES ASSUME StreamInv, NEW f \in Coming, gpc = "read", gpc' = "done", Arrives(f),
                    panics < MaxPanics, panics' = panics + 1,
                    pipe' = IF pipe = "open" THEN "failed" ELSE pipe,
                    UNCHANGED <<pending, out, sent>>
             PROVE  StreamInv'
  BY DEF ScanPanics
<1>0. TypeOK /\ GotInv /\ GivenInv /\ PhaseInv  BY DEF StreamInv
<1>1. Given' = Given  BY DEF Given
<1>2. pipe' # "ended"  BY <1>0 DEF PhaseInv
<1>3. GotInv'  BY <1>0, GotStep
<1>4. HeldInv' /\ AllInv' /\ PhaseInv'  BY <1>2 DEF HeldInv, AllInv, PhaseInv
<1>5. GivenInv'
  <2>1. \A w \in ToSet(Given') : WellMarked(w)'  BY <1>0, <1>1, MarkedStays DEF GivenInv
  <2>2. InOrder(Given')  BY <1>0, <1>1 DEF GivenInv
  <2> QED  BY <2>1, <2>2 DEF GivenInv
<1>6. TypeOK'
  <2>1. /\ proto' \in Protocols /\ kind' \in {"none", "text", "thinking", "tool"} /\ blocks' \in Blocks
        /\ ended' \in {"no", "eof", "error"} /\ got' \in Seq(Frames)
    BY <1>0, Arrival, ArrivalClass DEF TypeOK
  <2>2. over' \in BOOLEAN  BY <1>0, ArrivalClass
  <2>3. /\ sent' \in Seq(Written) /\ out' \in Seq(Written) /\ pipe' \in {"open", "ended", "failed", "closed"}
        /\ DOMAIN pending' \subseteq Blocks /\ \A b \in DOMAIN pending' : pending'[b] \in Written
    BY <1>0 DEF TypeOK
  <2>4. panics' \in 0..MaxPanics  BY <1>0, StreamAssumption DEF TypeOK
  <2> QED  BY <2>1, <2>2, <2>3, <2>4 DEF TypeOK
<1> QED  BY <1>3, <1>4, <1>5, <1>6 DEF StreamInv

\* The upstream body ends, in one way or the other, and what is held goes out (Breaks).
LEMMA BreaksStep == ASSUME NEW how \in {"eof", "error"} PROVE StreamInv /\ Breaks(how) => StreamInv'
<1> SUFFICES ASSUME StreamInv, gpc = "read", ended = "no", ended' = how, gpc' = "write",
                    out' = FlushAll, pending' = NoneHeld, UNCHANGED <<upVars, got, pipe, sent, panics>>
             PROVE  StreamInv'
  BY DEF Breaks
<1>0. TypeOK /\ GotInv /\ HeldInv /\ GivenInv /\ AllInv /\ PhaseInv  BY DEF StreamInv
<1>1. proto' = proto /\ kind' = kind /\ blocks' = blocks /\ (over' <=> over) /\ got' = got  BY DEF upVars
<1>2. out = <<>> /\ pipe # "ended"  BY <1>0 DEF PhaseInv
<1>3. \A b : Closed(b)'  BY DEF Closed
<1>4. \A w : Superseded(w)' <=> Superseded(w)  BY <1>1 DEF Superseded
<1>5. \A w \in ToSet(Given) : WellMarked(w)'
  <2> TAKE w \in ToSet(Given)
  <2>1. WellMarked(w)  BY <1>0 DEF GivenInv
  <2> QED  BY <1>1, <1>3, <1>4, <2>1 DEF WellMarked
<1>6. /\ out' \in Seq(Written) /\ InOrder(out')
      /\ \A w \in ToSet(out') : WellMarked(w)'
      /\ \A v \in ToSet(Given), w \in ToSet(out') : Precedes(v, w)
      /\ \A n \in DOMAIN got : Holds(n) => \E w \in ToSet(out') : w.n = n
  <2>1. CASE pending = NoneHeld
    <3>1. out' = <<>>  BY <2>1, Flushes
    <3>2. \A n \in DOMAIN got : ~ Holds(n)  BY <1>0, <2>1, HoldsOne
    <3> QED  BY <3>1, <3>2, ShortSeqs
  <2>2. CASE \E k \in DOMAIN got : Holds(k)
    <3>1. PICK k \in DOMAIN got : Holds(k)  BY <2>2
    <3>g. PICK g : g = got[k]  OBVIOUS
    <3> DEFINE h == Marked(g, 1, 1)
    <3>2. g \in Frames /\ g.n = k /\ g.class = "content" /\ g.inst = blocks
      BY <1>0, <3>1, <3>g, FrameType DEF Holds, GotInv
    <3>3. out' = <<h>>  BY <1>0, <3>1, <3>g, Flushes
    <3>4. h \in Written /\ h.n = k  BY <3>2, MarkedType
    <3>5. \A v \in ToSet(Given) : Precedes(v, h)  BY <1>0, <3>1, <3>g, MarkedOrder DEF GivenInv
    <3>6. h.last = 1 /\ h.class = "content" /\ h = Marked(got[k], 1, h.last)  BY <3>2, <3>g DEF Marked
    <3>7. ~ Superseded(h)  BY <3>1, <3>4 DEF Superseded, Holds
    <3>8. WellMarked(h)'
      <4>1. k \in DOMAIN got' /\ got'[k].class = "content"  BY <1>1, <3>2, <3>g
      <4>2. ~ Superseded(h)'  BY <1>4, <3>7
      <4> HIDE DEF h
      <4>3. h = Marked(got'[h.n], IF got'[h.n].class \in {"content", "reasoning"} THEN 1 ELSE 0, h.last)
        BY <1>1, <3>4, <3>6, <4>1
      <4> QED  BY <1>3, <3>4, <3>6, <4>1, <4>2, <4>3 DEF WellMarked
    <3> HIDE DEF h
    <3>9. out' \in Seq(Written) /\ InOrder(out') /\ ToSet(out') = {h}  BY <3>3, <3>4, ShortSeqs
    <3>10. \A n \in DOMAIN got : Holds(n) => n = k  BY <1>0, <3>1, HoldsOne
    <3> QED  BY <3>4, <3>5, <3>8, <3>9, <3>10
  <2> QED  BY <1>0, <2>1, <2>2 DEF HeldInv
<1>7. /\ ToSet(Given') = ToSet(Given) \cup ToSet(out')
      /\ \A w \in ToSet(Given') : WellMarked(w)'
      /\ InOrder(Given')
  BY <1>0, <1>2, <1>5, <1>6, GivenGrows
<1>8. \A l \in DOMAIN got' : ~ Holds(l)'
  <2>1. DOMAIN pending' = {}  BY DEF NoneHeld
  <2> QED  BY <2>1 DEF Holds
<1>9. HeldInv' /\ GivenInv'  BY <1>7, <1>8 DEF HeldInv, GivenInv
<1>10. AllInv'
  <2>1. \A n \in DOMAIN got : got[n].class = "done" \/ (\E w \in ToSet(Given) : w.n = n) \/ Holds(n)
    BY <1>0 DEF AllInv
  <2>2. \A n \in DOMAIN got' : got'[n].class = "done" \/ (\E w \in ToSet(Given') : w.n = n)
    BY <1>1, <1>6, <1>7, <2>1
  <2> QED  BY <2>2 DEF AllInv
<1>11. GotInv'
  <2>1. InBlocks' <=> InBlocks  BY <1>1 DEF InBlocks
  <2> QED  BY <1>0, <1>1, <2>1 DEF GotInv
<1>12. PhaseInv'  BY <1>2 DEF PhaseInv
<1>13. TypeOK'
  <2>1. DOMAIN pending' = {}  BY DEF NoneHeld
  <2>2. /\ proto' \in Protocols /\ kind' \in {"none", "text", "thinking", "tool"} /\ blocks' \in Blocks
        /\ got' \in Seq(Frames) /\ sent' \in Seq(Written)
        /\ pipe' \in {"open", "ended", "failed", "closed"} /\ panics' \in 0..MaxPanics
    BY <1>0, <1>1 DEF TypeOK
  <2>3. over' \in BOOLEAN  BY <1>0 DEF TypeOK, upVars
  <2> QED  BY <1>6, <2>1, <2>2, <2>3 DEF TypeOK
<1> QED  BY <1>9, <1>10, <1>11, <1>12, <1>13 DEF StreamInv

\* The client takes a frame, which was given out before (Writes).
LEMMA WritesStep == StreamInv /\ Writes => StreamInv'
<1> SUFFICES ASSUME StreamInv, gpc = "write", out # <<>>, pipe = "open",
                    sent' = Append(sent, Head(out)), out' = Tail(out),
                    UNCHANGED <<upVars, ended, got, pending, gpc, pipe, panics>>
             PROVE  StreamInv'
  BY DEF Writes
<1>0. TypeOK /\ PhaseInv  BY DEF StreamInv
<1>1. sent \in Seq(Written) /\ out \in Seq(Written)  BY <1>0 DEF TypeOK
<1>2. Head(out) \in Written /\ Tail(out) \in Seq(Written)  BY <1>1
<1>3. Given' = Given
  <2> DEFINE s == Append(sent, Head(out)) \o Tail(out)
  <2> DEFINE t == sent \o out
  <2>1. /\ s \in Seq(Written) /\ t \in Seq(Written) /\ Len(s) = Len(sent) + Len(out) /\ Len(t) = Len(s)
    BY <1>1, <1>2
  <2>2. \A i \in 1..Len(s) : s[i] = t[i]
    <3> TAKE i \in 1..Len(s)
    <3>1. Append(sent, Head(out)) \in Seq(Written) /\ Len(Append(sent, Head(out))) = Len(sent) + 1
      BY <1>1, <1>2
    <3>2. CASE i <= Len(sent)
      <4>1. s[i] = Append(sent, Head(out))[i]  BY <1>1, <1>2, <2>1, <3>1, <3>2
      <4>2. Append(sent, Head(out))[i] = sent[i] /\ t[i] = sent[i]  BY <1>1, <1>2, <2>1, <3>2
      <4> QED  BY <4>1, <4>2
    <3>3. CASE i = Len(sent) + 1
      <4>1. s[i] = Head(out)  BY <1>1, <1>2, <2>1, <3>1, <3>3
      <4>2. t[i] = out[1]  BY <1>1, <2>1, <3>3
      <4> QED  BY <1>1, <4>1, <4>2
    <3>4. CASE i > Len(sent) + 1
      <4>1. s[i] = Tail(out)[i - (Len(sent) + 1)]  BY <1>1, <1>2, <2>1, <3>1, <3>4
      <4>2. t[i] = out[i - Len(sent)]  BY <1>1, <2>1, <3>4
      <4>3. Tail(out)[i - (Len(sent) + 1)] = out[i - Len(sent)]
        <5>1. i - (Len(sent) + 1) \in 1..Len(out) - 1  BY <1>1, <2>1, <3>4
        <5>2. \A j \in 1..Len(out) - 1 : Tail(out)[j] = out[j + 1]  BY <1>1
        <5>3. (i - (Len(sent) + 1)) + 1 = i - Len(sent)  BY <1>1, <2>1
        <5> QED  BY <5>1, <5>2, <5>3
      <4> QED  BY <4>1, <4>2, <4>3
    <3>5. i \in Int /\ Len(sent) \in Int  BY <1>1, <2>1
    <3> QED  BY <3>2, <3>3, <3>4, <3>5
  <2> HIDE DEF s, t
  <2>3. s = t  BY <2>1, <2>2, SeqEqual
  <2> QED  BY <2>3 DEF Given, s, t
<1>4. (GotInv /\ HeldInv /\ GivenInv /\ AllInv)'  BY <1>3, Untouched
<1>5. PhaseInv'  BY <1>0 DEF PhaseInv
<1>6. TypeOK'
  <2>1. sent' \in Seq(Written) /\ out' \in Seq(Written)  BY <1>1, <1>2
  <2> QED  BY <1>0, <2>1 DEF TypeOK, upVars
<1> QED  BY <1>4, <1>5, <1>6 DEF StreamInv

\* The steps of the goroutine's loop and of the reader's leaving.
LEMMA LoopStep ==
    StreamInv /\ (FlushPanics \/ WriteFails \/ ReadsOn \/ ClosesPipe \/ ReaderCloses \/ UNCHANGED vars)
        => StreamInv'
<1> SUFFICES ASSUME StreamInv,
                    FlushPanics \/ WriteFails \/ ReadsOn \/ ClosesPipe \/ ReaderCloses \/ UNCHANGED vars
             PROVE  StreamInv'
  OBVIOUS
<1>0. TypeOK /\ GotInv /\ HeldInv /\ GivenInv /\ AllInv /\ PhaseInv  BY DEF StreamInv
<1>1. CASE FlushPanics
  <2>1. gpc = "read" /\ gpc' = "done" /\ ended = "no" /\ ended' \in {"eof", "error"}
        /\ pipe' = (IF pipe = "open" THEN "failed" ELSE pipe) /\ panics < MaxPanics /\ panics' = panics + 1
        /\ UNCHANGED <<upVars, got, pending, out, sent>>
    BY <1>1 DEF FlushPanics
  <2>2. Given' = Given /\ pipe' # "ended"  BY <1>0, <2>1 DEF Given, PhaseInv
  <2>3. proto' = proto /\ kind' = kind /\ blocks' = blocks /\ (over' <=> over) /\ got' = got
    BY <2>1 DEF upVars
  <2>4. GotInv'
    <3>1. InBlocks' <=> InBlocks  BY <2>3 DEF InBlocks
    <3> QED  BY <1>0, <2>3, <3>1 DEF GotInv
  <2>5. HeldInv' /\ AllInv' /\ PhaseInv'  BY <2>1, <2>2 DEF HeldInv, AllInv, PhaseInv
  <2>6. GivenInv'
    <3>1. \A b : Closed(b)'  BY <2>1 DEF Closed
    <3>2. \A w : Superseded(w)' <=> Superseded(w)  BY <2>3 DEF Superseded
    <3>3. \A w \in ToSet(Given') : WellMarked(w)'
      <4> TAKE w \in ToSet(Given')
      <4>1. WellMarked(w)  BY <1>0, <2>2 DEF GivenInv
      <4> QED  BY <2>3, <3>1, <3>2, <4>1 DEF WellMarked
    <3>4. InOrder(Given')  BY <1>0, <2>2 DEF GivenInv
    <3> QED  BY <2>1, <3>3, <3>4 DEF GivenInv
  <2>7. TypeOK'
    <3>1. panics' \in 0..MaxPanics  BY <1>0, <2>1, StreamAssumption DEF TypeOK
    <3> QED  BY <1>0, <2>1, <3>1 DEF TypeOK, upVars
  <2> QED  BY <2>4, <2>5, <2>6, <2>7 DEF StreamInv
<1>2. CASE WriteFails
  <2>1. gpc = "write" /\ gpc' = "done" /\ pipe = "closed"
        /\ UNCHANGED <<upVars, ended, got, pending, out, pipe, sent, panics>>
    BY <1>2 DEF WriteFails
  <2>2. Given' = Given  BY <2>1 DEF Given
  <2>3. (GotInv /\ HeldInv /\ GivenInv /\ AllInv)'  BY <2>1, <2>2, Untouched
  <2>4. TypeOK' /\ PhaseInv'  BY <1>0, <2>1 DEF TypeOK, PhaseInv, upVars
  <2> QED  BY <2>3, <2>4 DEF StreamInv
<1>3. CASE ReadsOn
  <2>1. gpc = "write" /\ out = <<>> /\ ended = "no" /\ gpc' = "read"
        /\ UNCHANGED <<upVars, ended, got, pending, out, pipe, sent, panics>>
    BY <1>3 DEF ReadsOn
  <2>2. Given' = Given  BY <2>1 DEF Given
  <2>3. (GotInv /\ HeldInv /\ GivenInv /\ AllInv)'  BY <2>1, <2>2, Untouched
  <2>4. TypeOK' /\ PhaseInv'  BY <1>0, <2>1 DEF TypeOK, PhaseInv, upVars
  <2> QED  BY <2>3, <2>4 DEF StreamInv
<1>4. CASE ClosesPipe
  <2>1. gpc = "write" /\ out = <<>> /\ ended # "no" /\ gpc' = "done"
        /\ pipe' = (IF pipe = "open" THEN "ended" ELSE pipe)
        /\ UNCHANGED <<upVars, ended, got, pending, out, sent, panics>>
    BY <1>4 DEF ClosesPipe
  <2>2. Given' = Given  BY <2>1 DEF Given
  <2>3. (GotInv /\ HeldInv /\ GivenInv /\ AllInv)'  BY <2>1, <2>2, Untouched
  <2>4. TypeOK' /\ PhaseInv'  BY <1>0, <2>1 DEF TypeOK, PhaseInv, upVars
  <2> QED  BY <2>3, <2>4 DEF StreamInv
<1>5. CASE ReaderCloses
  <2>1. pipe = "open" /\ pipe' = "closed"
        /\ UNCHANGED <<upVars, ended, got, pending, gpc, out, sent, panics>>
    BY <1>5 DEF ReaderCloses
  <2>2. Given' = Given  BY <2>1 DEF Given
  <2>3. (GotInv /\ HeldInv /\ GivenInv /\ AllInv)'  BY <2>1, <2>2, Untouched
  <2>4. TypeOK' /\ PhaseInv'  BY <1>0, <2>1 DEF TypeOK, PhaseInv, upVars
  <2> QED  BY <2>3, <2>4 DEF StreamInv
<1>6. CASE UNCHANGED vars
  <2>1. UNCHANGED <<upVars, ended, got, pending, gpc, out, pipe, sent, panics>>  BY <1>6 DEF vars
  <2>2. Given' = Given  BY <2>1 DEF Given
  <2>3. (GotInv /\ HeldInv /\ GivenInv /\ AllInv)'  BY <2>1, <2>2, Untouched
  <2>4. TypeOK' /\ PhaseInv'  BY <1>0, <2>1 DEF TypeOK, PhaseInv, upVars
  <2> QED  BY <2>3, <2>4 DEF StreamInv
<1> QED  BY <1>1, <1>2, <1>3, <1>4, <1>5, <1>6

-----------------------------------------------------------------------------
(* The theorems. *)

LEMMA StreamInit == Init => StreamInv
<1> SUFFICES ASSUME Init PROVE StreamInv
  OBVIOUS
<1>1. DOMAIN pending = {}  BY DEF Init, NoneHeld
<1>2. Given = <<>> /\ DOMAIN got = {}  BY DEF Init, Given
<1>3. TypeOK
  <2>1. got \in Seq(Frames) /\ out \in Seq(Written) /\ sent \in Seq(Written)  BY DEF Init
  <2>2. blocks \in Blocks /\ panics \in 0..MaxPanics  BY StreamAssumption DEF Init, Blocks
  <2>3. over \in BOOLEAN  BY DEF Init
  <2> QED  BY <1>1, <2>1, <2>2, <2>3 DEF Init, TypeOK
<1>4. GotInv /\ HeldInv /\ AllInv /\ PhaseInv  BY <1>2 DEF Init, GotInv, HeldInv, AllInv, PhaseInv
<1>5. GivenInv  BY <1>2, ShortSeqs DEF GivenInv
<1> QED  BY <1>3, <1>4, <1>5 DEF StreamInv

\* Every step keeps the invariant (modifyStreamingResponse).
LEMMA StreamStep == StreamInv /\ [Next]_vars => StreamInv'
<1>1. StreamInv /\ UpstreamEnds => StreamInv'  BY BreaksStep DEF UpstreamEnds
<1>2. StreamInv /\ UpstreamFails => StreamInv'  BY BreaksStep DEF UpstreamFails
<1>3. Rests => UNCHANGED vars  BY DEF Rests
<1> QED  BY <1>1, <1>2, <1>3, ScansStep, ScanPanicsStep, WritesStep, LoopStep DEF Next

\* For any protocol and any number of frames, blocks and panics, the invariant holds.
THEOREM StreamInvariance == Spec => []StreamInv
BY StreamInit, StreamStep, PTL DEF Spec

\* Every variable has its type.
THEOREM TypeCorrect == Spec => []TypeOK
<1>1. StreamInv => TypeOK  BY DEF StreamInv
<1> QED  BY <1>1, StreamInvariance, PTL

\* What the client has is the beginning of what was given out.
LEMMA SentGiven ==
    ASSUME StreamInv
    PROVE  /\ sent \in Seq(Written) /\ DOMAIN sent \subseteq DOMAIN Given
           /\ \A i \in DOMAIN sent : Given[i] = sent[i]
<1>1. sent \in Seq(Written) /\ out \in Seq(Written)  BY DEF StreamInv, TypeOK
<1> QED  BY <1>1 DEF Given

\* Texts keep their order, nothing comes after the end of its block or of the stream, and
\* only frames that belong to no text pass one that is held back (Process, flushAll).
THEOREM TextsStayInPlace == Spec => []TextInPlace
<1>1. StreamInv => TextInPlace
  <2> SUFFICES ASSUME StreamInv, NEW i \in DOMAIN sent, NEW j \in DOMAIN sent, i < j
               PROVE  /\ sent[j].class = "content" =>
                            /\ sent[i].class = "content" => sent[i].n < sent[j].n
                            /\ sent[i].class = "stop" => sent[i].inst # sent[j].inst
                            /\ sent[i].class # "terminal"
                      /\ sent[j].n < sent[i].n =>
                            sent[j].class = "content" /\ sent[i].class \in {"reasoning", "tool", "other"}
    BY DEF TextInPlace
  <2>1. InOrder(Given)  BY DEF StreamInv, GivenInv
  <2>2. Precedes(sent[i], sent[j])  BY <2>1, SentGiven DEF InOrder
  <2> QED  BY <2>2 DEF Precedes
<1> QED  BY <1>1, StreamInvariance, PTL

\* A stream that ended without an error has every frame once, with the transforms on each
\* text and those for the last text on the last of each block only (StreamDispatcher).
THEOREM StreamsAreWhole == Spec => []WholeStream
<1>1. StreamInv => WholeStream
  <2> SUFFICES ASSUME StreamInv, pipe = "ended"
               PROVE  /\ ToSet(sent) = {Expected(f) : f \in {g \in ToSet(got) : g.class # "done"}}
                      /\ IsInjective(sent)
    BY DEF WholeStream
  <2>0. TypeOK /\ GotInv /\ GivenInv /\ AllInv /\ PhaseInv  BY DEF StreamInv
  <2>1. out = <<>> /\ pending = NoneHeld  BY <2>0 DEF PhaseInv
  <2>2. Given = sent  BY <2>1, <2>0 DEF Given, TypeOK
  <2>3. ASSUME NEW w \in ToSet(sent)
        PROVE  w.n \in DOMAIN got /\ got[w.n].class # "done" /\ w = Expected(got[w.n])
    <3>1. WellMarked(w)  BY <2>0, <2>2 DEF GivenInv
    <3>2. PICK f : f = got[w.n]  OBVIOUS
    <3>3. w.n \in DOMAIN got /\ f.class # "done" /\ w.last \in {0, 1}
          /\ w = Marked(f, IF f.class \in {"content", "reasoning"} THEN 1 ELSE 0, w.last)
          /\ (w.last = 1 => w.class = "content" /\ ~ Superseded(w))
          /\ (w.class = "content" /\ w.last = 0 => Superseded(w))
      BY <3>1, <3>2 DEF WellMarked
    <3>4. f.n = w.n /\ w.class = f.class /\ w.inst = f.inst  BY <2>0, <3>2, <3>3 DEF GotInv, Marked
    <3>5. DOMAIN got \subseteq Int  BY <2>0 DEF TypeOK
    <3>6. LastOfBlock(f) <=> ~ Superseded(w)
      <4>1. \A i \in DOMAIN got : got[i].n = i  BY <2>0 DEF GotInv
      <4> QED  BY <3>3, <3>4, <3>5, <4>1 DEF LastOfBlock, Superseded
    <3>7. w = Expected(f)
      <4>1. CASE f.class = "content"
        <5>1. w.last = IF LastOfBlock(f) THEN 1 ELSE 0  BY <3>3, <3>4, <3>6, <4>1
        <5> QED  BY <3>3, <4>1, <5>1 DEF Expected
      <4>2. CASE f.class # "content"
        <5>1. w.last = 0  BY <3>3, <3>4, <4>2
        <5> QED  BY <3>3, <4>2, <5>1 DEF Expected, Raw
      <4> QED  BY <4>1, <4>2
    <3> QED  BY <3>2, <3>3, <3>7
  <2>4. ASSUME NEW f \in ToSet(got), f.class # "done" PROVE Expected(f) \in ToSet(sent)
    <3>1. PICK n \in DOMAIN got : f = got[n]  BY DEF ToSet
    <3>2. \E w \in ToSet(sent) : w.n = n  BY <2>0, <2>1, <2>2, <2>4, <3>1, HoldsOne DEF AllInv
    <3>3. PICK w \in ToSet(sent) : w.n = n  BY <3>2
    <3> QED  BY <2>3, <3>1, <3>3
  <2>5. \A w \in ToSet(sent) : \E f \in {g \in ToSet(got) : g.class # "done"} : w = Expected(f)
    <3> TAKE w \in ToSet(sent)
    <3>1. w.n \in DOMAIN got /\ got[w.n].class # "done" /\ w = Expected(got[w.n])  BY <2>3
    <3>2. got[w.n] \in {g \in ToSet(got) : g.class # "done"}  BY <3>1 DEF ToSet
    <3> QED  BY <3>1, <3>2
  <2>6. ToSet(sent) = {Expected(f) : f \in {g \in ToSet(got) : g.class # "done"}}  BY <2>4, <2>5
  <2>7. IsInjective(sent)
    <3>1. DOMAIN sent \subseteq Int  BY <2>0 DEF TypeOK
    <3>2. \A i, j \in DOMAIN sent : i < j => sent[i].n # sent[j].n
      BY <2>0, <2>2 DEF GivenInv, InOrder, Precedes
    <3>3. ASSUME NEW i \in DOMAIN sent, NEW j \in DOMAIN sent, sent[i] = sent[j] PROVE i = j
      <4>1. ~ (i < j) /\ ~ (j < i)  BY <3>2, <3>3
      <4> QED  BY <3>1, <4>1
    <3> QED  BY <3>3 DEF IsInjective
  <2> QED  BY <2>6, <2>7
<1> QED  BY <1>1, StreamInvariance, PTL
=============================================================================
