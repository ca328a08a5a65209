---------------------------- MODULE ChainsProofs ----------------------------
(***************************************************************************)
(* What the runs of Chains check, proved for any lists, requests and       *)
(* answers, and however often an operator replaces the list meanwhile.     *)
(*                                                                         *)
(* First, every chain that comes to its end is the work of one list.  In   *)
(* the middle of a chain the view is what the instances so far have made   *)
(* (MadeUpTo, the recursion of MadeBy stopped there), and none of them     *)
(* would have intercepted.  For this to carry over to the next instance    *)
(* the recursion needs to have a solution, which SoFar shows by the        *)
(* shortest part of a list that has none.                                  *)
(*                                                                         *)
(* Second, the plugin on record is the one whose response the client gets. *)
(* The mark of an interceptor's response is found in a text, so this part  *)
(* follows texts: what joins, cuts and rewrites them keeps a text without  *)
(* marks without, and a mark in front (Marked), because no text and no     *)
(* rule of another plugin has one (MarksAssumption).  SourceInv says so of *)
(* the view, the callbacks and the reply.                                  *)
(*                                                                         *)
(* Third, a stream carries the text that the same list makes of a response *)
(* that is none: rules that run on deltas make of a text what they make of *)
(* the whole of it, unless a delta ends inside of what they look for       *)
(* (DeltasAre), and instance by instance what the callbacks so far make of *)
(* the whole text is what the hooks so far have made of it (Alongside).    *)
(*                                                                         *)
(* Last, the request.  A sequence that is selected, filtered or flattened  *)
(* is one sequence per element, joined (Across), and what a message says   *)
(* and the parts it has that are no text are two such joins (Said,         *)
(* PairsOf).  A view that a list has changed is the lifted one but for its *)
(* texts (SameButTexts), such a view can be written (Rebuildable), and     *)
(* lifted again it shows the same: RequestInv says so of what is kept.     *)
(***************************************************************************)
EXTENDS Chains, SequenceTheorems, WellFoundedInduction, TLAPS

-----------------------------------------------------------------------------
(* What the first instances of a list make. *)

MadeUpTo(hook, list, m, v0, path, drawn) ==
    LET made[n \in 0..Len(list)] == IF n = 0 THEN v0 ELSE Made(hook, list[n], made[n - 1], path, drawn)
    IN made[m]

LEMMA ListsAre == \A list \in Lists : Len(list) \in Nat /\ DOMAIN list = 1..Len(list)
  BY ChainsAssumption

\* A set of numbers has a least one.
LEMMA Least ==
    ASSUME NEW T, T \subseteq Nat, T # {}
    PROVE  \E m \in T : \A n \in T : m <= n
<1>1. PICK m \in T : \A n \in T : ~ (<<n, m>> \in OpToRel(<, Nat))
  BY NatLessThanWellFounded, WFMin
<1>2. \A n \in T : ~ (n < m)
  BY <1>1 DEF OpToRel
<1> QED BY <1>2

\* One instance after the other, beginning with what the chain is given.
LEMMA SoFar ==
    ASSUME NEW hook, NEW list, NEW N \in Nat, Len(list) = N, NEW v0, NEW path, NEW drawn
    PROVE  /\ MadeUpTo(hook, list, 0, v0, path, drawn) = v0
           /\ \A n \in 1..N : MadeUpTo(hook, list, n, v0, path, drawn)
                                = Made(hook, list[n], MadeUpTo(hook, list, n - 1, v0, path, drawn), path, drawn)
<1> DEFINE Goes(f, m) == f = [n \in 0..m |-> IF n = 0 THEN v0 ELSE Made(hook, list[n], f[n - 1], path, drawn)]
           T == {m \in Nat : ~ \E f : Goes(f, m)}
           made == CHOOSE f : Goes(f, N)
<1>1. ASSUME NEW m \in Nat, NEW f,
             DOMAIN f = 0..m, f = [n \in 0..m |-> f[n]], f[0] = v0,
             \A n \in 1..m : f[n] = Made(hook, list[n], f[n - 1], path, drawn)
      PROVE  Goes(f, m)
  <2>1. ASSUME NEW n \in 0..m
        PROVE  f[n] = IF n = 0 THEN v0 ELSE Made(hook, list[n], f[n - 1], path, drawn)
    <3>1. n = 0 \/ n \in 1..m
      OBVIOUS
    <3>2. f[0] = v0 /\ \A k \in 1..m : f[k] = Made(hook, list[k], f[k - 1], path, drawn)
      BY <1>1
    <3>3. n \in 1..m => n # 0
      OBVIOUS
    <3> QED BY <3>1, <3>2, <3>3
  <2> QED BY <1>1, <2>1
<1>2. ASSUME NEW m \in Nat, NEW f, Goes(f, m)
      PROVE  /\ DOMAIN f = 0..m /\ f[0] = v0
             /\ \A n \in 1..m : f[n] = Made(hook, list[n], f[n - 1], path, drawn)
  BY <1>2
<1>3. T = {}
  <2>1. SUFFICES ASSUME T # {} PROVE FALSE
    OBVIOUS
  <2>2. PICK m \in T : \A n \in T : m <= n
    <3> T \subseteq Nat
      OBVIOUS
    <3> HIDE DEF T
    <3> QED BY <2>1, Least
  <2>3. m \in Nat /\ ~ \E f : Goes(f, m)
    OBVIOUS
  <2> HIDE DEF Goes
  <2>4. CASE m = 0
    <3> DEFINE f == [n \in 0..0 |-> v0]
    <3>1. DOMAIN f = 0..m /\ f = [n \in 0..m |-> f[n]] /\ f[0] = v0 /\ 1..m = {}
      BY <2>4
    <3> HIDE DEF f
    <3> QED BY <1>1, <2>3, <3>1
  <2>5. CASE m # 0
    <3>1. m - 1 \in Nat /\ m - 1 \notin T
      BY <2>2, <2>3, <2>5
    <3>2. PICK g : Goes(g, m - 1)
      BY <3>1
    <3>3. /\ g[0] = v0
          /\ \A n \in 1..(m - 1) : g[n] = Made(hook, list[n], g[n - 1], path, drawn)
      BY <1>2, <3>1, <3>2
    <3> DEFINE last == Made(hook, list[m], g[m - 1], path, drawn)
               f == [n \in 0..m |-> IF n = m THEN last ELSE g[n]]
    <3>4. DOMAIN f = 0..m /\ f = [n \in 0..m |-> f[n]]
      <4> HIDE DEF last
      <4> QED OBVIOUS
    <3>5. f[m] = last /\ \A n \in 0..(m - 1) : f[n] = g[n]
      <4> HIDE DEF last
      <4> QED BY <2>3, <2>5
    <3>6. f[0] = v0
      <4> HIDE DEF f
      <4> QED BY <2>3, <2>5, <3>3, <3>5
    <3>7. ASSUME NEW n \in 1..m PROVE f[n] = Made(hook, list[n], f[n - 1], path, drawn)
      <4> HIDE DEF f
      <4>1. n - 1 \in 0..(m - 1) /\ f[n - 1] = g[n - 1]
        BY <2>3, <3>5
      <4>2. CASE n = m
        BY <3>5, <4>1, <4>2
      <4>3. CASE n # m
        <5>1. n \in 1..(m - 1) /\ n \in 0..(m - 1)
          BY <2>3, <4>3
        <5> QED BY <3>3, <3>5, <4>1, <5>1
      <4> QED BY <4>2, <4>3
    <3> HIDE DEF f
    <3> QED BY <1>1, <2>3, <3>4, <3>6, <3>7
  <2> QED BY <2>4, <2>5
<1>4. Goes(made, N)
  <2>1. \E f : Goes(f, N)
    <3> HIDE DEF Goes
    <3> QED BY <1>3
  <2> HIDE DEF Goes
  <2> QED BY <2>1
<1>5. \A n : MadeUpTo(hook, list, n, v0, path, drawn) = made[n]
  BY DEF MadeUpTo
<1> HIDE DEF made, Goes, T
<1> QED BY <1>2, <1>4, <1>5

-----------------------------------------------------------------------------
(* The instance at hand. *)

\* What a hook does not answer with: those that have no say, and those that intercept.
LEMMA Hooks ==
    ASSUME NEW inst, NEW v, NEW path, NEW drawn
    PROVE  /\ inst.type \in {"panics", "hollow"} =>
                /\ OnBefore(inst, v, path, drawn) = Continue /\ OnAfter(inst, v, path, drawn) = Continue
           /\ inst.type = "blocks" /\ Covers(inst.routes, path) =>
                OnBefore(inst, v, path, drawn).action = "intercept"
           /\ inst.type = "replaces" /\ Covers(inst.routes, path) =>
                OnAfter(inst, v, path, drawn).action = "intercept"
           /\ inst.type \in {"blocks", "panics", "hollow"} => Registers(inst, v, path, drawn) = v
  BY DEF OnBefore, OnAfter, Applies, InterceptBy, Registers

\* An answer that lets the chain go on is what the instance makes of the view.
LEMMA GoesOn ==
    ASSUME NEW hook \in {"before", "after"}, Answer(hook).action # "intercept"
    PROVE  /\ Answer(hook).action = "continue" => Made(hook, Here, view, request.path, luck) = view
           /\ Answer(hook).action = "mutate" => Made(hook, Here, view, request.path, luck) = Answer(hook).to
           /\ HasSay(Here) /\ Here.type = (IF hook = "before" THEN "blocks" ELSE "replaces")
                => ~ Covers(Here.routes, request.path)
<1>1. CASE hook = "before"
  <2>1. Answer(hook) = IF Here.enabled /\ HasBefore(Here) THEN OnBefore(Here, view, request.path, luck) ELSE Continue
    BY <1>1 DEF Answer
  <2>2. Made(hook, Here, view, request.path, luck)
          = IF HasSay(Here) /\ HasBefore(Here) THEN Step(OnBefore(Here, view, request.path, luck), view) ELSE view
    BY <1>1 DEF Made
  <2> QED BY <1>1, <2>1, <2>2, Hooks DEF Step, HasSay, HasBefore, Continue
<1>2. CASE hook = "after"
  <2>1. Answer(hook) = IF Here.enabled /\ HasAfter(Here) THEN OnAfter(Here, view, request.path, luck) ELSE Continue
    BY <1>2 DEF Answer
  <2>2. Made(hook, Here, view, request.path, luck)
          = IF HasSay(Here) /\ HasAfter(Here) THEN Step(OnAfter(Here, view, request.path, luck), view) ELSE view
    BY <1>2 DEF Made
  <2> QED BY <1>2, <2>1, <2>2, Hooks DEF Step, HasSay, HasAfter, Continue
<1> QED BY <1>1, <1>2

-----------------------------------------------------------------------------
(* The invariant. *)

\* As far as the chain is, its list has been followed, and nobody has intercepted.
Followed(hook, type, v0, v) ==
    /\ v = MadeUpTo(hook, chain, at - 1, v0, request.path, luck)
    /\ \A i \in 1..(at - 1) :
          HasSay(chain[i]) /\ chain[i].type = type => ~ Covers(chain[i].routes, request.path)

\* A chain runs a list that was in force since there was something to run it on.
Control ==
    /\ live \in past
    /\ pc \in {"enterBefore", "before"} => parsed = ParseRequest(Proto, request.body)
    /\ pc \in {"before", "after", "stream"} => chain \in past /\ at <= Len(chain) + 1

ChainsInv ==
    /\ TypeOK
    /\ Control
    /\ pc = "before" => Followed("before", "blocks", parsed, view)
    /\ pc = "after" => Followed("after", "replaces", ParseResponse(Proto, reply.body), view)
    /\ pc = "stream" => Followed("stream", "replaces", NoCallbacks, cbs)

LEMMA InitChains == Init => ChainsInv
<1> SUFFICES ASSUME Init PROVE ChainsInv
  OBVIOUS
<1>1. /\ request \in Requests /\ live \in Lists /\ reloads = 0 /\ pc = "arrive" /\ chain = <<>> /\ at = 1
      /\ luck = FALSE /\ mutated = FALSE /\ stashed = FALSE /\ marker.hook = "" /\ past = {live}
  BY DEF Init, NoMarker
<1>2. TypeOK
  <2>1. MaxReloads \in Nat /\ <<>> \in Lists
    BY ChainsAssumption
  <2>2. {mutated, stashed, luck} \subseteq BOOLEAN
    BY <1>1
  <2>3. at \in Nat \ {0} /\ reloads \in 0..MaxReloads
    <3>1. at = 1 /\ reloads = 0 /\ MaxReloads \in Nat
      BY <1>1, <2>1
    <3> QED BY <3>1
  <2>4. chain \in Lists
    BY <1>1, <2>1, Zenon
  <2>5. past \subseteq Lists /\ request \in Requests /\ live \in Lists /\ pc = "arrive" /\ marker.hook = ""
    BY <1>1
  <2> QED BY <2>2, <2>3, <2>4, <2>5 DEF TypeOK
<1> QED BY <1>1, <1>2 DEF ChainsInv, Control

\* A chain begins.
LEMMA LoadsKeeps ==
    ASSUME ChainsInv, EntersBefore \/ EntersAfter \/ EntersStream
    PROVE  ChainsInv'
<1>1. /\ chain' = live /\ at' = 1 /\ luck' \in BOOLEAN /\ mutated' = FALSE
      /\ UNCHANGED <<request, live, reloads, stashed, parsed, forward, reply, marker, past>>
  BY DEF EntersBefore, EntersAfter, EntersStream, Loads
<1>2. \/ pc = "enterBefore" /\ pc' = "before" /\ view' = parsed
      \/ pc' = "after" /\ view' = ParseResponse(Proto, reply.body)
      \/ pc' = "stream" /\ cbs' = NoCallbacks
  BY DEF EntersBefore, EntersAfter, EntersStream, Loads
<1>3. live \in Lists /\ live \in past /\ Len(live) \in Nat
  BY ListsAre DEF ChainsInv, TypeOK, Control
<1>4. TypeOK'
  <2>1. {mutated', stashed', luck'} \subseteq BOOLEAN
    BY <1>1 DEF ChainsInv, TypeOK
  <2>2. at' \in Nat \ {0}
    BY <1>1
  <2> QED BY <1>1, <1>2, <1>3, <2>1, <2>2 DEF ChainsInv, TypeOK
<1>5. Proto' = Proto
  BY <1>1 DEF Proto
<1>6. Control'
  <2>1. at' <= Len(chain') + 1
    BY <1>1, <1>3
  <2>2. pc' \in {"enterBefore", "before"} => pc = "enterBefore"
    BY <1>2
  <2> QED BY <1>1, <1>3, <1>5, <2>1, <2>2 DEF ChainsInv, Control
<1>7. \A hook, v0, v : v = v0 => v = MadeUpTo(hook, chain', at' - 1, v0, request'.path, luck')
  BY <1>1, <1>3, SoFar
<1>8. at' - 1 = 0
  BY <1>1
<1>9. \A i \in 1..(at' - 1) : FALSE
  BY <1>1
<1>10. CASE pc' = "before" /\ view' = parsed
  <2>1. Followed("before", "blocks", parsed, view)'
    BY <1>1, <1>7, <1>9, <1>10 DEF Followed
  <2> QED BY <1>4, <1>6, <1>10, <2>1 DEF ChainsInv
<1>11. CASE pc' = "after" /\ view' = ParseResponse(Proto, reply.body)
  <2>1. Followed("after", "replaces", ParseResponse(Proto, reply.body), view)'
    <3>1. view' = ParseResponse(Proto, reply.body)'
      BY <1>1, <1>5, <1>11
    <3> QED BY <1>1, <1>7, <1>9, <3>1 DEF Followed
  <2> QED BY <1>4, <1>6, <1>11, <2>1 DEF ChainsInv
<1>12. CASE pc' = "stream" /\ cbs' = NoCallbacks
  <2>1. Followed("stream", "replaces", NoCallbacks, cbs)'
    <3>1. cbs' = NoCallbacks'
      BY <1>12 DEF NoCallbacks
    <3> QED BY <1>1, <1>7, <1>9, <3>1 DEF Followed
  <2> QED BY <1>4, <1>6, <1>12, <2>1 DEF ChainsInv
<1> QED BY <1>2, <1>10, <1>11, <1>12

\* The chain comes to the next instance.
LEMMA AdvancesKeeps ==
    ASSUME ChainsInv, NEW hook \in {"before", "after"}, PassesOn(hook, hook) \/ Mutates(hook, hook)
    PROVE  ChainsInv'
<1>1. /\ pc = hook /\ at \in DOMAIN chain /\ at' = at + 1 /\ mutated' \in BOOLEAN
      /\ UNCHANGED <<request, live, reloads, pc, chain, luck, requestVars, reply, cbs, marker, past>>
  BY DEF ChainsInv, TypeOK, PassesOn, Mutates, Calls, InForce
<1>2. PICK n \in Nat : n = Len(chain) /\ DOMAIN chain = 1..n
  BY ListsAre DEF ChainsInv, TypeOK
<1>3. at \in 1..n /\ at \in Nat \ {0} /\ at' \in Nat \ {0} /\ at' <= n + 1 /\ at' - 1 = at
  BY <1>1, <1>2
<1>4. /\ Answer(hook).action # "intercept"
      /\ view' = Made(hook, chain[at], view, request.path, luck)
      /\ HasSay(chain[at]) /\ chain[at].type = (IF hook = "before" THEN "blocks" ELSE "replaces")
            => ~ Covers(chain[at].routes, request.path)
  <2>1. Here = chain[at]
    BY DEF Here, InForce
  <2>2. CASE PassesOn(hook, hook)
    BY <2>1, <2>2, GoesOn DEF PassesOn
  <2>3. CASE Mutates(hook, hook)
    BY <2>1, <2>3, GoesOn DEF Mutates
  <2> QED BY <2>2, <2>3
<1>5. TypeOK'
  <2>1. {mutated', stashed', luck'} \subseteq BOOLEAN
    BY <1>1 DEF ChainsInv, TypeOK, requestVars
  <2> QED BY <1>1, <1>3, <2>1 DEF ChainsInv, TypeOK
<1>6. Proto' = Proto /\ UNCHANGED <<parsed, forward>>
  BY <1>1 DEF Proto, requestVars
<1>7. Control'
  BY <1>1, <1>2, <1>3, <1>6 DEF ChainsInv, Control
<1>8. ASSUME NEW type, NEW v0, Followed(hook, type, v0, view),
             HasSay(chain[at]) /\ chain[at].type = type => ~ Covers(chain[at].routes, request.path)
      PROVE  /\ view' = MadeUpTo(hook, chain, at, v0, request.path, luck)
             /\ \A i \in 1..at : HasSay(chain[i]) /\ chain[i].type = type
                                  => ~ Covers(chain[i].routes, request.path)
  <2>1. view = MadeUpTo(hook, chain, at - 1, v0, request.path, luck)
    BY <1>8 DEF Followed
  <2>2. MadeUpTo(hook, chain, at, v0, request.path, luck)
          = Made(hook, chain[at], MadeUpTo(hook, chain, at - 1, v0, request.path, luck), request.path, luck)
    BY <1>2, <1>3, SoFar
  <2>3. \A i \in 1..at : i \in 1..(at - 1) \/ i = at
    BY <1>3
  <2> QED BY <1>4, <1>8, <2>1, <2>2, <2>3 DEF Followed
<1>9. CASE hook = "before"
  <2>1. Followed("before", "blocks", parsed, view)
    BY <1>1, <1>9 DEF ChainsInv
  <2>2. Followed("before", "blocks", parsed, view)'
    BY <1>1, <1>3, <1>4, <1>6, <1>8, <1>9, <2>1 DEF Followed
  <2> QED BY <1>1, <1>5, <1>7, <1>9, <2>2 DEF ChainsInv
<1>10. CASE hook = "after"
  <2>1. Followed("after", "replaces", ParseResponse(Proto, reply.body), view)
    BY <1>1, <1>10 DEF ChainsInv
  <2>2. Followed("after", "replaces", ParseResponse(Proto, reply.body), view)'
    BY <1>1, <1>3, <1>4, <1>6, <1>8, <1>10, <2>1 DEF Followed
  <2> QED BY <1>1, <1>5, <1>7, <1>10, <2>2 DEF ChainsInv
<1> QED BY <1>9, <1>10

LEMMA RegistersKeeps == ASSUME ChainsInv, RegistersNext PROVE ChainsInv'
<1>1. /\ pc = "stream" /\ at \in DOMAIN chain /\ at' = at + 1
      /\ UNCHANGED <<request, live, reloads, pc, chain, luck, view, mutated, requestVars, reply, marker, past>>
  BY DEF RegistersNext, Calls, InForce
<1>2. PICK n \in Nat : n = Len(chain) /\ DOMAIN chain = 1..n
  BY ListsAre DEF ChainsInv, TypeOK
<1>3. at \in 1..n /\ at \in Nat \ {0} /\ at' \in Nat \ {0} /\ at' <= n + 1 /\ at' - 1 = at
  BY <1>1, <1>2
<1>4. /\ ~ (chain[at].enabled /\ HasAfter(chain[at]) /\ OnAfter(chain[at], view, request.path, luck).action = "intercept")
      /\ cbs' = IF chain[at].enabled /\ HasAfter(chain[at]) THEN Registers(chain[at], cbs, request.path, luck) ELSE cbs
  BY DEF RegistersNext, Here, InForce, Answer
<1>5. /\ cbs' = Made("stream", chain[at], cbs, request.path, luck)
      /\ HasSay(chain[at]) /\ chain[at].type = "replaces" => ~ Covers(chain[at].routes, request.path)
  <2>1. Made("stream", chain[at], cbs, request.path, luck)
          = IF HasSay(chain[at]) THEN Registers(chain[at], cbs, request.path, luck) ELSE cbs
    BY DEF Made
  <2> QED BY <1>4, <2>1, Hooks DEF HasSay, HasAfter
<1>6. TypeOK'
  BY <1>1, <1>3 DEF ChainsInv, TypeOK, requestVars
<1>7. Control'
  BY <1>1, <1>2, <1>3 DEF ChainsInv, Control
<1>8. Followed("stream", "replaces", NoCallbacks, cbs)
  BY <1>1 DEF ChainsInv
<1>9. Followed("stream", "replaces", NoCallbacks, cbs)'
  <2>1. cbs = MadeUpTo("stream", chain, at - 1, NoCallbacks, request.path, luck)
    BY <1>8 DEF Followed
  <2>2. MadeUpTo("stream", chain, at, NoCallbacks, request.path, luck)
          = Made("stream", chain[at], MadeUpTo("stream", chain, at - 1, NoCallbacks, request.path, luck),
                 request.path, luck)
    BY <1>2, <1>3, SoFar
  <2>3. \A i \in 1..at : i \in 1..(at - 1) \/ i = at
    BY <1>3
  <2>4. NoCallbacks' = NoCallbacks
    BY DEF NoCallbacks
  <2> QED BY <1>1, <1>3, <1>5, <1>8, <2>1, <2>2, <2>3, <2>4 DEF Followed
<1> QED BY <1>1, <1>6, <1>7, <1>9 DEF ChainsInv

\* A chain ends, or the handler is at work outside of one.
LEMMA OutsideKeeps ==
    ASSUME ChainsInv,
           \/ ForwardsAsIs \/ GivesUpBuffering \/ Buffers \/ Rebuilds \/ UpstreamUnreachable \/ UpstreamAnswers
           \/ WritesReply \/ Streams
           \/ Intercepts("before", "before", "enterAfter") \/ Intercepts("after", "after", "done")
           \/ Intercepts("stream", "after", "done")
    PROVE  ChainsInv'
<1>1. /\ UNCHANGED <<request, live, reloads, chain, at, luck, mutated>>
      /\ pc' \in {"enterBefore", "upstream", "enterAfter", "enterStream", "done"}
      /\ past' \in {past, {live}}
      /\ stashed' \in {stashed, TRUE}
      /\ marker' = marker \/ marker'.hook \in {"before", "after"}
      /\ pc' = "enterBefore" => parsed' = ParseRequest(Proto, request.body)
  <2>1. CASE ForwardsAsIs
    BY <2>1 DEF ForwardsAsIs, chainVars, requestVars
  <2>2. CASE GivesUpBuffering
    BY <2>2 DEF GivesUpBuffering, chainVars
  <2>3. CASE Buffers
    BY <2>3 DEF Buffers, chainVars
  <2>4. CASE Rebuilds
    BY <2>4 DEF Rebuilds, chainVars
  <2>5. CASE UpstreamUnreachable
    BY <2>5 DEF UpstreamUnreachable, chainVars, requestVars
  <2>6. CASE UpstreamAnswers
    BY <2>6 DEF UpstreamAnswers, chainVars, requestVars
  <2>7. CASE WritesReply
    BY <2>7 DEF WritesReply, chainVars, requestVars
  <2>8. CASE Streams
    BY <2>8 DEF Streams, chainVars, requestVars
  <2>9. CASE Intercepts("before", "before", "enterAfter")
    BY <2>9 DEF Intercepts, Marker, chainVars, requestVars
  <2>10. CASE Intercepts("after", "after", "done")
    BY <2>10 DEF Intercepts, Marker, chainVars, requestVars
  <2>11. CASE Intercepts("stream", "after", "done")
    BY <2>11 DEF Intercepts, Marker, chainVars, requestVars
  <2> QED BY <2>1, <2>2, <2>3, <2>4, <2>5, <2>6, <2>7, <2>8, <2>9, <2>10, <2>11
<1>2. TypeOK'
  <2>1. {mutated', stashed', luck'} \subseteq BOOLEAN
    BY <1>1 DEF ChainsInv, TypeOK
  <2>2. live' \in Lists /\ past' \subseteq Lists /\ live' \in past'
    BY <1>1 DEF ChainsInv, TypeOK, Control
  <2>3. marker'.hook \in {"", "before", "after"}
    BY <1>1 DEF ChainsInv, TypeOK
  <2> QED BY <1>1, <2>1, <2>2, <2>3 DEF ChainsInv, TypeOK
<1>3. Control'
  <2>1. Proto' = Proto
    BY <1>1 DEF Proto
  <2> QED BY <1>1, <2>1 DEF ChainsInv, Control
<1> QED BY <1>1, <1>2, <1>3 DEF ChainsInv

\* The list is replaced, or nothing happens.
LEMMA ReloadKeeps == ASSUME ChainsInv, Reload \/ UNCHANGED vars PROVE ChainsInv'
<1>1. /\ UNCHANGED <<request, pc, chain, at, luck, view, mutated, stashed, parsed, reply, cbs, marker>>
      /\ past \subseteq past' /\ past' \subseteq past \cup {live'} /\ live' \in past'
      /\ reloads' \in 0..MaxReloads /\ live' \in Lists
  <2>1. CASE UNCHANGED vars
    BY <2>1 DEF vars, chainVars, requestVars, ChainsInv, TypeOK, Control
  <2>2. CASE Reload
    <3>1. MaxReloads \in Nat /\ reloads \in 0..MaxReloads /\ live \in Lists
      BY ChainsAssumption DEF ChainsInv, TypeOK
    <3>2. PICK list \in Lists :
            /\ reloads < MaxReloads /\ reloads' = reloads + 1
            /\ live' = (IF Healthy(list) THEN list ELSE live)
            /\ past' = past \cup {live'}
            /\ UNCHANGED <<request, pc, chainVars, requestVars, reply, cbs, marker>>
      BY <2>2 DEF Reload
    <3>3. reloads' \in 0..MaxReloads
      BY <3>1, <3>2
    <3> QED BY <3>1, <3>2, <3>3 DEF chainVars, requestVars
  <2> QED BY <2>1, <2>2
<1>2. TypeOK'
  <2>1. past' \subseteq Lists
    BY <1>1 DEF ChainsInv, TypeOK
  <2> QED BY <1>1, <2>1 DEF ChainsInv, TypeOK
<1>3. Proto' = Proto /\ NoCallbacks' = NoCallbacks
  BY <1>1 DEF Proto, NoCallbacks
<1>4. Control'
  BY <1>1, <1>3 DEF ChainsInv, Control
<1>5. pc = "before" => Followed("before", "blocks", parsed, view)'
  BY <1>1 DEF ChainsInv, Followed
<1>6. pc = "after" => Followed("after", "replaces", ParseResponse(Proto, reply.body), view)'
  BY <1>1, <1>3 DEF ChainsInv, Followed
<1>7. pc = "stream" => Followed("stream", "replaces", NoCallbacks, cbs)'
  BY <1>1, <1>3 DEF ChainsInv, Followed
<1> QED BY <1>1, <1>2, <1>4, <1>5, <1>6, <1>7 DEF ChainsInv

\* In every state of a request the chain under way has followed one list that was in
\* force since there was something to run it on, however often the list was replaced.
THEOREM ChainsInvariance == Spec => []ChainsInv
<1>1. ChainsInv /\ [Next]_vars => ChainsInv'
  <2> SUFFICES ASSUME ChainsInv, [Next]_vars PROVE ChainsInv'
    OBVIOUS
  <2> QED BY LoadsKeeps, AdvancesKeeps, RegistersKeeps, OutsideKeeps, ReloadKeeps DEF Next, Done
<1> QED BY <1>1, InitChains, PTL DEF Spec

\* A chain at its end has followed its list to the end.
LEMMA AtTheEnd ==
    ASSUME ChainsInv
    PROVE  /\ \A p \in {"before", "after", "stream"} : Over(p) => chain \in past
           /\ Over("before") => LetsPass(chain, "blocks") /\ view = BeforeOf(chain, ParseRequest(Proto, request.body))
           /\ Over("after") => LetsPass(chain, "replaces") /\ view = AfterOf(chain, ParseResponse(Proto, reply.body))
           /\ Over("stream") => LetsPass(chain, "replaces") /\ cbs = CallbacksOf(chain)
<1>1. PICK n \in Nat : n = Len(chain) /\ DOMAIN chain = 1..n
  BY ListsAre DEF ChainsInv, TypeOK
<1>2. ASSUME NEW p \in {"before", "after", "stream"}, Over(p)
      PROVE  pc = p /\ chain \in past /\ at - 1 = n
  <2>1. pc = p /\ at \notin 1..n
    BY <1>1, <1>2 DEF Over, InForce
  <2>2. at \in Nat \ {0} /\ at <= n + 1 /\ chain \in past
    BY <1>1, <2>1 DEF ChainsInv, TypeOK, Control
  <2>3. at = n + 1
    BY <2>1, <2>2
  <2> QED BY <2>1, <2>2, <2>3
<1>3. \A hook, v0 : MadeUpTo(hook, chain, n, v0, request.path, luck) = MadeBy(hook, chain, v0, request.path, luck)
  BY <1>1 DEF MadeUpTo, MadeBy
<1>4. ASSUME NEW hook, NEW type, NEW v0, NEW v, Followed(hook, type, v0, v), at - 1 = n
      PROVE  LetsPass(chain, type) /\ v = MadeBy(hook, chain, v0, request.path, luck)
  BY <1>1, <1>3, <1>4 DEF Followed, LetsPass
<1>5. Over("before") => LetsPass(chain, "blocks") /\ view = BeforeOf(chain, ParseRequest(Proto, request.body))
  BY <1>2, <1>4 DEF ChainsInv, Control, BeforeOf
<1>6. Over("after") => LetsPass(chain, "replaces") /\ view = AfterOf(chain, ParseResponse(Proto, reply.body))
  BY <1>2, <1>4 DEF ChainsInv, AfterOf
<1>7. Over("stream") => LetsPass(chain, "replaces") /\ cbs = CallbacksOf(chain)
  BY <1>2, <1>4 DEF ChainsInv, CallbacksOf
<1> QED BY <1>2, <1>5, <1>6, <1>7

\* Chains' ChainsAreWhole for any lists, requests and answers: a chain that comes to its
\* end has done what one list as a whole does that was in force since its request or
\* response was there (IterateBefore, IterateAfter, WrapStreamDispatcher, Reload).
THEOREM ChainsWhole == Spec => []ChainsAreWhole
<1>1. ASSUME ChainsInv PROVE ChainsAreWhole
  BY <1>1, AtTheEnd DEF ChainsAreWhole
<1> QED BY <1>1, ChainsInvariance, PTL

-----------------------------------------------------------------------------
(* Recursion along a sequence, in a set that its steps do not leave. *)

\* There is a function that is given by its value at 0 and by its steps.
Iterates(S, v0, N, step) ==
    \E f \in [0..N -> S] : f[0] = v0 /\ \A n \in 1..N : f[n] = step[n][f[n - 1]]

LEMMA Recursion ==
    ASSUME NEW S, NEW v0 \in S, NEW N \in Nat, NEW step, \A n \in 1..N : \A x \in S : step[n][x] \in S
    PROVE  Iterates(S, v0, N, step)
<1> DEFINE Goes(f, m) == f \in [0..m -> S] /\ f[0] = v0 /\ \A n \in 1..m : f[n] = step[n][f[n - 1]]
           T == {m \in 0..N : ~ \E f : Goes(f, m)}
<1>1. T = {}
  <2>1. SUFFICES ASSUME T # {} PROVE FALSE
    OBVIOUS
  <2>2. PICK m \in T : \A n \in T : m <= n
    <3> T \subseteq Nat
      OBVIOUS
    <3> HIDE DEF T
    <3> QED BY <2>1, Least
  <2>3. m \in 0..N /\ ~ \E f : Goes(f, m)
    OBVIOUS
  <2>4. CASE m = 0
    <3>1. Goes([n \in 0..0 |-> v0], m)
      BY <2>4
    <3> HIDE DEF Goes
    <3> QED BY <2>3, <3>1
  <2>5. CASE m # 0
    <3>1. m - 1 \in 0..N /\ ~ (m <= m - 1)
      BY <2>3, <2>5
    <3>2. m - 1 \notin T
      <4> HIDE DEF T
      <4> QED BY <2>2, <3>1
    <3>3. PICK g : Goes(g, m - 1)
      <4> HIDE DEF Goes
      <4> QED BY <3>1, <3>2
    <3> DEFINE f == [n \in 0..m |-> IF n = m THEN step[m][g[m - 1]] ELSE g[n]]
    <3>4. step[m][g[m - 1]] \in S
      BY <2>3, <2>5, <3>3
    <3>5. f \in [0..m -> S]
      BY <2>3, <3>3, <3>4
    <3>6. f[0] = v0
      BY <2>3, <2>5, <3>3
    <3>7. ASSUME NEW n \in 1..m PROVE f[n] = step[n][f[n - 1]]
      BY <2>3, <2>5, <3>3
    <3>8. Goes(f, m)
      <4> HIDE DEF f
      <4> QED BY <3>5, <3>6, <3>7
    <3> HIDE DEF Goes, f
    <3> QED BY <2>3, <3>8
  <2> QED BY <2>4, <2>5
<1> QED BY <1>1 DEF Iterates

\* What each value hands to the next holds of all of them.
LEMMA Preserved ==
    ASSUME NEW S, NEW N \in Nat, NEW k \in Nat, NEW f, f[k] \in S,
           \A n \in k..N : n # k /\ f[n - 1] \in S => f[n] \in S
    PROVE  \A n \in k..N : f[n] \in S
<1> DEFINE T == {n \in k..N : f[n] \notin S}
<1>1. SUFFICES ASSUME T # {} PROVE FALSE
  OBVIOUS
<1>2. PICK m \in T : \A n \in T : m <= n
  <2> T \subseteq Nat
    OBVIOUS
  <2> HIDE DEF T
  <2> QED BY <1>1, Least
<1>3. m \in k..N /\ m # k /\ m - 1 \in k..N /\ m - 1 \notin T
  BY <1>2
<1> QED BY <1>2, <1>3

\* FlattenSeq of the community modules stays in S.
LEMMA FlattenIn ==
    ASSUME NEW S, NEW seqs, NEW N \in Nat, Len(seqs) = N, N # 0, seqs[1] \in S,
           \A n \in 2..N : \A x \in S : x \o seqs[n] \in S
    PROVE  FlattenSeq(seqs) \in S
<1> DEFINE Goes(f) == f = [i \in 1..N |-> IF i = 1 THEN seqs[i] ELSE f[i - 1] \o seqs[i]]
           flatten == CHOOSE f : Goes(f)
           step == [n \in 1..N |-> [x \in S |-> IF n = 1 THEN seqs[1] ELSE x \o seqs[n]]]
<1>1. \A n \in 1..N : \A x \in S : step[n][x] = IF n = 1 THEN seqs[1] ELSE x \o seqs[n]
  OBVIOUS
<1>2. PICK g \in [0..N -> S] : \A n \in 1..N : g[n] = step[n][g[n - 1]]
  <2> HIDE DEF step
  <2>1. \A n \in 1..N : \A x \in S : step[n][x] \in S
    BY <1>1
  <2>2. Iterates(S, seqs[1], N, step)
    BY <2>1, Recursion
  <2> QED BY <2>2 DEF Iterates
<1>3. Goes([i \in 1..N |-> g[i]])
  <2> HIDE DEF step
  <2>1. ASSUME NEW i \in 1..N
        PROVE  g[i] = IF i = 1 THEN seqs[i] ELSE [k \in 1..N |-> g[k]][i - 1] \o seqs[i]
    <3>1. i - 1 \in 0..N /\ g[i - 1] \in S /\ (i # 1 => i - 1 \in 1..N)
      OBVIOUS
    <3> QED BY <1>1, <1>2, <3>1
  <2> QED BY <2>1
<1>4. Goes(flatten)
  <2> HIDE DEF Goes
  <2> QED BY <1>3
<1>5. \A n \in 1..N : flatten[n] \in S
  <2>1. flatten[1] \in S
    <3> HIDE DEF flatten
    <3> QED BY <1>4
  <2>2. ASSUME NEW n \in 1..N, n # 1, flatten[n - 1] \in S PROVE flatten[n] \in S
    <3>1. flatten[n] = flatten[n - 1] \o seqs[n]
      <4> HIDE DEF flatten
      <4> QED BY <1>4, <2>2
    <3>2. n \in 2..N
      BY <2>2
    <3> HIDE DEF flatten
    <3> QED BY <2>2, <3>1, <3>2
  <2> HIDE DEF flatten
  <2> QED BY <2>1, <2>2, Preserved
<1>6. FlattenSeq(seqs) = flatten[N]
  BY DEF FlattenSeq
<1> HIDE DEF flatten
<1> QED BY <1>5, <1>6

LEMMA ApplyRulesIn ==
    ASSUME NEW S, NEW text \in S, NEW rules, NEW N \in Nat, Len(rules) = N,
           \A n \in 1..N : \A x \in S : ReplaceToken(x, rules[n]) \in S
    PROVE  ApplyRules(text, rules) \in S
<1> DEFINE Goes(f) == f = [n \in 0..N |-> IF n = 0 THEN text ELSE ReplaceToken(f[n - 1], rules[n])]
           after == CHOOSE f : Goes(f)
           step == [n \in 1..N |-> [x \in S |-> ReplaceToken(x, rules[n])]]
<1>1. \A n \in 1..N : \A x \in S : step[n][x] = ReplaceToken(x, rules[n])
  OBVIOUS
<1>2. PICK g \in [0..N -> S] : g[0] = text /\ \A n \in 1..N : g[n] = step[n][g[n - 1]]
  <2> HIDE DEF step
  <2>1. \A n \in 1..N : \A x \in S : step[n][x] \in S
    BY <1>1
  <2>2. Iterates(S, text, N, step)
    BY <2>1, Recursion
  <2> QED BY <2>2 DEF Iterates
<1>3. Goes(g)
  <2> HIDE DEF step
  <2>1. ASSUME NEW n \in 0..N PROVE g[n] = IF n = 0 THEN text ELSE ReplaceToken(g[n - 1], rules[n])
    <3>1. n # 0 => n \in 1..N /\ n - 1 \in 0..N /\ g[n - 1] \in S
      OBVIOUS
    <3> QED BY <1>1, <1>2, <3>1
  <2> QED BY <2>1
<1>4. Goes(after)
  <2> HIDE DEF Goes
  <2> QED BY <1>3
<1>5. \A n \in 0..N : after[n] \in S
  <2>1. after[0] \in S
    <3> HIDE DEF after
    <3> QED BY <1>4
  <2>2. ASSUME NEW n \in 0..N, n # 0, after[n - 1] \in S PROVE after[n] \in S
    <3>1. after[n] = ReplaceToken(after[n - 1], rules[n])
      <4> HIDE DEF after
      <4> QED BY <1>4, <2>2
    <3>2. n \in 1..N
      BY <2>2
    <3> HIDE DEF after
    <3> QED BY <2>2, <3>1, <3>2
  <2> HIDE DEF after
  <2> QED BY <2>1, <2>2, Preserved
<1> HIDE DEF Goes
<1> QED BY <1>5 DEF ApplyRules, Goes

LEMMA RewrittenIn ==
    ASSUME NEW S, NEW text \in S, NEW each, NEW N \in Nat, Len(each) = N,
           \A n \in 1..N : \A x \in S : ApplyRules(x, each[n]) \in S
    PROVE  Rewritten(text, each) \in S
<1> DEFINE Goes(f) == f = [n \in 0..N |-> IF n = 0 THEN text ELSE ApplyRules(f[n - 1], each[n])]
           after == CHOOSE f : Goes(f)
           step == [n \in 1..N |-> [x \in S |-> ApplyRules(x, each[n])]]
<1>1. \A n \in 1..N : \A x \in S : step[n][x] = ApplyRules(x, each[n])
  OBVIOUS
<1>2. PICK g \in [0..N -> S] : g[0] = text /\ \A n \in 1..N : g[n] = step[n][g[n - 1]]
  <2> HIDE DEF step
  <2>1. \A n \in 1..N : \A x \in S : step[n][x] \in S
    BY <1>1
  <2>2. Iterates(S, text, N, step)
    BY <2>1, Recursion
  <2> QED BY <2>2 DEF Iterates
<1>3. Goes(g)
  <2> HIDE DEF step
  <2>1. ASSUME NEW n \in 0..N PROVE g[n] = IF n = 0 THEN text ELSE ApplyRules(g[n - 1], each[n])
    <3>1. n # 0 => n \in 1..N /\ n - 1 \in 0..N /\ g[n - 1] \in S
      OBVIOUS
    <3> QED BY <1>1, <1>2, <3>1
  <2> QED BY <2>1
<1>4. Goes(after)
  <2> HIDE DEF Goes
  <2> QED BY <1>3
<1>5. \A n \in 0..N : after[n] \in S
  <2>1. after[0] \in S
    <3> HIDE DEF after
    <3> QED BY <1>4
  <2>2. ASSUME NEW n \in 0..N, n # 0, after[n - 1] \in S PROVE after[n] \in S
    <3>1. after[n] = ApplyRules(after[n - 1], each[n])
      <4> HIDE DEF after
      <4> QED BY <1>4, <2>2
    <3>2. n \in 1..N
      BY <2>2
    <3> HIDE DEF after
    <3> QED BY <2>2, <3>1, <3>2
  <2> HIDE DEF after
  <2> QED BY <2>1, <2>2, Preserved
<1> HIDE DEF Goes
<1> QED BY <1>5 DEF Rewritten, Goes

LEMMA LinesIn ==
    ASSUME NEW S, NoText \in S, NEW texts, NEW N \in Nat, Len(texts) = N,
           \A n \in 1..N : \A x \in S : AddLine(x, texts[n]) \in S
    PROVE  /\ Lines(texts) \in S
           /\ N # 0 => \E x \in S : Lines(texts) = AddLine(x, texts[N])
<1> DEFINE Goes(f) == f = [n \in 0..N |-> IF n = 0 THEN NoText ELSE AddLine(f[n - 1], texts[n])]
           after == CHOOSE f : Goes(f)
           step == [n \in 1..N |-> [x \in S |-> AddLine(x, texts[n])]]
<1>1. \A n \in 1..N : \A x \in S : step[n][x] = AddLine(x, texts[n])
  OBVIOUS
<1>2. PICK g \in [0..N -> S] : g[0] = NoText /\ \A n \in 1..N : g[n] = step[n][g[n - 1]]
  <2> HIDE DEF step
  <2>1. \A n \in 1..N : \A x \in S : step[n][x] \in S
    BY <1>1
  <2>2. Iterates(S, NoText, N, step)
    BY <2>1, Recursion
  <2> QED BY <2>2 DEF Iterates
<1>3. Goes(g)
  <2> HIDE DEF step
  <2>1. ASSUME NEW n \in 0..N PROVE g[n] = IF n = 0 THEN NoText ELSE AddLine(g[n - 1], texts[n])
    <3>1. n # 0 => n \in 1..N /\ n - 1 \in 0..N /\ g[n - 1] \in S
      OBVIOUS
    <3> QED BY <1>1, <1>2, <3>1
  <2> QED BY <2>1
<1>4. Goes(after)
  <2> HIDE DEF Goes
  <2> QED BY <1>3
<1>5. \A n \in 0..N : after[n] \in S
  <2>1. after[0] \in S
    <3> HIDE DEF after
    <3> QED BY <1>4
  <2>2. ASSUME NEW n \in 0..N, n # 0, after[n - 1] \in S PROVE after[n] \in S
    <3>1. after[n] = AddLine(after[n - 1], texts[n])
      <4> HIDE DEF after
      <4> QED BY <1>4, <2>2
    <3>2. n \in 1..N
      BY <2>2
    <3> HIDE DEF after
    <3> QED BY <2>2, <3>1, <3>2
  <2> HIDE DEF after
  <2> QED BY <2>1, <2>2, Preserved
<1>6. N # 0 => after[N - 1] \in S /\ after[N] = AddLine(after[N - 1], texts[N])
  <2> HIDE DEF after
  <2> QED BY <1>4, <1>5
<1>7. Lines(texts) = after[N]
  BY DEF Lines
<1> HIDE DEF Goes, after
<1> QED BY <1>5, <1>6, <1>7

-----------------------------------------------------------------------------
(* Texts with and without a mark. *)

Marked(type) == {t \in Seq(Tokens) : t # NoText /\ t[1] = type}

LEMMA ElementsAre ==
    ASSUME NEW S, NEW s \in Seq(S)
    PROVE  Len(s) \in Nat /\ DOMAIN s = 1..Len(s) /\ \A i \in 1..Len(s) : s[i] \in S
  OBVIOUS

LEMMA NonEmpty ==
    ASSUME NEW S, NEW s \in Seq(S), s # <<>>
    PROVE  Len(s) \in Nat \ {0} /\ DOMAIN s = 1..Len(s)
  OBVIOUS

LEMMA MapIsSeq ==
    ASSUME NEW S, NEW A, NEW s \in Seq(A), NEW f, f \in [DOMAIN s -> S]
    PROVE  f \in Seq(S)
<1>1. PICK n \in Nat : DOMAIN s = 1..n
  OBVIOUS
<1>2. f \in [1..n -> S]
  BY <1>1
<1> QED BY <1>2

LEMMA JoinMarked ==
    ASSUME NEW type, NEW x \in Marked(type), NEW y \in Seq(Tokens)
    PROVE  x \o y \in Marked(type)
<1>1. x \in Seq(Tokens) /\ x # <<>> /\ x[1] = type
  BY DEF Marked, NoText
<1>2. Len(x) \in Nat \ {0}
  BY <1>1
<1>3. x \o y \in Seq(Tokens) /\ Len(x \o y) = Len(x) + Len(y) /\ (x \o y)[1] = type
  BY <1>1, <1>2
<1>4. x \o y # <<>>
  <2>1. Len(y) \in Nat
    OBVIOUS
  <2>2. Len(x \o y) # 0 /\ Len(<<>>) = 0
    BY <1>2, <1>3, <2>1
  <2> QED BY <2>2
<1> QED BY <1>3, <1>4 DEF Marked, NoText

LEMMA FlattenAll == ASSUME NEW A, NEW seqs \in Seq(Seq(A)) PROVE FlattenSeq(seqs) \in Seq(A)
<1>1. CASE Len(seqs) = 0
  <2>1. seqs = <<>>
    BY <1>1
  <2> QED BY <1>1, <2>1 DEF FlattenSeq
<1>2. CASE Len(seqs) # 0
  <2>1. /\ Len(seqs) \in Nat /\ seqs[1] \in Seq(A)
        /\ \A n \in 2..Len(seqs) : \A x \in Seq(A) : x \o seqs[n] \in Seq(A)
    BY <1>2
  <2> QED BY <1>2, <2>1, FlattenIn
<1> QED BY <1>1, <1>2

\* A sequence that begins with a marked text is joined to a marked text.
LEMMA FlattenMarked ==
    ASSUME NEW type, NEW texts \in Seq(Seq(Tokens)), texts # <<>>, texts[1] \in Marked(type)
    PROVE  FlattenSeq(texts) \in Marked(type)
<1>1. /\ Len(texts) \in Nat /\ Len(texts) # 0
      /\ \A n \in 2..Len(texts) : texts[n] \in Seq(Tokens)
  OBVIOUS
<1>2. \A n \in 2..Len(texts) : \A x \in Marked(type) : x \o texts[n] \in Marked(type)
  BY <1>1, JoinMarked
<1> QED BY <1>1, <1>2, FlattenIn

LEMMA FlattenOne == ASSUME NEW s PROVE FlattenSeq(<<s>>) = s
<1>1. PICK q : q = <<s>>
  OBVIOUS
<1>2. /\ Len(q) = 1 /\ q[1] \in {s}
      /\ \A n \in 2..1 : \A x \in {s} : x \o q[n] \in {s}
  BY <1>1
<1>3. FlattenSeq(q) \in {s}
  <2>1. PICK S : S = {s}
    OBVIOUS
  <2>2. PICK n \in Nat : n = 1
    OBVIOUS
  <2>3. Len(q) = n /\ n # 0 /\ q[1] \in S /\ \A k \in 2..n : \A x \in S : x \o q[k] \in S
    BY <1>2, <2>1, <2>2
  <2> QED BY <2>1, <2>3, FlattenIn
<1> QED BY <1>1, <1>3

LEMMA NothingIsSeq == ASSUME NEW A PROVE <<>> \in Seq(A)
  OBVIOUS

LEMMA OneIsSeq == ASSUME NEW A, NEW a \in A PROVE <<a>> \in Seq(A)
  OBVIOUS

LEMMA UnmarkedAre == Unmarked \subseteq Seq(Tokens)
<1>1. ASSUME NEW t \in Seq(Tokens \ Marks) PROVE t \in Seq(Tokens)
  <2>1. \A i \in 1..Len(t) : t[i] \in Tokens
    BY ElementsAre
  <2>2. t \in [DOMAIN t -> Tokens]
    BY <2>1, ElementsAre
  <2> QED BY <2>2, MapIsSeq
<1> QED BY <1>1 DEF Unmarked

\* The parts that are flattened when a token is replaced.
LEMMA Replaced ==
    ASSUME NEW A, NEW text \in Seq(A), NEW rule, rule.replace \in Seq(A)
    PROVE  [i \in DOMAIN text |-> IF text[i] = rule.match THEN rule.replace ELSE <<text[i]>>] \in Seq(Seq(A))
<1> DEFINE parts == [i \in DOMAIN text |-> IF text[i] = rule.match THEN rule.replace ELSE <<text[i]>>]
<1>1. \A i \in DOMAIN text : text[i] \in A
  BY ElementsAre
<1>2. \A i \in DOMAIN text : <<text[i]>> \in Seq(A)
  BY <1>1, OneIsSeq
<1>3. parts \in [DOMAIN text -> Seq(A)]
  BY <1>2
<1> HIDE DEF parts
<1>4. parts \in Seq(Seq(A))
  BY <1>3, MapIsSeq
<1> QED BY <1>4 DEF parts

\* Rules that neither look for a mark nor make one.
LEMMA ReplaceKeeps ==
    ASSUME NEW rule \in [match : Tokens \ Marks, replace : Unmarked]
    PROVE  /\ \A text \in Unmarked : ReplaceToken(text, rule) \in Unmarked
           /\ \A type \in Marks : \A text \in Marked(type) : ReplaceToken(text, rule) \in Marked(type)
<1> DEFINE parts(text) == [i \in DOMAIN text |-> IF text[i] = rule.match THEN rule.replace ELSE <<text[i]>>]
<1>1. rule.match \notin Marks /\ rule.replace \in Unmarked
  OBVIOUS
<1>2. ASSUME NEW text \in Unmarked PROVE ReplaceToken(text, rule) \in Unmarked
  <2>1. parts(text) \in Seq(Seq(Tokens \ Marks))
    BY <1>1, Replaced DEF Unmarked
  <2> HIDE DEF parts
  <2>2. FlattenSeq(parts(text)) \in Seq(Tokens \ Marks)
    BY <2>1, FlattenAll
  <2> QED BY <2>2 DEF ReplaceToken, Unmarked, parts
<1>3. ASSUME NEW type \in Marks, NEW text \in Marked(type) PROVE ReplaceToken(text, rule) \in Marked(type)
  <2>1. text \in Seq(Tokens) /\ text # <<>> /\ text[1] = type
    BY DEF Marked, NoText
  <2>2. PICK n \in Nat \ {0} : DOMAIN text = 1..n
    BY <2>1, NonEmpty
  <2>3. PICK p : p = parts(text)
    OBVIOUS
  <2>4. p \in Seq(Seq(Tokens))
    <3>1. rule.replace \in Seq(Tokens)
      BY <1>1, UnmarkedAre
    <3> QED BY <2>1, <2>3, <3>1, Replaced
  <2>5. DOMAIN p = 1..n /\ p[1] = <<type>>
    <3>1. rule.match # text[1]
      BY <1>1, <2>1
    <3>4. 1 \in DOMAIN text
      BY <2>2
    <3>2. DOMAIN p = DOMAIN text
      BY <2>3
    <3>3. p[1] = <<text[1]>>
      BY <2>3, <3>1, <3>4
    <3> QED BY <2>1, <2>2, <3>2, <3>3
  <2>6. p # <<>>
    <3>1. 1 \in 1..n
      BY <2>2
    <3>2. Len(p) \in Nat /\ DOMAIN p = 1..Len(p)
      BY <2>4, ElementsAre
    <3>3. Len(p) # 0
      BY <2>5, <3>1, <3>2
    <3> QED BY <3>3
  <2>7. <<type>> \in Marked(type)
    <3>1. type \in Tokens
      BY MarksAssumption
    <3>2. <<type>> \in Seq(Tokens)
      BY <3>1, OneIsSeq
    <3> QED BY <3>2 DEF Marked, NoText
  <2>8. FlattenSeq(p) \in Marked(type)
    BY <2>4, <2>5, <2>6, <2>7, FlattenMarked
  <2> QED BY <2>3, <2>8 DEF ReplaceToken
<1> QED BY <1>2, <1>3

LEMMA RulesKeep ==
    ASSUME NEW rules \in UnmarkedRules
    PROVE  /\ \A text \in Unmarked : ApplyRules(text, rules) \in Unmarked
           /\ \A type \in Marks : \A text \in Marked(type) : ApplyRules(text, rules) \in Marked(type)
<1>1. Len(rules) \in Nat /\ \A n \in 1..Len(rules) : rules[n] \in [match : Tokens \ Marks, replace : Unmarked]
  <2>1. rules \in Seq([match : Tokens \ Marks, replace : Unmarked])
    BY DEF UnmarkedRules
  <2> QED BY <2>1, ElementsAre
<1>2. ASSUME NEW text \in Unmarked PROVE ApplyRules(text, rules) \in Unmarked
  <2>1. \A n \in 1..Len(rules) : \A x \in Unmarked : ReplaceToken(x, rules[n]) \in Unmarked
    BY <1>1, ReplaceKeeps
  <2> QED BY <1>1, <2>1, ApplyRulesIn
<1>3. ASSUME NEW type \in Marks, NEW text \in Marked(type) PROVE ApplyRules(text, rules) \in Marked(type)
  <2>1. \A n \in 1..Len(rules) : \A x \in Marked(type) : ReplaceToken(x, rules[n]) \in Marked(type)
    BY <1>1, ReplaceKeeps
  <2> QED BY <1>1, <2>1, ApplyRulesIn
<1> QED BY <1>2, <1>3

LEMMA RewrittenKeeps ==
    ASSUME NEW each \in Seq(UnmarkedRules), NEW text \in Unmarked
    PROVE  Rewritten(text, each) \in Unmarked
<1>1. Len(each) \in Nat /\ \A n \in 1..Len(each) : each[n] \in UnmarkedRules
  OBVIOUS
<1>2. \A n \in 1..Len(each) : \A x \in Unmarked : ApplyRules(x, each[n]) \in Unmarked
  BY <1>1, RulesKeep
<1> QED BY <1>1, <1>2, RewrittenIn

\* What is lifted from blocks.
LEMMA BlockTextsAre ==
    ASSUME NEW b, b.blocks \in Seq([type : BlockTypes, text : Seq(Tokens)]), NEW type
    PROVE  BlockTexts(b, type) \in Seq(Seq(Tokens))
<1>1. [i \in DOMAIN b.blocks |-> IF b.blocks[i].type = type THEN <<b.blocks[i].text>> ELSE <<>>]
        \in Seq(Seq(Seq(Tokens)))
  <2>1. [i \in DOMAIN b.blocks |-> IF b.blocks[i].type = type THEN <<b.blocks[i].text>> ELSE <<>>]
          \in [DOMAIN b.blocks -> Seq(Seq(Tokens))]
    <3>1. \A i \in DOMAIN b.blocks : b.blocks[i] \in [type : BlockTypes, text : Seq(Tokens)]
      BY ElementsAre
    <3>2. \A c \in [type : BlockTypes, text : Seq(Tokens)] : c.text \in Seq(Tokens)
      OBVIOUS
    <3>3. \A i \in DOMAIN b.blocks : <<b.blocks[i].text>> \in Seq(Seq(Tokens))
      BY <3>1, <3>2
    <3>4. <<>> \in Seq(Seq(Tokens))
      OBVIOUS
    <3> QED BY <3>3, <3>4
  <2> QED BY <2>1, MapIsSeq
<1> QED BY <1>1, FlattenAll DEF BlockTexts

LEMMA BlockTextsUnmarked ==
    ASSUME NEW b, b.blocks \in Seq(UnmarkedBlocks)
    PROVE  BlockTexts(b, "text") \in Seq(Unmarked)
<1>1. [i \in DOMAIN b.blocks |-> IF b.blocks[i].type = "text" THEN <<b.blocks[i].text>> ELSE <<>>]
        \in Seq(Seq(Unmarked))
  <2>1. \A i \in DOMAIN b.blocks : b.blocks[i].type = "text" => b.blocks[i].text \in Unmarked
    BY DEF UnmarkedBlocks
  <2>2. [i \in DOMAIN b.blocks |-> IF b.blocks[i].type = "text" THEN <<b.blocks[i].text>> ELSE <<>>]
          \in [DOMAIN b.blocks -> Seq(Unmarked)]
    BY <2>1
  <2> QED BY <2>2, MapIsSeq
<1> QED BY <1>1, FlattenAll DEF BlockTexts

LEMMA JoinsUnmarked ==
    ASSUME NEW texts \in Seq(Unmarked)
    PROVE  Concat(texts) \in Unmarked /\ Lines(texts) \in Unmarked
<1>1. Concat(texts) \in Unmarked
  BY FlattenAll DEF Concat, Unmarked
<1>2. Len(texts) \in Nat /\ \A n \in 1..Len(texts) : texts[n] \in Unmarked
  OBVIOUS
<1>3. \A n \in 1..Len(texts) : \A x \in Unmarked : AddLine(x, texts[n]) \in Unmarked
  <2>1. <<Newline>> \in Unmarked
    <3>1. Newline \in Tokens
      BY MarksAssumption
    <3>2. Newline \notin Marks
      BY DEF Newline, Marks
    <3> QED BY <3>1, <3>2, OneIsSeq DEF Unmarked
  <2>2. ASSUME NEW x \in Unmarked, NEW y \in Unmarked PROVE AddLine(x, y) \in Unmarked
    <3>1. x \o <<Newline>> \o y \in Unmarked
      BY <2>1, <2>2 DEF Unmarked
    <3> QED BY <2>2, <3>1 DEF AddLine
  <2> QED BY <1>2, <2>2
<1>4. NoText \in Unmarked
  BY DEF NoText, Unmarked
<1> QED BY <1>1, <1>2, <1>3, <1>4, LinesIn

-----------------------------------------------------------------------------
(* Replies, and who is heard in them. *)

Says(blocks, type) ==
    \E i \in DOMAIN blocks : blocks[i].type = "text" /\ blocks[i].text # NoText /\ blocks[i].text[1] = type

LEMMA SaysJoin ==
    ASSUME NEW S, NEW x \in Seq(S), NEW y \in Seq(S), NEW type
    PROVE  Says(x \o y, type) <=> Says(x, type) \/ Says(y, type)
<1>1. PICK m \in Nat : m = Len(x) /\ DOMAIN x = 1..m
  BY ElementsAre
<1>2. PICK n \in Nat : n = Len(y) /\ DOMAIN y = 1..n
  BY ElementsAre
<1>3. DOMAIN (x \o y) = 1..(m + n)
  BY <1>1, <1>2
<1>4. \A i \in 1..m : (x \o y)[i] = x[i]
  BY <1>1, <1>2
<1>5. \A i \in 1..n : (x \o y)[m + i] = y[i]
  BY <1>1, <1>2
<1>6. \A i \in 1..m : i \in 1..(m + n)
  OBVIOUS
<1>7. \A i \in 1..n : m + i \in 1..(m + n)
  OBVIOUS
<1>8. \A i \in 1..(m + n) : i \in 1..m \/ \E k \in 1..n : i = m + k
  <2>1. ASSUME NEW i \in 1..(m + n), i \notin 1..m PROVE \E k \in 1..n : i = m + k
    <3>1. i - m \in 1..n /\ i = m + (i - m)
      BY <2>1
    <3> QED BY <3>1
  <2> QED BY <2>1
<1> DEFINE Heard(b) == b.type = "text" /\ b.text # NoText /\ b.text[1] = type
           whole == x \o y
<1>9. \A s : Says(s, type) <=> \E i \in DOMAIN s : Heard(s[i])
  BY DEF Says
<1>10. /\ Says(x, type) <=> \E i \in 1..m : Heard(x[i])
       /\ Says(y, type) <=> \E i \in 1..n : Heard(y[i])
       /\ Says(whole, type) <=> \E i \in 1..(m + n) : Heard(whole[i])
  <2> HIDE DEF Heard
  <2> QED BY <1>1, <1>2, <1>3, <1>9
<1> HIDE DEF Heard, whole
<1>11. Says(x, type) => Says(whole, type)
  BY <1>4, <1>6, <1>10 DEF whole
<1>12. Says(y, type) => Says(whole, type)
  BY <1>5, <1>7, <1>10 DEF whole
<1>13. Says(whole, type) => Says(x, type) \/ Says(y, type)
  BY <1>4, <1>5, <1>8, <1>10 DEF whole
<1> QED BY <1>11, <1>12, <1>13 DEF whole

\* Of a reply that is written anew, one hears the text.
LEMMA WrittenSays ==
    ASSUME NEW r, r.calls \in Seq(Seq(Tokens)), NEW type
    PROVE  /\ Says(BlockUnlessEmpty("text", r.content) \o ToolBlocks(r), type)
                <=> r.content # NoText /\ r.content[1] = type
           /\ Says(BlockUnlessEmpty("reasoning", r.reasoning) \o BlockUnlessEmpty("text", r.content) \o ToolBlocks(r), type)
                <=> r.content # NoText /\ r.content[1] = type
<1> DEFINE thought == BlockUnlessEmpty("reasoning", r.reasoning)
           said == BlockUnlessEmpty("text", r.content)
           S == {Block("reasoning", r.reasoning), Block("text", r.content)} \cup {Block("tool", t) : t \in Seq(Tokens)}
<1>0. <<>> \in Seq(S) /\ (Says(<<>>, type) <=> FALSE)
  BY DEF Says
<1>1. thought \in Seq(S) /\ ~ Says(thought, type)
  <2>1. CASE thought = <<>>
    BY <1>0, <2>1
  <2>2. CASE thought = <<Block("reasoning", r.reasoning)>>
    <3>1. Block("reasoning", r.reasoning) \in S /\ Block("reasoning", r.reasoning).type # "text"
      BY DEF Block
    <3>2. <<Block("reasoning", r.reasoning)>> \in Seq(S)
      BY <3>1, OneIsSeq
    <3>3. ~ Says(<<Block("reasoning", r.reasoning)>>, type)
      BY <3>1 DEF Says
    <3> QED BY <2>2, <3>2, <3>3
  <2> QED BY <2>1, <2>2 DEF BlockUnlessEmpty
<1>2. said \in Seq(S) /\ (Says(said, type) <=> r.content # NoText /\ r.content[1] = type)
  <2>1. CASE r.content = NoText
    BY <1>0, <2>1 DEF BlockUnlessEmpty
  <2>2. CASE r.content # NoText
    <3>1. Block("text", r.content) \in S /\ Block("text", r.content).type = "text"
          /\ Block("text", r.content).text = r.content
      BY DEF Block
    <3>2. <<Block("text", r.content)>> \in Seq(S)
      BY <3>1, OneIsSeq
    <3>3. Says(<<Block("text", r.content)>>, type) <=> r.content[1] = type
      BY <2>2, <3>1 DEF Says
    <3>4. said = <<Block("text", r.content)>>
      BY <2>2 DEF BlockUnlessEmpty
    <3> QED BY <2>2, <3>2, <3>3, <3>4
  <2> QED BY <2>1, <2>2
<1>3. ToolBlocks(r) \in Seq(S) /\ ~ Says(ToolBlocks(r), type)
  <2>1. \A i \in DOMAIN r.calls : r.calls[i] \in Seq(Tokens)
    BY ElementsAre
  <2>2. ToolBlocks(r) \in [DOMAIN r.calls -> S]
    BY <2>1 DEF ToolBlocks
  <2>3. \A i \in DOMAIN r.calls : ToolBlocks(r)[i].type = "tool"
    BY DEF ToolBlocks, Block
  <2>4. ToolBlocks(r) \in Seq(S)
    BY <2>2, MapIsSeq
  <2> QED BY <2>2, <2>3, <2>4 DEF Says
<1> HIDE DEF thought, said, S
<1>4. said \o ToolBlocks(r) \in Seq(S) /\ thought \o said \in Seq(S)
  BY <1>1, <1>2, <1>3
<1>5. Says(said \o ToolBlocks(r), type) <=> r.content # NoText /\ r.content[1] = type
  BY <1>2, <1>3, SaysJoin
<1>6. Says(thought \o said \o ToolBlocks(r), type) <=> r.content # NoText /\ r.content[1] = type
  BY <1>1, <1>2, <1>3, <1>4, SaysJoin
<1> QED BY <1>5, <1>6 DEF thought, said

LEMMA SaysWhoIs == ASSUME NEW body, NEW type PROVE SaysWho(body, type) <=> Says(body.blocks, type)
  BY DEF SaysWho, Says

\* BuildResponse either writes anew what is lifted, or gives the raw body.
LEMMA BuildSays ==
    ASSUME NEW p \in Protocols, NEW r, r.calls \in Seq(Seq(Tokens)), NEW type, IsBuilt(BuildResponse(p, r))
    PROVE  /\ p # "unknown"
           /\ \/ SaysWho(BuildResponse(p, r), type) <=> r.content # NoText /\ r.content[1] = type
              \/ BuildResponse(p, r) = r.raw
<1>1. p # "unknown"
  BY DEF BuildResponse, IsBuilt
<1>2. CASE p = "chat"
  <2>1. BuildResponse(p, r).blocks = BlockUnlessEmpty("text", r.content) \o ToolBlocks(r)
    BY <1>2 DEF BuildResponse, BuildChatReply, Response
  <2> QED BY <1>1, <2>1, WrittenSays, SaysWhoIs
<1>3. CASE p = "messages"
  <2>1. BuildResponse(p, r).blocks
          = BlockUnlessEmpty("reasoning", r.reasoning) \o BlockUnlessEmpty("text", r.content) \o ToolBlocks(r)
    BY <1>3 DEF BuildResponse, BuildMessagesReply, Response, IsBuilt
  <2> QED BY <1>1, <2>1, WrittenSays, SaysWhoIs
<1>4. CASE p = "responses"
  <2>1. BuildResponse(p, r).blocks
          = BlockUnlessEmpty("reasoning", r.reasoning) \o BlockUnlessEmpty("text", r.content) \o ToolBlocks(r)
    BY <1>4 DEF BuildResponse, BuildResponsesReply, Response
  <2> QED BY <1>1, <2>1, WrittenSays, SaysWhoIs
<1>5. CASE p = "gemini"
  BY <1>1, <1>5 DEF BuildResponse, IsBuilt
<1> QED BY <1>1, <1>2, <1>3, <1>4, <1>5 DEF Protocols

\* In a reply without marks nobody is heard.
LEMMA UnmarkedSays ==
    ASSUME NEW blocks \in Seq(UnmarkedBlocks), NEW type \in Marks
    PROVE  ~ Says(blocks, type)
<1>1. ASSUME NEW i \in DOMAIN blocks, blocks[i].type = "text", blocks[i].text # NoText
      PROVE  blocks[i].text[1] # type
  <2>1. blocks[i] \in UnmarkedBlocks
    BY ElementsAre
  <2>2. blocks[i].text \in Seq(Tokens \ Marks)
    BY <1>1, <2>1 DEF UnmarkedBlocks, Unmarked
  <2>3. PICK t \in Seq(Tokens \ Marks) : t = blocks[i].text
    BY <2>2
  <2>4. Len(t) \in Nat \ {0}
    BY <1>1, <2>3, NonEmpty DEF NoText
  <2>5. t[1] \in Tokens \ Marks
    BY <2>4, ElementsAre
  <2> QED BY <2>3, <2>5
<1> QED BY <1>1 DEF Says

\* In what an interceptor answers with, it is heard.
LEMMA PayloadSays ==
    ASSUME NEW type \in Marks, NEW other
    PROVE  SaysWho(Payload(type).body, other) <=> other = type
<1>1. Payload(type).body.blocks = <<Block("text", <<type>>)>>
  BY DEF Payload, Response
<1>2. <<type>> # NoText /\ <<type>>[1] = type
  BY DEF NoText
<1> QED BY <1>1, <1>2 DEF SaysWho, Block

\* The view of a reply has these fields.
IsReply(r) == r = Reply(r.content, r.reasoning, r.calls, r.raw)

\* What is lifted out of a reply.
LEMMA ParseKeeps ==
    ASSUME NEW p \in Protocols, NEW b, b.blocks \in Seq([type : BlockTypes, text : Seq(Tokens)])
    PROVE  /\ IsReply(ParseResponse(p, b)) /\ ParseResponse(p, b).raw = b
           /\ ParseResponse(p, b).calls \in Seq(Seq(Tokens))
           /\ b.blocks \in Seq(UnmarkedBlocks) => ParseResponse(p, b).content \in Unmarked
<1>1. BlockTexts(b, "tool") \in Seq(Seq(Tokens)) /\ <<>> \in Seq(Seq(Tokens))
  <2>1. \A A : <<>> \in Seq(A)
    OBVIOUS
  <2> QED BY <2>1, BlockTextsAre
<1>2. ASSUME b.blocks \in Seq(UnmarkedBlocks)
      PROVE  /\ Concat(BlockTexts(b, "text")) \in Unmarked /\ Lines(BlockTexts(b, "text")) \in Unmarked
             /\ NoText \in Unmarked
  <2>1. BlockTexts(b, "text") \in Seq(Unmarked)
    BY <1>2, BlockTextsUnmarked
  <2>2. NoText \in Unmarked
    BY NothingIsSeq DEF Unmarked, NoText
  <2> QED BY <2>1, <2>2, JoinsUnmarked
<1>3. CASE p = "unknown" \/ b.json # "fits"
  BY <1>1, <1>2, <1>3 DEF ParseResponse, Reply, IsReply
<1>4. CASE p = "chat" /\ b.json = "fits"
  BY <1>1, <1>2, <1>4 DEF ParseResponse, ParseChatReply, Reply, IsReply
<1>5. CASE p = "messages" /\ b.json = "fits"
  BY <1>1, <1>2, <1>5 DEF ParseResponse, ParseMessagesReply, Reply, IsReply
<1>6. CASE p = "responses" /\ b.json = "fits"
  BY <1>1, <1>2, <1>6 DEF ParseResponse, ParseResponsesReply, Reply, IsReply
<1>7. CASE p = "gemini" /\ b.json = "fits"
  BY <1>1, <1>2, <1>7 DEF ParseResponse, ParseGeminiReply, Reply, IsReply
<1> QED BY <1>3, <1>4, <1>5, <1>6, <1>7 DEF Protocols

LEMMA ParseMarked ==
    ASSUME NEW p \in Protocols, NEW type \in Marks
    PROVE  /\ Payload(type).body.blocks \in Seq([type : BlockTypes, text : Seq(Tokens)])
           /\ p # "unknown" => ParseResponse(p, Payload(type).body).content \in Marked(type)
<1> DEFINE b == Payload(type).body
<1>1. b.json = "fits" /\ b.blocks = <<Block("text", <<type>>)>>
  BY DEF Payload, Response
<1>2. <<type>> \in Seq(Tokens) /\ <<type>> \in Marked(type)
  <2>1. type \in Tokens
    BY MarksAssumption
  <2> QED BY <2>1, OneIsSeq DEF Marked, NoText
<1>3. Block("text", <<type>>) \in [type : BlockTypes, text : Seq(Tokens)]
  BY <1>2 DEF Block, BlockTypes
<1>4. b.blocks \in Seq([type : BlockTypes, text : Seq(Tokens)])
  BY <1>1, <1>3, OneIsSeq
<1>5. BlockTexts(b, "text") = <<<<type>>>>
  <2>1. [i \in DOMAIN b.blocks |-> IF b.blocks[i].type = "text" THEN <<b.blocks[i].text>> ELSE <<>>]
          = << <<<<type>>>> >>
    BY <1>1 DEF Block
  <2> QED BY <2>1, FlattenOne DEF BlockTexts
<1>6. Concat(<<<<type>>>>) \in Marked(type)
  BY <1>2, FlattenOne DEF Concat
<1>7. Lines(<<<<type>>>>) \in Marked(type)
  <2>1. PICK t : t = <<type>>
    OBVIOUS
  <2>7. PICK texts : texts = <<t>> /\ Len(texts) = 1 /\ texts[1] = t
    <3>1. Len(<<t>>) = 1 /\ <<t>>[1] = t
      OBVIOUS
    <3> QED BY <3>1, Zenon
  <2>2. PICK n \in Nat : texts = <<t>> /\ n = 1 /\ Len(texts) = n /\ texts[n] = t
    BY <2>7
  <2> DEFINE S == {NoText} \cup Marked(type)
  <2>3. \A x \in S : AddLine(x, t) \in Marked(type)
    <3>1. AddLine(NoText, t) \in Marked(type)
      BY <1>2, <2>1 DEF AddLine
    <3>2. ASSUME NEW x \in Marked(type) PROVE AddLine(x, t) \in Marked(type)
      <4>1. x \in Seq(Tokens) /\ <<Newline>> \in Seq(Tokens) /\ t \in Seq(Tokens)
        BY <1>2, <2>1, MarksAssumption, OneIsSeq DEF Marked
      <4>2. x \o <<Newline>> \in Marked(type)
        BY <4>1, JoinMarked
      <4>3. x \o <<Newline>> \o t \in Marked(type)
        BY <4>1, <4>2, JoinMarked
      <4>4. x # NoText
        BY DEF Marked
      <4> QED BY <4>3, <4>4 DEF AddLine
    <3> QED BY <3>1, <3>2
  <2>4. \A k \in 1..n : \A x \in S : AddLine(x, texts[k]) \in S
    BY <2>2, <2>3
  <2>5. n # 0 /\ NoText \in S
    BY <2>2
  <2> HIDE DEF S
  <2>6. \E x \in S : Lines(texts) = AddLine(x, texts[n])
    BY <2>2, <2>4, <2>5, LinesIn
  <2> QED BY <2>1, <2>2, <2>3, <2>6
<1> HIDE DEF b
<1>8. CASE p = "unknown"
  BY <1>4, <1>8 DEF b
<1>9. CASE p = "chat"
  BY <1>1, <1>4, <1>5, <1>7, <1>9 DEF ParseResponse, ParseChatReply, Reply, b
<1>10. CASE p = "messages"
  BY <1>1, <1>4, <1>5, <1>6, <1>10 DEF ParseResponse, ParseMessagesReply, Reply, b
<1>11. CASE p = "responses"
  BY <1>1, <1>4, <1>5, <1>6, <1>11 DEF ParseResponse, ParseResponsesReply, Reply, b
<1>12. CASE p = "gemini"
  BY <1>1, <1>4, <1>5, <1>6, <1>12 DEF ParseResponse, ParseGeminiReply, Reply, b
<1> QED BY <1>8, <1>9, <1>10, <1>11, <1>12 DEF Protocols

\* What instances that may be run do with a reply.
Plausible(inst) ==
    /\ inst.type \in BuiltinTypes \cup Others
    /\ inst.type = "text-append" => inst.down \in Unmarked
    /\ inst.type = "text-replace" => inst.down \in UnmarkedRules

LEMMA MutatesKeeps ==
    ASSUME NEW inst, Plausible(inst), NEW r, IsReply(r), NEW path, NEW drawn,
           OnAfter(inst, r, path, drawn).action = "mutate"
    PROVE  LET to == OnAfter(inst, r, path, drawn).to
           IN /\ IsReply(to) /\ to.raw = r.raw /\ to.calls = r.calls
              /\ r.content \in Unmarked => to.content \in Unmarked
              /\ \A type \in Marks : r.content \in Marked(type) => to.content \in Marked(type)
<1> DEFINE to == OnAfter(inst, r, path, drawn).to
<1>4. \A x : /\ [r EXCEPT !.content = x] = Reply(x, r.reasoning, r.calls, r.raw)
             /\ [r EXCEPT !.reasoning = x] = Reply(r.content, x, r.calls, r.raw)
  BY DEF IsReply, Reply
<1>1. CASE inst.type = "text-append"
  <2>1. /\ OnAfter(inst, r, path, drawn) = AppendsAfter(inst, r) /\ inst.down # NoText
    BY <1>1 DEF OnAfter, AppendsAfter, Continue
  <2>2. \/ to = [r EXCEPT !.reasoning = @ \o inst.down]
        \/ to = [r EXCEPT !.content = @ \o inst.down]
    BY <2>1 DEF AppendsAfter, MutateTo
  <2>3. inst.down \in Unmarked /\ inst.down \in Seq(Tokens)
    BY <1>1, UnmarkedAre DEF Plausible
  <2>4. r.content \in Unmarked => r.content \o inst.down \in Unmarked
    BY <2>3 DEF Unmarked
  <2>5. \A type \in Marks : r.content \in Marked(type) => r.content \o inst.down \in Marked(type)
    BY <2>3, JoinMarked
  <2>6. \/ to = Reply(r.content, r.reasoning \o inst.down, r.calls, r.raw)
        \/ to = Reply(r.content \o inst.down, r.reasoning, r.calls, r.raw)
    BY <1>4, <2>2
  <2>7. /\ IsReply(to) /\ to.raw = r.raw /\ to.calls = r.calls
        /\ to.content \in {r.content, r.content \o inst.down}
    <3> HIDE DEF to
    <3>1. PICK c \in {r.content, r.content \o inst.down}, x \in {r.reasoning, r.reasoning \o inst.down} :
             to = Reply(c, x, r.calls, r.raw)
      BY <2>6
    <3>2. to.content = c /\ to.reasoning = x /\ to.calls = r.calls /\ to.raw = r.raw
      BY <3>1 DEF Reply
    <3> QED BY <3>1, <3>2 DEF IsReply
  <2> QED BY <2>4, <2>5, <2>7
<1>2. CASE inst.type = "text-replace"
  <2>1. OnAfter(inst, r, path, drawn) = MutateTo([r EXCEPT !.content = ApplyRules(@, inst.down)])
    BY <1>2 DEF OnAfter, ReplacesAfter, Continue
  <2>2. to = Reply(ApplyRules(r.content, inst.down), r.reasoning, r.calls, r.raw)
    BY <1>4, <2>1 DEF MutateTo
  <2>4. /\ IsReply(to) /\ to.raw = r.raw /\ to.calls = r.calls
        /\ to.content = ApplyRules(r.content, inst.down)
    BY <2>2 DEF IsReply, Reply
  <2>3. inst.down \in UnmarkedRules
    BY <1>2 DEF Plausible
  <2> QED BY <2>3, <2>4, RulesKeep
<1>3. CASE inst.type \notin BuiltinTypes
  BY <1>3 DEF OnAfter, Continue, InterceptBy, BuiltinTypes
<1> QED BY <1>1, <1>2, <1>3 DEF BuiltinTypes

-----------------------------------------------------------------------------
(* Who is on record is who is heard. *)

\* Nobody has intercepted, or a BEFORE plugin has.
Untold ==
    /\ marker = NoMarker
    /\ reply = [status |-> reply.status, body |-> reply.body]
    /\ IsResponse(reply.body) /\ reply.body.blocks \in Seq(UnmarkedBlocks)
Told == marker.type = "blocks" /\ reply = Payload("blocks")

\* What an AFTER chain works on.
ViewInv ==
    /\ IsReply(view) /\ view.raw = reply.body /\ view.calls \in Seq(Seq(Tokens))
    /\ Untold => view.content \in Unmarked
    /\ Told /\ Proto # "unknown" => view.content \in Marked("blocks")

SourceInv ==
    /\ Healthy(live) /\ Healthy(chain)
    /\ pc \in {"arrive", "enterBefore", "before", "upstream", "enterStream", "stream"} => Untold
    /\ pc \in {"enterAfter", "after"} => Untold \/ Told
    /\ pc = "after" => ViewInv
    /\ pc = "stream" => cbs.each \in Seq(UnmarkedRules) /\ cbs.last \in Seq(Unmarked)
    /\ MarkerTellsSource

LEMMA Protos == Proto \in Protocols
  BY DEF Proto, DetectProtocol, Protocols

LEMMA NoMarkerIsNobodys == NoMarker.type \notin Marks
  BY DEF NoMarker, Marks

\* Nobody on record, and nobody heard.
LEMMA UntoldTells == ASSUME Untold PROVE \A type \in Marks : marker.type # type /\ ~ SaysWho(reply.body, type)
  BY UnmarkedSays, SaysWhoIs, NoMarkerIsNobodys DEF Untold

\* The instance that is called can be built, and adds no marks.
LEMMA HereIs ==
    ASSUME TypeOK, Healthy(chain), at \in DOMAIN chain
    PROVE  Here = chain[at] /\ Plausible(Here)
<1>1. chain \in Lists /\ Here = chain[at] /\ Inits(chain[at])
  BY DEF TypeOK, Healthy, Here, InForce
<1> QED BY <1>1, MarksAssumption DEF Inits, Plausible

\* Only these intercept, each with its own response.
LEMMA InterceptsAs ==
    ASSUME Plausible(Here), NEW hook \in {"before", "after"}, Answer(hook).action = "intercept"
    PROVE  /\ Here.type = (IF hook = "before" THEN "blocks" ELSE "replaces")
           /\ Answer(hook).response = Payload(Here.type)
<1>1. Here.type \in BuiltinTypes \cup Marks \cup {"panics", "hollow"}
  BY MarksAssumption DEF Plausible
<1>2. CASE hook = "before"
  <2>1. HasBefore(Here) /\ Answer(hook) = OnBefore(Here, view, request.path, luck)
    BY <1>2 DEF Answer, Continue
  <2>2. Here.type \notin {"panics", "hollow"} /\ Here.type \notin BuiltinTypes
    BY <2>1 DEF OnBefore, AppendsBefore, ReplacesBefore, Continue, MutateTo, BuiltinTypes
  <2>3. Answer(hook) = InterceptBy(Here.type)
    BY <2>1, <2>2 DEF OnBefore, Continue, BuiltinTypes
  <2> QED BY <1>1, <1>2, <2>1, <2>2, <2>3 DEF InterceptBy, HasBefore, Marks
<1>3. CASE hook = "after"
  <2>1. HasAfter(Here) /\ Answer(hook) = OnAfter(Here, view, request.path, luck)
    BY <1>3 DEF Answer, Continue
  <2>2. Here.type \notin {"panics", "hollow"} /\ Here.type \notin BuiltinTypes
    BY <2>1 DEF OnAfter, AppendsAfter, ReplacesAfter, Continue, MutateTo, BuiltinTypes
  <2>3. Answer(hook) = InterceptBy(Here.type)
    BY <2>1, <2>2 DEF OnAfter, Continue, BuiltinTypes
  <2> QED BY <1>1, <1>3, <2>1, <2>2, <2>3 DEF InterceptBy, HasAfter, Marks
<1> QED BY <1>2, <1>3

LEMMA InitSource == Init => SourceInv
<1> SUFFICES ASSUME Init PROVE SourceInv
  OBVIOUS
<1>1. pc = "arrive" /\ Healthy(live) /\ chain = <<>> /\ marker = NoMarker /\ reply.body.blocks = <<>>
  BY DEF Init, NoReply, NoResponse, Response
<1>2. Healthy(chain)
  BY <1>1 DEF Healthy
<1>3. Untold
  <2>1. reply = [status |-> reply.status, body |-> reply.body] /\ IsResponse(reply.body)
    BY DEF Init, NoReply, NoResponse, Response, IsResponse
  <2> QED BY <1>1, <2>1, NothingIsSeq DEF Untold
<1> QED BY <1>1, <1>2, <1>3 DEF SourceInv, MarkerTellsSource

\* Before there is a reply, and until the upstream answers.
LEMMA EarlyKeeps ==
    ASSUME SourceInv,
           \/ ForwardsAsIs \/ GivesUpBuffering \/ Buffers \/ EntersBefore \/ Rebuilds \/ EntersStream
           \/ PassesOn("before", "before") \/ Mutates("before", "before")
    PROVE  SourceInv'
<1>1. /\ pc \in {"arrive", "enterBefore", "before", "enterStream"}
      /\ pc' \in {"enterBefore", "before", "upstream", "stream"}
      /\ UNCHANGED <<live, reply, marker>> /\ chain' \in {chain, live}
      /\ pc' = "stream" => cbs' = NoCallbacks
  BY DEF ForwardsAsIs, GivesUpBuffering, Buffers, EntersBefore, Rebuilds, EntersStream, Loads, Calls, Over,
         PassesOn, Mutates, chainVars, requestVars
<1>2. Healthy(live)' /\ Healthy(chain)'
  BY <1>1 DEF SourceInv, Healthy
<1>3. Untold'
  BY <1>1 DEF SourceInv, Untold, NoMarker
<1>4. pc' = "stream" => cbs'.each \in Seq(UnmarkedRules) /\ cbs'.last \in Seq(Unmarked)
  <2>1. NoCallbacks.each \in Seq(UnmarkedRules) /\ NoCallbacks.last \in Seq(Unmarked)
    <3>1. NoCallbacks.each = <<>> /\ NoCallbacks.last = <<>>
      BY DEF NoCallbacks
    <3> QED BY <3>1, NothingIsSeq
  <2> QED BY <1>1, <2>1
<1> QED BY <1>1, <1>2, <1>3, <1>4 DEF SourceInv, MarkerTellsSource

LEMMA InterceptsKeeps ==
    ASSUME TypeOK, SourceInv,
           \/ Intercepts("before", "before", "enterAfter") \/ Intercepts("after", "after", "done")
           \/ Intercepts("stream", "after", "done")
    PROVE  SourceInv'
<1>1. UNCHANGED <<live, chain>> /\ at \in DOMAIN chain
  BY DEF Intercepts, Calls, InForce, chainVars
<1>2. Healthy(live)' /\ Healthy(chain)' /\ Plausible(Here)
  BY <1>1, HereIs DEF SourceInv, Healthy
<1>3. CASE Intercepts("before", "before", "enterAfter")
  <2>1. /\ Answer("before").action = "intercept" /\ pc' = "enterAfter"
        /\ reply' = Answer("before").response /\ marker'.type = Here.type
    BY <1>3 DEF Intercepts, Marker
  <2>2. Told'
    <3>1. Here.type = "blocks" /\ Answer("before").response = Payload(Here.type)
      BY <1>2, <2>1, InterceptsAs
    <3>2. Payload("blocks")' = Payload("blocks")
      BY DEF Payload
    <3> QED BY <2>1, <3>1, <3>2 DEF Told
  <2> QED BY <1>2, <2>1, <2>2 DEF SourceInv, MarkerTellsSource
<1>4. CASE Intercepts("after", "after", "done") \/ Intercepts("stream", "after", "done")
  <2>1. /\ Answer("after").action = "intercept" /\ pc' = "done"
        /\ reply' = Answer("after").response /\ marker'.type = Here.type
    BY <1>4 DEF Intercepts, Marker
  <2>2. marker'.type = "replaces" /\ reply' = Payload("replaces")
    BY <1>2, <2>1, InterceptsAs
  <2>3. \A type \in Marks : marker'.type = type <=> SaysWho(reply'.body, type)
    BY <2>2, PayloadSays DEF Marks
  <2> QED BY <1>2, <2>1, <2>3 DEF SourceInv, MarkerTellsSource, Marks, SaysWho
<1> QED BY <1>3, <1>4

\* The reply comes from upstream, or from nobody.
LEMMA UpstreamKeeps == ASSUME SourceInv, UpstreamUnreachable \/ UpstreamAnswers PROVE SourceInv'
<1>1. pc = "upstream" /\ UNCHANGED <<live, chain, marker>> /\ pc' \in {"done", "enterStream", "enterAfter"}
  BY DEF UpstreamUnreachable, UpstreamAnswers, chainVars
<1>2. /\ reply' = [status |-> reply'.status, body |-> reply'.body]
      /\ IsResponse(reply'.body) /\ reply'.body.blocks \in Seq(UnmarkedBlocks)
  <2>1. <<>> \in Seq(UnmarkedBlocks)
    BY NothingIsSeq
  <2>2. CASE UpstreamUnreachable
    BY <2>1, <2>2 DEF UpstreamUnreachable, BadGateway, NoResponse, Response, IsResponse
  <2>3. CASE UpstreamAnswers
    <3>1. PICK answer \in Answers :
             /\ reply'.body \in {answer.body, NoResponse, BrokenResponse}
             /\ reply' = [status |-> answer.status, body |-> reply'.body]
      BY <2>3 DEF UpstreamAnswers
    <3>2. IsResponse(answer.body) /\ answer.body.blocks \in Seq(UnmarkedBlocks)
      BY MarksAssumption
    <3>3. \A b \in {NoResponse, BrokenResponse} : IsResponse(b) /\ b.blocks = <<>>
      BY DEF NoResponse, BrokenResponse, Response, IsResponse
    <3> QED BY <2>1, <3>1, <3>2, <3>3
  <2> QED BY <2>2, <2>3
<1>3. Untold'
  BY <1>1, <1>2 DEF SourceInv, Untold, NoMarker
<1>4. \A type \in Marks : marker'.type # type /\ ~ SaysWho(reply'.body, type)
  BY <1>3, UnmarkedSays, SaysWhoIs, NoMarkerIsNobodys DEF Untold, NoMarker
<1> QED BY <1>1, <1>3, <1>4 DEF SourceInv, MarkerTellsSource, Healthy, Marks, SaysWho

LEMMA EntersAfterKeeps == ASSUME SourceInv, EntersAfter PROVE SourceInv'
<1>1. /\ pc = "enterAfter" /\ pc' = "after" /\ chain' = live /\ UNCHANGED <<live, reply, marker, request>>
      /\ view' = ParseResponse(Proto, reply.body)
  BY DEF EntersAfter, Loads
<1>2. (Untold \/ Told) /\ (Untold => Untold') /\ (Told => Told') /\ (Untold' => Untold) /\ Proto' = Proto
  BY <1>1 DEF SourceInv, Untold, Told, Proto, NoMarker
<1>3. Untold => reply.body.blocks \in Seq([type : BlockTypes, text : Seq(Tokens)])
  <2>1. ASSUME NEW s \in Seq(UnmarkedBlocks) PROVE s \in Seq([type : BlockTypes, text : Seq(Tokens)])
    <3>1. \A i \in DOMAIN s : s[i] \in UnmarkedBlocks
      BY ElementsAre
    <3>2. s \in [DOMAIN s -> [type : BlockTypes, text : Seq(Tokens)]]
      BY <3>1, ElementsAre DEF UnmarkedBlocks
    <3> QED BY <3>2, MapIsSeq
  <2> QED BY <2>1 DEF Untold
<1>4. "blocks" \in Marks
  BY DEF Marks
<1>5. IsReply(view') /\ view'.raw = reply.body /\ view'.calls \in Seq(Seq(Tokens))
  BY <1>1, <1>2, <1>3, <1>4, Protos, ParseKeeps, ParseMarked DEF Told
<1>6. Untold => view'.content \in Unmarked
  BY <1>1, <1>3, Protos, ParseKeeps DEF Untold
<1>7. Told /\ Proto # "unknown" => view'.content \in Marked("blocks")
  BY <1>1, <1>4, Protos, ParseMarked DEF Told
<1>8. ViewInv'
  BY <1>1, <1>2, <1>5, <1>6, <1>7 DEF ViewInv, Told, IsReply, Reply
<1> QED BY <1>1, <1>2, <1>8 DEF SourceInv, MarkerTellsSource, Healthy

\* A chain of AFTER hooks.
LEMMA AfterKeeps ==
    ASSUME TypeOK, SourceInv, PassesOn("after", "after") \/ Mutates("after", "after")
    PROVE  SourceInv'
<1>1. /\ pc = "after" /\ at \in DOMAIN chain /\ pc' = pc
      /\ UNCHANGED <<live, chain, reply, marker, request>>
  BY DEF PassesOn, Mutates, Calls, InForce, chainVars
<1>2. Healthy(live)' /\ Healthy(chain)' /\ (Untold' <=> Untold) /\ (Told' <=> Told) /\ Proto' = Proto
  BY <1>1 DEF SourceInv, Healthy, Untold, Told, Proto, NoMarker
<1>3. ViewInv
  BY <1>1 DEF SourceInv
<1>4. /\ IsReply(view') /\ view'.raw = view.raw /\ view'.calls = view.calls
      /\ view.content \in Unmarked => view'.content \in Unmarked
      /\ \A type \in Marks : view.content \in Marked(type) => view'.content \in Marked(type)
  <2>1. CASE PassesOn("after", "after")
    BY <1>3, <2>1 DEF PassesOn, ViewInv
  <2>2. CASE Mutates("after", "after")
    <3>1. Answer("after").action = "mutate" /\ view' = Answer("after").to
      BY <2>2 DEF Mutates
    <3>2. Answer("after") = OnAfter(Here, view, request.path, luck)
      BY <3>1 DEF Answer, Continue
    <3>3. Plausible(Here) /\ IsReply(view)
      BY <1>1, <1>3, HereIs DEF SourceInv, ViewInv
    <3> QED BY <3>1, <3>2, <3>3, MutatesKeeps
  <2> QED BY <2>1, <2>2
<1>5. "blocks" \in Marks
  BY DEF Marks
<1>6. ViewInv'
  BY <1>1, <1>2, <1>3, <1>4, <1>5 DEF ViewInv
<1> QED BY <1>1, <1>2, <1>6 DEF SourceInv, MarkerTellsSource

LEMMA WritesReplyKeeps == ASSUME SourceInv, WritesReply PROVE SourceInv'
<1>1. /\ pc = "after" /\ pc' = "done" /\ UNCHANGED <<live, chain, marker>>
      /\ \/ reply' = reply
         \/ /\ IsBuilt(BuildResponse(Proto, view))
            /\ reply' = [reply EXCEPT !.body = BuildResponse(Proto, view)]
  BY DEF WritesReply, Over, chainVars
<1>2. Healthy(live)' /\ Healthy(chain)' /\ (Untold \/ Told) /\ ViewInv
  BY <1>1 DEF SourceInv, Healthy
<1>3. "blocks" \in Marks
  BY DEF Marks
<1>4. \A type \in Marks : marker.type = type <=> SaysWho(reply.body, type)
  <2>1. CASE Untold
    BY <2>1, UntoldTells
  <2>2. CASE Told
    BY <1>3, <2>2, PayloadSays DEF Told
  <2> QED BY <1>2, <2>1, <2>2
<1>5. ASSUME reply' # reply
      PROVE  \A type \in Marks : marker.type = type <=> SaysWho(reply'.body, type)
  <2> DEFINE b == BuildResponse(Proto, view)
  <2>1. IsBuilt(b) /\ reply'.body = b
    <3>1. "body" \in DOMAIN reply
      <4>1. CASE Untold
        <5>1. \E s, x : reply = [status |-> s, body |-> x]
          BY <4>1 DEF Untold
        <5> QED BY <5>1
      <4>2. CASE Told
        BY <4>2 DEF Told, Payload
      <4> QED BY <1>2, <4>1, <4>2
    <3> QED BY <1>1, <1>5, <3>1
  <2>2. view.calls \in Seq(Seq(Tokens)) /\ view.raw = reply.body
    BY <1>2 DEF ViewInv
  <2> HIDE DEF b
  <2>3. CASE b = view.raw
    BY <1>4, <2>1, <2>2, <2>3
  <2>4. CASE b # view.raw
    <3>1. Proto # "unknown" /\ \A type : SaysWho(b, type) <=> view.content # NoText /\ view.content[1] = type
      BY <2>1, <2>2, <2>4, BuildSays, Protos DEF b
    <3>2. CASE Untold
      <4>1. view.content \in Seq(Tokens \ Marks)
        BY <1>2, <3>2 DEF ViewInv, Unmarked
      <4>2. ASSUME view.content # NoText PROVE view.content[1] \notin Marks
        <5>1. PICK t \in Seq(Tokens \ Marks) : t = view.content
          BY <4>1
        <5>2. Len(t) \in Nat \ {0}
          BY <4>2, <5>1, NonEmpty DEF NoText
        <5>3. t[1] \in Tokens \ Marks
          BY <5>2, ElementsAre
        <5> QED BY <5>1, <5>3
      <4> QED BY <2>1, <3>1, <3>2, <4>2, UntoldTells
    <3>3. CASE Told
      <4>1. view.content # NoText /\ view.content[1] = "blocks"
        BY <1>2, <3>1, <3>3 DEF ViewInv, Marked
      <4> QED BY <2>1, <3>1, <3>3, <4>1 DEF Told
    <3> QED BY <1>2, <3>2, <3>3
  <2> QED BY <2>3, <2>4
<1>6. \A type \in Marks : marker'.type = type <=> SaysWho(reply'.body, type)
  BY <1>1, <1>4, <1>5
<1> QED BY <1>1, <1>2, <1>6 DEF SourceInv, MarkerTellsSource, Marks, SaysWho

\* A chain that registers callbacks.
LEMMA CallbacksKeep == ASSUME TypeOK, SourceInv, RegistersNext PROVE SourceInv'
<1>1. /\ pc = "stream" /\ pc' = pc /\ at \in DOMAIN chain /\ UNCHANGED <<live, chain, reply, marker>>
      /\ cbs' \in {cbs, Registers(Here, cbs, request.path, luck)}
  BY DEF RegistersNext, Calls, InForce
<1>2. /\ Healthy(live)' /\ Healthy(chain)' /\ Untold' /\ Plausible(Here)
      /\ cbs.each \in Seq(UnmarkedRules) /\ cbs.last \in Seq(Unmarked)
  BY <1>1, HereIs DEF SourceInv, Healthy, Untold, NoMarker
<1>3. cbs'.each \in Seq(UnmarkedRules) /\ cbs'.last \in Seq(Unmarked)
  <2> DEFINE c == Registers(Here, cbs, request.path, luck)
  <2>1. CASE c = cbs
    BY <1>1, <1>2, <2>1
  <2>2. CASE Here.type = "text-append" /\ c # cbs
    <3>1. c = [cbs EXCEPT !.last = Append(@, Here.down)]
      BY <2>2 DEF Registers
    <3>2. Append(cbs.last, Here.down) \in Seq(Unmarked)
      BY <1>2, <2>2 DEF Plausible
    <3>3. c.each \in {cbs.each} /\ c.last \in {cbs.last, Append(cbs.last, Here.down)}
      BY <3>1
    <3> HIDE DEF c
    <3> QED BY <1>1, <1>2, <3>2, <3>3 DEF c
  <2>3. CASE Here.type # "text-append" /\ c # cbs
    <3>1. Here.type = "text-replace" /\ c = [cbs EXCEPT !.each = Append(@, Here.down)]
      BY <2>3 DEF Registers
    <3>2. Append(cbs.each, Here.down) \in Seq(UnmarkedRules)
      BY <1>2, <3>1 DEF Plausible
    <3>3. c.last \in {cbs.last} /\ c.each \in {cbs.each, Append(cbs.each, Here.down)}
      BY <3>1
    <3> HIDE DEF c
    <3> QED BY <1>1, <1>2, <3>2, <3>3 DEF c
  <2> QED BY <2>1, <2>2, <2>3
<1> QED BY <1>1, <1>2, <1>3 DEF SourceInv, MarkerTellsSource

\* A callback neither looks for a mark nor makes one.
LEMMA DeltasKeep ==
    ASSUME NEW each \in Seq(UnmarkedRules), NEW text \in Unmarked, NEW shared
    PROVE  RewrittenDeltas(text, shared, each) \in Unmarked
<1> DEFINE deltas == [k \in DOMAIN text |-> IF k \in shared THEN <<text[k]>> ELSE Rewritten(<<text[k]>>, each)]
<1>1. \A k \in DOMAIN text : <<text[k]>> \in Unmarked
  <2>1. \A k \in DOMAIN text : text[k] \in Tokens \ Marks
    BY ElementsAre DEF Unmarked
  <2> QED BY <2>1, OneIsSeq DEF Unmarked
<1>2. deltas \in [DOMAIN text -> Unmarked]
  BY <1>1, RewrittenKeeps
<1> HIDE DEF deltas
<1>3. deltas \in Seq(Unmarked)
  BY <1>2, MapIsSeq DEF Unmarked
<1> QED BY <1>3, JoinsUnmarked DEF RewrittenDeltas, Concat, deltas

LEMMA TransformKeeps ==
    ASSUME NEW c, c.each \in Seq(UnmarkedRules), c.last \in Seq(Unmarked), NEW block \in UnmarkedBlocks, NEW shared
    PROVE  Transform(Proto, block, c, shared) \in UnmarkedBlocks
<1>1. CASE Transform(Proto, block, c, shared) = block
  BY <1>1
<1>2. CASE Transform(Proto, block, c, shared) # block
  <2> DEFINE text == RewrittenDeltas(block.text, shared, c.each) \o Concat(c.last)
  <2>1. block.type = "text" /\ Transform(Proto, block, c, shared) = Block("text", text)
    BY <1>2 DEF Transform
  <2>2. RewrittenDeltas(block.text, shared, c.each) \in Unmarked
    BY <2>1, DeltasKeep DEF UnmarkedBlocks
  <2>3. Concat(c.last) \in Unmarked
    BY JoinsUnmarked
  <2>4. text \in Unmarked
    BY <2>2, <2>3 DEF Unmarked
  <2> HIDE DEF text
  <2> QED BY <2>1, <2>4, UnmarkedAre DEF UnmarkedBlocks, Block, BlockTypes
<1> QED BY <1>1, <1>2

\* What a stream makes of the blocks, wherever its deltas end.
LEMMA StreamedBlocks ==
    ASSUME Untold, cbs.each \in Seq(UnmarkedRules), cbs.last \in Seq(Unmarked), NEW cuts
    PROVE  /\ DOMAIN Streamed(cuts).body.blocks = DOMAIN reply.body.blocks
           /\ \A i \in DOMAIN reply.body.blocks :
                Streamed(cuts).body.blocks[i] = Transform(Proto, reply.body.blocks[i], cbs, Shared(cuts, i))
           /\ Streamed(cuts).body.blocks \in Seq(UnmarkedBlocks)
<1> DEFINE blocks == reply.body.blocks
           after == [i \in DOMAIN blocks |-> Transform(Proto, blocks[i], cbs, Shared(cuts, i))]
<1>1. blocks \in Seq(UnmarkedBlocks)
  BY DEF Untold
<1>2. Streamed(cuts).body.blocks = after
  <2>1. "body" \in DOMAIN reply /\ "blocks" \in DOMAIN reply.body
    BY DEF Untold, IsResponse, Response
  <2> QED BY <2>1 DEF Streamed
<1>3. \A i \in DOMAIN blocks : blocks[i] \in UnmarkedBlocks
  BY <1>1, ElementsAre
<1>4. ASSUME NEW i \in DOMAIN blocks PROVE Transform(Proto, blocks[i], cbs, Shared(cuts, i)) \in UnmarkedBlocks
  BY <1>3, TransformKeeps
<1>5. after \in [DOMAIN blocks -> UnmarkedBlocks]
  BY <1>4
<1>6. DOMAIN after = DOMAIN blocks
      /\ \A i \in DOMAIN blocks : after[i] = Transform(Proto, blocks[i], cbs, Shared(cuts, i))
  OBVIOUS
<1> HIDE DEF after
<1>7. after \in Seq(UnmarkedBlocks)
  BY <1>1, <1>5, MapIsSeq
<1> QED BY <1>2, <1>6, <1>7

\* What a stream makes of the blocks has no marks either.
LEMMA StreamsKeeps == ASSUME SourceInv, Streams PROVE SourceInv'
<1>1. PICK cuts : pc = "stream" /\ pc' = "done" /\ UNCHANGED <<live, chain, marker>> /\ reply' = Streamed(cuts)
  BY DEF Streams, Over, chainVars
<1>2. /\ Healthy(live)' /\ Healthy(chain)' /\ Untold
      /\ cbs.each \in Seq(UnmarkedRules) /\ cbs.last \in Seq(Unmarked)
  BY <1>1 DEF SourceInv, Healthy
<1>3. \A type \in Marks : marker'.type # type /\ ~ SaysWho(reply'.body, type)
  <2>1. marker' = NoMarker /\ reply'.body.blocks \in Seq(UnmarkedBlocks)
    BY <1>1, <1>2, StreamedBlocks DEF Untold, NoMarker
  <2> QED BY <2>1, UnmarkedSays, SaysWhoIs, NoMarkerIsNobodys
<1> QED BY <1>1, <1>2, <1>3 DEF SourceInv, MarkerTellsSource, Marks, SaysWho

LEMMA NothingKeeps == ASSUME SourceInv, Reload \/ UNCHANGED vars PROVE SourceInv'
<1>1. UNCHANGED <<request, pc, chain, view, reply, cbs, marker>> /\ (live' = live \/ Healthy(live'))
  BY DEF Reload, vars, chainVars
<1>2. Healthy(live)' /\ Healthy(chain)'
  BY <1>1 DEF SourceInv, Healthy
<1>3. /\ Untold' <=> Untold
      /\ Told' <=> Told
      /\ Proto' = Proto
      /\ MarkerTellsSource' <=> MarkerTellsSource
  BY <1>1 DEF Untold, Told, Proto, NoMarker, MarkerTellsSource, SaysWho
<1> QED BY <1>1, <1>2, <1>3 DEF SourceInv, ViewInv

LEMMA SourceInvariance == Spec => []SourceInv
<1>1. TypeOK /\ SourceInv /\ [Next]_vars => SourceInv'
  BY EarlyKeeps, InterceptsKeeps, UpstreamKeeps, EntersAfterKeeps, AfterKeeps, WritesReplyKeeps, CallbacksKeep,
     StreamsKeeps, NothingKeeps DEF Next, Done
<1>2. ChainsInv => TypeOK
  BY DEF ChainsInv
<1> QED BY <1>1, <1>2, InitSource, ChainsInvariance, PTL DEF Spec

\* MarkerTellsSource: the plugin on record is the one whose response the client gets, and
\* none is on record for what came from upstream, whatever the plugins are, whatever they
\* decorate or replace, and however often they are reloaded.
THEOREM MarkersTell == Spec => []MarkerTellsSource
<1>1. SourceInv => MarkerTellsSource
  BY DEF SourceInv
<1> QED BY <1>1, SourceInvariance, PTL

-----------------------------------------------------------------------------
(* Sequences, place by place. *)

\* Two sequences joined, place by place.
LEMMA JoinedAt ==
    ASSUME NEW A, NEW a \in Seq(A), NEW b \in Seq(A)
    PROVE  /\ a \o b \in Seq(A) /\ Len(a \o b) = Len(a) + Len(b) /\ DOMAIN (a \o b) = 1..(Len(a) + Len(b))
           /\ \A i \in 1..Len(a) : (a \o b)[i] = a[i]
           /\ \A i \in 1..Len(b) : (a \o b)[Len(a) + i] = b[i]
  OBVIOUS

LEMMA PlacesAre ==
    ASSUME NEW m \in Nat, NEW n \in Nat, NEW i \in 1..(m + n), i \notin 1..m
    PROVE  i - m \in 1..n /\ i = m + (i - m)
  OBVIOUS

-----------------------------------------------------------------------------
(* Sequences that are joined, and what holds of the joins. *)

\* What holds at 0 and is handed on holds up to N.
LEMMA Upto ==
    ASSUME NEW N \in Nat, NEW T, 0 \in T, \A n \in 1..N : n - 1 \in T => n \in T
    PROVE  \A n \in 0..N : n \in T
<1> DEFINE R == {n \in 0..N : n \notin T}
<1>1. SUFFICES ASSUME R # {} PROVE FALSE
  OBVIOUS
<1>2. PICK m \in R : \A n \in R : m <= n
  <2> R \subseteq Nat
    OBVIOUS
  <2> HIDE DEF R
  <2> QED BY <1>1, Least
<1>3. m \in 1..N /\ m - 1 \in 0..N /\ m - 1 \notin R
  BY <1>2
<1> QED BY <1>2, <1>3

\* FlattenSeq joins one sequence after the other.
Runs(f, q, S, N) == f \in [0..N -> S] /\ f[0] = <<>> /\ \A n \in 1..N : f[n] = f[n - 1] \o q[n]

LEMMA FlattenRuns ==
    ASSUME NEW A, NEW q \in Seq(Seq(A)), NEW N \in Nat, Len(q) = N
    PROVE  \E f : Runs(f, q, Seq(A), N) /\ FlattenSeq(q) = f[N]
<1>1. \A n \in 1..N : q[n] \in Seq(A)
  OBVIOUS
<1>2. CASE N = 0
  <2> DEFINE f == [n \in 0..N |-> <<>>]
  <2>1. q = <<>>
    BY <1>2
  <2>2. FlattenSeq(q) = <<>>
    BY <1>2, <2>1 DEF FlattenSeq
  <2>3. PICK e : e = <<>> /\ e \in Seq(A)
    BY NothingIsSeq
  <2>4. [n \in 0..N |-> e] \in [0..N -> Seq(A)] /\ [n \in 0..N |-> e][0] = e /\ [n \in 0..N |-> e][N] = e
    BY <2>3
  <2>5. Runs([n \in 0..N |-> e], q, Seq(A), N)
    BY <1>2, <2>3, <2>4 DEF Runs
  <2> QED BY <2>2, <2>3, <2>4, <2>5
<1>3. CASE N # 0
  <2> DEFINE Goes(f) == f = [i \in 1..N |-> IF i = 1 THEN q[i] ELSE f[i - 1] \o q[i]]
             flatten == CHOOSE f : Goes(f)
             step == [n \in 1..N |-> [x \in Seq(A) |-> x \o q[n]]]
  <2>1. \A n \in 1..N : \A x \in Seq(A) : step[n][x] = x \o q[n] /\ step[n][x] \in Seq(A)
    BY <1>1
  <2>2. PICK f : f \in [0..N -> Seq(A)] /\ f[0] = <<>> /\ \A n \in 1..N : f[n] = step[n][f[n - 1]]
    <3> HIDE DEF step
    <3>1. <<>> \in Seq(A)
      BY NothingIsSeq
    <3>2. \A n \in 1..N : \A x \in Seq(A) : step[n][x] \in Seq(A)
      BY <2>1
    <3>3. Iterates(Seq(A), <<>>, N, step)
      BY <3>1, <3>2, Recursion
    <3> QED BY <3>3 DEF Iterates
  <2>3. \A n \in 1..N : n - 1 \in 0..N /\ f[n - 1] \in Seq(A) /\ f[n] = f[n - 1] \o q[n]
    <3> HIDE DEF step
    <3>1. ASSUME NEW n \in 1..N PROVE n - 1 \in 0..N /\ f[n - 1] \in Seq(A) /\ f[n] = f[n - 1] \o q[n]
      <4>1. n - 1 \in 0..N
        OBVIOUS
      <4>2. f[n - 1] \in Seq(A) /\ f[n] = step[n][f[n - 1]]
        BY <2>2, <4>1
      <4> QED BY <2>1, <4>1, <4>2
    <3> QED BY <3>1
  <2>4. f[1] = q[1]
    <3>1. 1 \in 1..N /\ 1 - 1 = 0
      BY <1>3
    <3>2. q[1] \in Seq(A) /\ f[1] = f[1 - 1] \o q[1] /\ f[0] = <<>>
      BY <1>1, <2>2, <2>3, <3>1
    <3>3. f[1] = <<>> \o q[1]
      BY <3>1, <3>2
    <3> QED BY <3>2, <3>3, ConcatEmptySeq
  <2>5. Goes([i \in 1..N |-> f[i]])
    <3>1. ASSUME NEW i \in 1..N
          PROVE  f[i] = IF i = 1 THEN q[i] ELSE [k \in 1..N |-> f[k]][i - 1] \o q[i]
      <4>1. i # 1 => i - 1 \in 1..N
        OBVIOUS
      <4>2. CASE i = 1
        BY <2>4, <4>2
      <4>3. CASE i # 1
        BY <2>3, <4>1, <4>3
      <4> QED BY <4>2, <4>3
    <3> QED BY <3>1
  <2>6. Goes(flatten)
    <3> HIDE DEF Goes
    <3> QED BY <2>5
  <2>7. \A n \in 1..N : flatten[n] = IF n = 1 THEN q[n] ELSE flatten[n - 1] \o q[n]
    <3> HIDE DEF flatten
    <3> QED BY <2>6
  <2> HIDE DEF flatten
  <2>8. \A n \in 0..N : n # 0 => flatten[n] = f[n]
    <3> DEFINE T == {k \in 0..N : k # 0 => flatten[k] = f[k]}
    <3>1. 0 \in T
      OBVIOUS
    <3>2. ASSUME NEW n \in 1..N, n - 1 \in T PROVE n \in T
      <4>1. CASE n = 1
        BY <2>4, <2>7, <4>1
      <4>2. CASE n # 1
        <5>3. n - 1 # 0 /\ flatten[n - 1] = f[n - 1]
          BY <3>2, <4>2
        <5>1. flatten[n] = flatten[n - 1] \o q[n] /\ flatten[n - 1] = f[n - 1]
          BY <2>7, <4>2, <5>3
        <5>2. flatten[n] = f[n]
          BY <2>3, <5>1
        <5> QED BY <5>2
      <4> QED BY <4>1, <4>2
    <3> HIDE DEF T
    <3>3. \A n \in 0..N : n \in T
      BY <3>1, <3>2, Upto
    <3> QED BY <3>3 DEF T
  <2>9. FlattenSeq(q) = flatten[N]
    BY <1>3 DEF FlattenSeq, flatten
  <2>10. FlattenSeq(q) = f[N]
    BY <1>3, <2>8, <2>9
  <2>11. Runs(f, q, Seq(A), N)
    BY <2>2, <2>3 DEF Runs
  <2> QED BY <2>10, <2>11
<1> QED BY <1>2, <1>3

\* What is run up to a place.
LEMMA RunsIn ==
    ASSUME NEW f, NEW q, NEW S, NEW N \in Nat, Runs(f, q, S, N)
    PROVE  /\ \A n \in 0..N : f[n] \in S
           /\ f[0] = <<>>
           /\ \A n \in 1..N : f[n - 1] \in S /\ f[n] = f[n - 1] \o q[n]
<1>1. \A n \in 1..N : n - 1 \in 0..N
  OBVIOUS
<1> QED BY <1>1 DEF Runs

LEMMA FlattenJoin ==
    ASSUME NEW A, NEW p \in Seq(Seq(A)), NEW r \in Seq(Seq(A))
    PROVE  FlattenSeq(p \o r) = FlattenSeq(p) \o FlattenSeq(r)
<1> DEFINE S == Seq(A)
           pr == p \o r
<1>1. PICK M \in Nat, N \in Nat : M = Len(p) /\ N = Len(r)
  OBVIOUS
<1>2. /\ pr \in Seq(S) /\ Len(pr) = M + N /\ M + N \in Nat
      /\ \A n \in 1..M : pr[n] = p[n]
      /\ \A n \in 1..N : pr[M + n] = r[n]
  <2> HIDE DEF S
  <2>1. p \in Seq(S) /\ r \in Seq(S)
    BY DEF S
  <2> QED BY <1>1, <2>1
<1>3. \A n \in 1..N : r[n] \in S
  BY <1>1
<1> HIDE DEF pr
<1>4. PICK f : Runs(f, p, S, M) /\ FlattenSeq(p) = f[M]
  BY <1>1, FlattenRuns
<1>5. PICK g : Runs(g, r, S, N) /\ FlattenSeq(r) = g[N]
  BY <1>1, FlattenRuns
<1>14. PICK K \in Nat : K = M + N
  BY <1>2
<1>6. PICK h : Runs(h, pr, S, K) /\ FlattenSeq(pr) = h[K]
  BY <1>2, <1>14, FlattenRuns
<1> HIDE DEF S
<1>7. /\ \A n \in 0..M : f[n] \in S
      /\ f[0] = <<>>
      /\ \A n \in 1..M : f[n] = f[n - 1] \o p[n]
  BY <1>4, RunsIn
<1>8. /\ \A n \in 0..N : g[n] \in S
      /\ g[0] = <<>>
      /\ \A n \in 1..N : g[n - 1] \in S /\ g[n] = g[n - 1] \o r[n]
  BY <1>5, RunsIn
<1>9. h[0] = <<>> /\ \A n \in 1..K : h[n] = h[n - 1] \o pr[n]
  BY <1>6, RunsIn
<1>10. \A n \in 0..M : h[n] = f[n]
  <2> DEFINE T == {k \in 0..M : h[k] = f[k]}
  <2>1. 0 \in T
    BY <1>7, <1>9
  <2>2. ASSUME NEW n \in 1..M, n - 1 \in T PROVE n \in T
    <3>1. n \in 1..K /\ n \in 0..M
      BY <1>14
    <3>2. h[n] = h[n - 1] \o p[n] /\ h[n - 1] = f[n - 1]
      BY <1>2, <1>9, <2>2, <3>1
    <3>3. h[n] = f[n]
      BY <1>7, <3>2
    <3> QED BY <3>1, <3>3
  <2> HIDE DEF T
  <2>3. \A n \in 0..M : n \in T
    BY <2>1, <2>2, Upto
  <2> QED BY <2>3 DEF T
<1>11. \A x, y, z \in S : x \o <<>> = x /\ (x \o y) \o z = x \o (y \o z)
  BY ConcatAssociative, ConcatEmptySeq, SMTT(30) DEF S
<1>12. \A n \in 0..N : h[M + n] = f[M] \o g[n]
  <2> DEFINE T == {k \in 0..N : h[M + k] = f[M] \o g[k]}
  <2>1. 0 \in T
    <3>1. M + 0 = M /\ M \in 0..M /\ 0 \in 0..N
      OBVIOUS
    <3>2. h[M] = f[M] /\ f[M] \in S
      BY <1>7, <1>10, <3>1
    <3>3. f[M] \o g[0] = f[M]
      BY <1>8, <1>11, <3>2
    <3> QED BY <3>1, <3>2, <3>3
  <2>2. ASSUME NEW n \in 1..N, n - 1 \in T PROVE n \in T
    <3>1. M + n \in 1..K /\ (M + n) - 1 = M + (n - 1) /\ M \in 0..M /\ n \in 0..N
      BY <1>14
    <3>2. h[M + n] = h[M + (n - 1)] \o r[n]
      BY <1>2, <1>9, <3>1
    <3>3. h[M + (n - 1)] = f[M] \o g[n - 1]
      BY <2>2
    <3>4. f[M] \in S /\ g[n - 1] \in S /\ r[n] \in S
      BY <1>3, <1>7, <1>8, <3>1
    <3>5. (f[M] \o g[n - 1]) \o r[n] = f[M] \o (g[n - 1] \o r[n])
      BY <1>11, <3>4, ZenonT(40)
    <3>6. h[M + n] = f[M] \o g[n]
      BY <1>8, <3>2, <3>3, <3>5
    <3> QED BY <3>1, <3>6
  <2> HIDE DEF T
  <2>3. \A n \in 0..N : n \in T
    BY <2>1, <2>2, Upto
  <2> QED BY <2>3 DEF T
<1>13. FlattenSeq(pr) = f[M] \o g[N]
  <2>1. N \in 0..N
    OBVIOUS
  <2> QED BY <1>6, <1>12, <1>14, <2>1
<1> QED BY <1>4, <1>5, <1>13 DEF pr

\* What respects the joining of two sequences respects that of all.
Respects(H, A, B) ==
    H \in [Seq(A) -> Seq(B)] /\ H[<<>>] = <<>> /\ \A x, y \in Seq(A) : H[x \o y] = H[x] \o H[y]

LEMMA FlattenMorphism ==
    ASSUME NEW A, NEW B, NEW H, Respects(H, A, B),
           NEW q \in Seq(Seq(A)), NEW p \in Seq(Seq(B)), DOMAIN p = DOMAIN q, \A i \in DOMAIN q : p[i] = H[q[i]]
    PROVE  H[FlattenSeq(q)] = FlattenSeq(p)
<1> DEFINE S == Seq(A)
           R == Seq(B)
<1>1. PICK N \in Nat : N = Len(q) /\ DOMAIN q = 1..N /\ \A n \in 1..N : q[n] \in S
  OBVIOUS
<1>2. Len(p) = N /\ \A n \in 1..N : p[n] = H[q[n]]
  <2>1. Len(p) \in Nat /\ DOMAIN p = 1..Len(p)
    BY ElementsAre
  <2>2. Len(p) = N
    BY <1>1, <2>1
  <2> QED BY <1>1, <2>2
<1>3. PICK f : Runs(f, q, S, N) /\ FlattenSeq(q) = f[N]
  BY <1>1, FlattenRuns
<1>4. PICK g : Runs(g, p, R, N) /\ FlattenSeq(p) = g[N]
  BY <1>2, FlattenRuns
<1>5. H[<<>>] = <<>> /\ \A x, y \in S : H[x \o y] = H[x] \o H[y]
  BY DEF Respects
<1> HIDE DEF S, R
<1>10. \A n \in 1..N : n - 1 \in 0..N
  OBVIOUS
<1>8. f[0] = <<>> /\ \A n \in 1..N : f[n - 1] \in S /\ f[n] = f[n - 1] \o q[n]
  BY <1>3, <1>10 DEF Runs
<1>9. g[0] = <<>> /\ \A n \in 1..N : g[n] = g[n - 1] \o p[n]
  BY <1>4 DEF Runs
<1>6. \A n \in 0..N : H[f[n]] = g[n]
  <2> DEFINE T == {k \in 0..N : H[f[k]] = g[k]}
  <2>1. 0 \in T
    <3>1. H[f[0]] = g[0]
      BY <1>5, <1>8, <1>9, Zenon
    <3>2. 0 \in 0..N
      OBVIOUS
    <3> QED BY <3>1, <3>2, Zenon
  <2>2. ASSUME NEW n \in 1..N, n - 1 \in T PROVE n \in T
    <3>1. f[n - 1] \in S /\ f[n] = f[n - 1] \o q[n] /\ g[n] = g[n - 1] \o p[n]
      BY <1>8, <1>9
    <3>2. H[f[n]] = H[f[n - 1]] \o H[q[n]]
      BY <1>1, <1>5, <3>1
    <3>3. H[f[n]] = g[n]
      BY <1>2, <2>2, <3>1, <3>2
    <3> QED BY <3>3
  <2> HIDE DEF T
  <2>3. \A n \in 0..N : n \in T
    BY <2>1, <2>2, Upto
  <2> QED BY <2>3 DEF T
<1>7. H[FlattenSeq(q)] = FlattenSeq(p)
  <2>1. N \in 0..N
    OBVIOUS
  <2> QED BY <1>3, <1>4, <1>6, <2>1
<1> QED BY <1>7

LEMMA UpToIsSeq == ASSUME NEW A, NEW n \in Nat, NEW f \in [1..n -> A] PROVE f \in Seq(A) /\ Len(f) = n
  OBVIOUS

\* Joining one more.
LEMMA FlattenAppend ==
    ASSUME NEW A, NEW q \in Seq(Seq(A)), NEW x \in Seq(A)
    PROVE  FlattenSeq(Append(q, x)) = FlattenSeq(q) \o x
<1>1. PICK e : e = <<x>> /\ e \in Seq(Seq(A)) /\ FlattenSeq(e) = x
  BY OneIsSeq, FlattenOne
<1>2. Append(q, x) = q \o e
  <2> DEFINE S == Seq(A)
  <2>1. q \in Seq(S) /\ x \in S /\ e = <<x>>
    BY <1>1
  <2> HIDE DEF S
  <2> QED BY <2>1, AppendIsConcat
<1>3. FlattenSeq(q \o e) = FlattenSeq(q) \o FlattenSeq(e)
  BY <1>1, FlattenJoin
<1> QED BY <1>1, <1>2, <1>3

\* Joining single elements.
LEMMA FlattenSingles ==
    ASSUME NEW A, NEW s \in Seq(A), NEW q \in Seq(Seq(A)), DOMAIN q = DOMAIN s,
           \A i \in DOMAIN s : q[i] = <<s[i]>>
    PROVE  FlattenSeq(q) = s
<1>1. PICK N \in Nat : N = Len(s) /\ DOMAIN s = 1..N /\ \A i \in 1..N : s[i] \in A
  BY ElementsAre
<1>2. Len(q) = N
  BY <1>1, ElementsAre
<1>3. PICK f : Runs(f, q, Seq(A), N) /\ FlattenSeq(q) = f[N]
  BY <1>2, FlattenRuns
<1>4. \A n \in 0..N : f[n] = [i \in 1..n |-> s[i]]
  <2> DEFINE T == {n \in 0..N : f[n] = [i \in 1..n |-> s[i]]}
  <2>1. 0 \in T
    <3>1. f[0] = <<>>
      BY <1>3, RunsIn
    <3>2. [i \in 1..0 |-> s[i]] = <<>> /\ 0 \in 0..N
      OBVIOUS
    <3> QED BY <3>1, <3>2, Zenon
  <2>2. ASSUME NEW n \in 1..N, n - 1 \in T PROVE n \in T
    <3> DEFINE before == [i \in 1..(n - 1) |-> s[i]]
               after == [i \in 1..n |-> s[i]]
    <3>1. f[n] = f[n - 1] \o q[n]
      BY <1>3, RunsIn
    <3>2. f[n] = before \o <<s[n]>>
      BY <1>1, <2>2, <3>1
    <3>3. before \o <<s[n]>> = after
      <4>0. n - 1 \in Nat /\ \A i \in 1..(n - 1) : i \in 1..N
        OBVIOUS
      <4>1. before \in Seq(A) /\ Len(before) = n - 1 /\ s[n] \in A
        BY <1>1, <4>0
      <4>2. after \in Seq(A) /\ Len(after) = n
        <5>1. n \in Nat /\ \A i \in 1..n : i \in 1..N
          OBVIOUS
        <5>2. after \in [1..n -> A]
          BY <1>1, <5>1
        <5> HIDE DEF after
        <5> QED BY <5>1, <5>2, UpToIsSeq
      <4>3. before \o <<s[n]>> \in Seq(A) /\ Len(before \o <<s[n]>>) = n
        BY <4>1
      <4>4. ASSUME NEW i \in 1..n PROVE (before \o <<s[n]>>)[i] = after[i]
        <5>1. CASE i = n
          <6>1. PICK b \in Seq(A) : b = before
            BY <4>1
          <6>2. (b \o <<s[n]>>)[Len(b) + 1] = s[n]
            BY <4>1
          <6>3. Len(b) + 1 = n
            BY <4>1, <6>1
          <6> QED BY <5>1, <6>1, <6>2, <6>3
        <5>2. CASE i # n
          <6>1. i \in 1..(n - 1)
            BY <5>2
          <6> QED BY <4>1, <6>1
        <5> QED BY <5>1, <5>2
      <4> HIDE DEF before, after
      <4> QED BY <4>2, <4>3, <4>4, SeqEqual
    <3>4. f[n] = after /\ n \in 0..N
      <4> HIDE DEF before, after
      <4>1. n \in 0..N
        OBVIOUS
      <4> QED BY <3>2, <3>3, <4>1, Zenon
    <3> HIDE DEF before
    <3> QED BY <3>4
  <2> HIDE DEF T
  <2>3. \A n \in 0..N : n \in T
    BY <2>1, <2>2, Upto
  <2> QED BY <2>3 DEF T
<1>5. [i \in 1..N |-> s[i]] = s
  BY <1>1
<1>6. N \in 0..N
  OBVIOUS
<1> QED BY <1>3, <1>4, <1>5, <1>6

-----------------------------------------------------------------------------
(* What each element of a sequence contributes, joined. *)

Maps(G, A, B) == G \in [A -> B]
Each(s, G) == [i \in DOMAIN s |-> G[s[i]]]
Across(s, G) == FlattenSeq(Each(s, G))

\* The contributions, before they are joined.
LEMMA EachIs ==
    ASSUME NEW A, NEW C, NEW G, Maps(G, A, C), NEW s \in Seq(A)
    PROVE  /\ Each(s, G) \in Seq(C) /\ Len(Each(s, G)) = Len(s) /\ DOMAIN Each(s, G) = DOMAIN s
           /\ \A i \in DOMAIN s : s[i] \in A /\ Each(s, G)[i] = G[s[i]]
<1>1. PICK n \in Nat : n = Len(s) /\ DOMAIN s = 1..n /\ \A i \in 1..n : s[i] \in A
  BY ElementsAre
<1>2. Each(s, G) \in [1..n -> C] /\ \A i \in 1..n : Each(s, G)[i] = G[s[i]]
  BY <1>1 DEF Each, Maps
<1>3. Each(s, G) \in Seq(C) /\ Len(Each(s, G)) = n
  BY <1>2, UpToIsSeq
<1> QED BY <1>1, <1>2, <1>3

LEMMA AcrossIn ==
    ASSUME NEW A, NEW B, NEW G, Maps(G, A, Seq(B)), NEW s \in Seq(A)
    PROVE  Across(s, G) \in Seq(B)
  BY EachIs, FlattenAll DEF Across

LEMMA AcrossNone == ASSUME NEW G PROVE Across(<<>>, G) = <<>>
<1>1. [i \in DOMAIN <<>> |-> G[<<>>[i]]] = <<>>
  OBVIOUS
<1> QED BY <1>1 DEF Across, Each, FlattenSeq

LEMMA AcrossOne == ASSUME NEW G, NEW a PROVE Across(<<a>>, G) = G[a]
<1>1. [i \in DOMAIN <<a>> |-> G[<<a>>[i]]] = <<G[a]>>
  OBVIOUS
<1> QED BY <1>1, FlattenOne DEF Across, Each

LEMMA EachJoin ==
    ASSUME NEW A, NEW C, NEW G, Maps(G, A, C), NEW s \in Seq(A), NEW t \in Seq(A)
    PROVE  Each(s \o t, G) = Each(s, G) \o Each(t, G)
<1>1. PICK m \in Nat, n \in Nat : Len(s) = m /\ Len(t) = n /\ DOMAIN s = 1..m /\ DOMAIN t = 1..n
  BY ElementsAre
<1>2. PICK w : w = s \o t
  OBVIOUS
<1>3. /\ w \in Seq(A) /\ Len(w) = m + n /\ DOMAIN w = 1..(m + n)
      /\ \A i \in 1..m : w[i] = s[i]
      /\ \A i \in 1..n : w[m + i] = t[i]
  <2>1. /\ s \o t \in Seq(A) /\ Len(s \o t) = Len(s) + Len(t) /\ DOMAIN (s \o t) = 1..(Len(s) + Len(t))
        /\ \A i \in 1..Len(s) : (s \o t)[i] = s[i]
        /\ \A i \in 1..Len(t) : (s \o t)[Len(s) + i] = t[i]
    BY JoinedAt
  <2> QED BY <1>1, <1>2, <2>1
<1>4. PICK p, q, r : p = Each(s, G) /\ q = Each(t, G) /\ r = Each(w, G)
  OBVIOUS
<1>5. /\ p \in Seq(C) /\ Len(p) = m /\ \A i \in 1..m : p[i] = G[s[i]]
      /\ q \in Seq(C) /\ Len(q) = n /\ \A i \in 1..n : q[i] = G[t[i]]
      /\ r \in Seq(C) /\ Len(r) = m + n /\ \A i \in 1..(m + n) : r[i] = G[w[i]]
  <2>1. p \in Seq(C) /\ Len(p) = m /\ \A i \in 1..m : p[i] = G[s[i]]
    BY <1>1, <1>4, EachIs
  <2>2. q \in Seq(C) /\ Len(q) = n /\ \A i \in 1..n : q[i] = G[t[i]]
    BY <1>1, <1>4, EachIs
  <2>3. r \in Seq(C) /\ Len(r) = m + n /\ \A i \in 1..(m + n) : r[i] = G[w[i]]
    BY <1>3, <1>4, EachIs
  <2> QED BY <2>1, <2>2, <2>3
<1>6. /\ p \o q \in Seq(C) /\ Len(p \o q) = m + n
      /\ \A i \in 1..m : (p \o q)[i] = p[i]
      /\ \A i \in 1..n : (p \o q)[m + i] = q[i]
  <2>1. /\ p \o q \in Seq(C) /\ Len(p \o q) = Len(p) + Len(q)
        /\ \A i \in 1..Len(p) : (p \o q)[i] = p[i]
        /\ \A i \in 1..Len(q) : (p \o q)[Len(p) + i] = q[i]
    <3>1. p \in Seq(C) /\ q \in Seq(C)
      BY <1>5
    <3> QED BY <3>1, JoinedAt
  <2> QED BY <1>5, <2>1
<1>7. ASSUME NEW i \in 1..(m + n) PROVE r[i] = (p \o q)[i]
  <2>1. CASE i \in 1..m
    <3>1. r[i] = G[w[i]] /\ w[i] = s[i] /\ (p \o q)[i] = p[i] /\ p[i] = G[s[i]]
      BY <1>3, <1>5, <1>6, <2>1
    <3> QED BY <3>1
  <2>2. CASE i \notin 1..m
    <3>1. PICK k \in 1..n : i = m + k
      BY <2>2, PlacesAre
    <3>2. r[i] = G[w[i]] /\ w[i] = t[k] /\ (p \o q)[i] = q[k] /\ q[k] = G[t[k]]
      BY <1>3, <1>5, <1>6, <3>1
    <3> QED BY <3>2
  <2> QED BY <2>1, <2>2
<1>8. r = p \o q
  <2>1. Len(r) = Len(p \o q) /\ \A i \in 1..Len(r) : r[i] = (p \o q)[i]
    BY <1>5, <1>6, <1>7
  <2> QED BY <1>5, <1>6, <2>1, SeqEqual
<1> QED BY <1>2, <1>4, <1>8

LEMMA AcrossJoin ==
    ASSUME NEW A, NEW B, NEW G, Maps(G, A, Seq(B)), NEW s \in Seq(A), NEW t \in Seq(A)
    PROVE  Across(s \o t, G) = Across(s, G) \o Across(t, G)
<1>1. Each(s \o t, G) = Each(s, G) \o Each(t, G)
  BY EachJoin
<1>2. Each(s, G) \in Seq(Seq(B)) /\ Each(t, G) \in Seq(Seq(B))
  BY EachIs
<1> QED BY <1>1, <1>2, FlattenJoin DEF Across

LEMMA AcrossFlatten ==
    ASSUME NEW A, NEW B, NEW G, Maps(G, A, Seq(B)), NEW q \in Seq(Seq(A)), NEW p \in Seq(Seq(B)),
           DOMAIN p = DOMAIN q, \A i \in DOMAIN q : p[i] = Across(q[i], G)
    PROVE  Across(FlattenSeq(q), G) = FlattenSeq(p)
<1>1. PICK H : H = [s \in Seq(A) |-> Across(s, G)]
  OBVIOUS
<1>2. \A s \in Seq(A) : H[s] = Across(s, G) /\ H[s] \in Seq(B)
  BY <1>1, AcrossIn
<1>3. H \in [Seq(A) -> Seq(B)]
  <2>1. H = [s \in Seq(A) |-> H[s]]
    BY <1>1
  <2> QED BY <1>2, <2>1
<1>4. H[<<>>] = <<>>
  BY <1>2, AcrossNone, NothingIsSeq
<1>5. ASSUME NEW x \in Seq(A), NEW y \in Seq(A) PROVE H[x \o y] = H[x] \o H[y]
  <2>1. x \o y \in Seq(A)
    OBVIOUS
  <2>2. Across(x \o y, G) = Across(x, G) \o Across(y, G)
    BY AcrossJoin
  <2> QED BY <1>2, <2>1, <2>2
<1>6. Respects(H, A, B)
  BY <1>3, <1>4, <1>5 DEF Respects
<1>7. \A i \in DOMAIN q : q[i] \in Seq(A)
  BY ElementsAre
<1>8. \A i \in DOMAIN q : p[i] = H[q[i]]
  BY <1>2, <1>7
<1>9. H[FlattenSeq(q)] = FlattenSeq(p)
  BY <1>6, <1>8, FlattenMorphism
<1> QED BY <1>2, <1>9, FlattenAll

\* What the contributions contribute.
LEMMA AcrossAcross ==
    ASSUME NEW A, NEW B, NEW C, NEW G, Maps(G, A, Seq(B)), NEW K, Maps(K, B, Seq(C)), NEW s \in Seq(A),
           NEW GK, Maps(GK, A, Seq(C)), \A i \in DOMAIN s : GK[s[i]] = Across(G[s[i]], K)
    PROVE  Across(Across(s, G), K) = Across(s, GK)
<1>1. PICK q \in Seq(Seq(B)) : q = Each(s, G) /\ DOMAIN q = DOMAIN s /\ \A i \in DOMAIN s : q[i] = G[s[i]]
  BY EachIs
<1>2. PICK p \in Seq(Seq(C)) : p = Each(s, GK) /\ DOMAIN p = DOMAIN s /\ \A i \in DOMAIN s : p[i] = GK[s[i]]
  BY EachIs
<1>3. DOMAIN p = DOMAIN q /\ \A i \in DOMAIN q : p[i] = Across(q[i], K)
  <2>1. ASSUME NEW i \in DOMAIN s PROVE p[i] = Across(q[i], K)
    <3>1. q[i] = G[s[i]] /\ p[i] = GK[s[i]]
      BY <1>1, <1>2
    <3> QED BY <3>1
  <2> QED BY <1>1, <1>2, <2>1
<1>4. Across(FlattenSeq(q), K) = FlattenSeq(p)
  BY <1>3, AcrossFlatten
<1> QED BY <1>1, <1>2, <1>4 DEF Across

\* Two sequences whose elements contribute the same.
LEMMA AcrossSame ==
    ASSUME NEW s, NEW t, NEW G, NEW K, DOMAIN s = DOMAIN t, \A i \in DOMAIN s : G[s[i]] = K[t[i]]
    PROVE  Across(s, G) = Across(t, K)
<1>1. Each(s, G) = Each(t, K)
  BY DEF Each
<1> QED BY <1>1 DEF Across

\* Each element contributes one.
LEMMA AcrossEach ==
    ASSUME NEW A, NEW B, NEW G, Maps(G, A, Seq(B)), NEW s \in Seq(A), NEW t \in Seq(B), DOMAIN t = DOMAIN s,
           \A i \in DOMAIN s : G[s[i]] = <<t[i]>>
    PROVE  Across(s, G) = t
<1>1. PICK q \in Seq(Seq(B)) : q = Each(s, G) /\ DOMAIN q = DOMAIN s /\ \A i \in DOMAIN s : q[i] = G[s[i]]
  BY EachIs
<1>2. DOMAIN q = DOMAIN t /\ \A i \in DOMAIN t : q[i] = <<t[i]>>
  BY <1>1
<1>3. FlattenSeq(q) = t
  BY <1>2, FlattenSingles
<1> QED BY <1>1, <1>3 DEF Across

\* Nobody contributes.
LEMMA AcrossNothing ==
    ASSUME NEW A, NEW B, NEW G, Maps(G, A, Seq(B)), NEW s \in Seq(A), \A i \in DOMAIN s : G[s[i]] = <<>>
    PROVE  Across(s, G) = <<>>
<1>1. PICK q \in Seq(Seq(B)) : q = Each(s, G) /\ DOMAIN q = DOMAIN s /\ \A i \in DOMAIN s : q[i] = G[s[i]]
  BY EachIs
<1>2. PICK N \in Nat : N = Len(q) /\ DOMAIN q = 1..N
  BY ElementsAre
<1>3. \A n \in 1..N : q[n] = <<>>
  BY <1>1, <1>2
<1>4. CASE N = 0
  <2>1. q = <<>>
    BY <1>2, <1>4
  <2> QED BY <1>1, <2>1 DEF Across, FlattenSeq
<1>5. CASE N # 0
  <2>1. PICK S : S = {<<>>}
    OBVIOUS
  <2>2. q[1] \in S
    BY <1>3, <1>5, <2>1
  <2>3. <<>> \o <<>> = <<>>
    OBVIOUS
  <2>4. \A n \in 2..N : n \in 1..N
    OBVIOUS
  <2>5. \A n \in 2..N : \A x \in S : x \o q[n] \in S
    BY <1>3, <2>1, <2>3, <2>4
  <2>6. FlattenSeq(q) \in S
    BY <1>2, <1>5, <2>2, <2>5, FlattenIn
  <2> QED BY <1>1, <2>1, <2>6 DEF Across
<1> QED BY <1>4, <1>5

-----------------------------------------------------------------------------
(* Rules, one after the other. *)

\* Rules of which none matches.
LEMMA NothingToReplace ==
    ASSUME NEW A, NEW text \in Seq(A), NEW R, NEW rules \in Seq(R), ~ AnyMatches(text, rules)
    PROVE  ApplyRules(text, rules) = text
<1>1. PICK N \in Nat : N = Len(rules) /\ DOMAIN rules = 1..N
  BY ElementsAre
<1>2. ASSUME NEW n \in 1..N PROVE ReplaceToken(text, rules[n]) = text
  <2> DEFINE parts == [i \in DOMAIN text |-> IF text[i] = rules[n].match THEN rules[n].replace ELSE <<text[i]>>]
  <2>1. \A i \in DOMAIN text : text[i] # rules[n].match
    BY <1>1 DEF AnyMatches
  <2>2. parts = [i \in DOMAIN text |-> <<text[i]>>]
    BY <2>1
  <2>3. \A i \in DOMAIN text : <<text[i]>> \in Seq(A)
    BY ElementsAre, OneIsSeq
  <2>4. parts \in [DOMAIN text -> Seq(A)]
    BY <2>2, <2>3
  <2>5. DOMAIN parts = DOMAIN text /\ \A i \in DOMAIN text : parts[i] = <<text[i]>>
    BY <2>2
  <2> HIDE DEF parts
  <2>6. parts \in Seq(Seq(A))
    BY <2>4, MapIsSeq
  <2>7. FlattenSeq(parts) = text
    BY <2>5, <2>6, FlattenSingles
  <2> QED BY <2>7 DEF ReplaceToken, parts
<1>3. \A n \in 1..N : \A x \in {text} : ReplaceToken(x, rules[n]) \in {text}
  BY <1>2
<1>4. ApplyRules(text, rules) \in {text}
  <2>1. PICK S : S = {text}
    OBVIOUS
  <2>2. text \in S /\ \A n \in 1..N : \A x \in S : ReplaceToken(x, rules[n]) \in S
    BY <1>3, <2>1
  <2> QED BY <1>1, <2>1, <2>2, ApplyRulesIn
<1> QED BY <1>4

\* The callbacks of a stream, one after the other.
Rewrites(f, text, each, S, N) ==
    f \in [0..N -> S] /\ f[0] = text /\ \A n \in 1..N : f[n] = ApplyRules(f[n - 1], each[n])

LEMMA RewrittenRuns ==
    ASSUME NEW S, NEW text \in S, NEW each, NEW N \in Nat, Len(each) = N,
           \A n \in 1..N : \A x \in S : ApplyRules(x, each[n]) \in S
    PROVE  \E f : Rewrites(f, text, each, S, N) /\ Rewritten(text, each) = f[N]
<1> DEFINE Goes(f) == f = [n \in 0..N |-> IF n = 0 THEN text ELSE ApplyRules(f[n - 1], each[n])]
           after == CHOOSE f : Goes(f)
           step == [n \in 1..N |-> [x \in S |-> ApplyRules(x, each[n])]]
<1>1. \A n \in 1..N : \A x \in S : step[n][x] = ApplyRules(x, each[n])
  OBVIOUS
<1>2. PICK g \in [0..N -> S] : g[0] = text /\ \A n \in 1..N : g[n] = step[n][g[n - 1]]
  <2> HIDE DEF step
  <2>1. \A n \in 1..N : \A x \in S : step[n][x] \in S
    BY <1>1
  <2>2. Iterates(S, text, N, step)
    BY <2>1, Recursion
  <2> QED BY <2>2 DEF Iterates
<1>3. \A n \in 1..N : n - 1 \in 0..N /\ g[n] = ApplyRules(g[n - 1], each[n])
  <2> HIDE DEF step
  <2>1. ASSUME NEW n \in 1..N PROVE n - 1 \in 0..N /\ g[n] = ApplyRules(g[n - 1], each[n])
    <3>1. n - 1 \in 0..N /\ g[n - 1] \in S
      OBVIOUS
    <3> QED BY <1>1, <1>2, <3>1
  <2> QED BY <2>1
<1>4. Goes(g)
  <2> HIDE DEF step
  <2>1. ASSUME NEW n \in 0..N PROVE g[n] = IF n = 0 THEN text ELSE ApplyRules(g[n - 1], each[n])
    <3>1. n # 0 => n \in 1..N
      OBVIOUS
    <3> QED BY <1>2, <1>3, <3>1
  <2> QED BY <2>1
<1>5. Goes(after)
  <2> HIDE DEF Goes
  <2> QED BY <1>4
<1>6. after[0] = text /\ \A n \in 1..N : after[n] = ApplyRules(after[n - 1], each[n])
  <2> HIDE DEF after
  <2> QED BY <1>5
<1>7. \A n \in 0..N : after[n] = g[n]
  <2> HIDE DEF after
  <2> DEFINE T == {n \in 0..N : after[n] = g[n]}
  <2>1. 0 \in T
    BY <1>2, <1>6
  <2>2. ASSUME NEW n \in 1..N, n - 1 \in T PROVE n \in T
    BY <1>3, <1>6, <2>2
  <2> HIDE DEF T
  <2>3. \A n \in 0..N : n \in T
    BY <2>1, <2>2, Upto
  <2> QED BY <2>3 DEF T
<1>8. Rewritten(text, each) = after[N]
  BY DEF Rewritten
<1>9. Rewrites(g, text, each, S, N)
  <2> HIDE DEF step
  <2> QED BY <1>2, <1>3 DEF Rewrites
<1> HIDE DEF after, Goes
<1>10. Rewritten(text, each) = g[N]
  BY <1>7, <1>8
<1> QED BY <1>9, <1>10

LEMMA RewrittenOnce ==
    ASSUME NEW each \in Seq(UnmarkedRules), NEW rules \in UnmarkedRules, NEW text \in Unmarked
    PROVE  Rewritten(text, Append(each, rules)) = ApplyRules(Rewritten(text, each), rules)
<1> DEFINE more == Append(each, rules)
<1>1. PICK N \in Nat : N = Len(each) /\ \A n \in 1..N : each[n] \in UnmarkedRules
  BY ElementsAre
<1>2. /\ Len(more) = N + 1 /\ more[N + 1] = rules /\ \A n \in 1..N : more[n] = each[n]
      /\ \A n \in 1..(N + 1) : more[n] \in UnmarkedRules
  BY <1>1
<1> HIDE DEF more
<1>3. PICK K \in Nat : K = N + 1 /\ N \in 0..N /\ K \in 0..K /\ K \in 1..K /\ K - 1 = N
  OBVIOUS
<1>4. PICK f : Rewrites(f, text, each, Unmarked, N) /\ Rewritten(text, each) = f[N]
  <2>1. \A n \in 1..N : \A x \in Unmarked : ApplyRules(x, each[n]) \in Unmarked
    BY <1>1, RulesKeep
  <2>2. Len(each) = N
    BY <1>1
  <2> QED BY <2>1, <2>2, RewrittenRuns
<1>5. PICK g : Rewrites(g, text, more, Unmarked, K) /\ Rewritten(text, more) = g[K]
  <2>1. \A n \in 1..K : \A x \in Unmarked : ApplyRules(x, more[n]) \in Unmarked
    BY <1>2, <1>3, RulesKeep
  <2>2. Len(more) = K
    BY <1>2, <1>3
  <2> QED BY <2>1, <2>2, RewrittenRuns
<1>6. \A n \in 0..N : g[n] = f[n]
  <2> DEFINE T == {n \in 0..N : g[n] = f[n]}
  <2>1. 0 \in T
    BY <1>4, <1>5 DEF Rewrites
  <2>2. ASSUME NEW n \in 1..N, n - 1 \in T PROVE n \in T
    <3>1. n \in 1..K /\ n \in 0..N
      BY <1>3
    <3>2. g[n] = ApplyRules(g[n - 1], each[n])
      BY <1>2, <1>5, <3>1 DEF Rewrites
    <3>3. f[n] = ApplyRules(f[n - 1], each[n]) /\ g[n - 1] = f[n - 1]
      BY <1>4, <2>2 DEF Rewrites
    <3> QED BY <3>1, <3>2, <3>3
  <2> HIDE DEF T
  <2>3. \A n \in 0..N : n \in T
    BY <2>1, <2>2, Upto
  <2> QED BY <2>3 DEF T
<1>7. g[K] = ApplyRules(g[K - 1], more[K])
  BY <1>3, <1>5 DEF Rewrites
<1>8. g[K] = ApplyRules(f[N], rules)
  BY <1>2, <1>3, <1>6, <1>7
<1> QED BY <1>4, <1>5, <1>8 DEF more

\* Functions of texts, one after the other, of which each makes of two texts that are
\* joined what it makes of them, joined.
Steps(f, text, H, N) ==
    f \in [0..N -> Unmarked] /\ f[0] = text /\ \A n \in 1..N : f[n] = H[n][f[n - 1]]

Joining(H, N) == \A n \in 1..N : \A u, v \in Unmarked : H[n][u \o v] = H[n][u] \o H[n][v]

Together(f, g, h, x, y, H, N) ==
    N \in Nat /\ Joining(H, N) /\ Steps(f, x, H, N) /\ Steps(g, y, H, N) /\ Steps(h, x \o y, H, N)

OneAfterOther(f, g, h, N) == h[N] = f[N] \o g[N]

LEMMA StepsJoin ==
    ASSUME NEW N, NEW H, NEW x \in Unmarked, NEW y \in Unmarked, NEW f, NEW g, NEW h,
           Together(f, g, h, x, y, H, N)
    PROVE  OneAfterOther(f, g, h, N)
<1> DEFINE T == {n \in 0..N : h[n] = f[n] \o g[n]}
<1>1. 0 \in T
  BY DEF Together, Steps
<1>2. ASSUME NEW n \in 1..N, n - 1 \in T PROVE n \in T
  <2>1. n \in 0..N /\ f[n - 1] \in Unmarked /\ g[n - 1] \in Unmarked
    BY <1>2 DEF Together, Steps
  <2>2. h[n] = H[n][h[n - 1]] /\ f[n] = H[n][f[n - 1]] /\ g[n] = H[n][g[n - 1]]
    BY DEF Together, Steps
  <2>3. h[n - 1] = f[n - 1] \o g[n - 1]
    BY <1>2
  <2>4. H[n][f[n - 1] \o g[n - 1]] = H[n][f[n - 1]] \o H[n][g[n - 1]]
    BY <2>1 DEF Together, Joining
  <2>5. h[n] = f[n] \o g[n]
    BY <2>2, <2>3, <2>4
  <2> QED BY <2>1, <2>5
<1> HIDE DEF T
<1>3. N \in Nat
  BY DEF Together
<1>4. \A n \in 0..N : n \in T
  BY <1>1, <1>2, <1>3, Upto
<1>5. N \in T
  BY <1>3, <1>4
<1> QED BY <1>5 DEF T, OneAfterOther

LEMMA ReplaceJoins ==
    ASSUME NEW rule \in [match : Tokens \ Marks, replace : Unmarked], NEW x \in Unmarked, NEW y \in Unmarked
    PROVE  ReplaceToken(x \o y, rule) = ReplaceToken(x, rule) \o ReplaceToken(y, rule)
<1> DEFINE A == Tokens \ Marks
           G == [u \in A |-> IF u = rule.match THEN rule.replace ELSE <<u>>]
<1>1. \A u \in A : G[u] = (IF u = rule.match THEN rule.replace ELSE <<u>>) /\ G[u] \in Seq(A)
  <2>1. \A u \in A : <<u>> \in Seq(A)
    BY OneIsSeq
  <2>2. rule.replace \in Seq(A)
    BY DEF Unmarked
  <2> QED BY <2>1, <2>2
<1>2. Maps(G, A, Seq(A))
  BY <1>1 DEF Maps
<1>3. x \in Seq(A) /\ y \in Seq(A)
  BY DEF Unmarked
<1>4. x \o y \in Seq(A)
  BY <1>3
<1> HIDE DEF A, G
<1>5. ASSUME NEW s \in Seq(A) PROVE ReplaceToken(s, rule) = Across(s, G)
  <2>1. \A i \in DOMAIN s : G[s[i]] = IF s[i] = rule.match THEN rule.replace ELSE <<s[i]>>
    BY <1>1, ElementsAre
  <2>2. [i \in DOMAIN s |-> IF s[i] = rule.match THEN rule.replace ELSE <<s[i]>>] = [i \in DOMAIN s |-> G[s[i]]]
    BY <2>1
  <2> QED BY <2>2 DEF ReplaceToken, Across, Each
<1>6. ReplaceToken(x, rule) = Across(x, G) /\ ReplaceToken(y, rule) = Across(y, G)
      /\ ReplaceToken(x \o y, rule) = Across(x \o y, G)
  BY <1>3, <1>4, <1>5
<1>7. Across(x \o y, G) = Across(x, G) \o Across(y, G)
  BY <1>2, <1>3, AcrossJoin
<1> QED BY <1>6, <1>7

\* The rules of an instance, one after the other.
LEMMA ApplyRulesRuns ==
    ASSUME NEW rules \in UnmarkedRules, NEW N \in Nat, Len(rules) = N, NEW text \in Unmarked,
           NEW H, \A n \in 1..N : \A x \in Unmarked : H[n][x] = ReplaceToken(x, rules[n])
    PROVE  \E f : Steps(f, text, H, N) /\ ApplyRules(text, rules) = f[N]
<1> DEFINE Goes(f) == f = [n \in 0..N |-> IF n = 0 THEN text ELSE ReplaceToken(f[n - 1], rules[n])]
           after == CHOOSE f : Goes(f)
<1>1. \A n \in 1..N : \A x \in Unmarked : H[n][x] = ReplaceToken(x, rules[n]) /\ H[n][x] \in Unmarked
  <2>1. \A n \in 1..N : rules[n] \in [match : Tokens \ Marks, replace : Unmarked]
    BY ElementsAre DEF UnmarkedRules
  <2> QED BY <2>1, ReplaceKeeps
<1>2. PICK g \in [0..N -> Unmarked] : g[0] = text /\ \A n \in 1..N : g[n] = H[n][g[n - 1]]
  <2>1. Iterates(Unmarked, text, N, H)
    BY <1>1, Recursion
  <2> QED BY <2>1 DEF Iterates
<1>3. \A n \in 1..N : n - 1 \in 0..N /\ g[n - 1] \in Unmarked /\ g[n] = ReplaceToken(g[n - 1], rules[n])
  <2>1. \A n \in 1..N : n - 1 \in 0..N
    OBVIOUS
  <2> QED BY <1>1, <1>2, <2>1
<1>4. Goes(g)
  <2>1. ASSUME NEW n \in 0..N PROVE g[n] = IF n = 0 THEN text ELSE ReplaceToken(g[n - 1], rules[n])
    <3>1. n # 0 => n \in 1..N
      OBVIOUS
    <3> QED BY <1>2, <1>3, <3>1
  <2> QED BY <2>1
<1>5. Goes(after)
  <2> HIDE DEF Goes
  <2> QED BY <1>4
<1>6. after[0] = text /\ \A n \in 1..N : after[n] = ReplaceToken(after[n - 1], rules[n])
  <2> HIDE DEF after
  <2> QED BY <1>5
<1>7. \A n \in 0..N : after[n] = g[n]
  <2> HIDE DEF after
  <2> DEFINE T == {n \in 0..N : after[n] = g[n]}
  <2>1. 0 \in T
    BY <1>2, <1>6
  <2>2. ASSUME NEW n \in 1..N, n - 1 \in T PROVE n \in T
    BY <1>3, <1>6, <2>2
  <2> HIDE DEF T
  <2>3. \A n \in 0..N : n \in T
    BY <2>1, <2>2, Upto
  <2> QED BY <2>3 DEF T
<1>8. ApplyRules(text, rules) = after[N]
  BY DEF ApplyRules
<1>9. Steps(g, text, H, N)
  BY <1>2 DEF Steps
<1> HIDE DEF after, Goes
<1>10. ApplyRules(text, rules) = g[N]
  BY <1>7, <1>8
<1> QED BY <1>9, <1>10

LEMMA RulesJoin ==
    ASSUME NEW rules \in UnmarkedRules, NEW x \in Unmarked, NEW y \in Unmarked
    PROVE  ApplyRules(x \o y, rules) = ApplyRules(x, rules) \o ApplyRules(y, rules)
<1>1. PICK N \in Nat : Len(rules) = N /\ \A n \in 1..N : rules[n] \in [match : Tokens \ Marks, replace : Unmarked]
  BY ElementsAre DEF UnmarkedRules
<1>2. PICK H : \A n \in 1..N : \A u \in Unmarked : H[n][u] = ReplaceToken(u, rules[n])
  <2>1. \A n \in 1..N : \A u \in Unmarked :
            [m \in 1..N |-> [v \in Unmarked |-> ReplaceToken(v, rules[m])]][n][u] = ReplaceToken(u, rules[n])
    OBVIOUS
  <2> QED BY <2>1
<1>3. \A u, v \in Unmarked : u \o v \in Unmarked
  BY DEF Unmarked
<1>4. Joining(H, N)
  <2>1. ASSUME NEW n \in 1..N, NEW u \in Unmarked, NEW v \in Unmarked PROVE H[n][u \o v] = H[n][u] \o H[n][v]
    <3>1. u \o v \in Unmarked
      BY <1>3
    <3>2. H[n][u] = ReplaceToken(u, rules[n]) /\ H[n][v] = ReplaceToken(v, rules[n])
          /\ H[n][u \o v] = ReplaceToken(u \o v, rules[n])
      BY <1>2, <3>1
    <3>3. rules[n] \in [match : Tokens \ Marks, replace : Unmarked]
      BY <1>1
    <3>4. ReplaceToken(u \o v, rules[n]) = ReplaceToken(u, rules[n]) \o ReplaceToken(v, rules[n])
      BY <3>3, ReplaceJoins
    <3> QED BY <3>2, <3>4
  <2> QED BY <2>1 DEF Joining
<1>5. PICK f : Steps(f, x, H, N) /\ ApplyRules(x, rules) = f[N]
  BY <1>1, <1>2, ApplyRulesRuns, ZenonT(40)
<1>6. PICK g : Steps(g, y, H, N) /\ ApplyRules(y, rules) = g[N]
  BY <1>1, <1>2, ApplyRulesRuns, ZenonT(40)
<1>7. PICK h : Steps(h, x \o y, H, N) /\ ApplyRules(x \o y, rules) = h[N]
  <2>1. x \o y \in Unmarked
    BY <1>3
  <2> QED BY <1>1, <1>2, <2>1, ApplyRulesRuns, ZenonT(40)
<1>8. h[N] = f[N] \o g[N]
  <2>1. Together(f, g, h, x, y, H, N)
    BY <1>1, <1>4, <1>5, <1>6, <1>7 DEF Together
  <2>2. OneAfterOther(f, g, h, N)
    BY <2>1, StepsJoin
  <2> QED BY <2>2 DEF OneAfterOther
<1> QED BY <1>5, <1>6, <1>7, <1>8

LEMMA RewrittenJoins ==
    ASSUME NEW each \in Seq(UnmarkedRules), NEW x \in Unmarked, NEW y \in Unmarked
    PROVE  Rewritten(x \o y, each) = Rewritten(x, each) \o Rewritten(y, each)
<1>1. PICK N \in Nat : N = Len(each) /\ \A n \in 1..N : each[n] \in UnmarkedRules
  BY ElementsAre
<1>2. PICK H : \A n \in 1..N : \A u \in Unmarked : H[n][u] = ApplyRules(u, each[n])
  <2>1. \A n \in 1..N : \A u \in Unmarked :
            [m \in 1..N |-> [v \in Unmarked |-> ApplyRules(v, each[m])]][n][u] = ApplyRules(u, each[n])
    OBVIOUS
  <2> QED BY <2>1
<1>3. \A u, v \in Unmarked : u \o v \in Unmarked
  BY DEF Unmarked
<1>4. Joining(H, N)
  <2>1. ASSUME NEW n \in 1..N, NEW u \in Unmarked, NEW v \in Unmarked PROVE H[n][u \o v] = H[n][u] \o H[n][v]
    <3>1. u \o v \in Unmarked
      BY <1>3
    <3>2. H[n][u] = ApplyRules(u, each[n]) /\ H[n][v] = ApplyRules(v, each[n])
          /\ H[n][u \o v] = ApplyRules(u \o v, each[n])
      BY <1>2, <3>1
    <3>3. each[n] \in UnmarkedRules
      BY <1>1
    <3>4. ApplyRules(u \o v, each[n]) = ApplyRules(u, each[n]) \o ApplyRules(v, each[n])
      BY <3>3, RulesJoin
    <3> QED BY <3>2, <3>4
  <2> QED BY <2>1 DEF Joining
<1>5. ASSUME NEW text \in Unmarked PROVE \E f : Steps(f, text, H, N) /\ Rewritten(text, each) = f[N]
  <2>1. \A n \in 1..N : \A u \in Unmarked : ApplyRules(u, each[n]) \in Unmarked
    BY <1>1, RulesKeep
  <2>2. Len(each) = N
    BY <1>1
  <2>3. PICK f : Rewrites(f, text, each, Unmarked, N) /\ Rewritten(text, each) = f[N]
    BY <2>1, <2>2, RewrittenRuns
  <2>4. \A n \in 1..N : f[n - 1] \in Unmarked
    BY <2>3 DEF Rewrites
  <2>5. Steps(f, text, H, N)
    BY <1>2, <2>3, <2>4 DEF Rewrites, Steps
  <2> QED BY <2>3, <2>5
<1>6. PICK f : Steps(f, x, H, N) /\ Rewritten(x, each) = f[N]
  BY <1>5
<1>7. PICK g : Steps(g, y, H, N) /\ Rewritten(y, each) = g[N]
  BY <1>5
<1>8. PICK h : Steps(h, x \o y, H, N) /\ Rewritten(x \o y, each) = h[N]
  BY <1>3, <1>5
<1>9. h[N] = f[N] \o g[N]
  <2>1. Together(f, g, h, x, y, H, N)
    BY <1>1, <1>4, <1>6, <1>7, <1>8 DEF Together
  <2>2. OneAfterOther(f, g, h, N)
    BY <2>1, StepsJoin
  <2> QED BY <2>2 DEF OneAfterOther
<1> QED BY <1>6, <1>7, <1>8, <1>9

\* A text in which no callback finds anything.
LEMMA NothingRewritten ==
    ASSUME NEW each \in Seq(UnmarkedRules), NEW text \in Unmarked,
           \A n \in DOMAIN each : ~ AnyMatches(text, each[n])
    PROVE  Rewritten(text, each) = text
<1>1. PICK N \in Nat : N = Len(each) /\ DOMAIN each = 1..N /\ \A n \in 1..N : each[n] \in UnmarkedRules
  BY ElementsAre
<1>2. ASSUME NEW n \in 1..N PROVE ApplyRules(text, each[n]) = text
  <2>1. each[n] \in Seq([match : Tokens \ Marks, replace : Unmarked]) /\ text \in Seq(Tokens \ Marks)
    BY <1>1 DEF UnmarkedRules, Unmarked
  <2>2. ~ AnyMatches(text, each[n])
    BY <1>1
  <2> QED BY <2>1, <2>2, NothingToReplace
<1>3. PICK S : S = {text}
  OBVIOUS
<1>4. text \in S /\ \A n \in 1..N : \A x \in S : ApplyRules(x, each[n]) \in S
  BY <1>2, <1>3
<1>5. Rewritten(text, each) \in S
  BY <1>1, <1>4, RewrittenIn
<1> QED BY <1>3, <1>5

\* Callbacks that run on deltas make of a text what they make of the whole, if no delta
\* ends inside of what they look for.
LEMMA DeltasAre ==
    ASSUME NEW each \in Seq(UnmarkedRules), NEW text \in Unmarked, NEW shared,
           \A k \in DOMAIN text : k \in shared => \A n \in DOMAIN each : ~ AnyMatches(<<text[k]>>, each[n])
    PROVE  RewrittenDeltas(text, shared, each) = Rewritten(text, each)
<1> DEFINE A == Tokens \ Marks
           H == [s \in Seq(A) |-> Rewritten(s, each)]
           q == [k \in DOMAIN text |-> <<text[k]>>]
           p == [k \in DOMAIN text |-> Rewritten(<<text[k]>>, each)]
<1>1. text \in Seq(A) /\ \A k \in DOMAIN text : text[k] \in A /\ <<text[k]>> \in Seq(A)
  <2>1. text \in Seq(A)
    BY DEF Unmarked
  <2>2. \A k \in DOMAIN text : text[k] \in A
    BY <2>1, ElementsAre
  <2> HIDE DEF A
  <2> QED BY <2>1, <2>2, OneIsSeq
<1>2. \A s \in Seq(A) : H[s] = Rewritten(s, each) /\ H[s] \in Seq(A)
  BY RewrittenKeeps DEF Unmarked
<1>3. Respects(H, A, A)
  <2>1. H \in [Seq(A) -> Seq(A)]
    BY <1>2
  <2>2. H[<<>>] = <<>>
    <3>1. <<>> \in Seq(A)
      BY NothingIsSeq
    <3>2. \A n \in DOMAIN each : ~ AnyMatches(<<>>, each[n])
      BY DEF AnyMatches
    <3>3. Rewritten(<<>>, each) = <<>>
      BY <3>1, <3>2, NothingRewritten DEF Unmarked
    <3> QED BY <1>2, <3>1, <3>3
  <2>3. ASSUME NEW x \in Seq(A), NEW y \in Seq(A) PROVE H[x \o y] = H[x] \o H[y]
    <3>1. x \o y \in Seq(A)
      OBVIOUS
    <3>2. Rewritten(x \o y, each) = Rewritten(x, each) \o Rewritten(y, each)
      BY RewrittenJoins DEF Unmarked
    <3> QED BY <1>2, <3>1, <3>2
  <2> HIDE DEF A, H
  <2> QED BY <2>1, <2>2, <2>3 DEF Respects
<1>4. /\ q \in [DOMAIN text -> Seq(A)] /\ p \in [DOMAIN text -> Seq(A)]
      /\ DOMAIN p = DOMAIN q /\ DOMAIN q = DOMAIN text
      /\ \A k \in DOMAIN text : q[k] = <<text[k]>> /\ p[k] = H[q[k]]
  <2> HIDE DEF A, H
  <2> QED BY <1>1, <1>2
<1>5. RewrittenDeltas(text, shared, each) = FlattenSeq(p)
  <2>1. ASSUME NEW k \in DOMAIN text, k \in shared PROVE Rewritten(<<text[k]>>, each) = <<text[k]>>
    <3>1. <<text[k]>> \in Unmarked
      BY <1>1 DEF Unmarked
    <3> QED BY <2>1, <3>1, NothingRewritten
  <2>2. [k \in DOMAIN text |-> IF k \in shared THEN <<text[k]>> ELSE Rewritten(<<text[k]>>, each)] = p
    BY <2>1
  <2> HIDE DEF p
  <2> QED BY <2>2 DEF RewrittenDeltas
<1> HIDE DEF A, H, p, q
<1>6. q \in Seq(Seq(A)) /\ p \in Seq(Seq(A))
  BY <1>1, <1>4, MapIsSeq
<1>7. H[FlattenSeq(q)] = FlattenSeq(p)
  BY <1>3, <1>4, <1>6, FlattenMorphism
<1>8. FlattenSeq(q) = text
  BY <1>1, <1>4, <1>6, FlattenSingles
<1> QED BY <1>1, <1>2, <1>5, <1>7, <1>8

\* A system prompt of one text, or none.
LEMMA LinesOne == ASSUME NEW t PROVE Lines(<<t>>) = t
<1> DEFINE texts == <<t>>
           Goes(f) == f = [n \in 0..1 |-> IF n = 0 THEN NoText ELSE AddLine(f[n - 1], texts[n])]
           joined == CHOOSE f : Goes(f)
           g == [n \in 0..1 |-> IF n = 0 THEN NoText ELSE t]
<1>1. Len(texts) = 1 /\ texts[1] = t
  OBVIOUS
<1> HIDE DEF texts
<1>2. Goes(g)
  <2>1. ASSUME NEW n \in 0..1 PROVE g[n] = IF n = 0 THEN NoText ELSE AddLine(g[n - 1], texts[n])
    <3>1. CASE n = 0
      BY <3>1
    <3>2. CASE n = 1
      <4>1. AddLine(NoText, texts[1]) = t
        BY <1>1 DEF AddLine
      <4>2. g[1 - 1] = NoText /\ g[1] = t
        OBVIOUS
      <4> HIDE DEF g
      <4> QED BY <3>2, <4>1, <4>2
    <3> QED BY <3>1, <3>2
  <2> QED BY <2>1
<1>3. Goes(joined)
  <2> HIDE DEF Goes
  <2> QED BY <1>2
<1>4. joined[0] = NoText /\ joined[1] = AddLine(joined[1 - 1], texts[1])
  <2> HIDE DEF joined
  <2> QED BY <1>3
<1>5. Lines(texts) = joined[1]
  BY <1>1 DEF Lines
<1> HIDE DEF joined
<1>6. joined[1] = AddLine(NoText, t)
  <2>1. 1 - 1 = 0
    OBVIOUS
  <2> QED BY <1>1, <1>4, <2>1
<1> QED BY <1>5, <1>6 DEF AddLine, texts

-----------------------------------------------------------------------------
(* A stream and a response that is none. *)

\* What the callbacks so far make of a text is what the hooks so far make of it, and none
\* of them runs last before somebody appends.
Alongside(t, r, c, k) ==
    /\ IsReply(r) /\ c = [each |-> c.each, last |-> c.last]
    /\ c.each \in Seq(UnmarkedRules) /\ c.last \in Seq(Unmarked)
    /\ r.content = Rewritten(t, c.each) \o Concat(c.last)
    /\ c.last = <<>> \/ \E i \in 1..k : chain[i].type = "text-append"

\* The view with another content, and other callbacks.
LEMMA ReplyExcepts ==
    ASSUME NEW r, IsReply(r), NEW x
    PROVE  /\ IsReply([r EXCEPT !.content = x]) /\ [r EXCEPT !.content = x].content = x
           /\ IsReply([r EXCEPT !.reasoning = x]) /\ [r EXCEPT !.reasoning = x].content = r.content
<1>1. PICK content, reasoning, calls, raw : r = [content |-> content, reasoning |-> reasoning, calls |-> calls, raw |-> raw]
  BY DEF IsReply, Reply
<1> QED BY <1>1 DEF IsReply, Reply

LEMMA CallbackExcepts ==
    ASSUME NEW c, c = [each |-> c.each, last |-> c.last], NEW x
    PROVE  /\ [c EXCEPT !.each = x] = [each |-> x, last |-> c.last]
           /\ [c EXCEPT !.last = x] = [each |-> c.each, last |-> x]
<1>1. PICK each, last : c = [each |-> each, last |-> last]
  OBVIOUS
<1> QED BY <1>1

\* One instance further.
LEMMA AlongsideNext ==
    ASSUME NEW t \in Unmarked, NEW r, NEW c, NEW k \in Nat, Alongside(t, r, c, k),
           NEW inst, inst = chain[k + 1], Plausible(inst),
           inst.type = "text-append" => inst.downTarget \in DownTargets,
           HasSay(inst) /\ inst.type = "replaces" => ~ Covers(inst.routes, request.path),
           \A i \in 1..k : chain[i].type = "text-append" => inst.type # "text-replace",
           NEW r1, r1 = Made("after", inst, r, request.path, luck),
           NEW c1, c1 = Made("stream", inst, c, request.path, luck)
    PROVE  Alongside(t, r1, c1, k + 1)
<1> DEFINE fires == Applies(inst, request.path, luck)
<1>1. \A i \in 1..k : i \in 1..(k + 1)
  OBVIOUS
<1>2. ASSUME r1 = r, c1 = c PROVE Alongside(t, r1, c1, k + 1)
  BY <1>1, <1>2 DEF Alongside
<1>3. /\ r1 = IF HasSay(inst) /\ HasAfter(inst) THEN Step(OnAfter(inst, r, request.path, luck), r) ELSE r
      /\ c1 = IF HasSay(inst) THEN Registers(inst, c, request.path, luck) ELSE c
  BY DEF Made
<1>9. \A x : /\ IsReply([r EXCEPT !.content = x]) /\ [r EXCEPT !.content = x].content = x
             /\ IsReply([r EXCEPT !.reasoning = x]) /\ [r EXCEPT !.reasoning = x].content = r.content
  <2>1. IsReply(r)
    BY DEF Alongside
  <2> QED BY <2>1, ReplyExcepts
<1>4. inst.type \in BuiltinTypes \cup Marks \cup {"panics", "hollow"}
  BY MarksAssumption DEF Plausible
<1>5. CASE ~ HasSay(inst) \/ ~ fires
  <2>1. HasSay(inst) => OnAfter(inst, r, request.path, luck) = Continue /\ Registers(inst, c, request.path, luck) = c
    BY <1>5 DEF OnAfter, Registers
  <2> QED BY <1>2, <1>3, <2>1 DEF Step, Continue
<1>6. CASE inst.type \notin BuiltinTypes /\ HasSay(inst) /\ fires
  <2>1. inst.type = "blocks"
    BY <1>4, <1>6 DEF HasSay, Applies, Marks
  <2> QED BY <1>2, <1>3, <2>1 DEF HasAfter, Registers
<1>7. CASE inst.type = "text-append" /\ HasSay(inst) /\ fires
  <2>1. inst.down \in Unmarked /\ inst.downTarget \in DownTargets /\ HasAfter(inst)
    BY <1>7 DEF Plausible, HasAfter
  <2>2. CASE inst.down = NoText \/ inst.downTarget = "reasoning"
    <3>1. Registers(inst, c, request.path, luck) = c
      BY <1>7, <2>2 DEF Registers
    <3>2. r1 \in {r, [r EXCEPT !.reasoning = @ \o inst.down]}
      BY <1>3, <1>7, <2>1, <2>2 DEF OnAfter, AppendsAfter, HasSay, Step, Continue, MutateTo
    <3>3. c1 = c /\ IsReply(r1) /\ r1.content = r.content
      BY <1>3, <1>9, <3>1, <3>2, ZenonT(40) DEF Alongside
    <3> QED BY <1>1, <3>3 DEF Alongside
  <2>3. CASE inst.down # NoText /\ inst.downTarget = "content"
    <3>1. c1 = [c EXCEPT !.last = Append(@, inst.down)]
      BY <1>3, <1>7, <2>3 DEF Registers
    <3>2. r1 = [r EXCEPT !.content = @ \o inst.down]
      BY <1>3, <1>7, <2>1, <2>3 DEF OnAfter, AppendsAfter, HasSay, Step, Continue, MutateTo
    <3>3. c1 = [each |-> c.each, last |-> Append(c.last, inst.down)]
      BY <3>1, CallbackExcepts DEF Alongside
    <3>4. IsReply(r1) /\ r1.content = (Rewritten(t, c.each) \o Concat(c.last)) \o inst.down
      BY <1>9, <3>2, ZenonT(40) DEF Alongside
    <3>5. Rewritten(t, c.each) \in Unmarked /\ Concat(c.last) \in Unmarked
      BY RewrittenKeeps, JoinsUnmarked DEF Alongside
    <3>6. r1.content = Rewritten(t, c.each) \o (Concat(c.last) \o inst.down)
      <4>1. \A x, y, z \in Unmarked : (x \o y) \o z = x \o (y \o z)
        BY ConcatAssociative, SMTT(30) DEF Unmarked
      <4> QED BY <2>1, <3>4, <3>5, <4>1, ZenonT(40)
    <3>7. Concat(Append(c.last, inst.down)) = Concat(c.last) \o inst.down
      BY <2>1, FlattenAppend DEF Alongside, Concat, Unmarked
    <3>8. Append(c.last, inst.down) \in Seq(Unmarked)
      BY <2>1, AppendProperties DEF Alongside
    <3>9. k + 1 \in 1..(k + 1)
      OBVIOUS
    <3>10. c1.each = c.each /\ c1.last = Append(c.last, inst.down) /\ c1 = [each |-> c1.each, last |-> c1.last]
      BY <3>3
    <3> QED BY <1>7, <3>4, <3>6, <3>7, <3>8, <3>9, <3>10 DEF Alongside
  <2> QED BY <2>1, <2>2, <2>3 DEF DownTargets
<1>8. CASE inst.type = "text-replace" /\ HasSay(inst) /\ fires
  <2>1. inst.down \in UnmarkedRules /\ HasAfter(inst)
    BY <1>8 DEF Plausible, HasAfter
  <2>2. c.last = <<>>
    BY <1>8 DEF Alongside
  <2>3. Rewritten(t, c.each) \in Unmarked
    BY RewrittenKeeps DEF Alongside
  <2>4. r.content = Rewritten(t, c.each)
    <3>1. Concat(<<>>) = <<>>
      BY DEF Concat, FlattenSeq
    <3> QED BY <2>2, <2>3, <3>1, ConcatEmptySeq DEF Alongside, Unmarked
  <2>5. c1 = [c EXCEPT !.each = Append(@, inst.down)]
    BY <1>3, <1>8 DEF Registers
  <2>6. c1.each = Append(c.each, inst.down) /\ c1.last = <<>> /\ c1 = [each |-> c1.each, last |-> c1.last]
    <3>1. c1 = [each |-> Append(c.each, inst.down), last |-> c.last]
      BY <2>5, CallbackExcepts DEF Alongside
    <3> QED BY <2>2, <3>1
  <2>7. IsReply(r1) /\ r1.content = ApplyRules(r.content, inst.down)
    <3>1. CASE AnyMatches(r.content, inst.down)
      <4>1. r1 = [r EXCEPT !.content = ApplyRules(@, inst.down)]
        BY <1>3, <1>8, <2>1, <3>1 DEF OnAfter, ReplacesAfter, HasSay, Step, MutateTo
      <4> QED BY <1>9, <4>1, ZenonT(40) DEF Alongside
    <3>2. CASE ~ AnyMatches(r.content, inst.down)
      <4>1. r1 = r
        BY <1>3, <1>8, <3>2 DEF OnAfter, ReplacesAfter, HasSay, Step, Continue
      <4>2. ApplyRules(r.content, inst.down) = r.content
        BY <2>1, <2>3, <2>4, <3>2, NothingToReplace DEF Unmarked, UnmarkedRules
      <4> QED BY <4>1, <4>2 DEF Alongside
    <3> QED BY <3>1, <3>2
  <2>8. r1.content = Rewritten(t, c1.each)
    BY <2>1, <2>4, <2>6, <2>7, RewrittenOnce DEF Alongside
  <2>9. c1.each \in Seq(UnmarkedRules) /\ c1.last \in Seq(Unmarked)
    BY <2>1, <2>6, AppendProperties, NothingIsSeq, ZenonT(40) DEF Alongside
  <2>10. r1.content = Rewritten(t, c1.each) \o Concat(c1.last)
    <3>1. Concat(<<>>) = <<>>
      BY DEF Concat, FlattenSeq
    <3>2. Rewritten(t, c1.each) \in Unmarked
      BY <2>9, RewrittenKeeps
    <3> QED BY <2>6, <2>8, <3>1, <3>2, ConcatEmptySeq DEF Unmarked
  <2> QED BY <2>6, <2>7, <2>9, <2>10 DEF Alongside
<1> QED BY <1>5, <1>6, <1>7, <1>8 DEF BuiltinTypes

\* As far as the chain is, and from there to its end.
LEMMA AlongsideAll ==
    ASSUME TypeOK, Healthy(chain), NEW N \in Nat, N = Len(chain), AppendsLast(chain), LetsPass(chain, "replaces"),
           NEW r, IsReply(r), r.content \in Unmarked
    PROVE  AfterOf(chain, r).content = Rewritten(r.content, CallbacksOf(chain).each) \o Concat(CallbacksOf(chain).last)
<1>1. chain \in Lists /\ DOMAIN chain = 1..N
  BY ListsAre DEF TypeOK
<1> DEFINE after(k) == MadeUpTo("after", chain, k, r, request.path, luck)
           callbacks(k) == MadeUpTo("stream", chain, k, NoCallbacks, request.path, luck)
           T == {k \in 0..N : Alongside(r.content, after(k), callbacks(k), k)}
<1>2. /\ after(0) = r /\ callbacks(0) = NoCallbacks
      /\ \A k \in 1..N : /\ after(k) = Made("after", chain[k], after(k - 1), request.path, luck)
                        /\ callbacks(k) = Made("stream", chain[k], callbacks(k - 1), request.path, luck)
  BY <1>1, SoFar
<1>3. AfterOf(chain, r) = after(N) /\ CallbacksOf(chain) = callbacks(N)
  BY DEF AfterOf, CallbacksOf, MadeBy, MadeUpTo
<1> HIDE DEF after, callbacks
<1>4. 0 \in T
  <2>1. Rewritten(r.content, <<>>) = r.content
    <3>1. PICK none : none = <<>> /\ none \in Seq(UnmarkedRules) /\ Len(none) = 0
      <4>1. <<>> \in Seq(UnmarkedRules) /\ Len(<<>>) = 0
        BY NothingIsSeq
      <4> QED BY <4>1, Zenon
    <3>2. PICK S : S = {r.content}
      OBVIOUS
    <3>3. r.content \in S /\ \A n \in 1..0 : \A x \in S : ApplyRules(x, none[n]) \in S
      BY <3>2
    <3>4. Rewritten(r.content, none) \in S
      BY <3>1, <3>3, RewrittenIn
    <3> QED BY <3>1, <3>2, <3>4
  <2>2. Concat(<<>>) = <<>>
    BY DEF Concat, FlattenSeq
  <2>3. r.content \o <<>> = r.content
    BY ConcatEmptySeq DEF Unmarked
  <2>4. PICK c : c = NoCallbacks /\ c.each = <<>> /\ c.last = <<>> /\ c = [each |-> c.each, last |-> c.last]
    <3>1. /\ NoCallbacks.each = <<>> /\ NoCallbacks.last = <<>>
          /\ NoCallbacks = [each |-> NoCallbacks.each, last |-> NoCallbacks.last]
      BY DEF NoCallbacks
    <3> QED BY <3>1, Zenon
  <2>5. Alongside(r.content, r, c, 0)
    BY <2>1, <2>2, <2>3, <2>4, NothingIsSeq DEF Alongside
  <2> QED BY <1>2, <2>4, <2>5
<1>5. ASSUME NEW k \in 1..N, k - 1 \in T PROVE k \in T
  <2>1. PICK m \in Nat : m = k - 1 /\ m + 1 = k
    OBVIOUS
  <2>2. k \in DOMAIN chain /\ Plausible(chain[k]) /\ Inits(chain[k])
    BY <1>1, MarksAssumption DEF Healthy, Inits, Plausible
  <2>3. chain[k].type = "text-append" => chain[k].downTarget \in DownTargets
    BY <2>2 DEF Inits
  <2>4. HasSay(chain[k]) /\ chain[k].type = "replaces" => ~ Covers(chain[k].routes, request.path)
    BY <2>2 DEF LetsPass
  <2>5. \A i \in 1..m : chain[i].type = "text-append" => chain[k].type # "text-replace"
    BY <1>1, <2>1, <2>2 DEF AppendsLast
  <2>6. Alongside(r.content, after(m), callbacks(m), m)
    BY <1>5, <2>1
  <2>7. /\ after(k) = Made("after", chain[k], after(m), request.path, luck)
        /\ callbacks(k) = Made("stream", chain[k], callbacks(m), request.path, luck)
    BY <1>2, <2>1
  <2>8. Alongside(r.content, after(k), callbacks(k), m + 1)
    BY <2>1, <2>2, <2>3, <2>4, <2>5, <2>6, <2>7, AlongsideNext
  <2> QED BY <2>1, <2>8
<1>6. N \in T
  <2> HIDE DEF T
  <2>1. \A k \in 0..N : k \in T
    BY <1>4, <1>5, Upto
  <2> QED BY <2>1
<1>7. Alongside(r.content, after(N), callbacks(N), N)
  BY <1>6
<1> QED BY <1>3, <1>7 DEF Alongside

\* The texts of blocks.
TextOf == [b \in UnmarkedBlocks |-> IF b.type = "text" THEN <<b.text>> ELSE <<>>]

LEMMA TextsOfBlocks ==
    /\ Maps(TextOf, UnmarkedBlocks, Seq(Unmarked))
    /\ \A x : x.blocks \in Seq(UnmarkedBlocks) => BlockTexts(x, "text") = Across(x.blocks, TextOf)
<1>1. \A b \in UnmarkedBlocks : (IF b.type = "text" THEN <<b.text>> ELSE <<>>) \in Seq(Unmarked)
  <2>1. ASSUME NEW b \in UnmarkedBlocks PROVE (IF b.type = "text" THEN <<b.text>> ELSE <<>>) \in Seq(Unmarked)
    <3>1. CASE b.type = "text"
      <4>1. b.text \in Unmarked
        BY <3>1 DEF UnmarkedBlocks
      <4> QED BY <3>1, <4>1, OneIsSeq
    <3>2. CASE b.type # "text"
      BY <3>2, NothingIsSeq
    <3> QED BY <3>1, <3>2
  <2> QED BY <2>1
<1>2. TextOf \in [UnmarkedBlocks -> Seq(Unmarked)]
  BY <1>1 DEF TextOf
<1>3. ASSUME NEW x, x.blocks \in Seq(UnmarkedBlocks) PROVE BlockTexts(x, "text") = Across(x.blocks, TextOf)
  <2>1. \A i \in DOMAIN x.blocks : x.blocks[i] \in UnmarkedBlocks
    BY <1>3, ElementsAre
  <2>2. [i \in DOMAIN x.blocks |-> IF x.blocks[i].type = "text" THEN <<x.blocks[i].text>> ELSE <<>>]
          = [i \in DOMAIN x.blocks |-> TextOf[x.blocks[i]]]
    BY <2>1 DEF TextOf
  <2> QED BY <2>2 DEF BlockTexts, Across, Each
<1> QED BY <1>2, <1>3 DEF Maps

\* A block of which the callbacks get the whole text.
WholeTransform(b, c) ==
    IF b.type # "text" \/ b.text = NoText THEN b ELSE Block("text", Rewritten(b.text, c.each) \o Concat(c.last))

LEMMA TransformIs ==
    ASSUME NEW c, c.each \in Seq(UnmarkedRules), Proto # "unknown", NEW b \in UnmarkedBlocks, NEW shared,
           b.type = "text" =>
              \A k \in DOMAIN b.text : k \in shared => \A n \in DOMAIN c.each : ~ AnyMatches(<<b.text[k]>>, c.each[n])
    PROVE  Transform(Proto, b, c, shared) = WholeTransform(b, c)
<1>1. CASE b.type # "text" \/ b.text = NoText
  BY <1>1 DEF Transform, WholeTransform
<1>2. CASE b.type = "text" /\ b.text # NoText
  <2>1. b.text \in Unmarked
    BY <1>2 DEF UnmarkedBlocks
  <2>2. RewrittenDeltas(b.text, shared, c.each) = Rewritten(b.text, c.each)
    BY <1>2, <2>1, DeltasAre
  <2> QED BY <1>2, <2>2 DEF Transform, WholeTransform
<1> QED BY <1>1, <1>2

\* What a stream carries, and what the same response says.
LEMMA StreamCarries ==
    ASSUME NEW c, c.each \in Seq(UnmarkedRules), c.last \in Seq(Unmarked),
           NEW x, x.blocks \in Seq(UnmarkedBlocks), NEW y, y.blocks \in Seq(UnmarkedBlocks),
           DOMAIN y.blocks = DOMAIN x.blocks,
           \A i \in DOMAIN x.blocks : y.blocks[i] = WholeTransform(x.blocks[i], c),
           NEW t \in Unmarked, t # NoText, BlockTexts(x, "text") = <<t>>
    PROVE  BlockTexts(y, "text") = <<Rewritten(t, c.each) \o Concat(c.last)>>
<1> DEFINE F(u) == IF u = NoText THEN NoText ELSE Rewritten(u, c.each) \o Concat(c.last)
           K == [u \in Unmarked |-> <<F(u)>>]
           GK == [b \in UnmarkedBlocks |-> IF b.type = "text" THEN <<F(b.text)>> ELSE <<>>]
<1>1. \A u \in Unmarked : F(u) \in Unmarked
  <2>1. Concat(c.last) \in Unmarked
    BY JoinsUnmarked
  <2>2. ASSUME NEW u \in Unmarked PROVE F(u) \in Unmarked
    <3>1. Rewritten(u, c.each) \in Unmarked
      BY RewrittenKeeps
    <3> QED BY <2>1, <3>1 DEF Unmarked
  <2> QED BY <2>2
<1>2. \A i \in DOMAIN x.blocks :
         /\ x.blocks[i] \in UnmarkedBlocks /\ y.blocks[i] \in UnmarkedBlocks
         /\ y.blocks[i].type = x.blocks[i].type
         /\ x.blocks[i].type = "text" => x.blocks[i].text \in Unmarked /\ y.blocks[i].text = F(x.blocks[i].text)
  <2>1. \A i \in DOMAIN x.blocks : x.blocks[i] \in UnmarkedBlocks /\ y.blocks[i] \in UnmarkedBlocks
    BY ElementsAre
  <2>2. \A i \in DOMAIN x.blocks :
           /\ y.blocks[i].type = x.blocks[i].type
           /\ x.blocks[i].type = "text" => y.blocks[i].text = F(x.blocks[i].text)
    <3>1. ASSUME NEW b PROVE /\ WholeTransform(b, c).type = b.type
                             /\ b.type = "text" => WholeTransform(b, c).text = F(b.text)
      <4>1. CASE b.type = "text" /\ b.text # NoText
        <5> HIDE DEF F
        <5>1. WholeTransform(b, c) = Block("text", F(b.text))
          BY <4>1 DEF WholeTransform, F
        <5> QED BY <4>1, <5>1 DEF Block
      <4>2. CASE b.type # "text" \/ b.text = NoText
        BY <4>2 DEF WholeTransform
      <4> QED BY <4>1, <4>2
    <3> HIDE DEF F
    <3> QED BY <3>1
  <2> QED BY <2>1, <2>2 DEF UnmarkedBlocks
<1> HIDE DEF F
<1>3. \A u \in Unmarked : K[u] = <<F(u)>> /\ K[u] \in Seq(Unmarked)
  BY <1>1, OneIsSeq
<1>4. Maps(K, Unmarked, Seq(Unmarked))
  BY <1>3 DEF Maps
<1>5. \A b \in UnmarkedBlocks : GK[b] = (IF b.type = "text" THEN <<F(b.text)>> ELSE <<>>) /\ GK[b] \in Seq(Unmarked)
  <2>1. ASSUME NEW b \in UnmarkedBlocks, b.type = "text" PROVE <<F(b.text)>> \in Seq(Unmarked)
    <3>1. b.text \in Unmarked
      BY <2>1 DEF UnmarkedBlocks
    <3> QED BY <1>1, <3>1, OneIsSeq
  <2> QED BY <2>1, NothingIsSeq
<1>6. Maps(GK, UnmarkedBlocks, Seq(Unmarked))
  BY <1>5 DEF Maps
<1> HIDE DEF K, GK
<1>7. ASSUME NEW i \in DOMAIN x.blocks
      PROVE  GK[x.blocks[i]] = Across(TextOf[x.blocks[i]], K) /\ GK[x.blocks[i]] = TextOf[y.blocks[i]]
  <2>1. CASE x.blocks[i].type = "text"
    <3>1. TextOf[x.blocks[i]] = <<x.blocks[i].text>> /\ TextOf[y.blocks[i]] = <<F(x.blocks[i].text)>>
      BY <1>2, <2>1 DEF TextOf
    <3>2. Across(<<x.blocks[i].text>>, K) = <<F(x.blocks[i].text)>>
      <4>1. Across(<<x.blocks[i].text>>, K) = K[x.blocks[i].text]
        BY AcrossOne
      <4>2. x.blocks[i].text \in Unmarked
        BY <1>2, <2>1
      <4> QED BY <1>3, <4>1, <4>2
    <3>3. GK[x.blocks[i]] = <<F(x.blocks[i].text)>>
      BY <1>2, <1>5, <2>1
    <3> QED BY <3>1, <3>2, <3>3
  <2>2. CASE x.blocks[i].type # "text"
    <3>1. TextOf[x.blocks[i]] = <<>> /\ TextOf[y.blocks[i]] = <<>> /\ GK[x.blocks[i]] = <<>>
      BY <1>2, <1>5, <2>2 DEF TextOf
    <3> QED BY <3>1, AcrossNone
  <2> QED BY <2>1, <2>2
<1>8. Across(Across(x.blocks, TextOf), K) = Across(x.blocks, GK)
  <2>1. Maps(TextOf, UnmarkedBlocks, Seq(Unmarked))
    BY TextsOfBlocks
  <2>2. \A i \in DOMAIN x.blocks : GK[x.blocks[i]] = Across(TextOf[x.blocks[i]], K)
    BY <1>7
  <2>3. x.blocks \in Seq(UnmarkedBlocks)
    OBVIOUS
  <2> HIDE DEF TextOf
  <2> QED BY ONLY <1>4, <1>6, <2>1, <2>2, <2>3, AcrossAcross
<1>9. Across(y.blocks, TextOf) = Across(x.blocks, GK)
  BY <1>7, AcrossSame
<1>10. Across(<<t>>, K) = <<F(t)>>
  BY <1>3, AcrossOne
<1> QED BY <1>8, <1>9, <1>10, TextsOfBlocks DEF F

\* StreamedAsBuffered for any lists and responses: one text that is streamed is what the
\* same plugins make of it when it is not, if no append comes before a replacement and no
\* delta ends inside of what a rule looks for (OnAfter's two branches, handleContentDelta,
\* WrapStreamDispatcher).
THEOREM StreamsAsBuffered == Spec => []StreamedAsBuffered
<1>1. ASSUME TypeOK, SourceInv, ChainsInv PROVE StreamedAsBuffered
  <2> SUFFICES ASSUME OneText, NEW cuts, NoMatchCut(cuts) PROVE StreamsTheSame(cuts)
    BY DEF StreamedAsBuffered
  <2>1. /\ Untold /\ Healthy(chain) /\ cbs.each \in Seq(UnmarkedRules) /\ cbs.last \in Seq(Unmarked)
        /\ Over("stream") /\ Proto # "unknown" /\ reply.body.json = "fits" /\ AppendsLast(chain)
    BY <1>1 DEF SourceInv, Over, OneText
  <2>2. LetsPass(chain, "replaces") /\ cbs = CallbacksOf(chain)
    BY <1>1, <2>1, AtTheEnd
  <2> DEFINE blocks == reply.body.blocks
             after == Streamed(cuts).body.blocks
             r == ParseResponse(Proto, reply.body)
  <2>4. blocks \in Seq(UnmarkedBlocks)
    BY <2>1 DEF Untold
  <2>5. PICK t \in Unmarked : BlockTexts(reply.body, "text") = <<t>> /\ t # NoText
    <3>1. BlockTexts(reply.body, "text") \in Seq(Unmarked)
      BY <2>4, BlockTextsUnmarked
    <3>2. PICK s \in Seq(Unmarked) : s = BlockTexts(reply.body, "text") /\ Len(s) = 1 /\ s[1] # NoText
      BY <3>1 DEF OneText
    <3>3. s = <<s[1]>> /\ s[1] \in Unmarked
      BY <3>2
    <3> QED BY <3>2, <3>3
  <2>3. /\ after \in Seq(UnmarkedBlocks) /\ DOMAIN after = DOMAIN blocks
        /\ \A i \in DOMAIN blocks : after[i] = Transform(Proto, blocks[i], cbs, Shared(cuts, i))
    BY <2>1, StreamedBlocks
  <2>6. \A i \in DOMAIN blocks : after[i] = WholeTransform(blocks[i], cbs)
    <3>1. ASSUME NEW i \in DOMAIN blocks, NEW k \in Shared(cuts, i), NEW n \in DOMAIN cbs.each
          PROVE  ~ AnyMatches(<<blocks[i].text[k]>>, cbs.each[n])
      <4>1. PICK cut \in cuts : cut[1] = i /\ cut[2] = k
        BY <3>1 DEF Shared
      <4>2. ~ AnyMatches(<<blocks[cut[1]].text[cut[2]]>>, cbs.each[n])
        BY <4>1 DEF NoMatchCut
      <4> QED BY <4>1, <4>2
    <3>2. \A i \in DOMAIN blocks : blocks[i] \in UnmarkedBlocks
      BY <2>4, ElementsAre
    <3> HIDE DEF blocks, after
    <3>3. \A i \in DOMAIN blocks : Transform(Proto, blocks[i], cbs, Shared(cuts, i)) = WholeTransform(blocks[i], cbs)
      BY <2>1, <3>1, <3>2, TransformIs
    <3> QED BY <2>3, <3>3
  <2>7. Concat(BlockTexts(Streamed(cuts).body, "text")) = Rewritten(t, cbs.each) \o Concat(cbs.last)
    <3>1. PICK x, y : /\ x = reply.body /\ y = Streamed(cuts).body /\ x.blocks = blocks /\ y.blocks = after
      OBVIOUS
    <3> HIDE DEF blocks, after
    <3>2. BlockTexts(x, "text") = <<t>>
      BY <2>5, <3>1
    <3>3. BlockTexts(y, "text") = <<Rewritten(t, cbs.each) \o Concat(cbs.last)>>
      BY <2>1, <2>3, <2>4, <2>5, <2>6, <3>1, <3>2, StreamCarries
    <3> QED BY <3>1, <3>3, FlattenOne DEF Concat
  <2>8. IsReply(r) /\ r.content = t
    <3>1. blocks \in Seq([type : BlockTypes, text : Seq(Tokens)])
      <4>1. \A i \in DOMAIN blocks : blocks[i] \in UnmarkedBlocks
        BY <2>4, ElementsAre
      <4>2. blocks \in [DOMAIN blocks -> [type : BlockTypes, text : Seq(Tokens)]]
        BY <2>4, <4>1, ElementsAre DEF UnmarkedBlocks
      <4> QED BY <2>4, <4>2, MapIsSeq
    <3>2. IsReply(r)
      BY <3>1, Protos, ParseKeeps
    <3>3. Lines(<<t>>) = t /\ Concat(<<t>>) = t
      BY LinesOne, FlattenOne DEF Concat
    <3>4. r.content \in {Lines(BlockTexts(reply.body, "text")), Concat(BlockTexts(reply.body, "text"))}
      BY <2>1, Protos DEF ParseResponse, ParseChatReply, ParseMessagesReply, ParseResponsesReply, ParseGeminiReply, Reply,
                    Protocols
    <3> QED BY <2>5, <3>2, <3>3, <3>4
  <2>9. PICK N \in Nat : N = Len(chain)
    BY <1>1, ListsAre DEF TypeOK
  <2> QED BY <1>1, <2>1, <2>2, <2>5, <2>7, <2>8, <2>9, AlongsideAll DEF StreamsTheSame
<1>2. ChainsInv => TypeOK
  BY DEF ChainsInv
<1> QED BY <1>1, <1>2, ChainsInvariance, SourceInvariance, PTL

-----------------------------------------------------------------------------
(* The parts of a message: what is selected, what they say, and what is among them. *)

Pairs == PartTypes \X Seq(Tokens) \X BOOLEAN
KeepIf(T) == [part \in Parts |-> IF part.type \in T THEN <<part>> ELSE <<>>]
PairIf(T) == [part \in Parts |-> IF part.type \in T THEN <<Carries(part)>> ELSE <<>>]
SaidIf == [part \in Parts |-> IF part.type = "text" THEN part.text ELSE <<>>]
PairOf == [part \in Parts |-> <<Carries(part)>>]
TextOfPart == [part \in Parts |-> part.text]

PairsOf(parts, T) == Across(parts, PairIf(T))
Said(parts) == Across(parts, SaidIf)

LEMMA PartIs ==
    ASSUME NEW part \in Parts
    PROVE  /\ part.type \in PartTypes /\ part.text \in Seq(Tokens) /\ part.extra \in BOOLEAN
           /\ part = Part(part.type, part.text, part.extra)
           /\ Carries(part) \in Pairs
<1>1. part.type \in PartTypes /\ part.text \in Seq(Tokens) /\ part.extra \in BOOLEAN
  BY DEF Parts
<1>2. part = Part(part.type, part.text, part.extra)
  BY DEF Parts, Part
<1>3. (part.type = "other" /\ part.extra) \in BOOLEAN
  BY <1>1
<1> QED BY <1>1, <1>2, <1>3 DEF Carries, Pairs

LEMMA PartMaps ==
    ASSUME NEW T
    PROVE  /\ Maps(KeepIf(T), Parts, Seq(Parts)) /\ Maps(PairIf(T), Parts, Seq(Pairs))
           /\ Maps(SaidIf, Parts, Seq(Tokens)) /\ Maps(PairOf, Parts, Seq(Pairs))
           /\ Maps(TextOfPart, Parts, Seq(Tokens))
<1>1. <<>> \in Seq(Parts) /\ <<>> \in Seq(Pairs) /\ <<>> \in Seq(Tokens)
  BY NothingIsSeq
<1>2. ASSUME NEW part \in Parts
      PROVE  /\ <<part>> \in Seq(Parts) /\ <<Carries(part)>> \in Seq(Pairs) /\ part.text \in Seq(Tokens)
  BY PartIs, OneIsSeq
<1>3. Maps(KeepIf(T), Parts, Seq(Parts))
  BY <1>1, <1>2 DEF Maps, KeepIf
<1>4. Maps(PairIf(T), Parts, Seq(Pairs)) /\ Maps(PairOf, Parts, Seq(Pairs))
  BY <1>1, <1>2 DEF Maps, PairIf, PairOf
<1>5. Maps(SaidIf, Parts, Seq(Tokens)) /\ Maps(TextOfPart, Parts, Seq(Tokens))
  BY <1>1, <1>2 DEF Maps, SaidIf, TextOfPart
<1> QED BY <1>3, <1>4, <1>5

\* At each part.
LEMMA PartAt ==
    ASSUME NEW part \in Parts, NEW T
    PROVE  /\ part.type \in T => KeepIf(T)[part] = <<part>> /\ PairIf(T)[part] = <<Carries(part)>>
           /\ part.type \notin T => KeepIf(T)[part] = <<>> /\ PairIf(T)[part] = <<>>
  BY DEF KeepIf, PairIf

LEMMA PartSays ==
    ASSUME NEW part \in Parts
    PROVE  /\ part.type = "text" => SaidIf[part] = part.text
           /\ part.type # "text" => SaidIf[part] = <<>>
           /\ PairOf[part] = <<Carries(part)>> /\ TextOfPart[part] = part.text
  BY DEF SaidIf, PairOf, TextOfPart

LEMMA PartsAlike ==
    ASSUME NEW part \in Parts, NEW other \in Parts, part.type = other.type, NEW T, NEW U,
           part.type \in T <=> part.type \in U
    PROVE  /\ Carries(part) = Carries(other) => PairIf(T)[part] = PairIf(U)[other]
           /\ part.text = other.text => SaidIf[part] = SaidIf[other]
           /\ part.type \in T => PairIf(T)[part] = PairOf[part]
<1>1. CASE part.type \in T
  <2>1. PairIf(T)[part] = <<Carries(part)>>
    BY <1>1, PartAt
  <2>2. PairIf(U)[other] = <<Carries(other)>>
    BY <1>1, PartAt
  <2>3. PairOf[part] = <<Carries(part)>>
    BY PartSays
  <2> QED BY <2>1, <2>2, <2>3, PartSays
<1>2. CASE part.type \notin T
  BY <1>2, PartAt, PartSays
<1> QED BY <1>1, <1>2

LEMMA SubsequenceIs ==
    ASSUME NEW A, NEW B, NEW K, Maps(K, A, Seq(B)), NEW s \in Seq(A), NEW places,
           \A i \in DOMAIN s : K[s[i]] = IF i \in places THEN <<s[i]>> ELSE <<>>
    PROVE  Subsequence(s, places) = Across(s, K) /\ Subsequence(s, places) \in Seq(B)
<1>1. Subsequence(s, places) = Across(s, K)
  BY DEF Subsequence, Across, Each
<1> QED BY <1>1, AcrossIn

LEMMA OfTypeIs ==
    ASSUME NEW parts \in Seq(Parts), NEW T
    PROVE  OfType(parts, T) = Across(parts, KeepIf(T)) /\ OfType(parts, T) \in Seq(Parts)
<1> DEFINE places == {i \in DOMAIN parts : parts[i].type \in T}
<1>1. \A i \in DOMAIN parts : parts[i] \in Parts
  BY ElementsAre
<1>2. \A i \in DOMAIN parts : KeepIf(T)[parts[i]] = IF i \in places THEN <<parts[i]>> ELSE <<>>
  BY <1>1, PartAt, PartSays
<1>3. Subsequence(parts, places) = Across(parts, KeepIf(T)) /\ Subsequence(parts, places) \in Seq(Parts)
  <2>1. Maps(KeepIf(T), Parts, Seq(Parts))
    BY PartMaps
  <2> HIDE DEF places
  <2> QED BY <1>2, <2>1, SubsequenceIs
<1> QED BY <1>3 DEF OfType

LEMMA PairsOfType ==
    ASSUME NEW parts \in Seq(Parts), NEW T, NEW U, NEW W, \A t : t \in W <=> t \in T /\ t \in U
    PROVE  PairsOf(OfType(parts, T), U) = PairsOf(parts, W)
<1>1. Maps(KeepIf(T), Parts, Seq(Parts)) /\ Maps(PairIf(U), Parts, Seq(Pairs)) /\ Maps(PairIf(W), Parts, Seq(Pairs))
  BY PartMaps
<1>2. ASSUME NEW i \in DOMAIN parts PROVE PairIf(W)[parts[i]] = Across(KeepIf(T)[parts[i]], PairIf(U))
  <2>1. parts[i] \in Parts
    BY ElementsAre
  <2>2. CASE parts[i].type \in T
    <3>1. KeepIf(T)[parts[i]] = <<parts[i]>>
      BY <2>1, <2>2, PartAt
    <3>2. parts[i].type \in W <=> parts[i].type \in U
      BY <2>2
    <3>3. PairIf(W)[parts[i]] = PairIf(U)[parts[i]]
      BY <2>1, <3>2, PartsAlike
    <3> QED BY <3>1, <3>3, AcrossOne
  <2>3. CASE parts[i].type \notin T
    <3>1. KeepIf(T)[parts[i]] = <<>> /\ PairIf(W)[parts[i]] = <<>>
      BY <2>1, <2>3, PartAt, PartSays
    <3> QED BY <3>1, AcrossNone
  <2> QED BY <2>2, <2>3
<1>3. Across(Across(parts, KeepIf(T)), PairIf(U)) = Across(parts, PairIf(W))
  BY <1>1, <1>2, AcrossAcross
<1> QED BY <1>3, OfTypeIs DEF PairsOf

LEMMA SaidOfType ==
    ASSUME NEW parts \in Seq(Parts), NEW T, "text" \in T
    PROVE  Said(OfType(parts, T)) = Said(parts)
<1>1. Maps(KeepIf(T), Parts, Seq(Parts)) /\ Maps(SaidIf, Parts, Seq(Tokens))
  BY PartMaps
<1>2. ASSUME NEW i \in DOMAIN parts PROVE SaidIf[parts[i]] = Across(KeepIf(T)[parts[i]], SaidIf)
  <2>1. parts[i] \in Parts
    BY ElementsAre
  <2>2. CASE parts[i].type \in T
    <3>1. KeepIf(T)[parts[i]] = <<parts[i]>>
      BY <2>1, <2>2, PartAt, PartSays
    <3> QED BY <3>1, AcrossOne
  <2>3. CASE parts[i].type \notin T
    <3>1. KeepIf(T)[parts[i]] = <<>> /\ SaidIf[parts[i]] = <<>>
      BY <2>1, <2>3, PartAt, PartSays
    <3> QED BY <3>1, AcrossNone
  <2> QED BY <2>2, <2>3
<1>3. Across(Across(parts, KeepIf(T)), SaidIf) = Across(parts, SaidIf)
  BY <1>1, <1>2, AcrossAcross
<1> QED BY <1>3, OfTypeIs DEF Said

\* Nothing of the types asked for, and nothing that is said.
LEMMA PairsNone ==
    ASSUME NEW parts \in Seq(Parts), NEW T, \A i \in DOMAIN parts : parts[i].type \notin T
    PROVE  PairsOf(parts, T) = <<>>
<1>1. Maps(PairIf(T), Parts, Seq(Pairs))
  BY PartMaps
<1>2. \A i \in DOMAIN parts : PairIf(T)[parts[i]] = <<>>
  BY ElementsAre, PartAt, PartSays
<1> QED BY <1>1, <1>2, AcrossNothing DEF PairsOf

LEMMA SaidNone ==
    ASSUME NEW parts \in Seq(Parts), \A i \in DOMAIN parts : parts[i].type # "text" \/ parts[i].text = <<>>
    PROVE  Said(parts) = <<>>
<1>1. Maps(SaidIf, Parts, Seq(Tokens))
  BY PartMaps
<1>2. \A i \in DOMAIN parts : SaidIf[parts[i]] = <<>>
  BY ElementsAre, PartAt, PartSays
<1> QED BY <1>1, <1>2, AcrossNothing DEF Said

\* Types of which no part is do not matter.
LEMMA PairsWhere ==
    ASSUME NEW parts \in Seq(Parts), NEW T, NEW U, \A i \in DOMAIN parts : parts[i].type \in T <=> parts[i].type \in U
    PROVE  PairsOf(parts, T) = PairsOf(parts, U)
<1>1. \A i \in DOMAIN parts : PairIf(T)[parts[i]] = PairIf(U)[parts[i]]
  <2>1. \A i \in DOMAIN parts : parts[i] \in Parts
    BY ElementsAre
  <2> QED BY <2>1, PartsAlike
<1> QED BY <1>1, AcrossSame DEF PairsOf

\* Two messages that differ in texts only.
LEMMA TextsApart ==
    ASSUME NEW parts \in Seq(Parts), NEW other \in Seq(Parts), DOMAIN parts = DOMAIN other, NEW T, "text" \notin T,
           \A i \in DOMAIN parts : parts[i] = other[i] \/ (parts[i].type = "text" /\ other[i].type = "text")
    PROVE  PairsOf(parts, T) = PairsOf(other, T)
<1>1. \A i \in DOMAIN parts : parts[i] \in Parts /\ other[i] \in Parts
  BY ElementsAre
<1>2. \A i \in DOMAIN parts : PairIf(T)[parts[i]] = PairIf(T)[other[i]]
  BY <1>1, PartAt, PartSays
<1> QED BY <1>2, AcrossSame DEF PairsOf

LEMMA PairsJoin ==
    ASSUME NEW a \in Seq(Parts), NEW b \in Seq(Parts)
    PROVE  /\ a \o b \in Seq(Parts)
           /\ \A T : PairsOf(a \o b, T) = PairsOf(a, T) \o PairsOf(b, T)
           /\ Said(a \o b) = Said(a) \o Said(b)
<1>1. a \o b \in Seq(Parts)
  OBVIOUS
<1>2. ASSUME NEW T PROVE PairsOf(a \o b, T) = PairsOf(a, T) \o PairsOf(b, T)
  <2>1. Maps(PairIf(T), Parts, Seq(Pairs))
    BY PartMaps
  <2> QED BY <2>1, AcrossJoin DEF PairsOf
<1>3. Said(a \o b) = Said(a) \o Said(b)
  <2>1. Maps(SaidIf, Parts, Seq(Tokens))
    BY PartMaps
  <2> QED BY <2>1, AcrossJoin DEF Said
<1> QED BY <1>1, <1>2, <1>3

LEMMA PairsIn ==
    ASSUME NEW parts \in Seq(Parts), NEW T
    PROVE  /\ PairsOf(parts, T) \in Seq(Pairs) /\ Said(parts) \in Seq(Tokens)
           /\ PairsOf(parts, T) \o <<>> = PairsOf(parts, T) /\ <<>> \o PairsOf(parts, T) = PairsOf(parts, T)
           /\ Said(parts) \o <<>> = Said(parts) /\ <<>> \o Said(parts) = Said(parts)
<1>1. PairsOf(parts, T) \in Seq(Pairs) /\ Said(parts) \in Seq(Tokens)
  <2>1. Maps(PairIf(T), Parts, Seq(Pairs)) /\ Maps(SaidIf, Parts, Seq(Tokens))
    BY PartMaps
  <2> QED BY <2>1, AcrossIn DEF PairsOf, Said
<1>2. \A A : \A s \in Seq(A) : s \o <<>> = s /\ <<>> \o s = s
  OBVIOUS
<1> QED BY <1>1, <1>2

LEMMA CarriedAre ==
    ASSUME NEW parts \in Seq(Parts), NEW T
    PROVE  Carried(OfType(parts, T)) = PairsOf(parts, T)
<1>1. PICK own \in Seq(Parts) : own = OfType(parts, T) /\ own = Across(parts, KeepIf(T))
  BY OfTypeIs
<1>2. PICK pairs : pairs = Carried(own)
  OBVIOUS
<1>3. /\ pairs = [i \in DOMAIN own |-> Carries(own[i])]
      /\ \A i \in DOMAIN own : own[i] \in Parts /\ Carries(own[i]) \in Pairs
  BY <1>2, ElementsAre, PartIs DEF Carried
<1>4. pairs \in [DOMAIN own -> Pairs]
  BY <1>3
<1>5. pairs \in Seq(Pairs) /\ DOMAIN pairs = DOMAIN own
  BY <1>4, MapIsSeq
<1>6. Maps(KeepIf(T), Parts, Seq(Parts)) /\ Maps(PairIf(T), Parts, Seq(Pairs)) /\ Maps(PairOf, Parts, Seq(Pairs))
  BY PartMaps
<1>7. \A i \in DOMAIN own : PairOf[own[i]] = <<pairs[i]>>
  BY <1>3, PartAt, PartSays
<1>8. Across(own, PairOf) = pairs
  BY <1>5, <1>6, <1>7, AcrossEach
<1>9. ASSUME NEW i \in DOMAIN parts PROVE PairIf(T)[parts[i]] = Across(KeepIf(T)[parts[i]], PairOf)
  <2>1. parts[i] \in Parts
    BY ElementsAre
  <2>2. CASE parts[i].type \in T
    <3>1. KeepIf(T)[parts[i]] = <<parts[i]>> /\ PairIf(T)[parts[i]] = PairOf[parts[i]]
      BY <2>1, <2>2, PartAt, PartsAlike
    <3> QED BY <3>1, AcrossOne
  <2>3. CASE parts[i].type \notin T
    <3>1. KeepIf(T)[parts[i]] = <<>> /\ PairIf(T)[parts[i]] = <<>>
      BY <2>1, <2>3, PartAt, PartSays
    <3> QED BY <3>1, AcrossNone
  <2> QED BY <2>2, <2>3
<1>10. Across(Across(parts, KeepIf(T)), PairOf) = Across(parts, PairIf(T))
  BY <1>6, <1>9, AcrossAcross
<1> QED BY <1>1, <1>2, <1>8, <1>10 DEF PairsOf

LEMMA TextsAre ==
    ASSUME NEW parts \in Seq(Parts)
    PROVE  Texts(parts) \in Seq(Seq(Tokens)) /\ Concat(Texts(parts)) = Said(parts)
<1>1. PICK own \in Seq(Parts) : own = OfType(parts, {"text"}) /\ own = Across(parts, KeepIf({"text"}))
  BY OfTypeIs
<1>2. Maps(KeepIf({"text"}), Parts, Seq(Parts)) /\ Maps(TextOfPart, Parts, Seq(Tokens)) /\ Maps(SaidIf, Parts, Seq(Tokens))
  BY PartMaps
<1>3. Texts(parts) = Each(own, TextOfPart)
  <2>1. \A i \in DOMAIN own : own[i] \in Parts /\ TextOfPart[own[i]] = own[i].text
    BY ElementsAre, PartAt, PartSays
  <2> QED BY <1>1, <2>1 DEF Texts, Each
<1>4. Each(own, TextOfPart) \in Seq(Seq(Tokens))
  BY <1>2, EachIs
<1>5. ASSUME NEW i \in DOMAIN parts PROVE SaidIf[parts[i]] = Across(KeepIf({"text"})[parts[i]], TextOfPart)
  <2>1. parts[i] \in Parts
    BY ElementsAre
  <2>2. CASE parts[i].type = "text"
    <3>1. KeepIf({"text"})[parts[i]] = <<parts[i]>> /\ SaidIf[parts[i]] = TextOfPart[parts[i]]
      BY <2>1, <2>2, PartAt, PartSays
    <3> QED BY <3>1, AcrossOne
  <2>3. CASE parts[i].type # "text"
    <3>1. KeepIf({"text"})[parts[i]] = <<>> /\ SaidIf[parts[i]] = <<>>
      BY <2>1, <2>3, PartAt, PartSays
    <3> QED BY <3>1, AcrossNone
  <2> QED BY <2>2, <2>3
<1>6. Across(Across(parts, KeepIf({"text"})), TextOfPart) = Across(parts, SaidIf)
  BY <1>2, <1>5, AcrossAcross
<1> QED BY <1>1, <1>3, <1>4, <1>6 DEF Concat, Said, Across

\* Parts that are written field by field keep what they are and what they say.
LEMMA PlainKeeps ==
    ASSUME NEW parts \in Seq(Parts), NEW X, "other" \notin X
    PROVE  /\ PlainIf(parts, X) \in Seq(Parts)
           /\ \A T : PairsOf(PlainIf(parts, X), T) = PairsOf(parts, T)
           /\ Said(PlainIf(parts, X)) = Said(parts)
<1>1. PICK plain : plain = PlainIf(parts, X)
  OBVIOUS
<1>2. ASSUME NEW part \in Parts
      PROVE  /\ Plain(part) \in Parts /\ Plain(part).type = part.type /\ Plain(part).text = part.text
             /\ part.type # "other" => Carries(Plain(part)) = Carries(part)
  <2>1. Plain(part) \in Parts /\ Plain(part).type = part.type /\ Plain(part).text = part.text
    BY <1>2 DEF Plain, Parts
  <2> QED BY <2>1 DEF Carries
<1>3. \A i \in DOMAIN parts : parts[i] \in Parts
  BY ElementsAre
<1>4. /\ plain \in [DOMAIN parts -> Parts]
      /\ \A i \in DOMAIN parts : /\ plain[i].type = parts[i].type /\ plain[i].text = parts[i].text
                                /\ Carries(plain[i]) = Carries(parts[i])
  BY <1>1, <1>2, <1>3 DEF PlainIf
<1>5. plain \in Seq(Parts) /\ DOMAIN plain = DOMAIN parts /\ \A i \in DOMAIN parts : plain[i] \in Parts
  BY <1>4, MapIsSeq
<1>6. ASSUME NEW T PROVE PairsOf(plain, T) = PairsOf(parts, T)
  <2>1. \A i \in DOMAIN plain : PairIf(T)[plain[i]] = PairIf(T)[parts[i]]
    BY <1>3, <1>4, <1>5, PartsAlike
  <2> QED BY <1>5, <2>1, AcrossSame DEF PairsOf
<1>7. Said(plain) = Said(parts)
  <2>1. \A i \in DOMAIN plain : SaidIf[plain[i]] = SaidIf[parts[i]]
    BY <1>3, <1>4, <1>5, PartsAlike, SMTT(30)
  <2> QED BY <1>5, <2>1, AcrossSame DEF Said
<1> QED BY <1>1, <1>5, <1>6, <1>7

\* One part.
LEMMA OneTextIs ==
    ASSUME NEW text \in Seq(Tokens)
    PROVE  /\ <<TextPart(text)>> \in Seq(Parts)
           /\ \A T : "text" \notin T => PairsOf(<<TextPart(text)>>, T) = <<>>
           /\ Said(<<TextPart(text)>>) = text /\ Texts(<<TextPart(text)>>) = <<text>>
<1>1. PICK part \in Parts : part = TextPart(text) /\ part.type = "text" /\ part.text = text
  <2>1. "text" \in PartTypes
    BY DEF PartTypes
  <2>2. [type |-> "text", text |-> text, extra |-> FALSE] \in Parts
    BY <2>1 DEF Parts
  <2> QED BY <2>2 DEF TextPart, Part
<1>2. <<part>> \in Seq(Parts)
  BY OneIsSeq
<1>3. ASSUME NEW T, "text" \notin T PROVE PairsOf(<<part>>, T) = <<>>
  BY <1>1, <1>3, PartAt, PartSays, AcrossOne DEF PairsOf
<1>4. Said(<<part>>) = text
  BY <1>1, PartAt, PartSays, AcrossOne DEF Said
<1>5. Texts(<<part>>) = <<text>>
  <2>1. OfType(<<part>>, {"text"}) = <<part>>
    <3>1. Across(<<part>>, KeepIf({"text"})) = <<part>>
      BY <1>1, PartAt, PartSays, AcrossOne
    <3> QED BY <1>2, <3>1, OfTypeIs
  <2>2. [i \in DOMAIN <<part>> |-> <<part>>[i].text] = <<part.text>>
    OBVIOUS
  <2> QED BY <1>1, <2>1, <2>2 DEF Texts
<1> QED BY <1>1, <1>2, <1>3, <1>4, <1>5

-----------------------------------------------------------------------------
(* Turns that are built of messages, and the messages that they are lifted to again. *)

NonText == PartTypes \ {"text"}
Apart == PartTypes \ {"text", "tool_use"}
Roles == STRING \cup {"system", "user"}
Msgs == [role : Roles, parts : Seq(Parts)]
AnyTurns == [role : Roles, str : BOOLEAN, parts : Seq(Parts)]

\* In a view of Chat the tool calls come last.
CallsLast(parts) == PairsOf(parts, NonText) = PairsOf(parts, Apart) \o PairsOf(parts, {"tool_use"})

LEMMA MediaApart == Media \subseteq Apart
  BY DEF Media, Apart, PartTypes

LEMMA OfTypeAre ==
    ASSUME NEW parts \in Seq(Parts), NEW T
    PROVE  \A i \in DOMAIN OfType(parts, T) : OfType(parts, T)[i] \in Parts /\ OfType(parts, T)[i].type \in T
<1>1. PICK S : S = {part \in Parts : part.type \in T}
  OBVIOUS
<1>2. <<>> \in Seq(S) /\ \A part \in S : <<part>> \in Seq(S)
  BY NothingIsSeq, OneIsSeq
<1>3. Maps(KeepIf(T), Parts, Seq(S))
  BY <1>1, <1>2 DEF Maps, KeepIf
<1>4. OfType(parts, T) \in Seq(S)
  BY <1>3, AcrossIn, OfTypeIs
<1> QED BY <1>1, <1>4, ElementsAre

LEMMA SaidWithout ==
    ASSUME NEW parts \in Seq(Parts), NEW T, "text" \notin T
    PROVE  Said(OfType(parts, T)) = <<>>
<1>1. OfType(parts, T) \in Seq(Parts)
  BY OfTypeIs
<1>2. \A i \in DOMAIN OfType(parts, T) : OfType(parts, T)[i].type # "text"
  BY OfTypeAre
<1> QED BY <1>1, <1>2, SaidNone

LEMMA NoPairs == PairsOf(<<>>, {}) = <<>> /\ Said(<<>>) = <<>> /\ \A T : PairsOf(<<>>, T) = <<>>
  BY AcrossNone DEF PairsOf, Said

\* What of the selected parts is asked for.
LEMMA PairsSelected ==
    ASSUME NEW parts \in Seq(Parts)
    PROVE  /\ \A T : T \subseteq Apart => PairsOf(OfType(parts, PartTypes \ {"tool_use"}), T) = PairsOf(parts, T)
           /\ \A T : T \subseteq Apart => PairsOf(OfType(parts, Apart), T) = PairsOf(parts, T)
           /\ \A T : T \subseteq Apart => PairsOf(OfType(parts, {"tool_use"}), T) = <<>>
           /\ PairsOf(OfType(parts, PartTypes \ {"tool_use"}), {"tool_use"}) = <<>>
           /\ PairsOf(OfType(parts, {"tool_use"}), {"tool_use"}) = PairsOf(parts, {"tool_use"})
           /\ PairsOf(OfType(parts, PartTypes \ {"tool_use"}), NonText) = PairsOf(parts, Apart)
           /\ PairsOf(OfType(parts, {"tool_use"}), NonText) = PairsOf(parts, {"tool_use"})
           /\ PairsOf(OfType(parts, PartTypes \ {"tool_use"}), Tools) = PairsOf(parts, {"tool_result"})
           /\ PairsOf(OfType(parts, {"tool_use"}), Tools) = PairsOf(parts, {"tool_use"})
<1>1. PairsOf(parts, {}) = <<>>
  BY PairsNone
<1>2. ASSUME NEW T, T \subseteq Apart PROVE PairsOf(OfType(parts, PartTypes \ {"tool_use"}), T) = PairsOf(parts, T)
  <2>1. \A t : t \in T <=> t \in PartTypes \ {"tool_use"} /\ t \in T
    BY <1>2 DEF Apart
  <2> QED BY <2>1, PairsOfType
<1>3. ASSUME NEW T, T \subseteq Apart PROVE PairsOf(OfType(parts, Apart), T) = PairsOf(parts, T)
  <2>1. \A t : t \in T <=> t \in Apart /\ t \in T
    BY <1>3
  <2> QED BY <2>1, PairsOfType
<1>4. ASSUME NEW T, T \subseteq Apart PROVE PairsOf(OfType(parts, {"tool_use"}), T) = <<>>
  <2>1. \A t : t \in {} <=> t \in {"tool_use"} /\ t \in T
    BY <1>4 DEF Apart
  <2> QED BY <1>1, <2>1, PairsOfType
<1>5. PairsOf(OfType(parts, PartTypes \ {"tool_use"}), {"tool_use"}) = <<>>
  <2>1. \A t : t \in {} <=> t \in PartTypes \ {"tool_use"} /\ t \in {"tool_use"}
    OBVIOUS
  <2> QED BY <1>1, <2>1, PairsOfType
<1>6. PairsOf(OfType(parts, {"tool_use"}), {"tool_use"}) = PairsOf(parts, {"tool_use"})
  <2>1. \A t : t \in {"tool_use"} <=> t \in {"tool_use"} /\ t \in {"tool_use"}
    OBVIOUS
  <2> QED BY <2>1, PairsOfType
<1>7. PairsOf(OfType(parts, PartTypes \ {"tool_use"}), NonText) = PairsOf(parts, Apart)
  <2>1. \A t : t \in Apart <=> t \in PartTypes \ {"tool_use"} /\ t \in NonText
    BY DEF Apart, NonText
  <2> QED BY <2>1, PairsOfType
<1>8. PairsOf(OfType(parts, {"tool_use"}), NonText) = PairsOf(parts, {"tool_use"})
  <2>1. \A t : t \in {"tool_use"} <=> t \in {"tool_use"} /\ t \in NonText
    BY DEF NonText, PartTypes
  <2> QED BY <2>1, PairsOfType
<1>9. PairsOf(OfType(parts, PartTypes \ {"tool_use"}), Tools) = PairsOf(parts, {"tool_result"})
  <2>1. \A t : t \in {"tool_result"} <=> t \in PartTypes \ {"tool_use"} /\ t \in Tools
    BY DEF Tools, PartTypes
  <2> QED BY <2>1, PairsOfType
<1>10. PairsOf(OfType(parts, {"tool_use"}), Tools) = PairsOf(parts, {"tool_use"})
  <2>1. \A t : t \in {"tool_use"} <=> t \in {"tool_use"} /\ t \in Tools
    BY DEF Tools
  <2> QED BY <2>1, PairsOfType
<1> QED BY <1>2, <1>3, <1>4, <1>5, <1>6, <1>7, <1>8, <1>9, <1>10

\* What Chat lifts.
LEMMA ChatContentIs ==
    ASSUME NEW t, t.parts \in Seq(Parts), NEW c, c = ChatContent(t)
    PROVE  /\ c \in Seq(Parts) /\ Said(c) = Said(t.parts) /\ CallsLast(c)
           /\ \A T : T \subseteq Apart => PairsOf(c, T) = PairsOf(t.parts, T)
           /\ PairsOf(c, {"tool_use"}) = PairsOf(t.parts, {"tool_use"})
           /\ PairsOf(c, NonText) = PairsOf(t.parts, Apart) \o PairsOf(t.parts, {"tool_use"})
<1>1. PICK parts \in Seq(Parts) : parts = t.parts
  OBVIOUS
<1>2. PICK n \in Seq(Parts), u \in Seq(Parts) :
        n = OfType(parts, PartTypes \ {"tool_use"}) /\ u = OfType(parts, {"tool_use"})
  BY OfTypeIs
<1>3. c = n \o u
  BY <1>1, <1>2 DEF ChatContent
<1>4. /\ c \in Seq(Parts) /\ Said(c) = Said(n) \o Said(u)
      /\ \A T : PairsOf(c, T) = PairsOf(n, T) \o PairsOf(u, T)
  <2>1. /\ n \o u \in Seq(Parts) /\ Said(n \o u) = Said(n) \o Said(u)
        /\ \A T : PairsOf(n \o u, T) = PairsOf(n, T) \o PairsOf(u, T)
    BY PairsJoin
  <2> QED BY <1>3, <2>1
<1>5. Said(c) = Said(parts)
  <2>1. "text" \in PartTypes \ {"tool_use"} /\ "text" \notin {"tool_use"}
    BY DEF PartTypes
  <2>2. Said(n) = Said(parts) /\ Said(u) = <<>>
    BY <1>2, <2>1, SaidOfType, SaidWithout
  <2> QED BY <1>4, <2>2, PairsIn
<1>6. ASSUME NEW T, T \subseteq Apart PROVE PairsOf(c, T) = PairsOf(parts, T)
  <2>1. PairsOf(n, T) = PairsOf(parts, T) /\ PairsOf(u, T) = <<>>
    BY <1>2, <1>6, PairsSelected, ZenonT(40)
  <2> QED BY <1>4, <2>1, PairsIn
<1>7. PairsOf(c, {"tool_use"}) = PairsOf(parts, {"tool_use"})
  <2>1. PairsOf(n, {"tool_use"}) = <<>> /\ PairsOf(u, {"tool_use"}) = PairsOf(parts, {"tool_use"})
    BY <1>2, PairsSelected
  <2> QED BY <1>4, <2>1, PairsIn
<1>8. PairsOf(c, NonText) = PairsOf(parts, Apart) \o PairsOf(parts, {"tool_use"})
  <2>1. PairsOf(n, NonText) = PairsOf(parts, Apart) /\ PairsOf(u, NonText) = PairsOf(parts, {"tool_use"})
    BY <1>2, PairsSelected
  <2> QED BY <1>4, <2>1
<1>9. CallsLast(c)
  <2>1. PairsOf(c, Apart) = PairsOf(parts, Apart)
    BY <1>6
  <2> QED BY <1>7, <1>8, <2>1 DEF CallsLast
<1> QED BY <1>1, <1>4, <1>5, <1>6, <1>7, <1>8, <1>9

LEMMA StringTurnIs ==
    ASSUME NEW role \in Roles, NEW text \in Seq(Tokens), NEW calls \in Seq(Parts), Said(calls) = <<>>,
           NEW t, t = StringTurn(role, text, calls)
    PROVE  /\ t \in AnyTurns /\ t.role = role /\ Said(t.parts) = text
           /\ \A T : "text" \notin T => PairsOf(t.parts, T) = PairsOf(calls, T)
<1>1. PICK s : s = IF text = NoText THEN <<>> ELSE <<TextPart(text)>>
  OBVIOUS
<1>2. s \in Seq(Parts) /\ Said(s) = text /\ \A T : "text" \notin T => PairsOf(s, T) = <<>>
  <2>1. CASE text = NoText
    <3>1. s = <<>> /\ text = <<>>
      BY <1>1, <2>1 DEF NoText
    <3> QED BY <3>1, NothingIsSeq, NoPairs
  <2>2. CASE text # NoText
    BY <1>1, <2>2, OneTextIs
  <2> QED BY <2>1, <2>2
<1>3. /\ s \o calls \in Seq(Parts) /\ Said(s \o calls) = Said(s) \o Said(calls)
      /\ \A T : PairsOf(s \o calls, T) = PairsOf(s, T) \o PairsOf(calls, T)
  BY <1>2, PairsJoin
<1>4. t = [role |-> role, str |-> TRUE, parts |-> s \o calls]
  BY <1>1 DEF StringTurn, Turn
<1>5. t \in AnyTurns /\ t.role = role /\ t.parts = s \o calls
  BY <1>3, <1>4 DEF AnyTurns
<1>6. Said(t.parts) = text
  <2>1. text \o <<>> = text
    OBVIOUS
  <2> QED BY <1>2, <1>3, <1>5, <2>1
<1>7. ASSUME NEW T, "text" \notin T PROVE PairsOf(t.parts, T) = PairsOf(calls, T)
  <2>1. PairsOf(t.parts, T) = PairsOf(s, T) \o PairsOf(calls, T)
    BY <1>3, <1>5
  <2>2. PairsOf(s, T) = <<>>
    BY <1>2, <1>7
  <2>3. <<>> \o PairsOf(calls, T) = PairsOf(calls, T)
    BY PairsIn
  <2> QED BY <2>1, <2>2, <2>3
<1> QED BY <1>5, <1>6, <1>7

LEMMA ArrayTurnIs ==
    ASSUME NEW role \in Roles, NEW parts \in Seq(Parts), NEW t, t = Turn(role, FALSE, parts)
    PROVE  t \in AnyTurns /\ t.role = role /\ t.parts = parts
  BY DEF Turn, AnyTurns

\* What Chat writes.
LEMMA ChatTurnIs ==
    ASSUME NEW m \in Msgs, NEW t, t = BuildChatTurn(m)
    PROVE  /\ t \in AnyTurns /\ t.role = m.role /\ Said(t.parts) = Said(m.parts)
           /\ \A T : T \subseteq Apart => PairsOf(t.parts, T) = PairsOf(m.parts, T)
           /\ PairsOf(t.parts, {"tool_use"}) = PairsOf(m.parts, {"tool_use"})
           /\ PairsOf(t.parts, Tools) = PairsOf(m.parts, {"tool_result"}) \o PairsOf(m.parts, {"tool_use"})
<1>1. PICK parts \in Seq(Parts), role \in Roles : parts = m.parts /\ role = m.role
  BY DEF Msgs
<1>2. PICK u \in Seq(Parts), calls \in Seq(Parts) : u = OfType(parts, {"tool_use"}) /\ calls = ChatCalls(m)
  BY <1>1, OfTypeIs, PlainKeeps DEF ChatCalls
<1>3. Said(calls) = <<>> /\ \A T : PairsOf(calls, T) = PairsOf(u, T)
  <2>1. calls = PlainIf(u, {"tool_use"})
    BY <1>1, <1>2 DEF ChatCalls
  <2>2. Said(u) = <<>>
    BY <1>2, SaidWithout
  <2> QED BY <2>1, <2>2, PlainKeeps
<1>4. /\ \A T : T \subseteq Apart => PairsOf(calls, T) = <<>>
      /\ PairsOf(calls, {"tool_use"}) = PairsOf(parts, {"tool_use"})
      /\ PairsOf(calls, Tools) = PairsOf(parts, {"tool_use"})
  BY <1>2, <1>3, PairsSelected
<1>5. {"tool_result"} \subseteq Apart
  BY DEF Apart, PartTypes
<1>6. CASE OfType(parts, Apart) = <<>>
  <2>1. t = StringTurn(role, Concat(Texts(parts)), calls)
    BY <1>1, <1>2, <1>6 DEF BuildChatTurn, Apart
  <2>2. Concat(Texts(parts)) = Said(parts) /\ Said(parts) \in Seq(Tokens)
    BY TextsAre, PairsIn
  <2>3. /\ t \in AnyTurns /\ t.role = role /\ Said(t.parts) = Said(parts)
        /\ \A T : "text" \notin T => PairsOf(t.parts, T) = PairsOf(calls, T)
    BY <1>3, <2>1, <2>2, StringTurnIs
  <2>4. ASSUME NEW T, T \subseteq Apart PROVE PairsOf(t.parts, T) = PairsOf(parts, T) /\ PairsOf(parts, T) = <<>>
    <3>1. "text" \notin T
      BY <2>4 DEF Apart
    <3>2. PairsOf(parts, T) = <<>>
      BY <1>6, <2>4, PairsSelected, NoPairs
    <3> QED BY <1>4, <2>3, <2>4, <3>1, <3>2
  <2>5. "text" \notin {"tool_use"} /\ "text" \notin Tools
    BY DEF Tools
  <2>6. PairsOf(t.parts, {"tool_use"}) = PairsOf(parts, {"tool_use"})
    BY <1>4, <2>3, <2>5
  <2>7. PairsOf(t.parts, Tools) = PairsOf(parts, {"tool_result"}) \o PairsOf(parts, {"tool_use"})
    <3>1. PairsOf(parts, {"tool_result"}) = <<>>
      BY <1>5, <2>4
    <3>2. PairsOf(t.parts, Tools) = PairsOf(parts, {"tool_use"})
      BY <1>4, <2>3, <2>5
    <3> QED BY <3>1, <3>2, PairsIn
  <2> QED BY <1>1, <2>3, <2>4, <2>6, <2>7
<1>7. CASE OfType(parts, Apart) # <<>>
  <2>1. PICK n \in Seq(Parts), plain \in Seq(Parts) :
          n = OfType(parts, PartTypes \ {"tool_use"}) /\ plain = PlainIf(n, {"text", "image"})
    BY OfTypeIs, PlainKeeps
  <2>2. t = Turn(role, FALSE, plain \o calls)
    BY <1>1, <1>2, <1>7, <2>1 DEF BuildChatTurn, Apart
  <2>3. /\ plain \o calls \in Seq(Parts) /\ Said(plain \o calls) = Said(plain) \o Said(calls)
        /\ \A T : PairsOf(plain \o calls, T) = PairsOf(plain, T) \o PairsOf(calls, T)
    BY PairsJoin
  <2>4. t \in AnyTurns /\ t.role = role /\ t.parts = plain \o calls
    BY <2>2, <2>3, ArrayTurnIs
  <2>5. Said(plain) = Said(n) /\ \A T : PairsOf(plain, T) = PairsOf(n, T)
    <3>1. Said(PlainIf(n, {"text", "image"})) = Said(n)
      BY PlainKeeps
    <3>2. \A T : PairsOf(PlainIf(n, {"text", "image"}), T) = PairsOf(n, T)
      BY PlainKeeps
    <3> QED BY <2>1, <3>1, <3>2
  <2>6. Said(t.parts) = Said(parts)
    <3>1. "text" \in PartTypes \ {"tool_use"}
      BY DEF PartTypes
    <3>2. Said(n) = Said(parts)
      BY <2>1, <3>1, SaidOfType
    <3> QED BY <1>3, <2>3, <2>4, <2>5, <3>2, PairsIn
  <2>7. /\ \A T : T \subseteq Apart => PairsOf(plain, T) = PairsOf(parts, T)
        /\ PairsOf(plain, {"tool_use"}) = <<>> /\ PairsOf(plain, Tools) = PairsOf(parts, {"tool_result"})
    <3>1. ASSUME NEW T, T \subseteq Apart PROVE PairsOf(plain, T) = PairsOf(parts, T)
      <4>1. PairsOf(n, T) = PairsOf(parts, T)
        BY <2>1, <3>1, PairsSelected
      <4> QED BY <2>5, <4>1
    <3>2. PairsOf(n, {"tool_use"}) = <<>> /\ PairsOf(n, Tools) = PairsOf(parts, {"tool_result"})
      BY <2>1, PairsSelected
    <3> QED BY <2>5, <3>1, <3>2
  <2>8. ASSUME NEW T, T \subseteq Apart PROVE PairsOf(t.parts, T) = PairsOf(parts, T)
    <3>1. PairsOf(plain, T) = PairsOf(parts, T) /\ PairsOf(calls, T) = <<>>
      BY <1>4, <2>7, <2>8
    <3>2. PairsOf(t.parts, T) = PairsOf(parts, T) \o <<>>
      BY <2>3, <2>4, <3>1
    <3> QED BY <3>2, PairsIn
  <2>9. PairsOf(t.parts, {"tool_use"}) = PairsOf(parts, {"tool_use"})
    <3>1. PairsOf(t.parts, {"tool_use"}) = <<>> \o PairsOf(parts, {"tool_use"})
      BY <1>4, <2>3, <2>4, <2>7
    <3> QED BY <3>1, PairsIn
  <2>10. PairsOf(t.parts, Tools) = PairsOf(parts, {"tool_result"}) \o PairsOf(parts, {"tool_use"})
    BY <1>4, <2>3, <2>4, <2>7
  <2> QED BY <1>1, <2>4, <2>6, <2>8, <2>9, <2>10
<1> QED BY <1>6, <1>7

\* What Messages lifts: a string without text is no part.
LEMMA MessagesContentIs ==
    ASSUME NEW t \in AnyTurns, NEW c, c = MessagesContent(t)
    PROVE  /\ c \in Seq(Parts) /\ Said(c) = Said(t.parts)
           /\ (t.str => \A i \in DOMAIN t.parts : t.parts[i].type = "text")
                => \A T : "text" \notin T => PairsOf(c, T) = PairsOf(t.parts, T)
<1> DEFINE kept == {part \in Parts : t.str => part.text # NoText}
           places == {i \in DOMAIN t.parts : t.str => t.parts[i].text # NoText}
<1>1. PICK parts \in Seq(Parts) : parts = t.parts
  BY DEF AnyTurns
<1>2. PICK K : K = [part \in Parts |-> IF part \in kept THEN <<part>> ELSE <<>>]
  OBVIOUS
<1>3. /\ Maps(K, Parts, Seq(Parts))
      /\ \A part \in kept : part \in Parts /\ K[part] = <<part>>
      /\ \A part \in Parts : part \notin kept => K[part] = <<>> /\ t.str /\ part.text = <<>>
  <2>1. <<>> \in Seq(Parts) /\ \A part \in Parts : <<part>> \in Seq(Parts)
    BY NothingIsSeq, OneIsSeq
  <2>2. K \in [Parts -> Seq(Parts)]
    BY <1>2, <2>1
  <2> QED BY <1>2, <2>2 DEF Maps, NoText
<1>4. \A i \in DOMAIN parts : parts[i] \in Parts /\ (parts[i] \in kept <=> i \in places)
  BY <1>1, ElementsAre
<1>5. c = Across(parts, K) /\ c \in Seq(Parts)
  <2>1. \A i \in DOMAIN parts : K[parts[i]] = IF i \in places THEN <<parts[i]>> ELSE <<>>
    BY <1>3, <1>4
  <2>2. c = Subsequence(parts, places)
    BY <1>1 DEF MessagesContent
  <2> HIDE DEF places
  <2> QED BY <1>3, <2>1, <2>2, SubsequenceIs
<1> HIDE DEF kept, places
<1>6. Said(c) = Said(parts)
  <2>1. ASSUME NEW i \in DOMAIN parts PROVE SaidIf[parts[i]] = Across(K[parts[i]], SaidIf)
    <3>1. CASE parts[i] \in kept
      <4>1. K[parts[i]] = <<parts[i]>>
        BY <1>3, <3>1
      <4> QED BY <4>1, AcrossOne
    <3>2. CASE parts[i] \notin kept
      <4>1. parts[i] \in Parts /\ K[parts[i]] = <<>> /\ parts[i].text = <<>>
        BY <1>3, <1>4, <3>2
      <4>2. SaidIf[parts[i]] = <<>>
        BY <4>1, PartSays
      <4> QED BY <4>1, <4>2, AcrossNone
    <3> QED BY <3>1, <3>2
  <2>2. Maps(SaidIf, Parts, Seq(Tokens))
    BY PartMaps
  <2>3. Across(Across(parts, K), SaidIf) = Across(parts, SaidIf)
    BY <1>3, <2>1, <2>2, AcrossAcross
  <2> QED BY <1>5, <2>3 DEF Said
<1>7. ASSUME t.str => \A i \in DOMAIN parts : parts[i].type = "text", NEW T, "text" \notin T
      PROVE  PairsOf(c, T) = PairsOf(parts, T)
  <2>1. ASSUME NEW i \in DOMAIN parts PROVE PairIf(T)[parts[i]] = Across(K[parts[i]], PairIf(T))
    <3>1. CASE parts[i] \in kept
      <4>1. K[parts[i]] = <<parts[i]>>
        BY <1>3, <3>1
      <4> QED BY <4>1, AcrossOne
    <3>2. CASE parts[i] \notin kept
      <4>1. parts[i] \in Parts /\ K[parts[i]] = <<>> /\ parts[i].type = "text"
        BY <1>3, <1>4, <1>7, <3>2
      <4>2. PairIf(T)[parts[i]] = <<>>
        BY <1>7, <4>1, PartAt
      <4> QED BY <4>1, <4>2, AcrossNone
    <3> QED BY <3>1, <3>2
  <2>2. Maps(PairIf(T), Parts, Seq(Pairs))
    BY PartMaps
  <2>3. Across(Across(parts, K), PairIf(T)) = Across(parts, PairIf(T))
    BY <1>3, <2>1, <2>2, AcrossAcross
  <2> QED BY <1>5, <2>3 DEF PairsOf
<1> QED BY <1>1, <1>5, <1>6, <1>7

\* A turn that is one string.
LEMMA TextTurnIs ==
    ASSUME NEW role \in Roles, NEW text \in Seq(Tokens), NEW t, t = StringTurn(role, text, <<>>)
    PROVE  /\ t \in AnyTurns /\ t.role = role /\ Said(t.parts) = text
           /\ \A T : "text" \notin T => PairsOf(t.parts, T) = <<>>
           /\ \A i \in DOMAIN t.parts : t.parts[i].type = "text"
           /\ text # NoText => Texts(t.parts) = <<text>>
<1>1. PICK calls \in Seq(Parts) : calls = <<>> /\ Said(calls) = <<>> /\ \A T : PairsOf(calls, T) = <<>>
  BY NothingIsSeq, NoPairs
<1>2. /\ t \in AnyTurns /\ t.role = role /\ Said(t.parts) = text
      /\ \A T : "text" \notin T => PairsOf(t.parts, T) = PairsOf(calls, T)
  <2>1. t = StringTurn(role, text, calls)
    BY <1>1
  <2>2. Said(calls) = <<>>
    BY <1>1
  <2>3. t \in AnyTurns /\ t.role = role /\ Said(t.parts) = text
    BY <2>1, <2>2, StringTurnIs
  <2>4. \A T : "text" \notin T => PairsOf(t.parts, T) = PairsOf(calls, T)
    BY <2>1, <2>2, StringTurnIs
  <2> QED BY <2>3, <2>4
<1>3. t.parts = (IF text = NoText THEN <<>> ELSE <<TextPart(text)>>) \o <<>>
  BY DEF StringTurn, Turn
<1>4. <<>> \o <<>> = <<>> /\ <<TextPart(text)>> \o <<>> = <<TextPart(text)>>
  OBVIOUS
<1>5. t.parts = IF text = NoText THEN <<>> ELSE <<TextPart(text)>>
  BY <1>3, <1>4
<1>6. DOMAIN <<TextPart(text)>> = {1} /\ <<TextPart(text)>>[1] = TextPart(text) /\ TextPart(text).type = "text"
  BY DEF TextPart, Part
<1>7. \A i \in DOMAIN t.parts : t.parts[i].type = "text"
  <2>1. DOMAIN <<>> = {}
    OBVIOUS
  <2> QED BY <1>5, <1>6, <2>1
<1>8. text # NoText => Texts(t.parts) = <<text>>
  BY <1>5, OneTextIs
<1> QED BY <1>1, <1>2, <1>7, <1>8

\* What Messages writes.
LEMMA MessagesTurnIs ==
    ASSUME NEW m \in Msgs, NEW t, t = BuildMessagesTurn(m)
    PROVE  /\ t \in AnyTurns /\ t.role = m.role /\ Said(t.parts) = Said(m.parts)
           /\ \A T : "text" \notin T => PairsOf(t.parts, T) = PairsOf(m.parts, T)
           /\ t.str => \A i \in DOMAIN t.parts : t.parts[i].type = "text"
<1>1. PICK parts \in Seq(Parts), role \in Roles : parts = m.parts /\ role = m.role
  BY DEF Msgs
<1>2. CASE Len(parts) = 1 /\ parts[1].type = "text"
  <2>1. parts = <<parts[1]>> /\ parts[1] \in Parts
    BY <1>2, SMTT(30)
  <2>2. PICK part \in Parts : part = parts[1] /\ part.type = "text" /\ part.text \in Seq(Tokens)
    BY <1>2, <2>1, PartIs
  <2>3. parts = <<part>>
    BY <2>1, <2>2
  <2>4. t = StringTurn(role, part.text, <<>>)
    BY <1>1, <1>2, <2>2 DEF BuildMessagesTurn
  <2>5. /\ t \in AnyTurns /\ t.role = role /\ Said(t.parts) = part.text
        /\ \A T : "text" \notin T => PairsOf(t.parts, T) = <<>>
        /\ \A i \in DOMAIN t.parts : t.parts[i].type = "text"
    BY <2>2, <2>4, TextTurnIs
  <2>6. Said(parts) = part.text
    BY <2>2, <2>3, PartSays, AcrossOne DEF Said
  <2>7. ASSUME NEW T, "text" \notin T PROVE PairsOf(parts, T) = <<>>
    BY <2>2, <2>3, <2>7, PartAt, AcrossOne DEF PairsOf
  <2> QED BY <1>1, <2>5, <2>6, <2>7
<1>3. CASE ~ (Len(parts) = 1 /\ parts[1].type = "text")
  <2>1. PICK plain \in Seq(Parts) : plain = BuildMessagesParts(parts)
    BY PlainKeeps DEF BuildMessagesParts
  <2>2. Said(plain) = Said(parts)
    BY <2>1, PlainKeeps DEF BuildMessagesParts
  <2>3. \A T : PairsOf(plain, T) = PairsOf(parts, T)
    BY <2>1, PlainKeeps DEF BuildMessagesParts
  <2>4. t = Turn(role, FALSE, plain)
    BY <1>1, <1>3, <2>1 DEF BuildMessagesTurn
  <2>5. t \in AnyTurns /\ t.role = role /\ t.parts = plain
    BY <2>4, ArrayTurnIs
  <2>6. ~ t.str
    BY <2>4 DEF Turn
  <2> QED BY <1>1, <2>2, <2>3, <2>5, <2>6
<1> QED BY <1>2, <1>3

\* What Responses writes.
LEMMA ResponsesTurnIs ==
    ASSUME NEW m \in Msgs, NEW t, t = BuildResponsesTurn(m)
    PROVE  /\ t \in AnyTurns /\ t.role = m.role /\ Said(t.parts) = Said(m.parts)
           /\ \A T : PairsOf(t.parts, T) = PairsOf(m.parts, T)
<1>1. PICK parts \in Seq(Parts), role \in Roles : parts = m.parts /\ role = m.role
  BY DEF Msgs
<1>2. PICK plain \in Seq(Parts) : plain = BuildResponsesParts(parts)
  BY PlainKeeps DEF BuildResponsesParts
<1>3. Said(plain) = Said(parts)
  BY <1>2, PlainKeeps DEF BuildResponsesParts
<1>4. \A T : PairsOf(plain, T) = PairsOf(parts, T)
  BY <1>2, PlainKeeps DEF BuildResponsesParts
<1>5. t = Turn(role, FALSE, plain)
  BY <1>1, <1>2 DEF BuildResponsesTurn
<1>6. t \in AnyTurns /\ t.role = role /\ t.parts = plain
  BY <1>5, ArrayTurnIs
<1> QED BY <1>1, <1>3, <1>4, <1>6

-----------------------------------------------------------------------------
(* System turns among the others. *)

\* The turns that are none of the system's, or are.
LEMMA SystemApart ==
    ASSUME NEW A, NEW turns \in Seq(A)
    PROVE  /\ NotSystem(turns) \in Seq({t \in A : ~ IsSystem(t)})
           /\ OfSystem(turns) \in Seq({t \in A : IsSystem(t)})
<1> DEFINE K(b) == [t \in A |-> IF IsSystem(t) = b THEN <<t>> ELSE <<>>]
           places(b) == {i \in DOMAIN turns : IsSystem(turns[i]) = b}
<1>1. ASSUME NEW b \in BOOLEAN PROVE Subsequence(turns, places(b)) \in Seq({t \in A : IsSystem(t) = b})
  <2>1. PICK B : B = {t \in A : IsSystem(t) = b}
    OBVIOUS
  <2>2. PICK k : k = K(b)
    OBVIOUS
  <2>3. <<>> \in Seq(B) /\ \A t \in B : <<t>> \in Seq(B)
    BY NothingIsSeq, OneIsSeq
  <2>4. Maps(k, A, Seq(B))
    BY <2>1, <2>2, <2>3 DEF Maps
  <2>5. \A i \in DOMAIN turns : turns[i] \in A
    BY ElementsAre
  <2>6. \A i \in DOMAIN turns : k[turns[i]] = IF i \in places(b) THEN <<turns[i]>> ELSE <<>>
    BY <2>2, <2>5
  <2>7. PICK ps : ps = places(b)
    OBVIOUS
  <2>8. Subsequence(turns, ps) \in Seq(B)
    BY <2>4, <2>6, <2>7, SubsequenceIs
  <2> QED BY <2>1, <2>7, <2>8
<1>2. NotSystem(turns) = Subsequence(turns, places(FALSE)) /\ OfSystem(turns) = Subsequence(turns, places(TRUE))
  <2>1. /\ places(FALSE) = {i \in DOMAIN turns : ~ IsSystem(turns[i])}
        /\ places(TRUE) = {i \in DOMAIN turns : IsSystem(turns[i])}
    BY DEF IsSystem
  <2> QED BY <2>1 DEF NotSystem, OfSystem
<1>3. /\ {t \in A : ~ IsSystem(t)} = {t \in A : IsSystem(t) = FALSE}
      /\ {t \in A : IsSystem(t)} = {t \in A : IsSystem(t) = TRUE}
  BY DEF IsSystem
<1> QED BY <1>1, <1>2, <1>3

\* All are kept, or none.
LEMMA KeptAll ==
    ASSUME NEW A, NEW s \in Seq(A), NEW places
    PROVE  /\ DOMAIN s \subseteq places => Subsequence(s, places) = s
           /\ DOMAIN s \cap places = {} => Subsequence(s, places) = <<>>
<1>1. PICK all : all = [a \in A |-> <<a>>]
  OBVIOUS
<1>2. PICK none : none = [a \in A |-> <<>>]
  OBVIOUS
<1>3. Maps(all, A, Seq(A)) /\ Maps(none, A, Seq(A))
  <2>1. <<>> \in Seq(A) /\ \A a \in A : <<a>> \in Seq(A)
    BY NothingIsSeq, OneIsSeq
  <2> QED BY <1>1, <1>2, <2>1 DEF Maps
<1>4. \A i \in DOMAIN s : s[i] \in A /\ all[s[i]] = <<s[i]>> /\ none[s[i]] = <<>>
  BY <1>1, <1>2, ElementsAre
<1>5. ASSUME DOMAIN s \subseteq places PROVE Subsequence(s, places) = s
  <2>1. \A i \in DOMAIN s : all[s[i]] = IF i \in places THEN <<s[i]>> ELSE <<>>
    BY <1>4, <1>5
  <2>2. Subsequence(s, places) = Across(s, all)
    BY <1>3, <2>1, SubsequenceIs
  <2>3. Across(s, all) = s
    BY <1>3, <1>4, AcrossEach
  <2> QED BY <2>2, <2>3
<1>6. ASSUME DOMAIN s \cap places = {} PROVE Subsequence(s, places) = <<>>
  <2>1. \A i \in DOMAIN s : none[s[i]] = IF i \in places THEN <<s[i]>> ELSE <<>>
    BY <1>4, <1>6
  <2>2. Subsequence(s, places) = Across(s, none)
    BY <1>3, <2>1, SubsequenceIs
  <2>3. Across(s, none) = <<>>
    BY <1>3, <1>4, AcrossNothing
  <2> QED BY <2>2, <2>3
<1> QED BY <1>5, <1>6

LEMMA SystemInFront ==
    ASSUME NEW A, NEW sys \in Seq(A), NEW others \in Seq(A),
           \A i \in DOMAIN sys : IsSystem(sys[i]), \A i \in DOMAIN others : ~ IsSystem(others[i])
    PROVE  NotSystem(sys \o others) = others /\ OfSystem(sys \o others) = sys
<1> DEFINE K(b) == [t \in A |-> IF IsSystem(t) = b THEN <<t>> ELSE <<>>]
<1>1. PICK turns \in Seq(A) : turns = sys \o others
  BY JoinedAt
<1>2. ASSUME NEW b \in BOOLEAN, NEW k, k = K(b)
      PROVE  /\ \A s \in Seq(A) : Subsequence(s, {i \in DOMAIN s : IsSystem(s[i]) = b}) = Across(s, k)
             /\ Across(turns, k) = Across(sys, k) \o Across(others, k)
  <2>1. <<>> \in Seq(A) /\ \A t \in A : <<t>> \in Seq(A)
    BY NothingIsSeq, OneIsSeq
  <2>2. Maps(k, A, Seq(A))
    BY <1>2, <2>1 DEF Maps
  <2>3. ASSUME NEW s \in Seq(A) PROVE Subsequence(s, {i \in DOMAIN s : IsSystem(s[i]) = b}) = Across(s, k)
    <3>1. PICK ps : ps = {i \in DOMAIN s : IsSystem(s[i]) = b}
      OBVIOUS
    <3>2. \A i \in DOMAIN s : s[i] \in A
      BY ElementsAre
    <3>3. \A i \in DOMAIN s : k[s[i]] = IF i \in ps THEN <<s[i]>> ELSE <<>>
      BY <1>2, <3>1, <3>2
    <3>4. Subsequence(s, ps) = Across(s, k)
      BY <2>2, <3>3, SubsequenceIs
    <3> QED BY <3>1, <3>4
  <2>4. Across(turns, k) = Across(sys, k) \o Across(others, k)
    BY <1>1, <2>2, AcrossJoin
  <2> QED BY <2>3, <2>4
<1>3. ASSUME NEW s \in Seq(A)
      PROVE  /\ NotSystem(s) = Subsequence(s, {i \in DOMAIN s : IsSystem(s[i]) = FALSE})
             /\ OfSystem(s) = Subsequence(s, {i \in DOMAIN s : IsSystem(s[i]) = TRUE})
  <2>1. /\ {i \in DOMAIN s : IsSystem(s[i]) = FALSE} = {i \in DOMAIN s : ~ IsSystem(s[i])}
        /\ {i \in DOMAIN s : IsSystem(s[i]) = TRUE} = {i \in DOMAIN s : IsSystem(s[i])}
    BY DEF IsSystem
  <2> QED BY <2>1 DEF NotSystem, OfSystem
<1>4. /\ NotSystem(turns) = NotSystem(sys) \o NotSystem(others)
      /\ OfSystem(turns) = OfSystem(sys) \o OfSystem(others)
  <2>1. PICK k : k = K(FALSE)
    OBVIOUS
  <2>2. PICK l : l = K(TRUE)
    OBVIOUS
  <2>3. NotSystem(turns) = NotSystem(sys) \o NotSystem(others)
    BY <1>2, <1>3, <2>1
  <2>4. OfSystem(turns) = OfSystem(sys) \o OfSystem(others)
    BY <1>2, <1>3, <2>2
  <2> QED BY <2>3, <2>4
<1>5. NotSystem(sys) = <<>> /\ OfSystem(sys) = sys
  BY KeptAll DEF NotSystem, OfSystem
<1>6. NotSystem(others) = others /\ OfSystem(others) = <<>>
  BY KeptAll DEF NotSystem, OfSystem
<1>7. \A s \in Seq(A) : <<>> \o s = s /\ s \o <<>> = s
  OBVIOUS
<1> QED BY <1>1, <1>4, <1>5, <1>6, <1>7

-----------------------------------------------------------------------------
(* The texts of the system. *)

LEMMA LinesTokens == ASSUME NEW texts \in Seq(Seq(Tokens)) PROVE Lines(texts) \in Seq(Tokens)
<1>1. PICK N \in Nat : N = Len(texts) /\ \A n \in 1..N : texts[n] \in Seq(Tokens)
  BY ElementsAre
<1>2. NoText \in Seq(Tokens)
  BY NothingIsSeq DEF NoText
<1>3. ASSUME NEW x \in Seq(Tokens), NEW text \in Seq(Tokens) PROVE AddLine(x, text) \in Seq(Tokens)
  <2>1. Newline \in Tokens
    BY MarksAssumption
  <2>2. <<Newline>> \in Seq(Tokens)
    BY <2>1, OneIsSeq
  <2>3. x \o <<Newline>> \in Seq(Tokens)
    BY <2>2
  <2>4. (x \o <<Newline>>) \o text \in Seq(Tokens)
    BY <2>3
  <2> QED BY <2>4 DEF AddLine
<1>4. \A n \in 1..N : \A x \in Seq(Tokens) : AddLine(x, texts[n]) \in Seq(Tokens)
  BY <1>1, <1>3
<1> QED BY <1>1, <1>2, <1>4, LinesIn

LEMMA SystemTextsAre ==
    ASSUME NEW turns \in Seq(AnyTurns)
    PROVE  SystemTexts(turns) \in Seq(Seq(Tokens))
<1>1. PICK S : S = {t \in AnyTurns : IsSystem(t)}
  OBVIOUS
<1>2. PICK own \in Seq(S) : own = OfSystem(turns)
  BY <1>1, SystemApart
<1>3. ASSUME NEW i \in DOMAIN own PROVE Lines(Texts(own[i].parts)) \in Seq(Tokens)
  <2>1. own[i] \in S
    BY ElementsAre
  <2>2. own[i].parts \in Seq(Parts)
    BY <1>1, <2>1 DEF AnyTurns
  <2> QED BY <2>2, TextsAre, LinesTokens
<1>4. [i \in DOMAIN own |-> Lines(Texts(own[i].parts))] \in [DOMAIN own -> Seq(Tokens)]
  BY <1>3
<1> QED BY <1>2, <1>4, MapIsSeq DEF SystemTexts

\* The first text that says something.
LEMMA FirstTextIs ==
    ASSUME NEW texts \in Seq(Seq(Tokens))
    PROVE  /\ FirstText(texts) \in Seq(Tokens)
           /\ FirstText(texts) = NoText => \A i \in DOMAIN texts : texts[i] = NoText
<1>1. PICK told : told = {i \in DOMAIN texts : texts[i] # NoText}
  OBVIOUS
<1>2. CASE told = {}
  <2>1. FirstText(texts) = NoText /\ \A i \in DOMAIN texts : texts[i] = NoText
    BY <1>1, <1>2 DEF FirstText
  <2> QED BY <2>1, NothingIsSeq DEF NoText
<1>3. CASE told # {}
  <2>1. told \subseteq Nat
    BY <1>1, ElementsAre
  <2>2. \E m \in told : \A n \in told : m <= n
    BY <1>3, <2>1, Least
  <2>3. Min(told) \in told
    BY <2>2 DEF Min
  <2>4. FirstText(texts) = texts[Min(told)]
    BY <1>1, <1>3 DEF FirstText
  <2>5. Min(told) \in DOMAIN texts /\ texts[Min(told)] # NoText
    BY <1>1, <2>3
  <2>6. texts[Min(told)] \in Seq(Tokens)
    BY <2>5, ElementsAre
  <2> QED BY <2>4, <2>5, <2>6
<1> QED BY <1>2, <1>3

LEMMA FirstOfOne ==
    ASSUME NEW text \in Seq(Tokens)
    PROVE  FirstText(<<>>) = NoText /\ FirstText(<<text>>) = text
<1>1. FirstText(<<>>) = NoText
  <2>1. DOMAIN <<>> = {}
    OBVIOUS
  <2>2. {i \in DOMAIN <<>> : <<>>[i] # NoText} = {}
    BY <2>1
  <2> QED BY <2>2 DEF FirstText
<1>2. FirstText(<<text>>) = text
  <2>1. PICK texts \in Seq(Seq(Tokens)) : texts = <<text>>
    BY OneIsSeq
  <2>2. DOMAIN texts = {1} /\ texts[1] = text
    BY <2>1
  <2>3. CASE text = NoText
    <3>1. {i \in DOMAIN texts : texts[i] # NoText} = {}
      BY <2>2, <2>3
    <3> QED BY <2>1, <2>3, <3>1 DEF FirstText
  <2>4. CASE text # NoText
    <3>1. {i \in DOMAIN texts : texts[i] # NoText} = {1}
      BY <2>2, <2>4
    <3>2. Min({1}) = 1
      BY DEF Min
    <3>3. {1} # {}
      OBVIOUS
    <3> QED BY <2>1, <2>2, <3>1, <3>2, <3>3 DEF FirstText
  <2> QED BY <2>3, <2>4
<1> QED BY <1>1, <1>2

\* The system turn that is built, and its text.
LEMMA SystemFirst ==
    ASSUME NEW text \in Seq(Tokens), NEW others \in Seq(AnyTurns), \A i \in DOMAIN others : ~ IsSystem(others[i]),
           NEW sys, sys = IF text = NoText THEN <<>> ELSE <<StringTurn("system", text, <<>>)>>
    PROVE  /\ NotSystem(sys \o others) = others
           /\ FirstText(SystemTexts(sys \o others)) = text
<1>1. PICK t : t = StringTurn("system", text, <<>>)
  OBVIOUS
<1>2. "system" \in Roles
  BY DEF Roles
<1>3. t \in AnyTurns /\ t.role = "system" /\ (text # NoText => Texts(t.parts) = <<text>>)
  BY <1>1, <1>2, TextTurnIs
<1>4. IsSystem(t)
  BY <1>3 DEF IsSystem
<1>5. <<>> \in Seq(AnyTurns) /\ <<t>> \in Seq(AnyTurns) /\ DOMAIN <<>> = {} /\ DOMAIN <<t>> = {1} /\ <<t>>[1] = t
  <2>1. <<>> \in Seq(AnyTurns) /\ <<t>> \in Seq(AnyTurns)
    BY <1>3, NothingIsSeq, OneIsSeq
  <2>2. DOMAIN <<>> = {} /\ DOMAIN <<t>> = {1} /\ <<t>>[1] = t
    OBVIOUS
  <2> QED BY <2>1, <2>2
<1>6. sys = (IF text = NoText THEN <<>> ELSE <<t>>)
  BY <1>1
<1>7. sys \in Seq(AnyTurns) /\ \A i \in DOMAIN sys : IsSystem(sys[i])
  <2>1. CASE text = NoText
    <3>1. sys = <<>>
      BY <1>6, <2>1
    <3> QED BY <1>5, <3>1
  <2>2. CASE text # NoText
    <3>1. sys = <<t>>
      BY <1>6, <2>2
    <3> QED BY <1>4, <1>5, <3>1
  <2> QED BY <2>1, <2>2
<1>8. NotSystem(sys \o others) = others /\ OfSystem(sys \o others) = sys
  BY <1>7, SystemInFront
<1>9. SystemTexts(sys \o others) = [i \in DOMAIN sys |-> Lines(Texts(sys[i].parts))]
  BY <1>8 DEF SystemTexts
<1>10. CASE text = NoText
  <2>1. [i \in DOMAIN <<>> |-> Lines(Texts(<<>>[i].parts))] = <<>>
    OBVIOUS
  <2>2. SystemTexts(sys \o others) = <<>>
    BY <1>6, <1>9, <1>10, <2>1
  <2> QED BY <1>8, <1>10, <2>2, FirstOfOne
<1>11. CASE text # NoText
  <2>1. [i \in DOMAIN <<t>> |-> Lines(Texts(<<t>>[i].parts))] = <<Lines(Texts(t.parts))>>
    OBVIOUS
  <2>2. Lines(Texts(t.parts)) = text
    BY <1>3, <1>11, LinesOne
  <2>3. SystemTexts(sys \o others) = <<text>>
    BY <1>6, <1>9, <1>11, <2>1, <2>2
  <2> QED BY <1>8, <2>3, FirstOfOne
<1> QED BY <1>10, <1>11

\* With nobody of the system among them.
LEMMA SystemNone ==
    ASSUME NEW others \in Seq(AnyTurns), \A i \in DOMAIN others : ~ IsSystem(others[i])
    PROVE  NotSystem(others) = others /\ SystemTexts(others) = <<>>
<1>1. NotSystem(others) = others /\ OfSystem(others) = <<>>
  BY KeptAll DEF NotSystem, OfSystem
<1>2. [i \in DOMAIN <<>> |-> Lines(Texts(<<>>[i].parts))] = <<>>
  OBVIOUS
<1> QED BY <1>1, <1>2 DEF SystemTexts

-----------------------------------------------------------------------------
(* Views that can be written again. *)

Shapes == [json : Jsons, extra : BOOLEAN, model : STRING, system : Seq(Tokens), turns : Seq(Turns), tools : Seq(Parts)]

Rebuildable(p, v) ==
    /\ v = View(v.model, v.system, v.msgs, v.tools, v.raw)
    /\ v.raw \in Shapes /\ v.raw.json = "fits" /\ v.tools = v.raw.tools
    /\ v.system \in Seq(Tokens) /\ v.msgs \in Seq(Msgs)
    /\ p # "messages" => \A i \in DOMAIN v.msgs : v.msgs[i].role # "system"
    /\ p = "responses" =>
          /\ v.system = NoText => v.raw.system = NoText
          /\ \A i \in DOMAIN v.msgs : ~ NoMessage(v.msgs[i])
    /\ p = "chat" => \A i \in DOMAIN v.msgs : CallsLast(v.msgs[i].parts)

SameSeen(m, n) == m.role = n.role /\ Said(m.parts) = Said(n.parts) /\ PairsOf(m.parts, NonText) = PairsOf(n.parts, NonText)

LEMMA SeenSame ==
    ASSUME NEW v, NEW w, v.msgs \in Seq(Msgs), w.msgs \in Seq(Msgs),
           v.model = w.model, v.system = w.system, DOMAIN v.msgs = DOMAIN w.msgs, Len(v.tools) = Len(w.tools),
           \A i \in DOMAIN v.msgs : SameSeen(v.msgs[i], w.msgs[i])
    PROVE  Seen(v) = Seen(w)
<1>1. ASSUME NEW m \in Msgs
      PROVE  Joined(m) = [role |-> m.role, text |-> Said(m.parts), parts |-> PairsOf(m.parts, NonText)]
  <2>1. m.parts \in Seq(Parts)
    BY DEF Msgs
  <2>2. Concat(Texts(m.parts)) = Said(m.parts)
    BY <2>1, TextsAre
  <2>3. Carried(OfType(m.parts, NonText)) = PairsOf(m.parts, NonText)
    BY <2>1, CarriedAre
  <2> QED BY <2>2, <2>3 DEF Joined, NonText
<1>2. ASSUME NEW i \in DOMAIN v.msgs PROVE Joined(v.msgs[i]) = Joined(w.msgs[i])
  <2>1. v.msgs[i] \in Msgs /\ w.msgs[i] \in Msgs
    BY ElementsAre
  <2>2. SameSeen(v.msgs[i], w.msgs[i])
    OBVIOUS
  <2> QED BY <1>1, <2>1, <2>2 DEF SameSeen
<1>3. [i \in DOMAIN v.msgs |-> Joined(v.msgs[i])] = [i \in DOMAIN w.msgs |-> Joined(w.msgs[i])]
  BY <1>2
<1> QED BY <1>3 DEF Seen

LEMMA ShapeIs ==
    ASSUME NEW b \in Shapes
    PROVE  /\ b = [json |-> b.json, extra |-> b.extra, model |-> b.model, system |-> b.system,
                   turns |-> b.turns, tools |-> b.tools]
           /\ b.system \in Seq(Tokens) /\ b.turns \in Seq(AnyTurns) /\ b.tools \in Seq(Parts) /\ b.extra \in BOOLEAN
<1>1. b.turns \in Seq(Turns)
  BY DEF Shapes
<1>2. \A t \in Turns : t \in AnyTurns
  BY DEF Turns, AnyTurns, Roles
<1>3. \A i \in DOMAIN b.turns : b.turns[i] \in AnyTurns
  BY <1>1, <1>2, ElementsAre
<1>4. b.turns = [i \in DOMAIN b.turns |-> b.turns[i]]
  BY <1>1
<1>5. b.turns \in [DOMAIN b.turns -> AnyTurns]
  BY <1>3, <1>4
<1>6. b.turns \in Seq(AnyTurns)
  BY <1>1, <1>5, MapIsSeq
<1> QED BY <1>6 DEF Shapes

\* What is written of a view, field by field.
Wrote(v, b) ==
    /\ b.json = "fits" /\ b.extra = v.raw.extra /\ b.model = v.model
    /\ Len(b.tools) = Len(v.tools)

LEMMA RootIs ==
    ASSUME NEW v, v.raw \in Shapes, v.raw.json = "fits", v.tools = v.raw.tools
    PROVE  Root(v) = v.raw /\ Len(ToolsOver(v)) = Len(v.tools)
<1>1. PICK raw \in Shapes : raw = v.raw
  OBVIOUS
<1>2. /\ raw = [json |-> raw.json, extra |-> raw.extra, model |-> raw.model, system |-> raw.system,
                turns |-> raw.turns, tools |-> raw.tools]
      /\ raw.tools \in Seq(Parts)
  BY ShapeIs
<1>3. Root(v) = raw
  <2>1. IsObject(raw)
    BY <1>1 DEF IsObject
  <2>2. [raw EXCEPT !.json = "fits"] = raw
    BY <1>1, <1>2
  <2> QED BY <1>1, <2>1, <2>2 DEF Root
<1>4. Len(ToolsOver(v)) = Len(v.tools)
  <2>1. CASE v.tools = <<>>
    BY <1>1, <1>3, <2>1 DEF ToolsOver
  <2>2. CASE v.tools # <<>>
    <3>1. PICK n \in Nat : n = Len(v.tools) /\ DOMAIN v.tools = 1..n
      BY <1>1, <1>2, ElementsAre
    <3>2. ToolsOver(v) = [i \in 1..n |-> Plain(v.tools[i])]
      BY <2>2, <3>1 DEF ToolsOver
    <3>3. \A i \in 1..n : v.tools[i] \in Parts
      BY <1>1, <1>2, <3>1, ElementsAre
    <3>4. \A i \in 1..n : Plain(v.tools[i]) \in Parts
      BY <3>3 DEF Plain, Parts
    <3>5. [i \in 1..n |-> Plain(v.tools[i])] \in [1..n -> Parts]
      BY <3>4
    <3>6. Len(ToolsOver(v)) = n
      BY <3>2, <3>5, UpToIsSeq
    <3> QED BY <3>1, <3>6
  <2> QED BY <2>1, <2>2
<1> QED BY <1>1, <1>3, <1>4

-----------------------------------------------------------------------------
(* What is written, and lifted again. *)

Filled(raw, model, tools, turns) == [raw EXCEPT !.model = model, !.tools = tools, !.turns = turns]
FilledToo(raw, model, tools, system, turns) ==
    [raw EXCEPT !.model = model, !.tools = tools, !.system = system, !.turns = turns]

LEMMA BodyExcepts ==
    ASSUME NEW raw \in Shapes, NEW model, NEW tools, NEW system, NEW turns
    PROVE  /\ Filled(raw, model, tools, turns)
                = [json |-> raw.json, extra |-> raw.extra, model |-> model, system |-> raw.system, turns |-> turns, tools |-> tools]
           /\ FilledToo(raw, model, tools, system, turns)
                = [json |-> raw.json, extra |-> raw.extra, model |-> model, system |-> system, turns |-> turns, tools |-> tools]
<1>1. PICK x : x = [raw EXCEPT !.model = model]
  OBVIOUS
<1>2. PICK y : y = [x EXCEPT !.tools = tools]
  OBVIOUS
<1>3. PICK z : z = [y EXCEPT !.system = system]
  OBVIOUS
<1>4. PICK json, extra, m, sys, ts, ls :
        /\ raw = [json |-> json, extra |-> extra, model |-> m, system |-> sys, turns |-> ts, tools |-> ls]
        /\ json = raw.json /\ extra = raw.extra /\ sys = raw.system
  BY ShapeIs
<1>5. x = [json |-> json, extra |-> extra, model |-> model, system |-> sys, turns |-> ts, tools |-> ls]
  BY <1>1, <1>4
<1>6. y = [json |-> json, extra |-> extra, model |-> model, system |-> sys, turns |-> ts, tools |-> tools]
  BY <1>2, <1>5
<1>7. z = [json |-> json, extra |-> extra, model |-> model, system |-> system, turns |-> ts, tools |-> tools]
  BY <1>3, <1>6
<1>8. Filled(raw, model, tools, turns)
        = [json |-> raw.json, extra |-> raw.extra, model |-> model, system |-> raw.system, turns |-> turns, tools |-> tools]
  <2>1. [raw EXCEPT !.model = model, !.tools = tools, !.turns = turns]
          = [[[raw EXCEPT !.model = model] EXCEPT !.tools = tools] EXCEPT !.turns = turns]
    OBVIOUS
  <2>2. Filled(raw, model, tools, turns) = [y EXCEPT !.turns = turns]
    BY <1>1, <1>2, <2>1 DEF Filled
  <2>3. [y EXCEPT !.turns = turns]
          = [json |-> json, extra |-> extra, model |-> model, system |-> sys, turns |-> turns, tools |-> tools]
    BY <1>6
  <2> QED BY <1>4, <2>2, <2>3
<1>9. FilledToo(raw, model, tools, system, turns)
        = [json |-> raw.json, extra |-> raw.extra, model |-> model, system |-> system, turns |-> turns, tools |-> tools]
  <2>1. [raw EXCEPT !.model = model, !.tools = tools, !.system = system, !.turns = turns]
          = [[[[raw EXCEPT !.model = model] EXCEPT !.tools = tools] EXCEPT !.system = system] EXCEPT !.turns = turns]
    OBVIOUS
  <2>2. FilledToo(raw, model, tools, system, turns) = [z EXCEPT !.turns = turns]
    BY <1>1, <1>2, <1>3, <2>1 DEF FilledToo
  <2>3. [z EXCEPT !.turns = turns]
          = [json |-> json, extra |-> extra, model |-> model, system |-> system, turns |-> turns, tools |-> tools]
    BY <1>7
  <2> QED BY <1>4, <2>2, <2>3
<1> QED BY <1>8, <1>9

LEMMA FieldsWritten ==
    ASSUME NEW v, v.raw \in Shapes, v.raw.json = "fits", v.tools = v.raw.tools, NEW turns, NEW b,
           b = Filled(Root(v), v.model, ToolsOver(v), turns)
    PROVE  Wrote(v, b) /\ b.turns = turns
<1>1. PICK raw \in Shapes : raw = v.raw /\ raw.json = "fits"
  OBVIOUS
<1>2. Root(v) = raw /\ Len(ToolsOver(v)) = Len(v.tools)
  BY <1>1, RootIs
<1>3. b = Filled(raw, v.model, ToolsOver(v), turns)
  BY <1>2
<1>4. b = [json |-> raw.json, extra |-> raw.extra, model |-> v.model, system |-> raw.system,
           turns |-> turns, tools |-> ToolsOver(v)]
  BY <1>3, BodyExcepts
<1> QED BY <1>1, <1>2, <1>4 DEF Wrote

LEMMA FieldsWrittenToo ==
    ASSUME NEW v, v.raw \in Shapes, v.raw.json = "fits", v.tools = v.raw.tools, NEW turns, NEW system, NEW b,
           b = FilledToo(Root(v), v.model, ToolsOver(v), system, turns)
    PROVE  Wrote(v, b) /\ b.turns = turns /\ b.system = system
<1>1. PICK raw \in Shapes : raw = v.raw /\ raw.json = "fits"
  OBVIOUS
<1>2. Root(v) = raw /\ Len(ToolsOver(v)) = Len(v.tools)
  BY <1>1, RootIs
<1>3. b = FilledToo(raw, v.model, ToolsOver(v), system, turns)
  BY <1>2
<1>4. b = [json |-> raw.json, extra |-> raw.extra, model |-> v.model, system |-> system,
           turns |-> turns, tools |-> ToolsOver(v)]
  BY <1>3, BodyExcepts
<1> QED BY <1>1, <1>2, <1>4 DEF Wrote

LEMMA MessageIs ==
    ASSUME NEW role \in Roles, NEW parts \in Seq(Parts)
    PROVE  Message(role, parts) \in Msgs /\ Message(role, parts).role = role /\ Message(role, parts).parts = parts
  BY DEF Message, Msgs

LEMMA ViewIs ==
    ASSUME NEW model, NEW system, NEW msgs, NEW tools, NEW raw, NEW v, v = View(model, system, msgs, tools, raw)
    PROVE  /\ v.model = model /\ v.system = system /\ v.msgs = msgs /\ v.tools = tools /\ v.raw = raw
           /\ v = View(v.model, v.system, v.msgs, v.tools, v.raw)
  BY DEF View

\* A view of Chat that is written, and lifted again.
LEMMA ChatAgain ==
    ASSUME NEW v, Rebuildable("chat", v), NEW b, b = BuildRequest("chat", v)
    PROVE  /\ Wrote(v, b) /\ Seen(ParseRequest("chat", b)) = Seen(v)
           /\ DOMAIN NotSystem(b.turns) = DOMAIN v.msgs
           /\ \A i \in DOMAIN v.msgs :
                /\ NotSystem(b.turns)[i] \in AnyTurns
                /\ PairsOf(NotSystem(b.turns)[i].parts, Media) = PairsOf(v.msgs[i].parts, Media)
                /\ PairsOf(NotSystem(b.turns)[i].parts, Tools)
                     = PairsOf(v.msgs[i].parts, {"tool_result"}) \o PairsOf(v.msgs[i].parts, {"tool_use"})
<1>1. PICK msgs \in Seq(Msgs), text \in Seq(Tokens) : msgs = v.msgs /\ text = v.system
  BY DEF Rebuildable
<1>2. PICK others : others = [i \in DOMAIN msgs |-> BuildChatTurn(msgs[i])]
  OBVIOUS
<1>3. ASSUME NEW i \in DOMAIN msgs
      PROVE  /\ others[i] \in AnyTurns /\ others[i].role = msgs[i].role /\ ~ IsSystem(others[i])
             /\ PairsOf(others[i].parts, Media) = PairsOf(msgs[i].parts, Media)
             /\ PairsOf(others[i].parts, Tools)
                  = PairsOf(msgs[i].parts, {"tool_result"}) \o PairsOf(msgs[i].parts, {"tool_use"})
             /\ ChatContent(others[i]) \in Seq(Parts) /\ Said(ChatContent(others[i])) = Said(msgs[i].parts)
             /\ PairsOf(ChatContent(others[i]), NonText) = PairsOf(msgs[i].parts, NonText)
  <2>1. PICK m \in Msgs : m = msgs[i] /\ m.role # "system" /\ CallsLast(m.parts)
    BY <1>1, ElementsAre DEF Rebuildable
  <2>2. PICK t : t = BuildChatTurn(m)
    OBVIOUS
  <2>3. others[i] = t
    BY <1>2, <2>1, <2>2
  <2>4. /\ t \in AnyTurns /\ t.role = m.role /\ Said(t.parts) = Said(m.parts)
        /\ \A T : T \subseteq Apart => PairsOf(t.parts, T) = PairsOf(m.parts, T)
        /\ PairsOf(t.parts, {"tool_use"}) = PairsOf(m.parts, {"tool_use"})
        /\ PairsOf(t.parts, Tools) = PairsOf(m.parts, {"tool_result"}) \o PairsOf(m.parts, {"tool_use"})
    BY <2>2, ChatTurnIs
  <2>5. t.parts \in Seq(Parts)
    BY <2>4 DEF AnyTurns
  <2>6. PICK c : c = ChatContent(t)
    OBVIOUS
  <2>7. /\ c \in Seq(Parts) /\ Said(c) = Said(t.parts)
        /\ PairsOf(c, NonText) = PairsOf(t.parts, Apart) \o PairsOf(t.parts, {"tool_use"})
    BY <2>5, <2>6, ChatContentIs
  <2>8. PairsOf(t.parts, Apart) = PairsOf(m.parts, Apart)
    BY <2>4
  <2>9. PairsOf(c, NonText) = PairsOf(m.parts, NonText)
    BY <2>1, <2>4, <2>7, <2>8 DEF CallsLast
  <2>10. ~ IsSystem(t)
    BY <2>1, <2>4 DEF IsSystem
  <2>11. PairsOf(t.parts, Media) = PairsOf(m.parts, Media)
    BY <2>4, MediaApart
  <2> QED BY <2>1, <2>3, <2>4, <2>6, <2>7, <2>9, <2>10, <2>11
<1>4. DOMAIN others = DOMAIN msgs /\ others \in Seq(AnyTurns)
  <2>1. others \in [DOMAIN msgs -> AnyTurns]
    BY <1>2, <1>3
  <2> QED BY <1>2, <2>1, MapIsSeq
<1>5. PICK sys : sys = IF text = NoText THEN <<>> ELSE <<StringTurn("system", text, <<>>)>>
  OBVIOUS
<1>6. NotSystem(sys \o others) = others /\ FirstText(SystemTexts(sys \o others)) = text
  BY <1>3, <1>4, <1>5, SystemFirst
<1>7. b = [Root(v) EXCEPT !.model = v.model, !.tools = ToolsOver(v), !.turns = sys \o others]
  BY <1>1, <1>2, <1>5 DEF BuildRequest, BuildChat
<1>8. Wrote(v, b) /\ b.turns = sys \o others
  <2>1. PICK turns : turns = sys \o others
    OBVIOUS
  <2>2. b = Filled(Root(v), v.model, ToolsOver(v), turns)
    BY <1>7, <2>1 DEF Filled
  <2>3. v.raw \in Shapes /\ v.raw.json = "fits" /\ v.tools = v.raw.tools
    BY DEF Rebuildable
  <2>4. Wrote(v, b) /\ b.turns = turns
    BY <2>2, <2>3, FieldsWritten
  <2> QED BY <2>1, <2>4
<1>9. PICK again : again = [i \in DOMAIN others |-> Message(others[i].role, ChatContent(others[i]))]
  OBVIOUS
<1>10. ParseRequest("chat", b) = View(v.model, text, again, b.tools, b)
  BY <1>6, <1>8, <1>9 DEF ParseRequest, ParseChat, Wrote
<1>11. ASSUME NEW i \in DOMAIN msgs PROVE again[i] \in Msgs /\ SameSeen(again[i], msgs[i])
  <2>1. again[i] = Message(others[i].role, ChatContent(others[i]))
    BY <1>4, <1>9
  <2>2. others[i].role \in Roles
    BY <1>3 DEF AnyTurns
  <2>3. again[i] \in Msgs /\ again[i].role = others[i].role /\ again[i].parts = ChatContent(others[i])
    BY <1>3, <2>1, <2>2, MessageIs
  <2> QED BY <1>3, <2>3 DEF SameSeen
<1>12. DOMAIN again = DOMAIN msgs /\ again \in Seq(Msgs)
  <2>1. again \in [DOMAIN msgs -> Msgs]
    BY <1>4, <1>9, <1>11
  <2> QED BY <1>4, <1>9, <2>1, MapIsSeq
<1>13. Seen(ParseRequest("chat", b)) = Seen(v)
  <2>1. PICK w : w = ParseRequest("chat", b)
    OBVIOUS
  <2>2. w.model = v.model /\ w.system = v.system /\ w.msgs = again /\ w.tools = b.tools
    BY <1>1, <1>10, <2>1, ViewIs
  <2>3. \A i \in DOMAIN w.msgs : SameSeen(w.msgs[i], v.msgs[i])
    BY <1>1, <1>11, <1>12, <2>2
  <2>4. Len(w.tools) = Len(v.tools)
    BY <1>8, <2>2 DEF Wrote
  <2>5. Seen(w) = Seen(v)
    BY <1>1, <1>12, <2>2, <2>3, <2>4, SeenSame
  <2> QED BY <2>1, <2>5
<1> QED BY <1>1, <1>3, <1>4, <1>6, <1>8, <1>13

\* Of Messages.
LEMMA MessagesAgain ==
    ASSUME NEW v, Rebuildable("messages", v), NEW b, b = BuildRequest("messages", v)
    PROVE  /\ Wrote(v, b) /\ Seen(ParseRequest("messages", b)) = Seen(v)
           /\ DOMAIN b.turns = DOMAIN v.msgs
           /\ \A i \in DOMAIN v.msgs :
                /\ b.turns[i] \in AnyTurns
                /\ \A T \in {Tools, Media} : PairsOf(b.turns[i].parts, T) = PairsOf(v.msgs[i].parts, T)
<1>1. PICK msgs \in Seq(Msgs) : msgs = v.msgs
  BY DEF Rebuildable
<1>2. PICK turns : turns = [i \in DOMAIN msgs |-> BuildMessagesTurn(msgs[i])]
  OBVIOUS
<1>3. "text" \notin NonText /\ \A T \in {Tools, Media} : "text" \notin T
  BY DEF NonText, Tools, Media
<1>4. ASSUME NEW i \in DOMAIN msgs
      PROVE  /\ turns[i] \in AnyTurns /\ turns[i].role = msgs[i].role
             /\ \A T \in {Tools, Media} : PairsOf(turns[i].parts, T) = PairsOf(msgs[i].parts, T)
             /\ MessagesContent(turns[i]) \in Seq(Parts) /\ Said(MessagesContent(turns[i])) = Said(msgs[i].parts)
             /\ PairsOf(MessagesContent(turns[i]), NonText) = PairsOf(msgs[i].parts, NonText)
  <2>1. PICK m \in Msgs : m = msgs[i]
    BY ElementsAre
  <2>2. PICK t : t = BuildMessagesTurn(m)
    OBVIOUS
  <2>3. turns[i] = t
    BY <1>2, <2>1, <2>2
  <2>4. /\ t \in AnyTurns /\ t.role = m.role /\ Said(t.parts) = Said(m.parts)
        /\ \A T : "text" \notin T => PairsOf(t.parts, T) = PairsOf(m.parts, T)
        /\ t.str => \A j \in DOMAIN t.parts : t.parts[j].type = "text"
    BY <2>2, MessagesTurnIs
  <2>5. PICK c : c = MessagesContent(t)
    OBVIOUS
  <2>6. /\ c \in Seq(Parts) /\ Said(c) = Said(t.parts)
        /\ (t.str => \A j \in DOMAIN t.parts : t.parts[j].type = "text")
             => \A T : "text" \notin T => PairsOf(c, T) = PairsOf(t.parts, T)
    BY <2>4, <2>5, MessagesContentIs
  <2>7. PairsOf(c, NonText) = PairsOf(m.parts, NonText)
    BY <1>3, <2>4, <2>6
  <2>8. \A T \in {Tools, Media} : PairsOf(t.parts, T) = PairsOf(m.parts, T)
    BY <1>3, <2>4
  <2> QED BY <2>1, <2>3, <2>4, <2>5, <2>6, <2>7, <2>8
<1>5. b = [Root(v) EXCEPT !.model = v.model, !.tools = ToolsOver(v), !.system = v.system, !.turns = turns]
  BY <1>1, <1>2 DEF BuildRequest, BuildMessages
<1>6. Wrote(v, b) /\ b.turns = turns /\ b.system = v.system
  <2>1. PICK system : system = v.system
    OBVIOUS
  <2>2. b = FilledToo(Root(v), v.model, ToolsOver(v), system, turns)
    BY <1>5, <2>1 DEF FilledToo
  <2>3. v.raw \in Shapes /\ v.raw.json = "fits" /\ v.tools = v.raw.tools
    BY DEF Rebuildable
  <2>4. Wrote(v, b) /\ b.turns = turns /\ b.system = system
    BY <2>2, <2>3, FieldsWrittenToo
  <2> QED BY <2>1, <2>4
<1>7. DOMAIN turns = DOMAIN msgs
  BY <1>2
<1>8. PICK again : again = [i \in DOMAIN turns |-> Message(turns[i].role, MessagesContent(turns[i]))]
  OBVIOUS
<1>9. ParseRequest("messages", b) = View(v.model, v.system, again, b.tools, b)
  BY <1>6, <1>8 DEF ParseRequest, ParseMessages, Wrote
<1>10. ASSUME NEW i \in DOMAIN msgs PROVE again[i] \in Msgs /\ SameSeen(again[i], msgs[i])
  <2>1. again[i] = Message(turns[i].role, MessagesContent(turns[i]))
    BY <1>7, <1>8
  <2>2. turns[i].role \in Roles
    BY <1>4 DEF AnyTurns
  <2>3. again[i] \in Msgs /\ again[i].role = turns[i].role /\ again[i].parts = MessagesContent(turns[i])
    BY <1>4, <2>1, <2>2, MessageIs
  <2> QED BY <1>4, <2>3 DEF SameSeen
<1>11. DOMAIN again = DOMAIN msgs /\ again \in Seq(Msgs)
  <2>1. again \in [DOMAIN msgs -> Msgs]
    BY <1>7, <1>8, <1>10
  <2> QED BY <1>7, <1>8, <2>1, MapIsSeq
<1>12. Seen(ParseRequest("messages", b)) = Seen(v)
  <2>1. PICK w : w = ParseRequest("messages", b)
    OBVIOUS
  <2>2. w.model = v.model /\ w.system = v.system /\ w.msgs = again /\ w.tools = b.tools
    BY <1>9, <2>1, ViewIs
  <2>3. \A i \in DOMAIN w.msgs : SameSeen(w.msgs[i], v.msgs[i])
    BY <1>1, <1>10, <1>11, <2>2
  <2>4. Len(w.tools) = Len(v.tools)
    BY <1>6, <2>2 DEF Wrote
  <2>5. Seen(w) = Seen(v)
    BY <1>1, <1>11, <2>2, <2>3, <2>4, SeenSame
  <2> QED BY <2>1, <2>5
<1> QED BY <1>1, <1>4, <1>6, <1>7, <1>12

\* Of Responses.
LEMMA ResponsesAgain ==
    ASSUME NEW v, Rebuildable("responses", v), NEW b, b = BuildRequest("responses", v)
    PROVE  Wrote(v, b) /\ Seen(ParseRequest("responses", b)) = Seen(v)
<1>1. PICK msgs \in Seq(Msgs), text \in Seq(Tokens) : msgs = v.msgs /\ text = v.system
  BY DEF Rebuildable
<1>2. PICK turns : turns = [i \in DOMAIN msgs |-> BuildResponsesTurn(msgs[i])]
  OBVIOUS
<1>3. ASSUME NEW i \in DOMAIN msgs
      PROVE  /\ turns[i] \in AnyTurns /\ turns[i].role = msgs[i].role /\ ~ IsSystem(turns[i])
             /\ ResponsesRole(turns[i]) = msgs[i].role /\ ResponsesContent(turns[i]) = turns[i].parts
             /\ Said(turns[i].parts) = Said(msgs[i].parts)
             /\ PairsOf(turns[i].parts, NonText) = PairsOf(msgs[i].parts, NonText)
  <2>1. PICK m \in Msgs : m = msgs[i] /\ m.role # "system" /\ ~ NoMessage(m)
    BY <1>1, ElementsAre DEF Rebuildable
  <2>2. PICK t : t = BuildResponsesTurn(m)
    OBVIOUS
  <2>3. turns[i] = t
    BY <1>2, <2>1, <2>2
  <2>4. /\ t \in AnyTurns /\ t.role = m.role /\ Said(t.parts) = Said(m.parts)
        /\ \A T : PairsOf(t.parts, T) = PairsOf(m.parts, T)
    BY <2>2, ResponsesTurnIs
  <2>5. ~ NoMessage(t)
    <3>1. t.role = m.role
      BY <2>4
    <3> QED BY <2>1, <3>1, Zenon DEF NoMessage
  <2>6. ResponsesRole(t) = t.role /\ ResponsesContent(t) = t.parts
    BY <2>5 DEF ResponsesRole, ResponsesContent
  <2>7. ~ IsSystem(t)
    BY <2>1, <2>4 DEF IsSystem
  <2> QED BY <2>1, <2>3, <2>4, <2>6, <2>7
<1>4. DOMAIN turns = DOMAIN msgs /\ turns \in Seq(AnyTurns)
  <2>1. turns \in [DOMAIN msgs -> AnyTurns]
    BY <1>2, <1>3
  <2> QED BY <1>2, <2>1, MapIsSeq
<1>5. PICK system : system = IF text = NoText THEN Root(v).system ELSE text
  OBVIOUS
<1>6. b = [Root(v) EXCEPT !.model = v.model, !.tools = ToolsOver(v), !.system = system, !.turns = turns]
  BY <1>1, <1>2, <1>5 DEF BuildRequest, BuildResponses
<1>7. Wrote(v, b) /\ b.turns = turns /\ b.system = system
  <2>1. b = FilledToo(Root(v), v.model, ToolsOver(v), system, turns)
    BY <1>6 DEF FilledToo
  <2>2. v.raw \in Shapes /\ v.raw.json = "fits" /\ v.tools = v.raw.tools
    BY DEF Rebuildable
  <2> QED BY <2>1, <2>2, FieldsWrittenToo
<1>8. system = text
  <2>1. Root(v) = v.raw
    BY RootIs DEF Rebuildable
  <2>2. text = NoText => v.raw.system = NoText
    BY <1>1 DEF Rebuildable
  <2> QED BY <1>5, <2>1, <2>2
<1>9. NotSystem(turns) = turns /\ SystemTexts(turns) = <<>>
  BY <1>3, <1>4, SystemNone
<1>10. FirstText(<<b.system>> \o SystemTexts(b.turns)) = text
  <2>1. <<text>> \o <<>> = <<text>>
    OBVIOUS
  <2>2. <<b.system>> \o SystemTexts(b.turns) = <<text>>
    BY <1>7, <1>8, <1>9, <2>1
  <2> QED BY <2>2, FirstOfOne
<1>11. PICK again : again = [i \in DOMAIN turns |-> Message(ResponsesRole(turns[i]), ResponsesContent(turns[i]))]
  OBVIOUS
<1>12. ParseRequest("responses", b) = View(v.model, text, again, b.tools, b)
  BY <1>7, <1>9, <1>10, <1>11 DEF ParseRequest, ParseResponses, Wrote
<1>13. ASSUME NEW i \in DOMAIN msgs PROVE again[i] \in Msgs /\ SameSeen(again[i], msgs[i])
  <2>1. again[i] = Message(msgs[i].role, turns[i].parts)
    BY <1>3, <1>4, <1>11
  <2>2. msgs[i].role \in Roles /\ turns[i].parts \in Seq(Parts)
    BY <1>3 DEF AnyTurns
  <2>3. again[i] \in Msgs /\ again[i].role = msgs[i].role /\ again[i].parts = turns[i].parts
    BY <2>1, <2>2, MessageIs
  <2> QED BY <1>3, <2>3 DEF SameSeen
<1>14. DOMAIN again = DOMAIN msgs /\ again \in Seq(Msgs)
  <2>1. again \in [DOMAIN msgs -> Msgs]
    BY <1>4, <1>11, <1>13
  <2> QED BY <1>4, <1>11, <2>1, MapIsSeq
<1>15. Seen(ParseRequest("responses", b)) = Seen(v)
  <2>1. PICK w : w = ParseRequest("responses", b)
    OBVIOUS
  <2>2. w.model = v.model /\ w.system = v.system /\ w.msgs = again /\ w.tools = b.tools
    BY <1>1, <1>12, <2>1, ViewIs
  <2>3. \A i \in DOMAIN w.msgs : SameSeen(w.msgs[i], v.msgs[i])
    BY <1>1, <1>13, <1>14, <2>2
  <2>4. Len(w.tools) = Len(v.tools)
    BY <1>7, <2>2 DEF Wrote
  <2>5. Seen(w) = Seen(v)
    BY <1>1, <1>14, <2>2, <2>3, <2>4, SeenSame
  <2> QED BY <2>1, <2>5
<1> QED BY <1>7, <1>15

-----------------------------------------------------------------------------
(* What is lifted of a body can be written again. *)

LEMMA ChatLifted ==
    ASSUME NEW b \in Shapes, b.json = "fits", \A i \in DOMAIN b.turns : HasShape("chat", b.turns[i]),
           NEW v, v = ParseRequest("chat", b)
    PROVE  /\ Rebuildable("chat", v) /\ v.raw = b
           /\ DOMAIN v.msgs = DOMAIN NotSystem(b.turns)
           /\ \A i \in DOMAIN v.msgs :
                /\ NotSystem(b.turns)[i] \in AnyTurns
                /\ PairsOf(NotSystem(b.turns)[i].parts, Media) = PairsOf(v.msgs[i].parts, Media)
                /\ PairsOf(NotSystem(b.turns)[i].parts, Tools)
                     = PairsOf(v.msgs[i].parts, {"tool_result"}) \o PairsOf(v.msgs[i].parts, {"tool_use"})
<1>1. PICK A : A = {t \in AnyTurns : \A i \in DOMAIN t.parts : t.parts[i].type # "tool_result"}
  OBVIOUS
<1>2. b.turns \in Seq(AnyTurns) /\ b.tools \in Seq(Parts)
  BY ShapeIs
<1>3. b.turns \in Seq(A)
  <2>1. \A i \in DOMAIN b.turns : b.turns[i] \in A
    BY <1>1, <1>2, ElementsAre DEF HasShape
  <2>2. b.turns = [i \in DOMAIN b.turns |-> b.turns[i]]
    BY <1>2
  <2>3. b.turns \in [DOMAIN b.turns -> A]
    BY <2>1, <2>2
  <2> QED BY <1>2, <2>3, MapIsSeq
<1>4. PICK turns \in Seq({t \in A : ~ IsSystem(t)}) : turns = NotSystem(b.turns)
  BY <1>3, SystemApart
<1>5. PICK text \in Seq(Tokens) : text = FirstText(SystemTexts(b.turns))
  BY <1>2, SystemTextsAre, FirstTextIs
<1>6. PICK msgs : msgs = [i \in DOMAIN turns |-> Message(turns[i].role, ChatContent(turns[i]))]
  OBVIOUS
<1>7. v = View(b.model, text, msgs, b.tools, b)
  BY <1>4, <1>5, <1>6 DEF ParseRequest, ParseChat
<1>8. ASSUME NEW i \in DOMAIN turns
      PROVE  /\ turns[i] \in AnyTurns
             /\ msgs[i] \in Msgs /\ msgs[i].role # "system" /\ CallsLast(msgs[i].parts)
             /\ PairsOf(turns[i].parts, Media) = PairsOf(msgs[i].parts, Media)
             /\ PairsOf(turns[i].parts, Tools)
                  = PairsOf(msgs[i].parts, {"tool_result"}) \o PairsOf(msgs[i].parts, {"tool_use"})
  <2>1. PICK t \in AnyTurns : t = turns[i] /\ ~ IsSystem(t) /\ \A j \in DOMAIN t.parts : t.parts[j].type # "tool_result"
    BY <1>1, <1>4, ElementsAre
  <2>2. PICK parts \in Seq(Parts) : parts = t.parts /\ t.role \in Roles /\ t.role # "system"
    BY <2>1 DEF AnyTurns, IsSystem
  <2>3. PICK c : c = ChatContent(t)
    OBVIOUS
  <2>4. /\ c \in Seq(Parts) /\ CallsLast(c)
        /\ \A T : T \subseteq Apart => PairsOf(c, T) = PairsOf(parts, T)
        /\ PairsOf(c, {"tool_use"}) = PairsOf(parts, {"tool_use"})
    BY <2>2, <2>3, ChatContentIs
  <2>5. msgs[i] = Message(t.role, c)
    BY <1>6, <2>1, <2>3
  <2>6. msgs[i] \in Msgs /\ msgs[i].role = t.role /\ msgs[i].parts = c
    BY <2>2, <2>4, <2>5, MessageIs
  <2>7. PairsOf(c, {"tool_result"}) = <<>>
    <3>1. {"tool_result"} \subseteq Apart
      BY DEF Apart, PartTypes
    <3>2. PairsOf(parts, {"tool_result"}) = <<>>
      BY <2>1, <2>2, PairsNone
    <3> QED BY <2>4, <3>1, <3>2
  <2>8. PairsOf(parts, Tools) = PairsOf(parts, {"tool_use"})
    <3>1. \A j \in DOMAIN parts : parts[j].type \in Tools <=> parts[j].type \in {"tool_use"}
      BY <2>1, <2>2 DEF Tools
    <3> QED BY <3>1, PairsWhere
  <2>9. <<>> \o PairsOf(c, {"tool_use"}) = PairsOf(c, {"tool_use"})
    BY <2>4, PairsIn
  <2>10. PairsOf(c, Media) = PairsOf(parts, Media)
    BY <2>4, MediaApart
  <2> QED BY <2>1, <2>2, <2>4, <2>6, <2>7, <2>8, <2>9, <2>10
<1>9. msgs \in Seq(Msgs) /\ DOMAIN msgs = DOMAIN turns
  <2>1. msgs \in [DOMAIN turns -> Msgs]
    BY <1>6, <1>8
  <2> QED BY <1>4, <1>6, <2>1, MapIsSeq
<1>10. v.system = text /\ v.msgs = msgs /\ v.tools = b.tools /\ v.raw = b /\ v = View(v.model, v.system, v.msgs, v.tools, v.raw)
  BY <1>7, ViewIs
<1>11. Rebuildable("chat", v)
  BY <1>8, <1>9, <1>10 DEF Rebuildable
<1> QED BY <1>4, <1>8, <1>9, <1>10, <1>11

LEMMA MessagesLifted ==
    ASSUME NEW b \in Shapes, b.json = "fits", \A i \in DOMAIN b.turns : HasShape("messages", b.turns[i]),
           NEW v, v = ParseRequest("messages", b)
    PROVE  /\ Rebuildable("messages", v) /\ v.raw = b
           /\ DOMAIN v.msgs = DOMAIN b.turns
           /\ \A i \in DOMAIN v.msgs :
                /\ b.turns[i] \in AnyTurns
                /\ \A T \in {Tools, Media} : PairsOf(b.turns[i].parts, T) = PairsOf(v.msgs[i].parts, T)
<1>1. PICK turns \in Seq(AnyTurns) : turns = b.turns
  BY ShapeIs
<1>2. PICK msgs : msgs = [i \in DOMAIN turns |-> Message(turns[i].role, MessagesContent(turns[i]))]
  OBVIOUS
<1>3. v = View(b.model, b.system, msgs, b.tools, b)
  BY <1>1, <1>2 DEF ParseRequest, ParseMessages
<1>4. \A T \in {Tools, Media} : "text" \notin T
  BY DEF Tools, Media
<1>5. ASSUME NEW i \in DOMAIN turns
      PROVE  /\ turns[i] \in AnyTurns /\ msgs[i] \in Msgs
             /\ \A T \in {Tools, Media} : PairsOf(turns[i].parts, T) = PairsOf(msgs[i].parts, T)
  <2>1. PICK t \in AnyTurns : t = turns[i] /\ (t.str => \A j \in DOMAIN t.parts : t.parts[j].type = "text")
    BY <1>1, ElementsAre DEF HasShape
  <2>2. PICK c : c = MessagesContent(t)
    OBVIOUS
  <2>3. /\ c \in Seq(Parts)
        /\ (t.str => \A j \in DOMAIN t.parts : t.parts[j].type = "text")
             => \A T : "text" \notin T => PairsOf(c, T) = PairsOf(t.parts, T)
    BY <2>2, MessagesContentIs
  <2>4. \A T \in {Tools, Media} : PairsOf(c, T) = PairsOf(t.parts, T)
    BY <1>4, <2>1, <2>3
  <2>5. msgs[i] = Message(t.role, c) /\ t.role \in Roles
    BY <1>2, <2>1, <2>2 DEF AnyTurns
  <2>6. msgs[i] \in Msgs /\ msgs[i].parts = c
    BY <2>3, <2>5, MessageIs
  <2> QED BY <2>1, <2>4, <2>6
<1>6. msgs \in Seq(Msgs) /\ DOMAIN msgs = DOMAIN turns
  <2>1. msgs \in [DOMAIN turns -> Msgs]
    BY <1>2, <1>5
  <2> QED BY <1>1, <1>2, <2>1, MapIsSeq
<1>7. v.system = b.system /\ v.msgs = msgs /\ v.tools = b.tools /\ v.raw = b /\ v = View(v.model, v.system, v.msgs, v.tools, v.raw)
  BY <1>3, ViewIs
<1>8. b.system \in Seq(Tokens)
  BY ShapeIs
<1>9. Rebuildable("messages", v)
  BY <1>5, <1>6, <1>7, <1>8 DEF Rebuildable
<1> QED BY <1>1, <1>5, <1>6, <1>7, <1>9

\* One in front of the others.
LEMMA InFront ==
    ASSUME NEW A, NEW a \in A, NEW rest \in Seq(A)
    PROVE  <<a>> \o rest \in Seq(A) /\ 1 \in DOMAIN (<<a>> \o rest) /\ (<<a>> \o rest)[1] = a
  OBVIOUS

LEMMA ResponsesLifted ==
    ASSUME NEW b \in Shapes, b.json = "fits", NEW v, v = ParseRequest("responses", b)
    PROVE  Rebuildable("responses", v) /\ v.raw = b
<1>1. b.turns \in Seq(AnyTurns) /\ b.system \in Seq(Tokens)
  BY ShapeIs
<1>2. PICK turns \in Seq({t \in AnyTurns : ~ IsSystem(t)}) : turns = NotSystem(b.turns)
  BY <1>1, SystemApart
<1>3. PICK texts \in Seq(Seq(Tokens)) : texts = <<b.system>> \o SystemTexts(b.turns) /\ 1 \in DOMAIN texts /\ texts[1] = b.system
  <2>1. PICK rest \in Seq(Seq(Tokens)) : rest = SystemTexts(b.turns)
    BY <1>1, SystemTextsAre
  <2>2. PICK S : S = Seq(Tokens)
    OBVIOUS
  <2>4. PICK first \in S : first = b.system
    BY <1>1, <2>2
  <2>3. <<first>> \o rest \in Seq(S) /\ 1 \in DOMAIN (<<first>> \o rest) /\ (<<first>> \o rest)[1] = first
    BY <2>2, InFront
  <2> QED BY <2>1, <2>2, <2>3, <2>4
<1>4. PICK text \in Seq(Tokens) : text = FirstText(texts) /\ (text = NoText => b.system = NoText)
  BY <1>3, FirstTextIs
<1>5. PICK msgs : msgs = [i \in DOMAIN turns |-> Message(ResponsesRole(turns[i]), ResponsesContent(turns[i]))]
  OBVIOUS
<1>6. v = View(b.model, text, msgs, b.tools, b)
  BY <1>2, <1>3, <1>4, <1>5 DEF ParseRequest, ParseResponses
<1>7. ASSUME NEW i \in DOMAIN turns PROVE msgs[i] \in Msgs /\ msgs[i].role # "system" /\ ~ NoMessage(msgs[i])
  <2>1. PICK t \in AnyTurns : t = turns[i] /\ ~ IsSystem(t)
    BY <1>2, ElementsAre
  <2>2. PICK role, parts : role = ResponsesRole(t) /\ parts = ResponsesContent(t)
    OBVIOUS
  <2>3. CASE NoMessage(t)
    <3>1. role = "user" /\ parts = <<>>
      BY <2>2, <2>3 DEF ResponsesRole, ResponsesContent
    <3>2. role \in Roles /\ role # "system" /\ parts \in Seq(Parts)
      BY <3>1, NothingIsSeq DEF Roles
    <3>3. PICK m : m = Message(role, parts)
      OBVIOUS
    <3>4. m \in Msgs /\ m.role = role
      BY <3>2, <3>3, MessageIs
    <3>5. msgs[i] = m
      BY <1>5, <2>1, <2>2, <3>3
    <3>6. ~ NoMessage(m)
      <4>1. m.role = "user"
        BY <3>1, <3>4
      <4> QED BY <4>1, Zenon DEF NoMessage
    <3> QED BY <3>2, <3>4, <3>5, <3>6
  <2>4. CASE ~ NoMessage(t)
    <3>1. role = t.role /\ parts = t.parts
      BY <2>2, <2>4 DEF ResponsesRole, ResponsesContent
    <3>2. role \in Roles /\ role # "system" /\ parts \in Seq(Parts)
      BY <2>1, <3>1 DEF AnyTurns, IsSystem
    <3>3. PICK m : m = Message(role, parts)
      OBVIOUS
    <3>4. m \in Msgs /\ m.role = role
      BY <3>2, <3>3, MessageIs
    <3>5. msgs[i] = m
      BY <1>5, <2>1, <2>2, <3>3
    <3>6. ~ NoMessage(m)
      <4>1. m.role = t.role
        BY <3>1, <3>4
      <4> QED BY <2>4, <4>1, Zenon DEF NoMessage
    <3> QED BY <3>2, <3>4, <3>5, <3>6
  <2> QED BY <2>3, <2>4
<1>8. msgs \in Seq(Msgs) /\ DOMAIN msgs = DOMAIN turns
  <2>1. msgs \in [DOMAIN turns -> Msgs]
    BY <1>5, <1>7
  <2> QED BY <1>2, <1>5, <2>1, MapIsSeq
<1>9. v.system = text /\ v.msgs = msgs /\ v.tools = b.tools /\ v.raw = b /\ v = View(v.model, v.system, v.msgs, v.tools, v.raw)
  BY <1>6, ViewIs
<1>10. Rebuildable("responses", v)
  BY <1>4, <1>7, <1>8, <1>9 DEF Rebuildable
<1> QED BY <1>9, <1>10

-----------------------------------------------------------------------------
(* A view that BEFORE plugins have changed: the same but for its texts. *)

Alike(m, n) == n.role = m.role /\ \A T \in SUBSET NonText : PairsOf(n.parts, T) = PairsOf(m.parts, T)

SameButTexts(v, w) ==
    /\ w = View(w.model, w.system, w.msgs, w.tools, w.raw)
    /\ w.tools = v.tools /\ w.raw = v.raw
    /\ w.system \in Seq(Tokens) /\ (w.system = NoText => v.system = NoText)
    /\ w.msgs \in Seq(Msgs) /\ DOMAIN w.msgs = DOMAIN v.msgs
    /\ \A i \in DOMAIN v.msgs : Alike(v.msgs[i], w.msgs[i])

LEMMA SameAsIs == ASSUME NEW p, NEW v, Rebuildable(p, v) PROVE SameButTexts(v, v)
  BY DEF Rebuildable, SameButTexts, Alike

LEMMA ToolSorts ==
    /\ {"tool_use"} \subseteq NonText /\ {"tool_result"} \subseteq NonText
    /\ Tools \subseteq NonText /\ Media \subseteq NonText /\ Apart \subseteq NonText
  BY DEF NonText, Tools, Media, Apart, PartTypes

LEMMA SameRebuilt ==
    ASSUME NEW p, NEW v, Rebuildable(p, v), NEW w, SameButTexts(v, w)
    PROVE  Rebuildable(p, w)
<1>1. ASSUME NEW i \in DOMAIN v.msgs
      PROVE  /\ w.msgs[i].role = v.msgs[i].role
             /\ p = "chat" => CallsLast(w.msgs[i].parts)
             /\ p = "responses" => ~ NoMessage(w.msgs[i])
  <2>1. PICK m, n : m = v.msgs[i] /\ n = w.msgs[i]
    OBVIOUS
  <2>2. Alike(m, n)
    BY <2>1 DEF SameButTexts
  <2>3. n.role = m.role
    BY <2>2 DEF Alike
  <2>4. /\ PairsOf(n.parts, NonText) = PairsOf(m.parts, NonText)
        /\ PairsOf(n.parts, Apart) = PairsOf(m.parts, Apart)
        /\ PairsOf(n.parts, {"tool_use"}) = PairsOf(m.parts, {"tool_use"})
    BY <2>2, ToolSorts DEF Alike
  <2>5. p = "chat" => CallsLast(n.parts)
    <3>1. p = "chat" => CallsLast(m.parts)
      BY <2>1 DEF Rebuildable
    <3> QED BY <2>4, <3>1 DEF CallsLast
  <2>6. p = "responses" => ~ NoMessage(n)
    <3>1. p = "responses" => ~ NoMessage(m)
      BY <2>1 DEF Rebuildable
    <3> QED BY <2>3, <3>1, Zenon DEF NoMessage
  <2> QED BY <2>1, <2>3, <2>5, <2>6
<1> QED BY <1>1 DEF Rebuildable, SameButTexts

\* One field of the view at a time.
LEMMA SystemChanged ==
    ASSUME NEW u, NEW v, SameButTexts(u, v), NEW text \in Seq(Tokens), NEW w, w = [v EXCEPT !.system = @ \o text]
    PROVE  SameButTexts(u, w)
<1>1. PICK old \in Seq(Tokens) : old = v.system /\ (old = NoText => u.system = NoText)
  BY DEF SameButTexts
<1>2. PICK new \in Seq(Tokens) : new = old \o text /\ (new = NoText => old = NoText)
  <2>1. old \o text \in Seq(Tokens)
    OBVIOUS
  <2>2. old \o text = <<>> => old = <<>>
    OBVIOUS
  <2> QED BY <2>1, <2>2 DEF NoText
<1>3. w = View(v.model, new, v.msgs, v.tools, v.raw)
  <2>1. w = [v EXCEPT !.system = new]
    BY <1>1, <1>2
  <2>2. v = View(v.model, v.system, v.msgs, v.tools, v.raw)
    BY DEF SameButTexts
  <2> QED BY <2>1, <2>2 DEF View
<1>4. w.system = new /\ w.msgs = v.msgs /\ w.tools = v.tools /\ w.raw = v.raw /\ w = View(w.model, w.system, w.msgs, w.tools, w.raw)
  <2>1. w.system = new /\ w.msgs = v.msgs /\ w.tools = v.tools /\ w.raw = v.raw /\ w.model = v.model
    BY <1>3 DEF View
  <2> QED BY <1>3, <2>1
<1> QED BY <1>1, <1>2, <1>4 DEF SameButTexts

LEMMA MessagesChanged ==
    ASSUME NEW u, NEW v, SameButTexts(u, v), NEW msgs \in Seq(Msgs), DOMAIN msgs = DOMAIN v.msgs,
           \A i \in DOMAIN msgs : Alike(v.msgs[i], msgs[i]), NEW w, w = [v EXCEPT !.msgs = msgs]
    PROVE  SameButTexts(u, w)
<1>1. w = View(v.model, v.system, msgs, v.tools, v.raw)
  <2>1. v = View(v.model, v.system, v.msgs, v.tools, v.raw)
    BY DEF SameButTexts
  <2> QED BY <2>1 DEF View
<1>2. w.system = v.system /\ w.msgs = msgs /\ w.tools = v.tools /\ w.raw = v.raw /\ w = View(w.model, w.system, w.msgs, w.tools, w.raw)
  BY <1>1, ViewIs
<1>3. \A i \in DOMAIN u.msgs : Alike(u.msgs[i], msgs[i])
  <2>1. DOMAIN u.msgs = DOMAIN msgs
    BY DEF SameButTexts
  <2>2. \A i \in DOMAIN u.msgs : Alike(u.msgs[i], v.msgs[i]) /\ Alike(v.msgs[i], msgs[i])
    BY <2>1 DEF SameButTexts
  <2> QED BY <2>2 DEF Alike
<1> QED BY <1>2, <1>3 DEF SameButTexts

\* Messages, of which a part of text is another text.
LEMMA PartsChanged ==
    ASSUME NEW m \in Msgs, NEW parts \in Seq(Parts), DOMAIN parts = DOMAIN m.parts,
           \A j \in DOMAIN parts : parts[j] = m.parts[j] \/ (parts[j].type = "text" /\ m.parts[j].type = "text"),
           NEW n, n = [m EXCEPT !.parts = parts]
    PROVE  n \in Msgs /\ Alike(m, n)
<1>1. PICK old \in Seq(Parts) : old = m.parts
  BY DEF Msgs
<1>2. n \in Msgs /\ n.role = m.role /\ n.parts = parts
  BY DEF Msgs
<1>3. ASSUME NEW T \in SUBSET NonText PROVE PairsOf(parts, T) = PairsOf(old, T)
  <2>1. "text" \notin T
    BY DEF NonText
  <2> QED BY <1>1, <2>1, TextsApart
<1> QED BY <1>1, <1>2, <1>3 DEF Alike

LEMMA TextChanged ==
    ASSUME NEW part \in Parts, part.type = "text", NEW text \in Seq(Tokens), NEW other, other = [part EXCEPT !.text = text]
    PROVE  other \in Parts /\ other.type = "text"
  BY DEF Parts

-----------------------------------------------------------------------------
(* What rules, and a suffix, make of it. *)

LEMMA RulesApply ==
    ASSUME NEW rules \in Rules, NEW text \in Seq(Tokens)
    PROVE  ApplyRules(text, rules) \in Seq(Tokens)
<1>1. PICK N \in Nat : N = Len(rules) /\ \A n \in 1..N : rules[n] \in [match : Tokens, replace : Seq(Tokens)]
  BY ElementsAre DEF Rules
<1>2. ASSUME NEW n \in 1..N, NEW x \in Seq(Tokens) PROVE ReplaceToken(x, rules[n]) \in Seq(Tokens)
  <2>1. PICK rule : rule = rules[n] /\ rule.replace \in Seq(Tokens)
    BY <1>1
  <2>2. [i \in DOMAIN x |-> IF x[i] = rule.match THEN rule.replace ELSE <<x[i]>>] \in Seq(Seq(Tokens))
    BY <2>1, Replaced
  <2> QED BY <2>1, <2>2, FlattenAll DEF ReplaceToken
<1> QED BY <1>1, <1>2, ApplyRulesIn

LEMMA MessageRewritten ==
    ASSUME NEW m \in Msgs, NEW rules \in Rules,
           NEW n, n = [m EXCEPT !.parts = [j \in DOMAIN m.parts |-> RewritePart(m.parts[j], rules)]]
    PROVE  n \in Msgs /\ Alike(m, n)
<1>1. PICK old \in Seq(Parts) : old = m.parts
  BY DEF Msgs
<1>2. PICK parts : parts = [j \in DOMAIN old |-> RewritePart(old[j], rules)]
  OBVIOUS
<1>3. ASSUME NEW j \in DOMAIN old
      PROVE  parts[j] \in Parts /\ (parts[j] = old[j] \/ (parts[j].type = "text" /\ old[j].type = "text"))
  <2>1. PICK part \in Parts : part = old[j]
    BY ElementsAre
  <2>2. parts[j] = RewritePart(part, rules)
    BY <1>2, <2>1
  <2>3. CASE part.type = "text"
    <3>1. part.text \in Seq(Tokens)
      BY PartIs
    <3>2. PICK text \in Seq(Tokens) : text = ApplyRules(part.text, rules)
      BY <3>1, RulesApply
    <3>3. parts[j] = [part EXCEPT !.text = text]
      BY <2>2, <2>3, <3>2 DEF RewritePart
    <3> QED BY <2>1, <2>3, <3>3, TextChanged
  <2>4. CASE part.type # "text"
    BY <2>1, <2>2, <2>4 DEF RewritePart
  <2> QED BY <2>3, <2>4
<1>4. parts \in Seq(Parts) /\ DOMAIN parts = DOMAIN old
  <2>1. parts \in [DOMAIN old -> Parts]
    BY <1>2, <1>3
  <2> QED BY <1>2, <2>1, MapIsSeq
<1>5. n = [m EXCEPT !.parts = parts]
  BY <1>1, <1>2
<1> QED BY <1>1, <1>3, <1>4, <1>5, PartsChanged

LEMMA MessagesRewritten ==
    ASSUME NEW msgs \in Seq(Msgs), NEW rules \in Rules, NEW new, new = RewriteMessages(msgs, rules)
    PROVE  new \in Seq(Msgs) /\ DOMAIN new = DOMAIN msgs /\ \A i \in DOMAIN new : Alike(msgs[i], new[i])
<1>1. DOMAIN new = DOMAIN msgs
  BY DEF RewriteMessages
<1>2. ASSUME NEW i \in DOMAIN msgs PROVE new[i] \in Msgs /\ Alike(msgs[i], new[i])
  <2>1. PICK m \in Msgs : m = msgs[i]
    BY ElementsAre
  <2>2. PICK n : n = [m EXCEPT !.parts = [j \in DOMAIN m.parts |-> RewritePart(m.parts[j], rules)]]
    OBVIOUS
  <2>3. new[i] = n
    BY <2>1, <2>2 DEF RewriteMessages
  <2> QED BY <2>1, <2>2, <2>3, MessageRewritten
<1>3. new \in [DOMAIN msgs -> Msgs]
  BY <1>1, <1>2 DEF RewriteMessages
<1> QED BY <1>1, <1>2, <1>3, MapIsSeq

\* The greatest of some places.
LEMMA Greatest ==
    ASSUME NEW n \in Nat, NEW S, S \subseteq 1..n, S # {}
    PROVE  Max(S) \in S
<1>1. PICK T : T = {n - x : x \in S}
  OBVIOUS
<1>2. T \subseteq Nat /\ T # {}
  <2>1. \A x \in S : n - x \in Nat
    OBVIOUS
  <2>2. T \subseteq Nat
    BY <1>1, <2>1
  <2>3. PICK x \in S : TRUE
    OBVIOUS
  <2>4. n - x \in T
    BY <1>1, <2>3
  <2> QED BY <2>2, <2>4
<1>3. PICK m \in T : \A k \in T : m <= k
  BY <1>2, Least
<1>4. PICK x \in S : m = n - x
  BY <1>1
<1>5. \A y \in S : x >= y
  <2>1. \A y \in S : n - y \in T
    BY <1>1
  <2>2. \A y \in S : n - x <= n - y
    BY <1>3, <1>4, <2>1
  <2>3. \A y \in S : y \in Nat
    OBVIOUS
  <2>4. x \in Nat
    OBVIOUS
  <2> QED BY <2>2, <2>3, <2>4
<1> QED BY <1>4, <1>5 DEF Max

LEMMA LastTextAppended ==
    ASSUME NEW msgs \in Seq(Msgs), UserTurns(msgs) # {}, NEW suffix \in Seq(Tokens),
           NEW new, new = AppendLastUserText(msgs, suffix)
    PROVE  new \in Seq(Msgs) /\ DOMAIN new = DOMAIN msgs /\ \A i \in DOMAIN new : Alike(msgs[i], new[i])
<1>1. PICK last : last = Max(UserTurns(msgs)) /\ last \in UserTurns(msgs)
  <2>1. PICK N \in Nat : DOMAIN msgs = 1..N
    BY ElementsAre
  <2>2. PICK S : S = UserTurns(msgs)
    OBVIOUS
  <2>3. S \subseteq 1..N /\ S # {}
    BY <2>1, <2>2 DEF UserTurns
  <2>4. Max(S) \in S
    BY <2>3, Greatest
  <2> QED BY <2>2, <2>4
<1>2. PICK m \in Msgs : m = msgs[last] /\ last \in DOMAIN msgs /\ TextsIn(m.parts) # {}
  <2>1. last \in DOMAIN msgs /\ TextsIn(msgs[last].parts) # {}
    BY <1>1 DEF UserTurns
  <2>2. msgs[last] \in Msgs
    BY <2>1, ElementsAre
  <2> QED BY <2>1, <2>2
<1>3. PICK old \in Seq(Parts) : old = m.parts
  BY DEF Msgs
<1>4. PICK j : j = Max(TextsIn(old)) /\ j \in TextsIn(old)
  <2>1. PICK N \in Nat : DOMAIN old = 1..N
    BY ElementsAre
  <2>2. PICK S : S = TextsIn(old)
    OBVIOUS
  <2>3. S \subseteq 1..N /\ S # {}
    BY <1>2, <1>3, <2>1, <2>2 DEF TextsIn
  <2>4. Max(S) \in S
    BY <2>3, Greatest
  <2> QED BY <2>2, <2>4
<1>5. PICK part \in Parts : part = old[j] /\ part.type = "text" /\ j \in DOMAIN old
  BY <1>4, ElementsAre DEF TextsIn
<1>6. PICK text \in Seq(Tokens) : text = part.text \o suffix
  <2>1. PICK was \in Seq(Tokens) : was = part.text
    BY PartIs
  <2>2. was \o suffix \in Seq(Tokens)
    OBVIOUS
  <2> QED BY <2>1, <2>2
<1>7. PICK other : other = [part EXCEPT !.text = text]
  OBVIOUS
<1>8. PICK parts : parts = [old EXCEPT ![j] = other]
  OBVIOUS
<1>9. PICK n : n = [m EXCEPT !.parts = parts]
  OBVIOUS
<1>10. new = [msgs EXCEPT ![last] = n]
  <2>1. new = [msgs EXCEPT ![last].parts[j].text = @ \o suffix]
    BY <1>1, <1>2, <1>3, <1>4 DEF AppendLastUserText
  <2>2. msgs[last].parts[j].text = part.text
    BY <1>2, <1>3, <1>5
  <2>3. new = [msgs EXCEPT ![last] = [msgs[last] EXCEPT !.parts =
                  [msgs[last].parts EXCEPT ![j] = [msgs[last].parts[j] EXCEPT !.text = msgs[last].parts[j].text \o suffix]]]]
    BY <2>1
  <2>4. new = [msgs EXCEPT ![last] = [m EXCEPT !.parts = [old EXCEPT ![j] = [part EXCEPT !.text = text]]]]
    BY <1>2, <1>3, <1>5, <1>6, <2>2, <2>3
  <2> QED BY <1>7, <1>8, <1>9, <2>4
<1>11. other \in Parts /\ other.type = "text"
  BY <1>5, <1>7, TextChanged
<1>12. parts \in Seq(Parts) /\ DOMAIN parts = DOMAIN old
  BY <1>5, <1>8, <1>11
<1>13. \A k \in DOMAIN parts : parts[k] = old[k] \/ (parts[k].type = "text" /\ old[k].type = "text")
  BY <1>5, <1>8, <1>11
<1>14. n \in Msgs /\ Alike(m, n)
  BY <1>3, <1>9, <1>12, <1>13, PartsChanged
<1>15. new \in Seq(Msgs) /\ DOMAIN new = DOMAIN msgs
  BY <1>2, <1>10, <1>14
<1>16. ASSUME NEW i \in DOMAIN new PROVE Alike(msgs[i], new[i])
  <2>1. CASE i = last
    BY <1>2, <1>10, <1>14, <2>1
  <2>2. CASE i # last
    <3>1. new[i] = msgs[i]
      BY <1>10, <1>15, <2>2
    <3> QED BY <3>1 DEF Alike
  <2> QED BY <2>1, <2>2
<1> QED BY <1>15, <1>16

\* What instances that may be run put into requests.
Tokened(inst) ==
    /\ inst.type = "text-append" => inst.up \in Seq(Tokens)
    /\ inst.type = "text-replace" => inst.up \in Rules

LEMMA BeforeChanges ==
    ASSUME NEW inst, Tokened(inst), NEW u, NEW v, SameButTexts(u, v), NEW path, NEW drawn,
           OnBefore(inst, v, path, drawn).action = "mutate", NEW w, w = OnBefore(inst, v, path, drawn).to
    PROVE  SameButTexts(u, w)
<1>1. v.msgs \in Seq(Msgs)
  BY DEF SameButTexts
<1>2. CASE inst.type = "text-append"
  <2>1. OnBefore(inst, v, path, drawn) = AppendsBefore(inst, v) /\ inst.up \in Seq(Tokens)
    BY <1>2 DEF OnBefore, Continue, Tokened
  <2>2. \/ w = [v EXCEPT !.system = @ \o inst.up]
        \/ UserTurns(v.msgs) # {} /\ w = [v EXCEPT !.msgs = AppendLastUserText(@, inst.up)]
    BY <2>1 DEF AppendsBefore, MutateTo, Continue
  <2>3. CASE w = [v EXCEPT !.system = @ \o inst.up]
    BY <2>1, <2>3, SystemChanged
  <2>4. CASE UserTurns(v.msgs) # {} /\ w = [v EXCEPT !.msgs = AppendLastUserText(@, inst.up)]
    <3>1. PICK msgs : msgs = AppendLastUserText(v.msgs, inst.up)
      OBVIOUS
    <3>2. msgs \in Seq(Msgs) /\ DOMAIN msgs = DOMAIN v.msgs /\ \A i \in DOMAIN msgs : Alike(v.msgs[i], msgs[i])
      BY <1>1, <2>1, <2>4, <3>1, LastTextAppended
    <3>3. w = [v EXCEPT !.msgs = msgs]
      BY <2>4, <3>1
    <3> QED BY <3>2, <3>3, MessagesChanged
  <2> QED BY <2>2, <2>3, <2>4
<1>3. CASE inst.type = "text-replace"
  <2>1. OnBefore(inst, v, path, drawn) = ReplacesBefore(inst, v) /\ inst.up \in Rules
    BY <1>3 DEF OnBefore, Continue, Tokened
  <2>2. w = [v EXCEPT !.msgs = RewriteMessages(@, inst.up)]
    BY <2>1 DEF ReplacesBefore, MutateTo, Continue
  <2>3. PICK msgs : msgs = RewriteMessages(v.msgs, inst.up)
    OBVIOUS
  <2>4. msgs \in Seq(Msgs) /\ DOMAIN msgs = DOMAIN v.msgs /\ \A i \in DOMAIN msgs : Alike(v.msgs[i], msgs[i])
    BY <1>1, <2>1, <2>3, MessagesRewritten
  <2>5. w = [v EXCEPT !.msgs = msgs]
    BY <2>2, <2>3
  <2> QED BY <2>4, <2>5, MessagesChanged
<1>4. CASE inst.type \notin BuiltinTypes
  BY <1>4 DEF OnBefore, Continue, InterceptBy, BuiltinTypes
<1> QED BY <1>2, <1>3, <1>4 DEF BuiltinTypes

-----------------------------------------------------------------------------
(* The request on its way to the upstream. *)

Lifted == ParseRequest(Proto, request.body)

\* What is kept is what was lifted of the client's body, which goes on as it came, or the
\* view as the chain left it, and the body is written of that.
Kept ==
    \/ forward = request.body /\ parsed = Lifted
    \/ SameButTexts(Lifted, parsed) /\ forward = BuildRequest(Proto, parsed)

RequestInv ==
    /\ pc \in {"arrive", "enterBefore", "before"} => ~ stashed /\ forward = request.body
    /\ pc = "enterBefore" => parsed = Lifted
    /\ Proto \in Written /\ request.body.json = "fits" =>
          /\ pc = "before" => SameButTexts(Lifted, view) /\ (~ mutated => view = Lifted)
          /\ stashed => Kept

\* What is written of a view shows it again.
LEMMA SeenAgain ==
    ASSUME NEW p \in Written, NEW v, Rebuildable(p, v), NEW b, b = BuildRequest(p, v)
    PROVE  Wrote(v, b) /\ Seen(ParseRequest(p, b)) = Seen(v)
<1>1. CASE p = "chat"
  BY <1>1, ChatAgain
<1>2. CASE p = "messages"
  BY <1>2, MessagesAgain
<1>3. CASE p = "responses"
  BY <1>3, ResponsesAgain
<1> QED BY <1>1, <1>2, <1>3 DEF Written

LEMMA LiftedIs ==
    ASSUME TypeOK, Proto \in Written, request.body.json = "fits"
    PROVE  Rebuildable(Proto, Lifted) /\ Lifted.raw = request.body
<1>1. PICK b \in Shapes : b = request.body /\ b.json = "fits" /\ \A i \in DOMAIN b.turns : HasShape(Proto, b.turns[i])
  <2>1. request \in Requests
    BY DEF TypeOK
  <2>2. request.body \in Shapes
    BY <2>1, ShapesAssumption DEF Shapes
  <2>3. \A i \in DOMAIN request.body.turns : HasShape(Proto, request.body.turns[i])
    BY <2>1, ShapesAssumption DEF Proto
  <2> QED BY <2>2, <2>3
<1>2. PICK p \in Written : p = Proto
  OBVIOUS
<1>4. PICK v : v = ParseRequest(p, b) /\ v = Lifted
  BY <1>1, <1>2 DEF Lifted
<1>3. Rebuildable(p, v) /\ v.raw = b
  <2>1. CASE p = "chat"
    <3>1. v = ParseRequest("chat", b) /\ \A i \in DOMAIN b.turns : HasShape("chat", b.turns[i])
      BY <1>1, <1>2, <1>4, <2>1
    <3> QED BY <1>1, <2>1, <3>1, ChatLifted
  <2>2. CASE p = "messages"
    <3>1. v = ParseRequest("messages", b) /\ \A i \in DOMAIN b.turns : HasShape("messages", b.turns[i])
      BY <1>1, <1>2, <1>4, <2>2
    <3> QED BY <1>1, <2>2, <3>1, MessagesLifted
  <2>3. CASE p = "responses"
    BY <1>1, <1>4, <2>3, ResponsesLifted
  <2> QED BY <2>1, <2>2, <2>3 DEF Written
<1> QED BY <1>1, <1>2, <1>3, <1>4

-----------------------------------------------------------------------------
(* The invariant. *)

LEMMA InitRequest == Init => RequestInv
  BY DEF Init, RequestInv

\* Nothing of the request changes, and the BEFORE chain is where it was, or over.
LEMMA RequestStays ==
    ASSUME RequestInv, UNCHANGED <<request, requestVars>>,
           \/ pc' = pc /\ UNCHANGED <<view, mutated>>
           \/ pc' \in {"upstream", "enterAfter", "after", "enterStream", "stream", "done"}
    PROVE  RequestInv'
<1>1. Lifted' = Lifted /\ Proto' = Proto /\ Kept' = Kept
  BY DEF Lifted, Proto, Kept, requestVars
<1>2. UNCHANGED <<request, stashed, parsed, forward>>
  BY DEF requestVars
<1>3. CASE pc' = pc /\ UNCHANGED <<view, mutated>>
  BY <1>1, <1>2, <1>3 DEF RequestInv
<1>4. CASE pc' \in {"upstream", "enterAfter", "after", "enterStream", "stream", "done"}
  BY <1>1, <1>2, <1>4 DEF RequestInv
<1> QED BY <1>3, <1>4

LEMMA BufferingKeeps == ASSUME RequestInv, GivesUpBuffering \/ Buffers PROVE RequestInv'
<1>1. /\ pc = "arrive" /\ UNCHANGED <<request, stashed>> /\ ~ stashed
      /\ \/ pc' = "upstream"
         \/ pc' = "enterBefore" /\ forward' = forward /\ parsed' = Lifted
  BY DEF RequestInv, GivesUpBuffering, Buffers, Lifted
<1>2. Lifted' = Lifted /\ Proto' = Proto
  BY <1>1 DEF Lifted, Proto
<1> QED BY <1>1, <1>2 DEF RequestInv

LEMMA EntersBeforeKeeps == ASSUME TypeOK, RequestInv, EntersBefore PROVE RequestInv'
<1>1. /\ pc = "enterBefore" /\ pc' = "before" /\ view' = parsed /\ mutated' = FALSE
      /\ UNCHANGED <<request, stashed, parsed, forward>>
  BY DEF EntersBefore, Loads
<1>2. Lifted' = Lifted /\ Proto' = Proto
  BY <1>1 DEF Lifted, Proto
<1>3. view' = Lifted /\ ~ stashed /\ forward = request.body
  BY <1>1 DEF RequestInv
<1>4. Proto \in Written /\ request.body.json = "fits" => SameButTexts(Lifted, view')
  BY <1>3, LiftedIs, SameAsIs
<1> QED BY <1>1, <1>2, <1>3, <1>4 DEF RequestInv

LEMMA MutatesBeforeKeeps == ASSUME TypeOK, RequestInv, Mutates("before", "before") PROVE RequestInv'
<1>1. /\ pc = "before" /\ pc' = "before" /\ at \in DOMAIN chain /\ Here = chain[at]
      /\ Answer("before").action = "mutate" /\ view' = Answer("before").to /\ mutated' = TRUE
      /\ UNCHANGED <<request, stashed, parsed, forward>>
  BY DEF Mutates, Calls, requestVars, Here, InForce
<1>2. Lifted' = Lifted /\ Proto' = Proto
  BY <1>1 DEF Lifted, Proto
<1>3. ~ stashed /\ forward = request.body
  BY <1>1 DEF RequestInv
<1>4. Tokened(Here)
  <2>1. chain \in Lists
    BY DEF TypeOK
  <2> QED BY <1>1, <2>1, ShapesAssumption DEF Tokened
<1>5. Answer("before") = OnBefore(Here, view, request.path, luck)
  BY <1>1 DEF Answer, Continue
<1>6. ASSUME Proto \in Written, request.body.json = "fits" PROVE SameButTexts(Lifted, view')
  <2>1. SameButTexts(Lifted, view)
    BY <1>1, <1>6 DEF RequestInv
  <2> QED BY <1>1, <1>4, <1>5, <2>1, BeforeChanges
<1> QED BY <1>1, <1>2, <1>3, <1>6 DEF RequestInv

LEMMA RebuildsKeeps == ASSUME TypeOK, RequestInv, Rebuilds PROVE RequestInv'
<1>1. /\ pc = "before" /\ pc' = "upstream" /\ stashed' = TRUE /\ parsed' = view /\ request' = request
      /\ forward' = IF mutated /\ BuildRequest(Proto, view) # NoBody THEN BuildRequest(Proto, view) ELSE forward
  BY DEF Rebuilds, Over
<1>2. Lifted' = Lifted /\ Proto' = Proto
  BY <1>1 DEF Lifted, Proto
<1>3. forward = request.body
  BY <1>1 DEF RequestInv
<1>4. ASSUME Proto \in Written, request.body.json = "fits"
      PROVE  \/ forward' = request.body /\ parsed' = Lifted
             \/ SameButTexts(Lifted, parsed') /\ forward' = BuildRequest(Proto, parsed')
  <2>1. SameButTexts(Lifted, view) /\ (~ mutated => view = Lifted)
    BY <1>1, <1>4 DEF RequestInv
  <2>2. CASE ~ mutated
    BY <1>1, <1>3, <2>1, <2>2
  <2>3. CASE mutated
    <3>1. PICK b : b = BuildRequest(Proto, view)
      OBVIOUS
    <3>2. Rebuildable(Proto, Lifted)
      BY <1>4, LiftedIs
    <3>3. Rebuildable(Proto, view)
      BY <2>1, <3>2, SameRebuilt
    <3>4. b.json = "fits"
      BY <1>4, <3>1, <3>3, SeenAgain DEF Wrote
    <3>5. NoBody.json = "broken"
      BY DEF NoBody, NoRequest
    <3> QED BY <1>1, <2>1, <2>3, <3>1, <3>4, <3>5
  <2> QED BY <2>2, <2>3
<1> QED BY <1>1, <1>2, <1>4 DEF RequestInv, Kept

LEMMA RequestInvariance == Spec => []RequestInv
<1>1. ASSUME TypeOK, RequestInv, [Next]_vars PROVE RequestInv'
  <2>1. CASE Reload \/ UNCHANGED vars \/ PassesOn("before", "before") \/ Done
    <3>1. UNCHANGED <<request, requestVars>> /\ pc' = pc /\ UNCHANGED <<view, mutated>>
      BY <2>1 DEF Reload, PassesOn, Done, vars, chainVars
    <3> QED BY <1>1, <3>1, RequestStays
  <2>2. CASE \/ ForwardsAsIs \/ Intercepts("before", "before", "enterAfter") \/ UpstreamUnreachable \/ UpstreamAnswers
             \/ EntersAfter \/ PassesOn("after", "after") \/ Mutates("after", "after")
             \/ Intercepts("after", "after", "done") \/ WritesReply
             \/ EntersStream \/ RegistersNext \/ Intercepts("stream", "after", "done") \/ Streams
    <3>1. /\ UNCHANGED <<request, requestVars>>
          /\ pc' \in {"upstream", "enterAfter", "after", "enterStream", "stream", "done"}
      BY <2>2 DEF ForwardsAsIs, Intercepts, UpstreamUnreachable, UpstreamAnswers, EntersAfter, PassesOn, Mutates,
                  WritesReply, EntersStream, RegistersNext, Streams, Loads, Calls, Over, requestVars
    <3> QED BY <1>1, <3>1, RequestStays
  <2> QED BY <1>1, <2>1, <2>2, BufferingKeeps, EntersBeforeKeeps, MutatesBeforeKeeps, RebuildsKeeps DEF Next
<1>2. ChainsInv => TypeOK
  BY DEF ChainsInv
<1> QED BY <1>1, <1>2, InitRequest, ChainsInvariance, PTL DEF Spec

\* The AFTER chain is shown, as the request, what the upstream got: the forwarded body,
\* parsed again, gives the view that was kept, and the root fields that no view lifts are
\* those of the client (BuildRequestBody against ParsedRequestFromHTTPRequest).
THEOREM AfterSeesTheForwarded == Spec => []AfterSeesForwarded
<1>1. ASSUME TypeOK, RequestInv PROVE AfterSeesForwarded
  <2>1. SUFFICES ASSUME stashed, Proto \in Written, request.body.json = "fits"
                 PROVE  /\ Seen(ParseRequest(Proto, forward)) = Seen(parsed)
                        /\ forward.extra = request.body.extra
    BY DEF AfterSeesForwarded
  <2>2. Kept
    BY <1>1, <2>1 DEF RequestInv
  <2>3. CASE forward = request.body /\ parsed = Lifted
    BY <2>3 DEF Lifted
  <2>4. CASE SameButTexts(Lifted, parsed) /\ forward = BuildRequest(Proto, parsed)
    <3>1. Rebuildable(Proto, Lifted) /\ Lifted.raw = request.body
      BY <1>1, <2>1, LiftedIs
    <3>2. Rebuildable(Proto, parsed)
      BY <2>4, <3>1, SameRebuilt
    <3>3. Wrote(parsed, forward) /\ Seen(ParseRequest(Proto, forward)) = Seen(parsed)
      BY <2>1, <2>4, <3>2, SeenAgain
    <3>4. parsed.raw = request.body
      BY <2>4, <3>1 DEF SameButTexts
    <3> QED BY <3>3, <3>4 DEF Wrote
  <2> QED BY <2>2, <2>3, <2>4 DEF Kept
<1>2. ChainsInv => TypeOK
  BY DEF ChainsInv
<1> QED BY <1>1, <1>2, ChainsInvariance, RequestInvariance, PTL

LEMMA OfTurnsAre ==
    ASSUME NEW types, NEW turns, NEW others, DOMAIN turns = DOMAIN others,
           \A i \in DOMAIN turns :
              /\ turns[i] \in AnyTurns /\ others[i] \in AnyTurns
              /\ PairsOf(turns[i].parts, types) = PairsOf(others[i].parts, types)
    PROVE  OfTurns(turns, types) = OfTurns(others, types)
<1>1. ASSUME NEW i \in DOMAIN turns
      PROVE  Carried(OfType(turns[i].parts, types)) = Carried(OfType(others[i].parts, types))
  <2>1. PICK a \in Seq(Parts), b \in Seq(Parts) : a = turns[i].parts /\ b = others[i].parts
    BY DEF AnyTurns
  <2>2. PairsOf(a, types) = PairsOf(b, types)
    BY <2>1
  <2>3. Carried(OfType(a, types)) = PairsOf(a, types) /\ Carried(OfType(b, types)) = PairsOf(b, types)
    BY CarriedAre
  <2> QED BY <2>1, <2>2, <2>3
<1>2. [i \in DOMAIN turns |-> Carried(OfType(turns[i].parts, types))]
        = [i \in DOMAIN others |-> Carried(OfType(others[i].parts, types))]
  BY <1>1
<1> QED BY <1>2 DEF OfTurns

\* Whatever the plugins rewrite around them, parts that are no texts reach the upstream in
\* their order, none lost and none rewritten: tool calls, results and images with what is
\* lifted of them, parts of other types with all they have (RewritePart,
\* AppendLastUserText, BuildRequestBody).
THEOREM PartsReach == Spec => []PartsReachUpstream
<1>1. ASSUME TypeOK, RequestInv PROVE PartsReachUpstream
  <2>1. SUFFICES ASSUME stashed, Proto \in {"chat", "messages"}, request.body.json = "fits",
                        NEW types \in {Tools, Media}
                 PROVE  OfTurns(Spoken(forward), types) = OfTurns(Spoken(request.body), types)
    BY DEF PartsReachUpstream
  <2>2. Proto \in Written
    BY <2>1 DEF Written
  <2>3. Kept
    BY <1>1, <2>1, <2>2 DEF RequestInv
  <2>4. CASE forward = request.body
    BY <2>4
  <2>5. CASE SameButTexts(Lifted, parsed) /\ forward = BuildRequest(Proto, parsed)
    <3>1. PICK b \in Shapes : b = request.body /\ b.json = "fits" /\ \A i \in DOMAIN b.turns : HasShape(Proto, b.turns[i])
      <4>1. request \in Requests
        BY <1>1 DEF TypeOK
      <4>2. request.body \in Shapes
        BY <4>1, ShapesAssumption DEF Shapes
      <4>3. \A i \in DOMAIN request.body.turns : HasShape(Proto, request.body.turns[i])
        BY <2>1, <4>1, ShapesAssumption DEF Proto
      <4> QED BY <2>1, <4>2, <4>3
    <3>2. PICK v, w, f : v = Lifted /\ w = parsed /\ f = forward
      OBVIOUS
    <3>3. Rebuildable(Proto, v)
      BY <1>1, <2>1, <2>2, <3>2, LiftedIs
    <3>4. SameButTexts(v, w) /\ Rebuildable(Proto, w)
      BY <2>5, <3>2, <3>3, SameRebuilt
    <3>5. DOMAIN w.msgs = DOMAIN v.msgs /\ \A i \in DOMAIN v.msgs : Alike(v.msgs[i], w.msgs[i])
      BY <3>4 DEF SameButTexts
    <3>6. ASSUME NEW i \in DOMAIN v.msgs
          PROVE  /\ PairsOf(w.msgs[i].parts, {"tool_result"}) = PairsOf(v.msgs[i].parts, {"tool_result"})
                 /\ PairsOf(w.msgs[i].parts, {"tool_use"}) = PairsOf(v.msgs[i].parts, {"tool_use"})
                 /\ PairsOf(w.msgs[i].parts, types) = PairsOf(v.msgs[i].parts, types)
      <4>1. Alike(v.msgs[i], w.msgs[i])
        BY <3>5
      <4> QED BY <4>1, ToolSorts DEF Alike
    <3>7. CASE Proto = "chat"
      <4>1. PICK ts, us : ts = NotSystem(b.turns) /\ us = NotSystem(f.turns)
        OBVIOUS
      <4>2. /\ DOMAIN v.msgs = DOMAIN ts
            /\ \A i \in DOMAIN v.msgs :
                /\ ts[i] \in AnyTurns
                /\ PairsOf(ts[i].parts, Media) = PairsOf(v.msgs[i].parts, Media)
                /\ PairsOf(ts[i].parts, Tools)
                     = PairsOf(v.msgs[i].parts, {"tool_result"}) \o PairsOf(v.msgs[i].parts, {"tool_use"})
        BY <3>1, <3>2, <3>7, <4>1, ChatLifted DEF Lifted
      <4>3. Rebuildable("chat", w) /\ f = BuildRequest("chat", w)
        BY <2>5, <3>2, <3>4, <3>7
      <4>4. /\ DOMAIN us = DOMAIN w.msgs
            /\ \A i \in DOMAIN w.msgs :
                /\ us[i] \in AnyTurns
                /\ PairsOf(us[i].parts, Media) = PairsOf(w.msgs[i].parts, Media)
                /\ PairsOf(us[i].parts, Tools)
                     = PairsOf(w.msgs[i].parts, {"tool_result"}) \o PairsOf(w.msgs[i].parts, {"tool_use"})
        BY <4>1, <4>3, ChatAgain
      <4>5. OfTurns(us, types) = OfTurns(ts, types)
        <5>1. DOMAIN us = DOMAIN ts
          BY <3>5, <4>2, <4>4
        <5>2. ASSUME NEW i \in DOMAIN us
              PROVE  /\ us[i] \in AnyTurns /\ ts[i] \in AnyTurns
                     /\ PairsOf(us[i].parts, types) = PairsOf(ts[i].parts, types)
          BY <3>5, <3>6, <4>2, <4>4, ZenonT(40)
        <5> QED BY <5>1, <5>2, OfTurnsAre
      <4> QED BY <3>1, <3>2, <3>7, <4>1, <4>5 DEF Spoken
    <3>8. CASE Proto = "messages"
      <4>1. PICK ts, us : ts = b.turns /\ us = f.turns
        OBVIOUS
      <4>2. /\ DOMAIN v.msgs = DOMAIN ts
            /\ \A i \in DOMAIN v.msgs : ts[i] \in AnyTurns /\ PairsOf(ts[i].parts, types) = PairsOf(v.msgs[i].parts, types)
        BY <3>1, <3>2, <3>8, <4>1, MessagesLifted DEF Lifted
      <4>3. Rebuildable("messages", w) /\ f = BuildRequest("messages", w)
        BY <2>5, <3>2, <3>4, <3>8
      <4>4. /\ DOMAIN us = DOMAIN w.msgs
            /\ \A i \in DOMAIN w.msgs : us[i] \in AnyTurns /\ PairsOf(us[i].parts, types) = PairsOf(w.msgs[i].parts, types)
        BY <4>1, <4>3, MessagesAgain
      <4>5. OfTurns(us, types) = OfTurns(ts, types)
        <5>1. DOMAIN us = DOMAIN ts
          BY <3>5, <4>2, <4>4
        <5>2. ASSUME NEW i \in DOMAIN us
              PROVE  /\ us[i] \in AnyTurns /\ ts[i] \in AnyTurns
                     /\ PairsOf(us[i].parts, types) = PairsOf(ts[i].parts, types)
          BY <3>5, <3>6, <4>2, <4>4
        <5> QED BY <5>1, <5>2, OfTurnsAre
      <4> QED BY <3>1, <3>2, <3>8, <4>1, <4>5 DEF Spoken
    <3> QED BY <2>1, <3>7, <3>8
  <2> QED BY <2>3, <2>4, <2>5 DEF Kept
<1>2. ChainsInv => TypeOK
  BY DEF ChainsInv
<1> QED BY <1>1, <1>2, ChainsInvariance, RequestInvariance, PTL
=============================================================================
