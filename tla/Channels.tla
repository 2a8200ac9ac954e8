------------------------------ MODULE Channels ------------------------------
(***************************************************************************)
(* The channels of a device instance in use: udi_channel_spawn and         *)
(* udi_channel_anchor of commonlibs/libzbzcore/libzudi.cpp, called by the  *)
(* threads of the regions, and the kernel below them in                    *)
(* kernel/common/floodplainn/udi_channel.cpp and channel.cpp.              *)
(*                                                                         *)
(* An end is <<channel, 0 or 1>>.  The kernel keeps region and ops vector  *)
(* of every end; the library keeps, per region, a context for each of its  *)
(* ends with the ops it believes are set.  A channel is spawned over       *)
(* another by two calls with one index; until then it is incomplete.       *)
(***************************************************************************)
EXTENDS Naturals, Sequences, FiniteSets

CONSTANTS
  Regions,
  Bound,        \* the bind channels: [ends: the regions of both, mgmt]
  SpawnIndexes, Ops,
  MaxCalls      \* bound on the calls of the regions

Kernel == "kernel"    \* the thread at the other end of the management channel
None == <<0, 0>>      \* a NULL endpoint
NoOps == "none"       \* a NULL ops vector
NBound == Len(Bound)

VARIABLES
  ends,     \* for every channel its two ends: [region, ops]
  incs,     \* incomplete channels: [over, idx, origins, listed]
  ctxts,    \* region -> the library's contexts: [end, ops]
  call,     \* the call each region's thread is in
  last,     \* the last message across a channel: [on, to, ops]
  nCalls,   \* the calls so far
  end       \* "runs", "panic", or "null": a NULL channel was used

chanVars == <<ends, incs, ctxts, call, last, nCalls, end>>

Idle == [pc |-> "idle"]
Init ==
  /\ ends = [c \in 1 .. NBound |-> [e \in {0, 1} |-> [region |-> Bound[c].ends[e + 1], ops |-> "bind"]]]
  /\ incs = <<>>
  /\ ctxts = [r \in Regions |-> {[end |-> <<c, e>>, ops |-> "bind"] :
                                  <<c, e>> \in {x \in (1 .. NBound) \X {0, 1} : Bound[x[1]].ends[x[2] + 1] = r}}]
  /\ call = [r \in Regions |-> Idle]
  /\ last = [on |-> None] /\ nCalls = 0 /\ end = "runs"

Complete(c) == c <= NBound
Other(x) == <<x[1], 1 - x[2]>>
At(x) == ends[x[1]][x[2]]
isAnchored(x) == At(x).ops # NoOps /\ At(x).region # "nobody"
Anchored(es, x, r, ops) == [es EXCEPT ![x[1]][x[2]] = [region |-> r, ops |-> ops]]
Enter(r, c) == call' = [call EXCEPT ![r] = c]
Calls(r) == call[r] = Idle /\ nCalls < MaxCalls /\ nCalls' = nCalls + 1
Leave(r) == Enter(r, Idle)
Dies(how) == end' = how /\ UNCHANGED <<ends, incs, ctxts, call, last, nCalls>>

-----------------------------------------------------------------------------
(* Spawning.                                                               *)

getIncompleteChannelBySpawnIndex(over, idx) ==
  {i \in DOMAIN incs : incs[i].listed /\ incs[i].over = over /\ incs[i].idx = idx}

\* The library's half after the kernel's: an end it knows is returned as it
\* is, a new one gets a context, if there is memory for it.
SpawnReturns(r, x, ops) ==
  IF \E k \in ctxts[r] : k.end = x
  THEN UNCHANGED ctxts
  ELSE \/ ctxts' = [ctxts EXCEPT ![r] = @ \union {[end |-> x, ops |-> ops]}]
       \/ UNCHANGED ctxts

\* Only an end of a complete channel, of which the region has a context.
udi_channel_spawn(r, x, idx, ops) ==
  /\ Calls(r) /\ \E k \in ctxts[r] : k.end = x
  /\ Complete(x[1])
  /\ \E i \in {0} \union getIncompleteChannelBySpawnIndex(x[1], idx) :
       /\ i = 0 <=> getIncompleteChannelBySpawnIndex(x[1], idx) = {}
       /\ Enter(r, [pc |-> IF i = 0 THEN "create" ELSE "match", x |-> x, idx |-> idx, ops |-> ops, inc |-> i])
  /\ UNCHANGED <<ends, incs, ctxts, last, end>>

\* createIncompleteChannel looks once more and may fail; the caller uses its
\* result, NULL, all the same.
createIncompleteChannel(r) ==
  LET c == call[r] IN
  /\ c.pc = "create"
  /\ \/ /\ getIncompleteChannelBySpawnIndex(c.x[1], c.idx) = {}
        /\ Enter(r, [c EXCEPT !.pc = "insert"]) /\ UNCHANGED <<ends, incs, ctxts, last, nCalls, end>>
     \/ Dies("null")

\* The first end is anchored; the list's own want of memory goes unnoticed.
FirstEnd(r) ==
  LET c == call[r]
      new == <<Len(ends) + 1, 0>>
      nobody == [region |-> "nobody", ops |-> NoOps]
  IN  /\ c.pc = "insert"
      /\ \E listed \in BOOLEAN :
           incs' = Append(incs, [over |-> c.x[1], idx |-> c.idx, listed |-> listed, origins |-> <<c.x, None>>])
      /\ ends' = Append(ends, [e \in {0, 1} |-> IF e = 0 THEN [region |-> r, ops |-> c.ops] ELSE nobody])
      /\ SpawnReturns(r, new, c.ops)
      /\ Leave(r) /\ UNCHANGED <<last, nCalls, end>>

\* The end of the same origin is anchored again; a different origin takes
\* the other end, and then finds that nobody noted its own origin.
OriginMatches(i, x) == incs[i].origins[1] = x
SecondEnd(r) ==
  LET c == call[r]
      x == <<NBound + c.inc, 0>>
  IN  /\ c.pc = "match"
      /\ IF OriginMatches(c.inc, c.x)
         THEN /\ ends' = Anchored(ends, x, r, c.ops)
              /\ SpawnReturns(r, x, c.ops)
              /\ Leave(r) /\ UNCHANGED <<incs, last, nCalls, end>>
         ELSE /\ ends' = Anchored(ends, Other(x), r, c.ops)
              /\ end' = "panic" /\ UNCHANGED <<incs, ctxts, call, last, nCalls>>

-----------------------------------------------------------------------------
(* Anchoring an end that the region has, and messages.                     *)

udi_channel_anchor(r, x, ops) ==
  /\ Calls(r) /\ ops # NoOps /\ \E k \in ctxts[r] : k.end = x
  /\ ctxts' = [ctxts EXCEPT ![r] = {IF k.end = x THEN [k EXCEPT !.ops = ops] ELSE k : k \in @}]
  /\ Enter(r, [pc |-> "anchor", x |-> x, ops |-> ops])
  /\ UNCHANGED <<ends, incs, last, end>>

\* The kernel knows the ends of complete channels only.
anchorEndpoint(r) ==
  LET c == call[r] IN
  /\ c.pc = "anchor"
  /\ ends' = IF Complete(c.x[1]) THEN Anchored(ends, c.x, At(c.x).region, c.ops) ELSE ends
  /\ Leave(r) /\ UNCHANGED <<incs, ctxts, last, nCalls, end>>

\* Zudi::send: over an end of the region's own, or the management channel's.
MaySend(r, x) == Complete(x[1]) /\ (At(x).region = r \/ (Bound[x[1]].mgmt /\ x[2] = 0))

\* RegionEndpoint::enqueue, FStreamEndpoint::enqueue.
enqueue(x) ==
  /\ isAnchored(x)
  /\ last' = [on |-> x, to |-> At(x).region, ops |-> At(x).ops]

send(r, x) ==
  /\ Calls(r) /\ MaySend(r, x)
  /\ enqueue(Other(x))
  /\ UNCHANGED <<ends, incs, ctxts, call, end>>

Next ==
  /\ end = "runs"
  /\ \E r \in Regions :
       \/ \E x \in (1 .. Len(ends)) \X {0, 1}, idx \in SpawnIndexes, ops \in Ops \union {NoOps} :
            udi_channel_spawn(r, x, idx, ops)
       \/ createIncompleteChannel(r) \/ FirstEnd(r) \/ SecondEnd(r)
       \/ \E x \in (1 .. Len(ends)) \X {0, 1}, ops \in Ops : udi_channel_anchor(r, x, ops)
       \/ anchorEndpoint(r)
       \/ \E x \in (1 .. Len(ends)) \X {0, 1} : send(r, x)

Spec == Init /\ [][Next]_chanVars

-----------------------------------------------------------------------------
(* Properties.                                                             *)

Spawning(r, i) == call[r].pc \in {"create", "insert", "match"} /\ call[r].x[1] = incs[i].over /\ call[r].idx = incs[i].idx

\* Whatever regions spawn and anchor side by side: an end belongs to the one
\* region that has its context; library and kernel agree on the ops of the
\* ends of a complete channel, so that a message goes to the region at its
\* other end with the ops that region set; an incomplete channel keeps the
\* end and the origin of the region that spawned it, and a second one of the
\* same index is there only when another region began to spawn it before the
\* first was listed.  The spawn panics only for the second of two origins,
\* never for one that calls twice, and a NULL channel is used only when
\* memory ran out or two regions spawn the same one (udi_channel.cpp).
ChannelsConsistent ==
  /\ \A r \in Regions : \A k \in ctxts[r] :
       /\ At(k.end).region = r
       /\ \A s \in Regions : \A l \in ctxts[s] : l.end = k.end => l = k /\ s = r
       /\ (Complete(k.end[1]) /\ call[r].pc # "anchor") => At(k.end).ops = k.ops
  /\ last.on # None => At(last.on).region = last.to
  /\ \A i \in DOMAIN incs :
       LET x == incs[i].origins[1]
       IN  /\ At(<<NBound + i, 0>>).region = At(x).region /\ x[1] = incs[i].over
           /\ \A j \in DOMAIN incs : incs[i].listed /\ incs[j].listed /\ i # j /\ incs[j].over = incs[i].over
                                     /\ incs[j].idx = incs[i].idx => incs[j].origins[1] # x
           /\ end # "panic" => ~isAnchored(<<NBound + i, 1>>)
  /\ end = "panic" => \E r \in Regions, i \in DOMAIN incs :
                         Spawning(r, i) /\ incs[i].listed /\ incs[i].origins[1] # call[r].x
=============================================================================
