-------------------------------- MODULE Zum --------------------------------
(***************************************************************************)
(* The UDI management agent: clients ask the ZUM thread (zumFrontEnd.cpp)  *)
(* to start a device or to enumerate its children; the thread              *)
(* (zumBackEnd.cpp) turns each request into calls across the device's      *)
(* channels, which the region threads of libzbzcore (devicePath.cpp) make  *)
(* in the driver, and goes on when the answers come back.                  *)
(*                                                                         *)
(* A message names the request r it works for and, in by, who gets its     *)
(* answer: the client, or the function of the thread that continues r.     *)
(* The thread's queues are pulled in the order of their subsystems:        *)
(* ZASYNC (requests), ZUDI (answers of the device), ZUM (its own answers). *)
(*                                                                         *)
(* The device's driver is zrootdev.cpp where the management channel is     *)
(* concerned; what a driver does with a channel event is external.         *)
(***************************************************************************)
EXTENDS Integers, Sequences, FiniteSets

CONSTANTS
  Requests,       \* requests of clients
  OpOf,           \* the operation each asks for
  ChannelRegion,  \* region of endpoint 0 of each channel
  MgmtRegion,     \* region of the management channel
  NDevs,          \* devices the root driver enumerates
  Plans,          \* the clients that may ask, how many of their requests may
                  \* fail for want of memory or of a device, and the internal
                  \* bind channels and the channels to parents of the device
  MaxChildren     \* bound on the children created

VARIABLES
  plan,           \* the plan of this behaviour
  asked,          \* requests sent by their clients
  queues,         \* the thread's message queues, one per subsystem
  ctxt,           \* what the context of each request counts and collects
  answers,        \* what each client has been answered
  connected,      \* the management endpoint of the device instance is set
  mgmtContext,    \* private data of the management endpoint is set
  regionQs,       \* channel messages queued for each region
  held,           \* channel events the driver has not completed
  currDevIdx,     \* rd->e.curr_dev_idx of zrootdev
  posted,         \* rd->e.posted_cb: the request whose block is kept
  children,       \* child devices created, in order
  overlapped,     \* requests that were not alone while they were served
  missed,         \* requests for which a message was never sent or dropped
  unsent          \* requests one of whose channel sends failed

Range(s) == {s[i] : i \in DOMAIN s}

zumVars == <<plan, asked, queues, ctxt, answers, connected, mgmtContext, regionQs, held, currDevIdx,
             posted, children, overlapped, missed, unsent>>

Internal == plan.internal
Parents == plan.parents
Regions == {MgmtRegion} \union Range(ChannelRegion)
NoChild == 0

\* sChannelEventTracker: -1 channels until the events are sent.
Untried == [nChannels |-> -1, nSuccesses |-> 0, nFailures |-> 0]
Opened(n) == [nChannels |-> n, nSuccesses |-> 0, nFailures |-> 0]

\* One more request may fail.
Shortage ==
  Cardinality(missed \union unsent
              \union {r \in Requests : \E i \in DOMAIN answers[r] :
                        answers[r][i].error \in {"NOT_FOUND", "NO_MATCH", "MEMORY_NOMEM"}}) < plan.faults

Init ==
  /\ plan \in Plans
  /\ asked = {} /\ missed = {} /\ unsent = {} /\ overlapped = {}
  /\ queues = [zasync |-> <<>>, zudi |-> <<>>, zum |-> <<>>]
  /\ ctxt = [r \in Requests |-> [ibind |-> Untried, pbind |-> Untried, ids |-> <<>>, buffer |-> "none"]]
  /\ answers = [r \in Requests |-> <<>>]
  /\ connected = FALSE /\ mgmtContext = FALSE
  /\ regionQs = [g \in Regions |-> <<>>]
  /\ held = {} /\ currDevIdx = 0 /\ posted = {} /\ children = <<>>

-----------------------------------------------------------------------------
(* Messages.                                                               *)

Message(r, op, by, arg) == [r |-> r, op |-> op, by |-> by, arg |-> arg]
Reply(x, error, status, child) ==
  [r |-> x.r, op |-> x.op, by |-> x.by, error |-> error, status |-> status, child |-> child]

\* The destructor of AsyncResponse: the context goes to the client, or to
\* the thread itself with the callback that continues the request.
Respond(qs, rep) ==
  IF rep.by = "client"
  THEN /\ queues' = qs
       /\ answers' = [answers EXCEPT ![rep.r] = Append(@, [error |-> rep.error, status |-> rep.status])]
  ELSE /\ queues' = [qs EXCEPT !.zum = Append(@, rep)]
       /\ UNCHANGED answers

AnswerClient(qs, r, error, status) ==
  Respond(qs, [r |-> r, op |-> OpOf[r], by |-> "client", error |-> error, status |-> status, child |-> NoChild])

\* createServerRequestMsg and the front end's send: a request to the thread,
\* or none when there is no memory for it.
Submit(qs, sent, dropped) ==
  /\ dropped # {} => Shortage
  /\ queues' = [qs EXCEPT !.zasync = @ \o sent]
  /\ missed' = missed \union {x.r : x \in dropped}

SubmitOne(qs, x) == Submit(qs, <<x>>, {}) \/ Submit(qs, <<>>, {x})

\* A message nobody answers.
Forget(qs, x) == Shortage /\ queues' = qs /\ missed' = missed \union {x.r}

\* The requests the front end makes; those of a client are answered to it.
startDeviceRequest(r) == Message(r, "start", "client", "START")
enumerateChildrenRequest(r) == Message(r, "enumerate_children", "client", "START")
postManagementCbRequest(r) == Message(r, "post_management_cb", "client", "NEW")
deviceManagementRequest(r) == Message(r, "devmgmt", "client", "PREPARE_TO_SUSPEND")
finalCleanupRequest(r) == Message(r, "final_cleanup", "client", "none")
usageIndication(r, by) == Message(r, "usage", by, "NORMAL")
enumerateRequest(r, by, level) == Message(r, "enumerate", by, level)
channelEventIndication(r, by, c) == Message(r, "event", by, c)

-----------------------------------------------------------------------------
(* Starting a device.                                                      *)

\* FloodplainnStream::connect: a new channel, whatever there was.
connect == connected' = TRUE /\ mgmtContext' = FALSE

startDeviceReq(qs, x) ==
  \/ Forget(qs, x) /\ UNCHANGED <<ctxt, answers, connected, mgmtContext>>
  \/ \E error \in {"NOT_FOUND", "NO_MATCH"} :                       \* getDevice, connect
       Shortage /\ AnswerClient(qs, x.r, error, "none") /\ UNCHANGED <<ctxt, missed, connected, mgmtContext>>
  \/ /\ connect
     /\ SubmitOne(qs, usageIndication(x.r, "start1"))
     /\ UNCHANGED <<ctxt, answers>>

\* The channels of a kind are told that they are bound, each with a callback
\* to the same function; the events that find no memory never arrive.
TellBound(qs, r, chans, by) ==
  \E sent \in SUBSET Range(chans) :
    LET Sent(c) == c \in sent
        Event(c) == channelEventIndication(r, by, c)
        told == SelectSeq(chans, Sent)
    IN Submit(qs, [i \in DOMAIN told |-> Event(told[i])], {Event(c) : c \in Range(chans) \ sent})

startDeviceReq3Done(qs, r) == AnswerClient(qs, r, "SUCCESS", "none") /\ UNCHANGED missed

\* The second half of startDeviceReq2: every internal channel has answered.
InternalChannelsAnswered(qs, r, ibind) ==
  IF ibind.nSuccesses < ibind.nChannels
  THEN /\ ctxt' = [ctxt EXCEPT ![r].ibind = ibind]
       /\ AnswerClient(qs, r, "INITIALIZATION_FAILURE", "none")
       /\ UNCHANGED missed
  ELSE /\ ctxt' = [ctxt EXCEPT ![r].ibind = ibind, ![r].pbind = Opened(Len(Parents))]
       /\ IF Parents = <<>>
          THEN startDeviceReq3Done(qs, r)
          ELSE TellBound(qs, r, Parents, "start3") /\ UNCHANGED answers

startDeviceReq1(qs, x) ==
  IF Internal = <<>>
  THEN InternalChannelsAnswered(qs, x.r, Opened(0))
  ELSE /\ ctxt' = [ctxt EXCEPT ![x.r].ibind = Opened(Len(Internal))]
       /\ TellBound(qs, x.r, Internal, "start2")
       /\ UNCHANGED answers

\* One more answer: only the status is looked at, not the error.
Counted(t, x) ==
  IF x.status = "OK" THEN [t EXCEPT !.nSuccesses = @ + 1] ELSE [t EXCEPT !.nFailures = @ + 1]

AllCounted_FirstAnswer(t) == TRUE
AllCounted(t) == t.nSuccesses + t.nFailures >= t.nChannels

startDeviceReq2(qs, x) ==
  LET ibind == Counted(ctxt[x.r].ibind, x) IN
  IF AllCounted(ibind)
  THEN InternalChannelsAnswered(qs, x.r, ibind)
  ELSE /\ ctxt' = [ctxt EXCEPT ![x.r].ibind = ibind]
       /\ queues' = qs /\ UNCHANGED <<answers, missed>>

startDeviceReq3(qs, x) ==
  LET pbind == Counted(ctxt[x.r].pbind, x) IN
  /\ ctxt' = [ctxt EXCEPT ![x.r].pbind = pbind]
  /\ IF AllCounted(pbind)
     THEN startDeviceReq3Done(qs, x.r)
     ELSE queues' = qs /\ UNCHANGED <<answers, missed>>

-----------------------------------------------------------------------------
(* Enumerating the children, and leaving a block for later ones.           *)

enumerateChildrenReq(qs, x) ==
  \/ Forget(qs, x) /\ UNCHANGED <<ctxt, answers>>
  \/ /\ Shortage /\ \E error \in {"NOT_FOUND", "MEMORY_NOMEM"} : AnswerClient(qs, x.r, error, "none")
     /\ UNCHANGED <<ctxt, missed>>
  \/ /\ ctxt' = [ctxt EXCEPT ![x.r].buffer = "held", ![x.r].ids = <<>>]
     /\ SubmitOne(qs, enumerateRequest(x.r, "enum1", "START"))
     /\ UNCHANGED answers

postManagementCbReq(qs, x) ==
  \/ Forget(qs, x) /\ UNCHANGED <<ctxt, answers>>
  \/ Shortage /\ AnswerClient(qs, x.r, "NOT_FOUND", "none") /\ UNCHANGED <<ctxt, missed>>
  \/ SubmitOne(qs, enumerateRequest(x.r, "post1", "NEW")) /\ UNCHANGED <<ctxt, answers>>

\* A child was reported: its meta is unknown, it cannot be created (either
\* way nothing is added), or it is created, and then its attributes are
\* added or there is no memory for them.
ChildReported(qs, x, level, Collected(_)) ==
  \/ /\ Shortage /\ \E error \in {"NOT_FOUND", "MEMORY_NOMEM"} : AnswerClient(qs, x.r, error, "OK")
     /\ UNCHANGED <<ctxt, children, missed>>
  \/ /\ Len(children) < MaxChildren
     /\ children' = Append(children, x.child)
     /\ ctxt' = [ctxt EXCEPT ![x.r].ids = Collected(@)]
     /\ \/ Shortage /\ AnswerClient(qs, x.r, "MEMORY_NOMEM", "OK") /\ UNCHANGED missed
        \/ SubmitOne(qs, enumerateRequest(x.r, x.by, level)) /\ UNCHANGED answers

\* The other results end the enumeration; no error was ever set, so what the
\* client finds there is undefined.
enumerateChildrenReq1(qs, x) ==
  IF x.status = "OK"
  THEN LET Collected(ids) == Append(ids, x.child) IN ChildReported(qs, x, "NEXT", Collected)
  ELSE /\ ctxt' = IF x.status = "LEAF"
                  THEN [ctxt EXCEPT ![x.r].ids = <<>>, ![x.r].buffer = "released"]
                  ELSE ctxt
       /\ AnswerClient(qs, x.r, "undefined", x.status)
       /\ UNCHANGED <<children, missed>>

postManagementCbReq1(qs, x) ==
  IF x.status = "OK"
  THEN LET Collected(ids) == Append(ids, x.child) IN ChildReported(qs, x, "NEW", Collected)
  ELSE AnswerClient(qs, x.r, "undefined", x.status) /\ UNCHANGED <<ctxt, children, missed>>

-----------------------------------------------------------------------------
(* Calls across the channels.                                              *)

Tell(g, x) == regionQs' = [regionQs EXCEPT ![g] = Append(@, x)]

\* What the fields for the device's answer may hold when it never came.
Undefined(op) ==
  CASE op = "enumerate" -> {"OK", "LEAF", "DONE", "FAILED"}
    [] op = "event"     -> {"OK", "FAILED"}
    [] OTHER            -> {"none"}

\* A send that fails is answered, with whatever the fields of the answer
\* happened to hold.
SendFails(qs, x, error) ==
  /\ error = "MEMORY_NOMEM" => Shortage
  /\ \E status \in Undefined(x.op) : Respond(qs, Reply(x, error, status, NoChild))
  /\ unsent' = unsent \union {x.r}
  /\ UNCHANGED <<regionQs, missed>>

\* A call over the management channel: there is none before the device was
\* started, and the message takes the private data of the endpoint along.
MgmtSend(qs, x) ==
  \/ Forget(qs, x) /\ UNCHANGED <<answers, regionQs, unsent>>
  \/ ~connected /\ SendFails(qs, x, "INVALID_STATE")
  \/ connected /\ SendFails(qs, x, "MEMORY_NOMEM")
  \/ /\ connected
     /\ Tell(MgmtRegion, [m |-> x, context |-> mgmtContext])
     /\ queues' = qs /\ UNCHANGED <<answers, missed, unsent>>

usageInd(qs, x) == x.op = "usage" /\ MgmtSend(qs, x)
enumerateReq(qs, x) == x.op = "enumerate" /\ MgmtSend(qs, x)
deviceManagementReq(qs, x) == x.op = "devmgmt" /\ MgmtSend(qs, x)
finalCleanupReq(qs, x) == x.op = "final_cleanup" /\ MgmtSend(qs, x)

channelEventInd(qs, x) ==
  \/ Forget(qs, x) /\ UNCHANGED <<answers, regionQs, unsent>>
  \/ SendFails(qs, x, "MEMORY_NOMEM")
  \/ /\ Tell(ChannelRegion[x.arg], [m |-> x, context |-> TRUE])
     /\ queues' = qs /\ UNCHANGED <<answers, missed, unsent>>

\* What the device says becomes the answer.
DeviceAnswered(qs, x) == Respond(qs, x) /\ UNCHANGED unsent

usageRes(qs, x) == x.op = "usage" /\ DeviceAnswered(qs, x)
deviceManagementAck(qs, x) == x.op = "devmgmt" /\ DeviceAnswered(qs, x)
finalCleanupAck(qs, x) == x.op = "final_cleanup" /\ DeviceAnswered(qs, x)
channelEventComplete(qs, x) == x.op = "event" /\ DeviceAnswered(qs, x)

enumerateAck(qs, x) ==
  /\ x.op = "enumerate"
  /\ \/ DeviceAnswered(qs, x)
     \/ /\ Shortage                                      \* no memory for the attributes
        /\ \E status \in Undefined(x.op) :
             Respond(qs, [x EXCEPT !.error = "MEMORY_NOMEM", !.status = status])
        /\ unsent' = unsent \union {x.r}

-----------------------------------------------------------------------------
(* The thread: Zum::main and zasyncHandler.                                *)

zasyncHandler ==
  /\ queues.zasync # <<>>
  /\ LET x == Head(queues.zasync)
         qs == [queues EXCEPT !.zasync = Tail(@)]
     IN \/ x.op = "start" /\ startDeviceReq(qs, x) /\ UNCHANGED <<regionQs, unsent>>
        \/ /\ x.op = "enumerate_children" /\ enumerateChildrenReq(qs, x)
           /\ UNCHANGED <<connected, mgmtContext, regionQs, unsent>>
        \/ /\ x.op = "post_management_cb" /\ postManagementCbReq(qs, x)
           /\ UNCHANGED <<connected, mgmtContext, regionQs, unsent>>
        \/ /\ usageInd(qs, x) \/ enumerateReq(qs, x) \/ deviceManagementReq(qs, x) \/ finalCleanupReq(qs, x)
           /\ UNCHANGED <<ctxt, connected, mgmtContext>>
        \/ x.op = "event" /\ channelEventInd(qs, x) /\ UNCHANGED <<ctxt, connected, mgmtContext>>
  /\ UNCHANGED <<plan, asked, held, currDevIdx, posted, children, overlapped>>

zudiCallback ==
  /\ queues.zasync = <<>> /\ queues.zudi # <<>>
  /\ LET x == Head(queues.zudi)
         qs == [queues EXCEPT !.zudi = Tail(@)]
     IN usageRes(qs, x) \/ enumerateAck(qs, x) \/ deviceManagementAck(qs, x) \/ finalCleanupAck(qs, x)
        \/ channelEventComplete(qs, x)
  /\ UNCHANGED <<plan, asked, ctxt, connected, mgmtContext, regionQs, held, currDevIdx, posted, children,
                 overlapped, missed>>

zumCallback ==
  /\ queues.zasync = <<>> /\ queues.zudi = <<>> /\ queues.zum # <<>>
  /\ LET x == Head(queues.zum)
         qs == [queues EXCEPT !.zum = Tail(@)]
     IN \/ x.by = "start1" /\ startDeviceReq1(qs, x) /\ UNCHANGED children
        \/ x.by = "start2" /\ startDeviceReq2(qs, x) /\ UNCHANGED children
        \/ x.by = "start3" /\ startDeviceReq3(qs, x) /\ UNCHANGED children
        \/ x.by = "enum1" /\ enumerateChildrenReq1(qs, x)
        \/ x.by = "post1" /\ postManagementCbReq1(qs, x)
  /\ UNCHANGED <<plan, asked, connected, mgmtContext, regionQs, held, currDevIdx, posted, overlapped, unsent>>

\* A client's call of the front end.
clientReq(r) ==
  LET others == {q \in asked : answers[q] = <<>>} IN
  /\ r \in plan.clients \ asked
  /\ asked' = asked \union {r}
  /\ overlapped' = overlapped \union IF others = {} THEN {} ELSE {r} \union others
  /\ \E x \in {startDeviceRequest(r), enumerateChildrenRequest(r), postManagementCbRequest(r),
               deviceManagementRequest(r), finalCleanupRequest(r)} :
       x.op = OpOf[r] /\ SubmitOne(queues, x)
  /\ UNCHANGED <<plan, ctxt, answers, connected, mgmtContext, regionQs, held, currDevIdx, posted, children,
                 unsent>>

-----------------------------------------------------------------------------
(* The regions' threads.                                                   *)

\* An answer across the management channel, which may not be sent.
Answered(x, status, child) ==
  \/ /\ queues' = [queues EXCEPT !.zudi = Append(@, Reply(x, "SUCCESS", status, child))]
     /\ UNCHANGED missed
  \/ Shortage /\ queues' = queues /\ missed' = missed \union {x.r}

\* zrootdev_usage_ind clears what the driver knows of an enumeration, the
\* block left with it included.
zrootdev_usage_ind(x) ==
  /\ currDevIdx' = 0 /\ posted' = {}
  /\ \/ /\ queues' = [queues EXCEPT !.zudi = Append(@, Reply(x, "SUCCESS", "none", NoChild))]
        /\ missed' = missed \union posted
     \/ Shortage /\ queues' = queues /\ missed' = missed \union posted \union {x.r}

zrootdev_enumerate_req(x) ==
  LET idx == IF x.arg = "START" THEN 0 ELSE currDevIdx IN
  \/ idx < NDevs /\ currDevIdx' = idx + 1 /\ Answered(x, "OK", idx + 1) /\ UNCHANGED posted
  \/ /\ idx >= NDevs /\ x.arg = "NEW"                    \* the block of an earlier caller is dropped
     /\ currDevIdx' = idx /\ posted' = {x.r} /\ missed' = missed \union (posted \ {x.r})
     /\ UNCHANGED queues
  \/ idx >= NDevs /\ x.arg # "NEW" /\ currDevIdx' = idx /\ Answered(x, "DONE", NoChild) /\ UNCHANGED posted

zrootdev_devmgmt_req(x) == Answered(x, "none", NoChild) /\ UNCHANGED <<currDevIdx, posted>>
zrootdev_final_cleanup_req(x) == Answered(x, "none", NoChild) /\ UNCHANGED <<currDevIdx, posted>>

\* The first messages of the management channel find no context at its
\* endpoint and allocate one.
allocateEndpointContext(x) == mgmtContext' = (mgmtContext \/ x.op # "event")

mgmtMeiCall(x) ==
  /\ \/ x.op = "usage" /\ zrootdev_usage_ind(x)
     \/ x.op = "enumerate" /\ zrootdev_enumerate_req(x)
     \/ x.op = "devmgmt" /\ zrootdev_devmgmt_req(x)
     \/ x.op = "final_cleanup" /\ zrootdev_final_cleanup_req(x)
  /\ UNCHANGED held

eventIndMeiCall(x) ==
  x.op = "event" /\ held' = held \union {x} /\ UNCHANGED <<queues, missed, currDevIdx, posted>>

\* channel::handler: a message it cannot serve is dropped without an answer.
channelHandler(g) ==
  /\ regionQs[g] # <<>>
  /\ regionQs' = [regionQs EXCEPT ![g] = Tail(@)]
  /\ LET x == Head(regionQs[g]).m IN
     \/ /\ Shortage /\ missed' = missed \union {x.r}
        /\ mgmtContext' \in {mgmtContext, TRUE}
        /\ UNCHANGED <<queues, held, currDevIdx, posted>>
     \/ allocateEndpointContext(x) /\ (mgmtMeiCall(x) \/ eventIndMeiCall(x))
  /\ UNCHANGED <<plan, asked, ctxt, answers, connected, children, overlapped, unsent>>

\* A driver completes a channel event, in its own time.
udi_channel_event_complete(x) ==
  /\ x \in held
  /\ held' = held \ {x}
  /\ \E status \in {"OK", "FAILED"} : Answered(x, status, NoChild)
  /\ UNCHANGED <<plan, asked, ctxt, answers, connected, mgmtContext, regionQs, currDevIdx, posted, children,
                 overlapped, unsent>>

Next ==
  \/ \E r \in Requests : clientReq(r)
  \/ zasyncHandler \/ zudiCallback \/ zumCallback
  \/ \E g \in Regions : channelHandler(g)
  \/ \E x \in held : udi_channel_event_complete(x)

Spec == Init /\ [][Next]_zumVars

-----------------------------------------------------------------------------
(* Properties.                                                             *)

Starts == {r \in Requests : OpOf[r] = "start"}
Quiet == (\A q \in DOMAIN queues : queues[q] = <<>>) /\ (\A g \in Regions : regionQs[g] = <<>>) /\ held = {}

\* The channel events of request r that are on their way, there or back.
InFlight(r, by) ==
  LET Of(x) == x.r = r /\ x.by = by
      OfMessage(y) == Of(y.m)
      Count(s) == Len(SelectSeq(s, Of))
      RECURSIVE InRegions(_)
      InRegions(S) == IF S = {} THEN 0
                      ELSE LET g == CHOOSE g \in S : TRUE
                           IN Len(SelectSeq(regionQs[g], OfMessage)) + InRegions(S \ {g})
  IN Count(queues.zasync) + Count(queues.zudi) + Count(queues.zum)
     + Cardinality({x \in held : Of(x)}) + InRegions(Regions)

Accounted(t, n) == t.nChannels >= 0 => t.nChannels - t.nSuccesses - t.nFailures = n

\* Every request is answered once, whatever else the thread serves in
\* between: never twice, and never not at all unless a message for it found
\* no memory or its block waits in the driver. A start keeps account of
\* every channel event it sent; it tells no parent channel before each
\* internal channel was bound, reports a failure only after one, and
\* success only when every channel has answered (zumBackEnd.cpp).
RequestsAnswered ==
  /\ \A r \in Requests : Len(answers[r]) <= 1
  /\ Quiet => \A r \in asked : answers[r] # <<>> \/ r \in missed \/ r \in posted
  /\ \A r \in Starts :
       LET ibind == ctxt[r].ibind
           pbind == ctxt[r].pbind
       IN /\ r \notin missed => /\ Accounted(ibind, InFlight(r, "start2"))
                               /\ Accounted(pbind, InFlight(r, "start3"))
          /\ InFlight(r, "start3") > 0 => ibind = [Opened(Len(Internal)) EXCEPT !.nSuccesses = Len(Internal)]
          /\ \A i \in DOMAIN answers[r] :
               /\ answers[r][i].error = "INITIALIZATION_FAILURE" => ibind.nFailures > 0 /\ pbind = Untried
               /\ answers[r][i].error = "SUCCESS" =>
                    ibind.nSuccesses = Len(Internal) /\ pbind.nSuccesses + pbind.nFailures = Len(Parents)

\* Every child created was named by the driver and is reported by the
\* request that created it, and a request that had the device to itself and
\* ends with DONE reports every device of the driver, in order.
ChildrenReported ==
  /\ unsent = {} =>
       /\ NoChild \notin Range(children)
       /\ \A d \in 1 .. NDevs :
            Cardinality({i \in DOMAIN children : children[i] = d})
              = Cardinality({<<r, i>> \in Requests \X (1 .. MaxChildren) :
                              i \in DOMAIN ctxt[r].ids /\ ctxt[r].ids[i] = d})
  /\ \A r \in Requests \ (overlapped \union unsent) :
       answers[r] # <<>> /\ OpOf[r] = "enumerate_children" /\ answers[r][1].status = "DONE" =>
         ctxt[r].ids = [i \in 1 .. NDevs |-> i]
============================================================================
