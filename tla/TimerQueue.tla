----------------------------- MODULE TimerQueue ----------------------------
(***************************************************************************)
(* TimerStream, TimerQueue and the timer event processor of TimerTrib: the *)
(* path of a timer request from createOneshotEvent() to its expiry.        *)
(*                                                                         *)
(* A process keeps its requests in its stream, and the kernel has the first*)
(* of them in one of the timer queues.  The event processor takes the      *)
(* devices' IRQ events and expires what is due; then it drops the stream's *)
(* first request and puts the next one in a queue.                         *)
(*                                                                         *)
(* The stream lock's critical sections are steps.  So are those of a       *)
(* queue's lock, except in tick(), which holds it while it looks; one      *)
(* insertion takes no lock.  Threads are those that create requests, and   *)
(* Processor.  Lists of three requests at most are sorted                  *)
(* (SortedHeapDoubleList).                                                 *)
(***************************************************************************)
EXTENDS Integers, SequencesExt, FiniteSetsExt

CONSTANTS
  Procs,
  Creators,     \* threads
  ProcOf,       \* the process of a thread
  Processor,    \* eventProcessor.task
  Periods,      \* the periods of the latched queues, longest first
  Delays,       \* when requests expire, relative to now; less than 0 is past
  MaxRequests,  \* bound on the number of requests
  MaxTime,      \* bound on the clock
  OneCpu,       \* creators run only while the processor, their superior, sleeps
  NoMemory,     \* whether addItem() on a queue may fail
  ClockQueues,  \* the queues on whose device the clock routine is installed
  NULL, Garbage

Queues == DOMAIN Periods
Requests == 1 .. MaxRequests
Threads == Creators \cup {Processor}

ASSUME TimerAssumption ==
  /\ \A q \in Queues : Periods[q] \in Nat
  /\ MaxRequests \in Nat /\ MaxTime \in Nat /\ OneCpu \in BOOLEAN /\ NoMemory \in BOOLEAN
  /\ Processor \notin Creators /\ \A c \in Creators : ProcOf[c] \in Procs

VARIABLES
  now,
  created,        \* how many requests
  proc, placed, expires, currentQueue,    \* the fields of a request
  requests,       \* requests[p]: the stream's list
  requestQueue,   \* requestQueue[q]: the queue's list
  locked,         \* the queues whose lock tick() holds
  messages,       \* the queues whose device sends IRQ events
  event,          \* the stamp of the last IRQ event that waits for q, or NULL
  pc, my,         \* of each thread: where it is, and the request it inserts
  tickQ, irqStamp, request,     \* the locals of tick()
  expired, deleted,             \* requests whose expiry was sent; freed ones
  failed          \* history: addItem() had no memory, an assertion failed, a
                  \* wild pointer was followed

reqVars == <<proc, placed, expires>>
tickVars == <<tickQ, irqStamp, request>>
vars == <<now, created, proc, placed, expires, currentQueue, requests, requestQueue, locked,
          messages, event, pc, my, tickQ, irqStamp, request, expired, deleted, failed>>

Init ==
  /\ now = 0 /\ created = 0
  /\ proc = [r \in Requests |-> NULL]
  /\ placed = [r \in Requests |-> 0] /\ expires = [r \in Requests |-> 0]
  /\ currentQueue = [r \in Requests |-> Garbage]
  /\ requests = [p \in Procs |-> <<>>]
  /\ requestQueue = [q \in Queues |-> <<>>]
  /\ locked = {} /\ messages = {} /\ event = [q \in Queues |-> NULL]
  /\ pc = [t \in Threads |-> "idle"] /\ my = [t \in Threads |-> NULL]
  /\ tickQ = NULL /\ irqStamp = 0 /\ request = NULL
  /\ expired = {} /\ deleted = {} /\ failed = {}

Goto(t, l) == pc' = [pc EXCEPT ![t] = l]

\* t is at l, and may run.
At(t, l) == pc[t] = l /\ (OneCpu /\ t # Processor => pc[Processor] = "blocked")

\* addItem(): after what expires no later.
AddItem(s, r) ==
  LET n == Cardinality({i \in DOMAIN s : expires[s[i]] <= expires[r]})
  IN InsertAt(s, n + 1, r)
-----------------------------------------------------------------------------
(* disable() and the assertion in it.                                      *)

Disable(q) ==
  /\ messages' = messages \ {q}
  /\ failed' = IF q \in ClockQueues THEN failed ELSE failed \cup {"assert"}
-----------------------------------------------------------------------------
(* createOneshotEvent() by thread c, up to insertTimerQueueRequestObject() *)

CreateOneshotEvent(c, d) ==
  LET r == created + 1 IN
  /\ c \in Creators /\ At(c, "idle") /\ created < MaxRequests /\ now + d <= MaxTime
  /\ created' = r
  /\ proc' = [proc EXCEPT ![r] = ProcOf[c]]
  /\ placed' = [placed EXCEPT ![r] = now]
  /\ expires' = [expires EXCEPT ![r] = now + d]
  /\ my' = [my EXCEPT ![c] = r]
  /\ Goto(c, "create")
  /\ UNCHANGED <<now, currentQueue, requests, requestQueue, locked, messages, event, tickVars,
                 expired, deleted, failed>>

\* The process has no other request.
CreateFirst(c) ==
  LET p == ProcOf[c] IN
  /\ At(c, "create") /\ requests[p] = <<>>
  /\ requests' = [requests EXCEPT ![p] = <<my[c]>>]
  /\ Goto(c, "insert")
  /\ UNCHANGED <<now, created, reqVars, currentQueue, requestQueue, locked, messages, event, my,
                 tickVars, expired, deleted, failed>>

\* Variant: the first stays in its queue.
CreateSoonerKeeps(c) ==
  LET p == ProcOf[c] IN
  /\ At(c, "create") /\ requests[p] # <<>> /\ expires[my[c]] < expires[Head(requests[p])]
  /\ requests' = [requests EXCEPT ![p] = AddItem(@, my[c])]
  /\ Goto(c, "insert")
  /\ UNCHANGED <<now, created, reqVars, currentQueue, requestQueue, locked, messages, event, my,
                 tickVars, expired, deleted, failed>>

\* It expires before the first: cancelTimerQueueRequestObject() that one.
CreateSooner(c) ==
  LET p == ProcOf[c]
      r == Head(requests[p])
      q == currentQueue[r]
  IN
  /\ At(c, "create") /\ requests[p] # <<>> /\ expires[my[c]] < expires[r]
  /\ q \in Queues /\ q \notin locked
  /\ requestQueue' = [requestQueue EXCEPT ![q] = RemoveFirst(@, r)]
  /\ currentQueue' = [currentQueue EXCEPT ![r] = NULL]
  /\ IF requestQueue'[q] = <<>> THEN Disable(q) ELSE UNCHANGED <<messages, failed>>
  /\ requests' = [requests EXCEPT ![p] = AddItem(@, my[c])]
  /\ Goto(c, "insert")
  /\ UNCHANGED <<now, created, reqVars, locked, event, my, tickVars, expired, deleted>>

\* The first is in no queue: cancel() follows a pointer that is NULL, or that
\* the constructor left unset.
CreateWild(c) ==
  LET r == Head(requests[ProcOf[c]]) IN
  /\ At(c, "create") /\ requests[ProcOf[c]] # <<>> /\ expires[my[c]] < expires[r]
  /\ currentQueue[r] \notin Queues
  /\ failed' = failed \cup {"wild"}
  /\ Goto(c, "crashed")
  /\ UNCHANGED <<now, created, reqVars, currentQueue, requests, requestQueue, locked, messages,
                 event, my, tickVars, expired, deleted>>

CreateLater(c) ==
  LET p == ProcOf[c] IN
  /\ At(c, "create") /\ requests[p] # <<>>
  /\ expires[my[c]] >= expires[Head(requests[p])]
  /\ requests' = [requests EXCEPT ![p] = AddItem(@, my[c])]
  /\ Goto(c, "idle")
  /\ my' = [my EXCEPT ![c] = NULL]
  /\ UNCHANGED <<now, created, reqVars, currentQueue, requestQueue, locked, messages, event,
                 tickVars, expired, deleted, failed>>
-----------------------------------------------------------------------------
(* insertTimerQueueRequestObject(my[t]), by a creator or the processor.    *)

Optimal(r) == {q \in Queues : placed[r] + Periods[q] <= expires[r]}

Return(t) ==
  /\ Goto(t, IF t = Processor THEN "delete" ELSE "idle")
  /\ my' = [my EXCEPT ![t] = NULL]

PutInQueue(r, q) ==
  /\ currentQueue' = [currentQueue EXCEPT ![r] = q]
  /\ requestQueue' = [requestQueue EXCEPT ![q] = AddItem(@, r)]

\* Variant: the device is not turned on.
InsertNotEnabled(t) ==
  LET q == Min(Optimal(my[t])) IN
  /\ At(t, "insert") /\ Optimal(my[t]) # {} /\ q \notin locked
  /\ PutInQueue(my[t], q)
  /\ Return(t)
  /\ UNCHANGED <<now, created, reqVars, requests, locked, messages, event, tickVars, expired,
                 deleted, failed>>

\* In the slowest queue that the request can spend a tick in.
Insert(t) ==
  LET q == Min(Optimal(my[t])) IN
  /\ At(t, "insert") /\ Optimal(my[t]) # {} /\ q \notin locked
  /\ PutInQueue(my[t], q)
  /\ messages' = messages \cup {q}
  /\ Return(t)
  /\ UNCHANGED <<now, created, reqVars, requests, locked, event, tickVars, expired, deleted,
                 failed>>

\* In the fastest, for lack of such a one, and without its lock.
InsertSuboptimal(t) ==
  /\ At(t, "insert") /\ Optimal(my[t]) = {}
  /\ PutInQueue(my[t], Max(Queues))
  /\ my' = [my EXCEPT ![t] = NULL]
  /\ Goto(t, "enable")
  /\ UNCHANGED <<now, created, reqVars, requests, locked, messages, event, tickVars, expired,
                 deleted, failed>>

\* The caller gets an error; the request stays in the stream.
InsertFails(t) ==
  /\ At(t, "insert") /\ NoMemory
  /\ Optimal(my[t]) # {} => Min(Optimal(my[t])) \notin locked
  /\ currentQueue' = [currentQueue EXCEPT ![my[t]] = NULL]
  /\ failed' = failed \cup {"nomem"}
  /\ Return(t)
  /\ UNCHANGED <<now, created, reqVars, requests, requestQueue, locked, messages, event, tickVars,
                 expired, deleted>>

InsertEnable(t) ==
  /\ At(t, "enable")
  /\ messages' = messages \cup {Max(Queues)}
  /\ Return(t)
  /\ UNCHANGED <<now, created, reqVars, currentQueue, requests, requestQueue, locked, event,
                 tickVars, expired, deleted, failed>>
-----------------------------------------------------------------------------
(* The event processor: tick(), with the queue's lock held at "head",      *)
(* "next" and "disable".                                                   *)

\* It has found no event; then it blocks, without another look.
NoEvent ==
  /\ At(Processor, "idle") /\ \A q \in Queues : event[q] = NULL
  /\ Goto(Processor, "block")
  /\ UNCHANGED <<now, created, reqVars, currentQueue, requests, requestQueue, locked, messages,
                 event, my, tickVars, expired, deleted, failed>>

BlockProcessor ==
  /\ At(Processor, "block")
  /\ Goto(Processor, "blocked")
  /\ UNCHANGED <<now, created, reqVars, currentQueue, requests, requestQueue, locked, messages,
                 event, my, tickVars, expired, deleted, failed>>

Tick(q) ==
  /\ At(Processor, "idle") /\ event[q] # NULL /\ q \notin locked
  /\ tickQ' = q /\ irqStamp' = event[q]
  /\ event' = [event EXCEPT ![q] = NULL]
  /\ locked' = locked \cup {q}
  /\ Goto(Processor, "head")
  /\ UNCHANGED <<now, created, reqVars, currentQueue, requests, requestQueue, messages, my,
                 request, expired, deleted, failed>>

\* Variant: a request that expires at the interrupt is not due.
DueLater == requestQueue[tickQ] # <<>> /\ expires[Head(requestQueue[tickQ])] < irqStamp

Due == requestQueue[tickQ] # <<>> /\ expires[Head(requestQueue[tickQ])] <= irqStamp

\* Nothing in the queue is due.
TickReturn ==
  /\ At(Processor, "head") /\ ~ Due
  /\ locked' = locked \ {tickQ}
  /\ tickQ' = NULL /\ irqStamp' = 0
  /\ Goto(Processor, "idle")
  /\ UNCHANGED <<now, created, reqVars, currentQueue, requests, requestQueue, messages, event, my,
                 request, expired, deleted, failed>>

\* The request is out of the queue, and its target has the message.
TickExpire ==
  /\ At(Processor, "head") /\ Due
  /\ request' = Head(requestQueue[tickQ])
  /\ requestQueue' = [requestQueue EXCEPT ![tickQ] = Tail(@)]
  /\ locked' = locked \ {tickQ}
  /\ expired' = expired \cup {request'}
  /\ Goto(Processor, "pop")
  /\ UNCHANGED <<now, created, reqVars, currentQueue, requests, messages, event, my, tickQ,
                 irqStamp, deleted, failed>>

\* Variant: the stream keeps the request.
TickPopNone ==
  /\ At(Processor, "pop")
  /\ Goto(Processor, "getHead")
  /\ UNCHANGED <<now, created, reqVars, currentQueue, requests, requestQueue, locked, messages,
                 event, my, tickVars, expired, deleted, failed>>

\* timerRequestTimeoutNotification(): under the stream's lock
TickPop ==
  LET p == proc[request] IN
  /\ At(Processor, "pop")
  /\ requests' = [requests EXCEPT ![p] = IF @ = <<>> THEN @ ELSE Tail(@)]
  /\ Goto(Processor, IF requests[p] = <<>> THEN "delete" ELSE "getHead")
  /\ UNCHANGED <<now, created, reqVars, currentQueue, requestQueue, locked, messages, event, my,
                 tickVars, expired, deleted, failed>>

\* and without it.
TickGetHead ==
  LET s == requests[proc[request]] IN
  /\ At(Processor, "getHead")
  /\ Goto(Processor, IF s = <<>> THEN "delete" ELSE "insert")
  /\ my' = [my EXCEPT ![Processor] = IF s = <<>> THEN NULL ELSE Head(s)]
  /\ UNCHANGED <<now, created, reqVars, currentQueue, requests, requestQueue, locked, messages,
                 event, tickVars, expired, deleted, failed>>

TickDelete ==
  /\ At(Processor, "delete") /\ tickQ \notin locked
  /\ deleted' = deleted \cup {request}
  /\ request' = NULL
  /\ locked' = locked \cup {tickQ}
  /\ Goto(Processor, IF requestQueue[tickQ] = <<>> THEN "disable" ELSE "head")
  /\ UNCHANGED <<now, created, reqVars, currentQueue, requests, requestQueue, messages, event, my,
                 tickQ, irqStamp, expired, failed>>

TickDisable ==
  /\ At(Processor, "disable")
  /\ Disable(tickQ)
  /\ locked' = locked \ {tickQ}
  /\ tickQ' = NULL /\ irqStamp' = 0
  /\ Goto(Processor, "idle")
  /\ UNCHANGED <<now, created, reqVars, currentQueue, requests, requestQueue, event, my, request,
                 expired, deleted>>
-----------------------------------------------------------------------------
(* The devices and the clock.                                              *)

\* A device whose IRQ events are enabled sends one, and wakes the processor.
Irq(q) ==
  /\ q \in messages
  /\ event' = [event EXCEPT ![q] = now]
  /\ IF pc[Processor] = "blocked" THEN Goto(Processor, "idle") ELSE UNCHANGED pc
  /\ UNCHANGED <<now, created, reqVars, currentQueue, requests, requestQueue, locked, messages, my,
                 tickVars, expired, deleted, failed>>

ClockTick ==
  /\ now < MaxTime
  /\ now' = now + 1
  /\ UNCHANGED <<created, reqVars, currentQueue, requests, requestQueue, locked, messages, event,
                 pc, my, tickVars, expired, deleted, failed>>

Create(c) == CreateFirst(c) \/ CreateSooner(c) \/ CreateWild(c) \/ CreateLater(c)
InsertStep(t) == Insert(t) \/ InsertSuboptimal(t) \/ InsertFails(t) \/ InsertEnable(t)

ProcessorStep ==
  \/ NoEvent \/ BlockProcessor
  \/ \E q \in Queues : Tick(q)
  \/ TickReturn \/ TickExpire \/ TickPop \/ TickGetHead \/ TickDelete \/ TickDisable
  \/ InsertStep(Processor)

Next ==
  \/ \E c \in Creators :
       \/ \E d \in Delays : CreateOneshotEvent(c, d)
       \/ Create(c) \/ InsertStep(c)
  \/ ProcessorStep
  \/ \E q \in Queues : Irq(q)
  \/ ClockTick

Spec == Init /\ [][Next]_vars

\* Threads go on, the clock runs, enabled devices interrupt.  The processor
\* visits every queue in each pass of its loop, and is faster than its devices:
\* if it goes on looping it blocks, again and again, for want of an event.
Fairness ==
  /\ \A c \in Creators : SF_vars(Create(c) \/ InsertStep(c))
  /\ WF_vars(ProcessorStep) /\ WF_vars(ClockTick)
  /\ \A q \in Queues : WF_vars(Irq(q)) /\ SF_vars(Tick(q))
  /\ []<>(pc[Processor] = "idle") => []<>(pc[Processor] = "blocked")

FairSpec == Spec /\ Fairness
-----------------------------------------------------------------------------
TypeOK ==
  /\ now \in 0 .. MaxTime /\ created \in 0 .. MaxRequests
  /\ \A r \in Requests :
       /\ proc[r] \in Procs \cup {NULL} /\ currentQueue[r] \in Queues \cup {NULL, Garbage}
       /\ placed[r] \in Nat /\ expires[r] \in Int
  /\ \A p \in Procs : ToSet(requests[p]) \subseteq 1 .. created
  /\ \A q \in Queues :
       /\ ToSet(requestQueue[q]) \subseteq 1 .. created /\ event[q] \in 0 .. MaxTime \cup {NULL}
  /\ locked \subseteq {tickQ} /\ tickQ \in Queues \cup {NULL} /\ messages \subseteq Queues
  /\ \A t \in Threads : my[t] \in 1 .. created \cup {NULL}
  /\ irqStamp \in 0 .. MaxTime /\ request \in 1 .. created \cup {NULL}
  /\ deleted \subseteq expired /\ expired \subseteq 1 .. created
  /\ failed \subseteq {"nomem", "assert", "wild"}

InQueue(r) == {q \in Queues : r \in ToSet(requestQueue[q])}

\* The requests of process p in the timer queues, one that is there twice
\* counted twice.
Active(p) ==
  {<<q, i>> \in Queues \X (1 .. MaxRequests + 1) :
     i \in DOMAIN requestQueue[q] /\ proc[requestQueue[q][i]] = p}

\* "The timer queues will only ever have ONE request from any one process
\* inserted at any time."
OnePerProcess == \A p \in Procs : Cardinality(Active(p)) <= 1

\* tick() frees a request when nothing has it any more.  The locks of the
\* stream and the queue are for that.
NoneDangling ==
  \A r \in deleted :
    /\ InQueue(r) = {}
    /\ \A p \in Procs : r \notin ToSet(requests[p])
    /\ \A t \in Threads : my[t] # r

\* A process that has requests has one in a queue, whenever neither its own
\* thread nor the processor is at work, and cancel() goes to the queue that has
\* it: the process is not silenced.  Only an insertion that fails for want of
\* memory does that.
NotSilenced ==
  /\ "wild" \in failed => "nomem" \in failed
  /\ \A p \in Procs :
       /\ requests[p] # <<>> /\ pc[Processor] = "blocked" /\ "nomem" \notin failed
       /\ \A c \in Creators : ProcOf[c] = p => pc[c] \in {"idle", "create"}
       => InQueue(Head(requests[p])) # {}

\* Each request that is made expires, unless an insertion failed.
EveryRequestExpires ==
  \A r \in Requests : created >= r ~> r \in expired \/ "nomem" \in failed

\* tick() leaves no request behind that was due at the interrupt.
TickExpiresAll ==
  [][\A q \in Queues : tickQ = q /\ tickQ' = NULL =>
       \A r \in ToSet(requestQueue'[q]) : expires[r] > irqStamp]_vars
=============================================================================
