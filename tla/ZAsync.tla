------------------------------- MODULE ZAsync -------------------------------
(***************************************************************************)
(* Asynchronous messages between processes, kernel/common/zasyncStream.cpp,*)
(* with the data headers of ipc:: in messageStream.cpp and the shared      *)
(* mappings of arch/i586/wPRanger_lookup.cpp.                              *)
(*                                                                         *)
(* A transfer n copies its data into the header (BUFFER) or lends the      *)
(* sender's memory until it is acknowledged (the two MAP methods).  The    *)
(* handle a receiver is given is the address of the header; an address is  *)
(* used again once the header is freed.  A receiver uses a handle from the *)
(* message that brings it until it acknowledges it.                        *)
(***************************************************************************)
EXTENDS Naturals, Sequences, FiniteSets, SequencesExt

CONSTANTS
  Procs,          \* processes, one thread each
  SameSpace,      \* processes that live in the kernel's address space
  Addresses,      \* addresses of data headers
  Shapes,         \* data: [offset in its page, size]
  Page,           \* bytes of a page
  Budgets         \* bounds of a behaviour: [transfers, connects, faults]

Methods == {"BUFFER", "MAP_AND_COPY", "MAP_AND_READ"}

VARIABLES
  budget,         \* the bounds of this behaviour
  listens,        \* handlerTid is set
  connectionless, \* connections.rsrc.connectionlessListen
  conns,          \* connections.rsrc.pids
  call,           \* a call of connect or respond under way
  queue,          \* ZASYNC messages of each process
  requested,      \* connection requests a process has pulled
  nConnects, nFaults,
  transfers,      \* what was sent: [from, to, method, shape]
  header,         \* address -> transfer, 0 when free
  messages,       \* addresses listed in each stream
  handles,        \* addresses each process was handed and has not acknowledged
  lent,           \* transfers whose sender must keep its memory
  mapped,         \* transfer -> pages mapped for MAP_AND_READ
  spoilt,         \* transfers a mapping of which failed
  hung            \* processes whose connections lock is held for ever

connectVars == <<budget, listens, connectionless, conns, call, requested, nConnects, hung>>
dataVars == <<transfers, header, messages, handles, lent, mapped, spoilt>>
asyncVars == <<connectVars, queue, nFaults, dataVars>>

Idle == [op |-> "none"]

Init ==
  /\ budget \in Budgets
  /\ listens = {} /\ connectionless = {}
  /\ conns = [p \in Procs |-> <<>>] /\ call = [p \in Procs |-> Idle]
  /\ queue = [p \in Procs |-> <<>>] /\ requested = [p \in Procs |-> {}]
  /\ nConnects = 0 /\ nFaults = 0 /\ hung = {}
  /\ transfers = <<>> /\ header = [a \in Addresses |-> 0]
  /\ messages = [p \in Procs |-> {}] /\ handles = [p \in Procs |-> {}]
  /\ lent = {} /\ mapped = <<>> /\ spoilt = {}

Fault == nFaults < budget.faults /\ nFaults' = nFaults + 1
Free(p) == call[p] = Idle
Post(p, m) == queue' = [queue EXCEPT ![p] = Append(@, m)]

-----------------------------------------------------------------------------
(* Connections.  Nobody takes one away: close() is empty.                  *)

findConnection(p, q) == Contains(conns[p], q)

\* No memory for a longer array: the lock is acquired once more where it
\* should be released.
addConnection(p, q) ==
  \/ conns' = [conns EXCEPT ![p] = Append(@, q)] /\ UNCHANGED <<hung, nFaults>>
  \/ Fault /\ hung' = hung \union {p} /\ UNCHANGED conns

listen(p) ==
  /\ Free(p) /\ p \notin hung
  /\ listens' = listens \union {p}
  /\ connectionless' \in {connectionless \union {p}, connectionless \ {p}}
  /\ UNCHANGED <<budget, conns, call, requested, nConnects, hung, queue, nFaults, dataVars>>

connectCheck(p, q) ==
  /\ Free(p) /\ p # q /\ nConnects < budget.connects /\ p \notin hung
  /\ ~findConnection(p, q) /\ {p, q} \subseteq listens
  /\ call' = [call EXCEPT ![p] = [op |-> "connect", with |-> q]]
  /\ nConnects' = nConnects + 1
  /\ UNCHANGED <<budget, listens, connectionless, conns, requested, hung, queue, nFaults, dataVars>>

connect(p) ==
  /\ call[p].op = "connect"
  /\ Post(call[p].with, [fn |-> "connect", from |-> p])
  /\ call' = [call EXCEPT ![p] = Idle]
  /\ UNCHANGED <<budget, listens, connectionless, conns, requested, nConnects, hung, nFaults, dataVars>>

\* The answer: YES enters each process in the other's list, the initiator's
\* first, and only then goes out.
respond(q, p) ==
  /\ Free(q) /\ p \in requested[q] /\ q \in listens
  /\ requested' = [requested EXCEPT ![q] = @ \ {p}]
  /\ \/ Post(p, [fn |-> "respond", from |-> q, yes |-> FALSE]) /\ UNCHANGED <<conns, call, hung, nFaults>>
     \/ /\ p \notin hung /\ addConnection(p, q)
        /\ call' = [call EXCEPT ![q] = IF hung' = hung THEN [op |-> "respond", with |-> p] ELSE [op |-> "hung"]]
        /\ UNCHANGED queue
  /\ UNCHANGED <<budget, listens, connectionless, nConnects, dataVars>>

respondSelf(q) ==
  /\ call[q].op = "respond" /\ q \notin hung
  /\ addConnection(q, call[q].with)
  /\ IF hung' = hung
     THEN Post(call[q].with, [fn |-> "respond", from |-> q, yes |-> TRUE]) /\ call' = [call EXCEPT ![q] = Idle]
     ELSE UNCHANGED queue /\ call' = [call EXCEPT ![q] = [op |-> "hung"]]
  /\ UNCHANGED <<budget, listens, connectionless, requested, nConnects, dataVars>>

-----------------------------------------------------------------------------
(* Data headers.                                                           *)

\* The pages that hold the data: one more for an offset, and one more for a
\* size that is not whole pages.
sourceMappingNPages(shape) ==
  (shape.size + Page - 1) \div Page
  + (IF shape.offset > 0 THEN 1 ELSE 0) + (IF shape.size % Page > 0 THEN 1 ELSE 0)

createDataHeader(a, p, q, method, shape) ==
  /\ header[a] = 0 /\ \A b \in Addresses : header[b] = 0 => a <= b
  /\ transfers' = Append(transfers, [from |-> p, to |-> q, method |-> method, shape |-> shape])
  /\ header' = [header EXCEPT ![a] = Len(transfers) + 1]
  /\ mapped' = Append(mapped, 0)

\* The page loop of createSharedMappingTo: a page that cannot be mapped
\* leaves the ones before it mapped.
createSharedMappingTo(n, nPages) ==
  \/ mapped' = [mapped EXCEPT ![n] = nPages] /\ UNCHANGED <<spoilt, nFaults>>
  \/ /\ Fault /\ spoilt' = spoilt \union {n}
     /\ \E i \in 0 .. nPages - 1 : mapped' = [mapped EXCEPT ![n] = i]

vaddrRangeIsLoose(n) == mapped[n] = 0

\* BUFFER, and MAP_AND_COPY in one address space, copy the data; MAP_AND_COPY
\* otherwise maps, copies and unmaps again.
dispatchDataHeader_Deletes(a) ==
  /\ header' = [header EXCEPT ![a] = 0] /\ UNCHANGED <<mapped, spoilt, nFaults>>
dispatchDataHeader(a) ==
  LET n == header[a]
      t == transfers[n]
  IN  /\ \/ /\ t.method = "BUFFER" \/ (t.method = "MAP_AND_COPY" /\ {t.from, t.to} \subseteq SameSpace)
            /\ UNCHANGED <<mapped, spoilt, nFaults>>
         \/ /\ t.method = "MAP_AND_COPY" /\ ~({t.from, t.to} \subseteq SameSpace)
            /\ UNCHANGED mapped
            /\ \/ UNCHANGED <<spoilt, nFaults>>
               \/ Fault /\ spoilt' = spoilt \union {n}
         \/ /\ t.method = "MAP_AND_READ" /\ vaddrRangeIsLoose(n)
            /\ createSharedMappingTo(n, sourceMappingNPages(t.shape))
      /\ UNCHANGED header

destroyDataHeader(a) ==
  LET n == header[a]
  IN  /\ mapped' = [mapped EXCEPT ![n] = IF transfers[n].method = "MAP_AND_READ" THEN 0 ELSE @]
      /\ header' = [header EXCEPT ![a] = 0]

-----------------------------------------------------------------------------
(* Transfers.                                                              *)

\* The target must listen without connections or be connected.  A thread
\* that is not there is found out last: the header stays in the list.
send(p, q, a, method, shape) ==
  /\ Free(p) /\ p # q /\ Len(transfers) < budget.transfers /\ {p, q} \intersect hung = {}
  /\ q \in connectionless \/ findConnection(p, q)
  /\ createDataHeader(a, p, q, method, shape)
  /\ messages' = [messages EXCEPT ![q] = @ \union {a}]
  /\ \/ /\ Post(q, [fn |-> "send", from |-> p, handle |-> a]) /\ UNCHANGED nFaults
        /\ lent' = IF method = "BUFFER" THEN lent ELSE lent \union {Len(transfers) + 1}
     \/ Fault /\ UNCHANGED <<queue, lent>>
  /\ UNCHANGED <<connectVars, handles, spoilt>>

receive(q, a) ==
  /\ Free(q) /\ a \in handles[q] /\ a \in messages[q]
  /\ dispatchDataHeader(a)
  /\ UNCHANGED <<connectVars, queue, transfers, messages, handles, lent>>

\* The header is freed and stays in the list.
acknowledge(q, a) ==
  LET t == transfers[header[a]] IN
  /\ Free(q) /\ a \in handles[q] /\ a \in messages[q]
  /\ destroyDataHeader(a)
  /\ handles' = [handles EXCEPT ![q] = @ \ {a}]
  /\ \/ t.method = "BUFFER" /\ UNCHANGED <<queue, nFaults>>
     \/ t.method # "BUFFER" /\ Post(t.from, [fn |-> "acknowledge", of |-> header[a]]) /\ UNCHANGED nFaults
     \/ t.method # "BUFFER" /\ Fault /\ UNCHANGED queue
  /\ UNCHANGED <<connectVars, transfers, messages, lent, spoilt>>

\* A process takes its next message.
pull(p) ==
  /\ Free(p) /\ queue[p] # <<>>
  /\ queue' = [queue EXCEPT ![p] = Tail(@)]
  /\ LET m == Head(queue[p]) IN
     \/ /\ m.fn = "connect" /\ requested' = [requested EXCEPT ![p] = @ \union {m.from}]
        /\ UNCHANGED <<handles, lent>>
     \/ m.fn = "respond" /\ UNCHANGED <<requested, handles, lent>>
     \/ m.fn = "send" /\ handles' = [handles EXCEPT ![p] = @ \union {m.handle}] /\ UNCHANGED <<requested, lent>>
     \/ m.fn = "acknowledge" /\ lent' = lent \ {m.of} /\ UNCHANGED <<requested, handles>>
  /\ UNCHANGED <<budget, listens, connectionless, conns, call, nConnects, hung, nFaults, transfers, header, messages,
                 mapped, spoilt>>

Next ==
  \/ \E p \in Procs : listen(p) \/ connect(p) \/ respondSelf(p) \/ pull(p)
  \/ \E p, q \in Procs : connectCheck(p, q) \/ respond(q, p)
  \/ \E p, q \in Procs, a \in Addresses, m \in Methods, s \in Shapes : send(p, q, a, m, s)
  \/ \E q \in Procs, a \in Addresses : receive(q, a) \/ acknowledge(q, a)

Spec == Init /\ [][Next]_asyncVars

-----------------------------------------------------------------------------
(* Properties.                                                             *)

Count(s, x) == Len(SelectSeq(s, LAMBDA y : y = x))
Halfway(q, p) == IF call[q] = [op |-> "respond", with |-> p] THEN 1 ELSE 0

\* A handle names, from the message that brings it to its acknowledgement,
\* the header of a transfer to its holder, whatever became of the headers
\* that had its address before; the memory it refers to is the sender's to
\* keep until the acknowledgement has come back, and is back when nothing
\* refers to it any more, unless an acknowledgement was lost.  What is mapped
\* for MAP_AND_READ covers the data and is unmapped with the acknowledgement
\* (zasyncStream.cpp, ipc::).
HandlesSound ==
  /\ \A q \in Procs, a \in Addresses :
       LET brought == \E i \in DOMAIN queue[q] : queue[q][i].fn = "send" /\ queue[q][i].handle = a
           n == header[a]
       IN  (a \in handles[q] \/ brought) =>
             /\ n # 0 /\ transfers[n].to = q /\ a \in messages[q]
             /\ transfers[n].method # "BUFFER" => n \in lent
  /\ \A n \in DOMAIN transfers :
       /\ (n \notin spoilt /\ mapped[n] > 0) => mapped[n] * Page >= transfers[n].shape.offset + transfers[n].shape.size
       /\ mapped[n] > 0 => \E a \in handles[transfers[n].to] : header[a] = n
       /\ (n \in lent /\ nFaults = 0) =>
            \/ \E a \in Addresses : header[a] = n
            \/ Contains(queue[transfers[n].from], [fn |-> "acknowledge", of |-> n])

\* Two processes are in each other's lists, equally often, but for a respond
\* that has entered only the first and for one that hung; a process answers
\* no connection twice for one request.
ConnectionsMutual ==
  /\ \A p, q \in Procs :
       (hung \intersect {p, q} = {} /\ p # q) =>
         Count(conns[p], q) + Halfway(p, q) = Count(conns[q], p) + Halfway(q, p)
  /\ \A p \in Procs : Len(conns[p]) <= nConnects
  /\ hung # {} => nFaults > 0
=============================================================================
