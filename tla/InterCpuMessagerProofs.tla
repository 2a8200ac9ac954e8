----------------------- MODULE InterCpuMessagerProofs -----------------------
(***************************************************************************)
(* Machine-checked proofs about InterCpuMessager, for any number of CPUs   *)
(* and of flushes.                                                         *)
(***************************************************************************)
EXTENDS InterCpuMessager, TLAPS

-----------------------------------------------------------------------------
(* The inductive invariant, one conjunct per idea *)

\* Where pc stands at a bit of the bitmap, the bit is one of a CPU.
TargetIsCpu ==
  \A c \in Cpus : pc[c] \in {"status", "insertPage", "insert", "check", "ipi"} => target[c] \in Cpus

\* A CPU is announced after its messager takes requests, and it takes them for
\* good.
Announced == \A t \in availableCpus : statusFlag[t] # "NOT_TAKING_REQUESTS"

\* The sender of m deals with the very flush that m belongs to.
DecidingNow(c, m) == Deciding(c, m) /\ m.n = flushes[m.from]

\* MessageServed, for the flush the sender deals with: what it sent for the
\* flushes before is covered by an interrupt, by the handler or as skipped.
Cover(c, m) == DecidingNow(c, m) \/ ipi[c] \/ handler[c] = "pop" \/ m \in skipped[c]
Covered == \A c \in Cpus : \A m \in Range(messageQueue[c]) : Cover(c, m)

\* The sender has passed c, or inserted the message for c's range.
PastInsert(c, s) == c < target[s] \/ (c = target[s] /\ pc[s] \in {"check", "ipi"})

\* No message is of a flush to come, and one for the range of the flush at
\* hand lies only where its sender has already inserted it.
InsertedOnce ==
  \A c \in Cpus : \A m \in Range(messageQueue[c]) :
    /\ m.n <= flushes[m.from]
    /\ m.n = flushes[m.from] /\ m.kind = "range" => PastInsert(c, m.from)

IInv == TypeOK /\ TargetIsCpu /\ Announced /\ Covered /\ InsertedOnce /\ PageFirst

-----------------------------------------------------------------------------
(* Sequences *)

\* Append puts one element into a sequence, at its end.
LEMMA AppendFacts ==
  ASSUME NEW S, NEW q \in Seq(S), NEW m \in S
  PROVE  /\ Append(q, m) \in Seq(S)
         /\ Len(Append(q, m)) = Len(q) + 1
         /\ Append(q, m)[Len(q) + 1] = m
         /\ \A i \in 1 .. Len(q) : Append(q, m)[i] = q[i]
         /\ Range(Append(q, m)) = Range(q) \cup {m}
<1>1. /\ Append(q, m) \in Seq(S)
      /\ Len(Append(q, m)) = Len(q) + 1
      /\ Append(q, m)[Len(q) + 1] = m
      /\ \A i \in 1 .. Len(q) : Append(q, m)[i] = q[i]
    OBVIOUS
<1>2. DOMAIN q = 1 .. Len(q) /\ DOMAIN Append(q, m) = 1 .. Len(q) + 1 /\ Len(q) \in Nat
    BY <1>1
<1>3. Range(Append(q, m)) = Range(q) \cup {m}
  <2>1. ASSUME NEW x \in Range(Append(q, m)) PROVE x \in Range(q) \cup {m}
      BY <2>1, <1>1, <1>2 DEF Range
  <2>2. ASSUME NEW x \in Range(q) PROVE x \in Range(Append(q, m))
    <3>1. PICK i \in 1 .. Len(q) : x = q[i]
        BY <2>2, <1>2 DEF Range
    <3>2. i \in DOMAIN Append(q, m) /\ Append(q, m)[i] = x
        BY <3>1, <1>1, <1>2
    <3> QED BY <3>2 DEF Range
  <2>3. m \in Range(Append(q, m))
    <3>1. Len(q) + 1 \in DOMAIN Append(q, m)
        BY <1>2
    <3> QED BY <3>1, <1>1 DEF Range
  <2> QED BY <2>1, <2>2, <2>3
<1> QED BY <1>1, <1>3

\* Tail takes the first element away.
LEMMA TailFacts ==
  ASSUME NEW S, NEW q \in Seq(S), q # <<>>
  PROVE  /\ Tail(q) \in Seq(S)
         /\ Len(Tail(q)) = Len(q) - 1
         /\ \A i \in 1 .. Len(q) - 1 : Tail(q)[i] = q[i + 1]
         /\ Range(Tail(q)) \subseteq Range(q)
<1>1. /\ Tail(q) \in Seq(S)
      /\ Len(Tail(q)) = Len(q) - 1
      /\ \A i \in 1 .. Len(q) - 1 : Tail(q)[i] = q[i + 1]
      /\ Len(q) \in Nat
    OBVIOUS
<1>2. ASSUME NEW x \in Range(Tail(q)) PROVE x \in Range(q)
  <2>1. PICK i \in 1 .. Len(q) - 1 : x = Tail(q)[i]
      BY <1>1 DEF Range
  <2>2. i + 1 \in DOMAIN q /\ x = q[i + 1]
      BY <2>1, <1>1
  <2> QED BY <2>2 DEF Range
<1> QED BY <1>1, <1>2

\* The elements of a sequence are of its set.
LEMMA ElementFacts ==
  ASSUME NEW S, NEW q \in Seq(S)
  PROVE  /\ Range(q) \subseteq S
         /\ \A i \in 1 .. Len(q) : q[i] \in Range(q)
         /\ q = <<>> => Range(q) = {}
BY DEF Range

-----------------------------------------------------------------------------
(* The steps *)

\* What a sender puts in a queue is a message.
LEMMA MessageType ==
  ASSUME TypeOK, NEW c \in Cpus
  PROVE  Msg(c) \in Messages /\ PageMsg(c) \in Messages
BY DEF TypeOK, Messages, Msg, PageMsg

\* In the initial states only CPU 0 is up, and nobody has sent anything.
LEMMA InitIInv == Init => IInv
<1> SUFFICES ASSUME Init PROVE IInv
    OBVIOUS
<1> USE NCpusAssumption, MaxFlushesAssumption DEF Init, Cpus
<1>1. TypeOK
    BY DEF TypeOK, Statuses
<1>2. \A c \in Cpus : Range(messageQueue[c]) = {} /\ Len(messageQueue[c]) = 0
    BY DEF Range
<1>3. TargetIsCpu /\ Announced
    BY DEF TargetIsCpu, Announced
<1>4. Covered /\ InsertedOnce
    BY <1>2 DEF Covered, InsertedOnce
<1>5. PageFirst
    BY <1>2 DEF PageFirst
<1> QED BY <1>1, <1>3, <1>4, <1>5 DEF IInv

\* The types of the three variables a sender moves along with.
SenderType ==
  /\ pc \in [Cpus -> {"idle", "scan", "status", "insertPage", "insert", "check", "ipi"}]
  /\ target \in [Cpus -> 0 .. NCpus]
  /\ flushes \in [Cpus -> 0 .. MaxFlushes]

\* A sender goes from place to place, and to the next bit while there is one.
LEMMA SenderStep ==
  ASSUME SenderType, NEW c \in Cpus
  PROVE  /\ \A l \in {"idle", "scan", "status", "insertPage", "insert", "check", "ipi"} :
              Goto(c, l) /\ UNCHANGED <<target, flushes>> => SenderType'
         /\ NextTarget(c) /\ target[c] < NCpus /\ UNCHANGED flushes => SenderType'
<1>1. \A l \in {"idle", "scan", "status", "insertPage", "insert", "check", "ipi"} :
        Goto(c, l) /\ UNCHANGED <<target, flushes>> => SenderType'
    BY DEF SenderType, Goto
<1>2. ASSUME NextTarget(c), target[c] < NCpus, UNCHANGED flushes PROVE SenderType'
  <2>1. target[c] + 1 \in 0 .. NCpus
      BY <1>2, NCpusAssumption DEF SenderType
  <2> QED BY <1>2, <2>1 DEF SenderType, NextTarget, Goto
<1> QED BY <1>1, <1>2

\* Every step leaves the variables with their types.
LEMMA TypeStep ==
  ASSUME TypeOK, TargetIsCpu, [Next]_vars
  PROVE  TypeOK'
<1>1. CASE UNCHANGED vars
    BY <1>1 DEF TypeOK, vars
<1>s. SenderType
    BY DEF TypeOK, SenderType
<1> SUFFICES ASSUME NEW c \in Cpus,
                    \/ Bind(c) \/ Announce(c) \/ EnableInterrupts(c)
                    \/ FlushCall(c) \/ Scan(c) \/ Allocate(c) \/ InsertPage(c) \/ Insert(c)
                    \/ Check(c) \/ SendIpi(c)
                    \/ IpiEnter(c) \/ Dispatch(c) \/ DispatchEmpty(c) \/ DispatchEnd(c)
             PROVE  TypeOK'
    BY <1>1 DEF Next
<1>2. CASE Bind(c)
    BY <1>2 DEF TypeOK, Bind, Statuses
<1>3. CASE Announce(c)
    BY <1>3 DEF TypeOK, Announce
<1>4. CASE EnableInterrupts(c)
    BY <1>4 DEF TypeOK, EnableInterrupts
<1>5. CASE FlushCall(c)
  <2>1. flushes[c] + 1 \in 0 .. MaxFlushes /\ 0 \in 0 .. NCpus
      BY <1>5, NCpusAssumption, MaxFlushesAssumption DEF TypeOK, FlushCall
  <2> QED BY <1>5, <2>1 DEF TypeOK, FlushCall, Goto, bringUpVars
<1>6. CASE Scan(c)
  <2>1. SenderType'
      BY <1>6, <1>s, SenderStep DEF Scan
  <2> QED BY <1>6, <2>1 DEF TypeOK, SenderType, Scan, bringUpVars
<1>7. CASE Allocate(c)
  <2>1. target[c] < NCpus
      BY <1>7, NCpusAssumption DEF TargetIsCpu, Allocate, Running, Cpus
  <2>2. SenderType'
      BY <1>7, <1>s, <2>1, SenderStep DEF Allocate
  <2> QED BY <1>7, <2>2 DEF TypeOK, SenderType, Allocate, bringUpVars
<1>8. CASE InsertPage(c)
  <2>1. target[c] \in Cpus /\ messageQueue[target[c]] \in Seq(Messages)
      BY <1>8 DEF TypeOK, TargetIsCpu, InsertPage, Running
  <2>2. Append(messageQueue[target[c]], PageMsg(c)) \in Seq(Messages)
      BY <2>1, MessageType, AppendFacts
  <2> QED BY <1>8, <2>1, <2>2 DEF TypeOK, InsertPage, Goto, bringUpVars
<1>9. CASE Insert(c)
  <2>1. target[c] \in Cpus /\ messageQueue[target[c]] \in Seq(Messages)
      BY <1>9 DEF TypeOK, TargetIsCpu, Insert, Running
  <2>2. Append(messageQueue[target[c]], Msg(c)) \in Seq(Messages)
      BY <2>1, MessageType, AppendFacts
  <2> QED BY <1>9, <2>1, <2>2 DEF TypeOK, Insert, Goto, bringUpVars
<1>10. CASE Check(c)
  <2>1. target[c] \in Cpus /\ Msg(c) \in Messages /\ PageMsg(c) \in Messages
      BY <1>10, MessageType DEF TargetIsCpu, Check, Running
  <2>2. target[c] < NCpus
      BY <2>1, NCpusAssumption DEF Cpus
  <2>3. SenderType'
      BY <1>10, <1>s, <2>2, SenderStep DEF Check
  <2>4. skipped' \in [Cpus -> SUBSET Messages]
    <3>1. skipped[target[c]] \cup {Msg(c), PageMsg(c)} \in SUBSET Messages
        BY <2>1 DEF TypeOK
    <3>2. \/ skipped' = skipped
          \/ skipped' = [skipped EXCEPT ![target[c]] = skipped[target[c]] \cup {Msg(c), PageMsg(c)}]
        BY <1>10 DEF Check
    <3> QED BY <3>1, <3>2 DEF TypeOK
  <2> QED BY <1>10, <2>3, <2>4 DEF TypeOK, SenderType, Check, bringUpVars
<1>11. CASE SendIpi(c)
  <2>1. target[c] < NCpus
      BY <1>11, NCpusAssumption DEF TargetIsCpu, SendIpi, Running, Cpus
  <2>2. SenderType'
      BY <1>11, <1>s, <2>1, SenderStep DEF SendIpi
  <2> QED BY <1>11, <2>2 DEF TypeOK, SenderType, SendIpi, bringUpVars
<1>12. CASE IpiEnter(c)
    BY <1>12 DEF TypeOK, IpiEnter, Statuses, bringUpVars
<1>13. CASE Dispatch(c)
  <2>1. Tail(messageQueue[c]) \in Seq(Messages)
      BY <1>13, TailFacts DEF TypeOK, Dispatch
  <2> QED BY <1>13, <2>1 DEF TypeOK, Dispatch, bringUpVars
<1>14. CASE DispatchEmpty(c)
    BY <1>14 DEF TypeOK, DispatchEmpty, bringUpVars
<1>15. CASE DispatchEnd(c)
    BY <1>15 DEF TypeOK, DispatchEnd, Statuses, bringUpVars
<1> QED BY <1>2, <1>3, <1>4, <1>5, <1>6, <1>7, <1>8, <1>9, <1>10, <1>11, <1>12, <1>13, <1>14, <1>15

\* A sender leaves "scan" for a bit of the bitmap, and the bits are CPUs.
LEMMA TargetStep ==
  ASSUME TypeOK, TargetIsCpu, [Next]_vars
  PROVE  TargetIsCpu'
<1> USE DEF TypeOK, TargetIsCpu
<1>1. CASE UNCHANGED vars
    BY <1>1 DEF vars
<1> SUFFICES ASSUME NEW c \in Cpus,
                    \/ UNCHANGED <<pc, target>>
                    \/ FlushCall(c) \/ Scan(c) \/ Allocate(c) \/ InsertPage(c) \/ Insert(c)
                    \/ Check(c) \/ SendIpi(c)
             PROVE  TargetIsCpu'
    BY <1>1 DEF Next, Bind, Announce, EnableInterrupts, IpiEnter, Dispatch, DispatchEmpty, DispatchEnd
<1> SUFFICES ASSUME NEW d \in Cpus,
                    pc'[d] \in {"status", "insertPage", "insert", "check", "ipi"}
             PROVE  target'[d] \in Cpus
    OBVIOUS
<1>2. CASE UNCHANGED <<pc, target>>
    BY <1>2
<1>3. CASE FlushCall(c)
    BY <1>3 DEF FlushCall, Goto
<1>4. CASE Scan(c)
  <2>1. CASE target[c] \in availableCpus \ {c} /\ target[c] < NCpus
      BY <1>4, <2>1 DEF Scan, Goto
  <2>2. CASE ~(target[c] \in availableCpus \ {c} /\ target[c] < NCpus)
      BY <1>4, <2>2 DEF Scan, Goto, NextTarget
  <2> QED BY <2>1, <2>2
<1>5. CASE Allocate(c)
    BY <1>5 DEF Allocate, Running, Goto, NextTarget
<1>6. CASE InsertPage(c) \/ Insert(c)
    BY <1>6 DEF InsertPage, Insert, Running, Goto
<1>7. CASE Check(c) \/ SendIpi(c)
    BY <1>7 DEF Check, SendIpi, Running, Goto, NextTarget
<1> QED BY <1>2, <1>3, <1>4, <1>5, <1>6, <1>7

\* Announce() waits for the messager, and no step goes back to taking none.
LEMMA AnnouncedStep ==
  ASSUME TypeOK, Announced, [Next]_vars
  PROVE  Announced'
<1> USE DEF TypeOK, Announced
<1>1. CASE UNCHANGED vars
    BY <1>1 DEF vars
<1> SUFFICES ASSUME NEW c \in Cpus,
                    \/ UNCHANGED <<statusFlag, availableCpus>>
                    \/ Bind(c) \/ Announce(c) \/ IpiEnter(c) \/ DispatchEnd(c)
             PROVE  Announced'
    BY <1>1 DEF Next, EnableInterrupts, FlushCall, Scan, Allocate, InsertPage, Insert, Check, SendIpi,
                Dispatch, DispatchEmpty, bringUpVars
<1> QED BY DEF Bind, Announce, IpiEnter, DispatchEnd, bringUpVars

\* The messages of a queue are messages, of a sender that is a CPU.
LEMMA QueueFacts ==
  ASSUME TypeOK, NEW c \in Cpus, NEW m \in Range(messageQueue[c])
  PROVE  m \in Messages /\ m.from \in Cpus /\ m.n \in Nat /\ m.kind \in {"range", "page"}
<1>1. messageQueue[c] \in Seq(Messages)
    BY DEF TypeOK
<1>2. m \in Messages
    BY <1>1, ElementFacts
<1> QED BY <1>2, MaxFlushesAssumption DEF Messages

\* What is in the queues after x was appended to the one of e.
LEMMA AppendedQueue ==
  ASSUME TypeOK, NEW e \in Cpus, NEW x \in Messages,
         messageQueue' = [messageQueue EXCEPT ![e] = Append(@, x)],
         NEW d \in Cpus, NEW m \in Range(messageQueue'[d])
  PROVE  m \in Range(messageQueue[d]) \/ (d = e /\ m = x)
<1>1. messageQueue \in [Cpus -> Seq(Messages)]
    BY DEF TypeOK
<1>2. CASE d = e
  <2>1. messageQueue[d] \in Seq(Messages) /\ messageQueue'[d] = Append(messageQueue[d], x)
      BY <1>1, <1>2
  <2>2. Range(messageQueue'[d]) = Range(messageQueue[d]) \cup {x}
      BY <2>1, AppendFacts
  <2> QED BY <1>2, <2>2
<1>3. CASE d # e
    BY <1>1, <1>3
<1> QED BY <1>2, <1>3

\* A message stays covered: its sender turns to the next target only after an
\* interrupt was sent or the message counted as skipped, and the handler turns
\* from its loop only when the queue is empty.
LEMMA CoveredStep ==
  ASSUME TypeOK, TargetIsCpu, Covered, [Next]_vars
  PROVE  Covered'
<1> USE DEF Cover, DecidingNow, Deciding
<1> SUFFICES ASSUME NEW d \in Cpus, NEW m \in Range(messageQueue'[d]) PROVE Cover(d, m)'
    BY DEF Covered
<1>1. ASSUME m \in Range(messageQueue[d])
      PROVE  m \in Messages /\ m.from \in Cpus /\ m.kind \in {"range", "page"} /\ Cover(d, m)
    BY <1>1, QueueFacts DEF Covered
<1>2. CASE UNCHANGED vars
    BY <1>1, <1>2 DEF vars
<1> SUFFICES ASSUME NEW c \in Cpus,
                    \/ Bind(c) \/ Announce(c) \/ EnableInterrupts(c)
                    \/ FlushCall(c) \/ Scan(c) \/ Allocate(c) \/ InsertPage(c) \/ Insert(c)
                    \/ Check(c) \/ SendIpi(c)
                    \/ IpiEnter(c) \/ Dispatch(c) \/ DispatchEmpty(c) \/ DispatchEnd(c)
             PROVE  Cover(d, m)'
    BY <1>2 DEF Next
<1>3. CASE Bind(c) \/ Announce(c) \/ EnableInterrupts(c)
    BY <1>1, <1>3 DEF Bind, Announce, EnableInterrupts
<1>4. CASE FlushCall(c)
    BY <1>1, <1>4 DEF TypeOK, FlushCall, Running, Goto
<1>5. CASE Scan(c)
    BY <1>1, <1>5 DEF TypeOK, Scan, Running, Goto, NextTarget
<1>6. CASE Allocate(c)
    BY <1>1, <1>6 DEF TypeOK, Allocate, Running, Goto, NextTarget
<1>7. CASE InsertPage(c)
  <2>1. /\ target[c] \in Cpus /\ messageQueue[target[c]] \in Seq(Messages)
        /\ PageMsg(c).from = c /\ PageMsg(c).n = flushes[c] /\ PageMsg(c) \in Messages
      BY <1>7, MessageType DEF TypeOK, TargetIsCpu, InsertPage, Running, PageMsg
  <2>2. m \in Range(messageQueue[d]) \/ (d = target[c] /\ m = PageMsg(c))
      BY <1>7, <2>1, AppendedQueue DEF InsertPage
  <2>3. CASE m = PageMsg(c) /\ d = target[c]
      BY <1>7, <2>1, <2>3 DEF TypeOK, InsertPage, Goto
  <2>4. CASE m \in Range(messageQueue[d])
      BY <1>1, <1>7, <2>4 DEF TypeOK, InsertPage, Running, Goto
  <2> QED BY <2>2, <2>3, <2>4
<1>8. CASE Insert(c)
  <2>1. /\ target[c] \in Cpus /\ messageQueue[target[c]] \in Seq(Messages)
        /\ Msg(c).from = c /\ Msg(c).n = flushes[c] /\ Msg(c) \in Messages
      BY <1>8, MessageType DEF TypeOK, TargetIsCpu, Insert, Running, Msg
  <2>2. m \in Range(messageQueue[d]) \/ (d = target[c] /\ m = Msg(c))
      BY <1>8, <2>1, AppendedQueue DEF Insert
  <2>3. CASE m = Msg(c) /\ d = target[c]
      BY <1>8, <2>1, <2>3 DEF TypeOK, Insert, Goto
  <2>4. CASE m \in Range(messageQueue[d])
      BY <1>1, <1>8, <2>4 DEF TypeOK, Insert, Running, Goto
  <2> QED BY <2>2, <2>3, <2>4
<1>9. CASE Check(c)
  <2>1. m \in Range(messageQueue[d]) /\ target[c] \in Cpus
      BY <1>9 DEF Check, TargetIsCpu, Running
  <2>2. CASE statusFlag[target[c]] = "NOT_PROCESSING"
      BY <1>1, <1>9, <2>1, <2>2 DEF TypeOK, Check, Running, Goto
  <2>3. CASE statusFlag[target[c]] # "NOT_PROCESSING"
    <3>1. skipped' = [skipped EXCEPT ![target[c]] = @ \cup {Msg(c), PageMsg(c)}]
        BY <1>9, <2>3 DEF Check
    <3>2. CASE DecidingNow(d, m) /\ m.from = c
      <4>1. m = Msg(c) \/ m = PageMsg(c)
          BY <1>1, <2>1, <3>2 DEF Messages, Msg, PageMsg
      <4> QED BY <2>1, <3>1, <3>2, <4>1 DEF TypeOK
    <3>3. CASE DecidingNow(d, m) /\ m.from # c
        BY <1>1, <1>9, <2>1, <3>3 DEF TypeOK, Check, Goto, NextTarget
    <3>4. CASE ~DecidingNow(d, m)
        BY <1>1, <1>9, <2>1, <3>1, <3>4 DEF TypeOK, Check
    <3> QED BY <3>2, <3>3, <3>4
  <2> QED BY <2>2, <2>3
<1>10. CASE SendIpi(c)
    BY <1>1, <1>10 DEF TypeOK, SendIpi, TargetIsCpu, Running, Goto, NextTarget
<1>11. CASE IpiEnter(c)
    BY <1>1, <1>11 DEF TypeOK, IpiEnter
<1>12. CASE Dispatch(c)
  <2>1. m \in Range(messageQueue[d])
      BY <1>12, TailFacts DEF TypeOK, Dispatch
  <2> QED BY <1>1, <1>12, <2>1 DEF TypeOK, Dispatch
<1>13. CASE DispatchEmpty(c)
  <2>1. m \in Range(messageQueue[d]) /\ d # c
      BY <1>13, ElementFacts DEF TypeOK, DispatchEmpty
  <2> QED BY <1>1, <1>13, <2>1 DEF TypeOK, DispatchEmpty
<1>14. CASE DispatchEnd(c)
    BY <1>1, <1>14 DEF TypeOK, DispatchEnd
<1> QED BY <1>3, <1>4, <1>5, <1>6, <1>7, <1>8, <1>9, <1>10, <1>11, <1>12, <1>13, <1>14

\* A flush inserts its range message once per target, in the order of the
\* bits.
LEMMA InsertedStep ==
  ASSUME TypeOK, TargetIsCpu, InsertedOnce, [Next]_vars
  PROVE  InsertedOnce'
<1> USE NCpusAssumption, MaxFlushesAssumption DEF PastInsert
<1> DEFINE Fits(d, m) == /\ m.n <= flushes[m.from]
                         /\ m.n = flushes[m.from] /\ m.kind = "range" => PastInsert(d, m.from)
<1> SUFFICES ASSUME NEW d \in Cpus, NEW m \in Range(messageQueue'[d]) PROVE Fits(d, m)'
    BY DEF InsertedOnce
<1>1. ASSUME m \in Range(messageQueue[d])
      PROVE  m.from \in Cpus /\ m.n \in Nat /\ Fits(d, m)
    BY <1>1, QueueFacts DEF InsertedOnce
<1>2. CASE UNCHANGED vars
    BY <1>1, <1>2 DEF vars
<1>3. d \in Int /\ \A c \in Cpus : target[c] \in Int /\ flushes[c] \in Int
    BY DEF TypeOK, Cpus
<1> SUFFICES ASSUME NEW c \in Cpus,
                    \/ UNCHANGED <<messageQueue, flushes, pc, target>>
                    \/ FlushCall(c) \/ Scan(c) \/ Allocate(c) \/ InsertPage(c) \/ Insert(c)
                    \/ Check(c) \/ SendIpi(c) \/ Dispatch(c)
             PROVE  Fits(d, m)'
    BY <1>2 DEF Next, Bind, Announce, EnableInterrupts, IpiEnter, DispatchEmpty, DispatchEnd
<1>4. CASE UNCHANGED <<messageQueue, flushes, pc, target>>
    BY <1>1, <1>4
<1>m. ASSUME UNCHANGED <<messageQueue, flushes>>,
             \/ NextTarget(c)
             \/ /\ UNCHANGED target
                /\ \/ pc[c] \notin {"check", "ipi"}
                      /\ \E l \in {"idle", "status", "insertPage", "insert"} : Goto(c, l)
                   \/ Goto(c, "ipi")
      PROVE  Fits(d, m)'
  <2>1. m.from \in Cpus /\ m.n \in Nat /\ Fits(d, m)
      BY <1>1, <1>m
  <2>2. CASE m.from # c
      BY <1>m, <2>1, <2>2 DEF TypeOK, Goto, NextTarget
  <2>3. CASE m.from = c /\ NextTarget(c)
    <3>1. target'[c] = target[c] + 1
        BY <2>3 DEF TypeOK, NextTarget
    <3> QED BY <1>m, <1>3, <2>1, <2>3, <3>1
  <2>4. CASE m.from = c /\ UNCHANGED target
    <3>1. pc'[c] \in {"check", "ipi"} \/ pc[c] \notin {"check", "ipi"}
        BY <1>m, <2>4 DEF TypeOK, Goto, NextTarget
    <3>2. target'[c] = target[c] /\ flushes' = flushes
        BY <1>m, <2>4
    <3> QED BY <1>3, <2>1, <2>4, <3>1, <3>2
  <2> QED BY <1>m, <2>2, <2>3, <2>4
<1>5. CASE FlushCall(c)
    BY <1>1, <1>3, <1>5 DEF TypeOK, FlushCall, Goto
<1>6. CASE Scan(c)
  <2>1. \/ NextTarget(c)
        \/ UNCHANGED target /\ \E l \in {"idle", "status", "insertPage", "insert"} : Goto(c, l)
      BY <1>6 DEF Scan
  <2>2. pc[c] \notin {"check", "ipi"} /\ UNCHANGED <<messageQueue, flushes>>
      BY <1>6 DEF Scan, Running
  <2> QED BY <1>m, <2>1, <2>2
<1>7. CASE Allocate(c)
  <2>1. \/ NextTarget(c)
        \/ UNCHANGED target /\ \E l \in {"idle", "status", "insertPage", "insert"} : Goto(c, l)
      BY <1>7 DEF Allocate
  <2>2. pc[c] \notin {"check", "ipi"} /\ UNCHANGED <<messageQueue, flushes>>
      BY <1>7 DEF Allocate, Running
  <2> QED BY <1>m, <2>1, <2>2
<1>8. CASE InsertPage(c)
  <2>1. /\ target[c] \in Cpus /\ messageQueue[target[c]] \in Seq(Messages)
        /\ PageMsg(c).from = c /\ PageMsg(c).n = flushes[c] /\ PageMsg(c).kind = "page"
        /\ PageMsg(c) \in Messages
      BY <1>8, MessageType DEF TypeOK, TargetIsCpu, InsertPage, Running, PageMsg
  <2>2. m \in Range(messageQueue[d]) \/ (d = target[c] /\ m = PageMsg(c))
      BY <1>8, <2>1, AppendedQueue DEF InsertPage
  <2>3. CASE m = PageMsg(c) /\ d = target[c]
      BY <1>3, <1>8, <2>1, <2>3 DEF InsertPage
  <2>4. CASE m \in Range(messageQueue[d])
      BY <1>1, <1>8, <2>4 DEF TypeOK, InsertPage, Running, Goto
  <2> QED BY <2>2, <2>3, <2>4
<1>9. CASE Insert(c)
  <2>1. /\ target[c] \in Cpus /\ messageQueue[target[c]] \in Seq(Messages)
        /\ Msg(c).from = c /\ Msg(c).n = flushes[c] /\ Msg(c) \in Messages
      BY <1>9, MessageType DEF TypeOK, TargetIsCpu, Insert, Running, Msg
  <2>2. m \in Range(messageQueue[d]) \/ (d = target[c] /\ m = Msg(c))
      BY <1>9, <2>1, AppendedQueue DEF Insert
  <2>3. CASE m = Msg(c) /\ d = target[c]
      BY <1>3, <1>9, <2>1, <2>3 DEF TypeOK, Insert, Goto
  <2>4. CASE m \in Range(messageQueue[d])
      BY <1>1, <1>9, <2>4 DEF TypeOK, Insert, Running, Goto
  <2> QED BY <2>2, <2>3, <2>4
<1>10. CASE Check(c)
    BY <1>10, <1>m DEF Check, Running
<1>11. CASE SendIpi(c)
    BY <1>11, <1>m DEF SendIpi, Running
<1>12. CASE Dispatch(c)
  <2>1. m \in Range(messageQueue[d])
      BY <1>12, TailFacts DEF TypeOK, Dispatch
  <2> QED BY <1>1, <1>12, <2>1 DEF Dispatch
<1> QED BY <1>4, <1>5, <1>6, <1>7, <1>8, <1>9, <1>10, <1>11, <1>12

\* A page's message is inserted when the range's is not yet in the queue, and
\* the queue is served from its head.
LEMMA PageStep ==
  ASSUME TypeOK, TargetIsCpu, InsertedOnce, PageFirst, [Next]_vars
  PROVE  PageFirst'
<1> DEFINE InOrder(q) == \A i, j \in 1 .. Len(q) :
             q[i].kind = "page" /\ q[j].kind = "range" /\ q[i].from = q[j].from /\ q[i].n = q[j].n
               => i < j
<1>1. \A d \in Cpus : messageQueue[d] \in Seq(Messages) /\ InOrder(messageQueue[d])
    BY DEF TypeOK, PageFirst
<1> SUFFICES ASSUME NEW d \in Cpus PROVE InOrder(messageQueue'[d])
    BY DEF PageFirst
<1>2. CASE messageQueue' = messageQueue
    BY <1>1, <1>2
<1> SUFFICES ASSUME NEW c \in Cpus, InsertPage(c) \/ Insert(c) \/ Dispatch(c)
             PROVE  InOrder(messageQueue'[d])
    BY <1>2 DEF Next, vars, Bind, Announce, EnableInterrupts, FlushCall, Scan, Allocate, Check, SendIpi,
                IpiEnter, DispatchEmpty, DispatchEnd
<1> DEFINE q == messageQueue[d]
<1>3. q \in Seq(Messages) /\ InOrder(q) /\ Len(q) \in Nat
  <2> HIDE DEF InOrder
  <2>1. q \in Seq(Messages) /\ InOrder(q)
      BY <1>1
  <2>2. Len(q) \in Nat
      BY <2>1
  <2> QED BY <2>1, <2>2
<1> HIDE DEF q
<1>4. CASE InsertPage(c)
  <2> DEFINE m == PageMsg(c)
  <2>1. /\ messageQueue'[d] = IF d = target[c] THEN Append(q, m) ELSE q
        /\ pc[c] = "insertPage" /\ m \in Messages
        /\ m.from = c /\ m.n = flushes[c] /\ m.kind = "page"
      BY <1>4, MessageType DEF TypeOK, InsertPage, Running, PageMsg, q
  <2> HIDE DEF m
  <2>2. CASE d # target[c]
      BY <1>3, <2>1, <2>2
  <2>3. CASE d = target[c]
    <3>1. \A j \in 1 .. Len(q) : ~(q[j].kind = "range" /\ q[j].from = c /\ q[j].n = flushes[c])
      <4>1. SUFFICES ASSUME NEW j \in 1 .. Len(q),
                            q[j].kind = "range", q[j].from = c, q[j].n = flushes[c]
                     PROVE  FALSE
          OBVIOUS
      <4>2. q[j] \in Range(messageQueue[d])
          BY <1>3, ElementFacts DEF q
      <4>3. PastInsert(d, c)
          BY <4>1, <4>2 DEF InsertedOnce
      <4> QED BY <4>3, <2>1, <2>3, NCpusAssumption DEF PastInsert, TypeOK, Cpus
    <3> DEFINE r == Append(q, m)
    <3>2. /\ Len(r) = Len(q) + 1 /\ r[Len(q) + 1] = m
          /\ \A i \in 1 .. Len(q) : r[i] = q[i]
        BY <1>3, <2>1, AppendFacts
    <3> HIDE DEF r
    <3>3. InOrder(r)
        BY <1>3, <2>1, <3>1, <3>2
    <3> QED BY <2>1, <2>3, <3>3 DEF r
  <2> QED BY <2>2, <2>3
<1>5. CASE Insert(c)
  <2> DEFINE m == Msg(c)
  <2>1. /\ messageQueue'[d] = IF d = target[c] THEN Append(q, m) ELSE q
        /\ m \in Messages /\ m.kind = "range"
      BY <1>5, MessageType DEF TypeOK, Insert, Msg, q
  <2> HIDE DEF m
  <2>2. CASE d # target[c]
      BY <1>3, <2>1, <2>2
  <2>3. CASE d = target[c]
    <3> DEFINE r == Append(q, m)
    <3>1. /\ Len(r) = Len(q) + 1 /\ r[Len(q) + 1] = m
          /\ \A i \in 1 .. Len(q) : r[i] = q[i]
        BY <1>3, <2>1, AppendFacts
    <3> HIDE DEF r
    <3>2. InOrder(r)
        BY <1>3, <2>1, <3>1
    <3> QED BY <2>1, <2>3, <3>2 DEF r
  <2> QED BY <2>2, <2>3
<1>6. CASE Dispatch(c)
  <2>1. messageQueue'[d] = IF d = c THEN Tail(q) ELSE q
      BY <1>6 DEF TypeOK, Dispatch, q
  <2>2. CASE d = c
    <3> DEFINE r == Tail(q)
    <3>1. q # <<>>
        BY <1>6, <2>2 DEF Dispatch, q
    <3>2. Len(r) = Len(q) - 1 /\ \A i \in 1 .. Len(q) - 1 : r[i] = q[i + 1]
        BY <1>3, <3>1, TailFacts
    <3> HIDE DEF r
    <3>3. InOrder(r)
        BY <1>3, <3>2
    <3>4. messageQueue'[d] = r
        BY <2>1, <2>2 DEF r
    <3> QED BY <3>3, <3>4
  <2>3. CASE d # c
      BY <1>3, <2>1, <2>3
  <2> QED BY <2>2, <2>3
<1> QED BY <1>4, <1>5, <1>6

-----------------------------------------------------------------------------
(* The theorems *)

\* IInv holds in every reachable state.
LEMMA Invariance == Spec => []IInv
<1>1. IInv /\ [Next]_vars => IInv'
    BY TypeStep, TargetStep, AnnouncedStep, CoveredStep, InsertedStep, PageStep DEF IInv
<1> QED BY InitIInv, <1>1, PTL DEF Spec

\* What the invariant says of the messages is what they are promised.
LEMMA IInvServes == IInv => TypeOK /\ MessagesServed
BY DEF IInv, Announced, Covered, Cover, DecidingNow, MessagesServed, NoneRefused, MessageServed

\* Type correctness of the messagers' state: CpuStream::InterCpuMessager.
THEOREM TypeCorrect == Spec => []TypeOK
BY Invariance, IInvServes, PTL

\* InterCpuMessager::bind(), flushTlbRange() and dispatch(), for any number of
\* CPUs: no CPU is asked before it takes requests; a message in a queue is
\* covered by its sender, by an interrupt or by the handler, unless its sender
\* saw the CPU dispatching; and a message's page is flushed before it is read.
THEOREM FlushesServed == Spec => []MessagesServed
BY Invariance, IInvServes, PTL
=============================================================================
