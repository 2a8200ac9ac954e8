------------------------- MODULE MultipleReaderLock -------------------------
(***************************************************************************)
(* MultipleReaderLock: the kernel's reader/writer spin lock.  One word     *)
(* holds the number of readers and the write request bit.  A reader counts *)
(* itself in and then waits for the bit to clear; a writer sets the bit    *)
(* and then waits for the count to reach 0; readReleaseWriteAcquire()      *)
(* turns a reader into a writer.                                           *)
(*                                                                         *)
(* A step that touches only the caller's locals and its CPU's interrupt    *)
(* flag is merged with the access to the lock that follows it (entering)   *)
(* or precedes it (leaving): neither another CPU nor an ISR can tell.      *)
(***************************************************************************)
EXTENDS CpuIrq, FiniteSets

CONSTANTS
  Readers,      \* contexts that call readAcquire()
  Writers,      \* contexts that call writeAcquire()
  Upgraders,    \* readers that call readReleaseWriteAcquire()
  Uninitialised \* readers that hand in a variable for rwFlags with any value

VARIABLES
  readers,         \* the reader count in Lock::lock
  writeRequest,    \* MR_FLAGS_WRITE_REQUEST in Lock::lock
  flags,           \* Lock::flags & FLAGS_IRQS_WERE_ENABLED
  pc,
  irqFlag,         \* the caller's rwFlags, or writeAcquire()'s contenderFlags
  enableIrqs,      \* writeRelease()'s local
  irqsBefore       \* history: interrupts were on when the caller entered

lockVars == <<readers, writeRequest, flags, pc, irqFlag, enableIrqs, irqsBefore>>
vars == <<irqsOn, inIsr, readers, writeRequest, flags, pc, irqFlag, enableIrqs,
          irqsBefore>>

\* Places where the caller is part of the reader count.
CountedPcs == {"readCheck", "readRelax", "reading", "upgradeBit", "upgradeCount"}

\* Places where the write request bit is set on the caller's behalf.
RequestPcs == {"upgradeCount", "drain", "drainRelax", "upgradeDrain", "writeFlags",
               "writing", "clearBit"}

PcValues == CountedPcs \union RequestPcs \union {"idle", "bitTest", "bitRelax"}

Goto(x, l) == pc' = [pc EXCEPT ![x] = l]

Init ==
  /\ IrqInit
  /\ readers = 0 /\ writeRequest = FALSE /\ flags = FALSE
  /\ pc = [x \in Contexts |-> "idle"]
  /\ irqFlag = [x \in Contexts |-> FALSE]
  /\ enableIrqs = [x \in Contexts |-> FALSE]
  /\ irqsBefore = [x \in Contexts |-> FALSE]

-----------------------------------------------------------------------------
(* readAcquire, readRelease *)

\* The flag is only ever set: it keeps what the caller's variable held.
\* Then interrupts go off and the reader counts itself in.
ReadAcquire(x) ==
  /\ x \in Readers /\ pc[x] = "idle"
  /\ Goto(x, "readCheck")
  /\ \E garbage \in IF x \in Uninitialised THEN BOOLEAN ELSE {FALSE} :
       irqFlag' = [irqFlag EXCEPT ![x] = garbage \/ irqsOn[x[1]]]
  /\ irqsBefore' = [irqsBefore EXCEPT ![x] = irqsOn[x[1]]]
  /\ SetIrqs(x[1], FALSE)
  /\ readers' = readers + 1
  /\ UNCHANGED <<inIsr, writeRequest, flags, enableIrqs>>

\* The spin loop's test; while the bit is set, interrupts go on if the flag
\* says that they were.
ReadCheck(x) ==
  /\ pc[x] = "readCheck"
  /\ IF writeRequest
       THEN Goto(x, "readRelax") /\ SetIrqs(x[1], irqsOn[x[1]] \/ irqFlag[x])
       ELSE Goto(x, "reading") /\ UNCHANGED irqsOn
  /\ UNCHANGED <<inIsr, readers, writeRequest, flags, irqFlag, enableIrqs, irqsBefore>>

ReadRelax(x) ==
  /\ pc[x] = "readRelax"
  /\ Goto(x, "readCheck")
  /\ SetIrqs(x[1], FALSE)
  /\ UNCHANGED <<inIsr, readers, writeRequest, flags, irqFlag, enableIrqs, irqsBefore>>

ReadRelease(x) ==
  /\ pc[x] = "reading"
  /\ Goto(x, "idle")
  /\ readers' = readers - 1
  /\ SetIrqs(x[1], irqsOn[x[1]] \/ irqFlag[x])
  /\ UNCHANGED <<inIsr, writeRequest, flags, irqFlag, enableIrqs, irqsBefore>>

-----------------------------------------------------------------------------
(* writeAcquire, writeRelease *)

WriteAcquire(x) ==
  /\ x \in Writers /\ pc[x] = "idle"
  /\ Goto(x, "bitTest")
  /\ irqFlag' = [irqFlag EXCEPT ![x] = irqsOn[x[1]]]
  /\ irqsBefore' = [irqsBefore EXCEPT ![x] = irqsOn[x[1]]]
  /\ SetIrqs(x[1], FALSE)
  /\ UNCHANGED <<inIsr, readers, writeRequest, flags, enableIrqs>>

\* bitTestAndSet(): the writer that finds the bit clear owns it.
WriteBitTest(x) ==
  /\ pc[x] = "bitTest"
  /\ writeRequest' = TRUE
  /\ IF writeRequest
       THEN Goto(x, "bitRelax") /\ SetIrqs(x[1], irqsOn[x[1]] \/ irqFlag[x])
       ELSE Goto(x, "drain") /\ UNCHANGED irqsOn
  /\ UNCHANGED <<inIsr, readers, flags, irqFlag, enableIrqs, irqsBefore>>

\* Variant: the writer goes ahead without waiting for the readers.
WriteDrainNoWait(x) ==
  /\ pc[x] = "drain"
  /\ Goto(x, "writeFlags")
  /\ UNCHANGED <<irqsOn, inIsr, readers, writeRequest, flags, irqFlag, enableIrqs, irqsBefore>>

\* The owner of the bit waits for the count to reach 0.
WriteDrain(x) ==
  /\ pc[x] = "drain"
  /\ IF readers # 0
       THEN Goto(x, "drainRelax") /\ SetIrqs(x[1], irqsOn[x[1]] \/ irqFlag[x])
       ELSE Goto(x, "writeFlags") /\ UNCHANGED irqsOn
  /\ UNCHANGED <<inIsr, readers, writeRequest, flags, irqFlag, enableIrqs, irqsBefore>>

\* Interrupts off again after a turn of either of writeAcquire()'s loops.
WriteRelax(x) ==
  /\ \/ pc[x] = "bitRelax" /\ Goto(x, "bitTest")
     \/ pc[x] = "drainRelax" /\ Goto(x, "drain")
  /\ SetIrqs(x[1], FALSE)
  /\ UNCHANGED <<inIsr, readers, writeRequest, flags, irqFlag, enableIrqs, irqsBefore>>

\* The last statement of writeAcquire() and of readReleaseWriteAcquire().
SetFlags(x) ==
  /\ pc[x] = "writeFlags"
  /\ Goto(x, "writing")
  /\ flags' = (flags \/ irqFlag[x])
  /\ UNCHANGED <<irqsOn, inIsr, readers, writeRequest, irqFlag, enableIrqs, irqsBefore>>

WriteRelease(x) ==
  /\ pc[x] = "writing"
  /\ Goto(x, "clearBit")
  /\ enableIrqs' = [enableIrqs EXCEPT ![x] = flags]
  /\ flags' = FALSE
  /\ UNCHANGED <<irqsOn, inIsr, readers, writeRequest, irqFlag, irqsBefore>>

\* bitTestAndClear(), then interrupts on if the local says so.
ClearBit(x) ==
  /\ pc[x] = "clearBit"
  /\ Goto(x, "idle")
  /\ writeRequest' = FALSE
  /\ SetIrqs(x[1], irqsOn[x[1]] \/ enableIrqs[x])
  /\ UNCHANGED <<inIsr, readers, flags, irqFlag, enableIrqs, irqsBefore>>

-----------------------------------------------------------------------------
(* readReleaseWriteAcquire: neither of its loops turns interrupts on, so a *)
(* turn that does not end a loop changes nothing.                          *)

UpgradeEnter(x) ==
  /\ x \in Upgraders /\ pc[x] = "reading"
  /\ Goto(x, "upgradeBit")
  /\ UNCHANGED <<irqsOn, inIsr, readers, writeRequest, flags, irqFlag, enableIrqs, irqsBefore>>

UpgradeBit(x) ==
  /\ pc[x] = "upgradeBit"
  /\ IF writeRequest THEN UNCHANGED pc ELSE Goto(x, "upgradeCount")
  /\ writeRequest' = TRUE
  /\ UNCHANGED <<irqsOn, inIsr, readers, flags, irqFlag, enableIrqs, irqsBefore>>

\* Variant: the upgraded reader stays in the count of readers.
UpgradeStaysCounted(x) ==
  /\ pc[x] = "upgradeCount"
  /\ Goto(x, "upgradeDrain")
  /\ UNCHANGED <<irqsOn, inIsr, readers, writeRequest, flags, irqFlag, enableIrqs, irqsBefore>>

UpgradeCount(x) ==
  /\ pc[x] = "upgradeCount"
  /\ Goto(x, "upgradeDrain")
  /\ readers' = readers - 1
  /\ UNCHANGED <<irqsOn, inIsr, writeRequest, flags, irqFlag, enableIrqs, irqsBefore>>

UpgradeDrain(x) ==
  /\ pc[x] = "upgradeDrain"
  /\ IF readers # 0 THEN UNCHANGED pc ELSE Goto(x, "writeFlags")
  /\ UNCHANGED <<irqsOn, inIsr, readers, writeRequest, flags, irqFlag, enableIrqs, irqsBefore>>

-----------------------------------------------------------------------------

IsrEnter(c) == InterruptEntry(c) /\ UNCHANGED lockVars

IsrReturn(c) ==
  /\ pc[<<c, "isr">>] = "idle"
  /\ InterruptReturn(c)
  /\ UNCHANGED lockVars

ReaderStep(x) ==
  \/ ReadAcquire(x)
  \/ ReadCheck(x)
  \/ ReadRelax(x)
  \/ ReadRelease(x)

WriterStep(x) ==
  \/ WriteAcquire(x)
  \/ WriteBitTest(x)
  \/ WriteDrain(x)
  \/ WriteRelax(x)
  \/ SetFlags(x)
  \/ WriteRelease(x)
  \/ ClearBit(x)

UpgraderStep(x) ==
  \/ UpgradeEnter(x)
  \/ UpgradeBit(x)
  \/ UpgradeCount(x)
  \/ UpgradeDrain(x)

ContextStep(x) ==
  Running(x) /\ (ReaderStep(x) \/ WriterStep(x) \/ UpgraderStep(x))

Next ==
  \/ \E x \in Contexts : ContextStep(x)
  \/ \E c \in Cpus : IsrEnter(c) \/ IsrReturn(c)

Spec == Init /\ [][Next]_vars

\* As for WaitLock: whoever is inside the lock's code or a critical section
\* keeps executing while it is its CPU's running context, interrupts do not
\* come so fast that the thread below never executes, ISRs return.
Fairness ==
  /\ \A x \in Contexts : SF_vars(pc[x] # "idle" /\ ContextStep(x))
  /\ \A c \in Cpus : WF_vars(IsrReturn(c))

FairSpec == Spec /\ Fairness

-----------------------------------------------------------------------------
(* Properties *)

Reading(x) == pc[x] \in {"reading", "upgradeBit", "upgradeCount"}
Writing(x) == pc[x] \in {"writeFlags", "writing", "clearBit"}

\* Types of the lock word, the flags word and the callers' locals.
TypeOK ==
  /\ IrqTypeOK
  /\ readers \in Nat /\ writeRequest \in BOOLEAN /\ flags \in BOOLEAN
  /\ pc \in [Contexts -> PcValues]
  /\ irqFlag \in [Contexts -> BOOLEAN]
  /\ enableIrqs \in [Contexts -> BOOLEAN]
  /\ irqsBefore \in [Contexts -> BOOLEAN]

\* The lock word counts exactly the readers that counted themselves in and
\* not yet out (readRelease() or the decrement of an upgrade), and its bit is
\* set on behalf of exactly one writer or upgrader.
LockWordExact ==
  /\ readers = Cardinality({x \in Contexts : pc[x] \in CountedPcs})
  /\ writeRequest <=> \E x \in Contexts : pc[x] \in RequestPcs
  /\ \A x, y \in Contexts : pc[x] \in RequestPcs /\ pc[y] \in RequestPcs => x = y

\* Between the return of writeAcquire() or readReleaseWriteAcquire() and the
\* end of writeRelease() nobody else reads or writes the shared resource.
WriterExclusion ==
  \A x, y \in Contexts :
    Writing(x) /\ x # y => ~Writing(y) /\ ~Reading(y)

\* writeRelease() finds in the flags word what its own acquire stored there.
FlagsAreWriters ==
  /\ \A x \in Contexts : pc[x] = "writing" => flags = irqFlag[x]
  /\ ~writeRequest => ~flags

\* A reader or writer, upgraded or not, leaves its CPU's interrupts as it
\* found them, for callers that initialise rwFlags.
IrqStateRestored ==
  [][\A x \in Contexts :
       pc[x] \in {"reading", "clearBit"} /\ pc'[x] = "idle" /\ x \notin Uninitialised
         => irqsOn'[x[1]] = irqsBefore[x]]_vars

\* A writer that owns the request bit waits only for readers that are
\* counted: it enters, or some reader or upgrader is spinning on the bit.
\* (Such a reader came later and does hold it up: it stays counted while it
\* spins.  So do two upgraders, for each other.)
WriterWaitsForCounted ==
  (\E x \in Contexts : pc[x] \in {"drain", "drainRelax", "upgradeDrain"}) ~>
  (\E x \in Contexts : Writing(x) \/ pc[x] \in {"readCheck", "readRelax", "upgradeBit"})

\* The lock as its users see it.
AbstractLock ==
  INSTANCE ReadersWriter WITH
    Users <- Contexts,
    reading <- {x \in Contexts : Reading(x)},
    writing <- {x \in Contexts : Writing(x)}

\* The lock implements the abstract reader/writer lock; the decrement of an
\* upgrade is where its caller stops being a reader.
ImplementsReadersWriter == AbstractLock!Spec
=============================================================================
