------------------------------ MODULE WaitLock ------------------------------
(***************************************************************************)
(* WaitLock: the kernel's non-sleeping lock.  acquire() turns the local    *)
(* interrupts off and spins on an atomic exchange; a contender that had    *)
(* interrupts on turns them on again while it spins, so an ISR that wants  *)
(* the same lock may run on top of a spinning thread.  The holder keeps    *)
(* "interrupts were on before" in the lock's own flags word, from which    *)
(* release() restores them.                                                *)
(*                                                                         *)
(* The multiprocessor build is modelled (__SCALING__ >= SCALING_SMP, the   *)
(* default) without CONFIG_DEBUG_LOCKS.                                    *)
(***************************************************************************)
EXTENDS CpuIrq

VARIABLES
  lock,            \* Lock::lock, 0 or 1
  flags,           \* Lock::flags & FLAGS_IRQS_WERE_ENABLED
  pc,              \* where each context is
  contenderFlags,  \* acquire()'s local of the same name
  enableIrqs       \* release()'s local of the same name

lockVars == <<lock, flags, pc, contenderFlags, enableIrqs>>
vars == <<irqsOn, inIsr, lock, flags, pc, contenderFlags, enableIrqs>>

PcValues ==
  {"idle", "exchange", "relax", "setFlags", "held", "unlock", "restore",
   "unlockNoIrqs"}

\* The lock word is 1 on behalf of a context that is in one of these places.
HoldingPcs == {"setFlags", "held", "unlock", "unlockNoIrqs"}

Holds(x) == pc[x] \in HoldingPcs

Waits(x) == pc[x] \in {"exchange", "relax"}

Goto(x, l) == pc' = [pc EXCEPT ![x] = l]

Init ==
  /\ IrqInit
  /\ lock = 0
  /\ flags = FALSE
  /\ pc = [x \in Contexts |-> "idle"]
  /\ contenderFlags = [x \in Contexts |-> FALSE]
  /\ enableIrqs = [x \in Contexts |-> FALSE]

-----------------------------------------------------------------------------
(* WaitLock::acquire *)


\* Remember whether interrupts were on, and turn them off.
AcquireEnter(x) ==
  /\ pc[x] = "idle"
  /\ Goto(x, "exchange")
  /\ contenderFlags' = [contenderFlags EXCEPT ![x] = irqsOn[x[1]]]
  /\ SetIrqs(x[1], FALSE)
  /\ UNCHANGED <<inIsr, lock, flags, enableIrqs>>

\* ARCH_ATOMIC_WAITLOCK_HEADER(&lock, 1, 0): the exchange that finds 0 wins;
\* one that finds 1 turns interrupts on again, if they were, and relaxes.
AcquireExchange(x) ==
  /\ pc[x] = "exchange"
  /\ lock' = 1
  /\ IF lock = 0
       THEN Goto(x, "setFlags") /\ UNCHANGED irqsOn
       ELSE Goto(x, "relax") /\ SetIrqs(x[1], contenderFlags[x])
  /\ UNCHANGED <<inIsr, flags, contenderFlags, enableIrqs>>

\* subZero(), then interrupts off before the next attempt.
AcquireRelax(x) ==
  /\ pc[x] = "relax"
  /\ Goto(x, "exchange")
  /\ SetIrqs(x[1], FALSE)
  /\ UNCHANGED <<inIsr, lock, flags, contenderFlags, enableIrqs>>

\* Variant: the flag is not stored.
AcquireForgetFlags(x) ==
  /\ pc[x] = "setFlags"
  /\ Goto(x, "held")
  /\ UNCHANGED <<irqsOn, inIsr, lock, flags, contenderFlags, enableIrqs>>

\* flags |= contenderFlags
AcquireSetFlags(x) ==
  /\ pc[x] = "setFlags"
  /\ Goto(x, "held")
  /\ flags' = (flags \/ contenderFlags[x])
  /\ UNCHANGED <<irqsOn, inIsr, lock, contenderFlags, enableIrqs>>

-----------------------------------------------------------------------------
(* WaitLock::release and WaitLock::releaseNoIrqs *)

\* Move the flag into the local and clear it while the lock is still held.
ReleaseEnter(x) ==
  /\ pc[x] = "held"
  /\ Goto(x, "unlock")
  /\ enableIrqs' = [enableIrqs EXCEPT ![x] = flags]
  /\ flags' = FALSE
  /\ UNCHANGED <<irqsOn, inIsr, lock, contenderFlags>>

\* atomicAsm::set(&lock, 0)
ReleaseUnlock(x) ==
  /\ pc[x] = "unlock"
  /\ Goto(x, "restore")
  /\ lock' = 0
  /\ UNCHANGED <<irqsOn, inIsr, flags, contenderFlags, enableIrqs>>

\* Interrupts go back on if the local says so.
ReleaseRestore(x) ==
  /\ pc[x] = "restore"
  /\ Goto(x, "idle")
  /\ SetIrqs(x[1], irqsOn[x[1]] \/ enableIrqs[x])
  /\ UNCHANGED <<inIsr, lock, flags, contenderFlags, enableIrqs>>

\* releaseNoIrqs(): the flag is dropped ...
ReleaseNoIrqsEnter(x) ==
  /\ pc[x] = "held"
  /\ Goto(x, "unlockNoIrqs")
  /\ flags' = FALSE
  /\ UNCHANGED <<irqsOn, inIsr, lock, contenderFlags, enableIrqs>>

\* ... and interrupts stay off when the lock is free again.
ReleaseNoIrqsUnlock(x) ==
  /\ pc[x] = "unlockNoIrqs"
  /\ Goto(x, "idle")
  /\ lock' = 0
  /\ UNCHANGED <<irqsOn, inIsr, flags, contenderFlags, enableIrqs>>

-----------------------------------------------------------------------------
(* The users of the lock *)

\* A thread that is not inside the lock's code turns its interrupts on or off.
ThreadSetsIrqs(c) ==
  /\ pc[<<c, "thread">>] = "idle"
  /\ ~inIsr[c]
  /\ SetIrqs(c, ~irqsOn[c])
  /\ UNCHANGED <<inIsr, lockVars>>

IsrEnter(c) == InterruptEntry(c) /\ UNCHANGED lockVars

\* An ISR returns once it holds nothing.
IsrReturn(c) ==
  /\ pc[<<c, "isr">>] = "idle"
  /\ InterruptReturn(c)
  /\ UNCHANGED lockVars

ContextStep(x) ==
  /\ Running(x)
  /\ \/ AcquireEnter(x)
     \/ AcquireExchange(x)
     \/ AcquireRelax(x)
     \/ AcquireSetFlags(x)
     \/ ReleaseEnter(x)
     \/ ReleaseNoIrqsEnter(x)
     \/ ReleaseNoIrqsUnlock(x)
     \/ ReleaseUnlock(x)
     \/ ReleaseRestore(x)

Next ==
  \/ \E x \in Contexts : ContextStep(x)
  \/ \E c \in Cpus : ThreadSetsIrqs(c) \/ IsrEnter(c) \/ IsrReturn(c)

Spec == Init /\ [][Next]_vars

\* A context that is inside the lock's code, or inside the critical section,
\* goes on executing whenever it is the running one of its CPU; interrupts do
\* not arrive so fast that the thread below them never executes (strong
\* fairness); and an ISR returns.  Nothing forces a context to ask for the
\* lock.
Fairness ==
  /\ \A x \in Contexts : SF_vars(pc[x] # "idle" /\ ContextStep(x))
  /\ \A c \in Cpus : WF_vars(IsrReturn(c))

FairSpec == Spec /\ Fairness

-----------------------------------------------------------------------------
(* Properties *)

\* Types of the lock's state and of the locals of acquire() and release().
TypeOK ==
  /\ IrqTypeOK
  /\ lock \in {0, 1}
  /\ flags \in BOOLEAN
  /\ pc \in [Contexts -> PcValues]
  /\ contenderFlags \in [Contexts -> BOOLEAN]
  /\ enableIrqs \in [Contexts -> BOOLEAN]

\* acquire() returns to one context at a time, threads and ISRs of all CPUs
\* taken together, and the lock word says whether somebody is inside.
MutualExclusion ==
  /\ \A x, y \in Contexts : Holds(x) /\ Holds(y) => x = y
  /\ (lock = 1) <=> (\E x \in Contexts : Holds(x))

\* A holder is never interrupted: no ISR runs above it, so no ISR can spin on
\* its own CPU's thread (acquire() turns interrupts off before the exchange).
HolderNotInterrupted ==
  \A x \in Contexts : Holds(x) => Running(x) /\ ~irqsOn[x[1]]

\* The flags word read by release() is the one its own acquire() stored, and
\* a free lock carries no flag of an earlier holder.
FlagsAreHolders ==
  /\ \A x \in Contexts : pc[x] = "held" => flags = contenderFlags[x]
  /\ lock = 0 => ~flags

\* release() leaves the local interrupts as acquire() found them, however the
\* lock changed hands and whatever ran on the CPU in between.
IrqStateRestored ==
  [][\A x \in Contexts :
       pc[x] = "restore" /\ pc'[x] = "idle"
         => irqsOn'[x[1]] = contenderFlags[x]]_vars

\* As long as somebody spins, the lock keeps being handed out: holders are
\* not stuck under spinning ISRs.  (A spin lock promises nothing to any one
\* of several contenders.)
WaiterProgress ==
  (\E x \in Contexts : Waits(x)) ~> (\E x \in Contexts : pc[x] = "setFlags")

\* The lock as its users see it: none of them shares it.
AbstractLock ==
  INSTANCE ReadersWriter WITH
    Users <- Contexts,
    reading <- {},
    writing <- {x \in Contexts : Holds(x)}

\* WaitLock implements the abstract lock: the exchange that finds the lock
\* free enters, the store of 0 leaves, and every other step is invisible.
ImplementsMutex == AbstractLock!Spec
=============================================================================
