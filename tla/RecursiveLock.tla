---------------------------- MODULE RecursiveLock ----------------------------
(***************************************************************************)
(* RecursiveLock: a spin lock whose word holds the id of the thread that   *)
(* owns it, so that the owner may acquire it again.  An ISR runs under the *)
(* id of the thread it interrupted.  The kernel does not preempt a spinning*)
(* thread, so the thread that runs on CPU c is called c here.              *)
(*                                                                         *)
(* The statements that follow a successful compareAndExchange() touch what *)
(* only the owner touches, with interrupts off, and are one step with it.  *)
(***************************************************************************)
EXTENDS CpuIrq, Naturals

CONSTANTS
  Free,        \* PROCID_INVALID
  MaxDepth     \* bound on how often one context acquires before it releases

VARIABLES
  lock,              \* Lock::lock: the owner's id, or Free
  recursionCount,
  flags,             \* Lock::flags & FLAGS_IRQS_WERE_ENABLED
  pc,
  irqsWereEnabled,   \* the local of acquire(), then that of release()
  depth,             \* history: acquires of each context not yet released
  irqsBefore         \* history: interrupts at the outermost acquire()

lockVars == <<lock, recursionCount, flags, pc, irqsWereEnabled, depth, irqsBefore>>
vars == <<irqsOn, inIsr, lock, recursionCount, flags, pc, irqsWereEnabled, depth,
          irqsBefore>>

Goto(x, l) == pc' = [pc EXCEPT ![x] = l]

Init ==
  /\ IrqInit
  /\ lock = Free /\ recursionCount = 0 /\ flags = FALSE
  /\ pc = [x \in Contexts |-> "caller"]
  /\ irqsWereEnabled = [x \in Contexts |-> FALSE]
  /\ depth = [x \in Contexts |-> 0]
  /\ irqsBefore = [x \in Contexts |-> FALSE]

Acquire(x) ==
  /\ pc[x] = "caller" /\ depth[x] < MaxDepth
  /\ Goto(x, "exchange")
  /\ irqsWereEnabled' = [irqsWereEnabled EXCEPT ![x] = irqsOn[x[1]]]
  /\ irqsBefore' = IF depth[x] = 0 THEN [irqsBefore EXCEPT ![x] = irqsOn[x[1]]]
                                   ELSE irqsBefore
  /\ SetIrqs(x[1], FALSE)
  /\ UNCHANGED <<inIsr, lock, recursionCount, flags, depth>>

\* Variant: the first acquire() is not counted.
TakeUncounted(x) ==
  /\ lock = Free
  /\ lock' = x[1]
  /\ recursionCount' = 0
  /\ flags' = (flags \/ irqsWereEnabled[x])

\* The lock was free: it is ours.
Take(x) ==
  /\ lock = Free
  /\ lock' = x[1]
  /\ recursionCount' = 1
  /\ flags' = (flags \/ irqsWereEnabled[x])

\* It was ours already.
TakeAgain(x) ==
  /\ lock = x[1]
  /\ recursionCount' = recursionCount + 1
  /\ UNCHANGED <<lock, flags>>

\* compareAndExchange(&lock, PROCID_INVALID, currThreadId) and acquire()'s two
\* returns.
CompareExchange(x) ==
  /\ pc[x] = "exchange"
  /\ Take(x) \/ TakeAgain(x)
  /\ Goto(x, "caller")
  /\ depth' = [depth EXCEPT ![x] = @ + 1]
  /\ UNCHANGED <<irqsOn, inIsr, irqsWereEnabled, irqsBefore>>

\* Somebody else owns it: interrupts on, if they were, while the CPU relaxes.
CompareExchangeFails(x) ==
  /\ pc[x] = "exchange" /\ lock \notin {Free, x[1]}
  /\ Goto(x, "relax")
  /\ SetIrqs(x[1], irqsOn[x[1]] \/ irqsWereEnabled[x])
  /\ UNCHANGED <<inIsr, lock, recursionCount, flags, irqsWereEnabled, depth, irqsBefore>>

\* Variant: interrupts stay on for the next attempt.
RelaxIrqsLeftOn(x) ==
  /\ pc[x] = "relax"
  /\ Goto(x, "exchange")
  /\ UNCHANGED <<irqsOn, inIsr, lock, recursionCount, flags, irqsWereEnabled, depth, irqsBefore>>

Relax(x) ==
  /\ pc[x] = "relax"
  /\ Goto(x, "exchange")
  /\ SetIrqs(x[1], FALSE)
  /\ UNCHANGED <<inIsr, lock, recursionCount, flags, irqsWereEnabled, depth, irqsBefore>>

\* Variant: the count is not tested, so the first release() of a nest opens
\* the lock.
ReleaseAlways(x) ==
  /\ pc[x] = "caller" /\ depth[x] > 0
  /\ depth' = [depth EXCEPT ![x] = @ - 1]
  /\ recursionCount' = recursionCount - 1
  /\ Goto(x, "unlock")
  /\ irqsWereEnabled' = [irqsWereEnabled EXCEPT ![x] = flags]
  /\ flags' = FALSE
  /\ UNCHANGED <<irqsOn, inIsr, lock, irqsBefore>>

\* release() by a context that holds the lock.  The last one moves the flag
\* into its local.
Release(x) ==
  /\ pc[x] = "caller" /\ depth[x] > 0
  /\ depth' = [depth EXCEPT ![x] = @ - 1]
  /\ recursionCount' = recursionCount - 1
  /\ IF recursionCount = 1
       THEN /\ Goto(x, "unlock")
            /\ irqsWereEnabled' = [irqsWereEnabled EXCEPT ![x] = flags]
            /\ flags' = FALSE
       ELSE UNCHANGED <<pc, irqsWereEnabled, flags>>
  /\ UNCHANGED <<irqsOn, inIsr, lock, irqsBefore>>

\* ... opens the lock, and turns interrupts on if they were.
Unlock(x) ==
  /\ pc[x] = "unlock"
  /\ Goto(x, "caller")
  /\ lock' = Free
  /\ SetIrqs(x[1], irqsOn[x[1]] \/ irqsWereEnabled[x])
  /\ UNCHANGED <<inIsr, recursionCount, flags, irqsWereEnabled, depth, irqsBefore>>

-----------------------------------------------------------------------------

IsrEnter(c) == InterruptEntry(c) /\ UNCHANGED lockVars

IsrReturn(c) ==
  /\ pc[<<c, "isr">>] = "caller" /\ depth[<<c, "isr">>] = 0
  /\ InterruptReturn(c)
  /\ UNCHANGED lockVars

ContextStep(x) ==
  /\ Running(x)
  /\ \/ Acquire(x)
     \/ CompareExchange(x)
     \/ CompareExchangeFails(x)
     \/ Relax(x)
     \/ Release(x)
     \/ Unlock(x)

Next ==
  \/ \E x \in Contexts : ContextStep(x)
  \/ \E c \in Cpus : IsrEnter(c) \/ IsrReturn(c)

Spec == Init /\ [][Next]_vars

\* A context inside the lock's code goes on, a critical section ends, an ISR
\* returns; interrupts leave the thread below them time to execute.
Fairness ==
  /\ \A x \in Contexts :
       SF_vars(Running(x) /\ (CompareExchange(x) \/ CompareExchangeFails(x)
                              \/ Relax(x) \/ Unlock(x)))
  /\ \A x \in Contexts :
       /\ SF_vars(Running(x) /\ depth[x] = 1 /\ Release(x))
       /\ SF_vars(Running(x) /\ depth[x] > 1 /\ Release(x))
  /\ \A c \in Cpus : WF_vars(IsrReturn(c))

FairSpec == Spec /\ Fairness

-----------------------------------------------------------------------------
(* Properties *)

\* Types of the lock's members and of the locals.
TypeOK ==
  /\ IrqTypeOK
  /\ lock \in Cpus \union {Free}
  /\ recursionCount \in 0 .. MaxDepth
  /\ flags \in BOOLEAN
  /\ pc \in [Contexts -> {"caller", "exchange", "relax", "unlock"}]
  /\ irqsWereEnabled \in [Contexts -> BOOLEAN]
  /\ depth \in [Contexts -> 0 .. MaxDepth]
  /\ irqsBefore \in [Contexts -> BOOLEAN]

\* The lock belongs to one thread at a time: whoever holds it, thread or ISR,
\* runs under the id in the lock word.
OneOwner == \A x \in Contexts : depth[x] > 0 \/ pc[x] = "unlock" => lock = x[1]

\* recursionCount is the number of acquires that the owner still has to
\* release, over all levels of nesting.
CountIsDepth ==
  /\ lock = Free => recursionCount = 0
  /\ \A c \in Cpus :
       lock = c => recursionCount = depth[<<c, "thread">>] + depth[<<c, "isr">>]

\* Only the outermost release() restores interrupts, and it restores what the
\* outermost acquire() found; an inner one leaves them off.
OutermostRestores ==
  [][\A x \in Contexts :
       /\ pc[x] = "unlock" /\ pc'[x] = "caller" => irqsOn'[x[1]] = irqsBefore[x]
       /\ depth'[x] < depth[x] => irqsOn'[x[1]] = FALSE]_vars

\* A holder is never interrupted, so no ISR finds itself the owner of a lock
\* that its thread is in the middle of using.
HolderNotInterrupted ==
  \A c \in Cpus : inIsr[c] => depth[<<c, "thread">>] = 0 /\ pc[<<c, "thread">>] # "unlock"

\* While somebody spins, the lock is opened and handed out again and again.
WaiterProgress ==
  LET Waits == \E x \in Contexts : pc[x] \in {"exchange", "relax"}
  IN  /\ Waits /\ lock # Free ~> lock = Free
      /\ Waits /\ lock = Free ~> lock # Free

AbstractLock ==
  INSTANCE ReadersWriter WITH
    Users <- Cpus,
    reading <- {},
    writing <- {x[1] : x \in {y \in Contexts : depth[y] > 0 \/ pc[y] = "unlock"}}

\* Seen by threads, the lock is the abstract lock: nested acquires and
\* releases are invisible.
ImplementsMutex == AbstractLock!Spec
=============================================================================
