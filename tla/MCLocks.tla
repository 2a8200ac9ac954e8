------------------------------- MODULE MCLocks ------------------------------
(***************************************************************************)
(* The three spin locks on two CPUs, each with a thread and an ISR.  The   *)
(* locks know nothing of each other: one behaviour is about one of them,   *)
(* `kind', and the other two stay as they are.                             *)
(***************************************************************************)
EXTENDS MultipleReaderLock, TLC

CONSTANTS cpu0, cpu1, Free, MaxDepth

\* Of the MultipleReaderLock: threads read and upgrade; the thread of one CPU
\* and the ISR of the other write, as the ISR of the system clock writes the
\* time that threads read; one reader does not initialise its flags.
MCThreads == {<<cpu0, "thread">>, <<cpu1, "thread">>}
MCWriters == {<<cpu0, "thread">>, <<cpu1, "isr">>}
MCUninitialised == {<<cpu1, "thread">>}

VARIABLES
  kind,
  waitLock, waitFlags, waitPc, contenderFlags, waitEnable,
  owner, recursionCount, recFlags, recPc, irqsWereEnabled, depth, recBefore

waitVars == <<waitLock, waitFlags, waitPc, contenderFlags, waitEnable>>
recVars == <<owner, recursionCount, recFlags, recPc, irqsWereEnabled, depth, recBefore>>
allVars == <<kind, vars, waitVars, recVars>>

W ==
  INSTANCE WaitLock WITH
    lock <- waitLock, flags <- waitFlags, pc <- waitPc, enableIrqs <- waitEnable

R ==
  INSTANCE RecursiveLock WITH
    lock <- owner, flags <- recFlags, pc <- recPc, irqsBefore <- recBefore

MCInit == kind \in {"WaitLock", "MultipleReaderLock", "RecursiveLock"} /\ Init /\ W!Init /\ R!Init

OfWait(A) == kind = "WaitLock" /\ A /\ UNCHANGED <<kind, lockVars, recVars>>
OfMr(A) == kind = "MultipleReaderLock" /\ A /\ UNCHANGED <<kind, waitVars, recVars>>
OfRec(A) == kind = "RecursiveLock" /\ A /\ UNCHANGED <<kind, lockVars, waitVars>>

MCNext == OfWait(W!Next) \/ OfMr(Next) \/ OfRec(R!Next)

\* The fairness of the three modules.
InsideStep(x) ==
  \/ OfWait(waitPc[x] # "idle" /\ W!ContextStep(x))
  \/ OfMr(pc[x] # "idle" /\ ContextStep(x))
  \/ OfRec(recPc[x] # "caller" /\ R!ContextStep(x))
  \/ OfRec(Running(x) /\ depth[x] > 1 /\ R!Release(x))

LastRelease(x) == OfRec(Running(x) /\ depth[x] = 1 /\ R!Release(x))

IsrReturns(c) == OfWait(W!IsrReturn(c)) \/ OfMr(IsrReturn(c)) \/ OfRec(R!IsrReturn(c))

MCFairSpec ==
  /\ MCInit /\ [][MCNext]_allVars
  /\ \A x \in Contexts : SF_allVars(InsideStep(x)) /\ SF_allVars(LastRelease(x))
  /\ \A c \in Cpus : WF_allVars(IsrReturns(c))
-----------------------------------------------------------------------------
(* What the three modules state, lock by lock, taken together.             *)

\* WaitLock, RecursiveLock: no ISR runs on top of a holder, which it would
\* spin for, or whose RecursiveLock it would enter.
HolderNotInterrupted == W!HolderNotInterrupted /\ R!HolderNotInterrupted

\* RecursiveLock: the owner is one thread, and the count the depth of its nest.
\* WaitLock, MultipleReaderLock: the release reads the flag that the acquire
\* of the same holder stored in the lock.
HolderOwnsState == R!OneOwner /\ R!CountIsDepth /\ W!FlagsAreHolders /\ FlagsAreWriters

\* All three: the last release leaves interrupts as the first acquire found
\* them.
IrqsRestored == IrqStateRestored /\ W!IrqStateRestored /\ R!OutermostRestores


\* WaitLock, RecursiveLock: they implement the abstract lock, whose users are
\* inside one at a time.
ImplementsMutex == W!ImplementsMutex /\ R!ImplementsMutex
=============================================================================
