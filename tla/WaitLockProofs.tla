--------------------------- MODULE WaitLockProofs ---------------------------
(***************************************************************************)
(* Machine-checked proofs about WaitLock, for any set of CPUs.             *)
(***************************************************************************)
EXTENDS WaitLock, TLAPS

-----------------------------------------------------------------------------
(* The inductive invariant, one conjunct per idea *)

\* What an ISR can have interrupted: a thread outside the lock's code, or one
\* that relaxes between two attempts.  The gate left interrupts off.
IsrAbove ==
  \A c \in Cpus :
    inIsr[c] => ~irqsOn[c] /\ pc[<<c, "thread">>] \in {"idle", "relax"}

\* An ISR is inside the lock's code only while it executes, and it found
\* interrupts off.
IsrIdle ==
  \A c \in Cpus :
    /\ ~inIsr[c] => pc[<<c, "isr">>] = "idle"
    /\ ~contenderFlags[<<c, "isr">>]

\* Everywhere else in the lock's code interrupts are off.
IrqsOffInside ==
  \A x \in Contexts : pc[x] \notin {"idle", "relax"} => ~irqsOn[x[1]]

IrqInv == IsrAbove /\ IsrIdle /\ IrqsOffInside

\* Who owns the flag at each point of its way through the lock's flags word.
FlagInv ==
  /\ lock = 0 => ~flags
  /\ \A x \in Contexts :
       /\ pc[x] \in {"setFlags", "unlock", "unlockNoIrqs"} => ~flags
       /\ pc[x] = "held" => flags = contenderFlags[x]
       /\ pc[x] \in {"unlock", "restore"} => enableIrqs[x] = contenderFlags[x]

IInv == TypeOK /\ MutualExclusion /\ IrqInv /\ FlagInv

-----------------------------------------------------------------------------

\* A context is a CPU and a level, and the two levels differ.
LEMMA ContextFacts ==
  ASSUME NEW x \in Contexts
  PROVE  /\ x[1] \in Cpus
         /\ x[2] \in Levels
         /\ x = <<x[1], x[2]>>
         /\ x[2] # "isr" => x = <<x[1], "thread">>
         /\ x[2] = "isr" => x = <<x[1], "isr">>
BY DEF Contexts, Levels

\* Every CPU has a thread context and an ISR context.
LEMMA CpuFacts ==
  ASSUME NEW c \in Cpus
  PROVE  <<c, "thread">> \in Contexts /\ <<c, "isr">> \in Contexts
BY DEF Contexts, Levels

\* The initial states of the lock satisfy the inductive invariant.
LEMMA InitIInv == Init => IInv
<1> SUFFICES ASSUME Init PROVE IInv
    OBVIOUS
<1> USE DEF Init, IrqInit
<1>1. TypeOK
    BY DEF TypeOK, IrqTypeOK, PcValues
<1>2. MutualExclusion
    BY DEF MutualExclusion, Holds, HoldingPcs
<1>3. IrqInv
    BY CpuFacts DEF IrqInv, IsrAbove, IsrIdle, IrqsOffInside
<1>4. FlagInv
    BY DEF FlagInv
<1> QED BY <1>1, <1>2, <1>3, <1>4 DEF IInv

\* Types are preserved by every step.
LEMMA TypeStep == TypeOK /\ [Next]_vars => TypeOK'
<1> SUFFICES ASSUME TypeOK, [Next]_vars PROVE TypeOK'
    OBVIOUS
<1> USE DEF TypeOK, IrqTypeOK, PcValues, SetIrqs, Goto, lockVars
<1>1. ASSUME NEW x \in Contexts, ContextStep(x) PROVE TypeOK'
  <2>1. CASE AcquireEnter(x)
      BY <2>1, ContextFacts DEF AcquireEnter
  <2>2. CASE AcquireExchange(x)
      BY <2>2, ContextFacts DEF AcquireExchange
  <2>3. CASE AcquireRelax(x)
      BY <2>3, ContextFacts DEF AcquireRelax
  <2>4. CASE AcquireSetFlags(x)
      BY <2>4, ContextFacts DEF AcquireSetFlags
  <2>5. CASE ReleaseEnter(x)
      BY <2>5, ContextFacts DEF ReleaseEnter
  <2>6. CASE ReleaseNoIrqsEnter(x)
      BY <2>6, ContextFacts DEF ReleaseNoIrqsEnter
  <2>7. CASE ReleaseNoIrqsUnlock(x)
      BY <2>7, ContextFacts DEF ReleaseNoIrqsUnlock
  <2>8. CASE ReleaseUnlock(x)
      BY <2>8, ContextFacts DEF ReleaseUnlock
  <2>9. CASE ReleaseRestore(x)
      BY <2>9, ContextFacts DEF ReleaseRestore
  <2> QED BY <1>1, <2>1, <2>2, <2>3, <2>4, <2>5, <2>6, <2>7, <2>8, <2>9 DEF ContextStep
<1>2. ASSUME NEW c \in Cpus, ThreadSetsIrqs(c) PROVE TypeOK'
    BY <1>2 DEF ThreadSetsIrqs
<1>3. ASSUME NEW c \in Cpus, IsrEnter(c) PROVE TypeOK'
    BY <1>3 DEF IsrEnter, InterruptEntry
<1>4. ASSUME NEW c \in Cpus, IsrReturn(c) PROVE TypeOK'
    BY <1>4 DEF IsrReturn, InterruptReturn
<1>5. CASE UNCHANGED vars
    BY <1>5 DEF vars
<1> QED BY <1>1, <1>2, <1>3, <1>4, <1>5 DEF Next

\* The inductive invariant is preserved by every step of the lock.
LEMMA StepIInv == IInv /\ [Next]_vars => IInv'
<1> SUFFICES ASSUME IInv, [Next]_vars PROVE IInv'
    OBVIOUS
<1>t. TypeOK /\ TypeOK'
    BY TypeStep DEF IInv
<1>1. ASSUME NEW x \in Contexts, ContextStep(x)
      PROVE  MutualExclusion' /\ IrqInv' /\ FlagInv'
  <2> USE <1>t, ContextFacts, CpuFacts
      DEF TypeOK, IrqTypeOK, SetIrqs, Goto, Holds, HoldingPcs, PcValues,
          Running, Contexts, Levels
  <2>r. Running(x) /\ MutualExclusion /\ IrqInv /\ FlagInv
      BY <1>1 DEF ContextStep, IInv
  <2>1. CASE AcquireEnter(x)
    <3>1. MutualExclusion'
        BY <2>1, <2>r DEF AcquireEnter, MutualExclusion
    <3>2. IsrAbove'
        BY <2>1, <2>r DEF AcquireEnter, IrqInv, IsrAbove, IsrIdle
    <3>3. IsrIdle'
        BY <2>1, <2>r DEF AcquireEnter, IrqInv, IsrAbove, IsrIdle
    <3>4. IrqsOffInside'
        BY <2>1, <2>r DEF AcquireEnter, IrqInv, IrqsOffInside, IsrIdle
    <3>5. FlagInv'
        BY <2>1, <2>r DEF AcquireEnter, FlagInv, MutualExclusion
    <3> QED BY <3>1, <3>2, <3>3, <3>4, <3>5 DEF IrqInv
  <2>2. CASE AcquireExchange(x)
    <3>1. MutualExclusion'
        BY <2>2, <2>r DEF AcquireExchange, MutualExclusion
    <3>2. IsrAbove'
        BY <2>2, <2>r DEF AcquireExchange, IrqInv, IsrAbove, IsrIdle
    <3>3. IsrIdle'
      <4>1. UNCHANGED <<inIsr, contenderFlags>> /\ \A y \in Contexts : y # x => pc'[y] = pc[y]
          BY <2>2 DEF AcquireExchange
      <4> SUFFICES ASSUME NEW c \in Cpus
                   PROVE  /\ ~inIsr'[c] => pc'[<<c, "isr">>] = "idle"
                          /\ ~contenderFlags'[<<c, "isr">>]
          BY DEF IsrIdle
      <4>2. x = <<c, "isr">> => inIsr[c]
          BY <2>r
      <4> QED BY <4>1, <4>2, <2>r DEF IrqInv, IsrIdle
    <3>4. IrqsOffInside'
        BY <2>2, <2>r DEF AcquireExchange, IrqInv, IrqsOffInside, IsrIdle
    <3>5. FlagInv'
        BY <2>2, <2>r DEF AcquireExchange, FlagInv, MutualExclusion
    <3> QED BY <3>1, <3>2, <3>3, <3>4, <3>5 DEF IrqInv
  <2>3. CASE AcquireRelax(x)
    <3>1. MutualExclusion'
        BY <2>3, <2>r DEF AcquireRelax, MutualExclusion
    <3>2. IsrAbove'
        BY <2>3, <2>r DEF AcquireRelax, IrqInv, IsrAbove, IsrIdle
    <3>3. IsrIdle'
        BY <2>3, <2>r DEF AcquireRelax, IrqInv, IsrAbove, IsrIdle
    <3>4. IrqsOffInside'
        BY <2>3, <2>r DEF AcquireRelax, IrqInv, IrqsOffInside, IsrIdle
    <3>5. FlagInv'
        BY <2>3, <2>r DEF AcquireRelax, FlagInv, MutualExclusion
    <3> QED BY <3>1, <3>2, <3>3, <3>4, <3>5 DEF IrqInv
  <2>4. CASE AcquireSetFlags(x)
    <3>1. MutualExclusion'
        BY <2>4, <2>r DEF AcquireSetFlags, MutualExclusion
    <3>2. IsrAbove'
        BY <2>4, <2>r DEF AcquireSetFlags, IrqInv, IsrAbove, IsrIdle
    <3>3. IsrIdle'
        BY <2>4, <2>r DEF AcquireSetFlags, IrqInv, IsrAbove, IsrIdle
    <3>4. IrqsOffInside'
        BY <2>4, <2>r DEF AcquireSetFlags, IrqInv, IrqsOffInside, IsrIdle
    <3>5. FlagInv'
        BY <2>4, <2>r DEF AcquireSetFlags, FlagInv, MutualExclusion
    <3> QED BY <3>1, <3>2, <3>3, <3>4, <3>5 DEF IrqInv
  <2>5. CASE ReleaseEnter(x)
    <3>1. MutualExclusion'
        BY <2>5, <2>r DEF ReleaseEnter, MutualExclusion
    <3>2. IsrAbove'
        BY <2>5, <2>r DEF ReleaseEnter, IrqInv, IsrAbove, IsrIdle
    <3>3. IsrIdle'
        BY <2>5, <2>r DEF ReleaseEnter, IrqInv, IsrAbove, IsrIdle
    <3>4. IrqsOffInside'
        BY <2>5, <2>r DEF ReleaseEnter, IrqInv, IrqsOffInside, IsrIdle
    <3>5. FlagInv'
        BY <2>5, <2>r DEF ReleaseEnter, FlagInv, MutualExclusion
    <3> QED BY <3>1, <3>2, <3>3, <3>4, <3>5 DEF IrqInv
  <2>6. CASE ReleaseNoIrqsEnter(x)
    <3>1. MutualExclusion'
        BY <2>6, <2>r DEF ReleaseNoIrqsEnter, MutualExclusion
    <3>2. IsrAbove'
        BY <2>6, <2>r DEF ReleaseNoIrqsEnter, IrqInv, IsrAbove, IsrIdle
    <3>3. IsrIdle'
        BY <2>6, <2>r DEF ReleaseNoIrqsEnter, IrqInv, IsrAbove, IsrIdle
    <3>4. IrqsOffInside'
        BY <2>6, <2>r DEF ReleaseNoIrqsEnter, IrqInv, IrqsOffInside, IsrIdle
    <3>5. FlagInv'
        BY <2>6, <2>r DEF ReleaseNoIrqsEnter, FlagInv, MutualExclusion
    <3> QED BY <3>1, <3>2, <3>3, <3>4, <3>5 DEF IrqInv
  <2>7. CASE ReleaseNoIrqsUnlock(x)
    <3>1. MutualExclusion'
        BY <2>7, <2>r DEF ReleaseNoIrqsUnlock, MutualExclusion
    <3>2. IsrAbove'
        BY <2>7, <2>r DEF ReleaseNoIrqsUnlock, IrqInv, IsrAbove, IsrIdle
    <3>3. IsrIdle'
        BY <2>7, <2>r DEF ReleaseNoIrqsUnlock, IrqInv, IsrAbove, IsrIdle
    <3>4. IrqsOffInside'
        BY <2>7, <2>r DEF ReleaseNoIrqsUnlock, IrqInv, IrqsOffInside, IsrIdle
    <3>5. FlagInv'
        BY <2>7, <2>r DEF ReleaseNoIrqsUnlock, FlagInv, MutualExclusion
    <3> QED BY <3>1, <3>2, <3>3, <3>4, <3>5 DEF IrqInv
  <2>8. CASE ReleaseUnlock(x)
    <3>1. MutualExclusion'
        BY <2>8, <2>r DEF ReleaseUnlock, MutualExclusion
    <3>2. IsrAbove'
        BY <2>8, <2>r DEF ReleaseUnlock, IrqInv, IsrAbove, IsrIdle
    <3>3. IsrIdle'
        BY <2>8, <2>r DEF ReleaseUnlock, IrqInv, IsrAbove, IsrIdle
    <3>4. IrqsOffInside'
        BY <2>8, <2>r DEF ReleaseUnlock, IrqInv, IrqsOffInside, IsrIdle
    <3>5. FlagInv'
        BY <2>8, <2>r DEF ReleaseUnlock, FlagInv, MutualExclusion
    <3> QED BY <3>1, <3>2, <3>3, <3>4, <3>5 DEF IrqInv
  <2>9. CASE ReleaseRestore(x)
    <3>1. MutualExclusion'
        BY <2>9, <2>r DEF ReleaseRestore, MutualExclusion
    <3>2. IsrAbove'
        BY <2>9, <2>r DEF ReleaseRestore, IrqInv, IsrAbove, IsrIdle, FlagInv
    <3>3. IsrIdle'
        BY <2>9, <2>r DEF ReleaseRestore, IrqInv, IsrAbove, IsrIdle
    <3>4. IrqsOffInside'
        BY <2>9, <2>r DEF ReleaseRestore, IrqInv, IrqsOffInside, IsrIdle, IsrAbove, FlagInv
    <3>5. FlagInv'
        BY <2>9, <2>r DEF ReleaseRestore, FlagInv, MutualExclusion
    <3> QED BY <3>1, <3>2, <3>3, <3>4, <3>5 DEF IrqInv
  <2> QED BY <1>1, <2>1, <2>2, <2>3, <2>4, <2>5, <2>6, <2>7, <2>8, <2>9 DEF ContextStep
<1>2. ASSUME NEW c \in Cpus, ThreadSetsIrqs(c) PROVE MutualExclusion' /\ IrqInv' /\ FlagInv'
    BY <1>2, <1>t, ContextFacts, CpuFacts
    DEF ThreadSetsIrqs, IInv, SetIrqs, lockVars, TypeOK, IrqTypeOK, Contexts, Levels,
        MutualExclusion, IrqInv, IsrAbove, IsrIdle, IrqsOffInside, FlagInv, Holds,
        HoldingPcs, PcValues
<1>3. ASSUME NEW c \in Cpus, IsrEnter(c) PROVE MutualExclusion' /\ IrqInv' /\ FlagInv'
  <2> USE <1>3, <1>t, ContextFacts, CpuFacts
      DEF IsrEnter, InterruptEntry, IInv, lockVars, TypeOK, IrqTypeOK
  <2>1. MutualExclusion' /\ FlagInv'
      BY DEF MutualExclusion, FlagInv, Holds
  <2>2. IsrAbove'
    <3>1. pc[<<c, "thread">>] \in {"idle", "relax"}
      <4>1. <<c, "thread">> \in Contexts /\ <<c, "thread">>[1] = c
          BY CpuFacts
      <4> QED BY <4>1 DEF IrqInv, IrqsOffInside
    <3> QED BY <3>1 DEF IrqInv, IsrAbove
  <2>3. IsrIdle'
      BY DEF IrqInv, IsrIdle
  <2>4. IrqsOffInside'
    <3> SUFFICES ASSUME NEW y \in Contexts, pc[y] \notin {"idle", "relax"}
                 PROVE  ~irqsOn'[y[1]]
        BY DEF IrqsOffInside
    <3>1. y[1] # c
        BY DEF IrqInv, IsrAbove, IsrIdle, IrqsOffInside, Contexts, Levels
    <3> QED BY <3>1 DEF IrqInv, IrqsOffInside
  <2> QED BY <2>1, <2>2, <2>3, <2>4 DEF IrqInv
<1>4. ASSUME NEW c \in Cpus, IsrReturn(c) PROVE MutualExclusion' /\ IrqInv' /\ FlagInv'
  <2> USE <1>4, <1>t, ContextFacts, CpuFacts
      DEF IsrReturn, InterruptReturn, IInv, lockVars, TypeOK, IrqTypeOK
  <2>1. MutualExclusion' /\ FlagInv'
      BY DEF MutualExclusion, FlagInv, Holds
  <2>2. IsrAbove'
      BY DEF IrqInv, IsrAbove
  <2>3. IsrIdle'
      BY DEF IrqInv, IsrIdle
  <2>4. IrqsOffInside'
    <3> SUFFICES ASSUME NEW y \in Contexts, pc[y] \notin {"idle", "relax"}
                 PROVE  ~irqsOn'[y[1]]
        BY DEF IrqsOffInside
    <3>1. y[1] # c
        BY DEF IrqInv, IsrAbove, IsrIdle, IrqsOffInside, Contexts, Levels
    <3> QED BY <3>1 DEF IrqInv, IrqsOffInside
  <2> QED BY <2>1, <2>2, <2>3, <2>4 DEF IrqInv
<1>5. CASE UNCHANGED vars
    BY <1>5 DEF vars, IInv, TypeOK, IrqTypeOK, MutualExclusion, IrqInv, IsrAbove,
        IsrIdle, IrqsOffInside, FlagInv, Holds
<1> QED BY <1>t, <1>1, <1>2, <1>3, <1>4, <1>5 DEF Next, IInv

-----------------------------------------------------------------------------
(* What the invariant gives *)

\* WaitLock's state keeps its types: the lock word is 0 or 1 whatever the
\* number of contenders that exchange it.
THEOREM TypeCorrect == Spec => []TypeOK
<1>1. Init => TypeOK
    BY InitIInv DEF IInv
<1> QED BY <1>1, TypeStep, PTL DEF Spec

LEMMA Invariance == Spec => []IInv
BY InitIInv, StepIInv, PTL DEF Spec

\* acquire() returns to one thread or ISR at a time, on any number of CPUs.
THEOREM Exclusion == Spec => []MutualExclusion
<1>1. IInv => MutualExclusion
    BY DEF IInv
<1> QED BY <1>1, Invariance, PTL

\* No ISR ever runs above the holder of a WaitLock on the holder's CPU.
THEOREM NotInterrupted == Spec => []HolderNotInterrupted
<1>1. ASSUME IInv, NEW x \in Contexts, Holds(x)
      PROVE  Running(x) /\ ~irqsOn[x[1]]
  <2> USE <1>1, ContextFacts DEF IInv, IrqInv, Holds, HoldingPcs
  <2>1. ~irqsOn[x[1]]
      BY DEF IrqsOffInside
  <2>2. x[1] \in Cpus /\ inIsr[x[1]] \in BOOLEAN
      BY DEF TypeOK, IrqTypeOK
  <2>3. CASE x[2] = "isr"
    <3>1. pc[<<x[1], "isr">>] # "idle"
        BY <2>3
    <3>2. inIsr[x[1]] = TRUE
        BY <2>2, <3>1 DEF IsrIdle
    <3> QED BY <2>1, <2>3, <3>2 DEF Running
  <2>4. CASE x[2] # "isr"
    <3>1. pc[<<x[1], "thread">>] \notin {"idle", "relax"}
        BY <2>4
    <3>2. inIsr[x[1]] = FALSE
        BY <2>2, <3>1 DEF IsrAbove
    <3> QED BY <2>1, <2>4, <3>2 DEF Running
  <2> QED BY <2>3, <2>4
<1>2. IInv => HolderNotInterrupted
    BY <1>1 DEF HolderNotInterrupted
<1> QED BY <1>2, Invariance, PTL

\* The flags word is the holder's own, and a free lock carries no stale flag.
THEOREM FlagsOwned == Spec => []FlagsAreHolders
<1>1. IInv => FlagsAreHolders
    BY DEF IInv, FlagInv, FlagsAreHolders
<1> QED BY <1>1, Invariance, PTL

\* release() leaves the interrupt flag of the CPU as acquire() found it.
THEOREM IrqsRestored == Spec => IrqStateRestored
<1> DEFINE Restored ==
      \A x \in Contexts :
        pc[x] = "restore" /\ pc'[x] = "idle" => irqsOn'[x[1]] = contenderFlags[x]
<1>1. ASSUME IInv, [Next]_vars PROVE [Restored]_vars
  <2> SUFFICES ASSUME Next, NEW x \in Contexts, pc[x] = "restore", pc'[x] = "idle"
               PROVE  irqsOn'[x[1]] = contenderFlags[x]
      BY <1>1
  <2>1. ReleaseRestore(x)
    <3> USE <1>1 DEF IInv, TypeOK, Goto, lockVars
    <3>1. ASSUME NEW y \in Contexts, ContextStep(y) PROVE ReleaseRestore(x)
        BY <3>1 DEF ContextStep, AcquireEnter, AcquireExchange, AcquireRelax,
             AcquireSetFlags, ReleaseEnter, ReleaseUnlock, ReleaseRestore,
             ReleaseNoIrqsEnter, ReleaseNoIrqsUnlock
    <3>2. ASSUME NEW c \in Cpus, ThreadSetsIrqs(c) \/ IsrEnter(c) \/ IsrReturn(c)
          PROVE  FALSE
        BY <3>2 DEF ThreadSetsIrqs, IsrEnter, IsrReturn
    <3> QED BY <3>1, <3>2 DEF Next
  <2>2. ~irqsOn[x[1]] /\ enableIrqs[x] = contenderFlags[x]
      BY <1>1 DEF IInv, IrqInv, IrqsOffInside, FlagInv
  <2> QED BY <1>1, <2>1, <2>2, ContextFacts
          DEF ReleaseRestore, SetIrqs, IInv, TypeOK, IrqTypeOK
<1> QED BY <1>1, Invariance, PTL DEF Spec, IrqStateRestored

\* WaitLock implements the abstract lock of module ReadersWriter, as a mutex.
THEOREM Refinement == Spec => ImplementsMutex
<1> DEFINE Inside == {x \in Contexts : Holds(x)}
<1> USE DEF AbstractLock!Init, AbstractLock!Next, AbstractLock!vars
<1>1. Init => AbstractLock!Init
    BY DEF Init, Holds, HoldingPcs
<1>2. ASSUME IInv, IInv', [Next]_vars
      PROVE  [AbstractLock!Next]_(AbstractLock!vars)
  <2> SUFFICES ASSUME Inside' # Inside PROVE AbstractLock!Next
      OBVIOUS
  <2>1. ASSUME NEW x \in Contexts, ContextStep(x) PROVE AbstractLock!Next
    <3> USE <1>2, <2>1 DEF IInv, TypeOK, Goto, Holds, HoldingPcs
    <3>1. CASE AcquireExchange(x)
      <4>1. lock = 0 /\ Inside = {} /\ Inside' = {x}
          BY <3>1 DEF AcquireExchange, MutualExclusion
      <4> QED BY <4>1 DEF AbstractLock!StartWriting
    <3>2. CASE ReleaseUnlock(x)
      <4>1. Inside = {x} /\ Inside' = {}
          BY <3>2 DEF ReleaseUnlock, MutualExclusion
      <4> QED BY <4>1 DEF AbstractLock!StopWriting
    <3>3. CASE ReleaseNoIrqsUnlock(x)
      <4>1. Inside = {x} /\ Inside' = {}
          BY <3>3 DEF ReleaseNoIrqsUnlock, MutualExclusion
      <4> QED BY <4>1 DEF AbstractLock!StopWriting
    <3>4. CASE AcquireEnter(x) \/ AcquireRelax(x) \/ AcquireSetFlags(x)
      <4>1. Inside' = Inside
          BY <3>4 DEF AcquireEnter, AcquireRelax, AcquireSetFlags
      <4> QED BY <4>1
    <3>5. CASE ReleaseEnter(x) \/ ReleaseNoIrqsEnter(x) \/ ReleaseRestore(x)
      <4>1. Inside' = Inside
          BY <3>5 DEF ReleaseEnter, ReleaseNoIrqsEnter, ReleaseRestore
      <4> QED BY <4>1
    <3> QED BY <3>1, <3>2, <3>3, <3>4, <3>5 DEF ContextStep
  <2>2. ASSUME NEW c \in Cpus, ThreadSetsIrqs(c) \/ IsrEnter(c) \/ IsrReturn(c)
        PROVE  FALSE
      BY <2>2 DEF ThreadSetsIrqs, IsrEnter, IsrReturn, lockVars, Holds
  <2>3. CASE UNCHANGED vars
      BY <2>3 DEF vars, Holds
  <2> QED BY <1>2, <2>1, <2>2, <2>3 DEF Next
<1> QED BY <1>1, <1>2, Invariance, PTL DEF Spec, ImplementsMutex, AbstractLock!Spec
=============================================================================
