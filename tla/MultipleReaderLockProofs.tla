---------------------- MODULE MultipleReaderLockProofs ----------------------
(***************************************************************************)
(* Machine-checked proofs about MultipleReaderLock, for any finite set of  *)
(* CPUs, any choice of readers, writers and upgraders among the threads    *)
(* and ISRs, and whatever the callers' flags hold.                         *)
(***************************************************************************)
EXTENDS MultipleReaderLock, FiniteSetTheorems, TLAPS

\* Whose flag the flags word holds, at every place where the bit is owned.
FlagInv ==
  /\ ~writeRequest => ~flags
  /\ \A x \in Contexts :
       /\ pc[x] \in RequestPcs \ {"writing"} => ~flags
       /\ pc[x] = "writing" => flags = irqFlag[x]

IInv == TypeOK /\ LockWordExact /\ WriterExclusion /\ FlagInv

Counted == {x \in Contexts : pc[x] \in CountedPcs}

-----------------------------------------------------------------------------

\* There are finitely many contexts, so every set of them has a size.
LEMMA ContextSetsFinite ==
  ASSUME NEW S \in SUBSET Contexts
  PROVE  IsFiniteSet(S) /\ Cardinality(S) \in Nat
<1>1. Levels = ({} \union {"thread"}) \union {"isr"}
    BY DEF Levels
<1>2. IsFiniteSet(Levels)
    BY <1>1, FS_EmptySet, FS_AddElement
<1>3. IsFiniteSet(Contexts)
    BY <1>2, CpusAssumption, FS_Product DEF Contexts
<1>4. IsFiniteSet(S)
    BY <1>3, FS_Subset
<1> QED BY <1>4, FS_CardinalityType

\* A context is a CPU and a level.
LEMMA ContextCpu == \A x \in Contexts : x[1] \in Cpus
BY DEF Contexts

\* The initial states satisfy the invariant.
LEMMA InitIInv == Init => IInv
<1> SUFFICES ASSUME Init PROVE IInv
    OBVIOUS
<1> USE DEF Init, IrqInit, CountedPcs, RequestPcs
<1>1. TypeOK
    BY DEF TypeOK, IrqTypeOK, PcValues
<1>2. LockWordExact
  <2>1. Counted = {}
      BY DEF Counted
  <2> QED BY <2>1, FS_EmptySet DEF LockWordExact, Counted
<1>3. WriterExclusion
    BY DEF WriterExclusion, Writing
<1>4. FlagInv
    BY DEF FlagInv
<1> QED BY <1>1, <1>2, <1>3, <1>4 DEF IInv

\* The lock word, the writer's exclusion and the flags word survive every step
\* of a context.
LEMMA ContextIInv ==
  ASSUME IInv, NEW x \in Contexts, ContextStep(x)
  PROVE  IInv'
<1> USE ContextCpu
    DEF IInv, TypeOK, IrqTypeOK, SetIrqs, Goto, PcValues, CountedPcs, RequestPcs
<1>c. IsFiniteSet(Counted) /\ Cardinality(Counted) \in Nat /\ readers = Cardinality(Counted)
    BY ContextSetsFinite DEF LockWordExact, Counted
<1>f. IsFiniteSet(Counted)' /\ Cardinality(Counted)' \in Nat
    BY ContextSetsFinite DEF Counted
<1>1. CASE ReadAcquire(x)
  <2>1. readers' = Cardinality(Counted)'
    <3>1. Counted' = Counted \union {x} /\ x \notin Counted
        BY <1>1 DEF ReadAcquire, Counted
    <3> QED BY <1>c, <3>1, <1>1, FS_AddElement DEF ReadAcquire
  <2>2. TypeOK'
      BY <2>1, <1>f, <1>1 DEF ReadAcquire
  <2>3. LockWordExact'
      BY <2>1, <1>1 DEF ReadAcquire, LockWordExact, Counted
  <2>4. WriterExclusion'
      BY <1>1 DEF ReadAcquire, WriterExclusion, LockWordExact, Reading, Writing
  <2>5. FlagInv'
      BY <1>1 DEF ReadAcquire, FlagInv, LockWordExact
  <2> QED BY <2>2, <2>3, <2>4, <2>5
<1>2. CASE ReadCheck(x)
  <2>1. readers' = Cardinality(Counted)'
    <3>1. Counted' = Counted
        BY <1>2 DEF ReadCheck, Counted
    <3> QED BY <1>c, <3>1, <1>2 DEF ReadCheck
  <2>2. TypeOK'
      BY <2>1, <1>f, <1>2 DEF ReadCheck
  <2>3. LockWordExact'
      BY <2>1, <1>2 DEF ReadCheck, LockWordExact, Counted
  <2>4. WriterExclusion'
      BY <1>2 DEF ReadCheck, WriterExclusion, LockWordExact, Reading, Writing
  <2>5. FlagInv'
      BY <1>2 DEF ReadCheck, FlagInv, LockWordExact
  <2> QED BY <2>2, <2>3, <2>4, <2>5
<1>3. CASE ReadRelax(x)
  <2>1. readers' = Cardinality(Counted)'
    <3>1. Counted' = Counted
        BY <1>3 DEF ReadRelax, Counted
    <3> QED BY <1>c, <3>1, <1>3 DEF ReadRelax
  <2>2. TypeOK'
      BY <2>1, <1>f, <1>3 DEF ReadRelax
  <2>3. LockWordExact'
      BY <2>1, <1>3 DEF ReadRelax, LockWordExact, Counted
  <2>4. WriterExclusion'
      BY <1>3 DEF ReadRelax, WriterExclusion, LockWordExact, Reading, Writing
  <2>5. FlagInv'
      BY <1>3 DEF ReadRelax, FlagInv, LockWordExact
  <2> QED BY <2>2, <2>3, <2>4, <2>5
<1>4. CASE ReadRelease(x)
  <2>1. readers' = Cardinality(Counted)'
    <3>1. Counted' = Counted \ {x} /\ x \in Counted
        BY <1>4 DEF ReadRelease, Counted
    <3> QED BY <1>c, <3>1, <1>4, FS_RemoveElement DEF ReadRelease
  <2>2. TypeOK'
      BY <2>1, <1>f, <1>4 DEF ReadRelease
  <2>3. LockWordExact'
      BY <2>1, <1>4 DEF ReadRelease, LockWordExact, Counted
  <2>4. WriterExclusion'
      BY <1>4 DEF ReadRelease, WriterExclusion, LockWordExact, Reading, Writing
  <2>5. FlagInv'
      BY <1>4 DEF ReadRelease, FlagInv, LockWordExact
  <2> QED BY <2>2, <2>3, <2>4, <2>5
<1>5. CASE WriteAcquire(x)
  <2>1. readers' = Cardinality(Counted)'
    <3>1. Counted' = Counted
        BY <1>5 DEF WriteAcquire, Counted
    <3> QED BY <1>c, <3>1, <1>5 DEF WriteAcquire
  <2>2. TypeOK'
      BY <2>1, <1>f, <1>5 DEF WriteAcquire
  <2>3. LockWordExact'
      BY <2>1, <1>5 DEF WriteAcquire, LockWordExact, Counted
  <2>4. WriterExclusion'
      BY <1>5 DEF WriteAcquire, WriterExclusion, LockWordExact, Reading, Writing
  <2>5. FlagInv'
      BY <1>5 DEF WriteAcquire, FlagInv, LockWordExact
  <2> QED BY <2>2, <2>3, <2>4, <2>5
<1>6. CASE WriteBitTest(x)
  <2>1. readers' = Cardinality(Counted)'
    <3>1. Counted' = Counted
        BY <1>6 DEF WriteBitTest, Counted
    <3> QED BY <1>c, <3>1, <1>6 DEF WriteBitTest
  <2>2. TypeOK'
      BY <2>1, <1>f, <1>6 DEF WriteBitTest
  <2>3. LockWordExact'
      BY <2>1, <1>6 DEF WriteBitTest, LockWordExact, Counted
  <2>4. WriterExclusion'
      BY <1>6 DEF WriteBitTest, WriterExclusion, LockWordExact, Reading, Writing
  <2>5. FlagInv'
      BY <1>6 DEF WriteBitTest, FlagInv, LockWordExact
  <2> QED BY <2>2, <2>3, <2>4, <2>5
<1>7. CASE WriteDrain(x)
  <2>1. readers' = Cardinality(Counted)'
    <3>1. Counted' = Counted
        BY <1>7 DEF WriteDrain, Counted
    <3> QED BY <1>c, <3>1, <1>7 DEF WriteDrain
  <2>2. TypeOK'
      BY <2>1, <1>f, <1>7 DEF WriteDrain
  <2>3. LockWordExact'
      BY <2>1, <1>7 DEF WriteDrain, LockWordExact, Counted
  <2>4. WriterExclusion'
    <3>1. CASE readers = 0
      <4>1. Counted = {}
          BY <3>1, <1>c, FS_EmptySet
      <4>2. \A y \in Contexts : ~Reading(y)
          BY <4>1 DEF Counted, Reading
      <4> QED BY <4>2, <1>7, <3>1 DEF WriteDrain, WriterExclusion, LockWordExact, Reading, Writing
    <3>2. CASE readers # 0
        BY <3>2, <1>7 DEF WriteDrain, WriterExclusion, Reading, Writing
    <3> QED BY <3>1, <3>2
  <2>5. FlagInv'
      BY <1>7 DEF WriteDrain, FlagInv, LockWordExact
  <2> QED BY <2>2, <2>3, <2>4, <2>5
<1>8. CASE WriteRelax(x)
  <2>1. readers' = Cardinality(Counted)'
    <3>1. Counted' = Counted
        BY <1>8 DEF WriteRelax, Counted
    <3> QED BY <1>c, <3>1, <1>8 DEF WriteRelax
  <2>2. TypeOK'
      BY <2>1, <1>f, <1>8 DEF WriteRelax
  <2>3. LockWordExact'
      BY <2>1, <1>8 DEF WriteRelax, LockWordExact, Counted
  <2>4. WriterExclusion'
      BY <1>8 DEF WriteRelax, WriterExclusion, LockWordExact, Reading, Writing
  <2>5. FlagInv'
      BY <1>8 DEF WriteRelax, FlagInv, LockWordExact
  <2> QED BY <2>2, <2>3, <2>4, <2>5
<1>9. CASE SetFlags(x)
  <2>1. readers' = Cardinality(Counted)'
    <3>1. Counted' = Counted
        BY <1>9 DEF SetFlags, Counted
    <3> QED BY <1>c, <3>1, <1>9 DEF SetFlags
  <2>2. TypeOK'
      BY <2>1, <1>f, <1>9 DEF SetFlags
  <2>3. LockWordExact'
      BY <2>1, <1>9 DEF SetFlags, LockWordExact, Counted
  <2>4. WriterExclusion'
      BY <1>9 DEF SetFlags, WriterExclusion, LockWordExact, Reading, Writing
  <2>5. FlagInv'
      BY <1>9 DEF SetFlags, FlagInv, LockWordExact
  <2> QED BY <2>2, <2>3, <2>4, <2>5
<1>10. CASE WriteRelease(x)
  <2>1. readers' = Cardinality(Counted)'
    <3>1. Counted' = Counted
        BY <1>10 DEF WriteRelease, Counted
    <3> QED BY <1>c, <3>1, <1>10 DEF WriteRelease
  <2>2. TypeOK'
      BY <2>1, <1>f, <1>10 DEF WriteRelease
  <2>3. LockWordExact'
      BY <2>1, <1>10 DEF WriteRelease, LockWordExact, Counted
  <2>4. WriterExclusion'
      BY <1>10 DEF WriteRelease, WriterExclusion, LockWordExact, Reading, Writing
  <2>5. FlagInv'
      BY <1>10 DEF WriteRelease, FlagInv, LockWordExact
  <2> QED BY <2>2, <2>3, <2>4, <2>5
<1>11. CASE ClearBit(x)
  <2>1. readers' = Cardinality(Counted)'
    <3>1. Counted' = Counted
        BY <1>11 DEF ClearBit, Counted
    <3> QED BY <1>c, <3>1, <1>11 DEF ClearBit
  <2>2. TypeOK'
      BY <2>1, <1>f, <1>11 DEF ClearBit
  <2>3. LockWordExact'
      BY <2>1, <1>11 DEF ClearBit, LockWordExact, Counted
  <2>4. WriterExclusion'
      BY <1>11 DEF ClearBit, WriterExclusion, LockWordExact, Reading, Writing
  <2>5. FlagInv'
      BY <1>11 DEF ClearBit, FlagInv, LockWordExact
  <2> QED BY <2>2, <2>3, <2>4, <2>5
<1>12. CASE UpgradeEnter(x)
  <2>1. readers' = Cardinality(Counted)'
    <3>1. Counted' = Counted
        BY <1>12 DEF UpgradeEnter, Counted
    <3> QED BY <1>c, <3>1, <1>12 DEF UpgradeEnter
  <2>2. TypeOK'
      BY <2>1, <1>f, <1>12 DEF UpgradeEnter
  <2>3. LockWordExact'
      BY <2>1, <1>12 DEF UpgradeEnter, LockWordExact, Counted
  <2>4. WriterExclusion'
      BY <1>12 DEF UpgradeEnter, WriterExclusion, LockWordExact, Reading, Writing
  <2>5. FlagInv'
      BY <1>12 DEF UpgradeEnter, FlagInv, LockWordExact
  <2> QED BY <2>2, <2>3, <2>4, <2>5
<1>13. CASE UpgradeBit(x)
  <2>1. readers' = Cardinality(Counted)'
    <3>1. Counted' = Counted
        BY <1>13 DEF UpgradeBit, Counted
    <3> QED BY <1>c, <3>1, <1>13 DEF UpgradeBit
  <2>2. TypeOK'
      BY <2>1, <1>f, <1>13 DEF UpgradeBit
  <2>3. LockWordExact'
      BY <2>1, <1>13 DEF UpgradeBit, LockWordExact, Counted
  <2>4. WriterExclusion'
      BY <1>13 DEF UpgradeBit, WriterExclusion, LockWordExact, Reading, Writing
  <2>5. FlagInv'
      BY <1>13 DEF UpgradeBit, FlagInv, LockWordExact
  <2> QED BY <2>2, <2>3, <2>4, <2>5
<1>14. CASE UpgradeCount(x)
  <2>1. readers' = Cardinality(Counted)'
    <3>1. Counted' = Counted \ {x} /\ x \in Counted
        BY <1>14 DEF UpgradeCount, Counted
    <3> QED BY <1>c, <3>1, <1>14, FS_RemoveElement DEF UpgradeCount
  <2>2. TypeOK'
      BY <2>1, <1>f, <1>14 DEF UpgradeCount
  <2>3. LockWordExact'
      BY <2>1, <1>14 DEF UpgradeCount, LockWordExact, Counted
  <2>4. WriterExclusion'
      BY <1>14 DEF UpgradeCount, WriterExclusion, LockWordExact, Reading, Writing
  <2>5. FlagInv'
      BY <1>14 DEF UpgradeCount, FlagInv, LockWordExact
  <2> QED BY <2>2, <2>3, <2>4, <2>5
<1>15. CASE UpgradeDrain(x)
  <2>1. readers' = Cardinality(Counted)'
    <3>1. Counted' = Counted
        BY <1>15 DEF UpgradeDrain, Counted
    <3> QED BY <1>c, <3>1, <1>15 DEF UpgradeDrain
  <2>2. TypeOK'
      BY <2>1, <1>f, <1>15 DEF UpgradeDrain
  <2>3. LockWordExact'
      BY <2>1, <1>15 DEF UpgradeDrain, LockWordExact, Counted
  <2>4. WriterExclusion'
    <3>1. CASE readers = 0
      <4>1. Counted = {}
          BY <3>1, <1>c, FS_EmptySet
      <4>2. \A y \in Contexts : ~Reading(y)
          BY <4>1 DEF Counted, Reading
      <4> QED BY <4>2, <1>15, <3>1 DEF UpgradeDrain, WriterExclusion, LockWordExact, Reading, Writing
    <3>2. CASE readers # 0
        BY <3>2, <1>15 DEF UpgradeDrain, WriterExclusion, Reading, Writing
    <3> QED BY <3>1, <3>2
  <2>5. FlagInv'
      BY <1>15 DEF UpgradeDrain, FlagInv, LockWordExact
  <2> QED BY <2>2, <2>3, <2>4, <2>5
<1> QED BY <1>1, <1>2, <1>3, <1>4, <1>5, <1>6, <1>7, <1>8, <1>9, <1>10, <1>11, <1>12, <1>13, <1>14, <1>15 DEF ContextStep, ReaderStep, WriterStep, UpgraderStep

\* ... and every step of the system.
LEMMA StepIInv == IInv /\ [Next]_vars => IInv'
<1> SUFFICES ASSUME IInv, [Next]_vars PROVE IInv'
    OBVIOUS
<1>1. ASSUME UNCHANGED lockVars, IrqTypeOK' PROVE IInv'
    BY <1>1 DEF lockVars, IInv, TypeOK, LockWordExact, WriterExclusion, FlagInv,
         Reading, Writing
<1>2. ASSUME NEW c \in Cpus, IsrEnter(c) \/ IsrReturn(c) PROVE IInv'
  <2>1. IrqTypeOK'
      BY <1>2 DEF IsrEnter, IsrReturn, InterruptEntry, InterruptReturn, IInv, TypeOK,
           IrqTypeOK
  <2> QED BY <1>1, <1>2, <2>1 DEF IsrEnter, IsrReturn
<1>3. CASE UNCHANGED vars
    BY <1>1, <1>3 DEF vars, lockVars, IInv, TypeOK, IrqTypeOK
<1> QED BY <1>2, <1>3, ContextIInv DEF Next

LEMMA Invariance == Spec => []IInv
BY InitIInv, StepIInv, PTL DEF Spec

-----------------------------------------------------------------------------
(* What the invariant gives *)

\* The lock's state keeps its types; in particular the reader count never goes
\* below 0.
THEOREM TypeCorrect == Spec => []TypeOK
<1>1. IInv => TypeOK
    BY DEF IInv
<1> QED BY <1>1, Invariance, PTL

\* The lock word counts exactly the readers, and its bit has one owner.
THEOREM WordExact == Spec => []LockWordExact
<1>1. IInv => LockWordExact
    BY DEF IInv
<1> QED BY <1>1, Invariance, PTL

\* A writer, upgraded or not, has the resource to itself.
THEOREM Exclusion == Spec => []WriterExclusion
<1>1. IInv => WriterExclusion
    BY DEF IInv
<1> QED BY <1>1, Invariance, PTL

\* writeRelease() reads the flag that its own acquire stored.
THEOREM FlagsOwned == Spec => []FlagsAreWriters
<1>1. IInv => FlagsAreWriters
    BY DEF IInv, FlagInv, FlagsAreWriters
<1> QED BY <1>1, Invariance, PTL

\* The lock implements the abstract reader/writer lock.
THEOREM Refinement == Spec => ImplementsReadersWriter
<1> DEFINE R == {x \in Contexts : Reading(x)}
           W == {x \in Contexts : Writing(x)}
<1>1. Init => AbstractLock!Init
    BY DEF Init, AbstractLock!Init, Reading, Writing
<1>2. ASSUME IInv, [Next]_vars
      PROVE  [AbstractLock!Next]_(AbstractLock!vars)
  <2> SUFFICES ASSUME ~(R' = R /\ W' = W) PROVE AbstractLock!Next
      BY DEF AbstractLock!vars
  <2> USE DEF AbstractLock!Next
  <2>1. ASSUME NEW x \in Contexts, ContextStep(x) PROVE AbstractLock!Next
    <3> USE <1>2, <2>1 DEF IInv, TypeOK, Goto, Reading, Writing, RequestPcs, CountedPcs, PcValues
    <3>1. CASE ReadCheck(x)
      <4>1. R' = R \union {x} /\ W' = W /\ W = {} /\ x \notin R
          BY <3>1 DEF ReadCheck, LockWordExact
      <4> QED BY <4>1 DEF AbstractLock!StartReading
    <3>2. CASE ReadRelease(x) \/ UpgradeCount(x)
      <4>1. R' = R \ {x} /\ W' = W /\ x \in R
          BY <3>2 DEF ReadRelease, UpgradeCount
      <4> QED BY <4>1 DEF AbstractLock!StopReading
    <3>3. CASE WriteDrain(x) \/ UpgradeDrain(x)
      <4>1. readers = 0
          BY <3>3 DEF WriteDrain, UpgradeDrain
      <4>2. Counted = {}
          BY <4>1, ContextSetsFinite, FS_EmptySet DEF LockWordExact, Counted
      <4>3. /\ pc' = [pc EXCEPT ![x] = pc'[x]]
            /\ pc[x] \in RequestPcs \ {"writing", "clearBit"} /\ Writing(x)' /\ ~Reading(x)'
          BY <3>3, <4>1 DEF WriteDrain, UpgradeDrain
      <4>4. R = {} /\ R' = {}
          BY <4>2, <4>3 DEF Counted
      <4>5. W = {} /\ W' = {x}
          BY <4>3 DEF LockWordExact
      <4> QED BY <4>4, <4>5 DEF AbstractLock!StartWriting
    <3>4. CASE ClearBit(x)
      <4>1. W = {x} /\ W' = {} /\ R' = R
          BY <3>4 DEF ClearBit, LockWordExact
      <4> QED BY <4>1 DEF AbstractLock!StopWriting
    <3>5. CASE ReadAcquire(x) \/ ReadRelax(x)
      <4>1. R' = R /\ W' = W
          BY <3>5 DEF ReadAcquire, ReadRelax
      <4> QED BY <4>1
    <3>6. CASE WriteAcquire(x) \/ WriteBitTest(x) \/ WriteRelax(x)
      <4>1. R' = R /\ W' = W
          BY <3>6 DEF WriteAcquire, WriteBitTest, WriteRelax
      <4> QED BY <4>1
    <3>7. CASE SetFlags(x) \/ WriteRelease(x)
      <4>1. R' = R /\ W' = W
          BY <3>7 DEF SetFlags, WriteRelease
      <4> QED BY <4>1
    <3>8. CASE UpgradeEnter(x) \/ UpgradeBit(x)
      <4>1. R' = R /\ W' = W
          BY <3>8 DEF UpgradeEnter, UpgradeBit
      <4> QED BY <4>1
    <3> QED BY <3>1, <3>2, <3>3, <3>4, <3>5, <3>6, <3>7, <3>8
            DEF ContextStep, ReaderStep, WriterStep, UpgraderStep
  <2>2. ASSUME UNCHANGED lockVars PROVE FALSE
      BY <2>2 DEF lockVars, Reading, Writing
  <2>3. ASSUME NEW c \in Cpus, IsrEnter(c) \/ IsrReturn(c) PROVE FALSE
      BY <2>2, <2>3 DEF IsrEnter, IsrReturn
  <2>4. CASE UNCHANGED vars
      BY <2>2, <2>4 DEF vars, lockVars
  <2> QED BY <1>2, <2>1, <2>3, <2>4 DEF Next
<1> QED BY <1>1, <1>2, Invariance, PTL DEF Spec, ImplementsReadersWriter, AbstractLock!Spec
=============================================================================
