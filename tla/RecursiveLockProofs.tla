------------------------- MODULE RecursiveLockProofs -------------------------
(***************************************************************************)
(* Machine-checked proofs about RecursiveLock, for any finite set of CPUs  *)
(* and any depth of nesting.                                               *)
(***************************************************************************)
EXTENDS RecursiveLock, TLAPS

\* No thread has the id that stands for nobody.
ConstantsOK == Free \notin Cpus /\ MaxDepth \in Nat

-----------------------------------------------------------------------------
(* The inductive invariant, one conjunct per idea *)

Holds(x) == depth[x] > 0 \/ pc[x] = "unlock"

\* What an ISR can have interrupted: a thread that does not hold the lock and
\* is outside its code or relaxes between two attempts.
IsrAbove ==
  \A c \in Cpus :
    inIsr[c] => /\ ~irqsOn[c]
                /\ pc[<<c, "thread">>] \in {"caller", "relax"}
                /\ depth[<<c, "thread">>] = 0

\* An ISR is in the lock's code, or holds the lock, only while it executes,
\* and it found interrupts off.
IsrIdle ==
  \A c \in Cpus :
    /\ ~inIsr[c] => pc[<<c, "isr">>] = "caller" /\ depth[<<c, "isr">>] = 0
    /\ ~irqsBefore[<<c, "isr">>]

\* Everywhere else in the lock's code, and while it is held, interrupts are
\* off.
IrqsOffInside ==
  \A x \in Contexts : pc[x] \notin {"caller", "relax"} \/ depth[x] > 0 => ~irqsOn[x[1]]

IrqInv == IsrAbove /\ IsrIdle /\ IrqsOffInside

\* Where in the code a context can be how deep.
DepthInv ==
  \A x \in Contexts :
    /\ pc[x] \in {"unlock", "relax"} => depth[x] = 0
    /\ pc[x] = "exchange" => depth[x] < MaxDepth
    /\ pc[x] = "relax" => 0 < MaxDepth

\* The thread named in the lock word holds the lock, itself or in its ISR.
OwnerHolds == \A c \in Cpus : lock = c => Holds(<<c, "thread">>) \/ Holds(<<c, "isr">>)

OwnInv == DepthInv /\ OneOwner /\ OwnerHolds /\ CountIsDepth

\* Where the interrupt flag that the outermost acquire() found is kept.
FlagInv ==
  /\ lock = Free => ~flags
  /\ \A x \in Contexts :
       /\ depth[x] > 0 => flags = irqsBefore[x]
       /\ pc[x] = "unlock" => ~flags /\ irqsWereEnabled[x] = irqsBefore[x]
       /\ pc[x] \in {"exchange", "relax"} /\ depth[x] = 0 => irqsWereEnabled[x] = irqsBefore[x]

IInv == TypeOK /\ IrqInv /\ OwnInv /\ FlagInv

-----------------------------------------------------------------------------

\* A context is a CPU and a level, and the two levels differ.
LEMMA ContextFacts ==
  ASSUME NEW x \in Contexts
  PROVE  /\ x[1] \in Cpus
         /\ x[2] \in Levels
         /\ x = <<x[1], x[2]>>
         /\ x[2] # "isr" => x = <<x[1], "thread">>
         /\ x[2] = "isr" => x = <<x[1], "isr">>
BY DEF Contexts, Levels

\* Every CPU has a thread context and an ISR context.
LEMMA CpuFacts ==
  ASSUME NEW c \in Cpus
  PROVE  /\ <<c, "thread">> \in Contexts /\ <<c, "isr">> \in Contexts
         /\ <<c, "thread">> # <<c, "isr">>
         /\ <<c, "thread">>[1] = c /\ <<c, "isr">>[1] = c
BY DEF Contexts, Levels

\* The other context of the CPU of one that runs has no part in the lock.
LEMMA Alone ==
  ASSUME TypeOK, IrqInv, NEW x \in Contexts, NEW y \in Contexts,
         Running(x), y # x, y[1] = x[1]
  PROVE  depth[y] = 0 /\ pc[y] \in {"caller", "relax"} /\ ~Holds(y)
<1>1. CASE x[2] = "isr"
  <2>1. y = <<x[1], "thread">> /\ inIsr[x[1]]
      BY <1>1, ContextFacts DEF Running, Levels
  <2> QED BY <2>1, ContextFacts DEF IrqInv, IsrAbove, Holds
<1>2. CASE x[2] # "isr"
  <2>1. y = <<x[1], "isr">> /\ ~inIsr[x[1]]
      BY <1>2, ContextFacts DEF Running, Levels, TypeOK, IrqTypeOK
  <2> QED BY <2>1, ContextFacts DEF IrqInv, IsrIdle, Holds
<1> QED BY <1>1, <1>2

\* The owner that runs has counted its own acquires, and nobody else's.
LEMMA OwnCount ==
  ASSUME TypeOK, IrqInv, OwnInv, NEW x \in Contexts, Running(x), lock = x[1]
  PROVE  recursionCount = depth[x] /\ Holds(x)
<1> DEFINE c == x[1]
           t == <<c, "thread">>
           i == <<c, "isr">>
<1>1. c \in Cpus /\ t \in Contexts /\ i \in Contexts /\ t # i /\ t[1] = c /\ i[1] = c
    BY ContextFacts, CpuFacts
<1>2. x = t \/ x = i
    BY ContextFacts
<1>3. recursionCount = depth[t] + depth[i] /\ (Holds(t) \/ Holds(i))
    BY <1>1 DEF OwnInv, CountIsDepth, OwnerHolds
<1>4. depth[t] \in Nat /\ depth[i] \in Nat
    BY <1>1 DEF TypeOK
<1>5. CASE x = t
  <2>1. depth[i] = 0 /\ ~Holds(i)
      BY <1>1, <1>5, Alone
  <2> QED BY <1>3, <1>4, <1>5, <2>1
<1>6. CASE x = i
  <2>1. depth[t] = 0 /\ ~Holds(t)
      BY <1>1, <1>6, Alone
  <2> QED BY <1>3, <1>4, <1>6, <2>1
<1> QED BY <1>2, <1>5, <1>6

\* The initial states of the lock satisfy the inductive invariant.
LEMMA InitIInv == ASSUME ConstantsOK PROVE Init => IInv
<1> SUFFICES ASSUME Init PROVE IInv
    OBVIOUS
<1> USE ConstantsOK DEF Init, IrqInit, ConstantsOK
<1>1. TypeOK
  <2>1. 0 \in 0 .. MaxDepth
      OBVIOUS
  <2>2. IrqTypeOK
      BY DEF IrqTypeOK
  <2>3. depth \in [Contexts -> 0 .. MaxDepth]
      BY <2>1
  <2> QED BY <2>1, <2>2, <2>3 DEF TypeOK
<1>2. IrqInv
  <2>1. IsrAbove
      BY DEF IsrAbove
  <2>2. IsrIdle
      BY CpuFacts DEF IsrIdle
  <2>3. IrqsOffInside
      BY DEF IrqsOffInside
  <2> QED BY <2>1, <2>2, <2>3 DEF IrqInv
<1>3. OwnInv
    BY CpuFacts DEF OwnInv, DepthInv, OneOwner, OwnerHolds, CountIsDepth, Holds
<1>4. FlagInv
    BY DEF FlagInv
<1> QED BY <1>1, <1>2, <1>3, <1>4 DEF IInv

\* The inductive invariant is preserved by every step of the lock.
LEMMA StepIInv == ASSUME ConstantsOK PROVE IInv /\ [Next]_vars => IInv'
<1> SUFFICES ASSUME IInv, [Next]_vars PROVE IInv'
    OBVIOUS
<1> USE ConstantsOK DEF ConstantsOK
<1>1. ASSUME NEW x \in Contexts, ContextStep(x) PROVE IInv'
  <2> USE DEF TypeOK, IrqTypeOK, SetIrqs, Goto
  <2>r. TypeOK /\ IrqInv /\ OwnInv /\ FlagInv /\ Running(x)
      BY <1>1 DEF ContextStep, IInv
  <2>x. x[1] \in Cpus /\ depth[x] \in 0 .. MaxDepth
      BY <2>r, ContextFacts
  <2>a. \A y \in Contexts : y # x /\ y[1] = x[1] =>
          depth[y] = 0 /\ pc[y] \in {"caller", "relax"} /\ ~Holds(y)
      BY <2>r, Alone
  <2>1. CASE Acquire(x)
    <3> USE <2>1, <2>r, <2>x, <2>a DEF Acquire
    <3>1. TypeOK'
        OBVIOUS
    <3>2. IsrAbove'
        BY ContextFacts, CpuFacts DEF IrqInv, IsrAbove, IsrIdle, Running
    <3>3. IsrIdle'
      <4> SUFFICES ASSUME NEW c \in Cpus
                   PROVE  /\ ~inIsr'[c] => pc'[<<c, "isr">>] = "caller" /\ depth'[<<c, "isr">>] = 0
                          /\ ~irqsBefore'[<<c, "isr">>]
          BY DEF IsrIdle
      <4>1. CASE x = <<c, "isr">>
        <5>1. inIsr[c] /\ ~irqsOn[c] /\ x[1] = c
            BY <4>1 DEF IrqInv, IsrAbove, Running
        <5>2. ~irqsBefore[x]
            BY <4>1 DEF IrqInv, IsrIdle
        <5> QED BY <4>1, <5>1, <5>2
      <4>2. CASE x # <<c, "isr">>
          BY <4>2, CpuFacts DEF IrqInv, IsrIdle
      <4> QED BY <4>1, <4>2
    <3>4. IrqsOffInside'
        BY ContextFacts DEF IrqInv, IrqsOffInside
    <3>5. DepthInv'
        BY DEF OwnInv, DepthInv
    <3>6. OneOwner'
        BY ContextFacts DEF OwnInv, OneOwner
    <3>7. OwnerHolds'
        BY ContextFacts, CpuFacts DEF OwnInv, OwnerHolds, Holds
    <3>8. CountIsDepth'
        BY ContextFacts, CpuFacts DEF OwnInv, CountIsDepth
    <3>9. FlagInv'
        BY ContextFacts DEF FlagInv
    <3> QED BY <3>1, <3>2, <3>3, <3>4, <3>5, <3>6, <3>7, <3>8, <3>9 DEF IInv, IrqInv, OwnInv
  <2>2. CASE CompareExchange(x)
    <3> USE <2>2, <2>r, <2>x, <2>a DEF CompareExchange
    <3>0. /\ depth'[x] = depth[x] + 1 /\ depth[x] < MaxDepth
          /\ recursionCount' = depth'[x] /\ lock' = x[1] /\ flags' = irqsBefore[x]
      <4>1. depth'[x] = depth[x] + 1 /\ depth[x] < MaxDepth
          BY DEF OwnInv, DepthInv
      <4>2. CASE Take(x)
        <5>1. depth[x] = 0
            BY <4>2 DEF Take, OwnInv, OneOwner
        <5> QED BY <4>1, <4>2, <5>1 DEF Take, FlagInv
      <4>3. CASE TakeAgain(x)
        <5>1. recursionCount = depth[x] /\ depth[x] > 0
            BY <4>3, OwnCount DEF TakeAgain, Holds
        <5> QED BY <4>1, <4>3, <5>1 DEF TakeAgain, FlagInv
      <4> QED BY <4>2, <4>3
    <3>y. \A y \in Contexts : y[1] # x[1] => ~Holds(y)
        BY ContextFacts DEF Take, TakeAgain, OwnInv, OneOwner, Holds
    <3> HIDE DEF CompareExchange
    <3>u. /\ UNCHANGED <<irqsOn, inIsr, irqsWereEnabled, irqsBefore>>
          /\ pc' = [pc EXCEPT ![x] = "caller"] /\ depth' = [depth EXCEPT ![x] = @ + 1]
          /\ pc[x] = "exchange"
        BY DEF CompareExchange
    <3> USE <3>0, <3>y, <3>u
    <3>1. TypeOK'
        OBVIOUS
    <3>2. IsrAbove'
        BY ContextFacts, CpuFacts DEF IrqInv, IsrAbove, IsrIdle, Running
    <3>3. IsrIdle'
      <4>1. ASSUME NEW c \in Cpus, c # x[1]
            PROVE  /\ ~inIsr[c] => pc'[<<c, "isr">>] = "caller" /\ depth'[<<c, "isr">>] = 0
                   /\ ~irqsBefore[<<c, "isr">>]
          BY <4>1, CpuFacts DEF IrqInv, IsrIdle
      <4>2. ASSUME NEW c \in Cpus, c = x[1]
            PROVE  /\ ~inIsr[c] => pc'[<<c, "isr">>] = "caller" /\ depth'[<<c, "isr">>] = 0
                   /\ ~irqsBefore[<<c, "isr">>]
        <5>1. ~inIsr[c] => x # <<c, "isr">>
            BY <4>2, CpuFacts DEF Running
        <5> QED BY <4>2, <5>1, CpuFacts DEF IrqInv, IsrIdle
      <4> QED BY <4>1, <4>2 DEF IsrIdle
    <3>4. IrqsOffInside'
        BY ContextFacts DEF IrqInv, IrqsOffInside
    <3>5. DepthInv'
        BY DEF OwnInv, DepthInv
    <3>6. OneOwner'
        BY ContextFacts DEF OwnInv, OneOwner, Holds
    <3>7. OwnerHolds'
      <4>1. Holds(x)'
          BY DEF Holds
      <4>2. x = <<x[1], "thread">> \/ x = <<x[1], "isr">>
          BY ContextFacts
      <4> QED BY <4>1, <4>2 DEF OwnerHolds
    <3>8. CountIsDepth'
        BY ContextFacts, CpuFacts DEF OwnInv, CountIsDepth
    <3>9. FlagInv'
        BY ContextFacts DEF FlagInv, Holds
    <3> QED BY <3>1, <3>2, <3>3, <3>4, <3>5, <3>6, <3>7, <3>8, <3>9 DEF IInv, IrqInv, OwnInv
  <2>3. CASE CompareExchangeFails(x)
    <3> USE <2>3, <2>r, <2>x, <2>a DEF CompareExchangeFails
    <3>0. depth[x] = 0 /\ irqsWereEnabled[x] = irqsBefore[x] /\ ~irqsOn[x[1]] /\ 0 < MaxDepth
        BY DEF OwnInv, OneOwner, DepthInv, FlagInv, IrqInv, IrqsOffInside
    <3> USE <3>0
    <3>1. TypeOK'
        OBVIOUS
    <3>2. IsrAbove'
        BY ContextFacts, CpuFacts DEF IrqInv, IsrAbove, IsrIdle, Running
    <3>3. IsrIdle'
        BY ContextFacts, CpuFacts DEF IrqInv, IsrIdle, Running
    <3>4. IrqsOffInside'
        BY ContextFacts DEF IrqInv, IrqsOffInside
    <3>5. DepthInv'
        BY DEF OwnInv, DepthInv
    <3>6. OneOwner'
        BY ContextFacts DEF OwnInv, OneOwner
    <3>7. OwnerHolds'
        BY ContextFacts, CpuFacts DEF OwnInv, OwnerHolds, Holds
    <3>8. CountIsDepth'
        BY ContextFacts, CpuFacts DEF OwnInv, CountIsDepth
    <3>9. FlagInv'
        BY ContextFacts DEF FlagInv
    <3> QED BY <3>1, <3>2, <3>3, <3>4, <3>5, <3>6, <3>7, <3>8, <3>9 DEF IInv, IrqInv, OwnInv
  <2>4. CASE Relax(x)
    <3> USE <2>4, <2>r, <2>x, <2>a DEF Relax
    <3>1. TypeOK'
        OBVIOUS
    <3>2. IsrAbove'
        BY ContextFacts, CpuFacts DEF IrqInv, IsrAbove, IsrIdle, Running
    <3>3. IsrIdle'
        BY ContextFacts, CpuFacts DEF IrqInv, IsrIdle, Running
    <3>4. IrqsOffInside'
        BY ContextFacts DEF IrqInv, IrqsOffInside
    <3>5. DepthInv'
        BY DEF OwnInv, DepthInv
    <3>6. OneOwner'
        BY ContextFacts DEF OwnInv, OneOwner
    <3>7. OwnerHolds'
      <4>1. \A y \in Contexts : Holds(y)' <=> Holds(y)
          BY DEF Holds
      <4> QED BY <4>1, ContextFacts, CpuFacts DEF OwnInv, OwnerHolds
    <3>8. CountIsDepth'
        BY ContextFacts, CpuFacts DEF OwnInv, CountIsDepth
    <3>9. FlagInv'
        BY ContextFacts DEF FlagInv
    <3> QED BY <3>1, <3>2, <3>3, <3>4, <3>5, <3>6, <3>7, <3>8, <3>9 DEF IInv, IrqInv, OwnInv
  <2>5. CASE Release(x)
    <3>0. /\ lock = x[1] /\ recursionCount = depth[x] /\ depth[x] > 0 /\ pc[x] = "caller"
          /\ depth' = [depth EXCEPT ![x] = @ - 1] /\ recursionCount' = depth[x] - 1
          /\ UNCHANGED <<irqsOn, inIsr, lock, irqsBefore>>
          /\ flags = irqsBefore[x] /\ ~irqsOn[x[1]]
        BY <2>5, <2>r, <2>x, OwnCount DEF Release, OwnInv, OneOwner, FlagInv, IrqInv, IrqsOffInside
    <3>t. depth[x] - 1 \in 0 .. MaxDepth
        BY <3>0, <2>x
    <3>y. \A y \in Contexts : y # x => depth[y] = 0 /\ pc[y] # "unlock"
      <4> SUFFICES ASSUME NEW y \in Contexts, y # x PROVE ~Holds(y)
          BY <2>r, <2>a DEF Holds
      <4> QED BY <3>0, <2>r, <2>a DEF OwnInv, OneOwner, Holds
    <3> USE <2>r, <2>x, <2>a, <3>0, <3>t, <3>y
    <3>1. CASE recursionCount = 1
      <4>0. /\ pc' = [pc EXCEPT ![x] = "unlock"] /\ flags' = FALSE
            /\ irqsWereEnabled' = [irqsWereEnabled EXCEPT ![x] = flags]
          BY <3>1, <2>5 DEF Release
      <4> USE <3>1, <4>0
      <4>1. TypeOK'
          OBVIOUS
      <4>2. IsrAbove'
          BY ContextFacts, CpuFacts DEF IrqInv, IsrAbove, IsrIdle, Running
      <4>3. IsrIdle'
        <5>1. \A c \in Cpus : x = <<c, "isr">> => inIsr[c]
            BY DEF Running
        <5> QED BY <5>1, CpuFacts DEF IrqInv, IsrIdle
      <4>4. IrqsOffInside'
          BY ContextFacts DEF IrqInv, IrqsOffInside
      <4>5. DepthInv'
          BY DEF OwnInv, DepthInv
      <4>6. OneOwner'
          BY ContextFacts DEF OwnInv, OneOwner
      <4>7. OwnerHolds'
          BY ContextFacts, CpuFacts DEF OwnInv, OwnerHolds, Holds
      <4>8. CountIsDepth'
          BY ContextFacts, CpuFacts DEF OwnInv, CountIsDepth
      <4>9. FlagInv'
          BY ContextFacts DEF FlagInv
      <4> QED BY <4>1, <4>2, <4>3, <4>4, <4>5, <4>6, <4>7, <4>8, <4>9 DEF IInv, IrqInv, OwnInv
    <3>2. CASE recursionCount # 1
      <4>0. UNCHANGED <<pc, irqsWereEnabled, flags>> /\ depth[x] > 1
          BY <3>2, <2>5 DEF Release
      <4> USE <3>2, <4>0
      <4>1. TypeOK'
          OBVIOUS
      <4>2. IsrAbove'
          BY ContextFacts, CpuFacts DEF IrqInv, IsrAbove, IsrIdle, Running
      <4>3. IsrIdle'
        <5>1. \A c \in Cpus : x = <<c, "isr">> => inIsr[c]
            BY DEF Running
        <5> QED BY <5>1, CpuFacts DEF IrqInv, IsrIdle
      <4>4. IrqsOffInside'
          BY ContextFacts DEF IrqInv, IrqsOffInside
      <4>5. DepthInv'
          BY DEF OwnInv, DepthInv
      <4>6. OneOwner'
          BY ContextFacts DEF OwnInv, OneOwner
      <4>7. OwnerHolds'
          BY ContextFacts, CpuFacts DEF OwnInv, OwnerHolds, Holds
      <4>8. CountIsDepth'
          BY ContextFacts, CpuFacts DEF OwnInv, CountIsDepth
      <4>9. FlagInv'
          BY ContextFacts DEF FlagInv
      <4> QED BY <4>1, <4>2, <4>3, <4>4, <4>5, <4>6, <4>7, <4>8, <4>9 DEF IInv, IrqInv, OwnInv
    <3> QED BY <3>1, <3>2
  <2>6. CASE Unlock(x)
    <3> USE <2>6, <2>r, <2>x, <2>a DEF Unlock
    <3>0. lock = x[1] /\ depth[x] = 0 /\ recursionCount = 0 /\ ~irqsOn[x[1]]
          /\ irqsWereEnabled[x] = irqsBefore[x]
        BY OwnCount DEF OwnInv, OneOwner, DepthInv, FlagInv, IrqInv, IrqsOffInside
    <3> USE <3>0
    <3>1. TypeOK'
        OBVIOUS
    <3>2. IsrAbove'
        BY ContextFacts, CpuFacts DEF IrqInv, IsrAbove, IsrIdle, Running
    <3>3. IsrIdle'
        BY ContextFacts, CpuFacts DEF IrqInv, IsrIdle, Running
    <3>4. IrqsOffInside'
        BY ContextFacts DEF IrqInv, IrqsOffInside
    <3>5. DepthInv'
        BY DEF OwnInv, DepthInv
    <3>6. OneOwner'
        BY ContextFacts DEF OwnInv, OneOwner
    <3>7. OwnerHolds'
        BY ContextFacts, CpuFacts DEF OwnInv, OwnerHolds, Holds
    <3>8. CountIsDepth'
        BY ContextFacts, CpuFacts DEF OwnInv, CountIsDepth
    <3>9. FlagInv'
        BY ContextFacts DEF FlagInv
    <3> QED BY <3>1, <3>2, <3>3, <3>4, <3>5, <3>6, <3>7, <3>8, <3>9 DEF IInv, IrqInv, OwnInv
  <2> QED BY <1>1, <2>1, <2>2, <2>3, <2>4, <2>5, <2>6 DEF ContextStep
<1>2. ASSUME NEW c \in Cpus, IsrEnter(c) PROVE IInv'
  <2> USE <1>2, CpuFacts DEF IsrEnter, InterruptEntry, IInv, lockVars, TypeOK, IrqTypeOK
  <2>1. TypeOK' /\ FlagInv'
      BY DEF FlagInv
  <2>2. OwnInv'
      BY DEF OwnInv, DepthInv, OneOwner, OwnerHolds, CountIsDepth, Holds
  <2>3. IsrAbove'
    <3>1. pc[<<c, "thread">>] \in {"caller", "relax"} /\ depth[<<c, "thread">>] = 0
      <4> DEFINE t == <<c, "thread">>
      <4>1. t \in Contexts /\ irqsOn[t[1]]
          BY CpuFacts
      <4>2. pc[t] \in {"caller", "relax"} /\ ~(depth[t] > 0) /\ depth[t] \in 0 .. MaxDepth
          BY <4>1 DEF IrqInv, IrqsOffInside
      <4> QED BY <4>2
    <3> QED BY <3>1 DEF IrqInv, IsrAbove
  <2>4. IsrIdle' /\ IrqsOffInside'
      BY ContextFacts DEF IrqInv, IsrIdle, IrqsOffInside
  <2> QED BY <2>1, <2>2, <2>3, <2>4 DEF IrqInv
<1>3. ASSUME NEW c \in Cpus, IsrReturn(c) PROVE IInv'
  <2> USE <1>3, CpuFacts DEF IsrReturn, InterruptReturn, IInv, lockVars, TypeOK, IrqTypeOK
  <2>1. TypeOK' /\ FlagInv'
      BY DEF FlagInv
  <2>2. OwnInv'
      BY DEF OwnInv, DepthInv, OneOwner, OwnerHolds, CountIsDepth, Holds
  <2>3. IsrAbove' /\ IsrIdle'
      BY DEF IrqInv, IsrAbove, IsrIdle
  <2>4. IrqsOffInside'
    <3> SUFFICES ASSUME NEW y \in Contexts, pc[y] \notin {"caller", "relax"} \/ depth[y] > 0
                 PROVE  ~irqsOn'[y[1]]
        BY DEF IrqsOffInside
    <3>1. y[1] # c
        BY ContextFacts DEF IrqInv, IsrAbove
    <3> QED BY <3>1, ContextFacts DEF IrqInv, IrqsOffInside
  <2> QED BY <2>1, <2>2, <2>3, <2>4 DEF IrqInv
<1>4. CASE UNCHANGED vars
    BY <1>4 DEF vars, IInv, TypeOK, IrqTypeOK, IrqInv, IsrAbove, IsrIdle, IrqsOffInside, OwnInv,
        DepthInv, OneOwner, OwnerHolds, CountIsDepth, FlagInv, Holds
<1> QED BY <1>1, <1>2, <1>3, <1>4 DEF Next

-----------------------------------------------------------------------------
(* What the invariant gives *)

LEMMA Invariance == ASSUME ConstantsOK PROVE Spec => []IInv
BY InitIInv, StepIInv, PTL DEF Spec

\* RecursiveLock's members keep their types; in particular the recursion
\* count never falls below zero or outgrows one context's nest.
THEOREM TypeCorrect == ASSUME ConstantsOK PROVE Spec => []TypeOK
<1>1. IInv => TypeOK
    BY DEF IInv
<1> QED BY <1>1, Invariance, PTL

\* Whoever is between acquire() and release(), thread or ISR, runs under the
\* id in the lock word, and recursionCount is the depth of its nest.
THEOREM OwnerAndDepth == ASSUME ConstantsOK PROVE Spec => [](OneOwner /\ CountIsDepth)
<1>1. IInv => OneOwner /\ CountIsDepth
    BY DEF IInv, OwnInv
<1> QED BY <1>1, Invariance, PTL

\* No ISR runs above a thread that holds the lock, where acquire() would let
\* it in under the thread's id.
THEOREM NotInterrupted == ASSUME ConstantsOK PROVE Spec => []HolderNotInterrupted
<1>1. IInv => HolderNotInterrupted
    BY DEF IInv, IrqInv, IsrAbove, HolderNotInterrupted
<1> QED BY <1>1, Invariance, PTL

\* The outermost release() leaves the interrupt flag of the CPU as the
\* outermost acquire() found it, and an inner one leaves interrupts off.
THEOREM IrqsRestored == ASSUME ConstantsOK PROVE Spec => OutermostRestores
<1> DEFINE Restored ==
      \A x \in Contexts :
        /\ pc[x] = "unlock" /\ pc'[x] = "caller" => irqsOn'[x[1]] = irqsBefore[x]
        /\ depth'[x] < depth[x] => irqsOn'[x[1]] = FALSE
<1>1. ASSUME IInv, [Next]_vars PROVE [Restored]_vars
  <2> SUFFICES ASSUME Next, NEW x \in Contexts
               PROVE  /\ pc[x] = "unlock" /\ pc'[x] = "caller" => irqsOn'[x[1]] = irqsBefore[x]
                      /\ depth'[x] < depth[x] => irqsOn'[x[1]] = FALSE
      BY <1>1
  <2> USE <1>1 DEF IInv, TypeOK, IrqTypeOK
  <2>d. x[1] \in Cpus /\ depth[x] \in 0 .. MaxDepth
      BY ContextFacts
  <2>1. ASSUME pc[x] = "unlock", pc'[x] = "caller" PROVE irqsOn'[x[1]] = irqsBefore[x]
    <3>1. Unlock(x)
      <4>1. ASSUME NEW y \in Contexts, ContextStep(y) PROVE Unlock(x)
          BY <2>1, <4>1 DEF ContextStep, Acquire, CompareExchange, CompareExchangeFails, Relax,
               Release, Unlock, Goto
      <4>2. ASSUME NEW c \in Cpus, IsrEnter(c) \/ IsrReturn(c) PROVE FALSE
          BY <2>1, <4>2 DEF IsrEnter, IsrReturn, lockVars
      <4> QED BY <4>1, <4>2 DEF Next
    <3>2. ~irqsOn[x[1]] /\ irqsWereEnabled[x] = irqsBefore[x]
        BY <2>1 DEF IrqInv, IrqsOffInside, FlagInv
    <3> QED BY <2>d, <3>1, <3>2 DEF Unlock, SetIrqs
  <2>2. ASSUME depth'[x] < depth[x] PROVE irqsOn'[x[1]] = FALSE
    <3>1. Release(x)
      <4>1. ASSUME NEW y \in Contexts, ContextStep(y) PROVE Release(x)
        <5>1. CASE Release(y)
          <6>1. x = y
            <7>1. x # y => depth'[x] = depth[x]
                BY <5>1 DEF Release
            <7> QED BY <2>2, <2>d, <7>1
          <6> QED BY <5>1, <6>1
        <5>2. CASE CompareExchange(y)
            BY <2>2, <2>d, <5>2 DEF CompareExchange
        <5>3. CASE Acquire(y) \/ CompareExchangeFails(y) \/ Relax(y) \/ Unlock(y)
          <6>1. depth' = depth
              BY <5>3 DEF Acquire, CompareExchangeFails, Relax, Unlock
          <6> QED BY <2>2, <2>d, <6>1
        <5> QED BY <4>1, <5>1, <5>2, <5>3 DEF ContextStep
      <4>2. ASSUME NEW c \in Cpus, IsrEnter(c) \/ IsrReturn(c) PROVE FALSE
          BY <2>2, <2>d, <4>2 DEF IsrEnter, IsrReturn, lockVars
      <4> QED BY <4>1, <4>2 DEF Next
    <3>2. ~irqsOn[x[1]]
        BY <3>1 DEF IrqInv, IrqsOffInside, Release
    <3> QED BY <2>d, <3>1, <3>2 DEF Release
  <2> QED BY <2>1, <2>2
<1> QED BY <1>1, Invariance, PTL DEF Spec, OutermostRestores

\* Seen by threads RecursiveLock implements the abstract lock of module
\* ReadersWriter, as a mutex: what is nested is invisible.
THEOREM Refinement == ASSUME ConstantsOK PROVE Spec => ImplementsMutex
<1> DEFINE Inside == {x[1] : x \in {y \in Contexts : depth[y] > 0 \/ pc[y] = "unlock"}}
           Owner == IF lock = Free THEN {} ELSE {lock}
<1> USE DEF AbstractLock!Init, AbstractLock!Next, AbstractLock!vars
<1>1. Init => AbstractLock!Init
    BY DEF Init
<1>2. ASSUME IInv, IInv', [Next]_vars PROVE [AbstractLock!Next]_(AbstractLock!vars)
  <2>1. Inside = Owner
    <3>1. \A x \in Contexts : depth[x] > 0 \/ pc[x] = "unlock" => lock = x[1]
        BY <1>2 DEF IInv, OwnInv, OneOwner
    <3>2. lock \in Cpus => \E x \in Contexts : lock = x[1] /\ (depth[x] > 0 \/ pc[x] = "unlock")
        BY <1>2, CpuFacts DEF IInv, OwnInv, OwnerHolds, Holds
    <3>3. lock \in Cpus \union {Free} /\ Free \notin Cpus
        BY <1>2, ConstantsOK DEF IInv, TypeOK, ConstantsOK
    <3>4. \A c \in Inside : c = lock /\ c \in Cpus
        BY <3>1, ContextFacts
    <3>5. lock # Free => lock \in Inside
        BY <3>2, <3>3
    <3> QED BY <3>3, <3>4, <3>5
  <2>2. Inside' = Owner'
    <3>1. \A x \in Contexts : depth'[x] > 0 \/ pc'[x] = "unlock" => lock' = x[1]
        BY <1>2 DEF IInv, OwnInv, OneOwner
    <3>2. lock' \in Cpus => \E x \in Contexts : lock' = x[1] /\ (depth'[x] > 0 \/ pc'[x] = "unlock")
        BY <1>2, CpuFacts DEF IInv, OwnInv, OwnerHolds, Holds
    <3>3. lock' \in Cpus \union {Free} /\ Free \notin Cpus
        BY <1>2, ConstantsOK DEF IInv, TypeOK, ConstantsOK
    <3>4. \A c \in Inside' : c = lock' /\ c \in Cpus
        BY <3>1, ContextFacts
    <3>5. lock' # Free => lock' \in Inside'
        BY <3>2, <3>3
    <3> QED BY <3>3, <3>4, <3>5
  <2>3. lock' = lock \/ (lock = Free /\ lock' \in Cpus) \/ (lock \in Cpus /\ lock' = Free)
    <3>1. ASSUME NEW x \in Contexts, ContextStep(x)
          PROVE  lock' = lock \/ (lock = Free /\ lock' \in Cpus) \/ (lock \in Cpus /\ lock' = Free)
        BY <1>2, <3>1, ContextFacts
        DEF ContextStep, Acquire, CompareExchange, Take, TakeAgain, CompareExchangeFails, Relax,
            Release, Unlock, IInv, TypeOK
    <3>2. ASSUME NEW c \in Cpus, IsrEnter(c) \/ IsrReturn(c) PROVE lock' = lock
        BY <3>2 DEF IsrEnter, IsrReturn, lockVars
    <3>3. CASE UNCHANGED vars
        BY <3>3 DEF vars
    <3> QED BY <1>2, <3>1, <3>2, <3>3 DEF Next
  <2> HIDE DEF Inside
  <2>4. CASE lock' = lock
      BY <2>1, <2>2, <2>4 DEF Inside
  <2>5. CASE lock = Free /\ lock' \in Cpus
    <3>1. Inside = {} /\ Inside' = {lock'}
        BY <2>1, <2>2, <2>5, ConstantsOK DEF ConstantsOK
    <3> QED BY <2>5, <3>1 DEF AbstractLock!StartWriting, Inside
  <2>6. CASE lock \in Cpus /\ lock' = Free
    <3>1. Inside = {lock} /\ Inside' = {}
        BY <2>1, <2>2, <2>6, ConstantsOK DEF ConstantsOK
    <3> QED BY <2>6, <3>1 DEF AbstractLock!StopWriting, Inside
  <2> QED BY <2>3, <2>4, <2>5, <2>6
<1> QED BY <1>1, <1>2, Invariance, PTL DEF Spec, ImplementsMutex, AbstractLock!Spec
=============================================================================
