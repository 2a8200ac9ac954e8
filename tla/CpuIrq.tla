------------------------------- MODULE CpuIrq -------------------------------
(***************************************************************************)
(* The execution contexts of a multiprocessor: every CPU runs a thread and *)
(* may be interrupted, on top of that thread, by one interrupt service     *)
(* routine (ISR).  Interrupt vectors are installed as interrupt gates, so  *)
(* the CPU enters the ISR with its local interrupts off; the build does    *)
(* not set CONFIG_RT_KERNEL_IRQ_NESTING by default, so they stay off for   *)
(* the whole ISR, and the iret that ends it restores the interrupted       *)
(* thread's flags.                                                         *)
(***************************************************************************)
EXTENDS Naturals, FiniteSets

CONSTANT Cpus

ASSUME CpusAssumption == IsFiniteSet(Cpus)

VARIABLES
  irqsOn,   \* irqsOn[c]: EFLAGS.IF of CPU c
  inIsr     \* inIsr[c]: CPU c is executing an ISR above its thread

irqVars == <<irqsOn, inIsr>>

Levels == {"thread", "isr"}

Contexts == Cpus \X Levels

\* A context executes only while it is the topmost one of its CPU.
Running(x) == inIsr[x[1]] = (x[2] = "isr")

IrqTypeOK ==
  /\ irqsOn \in [Cpus -> BOOLEAN]
  /\ inIsr \in [Cpus -> BOOLEAN]

\* Threads start with interrupts on or off (boot runs with them off).
IrqInit ==
  /\ irqsOn \in [Cpus -> BOOLEAN]
  /\ inIsr = [c \in Cpus |-> FALSE]

\* The CPU vectors through the interrupt gate, which clears IF.
InterruptEntry(c) ==
  /\ irqsOn[c]
  /\ ~inIsr[c]
  /\ inIsr' = [inIsr EXCEPT ![c] = TRUE]
  /\ irqsOn' = [irqsOn EXCEPT ![c] = FALSE]

\* iret: the interrupted thread had IF set, otherwise it was not interrupted.
InterruptReturn(c) ==
  /\ inIsr[c]
  /\ inIsr' = [inIsr EXCEPT ![c] = FALSE]
  /\ irqsOn' = [irqsOn EXCEPT ![c] = TRUE]

\* What cli and sti do to the CPU that executes them.
SetIrqs(c, on) == irqsOn' = [irqsOn EXCEPT ![c] = on]
=============================================================================
