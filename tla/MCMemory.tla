------------------------------ MODULE MCMemory ------------------------------
(***************************************************************************)
(* The memory manager's parts, one in each behaviour: the page allocator   *)
(* of the kernel, whose node cache takes its pages from that allocator;    *)
(* that of another process; a range of physical memory; the stream that    *)
(* puts pages and frames together; and the banks of physical memory, from  *)
(* pmemInit() on.  Two threads call each.                                  *)
(***************************************************************************)
EXTENDS NumaMemoryRange, TLC

CONSTANTS
  NPages, Sizes, PerPage, Kernel,                  \* of the kernel's swamp
  ProcPages,                                       \* of the process
  StreamPages, StreamFrames, Freed, CommitMax,     \* of the stream
  BankOps                                          \* calls of the banks

VARIABLES
  part,
  node, head, tail, partialList, pageCache, usedPages, nodePages, swampPc, swampArg, link, failed,
  pages, frames, pte, allocCache, allocTable, live, streamPc, mem,
  chip, map, stage, pos, kspaceBool, noFrame, ranges, usedBits, defRange, readers,
  writing, defaultBank, out, held, early, regionOut, bankPc, ops

swampVars == <<node, head, tail, partialList, pageCache, usedPages, nodePages, swampPc, swampArg,
               link, failed>>
streamVars == <<pages, frames, pte, allocCache, allocTable, live, streamPc, mem>>
bankVars == <<chip, map, stage, pos, kspaceBool, noFrame, ranges, usedBits, defRange, readers,
              writing, defaultBank, out, held, early, regionOut, bankPc, ops>>
allVars == <<part, vars, swampVars, streamVars, bankVars>>

K == INSTANCE VSwamp WITH used <- usedPages, pc <- swampPc, arg <- swampArg

\* The swamp of a process: a page of its node cache has room for two nodes.
P == INSTANCE VSwamp WITH
       NPages <- ProcPages, PerPage <- 2, Kernel <- FALSE,
       used <- usedPages, pc <- swampPc, arg <- swampArg

ASSUME SwampAssumptions == K!SwampAssumption /\ P!SwampAssumption

S == INSTANCE MemoryStream WITH NPages <- StreamPages, NFrames <- StreamFrames, pc <- streamPc

(***************************************************************************)
(* What the chipset knows of its memory: a NUMA map with no entry, one     *)
(* entry, holes, entries out of order, overlapping ones and ones beyond    *)
(* the end of memory; the size of the memory, or none; a reserved area     *)
(* that is part of a range or has a range inside; and a __kspace that      *)
(* lasts for pmemInit(), or not.                                           *)
(***************************************************************************)
Entry(first, length, id) == [base |-> first, n |-> length, bank |-> id]
Area(first, length) == [base |-> first, n |-> length]
Maps ==
  {<<>>, <<Entry(2, 4, 0)>>, <<Entry(0, 4, 0), Entry(6, 3, 1)>>, <<Entry(6, 3, 1), Entry(1, 3, 0)>>,
   <<Entry(0, 2, 0), Entry(8, 2, 0), Entry(4, 2, 1)>>, <<Entry(0, 4, 0), Entry(3, 3, 1)>>,
   <<Entry(0, 10, 0), Entry(12, 2, 1)>>, <<Entry(4, 2, 0), Entry(4, 2, 1)>>}
Memories ==
  {[map |-> m, memSize |-> size, unusable |-> areas, regions |-> {Area(0, 1)},
    kspace |-> Area(2, 5), kused |-> taken] :
     m \in Maps, size \in {0, 8}, areas \in {{}, {Area(8, 1)}, {Area(7, 6)}},
     taken \in {{2}, {2, 3, 4}}}

B == INSTANCE NumaMemory WITH
       Chipsets <- Memories, Threads <- {"orient", "other"}, MaxOps <- BankOps,
       used <- usedBits, failed <- noFrame, pc <- bankPc

\* The banks of a behaviour that is about something else.
AnyMemory == CHOOSE m \in Memories : TRUE

MCInit ==
  /\ Init /\ S!Init /\ B!Init
  /\ \/ part \in {"kernel", "stream", "banks"} /\ K!Init /\ bmp = {}
     \/ part = "process" /\ P!Init /\ bmp = {}
     \/ part = "range" /\ K!Init
  /\ part # "banks" => chip = AnyMemory

OfSwamp(p, A) == part = p /\ A /\ UNCHANGED <<part, vars, streamVars, bankVars>>
OfRange(A) == part = "range" /\ A /\ UNCHANGED <<part, swampVars, streamVars, bankVars>>
OfStream(A) == part = "stream" /\ A /\ UNCHANGED <<part, vars, swampVars, bankVars>>
OfBanks(A) == part = "banks" /\ A /\ UNCHANGED <<part, vars, swampVars, streamVars>>

MCNext ==
  \/ OfSwamp("kernel", K!Next) \/ OfSwamp("process", P!Next) \/ OfRange(Next) \/ OfStream(S!Next)
  \/ OfBanks(B!Next)
  \* The banks may stop: in a panic, with two threads that wait for each other
  \* at a default range, or when the calls are used up.
  \/ part = "banks" /\ UNCHANGED allVars

MCSpec == MCInit /\ [][MCNext]_allVars

\* The threads are alike.
MCSymmetry == Permutations(Threads)
-----------------------------------------------------------------------------
(* The properties are stated, with their comments, in the modules; so is   *)
(* FramesKept, of NumaMemoryRange.                                         *)

\* VSwamp: the nodes are linked both ways in the order of their addresses, and
\* a page that comes back can be had again, unless there is no memory for a
\* node, the swamp was empty, or a node was unlinked in releasePages().
PagesKept == K!WellLinked /\ IF part = "process" THEN P!NoneLost ELSE K!NoneLost

\* MemoryStream: a frame backs one page, and neither of them is free; memFree()
\* finds every allocation in the table.
AllocationsSound == S!FramesExclusive /\ S!TableCovers

\* MemoryStream: memFree() gives back no frame of another allocation.
ClientsFramesKept == S!ClientsFramesKept

\* NumaMemory: pmemInit() puts each frame into one range, from which it goes to
\* one owner at a time; a thread waits for a bank's default range only while it
\* is replaced.
BanksSound == B!BanksSound

\* VSwamp, NumaMemoryRange: they implement the abstract allocator, which gives
\* a page or a frame to one client at a time.
ImplementAllocator == K!ImplementsAllocator /\ ImplementsAllocator
=============================================================================
