---------------------------- MODULE MemoryStream ----------------------------
(***************************************************************************)
(* MemoryStream: memAlloc() and memFree() of a process, and the page fault *)
(* that backs a fakemapped page.  They take pages from the process's       *)
(* VaddrSpaceStream and frames from the memory tributary, both of which    *)
(* are here what Allocator promises, and put them together in the page     *)
(* tables.  Freed single pages are kept, mapped but not present, in the    *)
(* allocCache.  The allocTable knows the size of each allocation.          *)
(*                                                                         *)
(* Each of these has a lock of its own, and a call takes them one after    *)
(* the other: a step is one critical section.                              *)
(***************************************************************************)
EXTENDS Integers, SequencesExt, FiniteSetsExt

CONSTANTS
  Threads,
  NPages,       \* of the address space
  NFrames,      \* of physical memory
  Sizes,        \* the numbers of pages that clients allocate
  Freed,        \* those that they free again
  CommitMax,    \* MEMORYSTREAM_COMMIT_MAX_NFRAMES
  CacheSize,    \* of the allocation cache
  NULL

VARIABLES
  pages, frames,    \* free ones
  pte,              \* of each page: its entry in the page tables
  allocCache,       \* a stack
  allocTable,       \* a sequence of <<first page, number>>
  live,             \* what clients have, likewise
  pc,               \* of each thread: where it is
  mem               \* of each thread: the pages it is about, and how far it is

vars == <<pages, frames, pte, allocCache, allocTable, live, pc, mem>>

Pages == 0 .. NPages - 1
Frames == 0 .. NFrames - 1
Run(a, n) == a .. a + n - 1

\* Entries: nothing; fakemapped; a frame, present or not.
Unmapped == [status |-> "UNMAPPED", frame |-> NULL]
Fakemapped == [status |-> "FAKEMAPPED", frame |-> NULL]
Backed(f) == [status |-> "BACKED", frame |-> f]

Init ==
  /\ pages = Pages /\ frames = Frames
  /\ pte = [p \in Pages |-> Unmapped]
  /\ allocCache = <<>> /\ allocTable = <<>> /\ live = {}
  /\ pc = [t \in Threads |-> "idle"] /\ mem = [t \in Threads |-> NULL]

At(t, l) == pc[t] = l
Goto(t, l, m) == pc' = [pc EXCEPT ![t] = l] /\ mem' = [mem EXCEPT ![t] = m]
Return(t) == Goto(t, "idle", NULL)

\* walkerPageRanger::setAttributes(), of a present bit: what an entry without a
\* frame makes of it is not asked, since a page of the cache has one.
SetPresent(p, s) ==
  pte' = [pte EXCEPT ![p].status = IF @ \in {"BACKED", "NOT_PRESENT"} THEN s ELSE @]

\* walkerPageRanger::mapInc() and mapNoInc(), of n pages from p.
MapInc(p, f, n) ==
  pte' = [q \in Pages |-> IF q \in Run(p, n) THEN Backed(f + q - p) ELSE pte[q]]
MapNoInc(p, n) ==
  pte' = [q \in Pages |-> IF q \in Run(p, n) THEN Fakemapped ELSE pte[q]]

\* memoryTribPmm::releaseFrames()
ReleaseFrames(f, n) == frames' = frames \cup (Run(f, n) \cap Frames)

\* walkerPageRanger::unmap(), of a page; if it was present, n frames from its own
\* are released.
Unmap(p, n) ==
  /\ pte' = [pte EXCEPT ![p] = Unmapped]
  /\ IF pte[p].status = "BACKED" THEN ReleaseFrames(pte[p].frame, n) ELSE UNCHANGED frames

\* walkerPageRanger::remapInc() asks nothing of the entry that it changes.
RemapInc(p, f) == pte' = [pte EXCEPT ![p] = Backed(f)]
-----------------------------------------------------------------------------
(* memAlloc()                                                              *)

\* A page of the cache is popped, and then made present again.
AllocCached(t) ==
  /\ At(t, "idle") /\ 1 \in Sizes /\ allocCache # <<>>
  /\ allocCache' = Tail(allocCache)
  /\ Goto(t, "present", [base |-> Head(allocCache), n |-> 1])
  /\ UNCHANGED <<pages, frames, pte, allocTable, live>>

AllocPresent(t) ==
  /\ At(t, "present")
  /\ SetPresent(mem[t].base, "BACKED")
  /\ live' = live \cup {<<mem[t].base, 1>>}
  /\ Return(t)
  /\ UNCHANGED <<pages, frames, allocCache, allocTable>>

\* The frames to commit, for each of the flags.
Commit(n, flag) ==
  CASE flag = "NO_FAKEMAP" -> n
    [] flag = "PURE_VIRTUAL" -> 0
    [] OTHER -> IF n > CommitMax THEN (n - CommitMax) \div 4 + CommitMax ELSE n

\* getPages() finds n pages from p.  Those who want pure virtual memory, the
\* heaps, want more than one page.
AllocCall(t, p, n, flag) ==
  /\ At(t, "idle") /\ (n # 1 \/ allocCache = <<>>) /\ (flag = "PURE_VIRTUAL" => n > 1)
  /\ Run(p, n) \subseteq pages
  /\ pages' = pages \ Run(p, n)
  /\ Goto(t, "commit", [base |-> p, n |-> n, pos |-> p, totalFrames |-> 0,
                        commit |-> Commit(n, flag), fakemap |-> flag # "NO_FAKEMAP"])
  /\ UNCHANGED <<frames, pte, allocCache, allocTable, live>>

\* k frames from f, of which m are mapped: all, or fewer if there is no memory
\* for a page table.
AllocCommit(t, f, k, m) ==
  LET a == mem[t] IN
  /\ At(t, "commit") /\ k <= a.commit - a.totalFrames /\ Run(f, k) \subseteq frames
  /\ frames' = frames \ Run(f, k)
  /\ MapInc(a.base + a.totalFrames, f, m)
  /\ Goto(t, IF m < k THEN "unwind" ELSE "commit", [a EXCEPT !.totalFrames = @ + k])
  /\ UNCHANGED <<pages, allocCache, allocTable, live>>

\* Four tries have found no frame.
AllocNoFrames(t) ==
  /\ At(t, "commit") /\ mem[t].totalFrames < mem[t].commit
  /\ Goto(t, "unwind", mem[t])
  /\ UNCHANGED <<pages, frames, pte, allocCache, allocTable, live>>

\* The rest is fakemapped, m pages of it.
AllocFakemap(t, m) ==
  LET a == mem[t]
      rest == a.n - a.totalFrames
  IN
  /\ At(t, "commit") /\ a.totalFrames = a.commit
  /\ m <= rest /\ (~ a.fakemap => m = 0)
  /\ MapNoInc(a.base + a.totalFrames, m)
  /\ Goto(t, IF a.fakemap /\ m < rest THEN "unwind" ELSE "table", a)
  /\ UNCHANGED <<pages, frames, allocCache, allocTable, live>>

AllocEntry(t) ==
  LET a == <<mem[t].base, mem[t].n>> IN
  /\ At(t, "table")
  /\ allocTable' = <<a>> \o allocTable
  /\ live' = live \cup {a}
  /\ Return(t)
  /\ UNCHANGED <<pages, frames, pte, allocCache>>

AllocNoEntry(t) ==
  /\ At(t, "table")
  /\ Goto(t, "unwind", mem[t])
  /\ UNCHANGED <<pages, frames, pte, allocCache, allocTable, live>>

\* Variant: the frames are released, but stay mapped.
AllocUnmapKeeps(t) ==
  LET a == mem[t]
      p == a.pos
  IN
  /\ At(t, "unwind") /\ a.totalFrames > 0
  /\ IF pte[p].status = "BACKED" THEN ReleaseFrames(pte[p].frame, 1) ELSE UNCHANGED frames
  /\ Goto(t, "unwind", [a EXCEPT !.totalFrames = @ - 1, !.pos = @ + 1])
  /\ UNCHANGED <<pages, pte, allocCache, allocTable, live>>

\* releaseAndUnmap: as many pages are unmapped as frames were had.
AllocUnmap(t) ==
  LET a == mem[t] IN
  /\ At(t, "unwind") /\ a.totalFrames > 0
  /\ Unmap(a.pos, 1)
  /\ Goto(t, "unwind", [a EXCEPT !.totalFrames = @ - 1, !.pos = @ + 1])
  /\ UNCHANGED <<pages, allocCache, allocTable, live>>

AllocFails(t) ==
  /\ At(t, "unwind") /\ mem[t].totalFrames = 0
  /\ pages' = pages \cup Run(mem[t].base, mem[t].n)
  /\ Return(t)
  /\ UNCHANGED <<frames, pte, allocCache, allocTable, live>>
-----------------------------------------------------------------------------
(* memFree(), of what a client has and no thread touches.                  *)

Untouched(a) == \A t \in Threads : At(t, "fault") => mem[t].base \notin Run(a[1], a[2])

\* What lookup() may find: if a page has two entries, which comes first depends
\* on how the table's blocks are filled.
Entries(p) == {k \in DOMAIN allocTable : allocTable[k][1] = p}

\* A single page is pushed on the cache, and then made not present.
FreeCached(t, a) ==
  /\ At(t, "idle") /\ a \in live /\ Untouched(a) /\ Len(allocCache) < CacheSize
  /\ \E k \in Entries(a[1]) : allocTable[k][2] = 1
  /\ allocCache' = <<a[1]>> \o allocCache
  /\ live' = live \ {a}
  /\ Goto(t, "clear", [base |-> a[1], n |-> 1])
  /\ UNCHANGED <<pages, frames, pte, allocTable>>

FreeClear(t) ==
  /\ At(t, "clear")
  /\ SetPresent(mem[t].base, "NOT_PRESENT")
  /\ Return(t)
  /\ UNCHANGED <<pages, frames, allocCache, allocTable, live>>

FreeCall(t, a) ==
  /\ At(t, "idle") /\ a \in live /\ Untouched(a)
  /\ \E k \in Entries(a[1]) :
       LET n == allocTable[k][2] IN
       /\ n # 1 \/ Len(allocCache) = CacheSize
       /\ Goto(t, "free", [base |-> a[1], n |-> n, pos |-> a[1]])
  /\ live' = live \ {a}
  /\ UNCHANGED <<pages, frames, pte, allocCache, allocTable>>

\* Page by page; for each that was present, as many frames are released as there
\* are pages.
FreeUnmap(t) ==
  LET a == mem[t] IN
  /\ At(t, "free") /\ a.pos < a.base + a.n
  /\ Unmap(a.pos, a.n)
  /\ Goto(t, "free", [a EXCEPT !.pos = @ + 1])
  /\ UNCHANGED <<pages, allocCache, allocTable, live>>

FreePages(t) ==
  LET a == mem[t] IN
  /\ At(t, "free") /\ a.pos = a.base + a.n
  /\ pages' = pages \cup Run(a.base, a.n)
  /\ Goto(t, "remove", a)
  /\ UNCHANGED <<frames, pte, allocCache, allocTable, live>>

FreeEntry(t) ==
  /\ At(t, "remove")
  /\ \E k \in Entries(mem[t].base) : allocTable' = RemoveAt(allocTable, k)
  /\ Return(t)
  /\ UNCHANGED <<pages, frames, pte, allocCache, live>>
-----------------------------------------------------------------------------
(* x8632_page_fault(), of a thread that touches page p of an allocation.   *)

Fault(t, p) ==
  /\ At(t, "idle") /\ pte[p] = Fakemapped
  /\ \E a \in live : p \in Run(a[1], a[2])
  /\ Goto(t, "fault", [base |-> p, n |-> 1])
  /\ UNCHANGED <<pages, frames, pte, allocCache, allocTable, live>>

FaultMap(t, f) ==
  /\ At(t, "fault") /\ f \in frames
  /\ frames' = frames \ {f}
  /\ RemapInc(mem[t].base, f)
  /\ Return(t)
  /\ UNCHANGED <<pages, allocCache, allocTable, live>>

\* There is no frame: panic().
FaultPanic(t) ==
  /\ At(t, "fault")
  /\ Goto(t, "panic", NULL)
  /\ UNCHANGED <<pages, frames, pte, allocCache, allocTable, live>>

Halted(t) == At(t, "panic") /\ UNCHANGED vars
-----------------------------------------------------------------------------
Flags == {"NONE", "NO_FAKEMAP", "PURE_VIRTUAL"}

Next ==
  \E t \in Threads :
    \/ AllocCached(t) \/ AllocPresent(t)
    \/ \E p \in pages, n \in Sizes, flag \in Flags : AllocCall(t, p, n, flag)
    \/ \E f \in frames, k \in 1 .. Max(Sizes) : \E m \in 0 .. k : AllocCommit(t, f, k, m)
    \/ AllocNoFrames(t) \/ \E m \in 0 .. Max(Sizes) : AllocFakemap(t, m)
    \/ AllocEntry(t) \/ AllocNoEntry(t) \/ AllocUnmap(t) \/ AllocFails(t)
    \/ \E a \in live : a[2] \in Freed /\ (FreeCached(t, a) \/ FreeCall(t, a))
    \/ FreeClear(t) \/ FreeUnmap(t) \/ FreePages(t) \/ FreeEntry(t)
    \/ \E p \in Pages : Fault(t, p)
    \/ \E f \in frames : FaultMap(t, f)
    \/ FaultPanic(t) \/ Halted(t)

Spec == Init /\ [][Next]_vars
-----------------------------------------------------------------------------
TypeOK ==
  /\ pages \subseteq Pages /\ frames \subseteq Frames
  /\ \A p \in Pages :
       \/ pte[p] \in {Unmapped, Fakemapped}
       \/ pte[p].status \in {"BACKED", "NOT_PRESENT"} /\ pte[p].frame \in Frames
  /\ ToSet(allocCache) \subseteq Pages /\ Len(allocCache) <= CacheSize
  /\ \A a \in live : Run(a[1], a[2]) \subseteq Pages

\* A frame that backs a page, present or in the cache, is not free and backs no
\* other page, and the page is not free: however calls fail and are undone,
\* frees cross with allocations, or threads fault on the same page.
FramesExclusive ==
  \A p \in Pages :
    pte[p].frame # NULL =>
      /\ pte[p].frame \notin frames /\ p \notin pages
      /\ \A q \in Pages \ {p} : pte[q].frame # pte[p].frame

\* A frame that backs a page which a client has is not free: memFree() gives
\* back the frames of the pages it unmaps, and no others.
ClientsFramesKept ==
  \A a \in live : \A p \in Run(a[1], a[2]) : pte[p].frame \notin frames

\* memFree() finds every allocation, of a client or in the cache, in the table,
\* although it removes an entry only after the pages can be had again.
TableCovers ==
  \A p \in {a[1] : a \in live} \cup ToSet(allocCache) : Entries(p) # {}
=============================================================================
