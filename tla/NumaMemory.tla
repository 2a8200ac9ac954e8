----------------------------- MODULE NumaMemory -----------------------------
(***************************************************************************)
(* The banks of physical memory, NumaMemoryBank and the part of MemoryTrib *)
(* that keeps them.  pmemInit() builds the banks from what the chipset     *)
(* knows of its memory, while the kernel lives on the frames of __kspace;  *)
(* then threads take frames from the banks and give them back.             *)
(*                                                                         *)
(* Addresses are page numbers.  A range answers with a free frame or, as   *)
(* NumaMemoryRange shows it may, with none although it has some.  After    *)
(* pmemInit() nobody writes to the list of a bank's ranges, so only the    *)
(* lock of its default range can keep a thread waiting.                    *)
(***************************************************************************)
EXTENDS Integers, Sequences, FiniteSets, SequencesExt, FiniteSetsExt

CONSTANTS
  Chipsets,   \* [map, memSize, unusable, regions, kspace, kused]
  Threads,    \* "orient" is the thread that runs pmemInit()
  MaxOps      \* calls of the threads, after pmemInit()

SHBANK == 31
KSPACE == 32
BankIds == {0, 1, SHBANK, KSPACE}

VARIABLES
  chip, map, stage, pos,   \* of pmemInit()
  kspaceBool, failed,      \* an object was allocated; one was not
  ranges, used,            \* [bank, base, end] and the bits that are set
  defRange,                \* of each bank of memoryBanks; 0 is NULL
  readers, writing,        \* defRange.lock
  defaultBank,             \* of a thread
  out, held, early,        \* frames' owners; kernel's own; not from __kspace
  regionOut,               \* given out by the chipset's regions
  pc, ops

numaVars == <<chip, map, stage, pos, kspaceBool, failed, ranges, used, defRange,
              readers, writing, defaultBank, out, held, early, regionOut, pc, ops>>
bootVars == <<chip, map, stage, pos, kspaceBool, failed, ranges, held, early>>

Run(e) == e.base .. e.base + e.n - 1
Reserved == UNION {Run(e) : e \in chip.unusable \cup chip.regions}
AllFrames == 0 .. 15
Banks == DOMAIN defRange

Idle == [at |-> "idle", bank |-> 0, frame |-> -1, range |-> 0, loop |-> FALSE]

Init ==
  /\ chip \in Chipsets
  /\ map = chip.map
  /\ stage = "sort" /\ pos = 1 /\ kspaceBool = FALSE /\ failed = FALSE
  /\ ranges = <<[bank |-> KSPACE, base |-> chip.kspace.base,
                 end |-> chip.kspace.base + chip.kspace.n - 1]>>
  /\ used = <<chip.kused>>
  /\ defRange = [b \in {KSPACE} |-> 1]
  /\ readers = [b \in BankIds |-> 0] /\ writing = [b \in BankIds |-> FALSE]
  /\ defaultBank = [t \in Threads |-> KSPACE]
  /\ out = [f \in AllFrames |-> IF f \in chip.kused THEN 1 ELSE 0]
  /\ held = chip.kused /\ early = {} /\ regionOut = {}
  /\ pc = [t \in Threads |-> Idle] /\ ops = 0
-----------------------------------------------------------------------------
(* What a bank and the tributary find.                                     *)

Of(i) == ranges[i].base .. ranges[i].end
Free(i) == Of(i) \ used[i]

\* The list of a bank's ranges: a new one is put in front.
List(b) == SetToSortSeq({i \in DOMAIN ranges : ranges[i].bank = b}, >)

First(s, P(_)) == IF \E j \in DOMAIN s : P(s[j]) THEN s[Min({j \in DOMAIN s : P(s[j])})] ELSE 0

HasFree(i) == Free(i) # {}
BankPick(b) ==
  IF defRange[b] # 0 /\ HasFree(defRange[b]) THEN defRange[b] ELSE First(List(b), HasFree)

\* memoryBanks is in the order of the identifiers.
BankOrder == SetToSortSeq(Banks, <)
\* The index of the range the tributary takes a frame from, with nobody else
\* about, or 0.
TribPick ==
  LET d == defaultBank["orient"]
      b == CHOOSE b \in Banks : BankPick(b) # 0 /\ \A c \in Banks : BankPick(c) # 0 => b <= c
  IN  IF d \in Banks /\ BankPick(d) # 0 THEN BankPick(d)
      ELSE IF \E c \in Banks : BankPick(c) # 0 THEN BankPick(b) ELSE 0

\* The kernel takes a frame for an object of the memory manager's own, the
\* ranges rs, with bits us, and the default ranges dr are added; or there is
\* no frame.
Provide(rs, us, dr) ==
  LET i == TribPick
      f == Min(Free(i))
  IN  /\ ranges' = ranges \o rs
      /\ used' = [used EXCEPT ![i] = @ \cup {f}] \o us
      /\ defRange' = [b \in Banks \cup DOMAIN dr |->
                        IF b \in Banks /\ b = ranges[i].bank THEN i
                        ELSE IF b \in DOMAIN dr THEN dr[b] ELSE defRange[b]]
      /\ defaultBank' = [defaultBank EXCEPT !["orient"] = ranges[i].bank]
      /\ out' = [out EXCEPT ![f] = @ + 1]
      /\ held' = held \cup {f}
      /\ early' = IF i = 1 THEN early ELSE early \cup {f}
NotProvided ==
  /\ TribPick = 0 /\ failed' = TRUE
  /\ UNCHANGED <<ranges, used, defRange, defaultBank, out, held, early>>
Kept == UNCHANGED <<failed, ranges, used, defRange, defaultBank, out, held, early>>

Goto(s, p) == stage' = s /\ pos' = p
Booting == UNCHANGED <<chip, readers, writing, regionOut, pc, ops>>
-----------------------------------------------------------------------------
(* pmemInit().                                                             *)

\* sortNumaMapByAddress(), an iteration of its loop.
Sort ==
  /\ stage = "sort" /\ map # <<>> /\ pos < Len(map)
  /\ IF map[pos].base > map[pos + 1].base
     THEN /\ map' = [map EXCEPT ![pos] = map[pos + 1], ![pos + 1] = map[pos]]
          /\ pos' = IF pos # 1 THEN pos - 1 ELSE pos
     ELSE map' = map /\ pos' = pos + 1
  /\ Booting /\ Kept /\ UNCHANGED <<stage, kspaceBool>>

Sorted ==
  /\ stage = "sort"
  /\ \/ map = <<>> /\ Goto("shbank", 1)
     \/ map # <<>> /\ pos = Len(map) /\ Goto("banks", 1)
  /\ Booting /\ Kept /\ UNCHANGED <<map, kspaceBool>>

\* createBank(), and addMemoryRange(), whose range is the default if the bank
\* has none.
createBank(b) ==
  \/ TribPick # 0 /\ Provide(<<>>, <<>>, [c \in {b} |-> 0]) /\ failed' = failed
  \/ NotProvided
addMemoryRange(b, base, n) ==
  \/ /\ TribPick # 0 /\ failed' = failed /\ kspaceBool' = TRUE
     /\ Provide(<<[bank |-> b, base |-> base, end |-> base + n - 1]>>, <<{}>>,
                IF defRange[b] = 0 THEN [c \in {b} |-> Len(ranges) + 1] ELSE [c \in {} |-> 0])
  \/ NotProvided /\ kspaceBool' = kspaceBool

\* init2_spawnNumaStreams(), for one entry of the map.
SpawnBank ==
  /\ stage = "banks"
  /\ IF pos > Len(map) THEN Goto("ranges", 1) ELSE Goto("banks", pos + 1)
  /\ IF pos > Len(map) \/ map[Min({pos, Len(map)})].bank \in Banks
     THEN Kept
     ELSE createBank(map[pos].bank)
  /\ Booting /\ UNCHANGED <<map, kspaceBool>>

\* init2_generateNumaMemoryRanges(), for one entry of the map.
AddRange ==
  /\ stage = "ranges"
  /\ IF pos > Len(map) THEN Goto("shbank", 1) ELSE Goto("ranges", pos + 1)
  /\ IF pos > Len(map) \/ map[Min({pos, Len(map)})].bank \notin Banks
     THEN Kept /\ kspaceBool' = kspaceBool
     ELSE addMemoryRange(map[pos].bank, map[pos].base, map[pos].n)
  /\ Booting /\ UNCHANGED map

\* The shared bank: it is made for the holes of the map, or for all memory.
MakeShbank ==
  /\ stage = "shbank"
  /\ IF chip.memSize = 0
     THEN Goto("memmap", 1) /\ Kept
     ELSE /\ createBank(SHBANK)
          /\ IF TribPick = 0 THEN Goto("memmap", 1)
             ELSE Goto(IF Len(map) > 1 THEN "holes" ELSE "whole", 1)
  /\ Booting /\ UNCHANGED <<map, kspaceBool>>
WholeMemory ==
  /\ stage = "whole"
  /\ addMemoryRange(SHBANK, 0, chip.memSize)
  /\ Goto("memmap", 1) /\ Booting /\ UNCHANGED map

\* init2_generateShbankFromNumaMap(): the hole after an entry, up to the next
\* one or to the end of memory.  The size is unsigned: of a hole that begins
\* after the end of memory it is so large that no bitmap can be had for it.
HoleBase == map[pos].base + map[pos].n
HoleSize ==
  IF map[pos + 1].base > chip.memSize THEN chip.memSize - HoleBase ELSE map[pos + 1].base - HoleBase
MakeHole ==
  /\ stage = "holes"
  /\ IF \/ pos >= Len(map)
        \/ map[pos].base > chip.memSize
        \/ map[pos].base = map[Min({pos + 1, Len(map)})].base
        \/ HoleBase > map[pos + 1].base
     THEN /\ Goto("memmap", 1)
          /\ Kept /\ kspaceBool' = kspaceBool
     ELSE /\ Goto("holes", pos + 1)
          /\ IF HoleSize > 0 THEN addMemoryRange(SHBANK, HoleBase, HoleSize)
             ELSE Kept /\ kspaceBool' = kspaceBool
  /\ Booting /\ UNCHANGED map

\* mapMemUsed() of a bank goes to each of its ranges, which looks whether the
\* first or the last frame is one of its own.
Identified(i, e) == e.base \in Of(i) \/ e.base + e.n - 1 \in Of(i)
MapUsed(es) ==
  used' = [i \in DOMAIN used |->
             used[i] \cup (Of(i) \cap UNION {Run(e) : e \in {x \in es : Identified(i, x)}})]
MapMemory ==
  /\ stage = "memmap" /\ MapUsed(chip.unusable) /\ Goto("merge", 1) /\ Booting
  /\ UNCHANGED <<map, kspaceBool, failed, ranges, defRange, defaultBank, out, held, early>>
MapRegions ==
  /\ stage = "regions" /\ MapUsed(chip.regions) /\ Goto("end", 1) /\ Booting
  /\ UNCHANGED <<map, kspaceBool, failed, ranges, defRange, defaultBank, out, held, early>>

\* merge() with __kspace: the loop leaves out the last frame the two share.
Shared(i) == Of(i) \cap Of(1)
Merged_None(i) == {}
Merged(i) == {f \in Shared(i) \cap used[1] : f # Max(Shared(i))}
Merge ==
  /\ stage = "merge"
  /\ used' = [i \in DOMAIN used |-> IF i = 1 THEN used[1] ELSE used[i] \cup Merged(i)]
  /\ Goto("regions", 1) /\ Booting
  /\ UNCHANGED <<map, kspaceBool, failed, ranges, defRange, defaultBank, out, held, early>>

\* Without any memory the kernel panics; else __kspace is destroyed and the
\* shared bank is the default one of the calling thread.
DestroyKspace ==
  /\ stage = "end"
  /\ IF kspaceBool
     THEN /\ Goto("run", 1)
          /\ defRange' = [b \in Banks \ {KSPACE} |-> defRange[b]]
          /\ defaultBank' = [defaultBank EXCEPT !["orient"] = SHBANK]
     ELSE Goto("panic", 1) /\ UNCHANGED <<defRange, defaultBank>>
  /\ Booting /\ UNCHANGED <<map, kspaceBool, failed, ranges, used, out, held, early>>
-----------------------------------------------------------------------------
(* MemoryTrib::fragmentedGetFrames() and NumaMemoryBank's.  The tributary  *)
(* asks the thread's default bank, then every bank in turn.                *)

At(t, a) == stage = "run" /\ pc[t].at = a
Set(t, r) == pc' = [pc EXCEPT ![t] = r]
Step(t, a) == Set(t, [pc[t] EXCEPT !.at = a])

Call(t) ==
  /\ At(t, "idle") /\ ops < MaxOps /\ ops' = ops + 1
  /\ IF defaultBank[t] \in Banks
     THEN Set(t, [Idle EXCEPT !.at = "read", !.bank = defaultBank[t]])
     ELSE Set(t, [Idle EXCEPT !.at = "read", !.bank = Head(BankOrder), !.loop = TRUE])
  /\ UNCHANGED <<bootVars, used, defRange, readers, writing, defaultBank, out, regionOut>>

\* defRange.lock.readAcquire() counts the reader, then waits for the writer.
ReadAcquire(t) ==
  /\ At(t, "read") /\ Step(t, "wait")
  /\ readers' = [readers EXCEPT ![pc[t].bank] = @ + 1]
  /\ UNCHANGED <<bootVars, used, defRange, writing, defaultBank, out, regionOut, ops>>
ReadAcquired(t) ==
  /\ At(t, "wait") /\ ~writing[pc[t].bank] /\ Step(t, "default")
  /\ UNCHANGED <<bootVars, used, defRange, readers, writing, defaultBank, out, regionOut, ops>>

ReadRelease(b) == readers' = [readers EXCEPT ![b] = @ - 1]
Give(i, f) == used' = [used EXCEPT ![i] = @ \cup {f}] /\ out' = [out EXCEPT ![f] = @ + 1]

\* The tributary returns; it has found another default bank if it searched.
Return(t) ==
  /\ defaultBank' = IF pc[t].loop THEN [defaultBank EXCEPT ![t] = pc[t].bank] ELSE defaultBank
  /\ Set(t, Idle)

FromDefault(t) ==
  LET b == pc[t].bank IN
  /\ At(t, "default") /\ defRange[b] # 0
  /\ \E f \in Free(defRange[b]) : Give(defRange[b], f)
  /\ ReadRelease(b) /\ Return(t)
  /\ UNCHANGED <<bootVars, defRange, writing, regionOut, ops>>

\* The default range is not asked again.
FromOther(t) ==
  LET b == pc[t].bank IN
  /\ At(t, "default") /\ defRange[b] # 0
  /\ \E i \in {j \in DOMAIN ranges : ranges[j].bank = b /\ j # defRange[b]} : \E f \in Free(i) :
       Give(i, f) /\ Set(t, [pc[t] EXCEPT !.at = "upgrade", !.range = i, !.frame = f])
  /\ UNCHANGED <<bootVars, defRange, readers, writing, defaultBank, regionOut, ops>>

\* readReleaseWriteAcquire(): take the write bit, leave the count, wait for the
\* other readers, then store the new default range.
Upgrade(t) ==
  LET b == pc[t].bank IN
  /\ At(t, "upgrade") /\ ~writing[b] /\ writing' = [writing EXCEPT ![b] = TRUE]
  /\ ReadRelease(b) /\ Step(t, "drain")
  /\ UNCHANGED <<bootVars, used, defRange, defaultBank, out, regionOut, ops>>
StoreDefault(t) ==
  LET b == pc[t].bank IN
  /\ At(t, "drain") /\ readers[b] = 0
  /\ defRange' = [defRange EXCEPT ![b] = pc[t].range]
  /\ writing' = [writing EXCEPT ![b] = FALSE] /\ Return(t)
  /\ UNCHANGED <<bootVars, used, readers, out, regionOut, ops>>

\* No range of the bank has a frame: the tributary goes on to the next bank.
After(t) == IF pc[t].loop THEN {b \in Banks : b > pc[t].bank} ELSE Banks
NoneInBank(t) ==
  /\ At(t, "default") /\ ReadRelease(pc[t].bank)
  /\ IF After(t) = {} THEN Set(t, Idle)
     ELSE Set(t, [Idle EXCEPT !.at = "read", !.bank = Min(After(t)), !.loop = TRUE])
  /\ UNCHANGED <<bootVars, used, defRange, writing, defaultBank, out, regionOut, ops>>

\* constrainedGetFrames(): the chipset's regions first, then the banks.
RegionFrames == UNION {Run(e) : e \in chip.regions}
Constrained(t) ==
  /\ At(t, "idle") /\ ops < MaxOps /\ ops' = ops + 1
  /\ \/ \E f \in RegionFrames \ (regionOut \cup UNION {Run(e) : e \in chip.unusable}) :
          /\ regionOut' = regionOut \cup {f} /\ out' = [out EXCEPT ![f] = @ + 1]
          /\ UNCHANGED used
     \/ \E i \in DOMAIN ranges : ranges[i].bank \in Banks /\ \E f \in Free(i) :
          Give(i, f) /\ UNCHANGED regionOut
  /\ UNCHANGED <<bootVars, defRange, readers, writing, defaultBank, pc>>

\* releaseFrames(): the first range that has the address, in the order of the
\* banks.  Nobody looks into the regions.
Identifies(b, f) == \E i \in DOMAIN ranges : ranges[i].bank = b /\ f \in Of(i)
Releases(f) ==
  LET b == Min({c \in Banks : Identifies(c, f)})
  IN  Max({i \in DOMAIN ranges : ranges[i].bank = b /\ f \in Of(i)})
Release(t, f) ==
  /\ At(t, "idle") /\ ops < MaxOps /\ ops' = ops + 1
  /\ out[f] > 0 /\ f \notin held /\ out' = [out EXCEPT ![f] = @ - 1]
  /\ IF \E b \in Banks : Identifies(b, f) THEN used' = [used EXCEPT ![Releases(f)] = @ \ {f}]
     ELSE UNCHANGED used
  /\ UNCHANGED <<bootVars, defRange, readers, writing, defaultBank, regionOut, pc>>

PmemInit ==
  \/ Sort \/ Sorted \/ SpawnBank \/ AddRange \/ MakeShbank \/ WholeMemory
  \/ MakeHole \/ MapMemory \/ Merge \/ MapRegions \/ DestroyKspace
Running(t) ==
  \/ Call(t) \/ ReadAcquire(t) \/ ReadAcquired(t) \/ FromDefault(t) \/ FromOther(t)
  \/ Upgrade(t) \/ StoreDefault(t) \/ NoneInBank(t) \/ Constrained(t)
  \/ \E f \in AllFrames : Release(t, f)
Next == PmemInit \/ \E t \in Threads : Running(t)
-----------------------------------------------------------------------------
(* The map is sane if its entries do not overlap.  With one entry alone    *)
(* the shared bank gets that memory too.                                   *)
Sane == \A i, j \in DOMAIN map : i # j => Run(map[i]) \cap Run(map[j]) = {}
Alone == Len(map) = 1 /\ chip.memSize > 0
NumaFrames == UNION {Run(map[i]) : i \in DOMAIN map}
\* The memory of the map and of its holes.  The memory before the first entry
\* and after the last one belongs to nobody.
Known ==
  IF map = <<>> THEN 0 .. chip.memSize - 1
  ELSE NumaFrames \cup {f \in 0 .. chip.memSize - 1 :
                          (\E g \in NumaFrames : g < f) /\ (\E g \in NumaFrames : g > f)
                          /\ Len(map) > 1}
Live == {i \in DOMAIN ranges : ranges[i].bank \in Banks}
\* A range inside a reserved area is not told, and merge() leaves out a frame.
Untold(i) ==
  UNION {Run(e) : e \in {x \in chip.unusable \cup chip.regions : ~Identified(i, x)}}
    \cup (IF Shared(i) = {} THEN {} ELSE {Max(Shared(i))})

\* pmemInit(), MemoryTrib and NumaMemoryBank: once __kspace is gone every frame
\* of the NUMA map and of its holes is in one range, unless an object could
\* not be allocated, and no frame is in two; what is reserved or in the
\* kernel's hands is not free, but for what mapMemUsed() and merge() do not
\* see.  From then on a frame has one owner, whichever of the calls gave it;
\* what the kernel took from a new bank, __kspace being used up, may have two.
\* The default range is one of its bank, the lock's count is that of the
\* threads inside, and a thread waits there only while another one replaces
\* the default range of the same bank.
BanksSound ==
  stage = "run" =>
    /\ Sane /\ ~Alone =>
         /\ ~failed => \A f \in Known : \E i \in Live : f \in Of(i)
         /\ \A i, j \in Live : i # j => Of(i) \cap Of(j) = {}
         /\ \A f \in AllFrames : out[f] > 1 => f \in early \/ \E i \in Live : f \in Of(i) \cap Untold(i)
    /\ ops = 0 => \A i \in Live : Free(i) \cap (Reserved \cup held) \subseteq Untold(i)
    /\ \A b \in Banks :
         LET inside == {t \in Threads : pc[t].bank = b /\ pc[t].at \in {"wait", "default", "upgrade"}}
             writers == {t \in Threads : pc[t].bank = b /\ pc[t].at = "drain"}
         IN  /\ IF defRange[b] = 0 THEN \A i \in DOMAIN ranges : ranges[i].bank # b
                ELSE ranges[defRange[b]].bank = b
             /\ readers[b] = Cardinality(inside)
             /\ Cardinality(writers) = IF writing[b] THEN 1 ELSE 0
=============================================================================
