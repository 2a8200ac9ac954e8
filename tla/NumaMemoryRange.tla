--------------------------- MODULE NumaMemoryRange --------------------------
(***************************************************************************)
(* NumaMemoryRange and its MemoryBmp: the frames of a range of physical    *)
(* memory.  The bitmap says which are used.  In front of it is the         *)
(* frameCache, a stack of single frames, which the bitmap has as used.     *)
(* The two have a lock each, and a thread visits the one after the other.  *)
(*                                                                         *)
(* Frames are numbers (PFNs).  mapMemUsed() and mapMemUnused() run while   *)
(* the kernel boots, on one CPU, for memory that the firmware and the      *)
(* chipset claim, and which nobody has.                                    *)
(***************************************************************************)
EXTENDS Integers, Sequences, FiniteSetsExt

CONSTANTS
  Threads,
  BasePfn, EndPfn,    \* the first and the last frame
  WordBits,           \* bits in a word of the bitmap
  PageSize,           \* what makes an address of a PFN
  CacheSize,          \* of the frame cache
  MaxFrames,          \* bound on the frames of a request
  NULL

VARIABLES
  bmp,               \* the frames whose bit is set
  lastAllocIndex,    \* the word that the search begins with
  frameCache,        \* a stack
  used,              \* the frames that clients have
  reserved,          \* history: those that are mapped used for good
  pc, arg            \* of each thread: where it is; <<frame, number>>

vars == <<bmp, lastAllocIndex, frameCache, used, reserved, pc, arg>>

Frames == BasePfn .. EndPfn
Word(f) == (f - BasePfn) \div WordBits

\* initialize(): a frame that the range has only a part of is used.
Init ==
  /\ bmp \in {{}, {BasePfn}, {EndPfn}, {BasePfn, EndPfn}}
  /\ reserved = bmp
  /\ lastAllocIndex = 0 /\ frameCache = <<>> /\ used = {}
  /\ pc = [t \in Threads |-> "idle"] /\ arg = [t \in Threads |-> NULL]

Goto(t, l, a) == pc' = [pc EXCEPT ![t] = l] /\ arg' = [arg EXCEPT ![t] = a]
Return(t) == Goto(t, "idle", NULL)
-----------------------------------------------------------------------------
(* fragmentedGetFrames()                                                   *)

\* One frame of the cache, however many were asked for.
GetCached(t) ==
  /\ pc[t] = "idle" /\ frameCache # <<>>
  /\ frameCache' = Tail(frameCache)
  /\ used' = used \cup {Head(frameCache)}
  /\ UNCHANGED <<bmp, lastAllocIndex, reserved, pc, arg>>

GetCall(t, n) ==
  /\ pc[t] = "idle" /\ frameCache = <<>>
  /\ Goto(t, "get", <<BasePfn, n>>)
  /\ UNCHANGED <<bmp, lastAllocIndex, frameCache, used, reserved>>

\* The free frames that the search looks at.
Candidates == {f \in Frames \ bmp : Word(f) >= lastAllocIndex}

\* From the first of them, the end of a run of n, or of fewer if a used frame
\* ends it.  A shorter run that the range ends is not found.
Start == Min(Candidates)
Stop(n) == Min({f \in Start .. EndPfn + 1 : f = Start + n \/ f \in bmp \/ f = EndPfn + 1})
Found(n) == Candidates # {} /\ (Stop(n) <= EndPfn \/ Stop(n) = Start + n)

Get(t) ==
  LET n == arg[t][2]
      run == Start .. Stop(n) - 1
  IN
  /\ pc[t] = "get" /\ Found(n)
  /\ bmp' = bmp \cup run
  /\ lastAllocIndex' = Word(Stop(n))
  /\ used' = used \cup run
  /\ Return(t)
  /\ UNCHANGED <<frameCache, reserved>>

GetFails(t) ==
  /\ pc[t] = "get" /\ ~ Found(arg[t][2])
  /\ Return(t)
  /\ UNCHANGED <<bmp, lastAllocIndex, frameCache, used, reserved>>
-----------------------------------------------------------------------------
(* releaseFrames(), of n frames from f that a client has.                  *)

Run(f, n) == f .. f + n - 1

ReleaseCached(t, f) ==
  /\ pc[t] = "idle" /\ f \in used /\ Len(frameCache) < CacheSize
  /\ frameCache' = <<f>> \o frameCache
  /\ used' = used \ {f}
  /\ UNCHANGED <<bmp, lastAllocIndex, reserved, pc, arg>>

ReleaseCall(t, f, n) ==
  /\ pc[t] = "idle" /\ Run(f, n) \subseteq used
  /\ n # 1 \/ Len(frameCache) = CacheSize
  /\ used' = used \ Run(f, n)
  /\ Goto(t, "release", <<f, n>>)
  /\ UNCHANGED <<bmp, lastAllocIndex, frameCache, reserved>>

\* The test that the frames are in the range: the address of f is compared with
\* a PFN, and the frame after the last with the last of the range.
InRange(f, n) == f * PageSize <= EndPfn \/ (n > 0 /\ f + n <= EndPfn)

\* Variant: the loop goes on to the frame after the last.
ReleaseOneMore(t) ==
  LET f == arg[t][1]
      n == arg[t][2]
  IN
  /\ pc[t] = "release"
  /\ IF InRange(f, n)
     THEN bmp' = bmp \ Run(f, n + 1) /\ lastAllocIndex' = Word(f)
     ELSE UNCHANGED <<bmp, lastAllocIndex>>
  /\ Return(t)
  /\ UNCHANGED <<frameCache, used, reserved>>

\* MemoryBmp::releaseFrames()
Release(t) ==
  LET f == arg[t][1]
      n == arg[t][2]
  IN
  /\ pc[t] = "release"
  /\ IF InRange(f, n)
     THEN bmp' = bmp \ Run(f, n) /\ lastAllocIndex' = Word(f)
     ELSE UNCHANGED <<bmp, lastAllocIndex>>
  /\ Return(t)
  /\ UNCHANGED <<frameCache, used, reserved>>
-----------------------------------------------------------------------------
(* mapMemUsed() and mapMemUnused(), of n frames from f, or so many of them *)
(* as are in the range, that nobody has.                                   *)

Booting == \A t \in Threads : pc[t] = "idle"

\* identifyPaddrRange()
Identified(f, n) == f \in Frames \/ f + n - 1 \in Frames

Mapped(f, n) ==
  (IF f >= BasePfn THEN f ELSE BasePfn) .. (IF f + n > EndPfn THEN EndPfn ELSE f + n - 1)

\* What flush() gives back to the bitmap: the frames of the cache.
Flushed == {f \in Range(frameCache) : InRange(f, 1)}

\* Variant: the cache is not flushed.
MapMemUsedUnflushed(f, n) ==
  /\ Booting /\ Identified(f, n) /\ Mapped(f, n) \cap used = {}
  /\ bmp' = bmp \cup Mapped(f, n)
  /\ reserved' = reserved \cup Mapped(f, n)
  /\ UNCHANGED <<lastAllocIndex, frameCache, used, pc, arg>>

MapMemUsed(f, n) ==
  /\ Booting /\ Identified(f, n) /\ Mapped(f, n) \cap used = {}
  /\ bmp' = (bmp \ Flushed) \cup Mapped(f, n)
  /\ lastAllocIndex' = IF Flushed = {} THEN lastAllocIndex
       ELSE Word(frameCache[Max({i \in DOMAIN frameCache : frameCache[i] \in Flushed})])
  /\ frameCache' = <<>>
  /\ reserved' = reserved \cup Mapped(f, n)
  /\ UNCHANGED <<used, pc, arg>>

MapMemUnused(f, n) ==
  /\ Booting /\ Identified(f, n) /\ Mapped(f, n) \cap (used \cup Range(frameCache)) = {}
  /\ bmp' = bmp \ Mapped(f, n)
  /\ reserved' = reserved \ Mapped(f, n)
  /\ UNCHANGED <<lastAllocIndex, frameCache, used, pc, arg>>
-----------------------------------------------------------------------------
Next ==
  \/ \E t \in Threads :
       \/ GetCached(t) \/ \E n \in 1 .. MaxFrames : GetCall(t, n)
       \/ Get(t) \/ GetFails(t) \/ Release(t)
       \/ \E f \in used : ReleaseCached(t, f) \/ \E n \in 1 .. MaxFrames : ReleaseCall(t, f, n)
  \/ \E f \in BasePfn - 1 .. EndPfn, n \in 1 .. MaxFrames : MapMemUsed(f, n) \/ MapMemUnused(f, n)

Spec == Init /\ [][Next]_vars
-----------------------------------------------------------------------------
TypeOK ==
  /\ bmp \subseteq Frames /\ used \subseteq Frames
  /\ lastAllocIndex \in 0 .. Word(EndPfn) + 1
  /\ Range(frameCache) \subseteq Frames /\ Len(frameCache) <= CacheSize
  /\ pc \in [Threads -> {"idle", "get", "release"}]

Free == (Frames \ bmp) \cup Range(frameCache)

\* What clients have, and what they are returning.
Used ==
  used \cup UNION {Run(arg[t][1], arg[t][2]) : t \in {u \in Threads : pc[u] = "release"}}

\* A frame that is mapped used, also one from the frame cache, is never given
\* out.  Any other frame is free or had, but for the last ones of the range:
\* releaseFrames() refuses what ends with the last frame, which is then lost.
FramesKept ==
  /\ reserved \cap (Free \cup Used) = {}
  /\ Frames \ (Free \cup Used \cup reserved) \subseteq EndPfn - MaxFrames + 1 .. EndPfn

Promise == INSTANCE Allocator WITH Units <- Frames, free <- Free, used <- Used

\* Frames are given to one client at a time.
ImplementsAllocator == Promise!Spec
=============================================================================
