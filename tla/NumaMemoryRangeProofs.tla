------------------------ MODULE NumaMemoryRangeProofs ------------------------
(***************************************************************************)
(* Machine-checked proofs about NumaMemoryRange, for a range of any size,  *)
(* any number of threads, any frame cache and any page size.               *)
(***************************************************************************)
EXTENDS NumaMemoryRange, WellFoundedInduction, TLAPS

\* The frames are numbered, and the range has one.
ConstantsOK == /\ BasePfn \in Nat /\ EndPfn \in Nat /\ BasePfn <= EndPfn
               /\ MaxFrames \in Nat

-----------------------------------------------------------------------------
(* The inductive invariant, one conjunct per idea *)

Cached == Range(frameCache)

\* What the thread t is on the way to give back to the bitmap.
Returning(t) == IF pc[t] = "release" THEN Run(arg[t][1], arg[t][2]) ELSE {}

Requests == {NULL} \cup (Frames \X (1 .. MaxFrames))

Shape ==
  /\ bmp \subseteq Frames /\ used \subseteq Frames /\ reserved \subseteq Frames
  /\ frameCache \in Seq(Frames)
  /\ pc \in [Threads -> {"idle", "get", "release"}]
  /\ arg \in [Threads -> Requests]
  /\ \A t \in Threads : pc[t] # "idle" => arg[t] \in Frames \X (1 .. MaxFrames)

\* The bitmap has everything that is not free, and the cached frames.
AllInBitmap ==
  /\ used \subseteq bmp /\ reserved \subseteq bmp /\ Cached \subseteq bmp
  /\ \A t \in Threads : Returning(t) \subseteq bmp

Distinct(q) == \A i, j \in 1 .. Len(q) : q[i] = q[j] => i = j

\* A frame is in one place: with a client, on its way back from one thread,
\* in one entry of the cache, or reserved.
OnePlace ==
  /\ used \cap reserved = {} /\ used \cap Cached = {} /\ Cached \cap reserved = {}
  /\ Distinct(frameCache)
  /\ \A t \in Threads : \A f \in Returning(t) :
       /\ f \notin used /\ f \notin reserved /\ f \notin Cached
       /\ \A u \in Threads : f \in Returning(u) => u = t

\* Nothing is lost below the last frames.
Lost == (EndPfn - MaxFrames + 1) .. EndPfn
NoneLost ==
  \A f \in bmp : \/ f \in used \/ f \in reserved \/ f \in Cached \/ f \in Lost
                 \/ \E t \in Threads : f \in Returning(t)

IInv == Shape /\ AllInBitmap /\ OnePlace /\ NoneLost

-----------------------------------------------------------------------------
(* Numbers and sequences *)

\* A set of naturals has a least element.
LEMMA LeastNat ==
  ASSUME NEW T, T \subseteq Nat, T # {}
  PROVE  \E x \in T : \A y \in T : x <= y
<1>1. PICK x \in T : \A y \in T : ~ (<<y, x>> \in OpToRel(<, Nat))
    BY NatLessThanWellFounded, WFMin
<1>2. ASSUME NEW y \in T PROVE x <= y
  <2>1. <<y, x>> \in Nat \X Nat /\ x \in Nat /\ y \in Nat
      OBVIOUS
  <2>2. ~(y < x)
      BY <1>1, <2>1 DEF OpToRel
  <2> QED BY <2>1, <2>2
<1> QED BY <1>2

\* Min yields it.
LEMMA MinFacts ==
  ASSUME NEW T, T \subseteq Nat, T # {}
  PROVE  Min(T) \in T /\ \A y \in T : Min(T) <= y
BY LeastNat DEF Min

\* What the elements of a sequence are.
LEMMA ElementFacts ==
  ASSUME NEW S, NEW q \in Seq(S)
  PROVE  /\ \A f \in Range(q) : \E i \in 1 .. Len(q) : f = q[i]
         /\ \A i \in 1 .. Len(q) : q[i] \in Range(q)
         /\ Range(q) \subseteq S
         /\ Len(q) \in Nat
BY DEF Range

\* A stack without its top.
LEMMA PopFacts ==
  ASSUME NEW S, NEW q \in Seq(S), q # <<>>, Distinct(q)
  PROVE  /\ Tail(q) \in Seq(S) /\ Distinct(Tail(q))
         /\ Head(q) \in Range(q) /\ Range(Tail(q)) = Range(q) \ {Head(q)}
<1>1. /\ Tail(q) \in Seq(S) /\ Head(q) = q[1] /\ 1 \in 1 .. Len(q)
      /\ Len(Tail(q)) = Len(q) - 1 /\ Len(q) \in Nat
      /\ \A i \in 1 .. Len(q) - 1 : Tail(q)[i] = q[i + 1]
    OBVIOUS
<1>2. Distinct(Tail(q))
    BY <1>1 DEF Distinct
<1>3. Head(q) \in Range(q)
  <2>1. q[1] \in Range(q)
      BY <1>1, ElementFacts
  <2> QED BY <1>1, <2>1
<1>4. ASSUME NEW x \in Range(Tail(q)) PROVE x \in Range(q) \ {Head(q)}
  <2>1. PICK i \in 1 .. Len(Tail(q)) : x = Tail(q)[i]
      BY <1>1, ElementFacts
  <2>2. i + 1 \in 1 .. Len(q) /\ i + 1 # 1 /\ x = q[i + 1]
      BY <1>1, <2>1
  <2>3. x \in Range(q)
      BY <2>1, <2>2, ElementFacts
  <2> QED BY <1>1, <2>2, <2>3 DEF Distinct
<1>5. ASSUME NEW x \in Range(q) \ {Head(q)} PROVE x \in Range(Tail(q))
  <2>1. PICK i \in 1 .. Len(q) : x = q[i]
      BY ElementFacts
  <2>2. i - 1 \in 1 .. Len(q) - 1 /\ Tail(q)[i - 1] = x
      BY <1>1, <1>5, <2>1
  <2> QED BY <1>1, <2>2, ElementFacts
<1> QED BY <1>1, <1>2, <1>3, <1>4, <1>5

\* A stack with one more on top.
LEMMA PushFacts ==
  ASSUME NEW S, NEW q \in Seq(S), NEW f \in S, Distinct(q), f \notin Range(q)
  PROVE  /\ <<f>> \o q \in Seq(S) /\ Distinct(<<f>> \o q)
         /\ Range(<<f>> \o q) = Range(q) \cup {f}
<1> DEFINE r == <<f>> \o q
<1>1. /\ r \in Seq(S) /\ r[1] = f
      /\ Len(r) = Len(q) + 1 /\ Len(q) \in Nat
      /\ \A i \in 2 .. Len(q) + 1 : r[i] = q[i - 1]
    OBVIOUS
<1> HIDE DEF r
<1>2. ASSUME NEW i \in 2 .. Len(q) + 1 PROVE r[i] \in Range(q)
  <2>1. i - 1 \in 1 .. Len(q) /\ r[i] = q[i - 1]
      BY <1>1
  <2> QED BY <2>1, ElementFacts
<1>3. Distinct(r)
  <2>1. ASSUME NEW i \in 1 .. Len(r), NEW j \in 1 .. Len(r), r[i] = r[j] PROVE i = j
    <3>1. CASE i = 1 \/ j = 1
        BY <1>1, <1>2, <2>1, <3>1
    <3>2. CASE i # 1 /\ j # 1
      <4>1. i - 1 \in 1 .. Len(q) /\ j - 1 \in 1 .. Len(q) /\ q[i - 1] = q[j - 1]
          BY <1>1, <2>1, <3>2
      <4>2. i - 1 = j - 1
          BY <4>1 DEF Distinct
      <4> QED BY <1>1, <4>2
    <3> QED BY <3>1, <3>2
  <2> QED BY <2>1 DEF Distinct
<1>4. ASSUME NEW x \in Range(r) PROVE x \in Range(q) \cup {f}
  <2>1. PICK i \in 1 .. Len(r) : x = r[i]
      BY <1>1, ElementFacts
  <2> QED BY <1>1, <1>2, <2>1
<1>5. ASSUME NEW x \in Range(q) PROVE x \in Range(r)
  <2>1. PICK i \in 1 .. Len(q) : x = q[i]
      BY ElementFacts
  <2>2. i + 1 \in 1 .. Len(r) /\ r[i + 1] = x
      BY <1>1, <2>1
  <2> QED BY <1>1, <2>2, ElementFacts
<1>6. f \in Range(r)
    BY <1>1, ElementFacts
<1> QED BY <1>1, <1>3, <1>4, <1>5, <1>6 DEF r

\* The frames of a run: what fragmentedGetFrames() finds is free.
LEMMA RunIsFree ==
  ASSUME ConstantsOK, Shape, NEW n \in 1 .. MaxFrames, Found(n)
  PROVE  /\ Start \in Frames /\ Stop(n) \in Int /\ Start < Stop(n)
         /\ Start .. Stop(n) - 1 \subseteq Frames \ bmp
<1> USE DEF ConstantsOK, Frames
<1>1. Candidates \subseteq Nat /\ Candidates # {} /\ Candidates \subseteq Frames \ bmp
    BY DEF Candidates, Found
<1>2. Start \in Frames \ bmp /\ Start \in Nat
    BY <1>1, MinFacts DEF Start
<1> DEFINE T == {f \in Start .. EndPfn + 1 : f = Start + n \/ f \in bmp \/ f = EndPfn + 1}
<1>3. T \subseteq Nat /\ EndPfn + 1 \in T
    BY <1>2
<1>4. Stop(n) \in T /\ \A y \in T : Stop(n) <= y
  <2>1. Min(T) \in T /\ \A y \in T : Min(T) <= y
      BY <1>3, MinFacts
  <2> QED BY <2>1 DEF Stop
<1>5. Stop(n) \in Int /\ Stop(n) <= EndPfn + 1 /\ Start < Stop(n)
    BY <1>2, <1>4
<1>6. ASSUME NEW f \in Start .. Stop(n) - 1 PROVE f \in Frames \ bmp
  <2>1. f \notin T
      BY <1>4, <1>5
  <2> QED BY <1>2, <1>5, <2>1
<1> QED BY <1>2, <1>5, <1>6


-----------------------------------------------------------------------------
(* The steps: each keeps the invariant, and is a step of the allocator     *)

\* What clients have, by its frames.
LEMMA UsedFacts ==
  /\ \A f : f \in Used <=> f \in used \/ \E t \in Threads : f \in Returning(t)
  /\ \A f : f \in Used' <=> f \in used' \/ \E t \in Threads : f \in Returning(t)'
<1>1. \A f : f \in Used <=> f \in used \/ \E t \in Threads : f \in Returning(t)
    BY DEF Used, Returning
<1>2. \A f : f \in Used' <=> f \in used' \/ \E t \in Threads : f \in Returning(t)'
    BY DEF Used, Returning
<1> QED BY <1>1, <1>2

\* What InRange() refuses ends with the last frame of the range.
LEMMA RefusedIsLost ==
  ASSUME ConstantsOK, NEW f \in Frames, NEW n \in 1 .. MaxFrames, ~InRange(f, n), NEW x \in Run(f, n),
         x \in Frames
  PROVE  x \in Lost
<1>1. ~(f + n <= EndPfn)
    BY DEF InRange, ConstantsOK
<1> QED BY <1>1 DEF ConstantsOK, Lost, Run, Frames

Implements == [Promise!Next]_<<Free, Used>>

\* fragmentedGetFrames() with a frame in the cache.
LEMMA GetCachedStep ==
  ASSUME ConstantsOK, IInv, NEW t \in Threads, GetCached(t)
  PROVE  IInv' /\ Implements
<1> USE DEF IInv, Shape
<1> DEFINE h == Head(frameCache)
<1>1. /\ h \in Cached /\ Cached' = Cached \ {h}
      /\ frameCache' \in Seq(Frames) /\ Distinct(frameCache)'
    BY PopFacts DEF GetCached, Cached, OnePlace, Distinct
<1> HIDE DEF h
<1>2. /\ used' = used \cup {h} /\ \A u \in Threads : Returning(u)' = Returning(u)
      /\ UNCHANGED <<bmp, reserved, pc, arg>>
    BY DEF GetCached, Returning, h
<1>3. h \in Frames /\ h \in bmp /\ h \notin used /\ h \notin reserved
      /\ \A u \in Threads : h \notin Returning(u)
    BY <1>1 DEF AllInBitmap, OnePlace
<1>4. Shape'
    BY <1>1, <1>2, <1>3
<1>5. AllInBitmap'
    BY <1>1, <1>2, <1>3 DEF AllInBitmap
<1>6. OnePlace'
    BY <1>1, <1>2, <1>3 DEF OnePlace
<1>7. NoneLost'
    BY <1>1, <1>2, <1>3 DEF NoneLost
<1>8. Implements
  <2>1. Used' = Used \cup {h} /\ h \notin Used
      BY <1>2, <1>3, UsedFacts
  <2>2. h \in Free /\ Free' = Free \ {h}
      BY <1>1, <1>2, <1>3 DEF Free, Cached
  <2>3. h \in Int /\ \A z \in h .. h : z = h
      BY <1>3 DEF Frames
  <2>4. Promise!Given = {h}
      BY <2>1 DEF Promise!Given
  <2>5. Promise!Get
      BY <2>1, <2>2, <2>3, <2>4 DEF Promise!Get, Promise!Contiguous
  <2> QED BY <2>5 DEF Implements, Promise!Next
<1> QED BY <1>4, <1>5, <1>6, <1>7, <1>8

\* fragmentedGetFrames() on its way to the bitmap, and back without a frame.
LEMMA GetCallStep ==
  ASSUME ConstantsOK, IInv, NEW t \in Threads,
         GetFails(t) \/ \E n \in 1 .. MaxFrames : GetCall(t, n)
  PROVE  IInv' /\ Implements
<1> USE DEF IInv
<1>1. UNCHANGED <<bmp, frameCache, used, reserved>>
    BY DEF GetFails, GetCall
<1>2. Shape' /\ \A u \in Threads : Returning(u)' = Returning(u)
  <2>1. CASE GetFails(t)
      BY <2>1 DEF Shape, Requests, Returning, GetFails, Goto, Return
  <2>2. CASE \E n \in 1 .. MaxFrames : GetCall(t, n)
    <3>1. PICK n \in 1 .. MaxFrames : GetCall(t, n)
        BY <2>2
    <3>2. <<BasePfn, n>> \in Frames \X (1 .. MaxFrames)
        BY <3>1 DEF ConstantsOK, Frames
    <3>3. \A u \in Threads : Returning(u)' = Returning(u)
        BY <3>1 DEF Shape, Returning, GetCall, Goto
    <3>4. Shape'
        BY <1>1, <3>1, <3>2 DEF Shape, Requests, GetCall, Goto
    <3> QED BY <3>3, <3>4
  <2> QED BY <2>1, <2>2
<1>3. Cached' = Cached
    BY <1>1 DEF Cached
<1>4. AllInBitmap' /\ OnePlace' /\ NoneLost'
  <2>1. AllInBitmap'
      BY <1>1, <1>2, <1>3 DEF AllInBitmap
  <2>2. OnePlace'
      BY <1>1, <1>2, <1>3 DEF OnePlace, Distinct
  <2>3. NoneLost'
      BY <1>1, <1>2, <1>3 DEF NoneLost
  <2> QED BY <2>1, <2>2, <2>3
<1>5. Implements
  <2>1. Used' = Used
      BY <1>1, <1>2, UsedFacts
  <2>2. Free' = Free
      BY <1>1, <1>3 DEF Free, Cached
  <2> QED BY <2>1, <2>2 DEF Implements
<1> QED BY <1>2, <1>4, <1>5

\* MemoryBmp::fragmentedGetFrames() marks a run of free frames.
LEMMA GetStep ==
  ASSUME ConstantsOK, IInv, NEW t \in Threads, Get(t)
  PROVE  IInv' /\ Implements
<1> USE DEF IInv
<1> DEFINE run == Start .. Stop(arg[t][2]) - 1
<1>1. arg[t][2] \in 1 .. MaxFrames /\ Found(arg[t][2])
    BY DEF Get, Shape
<1>2. /\ run \subseteq Frames \ bmp /\ Start \in run
      /\ \A x, y \in run : \A z \in x .. y : z \in run
    BY <1>1, RunIsFree DEF Frames, ConstantsOK
<1>3. /\ bmp' = bmp \cup run /\ used' = used \cup run
      /\ UNCHANGED <<frameCache, reserved>>
    BY DEF Get
<1>4. /\ pc' = [pc EXCEPT ![t] = "idle"] /\ arg' = [arg EXCEPT ![t] = NULL]
      /\ \A u \in Threads : Returning(u)' = Returning(u)
    BY DEF Get, Return, Goto, Returning, Shape
<1> HIDE DEF run
<1>5. Cached' = Cached
    BY <1>3 DEF Cached
<1>6. Shape'
    BY <1>2, <1>3, <1>4 DEF Shape, Requests
<1>7. AllInBitmap'
    BY <1>2, <1>3, <1>4, <1>5 DEF AllInBitmap
<1>8. OnePlace'
    BY <1>2, <1>3, <1>4, <1>5 DEF OnePlace, AllInBitmap, Distinct
<1>9. NoneLost'
    BY <1>2, <1>3, <1>4, <1>5 DEF NoneLost
<1>10. Implements
  <2>1. Used' = Used \cup run /\ Used \cap run = {}
      BY <1>2, <1>3, <1>4, UsedFacts DEF AllInBitmap
  <2>2. run \subseteq Free /\ Free' = Free \ run
      BY <1>2, <1>3, <1>5 DEF Free, Cached, AllInBitmap
  <2>3. Promise!Given = run /\ run # {}
      BY <1>2, <2>1 DEF Promise!Given
  <2>4. Promise!Get
      BY <1>2, <2>1, <2>2, <2>3 DEF Promise!Get, Promise!Contiguous
  <2> QED BY <2>4 DEF Implements, Promise!Next
<1> QED BY <1>6, <1>7, <1>8, <1>9, <1>10

\* releaseFrames() of one frame, into the cache.
LEMMA ReleaseCachedStep ==
  ASSUME ConstantsOK, IInv, NEW t \in Threads, NEW f \in used, ReleaseCached(t, f)
  PROVE  IInv' /\ Implements
<1> USE DEF IInv
<1>1. f \in Frames /\ f \notin Cached /\ f \notin reserved /\ f \in bmp
      /\ \A u \in Threads : f \notin Returning(u)
    BY DEF Shape, OnePlace, AllInBitmap
<1>2. /\ Cached' = Cached \cup {f}
      /\ frameCache' \in Seq(Frames) /\ Distinct(frameCache)'
    BY <1>1, PushFacts DEF ReleaseCached, Cached, OnePlace, Distinct, Shape
<1>3. /\ used' = used \ {f} /\ \A u \in Threads : Returning(u)' = Returning(u)
      /\ UNCHANGED <<bmp, reserved, pc, arg>>
    BY DEF ReleaseCached, Returning
<1>4. Shape'
    BY <1>2, <1>3 DEF Shape
<1>5. AllInBitmap'
    BY <1>1, <1>2, <1>3 DEF AllInBitmap
<1>6. OnePlace'
    BY <1>1, <1>2, <1>3 DEF OnePlace
<1>7. NoneLost'
    BY <1>1, <1>2, <1>3 DEF NoneLost
<1>8. Implements
  <2>1. Used' = Used \ {f} /\ f \in Used
      BY <1>1, <1>3, UsedFacts
  <2>2. Free' = Free \cup {f}
      BY <1>1, <1>2, <1>3 DEF Free, Cached
  <2>3. Promise!Returned = {f}
      BY <2>1 DEF Promise!Returned
  <2>4. Promise!Release
      BY <2>1, <2>2, <2>3 DEF Promise!Release
  <2> QED BY <2>4 DEF Implements, Promise!Next
<1> QED BY <1>4, <1>5, <1>6, <1>7, <1>8

\* releaseFrames() on its way to the bitmap: the frames are the client's no
\* longer, and not yet free.
LEMMA ReleaseCallStep ==
  ASSUME ConstantsOK, IInv, NEW t \in Threads, NEW f \in used, NEW n \in 1 .. MaxFrames,
         ReleaseCall(t, f, n)
  PROVE  IInv' /\ Implements
<1> USE DEF IInv
<1> DEFINE run == Run(f, n)
<1>1. /\ run \subseteq used /\ used' = used \ run
      /\ pc' = [pc EXCEPT ![t] = "release"] /\ arg' = [arg EXCEPT ![t] = <<f, n>>]
      /\ pc[t] = "idle"
      /\ UNCHANGED <<bmp, frameCache, reserved>>
    BY DEF ReleaseCall, Goto
<1>2. Returning(t) = {} /\ Returning(t)' = run /\ \A u \in Threads : u # t => Returning(u)' = Returning(u)
    BY <1>1 DEF Returning, Shape
<1> HIDE DEF run
<1>3. Cached' = Cached
    BY <1>1 DEF Cached
<1>4. Shape'
    BY <1>1 DEF Shape, Requests
<1>5. AllInBitmap'
    BY <1>1, <1>2, <1>3 DEF AllInBitmap
<1>6. OnePlace'
    BY <1>1, <1>2, <1>3 DEF OnePlace, Distinct
<1>7. NoneLost'
    BY <1>1, <1>2, <1>3 DEF NoneLost
<1>8. Implements
  <2>1. Used' = Used
      BY <1>1, <1>2, UsedFacts
  <2>2. Free' = Free
      BY <1>1, <1>3 DEF Free, Cached
  <2> QED BY <2>1, <2>2 DEF Implements
<1> QED BY <1>4, <1>5, <1>6, <1>7, <1>8

\* MemoryBmp::releaseFrames(): the frames are free, or refused and lost.
LEMMA ReleaseStep ==
  ASSUME ConstantsOK, IInv, NEW t \in Threads, Release(t)
  PROVE  IInv' /\ Implements
<1> USE DEF IInv
<1> DEFINE f == arg[t][1]
           n == arg[t][2]
           run == Run(f, n)
<1>1. f \in Frames /\ n \in 1 .. MaxFrames /\ pc[t] = "release"
    BY DEF Release, Shape
<1>2. /\ pc' = [pc EXCEPT ![t] = "idle"] /\ arg' = [arg EXCEPT ![t] = NULL]
      /\ UNCHANGED <<frameCache, used, reserved>>
    BY DEF Release, Return, Goto
<1>3. Returning(t) = run /\ Returning(t)' = {} /\ \A u \in Threads : u # t => Returning(u)' = Returning(u)
    BY <1>1, <1>2 DEF Returning, Shape
<1>4. run \subseteq Frames /\ f \in run
    BY <1>1, <1>3 DEF AllInBitmap, Shape, Run, ConstantsOK, Frames
<1>5. bmp' = bmp \ run \/ (bmp' = bmp /\ run \subseteq Lost)
  <2>1. CASE InRange(f, n)
      BY <2>1 DEF Release
  <2>2. CASE ~InRange(f, n)
      BY <1>1, <1>4, <2>2, RefusedIsLost DEF Release
  <2> QED BY <2>1, <2>2
<1> HIDE DEF run, f, n
<1>6. Cached' = Cached
    BY <1>2 DEF Cached
<1>7. Shape'
    BY <1>2, <1>5 DEF Shape, Requests
<1>8. AllInBitmap'
    BY <1>2, <1>3, <1>5, <1>6 DEF AllInBitmap, OnePlace
<1>9. OnePlace'
    BY <1>2, <1>3, <1>5, <1>6 DEF OnePlace, Distinct
<1>10. NoneLost'
    BY <1>2, <1>3, <1>5, <1>6 DEF NoneLost
<1>11. Implements
  <2>1. Used' = Used \ run /\ run \subseteq Used
      BY <1>2, <1>3, UsedFacts DEF OnePlace
  <2>2. Free \subseteq Free' /\ Free' \subseteq Free \cup run
      BY <1>2, <1>5, <1>6 DEF Free, Cached
  <2>3. Promise!Returned = run /\ run # {}
      BY <1>4, <2>1 DEF Promise!Returned
  <2>4. Promise!Release
      BY <2>1, <2>2, <2>3 DEF Promise!Release
  <2> QED BY <2>4 DEF Implements, Promise!Next
<1> QED BY <1>7, <1>8, <1>9, <1>10, <1>11

\* What is mapped is of the range.
LEMMA MappedFacts ==
  ASSUME ConstantsOK, NEW f \in BasePfn - 1 .. EndPfn, NEW n \in 1 .. MaxFrames
  PROVE  Mapped(f, n) \subseteq Frames
BY DEF ConstantsOK, Mapped, Frames

\* mapMemUsed(): the cached frames go back to the bitmap or are lost, and the
\* frames that are mapped are reserved.
LEMMA MapMemUsedStep ==
  ASSUME ConstantsOK, IInv, NEW f \in BasePfn - 1 .. EndPfn, NEW n \in 1 .. MaxFrames,
         MapMemUsed(f, n)
  PROVE  IInv' /\ Implements
<1> USE DEF IInv
<1> DEFINE M == Mapped(f, n)
<1>1. M \subseteq Frames
    BY MappedFacts
<1>2. /\ M \cap used = {} /\ bmp' = (bmp \ Flushed) \cup M /\ reserved' = reserved \cup M
      /\ frameCache' = <<>> /\ UNCHANGED <<used, pc, arg>>
    BY DEF MapMemUsed
<1>3. \A u \in Threads : Returning(u) = {} /\ Returning(u)' = {}
    BY <1>2 DEF MapMemUsed, Booting, Returning
<1> HIDE DEF M
<1>4. Cached' = {} /\ Distinct(frameCache')
    BY <1>2 DEF Cached, Range, Distinct
<1>5. Flushed \subseteq Cached /\ \A g \in Cached \ Flushed : g \in Lost
  <2>1. Flushed = {g \in Cached : InRange(g, 1)}
      BY DEF Flushed, Cached
  <2>2. ASSUME NEW g \in Cached, ~InRange(g, 1) PROVE g \in Lost
    <3>1. g \in Frames /\ g \in Run(g, 1) /\ 1 \in 1 .. MaxFrames
        BY <2>2, ElementFacts DEF Shape, Cached, Run, Frames, ConstantsOK
    <3> QED BY <2>2, <3>1, RefusedIsLost
  <2> QED BY <2>1, <2>2
<1>6. Shape'
    BY <1>1, <1>2 DEF Shape
<1>7. AllInBitmap'
    BY <1>2, <1>3, <1>4, <1>5 DEF AllInBitmap, OnePlace
<1>8. OnePlace'
    BY <1>2, <1>3, <1>4 DEF OnePlace
<1>9. NoneLost'
    BY <1>2, <1>3, <1>5 DEF NoneLost
<1>10. Implements
  <2>1. Used' = Used
      BY <1>2, <1>3, UsedFacts
  <2>2. Free' \subseteq Free
      BY <1>2, <1>4, <1>5 DEF Free, Cached
  <2>3. Promise!Reserve
      BY <2>1, <2>2 DEF Promise!Reserve
  <2> QED BY <2>3 DEF Implements, Promise!Next
<1> QED BY <1>6, <1>7, <1>8, <1>9, <1>10

\* mapMemUnused(): frames that nobody has are free.
LEMMA MapMemUnusedStep ==
  ASSUME ConstantsOK, IInv, NEW f \in BasePfn - 1 .. EndPfn, NEW n \in 1 .. MaxFrames,
         MapMemUnused(f, n)
  PROVE  IInv' /\ Implements
<1> USE DEF IInv
<1> DEFINE M == Mapped(f, n)
<1>1. M \subseteq Frames
    BY MappedFacts
<1>2. /\ M \cap used = {} /\ M \cap Cached = {} /\ bmp' = bmp \ M /\ reserved' = reserved \ M
      /\ UNCHANGED <<frameCache, used, pc, arg>>
    BY DEF MapMemUnused, Cached
<1>3. \A u \in Threads : Returning(u) = {} /\ Returning(u)' = {}
    BY <1>2 DEF MapMemUnused, Booting, Returning
<1> HIDE DEF M
<1>4. Cached' = Cached
    BY <1>2 DEF Cached
<1>5. Shape'
    BY <1>2 DEF Shape
<1>6. AllInBitmap'
    BY <1>2, <1>3, <1>4 DEF AllInBitmap
<1>7. OnePlace'
    BY <1>2, <1>3, <1>4 DEF OnePlace, Distinct
<1>8. NoneLost'
    BY <1>2, <1>3, <1>4 DEF NoneLost
<1>9. Implements
  <2>1. Used' = Used /\ Used = used
      BY <1>2, <1>3, UsedFacts
  <2>2. Free \subseteq Free' /\ Free' \subseteq Frames \ used
      BY <1>1, <1>2, <1>4, ElementFacts DEF Free, Cached, AllInBitmap, OnePlace, Shape
  <2>3. Promise!Provide
      BY <2>1, <2>2 DEF Promise!Provide
  <2> QED BY <2>3 DEF Implements, Promise!Next
<1> QED BY <1>5, <1>6, <1>7, <1>8, <1>9

-----------------------------------------------------------------------------
(* The theorems *)

\* In the initial states what the bitmap has is reserved.
LEMMA InitIInv == ASSUME ConstantsOK PROVE Init => IInv
<1> SUFFICES ASSUME Init PROVE IInv
    OBVIOUS
<1>1. /\ bmp \subseteq Frames /\ reserved = bmp /\ used = {} /\ frameCache = <<>>
      /\ pc = [t \in Threads |-> "idle"] /\ arg = [t \in Threads |-> NULL]
    BY DEF Init, Frames, ConstantsOK
<1>2. Cached = {} /\ Distinct(frameCache) /\ \A t \in Threads : Returning(t) = {}
    BY <1>1 DEF Cached, Range, Distinct, Returning
<1>3. Shape
    BY <1>1 DEF Shape, Requests
<1> QED BY <1>1, <1>2, <1>3 DEF IInv, AllInBitmap, OnePlace, NoneLost

\* Every step keeps the invariant and is one of the allocator, or none.
LEMMA NextStep == ASSUME ConstantsOK PROVE IInv /\ [Next]_vars => IInv' /\ Implements
<1> SUFFICES ASSUME IInv, [Next]_vars PROVE IInv' /\ Implements
    OBVIOUS
<1>1. CASE UNCHANGED vars
  <2>1. /\ UNCHANGED <<bmp, frameCache, used, reserved, pc, arg>>
        /\ Cached' = Cached /\ \A t \in Threads : Returning(t)' = Returning(t)
      BY <1>1 DEF vars, Cached, Returning
  <2>2. Shape' /\ AllInBitmap' /\ OnePlace' /\ NoneLost'
      BY <2>1 DEF IInv, Shape, AllInBitmap, OnePlace, NoneLost, Distinct
  <2>3. Free' = Free /\ Used' = Used
      BY <2>1 DEF Free, Used
  <2> QED BY <2>2, <2>3 DEF IInv, Implements
<1>2. CASE Next
    BY <1>2, GetCachedStep, GetCallStep, GetStep, ReleaseCachedStep, ReleaseCallStep, ReleaseStep,
       MapMemUsedStep, MapMemUnusedStep DEF Next
<1> QED BY <1>1, <1>2

\* IInv holds in every reachable state.
LEMMA Invariance == ASSUME ConstantsOK PROVE Spec => []IInv
<1>1. Init => IInv
    BY InitIInv
<1>2. IInv /\ [Next]_vars => IInv'
    BY NextStep
<1> QED BY <1>1, <1>2, PTL DEF Spec

\* NumaMemoryRange and MemoryBmp, for a range of any size: a frame that is
\* mapped used is never free, in the cache or with a client, and only the last
\* frames of the range can be lost.
THEOREM FramesNotLost == ASSUME ConstantsOK PROVE Spec => []FramesKept
<1>1. IInv => FramesKept
  <2> SUFFICES ASSUME IInv PROVE FramesKept
      OBVIOUS
  <2>1. reserved \cap (Free \cup Used) = {}
      BY UsedFacts DEF IInv, AllInBitmap, OnePlace, Free, Cached
  <2>2. Frames \ (Free \cup Used \cup reserved) \subseteq EndPfn - MaxFrames + 1 .. EndPfn
      BY UsedFacts DEF IInv, NoneLost, Lost, Free, Cached
  <2> QED BY <2>1, <2>2 DEF FramesKept
<1> QED BY <1>1, Invariance, PTL

\* The frames of a range are given to one client at a time: NumaMemoryRange
\* implements the abstract allocator, with the frames that are on their way
\* back still used.
THEOREM Refinement == ASSUME ConstantsOK PROVE Spec => ImplementsAllocator
<1>1. Init => Promise!Init
  <2> SUFFICES ASSUME Init PROVE Promise!Init
      OBVIOUS
  <2>1. Free \subseteq Frames
      BY DEF Init, Free, Range
  <2>2. Used = {}
      BY DEF Init, Used
  <2> QED BY <2>1, <2>2 DEF Promise!Init
<1>2. IInv /\ [Next]_vars => [Promise!Next]_<<Free, Used>>
    BY NextStep DEF Implements
<1> QED BY <1>1, <1>2, Invariance, PTL DEF Spec, ImplementsAllocator, Promise!Spec
=============================================================================
