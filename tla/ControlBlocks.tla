--------------------------- MODULE ControlBlocks ----------------------------
(***************************************************************************)
(* Control blocks on their way across a channel: allocated, marshalled     *)
(* into a message, cloned by the callee and freed                          *)
(* (commonlibs/libzbzcore/libzudi.cpp and layout.cpp, sChannelMsg::send of *)
(* kernel/common/floodplainn/channel.cpp).                                 *)
(*                                                                         *)
(* A layout is a sequence of element codes that ends with DL_END, as in    *)
(* the metalanguage libraries.  Addresses count from the udi_cb_t of the   *)
(* block or message they are in; what memory holds is told by the object   *)
(* a pointer leads to.                                                     *)
(***************************************************************************)
EXTENDS Integers, Sequences, FiniteSets, Bitwise

CONSTANTS
  Calls,      \* [visible, marshal: the layouts of both directions, inline]
  Sizes,      \* bytes of movable objects
  MaxHops     \* how often a block crosses the channel

VARIABLES
  cblk,       \* the block its owner holds
  wire,       \* the message that carries it
  hop,        \* crossings so far
  verdict     \* "runs", "panic", or "wild": a pointer is used that was never set

cbVars == <<cblk, wire, hop, verdict>>

-----------------------------------------------------------------------------
(* Sizes of a build for i586.                                              *)

Word == 4
CbSize == 20          \* sizeof(udi_cb_t)
HdrSize == 12         \* sizeof(sControlBlock)
MovableHdr == 8       \* sizeof(sMovableMemory)
Failure == -1         \* any negative status

DL_END == 0
DL_BUF == 40
DL_INLINE_DRIVER_TYPED == 43
DL_MOVABLE_UNTYPED == 44
DL_INLINE_TYPED == 50
DL_MOVABLE_TYPED == 51
DL_ARRAY == 52

layoutElements(c) ==
  CASE c \in {1, 2, 7, 20} -> [size |-> 1, skip |-> 1]
    [] c \in {3, 4} -> [size |-> 2, skip |-> 1]
    [] c = DL_BUF -> [size |-> Word, skip |-> 4]
    [] OTHER -> [size |-> Word, skip |-> 1]

\* To the element's size, at most a word.
align(p, n) ==
  LET mask == (IF n > Word THEN Word ELSE n) - 1
      next == p + mask + 1
  IN  IF p & mask # 0 THEN next - (next & mask) ELSE p

isInlineElement(c) == c \in {DL_INLINE_TYPED, DL_INLINE_DRIVER_TYPED, DL_MOVABLE_UNTYPED, DL_MOVABLE_TYPED}
IsMovable(c) == c \in {DL_MOVABLE_UNTYPED, DL_MOVABLE_TYPED}

\* Where the layout that starts at i ends: at the first DL_END.
EndOf(lay, i) == CHOOSE e \in i .. Len(lay) : lay[e] = DL_END /\ \A j \in i .. e - 1 : lay[j] # DL_END
hasInlineElements(lay, i) == \E j \in i .. EndOf(lay, i) : isInlineElement(lay[j])

RECURSIVE SizeFrom(_, _, _)
RECURSIVE zudi_layout_get_size(_, _, _)

\* A nested layout is skipped up to its first end; a skip of 0 is an error.
zudi_layout_get_element_size(lay, i) ==
  CASE lay[i] \in {DL_INLINE_TYPED, DL_MOVABLE_TYPED} ->
         [size |-> Word, skip |-> 2 + EndOf(lay, i + 1) - (i + 1)]
    [] lay[i] = DL_ARRAY ->
         LET n == zudi_layout_get_size(lay, i + 2, FALSE)
         IN  IF n < 0 THEN [size |-> 0, skip |-> 0]
                      ELSE [size |-> n * lay[i + 1], skip |-> 3 + EndOf(lay, i + 2) - (i + 2)]
    [] OTHER -> layoutElements(lay[i])

SizeFrom(lay, i, n) ==
  LET e == zudi_layout_get_element_size(lay, i)
  IN  IF lay[i] = DL_END THEN align(n, Word)
      ELSE IF e.size = 0 \/ e.skip = 0 THEN Failure
      ELSE SizeFrom(lay, i + e.skip, align(n, e.size) + e.size)

\* The layout at position i of lay; a NULL layout is the empty sequence.
zudi_layout_get_size(lay, i, inlineElementsAllowed) ==
  IF lay = <<>> \/ (~inlineElementsAllowed /\ hasInlineElements(lay, i))
  THEN Failure
  ELSE SizeFrom(lay, i, 0)

\* The loop that layout.cpp repeats: each element with its offset.
RECURSIVE SlotsFrom(_, _, _)
SlotsFrom(lay, i, n) ==
  IF lay[i] = DL_END THEN <<>>
  ELSE LET e == zudi_layout_get_element_size(lay, i)
           off == align(n, e.size)
       IN  <<[code |-> lay[i], pos |-> i, off |-> off, size |-> e.size]>>
             \o SlotsFrom(lay, i + e.skip, off + e.size)
Slots(lay) == SlotsFrom(lay, 1, 0)

\* Elements of a flat layout, its end included.
getLayoutNElements(lay) == Len(lay)

-----------------------------------------------------------------------------
(* Objects beyond the block's own bytes.  A pointer is [obj, at, n]: which *)
(* object, where it is, and the bytes a movable one says it has.           *)

Null == [obj |-> 0, at |-> 0, n |-> 0]
Heap == -1            \* at: in memory of its own
Hdr(s) == IF IsMovable(s.code) THEN MovableHdr ELSE 0

ObjectSize(lay, s, drv, p) ==
  CASE s.code \in {DL_INLINE_TYPED, DL_MOVABLE_TYPED} -> zudi_layout_get_size(lay, s.pos + 1, FALSE)
    [] s.code = DL_INLINE_DRIVER_TYPED -> zudi_layout_get_size(drv, 1, FALSE)
    [] OTHER -> p.n

Inline(lay) == SelectSeq(Slots(lay), LAMBDA s : isInlineElement(s.code))

RECURSIVE Total(_, _, _, _)
Total(lay, ss, drv, ptrs) ==
  IF ss = <<>> THEN 0
  ELSE LET s == ss[1]
           n == ObjectSize(lay, s, drv, ptrs[s.off])
           rest == Total(lay, Tail(ss), drv, ptrs)
       IN  IF n < 0 \/ rest < 0 THEN Failure
           ELSE rest + (IF ptrs[s.off].obj = 0 THEN 0 ELSE n + Hdr(s))
getTotalMarshalSpaceInlineRequirements(lay, drv, ptrs) == Total(lay, Inline(lay), drv, ptrs)

\* The objects one after the other, each pointer to its copy.
RECURSIVE Placed(_, _, _, _, _)
Placed(lay, ss, drv, ptrs, dest) ==
  IF ss = <<>> THEN ptrs
  ELSE LET s == ss[1]
           p == ptrs[s.off]
           n == ObjectSize(lay, s, drv, p) + Hdr(s)
       IN  IF p.obj = 0 THEN Placed(lay, Tail(ss), drv, ptrs, dest)
           ELSE Placed(lay, Tail(ss), drv, [ptrs EXCEPT ![s.off] = [p EXCEPT !.at = dest + Hdr(s)]], dest + n)
marshalInlineObjects(lay, drv, ptrs, dest) == Placed(lay, Inline(lay), drv, ptrs, dest)

\* A block has room for its inline objects; movable ones are allocated apart.
CbInline(lay) == SelectSeq(Slots(lay), LAMBDA s : s.code \in {DL_INLINE_TYPED, DL_INLINE_DRIVER_TYPED})
OwnPtrs(lay) == [o \in {Inline(lay)[i].off : i \in DOMAIN Inline(lay)} |->
                   IF \E i \in DOMAIN CbInline(lay) : CbInline(lay)[i].off = o THEN [Null EXCEPT !.obj = 100 + o] ELSE Null]
getTotalCbInlineRequirements(lay, drv) == Total(lay, CbInline(lay), drv, OwnPtrs(lay))
initializeCbInlinePointers(lay, drv, space) == Placed(lay, CbInline(lay), drv, OwnPtrs(lay), space)

-----------------------------------------------------------------------------
(* The block.  fresh is the inline layout it was allocated with; held what *)
(* the sender's pointers led to.                                           *)

None == [state |-> "none"]
Held(ptrs) == [o \in DOMAIN ptrs |-> ptrs[o].obj]

Init == cblk = None /\ wire = None /\ hop = 0 /\ verdict = "runs"

\* With an inline layout, the header is looked for sizeof(udi_cb_t) before
\* the block where it has sizeof(sControlBlock): the layout's address is
\* written over the magic number, and the header keeps no layout.
HeaderWritten(inline) ==
  LET found == HdrSize - CbSize       \* from the start of the header
  IN  [magic |-> inline = <<>> \/ found + 8 # 0,
       drv |-> IF inline # <<>> /\ found = 0 THEN inline ELSE <<>>]

\* Any failure: the callback is called with NULL, and then the block that
\* there is not is written to.
udi_cb_alloc(c) ==
  LET visible == zudi_layout_get_size(c.visible, 1, TRUE)
      inline == getTotalCbInlineRequirements(c.visible, c.inline)
      hdr == HeaderWritten(c.inline)
  IN  /\ cblk = None /\ wire = None /\ hop = 0
      /\ \/ /\ inline >= 0
            /\ cblk' = [state |-> "fresh", call |-> c, drv |-> hdr.drv, magic |-> hdr.magic,
                        len |-> CbSize + visible + inline + getLayoutNElements(c.inline),
                        ptrs |-> initializeCbInlinePointers(c.visible, c.inline, CbSize + visible),
                        held |-> Held(OwnPtrs(c.visible))]
            /\ UNCHANGED verdict
         \/ verdict' = "wild" /\ UNCHANGED cblk
      /\ UNCHANGED <<wire, hop>>

\* The driver points a movable field at an object, or at nothing.
Fill(o, n) ==
  /\ wire = None /\ o \in DOMAIN cblk.ptrs
  /\ \E i \in DOMAIN Slots(cblk.call.visible) :
       LET s == Slots(cblk.call.visible)[i] IN s.off = o /\ IsMovable(s.code)
  /\ LET p == IF n = 0 THEN Null ELSE [obj |-> 1 + o, at |-> Heap, n |-> n]
     IN  cblk' = [cblk EXCEPT !.ptrs[o] = p, !.held[o] = p.obj]
  /\ UNCHANGED <<wire, hop, verdict>>

\* A block whose magic number is not there is not freed.
udi_cb_free_sync == IF cblk.magic THEN cblk' = None /\ UNCHANGED verdict ELSE verdict' = "panic" /\ UNCHANGED cblk

marshalStackArguments(lay) ==
  IF \E i \in DOMAIN Slots(lay) : Slots(lay)[i].size \notin {1, 2, 4, 8, 16} THEN Failure ELSE 0

\* sChannelMsg::send: block, arguments, objects and inline layout, in turn.
Marshalled(marshal) ==
  LET c == cblk.call
      visible == zudi_layout_get_size(c.visible, 1, TRUE)
      args == zudi_layout_get_size(marshal, 1, FALSE)
      inline == getTotalMarshalSpaceInlineRequirements(c.visible, cblk.drv, cblk.ptrs)
      nElems == getLayoutNElements(cblk.drv)
  IN  IF visible < 0 \/ args < 0 \/ inline < 0 \/ marshalStackArguments(marshal) < 0
      THEN None
      ELSE [state |-> "sent", call |-> c, marshal |-> marshal, drv |-> cblk.drv, held |-> cblk.held,
            len |-> CbSize + visible + args + inline + nElems, args |-> CbSize + visible,
            dtyped |-> CbSize + visible + args + inline,
            ptrs |-> marshalInlineObjects(c.visible, cblk.drv, cblk.ptrs, CbSize + visible + args)]

\* Whether or not it could be sent, the block is freed.
udi_mei_call ==
  /\ cblk # None /\ wire = None /\ hop < MaxHops
  /\ wire' \in {None, Marshalled(cblk.call.marshal[(hop % 2) + 1])}
  /\ udi_cb_free_sync
  /\ UNCHANGED hop

udi_cb_free ==
  /\ cblk # None /\ wire = None /\ hop > 0
  /\ udi_cb_free_sync /\ UNCHANGED <<wire, hop>>

-----------------------------------------------------------------------------
(* The callee.                                                             *)

updateClonedCbInlinePointers(ptrs, marshal) ==
  [o \in DOMAIN ptrs |-> IF ptrs[o].obj = 0 THEN Null
                         ELSE [ptrs[o] EXCEPT !.at = @ - zudi_layout_get_size(marshal, 1, FALSE)]]

calleeCloneCb ==
  LET visible == zudi_layout_get_size(wire.call.visible, 1, TRUE)
      inline == getTotalMarshalSpaceInlineRequirements(wire.call.visible, wire.drv, wire.ptrs)
  IN  [state |-> "clone", call |-> wire.call, drv |-> wire.drv, magic |-> TRUE, held |-> wire.held,
       len |-> CbSize + visible + inline + getLayoutNElements(wire.drv),
       ptrs |-> updateClonedCbInlinePointers(wire.ptrs, wire.marshal)]

\* channel::handler up to the call of the operation; without memory for the
\* clone the message is dropped.
handler ==
  /\ wire # None /\ cblk = None
  /\ cblk' \in {None, calleeCloneCb}
  /\ wire' = None /\ hop' = hop + 1 /\ UNCHANGED verdict

Next ==
  /\ verdict = "runs"
  /\ \/ \E c \in Calls : udi_cb_alloc(c)
     \/ cblk # None /\ \E o \in DOMAIN cblk.ptrs, n \in Sizes \union {0} : Fill(o, n)
     \/ udi_mei_call \/ udi_cb_free \/ handler

Spec == Init /\ [][Next]_cbVars

-----------------------------------------------------------------------------
(* Properties.                                                             *)

Drv(b) == IF b.drv = <<>> THEN b.call.inline ELSE b.drv

\* The bytes that a slot's object takes in the block or message b.
Extent(b, s) ==
  LET p == b.ptrs[s.off]
  IN  [from |-> p.at - Hdr(s), to |-> p.at + ObjectSize(b.call.visible, s, Drv(b), p)]
Within(b) == {Extent(b, s) : s \in {Inline(b.call.visible)[i] : i \in
               {j \in DOMAIN Inline(b.call.visible) :
                  LET p == b.ptrs[Inline(b.call.visible)[j].off] IN p.obj # 0 /\ p.at # Heap}}}
Parts(b) == Within(b) \union {[from |-> 0, to |-> CbSize + zudi_layout_get_size(b.call.visible, 1, TRUE)]}
              \union (IF b.state # "sent" THEN {} ELSE
                        {[from |-> b.args, to |-> b.args + zudi_layout_get_size(b.marshal, 1, FALSE)],
                         [from |-> b.dtyped, to |-> b.dtyped + getLayoutNElements(b.drv)]})
Apart(x, y) == x = y \/ x.to <= y.from \/ y.to <= x.from
Sound(b) ==
  /\ \A x \in Parts(b) : 0 <= x.from /\ x.from <= x.to /\ x.to <= b.len /\ \A y \in Parts(b) : Apart(x, y)
  /\ \A o \in DOMAIN b.ptrs : b.ptrs[o].obj = b.held[o]
  /\ b.state = "sent" => \A o \in DOMAIN b.ptrs : b.ptrs[o].at # Heap

\* A call that crosses the channel arrives as it was made: the sizes that
\* layout.cpp works out before it allocates are those of what it then
\* writes, so that the visible fields, the arguments, each object and the
\* inline layout lie within the message, and in the clone, side by side, and
\* every pointer leads to the object the sender had, or nowhere where the
\* sender's did.  The fields of a block without arrays are where the C
\* structure has them.  A block is fit to be freed unless it comes straight
\* from an allocation with an inline layout.
CallsArrive ==
  /\ \A b \in {cblk, wire} \ {None} : Sound(b)
  /\ cblk # None => LET ss == Slots(cblk.call.visible) IN
       \A i \in DOMAIN ss : ss[i].code # DL_ARRAY =>
         LET from == IF i = 1 THEN 0 ELSE ss[i - 1].off + ss[i - 1].size
         IN  ss[i].off % ss[i].size = 0 /\ ss[i].off \in from .. from + ss[i].size - 1
  /\ verdict = "panic" => cblk.call.inline # <<>> /\ hop = 0
=============================================================================
