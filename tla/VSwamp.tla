------------------------------- MODULE VSwamp -------------------------------
(***************************************************************************)
(* VaddrSpaceStream and its VSwamp: the virtual pages of an address space. *)
(* Free pages are in the pageCache, a stack of single pages, and in swamp  *)
(* nodes, a doubly linked list in the order of their addresses.  The node  *)
(* objects come from swampNodeList, a SlamCache; the first one is          *)
(* initSwampNode, here node 0.                                             *)
(*                                                                         *)
(* The swamp's methods hold its lock, which is recursive: when the node    *)
(* cache of the kernel's own swamp needs a page, releasePages() is entered *)
(* by getPages().  A critical section is a step, or two if it comes to     *)
(* that.  The stack of the page cache has another lock, and a thread       *)
(* visits it before it goes to the swamp.                                  *)
(***************************************************************************)
EXTENDS Integers, SequencesExt, FiniteSetsExt

CONSTANTS
  Threads,
  NPages,       \* of the address space: 0 .. NPages - 1
  Sizes,        \* the numbers of pages that clients ask for
  PerPage,      \* perPageBlocks of the node cache
  CacheSize,    \* of the page cache
  Kernel,       \* whether this is the kernel's swamp
  NULL

\* What the modules that use this one assume of its constants.
SwampAssumption ==
  /\ NPages \in Nat \ {0} /\ Sizes \subseteq Nat \ {0} /\ CacheSize \in Nat
  /\ PerPage \in Nat \ {0} /\ Kernel \in BOOLEAN

VARIABLES
  node,          \* the node objects, by number
  head, tail,
  partialList,   \* the free objects of the node cache, a stack
  pageCache,     \* a stack
  used,          \* what clients have, as <<first page, number>>
  nodePages,     \* the pages of the node cache
  pc, arg,       \* of each thread: where it is; the <<page, number>> it is about
  link,          \* locals of releasePages(): the insertion node, its prev, the status
  failed         \* history: "nomem", a node could not be had; "empty", pages came
                 \* back to an empty swamp; "unlinked", getPages() took a node
                 \* out of the list inside releasePages()

nodeVars == <<node, head, tail, partialList>>
vars == <<node, head, tail, partialList, pageCache, used, nodePages, pc, arg, link, failed>>

Pages == 0 .. NPages - 1
Run(a) == a[1] .. a[1] + a[2] - 1

Node(a, p, n) == [baseAddr |-> a[1], nPages |-> a[2], prev |-> p, next |-> n]

\* An object of the node cache that is no node; what it holds is of no account,
\* because the constructor sets all of it.
Blank == Node(<<0, 0>>, NULL, NULL)

Init ==
  /\ node = [x \in {0} |-> Node(<<0, NPages>>, NULL, NULL)]
  /\ head = 0 /\ tail = 0
  /\ partialList = <<>> /\ pageCache = <<>>
  /\ used = {} /\ nodePages = {}
  /\ pc = [t \in Threads |-> "idle"] /\ arg = [t \in Threads |-> NULL]
  /\ link = NULL /\ failed = {}

\* The list: the nodes that the next pointers lead to.
List ==
  LET N == Cardinality(DOMAIN node)
      nth[k \in 1 .. N + 1] ==
        IF k = 1 THEN head ELSE IF nth[k - 1] = NULL THEN NULL ELSE node[nth[k - 1]].next
  IN SelectSeq([k \in 1 .. N + 1 |-> nth[k]], LAMBDA x : x # NULL)

Goto(t, l, a) == pc' = [pc EXCEPT ![t] = l] /\ arg' = [arg EXCEPT ![t] = a]
Return(t) == Goto(t, "idle", NULL)

\* t is at l, and nobody is inside the swamp.
Enters(t, l) == pc[t] = l /\ \A u \in Threads : pc[u] \notin {"link", "deadlock"}
-----------------------------------------------------------------------------
(* getPages()                                                              *)

\* The page cache, whose stack is for single pages, has one.
GetCached(t) ==
  /\ pc[t] = "idle" /\ 1 \in Sizes /\ pageCache # <<>>
  /\ pageCache' = Tail(pageCache)
  /\ used' = used \cup {<<Head(pageCache), 1>>}
  /\ UNCHANGED <<nodeVars, nodePages, pc, arg, link, failed>>

GetCall(t, n) ==
  /\ pc[t] = "idle" /\ (n # 1 \/ pageCache = <<>>)
  /\ Goto(t, "get", <<0, n>>)
  /\ UNCHANGED <<nodeVars, pageCache, used, nodePages, link, failed>>

Fits(n) == SelectSeq(List, LAMBDA x : node[x].nPages >= n)

\* VSwamp::getPages(): n pages of node x, which is deleted with its last.
TakePages(x, n) ==
  LET p == node[x].prev
      s == node[x].next
      less == [node EXCEPT ![x].nPages = @ - n, ![x].baseAddr = @ + n]
  IN
  IF node[x].nPages > n THEN node' = less /\ UNCHANGED <<head, tail, partialList>>
  ELSE
    /\ head' = IF head = x THEN s ELSE head
    /\ tail' = IF tail = x THEN p ELSE tail
    /\ node' = [y \in DOMAIN node |->
         IF y = s THEN [less[y] EXCEPT !.prev = p]
         ELSE IF y = p THEN [less[y] EXCEPT !.next = s]
         ELSE IF y = x /\ x # 0 THEN Blank ELSE less[y]]
    /\ partialList' = IF x = 0 THEN partialList ELSE <<x>> \o partialList

Get(t) ==
  LET n == arg[t][2]
      x == Head(Fits(n))
  IN
  /\ Enters(t, "get") /\ Fits(n) # <<>>
  /\ TakePages(x, n)
  /\ used' = used \cup {<<node[x].baseAddr, n>>}
  /\ Return(t)
  /\ UNCHANGED <<pageCache, nodePages, link, failed>>

GetFails(t) ==
  /\ Enters(t, "get") /\ Fits(arg[t][2]) = <<>>
  /\ Return(t)
  /\ UNCHANGED <<nodeVars, pageCache, used, nodePages, link, failed>>
-----------------------------------------------------------------------------
(* releasePages() of what a client has.                                    *)

ReleaseCached(t, a) ==
  /\ pc[t] = "idle" /\ a \in used /\ a[2] = 1 /\ Len(pageCache) < CacheSize
  /\ pageCache' = <<a[1]>> \o pageCache
  /\ used' = used \ {a}
  /\ UNCHANGED <<nodeVars, nodePages, pc, arg, link, failed>>

ReleaseCall(t, a) ==
  /\ pc[t] = "idle" /\ a \in used /\ (a[2] # 1 \/ Len(pageCache) = CacheSize)
  /\ used' = used \ {a}
  /\ Goto(t, "release", a)
  /\ UNCHANGED <<nodeVars, pageCache, nodePages, link, failed>>

\* findInsertionNode(): the first node above a; else the last, to insert after.
Above(a) == SelectSeq(List, LAMBDA x : a[1] < node[x].baseAddr)
InsertionNode(a) == IF Above(a) # <<>> THEN Head(Above(a)) ELSE Last(List)

\* Variant: whatever lies between the pages and the insertion node.
JoinsAny(a) == Above(a) # <<>> /\ a[1] + a[2] <= node[InsertionNode(a)].baseAddr

Joins(a) == Above(a) # <<>> /\ a[1] + a[2] = node[InsertionNode(a)].baseAddr

\* The swamp is empty: nothing is done.
ReleaseEmpty(t) ==
  /\ Enters(t, "release") /\ List = <<>>
  /\ failed' = failed \cup {"empty"}
  /\ Return(t)
  /\ UNCHANGED <<nodeVars, pageCache, used, nodePages, link>>

\* The pages end where the insertion node begins: they become part of it, and
\* so does the node before, if they begin where that one ends.
ReleaseJoins(t) ==
  LET a == arg[t]
      x == InsertionNode(a)
      p == node[x].prev
      joined == [node EXCEPT ![x].baseAddr = a[1], ![x].nPages = @ + a[2]]
      pp == node[p].prev
      both == [joined EXCEPT ![x].baseAddr = node[p].baseAddr, ![x].nPages = @ + node[p].nPages,
                             ![x].prev = pp, ![p] = IF p = 0 THEN @ ELSE Blank]
  IN
  /\ Enters(t, "release") /\ List # <<>> /\ Joins(a)
  /\ IF p # NULL /\ node[p].baseAddr + node[p].nPages = a[1]
     THEN /\ head' = IF head = p THEN x ELSE head
          /\ node' = IF pp = NULL THEN both ELSE [both EXCEPT ![pp].next = x]
          /\ partialList' = IF p = 0 THEN partialList ELSE <<p>> \o partialList
     ELSE node' = joined /\ UNCHANGED <<head, partialList>>
  /\ Return(t)
  /\ UNCHANGED <<tail, pageCache, used, nodePages, link, failed>>
-----------------------------------------------------------------------------
(* They need a node of their own: getNewSwampNode().                       *)

NeedsNode(t) == Enters(t, "release") /\ List # <<>> /\ ~ Joins(arg[t])

\* The arguments of getNewSwampNode() are read before it runs.
Link(a, p) ==
  LET x == InsertionNode(a)
  IN IF Above(a) # <<>> THEN [before |-> TRUE, node |-> x, prev |-> node[x].prev, page |-> p]
     ELSE [before |-> FALSE, node |-> x, prev |-> x, page |-> p]

\* The new node y, for the pages a, is put in the list N at k.
LinkNode(k, y, a, N) ==
  LET new == [z \in DOMAIN N \cup {y} |->
                IF z = y THEN Node(a, k.prev, IF k.before THEN k.node ELSE NULL) ELSE N[z]]
  IN
  IF k.before
  THEN /\ node' = [z \in DOMAIN new |->
            CASE z = k.node -> [new[z] EXCEPT !.prev = y]
              [] z = k.prev -> [new[z] EXCEPT !.next = y]
              [] OTHER -> new[z]]
       /\ head' = IF k.prev = NULL THEN y ELSE head
       /\ UNCHANGED tail
  ELSE node' = [new EXCEPT ![k.node].next = y] /\ tail' = y /\ UNCHANGED head

\* The node cache has an object.
ReleaseLinks(t) ==
  /\ NeedsNode(t) /\ partialList # <<>>
  /\ LinkNode(Link(arg[t], NULL), Head(partialList), arg[t], node)
  /\ partialList' = Tail(partialList)
  /\ Return(t)
  /\ UNCHANGED <<pageCache, used, nodePages, link, failed>>

\* It has none, and needs a page.  That of the kernel's swamp gets it from the
\* page cache, or else from the swamp.
NodePage(t) ==
  LET x == Head(Fits(1)) IN
  /\ NeedsNode(t) /\ partialList = <<>>
  /\ \/ ~ Kernel /\ link' = Link(arg[t], NULL) /\ UNCHANGED <<nodeVars, pageCache, nodePages, failed>>
     \/ /\ Kernel /\ pageCache # <<>>
        /\ pageCache' = Tail(pageCache) /\ nodePages' = nodePages \cup {Head(pageCache)}
        /\ link' = Link(arg[t], Head(pageCache))
        /\ UNCHANGED <<nodeVars, failed>>
     \/ /\ Kernel /\ pageCache = <<>> /\ Fits(1) # <<>>
        /\ node[x].nPages > 1 \/ x = 0
        /\ TakePages(x, 1)
        /\ nodePages' = nodePages \cup {node[x].baseAddr}
        /\ link' = Link(arg[t], node[x].baseAddr)
        /\ failed' = IF node[x].nPages > 1 THEN failed ELSE failed \cup {"unlinked"}
        /\ UNCHANGED pageCache
  /\ Goto(t, "link", arg[t])
  /\ UNCHANGED used

\* The page was the last of its node, which is to be freed in the node cache,
\* whose lock the thread holds: it spins for itself.
NodeDeadlock(t) ==
  LET x == Head(Fits(1)) IN
  /\ NeedsNode(t) /\ partialList = <<>>
  /\ Kernel /\ pageCache = <<>> /\ Fits(1) # <<>> /\ node[x].nPages = 1 /\ x # 0
  /\ Goto(t, "deadlock", arg[t])
  /\ UNCHANGED <<nodeVars, pageCache, used, nodePages, link, failed>>

Spin(t) == pc[t] = "deadlock" /\ UNCHANGED vars

\* The page is broken up into objects, and the first one linked.
NodeLinks(t) ==
  LET first == Cardinality(DOMAIN node) IN
  /\ pc[t] = "link"
  /\ LinkNode(link, first, arg[t],
       [x \in 0 .. first + PerPage - 1 |->
          IF x \in DOMAIN node THEN node[x] ELSE Blank])
  /\ partialList' = [k \in 1 .. PerPage - 1 |-> first + k]
  /\ link' = NULL
  /\ Return(t)
  /\ UNCHANGED <<pageCache, used, nodePages, failed>>

\* No page, or it could not be mapped, and goes back to the page cache, which
\* has room: there is no node, and the pages are lost.
NodeFails(t) ==
  /\ pc[t] = "link" /\ (Kernel => Len(pageCache) < CacheSize)
  /\ IF link.before THEN UNCHANGED <<node, tail>>
     ELSE node' = [node EXCEPT ![link.node].next = NULL] /\ tail' = NULL
  /\ pageCache' = IF Kernel THEN <<link.page>> \o pageCache ELSE pageCache
  /\ nodePages' = nodePages \ {link.page}
  /\ failed' = failed \cup {"nomem"}
  /\ link' = NULL
  /\ Return(t)
  /\ UNCHANGED <<head, partialList, used>>
-----------------------------------------------------------------------------
Next ==
  \E t \in Threads :
    \/ GetCached(t) \/ \E n \in Sizes : GetCall(t, n)
    \/ Get(t) \/ GetFails(t)
    \/ \E a \in used : ReleaseCached(t, a) \/ ReleaseCall(t, a)
    \/ ReleaseEmpty(t) \/ ReleaseJoins(t) \/ ReleaseLinks(t)
    \/ NodePage(t) \/ NodeLinks(t) \/ NodeFails(t) \/ NodeDeadlock(t) \/ Spin(t)

Spec == Init /\ [][Next]_vars
-----------------------------------------------------------------------------
TypeOK ==
  /\ DOMAIN node = 0 .. Cardinality(DOMAIN node) - 1
  /\ head \in DOMAIN node \cup {NULL} /\ tail \in DOMAIN node \cup {NULL}
  /\ ToSet(partialList) \subseteq DOMAIN node \ {0}
  /\ ToSet(pageCache) \subseteq Pages /\ Len(pageCache) <= CacheSize
  /\ nodePages \subseteq Pages
  /\ \A a \in used : a[2] \in Sizes /\ Run(a) \subseteq Pages

Free == UNION {Run(<<node[x].baseAddr, node[x].nPages>>) : x \in ToSet(List)} \cup ToSet(pageCache)

\* What clients have, what they are returning, and what the node cache has.
Used ==
  UNION {Run(a) : a \in used} \cup nodePages
    \cup UNION {Run(arg[t]) : t \in {u \in Threads : pc[u] \in {"release", "link", "deadlock"}}}

\* The nodes are linked both ways in the order of their addresses, they neither
\* overlap nor run empty, and none of them is free in the node cache, whichever
\* end of the list a node is taken from, put at or joined with.
WellLinked ==
  "unlinked" \notin failed =>
    /\ \A k \in DOMAIN List :
         LET x == node[List[k]] IN
         /\ x.nPages > 0
         /\ x.prev = IF k = 1 THEN NULL ELSE List[k - 1]
         /\ k < Len(List) => x.baseAddr + x.nPages <= node[List[k + 1]].baseAddr
    /\ ToSet(List) \cap ToSet(partialList) = {}
    /\ "nomem" \notin failed => tail = IF List = <<>> THEN NULL ELSE Last(List)

\* A page that comes back can be had again.  It is lost only when there is no
\* memory for a node, when the swamp was empty, or after getPages() took a node
\* out of the list inside releasePages().
NoneLost == failed = {} => Free \cup Used = Pages

Promise == INSTANCE Allocator WITH Units <- Pages, free <- Free, used <- Used

\* Pages are given to one client at a time.
ImplementsAllocator == Promise!Spec
=============================================================================
