------------------------------ MODULE NewDevice ------------------------------
(***************************************************************************)
(* A new device is found a driver: kernel/common/floodplainn/zuiFrontEnd   *)
(* and zuiBackEnd.cpp (the indexer, one thread that sends requests to      *)
(* itself and goes on in callbacks), ProcessTrib::spawnDriver and          *)
(* commonEntry, and driver::main of commonlibs/libzbzcore/driverPath.cpp   *)
(* in the process of the driver.  The start of the regions, after          *)
(* instantiateDeviceReq, is RegionStart; here only its answer is seen.     *)
(*                                                                         *)
(* Messages themselves are taken to be allocated.                          *)
(***************************************************************************)
EXTENDS Naturals, Sequences, FiniteSets, SequencesExt

CONSTANTS
  Devices,
  EnumAttrs,    \* for every device, its enumeration attributes: name -> value
  BankOf,       \* for every device, its NUMA bank
  IndexLines,   \* the device lines of the index: [driver, meta, data]
  Ranks,        \* for every metalanguage, its rank lines: [attrs, rank]
  DriverInfo,   \* for every driver: [requires, metas, childMetas, cbs, nRegions, nInternalBops]
  KernelMetas,  \* metalanguages the kernel has init info for
  Provisions,   \* metalanguages the index provides
  ClassOf,      \* driverClassMap: metalanguage -> class
  MaxInds       \* bound on the indications of new devices

Drivers == DOMAIN DriverInfo
Instances == Drivers \X {BankOf[d] : d \in Devices}   \* one process per driver and bank

NOTHING == 0
DETECT_DRIVER == 1
LOAD_DRIVER == 2
SPAWN_DRIVER == 3
INSTANTIATE == 4

VARIABLES
  action,      \* newDeviceAction
  inForce,     \* the actions that have been in force (history)
  requests,    \* the indexer's queue of requests
  replies,     \* answers to the indexer's own requests, in any order
  ctx,         \* the indications: device, action reached, answers sent
  device,      \* driver detected, driverInstance, whether dev->instance is there
  loaded,      \* drivers in zudi.driverList, with their classes
  instance,    \* Driver::state.instances
  moved,       \* entries of that array whose address changed when it grew
  proc,        \* the driver processes
  hosted,      \* DriverInstance::hostedDevices
  fate         \* "stray": a stale pointer was used; "panic"

newVars == <<action, inForce, requests, replies, ctx, device, loaded, instance, moved, proc, hosted, fate>>
zuiVars == <<requests, replies>>
driverVars == <<instance, moved, proc>>

NoDriver == "none"
Ids == DOMAIN ctx
Key(d) == <<device[d].driver, BankOf[d]>>

Init ==
  /\ action = INSTANTIATE /\ inForce = {INSTANTIATE}
  /\ requests = <<>> /\ replies = {} /\ ctx = <<>>
  /\ device = [d \in Devices |-> [driver |-> NoDriver, driverInstance |-> FALSE, up |-> FALSE]]
  /\ loaded = {}
  /\ instance = [k \in Instances |-> "none"] /\ moved = {}
  /\ proc = [k \in Instances |-> [pc |-> "none", for |-> 0, cbCache |-> <<>>]]
  /\ hosted = [k \in Instances |-> {}]
  /\ fate = "runs"

Alive == fate = "runs"
End(f) == fate' = f /\ UNCHANGED <<action, inForce, requests, replies, ctx, device, loaded, instance, moved, proc, hosted>>

-----------------------------------------------------------------------------
(* Pure parts.                                                             *)

\* compareEnumerationAttributes: the highest rank all of whose attributes are
\* in the device line and have the same value in the device.
Matches(r, d, line) ==
  \A a \in r.attrs : /\ a \in DOMAIN line.data /\ a \in DOMAIN EnumAttrs[d]
                     /\ line.data[a] = EnumAttrs[d][a]
compareEnumerationAttributes(d, line) ==
  FoldLeft(LAMBDA best, r : IF Matches(r, d, line) /\ best < r.rank THEN r.rank ELSE best, -1, Ranks[line.meta])

\* The scan of the index: a line that outranks the others clears the list, a
\* line that matches at all is put at its head (HeapList inserts there), and
\* the one at the head in the end is taken.
Scanned(d, best, line) ==
  LET rank == compareEnumerationAttributes(d, line)
  IN  CASE rank < 0 -> best
        [] rank > best.rank -> [rank |-> rank, lines |-> <<line.driver>>]
        [] OTHER -> [best EXCEPT !.lines = <<line.driver>> \o @]
Scan(d) == FoldLeft(LAMBDA best, line : Scanned(d, best, line), [rank |-> -1, lines |-> <<>>], IndexLines)
Detected(d) == IF Scan(d).lines = <<>> THEN NoDriver ELSE Head(Scan(d).lines)

\* The tables a driver is loaded with: the management metalanguage comes
\* first, whatever its index lines say.
Requirements(drv) == <<"udi_mgmt">> \o DriverInfo[drv].requires
Metalanguages(drv) == <<"udi_mgmt">> \o DriverInfo[drv].metas
ChildBops(drv) == <<"udi_mgmt">> \o DriverInfo[drv].childMetas

\* detectClasses: the classes of the child bops' metalanguages without
\* duplicates, or the class for drivers of no known class.
fillInClass(classes, c) == IF Contains(classes, c) THEN classes ELSE Append(classes, c)
detectClasses(drv) ==
  LET known == SelectSeq(ChildBops(drv), LAMBDA m : m \in DOMAIN ClassOf)
  IN  IF known = <<>> THEN <<"unrecognized">>
      ELSE FoldLeft(LAMBDA cs, m : fillInClass(cs, ClassOf[m]), <<>>, known)

\* __kindex_getMetaInfoFor, for every requirement and for udi_mgmt.
CanLoad(drv) == \A m \in Range(Requirements(drv)) :
                  m \in KernelMetas /\ (m # "udi_mgmt" => m \in Provisions)

LoadedDriver(drv) == [driver |-> drv, requirements |-> Requirements(drv), classes |-> detectClasses(drv),
                      metalanguages |-> Metalanguages(drv), childBops |-> ChildBops(drv)]

\* loadRequirementsReq.
RequirementsMet(drv) == Range(DriverInfo[drv].requires) \subseteq Provisions

generateMetaInfoCache(drv) ==
  Range(Requirements(drv)) \subseteq KernelMetas \intersect Range(Metalanguages(drv))

\* generateMetaCbCache: one entry for every control block of a metalanguage,
\* with the largest scratch space any of its cb_init lines asks for.
SameCb(a, b) == a.meta = b.meta /\ a.num = b.num
WithCb(cache, cb) == IF \E i \in DOMAIN cache : SameCb(cache[i], cb) THEN cache ELSE Append(cache, cb)
MaxScratch(e, cbs) ==
  FoldLeft(LAMBDA x, cb : IF SameCb(x, cb) /\ cb.scratch > x.scratch THEN [x EXCEPT !.scratch = cb.scratch] ELSE x, e, cbs)
generateMetaCbCache(drv) ==
  LET cbs == DriverInfo[drv].cbs
      entries == FoldLeft(WithCb, <<>>, cbs)
  IN  [i \in DOMAIN entries |-> MaxScratch(entries[i], cbs)]

-----------------------------------------------------------------------------
(* zuiFrontEnd.cpp: requests are sent to the indexer.                      *)

newDeviceIndRequest(d) ==
  /\ Alive /\ Len(ctx) < MaxInds
  /\ ctx' = Append(ctx, [dev |-> d, action |-> NOTHING, sent |-> 0, ok |-> FALSE])
  /\ requests' = Append(requests, [cmd |-> "newDevice", n |-> Len(ctx) + 1])
  /\ UNCHANGED <<action, inForce, replies, device, loaded, driverVars, hosted, fate>>

\* One change of the action.
setNewDeviceActionReq(a) ==
  /\ Alive /\ inForce = {action} /\ ~\E i \in DOMAIN requests : requests[i].cmd = "setAction"
  /\ a # action
  /\ requests' = Append(requests, [cmd |-> "setAction", a |-> a])
  /\ UNCHANGED <<action, inForce, replies, ctx, device, loaded, driverVars, hosted, fate>>

-----------------------------------------------------------------------------
(* zuiBackEnd.cpp: the requests.                                           *)

Serving(cmd) == Alive /\ requests # <<>> /\ Head(requests).cmd = cmd
Answer(n, ok) == ctx' = [ctx EXCEPT ![n].sent = @ + 1, ![n].ok = ok]
Reply(stage, n, ok) == replies' = replies \union {[stage |-> stage, n |-> n, ok |-> ok]}

newDeviceActionReq ==
  /\ Serving("setAction")
  /\ action' = Head(requests).a /\ inForce' = inForce \union {Head(requests).a}
  /\ requests' = Tail(requests)
  /\ UNCHANGED <<replies, ctx, device, loaded, driverVars, hosted, fate>>

newDeviceInd ==
  /\ Serving("newDevice")
  /\ LET n == Head(requests).n
     IN  IF action = NOTHING THEN Answer(n, TRUE) /\ requests' = Tail(requests)
         ELSE requests' = Append(Tail(requests), [cmd |-> "detectDriver", n |-> n]) /\ UNCHANGED ctx
  /\ UNCHANGED <<action, inForce, replies, device, loaded, driverVars, hosted, fate>>

\* The device takes the name of its driver; a device that has a driver
\* instance already must not come here.
detectDriverReq ==
  /\ Serving("detectDriver")
  /\ LET n == Head(requests).n
         d == ctx[n].dev
     IN  \/ /\ requests' = Tail(requests) /\ Reply(1, n, FALSE)
            /\ UNCHANGED <<action, inForce, ctx, device, loaded, driverVars, hosted, fate>>
         \/ IF device[d].driverInstance THEN End("panic")
            ELSE /\ device' = [device EXCEPT ![d].driver = Detected(d)]
                 /\ requests' = Tail(requests) /\ Reply(1, n, Detected(d) # NoDriver)
                 /\ UNCHANGED <<action, inForce, ctx, loaded, driverVars, hosted, fate>>

\* A driver that is in the list is not loaded again.
loadDriverReq ==
  /\ Serving("loadDriver")
  /\ LET n == Head(requests).n
         drv == device[ctx[n].dev].driver
         known == \E l \in loaded : l.driver = drv
     IN  \/ /\ known \/ (drv # NoDriver /\ CanLoad(drv))
            /\ Reply(2, n, TRUE)
            /\ loaded' = IF known THEN loaded ELSE loaded \union {LoadedDriver(drv)}
         \/ ~known /\ Reply(2, n, FALSE) /\ UNCHANGED loaded
  /\ requests' = Tail(requests)
  /\ UNCHANGED <<action, inForce, ctx, device, driverVars, hosted, fate>>

loadRequirementsReq ==
  /\ Serving("loadRequirements")
  /\ LET k == Head(requests).k
     IN  proc' = [proc EXCEPT ![k].pc = IF RequirementsMet(k[1]) THEN "main1" ELSE "failed"]
  /\ requests' = Tail(requests)
  /\ UNCHANGED <<action, inForce, replies, ctx, device, loaded, instance, moved, hosted, fate>>

-----------------------------------------------------------------------------
(* zuiBackEnd.cpp: the callbacks.                                          *)

Returns(stage, r) == Alive /\ r \in replies /\ r.stage = stage
Reached(n, a) == ctx' = [ctx EXCEPT ![n].action = a]
ReachedAndAnswered(n, a) == ctx' = [ctx EXCEPT ![n].action = a, ![n].sent = @ + 1, ![n].ok = TRUE]

newDeviceInd1(r) ==
  /\ Returns(1, r) /\ replies' = replies \ {r}
  /\ IF ~r.ok THEN Answer(r.n, FALSE) /\ UNCHANGED requests
     ELSE IF action = DETECT_DRIVER THEN ReachedAndAnswered(r.n, DETECT_DRIVER) /\ UNCHANGED requests
     ELSE Reached(r.n, DETECT_DRIVER) /\ requests' = Append(requests, [cmd |-> "loadDriver", n |-> r.n])
  /\ UNCHANGED <<action, inForce, device, loaded, driverVars, hosted, fate>>

\* ProcessTrib::spawnDriver.  A driver that has an instance in the bank is
\* left as it is, and its callback is never called.  Failures after
\* addInstance leave the instance in the array; a failure of the thread's
\* spawn leaves it in the device as well.  A second bank moves the array.
spawnDriver(n, d) ==
  LET k == Key(d)
      grown == {j \in Instances : j[1] = k[1] /\ instance[j] # "none"}
  IN  \/ Answer(n, FALSE) /\ UNCHANGED <<device, driverVars>>
      \/ /\ instance[k] = "live" /\ Reached(n, LOAD_DRIVER)
         /\ UNCHANGED <<device, driverVars>>
      \/ /\ instance[k] = "none" /\ moved' = moved \union grown
         /\ \/ /\ instance' = [instance EXCEPT ![k] = "orphan"]
               /\ Answer(n, FALSE) /\ UNCHANGED <<device, proc>>
            \/ /\ instance' = [instance EXCEPT ![k] = "orphan"]
               /\ device' = [device EXCEPT ![d].driverInstance = TRUE]
               /\ Answer(n, FALSE) /\ UNCHANGED proc
            \/ /\ instance' = [instance EXCEPT ![k] = "live"]
               /\ device' = [device EXCEPT ![d].driverInstance = TRUE]
               /\ proc' = [proc EXCEPT ![k].pc = "entry", ![k].for = n]
               /\ Reached(n, LOAD_DRIVER)

\* The process of an orphaned instance is not there to be looked at.
newDeviceInd2(r) ==
  /\ Returns(2, r)
  /\ LET d == ctx[r.n].dev
     IN  IF r.ok /\ action # LOAD_DRIVER /\ instance[Key(d)] = "orphan" THEN End("stray")
         ELSE /\ replies' = replies \ {r}
              /\ IF ~r.ok THEN Answer(r.n, FALSE) /\ UNCHANGED <<device, driverVars>>
                 ELSE IF action = LOAD_DRIVER THEN ReachedAndAnswered(r.n, LOAD_DRIVER) /\ UNCHANGED <<device, driverVars>>
                 ELSE spawnDriver(r.n, d)
              /\ UNCHANGED <<action, inForce, requests, loaded, hosted, fate>>

\* Zudi::instantiateDeviceReq through the device's driver instance.
newDeviceInd3(r) ==
  /\ Returns(3, r)
  /\ LET d == ctx[r.n].dev
         k == Key(d)
         on == r.ok /\ action # SPAWN_DRIVER
     IN  IF on /\ k \in moved THEN End("stray")
         ELSE /\ replies' = replies \ {r}
              /\ \/ ~r.ok /\ Answer(r.n, FALSE) /\ UNCHANGED <<hosted, device>>
                 \/ r.ok /\ ~on /\ ReachedAndAnswered(r.n, SPAWN_DRIVER) /\ UNCHANGED <<hosted, device>>
                 \/ /\ on /\ Reached(r.n, SPAWN_DRIVER)
                    /\ hosted' = [hosted EXCEPT ![k] = @ \union {d}]
                    /\ device' = [device EXCEPT ![d].up = TRUE]
                 \/ /\ on /\ UNCHANGED <<hosted, device>>
                    /\ ctx' = [ctx EXCEPT ![r.n].action = SPAWN_DRIVER, ![r.n].sent = @ + 1]
              /\ UNCHANGED <<action, inForce, requests, loaded, driverVars, fate>>

newDeviceInd4(r) ==
  /\ Returns(4, r) /\ replies' = replies \ {r}
  /\ IF r.ok THEN ReachedAndAnswered(r.n, INSTANTIATE) ELSE Answer(r.n, FALSE)
  /\ UNCHANGED <<action, inForce, requests, device, loaded, driverVars, hosted, fate>>

-----------------------------------------------------------------------------
(* The driver process.                                                     *)

\* sendResponse, then the thread is killed or made dormant.
SpawnFails(k) == proc' = [proc EXCEPT ![k].pc = "dead"] /\ Reply(3, proc[k].for, FALSE) /\ UNCHANGED requests

commonEntry(k) ==
  /\ Alive /\ proc[k].pc = "entry"
  /\ \/ SpawnFails(k)
     \/ proc' = [proc EXCEPT ![k].pc = "main"] /\ UNCHANGED zuiVars
  /\ UNCHANGED <<action, inForce, ctx, device, loaded, instance, moved, hosted, fate>>

driverMain(k) ==
  /\ Alive /\ proc[k].pc = "main"
  /\ IF k \in moved THEN End("stray")
     ELSE /\ \/ SpawnFails(k)
             \/ /\ generateMetaInfoCache(k[1])
                /\ proc' = [proc EXCEPT ![k].pc = "waits", ![k].cbCache = generateMetaCbCache(k[1])]
                /\ requests' = Append(requests, [cmd |-> "loadRequirements", k |-> k])
                /\ UNCHANGED replies
          /\ UNCHANGED <<action, inForce, ctx, device, loaded, instance, moved, hosted, fate>>

\* driver::main1 and driverMain1.
driverMain1(k) ==
  /\ Alive /\ proc[k].pc \in {"main1", "failed"}
  /\ IF k \in moved THEN End("stray")
     ELSE /\ \/ SpawnFails(k)
             \/ /\ proc[k].pc = "main1" /\ DriverInfo[k[1]].nInternalBops = DriverInfo[k[1]].nRegions - 1
                /\ proc' = [proc EXCEPT ![k].pc = "runs"]
                /\ Reply(3, proc[k].for, TRUE) /\ UNCHANGED requests
          /\ UNCHANGED <<action, inForce, ctx, device, loaded, instance, moved, hosted, fate>>

\* What RegionStart ends with.
instantiateDeviceAck(n) ==
  LET d == ctx[n].dev
      k == Key(d)
  IN  /\ Alive /\ ctx[n].action = SPAWN_DRIVER /\ ctx[n].sent = 0 /\ device[d].up
      /\ proc[k].pc = "runs" /\ ~\E r \in replies : r.n = n
      /\ \/ Reply(4, n, TRUE) /\ UNCHANGED <<device, hosted>>
         \/ /\ Reply(4, n, FALSE)
            /\ device' = [device EXCEPT ![d].up = FALSE] /\ hosted' = [hosted EXCEPT ![k] = @ \ {d}]
      /\ UNCHANGED <<action, inForce, requests, ctx, loaded, driverVars, fate>>

Next ==
  \/ \E d \in Devices : newDeviceIndRequest(d)
  \/ \E a \in NOTHING .. INSTANTIATE : setNewDeviceActionReq(a)
  \/ newDeviceActionReq \/ newDeviceInd \/ detectDriverReq \/ loadDriverReq \/ loadRequirementsReq
  \/ \E r \in replies : newDeviceInd1(r) \/ newDeviceInd2(r) \/ newDeviceInd3(r) \/ newDeviceInd4(r)
  \/ \E k \in Instances : commonEntry(k) \/ driverMain(k) \/ driverMain1(k)
  \/ \E n \in Ids : instantiateDeviceAck(n)

Spec == Init /\ [][Next]_newVars

-----------------------------------------------------------------------------
(* Properties.                                                             *)

\* The ranks a line has for a device, the drivers of lines with any, and
\* those of the lines no other line outranks.
RanksOf(d, line) == {r.rank : r \in {x \in Range(Ranks[line.meta]) : Matches(x, d, line)}}
MatchingDrivers(d) == {l.driver : l \in {x \in Range(IndexLines) : RanksOf(d, x) # {}}}
\* The indication came to a driver process that another one had spawned.
Joined(n) == ctx[n].action = LOAD_DRIVER /\ proc[Key(ctx[n].dev)].for \in Ids \ {n}

IndexerIdle == /\ Alive /\ requests = <<>> /\ replies = {}
               /\ \A k \in Instances : proc[k].pc \in {"none", "dead", "runs"}
               /\ \A n \in Ids : ~(ctx[n].action = SPAWN_DRIVER /\ ctx[n].sent = 0)

\* An indication of a new device is answered once, with an action that says
\* how far the device really is: the driver found matches the device, it is
\* in the list, its process has finished starting, the device is
\* hosted and has its instance.  The pipeline stops only at an action that
\* was in force.  When the indexer is idle every indication has its answer,
\* but one that found a driver process already there.  A stale pointer is
\* used only after the instance array of the driver moved or kept the entry
\* of a failed spawn; the panic needs a device announced twice.
NewDeviceAnswered ==
  /\ \A n \in Ids :
       LET c == ctx[n]
           done == c.sent = 1 /\ c.ok
       IN  /\ c.sent <= 1
           /\ done => c.action \in inForce \union {INSTANTIATE}
           /\ c.action >= DETECT_DRIVER => device[c.dev].driver \in MatchingDrivers(c.dev)
           /\ c.action >= LOAD_DRIVER => \E l \in loaded : l.driver = device[c.dev].driver
           /\ c.action >= SPAWN_DRIVER => proc[Key(c.dev)].pc = "runs" /\ device[c.dev].driverInstance
           /\ (done /\ c.action = INSTANTIATE) => device[c.dev].up /\ c.dev \in hosted[Key(c.dev)]
           /\ IndexerIdle => (c.sent = 1 \/ Joined(n))
  /\ fate = "stray" => \E k \in Instances : k \in moved \/ instance[k] = "orphan"
  /\ fate = "panic" => \E n, m \in Ids : n # m /\ ctx[n].dev = ctx[m].dev

\* What a loaded driver and a driver process hold: its classes are those of
\* its child bops, each once, the management metalanguage is at index 0 of its
\* tables, and the control block cache has the one entry
\* for every block and room for the most any line asks for.
DriversDescribed ==
  /\ \A l \in loaded :
       LET known == {ClassOf[m] : m \in Range(DriverInfo[l.driver].childMetas) \intersect DOMAIN ClassOf}
       IN  /\ Range(l.classes) = IF known = {} THEN {"unrecognized"} ELSE known
           /\ Len(l.classes) = Cardinality(Range(l.classes))
           /\ \A t \in {l.requirements, l.metalanguages, l.childBops} : Head(t) = "udi_mgmt"
  /\ \A k \in Instances : proc[k].pc \in {"waits", "main1", "runs"} =>
       LET cache == proc[k].cbCache
           cbs == Range(DriverInfo[k[1]].cbs)
       IN  /\ \A cb \in cbs : \E i \in DOMAIN cache : SameCb(cache[i], cb) /\ cache[i].scratch >= cb.scratch
           /\ \A i, j \in DOMAIN cache : SameCb(cache[i], cache[j]) => i = j
           /\ Range(cache) \subseteq cbs
=============================================================================
