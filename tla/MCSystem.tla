------------------------------ MODULE MCSystem ------------------------------
(***************************************************************************)
(* Parts of the system that run beside the scheduler and the memory        *)
(* manager, one in each behaviour:                                         *)
(*                                                                         *)
(*   flush   translation flushes between two CPUs (InterCpuMessager)       *)
(*   boot    the boot of up to four CPUs (CpuTrib)                         *)
(*   bios    a call of a BIOS service (X86Emu), or one computation of      *)
(*           prim_ops.c, compared with what X86Reference says              *)
(*   device  the bring-up of devices, one stage of it:                     *)
(*     index   what the indexer does with a new device (NewDevice)         *)
(*     start   the threads of a device instance (RegionStart)              *)
(*     manage  the management agent (Zum)                                  *)
(*     async   requests between processes (ZAsync)                         *)
(*     channel the channels that regions spawn (Channels)                  *)
(*     call    control blocks that cross a channel (ControlBlocks)         *)
(*     spawn   ids of processes and threads (Spawning)                     *)
(***************************************************************************)
EXTENDS InterCpuMessager, FiniteSets, TLC

CONSTANT x86emu_optab(_, _)     \* Optab

VARIABLES
  part,
  bootMap, bsp, highestCpuId, bootPhase, bootEntry, cpuStreams, bankCpus, bootAvailable, onlineCpus,
  powerStatus, ap, events, cs, seen, verdicts, lost,
  m, phase, run, entry, before, tame, case,
  stage,
  action, inForce, requests, replies, ctx, device, loaded, instance, moved, proc, hosted, fate,
  main, mainQ, reg, regQ, inst, parentCh, ctxt, acks, outcome,
  plan, asked, queues, zumCtxt, answers, connected, mgmtContext, regionQs, held, currDevIdx, posted,
  children, overlapped, missed, unsent,
  budget, listens, connectionless, conns, call, queue, requested, nConnects, nFaults, transfers, header,
  messages, handles, lent, mapped, spoilt, hung,
  ends, incs, ctxts, chanCall, last, nCalls, end,
  cblk, wire, hop, verdict,
  kind, arr, nextVal, round, objs, nThreads, nSpawns, spawn

bootVars == <<bootMap, bsp, highestCpuId, bootPhase, bootEntry, cpuStreams, bankCpus, bootAvailable, onlineCpus,
              powerStatus, ap, events, cs, seen, verdicts, lost>>
emuVars == <<m, phase, run, entry, before, tame>>
biosVars == <<emuVars, case>>
indexVars == <<action, inForce, requests, replies, ctx, device, loaded, instance, moved, proc, hosted, fate>>
startVars == <<main, mainQ, reg, regQ, inst, parentCh, ctxt, acks, outcome>>
manageVars == <<plan, asked, queues, zumCtxt, answers, connected, mgmtContext, regionQs, held, currDevIdx,
                posted, children, overlapped, missed, unsent>>
asyncVars == <<budget, listens, connectionless, conns, call, queue, requested, nConnects, nFaults, transfers,
               header, messages, handles, lent, mapped, spoilt, hung>>
channelVars == <<ends, incs, ctxts, chanCall, last, nCalls, end>>
callVars == <<cblk, wire, hop, verdict>>
spawnVars == <<kind, arr, nextVal, round, objs, nThreads, nSpawns, spawn>>
deviceVars == <<stage, indexVars, startVars, manageVars, asyncVars, channelVars, callVars, spawnVars>>
allVars == <<part, vars, bootVars, biosVars, deviceVars>>

-----------------------------------------------------------------------------
(* The boot: CPU 0 boots, 1 has the older LAPIC, 3 is beyond the limit.    *)

BootMaps == {[numa |-> n, smp |-> s] : n \in {<<>>, <<0, 1>>, <<1, 2>>},
                                       s \in {<<>>, <<0, 1, 2>>, <<2, 3>>}}

Boot == INSTANCE CpuTrib WITH
          Maps <- BootMaps, BankOf <- [c \in 0 .. 3 |-> c % 2], ShBank <- 31, bspCpuId <- 0,
          MaxNCpus <- 3, OldLapic <- {1}, Faults <- TRUE,
          map <- bootMap, phase <- bootPhase, entry <- bootEntry, availableCpus <- bootAvailable

-----------------------------------------------------------------------------
(* The emulator: bytes of six bits and programs of two instructions.       *)

Image(a) == (a * 5 + 3) % 64

Op(n) == [op |-> n, op2 |-> 0, mod |-> 3, rh |-> 0, rl |-> 0, base |-> 0, index |-> 4,
          scale |-> 0, disp |-> 2, imm |-> 5, imm2 |-> 1, port |-> 3]
Op2(n) == [Op(15) EXCEPT !.op2 = n]

\* A prefix or none, a carry, a direction, or a comparison with a number.
First ==
  {Op(n) : n \in {144, 102, 103, 38, 242, 243, 249, 253}} \cup
  {[Op(n) EXCEPT !.imm = v] : n \in {60, 61}, v \in {0, 5, 31, 32}}

\* Operands: two registers and four places in memory.
Places == {<<3, 2>>, <<3, 6>>, <<0, 4>>, <<0, 6>>, <<1, 2>>, <<2, 4>>}
With(i, fields) ==
  {[i EXCEPT !.mod = p[1], !.rl = p[2], !.rh = n] : p \in Places, n \in fields}

Segment == {140, 142}
Grouped == (128 .. 131) \cup {143, 192, 193, 198, 199, 208, 209, 210, 211, 246, 247, 254, 255}
Modrm == {n \in 0 .. 63 : n % 8 < 4} \cup {98, 99, 105, 107} \cup (132 .. 139) \cup
         {141, 196, 197} \cup (216 .. 223)
Modrm2 == (144 .. 159) \cup {163, 164, 165, 171, 172, 173, 175} \cup (178 .. 183) \cup (187 .. 191)

\* Every opcode, with the operands it has.
Second ==
  {Op(n) : n \in (0 .. 255) \ (Segment \cup Grouped \cup Modrm \cup {15})} \cup
  UNION {With(Op(n), {0, 3}) : n \in Segment} \cup
  UNION {With(Op(n), 0 .. 7) : n \in Grouped} \cup
  With([Op(131) EXCEPT !.imm = 61], 0 .. 7) \cup
  UNION {With(Op(n), {1, 6}) : n \in Modrm} \cup
  {Op2(n) : n \in (0 .. 255) \ (Modrm2 \cup {186})} \cup
  UNION {With(Op2(n), {1, 6}) : n \in Modrm2} \cup
  With(Op2(186), 0 .. 7)

Starts == {
  [r |-> 0 :> 35 @@ 1 :> 2 @@ 2 :> 77 @@ 3 :> 130 @@ 4 :> 0 @@ 5 :> 31 @@ 6 :> 40 @@ 7 :> 50,
   f |-> {"IF", "SF"},
   seg |-> [ES |-> 7, CS |-> 0, SS |-> 0, DS |-> 9, FS |-> 1, GS |-> 2]],
  [r |-> 0 :> 16773183 @@ 1 :> 1 @@ 2 :> 0 @@ 3 :> 4000 @@ 4 :> 0 @@ 5 :> 4095 @@ 6 :> 3 @@ 7 :> 6,
   f |-> {"CF"},
   seg |-> [ES |-> 0, CS |-> 0, SS |-> 0, DS |-> 3, FS |-> 1, GS |-> 2]]}

E == INSTANCE X86Emu WITH
       B <- 6, Radix <- 6, Services <- {16}, HltAt <- 1280, StackTop <- 2000, MaxSteps <- 8

\* The handlers of the emulator.
Optab(x, i) == E!optab(x, i)

-----------------------------------------------------------------------------
(* The computations of prim_ops.c: bytes of four bits for the arithmetic,  *)
(* the logic and the shifts, of three for products and quotients, of eight *)
(* for decimal numbers.                                                    *)

A4 == INSTANCE X86Reference WITH B <- 4, Radix <- 3
M3 == INSTANCE X86Reference WITH B <- 3, Radix <- 2
D8 == INSTANCE X86Reference WITH B <- 8, Radix <- 10

Widths == {"byte", "word", "long"}
FlagSets == {{}, {"CF", "ZF"}, {"AF", "OF", "SF", "PF", "DF"},
             {"CF", "PF", "AF", "ZF", "SF", "TF", "IF", "DF", "OF"}}

\* All bytes, and the words and longs about the edges.
Fours == [byte |-> 0 .. 15,
          word |-> {0, 1, 2, 3, 7, 8, 15, 16, 85, 127, 128, 129, 170, 240, 254, 255},
          long |-> {0, 1, 255, 256, 257, 4096, 21845, 32767, 32768, 32769, 65280, 65534, 65535}]
Threes == [byte |-> 0 .. 7,
           word |-> {0, 1, 2, 7, 8, 9, 31, 32, 33, 62, 63},
           long |-> {0, 1, 2, 63, 64, 65, 511, 512, 1023, 1024, 2047, 2048, 2049, 4094, 4095}]

Binary == {"add", "adc", "sub", "sbb", "cmp", "inc", "dec", "neg", "and", "or", "xor", "not", "test"}
Shifts == {"rol", "ror", "rcl", "rcr", "shl", "shr", "sar"}

Take(k, op, w, d, s, t) ==
  \E f \in FlagSets :
    case' = [kind |-> k, of |-> [op |-> op, w |-> w, d |-> d, s |-> s, t |-> t, f |-> f]]

Arith == \E op \in Binary, w \in Widths : \E d, s \in Fours[w] : Take("A4", op, w, d, s, 0)
Shift == \E op \in Shifts, w \in Widths : \E d \in Fours[w], s \in 0 .. 15 : Take("A4", op, w, d, s, 0)
Double ==
  \E op \in {"shld", "shrd"}, w \in {"word", "long"} : \E d, t \in Fours[w], s \in 0 .. 15 :
    Take("A4", op, w, d, s, t)
Multiply == \E op \in {"mul", "imul"}, w \in Widths : \E d, s \in Threes[w] : Take("M3", op, w, d, s, 0)
Divide ==
  \E op \in {"div", "idiv"}, w \in Widths : \E d, s, t \in Threes[w] : Take("M3", op, w, d, s, t)
Packed == \E op \in {"daa", "das"} : \E d, s \in D8!Packed : Take("D8", op, "byte", d, s, 0)
Unpacked ==
  \E op \in {"aaa", "aas"}, t \in {0, 9, 255} : \E d, s \in 0 .. 9 : Take("D8", op, "byte", d, s, t)
Split == \E d \in 0 .. 99 : Take("D8", "aam", "byte", d, 0, 0)

Compute == Arith \/ Shift \/ Double \/ Multiply \/ Divide \/ Packed \/ Unpacked \/ Split

-----------------------------------------------------------------------------
(* The bring-up of devices.  For the indexer, d1 and d2 are matched by     *)
(* several lines of the index, d3 by one of a driver that cannot start, d4 *)
(* by none; d2 is on a bank of its own.                                    *)

Lines == <<[driver |-> "a", meta |-> "bridge", data |-> [bus |-> 1]],
           [driver |-> "b", meta |-> "bridge", data |-> [bus |-> 1, id |-> 7]],
           [driver |-> "a", meta |-> "bridge", data |-> [bus |-> 1, id |-> 8]],
           [driver |-> "b", meta |-> "bridge", data |-> [bus |-> 3]]>>

Info == [a |-> [requires |-> <<"bridge">>, metas |-> <<"bridge">>, childMetas |-> <<"bridge", "bridge2">>,
                cbs |-> <<[meta |-> 1, num |-> 1, scratch |-> 4], [meta |-> 1, num |-> 2, scratch |-> 1],
                          [meta |-> 1, num |-> 1, scratch |-> 9]>>,
                nRegions |-> 2, nInternalBops |-> 1],
         b |-> [requires |-> <<>>, metas |-> <<>>, childMetas |-> <<>>, cbs |-> <<>>,
                nRegions |-> 2, nInternalBops |-> 0]]

Index == INSTANCE NewDevice WITH
  Devices <- {"d1", "d2", "d3", "d4"},
  EnumAttrs <- [d1 |-> [bus |-> 1, id |-> 7], d2 |-> [bus |-> 1, id |-> 8], d3 |-> [bus |-> 3],
                d4 |-> [bus |-> 2]],
  BankOf <- [d1 |-> 0, d2 |-> 1, d3 |-> 0, d4 |-> 0],
  IndexLines <- Lines,
  Ranks <- [bridge |-> <<[attrs |-> {"bus"}, rank |-> 1], [attrs |-> {"bus", "id"}, rank |-> 5]>>],
  DriverInfo <- Info, KernelMetas <- {"udi_mgmt", "bridge"}, Provisions <- {"bridge"},
  ClassOf <- [bridge |-> "bus", bridge2 |-> "bus"], MaxInds <- 2

\* Three regions; the parent tags are handled by regions 1 and 0.
Start == INSTANCE RegionStart WITH NRegions <- 3, TagRegion <- <<1, 0>>

\* A device with every kind of channel; the root device, with none; one that
\* two clients enumerate, and one with which two leave a block.
Plan(clients, faults, internal, parents) ==
  [clients |-> clients, faults |-> faults, internal |-> internal, parents |-> parents]

Manage == INSTANCE Zum WITH
  ctxt <- zumCtxt, MgmtRegion <- 0, NDevs <- 2, MaxChildren <- 3,
  Requests <- {"s", "d", "c", "e", "f", "p", "q"},
  OpOf <- [s |-> "start", d |-> "devmgmt", c |-> "final_cleanup", e |-> "enumerate_children", f |-> "enumerate_children",
           p |-> "post_management_cb", q |-> "post_management_cb"],
  ChannelRegion <- [i1 |-> 1, i2 |-> 2, p1 |-> 0, p2 |-> 1],
  Plans <- {Plan({"s", "d"}, 1, <<"i1", "i2">>, <<"p1", "p2">>), Plan({"s", "e"}, 1, <<"i1">>, <<>>),
            Plan({"s", "c"}, 1, <<>>, <<>>),
            Plan({"s", "e", "f"}, 0, <<>>, <<>>), Plan({"s", "p", "q"}, 1, <<>>, <<>>)}

\* p shares the kernel's address space, q does not; a transfer that crosses
\* a page of four bytes.
Budget(t, c, f) == [transfers |-> t, connects |-> c, faults |-> f]
Async == INSTANCE ZAsync WITH
  Procs <- {"p", "q"}, SameSpace <- {"p"}, Addresses <- {1, 2},
  Shapes <- {[offset |-> 3, size |-> 2]}, Page <- 4,
  Budgets <- {Budget(2, 0, 1), Budget(0, 2, 1), Budget(1, 1, 0)}

\* An internal bind channel between two regions, and the management channel.
Channel == INSTANCE Channels WITH
  call <- chanCall, Regions <- {"r0", "r1"}, SpawnIndexes <- {1}, Ops <- {"o"}, MaxCalls <- 3,
  Bound <- <<[ends |-> <<"r0", "r1">>, mgmt |-> FALSE], [ends |-> <<"r0", "kernel">>, mgmt |-> TRUE]>>

\* The blocks of udi_mgmt's usage and enumerate operations; every kind of
\* pointer, in structures with and without arrays; inline layouts that are
\* used, unused and missing; arguments that cannot be marshalled.
CallOf(visible, req, ack, inline) == [visible |-> visible, marshal |-> <<req, ack>>, inline |-> inline]
Call == INSTANCE ControlBlocks WITH
  MaxHops <- 2, Sizes <- {3, 8},
  Calls <- {CallOf(<<5, 20, 0>>, <<1, 0>>, <<0>>, <<>>),
            CallOf(<<5, 42, 44, 1, 44, 1, 1, 0>>, <<1, 0>>, <<1, 20, 0>>, <<>>),
            CallOf(<<1, 50, 3, 5, 0, 51, 1, 0, 30, 0>>, <<3, 1, 5, 0>>, <<1, 3, 0>>, <<>>),
            CallOf(<<3, 52, 3, 1, 0, 5, 44, 0>>, <<40, 1, 1, 1, 1, 0>>, <<52, 2, 1, 0, 0>>, <<>>),
            CallOf(<<1, 43, 0>>, <<1, 0>>, <<0>>, <<5, 3, 0>>), CallOf(<<1, 44, 0>>, <<1, 0>>, <<0>>, <<1, 0>>),
            CallOf(<<1, 43, 0>>, <<1, 0>>, <<0>>, <<>>), CallOf(<<1, 44, 0>>, <<52, 2, 44, 0, 0>>, <<0>>, <<>>),
            CallOf(<<1, 0>>, <<52, 3, 1, 0, 0>>, <<0>>, <<>>)}

\* Two ids, so that the counter comes round.
Request(affinity, pinherit, policy, flag, prio, dormant) ==
  [affinity |-> affinity, pinherit |-> pinherit, policy |-> policy, prioFlag |-> flag, prio |-> prio,
   dormant |-> dormant]
Ids == INSTANCE Spawning WITH
  Spawners <- {"a", "b"}, Parent <- {0, 1}, StartVal <- 2, MaxVal <- 3, MaxSpawns <- 4,
  AttrOf <- [a |-> [affinity |-> {0}, policy |-> "ROUND_ROBIN", prio |-> 5],
             b |-> [affinity |-> {1}, policy |-> "REAL_TIME", prio |-> 2]],
  Classes <- [c \in 0 .. 2 |-> 10 * c], DefaultClass <- 1,
  Requests <- {Request({}, FALSE, "INVALID", "STINHERIT", 0, FALSE),
               Request({1}, FALSE, "ROUND_ROBIN", "SET", 7, TRUE),
               Request({}, TRUE, "INVALID", "PRIOCLASS_SET", 2, FALSE),
               Request({}, TRUE, "INVALID", "PRIOCLASS_SET", 3, FALSE)}

-----------------------------------------------------------------------------
(* The parts and stages that are not run stand at one initial state.       *)

Nothing == [kind |-> "none"]

BiosIdle == m = 0 /\ phase = "none" /\ run = <<>> /\ entry = 0 /\ before = 0 /\ tame = TRUE

BiosInit == case = Nothing /\ (E!Init \/ BiosIdle)

\* A call of a BIOS service, or one computation.
BiosNext == \/ phase # "none" /\ E!Next /\ UNCHANGED case
            \/ phase = "none" /\ case = Nothing /\ Compute /\ UNCHANGED emuVars

DeviceInit ==
  /\ stage \in {"index", "start", "manage", "async", "channel", "call", "spawn", "none"}
  /\ Index!Init /\ Start!Init /\ Channel!Init /\ Call!Init
  /\ Ids!Init /\ (stage # "spawn" => kind = "process")
  /\ Manage!Init /\ (stage # "manage" => plan = Plan({"s", "d"}, 1, <<"i1", "i2">>, <<"p1", "p2">>))
  /\ Async!Init /\ (stage # "async" => budget = Budget(1, 1, 0))

DeviceNext ==
  \/ /\ stage = "index" /\ Index!Next
     /\ UNCHANGED <<stage, startVars, manageVars, asyncVars, channelVars, callVars, spawnVars>>
  \/ /\ stage = "start" /\ Start!Next
     /\ UNCHANGED <<stage, indexVars, manageVars, asyncVars, channelVars, callVars, spawnVars>>
  \/ /\ stage = "manage" /\ Manage!Next
     /\ UNCHANGED <<stage, indexVars, startVars, asyncVars, channelVars, callVars, spawnVars>>
  \/ /\ stage = "async" /\ Async!Next
     /\ UNCHANGED <<stage, indexVars, startVars, manageVars, channelVars, callVars, spawnVars>>
  \/ /\ stage = "channel" /\ Channel!Next
     /\ UNCHANGED <<stage, indexVars, startVars, manageVars, asyncVars, callVars, spawnVars>>
  \/ /\ stage = "call" /\ Call!Next
     /\ UNCHANGED <<stage, indexVars, startVars, manageVars, asyncVars, channelVars, spawnVars>>
  \/ /\ stage = "spawn" /\ Ids!Next
     /\ UNCHANGED <<stage, indexVars, startVars, manageVars, asyncVars, channelVars, callVars>>

MCInit ==
  /\ part \in {"flush", "boot", "bios", "device"}
  /\ Init
  /\ Boot!Init /\ (part # "boot" => bootMap = [numa |-> <<>>, smp |-> <<>>])
  /\ BiosInit /\ (part # "bios" => phase = "none")
  /\ DeviceInit /\ (part = "device" <=> stage # "none")

OfFlush(A) == part = "flush" /\ A /\ UNCHANGED <<part, bootVars, biosVars, deviceVars>>
OfBoot(A) == part = "boot" /\ A /\ UNCHANGED <<part, vars, biosVars, deviceVars>>
OfBios(A) == part = "bios" /\ A /\ UNCHANGED <<part, vars, bootVars, deviceVars>>
OfDevices(A) == part = "device" /\ A /\ UNCHANGED <<part, vars, bootVars, biosVars>>

MCNext == OfFlush(Next) \/ OfBoot(Boot!Next) \/ OfBios(BiosNext) \/ OfDevices(DeviceNext)

MCSpec == MCInit /\ [][MCNext]_allVars

-----------------------------------------------------------------------------
(* The properties are stated, with their comments, in the modules; each is *)
(* about the behaviours of its part.                                       *)

\* CpuTrib: every CPU of the maps is waited for, ends up running or failed,
\* and is listed where it belongs.
CpusBooted == part = "boot" => Boot!BootAccounted /\ Boot!CpusListed

\* X86Reference: the result and the flags of every primitive of prim_ops.c are
\* the ones of the processor, but for the departures X86Reference lists.
PrimMatches ==
  part = "bios" =>
    CASE case.kind = "A4" -> A4!Agrees(case.of)
      [] case.kind = "M3" -> M3!Agrees(case.of)
      [] case.kind = "D8" -> D8!Agrees(case.of)
      [] OTHER -> TRUE

Serving == part = "bios" /\ phase # "none"

\* X86Emu: a service returns to the kernel.
ServiceReturns == Serving => E!ServiceReturns

\* X86Emu: no instruction runs under the prefix of another one, the handlers in
\* the tables do what the fields of the opcodes say, and conditions are the
\* relations of the operands compared.
InstructionsMatch == Serving => E!PrefixesConsumed /\ E!FieldsDecide /\ E!BranchesCompare

\* NewDevice: an indication is answered once, with the stage reached, by a
\* driver that matches the device and whose caches describe it.
\* RegionStart: a device is started as a whole or reported as not started.
DeviceBroughtUp ==
  /\ stage = "index" => Index!NewDeviceAnswered /\ Index!DriversDescribed
  /\ stage = "start" => Start!DeviceStarted

\* Zum: the agent answers every request once, keeps account of the channels
\* it binds and reports the children it creates.
DeviceManaged == stage = "manage" => Manage!RequestsAnswered /\ Manage!ChildrenReported

\* ZAsync: handles, mappings and connections of the processes fit together.
TransfersSound == stage = "async" => Async!HandlesSound /\ Async!ConnectionsMutual


=============================================================================
