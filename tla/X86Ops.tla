------------------------------ MODULE X86Ops ------------------------------
(***************************************************************************)
(* The emulated machine and the decoding of operands (decode.c, and the    *)
(* stack primitives of prim_ops.c).  A machine m is the structure M.x86 of *)
(* the code with the memory behind it:                                     *)
(*                                                                         *)
(*   r      the general registers by number, EAX ECX EDX EBX ESP EBP ESI   *)
(*          EDI;  seg the segment registers;  ip the word R_IP             *)
(*   f      the flags that are on                                          *)
(*   mem    the bytes that were written; the others are those of Image     *)
(*   mode   the prefixes and the implied stack segment of the instruction  *)
(*   intr   "SYNCH" and "HALTED";  intno the interrupt raised              *)
(*   tsc    the counter of RDTSC;  out what was sent to the I/O ports      *)
(*                                                                         *)
(* An instruction i is a record of the fields of its encoding, so that the *)
(* bytes of the code are not in the memory: fetching one advances ip.      *)
(*                                                                         *)
(* The one byte instructions of the emulator (ops.c): one definition for   *)
(* each handler, named as in the code.  A handler takes the machine m once *)
(* the opcode was fetched and the fields i of the instruction, and yields  *)
(* the machine that the handler leaves.  The four branches of the code on  *)
(* the addressing mode, and its two on the data size prefix, are those of  *)
(* Operand and WL; every handler but the prefixes ends by forgetting the   *)
(* prefixes (DECODE_CLEAR_SEGOVR).                                         *)
(***************************************************************************)
EXTENDS X86Prim, Sequences, SequencesExt

CONSTANT Image(_)               \* the memory of the firmware

EAX == 0
ECX == 1
EDX == 2
EBX == 3
ESP == 4
EBP == 5
ESI == 6
EDI == 7

SegNames == <<"ES", "CS", "SS", "DS", "FS", "GS">>
OverrideOf == [SEGOVR_ES |-> "ES", SEGOVR_CS |-> "CS", SEGOVR_SS |-> "SS",
               SEGOVR_DS |-> "DS", SEGOVR_FS |-> "FS", SEGOVR_GS |-> "GS"]
SEGOVR == DOMAIN OverrideOf
PREFIX_REP == {"PREFIX_REPE", "PREFIX_REPNE"}
CLRMASK == SEGOVR \cup {"SEG_DS_SS", "PREFIX_DATA", "PREFIX_ADDR"}

DECODE_CLEAR_SEGOVR(m) == [m EXCEPT !.mode = @ \ CLRMASK]
HALT_SYS(m) == [m EXCEPT !.intr = @ \cup {"HALTED"}]
x86emu_intr_raise(m, n) == [m EXCEPT !.intno = n, !.intr = @ \cup {"SYNCH"}]

\* fetch_byte_imm, fetch_word_imm and fetch_long_imm: the instruction pointer
\* passes a field of width w.
Fetch(m, w) == [m EXCEPT !.ip = (@ + Size(w)) % Mod("word")]

fetch_decode_modrm(m) == Fetch(m, "byte")

\* The width of an instruction on words: a long under the data size prefix.
WL(m) == IF "PREFIX_DATA" \in m.mode THEN "long" ELSE "word"

-----------------------------------------------------------------------------
(* Registers.                                                              *)

Sext(w, x) == Signed("byte", x) % Mod(w)

LowPart(x, w) == x % Mod(w)
WithLow(x, w, v) == x - (x % Mod(w)) + v

DECODE_RM_BYTE_REGISTER(m, n) == (m.r[n % 4] \div (IF n < 4 THEN 1 ELSE 2 ^ B)) % 2 ^ B
DECODE_RM_WORD_REGISTER(m, n) == LowPart(m.r[n], "word")
DECODE_RM_LONG_REGISTER(m, n) == m.r[n]
decode_rm_seg_register(n) == SegNames[n + 1]

Reg(m, w, n) ==
    CASE w = "byte" -> DECODE_RM_BYTE_REGISTER(m, n)
      [] w = "word" -> DECODE_RM_WORD_REGISTER(m, n)
      [] w = "long" -> DECODE_RM_LONG_REGISTER(m, n)

\* A part of a register is written and the rest of it stays.
SetReg(m, w, n, v) ==
    LET old == m.r[n % 4]
        high == (old - ((old \div 2 ^ B) % 2 ^ B) * 2 ^ B) + v * 2 ^ B
    IN  CASE w = "byte" /\ n < 4 -> [m EXCEPT !.r[n] = WithLow(@, "byte", v)]
          [] w = "byte" /\ n >= 4 -> [m EXCEPT !.r[n % 4] = high]
          [] w = "word" -> [m EXCEPT !.r[n] = WithLow(@, "word", v)]
          [] w = "long" -> [m EXCEPT !.r[n] = v]

Add(m, w, n, d) == SetReg(m, w, n, (Reg(m, w, n) + d) % Mod(w))

\* The flags as a word, packed for small bytes: the arithmetic ones are in the
\* low byte but for OF, and a bit of that byte is always on.
FlagBit == [x \in Flags |->
              CASE x = "CF" -> 0 [] x = "PF" -> 1 [] x = "AF" -> 2
                [] x = "ZF" -> 3 [] x = "SF" -> 4 [] x = "TF" -> B
                [] x = "IF" -> B + 1 [] x = "DF" -> B + 2 [] x = "OF" -> B + 3]
F_ALWAYS_ON == 2 ^ (B - 1)

Weigh(x, acc) == acc + 2 ^ FlagBit[x]
FlagWord(f) == FoldSet(Weigh, 0, f)
FlagsOf(v) == {x \in Flags : Bit(v, FlagBit[x])}

-----------------------------------------------------------------------------
(* Memory.                                                                 *)

Cell(m, a) == IF a \in DOMAIN m.mem THEN m.mem[a] ELSE Image(a)

\* sys_rdb, sys_rdw and sys_rdl, sys_wrb, sys_wrw and sys_wrl.
Rd(m, w, a) ==
    LET c(k) == Cell(m, a + k) * 2 ^ (B * k)
    IN  CASE w = "byte" -> c(0)
          [] w = "word" -> c(0) + c(1)
          [] w = "long" -> c(0) + c(1) + c(2) + c(3)

Wr(m, w, a, v) ==
    [m EXCEPT !.mem = [x \in a..(a + Size(w) - 1) |-> (v \div 2 ^ (B * (x - a))) % 2 ^ B] @@ @]

Linear(seg, offset) == (seg * 2 ^ Nibble + offset) % Mod("long")

fetch_data_abs(m, w, seg, offset) == Rd(m, w, Linear(m.seg[seg], offset))
store_data_abs(m, w, seg, offset, v) == Wr(m, w, Linear(m.seg[seg], offset), v)

Overrides(m) == m.mode \cap SEGOVR

\* An override wins over the implied stack segment; several of them halt the
\* machine, and segment 0 is used.
DataSegment(m) ==
    CASE Cardinality(Overrides(m)) > 1 -> 0
      [] Cardinality(Overrides(m)) = 1 ->
            m.seg[OverrideOf[CHOOSE s \in Overrides(m) : TRUE]]
      [] OTHER -> m.seg[IF "SEG_DS_SS" \in m.mode THEN "SS" ELSE "DS"]

get_data_segment(m) == IF Cardinality(Overrides(m)) > 1 THEN HALT_SYS(m) ELSE m

fetch_data(m, w, offset) == Rd(m, w, Linear(DataSegment(m), offset))
store_data(m, w, offset, v) == Wr(m, w, Linear(DataSegment(m), offset), v)

push(m, w, v) ==
    LET n == Add(m, "word", ESP, -Size(w))
    IN  store_data_abs(n, w, "SS", Reg(n, "word", ESP), v)

Popped(m, w) == fetch_data_abs(m, w, "SS", Reg(m, "word", ESP))
pop(m, w) == Add(m, "word", ESP, Size(w))

-----------------------------------------------------------------------------
(* Addresses: the offset of a memory operand, and the machine once the     *)
(* fields that make it have been fetched.                                  *)

At(m, offset) == [m |-> m, offset |-> offset]
Stack(m, b) == IF b THEN [m EXCEPT !.mode = @ \cup {"SEG_DS_SS"}] ELSE m

Base16(m, n) ==
    CASE n \in {0, 1, 7} -> Reg(m, "word", EBX)
      [] n \in {2, 3, 6} -> Reg(m, "word", EBP)
      [] n \in {4, 5} -> 0
Index16(m, n) ==
    CASE n \in {0, 2, 4} -> Reg(m, "word", ESI)
      [] n \in {1, 3, 5} -> Reg(m, "word", EDI)
      [] n \in {6, 7} -> 0

Of16(m, i, disp) ==
    At(Stack(m, i.rl \in {2, 3, 6}),
       (Base16(m, i.rl) + Index16(m, i.rl) + disp) % Mod("word"))

\* A base of 5 with a displacement is ESP in the code, not EBP.
decode_sib_address(m, i, disp) ==
    LET none == i.base = 5 /\ i.mod = 0
        base == IF none THEN i.disp ELSE m.r[IF i.base = 5 THEN ESP ELSE i.base]
        index == IF i.index = 4 THEN 0 ELSE m.r[i.index]
    IN  At(Stack(IF none THEN Fetch(m, "long") ELSE m, i.base \in {4, 5} /\ ~none),
           (base + index * 2 ^ i.scale + disp) % Mod("long"))

decode_rm00_address(m, i) ==
    IF "PREFIX_ADDR" \notin m.mode
    THEN IF i.rl = 6 THEN At(Fetch(m, "word"), i.disp % Mod("word")) ELSE Of16(m, i, 0)
    ELSE CASE i.rl = 4 -> decode_sib_address(Fetch(m, "byte"), i, 0)
           [] i.rl = 5 -> At(Fetch(m, "long"), i.disp)
           [] OTHER -> At(m, m.r[i.rl])

decode_rm01_address(m, i) ==
    LET n == Fetch(m, "byte")
        disp == Signed("byte", i.disp % Mod("byte"))
    IN  IF "PREFIX_ADDR" \notin m.mode THEN Of16(n, i, disp)
        ELSE IF i.rl = 4 THEN decode_sib_address(Fetch(n, "byte"), i, disp)
        ELSE At(n, (m.r[i.rl] + disp) % Mod("long"))

\* With long addresses EDX implies the stack segment, and EBP does not.
decode_rm10_address(m, i) ==
    LET n == Fetch(m, "long")
    IN  IF "PREFIX_ADDR" \notin m.mode
        THEN Of16(Fetch(m, "word"), i, i.disp % Mod("word"))
        ELSE IF i.rl = 4 THEN decode_sib_address(Fetch(n, "byte"), i, i.disp)
        ELSE At(Stack(n, i.rl = 2), (m.r[i.rl] + i.disp) % Mod("long"))

Address(m, i) ==
    CASE i.mod = 0 -> decode_rm00_address(m, i)
      [] i.mod = 1 -> decode_rm01_address(m, i)
      [] i.mod = 2 -> decode_rm10_address(m, i)

-----------------------------------------------------------------------------
(* The operand named by mod and rl, a register or a place in memory, as    *)
(* every handler with a ModR/M byte decodes it.                            *)

Operand(m, i) ==
    LET n == fetch_decode_modrm(m)
        a == Address(n, i)
    IN  IF i.mod = 3 THEN At(n, 0) ELSE At(get_data_segment(a.m), a.offset)

ValueOf(o, i, w) ==
    IF i.mod = 3 THEN Reg(o.m, w, i.rl) ELSE fetch_data(o.m, w, o.offset)

Update(m, i, w, offset, v) ==
    IF i.mod = 3 THEN SetReg(m, w, i.rl, v) ELSE store_data(m, w, offset, v)

Store(o, i, w, v) == Update(o.m, i, w, o.offset, v)
-----------------------------------------------------------------------------
(* Handlers. *)

Done(m) == DECODE_CLEAR_SEGOVR(m)
Imm(i, w) == i.imm % Mod(w)
Acc(m, w) == Reg(m, w, EAX)
WithFlags(m, f) == [m EXCEPT !.f = f]

x86emuOp_illegal_op(m, i) == HALT_SYS(m)

-----------------------------------------------------------------------------
(* The shapes of the arithmetic instructions, for an operation op.         *)

RM_R(m, i, w, op(_, _, _, _)) ==
    LET o == Operand(m, i)
        res == op(w, m.f, ValueOf(o, i, w), Reg(m, w, i.rh))
    IN  Done(WithFlags(Store(o, i, w, res.v), res.f))

R_RM(m, i, w, op(_, _, _, _)) ==
    LET o == Operand(m, i)
        res == op(w, m.f, Reg(m, w, i.rh), ValueOf(o, i, w))
    IN  Done(WithFlags(SetReg(o.m, w, i.rh, res.v), res.f))

A_IMM(m, i, w, op(_, _, _, _)) ==
    LET res == op(w, m.f, Acc(m, w), Imm(i, w))
    IN  Done(WithFlags(SetReg(Fetch(m, w), w, EAX, res.v), res.f))

\* CMP and TEST store nothing.
Compare_RM_R(m, i, w) ==
    LET o == Operand(m, i)
    IN  Done(WithFlags(o.m, cmp(w, m.f, ValueOf(o, i, w), Reg(m, w, i.rh)).f))

Test_A_IMM(m, i, w) ==
    Done(WithFlags(Fetch(m, w), test(w, m.f, Acc(m, w), Imm(i, w))))

\* opc80_byte_operation, opc81_word_operation and the like: the operation that
\* the field rh selects.
Opc8x(n, w, f, d, s) ==
    CASE n = 0 -> add(w, f, d, s) [] n = 1 -> or(w, f, d, s)
      [] n = 2 -> adc(w, f, d, s) [] n = 3 -> sbb(w, f, d, s)
      [] n = 4 -> and(w, f, d, s) [] n = 5 -> sub(w, f, d, s)
      [] n = 6 -> xor(w, f, d, s) [] n = 7 -> cmp(w, f, d, s)

\* The immediate s has width iw and is sign extended.
RM_IMM(m, i, w, iw, s) ==
    LET o == Operand(m, i)
        n == [o EXCEPT !.m = Fetch(@, iw)]
        res == Opc8x(i.rh, w, m.f, ValueOf(o, i, w), s)
    IN  Done(WithFlags(IF i.rh = 7 THEN n.m ELSE Store(n, i, w, res.v), res.f))

x86emuOp_add_byte_RM_R(m, i) == RM_R(m, i, "byte", add)
x86emuOp_add_word_RM_R(m, i) == RM_R(m, i, WL(m), add)
x86emuOp_add_byte_R_RM(m, i) == R_RM(m, i, "byte", add)
x86emuOp_add_word_R_RM(m, i) == R_RM(m, i, WL(m), add)
x86emuOp_add_byte_AL_IMM(m, i) == A_IMM(m, i, "byte", add)
x86emuOp_add_word_AX_IMM(m, i) == A_IMM(m, i, WL(m), add)

x86emuOp_or_byte_RM_R(m, i) == RM_R(m, i, "byte", or)
x86emuOp_or_word_RM_R(m, i) == RM_R(m, i, WL(m), or)
x86emuOp_or_byte_R_RM(m, i) == R_RM(m, i, "byte", or)
x86emuOp_or_word_R_RM(m, i) == R_RM(m, i, WL(m), or)
x86emuOp_or_byte_AL_IMM(m, i) == A_IMM(m, i, "byte", or)
x86emuOp_or_word_AX_IMM(m, i) == A_IMM(m, i, WL(m), or)

x86emuOp_adc_byte_RM_R(m, i) == RM_R(m, i, "byte", adc)
x86emuOp_adc_word_RM_R(m, i) == RM_R(m, i, WL(m), adc)
x86emuOp_adc_byte_R_RM(m, i) == R_RM(m, i, "byte", adc)
x86emuOp_adc_word_R_RM(m, i) == R_RM(m, i, WL(m), adc)
x86emuOp_adc_byte_AL_IMM(m, i) == A_IMM(m, i, "byte", adc)
x86emuOp_adc_word_AX_IMM(m, i) == A_IMM(m, i, WL(m), adc)

x86emuOp_sbb_byte_RM_R(m, i) == RM_R(m, i, "byte", sbb)
x86emuOp_sbb_word_RM_R(m, i) == RM_R(m, i, WL(m), sbb)
x86emuOp_sbb_byte_R_RM(m, i) == R_RM(m, i, "byte", sbb)
x86emuOp_sbb_word_R_RM(m, i) == R_RM(m, i, WL(m), sbb)
x86emuOp_sbb_byte_AL_IMM(m, i) == A_IMM(m, i, "byte", sbb)
x86emuOp_sbb_word_AX_IMM(m, i) == A_IMM(m, i, WL(m), sbb)

x86emuOp_and_byte_RM_R(m, i) == RM_R(m, i, "byte", and)
x86emuOp_and_word_RM_R(m, i) == RM_R(m, i, WL(m), and)
x86emuOp_and_byte_R_RM(m, i) == R_RM(m, i, "byte", and)
x86emuOp_and_word_R_RM(m, i) == R_RM(m, i, WL(m), and)
x86emuOp_and_byte_AL_IMM(m, i) == A_IMM(m, i, "byte", and)
x86emuOp_and_word_AX_IMM(m, i) == A_IMM(m, i, WL(m), and)

x86emuOp_sub_byte_RM_R(m, i) == RM_R(m, i, "byte", sub)
x86emuOp_sub_word_RM_R(m, i) == RM_R(m, i, WL(m), sub)
x86emuOp_sub_byte_R_RM(m, i) == R_RM(m, i, "byte", sub)
x86emuOp_sub_word_R_RM(m, i) == R_RM(m, i, WL(m), sub)
x86emuOp_sub_byte_AL_IMM(m, i) == A_IMM(m, i, "byte", sub)
x86emuOp_sub_word_AX_IMM(m, i) == A_IMM(m, i, WL(m), sub)

x86emuOp_xor_byte_RM_R(m, i) == RM_R(m, i, "byte", xor)
x86emuOp_xor_word_RM_R(m, i) == RM_R(m, i, WL(m), xor)
x86emuOp_xor_byte_R_RM(m, i) == R_RM(m, i, "byte", xor)
x86emuOp_xor_word_R_RM(m, i) == R_RM(m, i, WL(m), xor)
x86emuOp_xor_byte_AL_IMM(m, i) == A_IMM(m, i, "byte", xor)
x86emuOp_xor_word_AX_IMM(m, i) == A_IMM(m, i, WL(m), xor)

x86emuOp_cmp_byte_RM_R(m, i) == Compare_RM_R(m, i, "byte")
x86emuOp_cmp_word_RM_R(m, i) == Compare_RM_R(m, i, WL(m))
x86emuOp_cmp_byte_R_RM(m, i) == R_RM(m, i, "byte", cmp)
x86emuOp_cmp_word_R_RM(m, i) == R_RM(m, i, WL(m), cmp)
x86emuOp_cmp_byte_AL_IMM(m, i) == A_IMM(m, i, "byte", cmp)
x86emuOp_cmp_word_AX_IMM(m, i) == A_IMM(m, i, WL(m), cmp)

x86emuOp_opc80_byte_RM_IMM(m, i) == RM_IMM(m, i, "byte", "byte", Imm(i, "byte"))
x86emuOp_opc81_word_RM_IMM(m, i) == RM_IMM(m, i, WL(m), WL(m), Imm(i, WL(m)))
x86emuOp_opc82_byte_RM_IMM(m, i) == RM_IMM(m, i, "byte", "byte", Imm(i, "byte"))
\* Variant: the sign is not extended.
x86emuOp_opc83_ZeroExtends(m, i) == RM_IMM(m, i, WL(m), "byte", Imm(i, "byte"))
x86emuOp_opc83_word_RM_IMM(m, i) == RM_IMM(m, i, WL(m), "byte", Sext(WL(m), Imm(i, "byte")))

Test_RM_R(m, i, w) ==
    LET o == Operand(m, i)
    IN  Done(WithFlags(o.m, test(w, m.f, ValueOf(o, i, w), Reg(m, w, i.rh))))

x86emuOp_test_byte_RM_R(m, i) == Test_RM_R(m, i, "byte")
x86emuOp_test_word_RM_R(m, i) == Test_RM_R(m, i, WL(m))
x86emuOp_test_AL_IMM(m, i) == Test_A_IMM(m, i, "byte")
x86emuOp_test_AX_IMM(m, i) == Test_A_IMM(m, i, WL(m))

\* The decimal adjustments: a base other than ten halts, and is then ignored.
Adjusted(m, w, res) == Done(WithFlags(SetReg(m, w, EAX, res.v), res.f))
HaltIf(m, b) == IF b THEN HALT_SYS(m) ELSE m

x86emuOp_daa(m, i) == Adjusted(m, "byte", daa_byte(m.f, Acc(m, "byte")))
x86emuOp_das(m, i) == Adjusted(m, "byte", das_byte(m.f, Acc(m, "byte")))
x86emuOp_aaa(m, i) == Adjusted(m, "word", aaa_word(m.f, Acc(m, "word")))
x86emuOp_aas(m, i) == Adjusted(m, "word", aas_word(m.f, Acc(m, "word")))
x86emuOp_aam(m, i) ==
    Adjusted(HaltIf(Fetch(m, "byte"), Imm(i, "byte") # Radix), "word",
             aam_word(m.f, Acc(m, "byte")))
x86emuOp_aad(m, i) ==
    Adjusted(HaltIf(Fetch(m, "byte"), Imm(i, "byte") # Radix), "word",
             aad_word(m.f, Acc(m, "word")))

IncReg(m, n) ==
    LET res == inc(WL(m), m.f, Reg(m, WL(m), n))
    IN  Done(WithFlags(SetReg(m, WL(m), n, res.v), res.f))

DecReg(m, n) ==
    LET res == dec(WL(m), m.f, Reg(m, WL(m), n))
    IN  Done(WithFlags(SetReg(m, WL(m), n, res.v), res.f))

PushReg(m, n) == Done(push(m, WL(m), Reg(m, WL(m), n)))
PopReg(m, n) == Done(SetReg(pop(m, WL(m)), WL(m), n, Popped(m, WL(m))))

x86emuOp_inc_AX(m, i) == IncReg(m, EAX)
x86emuOp_inc_CX(m, i) == IncReg(m, ECX)
x86emuOp_inc_DX(m, i) == IncReg(m, EDX)
x86emuOp_inc_BX(m, i) == IncReg(m, EBX)
x86emuOp_inc_SP(m, i) == IncReg(m, ESP)
x86emuOp_inc_BP(m, i) == IncReg(m, EBP)
x86emuOp_inc_SI(m, i) == IncReg(m, ESI)
x86emuOp_inc_DI(m, i) == IncReg(m, EDI)

x86emuOp_dec_AX(m, i) == DecReg(m, EAX)
x86emuOp_dec_CX(m, i) == DecReg(m, ECX)
x86emuOp_dec_DX(m, i) == DecReg(m, EDX)
x86emuOp_dec_BX(m, i) == DecReg(m, EBX)
x86emuOp_dec_SP(m, i) == DecReg(m, ESP)
x86emuOp_dec_BP(m, i) == DecReg(m, EBP)
x86emuOp_dec_SI(m, i) == DecReg(m, ESI)
x86emuOp_dec_DI(m, i) == DecReg(m, EDI)

x86emuOp_push_AX(m, i) == PushReg(m, EAX)
x86emuOp_push_CX(m, i) == PushReg(m, ECX)
x86emuOp_push_DX(m, i) == PushReg(m, EDX)
x86emuOp_push_BX(m, i) == PushReg(m, EBX)
x86emuOp_push_SP(m, i) == PushReg(m, ESP)
x86emuOp_push_BP(m, i) == PushReg(m, EBP)
x86emuOp_push_SI(m, i) == PushReg(m, ESI)
x86emuOp_push_DI(m, i) == PushReg(m, EDI)

x86emuOp_pop_AX(m, i) == PopReg(m, EAX)
x86emuOp_pop_CX(m, i) == PopReg(m, ECX)
x86emuOp_pop_DX(m, i) == PopReg(m, EDX)
x86emuOp_pop_BX(m, i) == PopReg(m, EBX)
x86emuOp_pop_SP(m, i) == PopReg(m, ESP)
x86emuOp_pop_BP(m, i) == PopReg(m, EBP)
x86emuOp_pop_SI(m, i) == PopReg(m, ESI)
x86emuOp_pop_DI(m, i) == PopReg(m, EDI)

-----------------------------------------------------------------------------
(* Prefixes: they stay for the next instruction.                           *)

Prefix(m, p) == [m EXCEPT !.mode = @ \cup {p}]

x86emuOp_segovr_ES(m, i) == Prefix(m, "SEGOVR_ES")
x86emuOp_segovr_CS(m, i) == Prefix(m, "SEGOVR_CS")
x86emuOp_segovr_SS(m, i) == Prefix(m, "SEGOVR_SS")
x86emuOp_segovr_DS(m, i) == Prefix(m, "SEGOVR_DS")
x86emuOp_segovr_FS(m, i) == Prefix(m, "SEGOVR_FS")
x86emuOp_segovr_GS(m, i) == Prefix(m, "SEGOVR_GS")
x86emuOp_prefix_data(m, i) == Prefix(m, "PREFIX_DATA")
x86emuOp_prefix_addr(m, i) == Prefix(m, "PREFIX_ADDR")
x86emuOp_repne(m, i) == Prefix(m, "PREFIX_REPNE")
x86emuOp_repe(m, i) == Prefix(m, "PREFIX_REPE")
\* LOCK is read and has no effect, and no prefix is forgotten for it.
x86emuOp_lock(m, i) == m

-----------------------------------------------------------------------------
(* The stack.                                                              *)

PushSeg(m, s) == Done(push(m, "word", m.seg[s]))
PopSeg(m, s) == Done([pop(m, "word") EXCEPT !.seg[s] = Popped(m, "word")])

x86emuOp_push_ES(m, i) == PushSeg(m, "ES")
x86emuOp_pop_ES(m, i) == PopSeg(m, "ES")
x86emuOp_push_CS(m, i) == PushSeg(m, "CS")
x86emuOp_push_SS(m, i) == PushSeg(m, "SS")
x86emuOp_pop_SS(m, i) == PopSeg(m, "SS")
x86emuOp_push_DS(m, i) == PushSeg(m, "DS")
x86emuOp_pop_DS(m, i) == PopSeg(m, "DS")

\* The stack pointer is pushed as it was before the first push.
x86emuOp_push_all(m, i) ==
    LET Push(n, k) == push(n, WL(m), Reg(m, WL(m), k - 1))
    IN  Done(FoldLeft(Push, m, <<1, 2, 3, 4, 5, 6, 7, 8>>))

\* The pushed stack pointer is skipped.
x86emuOp_pop_all(m, i) ==
    LET w == WL(m)
        Pop(n, k) == IF k = ESP THEN Add(n, w, ESP, Size(w))
                     ELSE SetReg(pop(n, w), w, k, Popped(n, w))
    IN  Done(FoldLeft(Pop, m, <<EDI, ESI, EBP, ESP, EBX, EDX, ECX, EAX>>))

x86emuOp_push_word_IMM(m, i) == Done(push(Fetch(m, WL(m)), WL(m), Imm(i, WL(m))))
x86emuOp_push_byte_IMM(m, i) ==
    Done(push(Fetch(m, "byte"), WL(m), Sext(WL(m), Imm(i, "byte"))))

\* The place is decoded before the value is popped.
x86emuOp_pop_RM(m, i) ==
    LET o == Operand(m, i)
    IN  Done(HaltIf(Update(pop(o.m, WL(m)), i, WL(m), o.offset, Popped(m, WL(m))), i.rh # 0))

x86emuOp_pushf_word(m, i) == Done(push(m, WL(m), FlagWord(m.f) + F_ALWAYS_ON))
x86emuOp_popf_word(m, i) == Done(WithFlags(pop(m, WL(m)), FlagsOf(Popped(m, WL(m)))))

x86emuOp_sahf(m, i) ==
    Done(WithFlags(m, {x \in m.f : FlagBit[x] >= B} \cup
                      {x \in FlagsOf(Reg(m, "byte", 4)) : FlagBit[x] < B}))
x86emuOp_lahf(m, i) ==
    Done(SetReg(m, "byte", 4, (FlagWord(m.f) % Mod("byte")) + F_ALWAYS_ON))

\* The frame pointers of the enclosing frames are copied, then the new one.
x86emuOp_enter(m, i) ==
    LET n == push(Fetch(Fetch(m, "word"), "byte"), "word", Reg(m, "word", EBP))
        frame == Reg(n, "word", ESP)
        Copy(x, k) ==
            LET y == Add(x, "word", EBP, -2)
            IN  push(y, "word", fetch_data_abs(y, "word", "SS", Reg(y, "word", EBP)))
        nested == push(FoldLeft(Copy, n, [k \in 1..(i.imm2 - 1) |-> k]), "word", frame)
        framed == SetReg(IF i.imm2 > 0 THEN nested ELSE n, "word", EBP, frame)
    IN  Done(Add(framed, "word", ESP, -Imm(i, "word")))

x86emuOp_leave(m, i) ==
    LET n == SetReg(m, "word", ESP, Reg(m, "word", EBP))
    IN  Done(SetReg(pop(n, "word"), "word", EBP, Popped(n, "word")))

-----------------------------------------------------------------------------
(* Jumps, calls and interrupts.                                            *)

Jump(m, target) == [m EXCEPT !.ip = target % Mod("word")]
Far(m, seg, target) == [m EXCEPT !.ip = target % Mod("word"), !.seg["CS"] = seg]
PopIP(m) == Jump(pop(m, "word"), Popped(m, "word"))
PopCS(m) == [pop(m, "word") EXCEPT !.seg["CS"] = Popped(m, "word")]

JumpIf(m, i, b) ==
    LET n == Fetch(m, "byte")
    IN  Done(IF b THEN Jump(n, n.ip + Signed("byte", Imm(i, "byte"))) ELSE n)

Less(f) == ("SF" \in f) # ("OF" \in f)

x86emuOp_jump_near_O(m, i) == JumpIf(m, i, "OF" \in m.f)
x86emuOp_jump_near_NO(m, i) == JumpIf(m, i, "OF" \notin m.f)
x86emuOp_jump_near_B(m, i) == JumpIf(m, i, "CF" \in m.f)
x86emuOp_jump_near_NB(m, i) == JumpIf(m, i, "CF" \notin m.f)
x86emuOp_jump_near_Z(m, i) == JumpIf(m, i, "ZF" \in m.f)
x86emuOp_jump_near_NZ(m, i) == JumpIf(m, i, "ZF" \notin m.f)
x86emuOp_jump_near_BE(m, i) == JumpIf(m, i, {"CF", "ZF"} \cap m.f # {})
x86emuOp_jump_near_NBE(m, i) == JumpIf(m, i, {"CF", "ZF"} \cap m.f = {})
x86emuOp_jump_near_S(m, i) == JumpIf(m, i, "SF" \in m.f)
x86emuOp_jump_near_NS(m, i) == JumpIf(m, i, "SF" \notin m.f)
x86emuOp_jump_near_P(m, i) == JumpIf(m, i, "PF" \in m.f)
x86emuOp_jump_near_NP(m, i) == JumpIf(m, i, "PF" \notin m.f)
x86emuOp_jump_near_L(m, i) == JumpIf(m, i, Less(m.f))
x86emuOp_jump_near_NL(m, i) == JumpIf(m, i, ~Less(m.f))
x86emuOp_jump_near_LE(m, i) == JumpIf(m, i, Less(m.f) \/ "ZF" \in m.f)
x86emuOp_jump_near_NLE(m, i) == JumpIf(m, i, ~Less(m.f) /\ "ZF" \notin m.f)

Looped(m) == Add(m, "word", ECX, -1)
CX(m) == Reg(m, "word", ECX)

x86emuOp_loopne(m, i) == JumpIf(Looped(m), i, CX(Looped(m)) # 0 /\ "ZF" \notin m.f)
x86emuOp_loope(m, i) == JumpIf(Looped(m), i, CX(Looped(m)) # 0 /\ "ZF" \in m.f)
x86emuOp_loop(m, i) == JumpIf(Looped(m), i, CX(Looped(m)) # 0)
x86emuOp_jcxz(m, i) == JumpIf(m, i, CX(m) = 0)
x86emuOp_jump_byte_IMM(m, i) == JumpIf(m, i, TRUE)

x86emuOp_jump_near_IMM(m, i) ==
    Done(Jump(m, Fetch(m, "word").ip + Signed("word", Imm(i, "word"))))
x86emuOp_jump_far_IMM(m, i) == Done(Far(m, i.imm2, Imm(i, "word")))

x86emuOp_call_near_IMM(m, i) ==
    LET n == Fetch(m, "word")
    IN  Done(Jump(push(n, "word", n.ip), n.ip + Signed("word", Imm(i, "word"))))

\* The new code segment is set between the two pushes.
CallFar(m, seg, target) == Far(push(push(m, "word", m.seg["CS"]), "word", m.ip), seg, target)

x86emuOp_call_far_IMM(m, i) ==
    Done(CallFar(Fetch(Fetch(m, "word"), "word"), i.imm2, Imm(i, "word")))

Release(m, i) == Add(m, "word", ESP, Imm(i, "word"))

x86emuOp_ret_near_IMM(m, i) == Done(Release(PopIP(m), i))
x86emuOp_ret_near(m, i) == Done(PopIP(m))
x86emuOp_ret_far_IMM(m, i) == Done(Release(PopCS(PopIP(m)), i))
x86emuOp_ret_far(m, i) == Done(PopCS(PopIP(m)))

\* What INT, the pending interrupts and X86EMU_prepareForInt share: no handler
\* of the kernel is in _X86EMU_intrTab, so the vector is taken.
Interrupt(m, n) ==
    LET flagged == WithFlags(push(m, "word", FlagWord(m.f)), m.f \ {"IF", "TF"})
        seg == push(flagged, "word", m.seg["CS"])
    IN  Far(push(seg, "word", m.ip), Rd(seg, "word", n * 4 + 2),
            Rd(push(seg, "word", m.ip), "word", n * 4))

x86emuOp_int3(m, i) == Done(Interrupt(m, 3))
x86emuOp_int_IMM(m, i) == Done(Interrupt(Fetch(m, "byte"), Imm(i, "byte")))
x86emuOp_into(m, i) == Done(IF "OF" \in m.f THEN Interrupt(m, 4) ELSE m)

x86emuOp_iret(m, i) ==
    LET n == PopCS(PopIP(m))
    IN  Done(WithFlags(pop(n, "word"), FlagsOf(Popped(n, "word"))))

-----------------------------------------------------------------------------
(* Moves.                                                                  *)

Mov_RM_R(m, i, w) == Done(Store(Operand(m, i), i, w, Reg(m, w, i.rh)))

Mov_R_RM(m, i, w) ==
    LET o == Operand(m, i)
    IN  Done(SetReg(o.m, w, i.rh, ValueOf(o, i, w)))

Xchg_RM_R(m, i, w) ==
    LET o == Operand(m, i)
    IN  Done(Update(SetReg(o.m, w, i.rh, ValueOf(o, i, w)), i, w, o.offset, Reg(m, w, i.rh)))

Xchg_AX(m, n) ==
    Done(SetReg(SetReg(m, WL(m), n, Acc(m, WL(m))), WL(m), EAX, Reg(m, WL(m), n)))

x86emuOp_xchg_byte_RM_R(m, i) == Xchg_RM_R(m, i, "byte")
x86emuOp_xchg_word_RM_R(m, i) == Xchg_RM_R(m, i, WL(m))
x86emuOp_mov_byte_RM_R(m, i) == Mov_RM_R(m, i, "byte")
x86emuOp_mov_word_RM_R(m, i) == Mov_RM_R(m, i, WL(m))
x86emuOp_mov_byte_R_RM(m, i) == Mov_R_RM(m, i, "byte")
x86emuOp_mov_word_R_RM(m, i) == Mov_R_RM(m, i, WL(m))
x86emuOp_mov_word_RM_SR(m, i) ==
    Done(Store(Operand(m, i), i, "word", m.seg[decode_rm_seg_register(i.rh)]))
x86emuOp_mov_word_SR_RM(m, i) ==
    LET o == Operand(m, i)
    IN  Done([o.m EXCEPT !.seg[decode_rm_seg_register(i.rh)] = ValueOf(o, i, "word")])

\* The address size decides the width; no memory is read.
x86emuOp_lea_word_R_M(m, i) ==
    LET n == fetch_decode_modrm(m)
        a == Address(n, i)
        w == IF "PREFIX_ADDR" \in m.mode THEN "long" ELSE "word"
    IN  Done(IF i.mod = 3 THEN n ELSE SetReg(a.m, w, i.rh, a.offset % Mod(w)))

x86emuOp_nop(m, i) == Done(m)

x86emuOp_xchg_word_AX_CX(m, i) == Xchg_AX(m, ECX)
x86emuOp_xchg_word_AX_DX(m, i) == Xchg_AX(m, EDX)
x86emuOp_xchg_word_AX_BX(m, i) == Xchg_AX(m, EBX)
x86emuOp_xchg_word_AX_SP(m, i) == Xchg_AX(m, ESP)
x86emuOp_xchg_word_AX_BP(m, i) == Xchg_AX(m, EBP)
x86emuOp_xchg_word_AX_SI(m, i) == Xchg_AX(m, ESI)
x86emuOp_xchg_word_AX_DI(m, i) == Xchg_AX(m, EDI)

x86emuOp_cbw(m, i) ==
    IF WL(m) = "long"
    THEN Done(SetReg(m, "long", EAX, Signed("word", Acc(m, "word")) % Mod("long")))
    ELSE Done(SetReg(m, "word", EAX, Sext("word", Acc(m, "byte"))))

x86emuOp_cwd(m, i) ==
    Done(SetReg(m, WL(m), EDX, IF Msb(WL(m), Acc(m, WL(m))) THEN Mod(WL(m)) - 1 ELSE 0))

\* The offset is a word, whatever the address size.
Mov_A_M(m, i, w) ==
    LET n == get_data_segment(Fetch(m, "word"))
    IN  Done(SetReg(n, w, EAX, fetch_data(n, w, Imm(i, "word"))))

Mov_M_A(m, i, w) ==
    LET n == get_data_segment(Fetch(m, "word"))
    IN  Done(store_data(n, w, Imm(i, "word"), Acc(m, w)))

x86emuOp_mov_AL_M_IMM(m, i) == Mov_A_M(m, i, "byte")
x86emuOp_mov_AX_M_IMM(m, i) == Mov_A_M(m, i, WL(m))
x86emuOp_mov_M_AL_IMM(m, i) == Mov_M_A(m, i, "byte")
x86emuOp_mov_M_AX_IMM(m, i) == Mov_M_A(m, i, WL(m))

Mov_IMM(m, i, w, n) == Done(SetReg(Fetch(m, w), w, n, Imm(i, w)))

x86emuOp_mov_byte_AL_IMM(m, i) == Mov_IMM(m, i, "byte", 0)
x86emuOp_mov_byte_CL_IMM(m, i) == Mov_IMM(m, i, "byte", 1)
x86emuOp_mov_byte_DL_IMM(m, i) == Mov_IMM(m, i, "byte", 2)
x86emuOp_mov_byte_BL_IMM(m, i) == Mov_IMM(m, i, "byte", 3)
x86emuOp_mov_byte_AH_IMM(m, i) == Mov_IMM(m, i, "byte", 4)
x86emuOp_mov_byte_CH_IMM(m, i) == Mov_IMM(m, i, "byte", 5)
x86emuOp_mov_byte_DH_IMM(m, i) == Mov_IMM(m, i, "byte", 6)
x86emuOp_mov_byte_BH_IMM(m, i) == Mov_IMM(m, i, "byte", 7)
x86emuOp_mov_word_AX_IMM(m, i) == Mov_IMM(m, i, WL(m), EAX)
x86emuOp_mov_word_CX_IMM(m, i) == Mov_IMM(m, i, WL(m), ECX)
x86emuOp_mov_word_DX_IMM(m, i) == Mov_IMM(m, i, WL(m), EDX)
x86emuOp_mov_word_BX_IMM(m, i) == Mov_IMM(m, i, WL(m), EBX)
x86emuOp_mov_word_SP_IMM(m, i) == Mov_IMM(m, i, WL(m), ESP)
x86emuOp_mov_word_BP_IMM(m, i) == Mov_IMM(m, i, WL(m), EBP)
x86emuOp_mov_word_SI_IMM(m, i) == Mov_IMM(m, i, WL(m), ESI)
x86emuOp_mov_word_DI_IMM(m, i) == Mov_IMM(m, i, WL(m), EDI)

\* A field rh other than 0 halts, and the move is made all the same.
Mov_RM_IMM(m, i, w) ==
    LET o == Operand(m, i)
    IN  Done(HaltIf(Update(Fetch(o.m, w), i, w, o.offset, Imm(i, w)), i.rh # 0))

x86emuOp_mov_byte_RM_IMM(m, i) == Mov_RM_IMM(m, i, "byte")
x86emuOp_mov_word_RM_IMM(m, i) == Mov_RM_IMM(m, i, WL(m))

\* A far pointer is loaded from memory; with a register the handler does nothing.
LoadFar(m, i, s) ==
    LET o == Operand(m, i)
    IN  Done(IF i.mod = 3 THEN o.m
             ELSE [SetReg(o.m, "word", i.rh, fetch_data(o.m, "word", o.offset))
                     EXCEPT !.seg[s] = fetch_data(o.m, "word", o.offset + 2)])

x86emuOp_les_R_IMM(m, i) == LoadFar(m, i, "ES")
x86emuOp_lds_R_IMM(m, i) == LoadFar(m, i, "DS")

x86emuOp_xlat(m, i) ==
    Done(SetReg(get_data_segment(m), "byte", EAX,
                fetch_data(m, "byte", (Reg(m, "word", EBX) + Acc(m, "byte")) % Mod("word"))))

-----------------------------------------------------------------------------
(* Strings.  With a repeat prefix CX counts, and the prefix is consumed.   *)

Rep(m) == m.mode \cap PREFIX_REP # {}
Step(m, w) == IF "DF" \in m.f THEN -Size(w) ELSE Size(w)
SI(m) == Reg(m, "word", ESI)
DI(m) == Reg(m, "word", EDI)
Times(m, count) == [k \in 1..(IF Rep(m) THEN count ELSE 1) |-> k]
Counted(m) == IF Rep(m) THEN [SetReg(m, "word", ECX, 0) EXCEPT !.mode = @ \ PREFIX_REP] ELSE m

Movs(m, w) ==
    LET One(x, k) ==
            Add(Add(store_data_abs(get_data_segment(x), w, "ES", DI(x), fetch_data(x, w, SI(x))),
                    "word", ESI, Step(m, w)), "word", EDI, Step(m, w))
    IN  Done(Counted(FoldLeft(One, m, Times(m, CX(m)))))

Stos(m, w) ==
    LET One(x, k) == Add(store_data_abs(x, w, "ES", DI(x), Acc(x, w)), "word", EDI, Step(m, w))
    IN  Done(Counted(FoldLeft(One, m, Times(m, CX(m)))))

Lods(m, w) ==
    LET One(x, k) ==
            Add(SetReg(get_data_segment(x), w, EAX, fetch_data(x, w, SI(x))),
                "word", ESI, Step(m, w))
    IN  Done(Counted(FoldLeft(One, m, Times(m, CX(m)))))

x86emuOp_movs_byte(m, i) == Movs(m, "byte")
x86emuOp_movs_word(m, i) == Movs(m, WL(m))
x86emuOp_stos_byte(m, i) == Stos(m, "byte")
x86emuOp_stos_word(m, i) == Stos(m, WL(m))
x86emuOp_lods_byte(m, i) == Lods(m, "byte")
x86emuOp_lods_word(m, i) == Lods(m, WL(m))

CmpsOnce(m, w) ==
    LET n == WithFlags(get_data_segment(m),
                       cmp(w, m.f, fetch_data(m, w, SI(m)), fetch_data_abs(m, w, "ES", DI(m))).f)
    IN  Add(Add(n, "word", ESI, Step(m, w)), "word", EDI, Step(m, w))

ScasOnce(m, w) ==
    LET n == WithFlags(m, cmp(w, m.f, Acc(m, w), fetch_data_abs(m, w, "ES", DI(m))).f)
    IN  Add(n, "word", EDI, Step(m, w))

\* REPE goes on while the operands are equal, REPNE while they differ.
RECURSIVE Scan(_, _, _, _)
Scan(m, w, memory, equal) ==
    LET n == Looped(IF memory THEN CmpsOnce(m, w) ELSE ScasOnce(m, w))
    IN  IF CX(m) = 0 THEN m
        ELSE IF ("ZF" \in n.f) # equal THEN n
        ELSE Scan(n, w, memory, equal)

Scanned(m, w, memory) ==
    CASE "PREFIX_REPE" \in m.mode ->
            Done([Scan(m, w, memory, TRUE) EXCEPT !.mode = @ \ {"PREFIX_REPE"}])
      [] "PREFIX_REPNE" \in m.mode /\ "PREFIX_REPE" \notin m.mode ->
            Done([Scan(m, w, memory, FALSE) EXCEPT !.mode = @ \ {"PREFIX_REPNE"}])
      [] ~Rep(m) -> Done(IF memory THEN CmpsOnce(m, w) ELSE ScasOnce(m, w))

x86emuOp_cmps_byte(m, i) == Scanned(m, "byte", TRUE)
x86emuOp_cmps_word(m, i) == Scanned(m, WL(m), TRUE)
x86emuOp_scas_byte(m, i) == Scanned(m, "byte", FALSE)
x86emuOp_scas_word(m, i) == Scanned(m, WL(m), FALSE)

-----------------------------------------------------------------------------
(* Ports: i.port is what a device answers.  INS and OUTS count in ECX with *)
(* the data size prefix, and their loop over longs leaves after one.       *)

In(m, i, w) == SetReg(m, w, EAX, i.port % Mod(w))
Out(m, w, port, v) == [m EXCEPT !.out = Append(@, <<port, w, v>>)]
DX(m) == Reg(m, "word", EDX)

PortCount(m, w) ==
    LET n == IF WL(m) = "long" THEN m.r[ECX] ELSE CX(m)
    IN  IF w = "long" /\ n > 1 THEN 1 ELSE n
PortCounted(m) ==
    IF Rep(m) /\ WL(m) = "long" THEN SetReg(Counted(m), "long", ECX, 0) ELSE Counted(m)

ins(m, i, w) ==
    LET One(x, k) ==
            Add(store_data_abs(x, w, "ES", DI(x), i.port % Mod(w)), "word", EDI, Step(m, w))
    IN  Done(PortCounted(FoldLeft(One, m, Times(m, PortCount(m, w)))))

\* OUTS reads the string from ES, whatever the override.
outs(m, w) ==
    LET One(x, k) ==
            Add(Out(x, w, DX(x), fetch_data_abs(x, w, "ES", SI(x))), "word", ESI, Step(m, w))
    IN  Done(PortCounted(FoldLeft(One, m, Times(m, PortCount(m, w)))))

x86emuOp_ins_byte(m, i) == ins(m, i, "byte")
x86emuOp_ins_word(m, i) == ins(m, i, WL(m))
x86emuOp_outs_byte(m, i) == outs(m, "byte")
x86emuOp_outs_word(m, i) == outs(m, WL(m))

x86emuOp_in_byte_AL_IMM(m, i) == Done(In(Fetch(m, "byte"), i, "byte"))
x86emuOp_in_word_AX_IMM(m, i) == Done(In(Fetch(m, "byte"), i, WL(m)))
x86emuOp_in_byte_AL_DX(m, i) == Done(In(m, i, "byte"))
x86emuOp_in_word_AX_DX(m, i) == Done(In(m, i, WL(m)))
x86emuOp_out_byte_IMM_AL(m, i) ==
    Done(Out(Fetch(m, "byte"), "byte", Imm(i, "byte"), Acc(m, "byte")))
x86emuOp_out_word_IMM_AX(m, i) ==
    Done(Out(Fetch(m, "byte"), WL(m), Imm(i, "byte"), Acc(m, WL(m))))
x86emuOp_out_byte_DX_AL(m, i) == Done(Out(m, "byte", DX(m), Acc(m, "byte")))
x86emuOp_out_word_DX_AX(m, i) == Done(Out(m, WL(m), DX(m), Acc(m, WL(m))))

-----------------------------------------------------------------------------
(* Shifts and rotations, multiplications and divisions, and the groups     *)
(* whose operation is the field rh.                                        *)

\* opcD0_byte_operation, opcD1_word_operation and opcD1_long_operation.
OpcDx(n, w, f, d, s) ==
    CASE n = 0 -> rol(w, f, d, s) [] n = 1 -> ror(w, f, d, s)
      [] n = 2 -> rcl(w, f, d, s) [] n = 3 -> rcr(w, f, d, s)
      [] n \in {4, 6} -> shl(w, f, d, s) [] n = 5 -> shr(w, f, d, s)
      [] n = 7 -> sar(w, f, d, s)

\* The operand o was decoded; n is the machine once the count was fetched.
ShiftRM(m, i, w, o, n, count) ==
    LET res == OpcDx(i.rh, w, m.f, ValueOf(o, i, w), count)
    IN  Done(WithFlags(Update(n, i, w, o.offset, res.v), res.f))

Shift_IMM(m, i, w) ==
    LET o == Operand(m, i)
    IN  ShiftRM(m, i, w, o, Fetch(o.m, "byte"), Imm(i, "byte"))
Shift_1(m, i, w) ==
    LET o == Operand(m, i)
    IN  ShiftRM(m, i, w, o, o.m, 1)
Shift_CL(m, i, w) ==
    LET o == Operand(m, i)
    IN  ShiftRM(m, i, w, o, o.m, Reg(m, "byte", ECX))

x86emuOp_opcC0_byte_RM_MEM(m, i) == Shift_IMM(m, i, "byte")
x86emuOp_opcC1_word_RM_MEM(m, i) == Shift_IMM(m, i, WL(m))
x86emuOp_opcD0_byte_RM_1(m, i) == Shift_1(m, i, "byte")
x86emuOp_opcD1_word_RM_1(m, i) == Shift_1(m, i, WL(m))
x86emuOp_opcD2_byte_RM_CL(m, i) == Shift_CL(m, i, "byte")
x86emuOp_opcD3_word_RM_CL(m, i) == Shift_CL(m, i, WL(m))

\* A signed product of two operands whose low half is kept.
ImulLow(w, f, a, b) ==
    LET p == (Signed("word", a) * Signed("word", b)) % Mod("long")
        q == imul_long_direct(a, b)
        over == IF w = "word" THEN p >= Mod("word") ELSE q.hi # 0
    IN  [v |-> IF w = "word" THEN p % Mod("word") ELSE q.lo,
         f |-> SetFlags(f, [CF |-> over, OF |-> over])]

Imul_IMM(m, i, iw, s) ==
    LET o == Operand(m, i)
        res == ImulLow(WL(m), m.f, ValueOf(o, i, WL(m)), s)
    IN  Done(WithFlags(SetReg(Fetch(o.m, iw), WL(m), i.rh, res.v), res.f))

x86emuOp_imul_word_IMM(m, i) == Imul_IMM(m, i, WL(m), Imm(i, WL(m)))
x86emuOp_imul_byte_IMM(m, i) == Imul_IMM(m, i, "byte", Sext(WL(m), Imm(i, "byte")))

\* The halves of a product or of a dividend: AH and AL, or D and A.
High(m, w) == IF w = "byte" THEN Reg(m, "byte", 4) ELSE Reg(m, w, EDX)
SetHalves(m, w, lo, hi) ==
    IF w = "byte" THEN SetReg(m, "word", EAX, hi * Mod("byte") + lo)
    ELSE SetReg(SetReg(m, w, EAX, lo), w, EDX, hi)

Multiplied(m, w, p) == WithFlags(SetHalves(m, w, p.lo, p.hi), p.f)
Divided(m, w, q) ==
    IF q.fault THEN x86emu_intr_raise(m, 0)
    ELSE WithFlags(SetHalves(m, w, q.quo, q.rem), q.f)

DIV(m, w, s) ==
    IF w = "long" THEN div_long(m.f, m.r[EDX], m.r[EAX], s)
    ELSE div(w, m.f, High(m, w), Acc(m, w), s)
IDIV(m, w, s) ==
    IF w = "long" THEN idiv_long(m.f, m.r[EDX], m.r[EAX], s)
    ELSE idiv(w, m.f, High(m, w), Acc(m, w), s)

Group3(m, i, w) ==
    LET o == Operand(m, i)
        v == ValueOf(o, i, w)
        n == neg(w, m.f, v)
    IN  CASE i.rh = 0 -> Done(WithFlags(Fetch(o.m, w), test(w, m.f, v, Imm(i, w))))
          [] i.rh = 1 -> Done(HALT_SYS(fetch_decode_modrm(m)))
          [] i.rh = 2 -> Done(Store(o, i, w, not(w, v)))
          [] i.rh = 3 -> Done(WithFlags(Store(o, i, w, n.v), n.f))
          [] i.rh = 4 -> Done(Multiplied(o.m, w, mul(w, m.f, Acc(m, w), v)))
          [] i.rh = 5 -> Done(Multiplied(o.m, w, imul(w, m.f, Acc(m, w), v)))
          [] i.rh = 6 -> Done(Divided(o.m, w, DIV(m, w, v)))
          [] i.rh = 7 -> Done(Divided(o.m, w, IDIV(m, w, v)))

x86emuOp_opcF6_byte_RM(m, i) == Group3(m, i, "byte")
x86emuOp_opcF7_word_RM(m, i) == Group3(m, i, WL(m))

IncDec(m, i, w, op(_, _, _)) ==
    LET o == Operand(m, i)
        res == op(w, m.f, ValueOf(o, i, w))
    IN  Done(WithFlags(Store(o, i, w, res.v), res.f))

\* The operand is decoded, and not read.
DecodeOnly(m, i) ==
    LET n == fetch_decode_modrm(m)
    IN  IF i.mod = 3 THEN n ELSE Address(n, i).m

x86emuOp_opcFE_byte_RM(m, i) ==
    CASE i.rh = 0 -> IncDec(m, i, "byte", inc)
      [] i.rh = 1 -> IncDec(m, i, "byte", dec)
      [] OTHER -> Done(DecodeOnly(m, i))

\* Calls and jumps take a word, whatever the data size; a far one needs memory.
x86emuOp_opcFF_word_RM(m, i) ==
    LET o == Operand(m, i)
        target == ValueOf(o, i, "word")
        seg == fetch_data(o.m, "word", o.offset + 2)
        far == i.mod # 3
    IN  CASE i.rh = 0 -> IncDec(m, i, WL(m), inc)
          [] i.rh = 1 -> IncDec(m, i, WL(m), dec)
          [] i.rh = 2 -> Done(Jump(push(o.m, "word", o.m.ip), target))
          [] i.rh = 3 /\ far -> Done(CallFar(o.m, seg, target))
          [] i.rh = 4 -> Done(Jump(o.m, target))
          [] i.rh = 5 /\ far -> Done(Far(o.m, seg, target))
          [] i.rh \in {3, 5} /\ ~far -> Done(HALT_SYS(o.m))
          [] i.rh = 6 -> Done(push(o.m, WL(m), ValueOf(o, i, WL(m))))
          [] i.rh = 7 -> Done(DecodeOnly(m, i))

\* The coprocessor is absent: its instructions decode their operand, but those
\* of opcode D8 not even that.
EscCoprocess(m, i) == Done(DecodeOnly(m, i))

x86emuOp_esc_coprocess_d8(m, i) == Done(m)
x86emuOp_esc_coprocess_d9(m, i) == EscCoprocess(m, i)
x86emuOp_esc_coprocess_da(m, i) == EscCoprocess(m, i)
x86emuOp_esc_coprocess_db(m, i) == EscCoprocess(m, i)
x86emuOp_esc_coprocess_dc(m, i) == EscCoprocess(m, i)
x86emuOp_esc_coprocess_dd(m, i) == EscCoprocess(m, i)
x86emuOp_esc_coprocess_de(m, i) == EscCoprocess(m, i)
x86emuOp_esc_coprocess_df(m, i) == EscCoprocess(m, i)

x86emuOp_wait(m, i) == Done(m)
x86emuOp_halt(m, i) == HALT_SYS(Done(m))
x86emuOp_cmc(m, i) == Done(WithFlags(m, IF "CF" \in m.f THEN m.f \ {"CF"} ELSE m.f \cup {"CF"}))
x86emuOp_clc(m, i) == Done(WithFlags(m, m.f \ {"CF"}))
x86emuOp_stc(m, i) == Done(WithFlags(m, m.f \cup {"CF"}))
x86emuOp_cli(m, i) == Done(WithFlags(m, m.f \ {"IF"}))
x86emuOp_sti(m, i) == Done(WithFlags(m, m.f \cup {"IF"}))
x86emuOp_cld(m, i) == Done(WithFlags(m, m.f \ {"DF"}))
x86emuOp_std(m, i) == Done(WithFlags(m, m.f \cup {"DF"}))

=============================================================================
