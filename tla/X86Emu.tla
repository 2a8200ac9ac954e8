------------------------------- MODULE X86Emu -------------------------------
(***************************************************************************)
(* A call of a BIOS service: ibmPcBios::executeInterrupt sets up a stack   *)
(* and a return address with HLT instructions, enters the handler of the   *)
(* interrupt as INT would, and runs the emulator (X86EMU_exec) until it    *)
(* halts.  A behaviour is one call.  The firmware is any program of two    *)
(* instructions, the first of First and the second of Second, that then    *)
(* returns with IRET from every handler it is in.                          *)
(***************************************************************************)
EXTENDS X86Ops

-----------------------------------------------------------------------------
(* The two byte instructions (ops2.c), and the tables that give each       *)
(* opcode its handler.                                                     *)

x86emuOp2_illegal_op(m, i) == HALT_SYS(m)

\* The time stamp is a counter that each read advances by 0x10000.
x86emuOp2_rdtsc(m, i) ==
    LET counter == (m.tsc + Mod("word")) % Mod("long")
    IN  Done([SetReg(SetReg(m, "long", EAX, counter), "long", EDX, 0) EXCEPT !.tsc = counter])

\* The sixteen conditions by the low bits of the opcode.
Condition(n, f) ==
    CASE n = 0 -> "OF" \in f [] n = 1 -> "OF" \notin f
      [] n = 2 -> "CF" \in f [] n = 3 -> "CF" \notin f
      [] n = 4 -> "ZF" \in f [] n = 5 -> "ZF" \notin f
      [] n = 6 -> {"CF", "ZF"} \cap f # {} [] n = 7 -> {"CF", "ZF"} \cap f = {}
      [] n = 8 -> "SF" \in f [] n = 9 -> "SF" \notin f
      [] n = 10 -> "PF" \in f [] n = 11 -> "PF" \notin f
      [] n = 12 -> Less(f) [] n = 13 -> ~Less(f)
      [] n = 14 -> Less(f) \/ "ZF" \in f [] n = 15 -> ~Less(f) /\ "ZF" \notin f

x86emuOp2_long_jump(m, i) ==
    LET n == Fetch(m, "word")
    IN  Done(IF Condition(i.op2 % 16, m.f) THEN Jump(n, n.ip + Signed("word", Imm(i, "word")))
             ELSE n)

\* SETNL has the condition of SETL.
x86emuOp2_set_byte(m, i) ==
    LET n == IF i.op2 % 16 = 13 THEN 12 ELSE i.op2 % 16
    IN  Done(Store(Operand(m, i), i, "byte", Num(Condition(n, m.f))))

x86emuOp2_push_FS(m, i) == PushSeg(m, "FS")
x86emuOp2_pop_FS(m, i) == PopSeg(m, "FS")
x86emuOp2_push_GS(m, i) == PushSeg(m, "GS")
x86emuOp2_pop_GS(m, i) == PopSeg(m, "GS")

\* EAX, EBX, ECX and EDX of the two leaves; the name of the vendor stands for
\* itself in the last three of the first.
Vendor == 1
CpuId(leaf) ==
    CASE leaf = 0 -> <<1, Vendor, Vendor, Vendor>>
      [] leaf = 1 -> <<2 ^ 10 + 2 ^ 7, 0, 0, 2>>
      [] OTHER -> <<0, 0, 0, 0>>

x86emuOp2_cpuid(m, i) ==
    LET v == CpuId(m.r[EAX])
    IN  Done([m EXCEPT !.r[EAX] = v[1], !.r[EBX] = v[2], !.r[ECX] = v[3], !.r[EDX] = v[4]])

-----------------------------------------------------------------------------
(* Bits.  The part of the bit number above the operand selects the place   *)
(* in memory; it counts bytes in the code.                                 *)

SetBit(x, k, b) == x + (Num(b) - Num(Bit(x, k))) * 2 ^ k

\* The bit as an instruction leaves it: set, reset or complemented.
NewBit(kind, b) == CASE kind = "bts" -> TRUE [] kind = "btr" -> FALSE [] kind = "btc" -> ~b

BitOp(m, i, o, n, w, offset, k, kind) ==
    LET v == IF i.mod = 3 THEN Reg(m, w, i.rl) ELSE fetch_data(o.m, w, offset)
        res == WithFlags(n, SetFlags(m.f, [CF |-> Bit(v, k)]))
    IN  Done(IF kind = "bt" THEN res
             ELSE Update(res, i, w, offset, SetBit(v, k, NewBit(kind, Bit(v, k)))))

BitByReg(m, i, kind) ==
    LET w == WL(m)
        o == Operand(m, i)
        disp == Signed("word", Reg(m, "word", i.rh)) \div Bits(w)
    IN  BitOp(m, i, o, o.m, w, (o.offset + disp) % Mod("long"), Reg(m, w, i.rh) % Bits(w), kind)

x86emuOp2_bt_R(m, i) == BitByReg(m, i, "bt")
x86emuOp2_bts_R(m, i) == BitByReg(m, i, "bts")
x86emuOp2_btr_R(m, i) == BitByReg(m, i, "btr")
x86emuOp2_btc_R(m, i) == BitByReg(m, i, "btc")

\* A field rh below 4 halts, and the bit is tested all the same.
x86emuOp2_btX_I(m, i) ==
    LET o == Operand(m, i)
        kind == CASE i.rh = 5 -> "bts" [] i.rh = 6 -> "btr" [] i.rh = 7 -> "btc" [] OTHER -> "bt"
    IN  BitOp(m, i, o, HaltIf(Fetch(o.m, "byte"), i.rh < 4), WL(m), o.offset,
              Imm(i, "byte") % Bits(WL(m)), kind)

Ones(w, v) == {k \in 0..(Bits(w) - 1) : Bit(v, k)}

\* Of no bit the scan forward leaves the width, and the one backward 0.
BitScan(m, i, limit, Choose(_)) ==
    LET o == Operand(m, i)
        v == ValueOf(o, i, WL(m))
        n == IF v = 0 THEN limit ELSE Choose(Ones(WL(m), v))
    IN  Done(WithFlags(SetReg(o.m, WL(m), i.rh, n), SetFlags(m.f, [ZF |-> v = 0])))

x86emuOp2_bsf(m, i) == BitScan(m, i, Bits(WL(m)), Min)
x86emuOp2_bsr(m, i) == BitScan(m, i, 0, Max)

DoubleShiftRM(m, i, n, o, op(_, _, _, _, _), count) ==
    LET res == op(WL(m), m.f, ValueOf(o, i, WL(m)), Reg(m, WL(m), i.rh), count)
    IN  Done(WithFlags(Update(n, i, WL(m), o.offset, res.v), res.f))

Double_IMM(m, i, op(_, _, _, _, _)) ==
    LET o == Operand(m, i)
    IN  DoubleShiftRM(m, i, Fetch(o.m, "byte"), o, op, Imm(i, "byte"))
Double_CL(m, i, op(_, _, _, _, _)) ==
    LET o == Operand(m, i)
    IN  DoubleShiftRM(m, i, o.m, o, op, Reg(m, "byte", ECX))

x86emuOp2_shld_IMM(m, i) == Double_IMM(m, i, shld)
x86emuOp2_shld_CL(m, i) == Double_CL(m, i, shld)
x86emuOp2_shrd_IMM(m, i) == Double_IMM(m, i, shrd)
x86emuOp2_shrd_CL(m, i) == Double_CL(m, i, shrd)

x86emuOp2_imul_R_RM(m, i) == R_RM(m, i, WL(m), ImulLow)

x86emuOp2_lss_R_IMM(m, i) == LoadFar(m, i, "SS")
x86emuOp2_lfs_R_IMM(m, i) == LoadFar(m, i, "FS")
x86emuOp2_lgs_R_IMM(m, i) == LoadFar(m, i, "GS")

\* Moves of a value of width from into a wider register, extended by Extend.
MovWide(m, i, w, from, Extend(_)) ==
    LET o == Operand(m, i)
    IN  Done(SetReg(o.m, w, i.rh, Extend(ValueOf(o, i, from)) % Mod(w)))

x86emuOp2_movzx_byte_R_RM(m, i) == MovWide(m, i, WL(m), "byte", LAMBDA x : x)
x86emuOp2_movzx_word_R_RM(m, i) == MovWide(m, i, "long", "word", LAMBDA x : x)
x86emuOp2_movsx_byte_R_RM(m, i) == MovWide(m, i, WL(m), "byte", LAMBDA x : Signed("byte", x))
x86emuOp2_movsx_word_R_RM(m, i) == MovWide(m, i, "long", "word", LAMBDA x : Signed("word", x))

x86emuOp2_bswap(m, i) ==
    LET n == i.op2 % 8
        byte(k) == (m.r[n] \div 2 ^ (B * k)) % 2 ^ B
    IN  Done(SetReg(m, "long", n, ((byte(0) * 2 ^ B + byte(1)) * 2 ^ B + byte(2)) * 2 ^ B + byte(3)))

-----------------------------------------------------------------------------
(* x86emu_optab2 and x86emu_optab.                                         *)


optab2(m, i) ==
    CASE i.op2 \in 128..143 -> x86emuOp2_long_jump(m, i)
      [] i.op2 \in 144..159 -> x86emuOp2_set_byte(m, i)
      [] i.op2 \in 200..207 -> x86emuOp2_bswap(m, i)
      [] i.op2 = 49 -> x86emuOp2_rdtsc(m, i)
      [] i.op2 = 160 -> x86emuOp2_push_FS(m, i)
      [] i.op2 = 161 -> x86emuOp2_pop_FS(m, i)
      [] i.op2 = 162 -> x86emuOp2_cpuid(m, i)
      [] i.op2 = 163 -> x86emuOp2_bt_R(m, i)
      [] i.op2 = 164 -> x86emuOp2_shld_IMM(m, i)
      [] i.op2 = 165 -> x86emuOp2_shld_CL(m, i)
      [] i.op2 = 168 -> x86emuOp2_push_GS(m, i)
      [] i.op2 = 169 -> x86emuOp2_pop_GS(m, i)
      [] i.op2 = 171 -> x86emuOp2_bts_R(m, i)
      [] i.op2 = 172 -> x86emuOp2_shrd_IMM(m, i)
      [] i.op2 = 173 -> x86emuOp2_shrd_CL(m, i)
      [] i.op2 = 175 -> x86emuOp2_imul_R_RM(m, i)
      [] i.op2 = 178 -> x86emuOp2_lss_R_IMM(m, i)
      [] i.op2 = 179 -> x86emuOp2_btr_R(m, i)
      [] i.op2 = 180 -> x86emuOp2_lfs_R_IMM(m, i)
      [] i.op2 = 181 -> x86emuOp2_lgs_R_IMM(m, i)
      [] i.op2 = 182 -> x86emuOp2_movzx_byte_R_RM(m, i)
      [] i.op2 = 183 -> x86emuOp2_movzx_word_R_RM(m, i)
      [] i.op2 = 186 -> x86emuOp2_btX_I(m, i)
      [] i.op2 = 187 -> x86emuOp2_btc_R(m, i)
      [] i.op2 = 188 -> x86emuOp2_bsf(m, i)
      [] i.op2 = 189 -> x86emuOp2_bsr(m, i)
      [] i.op2 = 190 -> x86emuOp2_movsx_byte_R_RM(m, i)
      [] i.op2 = 191 -> x86emuOp2_movsx_word_R_RM(m, i)
      [] OTHER -> x86emuOp2_illegal_op(m, i)

x86emuOp_two_byte(m, i) == optab2(Fetch(m, "byte"), i)

optab_0x(m, i) ==
    CASE i.op = 0 -> x86emuOp_add_byte_RM_R(m, i)
      [] i.op = 1 -> x86emuOp_add_word_RM_R(m, i)
      [] i.op = 2 -> x86emuOp_add_byte_R_RM(m, i)
      [] i.op = 3 -> x86emuOp_add_word_R_RM(m, i)
      [] i.op = 4 -> x86emuOp_add_byte_AL_IMM(m, i)
      [] i.op = 5 -> x86emuOp_add_word_AX_IMM(m, i)
      [] i.op = 6 -> x86emuOp_push_ES(m, i)
      [] i.op = 7 -> x86emuOp_pop_ES(m, i)
      [] i.op = 8 -> x86emuOp_or_byte_RM_R(m, i)
      [] i.op = 9 -> x86emuOp_or_word_RM_R(m, i)
      [] i.op = 10 -> x86emuOp_or_byte_R_RM(m, i)
      [] i.op = 11 -> x86emuOp_or_word_R_RM(m, i)
      [] i.op = 12 -> x86emuOp_or_byte_AL_IMM(m, i)
      [] i.op = 13 -> x86emuOp_or_word_AX_IMM(m, i)
      [] i.op = 14 -> x86emuOp_push_CS(m, i)
      [] i.op = 15 -> x86emuOp_two_byte(m, i)

optab_1x(m, i) ==
    CASE i.op = 16 -> x86emuOp_adc_byte_RM_R(m, i)
      [] i.op = 17 -> x86emuOp_adc_word_RM_R(m, i)
      [] i.op = 18 -> x86emuOp_adc_byte_R_RM(m, i)
      [] i.op = 19 -> x86emuOp_adc_word_R_RM(m, i)
      [] i.op = 20 -> x86emuOp_adc_byte_AL_IMM(m, i)
      [] i.op = 21 -> x86emuOp_adc_word_AX_IMM(m, i)
      [] i.op = 22 -> x86emuOp_push_SS(m, i)
      [] i.op = 23 -> x86emuOp_pop_SS(m, i)
      [] i.op = 24 -> x86emuOp_sbb_byte_RM_R(m, i)
      [] i.op = 25 -> x86emuOp_sbb_word_RM_R(m, i)
      [] i.op = 26 -> x86emuOp_sbb_byte_R_RM(m, i)
      [] i.op = 27 -> x86emuOp_sbb_word_R_RM(m, i)
      [] i.op = 28 -> x86emuOp_sbb_byte_AL_IMM(m, i)
      [] i.op = 29 -> x86emuOp_sbb_word_AX_IMM(m, i)
      [] i.op = 30 -> x86emuOp_push_DS(m, i)
      [] i.op = 31 -> x86emuOp_pop_DS(m, i)

optab_2x(m, i) ==
    CASE i.op = 32 -> x86emuOp_and_byte_RM_R(m, i)
      [] i.op = 33 -> x86emuOp_and_word_RM_R(m, i)
      [] i.op = 34 -> x86emuOp_and_byte_R_RM(m, i)
      [] i.op = 35 -> x86emuOp_and_word_R_RM(m, i)
      [] i.op = 36 -> x86emuOp_and_byte_AL_IMM(m, i)
      [] i.op = 37 -> x86emuOp_and_word_AX_IMM(m, i)
      [] i.op = 38 -> x86emuOp_segovr_ES(m, i)
      [] i.op = 39 -> x86emuOp_daa(m, i)
      [] i.op = 40 -> x86emuOp_sub_byte_RM_R(m, i)
      [] i.op = 41 -> x86emuOp_sub_word_RM_R(m, i)
      [] i.op = 42 -> x86emuOp_sub_byte_R_RM(m, i)
      [] i.op = 43 -> x86emuOp_sub_word_R_RM(m, i)
      [] i.op = 44 -> x86emuOp_sub_byte_AL_IMM(m, i)
      [] i.op = 45 -> x86emuOp_sub_word_AX_IMM(m, i)
      [] i.op = 46 -> x86emuOp_segovr_CS(m, i)
      [] i.op = 47 -> x86emuOp_das(m, i)

optab_3x(m, i) ==
    CASE i.op = 48 -> x86emuOp_xor_byte_RM_R(m, i)
      [] i.op = 49 -> x86emuOp_xor_word_RM_R(m, i)
      [] i.op = 50 -> x86emuOp_xor_byte_R_RM(m, i)
      [] i.op = 51 -> x86emuOp_xor_word_R_RM(m, i)
      [] i.op = 52 -> x86emuOp_xor_byte_AL_IMM(m, i)
      [] i.op = 53 -> x86emuOp_xor_word_AX_IMM(m, i)
      [] i.op = 54 -> x86emuOp_segovr_SS(m, i)
      [] i.op = 55 -> x86emuOp_aaa(m, i)
      [] i.op = 56 -> x86emuOp_cmp_byte_RM_R(m, i)
      [] i.op = 57 -> x86emuOp_cmp_word_RM_R(m, i)
      [] i.op = 58 -> x86emuOp_cmp_byte_R_RM(m, i)
      [] i.op = 59 -> x86emuOp_cmp_word_R_RM(m, i)
      [] i.op = 60 -> x86emuOp_cmp_byte_AL_IMM(m, i)
      [] i.op = 61 -> x86emuOp_cmp_word_AX_IMM(m, i)
      [] i.op = 62 -> x86emuOp_segovr_DS(m, i)
      [] i.op = 63 -> x86emuOp_aas(m, i)

optab_4x(m, i) ==
    CASE i.op = 64 -> x86emuOp_inc_AX(m, i)
      [] i.op = 65 -> x86emuOp_inc_CX(m, i)
      [] i.op = 66 -> x86emuOp_inc_DX(m, i)
      [] i.op = 67 -> x86emuOp_inc_BX(m, i)
      [] i.op = 68 -> x86emuOp_inc_SP(m, i)
      [] i.op = 69 -> x86emuOp_inc_BP(m, i)
      [] i.op = 70 -> x86emuOp_inc_SI(m, i)
      [] i.op = 71 -> x86emuOp_inc_DI(m, i)
      [] i.op = 72 -> x86emuOp_dec_AX(m, i)
      [] i.op = 73 -> x86emuOp_dec_CX(m, i)
      [] i.op = 74 -> x86emuOp_dec_DX(m, i)
      [] i.op = 75 -> x86emuOp_dec_BX(m, i)
      [] i.op = 76 -> x86emuOp_dec_SP(m, i)
      [] i.op = 77 -> x86emuOp_dec_BP(m, i)
      [] i.op = 78 -> x86emuOp_dec_SI(m, i)
      [] i.op = 79 -> x86emuOp_dec_DI(m, i)

optab_5x(m, i) ==
    CASE i.op = 80 -> x86emuOp_push_AX(m, i)
      [] i.op = 81 -> x86emuOp_push_CX(m, i)
      [] i.op = 82 -> x86emuOp_push_DX(m, i)
      [] i.op = 83 -> x86emuOp_push_BX(m, i)
      [] i.op = 84 -> x86emuOp_push_SP(m, i)
      [] i.op = 85 -> x86emuOp_push_BP(m, i)
      [] i.op = 86 -> x86emuOp_push_SI(m, i)
      [] i.op = 87 -> x86emuOp_push_DI(m, i)
      [] i.op = 88 -> x86emuOp_pop_AX(m, i)
      [] i.op = 89 -> x86emuOp_pop_CX(m, i)
      [] i.op = 90 -> x86emuOp_pop_DX(m, i)
      [] i.op = 91 -> x86emuOp_pop_BX(m, i)
      [] i.op = 92 -> x86emuOp_pop_SP(m, i)
      [] i.op = 93 -> x86emuOp_pop_BP(m, i)
      [] i.op = 94 -> x86emuOp_pop_SI(m, i)
      [] i.op = 95 -> x86emuOp_pop_DI(m, i)

optab_6x(m, i) ==
    CASE i.op = 96 -> x86emuOp_push_all(m, i)
      [] i.op = 97 -> x86emuOp_pop_all(m, i)
      [] i.op = 100 -> x86emuOp_segovr_FS(m, i)
      [] i.op = 101 -> x86emuOp_segovr_GS(m, i)
      [] i.op = 102 -> x86emuOp_prefix_data(m, i)
      [] i.op = 103 -> x86emuOp_prefix_addr(m, i)
      [] i.op = 104 -> x86emuOp_push_word_IMM(m, i)
      [] i.op = 105 -> x86emuOp_imul_word_IMM(m, i)
      [] i.op = 106 -> x86emuOp_push_byte_IMM(m, i)
      [] i.op = 107 -> x86emuOp_imul_byte_IMM(m, i)
      [] i.op = 108 -> x86emuOp_ins_byte(m, i)
      [] i.op = 109 -> x86emuOp_ins_word(m, i)
      [] i.op = 110 -> x86emuOp_outs_byte(m, i)
      [] i.op = 111 -> x86emuOp_outs_word(m, i)
      [] OTHER -> x86emuOp_illegal_op(m, i)

optab_7x(m, i) ==
    CASE i.op = 112 -> x86emuOp_jump_near_O(m, i)
      [] i.op = 113 -> x86emuOp_jump_near_NO(m, i)
      [] i.op = 114 -> x86emuOp_jump_near_B(m, i)
      [] i.op = 115 -> x86emuOp_jump_near_NB(m, i)
      [] i.op = 116 -> x86emuOp_jump_near_Z(m, i)
      [] i.op = 117 -> x86emuOp_jump_near_NZ(m, i)
      [] i.op = 118 -> x86emuOp_jump_near_BE(m, i)
      [] i.op = 119 -> x86emuOp_jump_near_NBE(m, i)
      [] i.op = 120 -> x86emuOp_jump_near_S(m, i)
      [] i.op = 121 -> x86emuOp_jump_near_NS(m, i)
      [] i.op = 122 -> x86emuOp_jump_near_P(m, i)
      [] i.op = 123 -> x86emuOp_jump_near_NP(m, i)
      [] i.op = 124 -> x86emuOp_jump_near_L(m, i)
      [] i.op = 125 -> x86emuOp_jump_near_NL(m, i)
      [] i.op = 126 -> x86emuOp_jump_near_LE(m, i)
      [] i.op = 127 -> x86emuOp_jump_near_NLE(m, i)

optab_8x(m, i) ==
    CASE i.op = 128 -> x86emuOp_opc80_byte_RM_IMM(m, i)
      [] i.op = 129 -> x86emuOp_opc81_word_RM_IMM(m, i)
      [] i.op = 130 -> x86emuOp_opc82_byte_RM_IMM(m, i)
      [] i.op = 131 -> x86emuOp_opc83_word_RM_IMM(m, i)
      [] i.op = 132 -> x86emuOp_test_byte_RM_R(m, i)
      [] i.op = 133 -> x86emuOp_test_word_RM_R(m, i)
      [] i.op = 134 -> x86emuOp_xchg_byte_RM_R(m, i)
      [] i.op = 135 -> x86emuOp_xchg_word_RM_R(m, i)
      [] i.op = 136 -> x86emuOp_mov_byte_RM_R(m, i)
      [] i.op = 137 -> x86emuOp_mov_word_RM_R(m, i)
      [] i.op = 138 -> x86emuOp_mov_byte_R_RM(m, i)
      [] i.op = 139 -> x86emuOp_mov_word_R_RM(m, i)
      [] i.op = 140 -> x86emuOp_mov_word_RM_SR(m, i)
      [] i.op = 141 -> x86emuOp_lea_word_R_M(m, i)
      [] i.op = 142 -> x86emuOp_mov_word_SR_RM(m, i)
      [] i.op = 143 -> x86emuOp_pop_RM(m, i)

optab_9x(m, i) ==
    CASE i.op = 144 -> x86emuOp_nop(m, i)
      [] i.op = 145 -> x86emuOp_xchg_word_AX_CX(m, i)
      [] i.op = 146 -> x86emuOp_xchg_word_AX_DX(m, i)
      [] i.op = 147 -> x86emuOp_xchg_word_AX_BX(m, i)
      [] i.op = 148 -> x86emuOp_xchg_word_AX_SP(m, i)
      [] i.op = 149 -> x86emuOp_xchg_word_AX_BP(m, i)
      [] i.op = 150 -> x86emuOp_xchg_word_AX_SI(m, i)
      [] i.op = 151 -> x86emuOp_xchg_word_AX_DI(m, i)
      [] i.op = 152 -> x86emuOp_cbw(m, i)
      [] i.op = 153 -> x86emuOp_cwd(m, i)
      [] i.op = 154 -> x86emuOp_call_far_IMM(m, i)
      [] i.op = 155 -> x86emuOp_wait(m, i)
      [] i.op = 156 -> x86emuOp_pushf_word(m, i)
      [] i.op = 157 -> x86emuOp_popf_word(m, i)
      [] i.op = 158 -> x86emuOp_sahf(m, i)
      [] i.op = 159 -> x86emuOp_lahf(m, i)

optab_Ax(m, i) ==
    CASE i.op = 160 -> x86emuOp_mov_AL_M_IMM(m, i)
      [] i.op = 161 -> x86emuOp_mov_AX_M_IMM(m, i)
      [] i.op = 162 -> x86emuOp_mov_M_AL_IMM(m, i)
      [] i.op = 163 -> x86emuOp_mov_M_AX_IMM(m, i)
      [] i.op = 164 -> x86emuOp_movs_byte(m, i)
      [] i.op = 165 -> x86emuOp_movs_word(m, i)
      [] i.op = 166 -> x86emuOp_cmps_byte(m, i)
      [] i.op = 167 -> x86emuOp_cmps_word(m, i)
      [] i.op = 168 -> x86emuOp_test_AL_IMM(m, i)
      [] i.op = 169 -> x86emuOp_test_AX_IMM(m, i)
      [] i.op = 170 -> x86emuOp_stos_byte(m, i)
      [] i.op = 171 -> x86emuOp_stos_word(m, i)
      [] i.op = 172 -> x86emuOp_lods_byte(m, i)
      [] i.op = 173 -> x86emuOp_lods_word(m, i)
      [] i.op = 174 -> x86emuOp_scas_byte(m, i)
      [] i.op = 175 -> x86emuOp_scas_word(m, i)

optab_Bx(m, i) ==
    CASE i.op = 176 -> x86emuOp_mov_byte_AL_IMM(m, i)
      [] i.op = 177 -> x86emuOp_mov_byte_CL_IMM(m, i)
      [] i.op = 178 -> x86emuOp_mov_byte_DL_IMM(m, i)
      [] i.op = 179 -> x86emuOp_mov_byte_BL_IMM(m, i)
      [] i.op = 180 -> x86emuOp_mov_byte_AH_IMM(m, i)
      [] i.op = 181 -> x86emuOp_mov_byte_CH_IMM(m, i)
      [] i.op = 182 -> x86emuOp_mov_byte_DH_IMM(m, i)
      [] i.op = 183 -> x86emuOp_mov_byte_BH_IMM(m, i)
      [] i.op = 184 -> x86emuOp_mov_word_AX_IMM(m, i)
      [] i.op = 185 -> x86emuOp_mov_word_CX_IMM(m, i)
      [] i.op = 186 -> x86emuOp_mov_word_DX_IMM(m, i)
      [] i.op = 187 -> x86emuOp_mov_word_BX_IMM(m, i)
      [] i.op = 188 -> x86emuOp_mov_word_SP_IMM(m, i)
      [] i.op = 189 -> x86emuOp_mov_word_BP_IMM(m, i)
      [] i.op = 190 -> x86emuOp_mov_word_SI_IMM(m, i)
      [] i.op = 191 -> x86emuOp_mov_word_DI_IMM(m, i)

optab_Cx(m, i) ==
    CASE i.op = 192 -> x86emuOp_opcC0_byte_RM_MEM(m, i)
      [] i.op = 193 -> x86emuOp_opcC1_word_RM_MEM(m, i)
      [] i.op = 194 -> x86emuOp_ret_near_IMM(m, i)
      [] i.op = 195 -> x86emuOp_ret_near(m, i)
      [] i.op = 196 -> x86emuOp_les_R_IMM(m, i)
      [] i.op = 197 -> x86emuOp_lds_R_IMM(m, i)
      [] i.op = 198 -> x86emuOp_mov_byte_RM_IMM(m, i)
      [] i.op = 199 -> x86emuOp_mov_word_RM_IMM(m, i)
      [] i.op = 200 -> x86emuOp_enter(m, i)
      [] i.op = 201 -> x86emuOp_leave(m, i)
      [] i.op = 202 -> x86emuOp_ret_far_IMM(m, i)
      [] i.op = 203 -> x86emuOp_ret_far(m, i)
      [] i.op = 204 -> x86emuOp_int3(m, i)
      [] i.op = 205 -> x86emuOp_int_IMM(m, i)
      [] i.op = 206 -> x86emuOp_into(m, i)
      [] i.op = 207 -> x86emuOp_iret(m, i)

optab_Dx(m, i) ==
    CASE i.op = 208 -> x86emuOp_opcD0_byte_RM_1(m, i)
      [] i.op = 209 -> x86emuOp_opcD1_word_RM_1(m, i)
      [] i.op = 210 -> x86emuOp_opcD2_byte_RM_CL(m, i)
      [] i.op = 211 -> x86emuOp_opcD3_word_RM_CL(m, i)
      [] i.op = 212 -> x86emuOp_aam(m, i)
      [] i.op = 213 -> x86emuOp_aad(m, i)
      [] i.op = 215 -> x86emuOp_xlat(m, i)
      [] i.op = 216 -> x86emuOp_esc_coprocess_d8(m, i)
      [] i.op = 217 -> x86emuOp_esc_coprocess_d9(m, i)
      [] i.op = 218 -> x86emuOp_esc_coprocess_da(m, i)
      [] i.op = 219 -> x86emuOp_esc_coprocess_db(m, i)
      [] i.op = 220 -> x86emuOp_esc_coprocess_dc(m, i)
      [] i.op = 221 -> x86emuOp_esc_coprocess_dd(m, i)
      [] i.op = 222 -> x86emuOp_esc_coprocess_de(m, i)
      [] i.op = 223 -> x86emuOp_esc_coprocess_df(m, i)
      [] OTHER -> x86emuOp_illegal_op(m, i)

optab_Ex(m, i) ==
    CASE i.op = 224 -> x86emuOp_loopne(m, i)
      [] i.op = 225 -> x86emuOp_loope(m, i)
      [] i.op = 226 -> x86emuOp_loop(m, i)
      [] i.op = 227 -> x86emuOp_jcxz(m, i)
      [] i.op = 228 -> x86emuOp_in_byte_AL_IMM(m, i)
      [] i.op = 229 -> x86emuOp_in_word_AX_IMM(m, i)
      [] i.op = 230 -> x86emuOp_out_byte_IMM_AL(m, i)
      [] i.op = 231 -> x86emuOp_out_word_IMM_AX(m, i)
      [] i.op = 232 -> x86emuOp_call_near_IMM(m, i)
      [] i.op = 233 -> x86emuOp_jump_near_IMM(m, i)
      [] i.op = 234 -> x86emuOp_jump_far_IMM(m, i)
      [] i.op = 235 -> x86emuOp_jump_byte_IMM(m, i)
      [] i.op = 236 -> x86emuOp_in_byte_AL_DX(m, i)
      [] i.op = 237 -> x86emuOp_in_word_AX_DX(m, i)
      [] i.op = 238 -> x86emuOp_out_byte_DX_AL(m, i)
      [] i.op = 239 -> x86emuOp_out_word_DX_AX(m, i)

optab_Fx(m, i) ==
    CASE i.op = 240 -> x86emuOp_lock(m, i)
      [] i.op = 242 -> x86emuOp_repne(m, i)
      [] i.op = 243 -> x86emuOp_repe(m, i)
      [] i.op = 244 -> x86emuOp_halt(m, i)
      [] i.op = 245 -> x86emuOp_cmc(m, i)
      [] i.op = 246 -> x86emuOp_opcF6_byte_RM(m, i)
      [] i.op = 247 -> x86emuOp_opcF7_word_RM(m, i)
      [] i.op = 248 -> x86emuOp_clc(m, i)
      [] i.op = 249 -> x86emuOp_stc(m, i)
      [] i.op = 250 -> x86emuOp_cli(m, i)
      [] i.op = 251 -> x86emuOp_sti(m, i)
      [] i.op = 252 -> x86emuOp_cld(m, i)
      [] i.op = 253 -> x86emuOp_std(m, i)
      [] i.op = 254 -> x86emuOp_opcFE_byte_RM(m, i)
      [] i.op = 255 -> x86emuOp_opcFF_word_RM(m, i)
      [] OTHER -> x86emuOp_illegal_op(m, i)

optab(m, i) ==
    CASE i.op \div 16 = 0 -> optab_0x(m, i)
      [] i.op \div 16 = 1 -> optab_1x(m, i)
      [] i.op \div 16 = 2 -> optab_2x(m, i)
      [] i.op \div 16 = 3 -> optab_3x(m, i)
      [] i.op \div 16 = 4 -> optab_4x(m, i)
      [] i.op \div 16 = 5 -> optab_5x(m, i)
      [] i.op \div 16 = 6 -> optab_6x(m, i)
      [] i.op \div 16 = 7 -> optab_7x(m, i)
      [] i.op \div 16 = 8 -> optab_8x(m, i)
      [] i.op \div 16 = 9 -> optab_9x(m, i)
      [] i.op \div 16 = 10 -> optab_Ax(m, i)
      [] i.op \div 16 = 11 -> optab_Bx(m, i)
      [] i.op \div 16 = 12 -> optab_Cx(m, i)
      [] i.op \div 16 = 13 -> optab_Dx(m, i)
      [] i.op \div 16 = 14 -> optab_Ex(m, i)
      [] i.op \div 16 = 15 -> optab_Fx(m, i)

-----------------------------------------------------------------------------
(* The service and its loop.                                               *)

\* The table of the handlers is a variable of the code that the loop calls
\* through; it holds optab.
CONSTANT x86emu_optab(_, _)

CONSTANTS
    Starts,             \* the registers and flags the caller may pass
    Services,           \* the interrupts the kernel calls
    First, Second,      \* the instructions of the firmware
    HltAt, StackTop,    \* 0x500 and 0x7E00 in the code
    MaxSteps            \* the iterations of the loop that are followed

VARIABLES
    m,          \* the machine
    phase,      \* "idle", "exec" or "returned"
    run,        \* the instructions executed, one in each iteration so far
    entry,      \* the machine as the handler was entered
    before,     \* the machine before the last instruction
    tame        \* no instruction touched the stack but to enter a handler

vars == <<m, phase, run, entry, before, tame>>

k == Len(run)
ir == run[k]

Ins(op) == [op |-> op, op2 |-> 0, mod |-> 3, rh |-> 0, rl |-> 0, base |-> 0, index |-> 4,
            scale |-> 0, disp |-> 0, imm |-> 0, imm2 |-> 0, port |-> 0]
HLT == 244
IRET == 207

Machine(s) ==
    [r |-> s.r, f |-> s.f, seg |-> s.seg, ip |-> 0, mem |-> <<>>, mode |-> {}, intr |-> {},
     intno |-> 0, tsc |-> 0, out |-> <<>>]

Init ==
    /\ \E s \in Starts : m = Machine(s)
    /\ phase = "idle" /\ run = <<>> /\ tame = TRUE
    /\ entry = m /\ before = m

X86EMU_prepareForInt(x, n) == [Interrupt(x, n) EXCEPT !.intr = {}]

executeInterrupt(n) ==
    LET hlt == HLT % Mod("byte")
        x == [m EXCEPT !.mem = [a \in HltAt..(HltAt + 3) |-> hlt] @@ @,
                       !.seg["CS"] = 0, !.ip = HltAt, !.seg["SS"] = 0, !.r[ESP] = StackTop]
    IN  /\ phase = "idle"
        /\ m' = X86EMU_prepareForInt(x, n)
        /\ phase' = "exec" /\ entry' = x /\ before' = m'
        /\ UNCHANGED <<run, tame>>

x86emu_intr_handle_Again(x) ==
    IF "SYNCH" \in x.intr THEN Interrupt(x, x.intno) ELSE x

x86emu_intr_handle(x) ==
    IF "SYNCH" \in x.intr THEN [Interrupt(x, x.intno) EXCEPT !.intr = {}] ELSE x

\* What is pending is handled when it is a fault, or when the flag IF is off.
Handled(x) ==
    IF /\ x.intr # {}
       /\ "IF" \in x.f => "SYNCH" \in x.intr /\ x.intno \in {0, 2}
    THEN x86emu_intr_handle(x) ELSE x

AtHlt(x) == Linear(x.seg["CS"], x.ip) \in HltAt..(HltAt + 3)

\* The program: what is at CS:IP of x.
Program(x) ==
    CASE AtHlt(x) -> {Ins(HLT)}
      [] ~AtHlt(x) /\ k = 0 -> First
      [] ~AtHlt(x) /\ k = 1 -> Second
      [] OTHER -> {Ins(IRET)}

Interrupts == {204, 205, 206}

\* An iteration of the loop of X86EMU_exec.
Execute ==
    /\ phase = "exec" /\ k < MaxSteps
    /\ "HALTED" \notin m.intr
    /\ k < 2 \/ tame
    /\ LET x == Handled(m)
       IN  \E i \in Program(x) :
            /\ m' = x86emu_optab(Fetch(x, "byte"), i)
            /\ run' = Append(run, i) /\ before' = x
            /\ tame' = (tame /\ (\/ i.op \in Interrupts \cup {IRET}
                                 \/ /\ m'.seg = x.seg /\ m'.r[ESP] = x.r[ESP] /\ m'.mem = x.mem
                                    /\ "HALTED" \in m'.intr => AtHlt(x)))
    /\ UNCHANGED <<phase, entry>>

Return ==
    /\ phase = "exec" /\ "HALTED" \in m.intr
    /\ phase' = "returned"
    /\ UNCHANGED <<m, run, entry, before, tame>>

Next == (\E n \in Services : executeInterrupt(n)) \/ Execute \/ Return

Spec == Init /\ [][Next]_vars

-----------------------------------------------------------------------------
(* A service that leaves the stack as it is returns to the kernel with the *)
(* stack pointer, the flags and the HLT it started from, whatever faults   *)
(* and interrupts it takes on the way, and however short it is.            *)
ServiceReturns ==
    tame =>
      /\ k < MaxSteps
      /\ phase = "returned" =>
            /\ m.r[ESP] = StackTop /\ m.seg["SS"] = 0 /\ m.seg["CS"] = 0
            /\ m.ip = HltAt + 1 /\ m.f = entry.f

\* The opcodes of prefixes, and of the instructions that repeat.
PrefixOps == {38, 46, 54, 62, 100, 101, 102, 103, 240, 242, 243}
Repeating == {108, 109, 110, 111, 164, 165, 166, 167, 170, 171, 172, 173, 174, 175}

(* No instruction runs under a prefix that another one was given: all but  *)
(* the prefixes themselves end with the overrides and sizes forgotten,     *)
(* unless they halt the machine, and a string instruction uses its repeat  *)
(* prefix up.                                                              *)
PrefixesConsumed ==
    k > 0 /\ ir.op \notin PrefixOps /\ m.intr = {} =>
      /\ m.mode \cap CLRMASK = {}
      /\ ir.op \in Repeating /\ ~(PREFIX_REP \subseteq before.mode) =>
            m.mode \cap PREFIX_REP = {}

-----------------------------------------------------------------------------
(* What the fields of the regular opcodes say: bits 5 to 3 or the field rh *)
(* are the operation, bit 0 the width, bit 1 the direction, the low bits a *)
(* register, the low four a condition of which the last one negates.       *)

Holds(c, f) ==
    LET less == ("SF" \in f) # ("OF" \in f)
        base == <<"OF" \in f, "CF" \in f, "ZF" \in f, "CF" \in f \/ "ZF" \in f,
                  "SF" \in f, "PF" \in f, less, less \/ "ZF" \in f>>
    IN  base[(c \div 2) + 1] # (c % 2 = 1)

ByFields(x, i) ==
    LET w == IF i.op % 2 = 0 THEN "byte" ELSE WL(x)
        n == i.op % 8
        o == Operand(x, i)
        v == ValueOf(o, i, w)
        r == Reg(x, w, i.rh)
        alu(d, s) == Opc8x(i.op \div 8, w, x.f, d, s)
        imm == IF i.op = 131 THEN Sext(w, Imm(i, "byte")) ELSE Imm(i, w)
        past == Fetch(o.m, IF i.op = 131 THEN "byte" ELSE w)
        op == Opc8x(i.rh, w, x.f, v, imm)
        count == CASE i.op < 208 -> Imm(i, "byte") [] i.op \in {208, 209} -> 1
                   [] i.op \in {210, 211} -> Reg(x, "byte", ECX)
        sh == OpcDx(i.rh, w, x.f, v, count)
        short == Fetch(x, "byte")
        mw == IF i.op < 184 THEN "byte" ELSE WL(x)
        one == IF i.op < 72 THEN inc(WL(x), x.f, Reg(x, WL(x), n)) ELSE dec(WL(x), x.f, Reg(x, WL(x), n))
    IN  CASE i.op < 56 /\ n < 2 -> WithFlags(Store(o, i, w, alu(v, r).v), alu(v, r).f)
          [] i.op < 64 /\ n \in {2, 3} -> WithFlags(SetReg(o.m, w, i.rh, alu(r, v).v), alu(r, v).f)
          [] i.op < 64 /\ n \in {4, 5} ->
                WithFlags(SetReg(Fetch(x, w), w, EAX, alu(Acc(x, w), imm).v), alu(Acc(x, w), imm).f)
          [] i.op \in 64..79 -> WithFlags(SetReg(x, WL(x), n, one.v), one.f)
          [] i.op \in 80..87 -> push(x, WL(x), Reg(x, WL(x), n))
          [] i.op \in 88..95 -> SetReg(pop(x, WL(x)), WL(x), n, Popped(x, WL(x)))
          [] i.op \in 112..127 ->
                IF Holds(i.op % 16, x.f) THEN Jump(short, short.ip + Signed("byte", Imm(i, "byte")))
                ELSE short
          [] i.op \in 128..131 ->
                WithFlags(IF i.rh = 7 THEN past ELSE Update(past, i, w, o.offset, op.v), op.f)
          [] i.op \in {136, 137} -> Store(o, i, w, r)
          [] i.op \in {138, 139} -> SetReg(o.m, w, i.rh, v)
          [] i.op \in 145..151 ->
                [x EXCEPT !.r = [@ EXCEPT ![EAX] = WithLow(@, WL(x), Reg(x, WL(x), n)),
                                          ![n] = WithLow(@, WL(x), Acc(x, WL(x)))]]
          [] i.op \in 176..191 -> SetReg(Fetch(x, mw), mw, n, Imm(i, mw))
          [] i.op \in {192, 193} \cup (208..211) ->
                WithFlags(Update(IF i.op < 208 THEN Fetch(o.m, "byte") ELSE o.m,
                                 i, w, o.offset, sh.v), sh.f)

Regular(i) ==
    \/ i.op < 56 /\ i.op % 8 < 6
    \/ i.op \in 58..61
    \/ i.op \in (64..95) \cup (112..131) \cup (136..139) \cup (145..151) \cup (176..193) \cup (208..211)

(* The handler that x86emu_optab gives a regular opcode does what the      *)
(* fields of the opcode say, at every width, with every operand, under     *)
(* every prefix, and nothing else.                                         *)
FieldsDecide ==
    k > 0 /\ Regular(ir) => m = DECODE_CLEAR_SEGOVR(ByFields(Fetch(before, "byte"), ir))

\* The relation of two operands that a condition stands for after CMP.
Relation(c, w, d, s) ==
    LET a == Signed(w, d)
        b == Signed(w, s)
        n == c \div 2
        rel == CASE n = 0 -> a - b \notin -(Mod(w) \div 2)..(Mod(w) \div 2 - 1)
                 [] n = 1 -> d < s [] n = 2 -> d = s [] n = 3 -> d <= s
                 [] n = 4 -> (d - s) % Mod(w) >= Mod(w) \div 2
                 [] n = 6 -> a < b [] n = 7 -> a <= b
    IN  rel # (c % 2 = 1)

(* After a comparison of AL or AX with a number every conditional jump,    *)
(* short or near, is taken, and every SETcc sets its byte, exactly when    *)
(* the operands are in the relation its condition names, as unsigned or as *)
(* signed numbers.  SETNL is the exception: it does what SETL does.        *)
BranchesCompare ==
    LET w == IF run[1].op = 60 THEN "byte" ELSE "word"
        d == Acc(before, w)
        s == Imm(run[1], w)
        c == IF ir.op = 15 THEN ir.op2 % 16 ELSE ir.op % 16
        relation == Relation(c, w, d, s)
        jumped(n) == m.ip # (before.ip + n) % Mod("word")
    IN  k = 2 /\ run[1].op \in {60, 61} =>
          /\ ir.op \in (112..127) \ {122, 123} => jumped(2) = relation
          /\ ir.op = 15 /\ ir.op2 \in (128..143) \ {138, 139} =>
                jumped(4) = relation
          /\ ir.op = 15 /\ ir.op2 \in (144..159) \ {154, 155, 157} /\ ir.mod = 3 =>
                Reg(m, "byte", ir.rl) = Num(relation)

=============================================================================
