------------------------------ MODULE X86Prim ------------------------------
(***************************************************************************)
(* The arithmetic of the real mode emulator (firmware/ibmPcBios/           *)
(* prim_ops.c), which carries out the instructions of the firmware when    *)
(* the kernel calls a BIOS service.  The source has each primitive three   *)
(* times, for bytes, words and longs; here the width is a parameter w.     *)
(* A byte has B bits, a word 2B and a long 4B (B is 8 in the code), a      *)
(* nibble half a byte, and Radix is the radix of the packed decimal        *)
(* adjustments (10 in the code).                                           *)
(*                                                                         *)
(* A primitive takes the flags f (the set of the flags that are on) and    *)
(* its operands, and yields a record with the result v and the flags f     *)
(* that it leaves.  The code is compiled without __HAS_LONG_LONG__.        *)
(***************************************************************************)
EXTENDS Integers, FiniteSets, TLC, Bitwise

CONSTANTS B, Radix

Nibble == B \div 2

Size(w) == CASE w = "byte" -> 1 [] w = "word" -> 2 [] w = "long" -> 4
Bits(w) == B * Size(w)
Mod(w) == 2 ^ Bits(w)
Values(w) == 0..(Mod(w) - 1)

Bit(x, k) == (x \div 2 ^ k) % 2 = 1
Msb(w, x) == Bit(x, Bits(w) - 1)
Num(b) == IF b THEN 1 ELSE 0
Signed(w, x) == IF Msb(w, x) THEN x - Mod(w) ELSE x

\* Shifts of a value of width w: the bits that leave it are lost.
Shl(w, x, c) == IF c >= Bits(w) THEN 0 ELSE (x % 2 ^ (Bits(w) - c)) * 2 ^ c
Shr(w, x, c) == IF c >= Bits(w) THEN 0 ELSE x \div 2 ^ c

Flags == {"CF", "PF", "AF", "ZF", "SF", "TF", "IF", "DF", "OF"}

\* CONDITIONAL_SET_FLAG for every flag of the record u, the others as in f.
SetFlags(f, u) == (f \ DOMAIN u) \cup {x \in DOMAIN u : u[x]}

\* The parity table holds whether the low byte has an even number of ones.
PARITY(x) == Cardinality({k \in 0..(B - 1) : Bit(x, k)}) % 2 = 0

SZP(w, v) == [SF |-> Msb(w, v), ZF |-> v = 0, PF |-> PARITY(v)]

-----------------------------------------------------------------------------
(* Addition and subtraction: the carries and borrows are read off the      *)
(* bits of the operands and of the result.                                 *)

cc(d, s, res, k) ==
    \/ Bit(s, k) /\ Bit(d, k)
    \/ ~Bit(res, k) /\ (Bit(s, k) \/ Bit(d, k))

bc(d, s, res, k) ==
    \/ Bit(res, k) /\ (~Bit(d, k) \/ Bit(s, k))
    \/ ~Bit(d, k) /\ Bit(s, k)

Sum(w, f, d, s, carry) ==
    LET n == Bits(w)
        res == d + s + carry
    IN  [v |-> res % Mod(w),
         f |-> SetFlags(f, SZP(w, res % Mod(w)) @@
                 [CF |-> Bit(res, n),
                  OF |-> cc(d, s, res, n - 1) # cc(d, s, res, n - 2),
                  AF |-> cc(d, s, res, Nibble - 1)])]

Difference(w, f, d, s, borrow) ==
    LET n == Bits(w)
        res == (d - s - borrow) % Mod(w)
    IN  [v |-> res,
         f |-> SetFlags(f, SZP(w, res) @@
                 [CF |-> bc(d, s, res, n - 1),
                  OF |-> bc(d, s, res, n - 1) # bc(d, s, res, n - 2),
                  AF |-> bc(d, s, res, Nibble - 1)])]

adc_CarryDropped(w, f, d, s) == Sum(w, f, d, s, 0)

adc(w, f, d, s) == Sum(w, f, d, s, Num("CF" \in f))
add(w, f, d, s) == Sum(w, f, d, s, 0)
sbb(w, f, d, s) == Difference(w, f, d, s, Num("CF" \in f))
sub(w, f, d, s) == Difference(w, f, d, s, 0)
cmp(w, f, d, s) == [v |-> d, f |-> Difference(w, f, d, s, 0).f]

\* INC and DEC leave the carry flag alone.
KeepCF(f, r) == [r EXCEPT !.f = SetFlags(@, [CF |-> "CF" \in f])]
inc(w, f, d) == KeepCF(f, Sum(w, f, d, 1, 0))
dec(w, f, d) == KeepCF(f, Difference(w, f, d, 1, 0))

neg(w, f, s) ==
    LET n == Bits(w)
        res == (-s) % Mod(w)
        b(k) == Bit(res, k) \/ Bit(s, k)
    IN  [v |-> res,
         f |-> SetFlags(f, SZP(w, res) @@
                 [CF |-> s # 0, OF |-> b(n - 1) # b(n - 2), AF |-> b(Nibble - 1)])]

not(w, s) == Mod(w) - 1 - s

Logical(w, f, res) ==
    [v |-> res,
     f |-> SetFlags(f, SZP(w, res) @@ [CF |-> FALSE, OF |-> FALSE, AF |-> FALSE])]

and(w, f, d, s) == Logical(w, f, d & s)
or(w, f, d, s) == Logical(w, f, d | s)
xor(w, f, d, s) == Logical(w, f, d ^^ s)

\* TEST keeps no result, and leaves the AF flag alone.
test(w, f, d, s) == SetFlags(f, SZP(w, d & s) @@ [CF |-> FALSE, OF |-> FALSE])

-----------------------------------------------------------------------------
(* Packed and unpacked decimals, on AX or AL.                              *)

Low(d) == d % 2 ^ Nibble
Adjust == 2 ^ Nibble - Radix

Ascii(f, d, sign) ==
    LET over == Low(d) > Radix - 1 \/ "AF" \in f
        e == IF over THEN (d + sign * (Adjust + 2 ^ B)) % Mod("word") ELSE d
        res == (e \div 2 ^ B) * 2 ^ B + Low(e)
    IN  [v |-> res,
         f |-> SetFlags(f, [AF |-> over, CF |-> over, SF |-> FALSE,
                            ZF |-> res = 0, PF |-> PARITY(res)])]

aaa_word(f, d) == Ascii(f, d, 1)
aas_word(f, d) == Ascii(f, d, -1)

\* The sign flag is bit 7 of the result in both.
UnpackedFlags(f, l) ==
    SetFlags(f, [CF |-> FALSE, AF |-> FALSE, OF |-> FALSE,
                 SF |-> Msb("byte", l), ZF |-> l = 0, PF |-> PARITY(l)])

aad_word(f, d) ==
    LET l == ((d % 2 ^ B) + Radix * (d \div 2 ^ B)) % 2 ^ B
    IN  [v |-> l, f |-> UnpackedFlags(f, l)]

aam_word(f, d) ==
    LET l == (d % Radix) + (d \div Radix) * 2 ^ B
    IN  [v |-> l, f |-> UnpackedFlags(f, l)]

\* A byte of packed decimals is past its last value above this bound.
LastPacked == (Radix - 1) * 2 ^ Nibble + 2 ^ Nibble - 1

daa_byte(f, d) ==
    LET low == Low(d) > Radix - 1 \/ "AF" \in f
        e == IF low THEN d + Adjust ELSE d
        high == e > LastPacked \/ "CF" \in f
        res == IF high THEN e + Adjust * 2 ^ Nibble ELSE e
    IN  [v |-> res % 2 ^ B,
         f |-> SetFlags(f, SZP("byte", res % 2 ^ B) @@
                 [AF |-> low, CF |-> high])]

\* The byte wraps below zero before it is compared with the bound.
das_byte(f, d) ==
    LET low == Low(d) > Radix - 1 \/ "AF" \in f
        e == IF low THEN (d - Adjust) % 2 ^ B ELSE d
        high == e > LastPacked \/ "CF" \in f
        res == IF high THEN (e - Adjust * 2 ^ Nibble) % 2 ^ B ELSE e
    IN  [v |-> res,
         f |-> SetFlags(f, SZP("byte", res) @@ [AF |-> low, CF |-> high])]

-----------------------------------------------------------------------------
(* Rotations and shifts of d by s bits.                                    *)

rcl(w, f, d, s) ==
    LET n == Bits(w)
        cnt == s % (n + 1)
        cf == Bit(d, n - cnt)
        high == (d \div 2 ^ (n + 1 - cnt)) % 2 ^ (cnt - 1)
        res == Shl(w, d, cnt) + high + Num("CF" \in f) * 2 ^ (cnt - 1)
    IN  IF cnt = 0 THEN [v |-> d, f |-> f]
        ELSE [v |-> res,
              f |-> SetFlags(f, [CF |-> cf, OF |-> cnt = 1 /\ cf # Msb(w, res)])]

rcr(w, f, d, s) ==
    LET n == Bits(w)
        cnt == s % (n + 1)
        res == Shr(w, d, cnt) + Shl(w, d, n + 1 - cnt)
                 + Num("CF" \in f) * 2 ^ (n - cnt)
        of == IF cnt = 1 THEN [OF |-> ("CF" \in f) # Msb(w, d)] ELSE <<>>
    IN  IF cnt = 0 THEN [v |-> d, f |-> f]
        ELSE [v |-> res, f |-> SetFlags(f, [CF |-> Bit(d, cnt - 1)] @@ of)]

\* A distance that is a multiple of the width still sets the carry flag.
rol(w, f, d, s) ==
    LET n == Bits(w)
        cnt == s % n
        res == Shl(w, d, cnt) + Shr(w, d, n - cnt)
        of == IF cnt = 0 THEN <<>>
              ELSE [OF |-> s = 1 /\ Bit(res, 0) # Msb(w, res)]
    IN  IF s = 0 THEN [v |-> d, f |-> f]
        ELSE [v |-> res, f |-> SetFlags(f, [CF |-> Bit(res, 0)] @@ of)]

ror(w, f, d, s) ==
    LET n == Bits(w)
        cnt == s % n
        res == Shl(w, d, n - cnt) + Shr(w, d, cnt)
        of == IF cnt = 0 THEN <<>>
              ELSE [OF |-> s = 1 /\ Msb(w, res) # Bit(res, n - 2)]
    IN  IF s = 0 THEN [v |-> d, f |-> f]
        ELSE [v |-> res, f |-> SetFlags(f, [CF |-> Msb(w, res)] @@ of)]

\* What SHL, SHR, SHLD and SHRD share: the carry cf that leaves the value, and
\* an overflow flag that only a shift by one bit can set.
Shifted(w, f, d, s, res, cf, of) ==
    IF s = 0 THEN [v |-> d, f |-> f \ {"OF"}]
    ELSE [v |-> res,
          f |-> SetFlags(f, SZP(w, res) @@ [CF |-> cf, OF |-> s = 1 /\ of])]

AllOut(f, cf, pf) ==
    [v |-> 0, f |-> SetFlags(f, [CF |-> cf, OF |-> FALSE, SF |-> FALSE,
                                 PF |-> pf, ZF |-> TRUE])]

shld(w, f, d, fill, s) ==
    LET n == Bits(w)
        res == Shl(w, d, s) + Shr(w, fill, n - s)
        cf == Bit(d, n - s)
    IN  IF s < n THEN Shifted(w, f, d, s, res, cf, Msb(w, res) # cf)
        ELSE AllOut(f, s = n /\ Bit(d, 0), TRUE)

shl(w, f, d, s) == shld(w, f, d, 0, s)

\* From the width on the carry flag is cleared, but not for bytes, and neither
\* is the parity flag.
shrd(w, f, d, fill, s) ==
    LET n == Bits(w)
        res == Shr(w, d, s) + Shl(w, fill, n - s)
    IN  IF s < n THEN Shifted(w, f, d, s, res, Bit(d, s - 1),
                              Msb(w, res) # Bit(res, n - 2))
        ELSE IF w = "byte" THEN AllOut(f, s = n /\ Msb(w, d), TRUE)
        ELSE AllOut(f, FALSE, FALSE)

shr(w, f, d, s) == shrd(w, f, d, 0, s)

sar(w, f, d, s) ==
    LET n == Bits(w)
        cnt == s % n
        res == Shr(w, d, cnt) + (IF Msb(w, d) THEN Mod(w) - 2 ^ (n - cnt) ELSE 0)
    IN  IF cnt = 0 THEN [v |-> d, f |-> f]
        ELSE [v |-> res,
              f |-> SetFlags(f, SZP(w, res) @@ [CF |-> Bit(d, cnt - 1)])]

-----------------------------------------------------------------------------
(* Multiplication of the accumulator a: lo and hi are the halves of the    *)
(* product (AL and AH, AX and DX, EAX and EDX).  Without a type of 64 bits *)
(* a product of longs is made of products of their halves, and a carry out *)
(* of the middle sum is lost.                                              *)

Halves(a, s) ==
    LET H == Mod("word")
        rlo_lo == (a % H) * (s % H)
        mid == (a \div H) * (s % H) + (a % H) * (s \div H) + (rlo_lo \div H)
        rlo_hi == mid % Mod("long")
        rhi_lo == (a \div H) * (s \div H) + (rlo_hi \div H)
    IN  [lo |-> (rlo_hi % H) * H + (rlo_lo % H), hi |-> rhi_lo]

Product(w, a, s) ==
    IF w = "long" THEN Halves(a, s)
    ELSE [lo |-> (a * s) % Mod(w), hi |-> (a * s) \div Mod(w)]

\* The carry and overflow flags say that the high half of p is needed.
WithProduct(f, p, over) == p @@ [f |-> SetFlags(f, [CF |-> over, OF |-> over])]

WithUnsignedProduct(f, p) == WithProduct(f, p, p.hi # 0)
mul(w, f, a, s) == WithUnsignedProduct(f, Product(w, a, s))

NegatedIf(b, p) ==
    IF ~b THEN p
    ELSE [lo |-> (-p.lo) % Mod("long"), hi |-> (-p.hi - Num(p.lo # 0)) % Mod("long")]

imul_long_direct(d, s) ==
    LET Abs(x) == IF Msb("long", x) THEN Mod("long") - x ELSE x
    IN  NegatedIf(Msb("long", d) # Msb("long", s), Halves(Abs(d), Abs(s)))

SignedProduct(w, a, s) ==
    LET p == Signed(w, a) * Signed(w, s)
    IN  IF w = "long" THEN imul_long_direct(a, s)
        ELSE [lo |-> p % Mod(w), hi |-> (p \div Mod(w)) % Mod(w)]

\* The high half of a negative product is compared with 0xFF at every width.
SignExtended(w, p) ==
    \/ ~Msb(w, p.lo) /\ p.hi = 0
    \/ Msb(w, p.lo) /\ p.hi = Mod("byte") - 1

WithSignedProduct(w, f, p) == WithProduct(f, p, ~SignExtended(w, p))
imul(w, f, a, s) == WithSignedProduct(w, f, SignedProduct(w, a, s))

-----------------------------------------------------------------------------
(* Division of hi:lo by s.  A division that raises interrupt 0 changes     *)
(* nothing else.                                                           *)

Fault(f) == [fault |-> TRUE, quo |-> 0, rem |-> 0, f |-> f]
Quotient(f, q, r) == [fault |-> FALSE, quo |-> q, rem |-> r, f |-> f]

\* C's division truncates towards zero.
Trunc(a, b) ==
    LET Abs(x) == IF x < 0 THEN -x ELSE x
        q == Abs(a) \div Abs(b)
    IN  IF (a < 0) = (b < 0) THEN q ELSE -q

\* abs() takes an int: the quotient of div_word, an u32, may be negative to it.
abs(x) == IF x >= Mod("long") \div 2 THEN Mod("long") - x
          ELSE IF x < 0 THEN -x ELSE x

WordFlags(w, f, q, r) ==
    IF w = "byte" THEN f
    ELSE SetFlags(f, [CF |-> FALSE, SF |-> FALSE, ZF |-> q = 0, PF |-> PARITY(r)])

LongFlags(f, r) ==
    SetFlags(f, [CF |-> FALSE, AF |-> FALSE, SF |-> FALSE, ZF |-> TRUE,
                 PF |-> PARITY(r)])

div(w, f, hi, lo, s) ==
    LET dvd == hi * Mod(w) + lo
        q == dvd \div s
        r == dvd % s
    IN  IF s = 0 \/ abs(q) > Mod(w) - 1 THEN Fault(f)
        ELSE Quotient(WordFlags(w, f, q, r), q % Mod(w), r)

idiv(w, f, hi, lo, s) ==
    LET dvd == Signed(w, hi) * Mod(w) + lo
        q == Trunc(dvd, Signed(w, s))
        r == (dvd - (q * Signed(w, s))) % Mod(w)
    IN  IF s = 0 \/ abs(q) > Mod(w) \div 2 - 1 THEN Fault(f)
        ELSE Quotient(WordFlags(w, f, q, r), q % Mod(w), r)

\* The loop of the long divisions: the divisor den is shifted right one bit at
\* a time below the dividend h:l and subtracted from it where it fits, which
\* sets the quotient's bit of that place; the high halves are compared as signed
\* or as unsigned longs.
RECURSIVE LongDivide(_, _, _, _, _)
LongDivide(signed, den, h, l, counter) ==
    LET M == Mod("long")
        h_s == Shr("long", den, Bits("long") - counter)
        l_s == Shl("long", den, counter)
        x == (h_s + Num(l < l_s)) % M
        bit == IF signed THEN Signed("long", h) >= Signed("long", x) ELSE h >= x
    IN  IF counter < 0 THEN [h |-> h, l |-> l, q |-> 0]
        ELSE IF ~bit THEN LongDivide(signed, den, h, l, counter - 1)
        ELSE [LongDivide(signed, den, (h - x) % M, (l - l_s) % M, counter - 1)
                EXCEPT !.q = (@ + 2 ^ counter) % M]

\* What the loop ended with, unless the divisor s, or den without its sign, is
\* zero or does not fit; with sign the bit of a negative quotient is set.
LongQuotient(f, s, den, end, sign) ==
    IF s = 0 \/ end.h # 0 \/ end.l > den THEN Fault(f)
    ELSE LET k == Bits("long") - 4
         IN  Quotient(LongFlags(f, end.l), end.q + Num(sign /\ ~Bit(end.q, k)) * 2 ^ k, end.l)

div_long(f, hi, lo, s) ==
    LongQuotient(f, s, s, LongDivide(TRUE, s, hi, lo, Bits("long")), FALSE)

\* The signs are masked off, and a bit four below the top one stands for that
\* of the result.
idiv_long(f, hi, lo, s) ==
    LET n == Bits("long")
        abs_s == s % 2 ^ (n - 1)
    IN  LongQuotient(f, s, abs_s, LongDivide(FALSE, abs_s, hi % 2 ^ (n - 1), lo, n - 1),
                     Bit(hi, n - 4) # Bit(s, n - 4))

=============================================================================
