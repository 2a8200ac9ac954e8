---------------------------- MODULE X86Reference ----------------------------
(***************************************************************************)
(* What the primitives of X86Prim are to compute, by arithmetic on         *)
(* integers instead of the masks and carry chains of prim_ops.c: a sum     *)
(* that leaves the unsigned range sets the carry flag, one that leaves the *)
(* signed range the overflow flag, a shift by s is s shifts by one bit, a  *)
(* product is the product.                                                 *)
(*                                                                         *)
(* A case c is an operation with its operands: c.op, the width c.w, the    *)
(* destination c.d, the source or count c.s, a third operand c.t (what is  *)
(* shifted in, the low half of a dividend) and the flags c.f.  Where the   *)
(* code departs from the processor the case is left out, by Departs.       *)
(***************************************************************************)
EXTENDS X86Prim

SignedValues(w) == -(Mod(w) \div 2)..(Mod(w) \div 2 - 1)
Digits == 0..(2 ^ Nibble - 1)
Carry(c) == Num("CF" \in c.f)

\* An expectation: the value, the flags with a defined value, and the flags
\* that are to keep theirs.
Expect(v, set, keep) == [v |-> v, set |-> set, keep |-> keep]

OfResult(w, v) == [SF |-> v >= Mod(w) \div 2, ZF |-> v = 0, PF |-> PARITY(v)]

\* The sum or difference of d and s with a carry or borrow: g is 1 or -1.
Arithmetic(c, d, s, k, g) ==
    LET u == d + g * (s + k)
        sg == Signed(c.w, d) + g * (Signed(c.w, s) + k)
        nib == (d % 2 ^ Nibble) + g * ((s % 2 ^ Nibble) + k)
    IN  Expect(u % Mod(c.w),
               OfResult(c.w, u % Mod(c.w)) @@
                 [CF |-> u \notin Values(c.w), OF |-> sg \notin SignedValues(c.w),
                  AF |-> nib \notin Digits],
               {})

WithoutCF(e) == [e EXCEPT !.set = [x \in DOMAIN @ \ {"CF"} |-> @[x]], !.keep = {"CF"}]

Bitwise2(c, bit(_, _), keep) ==
    LET ones == {k \in 0..(Bits(c.w) - 1) : bit(Bit(c.d, k), Bit(c.s, k))}
        Weigh[k \in 0..Bits(c.w)] ==
            IF k = 0 THEN 0 ELSE Weigh[k - 1] + (IF k - 1 \in ones THEN 2 ^ (k - 1) ELSE 0)
        v == Weigh[Bits(c.w)]
    IN  Expect(v, OfResult(c.w, v) @@ [CF |-> FALSE, OF |-> FALSE], keep)

\* A shift or rotation by one bit of x.v with the carry x.c.
OneBit(op, w, x) ==
    LET top == Mod(w) \div 2
        left(in) == [v |-> ((2 * x.v) % Mod(w)) + in, c |-> Num(x.v >= top)]
        right(in) == [v |-> (x.v \div 2) + in * top, c |-> x.v % 2]
    IN  CASE op = "rol" -> left(Num(x.v >= top))
          [] op = "rcl" -> left(x.c)
          [] op = "shl" -> left(0)
          [] op = "ror" -> right(x.v % 2)
          [] op = "rcr" -> right(x.c)
          [] op = "shr" -> right(0)
          [] op = "sar" -> right(Num(x.v >= top))

\* A shift or rotation by s bits, one at a time.
ByBits(op, w, d, carry, s) ==
    LET from[v \in Values(w), c \in 0..1, k \in 0..s] ==
          LET y == OneBit(op, w, [v |-> v, c |-> c])
          IN  IF k = 0 THEN [v |-> v, c |-> c] ELSE from[y.v, y.c, k - 1]
    IN  from[d, carry, s]

Shift(c) ==
    LET e == ByBits(c.op, c.w, c.d, Carry(c), c.s)
        top == Mod(c.w) \div 2
        topBits == (e.v >= top) # (e.v % top >= top \div 2)
        of == IF c.op \in {"rol", "rcl", "shl"} THEN (e.v >= top) # (e.c = 1)
              ELSE topBits
        rotation == c.op \in {"rol", "ror", "rcl", "rcr"}
    IN  IF c.s = 0 THEN Expect(c.d, <<>>, Flags \ {"OF"})
        ELSE Expect(e.v,
                    [CF |-> e.c = 1]
                      @@ (IF c.s = 1 /\ c.op # "sar" THEN [OF |-> of] ELSE <<>>)
                      @@ (IF rotation THEN <<>> ELSE OfResult(c.w, e.v)),
                    IF rotation THEN {"AF", "ZF", "SF", "PF"} ELSE {})

\* The double shifts: the bits of t come in at the end.
DoubleShift(c) ==
    LET n == Bits(c.w)
        v == IF c.op = "shld"
             THEN (c.d % 2 ^ (n - c.s)) * 2 ^ c.s + (c.t \div 2 ^ (n - c.s))
             ELSE (c.d \div 2 ^ c.s) + (c.t % 2 ^ c.s) * 2 ^ (n - c.s)
        out == IF c.op = "shld" THEN Bit(c.d, n - c.s) ELSE Bit(c.d, c.s - 1)
    IN  IF c.s = 0 THEN Expect(c.d, <<>>, Flags \ {"OF"})
        ELSE Expect(v, [CF |-> out] @@ OfResult(c.w, v), {})

-----------------------------------------------------------------------------
(* Products as <<low half, high half>>, divisions as <<quotient,           *)
(* remainder>> or "fault".                                                 *)

Multiply(c, p, over) ==
    Expect(<<p % Mod(c.w), (p \div Mod(c.w)) % Mod(c.w)>>,
           IF c.op = "imul" /\ c.w # "byte" /\ p \div Mod(c.w) # 0 THEN <<>>
           ELSE [CF |-> over, OF |-> over], Flags \ {"CF", "OF"})

Divide(c, dvd, s, range) ==
    LET q == Trunc(dvd, s)
    IN  IF s = 0 \/ q \notin range THEN Expect("fault", <<>>, Flags)
        ELSE Expect(<<q % Mod(c.w), (dvd - q * s) % Mod(c.w)>>, <<>>, {})

Dividend(c, hi) == hi * Mod(c.w) + c.t

\* A pair of decimal digits packed in a byte, and its number.
Packed == {h * 2 ^ Nibble + l : h, l \in 0..(Radix - 1)}
Number(p) == (p \div 2 ^ Nibble) * Radix + (p % 2 ^ Nibble)
Pack(n) == (n \div Radix) * 2 ^ Nibble + (n % Radix)

Decimal(n) ==
    Expect(Pack(n % Radix ^ 2), [CF |-> n \notin 0..(Radix ^ 2 - 1)], {})

\* An unpacked digit in AL, what is carried in AH.
Unpacked(c, n) ==
    Expect(((c.t + (n \div Radix)) % Mod("byte")) * 2 ^ B + (n % Radix),
           [CF |-> n \notin 0..(Radix - 1), AF |-> n \notin 0..(Radix - 1)], {})

Expected(c) ==
    CASE c.op = "add" -> Arithmetic(c, c.d, c.s, 0, 1)
      [] c.op = "adc" -> Arithmetic(c, c.d, c.s, Carry(c), 1)
      [] c.op = "sub" -> Arithmetic(c, c.d, c.s, 0, -1)
      [] c.op = "sbb" -> Arithmetic(c, c.d, c.s, Carry(c), -1)
      [] c.op = "cmp" -> [Arithmetic(c, c.d, c.s, 0, -1) EXCEPT !.v = c.d]
      [] c.op = "inc" -> WithoutCF(Arithmetic(c, c.d, 1, 0, 1))
      [] c.op = "dec" -> WithoutCF(Arithmetic(c, c.d, 1, 0, -1))
      [] c.op = "neg" -> Arithmetic(c, 0, c.d, 0, -1)
      [] c.op = "and" -> Bitwise2(c, LAMBDA x, y : x /\ y, {})
      [] c.op = "or" -> Bitwise2(c, LAMBDA x, y : x \/ y, {})
      [] c.op = "xor" -> Bitwise2(c, LAMBDA x, y : x # y, {})
      [] c.op = "not" -> [Bitwise2(c, LAMBDA x, y : ~x, {})
                            EXCEPT !.set = <<>>, !.keep = Flags]
      [] c.op = "test" -> [Bitwise2(c, LAMBDA x, y : x /\ y, {"AF"}) EXCEPT !.v = c.d]
      [] c.op \in {"rol", "ror", "rcl", "rcr", "shl", "shr", "sar"} -> Shift(c)
      [] c.op \in {"shld", "shrd"} -> DoubleShift(c)
      [] c.op = "mul" -> Multiply(c, c.d * c.s, c.d * c.s >= Mod(c.w))
      [] c.op = "imul" ->
            LET p == Signed(c.w, c.d) * Signed(c.w, c.s)
            IN  Multiply(c, p, p \notin SignedValues(c.w))
      [] c.op = "div" -> Divide(c, Dividend(c, c.d), c.s, Values(c.w))
      [] c.op = "idiv" -> Divide(c, Dividend(c, Signed(c.w, c.d)), Signed(c.w, c.s),
                                 SignedValues(c.w))
      [] c.op = "daa" -> Decimal(Number(c.d) + Number(c.s) + Carry(c))
      [] c.op = "das" -> Decimal(Number(c.d) - Number(c.s) - Carry(c))
      [] c.op = "aaa" -> Unpacked(c, c.d + c.s)
      [] c.op = "aas" -> Unpacked(c, c.d - c.s)
      [] c.op = "aam" -> Expect(<<c.d \div Radix, c.d % Radix, c.d>>, <<>>, {})

-----------------------------------------------------------------------------
(* The same case by the code.  The decimal adjustments follow the addition *)
(* or subtraction they adjust, AAD undoes AAM.                             *)

Code(c) ==
    LET Both(p) == [v |-> <<p.lo, p.hi>>, f |-> p.f]
        OrFault(q) == [v |-> IF q.fault THEN "fault" ELSE <<q.quo, q.rem>>, f |-> q.f]
        sum == adc("byte", c.f, c.d, c.s)
        dif == sbb("byte", c.f, c.d, c.s)
        digit == add("byte", c.f, c.d, c.s)
        less == sub("byte", c.f, c.d, c.s)
        two == aam_word(c.f, c.d)
    IN  CASE c.op = "add" -> add(c.w, c.f, c.d, c.s)
          [] c.op = "adc" -> adc(c.w, c.f, c.d, c.s)
          [] c.op = "sub" -> sub(c.w, c.f, c.d, c.s)
          [] c.op = "sbb" -> sbb(c.w, c.f, c.d, c.s)
          [] c.op = "cmp" -> cmp(c.w, c.f, c.d, c.s)
          [] c.op = "inc" -> inc(c.w, c.f, c.d)
          [] c.op = "dec" -> dec(c.w, c.f, c.d)
          [] c.op = "neg" -> neg(c.w, c.f, c.d)
          [] c.op = "not" -> [v |-> not(c.w, c.d), f |-> c.f]
          [] c.op = "and" -> and(c.w, c.f, c.d, c.s)
          [] c.op = "or" -> or(c.w, c.f, c.d, c.s)
          [] c.op = "xor" -> xor(c.w, c.f, c.d, c.s)
          [] c.op = "test" -> [v |-> c.d, f |-> test(c.w, c.f, c.d, c.s)]
          [] c.op = "rol" -> rol(c.w, c.f, c.d, c.s)
          [] c.op = "ror" -> ror(c.w, c.f, c.d, c.s)
          [] c.op = "rcl" -> rcl(c.w, c.f, c.d, c.s)
          [] c.op = "rcr" -> rcr(c.w, c.f, c.d, c.s)
          [] c.op = "shl" -> shl(c.w, c.f, c.d, c.s)
          [] c.op = "shr" -> shr(c.w, c.f, c.d, c.s)
          [] c.op = "sar" -> sar(c.w, c.f, c.d, c.s)
          [] c.op = "shld" -> shld(c.w, c.f, c.d, c.t, c.s)
          [] c.op = "shrd" -> shrd(c.w, c.f, c.d, c.t, c.s)
          [] c.op = "mul" -> Both(mul(c.w, c.f, c.d, c.s))
          [] c.op = "imul" -> Both(imul(c.w, c.f, c.d, c.s))
          [] c.op = "div" /\ c.w # "long" -> OrFault(div(c.w, c.f, c.d, c.t, c.s))
          [] c.op = "div" /\ c.w = "long" -> OrFault(div_long(c.f, c.d, c.t, c.s))
          [] c.op = "idiv" /\ c.w # "long" -> OrFault(idiv(c.w, c.f, c.d, c.t, c.s))
          [] c.op = "idiv" /\ c.w = "long" -> OrFault(idiv_long(c.f, c.d, c.t, c.s))
          [] c.op = "daa" -> daa_byte(sum.f, sum.v)
          [] c.op = "das" -> das_byte(dif.f, dif.v)
          [] c.op = "aaa" -> aaa_word(digit.f, c.t * 2 ^ B + digit.v)
          [] c.op = "aas" -> aas_word(less.f, c.t * 2 ^ B + less.v)
          [] c.op = "aam" -> [v |-> <<two.v \div 2 ^ B, two.v % 2 ^ B,
                                      aad_word(two.f, two.v).v>>,
                              f |-> two.f]

\* Where the code is known to differ from the processor: word and long shifts
\* right by the width and more (CF and PF), SAR by the width and more (not the
\* sign), long products whose middle sum carries, quotients that abs() takes
\* for small ones or that are the smallest signed value, and long divisions
\* unless the operands are positive and the quotient fits.  The double shifts
\* by the width and more are undefined for the processor too.
Departs(c) ==
    LET n == Bits(c.w)
        H == Mod("word")
        Positive(x) == IF c.op = "imul" /\ Msb("long", x) THEN Mod("long") - x ELSE x
        a == Positive(c.d)
        b == Positive(c.s)
        mid == (a \div H) * (b % H) + (a % H) * (b \div H) + (((a % H) * (b % H)) \div H)
    IN  \/ c.op = "shr" /\ c.w # "byte" /\ c.s >= n
        \/ c.op \in {"sar", "shld", "shrd"} /\ c.s >= n
        \/ c.op \in {"mul", "imul"} /\ c.w = "long" /\ mid >= Mod("long")
        \/ /\ c.op = "div" /\ c.w = "word" /\ c.s # 0
           /\ Dividend(c, c.d) \div c.s > Mod("long") - Mod("word")
        \/ /\ c.op = "idiv" /\ c.w # "long" /\ c.s # 0
           /\ LET q == Trunc(Dividend(c, Signed(c.w, c.d)), Signed(c.w, c.s))
              IN  q \in {-(Mod(c.w) \div 2), Mod("long") \div 2}
        \/ /\ c.op \in {"div", "idiv"} /\ c.w = "long" /\ c.s # 0
           /\ c.d >= c.s \/ Msb("long", c.s)
        \/ /\ c.op = "idiv" /\ c.w = "long" /\ c.s # 0
           /\ \/ Bit(c.d, n - 4) # Bit(c.s, n - 4)
              \/ Dividend(c, c.d) \div c.s >= Mod("long") \div 2

\* A primitive gives the value and every defined flag that arithmetic does, and
\* keeps the flags it is to keep.
Matches(c, r, e) ==
    /\ r.v = e.v
    /\ \A x \in DOMAIN e.set : (x \in r.f) = e.set[x]
    /\ \A x \in e.keep \cup {"TF", "IF", "DF"} : (x \in r.f) = (x \in c.f)

Agrees(c) == Departs(c) \/ Matches(c, Code(c), Expected(c))

=============================================================================
