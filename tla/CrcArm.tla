------------------------------- MODULE CrcArm --------------------------------
(***************************************************************************)
(* The CRC of ARMv8 with its CRC32 instructions (src/src/crc_arm.cc), and  *)
(* multiplication and power with them or with PMULL                        *)
(* (src/src/crc_arm_pmull.cc).  WORD is the bytes of WORD_T: 8 on AArch64  *)
(* and 4 on AArch32.                                                       *)
(***************************************************************************)
EXTENDS CrcField

\* __crc32b, __crc32h, __crc32w and __crc32d, by the bytes they take.
crc32_(n, crc, data) ==
    IF n = 8 THEN Steps(Xor(Steps(Xor(crc, Low(data, Reg)), Reg), Bits(data, Reg, Reg)), Reg)
    ELSE Steps(Xor(crc, Low(data, n * ByteBits)), n * ByteBits)

crc32w(crc, data) == crc32_(4, crc, data)

\* What is read at once, in order: up to an aligned word, then words, then the
\* bits of what is left.
Unit(len, n) == IF (len \div n) % 2 = 1 THEN <<n>> ELSE <<>>

InitialAlignment(WORD, align, len) ==
    LET one  == Unit(align, 1)
        a    == align + Len(one)
        two  == Unit(a, 2)
        b    == a + 2 * Len(two)
    IN  IF len < 16 THEN <<>>
        ELSE one \o two \o (IF WORD = 8 THEN Unit(b, 4) ELSE <<>>)

\* Fault: the length is not told of the bytes the alignment took.
PiecesFault(WORD, align, len) ==
    InitialAlignment(WORD, align, len)
      \o [i \in 1..(len \div WORD) |-> WORD]
      \o (IF WORD = 8 THEN Unit(len, 4) ELSE <<>>) \o Unit(len, 2) \o Unit(len, 1)

Pieces(WORD, align, len) ==
    LET head == InitialAlignment(WORD, align, len)
        left == len - FoldLeft(LAMBDA s, n : s + n, 0, head)
    IN  head \o [i \in 1..(left \div WORD) |-> WORD]
             \o (IF WORD = 8 THEN Unit(left, 4) ELSE <<>>) \o Unit(left, 2) \o Unit(left, 1)

arm_crc_calc(WORD, mem, align, len, init) ==
    Not(FoldLeft(LAMBDA s, n : [crc |-> crc32_(n, s.crc, Load(mem, s.at, n)), at |-> s.at + n],
                 [crc |-> Not(init), at |-> 0], Pieces(WORD, align, len)).crc)

\* A product of two words, reduced by the CRC instruction: the low word is
\* moved past the high one.
ReduceByCrc(prod) == Xor(crc32w({}, Low(prod, Reg)), Right(prod, Reg))

crc32_multiply_arm(a, b) ==
    ReduceByCrc(FoldLeft(LAMBDA res, i : IF Reg - i \in b
                                         THEN Xor(res, Right(Left(a, Reg), i - 1)) ELSE res,
                         {}, [i \in 1..Reg |-> i]))

crc32_shift_arm(crc1, n) ==
    FoldLeft(LAMBDA r, k : crc32_multiply_arm(r, crc_power[k]),
             ReduceByCrc(Left(crc1, Reg - (n % Reg))), SetBits(n - (n % Reg)))

-----------------------------------------------------------------------------
crc32_multiply_pmull(a, b) == ReduceByCrc(Left(Clmul(a, b), 1))

crc_power_rev == [n \in 0..(Reg - 1) |-> Reverse_(crc_power[n], Reg)]

Lane(p, l) == Bits(p, 2 * Reg * l, 2 * Reg)

crc32_shift_pmull_mulred(a, b) ==
    LET r == Clmul(a, b)
    IN  Xor(Lane(r, 0), Lane(Clmul(Lane(r, 1), Reverse_(Power(2 * Reg), Reg)), 0))

Turns(res, res2, powers) ==
    FoldLeft(LAMBDA s, i : LET p == crc_power_rev[powers[i]]
                           IN  IF i % 2 = 1 THEN <<crc32_shift_pmull_mulred(s[1], p), s[2]>>
                               ELSE <<s[1], crc32_shift_pmull_mulred(s[2], p)>>,
             <<res, res2>>, [i \in DOMAIN powers |-> i])

\* The 128 bits are reflected again in their halves and go through the CRC
\* instructions: three words on AArch32, a double word and a word on AArch64.
Remainder(WORD, prod) ==
    LET high == Reverse_(Lane(prod, 1), 2 * Reg)
        rem  == Reverse_(Lane(prod, 0), 2 * Reg)
        crc  == IF WORD = 8 THEN crc32_(8, {}, high)
                ELSE crc32w(Bits(high, Reg, Reg), crc32w({}, Low(high, Reg)))
    IN  Xor(crc32w(Low(rem, Reg), crc), Right(rem, Reg))

crc32_shift_pmull(WORD, crc1, n) ==
    LET res    == Left(Reverse_(crc1, Reg), n % Reg)
        powers == SetBits(n - (n % Reg))
        res2   == IF Len(powers) = 1 THEN crc_power_rev[powers[1]]
                  ELSE Lane(Clmul(crc_power_rev[powers[1]], crc_power_rev[powers[2]]), 0)
        both   == Turns(res, res2, SubSeq(powers, 3, Len(powers)))
    IN  IF powers = <<>> THEN ReduceByCrc(Reverse_(res, 2 * Reg))
        ELSE Remainder(WORD, Clmul(both[1], both[2]))
=============================================================================
