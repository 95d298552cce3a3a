----------------------------- MODULE CrcFolding ------------------------------
(***************************************************************************)
(* The x86 CRC by folding with PCLMULQDQ (src/src/crc_folding.cc) and its  *)
(* version on 256-bit registers (src/src/crc_folding_256.cc).              *)
(*                                                                         *)
(* Four registers of 16 bytes hold a remainder of what has been read, not  *)
(* yet reduced; 64 more bytes multiply it by x^(16 Reg).  Data that is not *)
(* 16 bytes shifts the registers instead (partial_fold).  Reads are of     *)
(* whole registers: mem goes on past the data.                             *)
(***************************************************************************)
EXTENDS CrcField

Xmm     == 4 * Reg
Lo64(a) == Bits(a, 0, 2 * Reg)
Hi64(a) == Bits(a, 2 * Reg, 2 * Reg)

do_one_fold(src) == Xor(Clmul(Hi64(src), K(15 * Reg)), Clmul(Lo64(src), K(17 * Reg)))

\* pshufb_shf_table: the registers move down by len bytes, and what falls out
\* of the first one is folded into the last.
Shl(a, len) == Low(Left(a, (16 - len) * ByteBits), Xmm)
Shr(a, len) == Right(a, len * ByteBits)

\* Fault: the shift is by what is missing from a register, not by what is there.
partial_foldFault(len, c, crc_part) ==
    LET next == Append(c, crc_part)
        n    == 16 - len
        down == [i \in 1..4 |-> Shr(c[i], n) \union Shl(next[i + 1], n)]
    IN  [down EXCEPT ![4] = Xor(do_one_fold(Shl(c[1], n)), @)]

partial_fold(len, c, crc_part) ==
    LET next == Append(c, crc_part)
        down == [i \in 1..4 |-> Shr(c[i], len) \union Shl(next[i + 1], len)]
    IN  [down EXCEPT ![4] = Xor(do_one_fold(Shl(c[1], len)), @)]

\* 16 * n bytes: the n oldest registers are folded into new ones.
FoldBlocks(c, mem, at, n) ==
    [i \in 1..4 |-> IF i + n <= 4 THEN c[i + n]
                    ELSE Xor(do_one_fold(c[i + n - 4]), Load(mem, at + 16 * (i + n - 5), 16))]

First(init) == <<Clmul(Not(init), K(-15 * Reg)), {}, {}, {}>>

\* done: the four registers become one, 128 bits become 64, and the Barrett
\* reduction leaves the remainder in the third word.
Reduce(c) ==
    LET Merge(a, b) == Xor(b, Xor(Clmul(Lo64(a), K(5 * Reg)), Clmul(Hi64(a), K(3 * Reg))))
        all  == Merge(Merge(Merge(c[1], c[2]), c[3]), c[4])
        k5   == Xor(Clmul(Lo64(all), K(3 * Reg)), Hi64(all))
        k6   == Xor(Clmul(Lo64(Left(k5, Reg)), K(2 * Reg)), k5 \ (0..(Reg - 1)))
        k8   == Clmul(Lo64(Clmul(Lo64(k6), Mu)), K(Reg))
    IN  Not(Bits(Xor(k8, k6), 2 * Reg, Reg))

crc_fold(mem, align, len, init) ==
    LET diff   == (16 - (align % 16)) % 16
        c0     == IF diff = 0 THEN First(init)
                  ELSE partial_fold(diff, First(init), Load(mem, 0, 16))
        quads  == (len - diff) \div 64
        c1     == FoldLeft(LAMBDA c, i : FoldBlocks(c, mem, diff + 64 * (i - 1), 4),
                           c0, [i \in 1..quads |-> i])
        at     == diff + 64 * quads
        blocks == (len - at) \div 16
        c2     == FoldBlocks(c1, mem, at, blocks)
        tail   == (len - at) % 16
    IN  IF len = 0 THEN init
        ELSE IF len < 16 THEN Reduce(partial_fold(len, First(init), Load(mem, 0, len)))
        ELSE IF tail = 0 THEN Reduce(c2)
        ELSE Reduce(partial_fold(tail, c2, Load(mem, at + 16 * blocks, 16)))

\* A Barrett reduction of a product shifted by a word; the result is its third word.
crc32_reduce(prod) == Xor(Clmul(Lo64(Clmul(Lo64(prod), Mu)), K(Reg)), prod)

crc32_multiply_clmul(a, b) ==
    Bits(crc32_reduce(Left(Left(Clmul(a, b), 1), Reg)), 2 * Reg, Reg)

-----------------------------------------------------------------------------
\* crc32_shift_clmul works on unreflected powers.
crc_power_rev == [n \in 0..(Reg - 1) |-> Reverse_(crc_power[n], Reg)]
Rev(n)        == Reverse_(Power(n), Reg)

\* 64 bits times a power, reduced to 64 bits again.
crc32_shift_clmul_mulred(pos, prod) ==
    LET p == Clmul(prod, crc_power_rev[pos])
    IN  Lo64(Xor(Clmul(Hi64(p), Rev(2 * Reg)), p))

\* The powers left after the first two go to the two accumulators in turn.
Turns(result, result2, powers) ==
    FoldLeft(LAMBDA s, i : IF i % 2 = 1
                           THEN <<crc32_shift_clmul_mulred(powers[i], s[1]), s[2]>>
                           ELSE <<s[1], crc32_shift_clmul_mulred(powers[i], s[2])>>,
             <<result, result2>>, [i \in DOMAIN powers |-> i])

ReduceShift(result) ==
    LET high == Bits(result, Reg, Reg)
        t    == Hi64(Clmul(Left(high, Reg), Quotient))
    IN  Low(Xor(Clmul(t, Poly), result), Reg)

crc32_shift_clmul(crc1, n) ==
    LET first  == Left(Reverse_(crc1, Reg), n % Reg)
        powers == SetBits(n - (n % Reg))
        second == IF Len(powers) = 1 THEN crc_power_rev[powers[1]]
                  ELSE Clmul(crc_power_rev[powers[1]], crc_power_rev[powers[2]])
        both   == Turns(first, second, SubSeq(powers, 3, Len(powers)))
        prod   == Clmul(both[1], both[2])
        folded == Xor(prod, Xor(Clmul(Bits(prod, 3 * Reg, Reg), Rev(3 * Reg)),
                                Clmul(Bits(prod, 2 * Reg, Reg), Rev(2 * Reg))))
    IN  IF n = 0 THEN crc1
        ELSE Reverse_(ReduceShift(IF powers = <<>> THEN first ELSE folded), Reg)

-----------------------------------------------------------------------------
(* 256-bit registers are pairs of 128-bit lanes; two of them do the work.   *)

do_one_fold256(src, data) == [l \in 1..2 |-> Xor(data[l], do_one_fold(src[l]))]

\* pshufb_rot_table turns each lane by len & 15 bytes; mask marks the bytes
\* that came round and belong to the lane before.
Rotate(c, len) == LET k == len % 16
                  IN  [l \in 1..2 |-> Shr(c[l], k) \union Shl(c[l], k)]
Blend(a, b, mask) == [l \in 1..2 |-> (a[l] \ mask) \union (b[l] \intersect mask)]

\* Fault: the lane moves only past 16 bytes, so 16 themselves are not moved.
partial_fold256Fault(len, c0, c1, crc_part) ==
    LET r0   == Rotate(c0, len)
        r1   == Rotate(c1, len)
        part == Rotate(crc_part, len)
        mask == {b \in 0..(Xmm - 1) : b \div ByteBits >= 16 - (len % 16)}
        top  == <<{}, r0[1]>>
        mid0 == <<r0[2], r1[1]>>
        mid1 == <<r1[2], part[1]>>
    IN  IF len > 16
        THEN <<Blend(mid0, r1, mask), do_one_fold256(Blend(top, r0, mask), Blend(mid1, part, mask))>>
        ELSE <<Blend(r0, mid0, mask),
               do_one_fold256([l \in 1..2 |-> top[l] \intersect mask], Blend(r1, mid1, mask))>>

partial_fold256(len, c0, c1, crc_part) ==
    LET r0   == Rotate(c0, len)
        r1   == Rotate(c1, len)
        part == Rotate(crc_part, len)
        mask == {b \in 0..(Xmm - 1) : b \div ByteBits >= 16 - (len % 16)}
        top  == <<{}, r0[1]>>
        mid0 == <<r0[2], r1[1]>>
        mid1 == <<r1[2], part[1]>>
    IN  IF len >= 16
        THEN <<Blend(mid0, r1, mask), do_one_fold256(Blend(top, r0, mask), Blend(mid1, part, mask))>>
        ELSE <<Blend(r0, mid0, mask),
               do_one_fold256([l \in 1..2 |-> top[l] \intersect mask], Blend(r1, mid1, mask))>>

Load256(mem, at) == <<Load(mem, at, 16), Load(mem, at + 16, 16)>>

crc_fold256(mem, align, len, init) ==
    LET start  == <<<<First(init)[1], {}>>, <<{}, {}>>>>
        diff   == (32 - (align % 32)) % 32
        s0     == IF diff = 0 THEN start
                  ELSE partial_fold256(diff, start[1], start[2], Load256(mem, 0))
        blocks == (len - diff) \div 32
        s1     == FoldLeft(LAMBDA s, i :      \* 64 bytes are two of these
                      <<s[2], do_one_fold256(s[1], Load256(mem, diff + 32 * (i - 1)))>>,
                      s0, [i \in 1..blocks |-> i])
        at     == diff + 32 * blocks
        s2     == IF at = len THEN s1
                  ELSE partial_fold256(len - at, s1[1], s1[2], Load256(mem, at))
        short  == partial_fold256(len, start[1], start[2],
                                  <<Load(mem, 0, IF len < 16 THEN len ELSE 16),
                                    Load(mem, 16, IF len < 16 THEN 0 ELSE len - 16)>>)
    IN  IF len = 0 THEN init
        ELSE IF len < 32 THEN Reduce(short[1] \o short[2])
        ELSE Reduce(s2[1] \o s2[2])
=============================================================================
