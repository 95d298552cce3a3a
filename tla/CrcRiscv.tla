------------------------------ MODULE CrcRiscv -------------------------------
(***************************************************************************)
(* The RISC-V CRC with the carry-less products of Zbc and Zbkc             *)
(* (src/src/crc_riscv.cc): four accumulators of a machine word each, WS    *)
(* bytes (8 for XLEN = 64, 4 for XLEN = 32).                               *)
(***************************************************************************)
EXTENDS CrcField

XLEN(WS)         == WS * ByteBits
CLMULL(WS, x, k) == Low(Clmul(x, k), XLEN(WS))
CLMULH(WS, x, k) == Bits(Clmul(x, k), XLEN(WS), XLEN(WS))
Shl(WS, x, n)    == Low(Left(x, n), XLEN(WS))

MUL_HI(WS) == IF WS = 8 THEN K(7 * Reg) ELSE K(4 * Reg)
MUL_LO(WS) == IF WS = 8 THEN K(9 * Reg) ELSE K(5 * Reg)

\* The register goes where it still has to be moved past one word less.
Begin(WS, crc) ==
    LET p == Clmul(crc, K(-1 * Reg))
    IN  IF WS = 8 THEN <<{}, {}, {}, p>> ELSE <<{}, {}, Low(p, Reg), Right(p, Reg)>>

\* n bytes at `at`, less than a word, come in from the top of the last word.
ShiftIn(WS, a, mem, at, n) ==
    LET shl == (WS - n) * ByteBits
        shr == n * ByteBits
        in  == Append(a, Load(mem, at, n))
    IN  [i \in 1..4 |-> Right(in[i], shr) \union Shl(WS, in[i + 1], shl)]

\* initial alignment: what is above the last words is still empty.
Align(WS, a, mem, n) == ShiftIn(WS, a, mem, 0, n)

Fold(WS, lo, hi) == <<Xor(CLMULL(WS, lo, MUL_LO(WS)), CLMULL(WS, hi, MUL_HI(WS))),
                      Xor(CLMULH(WS, lo, MUL_LO(WS)), CLMULH(WS, hi, MUL_HI(WS)))>>

Word(WS, mem, at) == Load(mem, at, WS)

\* Two words at `at` on top of two accumulators folded.
FoldPair(WS, lo, hi, mem, at) ==
    LET t == Fold(WS, lo, hi)
    IN  <<Xor(t[1], Word(WS, mem, at)), Xor(t[2], Word(WS, mem, at + WS))>>

FourWords(WS, a, mem, at) ==
    FoldPair(WS, a[1], a[2], mem, at) \o FoldPair(WS, a[3], a[4], mem, at + 2 * WS)

TwoWords(WS, a, mem, at) == <<a[3], a[4]>> \o FoldPair(WS, a[1], a[2], mem, at)

OneWord(WS, a, mem, at) ==
    <<a[2], a[3], Xor(a[4], CLMULL(WS, a[1], MUL_HI(WS))),
      Xor(CLMULH(WS, a[1], MUL_HI(WS)), Word(WS, mem, at))>>

\* Fault: the bytes that fall out of the first accumulator are folded from
\* where they were.
TailBytesFault(WS, a, mem, at, n) ==
    LET in == ShiftIn(WS, a, mem, at, n)
    IN  [in EXCEPT ![3] = Xor(@, CLMULL(WS, a[1], MUL_HI(WS))),
                   ![4] = Xor(@, CLMULH(WS, a[1], MUL_HI(WS)))]

TailBytes(WS, a, mem, at, n) ==
    LET tmp == Shl(WS, a[1], (WS - n) * ByteBits)
        in  == ShiftIn(WS, a, mem, at, n)
    IN  [in EXCEPT ![3] = Xor(@, CLMULL(WS, tmp, MUL_HI(WS))),
                   ![4] = Xor(@, CLMULH(WS, tmp, MUL_HI(WS)))]

\* Everything down to one word, and its Barrett reduction.
Reduce64(a) ==
    LET a3  == Xor(a[3], Xor(CLMULL(8, a[1], K(5 * Reg)), CLMULL(8, a[2], K(3 * Reg))))
        a4  == Xor(a[4], Xor(CLMULH(8, a[1], K(5 * Reg)), CLMULH(8, a[2], K(3 * Reg))))
        Down(top) ==
          LET mid == CLMULL(8, Low(top, Reg), K(2 * Reg))
              out == Xor(CLMULH(8, a3, K(3 * Reg)), Right(mid, Reg))
              q   == CLMULL(8, Shl(8, Xor(mid, Right(top, Reg)), Reg), Mu)
          IN  Low(Xor(out, CLMULH(8, q, K(Reg))), Reg)
    IN  Down(Xor(a4, CLMULL(8, a3, K(3 * Reg))))

Reduce32(a) ==
    LET a3  == Xor(a[3], Xor(CLMULL(4, a[1], K(3 * Reg)), CLMULL(4, a[2], K(2 * Reg))))
        a4  == Xor(a[4], Xor(CLMULH(4, a[1], K(3 * Reg)), CLMULH(4, a[2], K(2 * Reg))))
        top == Xor(a4, CLMULL(4, a3, K(2 * Reg)))
    IN  Xor(CLMULH(4, a3, K(2 * Reg)), CLMULH(4, CLMULL(4, top, Mu), K(Reg)))

\* What has been read, and the accumulators then.
State(at, a) == [at |-> at, a |-> a]

Start(WS, mem, align, length, a) ==
    LET initial == WS - (align % WS)
    IN  IF align % WS # 0 /\ length >= initial THEN State(initial, Align(WS, a, mem, initial))
        ELSE State(0, a)

MainLoop(WS, mem, length, s) ==
    FoldLeft(LAMBDA r, i : State(r.at + 4 * WS, FourWords(WS, r.a, mem, r.at)), s,
             [i \in 1..((length - s.at) \div (4 * WS)) |-> i])

TrailingTwo(WS, mem, length, s) ==
    IF length - s.at >= 2 * WS THEN State(s.at + 2 * WS, TwoWords(WS, s.a, mem, s.at)) ELSE s

TrailingOne(WS, mem, length, s) ==
    IF length - s.at >= WS THEN State(s.at + WS, OneWord(WS, s.a, mem, s.at)) ELSE s

Tail_(WS, mem, length, s) ==
    IF length > s.at THEN TailBytes(WS, s.a, mem, s.at, length - s.at) ELSE s.a

Reduce(WS, a) == Not(IF WS = 8 THEN Reduce64(a) ELSE Reduce32(a))

rv_crc_calc(WS, mem, align, length, init) ==
    LET started == Start(WS, mem, align, length, Begin(WS, Not(init)))
    IN  Reduce(WS, Tail_(WS, mem, length,
                     TrailingOne(WS, mem, length,
                       TrailingTwo(WS, mem, length, MainLoop(WS, mem, length, started)))))

-----------------------------------------------------------------------------
\* prod is shifted by one to the right, as products of reflected words are.
crc32_reduce_rv_zbc(prod) ==
    Low(Xor(CLMULH(8, CLMULL(8, Shl(8, prod, Reg + 1), Mu), K(Reg)), Right(prod, Reg - 1)), Reg)

Multiply32(a, b) ==
    LET prodLo == CLMULL(4, a, b)
        prodHi == Shl(4, CLMULH(4, a, b), 1) \union Right(prodLo, Reg - 1)
    IN  Xor(CLMULH(4, CLMULL(4, Shl(4, prodLo, 1), Mu), K(Reg)), prodHi)

crc32_multiply_rv_zbc(WS, a, b) ==
    IF WS = 8 THEN crc32_reduce_rv_zbc(CLMULL(8, a, b)) ELSE Multiply32(a, b)

crc32_shift_rv_zbc(WS, crc1, n) ==
    LET result == IF WS = 8 THEN crc32_reduce_rv_zbc(Left(crc1, Reg - 1 - (n % Reg))) ELSE crc1
        powers == SetBits(IF WS = 8 THEN n - (n % Reg) ELSE n)
        both   == FoldLeft(LAMBDA s, i :
                     IF i % 2 = 0 THEN <<crc32_multiply_rv_zbc(WS, s[1], crc_power[powers[i]]), s[2]>>
                     ELSE IF i = 1 THEN <<s[1], crc_power[powers[1]]>>
                     ELSE <<s[1], crc32_multiply_rv_zbc(WS, s[2], crc_power[powers[i]])>>,
                     <<result, {}>>, [i \in DOMAIN powers |-> i])
    IN  IF powers = <<>> THEN result ELSE crc32_multiply_rv_zbc(WS, both[1], both[2])
=============================================================================
