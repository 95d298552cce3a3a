----------------------------- MODULE CrcGeneric ------------------------------
(***************************************************************************)
(* The portable CRC of src/src/crc.cc: slicing by four over four chains,   *)
(* each 16 bytes apart, merged at the end; and the portable multiplication *)
(* and power.                                                              *)
(***************************************************************************)
EXTENDS CrcField

CHAINS == 4                                    \* CRC32_GENERIC_CHAINS

\* crc_slice_table: the base table moves a byte out of the register, table i
\* moves it past the words of the other chains as well.
Bytes_          == SUBSET (0..(ByteBits - 1))
crc_base_table  == [v \in Bytes_ |-> Steps(v, ByteBits)]
crc_slice_table == [i \in 0..3 |-> [v \in Bytes_ |->
                      Steps(v, ByteBits * (4 * CHAINS - 5 + i + 2))]]

ByteStep(crc, byte) ==
    Xor(Right(crc, ByteBits), crc_base_table[Xor(Low(crc, ByteBits), byte)])

Bytes(crc, mem, at, n) ==
    FoldLeft(LAMBDA r, i : ByteStep(r, Load(mem, at + i - 1, 1)), crc, [i \in 1..n |-> i])

CRC_PROC4(v, in) ==
    FoldLeft(LAMBDA r, i : Xor(r, crc_slice_table[i - 1][Load(Xor(v, in), 4 - i, 1)]),
             {}, [i \in 1..4 |-> i])

\* The bytes before the first aligned word.
Unaligned(align, length) ==
    LET one == IF align % 2 = 1 /\ length >= 1 THEN 1 ELSE 0
    IN  one + IF ((align + one) \div 2) % 2 = 1 /\ length - one >= 2 THEN 2 ELSE 0

\* Fault: nothing is kept back for the merge.
MainWordsFault(left) ==
    IF left < 8 * CHAINS - 4 THEN 0 ELSE ((left \div 4) \div CHAINS) * CHAINS

\* The words the chains take, of `left` bytes.
MainWords(left) ==
    IF left < 8 * CHAINS - 4 THEN 0
    ELSE (((left - (CHAINS - 1) * 4) \div 4) \div CHAINS) * CHAINS

Chains(crc, mem, at, words) ==
    FoldLeft(LAMBDA acc, i : [acc EXCEPT ![(i - 1) % CHAINS] =
                                CRC_PROC4(@, Load(mem, at + 4 * (i - 1), 4))],
             [c \in 0..(CHAINS - 1) |-> IF c = 0 THEN crc ELSE {}], [i \in 1..words |-> i])

\* The chains meet: each takes the four bytes that are due to it.
Aggregate(acc, mem, at, left) ==
    IF (left \div (CHAINS * 4)) % 2 = 1
    THEN [crc |-> FoldLeft(LAMBDA a, c :
                     LET v == Bytes(a[c], mem, at + 4 * c, 4)
                     IN  [a EXCEPT ![c] = v, ![(c + 1) % CHAINS] = Xor(@, v)],
                     [acc EXCEPT ![0] = CRC_PROC4(@, Load(mem, at, 4))],
                     [c \in 1..(CHAINS - 1) |-> c])[0],
          at  |-> at + CHAINS * 4]
    ELSE [crc |-> FoldLeft(LAMBDA r, c : Xor(Bytes(r, mem, at + 4 * (c - 1), 4), acc[c]),
                           acc[0], [c \in 1..(CHAINS - 1) |-> c]),
          at  |-> at + (CHAINS - 1) * 4]

do_crc32_incremental_generic(mem, align, length, init) ==
    LET at    == Unaligned(align, length)
        crc   == Bytes(Not(init), mem, 0, at)
        words == MainWords(length - at)
        main  == IF words = 0 THEN [crc |-> crc, at |-> at]
                 ELSE Aggregate(Chains(crc, mem, at, words), mem, at + 4 * words,
                                length - at - 4 * words)
    IN  Not(Bytes(main.crc, mem, main.at, length - main.at))

crc32_multiply_generic(a, b) ==
    FoldLeft(LAMBDA s, i : [res |-> IF Reg - i \in b THEN Xor(s.res, s.a) ELSE s.res,
                            a   |-> Step(s.a)],
             [res |-> {}, a |-> a], [i \in 1..Reg |-> i]).res

crc32_shift_generic(crc1, n) ==
    FoldLeft(LAMBDA r, k : crc32_multiply_generic(r, crc_power[k]), crc1, SetBits(n))
=============================================================================
