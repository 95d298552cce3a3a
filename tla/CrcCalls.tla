------------------------------- MODULE CrcCalls ------------------------------
(***************************************************************************)
(* src/src/crc.h: the CRC-32 operations over whichever implementation      *)
(* crc32_init installed (isa, below), and the arithmetic on exponents that *)
(* makes a number of bytes, of 64 bits and of either sign, a power of x.   *)
(* And the calls of the Node module to them (CRC32 to CRC32Shift of        *)
(* src/src/yencode.cc): a caller keeps one CRC and takes it forward with   *)
(* the data of a buffer, with the CRC of other data, with zeroes and back. *)
(* Any call may run on any implementation.                                 *)
(*                                                                         *)
(* text is what the CRC is of.  Taking away zeroes it does not end in is   *)
(* allowed (test/testcrc.js does): its length may be less than its bits.   *)
(***************************************************************************)
EXTENDS CrcField

Generic == INSTANCE CrcGeneric
Clmul_  == INSTANCE CrcFolding
Arm     == INSTANCE CrcArm
Zbc     == INSTANCE CrcRiscv

\* What the set_funcs of each file install: on AArch32 without PMULL and with
\* 256-bit registers some functions are those of another.
Isa == {"generic", "pclmul", "vpclmul", "arm64", "arm32", "pmull64", "pmull32", "zbc64", "zbc32"}

_do_crc32_incremental(isa, mem, align, length, init) ==
    CASE isa = "generic" -> Generic!do_crc32_incremental_generic(mem, align, length, init)
      [] isa = "pclmul"  -> Clmul_!crc_fold(mem, align, length, init)
      [] isa = "vpclmul" -> Clmul_!crc_fold256(mem, align, length, init)
      [] isa \in {"arm64", "pmull64"} -> Arm!arm_crc_calc(8, mem, align, length, init)
      [] isa \in {"arm32", "pmull32"} -> Arm!arm_crc_calc(4, mem, align, length, init)
      [] isa = "zbc64"   -> Zbc!rv_crc_calc(8, mem, align, length, init)
      [] isa = "zbc32"   -> Zbc!rv_crc_calc(4, mem, align, length, init)

crc32_multiply(isa, a, b) ==
    CASE isa \in {"generic", "arm32"}     -> Generic!crc32_multiply_generic(a, b)
      [] isa \in {"pclmul", "vpclmul"}    -> Clmul_!crc32_multiply_clmul(a, b)
      [] isa = "arm64"                    -> Arm!crc32_multiply_arm(a, b)
      [] isa \in {"pmull64", "pmull32"}   -> Arm!crc32_multiply_pmull(a, b)
      [] isa = "zbc64"                    -> Zbc!crc32_multiply_rv_zbc(8, a, b)
      [] isa = "zbc32"                    -> Zbc!crc32_multiply_rv_zbc(4, a, b)

crc32_shift(isa, a, n) ==
    CASE isa \in {"generic", "arm32"}  -> Generic!crc32_shift_generic(a, n)
      [] isa \in {"pclmul", "vpclmul"} -> Clmul_!crc32_shift_clmul(a, n)
      [] isa = "arm64"                 -> Arm!crc32_shift_arm(a, n)
      [] isa = "pmull64"               -> Arm!crc32_shift_pmull(8, a, n)
      [] isa = "pmull32"               -> Arm!crc32_shift_pmull(4, a, n)
      [] isa = "zbc64"                 -> Zbc!crc32_shift_rv_zbc(8, a, n)
      [] isa = "zbc32"                 -> Zbc!crc32_shift_rv_zbc(4, a, n)

-----------------------------------------------------------------------------
\* n % 0xffffffff, or 0xffffffff for a multiple of it that is not 0: the high
\* and the low word of n added, and the carry with them.
crc32_powmod(n) ==
    LET sum == (n \div 2^Reg) + (n % 2^Reg)
    IN  (sum % 2^Reg) + (sum \div 2^Reg)

\* The variant for other compilers: the last carry is lost.
crc32_bytepowPortable(n) ==
    LET sum == ((n \div 2^Reg) + (n % 2^Reg)) * ByteBits
    IN  (sum + (sum \div 2^Reg)) % 2^Reg

\* Times the bits of a byte is a rotation.
crc32_bytepow(n) ==
    LET res == crc32_powmod(n)
    IN  ((res * ByteBits) % 2^Reg) + ((res * ByteBits) \div 2^Reg)

Complement(n) == Order - n                        \* ~n

crc32_combine(isa, crc1, crc2, len2) == Xor(crc32_shift(isa, crc1, crc32_bytepow(len2)), crc2)
crc32_zeros(isa, crc1, len)  == Not(crc32_shift(isa, Not(crc1), crc32_bytepow(len)))
crc32_unzero(isa, crc1, len) == Not(crc32_shift(isa, Not(crc1), Complement(crc32_bytepow(len))))
crc32_256pow(isa, n)         == crc32_shift(isa, One, crc32_bytepow(n))

\* Fault: the exponent is negated as a number of 32 bits.
crc32_2powFault(isa, n) ==
    crc32_shift(isa, One, IF n < 0 THEN (2^Reg - crc32_powmod(-n)) % 2^Reg ELSE crc32_powmod(n))

crc32_2pow(isa, n) ==
    crc32_shift(isa, One, IF n < 0 THEN Complement(crc32_powmod(-n)) ELSE crc32_powmod(n))

-----------------------------------------------------------------------------
(* The caller.                                                             *)

CONSTANTS Buffers,    \* the bits a buffer may hold, and all memory after it
          Length,     \* the bytes given to a call of crc32
          MaxFrom,    \* bound: the bytes of a buffer
          Count,      \* JavaScript numbers given as a length or an exponent
          OtherData   \* the data of other CRCs, as [bits, len]

ASSUME CallsAssumption == /\ Length \subseteq Nat /\ MaxFrom \in Nat /\ Count \subseteq Int
                          /\ \A o \in OtherData : o.bits \subseteq 0..(o.len * ByteBits - 1)

VARIABLES buffer, from,  \* where the next call of crc32 reads
          text, crc,
          last          \* bound: after any other call no more is made

vars == <<buffer, from, text, crc, last>>

Init == /\ buffer \in Buffers /\ from = 0
        /\ text = [bits |-> {}, len |-> 0] /\ crc = {} /\ last = FALSE

\* An int is what the low bits of a JavaScript number are.
Int32(n) == ((n + 2^(Reg - 1)) % 2^Reg) - 2^(Reg - 1)

Followed(data, len) == [bits |-> text.bits \union Left(data, text.len * ByteBits),
                        len  |-> text.len + len]

\* crc32(str, init), on the next bytes of the buffer
CRC32(isa, len) ==
    /\ ~last /\ from + len <= MaxFrom
    /\ crc' = _do_crc32_incremental(isa, Right(buffer, from * ByteBits), from, len, crc)
    /\ text' = Followed(Load(buffer, from, len), len)
    /\ from' = from + len /\ UNCHANGED <<buffer, last>>

\* A call after which the text is `becomes`.
Call(becomes, result) == /\ ~last /\ last' = TRUE
                         /\ text' = becomes /\ crc' = result
                         /\ UNCHANGED <<buffer, from>>

CrcOf(o) == Crc32(o.bits, o.len * ByteBits, {})

CRC32Combine(isa, o) ==
    Call(Followed(o.bits, o.len), crc32_combine(isa, crc, CrcOf(o), o.len))

Zeroes(isa, n, init) == LET len == Int32(n)
                        IN  IF len < 0 THEN crc32_unzero(isa, init, -len)
                            ELSE crc32_zeros(isa, init, len)

CRC32Zeroes(isa, n) == Call(Followed({}, Int32(n)), Zeroes(isa, n, crc))

Shift(isa, n, init) == LET k == Int32(n)
                       IN  crc32_shift(isa, init, IF k < 0 THEN Complement(crc32_powmod(-k))
                                                  ELSE crc32_powmod(k))

\* crc32_combine as README.md makes it of crc32_shift, or of crc32_multiply and
\* a power; and the way back.  The exponent has to fit an int.
FitsInt(n) == Int32(n) = n

CombineByShift(isa, o) ==
    /\ FitsInt(o.len * ByteBits)
    /\ Call(Followed(o.bits, o.len), Xor(Shift(isa, o.len * ByteBits, crc), CrcOf(o)))

CombineByPower(isa, o) ==
    Call(Followed(o.bits, o.len),
         Xor(crc32_multiply(isa, crc, crc32_256pow(isa, o.len)), CrcOf(o)))

EndsWith(o) == /\ text.len >= o.len
               /\ Bits(text.bits, (text.len - o.len) * ByteBits, o.len * ByteBits) = o.bits

TakeAway(isa, o) ==
    /\ EndsWith(o) /\ FitsInt(o.len * ByteBits)
    /\ Call([bits |-> Low(text.bits, (text.len - o.len) * ByteBits), len |-> text.len - o.len],
            Shift(isa, -1 * o.len * ByteBits, Xor(crc, CrcOf(o))))

\* Another CRC is begun.
Begin == last /\ last' = FALSE /\ buffer' \in Buffers /\ from' = 0
         /\ text' = [bits |-> {}, len |-> 0] /\ crc' = {}

Reads   == \E isa \in Isa, len \in Length : CRC32(isa, len)
Counts  == \E isa \in Isa, n \in Count : CRC32Zeroes(isa, n)
Follows == \E isa \in Isa, o \in OtherData : \/ CRC32Combine(isa, o) \/ CombineByShift(isa, o)
                                            \/ CombineByPower(isa, o) \/ TakeAway(isa, o)

Next == Begin \/ Reads \/ Counts \/ Follows

Spec == Init /\ [][Next]_vars

-----------------------------------------------------------------------------
(* Properties.                                                             *)

(* However a text was put together, by whichever implementations, from     *)
(* whatever alignment and with whatever lies in memory after the data, the *)
(* CRC held is that of the text (src/src/crc*.cc, crc.h, yencode.cc).      *)
HoldsItsCrc == crc = Crc32(text.bits, text.len * ByteBits, {})

(* "crc32_combine(crc1, crc2, len2)" is crc32_shift(len2*8, crc1) and an   *)
(* exclusive or (the example of README.md).                                *)
ShiftCombines ==
    \A o \in OtherData : Xor(Shift("generic", o.len * ByteBits, crc), CrcOf(o)) =
                           crc32_combine("generic", crc, CrcOf(o), o.len)
=============================================================================
