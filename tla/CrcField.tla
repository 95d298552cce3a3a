------------------------------ MODULE CrcField -------------------------------
(***************************************************************************)
(* The arithmetic the CRC-32 code of src/src/crc*.cc computes in, and the  *)
(* CRC by its definition: one bit after the other through the register.    *)
(*                                                                         *)
(* A register or a piece of memory is the set of its bits that are 1, so   *)
(* exclusive or is the symmetric difference and a carry-less product (the  *)
(* CLMUL, PMULL and Zbc instructions) the sums that an odd number of pairs *)
(* gives.  Bits are reflected as in the code: bit j of a uint32_t is the   *)
(* coefficient of x^(Reg - 1 - j), and bit 0 of a byte is the first one.   *)
(*                                                                         *)
(* The code has Reg = 32, ByteBits = 8 and the polynomial 0xEDB88320; none *)
(* of its algorithms depends on that beyond Reg = 4 * ByteBits and the     *)
(* order of x, so a smaller field shows the same.  Every table and literal *)
(* of the code is the power of x (or the quotient) it stands for.          *)
(***************************************************************************)
EXTENDS Integers, FiniteSets, SequencesExt

CONSTANTS Reg,          \* the bits of a uint32_t
          ByteBits,     \* the bits of a byte
          Poly          \* the exponents of the polynomial below x^Reg

Order == 2^Reg - 1      \* of x: 0xffffffff, the modulus of crc32_powmod

Xor(a, b)     == (a \ b) \union (b \ a)
Left(a, k)    == {i + k : i \in a}
Bits(a, k, n) == {i \in 0..(n - 1) : i + k \in a}       \* n bits from bit k on
Low(a, n)     == {i \in a : i < n}
Right(a, k)   == {i \in {j - k : j \in a} : i >= 0}
Not(c)        == (0..(Reg - 1)) \ c
Reverse_(c, n) == {n - 1 - i : i \in c}
Clmul(a, b)   == {e \in {i + j : i \in a, j \in b} :
                    Cardinality({i \in a : e - i \in b}) % 2 = 1}

\* What n bytes of memory from `at` on hold.
Load(mem, at, n) == Bits(mem, at * ByteBits, n * ByteBits)

\* (crc >> 1) ^ (-(crc & 1) & 0xEDB88320): times x
POLY    == {Reg - 1 - e : e \in Poly}
Step(c) == Xor(Right(c, 1), IF 0 \in c THEN POLY ELSE {})

One    == {Reg - 1}
Powers == FoldLeft(LAMBDA p, i : Append(p, Step(Last(p))), <<One>>, [i \in 1..(Order - 1) |-> i])
Power(n) == Powers[(n % Order) + 1]          \* x^n, n of any sign

\* The sum of the powers e(i), i in S.
Sum(S, e(_)) == {b \in 0..(Reg - 1) : Cardinality({i \in S : b \in Power(e(i))}) % 2 = 1}

\* n steps of c, that is c times x^n.
Steps(c, n) == Sum(c, LAMBDA j : n + Reg - 1 - j)

ASSUME FieldAssumption == /\ ByteBits \in Nat \ {0} /\ Reg = 4 * ByteBits
                          /\ Poly \subseteq 0..(Reg - 1)
                          /\ Cardinality({Powers[i] : i \in 1..Order}) = Order  \* primitive

K(n)      == Left(Power(n), 1)               \* shifted for a reflected product
crc_power == [n \in 0..(Reg - 1) |-> Power(2^n)]

Divisor  == Poly \union {Reg}
Quotient == CHOOSE q \in SUBSET (0..Reg) :   \* x^(2 * Reg) / Poly
              Xor(Clmul(q, Divisor), {2 * Reg}) \subseteq 0..(Reg - 1)
Mu       == Low(Reverse_(Quotient, Reg + 1), Reg)

\* The positions of the bits set in n, lowest first: ctz and n &= n-1.
SetBits(n) == SelectSeq([k \in 1..Reg |-> k - 1], LAMBDA k : (n \div 2^k) % 2 = 1)

(* The CRC of data with n bits that follow data whose CRC is init: what is  *)
(* left of the data as a polynomial, the register in front of it.           *)
Crc32(data, n, init) ==
    Not(Xor(Steps(Not(init), n), Sum(data, LAMBDA i : n - i + Reg - 1)))
=============================================================================
