------------------------------ MODULE EncodeRvv ------------------------------
(***************************************************************************)
(* do_encode_rvv (src/src/encoder_rvv.cc).  Every byte is given an '=' in  *)
(* front of it, and those that are not needed are left out when the vector *)
(* is compressed.  vl2 is 2 * X.                                           *)
(***************************************************************************)
EXTENDS EncodeBlock

vl2 == 2 * X

\* Slot 2 * k is the '=' of lane k, and slot 2 * k + 1 the byte.
cmpmask(mask) == {2 * k : k \in mask} \union {2 * k + 1 : k \in 0..(vl2 - 1)}

Slot(data, mask, s) == LET k == s \div 2
                       IN  CASE s % 2 = 0 -> EQ
                             [] s % 2 = 1 /\ k \in mask -> Shifted[data[k + 1]]
                             [] OTHER -> data[k + 1]

\* viota: how many of the slots before one are kept.
xidx(mask, s) == Bits({t \in cmpmask(mask) : t < s})

\* vcompress
final_data(data, mask) ==
    [b \in 1..Bits(cmpmask(mask)) |->
        Slot(data, mask, CHOOSE s \in cmpmask(mask) : xidx(mask, s) = b - 1)]

Out(data, mask) == IF Bits(mask) > 1 THEN final_data(data, mask) ELSE Inserted(data, mask)

discardmask(mask, over) == {s \in 0..(2 * vl2 - 1) : xidx(mask, s) >= vl2 + Bits(mask) - over}

\* Fault: a byte whose '=' is kept is kept.
CutManyFault(mask, over) ==
    LET idx_revert == Bits(discardmask(mask, over))
    IN  Cut(over + (idx_revert % 2), -(idx_revert \div 2))

CutMany(mask, over) ==
    LET idx_revert == Bits(discardmask(mask, over))
    IN  Cut(over + (idx_revert % 2), -((idx_revert + 1) \div 2))

CutAtOne(mask, over) ==
    LET idx == vl2 - (CHOOSE k \in mask : TRUE)
    IN  IF mask = {} THEN Cut(over, -over)
        ELSE Cut(over + Bool(over = idx), Bool(over > idx) - over)

Cuts(mask, over) == IF Bits(mask) > 1 THEN {CutMany(mask, over)} ELSE {CutAtOne(mask, over)}

Stored(mask) == IF Bits(mask) > 1 THEN 2 * vl2 ELSE vl2 + 1
=============================================================================
