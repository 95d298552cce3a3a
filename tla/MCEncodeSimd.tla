---------------------------- MODULE MCEncodeSimd -----------------------------
(***************************************************************************)
(* Vectors of two bytes with every pattern of escapes, and of four, where  *)
(* a table holds more than a byte, with a few.                             *)
(***************************************************************************)
EXTENDS EncodeSimd, MCChunks

CONSTANTS Lengths,   \* of the data, for vectors of two bytes
          Long,      \* of the data, for vectors of four
          Short, Wide   \* line sizes

MCOther == {NUL, TAB, SP, "a"} \union {Shifted[c] : c \in DOMAIN Shifted}

Marked(n, marks) == [k \in 1..n |-> IF k \in DOMAIN marks THEN marks[k] ELSE "a"]

Sparse(n, special) == {Marked(n, [k \in {p, p + 1, q} |-> special]) : p, q \in 1..(n - 1)}

MCData == [x \in VectorSize |->
              IF x = 2
              THEN UNION {[1..n -> {EQ, "a"}] : n \in Lengths}
                   \union UNION {Sparse(n, c) : n \in Lengths, c \in {TAB, DOT}}
              ELSE UNION {Sparse(n, c) : n \in Long, c \in {EQ, TAB}}]

MCLineSize == [x \in VectorSize |-> IF x = 2 THEN Short ELSE Wide]
=============================================================================
