------------------------------ MODULE MCEncoder ------------------------------
(***************************************************************************)
(* Every short text of all kinds of characters, longer ones that escape in *)
(* a run what belongs in the last column, and ones of several runs.        *)
(***************************************************************************)
EXTENDS Encoder, MCChunks

CONSTANTS MaxLen, MaxEdges, MaxBlanks, MaxPlain

MCOther == {NUL, TAB, SP, "a"} \union {Shifted[c] : c \in DOMAIN Shifted}
MCData  == (Upto({NUL, CR, LF, EQ, TAB, SP, DOT, Y, "a"}, MaxLen)
            \union Upto({EQ, TAB, DOT, "a"}, MaxEdges)
            \union Upto({EQ, TAB}, MaxBlanks)
            \union Upto({EQ, "a"}, MaxPlain)) \ {<<>>}
=============================================================================
