------------------------------ MODULE YencLines ------------------------------
(***************************************************************************)
(* What encoding promises: the data written byte by byte in lines, as the  *)
(* slow reference encoder of the tests does it (refYEnc,                   *)
(* src/test/testenc.js).  It writes the end of a line as soon as the line  *)
(* is full, and takes back one that ends the data.                         *)
(*                                                                         *)
(* A byte of the data is named by the character it is written as, i.e. by  *)
(* its value plus 42.                                                      *)
(***************************************************************************)
EXTENDS YencAutomaton, SequencesExt

NUL == "NUL"
TAB == "\t"
SP  == " "

Critical == {NUL, CR, LF, EQ}
Blank    == {TAB, SP}
Edgy     == Blank \union {DOT}

\* The character 64 further, for those that may have to be escaped.
Shifted == [c \in Critical \union Edgy |->
              CASE c = NUL -> "@" [] c = CR -> "M" [] c = LF -> "J" [] c = EQ -> "}"
                [] c = TAB -> "I" [] c = SP -> "GRAVE" [] c = DOT -> "n"]

ASSUME WireAssumption ==
    {NUL, TAB, SP} \union {Shifted[c] : c \in DOMAIN Shifted} \subseteq OtherChar

Escape(c) == <<EQ, Shifted[c]>>
NewLine   == <<CR, LF>>

\* The byte a decoded byte is: c - 42 and c + 64 - 106 are the same.
Value(d) == IF d[2] = 42 THEN d[1] ELSE CHOOSE c \in DOMAIN Shifted : Shifted[c] = d[1]

-----------------------------------------------------------------------------
\* refYEnc: its switch, one turn of its loop, and what follows the loop.

MustEscape(c, col, line_size) == \/ c \in Critical
                                 \/ c = DOT /\ col = 0
                                 \/ c \in Blank /\ (col = 0 \/ col >= line_size - 1)

Put(line, c, line_size) ==
    LET chars == IF MustEscape(c, line.col, line_size) THEN Escape(c) ELSE <<c>>
        col   == line.col + Len(chars)
    IN  IF col >= line_size THEN [col |-> 0, ret |-> line.ret \o chars \o NewLine]
        ELSE [col |-> col, ret |-> line.ret \o chars]

\* The column and the text after each of the turns.
Turns(src, line_size, col) ==
    LET line[n \in 0..Len(src)] ==
          IF n = 0 THEN [col |-> col, ret |-> <<>>]
          ELSE Put(line[n - 1], src[n], line_size)
    IN  line

Lines(src, line_size, col) == Turns(src, line_size, col)[Len(src)].ret

Trimmed(s) == IF s # <<>> /\ Last(s) = LF THEN Front(Front(s)) ELSE s

Ended(s) == IF s # <<>> /\ Last(s) \in Blank THEN Front(s) \o Escape(Last(s)) ELSE s

refYEnc(src, line_size, col) == Ended(Trimmed(Lines(src, line_size, col)))
=============================================================================
