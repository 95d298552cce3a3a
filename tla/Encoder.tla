------------------------------- MODULE Encoder -------------------------------
(***************************************************************************)
(* do_encode_generic (src/src/encoder.cc), the portable encoder, called by *)
(* Encode and EncodeTo (doEnd) and by EncodeIncr (not doEnd) of            *)
(* src/src/yencode.cc with a checked line size and column.                 *)
(*                                                                         *)
(* i counts from the start of the data here: es[i] is src[i + 1], and      *)
(* i < -1-8 is Rem > 9.  p - dest is Len(dest).                            *)
(***************************************************************************)
EXTENDS Integers, YencLines

CONSTANTS Data,      \* what a call may be given
          LineSize,  \* line sizes
          Run        \* the number of bytes in an unrolled run: 8 in the code

ASSUME DataAssumption == Data \subseteq Seq(Char) \ {<<>>}
ASSUME SizeAssumption == LineSize \subseteq Nat \ {0} /\ Run \in Nat \ {0}

NULL == -1

VARIABLES pc,
          line_size, colOffset, src, doEnd,  \* the arguments
          i, col, dest,
          sp,                                \* where the last run began to write
          n,                                 \* DO_THING(n) is next
          top                                \* how far the output has been written

args == <<line_size, colOffset, src, doEnd>>
vars == <<pc, args, i, col, dest, sp, n, top>>

Init == /\ pc = "idle"
        /\ line_size \in LineSize /\ colOffset = 0 /\ src = <<>> /\ doEnd = TRUE
        /\ i = 0 /\ col = 0 /\ dest = <<>> /\ sp = NULL /\ n = 0 /\ top = 0

Rem == Len(src) - i
Here == src[i + 1]

\* Fault: the newline that may come early is forgotten.
YENC_MAX_SIZE_Fault(len, size) == len * 2 + 2 * ((len * 2) \div size)

\* Without the 64 bytes for the vectors of the SIMD encoders.
YENC_MAX_SIZE(len, size) == len * 2 + 2 + 2 * ((len * 2) \div size)

\* A column as long as the line is allowed, and is the first one.
Call == /\ pc = "idle"
        /\ src' \in Data /\ doEnd' \in BOOLEAN
        /\ \E c \in 0..line_size : colOffset' = IF c = line_size THEN 0 ELSE c
        /\ col' = colOffset'
        /\ pc' = "first"
        /\ UNCHANGED <<line_size, i, dest, sp, n, top>>

\* memcpy of chars to p: all of them are kept, or one more has been written.
Write(chars, more) == /\ dest' = dest \o chars
                      /\ top' = IF Len(dest) + Len(chars) + more > top
                                THEN Len(dest) + Len(chars) + more ELSE top

\* escapedLUT[c] # 0
AtEdge(c) == c \in Critical \union Edgy

Code(c, escape) == IF escape THEN Escape(c) ELSE <<c>>

-----------------------------------------------------------------------------
\* Fault: an escape is counted as one column.
FirstColumnFault == /\ pc = "first"
                    /\ IF col = 0
                       THEN Write(Code(Here, AtEdge(Here)), 0) /\ col' = 1 /\ i' = i + 1
                       ELSE UNCHANGED <<i, col, dest, top>>
                    /\ pc' = "line"
                    /\ UNCHANGED <<args, sp, n>>

First == /\ pc = "first"
         /\ IF col = 0
            THEN LET chars == Code(Here, AtEdge(Here))
                 IN  Write(chars, 0) /\ col' = Len(chars) /\ i' = i + 1
            ELSE UNCHANGED <<i, col, dest, top>>
         /\ pc' = "line"
         /\ UNCHANGED <<args, sp, n>>

Line == /\ pc = "line"
        /\ pc' = IF Rem > 0 THEN "runs" ELSE "end"
        /\ sp' = NULL
        /\ UNCHANGED <<args, i, col, dest, n, top>>

RunFits == Rem > 1 + Run /\ col + 1 + Run < line_size

StartRun == /\ pc = "runs" /\ RunFits
            /\ sp' = Len(dest) /\ n' = 0
            /\ pc' = "run"
            /\ UNCHANGED <<args, i, col, dest, top>>

DO_THING == /\ pc = "run" /\ n < Run
            /\ Write(Code(src[i + n + 1], src[i + n + 1] \in Critical), 0)
            /\ n' = n + 1
            /\ UNCHANGED <<pc, args, i, col, sp>>

RunDone == /\ pc = "run" /\ n = Run
           /\ i' = i + Run /\ col' = col + (Len(dest) - sp)
           /\ pc' = "runs"
           /\ UNCHANGED <<args, dest, sp, n, top>>

Overflowed == sp # NULL /\ col >= line_size - 1

NoUndo == /\ pc = "runs" /\ ~RunFits /\ ~Overflowed
          /\ pc' = "rest"
          /\ UNCHANGED <<args, i, col, dest, sp, n, top>>

\* Fault: the run that did not fit is tried again.
UndoAgainFault == /\ pc = "runs" /\ ~RunFits /\ Overflowed
                  /\ col' = col - (Len(dest) - sp) /\ dest' = SubSeq(dest, 1, sp) /\ i' = i - Run
                  /\ pc' = "line"
                  /\ UNCHANGED <<args, sp, n, top>>

\* Fault: the input is not taken back with the output.
UndoFault == /\ pc = "runs" /\ ~RunFits /\ Overflowed
             /\ col' = col - (Len(dest) - sp) /\ dest' = SubSeq(dest, 1, sp)
             /\ pc' = "rest"
             /\ UNCHANGED <<args, i, sp, n, top>>

Undo == /\ pc = "runs" /\ ~RunFits /\ Overflowed
        /\ col' = col - (Len(dest) - sp) /\ dest' = SubSeq(dest, 1, sp) /\ i' = i - Run
        /\ pc' = "rest"
        /\ UNCHANGED <<args, sp, n, top>>

\* Fault: the end of the data is only looked for at the end of the line.
RestFault == /\ pc = "rest" /\ col < line_size - 1
             /\ LET chars == Code(Here, Here \in Critical)
                IN  Write(chars, 0) /\ col' = col + Len(chars)
             /\ i' = i + 1
             /\ pc' = "rest"
             /\ UNCHANGED <<args, sp, n>>

Rest == /\ pc = "rest" /\ col < line_size - 1
        /\ LET chars == Code(Here, Here \in Critical)
           IN  Write(chars, 0) /\ col' = col + Len(chars)
        /\ i' = i + 1
        /\ pc' = IF Rem = 1 THEN "end" ELSE "rest"
        /\ UNCHANGED <<args, sp, n>>

\* Fault: the last column is treated as the ones before it.
LastCharFault == /\ pc = "rest" /\ col = line_size - 1
                 /\ Write(Code(Here, Here \in Critical), 0)
                 /\ i' = i + 1
                 /\ pc' = IF Rem = 1 THEN "end" ELSE "newline"
                 /\ UNCHANGED <<args, col, sp, n>>

\* The column is not counted on.
LastChar == /\ pc = "rest" /\ col = line_size - 1
            /\ Write(Code(Here, AtEdge(Here) /\ Here # DOT), 0)
            /\ i' = i + 1
            /\ pc' = IF Rem = 1 THEN "end" ELSE "newline"
            /\ UNCHANGED <<args, col, sp, n>>

NoLastChar == /\ pc = "rest" /\ col >= line_size
              /\ pc' = "newline"
              /\ UNCHANGED <<args, i, col, dest, sp, n, top>>

\* Fault: the column is counted on from the line before.
StartLineFault == /\ pc = "newline"
                  /\ LET chars == Code(Here, AtEdge(Here))
                     IN  Write(NewLine \o chars, 2 - Len(chars)) /\ col' = col + Len(chars)
                  /\ i' = i + 1
                  /\ pc' = "line"
                  /\ UNCHANGED <<args, sp, n>>

\* The end of the line and the first character of the next: a word of four.
StartLine == /\ pc = "newline"
             /\ LET chars == Code(Here, AtEdge(Here))
                IN  Write(NewLine \o chars, 2 - Len(chars)) /\ col' = Len(chars)
             /\ i' = i + 1
             /\ pc' = "line"
             /\ UNCHANGED <<args, sp, n>>

\* Fault: a blank is escaped only if it is a tab.
FinishFault == /\ pc = "end"
               /\ IF doEnd /\ Last(dest) = TAB
                  THEN /\ dest' = Front(dest) \o Escape(Last(dest)) /\ col' = col + 1
                       /\ top' = IF Len(dest) + 1 > top THEN Len(dest) + 1 ELSE top
                  ELSE UNCHANGED <<dest, col, top>>
               /\ pc' = "done"
               /\ UNCHANGED <<args, i, sp, n>>

Finish == /\ pc = "end"
          /\ IF doEnd /\ Last(dest) \in Blank
             THEN /\ dest' = Front(dest) \o Escape(Last(dest)) /\ col' = col + 1
                  /\ top' = IF Len(dest) + 1 > top THEN Len(dest) + 1 ELSE top
             ELSE UNCHANGED <<dest, col, top>>
          /\ pc' = "done"
          /\ UNCHANGED <<args, i, sp, n>>

Encode == \/ First \/ Line \/ StartRun \/ DO_THING \/ RunDone \/ NoUndo \/ Undo
          \/ Rest \/ LastChar \/ NoLastChar \/ StartLine \/ Finish

Collect == /\ pc = "done"
           /\ pc' = "idle" /\ colOffset' = 0 /\ src' = <<>> /\ doEnd' = TRUE
           /\ i' = 0 /\ col' = 0 /\ dest' = <<>> /\ sp' = NULL /\ n' = 0 /\ top' = 0
           /\ UNCHANGED line_size

Next == Call \/ Encode \/ Collect

Spec == Init /\ [][Next]_vars /\ WF_vars(Encode)

-----------------------------------------------------------------------------
(* Properties.                                                             *)

(* The variables keep their types; a column passes the end of the line by  *)
(* one at most, but for those of a run that is about to be undone.         *)
TypeOK ==
    /\ pc \in {"idle", "first", "line", "runs", "run", "rest", "newline", "end", "done"}
    /\ line_size \in LineSize /\ colOffset \in 0..(line_size - 1)
    /\ src \in Data \union {<<>>} /\ doEnd \in BOOLEAN
    /\ i \in 0..Len(src) /\ top \in Nat
    /\ dest \in Seq(Char)
    /\ sp \in NULL..Len(dest) /\ n \in 0..Run
    /\ col \in 0..(line_size + 2 * Run)
    /\ pc \notin {"runs", "run"} => col <= line_size + 1

(* No character past the data is read: there is one where the code reads   *)
(* without having tested i since, and a run lies in the data (es[i+7]).    *)
NoOverread == /\ pc \in {"first", "rest", "newline"} => Rem > 0
              /\ pc = "run" => i + Run < Len(src)

(* The output, with the characters of runs undone and the fourth byte of   *)
(* the word written at the start of a line, stays within what is allocated *)
(* for it without the room for vectors (YENC_MAX_SIZE, yencode.cc).        *)
FitsMaxSize == Len(dest) <= top /\ top <= YENC_MAX_SIZE(Len(src), line_size)

(* At the start of each turn of the loop and at the end, what is written   *)
(* is what the tests' reference encoder makes of the data read so far, but *)
(* for the newline that is written with the next character.                *)
EncodesAsReference ==
    /\ pc \in {"line", "end"} =>
          dest = Trimmed(Lines(SubSeq(src, 1, i), line_size, colOffset))
    /\ pc = "done" => i = Len(src)
    /\ pc = "done" /\ doEnd => dest = refYEnc(src, line_size, colOffset)

EndStream == INSTANCE YencStream WITH
                Chunk <- {}, Start <- "CRLF", To <- Goto, Yields <- Emit, Ends <- Verdict,
                chunk <- <<>>, at <- 0, decoded <- 0
Unstuffed == INSTANCE YencStream WITH
                Chunk <- {}, Start <- "NONE", To <- UnstuffedGoto, Yields <- UnstuffedEmit,
                Ends <- NoEnd, chunk <- <<>>, at <- 0, decoded <- 0

Values(out) == [k \in 1..Len(out) |-> Value(out[k])]

(* The encoded data decodes to the data, sent over NNTP as it is, without  *)
(* a dot stuffed, and with a decoder that leaves the dots alone; and it is *)
(* never taken for the end of the data.                                    *)
DecodesBack ==
    pc = "done" =>
        /\ Values(Unstuffed!After(dest, "NONE").decoded.out) = src
        /\ LET d == EndStream!After(dest, IF colOffset = 0 THEN "CRLF" ELSE "NONE").decoded
           IN  Values(d.out) = src /\ d.ended = "NONE"

NewLineAt(k)  == dest[k] = CR
LineStarts == {0} \union {k + 1 : k \in {m \in DOMAIN dest : NewLineAt(m)}}
LineFrom(k)   == LET Ends == {m \in DOMAIN dest : m > k /\ NewLineAt(m)}
                     end  == CHOOSE m \in Ends : \A l \in Ends : m <= l
                 IN  SubSeq(dest, k + 1, IF Ends = {} THEN Len(dest) ELSE end - 1)
Filled(k)     == Len(LineFrom(k)) + (IF k = 0 THEN colOffset ELSE 0)

(* The newlines are whole, a line is of line_size characters, or one more  *)
(* if it ends in an escape, none but the last is shorter, and no line      *)
(* begins with a dot or a blank nor ends with a blank.                     *)
LaidOutInLines ==
    pc = "done" /\ doEnd =>
        /\ \A k \in DOMAIN dest : dest[k] = LF <=> k > 1 /\ NewLineAt(k - 1)
        /\ \A k \in LineStarts :
              /\ Filled(k) <= line_size + 1
              /\ Filled(k) > line_size => LineFrom(k)[Len(LineFrom(k)) - 1] = EQ
              /\ (\E l \in LineStarts : l > k) => Filled(k) >= line_size
              /\ k > 0 \/ colOffset = 0 => Head(LineFrom(k)) \notin Edgy
              /\ LineFrom(k) # <<>> => Last(LineFrom(k)) \notin Blank

\* The data read for good: not by a run that may be undone.
Settled == IF pc = "runs" /\ sp # NULL THEN i - Run ELSE i

\* How far a turn of the main loop is from reading more of it.
Stage == CASE pc = "first" -> Run + 7
           [] pc = "line"  -> Run + 6
           [] pc = "runs"  -> IF sp = NULL THEN Run + 5 ELSE 3
           [] pc = "run"   -> Run + 4 - n
           [] pc = "rest"  -> 2
           [] pc = "done"  -> 0
           [] OTHER        -> 1

(* A call cannot go on for ever, although a run may be undone: every step  *)
(* reads more of the data for good, or gets nearer to where that happens;  *)
(* nothing that has been read for good is taken back, so a run is undone   *)
(* once and its data then read otherwise (i -= 8 in the main loop).        *)
EveryStepGetsOn ==
    [][pc \notin {"idle", "done"} =>
          /\ Settled' <= Len(src) /\ Stage' >= 0
          /\ Settled' > Settled \/ (Settled' = Settled /\ Stage' < Stage)]_vars

(* Every call returns.                                                     *)
CallReturns == (pc = "first") ~> (pc = "done")

(* "encode should return col num for incremental processing" (the TODO at  *)
(* yencode.cc:30, which EncodeIncr settles): the column returned is that   *)
(* of the next character, unless the data ended in the last column.  Then  *)
(* the column is that of the last character: LastChar does not count it.   *)
ReturnsColumn ==
    pc = "done" /\ ~doEnd =>
        \E k \in LineStarts : /\ \A l \in LineStarts : l <= k
                              /\ \/ col = Filled(k)
                                 \/ col = line_size - 1 /\ Filled(k) > col
=============================================================================
