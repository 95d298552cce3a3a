----------------------------- MODULE EncodeSimd ------------------------------
(***************************************************************************)
(* do_encode_simd (src/src/encoder_common.h): a vector kernel encodes all  *)
(* but the last of the data, and a scalar loop the rest.                   *)
(*                                                                         *)
(* Every block may be encoded by any of the kernels, so that a call is one *)
(* of each of them and more.  i counts from the start of the data; the     *)
(* kernels' i < 0 is Left > INPUT_OFFSET.  col is *colOffset, and the      *)
(* kernels' col is col - (line_size - 1).                                  *)
(***************************************************************************)
EXTENDS EncodeBlock

CONSTANTS VectorSize,  \* what X may be
          Data,        \* for each of them, what a call may be given
          LineSize     \* for each of them, line sizes

ASSUME VectorAssumption ==
    /\ \A x \in VectorSize : x \in Nat /\ x >= 2 /\ x % 2 = 0
    /\ \A x \in VectorSize : Data[x] \subseteq Seq(Char) \ {<<>>}

\* "line size has to be >= 4": a kernel assumes a character that is neither
\* the first nor the last of its line.
ASSUME LineAssumption == \A x \in VectorSize : \A l \in LineSize[x] : l \in Nat /\ l >= 4

VARIABLES pc,
          line_size, colOffset, src, doEnd,  \* the arguments
          i, col, dest

args == <<X, line_size, colOffset, src, doEnd>>
vars == <<pc, args, i, col, dest>>

Sse  == INSTANCE EncodeSse
Avx2 == INSTANCE EncodeAvx2
Neon == INSTANCE EncodeNeon
Rvv  == INSTANCE EncodeRvv

W    == 2 * X
Left == Len(src) - i

Init == /\ pc = "idle"
        /\ X \in VectorSize /\ line_size \in LineSize[X]
        /\ colOffset = 0 /\ src = <<>> /\ doEnd = TRUE
        /\ i = 0 /\ col = 0 /\ dest = <<>>

Call == /\ pc = "idle"
        /\ src' \in Data[X] /\ doEnd' \in BOOLEAN
        /\ colOffset' \in 0..(line_size - 1) /\ col' = colOffset'
        /\ pc' = "enter"
        /\ UNCHANGED <<X, line_size, i, dest>>

Code(c, escape) == IF escape THEN Escape(c) ELSE <<c>>

\* escapedLUT, eolLastChar, and the characters in the middle of a line.
AtStart(c) == Code(c, c \in Critical \union Edgy)
AtEnd(c)   == Code(c, c \in Critical \union Blank)
Within(c)  == Code(c, c \in Critical)

-----------------------------------------------------------------------------
(* Kernels: before the first block.                                        *)

INPUT_OFFSET(kernel) == IF kernel \in {"SSE", "AVX2"} THEN 4 * X ELSE 4 * X - 1

Least(kernel) == CASE kernel = "SSE" -> X [] kernel = "AVX2" -> X \div 2
                   [] OTHER -> 2 * W

\* if(len <= INPUT_OFFSET || line_size < ...) return
Runs(kernel) == Len(src) > INPUT_OFFSET(kernel) /\ line_size >= Least(kernel)

\* Characters written one by one: s is where the code is, n what it reads.
Begin == [i |-> i, col |-> col, dest |-> dest]
Step(s, n, chars, c) == [i |-> s.i + n, col |-> c, dest |-> s.dest \o chars]
At(s) == src[s.i + 1]

FirstChar(s) == IF s.col # 0 THEN s
                ELSE Step(s, 1, AtStart(At(s)), Len(AtStart(At(s))))

PastLine(s) == Step(s, 1, NewLine \o AtStart(At(s)), Len(AtStart(At(s))))

WithinLine(s) == Step(s, 1, Within(At(s)), s.col + Len(Within(At(s))))

\* Fault: the byte is only taken with the first of a line.
OneMoreFault(s) == s

\* AVX2: one byte, for reads with an offset of -1.
OneMore(s) == IF s.col = 0 \/ s.col >= line_size - 1 THEN s ELSE WithinLine(s)

LastChar(s) == CASE s.col < line_size - 1 -> s
                 [] s.col = line_size - 1 -> Step(s, 1, AtEnd(At(s)) \o NewLine, 0)
                 [] OTHER -> PastLine(s)

\* encode_eol_handle_pre (RVV)
Eol(s) == LET next == src[s.i + 2]
          IN  Step(s, 2, AtEnd(At(s)) \o NewLine \o AtStart(next), Len(AtStart(next)))

\* encode_eol_handle_pre (NEON)
EolBlock(s) == LET data == SubSeq(src, s.i + 1, s.i + W)
               IN  Step(s, W, Neon!EolOut(data), Neon!EolCol(Neon!EolMask(data)))

Entered(kernel) ==
    CASE kernel = "SSE"  -> FirstChar(LastChar(Begin))
      [] kernel = "AVX2" -> FirstChar(LastChar(OneMore(Begin)))
      [] OTHER -> LET s == FirstChar(Begin)
                  IN  CASE s.col < line_size - 1 -> s
                        [] s.col > line_size - 1 -> PastLine(s)
                        [] s.col = line_size - 1 /\ kernel = "NEON" -> EolBlock(s)
                        [] OTHER -> Eol(s)

Go(s, next) == /\ i' = s.i /\ col' = s.col /\ dest' = s.dest
               /\ pc' = next
               /\ UNCHANGED args

\* SSE and AVX2 take a block before they look whether there is one.
Enter(kernel) == /\ pc = "enter" /\ Runs(kernel)
                 /\ Go(Entered(kernel), IF kernel \in {"SSE", "AVX2"} THEN "do" ELSE "while")

TooShort == /\ pc = "enter"
            /\ \E kernel \in {"SSE", "AVX2", "NEON", "RVV"} : ~Runs(kernel)
            /\ Go(Begin, "tail")

-----------------------------------------------------------------------------
(* Kernels: blocks.                                                        *)

Here == SubSeq(src, i + 1, i + W)

\* Fault: the first byte of a line is treated as one within it.
maskFault == {k \in 0..(W - 1) : Here[k + 1] \in Critical}

\* cmpA and cmpB: after a newline, the first lane is looked up differently.
mask == {k \in 0..(W - 1) : \/ Here[k + 1] \in Critical
                            \/ pc = "line" /\ k = 0 /\ Here[k + 1] \in Edgy}

MayRun(kernel) ==
    /\ line_size >= Least(kernel)
    /\ CASE pc = "do"    -> kernel \in {"SSE", "AVX2"}
         [] pc = "line"  -> kernel \in {"SSE", "AVX2"}
         [] pc = "while" -> Left > INPUT_OFFSET(kernel)
         [] OTHER -> FALSE

Over(out) == col + Len(out) - (line_size - 1)

\* A block that does not end the line, and the part of one that does.
Kept(out) == /\ Over(out) < 0
             /\ Go([i |-> i + W, col |-> col + Len(out), dest |-> dest \o out], "while")

Cutback(out, cut) == [i |-> i + W + cut.more, col |-> line_size - 1,
                      dest |-> SubSeq(dest \o out, 1, Len(dest \o out) - cut.back)]

BlockSse  == MayRun("SSE") /\ LET out == Sse!Out(Here, mask)
             IN  \/ Kept(out)
                 \/ /\ Over(out) >= 0
                    /\ \E cut \in Sse!Cuts(mask, Over(out)) : Go(Cutback(out, cut), "eol")

BlockAvx2 == MayRun("AVX2") /\ LET out == Avx2!Out(Here, mask)
             IN  \/ Kept(out)
                 \/ /\ Over(out) >= 0
                    /\ \E cut \in Avx2!Cuts(mask, Over(out)) : Go(Cutback(out, cut), "eol")

BlockNeon == MayRun("NEON") /\ LET out == Neon!Out(Here, mask)
             IN  \/ Kept(out)
                 \/ /\ Over(out) >= 0
                    /\ \E cut \in Neon!Cuts(mask, Over(out)) :
                          Go(EolBlock(Cutback(out, cut)), "while")

BlockRvv  == MayRun("RVV") /\ LET out == Rvv!Out(Here, mask)
             IN  \/ Kept(out)
                 \/ /\ Over(out) >= 0
                    /\ \E cut \in Rvv!Cuts(mask, Over(out)) :
                          Go(Eol(Cutback(out, cut)), "while")

\* Fault: the data is read on after the end of a line without a look at i.
EndLineFault(kernel) == /\ pc = "eol" /\ line_size >= Least(kernel)
                        /\ Go(Step(Begin, 1, AtEnd(src[i + 1]) \o NewLine, 0), "line")

\* _encode_eol_handle_pre: short lines never get to the loop's test of i.
EndLine(kernel) == /\ pc = "eol" /\ line_size >= Least(kernel)
                   /\ Go(Step(Begin, 1, AtEnd(src[i + 1]) \o NewLine, 0),
                         IF Left > INPUT_OFFSET(kernel) THEN "line" ELSE "tail")

Leave(kernel) == /\ pc = "while" /\ line_size >= Least(kernel) /\ Left <= INPUT_OFFSET(kernel)
                 /\ Go(Begin, "tail")

Kernel == \/ \E kernel \in {"SSE", "AVX2", "NEON", "RVV"} : Enter(kernel) \/ Leave(kernel)
          \/ BlockSse \/ BlockAvx2 \/ BlockNeon \/ BlockRvv
          \/ \E kernel \in {"SSE", "AVX2"} : EndLine(kernel)

-----------------------------------------------------------------------------
(* The scalar loop.                                                        *)

TailFirst == /\ pc = "tail"
             /\ Go(IF Left > 0 THEN FirstChar(Begin) ELSE Begin, "rest")

TailWithin == /\ pc = "rest" /\ Left > 0 /\ col < line_size - 1
              /\ Go(WithinLine(Begin), "rest")

\* Fault: the column that ends the line is left out.
TailLastFault == /\ pc = "rest" /\ Left > 0 /\ col = line_size - 1
                 /\ LET s == Step(Begin, 1, Within(At(Begin)), col)
                    IN  IF Left = 1 THEN Go(s, "end") ELSE Go(PastLine(s), "rest")

\* The column is not counted on when the data ends here.
TailLast == /\ pc = "rest" /\ Left > 0 /\ col = line_size - 1
            /\ LET s == Step(Begin, 1, AtEnd(At(Begin)), col)
               IN  IF Left = 1 THEN Go(s, "end") ELSE Go(PastLine(s), "rest")

TailPast == /\ pc = "rest" /\ Left > 0 /\ col >= line_size
            /\ Go(PastLine(Begin), "rest")

TailDone == pc = "rest" /\ Left = 0 /\ Go(Begin, "end")

Finish == /\ pc = "end"
          /\ IF doEnd /\ Last(dest) \in Blank
             THEN Go([i |-> i, col |-> col + 1, dest |-> Front(dest) \o Escape(Last(dest))], "done")
             ELSE Go(Begin, "done")

Encode == \/ Kernel \/ TooShort
          \/ TailFirst \/ TailWithin \/ TailLast \/ TailPast \/ TailDone \/ Finish

Collect == /\ pc = "done"
           /\ pc' = "idle" /\ colOffset' = 0 /\ src' = <<>> /\ doEnd' = TRUE
           /\ i' = 0 /\ col' = 0 /\ dest' = <<>>
           /\ UNCHANGED <<X, line_size>>

Next == Call \/ Encode \/ Collect

Spec == Init /\ [][Next]_vars

-----------------------------------------------------------------------------
(* Properties.                                                             *)

Reference == Lines(SubSeq(src, 1, i), line_size, colOffset)

(* Between two blocks, whichever kernel encoded them, and between two      *)
(* characters of the scalar loop, what is written is what the tests'       *)
(* reference encoder makes of the data read so far, but for a newline that *)
(* is only written with the next character; at the end it is all of it.    *)
EncodesAsReference ==
    /\ pc \in {"do", "while", "rest", "end"} => Trimmed(dest) = Trimmed(Reference)
    /\ pc = "line" => dest = Reference
    /\ pc = "done" => i = Len(src)
    /\ pc = "done" /\ doEnd => dest = refYEnc(src, line_size, colOffset)

(* The kernels' column is that of the line being written; the scalar loop  *)
(* that takes over from them would put the end of the line elsewhere.      *)
KnowsColumn ==
    pc \in {"do", "line", "while"} =>
        LET Newlines == {k \in DOMAIN dest : dest[k] = LF}
            start    == IF Newlines = {} THEN 0 ELSE CHOOSE k \in Newlines : \A l \in Newlines : l <= k
        IN  /\ col = Len(dest) - start + (IF start = 0 THEN colOffset ELSE 0)
            /\ pc = "while" => col < line_size - 1

YENC_MAX_SIZE(len, size) == len * 2 + 2 + 2 * ((len * 2) \div size)

(* A block is read from the data, with the byte that ends the line after   *)
(* it and, by AVX2, the byte before it; and its vectors are stored within  *)
(* what is allocated, even without the 64 bytes added for them.            *)
StaysInBuffers ==
    /\ pc = "enter" /\ Runs("AVX2") => Entered("AVX2").i > 0
    /\ pc \in {"do", "line", "while"} /\ (\E kernel \in {"SSE", "AVX2"} : MayRun(kernel)) =>
          /\ i + W < Len(src)
          /\ \A stored \in {Sse!Stored(mask), Avx2!Stored(mask), Rvv!Stored(mask)} :
                Len(dest) + stored <= YENC_MAX_SIZE(Len(src), line_size)
    /\ pc = "eol" => i < Len(src)
    /\ MayRun("NEON") =>
          LET over == Over(Neon!Out(Here, mask))
          IN  over >= 0 => \A cut \in Neon!Cuts(mask, over) : i + W + cut.more + W <= Len(src)

(* What has been written by the end of a block is not taken back, and the  *)
(* end of a line always comes with a byte of data: every call gets on.     *)
GetsOn == [][pc # "done" =>
                /\ i' >= i
                /\ pc = "eol" => i' > i
                /\ pc # "end" => IsPrefix(dest, dest')]_vars
=============================================================================
