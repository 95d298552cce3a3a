------------------------------ MODULE DecodeSimd ------------------------------
(***************************************************************************)
(* _do_decode_simd (src/src/decoder_common.h): the scalar decoder takes    *)
(* the bytes up to the first aligned one, a kernel takes whole blocks of   *)
(* Width bytes, looking a few bytes ahead of each, and the scalar decoder  *)
(* takes what is left, or all of the rest once the kernel sees the end of  *)
(* the data.  Between the three, what the bytes before amount to is        *)
(* squeezed into *state, escFirst and nextMask.                            *)
(*                                                                         *)
(* The kernel is any of those the program has one of for each machine, and *)
(* here for each block: they leave the same carries to the next.  The      *)
(* scalar decoder is used through what DecodeEnd and DecodeNoEnd establish *)
(* about it.                                                               *)
(***************************************************************************)
EXTENDS DecodeBlock

CONSTANTS Chunk,
          Word          \* of the RISC-V kernel

ASSUME ChunkAssumption == Chunk \subseteq Seq(Char)
ASSUME WordAssumption == Word \in Nat \ {0} /\ (Word >= Width \/ Width % Word = 0)
ASSUME BlockAssumption == Width % 4 = 0   \* a block is four vectors at most

VARIABLES offset,       \* (uintptr_t)*src & (width - 1)
          pc,
          given,        \* whether the caller passes a state
          state,        \* *pState
          out, ended,
          nextMask,     \* what follows the kernel: 1 for ".", 2 for "\n."
          kernelEnd,    \* where the kernel stops
          start         \* history: the state the call began with

Sse    == INSTANCE KernelSse
Avx2   == INSTANCE KernelAvx2
Neon   == INSTANCE KernelNeon
Neon64 == INSTANCE KernelNeon64
Rvv    == INSTANCE KernelRvv

mode  == <<isRaw, searchEnd>>
carry == <<escFirst, kill, nextMask, kernelEnd>>
vars  == <<mode, chunk, offset, pc, pos, given, state, out, ended, carry, start>>

Rem  == Len(chunk) - pos

\* src[0], src[1]... are the bytes of s
Ahead(s) == SubSeq(chunk, pos + 1, pos + Len(s)) = s

EndStream == INSTANCE YencStream WITH
               Start <- "CRLF", To <- Goto, Yields <- Emit, Ends <- Verdict,
               at <- pos, decoded <- [ctx |-> state, out |-> out, ended |-> ended]

RawStream == INSTANCE YencStream WITH
               Start <- "CRLF", To <- RawGoto, Yields <- RawEmit, Ends <- NoEnd,
               at <- pos, decoded <- [ctx |-> state, out |-> out, ended |-> ended]

UnstuffedStream == INSTANCE YencStream WITH
                     Start <- "CRLF", To <- UnstuffedGoto, Yields <- UnstuffedEmit, Ends <- NoEnd,
                     at <- pos, decoded <- [ctx |-> state, out |-> out, ended |-> ended]

\* What the stream of this instance makes of s after context x.
After(s, x) == IF searchEnd THEN EndStream!After(s, x)
               ELSE IF isRaw THEN RawStream!After(s, x) ELSE UnstuffedStream!After(s, x)

\* The instances decoder_set_sse2_funcs makes: plain, raw, and raw to the end.
Init == /\ isRaw \in BOOLEAN /\ searchEnd \in BOOLEAN /\ (searchEnd => isRaw)
        /\ chunk = <<>> /\ offset = 0
        /\ pc = "idle" /\ pos = 0
        /\ given \in BOOLEAN /\ (searchEnd => given)
        /\ state = "CRLF" /\ start = "CRLF"
        /\ out = <<>> /\ ended = "NONE"
        /\ escFirst = FALSE /\ kill = {} /\ nextMask = 0 /\ kernelEnd = 0

Call == /\ pc = "idle"
        /\ chunk' \in Chunk /\ offset' \in Bit
        /\ pc' = "enter"
        /\ start' = state
        /\ UNCHANGED <<mode, pos, given, state, out, ended, carry>>

\* The next call continues from the state, or there was none to continue from.
Collect == /\ pc = "done" /\ pc' = "idle"
           /\ chunk' = <<>> /\ offset' = 0 /\ pos' = 0 /\ out' = <<>> /\ ended' = "NONE"
           /\ escFirst' = FALSE /\ kill' = {} /\ nextMask' = 0 /\ kernelEnd' = 0
           /\ IF given THEN UNCHANGED <<state, start>>
                       ELSE state' = "CRLF" /\ start' = "CRLF"
           /\ UNCHANGED <<mode, given>>

-----------------------------------------------------------------------------
(* The scalar decoder.                                                     *)

\* The call for which do_decode_noend_scalar returns 0 although it wrote a byte
\* (DecodeNoEnd, CountsButEscapedCr).
Miscounts(s) == isRaw /\ ~searchEnd /\ state = "EQ" /\ s \in {<<CR>>, <<CR, LF>>}

do_decode_scalar(n, next) ==
    LET s == SubSeq(chunk, pos + 1, pos + n)
        r == After(s, state)
    IN  /\ state' = r.decoded.ctx
        /\ out' = IF Miscounts(s) THEN out ELSE out \o r.decoded.out
        /\ ended' = r.decoded.ended
        /\ pos' = pos + r.read
        /\ pc' = IF r.decoded.ended = "NONE" THEN next ELSE "done"
        /\ UNCHANGED <<mode, chunk, offset, given, carry, start>>

\* Too little for the kernel.
Short == /\ pc = "enter" /\ Len(chunk) <= Width * 2
         /\ do_decode_scalar(Len(chunk), "done")

\* amount: the bytes up to the first aligned one.
Align == /\ pc = "enter" /\ Len(chunk) > Width * 2
         /\ do_decode_scalar((Width - offset) % Width, "aligned")

\* Fault: as if "\r\n=y" were the longest sequence to look ahead for.
lenBufferFault == Width - 1 + (IF searchEnd THEN 3 ELSE IF isRaw THEN 1 ELSE 0)

lenBuffer == Width - 1 + (IF searchEnd THEN IF isRaw THEN 4 ELSE 3
                          ELSE IF isRaw THEN 2 ELSE 0)

NoKernel == /\ pc = "aligned" /\ Rem <= lenBuffer
            /\ pc' = "tail"
            /\ UNCHANGED <<mode, chunk, offset, pos, given, state, out, ended, carry, start>>

Tail_ == /\ pc = "tail"
         /\ do_decode_scalar(Rem, "done")

-----------------------------------------------------------------------------
(* The sequences that lie across the start of the first block.             *)

\* What is left of a terminator, if the bytes before amount to x.
Rest(x, e) == IF e = "ARTICLE"
              THEN IF x = "CR"            THEN {<<LF, DOT, CR, LF>>}
                   ELSE IF x = "CRLF"     THEN {<<DOT, CR, LF>>}
                   ELSE IF x = "CRLFDT"   THEN {<<CR, LF>>}
                   ELSE IF x = "CRLFDTCR" THEN {<<LF>>} ELSE {}
              ELSE IF x = "CR"            THEN {<<LF, DOT, EQ, Y>>, <<LF, EQ, Y>>}
                   ELSE IF x = "CRLF"     THEN {<<DOT, EQ, Y>>, <<EQ, Y>>}
                   ELSE IF x = "CRLFDT"   THEN {<<EQ, Y>>}
                   ELSE IF x = "CRLFEQ"   THEN {<<Y>>} ELSE {}

Straddles == searchEnd /\ \E e \in {"CONTROL", "ARTICLE"} : \E s \in Rest(state, e) : Ahead(s)

EndAtBoundary ==
    /\ pc = "aligned" /\ Rem > lenBuffer /\ searchEnd
    /\ \E e \in {"CONTROL", "ARTICLE"} : \E s \in Rest(state, e) :
          /\ Ahead(s)
          /\ ended' = e /\ pos' = pos + Len(s)
          /\ state' = IF e = "ARTICLE" THEN "CRLF" ELSE "NONE"
    /\ pc' = "done"
    /\ UNCHANGED <<mode, chunk, offset, given, out, carry, start>>

\* Fault: a "\r\n" before the place is enough.
NextMaskAtFault(n) == IF ~isRaw THEN 0
                      ELSE IF D(n - 2) = CR /\ D(n - 1) = LF THEN 1
                      ELSE IF D(n - 1) = CR /\ D(n) = LF /\ D(n + 1) = DOT THEN 1
                      ELSE 0

\* decoder_set_nextMask with the bytes around the place n bytes ahead
NextMaskAt(n) == IF ~isRaw THEN 0
                 ELSE IF D(n - 2) = CR /\ D(n - 1) = LF /\ D(n) = DOT THEN 1
                 ELSE IF D(n - 1) = CR /\ D(n) = LF /\ D(n + 1) = DOT THEN 2
                 ELSE 0

EnterKernel ==
    /\ pc = "aligned" /\ Rem > lenBuffer /\ ~Straddles
    /\ LET dLen == ((Rem - lenBuffer + Width - 1) \div Width) * Width
       IN  kernelEnd' = pos + dLen /\ nextMask' = NextMaskAt(dLen)
    /\ kill' = IF isRaw /\ state = "CRLF" /\ Ahead(<<DOT>>) THEN {0}
               ELSE IF isRaw /\ state = "CR" /\ Ahead(<<LF, DOT>>) THEN {1} ELSE {}
    /\ escFirst' = (state \in {"EQ", "CRLFEQ"})
    /\ pc' = "kernel"
    /\ UNCHANGED <<mode, chunk, offset, pos, given, state, out, ended, start>>

-----------------------------------------------------------------------------
(* The kernel: one block.                                                  *)

InBlock == pc = "kernel" /\ pos < kernelEnd

\* What the kernels make of the block
Blocks == {Sse!Result(isa) : isa \in {"SSE2", "SSSE3", "AVX3", "VBMI2"}}
             \union {Avx2!Result(isa) : isa \in {"AVX2", "AVX3", "VBMI2"}}
             \union {Neon!Result(isa) : isa \in {"ARMv7", "AArch64"}}
             \union {Neon64!Result} \union Rvv!Results

\* decoder_set_nextMask without backtracking
NextMaskHere(mask) == IF ~isRaw THEN 0
                      ELSE IF D(0) = DOT THEN IF 0 \in mask THEN 1 ELSE 0
                      ELSE IF D(1) = DOT /\ 1 \in mask THEN 2 ELSE 0

\* The end is in sight: the scalar decoder takes over at this block.
KernelBreak(b) == /\ b.stops
                  /\ nextMask' = NextMaskHere(b.mask)
                  /\ kernelEnd' = pos
                  /\ UNCHANGED <<mode, chunk, offset, pc, pos, given, state, out, ended,
                                 escFirst, kill, start>>

Block(b) == /\ ~b.stops
            /\ out' = out \o b.out
            /\ escFirst' = b.escFirst /\ kill' = b.kill
            /\ pos' = pos + Width
            /\ UNCHANGED <<mode, chunk, offset, pc, given, state, ended, nextMask, kernelEnd, start>>

KernelDone == /\ pc = "kernel" /\ pos = kernelEnd
              /\ state' = IF escFirst THEN "EQ"
                          ELSE IF nextMask = 1 THEN "CRLF"
                          ELSE IF nextMask = 2 THEN "CR" ELSE "NONE"
              /\ pc' = IF Rem = 0 THEN "done" ELSE "tail"
              /\ UNCHANGED <<mode, chunk, offset, pos, given, out, ended, carry, start>>

Kernel == (InBlock /\ \E b \in Blocks : Block(b) \/ KernelBreak(b)) \/ KernelDone
-----------------------------------------------------------------------------
Decode == Short \/ Align \/ NoKernel \/ Tail_ \/ EndAtBoundary \/ EnterKernel \/ Kernel
Next   == Call \/ Decode \/ Collect

Spec == Init /\ [][Next]_vars
-----------------------------------------------------------------------------
(* Properties.                                                             *)

\* What the stream makes of the first n bytes of the chunk.
Abstract(n) == After(SubSeq(chunk, 1, n), start)

\* How many of the first and of the last decoded bytes may be lost: the escaped \r
\* that the scalar decoder writes and does not count, the first byte of a call that
\* continues after an =, or that of an "=\r\n" the chunk ends with: the tail of a call
\* is two bytes or more.
LosesEscapedCr == isRaw /\ ~searchEnd
LostFirst == IF LosesEscapedCr /\ start = "EQ" /\ chunk # <<>> /\ chunk[1] = CR THEN {0, 1} ELSE {0}
LostLast  == IF /\ LosesEscapedCr /\ Len(chunk) > Width * 2
                /\ SubSeq(chunk, Len(chunk) - 2, Len(chunk)) = <<EQ, CR, LF>>
             THEN {0, 1} ELSE {0}

(* After every block the masks have computed what the byte-by-byte stream  *)
(* computes: the same output, no end passed, escFirst exactly when the     *)
(* next byte is escaped, and kill exactly the next dots to be dropped.     *)
BlocksTrackStream ==
    pc = "kernel" =>
        LET d == Abstract(pos).decoded
        IN  /\ d.ended = "NONE"
            /\ \E n \in LostFirst : out = SubSeq(d.out, n + 1, Len(d.out))
            /\ escFirst <=> d.ctx \in {"EQ", "CRLFEQ"}
            /\ isRaw => kill = (IF d.ctx = "CRLF" /\ D(0) = DOT THEN {0}
                                ELSE IF d.ctx = "CR" /\ D(0) = LF /\ D(1) = DOT THEN {1}
                                ELSE {})

\* Without stuffed dots only an escape carries over.
Seen(x) == IF isRaw \/ x = "EQ" THEN x ELSE "NONE"

EndsExactly == LET a == Abstract(Len(chunk))
               IN  /\ pos = a.read /\ ended = a.decoded.ended
                   /\ Seen(state) = Seen(a.decoded.ctx)

(* A whole call decodes, ends and reads exactly as the byte-by-byte stream *)
(* does, wherever the alignment and the blocks cut the chunk; all that may *)
(* be lost is the escaped \r that the scalar decoder does not count.       *)
DecodesChunk ==
    pc = "done" =>
        LET all == Abstract(Len(chunk)).decoded.out
        IN  /\ EndsExactly
            /\ \E n \in LostFirst, m \in LostLast :
                  /\ m = 1 => all[Len(all)] = Escaped(CR)
                  /\ out = SubSeq(all, n + 1, Len(all) - m)

(* decode(data, true), which carries no state in, decodes all of the data  *)
(* (README.md; refYDecRaw of src/test/testdec.js).  The code does not: see *)
(* do_decode_scalar.                                                       *)
OneShotDecodes == pc = "done" /\ ~given => out = Abstract(Len(chunk)).decoded.out

(* The RISC-V kernel finds the escapes as fix_eqMask does ("replicate      *)
(* fix_eqMask, but in vector form", decoder_rvv.cc:210).  It does not where *)
(* the mask is more than one word: see KernelRvv.                          *)
RvvReplicatesFixEqMask ==
    InBlock => Rvv!eqs = {fix_eqMask(maskEq, Shift1(maskEq, escFirst))}

(* The bytes looked at after a block are still bytes of the chunk ("our    *)
(* algorithm may perform an aligned load on the next part, of which we     *)
(* consider 2 bytes").                                                     *)
LooksWithinChunk ==
    pc = "kernel" => kernelEnd + (IF searchEnd THEN 4 ELSE IF isRaw THEN 2 ELSE 0) <= Len(chunk)
=============================================================================
