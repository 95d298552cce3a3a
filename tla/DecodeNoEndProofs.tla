-------------------------- MODULE DecodeNoEndProofs --------------------------
(***************************************************************************)
(* Proofs about DecodeNoEnd, for both instances of the template, with and  *)
(* without a state, for every set of chunks and every alphabet.            *)
(***************************************************************************)
EXTENDS DecodeNoEnd, SequenceTheorems, TLAPS

-----------------------------------------------------------------------------
(* The inductive invariant.                                                *)

Context == {"CRLF", "EQ", "CR", "NONE"}

\* At the head of the raw loop the code goes on as if the context were NONE:
\* the bytes ahead make no difference.  Without a state a line feed may be left
\* for the last byte, since nobody asks what follows it.
Harmless == /\ ctx # "EQ"
            /\ ctx # "NONE" => Rem >= 1
            /\ ctx = "CRLF" => Here # DOT
            /\ (ctx = "CR" /\ Here = LF) => /\ given => Rem >= 2
                                            /\ Rem >= 2 => Peek(1) # DOT

\* An escaped \r that was written and is now looked at as a line end.
Redo == taken = pos + 1 /\ Rem >= 1 /\ Here = CR /\ ctx = "CR"

\* Unstuffed data has no line structure: between bytes there is no context.
AtHead == IF isRaw THEN Redo \/ (taken = pos /\ Harmless)
                   ELSE taken = pos /\ ctx = "NONE"

LoopInv == /\ pc \in {"loop", "last"} => AtHead
           /\ pc = "last" => isRaw

\* The labels of the entry switch; what is written there is at most one byte.
LabelInv == /\ pc \in {"EQ", "CR", "CRLF"} => ctx = pc /\ taken = pos /\ Rem >= 1
            /\ pc \in {"CR", "CRLF"} => isRaw
            /\ pc = "EQ" => given /\ pos = 0 /\ out = <<>>
            /\ pc = "CR" => /\ given
                            /\ \/ out = <<>>
                               \/ pos = 1 /\ chunk[1] = CR /\ out = <<Escaped(CR)>>

\* Between calls the state stored, if there is one, is the context.
CallInv == /\ pc = "idle" => /\ chunk = <<>> /\ out = <<>> /\ pos = 0 /\ taken = 0
                             /\ ctx = IF given THEN Seen(state) ELSE StartCtx
           /\ pc = "done" => /\ pos = Len(chunk) /\ taken = Len(chunk)
                             /\ given => ctx = Seen(state)

Inv == /\ TypeOK /\ NoOverread /\ OutputNeverOvertakes /\ CountsButEscapedCr
       /\ LoopInv /\ LabelInv /\ CallInv

LEMMA InitInv == Init => Inv
  <1>. SUFFICES ASSUME Init PROVE Inv
    OBVIOUS
  <1>1. ctx = IF given THEN Seen(state) ELSE StartCtx
    BY DEF Init, StartCtx, Seen
  <1>2. TypeOK
    BY DEF Init, TypeOK, StartCtx, Label
  <1>. QED
    BY <1>1, <1>2 DEF Init, Inv, NoOverread, OutputNeverOvertakes, CountsButEscapedCr, LoopInv,
                      LabelInv, CallInv

-----------------------------------------------------------------------------
(* What the transition table of the instance does to a context.            *)

LEMMA GoesType ==
    ASSUME NEW x \in Context, NEW c \in Char
    PROVE  Goes(x, c) \in Context
  BY DEF Goes, Context, RawGoto, UnstuffedGoto, AfterPlain, IsStuffing

LEMMA GoesEscaped ==
    ASSUME NEW c
    PROVE  Goes("EQ", c) = IF isRaw /\ c = CR THEN "CR" ELSE "NONE"
  BY DEF Goes, RawGoto, UnstuffedGoto, IsStuffing

\* From a context that the byte does not continue, the byte is taken as it is.
LEMMA GoesPlain ==
    ASSUME NEW x \in Context, NEW c \in Char, x # "EQ",
           isRaw => ~(x = "CR" /\ c = LF) /\ ~(x = "CRLF" /\ c = DOT)
    PROVE  Goes(x, c) = IF isRaw THEN AfterPlain(c) ELSE IF c = EQ THEN "EQ" ELSE "NONE"
  BY DEF Goes, RawGoto, UnstuffedGoto, IsStuffing

LEMMA GoesSpecial ==
    ASSUME isRaw
    PROVE  Goes("CR", LF) = "CRLF" /\ Goes("CRLF", DOT) = "NONE"
  BY DEF Goes, RawGoto, IsStuffing

-----------------------------------------------------------------------------
(* The ways a step ends.                                                   *)

LEMMA StaysInLoop ==
    ASSUME TypeOK, pc \notin {"idle", "done"},
           NEW l \in {"loop", "last"}, NEW p \in 0..Len(chunk), GoOn(l, p),
           l = "last" => isRaw /\ Len(chunk) - p <= 1,
           state' \in Context, taken' \in 0..Len(chunk), ctx' \in Context,
           out' \in Seq(Byte), Len(out') <= p,
           AtHead'
    PROVE  Inv'
  BY DEF Inv, TypeOK, NoOverread, OutputNeverOvertakes, CountsButEscapedCr, LoopInv, LabelInv,
         CallInv, GoOn, Label, Context, Rem

LEMMA GoesToLabel ==
    ASSUME TypeOK, isRaw, pc # "done",
           NEW l \in {"CR", "CRLF"}, NEW p \in 0..Len(chunk), GoOn(l, p), p < Len(chunk),
           state' \in Context, taken' = p, ctx' = l,
           out' \in Seq(Byte), Len(out') <= p,
           l = "CR" => /\ given
                       /\ out' = <<>> \/ (p = 1 /\ chunk[1] = CR /\ out' = <<Escaped(CR)>>)
    PROVE  Inv'
  BY DEF Inv, TypeOK, NoOverread, OutputNeverOvertakes, CountsButEscapedCr, LoopInv, LabelInv,
         CallInv, GoOn, Label, Context, Rem

LEMMA Returns ==
    ASSUME TypeOK, NEW n \in 0..Len(chunk), Return(n), Len(chunk) \in Nat,
           state' \in Context, taken' = Len(chunk), ctx' \in Context,
           given => ctx' = IF isRaw \/ state' = "EQ" THEN state' ELSE "NONE",
           out' \in Seq(Byte), Len(out') <= Len(chunk),
           CountsButEscapedCr'
    PROVE  Inv'
  BY DEF Inv, TypeOK, NoOverread, OutputNeverOvertakes, LoopInv, LabelInv,
         CallInv, Return, Label, Context, Seen, Rem

\* Where the function returns what it wrote, nothing is left to show about it.
LEMMA Counts ==
    ASSUME NEW n, Return(n), n = Len(out')
    PROVE  CountsButEscapedCr'
  BY DEF CountsButEscapedCr, Return

LEMMA Reads ==
    ASSUME TypeOK, NEW n \in Nat, pos + n < Len(chunk)
    PROVE  Peek(n) \in Char /\ (n = 0 => Peek(n) = Here)
  BY DEF TypeOK, Peek, Here

LEMMA Writes ==
    ASSUME TypeOK, NEW c \in Char, Write(Plain(c)) \/ Write(Escaped(c))
    PROVE  out' \in Seq(Byte) /\ Len(out') = Len(out) + 1
  <1>1. PICK b \in Byte : Write(b)
    BY DEF Plain, Escaped, Byte
  <1>. QED BY <1>1 DEF TypeOK, Write

LEMMA Stores ==
    ASSUME TypeOK, NEW s \in Context, Store(s)
    PROVE  state' \in Context /\ (given => state' = s)
  BY DEF TypeOK, Store, Context

LEMMA OneByte ==
    ASSUME NEW s \in Seq(Char), Len(s) = 1
    PROVE  s = <<s[1]>>
  OBVIOUS

\* The bytes consumed on the way over the first n bytes of a branch.
LEMMA HeadConsumes ==
    ASSUME TypeOK, AtHead, NEW n \in 1..3, pos + n <= Len(chunk), Consumed(Ahead(n))
    PROVE  /\ taken' = pos + n
           /\ Redo => ctx' = IF n = 1 THEN "CR" ELSE IF n = 2 THEN Goes("CR", Peek(1))
                              ELSE Goes(Goes("CR", Peek(1)), Peek(2))
           /\ ~Redo => ctx' = IF n = 1 THEN Goes(ctx, Here)
                               ELSE IF n = 2 THEN Goes(Goes(ctx, Here), Peek(1))
                               ELSE Goes(Goes(Goes(ctx, Here), Peek(1)), Peek(2))
  <1>1. pos \in Nat /\ Len(chunk) \in Nat /\ taken \in Nat
    BY DEF TypeOK
  <1>2. CASE Redo
    <2>1. Ahead(n) = n - 1 /\ n - 1 \in 0..2
      BY <1>1, <1>2 DEF Ahead, Redo
    <2>2. Ctx1 = Goes("CR", Peek(1)) /\ Ctx2 = Goes(Ctx1, Peek(2))
      BY <1>1, <1>2 DEF Ctx1, Ctx2, Redo, Peek
    <2>. QED
      BY <1>1, <1>2, <2>1, <2>2 DEF Consumed, Redo
  <1>3. CASE ~Redo
    <2>1. Ahead(n) = n /\ taken = pos
      BY <1>1, <1>3 DEF Ahead, AtHead
    <2>2. Ctx1 = Goes(ctx, Here) /\ Ctx2 = Goes(Ctx1, Peek(1)) /\ Ctx3 = Goes(Ctx2, Peek(2))
      BY <1>1, <2>1 DEF Ctx1, Ctx2, Ctx3, Here, Peek
    <2>. QED
      BY <1>1, <1>3, <2>1, <2>2 DEF Consumed
  <1>. QED BY <1>2, <1>3

-----------------------------------------------------------------------------
(* One lemma per group of actions: the step preserves the invariant.       *)

LEMMA CallerInv == Inv /\ (Call \/ Collect \/ Restart) => Inv'
  <1>1. ASSUME Inv, Call PROVE Inv'
    <2>. USE <1>1 DEF Inv
    <2>1. /\ chunk' \in Seq(Char) /\ pos = 0 /\ taken = 0 /\ out = <<>>
          /\ UNCHANGED <<isRaw, pos, given, state, out, got, ctx, taken>>
          /\ got \in 0..Len(chunk) /\ chunk = <<>>
          /\ ctx = IF given THEN Seen(state) ELSE StartCtx
      BY ChunkAssumption DEF Call, hist, CallInv, TypeOK
    <2>2. got = 0 /\ got' = 0
      BY <2>1
    <2>3. CASE chunk' = <<>>
      <3>1. pc' = "done"
        BY <2>3 DEF Call
      <3>2. TypeOK'
        BY <2>1, <2>2, <2>3, <3>1 DEF TypeOK, Label
      <3>3. CallInv'
        BY <2>1, <2>3, <3>1 DEF CallInv, Seen
      <3>. QED
        BY <2>1, <2>2, <2>3, <3>1, <3>2, <3>3
           DEF NoOverread, OutputNeverOvertakes, CountsButEscapedCr, LoopInv, LabelInv
    <2>4. CASE chunk' # <<>>
      <3>1. Len(chunk') \in Nat /\ Len(chunk') > 0 /\ Rem' = Len(chunk')
        BY <2>1, <2>4 DEF Rem
      <3>2. pc' \in {"EQ", "CR", "CRLF", "loop"}
        BY <2>4 DEF Call
      <3>3. TypeOK'
        BY <2>1, <2>2, <3>1, <3>2 DEF TypeOK, Label
      <3>4. LabelInv'
        BY <2>1, <2>4, <3>1, <3>2 DEF Call, LabelInv, Seen, StartCtx
      <3>5. LoopInv'
        <4>1. pc' = "loop" => ctx = "NONE"
          BY <2>1, <2>4 DEF Call, Seen, StartCtx, TypeOK
        <4>. QED BY <2>1, <3>2, <4>1 DEF LoopInv, AtHead, Harmless
      <3>. QED
        BY <2>1, <3>1, <3>2, <3>3, <3>4, <3>5
           DEF NoOverread, OutputNeverOvertakes, CountsButEscapedCr, CallInv
    <2>. QED BY <2>3, <2>4
  <1>2. ASSUME Inv, Collect \/ Restart PROVE Inv'
    <2>. USE <1>2 DEF Inv
    <2>1. /\ pc' = "idle" /\ chunk' = <<>> /\ pos' = 0 /\ out' = <<>> /\ got' = 0 /\ taken' = 0
          /\ isRaw' = isRaw
      BY DEF Collect, Restart, Collected
    <2>2. given' \in BOOLEAN /\ state' \in Context /\ ctx' \in Context
      BY DEF Collect, Restart, TypeOK, Context, StartCtx
    <2>3. ctx' = IF given' THEN Seen(state)' ELSE StartCtx'
      <3>1. CASE Collect
        BY <2>1, <3>1 DEF Collect, Collected, CallInv, Seen
      <3>2. CASE Restart
        BY <2>1, <3>2 DEF Restart, StartCtx, Seen
      <3>. QED BY <3>1, <3>2
    <2>4. TypeOK'
      BY <2>1, <2>2 DEF TypeOK, Context, Label
    <2>. QED
      BY <2>1, <2>3, <2>4
         DEF NoOverread, OutputNeverOvertakes, CountsButEscapedCr, LoopInv, LabelInv, CallInv
  <1>. QED BY <1>1, <1>2

LEMMA EnterInv == Inv /\ Enter => Inv'
  <1>. SUFFICES ASSUME Inv, Enter PROVE Inv'
    OBVIOUS
  <1>. USE DEF Inv
  <1>1. pc \in {"EQ", "CR", "CRLF"} /\ pc \notin {"idle", "done"}
    BY DEF Enter, EnterEqCr, EnterEq, EnterCr, EnterCrOther, EnterCrLf, EnterPlainEq
  <1>2. /\ ctx = pc /\ taken = pos /\ Rem >= 1 /\ Rem \in Nat
        /\ Here \in Char /\ pos + 1 \in 0..Len(chunk)
        /\ pos \in Nat /\ ctx \in Context /\ state \in Context /\ Len(out) <= pos
        /\ Len(chunk) \in Nat /\ chunk \in Seq(Char) /\ out \in Seq(Byte)
    BY <1>1 DEF LabelInv, TypeOK, Rem, Here, Context, OutputNeverOvertakes
  <1>3. Ctx1 = Goes(ctx, Here)
    BY <1>2 DEF Ctx1, Here
  <1>4. CASE EnterEqCr
    <2>1. given /\ pos = 0 /\ out = <<>> /\ isRaw /\ Here = chunk[1] /\ Here = CR
      BY <1>4 DEF EnterEqCr, LabelInv, Here
    <2>2. out' = <<Escaped(CR)>> /\ out' \in Seq(Byte) /\ Len(out') = 1
      <3>1. Escaped(CR) \in Byte
        BY <1>2, <2>1 DEF Escaped, Byte
      <3>. QED BY <1>4, <2>1, <3>1 DEF EnterEqCr, Write
    <2>3. taken' = 1 /\ ctx' = "CR" /\ state' = "CR"
      BY <1>2, <1>3, <1>4, <2>1, GoesEscaped DEF EnterEqCr, Consumed, Store
    <2>4. CASE Rem = 1
      <3>1. Len(chunk) = 1 /\ chunk = <<CR>>
        <4>1. Len(chunk) = 1
          BY <1>2, <2>1, <2>4 DEF Rem
        <4>. QED BY <1>2, <2>1, <4>1, OneByte
      <3>2. Return(0)
        BY <1>4, <2>4 DEF EnterEqCr
      <3>3. CountsButEscapedCr'
        BY <2>1, <2>2, <3>1, <3>2 DEF CountsButEscapedCr, Return
      <3>. QED
        BY <2>1, <2>2, <2>3, <3>1, <3>2, <3>3, Returns DEF Context
    <2>5. CASE Rem > 1
      <3>1. GoOn("CR", pos + 1)
        BY <1>4, <2>5 DEF EnterEqCr
      <3>2. pos + 1 = 1 /\ 1 < Len(chunk)
        BY <1>2, <2>1, <2>5 DEF Rem
      <3>. QED
        BY <1>1, <1>2, <2>1, <2>2, <2>3, <3>1, <3>2, GoesToLabel DEF Context
    <2>. QED BY <1>2, <2>4, <2>5
  <1>5. CASE EnterEq \/ EnterPlainEq
    <2>1. /\ Write(Escaped(Here)) /\ Consumed(1) /\ Store("NONE") /\ GoOn("loop", pos + 1)
          /\ ~(isRaw /\ Here = CR) /\ ctx = "EQ"
      BY <1>2, <1>5 DEF EnterEq, EnterPlainEq
    <2>2. out' \in Seq(Byte) /\ Len(out') <= pos + 1
      BY <1>2, <2>1, Writes
    <2>3. taken' = pos + 1 /\ ctx' = "NONE" /\ state' \in Context
      BY <1>2, <1>3, <2>1, GoesEscaped, Stores DEF Consumed, Context
    <2>4. AtHead'
      BY <2>1, <2>3 DEF AtHead, GoOn, Harmless
    <2>. QED
      BY <1>1, <1>2, <2>1, <2>2, <2>3, <2>4, StaysInLoop DEF Context
  <1>6. CASE EnterCr
    <2>1. isRaw /\ Here = LF /\ given /\ out' = out /\ ctx = "CR"
      BY <1>2, <1>6 DEF EnterCr, LabelInv, NoWrite
    <2>2. taken' = pos + 1 /\ ctx' = "CRLF" /\ state' = "CRLF"
      BY <1>2, <1>3, <1>6, <2>1, GoesSpecial DEF EnterCr, Consumed, Store
    <2>3. CASE Rem = 1
      <3>1. Len(chunk) = pos + 1 /\ Return(0)
        BY <1>2, <1>6, <2>3 DEF EnterCr, Rem
      <3>2. out = <<>> \/ (chunk = <<CR, LF>> /\ out = <<Escaped(CR)>>)
        <4>1. CASE pos = 1 /\ chunk[1] = CR /\ out = <<Escaped(CR)>>
          <5>1. Len(chunk) = 2 /\ chunk[2] = LF
            BY <2>1, <3>1, <4>1 DEF Here
          <5>2. chunk = <<CR, LF>>
            BY <1>2, <4>1, <5>1
          <5>. QED BY <4>1, <5>2
        <4>. QED BY <1>6, <4>1 DEF EnterCr, LabelInv
      <3>3. CountsButEscapedCr'
        BY <2>1, <3>1, <3>2 DEF CountsButEscapedCr, Return
      <3>. QED
        BY <1>2, <2>1, <2>2, <3>1, <3>3, Returns DEF Context
    <2>4. CASE Rem > 1
      <3>1. GoOn("CRLF", pos + 1) /\ pos + 1 < Len(chunk)
        BY <1>2, <1>6, <2>4 DEF EnterCr, Rem
      <3>. QED
        BY <1>1, <1>2, <2>1, <2>2, <3>1, GoesToLabel DEF Context
    <2>. QED BY <1>2, <2>3, <2>4
  <1>7. CASE EnterCrOther
    <2>1. /\ GoOn("loop", pos) /\ taken' = pos /\ ctx' = ctx /\ out' = out /\ state' = state
          /\ Here # LF /\ ctx = "CR"
      BY <1>2, <1>7 DEF EnterCrOther, Consumed, NoWrite
    <2>2. AtHead'
      BY <1>2, <1>7, <2>1 DEF EnterCrOther, AtHead, Harmless, GoOn, Rem, Here
    <2>. QED
      BY <1>1, <1>2, <2>1, <2>2, StaysInLoop
  <1>8. CASE EnterCrLf
    <2>1. isRaw /\ out' = out /\ state' = state /\ ctx = "CRLF"
      BY <1>2, <1>8 DEF EnterCrLf, NoWrite
    <2>2. CASE Here = DOT
      <3>1. GoOn("loop", pos + 1) /\ taken' = pos + 1 /\ ctx' = "NONE"
        BY <1>2, <1>3, <1>8, <2>1, <2>2, GoesSpecial DEF EnterCrLf, Consumed
      <3>2. AtHead'
        BY <3>1 DEF AtHead, GoOn, Harmless
      <3>. QED
        BY <1>1, <1>2, <2>1, <3>1, <3>2, StaysInLoop DEF Context
    <2>3. CASE Here # DOT
      <3>1. GoOn("loop", pos) /\ taken' = pos /\ ctx' = ctx
        BY <1>2, <1>8, <2>3 DEF EnterCrLf, Consumed
      <3>2. AtHead'
        BY <1>2, <2>1, <2>3, <3>1 DEF AtHead, GoOn, Harmless, Rem, Here
      <3>. QED
        BY <1>1, <1>2, <2>1, <3>1, <3>2, StaysInLoop
    <2>. QED BY <2>2, <2>3
  <1>. QED BY <1>4, <1>5, <1>6, <1>7, <1>8 DEF Enter

LEMMA MainLoopInv == Inv /\ Loop => Inv'
  <1>. SUFFICES ASSUME Inv, Loop PROVE Inv'
    OBVIOUS
  <1>. USE DEF Inv
  <1>1. pc = "loop" /\ pc \notin {"idle", "done"} /\ InLoop /\ state' = state
    BY DEF Loop, LoopData, LoopNewline, LoopSkipDot, LoopEscape, InLoop
  <1>2. /\ pos \in Nat /\ Len(chunk) \in Nat /\ chunk \in Seq(Char) /\ ctx \in Context
        /\ out \in Seq(Byte) /\ Len(out) <= pos /\ state \in Context /\ AtHead
        /\ isRaw \in BOOLEAN
    BY <1>1 DEF TypeOK, Context, OutputNeverOvertakes, LoopInv
  <1>3. pos + 1 < Len(chunk) /\ (isRaw => pos + 2 < Len(chunk))
    BY <1>1, <1>2 DEF InLoop, Rem
  <1>4. Here \in Char /\ Peek(1) \in Char /\ (isRaw => Peek(2) \in Char)
    BY <1>2, <1>3 DEF Here, Peek
  <1>9. ASSUME ~Redo
        PROVE  taken = pos /\ ctx # "EQ" /\ (isRaw => Harmless)
    <2>1. CASE isRaw
      BY <1>2, <1>9, <2>1 DEF AtHead, Harmless
    <2>2. CASE ~isRaw
      BY <1>2, <2>2 DEF AtHead
    <2>. QED BY <2>1, <2>2
  <1>5. CASE LoopData
    <2>0. ~Redo
      BY <1>5 DEF LoopData, Redo
    <2>1. ~Redo /\ taken = pos /\ ctx # "EQ" /\ (isRaw => Harmless)
      BY <1>9, <2>0
    <2>2. taken' = pos + 1 /\ ctx' = "NONE"
      <3>1. Goes(ctx, Here) = "NONE"
        BY <1>2, <1>4, <1>5, <2>1, GoesPlain DEF LoopData, Harmless, AfterPlain
      <3>. QED BY <1>2, <1>3, <1>5, <2>1, <3>1, HeadConsumes DEF LoopData
    <2>3. AtHead'
      BY <1>5, <2>2 DEF LoopData, GoOn, AtHead, Harmless
    <2>4. out' \in Seq(Byte) /\ Len(out') = Len(out) + 1
      BY <1>4, <1>5, Writes DEF LoopData
    <2>. QED
      BY <1>1, <1>2, <1>3, <1>5, <2>2, <2>3, <2>4, StaysInLoop DEF LoopData, Context
  <1>6. CASE LoopNewline
    <2>1. GoOn("loop", pos + 1) /\ out' = out /\ Here \in {CR, LF} /\ ~StuffedDot
      BY <1>6 DEF LoopNewline, NoWrite
    <2>2. /\ taken' = pos + 1
          /\ ctx' = IF Redo THEN "CR" ELSE Goes(ctx, Here)
      BY <1>2, <1>3, <1>6, HeadConsumes DEF LoopNewline
    <2>3. ctx' \in Context
      BY <1>2, <1>4, <2>2, GoesType DEF Context
    <2>4. AtHead'
      <3>1. CASE Redo
        <4>1. isRaw /\ Here = CR /\ ctx' = "CR"
          BY <1>2, <2>2, <3>1 DEF AtHead, Redo
        <4>. QED
          BY <1>2, <1>3, <2>1, <2>2, <4>1
             DEF StuffedDot, AtHead, Harmless, GoOn, Here, Peek, Rem, CR, LF
      <3>2. CASE ~Redo /\ isRaw /\ ctx = "CR" /\ Here = LF
        <4>1. ctx' = "CRLF" /\ Harmless
          BY <1>2, <2>2, <3>2, GoesSpecial DEF AtHead
        <4>. QED
          BY <1>2, <1>3, <2>1, <2>2, <3>2, <4>1 DEF AtHead, Harmless, GoOn, Here, Peek, Rem
      <3>3. CASE ~Redo /\ isRaw /\ ~(ctx = "CR" /\ Here = LF)
        <4>1. Harmless
          BY <1>2, <3>3 DEF AtHead
        <4>2. ctx' = IF Here = CR THEN "CR" ELSE "NONE"
          BY <1>2, <1>4, <2>1, <2>2, <3>3, <4>1, GoesPlain
             DEF Harmless, AfterPlain, CR, LF, EQ, DOT
        <4>. QED
          BY <1>2, <1>3, <2>1, <2>2, <3>3, <4>2
             DEF StuffedDot, AtHead, Harmless, GoOn, Here, Peek, Rem, CR, LF
      <3>4. CASE ~isRaw
        <4>1. ~Redo /\ ctx = "NONE"
          BY <1>2, <3>4 DEF AtHead, Redo
        <4>2. ctx' = "NONE"
          BY <1>2, <1>4, <2>1, <2>2, <3>4, <4>1, GoesPlain DEF CR, LF, EQ
        <4>. QED BY <2>1, <2>2, <3>4, <4>2 DEF AtHead, GoOn
      <3>. QED BY <1>2, <3>1, <3>2, <3>3, <3>4
    <2>5. /\ pos + 1 \in 0..Len(chunk) /\ taken' \in 0..Len(chunk)
          /\ out' \in Seq(Byte) /\ Len(out') <= pos + 1 /\ state' \in Context
      BY <1>1, <1>2, <1>3, <2>1, <2>2
    <2>. QED
      BY <1>1, <2>1, <2>3, <2>4, <2>5, StaysInLoop
  \* \r\n, with or without the \r having been escaped
  <1>7. CASE LoopSkipDot
    <2>1. isRaw /\ Here = CR /\ Peek(1) = LF /\ Peek(2) = DOT /\ GoOn("loop", pos + 3) /\ out' = out
      BY <1>7 DEF LoopSkipDot, StuffedDot, NoWrite
    <2>2. taken' = pos + 3 /\ ctx' = "NONE"
      <3>1. Goes("CR", LF) = "CRLF" /\ Goes("CRLF", DOT) = "NONE"
        BY <2>1, GoesSpecial
      <3>2. ~Redo => Goes(ctx, Here) = "CR"
        BY <1>2, <1>4, <2>1, GoesPlain DEF AtHead, Harmless, AfterPlain, CR, LF, DOT
      <3>. QED
        BY <1>2, <1>3, <1>7, <2>1, <3>1, <3>2, HeadConsumes DEF LoopSkipDot
    <2>3. AtHead'
      BY <2>1, <2>2 DEF AtHead, GoOn, Harmless
    <2>4. /\ pos + 3 \in 0..Len(chunk) /\ taken' \in 0..Len(chunk) /\ ctx' \in Context
          /\ out' \in Seq(Byte) /\ Len(out') <= pos + 3 /\ state' \in Context
      BY <1>1, <1>2, <1>3, <2>1, <2>2 DEF Context
    <2>. QED
      BY <1>1, <2>1, <2>3, <2>4, StaysInLoop
  <1>8. CASE LoopEscape
    <2>0. Here = EQ /\ ~Redo
      BY <1>8 DEF LoopEscape, Redo, CR, EQ
    <2>1. Here = EQ /\ ~Redo /\ taken = pos /\ ctx # "EQ" /\ (isRaw => Harmless)
      BY <1>9, <2>0
    <2>2. taken' = pos + 2 /\ ctx' = IF isRaw /\ Peek(1) = CR THEN "CR" ELSE "NONE"
      <3>1. Goes(ctx, Here) = "EQ"
        BY <1>2, <1>4, <2>1, GoesPlain DEF Harmless, AfterPlain, CR, LF, EQ, DOT
      <3>. QED
        BY <1>2, <1>3, <1>8, <2>1, <3>1, GoesEscaped, HeadConsumes DEF LoopEscape
    <2>3. out' \in Seq(Byte) /\ Len(out') = Len(out) + 1
      BY <1>4, <1>8, Writes DEF LoopEscape
    <2>4. CASE isRaw /\ Peek(1) = CR
      <3>1. GoOn("loop", pos + 1)
        BY <1>8, <2>4 DEF LoopEscape
      <3>2. AtHead'
        BY <1>2, <1>3, <2>2, <2>4, <3>1 DEF AtHead, Redo, GoOn, Here, Peek, Rem
      <3>. QED
        BY <1>1, <1>2, <1>3, <2>2, <2>3, <2>4, <3>1, <3>2, StaysInLoop DEF Context
    <2>5. CASE ~(isRaw /\ Peek(1) = CR)
      <3>1. GoOn("loop", pos + 2)
        BY <1>8, <2>5 DEF LoopEscape
      <3>2. AtHead'
        BY <2>2, <2>5, <3>1 DEF AtHead, GoOn, Harmless
      <3>. QED
        BY <1>1, <1>2, <1>3, <2>2, <2>3, <2>5, <3>1, <3>2, StaysInLoop DEF Context
    <2>. QED BY <2>4, <2>5
  <1>. QED BY <1>5, <1>6, <1>7, <1>8 DEF Loop

LEMMA FinalInv == Inv /\ Final => Inv'
  <1>. SUFFICES ASSUME Inv, Final PROVE Inv'
    OBVIOUS
  <1>. USE DEF Inv
  <1>1. pc \in {"loop", "last"} /\ pc \notin {"idle", "done"}
    BY DEF Final, SecondLastCrLf, SecondLastNewline, SecondLastEscape, SecondLastData,
           LastData, LastSpecial, Finish, AtSecondLast, AtLast
  <1>2. /\ pos \in Nat /\ Len(chunk) \in Nat /\ chunk \in Seq(Char) /\ ctx \in Context
        /\ out \in Seq(Byte) /\ Len(out) <= pos /\ state \in Context /\ AtHead
        /\ isRaw \in BOOLEAN /\ given \in BOOLEAN
    BY <1>1 DEF TypeOK, Context, OutputNeverOvertakes, LoopInv
  <1>3. ASSUME AtSecondLast
        PROVE  isRaw /\ Rem >= 1 /\ pos + 2 = Len(chunk) /\ Here \in Char /\ Peek(1) \in Char
    BY <1>2, <1>3 DEF AtSecondLast, Rem, Here, Peek
  <1>4. ASSUME AtLast
        PROVE  Rem >= 1 /\ pos + 1 = Len(chunk) /\ Here \in Char
    BY <1>2, <1>4 DEF AtLast, Rem, Here
  \* A byte passed over at the end: what it does to the context.
  <1>5. ASSUME AtSecondLast \/ AtLast, Consumed(Ahead(1))
        PROVE  /\ taken' = pos + 1 /\ ctx' \in Context
               /\ ctx' = IF Redo THEN "CR" ELSE Goes(ctx, Here)
    <2>1. pos + 1 <= Len(chunk) /\ Here \in Char
      BY <1>2, <1>3, <1>4, <1>5
    <2>2. taken' = pos + 1 /\ ctx' = IF Redo THEN "CR" ELSE Goes(ctx, Here)
      BY <1>2, <1>5, <2>1, HeadConsumes
    <2>. QED BY <1>2, <2>1, <2>2, GoesType DEF Context
  <1>6. ASSUME AtSecondLast \/ AtLast, ~Redo, isRaw => ~(ctx = "CR" /\ Here = LF)
        PROVE  Goes(ctx, Here) = IF isRaw THEN AfterPlain(Here)
                                 ELSE IF Here = EQ THEN "EQ" ELSE "NONE"
    <2>1. Here \in Char
      BY <1>3, <1>4, <1>6
    <2>. QED BY <1>2, <1>6, <2>1, GoesPlain DEF AtHead, Harmless
  <1>7. CASE SecondLastCrLf
    <2>1. /\ AtSecondLast /\ Here = CR /\ Peek(1) = LF /\ Consumed(Ahead(2)) /\ out' = out
          /\ Return(Len(out)) /\ state' \in Context /\ (given => state' = "CRLF")
      BY <1>7, Stores DEF SecondLastCrLf, NoWrite, Context
    <2>2. taken' = pos + 2 /\ ctx' = "CRLF"
      <3>1. Goes("CR", LF) = "CRLF"
        BY <1>3, <2>1, GoesSpecial
      <3>2. ~Redo => Goes(ctx, Here) = "CR"
        BY <1>3, <1>6, <2>1 DEF AfterPlain, CR, LF
      <3>. QED
        BY <1>2, <1>3, <2>1, <3>1, <3>2, HeadConsumes
    <2>3. taken' = Len(chunk) /\ Len(out) \in 0..Len(chunk) /\ CountsButEscapedCr'
      BY <1>2, <1>3, <2>1, <2>2, Counts
    <2>. QED
      BY <1>2, <1>3, <2>1, <2>2, <2>3, Returns DEF Context
  <1>8. CASE SecondLastNewline
    <2>1. /\ AtSecondLast /\ Here \in {CR, LF} /\ ~(given /\ Here = CR /\ Peek(1) = LF)
          /\ GoOn("last", pos + 1) /\ out' = out /\ state' \in Context
      BY <1>8, Stores DEF SecondLastNewline, NoWrite, Context
    <2>2. /\ taken' = pos + 1 /\ ctx' \in Context
          /\ ctx' = IF Redo THEN "CR" ELSE Goes(ctx, Here)
      BY <1>5, <1>8 DEF SecondLastNewline
    <2>3. AtHead'
      <3>1. CASE Redo
        <4>1. Here = CR /\ ctx' = "CR"
          BY <2>2, <3>1 DEF Redo
        <4>. QED
          BY <1>2, <1>3, <2>1, <2>2, <4>1 DEF AtHead, Harmless, GoOn, Here, Peek, Rem, CR, LF
      <3>2. CASE ~Redo /\ ctx = "CR" /\ Here = LF
        <4>1. ctx' = "CRLF" /\ Harmless
          BY <1>2, <1>3, <2>1, <2>2, <3>2, GoesSpecial DEF AtHead
        <4>. QED
          BY <1>2, <1>3, <2>1, <2>2, <3>2, <4>1 DEF AtHead, Harmless, GoOn, Here, Peek, Rem
      <3>3. CASE ~Redo /\ ~(ctx = "CR" /\ Here = LF)
        <4>1. ctx' = IF Here = CR THEN "CR" ELSE "NONE"
          BY <1>3, <1>6, <2>1, <2>2, <3>3 DEF AfterPlain, CR, LF, EQ
        <4>. QED
          BY <1>2, <1>3, <2>1, <2>2, <4>1 DEF AtHead, Harmless, GoOn, Here, Peek, Rem, CR, LF
      <3>. QED BY <3>1, <3>2, <3>3
    <2>4. /\ pos + 1 \in 0..Len(chunk) /\ taken' \in 0..Len(chunk) /\ Len(chunk) - (pos + 1) <= 1
          /\ out' \in Seq(Byte) /\ Len(out') <= pos + 1 /\ isRaw
      BY <1>2, <1>3, <2>1, <2>2
    <2>. QED
      BY <1>1, <2>1, <2>2, <2>3, <2>4, StaysInLoop
  <1>9. CASE SecondLastEscape
    <2>1. /\ AtSecondLast /\ Here = EQ /\ Consumed(Ahead(2)) /\ Write(Escaped(Peek(1)))
          /\ GoOn("last", IF Peek(1) = CR THEN pos + 1 ELSE pos + 2) /\ state' \in Context
      BY <1>9, Stores DEF SecondLastEscape, Context
    <2>2. ~Redo
      BY <2>1 DEF Redo, CR, EQ
    <2>3. taken' = pos + 2 /\ ctx' = IF Peek(1) = CR THEN "CR" ELSE "NONE"
      <3>1. Goes(ctx, Here) = "EQ"
        BY <1>3, <1>6, <2>1, <2>2 DEF AfterPlain, CR, LF, EQ
      <3>. QED
        BY <1>2, <1>3, <2>1, <2>2, <3>1, GoesEscaped, HeadConsumes
    <2>4. out' \in Seq(Byte) /\ Len(out') = Len(out) + 1
      BY <1>3, <2>1, Writes
    <2>5. CASE Peek(1) = CR
      <3>1. AtHead'
        BY <1>2, <1>3, <2>1, <2>3, <2>5 DEF AtHead, Redo, GoOn, Here, Peek, Rem
      <3>. QED
        BY <1>1, <1>2, <1>3, <2>1, <2>3, <2>4, <2>5, <3>1, StaysInLoop DEF Context
    <2>6. CASE Peek(1) # CR
      <3>1. AtHead'
        BY <1>3, <2>1, <2>3, <2>6 DEF AtHead, GoOn, Harmless
      <3>. QED
        BY <1>1, <1>2, <1>3, <2>1, <2>3, <2>4, <2>6, <3>1, StaysInLoop DEF Context
    <2>. QED BY <2>5, <2>6
  <1>10. ASSUME AtSecondLast \/ AtLast, Here \notin {CR, LF, EQ}, Consumed(Ahead(1))
         PROVE  taken' = pos + 1 /\ ctx' = "NONE"
    <2>1. ~Redo
      BY <1>10 DEF Redo
    <2>. QED BY <1>5, <1>6, <1>10, <2>1 DEF AfterPlain
  <1>11. CASE SecondLastData
    <2>1. taken' = pos + 1 /\ ctx' = "NONE"
      BY <1>10, <1>11 DEF SecondLastData
    <2>2. AtHead'
      BY <1>3, <1>11, <2>1 DEF SecondLastData, AtHead, GoOn, Harmless
    <2>3. out' \in Seq(Byte) /\ Len(out') = Len(out) + 1
      BY <1>3, <1>11, Writes DEF SecondLastData
    <2>4. GoOn("last", pos + 1) /\ state' \in Context
      BY <1>11, Stores DEF SecondLastData, Context
    <2>. QED
      BY <1>1, <1>2, <1>3, <1>11, <2>1, <2>2, <2>3, <2>4, StaysInLoop DEF SecondLastData, Context
  <1>12. CASE LastData
    <2>1. taken' = pos + 1 /\ ctx' = "NONE"
      BY <1>10, <1>12 DEF LastData
    <2>2. out' \in Seq(Byte) /\ Len(out') = Len(out) + 1
      BY <1>4, <1>12, Writes DEF LastData
    <2>3. Return(Len(out) + 1) /\ state' \in Context /\ (given => state' = "NONE")
      BY <1>12, Stores DEF LastData, Context
    <2>4. taken' = Len(chunk) /\ Len(out) + 1 \in 0..Len(chunk) /\ CountsButEscapedCr'
      BY <1>2, <1>4, <1>12, <2>1, <2>2, <2>3, Counts DEF LastData
    <2>. QED
      BY <1>2, <1>4, <2>1, <2>2, <2>3, <2>4, Returns DEF Context
  <1>13. CASE LastSpecial
    <2>1. /\ AtLast /\ Here \in {CR, LF, EQ} /\ out' = out /\ Return(Len(out))
      BY <1>13 DEF LastSpecial, NoWrite
    <2>2. /\ taken' = pos + 1 /\ ctx' \in Context
          /\ ctx' = IF Redo THEN "CR" ELSE Goes(ctx, Here)
      BY <1>5, <1>13 DEF LastSpecial
    <2>3. PICK s \in Context : Store(s)
                /\ s = IF Here = EQ THEN "EQ" ELSE IF isRaw /\ Here = CR THEN "CR" ELSE "NONE"
      BY <1>13 DEF LastSpecial, Context
    <2>4. state' \in Context /\ (given => state' = s)
      BY <2>3, Stores
    \* a line feed after a carriage return is never left for the last byte
    <2>5. given => ~(~Redo /\ isRaw /\ ctx = "CR" /\ Here = LF)
      BY <1>2, <1>4, <2>1 DEF AtHead, Harmless, AtLast
    <2>6. given => ctx' = s
      <3>1. CASE Redo
        BY <1>2, <2>2, <2>3, <3>1 DEF Redo, AtHead, CR, EQ
      <3>2. CASE ~Redo /\ given
        BY <1>2, <1>6, <2>1, <2>2, <2>3, <2>5, <3>2 DEF AfterPlain, CR, LF, EQ
      <3>. QED BY <3>1, <3>2
    <2>7. taken' = Len(chunk) /\ Len(out) \in 0..Len(chunk) /\ CountsButEscapedCr'
      BY <1>2, <1>4, <2>1, <2>2, Counts
    <2>8. given => ctx' = IF isRaw \/ state' = "EQ" THEN state' ELSE "NONE"
      BY <2>3, <2>4, <2>6 DEF CR, EQ
    <2>. QED
      BY <1>2, <1>4, <2>1, <2>2, <2>4, <2>7, <2>8, Returns
  <1>14. CASE Finish
    <2>1. /\ Rem = 0 /\ out' = out /\ Return(Len(out))
          /\ state' \in Context /\ (given => state' = "NONE")
      BY <1>14, Stores DEF Finish, NoWrite, Context
    <2>2. ctx = "NONE" /\ taken = pos /\ pos = Len(chunk)
      BY <1>2, <2>1 DEF AtHead, Redo, Harmless, Rem
    <2>3. taken' = Len(chunk) /\ ctx' = "NONE"
      BY <1>14, <2>2 DEF Finish, Consumed
    <2>4. Len(out) \in 0..Len(chunk) /\ CountsButEscapedCr'
      BY <1>2, <2>1, <2>2, Counts
    <2>. QED
      BY <1>2, <2>1, <2>3, <2>4, Returns DEF Context
  <1>. QED
    BY <1>7, <1>8, <1>9, <1>11, <1>12, <1>13, <1>14 DEF Final

-----------------------------------------------------------------------------
(* The invariant holds.                                                    *)

LEMMA NextInv == Inv /\ [Next]_vars => Inv'
  <1>1. ASSUME Inv, UNCHANGED vars PROVE Inv'
    BY <1>1 DEF vars, Inv, TypeOK, NoOverread, OutputNeverOvertakes, CountsButEscapedCr,
                LoopInv, LabelInv, CallInv, AtHead, Harmless, Redo, Rem, Here, Peek, Seen, StartCtx
  <1>. QED
    BY <1>1, CallerInv, EnterInv, MainLoopInv, FinalInv DEF Next, Decode

\* The inductive invariant, for both instances of the template.
THEOREM Invariant == Spec => []Inv
  BY InitInv, NextInv, PTL DEF Spec

\* Variables keep their types whatever chunks the decoder is fed, with a state
\* or without one (do_decode_noend_scalar, src/src/decoder.cc).
THEOREM TypeCorrect == Spec => []TypeOK
  BY Invariant, PTL DEF Inv

\* No label of the entry switch is reached without a byte to read, and the test
\* for the final byte with at most one: no byte past the chunk is read.
THEOREM ReadsInBounds == Spec => []NoOverread
  BY Invariant, PTL DEF Inv

\* decodeTo may be given one buffer as source and destination.
THEOREM WritesInBounds == Spec => []OutputNeverOvertakes
  BY Invariant, PTL DEF Inv

\* The value returned, by which the caller advances *dest, is the number of
\* bytes written, but for a call that holds nothing after a = than an escaped
\* line end.
THEOREM ReturnsWhatItWrote == Spec => []CountsButEscapedCr
  BY Invariant, PTL DEF Inv

-----------------------------------------------------------------------------
(* Refinement: each call implements a step of the stream of its instance.  *)

Emits(x, c) == IF isRaw THEN RawEmit(x, c) ELSE UnstuffedEmit(x, c)

StreamNext == IF isRaw THEN RawStream!Next ELSE UnstuffedStream!Next
StreamVars == <<chunk, StreamAt, StreamDecoded>>

LEMMA Visible ==
    ASSUME Inv
    PROVE  /\ StreamAt = taken
           /\ StreamDecoded = [ctx |-> ctx, out |-> out, ended |-> "NONE"]
  <1>1. (Returned /\ given) => Seen(state) = ctx
    BY DEF Inv, CallInv, Returned
  <1>2. Returned => Len(chunk) = taken
    BY DEF Inv, CallInv, Returned
  <1>. QED BY <1>1, <1>2 DEF StreamAt, StreamDecoded

LEMMA VisibleNext ==
    ASSUME Inv'
    PROVE  /\ StreamAt' = taken'
           /\ StreamDecoded' = [ctx |-> ctx', out |-> out', ended |-> "NONE"]
  <1>1. (Returned' /\ given') => Seen(state)' = ctx'
    BY DEF Inv, CallInv, Returned
  <1>2. Returned' => Len(chunk') = taken'
    BY DEF Inv, CallInv, Returned
  <1>. QED BY <1>1, <1>2 DEF StreamAt, StreamDecoded

LEMMA RefinesInit == Init => IF isRaw THEN RawStream!Init ELSE UnstuffedStream!Init
  <1>. SUFFICES ASSUME Init PROVE IF isRaw THEN RawStream!Init ELSE UnstuffedStream!Init
    OBVIOUS
  <1>1. StreamAt = 0 /\ StreamDecoded = [ctx |-> StartCtx, out |-> <<>>, ended |-> "NONE"]
    BY InitInv, Visible DEF Init
  <1>. QED
    BY <1>1 DEF Init, StartCtx, RawStream!Init, RawStream!Fresh,
                UnstuffedStream!Init, UnstuffedStream!Fresh

LEMMA EatsByTable ==
    ASSUME NEW x, NEW o, NEW e, NEW c
    PROVE  /\ RawStream!Eat([ctx |-> x, out |-> o, ended |-> e], c)
                = [ctx |-> RawGoto(x, c), out |-> o \o RawEmit(x, c), ended |-> "NONE"]
           /\ UnstuffedStream!Eat([ctx |-> x, out |-> o, ended |-> e], c)
                = [ctx |-> UnstuffedGoto(x, c), out |-> o \o UnstuffedEmit(x, c), ended |-> "NONE"]
  BY DEF RawStream!Eat, UnstuffedStream!Eat, NoEnd

LEMMA Consumes1 ==
    ASSUME Inv, Inv', taken + 1 <= Len(chunk), chunk' = chunk,
           taken' = taken + 1, ctx' = Goes(ctx, chunk[taken + 1]),
           out' = out \o Emits(ctx, chunk[taken + 1])
    PROVE  StreamNext
  <1>1. /\ StreamDecoded = [ctx |-> ctx, out |-> out, ended |-> "NONE"]
        /\ StreamDecoded' = [ctx |-> ctx', out |-> out', ended |-> "NONE"]
        /\ StreamAt = taken /\ StreamAt' = taken'
    BY Visible, VisibleNext
  <1>2. CASE isRaw
    <2>1. StreamDecoded' = RawStream!Eat(StreamDecoded, chunk[taken + 1])
      BY <1>1, <1>2, EatsByTable DEF Goes, Emits
    <2>2. RawStream!Consume1
      BY <1>1, <2>1 DEF RawStream!Consume1
    <2>. QED BY <1>2, <2>2 DEF StreamNext, RawStream!Next
  <1>3. CASE ~isRaw
    <2>1. StreamDecoded' = UnstuffedStream!Eat(StreamDecoded, chunk[taken + 1])
      BY <1>1, <1>3, EatsByTable DEF Goes, Emits
    <2>2. UnstuffedStream!Consume1
      BY <1>1, <2>1 DEF UnstuffedStream!Consume1
    <2>. QED BY <1>3, <2>2 DEF StreamNext, UnstuffedStream!Next
  <1>. QED BY <1>2, <1>3

LEMMA Consumes2 ==
    ASSUME Inv, Inv', taken + 2 <= Len(chunk), chunk' = chunk,
           taken' = taken + 2, ctx' = Goes(Ctx1, chunk[taken + 2]),
           out' = (out \o Emits(ctx, chunk[taken + 1])) \o Emits(Ctx1, chunk[taken + 2])
    PROVE  StreamNext
  <1>1. /\ StreamDecoded = [ctx |-> ctx, out |-> out, ended |-> "NONE"]
        /\ StreamDecoded' = [ctx |-> ctx', out |-> out', ended |-> "NONE"]
        /\ StreamAt = taken /\ StreamAt' = taken'
    BY Visible, VisibleNext
  <1>2. PICK d : d = [ctx |-> Ctx1, out |-> out \o Emits(ctx, chunk[taken + 1]), ended |-> "NONE"]
    OBVIOUS
  <1>3. d.ended = "NONE" /\ StreamDecoded.ended = "NONE"
    BY <1>1, <1>2
  <1>4. CASE isRaw
    <2>1. d = RawStream!Eat(StreamDecoded, chunk[taken + 1])
      BY <1>1, <1>2, <1>4, EatsByTable DEF Goes, Emits, Ctx1
    <2>2. StreamDecoded' = RawStream!Eat(d, chunk[taken + 2])
      BY <1>1, <1>2, <1>4, EatsByTable DEF Goes, Emits
    <2>3. RawStream!Consume2
      BY <1>1, <1>3, <2>1, <2>2 DEF RawStream!Consume2
    <2>. QED BY <1>4, <2>3 DEF StreamNext, RawStream!Next
  <1>5. CASE ~isRaw
    <2>1. d = UnstuffedStream!Eat(StreamDecoded, chunk[taken + 1])
      BY <1>1, <1>2, <1>5, EatsByTable DEF Goes, Emits, Ctx1
    <2>2. StreamDecoded' = UnstuffedStream!Eat(d, chunk[taken + 2])
      BY <1>1, <1>2, <1>5, EatsByTable DEF Goes, Emits
    <2>3. UnstuffedStream!Consume2
      BY <1>1, <1>3, <2>1, <2>2 DEF UnstuffedStream!Consume2
    <2>. QED BY <1>5, <2>3 DEF StreamNext, UnstuffedStream!Next
  <1>. QED BY <1>4, <1>5

\* Only the raw loop takes three bytes at once, over "\r\n.".
LEMMA Consumes3 ==
    ASSUME Inv, Inv', isRaw, taken + 3 <= Len(chunk), chunk' = chunk,
           taken' = taken + 3, ctx' = Goes(Ctx2, chunk[taken + 3]),
           out' = ((out \o Emits(ctx, chunk[taken + 1])) \o Emits(Ctx1, chunk[taken + 2]))
                    \o Emits(Ctx2, chunk[taken + 3])
    PROVE  StreamNext
  <1>1. /\ StreamDecoded = [ctx |-> ctx, out |-> out, ended |-> "NONE"]
        /\ StreamDecoded' = [ctx |-> ctx', out |-> out', ended |-> "NONE"]
        /\ StreamAt = taken /\ StreamAt' = taken'
    BY Visible, VisibleNext
  <1>2. PICK d : d = [ctx |-> Ctx1, out |-> out \o Emits(ctx, chunk[taken + 1]), ended |-> "NONE"]
    OBVIOUS
  <1>9. PICK o : o = (out \o Emits(ctx, chunk[taken + 1])) \o Emits(Ctx1, chunk[taken + 2])
    OBVIOUS
  <1>3. PICK e : e = [ctx |-> Ctx2, out |-> o, ended |-> "NONE"]
    OBVIOUS
  <1>4. e.ended = "NONE" /\ d.ended = "NONE" /\ StreamDecoded.ended = "NONE"
    BY <1>1, <1>2, <1>3
  <1>5. d = RawStream!Eat(StreamDecoded, chunk[taken + 1])
    BY <1>1, <1>2, EatsByTable DEF Goes, Emits, Ctx1
  <1>6. e = RawStream!Eat(d, chunk[taken + 2])
    BY <1>2, <1>3, <1>9, EatsByTable DEF Goes, Emits, Ctx2
  <1>7. StreamDecoded' = RawStream!Eat(e, chunk[taken + 3])
    <2>1. RawStream!Eat(e, chunk[taken + 3])
            = [ctx |-> RawGoto(Ctx2, chunk[taken + 3]),
               out |-> o \o RawEmit(Ctx2, chunk[taken + 3]), ended |-> "NONE"]
      BY <1>3, EatsByTable
    <2>. QED BY <1>1, <1>9, <2>1 DEF Goes, Emits
  <1>8. RawStream!Consume3
    BY <1>1, <1>4, <1>5, <1>6, <1>7 DEF RawStream!Consume3
  <1>. QED BY <1>8 DEF StreamNext, RawStream!Next

LEMMA Stutters ==
    ASSUME Inv, Inv', UNCHANGED <<chunk, taken, ctx, out>>
    PROVE  UNCHANGED StreamVars
  BY Visible, VisibleNext DEF StreamVars

LEMMA EmitsPlain ==
    ASSUME NEW x, NEW c, x # "EQ", isRaw => x # "CRLF" \/ c # DOT
    PROVE  Emits(x, c) = IF c \in {CR, LF, EQ} THEN <<>> ELSE <<Plain(c)>>
  BY DEF Emits, RawEmit, UnstuffedEmit, IsStuffing

LEMMA EmitsSpecial ==
    /\ \A c : Emits("EQ", c) = <<Escaped(c)>>
    /\ isRaw => Emits("CRLF", DOT) = <<>>
  BY DEF Emits, RawEmit, UnstuffedEmit, IsStuffing, EQ

LEMMA Appends ==
    ASSUME TypeOK, NEW c \in Char
    PROVE  /\ Write(Plain(c))   => out' = out \o <<Plain(c)>>
           /\ Write(Escaped(c)) => out' = out \o <<Escaped(c)>>
           /\ NoWrite           => out' = out \o <<>>
  <1>1. Plain(c) \in Byte /\ Escaped(c) \in Byte /\ out \in Seq(Byte)
    BY DEF Plain, Escaped, Byte, TypeOK
  <1>. QED BY <1>1, AppendIsConcat, ConcatEmptySeq DEF Write, NoWrite

LEMMA Takes1 ==
    ASSUME Inv, Inv', taken = pos, pos < Len(chunk), Consumed(1), chunk' = chunk,
           out' = out \o Emits(ctx, Here)
    PROVE  StreamNext
  <1>1. Here = chunk[taken + 1] /\ taken + 1 <= Len(chunk) /\ pos \in Nat /\ Len(chunk) \in Nat
    BY DEF Here, Inv, TypeOK
  <1>2. taken' = taken + 1 /\ ctx' = Goes(ctx, chunk[taken + 1])
    BY DEF Consumed, Ctx1
  <1>. QED BY <1>1, <1>2, Consumes1

LEMMA RefinesCaller ==
    ASSUME Inv, Inv', Call \/ Collect \/ Restart
    PROVE  StreamNext
  <1>1. /\ StreamDecoded = [ctx |-> ctx, out |-> out, ended |-> "NONE"]
        /\ StreamDecoded' = [ctx |-> ctx', out |-> out', ended |-> "NONE"]
        /\ StreamAt = taken /\ StreamAt' = taken'
    BY Visible, VisibleNext
  <1>2. CASE Call
    <2>1. chunk = <<>> /\ chunk' \in Seq(Char) /\ UNCHANGED <<StreamAt, StreamDecoded>>
      BY <1>1, <1>2, ChunkAssumption DEF Call, hist, Inv, CallInv
    <2>. QED
      BY <2>1 DEF StreamNext, RawStream!Next, UnstuffedStream!Next,
                  RawStream!Deliver, UnstuffedStream!Deliver
  <1>3. CASE Collect \/ Restart
    <2>1. StreamAt = Len(chunk) /\ chunk' = <<>> /\ StreamAt' = 0 /\ out' = <<>>
      BY <1>1, <1>3 DEF Collect, Restart, Collected, Inv, CallInv
    <2>2. CASE Collect
      <3>1. StreamDecoded' = [ctx |-> StreamDecoded.ctx, out |-> <<>>, ended |-> "NONE"]
        BY <1>1, <2>1, <2>2 DEF Collect
      <3>. QED
        BY <2>1, <3>1 DEF StreamNext, RawStream!Next, UnstuffedStream!Next,
           RawStream!Collect, RawStream!Over, RawStream!Fresh,
           UnstuffedStream!Collect, UnstuffedStream!Over, UnstuffedStream!Fresh
    <2>3. CASE Restart
      <3>1. StreamDecoded' = [ctx |-> StartCtx, out |-> <<>>, ended |-> "NONE"]
        BY <1>1, <2>1, <2>3 DEF Restart
      <3>. QED
        BY <2>1, <3>1 DEF StreamNext, RawStream!Next, UnstuffedStream!Next, StartCtx,
           RawStream!Restart, RawStream!Over, RawStream!Fresh,
           UnstuffedStream!Restart, UnstuffedStream!Over, UnstuffedStream!Fresh
    <2>. QED BY <1>3, <2>2, <2>3
  <1>. QED BY <1>2, <1>3

LEMMA RefinesEnter ==
    ASSUME Inv, Inv', Enter
    PROVE  StreamNext \/ UNCHANGED StreamVars
  <1>1. pc \in {"EQ", "CR", "CRLF"} /\ chunk' = chunk
    BY DEF Enter, EnterEqCr, EnterEq, EnterCr, EnterCrOther, EnterCrLf, EnterPlainEq, GoOn, Return
  <1>2. /\ ctx = pc /\ taken = pos /\ pos < Len(chunk) /\ Here \in Char /\ TypeOK
        /\ pos \in Nat /\ Len(chunk) \in Nat
    BY <1>1 DEF Inv, LabelInv, TypeOK, Rem, Here
  <1>3. CASE EnterEqCr \/ EnterEq \/ EnterPlainEq
    <2>1. Write(Escaped(Here)) /\ Consumed(1) /\ ctx = "EQ"
      BY <1>2, <1>3 DEF EnterEqCr, EnterEq, EnterPlainEq
    <2>2. out' = out \o Emits(ctx, Here)
      BY <1>2, <2>1, Appends, EmitsSpecial
    <2>. QED BY <1>1, <1>2, <2>1, <2>2, Takes1
  <1>4. CASE EnterCr
    <2>1. NoWrite /\ Consumed(1) /\ ctx = "CR" /\ Here = LF
      BY <1>2, <1>4 DEF EnterCr
    <2>2. out' = out \o Emits(ctx, Here)
      BY <1>2, <2>1, Appends, EmitsPlain
    <2>. QED BY <1>1, <1>2, <2>1, <2>2, Takes1
  <1>5. CASE EnterCrOther \/ (EnterCrLf /\ Here # DOT)
    <2>1. UNCHANGED <<chunk, taken, ctx, out>>
      BY <1>1, <1>2, <1>5 DEF EnterCrOther, EnterCrLf, Consumed, NoWrite
    <2>. QED BY <2>1, Stutters
  <1>6. CASE EnterCrLf /\ Here = DOT
    <2>1. NoWrite /\ Consumed(1) /\ ctx = "CRLF" /\ isRaw
      BY <1>2, <1>6 DEF EnterCrLf
    <2>2. out' = out \o Emits(ctx, Here)
      BY <1>2, <1>6, <2>1, Appends, EmitsSpecial
    <2>. QED BY <1>1, <1>2, <2>1, <2>2, Takes1
  <1>. QED BY <1>3, <1>4, <1>5, <1>6 DEF Enter

\* The three ways a step moves on from the head of a loop or the final bytes;
\* where the escaped \r is looked at again, its first byte has been taken.
LEMMA Head1 ==
    ASSUME Inv, Inv', AtHead, pos < Len(chunk), chunk' = chunk, Consumed(Ahead(1)),
           out' = out \o (IF Here \in {CR, LF, EQ} THEN <<>> ELSE <<Plain(Here)>>)
    PROVE  StreamNext \/ UNCHANGED StreamVars
  <1>1. pos \in Nat /\ Len(chunk) \in Nat /\ taken \in Nat /\ out \in Seq(Byte)
    BY DEF Inv, TypeOK
  <1>2. CASE Redo
    <2>1. taken' = taken /\ ctx' = ctx
      BY <1>1, <1>2 DEF Redo, Consumed, Ahead
    <2>2. out' = out
      BY <1>1, <1>2, ConcatEmptySeq DEF Redo
    <2>. QED BY <2>1, <2>2, Stutters
  <1>3. CASE ~Redo
    <2>1. taken = pos /\ ctx # "EQ" /\ (isRaw => ctx # "CRLF" \/ Here # DOT)
      BY <1>3 DEF AtHead, Harmless
    <2>2. Consumed(1)
      BY <1>1, <2>1 DEF Ahead
    <2>. QED BY <2>1, <2>2, EmitsPlain, Takes1
  <1>. QED BY <1>2, <1>3

LEMMA HeadEscape ==
    ASSUME Inv, Inv', AtHead, pos + 1 < Len(chunk), chunk' = chunk, Consumed(Ahead(2)),
           Here = EQ, Write(Escaped(Peek(1)))
    PROVE  StreamNext
  <1>1. /\ pos \in Nat /\ Len(chunk) \in Nat /\ out \in Seq(Byte) /\ ctx \in Context
        /\ Here \in Char /\ Peek(1) \in Char /\ TypeOK
    BY DEF Inv, TypeOK, Context, Here, Peek
  <1>2. ~Redo
    BY DEF Redo, CR, EQ
  <1>3. taken = pos /\ ctx # "EQ" /\ (isRaw => ctx # "CRLF" \/ Here # DOT)
        /\ (isRaw => ~(ctx = "CR" /\ Here = LF) /\ ~(ctx = "CRLF" /\ Here = DOT))
    BY <1>2 DEF AtHead, Harmless, EQ, LF, DOT
  <1>4. Here = chunk[taken + 1] /\ Peek(1) = chunk[taken + 2] /\ taken + 2 <= Len(chunk)
    BY <1>1, <1>3 DEF Here, Peek
  <1>5. Ctx1 = "EQ"
    BY <1>1, <1>3, <1>4, GoesPlain DEF Ctx1, AfterPlain, CR, EQ
  <1>6. taken' = taken + 2 /\ ctx' = Goes(Ctx1, chunk[taken + 2])
    BY <1>1, <1>3 DEF Consumed, Ahead, Ctx2
  <1>7. Emits(ctx, chunk[taken + 1]) = <<>>
    BY <1>3, <1>4, EmitsPlain
  <1>8. Emits(Ctx1, chunk[taken + 2]) = <<Escaped(Peek(1))>>
    BY <1>4, <1>5, EmitsSpecial
  <1>9. out' = (out \o <<>>) \o <<Escaped(Peek(1))>>
    BY <1>1, Appends, ConcatEmptySeq
  <1>. QED BY <1>4, <1>6, <1>7, <1>8, <1>9, Consumes2

\* "\r\n", with a dot after it or at the end of the chunk.
LEMMA HeadLineEnd ==
    ASSUME Inv, Inv', AtHead, isRaw, NEW n \in 2..3, pos + n <= Len(chunk), chunk' = chunk,
           Consumed(Ahead(n)), Here = CR, Peek(1) = LF, n = 3 => Peek(2) = DOT, out' = out
    PROVE  StreamNext
  <1>1. /\ pos \in Nat /\ Len(chunk) \in Nat /\ out \in Seq(Byte) /\ ctx \in Context
        /\ Here \in Char
    BY DEF Inv, TypeOK, Context, Here
  <1>2. out = out \o <<>>
    BY <1>1, ConcatEmptySeq
  <1>3. /\ Goes("CR", LF) = "CRLF" /\ Emits("CR", LF) = <<>> /\ Emits("CRLF", DOT) = <<>>
    BY GoesSpecial, EmitsPlain, EmitsSpecial
  <1>4. CASE Redo
    <2>1. ctx = "CR" /\ LF = chunk[taken + 1] /\ Ahead(n) = n - 1 /\ n - 1 \in 1..2
          /\ taken + (n - 1) <= Len(chunk) /\ (n = 3 => DOT = chunk[taken + 2])
      BY <1>1, <1>4 DEF Redo, Peek, Ahead
    <2>2. Ctx1 = "CRLF"
      BY <1>3, <2>1 DEF Ctx1
    <2>3. CASE n = 2
      <3>1. taken' = taken + 1 /\ ctx' = Goes(ctx, chunk[taken + 1])
        BY <2>1, <2>3 DEF Consumed, Ctx1
      <3>2. Emits(ctx, chunk[taken + 1]) = <<>>
        BY <1>3, <2>1
      <3>3. out' = out \o Emits(ctx, chunk[taken + 1])
        BY <1>2, <3>2
      <3>4. taken + 1 <= Len(chunk)
        BY <2>1, <2>3
      <3>. QED BY <3>1, <3>3, <3>4, Consumes1
    <2>4. CASE n = 3
      <3>1. taken' = taken + 2 /\ ctx' = Goes(Ctx1, chunk[taken + 2])
        BY <2>1, <2>4 DEF Consumed, Ctx2
      <3>2. out' = (out \o Emits(ctx, chunk[taken + 1])) \o Emits(Ctx1, chunk[taken + 2])
        BY <1>2, <1>3, <2>1, <2>2, <2>4
      <3>3. taken + 2 <= Len(chunk)
        BY <2>1, <2>4
      <3>. QED BY <3>1, <3>2, <3>3, Consumes2
    <2>. QED BY <2>3, <2>4
  <1>5. CASE ~Redo
    <2>1. taken = pos /\ Harmless
      BY <1>5 DEF AtHead
    <2>2. /\ CR = chunk[taken + 1] /\ LF = chunk[taken + 2] /\ Ahead(n) = n
          /\ taken + n <= Len(chunk) /\ (n = 3 => DOT = chunk[taken + 3])
      BY <1>1, <2>1 DEF Here, Peek, Ahead
    <2>3. Ctx1 = "CR"
      BY <1>1, <2>1, <2>2, GoesPlain DEF Ctx1, Harmless, AfterPlain, CR, LF, DOT
    <2>4. Ctx2 = "CRLF"
      BY <1>3, <2>2, <2>3 DEF Ctx2
    <2>5. Emits(ctx, CR) = <<>>
      BY <2>1, EmitsPlain DEF Harmless, CR, DOT
    <2>6. CASE n = 2
      <3>1. taken' = taken + 2 /\ ctx' = Goes(Ctx1, chunk[taken + 2])
        BY <2>2, <2>6 DEF Consumed, Ctx2
      <3>2. out' = (out \o Emits(ctx, chunk[taken + 1])) \o Emits(Ctx1, chunk[taken + 2])
        BY <1>2, <1>3, <2>2, <2>3, <2>5
      <3>3. taken + 2 <= Len(chunk)
        BY <2>2, <2>6
      <3>. QED BY <3>1, <3>2, <3>3, Consumes2
    <2>7. CASE n = 3
      <3>1. taken' = taken + 3 /\ ctx' = Goes(Ctx2, chunk[taken + 3])
        BY <2>2, <2>7 DEF Consumed, Ctx3
      <3>2. out' = ((out \o Emits(ctx, chunk[taken + 1])) \o Emits(Ctx1, chunk[taken + 2]))
                     \o Emits(Ctx2, chunk[taken + 3])
        BY <1>2, <1>3, <2>2, <2>3, <2>4, <2>5, <2>7
      <3>3. taken + 3 <= Len(chunk)
        BY <2>2, <2>7
      <3>. QED BY <3>1, <3>2, <3>3, Consumes3
    <2>. QED BY <2>6, <2>7
  <1>. QED BY <1>4, <1>5

LEMMA RefinesLoop ==
    ASSUME Inv, Inv', Loop
    PROVE  StreamNext \/ UNCHANGED StreamVars
  <1>1. pc = "loop" /\ InLoop /\ chunk' = chunk
    BY DEF Loop, LoopData, LoopNewline, LoopSkipDot, LoopEscape, InLoop, GoOn
  <1>2. /\ pos \in Nat /\ Len(chunk) \in Nat /\ TypeOK /\ AtHead
        /\ pos + 1 < Len(chunk) /\ (isRaw => pos + 3 <= Len(chunk)) /\ Here \in Char
    BY <1>1 DEF Inv, LoopInv, TypeOK, InLoop, Rem, Here
  <1>3. CASE LoopData
    <2>1. Here \notin {CR, LF, EQ} /\ out' = out \o <<Plain(Here)>> /\ Consumed(Ahead(1))
      BY <1>2, <1>3, Appends DEF LoopData
    <2>. QED BY <1>1, <1>2, <2>1, Head1
  <1>4. CASE LoopNewline
    <2>1. Here \in {CR, LF} /\ out' = out \o <<>> /\ Consumed(Ahead(1))
      BY <1>2, <1>4, Appends DEF LoopNewline
    <2>2. out' = out \o (IF Here \in {CR, LF, EQ} THEN <<>> ELSE <<Plain(Here)>>)
      BY <2>1
    <2>. QED BY <1>1, <1>2, <2>1, <2>2, Head1
  <1>5. CASE LoopSkipDot
    <2>1. isRaw /\ Here = CR /\ Peek(1) = LF /\ Peek(2) = DOT /\ out' = out /\ Consumed(Ahead(3))
          /\ pos + 3 <= Len(chunk)
      BY <1>2, <1>5 DEF LoopSkipDot, StuffedDot, NoWrite
    <2>. QED BY <1>1, <1>2, <2>1, 3 \in 2..3, HeadLineEnd
  <1>6. CASE LoopEscape
    BY <1>1, <1>2, <1>6, HeadEscape DEF LoopEscape
  <1>. QED BY <1>3, <1>4, <1>5, <1>6 DEF Loop

LEMMA RefinesFinal ==
    ASSUME Inv, Inv', Final
    PROVE  StreamNext \/ UNCHANGED StreamVars
  <1>1. pc \in {"loop", "last"} /\ chunk' = chunk
    BY DEF Final, SecondLastCrLf, SecondLastNewline, SecondLastEscape, SecondLastData,
           LastData, LastSpecial, Finish, AtSecondLast, AtLast, GoOn, Return
  <1>2. pos \in Nat /\ Len(chunk) \in Nat /\ TypeOK /\ AtHead
    BY <1>1 DEF Inv, LoopInv, TypeOK
  <1>3. ASSUME AtSecondLast \/ AtLast
        PROVE  pos < Len(chunk) /\ Here \in Char
    BY <1>2, <1>3 DEF AtSecondLast, AtLast, Rem, TypeOK, Here
  <1>4. ASSUME AtSecondLast
        PROVE  isRaw /\ pos + 2 = Len(chunk)
    BY <1>2, <1>4 DEF AtSecondLast, Rem
  <1>5. CASE SecondLastCrLf
    <2>1. /\ AtSecondLast /\ Here = CR /\ Peek(1) = LF /\ out' = out /\ Consumed(Ahead(2))
      BY <1>5 DEF SecondLastCrLf, NoWrite
    <2>. QED BY <1>1, <1>2, <1>4, <2>1, HeadLineEnd
  <1>6. CASE SecondLastNewline \/ LastSpecial
    <2>1. Here \in {CR, LF, EQ} /\ out' = out \o <<>> /\ Consumed(Ahead(1)) /\ pos < Len(chunk)
      BY <1>2, <1>3, <1>6, Appends DEF SecondLastNewline, LastSpecial
    <2>. QED BY <1>1, <1>2, <2>1, Head1
  <1>7. CASE SecondLastEscape
    BY <1>1, <1>2, <1>4, <1>7, HeadEscape DEF SecondLastEscape
  <1>8. CASE SecondLastData \/ LastData
    <2>1. Here \notin {CR, LF, EQ} /\ out' = out \o <<Plain(Here)>> /\ Consumed(Ahead(1))
          /\ pos < Len(chunk)
      BY <1>2, <1>3, <1>8, Appends DEF SecondLastData, LastData
    <2>. QED BY <1>1, <1>2, <2>1, Head1
  <1>9. CASE Finish
    <2>1. UNCHANGED <<chunk, taken, ctx, out>>
      BY <1>1, <1>2, <1>9 DEF Finish, Consumed, NoWrite, TypeOK
    <2>. QED BY <2>1, Stutters
  <1>. QED BY <1>5, <1>6, <1>7, <1>8, <1>9 DEF Final

\* do_decode_noend_scalar<isRaw> implements the byte-by-byte stream of its
\* instance, for every alphabet and every way of cutting the stream into calls:
\* what a call writes and the state it stores depend on the bytes alone, and
\* without a state each call is a stream of its own.
THEOREM Refinement == Spec => ImplementsStream
  <1>1. Inv /\ Inv' /\ [Next]_vars => [StreamNext]_StreamVars
    <2>. SUFFICES ASSUME Inv, Inv', [Next]_vars PROVE StreamNext \/ UNCHANGED StreamVars
      OBVIOUS
    <2>1. CASE UNCHANGED vars
      BY <2>1, Stutters DEF vars
    <2>2. CASE Next
      BY <2>2, RefinesCaller, RefinesEnter, RefinesLoop, RefinesFinal DEF Next, Decode
    <2>. QED BY <2>1, <2>2
  <1>. QED
    BY <1>1, RefinesInit, Invariant, PTL DEF Spec, ImplementsStream, StreamNext, StreamVars
=============================================================================
