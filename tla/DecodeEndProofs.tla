--------------------------- MODULE DecodeEndProofs ---------------------------
(***************************************************************************)
(* Proofs about DecodeEnd, for every set of chunks and every alphabet.     *)
(***************************************************************************)
EXTENDS DecodeEnd, SequenceTheorems, TLAPS

-----------------------------------------------------------------------------
(* The inductive invariant.                                                *)

\* At the head of the main loop the code has forgotten the context and goes on
\* as if it were NONE.  That is right because the bytes ahead make no difference.
Harmless == /\ ctx \notin {"EQ", "CRLFEQ"}
            /\ ctx # "NONE" => Rem >= 1
            /\ (ctx = "CR" /\ Here = LF) => Rem >= 2 /\ Peek(1) \notin {DOT, EQ}
            /\ ctx = "CRLF"     => Here \notin {DOT, EQ}
            /\ ctx = "CRLFDT"   => Here \notin {CR, EQ}
            /\ ctx = "CRLFDTCR" => Here # LF

\* An escaped \r that was written and is now looked at as a line end.
Redo == taken = pos + 1 /\ Rem >= 1 /\ Here = CR /\ ctx = "CR"

LoopInv == pc \in {"loop", "last"} => Redo \/ (taken = pos /\ Harmless)

\* At every other label the context is the label.
LabelCtx == [l \in Label |-> CASE l = "ldt" -> "CRLFDT" [] l = "ldtcr" -> "CRLFDTCR"
                               [] l = "leq" -> "CRLFEQ" [] OTHER -> l]

LabelInv == pc \in (State \ {"NONE"}) \union {"ldt", "ldtcr", "leq"}
                => ctx = LabelCtx[pc] /\ taken = pos /\ Rem >= 1

WriteInv == /\ OutputNeverOvertakes
            /\ pc = "leq" => Len(out) < pos

CallInv == /\ pc # "done" => ended = "NONE" /\ read = 0
           /\ pc = "done" => /\ state = ctx /\ read = pos /\ taken = pos
                             /\ ended = "NONE" => pos = Len(chunk)
           /\ pc = "idle" => /\ chunk = <<>> /\ out = <<>> /\ pos = 0
                             /\ taken = 0 /\ state = ctx

Inv == TypeOK /\ NoOverread /\ LoopInv /\ LabelInv /\ WriteInv /\ CallInv

-----------------------------------------------------------------------------
(* What the transition table does to the contexts that the proofs meet.    *)

LEMMA GotoType ==
    ASSUME NEW x \in State, NEW c \in Char
    PROVE  Goto(x, c) \in State
  BY DEF Goto, State, AfterPlain, IsEscaped, IsStuffing, CR, LF, DOT, EQ, Y

LEMMA GotoEscaped ==
    ASSUME NEW x, NEW c, IsEscaped(x, c)
    PROVE  Goto(x, c) = IF c = CR THEN "CR" ELSE "NONE"
  BY DEF Goto, IsEscaped, IsStuffing, CR, LF, DOT, EQ, Y

\* From a context that the byte does not continue, the byte is taken as it is.
LEMMA GotoPlain ==
    ASSUME NEW x \in State, NEW c \in Char,
           x \notin {"EQ", "CRLFEQ"},
           x \in {"CR", "CRLFDTCR"} => c # LF,
           x = "CRLF"   => c \notin {DOT, EQ},
           x = "CRLFDT" => c \notin {CR, EQ}
    PROVE  Goto(x, c) = AfterPlain(c)
  BY DEF Goto, IsEscaped, IsStuffing, State, CR, LF, DOT, EQ, Y

LEMMA GotoSpecial ==
    /\ Goto("CR", LF) = "CRLF"
    /\ Goto("CRLFDTCR", LF) = "CRLF"
    /\ Goto("CRLF", DOT) = "CRLFDT"
    /\ Goto("CRLF", EQ) = "CRLFEQ"
    /\ Goto("CRLFDT", EQ) = "CRLFEQ"
    /\ Goto("CRLFDT", CR) = "CRLFDTCR"
    /\ Goto("CRLFEQ", Y) = "NONE"
  BY DEF Goto, IsEscaped, IsStuffing, CR, LF, DOT, EQ, Y

LEMMA InitInv == Init => Inv
  BY DEF Init, Inv, TypeOK, NoOverread, LoopInv, LabelInv, WriteInv, CallInv, Label,
         State, End, OutputNeverOvertakes, Rem

(* The three ways a step ends.                                             *)

LEMMA StaysInLoop ==
    ASSUME TypeOK, CallInv, pc \notin {"idle", "done"},
           NEW l \in {"loop", "last"}, NEW p \in 0..Len(chunk), GoOn(l, p),
           l = "last" => Len(chunk) - p <= 1,
           taken' \in 0..Len(chunk), ctx' \in State,
           out' \in Seq(Byte), Len(out') <= p,
           LoopInv'
    PROVE  Inv'
  BY DEF Inv, TypeOK, NoOverread, LabelInv, WriteInv, CallInv, OutputNeverOvertakes,
         GoOn, call, Label, State, Rem

LEMMA GoesToLabel ==
    ASSUME TypeOK, CallInv, pc # "done",
           NEW l \in (State \ {"NONE"}) \union {"ldt", "ldtcr", "leq"},
           NEW p \in 0..Len(chunk), GoOn(l, p), p < Len(chunk),
           taken' = p, ctx' = LabelCtx[l],
           out' \in Seq(Byte), Len(out') <= p, l = "leq" => Len(out') < p
    PROVE  Inv'
  <1>1. ctx' \in State
    BY DEF LabelCtx, State, Label
  <1>. QED
    BY <1>1 DEF Inv, TypeOK, NoOverread, LoopInv, LabelInv, WriteInv, CallInv,
                OutputNeverOvertakes, GoOn, call, Label, State, Rem

LEMMA Returns ==
    ASSUME TypeOK, NEW s \in State, NEW e \in End, NEW p \in 0..Len(chunk),
           Return(s, e, p), e = "NONE" => p = Len(chunk),
           taken' = p, ctx' = s,
           out' \in Seq(Byte), Len(out') <= p
    PROVE  Inv'
  BY DEF Inv, TypeOK, NoOverread, LoopInv, LabelInv, WriteInv, CallInv,
         OutputNeverOvertakes, Return, Label, State, Rem

LEMMA ChecksEnd ==
    ASSUME TypeOK, CallInv, pc # "done",
           NEW l \in (State \ {"NONE"}) \union {"ldt", "ldtcr", "leq"},
           NEW p \in 0..Len(chunk), CheckEnd(LabelCtx[l], l, p),
           taken' = p, ctx' = LabelCtx[l],
           out' \in Seq(Byte), Len(out') <= p, l = "leq" => Len(out') < p
    PROVE  Inv'
  <1>1. LabelCtx[l] \in State
    BY DEF LabelCtx, State, Label
  <1>2. CASE p = Len(chunk)
    BY <1>1, <1>2, Returns DEF CheckEnd, End
  <1>3. CASE p # Len(chunk)
    BY <1>3, GoesToLabel DEF CheckEnd
  <1>. QED BY <1>2, <1>3

(* One lemma per group of actions: the step preserves the invariant.       *)

LEMMA PlainHere ==
    ASSUME Harmless, ctx \in State, Here \in Char, ~(ctx = "CR" /\ Here = LF)
    PROVE  Goto(ctx, Here) = AfterPlain(Here)
  BY GotoPlain DEF Harmless

LEMMA Reads ==
    ASSUME TypeOK, NEW n \in Nat, pos + n < Len(chunk)
    PROVE  Peek(n) \in Char /\ (n = 0 => Peek(n) = Here)
  BY DEF TypeOK, Peek, Here

LEMMA Writes ==
    ASSUME TypeOK, NEW c \in Char, Write(Plain(c)) \/ Write(Escaped(c))
    PROVE  out' \in Seq(Byte) /\ Len(out') = Len(out) + 1
  <1>1. PICK b \in Byte : Write(b)
    BY DEF Plain, Escaped, Byte
  <1>. QED BY <1>1 DEF TypeOK, Write

LEMMA CallerInv == Inv /\ (Call \/ Collect) => Inv'
  <1>1. ASSUME Inv, Call PROVE Inv'
    <2>1. CASE chunk' = <<>>
      BY <1>1, <2>1 DEF Call, Inv, TypeOK, NoOverread, LoopInv, LabelInv, WriteInv, CallInv,
                 OutputNeverOvertakes, Label, State, Rem, hist, call
    <2>2. CASE chunk' # <<>>
      <3>1. chunk' \in Seq(Char) /\ Len(chunk') > 0
        BY <1>1, <2>2, ChunkAssumption DEF Call
      <3>. QED
        BY <1>1, <2>2, <3>1 DEF Call, Inv, TypeOK, NoOverread, LoopInv, LabelInv, WriteInv,
                CallInv, OutputNeverOvertakes, Label, LabelCtx, State, Rem, hist, call, Harmless
    <2>. QED BY <2>1, <2>2
  <1>2. ASSUME Inv, Collect PROVE Inv'
    BY <1>2 DEF Collect, Inv, TypeOK, NoOverread, LoopInv, LabelInv, WriteInv, CallInv,
                OutputNeverOvertakes, Label, State, Rem, End
  <1>. QED BY <1>1, <1>2

LEMMA EnterInv == Inv /\ Enter => Inv'
  <1>. SUFFICES ASSUME Inv, Enter PROVE Inv'
    OBVIOUS
  <1>. USE DEF Inv
  <1>1. pc \in State \ {"NONE"}
    BY DEF Enter, EnterCeqEnd, EnterEq, EnterCr, EnterC0Dot, EnterC0Eq, EnterDtCr, EnterDtEq,
           EnterDtCrEnd, EnterBreak, State
  <1>2. /\ ctx = pc /\ taken = pos /\ Rem >= 1
        /\ Here \in Char /\ pos + 1 \in 0..Len(chunk)
        /\ pos \in Nat /\ ctx \in State /\ Len(out) <= pos /\ Len(chunk) \in Nat
    BY <1>1 DEF LabelInv, LabelCtx, Label, TypeOK, Rem, Here, State, WriteInv, OutputNeverOvertakes
  <1>3. Ctx1 = Goto(ctx, Here)
    BY <1>2 DEF Ctx1, Here
  <1>4. pc \notin {"idle", "done"}
    BY <1>1 DEF State
  <1>5. CASE EnterCeqEnd
    BY <1>2, <1>3, <1>5, GotoSpecial, Returns
       DEF EnterCeqEnd, Consumed, NoWrite, State, End, TypeOK
  <1>6. CASE EnterEq
    <2>1. out' \in Seq(Byte) /\ Len(out') <= pos + 1
      BY <1>2, <1>6, Writes DEF EnterEq, EscapeHere, TypeOK
    <2>2. taken' = pos + 1 /\ ctx' = IF Here = CR THEN "CR" ELSE "NONE"
      BY <1>2, <1>3, <1>6, GotoEscaped DEF EnterEq, Consumed, IsEscaped
    <2>3. CASE Here = CR
      <3>1. LabelCtx["CR"] = "CR"
        BY DEF LabelCtx, Label, State
      <3>. QED
        BY <1>2, <1>4, <1>6, <2>1, <2>2, <2>3, <3>1, ChecksEnd DEF EnterEq, State
    <2>4. CASE Here # CR
      <3>1. LoopInv'
        BY <1>6, <2>2, <2>4 DEF EnterEq, LoopInv, GoOn, Harmless
      <3>. QED
        BY <1>2, <1>4, <1>6, <2>1, <2>2, <2>4, <3>1, StaysInLoop DEF EnterEq, State
    <2>. QED BY <2>3, <2>4
  <1>7. CASE EnterCr \/ EnterC0Dot \/ EnterC0Eq \/ EnterDtCr \/ EnterDtEq
    <2>1. PICK s \in {"CRLF", "CRLFDT", "CRLFDTCR", "CRLFEQ"} :
             CheckEnd(s, s, pos + 1) /\ Goto(ctx, Here) = s
      BY <1>2, <1>7, GotoSpecial
         DEF EnterCr, EnterC0Dot, EnterC0Eq, EnterDtCr, EnterDtEq
    <2>2. taken' = pos + 1 /\ ctx' = s /\ out' = out
      BY <1>2, <1>3, <1>7, <2>1
         DEF EnterCr, EnterC0Dot, EnterC0Eq, EnterDtCr, EnterDtEq, Consumed, NoWrite
    <2>3. LabelCtx[s] = s
      BY DEF LabelCtx, Label, State
    <2>. QED
      BY <1>2, <1>4, <2>1, <2>2, <2>3, ChecksEnd DEF State, TypeOK
  <1>8. CASE EnterDtCrEnd
    BY <1>2, <1>3, <1>8, GotoSpecial, Returns
       DEF EnterDtCrEnd, Consumed, NoWrite, State, End, TypeOK
  <1>9. CASE EnterBreak
    <2>1. LoopInv'
      BY <1>2, <1>9 DEF EnterBreak, GoOn, LoopInv, Harmless, Consumed, Rem, Here
    <2>. QED
      BY <1>2, <1>4, <1>9, <2>1, StaysInLoop
         DEF EnterBreak, Consumed, NoWrite, TypeOK
  <1>. QED BY <1>5, <1>6, <1>7, <1>8, <1>9 DEF Enter

LEMMA MainLoopInv == Inv /\ Loop => Inv'
  <1>. SUFFICES ASSUME Inv, Loop PROVE Inv'
    OBVIOUS
  <1>. USE DEF Inv
  <1>1. /\ pc \in {"loop", "ldt", "ldtcr", "leq"} /\ pc \notin {"idle", "done"}
        /\ pos \in Nat /\ Len(chunk) \in Nat /\ chunk \in Seq(Char) /\ ctx \in State
        /\ out \in Seq(Byte) /\ Len(out) <= pos /\ taken \in Nat
    BY DEF Loop, LoopData, LoopNewline, LoopEscape, LoopDot, LoopEq, LoopDotCr, LoopDotEq,
           LoopDotOther, LoopDotCrEnd, LoopDotCrOther, LoopEqEnd, LoopEqEscape, InLoop,
           TypeOK, WriteInv, OutputNeverOvertakes
  <1>2. ASSUME InLoop
        PROVE  /\ pos + 2 < Len(chunk) /\ Here \in Char /\ Peek(1) \in Char /\ Peek(2) \in Char
               /\ Redo \/ (taken = pos /\ Harmless)
    BY <1>1, <1>2 DEF InLoop, Rem, Here, Peek, LoopInv
  \* What is consumed on the way over the first bytes of the branch.
  <1>3. ASSUME InLoop, NEW n \in 1..3, Consumed(Ahead(n))
        PROVE  /\ taken' = pos + n
               /\ Redo => ctx' = IF n = 1 THEN "CR" ELSE IF n = 2 THEN Goto("CR", Peek(1))
                                  ELSE Goto(Goto("CR", Peek(1)), Peek(2))
               /\ ~Redo => ctx' = IF n = 1 THEN Goto(ctx, Here)
                                   ELSE IF n = 2 THEN Goto(Goto(ctx, Here), Peek(1))
                                   ELSE Goto(Goto(Goto(ctx, Here), Peek(1)), Peek(2))
    <2>1. CASE Redo
      <3>1. Ahead(n) = n - 1 /\ n - 1 \in 0..2
        BY <1>1, <1>3, <2>1 DEF Ahead, Redo
      <3>2. Ctx1 = Goto("CR", Peek(1)) /\ Ctx2 = Goto(Ctx1, Peek(2))
        BY <1>1, <2>1 DEF Ctx1, Ctx2, Redo, Peek
      <3>. QED
        BY <1>1, <1>3, <2>1, <3>1, <3>2 DEF Consumed, Redo
    <2>2. CASE ~Redo
      <3>1. Ahead(n) = n /\ taken = pos
        BY <1>1, <1>2, <1>3, <2>2 DEF Ahead
      <3>2. Ctx1 = Goto(ctx, Here) /\ Ctx2 = Goto(Ctx1, Peek(1)) /\ Ctx3 = Goto(Ctx2, Peek(2))
        BY <1>1, <3>1 DEF Ctx1, Ctx2, Ctx3, Here, Peek
      <3>. QED
        BY <1>1, <1>3, <2>2, <3>1, <3>2 DEF Consumed
    <2>. QED BY <2>1, <2>2
  <1>4. CASE LoopData
    <2>1. InLoop /\ taken = pos /\ Harmless
      BY <1>2, <1>4 DEF LoopData, Redo
    <2>2. taken' = pos + 1 /\ ctx' = "NONE"
      <3>1. Goto(ctx, Here) = "NONE"
        BY <1>1, <1>2, <1>4, <2>1, GotoPlain DEF LoopData, Harmless, AfterPlain
      <3>. QED BY <1>1, <1>3, <1>4, <2>1, <3>1 DEF LoopData, Redo
    <2>3. LoopInv'
      BY <1>1, <1>4, <2>2 DEF LoopData, GoOn, LoopInv, Harmless
    <2>4. out' \in Seq(Byte) /\ Len(out') = Len(out) + 1
      BY <1>2, <1>4, <2>1, Writes DEF LoopData
    <2>. QED
      BY <1>1, <1>2, <1>4, <2>1, <2>2, <2>3, <2>4, StaysInLoop DEF LoopData, State
  <1>5. CASE LoopNewline
    <2>1. taken' = pos + 1 /\ ctx' \in State /\ LoopInv'
      <3>1. CASE Redo
        <4>1. taken' = pos + 1 /\ ctx' = "CR"
          BY <1>3, <1>5, <3>1 DEF LoopNewline
        <4>. QED
          BY <1>1, <1>2, <1>5, <3>1, <4>1
             DEF LoopNewline, LineStart, GoOn, LoopInv, Harmless, Redo, Here, Peek, Rem, State, CR, LF
      <3>2. CASE ~Redo
        <4>1. taken' = pos + 1 /\ ctx' = Goto(ctx, Here)
          BY <1>3, <1>5, <3>2 DEF LoopNewline
        <4>2. CASE ctx = "CR" /\ Here = LF
          <5>1. ctx' = "CRLF"
            BY <4>1, <4>2, GotoSpecial
          <5>. QED
            BY <1>1, <1>2, <1>5, <3>2, <4>1, <4>2, <5>1
               DEF LoopNewline, GoOn, LoopInv, Harmless, Here, Peek, Rem, State
        <4>3. CASE ~(ctx = "CR" /\ Here = LF)
          <5>1. ctx' = IF Here = CR THEN "CR" ELSE "NONE"
            BY <1>1, <1>2, <1>5, <3>2, <4>1, <4>3, GotoPlain
               DEF LoopNewline, Harmless, AfterPlain, CR, LF, EQ, DOT
          <5>. QED
            BY <1>1, <1>2, <1>5, <3>2, <4>1, <5>1
               DEF LoopNewline, LineStart, GoOn, LoopInv, Harmless, Here, Peek, Rem, State, CR, LF
        <4>. QED BY <4>2, <4>3
      <3>. QED BY <3>1, <3>2
    <2>. QED
      BY <1>1, <1>2, <1>5, <2>1, StaysInLoop DEF LoopNewline, NoWrite
  <1>6. CASE LoopEscape
    <2>1. InLoop /\ taken = pos /\ Harmless /\ ~Redo
      BY <1>2, <1>6 DEF LoopEscape, Redo, CR, EQ
    <2>2. taken' = pos + 2 /\ ctx' = IF Peek(1) = CR THEN "CR" ELSE "NONE"
      <3>1. Goto(ctx, Here) = "EQ"
        BY <1>1, <1>2, <1>6, <2>1, GotoPlain DEF LoopEscape, Harmless, AfterPlain, CR, LF, EQ, DOT
      <3>. QED
        BY <1>3, <1>6, <2>1, <3>1, GotoEscaped DEF LoopEscape, IsEscaped
    <2>3. LoopInv'
      BY <1>1, <1>2, <1>6, <2>1, <2>2
         DEF LoopEscape, GoOn, LoopInv, Harmless, Redo, Here, Peek, Rem
    <2>4. out' \in Seq(Byte) /\ Len(out') = Len(out) + 1
      BY <1>2, <1>6, <2>1, Writes DEF LoopEscape
    <2>. QED
      BY <1>1, <1>2, <1>6, <2>1, <2>2, <2>3, <2>4, StaysInLoop, SMTT(30) DEF LoopEscape, State
  \* \r\n, with or without the \r having been escaped
  <1>7. ASSUME InLoop, LineStart(Peek(2)), Consumed(Ahead(3))
        PROVE  taken' = pos + 3 /\ ctx' = Goto("CRLF", Peek(2))
    <2>1. taken' = pos + 3
      BY <1>3, <1>7
    <2>2. CASE Redo
      BY <1>3, <1>7, <2>2, GotoSpecial DEF LineStart
    <2>3. CASE ~Redo
      <3>1. Goto(ctx, Here) = "CR"
        BY <1>1, <1>2, <1>7, <2>3, GotoPlain DEF LineStart, Harmless, AfterPlain, CR, LF, EQ, DOT
      <3>. QED
        BY <1>3, <1>7, <2>3, <3>1, GotoSpecial DEF LineStart
    <2>. QED BY <2>1, <2>2, <2>3
  <1>8. CASE LoopDot
    <2>1. taken' = pos + 3 /\ ctx' = "CRLFDT"
      BY <1>7, <1>8, GotoSpecial DEF LoopDot, LineStart
    <2>2. LabelCtx["ldt"] = "CRLFDT"
      BY DEF LabelCtx, Label
    <2>. QED
      BY <1>1, <1>2, <1>8, <2>1, <2>2, ChecksEnd DEF LoopDot, NoWrite
  <1>9. CASE LoopEq
    <2>1. taken' = pos + 3 /\ ctx' = "CRLFEQ"
      BY <1>7, <1>9, GotoSpecial DEF LoopEq, LineStart
    <2>2. LabelCtx["leq"] = "CRLFEQ"
      BY DEF LabelCtx, Label, State
    <2>. QED
      BY <1>1, <1>2, <1>9, <2>1, <2>2, ChecksEnd DEF LoopEq, NoWrite
  \* The nested tests, where the context is known exactly.
  <1>10. ASSUME pc \in {"ldt", "ldtcr", "leq"}
         PROVE  /\ pos + 1 \in 0..Len(chunk) /\ pos < Len(chunk) /\ Here \in Char
                /\ taken = pos /\ ctx = LabelCtx[pc] /\ Ctx1 = Goto(ctx, Here)
                /\ pc = "ldt" => ctx = "CRLFDT"
                /\ pc = "ldtcr" => ctx = "CRLFDTCR"
                /\ pc = "leq" => ctx = "CRLFEQ"
    <2>1. taken = pos /\ ctx = LabelCtx[pc] /\ pos < Len(chunk)
      BY <1>1, <1>10 DEF LabelInv, Rem
    <2>2. /\ LabelCtx["ldt"] = "CRLFDT" /\ LabelCtx["ldtcr"] = "CRLFDTCR"
          /\ LabelCtx["leq"] = "CRLFEQ"
      BY DEF LabelCtx, Label, State
    <2>. QED
      BY <1>1, <1>10, <2>1, <2>2 DEF Ctx1, Here
  <1>11. CASE LoopDotCr
    <2>1. taken' = pos + 1 /\ ctx' = "CRLFDTCR"
      BY <1>1, <1>10, <1>11, GotoSpecial DEF LoopDotCr, Consumed
    <2>2. LabelCtx["ldtcr"] = "CRLFDTCR"
      BY DEF LabelCtx, Label, State
    <2>. QED
      BY <1>1, <1>10, <1>11, <2>1, <2>2, ChecksEnd DEF LoopDotCr, NoWrite
  <1>12. CASE LoopDotEq
    <2>1. taken' = pos + 1 /\ ctx' = "CRLFEQ"
      BY <1>1, <1>10, <1>12, GotoSpecial DEF LoopDotEq, Consumed
    <2>2. LabelCtx["leq"] = "CRLFEQ"
      BY DEF LabelCtx, Label, State
    <2>. QED
      BY <1>1, <1>10, <1>12, <2>1, <2>2, ChecksEnd DEF LoopDotEq, NoWrite
  <1>13. CASE LoopDotOther \/ LoopDotCrOther
    <2>1. taken' = pos /\ ctx' = ctx /\ GoOn("loop", pos) /\ out' = out
      BY <1>1, <1>10, <1>13 DEF LoopDotOther, LoopDotCrOther, Consumed, NoWrite
    <2>2. LoopInv'
      BY <1>1, <1>10, <1>13, <2>1 DEF LoopDotOther, LoopDotCrOther, GoOn, LoopInv, Harmless, Here, Rem
    <2>. QED
      BY <1>1, <1>10, <1>13, <2>1, <2>2, StaysInLoop DEF LoopDotOther, LoopDotCrOther
  <1>14. CASE LoopDotCrEnd \/ LoopEqEnd
    <2>1. PICK s \in {"CRLF", "NONE"}, e \in {"ARTICLE", "CONTROL"} :
             Return(s, e, pos + 1) /\ ctx' = s
      BY <1>1, <1>10, <1>14, GotoSpecial DEF LoopDotCrEnd, LoopEqEnd, Consumed
    <2>2. taken' = pos + 1 /\ out' = out
      BY <1>1, <1>10, <1>14 DEF LoopDotCrEnd, LoopEqEnd, Consumed, NoWrite
    <2>3. pc \in {"ldt", "ldtcr", "leq"}
      BY <1>14 DEF LoopDotCrEnd, LoopEqEnd
    <2>. QED
      BY <1>1, <1>10, <2>1, <2>2, <2>3, Returns DEF State, End
  <1>15. CASE LoopEqEscape
    <2>1. taken' = pos + 1 /\ ctx' = IF Here = CR THEN "CR" ELSE "NONE"
      BY <1>1, <1>10, <1>15, GotoEscaped DEF LoopEqEscape, Consumed, IsEscaped
    <2>2. LoopInv'
      BY <1>1, <1>10, <1>15, <2>1 DEF LoopEqEscape, GoOn, LoopInv, Harmless, Redo, Here, Rem
    <2>3. out' \in Seq(Byte) /\ Len(out') <= pos
      BY <1>1, <1>10, <1>15, Writes DEF LoopEqEscape, EscapeHere, WriteInv
    <2>. QED
      BY <1>1, <1>10, <1>15, <2>1, <2>2, <2>3, StaysInLoop DEF LoopEqEscape, State
  <1>. QED
    BY <1>4, <1>5, <1>6, <1>8, <1>9, <1>11, <1>12, <1>13, <1>14, <1>15 DEF Loop

LEMMA FinalInv == Inv /\ Final => Inv'
  <1>. SUFFICES ASSUME Inv, Final PROVE Inv'
    OBVIOUS
  <1>. USE DEF Inv
  <1>1. /\ pc \in {"loop", "last"} /\ pc \notin {"idle", "done"}
        /\ pos \in Nat /\ Len(chunk) \in Nat /\ chunk \in Seq(Char) /\ ctx \in State
        /\ out \in Seq(Byte) /\ Len(out) <= pos /\ taken \in Nat
        /\ Redo \/ (taken = pos /\ Harmless)
    BY DEF Final, SecondLastCrLf, SecondLastNewline, SecondLastEscape, SecondLastData,
           LastData, LastSpecial, Finish, AtSecondLast, AtLast,
           TypeOK, WriteInv, OutputNeverOvertakes, LoopInv
  <1>2. ASSUME AtSecondLast
        PROVE  pos + 2 = Len(chunk) /\ Here \in Char /\ Peek(1) \in Char
    BY <1>1, <1>2 DEF AtSecondLast, Rem, Here, Peek
  <1>3. ASSUME AtLast
        PROVE  pos + 1 = Len(chunk) /\ Here \in Char
    BY <1>1, <1>3 DEF AtLast, Rem, Here
  <1>4. ASSUME Consumed(Ahead(1)), Rem >= 1
        PROVE  taken' = pos + 1 /\ ctx' = IF Redo THEN "CR" ELSE Goto(ctx, Here)
    BY <1>1, <1>4 DEF Consumed, Ahead, Ctx1, Here, Redo
  <1>5. ASSUME Consumed(Ahead(2)), Rem >= 1
        PROVE  /\ taken' = pos + 2
               /\ ctx' = Goto(IF Redo THEN "CR" ELSE Goto(ctx, Here), Peek(1))
    BY <1>1, <1>5 DEF Consumed, Ahead, Ctx1, Ctx2, Here, Peek, Redo
  <1>6. ASSUME Rem >= 1, Here \in Char, ~Redo, ~(ctx = "CR" /\ Here = LF)
        PROVE  Goto(ctx, Here) = AfterPlain(Here)
    BY <1>1, <1>6, GotoPlain DEF Harmless
  <1>7. CASE SecondLastCrLf
    <2>1. taken' = pos + 2 /\ ctx' = "CRLF"
      BY <1>1, <1>2, <1>5, <1>6, <1>7, GotoSpecial
         DEF SecondLastCrLf, AtSecondLast, AfterPlain, CR, LF
    <2>. QED
      BY <1>1, <1>2, <1>7, <2>1, Returns DEF SecondLastCrLf, NoWrite, State, End
  <1>8. CASE SecondLastNewline
    <2>1. taken' = pos + 1 /\ ctx' = IF Redo THEN "CR" ELSE Goto(ctx, Here)
      BY <1>4, <1>8 DEF SecondLastNewline, AtSecondLast
    <2>2. LoopInv' /\ ctx' \in State
      <3>1. CASE Redo
        BY <1>1, <1>2, <1>8, <2>1, <3>1
           DEF SecondLastNewline, GoOn, LoopInv, Harmless, Redo, Here, Peek, Rem, State, CR, LF
      <3>2. CASE ~Redo /\ ctx = "CR" /\ Here = LF
        BY <1>1, <1>2, <1>8, <2>1, <3>2, GotoSpecial
           DEF SecondLastNewline, GoOn, LoopInv, Harmless, Here, Peek, Rem, State
      <3>3. CASE ~Redo /\ ~(ctx = "CR" /\ Here = LF)
        <4>1. ctx' = IF Here = CR THEN "CR" ELSE "NONE"
          BY <1>1, <1>2, <1>6, <1>8, <2>1, <3>3
             DEF SecondLastNewline, AtSecondLast, AfterPlain, CR, LF, EQ
        <4>. QED
          BY <1>1, <1>2, <1>8, <2>1, <3>3, <4>1
             DEF SecondLastNewline, GoOn, LoopInv, Harmless, Here, Peek, Rem, State, CR, LF
      <3>. QED BY <3>1, <3>2, <3>3
    <2>3. pos + 2 = Len(chunk) /\ GoOn("last", pos + 1) /\ out' = out
      BY <1>2, <1>8 DEF SecondLastNewline, NoWrite
    <2>4. taken' = pos + 1 /\ pos + 1 \in 0..Len(chunk) /\ Len(chunk) - (pos + 1) <= 1
      BY <1>1, <2>1, <2>3
    <2>. QED
      BY <1>1, <2>2, <2>3, <2>4, StaysInLoop
  <1>9. CASE SecondLastEscape
    <2>1. ~Redo /\ taken = pos
      BY <1>1, <1>9 DEF SecondLastEscape, Redo, CR, EQ
    <2>2. taken' = pos + 2 /\ ctx' = IF Peek(1) = CR THEN "CR" ELSE "NONE"
      BY <1>2, <1>5, <1>6, <1>9, <2>1, GotoEscaped
         DEF SecondLastEscape, AtSecondLast, AfterPlain, IsEscaped, CR, LF, EQ
    <2>3. LoopInv'
      BY <1>1, <1>2, <1>9, <2>2
         DEF SecondLastEscape, GoOn, LoopInv, Harmless, Redo, Here, Peek, Rem
    <2>4. out' \in Seq(Byte) /\ Len(out') = Len(out) + 1
      BY <1>2, <1>9, Writes DEF SecondLastEscape
    <2>. QED
      BY <1>1, <1>2, <1>9, <2>2, <2>3, <2>4, StaysInLoop, SMTT(30) DEF SecondLastEscape, State
  <1>10. ASSUME Here \in Char \ {CR, LF, EQ}, Rem >= 1, Consumed(Ahead(1))
         PROVE  taken' = pos + 1 /\ ctx' = "NONE"
    BY <1>4, <1>6, <1>10 DEF AfterPlain, Redo
  <1>11. CASE SecondLastData
    <2>1. taken' = pos + 1 /\ ctx' = "NONE"
      BY <1>2, <1>10, <1>11 DEF SecondLastData, AtSecondLast
    <2>2. LoopInv'
      BY <1>1, <1>11, <2>1 DEF SecondLastData, GoOn, LoopInv, Harmless
    <2>3. out' \in Seq(Byte) /\ Len(out') = Len(out) + 1
      BY <1>2, <1>11, Writes DEF SecondLastData
    <2>. QED
      BY <1>1, <1>2, <1>11, <2>1, <2>2, <2>3, StaysInLoop DEF SecondLastData, State
  <1>12. CASE LastData
    <2>1. taken' = pos + 1 /\ ctx' = "NONE"
      BY <1>3, <1>10, <1>12 DEF LastData, AtLast
    <2>2. out' \in Seq(Byte) /\ Len(out') = Len(out) + 1
      BY <1>3, <1>12, Writes DEF LastData
    <2>. QED
      BY <1>1, <1>3, <1>12, <2>1, <2>2, Returns DEF LastData, State, End
  <1>13. CASE LastSpecial
    <2>1. taken' = pos + 1 /\ ctx' = IF Redo THEN "CR" ELSE Goto(ctx, Here)
      BY <1>4, <1>13 DEF LastSpecial, AtLast
    \* a line feed after a carriage return is never left for the last byte
    <2>2. ~Redo => ~(ctx = "CR" /\ Here = LF)
      BY <1>1, <1>13 DEF LastSpecial, AtLast, Harmless
    <2>3. ctx' = IF Here = EQ THEN "EQ" ELSE IF Here = CR THEN "CR" ELSE "NONE"
      BY <1>3, <1>6, <1>13, <2>1, <2>2
         DEF LastSpecial, AtLast, AfterPlain, Redo, CR, LF, EQ
    <2>. QED
      BY <1>1, <1>3, <1>13, <2>1, <2>3, Returns DEF LastSpecial, NoWrite, State, End
  <1>14. CASE Finish
    <2>1. ctx = "NONE" /\ taken = pos /\ pos = Len(chunk)
      BY <1>1, <1>14 DEF Finish, Redo, Harmless, Rem
    <2>. QED
      BY <1>1, <1>14, <2>1, Returns DEF Finish, Consumed, NoWrite, State, End
  <1>. QED
    BY <1>7, <1>8, <1>9, <1>11, <1>12, <1>13, <1>14 DEF Final

-----------------------------------------------------------------------------
(* The invariant holds.                                                    *)

LEMMA NextInv == Inv /\ [Next]_vars => Inv'
  <1>1. ASSUME Inv, UNCHANGED vars PROVE Inv'
    BY <1>1 DEF vars, call, Inv, TypeOK, NoOverread, LoopInv, LabelInv, WriteInv, CallInv,
                OutputNeverOvertakes, Harmless, Redo, Rem, Here, Peek
  <1>. QED
    BY <1>1, CallerInv, EnterInv, MainLoopInv, FinalInv DEF Next, Decode

\* The inductive invariant, for every alphabet and every set of chunks.
THEOREM Invariant == Spec => []Inv
  BY InitInv, NextInv, PTL DEF Spec

\* Variables keep their types whatever chunks the decoder is fed
\* (do_decode_end_scalar, src/src/decoder.cc).
THEOREM TypeCorrect == Spec => []TypeOK
  BY Invariant, PTL DEF Inv

\* The decoder reads no byte past the chunk it was given.
THEOREM ReadsInBounds == Spec => []NoOverread
  BY Invariant, PTL DEF Inv

\* In-place decoding is safe: output never overtakes the byte to be read next,
\* which also bounds it by the length of the input.
THEOREM WritesInBounds == Spec => []OutputNeverOvertakes
  BY Invariant, PTL DEF Inv, WriteInv

-----------------------------------------------------------------------------
(* Refinement: the chunked decoder implements YencStream.                  *)

\* Between calls the visible values are those of the history.
LEMMA Visible ==
    ASSUME Inv
    PROVE  /\ StreamAt = taken
           /\ StreamDecoded = [ctx |-> ctx, out |-> out, ended |-> ended]
  BY DEF Inv, CallInv, StreamAt, StreamDecoded, Returned

LEMMA VisibleNext ==
    ASSUME Inv'
    PROVE  /\ StreamAt' = taken'
           /\ StreamDecoded' = [ctx |-> ctx', out |-> out', ended |-> ended']
  BY DEF Inv, CallInv, StreamAt, StreamDecoded, Returned

LEMMA EmitPlain ==
    ASSUME NEW x, NEW c, x \notin {"EQ", "CRLFEQ"}, x # "CRLF" \/ c # DOT,
           c \notin {CR, LF, EQ}
    PROVE  Emit(x, c) = <<Plain(c)>>
  BY DEF Emit, IsEscaped, IsStuffing, EndsData, CR, LF, EQ, DOT, Y

LEMMA EmitNothing ==
    ASSUME NEW x, NEW c, x \notin {"EQ", "CRLFEQ"}, c \in {CR, LF, EQ}
    PROVE  Emit(x, c) = <<>>
  BY DEF Emit, IsEscaped

LEMMA VerdictNone ==
    ASSUME NEW x, NEW c, x = "CRLFEQ" => c # Y, x = "CRLFDTCR" => c # LF
    PROVE  Verdict(x, c) = "NONE"
  BY DEF Verdict, EndsData

LEMMA EatsByTable ==
    ASSUME NEW x, NEW o, NEW e, NEW c
    PROVE  Stream!Eat([ctx |-> x, out |-> o, ended |-> e], c)
             = [ctx |-> Goto(x, c), out |-> o \o Emit(x, c), ended |-> Verdict(x, c)]
  BY DEF Stream!Eat

LEMMA Consumes1 ==
    ASSUME Inv, Inv', ended = "NONE", taken + 1 <= Len(chunk),
           taken' = taken + 1, ctx' = Goto(ctx, chunk[taken + 1]),
           out' = out \o Emit(ctx, chunk[taken + 1]),
           ended' = Verdict(ctx, chunk[taken + 1]), chunk' = chunk
    PROVE  Stream!Consume1
  <1>1. PICK d : d = Stream!Eat(StreamDecoded, chunk[taken + 1])
    OBVIOUS
  <1>2. StreamDecoded = [ctx |-> ctx, out |-> out, ended |-> ended]
    BY Visible
  <1>3. d = [ctx |-> ctx', out |-> out', ended |-> ended']
    BY <1>1, <1>2, EatsByTable
  <1>4. StreamDecoded.ended = "NONE" /\ StreamDecoded' = d
    BY <1>2, <1>3, VisibleNext
  <1>5. StreamAt = taken /\ StreamAt' = taken'
    BY Visible, VisibleNext
  <1>. QED
    BY <1>1, <1>4, <1>5 DEF Stream!Consume1

LEMMA Consumes2 ==
    ASSUME Inv, Inv', ended = "NONE", taken + 2 <= Len(chunk),
           Verdict(ctx, chunk[taken + 1]) = "NONE",
           taken' = taken + 2, ctx' = Goto(Ctx1, chunk[taken + 2]),
           out' = (out \o Emit(ctx, chunk[taken + 1])) \o Emit(Ctx1, chunk[taken + 2]),
           ended' = Verdict(Ctx1, chunk[taken + 2]), chunk' = chunk
    PROVE  Stream!Consume2
  <1>1. PICK d : d = Stream!Eat(StreamDecoded, chunk[taken + 1])
    OBVIOUS
  <1>2. PICK e : e = Stream!Eat(d, chunk[taken + 2])
    OBVIOUS
  <1>3. StreamDecoded = [ctx |-> ctx, out |-> out, ended |-> ended]
    BY Visible
  <1>4. d = [ctx |-> Goto(ctx, chunk[taken + 1]), out |-> out \o Emit(ctx, chunk[taken + 1]),
             ended |-> Verdict(ctx, chunk[taken + 1])]
    BY <1>1, <1>3, EatsByTable
  <1>5. e = [ctx |-> Goto(Ctx1, chunk[taken + 2]), ended |-> Verdict(Ctx1, chunk[taken + 2]),
             out |-> (out \o Emit(ctx, chunk[taken + 1])) \o Emit(Ctx1, chunk[taken + 2])]
    BY <1>2, <1>4, EatsByTable DEF Ctx1
  <1>6. StreamDecoded.ended = "NONE" /\ d.ended = "NONE" /\ StreamDecoded' = e
    BY <1>3, <1>4, <1>5, VisibleNext
  <1>7. StreamAt = taken /\ StreamAt' = taken'
    BY Visible, VisibleNext
  <1>. QED
    BY <1>1, <1>2, <1>6, <1>7 DEF Stream!Consume2

LEMMA Consumes3 ==
    ASSUME Inv, Inv', ended = "NONE", taken + 3 <= Len(chunk),
           Verdict(ctx, chunk[taken + 1]) = "NONE",
           Verdict(Ctx1, chunk[taken + 2]) = "NONE",
           taken' = taken + 3, ctx' = Goto(Ctx2, chunk[taken + 3]),
           out' = ((out \o Emit(ctx, chunk[taken + 1])) \o Emit(Ctx1, chunk[taken + 2]))
                    \o Emit(Ctx2, chunk[taken + 3]),
           ended' = Verdict(Ctx2, chunk[taken + 3]), chunk' = chunk
    PROVE  Stream!Consume3
  <1>1. PICK d : d = Stream!Eat(StreamDecoded, chunk[taken + 1])
    OBVIOUS
  <1>2. PICK e : e = Stream!Eat(d, chunk[taken + 2])
    OBVIOUS
  <1>3. PICK f : f = Stream!Eat(e, chunk[taken + 3])
    OBVIOUS
  <1>4. StreamDecoded = [ctx |-> ctx, out |-> out, ended |-> ended]
    BY Visible
  <1>5. d = [ctx |-> Goto(ctx, chunk[taken + 1]), out |-> out \o Emit(ctx, chunk[taken + 1]),
             ended |-> Verdict(ctx, chunk[taken + 1])]
    BY <1>1, <1>4, EatsByTable
  <1>6. PICK o : o = (out \o Emit(ctx, chunk[taken + 1])) \o Emit(Ctx1, chunk[taken + 2])
    OBVIOUS
  <1>7. e = [ctx |-> Ctx2, out |-> o, ended |-> "NONE"]
    <2>1. e = [ctx |-> Goto(Ctx1, chunk[taken + 2]), out |-> o,
               ended |-> Verdict(Ctx1, chunk[taken + 2])]
      BY <1>2, <1>5, <1>6, EatsByTable DEF Ctx1
    <2>. QED BY <2>1 DEF Ctx2
  <1>8. f = [ctx |-> ctx', out |-> out', ended |-> ended']
    <2>1. f = [ctx |-> Goto(Ctx2, chunk[taken + 3]), out |-> o \o Emit(Ctx2, chunk[taken + 3]),
               ended |-> Verdict(Ctx2, chunk[taken + 3])]
      BY <1>3, <1>7, EatsByTable
    <2>. QED BY <1>6, <2>1
  <1>9. /\ StreamDecoded.ended = "NONE" /\ d.ended = "NONE" /\ e.ended = "NONE"
        /\ StreamDecoded' = f
    BY <1>4, <1>5, <1>7, <1>8, VisibleNext
  <1>10. StreamAt = taken /\ StreamAt' = taken'
    BY Visible, VisibleNext
  <1>. QED
    BY <1>1, <1>2, <1>3, <1>9, <1>10 DEF Stream!Consume3

LEMMA Stutters ==
    ASSUME Inv, Inv', UNCHANGED <<chunk, taken, ctx, out, ended>>
    PROVE  UNCHANGED Stream!vars
  BY Visible, VisibleNext DEF Stream!vars

LEMMA RefinesInit == Init => Stream!Init
  BY DEF Init, Stream!Init, StreamAt, StreamDecoded, Returned, Stream!Fresh

LEMMA RefinesCaller ==
    ASSUME Inv, Inv', Call \/ Collect
    PROVE  [Stream!Next]_Stream!vars
  <1>1. CASE Call
    <2>1. Stream!Deliver
      BY <1>1, Visible, VisibleNext, ChunkAssumption
         DEF Call, hist, call, Stream!Deliver, Inv, CallInv
    <2>. QED BY <2>1 DEF Stream!Next
  <1>2. CASE Collect
    <2>1. Stream!Collect
      BY <1>2, Visible, VisibleNext
         DEF Collect, Stream!Collect, Stream!Over, Stream!Fresh, Inv, CallInv
    <2>. QED BY <2>1 DEF Stream!Next
  <1>. QED BY <1>1, <1>2

LEMMA EmitTable ==
    /\ \A x, c : IsEscaped(x, c) => Emit(x, c) = <<Escaped(c)>>
    /\ Emit("CRLF", DOT) = <<>>
    /\ Emit("CRLFEQ", Y) = <<>>
    /\ Verdict("CRLFEQ", Y) = "CONTROL"
    /\ Verdict("CRLFDTCR", LF) = "ARTICLE"
  BY DEF Emit, Verdict, IsEscaped, IsStuffing, EndsData, CR, LF, DOT, EQ, Y

LEMMA Appends ==
    ASSUME TypeOK, NEW c \in Char
    PROVE  /\ Write(Plain(c))   => out' = out \o <<Plain(c)>>
           /\ Write(Escaped(c)) => out' = out \o <<Escaped(c)>>
           /\ NoWrite           => out' = out \o <<>>
  <1>1. Plain(c) \in Byte /\ Escaped(c) \in Byte /\ out \in Seq(Byte)
    BY DEF Plain, Escaped, Byte, TypeOK
  <1>. QED BY <1>1, AppendIsConcat, ConcatEmptySeq DEF Write, NoWrite

\* A step within a call that does not reach the end of the data.
LEMMA Quiet ==
    ASSUME ended = "NONE", NEW l, NEW s, NEW p,
           GoOn(l, p) \/ CheckEnd(s, l, p) \/ Return(s, "NONE", p)
    PROVE  ended' = "NONE" /\ chunk' = chunk
  BY DEF GoOn, CheckEnd, Return, call

LEMMA Running ==
    ASSUME Inv, pc \notin {"idle", "done"}
    PROVE  /\ ended = "NONE"
           /\ pos \in Nat /\ Len(chunk) \in Nat /\ chunk \in Seq(Char) /\ ctx \in State
           /\ out \in Seq(Byte) /\ taken \in Nat /\ TypeOK
  BY DEF Inv, CallInv, TypeOK

LEMMA Takes1 ==
    ASSUME Inv, Inv', pc \notin {"idle", "done"}, taken = pos, pos < Len(chunk), Consumed(1),
           chunk' = chunk, out' = out \o Emit(ctx, Here), ended' = Verdict(ctx, Here)
    PROVE  [Stream!Next]_Stream!vars
  <1>1. Here = chunk[taken + 1] /\ taken + 1 <= Len(chunk) /\ ended = "NONE"
    BY Running DEF Here
  <1>2. taken' = taken + 1 /\ ctx' = Goto(ctx, chunk[taken + 1])
    BY DEF Consumed, Ctx1
  <1>3. Stream!Consume1
    BY <1>1, <1>2, Consumes1
  <1>. QED BY <1>3 DEF Stream!Next

LEMMA RefinesEnter ==
    ASSUME Inv, Inv', Enter
    PROVE  [Stream!Next]_Stream!vars
  <1>1. pc \in State \ {"NONE"} /\ pc \notin {"idle", "done"}
    BY DEF Enter, EnterCeqEnd, EnterEq, EnterCr, EnterC0Dot, EnterC0Eq, EnterDtCr, EnterDtEq,
           EnterDtCrEnd, EnterBreak, State
  <1>2. ended = "NONE" /\ TypeOK
    BY <1>1, Running
  <1>3. ctx = pc /\ taken = pos /\ pos < Len(chunk) /\ Here \in Char
    BY <1>1, Running DEF Inv, LabelInv, LabelCtx, Label, State, Rem, Here
  <1>4. CASE EnterCeqEnd
    BY <1>1, <1>2, <1>3, <1>4, Appends, EmitTable, Takes1 DEF EnterCeqEnd, Return
  <1>5. CASE EnterEq
    <2>1. IsEscaped(ctx, Here) /\ Verdict(ctx, Here) = "NONE"
      BY <1>3, <1>5, VerdictNone DEF EnterEq, IsEscaped
    <2>2. out' = out \o Emit(ctx, Here)
      BY <1>2, <1>3, <1>5, <2>1, Appends, EmitTable DEF EnterEq, EscapeHere
    <2>3. ended' = "NONE" /\ chunk' = chunk
      BY <1>2, <1>5, Quiet DEF EnterEq
    <2>. QED
      BY <1>1, <1>3, <1>5, <2>1, <2>2, <2>3, Takes1 DEF EnterEq
  <1>6. CASE EnterCr \/ EnterC0Dot \/ EnterC0Eq \/ EnterDtCr \/ EnterDtEq
    <2>1. Emit(ctx, Here) = <<>> /\ Verdict(ctx, Here) = "NONE"
      BY <1>3, <1>6, EmitTable, EmitNothing, VerdictNone
         DEF EnterCr, EnterC0Dot, EnterC0Eq, EnterDtCr, EnterDtEq, CR, LF, EQ, DOT, Y
    <2>2. out' = out \o <<>> /\ Consumed(1)
      BY <1>2, <1>3, <1>6, Appends DEF EnterCr, EnterC0Dot, EnterC0Eq, EnterDtCr, EnterDtEq
    <2>3. ended' = "NONE" /\ chunk' = chunk
      BY <1>2, <1>6, Quiet DEF EnterCr, EnterC0Dot, EnterC0Eq, EnterDtCr, EnterDtEq
    <2>. QED
      BY <1>1, <1>3, <2>1, <2>2, <2>3, Takes1
  <1>7. CASE EnterDtCrEnd
    <2>1. Emit(ctx, Here) = <<>>
      BY <1>3, <1>7, EmitNothing DEF EnterDtCrEnd
    <2>. QED
      BY <1>1, <1>2, <1>3, <1>7, <2>1, Appends, EmitTable, Takes1 DEF EnterDtCrEnd, Return
  <1>8. CASE EnterBreak
    <2>1. UNCHANGED <<chunk, taken, ctx, out, ended>>
      BY <1>3, <1>8, Running DEF EnterBreak, GoOn, Consumed, NoWrite, call, TypeOK
    <2>. QED BY <2>1, Stutters
  <1>. QED BY <1>4, <1>5, <1>6, <1>7, <1>8 DEF Enter

LEMMA RefinesLoop ==
    ASSUME Inv, Inv', Loop
    PROVE  [Stream!Next]_Stream!vars
  <1>1. pc \in {"loop", "ldt", "ldtcr", "leq"} /\ pc \notin {"idle", "done"}
    BY DEF Loop, LoopData, LoopNewline, LoopEscape, LoopDot, LoopEq, LoopDotCr, LoopDotEq,
           LoopDotOther, LoopDotCrEnd, LoopDotCrOther, LoopEqEnd, LoopEqEscape, InLoop
  <1>2. /\ ended = "NONE" /\ TypeOK /\ pos \in Nat /\ Len(chunk) \in Nat /\ taken \in Nat
        /\ chunk \in Seq(Char) /\ ctx \in State
    BY <1>1, Running
  <1>3. ASSUME InLoop
        PROVE  /\ pos + 2 < Len(chunk) /\ Here \in Char /\ Peek(1) \in Char /\ Peek(2) \in Char
               /\ Redo \/ (taken = pos /\ Harmless)
    BY <1>2, <1>3 DEF Inv, InLoop, Rem, Here, Peek, LoopInv
  \* The first byte of a branch, if it is not a redone \r, has no meaning of its own.
  <1>4. ASSUME InLoop, ~Redo
        PROVE  Ahead(1) = 1 /\ Ahead(2) = 2 /\ Ahead(3) = 3 /\ Verdict(ctx, Here) = "NONE"
    BY <1>2, <1>3, <1>4, VerdictNone DEF Ahead, Harmless
  <1>5. CASE LoopData
    <2>1. InLoop /\ ~Redo
      BY <1>5 DEF LoopData, Redo
    <2>2. taken = pos /\ Harmless
      BY <1>3, <2>1
    <2>3. Emit(ctx, Here) = <<Plain(Here)>>
      BY <1>5, <2>2, EmitPlain DEF LoopData, Harmless
    <2>4. ended' = "NONE" /\ chunk' = chunk
      BY <1>2, <1>5, Quiet DEF LoopData
    <2>5. Consumed(1) /\ out' = out \o Emit(ctx, Here)
      BY <1>2, <1>3, <1>4, <1>5, <2>1, <2>3, Appends DEF LoopData
    <2>6. pos < Len(chunk) /\ Verdict(ctx, Here) = "NONE"
      BY <1>2, <1>3, <1>4, <2>1
    <2>. QED
      BY <1>1, <2>2, <2>4, <2>5, <2>6, Takes1
  <1>6. CASE LoopNewline
    <2>1. ended' = "NONE" /\ chunk' = chunk /\ InLoop
      BY <1>2, <1>6, Quiet DEF LoopNewline
    <2>2. CASE Redo
      <3>1. taken' = taken /\ ctx' = ctx
        BY <1>2, <1>6, <2>2 DEF LoopNewline, Consumed, Ahead, Redo
      <3>. QED BY <1>2, <1>6, <2>1, <3>1, Stutters DEF LoopNewline, NoWrite
    <2>3. CASE ~Redo
      <3>1. Emit(ctx, Here) = <<>>
        BY <1>3, <1>6, <2>1, <2>3, EmitNothing DEF LoopNewline, Harmless
      <3>2. Consumed(1) /\ out' = out \o Emit(ctx, Here)
        BY <1>2, <1>3, <1>4, <1>6, <2>1, <2>3, <3>1, Appends DEF LoopNewline
      <3>3. taken = pos /\ pos < Len(chunk) /\ Verdict(ctx, Here) = "NONE"
        BY <1>2, <1>3, <1>4, <2>1, <2>3
      <3>. QED
        BY <1>1, <2>1, <3>2, <3>3, Takes1
    <2>. QED BY <2>2, <2>3
  <1>7. CASE LoopEscape
    <2>1. InLoop /\ ~Redo
      BY <1>7 DEF LoopEscape, Redo, CR, EQ
    <2>2. taken = pos /\ Harmless /\ Consumed(2)
      BY <1>3, <1>4, <1>7, <2>1 DEF LoopEscape
    <2>3. Here = chunk[taken + 1] /\ Peek(1) = chunk[taken + 2] /\ taken + 2 <= Len(chunk)
      BY <1>2, <1>3, <2>1, <2>2 DEF Here, Peek
    <2>4. Ctx1 = "EQ"
      BY <1>2, <1>3, <1>7, <2>1, <2>2, <2>3, GotoPlain
         DEF Ctx1, LoopEscape, Harmless, AfterPlain, CR, LF, EQ, DOT
    <2>5. Emit(ctx, Here) = <<>> /\ Emit(Ctx1, Peek(1)) = <<Escaped(Peek(1))>>
      BY <1>7, <2>2, <2>4, EmitNothing, EmitTable DEF LoopEscape, Harmless, IsEscaped
    <2>6. out' = (out \o Emit(ctx, Here)) \o Emit(Ctx1, Peek(1))
      <3>1. out \o <<>> = out
        BY <1>2, ConcatEmptySeq DEF TypeOK
      <3>. QED BY <1>2, <1>3, <1>7, <2>1, <2>5, <3>1, Appends DEF LoopEscape
    <2>7. Verdict(ctx, Here) = "NONE" /\ Verdict(Ctx1, Peek(1)) = "NONE"
      BY <1>4, <2>1, <2>4, VerdictNone
    <2>8. ended' = "NONE" /\ chunk' = chunk
      BY <1>2, <1>7, Quiet DEF LoopEscape
    <2>9. taken' = taken + 2 /\ ctx' = Goto(Ctx1, Peek(1))
      BY <2>2, <2>3 DEF Consumed, Ctx2
    <2>10. Stream!Consume2
      BY <1>2, <2>3, <2>6, <2>7, <2>8, <2>9, Consumes2
    <2>. QED BY <2>10 DEF Stream!Next
  \* \r\n and the byte that makes it special, with or without a redone \r.
  <1>8. ASSUME InLoop, LineStart(Peek(2)), Peek(2) \in {DOT, EQ}, NoWrite,
               Consumed(Ahead(3)), ended' = "NONE", chunk' = chunk
        PROVE  Stream!Consume2 \/ Stream!Consume3
    <2>1. out \o <<>> = out
      BY <1>2, ConcatEmptySeq DEF TypeOK
    <2>2. /\ Emit("CR", LF) = <<>> /\ Verdict("CR", LF) = "NONE"
          /\ Emit("CRLF", Peek(2)) = <<>> /\ Verdict("CRLF", Peek(2)) = "NONE"
      BY <1>8, EmitTable, EmitNothing, VerdictNone DEF CR, LF, EQ
    <2>3. CASE Redo
      <3>1. LF = chunk[taken + 1] /\ Peek(2) = chunk[taken + 2] /\ taken + 2 <= Len(chunk)
        BY <1>2, <1>3, <1>8, <2>3 DEF Redo, LineStart, Peek
      <3>2. ctx = "CR" /\ Ctx1 = "CRLF"
        BY <2>3, <3>1, GotoSpecial DEF Redo, Ctx1
      <3>3. Ahead(3) = 2
        BY <1>2, <2>3 DEF Redo, Ahead
      <3>4. taken' = taken + 2 /\ ctx' = Goto(Ctx1, Peek(2))
        BY <1>8, <3>1, <3>3 DEF Consumed, Ctx2
      <3>5. out' = (out \o Emit(ctx, LF)) \o Emit(Ctx1, Peek(2))
        BY <1>8, <2>1, <2>2, <3>2 DEF NoWrite
      <3>. QED
        BY <1>2, <1>8, <2>2, <3>1, <3>2, <3>4, <3>5, Consumes2
    <2>4. CASE ~Redo
      <3>1. /\ CR = chunk[taken + 1] /\ LF = chunk[taken + 2] /\ Peek(2) = chunk[taken + 3]
            /\ taken + 3 <= Len(chunk) /\ Harmless
        BY <1>2, <1>3, <1>8, <2>4 DEF LineStart, Peek, Here
      <3>2. Ctx1 = "CR"
        BY <1>2, <1>3, <1>8, <3>1, GotoPlain
           DEF Ctx1, LineStart, Harmless, AfterPlain, CR, LF, EQ, DOT
      <3>3. Ctx2 = "CRLF"
        BY <3>1, <3>2, GotoSpecial DEF Ctx2
      <3>4. taken' = taken + 3 /\ ctx' = Goto(Ctx2, Peek(2))
        BY <1>4, <1>8, <2>4, <3>1 DEF Consumed, Ctx3
      <3>5. Emit(ctx, CR) = <<>> /\ Verdict(ctx, CR) = "NONE"
        BY <3>1, EmitNothing, VerdictNone DEF Harmless, CR, LF, Y
      <3>6. out' = ((out \o Emit(ctx, CR)) \o Emit(Ctx1, LF)) \o Emit(Ctx2, Peek(2))
        BY <1>8, <2>1, <2>2, <3>2, <3>3, <3>5 DEF NoWrite
      <3>. QED
        BY <1>2, <1>8, <2>2, <3>1, <3>2, <3>3, <3>4, <3>5, <3>6, Consumes3
    <2>. QED BY <2>3, <2>4
  <1>9. CASE LoopDot \/ LoopEq
    <2>1. ended' = "NONE" /\ chunk' = chunk
      BY <1>2, <1>9, Quiet DEF LoopDot, LoopEq
    <2>2. InLoop /\ LineStart(Peek(2)) /\ Peek(2) \in {DOT, EQ} /\ NoWrite /\ Consumed(Ahead(3))
      BY <1>9 DEF LoopDot, LoopEq, LineStart
    <2>3. Stream!Consume2 \/ Stream!Consume3
      BY <1>8, <2>1, <2>2
    <2>. QED BY <2>3 DEF Stream!Next
  <1>10. ASSUME pc \in {"ldt", "ldtcr", "leq"}
         PROVE  /\ taken = pos /\ pos < Len(chunk) /\ Here \in Char
                /\ pc = "ldt" => ctx = "CRLFDT"
                /\ pc = "ldtcr" => ctx = "CRLFDTCR"
                /\ pc = "leq" => ctx = "CRLFEQ"
    <2>1. taken = pos /\ ctx = LabelCtx[pc] /\ pos < Len(chunk)
      BY <1>2, <1>10 DEF Inv, LabelInv, Rem
    <2>2. /\ LabelCtx["ldt"] = "CRLFDT" /\ LabelCtx["ldtcr"] = "CRLFDTCR"
          /\ LabelCtx["leq"] = "CRLFEQ"
      BY DEF LabelCtx, Label, State
    <2>. QED
      BY <1>2, <1>10, <2>1, <2>2 DEF Here
  <1>11. CASE LoopDotCr \/ LoopDotEq
    <2>1. ended' = "NONE" /\ chunk' = chunk
      BY <1>2, <1>11, Quiet DEF LoopDotCr, LoopDotEq
    <2>2. Consumed(1) /\ NoWrite /\ ctx = "CRLFDT" /\ Here \in {CR, EQ}
      BY <1>10, <1>11 DEF LoopDotCr, LoopDotEq
    <2>3. Emit(ctx, Here) = <<>> /\ Verdict(ctx, Here) = "NONE"
      BY <2>2, EmitNothing, VerdictNone
    <2>4. taken = pos /\ pos < Len(chunk) /\ Here \in Char
      BY <1>10, <1>11 DEF LoopDotCr, LoopDotEq
    <2>. QED
      BY <1>1, <1>2, <2>1, <2>2, <2>3, <2>4, Appends, Takes1
  <1>12. CASE LoopDotOther \/ LoopDotCrOther
    <2>1. UNCHANGED <<chunk, taken, ctx, out, ended>>
      BY <1>2, <1>12 DEF LoopDotOther, LoopDotCrOther, GoOn, Consumed, NoWrite, call
    <2>. QED BY <2>1, Stutters
  <1>13. CASE LoopDotCrEnd \/ LoopEqEnd
    <2>1. taken = pos /\ pos < Len(chunk) /\ Here \in Char /\ Consumed(1) /\ NoWrite
      BY <1>10, <1>13 DEF LoopDotCrEnd, LoopEqEnd
    <2>2. Emit(ctx, Here) = <<>> /\ ended' = Verdict(ctx, Here) /\ chunk' = chunk
      BY <1>10, <1>13, EmitNothing, EmitTable DEF LoopDotCrEnd, LoopEqEnd, Return
    <2>. QED
      BY <1>1, <1>2, <2>1, <2>2, Appends, Takes1
  <1>14. CASE LoopEqEscape
    <2>1. taken = pos /\ pos < Len(chunk) /\ Here \in Char /\ Consumed(1)
      BY <1>10, <1>14 DEF LoopEqEscape
    <2>2. IsEscaped(ctx, Here) /\ Verdict(ctx, Here) = "NONE"
      BY <1>10, <1>14, VerdictNone DEF LoopEqEscape, IsEscaped
    <2>3. out' = out \o Emit(ctx, Here)
      BY <1>2, <1>14, <2>1, <2>2, Appends, EmitTable DEF LoopEqEscape, EscapeHere
    <2>4. ended' = "NONE" /\ chunk' = chunk
      BY <1>2, <1>14, Quiet DEF LoopEqEscape
    <2>. QED
      BY <1>1, <2>1, <2>2, <2>3, <2>4, Takes1
  <1>. QED
    BY <1>5, <1>6, <1>7, <1>9, <1>11, <1>12, <1>13, <1>14 DEF Loop

LEMMA RefinesFinal ==
    ASSUME Inv, Inv', Final
    PROVE  [Stream!Next]_Stream!vars
  <1>1. pc \in {"loop", "last"} /\ pc \notin {"idle", "done"}
    BY DEF Final, SecondLastCrLf, SecondLastNewline, SecondLastEscape, SecondLastData,
           LastData, LastSpecial, Finish, AtSecondLast, AtLast
  <1>2. /\ ended = "NONE" /\ TypeOK /\ pos \in Nat /\ Len(chunk) \in Nat /\ taken \in Nat
        /\ chunk \in Seq(Char) /\ ctx \in State
        /\ Redo \/ (taken = pos /\ Harmless)
    BY <1>1, Running DEF Inv, LoopInv
  <1>3. ended' = "NONE" /\ chunk' = chunk
    BY <1>2, Quiet DEF Final, SecondLastCrLf, SecondLastNewline, SecondLastEscape,
       SecondLastData, LastData, LastSpecial, Finish
  <1>4. ASSUME AtSecondLast \/ AtLast
        PROVE  Rem >= 1 /\ pos < Len(chunk) /\ Here \in Char
    <2>1. Rem \in {1, 2}
      BY <1>4 DEF AtSecondLast, AtLast
    <2>2. pos < Len(chunk)
      BY <1>2, <2>1 DEF Rem
    <2>3. pos + 0 < Len(chunk) /\ 0 \in Nat
      BY <1>2, <2>2
    <2>4. Here \in Char
      BY <1>2, <2>3, Reads
    <2>. QED BY <2>1, <2>2, <2>4
  <1>5. ASSUME AtSecondLast
        PROVE  pos + 2 = Len(chunk) /\ Peek(1) \in Char
    <2>1. Rem = 2
      BY <1>5 DEF AtSecondLast
    <2>2. pos + 2 = Len(chunk)
      BY <1>2, <2>1 DEF Rem
    <2>3. pos + 1 < Len(chunk) /\ 1 \in Nat
      BY <1>2, <2>2
    <2>4. Peek(1) \in Char
      BY <1>2, <2>3, Reads
    <2>. QED BY <2>2, <2>4
  \* One byte, which is passed over or written as data.
  <1>6. ASSUME AtSecondLast \/ AtLast, Consumed(Ahead(1)),
               \/ Here \in {CR, LF} /\ NoWrite
               \/ Here = EQ /\ NoWrite
               \/ Here \notin {CR, LF, EQ} /\ Write(Plain(Here))
        PROVE  [Stream!Next]_Stream!vars
    <2>1. CASE Redo
      <3>1. Here = CR
        BY <2>1 DEF Redo
      <3>2. taken' = taken /\ ctx' = ctx /\ out' = out
        BY <1>2, <1>6, <2>1, <3>1 DEF Consumed, Ahead, Redo, NoWrite
      <3>. QED BY <1>2, <1>3, <3>2, Stutters
    <2>2. CASE ~Redo
      <3>1. taken = pos /\ Harmless /\ Consumed(1) /\ pos < Len(chunk) /\ Here \in Char
        BY <1>2, <1>4, <1>6, <2>2 DEF Ahead
      <3>2. Verdict(ctx, Here) = "NONE"
        BY <3>1, VerdictNone DEF Harmless
      <3>3. out' = out \o Emit(ctx, Here)
        <4>1. CASE Here \in {CR, LF, EQ}
          BY <1>2, <1>6, <3>1, <4>1, EmitNothing, Appends DEF Harmless
        <4>2. CASE Here \notin {CR, LF, EQ}
          BY <1>2, <1>6, <3>1, <4>2, EmitPlain, Appends DEF Harmless
        <4>. QED BY <4>1, <4>2
      <3>. QED
        BY <1>1, <1>3, <3>1, <3>2, <3>3, Takes1
    <2>. QED BY <2>1, <2>2
  <1>7. CASE SecondLastCrLf
    <2>1. AtSecondLast /\ Here = CR /\ Peek(1) = LF /\ NoWrite /\ Consumed(Ahead(2))
      BY <1>7 DEF SecondLastCrLf
    <2>2. out \o <<>> = out
      BY <1>2, ConcatEmptySeq DEF TypeOK
    <2>3. Emit("CR", LF) = <<>> /\ Verdict("CR", LF) = "NONE"
      BY EmitNothing, VerdictNone
    <2>4. CASE Redo
      <3>1. ctx = "CR" /\ LF = chunk[taken + 1] /\ taken + 1 <= Len(chunk)
        BY <1>2, <1>5, <2>1, <2>4 DEF Redo, Peek
      <3>2. taken' = taken + 1 /\ ctx' = Goto(ctx, chunk[taken + 1])
        BY <1>2, <2>1, <2>4 DEF Redo, Ahead, Consumed, Ctx1
      <3>3. Stream!Consume1
        BY <1>2, <1>3, <2>1, <2>2, <2>3, <3>1, <3>2, Consumes1 DEF NoWrite
      <3>. QED BY <3>3 DEF Stream!Next
    <2>5. CASE ~Redo
      <3>1. /\ CR = chunk[taken + 1] /\ LF = chunk[taken + 2] /\ taken + 2 <= Len(chunk)
            /\ taken = pos /\ Harmless
        BY <1>2, <1>5, <2>1, <2>5 DEF Here, Peek
      <3>2. Ctx1 = "CR"
        <4>1. Goto(ctx, Here) = AfterPlain(Here)
          BY <1>2, <1>4, <2>1, <3>1, PlainHere DEF CR, LF
        <4>. QED BY <2>1, <3>1, <4>1 DEF Ctx1, AfterPlain
      <3>3. taken' = taken + 2 /\ ctx' = Goto(Ctx1, chunk[taken + 2])
        BY <1>2, <2>1, <3>1 DEF Ahead, Consumed, Ctx2
      <3>4. Emit(ctx, CR) = <<>> /\ Verdict(ctx, CR) = "NONE"
        BY <3>1, EmitNothing, VerdictNone DEF Harmless, CR, LF, Y
      <3>5. Stream!Consume2
        BY <1>2, <1>3, <2>1, <2>2, <2>3, <3>1, <3>2, <3>3, <3>4, Consumes2 DEF NoWrite
      <3>. QED BY <3>5 DEF Stream!Next
    <2>. QED BY <2>4, <2>5
  <1>8. CASE SecondLastNewline
    BY <1>6, <1>8 DEF SecondLastNewline
  <1>9. CASE SecondLastEscape
    <2>1. AtSecondLast /\ Here = EQ /\ Write(Escaped(Peek(1))) /\ Consumed(Ahead(2))
      BY <1>9 DEF SecondLastEscape
    <2>2. ~Redo /\ taken = pos /\ Harmless /\ Consumed(2)
      BY <1>2, <2>1 DEF Redo, Ahead, CR, EQ
    <2>3. Here = chunk[taken + 1] /\ Peek(1) = chunk[taken + 2] /\ taken + 2 <= Len(chunk)
      BY <1>2, <1>5, <2>1, <2>2 DEF Here, Peek
    <2>4. Ctx1 = "EQ"
      <3>1. Goto(ctx, Here) = AfterPlain(Here)
        BY <1>2, <1>4, <2>1, <2>2, PlainHere DEF LF, EQ
      <3>. QED BY <2>1, <2>3, <3>1 DEF Ctx1, AfterPlain, CR, EQ
    <2>5. /\ Emit(ctx, Here) = <<>> /\ Emit(Ctx1, Peek(1)) = <<Escaped(Peek(1))>>
          /\ Verdict(ctx, Here) = "NONE" /\ Verdict(Ctx1, Peek(1)) = "NONE"
      BY <2>1, <2>2, <2>4, EmitNothing, EmitTable, VerdictNone DEF Harmless, IsEscaped, LF, EQ, Y
    <2>6. out' = (out \o Emit(ctx, Here)) \o Emit(Ctx1, Peek(1))
      <3>1. out \o <<>> = out
        BY <1>2, ConcatEmptySeq DEF TypeOK
      <3>. QED BY <1>2, <1>5, <2>1, <2>5, <3>1, Appends
    <2>7. taken' = taken + 2 /\ ctx' = Goto(Ctx1, Peek(1))
      BY <2>2, <2>3 DEF Consumed, Ctx2
    <2>8. Stream!Consume2
      BY <1>2, <1>3, <2>3, <2>5, <2>6, <2>7, Consumes2
    <2>. QED BY <2>8 DEF Stream!Next
  <1>10. CASE SecondLastData \/ LastData
    BY <1>6, <1>10 DEF SecondLastData, LastData
  <1>11. CASE LastSpecial
    BY <1>6, <1>11 DEF LastSpecial
  <1>12. CASE Finish
    <2>1. taken' = taken /\ ctx' = ctx /\ out' = out
      BY <1>2, <1>12 DEF Finish, Consumed, NoWrite
    <2>. QED BY <1>2, <1>3, <2>1, Stutters
  <1>. QED
    BY <1>7, <1>8, <1>9, <1>10, <1>11, <1>12 DEF Final

\* do_decode_end_scalar implements the byte-by-byte stream of YencStream, for
\* every alphabet and every way of cutting the stream into chunks: what a call
\* writes, where it reports the end of the data and the state it stores depend
\* on the bytes alone.
THEOREM Refinement == Spec => ImplementsStream
  <1>1. Inv /\ Inv' /\ [Next]_vars => [Stream!Next]_Stream!vars
    <2>. SUFFICES ASSUME Inv, Inv', [Next]_vars PROVE [Stream!Next]_Stream!vars
      OBVIOUS
    <2>1. CASE UNCHANGED vars
      BY <2>1, Stutters DEF vars, call, hist
    <2>2. CASE Next
      BY <2>2, RefinesCaller, RefinesEnter, RefinesLoop, RefinesFinal DEF Next, Decode
    <2>. QED BY <2>1, <2>2
  <1>. QED
    BY <1>1, RefinesInit, Invariant, PTL DEF Spec, ImplementsStream, Stream!Spec

\* A call takes at most three steps for each byte of its chunk and two more,
\* for every chunk: the bytes left and the tests on the way fall together, whatever
\* the branches of the loop step back.
THEOREM EveryCallEnds == Spec => EveryStepGetsOn
  <1>1. Inv /\ Inv' /\ [Next]_vars =>
          [pc \notin {"idle", "done"} =>
             /\ Rem' >= 0
             /\ Rem' < Rem \/ (Rem' = Rem /\ Stage' < Stage)]_vars
    <2>. SUFFICES ASSUME Inv, Inv', Next, pc \notin {"idle", "done"}
                  PROVE  /\ Rem' >= 0
                         /\ Rem' < Rem \/ (Rem' = Rem /\ Stage' < Stage)
      OBVIOUS
    <2>1. Len(chunk) \in Nat /\ pos \in Nat /\ pc \in Label
      BY DEF Inv, TypeOK
    <2>2. Len(chunk') \in Nat /\ pos' \in 0..Len(chunk')
      BY DEF Inv, TypeOK
    <2>3. Rem' >= 0
      BY <2>2 DEF Rem
    <2>4. ASSUME chunk' = chunk, pos' \in Nat, pos' > pos PROVE Rem' < Rem
      BY <2>1, <2>4 DEF Rem
    <2>5. ASSUME chunk' = chunk, pos' = pos, Stage' < Stage
          PROVE  Rem' = Rem /\ Stage' < Stage
      BY <2>5 DEF Rem
    <2>6. CASE Enter
      <3>1. CASE EnterBreak
        <4>1. chunk' = chunk /\ pos' = pos /\ pc' = "loop"
          BY <3>1 DEF EnterBreak, GoOn
        <4>2. Stage' = 1 /\ Stage = 2
          BY <3>1, <4>1 DEF EnterBreak, Stage
        <4>. QED BY <2>3, <2>5, <4>1, <4>2
      <3>2. CASE ~EnterBreak
        <4>1. chunk' = chunk /\ pos' = pos + 1
          BY <2>6, <3>2 DEF Enter, EnterCeqEnd, EnterEq, EnterCr, EnterC0Dot, EnterC0Eq,
             EnterDtCr, EnterDtEq, EnterDtCrEnd, CheckEnd, GoOn, Return
        <4>. QED BY <2>1, <2>3, <2>4, <4>1
      <3>. QED BY <3>1, <3>2
    <2>7. CASE Loop
      <3>1. CASE LoopDotOther \/ LoopDotCrOther
        <4>1. chunk' = chunk /\ pos' = pos /\ pc' = "loop"
          BY <3>1 DEF LoopDotOther, LoopDotCrOther, GoOn
        <4>2. Stage' = 1 /\ Stage = 2
          BY <3>1, <4>1 DEF LoopDotOther, LoopDotCrOther, Stage
        <4>. QED BY <2>3, <2>5, <4>1, <4>2
      <3>2. CASE LoopEqEscape
        <4>1. chunk' = chunk /\ pos' \in {pos, pos + 1} /\ pc' = "loop"
          BY <3>2 DEF LoopEqEscape, GoOn
        <4>2. Stage' = 1 /\ Stage = 2
          BY <3>2, <4>1 DEF LoopEqEscape, Stage
        <4>. QED BY <2>1, <2>3, <2>4, <2>5, <4>1, <4>2
      <3>3. CASE ~(LoopDotOther \/ LoopDotCrOther \/ LoopEqEscape)
        <4>1. chunk' = chunk /\ pos' \in {pos + 1, pos + 2, pos + 3}
          BY <2>7, <3>3 DEF Loop, LoopData, LoopNewline, LoopEscape, LoopDot, LoopEq, LoopDotCr,
             LoopDotEq, LoopDotCrEnd, LoopEqEnd, CheckEnd, GoOn, Return
        <4>. QED BY <2>1, <2>3, <2>4, <4>1
      <3>. QED BY <3>1, <3>2, <3>3
    <2>8. CASE Final
      <3>1. CASE Finish
        <4>1. chunk' = chunk /\ pos' = pos /\ pc' = "done"
          BY <3>1 DEF Finish, Return
        <4>2. Stage' = 0 /\ Stage = 1
          BY <3>1, <4>1 DEF Finish, Stage
        <4>. QED BY <2>3, <2>5, <4>1, <4>2
      <3>2. CASE SecondLastCrLf
        <4>1. chunk' = chunk /\ pos' = Len(chunk) /\ Len(chunk) - pos = 2
          BY <3>2 DEF SecondLastCrLf, AtSecondLast, Return, Rem
        <4>. QED BY <2>1, <2>3, <2>4, <4>1
      <3>3. CASE ~(Finish \/ SecondLastCrLf)
        <4>1. chunk' = chunk /\ pos' \in {pos + 1, pos + 2}
          BY <2>8, <3>3 DEF Final, SecondLastNewline, SecondLastEscape, SecondLastData,
             LastData, LastSpecial, GoOn, Return
        <4>. QED BY <2>1, <2>3, <2>4, <4>1
      <3>. QED BY <3>1, <3>2, <3>3
    <2>. QED
      BY <2>6, <2>7, <2>8 DEF Next, Decode, Call, Collect
  <1>. QED
    BY <1>1, Invariant, PTL DEF Spec, EveryStepGetsOn

=============================================================================
