-------------------------- MODULE NodeDecodeProofs --------------------------
(***************************************************************************)
(* The text decodeChunk hands out (NodeDecode): an article fed in any      *)
(* pieces decodes as it would in one, and the text is what was read last.  *)
(* The automaton is finite; that a text of any length may be cut anywhere  *)
(* is by the lemmas of YencStreamProofs.                                   *)
(***************************************************************************)
EXTENDS NodeDecode, DataInduction

P == INSTANCE YencStreamProofs WITH
       Start <- "CRLF", To <- Goto, Yields <- Emit, Ends <- Verdict,
       chunk <- <<>>, at <- 0,
       decoded <- [ctx |-> "CRLF", out |-> <<>>, ended |-> "NONE"]

\* What t comes to, read from a context, and from where nothing is known.
Read(t, ctx) == Stream!After(t, ctx)
Whole(t)     == Read(t, "NONE")
OpenText(t)  == Whole(t).decoded.ended = "NONE"

Outcomes == [decoded : [ctx : State, out : Seq(Byte), ended : End], read : Nat]

\* A byte more.
More(r, c, n) ==
    IF r.decoded.ended # "NONE" THEN r
    ELSE [decoded |-> [ctx   |-> Goto(r.decoded.ctx, c),
                       out   |-> r.decoded.out \o Emit(r.decoded.ctx, c),
                       ended |-> Verdict(r.decoded.ctx, c)],
          read    |-> n]

-----------------------------------------------------------------------------
(* The automaton, and the lemmas on texts for it.                          *)

(* It stays among its contexts.                                            *)
LEMMA GotoType ==
    ASSUME NEW ctx \in State, NEW c \in Char PROVE Goto(ctx, c) \in State
<1>1. AfterPlain(c) \in State
  BY DEF AfterPlain, State
<1> HIDE DEF AfterPlain
<1> QED
  BY <1>1 DEF Goto, State

(* It yields bytes.                                                        *)
LEMMA EmitType ==
    ASSUME NEW ctx \in State, NEW c \in Char PROVE Emit(ctx, c) \in Seq(Byte)
<1>1. Plain(c) \in Byte /\ Escaped(c) \in Byte
  BY DEF Plain, Escaped, Byte
<1> QED
  BY <1>1 DEF Emit

(* It ends in one of three ways.                                           *)
LEMMA VerdictType ==
    ASSUME NEW ctx, NEW c PROVE Verdict(ctx, c) \in End
  BY DEF Verdict, End

(* What the lemmas on texts ask of an automaton.                           *)
LEMMA Automaton == P!Decodes(State, Char, Byte, End)
  BY GotoType, EmitType, VerdictType DEF P!Decodes, End

(* Their reading of a text is the one of the model,                        *)
LEMMA SameAfter == \A t, ctx : P!After(t, ctx) = Read(t, ctx)
  BY DEF P!After, Read, Stream!After, P!Fresh, Stream!Fresh, P!Eat, Stream!Eat

(* and so is what it comes to.                                             *)
LEMMA SameOutcomes == P!Outcome(State, Byte, End) = Outcomes
  BY DEF P!Outcome, Outcomes

(* What a text comes to, and that nothing after an end counts.             *)
LEMMA ReadType ==
    ASSUME NEW t \in Seq(Char), NEW ctx \in State
    PROVE  /\ Read(t, ctx) \in Outcomes
           /\ Read(t, ctx).read \in 0..Len(t)
           /\ Read(t, ctx).decoded.ended = "NONE" => Read(t, ctx).read = Len(t)
           /\ Read(SubSeq(t, 1, Read(t, ctx).read), ctx) = Read(t, ctx)
  BY Automaton, SameAfter, SameOutcomes, P!AfterType

(* An empty text changes nothing.                                          *)
LEMMA ReadNothing ==
    ASSUME NEW ctx \in State
    PROVE  Read(<<>>, ctx)
             = [decoded |-> [ctx |-> ctx, out |-> <<>>, ended |-> "NONE"], read |-> 0]
  BY Automaton, SameAfter, P!AfterEmpty DEF P!Beginning, P!Fresh

(* A text is read byte by byte.                                            *)
LEMMA ReadByte ==
    ASSUME NEW t \in Seq(Char), NEW c \in Char, NEW ctx \in State
    PROVE  Read(t \o <<c>>, ctx) = More(Read(t, ctx), c, Len(t) + 1)
<1>1. P!After(t \o <<c>>, ctx) = P!Onward(P!After(t, ctx), c, Len(t) + 1)
  BY Automaton, P!AfterByte
<1>2. \A r, n : P!Onward(r, c, n) = More(r, c, n)
  BY DEF P!Onward, P!Eat, More
<1> QED
  BY <1>1, <1>2, SameAfter

(* A text may be cut anywhere.                                             *)
LEMMA ReadConcat ==
    ASSUME NEW s \in Seq(Char), NEW t \in Seq(Char), NEW ctx \in State,
           Read(s, ctx).decoded.ended = "NONE"
    PROVE  LET a == Read(s, ctx)
               b == Read(t, a.decoded.ctx)
           IN  Read(s \o t, ctx)
                 = [decoded |-> [ctx   |-> b.decoded.ctx,
                                 out   |-> a.decoded.out \o b.decoded.out,
                                 ended |-> b.decoded.ended],
                    read    |-> Len(s) + b.read]
<1>1. P!After(s, ctx) = Read(s, ctx) /\ P!After(s \o t, ctx) = Read(s \o t, ctx)
  BY SameAfter
<1> DEFINE a == Read(s, ctx)
<1>2. P!After(t, a.decoded.ctx) = Read(t, a.decoded.ctx)
  BY SameAfter
<1>3. P!After(s \o t, ctx)
        = IF P!After(s, ctx).decoded.ended # "NONE" THEN P!After(s, ctx)
          ELSE P!Both(P!After(s, ctx), Len(s), P!After(t, P!After(s, ctx).decoded.ctx))
  BY Automaton, P!AfterConcat
<1>4. Read(s \o t, ctx) = P!Both(a, Len(s), Read(t, a.decoded.ctx))
  BY <1>1, <1>2, <1>3
<1> HIDE DEF a
<1> QED
  BY <1>4 DEF P!Both, a

-----------------------------------------------------------------------------
(* What a text ends in.                                                    *)

(* The last bytes of a text are a text, and what it ends in.               *)
LEMMA LastOfIs ==
    ASSUME NEW S, NEW s \in Seq(S), NEW n \in Nat
    PROVE  /\ LastOf(s, n) \in Seq(S)
           /\ Len(LastOf(s, n)) = IF Len(s) <= n THEN Len(s) ELSE n
           /\ Len(s) <= n => LastOf(s, n) = s
<1>1. CASE Len(s) <= n
  BY <1>1 DEF LastOf
<1>2. CASE ~(Len(s) <= n)
  <2>1. Len(s) - n + 1 \in Int /\ Len(s) \in Int
        /\ \A i \in (Len(s) - n + 1)..Len(s) : s[i] \in S
    BY <1>2
  <2>2. /\ SubSeq(s, Len(s) - n + 1, Len(s)) \in Seq(S)
        /\ Len(SubSeq(s, Len(s) - n + 1, Len(s)))
             = IF Len(s) - n + 1 <= Len(s) THEN Len(s) - (Len(s) - n + 1) + 1 ELSE 0
    BY <2>1, SubSeqProperties
  <2> QED
    BY <1>2, <2>2 DEF LastOf
<1> QED
  BY <1>1, <1>2

(* After any text, a text is what both end in.                             *)
LEMMA ConcatEndsIn ==
    ASSUME NEW S, NEW p \in Seq(S), NEW t \in Seq(S) PROVE EndsIn(p \o t, t)
<1> DEFINE s == p \o t
           n == Len(t)
<1>1. s \in Seq(S) /\ Len(s) = Len(p) + n /\ n \in Nat /\ Len(p) \in Nat
  BY ConcatProperties
<1>2. LastOf(s, n) = t
  <2>1. LastOf(s, n) \in Seq(S) /\ Len(LastOf(s, n)) = n
    <3> HIDE DEF s
    <3> QED
      BY <1>1, LastOfIs
  <2>2. ASSUME NEW i \in 1..n PROVE LastOf(s, n)[i] = t[i]
    <3>1. s[Len(p) + i] = t[i]
      BY <1>1, ConcatProperties
    <3>2. CASE Len(p) = 0
      <4>1. LastOf(s, n) = s
        BY <1>1, <3>2 DEF LastOf
      <4> QED
        BY <1>1, <3>1, <3>2, <4>1
    <3>3. CASE Len(p) # 0
      <4>1. LastOf(s, n) = SubSeq(s, Len(p) + 1, Len(s))
        <5>1. ~(Len(s) <= n) /\ Len(s) - n + 1 = Len(p) + 1
          BY <1>1, <3>3
        <5> HIDE DEF s, n
        <5> QED
          BY <5>1 DEF LastOf
      <4>2. SubSeq(s, Len(p) + 1, Len(s))[i] = s[Len(p) + 1 + i - 1]
        <5>1. Len(p) + 1 \in Int /\ Len(s) \in Int /\ i \in 1..(Len(s) - (Len(p) + 1) + 1)
              /\ \A j \in (Len(p) + 1)..Len(s) : s[j] \in S
          BY <1>1
        <5> HIDE DEF s
        <5> QED
          BY <5>1, SubSeqProperties
      <4>3. Len(p) + 1 + i - 1 = Len(p) + i
        BY <1>1
      <4> QED
        BY <3>1, <4>1, <4>2, <4>3
    <3> QED
      BY <3>2, <3>3
  <2> HIDE DEF s
  <2> QED
    BY <2>1, <2>2, SeqEqual
<1> QED
  BY <1>1, <1>2 DEF EndsIn

(* What is before the end of a text is a text.                             *)
LEMMA EndsInParts ==
    ASSUME NEW S, NEW s \in Seq(S), NEW t \in Seq(S), EndsIn(s, t)
    PROVE  \E p \in Seq(S) : s = p \o t
<1> DEFINE n == Len(t)
<1>1. LastOf(s, n) = t /\ n <= Len(s) /\ Len(s) \in Nat /\ t \in Seq(S)
  BY LastOfIs DEF EndsIn
<1>2. CASE Len(s) <= n
  <2>1. s = t
    BY <1>1, <1>2, LastOfIs
  <2>2. <<>> \in Seq(S) /\ <<>> \o t = t
    BY <1>1, EmptySeq, ConcatEmptySeq, SMTT(60)
  <2> QED
    BY <1>1, <2>1, <2>2
<1>3. CASE ~(Len(s) <= n)
  <2> DEFINE m == Len(s) - n
  <2>1. t = SubSeq(s, m + 1, Len(s))
    BY <1>1, <1>3 DEF LastOf
  <2>2. 1 \in 1..Len(s) + 1 /\ m \in 1 - 1..Len(s) /\ Len(s) \in m..Len(s)
    BY <1>1, <1>3
  <2>3. SubSeq(s, 1, m) \o SubSeq(s, m + 1, Len(s)) = SubSeq(s, 1, Len(s))
    <3> HIDE DEF m
    <3> QED
      BY <2>2, ConcatAdjacentSubSeq
  <2>4. SubSeq(s, 1, m) \in Seq(S)
    <3>1. 1 \in Int /\ m \in Int /\ \A i \in 1..m : s[i] \in S
      BY <1>1, <1>3
    <3> HIDE DEF m
    <3> QED
      BY <3>1, SubSeqProperties
  <2>5. SubSeq(s, 1, Len(s)) = s
    BY SubSeqFull
  <2> QED
    BY <1>1, <2>1, <2>3, <2>4, <2>5
<1> QED
  BY <1>2, <1>3

(* The end of an end, with any text before it.                             *)
LEMMA EndsInThrough ==
    ASSUME NEW S, NEW p \in Seq(S), NEW s \in Seq(S), NEW t \in Seq(S), EndsIn(s, t)
    PROVE  EndsIn(p \o s, t)
<1>1. PICK q \in Seq(S) : s = q \o t
  BY EndsInParts
<1>2. t \in Seq(S)
  OBVIOUS
<1>3. p \o (q \o t) = (p \o q) \o t
  BY <1>2, ConcatAssociative, SMTT(60)
<1>4. p \o q \in Seq(S)
  BY ConcatProperties
<1> QED
  BY <1>1, <1>2, <1>3, <1>4, ConcatEndsIn

(* A byte more of a text is one of what it ends in.                        *)
LEMMA EndsInByte ==
    ASSUME NEW S, NEW s \in Seq(S), NEW t \in Seq(S), EndsIn(s, t), NEW c \in S
    PROVE  EndsIn(s \o <<c>>, t \o <<c>>)
<1>1. PICK q \in Seq(S) : s = q \o t
  BY EndsInParts
<1>2. t \in Seq(S) /\ <<c>> \in Seq(S)
  OBVIOUS
<1>3. (q \o t) \o <<c>> = q \o (t \o <<c>>)
  BY <1>2, ConcatAssociative
<1>4. t \o <<c>> \in Seq(S)
  BY <1>2, ConcatProperties
<1> QED
  BY <1>1, <1>3, <1>4, ConcatEndsIn

-----------------------------------------------------------------------------
(* The context, and the last bytes.                                        *)

(* Which contexts lead to a context, and by which byte.                    *)
LEMMA GotoFrom ==
    ASSUME NEW ctx \in State, NEW c \in Char
    PROVE  /\ Goto(ctx, c) = "CR" => c = CR
           /\ Goto(ctx, c) = "EQ" => c = EQ
           /\ Goto(ctx, c) = "CRLF" => c = LF /\ (ctx = "CR" \/ ctx = "CRLFDTCR")
           /\ Goto(ctx, c) = "CRLFDT" => c = DOT /\ ctx = "CRLF"
           /\ Goto(ctx, c) = "CRLFDTCR" => c = CR /\ ctx = "CRLFDT"
           /\ Goto(ctx, c) = "CRLFEQ" => c = EQ /\ (ctx = "CRLF" \/ ctx = "CRLFDT")
<1> DEFINE a == AfterPlain(c)
<1>1. (a = "CR" /\ c = CR) \/ (a = "EQ" /\ c = EQ) \/ a = "NONE"
  BY DEF AfterPlain
<1> HIDE DEF a
<1> QED
  BY <1>1 DEF Goto, IsStuffing, State, a

\* The text of the context, but for the dot of "\r\n.=".
Shows(t, ctx) == \/ EndsIn(t, decodePrev[ctx])
                 \/ ctx = "CRLFEQ" /\ EndsIn(t, <<CR, LF, DOT, EQ>>)

\* What StateText promises of a text that came to a context and an end.
Tells(t, ctx, ended) ==
    /\ ended = "NONE" => Shows(t, ctx)
    /\ ended = "CONTROL" => EndsIn(t, <<CR, LF, EQ, Y>>) \/ EndsIn(t, <<CR, LF, DOT, EQ, Y>>)
    /\ ended = "ARTICLE" => EndsIn(t, <<CR, LF, DOT, CR, LF>>)

(* The five bytes the decoder knows are characters.                        *)
LEMMA Bytes == CR \in Char /\ LF \in Char /\ DOT \in Char /\ EQ \in Char /\ Y \in Char
  BY DEF Char, Special

(* One text is another and a byte.                                         *)
LEMMA ByteMore ==
    ASSUME NEW S, NEW s \in Seq(S), NEW c \in S, NEW u \in Seq(S), Len(u) = Len(s) + 1,
           \A i \in 1..Len(s) : u[i] = s[i], u[Len(s) + 1] = c
    PROVE  s \o <<c>> = u
<1>1. <<c>> \in Seq(S) /\ Len(s) \in Nat
  OBVIOUS
<1>2. s \o <<c>> \in Seq(S) /\ Len(s \o <<c>>) = Len(u)
  BY <1>1, ConcatProperties
<1>3. ASSUME NEW i \in 1..Len(u) PROVE (s \o <<c>>)[i] = u[i]
  BY <1>1
<1> QED
  BY <1>2, <1>3, SeqEqual

(* Two to five bytes.                                                      *)
LEMMA Tuples ==
    /\ \A a, b \in Char : <<a>> \o <<b>> = <<a, b>>
    /\ \A a, b, c \in Char : <<a, b>> \o <<c>> = <<a, b, c>>
    /\ \A a, b, c, d \in Char : <<a, b, c>> \o <<d>> = <<a, b, c, d>>
    /\ \A a, b, c, d, e \in Char : <<a, b, c, d>> \o <<e>> = <<a, b, c, d, e>>
<1>1. ASSUME NEW a \in Char, NEW b \in Char PROVE <<a>> \o <<b>> = <<a, b>>
  <2> DEFINE s == <<a>>
             u == <<a, b>>
  <2>1. /\ s \in Seq(Char) /\ u \in Seq(Char) /\ Len(u) = Len(s) + 1
        /\ \A i \in 1..Len(s) : u[i] = s[i]
        /\ u[Len(s) + 1] = b
    OBVIOUS
  <2> HIDE DEF s, u
  <2>2. s \o <<b>> = u
    BY <2>1, ByteMore
  <2> QED
    BY <2>2 DEF s, u
<1>2. ASSUME NEW a \in Char, NEW b \in Char, NEW c \in Char
      PROVE  <<a, b>> \o <<c>> = <<a, b, c>>
  <2> DEFINE s == <<a, b>>
             u == <<a, b, c>>
  <2>1. /\ s \in Seq(Char) /\ u \in Seq(Char) /\ Len(u) = Len(s) + 1
        /\ \A i \in 1..Len(s) : u[i] = s[i]
        /\ u[Len(s) + 1] = c
    OBVIOUS
  <2> HIDE DEF s, u
  <2>2. s \o <<c>> = u
    BY <2>1, ByteMore
  <2> QED
    BY <2>2 DEF s, u
<1>3. ASSUME NEW a \in Char, NEW b \in Char, NEW c \in Char, NEW d \in Char
      PROVE  <<a, b, c>> \o <<d>> = <<a, b, c, d>>
  <2> DEFINE s == <<a, b, c>>
             u == <<a, b, c, d>>
  <2>1. /\ s \in Seq(Char) /\ u \in Seq(Char) /\ Len(u) = Len(s) + 1
        /\ \A i \in 1..Len(s) : u[i] = s[i]
        /\ u[Len(s) + 1] = d
    OBVIOUS
  <2> HIDE DEF s, u
  <2>2. s \o <<d>> = u
    BY <2>1, ByteMore
  <2> QED
    BY <2>2 DEF s, u
<1>4. ASSUME NEW a \in Char, NEW b \in Char, NEW c \in Char, NEW d \in Char,
             NEW e \in Char
      PROVE  <<a, b, c, d>> \o <<e>> = <<a, b, c, d, e>>
  <2> DEFINE s == <<a, b, c, d>>
             u == <<a, b, c, d, e>>
  <2>1. /\ s \in Seq(Char) /\ u \in Seq(Char) /\ Len(u) = Len(s) + 1
        /\ \A i \in 1..Len(s) : u[i] = s[i]
        /\ u[Len(s) + 1] = e
    OBVIOUS
  <2> HIDE DEF s, u
  <2>2. s \o <<e>> = u
    BY <2>1, ByteMore
  <2> QED
    BY <2>2 DEF s, u
<1> QED
  BY <1>1, <1>2, <1>3, <1>4

(* A text and a byte more end in what the text ends in, and the byte.      *)
LEMMA Longer ==
    /\ <<CR>> \o <<LF>> = <<CR, LF>>
    /\ <<CR, LF>> \o <<DOT>> = <<CR, LF, DOT>>
    /\ <<CR, LF>> \o <<EQ>> = <<CR, LF, EQ>>
    /\ <<CR, LF, DOT>> \o <<CR>> = <<CR, LF, DOT, CR>>
    /\ <<CR, LF, DOT>> \o <<EQ>> = <<CR, LF, DOT, EQ>>
    /\ <<CR, LF, EQ>> \o <<Y>> = <<CR, LF, EQ, Y>>
    /\ <<CR, LF, DOT, EQ>> \o <<Y>> = <<CR, LF, DOT, EQ, Y>>
    /\ <<CR, LF, DOT, CR>> \o <<LF>> = <<CR, LF, DOT, CR, LF>>
  BY Bytes, Tuples

(* A text is one of at most four bytes, or it has a byte before them.      *)
LEMMA Texts4 ==
    /\ <<>> \in Seq(Char) /\ <<CR>> \in Seq(Char) /\ <<EQ>> \in Seq(Char)
    /\ <<CR, LF>> \in Seq(Char) /\ <<CR, LF, DOT>> \in Seq(Char)
    /\ <<CR, LF, EQ>> \in Seq(Char) /\ <<CR, LF, DOT, CR>> \in Seq(Char)
    /\ <<CR, LF, DOT, EQ>> \in Seq(Char) /\ <<CR, LF, EQ, Y>> \in Seq(Char)
    /\ <<CR, LF, DOT, CR, LF>> \in Seq(Char) /\ <<CR, LF, DOT, EQ, Y>> \in Seq(Char)
  BY Bytes

(* The table of texts, written out.                                        *)
LEMMA decodePrevIs ==
    /\ decodePrev["NONE"] = <<>> /\ decodePrev["CR"] = <<CR>> /\ decodePrev["EQ"] = <<EQ>>
    /\ decodePrev["CRLF"] = <<CR, LF>> /\ decodePrev["CRLFDT"] = <<CR, LF, DOT>>
    /\ decodePrev["CRLFDTCR"] = <<CR, LF, DOT, CR>> /\ decodePrev["CRLFEQ"] = <<CR, LF, EQ>>
  BY DEF decodePrev

(* What a byte more makes of the last bytes.                               *)
LEMMA ShowsByte ==
    ASSUME NEW t \in Seq(Char), NEW ctx \in State, NEW c \in Char, Shows(t, ctx)
    PROVE  Tells(t \o <<c>>, Goto(ctx, c), Verdict(ctx, c))
<1> DEFINE u == t \o <<c>>
           g == Goto(ctx, c)
<1>1. u \in Seq(Char) /\ EndsIn(u, <<c>>) /\ EndsIn(u, <<>>)
  <2>1. <<c>> \in Seq(Char) /\ <<>> \in Seq(Char)
    BY Texts4
  <2>2. u \in Seq(Char) /\ EndsIn(u, <<c>>)
    BY <2>1, ConcatProperties, ConcatEndsIn
  <2> HIDE DEF u
  <2>3. u \o <<>> = u
    BY <2>2, ConcatEmptySeq
  <2>4. EndsIn(u \o <<>>, <<>>)
    BY <2>1, <2>2, ConcatEndsIn
  <2> QED
    BY <2>2, <2>3, <2>4
<1>2. \A s \in Seq(Char) : EndsIn(t, s) => EndsIn(u, s \o <<c>>)
  BY EndsInByte
<1> HIDE DEF u
<1>3. ASSUME Verdict(ctx, c) = "CONTROL"
      PROVE  EndsIn(u, <<CR, LF, EQ, Y>>) \/ EndsIn(u, <<CR, LF, DOT, EQ, Y>>)
  <2>1. ctx = "CRLFEQ" /\ c = Y
    BY <1>3 DEF Verdict, EndsData, Y, LF
  <2>2. EndsIn(t, <<CR, LF, EQ>>) \/ EndsIn(t, <<CR, LF, DOT, EQ>>)
    BY <2>1, decodePrevIs DEF Shows
  <2> QED
    BY <1>2, <2>1, <2>2, Texts4, Longer
<1>4. ASSUME Verdict(ctx, c) = "ARTICLE"
      PROVE  EndsIn(u, <<CR, LF, DOT, CR, LF>>)
  <2>1. ctx = "CRLFDTCR" /\ c = LF
    BY <1>4 DEF Verdict, EndsData
  <2>2. EndsIn(t, <<CR, LF, DOT, CR>>)
    BY <2>1, decodePrevIs DEF Shows
  <2> QED
    BY <1>2, <2>1, <2>2, Texts4, Longer
<1>5. ASSUME Verdict(ctx, c) = "NONE" PROVE Shows(u, g)
  <2>1. ~ (ctx = "CRLFDTCR" /\ c = LF)
    BY <1>5 DEF Verdict, EndsData
  <2>2. g \in State
    BY GotoType
  <2>3. /\ g = "CR" => c = CR
        /\ g = "EQ" => c = EQ
        /\ g = "CRLF" => c = LF /\ ctx = "CR"
        /\ g = "CRLFDT" => c = DOT /\ ctx = "CRLF"
        /\ g = "CRLFDTCR" => c = CR /\ ctx = "CRLFDT"
        /\ g = "CRLFEQ" => c = EQ /\ (ctx = "CRLF" \/ ctx = "CRLFDT")
    BY <2>1, GotoFrom
  <2>4. /\ ctx = "CR" => EndsIn(t, <<CR>>)
        /\ ctx = "CRLF" => EndsIn(t, <<CR, LF>>)
        /\ ctx = "CRLFDT" => EndsIn(t, <<CR, LF, DOT>>)
    BY decodePrevIs DEF Shows
  <2> HIDE DEF g
  <2>5. CASE g = "NONE"
    BY <1>1, <2>5, decodePrevIs DEF Shows
  <2>6. CASE g = "CR"
    BY <1>1, <2>3, <2>6, decodePrevIs DEF Shows
  <2>7. CASE g = "EQ"
    BY <1>1, <2>3, <2>7, decodePrevIs DEF Shows
  <2>8. CASE g = "CRLF"
    BY <1>2, <2>3, <2>4, <2>8, decodePrevIs, Texts4, Longer DEF Shows
  <2>9. CASE g = "CRLFDT"
    BY <1>2, <2>3, <2>4, <2>9, decodePrevIs, Texts4, Longer DEF Shows
  <2>10. CASE g = "CRLFDTCR"
    BY <1>2, <2>3, <2>4, <2>10, decodePrevIs, Texts4, Longer DEF Shows
  <2>11. CASE g = "CRLFEQ"
    BY <1>2, <2>3, <2>4, <2>11, decodePrevIs, Texts4, Longer DEF Shows
  <2> QED
    BY <2>2, <2>5, <2>6, <2>7, <2>8, <2>9, <2>10, <2>11 DEF State
<1> QED
  BY <1>3, <1>4, <1>5 DEF Tells, u

(* Whatever a text of any length came to, unless it goes on after an end.  *)
LEMMA TellsWhole ==
    ASSUME NEW t \in Seq(Char), Whole(t).read = Len(t)
    PROVE  Tells(t, Whole(t).decoded.ctx, Whole(t).decoded.ended)
<1> DEFINE Told(s) == Whole(s).read = Len(s)
                        => Tells(s, Whole(s).decoded.ctx, Whole(s).decoded.ended)
           G == {s \in Seq(Char) : Told(s)}
<1>0. "NONE" \in State
  BY DEF State
<1>1. <<>> \in G
  <2>1. Whole(<<>>).decoded.ctx = "NONE" /\ Whole(<<>>).decoded.ended = "NONE"
    BY <1>0, ReadNothing DEF Whole
  <2>2. EndsIn(<<>>, <<>>)
    BY DEF EndsIn, LastOf
  <2>3. Tells(<<>>, "NONE", "NONE")
    BY <2>2, decodePrevIs DEF Tells, Shows
  <2> QED
    BY <2>1, <2>3, Texts4
<1>2. ASSUME NEW s \in Seq(Char), NEW c \in Char, s \in G PROVE s \o <<c>> \in G
  <2> DEFINE r == Whole(s)
             u == s \o <<c>>
  <2>1. u \in Seq(Char) /\ Len(u) = Len(s) + 1 /\ Len(s) \in Nat
    OBVIOUS
  <2>2. Whole(u) = More(r, c, Len(s) + 1)
    BY <1>0, ReadByte DEF Whole
  <2>3. r \in Outcomes /\ r.read \in 0..Len(s) /\ (r.decoded.ended = "NONE" => r.read = Len(s))
    BY <1>0, ReadType DEF Whole
  <2>4. Told(s)
    BY <1>2
  <2> HIDE DEF u, r
  <2>5. CASE r.decoded.ended # "NONE"
    <3>1. Whole(u) = r
      BY <2>2, <2>5 DEF More
    <3>2. Whole(u).read # Len(u)
      BY <2>1, <2>3, <3>1
    <3> QED
      BY <2>1, <3>2 DEF u
  <2>6. CASE r.decoded.ended = "NONE"
    <3> DEFINE ctx == r.decoded.ctx
    <3>1. ctx \in State
      BY <2>3 DEF Outcomes
    <3>2. Shows(s, ctx)
      BY <2>3, <2>4, <2>6 DEF Tells, r
    <3>3. Tells(u, Goto(ctx, c), Verdict(ctx, c))
      <4> HIDE DEF ctx
      <4> QED
        BY <3>1, <3>2, ShowsByte DEF u
    <3>4. Whole(u).decoded.ctx = Goto(ctx, c) /\ Whole(u).decoded.ended = Verdict(ctx, c)
      BY <2>2, <2>6 DEF More
    <3>5. Told(u)
      <4> HIDE DEF ctx
      <4> QED
        BY <3>3, <3>4
    <3> HIDE DEF Told
    <3> QED
      BY <2>1, <3>5 DEF u
  <2> QED
    BY <2>5, <2>6
<1>3. Seq(Char) \subseteq G
  <2> HIDE DEF G
  <2> QED
    BY <1>1, <1>2, TextInduction
<1>4. t \in G
  <2> HIDE DEF G
  <2> QED
    BY <1>3
<1> QED
  BY <1>4

-----------------------------------------------------------------------------
(* The text, and the state it is taken for.                                *)

(* A byte more of a text that has no end in it.                            *)
LEMMA MeaningByte ==
    ASSUME NEW t \in Seq(Char), NEW c \in Char, OpenText(t)
    PROVE  /\ Meaning(t) \in State
           /\ OpenText(t \o <<c>>) <=> Verdict(Meaning(t), c) = "NONE"
           /\ Meaning(t \o <<c>>) = Goto(Meaning(t), c)
<1>1. "NONE" \in State
  BY DEF State
<1>2. Whole(t \o <<c>>) = More(Whole(t), c, Len(t) + 1)
  BY <1>1, ReadByte DEF Whole
<1>3. Whole(t) \in Outcomes
  BY <1>1, ReadType DEF Whole
<1>4. Meaning(t) = Whole(t).decoded.ctx /\ Meaning(t \o <<c>>) = Whole(t \o <<c>>).decoded.ctx
  BY DEF Meaning, Whole, Read
<1>5. Whole(t).decoded.ended = "NONE"
  BY DEF OpenText
<1>6. /\ Whole(t \o <<c>>).decoded.ctx = Goto(Whole(t).decoded.ctx, c)
      /\ Whole(t \o <<c>>).decoded.ended = Verdict(Whole(t).decoded.ctx, c)
  BY <1>2, <1>5 DEF More
<1>7. Whole(t).decoded.ctx \in State
  BY <1>3 DEF Outcomes
<1> QED
  BY <1>4, <1>6, <1>7 DEF OpenText

(* A text with an end in it has it in every longer one.                    *)
LEMMA OpenPrefix ==
    ASSUME NEW t \in Seq(Char), NEW c \in Char, OpenText(t \o <<c>>)
    PROVE  OpenText(t)
<1>1. "NONE" \in State
  BY DEF State
<1>2. Whole(t \o <<c>>) = More(Whole(t), c, Len(t) + 1)
  BY <1>1, ReadByte DEF Whole
<1> QED
  BY <1>2 DEF More, OpenText

(* Where nothing is known, the context is NONE.                            *)
LEMMA MeaningNothing == OpenText(<<>>) /\ Meaning(<<>>) = "NONE"
<1>1. "NONE" \in State
  BY DEF State
<1>2. Read(<<>>, "NONE").decoded.ctx = "NONE" /\ Read(<<>>, "NONE").decoded.ended = "NONE"
  BY <1>1, ReadNothing
<1> QED
  BY <1>2 DEF OpenText, Whole, Meaning, Read

(* Where a line end and the two bytes after it lead, from every context.   *)
LEMMA Paths ==
    /\ \A s \in State : Goto(s, CR) = "CR" \/ Goto(s, CR) = "CRLFDTCR"
    /\ Goto("CR", LF) = "CRLF" /\ Goto("CRLFDTCR", LF) = "CRLF"
    /\ Goto("CRLF", DOT) = "CRLFDT" /\ Goto("CRLF", EQ) = "CRLFEQ"
    /\ Goto("CRLFDT", CR) = "CRLFDTCR" /\ Goto("CRLFDT", EQ) = "CRLFEQ"
    /\ Goto("NONE", CR) = "CR" /\ Goto("NONE", EQ) = "EQ"
    /\ Goto("CR", CR) = "CR" /\ Goto("EQ", CR) = "CR"
<1>1. CR # LF /\ CR # DOT /\ CR # EQ /\ CR # Y /\ LF # DOT /\ LF # EQ /\ LF # Y /\ DOT # EQ
      /\ DOT # Y /\ EQ # Y
  BY DEF CR, LF, DOT, EQ, Y
<1>2. AfterPlain(CR) = "CR" /\ AfterPlain(EQ) = "EQ"
  BY <1>1 DEF AfterPlain
<1>3. ASSUME NEW s \in State PROVE Goto(s, CR) = "CR" \/ Goto(s, CR) = "CRLFDTCR"
  <2>1. CASE s = "EQ" \/ s = "CRLFEQ"
    BY <1>1, <2>1 DEF Goto, IsEscaped, IsStuffing
  <2>2. CASE s = "CRLFDT"
    BY <1>1, <2>2 DEF Goto, IsEscaped, IsStuffing
  <2>3. CASE s \in {"CRLF", "CR", "NONE", "CRLFDTCR"}
    BY <1>1, <1>2, <2>3 DEF Goto, IsEscaped, IsStuffing
  <2> QED
    BY <2>1, <2>2, <2>3 DEF State
<1>4. Goto("CR", LF) = "CRLF" /\ Goto("CRLFDTCR", LF) = "CRLF"
  BY <1>1 DEF Goto, IsEscaped, IsStuffing
<1>5. Goto("CRLF", DOT) = "CRLFDT" /\ Goto("CRLF", EQ) = "CRLFEQ"
  BY <1>1 DEF Goto, IsEscaped, IsStuffing
<1>6. Goto("CRLFDT", CR) = "CRLFDTCR" /\ Goto("CRLFDT", EQ) = "CRLFEQ"
  BY <1>1 DEF Goto, IsEscaped, IsStuffing
<1>7. Goto("NONE", CR) = "CR" /\ Goto("NONE", EQ) = "EQ"
  BY <1>1, <1>2 DEF Goto, IsEscaped, IsStuffing
<1>8. Goto("CR", CR) = "CR" /\ Goto("EQ", CR) = "CR"
  BY <1>1, <1>2 DEF Goto, IsEscaped, IsStuffing
<1> QED
  BY <1>3, <1>4, <1>5, <1>6, <1>7, <1>8

(* The text before the last byte of what a text ends in.                   *)
LEMMA MeaningBefore ==
    ASSUME NEW s \in Seq(Char), OpenText(s), NEW u \in Seq(Char), NEW c \in Char,
           EndsIn(s, u \o <<c>>)
    PROVE  \E q \in Seq(Char) : /\ EndsIn(q, u) /\ OpenText(q) /\ Meaning(q) \in State
                                /\ Meaning(s) = Goto(Meaning(q), c)
<1> DEFINE v == u \o <<c>>
<1>1. v \in Seq(Char) /\ <<c>> \in Seq(Char)
  OBVIOUS
<1>2. PICK p \in Seq(Char) : s = p \o v
  <2> HIDE DEF v
  <2>1. EndsIn(s, v)
    BY DEF v
  <2> QED
    BY <1>1, <2>1, EndsInParts
<1>3. (p \o u) \o <<c>> = p \o (u \o <<c>>)
  BY <1>1, ConcatAssociative, SMTT(60)
<1> DEFINE q == p \o u
<1>4. q \in Seq(Char) /\ EndsIn(q, u)
  BY ConcatProperties, ConcatEndsIn
<1>5. s = q \o <<c>>
  BY <1>2, <1>3
<1> HIDE DEF q
<1>6. OpenText(q)
  BY <1>4, <1>5, OpenPrefix
<1> QED
  BY <1>4, <1>5, <1>6, MeaningByte

(* The context of a text, by what it ends in.                              *)
LEMMA MeaningOfEnd ==
    ASSUME NEW t \in Seq(Char), OpenText(t)
    PROVE  /\ EndsIn(t, <<CR, LF>>) => Meaning(t) = "CRLF"
           /\ EndsIn(t, <<CR, LF, DOT>>) => Meaning(t) = "CRLFDT"
           /\ EndsIn(t, <<CR, LF, EQ>>) => Meaning(t) = "CRLFEQ"
           /\ EndsIn(t, <<CR, LF, DOT, CR>>) => Meaning(t) = "CRLFDTCR"
           /\ EndsIn(t, <<CR, LF, DOT, EQ>>) => Meaning(t) = "CRLFEQ"
<1> DEFINE Of(s, q, c) == OpenText(q) /\ Meaning(q) \in State /\ Meaning(s) = Goto(Meaning(q), c)
<1>3. ASSUME NEW s \in Seq(Char), OpenText(s), EndsIn(s, <<CR, LF>>) PROVE Meaning(s) = "CRLF"
  <2>1. EndsIn(s, <<CR>> \o <<LF>>) /\ <<CR>> \in Seq(Char) /\ LF \in Char
    BY <1>3, Bytes, Texts4, Longer
  <2>2. PICK q \in Seq(Char) : EndsIn(q, <<CR>>) /\ Of(s, q, LF)
    BY <1>3, <2>1, MeaningBefore
  <2>3. EndsIn(q, <<>> \o <<CR>>) /\ <<>> \in Seq(Char) /\ CR \in Char
    BY <2>2, Bytes, Texts4, ConcatEmptySeq
  <2>4. PICK p \in Seq(Char) : Of(q, p, CR)
    BY <2>2, <2>3, MeaningBefore
  <2> QED
    BY <2>2, <2>4, Paths
<1>4. ASSUME NEW s \in Seq(Char), OpenText(s), EndsIn(s, <<CR, LF, DOT>>)
      PROVE  Meaning(s) = "CRLFDT"
  <2>1. EndsIn(s, <<CR, LF>> \o <<DOT>>) /\ <<CR, LF>> \in Seq(Char) /\ DOT \in Char
    BY <1>4, Bytes, Texts4, Longer
  <2>2. PICK q \in Seq(Char) : EndsIn(q, <<CR, LF>>) /\ Of(s, q, DOT)
    BY <1>4, <2>1, MeaningBefore
  <2>3. Meaning(q) = "CRLF"
    BY <1>3, <2>2
  <2> QED
    BY <2>2, <2>3, Paths
<1>5. ASSUME EndsIn(t, <<CR, LF, EQ>>)
      PROVE  Meaning(t) = "CRLFEQ"
  <2>1. EndsIn(t, <<CR, LF>> \o <<EQ>>) /\ <<CR, LF>> \in Seq(Char) /\ EQ \in Char
    BY <1>5, Bytes, Texts4, Longer
  <2>2. PICK q \in Seq(Char) : EndsIn(q, <<CR, LF>>) /\ Of(t, q, EQ)
    BY <1>5, <2>1, MeaningBefore
  <2>3. Meaning(q) = "CRLF"
    BY <1>3, <2>2
  <2> QED
    BY <2>2, <2>3, Paths
<1>6. ASSUME EndsIn(t, <<CR, LF, DOT, CR>>)
      PROVE  Meaning(t) = "CRLFDTCR"
  <2>1. EndsIn(t, <<CR, LF, DOT>> \o <<CR>>) /\ <<CR, LF, DOT>> \in Seq(Char) /\ CR \in Char
    BY <1>6, Bytes, Texts4, Longer
  <2>2. PICK q \in Seq(Char) : EndsIn(q, <<CR, LF, DOT>>) /\ Of(t, q, CR)
    BY <1>6, <2>1, MeaningBefore
  <2>3. Meaning(q) = "CRLFDT"
    BY <1>4, <2>2
  <2> QED
    BY <2>2, <2>3, Paths
<1>7. ASSUME EndsIn(t, <<CR, LF, DOT, EQ>>)
      PROVE  Meaning(t) = "CRLFEQ"
  <2>1. EndsIn(t, <<CR, LF, DOT>> \o <<EQ>>) /\ <<CR, LF, DOT>> \in Seq(Char) /\ EQ \in Char
    BY <1>7, Bytes, Texts4, Longer
  <2>2. PICK q \in Seq(Char) : EndsIn(q, <<CR, LF, DOT>>) /\ Of(t, q, EQ)
    BY <1>7, <2>1, MeaningBefore
  <2>3. Meaning(q) = "CRLFDT"
    BY <1>4, <2>2
  <2> QED
    BY <2>2, <2>3, Paths
<1> QED
  BY <1>3, <1>4, <1>5, <1>6, <1>7

(* A byte more of a text that means m.                                     *)
LEMMA MeaningLonger ==
    ASSUME NEW t \in Seq(Char), NEW c \in Char, NEW u, u = t \o <<c>>,
           OpenText(t), NEW m, Meaning(t) = m, Verdict(m, c) = "NONE"
    PROVE  OpenText(u) /\ Meaning(u) = Goto(m, c)
  BY MeaningByte

(* Three or four bytes that have a line end and no more than that.         *)
LEMMA OpenShort ==
    ASSUME NEW x \in Char, NEW c \in {DOT, EQ}
    PROVE  OpenText(<<x, CR, LF, c>>)
<1>0. c \in Char /\ <<x>> \in Seq(Char) /\ <<x, CR>> \in Seq(Char) /\ <<x, CR, LF>> \in Seq(Char)
  BY Bytes
<1>1. CR # LF /\ CR # Y /\ LF # Y
  BY DEF CR, LF, Y
<1>2. \A s \in {"NONE", "CR", "EQ", "CRLF"}, b \in Char : Verdict(s, b) = "NONE"
  BY DEF Verdict, EndsData
<1>3. <<>> \o <<x>> = <<x>>
  BY <1>0, ConcatEmptySeq
<1>4. OpenText(<<x>>) /\ Meaning(<<x>>) = Goto("NONE", x)
  BY <1>2, <1>3, Texts4, MeaningNothing, MeaningByte
<1>5. Goto("NONE", x) \in {"NONE", "CR", "EQ"}
  BY DEF Goto, IsEscaped, IsStuffing, AfterPlain
<1>6. <<x>> \o <<CR>> = <<x, CR>> /\ <<x, CR>> \o <<LF>> = <<x, CR, LF>>
      /\ <<x, CR, LF>> \o <<c>> = <<x, CR, LF, c>>
  BY <1>0, Bytes, Tuples
<1>7. OpenText(<<x, CR>>) /\ Meaning(<<x, CR>>) = "CR"
  <2>1. Verdict(Meaning(<<x>>), CR) = "NONE" /\ Goto(Meaning(<<x>>), CR) = "CR"
    BY <1>2, <1>4, <1>5, Bytes, Paths
  <2> QED
    BY <1>0, <1>4, <1>6, <2>1, Bytes, MeaningByte
<1>8. OpenText(<<x, CR, LF>>) /\ Meaning(<<x, CR, LF>>) = "CRLF"
  <2>1. Verdict("CR", LF) = "NONE" /\ Goto("CR", LF) = "CRLF" /\ LF \in Char
    BY <1>2, Bytes, Paths
  <2> QED
    BY <1>0, <1>6, <1>7, <2>1, MeaningByte
<1> QED
  BY <1>0, <1>2, <1>6, <1>8, MeaningByte

(* What decodePrev has for a state stands for that state.                  *)
LEMMA decodePrevMeans ==
    ASSUME NEW s \in State
    PROVE  /\ decodePrev[s] \in Seq(Char) /\ OpenText(decodePrev[s])
           /\ Meaning(decodePrev[s]) = s
<1>0. \A r \in {"NONE", "CR", "CRLF", "CRLFDT"}, b \in Char : Verdict(r, b) = "NONE"
  BY DEF Verdict, EndsData
<1>1. <<>> \o <<CR>> = <<CR>> /\ <<>> \o <<EQ>> = <<EQ>>
  BY Texts4, ConcatEmptySeq
<1>2. OpenText(<<CR>>) /\ Meaning(<<CR>>) = "CR"
  <2>1. <<>> \in Seq(Char) /\ CR \in Char /\ <<CR>> = <<>> \o <<CR>>
    BY <1>1, Bytes, Texts4
  <2>2. Verdict("NONE", CR) = "NONE" /\ Goto("NONE", CR) = "CR"
    BY <1>0, Bytes, Paths
  <2> QED
    BY MeaningNothing, <2>1, <2>2, MeaningLonger
<1>3. OpenText(<<EQ>>) /\ Meaning(<<EQ>>) = "EQ"
  <2>1. <<>> \in Seq(Char) /\ EQ \in Char /\ <<EQ>> = <<>> \o <<EQ>>
    BY <1>1, Bytes, Texts4
  <2>2. Verdict("NONE", EQ) = "NONE" /\ Goto("NONE", EQ) = "EQ"
    BY <1>0, Bytes, Paths
  <2> QED
    BY MeaningNothing, <2>1, <2>2, MeaningLonger
<1>4. OpenText(<<CR, LF>>) /\ Meaning(<<CR, LF>>) = "CRLF"
  <2>1. <<CR>> \in Seq(Char) /\ LF \in Char /\ <<CR, LF>> = <<CR>> \o <<LF>>
    BY Bytes, Texts4, Longer
  <2>2. Verdict("CR", LF) = "NONE" /\ Goto("CR", LF) = "CRLF"
    BY <1>0, Bytes, Paths
  <2> QED
    BY <1>2, <2>1, <2>2, MeaningLonger
<1>5. OpenText(<<CR, LF, DOT>>) /\ Meaning(<<CR, LF, DOT>>) = "CRLFDT"
  <2>1. <<CR, LF>> \in Seq(Char) /\ DOT \in Char /\ <<CR, LF, DOT>> = <<CR, LF>> \o <<DOT>>
    BY Bytes, Texts4, Longer
  <2>2. Verdict("CRLF", DOT) = "NONE" /\ Goto("CRLF", DOT) = "CRLFDT"
    BY <1>0, Bytes, Paths
  <2> QED
    BY <1>4, <2>1, <2>2, MeaningLonger
<1>6. OpenText(<<CR, LF, EQ>>) /\ Meaning(<<CR, LF, EQ>>) = "CRLFEQ"
  <2>1. <<CR, LF>> \in Seq(Char) /\ EQ \in Char /\ <<CR, LF, EQ>> = <<CR, LF>> \o <<EQ>>
    BY Bytes, Texts4, Longer
  <2>2. Verdict("CRLF", EQ) = "NONE" /\ Goto("CRLF", EQ) = "CRLFEQ"
    BY <1>0, Bytes, Paths
  <2> QED
    BY <1>4, <2>1, <2>2, MeaningLonger
<1>7. OpenText(<<CR, LF, DOT, CR>>) /\ Meaning(<<CR, LF, DOT, CR>>) = "CRLFDTCR"
  <2>1. <<CR, LF, DOT>> \in Seq(Char) /\ CR \in Char /\ <<CR, LF, DOT, CR>> = <<CR, LF, DOT>> \o <<CR>>
    BY Bytes, Texts4, Longer
  <2>2. Verdict("CRLFDT", CR) = "NONE" /\ Goto("CRLFDT", CR) = "CRLFDTCR"
    BY <1>0, Bytes, Paths
  <2> QED
    BY <1>5, <2>1, <2>2, MeaningLonger
<1> QED
  BY <1>2, <1>3, <1>4, <1>5, <1>6, <1>7, MeaningNothing, Texts4, decodePrevIs DEF State

-----------------------------------------------------------------------------
(* decodeChunk, and the text it is given.                                  *)

Accepted(t) == StateOf(Normalised(t)) # {}

(* The five bytes differ.                                                  *)
LEMMA Distinct ==
    /\ CR # LF /\ CR # DOT /\ CR # EQ /\ CR # Y /\ LF # DOT /\ LF # EQ /\ LF # Y
    /\ DOT # EQ /\ DOT # Y /\ EQ # Y
  BY DEF CR, LF, DOT, EQ, Y

(* Of the texts of decodePrev, by their lengths.                           *)
LEMMA decodePrevLen ==
    ASSUME NEW s \in State
    PROVE  /\ Len(decodePrev[s]) <= 4
           /\ Len(decodePrev[s]) = 4 => s = "CRLFDTCR"
           /\ Len(decodePrev[s]) = 3 => s \in {"CRLFDT", "CRLFEQ"}
<1>1. /\ Len(decodePrev["NONE"]) = 0 /\ Len(decodePrev["CR"]) = 1
      /\ Len(decodePrev["EQ"]) = 1 /\ Len(decodePrev["CRLF"]) = 2
      /\ Len(decodePrev["CRLFDT"]) = 3 /\ Len(decodePrev["CRLFDTCR"]) = 4
      /\ Len(decodePrev["CRLFEQ"]) = 3
  BY decodePrevIs
<1> DEFINE n == Len(decodePrev[s])
<1>2. \/ n \in {0, 1, 2} /\ s \in {"NONE", "CR", "EQ", "CRLF"}
      \/ n = 3 /\ s \in {"CRLFDT", "CRLFEQ"}
      \/ n = 4 /\ s = "CRLFDTCR"
  BY <1>1 DEF State
<1> HIDE DEF n
<1>3. n <= 4 /\ (n = 4 => s = "CRLFDTCR") /\ (n = 3 => s \in {"CRLFDT", "CRLFEQ"})
  BY <1>2
<1> QED
  BY <1>3 DEF n

(* The text of a stuffed =, and what it stands for.                        *)
LEMMA LineDotEq ==
    /\ OpenText(<<CR, LF, DOT, EQ>>) /\ Meaning(<<CR, LF, DOT, EQ>>) = "CRLFEQ"
    /\ OpenText(<<CR, LF, EQ>>) /\ Meaning(<<CR, LF, EQ>>) = "CRLFEQ"
<1>1. "CRLFDT" \in State /\ "CRLFEQ" \in State
  BY DEF State
<1>2. OpenText(<<CR, LF, DOT>>) /\ Meaning(<<CR, LF, DOT>>) = "CRLFDT"
  BY <1>1, decodePrevIs, decodePrevMeans
<1>3. Verdict("CRLFDT", EQ) = "NONE"
  BY DEF Verdict, EndsData
<1>4. <<CR, LF, DOT>> \in Seq(Char) /\ EQ \in Char
      /\ <<CR, LF, DOT, EQ>> = <<CR, LF, DOT>> \o <<EQ>>
  BY Texts4, Bytes, Longer
<1>5. OpenText(<<CR, LF, DOT, EQ>>) /\ Meaning(<<CR, LF, DOT, EQ>>) = Goto("CRLFDT", EQ)
  BY <1>2, <1>3, <1>4, MeaningLonger
<1>6. OpenText(<<CR, LF, EQ>>) /\ Meaning(<<CR, LF, EQ>>) = "CRLFEQ"
  BY <1>1, decodePrevIs, decodePrevMeans
<1> QED
  BY <1>5, <1>6, Paths

(* The last bytes of a text are what it ends in.                           *)
LEMMA EndsInLast ==
    ASSUME NEW S, NEW s \in Seq(S), NEW n \in Nat PROVE EndsIn(s, LastOf(s, n))
<1>1. Len(LastOf(s, n)) = IF Len(s) <= n THEN Len(s) ELSE n
  BY LastOfIs
<1>2. Len(s) \in Nat
  OBVIOUS
<1>3. CASE Len(s) <= n
  <2>1. LastOf(s, n) = s
    BY <1>3 DEF LastOf
  <2>2. LastOf(s, Len(s)) = s
    BY <1>2 DEF LastOf
  <2> QED
    BY <1>2, <2>1, <2>2 DEF EndsIn
<1>4. CASE ~(Len(s) <= n)
  <2>1. Len(LastOf(s, n)) = n
    BY <1>1, <1>4
  <2> QED
    BY <1>2, <1>4, <2>1 DEF EndsIn
<1> QED
  BY <1>3, <1>4

(* Both at once.                                                           *)
LEMMA LastBytes ==
    ASSUME NEW t \in Seq(Char)
    PROVE  \A n \in Nat : /\ LastOf(t, n) \in Seq(Char) /\ EndsIn(t, LastOf(t, n))
                          /\ Len(LastOf(t, n)) = IF Len(t) <= n THEN Len(t) ELSE n
                          /\ Len(t) <= n => LastOf(t, n) = t
                          /\ Len(t) \in Nat
<1>1. Len(t) \in Nat
  OBVIOUS
<1> QED
  BY <1>1, LastOfIs, EndsInLast

(* What the end of a text ends in.                                         *)
LEMMA EndsInEnd ==
    ASSUME NEW S, NEW s \in Seq(S), NEW t \in Seq(S), NEW u \in Seq(S),
           EndsIn(s, t), EndsIn(t, u)
    PROVE  EndsIn(s, u)
<1>1. PICK p \in Seq(S) : s = p \o t
  BY EndsInParts
<1> QED
  BY <1>1, EndsInThrough

(* The state a text is taken for is the one it stands for.                 *)
LEMMA AcceptedMeans ==
    ASSUME Texts, NEW t \in Seq(Char), OpenText(t), NEW s \in StateOf(Normalised(t))
    PROVE  s = Meaning(t)
<1> DEFINE L == LastOf(t, 4)
           K == LastOf(L, 3)
<1>1. t # null
  BY DEF Texts
<1>2. s \in State
  BY DEF StateOf, Known
<1>3. L \in Seq(Char) /\ Len(L) = (IF Len(t) <= 4 THEN Len(t) ELSE 4) /\ EndsIn(t, L)
      /\ (Len(t) <= 4 => L = t) /\ Len(t) \in Nat
  BY LastBytes
<1> HIDE DEF L
<1>4. K \in Seq(Char) /\ Len(K) = (IF Len(L) <= 3 THEN Len(L) ELSE 3) /\ EndsIn(L, K)
      /\ (Len(L) <= 3 => K = L)
  BY <1>3, LastBytes
<1> HIDE DEF K
<1>5. CASE L = <<CR, LF, DOT, EQ>>
  <2>1. Normalised(t) = <<CR, LF, EQ>>
    BY <1>1, <1>5 DEF Normalised, L
  <2>2. "CRLFEQ" \in Known(<<CR, LF, EQ>>)
    BY decodePrevIs DEF Known, State
  <2>3. s \in Known(<<CR, LF, EQ>>)
    BY <2>1, <2>2 DEF StateOf
  <2>4. decodePrev[s] = <<CR, LF, EQ>>
    BY <2>3 DEF Known
  <2>5. s = "CRLFEQ"
    BY <1>2, <2>4, decodePrevMeans, LineDotEq
  <2>6. Meaning(t) = "CRLFEQ"
    BY <1>3, <1>5, MeaningOfEnd
  <2> QED
    BY <2>5, <2>6
<1>6. CASE L # <<CR, LF, DOT, EQ>>
  <2>1. Normalised(t) = L
    BY <1>1, <1>6 DEF Normalised, L
  <2>2. CASE Known(L) # {}
    <3>1. decodePrev[s] = L
      BY <2>1, <2>2 DEF StateOf, Known
    <3>2. CASE Len(t) <= 4
      BY <1>2, <1>3, <3>1, <3>2, decodePrevMeans
    <3>3. CASE ~(Len(t) <= 4)
      <4>1. s = "CRLFDTCR"
        BY <1>2, <1>3, <3>1, <3>3, decodePrevLen
      <4>2. EndsIn(t, <<CR, LF, DOT, CR>>)
        BY <1>3, <3>1, <4>1, decodePrevIs
      <4> QED
        BY <4>1, <4>2, MeaningOfEnd
    <3> QED
      BY <3>2, <3>3
  <2>3. CASE Known(L) = {}
    <3>1. decodePrev[s] = K
      BY <2>1, <2>3 DEF StateOf, Known, K
    <3>2. Len(L) > 3
      <4>1. ASSUME Len(L) <= 3 PROVE FALSE
        <5>1. K = L
          BY <1>4, <4>1
        <5>2. s \in Known(L)
          BY <1>2, <3>1, <5>1 DEF Known
        <5> QED
          BY <2>3, <5>2
      <4> QED
        BY <1>3, <4>1
    <3>3. Len(K) = 3
      BY <1>3, <1>4, <3>2
    <3>4. s \in {"CRLFDT", "CRLFEQ"}
      BY <1>2, <3>1, <3>3, decodePrevLen
    <3>5. EndsIn(t, K)
      BY <1>3, <1>4, EndsInEnd
    <3>6. CASE s = "CRLFDT"
      <4>1. EndsIn(t, <<CR, LF, DOT>>)
        BY <3>1, <3>5, <3>6, decodePrevIs
      <4> QED
        BY <3>6, <4>1, MeaningOfEnd
    <3>7. CASE s = "CRLFEQ"
      <4>1. EndsIn(t, <<CR, LF, EQ>>)
        BY <3>1, <3>5, <3>7, decodePrevIs
      <4> QED
        BY <3>7, <4>1, MeaningOfEnd
    <3> QED
      BY <3>4, <3>6, <3>7
  <2> QED
    BY <2>2, <2>3
<1> QED
  BY <1>5, <1>6

(* The last three of four bytes.                                           *)
LEMMA LastThree ==
    ASSUME NEW l \in Seq(Char), NEW k \in Seq(Char), Len(l) = 4, Len(k) = 3, EndsIn(l, k)
    PROVE  l[1] \in Char /\ l[2] = k[1] /\ l[3] = k[2] /\ l[4] = k[3]
<1>1. LastOf(l, 3) = k
  BY DEF EndsIn
<1>2. k = SubSeq(l, 2, 4)
  BY <1>1 DEF LastOf
<1> QED
  BY <1>2

(* What decodeChunk makes of a text stands for what the text did.          *)
LEMMA NormalisedMeans ==
    ASSUME Texts, NEW t \in Seq(Char), OpenText(t), Len(t) <= 4 \/ Accepted(t)
    PROVE  /\ Normalised(t) \in Seq(Char) /\ Len(Normalised(t)) <= 4
           /\ OpenText(Normalised(t)) /\ Meaning(Normalised(t)) = Meaning(t)
<1> DEFINE L == LastOf(t, 4)
           K == LastOf(L, 3)
<1>1. t # null
  BY DEF Texts
<1>3. L \in Seq(Char) /\ Len(L) = (IF Len(t) <= 4 THEN Len(t) ELSE 4) /\ EndsIn(t, L)
      /\ (Len(t) <= 4 => L = t) /\ Len(t) \in Nat
  BY LastBytes
<1> HIDE DEF L
<1>4. K \in Seq(Char) /\ Len(K) = (IF Len(L) <= 3 THEN Len(L) ELSE 3) /\ EndsIn(L, K)
      /\ (Len(L) <= 4 => LastOf(L, 4) = L)
  BY <1>3, LastBytes
<1> HIDE DEF K
<1>5. CASE L = <<CR, LF, DOT, EQ>>
  <2>1. Normalised(t) = <<CR, LF, EQ>>
    BY <1>1, <1>5 DEF Normalised, L
  <2>2. Meaning(t) = "CRLFEQ"
    BY <1>3, <1>5, MeaningOfEnd
  <2>3. Len(<<CR, LF, EQ>>) <= 4
    OBVIOUS
  <2> QED
    BY <2>1, <2>2, <2>3, LineDotEq, Texts4
<1>6. CASE L # <<CR, LF, DOT, EQ>>
  <2>1. Normalised(t) = L
    BY <1>1, <1>6 DEF Normalised, L
  <2>2. CASE Len(t) <= 4
    BY <1>3, <2>1, <2>2
  <2>3. CASE ~(Len(t) <= 4)
    <3>1. PICK s : s \in StateOf(L)
      BY <2>1, <2>3 DEF Accepted
    <3>2. s \in State /\ s = Meaning(t)
      BY <2>1, <3>1, AcceptedMeans DEF StateOf, Known
    <3>3. Len(L) = 4
      BY <1>3, <2>3
    <3>4. CASE Known(L) # {}
      <4>1. decodePrev[s] = L
        BY <3>1, <3>4 DEF StateOf, Known
      <4>2. OpenText(L) /\ Meaning(L) = s
        BY <3>2, <4>1, decodePrevMeans
      <4>3. Len(L) <= 4
        BY <3>3
      <4> QED
        BY <1>3, <2>1, <3>2, <4>2, <4>3
    <3>5. CASE Known(L) = {}
      <4>1. decodePrev[s] = K
        BY <3>1, <3>5 DEF StateOf, Known, K
      <4>2. K \in Seq(Char) /\ Len(K) = 3 /\ EndsIn(L, K)
        BY <1>4, <3>3
      <4>3. K = <<CR, LF, DOT>> \/ K = <<CR, LF, EQ>>
        BY <3>2, <4>1, <4>2, decodePrevLen, decodePrevIs
      <4>4. K[1] = CR /\ K[2] = LF /\ K[3] \in {DOT, EQ}
        BY <4>3
      <4>5. L[1] \in Char /\ L[2] = CR /\ L[3] = LF /\ L[4] \in {DOT, EQ}
        BY <1>3, <3>3, <4>2, <4>4, LastThree
      <4>6. L = <<L[1], CR, LF, L[4]>>
        BY <1>3, <3>3, <4>5
      <4>7. OpenText(L)
        BY <4>5, <4>6, OpenShort
      <4>8. Normalised(L) = L
        <5>1. LastOf(L, 4) = L
          BY <1>4, <3>3
        <5>2. L # null
          BY <1>3 DEF Texts
        <5> QED
          BY <1>6, <5>1, <5>2 DEF Normalised
      <4>9. s = Meaning(L)
        BY <1>3, <3>1, <4>7, <4>8, AcceptedMeans
      <4>10. Len(L) <= 4
        BY <3>3
      <4> QED
        BY <1>3, <2>1, <3>2, <4>7, <4>9, <4>10
    <3> QED
      BY <3>4, <3>5
  <2> QED
    BY <2>2, <2>3
<1> QED
  BY <1>5, <1>6

\* The texts of an end, and what is left of them after a call without data.
Stuck == {<<CR, LF, EQ, Y>>, <<CR, LF, DOT, CR, LF>>, <<LF, DOT, CR, LF>>}

(* They are accepted no more.                                              *)
LEMMA StuckStays ==
    ASSUME Texts, NEW t \in Stuck
    PROVE  t \in Seq(Char) /\ Normalised(t) \in Stuck /\ ~Accepted(t)
<1> DEFINE a == <<CR, LF, EQ, Y>>
           b == <<CR, LF, DOT, CR, LF>>
           c == <<LF, DOT, CR, LF>>
<1>1. a \in Seq(Char) /\ b \in Seq(Char) /\ c \in Seq(Char)
  BY Bytes
<1>2. LastOf(a, 4) = a /\ LastOf(c, 4) = c
  BY DEF LastOf
<1>3. LastOf(b, 4) = c
  <2>1. LastOf(b, 4) = SubSeq(b, 2, 5)
    BY DEF LastOf
  <2> QED
    BY <2>1
<1>4. LastOf(a, 3) = <<LF, EQ, Y>> /\ LastOf(c, 3) = <<DOT, CR, LF>>
  <2>1. LastOf(a, 3) = SubSeq(a, 2, 4) /\ LastOf(c, 3) = SubSeq(c, 2, 4)
    BY DEF LastOf
  <2> QED
    BY <2>1
<1>5. a # <<CR, LF, DOT, EQ>> /\ c # <<CR, LF, DOT, EQ>>
  BY Distinct
<1>6. t \in Seq(Char) /\ t # null
  BY <1>1 DEF Stuck, Texts
<1>7. ASSUME NEW s \in State
      PROVE  /\ decodePrev[s] # a /\ decodePrev[s] # c
             /\ decodePrev[s] # <<LF, EQ, Y>> /\ decodePrev[s] # <<DOT, CR, LF>>
  BY Distinct, decodePrevIs DEF State
<1> HIDE DEF a, b, c
<1>8. Normalised(t) = a \/ Normalised(t) = c
  BY <1>2, <1>3, <1>5, <1>6 DEF Normalised, Stuck, a, b, c
<1>9. Known(a) = {} /\ Known(c) = {}
  BY <1>7 DEF Known
<1>10. Known(LastOf(a, 3)) = {} /\ Known(LastOf(c, 3)) = {}
  BY <1>4, <1>7 DEF Known
<1>11. StateOf(a) = {} /\ StateOf(c) = {}
  BY <1>9, <1>10 DEF StateOf
<1> QED
  BY <1>6, <1>8, <1>11 DEF Accepted, Stuck, a, c

-----------------------------------------------------------------------------
(* The caller.                                                             *)

Dec == Article.decoded

\* The bytes read are what the article came to, and none is after an end.
Fed == /\ fed \in Seq(Char) /\ origin \in Seq(Char) /\ OpenText(origin)
       /\ got = Dec.out /\ Len(fed) = Article.read

\* What the caller holds stands for the context, or has nothing to go on with.
Holds == /\ held = null => fed = <<>> /\ origin = <<CR, LF>>
         /\ held # null /\ Dec.ended = "NONE" =>
              /\ held \in Seq(Char) /\ OpenText(held) /\ Meaning(held) = Dec.ctx
              /\ Len(held) <= 4 \/ Accepted(held)
         /\ Dec.ended # "NONE" => held \in Stuck

\* The end is reported by the call that came to it.
Reports == result.call = "decodeChunk" /\ fed # <<>> /\ result.read > 0
             => result.ended = Dec.ended

Inv == Fed /\ Holds /\ Reports /\ StateIsWhatWasRead

(* What an article is resumed with is a text in which nothing has ended.   *)
LEMMA OriginFacts ==
    ASSUME Fed
    PROVE  Meaning(origin) \in State /\ Article \in Outcomes
           /\ Article = Read(fed, Meaning(origin))
<1>1. "NONE" \in State
  BY DEF State
<1>2. Whole(origin) \in Outcomes
  BY <1>1, ReadType DEF Whole, Fed
<1>3. Meaning(origin) = Whole(origin).decoded.ctx
  BY DEF Meaning, Whole, Read
<1>4. Meaning(origin) \in State
  BY <1>2, <1>3 DEF Outcomes
<1>5. Article = Read(fed, Meaning(origin))
  BY DEF Article, Read
<1> QED
  BY <1>4, <1>5, ReadType DEF Fed

(* A new article.                                                          *)
LEMMA FreshInv ==
    ASSUME Texts, NEW text, OpenText(text), text \in Seq(Char),
           \/ held' = null /\ text = <<CR, LF>>
           \/ held' = text /\ (Len(text) <= 4 \/ Accepted(text)),
           origin' = text, fed' = <<>>, got' = <<>>, result' = NoResult
    PROVE  Inv'
<1>1. "NONE" \in State /\ "CRLF" \in State
  BY DEF State
<1>2. Whole(text) \in Outcomes
  BY <1>1, ReadType DEF Whole
<1>3. Meaning(text) = Whole(text).decoded.ctx
  BY DEF Meaning, Whole, Read
<1>4. Meaning(text) \in State
  BY <1>2, <1>3 DEF Outcomes
<1>5. Article' = Read(<<>>, Meaning(text))
  BY DEF Article, Read, Meaning
<1>6. Article' = [decoded |-> [ctx |-> Meaning(text), out |-> <<>>, ended |-> "NONE"], read |-> 0]
  BY <1>4, <1>5, ReadNothing
<1>7. Dec' = [ctx |-> Meaning(text), out |-> <<>>, ended |-> "NONE"]
  BY <1>6 DEF Dec
<1>8. Fed'
  BY <1>6, <1>7, Texts4 DEF Fed, OpenText, Whole, Read
<1>9. text # null
  BY DEF Texts
<1>10. Holds'
  BY <1>7, <1>9 DEF Holds
<1>11. Reports'
  BY DEF Reports, NoResult
<1>12. StateIsWhatWasRead'
  <2>1. CASE held' = null
    BY <2>1 DEF StateIsWhatWasRead
  <2>2. CASE held' = text
    <3>1. text \o <<>> = text
      BY ConcatEmptySeq
    <3>2. EndsIn(text, text)
      <4>1. <<>> \in Seq(Char) /\ <<>> \o text = text
        BY Texts4, ConcatEmptySeq
      <4>2. EndsIn(<<>> \o text, text)
        BY <4>1, ConcatEndsIn
      <4> QED
        BY <4>1, <4>2
    <3> QED
      BY <2>2, <3>1, <3>2 DEF StateIsWhatWasRead
  <2> QED
    BY <2>1, <2>2
<1> QED
  BY <1>8, <1>10, <1>11, <1>12 DEF Inv

\* A call with the text held: without data; one that threw; one that decoded.
Idle(data, r) == /\ data = <<>> /\ r.threw = "" /\ r.read = 0 /\ r.out = <<>>
                 /\ r.state = Normalised(held)
Failed(r)     == r.threw # "" /\ r.read = 0 /\ r.out = <<>>
Decoded(data, r) ==
    \E s \in StateOf(Normalised(held)) :
      LET d == Read(data, s).decoded
      IN  /\ r.threw = "" /\ r.read = Read(data, s).read /\ r.out = d.out
          /\ r.ended = d.ended /\ r.state = StateText(d.ctx, d.ended)

(* decodeChunk, by its cases.                                              *)
LEMMA DecodeChunkIs ==
    ASSUME NEW data, NEW second, NEW third,
           (IF second.is = "text" THEN second.text ELSE third.text) = held
    PROVE  LET r == decodeChunk(data, second, third)
           IN  Idle(data, r) \/ Failed(r) \/ Decoded(data, r)
<1> DEFINE r      == decodeChunk(data, second, third)
           text   == IF second.is = "text" THEN second.text ELSE third.text
           N      == Normalised(text)
           output == IF second.is = "text" THEN NoBuffer ELSE second.size
           s      == CHOOSE x \in StateOf(N) : TRUE
<1> SUFFICES Idle(data, r) \/ Failed(r) \/ Decoded(data, r)
  OBVIOUS
<1>0. N = Normalised(held)
  OBVIOUS
<1>1. r = IF data = <<>>
          THEN [threw |-> "", read |-> 0, out |-> <<>>, output |-> "new",
                ended |-> "NONE", state |-> N]
          ELSE IF StateOf(N) = {} THEN Thrown("ReferenceError")
          ELSE decodeIncr(data, s, output)
  BY DEF decodeChunk
<1> HIDE DEF r, N, output, text
<1>2. CASE data = <<>>
  BY <1>0, <1>1, <1>2 DEF Idle
<1>3. CASE data # <<>> /\ StateOf(N) = {}
  BY <1>1, <1>3 DEF Failed, Thrown
<1>4. CASE data # <<>> /\ StateOf(N) # {}
  <2>1. s \in StateOf(N)
    BY <1>4
  <2>2. r = decodeIncr(data, s, output)
    BY <1>1, <1>4
  <2> HIDE DEF s
  <2>3. CASE output = Short
    BY <2>2, <2>3 DEF decodeIncr, Failed, Thrown
  <2>4. CASE output # Short
    <3> DEFINE d == Read(data, s).decoded
    <3>1. /\ r.threw = "" /\ r.read = Read(data, s).read /\ r.out = d.out
          /\ r.ended = d.ended /\ r.state = StateText(d.ctx, d.ended)
      BY <2>2, <2>4 DEF decodeIncr, Read
    <3> QED
      BY <1>0, <2>1, <3>1 DEF Decoded
  <2> QED
    BY <2>3, <2>4
<1> QED
  BY <1>2, <1>3, <1>4

(* Nothing read, and the text held again, or what decodeChunk makes of it. *)
LEMMA NothingReadInv ==
    ASSUME Texts, Inv, NEW data \in Chunk, NEW r, Took(data, r), r.read = 0, r.out = <<>>,
           held' = held \/ held' = Normalised(held)
    PROVE  Inv'
<1>1. Fed /\ Holds /\ StateIsWhatWasRead
  BY DEF Inv
<1>2. fed' = fed /\ got' = got /\ origin' = origin
  <2>1. SubSeq(data, 1, r.read) = <<>>
    BY SubSeqEmpty
  <2>2. fed \o <<>> = fed
    BY <1>1, ConcatEmptySeq DEF Fed
  <2>3. Article \in Outcomes
    BY <1>1, OriginFacts
  <2>4. got \in Seq(Byte)
    BY <1>1, <2>3 DEF Fed, Outcomes, Dec
  <2>5. got \o <<>> = got
    BY <2>4, ConcatEmptySeq
  <2> QED
    BY <2>1, <2>2, <2>5 DEF Took
<1>3. Article' = Article
  BY <1>2 DEF Article, Meaning
<1>4. Dec' = Dec
  BY <1>3 DEF Dec
<1>5. Fed'
  BY <1>1, <1>2, <1>3, <1>4 DEF Fed
<1>6. Reports'
  <2>1. result'.read = 0
    BY DEF Took
  <2> QED
    BY <2>1 DEF Reports
<1>7. CASE held' = held
  <2>1. Holds'
    BY <1>1, <1>2, <1>4, <1>7 DEF Holds
  <2>2. StateIsWhatWasRead'
    BY <1>1, <1>2, <1>7 DEF StateIsWhatWasRead
  <2> QED
    BY <1>5, <1>6, <2>1, <2>2 DEF Inv
<1>8. CASE held' = Normalised(held) /\ held = null
  <2>1. held' = <<CR, LF>> /\ fed = <<>> /\ origin = <<CR, LF>>
    BY <1>1, <1>8 DEF Normalised, Holds
  <2>2. "CRLF" \in State /\ decodePrev["CRLF"] = <<CR, LF>>
    BY decodePrevIs DEF State
  <2>3. OpenText(<<CR, LF>>) /\ Meaning(<<CR, LF>>) = "CRLF"
    BY <2>2, decodePrevMeans
  <2>4. Article = Read(<<>>, "CRLF")
    BY <2>1, <2>3 DEF Article, Read
  <2>5. Read(<<>>, "CRLF")
          = [decoded |-> [ctx |-> "CRLF", out |-> <<>>, ended |-> "NONE"], read |-> 0]
    BY <2>2, ReadNothing
  <2>6. Dec.ended = "NONE" /\ Dec.ctx = "CRLF"
    BY <2>4, <2>5 DEF Dec
  <2>7. <<CR, LF>> # null /\ Len(<<CR, LF>>) <= 4
    <3>1. <<CR, LF>> \in Seq(Char) /\ null \notin Seq(Char)
      BY Texts4 DEF Texts
    <3>2. Len(<<CR, LF>>) <= 4
      OBVIOUS
    <3> QED
      BY <3>1, <3>2
  <2>8. Holds'
    BY <1>4, <2>1, <2>3, <2>6, <2>7, Texts4 DEF Holds, OpenText, Whole, Read, Meaning
  <2>9. StateIsWhatWasRead'
    <3>1. origin \o fed = <<CR, LF>>
      BY <2>1, Texts4, ConcatEmptySeq
    <3>2. EndsIn(<<CR, LF>>, <<CR, LF>>)
      BY DEF EndsIn, LastOf
    <3> QED
      BY <1>2, <2>1, <3>1, <3>2 DEF StateIsWhatWasRead
  <2> QED
    BY <1>5, <1>6, <2>8, <2>9 DEF Inv
<1>9. CASE held' = Normalised(held) /\ held # null
  <2>1. origin \o fed \in Seq(Char)
    BY <1>1, ConcatProperties DEF Fed
  <2>2. held \in Seq(Char) /\ Normalised(held) \in Seq(Char)
    <3>1. CASE Dec.ended = "NONE"
      BY <1>1, <1>9, <3>1, NormalisedMeans DEF Holds
    <3>2. CASE Dec.ended # "NONE"
      BY <1>1, <3>2, StuckStays DEF Holds, Stuck
    <3> QED
      BY <3>1, <3>2
  <2>3. Holds'
    <3>1. CASE Dec.ended = "NONE"
      <4>1. held \in Seq(Char) /\ OpenText(held) /\ Meaning(held) = Dec.ctx
            /\ (Len(held) <= 4 \/ Accepted(held))
        BY <1>1, <1>9, <3>1 DEF Holds
      <4>2. OpenText(Normalised(held)) /\ Meaning(Normalised(held)) = Meaning(held)
            /\ Len(Normalised(held)) <= 4
        BY <4>1, NormalisedMeans
      <4>3. Normalised(held) # null
        BY <2>2 DEF Texts
      <4> QED
        BY <1>4, <1>9, <2>2, <3>1, <4>1, <4>2, <4>3 DEF Holds, OpenText, Whole, Read, Meaning
    <3>2. CASE Dec.ended # "NONE"
      <4>1. Normalised(held) \in Stuck
        BY <1>1, <3>2, StuckStays DEF Holds
      <4>2. Normalised(held) # null
        BY <2>2 DEF Texts
      <4> QED
        BY <1>4, <1>9, <3>2, <4>1, <4>2 DEF Holds
    <3> QED
      BY <3>1, <3>2
  <2>4. StateIsWhatWasRead'
    <3> DEFINE L == LastOf(held, 4)
               w == origin \o fed
    <3>1. L \in Seq(Char) /\ EndsIn(held, L) /\ (Len(held) <= 4 => L = held)
      BY <2>2, LastBytes
    <3>2. Normalised(held) = IF L = <<CR, LF, DOT, EQ>> THEN <<CR, LF, EQ>> ELSE L
      BY <1>9 DEF Normalised
    <3>3. /\ Len(<<CR, LF, EQ>>) <= 4 /\ Len(<<CR, LF, EQ, Y>>) <= 4
          /\ <<CR, LF, EQ>> # <<CR, LF, DOT, EQ>> /\ <<CR, LF, EQ, Y>> # <<CR, LF, DOT, EQ>>
      BY Distinct
    <3>4. CASE EndsIn(w, held)
      <4>1. EndsIn(w, L)
        <5> HIDE DEF L, w
        <5> QED
          BY <2>1, <2>2, <3>1, <3>4, EndsInEnd DEF w
      <4> HIDE DEF L
      <4> QED
        BY <1>2, <1>9, <3>2, <4>1 DEF StateIsWhatWasRead
    <3>5. CASE held = <<CR, LF, EQ>> /\ EndsIn(w, <<CR, LF, DOT, EQ>>)
      <4> HIDE DEF L
      <4> QED
        BY <1>2, <1>9, <3>1, <3>2, <3>3, <3>5 DEF StateIsWhatWasRead
    <3>6. CASE held = <<CR, LF, EQ, Y>> /\ EndsIn(w, <<CR, LF, DOT, EQ, Y>>)
      <4> HIDE DEF L
      <4> QED
        BY <1>2, <1>9, <3>1, <3>2, <3>3, <3>6 DEF StateIsWhatWasRead
    <3> QED
      BY <1>1, <1>9, <3>4, <3>5, <3>6 DEF StateIsWhatWasRead
  <2> QED
    BY <1>5, <1>6, <2>3, <2>4 DEF Inv
<1> QED
  BY <1>7, <1>8, <1>9

(* Bytes read from the context the article is in.                          *)
LEMMA DecodedInv ==
    ASSUME Texts, Inv, NEW data \in Chunk, NEW r, Took(data, r), Decoded(data, r)
    PROVE  Inv'
<1>1. Fed /\ Holds
  BY DEF Inv
<1>2. PICK s \in StateOf(Normalised(held)) :
         LET d == Read(data, s).decoded
         IN  /\ r.threw = "" /\ r.read = Read(data, s).read /\ r.out = d.out
             /\ r.ended = d.ended /\ r.state = StateText(d.ctx, d.ended)
  BY DEF Decoded
<1>3. data \in Seq(Char)
  BY DEF Texts
<1>4. Article \in Outcomes /\ Article = Read(fed, Meaning(origin)) /\ Meaning(origin) \in State
  BY <1>1, OriginFacts
<1>5. Dec.ended = "NONE" /\ s = Dec.ctx /\ s \in State
  <2>0. s \in State
    BY DEF StateOf, Known
  <2>1. CASE held = null
    <3>1. Normalised(held) = <<CR, LF>> /\ fed = <<>> /\ origin = <<CR, LF>>
      BY <1>1, <2>1 DEF Normalised, Holds
    <3>2. "CRLF" \in State /\ decodePrev["CRLF"] = <<CR, LF>>
      BY decodePrevIs DEF State
    <3>3. Meaning(<<CR, LF>>) = "CRLF"
      BY <3>2, decodePrevMeans
    <3>4. "CRLF" \in Known(<<CR, LF>>)
      BY <3>2 DEF Known
    <3>5. s \in Known(<<CR, LF>>)
      BY <3>1, <3>4 DEF StateOf
    <3>6. decodePrev[s] = <<CR, LF>>
      BY <3>5 DEF Known
    <3>7. s = "CRLF"
      BY <2>0, <3>3, <3>6, decodePrevMeans
    <3>8. Article = Read(<<>>, "CRLF")
      BY <1>4, <3>1, <3>3
    <3>9. Dec = [ctx |-> "CRLF", out |-> <<>>, ended |-> "NONE"]
      BY <3>2, <3>8, ReadNothing DEF Dec
    <3> QED
      BY <2>0, <3>7, <3>9
  <2>2. CASE held # null
    <3>1. Dec.ended = "NONE"
      <4>1. ASSUME Dec.ended # "NONE" PROVE FALSE
        <5>1. held \in Stuck
          BY <1>1, <4>1 DEF Holds
        <5> QED
          BY <5>1, StuckStays DEF Accepted
      <4> QED
        BY <4>1
    <3>2. held \in Seq(Char) /\ OpenText(held) /\ Meaning(held) = Dec.ctx
      BY <1>1, <2>2, <3>1 DEF Holds
    <3> QED
      BY <2>0, <3>1, <3>2, AcceptedMeans
  <2> QED
    BY <2>1, <2>2
<1> DEFINE R    == Read(data, s)
           d    == R.decoded
           more == SubSeq(data, 1, R.read)
<1>6. R \in Outcomes /\ R.read \in 0..Len(data) /\ Read(more, s) = R
  BY <1>3, <1>5, ReadType
<1>7. more \in Seq(Char) /\ Len(more) = R.read
  <2>1. 1 \in Int /\ R.read \in Int /\ Len(data) \in Nat
        /\ \A i \in 1..R.read : data[i] \in Char
    BY <1>3, <1>6
  <2> HIDE DEF R
  <2> QED
    BY <1>6, <2>1, SubSeqProperties
<1>8. d.ctx \in State /\ d.out \in Seq(Byte) /\ d.ended \in End
  BY <1>6 DEF Outcomes
<1>9. /\ fed' = fed \o more /\ got' = got \o d.out /\ origin' = origin
      /\ held' = StateText(d.ctx, d.ended)
      /\ result' = [call |-> "decodeChunk", threw |-> "", read |-> R.read, ended |-> d.ended]
  BY <1>2 DEF Took
<1> HIDE DEF more, R
<1>10. fed \in Seq(Char) /\ Len(fed) \in Nat /\ Article.decoded.ended = "NONE"
       /\ Article.decoded.ctx = s /\ got = Article.decoded.out /\ Len(fed) = Article.read
       /\ origin \in Seq(Char) /\ OpenText(origin)
  BY <1>1, <1>5 DEF Fed, Dec
<1>11. Article' = [decoded |-> [ctx |-> d.ctx, out |-> got \o d.out, ended |-> d.ended],
                   read    |-> Len(fed) + R.read]
  <2> DEFINE a == Read(fed, Meaning(origin))
  <2>1. a.decoded.ended = "NONE" /\ a.decoded.ctx = s /\ a.decoded.out = got
    BY <1>4, <1>10
  <2>2. LET b == Read(more, a.decoded.ctx)
        IN  Read(fed \o more, Meaning(origin))
              = [decoded |-> [ctx   |-> b.decoded.ctx,
                              out   |-> a.decoded.out \o b.decoded.out,
                              ended |-> b.decoded.ended],
                 read    |-> Len(fed) + b.read]
    BY <1>4, <1>7, <1>10, <2>1, ReadConcat
  <2>3. Article' = Read(fed \o more, Meaning(origin))
    BY <1>9 DEF Article, Read, Meaning
  <2> HIDE DEF a
  <2> QED
    BY <1>6, <2>1, <2>2, <2>3
<1>12. Dec'.ctx = d.ctx /\ Dec'.ended = d.ended /\ Dec'.out = got'
       /\ Article'.read = Len(fed) + R.read
  BY <1>9, <1>11 DEF Dec
<1>13. fed' \in Seq(Char) /\ Len(fed') = Len(fed) + R.read
  <2>1. fed \o more \in Seq(Char) /\ Len(fed \o more) = Len(fed) + Len(more)
    BY <1>7, <1>10, ConcatProperties
  <2> QED
    BY <1>7, <1>9, <2>1
<1>14. Fed'
  BY <1>9, <1>10, <1>12, <1>13 DEF Fed, OpenText, Whole, Read
<1>15. Reports'
  BY <1>9, <1>12 DEF Reports
<1>16. Holds'
  <2>1. CASE d.ended = "NONE"
    <3>1. held' = decodePrev[d.ctx]
      BY <1>9, <2>1 DEF StateText
    <3>2. held' \in Seq(Char) /\ OpenText(held') /\ Meaning(held') = d.ctx /\ Len(held') <= 4
      <4> DEFINE c == d.ctx
      <4>1. c \in State /\ held' = decodePrev[c]
        BY <1>8, <3>1
      <4> HIDE DEF c
      <4>2. /\ decodePrev[c] \in Seq(Char) /\ OpenText(decodePrev[c])
            /\ Meaning(decodePrev[c]) = c
        BY <4>1, decodePrevMeans
      <4>3. Len(decodePrev[c]) <= 4
        BY <4>1, decodePrevLen
      <4>4. OpenText(held') /\ Meaning(held') = c
        BY <4>1, <4>2
      <4> QED
        BY <4>1, <4>2, <4>3, <4>4 DEF c
    <3>3. held' # null
      BY <3>2 DEF Texts
    <3> QED
      BY <1>12, <2>1, <3>2, <3>3 DEF Holds, OpenText, Whole, Read, Meaning
  <2>2. CASE d.ended # "NONE"
    <3>1. held' \in Stuck
      BY <1>8, <1>9, <2>2 DEF StateText, Stuck, End
    <3>2. held' # null
      BY <3>1, StuckStays DEF Texts
    <3> QED
      BY <1>12, <2>2, <3>1, <3>2 DEF Holds
  <2> QED
    BY <2>1, <2>2
<1>17. StateIsWhatWasRead'
  <2> DEFINE w == origin \o fed'
  <2>1. w \in Seq(Char) /\ Len(w) = Len(origin) + Len(fed')
    BY <1>10, <1>13, ConcatProperties
  <2>2. Whole(w).decoded.ctx = d.ctx /\ Whole(w).decoded.ended = d.ended
        /\ Whole(w).read = Len(w)
    <3> DEFINE a == Read(origin, "NONE")
    <3>0. "NONE" \in State
      BY DEF State
    <3>1. a.decoded.ended = "NONE" /\ a.decoded.ctx = Meaning(origin)
      BY <1>10 DEF OpenText, Whole, Meaning, Read
    <3>2. LET b == Read(fed', a.decoded.ctx)
          IN  Read(origin \o fed', "NONE")
                = [decoded |-> [ctx   |-> b.decoded.ctx,
                                out   |-> a.decoded.out \o b.decoded.out,
                                ended |-> b.decoded.ended],
                   read    |-> Len(origin) + b.read]
      BY <1>10, <1>13, <3>0, <3>1, ReadConcat
    <3>3. Article' = Read(fed', Meaning(origin))
      BY <1>9 DEF Article, Read, Meaning
    <3> HIDE DEF a
    <3>4. /\ Read(origin \o fed', "NONE").decoded.ctx = Article'.decoded.ctx
          /\ Read(origin \o fed', "NONE").decoded.ended = Article'.decoded.ended
          /\ Read(origin \o fed', "NONE").read = Len(origin) + Article'.read
      BY <3>1, <3>2, <3>3
    <3> QED
      BY <1>11, <1>12, <1>13, <2>1, <3>4 DEF Whole
  <2>3. Tells(w, d.ctx, d.ended)
    <3> HIDE DEF w
    <3> QED
      BY <2>1, <2>2, TellsWhole
  <2> HIDE DEF w
  <2>4. CASE d.ended = "NONE"
    <3>1. held' = decodePrev[d.ctx]
      BY <1>9, <2>4 DEF StateText
    <3>2. Shows(w, d.ctx)
      BY <2>3, <2>4 DEF Tells
    <3> QED
      BY <1>9, <3>1, <3>2, decodePrevIs DEF Shows, StateIsWhatWasRead, w
  <2>5. CASE d.ended = "CONTROL"
    <3>1. held' = <<CR, LF, EQ, Y>>
      BY <1>9, <2>5 DEF StateText
    <3>2. EndsIn(w, <<CR, LF, EQ, Y>>) \/ EndsIn(w, <<CR, LF, DOT, EQ, Y>>)
      BY <2>3, <2>5 DEF Tells
    <3> QED
      BY <1>9, <3>1, <3>2 DEF StateIsWhatWasRead, w
  <2>6. CASE d.ended = "ARTICLE"
    <3>1. held' = <<CR, LF, DOT, CR, LF>>
      BY <1>9, <2>6 DEF StateText
    <3>2. EndsIn(w, <<CR, LF, DOT, CR, LF>>)
      BY <2>3, <2>6 DEF Tells
    <3> QED
      BY <1>9, <3>1, <3>2 DEF StateIsWhatWasRead, w
  <2> QED
    BY <1>8, <2>4, <2>5, <2>6 DEF End
<1> QED
  BY <1>14, <1>15, <1>16, <1>17 DEF Inv

(* Every call of decodeChunk.                                              *)
LEMMA CallInv ==
    ASSUME Texts, Inv, NEW data \in Chunk, NEW second, NEW third,
           (IF second.is = "text" THEN second.text ELSE third.text) = held,
           Took(data, decodeChunk(data, second, third))
    PROVE  Inv'
<1> DEFINE r == decodeChunk(data, second, third)
<1>1. Idle(data, r) \/ Failed(r) \/ Decoded(data, r)
  BY DecodeChunkIs
<1> HIDE DEF r
<1>2. Took(data, r)
  BY DEF r
<1>3. CASE Idle(data, r)
  BY <1>2, <1>3, NothingReadInv DEF Idle, Took
<1>4. CASE Failed(r)
  BY <1>2, <1>4, NothingReadInv DEF Failed, Took
<1>5. CASE Decoded(data, r)
  BY <1>2, <1>5, DecodedInv
<1> QED
  BY <1>1, <1>3, <1>4, <1>5

(* A caller begins with a new article.                                     *)
LEMMA InitInv == ASSUME Texts, CallerInit PROVE Inv
<1>1. "CRLF" \in State /\ "NONE" \in State /\ decodePrev["CRLF"] = <<CR, LF>>
  BY decodePrevIs DEF State
<1>2. OpenText(<<CR, LF>>) /\ Meaning(<<CR, LF>>) = "CRLF"
  BY <1>1, decodePrevMeans
<1>3. Article = Read(<<>>, "CRLF")
  BY <1>2 DEF CallerInit, Article, Read
<1>4. Article = [decoded |-> [ctx |-> "CRLF", out |-> <<>>, ended |-> "NONE"], read |-> 0]
  BY <1>1, <1>3, ReadNothing
<1>5. Dec = [ctx |-> "CRLF", out |-> <<>>, ended |-> "NONE"]
  BY <1>4 DEF Dec
<1>6. Fed
  BY <1>2, <1>4, <1>5, Texts4 DEF CallerInit, Fed
<1>7. Holds
  BY <1>5 DEF CallerInit, Holds
<1>8. Reports
  BY DEF CallerInit, Reports, NoResult
<1>9. StateIsWhatWasRead
  BY DEF CallerInit, StateIsWhatWasRead
<1> QED
  BY <1>6, <1>7, <1>8, <1>9 DEF Inv

(* decodeTo leaves the article alone.                                      *)
LEMMA UnchangedInv == ASSUME Inv, UNCHANGED <<held, origin, fed, got>>,
                             result' = result \/ result'.call = "decodeTo"
                      PROVE  Inv'
<1>1. Article' = Article
  BY DEF Article, Meaning
<1>2. Dec' = Dec
  BY <1>1 DEF Dec
<1>3. Fed' /\ Holds' /\ StateIsWhatWasRead'
  BY <1>1, <1>2 DEF Inv, Fed, Holds, StateIsWhatWasRead
<1>4. Reports'
  BY <1>2 DEF Inv, Reports
<1> QED
  BY <1>3, <1>4 DEF Inv

(* The invariant is kept by every call a caller may make.                  *)
LEMMA Invariance == ASSUME Texts PROVE CallerSpec => []Inv
<1>1. ASSUME Inv, [CallerNext]_callerVars PROVE Inv'
  <2>1. CASE Feed
    <3>1. PICK data \in Chunk, given \in {NoBuffer, Short, Enough} :
             Took(data, IF given = NoBuffer
                        THEN decodeChunk(data, AsText(held), Output(NoBuffer))
                        ELSE decodeChunk(data, Output(given), AsText(held)))
      BY <2>1 DEF Feed
    <3>2. /\ AsText(held).is = "text" /\ AsText(held).text = held
          /\ Output(given).is # "text"
      BY DEF AsText, Output
    <3>3. CASE given = NoBuffer
      <4>1. (IF AsText(held).is = "text" THEN AsText(held).text ELSE Output(NoBuffer).text) = held
        BY <3>2
      <4>2. Took(data, decodeChunk(data, AsText(held), Output(NoBuffer)))
        BY <3>1, <3>3
      <4> QED
        BY <1>1, <4>1, <4>2, CallInv
    <3>4. CASE given # NoBuffer
      <4>1. (IF Output(given).is = "text" THEN Output(given).text ELSE AsText(held).text) = held
        BY <3>2
      <4>2. Took(data, decodeChunk(data, Output(given), AsText(held)))
        BY <3>1, <3>4
      <4> QED
        BY <1>1, <4>1, <4>2, CallInv
    <3> QED
      BY <3>3, <3>4
  <2>2. CASE FeedAsDocumented
    <3>1. PICK data \in Chunk : Took(data, decodeChunk(data, AsText(held), Output(Enough)))
      BY <2>2 DEF FeedAsDocumented
    <3>2. (IF AsText(held).is = "text" THEN AsText(held).text ELSE Output(Enough).text) = held
      BY DEF AsText
    <3> QED
      BY <1>1, <3>1, <3>2, CallInv
  <2>3. CASE NewArticle
    <3>1. OpenText(<<CR, LF>>)
      <4>1. "CRLF" \in State /\ decodePrev["CRLF"] = <<CR, LF>>
        BY decodePrevIs DEF State
      <4> QED
        BY <4>1, decodePrevMeans
    <3> DEFINE text == <<CR, LF>>
    <3>2. /\ held' = null /\ origin' = text
          /\ fed' = <<>> /\ got' = <<>> /\ result' = NoResult
      BY <2>3 DEF NewArticle
    <3>3. text \in Seq(Char) /\ text = <<CR, LF>>
      BY Texts4
    <3> HIDE DEF text
    <3>4. OpenText(text)
      BY <3>1, <3>3
    <3> QED
      BY <3>2, <3>3, <3>4, FreshInv
  <2>4. CASE Resume
    <3>1. PICK text \in Prev : /\ held' = text /\ origin' = text
                               /\ fed' = <<>> /\ got' = <<>> /\ result' = NoResult
      BY <2>4 DEF Resume
    <3>2. text \in Seq(Char) /\ OpenText(text) /\ (Len(text) <= 4 \/ Accepted(text))
      BY DEF Texts, OpenText, Whole, Read, Accepted
    <3> QED
      BY <3>1, <3>2, FreshInv
  <2>5. CASE DecodeTo
    <3>1. PICK length : /\ result' = [call |-> "decodeTo", threw |-> "", length |-> length]
                        /\ UNCHANGED <<held, origin, fed, got>>
      BY <2>5, ZenonT(30) DEF DecodeTo
    <3>2. result'.call = "decodeTo"
      BY <3>1
    <3> QED
      BY <1>1, <3>1, <3>2, UnchangedInv
  <2>6. CASE UNCHANGED callerVars
    BY <1>1, <2>6, UnchangedInv DEF callerVars
  <2> QED
    BY <1>1, <2>1, <2>2, <2>3, <2>4, <2>5, <2>6 DEF CallerNext
<1> QED
  BY <1>1, InitInv, PTL DEF CallerSpec

(* However an article is cut into chunks, and with the state in between    *)
(* going through text and back, decodeChunk yields what the article        *)
(* decodes to in one piece, reads nothing past its end, and the text the   *)
(* caller holds stands for the context of the decoder.                     *)
THEOREM ArticleIsContinued == ASSUME Texts PROVE CallerSpec => []ContinuesStream
<1>1. ASSUME Inv PROVE ContinuesStream
  <2>1. got = Article.decoded.out /\ Len(fed) = Article.read
    BY <1>1 DEF Inv, Fed, Dec
  <2>2. result.call = "decodeChunk" /\ fed # <<>> /\ result.read > 0
          => result.ended = Article.decoded.ended
    BY <1>1 DEF Inv, Reports, Dec
  <2>3. ASSUME Article.decoded.ended = "NONE"
        PROVE  Article.decoded.ctx = IF held = null THEN "CRLF" ELSE Meaning(held)
    <3>1. CASE held = null
      <4>1. fed = <<>> /\ origin = <<CR, LF>>
        BY <1>1, <3>1 DEF Inv, Holds
      <4>2. "CRLF" \in State /\ decodePrev["CRLF"] = <<CR, LF>>
        BY decodePrevIs DEF State
      <4>3. Meaning(<<CR, LF>>) = "CRLF"
        BY <4>2, decodePrevMeans
      <4>4. Article = Read(<<>>, "CRLF")
        BY <4>1, <4>3 DEF Article, Read
      <4> QED
        BY <3>1, <4>2, <4>4, ReadNothing
    <3>2. CASE held # null
      BY <1>1, <2>3, <3>2 DEF Inv, Holds, Dec
    <3> QED
      BY <3>1, <3>2
  <2> QED
    BY <2>1, <2>2, <2>3 DEF ContinuesStream
<1> QED
  BY <1>1, Invariance, PTL

(* The text decodeChunk returns is what was read last, whatever was read   *)
(* and however it was cut, but for the dot it leaves out of "\r\n.=".      *)
THEOREM StateTextIsWhatWasRead == ASSUME Texts PROVE CallerSpec => []StateIsWhatWasRead
<1>1. Inv => StateIsWhatWasRead
  BY DEF Inv
<1> QED
  BY <1>1, Invariance, PTL
=============================================================================
