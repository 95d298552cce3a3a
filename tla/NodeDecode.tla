------------------------------ MODULE NodeDecode ------------------------------
(***************************************************************************)
(* Decoding as a JavaScript caller sees it: decodeChunk (src/index.js) on  *)
(* top of DecodeIncr, and decodeTo, which is DecodeTo itself               *)
(* (src/src/yencode.cc).  decodeChunk turns the decoder's state into the   *)
(* text that leads to it, and the text the caller hands back into the      *)
(* state again.                                                            *)
(*                                                                         *)
(* A call is synchronous, so a step is a whole call.  The caller feeds the *)
(* state it was given to the next call, starts a new article, or resumes   *)
(* one with a text of its own.  The decoder behind the binding is the      *)
(* byte-by-byte stream, which DecodeEnd implements.                        *)
(***************************************************************************)
EXTENDS YencAutomaton

CONSTANTS Chunk,        \* what the caller may have read from the network
          Prev,         \* texts it may resume with, both of characters
          MaxFed        \* bound: the bytes of one article

VARIABLES held,         \* the state the caller holds, null for a new article
          result,       \* of the last call
          origin,       \* history: the text the article was resumed with;
          fed, got      \*   the bytes of it read, and those decoded

callerVars == <<held, result, origin, fed, got>>

null      == <<"null">>         \* no text has this byte
NoBuffer  == "none"             \* the output argument: left out,
Short     == "short"            \*   a Buffer smaller than the data,
Enough    == "enough"           \*   or one that is not

LastOf(s, n) == IF Len(s) <= n THEN s ELSE SubSeq(s, Len(s) - n + 1, Len(s))
EndsIn(s, t) == Len(t) <= Len(s) /\ LastOf(s, Len(t)) = t

Stream == INSTANCE YencStream WITH
            Start <- "CRLF", To <- Goto, Yields <- Emit, Ends <- Verdict,
            chunk <- <<>>, at <- 0,
            decoded <- [ctx |-> "CRLF", out |-> <<>>, ended |-> "NONE"]

RawStream == INSTANCE YencStream WITH
               Start <- "CRLF", To <- RawGoto, Yields <- RawEmit, Ends <- NoEnd,
               chunk <- <<>>, at <- 0,
               decoded <- [ctx |-> "CRLF", out |-> <<>>, ended |-> "NONE"]

UnstuffedStream == INSTANCE YencStream WITH
                     Start <- "CRLF", To <- UnstuffedGoto, Yields <- UnstuffedEmit, Ends <- NoEnd,
                     chunk <- <<>>, at <- 0,
                     decoded <- [ctx |-> "CRLF", out |-> <<>>, ended |-> "NONE"]

\* Fault: of "\r\n.\r" the last byte is all that is kept.
decodePrevFault == [CRLF |-> <<CR, LF>>, EQ |-> <<EQ>>, CR |-> <<CR>>, NONE |-> <<>>,
                    CRLFDT |-> <<CR, LF, DOT>>, CRLFDTCR |-> <<CR>>,
                    CRLFEQ |-> <<CR, LF, EQ>>]

\* By the values of YencDecoderState.
decodePrev == [CRLF |-> <<CR, LF>>, EQ |-> <<EQ>>, CR |-> <<CR>>, NONE |-> <<>>,
               CRLFDT |-> <<CR, LF, DOT>>, CRLFDTCR |-> <<CR, LF, DOT, CR>>,
               CRLFEQ |-> <<CR, LF, EQ>>]

\* Fault: the two ends are confused.
StateTextFault(state, ended) == IF ended = "ARTICLE" THEN <<CR, LF, EQ, Y>>
                                ELSE IF ended = "CONTROL" THEN <<CR, LF, DOT, CR, LF>>
                                ELSE decodePrev[state]

\* [decodePrev[ret.state], '\r\n=y', '\r\n.\r\n'][ret.ended]
StateText(state, ended) == IF ended = "CONTROL" THEN <<CR, LF, EQ, Y>>
                           ELSE IF ended = "ARTICLE" THEN <<CR, LF, DOT, CR, LF>>
                           ELSE decodePrev[state]

-----------------------------------------------------------------------------
(* decodeChunk.                                                            *)

Normalised(prev) ==
    IF prev = null THEN <<CR, LF>>
    ELSE IF LastOf(prev, 4) = <<CR, LF, DOT, EQ>> THEN <<CR, LF, EQ>>
    ELSE LastOf(prev, 4)

Known(text) == {s \in State : decodePrev[s] = text}

\* decodePrev.indexOf(prev), then of its last three bytes; the loop would go on to
\* the last two, but for(var l=-3; l<0; i++) fails on i, which is not declared.
StateOf(prev) == IF Known(prev) # {} THEN Known(prev) ELSE Known(LastOf(prev, 3))

\* What a caller may resume with: texts an end has not been passed in, of the "up to
\* 4 characters" README.md speaks of, or longer ones that are accepted.
Texts == /\ Chunk \subseteq Seq(Char) /\ Prev \subseteq Seq(Char)
         /\ null \notin Seq(Char)
         /\ \A t \in Prev : /\ Stream!After(t, "NONE").decoded.ended = "NONE"
                            /\ Len(t) <= 4 \/ StateOf(Normalised(t)) # {}

Thrown(what) == [threw |-> what, read |-> 0, out |-> <<>>, output |-> NoBuffer,
                 ended |-> "NONE", state |-> null]

\* DecodeIncr; a result without an output of its own is given the caller's.
decodeIncr(data, state, output) ==
    IF output = Short THEN Thrown("Error")
    ELSE LET r == Stream!After(data, state)
             d == r.decoded
         IN  [threw |-> "", read |-> r.read, out |-> d.out,
              output |-> IF output = Enough THEN "callers" ELSE "new",
              ended |-> d.ended, state |-> StateText(d.ctx, d.ended)]

\* The arguments after data.  Whatever is not a Buffer in the second place is taken
\* for prev, and a third argument is then not looked at.
decodeChunk(data, second, third) ==
    LET prev   == Normalised(IF second.is = "text" THEN second.text ELSE third.text)
        output == IF second.is = "text" THEN NoBuffer ELSE second.size
    IN  IF data = <<>>
        THEN [threw |-> "", read |-> 0, out |-> <<>>, output |-> "new",
              ended |-> "NONE", state |-> prev]
        ELSE IF StateOf(prev) = {} THEN Thrown("ReferenceError")
        ELSE decodeIncr(data, CHOOSE s \in StateOf(prev) : TRUE, output)

AsText(t)    == [is |-> "text", text |-> t, size |-> NoBuffer]
Output(size) == [is |-> "Buffer", text |-> null, size |-> size]

-----------------------------------------------------------------------------
(* The caller.                                                             *)

NoResult == [call |-> "none", threw |-> "", read |-> 0, ended |-> "NONE"]

CallerInit == /\ held = null /\ origin = <<CR, LF>>
              /\ fed = <<>> /\ got = <<>>
              /\ result = NoResult

\* What the properties tell apart of a result.
Took(data, r) ==
    /\ result' = [call |-> "decodeChunk", threw |-> r.threw, read |-> r.read, ended |-> r.ended]
    /\ fed' = fed \o SubSeq(data, 1, r.read)
    /\ got' = got \o r.out
    /\ held' = IF r.threw = "" THEN r.state ELSE held
    /\ UNCHANGED origin

Fits(data) == Len(fed) + Len(data) <= MaxFed

\* decodeChunk(data, state) or, in the order of index.js, decodeChunk(data, output, state)
Feed == \E data \in Chunk, given \in {NoBuffer, Short, Enough} :
    /\ Fits(data) /\ (data = <<>> => given # Short)
    /\ Took(data,
            IF given = NoBuffer THEN decodeChunk(data, AsText(held), Output(NoBuffer))
            ELSE decodeChunk(data, Output(given), AsText(held)))

\* decodeChunk(data, state, output), the order of README.md: output is not looked at
FeedAsDocumented == \E data \in Chunk :
    /\ Fits(data)
    /\ Took(data, decodeChunk(data, AsText(held), Output(Enough)))

NewArticle == /\ held' = null /\ origin' = <<CR, LF>>
              /\ fed' = <<>> /\ got' = <<>> /\ result' = NoResult

\* With a text of the caller's own as the state.
Resume == \E text \in Prev :
    /\ held' = text /\ origin' = text
    /\ fed' = <<>> /\ got' = <<>> /\ result' = NoResult

\* The decoded length; without a state, the \r of an "=\r\n" the data ends with may be left
\* out of it by the vectors (DecodeSimd, OneShotDecodes).
Lengths(data, isRaw) ==
    LET d == IF isRaw THEN RawStream!After(data, "CRLF") ELSE UnstuffedStream!After(data, "CRLF")
    IN  {Len(d.decoded.out) - lost :
            lost \in IF isRaw /\ EndsIn(data, <<EQ, CR, LF>>) THEN {0, 1} ELSE {0}}

\* decodeTo(data, output, stripDots): 0 if the output is too short, and nothing is thrown
DecodeTo == \E data \in Chunk, given \in {Short, Enough}, isRaw \in BOOLEAN :
    /\ data = <<>> => given # Short
    /\ \E length \in IF given = Short THEN {0} ELSE Lengths(data, isRaw) :
          result' = [call |-> "decodeTo", threw |-> "", length |-> length]
    /\ UNCHANGED <<held, origin, fed, got>>

CallerNext == Feed \/ FeedAsDocumented \/ NewArticle \/ Resume \/ DecodeTo
CallerSpec == CallerInit /\ [][CallerNext]_callerVars

-----------------------------------------------------------------------------
(* Properties.                                                             *)

\* The context a text stands for, with nothing known of what came before it.
Meaning(text) == Stream!After(text, "NONE").decoded.ctx

Article == Stream!After(fed, Meaning(origin))

(* Fed chunk by chunk, with the states in between going through text and   *)
(* back, an article decodes as it would in one piece; nothing is read past *)
(* its end; and the text held stands for the context the decoder is in.    *)
ContinuesStream ==
    /\ got = Article.decoded.out /\ Len(fed) = Article.read
    /\ result.call = "decodeChunk" /\ fed # <<>> /\ result.read > 0
         => result.ended = Article.decoded.ended
    /\ Article.decoded.ended = "NONE" =>
         Article.decoded.ctx = IF held = null THEN "CRLF" ELSE Meaning(held)

(* The state "indicates the last few (up to 4) characters encountered":    *)
(* the text held is what the article read so far ends in, but for the dot  *)
(* of "\r\n.=", which it leaves out.                                       *)
StateIsWhatWasRead ==
    \/ held = null
    \/ EndsIn(origin \o fed, held)
    \/ held = <<CR, LF, EQ>>    /\ EndsIn(origin \o fed, <<CR, LF, DOT, EQ>>)
    \/ held = <<CR, LF, EQ, Y>> /\ EndsIn(origin \o fed, <<CR, LF, DOT, EQ, Y>>)

(* "Feed this into the next invocation of decodeChunk": a state the        *)
(* decoder has returned is always accepted (README.md).                    *)
AcceptsItsStates == result.threw # "ReferenceError"
=============================================================================
