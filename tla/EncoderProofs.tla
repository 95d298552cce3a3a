---------------------------- MODULE EncoderProofs ----------------------------
(***************************************************************************)
(* Proofs about Encoder, for every set of data, every set of line sizes,   *)
(* every length of a run and every alphabet: that it stays in the space it *)
(* checks for; that it writes what the tests' reference encoder writes;    *)
(* that this decodes to the data, and is laid out in lines; and the column *)
(* it returns.                                                             *)
(***************************************************************************)
EXTENDS Encoder, DataInduction

-----------------------------------------------------------------------------
(* The inductive invariant of space.                                       *)

Labels == {"idle", "first", "line", "runs", "run", "rest", "newline", "end", "done"}

Typed == /\ pc \in Labels
         /\ line_size \in LineSize /\ colOffset \in 0..(line_size - 1)
         /\ src \in Data \union {<<>>} /\ doEnd \in BOOLEAN
         /\ i \in 0..Len(src) /\ top \in Nat /\ col \in Nat
         /\ dest \in Seq(Char)
         /\ sp \in NULL..Len(dest) /\ n \in 0..Run

\* Lengths, and the columns of q full lines, by name: the provers then see numbers only.
Size    == Len(src)
Used    == Len(dest)
Full(q) == q * line_size

EndsBlank == dest # <<>> /\ Last(dest) \in Blank

\* How much of the data is left where.
ReadInv == /\ pc = "idle" => src = <<>> /\ i = 0 /\ dest = <<>> /\ top = 0 /\ col = 0
           /\ pc # "idle" => src \in Data
           /\ pc = "first" => i = 0 /\ dest = <<>> /\ top = 0 /\ col = colOffset
           /\ pc \in {"first", "runs", "rest", "newline"} => i < Size
           /\ pc = "run" => i + 1 + Run < Size
           /\ pc \in {"end", "done"} => i = Size /\ dest # <<>>
           /\ pc = "line" /\ i > 0 => dest # <<>>

\* What the current run has written, and what it can still go back to.
RunInv == /\ pc = "run" => /\ col + 1 + Run < line_size
                           /\ sp >= 0 /\ sp + n <= Used /\ Used <= sp + 2 * n
          /\ pc = "runs" /\ sp >= 0 => /\ i >= Run
                                       /\ sp + Run <= Used /\ Used <= sp + 2 * Run
                                       /\ col >= Used - sp
                                       /\ col - (Used - sp) + 1 + Run < line_size

\* Only the first column of a line of one can be followed by one too many.
ColInv == /\ pc \notin {"runs", "run"} => col <= line_size + 1
          /\ pc = "runs" /\ sp < 0 => col <= line_size + 1
          /\ pc \in {"line", "end"} /\ col > line_size => ~EndsBlank

\* q newlines have been written.  Each ended a line of line_size columns at least,
\* and no byte of the data has taken more than two.
Columns(q) == Used - 2 * q

Layout(q) ==
    /\ 0 <= Columns(q) /\ Full(q) <= colOffset + Columns(q)
    /\ pc # "run" => Columns(q) <= 2 * i
    /\ pc \in {"idle", "first", "line", "runs", "rest"} => Full(q) + col <= colOffset + Columns(q)
    /\ pc = "newline" => Full(q) + line_size <= colOffset + Columns(q)
    /\ pc \in {"line", "end"} /\ EndsBlank => Columns(q) < 2 * i
    /\ pc = "run" => /\ Columns(q) <= 2 * (i + n)
                     /\ Full(q) + col + (Used - sp) <= colOffset + Columns(q)
                     /\ 0 <= sp - 2 * q /\ sp - 2 * q <= 2 * i
    /\ pc = "runs" /\ sp >= 0 => 0 <= sp - 2 * q /\ sp - 2 * q <= 2 * (i - Run)

SizeInv == \E q \in Nat : Layout(q)

Inv == Typed /\ ReadInv /\ RunInv /\ ColInv /\ SizeInv /\ FitsMaxSize

-----------------------------------------------------------------------------
(* Arithmetic, and what is written.                                        *)

LEMMA Monotonic ==
    ASSUME NEW a \in Nat, NEW b \in Nat, NEW s \in Nat, a <= b
    PROVE  a * s <= b * s
<1>1. PICK d \in Nat : b = a + d
  <2>1. b - a \in Nat /\ b = a + (b - a)
    OBVIOUS
  <2> QED
    BY <2>1
<1>2. b * s = a * s + d * s
  BY <1>1, SMT
<1>3. d * s \in Nat /\ a * s \in Nat
  BY SMT
<1> QED
  BY <1>2, <1>3, SMT

LEMMA MaxSizeType ==
    ASSUME NEW len \in Nat, NEW s \in Nat \ {0}
    PROVE  YENC_MAX_SIZE(len, s) \in Nat
<1>1. (len * 2) \div s \in Nat
  BY SMT
<1> QED
  BY <1>1, SMT DEF YENC_MAX_SIZE

\* Full lines of s columns in at most 2 * len columns after an offset.
LEMMA LinesInColumns ==
    ASSUME NEW q \in Nat, NEW s \in Nat \ {0}, NEW len \in Nat, NEW offset \in 0..(s - 1),
           q * s <= offset + 2 * len
    PROVE  2 * q + 2 * len <= YENC_MAX_SIZE(len, s)
<1> DEFINE d == (len * 2) \div s
<1>1. d \in Nat /\ len * 2 < d * s + s
  BY SMT
<1>2. (d + 2) * s = d * s + s + s
  BY <1>1, SMT
<1>3. ~(d + 2 <= q)
  <2>1. SUFFICES ASSUME d + 2 <= q PROVE FALSE
    OBVIOUS
  <2>2. (d + 2) * s <= q * s
    BY <1>1, <2>1, Monotonic
  <2>3. d * s \in Nat /\ q * s \in Nat
    BY <1>1, SMT
  <2> QED
    BY <1>1, <1>2, <2>2, <2>3, SMT
<1>4. q <= d + 1
  BY <1>1, <1>3, SMT
<1> QED
  BY <1>1, <1>4, SMT DEF YENC_MAX_SIZE

LEMMA ShiftedNotBlank ==
    ASSUME NEW c \in Critical \union Edgy
    PROVE  Shifted[c] \notin Blank
  BY DEF Shifted, Critical, Edgy, Blank, NUL, CR, LF, EQ, TAB, SP, DOT

\* A byte takes one character, or two of which the second is no blank.
LEMMA CodeFacts ==
    ASSUME NEW c \in Char, NEW e \in BOOLEAN, e => c \in Critical \union Edgy
    PROVE  /\ Code(c, e) \in Seq(Char)
           /\ Code(c, e) # <<>>
           /\ \/ Len(Code(c, e)) = 1
              \/ Len(Code(c, e)) = 2 /\ Last(Code(c, e)) \notin Blank
<1>1. CASE e
  <2>1. c \in DOMAIN Shifted
    BY <1>1 DEF Shifted
  <2>2. Shifted[c] \in Char
    BY <2>1, WireAssumption DEF Char
  <2>3. Code(c, e) = <<EQ, Shifted[c]>>
    BY <1>1 DEF Code, Escape
  <2>4. EQ \in Char
    BY DEF Char, Special
  <2>5. Shifted[c] \notin Blank
    BY <1>1, ShiftedNotBlank
  <2> QED
    BY <2>2, <2>3, <2>4, <2>5 DEF Last
<1>2. CASE ~e
  <2>1. Code(c, e) = <<c>>
    BY <1>2 DEF Code
  <2> QED
    BY <2>1
<1> QED
  BY <1>1, <1>2

-----------------------------------------------------------------------------
(* Types, what is written, and the space it takes.                         *)

LEMMA Arguments ==
    ASSUME Typed
    PROVE  /\ line_size \in Nat \ {0} /\ colOffset \in Nat /\ colOffset < line_size
           /\ colOffset \in 0..(line_size - 1)
           /\ Run \in Nat \ {0}
           /\ Size \in Nat /\ i \in Nat /\ i <= Size
           /\ Used \in Nat /\ sp \in Int /\ sp >= -1 /\ sp <= Used
           /\ col \in Nat /\ top \in Nat /\ n \in Nat /\ n <= Run
           /\ Rem = Size - i
<1>1. line_size \in Nat \ {0} /\ Run \in Nat \ {0}
  BY SizeAssumption DEF Typed
<1>2. src \in Seq(Char)
  <2>1. <<>> \in Seq(Char)
    BY EmptySeq
  <2> QED
    BY <2>1, DataAssumption DEF Typed
<1>3. Len(src) \in Nat /\ Len(dest) \in Nat
  BY <1>2 DEF Typed
<1> QED
  BY <1>1, <1>3 DEF Typed, NULL, Size, Used, Rem

LEMMA FullFacts ==
    ASSUME Typed, NEW q \in Nat
    PROVE  /\ Full(q) \in Nat /\ Full(0) = 0 /\ Full(q + 1) = Full(q) + line_size
           /\ Columns(q) = Used - 2 * q /\ Columns(q) \in Int
<1>1. line_size \in Nat /\ Used \in Nat
  BY Arguments
<1>2. Full(q) \in Nat /\ Full(0) = 0
  BY <1>1, SMT DEF Full
<1>3. (q + 1) * line_size = q * line_size + line_size
  BY <1>1, SMT
<1> QED
  BY <1>1, <1>2, <1>3 DEF Full, Columns

LEMMA Bytes ==
    ASSUME Typed, i < Size, NEW k \in Nat, i + k < Size
    PROVE  src[i + k + 1] \in Char
<1>1. src \in Seq(Char)
  <2>1. <<>> \in Seq(Char)
    BY EmptySeq
  <2> QED
    BY <2>1, DataAssumption DEF Typed
<1>2. i + k + 1 \in 1..Len(src)
  <2>1. i \in Nat /\ Size \in Nat
    BY Arguments
  <2>2. i + k + 1 \in 1..Size
    BY <2>1
  <2> QED
    BY <2>2 DEF Size
<1> QED
  BY <1>1, <1>2

LEMMA HereIsByte ==
    ASSUME Typed, i < Size
    PROVE  Here \in Char
<1>1. src[i + 0 + 1] \in Char
  BY Bytes, Arguments, 0 \in Nat
<1>2. i + 0 + 1 = i + 1
  BY Arguments
<1> QED
  BY <1>1, <1>2 DEF Here

LEMMA Appended ==
    ASSUME NEW s \in Seq(Char), NEW t \in Seq(Char), NEW m \in Nat \ {0}, Len(t) = m
    PROVE  s \o t \in Seq(Char) /\ Len(s \o t) = Len(s) + m /\ Last(s \o t) = Last(t)
  BY DEF Last

LEMMA WroteCode ==
    ASSUME Typed, FitsMaxSize,
           NEW c \in Char, NEW e \in BOOLEAN, e => c \in Critical \union Edgy,
           Write(Code(c, e), 0)
    PROVE  \E k \in 1..2 :
              /\ Len(Code(c, e)) = k
              /\ dest' \in Seq(Char) /\ dest' # <<>> /\ Used' = Used + k
              /\ EndsBlank' => k = 1
              /\ top' \in Nat /\ Len(dest') <= top' /\ (top' = top \/ top' = Used + k)
<1> DEFINE chars == Code(c, e)
<1>1. /\ chars \in Seq(Char) /\ chars # <<>>
      /\ \/ Len(chars) = 1
         \/ Len(chars) = 2 /\ Last(chars) \notin Blank
  BY CodeFacts
<1>2. PICK k \in 1..2 : Len(chars) = k /\ (Last(chars) \in Blank => k = 1)
  <2>1. CASE Len(chars) = 1
    BY <2>1
  <2>2. CASE Len(chars) = 2 /\ Last(chars) \notin Blank
    BY <2>2
  <2> QED
    BY <1>1, <2>1, <2>2
<1> HIDE DEF chars
<1>3. Write(chars, 0)
  BY DEF chars
<1>4. /\ dest' = dest \o chars /\ dest \in Seq(Char)
      /\ top' = IF Len(dest) + k > top THEN Len(dest) + k ELSE top
  <2>1. /\ dest' = dest \o chars
        /\ top' = IF Len(dest) + k + 0 > top THEN Len(dest) + k + 0 ELSE top
    BY <1>2, <1>3 DEF Write
  <2>2. Len(dest) + k + 0 = Len(dest) + k
    BY <1>2, Arguments DEF Used
  <2> QED
    BY <2>1, <2>2 DEF Typed
<1>5. /\ dest' \in Seq(Char) /\ Len(dest') = Len(dest) + Len(chars) /\ Len(dest) \in Nat
      /\ Last(dest') = Last(chars)
  BY <1>1, <1>2, <1>4 DEF Last
<1>6. dest' # <<>>
  BY <1>2, <1>5
<1>7. Len(dest) <= top /\ top \in Nat
  BY DEF FitsMaxSize, Typed
<1> QED
  BY <1>2, <1>4, <1>5, <1>6, <1>7 DEF Used, EndsBlank, chars

\* A write of at most two bytes per byte of the data, and two per newline, fits.
LEMMA StillFits ==
    ASSUME Typed, FitsMaxSize, UNCHANGED args, NEW q \in Nat, NEW used \in Nat,
           Full(q) <= colOffset + 2 * Size, used <= 2 * q + 2 * Size,
           Len(dest') <= top', top' = top \/ top' = used
    PROVE  FitsMaxSize'
<1>1. 2 * q + 2 * Size <= YENC_MAX_SIZE(Size, line_size)
  BY Arguments, LinesInColumns DEF Full
<1>2. YENC_MAX_SIZE(Size, line_size) \in Nat
  BY Arguments, MaxSizeType
<1>3. used <= YENC_MAX_SIZE(Size, line_size)
  <2>1. PICK m \in Nat : m = YENC_MAX_SIZE(Size, line_size)
    BY <1>2
  <2>2. 2 * q + 2 * Size <= m /\ Size \in Nat
    BY <1>1, <2>1, Arguments
  <2>3. used <= m
    BY <2>2
  <2> QED
    BY <2>1, <2>3
<1>4. src' = src /\ line_size' = line_size
  BY DEF args
<1>5. CASE top' = top
  BY <1>4, <1>5 DEF FitsMaxSize
<1>6. CASE top' = used
  BY <1>3, <1>4, <1>6 DEF FitsMaxSize, Size
<1> QED
  BY <1>5, <1>6

LEMMA Same ==
    ASSUME UNCHANGED args, NEW q
    PROVE  /\ Size' = Size /\ Full(q)' = Full(q)
           /\ line_size' = line_size /\ colOffset' = colOffset /\ src' = src /\ doEnd' = doEnd
  BY DEF args, Size, Full

-----------------------------------------------------------------------------
(* The invariant holds at first, and every action keeps it.                *)

LEMMA InitInv == Init => Inv
<1> SUFFICES ASSUME Init PROVE Inv
  OBVIOUS
<1>1. Typed
  <2>1. line_size \in Nat \ {0} /\ Run \in Nat \ {0}
    BY SizeAssumption DEF Init
  <2>2. <<>> \in Seq(Char) /\ Len(<<>>) = 0
    BY EmptySeq
  <2> QED
    BY <2>1, <2>2 DEF Init, Typed, Labels, NULL
<1>2. Size = 0 /\ Used = 0 /\ pc = "idle" /\ i = 0 /\ col = 0 /\ colOffset = 0 /\ sp < 0
  BY EmptySeq DEF Init, Size, Used, NULL
<1>3. ReadInv /\ RunInv
  BY <1>2 DEF Init, ReadInv, RunInv
<1>4. ColInv
  BY <1>1, <1>2, Arguments DEF ColInv
<1>5. Layout(0)
  <2>1. Full(0) = 0 /\ Columns(0) = 0
    BY <1>1, <1>2, FullFacts, 0 \in Nat
  <2> QED
    BY <1>2, <2>1 DEF Layout
<1>6. FitsMaxSize
  <2>1. YENC_MAX_SIZE(0, line_size) \in Nat
    BY <1>1, Arguments, MaxSizeType, 0 \in Nat
  <2> QED
    BY <1>2, <2>1, EmptySeq DEF Init, FitsMaxSize, Size
<1> QED
  BY <1>1, <1>3, <1>4, <1>5, <1>6 DEF Inv, SizeInv

LEMMA CallInv == ASSUME Inv, Call PROVE Inv'
<1>1. PICK q \in Nat : Layout(q)
  BY DEF Inv, SizeInv
<1>2. /\ pc = "idle" /\ pc' = "first" /\ line_size' = line_size /\ col' = colOffset'
      /\ i' = 0 /\ dest' = <<>> /\ top' = 0 /\ sp' = sp /\ n' = n /\ dest = <<>>
      /\ src' \in Data /\ doEnd' \in BOOLEAN
  BY DEF Call, Inv, ReadInv
<1>3. colOffset' \in 0..(line_size - 1)
  BY Arguments DEF Call, Inv
<1>4. src' \in Seq(Char) /\ src' # <<>> /\ Len(src') \in Nat /\ Len(src') > 0
  <2>1. src' \in Seq(Char) /\ src' # <<>>
    BY <1>2, DataAssumption
  <2> QED
    BY <2>1
<1>5. Typed'
  BY <1>2, <1>3, <1>4, Arguments DEF Inv, Typed, Labels
<1>6. Used' = 0 /\ Size' = Len(src') /\ Size' \in Nat /\ Size' > 0
  BY <1>2, <1>4, EmptySeq DEF Used, Size
<1>7. ReadInv' /\ RunInv'
  BY <1>2, <1>6 DEF ReadInv, RunInv
<1>8. ColInv'
  <2>1. line_size \in Nat
    BY Arguments DEF Inv
  <2>2. colOffset' <= line_size + 1
    BY <1>3, <2>1
  <2> QED
    BY <1>2, <2>2 DEF ColInv
<1>9. Layout(0)'
  <2>1. Full(0)' = 0 * line_size /\ Columns(0)' = Used' - 2 * 0
    BY <1>2 DEF Full, Columns
  <2>2. Full(0)' = 0 /\ Columns(0)' = 0
    BY <1>6, <2>1, Arguments DEF Inv
  <2> QED
    BY <1>2, <1>3, <2>2, Arguments DEF Layout, Inv
<1>10. FitsMaxSize'
  <2>1. YENC_MAX_SIZE(Len(src'), line_size) \in Nat
    BY <1>4, Arguments, MaxSizeType DEF Inv
  <2> QED
    BY <1>2, <2>1, EmptySeq DEF FitsMaxSize
<1> QED
  BY <1>5, <1>7, <1>8, <1>9, <1>10 DEF Inv, SizeInv

\* What an action finds, by name: q lines have ended.
LEMMA Found ==
    ASSUME Inv, UNCHANGED args
    PROVE  \E q \in Nat :
              /\ Layout(q) /\ Full(q) \in Nat
              /\ Columns(q) = Used - 2 * q /\ Columns(q)' = Used' - 2 * q
              /\ Full(q)' = Full(q)
              /\ Full(q + 1)' = Full(q) + line_size /\ Columns(q + 1)' = Used' - 2 * (q + 1)
<1>1. PICK q \in Nat : Layout(q)
  BY DEF Inv, SizeInv
<1>2. /\ Full(q) \in Nat /\ Full(q + 1) = Full(q) + line_size
      /\ Columns(q) = Used - 2 * q
  BY FullFacts DEF Inv
<1>3. Full(q)' = Full(q) /\ Full(q + 1)' = Full(q + 1)
  BY DEF Full, args
<1>4. Columns(q)' = Used' - 2 * q /\ Columns(q + 1)' = Used' - 2 * (q + 1)
  BY DEF Columns
<1> QED
  BY <1>1, <1>2, <1>3, <1>4

LEMMA FirstInv == ASSUME Inv, First PROVE Inv'
<1>1. /\ pc = "first" /\ pc' = "line" /\ UNCHANGED args /\ sp' = sp /\ n' = n
      /\ i = 0 /\ dest = <<>> /\ top = 0 /\ col = colOffset /\ i < Size /\ src \in Data
      /\ Used = 0
  BY EmptySeq DEF First, Inv, ReadInv, Used
<1>2. Typed /\ FitsMaxSize
  BY DEF Inv
<1>3. PICK q \in Nat :
              /\ Layout(q) /\ Full(q) \in Nat
              /\ Columns(q) = Used - 2 * q /\ Columns(q)' = Used' - 2 * q
              /\ Full(q)' = Full(q)
  BY <1>1, Found
<1>4. /\ Size' = Size /\ line_size' = line_size /\ colOffset' = colOffset
      /\ src' = src /\ doEnd' = doEnd
  BY <1>1, Same
<1>5. /\ 0 <= Columns(q) /\ Full(q) + col <= colOffset + Columns(q)
  BY <1>1, <1>3 DEF Layout
<1>6. CASE col = 0
  <2>1. /\ Write(Code(Here, AtEdge(Here)), 0)
        /\ col' = Len(Code(Here, AtEdge(Here))) /\ i' = i + 1
    BY <1>6 DEF First
  <2>2. PICK k \in 1..2 :
              /\ Len(Code(Here, AtEdge(Here))) = k
              /\ dest' \in Seq(Char) /\ dest' # <<>> /\ Used' = Used + k
              /\ EndsBlank' => k = 1
              /\ top' \in Nat /\ Len(dest') <= top' /\ (top' = top \/ top' = Used + k)
    <3>1. Here \in Char
      BY <1>1, <1>2, HereIsByte
    <3> QED
      BY <1>2, <2>1, <3>1, WroteCode, AtEdge(Here) \in BOOLEAN DEF AtEdge
  <2>3. i' = 1 /\ col' = k /\ Used' = k
    BY <1>1, <2>1, <2>2
  <2>4. Typed'
    BY <1>1, <1>2, <1>4, <2>2, <2>3, Arguments DEF Typed, Labels, Size, Used
  <2>5. ReadInv' /\ RunInv'
    BY <1>1, <1>4, <2>2 DEF ReadInv, RunInv
  <2>6. ColInv'
    BY <1>1, <1>2, <1>4, <2>2, <2>3, Arguments DEF ColInv
  <2>7. Layout(q)'
    BY <1>1, <1>2, <1>3, <1>4, <1>5, <1>6, <2>2, <2>3, Arguments DEF Layout
  <2>8. FitsMaxSize'
    <3>1. k \in Nat /\ Full(q) <= colOffset + 2 * Size /\ k <= 2 * q + 2 * Size
      BY <1>1, <1>2, <1>3, <1>5, Arguments
    <3>2. Len(dest') <= top' /\ (top' = top \/ top' = k)
      BY <2>2, <2>3
    <3> QED
      BY <1>1, <1>2, <3>1, <3>2, StillFits
  <2> QED
    BY <2>4, <2>5, <2>6, <2>7, <2>8 DEF Inv, SizeInv
<1>7. CASE col # 0
  <2>1. i' = i /\ col' = col /\ dest' = dest /\ top' = top
    BY <1>7 DEF First
  <2>2. Used' = Used /\ EndsBlank' = EndsBlank /\ ~EndsBlank
    BY <1>1, <2>1 DEF Used, EndsBlank
  <2>3. Typed'
    BY <1>1, <1>2, <1>4, <2>1 DEF Typed, Labels
  <2>4. ReadInv' /\ RunInv'
    BY <1>1, <1>4, <2>1 DEF ReadInv, RunInv
  <2>5. ColInv'
    BY <1>1, <1>2, <1>4, <2>1, Arguments DEF ColInv
  <2>6. Layout(q)'
    BY <1>1, <1>2, <1>3, <1>4, <1>5, <2>1, <2>2, Arguments DEF Layout
  <2>7. FitsMaxSize'
    BY <1>2, <1>4, <2>1 DEF FitsMaxSize
  <2> QED
    BY <2>3, <2>4, <2>5, <2>6, <2>7 DEF Inv, SizeInv
<1> QED
  BY <1>6, <1>7

LEMMA LineInv == ASSUME Inv, Line PROVE Inv'
<1>1. /\ pc = "line" /\ pc' = IF Rem > 0 THEN "runs" ELSE "end"
      /\ UNCHANGED args /\ sp' = NULL /\ NULL = -1 /\ n' = n
      /\ i' = i /\ dest' = dest /\ top' = top /\ col' = col
  BY DEF Line, NULL
<1>2. Typed /\ FitsMaxSize
  BY DEF Inv
<1>3. PICK q \in Nat :
              /\ Layout(q) /\ Full(q) \in Nat
              /\ Columns(q) = Used - 2 * q /\ Columns(q)' = Used' - 2 * q
              /\ Full(q)' = Full(q)
  BY <1>1, Found
<1>4. /\ Size' = Size /\ line_size' = line_size /\ colOffset' = colOffset
      /\ src' = src /\ doEnd' = doEnd /\ Used' = Used /\ EndsBlank' = EndsBlank
  BY <1>1, Same DEF Used, EndsBlank
<1>5. \/ pc' = "runs" /\ i < Size
      \/ pc' = "end" /\ i = Size
  BY <1>1, <1>2, Arguments
<1>6. Typed'
  BY <1>1, <1>2, <1>4, <1>5, Arguments DEF Typed, Labels, Used
<1>7. src \in Data /\ (i > 0 => dest # <<>>) /\ Size > 0
  <2>1. src \in Data /\ (i > 0 => dest # <<>>)
    BY <1>1 DEF Inv, ReadInv
  <2>2. src \in Seq(Char) /\ src # <<>>
    BY <2>1, DataAssumption
  <2>3. Len(src) > 0
    BY <2>2
  <2> QED
    BY <2>1, <2>3 DEF Size
<1>8. ReadInv' /\ RunInv'
  BY <1>1, <1>2, <1>4, <1>5, <1>7, Arguments DEF ReadInv, RunInv
<1>9. ColInv'
  BY <1>1, <1>4, <1>5 DEF ColInv, Inv
<1>10. Layout(q)'
  BY <1>1, <1>2, <1>3, <1>4, <1>5, Arguments DEF Layout
<1>11. FitsMaxSize'
  BY <1>1, <1>2, <1>4 DEF FitsMaxSize
<1> QED
  BY <1>6, <1>8, <1>9, <1>10, <1>11 DEF Inv, SizeInv

LEMMA StartRunInv == ASSUME Inv, StartRun PROVE Inv'
<1>1. Typed /\ FitsMaxSize
  BY DEF Inv
<1>2. /\ pc = "runs" /\ pc' = "run" /\ UNCHANGED args /\ sp' = Used /\ n' = 0
      /\ i' = i /\ dest' = dest /\ top' = top /\ col' = col
      /\ Size - i > 1 + Run /\ col + 1 + Run < line_size
  BY <1>1, Arguments DEF StartRun, RunFits, Used
<1>3. PICK q \in Nat :
              /\ Layout(q) /\ Full(q) \in Nat
              /\ Columns(q) = Used - 2 * q /\ Columns(q)' = Used' - 2 * q
              /\ Full(q)' = Full(q)
  BY <1>2, Found
<1>4. /\ Size' = Size /\ line_size' = line_size /\ colOffset' = colOffset
      /\ src' = src /\ doEnd' = doEnd /\ Used' = Used
  BY <1>2, Same DEF Used
<1>5. Typed'
  BY <1>1, <1>2, <1>4, Arguments DEF Typed, Labels, Used, NULL
<1>6. ReadInv' /\ RunInv'
  <2>1. src \in Data
    BY <1>2 DEF Inv, ReadInv
  <2> QED
    BY <1>1, <1>2, <1>4, <2>1, Arguments DEF ReadInv, RunInv
<1>7. ColInv'
  BY <1>2 DEF ColInv
<1>8. Layout(q)'
  BY <1>1, <1>2, <1>3, <1>4, Arguments DEF Layout
<1>9. FitsMaxSize'
  BY <1>1, <1>2, <1>4 DEF FitsMaxSize
<1> QED
  BY <1>5, <1>6, <1>7, <1>8, <1>9 DEF Inv, SizeInv

LEMMA DO_THINGInv == ASSUME Inv, DO_THING PROVE Inv'
<1> DEFINE c == src[i + n + 1]
<1>1. Typed /\ FitsMaxSize
  BY DEF Inv
<1>2. /\ pc = "run" /\ pc' = "run" /\ UNCHANGED args /\ sp' = sp /\ n < Run /\ n' = n + 1
      /\ i' = i /\ col' = col
  BY DEF DO_THING
<1>3. PICK q \in Nat :
              /\ Layout(q) /\ Full(q) \in Nat
              /\ Columns(q) = Used - 2 * q /\ Columns(q)' = Used' - 2 * q
              /\ Full(q)' = Full(q)
  BY <1>2, Found
<1>4. /\ Size' = Size /\ line_size' = line_size /\ colOffset' = colOffset
      /\ src' = src /\ doEnd' = doEnd
  BY <1>2, Same
<1>5. /\ src \in Data /\ i + 1 + Run < Size /\ col + 1 + Run < line_size
      /\ sp >= 0 /\ sp + n <= Used /\ Used <= sp + 2 * n
  BY <1>2 DEF Inv, ReadInv, RunInv
<1>6. PICK k \in 1..2 :
              /\ Len(Code(c, c \in Critical)) = k
              /\ dest' \in Seq(Char) /\ dest' # <<>> /\ Used' = Used + k
              /\ EndsBlank' => k = 1
              /\ top' \in Nat /\ Len(dest') <= top' /\ (top' = top \/ top' = Used + k)
  <2>1. c \in Char
    <3>1. n \in Nat /\ i < Size /\ i + n < Size
      BY <1>1, <1>2, <1>5, Arguments
    <3> QED
      BY <1>1, <3>1, Bytes
  <2>2. Write(Code(c, c \in Critical), 0)
    BY DEF DO_THING
  <2> HIDE DEF c
  <2>3. (c \in Critical) \in BOOLEAN /\ (c \in Critical => c \in Critical \union Edgy)
    OBVIOUS
  <2> QED
    BY <1>1, <2>1, <2>2, <2>3, WroteCode
<1>13. k \in Nat /\ 1 <= k /\ k <= 2 /\ Used' = Used + k
  BY <1>6
<1> HIDE DEF c
<1>7. Typed'
  <2>1. sp \in -1..Used' /\ n + 1 \in 0..Run
    BY <1>1, <1>2, <1>13, Arguments
  <2>2. sp \in NULL..Len(dest')
    BY <2>1 DEF Used, NULL
  <2> QED
    BY <1>1, <1>2, <1>4, <1>6, <2>1, <2>2 DEF Typed, Labels
<1>8. ReadInv' /\ RunInv'
  <2>1. /\ i' + 1 + Run < Size' /\ col' + 1 + Run < line_size'
        /\ sp' >= 0 /\ sp' + n' <= Used' /\ Used' <= sp' + 2 * n'
    BY <1>1, <1>2, <1>4, <1>5, <1>13, Arguments
  <2> QED
    BY <1>2, <1>4, <1>5, <2>1 DEF ReadInv, RunInv
<1>9. ColInv'
  BY <1>2 DEF ColInv
<1>10. /\ 0 <= Columns(q) /\ Full(q) <= colOffset + Columns(q) /\ Columns(q) <= 2 * (i + n)
       /\ Full(q) + col + (Used - sp) <= colOffset + Columns(q)
       /\ 0 <= sp - 2 * q /\ sp - 2 * q <= 2 * i
  BY <1>2, <1>3 DEF Layout
<1>11. Layout(q)'
  BY <1>1, <1>2, <1>3, <1>4, <1>10, <1>13, Arguments DEF Layout
<1>12. FitsMaxSize'
  <2>1. Used + k \in Nat /\ Full(q) <= colOffset + 2 * Size /\ Used + k <= 2 * q + 2 * Size
    BY <1>1, <1>2, <1>3, <1>5, <1>10, <1>13, Arguments
  <2> QED
    BY <1>1, <1>2, <1>6, <2>1, StillFits
<1> QED
  BY <1>7, <1>8, <1>9, <1>11, <1>12 DEF Inv, SizeInv

LEMMA RunDoneInv == ASSUME Inv, RunDone PROVE Inv'
<1>1. Typed /\ FitsMaxSize
  BY DEF Inv
<1>2. /\ pc = "run" /\ pc' = "runs" /\ UNCHANGED args /\ sp' = sp /\ n = Run /\ n' = n
      /\ i' = i + Run /\ col' = col + (Used - sp) /\ dest' = dest /\ top' = top
  BY DEF RunDone, Used
<1>3. PICK q \in Nat :
              /\ Layout(q) /\ Full(q) \in Nat
              /\ Columns(q) = Used - 2 * q /\ Columns(q)' = Used' - 2 * q
              /\ Full(q)' = Full(q)
  BY <1>2, Found
<1>4. /\ Size' = Size /\ line_size' = line_size /\ colOffset' = colOffset
      /\ src' = src /\ doEnd' = doEnd /\ Used' = Used
  BY <1>2, Same DEF Used
<1>5. /\ src \in Data /\ i + 1 + Run < Size /\ col + 1 + Run < line_size
      /\ sp >= 0 /\ sp + n <= Used /\ Used <= sp + 2 * n
  BY <1>2 DEF Inv, ReadInv, RunInv
<1>6. /\ i' \in Nat /\ i' < Size /\ i' >= Run /\ col' \in Nat
      /\ sp + Run <= Used /\ Used <= sp + 2 * Run
      /\ col' >= Used - sp /\ col' - (Used - sp) + 1 + Run < line_size
  BY <1>1, <1>2, <1>5, Arguments
<1>7. Typed'
  <2>1. i' \in 0..Size
    BY <1>1, <1>6, Arguments
  <2> QED
    BY <1>1, <1>2, <1>4, <1>6, <2>1 DEF Typed, Labels, Size
<1>8. ReadInv' /\ RunInv'
  BY <1>2, <1>4, <1>5, <1>6 DEF ReadInv, RunInv
<1>9. ColInv'
  BY <1>1, <1>2, <1>5, Arguments DEF ColInv
<1>10. /\ 0 <= Columns(q) /\ Full(q) <= colOffset + Columns(q) /\ Columns(q) <= 2 * (i + n)
       /\ Full(q) + col + (Used - sp) <= colOffset + Columns(q)
       /\ 0 <= sp - 2 * q /\ sp - 2 * q <= 2 * i
  BY <1>2, <1>3 DEF Layout
<1>11. Layout(q)'
  BY <1>1, <1>2, <1>3, <1>4, <1>10, Arguments DEF Layout
<1>12. FitsMaxSize'
  BY <1>1, <1>2, <1>4 DEF FitsMaxSize
<1> QED
  BY <1>7, <1>8, <1>9, <1>11, <1>12 DEF Inv, SizeInv

LEMMA NoUndoInv == ASSUME Inv, NoUndo PROVE Inv'
<1>1. Typed /\ FitsMaxSize
  BY DEF Inv
<1>2. /\ pc = "runs" /\ pc' = "rest" /\ UNCHANGED args /\ sp' = sp /\ n' = n
      /\ i' = i /\ col' = col /\ dest' = dest /\ top' = top
      /\ ~(sp # -1 /\ col >= line_size - 1)
  BY DEF NoUndo, Overflowed, NULL
<1>3. PICK q \in Nat :
              /\ Layout(q) /\ Full(q) \in Nat
              /\ Columns(q) = Used - 2 * q /\ Columns(q)' = Used' - 2 * q
              /\ Full(q)' = Full(q)
  BY <1>2, Found
<1>4. /\ Size' = Size /\ line_size' = line_size /\ colOffset' = colOffset
      /\ src' = src /\ doEnd' = doEnd /\ Used' = Used
  BY <1>2, Same DEF Used
<1>5. Typed'
  BY <1>1, <1>2, <1>4 DEF Typed, Labels
<1>6. ReadInv' /\ RunInv'
  BY <1>2, <1>4 DEF ReadInv, RunInv, Inv
<1>7. ColInv'
  BY <1>1, <1>2, <1>4, Arguments DEF ColInv, Inv
<1>8. Layout(q)'
  BY <1>2, <1>3, <1>4 DEF Layout
<1>9. FitsMaxSize'
  BY <1>1, <1>2, <1>4 DEF FitsMaxSize
<1> QED
  BY <1>5, <1>6, <1>7, <1>8, <1>9 DEF Inv, SizeInv

LEMMA UndoInv == ASSUME Inv, Undo PROVE Inv'
<1>1. Typed /\ FitsMaxSize
  BY DEF Inv
<1>2. /\ pc = "runs" /\ pc' = "rest" /\ UNCHANGED args /\ sp' = sp /\ n' = n
      /\ i' = i - Run /\ col' = col - (Used - sp) /\ top' = top /\ sp # -1
  BY DEF Undo, Overflowed, NULL, Used
<1>3. PICK q \in Nat :
              /\ Layout(q) /\ Full(q) \in Nat
              /\ Columns(q) = Used - 2 * q /\ Columns(q)' = Used' - 2 * q
              /\ Full(q)' = Full(q)
  BY <1>2, Found
<1>4. /\ Size' = Size /\ line_size' = line_size /\ colOffset' = colOffset
      /\ src' = src /\ doEnd' = doEnd
  BY <1>2, Same
<1>5. sp \in Nat /\ sp <= Used
  BY <1>1, <1>2, Arguments
<1>6. dest' \in Seq(Char) /\ Len(dest') = sp
  <2>1. dest \in Seq(Char) /\ sp \in 0..Len(dest)
    BY <1>1, <1>5 DEF Typed, Used
  <2>2. dest' = SubSeq(dest, 1, sp)
    BY DEF Undo
  <2> QED
    BY <2>1, <2>2
<1>7. Used' = sp
  BY <1>6 DEF Used
<1>8. /\ src \in Data /\ i < Size /\ i >= Run /\ col >= Used - sp
      /\ col - (Used - sp) + 1 + Run < line_size
  BY <1>2, <1>5 DEF Inv, ReadInv, RunInv
<1>9. i' \in Nat /\ i' < Size /\ col' \in Nat /\ col' < line_size
  BY <1>1, <1>2, <1>5, <1>8, Arguments
<1>10. Typed'
  <2>1. i' \in 0..Size /\ sp \in NULL..Len(dest')
    BY <1>1, <1>5, <1>6, <1>9, Arguments DEF NULL
  <2> QED
    BY <1>1, <1>2, <1>4, <1>6, <1>9, <2>1 DEF Typed, Labels, Size
<1>11. ReadInv' /\ RunInv'
  BY <1>2, <1>4, <1>8, <1>9 DEF ReadInv, RunInv
<1>12. ColInv'
  BY <1>1, <1>2, <1>4, <1>9, Arguments DEF ColInv
<1>13. /\ 0 <= sp - 2 * q /\ sp - 2 * q <= 2 * (i - Run)
       /\ Full(q) + col <= colOffset + Columns(q)
  BY <1>2, <1>3, <1>5 DEF Layout
<1>14. Layout(q)'
  BY <1>1, <1>2, <1>3, <1>4, <1>5, <1>7, <1>9, <1>13, Arguments DEF Layout
<1>15. FitsMaxSize'
  <2>1. Len(dest') <= top
    BY <1>1, <1>5, <1>6 DEF FitsMaxSize, Typed, Used
  <2> QED
    BY <1>1, <1>2, <1>4, <2>1 DEF FitsMaxSize
<1> QED
  BY <1>10, <1>11, <1>12, <1>14, <1>15 DEF Inv, SizeInv

LEMMA NoLastCharInv == ASSUME Inv, NoLastChar PROVE Inv'
<1>1. Typed /\ FitsMaxSize
  BY DEF Inv
<1>2. /\ pc = "rest" /\ pc' = "newline" /\ UNCHANGED args /\ sp' = sp /\ n' = n
      /\ i' = i /\ col' = col /\ dest' = dest /\ top' = top /\ col >= line_size
  BY DEF NoLastChar
<1>3. PICK q \in Nat :
              /\ Layout(q) /\ Full(q) \in Nat
              /\ Columns(q) = Used - 2 * q /\ Columns(q)' = Used' - 2 * q
              /\ Full(q)' = Full(q)
  BY <1>2, Found
<1>4. /\ Size' = Size /\ line_size' = line_size /\ colOffset' = colOffset
      /\ src' = src /\ doEnd' = doEnd /\ Used' = Used
  BY <1>2, Same DEF Used
<1>5. Typed'
  BY <1>1, <1>2, <1>4 DEF Typed, Labels
<1>6. ReadInv' /\ RunInv'
  BY <1>2, <1>4 DEF ReadInv, RunInv, Inv
<1>7. ColInv'
  BY <1>2, <1>4 DEF ColInv, Inv
<1>8. Layout(q)'
  BY <1>1, <1>2, <1>3, <1>4, Arguments DEF Layout
<1>9. FitsMaxSize'
  BY <1>1, <1>2, <1>4 DEF FitsMaxSize
<1> QED
  BY <1>5, <1>6, <1>7, <1>8, <1>9 DEF Inv, SizeInv

LEMMA RestInv == ASSUME Inv, Rest PROVE Inv'
<1> DEFINE e == Here \in Critical
<1>1. Typed /\ FitsMaxSize
  BY DEF Inv
<1>2. /\ pc = "rest" /\ pc' = IF Rem = 1 THEN "end" ELSE "rest"
      /\ UNCHANGED args /\ sp' = sp /\ n' = n /\ i' = i + 1 /\ col < line_size - 1
      /\ i < Size
  BY DEF Rest, Inv, ReadInv
<1>3. PICK q \in Nat :
              /\ Layout(q) /\ Full(q) \in Nat
              /\ Columns(q) = Used - 2 * q /\ Columns(q)' = Used' - 2 * q
              /\ Full(q)' = Full(q)
  BY <1>2, Found
<1>4. /\ Size' = Size /\ line_size' = line_size /\ colOffset' = colOffset
      /\ src' = src /\ doEnd' = doEnd
  BY <1>2, Same
<1>5. PICK k \in 1..2 :
              /\ Len(Code(Here, e)) = k
              /\ dest' \in Seq(Char) /\ dest' # <<>> /\ Used' = Used + k
              /\ EndsBlank' => k = 1
              /\ top' \in Nat /\ Len(dest') <= top' /\ (top' = top \/ top' = Used + k)
  <2>1. Here \in Char
    BY <1>1, <1>2, HereIsByte
  <2>2. Write(Code(Here, e), 0)
    BY DEF Rest
  <2> QED
    BY <1>1, <2>1, <2>2, WroteCode, e \in BOOLEAN
<1>6. col' = col + k
  BY <1>5 DEF Rest
<1>7. k \in Nat /\ 1 <= k /\ k <= 2 /\ Used' = Used + k
  BY <1>5
<1>8. \/ pc' = "end" /\ i' = Size
      \/ pc' = "rest" /\ i' < Size
  BY <1>1, <1>2, Arguments
<1>9. Typed'
  <2>1. i' \in 0..Size /\ sp \in -1..Used' /\ col' \in Nat
    BY <1>1, <1>2, <1>6, <1>7, Arguments
  <2>2. sp \in NULL..Len(dest')
    BY <2>1 DEF Used, NULL
  <2> QED
    BY <1>1, <1>2, <1>4, <1>5, <1>8, <2>1, <2>2 DEF Typed, Labels, Size
<1>10. ReadInv' /\ RunInv'
  <2>1. src \in Data
    BY <1>2 DEF Inv, ReadInv
  <2> QED
    BY <1>4, <1>5, <1>8, <2>1 DEF ReadInv, RunInv
<1>11. ColInv'
  BY <1>1, <1>2, <1>4, <1>6, <1>7, <1>8, Arguments DEF ColInv
<1>12. /\ 0 <= Columns(q) /\ Full(q) <= colOffset + Columns(q) /\ Columns(q) <= 2 * i
       /\ Full(q) + col <= colOffset + Columns(q)
  BY <1>2, <1>3 DEF Layout
<1>13. Layout(q)'
  <2>1. EndsBlank' => k = 1
    BY <1>5
  <2> QED
    BY <1>1, <1>2, <1>3, <1>4, <1>6, <1>7, <1>8, <1>12, <2>1, Arguments DEF Layout
<1>14. FitsMaxSize'
  <2>1. Used + k \in Nat /\ Full(q) <= colOffset + 2 * Size /\ Used + k <= 2 * q + 2 * Size
    BY <1>1, <1>2, <1>3, <1>7, <1>12, Arguments
  <2> QED
    BY <1>1, <1>2, <1>5, <2>1, StillFits
<1> QED
  BY <1>9, <1>10, <1>11, <1>13, <1>14 DEF Inv, SizeInv

LEMMA LastCharInv == ASSUME Inv, LastChar PROVE Inv'
<1> DEFINE e == AtEdge(Here) /\ Here # DOT
<1>1. Typed /\ FitsMaxSize
  BY DEF Inv
<1>2. /\ pc = "rest" /\ pc' = IF Rem = 1 THEN "end" ELSE "newline"
      /\ UNCHANGED args /\ sp' = sp /\ n' = n /\ i' = i + 1 /\ col = line_size - 1
      /\ i < Size /\ col' = col
  BY DEF LastChar, Inv, ReadInv
<1>3. PICK q \in Nat :
              /\ Layout(q) /\ Full(q) \in Nat
              /\ Columns(q) = Used - 2 * q /\ Columns(q)' = Used' - 2 * q
              /\ Full(q)' = Full(q)
  BY <1>2, Found
<1>4. /\ Size' = Size /\ line_size' = line_size /\ colOffset' = colOffset
      /\ src' = src /\ doEnd' = doEnd
  BY <1>2, Same
<1>5. PICK k \in 1..2 :
              /\ Len(Code(Here, e)) = k
              /\ dest' \in Seq(Char) /\ dest' # <<>> /\ Used' = Used + k
              /\ EndsBlank' => k = 1
              /\ top' \in Nat /\ Len(dest') <= top' /\ (top' = top \/ top' = Used + k)
  <2>1. Here \in Char
    BY <1>1, <1>2, HereIsByte
  <2>2. Write(Code(Here, e), 0)
    BY DEF LastChar
  <2>3. e \in BOOLEAN /\ (e => Here \in Critical \union Edgy)
    BY DEF AtEdge
  <2> QED
    BY <1>1, <2>1, <2>2, <2>3, WroteCode
<1>6. k \in Nat /\ 1 <= k /\ k <= 2 /\ Used' = Used + k
  BY <1>5
<1>7. \/ pc' = "end" /\ i' = Size
      \/ pc' = "newline" /\ i' < Size
  BY <1>1, <1>2, Arguments
<1>8. Typed'
  <2>1. i' \in 0..Size /\ sp \in -1..Used'
    BY <1>1, <1>2, <1>6, Arguments
  <2>2. sp \in NULL..Len(dest')
    BY <2>1 DEF Used, NULL
  <2> QED
    BY <1>1, <1>2, <1>4, <1>5, <1>7, <2>1, <2>2 DEF Typed, Labels, Size
<1>9. ReadInv' /\ RunInv'
  <2>1. src \in Data
    BY <1>2 DEF Inv, ReadInv
  <2> QED
    BY <1>4, <1>5, <1>7, <2>1 DEF ReadInv, RunInv
<1>10. ColInv'
  BY <1>1, <1>2, <1>4, <1>7, Arguments DEF ColInv
<1>11. /\ 0 <= Columns(q) /\ Full(q) <= colOffset + Columns(q) /\ Columns(q) <= 2 * i
       /\ Full(q) + col <= colOffset + Columns(q)
  BY <1>2, <1>3 DEF Layout
<1>12. Layout(q)'
  <2>1. EndsBlank' => k = 1
    BY <1>5
  <2> QED
    BY <1>1, <1>2, <1>3, <1>4, <1>6, <1>7, <1>11, <2>1, Arguments DEF Layout
<1>13. FitsMaxSize'
  <2>1. Used + k \in Nat /\ Full(q) <= colOffset + 2 * Size /\ Used + k <= 2 * q + 2 * Size
    BY <1>1, <1>2, <1>3, <1>6, <1>11, Arguments
  <2> QED
    BY <1>1, <1>2, <1>5, <2>1, StillFits
<1> QED
  BY <1>8, <1>9, <1>10, <1>12, <1>13 DEF Inv, SizeInv

LEMMA StartLineInv == ASSUME Inv, StartLine PROVE Inv'
<1> DEFINE chars == Code(Here, AtEdge(Here))
<1>1. Typed /\ FitsMaxSize
  BY DEF Inv
<1>2. /\ pc = "newline" /\ pc' = "line" /\ UNCHANGED args /\ sp' = sp /\ n' = n
      /\ i' = i + 1 /\ i < Size
  BY DEF StartLine, Inv, ReadInv
<1>3. PICK q \in Nat :
              /\ Layout(q) /\ Full(q) \in Nat /\ Columns(q) = Used - 2 * q
              /\ Full(q + 1)' = Full(q) + line_size /\ Columns(q + 1)' = Used' - 2 * (q + 1)
  BY <1>2, Found
<1>4. /\ Size' = Size /\ line_size' = line_size /\ colOffset' = colOffset
      /\ src' = src /\ doEnd' = doEnd
  BY <1>2, Same
<1>5. PICK k \in 1..2 : /\ chars \in Seq(Char) /\ Len(chars) = k
                        /\ Last(chars) \in Blank => k = 1
  <2>1. Here \in Char
    BY <1>1, <1>2, HereIsByte
  <2>2. AtEdge(Here) \in BOOLEAN /\ (AtEdge(Here) => Here \in Critical \union Edgy)
    BY DEF AtEdge
  <2>3. /\ chars \in Seq(Char)
        /\ \/ Len(chars) = 1
           \/ Len(chars) = 2 /\ Last(chars) \notin Blank
    BY <2>1, <2>2, CodeFacts
  <2> HIDE DEF chars
  <2>4. CASE Len(chars) = 1
    BY <2>3, <2>4
  <2>5. CASE Len(chars) = 2 /\ Last(chars) \notin Blank
    BY <2>3, <2>5
  <2> QED
    BY <2>3, <2>4, <2>5
<1>6. Write(NewLine \o chars, 2 - Len(chars)) /\ col' = k
  BY <1>5 DEF StartLine
<1> HIDE DEF chars
<1>7. k \in Nat /\ 1 <= k /\ k <= 2
  BY <1>5
<1>8. NewLine \o chars \in Seq(Char) /\ Len(NewLine \o chars) = 2 + k
      /\ Last(NewLine \o chars) = Last(chars)
  <2>1. NewLine \in Seq(Char) /\ Len(NewLine) = 2
    BY DEF NewLine, Char, Special
  <2>2. k \in Nat \ {0} /\ chars \in Seq(Char) /\ Len(chars) = k
    BY <1>5, <1>7
  <2>3. /\ NewLine \o chars \in Seq(Char) /\ Len(NewLine \o chars) = Len(NewLine) + k
        /\ Last(NewLine \o chars) = Last(chars)
    BY <2>1, <2>2, Appended
  <2> QED
    BY <2>1, <2>3
<1>9. /\ dest' \in Seq(Char) /\ dest' # <<>> /\ Used' = Used + 2 + k
      /\ EndsBlank' => k = 1
  <2> DEFINE word == NewLine \o chars
  <2>1. dest' = dest \o word /\ dest \in Seq(Char)
    BY <1>1, <1>6 DEF Write, Typed
  <2>2. word \in Seq(Char) /\ Len(word) = 2 + k /\ Last(word) = Last(chars)
    BY <1>8
  <2> HIDE DEF word
  <2>3. dest' \in Seq(Char) /\ Len(dest') = Len(dest) + 2 + k /\ Last(dest') = Last(chars)
    BY <1>7, <2>1, <2>2 DEF Last
  <2>4. dest' # <<>>
    BY <1>1, <1>7, <2>3, Arguments, EmptySeq DEF Used
  <2> QED
    BY <1>5, <2>3, <2>4 DEF Used, EndsBlank
<1>10. /\ top' \in Nat /\ Used' <= top' /\ (top' = top \/ top' = Used + 4)
  <2>1. top' = IF Used + (2 + k) + (2 - k) > top THEN Used + (2 + k) + (2 - k) ELSE top
    BY <1>5, <1>6, <1>8 DEF Write, Used
  <2>2. Used' = Used + 2 + k
    BY <1>9
  <2>3. Used + (2 + k) + (2 - k) = Used + 4
    BY <1>1, <1>7, Arguments
  <2> QED
    BY <1>1, <1>7, <2>1, <2>2, <2>3, Arguments
<1>11. i' <= Size /\ i' > 0 /\ Used' = Used + 2 + k
  <2>1. Used' = Used + 2 + k
    BY <1>9
  <2> QED
    BY <1>1, <1>2, <2>1, Arguments
<1>12. col' = k /\ (EndsBlank' => k = 1)
  BY <1>6, <1>9
<1>13. Typed'
  <2>1. i' \in 0..Size /\ sp \in -1..Used' /\ col' \in Nat
    BY <1>1, <1>2, <1>7, <1>11, <1>12, Arguments
  <2>2. sp \in NULL..Len(dest')
    BY <2>1 DEF Used, NULL
  <2> QED
    BY <1>1, <1>2, <1>4, <1>9, <1>10, <2>1, <2>2 DEF Typed, Labels, Size
<1>14. ReadInv' /\ RunInv'
  <2>1. src \in Data
    BY <1>2 DEF Inv, ReadInv
  <2> QED
    BY <1>2, <1>4, <1>9, <2>1 DEF ReadInv, RunInv
<1>15. ColInv'
  BY <1>1, <1>2, <1>4, <1>7, <1>12, Arguments DEF ColInv
<1>16. /\ 0 <= Columns(q) /\ Columns(q) <= 2 * i
       /\ Full(q) + line_size <= colOffset + Columns(q)
  BY <1>2, <1>3 DEF Layout
<1>17. Layout(q + 1)'
  BY <1>1, <1>2, <1>3, <1>4, <1>7, <1>11, <1>12, <1>16, Arguments DEF Layout
<1>18. FitsMaxSize'
  <2>1. /\ q + 1 \in Nat /\ Used + 4 \in Nat /\ Full(q) + line_size <= colOffset + 2 * Size
        /\ Used + 4 <= 2 * (q + 1) + 2 * Size
    BY <1>1, <1>2, <1>3, <1>16, Arguments
  <2>2. Full(q + 1) = Full(q) + line_size
    BY <1>1, FullFacts
  <2>3. Len(dest') <= top'
    BY <1>10 DEF Used
  <2> QED
    BY <1>1, <1>2, <1>10, <2>1, <2>2, <2>3, StillFits
<1>19. SizeInv'
  BY <1>17, q + 1 \in Nat DEF SizeInv
<1> QED
  BY <1>13, <1>14, <1>15, <1>18, <1>19 DEF Inv

LEMMA FinishInv == ASSUME Inv, Finish PROVE Inv'
<1>1. Typed /\ FitsMaxSize
  BY DEF Inv
<1>2. /\ pc = "end" /\ pc' = "done" /\ UNCHANGED args /\ sp' = sp /\ n' = n /\ i' = i
      /\ i = Size /\ dest # <<>> /\ src \in Data
  BY DEF Finish, Inv, ReadInv
<1>3. PICK q \in Nat :
              /\ Layout(q) /\ Full(q) \in Nat
              /\ Columns(q) = Used - 2 * q /\ Columns(q)' = Used' - 2 * q
              /\ Full(q)' = Full(q)
  BY <1>2, Found
<1>4. /\ Size' = Size /\ line_size' = line_size /\ colOffset' = colOffset
      /\ src' = src /\ doEnd' = doEnd
  BY <1>2, Same
<1>5. /\ 0 <= Columns(q) /\ Full(q) <= colOffset + Columns(q) /\ Columns(q) <= 2 * i
      /\ EndsBlank => Columns(q) < 2 * i
  BY <1>2, <1>3 DEF Layout
<1>6. col <= line_size + 1 /\ (col > line_size => ~EndsBlank)
  BY <1>2 DEF ColInv, Inv
<1>7. CASE doEnd /\ Last(dest) \in Blank
  <2>1. dest' = Front(dest) \o Escape(Last(dest))
    BY <1>7 DEF Finish
  <2>2. col' = col + 1 /\ top' = IF Used + 1 > top THEN Used + 1 ELSE top
    BY <1>7 DEF Finish, Used
  <2>3. EndsBlank
    BY <1>2, <1>7 DEF EndsBlank
  <2>4. Escape(Last(dest)) \in Seq(Char) /\ Len(Escape(Last(dest))) = 2
    <3>1. Last(dest) \in DOMAIN Shifted
      BY <1>7 DEF Shifted, Edgy
    <3>2. Shifted[Last(dest)] \in Char /\ EQ \in Char
      BY <3>1, WireAssumption DEF Char, Special
    <3> QED
      BY <3>2 DEF Escape
  <2>5. dest' \in Seq(Char) /\ Len(dest') = Len(dest) + 1 /\ dest' # <<>>
    <3>1. dest \in Seq(Char) /\ dest # <<>> /\ Len(dest) \in Nat /\ Len(dest) > 0
      BY <1>1, <1>2 DEF Typed
    <3>2. Front(dest) = SubSeq(dest, 1, Len(dest) - 1)
      BY DEF Front
    <3>3. PICK m \in 0..Len(dest) : m = Len(dest) - 1
      <4>1. Used \in Nat /\ Used > 0
        BY <3>1 DEF Used
      <4>2. Used - 1 \in 0..Used
        BY <4>1
      <4> QED
        BY <4>2 DEF Used
    <3>4. Front(dest) \in Seq(Char) /\ Len(Front(dest)) = m
      BY <3>1, <3>2, <3>3
    <3>5. 2 \in Nat \ {0}
      OBVIOUS
    <3>6. dest' \in Seq(Char) /\ Len(dest') = Len(Front(dest)) + 2
      BY <2>1, <2>4, <3>4, <3>5, Appended
    <3> QED
      BY <3>1, <3>3, <3>4, <3>6
  <2>6. Used' = Used + 1
    BY <2>5 DEF Used
  <2>7. col' = col + 1 /\ top' \in Nat /\ Used' <= top' /\ (top' = top \/ top' = Used + 1)
    BY <1>1, <2>6, <2>2, Arguments
  <2>8. Columns(q) < 2 * i
    BY <1>5, <2>3
  <2>9. Typed'
    <3>1. sp \in -1..Used' /\ col' \in Nat
      BY <1>1, <2>6, <2>7, Arguments
    <3>2. sp \in NULL..Len(dest')
      BY <3>1 DEF Used, NULL
    <3> QED
      BY <1>1, <1>2, <1>4, <2>5, <2>7, <3>1, <3>2 DEF Typed, Labels
  <2>10. ReadInv' /\ RunInv'
    BY <1>2, <1>4, <2>5 DEF ReadInv, RunInv
  <2>11. ColInv'
    BY <1>1, <1>2, <1>4, <1>6, <2>3, <2>7, Arguments DEF ColInv
  <2>12. Layout(q)'
    <3>1. /\ Used' - 2 * q >= 0 /\ Full(q) <= colOffset + (Used' - 2 * q)
          /\ Used' - 2 * q <= 2 * i
      BY <1>1, <1>3, <1>5, <2>6, <2>8, Arguments
    <3> QED
      BY <1>2, <1>3, <1>4, <3>1 DEF Layout
  <2>13. FitsMaxSize'
    <3>1. Used + 1 \in Nat /\ Full(q) <= colOffset + 2 * Size /\ Used + 1 <= 2 * q + 2 * Size
      <4>1. Used - 2 * q < 2 * Size /\ Full(q) <= colOffset + (Used - 2 * q)
        BY <1>2, <1>3, <1>5, <2>8
      <4>2. Used \in Nat /\ Size \in Nat /\ Full(q) \in Nat /\ colOffset \in Nat
        BY <1>1, <1>3, Arguments
      <4> QED
        BY <4>1, <4>2
    <3>2. Len(dest') <= top'
      BY <2>7 DEF Used
    <3> QED
      BY <1>1, <1>2, <2>7, <3>1, <3>2, StillFits
  <2> QED
    BY <2>9, <2>10, <2>11, <2>12, <2>13 DEF Inv, SizeInv
<1>8. CASE ~(doEnd /\ Last(dest) \in Blank)
  <2>1. dest' = dest /\ col' = col /\ top' = top
    BY <1>8 DEF Finish
  <2>2. Used' = Used
    BY <2>1 DEF Used
  <2>3. Typed'
    BY <1>1, <1>2, <1>4, <2>1 DEF Typed, Labels
  <2>4. ReadInv' /\ RunInv'
    BY <1>2, <1>4, <2>1 DEF ReadInv, RunInv
  <2>5. ColInv'
    BY <1>2, <1>4, <1>6, <2>1 DEF ColInv
  <2>6. Layout(q)'
    BY <1>2, <1>3, <1>4, <1>5, <2>2 DEF Layout
  <2>7. FitsMaxSize'
    BY <1>1, <1>4, <2>1 DEF FitsMaxSize
  <2> QED
    BY <2>3, <2>4, <2>5, <2>6, <2>7 DEF Inv, SizeInv
<1> QED
  BY <1>7, <1>8

LEMMA CollectInv == ASSUME Inv, Collect PROVE Inv'
<1>1. /\ pc' = "idle" /\ colOffset' = 0 /\ src' = <<>> /\ doEnd' = TRUE /\ i' = 0 /\ col' = 0
      /\ dest' = <<>> /\ sp' = NULL /\ n' = 0 /\ top' = 0 /\ line_size' = line_size
      /\ line_size \in LineSize
  BY DEF Collect, Inv, Typed
<1>2. Init'
  BY <1>1 DEF Init
<1> QED
  BY <1>2, InitInv, PTL

LEMMA StutterInv == ASSUME Inv, UNCHANGED vars PROVE Inv'
  BY DEF vars, args, Inv, Typed, Labels, ReadInv, RunInv, ColInv, SizeInv, Layout, Columns, Full,
         Used, Size, EndsBlank, FitsMaxSize

-----------------------------------------------------------------------------
(* What follows.                                                           *)

LEMMA Invariance == Spec => []Inv
<1>1. Inv /\ [Next]_vars => Inv'
  BY CallInv, FirstInv, LineInv, StartRunInv, DO_THINGInv, RunDoneInv, NoUndoInv, UndoInv,
     RestInv, LastCharInv, NoLastCharInv, StartLineInv, FinishInv, CollectInv, StutterInv
     DEF Next, Encode
<1> QED
  BY InitInv, <1>1, PTL DEF Spec

(* The variables of the encoder keep their types, and a column passes the  *)
(* end of its line by one at most, outside the run that is undone for it.  *)
THEOREM TypeCorrect == Spec => []TypeOK
<1>1. Inv => TypeOK
  <2> SUFFICES ASSUME Inv PROVE TypeOK
    OBVIOUS
  <2>1. Typed /\ RunInv /\ ColInv
    BY DEF Inv
  <2>2. col \in 0..(line_size + 2 * Run) /\ (pc \notin {"runs", "run"} => col <= line_size + 1)
    <3>1. line_size \in Nat /\ Run \in Nat /\ col \in Nat
      BY <2>1, Arguments
    <3>2. CASE pc \notin {"runs", "run"}
      <4>1. col <= line_size + 1
        BY <2>1, <3>2 DEF ColInv
      <4>2. Run \in Nat \ {0}
        BY SizeAssumption
      <4> QED
        BY <3>2, <3>1, <4>1, <4>2
    <3>3. CASE pc = "run"
      BY <2>1, <3>3, Arguments DEF RunInv
    <3>4. CASE pc = "runs"
      BY <2>1, <3>4, Arguments DEF RunInv, ColInv
    <3> QED
      BY <3>2, <3>3, <3>4
  <2> QED
    BY <2>1, <2>2 DEF TypeOK, Typed, Labels
<1> QED
  BY Invariance, <1>1, PTL

(* The encoder reads nothing past the data, though it looks for the end of *)
(* the data in three places only, and a run reads without looking.         *)
THEOREM ReadsInBounds == Spec => []NoOverread
<1>1. Inv => NoOverread
  <2> SUFFICES ASSUME Inv PROVE NoOverread
    OBVIOUS
  <2>1. Typed /\ ReadInv
    BY DEF Inv
  <2> QED
    BY <2>1, Arguments DEF ReadInv, NoOverread, Size
<1> QED
  BY Invariance, <1>1, PTL

(* What yencode.cc allocates for the output is enough, for every length of *)
(* the data and every line size: each newline ended a full line, and no    *)
(* byte of the data took more than two columns.                            *)
THEOREM WithinMaxSize == Spec => []FitsMaxSize
<1>1. Inv => FitsMaxSize
  BY DEF Inv
<1> QED
  BY Invariance, <1>1, PTL

-----------------------------------------------------------------------------
(* The turns of the reference encoder, one by one.                         *)

\* What a turn makes.
Shape == [col : Nat, ret : Seq(Char)]

\* What a turn adds for a byte.
Chars(c, offset, size) == IF MustEscape(c, offset, size) THEN Escape(c) ELSE <<c>>

(* The characters that are escapes can be sent.                            *)
LEMMA ShiftedIsChar ==
    ASSUME NEW c \in Critical \union Edgy
    PROVE  Shifted[c] \in Char /\ EQ \in Char /\ Shifted[c] # LF
<1>1. c \in DOMAIN Shifted
  BY DEF Shifted
<1>2. Shifted[c] \in OtherChar
  BY <1>1, WireAssumption
<1>3. LF \notin OtherChar
  BY OtherCharAssumption DEF Special
<1> QED
  BY <1>2, <1>3 DEF Char, Special

(* A byte is written as one or two characters that do not end a line.      *)
LEMMA CharsFacts ==
    ASSUME NEW c \in Char, NEW offset, NEW size
    PROVE  LET chars == Chars(c, offset, size)
           IN  chars \in Seq(Char) /\ Len(chars) \in {1, 2} /\ chars[Len(chars)] # LF
<1>1. CASE MustEscape(c, offset, size)
  <2>1. c \in Critical \union Edgy
    BY <1>1 DEF MustEscape, Edgy
  <2>2. Chars(c, offset, size) = <<EQ, Shifted[c]>>
    BY <1>1 DEF Chars, Escape
  <2> QED
    BY <2>1, <2>2, ShiftedIsChar
<1>2. CASE ~MustEscape(c, offset, size)
  <2>1. c # LF
    BY <1>2 DEF MustEscape, Critical
  <2>2. Chars(c, offset, size) = <<c>>
    BY <1>2 DEF Chars
  <2> QED
    BY <2>1, <2>2
<1> QED
  BY <1>1, <1>2

(* A turn, with what it adds by name.                                      *)
LEMMA PutIs ==
    ASSUME NEW line, NEW c, NEW size
    PROVE  LET chars == Chars(c, line.col, size)
               next  == line.col + Len(chars)
           IN  Put(line, c, size)
                 = IF next >= size THEN [col |-> 0, ret |-> line.ret \o chars \o NewLine]
                   ELSE [col |-> next, ret |-> line.ret \o chars]
  BY DEF Put, Chars

(* A turn makes a column and a text.                                       *)
LEMMA PutType ==
    ASSUME NEW line \in Shape, NEW c \in Char, NEW size \in Nat
    PROVE  Put(line, c, size) \in Shape
<1> DEFINE chars == Chars(c, line.col, size)
<1>1. chars \in Seq(Char) /\ Len(chars) \in Nat
  BY CharsFacts
<1>2. NewLine \in Seq(Char)
  BY DEF NewLine, Char, Special
<1>3. line.col \in Nat /\ line.ret \in Seq(Char)
  BY DEF Shape
<1>4. Put(line, c, size)
        = IF line.col + Len(chars) >= size
          THEN [col |-> 0, ret |-> line.ret \o chars \o NewLine]
          ELSE [col |-> line.col + Len(chars), ret |-> line.ret \o chars]
  BY PutIs
<1> HIDE DEF chars
<1>5. line.ret \o chars \in Seq(Char) /\ line.ret \o chars \o NewLine \in Seq(Char)
  BY <1>1, <1>2, <1>3
<1> QED
  BY <1>1, <1>3, <1>4, <1>5 DEF Shape

(* The turns are what their definition says: the function exists.          *)
LEMMA TurnsEquation ==
    ASSUME NEW s \in Seq(Char), NEW size \in Nat, NEW offset \in Nat
    PROVE  Turns(s, size, offset)
             = [m \in 0..Len(s) |->
                  IF m = 0 THEN [col |-> offset, ret |-> <<>>]
                  ELSE Put(Turns(s, size, offset)[m - 1], s[m], size)]
<1> DEFINE b    == [col |-> offset, ret |-> <<>>]
           step == [p \in (1..Len(s)) \X Shape |-> Put(p[2], s[p[1]], size)]
           Eq(f) == f = [m \in 0..Len(s) |->
                           IF m = 0 THEN b ELSE Put(f[m - 1], s[m], size)]
<1>1. b \in Shape
  BY DEF Shape
<1>2. step \in [(1..Len(s)) \X Shape -> Shape]
  BY PutType
<1>3. PICK g \in [0..Len(s) -> Shape] :
         g[0] = b /\ \A m \in 1..Len(s) : g[m] = step[<<m, g[m - 1]>>]
  <2>1. Len(s) \in Nat
    OBVIOUS
  <2>2. step \in Steps(Shape, Len(s))
    BY <1>2 DEF Steps
  <2> HIDE DEF b, step
  <2>3. HasUnfolding(Shape, b, Len(s), step)
    BY <1>1, <2>1, <2>2, Recursion
  <2> QED
    BY <2>3 DEF HasUnfolding, Unfolds
<1>4. ASSUME NEW m \in 0..Len(s)
      PROVE  g[m] = IF m = 0 THEN b ELSE Put(g[m - 1], s[m], size)
  <2>1. CASE m = 0
    BY <1>3, <2>1
  <2>2. CASE m # 0
    <3>1. m \in 1..Len(s) /\ m - 1 \in 0..Len(s)
      BY <2>2
    <3>2. <<m, g[m - 1]>> \in (1..Len(s)) \X Shape
      BY <3>1, <1>3
    <3>3. step[<<m, g[m - 1]>>] = Put(g[m - 1], s[m], size)
      BY <3>2
    <3> QED
      BY <1>3, <2>2, <3>1, <3>3
  <2> QED
    BY <2>1, <2>2
<1>5. Eq(g)
  <2> HIDE DEF b
  <2> QED
    BY <1>3, <1>4
<1>6. Turns(s, size, offset) = CHOOSE f : Eq(f)
  BY DEF Turns
<1> HIDE DEF Eq
<1>7. Eq(Turns(s, size, offset))
  BY <1>5, <1>6
<1> QED
  BY <1>7 DEF Eq

(* The first turn, and the next.                                           *)
LEMMA TurnsOneByOne ==
    ASSUME NEW s \in Seq(Char), NEW size \in Nat, NEW offset \in Nat
    PROVE  /\ Turns(s, size, offset)[0] = [col |-> offset, ret |-> <<>>]
           /\ \A m \in Nat : m < Len(s) =>
                 Turns(s, size, offset)[m + 1]
                   = Put(Turns(s, size, offset)[m], s[m + 1], size)
<1> DEFINE T == Turns(s, size, offset)
<1>1. T = [m \in 0..Len(s) |-> IF m = 0 THEN [col |-> offset, ret |-> <<>>]
                               ELSE Put(T[m - 1], s[m], size)]
  BY TurnsEquation
<1> HIDE DEF T
<1>2. ASSUME NEW m \in 0..Len(s)
      PROVE  T[m] = IF m = 0 THEN [col |-> offset, ret |-> <<>>] ELSE Put(T[m - 1], s[m], size)
  BY <1>1
<1>3. T[0] = [col |-> offset, ret |-> <<>>]
  BY <1>2
<1>4. ASSUME NEW m \in Nat, m < Len(s)
      PROVE  T[m + 1] = Put(T[m], s[m + 1], size)
  <2>1. m + 1 \in 0..Len(s) /\ m + 1 # 0 /\ (m + 1) - 1 = m
    BY <1>4
  <2> QED
    BY <1>2, <2>1
<1> QED
  BY <1>3, <1>4 DEF T

(* Each has a column and a text.                                           *)
LEMMA TurnsType ==
    ASSUME NEW s \in Seq(Char), NEW size \in Nat, NEW offset \in Nat, NEW k \in 0..Len(s)
    PROVE  Turns(s, size, offset)[k] \in Shape
<1> DEFINE T == Turns(s, size, offset)
           S == {m \in Nat : m <= Len(s) => T[m] \in Shape}
<1>1. T[0] = [col |-> offset, ret |-> <<>>]
      /\ \A m \in Nat : m < Len(s) => T[m + 1] = Put(T[m], s[m + 1], size)
  BY TurnsOneByOne
<1> HIDE DEF T
<1>2. 0 \in S
  <2>1. [col |-> offset, ret |-> <<>>] \in Shape
    BY DEF Shape
  <2> QED
    BY <1>1, <2>1
<1>3. ASSUME NEW m \in Nat, m \in S PROVE m + 1 \in S
  <2>1. CASE m < Len(s)
    <3>1. s[m + 1] \in Char /\ T[m] \in Shape
      BY <1>3, <2>1
    <3>2. T[m + 1] \in Shape
      BY <1>1, <2>1, <3>1, PutType
    <3> QED
      BY <3>2
  <2>2. CASE ~(m < Len(s))
    BY <2>2
  <2> QED
    BY <2>1, <2>2
<1>4. Nat \subseteq S
  <2> HIDE DEF S
  <2> QED
    BY <1>2, <1>3, Induction
<1> QED
  BY <1>4 DEF T

(* The turns for the beginning of a text are the first turns for the text. *)
LEMMA TurnsOfPrefix ==
    ASSUME NEW s \in Seq(Char), NEW size \in Nat, NEW offset \in Nat, NEW j \in 0..Len(s)
    PROVE  Lines(SubSeq(s, 1, j), size, offset) = Turns(s, size, offset)[j].ret
<1> DEFINE p == SubSeq(s, 1, j)
           T == Turns(s, size, offset)
           P == Turns(p, size, offset)
           S == {m \in Nat : m <= j => P[m] = T[m]}
<1>1. p \in Seq(Char) /\ Len(p) = j /\ \A m \in 1..j : p[m] = s[m]
  BY SubSeqProperties
<1>2. T[0] = [col |-> offset, ret |-> <<>>]
      /\ \A m \in Nat : m < Len(s) => T[m + 1] = Put(T[m], s[m + 1], size)
  BY TurnsOneByOne
<1>3. P[0] = [col |-> offset, ret |-> <<>>]
      /\ \A m \in Nat : m < j => P[m + 1] = Put(P[m], p[m + 1], size)
  <2> HIDE DEF p
  <2> QED
    BY <1>1, TurnsOneByOne
<1>4. Lines(p, size, offset) = P[j].ret
  BY <1>1 DEF Lines
<1> HIDE DEF p, T, P
<1>5. 0 \in S
  BY <1>2, <1>3
<1>6. ASSUME NEW m \in Nat, m \in S PROVE m + 1 \in S
  <2>1. CASE m < j
    <3>1. P[m] = T[m] /\ p[m + 1] = s[m + 1] /\ m < Len(s)
      BY <1>1, <1>6, <2>1
    <3>2. P[m + 1] = T[m + 1]
      BY <1>2, <1>3, <2>1, <3>1
    <3> QED
      BY <3>2
  <2>2. CASE ~(m < j)
    BY <2>2
  <2> QED
    BY <2>1, <2>2
<1>7. Nat \subseteq S
  <2> HIDE DEF S
  <2> QED
    BY <1>5, <1>6, Induction
<1>8. P[j] = T[j]
  BY <1>7
<1> QED
  BY <1>4, <1>8 DEF p, T

-----------------------------------------------------------------------------
(* The inductive invariant of the text.                                    *)

\* The reference encoder has done k turns when the encoder has written text and is in
\* column c, past the end of the line if its newline is still to be written.
Stands(s, size, offset, k, c, text) ==
    Turns(s, size, offset)[k]
      = IF c < size THEN [col |-> c, ret |-> text] ELSE [col |-> 0, ret |-> text \o NewLine]

Reached(k, c, text) == Stands(src, line_size, colOffset, k, c, text)

Tidy == dest # <<>> => Last(dest) # LF

\* Where the current run began, and the column there.
Before  == SubSeq(dest, 1, sp)
Started == col - (Used - sp)

\* A run that reached the last column but one may have escaped what is the last
\* character of the line the wrong way: all that is known then is where it began.
TextInv ==
    /\ pc \in {"line", "end"} => Tidy
    /\ pc \in {"line", "runs", "run", "rest"} => col > 0
    /\ pc \in {"line", "rest"} => Reached(i, col, dest)
    /\ pc = "runs" /\ sp < 0 => Reached(i, col, dest)
    /\ pc = "runs" /\ sp >= 0 => /\ Started > 0 /\ Reached(i - Run, Started, Before)
                                 /\ col < line_size - 1 => Reached(i, col, dest)
    /\ pc = "run" => /\ Reached(i, col, Before)
                     /\ col + (Used - sp) < line_size - 1
                          => Reached(i + n, col + (Used - sp), dest)
    /\ pc = "newline" => Reached(i, line_size, dest)
    /\ pc = "end" => \E c \in Nat : Reached(i, c, dest)
    /\ pc = "done" => LET text == Trimmed(Lines(src, line_size, colOffset))
                      IN  dest = IF doEnd THEN Ended(text) ELSE text

-----------------------------------------------------------------------------
(* The next turn.                                                          *)

LEMMA CodeIsChars ==
    ASSUME NEW c, NEW size \in Nat \ {0}, NEW offset \in Nat
    PROVE  /\ Chars(c, 0, size) = Code(c, AtEdge(c))
           /\ 0 < offset /\ offset < size - 1 => Chars(c, offset, size) = Code(c, c \in Critical)
           /\ 0 < offset /\ offset = size - 1
                => Chars(c, offset, size) = Code(c, AtEdge(c) /\ c # DOT)
<1>1. MustEscape(c, 0, size) <=> AtEdge(c)
  BY DEF MustEscape, AtEdge, Edgy
<1>2. ASSUME 0 < offset, offset < size - 1
      PROVE  MustEscape(c, offset, size) <=> c \in Critical
  <2>1. offset # 0 /\ ~(offset >= size - 1)
    BY <1>2
  <2> QED
    BY <2>1 DEF MustEscape
<1>3. ASSUME 0 < offset, offset = size - 1
      PROVE  MustEscape(c, offset, size) <=> AtEdge(c) /\ c # DOT
  <2>1. offset # 0 /\ offset >= size - 1
    BY <1>3
  <2>2. MustEscape(c, offset, size) <=> c \in Critical \union Blank
    BY <2>1 DEF MustEscape
  <2>3. DOT \notin Critical \union Blank
    BY DEF Critical, Blank, DOT, NUL, CR, LF, EQ, TAB, SP
  <2> QED
    BY <2>2, <2>3 DEF AtEdge, Edgy
<1> QED
  BY <1>1, <1>2, <1>3 DEF Chars, Code

\* Within a line, and on the next.
LEMMA NextTurn ==
    ASSUME NEW s \in Seq(Char), NEW size \in Nat \ {0}, NEW offset \in Nat,
           NEW k \in Nat, k < Len(s), NEW c \in Nat, NEW text \in Seq(Char),
           Stands(s, size, offset, k, c, text)
    PROVE  /\ c < size =>
                LET chars == Chars(s[k + 1], c, size)
                IN  Stands(s, size, offset, k + 1, c + Len(chars), text \o chars)
           /\ c >= size =>
                LET chars == Chars(s[k + 1], 0, size)
                IN  Stands(s, size, offset, k + 1, Len(chars), text \o (NewLine \o chars))
<1>1. s[k + 1] \in Char
  <2>1. Len(s) \in Nat
    OBVIOUS
  <2>2. k + 1 \in 1..Len(s)
    BY <2>1
  <2> QED
    BY <2>2
<1>2. Turns(s, size, offset)[k + 1] = Put(Turns(s, size, offset)[k], s[k + 1], size)
  <2>1. size \in Nat
    OBVIOUS
  <2>2. \A j \in Nat : j < Len(s) =>
           Turns(s, size, offset)[j + 1] = Put(Turns(s, size, offset)[j], s[j + 1], size)
    BY <2>1, TurnsOneByOne
  <2> QED
    BY <2>2
<1>3. NewLine \in Seq(Char)
  BY DEF NewLine, Char, Special
<1>4. ASSUME NEW col0 \in Nat, NEW ret0 \in Seq(Char),
             Turns(s, size, offset)[k] = [col |-> col0, ret |-> ret0]
      PROVE  LET chars == Chars(s[k + 1], col0, size)
             IN  Stands(s, size, offset, k + 1, col0 + Len(chars), ret0 \o chars)
  <2> DEFINE chars == Chars(s[k + 1], col0, size)
  <2>1. chars \in Seq(Char) /\ Len(chars) \in Nat
    BY <1>1, CharsFacts
  <2>2. Put([col |-> col0, ret |-> ret0], s[k + 1], size)
          = IF col0 + Len(chars) >= size
            THEN [col |-> 0, ret |-> ret0 \o chars \o NewLine]
            ELSE [col |-> col0 + Len(chars), ret |-> ret0 \o chars]
    BY PutIs
  <2> HIDE DEF chars
  <2>3. col0 + Len(chars) >= size <=> ~(col0 + Len(chars) < size)
    BY <2>1
  <2>4. Stands(s, size, offset, k + 1, col0 + Len(chars), ret0 \o chars)
    BY <1>2, <1>4, <2>2, <2>3 DEF Stands
  <2> QED
    BY <2>4 DEF chars
<1>5. CASE c < size
  <2>1. Turns(s, size, offset)[k] = [col |-> c, ret |-> text]
    BY <1>5 DEF Stands
  <2> QED
    BY <1>4, <1>5, <2>1
<1>6. CASE c >= size
  <2>1. Turns(s, size, offset)[k] = [col |-> 0, ret |-> text \o NewLine]
    BY <1>6 DEF Stands
  <2>2. text \o NewLine \in Seq(Char)
    BY <1>3
  <2> DEFINE chars == Chars(s[k + 1], 0, size)
  <2>3. Stands(s, size, offset, k + 1, 0 + Len(chars), (text \o NewLine) \o chars)
    BY <1>4, <2>1, <2>2
  <2>4. chars \in Seq(Char) /\ 0 + Len(chars) = Len(chars)
    BY <1>1, CharsFacts
  <2> HIDE DEF chars
  <2>5. (text \o NewLine) \o chars = text \o (NewLine \o chars)
    BY <1>3, <2>4, ConcatAssociative, SMTT(60)
  <2>6. Stands(s, size, offset, k + 1, Len(chars), text \o (NewLine \o chars))
    BY <2>3, <2>4, <2>5
  <2> QED
    BY <1>6, <2>6 DEF chars
<1> QED
  BY <1>5, <1>6

\* At the end of a line the column is not counted on.
LEMMA PastTheEnd ==
    ASSUME NEW s, NEW size \in Nat, NEW offset, NEW k, NEW c \in Nat, NEW text,
           c >= size, NEW d \in Nat, d >= size
    PROVE  Stands(s, size, offset, k, c, text) <=> Stands(s, size, offset, k, d, text)
<1>1. ~(c < size) /\ ~(d < size)
  OBVIOUS
<1> QED
  BY <1>1 DEF Stands

LEMMA Facts ==
    ASSUME Inv
    PROVE  /\ src \in Seq(Char) /\ dest \in Seq(Char) /\ line_size \in Nat \ {0}
           /\ colOffset \in Nat /\ colOffset < line_size
           /\ i \in Nat /\ n \in Nat /\ col \in Nat /\ Used \in Nat /\ Used = Len(dest)
           /\ Size = Len(src) /\ Size \in Nat
           /\ Run \in Nat \ {0} /\ sp \in Int /\ sp >= -1 /\ sp <= Used
<1>1. Typed
  BY DEF Inv
<1>2. <<>> \in Seq(Char)
  BY EmptySeq
<1> QED
  BY <1>1, <1>2, Arguments, DataAssumption DEF Typed, Size, Used

LEMMA SameText ==
    ASSUME UNCHANGED args, NEW k, NEW c, NEW text
    PROVE  Stands(src, line_size, colOffset, k, c, text)
             <=> Stands(src', line_size', colOffset', k, c, text)
  BY DEF args

\* What is written for a byte does not end in a newline.
LEMMA CodeTail ==
    ASSUME NEW c \in Char, NEW e \in BOOLEAN, c \in Critical => e, e => AtEdge(c)
    PROVE  /\ Code(c, e) \in Seq(Char) /\ Len(Code(c, e)) \in {1, 2}
           /\ Code(c, e)[Len(Code(c, e))] # LF
<1>1. CASE e
  <2>1. Code(c, e) = <<EQ, Shifted[c]>>
    BY <1>1 DEF Code, Escape
  <2>2. Shifted[c] \in Char /\ EQ \in Char /\ Shifted[c] # LF
    BY <1>1, ShiftedIsChar DEF AtEdge
  <2> QED
    BY <2>1, <2>2
<1>2. CASE ~e
  <2>1. Code(c, e) = <<c>> /\ c # LF
    BY <1>2 DEF Code, Critical
  <2> QED
    BY <2>1
<1> QED
  BY <1>1, <1>2

LEMMA CodeTails ==
    ASSUME NEW c \in Char, NEW chars,
           \/ chars = Code(c, AtEdge(c))
           \/ chars = Code(c, c \in Critical)
           \/ chars = Code(c, AtEdge(c) /\ c # DOT)
    PROVE  chars \in Seq(Char) /\ Len(chars) \in {1, 2} /\ chars[Len(chars)] # LF
<1>1. ASSUME NEW e \in BOOLEAN, c \in Critical => e, e => AtEdge(c), chars = Code(c, e)
      PROVE  chars \in Seq(Char) /\ Len(chars) \in {1, 2} /\ chars[Len(chars)] # LF
  BY <1>1, CodeTail
<1>2. c \in Critical => AtEdge(c) /\ c # DOT
  BY DEF AtEdge, Critical, DOT, NUL, CR, LF, EQ
<1>3. /\ AtEdge(c) \in BOOLEAN /\ (c \in Critical) \in BOOLEAN
      /\ (AtEdge(c) /\ c # DOT) \in BOOLEAN
  BY DEF AtEdge
<1> QED
  BY <1>1, <1>2, <1>3

LEMMA EndOfText ==
    ASSUME NEW s \in Seq(Char), NEW t \in Seq(Char), Len(t) \in {1, 2}
    PROVE  s \o t \in Seq(Char) /\ Len(s \o t) = Len(s) + Len(t) /\ Last(s \o t) = t[Len(t)]
<1>1. s \o t \in Seq(Char) /\ Len(s \o t) = Len(s) + Len(t)
  OBVIOUS
<1>2. (s \o t)[Len(s) + Len(t)] = t[Len(t)]
  OBVIOUS
<1> QED
  BY <1>1, <1>2 DEF Last

\* The byte after k others, in the four places of a line the encoder distinguishes.
LEMMA NextByte ==
    ASSUME Inv, NEW k \in Nat, k < Size, NEW c \in Nat, NEW text \in Seq(Char),
           Reached(k, c, text)
    PROVE  LET byte == src[k + 1]
               edge == Code(byte, AtEdge(byte))
               most == Code(byte, byte \in Critical)
               last == Code(byte, AtEdge(byte) /\ byte # DOT)
           IN  /\ c = 0 => Reached(k + 1, Len(edge), text \o edge)
               /\ 0 < c /\ c < line_size - 1 => Reached(k + 1, c + Len(most), text \o most)
               /\ 0 < c /\ c = line_size - 1 => Reached(k + 1, line_size, text \o last)
               /\ c >= line_size => Reached(k + 1, Len(edge), text \o (NewLine \o edge))
<1> DEFINE byte == src[k + 1]
           edge == Code(byte, AtEdge(byte))
           most == Code(byte, byte \in Critical)
           last == Code(byte, AtEdge(byte) /\ byte # DOT)
<1>1. src \in Seq(Char) /\ line_size \in Nat \ {0} /\ colOffset \in Nat /\ k < Len(src)
  BY Facts
<1>2. byte \in Char
  <2>1. k + 1 \in 1..Len(src)
    BY <1>1
  <2> QED
    BY <1>1, <2>1
<1>3. /\ Chars(byte, 0, line_size) = edge
      /\ 0 < c /\ c < line_size - 1 => Chars(byte, c, line_size) = most
      /\ 0 < c /\ c = line_size - 1 => Chars(byte, c, line_size) = last
  BY <1>1, CodeIsChars
<1>4. /\ c < line_size => Reached(k + 1, c + Len(Chars(byte, c, line_size)),
                                  text \o Chars(byte, c, line_size))
      /\ c >= line_size => Reached(k + 1, Len(Chars(byte, 0, line_size)),
                                   text \o (NewLine \o Chars(byte, 0, line_size)))
  BY <1>1, NextTurn DEF Reached
<1>5. /\ Len(edge) \in Nat /\ Len(Chars(byte, c, line_size)) \in {1, 2}
  <2>1. Len(Chars(byte, 0, line_size)) \in {1, 2}
    BY <1>2, CharsFacts
  <2>2. Len(Chars(byte, c, line_size)) \in {1, 2}
    BY <1>2, CharsFacts
  <2> QED
    BY <1>3, <2>1, <2>2
<1> HIDE DEF byte, edge, most, last
<1>6. c = 0 => Reached(k + 1, Len(edge), text \o edge)
  <2>1. SUFFICES ASSUME c = 0 PROVE Reached(k + 1, Len(edge), text \o edge)
    OBVIOUS
  <2>2. c < line_size /\ c + Len(edge) = Len(edge)
    BY <1>1, <1>5, <2>1
  <2> QED
    BY <1>3, <1>4, <2>1, <2>2
<1>7. 0 < c /\ c < line_size - 1 => Reached(k + 1, c + Len(most), text \o most)
  <2>1. c < line_size - 1 => c < line_size
    BY <1>1
  <2> QED
    BY <1>3, <1>4, <2>1
<1>8. 0 < c /\ c = line_size - 1 => Reached(k + 1, line_size, text \o last)
  <2>1. SUFFICES ASSUME 0 < c, c = line_size - 1 PROVE Reached(k + 1, line_size, text \o last)
    OBVIOUS
  <2>2. Chars(byte, c, line_size) = last
    BY <1>3, <2>1
  <2>3. c < line_size /\ c + Len(last) \in Nat /\ c + Len(last) >= line_size /\ line_size \in Nat
        /\ line_size >= line_size
    <3>1. PICK m \in {1, 2} : m = Len(last)
      BY <1>5, <2>2
    <3>2. c < line_size /\ c + m \in Nat /\ c + m >= line_size /\ line_size \in Nat
          /\ line_size >= line_size
      BY <1>1, <2>1
    <3> QED
      BY <3>1, <3>2
  <2>4. Reached(k + 1, c + Len(last), text \o last)
    BY <1>4, <2>2, <2>3
  <2> QED
    BY <2>3, <2>4, PastTheEnd DEF Reached
<1>9. c >= line_size => Reached(k + 1, Len(edge), text \o (NewLine \o edge))
  BY <1>3, <1>4
<1> QED
  BY <1>6, <1>7, <1>8, <1>9 DEF byte, edge, most, last

-----------------------------------------------------------------------------
(* The invariant holds at first, and every action keeps it.                *)

LEMMA InitText == ASSUME Init PROVE TextInv
  BY DEF Init, TextInv

LEMMA CallText == ASSUME Call PROVE TextInv'
  BY DEF Call, TextInv

LEMMA FirstText == ASSUME Inv, First PROVE TextInv'
<1>1. /\ pc = "first" /\ pc' = "line" /\ UNCHANGED args
      /\ i = 0 /\ dest = <<>> /\ col = colOffset /\ 0 < Size
  BY DEF First, Inv, ReadInv
<1>2. src' = src /\ line_size' = line_size /\ colOffset' = colOffset
  BY <1>1 DEF args
<1>3. Reached(0, colOffset, <<>>)
  <2>1. src \in Seq(Char) /\ line_size \in Nat /\ colOffset \in Nat /\ colOffset < line_size
    BY Facts
  <2> QED
    BY <2>1, TurnsOneByOne DEF Reached, Stands
<1>4. CASE col = 0
  <2> DEFINE chars == Code(src[0 + 1], AtEdge(src[0 + 1]))
  <2>1. dest' = <<>> \o chars /\ col' = Len(chars) /\ i' = 0 + 1
    BY <1>1, <1>4 DEF First, Write, Here
  <2>2. src[0 + 1] \in Char
    BY <1>1, HereIsByte DEF Here, Inv
  <2>3. chars \in Seq(Char) /\ Len(chars) \in {1, 2} /\ chars[Len(chars)] # LF
    BY <2>2, CodeTails
  <2>4. Reached(0 + 1, Len(chars), <<>> \o chars)
    <3>1. <<>> \in Seq(Char) /\ 0 \in Nat /\ Reached(0, 0, <<>>)
      BY <1>1, <1>3, <1>4
    <3> QED
      BY <1>1, <3>1, NextByte
  <2> HIDE DEF chars
  <2>5. Last(dest') # LF
    BY <2>1, <2>3, EndOfText, EmptySeq
  <2>6. col' > 0
    BY <2>1, <2>3
  <2>7. Reached(i', col', dest')
    BY <2>1, <2>4
  <2> QED
    BY <1>1, <1>2, <2>5, <2>6, <2>7 DEF TextInv, Tidy, Reached
<1>5. CASE col # 0
  <2>1. i' = i /\ col' = col /\ dest' = dest
    BY <1>5 DEF First
  <2>2. col > 0
    BY <1>5, Facts
  <2> QED
    BY <1>1, <1>2, <1>3, <2>1, <2>2 DEF TextInv, Tidy, Reached
<1> QED
  BY <1>4, <1>5

LEMMA LineText == ASSUME Inv, TextInv, Line PROVE TextInv'
<1>1. /\ pc = "line" /\ pc' \in {"runs", "end"} /\ UNCHANGED args /\ sp' = -1
      /\ i' = i /\ col' = col /\ dest' = dest
  BY DEF Line, NULL
<1>2. src' = src /\ line_size' = line_size /\ colOffset' = colOffset
  BY <1>1 DEF args
<1>3. col > 0 /\ Tidy /\ Reached(i, col, dest)
  BY <1>1 DEF TextInv
<1>4. Reached(i', col', dest') /\ Tidy' /\ sp' < 0 /\ col' \in Nat /\ col' > 0
  BY <1>1, <1>3, Facts DEF Tidy
<1> QED
  BY <1>1, <1>2, <1>4 DEF TextInv, Reached

\* What is known when a run begins, or the bytes are taken one by one again.
LEMMA OnTheWay ==
    ASSUME Inv, TextInv, pc = "runs", col < line_size - 1 \/ sp < 0
    PROVE  Reached(i, col, dest)
<1>1. sp < 0 \/ sp >= 0
  BY Facts
<1> QED
  BY <1>1 DEF TextInv

LEMMA StartRunText == ASSUME Inv, TextInv, StartRun PROVE TextInv'
<1>1. /\ pc = "runs" /\ pc' = "run" /\ UNCHANGED args /\ sp' = Used /\ n' = 0
      /\ i' = i /\ col' = col /\ dest' = dest /\ col + 1 + Run < line_size
  BY DEF StartRun, RunFits, Used
<1>2. src' = src /\ line_size' = line_size /\ colOffset' = colOffset
  BY <1>1 DEF args
<1>3. col > 0
  BY <1>1 DEF TextInv
<1>4. Reached(i, col, dest)
  <2>1. col < line_size - 1
    BY <1>1, Facts
  <2> QED
    BY <1>1, <2>1, OnTheWay
<1>5. SubSeq(dest, 1, Used) = dest
  <2>1. dest \in Seq(Char) /\ Used = Len(dest)
    BY Facts
  <2> QED
    BY <2>1, SubSeqFull
<1>6. i' + n' = i /\ col' + (Used' - sp') = col
  <2>1. Used' = Used
    BY <1>1 DEF Used
  <2> QED
    BY <1>1, <2>1, Facts
<1>7. Before' = dest /\ Reached(i', col', Before') /\ Reached(i' + n', col' + (Used' - sp'), dest')
  BY <1>1, <1>4, <1>5, <1>6 DEF Before
<1> QED
  BY <1>1, <1>2, <1>3, <1>7 DEF TextInv, Reached

LEMMA DO_THINGText == ASSUME Inv, TextInv, DO_THING PROVE TextInv'
<1> DEFINE chars == Code(src[(i + n) + 1], src[(i + n) + 1] \in Critical)
<1>1. /\ pc = "run" /\ pc' = "run" /\ UNCHANGED args /\ sp' = sp /\ n' = n + 1
      /\ i' = i /\ col' = col /\ dest' = dest \o chars /\ n < Run
  BY DEF DO_THING, Write
<1>2. src' = src /\ line_size' = line_size /\ colOffset' = colOffset
  BY <1>1 DEF args
<1>3. /\ col > 0 /\ Reached(i, col, Before)
      /\ col + (Used - sp) < line_size - 1 => Reached(i + n, col + (Used - sp), dest)
  BY <1>1 DEF TextInv
<1>4. i + 1 + Run < Size /\ sp >= 0
  BY <1>1 DEF Inv, ReadInv, RunInv
<1>5. i + n \in Nat /\ i + n < Size
  <2>1. i \in Nat /\ n \in Nat /\ Size \in Nat /\ Run \in Nat
    BY Facts
  <2> QED
    BY <1>1, <1>4, <2>1
<1>6. chars \in Seq(Char) /\ Len(chars) \in {1, 2}
  <2>1. src[(i + n) + 1] \in Char
    <3>1. src \in Seq(Char) /\ Size = Len(src) /\ Size \in Nat
      BY Facts
    <3>2. (i + n) + 1 \in 1..Size
      BY <1>5, <3>1
    <3> QED
      BY <3>1, <3>2
  <2> QED
    BY <2>1, CodeTails
<1>7. col + (Used - sp) \in Nat /\ col + (Used - sp) > 0
  BY <1>3, Facts
<1>8. 0 < col + (Used - sp) /\ col + (Used - sp) < line_size - 1
        => Reached((i + n) + 1, (col + (Used - sp)) + Len(chars), dest \o chars)
  BY <1>3, <1>5, <1>7, NextByte, Facts
<1> HIDE DEF chars
<1>9. PICK k \in {1, 2} : k = Len(chars)
  BY <1>6
<1>10. Used' = Used + k /\ Used \in Nat /\ sp \in 0..Used
  BY <1>1, <1>4, <1>6, <1>9, Facts DEF Used
<1>11. Before' = Before
  <2>1. dest \in Seq(Char) /\ sp \in Nat /\ sp <= Len(dest)
    BY <1>4, Facts
  <2>2. SubSeq(dest \o chars, 1, sp) = SubSeq(dest, 1, sp)
    BY <1>6, <2>1, SubSeqOfConcat1
  <2> QED
    BY <1>1, <2>2 DEF Before
<1>12. col' + (Used' - sp') < line_size - 1 => Reached(i' + n', col' + (Used' - sp'), dest')
  <2>1. /\ col' + (Used' - sp') = (col + (Used - sp)) + k
        /\ (col + (Used - sp)) + k < line_size - 1 => col + (Used - sp) < line_size - 1
        /\ i' + n' = (i + n) + 1
    <3>1. col \in Nat /\ line_size \in Nat /\ i \in Nat /\ n \in Nat
      BY Facts
    <3>2. col' + (Used' - sp') = col + ((Used + k) - sp)
      BY <1>1, <1>10
    <3>3. k \in Nat /\ col + ((Used + k) - sp) = (col + (Used - sp)) + k
      BY <1>10, <3>1
    <3> QED
      BY <1>1, <1>7, <3>1, <3>2, <3>3
  <2> QED
    BY <1>1, <1>7, <1>8, <1>9, <2>1
<1>13. Reached(i', col', Before')
  BY <1>1, <1>3, <1>11
<1> QED
  BY <1>1, <1>2, <1>3, <1>12, <1>13 DEF TextInv, Reached

LEMMA RunDoneText == ASSUME Inv, TextInv, RunDone PROVE TextInv'
<1>1. /\ pc = "run" /\ pc' = "runs" /\ UNCHANGED args /\ sp' = sp /\ n = Run /\ Used' = Used
      /\ i' = i + Run /\ col' = col + (Used - sp) /\ dest' = dest /\ Before' = Before
  BY DEF RunDone, Used, Before
<1>2. src' = src /\ line_size' = line_size /\ colOffset' = colOffset
  BY <1>1 DEF args
<1>3. /\ col > 0 /\ Reached(i, col, Before)
      /\ col + (Used - sp) < line_size - 1 => Reached(i + n, col + (Used - sp), dest)
  BY <1>1 DEF TextInv
<1>4. sp >= 0 /\ sp <= Used
  BY <1>1, Facts DEF Inv, RunInv
<1>5. col' > 0 /\ Started' = col /\ i' - Run = i /\ ~(sp' < 0)
  <2>1. Started' = col' - (Used' - sp')
    BY DEF Started
  <2>2. Used' = Used /\ sp' = sp /\ col' = col + (Used - sp) /\ i' = i + Run
    BY <1>1
  <2>3. Started' = (col + (Used - sp)) - (Used - sp)
    BY <2>1, <2>2
  <2>4. col \in Nat /\ Used \in Nat /\ sp \in Int /\ Run \in Nat /\ i \in Nat
    BY Facts
  <2>5. col > 0
    BY <1>3
  <2> QED
    BY <1>4, <2>2, <2>3, <2>4, <2>5
<1>6. Started' > 0 /\ Reached(i' - Run, Started', Before')
  BY <1>1, <1>3, <1>5
<1>7. col' < line_size - 1 => Reached(i', col', dest')
  BY <1>1, <1>3
<1> QED
  BY <1>1, <1>2, <1>5, <1>6, <1>7 DEF TextInv, Reached

LEMMA NoUndoText == ASSUME Inv, TextInv, NoUndo PROVE TextInv'
<1>1. /\ pc = "runs" /\ pc' = "rest" /\ UNCHANGED args
      /\ i' = i /\ col' = col /\ dest' = dest /\ ~Overflowed
  BY DEF NoUndo
<1>2. src' = src /\ line_size' = line_size /\ colOffset' = colOffset
  BY <1>1 DEF args
<1>3. col > 0
  BY <1>1 DEF TextInv
<1>4. Reached(i, col, dest)
  <2>1. col < line_size - 1 \/ sp < 0
    BY <1>1, Facts DEF Overflowed, NULL
  <2> QED
    BY <1>1, <2>1, OnTheWay
<1> QED
  BY <1>1, <1>2, <1>3, <1>4 DEF TextInv, Reached

LEMMA UndoText == ASSUME Inv, TextInv, Undo PROVE TextInv'
<1>1. /\ pc = "runs" /\ pc' = "rest" /\ UNCHANGED args
      /\ i' = i - Run /\ col' = Started /\ dest' = Before /\ Overflowed
  BY DEF Undo, Started, Used, Before
<1>2. src' = src /\ line_size' = line_size /\ colOffset' = colOffset
  BY <1>1 DEF args
<1>3. sp >= 0
  BY <1>1, Facts DEF Overflowed, NULL
<1>4. Started > 0 /\ Reached(i - Run, Started, Before)
  BY <1>1, <1>3 DEF TextInv
<1> QED
  BY <1>1, <1>2, <1>4 DEF TextInv, Reached

LEMMA RestText == ASSUME Inv, TextInv, Rest PROVE TextInv'
<1> DEFINE chars == Code(src[i + 1], src[i + 1] \in Critical)
<1>1. /\ pc = "rest" /\ pc' \in {"rest", "end"} /\ UNCHANGED args
      /\ i' = i + 1 /\ col' = col + Len(chars) /\ dest' = dest \o chars
      /\ col < line_size - 1 /\ i < Size
  BY DEF Rest, Write, Here, Inv, ReadInv
<1>2. src' = src /\ line_size' = line_size /\ colOffset' = colOffset
  BY <1>1 DEF args
<1>3. col > 0 /\ Reached(i, col, dest)
  BY <1>1 DEF TextInv
<1>4. src[i + 1] \in Char
  BY <1>1, HereIsByte DEF Here, Inv
<1>5. chars \in Seq(Char) /\ Len(chars) \in {1, 2} /\ chars[Len(chars)] # LF
  BY <1>4, CodeTails
<1>6. Reached(i + 1, col + Len(chars), dest \o chars)
  BY <1>1, <1>3, NextByte, Facts
<1> HIDE DEF chars
<1>7. Last(dest') # LF
  BY <1>1, <1>5, EndOfText, Facts
<1>8. col' > 0 /\ col' \in Nat
  <2>1. PICK m \in {1, 2} : m = Len(chars)
    BY <1>5
  <2>2. col' = col + m /\ col \in Nat
    BY <1>1, <2>1, Facts
  <2> QED
    BY <2>2
<1>9. Reached(i', col', dest')
  BY <1>1, <1>6
<1> QED
  BY <1>1, <1>2, <1>7, <1>8, <1>9 DEF TextInv, Tidy, Reached

LEMMA LastCharText == ASSUME Inv, TextInv, LastChar PROVE TextInv'
<1> DEFINE chars == Code(src[i + 1], AtEdge(src[i + 1]) /\ src[i + 1] # DOT)
<1>1. /\ pc = "rest" /\ pc' \in {"newline", "end"} /\ UNCHANGED args
      /\ i' = i + 1 /\ col' = col /\ dest' = dest \o chars
      /\ col = line_size - 1 /\ i < Size
  BY DEF LastChar, Write, Here, Inv, ReadInv
<1>2. src' = src /\ line_size' = line_size /\ colOffset' = colOffset
  BY <1>1 DEF args
<1>3. col > 0 /\ Reached(i, col, dest)
  BY <1>1 DEF TextInv
<1>4. src[i + 1] \in Char
  BY <1>1, HereIsByte DEF Here, Inv
<1>5. chars \in Seq(Char) /\ Len(chars) \in {1, 2} /\ chars[Len(chars)] # LF
  BY <1>4, CodeTails
<1>6. Reached(i + 1, line_size, dest \o chars)
  BY <1>1, <1>3, NextByte, Facts
<1> HIDE DEF chars
<1>7. Last(dest') # LF
  BY <1>1, <1>5, EndOfText, Facts
<1>8. Reached(i', line_size, dest') /\ line_size \in Nat
  BY <1>1, <1>6, Facts
<1> QED
  BY <1>1, <1>2, <1>7, <1>8 DEF TextInv, Tidy, Reached

LEMMA NoLastCharText == ASSUME Inv, TextInv, NoLastChar PROVE TextInv'
<1>1. /\ pc = "rest" /\ pc' = "newline" /\ UNCHANGED args
      /\ i' = i /\ col' = col /\ dest' = dest /\ col >= line_size
  BY DEF NoLastChar
<1>2. src' = src /\ line_size' = line_size /\ colOffset' = colOffset
  BY <1>1 DEF args
<1>3. Reached(i, col, dest)
  BY <1>1 DEF TextInv
<1>4. Reached(i, line_size, dest)
  <2>1. line_size \in Nat /\ col \in Nat /\ line_size >= line_size
    BY Facts
  <2> QED
    BY <1>1, <1>3, <2>1, PastTheEnd DEF Reached
<1> QED
  BY <1>1, <1>2, <1>4 DEF TextInv, Reached

LEMMA StartLineText == ASSUME Inv, TextInv, StartLine PROVE TextInv'
<1> DEFINE chars == Code(src[i + 1], AtEdge(src[i + 1]))
<1>1. /\ pc = "newline" /\ pc' = "line" /\ UNCHANGED args
      /\ i' = i + 1 /\ col' = Len(chars) /\ dest' = dest \o (NewLine \o chars) /\ i < Size
  BY DEF StartLine, Write, Here, Inv, ReadInv
<1>2. src' = src /\ line_size' = line_size /\ colOffset' = colOffset
  BY <1>1 DEF args
<1>3. Reached(i, line_size, dest)
  BY <1>1 DEF TextInv
<1>4. src[i + 1] \in Char
  BY <1>1, HereIsByte DEF Here, Inv
<1>5. chars \in Seq(Char) /\ Len(chars) \in {1, 2} /\ chars[Len(chars)] # LF
  BY <1>4, CodeTails
<1>6. Reached(i + 1, Len(chars), dest \o (NewLine \o chars))
  <2>1. line_size \in Nat /\ line_size >= line_size
    BY Facts
  <2> QED
    BY <1>1, <1>3, <2>1, NextByte, Facts
<1> HIDE DEF chars
<1>7. Last(dest') # LF
  <2>1. NewLine \in Seq(Char) /\ dest \in Seq(Char)
    BY Facts DEF NewLine, Char, Special
  <2>2. (dest \o NewLine) \o chars = dest \o (NewLine \o chars)
    BY <1>5, <2>1, ConcatAssociative
  <2>3. dest \o NewLine \in Seq(Char)
    BY <2>1
  <2>4. Last((dest \o NewLine) \o chars) # LF
    BY <1>5, <2>3, EndOfText
  <2> QED
    BY <1>1, <2>2, <2>4
<1>8. col' > 0 /\ col' \in Nat
  BY <1>1, <1>5
<1>9. Reached(i', col', dest')
  BY <1>1, <1>6
<1> QED
  BY <1>1, <1>2, <1>7, <1>8, <1>9 DEF TextInv, Tidy, Reached

LEMMA FrontOfAppend ==
    ASSUME NEW s \in Seq(Char), NEW c \in Char
    PROVE  Front(s \o <<c>>) = s
<1>1. s \o <<c>> \in Seq(Char) /\ Len(s \o <<c>>) = Len(s) + 1 /\ Len(s) \in Nat
  OBVIOUS
<1>2. Front(s \o <<c>>) = SubSeq(s \o <<c>>, 1, Len(s))
  BY <1>1 DEF Front
<1>3. CASE Len(s) = 0
  <2>1. s = <<>> /\ SubSeq(s \o <<c>>, 1, 0) = <<>>
    BY <1>1, <1>3
  <2> QED
    BY <1>2, <1>3, <2>1
<1>4. CASE Len(s) # 0
  <2>1. 1 \in 1..Len(s) /\ Len(s) \in 1..Len(s)
    BY <1>1, <1>4
  <2>2. SubSeq(s \o <<c>>, 1, Len(s)) = SubSeq(s, 1, Len(s))
    BY <2>1, SubSeqOfConcat1, <<c>> \in Seq(Char)
  <2>3. SubSeq(s, 1, Len(s)) = s
    BY SubSeqFull
  <2> QED
    BY <1>2, <2>2, <2>3
<1> QED
  BY <1>3, <1>4

\* A newline that ends the text is taken back, and there is no other.
LEMMA TrimmedText ==
    ASSUME NEW s \in Seq(Char), s # <<>> => Last(s) # LF
    PROVE  Trimmed(s) = s /\ Trimmed(s \o NewLine) = s
<1>1. Trimmed(s) = s
  BY DEF Trimmed
<1>2. Trimmed(s \o NewLine) = s
  <2>1. CR \in Char /\ LF \in Char
    BY DEF Char, Special
  <2>2. s \o <<CR>> \in Seq(Char)
    BY <2>1
  <2>3. s \o NewLine = (s \o <<CR>>) \o <<LF>>
    <3>1. NewLine = <<CR>> \o <<LF>>
      <4>1. NewLine = Append(<<CR>>, LF)
        BY DEF NewLine
      <4>2. Append(<<CR>>, LF) = <<CR>> \o <<LF>>
        BY <2>1, AppendIsConcat, <<CR>> \in Seq(Char)
      <4> QED
        BY <4>1, <4>2
    <3>2. <<CR>> \in Seq(Char) /\ <<LF>> \in Seq(Char)
      BY <2>1
    <3> QED
      BY <3>1, <3>2, ConcatAssociative
  <2>4. Last((s \o <<CR>>) \o <<LF>>) = LF /\ (s \o <<CR>>) \o <<LF>> # <<>>
    BY <2>1, <2>2 DEF Last
  <2>5. Front((s \o <<CR>>) \o <<LF>>) = s \o <<CR>> /\ Front(s \o <<CR>>) = s
    BY <2>1, <2>2, FrontOfAppend
  <2> QED
    BY <2>3, <2>4, <2>5 DEF Trimmed
<1> QED
  BY <1>1, <1>2

\* At the start of each turn of the loop, and at the end.
LEMMA ReachedText ==
    ASSUME Inv, Tidy, NEW c \in Nat, Reached(i, c, dest), i <= Size
    PROVE  Trimmed(Lines(SubSeq(src, 1, i), line_size, colOffset)) = dest
<1>1. dest \in Seq(Char) /\ src \in Seq(Char) /\ line_size \in Nat /\ colOffset \in Nat
      /\ i \in 0..Len(src)
  BY Facts
<1>2. Lines(SubSeq(src, 1, i), line_size, colOffset) = Turns(src, line_size, colOffset)[i].ret
  BY <1>1, TurnsOfPrefix
<1>3. Turns(src, line_size, colOffset)[i].ret \in {dest, dest \o NewLine}
  BY DEF Reached, Stands
<1> QED
  BY <1>1, <1>2, <1>3, TrimmedText DEF Tidy

LEMMA FinishText == ASSUME Inv, TextInv, Finish PROVE TextInv'
<1>1. pc = "end" /\ pc' = "done" /\ UNCHANGED args /\ i = Size
  BY DEF Finish, Inv, ReadInv
<1>2. src' = src /\ line_size' = line_size /\ colOffset' = colOffset /\ doEnd' = doEnd
  BY <1>1 DEF args
<1>3. Tidy /\ dest # <<>>
  BY <1>1 DEF TextInv, Inv, ReadInv
<1>4. PICK c \in Nat : Reached(i, c, dest)
  BY <1>1 DEF TextInv
<1>5. Trimmed(Lines(src, line_size, colOffset)) = dest
  <2>1. i <= Size /\ SubSeq(src, 1, i) = src
    BY <1>1, Facts, SubSeqFull
  <2> QED
    BY <1>3, <1>4, <2>1, ReachedText
<1>6. dest' = IF doEnd THEN Ended(dest) ELSE dest
  BY <1>3 DEF Finish, Ended
<1>7. LET text == Trimmed(Lines(src', line_size', colOffset'))
      IN  dest' = IF doEnd' THEN Ended(text) ELSE text
  BY <1>2, <1>5, <1>6
<1> QED
  BY <1>1, <1>7 DEF TextInv

LEMMA CollectText == ASSUME Collect PROVE TextInv'
  BY DEF Collect, TextInv

LEMMA StutterText == ASSUME TextInv, UNCHANGED vars PROVE TextInv'
  BY DEF vars, args, TextInv, Tidy, Reached, Before, Started, Used

-----------------------------------------------------------------------------
(* What follows.                                                           *)

LEMMA TextInvariance == Spec => [](Inv /\ TextInv)
<1>1. Inv /\ TextInv /\ [Next]_vars => TextInv'
  BY CallText, FirstText, LineText, StartRunText, DO_THINGText, RunDoneText, NoUndoText,
     UndoText, RestText, LastCharText, NoLastCharText, StartLineText, FinishText, CollectText,
     StutterText DEF Next, Encode
<1> QED
  BY InitText, <1>1, Invariance, PTL DEF Spec

(* Whatever the portable encoder is given, at the start of each turn of    *)
(* its loop and when it is done it has written what the tests' reference   *)
(* encoder makes of the data read so far: runs of bytes that are escaped   *)
(* before it is known where the line ends, and undone when it is found to  *)
(* end among them, and newlines written with the byte after them, come to  *)
(* the same as one byte after another.                                     *)
THEOREM WritesWhatTheReferenceWrites == Spec => []EncodesAsReference
<1>1. Inv /\ TextInv => EncodesAsReference
  <2> SUFFICES ASSUME Inv, TextInv PROVE EncodesAsReference
    OBVIOUS
  <2>1. ASSUME pc \in {"line", "end"}
        PROVE  dest = Trimmed(Lines(SubSeq(src, 1, i), line_size, colOffset))
    <3>1. Tidy /\ i <= Size
      BY <2>1, Arguments DEF TextInv, Inv
    <3>2. \E c \in Nat : Reached(i, c, dest)
      BY <2>1, Facts DEF TextInv
    <3> QED
      BY <3>1, <3>2, ReachedText
  <2>2. pc = "done" => i = Len(src)
    BY DEF Inv, ReadInv, Size
  <2>3. pc = "done" /\ doEnd => dest = refYEnc(src, line_size, colOffset)
    BY DEF TextInv, refYEnc
  <2> QED
    BY <2>1, <2>2, <2>3 DEF EncodesAsReference
<1> QED
  BY TextInvariance, <1>1, PTL

-----------------------------------------------------------------------------
(* That the text decodes to the data.                                      *)

\* The two decoders, and what they make of a text.
E == INSTANCE YencStreamProofs WITH
       Chunk <- {}, Start <- "CRLF", To <- Goto, Yields <- Emit, Ends <- Verdict,
       chunk <- <<>>, at <- 0, decoded <- 0
U == INSTANCE YencStreamProofs WITH
       Chunk <- {}, Start <- "NONE", To <- UnstuffedGoto, Yields <- UnstuffedEmit,
       Ends <- NoEnd, chunk <- <<>>, at <- 0, decoded <- 0

Raw(text, start) == EndStream!After(text, start).decoded
Clean(text)      == Unstuffed!After(text, "NONE").decoded

\* Both decode text to s and are then in the middle of a line, or at the start of one.
Holds(d, ctx, s) == /\ d.ctx = ctx /\ d.ended = "NONE"
                    /\ d.out \in Seq(Byte) /\ Len(d.out) = Len(s) /\ Values(d.out) = s
DecodesTo(text, start, ctx, s) == Holds(Raw(text, start), ctx, s) /\ Holds(Clean(text), "NONE", s)

\* They stay among their contexts.
LEMMA GotoType ==
    ASSUME NEW ctx \in State, NEW c \in Char
    PROVE  Goto(ctx, c) \in State /\ UnstuffedGoto(ctx, c) \in State
<1>1. AfterPlain(c) \in State
  BY DEF AfterPlain, State
<1> HIDE DEF AfterPlain
<1> QED
  BY <1>1 DEF Goto, UnstuffedGoto, State

\* They yield bytes.
LEMMA EmitType ==
    ASSUME NEW ctx \in State, NEW c \in Char
    PROVE  Emit(ctx, c) \in Seq(Byte) /\ UnstuffedEmit(ctx, c) \in Seq(Byte)
<1>1. Plain(c) \in Byte /\ Escaped(c) \in Byte
  BY DEF Plain, Escaped, Byte
<1> QED
  BY <1>1 DEF Emit, UnstuffedEmit

\* They end in one of three ways.
LEMMA VerdictType ==
    ASSUME NEW ctx, NEW c PROVE Verdict(ctx, c) \in End /\ NoEnd(ctx, c) \in End
  BY DEF Verdict, NoEnd, End

\* So the lemmas on texts are about them.
LEMMA Automata == E!Decodes(State, Char, Byte, End) /\ U!Decodes(State, Char, Byte, End)
  BY GotoType, EmitType, VerdictType DEF E!Decodes, U!Decodes, End

\* The stream of those lemmas is that of Encoder.
LEMMA SameRaw == \A t, ctx : E!After(t, ctx) = EndStream!After(t, ctx)
  BY DEF E!After, EndStream!After, E!Fresh, EndStream!Fresh, E!Eat, EndStream!Eat

\* And so is the other.
LEMMA SameClean == \A t, ctx : U!After(t, ctx) = Unstuffed!After(t, ctx)
  BY DEF U!After, Unstuffed!After, U!Fresh, Unstuffed!Fresh, U!Eat, Unstuffed!Eat

\* A byte more, for each of the two.
LEMMA RawByte ==
    ASSUME NEW t \in Seq(Char), NEW c \in Char, NEW start \in State, Raw(t, start).ended = "NONE"
    PROVE  Raw(t \o <<c>>, start)
             = [ctx   |-> Goto(Raw(t, start).ctx, c),
                out   |-> Raw(t, start).out \o Emit(Raw(t, start).ctx, c),
                ended |-> Verdict(Raw(t, start).ctx, c)]
<1>1. E!After(t \o <<c>>, start) = E!Onward(E!After(t, start), c, Len(t) + 1)
  BY Automata, E!AfterByte
<1>2. E!After(t, start).decoded = Raw(t, start) /\ E!After(t \o <<c>>, start).decoded = Raw(t \o <<c>>, start)
  BY SameRaw DEF Raw
<1>3. E!Onward(E!After(t, start), c, Len(t) + 1).decoded = E!Eat(Raw(t, start), c)
  BY <1>2 DEF E!Onward
<1> QED
  BY <1>1, <1>2, <1>3 DEF E!Eat

\* And for the decoder without dot stuffing.
LEMMA CleanByte ==
    ASSUME NEW t \in Seq(Char), NEW c \in Char, Clean(t).ended = "NONE"
    PROVE  Clean(t \o <<c>>)
             = [ctx   |-> UnstuffedGoto(Clean(t).ctx, c),
                out   |-> Clean(t).out \o UnstuffedEmit(Clean(t).ctx, c),
                ended |-> "NONE"]
<1>0. "NONE" \in State
  BY DEF State
<1>1. U!After(t \o <<c>>, "NONE") = U!Onward(U!After(t, "NONE"), c, Len(t) + 1)
  BY <1>0, Automata, U!AfterByte
<1>2. U!After(t, "NONE").decoded = Clean(t) /\ U!After(t \o <<c>>, "NONE").decoded = Clean(t \o <<c>>)
  BY SameClean DEF Clean
<1>3. U!Onward(U!After(t, "NONE"), c, Len(t) + 1).decoded = U!Eat(Clean(t), c)
  BY <1>2 DEF U!Onward
<1> QED
  BY <1>1, <1>2, <1>3 DEF U!Eat, NoEnd

\* What holds of an outcome, by its parts.
LEMMA HoldsIf ==
    ASSUME NEW ctx, NEW s, NEW out, out \in Seq(Byte), Len(out) = Len(s), Values(out) = s
    PROVE  Holds([ctx |-> ctx, out |-> out, ended |-> "NONE"], ctx, s)
  BY DEF Holds

\* Nothing decodes to nothing.
LEMMA Begun ==
    ASSUME NEW start \in State
    PROVE  DecodesTo(<<>>, start, start, <<>>)
<1>0. "NONE" \in State
  BY DEF State
<1>1. E!After(<<>>, start) = E!Beginning(start) /\ U!After(<<>>, "NONE") = U!Beginning("NONE")
  BY <1>0, Automata, E!AfterEmpty, U!AfterEmpty
<1>2. Raw(<<>>, start) = [ctx |-> start, out |-> <<>>, ended |-> "NONE"]
  BY <1>1, SameRaw DEF Raw, E!Beginning, E!Fresh
<1>3. Clean(<<>>) = [ctx |-> "NONE", out |-> <<>>, ended |-> "NONE"]
  BY <1>1, SameClean DEF Clean, U!Beginning, U!Fresh
<1>4. Values(<<>>) = <<>> /\ <<>> \in Seq(Byte)
  BY EmptySeq DEF Values
<1>5. PICK e : e = <<>>
  OBVIOUS
<1>6. Values(e) = e /\ e \in Seq(Byte)
  BY <1>4, <1>5
<1>7. \A ctx : Holds([ctx |-> ctx, out |-> e, ended |-> "NONE"], ctx, e)
  BY <1>6, HoldsIf
<1> QED
  BY <1>2, <1>3, <1>5, <1>7 DEF DecodesTo

\* A byte more is a value more.
LEMMA ValuesAppend ==
    ASSUME NEW out \in Seq(Byte), NEW b \in Byte, NEW s \in Seq(Char), NEW c \in Char,
           Len(out) = Len(s), Values(out) = s, Value(b) = c
    PROVE  out \o <<b>> \in Seq(Byte) /\ Len(out \o <<b>>) = Len(s \o <<c>>)
           /\ Values(out \o <<b>>) = s \o <<c>>
<1>1. /\ out \o <<b>> \in Seq(Byte) /\ Len(out \o <<b>>) = Len(out) + 1
      /\ s \o <<c>> \in Seq(Char) /\ Len(s \o <<c>>) = Len(s) + 1
  OBVIOUS
<1>2. ASSUME NEW k \in 1..(Len(s) + 1)
      PROVE  Value((out \o <<b>>)[k]) = (s \o <<c>>)[k]
  <2>1. CASE k <= Len(s)
    <3>1. (out \o <<b>>)[k] = out[k] /\ (s \o <<c>>)[k] = s[k] /\ k \in 1..Len(out)
      BY <2>1
    <3>2. Values(out)[k] = Value(out[k])
      BY <3>1 DEF Values
    <3> QED
      BY <3>1, <3>2
  <2>2. CASE k = Len(s) + 1
    <3>1. (out \o <<b>>)[k] = b /\ (s \o <<c>>)[k] = c
      BY <2>2
    <3> QED
      BY <3>1
  <2> QED
    BY <2>1, <2>2
<1>3. s \o <<c>> = [k \in 1..(Len(s) + 1) |-> (s \o <<c>>)[k]]
  BY <1>1
<1>4. Values(out \o <<b>>) = [k \in 1..(Len(s) + 1) |-> Value((out \o <<b>>)[k])]
  BY <1>1 DEF Values
<1> QED
  BY <1>1, <1>2, <1>3, <1>4

\* A byte written as it is has its value back,
LEMMA ValuePlain == ASSUME NEW c PROVE Value(Plain(c)) = c
  BY DEF Value, Plain

\* and so has one that was escaped.
LEMMA ValueEscaped == ASSUME NEW c \in Critical \union Edgy PROVE Value(Escaped(Shifted[c])) = c
<1>1. DOMAIN Shifted = Critical \union Edgy
  BY DEF Shifted
<1>2. \A x \in DOMAIN Shifted : Shifted[x] = Shifted[c] => x = c
  BY <1>1 DEF Shifted, Critical, Edgy, Blank, NUL, TAB, SP, CR, LF, EQ, DOT
<1>3. Value(Escaped(Shifted[c])) = CHOOSE x \in DOMAIN Shifted : Shifted[x] = Shifted[c]
  BY DEF Value, Escaped
<1> QED
  BY <1>1, <1>2, <1>3

\* A byte that yields nothing.
LEMMA Quiet ==
    ASSUME NEW t \in Seq(Char), NEW c \in Char, NEW start \in State, NEW ctx, NEW s
    PROVE  /\ Holds(Raw(t, start), ctx, s) /\ Emit(ctx, c) = <<>> /\ Verdict(ctx, c) = "NONE"
                => Holds(Raw(t \o <<c>>, start), Goto(ctx, c), s)
           /\ Holds(Clean(t), ctx, s) /\ UnstuffedEmit(ctx, c) = <<>>
                => Holds(Clean(t \o <<c>>), UnstuffedGoto(ctx, c), s)
<1>1. ASSUME Holds(Raw(t, start), ctx, s), Emit(ctx, c) = <<>>, Verdict(ctx, c) = "NONE"
      PROVE  Holds(Raw(t \o <<c>>, start), Goto(ctx, c), s)
  <2> DEFINE d == Raw(t, start)
  <2>1. d.ctx = ctx /\ d.ended = "NONE" /\ d.out \in Seq(Byte) /\ Len(d.out) = Len(s) /\ Values(d.out) = s
    BY <1>1 DEF Holds
  <2>2. Raw(t \o <<c>>, start) = [ctx |-> Goto(d.ctx, c), out |-> d.out \o Emit(d.ctx, c), ended |-> Verdict(d.ctx, c)]
    BY <2>1, RawByte
  <2> HIDE DEF d
  <2>3. d.out \o <<>> = d.out
    BY <2>1
  <2>4. Raw(t \o <<c>>, start) = [ctx |-> Goto(ctx, c), out |-> d.out, ended |-> "NONE"]
    BY <1>1, <2>1, <2>2, <2>3
  <2> QED
    BY <2>1, <2>4 DEF Holds
<1>2. ASSUME Holds(Clean(t), ctx, s), UnstuffedEmit(ctx, c) = <<>>
      PROVE  Holds(Clean(t \o <<c>>), UnstuffedGoto(ctx, c), s)
  <2> DEFINE d == Clean(t)
  <2>1. d.ctx = ctx /\ d.ended = "NONE" /\ d.out \in Seq(Byte) /\ Len(d.out) = Len(s) /\ Values(d.out) = s
    BY <1>2 DEF Holds
  <2>2. Clean(t \o <<c>>) = [ctx |-> UnstuffedGoto(d.ctx, c), out |-> d.out \o UnstuffedEmit(d.ctx, c), ended |-> "NONE"]
    BY <2>1, CleanByte
  <2> HIDE DEF d
  <2>3. d.out \o <<>> = d.out
    BY <2>1
  <2>4. Clean(t \o <<c>>) = [ctx |-> UnstuffedGoto(ctx, c), out |-> d.out, ended |-> "NONE"]
    BY <1>2, <2>1, <2>2, <2>3
  <2> QED
    BY <2>1, <2>4 DEF Holds
<1> QED
  BY <1>1, <1>2

\* A byte that yields one.
LEMMA Yields ==
    ASSUME NEW t \in Seq(Char), NEW c \in Char, NEW start \in State, NEW ctx,
           NEW s \in Seq(Char), NEW b \in Byte, NEW x \in Char, Value(b) = x
    PROVE  /\ Holds(Raw(t, start), ctx, s) /\ Emit(ctx, c) = <<b>> /\ Verdict(ctx, c) = "NONE"
                => Holds(Raw(t \o <<c>>, start), Goto(ctx, c), s \o <<x>>)
           /\ Holds(Clean(t), ctx, s) /\ UnstuffedEmit(ctx, c) = <<b>>
                => Holds(Clean(t \o <<c>>), UnstuffedGoto(ctx, c), s \o <<x>>)
<1>1. ASSUME Holds(Raw(t, start), ctx, s), Emit(ctx, c) = <<b>>, Verdict(ctx, c) = "NONE"
      PROVE  Holds(Raw(t \o <<c>>, start), Goto(ctx, c), s \o <<x>>)
  <2> DEFINE d == Raw(t, start)
  <2>1. d.ctx = ctx /\ d.ended = "NONE" /\ d.out \in Seq(Byte) /\ Len(d.out) = Len(s) /\ Values(d.out) = s
    BY <1>1 DEF Holds
  <2>2. Raw(t \o <<c>>, start) = [ctx |-> Goto(d.ctx, c), out |-> d.out \o Emit(d.ctx, c), ended |-> Verdict(d.ctx, c)]
    BY <2>1, RawByte
  <2> HIDE DEF d
  <2>3. Raw(t \o <<c>>, start) = [ctx |-> Goto(ctx, c), out |-> d.out \o <<b>>, ended |-> "NONE"]
    BY <1>1, <2>1, <2>2
  <2>4. d.out \o <<b>> \in Seq(Byte) /\ Len(d.out \o <<b>>) = Len(s \o <<x>>)
        /\ Values(d.out \o <<b>>) = s \o <<x>>
    BY <2>1, ValuesAppend
  <2>5. PICK o, w : o = d.out \o <<b>> /\ w = s \o <<x>>
    OBVIOUS
  <2>6. o \in Seq(Byte) /\ Len(o) = Len(w) /\ Values(o) = w
    BY <2>4, <2>5
  <2>7. Holds([ctx |-> Goto(ctx, c), out |-> o, ended |-> "NONE"], Goto(ctx, c), w)
    BY <2>6, HoldsIf
  <2> QED
    BY <2>3, <2>5, <2>7
<1>2. ASSUME Holds(Clean(t), ctx, s), UnstuffedEmit(ctx, c) = <<b>>
      PROVE  Holds(Clean(t \o <<c>>), UnstuffedGoto(ctx, c), s \o <<x>>)
  <2> DEFINE d == Clean(t)
  <2>1. d.ctx = ctx /\ d.ended = "NONE" /\ d.out \in Seq(Byte) /\ Len(d.out) = Len(s) /\ Values(d.out) = s
    BY <1>2 DEF Holds
  <2>2. Clean(t \o <<c>>) = [ctx |-> UnstuffedGoto(d.ctx, c), out |-> d.out \o UnstuffedEmit(d.ctx, c), ended |-> "NONE"]
    BY <2>1, CleanByte
  <2> HIDE DEF d
  <2>3. Clean(t \o <<c>>) = [ctx |-> UnstuffedGoto(ctx, c), out |-> d.out \o <<b>>, ended |-> "NONE"]
    BY <1>2, <2>1, <2>2
  <2>4. d.out \o <<b>> \in Seq(Byte) /\ Len(d.out \o <<b>>) = Len(s \o <<x>>)
        /\ Values(d.out \o <<b>>) = s \o <<x>>
    BY <2>1, ValuesAppend
  <2>5. PICK o, w : o = d.out \o <<b>> /\ w = s \o <<x>>
    OBVIOUS
  <2>6. o \in Seq(Byte) /\ Len(o) = Len(w) /\ Values(o) = w
    BY <2>4, <2>5
  <2>7. Holds([ctx |-> UnstuffedGoto(ctx, c), out |-> o, ended |-> "NONE"], UnstuffedGoto(ctx, c), w)
    BY <2>6, HoldsIf
  <2> QED
    BY <2>3, <2>5, <2>7
<1> QED
  BY <1>1, <1>2

\* The line goes on with a byte as it is.
LEMMA PlainGoesOn ==
    ASSUME NEW t \in Seq(Char), NEW start \in State, NEW ctx \in {"CRLF", "NONE"},
           NEW s \in Seq(Char), DecodesTo(t, start, ctx, s),
           NEW c \in Char, c \notin Critical, c = DOT => ctx = "NONE"
    PROVE  DecodesTo(t \o <<c>>, start, "NONE", s \o <<c>>)
<1>1. c # CR /\ c # LF /\ c # EQ
  BY DEF Critical
<1>2. Plain(c) \in Byte /\ Value(Plain(c)) = c
  BY ValuePlain DEF Plain, Byte
<1>3. Goto(ctx, c) = "NONE" /\ Emit(ctx, c) = <<Plain(c)>> /\ Verdict(ctx, c) = "NONE"
  BY <1>1 DEF Goto, Emit, Verdict, EndsData, IsEscaped, IsStuffing, AfterPlain
<1>4. UnstuffedGoto("NONE", c) = "NONE" /\ UnstuffedEmit("NONE", c) = <<Plain(c)>>
  BY <1>1 DEF UnstuffedGoto, UnstuffedEmit
<1>5. Holds(Raw(t \o <<c>>, start), "NONE", s \o <<c>>)
  BY <1>2, <1>3, Yields DEF DecodesTo
<1>6. Holds(Clean(t \o <<c>>), "NONE", s \o <<c>>)
  BY <1>2, <1>4, Yields DEF DecodesTo
<1> QED
  BY <1>5, <1>6 DEF DecodesTo

\* The line goes on with an escape.
LEMMA EscapeGoesOn ==
    ASSUME NEW t \in Seq(Char), NEW start \in State, NEW ctx \in {"CRLF", "NONE"},
           NEW s \in Seq(Char), DecodesTo(t, start, ctx, s), NEW c \in Critical \union Edgy, c \in Char
    PROVE  DecodesTo(t \o Escape(c), start, "NONE", s \o <<c>>)
<1> DEFINE x == Shifted[c]
           u == t \o <<EQ>>
<1>1. x \in Char /\ EQ \in Char /\ x # Y /\ x # CR
  <2>1. c \in DOMAIN Shifted
    BY DEF Shifted
  <2>2. x \in OtherChar
    BY <2>1, WireAssumption
  <2> QED
    BY <2>2, OtherCharAssumption DEF Char, Special
<1>2. Escaped(x) \in Byte /\ Value(Escaped(x)) = c
  BY <1>1, ValueEscaped DEF Escaped, Byte
<1>3. /\ Goto(ctx, EQ) \in {"EQ", "CRLFEQ"} /\ Emit(ctx, EQ) = <<>> /\ Verdict(ctx, EQ) = "NONE"
      /\ \A e \in {"EQ", "CRLFEQ"} :
            Goto(e, x) = "NONE" /\ Emit(e, x) = <<Escaped(x)>> /\ Verdict(e, x) = "NONE"
  <2>1. EQ # Y /\ EQ # LF /\ EQ # CR /\ EQ # DOT
    BY DEF EQ, Y, LF, CR, DOT
  <2> HIDE DEF x
  <2> QED
    BY <1>1, <2>1 DEF Goto, Emit, Verdict, EndsData, IsEscaped, IsStuffing, AfterPlain
<1>4. /\ UnstuffedGoto("NONE", EQ) = "EQ" /\ UnstuffedEmit("NONE", EQ) = <<>>
      /\ UnstuffedGoto("EQ", x) = "NONE" /\ UnstuffedEmit("EQ", x) = <<Escaped(x)>>
  BY DEF UnstuffedGoto, UnstuffedEmit
<1>5. t \o Escape(c) = u \o <<x>> /\ u \in Seq(Char)
  <2>1. Escape(c) = <<EQ>> \o <<x>> /\ <<EQ>> \in Seq(Char) /\ <<x>> \in Seq(Char)
    BY <1>1, CodeTail DEF Escape
  <2> QED
    BY <2>1, ConcatAssociative
<1> HIDE DEF x
<1>6. Holds(Raw(u \o <<x>>, start), "NONE", s \o <<c>>)
  <2>1. Holds(Raw(u, start), Goto(ctx, EQ), s)
    BY <1>1, <1>3, Quiet DEF DecodesTo
  <2> HIDE DEF u
  <2>2. Holds(Raw(u \o <<x>>, start), Goto(Goto(ctx, EQ), x), s \o <<c>>)
    BY <1>1, <1>2, <1>3, <1>5, <2>1, Yields
  <2> QED
    BY <1>3, <2>2
<1>7. Holds(Clean(u \o <<x>>), "NONE", s \o <<c>>)
  <2>1. Holds(Clean(u), "EQ", s)
    BY <1>1, <1>4, Quiet DEF DecodesTo
  <2> HIDE DEF u
  <2> QED
    BY <1>1, <1>2, <1>4, <1>5, <2>1, Yields
<1> QED
  BY <1>5, <1>6, <1>7 DEF DecodesTo

\* The end of a line.
LEMMA NewLineEnds ==
    ASSUME NEW t \in Seq(Char), NEW start \in State, NEW s \in Seq(Char),
           DecodesTo(t, start, "NONE", s)
    PROVE  DecodesTo(t \o NewLine, start, "CRLF", s)
<1> DEFINE u == t \o <<CR>>
<1>1. CR \in Char /\ LF \in Char /\ CR # LF /\ CR # Y /\ CR # EQ /\ LF # Y /\ LF # EQ /\ CR # DOT
  BY DEF Char, Special, CR, LF, Y, EQ, DOT
<1>2. t \o NewLine = u \o <<LF>> /\ u \in Seq(Char)
  <2>1. NewLine = <<CR>> \o <<LF>> /\ <<CR>> \in Seq(Char) /\ <<LF>> \in Seq(Char)
    <3>1. NewLine = Append(<<CR>>, LF)
      BY DEF NewLine
    <3> QED
      BY <1>1, <3>1, AppendIsConcat, <<CR>> \in Seq(Char)
  <2> QED
    BY <2>1, ConcatAssociative
<1>3. /\ Goto("NONE", CR) = "CR" /\ Emit("NONE", CR) = <<>> /\ Verdict("NONE", CR) = "NONE"
      /\ Goto("CR", LF) = "CRLF" /\ Emit("CR", LF) = <<>> /\ Verdict("CR", LF) = "NONE"
  BY <1>1 DEF Goto, Emit, Verdict, EndsData, IsEscaped, IsStuffing, AfterPlain
<1>4. \A c \in {CR, LF} : UnstuffedGoto("NONE", c) = "NONE" /\ UnstuffedEmit("NONE", c) = <<>>
  BY <1>1 DEF UnstuffedGoto, UnstuffedEmit
<1>5. Holds(Raw(u \o <<LF>>, start), "CRLF", s)
  <2>1. Holds(Raw(u, start), "CR", s)
    BY <1>1, <1>3, Quiet DEF DecodesTo
  <2> HIDE DEF u
  <2> QED
    BY <1>1, <1>2, <1>3, <2>1, Quiet
<1>6. Holds(Clean(u \o <<LF>>), "NONE", s)
  <2>1. Holds(Clean(u), "NONE", s)
    BY <1>1, <1>4, Quiet DEF DecodesTo
  <2> HIDE DEF u
  <2> QED
    BY <1>1, <1>2, <1>4, <2>1, Quiet
<1> QED
  BY <1>2, <1>5, <1>6 DEF DecodesTo

\* A turn of the reference encoder, without the newline it may add.
LEMMA TurnDecodes ==
    ASSUME NEW t \in Seq(Char), NEW start \in State, NEW s \in Seq(Char), NEW c \in Char,
           NEW column \in Nat, NEW size \in Nat,
           DecodesTo(t, start, IF column = 0 THEN "CRLF" ELSE "NONE", s)
    PROVE  DecodesTo(t \o Chars(c, column, size), start, "NONE", s \o <<c>>)
<1> DEFINE ctx == IF column = 0 THEN "CRLF" ELSE "NONE"
<1>1. ctx \in {"CRLF", "NONE"}
  OBVIOUS
<1>2. CASE MustEscape(c, column, size)
  <2>1. c \in Critical \union Edgy
    BY <1>2 DEF MustEscape, Edgy
  <2>2. Chars(c, column, size) = Escape(c)
    BY <1>2 DEF Chars
  <2> HIDE DEF ctx
  <2>3. DecodesTo(t, start, ctx, s)
    BY DEF ctx
  <2> QED
    BY <1>1, <2>1, <2>2, <2>3, EscapeGoesOn
<1>3. CASE ~MustEscape(c, column, size)
  <2>1. c \notin Critical /\ (c = DOT => ctx = "NONE")
    BY <1>3 DEF MustEscape
  <2>2. Chars(c, column, size) = <<c>>
    BY <1>3 DEF Chars
  <2> HIDE DEF ctx
  <2>3. DecodesTo(t, start, ctx, s)
    BY DEF ctx
  <2> QED
    BY <1>1, <2>1, <2>2, <2>3, PlainGoesOn
<1> QED
  BY <1>2, <1>3

\* The context a column stands for.
At(column) == IF column = 0 THEN "CRLF" ELSE "NONE"

\* A beginning that is a byte longer.
LEMMA AppendedSubSeq ==
    ASSUME NEW s \in Seq(Char), NEW m \in Nat, m < Len(s)
    PROVE  SubSeq(s, 1, m + 1) = SubSeq(s, 1, m) \o <<s[m + 1]>>
<1>1. s[m + 1] \in Char /\ SubSeq(s, 1, m) \in Seq(Char) /\ Len(SubSeq(s, 1, m)) = m
  OBVIOUS
<1>2. SubSeq(s, 1, m + 1) \in Seq(Char) /\ Len(SubSeq(s, 1, m + 1)) = m + 1
  OBVIOUS
<1> QED
  BY <1>1, <1>2

\* The turns of the reference encoder decode to the data they are of.
LEMMA TurnsDecode ==
    ASSUME NEW s \in Seq(Char), NEW size \in Nat, NEW offset \in Nat, NEW k \in 0..Len(s)
    PROVE  DecodesTo(Turns(s, size, offset)[k].ret, At(offset),
                     At(Turns(s, size, offset)[k].col), SubSeq(s, 1, k))
<1> DEFINE T    == Turns(s, size, offset)
           Q(m) == DecodesTo(T[m].ret, At(offset), At(T[m].col), SubSeq(s, 1, m))
           S    == {m \in Nat : m <= Len(s) => Q(m)}
<1>1. /\ T[0] = [col |-> offset, ret |-> <<>>]
      /\ \A m \in Nat : m < Len(s) => T[m + 1] = Put(T[m], s[m + 1], size)
  BY TurnsOneByOne
<1>2. \A m \in 0..Len(s) : T[m] \in Shape
  BY TurnsType
<1>3. \A column : At(column) \in State
  BY DEF At, State
<1> HIDE DEF T
<1>4. 0 \in S
  <2>1. SubSeq(s, 1, 0) = <<>>
    OBVIOUS
  <2>2. DecodesTo(<<>>, At(offset), At(offset), <<>>)
    BY <1>3, Begun
  <2>3. T[0].ret = <<>> /\ T[0].col = offset
    BY <1>1
  <2> QED
    BY <2>1, <2>2, <2>3
<1>5. ASSUME NEW m \in Nat, m \in S PROVE m + 1 \in S
  <2> SUFFICES ASSUME m < Len(s) PROVE Q(m + 1)
    OBVIOUS
  <2> DEFINE t     == T[m].ret
             chars == Chars(s[m + 1], T[m].col, size)
             p     == SubSeq(s, 1, m)
             next  == T[m].col + Len(chars)
  <2>1. t \in Seq(Char) /\ T[m].col \in Nat /\ s[m + 1] \in Char /\ p \in Seq(Char)
    BY <1>2 DEF Shape
  <2>2. chars \in Seq(Char) /\ Len(chars) \in {1, 2}
    BY <2>1, CharsFacts
  <2>3. T[m + 1] = IF next >= size THEN [col |-> 0, ret |-> t \o chars \o NewLine]
                   ELSE [col |-> next, ret |-> t \o chars]
    BY <1>1, PutIs
  <2>4. SubSeq(s, 1, m + 1) = p \o <<s[m + 1]>>
    BY AppendedSubSeq
  <2>5. DecodesTo(t, At(offset), At(T[m].col), p)
    BY <1>5
  <2> HIDE DEF p, t
  <2>6. DecodesTo(t \o chars, At(offset), "NONE", p \o <<s[m + 1]>>)
    BY <1>3, <2>1, <2>5, TurnDecodes DEF At
  <2>7. DecodesTo(t \o chars \o NewLine, At(offset), "CRLF", p \o <<s[m + 1]>>)
    <3>1. PICK u, w : u = t \o chars /\ w = p \o <<s[m + 1]>>
      OBVIOUS
    <3>2. u \in Seq(Char) /\ w \in Seq(Char)
      BY <2>1, <2>2, <3>1
    <3>3. DecodesTo(u \o NewLine, At(offset), "CRLF", w)
      BY <1>3, <2>6, <3>1, <3>2, NewLineEnds
    <3> QED
      BY <3>1, <3>3
  <2> HIDE DEF chars
  <2>8. next # 0 /\ At(0) = "CRLF" /\ At(next) = "NONE"
    <3>1. PICK a, b : a = T[m].col /\ b = Len(chars)
      OBVIOUS
    <3>2. a \in Nat /\ b \in {1, 2} /\ next = a + b
      BY <2>1, <2>2, <3>1
    <3>3. next # 0
      BY <3>2
    <3> QED
      BY <3>3 DEF At
  <2> HIDE DEF next
  <2>9. CASE next >= size
    <3>1. T[m + 1].ret = t \o chars \o NewLine /\ T[m + 1].col = 0
      BY <2>3, <2>9
    <3> QED
      BY <2>4, <2>7, <2>8, <3>1
  <2>10. CASE ~(next >= size)
    <3>1. T[m + 1].ret = t \o chars /\ T[m + 1].col = next
      BY <2>3, <2>10
    <3> QED
      BY <2>4, <2>6, <2>8, <3>1
  <2> QED
    BY <2>9, <2>10
<1>6. Nat \subseteq S
  <2> HIDE DEF S
  <2> QED
    BY <1>4, <1>5, Induction
<1> QED
  BY <1>6 DEF T

\* What the encoder has at the end: the turns but for a newline at the end,
\* and a blank there as an escape if this is the last call.
LEMMA TextDecodes ==
    ASSUME NEW s \in Seq(Char), s # <<>>, NEW size \in Nat, NEW offset \in Nat
    PROVE  LET text == Trimmed(Lines(s, size, offset))
           IN  /\ DecodesTo(text, At(offset), "NONE", s)
               /\ DecodesTo(Ended(text), At(offset), "NONE", s)
<1> DEFINE T     == Turns(s, size, offset)
           N     == Len(s)
           m     == N - 1
           t     == T[m].ret
           c     == s[N]
           chars == Chars(c, T[m].col, size)
           p     == SubSeq(s, 1, m)
<1>1. N \in Nat /\ m \in Nat /\ m < N /\ m + 1 = N /\ m \in 0..N /\ N \in 1..N
  BY EmptySeq
<1>2. c \in Char /\ p \in Seq(Char) /\ s = p \o <<c>>
  <2>1. SubSeq(s, 1, m + 1) = p \o <<s[m + 1]>>
    BY <1>1, AppendedSubSeq
  <2>2. SubSeq(s, 1, N) = s
    BY SubSeqFull
  <2>3. c \in Char /\ p \in Seq(Char)
    BY <1>1
  <2>4. s[m + 1] = c
    BY <1>1
  <2> HIDE DEF m, N, p, c
  <2>5. SubSeq(s, 1, m + 1) = s
    BY <1>1, <2>2
  <2> QED
    BY <2>1, <2>3, <2>4, <2>5
<1>3. T[N] = Put(T[m], c, size) /\ T[m] \in Shape /\ Lines(s, size, offset) = T[N].ret
  <2>1. T[m + 1] = Put(T[m], s[m + 1], size)
    BY <1>1, TurnsOneByOne
  <2>2. T[m] \in Shape
    BY <1>1, TurnsType
  <2> QED
    BY <1>1, <2>1, <2>2 DEF Lines
<1>4. DecodesTo(t, At(offset), At(T[m].col), p)
  BY <1>1, TurnsDecode
<1> HIDE DEF T, N, m, p, c
<1>5. t \in Seq(Char) /\ T[m].col \in Nat
  BY <1>3 DEF Shape
<1>6. chars \in Seq(Char) /\ Len(chars) \in {1, 2} /\ chars[Len(chars)] # LF
  BY <1>2, <1>5, CharsFacts
<1>7. At(offset) \in State
  BY DEF At, State
<1>8. Trimmed(Lines(s, size, offset)) = t \o chars
  <2>1. T[N].ret \in {t \o chars, t \o chars \o NewLine}
    <3>1. T[N] = IF T[m].col + Len(chars) >= size
                 THEN [col |-> 0, ret |-> t \o chars \o NewLine]
                 ELSE [col |-> T[m].col + Len(chars), ret |-> t \o chars]
      BY <1>3, PutIs
    <3> QED
      BY <3>1
  <2> HIDE DEF t, chars
  <2>2. t \o chars \in Seq(Char) /\ Last(t \o chars) # LF
    BY <1>5, <1>6, EndOfText
  <2>3. PICK u : u = t \o chars
    OBVIOUS
  <2>4. Trimmed(u) = u /\ Trimmed(u \o NewLine) = u
    BY <2>2, <2>3, TrimmedText
  <2> QED
    BY <1>3, <2>1, <2>3, <2>4
<1>9. DecodesTo(t \o chars, At(offset), "NONE", p \o <<c>>)
  <2> HIDE DEF t
  <2> QED
    BY <1>2, <1>4, <1>5, <1>7, TurnDecodes DEF At
<1>10. DecodesTo(Ended(t \o chars), At(offset), "NONE", p \o <<c>>)
  <2>1. CASE Last(t \o chars) \in Blank
    <3>1. chars = <<c>> /\ c \in Blank
      <4>1. CASE MustEscape(c, T[m].col, size)
        <5>1. chars = Escape(c) /\ c \in Critical \union Edgy
          BY <4>1 DEF MustEscape, Chars, Edgy
        <5>2. Last(t \o chars) = Shifted[c]
          <6>1. Escape(c) \in Seq(Char) /\ Len(Escape(c)) = 2 /\ Escape(c)[2] = Shifted[c]
            BY <1>6, <5>1 DEF Escape
          <6> HIDE DEF t, chars
          <6> QED
            BY <1>5, <5>1, <6>1, EndOfText
        <5>3. Shifted[c] \notin Blank
          BY <5>1 DEF Shifted, Critical, Edgy, Blank, NUL, TAB, SP, CR, LF, EQ, DOT
        <5> QED
          BY <2>1, <5>2, <5>3
      <4>2. CASE ~MustEscape(c, T[m].col, size)
        <5>1. chars = <<c>>
          BY <4>2 DEF Chars
        <5>2. Last(t \o <<c>>) = c
          <6> HIDE DEF t
          <6> QED
            BY <1>2, <1>5 DEF Last
        <5> QED
          BY <2>1, <5>1, <5>2
      <4> QED
        BY <4>1, <4>2
    <3> HIDE DEF t, chars
    <3>2. Front(t \o <<c>>) = t /\ Last(t \o <<c>>) = c /\ t \o <<c>> # <<>>
      BY <1>2, <1>5, FrontOfAppend DEF Last
    <3>3. Ended(t \o chars) = t \o Escape(c)
      BY <2>1, <3>1, <3>2 DEF Ended
    <3>4. At(T[m].col) \in {"CRLF", "NONE"}
      BY DEF At
    <3>5. DecodesTo(t \o Escape(c), At(offset), "NONE", p \o <<c>>)
      BY <1>2, <1>4, <1>5, <1>7, <3>1, <3>4, EscapeGoesOn DEF Edgy
    <3> QED
      BY <3>3, <3>5
  <2>2. CASE Last(t \o chars) \notin Blank
    BY <1>9, <2>2 DEF Ended
  <2> QED
    BY <2>1, <2>2
<1> QED
  BY <1>2, <1>8, <1>9, <1>10

(* Whatever the portable encoder has written when it is done, with or      *)
(* without the end of the last line, decodes to the data it was given: by  *)
(* the incremental decoder, started where the line was, which finds no end *)
(* of the data in it, and by the decoder that leaves the dots alone.       *)
THEOREM DecodesToTheData == Spec => []DecodesBack
<1>1. Inv /\ TextInv => DecodesBack
  <2> SUFFICES ASSUME Inv, TextInv, pc = "done" PROVE DecodesBack
    BY DEF DecodesBack
  <2>1. src \in Seq(Char) /\ src # <<>> /\ line_size \in Nat /\ colOffset \in Nat
    <3>1. src \in Data
      BY DEF Inv, ReadInv
    <3> QED
      BY <3>1, Facts, DataAssumption
  <2>2. DecodesTo(dest, At(colOffset), "NONE", src)
    <3> DEFINE text == Trimmed(Lines(src, line_size, colOffset))
    <3>1. dest = IF doEnd THEN Ended(text) ELSE text
      BY DEF TextInv
    <3>2. /\ DecodesTo(text, At(colOffset), "NONE", src)
          /\ DecodesTo(Ended(text), At(colOffset), "NONE", src)
      BY <2>1, TextDecodes
    <3> QED
      BY <3>1, <3>2
  <2> QED
    BY <2>2 DEF DecodesTo, Holds, Raw, Clean, At, DecodesBack
<1> QED
  BY TextInvariance, <1>1, PTL

-----------------------------------------------------------------------------
(* That the text is laid out in lines.                                     *)

\* The line of t after k and up to e: from the beginning or from after a newline, and
\* to the next newline or to the end, where it is open.
IsLine(t, k, e) ==
    /\ k \in Nat /\ e \in Nat /\ k <= e /\ e <= Len(t)
    /\ k = 0 \/ (k >= 2 /\ t[k - 1] = CR /\ t[k] = LF)
    /\ \A m \in (k + 1)..e : t[m] # CR
    /\ e = Len(t) \/ t[e + 1] = CR

\* Its columns, if the text begins at a column of offset.
Spans(k, e, offset) == e - k + (IF k = 0 THEN offset ELSE 0)

GoodLine(t, k, e, offset, size) ==
    LET w == Spans(k, e, offset)
    IN  /\ w <= size + 1
        /\ w > size => e - 1 > k /\ t[e - 1] = EQ
        /\ e < Len(t) => w >= size /\ e > k /\ t[e] \notin Blank
        /\ (k > 0 \/ offset = 0) /\ e > k => t[k + 1] \notin Edgy

WholeNewLines(t) == \A m \in 1..Len(t) : t[m] = LF <=> (m > 1 /\ t[m - 1] = CR)

\* A text of such lines that stands in column c.
Laid(t, offset, size, c) ==
    /\ WholeNewLines(t)
    /\ t # <<>> => t[Len(t)] # CR
    /\ \A k, e \in Nat : IsLine(t, k, e) => /\ GoodLine(t, k, e, offset, size)
                                            /\ e = Len(t) => c = Spans(k, e, offset)

\* Characters that go on with a line.
GoesOn(chars, c) ==
    /\ chars \in Seq(Char) /\ Len(chars) \in {1, 2}
    /\ \A j \in 1..Len(chars) : chars[j] \notin {CR, LF}
    /\ Len(chars) = 2 => chars[1] = EQ
    /\ c = 0 => chars[1] \notin Edgy

\* A text of text, by its characters.
LEMMA Glued ==
    ASSUME NEW t \in Seq(Char), NEW u \in Seq(Char)
    PROVE  /\ t \o u \in Seq(Char) /\ Len(t \o u) = Len(t) + Len(u)
           /\ \A m \in 1..Len(t) : (t \o u)[m] = t[m]
           /\ \A j \in 1..Len(u) : (t \o u)[Len(t) + j] = u[j]
  BY ConcatProperties

\* An empty text.
LEMMA LaidEmpty ==
    ASSUME NEW offset \in Nat, NEW size \in Nat, offset < size
    PROVE  Laid(<<>>, offset, size, offset)
<1>1. Len(<<>>) = 0
  OBVIOUS
<1>2. WholeNewLines(<<>>)
  BY <1>1 DEF WholeNewLines
<1>3. ASSUME NEW k \in Nat, NEW e \in Nat, IsLine(<<>>, k, e)
      PROVE  GoodLine(<<>>, k, e, offset, size) /\ offset = Spans(k, e, offset)
  <2>1. k = 0 /\ e = 0
    BY <1>1, <1>3 DEF IsLine
  <2> QED
    BY <1>1, <2>1 DEF GoodLine, Spans
<1> QED
  BY <1>2, <1>3 DEF Laid

\* A line of a longer text, that is ended in the beginning of it, is a line of that.
LEMMA LineBefore ==
    ASSUME NEW t \in Seq(Char), NEW v \in Seq(Char), Len(t) <= Len(v),
           \A m \in 1..Len(t) : v[m] = t[m],
           NEW k \in Nat, NEW e \in Nat, IsLine(v, k, e), e < Len(t)
    PROVE  /\ IsLine(t, k, e)
           /\ \A offset, size \in Nat : 
                 GoodLine(t, k, e, offset, size) => GoodLine(v, k, e, offset, size)
<1>1. Len(t) \in Nat /\ Len(v) \in Nat
  OBVIOUS
<1>2. /\ k <= e /\ e < Len(v) /\ v[e + 1] = CR
      /\ k = 0 \/ (k >= 2 /\ v[k - 1] = CR /\ v[k] = LF)
      /\ \A m \in (k + 1)..e : v[m] # CR
  BY <1>1 DEF IsLine
<1>3. \A m \in (k + 1)..e : t[m] # CR
  <2> TAKE m \in (k + 1)..e
  <2>1. m \in 1..Len(t)
    BY <1>1
  <2> QED
    BY <1>2, <2>1
<1>4. t[e + 1] = CR
  <2>1. e + 1 \in 1..Len(t)
    BY <1>1
  <2> QED
    BY <1>2, <2>1
<1>5. k = 0 \/ (k >= 2 /\ t[k - 1] = CR /\ t[k] = LF)
  <2> SUFFICES ASSUME k >= 2 PROVE t[k - 1] = CR /\ t[k] = LF
    BY <1>2
  <2>1. k - 1 \in 1..Len(t) /\ k \in 1..Len(t) /\ k # 0
    BY <1>1, <1>2
  <2> QED
    BY <1>2, <2>1
<1>6. IsLine(t, k, e)
  BY <1>1, <1>2, <1>3, <1>4, <1>5 DEF IsLine
<1>7. ASSUME NEW offset \in Nat, NEW size \in Nat, GoodLine(t, k, e, offset, size)
      PROVE  GoodLine(v, k, e, offset, size)
  <2> DEFINE w == Spans(k, e, offset)
  <2>1. /\ w <= size + 1
        /\ w > size => e - 1 > k /\ t[e - 1] = EQ
        /\ w >= size /\ e > k /\ t[e] \notin Blank
        /\ (k > 0 \/ offset = 0) /\ e > k => t[k + 1] \notin Edgy
    BY <1>7 DEF GoodLine
  <2> HIDE DEF w
  <2>2. v[e] = t[e] /\ v[k + 1] = t[k + 1] /\ (e - 1 > k => v[e - 1] = t[e - 1])
    <3>1. e \in 1..Len(t) /\ k + 1 \in 1..Len(t) /\ (e - 1 > k => e - 1 \in 1..Len(t))
      BY <1>1, <2>1
    <3> QED
      BY <3>1
  <2> QED
    BY <2>1, <2>2 DEF GoodLine, w
<1> QED
  BY <1>6, <1>7

\* The open line of a text is that of the text it goes on with.
LEMMA LineOpen ==
    ASSUME NEW t \in Seq(Char), NEW v \in Seq(Char), Len(t) <= Len(v),
           \A m \in 1..Len(t) : v[m] = t[m],
           NEW k \in Nat, NEW e \in Nat, IsLine(v, k, e), k <= Len(t), Len(t) <= e
    PROVE  IsLine(t, k, Len(t))
<1>1. Len(t) \in Nat /\ Len(v) \in Nat
  OBVIOUS
<1>2. /\ k = 0 \/ (k >= 2 /\ v[k - 1] = CR /\ v[k] = LF)
      /\ \A m \in (k + 1)..e : v[m] # CR
  BY DEF IsLine
<1>3. \A m \in (k + 1)..Len(t) : t[m] # CR
  <2> TAKE m \in (k + 1)..Len(t)
  <2>1. m \in 1..Len(t) /\ m \in (k + 1)..e
    BY <1>1
  <2> QED
    BY <1>2, <2>1
<1>4. k = 0 \/ (k >= 2 /\ t[k - 1] = CR /\ t[k] = LF)
  <2> SUFFICES ASSUME k >= 2 PROVE t[k - 1] = CR /\ t[k] = LF
    BY <1>2
  <2>1. k - 1 \in 1..Len(t) /\ k \in 1..Len(t) /\ k # 0
    BY <1>1
  <2> QED
    BY <1>2, <2>1
<1> QED
  BY <1>1, <1>3, <1>4 DEF IsLine

\* Characters more in a line that is not full.
LEMMA LaidMore ==
    ASSUME NEW t \in Seq(Char), NEW offset \in Nat, NEW size \in Nat, NEW c \in Nat,
           Laid(t, offset, size, c), c < size, NEW chars, GoesOn(chars, c)
    PROVE  Laid(t \o chars, offset, size, c + Len(chars))
<1>1. PICK v, N, n1 : v = t \o chars /\ N = Len(t) /\ n1 = Len(chars)
  OBVIOUS
<1>2. /\ v \in Seq(Char) /\ Len(v) = N + n1 /\ N \in Nat /\ n1 \in {1, 2}
      /\ \A m \in 1..N : v[m] = t[m]
      /\ \A j \in 1..n1 : v[N + j] = chars[j]
      /\ \A j \in 1..n1 : chars[j] \notin {CR, LF}
      /\ n1 = 2 => chars[1] = EQ
      /\ c = 0 => chars[1] \notin Edgy
  BY <1>1, Glued DEF GoesOn
<1>3. \A j \in 1..n1 : v[N + j] \notin {CR, LF}
  BY <1>2
<1>4. /\ WholeNewLines(t) /\ (t # <<>> => t[N] # CR)
      /\ \A k, e \in Nat : IsLine(t, k, e) => /\ GoodLine(t, k, e, offset, size)
                                              /\ e = N => c = Spans(k, e, offset)
  BY <1>1 DEF Laid
<1>5. N > 0 => v[N] # CR
  <2> SUFFICES ASSUME N > 0 PROVE v[N] # CR
    OBVIOUS
  <2>1. t # <<>> /\ N \in 1..N
    BY <1>1, <1>2
  <2> QED
    BY <1>2, <1>4, <2>1
<1>6. \A m \in (N + 1)..(N + n1) : v[m] \notin {CR, LF}
  <2> TAKE m \in (N + 1)..(N + n1)
  <2>1. PICK j \in 1..n1 : m = N + j
    <3>1. m - N \in 1..n1 /\ m = N + (m - N)
      BY <1>2
    <3> QED
      BY <3>1
  <2> QED
    BY <1>3, <2>1
<1>7. WholeNewLines(v)
  <2> SUFFICES ASSUME NEW m \in 1..Len(v) PROVE v[m] = LF <=> (m > 1 /\ v[m - 1] = CR)
    BY DEF WholeNewLines
  <2>1. CASE m \in 1..N
    <3>1. t[m] = LF <=> (m > 1 /\ t[m - 1] = CR)
      BY <1>1, <1>4, <2>1 DEF WholeNewLines
    <3>2. m > 1 => m - 1 \in 1..N
      BY <1>2, <2>1
    <3> QED
      BY <1>2, <2>1, <3>1, <3>2
  <2>2. CASE m = N + 1
    <3>1. m \in (N + 1)..(N + n1)
      BY <1>2, <2>2
    <3>2. m > 1 => N > 0 /\ m - 1 = N
      BY <1>2, <2>2
    <3> QED
      BY <1>5, <1>6, <3>1, <3>2
  <2>3. CASE m = N + 2
    <3>1. m \in (N + 1)..(N + n1) /\ m - 1 \in (N + 1)..(N + n1)
      BY <1>2, <2>3
    <3> QED
      BY <1>6, <3>1
  <2> QED
    BY <1>2, <2>1, <2>2, <2>3
<1>8. v[Len(v)] # CR
  <2>1. N + n1 \in (N + 1)..(N + n1)
    BY <1>2
  <2> QED
    BY <1>2, <1>6, <2>1
<1>9. ASSUME NEW k \in Nat, NEW e \in Nat, IsLine(v, k, e)
      PROVE  /\ GoodLine(v, k, e, offset, size)
             /\ e = Len(v) => c + n1 = Spans(k, e, offset)
  <2>1. /\ k <= e /\ e <= N + n1
        /\ k = 0 \/ (k >= 2 /\ v[k] = LF)
        /\ e = N + n1 \/ v[e + 1] = CR
    BY <1>2, <1>9 DEF IsLine
  <2>2. k <= N
    <3>1. k \notin (N + 1)..(N + n1) \/ k = 0
      BY <1>6, <2>1
    <3> QED
      BY <1>2, <2>1, <3>1
  <2>3. e < N \/ e = N + n1
    <3>1. e + 1 \notin (N + 1)..(N + n1) \/ e = N + n1
      BY <1>6, <2>1
    <3> QED
      BY <1>2, <2>1, <3>1
  <2>4. CASE e < N
    <3>1. IsLine(t, k, e)
          /\ (GoodLine(t, k, e, offset, size) => GoodLine(v, k, e, offset, size))
      <4>1. Len(t) <= Len(v) /\ e < Len(t)
        BY <1>1, <1>2, <2>4
      <4> QED
        BY <1>1, <1>2, <1>9, <4>1, LineBefore
    <3>2. e # Len(v)
      BY <1>2, <2>4
    <3> QED
      BY <1>4, <3>1, <3>2
  <2>5. CASE e = N + n1
    <3>1. IsLine(t, k, N)
      <4>1. N <= e /\ Len(t) <= Len(v)
        BY <1>1, <1>2, <2>5
      <4> QED
        BY <1>1, <1>2, <1>9, <2>2, <4>1, LineOpen
    <3>2. c = Spans(k, N, offset) /\ GoodLine(t, k, N, offset, size)
      BY <1>2, <1>4, <3>1
    <3>3. Spans(k, e, offset) = c + n1
      <4>1. PICK o \in Nat : o = IF k = 0 THEN offset ELSE 0
        OBVIOUS
      <4>2. c = N - k + o /\ Spans(k, e, offset) = e - k + o
        BY <3>2, <4>1 DEF Spans
      <4>3. n1 \in Nat /\ (N + n1) - k + o = (N - k + o) + n1
        BY <1>2
      <4> QED
        BY <2>5, <4>2, <4>3
    <3>4. c + n1 <= size + 1 /\ (c + n1 > size => n1 = 2)
      BY <1>2
    <3>5. n1 = 2 => e - 1 > k \/ e - 1 = N
      BY <1>2, <2>2, <2>5
    <3>6. n1 = 2 => v[e - 1] = EQ /\ e - 1 > k
      <4> SUFFICES ASSUME n1 = 2 PROVE v[e - 1] = EQ /\ e - 1 > k
        OBVIOUS
      <4>1. e - 1 = N + 1 /\ 1 \in 1..n1 /\ e - 1 > k
        BY <1>2, <2>2, <2>5
      <4>2. v[N + 1] = chars[1]
        BY <1>2, <4>1
      <4> QED
        BY <1>2, <4>1, <4>2
    <3>7. (k > 0 \/ offset = 0) => v[k + 1] \notin Edgy
      <4> SUFFICES ASSUME k > 0 \/ offset = 0 PROVE v[k + 1] \notin Edgy
        OBVIOUS
      <4>1. CASE k < N
        <5>1. t[k + 1] \notin Edgy
          BY <1>2, <3>2, <4>1 DEF GoodLine
        <5>2. k + 1 \in 1..N
          BY <1>2, <4>1
        <5> QED
          BY <1>2, <5>1, <5>2
      <4>2. CASE k = N
        <5>1. c = 0
          BY <1>2, <3>2, <4>2 DEF Spans
        <5>2. v[N + 1] = chars[1]
          BY <1>2
        <5> QED
          BY <1>2, <4>2, <5>1, <5>2
      <4> QED
        BY <1>2, <2>2, <4>1, <4>2
    <3>8. ~(e < Len(v))
      BY <1>2, <2>5
    <3> QED
      BY <3>3, <3>4, <3>6, <3>7, <3>8 DEF GoodLine
  <2> QED
    BY <2>3, <2>4, <2>5
<1>10. Laid(v, offset, size, c + n1)
  BY <1>7, <1>8, <1>9 DEF Laid
<1> QED
  BY <1>1, <1>10

\* A newline after a full line.
LEMMA LaidNewLine ==
    ASSUME NEW t \in Seq(Char), NEW offset \in Nat, NEW size \in Nat, NEW c \in Nat,
           Laid(t, offset, size, c), c >= size, offset < size,
           t # <<>>, t[Len(t)] \notin Blank
    PROVE  t \o NewLine \in Seq(Char) /\ Laid(t \o NewLine, offset, size, 0)
<1>1. PICK v, N : v = t \o NewLine /\ N = Len(t)
  OBVIOUS
<1>2. /\ v \in Seq(Char) /\ Len(v) = N + 2 /\ N \in Nat /\ N > 0
      /\ \A m \in 1..N : v[m] = t[m]
      /\ v[N + 1] = CR /\ v[N + 2] = LF /\ CR # LF
  <2>1. /\ NewLine \in Seq(Char) /\ Len(NewLine) = 2 /\ NewLine[1] = CR /\ NewLine[2] = LF
        /\ 1 \in 1..2 /\ 2 \in 1..2 /\ CR # LF
    BY DEF NewLine, Char, Special, CR, LF
  <2>2. v \in Seq(Char) /\ Len(v) = N + 2 /\ (\A m \in 1..N : v[m] = t[m])
        /\ \A j \in 1..2 : v[N + j] = NewLine[j]
    <3>1. PICK u : u = NewLine
      OBVIOUS
    <3>2. /\ t \o u \in Seq(Char) /\ Len(t \o u) = Len(t) + Len(u)
          /\ \A m \in 1..Len(t) : (t \o u)[m] = t[m]
          /\ \A j \in 1..Len(u) : (t \o u)[Len(t) + j] = u[j]
      BY <2>1, <3>1, Glued
    <3> QED
      BY <1>1, <2>1, <3>1, <3>2
  <2>3. N \in Nat /\ N > 0
    BY <1>1
  <2> QED
    BY <2>1, <2>2, <2>3
<1>3. /\ WholeNewLines(t) /\ t[N] # CR
      /\ \A k, e \in Nat : IsLine(t, k, e) => /\ GoodLine(t, k, e, offset, size)
                                              /\ e = N => c = Spans(k, e, offset)
  BY <1>1 DEF Laid
<1>4. v[N] = t[N] /\ t[N] \notin Blank
  BY <1>1, <1>2
<1>5. WholeNewLines(v)
  <2> SUFFICES ASSUME NEW m \in 1..Len(v) PROVE v[m] = LF <=> (m > 1 /\ v[m - 1] = CR)
    BY DEF WholeNewLines
  <2>1. CASE m \in 1..N
    <3>1. t[m] = LF <=> (m > 1 /\ t[m - 1] = CR)
      BY <1>1, <1>3, <2>1 DEF WholeNewLines
    <3>2. m > 1 => m - 1 \in 1..N
      BY <1>2, <2>1
    <3> QED
      BY <1>2, <2>1, <3>1, <3>2
  <2>2. CASE m = N + 1
    <3>1. m - 1 = N
      BY <1>2, <2>2
    <3> QED
      BY <1>2, <1>3, <1>4, <2>2, <3>1
  <2>3. CASE m = N + 2
    <3>1. m - 1 = N + 1 /\ m > 1
      BY <1>2, <2>3
    <3> QED
      BY <1>2, <2>3, <3>1
  <2> QED
    BY <1>2, <2>1, <2>2, <2>3
<1>6. v[Len(v)] # CR
  BY <1>2
<1>7. ASSUME NEW k \in Nat, NEW e \in Nat, IsLine(v, k, e)
      PROVE  /\ GoodLine(v, k, e, offset, size)
             /\ e = Len(v) => 0 = Spans(k, e, offset)
  <2>1. /\ k <= e /\ e <= N + 2
        /\ k = 0 \/ (k >= 2 /\ v[k] = LF)
        /\ e = N + 2 \/ v[e + 1] = CR
        /\ \A m \in (k + 1)..e : v[m] # CR
    BY <1>2, <1>7 DEF IsLine
  <2>2. CASE e < N
    <3>1. IsLine(t, k, e)
          /\ (GoodLine(t, k, e, offset, size) => GoodLine(v, k, e, offset, size))
      <4>1. Len(t) <= Len(v) /\ e < Len(t)
        BY <1>1, <1>2, <2>2
      <4> QED
        BY <1>1, <1>2, <1>7, <4>1, LineBefore
    <3>2. e # Len(v)
      BY <1>2, <2>2
    <3> QED
      BY <1>3, <3>1, <3>2
  <2>3. CASE e = N
    <3>1. IsLine(t, k, N)
      <4>1. Len(t) <= Len(v) /\ k <= Len(t) /\ Len(t) <= e
        BY <1>1, <1>2, <2>1, <2>3
      <4> QED
        BY <1>1, <1>2, <1>7, <4>1, LineOpen
    <3>2. c = Spans(k, N, offset) /\ GoodLine(t, k, N, offset, size)
      BY <1>2, <1>3, <3>1
    <3>3. N > k
      BY <1>2, <2>1, <2>3, <3>2 DEF Spans
    <3>4. /\ v[k + 1] = t[k + 1] /\ (N - 1 > k => v[N - 1] = t[N - 1])
      <4>1. k + 1 \in 1..N /\ (N - 1 > k => N - 1 \in 1..N)
        BY <1>2, <3>3
      <4> QED
        BY <1>2, <4>1
    <3>5. e # Len(v)
      BY <1>2, <2>3
    <3>6. GoodLine(v, k, N, offset, size)
      BY <1>4, <3>2, <3>3, <3>4 DEF GoodLine
    <3> QED
      BY <2>3, <3>5, <3>6
  <2>4. CASE e = N + 1
    <3>1. e + 1 = N + 2 /\ e # N + 2
      BY <1>2, <2>4
    <3> QED
      BY <1>2, <2>1, <3>1
  <2>5. CASE e = N + 2
    <3>1. N + 1 \notin (k + 1)..e
      BY <1>2, <2>1
    <3>2. k = N + 2
      BY <1>2, <2>1, <2>5, <3>1
    <3>3. Spans(k, e, offset) = 0
      BY <1>2, <2>5, <3>2 DEF Spans
    <3>4. ~(e < Len(v)) /\ ~(e > k) /\ 0 <= size + 1 /\ ~(0 > size)
      BY <1>2, <2>5, <3>2
    <3> QED
      BY <3>3, <3>4 DEF GoodLine
  <2> QED
    BY <1>2, <2>1, <2>2, <2>3, <2>4, <2>5
<1>8. Laid(v, offset, size, 0)
  BY <1>5, <1>6, <1>7 DEF Laid
<1> QED
  BY <1>1, <1>2, <1>8

\* The last character taken back.
LEMMA LaidFront ==
    ASSUME NEW v \in Seq(Char), NEW offset \in Nat, NEW size \in Nat, NEW c \in Nat,
           Laid(v, offset, size, c), v # <<>>, v[Len(v)] # LF, c > 0
    PROVE  /\ Front(v) \in Seq(Char)
           /\ Laid(Front(v), offset, size, c - 1)
<1>1. PICK t, N : t = Front(v) /\ N = Len(v) - 1
  OBVIOUS
<1>2. /\ t \in Seq(Char) /\ Len(t) = N /\ N \in Nat /\ Len(v) = N + 1
      /\ \A m \in 1..N : v[m] = t[m]
      /\ v[N + 1] # CR /\ v[N + 1] # LF
  <2>1. N \in Nat /\ Len(v) = N + 1
    BY <1>1
  <2>2. t = SubSeq(v, 1, N)
    BY <1>1 DEF Front
  <2>3. t \in Seq(Char) /\ Len(t) = N /\ \A m \in 1..N : v[m] = t[m]
    BY <2>1, <2>2
  <2>4. v[N + 1] # CR /\ v[N + 1] # LF
    BY <2>1 DEF Laid
  <2> QED
    BY <2>1, <2>3, <2>4
<1>3. /\ WholeNewLines(v)
      /\ \A k, e \in Nat : IsLine(v, k, e) => /\ GoodLine(v, k, e, offset, size)
                                              /\ e = N + 1 => c = Spans(k, e, offset)
  BY <1>2 DEF Laid
<1>4. WholeNewLines(t)
  <2> SUFFICES ASSUME NEW m \in 1..N PROVE t[m] = LF <=> (m > 1 /\ t[m - 1] = CR)
    BY <1>2 DEF WholeNewLines
  <2>1. v[m] = LF <=> (m > 1 /\ v[m - 1] = CR)
    BY <1>2, <1>3 DEF WholeNewLines
  <2>2. m > 1 => m - 1 \in 1..N
    BY <1>2
  <2> QED
    BY <1>2, <2>1, <2>2
<1>5. t # <<>> => t[Len(t)] # CR
  <2> SUFFICES ASSUME t # <<>> PROVE t[N] # CR
    BY <1>2
  <2>1. N > 0 /\ N + 1 \in 1..Len(v) /\ N + 1 > 1 /\ (N + 1) - 1 = N /\ N \in 1..N
    BY <1>2
  <2>2. v[N + 1] = LF <=> (N + 1 > 1 /\ v[(N + 1) - 1] = CR)
    BY <1>3, <2>1 DEF WholeNewLines
  <2> QED
    BY <1>2, <2>1, <2>2
<1>6. ASSUME NEW k \in Nat, NEW e \in Nat, IsLine(t, k, e)
      PROVE  /\ GoodLine(t, k, e, offset, size)
             /\ e = Len(t) => c - 1 = Spans(k, e, offset)
  <2>1. /\ k <= e /\ e <= N
        /\ k = 0 \/ (k >= 2 /\ t[k - 1] = CR /\ t[k] = LF)
        /\ \A m \in (k + 1)..e : t[m] # CR
        /\ e = N \/ t[e + 1] = CR
    BY <1>2, <1>6 DEF IsLine
  <2>2. k = 0 \/ (k >= 2 /\ v[k - 1] = CR /\ v[k] = LF)
    <3>1. k >= 2 => k - 1 \in 1..N /\ k \in 1..N /\ k # 0
      BY <1>2, <2>1
    <3> QED
      BY <1>2, <2>1, <3>1
  <2>3. \A m \in (k + 1)..e : v[m] # CR
    <3> TAKE m \in (k + 1)..e
    <3>1. m \in 1..N
      BY <1>2, <2>1
    <3> QED
      BY <1>2, <2>1, <3>1
  <2>4. CASE e = N
    <3>1. IsLine(v, k, N + 1)
      <4>1. \A m \in (k + 1)..(N + 1) : v[m] # CR
        <5> TAKE m \in (k + 1)..(N + 1)
        <5>1. m = N + 1 \/ m \in (k + 1)..e
          BY <1>2, <2>4
        <5> QED
          BY <1>2, <2>3, <5>1
      <4> QED
        BY <1>2, <2>1, <2>2, <2>4, <4>1 DEF IsLine
    <3>2. c = Spans(k, N + 1, offset) /\ GoodLine(v, k, N + 1, offset, size)
      BY <1>2, <1>3, <3>1
    <3>3. Spans(k, N, offset) = c - 1
      BY <1>2, <3>2 DEF Spans
    <3>4. c <= size + 1 /\ ((k > 0 \/ offset = 0) => v[k + 1] \notin Edgy)
      BY <1>2, <2>1, <2>4, <3>2 DEF GoodLine
    <3>5. N > k => v[k + 1] = t[k + 1]
      <4>1. N > k => k + 1 \in 1..N
        BY <1>2
      <4> QED
        BY <1>2, <4>1
    <3>6. c - 1 <= size + 1 /\ ~(c - 1 > size) /\ ~(N < N)
      BY <1>2, <3>4
    <3>7. GoodLine(t, k, N, offset, size)
      BY <1>2, <3>3, <3>4, <3>5, <3>6 DEF GoodLine
    <3> QED
      BY <1>2, <2>4, <3>3, <3>7
  <2>5. CASE e < N
    <3>1. v[e + 1] = CR
      <4>1. e + 1 \in 1..N /\ e # N
        BY <1>2, <2>5
      <4> QED
        BY <1>2, <2>1, <4>1
    <3>2. IsLine(v, k, e)
      BY <1>2, <2>1, <2>2, <2>3, <3>1 DEF IsLine
    <3> DEFINE w == Spans(k, e, offset)
    <3>3. /\ w <= size + 1
          /\ w > size => e - 1 > k /\ v[e - 1] = EQ
          /\ w >= size /\ e > k /\ v[e] \notin Blank
          /\ (k > 0 \/ offset = 0) => v[k + 1] \notin Edgy
      <4>1. GoodLine(v, k, e, offset, size) /\ e < Len(v)
        BY <1>2, <1>3, <2>5, <3>2
      <4> QED
        BY <4>1 DEF GoodLine
    <3> HIDE DEF w
    <3>4. v[e] = t[e] /\ v[k + 1] = t[k + 1] /\ (e - 1 > k => v[e - 1] = t[e - 1])
      <4>1. e \in 1..N /\ k + 1 \in 1..N /\ (e - 1 > k => e - 1 \in 1..N)
        BY <1>2, <2>5, <3>3
      <4> QED
        BY <1>2, <4>1
    <3>5. e # Len(t)
      BY <1>2, <2>5
    <3> QED
      BY <3>3, <3>4, <3>5 DEF GoodLine, w
  <2> QED
    BY <1>2, <2>1, <2>4, <2>5
<1>7. Laid(t, offset, size, c - 1)
  BY <1>4, <1>5, <1>6 DEF Laid
<1> QED
  BY <1>1, <1>2, <1>7

\* What a turn adds goes on with its line, and what fills it ends in no blank.
LEMMA CharsGoOn ==
    ASSUME NEW b \in Char, NEW c \in Nat, NEW size \in Nat
    PROVE  LET chars == Chars(b, c, size)
           IN  /\ GoesOn(chars, c)
               /\ c + Len(chars) >= size => chars[Len(chars)] \notin Blank
<1>1. CASE MustEscape(b, c, size)
  <2>1. b \in Critical \union Edgy
    BY <1>1 DEF MustEscape, Edgy
  <2>2. PICK x : x = Shifted[b]
    OBVIOUS
  <2>3. x \in OtherChar /\ x \notin Blank
    <3>1. b \in DOMAIN Shifted
      BY <2>1 DEF Shifted
    <3> QED
      BY <2>1, <2>2, <3>1, WireAssumption, ShiftedNotBlank
  <2>4. x \notin {CR, LF} /\ EQ \notin {CR, LF} /\ EQ \notin Edgy /\ x \in Char /\ EQ \in Char
    BY <2>3, OtherCharAssumption
       DEF Special, Char, Edgy, Blank, EQ, CR, LF, DOT, TAB, SP
  <2>5. Chars(b, c, size) = <<EQ, x>>
    BY <1>1, <2>2 DEF Chars, Escape
  <2> QED
    BY <2>3, <2>4, <2>5 DEF GoesOn
<1>2. CASE ~MustEscape(b, c, size)
  <2>1. b \notin {CR, LF} /\ (c = 0 => b \notin Edgy) /\ (c + 1 >= size => b \notin Blank)
    BY <1>2 DEF MustEscape, Critical, Edgy
  <2>2. Chars(b, c, size) = <<b>>
    BY <1>2 DEF Chars
  <2> QED
    BY <2>1, <2>2 DEF GoesOn
<1> QED
  BY <1>1, <1>2

\* After k turns: the text is laid out in lines, but for a newline that is early.
InLines(s, size, offset, k) ==
    \E u \in Seq(Char), c \in Nat :
        /\ Stands(s, size, offset, k, c, u) /\ Laid(u, offset, size, c)
        /\ k > 0 => u # <<>> /\ u[Len(u)] # LF /\ c > 0
        /\ c >= size => u # <<>> /\ u[Len(u)] \notin Blank

\* A turn more.
LEMMA TurnLaid ==
    ASSUME NEW s \in Seq(Char), NEW size \in Nat, NEW offset \in Nat, offset < size,
           NEW k \in Nat, k < Len(s), InLines(s, size, offset, k)
    PROVE  InLines(s, size, offset, k + 1)
<1>1. PICK u \in Seq(Char), c \in Nat :
        /\ Stands(s, size, offset, k, c, u) /\ Laid(u, offset, size, c)
        /\ c >= size => u # <<>> /\ u[Len(u)] \notin Blank
  BY DEF InLines
<1>2. PICK b \in Char : b = s[k + 1]
  <2>1. k + 1 \in 1..Len(s)
    OBVIOUS
  <2> QED
    BY <2>1
<1>3. /\ c < size => Stands(s, size, offset, k + 1, c + Len(Chars(b, c, size)),
                            u \o Chars(b, c, size))
      /\ c >= size => Stands(s, size, offset, k + 1, Len(Chars(b, 0, size)),
                             u \o (NewLine \o Chars(b, 0, size)))
  <2>1. size \in Nat \ {0}
    OBVIOUS
  <2> QED
    BY <1>1, <1>2, <2>1, NextTurn
<1>4. ASSUME NEW t \in Seq(Char), NEW d \in Nat, d < size, Laid(t, offset, size, d), NEW chars,
             chars = Chars(b, d, size),
             Stands(s, size, offset, k + 1, d + Len(chars), t \o chars)
      PROVE  InLines(s, size, offset, k + 1)
  <2>1. GoesOn(chars, d) /\ (d + Len(chars) >= size => chars[Len(chars)] \notin Blank)
    BY <1>4, CharsGoOn
  <2>2. /\ chars \in Seq(Char) /\ Len(chars) \in {1, 2}
        /\ \A j \in 1..Len(chars) : chars[j] \notin {CR, LF}
    BY <2>1 DEF GoesOn
  <2>3. Laid(t \o chars, offset, size, d + Len(chars))
    BY <1>4, <2>1, LaidMore
  <2>4. PICK m, v : m = Len(chars) /\ v = t \o chars
    OBVIOUS
  <2>5. /\ v \in Seq(Char) /\ Len(v) = Len(t) + m /\ m \in {1, 2}
        /\ \A j \in 1..m : v[Len(t) + j] = chars[j]
    BY <2>2, <2>4, Glued
  <2>6. v # <<>> /\ v[Len(v)] = chars[m] /\ chars[m] # LF
    <3>1. m \in 1..m
      BY <2>5
    <3> QED
      BY <2>2, <2>4, <2>5, <3>1
  <2>7. d + m \in Nat /\ d + m > 0
    BY <2>5
  <2>8. /\ Stands(s, size, offset, k + 1, d + m, v) /\ Laid(v, offset, size, d + m)
        /\ d + m >= size => v[Len(v)] \notin Blank
    BY <1>4, <2>1, <2>3, <2>4, <2>6
  <2> QED
    BY <2>5, <2>6, <2>7, <2>8 DEF InLines
<1>5. CASE c < size
  BY <1>1, <1>3, <1>4, <1>5
<1>6. CASE c >= size
  <2>1. u \o NewLine \in Seq(Char) /\ Laid(u \o NewLine, offset, size, 0)
    BY <1>1, <1>6, LaidNewLine
  <2>2. PICK chars : chars = Chars(b, 0, size)
    OBVIOUS
  <2>3. chars \in Seq(Char) /\ Len(chars) \in Nat /\ 0 + Len(chars) = Len(chars)
    BY <2>2, CharsFacts
  <2>4. NewLine \in Seq(Char)
    BY DEF NewLine, Char, Special
  <2>5. (u \o NewLine) \o chars = u \o (NewLine \o chars)
    BY <2>3, <2>4, ConcatAssociative, SMTT(60)
  <2>6. Stands(s, size, offset, k + 1, 0 + Len(chars), (u \o NewLine) \o chars)
    BY <1>3, <1>6, <2>2, <2>3, <2>5
  <2>7. 0 \in Nat /\ 0 < size
    OBVIOUS
  <2> QED
    BY <1>4, <2>1, <2>2, <2>6, <2>7
<1> QED
  BY <1>5, <1>6

\* All turns.
LEMMA TurnsLaid ==
    ASSUME NEW s \in Seq(Char), NEW size \in Nat, NEW offset \in Nat, offset < size,
           NEW k \in 0..Len(s)
    PROVE  InLines(s, size, offset, k)
<1> DEFINE S == {m \in Nat : m <= Len(s) => InLines(s, size, offset, m)}
<1>1. 0 \in S
  <2>1. Turns(s, size, offset)[0] = [col |-> offset, ret |-> <<>>]
    BY TurnsOneByOne
  <2>2. Stands(s, size, offset, 0, offset, <<>>) /\ Laid(<<>>, offset, size, offset)
    BY <2>1, LaidEmpty DEF Stands
  <2>3. <<>> \in Seq(Char) /\ ~(offset >= size) /\ ~(0 > 0)
    OBVIOUS
  <2>4. InLines(s, size, offset, 0)
    BY <2>2, <2>3 DEF InLines
  <2> QED
    BY <2>4
<1>2. ASSUME NEW m \in Nat, m \in S PROVE m + 1 \in S
  <2>1. SUFFICES ASSUME m + 1 <= Len(s) PROVE InLines(s, size, offset, m + 1)
    OBVIOUS
  <2>2. m < Len(s)
    BY <2>1
  <2> QED
    BY <1>2, <2>2, TurnLaid
<1>3. Nat \subseteq S
  <2> HIDE DEF S
  <2> QED
    BY <1>1, <1>2, Induction
<1> QED
  BY <1>3

\* The text the reference encoder returns.
LEMMA EndLaid ==
    ASSUME NEW s \in Seq(Char), s # <<>>, NEW size \in Nat, NEW offset \in Nat, offset < size
    PROVE  \E t \in Seq(Char), c \in Nat :
              /\ t = Ended(Trimmed(Lines(s, size, offset)))
              /\ Laid(t, offset, size, c)
              /\ t # <<>> /\ t[Len(t)] # LF /\ t[Len(t)] \notin Blank
<1>1. PICK N : N = Len(s)
  OBVIOUS
<1>2. N \in Nat /\ N > 0 /\ N \in 0..Len(s)
  BY <1>1
<1>3. PICK u \in Seq(Char), c \in Nat :
        /\ Stands(s, size, offset, N, c, u) /\ Laid(u, offset, size, c)
        /\ u # <<>> /\ u[Len(u)] # LF /\ c > 0
        /\ c >= size => u[Len(u)] \notin Blank
  <2>1. InLines(s, size, offset, N)
    BY <1>2, TurnsLaid
  <2> QED
    BY <1>2, <2>1 DEF InLines
<1>4. Trimmed(Lines(s, size, offset)) = u
  <2>1. Lines(s, size, offset) \in {u, u \o NewLine}
    BY <1>1, <1>3 DEF Lines, Stands
  <2>2. Last(u) # LF
    BY <1>3 DEF Last
  <2> QED
    BY <2>1, <2>2, TrimmedText
<1>5. CASE u[Len(u)] \notin Blank
  <2>1. Ended(u) = u
    BY <1>5 DEF Ended, Last
  <2> QED
    BY <1>3, <1>4, <1>5, <2>1
<1>6. CASE u[Len(u)] \in Blank
  <2>1. PICK b, x : b = u[Len(u)] /\ x = Shifted[b]
    OBVIOUS
  <2>2. Ended(u) = Front(u) \o <<EQ, x>>
    BY <1>3, <1>6, <2>1 DEF Ended, Last, Escape
  <2>3. b \in Blank /\ b \in Critical \union Edgy /\ b \in DOMAIN Shifted
    BY <1>6, <2>1 DEF Edgy, Shifted
  <2>4. x \in OtherChar /\ x \notin Blank
    BY <2>1, <2>3, WireAssumption, ShiftedNotBlank
  <2>5. x \notin {CR, LF} /\ EQ \notin {CR, LF} /\ EQ \notin Edgy /\ x \in Char /\ EQ \in Char
    BY <2>4, OtherCharAssumption
       DEF Special, Char, Edgy, Blank, EQ, CR, LF, DOT, TAB, SP
  <2>6. c < size /\ c - 1 \in Nat /\ c - 1 < size
    BY <1>3, <1>6
  <2>7. Front(u) \in Seq(Char) /\ Laid(Front(u), offset, size, c - 1)
    BY <1>3, LaidFront
  <2>8. PICK e : e = <<EQ, x>>
    OBVIOUS
  <2>9. e \in Seq(Char) /\ Len(e) = 2 /\ e[2] = x /\ GoesOn(e, c - 1)
    BY <2>5, <2>8 DEF GoesOn
  <2>10. Laid(Front(u) \o e, offset, size, (c - 1) + 2)
    BY <2>6, <2>7, <2>9, LaidMore
  <2>11. PICK t, f : f = Front(u) /\ t = f \o e
    OBVIOUS
  <2>12. t \in Seq(Char) /\ Len(t) = Len(f) + 2 /\ t[Len(f) + 2] = x
    <3>1. f \in Seq(Char) /\ e \in Seq(Char)
      BY <2>7, <2>9, <2>11
    <3>2. /\ f \o e \in Seq(Char) /\ Len(f \o e) = Len(f) + Len(e)
          /\ \A j \in 1..Len(e) : (f \o e)[Len(f) + j] = e[j]
      BY <3>1, Glued
    <3>3. 2 \in 1..Len(e) /\ Len(e) = 2 /\ e[2] = x
      BY <2>9
    <3>4. (f \o e)[Len(f) + 2] = x
      BY <3>2, <3>3
    <3>5. t = f \o e
      BY <2>11
    <3> QED
      BY <3>2, <3>3, <3>4, <3>5
  <2>13. Len(f) \in Nat
    BY <2>7, <2>11
  <2>14. t # <<>> /\ t[Len(t)] = x /\ (c - 1) + 2 \in Nat
    BY <2>6, <2>12, <2>13
  <2>15. t = Ended(Trimmed(Lines(s, size, offset)))
    BY <1>4, <2>2, <2>8, <2>11
  <2> QED
    BY <2>4, <2>5, <2>10, <2>11, <2>12, <2>14, <2>15
<1> QED
  BY <1>5, <1>6

-----------------------------------------------------------------------------
(* The lines of the output, as the properties speak of them.               *)

\* The line after each start: up to its newline, if it has one.
LEMMA LineOfStart ==
    ASSUME dest \in Seq(Char), WholeNewLines(dest), dest # <<>> => dest[Len(dest)] # CR,
           NEW k \in LineStarts
    PROVE  \E e \in Nat :
              /\ IsLine(dest, k, e) /\ LineFrom(k) = SubSeq(dest, k + 1, e)
              /\ e < Len(dest) <=> \E l \in LineStarts : l > k
<1>1. PICK N : N = Len(dest) /\ N \in Nat /\ DOMAIN dest = 1..N
  OBVIOUS
<1> DEFINE After == {m \in 1..N : m > k /\ dest[m] = CR}
<1>2. \A m \in 1..N : dest[m] = CR => m + 1 \in 1..N /\ dest[m + 1] = LF
  <2> SUFFICES ASSUME NEW m \in 1..N, dest[m] = CR PROVE m + 1 \in 1..N /\ dest[m + 1] = LF
    OBVIOUS
  <2>1. m # N
    BY <1>1
  <2>2. m + 1 \in 1..N /\ m + 1 > 1 /\ (m + 1) - 1 = m
    BY <1>1, <2>1
  <2>3. dest[m + 1] = LF <=> (m + 1 > 1 /\ dest[(m + 1) - 1] = CR)
    BY <1>1, <2>2 DEF WholeNewLines
  <2> QED
    BY <2>2, <2>3
<1>3. k \in 0..N /\ (k = 0 \/ (k >= 2 /\ dest[k - 1] = CR /\ dest[k] = LF))
  <2>1. k = 0 \/ \E m \in 1..N : dest[m] = CR /\ k = m + 1
    BY <1>1 DEF LineStarts, NewLineAt
  <2>2. ASSUME NEW m \in 1..N, dest[m] = CR, k = m + 1
        PROVE  k \in 0..N /\ k >= 2 /\ dest[k - 1] = CR /\ dest[k] = LF
    <3>1. m + 1 \in 1..N /\ dest[m + 1] = LF /\ k - 1 = m
      BY <1>1, <1>2, <2>2
    <3> QED
      BY <1>1, <2>2, <3>1
  <2> QED
    BY <1>1, <2>1, <2>2
<1>4. After # {} <=> \E l \in LineStarts : l > k
  <2>1. ASSUME NEW m \in After PROVE \E l \in LineStarts : l > k
    <3>1. m + 1 \in LineStarts /\ m + 1 > k
      BY <1>1, <1>3, <2>1 DEF LineStarts, NewLineAt
    <3> QED
      BY <3>1
  <2>2. ASSUME NEW l \in LineStarts, l > k PROVE After # {}
    <3>1. l # 0
      BY <1>3, <2>2
    <3>2. PICK m \in 1..N : dest[m] = CR /\ l = m + 1
      BY <1>1, <3>1 DEF LineStarts, NewLineAt
    <3>3. m # k
      <4>1. CR # LF
        BY DEF CR, LF
      <4> QED
        BY <1>1, <1>3, <3>2, <4>1
    <3>4. m > k
      BY <1>1, <1>3, <2>2, <3>2, <3>3
    <3> QED
      BY <3>2, <3>4
  <2> QED
    BY <2>1, <2>2
<1>5. {m \in DOMAIN dest : m > k /\ NewLineAt(m)} = After
  BY <1>1 DEF NewLineAt
<1>6. CASE After = {}
  <2>1. LineFrom(k) = SubSeq(dest, k + 1, N)
    BY <1>1, <1>5, <1>6 DEF LineFrom
  <2>2. \A m \in (k + 1)..N : dest[m] # CR
    <3> TAKE m \in (k + 1)..N
    <3>1. m \in 1..N /\ m > k
      BY <1>1, <1>3
    <3> QED
      BY <1>6, <3>1
  <2>3. IsLine(dest, k, N)
    BY <1>1, <1>3, <2>2 DEF IsLine
  <2>4. ~ N < Len(dest)
    BY <1>1
  <2>5. ~ \E l \in LineStarts : l > k
    BY <1>4, <1>6
  <2>6. N \in Nat
    BY <1>1
  <2> HIDE DEF After
  <2> WITNESS N \in Nat
  <2> QED
    BY <2>1, <2>3, <2>4, <2>5
<1>7. CASE After # {}
  <2>1. PICK x \in After : \A y \in After : x <= y
    <3>1. After \subseteq Nat
      BY <1>1
    <3> HIDE DEF After
    <3> QED
      BY <1>7, <3>1, LeastNumber
  <2>2. PICK end : end = CHOOSE m \in After : \A l \in After : m <= l
    OBVIOUS
  <2>3. end \in After /\ \A l \in After : end <= l
    <3> HIDE DEF After
    <3> QED
      BY <2>1, <2>2
  <2>4. LineFrom(k) = SubSeq(dest, k + 1, end - 1)
    <3> HIDE DEF After
    <3> QED
      BY <1>5, <1>7, <2>2 DEF LineFrom
  <2>5. end \in 1..N /\ end > k /\ dest[end] = CR
    BY <2>3
  <2>6. PICK e \in Nat : e = end - 1 /\ k <= e /\ e < N /\ e + 1 = end
    BY <1>1, <1>3, <2>5
  <2>7. \A m \in (k + 1)..e : dest[m] # CR
    <3> SUFFICES ASSUME NEW m \in (k + 1)..e, dest[m] = CR PROVE FALSE
      OBVIOUS
    <3>1. m \in After
      BY <1>1, <1>3, <2>6
    <3>2. end <= m
      BY <2>3, <3>1
    <3> QED
      BY <1>1, <1>3, <2>6, <3>2
  <2>8. IsLine(dest, k, e)
    BY <1>1, <1>3, <2>5, <2>6, <2>7 DEF IsLine
  <2> QED
    BY <1>1, <1>4, <1>7, <2>4, <2>6, <2>8
<1> QED
  BY <1>6, <1>7

(* What the portable encoder returns at the end of the data is lines of    *)
(* line_size columns, with one more only if the last character is escaped, *)
(* and no line begins or ends with what must not stand there.              *)
THEOREM LinesAreFull == Spec => []LaidOutInLines
<1>1. Inv /\ TextInv => LaidOutInLines
  <2> SUFFICES ASSUME Inv, TextInv, pc = "done", doEnd PROVE LaidOutInLines
    BY DEF LaidOutInLines
  <2>1. /\ src \in Seq(Char) /\ src # <<>> /\ line_size \in Nat \ {0}
        /\ colOffset \in Nat /\ colOffset < line_size /\ dest \in Seq(Char)
    <3>1. src \in Data
      BY DEF Inv, ReadInv
    <3> QED
      BY <3>1, Facts, DataAssumption
  <2>2. dest = Ended(Trimmed(Lines(src, line_size, colOffset)))
    BY DEF TextInv
  <2>3. PICK c \in Nat :
          /\ Laid(dest, colOffset, line_size, c)
          /\ dest # <<>> /\ dest[Len(dest)] # LF /\ dest[Len(dest)] \notin Blank
    <3>1. PICK s, size, offset : s = src /\ size = line_size /\ offset = colOffset
      OBVIOUS
    <3>2. s \in Seq(Char) /\ s # <<>> /\ size \in Nat /\ offset \in Nat /\ offset < size
      BY <2>1, <3>1
    <3>3. PICK t \in Seq(Char), c \in Nat :
            /\ t = Ended(Trimmed(Lines(s, size, offset)))
            /\ Laid(t, offset, size, c)
            /\ t # <<>> /\ t[Len(t)] # LF /\ t[Len(t)] \notin Blank
      BY <3>2, EndLaid
    <3>4. t = dest
      BY <2>2, <3>1, <3>3
    <3> QED
      BY <3>1, <3>3, <3>4
  <2>4. /\ WholeNewLines(dest) /\ dest[Len(dest)] # CR
        /\ \A k, e \in Nat : IsLine(dest, k, e) => GoodLine(dest, k, e, colOffset, line_size)
    BY <2>3 DEF Laid
  <2>5. PICK N : N = Len(dest) /\ N \in Nat /\ N > 0 /\ DOMAIN dest = 1..N
    BY <2>1, <2>3
  <2>6. \A k \in DOMAIN dest : dest[k] = LF <=> k > 1 /\ NewLineAt(k - 1)
    BY <2>4, <2>5 DEF WholeNewLines, NewLineAt
  <2>7. ASSUME NEW k \in LineStarts
        PROVE  /\ Filled(k) <= line_size + 1
               /\ Filled(k) > line_size => LineFrom(k)[Len(LineFrom(k)) - 1] = EQ
               /\ (\E l \in LineStarts : l > k) => Filled(k) >= line_size
               /\ k > 0 \/ colOffset = 0 => Head(LineFrom(k)) \notin Edgy
               /\ LineFrom(k) # <<>> => Last(LineFrom(k)) \notin Blank
    <3>1. PICK e \in Nat : /\ IsLine(dest, k, e) /\ LineFrom(k) = SubSeq(dest, k + 1, e)
                           /\ e < N <=> \E l \in LineStarts : l > k
      BY <2>1, <2>4, <2>5, LineOfStart
    <3>2. k \in Nat /\ k <= e /\ e <= N /\ (k = 0 \/ dest[k] = LF)
      BY <2>5, <3>1 DEF IsLine
    <3>3. GoodLine(dest, k, e, colOffset, line_size)
      BY <2>4, <3>1, <3>2
    <3>4. PICK line : line = LineFrom(k)
      OBVIOUS
    <3>5. /\ line \in Seq(Char) /\ Len(line) = e - k
          /\ \A j \in 1..(e - k) : line[j] = dest[k + j]
      <4>1. line = SubSeq(dest, k + 1, e) /\ k + 1 \in 1..(N + 1) /\ e \in 0..N
        BY <3>1, <3>2, <3>4, <2>5
      <4>2. \A j \in (k + 1)..e : dest[j] \in Char
        BY <2>1, <2>5, <3>2
      <4>3. /\ line \in Seq(Char)
            /\ Len(line) = IF k + 1 <= e THEN e - (k + 1) + 1 ELSE 0
            /\ \A j \in 1..(e - (k + 1) + 1) : line[j] = dest[(k + 1) + j - 1]
        BY <3>2, <4>1, <4>2, SubSeqProperties
      <4> QED
        BY <3>2, <4>3
    <3>6. e > k
      <4>1. e < N => e > k
        BY <2>5, <3>3 DEF GoodLine
      <4>2. e = N => e > k
        BY <2>3, <2>5, <3>2
      <4> QED
        BY <2>5, <3>2, <4>1, <4>2
    <3>7. Filled(k) = Spans(k, e, colOffset)
      BY <3>4, <3>5 DEF Filled, Spans
    <3>8. PICK w : w = Filled(k) /\ w = Spans(k, e, colOffset)
      BY <3>7
    <3>9. /\ w <= line_size + 1
          /\ w > line_size => e - 1 > k /\ dest[e - 1] = EQ
          /\ e < N => w >= line_size /\ dest[e] \notin Blank
          /\ k > 0 \/ colOffset = 0 => dest[k + 1] \notin Edgy
      BY <2>5, <3>3, <3>6, <3>8 DEF GoodLine
    <3>10. w > line_size => line[Len(line) - 1] = EQ
      <4>1. e - 1 > k => (e - k) - 1 \in 1..(e - k) /\ k + ((e - k) - 1) = e - 1
        BY <3>2
      <4> QED
        BY <3>5, <3>9, <4>1
    <3>11. Head(line) = dest[k + 1]
      <4>1. 1 \in 1..(e - k) /\ line # <<>>
        BY <3>2, <3>5, <3>6
      <4> QED
        BY <3>5, <4>1
    <3>12. Last(line) \notin Blank
      <4>1. e - k \in 1..(e - k) /\ k + (e - k) = e
        BY <3>2, <3>6
      <4>2. Last(line) = dest[e]
        BY <3>5, <4>1 DEF Last
      <4>3. dest[e] \notin Blank
        BY <2>3, <2>5, <3>2, <3>9
      <4> QED
        BY <4>2, <4>3
    <3> QED
      BY <3>1, <3>4, <3>8, <3>9, <3>10, <3>11, <3>12
  <2> QED
    BY <2>6, <2>7 DEF LaidOutInLines
<1> QED
  BY TextInvariance, <1>1, PTL

-----------------------------------------------------------------------------
(* The column that is returned.                                            *)

\* The last line of t is filled up to column c.
Fills(t, offset, c) == \E k \in Nat : IsLine(t, k, Len(t)) /\ c = Spans(k, Len(t), offset)

\* A run counts its columns when it is done; the last character of a line is not counted.
ColumnInv ==
    /\ pc \in {"line", "runs", "rest"} => Fills(dest, colOffset, col)
    /\ pc = "runs" /\ sp >= 0 => Fills(Before, colOffset, Started)
    /\ pc = "run" => Fills(dest, colOffset, col + (Used - sp)) /\ Fills(Before, colOffset, col)
    /\ pc = "end" \/ (pc = "done" /\ ~doEnd) =>
          \E c \in Nat : /\ Fills(dest, colOffset, c)
                         /\ c = col \/ (col = line_size - 1 /\ c > col)

\* Nothing is filled up to the column it begins at.
LEMMA FillsNothing == ASSUME NEW offset \in Nat PROVE Fills(<<>>, offset, offset)
<1>1. Len(<<>>) = 0
  OBVIOUS
<1>2. IsLine(<<>>, 0, Len(<<>>)) /\ offset = Spans(0, Len(<<>>), offset)
  BY <1>1 DEF IsLine, Spans
<1> QED
  BY <1>2 DEF Fills

\* Characters fill it further.
LEMMA FillsMore ==
    ASSUME NEW t \in Seq(Char), NEW offset \in Nat, NEW c \in Nat, Fills(t, offset, c),
           NEW chars \in Seq(Char), Len(chars) \in {1, 2},
           \A j \in 1..Len(chars) : chars[j] # CR
    PROVE  Fills(t \o chars, offset, c + Len(chars))
<1>1. PICK v, N, n1 : v = t \o chars /\ N = Len(t) /\ n1 = Len(chars)
  OBVIOUS
<1>2. /\ v \in Seq(Char) /\ Len(v) = N + n1 /\ N \in Nat /\ n1 \in {1, 2} /\ n1 \in Nat
      /\ \A m \in 1..N : v[m] = t[m]
      /\ \A j \in 1..n1 : v[N + j] = chars[j] /\ chars[j] # CR
  BY <1>1, Glued
<1>3. PICK k \in Nat : IsLine(t, k, N) /\ c = Spans(k, N, offset)
  BY <1>1 DEF Fills
<1>4. /\ k <= N /\ (k = 0 \/ (k >= 2 /\ t[k - 1] = CR /\ t[k] = LF))
      /\ \A m \in (k + 1)..N : t[m] # CR
  BY <1>3 DEF IsLine
<1>5. k = 0 \/ (k >= 2 /\ v[k - 1] = CR /\ v[k] = LF)
  <2>1. k >= 2 => k - 1 \in 1..N /\ k \in 1..N /\ k # 0
    BY <1>2, <1>4
  <2> QED
    BY <1>2, <1>4, <2>1
<1>6. \A m \in (k + 1)..(N + n1) : v[m] # CR
  <2> TAKE m \in (k + 1)..(N + n1)
  <2>1. CASE m <= N
    <3>1. m \in 1..N /\ m \in (k + 1)..N
      BY <1>2, <2>1
    <3> QED
      BY <1>2, <1>4, <3>1
  <2>2. CASE ~(m <= N)
    <3>1. m - N \in 1..n1 /\ m = N + (m - N)
      BY <1>2, <2>2
    <3>2. PICK j \in 1..n1 : m = N + j
      BY <3>1
    <3>3. v[N + j] = chars[j] /\ chars[j] # CR
      BY <1>2
    <3> QED
      BY <3>2, <3>3
  <2> QED
    BY <2>1, <2>2
<1>7. IsLine(v, k, N + n1)
  BY <1>2, <1>4, <1>5, <1>6 DEF IsLine
<1>8. c + n1 = Spans(k, N + n1, offset)
  <2>1. PICK o \in Nat : o = IF k = 0 THEN offset ELSE 0
    OBVIOUS
  <2>2. c = N - k + o /\ Spans(k, N + n1, offset) = (N + n1) - k + o
    BY <1>3, <2>1 DEF Spans
  <2> QED
    BY <1>2, <2>2
<1>9. Fills(v, offset, c + n1)
  BY <1>2, <1>7, <1>8 DEF Fills
<1> QED
  BY <1>1, <1>9

\* A newline begins a line.
LEMMA FillsLine == ASSUME NEW t \in Seq(Char), NEW offset \in Nat
                   PROVE  t \o NewLine \in Seq(Char) /\ Fills(t \o NewLine, offset, 0)
<1>1. /\ NewLine \in Seq(Char) /\ Len(NewLine) = 2 /\ NewLine[1] = CR /\ NewLine[2] = LF
      /\ 1 \in 1..2 /\ 2 \in 1..2
  BY DEF NewLine, Char, Special
<1>2. PICK u, v, N : u = NewLine /\ v = t \o u /\ N = Len(t)
  OBVIOUS
<1>3. v \in Seq(Char) /\ Len(v) = N + 2 /\ v[N + 1] = CR /\ v[N + 2] = LF /\ N \in Nat
  <2>1. /\ t \o u \in Seq(Char) /\ Len(t \o u) = Len(t) + Len(u)
        /\ \A j \in 1..Len(u) : (t \o u)[Len(t) + j] = u[j]
    BY <1>1, <1>2, Glued
  <2>2. Len(u) = 2 /\ u[1] = CR /\ u[2] = LF /\ N \in Nat
    BY <1>1, <1>2
  <2>3. \A j \in 1..2 : v[N + j] = u[j]
    BY <1>2, <2>1, <2>2
  <2>4. v[N + 1] = CR /\ v[N + 2] = LF
    BY <1>1, <2>2, <2>3
  <2> QED
    BY <1>2, <2>1, <2>2, <2>4
<1>4. IsLine(v, N + 2, N + 2) /\ 0 = Spans(N + 2, N + 2, offset) /\ N + 2 \in Nat
  BY <1>3 DEF IsLine, Spans
<1>5. Fills(v, offset, 0)
  BY <1>3, <1>4 DEF Fills
<1> QED
  BY <1>2, <1>3, <1>5

\* What is written for a byte has no carriage return.
LEMMA CodeInLine ==
    ASSUME NEW c \in Char, NEW chars,
           \/ chars = Code(c, AtEdge(c))
           \/ chars = Code(c, c \in Critical)
           \/ chars = Code(c, AtEdge(c) /\ c # DOT)
    PROVE  /\ chars \in Seq(Char) /\ Len(chars) \in {1, 2}
           /\ \A j \in 1..Len(chars) : chars[j] # CR
<1>1. CASE chars = Escape(c) /\ AtEdge(c)
  <2>1. c \in DOMAIN Shifted
    BY <1>1 DEF AtEdge, Shifted
  <2>2. PICK x : x = Shifted[c]
    OBVIOUS
  <2>3. x \in OtherChar
    BY <2>1, <2>2, WireAssumption
  <2>4. x # CR /\ EQ # CR
    BY <2>3, OtherCharAssumption DEF Special, EQ, CR
  <2>5. chars = <<EQ, x>>
    BY <1>1, <2>2 DEF Escape
  <2>6. chars \in Seq(Char) /\ Len(chars) \in {1, 2}
    BY CodeTails
  <2> QED
    BY <2>4, <2>5, <2>6
<1>2. CASE chars = <<c>> /\ c \notin Critical
  <2>1. c # CR
    BY <1>2 DEF Critical
  <2> QED
    BY <1>2, <2>1
<1>3. (chars = Escape(c) /\ AtEdge(c)) \/ (chars = <<c>> /\ c \notin Critical)
  <2>1. c \in Critical => AtEdge(c) /\ c # DOT
    BY DEF AtEdge, Critical, DOT, NUL, CR, LF, EQ
  <2> QED
    BY <2>1 DEF Code
<1> QED
  BY <1>1, <1>2, <1>3

-----------------------------------------------------------------------------
(* The column: the invariant holds at first, and every action keeps it.    *)

LEMMA FirstColumn == ASSUME Inv, First PROVE ColumnInv'
<1> DEFINE chars == Code(Here, AtEdge(Here))
<1>1. /\ pc = "first" /\ pc' = "line" /\ UNCHANGED args
      /\ dest = <<>> /\ col = colOffset /\ i < Size
  BY DEF First, Inv, ReadInv
<1>2. colOffset' = colOffset /\ colOffset \in Nat
  BY <1>1, Facts DEF args
<1>3. Fills(<<>>, colOffset, colOffset)
  BY <1>2, FillsNothing
<1>4. CASE col = 0
  <2>1. dest' = dest \o chars /\ col' = Len(chars)
    BY <1>4 DEF First, Write
  <2>2. Here \in Char
    BY <1>1, HereIsByte DEF Inv
  <2>3. chars \in Seq(Char) /\ Len(chars) \in {1, 2} /\ \A j \in 1..Len(chars) : chars[j] # CR
    BY <2>2, CodeInLine
  <2> HIDE DEF chars
  <2>4. Fills(dest \o chars, colOffset, col + Len(chars))
    BY <1>1, <1>2, <1>3, <2>3, FillsMore, EmptySeq
  <2>5. col + Len(chars) = Len(chars)
    BY <1>4, <2>3
  <2> QED
    BY <1>1, <1>2, <2>1, <2>4, <2>5 DEF ColumnInv
<1>5. CASE col # 0
  <2>1. dest' = dest /\ col' = col
    BY <1>5 DEF First
  <2> QED
    BY <1>1, <1>2, <1>3, <2>1 DEF ColumnInv
<1> QED
  BY <1>4, <1>5

LEMMA LineColumn == ASSUME Inv, ColumnInv, Line PROVE ColumnInv'
<1>1. /\ pc = "line" /\ pc' \in {"runs", "end"} /\ UNCHANGED args /\ sp' = -1
      /\ col' = col /\ dest' = dest
  BY DEF Line, NULL
<1>2. Fills(dest', colOffset', col') /\ col' \in Nat /\ ~(sp' >= 0)
  BY <1>1, Facts DEF ColumnInv, args
<1> QED
  BY <1>1, <1>2 DEF ColumnInv

LEMMA StartRunColumn == ASSUME Inv, ColumnInv, StartRun PROVE ColumnInv'
<1>1. /\ pc = "runs" /\ pc' = "run" /\ UNCHANGED args /\ sp' = Used
      /\ col' = col /\ dest' = dest /\ Used' = Used
  BY DEF StartRun, Used
<1>2. Fills(dest, colOffset, col) /\ colOffset' = colOffset
  BY <1>1 DEF ColumnInv, args
<1>3. SubSeq(dest, 1, Used) = dest
  <2>1. dest \in Seq(Char) /\ Used = Len(dest)
    BY Facts
  <2> QED
    BY <2>1, SubSeqFull
<1>4. Before' = dest /\ col' + (Used' - sp') = col
  BY <1>1, <1>3, Facts DEF Before
<1> QED
  BY <1>1, <1>2, <1>4 DEF ColumnInv

LEMMA DO_THINGColumn == ASSUME Inv, ColumnInv, DO_THING PROVE ColumnInv'
<1> DEFINE byte  == src[i + n + 1]
           chars == Code(byte, byte \in Critical)
<1>1. /\ pc = "run" /\ pc' = "run" /\ UNCHANGED args /\ sp' = sp
      /\ col' = col /\ dest' = dest \o chars /\ n < Run
  BY DEF DO_THING, Write
<1>2. /\ Fills(dest, colOffset, col + (Used - sp)) /\ Fills(Before, colOffset, col)
      /\ colOffset' = colOffset /\ colOffset \in Nat
  BY <1>1, Facts DEF ColumnInv, args
<1>3. i + 1 + Run < Size /\ sp >= 0
  BY <1>1 DEF Inv, ReadInv, RunInv
<1>4. byte \in Char
  <2>1. i \in Nat /\ n \in Nat /\ Run \in Nat /\ Size \in Nat /\ Size = Len(src)
    BY Facts
  <2>2. i + n + 1 \in 1..Len(src)
    BY <1>1, <1>3, <2>1
  <2>3. src \in Seq(Char)
    BY Facts
  <2> QED
    BY <2>2, <2>3
<1>5. chars \in Seq(Char) /\ Len(chars) \in {1, 2} /\ \A j \in 1..Len(chars) : chars[j] # CR
  BY <1>4, CodeInLine
<1> HIDE DEF chars
<1>6. dest \in Seq(Char) /\ col + (Used - sp) \in Nat /\ Used = Len(dest)
  BY Facts
<1>7. Fills(dest \o chars, colOffset, (col + (Used - sp)) + Len(chars))
  BY <1>2, <1>5, <1>6, FillsMore
<1>8. col' + (Used' - sp') = (col + (Used - sp)) + Len(chars)
  <2>1. PICK m \in {1, 2} : m = Len(chars)
    BY <1>5
  <2>2. Used' = Used + m
    BY <1>1, <1>5, <1>6, <2>1 DEF Used
  <2>3. Used \in Nat /\ sp \in Int /\ col \in Nat /\ col + ((Used + m) - sp) = (col + (Used - sp)) + m
    BY Facts
  <2> QED
    BY <1>1, <2>1, <2>2, <2>3
<1>9. Before' = Before
  <2>1. sp \in Nat /\ sp <= Len(dest)
    BY <1>3, <1>6, Facts
  <2>2. SubSeq(dest \o chars, 1, sp) = SubSeq(dest, 1, sp)
    BY <1>5, <1>6, <2>1, SubSeqOfConcat1
  <2> QED
    BY <1>1, <2>2 DEF Before
<1> QED
  BY <1>1, <1>2, <1>7, <1>8, <1>9 DEF ColumnInv

LEMMA RunDoneColumn == ASSUME Inv, ColumnInv, RunDone PROVE ColumnInv'
<1>1. /\ pc = "run" /\ pc' = "runs" /\ UNCHANGED args /\ sp' = sp /\ Used' = Used
      /\ col' = col + (Used - sp) /\ dest' = dest /\ Before' = Before
  BY DEF RunDone, Used, Before
<1>2. Started' = col
  BY <1>1, Facts DEF Started
<1> QED
  BY <1>1, <1>2 DEF ColumnInv, args

LEMMA NoUndoColumn == ASSUME ColumnInv, NoUndo PROVE ColumnInv'
  BY DEF NoUndo, ColumnInv, args

LEMMA UndoColumn == ASSUME Inv, ColumnInv, Undo PROVE ColumnInv'
<1>1. /\ pc = "runs" /\ pc' = "rest" /\ UNCHANGED args
      /\ col' = Started /\ dest' = Before /\ Overflowed
  BY DEF Undo, Started, Used, Before
<1>2. sp >= 0
  BY <1>1, Facts DEF Overflowed, NULL
<1> QED
  BY <1>1, <1>2 DEF ColumnInv, args

LEMMA RestColumn == ASSUME Inv, ColumnInv, Rest PROVE ColumnInv'
<1> DEFINE chars == Code(Here, Here \in Critical)
<1>1. /\ pc = "rest" /\ pc' \in {"rest", "end"} /\ UNCHANGED args
      /\ col' = col + Len(chars) /\ dest' = dest \o chars /\ i < Size
  BY DEF Rest, Write, Inv, ReadInv
<1>2. Here \in Char
  BY <1>1, HereIsByte DEF Inv
<1>3. chars \in Seq(Char) /\ Len(chars) \in {1, 2} /\ \A j \in 1..Len(chars) : chars[j] # CR
  BY <1>2, CodeInLine
<1> HIDE DEF chars
<1>4. Fills(dest', colOffset, col') /\ col' \in Nat /\ colOffset' = colOffset
  <2>1. /\ Fills(dest, colOffset, col) /\ dest \in Seq(Char) /\ colOffset \in Nat /\ col \in Nat
        /\ Len(chars) \in Nat
    BY <1>1, <1>3, Facts DEF ColumnInv
  <2>2. Fills(dest \o chars, colOffset, col + Len(chars))
    BY <1>3, <2>1, FillsMore
  <2> QED
    BY <1>1, <2>1, <2>2 DEF args
<1> QED
  BY <1>1, <1>4 DEF ColumnInv

LEMMA LastCharColumn == ASSUME Inv, ColumnInv, LastChar PROVE ColumnInv'
<1> DEFINE chars == Code(Here, AtEdge(Here) /\ Here # DOT)
<1>1. /\ pc = "rest" /\ pc' \in {"newline", "end"} /\ UNCHANGED args
      /\ col' = col /\ dest' = dest \o chars /\ col = line_size - 1 /\ i < Size
  BY DEF LastChar, Write, Inv, ReadInv
<1>2. Here \in Char
  BY <1>1, HereIsByte DEF Inv
<1>3. chars \in Seq(Char) /\ Len(chars) \in {1, 2} /\ \A j \in 1..Len(chars) : chars[j] # CR
  BY <1>2, CodeInLine
<1> HIDE DEF chars
<1>4. PICK c \in Nat : c > col /\ Fills(dest', colOffset, c)
  <2>1. /\ Fills(dest, colOffset, col) /\ dest \in Seq(Char) /\ colOffset \in Nat /\ col \in Nat
    BY <1>1, Facts DEF ColumnInv
  <2>2. Fills(dest \o chars, colOffset, col + Len(chars))
    BY <1>3, <2>1, FillsMore
  <2>3. col + Len(chars) \in Nat /\ col + Len(chars) > col
    BY <1>3, <2>1
  <2> QED
    BY <1>1, <2>2, <2>3
<1>5. col' = line_size' - 1 /\ c > col' /\ colOffset' = colOffset
  BY <1>1, <1>4 DEF args
<1> QED
  BY <1>1, <1>4, <1>5 DEF ColumnInv

LEMMA StartLineColumn == ASSUME Inv, StartLine PROVE ColumnInv'
<1> DEFINE chars == Code(Here, AtEdge(Here))
<1>1. /\ pc = "newline" /\ pc' = "line" /\ UNCHANGED args
      /\ col' = Len(chars) /\ dest' = dest \o (NewLine \o chars) /\ i < Size
  BY DEF StartLine, Write, Inv, ReadInv
<1>2. Here \in Char
  BY <1>1, HereIsByte DEF Inv
<1>3. chars \in Seq(Char) /\ Len(chars) \in {1, 2} /\ \A j \in 1..Len(chars) : chars[j] # CR
  BY <1>2, CodeInLine
<1> HIDE DEF chars
<1>4. dest \in Seq(Char) /\ colOffset \in Nat /\ NewLine \in Seq(Char)
  BY Facts DEF NewLine, Char, Special
<1>5. dest \o NewLine \in Seq(Char) /\ Fills(dest \o NewLine, colOffset, 0)
  BY <1>4, FillsLine
<1>6. Fills((dest \o NewLine) \o chars, colOffset, 0 + Len(chars))
  BY <1>3, <1>4, <1>5, FillsMore
<1>7. (dest \o NewLine) \o chars = dest \o (NewLine \o chars) /\ 0 + Len(chars) = Len(chars)
  BY <1>3, <1>4, ConcatAssociative
<1> QED
  BY <1>1, <1>6, <1>7 DEF ColumnInv, args

LEMMA FinishColumn == ASSUME ColumnInv, Finish PROVE ColumnInv'
<1>1. pc = "end" /\ pc' = "done" /\ UNCHANGED args
  BY DEF Finish
<1>2. ~doEnd => dest' = dest /\ col' = col
  BY DEF Finish
<1> QED
  BY <1>1, <1>2 DEF ColumnInv, args

\* The other actions and steps of nothing.
LEMMA OtherColumn ==
    ASSUME ColumnInv, Call \/ NoLastChar \/ Collect \/ UNCHANGED vars
    PROVE  ColumnInv'
<1>1. CASE Call
  BY <1>1 DEF Call, ColumnInv
<1>2. CASE NoLastChar
  BY <1>2 DEF NoLastChar, ColumnInv
<1>3. CASE Collect
  BY <1>3 DEF Collect, ColumnInv
<1>4. CASE UNCHANGED vars
  BY <1>4 DEF vars, args, ColumnInv, Before, Started, Used
<1> QED
  BY <1>1, <1>2, <1>3, <1>4

(* The column returned without the end is that of the next character, but  *)
(* for data that ends in the last column: there it is one too few or two.  *)
THEOREM ReturnsWhereItStands == Spec => []ReturnsColumn
<1>1. Init => ColumnInv
  BY DEF Init, ColumnInv
<1>2. Inv /\ ColumnInv /\ [Next]_vars => ColumnInv'
  BY FirstColumn, LineColumn, StartRunColumn, DO_THINGColumn, RunDoneColumn, NoUndoColumn,
     UndoColumn, RestColumn, LastCharColumn, StartLineColumn, FinishColumn, OtherColumn
     DEF Next, Encode
<1>3. Inv /\ ColumnInv => ReturnsColumn
  <2> SUFFICES ASSUME Inv, ColumnInv, pc = "done", ~doEnd PROVE ReturnsColumn
    BY DEF ReturnsColumn
  <2>1. dest \in Seq(Char)
    BY Facts
  <2>2. PICK N : N = Len(dest) /\ N \in Nat /\ DOMAIN dest = 1..N
    BY <2>1
  <2>3. PICK c \in Nat : /\ Fills(dest, colOffset, c)
                         /\ c = col \/ (col = line_size - 1 /\ c > col)
    BY DEF ColumnInv
  <2>4. PICK k \in Nat : IsLine(dest, k, N) /\ c = Spans(k, N, colOffset)
    <3>1. PICK k \in Nat : IsLine(dest, k, Len(dest)) /\ c = Spans(k, Len(dest), colOffset)
      BY <2>3 DEF Fills
    <3> QED
      BY <2>2, <3>1
  <2>5. /\ k <= N /\ (k = 0 \/ (k >= 2 /\ dest[k - 1] = CR /\ dest[k] = LF))
        /\ \A m \in (k + 1)..N : dest[m] # CR
    BY <2>4 DEF IsLine
  <2>6. k \in LineStarts
    <3>1. CASE k = 0
      BY <3>1 DEF LineStarts
    <3>2. CASE k # 0
      <4>1. k - 1 \in DOMAIN dest /\ NewLineAt(k - 1) /\ k = (k - 1) + 1
        BY <2>2, <2>5, <3>2 DEF NewLineAt
      <4> QED
        BY <4>1 DEF LineStarts
    <3> QED
      BY <3>1, <3>2
  <2>7. ASSUME NEW l \in LineStarts PROVE l <= k
    <3>1. l = 0 \/ \E m \in 1..N : dest[m] = CR /\ l = m + 1
      BY <2>2 DEF LineStarts, NewLineAt
    <3>2. ASSUME NEW m \in 1..N, dest[m] = CR, l = m + 1 PROVE l <= k
      <4>1. m \notin (k + 1)..N
        BY <2>5, <3>2
      <4>2. m # k
        BY <2>5, <3>2 DEF CR, LF
      <4> QED
        BY <2>2, <3>2, <4>1, <4>2
    <3> QED
      BY <3>1, <3>2
  <2>8. Filled(k) = c
    <3>1. {m \in DOMAIN dest : m > k /\ NewLineAt(m)} = {}
      <4>1. ASSUME NEW m \in 1..N, m > k PROVE dest[m] # CR
        <5>1. m \in (k + 1)..N
          BY <2>2, <4>1
        <5> QED
          BY <2>5, <5>1
      <4> QED
        BY <2>2, <4>1 DEF NewLineAt
    <3>2. LineFrom(k) = SubSeq(dest, k + 1, N)
      BY <2>2, <3>1 DEF LineFrom
    <3>3. Len(SubSeq(dest, k + 1, N)) = N - k
      BY <2>1, <2>2, <2>5
    <3> QED
      BY <2>4, <3>2, <3>3 DEF Filled, Spans
  <2> QED
    BY <2>3, <2>6, <2>7, <2>8 DEF ReturnsColumn
<1> QED
  BY <1>1, <1>2, <1>3, Invariance, PTL DEF Spec

-----------------------------------------------------------------------------
(* The steps of a call.                                                    *)

\* What a step that keeps to its call has to do: numbers only.
LEMMA GotOn ==
    ASSUME Inv', src' = src, Settled' <= i', Settled' \in Int, Stage' \in Nat,
           Settled' > Settled \/ (Settled' = Settled /\ Stage' < Stage)
    PROVE  /\ Settled' <= Len(src) /\ Stage' >= 0
           /\ Settled' > Settled \/ (Settled' = Settled /\ Stage' < Stage)
<1>1. Typed'
  BY DEF Inv
<1>2. i' \in 0..Len(src')
  BY <1>1 DEF Typed
<1>3. Len(src') \in Nat
  <2>1. <<>> \in Seq(Char)
    BY EmptySeq
  <2>2. src' \in Seq(Char)
    BY <1>1, <2>1, DataAssumption DEF Typed
  <2> QED
    BY <2>2
<1> QED
  BY <1>2, <1>3

(* A call ends within Run + 8 steps for each byte of its data and as many  *)
(* again, for every set of data, every line size and every length of a     *)
(* run: each step reads more of the data for good or takes a stage on the  *)
(* way to it, although a run may be undone (EveryStepGetsOn).              *)
THEOREM EveryCallEnds == Spec => EveryStepGetsOn
<1>1. Inv /\ Inv' /\ [Next]_vars =>
        [pc \notin {"idle", "done"} =>
           /\ Settled' <= Len(src) /\ Stage' >= 0
           /\ Settled' > Settled \/ (Settled' = Settled /\ Stage' < Stage)]_vars
  <2> SUFFICES ASSUME Inv, Inv', Next, pc \notin {"idle", "done"}
               PROVE  /\ Settled' <= Len(src) /\ Stage' >= 0
                      /\ Settled' > Settled \/ (Settled' = Settled /\ Stage' < Stage)
    OBVIOUS
  <2>1. /\ Run \in Nat \ {0} /\ i \in Nat /\ i <= Size /\ Used \in Nat
        /\ sp \in Int /\ n \in Nat /\ n <= Run
    BY Arguments DEF Inv
  <2>2. NULL = -1
    BY DEF NULL
  <2>3. Encode
    BY DEF Next, Call, Collect
  <2>4. CASE First
    <3>1. pc = "first" /\ pc' = "line" /\ src' = src /\ i' \in {i, i + 1}
      BY <2>4 DEF First, args
    <3>2. Settled = i /\ Settled' = i' /\ Stage = Run + 7 /\ Stage' = Run + 6
      BY <3>1 DEF Settled, Stage
    <3> QED
      BY <2>1, <3>1, <3>2, GotOn
  <2>5. CASE Line
    <3>1. pc = "line" /\ pc' \in {"runs", "end"} /\ sp' = NULL /\ src' = src /\ i' = i
      BY <2>5 DEF Line, args
    <3>2. Settled = i /\ Settled' = i' /\ Stage = Run + 6
      BY <3>1 DEF Settled, Stage
    <3>3. Stage' \in {Run + 5, 1}
      BY <3>1 DEF Stage
    <3> QED
      BY <2>1, <3>1, <3>2, <3>3, GotOn
  <2>6. CASE StartRun
    <3>1. /\ pc = "runs" /\ pc' = "run" /\ n' = 0 /\ src' = src /\ i' = i
      BY <2>6 DEF StartRun, args
    <3>2. Settled' = i' /\ Stage' = Run + 4 - n'
      BY <3>1 DEF Settled, Stage
    <3>3. CASE sp = NULL
      <4>1. Settled = i /\ Stage = Run + 5
        BY <3>1, <3>3 DEF Settled, Stage
      <4> QED
        BY <2>1, <3>1, <3>2, <4>1, GotOn
    <3>4. CASE sp # NULL
      <4>1. Settled = i - Run
        BY <3>1, <3>4 DEF Settled
      <4> QED
        BY <2>1, <3>1, <3>2, <4>1, GotOn
    <3> QED
      BY <3>3, <3>4
  <2>7. CASE DO_THING
    <3>1. pc = "run" /\ n < Run /\ pc' = pc /\ n' = n + 1 /\ src' = src /\ i' = i
      BY <2>7 DEF DO_THING, args
    <3>2. Settled = i /\ Settled' = i' /\ Stage = Run + 4 - n /\ Stage' = Run + 4 - n'
      BY <3>1 DEF Settled, Stage
    <3> QED
      BY <2>1, <3>1, <3>2, GotOn
  <2>8. CASE RunDone
    <3>1. pc = "run" /\ n = Run /\ pc' = "runs" /\ sp' = sp /\ src' = src /\ i' = i + Run
      BY <2>8 DEF RunDone, args
    <3>2. sp # NULL
      BY <2>1, <2>2, <3>1 DEF Inv, RunInv
    <3>3. Settled = i /\ Settled' = i' - Run /\ Stage = Run + 4 - n /\ Stage' = 3
      BY <3>1, <3>2 DEF Settled, Stage
    <3> QED
      BY <2>1, <3>1, <3>3, GotOn
  <2>9. CASE NoUndo
    <3>1. pc = "runs" /\ pc' = "rest" /\ src' = src /\ i' = i
      BY <2>9 DEF NoUndo, args
    <3>2. Settled \in {i, i - Run} /\ Settled' = i' /\ Stage \in {Run + 5, 3} /\ Stage' = 2
      BY <3>1 DEF Settled, Stage
    <3> QED
      BY <2>1, <3>1, <3>2, GotOn
  <2>10. CASE Undo
    <3>1. pc = "runs" /\ sp # NULL /\ pc' = "rest" /\ src' = src /\ i' = i - Run
      BY <2>10 DEF Undo, Overflowed, args
    <3>2. Settled = i - Run /\ Settled' = i' /\ Stage = 3 /\ Stage' = 2
      BY <3>1 DEF Settled, Stage
    <3> QED
      BY <2>1, <3>1, <3>2, GotOn
  <2>11. CASE Rest \/ LastChar
    <3>1. /\ pc = "rest" /\ pc' \in {"end", "rest", "newline"} /\ src' = src /\ i' = i + 1
      BY <2>11 DEF Rest, LastChar, args
    <3>2. Settled = i /\ Settled' = i' /\ Stage' \in {1, 2}
      BY <3>1 DEF Settled, Stage
    <3> QED
      BY <2>1, <3>1, <3>2, GotOn
  <2>12. CASE NoLastChar
    <3>1. pc = "rest" /\ pc' = "newline" /\ src' = src /\ i' = i
      BY <2>12 DEF NoLastChar, args
    <3>2. Settled = i /\ Settled' = i' /\ Stage = 2 /\ Stage' = 1
      BY <3>1 DEF Settled, Stage
    <3> QED
      BY <2>1, <3>1, <3>2, GotOn
  <2>13. CASE StartLine
    <3>1. pc = "newline" /\ pc' = "line" /\ src' = src /\ i' = i + 1
      BY <2>13 DEF StartLine, args
    <3>2. Settled = i /\ Settled' = i' /\ Stage' = Run + 6
      BY <3>1 DEF Settled, Stage
    <3> QED
      BY <2>1, <3>1, <3>2, GotOn
  <2>14. CASE Finish
    <3>1. pc = "end" /\ pc' = "done" /\ src' = src /\ i' = i
      BY <2>14 DEF Finish, args
    <3>2. Settled = i /\ Settled' = i' /\ Stage = 1 /\ Stage' = 0
      BY <3>1 DEF Settled, Stage
    <3> QED
      BY <2>1, <3>1, <3>2, GotOn
  <2> QED
    BY <2>3, <2>4, <2>5, <2>6, <2>7, <2>8, <2>9, <2>10, <2>11, <2>12, <2>13, <2>14 DEF Encode
<1> QED
  BY <1>1, Invariance, PTL DEF Spec, EveryStepGetsOn
=============================================================================
