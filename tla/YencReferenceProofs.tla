------------------------ MODULE YencReferenceProofs -------------------------
(***************************************************************************)
(* The byte-by-byte streams decode every text as the reference decoder of  *)
(* the tests does, and find its end where a terminator first is            *)
(* (YencReference).  The reference looks ahead in the whole text, the      *)
(* streams look at one byte and remember a context: a context stands for   *)
(* the bytes the reference would still have to look at (Pending).          *)
(***************************************************************************)
EXTENDS YencReference, DataInduction

\* The functions in the definitions of UndoStuffing and Unescape.
Undoing(f, findEnd) ==
    f = [t \in Seq(Char) |->
          IF t = <<>> THEN <<>>
          ELSE IF ~IsPrefix(<<CR, LF, DOT>>, t) THEN <<Head(t)>> \o f[Tail(t)]
          ELSE IF findEnd /\ IsPrefix(<<CR, LF, DOT, CR, LF>>, t) THEN <<CR, LF>>
          ELSE <<CR, LF>> \o f[Drop(t, 3)]]

Unescaping(f, findEnd) ==
    f = [t \in Seq(Char) |->
          IF t = <<>> \/ (findEnd /\ IsPrefix(<<CR, LF, EQ, Y>>, t)) THEN <<>>
          ELSE IF Head(t) \in {CR, LF} THEN f[Tail(t)]
          ELSE IF Head(t) # EQ THEN <<Plain(Head(t))>> \o f[Tail(t)]
          ELSE IF Len(t) = 1 THEN <<>>
          ELSE <<Escaped(t[2])>> \o f[Drop(t, IF t[2] = CR THEN 1 ELSE 2)]]

Undone(findEnd)    == CHOOSE f : Undoing(f, findEnd)
Unescaped(findEnd) == CHOOSE f : Unescaping(f, findEnd)

(* The two definitions by their functions.                                 *)
LEMMA ByFunctions ==
    ASSUME NEW s, NEW findEnd
    PROVE  /\ UndoStuffing(s, findEnd) = Undone(findEnd)[s]
           /\ Unescape(s, findEnd) = Unescaped(findEnd)[s]
  BY DEF UndoStuffing, Undone, Undoing, Unescape, Unescaped, Unescaping

-----------------------------------------------------------------------------
(* A text is empty or has a first byte.                                    *)

(* What is put before a text, and what is left of it.                      *)
LEMMA ConsIs ==
    ASSUME NEW S, NEW c \in S, NEW t \in Seq(S)
    PROVE  /\ Cons(c, t) \in Seq(S) /\ Cons(c, t) # <<>>
           /\ Head(Cons(c, t)) = c /\ Tail(Cons(c, t)) = t
           /\ Len(Cons(c, t)) = Len(t) + 1 /\ Cons(c, t)[1] = c
           /\ \A k \in 1..Len(t) : Cons(c, t)[k + 1] = t[k]
<1>1. PICK w : w = <<c>> \o t
  OBVIOUS
<1>2. /\ w \in Seq(S) /\ w # <<>> /\ Head(w) = c /\ Tail(w) = t
      /\ Len(w) = Len(t) + 1 /\ w[1] = c /\ \A k \in 1..Len(t) : w[k + 1] = t[k]
  <2>1. /\ (<<c>> \o t) \in Seq(S) /\ (<<c>> \o t) # <<>>
        /\ Head(<<c>> \o t) = c /\ Tail(<<c>> \o t) = t
        /\ Len(<<c>> \o t) = Len(t) + 1 /\ (<<c>> \o t)[1] = c
        /\ \A k \in 1..Len(t) : (<<c>> \o t)[k + 1] = t[k]
    BY FirstIs
  <2> QED
    BY <1>1, <2>1
<1>3. Cons(c, t) = w
  BY <1>1 DEF Cons
<1> QED
  BY <1>2, <1>3

(* What a text begins with, byte by byte.                                  *)
Begins(a, b) == Len(a) <= Len(b) /\ \A k \in 1..Len(a) : a[k] = b[k]

LEMMA PrefixByBytes ==
    ASSUME NEW S, NEW a \in Seq(S), NEW b \in Seq(S)
    PROVE  IsPrefix(a, b) <=> Begins(a, b)
<1>1. Len(a) \in Nat /\ Len(b) \in Nat
  BY LenProperties
<1>2. SubSeq(a, 1, Len(a)) = a
  BY SubSeqFull
<1>3. PICK w : w = SubSeq(b, 1, Len(a))
  OBVIOUS
<1>4. IsPrefix(a, b) <=> Len(a) <= Len(b) /\ a = w
  <2> HIDE <1>1
  <2> QED
    BY <1>2, <1>3, Zenon DEF IsPrefix
<1>5. ASSUME Len(a) <= Len(b)
      PROVE  a = w <=> \A k \in 1..Len(a) : a[k] = b[k]
  <2>1. \A k \in 1..Len(a) : b[k] \in S
    BY <1>1, <1>5, ElementOfSeq
  <2>2. w \in Seq(S) /\ Len(w) = Len(a) /\ \A k \in 1..Len(a) : w[k] = b[k]
    BY <1>1, <2>1, <1>3, SubSeqProperties
  <2> QED
    BY <2>2, SeqEqual
<1> QED
  BY <1>4, <1>5 DEF Begins

(* The first bytes are compared first.                                     *)
LEMMA PrefixOfCons ==
    ASSUME NEW S, NEW c \in S, NEW t \in Seq(S), NEW d \in S, NEW p \in Seq(S)
    PROVE  IsPrefix(Cons(d, p), Cons(c, t)) <=> c = d /\ IsPrefix(p, t)
<1>2. PICK x \in Seq(S), y \in Seq(S) : x = Cons(d, p) /\ y = Cons(c, t)
  BY ConsIs
<1>3. /\ Len(x) = Len(p) + 1 /\ x[1] = d /\ \A k \in 1..Len(p) : x[k + 1] = p[k]
      /\ Len(y) = Len(t) + 1 /\ y[1] = c /\ \A k \in 1..Len(t) : y[k + 1] = t[k]
  <2>1. /\ Len(Cons(d, p)) = Len(p) + 1 /\ Cons(d, p)[1] = d
        /\ \A k \in 1..Len(p) : Cons(d, p)[k + 1] = p[k]
    BY ConsIs
  <2>2. /\ Len(Cons(c, t)) = Len(t) + 1 /\ Cons(c, t)[1] = c
        /\ \A k \in 1..Len(t) : Cons(c, t)[k + 1] = t[k]
    BY ConsIs
  <2> QED
    BY <1>2, <2>1, <2>2
<1>4. Len(p) \in Nat /\ Len(t) \in Nat
  BY LenProperties
<1>5. Begins(x, y) <=> c = d /\ Begins(p, t)
  <2>1. ASSUME Begins(x, y) PROVE c = d /\ Begins(p, t)
    <3>1. Len(x) <= Len(y) /\ \A k \in 1..Len(x) : x[k] = y[k]
      BY <2>1 DEF Begins
    <3>2. Len(p) <= Len(t) /\ c = d
      BY <1>3, <1>4, <3>1
    <3>3. ASSUME NEW k \in 1..Len(p) PROVE p[k] = t[k]
      <4>1. k \in 1..Len(t) /\ k + 1 \in 1..Len(x)
        BY <1>3, <1>4, <3>2
      <4> QED
        BY <1>3, <3>1, <4>1
    <3> QED
      BY <3>2, <3>3 DEF Begins
  <2>2. ASSUME c = d, Begins(p, t) PROVE Begins(x, y)
    <3>1. Len(p) <= Len(t) /\ \A k \in 1..Len(p) : p[k] = t[k]
      BY <2>2 DEF Begins
    <3>2. ASSUME NEW k \in 1..Len(x) PROVE x[k] = y[k]
      <4>1. CASE k = 1
        BY <1>3, <2>2, <4>1
      <4>2. CASE k # 1
        <5>1. k - 1 \in 1..Len(p) /\ k - 1 \in 1..Len(t) /\ k - 1 + 1 = k
          BY <1>3, <1>4, <3>1, <4>2
        <5>2. x[k - 1 + 1] = p[k - 1] /\ y[k - 1 + 1] = t[k - 1]
          BY <1>3, <5>1
        <5> QED
          BY <3>1, <5>1, <5>2
      <4> QED
        BY <4>1, <4>2
    <3>3. Len(x) <= Len(y)
      BY <1>3, <1>4, <3>1
    <3> QED
      BY <3>2, <3>3 DEF Begins
  <2> QED
    BY <2>1, <2>2
<1>6. (IsPrefix(x, y) <=> Begins(x, y)) /\ (IsPrefix(p, t) <=> Begins(p, t))
  BY PrefixByBytes
<1> QED
  BY <1>2, <1>5, <1>6

(* And an empty text begins with nothing but nothing.                      *)
LEMMA PrefixOfEmpty ==
    ASSUME NEW S, NEW t \in Seq(S), NEW d \in S
    PROVE  ~IsPrefix(Cons(d, t), <<>>) /\ IsPrefix(<<>>, t)
<1>1. PICK e \in Seq(S) : e = <<>> /\ Len(e) = 0
  BY EmptySeq
<1>2. PICK x \in Seq(S) : x = Cons(d, t) /\ Len(x) = Len(t) + 1
  BY ConsIs
<1>3. Len(t) \in Nat
  BY LenProperties
<1>4. ~Begins(x, e) /\ Begins(e, t)
  BY <1>1, <1>2, <1>3 DEF Begins
<1>5. ~IsPrefix(x, e) /\ IsPrefix(e, t)
  BY <1>4, PrefixByBytes
<1> QED
  BY <1>1, <1>2, <1>5

(* What has a byte and then a text is the text with the byte before it.    *)
LEMMA ConsIf ==
    ASSUME NEW S, NEW a \in S, NEW u \in Seq(S), NEW w \in Seq(S), Len(w) = Len(u) + 1, w[1] = a,
           \A k \in 1..Len(u) : w[k + 1] = u[k]
    PROVE  Cons(a, u) = w
<1>1. PICK v \in Seq(S) : v = Cons(a, u)
  BY ConsIs
<1>2. /\ Len(Cons(a, u)) = Len(u) + 1 /\ Cons(a, u)[1] = a
      /\ \A k \in 1..Len(u) : Cons(a, u)[k + 1] = u[k]
  BY ConsIs
<1>3. Len(v) = Len(u) + 1 /\ v[1] = a /\ \A k \in 1..Len(u) : v[k + 1] = u[k]
  BY <1>1, <1>2
<1>4. ASSUME NEW k \in 1..Len(w) PROVE w[k] = v[k]
  <2>1. CASE k = 1
    BY <1>3, <2>1
  <2>2. CASE k # 1
    <3>1. k - 1 \in 1..Len(u) /\ k - 1 + 1 = k
      BY <2>2, LenProperties
    <3> QED
      BY <1>3, <3>1
  <2> QED
    BY <2>1, <2>2
<1> QED
  BY <1>1, <1>3, <1>4, SeqEqual

(* A byte put before a few others.                                         *)
LEMMA ConsTuples ==
    ASSUME NEW S
    PROVE  /\ \A a \in S : Cons(a, <<>>) = <<a>>
           /\ \A a, b \in S : Cons(a, <<b>>) = <<a, b>>
           /\ \A a, b, c \in S : Cons(a, <<b, c>>) = <<a, b, c>>
           /\ \A a, b, c, d \in S : Cons(a, <<b, c, d>>) = <<a, b, c, d>>
<1>2. \A a \in S : Cons(a, <<>>) = <<a>>
  BY DEF Cons
<1>3. \A a, b \in S : Cons(a, <<b>>) = <<a, b>>
  <2>1. ASSUME NEW a \in S, NEW b \in S PROVE Cons(a, <<b>>) = <<a, b>>
    <3>1. PICK u, w : u = <<b>> /\ w = <<a, b>>
      OBVIOUS
    <3>2. /\ u \in Seq(S) /\ w \in Seq(S) /\ Len(w) = Len(u) + 1 /\ w[1] = a
          /\ \A k \in 1..Len(u) : w[k + 1] = u[k]
      BY <3>1
    <3> QED
      BY <3>1, <3>2, ConsIf
  <2> QED
    BY <2>1
<1>4. \A a, b, c \in S : Cons(a, <<b, c>>) = <<a, b, c>>
  <2>1. ASSUME NEW a \in S, NEW b \in S, NEW c \in S PROVE Cons(a, <<b, c>>) = <<a, b, c>>
    <3>1. PICK u, w : u = <<b, c>> /\ w = <<a, b, c>>
      OBVIOUS
    <3>2. /\ u \in Seq(S) /\ w \in Seq(S) /\ Len(w) = Len(u) + 1 /\ w[1] = a
          /\ \A k \in 1..Len(u) : w[k + 1] = u[k]
      BY <3>1
    <3> QED
      BY <3>1, <3>2, ConsIf
  <2> QED
    BY <2>1
<1>5. \A a, b, c, d \in S : Cons(a, <<b, c, d>>) = <<a, b, c, d>>
  <2>1. ASSUME NEW a \in S, NEW b \in S, NEW c \in S, NEW d \in S PROVE Cons(a, <<b, c, d>>) = <<a, b, c, d>>
    <3>1. PICK u, w : u = <<b, c, d>> /\ w = <<a, b, c, d>>
      OBVIOUS
    <3>2. /\ u \in Seq(S) /\ w \in Seq(S) /\ Len(w) = Len(u) + 1 /\ w[1] = a
          /\ \A k \in 1..Len(u) : w[k + 1] = u[k]
      BY <3>1
    <3> QED
      BY <3>1, <3>2, ConsIf
  <2> QED
    BY <2>1
<1> QED
  BY <1>2, <1>3, <1>4, <1>5

(* The literals of the reference, byte by byte.                            *)
LEMMA Literals ==
    /\ <<LF>> = Cons(LF, <<>>) /\ <<CR, LF>> = Cons(CR, <<LF>>)
    /\ <<CR, LF, DOT>> = Cons(CR, Cons(LF, Cons(DOT, <<>>)))
    /\ <<CR, LF, DOT, CR, LF>> = Cons(CR, Cons(LF, Cons(DOT, Cons(CR, Cons(LF, <<>>)))))
    /\ <<CR, LF, EQ, Y>> = Cons(CR, Cons(LF, Cons(EQ, Cons(Y, <<>>))))
    /\ <<EQ, Y>> = Cons(EQ, Cons(Y, <<>>))
    /\ <<DOT, CR, LF>> = Cons(DOT, Cons(CR, Cons(LF, <<>>)))
    /\ <<DOT>> = Cons(DOT, <<>>)
<1>1. CR \in Char /\ LF \in Char /\ DOT \in Char /\ EQ \in Char /\ Y \in Char
  BY DEF Char, Special
<1>2. Cons(LF, <<>>) = <<LF>> /\ Cons(DOT, <<>>) = <<DOT>> /\ Cons(Y, <<>>) = <<Y>>
  BY <1>1, ConsTuples
<1>3. Cons(CR, <<LF>>) = <<CR, LF>> /\ Cons(LF, <<DOT>>) = <<LF, DOT>> /\ Cons(EQ, <<Y>>) = <<EQ, Y>>
  BY <1>1, ConsTuples
<1>a. \A a, b, c \in Char : Cons(a, <<b, c>>) = <<a, b, c>>
  BY ConsTuples
<1>b. \A a, b, c, d \in Char : Cons(a, <<b, c, d>>) = <<a, b, c, d>>
  BY ConsTuples
<1>4. /\ Cons(CR, <<LF, DOT>>) = <<CR, LF, DOT>> /\ Cons(DOT, <<CR, LF>>) = <<DOT, CR, LF>>
      /\ Cons(LF, <<EQ, Y>>) = <<LF, EQ, Y>>
  BY <1>1, <1>a
<1>5. Cons(CR, <<LF, EQ, Y>>) = <<CR, LF, EQ, Y>> /\ Cons(LF, <<DOT, CR, LF>>) = <<LF, DOT, CR, LF>>
  BY <1>1, <1>b
<1>6. Cons(CR, <<LF, DOT, CR, LF>>) = <<CR, LF, DOT, CR, LF>>
  <2>1. PICK u, w : u = <<LF, DOT, CR, LF>> /\ w = <<CR, LF, DOT, CR, LF>>
    OBVIOUS
  <2>2. /\ u \in Seq(Char) /\ w \in Seq(Char) /\ Len(w) = Len(u) + 1 /\ w[1] = CR
        /\ \A k \in 1..Len(u) : w[k + 1] = u[k]
    BY <1>1, <2>1
  <2> QED
    BY <1>1, <2>1, <2>2, ConsIf
<1> QED
  BY <1>2, <1>3, <1>4, <1>5, <1>6

-----------------------------------------------------------------------------
(* The functions exist, and give texts.                                    *)

(* What is left of a text is shorter.                                      *)
LEMMA DropIsShorter ==
    ASSUME NEW t \in Seq(Char), NEW n \in Nat, n <= Len(t), 0 < n
    PROVE  Drop(t, n) \in Seq(Char) /\ Len(Drop(t, n)) < Len(t)
<1>1. Len(t) \in Nat /\ \A k \in (n + 1)..Len(t) : t[k] \in Char
  BY ElementOfSeq, LenProperties
<1>2. PICK w : w = SubSeq(t, n + 1, Len(t))
  OBVIOUS
<1>3. w \in Seq(Char) /\ Len(w) = IF n + 1 <= Len(t) THEN Len(t) - (n + 1) + 1 ELSE 0
  BY <1>1, <1>2, SubSeqProperties
<1> QED
  BY <1>1, <1>2, <1>3 DEF Drop

LEMMA UndoingExists == ASSUME NEW findEnd PROVE Undoing(Undone(findEnd), findEnd)
<1> DEFINE G == [Seq(Char) -> Seq(Char)]
           Dots(t) == IsPrefix(<<CR, LF, DOT>>, t)
           Stops(t)  == findEnd /\ IsPrefix(<<CR, LF, DOT, CR, LF>>, t)
           B(f, t) == IF t = <<>> THEN <<>>
                      ELSE IF ~Dots(t) THEN <<Head(t)>> \o f[Tail(t)]
                      ELSE IF Stops(t) THEN <<CR, LF>>
                      ELSE <<CR, LF>> \o f[Drop(t, 3)]
           body == [q \in G \X Seq(Char) |-> B(q[1], q[2])]
<1>1. CR \in Char /\ LF \in Char
  BY DEF Char, Special
<1>2. <<CR, LF>> \in Seq(Char)
  BY <1>1
<1>3. ASSUME NEW t \in Seq(Char), t # <<>>
      PROVE  Head(t) \in Char /\ Tail(t) \in Seq(Char) /\ Len(Tail(t)) < Len(t)
  BY <1>3, HeadTailProperties, LenProperties
<1>4. ASSUME NEW t \in Seq(Char), Dots(t)
      PROVE  Drop(t, 3) \in Seq(Char) /\ Len(Drop(t, 3)) < Len(t)
  <2>1. Len(<<CR, LF, DOT>>) <= Len(t)
    BY <1>4 DEF IsPrefix
  <2>2. 3 <= Len(t)
    BY <2>1
  <2> QED
    BY <2>2, DropIsShorter
<1> HIDE DEF Dots, Stops
<1>5. ASSUME NEW f \in G, NEW t \in Seq(Char) PROVE B(f, t) \in Seq(Char)
  <2>1. CASE t = <<>>
    BY <2>1, EmptySeq
  <2>2. CASE t # <<>> /\ ~Dots(t)
    <3>1. PICK h \in Char, u \in Seq(Char) : h = Head(t) /\ u = f[Tail(t)]
      BY <1>3, <2>2
    <3>2. <<h>> \o u \in Seq(Char)
      <4>1. <<h>> \in Seq(Char)
        OBVIOUS
      <4> QED
        BY <4>1, ConcatProperties
    <3> QED
      BY <2>2, <3>1, <3>2
  <2>3. CASE t # <<>> /\ Dots(t)
    <3>1. PICK u \in Seq(Char) : u = f[Drop(t, 3)]
      BY <1>4, <2>3
    <3>2. <<CR, LF>> \o u \in Seq(Char)
      BY <1>2, ConcatProperties
    <3> QED
      BY <1>2, <2>3, <3>1, <3>2
  <2> QED
    BY <2>1, <2>2, <2>3
<1>6. ASSUME NEW f \in G, NEW g \in G, NEW t \in Seq(Char), AgreeBelow(Char, f, g, Len(t))
      PROVE  B(f, t) = B(g, t)
  BY <1>3, <1>4, <1>6 DEF AgreeBelow
<1> HIDE DEF B
<1>7. body \in Bodies(Char, Seq(Char)) /\ AsksShorter(Char, Seq(Char), body)
  <2>1. \A f \in G, t \in Seq(Char) : body[<<f, t>>] = B(f, t)
    OBVIOUS
  <2>2. body \in [G \X Seq(Char) -> Seq(Char)]
    BY <1>5
  <2> HIDE DEF body
  <2>3. body \in Bodies(Char, Seq(Char))
    BY <2>2 DEF Bodies
  <2>4. ASSUME NEW f \in G, NEW g \in G, NEW t \in Seq(Char), AgreeBelow(Char, f, g, Len(t))
        PROVE  body[<<f, t>>] = body[<<g, t>>]
    <3>1. B(f, t) = B(g, t)
      BY <1>6, <2>4
    <3> QED
      BY <2>1, <3>1
  <2> QED
    BY <2>3, <2>4 DEF AsksShorter
<1>8. PICK F \in G : \A t \in Seq(Char) : F[t] = body[<<F, t>>]
  <2>1. <<>> \in Seq(Char)
    BY EmptySeq
  <2> HIDE DEF body
  <2>2. HasRecursive(Char, Seq(Char), body)
    BY <1>7, <2>1, TextRecursion
  <2> QED
    BY <2>2 DEF HasRecursive
<1>9. F = [t \in Seq(Char) |-> B(F, t)]
  BY <1>8
<1> USE DEF B, Dots, Stops
<1>10. Undoing(F, findEnd)
  BY <1>9 DEF Undoing
<1> QED
  BY <1>10, Zenon DEF Undone

(* What is undone is a text.                                               *)
LEMMA UndoType ==
    ASSUME NEW s \in Seq(Char), NEW findEnd
    PROVE  UndoStuffing(s, findEnd) \in Seq(Char)
<1> DEFINE f == Undone(findEnd)
           G == {t \in Seq(Char) : f[t] \in Seq(Char)}
<1>1. f = [t \in Seq(Char) |->
          IF t = <<>> THEN <<>>
          ELSE IF ~IsPrefix(<<CR, LF, DOT>>, t) THEN <<Head(t)>> \o f[Tail(t)]
          ELSE IF findEnd /\ IsPrefix(<<CR, LF, DOT, CR, LF>>, t) THEN <<CR, LF>>
          ELSE <<CR, LF>> \o f[Drop(t, 3)]]
  BY UndoingExists DEF Undoing
<1> HIDE DEF f
<1>2. ASSUME NEW t \in Seq(Char), \A u \in Seq(Char) : Len(u) < Len(t) => u \in G
      PROVE  t \in G
  <2>0. CR \in Char /\ LF \in Char
    BY DEF Char, Special
  <2>1. CASE t = <<>>
    BY <1>1, <2>1, EmptySeq
  <2>2. CASE t # <<>> /\ ~IsPrefix(<<CR, LF, DOT>>, t)
    <3>0. Head(t) \in Char /\ Tail(t) \in Seq(Char) /\ Len(Tail(t)) < Len(t)
      BY <2>2, HeadTailProperties, LenProperties
    <3>1. PICK h \in Char, v \in Seq(Char) : h = Head(t) /\ v = Tail(t) /\ Len(v) < Len(t)
      BY <3>0
    <3>2. PICK u \in Seq(Char) : u = f[v]
      BY <1>2, <3>1
    <3>3. <<h>> \in Seq(Char)
      OBVIOUS
    <3>4. <<h>> \o u \in Seq(Char)
      BY <3>3, ConcatProperties
    <3>5. f[t] = <<h>> \o u
      BY <1>1, <2>2, <3>1, <3>2
    <3> QED
      BY <3>4, <3>5
  <2>3. CASE t # <<>> /\ IsPrefix(<<CR, LF, DOT>>, t)
    <3>1. Len(<<CR, LF, DOT>>) <= Len(t)
      BY <2>3 DEF IsPrefix
    <3>2. 3 <= Len(t)
      BY <3>1
    <3>3. PICK v \in Seq(Char) : v = Drop(t, 3) /\ Len(v) < Len(t)
      BY <3>2, DropIsShorter
    <3>4. PICK u \in Seq(Char) : u = f[v]
      BY <1>2, <3>3
    <3>5. <<CR, LF>> \in Seq(Char)
      BY <2>0
    <3>6. <<CR, LF>> \o u \in Seq(Char)
      BY <3>5, ConcatProperties
    <3>7. f[t] = <<CR, LF>> \/ f[t] = <<CR, LF>> \o u
      BY <1>1, <2>3, <3>3, <3>4
    <3> QED
      BY <3>5, <3>6, <3>7
  <2> QED
    BY <2>1, <2>2, <2>3
<1>3. Seq(Char) \subseteq G
  <2> HIDE DEF G
  <2> QED
    BY <1>2, ShorterInduction
<1> QED
  BY <1>3, ByFunctions DEF f

LEMMA UnescapingExists == ASSUME NEW findEnd PROVE Unescaping(Unescaped(findEnd), findEnd)
<1> DEFINE G == [Seq(Char) -> Seq(Byte)]
           Stops(t)  == findEnd /\ IsPrefix(<<CR, LF, EQ, Y>>, t)
           n(t)    == IF t[2] = CR THEN 1 ELSE 2
           B(f, t) == IF t = <<>> \/ Stops(t) THEN <<>>
                      ELSE IF Head(t) \in {CR, LF} THEN f[Tail(t)]
                      ELSE IF Head(t) # EQ THEN <<Plain(Head(t))>> \o f[Tail(t)]
                      ELSE IF Len(t) = 1 THEN <<>>
                      ELSE <<Escaped(t[2])>> \o f[Drop(t, n(t))]
           body == [q \in G \X Seq(Char) |-> B(q[1], q[2])]
<1>1. ASSUME NEW t \in Seq(Char), t # <<>>
      PROVE  Head(t) \in Char /\ Tail(t) \in Seq(Char) /\ Len(Tail(t)) < Len(t)
  BY <1>1, HeadTailProperties, LenProperties
<1>2. ASSUME NEW t \in Seq(Char), t # <<>>, Len(t) # 1
      PROVE  t[2] \in Char /\ Drop(t, n(t)) \in Seq(Char) /\ Len(Drop(t, n(t))) < Len(t)
  <2>1. Len(t) \in Nat /\ Len(t) >= 2
    BY <1>2, EmptySeq, LenProperties
  <2>2. t[2] \in Char
    BY <2>1, ElementOfSeq
  <2>3. n(t) \in Nat /\ n(t) <= Len(t) /\ 0 < n(t)
    BY <2>1
  <2> HIDE DEF n
  <2> QED
    BY <2>2, <2>3, DropIsShorter
<1>3. ASSUME NEW c \in Char PROVE Plain(c) \in Byte /\ Escaped(c) \in Byte
  BY DEF Plain, Escaped, Byte
<1> HIDE DEF Stops, n
<1>4. ASSUME NEW b \in Byte, NEW u \in Seq(Byte) PROVE <<b>> \o u \in Seq(Byte)
  <2>1. <<b>> \in Seq(Byte)
    OBVIOUS
  <2> QED
    BY <2>1, ConcatProperties
<1>5. ASSUME NEW f \in G, NEW t \in Seq(Char) PROVE B(f, t) \in Seq(Byte)
  <2>1. CASE t = <<>> \/ Stops(t)
    BY <2>1, EmptySeq
  <2>2. CASE ~(t = <<>> \/ Stops(t)) /\ Head(t) \in {CR, LF}
    BY <1>1, <2>2
  <2>3. CASE ~(t = <<>> \/ Stops(t)) /\ Head(t) \notin {CR, LF} /\ Head(t) # EQ
    <3>1. PICK b \in Byte, u \in Seq(Byte) : b = Plain(Head(t)) /\ u = f[Tail(t)]
      BY <1>1, <1>3, <2>3
    <3>2. <<b>> \o u \in Seq(Byte)
      BY <1>4
    <3> QED
      BY <2>3, <3>1, <3>2
  <2>4. CASE ~(t = <<>> \/ Stops(t)) /\ Head(t) \notin {CR, LF} /\ Head(t) = EQ /\ Len(t) = 1
    BY <2>4, EmptySeq
  <2>5. CASE ~(t = <<>> \/ Stops(t)) /\ Head(t) \notin {CR, LF} /\ Head(t) = EQ /\ Len(t) # 1
    <3>1. PICK b \in Byte, u \in Seq(Byte) : b = Escaped(t[2]) /\ u = f[Drop(t, n(t))]
      BY <1>2, <1>3, <2>5
    <3>2. <<b>> \o u \in Seq(Byte)
      BY <1>4
    <3> QED
      BY <2>5, <3>1, <3>2
  <2> QED
    BY <2>1, <2>2, <2>3, <2>4, <2>5
<1>6. ASSUME NEW f \in G, NEW g \in G, NEW t \in Seq(Char), AgreeBelow(Char, f, g, Len(t))
      PROVE  B(f, t) = B(g, t)
  BY <1>1, <1>2, <1>6 DEF AgreeBelow
<1> HIDE DEF B
<1>7. body \in Bodies(Char, Seq(Byte)) /\ AsksShorter(Char, Seq(Byte), body)
  <2>1. \A f \in G, t \in Seq(Char) : body[<<f, t>>] = B(f, t)
    OBVIOUS
  <2>2. body \in [G \X Seq(Char) -> Seq(Byte)]
    BY <1>5
  <2> HIDE DEF body
  <2>3. body \in Bodies(Char, Seq(Byte))
    BY <2>2 DEF Bodies
  <2>4. ASSUME NEW f \in G, NEW g \in G, NEW t \in Seq(Char), AgreeBelow(Char, f, g, Len(t))
        PROVE  body[<<f, t>>] = body[<<g, t>>]
    <3>1. B(f, t) = B(g, t)
      BY <1>6, <2>4
    <3> QED
      BY <2>1, <3>1
  <2> QED
    BY <2>3, <2>4 DEF AsksShorter
<1>8. PICK F \in G : \A t \in Seq(Char) : F[t] = body[<<F, t>>]
  <2>1. <<>> \in Seq(Byte)
    BY EmptySeq
  <2> HIDE DEF body
  <2>2. HasRecursive(Char, Seq(Byte), body)
    BY <1>7, <2>1, TextRecursion
  <2> QED
    BY <2>2 DEF HasRecursive
<1>9. F = [t \in Seq(Char) |-> B(F, t)]
  BY <1>8
<1> USE DEF B, Stops, n
<1>10. Unescaping(F, findEnd)
  BY <1>9 DEF Unescaping
<1> QED
  BY <1>10, Zenon DEF Unescaped

(* What it decodes to are bytes.                                           *)
LEMMA UnescapeType ==
    ASSUME NEW s \in Seq(Char), NEW findEnd
    PROVE  Unescape(s, findEnd) \in Seq(Byte)
<1> DEFINE f == Unescaped(findEnd)
           G == {t \in Seq(Char) : f[t] \in Seq(Byte)}
<1>1. f = [t \in Seq(Char) |->
          IF t = <<>> \/ (findEnd /\ IsPrefix(<<CR, LF, EQ, Y>>, t)) THEN <<>>
          ELSE IF Head(t) \in {CR, LF} THEN f[Tail(t)]
          ELSE IF Head(t) # EQ THEN <<Plain(Head(t))>> \o f[Tail(t)]
          ELSE IF Len(t) = 1 THEN <<>>
          ELSE <<Escaped(t[2])>> \o f[Drop(t, IF t[2] = CR THEN 1 ELSE 2)]]
  BY UnescapingExists DEF Unescaping
<1> HIDE DEF f
<1>2. ASSUME NEW b \in Byte, NEW u \in Seq(Byte) PROVE <<b>> \o u \in Seq(Byte)
  <2>1. <<b>> \in Seq(Byte)
    OBVIOUS
  <2> QED
    BY <2>1, ConcatProperties
<1>3. ASSUME NEW t \in Seq(Char), \A u \in Seq(Char) : Len(u) < Len(t) => u \in G
      PROVE  t \in G
  <2> DEFINE Stops == findEnd /\ IsPrefix(<<CR, LF, EQ, Y>>, t)
             n   == IF t[2] = CR THEN 1 ELSE 2
  <2>1. f[t] = IF t = <<>> \/ Stops THEN <<>>
               ELSE IF Head(t) \in {CR, LF} THEN f[Tail(t)]
               ELSE IF Head(t) # EQ THEN <<Plain(Head(t))>> \o f[Tail(t)]
               ELSE IF Len(t) = 1 THEN <<>>
               ELSE <<Escaped(t[2])>> \o f[Drop(t, n)]
    BY <1>1
  <2> HIDE DEF Stops
  <2>2. <<>> \in Seq(Byte)
    BY EmptySeq
  <2>3. CASE t # <<>>
    <3>1. Head(t) \in Char /\ Tail(t) \in Seq(Char) /\ Len(Tail(t)) < Len(t)
      BY <2>3, HeadTailProperties, LenProperties
    <3>2. PICK u \in Seq(Byte), b \in Byte : u = f[Tail(t)] /\ b = Plain(Head(t))
      BY <1>3, <3>1 DEF Plain, Byte
    <3>3. <<b>> \o u \in Seq(Byte)
      BY <1>2
    <3>4. CASE Head(t) = EQ /\ Len(t) # 1
      <4>z. PICK k \in Nat : k = Len(t)
        BY LenProperties
      <4>y. k # 0 /\ k # 1
        BY <2>3, <3>4, <4>z, EmptySeq
      <4>x. k >= 2
        BY <4>y
      <4>0. Len(t) \in Nat /\ Len(t) >= 2
        BY <4>z, <4>x
      <4>2. t[2] \in Char
        BY <4>0, ElementOfSeq
      <4>3. n \in Nat /\ n <= Len(t) /\ 0 < n
        BY <4>0
      <4> HIDE DEF n
      <4>a. PICK w \in Seq(Char) : w = Drop(t, n) /\ Len(w) < Len(t)
        BY <4>3, DropIsShorter
      <4>b. f[w] \in Seq(Byte)
        BY <1>3, <4>a
      <4>c. Escaped(t[2]) \in Byte
        BY <4>2 DEF Escaped, Byte
      <4>4. PICK v \in Seq(Byte), e \in Byte : v = f[Drop(t, n)] /\ e = Escaped(t[2])
        BY <4>a, <4>b, <4>c
      <4>5. <<e>> \o v \in Seq(Byte)
        BY <1>2
      <4>6. f[t] \in {<<>>, u, <<b>> \o u, <<e>> \o v}
        BY <2>1, <3>2, <4>4
      <4> QED
        BY <2>2, <3>3, <4>5, <4>6
    <3>5. CASE ~(Head(t) = EQ /\ Len(t) # 1)
      <4> HIDE DEF n
      <4>1. f[t] \in {<<>>, u, <<b>> \o u}
        BY <2>1, <3>2, <3>5
      <4> QED
        BY <2>2, <3>3, <4>1
    <3> QED
      BY <3>4, <3>5
  <2> QED
    BY <2>1, <2>2, <2>3
<1>4. Seq(Char) \subseteq G
  <2> HIDE DEF G
  <2> QED
    BY <1>3, ShorterInduction
<1> QED
  BY <1>4, ByFunctions DEF f

-----------------------------------------------------------------------------
(* The reference decoder by the first bytes of the text.                   *)

(* What is left after the first byte, and after none.                      *)
LEMMA DropOfCons ==
    ASSUME NEW c \in Char, NEW t \in Seq(Char), NEW n \in Nat, n <= Len(t)
    PROVE  Drop(Cons(c, t), n + 1) = Drop(t, n) /\ Drop(t, 0) = t
<1>1. PICK u \in Seq(Char) : u = Cons(c, t)
  BY ConsIs
<1>2. Len(u) = Len(t) + 1 /\ \A k \in 1..Len(t) : u[k + 1] = t[k]
  <2>1. /\ Len(Cons(c, t)) = Len(t) + 1
        /\ \A k \in 1..Len(t) : Cons(c, t)[k + 1] = t[k]
    BY ConsIs
  <2> QED
    BY <1>1, <2>1
<1>3. PICK m \in Nat : m = Len(t)
  BY LenProperties
<1>4. Drop(t, 0) = t
  BY SubSeqFull DEF Drop
<1>5. PICK a, b : a = SubSeq(u, n + 1 + 1, m + 1) /\ b = SubSeq(t, n + 1, m)
  OBVIOUS
<1>6. \A k \in (n + 1)..m : t[k] \in Char
  BY <1>3, ElementOfSeq
<1>7. \A k \in (n + 1 + 1)..(m + 1) : u[k] \in Char
  BY <1>2, <1>3, ElementOfSeq
<1>8. /\ b \in Seq(Char) /\ Len(b) = m - n
      /\ \A k \in 1..(m - n) : b[k] = t[n + k]
  <2>1. /\ b \in Seq(Char) /\ Len(b) = IF n + 1 <= m THEN m - (n + 1) + 1 ELSE 0
        /\ \A k \in 1..(m - (n + 1) + 1) : b[k] = t[(n + 1) + k - 1]
    BY <1>3, <1>5, <1>6, SubSeqProperties
  <2> QED
    BY <1>3, <2>1
<1>9. /\ a \in Seq(Char) /\ Len(a) = m - n
      /\ \A k \in 1..(m - n) : a[k] = t[n + k]
  <2>1. /\ a \in Seq(Char) /\ Len(a) = IF n + 1 + 1 <= m + 1 THEN m + 1 - (n + 1 + 1) + 1 ELSE 0
        /\ \A k \in 1..(m + 1 - (n + 1 + 1) + 1) : a[k] = u[(n + 1 + 1) + k - 1]
    BY <1>3, <1>5, <1>7, SubSeqProperties
  <2>2. ASSUME NEW k \in 1..(m - n) PROVE a[k] = t[n + k]
    <3>1. n + k \in 1..m /\ (n + 1 + 1) + k - 1 = n + k + 1 /\ k \in 1..(m + 1 - (n + 1 + 1) + 1)
      BY <1>3
    <3>2. a[k] = u[n + k + 1]
      BY <2>1, <3>1
    <3>3. u[n + k + 1] = t[n + k]
      BY <1>2, <1>3, <3>1
    <3> QED
      BY <3>2, <3>3
  <2> QED
    BY <1>3, <2>1, <2>2
<1>10. a = b
  BY <1>8, <1>9, SeqEqual
<1> QED
  BY <1>1, <1>2, <1>3, <1>4, <1>5, <1>10 DEF Drop

LEMMA Drops ==
    ASSUME NEW c \in Char, NEW d \in Char, NEW e \in Char, NEW t \in Seq(Char)
    PROVE  /\ Drop(Cons(c, t), 1) = t
           /\ Drop(Cons(c, Cons(d, t)), 2) = t
           /\ Drop(Cons(c, Cons(d, Cons(e, t))), 3) = t
<1>1. PICK v \in Seq(Char) : v = Cons(e, t) /\ Len(v) = Len(t) + 1
  BY ConsIs
<1>2. PICK w \in Seq(Char) : w = Cons(d, v) /\ Len(w) = Len(v) + 1
  BY ConsIs
<1>3. PICK x \in Seq(Char) : x = Cons(d, t) /\ Len(x) = Len(t) + 1
  BY ConsIs
<1>4. Len(t) \in Nat
  BY LenProperties
<1>5. Drop(Cons(c, t), 0 + 1) = Drop(t, 0) /\ Drop(t, 0) = t
  BY <1>4, DropOfCons
<1>6. Drop(x, 0 + 1) = Drop(t, 0) /\ Drop(Cons(c, x), 1 + 1) = Drop(x, 1)
  BY <1>3, <1>4, DropOfCons
<1>7. Drop(v, 0 + 1) = Drop(t, 0) /\ Drop(w, 1 + 1) = Drop(v, 1) /\ Drop(Cons(c, w), 2 + 1) = Drop(w, 2)
  <2>1. Drop(v, 0 + 1) = Drop(t, 0)
    BY <1>1, <1>4, DropOfCons
  <2>2. 1 <= Len(v) /\ 2 <= Len(w)
    BY <1>1, <1>2, <1>4
  <2>3. Drop(w, 1 + 1) = Drop(v, 1)
    BY <1>2, <2>2, DropOfCons
  <2>4. Drop(Cons(c, w), 2 + 1) = Drop(w, 2)
    BY <2>2, DropOfCons
  <2> QED
    BY <2>1, <2>3, <2>4
<1> QED
  BY <1>1, <1>2, <1>3, <1>5, <1>6, <1>7

LEMMA Chars == CR \in Char /\ LF \in Char /\ DOT \in Char /\ EQ \in Char /\ Y \in Char
  BY DEF Char, Special

(* Two bytes before a text, one by one.                                    *)
LEMMA ConsPair ==
    ASSUME NEW S, NEW c \in S, NEW d \in S, NEW t \in Seq(S)
    PROVE  <<c, d>> \o t = Cons(c, Cons(d, t))
<1>1. <<c>> \in Seq(S) /\ <<d>> \in Seq(S)
  OBVIOUS
<1>2. <<c>> \o <<d>> = <<c, d>>
  <2>1. Cons(c, <<d>>) = <<c, d>>
    BY ConsTuples
  <2> QED
    BY <2>1 DEF Cons
<1>3. (<<c>> \o <<d>>) \o t = <<c>> \o (<<d>> \o t)
  BY <1>1, ConcatAssociative
<1> QED
  BY <1>2, <1>3 DEF Cons

\* What the definitions make of a text, by its first bytes.
UndoesCons(fe, c, t) ==
    UndoStuffing(Cons(c, t), fe) =
      IF ~IsPrefix(<<CR, LF, DOT>>, Cons(c, t)) THEN Cons(c, UndoStuffing(t, fe))
      ELSE IF fe /\ IsPrefix(<<CR, LF, DOT, CR, LF>>, Cons(c, t)) THEN <<CR, LF>>
      ELSE <<CR, LF>> \o UndoStuffing(Drop(Cons(c, t), 3), fe)

LEMMA UndoingCons ==
    ASSUME NEW fe, NEW c \in Char, NEW t \in Seq(Char)
    PROVE  UndoStuffing(<<>>, fe) = <<>> /\ UndoesCons(fe, c, t)
<1> DEFINE f == Undone(fe)
<1>1. f = [x \in Seq(Char) |->
          IF x = <<>> THEN <<>>
          ELSE IF ~IsPrefix(<<CR, LF, DOT>>, x) THEN <<Head(x)>> \o f[Tail(x)]
          ELSE IF fe /\ IsPrefix(<<CR, LF, DOT, CR, LF>>, x) THEN <<CR, LF>>
          ELSE <<CR, LF>> \o f[Drop(x, 3)]]
  BY UndoingExists DEF Undoing
<1>2. \A x : UndoStuffing(x, fe) = f[x]
  BY ByFunctions
<1> HIDE DEF f
<1>3. PICK u \in Seq(Char) : u = Cons(c, t) /\ u # <<>> /\ Head(u) = c /\ Tail(u) = t
  BY ConsIs
<1>4. f[u] = IF ~IsPrefix(<<CR, LF, DOT>>, u) THEN <<c>> \o f[t]
             ELSE IF fe /\ IsPrefix(<<CR, LF, DOT, CR, LF>>, u) THEN <<CR, LF>>
             ELSE <<CR, LF>> \o f[Drop(u, 3)]
  BY <1>1, <1>3
<1>5. f[<<>>] = <<>>
  BY <1>1, EmptySeq
<1> QED
  BY <1>2, <1>3, <1>4, <1>5 DEF UndoesCons, Cons

UnescapesCons(fe, c, t) ==
    Unescape(Cons(c, t), fe) =
      IF fe /\ IsPrefix(<<CR, LF, EQ, Y>>, Cons(c, t)) THEN <<>>
      ELSE IF c \in {CR, LF} THEN Unescape(t, fe)
      ELSE IF c # EQ THEN Cons(Plain(c), Unescape(t, fe))
      ELSE IF Len(Cons(c, t)) = 1 THEN <<>>
      ELSE Cons(Escaped(Cons(c, t)[2]),
                Unescape(Drop(Cons(c, t), IF Cons(c, t)[2] = CR THEN 1 ELSE 2), fe))

LEMMA UnescapingCons ==
    ASSUME NEW fe, NEW c \in Char, NEW t \in Seq(Char)
    PROVE  Unescape(<<>>, fe) = <<>> /\ UnescapesCons(fe, c, t)
<1> DEFINE f == Unescaped(fe)
           n(x) == IF x[2] = CR THEN 1 ELSE 2
<1>1. f = [x \in Seq(Char) |->
          IF x = <<>> \/ (fe /\ IsPrefix(<<CR, LF, EQ, Y>>, x)) THEN <<>>
          ELSE IF Head(x) \in {CR, LF} THEN f[Tail(x)]
          ELSE IF Head(x) # EQ THEN <<Plain(Head(x))>> \o f[Tail(x)]
          ELSE IF Len(x) = 1 THEN <<>>
          ELSE <<Escaped(x[2])>> \o f[Drop(x, n(x))]]
  BY UnescapingExists DEF Unescaping
<1>2. \A x : Unescape(x, fe) = f[x]
  BY ByFunctions
<1> HIDE DEF f
<1>3. PICK u \in Seq(Char) : u = Cons(c, t) /\ u # <<>> /\ Head(u) = c /\ Tail(u) = t
  BY ConsIs
<1>4. f[u] = IF fe /\ IsPrefix(<<CR, LF, EQ, Y>>, u) THEN <<>>
             ELSE IF c \in {CR, LF} THEN f[t]
             ELSE IF c # EQ THEN <<Plain(c)>> \o f[t]
             ELSE IF Len(u) = 1 THEN <<>>
             ELSE <<Escaped(u[2])>> \o f[Drop(u, n(u))]
  BY <1>1, <1>3
<1>5. f[<<>>] = <<>>
  BY <1>1, EmptySeq
<1>6. Cons(Plain(c), f[t]) = <<Plain(c)>> \o f[t]
      /\ Cons(Escaped(u[2]), f[Drop(u, n(u))]) = <<Escaped(u[2])>> \o f[Drop(u, n(u))]
  BY DEF Cons
<1>7. UnescapesCons(fe, c, t)
  BY <1>2, <1>3, <1>4, <1>6 DEF UnescapesCons
<1> QED
  BY <1>2, <1>5, <1>7

(* The dots: only what follows a line end is looked at.                    *)
LEMMA UndoEmpty == ASSUME NEW fe PROVE UndoStuffing(<<>>, fe) = <<>>
<1>1. <<>> \in Seq(Char)
  BY EmptySeq
<1> QED
  BY <1>1, Chars, UndoingCons

LEMMA UndoOther ==
    ASSUME NEW fe, NEW c \in Char, NEW t \in Seq(Char),
           c # CR \/ ~IsPrefix(Cons(LF, Cons(DOT, <<>>)), t)
    PROVE  UndoStuffing(Cons(c, t), fe) = Cons(c, UndoStuffing(t, fe))
<1>1. PICK p \in Seq(Char) : p = Cons(LF, Cons(DOT, <<>>))
  <2>1. <<>> \in Seq(Char)
    BY EmptySeq
  <2>2. Cons(DOT, <<>>) \in Seq(Char)
    BY <2>1, Chars, ConsIs
  <2> QED
    BY <2>2, Chars, ConsIs
<1>2. IsPrefix(Cons(CR, p), Cons(c, t)) <=> c = CR /\ IsPrefix(p, t)
  BY Chars, PrefixOfCons
<1>3. ~IsPrefix(<<CR, LF, DOT>>, Cons(c, t))
  BY <1>1, <1>2, Literals
<1> QED
  BY <1>3, UndoingCons DEF UndoesCons

LEMMA UndoDot ==
    ASSUME NEW fe, NEW t \in Seq(Char)
    PROVE  UndoStuffing(Cons(CR, Cons(LF, Cons(DOT, t))), fe)
             = IF fe /\ IsPrefix(Cons(CR, Cons(LF, <<>>)), t) THEN Cons(CR, Cons(LF, <<>>))
               ELSE Cons(CR, Cons(LF, UndoStuffing(t, fe)))
<1> DEFINE Line == Cons(CR, Cons(LF, <<>>))
<1>1. PICK e \in Seq(Char) : e = <<>>
  BY EmptySeq
<1>2. PICK l \in Seq(Char) : l = Line
  BY <1>1, Chars, ConsIs
<1> HIDE DEF Line
<1>3. PICK x \in Seq(Char) : x = Cons(DOT, t)
  BY Chars, ConsIs
<1>4. PICK y \in Seq(Char) : y = Cons(LF, x)
  BY Chars, ConsIs
<1>5. PICK u \in Seq(Char) : u = UndoStuffing(t, fe)
  BY UndoType
<1>6. IsPrefix(<<CR, LF, DOT>>, Cons(CR, y))
  <2>1. PICK p \in Seq(Char) : p = Cons(DOT, e)
    BY Chars, ConsIs
  <2>2. PICK q \in Seq(Char) : q = Cons(LF, p)
    BY Chars, ConsIs
  <2>3. IsPrefix(e, t)
    BY <1>1, Chars, PrefixOfEmpty
  <2>4. IsPrefix(p, x)
    BY <2>1, <2>3, <1>3, Chars, PrefixOfCons
  <2>5. IsPrefix(q, y)
    BY <2>2, <2>4, <1>4, Chars, PrefixOfCons
  <2>6. IsPrefix(Cons(CR, q), Cons(CR, y))
    BY <2>5, Chars, PrefixOfCons
  <2> QED
    BY <2>1, <2>2, <2>6, <1>1, Literals
<1>7. IsPrefix(<<CR, LF, DOT, CR, LF>>, Cons(CR, y)) <=> IsPrefix(l, t)
  <2>1. PICK p \in Seq(Char) : p = Cons(DOT, l)
    BY Chars, ConsIs
  <2>2. PICK q \in Seq(Char) : q = Cons(LF, p)
    BY Chars, ConsIs
  <2>4. IsPrefix(p, x) <=> IsPrefix(l, t)
    BY <2>1, <1>3, Chars, PrefixOfCons
  <2>5. IsPrefix(q, y) <=> IsPrefix(p, x)
    BY <2>2, <1>4, Chars, PrefixOfCons
  <2>6. IsPrefix(Cons(CR, q), Cons(CR, y)) <=> IsPrefix(q, y)
    BY Chars, PrefixOfCons
  <2>7. Cons(CR, q) = <<CR, LF, DOT, CR, LF>>
    BY <2>1, <2>2, <1>2, Literals DEF Line
  <2> QED
    BY <2>4, <2>5, <2>6, <2>7
<1>8. Drop(Cons(CR, y), 3) = t
  BY <1>3, <1>4, Chars, Drops
<1>9. <<CR, LF>> = l /\ <<CR, LF>> \o u = Cons(CR, Cons(LF, u))
  <2>1. <<CR, LF>> \o u = Cons(CR, Cons(LF, u))
    BY Chars, ConsPair
  <2>2. <<CR, LF>> = l
    BY <1>2, Literals DEF Line
  <2> QED
    BY <2>1, <2>2
<1>10. UndoesCons(fe, CR, y)
  BY Chars, UndoingCons
<1> QED
  BY <1>2, <1>3, <1>4, <1>5, <1>6, <1>7, <1>8, <1>9, <1>10 DEF UndoesCons, Line

(* The escapes and the line ends.                                          *)
LEMMA UnescapeEmpty == ASSUME NEW fe PROVE Unescape(<<>>, fe) = <<>>
<1>1. <<>> \in Seq(Char)
  BY EmptySeq
<1> QED
  BY <1>1, Chars, UnescapingCons

LEMMA UnescapeOther ==
    ASSUME NEW fe, NEW c \in Char, NEW t \in Seq(Char), c # CR, c # EQ
    PROVE  Unescape(Cons(c, t), fe)
             = IF c = LF THEN Unescape(t, fe) ELSE Cons(Plain(c), Unescape(t, fe))
<1>1. PICK p \in Seq(Char) : p = Cons(LF, Cons(EQ, Cons(Y, <<>>)))
  <2>1. <<>> \in Seq(Char)
    BY EmptySeq
  <2>2. Cons(Y, <<>>) \in Seq(Char)
    BY <2>1, Chars, ConsIs
  <2>3. Cons(EQ, Cons(Y, <<>>)) \in Seq(Char)
    BY <2>2, Chars, ConsIs
  <2> QED
    BY <2>3, Chars, ConsIs
<1>2. IsPrefix(Cons(CR, p), Cons(c, t)) <=> c = CR /\ IsPrefix(p, t)
  BY Chars, PrefixOfCons
<1>3. ~IsPrefix(<<CR, LF, EQ, Y>>, Cons(c, t))
  BY <1>1, <1>2, Literals
<1>4. UnescapesCons(fe, c, t)
  BY UnescapingCons
<1> QED
  BY <1>3, <1>4 DEF UnescapesCons

LEMMA UnescapeLine ==
    ASSUME NEW fe, NEW t \in Seq(Char)
    PROVE  Unescape(Cons(CR, t), fe)
             = IF fe /\ IsPrefix(Cons(LF, Cons(EQ, Cons(Y, <<>>))), t) THEN <<>> ELSE Unescape(t, fe)
<1>1. PICK p \in Seq(Char) : p = Cons(LF, Cons(EQ, Cons(Y, <<>>)))
  <2>1. <<>> \in Seq(Char)
    BY EmptySeq
  <2>2. Cons(Y, <<>>) \in Seq(Char)
    BY <2>1, Chars, ConsIs
  <2>3. Cons(EQ, Cons(Y, <<>>)) \in Seq(Char)
    BY <2>2, Chars, ConsIs
  <2> QED
    BY <2>3, Chars, ConsIs
<1>2. IsPrefix(Cons(CR, p), Cons(CR, t)) <=> IsPrefix(p, t)
  BY Chars, PrefixOfCons
<1>3. Cons(CR, p) = <<CR, LF, EQ, Y>>
  BY <1>1, Literals
<1>4. UnescapesCons(fe, CR, t)
  BY Chars, UnescapingCons
<1> QED
  BY <1>1, <1>2, <1>3, <1>4 DEF UnescapesCons

LEMMA UnescapeEscape ==
    ASSUME NEW fe, NEW c \in Char, NEW t \in Seq(Char)
    PROVE  /\ Unescape(Cons(EQ, <<>>), fe) = <<>>
           /\ Unescape(Cons(EQ, Cons(c, t)), fe)
                = Cons(Escaped(c), IF c = CR THEN Unescape(Cons(CR, t), fe) ELSE Unescape(t, fe))
<1>1. PICK p \in Seq(Char) : p = Cons(LF, Cons(EQ, Cons(Y, <<>>)))
  <2>1. <<>> \in Seq(Char)
    BY EmptySeq
  <2>2. Cons(Y, <<>>) \in Seq(Char)
    BY <2>1, Chars, ConsIs
  <2>3. Cons(EQ, Cons(Y, <<>>)) \in Seq(Char)
    BY <2>2, Chars, ConsIs
  <2> QED
    BY <2>3, Chars, ConsIs
<1>2. Cons(CR, p) = <<CR, LF, EQ, Y>>
  BY <1>1, Literals
<1>3. EQ # CR /\ EQ # LF
  BY DEF EQ, CR, LF
<1>4. ASSUME NEW x \in Seq(Char) PROVE ~IsPrefix(<<CR, LF, EQ, Y>>, Cons(EQ, x))
  <2>1. IsPrefix(Cons(CR, p), Cons(EQ, x)) <=> EQ = CR /\ IsPrefix(p, x)
    BY Chars, PrefixOfCons
  <2> QED
    BY <1>2, <1>3, <2>1
<1>5. PICK e \in Seq(Char) : e = <<>> /\ Len(e) = 0
  BY EmptySeq
<1>6. PICK x \in Seq(Char) : x = Cons(c, t) /\ Len(x) = Len(t) + 1 /\ x[1] = c
  BY ConsIs
<1>7. Unescape(Cons(EQ, e), fe) = <<>>
  <2>1. Len(Cons(EQ, e)) = Len(e) + 1
    BY Chars, ConsIs
  <2>2. UnescapesCons(fe, EQ, e)
    BY Chars, UnescapingCons
  <2> QED
    BY <1>3, <1>4, <1>5, <2>1, <2>2 DEF UnescapesCons
<1>8. PICK y \in Seq(Char) : y = Cons(EQ, x) /\ Len(y) = Len(x) + 1 /\ \A k \in 1..Len(x) : y[k + 1] = x[k]
  BY Chars, ConsIs
<1>9. Len(y) # 1 /\ y[2] = c
  <2>1. PICK k \in Nat : k = Len(t)
    BY LenProperties
  <2>2. 1 \in 1..Len(x) /\ Len(x) = k + 1
    BY <1>6, <2>1
  <2>3. y[1 + 1] = x[1]
    BY <1>8, <2>2
  <2> QED
    BY <1>6, <1>8, <2>2, <2>3
<1>10. Drop(y, 1) = x /\ Drop(y, 2) = t
  BY <1>6, <1>8, Chars, Drops
<1>11. UnescapesCons(fe, EQ, x)
  BY Chars, UnescapingCons
<1>12. Unescape(y, fe) = Cons(Escaped(c), Unescape(Drop(y, IF c = CR THEN 1 ELSE 2), fe))
  BY <1>3, <1>4, <1>8, <1>9, <1>11 DEF UnescapesCons
<1>13. CASE c = CR
  BY <1>5, <1>6, <1>7, <1>8, <1>10, <1>12, <1>13
<1>14. CASE c # CR
  BY <1>5, <1>6, <1>7, <1>8, <1>10, <1>12, <1>14
<1> QED
  BY <1>13, <1>14

-----------------------------------------------------------------------------
(* The two layers together, one byte after another.                        *)

DecodesTo(t, fe) == Unescape(UndoStuffing(t, fe), fe)

ControlStart == Cons(EQ, Cons(Y, <<>>))

LEMMA ControlStartIs ==
    /\ ControlStart \in Seq(Char)
    /\ \A c \in Char, t \in Seq(Char) :
          /\ c # EQ => ~IsPrefix(ControlStart, Cons(c, t))
          /\ ~IsPrefix(ControlStart, Cons(EQ, <<>>))
          /\ IsPrefix(ControlStart, Cons(EQ, Cons(c, t))) <=> c = Y
<1>1. PICK e \in Seq(Char) : e = <<>>
  BY EmptySeq
<1>2. PICK y \in Seq(Char) : y = Cons(Y, e)
  BY Chars, ConsIs
<1>3. PICK p \in Seq(Char) : p = Cons(EQ, y)
  BY Chars, ConsIs
<1>4. ASSUME NEW c \in Char, NEW t \in Seq(Char)
      PROVE  /\ c # EQ => ~IsPrefix(p, Cons(c, t))
             /\ ~IsPrefix(p, Cons(EQ, e))
             /\ IsPrefix(p, Cons(EQ, Cons(c, t))) <=> c = Y
  <2>1. IsPrefix(p, Cons(c, t)) <=> c = EQ /\ IsPrefix(y, t)
    BY <1>3, Chars, PrefixOfCons
  <2>2. IsPrefix(p, Cons(EQ, e)) <=> IsPrefix(y, e)
    BY <1>3, Chars, PrefixOfCons
  <2>3. ~IsPrefix(y, e)
    BY <1>1, <1>2, Chars, PrefixOfEmpty
  <2>4. PICK x \in Seq(Char) : x = Cons(c, t)
    BY ConsIs
  <2>5. IsPrefix(p, Cons(EQ, x)) <=> IsPrefix(y, x)
    BY <1>3, Chars, PrefixOfCons
  <2>6. IsPrefix(y, x) <=> c = Y /\ IsPrefix(e, t)
    BY <1>2, <2>4, Chars, PrefixOfCons
  <2>7. IsPrefix(e, t)
    BY <1>1, Chars, PrefixOfEmpty
  <2> QED
    BY <2>1, <2>2, <2>3, <2>4, <2>5, <2>6, <2>7
<1> QED
  BY <1>1, <1>2, <1>3, <1>4 DEF ControlStart

(* The first byte of a text stays its first when the dots are undone.      *)
LEMMA UndoHead ==
    ASSUME NEW fe, NEW c \in Char, NEW t \in Seq(Char)
    PROVE  \E w \in Seq(Char) : UndoStuffing(Cons(c, t), fe) = Cons(c, w)
<1>1. CASE c # CR \/ ~IsPrefix(Cons(LF, Cons(DOT, <<>>)), t)
  <2>1. UndoStuffing(Cons(c, t), fe) = Cons(c, UndoStuffing(t, fe))
    BY <1>1, UndoOther
  <2>2. UndoStuffing(t, fe) \in Seq(Char)
    BY UndoType
  <2> QED
    BY <2>1, <2>2
<1>2. CASE c = CR /\ IsPrefix(Cons(LF, Cons(DOT, <<>>)), t)
  <2>1. PICK x \in Seq(Char) : x = Cons(c, t)
    BY ConsIs
  <2>2. CASE ~IsPrefix(<<CR, LF, DOT>>, x)
    <3>1. UndoStuffing(Cons(c, t), fe) = Cons(c, UndoStuffing(t, fe))
      BY <2>1, <2>2, UndoingCons DEF UndoesCons
    <3>2. UndoStuffing(t, fe) \in Seq(Char)
      BY UndoType
    <3> QED
      BY <3>1, <3>2
  <2>3. CASE IsPrefix(<<CR, LF, DOT>>, x)
    <3>1. Len(<<CR, LF, DOT>>) <= Len(x)
      BY <2>3 DEF IsPrefix
    <3>2. 3 <= Len(x)
      BY <3>1
    <3>3. Drop(x, 3) \in Seq(Char)
      BY <3>2, DropIsShorter
    <3>4. PICK u \in Seq(Char) : u = UndoStuffing(Drop(x, 3), fe)
      BY <3>3, UndoType
    <3>5. UndoStuffing(x, fe) = <<CR, LF>> \/ UndoStuffing(x, fe) = <<CR, LF>> \o u
      BY <2>1, <2>3, <3>4, UndoingCons DEF UndoesCons
    <3>6. <<CR, LF>> \o u = Cons(CR, Cons(LF, u)) /\ Cons(LF, u) \in Seq(Char)
      <4>1. <<CR, LF>> \o u = Cons(CR, Cons(LF, u))
        BY Chars, ConsPair
      <4>2. Cons(LF, u) \in Seq(Char)
        BY Chars, ConsIs
      <4> QED
        BY <4>1, <4>2
    <3>7. <<CR, LF>> = Cons(CR, <<LF>>) /\ <<LF>> \in Seq(Char)
      BY Chars, Literals
    <3>8. CASE UndoStuffing(x, fe) = <<CR, LF>>
      BY <1>2, <2>1, <3>7, <3>8
    <3>9. CASE UndoStuffing(x, fe) = <<CR, LF>> \o u
      BY <1>2, <2>1, <3>6, <3>9
    <3> QED
      BY <3>5, <3>8, <3>9
  <2> QED
    BY <2>2, <2>3
<1> QED
  BY <1>1, <1>2

(* A line end and what follows it.                                         *)
LEMMA UnescapeAfterLine ==
    ASSUME NEW fe, NEW w \in Seq(Char)
    PROVE  Unescape(Cons(CR, Cons(LF, w)), fe)
             = IF fe /\ IsPrefix(ControlStart, w) THEN <<>> ELSE Unescape(w, fe)
<1>1. PICK x \in Seq(Char) : x = Cons(LF, w)
  BY Chars, ConsIs
<1>2. PICK p \in Seq(Char) : p = ControlStart
  BY ControlStartIs
<1>3. IsPrefix(Cons(LF, p), x) <=> IsPrefix(p, w)
  BY <1>1, Chars, PrefixOfCons
<1>4. Unescape(Cons(CR, x), fe) = IF fe /\ IsPrefix(Cons(LF, p), x) THEN <<>> ELSE Unescape(x, fe)
  BY <1>2, UnescapeLine DEF ControlStart
<1>5. LF # CR /\ LF # EQ
  BY DEF LF, CR, EQ
<1>6. Unescape(x, fe) = Unescape(w, fe)
  BY <1>1, <1>5, Chars, UnescapeOther
<1> QED
  BY <1>1, <1>2, <1>3, <1>4, <1>6

LEMMA DecodesToType ==
    ASSUME NEW t \in Seq(Char), NEW fe
    PROVE  DecodesTo(t, fe) \in Seq(Byte)
<1>1. UndoStuffing(t, fe) \in Seq(Char)
  BY UndoType
<1> QED
  BY <1>1, UnescapeType DEF DecodesTo

(* A byte that starts nothing.                                             *)
LEMMA DecodePlain ==
    ASSUME NEW fe, NEW c \in Char, NEW t \in Seq(Char), c # CR, c # EQ
    PROVE  DecodesTo(Cons(c, t), fe)
             = IF c = LF THEN DecodesTo(t, fe) ELSE Cons(Plain(c), DecodesTo(t, fe))
<1>1. PICK u \in Seq(Char) : u = UndoStuffing(t, fe)
  BY UndoType
<1>2. UndoStuffing(Cons(c, t), fe) = Cons(c, u)
  BY <1>1, UndoOther
<1>3. Unescape(Cons(c, u), fe) = IF c = LF THEN Unescape(u, fe) ELSE Cons(Plain(c), Unescape(u, fe))
  BY UnescapeOther
<1> QED
  BY <1>1, <1>2, <1>3 DEF DecodesTo

(* An escape.                                                              *)
LEMMA DecodeEscape ==
    ASSUME NEW fe, NEW c \in Char, NEW t \in Seq(Char)
    PROVE  DecodesTo(Cons(EQ, Cons(c, t)), fe)
             = Cons(Escaped(c), IF c = CR THEN DecodesTo(Cons(CR, t), fe) ELSE DecodesTo(t, fe))
<1>1. PICK x \in Seq(Char) : x = Cons(c, t)
  BY ConsIs
<1>2. EQ # CR
  BY DEF EQ, CR
<1>3. PICK w \in Seq(Char) : UndoStuffing(x, fe) = Cons(c, w)
  BY <1>1, UndoHead
<1>4. UndoStuffing(Cons(EQ, x), fe) = Cons(EQ, Cons(c, w))
  BY <1>2, <1>3, Chars, UndoOther
<1>5. DecodesTo(Cons(EQ, x), fe)
        = Cons(Escaped(c), IF c = CR THEN Unescape(Cons(CR, w), fe) ELSE Unescape(w, fe))
  BY <1>4, UnescapeEscape DEF DecodesTo
<1>6. CASE c = CR
  <2>1. Unescape(Cons(CR, w), fe) = DecodesTo(Cons(CR, t), fe)
    BY <1>1, <1>3, <1>6 DEF DecodesTo
  <2> QED
    BY <1>1, <1>5, <1>6, <2>1
<1>7. CASE c # CR
  <2>1. UndoStuffing(x, fe) = Cons(c, UndoStuffing(t, fe))
    BY <1>1, <1>7, UndoOther
  <2>2. PICK u \in Seq(Char) : u = UndoStuffing(t, fe)
    BY UndoType
  <2>3. w = u
    <3>1. Tail(Cons(c, w)) = w
      BY ConsIs
    <3>2. Tail(Cons(c, u)) = u
      BY ConsIs
    <3> QED
      BY <1>3, <2>1, <2>2, <3>1, <3>2
  <2> QED
    BY <1>1, <1>5, <1>7, <2>2, <2>3 DEF DecodesTo
<1> QED
  BY <1>6, <1>7

(* A \r with no \n after it.                                               *)
LEMMA DecodeReturn ==
    ASSUME NEW fe, NEW c \in Char, NEW t \in Seq(Char), c # LF
    PROVE  DecodesTo(Cons(CR, Cons(c, t)), fe) = DecodesTo(Cons(c, t), fe)
<1>0. PICK d \in Seq(Char) : d = Cons(DOT, <<>>)
  BY Chars, EmptySeq, ConsIs
<1>1. PICK x \in Seq(Char) : x = Cons(c, t)
  BY ConsIs
<1>2. ~IsPrefix(Cons(LF, d), x)
  <2>1. IsPrefix(Cons(LF, d), Cons(c, t)) <=> c = LF /\ IsPrefix(d, t)
    BY Chars, PrefixOfCons
  <2> QED
    BY <1>1, <2>1
<1>3. UndoStuffing(Cons(CR, x), fe) = Cons(CR, UndoStuffing(x, fe))
  BY <1>0, <1>2, Chars, UndoOther
<1>4. PICK w \in Seq(Char) : UndoStuffing(x, fe) = Cons(c, w)
  BY <1>1, UndoHead
<1>5. PICK p \in Seq(Char) : p = ControlStart
  BY ControlStartIs
<1>6. ~IsPrefix(Cons(LF, p), Cons(c, w))
  <2>1. IsPrefix(Cons(LF, p), Cons(c, w)) <=> c = LF /\ IsPrefix(p, w)
    BY Chars, PrefixOfCons
  <2> QED
    BY <2>1
<1>7. PICK y \in Seq(Char) : y = Cons(c, w)
  BY ConsIs
<1>8. Unescape(Cons(CR, y), fe) = Unescape(y, fe)
  BY <1>5, <1>6, <1>7, UnescapeLine DEF ControlStart
<1> QED
  BY <1>1, <1>3, <1>4, <1>7, <1>8 DEF DecodesTo

(* A line end with no dot after it.                                        *)
LEMMA UndoLine ==
    ASSUME NEW fe, NEW t \in Seq(Char), ~IsPrefix(Cons(DOT, <<>>), t)
    PROVE  UndoStuffing(Cons(CR, Cons(LF, t)), fe) = Cons(CR, Cons(LF, UndoStuffing(t, fe)))
<1>0. PICK d \in Seq(Char) : d = Cons(DOT, <<>>)
  BY Chars, EmptySeq, ConsIs
<1>1. PICK x \in Seq(Char) : x = Cons(LF, t)
  BY Chars, ConsIs
<1>2. IsPrefix(Cons(LF, d), x) <=> IsPrefix(d, t)
  BY <1>1, Chars, PrefixOfCons
<1>3. UndoStuffing(Cons(CR, x), fe) = Cons(CR, UndoStuffing(x, fe))
  BY <1>0, <1>2, Chars, UndoOther
<1>4. LF # CR
  BY DEF LF, CR
<1>5. UndoStuffing(x, fe) = Cons(LF, UndoStuffing(t, fe))
  BY <1>1, <1>4, Chars, UndoOther
<1> QED
  BY <1>1, <1>3, <1>5

\* What is decoded right after a line end.
AtLine(t, fe) == IF fe /\ IsPrefix(ControlStart, UndoStuffing(t, fe)) THEN <<>> ELSE DecodesTo(t, fe)

LEMMA DecodeLine ==
    ASSUME NEW fe, NEW t \in Seq(Char), ~IsPrefix(Cons(DOT, <<>>), t)
    PROVE  DecodesTo(Cons(CR, Cons(LF, t)), fe) = AtLine(t, fe)
<1>1. PICK u \in Seq(Char) : u = UndoStuffing(t, fe)
  BY UndoType
<1>2. UndoStuffing(Cons(CR, Cons(LF, t)), fe) = Cons(CR, Cons(LF, u))
  BY <1>1, UndoLine
<1>3. Unescape(Cons(CR, Cons(LF, u)), fe) = IF fe /\ IsPrefix(ControlStart, u) THEN <<>> ELSE Unescape(u, fe)
  BY UnescapeAfterLine
<1> QED
  BY <1>1, <1>2, <1>3 DEF AtLine, DecodesTo

LEMMA DecodeDot ==
    ASSUME NEW fe, NEW t \in Seq(Char)
    PROVE  DecodesTo(Cons(CR, Cons(LF, Cons(DOT, t))), fe)
             = IF fe /\ IsPrefix(Cons(CR, Cons(LF, <<>>)), t) THEN <<>> ELSE AtLine(t, fe)
<1>1. PICK u \in Seq(Char) : u = UndoStuffing(t, fe)
  BY UndoType
<1>2. PICK x : x = Cons(CR, Cons(LF, Cons(DOT, t)))
  OBVIOUS
<1>3. CASE fe /\ IsPrefix(Cons(CR, Cons(LF, <<>>)), t)
  <2>1. PICK e \in Seq(Char) : e = <<>>
    BY EmptySeq
  <2>2. UndoStuffing(x, fe) = Cons(CR, Cons(LF, e))
    BY <1>2, <1>3, <2>1, UndoDot
  <2>3. Unescape(Cons(CR, Cons(LF, e)), fe) = IF fe /\ IsPrefix(ControlStart, e) THEN <<>> ELSE Unescape(e, fe)
    BY UnescapeAfterLine
  <2>4. Unescape(e, fe) = <<>>
    BY <2>1, UnescapeEmpty
  <2> QED
    BY <1>2, <1>3, <2>2, <2>3, <2>4 DEF DecodesTo
<1>4. CASE ~(fe /\ IsPrefix(Cons(CR, Cons(LF, <<>>)), t))
  <2>2. UndoStuffing(x, fe) = Cons(CR, Cons(LF, u))
    BY <1>1, <1>2, <1>4, UndoDot
  <2>3. Unescape(Cons(CR, Cons(LF, u)), fe) = IF fe /\ IsPrefix(ControlStart, u) THEN <<>> ELSE Unescape(u, fe)
    BY UnescapeAfterLine
  <2> QED
    BY <1>1, <1>2, <1>4, <2>2, <2>3 DEF DecodesTo, AtLine
<1> QED
  BY <1>3, <1>4

(* Nothing is decoded of nothing, and of an = or a \r alone.               *)
LEMMA DecodeNothing ==
    ASSUME NEW fe
    PROVE  /\ DecodesTo(<<>>, fe) = <<>> /\ AtLine(<<>>, fe) = <<>>
           /\ DecodesTo(Cons(EQ, <<>>), fe) = <<>> /\ AtLine(Cons(EQ, <<>>), fe) = <<>>
           /\ DecodesTo(Cons(CR, <<>>), fe) = <<>>
<1>1. PICK e \in Seq(Char) : e = <<>>
  BY EmptySeq
<1>2. UndoStuffing(e, fe) = e /\ Unescape(e, fe) = <<>>
  BY <1>1, UndoEmpty, UnescapeEmpty
<1>3. EQ # CR /\ LF # CR
  BY DEF EQ, CR, LF
<1>4. PICK d \in Seq(Char) : d = Cons(DOT, e)
  BY Chars, ConsIs
<1>5. UndoStuffing(Cons(EQ, e), fe) = Cons(EQ, e)
  BY <1>2, <1>3, Chars, UndoOther
<1>6. UndoStuffing(Cons(CR, e), fe) = Cons(CR, e)
  <2>1. ~IsPrefix(Cons(LF, d), e)
    BY <1>1, Chars, PrefixOfEmpty
  <2> QED
    BY <1>1, <1>2, <1>4, <2>1, Chars, UndoOther
<1>7. Unescape(Cons(EQ, e), fe) = <<>>
  BY <1>1, Chars, UnescapeEscape
<1>8. Unescape(Cons(CR, e), fe) = <<>>
  <2>1. PICK p \in Seq(Char) : p = ControlStart
    BY ControlStartIs
  <2>2. Unescape(Cons(CR, e), fe) = IF fe /\ IsPrefix(Cons(LF, p), e) THEN <<>> ELSE Unescape(e, fe)
    BY <2>1, UnescapeLine DEF ControlStart
  <2> QED
    BY <1>2, <2>2
<1> QED
  BY <1>1, <1>2, <1>5, <1>6, <1>7, <1>8 DEF AtLine, DecodesTo

(* Only a =y at a line end is not decoded as anywhere else.                *)
LEMMA DecodeAtLine ==
    ASSUME NEW fe, NEW c \in Char, NEW t \in Seq(Char)
    PROVE  /\ c # EQ => AtLine(Cons(c, t), fe) = DecodesTo(Cons(c, t), fe)
           /\ AtLine(Cons(EQ, Cons(c, t)), fe)
                = IF fe /\ c = Y THEN <<>> ELSE DecodesTo(Cons(EQ, Cons(c, t)), fe)
<1>1. PICK w \in Seq(Char) : UndoStuffing(Cons(c, t), fe) = Cons(c, w)
  BY UndoHead
<1>2. PICK x \in Seq(Char) : x = Cons(c, t)
  BY ConsIs
<1>3. EQ # CR
  BY DEF EQ, CR
<1>4. UndoStuffing(Cons(EQ, x), fe) = Cons(EQ, Cons(c, w))
  BY <1>1, <1>2, <1>3, Chars, UndoOther
<1>5. c # EQ => ~IsPrefix(ControlStart, Cons(c, w))
  BY ControlStartIs
<1>6. IsPrefix(ControlStart, Cons(EQ, Cons(c, w))) <=> c = Y
  BY ControlStartIs
<1> QED
  BY <1>1, <1>2, <1>4, <1>5, <1>6 DEF AtLine

-----------------------------------------------------------------------------
(* The bytes that a context stands for.                                    *)

\* The text that is left to decode, for a stream that has reached a context.
Pending(ctx, t) ==
    CASE ctx = "NONE"     -> t
      [] ctx = "EQ"       -> Cons(EQ, t)
      [] ctx = "CR"       -> Cons(CR, t)
      [] ctx = "CRLF"     -> Cons(CR, Cons(LF, t))
      [] ctx = "CRLFDT"   -> Cons(CR, Cons(LF, Cons(DOT, t)))
      [] ctx = "CRLFDTCR" -> Cons(CR, Cons(LF, Cons(DOT, Cons(CR, t))))
      [] ctx = "CRLFEQ"   -> Cons(CR, Cons(LF, Cons(EQ, t)))

LEMMA PendingIs ==
    ASSUME NEW t
    PROVE  /\ Pending("NONE", t) = t /\ Pending("EQ", t) = Cons(EQ, t) /\ Pending("CR", t) = Cons(CR, t)
           /\ Pending("CRLF", t) = Cons(CR, Cons(LF, t))
           /\ Pending("CRLFDT", t) = Cons(CR, Cons(LF, Cons(DOT, t)))
           /\ Pending("CRLFDTCR", t) = Cons(CR, Cons(LF, Cons(DOT, Cons(CR, t))))
           /\ Pending("CRLFEQ", t) = Cons(CR, Cons(LF, Cons(EQ, t)))
  BY DEF Pending

LEMMA PendingType ==
    ASSUME NEW t \in Seq(Char), NEW ctx \in State
    PROVE  Pending(ctx, t) \in Seq(Char)
<1>1. \A c \in Char, u \in Seq(Char) : Cons(c, u) \in Seq(Char)
  BY ConsIs
<1> QED
  BY <1>1, Chars DEF Pending, State

LEMMA CharsDiffer ==
    /\ CR # LF /\ CR # DOT /\ CR # EQ /\ CR # Y /\ LF # DOT /\ LF # EQ /\ LF # Y
    /\ DOT # EQ /\ DOT # Y /\ EQ # Y
  BY DEF CR, LF, DOT, EQ, Y

\* What is decoded of one byte and then of the rest.
Then(b, rest, fe) == b \o DecodesTo(rest, fe)

LEMMA ThenIs ==
    ASSUME NEW fe, NEW t \in Seq(Char), NEW b
    PROVE  /\ Then(<<>>, t, fe) = DecodesTo(t, fe)
           /\ Then(<<b>>, t, fe) = Cons(b, DecodesTo(t, fe))
<1>1. PICK r \in Seq(Byte) : r = DecodesTo(t, fe)
  BY DecodesToType
<1>2. <<>> \o r = r
  BY ConcatEmptySeq
<1> QED
  BY <1>1, <1>2 DEF Then, Cons

(* The automaton, context by context.                                      *)
LEMMA EndTable ==
    ASSUME NEW c
    PROVE  /\ Emit("NONE", c) = (IF c \in {CR, LF, EQ} THEN <<>> ELSE <<Plain(c)>>)
           /\ Goto("NONE", c) = AfterPlain(c) /\ ~EndsData("NONE", c)
           /\ Emit("EQ", c) = <<Escaped(c)>> /\ Goto("EQ", c) = (IF c = CR THEN "CR" ELSE "NONE")
           /\ ~EndsData("EQ", c)
           /\ Emit("CR", c) = Emit("NONE", c) /\ Goto("CR", c) = (IF c = LF THEN "CRLF" ELSE AfterPlain(c))
           /\ ~EndsData("CR", c)
           /\ Emit("CRLF", c) = (IF c = DOT THEN <<>> ELSE Emit("NONE", c)) /\ ~EndsData("CRLF", c)
           /\ Goto("CRLF", c) = (IF c = DOT THEN "CRLFDT" ELSE IF c = EQ THEN "CRLFEQ" ELSE AfterPlain(c))
           /\ Emit("CRLFDT", c) = Emit("NONE", c) /\ ~EndsData("CRLFDT", c)
           /\ Goto("CRLFDT", c) = (IF c = CR THEN "CRLFDTCR" ELSE IF c = EQ THEN "CRLFEQ" ELSE AfterPlain(c))
           /\ Emit("CRLFDTCR", c) = Emit("NONE", c) /\ (EndsData("CRLFDTCR", c) <=> c = LF)
           /\ c # LF => Goto("CRLFDTCR", c) = AfterPlain(c)
           /\ Emit("CRLFEQ", c) = (IF c = Y THEN <<>> ELSE Emit("EQ", c)) /\ (EndsData("CRLFEQ", c) <=> c = Y)
           /\ c # Y => Goto("CRLFEQ", c) = Goto("EQ", c)
  BY CharsDiffer DEF Emit, Goto, EndsData, IsEscaped, IsStuffing

LEMMA RawTable ==
    ASSUME NEW c
    PROVE  /\ RawEmit("NONE", c) = Emit("NONE", c) /\ RawGoto("NONE", c) = AfterPlain(c)
           /\ RawEmit("EQ", c) = Emit("EQ", c) /\ RawGoto("EQ", c) = Goto("EQ", c)
           /\ RawEmit("CR", c) = Emit("NONE", c)
           /\ RawGoto("CR", c) = (IF c = LF THEN "CRLF" ELSE AfterPlain(c))
           /\ RawEmit("CRLF", c) = (IF c = DOT THEN <<>> ELSE Emit("NONE", c))
           /\ RawGoto("CRLF", c) = (IF c = DOT THEN "NONE" ELSE AfterPlain(c))
  BY CharsDiffer DEF RawEmit, RawGoto, Emit, Goto, EndsData, IsEscaped, IsStuffing

(* In the middle of a line.                                                *)
LEMMA StepNone ==
    ASSUME NEW fe, NEW c \in Char, NEW t \in Seq(Char)
    PROVE  DecodesTo(Cons(c, t), fe) = Then(Emit("NONE", c), Pending(AfterPlain(c), t), fe)
<1>1. Emit("NONE", c) = IF c \in {CR, LF, EQ} THEN <<>> ELSE <<Plain(c)>>
  BY EndTable
<1>2. CASE c = CR \/ c = EQ
  <2>1. Pending(AfterPlain(c), t) = Cons(c, t)
    BY <1>2, CharsDiffer, PendingIs DEF AfterPlain
  <2>2. Cons(c, t) \in Seq(Char)
    BY ConsIs
  <2>3. Then(<<>>, Cons(c, t), fe) = DecodesTo(Cons(c, t), fe)
    BY <2>2, ThenIs
  <2> QED
    BY <1>1, <1>2, <2>1, <2>3
<1>3. CASE c # CR /\ c # EQ
  <2>1. Pending(AfterPlain(c), t) = t
    BY <1>3, PendingIs DEF AfterPlain
  <2>2. DecodesTo(Cons(c, t), fe) = IF c = LF THEN DecodesTo(t, fe) ELSE Cons(Plain(c), DecodesTo(t, fe))
    BY <1>3, DecodePlain
  <2>3. Then(<<>>, t, fe) = DecodesTo(t, fe) /\ Then(<<Plain(c)>>, t, fe) = Cons(Plain(c), DecodesTo(t, fe))
    BY ThenIs
  <2> QED
    BY <1>1, <1>3, <2>1, <2>2, <2>3
<1> QED
  BY <1>2, <1>3

(* After an =.                                                             *)
LEMMA StepEscape ==
    ASSUME NEW fe, NEW c \in Char, NEW t \in Seq(Char)
    PROVE  DecodesTo(Cons(EQ, Cons(c, t)), fe) = Then(Emit("EQ", c), Pending(Goto("EQ", c), t), fe)
<1>1. Emit("EQ", c) = <<Escaped(c)>> /\ Goto("EQ", c) = IF c = CR THEN "CR" ELSE "NONE"
  BY EndTable
<1>2. DecodesTo(Cons(EQ, Cons(c, t)), fe)
        = Cons(Escaped(c), IF c = CR THEN DecodesTo(Cons(CR, t), fe) ELSE DecodesTo(t, fe))
  BY DecodeEscape
<1>3. PICK x \in Seq(Char) : x = Pending(Goto("EQ", c), t)
  <2>1. Goto("EQ", c) \in State
    BY <1>1 DEF State
  <2> QED
    BY <2>1, PendingType
<1>4. Then(<<Escaped(c)>>, x, fe) = Cons(Escaped(c), DecodesTo(x, fe))
  BY ThenIs
<1>5. x = IF c = CR THEN Cons(CR, t) ELSE t
  BY <1>1, <1>3, PendingIs
<1> QED
  BY <1>1, <1>2, <1>3, <1>4, <1>5

(* After a \r.                                                             *)
LEMMA StepReturn ==
    ASSUME NEW fe, NEW c \in Char, NEW t \in Seq(Char)
    PROVE  DecodesTo(Cons(CR, Cons(c, t)), fe)
             = Then(Emit("NONE", c), Pending(IF c = LF THEN "CRLF" ELSE AfterPlain(c), t), fe)
<1>1. CASE c = LF
  <2>1. Emit("NONE", c) = <<>>
    BY <1>1, EndTable
  <2>2. PICK x \in Seq(Char) : x = Pending("CRLF", t)
    BY PendingType DEF State
  <2>3. Then(<<>>, x, fe) = DecodesTo(x, fe)
    BY ThenIs
  <2>4. x = Cons(CR, Cons(LF, t))
    BY <2>2, PendingIs
  <2> QED
    BY <1>1, <2>1, <2>2, <2>3, <2>4
<1>2. CASE c # LF
  <2>1. DecodesTo(Cons(CR, Cons(c, t)), fe) = DecodesTo(Cons(c, t), fe)
    BY <1>2, DecodeReturn
  <2> QED
    BY <1>2, <2>1, StepNone
<1> QED
  BY <1>1, <1>2

(* At the start of a line.                                                 *)
LEMMA StepLine ==
    ASSUME NEW fe, NEW c \in Char, NEW t \in Seq(Char), c # EQ
    PROVE  AtLine(Cons(c, t), fe) = Then(Emit("NONE", c), Pending(AfterPlain(c), t), fe)
<1>1. AtLine(Cons(c, t), fe) = DecodesTo(Cons(c, t), fe)
  BY DecodeAtLine
<1> QED
  BY <1>1, StepNone

LEMMA NoDot ==
    ASSUME NEW c \in Char, NEW t \in Seq(Char), c # DOT
    PROVE  ~IsPrefix(Cons(DOT, <<>>), Cons(c, t))
<1>1. PICK e \in Seq(Char) : e = <<>>
  BY EmptySeq
<1>2. IsPrefix(Cons(DOT, e), Cons(c, t)) <=> c = DOT /\ IsPrefix(e, t)
  BY Chars, PrefixOfCons
<1> QED
  BY <1>1, <1>2

LEMMA NoLine ==
    ASSUME NEW c \in Char, NEW d \in Char, NEW t \in Seq(Char)
    PROVE  /\ IsPrefix(Cons(CR, Cons(LF, <<>>)), Cons(c, Cons(d, t))) <=> c = CR /\ d = LF
           /\ c # CR => ~IsPrefix(Cons(CR, Cons(LF, <<>>)), Cons(c, t))
           /\ ~IsPrefix(Cons(CR, Cons(LF, <<>>)), Cons(c, <<>>))
<1>1. PICK e \in Seq(Char) : e = <<>>
  BY EmptySeq
<1>2. PICK l \in Seq(Char) : l = Cons(LF, e)
  BY Chars, ConsIs
<1>3. PICK x \in Seq(Char) : x = Cons(d, t)
  BY ConsIs
<1>4. IsPrefix(Cons(CR, l), Cons(c, x)) <=> c = CR /\ IsPrefix(l, x)
  BY Chars, PrefixOfCons
<1>5. IsPrefix(l, x) <=> d = LF /\ IsPrefix(e, t)
  BY <1>2, <1>3, Chars, PrefixOfCons
<1>6. IsPrefix(e, t) /\ ~IsPrefix(l, e)
  BY <1>1, <1>2, Chars, PrefixOfEmpty
<1>7. IsPrefix(Cons(CR, l), Cons(c, t)) <=> c = CR /\ IsPrefix(l, t)
  BY Chars, PrefixOfCons
<1>8. IsPrefix(Cons(CR, l), Cons(c, e)) <=> c = CR /\ IsPrefix(l, e)
  BY Chars, PrefixOfCons
<1> QED
  BY <1>1, <1>2, <1>3, <1>4, <1>5, <1>6, <1>7, <1>8

(* With the end watched for.                                               *)
StepsAsReference(ctx, c, t) ==
    DecodesTo(Pending(ctx, Cons(c, t)), TRUE)
      = IF EndsData(ctx, c) THEN <<>> ELSE Then(Emit(ctx, c), Pending(Goto(ctx, c), t), TRUE)

LEMMA StepCrLf ==
    ASSUME NEW c \in Char, NEW t \in Seq(Char) PROVE StepsAsReference("CRLF", c, t)
<1>1. PICK x \in Seq(Char) : x = Cons(c, t)
  BY ConsIs
<1>2. ~EndsData("CRLF", c) /\ Pending("CRLF", x) = Cons(CR, Cons(LF, x))
  BY EndTable, PendingIs
<1>3. CASE c = DOT \/ c = EQ
  <2>1. Emit("CRLF", c) = <<>> /\ Goto("CRLF", c) = IF c = DOT THEN "CRLFDT" ELSE "CRLFEQ"
    BY <1>3, CharsDiffer, EndTable
  <2>2. PICK y \in Seq(Char) : y = Pending(Goto("CRLF", c), t)
    BY <2>1, PendingType DEF State
  <2>3. y = Cons(CR, Cons(LF, x))
    BY <1>1, <1>3, <2>1, <2>2, CharsDiffer, PendingIs
  <2>4. Then(<<>>, y, TRUE) = DecodesTo(y, TRUE)
    BY ThenIs
  <2> QED
    BY <1>1, <1>2, <2>1, <2>2, <2>3, <2>4 DEF StepsAsReference
<1>4. CASE c # DOT /\ c # EQ
  <2>1. Emit("CRLF", c) = Emit("NONE", c) /\ Goto("CRLF", c) = AfterPlain(c)
    BY <1>4, EndTable
  <2>2. ~IsPrefix(Cons(DOT, <<>>), x)
    BY <1>1, <1>4, NoDot
  <2>3. DecodesTo(Cons(CR, Cons(LF, x)), TRUE) = AtLine(x, TRUE)
    BY <2>2, DecodeLine
  <2>4. AtLine(x, TRUE) = Then(Emit("NONE", c), Pending(AfterPlain(c), t), TRUE)
    BY <1>1, <1>4, StepLine
  <2> QED
    BY <1>1, <1>2, <2>1, <2>3, <2>4 DEF StepsAsReference
<1> QED
  BY <1>3, <1>4

LEMMA StepCrLfDt ==
    ASSUME NEW c \in Char, NEW t \in Seq(Char) PROVE StepsAsReference("CRLFDT", c, t)
<1>1. PICK x \in Seq(Char) : x = Cons(c, t)
  BY ConsIs
<1>2. ~EndsData("CRLFDT", c) /\ Pending("CRLFDT", x) = Cons(CR, Cons(LF, Cons(DOT, x)))
  BY EndTable, PendingIs
<1>3. DecodesTo(Cons(CR, Cons(LF, Cons(DOT, x))), TRUE)
        = IF TRUE /\ IsPrefix(Cons(CR, Cons(LF, <<>>)), x) THEN <<>> ELSE AtLine(x, TRUE)
  BY DecodeDot
<1>4. CASE c = CR
  <2>1. Emit("CRLFDT", c) = <<>> /\ Goto("CRLFDT", c) = "CRLFDTCR"
    BY <1>4, EndTable
  <2>2. PICK y \in Seq(Char) : y = Pending("CRLFDTCR", t)
    BY PendingType DEF State
  <2>3. y = Cons(CR, Cons(LF, Cons(DOT, x)))
    BY <1>1, <1>4, <2>2, PendingIs
  <2>4. Then(<<>>, y, TRUE) = DecodesTo(y, TRUE)
    BY ThenIs
  <2> QED
    BY <1>1, <1>2, <2>1, <2>2, <2>3, <2>4 DEF StepsAsReference
<1>5. CASE c = EQ
  <2>1. Emit("CRLFDT", c) = <<>> /\ Goto("CRLFDT", c) = "CRLFEQ"
    BY <1>5, CharsDiffer, EndTable
  <2>2. PICK y \in Seq(Char) : y = Pending("CRLFEQ", t)
    BY PendingType DEF State
  <2>3. y = Cons(CR, Cons(LF, x))
    BY <1>1, <1>5, <2>2, PendingIs
  <2>4. Then(<<>>, y, TRUE) = DecodesTo(y, TRUE)
    BY ThenIs
  <2>5. ~IsPrefix(Cons(DOT, <<>>), x)
    BY <1>1, <1>5, CharsDiffer, NoDot
  <2>6. DecodesTo(Cons(CR, Cons(LF, x)), TRUE) = AtLine(x, TRUE)
    BY <2>5, DecodeLine
  <2>7. ~IsPrefix(Cons(CR, Cons(LF, <<>>)), x)
    <3>1. c # CR
      BY <1>5, CharsDiffer
    <3> QED
      BY <1>1, <3>1, Chars, NoLine
  <2> QED
    BY <1>1, <1>2, <1>3, <2>1, <2>2, <2>3, <2>4, <2>6, <2>7 DEF StepsAsReference
<1>6. CASE c # CR /\ c # EQ
  <2>1. Emit("CRLFDT", c) = Emit("NONE", c) /\ Goto("CRLFDT", c) = AfterPlain(c)
    BY <1>6, EndTable
  <2>2. ~IsPrefix(Cons(CR, Cons(LF, <<>>)), x)
    BY <1>1, <1>6, Chars, NoLine
  <2>4. AtLine(x, TRUE) = Then(Emit("NONE", c), Pending(AfterPlain(c), t), TRUE)
    BY <1>1, <1>6, StepLine
  <2> QED
    BY <1>1, <1>2, <1>3, <2>1, <2>2, <2>4 DEF StepsAsReference
<1> QED
  BY <1>4, <1>5, <1>6

LEMMA StepCrLfDtCr ==
    ASSUME NEW c \in Char, NEW t \in Seq(Char) PROVE StepsAsReference("CRLFDTCR", c, t)
<1>1. PICK x \in Seq(Char) : x = Cons(c, t)
  BY ConsIs
<1>2. PICK y \in Seq(Char) : y = Cons(CR, x)
  BY Chars, ConsIs
<1>3. Pending("CRLFDTCR", x) = Cons(CR, Cons(LF, Cons(DOT, y))) /\ (EndsData("CRLFDTCR", c) <=> c = LF)
  BY <1>2, EndTable, PendingIs
<1>4. DecodesTo(Cons(CR, Cons(LF, Cons(DOT, y))), TRUE)
        = IF TRUE /\ IsPrefix(Cons(CR, Cons(LF, <<>>)), y) THEN <<>> ELSE AtLine(y, TRUE)
  BY DecodeDot
<1>5. IsPrefix(Cons(CR, Cons(LF, <<>>)), y) <=> c = LF
  BY <1>1, <1>2, Chars, NoLine
<1>6. CASE c = LF
  BY <1>1, <1>3, <1>4, <1>5, <1>6 DEF StepsAsReference
<1>7. CASE c # LF
  <2>1. Emit("CRLFDTCR", c) = Emit("NONE", c) /\ Goto("CRLFDTCR", c) = AfterPlain(c)
    BY <1>7, EndTable
  <2>2. AtLine(y, TRUE) = DecodesTo(y, TRUE)
    BY <1>2, Chars, CharsDiffer, DecodeAtLine
  <2>3. DecodesTo(y, TRUE) = Then(Emit("NONE", c), Pending(AfterPlain(c), t), TRUE)
    BY <1>1, <1>2, <1>7, StepReturn
  <2> QED
    BY <1>1, <1>3, <1>4, <1>5, <1>7, <2>1, <2>2, <2>3 DEF StepsAsReference
<1> QED
  BY <1>6, <1>7

LEMMA StepCrLfEq ==
    ASSUME NEW c \in Char, NEW t \in Seq(Char) PROVE StepsAsReference("CRLFEQ", c, t)
<1>1. PICK x \in Seq(Char) : x = Cons(c, t)
  BY ConsIs
<1>2. PICK y \in Seq(Char) : y = Cons(EQ, x)
  BY Chars, ConsIs
<1>3. Pending("CRLFEQ", x) = Cons(CR, Cons(LF, y)) /\ (EndsData("CRLFEQ", c) <=> c = Y)
  BY <1>2, EndTable, PendingIs
<1>4. ~IsPrefix(Cons(DOT, <<>>), y)
  BY <1>2, Chars, CharsDiffer, NoDot
<1>5. DecodesTo(Cons(CR, Cons(LF, y)), TRUE) = AtLine(y, TRUE)
  BY <1>4, DecodeLine
<1>6. AtLine(y, TRUE) = IF TRUE /\ c = Y THEN <<>> ELSE DecodesTo(y, TRUE)
  BY <1>1, <1>2, DecodeAtLine
<1>7. CASE c = Y
  BY <1>1, <1>3, <1>5, <1>6, <1>7 DEF StepsAsReference
<1>8. CASE c # Y
  <2>1. Emit("CRLFEQ", c) = Emit("EQ", c) /\ Goto("CRLFEQ", c) = Goto("EQ", c)
    BY <1>8, EndTable
  <2>2. DecodesTo(y, TRUE) = Then(Emit("EQ", c), Pending(Goto("EQ", c), t), TRUE)
    BY <1>1, <1>2, StepEscape
  <2> QED
    BY <1>1, <1>3, <1>5, <1>6, <1>8, <2>1, <2>2 DEF StepsAsReference
<1> QED
  BY <1>7, <1>8

(* Every step of a stream that watches for the end is one of the reference *)
(* decoder's, on the bytes the context stands for.                         *)
LEMMA StepsEnd ==
    ASSUME NEW ctx \in State, NEW c \in Char, NEW t \in Seq(Char)
    PROVE  StepsAsReference(ctx, c, t)
<1>1. PICK x \in Seq(Char) : x = Cons(c, t)
  BY ConsIs
<1>2. StepsAsReference("NONE", c, t)
  <2>1. DecodesTo(x, TRUE) = Then(Emit("NONE", c), Pending(AfterPlain(c), t), TRUE)
    BY <1>1, StepNone
  <2>2. Pending("NONE", x) = x /\ ~EndsData("NONE", c) /\ Goto("NONE", c) = AfterPlain(c)
    BY PendingIs, EndTable
  <2> QED
    BY <1>1, <2>1, <2>2 DEF StepsAsReference
<1>3. StepsAsReference("EQ", c, t)
  <2>1. DecodesTo(Cons(EQ, x), TRUE) = Then(Emit("EQ", c), Pending(Goto("EQ", c), t), TRUE)
    BY <1>1, StepEscape
  <2>2. Pending("EQ", x) = Cons(EQ, x) /\ ~EndsData("EQ", c)
    BY PendingIs, EndTable
  <2> QED
    BY <1>1, <2>1, <2>2 DEF StepsAsReference
<1>4. StepsAsReference("CR", c, t)
  <2>1. DecodesTo(Cons(CR, x), TRUE)
          = Then(Emit("NONE", c), Pending(IF c = LF THEN "CRLF" ELSE AfterPlain(c), t), TRUE)
    BY <1>1, StepReturn
  <2>2. /\ Pending("CR", x) = Cons(CR, x) /\ ~EndsData("CR", c) /\ Emit("CR", c) = Emit("NONE", c)
        /\ Goto("CR", c) = IF c = LF THEN "CRLF" ELSE AfterPlain(c)
    BY PendingIs, EndTable
  <2> QED
    BY <1>1, <2>1, <2>2 DEF StepsAsReference
<1> QED
  BY <1>2, <1>3, <1>4, StepCrLf, StepCrLfDt, StepCrLfDtCr, StepCrLfEq DEF State

(* Without, and where the dots are to be taken out.                        *)
RawState == {"CRLF", "EQ", "CR", "NONE"}

LEMMA StepsRaw ==
    ASSUME NEW ctx \in RawState, NEW c \in Char, NEW t \in Seq(Char)
    PROVE  DecodesTo(Pending(ctx, Cons(c, t)), FALSE)
             = Then(RawEmit(ctx, c), Pending(RawGoto(ctx, c), t), FALSE)
<1> DEFINE Agree(k) == DecodesTo(Pending(k, Cons(c, t)), FALSE)
                         = Then(RawEmit(k, c), Pending(RawGoto(k, c), t), FALSE)
<1>1. PICK x \in Seq(Char) : x = Cons(c, t)
  BY ConsIs
<1>2. Agree("NONE")
  <2>1. DecodesTo(x, FALSE) = Then(Emit("NONE", c), Pending(AfterPlain(c), t), FALSE)
    BY <1>1, StepNone
  <2>2. Pending("NONE", x) = x /\ RawEmit("NONE", c) = Emit("NONE", c) /\ RawGoto("NONE", c) = AfterPlain(c)
    BY PendingIs, RawTable
  <2> QED
    BY <1>1, <2>1, <2>2
<1>3. Agree("EQ")
  <2>1. DecodesTo(Cons(EQ, x), FALSE) = Then(Emit("EQ", c), Pending(Goto("EQ", c), t), FALSE)
    BY <1>1, StepEscape
  <2>2. Pending("EQ", x) = Cons(EQ, x) /\ RawEmit("EQ", c) = Emit("EQ", c) /\ RawGoto("EQ", c) = Goto("EQ", c)
    BY PendingIs, RawTable
  <2> QED
    BY <1>1, <2>1, <2>2
<1>4. Agree("CR")
  <2>1. DecodesTo(Cons(CR, x), FALSE)
          = Then(Emit("NONE", c), Pending(IF c = LF THEN "CRLF" ELSE AfterPlain(c), t), FALSE)
    BY <1>1, StepReturn
  <2>2. /\ Pending("CR", x) = Cons(CR, x) /\ RawEmit("CR", c) = Emit("NONE", c)
        /\ RawGoto("CR", c) = IF c = LF THEN "CRLF" ELSE AfterPlain(c)
    BY PendingIs, RawTable
  <2> QED
    BY <1>1, <2>1, <2>2
<1>5. Agree("CRLF")
  <2>1. Pending("CRLF", x) = Cons(CR, Cons(LF, x))
    BY PendingIs
  <2>2. \A y \in Seq(Char) : AtLine(y, FALSE) = DecodesTo(y, FALSE)
    BY DEF AtLine
  <2>3. CASE c = DOT
    <3>1. DecodesTo(Cons(CR, Cons(LF, Cons(DOT, t))), FALSE)
            = IF FALSE /\ IsPrefix(Cons(CR, Cons(LF, <<>>)), t) THEN <<>> ELSE AtLine(t, FALSE)
      BY DecodeDot
    <3>2. Then(<<>>, t, FALSE) = DecodesTo(t, FALSE)
      BY ThenIs
    <3>3. RawEmit("CRLF", c) = <<>> /\ RawGoto("CRLF", c) = "NONE" /\ Pending("NONE", t) = t
      BY <2>3, RawTable, PendingIs
    <3> QED
      BY <1>1, <2>1, <2>2, <2>3, <3>1, <3>2, <3>3
  <2>4. CASE c # DOT
    <3>1. ~IsPrefix(Cons(DOT, <<>>), x)
      BY <1>1, <2>4, NoDot
    <3>2. DecodesTo(Cons(CR, Cons(LF, x)), FALSE) = AtLine(x, FALSE)
      BY <3>1, DecodeLine
    <3>3. DecodesTo(x, FALSE) = Then(Emit("NONE", c), Pending(AfterPlain(c), t), FALSE)
      BY <1>1, StepNone
    <3>4. RawEmit("CRLF", c) = Emit("NONE", c) /\ RawGoto("CRLF", c) = AfterPlain(c)
      BY <2>4, RawTable
    <3> QED
      BY <1>1, <2>1, <2>2, <3>2, <3>3, <3>4
  <2> QED
    BY <2>3, <2>4
<1> QED
  BY <1>2, <1>3, <1>4, <1>5 DEF RawState

(* And where the layer below has taken them out already.                   *)
LEMMA StepsUnstuffed ==
    ASSUME NEW ctx \in {"NONE", "EQ"}, NEW c \in Char, NEW t \in Seq(Char)
    PROVE  Unescape(Pending(ctx, Cons(c, t)), FALSE)
             = UnstuffedEmit(ctx, c) \o Unescape(Pending(UnstuffedGoto(ctx, c), t), FALSE)
<1>1. PICK r \in Seq(Byte) : r = Unescape(t, FALSE) /\ <<>> \o r = r
  <2>1. PICK r \in Seq(Byte) : r = Unescape(t, FALSE)
    BY UnescapeType
  <2>2. <<>> \o r = r
    BY ConcatEmptySeq
  <2> QED
    BY <2>1, <2>2
<1>2. PICK x \in Seq(Char) : x = Cons(c, t)
  BY ConsIs
<1>3. Pending("NONE", x) = x /\ Pending("EQ", x) = Cons(EQ, x) /\ Pending("NONE", t) = t
      /\ Pending("EQ", t) = Cons(EQ, t)
  BY PendingIs
<1>4. Unescape(Cons(CR, t), FALSE) = r
  <2>1. Unescape(Cons(CR, t), FALSE)
          = IF FALSE /\ IsPrefix(Cons(LF, Cons(EQ, Cons(Y, <<>>))), t) THEN <<>> ELSE Unescape(t, FALSE)
    BY UnescapeLine
  <2> QED
    BY <1>1, <2>1
<1>5. CASE ctx = "EQ"
  <2>1. Unescape(Cons(EQ, x), FALSE)
          = Cons(Escaped(c), IF c = CR THEN Unescape(Cons(CR, t), FALSE) ELSE Unescape(t, FALSE))
    BY <1>2, UnescapeEscape
  <2>2. UnstuffedEmit(ctx, c) = <<Escaped(c)>> /\ UnstuffedGoto(ctx, c) = "NONE"
    BY <1>5 DEF UnstuffedEmit, UnstuffedGoto
  <2>3. <<Escaped(c)>> \o r = Cons(Escaped(c), r)
    BY DEF Cons
  <2> QED
    BY <1>1, <1>2, <1>3, <1>4, <1>5, <2>1, <2>2, <2>3
<1>6. CASE ctx = "NONE"
  <2>1. CASE c = EQ
    <3>1. UnstuffedEmit(ctx, c) = <<>> /\ UnstuffedGoto(ctx, c) = "EQ"
      BY <1>6, <2>1 DEF UnstuffedEmit, UnstuffedGoto
    <3>2. PICK y \in Seq(Byte) : y = Unescape(x, FALSE) /\ <<>> \o y = y
      <4>1. PICK y \in Seq(Byte) : y = Unescape(x, FALSE)
        BY UnescapeType
      <4>2. <<>> \o y = y
        BY ConcatEmptySeq
      <4> QED
        BY <4>1, <4>2
    <3> QED
      BY <1>2, <1>3, <1>6, <2>1, <3>1, <3>2
  <2>2. CASE c = CR
    <3>1. UnstuffedEmit(ctx, c) = <<>> /\ UnstuffedGoto(ctx, c) = "NONE"
      BY <1>6, <2>2, CharsDiffer DEF UnstuffedEmit, UnstuffedGoto
    <3> QED
      BY <1>1, <1>2, <1>3, <1>4, <1>6, <2>2, <3>1
  <2>3. CASE c # EQ /\ c # CR
    <3>1. UnstuffedEmit(ctx, c) = (IF c = LF THEN <<>> ELSE <<Plain(c)>>) /\ UnstuffedGoto(ctx, c) = "NONE"
      BY <1>6, <2>3 DEF UnstuffedEmit, UnstuffedGoto
    <3>2. Unescape(x, FALSE) = IF c = LF THEN Unescape(t, FALSE) ELSE Cons(Plain(c), Unescape(t, FALSE))
      BY <1>2, <2>3, UnescapeOther
    <3>3. <<Plain(c)>> \o r = Cons(Plain(c), r)
      BY DEF Cons
    <3> QED
      BY <1>1, <1>2, <1>3, <1>6, <3>1, <3>2, <3>3
  <2> QED
    BY <2>1, <2>2, <2>3
<1> QED
  BY <1>5, <1>6

-----------------------------------------------------------------------------
(* What a stream decodes a text to is what the reference decoder does.     *)

E == INSTANCE YencStreamProofs WITH
       Chunk <- {}, Start <- "CRLF", To <- Goto, Yields <- Emit, Ends <- Verdict,
       chunk <- <<>>, at <- 0, decoded <- 0
N == INSTANCE YencStreamProofs WITH
       Chunk <- {}, Start <- "CRLF", To <- RawGoto, Yields <- RawEmit, Ends <- NoEnd,
       chunk <- <<>>, at <- 0, decoded <- 0
U == INSTANCE YencStreamProofs WITH
       Chunk <- {}, Start <- "NONE", To <- UnstuffedGoto, Yields <- UnstuffedEmit, Ends <- NoEnd,
       chunk <- <<>>, at <- 0, decoded <- 0

PlainState == {"NONE", "EQ"}

\* They stay among their contexts,
LEMMA GotoType ==
    ASSUME NEW c \in Char
    PROVE  /\ \A ctx \in State : Goto(ctx, c) \in State
           /\ \A ctx \in RawState : RawGoto(ctx, c) \in RawState
           /\ \A ctx \in PlainState : UnstuffedGoto(ctx, c) \in PlainState
<1>1. AfterPlain(c) \in {"CR", "EQ", "NONE"}
  BY DEF AfterPlain
<1>2. \A ctx \in State : Goto(ctx, c) \in State
  BY <1>1 DEF Goto, State
<1>3. \A ctx \in RawState : RawGoto(ctx, c) \in RawState
  BY <1>1 DEF RawGoto, RawState
<1>4. \A ctx \in PlainState : UnstuffedGoto(ctx, c) \in PlainState
  BY DEF UnstuffedGoto, PlainState
<1> QED
  BY <1>2, <1>3, <1>4

\* yield bytes,
LEMMA EmitType ==
    ASSUME NEW ctx, NEW c \in Char
    PROVE  Emit(ctx, c) \in Seq(Byte) /\ RawEmit(ctx, c) \in Seq(Byte) /\ UnstuffedEmit(ctx, c) \in Seq(Byte)
<1>1. Plain(c) \in Byte /\ Escaped(c) \in Byte
  BY DEF Plain, Escaped, Byte
<1> QED
  BY <1>1 DEF Emit, RawEmit, UnstuffedEmit

\* and end as they may.
LEMMA VerdictType ==
    ASSUME NEW ctx, NEW c
    PROVE  /\ Verdict(ctx, c) \in End /\ NoEnd(ctx, c) \in End /\ NoEnd(ctx, c) = "NONE"
           /\ Verdict(ctx, c) # "NONE" <=> EndsData(ctx, c)
  BY DEF Verdict, NoEnd, End

\* So the lemmas on texts are about them.
LEMMA Automata ==
    /\ E!Decodes(State, Char, Byte, End)
    /\ N!Decodes(RawState, Char, Byte, End)
    /\ U!Decodes(PlainState, Char, Byte, End)
<1>1. E!Decodes(State, Char, Byte, End)
  BY GotoType, EmitType, VerdictType DEF E!Decodes, End
<1>2. N!Decodes(RawState, Char, Byte, End)
  BY GotoType, EmitType, VerdictType DEF N!Decodes, End
<1>3. U!Decodes(PlainState, Char, Byte, End)
  BY GotoType, EmitType, VerdictType DEF U!Decodes, End
<1> QED
  BY <1>1, <1>2, <1>3

(* Nothing is decoded of the bytes that a context stands for.              *)
LEMMA PendingNothing ==
    /\ \A ctx \in State : DecodesTo(Pending(ctx, <<>>), TRUE) = <<>>
    /\ \A ctx \in RawState : DecodesTo(Pending(ctx, <<>>), FALSE) = <<>>
    /\ \A ctx \in PlainState : Unescape(Pending(ctx, <<>>), FALSE) = <<>>
<1>1. PICK e \in Seq(Char) : e = <<>>
  BY EmptySeq
<1>2. ~IsPrefix(Cons(DOT, <<>>), e)
  BY <1>1, Chars, PrefixOfEmpty
<1>3. /\ DecodesTo(e, TRUE) = <<>> /\ DecodesTo(Cons(EQ, e), TRUE) = <<>> /\ DecodesTo(Cons(CR, e), TRUE) = <<>>
      /\ DecodesTo(e, FALSE) = <<>> /\ DecodesTo(Cons(EQ, e), FALSE) = <<>> /\ DecodesTo(Cons(CR, e), FALSE) = <<>>
  BY <1>1, DecodeNothing
<1>4. DecodesTo(Cons(CR, Cons(LF, e)), TRUE) = <<>> /\ DecodesTo(Cons(CR, Cons(LF, e)), FALSE) = <<>>
  <2>1. /\ DecodesTo(Cons(CR, Cons(LF, e)), TRUE) = AtLine(e, TRUE)
        /\ DecodesTo(Cons(CR, Cons(LF, e)), FALSE) = AtLine(e, FALSE)
    BY <1>2, DecodeLine
  <2>2. AtLine(e, TRUE) = <<>> /\ AtLine(e, FALSE) = <<>>
    BY <1>1, DecodeNothing
  <2> QED
    BY <2>1, <2>2
<1>5. DecodesTo(Cons(CR, Cons(LF, Cons(DOT, e))), TRUE) = <<>>
  <2>1. DecodesTo(Cons(CR, Cons(LF, Cons(DOT, e))), TRUE)
          = IF TRUE /\ IsPrefix(Cons(CR, Cons(LF, <<>>)), e) THEN <<>> ELSE AtLine(e, TRUE)
    BY DecodeDot
  <2>2. AtLine(e, TRUE) = <<>>
    BY <1>1, DecodeNothing
  <2> QED
    BY <2>1, <2>2
<1>6. DecodesTo(Cons(CR, Cons(LF, Cons(DOT, Cons(CR, e)))), TRUE) = <<>>
  <2>1. PICK x \in Seq(Char) : x = Cons(CR, e)
    BY Chars, ConsIs
  <2>2. DecodesTo(Cons(CR, Cons(LF, Cons(DOT, x))), TRUE)
          = IF TRUE /\ IsPrefix(Cons(CR, Cons(LF, <<>>)), x) THEN <<>> ELSE AtLine(x, TRUE)
    BY DecodeDot
  <2>3. AtLine(x, TRUE) = DecodesTo(x, TRUE)
    BY <2>1, Chars, CharsDiffer, DecodeAtLine
  <2> QED
    BY <1>3, <2>1, <2>2, <2>3
<1>7. DecodesTo(Cons(CR, Cons(LF, Cons(EQ, e))), TRUE) = <<>>
  <2>1. PICK x \in Seq(Char) : x = Cons(EQ, e)
    BY Chars, ConsIs
  <2>2. ~IsPrefix(Cons(DOT, <<>>), x)
    BY <2>1, Chars, CharsDiffer, NoDot
  <2>3. DecodesTo(Cons(CR, Cons(LF, x)), TRUE) = AtLine(x, TRUE)
    BY <2>2, DecodeLine
  <2>4. AtLine(x, TRUE) = <<>>
    BY <1>1, <2>1, DecodeNothing
  <2> QED
    BY <2>1, <2>3, <2>4
<1>8. ASSUME NEW ctx \in State PROVE DecodesTo(Pending(ctx, e), TRUE) = <<>>
  BY <1>3, <1>4, <1>5, <1>6, <1>7, PendingIs DEF State
<1>9. ASSUME NEW ctx \in RawState PROVE DecodesTo(Pending(ctx, e), FALSE) = <<>>
  BY <1>3, <1>4, PendingIs DEF RawState
<1>10. ASSUME NEW ctx \in PlainState PROVE Unescape(Pending(ctx, e), FALSE) = <<>>
  <2>1. Unescape(e, FALSE) = <<>> /\ Unescape(Cons(EQ, e), FALSE) = <<>>
    BY <1>1, Chars, UnescapeEmpty, UnescapeEscape
  <2> QED
    BY <2>1, PendingIs DEF PlainState
<1> QED
  BY <1>1, <1>8, <1>9, <1>10

(* Whatever the context a text is read from.                               *)
LEMMA EndDecodes ==
    \A s \in Seq(Char), ctx \in State :
        E!After(s, ctx).decoded.out = DecodesTo(Pending(ctx, s), TRUE)
<1> DEFINE f == [p \in State \X Seq(Char) |-> DecodesTo(Pending(p[1], p[2]), TRUE)]
<1>1. \A s \in Seq(Char), ctx \in State : f[<<ctx, s>>] = DecodesTo(Pending(ctx, s), TRUE)
  OBVIOUS
<1> HIDE DEF f
<1>2. ASSUME NEW ctx \in State, NEW c \in Char, NEW t \in Seq(Char)
      PROVE  f[<<ctx, <<c>> \o t>>] = IF Verdict(ctx, c) # "NONE" THEN Emit(ctx, c)
                                       ELSE Emit(ctx, c) \o f[<<Goto(ctx, c), t>>]
  <2>1. PICK x \in Seq(Char) : x = Cons(c, t)
    BY ConsIs
  <2>2. x = <<c>> \o t
    BY <2>1 DEF Cons
  <2>3. DecodesTo(Pending(ctx, x), TRUE)
          = IF EndsData(ctx, c) THEN <<>> ELSE Emit(ctx, c) \o DecodesTo(Pending(Goto(ctx, c), t), TRUE)
    BY <2>1, StepsEnd DEF StepsAsReference, Then
  <2>4. EndsData(ctx, c) => Emit(ctx, c) = <<>>
    BY CharsDiffer DEF EndsData, Emit, IsEscaped
  <2>5. Goto(ctx, c) \in State /\ (Verdict(ctx, c) # "NONE" <=> EndsData(ctx, c))
    BY GotoType, VerdictType
  <2>6. f[<<ctx, x>>] = DecodesTo(Pending(ctx, x), TRUE)
        /\ f[<<Goto(ctx, c), t>>] = DecodesTo(Pending(Goto(ctx, c), t), TRUE)
    BY <1>1, <2>5
  <2>7. CASE EndsData(ctx, c)
    BY <2>2, <2>3, <2>4, <2>5, <2>6, <2>7
  <2>8. CASE ~EndsData(ctx, c)
    BY <2>2, <2>3, <2>5, <2>6, <2>8
  <2> QED
    BY <2>7, <2>8
<1>3. \A ctx \in State : f[<<ctx, <<>>>>] = <<>>
  BY <1>1, PendingNothing, EmptySeq
<1>4. E!DecodesLike(State, Char, f)
  BY <1>2, <1>3 DEF E!DecodesLike
<1>5. ASSUME NEW s \in Seq(Char), NEW ctx \in State PROVE E!After(s, ctx).decoded.out = f[<<ctx, s>>]
  BY <1>4, Automata, E!DecodedLike
<1> QED
  BY <1>1, <1>5

LEMMA RawDecodes ==
    \A s \in Seq(Char), ctx \in RawState :
        N!After(s, ctx).decoded.out = DecodesTo(Pending(ctx, s), FALSE)
<1> DEFINE f == [p \in RawState \X Seq(Char) |-> DecodesTo(Pending(p[1], p[2]), FALSE)]
<1>1. \A s \in Seq(Char), ctx \in RawState : f[<<ctx, s>>] = DecodesTo(Pending(ctx, s), FALSE)
  OBVIOUS
<1> HIDE DEF f
<1>2. ASSUME NEW ctx \in RawState, NEW c \in Char, NEW t \in Seq(Char)
      PROVE  f[<<ctx, <<c>> \o t>>] = IF NoEnd(ctx, c) # "NONE" THEN RawEmit(ctx, c)
                                       ELSE RawEmit(ctx, c) \o f[<<RawGoto(ctx, c), t>>]
  <2>1. PICK x \in Seq(Char) : x = Cons(c, t)
    BY ConsIs
  <2>2. x = <<c>> \o t
    BY <2>1 DEF Cons
  <2>3. DecodesTo(Pending(ctx, x), FALSE) = RawEmit(ctx, c) \o DecodesTo(Pending(RawGoto(ctx, c), t), FALSE)
    BY <2>1, StepsRaw DEF Then
  <2>5. RawGoto(ctx, c) \in RawState /\ NoEnd(ctx, c) = "NONE"
    BY GotoType, VerdictType
  <2>6. f[<<ctx, x>>] = DecodesTo(Pending(ctx, x), FALSE)
        /\ f[<<RawGoto(ctx, c), t>>] = DecodesTo(Pending(RawGoto(ctx, c), t), FALSE)
    BY <1>1, <2>5
  <2> QED
    BY <2>2, <2>3, <2>5, <2>6
<1>3. \A ctx \in RawState : f[<<ctx, <<>>>>] = <<>>
  BY <1>1, PendingNothing, EmptySeq
<1>4. N!DecodesLike(RawState, Char, f)
  BY <1>2, <1>3 DEF N!DecodesLike
<1>5. ASSUME NEW s \in Seq(Char), NEW ctx \in RawState PROVE N!After(s, ctx).decoded.out = f[<<ctx, s>>]
  BY <1>4, Automata, N!DecodedLike
<1> QED
  BY <1>1, <1>5

LEMMA UnstuffedDecodes ==
    \A s \in Seq(Char), ctx \in PlainState :
        U!After(s, ctx).decoded.out = Unescape(Pending(ctx, s), FALSE)
<1> DEFINE f == [p \in PlainState \X Seq(Char) |-> Unescape(Pending(p[1], p[2]), FALSE)]
<1>1. \A s \in Seq(Char), ctx \in PlainState : f[<<ctx, s>>] = Unescape(Pending(ctx, s), FALSE)
  OBVIOUS
<1> HIDE DEF f
<1>2. ASSUME NEW ctx \in PlainState, NEW c \in Char, NEW t \in Seq(Char)
      PROVE  f[<<ctx, <<c>> \o t>>] = IF NoEnd(ctx, c) # "NONE" THEN UnstuffedEmit(ctx, c)
                                       ELSE UnstuffedEmit(ctx, c) \o f[<<UnstuffedGoto(ctx, c), t>>]
  <2>1. PICK x \in Seq(Char) : x = Cons(c, t)
    BY ConsIs
  <2>2. x = <<c>> \o t
    BY <2>1 DEF Cons
  <2>3. Unescape(Pending(ctx, x), FALSE) = UnstuffedEmit(ctx, c) \o Unescape(Pending(UnstuffedGoto(ctx, c), t), FALSE)
    BY <2>1, StepsUnstuffed DEF PlainState
  <2>5. UnstuffedGoto(ctx, c) \in PlainState /\ NoEnd(ctx, c) = "NONE"
    BY GotoType, VerdictType
  <2>6. f[<<ctx, x>>] = Unescape(Pending(ctx, x), FALSE)
        /\ f[<<UnstuffedGoto(ctx, c), t>>] = Unescape(Pending(UnstuffedGoto(ctx, c), t), FALSE)
    BY <1>1, <2>5
  <2> QED
    BY <2>2, <2>3, <2>5, <2>6
<1>3. \A ctx \in PlainState : f[<<ctx, <<>>>>] = <<>>
  BY <1>1, PendingNothing, EmptySeq
<1>4. U!DecodesLike(PlainState, Char, f)
  BY <1>2, <1>3 DEF U!DecodesLike
<1>5. ASSUME NEW s \in Seq(Char), NEW ctx \in PlainState PROVE U!After(s, ctx).decoded.out = f[<<ctx, s>>]
  BY <1>4, Automata, U!DecodedLike
<1> QED
  BY <1>1, <1>5

-----------------------------------------------------------------------------
(* The reference decoder takes a text as if it began a line.               *)

LEMMA RefAtLine ==
    ASSUME NEW fe, NEW t \in Seq(Char)
    PROVE  RefYDec(UndoStuffing(t, fe), fe) = AtLine(t, fe)
  BY Literals DEF RefYDec, AtLine, DecodesTo, ControlStart

LEMMA RefOfText ==
    ASSUME NEW fe, NEW s \in Seq(Char)
    PROVE  RefYDecRaw(s, fe) = DecodesTo(Pending("CRLF", s), fe)
<1>1. Pending("CRLF", s) = Cons(CR, Cons(LF, s))
  BY PendingIs
<1>2. <<DOT>> = Cons(DOT, <<>>) /\ <<DOT, CR, LF>> = Cons(DOT, Cons(CR, Cons(LF, <<>>)))
  BY Literals
<1>3. CASE ~IsPrefix(<<DOT>>, s)
  <2>1. RefYDecRaw(s, fe) = AtLine(s, fe)
    BY <1>3, RefAtLine DEF RefYDecRaw
  <2>2. DecodesTo(Cons(CR, Cons(LF, s)), fe) = AtLine(s, fe)
    BY <1>2, <1>3, DecodeLine
  <2> QED
    BY <1>1, <2>1, <2>2
<1>4. CASE IsPrefix(<<DOT>>, s)
  <2>0. PICK e \in Seq(Char) : e = <<>>
    BY EmptySeq
  <2>1. s # <<>>
    <3>1. ~IsPrefix(Cons(DOT, e), <<>>)
      BY <2>0, Chars, PrefixOfEmpty
    <3> QED
      BY <1>2, <1>4, <2>0, <3>1
  <2>2. PICK c \in Char, t \in Seq(Char) : s = Cons(c, t)
    <3>1. \E c \in Char, t \in Seq(Char) : s = <<c>> \o t /\ Len(t) < Len(s)
      BY <2>1, EmptyOrFirst
    <3> QED
      BY <3>1 DEF Cons
  <2>3. c = DOT
    <3>1. IsPrefix(Cons(DOT, e), Cons(c, t)) <=> c = DOT /\ IsPrefix(e, t)
      BY Chars, PrefixOfCons
    <3> QED
      BY <1>2, <1>4, <2>0, <2>2, <3>1
  <2>4. Tail(s) = t
    <3>1. Tail(Cons(c, t)) = t
      BY ConsIs
    <3> QED
      BY <2>2, <3>1
  <2>5. IsPrefix(<<DOT, CR, LF>>, s) <=> IsPrefix(Cons(CR, Cons(LF, <<>>)), t)
    <3>1. PICK l \in Seq(Char) : l = Cons(CR, Cons(LF, e))
      <4>1. Cons(LF, e) \in Seq(Char)
        BY Chars, ConsIs
      <4> QED
        BY <4>1, Chars, ConsIs
    <3>2. IsPrefix(Cons(DOT, l), Cons(c, t)) <=> c = DOT /\ IsPrefix(l, t)
      BY Chars, PrefixOfCons
    <3> QED
      BY <1>2, <2>0, <2>2, <2>3, <3>1, <3>2
  <2>6. RefYDecRaw(s, fe) = IF fe /\ IsPrefix(Cons(CR, Cons(LF, <<>>)), t) THEN <<>>
                            ELSE RefYDec(UndoStuffing(t, fe), fe)
    BY <1>4, <2>4, <2>5 DEF RefYDecRaw
  <2>7. DecodesTo(Cons(CR, Cons(LF, Cons(DOT, t))), fe)
          = IF fe /\ IsPrefix(Cons(CR, Cons(LF, <<>>)), t) THEN <<>> ELSE AtLine(t, fe)
    BY DecodeDot
  <2>8. RefYDec(UndoStuffing(t, fe), fe) = AtLine(t, fe)
    BY RefAtLine
  <2> QED
    BY <1>1, <2>2, <2>3, <2>6, <2>7, <2>8
<1> QED
  BY <1>3, <1>4

(* A byte that yields nothing only leads to another context.               *)
SilentEnd(ctx, c, to) ==
    /\ ctx \in State /\ c \in Char
    /\ ~EndsData(ctx, c) /\ Emit(ctx, c) = <<>> /\ Goto(ctx, c) = to

SilentRaw(ctx, c, to) ==
    /\ ctx \in RawState /\ c \in Char
    /\ RawEmit(ctx, c) = <<>> /\ RawGoto(ctx, c) = to

OnlyLeads(ctx, c, to, t, fe) == DecodesTo(Pending(ctx, Cons(c, t)), fe) = DecodesTo(Pending(to, t), fe)

LEMMA SilentLeads ==
    ASSUME NEW ctx, NEW c, NEW to, NEW t \in Seq(Char)
    PROVE  /\ SilentEnd(ctx, c, to) => OnlyLeads(ctx, c, to, t, TRUE)
           /\ SilentRaw(ctx, c, to) => OnlyLeads(ctx, c, to, t, FALSE)
<1>1. ASSUME SilentEnd(ctx, c, to) PROVE OnlyLeads(ctx, c, to, t, TRUE)
  <2>1. ctx \in State /\ c \in Char /\ ~EndsData(ctx, c) /\ Emit(ctx, c) = <<>> /\ Goto(ctx, c) = to
    BY <1>1 DEF SilentEnd
  <2>2. PICK x \in Seq(Char) : x = Pending(to, t)
    <3>1. to \in State
      BY <2>1, GotoType
    <3> QED
      BY <3>1, PendingType
  <2>3. DecodesTo(Pending(ctx, Cons(c, t)), TRUE) = Then(Emit(ctx, c), x, TRUE)
    BY <2>1, <2>2, StepsEnd DEF StepsAsReference
  <2>4. Then(<<>>, x, TRUE) = DecodesTo(x, TRUE)
    BY ThenIs
  <2> QED
    BY <2>1, <2>2, <2>3, <2>4 DEF OnlyLeads
<1>2. ASSUME SilentRaw(ctx, c, to) PROVE OnlyLeads(ctx, c, to, t, FALSE)
  <2>1. ctx \in RawState /\ c \in Char /\ RawEmit(ctx, c) = <<>> /\ RawGoto(ctx, c) = to
    BY <1>2 DEF SilentRaw
  <2>2. PICK x \in Seq(Char) : x = Pending(to, t)
    <3>1. to \in State
      BY <2>1, GotoType DEF RawState, State
    <3> QED
      BY <3>1, PendingType
  <2>3. DecodesTo(Pending(ctx, Cons(c, t)), FALSE) = Then(RawEmit(ctx, c), x, FALSE)
    BY <2>1, <2>2, StepsRaw
  <2>4. Then(<<>>, x, FALSE) = DecodesTo(x, FALSE)
    BY ThenIs
  <2> QED
    BY <2>1, <2>2, <2>3, <2>4 DEF OnlyLeads
<1> QED
  BY <1>1, <1>2

\* The texts of Before, byte by byte.
LEMMA BeforeByBytes ==
    ASSUME NEW p \in Seq(Char)
    PROVE  /\ Before["CRLF"] \o p = Cons(CR, Cons(LF, p))
           /\ Before["EQ"] \o p = Cons(LF, Cons(EQ, p))
           /\ Before["CR"] \o p = Cons(CR, p)
           /\ Before["NONE"] \o p = Cons(LF, p)
           /\ Before["CRLFDT"] \o p = Cons(CR, Cons(LF, Cons(DOT, p)))
           /\ Before["CRLFDTCR"] \o p = Cons(CR, Cons(LF, Cons(DOT, Cons(CR, p))))
           /\ Before["CRLFEQ"] \o p = Cons(CR, Cons(LF, Cons(EQ, p)))
<1>1. /\ Before["CRLF"] = <<CR, LF>> /\ Before["EQ"] = <<LF, EQ>> /\ Before["CR"] = <<CR>>
      /\ Before["NONE"] = <<LF>> /\ Before["CRLFDT"] = <<CR, LF, DOT>>
      /\ Before["CRLFDTCR"] = <<CR, LF, DOT, CR>> /\ Before["CRLFEQ"] = <<CR, LF, EQ>>
  BY DEF Before
<1>2. <<CR, LF>> \o p = Cons(CR, Cons(LF, p)) /\ <<LF, EQ>> \o p = Cons(LF, Cons(EQ, p))
  BY Chars, ConsPair
<1>3. <<CR>> \o p = Cons(CR, p) /\ <<LF>> \o p = Cons(LF, p)
  BY DEF Cons
<1>4. ASSUME NEW a \in Char, NEW b \in Seq(Char) PROVE Cons(a, b) \o p = Cons(a, b \o p)
  <2>1. <<a>> \in Seq(Char)
    OBVIOUS
  <2>2. (<<a>> \o b) \o p = <<a>> \o (b \o p)
    BY <2>1, ConcatAssociative
  <2> QED
    BY <2>2 DEF Cons
<1>5. PICK d \in Seq(Char), q \in Seq(Char), r \in Seq(Char) :
         d = <<LF, DOT>> /\ q = <<LF, EQ>> /\ r = <<LF, DOT, CR>>
  <2>1. <<LF, DOT>> \in Seq(Char)
    BY Chars
  <2>2. <<LF, EQ>> \in Seq(Char)
    BY Chars
  <2>3. <<LF, DOT, CR>> \in Seq(Char)
    BY Chars
  <2> QED
    BY <2>1, <2>2, <2>3
<1>6. Cons(CR, d) = <<CR, LF, DOT>> /\ Cons(CR, q) = <<CR, LF, EQ>>
  <2>1. \A a, b, c \in Char : Cons(a, <<b, c>>) = <<a, b, c>>
    BY ConsTuples
  <2> QED
    BY <1>5, <2>1, Chars
<1>7. Cons(CR, r) = <<CR, LF, DOT, CR>>
  <2>1. \A a, b, c, e \in Char : Cons(a, <<b, c, e>>) = <<a, b, c, e>>
    BY ConsTuples
  <2> QED
    BY <1>5, <2>1, Chars
<1>8. PICK l \in Seq(Char) : l = <<DOT, CR>> /\ Cons(LF, l) = r
  <2>1. <<DOT, CR>> \in Seq(Char)
    BY Chars
  <2>2. \A a, b, c \in Char : Cons(a, <<b, c>>) = <<a, b, c>>
    BY ConsTuples
  <2> QED
    BY <1>5, <2>1, <2>2, Chars
<1>9. d \o p = Cons(LF, Cons(DOT, p)) /\ q \o p = Cons(LF, Cons(EQ, p)) /\ l \o p = Cons(DOT, Cons(CR, p))
  BY <1>5, <1>8, Chars, ConsPair
<1>10. r \o p = Cons(LF, l \o p)
  BY <1>4, <1>8, Chars
<1>11. Cons(CR, d) \o p = Cons(CR, d \o p) /\ Cons(CR, q) \o p = Cons(CR, q \o p) /\ Cons(CR, r) \o p = Cons(CR, r \o p)
  BY <1>4, Chars
<1> QED
  BY <1>1, <1>2, <1>3, <1>6, <1>7, <1>9, <1>10, <1>11

LEMMA SilentBytes ==
    ASSUME NEW y \in Seq(Char)
    PROVE  /\ OnlyLeads("CRLF", CR, "CR", y, TRUE)
           /\ OnlyLeads("CR", LF, "CRLF", y, TRUE)
           /\ OnlyLeads("CRLF", LF, "NONE", y, TRUE)
           /\ OnlyLeads("NONE", EQ, "EQ", y, TRUE)
           /\ OnlyLeads("CRLF", DOT, "CRLFDT", y, TRUE)
           /\ OnlyLeads("CRLFDT", CR, "CRLFDTCR", y, TRUE)
           /\ OnlyLeads("CRLF", EQ, "CRLFEQ", y, TRUE)
           /\ OnlyLeads("CRLF", CR, "CR", y, FALSE)
           /\ OnlyLeads("CR", LF, "CRLF", y, FALSE)
           /\ OnlyLeads("CRLF", LF, "NONE", y, FALSE)
           /\ OnlyLeads("NONE", EQ, "EQ", y, FALSE)
<1>1. /\ Emit("NONE", CR) = <<>> /\ Emit("NONE", LF) = <<>> /\ Emit("NONE", EQ) = <<>>
  BY EndTable
<1>2. /\ "CRLF" \in State /\ "CR" \in State /\ "NONE" \in State /\ "CRLFDT" \in State
      /\ "CRLF" \in RawState /\ "CR" \in RawState /\ "NONE" \in RawState
  BY DEF State, RawState
<1>3. AfterPlain(CR) = "CR" /\ AfterPlain(LF) = "NONE" /\ AfterPlain(EQ) = "EQ"
  BY CharsDiffer DEF AfterPlain
<1>4. SilentEnd("CRLF", CR, "CR")
  BY <1>1, <1>2, <1>3, Chars, CharsDiffer, EndTable DEF SilentEnd
<1>5. SilentEnd("CR", LF, "CRLF")
  BY <1>1, <1>2, <1>3, Chars, CharsDiffer, EndTable DEF SilentEnd
<1>6. SilentEnd("CRLF", LF, "NONE")
  BY <1>1, <1>2, <1>3, Chars, CharsDiffer, EndTable DEF SilentEnd
<1>7. SilentEnd("NONE", EQ, "EQ")
  BY <1>1, <1>2, <1>3, Chars, CharsDiffer, EndTable DEF SilentEnd
<1>8. SilentEnd("CRLF", DOT, "CRLFDT")
  BY <1>1, <1>2, <1>3, Chars, CharsDiffer, EndTable DEF SilentEnd
<1>9. SilentEnd("CRLFDT", CR, "CRLFDTCR")
  BY <1>1, <1>2, <1>3, Chars, CharsDiffer, EndTable DEF SilentEnd
<1>10. SilentEnd("CRLF", EQ, "CRLFEQ")
  BY <1>1, <1>2, <1>3, Chars, CharsDiffer, EndTable DEF SilentEnd
<1>11. SilentRaw("CRLF", CR, "CR")
  BY <1>1, <1>2, <1>3, Chars, CharsDiffer, RawTable DEF SilentRaw
<1>12. SilentRaw("CR", LF, "CRLF")
  BY <1>1, <1>2, <1>3, Chars, CharsDiffer, RawTable DEF SilentRaw
<1>13. SilentRaw("CRLF", LF, "NONE")
  BY <1>1, <1>2, <1>3, Chars, CharsDiffer, RawTable DEF SilentRaw
<1>14. SilentRaw("NONE", EQ, "EQ")
  BY <1>1, <1>2, <1>3, Chars, CharsDiffer, RawTable DEF SilentRaw
<1> QED
  BY <1>4, <1>5, <1>6, <1>7, <1>8, <1>9, <1>10, <1>11, <1>12, <1>13, <1>14, SilentLeads

(* The text that leads to a context is decoded to nothing.                 *)
LEMMA BeforeIsSilent ==
    ASSUME NEW p \in Seq(Char)
    PROVE  /\ \A x \in State : DecodesTo(Pending("CRLF", Before[x] \o p), TRUE) = DecodesTo(Pending(x, p), TRUE)
           /\ \A x \in RawState : DecodesTo(Pending("CRLF", Before[x] \o p), FALSE) = DecodesTo(Pending(x, p), FALSE)
           /\ \A x \in PlainState : Unescape(Before[x] \o p, FALSE) = Unescape(Pending(x, p), FALSE)
<1> DEFINE Silent(x, fe) == DecodesTo(Pending("CRLF", Before[x] \o p), fe) = DecodesTo(Pending(x, p), fe)
<1>1. PICK e \in Seq(Char), d \in Seq(Char), l \in Seq(Char), r \in Seq(Char) :
        e = Cons(EQ, p) /\ d = Cons(DOT, p) /\ l = Cons(LF, p) /\ r = Cons(CR, p)
  BY Chars, ConsIs
<1>2. PICK dr \in Seq(Char), le \in Seq(Char), ld \in Seq(Char) :
        dr = Cons(DOT, r) /\ le = Cons(LF, e) /\ ld = Cons(LF, d)
  BY Chars, ConsIs
<1>3. PICK ldr \in Seq(Char) : ldr = Cons(LF, dr)
  BY Chars, ConsIs
<1>4. Silent("CRLF", TRUE) /\ Silent("CRLF", FALSE)
  <2>1. Before["CRLF"] \o p = Cons(CR, l)
    BY <1>1, BeforeByBytes
  <2>2. /\ DecodesTo(Pending("CRLF", Cons(CR, l)), TRUE) = DecodesTo(Pending("CR", l), TRUE)
        /\ DecodesTo(Pending("CRLF", Cons(CR, l)), FALSE) = DecodesTo(Pending("CR", l), FALSE)
    BY SilentBytes DEF OnlyLeads
  <2>3. /\ DecodesTo(Pending("CR", l), TRUE) = DecodesTo(Pending("CRLF", p), TRUE)
        /\ DecodesTo(Pending("CR", l), FALSE) = DecodesTo(Pending("CRLF", p), FALSE)
    BY <1>1, SilentBytes DEF OnlyLeads
  <2> QED
    BY <2>1, <2>2, <2>3
<1>5. Silent("EQ", TRUE) /\ Silent("EQ", FALSE)
  <2>1. Before["EQ"] \o p = Cons(LF, e)
    BY <1>1, BeforeByBytes
  <2>2. /\ DecodesTo(Pending("CRLF", Cons(LF, e)), TRUE) = DecodesTo(Pending("NONE", e), TRUE)
        /\ DecodesTo(Pending("CRLF", Cons(LF, e)), FALSE) = DecodesTo(Pending("NONE", e), FALSE)
    BY SilentBytes DEF OnlyLeads
  <2>3. /\ DecodesTo(Pending("NONE", e), TRUE) = DecodesTo(Pending("EQ", p), TRUE)
        /\ DecodesTo(Pending("NONE", e), FALSE) = DecodesTo(Pending("EQ", p), FALSE)
    BY <1>1, SilentBytes DEF OnlyLeads
  <2> QED
    BY <2>1, <2>2, <2>3
<1>6. Silent("CR", TRUE) /\ Silent("CR", FALSE)
  <2>1. Before["CR"] \o p = Cons(CR, p)
    BY BeforeByBytes
  <2>2. /\ DecodesTo(Pending("CRLF", Cons(CR, p)), TRUE) = DecodesTo(Pending("CR", p), TRUE)
        /\ DecodesTo(Pending("CRLF", Cons(CR, p)), FALSE) = DecodesTo(Pending("CR", p), FALSE)
    BY SilentBytes DEF OnlyLeads
  <2> QED
    BY <2>1, <2>2
<1>7. Silent("NONE", TRUE) /\ Silent("NONE", FALSE)
  <2>1. Before["NONE"] \o p = Cons(LF, p)
    BY BeforeByBytes
  <2>2. /\ DecodesTo(Pending("CRLF", Cons(LF, p)), TRUE) = DecodesTo(Pending("NONE", p), TRUE)
        /\ DecodesTo(Pending("CRLF", Cons(LF, p)), FALSE) = DecodesTo(Pending("NONE", p), FALSE)
    BY SilentBytes DEF OnlyLeads
  <2> QED
    BY <2>1, <2>2
<1>8. Silent("CRLFDT", TRUE)
  <2>1. Before["CRLFDT"] \o p = Cons(CR, ld)
    BY <1>1, <1>2, BeforeByBytes
  <2>2. DecodesTo(Pending("CRLF", Cons(CR, ld)), TRUE) = DecodesTo(Pending("CR", ld), TRUE)
    BY SilentBytes DEF OnlyLeads
  <2>3. DecodesTo(Pending("CR", ld), TRUE) = DecodesTo(Pending("CRLF", d), TRUE)
    BY <1>2, SilentBytes DEF OnlyLeads
  <2>4. DecodesTo(Pending("CRLF", d), TRUE) = DecodesTo(Pending("CRLFDT", p), TRUE)
    BY <1>1, SilentBytes DEF OnlyLeads
  <2> QED
    BY <2>1, <2>2, <2>3, <2>4
<1>9. Silent("CRLFDTCR", TRUE)
  <2>1. Before["CRLFDTCR"] \o p = Cons(CR, ldr)
    BY <1>1, <1>2, <1>3, BeforeByBytes
  <2>2. DecodesTo(Pending("CRLF", Cons(CR, ldr)), TRUE) = DecodesTo(Pending("CR", ldr), TRUE)
    BY SilentBytes DEF OnlyLeads
  <2>3. DecodesTo(Pending("CR", ldr), TRUE) = DecodesTo(Pending("CRLF", dr), TRUE)
    BY <1>3, SilentBytes DEF OnlyLeads
  <2>4. DecodesTo(Pending("CRLF", dr), TRUE) = DecodesTo(Pending("CRLFDT", r), TRUE)
    BY <1>2, SilentBytes DEF OnlyLeads
  <2>5. DecodesTo(Pending("CRLFDT", r), TRUE) = DecodesTo(Pending("CRLFDTCR", p), TRUE)
    BY <1>1, SilentBytes DEF OnlyLeads
  <2> QED
    BY <2>1, <2>2, <2>3, <2>4, <2>5
<1>10. Silent("CRLFEQ", TRUE)
  <2>1. Before["CRLFEQ"] \o p = Cons(CR, le)
    BY <1>1, <1>2, BeforeByBytes
  <2>2. DecodesTo(Pending("CRLF", Cons(CR, le)), TRUE) = DecodesTo(Pending("CR", le), TRUE)
    BY SilentBytes DEF OnlyLeads
  <2>3. DecodesTo(Pending("CR", le), TRUE) = DecodesTo(Pending("CRLF", e), TRUE)
    BY <1>2, SilentBytes DEF OnlyLeads
  <2>4. DecodesTo(Pending("CRLF", e), TRUE) = DecodesTo(Pending("CRLFEQ", p), TRUE)
    BY <1>1, SilentBytes DEF OnlyLeads
  <2> QED
    BY <2>1, <2>2, <2>3, <2>4
<1>11. \A x \in PlainState : Unescape(Before[x] \o p, FALSE) = Unescape(Pending(x, p), FALSE)
  <2>1. Unescape(Cons(LF, p), FALSE) = Unescape(p, FALSE) /\ Unescape(Cons(LF, e), FALSE) = Unescape(e, FALSE)
    BY Chars, CharsDiffer, UnescapeOther
  <2>2. Before["NONE"] \o p = Cons(LF, p) /\ Before["EQ"] \o p = Cons(LF, e)
    BY <1>1, BeforeByBytes
  <2>3. Pending("NONE", p) = p /\ Pending("EQ", p) = e
    BY <1>1, PendingIs
  <2> QED
    BY <2>1, <2>2, <2>3 DEF PlainState
<1> HIDE DEF Silent
<1>12. \A x \in State : Silent(x, TRUE)
  BY <1>4, <1>5, <1>6, <1>7, <1>8, <1>9, <1>10 DEF State
<1>13. \A x \in RawState : Silent(x, FALSE)
  BY <1>4, <1>5, <1>6, <1>7 DEF RawState
<1> QED
  BY <1>11, <1>12, <1>13 DEF Silent

-----------------------------------------------------------------------------
(* The streams.  What has been decoded of a chunk is what its bytes so far *)
(* come to from the context it began in.                                   *)

Contexts(m) == IF m = "nntp-end" THEN State ELSE IF m = "nntp" THEN RawState ELSE PlainState

ComesTo(m, s, ctx) ==
    IF m = "nntp-end" THEN E!After(s, ctx).decoded
    ELSE IF m = "nntp" THEN N!After(s, ctx).decoded ELSE U!After(s, ctx).decoded

NothingYet(ctx) == [ctx |-> ctx, out |-> <<>>, ended |-> "NONE"]

Onwards(m, d, c) ==
    IF m = "nntp-end"
    THEN [ctx |-> Goto(d.ctx, c), out |-> d.out \o Emit(d.ctx, c), ended |-> Verdict(d.ctx, c)]
    ELSE IF m = "nntp"
    THEN [ctx |-> RawGoto(d.ctx, c), out |-> d.out \o RawEmit(d.ctx, c), ended |-> NoEnd(d.ctx, c)]
    ELSE [ctx |-> UnstuffedGoto(d.ctx, c), out |-> d.out \o UnstuffedEmit(d.ctx, c), ended |-> NoEnd(d.ctx, c)]

Mode == {"nntp-end", "nntp", "plain"}

StreamInv ==
    /\ mode \in Mode
    /\ chunk \in Seq(Char) /\ at \in 0..Len(chunk)
    /\ start \in Contexts(mode)
    /\ decoded = ComesTo(mode, SubSeq(chunk, 1, at), start)

LEMMA ComesToNothing ==
    ASSUME NEW m \in Mode, NEW ctx \in Contexts(m), NEW s
    PROVE  ComesTo(m, <<>>, ctx) = NothingYet(ctx) /\ SubSeq(s, 1, 0) = <<>>
<1>1. CASE m = "nntp-end"
  <2>1. E!After(<<>>, ctx) = E!Beginning(ctx)
    BY <1>1, Automata, E!AfterEmpty DEF Contexts
  <2> QED
    BY <1>1, <2>1, SubSeqEmpty DEF ComesTo, NothingYet, E!Beginning, E!Fresh
<1>2. CASE m = "nntp"
  <2>1. N!After(<<>>, ctx) = N!Beginning(ctx)
    BY <1>2, Automata, N!AfterEmpty DEF Contexts
  <2> QED
    BY <1>2, <2>1, SubSeqEmpty DEF ComesTo, NothingYet, N!Beginning, N!Fresh
<1>3. CASE m = "plain"
  <2>1. U!After(<<>>, ctx) = U!Beginning(ctx)
    BY <1>3, Automata, U!AfterEmpty DEF Contexts
  <2> QED
    BY <1>3, <2>1, SubSeqEmpty DEF ComesTo, NothingYet, U!Beginning, U!Fresh
<1> QED
  BY <1>1, <1>2, <1>3 DEF Mode

Decoded(m) == [ctx : Contexts(m), out : Seq(Byte), ended : End]

LEMMA ComesToType ==
    ASSUME NEW m \in Mode, NEW ctx \in Contexts(m), NEW s \in Seq(Char)
    PROVE  ComesTo(m, s, ctx) \in Decoded(m)
<1>1. CASE m = "nntp-end"
  <2>1. E!After(s, ctx) \in E!Outcome(State, Byte, End)
    BY <1>1, Automata, E!AfterType DEF Contexts
  <2> QED
    BY <1>1, <2>1 DEF ComesTo, Contexts, Decoded, E!Outcome
<1>2. CASE m = "nntp"
  <2>1. N!After(s, ctx) \in N!Outcome(RawState, Byte, End)
    BY <1>2, Automata, N!AfterType DEF Contexts
  <2> QED
    BY <1>2, <2>1 DEF ComesTo, Contexts, Decoded, N!Outcome
<1>3. CASE m = "plain"
  <2>1. U!After(s, ctx) \in U!Outcome(PlainState, Byte, End)
    BY <1>3, Automata, U!AfterType DEF Contexts
  <2> QED
    BY <1>3, <2>1 DEF ComesTo, Contexts, Decoded, U!Outcome
<1> QED
  BY <1>1, <1>2, <1>3 DEF Mode

LEMMA ComesToNext ==
    ASSUME NEW m \in Mode, NEW ctx \in Contexts(m), NEW s \in Seq(Char),
           NEW n \in Nat, n < Len(s), ComesTo(m, SubSeq(s, 1, n), ctx).ended = "NONE"
    PROVE  ComesTo(m, SubSeq(s, 1, n + 1), ctx) = Onwards(m, ComesTo(m, SubSeq(s, 1, n), ctx), s[n + 1])
<1>1. CASE m = "nntp-end"
  <2>1. E!After(SubSeq(s, 1, n), ctx).decoded.ended = "NONE"
    BY <1>1 DEF ComesTo
  <2>2. E!After(SubSeq(s, 1, n + 1), ctx).decoded = E!Eat(E!After(SubSeq(s, 1, n), ctx).decoded, s[n + 1])
    BY <1>1, <2>1, Automata, E!EatNext DEF Contexts
  <2> QED
    BY <1>1, <2>2 DEF ComesTo, Onwards, E!Eat
<1>2. CASE m = "nntp"
  <2>1. N!After(SubSeq(s, 1, n), ctx).decoded.ended = "NONE"
    BY <1>2 DEF ComesTo
  <2>2. N!After(SubSeq(s, 1, n + 1), ctx).decoded = N!Eat(N!After(SubSeq(s, 1, n), ctx).decoded, s[n + 1])
    BY <1>2, <2>1, Automata, N!EatNext DEF Contexts
  <2> QED
    BY <1>2, <2>2 DEF ComesTo, Onwards, N!Eat
<1>3. CASE m = "plain"
  <2>1. U!After(SubSeq(s, 1, n), ctx).decoded.ended = "NONE"
    BY <1>3 DEF ComesTo
  <2>2. U!After(SubSeq(s, 1, n + 1), ctx).decoded = U!Eat(U!After(SubSeq(s, 1, n), ctx).decoded, s[n + 1])
    BY <1>3, <2>1, Automata, U!EatNext DEF Contexts
  <2> QED
    BY <1>3, <2>2 DEF ComesTo, Onwards, U!Eat
<1> QED
  BY <1>1, <1>2, <1>3 DEF Mode

(* A step of a stream, whatever its mode.                                  *)
Consumes1 == /\ decoded.ended = "NONE" /\ at + 1 <= Len(chunk)
             /\ decoded' = Onwards(mode, decoded, chunk[at + 1])
             /\ at' = at + 1

Consumes2 == /\ decoded.ended = "NONE" /\ at + 2 <= Len(chunk)
             /\ Onwards(mode, decoded, chunk[at + 1]).ended = "NONE"
             /\ decoded' = Onwards(mode, Onwards(mode, decoded, chunk[at + 1]), chunk[at + 2])
             /\ at' = at + 2

Consumes3 == /\ decoded.ended = "NONE" /\ at + 3 <= Len(chunk)
             /\ Onwards(mode, decoded, chunk[at + 1]).ended = "NONE"
             /\ Onwards(mode, Onwards(mode, decoded, chunk[at + 1]), chunk[at + 2]).ended = "NONE"
             /\ decoded' = Onwards(mode, Onwards(mode, Onwards(mode, decoded, chunk[at + 1]), chunk[at + 2]),
                                   chunk[at + 3])
             /\ at' = at + 3

LEMMA ConsumeIs ==
    ASSUME Consume, mode \in Mode
    PROVE  UNCHANGED <<mode, start, chunk>> /\ (Consumes1 \/ Consumes2 \/ Consumes3)
<1>1. UNCHANGED <<mode, start>>
  BY DEF Consume
<1>2. CASE mode = "nntp-end" /\ (NntpEnd!Consume1 \/ NntpEnd!Consume2 \/ NntpEnd!Consume3)
  <2>1. \A d, c : NntpEnd!Eat(d, c) = Onwards(mode, d, c)
    BY <1>2 DEF NntpEnd!Eat, Onwards
  <2>2. CASE NntpEnd!Consume1
    BY <1>1, <2>1, <2>2 DEF NntpEnd!Consume1, Consumes1
  <2>3. CASE NntpEnd!Consume2
    BY <1>1, <2>1, <2>3 DEF NntpEnd!Consume2, Consumes2
  <2>4. CASE NntpEnd!Consume3
    BY <1>1, <2>1, <2>4 DEF NntpEnd!Consume3, Consumes3
  <2> QED
    BY <1>2, <2>2, <2>3, <2>4
<1>3. CASE mode = "nntp" /\ (Nntp!Consume1 \/ Nntp!Consume2 \/ Nntp!Consume3)
  <2>1. \A d, c : Nntp!Eat(d, c) = Onwards(mode, d, c)
    BY <1>3 DEF Nntp!Eat, Onwards
  <2>2. CASE Nntp!Consume1
    BY <1>1, <2>1, <2>2 DEF Nntp!Consume1, Consumes1
  <2>3. CASE Nntp!Consume2
    BY <1>1, <2>1, <2>3 DEF Nntp!Consume2, Consumes2
  <2>4. CASE Nntp!Consume3
    BY <1>1, <2>1, <2>4 DEF Nntp!Consume3, Consumes3
  <2> QED
    BY <1>3, <2>2, <2>3, <2>4
<1>4. CASE mode = "plain" /\ (Other!Consume1 \/ Other!Consume2 \/ Other!Consume3)
  <2>1. \A d, c : Other!Eat(d, c) = Onwards(mode, d, c)
    BY <1>4 DEF Other!Eat, Onwards
  <2>2. CASE Other!Consume1
    BY <1>1, <2>1, <2>2 DEF Other!Consume1, Consumes1
  <2>3. CASE Other!Consume2
    BY <1>1, <2>1, <2>3 DEF Other!Consume2, Consumes2
  <2>4. CASE Other!Consume3
    BY <1>1, <2>1, <2>4 DEF Other!Consume3, Consumes3
  <2> QED
    BY <1>4, <2>2, <2>3, <2>4
<1> QED
  BY <1>2, <1>3, <1>4 DEF Consume

LEMMA BytesSoFar ==
    ASSUME NEW s \in Seq(Char), NEW n \in 0..Len(s)
    PROVE  /\ SubSeq(s, 1, n) \in Seq(Char) /\ Len(SubSeq(s, 1, n)) = n
           /\ \A k \in 1..n : SubSeq(s, 1, n)[k] = s[k]
<1>1. Len(s) \in Nat /\ n \in Nat /\ \A k \in 1..n : s[k] \in Char
  BY LenProperties, ElementOfSeq
<1> QED
  BY <1>1, SubSeqProperties

LEMMA BeforeType == ASSUME NEW x \in State PROVE Before[x] \in Seq(Char)
<1>1. <<CR, LF>> \in Seq(Char) /\ <<LF, EQ>> \in Seq(Char) /\ <<CR>> \in Seq(Char) /\ <<LF>> \in Seq(Char)
  BY Chars
<1>2. <<CR, LF, DOT>> \in Seq(Char) /\ <<CR, LF, EQ>> \in Seq(Char)
  BY Chars
<1>3. <<CR, LF, DOT, CR>> \in Seq(Char)
  BY Chars
<1>4. /\ Before["CRLF"] = <<CR, LF>> /\ Before["EQ"] = <<LF, EQ>> /\ Before["CR"] = <<CR>>
      /\ Before["NONE"] = <<LF>> /\ Before["CRLFDT"] = <<CR, LF, DOT>>
      /\ Before["CRLFDTCR"] = <<CR, LF, DOT, CR>> /\ Before["CRLFEQ"] = <<CR, LF, EQ>>
  BY DEF Before
<1> QED
  BY <1>1, <1>2, <1>3, <1>4 DEF State

(* It holds for a chunk of which nothing has been read,                    *)
LEMMA Afresh ==
    ASSUME NEW m \in Mode, NEW s \in Seq(Char), NEW ctx \in Contexts(m)
    PROVE  0 \in 0..Len(s) /\ NothingYet(ctx) = ComesTo(m, SubSeq(s, 1, 0), ctx)
<1>1. PICK q : q = SubSeq(s, 1, 0)
  OBVIOUS
<1>2. q = <<>> /\ ComesTo(m, <<>>, ctx) = NothingYet(ctx)
  BY <1>1, ComesToNothing
<1>3. 0 \in 0..Len(s)
  BY LenProperties
<1> QED
  BY <1>1, <1>2, <1>3

(* so when the stream is set up,                                           *)
LEMMA StreamStarts == ASSUME StreamInit PROVE StreamInv
<1>1. mode \in Mode /\ chunk = <<>> /\ at = 0 /\ start = decoded.ctx
  BY DEF StreamInit, Mode, Other!Init, NntpEnd!Init
<1>2. decoded = NothingYet(IF mode = "plain" THEN "NONE" ELSE "CRLF")
  BY DEF StreamInit, Other!Init, NntpEnd!Init, Other!Fresh, NntpEnd!Fresh, NothingYet
<1>3. start \in Contexts(mode) /\ decoded = NothingYet(start)
  BY <1>1, <1>2 DEF NothingYet, Contexts, Mode, State, RawState, PlainState
<1>4. chunk \in Seq(Char)
  BY <1>1, EmptySeq
<1>5. 0 \in 0..Len(chunk) /\ NothingYet(start) = ComesTo(mode, SubSeq(chunk, 1, 0), start)
  BY <1>1, <1>3, <1>4, Afresh
<1> QED
  BY <1>1, <1>3, <1>4, <1>5 DEF StreamInv

(* and after every byte.                                                   *)
LEMMA OneMore ==
    ASSUME NEW m \in Mode, NEW s \in Seq(Char), NEW ctx \in Contexts(m), NEW n \in 0..Len(s),
           NEW d, d = ComesTo(m, SubSeq(s, 1, n), ctx), d.ended = "NONE", n + 1 <= Len(s)
    PROVE  n + 1 \in 0..Len(s) /\ Onwards(m, d, s[n + 1]) = ComesTo(m, SubSeq(s, 1, n + 1), ctx)
<1>1. n \in Nat /\ n < Len(s) /\ n + 1 \in 0..Len(s)
  BY LenProperties
<1> QED
  BY <1>1, ComesToNext

LEMMA StreamGoesOn == ASSUME StreamInv, StreamNext PROVE StreamInv'
<1>0. /\ mode \in Mode /\ chunk \in Seq(Char) /\ at \in 0..Len(chunk)
      /\ start \in Contexts(mode) /\ decoded = ComesTo(mode, SubSeq(chunk, 1, at), start)
  BY DEF StreamInv
<1>1. <<>> \in Seq(Char) /\ Len(<<>>) = 0
  BY EmptySeq
<1>2. ASSUME mode' = mode, NEW s \in Seq(Char), chunk' = s, at' = 0, NEW ctx \in Contexts(mode),
             start' = ctx, decoded' = NothingYet(ctx)
      PROVE  StreamInv'
  <2>1. 0 \in 0..Len(s) /\ NothingYet(ctx) = ComesTo(mode, SubSeq(s, 1, 0), ctx)
    BY <1>0, Afresh
  <2> QED
    BY <1>0, <1>2, <2>1 DEF StreamInv
<1>3. CASE Deliver
  <2>1. chunk = <<>> /\ chunk' \in Chunk /\ UNCHANGED <<at, decoded, mode, start>>
    BY <1>3 DEF Deliver, NntpEnd!Deliver
  <2>2. chunk' \in Seq(Char)
    BY <2>1, ChunkAssumption
  <2>3. at = 0
    BY <1>0, <1>1, <2>1
  <2>4. decoded = NothingYet(start)
    BY <1>0, <2>3, Afresh
  <2> QED
    BY <1>0, <1>2, <2>1, <2>2, <2>3, <2>4
<1>4. CASE Collect
  <2>1. chunk' = <<>> /\ at' = 0 /\ start' = decoded.ctx /\ mode' = mode /\ decoded' = NothingYet(decoded.ctx)
    BY <1>4 DEF Collect, NntpEnd!Collect, NntpEnd!Fresh, NothingYet
  <2>2. SubSeq(chunk, 1, at) \in Seq(Char)
    BY <1>0, BytesSoFar
  <2>3. decoded.ctx \in Contexts(mode)
    BY <1>0, <2>2, ComesToType DEF Decoded
  <2> QED
    BY <1>1, <1>2, <2>1, <2>3
<1>5. CASE Restart
  <2> DEFINE ctx == IF mode = "plain" THEN "NONE" ELSE "CRLF"
  <2>1. chunk' = <<>> /\ at' = 0 /\ mode' = mode /\ start' = decoded'.ctx
        /\ decoded' = [ctx |-> ctx, out |-> <<>>, ended |-> "NONE"]
    BY <1>5 DEF Restart, NntpEnd!Restart, NntpEnd!Fresh, Other!Restart, Other!Fresh
  <2>2. ctx \in Contexts(mode)
    BY <1>0 DEF Contexts, Mode, State, RawState, PlainState
  <2> HIDE DEF ctx
  <2>3. decoded' = NothingYet(ctx) /\ start' = ctx
    BY <2>1 DEF NothingYet
  <2> QED
    BY <1>1, <1>2, <2>1, <2>2, <2>3
<1>6. CASE Consume
  <2>0. UNCHANGED <<mode, start, chunk>> /\ (Consumes1 \/ Consumes2 \/ Consumes3)
    BY <1>0, <1>6, ConsumeIs
  <2>1. PICK d : d = Onwards(mode, decoded, chunk[at + 1])
    OBVIOUS
  <2>2. PICK e : e = Onwards(mode, d, chunk[at + 2])
    OBVIOUS
  <2>3. at \in Nat /\ Len(chunk) \in Nat /\ at + 1 + 1 = at + 2 /\ at + 2 + 1 = at + 3
    BY <1>0, LenProperties
  <2>4. ASSUME decoded.ended = "NONE", at + 1 <= Len(chunk)
        PROVE  at + 1 \in 0..Len(chunk) /\ d = ComesTo(mode, SubSeq(chunk, 1, at + 1), start)
    BY <1>0, <2>1, <2>4, OneMore
  <2>5. ASSUME decoded.ended = "NONE", d.ended = "NONE", at + 2 <= Len(chunk)
        PROVE  at + 2 \in 0..Len(chunk) /\ e = ComesTo(mode, SubSeq(chunk, 1, at + 2), start)
    <3>1. PICK n \in 0..Len(chunk) : n = at + 1 /\ d = ComesTo(mode, SubSeq(chunk, 1, n), start)
      BY <2>3, <2>4, <2>5
    <3>2. n + 1 \in 0..Len(chunk) /\ Onwards(mode, d, chunk[n + 1]) = ComesTo(mode, SubSeq(chunk, 1, n + 1), start)
      <4>1. n + 1 <= Len(chunk)
        BY <2>3, <2>5, <3>1
      <4> QED
        BY <1>0, <2>5, <3>1, <4>1, OneMore
    <3>3. n + 1 = at + 2
      BY <2>3, <3>1
    <3> QED
      BY <2>2, <3>2, <3>3
  <2>6. ASSUME decoded.ended = "NONE", d.ended = "NONE", e.ended = "NONE", at + 3 <= Len(chunk)
        PROVE  at + 3 \in 0..Len(chunk) /\ Onwards(mode, e, chunk[at + 3]) = ComesTo(mode, SubSeq(chunk, 1, at + 3), start)
    <3>1. PICK n \in 0..Len(chunk) : n = at + 2 /\ e = ComesTo(mode, SubSeq(chunk, 1, n), start)
      BY <2>3, <2>5, <2>6
    <3>2. n + 1 \in 0..Len(chunk) /\ Onwards(mode, e, chunk[n + 1]) = ComesTo(mode, SubSeq(chunk, 1, n + 1), start)
      <4>1. n + 1 <= Len(chunk)
        BY <2>3, <2>6, <3>1
      <4> QED
        BY <1>0, <2>6, <3>1, <4>1, OneMore
    <3>3. n + 1 = at + 3
      BY <2>3, <3>1
    <3> QED
      BY <3>2, <3>3
  <2>7. CASE Consumes1
    BY <1>0, <2>0, <2>1, <2>4, <2>7 DEF Consumes1, StreamInv
  <2>8. CASE Consumes2
    BY <1>0, <2>0, <2>1, <2>2, <2>5, <2>8 DEF Consumes2, StreamInv
  <2>9. CASE Consumes3
    BY <1>0, <2>0, <2>1, <2>2, <2>6, <2>9 DEF Consumes3, StreamInv
  <2> QED
    BY <2>0, <2>7, <2>8, <2>9
<1> QED
  BY <1>3, <1>4, <1>5, <1>6 DEF StreamNext

(* What has been decoded of a chunk is what its bytes so far come to from  *)
(* the context it began in, in all three modes.                            *)
THEOREM StreamInvariance == StreamSpec => []StreamInv
<1>1. StreamInit => StreamInv
  BY StreamStarts
<1>2. StreamInv /\ [StreamNext]_stream => StreamInv'
  <2>1. ASSUME StreamInv, UNCHANGED stream PROVE StreamInv'
    BY <2>1 DEF StreamInv, stream
  <2> QED
    BY <2>1, StreamGoesOn
<1> QED
  BY <1>1, <1>2, PTL DEF StreamSpec

(* In every state of every stream, in the three modes and whatever chunks  *)
(* it is cut into, what has been decoded is what the reference decoder     *)
(* (refYDec and refYDecRaw, src/test/testdec.js) makes of the same bytes.  *)
THEOREM DecodesAsReference == StreamSpec => []AgreesWithReference
<1>1. ASSUME StreamInv PROVE AgreesWithReference
  <2>0. /\ mode \in Mode /\ chunk \in Seq(Char) /\ at \in 0..Len(chunk)
        /\ start \in Contexts(mode) /\ decoded = ComesTo(mode, SubSeq(chunk, 1, at), start)
    BY <1>1 DEF StreamInv
  <2>1. PICK p \in Seq(Char) : p = SubSeq(chunk, 1, at)
    BY <2>0, BytesSoFar
  <2>2. start \in State
    BY <2>0 DEF Contexts, State, RawState, PlainState
  <2>3. PICK t \in Seq(Char) : t = Before[start] \o p /\ Text = t
    <3>1. Before[start] \in Seq(Char)
      BY <2>2, BeforeType
    <3>2. Before[start] \o p \in Seq(Char)
      BY <3>1, ConcatProperties
    <3> QED
      BY <2>1, <3>2 DEF Text
  <2>4. CASE mode = "nntp-end"
    <3>1. decoded.out = DecodesTo(Pending(start, p), TRUE)
      BY <2>0, <2>1, <2>4, EndDecodes DEF ComesTo, Contexts
    <3>2. DecodesTo(Pending("CRLF", t), TRUE) = DecodesTo(Pending(start, p), TRUE)
      BY <2>2, <2>3, BeforeIsSilent
    <3>3. RefYDecRaw(t, TRUE) = DecodesTo(Pending("CRLF", t), TRUE)
      BY RefOfText
    <3> QED
      BY <2>3, <2>4, <3>1, <3>2, <3>3 DEF AgreesWithReference, Reference
  <2>5. CASE mode = "nntp"
    <3>0. start \in RawState
      BY <2>0, <2>5 DEF Contexts
    <3>1. decoded.out = DecodesTo(Pending(start, p), FALSE)
      BY <2>0, <2>1, <2>5, <3>0, RawDecodes DEF ComesTo
    <3>2. DecodesTo(Pending("CRLF", t), FALSE) = DecodesTo(Pending(start, p), FALSE)
      BY <2>3, <3>0, BeforeIsSilent
    <3>3. RefYDecRaw(t, FALSE) = DecodesTo(Pending("CRLF", t), FALSE)
      BY RefOfText
    <3> QED
      BY <2>3, <2>5, <3>1, <3>2, <3>3 DEF AgreesWithReference, Reference
  <2>6. CASE mode = "plain"
    <3>0. start \in PlainState
      BY <2>0, <2>6 DEF Contexts
    <3>1. decoded.out = Unescape(Pending(start, p), FALSE)
      BY <2>0, <2>1, <2>6, <3>0, UnstuffedDecodes DEF ComesTo
    <3>2. Unescape(t, FALSE) = Unescape(Pending(start, p), FALSE)
      BY <2>3, <3>0, BeforeIsSilent
    <3>3. RefYDec(t, FALSE) = Unescape(t, FALSE)
      BY DEF RefYDec
    <3> QED
      BY <2>3, <2>6, <3>1, <3>2, <3>3 DEF AgreesWithReference, Reference
  <2> QED
    BY <2>0, <2>4, <2>5, <2>6 DEF Mode
<1> QED
  BY <1>1, StreamInvariance, PTL

-----------------------------------------------------------------------------
(* Where a stream ends.  The bytes before the current one, from the last   *)
(* one back; before the first one there is none.                           *)
NoByte == "no byte"

Back(w, k) == IF k < Len(w) THEN w[Len(w) - k] ELSE NoByte

(* A text ends in another if their last bytes are the same ones.           *)
LEMMA ReverseIs ==
    ASSUME NEW S, NEW s \in Seq(S)
    PROVE  /\ Reverse(s) \in Seq(S) /\ Len(Reverse(s)) = Len(s)
           /\ \A k \in 1..Len(s) : Reverse(s)[k] = s[Len(s) - k + 1]
<1>1. Len(s) \in Nat /\ \A k \in 1..Len(s) : s[k] \in S
  BY LenProperties, ElementOfSeq
<1>2. \A k \in 1..Len(s) : Len(s) - k + 1 \in 1..Len(s)
  BY <1>1
<1>3. Reverse(s) \in [1..Len(s) -> S]
  BY <1>1, <1>2 DEF Reverse
<1>4. Reverse(s) \in Seq(S) /\ Len(Reverse(s)) = Len(s)
  BY <1>1, <1>3
<1> QED
  BY <1>1, <1>4 DEF Reverse

LEMMA SuffixByBytes ==
    ASSUME NEW s \in Seq(Special), NEW w \in Seq(Char)
    PROVE  IsSuffix(s, w) <=> \A k \in 1..Len(s) : Back(w, k - 1) = s[Len(s) - k + 1]
<1>1. s \in Seq(Char) /\ Len(s) \in Nat /\ Len(w) \in Nat
  BY LenProperties DEF Char
<1>2. PICK a \in Seq(Char) : /\ a = Reverse(s) /\ Len(a) = Len(s)
                             /\ \A k \in 1..Len(s) : a[k] = s[Len(s) - k + 1]
  BY <1>1, ReverseIs
<1>3. PICK b \in Seq(Char) : /\ b = Reverse(w) /\ Len(b) = Len(w)
                             /\ \A k \in 1..Len(w) : b[k] = w[Len(w) - k + 1]
  BY ReverseIs
<1>4. IsSuffix(s, w) <=> Begins(a, b)
  BY <1>2, <1>3, PrefixByBytes DEF IsSuffix
<1>5. \A k \in 1..Len(s) : s[Len(s) - k + 1] # NoByte
  <2>1. \A k \in 1..Len(s) : Len(s) - k + 1 \in 1..Len(s)
    BY <1>1
  <2>2. \A k \in 1..Len(s) : s[k] \in Special
    BY ElementOfSeq
  <2>3. NoByte \notin Special
    BY DEF NoByte, Special, CR, LF, DOT, EQ, Y
  <2> QED
    BY <2>1, <2>2, <2>3
<1>6. \A k \in 1..Len(s) : Back(w, k - 1) = IF k <= Len(w) THEN b[k] ELSE NoByte
  <2> SUFFICES ASSUME NEW k \in 1..Len(s) PROVE Back(w, k - 1) = IF k <= Len(w) THEN b[k] ELSE NoByte
    OBVIOUS
  <2>1. (k - 1 < Len(w) <=> k <= Len(w)) /\ Len(w) - (k - 1) = Len(w) - k + 1
    BY <1>1
  <2>2. k <= Len(w) => b[k] = w[Len(w) - k + 1]
    BY <1>1, <1>3
  <2>3. Back(w, k - 1) = IF k - 1 < Len(w) THEN w[Len(w) - (k - 1)] ELSE NoByte
    BY DEF Back
  <2>4. CASE k <= Len(w)
    BY <2>1, <2>2, <2>3, <2>4
  <2>5. CASE ~(k <= Len(w))
    BY <2>1, <2>3, <2>5
  <2> QED
    BY <2>4, <2>5
<1>7. ASSUME Begins(a, b) PROVE \A k \in 1..Len(s) : Back(w, k - 1) = s[Len(s) - k + 1]
  <2>1. \A k \in 1..Len(s) : k <= Len(w) /\ a[k] = b[k]
    <3>1. PICK n, m : n = Len(s) /\ m = Len(w)
      OBVIOUS
    <3>2. n \in Nat /\ m \in Nat /\ n <= m /\ \A k \in 1..n : a[k] = b[k]
      <4>1. Len(a) <= Len(b) /\ \A k \in 1..Len(a) : a[k] = b[k]
        BY <1>7 DEF Begins
      <4>2. Len(a) = Len(s) /\ Len(b) = Len(w)
        BY <1>2, <1>3
      <4> QED
        BY <1>1, <3>1, <4>1, <4>2
    <3> QED
      BY <3>1, <3>2
  <2> QED
    BY <1>2, <1>6, <2>1
<1>8. ASSUME \A k \in 1..Len(s) : Back(w, k - 1) = s[Len(s) - k + 1] PROVE Begins(a, b)
  <2>1. \A k \in 1..Len(s) : k <= Len(w) /\ a[k] = b[k]
    BY <1>2, <1>5, <1>6, <1>8
  <2>2. Len(s) <= Len(w)
    BY <1>1, <2>1
  <2> QED
    BY <1>2, <1>3, <2>1, <2>2 DEF Begins
<1> QED
  BY <1>4, <1>7, <1>8

EndsControl(w) == /\ Back(w, 0) = Y /\ Back(w, 1) = EQ
                /\ \/ Back(w, 2) = LF /\ Back(w, 3) = CR
                   \/ Back(w, 2) = DOT /\ Back(w, 3) = LF /\ Back(w, 4) = CR

EndsArticle(w) == /\ Back(w, 0) = LF /\ Back(w, 1) = CR /\ Back(w, 2) = DOT
                  /\ Back(w, 3) = LF /\ Back(w, 4) = CR

LEMMA EndsInByBytes ==
    ASSUME NEW w \in Seq(Char)
    PROVE  /\ EndsIn(w, "CONTROL") <=> EndsControl(w)
           /\ EndsIn(w, "ARTICLE") <=> EndsArticle(w)
<1>0. CR \in Special /\ LF \in Special /\ DOT \in Special /\ EQ \in Special /\ Y \in Special
  BY DEF Special
<1>1. IsSuffix(<<CR, LF, EQ, Y>>, w) <=>
        Back(w, 0) = Y /\ Back(w, 1) = EQ /\ Back(w, 2) = LF /\ Back(w, 3) = CR
  <2>1. PICK s : s = <<CR, LF, EQ, Y>>
    OBVIOUS
  <2>2. s \in Seq(Special) /\ Len(s) = 4 /\ s[1] = CR /\ s[2] = LF /\ s[3] = EQ /\ s[4] = Y
    BY <1>0, <2>1
  <2>3. IsSuffix(s, w) <=> \A k \in 1..4 : Back(w, k - 1) = s[4 - k + 1]
    BY <2>2, SuffixByBytes
  <2> QED
    BY <2>1, <2>2, <2>3
<1>2. IsSuffix(<<CR, LF, DOT, EQ, Y>>, w) <=>
        Back(w, 0) = Y /\ Back(w, 1) = EQ /\ Back(w, 2) = DOT /\ Back(w, 3) = LF /\ Back(w, 4) = CR
  <2>1. PICK s : s = <<CR, LF, DOT, EQ, Y>>
    OBVIOUS
  <2>2. s \in Seq(Special) /\ Len(s) = 5 /\ s[1] = CR /\ s[2] = LF /\ s[3] = DOT /\ s[4] = EQ /\ s[5] = Y
    BY <1>0, <2>1
  <2>3. IsSuffix(s, w) <=> \A k \in 1..5 : Back(w, k - 1) = s[5 - k + 1]
    BY <2>2, SuffixByBytes
  <2> QED
    BY <2>1, <2>2, <2>3
<1>3. IsSuffix(<<CR, LF, DOT, CR, LF>>, w) <=> EndsArticle(w)
  <2>1. PICK s : s = <<CR, LF, DOT, CR, LF>>
    OBVIOUS
  <2>2. s \in Seq(Special) /\ Len(s) = 5 /\ s[1] = CR /\ s[2] = LF /\ s[3] = DOT /\ s[4] = CR /\ s[5] = LF
    BY <1>0, <2>1
  <2>3. IsSuffix(s, w) <=> \A k \in 1..5 : Back(w, k - 1) = s[5 - k + 1]
    BY <2>2, SuffixByBytes
  <2> QED
    BY <2>1, <2>2, <2>3 DEF EndsArticle
<1>4. /\ Terminator["CONTROL"] = {<<CR, LF, EQ, Y>>, <<CR, LF, DOT, EQ, Y>>}
      /\ Terminator["ARTICLE"] = {<<CR, LF, DOT, CR, LF>>}
  BY DEF Terminator
<1>5. /\ EndsIn(w, "CONTROL") <=> IsSuffix(<<CR, LF, EQ, Y>>, w) \/ IsSuffix(<<CR, LF, DOT, EQ, Y>>, w)
      /\ EndsIn(w, "ARTICLE") <=> IsSuffix(<<CR, LF, DOT, CR, LF>>, w)
  BY <1>4, Zenon DEF EndsIn
<1> QED
  BY <1>1, <1>2, <1>3, <1>5 DEF EndsControl

(* The byte before the one that was the last one.                          *)
Adds(w, c, v) == /\ Len(v) = Len(w) + 1 /\ v[Len(w) + 1] = c
                 /\ \A k \in 1..Len(w) : v[k] = w[k]

LEMMA BackAdds ==
    ASSUME NEW w \in Seq(Char), NEW v \in Seq(Char), NEW c, Adds(w, c, v)
    PROVE  /\ Back(v, 0) = c /\ Back(v, 1) = Back(w, 0) /\ Back(v, 2) = Back(w, 1)
           /\ Back(v, 3) = Back(w, 2) /\ Back(v, 4) = Back(w, 3)
<1>1. PICK n : n = Len(w)
  OBVIOUS
<1>2. n \in Nat /\ Len(v) = n + 1 /\ v[n + 1] = c /\ \A k \in 1..n : v[k] = w[k]
  BY <1>1, LenProperties DEF Adds
<1>3. ASSUME NEW k \in Nat PROVE Back(v, k + 1) = Back(w, k)
  <2>1. (k + 1 < n + 1 <=> k < n) /\ n + 1 - (k + 1) = n - k
    BY <1>2
  <2>2. k < n => v[n - k] = w[n - k]
    BY <1>2
  <2> QED
    BY <1>1, <1>2, <2>1, <2>2 DEF Back
<1>4. Back(v, 0) = c
  BY <1>2 DEF Back
<1>5. Back(v, 0 + 1) = Back(w, 0) /\ Back(v, 1 + 1) = Back(w, 1)
      /\ Back(v, 2 + 1) = Back(w, 2) /\ Back(v, 3 + 1) = Back(w, 3)
  BY <1>3
<1>6. 0 + 1 = 1 /\ 1 + 1 = 2 /\ 2 + 1 = 3 /\ 3 + 1 = 4
  OBVIOUS
<1> QED
  BY <1>4, <1>5, <1>6

(* What each context says of the bytes before it.                          *)
Tells(x, w) ==
    /\ x \in State
    /\ x \in {"CR", "CRLFDTCR"} <=> Back(w, 0) = CR
    /\ x = "CRLF"     <=> Back(w, 0) = LF /\ Back(w, 1) = CR
    /\ x = "CRLFDT"   <=> Back(w, 0) = DOT /\ Back(w, 1) = LF /\ Back(w, 2) = CR
    /\ x = "CRLFDTCR" <=> Back(w, 0) = CR /\ Back(w, 1) = DOT /\ Back(w, 2) = LF /\ Back(w, 3) = CR
    /\ x = "CRLFEQ"   <=> /\ Back(w, 0) = EQ
                          /\ \/ Back(w, 1) = LF /\ Back(w, 2) = CR
                             \/ Back(w, 1) = DOT /\ Back(w, 2) = LF /\ Back(w, 3) = CR

LEMMA GotoIs ==
    ASSUME NEW x \in State, NEW c
    PROVE  /\ Goto(x, c) \in {"CR", "CRLFDTCR"} <=> c = CR
           /\ Goto(x, c) = "CRLF" <=> c = LF /\ x \in {"CR", "CRLFDTCR"}
           /\ Goto(x, c) = "CRLFDT" <=> c = DOT /\ x = "CRLF"
           /\ Goto(x, c) = "CRLFDTCR" <=> c = CR /\ x = "CRLFDT"
           /\ Goto(x, c) = "CRLFEQ" <=> c = EQ /\ x \in {"CRLF", "CRLFDT"}
           /\ Goto(x, c) \in State
  BY CharsDiffer DEF Goto, IsEscaped, IsStuffing, AfterPlain, State

LEMMA TellsOn ==
    ASSUME NEW x, NEW w \in Seq(Char), NEW v \in Seq(Char), NEW c, Tells(x, w), Adds(w, c, v)
    PROVE  /\ Tells(Goto(x, c), v)
           /\ Verdict(x, c) = "CONTROL" <=> EndsControl(v)
           /\ Verdict(x, c) = "ARTICLE" <=> EndsArticle(v)
<1>1. /\ Back(v, 0) = c /\ Back(v, 1) = Back(w, 0) /\ Back(v, 2) = Back(w, 1)
      /\ Back(v, 3) = Back(w, 2) /\ Back(v, 4) = Back(w, 3)
  BY BackAdds
<1>2. PICK y : y = Goto(x, c)
  OBVIOUS
<1>3. /\ y \in {"CR", "CRLFDTCR"} <=> c = CR
      /\ y = "CRLF" <=> c = LF /\ x \in {"CR", "CRLFDTCR"}
      /\ y = "CRLFDT" <=> c = DOT /\ x = "CRLF"
      /\ y = "CRLFDTCR" <=> c = CR /\ x = "CRLFDT"
      /\ y = "CRLFEQ" <=> c = EQ /\ x \in {"CRLF", "CRLFDT"}
      /\ y \in State
  BY <1>2, GotoIs DEF Tells
<1>4. Tells(y, v)
  BY <1>1, <1>3 DEF Tells
<1>5. /\ Verdict(x, c) = "CONTROL" <=> x = "CRLFEQ" /\ c = Y
      /\ Verdict(x, c) = "ARTICLE" <=> x = "CRLFDTCR" /\ c = LF
  BY CharsDiffer DEF Verdict, EndsData
<1> QED
  BY <1>1, <1>2, <1>4, <1>5 DEF Tells, EndsControl, EndsArticle

LEMMA BeforeTells ==
    ASSUME NEW x \in State
    PROVE  Tells(x, Before[x]) /\ ~EndsControl(Before[x]) /\ ~EndsArticle(Before[x])
<1>1. PICK w : w = Before[x]
  OBVIOUS
<1>2. NoByte # CR /\ NoByte # LF /\ NoByte # DOT /\ NoByte # EQ /\ NoByte # Y
  BY DEF NoByte, CR, LF, DOT, EQ, Y
<1>3. /\ Before["CRLF"] = <<CR, LF>> /\ Before["EQ"] = <<LF, EQ>> /\ Before["CR"] = <<CR>>
      /\ Before["NONE"] = <<LF>> /\ Before["CRLFDT"] = <<CR, LF, DOT>>
      /\ Before["CRLFDTCR"] = <<CR, LF, DOT, CR>> /\ Before["CRLFEQ"] = <<CR, LF, EQ>>
  BY DEF Before
<1> DEFINE B(b0, b1, b2, b3) == /\ Back(w, 0) = b0 /\ Back(w, 1) = b1 /\ Back(w, 2) = b2
                                /\ Back(w, 3) = b3 /\ Back(w, 4) = NoByte
<1>0. /\ Back(w, 0) = IF 0 < Len(w) THEN w[Len(w) - 0] ELSE NoByte
      /\ Back(w, 1) = IF 1 < Len(w) THEN w[Len(w) - 1] ELSE NoByte
      /\ Back(w, 2) = IF 2 < Len(w) THEN w[Len(w) - 2] ELSE NoByte
      /\ Back(w, 3) = IF 3 < Len(w) THEN w[Len(w) - 3] ELSE NoByte
      /\ Back(w, 4) = IF 4 < Len(w) THEN w[Len(w) - 4] ELSE NoByte
  BY DEF Back
<1> SUFFICES Tells(x, w) /\ ~EndsControl(w) /\ ~EndsArticle(w)
  BY <1>1
<1>4. CASE x = "CRLF"
  <2>1. Len(w) = 2 /\ w[1] = CR /\ w[2] = LF
    BY <1>1, <1>3, <1>4
  <2>2. B(LF, CR, NoByte, NoByte)
    BY <1>0, <2>1
  <2> QED
    BY <1>2, <1>4, <2>2, CharsDiffer DEF Tells, EndsControl, EndsArticle, State
<1>5. CASE x = "EQ"
  <2>1. Len(w) = 2 /\ w[1] = LF /\ w[2] = EQ
    BY <1>1, <1>3, <1>5
  <2>2. B(EQ, LF, NoByte, NoByte)
    BY <1>0, <2>1
  <2> QED
    BY <1>2, <1>5, <2>2, CharsDiffer DEF Tells, EndsControl, EndsArticle, State
<1>6. CASE x = "CR"
  <2>1. Len(w) = 1 /\ w[1] = CR
    BY <1>1, <1>3, <1>6
  <2>2. B(CR, NoByte, NoByte, NoByte)
    BY <1>0, <2>1
  <2> QED
    BY <1>2, <1>6, <2>2, CharsDiffer DEF Tells, EndsControl, EndsArticle, State
<1>7. CASE x = "NONE"
  <2>1. Len(w) = 1 /\ w[1] = LF
    BY <1>1, <1>3, <1>7
  <2>2. B(LF, NoByte, NoByte, NoByte)
    BY <1>0, <2>1
  <2> QED
    BY <1>2, <1>7, <2>2, CharsDiffer DEF Tells, EndsControl, EndsArticle, State
<1>8. CASE x = "CRLFDT"
  <2>1. Len(w) = 3 /\ w[1] = CR /\ w[2] = LF /\ w[3] = DOT
    BY <1>1, <1>3, <1>8
  <2>2. B(DOT, LF, CR, NoByte)
    BY <1>0, <2>1
  <2> QED
    BY <1>2, <1>8, <2>2, CharsDiffer DEF Tells, EndsControl, EndsArticle, State
<1>9. CASE x = "CRLFDTCR"
  <2>1. Len(w) = 4 /\ w[1] = CR /\ w[2] = LF /\ w[3] = DOT /\ w[4] = CR
    BY <1>1, <1>3, <1>9
  <2>2. B(CR, DOT, LF, CR)
    BY <1>0, <2>1
  <2> QED
    BY <1>2, <1>9, <2>2, CharsDiffer DEF Tells, EndsControl, EndsArticle, State
<1>10. CASE x = "CRLFEQ"
  <2>1. Len(w) = 3 /\ w[1] = CR /\ w[2] = LF /\ w[3] = EQ
    BY <1>1, <1>3, <1>10
  <2>2. B(EQ, LF, CR, NoByte)
    BY <1>0, <2>1
  <2> QED
    BY <1>2, <1>10, <2>2, CharsDiffer DEF Tells, EndsControl, EndsArticle, State
<1> QED
  BY <1>1, <1>4, <1>5, <1>6, <1>7, <1>8, <1>9, <1>10 DEF State

(* Up to where the stream has got, only its last bytes can be an end, and  *)
(* then it has said so.                                                    *)
Noticed(d, w) == /\ d.ended = "CONTROL" <=> EndsControl(w)
                 /\ d.ended = "ARTICLE" <=> EndsArticle(w)

NoneIn(w, m) == \A n \in m..(Len(w) - 1), e \in DOMAIN Terminator : ~EndsIn(SubSeq(w, 1, n), e)

FirstEnd(d, w, m) == Tells(d.ctx, w) /\ Noticed(d, w) /\ NoneIn(w, m)

LEMMA NoneSoFar ==
    ASSUME NEW w \in Seq(Char), NEW v \in Seq(Char), NEW c, Adds(w, c, v), NEW m \in Nat,
           NoneIn(w, m), ~EndsControl(w), ~EndsArticle(w)
    PROVE  NoneIn(v, m)
<1>1. Len(w) \in Nat /\ Len(v) = Len(w) + 1 /\ \A k \in 1..Len(w) : v[k] = w[k]
  BY LenProperties DEF Adds
<1>2. DOMAIN Terminator = {"CONTROL", "ARTICLE"}
  BY DEF Terminator
<1>3. ASSUME NEW n \in m..(Len(v) - 1), NEW e \in DOMAIN Terminator
      PROVE  ~EndsIn(SubSeq(v, 1, n), e)
  <2>0. n \in 0..Len(w) /\ n \in 0..Len(v)
    BY <1>1
  <2>1. PICK q \in Seq(Char) : q = SubSeq(v, 1, n) /\ Len(q) = n /\ \A k \in 1..n : q[k] = v[k]
    BY <2>0, BytesSoFar
  <2>2. PICK r \in Seq(Char) : r = SubSeq(w, 1, n) /\ Len(r) = n /\ \A k \in 1..n : r[k] = w[k]
    BY <2>0, BytesSoFar
  <2>3. \A k \in 1..n : q[k] = r[k]
    <3>1. \A k \in 1..n : k \in 1..Len(w)
      BY <1>1, <2>0
    <3> QED
      BY <1>1, <2>1, <2>2, <3>1
  <2>4. q = r
    BY <2>1, <2>2, <2>3, SeqEqual
  <2>5. CASE n = Len(w)
    <3>1. r = w
      BY <2>2, <2>5, SeqEqual
    <3>2. ~EndsIn(w, "CONTROL") /\ ~EndsIn(w, "ARTICLE")
      BY EndsInByBytes
    <3> QED
      BY <1>2, <2>1, <2>4, <3>1, <3>2
  <2>6. CASE n # Len(w)
    <3>1. n \in m..(Len(w) - 1)
      BY <1>1, <2>0, <2>6
    <3>2. ~EndsIn(r, e)
      BY <2>2, <3>1 DEF NoneIn
    <3> QED
      BY <2>1, <2>4, <3>2
  <2> QED
    BY <2>5, <2>6
<1> QED
  BY <1>3 DEF NoneIn

LEMMA FirstEndOn ==
    ASSUME NEW d, NEW w \in Seq(Char), NEW v \in Seq(Char), NEW c, Adds(w, c, v), NEW m \in Nat,
           FirstEnd(d, w, m), d.ended = "NONE"
    PROVE  FirstEnd(Onwards("nntp-end", d, c), v, m)
<1>1. Tells(Goto(d.ctx, c), v) /\ (Verdict(d.ctx, c) = "CONTROL" <=> EndsControl(v))
      /\ (Verdict(d.ctx, c) = "ARTICLE" <=> EndsArticle(v))
  <2>1. PICK x : x = d.ctx /\ Tells(x, w)
    BY DEF FirstEnd
  <2> QED
    BY <2>1, TellsOn
<1>2. ~EndsControl(w) /\ ~EndsArticle(w) /\ NoneIn(w, m)
  BY DEF FirstEnd, Noticed
<1>3. NoneIn(v, m)
  BY <1>2, NoneSoFar
<1>4. PICK f : f = Onwards("nntp-end", d, c)
  OBVIOUS
<1>5. f.ctx = Goto(d.ctx, c) /\ f.ended = Verdict(d.ctx, c)
  BY <1>4 DEF Onwards
<1> QED
  BY <1>1, <1>3, <1>4, <1>5 DEF FirstEnd, Noticed

Since(x, s, n) == Before[x] \o SubSeq(s, 1, n)

LEMMA SinceIs ==
    ASSUME NEW x \in State, NEW s \in Seq(Char), NEW n \in 0..Len(s)
    PROVE  /\ Since(x, s, n) \in Seq(Char) /\ Len(Since(x, s, n)) = Len(Before[x]) + n
           /\ n = 0 => Since(x, s, n) = Before[x]
           /\ n + 1 \in 0..Len(s) => Adds(Since(x, s, n), s[n + 1], Since(x, s, n + 1))
<1>1. PICK b \in Seq(Char) : b = Before[x]
  BY BeforeType
<1>2. PICK l \in Nat : l = Len(b)
  BY LenProperties
<1>3. PICK p \in Seq(Char) : p = SubSeq(s, 1, n) /\ Len(p) = n /\ \A k \in 1..n : p[k] = s[k]
  BY BytesSoFar
<1>4. b \o p \in Seq(Char) /\ Len(b \o p) = l + n
      /\ \A k \in 1..(l + n) : (b \o p)[k] = IF k <= l THEN b[k] ELSE p[k - l]
  BY <1>2, <1>3, ConcatProperties
<1>5. ASSUME n = 0 PROVE b \o p = b
  <2>1. p = <<>>
    BY <1>3, <1>5, EmptySeq
  <2> QED
    BY <2>1, ConcatEmptySeq
<1>6. ASSUME n + 1 \in 0..Len(s) PROVE Adds(b \o p, s[n + 1], Since(x, s, n + 1))
  <2>0. n \in Nat
    OBVIOUS
  <2>1. PICK q \in Seq(Char) : q = SubSeq(s, 1, n + 1) /\ Len(q) = n + 1 /\ \A k \in 1..(n + 1) : q[k] = s[k]
    BY <1>6, BytesSoFar
  <2>2. Len(b \o q) = l + (n + 1)
        /\ \A k \in 1..(l + (n + 1)) : (b \o q)[k] = IF k <= l THEN b[k] ELSE q[k - l]
    BY <1>2, <2>1, ConcatProperties
  <2>3. PICK w : w = b \o p
    OBVIOUS
  <2>7. PICK v : v = b \o q
    OBVIOUS
  <2>8. /\ Len(w) = l + n /\ \A k \in 1..(l + n) : w[k] = IF k <= l THEN b[k] ELSE p[k - l]
        /\ Len(v) = l + (n + 1)
        /\ \A k \in 1..(l + (n + 1)) : v[k] = IF k <= l THEN b[k] ELSE q[k - l]
    <3> HIDE <2>0
    <3> QED
      BY <1>4, <2>2, <2>3, <2>7, Zenon
  <2>4. Len(v) = Len(w) + 1
    BY <2>0, <2>8
  <2>5. v[Len(w) + 1] = s[n + 1]
    BY <2>0, <2>1, <2>8
  <2>6. ASSUME NEW k \in 1..Len(w) PROVE v[k] = w[k]
    <3>1. k \in 1..(l + n) /\ k \in 1..(l + (n + 1))
      <4>1. Len(w) = l + n
        BY <2>8
      <4> QED
        BY <2>0, <4>1
    <3>2. w[k] = (IF k <= l THEN b[k] ELSE p[k - l]) /\ v[k] = (IF k <= l THEN b[k] ELSE q[k - l])
      BY <2>8, <3>1
    <3>3. CASE k <= l
      BY <3>2, <3>3
    <3>4. CASE ~(k <= l)
      <4>1. k - l \in 1..n /\ k - l \in 1..(n + 1)
        BY <2>0, <3>1, <3>4
      <4>2. p[k - l] = s[k - l] /\ q[k - l] = s[k - l]
        BY <1>3, <2>1, <4>1
      <4> QED
        BY <3>2, <3>4, <4>2
    <3> QED
      BY <3>3, <3>4
  <2> QED
    BY <1>1, <2>1, <2>3, <2>4, <2>5, <2>6, <2>7 DEF Adds, Since
<1> QED
  BY <1>1, <1>2, <1>3, <1>4, <1>5, <1>6 DEF Since

(* The invariant that is carried along: the one before, and where the data *)
(* ends.                                                                   *)
EndInv == mode = "nntp-end" => FirstEnd(decoded, Since(start, chunk, at), Len(Before[start]))

\* Nothing read of a chunk yet.
LEMMA NoEndYet ==
    ASSUME NEW x \in State, NEW s \in Seq(Char)
    PROVE  FirstEnd(NothingYet(x), Since(x, s, 0), Len(Before[x]))
<1>1. PICK b \in Seq(Char) : b = Before[x]
  BY BeforeType
<1>2. 0 \in 0..Len(s)
  BY LenProperties
<1>3. Since(x, s, 0) = b
  BY <1>1, <1>2, SinceIs
<1>4. Tells(x, b) /\ ~EndsControl(b) /\ ~EndsArticle(b)
  BY <1>1, BeforeTells
<1>5. NoneIn(b, Len(b))
  <2>1. Len(b) \in Nat
    BY LenProperties
  <2>2. Len(b)..(Len(b) - 1) = {}
    BY <2>1
  <2> QED
    BY <2>2 DEF NoneIn
<1>6. NothingYet(x).ctx = x /\ NothingYet(x).ended = "NONE"
  BY DEF NothingYet
<1> QED
  BY <1>1, <1>3, <1>4, <1>5, <1>6 DEF FirstEnd, Noticed

\* One byte more.
LEMMA EndOneMore ==
    ASSUME NEW x \in State, NEW s \in Seq(Char), NEW n \in Nat, n + 1 <= Len(s), NEW d, d.ended = "NONE",
           FirstEnd(d, Since(x, s, n), Len(Before[x]))
    PROVE  FirstEnd(Onwards("nntp-end", d, s[n + 1]), Since(x, s, n + 1), Len(Before[x]))
<1>1. n \in 0..Len(s) /\ n + 1 \in 0..Len(s)
  BY LenProperties
<1>2. PICK w \in Seq(Char) : w = Since(x, s, n)
  BY <1>1, SinceIs
<1>3. PICK v \in Seq(Char) : v = Since(x, s, n + 1)
  BY <1>1, SinceIs
<1>4. PICK c : c = s[n + 1]
  OBVIOUS
<1>5. Adds(w, c, v)
  BY <1>1, <1>2, <1>3, <1>4, SinceIs
<1>6. PICK m \in Nat : m = Len(Before[x])
  BY BeforeType, LenProperties
<1>7. FirstEnd(d, w, m)
  BY <1>2, <1>6
<1>8. FirstEnd(Onwards("nntp-end", d, c), v, m)
  BY <1>5, <1>7, FirstEndOn
<1> QED
  BY <1>3, <1>4, <1>6, <1>8

LEMMA EndStarts == ASSUME StreamInit PROVE EndInv
<1>1. chunk = <<>> /\ at = 0 /\ start = decoded.ctx /\ (mode = "nntp-end" => decoded = NothingYet("CRLF"))
  BY DEF StreamInit, Other!Init, NntpEnd!Init, Other!Fresh, NntpEnd!Fresh, NothingYet
<1>2. chunk \in Seq(Char) /\ "CRLF" \in State
  BY <1>1, EmptySeq DEF State
<1>3. ASSUME mode = "nntp-end" PROVE EndInv
  <2>1. start = "CRLF" /\ decoded = NothingYet("CRLF")
    BY <1>1, <1>3 DEF NothingYet
  <2> QED
    BY <1>1, <1>2, <2>1, NoEndYet DEF EndInv
<1> QED
  BY <1>3 DEF EndInv

LEMMA EndGoesOn == ASSUME StreamInv, EndInv, StreamNext PROVE EndInv'
<1>0. /\ mode \in Mode /\ chunk \in Seq(Char) /\ at \in 0..Len(chunk)
      /\ start \in Contexts(mode) /\ decoded = ComesTo(mode, SubSeq(chunk, 1, at), start)
  BY DEF StreamInv
<1>1. mode' = mode
  <2>1. CASE Deliver \/ Collect \/ Restart
    BY <2>1 DEF Deliver, Collect, Restart
  <2>2. CASE Consume
    BY <2>2 DEF Consume
  <2> QED
    BY <2>1, <2>2 DEF StreamNext
<1> SUFFICES ASSUME mode = "nntp-end" PROVE EndInv'
  BY <1>1 DEF EndInv
<1>2. start \in State /\ FirstEnd(decoded, Since(start, chunk, at), Len(Before[start]))
  BY <1>0 DEF EndInv, Contexts
<1>3. ASSUME NEW s \in Seq(Char), chunk' = s, at' = 0, NEW ctx \in State, start' = ctx,
             decoded' = NothingYet(ctx)
      PROVE  EndInv'
  <2>1. FirstEnd(NothingYet(ctx), Since(ctx, s, 0), Len(Before[ctx]))
    BY NoEndYet
  <2> QED
    BY <1>3, <2>1 DEF EndInv
<1>4. CASE Deliver
  <2>1. chunk = <<>> /\ chunk' \in Chunk /\ UNCHANGED <<at, decoded, mode, start>>
    BY <1>4 DEF Deliver, NntpEnd!Deliver
  <2>2. chunk' \in Seq(Char)
    BY <2>1, ChunkAssumption
  <2>3. at = 0
    BY <1>0, <2>1, EmptySeq
  <2>4. decoded = NothingYet(start)
    BY <1>0, <2>3, Afresh
  <2> QED
    BY <1>2, <1>3, <2>1, <2>2, <2>3, <2>4
<1>5. CASE Collect
  <2>1. chunk' = <<>> /\ at' = 0 /\ start' = decoded.ctx /\ decoded' = NothingYet(decoded.ctx)
    BY <1>5 DEF Collect, NntpEnd!Collect, NntpEnd!Fresh, NothingYet
  <2>2. decoded.ctx \in State
    BY <1>2 DEF FirstEnd, Tells
  <2> QED
    BY <1>3, <2>1, <2>2, EmptySeq
<1>6. CASE Restart
  <2>1. chunk' = <<>> /\ at' = 0 /\ start' = decoded'.ctx
        /\ decoded' = [ctx |-> "CRLF", out |-> <<>>, ended |-> "NONE"]
    BY <1>6 DEF Restart, NntpEnd!Restart, NntpEnd!Fresh
  <2>2. "CRLF" \in State /\ decoded' = NothingYet("CRLF") /\ start' = "CRLF"
    BY <2>1 DEF NothingYet, State
  <2> QED
    BY <1>3, <2>1, <2>2, EmptySeq
<1>7. CASE Consume
  <2>0. UNCHANGED <<mode, start, chunk>> /\ (Consumes1 \/ Consumes2 \/ Consumes3)
    BY <1>0, <1>7, ConsumeIs
  <2>1. PICK d : d = Onwards("nntp-end", decoded, chunk[at + 1])
    OBVIOUS
  <2>2. PICK e : e = Onwards("nntp-end", d, chunk[at + 2])
    OBVIOUS
  <2>3. PICK f : f = Onwards("nntp-end", e, chunk[at + 3])
    OBVIOUS
  <2>4. PICK n \in Nat : n = at
    BY <1>0, LenProperties
  <2>5. PICK l \in Nat : l = Len(chunk)
    BY <1>0, LenProperties
  <2> DEFINE Here(x, k) == FirstEnd(x, Since(start, chunk, k), Len(Before[start]))
  <2>6. \A x : \A k \in Nat : k + 1 <= l /\ x.ended = "NONE" /\ Here(x, k)
                               => Here(Onwards("nntp-end", x, chunk[k + 1]), k + 1)
    BY <1>0, <1>2, <2>5, EndOneMore
  <2>7. Here(decoded, n)
    BY <1>2, <2>4
  <2> HIDE DEF Here
  <2>8. decoded.ended = "NONE" /\ n + 1 <= l => Here(d, n + 1)
    BY <2>1, <2>4, <2>6, <2>7
  <2>9. decoded.ended = "NONE" /\ d.ended = "NONE" /\ n + 2 <= l => Here(e, n + 2)
    <3>1. n + 1 \in Nat /\ n + 1 + 1 = n + 2 /\ (n + 2 <= l => n + 1 <= l)
      OBVIOUS
    <3> QED
      BY <2>2, <2>4, <2>6, <2>8, <3>1
  <2>10. decoded.ended = "NONE" /\ d.ended = "NONE" /\ e.ended = "NONE" /\ n + 3 <= l => Here(f, n + 3)
    <3>1. n + 2 \in Nat /\ n + 2 + 1 = n + 3 /\ (n + 3 <= l => n + 2 <= l)
      OBVIOUS
    <3> QED
      BY <2>3, <2>4, <2>6, <2>9, <3>1
  <2>11. Here(decoded', at')
    <3>1. CASE Consumes1
      BY <2>1, <2>4, <2>5, <2>8, <3>1 DEF Consumes1
    <3>2. CASE Consumes2
      BY <2>1, <2>2, <2>4, <2>5, <2>9, <3>2 DEF Consumes2
    <3>3. CASE Consumes3
      BY <2>1, <2>2, <2>3, <2>4, <2>5, <2>10, <3>3 DEF Consumes3
    <3> QED
      BY <2>0, <3>1, <3>2, <3>3
  <2> QED
    BY <2>0, <2>11 DEF EndInv, Here
<1> QED
  BY <1>4, <1>5, <1>6, <1>7 DEF StreamNext

(* In every state of a stream read with the end of the data in sight, and  *)
(* whatever chunks it is cut into, the end is reported right after the     *)
(* first "\r\n=y", "\r\n.=y" or "\r\n.\r\n" of the stream, and only there  *)
(* (src/src/decoder.h).                                                    *)
THEOREM EndsAtFirst == StreamSpec => []EndsAtFirstTerminator
<1>1. StreamInit => EndInv
  BY EndStarts
<1>2. StreamInv /\ EndInv /\ [StreamNext]_stream => EndInv'
  <2>1. ASSUME EndInv, UNCHANGED stream PROVE EndInv'
    BY <2>1 DEF EndInv, stream
  <2> QED
    BY <2>1, EndGoesOn
<1>3. ASSUME StreamInv, EndInv PROVE EndsAtFirstTerminator
  <2> SUFFICES ASSUME mode = "nntp-end" PROVE EndsAtFirstTerminator
    BY DEF EndsAtFirstTerminator
  <2>1. chunk \in Seq(Char) /\ at \in 0..Len(chunk) /\ start \in State
    BY <1>3 DEF StreamInv, Contexts
  <2>2. PICK w \in Seq(Char) : w = Since(start, chunk, at) /\ w = Text
    BY <2>1, SinceIs DEF Since, Text
  <2>3. /\ decoded.ended = "CONTROL" <=> EndsControl(w)
        /\ decoded.ended = "ARTICLE" <=> EndsArticle(w)
        /\ NoneIn(w, Len(Before[start]))
    BY <1>3, <2>2 DEF EndInv, FirstEnd, Noticed
  <2>4. DOMAIN Terminator = {"CONTROL", "ARTICLE"}
    BY DEF Terminator
  <2>5. \A e \in DOMAIN Terminator : decoded.ended = e <=> EndsIn(w, e)
    BY <2>3, <2>4, EndsInByBytes
  <2>6. \A k \in Len(Before[start])..(Len(w) - 1), e \in DOMAIN Terminator : ~EndsIn(SubSeq(w, 1, k), e)
    BY <2>3 DEF NoneIn
  <2> QED
    BY <2>2, <2>5, <2>6 DEF EndsAtFirstTerminator
<1> QED
  BY <1>1, <1>2, <1>3, StreamInvariance, PTL DEF StreamSpec

=============================================================================
