-------------------------- MODULE YencStreamProofs --------------------------
(***************************************************************************)
(* What a text decodes to (After, YencStream), byte by byte: the function  *)
(* its definition speaks of exists, the text may be cut anywhere, and      *)
(* nothing is read past an end.  They are by induction over the text, for  *)
(* every automaton, and are used wherever YencStream is instantiated.      *)
(***************************************************************************)
EXTENDS YencStream, DataInduction, SequenceTheorems

\* Contexts C, bytes S, decoded bytes O and ends E that an automaton keeps to.
Decodes(C, S, O, E) ==
    /\ "NONE" \in E
    /\ \A c \in C, x \in S : To(c, x) \in C /\ Yields(c, x) \in Seq(O) /\ Ends(c, x) \in E

Outcome(C, O, E) == [decoded : [ctx : C, out : Seq(O), ended : E], read : Nat]

\* One byte more, the n-th.
Onward(r, c, n) == IF r.decoded.ended # "NONE" THEN r
                   ELSE [decoded |-> Eat(r.decoded, c), read |-> n]

Beginning(ctx) == [decoded |-> Fresh(ctx), read |-> 0]

\* A text of n bytes that came to a, and then one that came to b.
Both(a, n, b) == [decoded |-> [ctx   |-> b.decoded.ctx,
                               out   |-> a.decoded.out \o b.decoded.out,
                               ended |-> b.decoded.ended],
                  read    |-> n + b.read]

\* The function in the definition of After.
Reading(f, s, ctx) ==
    f = [n \in 0..Len(s) |-> IF n = 0 THEN Beginning(ctx) ELSE Onward(f[n - 1], s[n], n)]

Reads(s, ctx) == CHOOSE f : Reading(f, s, ctx)

(* After by its function.                                                  *)
LEMMA AfterReads ==
    ASSUME NEW s, NEW ctx
    PROVE  After(s, ctx) = Reads(s, ctx)[Len(s)]
  BY DEF After, Reads, Reading, Beginning, Onward

(* A byte more makes an outcome of an outcome.                             *)
LEMMA OnwardType ==
    ASSUME NEW C, NEW S, NEW O, NEW E, Decodes(C, S, O, E),
           NEW r \in Outcome(C, O, E), NEW c \in S, NEW n \in Nat
    PROVE  Onward(r, c, n) \in Outcome(C, O, E)
<1> DEFINE d == r.decoded
<1>1. d.ctx \in C /\ d.out \in Seq(O) /\ d.ended \in E
  BY DEF Outcome
<1>2. To(d.ctx, c) \in C /\ Yields(d.ctx, c) \in Seq(O) /\ Ends(d.ctx, c) \in E
  BY <1>1 DEF Decodes
<1>3. d.out \o Yields(d.ctx, c) \in Seq(O)
  BY <1>1, <1>2
<1>4. Eat(d, c) \in [ctx : C, out : Seq(O), ended : E]
  BY <1>2, <1>3 DEF Eat
<1>5. CASE d.ended # "NONE"
  BY <1>5 DEF Onward
<1>6. CASE d.ended = "NONE"
  <2>1. Onward(r, c, n) = [decoded |-> Eat(d, c), read |-> n]
    BY <1>6 DEF Onward
  <2> HIDE DEF d
  <2> QED
    BY <1>4, <2>1 DEF Outcome
<1> QED
  BY <1>5, <1>6

(* At first, nothing has been read.                                        *)
LEMMA BeginningType ==
    ASSUME NEW C, NEW S, NEW O, NEW E, Decodes(C, S, O, E), NEW ctx \in C
    PROVE  Beginning(ctx) \in Outcome(C, O, E)
<1>1. <<>> \in Seq(O) /\ "NONE" \in E
  BY EmptySeq DEF Decodes
<1> QED
  BY <1>1 DEF Beginning, Fresh, Outcome

(* There is a function with the values the definition of After asks for.   *)
LEMMA ReadsExists ==
    ASSUME NEW C, NEW S, NEW O, NEW E, Decodes(C, S, O, E),
           NEW s \in Seq(S), NEW ctx \in C
    PROVE  Reading(Reads(s, ctx), s, ctx)
<1> DEFINE N    == Len(s)
           T    == Outcome(C, O, E)
           step == [p \in (1..N) \X T |-> Onward(p[2], s[p[1]], p[1])]
<1>1. N \in Nat /\ \A n \in 1..N : s[n] \in S
  OBVIOUS
<1>2. Beginning(ctx) \in T
  BY BeginningType
<1>3. step \in Steps(T, N)
  <2>1. ASSUME NEW p \in (1..N) \X T PROVE Onward(p[2], s[p[1]], p[1]) \in T
    <3>1. p[1] \in 1..N /\ p[2] \in T
      OBVIOUS
    <3>2. s[p[1]] \in S /\ p[1] \in Nat
      BY <1>1, <3>1
    <3> HIDE DEF T
    <3> QED
      BY <3>1, <3>2, OnwardType DEF T
  <2> HIDE DEF T
  <2> QED
    BY <2>1 DEF Steps
<1> HIDE DEF T
<1>4. PICK g \in [0..N -> T] :
         g[0] = Beginning(ctx) /\ \A n \in 1..N : g[n] = step[<<n, g[n - 1]>>]
  <2> HIDE DEF N, step
  <2>1. HasUnfolding(T, Beginning(ctx), N, step)
    BY <1>1, <1>2, <1>3, Recursion
  <2> QED
    BY <2>1 DEF HasUnfolding, Unfolds
<1>5. ASSUME NEW n \in 0..N
      PROVE  g[n] = IF n = 0 THEN Beginning(ctx) ELSE Onward(g[n - 1], s[n], n)
  <2>1. CASE n = 0
    BY <1>4, <2>1
  <2>2. CASE n # 0
    <3>1. n \in 1..N /\ n - 1 \in 0..N
      BY <1>1, <2>2
    <3>2. <<n, g[n - 1]>> \in (1..N) \X T
      BY <1>4, <3>1
    <3>3. step[<<n, g[n - 1]>>] = Onward(g[n - 1], s[n], n)
      BY <3>2
    <3> QED
      BY <1>4, <2>2, <3>1, <3>3
  <2> QED
    BY <2>1, <2>2
<1>6. Reading(g, s, ctx)
  BY <1>4, <1>5 DEF Reading
<1> QED
  BY <1>6 DEF Reads

(* Its values one by one.                                                  *)
LEMMA ReadsOneByOne ==
    ASSUME NEW C, NEW S, NEW O, NEW E, Decodes(C, S, O, E),
           NEW s \in Seq(S), NEW ctx \in C
    PROVE  /\ Reads(s, ctx)[0] = Beginning(ctx)
           /\ \A k \in Nat : k < Len(s) =>
                 Reads(s, ctx)[k + 1] = Onward(Reads(s, ctx)[k], s[k + 1], k + 1)
<1> DEFINE f == Reads(s, ctx)
<1>1. Reading(f, s, ctx)
  BY ReadsExists
<1> HIDE DEF f
<1>2. ASSUME NEW n \in 0..Len(s)
      PROVE  f[n] = IF n = 0 THEN Beginning(ctx) ELSE Onward(f[n - 1], s[n], n)
  BY <1>1 DEF Reading
<1>3. f[0] = Beginning(ctx)
  BY <1>2
<1>4. ASSUME NEW k \in Nat, k < Len(s) PROVE f[k + 1] = Onward(f[k], s[k + 1], k + 1)
  <2>1. k + 1 \in 0..Len(s) /\ k + 1 # 0 /\ (k + 1) - 1 = k
    BY <1>4
  <2> QED
    BY <1>2, <2>1
<1> QED
  BY <1>3, <1>4 DEF f

(* Each of them is an outcome; while the data has not ended, every byte    *)
(* has been read, and once it has, those up to the end.                    *)
LEMMA ReadsType ==
    ASSUME NEW C, NEW S, NEW O, NEW E, Decodes(C, S, O, E),
           NEW s \in Seq(S), NEW ctx \in C, NEW k \in 0..Len(s)
    PROVE  /\ Reads(s, ctx)[k] \in Outcome(C, O, E)
           /\ Reads(s, ctx)[k].read <= k
           /\ Reads(s, ctx)[k].decoded.ended = "NONE" => Reads(s, ctx)[k].read = k
           /\ Reads(s, ctx)[Reads(s, ctx)[k].read] = Reads(s, ctx)[k]
<1> DEFINE f     == Reads(s, ctx)
           At(n) == /\ f[n] \in Outcome(C, O, E) /\ f[n].read <= n
                    /\ f[n].decoded.ended = "NONE" => f[n].read = n
                    /\ f[f[n].read] = f[n]
           R     == {n \in Nat : n <= Len(s) => At(n)}
<1>1. /\ f[0] = Beginning(ctx)
      /\ \A n \in Nat : n < Len(s) => f[n + 1] = Onward(f[n], s[n + 1], n + 1)
  BY ReadsOneByOne
<1>2. Beginning(ctx) \in Outcome(C, O, E) /\ Beginning(ctx).read = 0
  BY BeginningType DEF Beginning
<1> HIDE DEF f
<1>3. 0 \in R
  <2>1. At(0)
    BY <1>1, <1>2
  <2> QED
    BY <2>1
<1>4. ASSUME NEW n \in Nat, n \in R PROVE n + 1 \in R
  <2>1. CASE n + 1 > Len(s)
    BY <2>1
  <2>2. CASE n + 1 <= Len(s)
    <3>1. n < Len(s) /\ n <= Len(s) /\ s[n + 1] \in S /\ n + 1 \in Nat
      <4>1. n + 1 \in 1..Len(s)
        BY <2>2
      <4> QED
        BY <2>2, <4>1
    <3>2. At(n)
      BY <1>4, <3>1
    <3>3. f[n + 1] = Onward(f[n], s[n + 1], n + 1)
      BY <1>1, <3>1
    <3>4. f[n + 1] \in Outcome(C, O, E)
      BY <3>1, <3>2, <3>3, OnwardType
    <3>5. CASE f[n].decoded.ended # "NONE"
      <4>1. f[n + 1] = f[n]
        BY <3>3, <3>5 DEF Onward
      <4>2. f[n].read \in Nat
        BY <3>2 DEF Outcome
      <4>3. At(n + 1)
        BY <3>2, <3>5, <4>1, <4>2
      <4> QED
        BY <4>3
    <3>6. CASE f[n].decoded.ended = "NONE"
      <4>1. f[n + 1].read = n + 1
        BY <3>3, <3>6 DEF Onward
      <4>2. At(n + 1)
        BY <3>4, <4>1
      <4> QED
        BY <4>2
    <3> QED
      BY <3>5, <3>6
  <2> QED
    BY <2>1, <2>2
<1>5. Nat \subseteq R
  <2> HIDE DEF R
  <2> QED
    BY <1>3, <1>4, Induction
<1>6. At(k)
  BY <1>5
<1> QED
  BY <1>6 DEF f

(* The first values are those for the beginning of the text.               *)
LEMMA ReadsOfPrefix ==
    ASSUME NEW C, NEW S, NEW O, NEW E, Decodes(C, S, O, E),
           NEW s \in Seq(S), NEW ctx \in C, NEW k \in 0..Len(s)
    PROVE  After(SubSeq(s, 1, k), ctx) = Reads(s, ctx)[k]
<1> DEFINE p == SubSeq(s, 1, k)
           f == Reads(s, ctx)
           g == Reads(p, ctx)
           R == {n \in Nat : n <= k => g[n] = f[n]}
<1>1. p \in Seq(S) /\ Len(p) = k /\ \A n \in 1..k : p[n] = s[n]
  BY SubSeqProperties
<1>2. /\ f[0] = Beginning(ctx)
      /\ \A n \in Nat : n < Len(s) => f[n + 1] = Onward(f[n], s[n + 1], n + 1)
  BY ReadsOneByOne
<1>3. /\ g[0] = Beginning(ctx)
      /\ \A n \in Nat : n < k => g[n + 1] = Onward(g[n], p[n + 1], n + 1)
  <2> HIDE DEF p
  <2> QED
    BY <1>1, ReadsOneByOne
<1>4. After(p, ctx) = g[k]
  <2> HIDE DEF p
  <2> QED
    BY <1>1, AfterReads
<1> HIDE DEF p, f, g
<1>5. 0 \in R
  BY <1>2, <1>3
<1>6. ASSUME NEW n \in Nat, n \in R PROVE n + 1 \in R
  <2>1. CASE n < k
    <3>1. g[n] = f[n] /\ p[n + 1] = s[n + 1] /\ n < Len(s)
      BY <1>1, <1>6, <2>1
    <3>2. g[n + 1] = f[n + 1]
      BY <1>2, <1>3, <2>1, <3>1
    <3> QED
      BY <3>2
  <2>2. CASE ~(n < k)
    BY <2>2
  <2> QED
    BY <2>1, <2>2
<1>7. Nat \subseteq R
  <2> HIDE DEF R
  <2> QED
    BY <1>5, <1>6, Induction
<1>8. g[k] = f[k]
  BY <1>7
<1> QED
  BY <1>4, <1>8 DEF p, f

-----------------------------------------------------------------------------
(* Texts.                                                                  *)

(* What a text comes to is an outcome.  All of it has been read if the     *)
(* data has not ended, and what has been read comes to the same.           *)
LEMMA AfterType ==
    ASSUME NEW C, NEW S, NEW O, NEW E, Decodes(C, S, O, E), NEW s \in Seq(S), NEW ctx \in C
    PROVE  /\ After(s, ctx) \in Outcome(C, O, E)
           /\ After(s, ctx).read \in 0..Len(s)
           /\ After(s, ctx).decoded.ended = "NONE" => After(s, ctx).read = Len(s)
           /\ After(SubSeq(s, 1, After(s, ctx).read), ctx) = After(s, ctx)
<1> DEFINE f == Reads(s, ctx)
           N == Len(s)
<1>1. After(s, ctx) = f[N] /\ N \in Nat /\ N \in 0..N
  BY AfterReads
<1>2. /\ f[N] \in Outcome(C, O, E) /\ f[N].read <= N
      /\ f[N].decoded.ended = "NONE" => f[N].read = N
      /\ f[f[N].read] = f[N]
  BY <1>1, ReadsType
<1>3. f[N].read \in 0..N
  BY <1>1, <1>2 DEF Outcome
<1>4. After(SubSeq(s, 1, f[N].read), ctx) = f[f[N].read]
  BY <1>3, ReadsOfPrefix
<1> QED
  BY <1>1, <1>2, <1>3, <1>4

(* A text of no bytes.                                                     *)
LEMMA AfterEmpty ==
    ASSUME NEW C, NEW S, NEW O, NEW E, Decodes(C, S, O, E), NEW ctx \in C
    PROVE  After(<<>>, ctx) = Beginning(ctx)
<1>1. <<>> \in Seq(S) /\ Len(<<>>) = 0
  BY EmptySeq
<1>2. Reads(<<>>, ctx)[0] = Beginning(ctx)
  BY <1>1, ReadsOneByOne
<1> QED
  BY <1>1, <1>2, AfterReads

(* A byte more.                                                            *)
LEMMA AfterByte ==
    ASSUME NEW C, NEW S, NEW O, NEW E, Decodes(C, S, O, E),
           NEW s \in Seq(S), NEW x \in S, NEW ctx \in C
    PROVE  After(s \o <<x>>, ctx) = Onward(After(s, ctx), x, Len(s) + 1)
<1> DEFINE t == s \o <<x>>
           f == Reads(t, ctx)
           N == Len(s)
<1>1. t \in Seq(S) /\ Len(t) = N + 1 /\ N \in Nat /\ t[N + 1] = x
  OBVIOUS
<1>2. SubSeq(t, 1, N) = s
  <2>1. CASE N = 0
    <3>1. s = <<>> /\ SubSeq(t, 1, 0) = <<>>
      BY <1>1, <2>1, SubSeqEmpty
    <3> QED
      BY <2>1, <3>1
  <2>2. CASE N # 0
    <3>1. 1 \in 1..N /\ N \in 1..N /\ <<x>> \in Seq(S)
      BY <1>1, <2>2
    <3>2. SubSeq(t, 1, N) = SubSeq(s, 1, N)
      BY <3>1, SubSeqOfConcat1
    <3> QED
      BY <3>2, SubSeqFull
  <2> QED
    BY <2>1, <2>2
<1> HIDE DEF t
<1>3. After(t, ctx) = f[N + 1]
  BY <1>1, AfterReads
<1>4. f[N + 1] = Onward(f[N], t[N + 1], N + 1)
  <2>1. \A k \in Nat : k < Len(t) => f[k + 1] = Onward(f[k], t[k + 1], k + 1)
    BY <1>1, ReadsOneByOne
  <2>2. N < Len(t)
    BY <1>1
  <2> QED
    BY <1>1, <2>1, <2>2
<1>5. f[N] = After(s, ctx)
  <2>1. N \in 0..Len(t)
    BY <1>1
  <2>2. \A m \in 0..Len(t) : Reads(t, ctx)[m] = After(SubSeq(t, 1, m), ctx)
    BY <1>1, ReadsOfPrefix
  <2>3. Reads(t, ctx)[N] = After(SubSeq(t, 1, N), ctx)
    BY <2>1, <2>2
  <2> QED
    BY <1>2, <2>3
<1> QED
  BY <1>1, <1>3, <1>4, <1>5 DEF t

(* A byte more of the second of two outcomes is a byte more of both.       *)
LEMMA BothOnward ==
    ASSUME NEW C, NEW S, NEW O, NEW E, Decodes(C, S, O, E),
           NEW u \in Outcome(C, O, E), NEW v \in Outcome(C, O, E),
           NEW k \in Nat, NEW l \in Nat, NEW z \in S
    PROVE  Onward(Both(u, k, v), z, k + l) = Both(u, k, Onward(v, z, l))
<1>1. CASE v.decoded.ended # "NONE"
  BY <1>1 DEF Onward, Both
<1>2. CASE v.decoded.ended = "NONE"
  <2> DEFINE d == v.decoded
             y == Yields(d.ctx, z)
             o == u.decoded.out
  <2>1. d.ctx \in C /\ d.out \in Seq(O) /\ o \in Seq(O)
    <3>1. u \in Outcome(C, O, E) /\ v \in Outcome(C, O, E)
      OBVIOUS
    <3> QED
      BY <3>1 DEF Outcome
  <2>2. y \in Seq(O)
    BY <2>1 DEF Decodes
  <2>3. (o \o d.out) \o y = o \o (d.out \o y)
    <3> DEFINE w == d.out
    <3>1. o \in Seq(O) /\ w \in Seq(O) /\ y \in Seq(O)
      BY <2>1, <2>2
    <3> HIDE DEF y, o, w
    <3>2. (o \o w) \o y = o \o (w \o y)
      BY <3>1, ConcatAssociative
    <3> QED
      BY <3>2 DEF w
  <2>4. Onward(v, z, l)
          = [decoded |-> [ctx |-> To(d.ctx, z), out |-> d.out \o y,
                          ended |-> Ends(d.ctx, z)], read |-> l]
    BY <1>2 DEF Onward, Eat
  <2>5. Onward(Both(u, k, v), z, k + l)
          = [decoded |-> [ctx |-> To(d.ctx, z), out |-> (o \o d.out) \o y,
                          ended |-> Ends(d.ctx, z)], read |-> k + l]
    BY <1>2 DEF Onward, Eat, Both
  <2>6. Both(u, k, Onward(v, z, l))
          = [decoded |-> [ctx |-> To(d.ctx, z), out |-> o \o (d.out \o y),
                          ended |-> Ends(d.ctx, z)], read |-> k + l]
    <3> DEFINE r == Onward(v, z, l)
    <3>1. /\ r.decoded.ctx = To(d.ctx, z)
          /\ r.decoded.out = d.out \o y
          /\ r.decoded.ended = Ends(d.ctx, z)
          /\ r.read = l
      <4> HIDE DEF d, y
      <4> QED
        BY <2>4
    <3> HIDE DEF r, d, y
    <3>2. Both(u, k, r)
            = [decoded |-> [ctx |-> To(d.ctx, z), out |-> o \o (d.out \o y),
                            ended |-> Ends(d.ctx, z)], read |-> k + l]
      BY <3>1 DEF Both
    <3> QED
      BY <3>2 DEF r
  <2> QED
    BY <2>3, <2>5, <2>6
<1> QED
  BY <1>1, <1>2

(* One text after the other: the first may have ended the data, otherwise  *)
(* the second goes on from its context.                                    *)
LEMMA AfterConcat ==
    ASSUME NEW C, NEW S, NEW O, NEW E, Decodes(C, S, O, E),
           NEW s \in Seq(S), NEW t \in Seq(S), NEW ctx \in C
    PROVE  After(s \o t, ctx)
             = IF After(s, ctx).decoded.ended # "NONE" THEN After(s, ctx)
               ELSE Both(After(s, ctx), Len(s), After(t, After(s, ctx).decoded.ctx))
<1> DEFINE a       == After(s, ctx)
           mid     == a.decoded.ctx
           P(n)    == SubSeq(t, 1, n)
           Upto(n) == After(s \o P(n), ctx)
                        = IF a.decoded.ended # "NONE" THEN a ELSE Both(a, Len(s), After(P(n), mid))
           R       == {n \in Nat : n <= Len(t) => Upto(n)}
<1>1. a \in Outcome(C, O, E) /\ Len(s) \in Nat /\ Len(t) \in Nat
      /\ (a.decoded.ended = "NONE" => a.read = Len(s))
  BY AfterType
<1>2. mid \in C /\ a.decoded.out \in Seq(O)
  BY <1>1 DEF Outcome
<1>3. 0 \in R
  <2>1. P(0) = <<>> /\ s \o <<>> = s
    BY SubSeqEmpty, ConcatEmptySeq
  <2>2. After(P(0), mid) = Beginning(mid)
    BY <1>2, <2>1, AfterEmpty
  <2>3. ASSUME a.decoded.ended = "NONE" PROVE Both(a, Len(s), Beginning(mid)) = a
    <3>1. a.decoded.out \o <<>> = a.decoded.out
      BY <1>2, ConcatEmptySeq
    <3>2. Len(s) + 0 = a.read
      BY <1>1, <2>3
    <3>3. Both(a, Len(s), Beginning(mid))
            = [decoded |-> [ctx |-> mid, out |-> a.decoded.out, ended |-> "NONE"], read |-> a.read]
      BY <3>1, <3>2 DEF Both, Beginning, Fresh
    <3> QED
      BY <1>1, <2>3, <3>3 DEF Outcome
  <2>4. Upto(0)
    BY <2>1, <2>2, <2>3
  <2> HIDE DEF Upto
  <2> QED
    BY <2>4
<1>4. ASSUME NEW n \in Nat, n \in R PROVE n + 1 \in R
  <2> SUFFICES ASSUME n + 1 <= Len(t) PROVE Upto(n + 1)
    <3> HIDE DEF Upto
    <3> QED
      OBVIOUS
  <2>1. n \in 0..Len(t) /\ n + 1 \in 1..Len(t) /\ t[n + 1] \in S
    BY <1>1
  <2>2. Upto(n)
    <3> HIDE DEF Upto
    <3> QED
      BY <1>4, <2>1
  <2>3. P(n) \in Seq(S) /\ Len(P(n)) = n
    BY <2>1, SubSeqProperties
  <2>4. P(n + 1) = P(n) \o <<t[n + 1]>>
    <3>1. 1 \in 1..Len(t) /\ n + 1 \in 1..Len(t) /\ (n + 1) - 1 = n
      BY <1>1, <2>1
    <3> QED
      BY <3>1, SubSeqRecursiveSecond
  <2> DEFINE x == t[n + 1]
             q == P(n)
             b == After(q, mid)
  <2>5. x \in S /\ q \in Seq(S) /\ Len(q) = n
    BY <2>1, <2>3
  <2>6. P(n + 1) = q \o <<x>>
    BY <2>4
  <2>7. After(s \o q, ctx) = IF a.decoded.ended # "NONE" THEN a ELSE Both(a, Len(s), b)
    BY <2>2
  <2>8. Upto(n + 1) <=> After(s \o P(n + 1), ctx)
                        = IF a.decoded.ended # "NONE" THEN a
                          ELSE Both(a, Len(s), After(P(n + 1), mid))
    OBVIOUS
  <2> HIDE DEF P, x, q, Upto, mid
  <2>9. s \o q \in Seq(S) /\ Len(s \o q) = Len(s) + n
    BY <2>5
  <2>10. s \o (q \o <<x>>) = (s \o q) \o <<x>>
    <3>1. <<x>> \in Seq(S)
      BY <2>5
    <3> QED
      BY <2>5, <3>1, ConcatAssociative
  <2>11. After((s \o q) \o <<x>>, ctx) = Onward(After(s \o q, ctx), x, Len(s \o q) + 1)
    BY <2>5, <2>9, AfterByte
  <2>12. After(q \o <<x>>, mid) = Onward(b, x, Len(q) + 1)
    BY <1>2, <2>5, AfterByte
  <2>13. b \in Outcome(C, O, E)
    BY <1>2, <2>5, AfterType
  <2> HIDE DEF a, b
  <2>14. CASE a.decoded.ended # "NONE"
    <3>1. Onward(a, x, Len(s \o q) + 1) = a
      BY <2>14 DEF Onward
    <3> QED
      BY <2>6, <2>7, <2>8, <2>10, <2>11, <2>14, <3>1
  <2>15. CASE a.decoded.ended = "NONE"
    <3>1. Onward(Both(a, Len(s), b), x, Len(s) + (n + 1)) = Both(a, Len(s), Onward(b, x, n + 1))
      <4>1. PICK k \in Nat : k = Len(s)
        BY <1>1
      <4>2. PICK l \in Nat : l = n + 1
        OBVIOUS
      <4>3. Onward(Both(a, k, b), x, k + l) = Both(a, k, Onward(b, x, l))
        BY <1>1, <2>5, <2>13, BothOnward
      <4> QED
        BY <4>1, <4>2, <4>3
    <3>2. Len(s \o q) + 1 = Len(s) + (n + 1)
      BY <2>9
    <3> QED
      BY <2>5, <2>6, <2>7, <2>8, <2>10, <2>11, <2>12, <2>15, <3>1, <3>2
  <2> QED
    BY <2>14, <2>15
<1>5. Nat \subseteq R
  <2> HIDE DEF R
  <2> QED
    BY <1>3, <1>4, Induction
<1>6. Upto(Len(t))
  <2> HIDE DEF Upto
  <2> QED
    BY <1>1, <1>5
<1>7. P(Len(t)) = t
  BY SubSeqFull
<1> QED
  BY <1>6, <1>7

(* What the beginning of a text comes to, and the next byte.               *)
LEMMA EatNext ==
    ASSUME NEW C, NEW S, NEW O, NEW E, Decodes(C, S, O, E), NEW s \in Seq(S), NEW ctx \in C,
           NEW n \in Nat, n < Len(s), After(SubSeq(s, 1, n), ctx).decoded.ended = "NONE"
    PROVE  After(SubSeq(s, 1, n + 1), ctx).decoded = Eat(After(SubSeq(s, 1, n), ctx).decoded, s[n + 1])
<1>1. n \in 0..Len(s) /\ n + 1 \in 0..Len(s)
  BY LenProperties
<1>2. \A m \in 0..Len(s) : Reads(s, ctx)[m] = After(SubSeq(s, 1, m), ctx)
  BY ReadsOfPrefix
<1>3. PICK a, b : a = After(SubSeq(s, 1, n), ctx) /\ b = After(SubSeq(s, 1, n + 1), ctx)
  OBVIOUS
<1>4. \A k \in Nat : k < Len(s) => Reads(s, ctx)[k + 1] = Onward(Reads(s, ctx)[k], s[k + 1], k + 1)
  BY ReadsOneByOne
<1>5. b = Onward(a, s[n + 1], n + 1)
  BY <1>1, <1>2, <1>3, <1>4
<1>6. b.decoded = Eat(a.decoded, s[n + 1])
  BY <1>3, <1>5 DEF Onward
<1> QED
  BY <1>3, <1>6

-----------------------------------------------------------------------------
(* What a text decodes to, from its first byte on.                         *)

(* The first byte may end the data, otherwise the rest goes on from where  *)
(* it led.                                                                 *)
LEMMA AfterFirst ==
    ASSUME NEW C, NEW S, NEW O, NEW E, Decodes(C, S, O, E),
           NEW c \in S, NEW t \in Seq(S), NEW ctx \in C
    PROVE  After(<<c>> \o t, ctx).decoded.out
             = IF Ends(ctx, c) # "NONE" THEN Yields(ctx, c)
               ELSE Yields(ctx, c) \o After(t, To(ctx, c)).decoded.out
<1>1. PICK e \in Seq(S) : e = <<>> /\ Len(e) = 0
  BY EmptySeq
<1>2. PICK s \in Seq(S) : s = <<c>> /\ Len(s) = 1
  <2>1. <<c>> \in Seq(S)
    OBVIOUS
  <2>2. Len(<<c>>) = 1
    OBVIOUS
  <2> QED
    BY <2>1, <2>2
<1>3. e \o <<c>> = s
  BY <1>1, <1>2, ConcatEmptySeq
<1>4. After(e, ctx) = Beginning(ctx)
  BY <1>1, AfterEmpty
<1>5. After(e \o <<c>>, ctx) = Onward(After(e, ctx), c, Len(e) + 1)
  BY AfterByte
<1>6. Yields(ctx, c) \in Seq(O)
  BY DEF Decodes
<1>7. <<>> \o Yields(ctx, c) = Yields(ctx, c)
  BY <1>6, ConcatEmptySeq
<1>8. PICK a : /\ a = After(s, ctx)
               /\ a.decoded = [ctx |-> To(ctx, c), out |-> Yields(ctx, c), ended |-> Ends(ctx, c)]
  <2>1. Beginning(ctx).decoded = Fresh(ctx)
    BY DEF Beginning
  <2>2. Onward(Beginning(ctx), c, Len(e) + 1).decoded = Eat(Fresh(ctx), c)
    BY <2>1 DEF Onward, Fresh
  <2>3. Eat(Fresh(ctx), c) = [ctx |-> To(ctx, c), out |-> Yields(ctx, c), ended |-> Ends(ctx, c)]
    BY <1>7 DEF Fresh, Eat
  <2>4. After(s, ctx) = Onward(Beginning(ctx), c, Len(e) + 1)
    BY <1>3, <1>4, <1>5
  <2> QED
    BY <2>2, <2>3, <2>4
<1>9. After(s \o t, ctx) = IF After(s, ctx).decoded.ended # "NONE" THEN After(s, ctx)
                           ELSE Both(After(s, ctx), Len(s), After(t, After(s, ctx).decoded.ctx))
  BY AfterConcat
<1>10. PICK b : b = After(t, To(ctx, c))
  OBVIOUS
<1>11. Both(a, Len(s), b).decoded.out = Yields(ctx, c) \o b.decoded.out
  BY <1>8 DEF Both
<1>12. After(s \o t, ctx) = IF Ends(ctx, c) # "NONE" THEN a ELSE Both(a, Len(s), b)
  BY <1>8, <1>9, <1>10
<1>13. After(<<c>> \o t, ctx) = After(s \o t, ctx)
  BY <1>2
<1>14. PICK z : z = After(s \o t, ctx)
  OBVIOUS
<1>15. CASE Ends(ctx, c) # "NONE"
  <2>1. z = a
    BY <1>12, <1>14, <1>15
  <2> QED
    BY <1>8, <1>13, <1>14, <1>15, <2>1
<1>16. CASE Ends(ctx, c) = "NONE"
  <2>1. z = Both(a, Len(s), b)
    BY <1>12, <1>14, <1>16
  <2>2. z.decoded.out = Yields(ctx, c) \o b.decoded.out
    BY <1>11, <2>1
  <2> QED
    BY <1>10, <1>13, <1>14, <1>16, <2>2
<1> QED
  BY <1>15, <1>16

\* f[<<ctx, s>>] is decoded byte by byte as the stream decodes s.
DecodesLike(C, S, f) ==
    \A ctx \in C :
        /\ f[<<ctx, <<>>>>] = <<>>
        /\ \A c \in S, t \in Seq(S) :
              f[<<ctx, <<c>> \o t>>] = IF Ends(ctx, c) # "NONE" THEN Yields(ctx, c)
                                       ELSE Yields(ctx, c) \o f[<<To(ctx, c), t>>]

(* Then it is what the stream decodes s to.                                *)
LEMMA DecodedLike ==
    ASSUME NEW C, NEW S, NEW O, NEW E, Decodes(C, S, O, E), NEW f, DecodesLike(C, S, f),
           NEW text \in Seq(S), NEW start \in C
    PROVE  After(text, start).decoded.out = f[<<start, text>>]
<1> DEFINE G == {s \in Seq(S) : \A ctx \in C : After(s, ctx).decoded.out = f[<<ctx, s>>]}
<1>1. ASSUME NEW s \in Seq(S), \A t \in Seq(S) : Len(t) < Len(s) => t \in G,
             NEW ctx \in C
      PROVE  After(s, ctx).decoded.out = f[<<ctx, s>>]
  <2>1. CASE s = <<>>
    <3>1. After(<<>>, ctx).decoded.out = <<>>
      BY AfterEmpty DEF Beginning, Fresh
    <3>2. f[<<ctx, <<>>>>] = <<>>
      BY DEF DecodesLike
    <3> QED
      BY <2>1, <3>1, <3>2
  <2>2. CASE s # <<>>
    <3>1. PICK c \in S, t \in Seq(S) : s = <<c>> \o t /\ Len(t) < Len(s)
      BY <2>2, EmptyOrFirst
    <3>2. To(ctx, c) \in C
      BY DEF Decodes
    <3>3. After(t, To(ctx, c)).decoded.out = f[<<To(ctx, c), t>>]
      BY <1>1, <3>1, <3>2
    <3>4. f[<<ctx, <<c>> \o t>>] = IF Ends(ctx, c) # "NONE" THEN Yields(ctx, c)
                                   ELSE Yields(ctx, c) \o f[<<To(ctx, c), t>>]
      BY DEF DecodesLike
    <3>5. After(<<c>> \o t, ctx).decoded.out
             = IF Ends(ctx, c) # "NONE" THEN Yields(ctx, c)
               ELSE Yields(ctx, c) \o After(t, To(ctx, c)).decoded.out
      BY AfterFirst
    <3> QED
      BY <3>1, <3>3, <3>4, <3>5
  <2> QED
    BY <2>1, <2>2
<1>2. \A s \in Seq(S) : (\A t \in Seq(S) : Len(t) < Len(s) => t \in G) => s \in G
  BY <1>1
<1>3. Seq(S) \subseteq G
  <2> HIDE DEF G
  <2> QED
    BY <1>2, ShorterInduction
<1> QED
  BY <1>3
=============================================================================
