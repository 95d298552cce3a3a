--------------------------- MODULE DataInduction ----------------------------
(***************************************************************************)
(* Induction over the natural numbers, and functions defined by recursion  *)
(* on them, for the provers.  The library's theorems take a predicate as   *)
(* their parameter; here it is a set, and the step of a recursion a        *)
(* function, so that they can be cited like any other fact.                *)
(***************************************************************************)
EXTENDS Integers, SequenceTheorems, WellFoundedInduction, TLAPS

\* The order that is well-founded.
Below == {ss \in Nat \X Nat : ss[1] < ss[2]}

(* A set of numbers that is not empty has a least one.                     *)
LEMMA LeastNumber ==
    ASSUME NEW S, S \subseteq Nat, S # {}
    PROVE  \E x \in S : \A y \in S : x <= y
<1>1. IsWellFoundedOn(Below, Nat)
  BY NatLessThanWellFounded DEF OpToRel, Below
<1>2. PICK x \in S : \A y \in S : ~ (<<y, x>> \in Below)
  BY <1>1, WFMin
<1>3. ASSUME NEW y \in S PROVE x <= y
  <2>1. <<y, x>> \notin Below
    BY <1>2
  <2>2. ~ (y < x)
    BY <2>1 DEF Below
  <2> QED
    BY <2>2
<1> QED
  BY <1>3

(* A set that has 0, and with a number the next, has all of them.          *)
LEMMA Induction ==
    ASSUME NEW S, 0 \in S, \A n \in Nat : n \in S => n + 1 \in S
    PROVE  Nat \subseteq S
<1>1. SUFFICES ASSUME Nat \ S # {} PROVE FALSE
  OBVIOUS
<1>2. PICK x \in Nat \ S : \A y \in Nat \ S : x <= y
  <2> DEFINE T == Nat \ S
  <2>1. T \subseteq Nat /\ T # {}
    BY <1>1
  <2> HIDE DEF T
  <2>2. \E x \in T : \A y \in T : x <= y
    BY <2>1, LeastNumber
  <2> QED
    BY <2>2 DEF T
<1>3. x - 1 \in Nat /\ x - 1 < x /\ x - 1 + 1 = x
  BY <1>2
<1>4. x - 1 \in S
  BY <1>2, <1>3
<1> QED
  BY <1>2, <1>3, <1>4

(* A set that has the empty text, and with a text every longer one.        *)
LEMMA TextInduction ==
    ASSUME NEW S, NEW G, <<>> \in G,
           \A s \in Seq(S), e \in S : s \in G => s \o <<e>> \in G
    PROVE  Seq(S) \subseteq G
<1> DEFINE R == {n \in Nat : \A s \in Seq(S) : Len(s) = n => s \in G}
<1>1. 0 \in R
  <2>1. ASSUME NEW s \in Seq(S), Len(s) = 0 PROVE s \in G
    <3>1. s = <<>>
      BY <2>1, EmptySeq
    <3> QED
      BY <3>1
  <2> QED
    BY <2>1
<1>2. ASSUME NEW n \in Nat, n \in R PROVE n + 1 \in R
  <2>1. ASSUME NEW s \in Seq(S), Len(s) = n + 1 PROVE s \in G
    <3>1. s # <<>>
      BY <2>1, EmptySeq
    <3>2. PICK t \in Seq(S), e \in S : s = Append(t, e)
      BY <3>1, SequenceEmptyOrAppend
    <3>3. s = t \o <<e>> /\ Len(t) = n
      BY <2>1, <3>2, AppendProperties, AppendIsConcat
    <3>4. t \in G
      BY <1>2, <3>3
    <3> QED
      BY <3>3, <3>4
  <2> QED
    BY <2>1
<1>3. Nat \subseteq R
  <2> HIDE DEF R
  <2> QED
    BY <1>1, <1>2, Induction
<1>4. ASSUME NEW s \in Seq(S) PROVE s \in G
  <2>1. Len(s) \in R
    <3>1. Len(s) \in Nat
      OBVIOUS
    <3> HIDE DEF R
    <3> QED
      BY <1>3, <3>1
  <2> QED
    BY <2>1
<1> QED
  BY <1>4

-----------------------------------------------------------------------------
(* Functions defined by recursion on a number.                             *)

\* A step makes the next value of a number and the value before it.
Steps(T, N) == [(1..N) \X T -> T]

Unfolds(g, b, N, step) == g[0] = b /\ \A n \in 1..N : g[n] = step[<<n, g[n - 1]>>]

HasUnfolding(T, b, N, step) == \E g \in [0..N -> T] : Unfolds(g, b, N, step)

(* There is a function with the values that a recursive definition asks    *)
(* for, so that the definition means what it says.                         *)
LEMMA Recursion ==
    ASSUME NEW T, NEW b \in T, NEW N \in Nat, NEW step \in Steps(T, N)
    PROVE  HasUnfolding(T, b, N, step)
<1> USE DEF Steps, Unfolds, HasUnfolding
<1> DEFINE Upto(m) == \E g \in [0..m -> T] : g[0] = b /\ \A n \in 1..m : g[n] = step[<<n, g[n - 1]>>]
           S == {m \in Nat : m <= N => Upto(m)}
<1>1. 0 \in S
  <2>1. [k \in 0..0 |-> b] \in [0..0 -> T]
    OBVIOUS
  <2>2. [k \in 0..0 |-> b][0] = b /\ \A n \in 1..0 : FALSE
    OBVIOUS
  <2>3. Upto(0)
    BY <2>1, <2>2
  <2> QED
    BY <2>3
<1>2. ASSUME NEW m \in Nat, m \in S, m + 1 <= N
      PROVE  Upto(m + 1)
  <2>1. PICK g \in [0..m -> T] : g[0] = b /\ \A n \in 1..m : g[n] = step[<<n, g[n - 1]>>]
    BY <1>2
  <2>2. m + 1 \in 1..N /\ m \in 0..m
    BY <1>2
  <2>3. step[<<m + 1, g[m]>>] \in T
    BY <2>1, <2>2
  <2> DEFINE h == [k \in 0..(m + 1) |-> IF k <= m THEN g[k] ELSE step[<<m + 1, g[m]>>]]
  <2>4. h \in [0..(m + 1) -> T]
    BY <2>1, <2>3
  <2>5. h[0] = b
    BY <2>1
  <2>6. ASSUME NEW n \in 1..(m + 1) PROVE h[n] = step[<<n, h[n - 1]>>]
    <3>1. CASE n <= m
      <4>1. n \in 1..m /\ n - 1 \in 0..m /\ n \in 0..(m + 1) /\ n - 1 \in 0..(m + 1)
        BY <3>1
      <4>2. h[n] = g[n] /\ h[n - 1] = g[n - 1]
        BY <3>1, <4>1
      <4> HIDE DEF h
      <4> QED
        BY <2>1, <4>1, <4>2
    <3>2. CASE n = m + 1
      <4>1. h[n] = step[<<m + 1, g[m]>>] /\ h[m] = g[m] /\ n - 1 = m
        BY <3>2
      <4> QED
        BY <3>2, <4>1
    <3> QED
      BY <3>1, <3>2
  <2> QED
    BY <2>4, <2>5, <2>6
<1>3. \A m \in Nat : m \in S => m + 1 \in S
  BY <1>2
<1>4. Nat \subseteq S
  <2> HIDE DEF S
  <2> QED
    BY <1>1, <1>3, Induction
<1>5. N \in S
  BY <1>4
<1> QED
  BY <1>5

-----------------------------------------------------------------------------
(* Functions defined by recursion on a text: the value of a text is made   *)
(* from the values of shorter ones.                                        *)

\* body[<<f, s>>] is what a definition makes of s, given f; it asks f for shorter texts only.
Bodies(S, T) == [[Seq(S) -> T] \X Seq(S) -> T]

AgreeBelow(S, f, g, n) == \A t \in Seq(S) : Len(t) < n => f[t] = g[t]

AsksShorter(S, T, body) ==
    \A f, g \in [Seq(S) -> T], s \in Seq(S) :
        AgreeBelow(S, f, g, Len(s)) => body[<<f, s>>] = body[<<g, s>>]

\* f is as defined, for texts of up to n elements.
DefinedUpTo(S, body, f, n) == \A s \in Seq(S) : Len(s) <= n => f[s] = body[<<f, s>>]

HasRecursive(S, T, body) == \E f \in [Seq(S) -> T] : \A s \in Seq(S) : f[s] = body[<<f, s>>]

(* Where two functions are as defined, they are the same.                  *)
LEMMA SameWhereDefined ==
    ASSUME NEW S, NEW T, NEW body \in Bodies(S, T), AsksShorter(S, T, body),
           NEW f \in [Seq(S) -> T], NEW g \in [Seq(S) -> T], NEW n \in Nat,
           DefinedUpTo(S, body, f, n), DefinedUpTo(S, body, g, n)
    PROVE  AgreeBelow(S, f, g, n + 1)
<1> DEFINE R == {m \in Nat : m <= n => AgreeBelow(S, f, g, m + 1)}
<1>1. ASSUME NEW m \in Nat, m <= n, AgreeBelow(S, f, g, m) PROVE AgreeBelow(S, f, g, m + 1)
  <2>1. ASSUME NEW s \in Seq(S), Len(s) < m + 1 PROVE f[s] = g[s]
    <3>1. Len(s) \in Nat /\ Len(s) <= m /\ Len(s) <= n
      BY <1>1, <2>1
    <3>2. AgreeBelow(S, f, g, Len(s))
      BY <1>1, <3>1 DEF AgreeBelow
    <3>3. body[<<f, s>>] = body[<<g, s>>]
      BY <3>2 DEF AsksShorter
    <3>4. f[s] = body[<<f, s>>] /\ g[s] = body[<<g, s>>]
      BY <3>1 DEF DefinedUpTo
    <3> QED
      BY <3>3, <3>4
  <2> QED
    BY <2>1 DEF AgreeBelow
<1>2. 0 \in R
  <2>1. AgreeBelow(S, f, g, 0)
    BY LenProperties DEF AgreeBelow
  <2> QED
    BY <1>1, <2>1
<1>3. \A m \in Nat : m \in R => m + 1 \in R
  BY <1>1
<1>4. Nat \subseteq R
  <2> HIDE DEF R
  <2> QED
    BY <1>2, <1>3, Induction
<1> QED
  BY <1>4

(* There is one for every bound.                                           *)
LEMMA DefinedUpToAny ==
    ASSUME NEW S, NEW T, NEW body \in Bodies(S, T), AsksShorter(S, T, body), NEW e \in T
    PROVE  \A n \in Nat : \E f \in [Seq(S) -> T] : DefinedUpTo(S, body, f, n)
<1> DEFINE R == {n \in Nat : \E f \in [Seq(S) -> T] : DefinedUpTo(S, body, f, n)}
           Next(f) == [s \in Seq(S) |-> body[<<f, s>>]]
<1>1. ASSUME NEW f \in [Seq(S) -> T]
      PROVE  Next(f) \in [Seq(S) -> T] /\ \A s \in Seq(S) : Next(f)[s] = body[<<f, s>>]
  BY DEF Bodies
<1> HIDE DEF Next
<1>2. 0 \in R
  <2> DEFINE z == [s \in Seq(S) |-> e]
  <2>1. z \in [Seq(S) -> T]
    OBVIOUS
  <2> HIDE DEF z
  <2>2. ASSUME NEW s \in Seq(S), Len(s) <= 0 PROVE Next(z)[s] = body[<<Next(z), s>>]
    <3>1. AgreeBelow(S, z, Next(z), Len(s))
      BY <2>2, LenProperties DEF AgreeBelow
    <3>2. body[<<z, s>>] = body[<<Next(z), s>>]
      BY <1>1, <2>1, <3>1 DEF AsksShorter
    <3> QED
      BY <1>1, <2>1, <3>2
  <2>3. DefinedUpTo(S, body, Next(z), 0)
    BY <2>2 DEF DefinedUpTo
  <2> QED
    BY <1>1, <2>1, <2>3
<1>3. ASSUME NEW n \in Nat, n \in R PROVE n + 1 \in R
  <2>1. PICK f \in [Seq(S) -> T] : DefinedUpTo(S, body, f, n)
    BY <1>3
  <2>2. ASSUME NEW s \in Seq(S), Len(s) <= n + 1 PROVE Next(f)[s] = body[<<Next(f), s>>]
    <3>1. AgreeBelow(S, f, Next(f), Len(s))
      <4>1. ASSUME NEW t \in Seq(S), Len(t) < Len(s) PROVE f[t] = Next(f)[t]
        <5>1. Len(t) <= n
          BY <2>2, <4>1, LenProperties
        <5> QED
          BY <1>1, <2>1, <5>1 DEF DefinedUpTo
      <4> QED
        BY <4>1 DEF AgreeBelow
    <3>2. body[<<f, s>>] = body[<<Next(f), s>>]
      BY <1>1, <2>1, <3>1 DEF AsksShorter
    <3> QED
      BY <1>1, <2>1, <3>2
  <2>3. DefinedUpTo(S, body, Next(f), n + 1)
    BY <2>2 DEF DefinedUpTo
  <2> QED
    BY <1>1, <2>1, <2>3
<1>4. \A n \in Nat : n \in R => n + 1 \in R
  BY <1>3
<1>5. Nat \subseteq R
  <2> HIDE DEF R
  <2> QED
    BY <1>2, <1>4, Induction
<1> QED
  BY <1>5

(* The function that a recursive definition on texts asks for exists.      *)
LEMMA TextRecursion ==
    ASSUME NEW S, NEW T, NEW body \in Bodies(S, T), AsksShorter(S, T, body), NEW e \in T
    PROVE  HasRecursive(S, T, body)
<1> DEFINE G    == [Seq(S) -> T]
           g(n) == CHOOSE f \in G : DefinedUpTo(S, body, f, n)
           F    == [s \in Seq(S) |-> g(Len(s))[s]]
<1>1. ASSUME NEW n \in Nat PROVE g(n) \in G /\ DefinedUpTo(S, body, g(n), n)
  <2>1. \E f \in G : DefinedUpTo(S, body, f, n)
    BY DefinedUpToAny
  <2> HIDE DEF G
  <2> QED
    BY <2>1
<1> HIDE DEF g
<1>2. F \in G
  BY <1>1, LenProperties
<1>3. \A s \in Seq(S) : F[s] = g(Len(s))[s]
  OBVIOUS
<1> HIDE DEF F
<1>4. ASSUME NEW s \in Seq(S) PROVE F[s] = body[<<F, s>>]
  <2>1. PICK n \in Nat : n = Len(s)
    BY LenProperties
  <2>2. g(n) \in G /\ DefinedUpTo(S, body, g(n), n)
    BY <1>1
  <2>3. AgreeBelow(S, F, g(n), n)
    <3>1. ASSUME NEW t \in Seq(S), Len(t) < n PROVE F[t] = g(n)[t]
      <4>1. PICK m \in Nat : m = Len(t)
        BY LenProperties
      <4>2. g(m) \in G /\ DefinedUpTo(S, body, g(m), m)
        BY <1>1
      <4>3. m < n
        BY <3>1, <4>1
      <4>4. DefinedUpTo(S, body, g(n), m)
        <5>1. \A u \in Seq(S) : Len(u) <= m => Len(u) <= n
          BY <4>3, LenProperties
        <5> QED
          BY <2>2, <5>1 DEF DefinedUpTo
      <4>5. \A u \in Seq(S) : Len(u) <= m => g(m)[u] = g(n)[u]
        <5>1. PICK p \in [Seq(S) -> T] : p = g(m)
          BY <4>2
        <5>2. PICK q \in [Seq(S) -> T] : q = g(n)
          BY <2>2
        <5>3. DefinedUpTo(S, body, p, m) /\ DefinedUpTo(S, body, q, m)
          BY <4>2, <4>4, <5>1, <5>2
        <5>4. AgreeBelow(S, p, q, m + 1)
          BY <5>3, SameWhereDefined
        <5>5. \A u \in Seq(S) : Len(u) <= m => Len(u) < m + 1
          BY LenProperties
        <5> QED
          BY <5>1, <5>2, <5>4, <5>5 DEF AgreeBelow
      <4>6. g(m)[t] = g(n)[t]
        BY <4>1, <4>5
      <4> QED
        BY <1>3, <4>1, <4>6
    <3> QED
      BY <3>1 DEF AgreeBelow
  <2>4. body[<<F, s>>] = body[<<g(n), s>>]
    BY <1>2, <2>1, <2>2, <2>3 DEF AsksShorter
  <2>5. g(n)[s] = body[<<g(n), s>>]
    BY <2>1, <2>2 DEF DefinedUpTo
  <2> QED
    BY <1>3, <2>1, <2>4, <2>5
<1> QED
  BY <1>2, <1>4 DEF HasRecursive

(* A set of texts that has those whose shorter texts it has, has all.      *)
LEMMA ShorterInduction ==
    ASSUME NEW S, NEW G,
           \A s \in Seq(S) : (\A t \in Seq(S) : Len(t) < Len(s) => t \in G) => s \in G
    PROVE  Seq(S) \subseteq G
<1> DEFINE R == {n \in Nat : \A s \in Seq(S) : Len(s) < n => s \in G}
<1>1. 0 \in R
  BY LenProperties
<1>2. ASSUME NEW n \in Nat, n \in R PROVE n + 1 \in R
  <2>1. ASSUME NEW s \in Seq(S), Len(s) < n + 1 PROVE s \in G
    <3>1. \A t \in Seq(S) : Len(t) < Len(s) => Len(t) < n
      BY <2>1, LenProperties
    <3> QED
      BY <1>2, <3>1
  <2> QED
    BY <2>1
<1>3. Nat \subseteq R
  <2> HIDE DEF R
  <2> QED
    BY <1>1, <1>2, Induction
<1>4. ASSUME NEW s \in Seq(S) PROVE s \in G
  <2>1. Len(s) + 1 \in Nat /\ Len(s) < Len(s) + 1
    BY LenProperties
  <2> QED
    BY <1>3, <2>1
<1> QED
  BY <1>4
-----------------------------------------------------------------------------
(* Texts by their first element.                                           *)

(* What is put before a text, and what is left of it.                      *)
LEMMA FirstIs ==
    ASSUME NEW S, NEW c \in S, NEW t \in Seq(S)
    PROVE  /\ (<<c>> \o t) \in Seq(S) /\ (<<c>> \o t) # <<>>
           /\ Head((<<c>> \o t)) = c /\ Tail((<<c>> \o t)) = t
           /\ Len((<<c>> \o t)) = Len(t) + 1 /\ (<<c>> \o t)[1] = c
           /\ \A k \in 1..Len(t) : (<<c>> \o t)[k + 1] = t[k]
<1>1. <<c>> \in Seq(S) /\ Len(<<c>>) = 1 /\ <<c>>[1] = c
  OBVIOUS
<1>2. PICK u : u = <<c>> \o t
  OBVIOUS
<1>3. u \in Seq(S) /\ Len(u) = Len(t) + 1 /\ u[1] = c /\ \A k \in 1..Len(t) : u[k + 1] = t[k]
  BY <1>1, <1>2, ConcatProperties, LenProperties
<1>4. u # <<>> /\ Head(u) = c
  BY <1>3, LenProperties, EmptySeq, HeadTailProperties
<1>5. Tail(u) = t
  BY <1>3, <1>4, HeadTailProperties, SeqEqual, LenProperties
<1> QED
  BY <1>2, <1>3, <1>4, <1>5

(* And every text is one of these.                                         *)
LEMMA EmptyOrFirst ==
    ASSUME NEW S, NEW t \in Seq(S)
    PROVE  t = <<>> \/ \E c \in S, u \in Seq(S) : t = (<<c>> \o u) /\ Len(u) < Len(t)
<1> SUFFICES ASSUME t # <<>>
             PROVE  \E c \in S, u \in Seq(S) : t = (<<c>> \o u) /\ Len(u) < Len(t)
  OBVIOUS
<1>1. PICK c \in S, u \in Seq(S) : c = Head(t) /\ u = Tail(t)
  BY HeadTailProperties
<1>2. (<<c>> \o u) \in Seq(S) /\ Len((<<c>> \o u)) = Len(u) + 1 /\ (<<c>> \o u)[1] = c
      /\ \A k \in 1..Len(u) : (<<c>> \o u)[k + 1] = u[k]
  BY FirstIs
<1>3. Len(t) = Len(u) + 1 /\ t[1] = c /\ \A k \in 1..Len(u) : t[k + 1] = u[k]
  BY <1>1, HeadTailProperties, LenProperties
<1>4. t = (<<c>> \o u)
  <2>1. PICK v \in Seq(S) : v = (<<c>> \o u)
    BY <1>2
  <2>2. Len(t) = Len(v) /\ Len(u) \in Nat
    BY <1>2, <1>3, <2>1, LenProperties
  <2>3. ASSUME NEW k \in 1..Len(t) PROVE t[k] = v[k]
    <3>1. CASE k = 1
      BY <1>2, <1>3, <2>1, <3>1
    <3>2. CASE k # 1
      <4>1. k - 1 \in 1..Len(u) /\ k - 1 + 1 = k
        BY <1>3, <2>2, <3>2
      <4> QED
        BY <1>2, <1>3, <2>1, <4>1
    <3> QED
      BY <3>1, <3>2
  <2> QED
    BY <2>1, <2>2, <2>3, SeqEqual
<1> QED
  BY <1>3, <1>4, LenProperties
=============================================================================
