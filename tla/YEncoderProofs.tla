--------------------------- MODULE YEncoderProofs ---------------------------
(***************************************************************************)
(* Proofs about YEncoder, for files of any size in any number of parts,    *)
(* and for any number of calls, whether they throw or not.                 *)
(***************************************************************************)
EXTENDS YEncoder, DataInduction, SequenceTheorems, FiniteSetTheorems

-----------------------------------------------------------------------------
(* The data of the posts, one after the other (FlattenSeq of SequencesExt, *)
(* which is defined by recursion on the number of sequences).              *)

Joins(f, ss) == f = [i \in 1..Len(ss) |-> IF i = 1 THEN ss[i] ELSE f[i - 1] \o ss[i]]

flatten(ss) == CHOOSE f : Joins(f, ss)

(* There is a function with the values the definition asks for.            *)
LEMMA FlattenExists ==
    ASSUME NEW T, NEW ss \in Seq(Seq(T))
    PROVE  Joins(flatten(ss), ss)
<1> DEFINE N    == Len(ss)
           step == [p \in (1..N) \X Seq(T) |-> p[2] \o ss[p[1]]]
<1>1. N \in Nat /\ \A n \in 1..N : ss[n] \in Seq(T)
  OBVIOUS
<1>2. <<>> \in Seq(T)
  BY EmptySeq
<1>3. step \in Steps(Seq(T), N)
  <2>1. ASSUME NEW p \in (1..N) \X Seq(T) PROVE p[2] \o ss[p[1]] \in Seq(T)
    <3>1. p[1] \in 1..N /\ p[2] \in Seq(T)
      OBVIOUS
    <3>2. ss[p[1]] \in Seq(T)
      BY <1>1, <3>1
    <3> QED
      BY <3>1, <3>2, ConcatProperties
  <2> QED
    BY <2>1 DEF Steps
<1>4. PICK g \in [0..N -> Seq(T)] : g[0] = <<>> /\ \A n \in 1..N : g[n] = step[<<n, g[n - 1]>>]
  <2> HIDE DEF N, step
  <2>1. HasUnfolding(Seq(T), <<>>, N, step)
    BY <1>1, <1>2, <1>3, Recursion
  <2> QED
    BY <2>1 DEF HasUnfolding, Unfolds
<1>5. ASSUME NEW n \in 1..N PROVE g[n] = g[n - 1] \o ss[n]
  <2>1. n - 1 \in 0..N
    BY <1>1
  <2>2. <<n, g[n - 1]>> \in (1..N) \X Seq(T)
    BY <1>4, <2>1
  <2>3. step[<<n, g[n - 1]>>] = g[n - 1] \o ss[n]
    BY <2>2
  <2> QED
    BY <1>4, <2>3
<1> HIDE DEF step
<1> DEFINE f == [n \in 1..N |-> g[n]]
<1>6. ASSUME NEW n \in 1..N PROVE f[n] = IF n = 1 THEN ss[n] ELSE f[n - 1] \o ss[n]
  <2>1. CASE n = 1
    <3>1. g[1] = <<>> \o ss[1] /\ ss[1] \in Seq(T)
      <4>1. 1 \in 1..N /\ 1 - 1 = 0
        BY <2>1
      <4>2. g[1] = g[1 - 1] \o ss[1]
        BY <1>5, <4>1
      <4> QED
        BY <1>1, <1>4, <4>1, <4>2
    <3> QED
      BY <2>1, <3>1, ConcatEmptySeq
  <2>2. CASE n # 1
    <3>1. n - 1 \in 1..N
      BY <1>1, <2>2
    <3> QED
      BY <1>5, <2>2, <3>1
  <2> QED
    BY <2>1, <2>2
<1>7. Joins(f, ss)
  BY <1>6 DEF Joins
<1> QED
  BY <1>7 DEF flatten

(* Its values one by one.                                                  *)
LEMMA FlattenOneByOne ==
    ASSUME NEW T, NEW ss \in Seq(Seq(T))
    PROVE  /\ Len(ss) > 0 => flatten(ss)[1] = ss[1]
           /\ \A k \in Nat \ {0} : k < Len(ss) => flatten(ss)[k + 1] = flatten(ss)[k] \o ss[k + 1]
           /\ FlattenSeq(ss) = IF Len(ss) = 0 THEN <<>> ELSE flatten(ss)[Len(ss)]
<1>1. Joins(flatten(ss), ss) /\ Len(ss) \in Nat
  BY FlattenExists
<1> DEFINE f == flatten(ss)
<1>2. f = [n \in 1..Len(ss) |-> IF n = 1 THEN ss[n] ELSE f[n - 1] \o ss[n]]
  BY <1>1 DEF Joins
<1> HIDE DEF f
<1>3. ASSUME NEW n \in 1..Len(ss) PROVE f[n] = IF n = 1 THEN ss[n] ELSE f[n - 1] \o ss[n]
  BY <1>2
<1>4. Len(ss) > 0 => f[1] = ss[1]
  BY <1>1, <1>3
<1>5. ASSUME NEW k \in Nat \ {0}, k < Len(ss) PROVE f[k + 1] = f[k] \o ss[k + 1]
  <2>1. k + 1 \in 1..Len(ss) /\ k + 1 # 1 /\ (k + 1) - 1 = k
    BY <1>1, <1>5
  <2> QED
    BY <1>3, <2>1
<1>6. FlattenSeq(ss) = IF Len(ss) = 0 THEN ss ELSE f[Len(ss)]
  BY DEF FlattenSeq, f, flatten, Joins
<1>7. Len(ss) = 0 => ss = <<>>
  OBVIOUS
<1> QED
  BY <1>4, <1>5, <1>6, <1>7 DEF f

(* It is a sequence, and one sequence more goes after it.                  *)
LEMMA FlattenAppend ==
    ASSUME NEW T, NEW ss \in Seq(Seq(T)), NEW x \in Seq(T)
    PROVE  /\ FlattenSeq(ss) \in Seq(T)
           /\ FlattenSeq(Append(ss, x)) = FlattenSeq(ss) \o x
<1> DEFINE N  == Len(ss)
           tt == Append(ss, x)
           F  == flatten(ss)
           G  == flatten(tt)
           S  == {n \in Nat : 1 <= n /\ n <= N => F[n] \in Seq(T) /\ G[n] = F[n]}
<1>1. /\ N \in Nat /\ tt \in Seq(Seq(T)) /\ Len(tt) = N + 1 /\ tt[N + 1] = x
      /\ \A n \in 1..N : tt[n] = ss[n] /\ ss[n] \in Seq(T)
  BY AppendProperties
<1>2. /\ N > 0 => F[1] = ss[1]
      /\ \A k \in Nat \ {0} : k < N => F[k + 1] = F[k] \o ss[k + 1]
      /\ FlattenSeq(ss) = IF N = 0 THEN <<>> ELSE F[N]
  BY FlattenOneByOne
<1>3. /\ G[1] = tt[1]
      /\ \A k \in Nat \ {0} : k < N + 1 => G[k + 1] = G[k] \o tt[k + 1]
      /\ FlattenSeq(tt) = G[N + 1]
  <2> HIDE DEF tt
  <2>1. /\ Len(tt) > 0 => G[1] = tt[1]
        /\ \A k \in Nat \ {0} : k < Len(tt) => G[k + 1] = G[k] \o tt[k + 1]
        /\ FlattenSeq(tt) = IF Len(tt) = 0 THEN <<>> ELSE G[Len(tt)]
    BY <1>1, FlattenOneByOne
  <2>2. Len(tt) > 0 /\ Len(tt) # 0
    BY <1>1
  <2> QED
    BY <1>1, <2>1, <2>2
<1> HIDE DEF N, tt, F, G
<1>4. 0 \in S
  OBVIOUS
<1>5. ASSUME NEW n \in Nat, n \in S PROVE n + 1 \in S
  <2>1. CASE n + 1 > N
    BY <2>1, <1>1
  <2>2. CASE n = 0 /\ N > 0
    <3>1. 1 \in 1..N
      BY <1>1, <2>2
    <3>2. F[1] \in Seq(T) /\ G[1] = F[1]
      BY <1>1, <1>2, <1>3, <2>2, <3>1
    <3> QED
      BY <2>2, <3>2
  <2>3. CASE n # 0 /\ n + 1 <= N
    <3>1. n \in Nat \ {0} /\ n < N /\ n < N + 1 /\ n + 1 \in 1..N /\ 1 <= n /\ n <= N
      BY <1>1, <2>3
    <3>2. F[n] \in Seq(T) /\ G[n] = F[n]
      BY <1>5, <3>1
    <3>3. F[n + 1] = F[n] \o ss[n + 1] /\ G[n + 1] = G[n] \o tt[n + 1]
      BY <1>2, <1>3, <3>1
    <3>4. tt[n + 1] = ss[n + 1] /\ ss[n + 1] \in Seq(T)
      BY <1>1, <3>1
    <3>5. F[n + 1] \in Seq(T) /\ G[n + 1] = F[n + 1]
      BY <3>2, <3>3, <3>4
    <3> QED
      BY <3>5
  <2> QED
    BY <1>1, <2>1, <2>2, <2>3
<1>6. Nat \subseteq S
  <2> HIDE DEF S
  <2> QED
    BY <1>4, <1>5, Induction
<1>7. CASE N = 0
  <2>1. FlattenSeq(tt) = x /\ FlattenSeq(ss) = <<>>
    BY <1>1, <1>2, <1>3, <1>7
  <2>2. <<>> \o x = x /\ <<>> \in Seq(T)
    BY ConcatEmptySeq, EmptySeq
  <2> QED
    BY <2>1, <2>2 DEF tt
<1>8. CASE N # 0
  <2>1. N \in Nat \ {0} /\ N < N + 1 /\ 1 <= N /\ N <= N
    BY <1>1, <1>8
  <2>2. F[N] \in Seq(T) /\ G[N] = F[N]
    BY <1>6, <2>1
  <2>3. G[N + 1] = G[N] \o tt[N + 1]
    BY <1>3, <2>1
  <2> QED
    BY <1>1, <1>2, <1>3, <1>8, <2>2, <2>3 DEF tt
<1> QED
  BY <1>7, <1>8

-----------------------------------------------------------------------------
(* The inductive invariant.                                                *)

Post == [part : Nat, total : Nat, begin : Nat, end : Nat, size : Nat,
         pcrc32 : Seq(Nat), crc32 : Seq(Seq(Nat))]

Typed == /\ size \in Nat /\ parts \in Nat
         /\ part \in Nat /\ pos \in Nat /\ crc \in Seq(Nat)
         /\ encode \in {"multi", "_encodeSingle", "singleEncodeError"} /\ yInfo \in BOOLEAN
         /\ posts \in Seq(Post)

\* The data of the posts returned, and whether the last of them is.
Encoded  == [j \in 1..Len(posts) |-> posts[j].pcrc32]
Finished == encode = "singleEncodeError" \/ (encode = "multi" /\ part >= parts)

\* Between two calls, of which the one before may have thrown.  A last part found too
\* short leaves this.crc wrong, but then there can be no further post.
Between ==
    /\ encode = "_encodeSingle" => posts = <<>> /\ yInfo
    /\ encode = "multi" => /\ pos = IF posts = <<>> THEN 0 ELSE posts[Len(posts)].end
                           /\ pos <= size
                           /\ part < parts => crc = FlattenSeq(Encoded)
    /\ (\E j \in 1..Len(posts) : posts[j].crc32 # <<>>) => Finished

Inv == Typed /\ Between /\ PostsTileFile /\ CrcIsOfWholeFile /\ HeaderOutlivesParts

-----------------------------------------------------------------------------
(* The invariant holds at first, and every call keeps it.                  *)

(* The invariant holds of a new YEncoder.                                  *)
LEMMA InitInv == ASSUME Init PROVE Inv
<1>1. posts = <<>> /\ Len(posts) = 0
  BY EmptySeq DEF Init
<1>2. Typed
  BY <1>1, EmptySeq, AnnouncedAssumption DEF Init, Typed
<1>3. Encoded= <<>>
  BY <1>1 DEF Encoded
<1>4. FlattenSeq(<<>>) = <<>>
  BY EmptySeq DEF FlattenSeq
<1>5. Between
  BY <1>1, <1>2, <1>3, <1>4 DEF Init, Between, Typed
<1>6. PostsTileFile /\ CrcIsOfWholeFile /\ HeaderOutlivesParts
  BY <1>1 DEF Init, PostsTileFile, CrcIsOfWholeFile, HeaderOutlivesParts
<1> QED
  BY <1>2, <1>5, <1>6 DEF Inv

\* A call that throws returns no post.  It may count a part, and spoil the CRC if it was
\* to be the last.
LEMMA ThrewInv ==
    ASSUME Inv, UNCHANGED <<size, parts, pos, encode, yInfo, posts>>,
           \/ part' = part /\ crc' = crc
           \/ encode = "multi" /\ part' = part + 1 /\ crc' = crc
           \/ encode = "multi" /\ part' = parts /\ part < parts /\ crc' \in Seq(Nat)
    PROVE  Inv'
<1>1. Typed /\ Between /\ PostsTileFile /\ CrcIsOfWholeFile /\ HeaderOutlivesParts
  BY DEF Inv
<1>2. Typed'
  BY <1>1 DEF Typed
<1>3. part' >= part /\ (part' < parts' => part < parts /\ crc' = crc)
  BY <1>1 DEF Typed
<1>4. Encoded' = Encoded
  BY DEF Encoded
<1>5. Finished => Finished'
  BY <1>1, <1>3 DEF Finished, Typed
<1>6. Between'
  BY <1>1, <1>3, <1>4, <1>5 DEF Between
<1>7. PostsTileFile' /\ CrcIsOfWholeFile'
  BY <1>1 DEF PostsTileFile, CrcIsOfWholeFile
<1>8. HeaderOutlivesParts'
  BY <1>1, <1>3 DEF HeaderOutlivesParts, Typed
<1> QED
  BY <1>2, <1>6, <1>7, <1>8 DEF Inv

LEMMA ExceededPartsInv == ASSUME Inv, ExceededParts PROVE Inv'
  BY ThrewInv DEF ExceededParts, Threw, Called

LEMMA ExceededSizeInv == ASSUME Inv, NEW data \in Data, ExceededSize(data) PROVE Inv'
  BY ThrewInv DEF ExceededSize, Threw, Called

LEMMA SizeMismatchInv == ASSUME Inv, NEW data \in Data, SizeMismatch(data) PROVE Inv'
<1>1. /\ encode = "multi" /\ part + 1 = parts /\ part' = part + 1 /\ crc' = crc \o data
      /\ UNCHANGED <<size, parts, pos, encode, yInfo, posts>>
  BY DEF SizeMismatch, Threw, Called, IsLast
<1>2. part \in Nat /\ crc \in Seq(Nat) /\ data \in Seq(Nat)
  BY DataAssumption DEF Inv, Typed
<1>3. part' = parts /\ part < parts /\ crc' \in Seq(Nat)
  BY <1>1, <1>2
<1> QED
  BY <1>1, <1>3, ThrewInv

LEMMA SingleMismatchInv == ASSUME Inv, NEW data \in Data, SingleMismatch(data) PROVE Inv'
  BY ThrewInv DEF SingleMismatch, Threw, Called

LEMMA singleEncodeErrorInv == ASSUME Inv, singleEncodeError PROVE Inv'
  BY ThrewInv DEF singleEncodeError, Threw, Called

\* A post more.
LEMMA Grown ==
    ASSUME NEW S, NEW s \in Seq(S), NEW x \in S
    PROVE  /\ Append(s, x) \in Seq(S) /\ Len(Append(s, x)) = Len(s) + 1
           /\ Append(s, x)[Len(s) + 1] = x
           /\ \A j \in 1..Len(s) : Append(s, x)[j] = s[j]
           /\ Append(s, x) # <<>>
  BY AppendProperties

LEMMA PartInv == ASSUME Inv, NEW data \in Data, Part(data) PROVE Inv'
<1> DEFINE N    == Len(posts)
           last == IF IsLast(data) THEN <<crc'>> ELSE <<>>
           p    == [part |-> part', total |-> parts, begin |-> pos + 1, end |-> pos',
                    size |-> Len(data), pcrc32 |-> data, crc32 |-> last]
<1>1. /\ encode = "multi" /\ part + 1 <= parts /\ pos + Len(data) <= size
      /\ IsLast(data) => pos + Len(data) = size
      /\ part' = part + 1 /\ crc' = crc \o data /\ pos' = pos + Len(data)
      /\ yInfo' = (yInfo /\ ~IsLast(data))
      /\ posts' = Append(posts, p)
      /\ UNCHANGED <<size, parts, encode>>
  BY DEF Part, Posted, Called
<1>2. Typed /\ Between /\ PostsTileFile /\ CrcIsOfWholeFile /\ HeaderOutlivesParts
  BY DEF Inv
<1>3. /\ size \in Nat /\ parts \in Nat /\ part \in Nat /\ pos \in Nat /\ crc \in Seq(Nat)
      /\ data \in Seq(Nat) /\ Len(data) \in Nat /\ posts \in Seq(Post) /\ N \in Nat
  BY <1>2, DataAssumption DEF Typed
<1>4. crc' \in Seq(Nat) /\ part' \in Nat /\ pos' \in Nat
  BY <1>1, <1>3
<1>5. last \in Seq(Seq(Nat))
  BY <1>4, EmptySeq
<1>6. last # <<>> => IsLast(data) /\ last[1] = crc'
  BY <1>4
<1> HIDE DEF last
<1>7. /\ p \in Post
      /\ p.begin = pos + 1 /\ p.end = pos' /\ p.size = Len(data) /\ p.pcrc32 = data
      /\ p.crc32 = last
  BY <1>3, <1>4, <1>5 DEF Post
<1> HIDE DEF p
<1>8. /\ posts' \in Seq(Post) /\ Len(posts') = N + 1 /\ posts'[N + 1] = p /\ posts' # <<>>
      /\ \A j \in 1..N : posts'[j] = posts[j]
  <2>1. posts \in Seq(Post) /\ p \in Post /\ posts' = Append(posts, p)
    BY <1>1, <1>3, <1>7
  <2>2. /\ Append(posts, p) \in Seq(Post) /\ Len(Append(posts, p)) = Len(posts) + 1
        /\ Append(posts, p)[Len(posts) + 1] = p
        /\ \A j \in 1..Len(posts) : Append(posts, p)[j] = posts[j]
        /\ Append(posts, p) # <<>>
    BY <2>1, Grown
  <2> QED
    BY <2>1, <2>2
<1> HIDE DEF N
<1>9. /\ N > 0 => pos = posts[N].end
      /\ N = 0 => pos = 0
      /\ crc = FlattenSeq(Encoded)
  <2>1. pos = IF posts = <<>> THEN 0 ELSE posts[N].end
    BY <1>1, <1>2 DEF Between, N
  <2>2. posts = <<>> <=> N = 0
    BY <1>3 DEF N
  <2>3. part < parts
    BY <1>1, <1>3
  <2> QED
    BY <1>1, <1>2, <1>3, <2>1, <2>2, <2>3 DEF Between
<1>10. \A j \in 1..N : posts[j].crc32 = <<>>
  <2>1. ~Finished
    BY <1>1, <1>3 DEF Finished
  <2> QED
    BY <1>2, <2>1 DEF Between, N
<1>11. Encoded \in Seq(Seq(Nat)) /\ Encoded' = Append(Encoded, data)
  <2>1. ASSUME NEW j \in 1..N PROVE posts[j].pcrc32 \in Seq(Nat)
    <3>1. posts[j] \in Post
      BY <1>3 DEF N
    <3> QED
      BY <3>1 DEF Post
  <2>2. Encoded \in Seq(Seq(Nat)) /\ Len(Encoded) = N
    BY <1>3, <2>1 DEF Encoded, N
  <2>3. /\ Append(Encoded, data) \in Seq(Seq(Nat)) /\ Len(Append(Encoded, data)) = N + 1
        /\ Append(Encoded, data)[N + 1] = data
        /\ \A j \in 1..N : Append(Encoded, data)[j] = Encoded[j]
    BY <1>3, <2>2, Grown
  <2>4. Encoded' = [j \in 1..(N + 1) |-> posts'[j].pcrc32]
    BY <1>8 DEF Encoded
  <2>5. /\ \A j \in 1..N : posts'[j].pcrc32 = Encoded[j]
        /\ posts'[N + 1].pcrc32 = data
    BY <1>7, <1>8 DEF Encoded, N
  <2>6. ASSUME NEW j \in 1..(N + 1)
        PROVE  posts'[j].pcrc32 = Append(Encoded, data)[j] /\ posts'[j].pcrc32 \in Seq(Nat)
    <3>1. CASE j \in 1..N
      <4>1. Encoded[j] \in Seq(Nat)
        BY <2>2, <3>1
      <4> QED
        BY <2>3, <2>5, <3>1, <4>1
    <3>2. CASE j = N + 1
      <4>1. posts'[j] = posts'[N + 1] /\ Append(Encoded, data)[j] = Append(Encoded, data)[N + 1]
        BY <3>2
      <4> QED
        BY <1>3, <2>3, <2>5, <4>1
    <3>3. j \in 1..N \/ j = N + 1
      <4>1. N \in Nat
        BY <1>3
      <4> QED
        BY <4>1
    <3> QED
      BY <3>1, <3>2, <3>3
  <2>7. Encoded' \in Seq(Seq(Nat)) /\ Len(Encoded') = N + 1
        /\ \A j \in 1..(N + 1) : Encoded'[j] = Append(Encoded, data)[j]
    <3>1. PICK k \in Nat : k = N + 1
      BY <1>3
    <3>2. Encoded' = [j \in 1..k |-> posts'[j].pcrc32]
      BY <2>4, <3>1
    <3>3. \A j \in 1..k : posts'[j].pcrc32 = Append(Encoded, data)[j]
                          /\ posts'[j].pcrc32 \in Seq(Nat)
      BY <2>6, <3>1
    <3>4. Encoded' \in [1..k -> Seq(Nat)]
      BY <3>2, <3>3
    <3>5. Encoded' \in Seq(Seq(Nat)) /\ Len(Encoded') = k
      BY <3>1, <3>4
    <3> QED
      BY <3>1, <3>2, <3>3, <3>5
  <2>8. Encoded' = Append(Encoded, data)
    BY <2>3, <2>7, SeqEqual
  <2> QED
    BY <2>2, <2>8
<1>12. crc' = FlattenSeq(Encoded')
  BY <1>1, <1>3, <1>9, <1>11, FlattenAppend
<1>13. Typed'
  BY <1>1, <1>2, <1>4, <1>8 DEF Typed
<1>14. IsLast(data) => Finished' /\ pos' = size
  BY <1>1, <1>3 DEF IsLast, Finished
<1>15. PostsTileFile'
  <2>1. ASSUME NEW j \in 1..(N + 1)
        PROVE  /\ posts'[j].begin = IF j = 1 THEN 1 ELSE posts'[j - 1].end + 1
               /\ posts'[j].end = posts'[j].begin + posts'[j].size - 1 /\ posts'[j].end <= size
    <3>1. CASE j \in 1..N
      <4>1. j # 1 => j - 1 \in 1..N
        BY <1>3, <3>1
      <4>2. posts'[j] = posts[j] /\ (j # 1 => posts'[j - 1] = posts[j - 1])
        BY <1>8, <3>1, <4>1
      <4> QED
        BY <1>2, <3>1, <4>2 DEF PostsTileFile, N
    <3>2. CASE j = N + 1
      <4>1. j = 1 <=> N = 0
        BY <1>3, <3>2
      <4>2. N > 0 => j - 1 = N /\ posts'[j - 1].end = pos
        BY <1>3, <1>8, <1>9, <3>2
      <4>3. posts'[j].begin = pos + 1 /\ posts'[j].end = pos' /\ posts'[j].size = Len(data)
        BY <1>7, <1>8, <3>2
      <4>4. pos' = (pos + 1) + Len(data) - 1 /\ pos' <= size
        BY <1>1, <1>3
      <4> QED
        BY <1>3, <1>9, <4>1, <4>2, <4>3, <4>4
    <3> QED
      BY <1>3, <3>1, <3>2
  <2> QED
    BY <1>1, <1>8, <2>1 DEF PostsTileFile
<1>16. CrcIsOfWholeFile'
  <2>1. ASSUME NEW j \in 1..(N + 1), posts'[j].crc32 # <<>>
        PROVE  /\ j = N + 1 /\ posts'[j].end = size
               /\ posts'[j].crc32[1] = FlattenSeq([k \in 1..j |-> posts'[k].pcrc32])
    <3>1. j \notin 1..N
      BY <1>8, <1>10, <2>1
    <3>2. j = N + 1
      BY <1>3, <3>1
    <3>3. last # <<>> /\ posts'[j].crc32 = last /\ posts'[j].end = pos'
      BY <1>7, <1>8, <2>1, <3>2
    <3>4. FlattenSeq([k \in 1..j |-> posts'[k].pcrc32]) = FlattenSeq(Encoded')
      BY <1>8, <3>2 DEF Encoded
    <3> QED
      BY <1>6, <1>12, <1>14, <3>2, <3>3, <3>4
  <2> QED
    BY <1>1, <1>8, <2>1 DEF CrcIsOfWholeFile
<1>17. HeaderOutlivesParts'
  <2>1. yInfo
    BY <1>1, <1>2, <1>3 DEF HeaderOutlivesParts
  <2> QED
    BY <1>1, <1>3, <2>1 DEF HeaderOutlivesParts, IsLast
<1>18. Between'
  <2>1. pos' = posts'[Len(posts')].end /\ pos' <= size'
    BY <1>1, <1>7, <1>8
  <2>2. (\E j \in 1..Len(posts') : posts'[j].crc32 # <<>>) => Finished'
    <3>1. ASSUME NEW j \in 1..(N + 1), posts'[j].crc32 # <<>> PROVE Finished'
      <4>1. j \notin 1..N
        BY <1>8, <1>10, <3>1
      <4>2. j = N + 1
        BY <1>3, <4>1
      <4>3. last # <<>>
        BY <1>7, <1>8, <3>1, <4>2
      <4> QED
        BY <1>6, <1>14, <4>3
    <3> QED
      BY <1>8, <3>1
  <2> QED
    BY <1>1, <1>8, <1>12, <2>1, <2>2 DEF Between
<1> QED
  BY <1>13, <1>15, <1>16, <1>17, <1>18 DEF Inv

LEMMA SingleInv == ASSUME Inv, NEW data \in Data, Single(data) PROVE Inv'
<1> DEFINE p == [part |-> 1, total |-> 1, begin |-> 1, end |-> Len(data),
                 size |-> Len(data), pcrc32 |-> data, crc32 |-> <<data>>]
<1>1. /\ encode = "_encodeSingle" /\ Len(data) = size
      /\ encode' = "singleEncodeError"
      /\ part' = 1 /\ pos' = Len(data) /\ crc' = data /\ yInfo' = FALSE
      /\ posts' = Append(posts, p)
      /\ UNCHANGED <<size, parts>>
  BY DEF Single, Posted, Called
<1>2. Typed /\ posts = <<>>
  BY <1>1 DEF Inv, Between
<1>3. data \in Seq(Nat) /\ Len(data) \in Nat
  BY DataAssumption
<1>4. p \in Post
  BY <1>3 DEF Post
<1>5. /\ p.begin = 1 /\ p.end = Len(data) /\ p.size = Len(data) /\ p.pcrc32 = data
      /\ p.crc32[1] = data
  OBVIOUS
<1> HIDE DEF p
<1>6. posts' = <<p>> /\ posts' \in Seq(Post) /\ Len(posts') = 1 /\ posts'[1] = p
  BY <1>1, <1>2, <1>4
<1>7. Typed'
  BY <1>1, <1>2, <1>3, <1>6 DEF Typed
<1>8. Between' /\ HeaderOutlivesParts'
  BY <1>1 DEF Between, Finished, HeaderOutlivesParts
<1>9. PostsTileFile'
  BY <1>1, <1>3, <1>5, <1>6 DEF PostsTileFile
<1>10. FlattenSeq(<<data>>) = data
  <2>1. <<>> \in Seq(Seq(Nat)) /\ FlattenSeq(<<>>) = <<>>
    BY EmptySeq DEF FlattenSeq
  <2>2. FlattenSeq(Append(<<>>, data)) = <<>> \o data
    BY <1>3, <2>1, FlattenAppend
  <2> QED
    BY <1>3, <2>2, ConcatEmptySeq
<1>11. CrcIsOfWholeFile'
  <2>1. [j \in 1..1 |-> posts'[j].pcrc32] = <<data>>
    BY <1>5, <1>6
  <2> QED
    BY <1>1, <1>5, <1>6, <1>10, <2>1 DEF CrcIsOfWholeFile
<1> QED
  BY <1>7, <1>8, <1>9, <1>11 DEF Inv

(* A step of nothing keeps it.                                             *)
LEMMA StutterInv == ASSUME Inv, UNCHANGED vars PROVE Inv'
  BY DEF vars, Inv, Typed, Between, Finished, Encoded, PostsTileFile, CrcIsOfWholeFile,
         HeaderOutlivesParts

LEMMA Invariance == Spec => []Inv
<1>1. Inv /\ [Next]_vars => Inv'
  BY ExceededPartsInv, ExceededSizeInv, SizeMismatchInv, PartInv, SingleMismatchInv, SingleInv,
     singleEncodeErrorInv, StutterInv DEF Next
<1> QED
  BY InitInv, <1>1, PTL DEF Spec

-----------------------------------------------------------------------------
(* What follows.                                                           *)

(* The =ypart lines of the posts cover the file from its first byte, with  *)
(* no gap and no overlap, however many calls throw between them.           *)
THEOREM PostsCoverTheFile == Spec => []PostsTileFile
<1>1. Inv => PostsTileFile
  BY DEF Inv
<1> QED
  BY Invariance, <1>1, PTL

(* The crc32 of a post is that of the data of all the posts, and its post  *)
(* completes the file: a call that combined its own data into this.crc     *)
(* before it threw leaves an encoder that makes no further post.           *)
THEOREM CrcCoversTheFile == Spec => []CrcIsOfWholeFile
<1>1. Inv => CrcIsOfWholeFile
  BY DEF Inv
<1> QED
  BY Invariance, <1>1, PTL

(* yInfo is null only for an encoder whose every further call throws       *)
(* before it would look at it.                                             *)
THEOREM HeaderIsThereWhenRead == Spec => []HeaderOutlivesParts
<1>1. Inv => HeaderOutlivesParts
  BY DEF Inv
<1> QED
  BY Invariance, <1>1, PTL

-----------------------------------------------------------------------------
(* The operators from_post is written with, where they have one value.     *)

(* The least of a set of integers is the one that is.                      *)
LEMMA MinOf == ASSUME NEW S \in SUBSET Int, NEW x \in S, \A y \in S : x <= y PROVE Min(S) = x
<1>1. PICK m : m = Min(S)
  OBVIOUS
<1>2. m \in S /\ \A y \in S : m <= y
  BY <1>1 DEF Min
<1>3. m = x
  BY <1>2
<1> QED
  BY <1>1, <1>3

(* The same of the greatest.                                               *)
LEMMA MaxOf == ASSUME NEW S \in SUBSET Int, NEW x \in S, \A y \in S : x >= y PROVE Max(S) = x
<1>1. PICK m : m = Max(S)
  OBVIOUS
<1>2. m \in S /\ \A y \in S : m >= y
  BY <1>1 DEF Max
<1>3. m = x
  BY <1>2
<1> QED
  BY <1>1, <1>3

-----------------------------------------------------------------------------
(* decoderParseLines, line by line (FoldLeft of SequencesExt, which is     *)
(* defined by recursion on sets of indices).                               *)

\* The values of the fold over the sets of some indices.
Folds(iter, read, lines, D) ==
    iter = [s \in SUBSET D |->
              IF s = {} THEN read
              ELSE decoderParseLine(iter[s \ {Max(s)}], lines[Max(s)])]

folds(read, lines, D) == CHOOSE iter : Folds(iter, read, lines, D)

(* There is a function with these values: an index more is the last.       *)
LEMMA FoldsExist == ASSUME NEW read, NEW lines, NEW n \in Nat PROVE \E iter : Folds(iter, read, lines, 1..n)
<1> DEFINE F(k) == \E iter : Folds(iter, read, lines, 1..k)
           S == {k \in Nat : F(k)}
<1>1. 0 \in S
  <2> DEFINE iter == [s \in SUBSET (1..0) |-> read]
  <2>1. 1..0 = {} /\ SUBSET {} = {{}}
    OBVIOUS
  <2>2. \A s \in SUBSET (1..0) : s = {}
    BY <2>1
  <2>3. Folds(iter, read, lines, 1..0)
    BY <2>2 DEF Folds
  <2> QED
    BY <2>3
<1>2. ASSUME NEW k \in Nat, k \in S PROVE k + 1 \in S
  <2>1. PICK iter : Folds(iter, read, lines, 1..k)
    BY <1>2
  <2>2. PICK m : m = k + 1
    OBVIOUS
  <2> DEFINE more == [s \in SUBSET (1..m) |->
                        IF m \in s THEN decoderParseLine(iter[s \ {m}], lines[m]) ELSE iter[s]]
  <2>3. ASSUME NEW s \in SUBSET (1..m)
        PROVE  more[s] = IF s = {} THEN read
                         ELSE decoderParseLine(more[s \ {Max(s)}], lines[Max(s)])
    <3>1. CASE m \in s
      <4>1. Max(s) = m
        <5>1. s \in SUBSET Int /\ \A y \in s : m >= y
          BY <2>2
        <5> QED
          BY <3>1, <5>1, MaxOf
      <4>2. s \ {m} \in SUBSET (1..m) /\ m \notin s \ {m} /\ s # {}
        BY <3>1
      <4>3. more[s \ {m}] = iter[s \ {m}]
        BY <4>2
      <4>4. more[s] = decoderParseLine(iter[s \ {m}], lines[m])
        BY <3>1
      <4> QED
        BY <4>1, <4>2, <4>3, <4>4
    <3>2. CASE m \notin s
      <4>0. ASSUME NEW y \in s PROVE y \in 1..k
        <5>1. y \in 1..m /\ y # m
          BY <3>2
        <5> QED
          BY <2>2, <5>1
      <4>1. s \in SUBSET (1..k) /\ s \ {Max(s)} \in SUBSET (1..m) /\ m \notin s \ {Max(s)}
        BY <3>2, <4>0
      <4>2. more[s] = iter[s] /\ more[s \ {Max(s)}] = iter[s \ {Max(s)}]
        BY <3>2, <4>1
      <4>3. iter[s] = IF s = {} THEN read ELSE decoderParseLine(iter[s \ {Max(s)}], lines[Max(s)])
        BY <2>1, <4>1 DEF Folds
      <4> HIDE DEF more
      <4> QED
        BY <4>2, <4>3
    <3> QED
      BY <3>1, <3>2
  <2>4. Folds(more, read, lines, 1..m)
    BY <2>3 DEF Folds
  <2> QED
    BY <2>2, <2>4
<1>3. Nat \subseteq S
  <2> HIDE DEF S
  <2> QED
    BY <1>1, <1>2, Induction
<1>4. F(n)
  <2>1. n \in S
    <3> HIDE DEF S
    <3> QED
      BY <1>3
  <2> HIDE DEF F
  <2> QED
    BY <2>1
<1> QED
  BY <1>4

\* What has been read after each of the lines.
LineByLine(g, read, lines) ==
    /\ g[0] = read
    /\ \A k \in 1..Len(lines) : g[k] = decoderParseLine(g[k - 1], lines[k])

(* The lines are read one after the other.                                 *)
LEMMA ParsedLineByLine ==
    ASSUME NEW S, NEW lines \in Seq(S), NEW ydata
    PROVE  \E g : /\ LineByLine(g, [ydata |-> ydata, warnings |-> {}], lines)
                  /\ decoderParseLines(lines, ydata) = g[Len(lines)]
<1>1. PICK N : N = Len(lines) /\ N \in Nat /\ DOMAIN lines = 1..N
  OBVIOUS
<1>0. PICK read : read = [ydata |-> ydata, warnings |-> {}]
  OBVIOUS
<1> DEFINE iter == folds(read, lines, 1..N)
           g    == [k \in 0..N |-> iter[1..k]]
<1>2. decoderParseLines(lines, ydata) = iter[1..N]
  <2>1. decoderParseLines(lines, ydata)
          = folds([ydata |-> ydata, warnings |-> {}], lines, DOMAIN lines)[DOMAIN lines]
    BY DEF decoderParseLines, FoldLeft, MapThenFoldSet, folds, Folds
  <2> QED
    BY <1>0, <1>1, <2>1
<1>3. Folds(iter, read, lines, 1..N)
  BY <1>1, FoldsExist DEF folds
<1> HIDE DEF iter
<1>4. ASSUME NEW s \in SUBSET (1..N)
      PROVE  iter[s] = IF s = {} THEN read
                       ELSE decoderParseLine(iter[s \ {Max(s)}], lines[Max(s)])
  BY <1>3 DEF Folds
<1>5. g[0] = read
  <2>1. 1..0 = {} /\ {} \in SUBSET (1..N) /\ 0 \in 0..N
    BY <1>1
  <2> QED
    BY <1>4, <2>1
<1>6. ASSUME NEW k \in 1..N PROVE g[k] = decoderParseLine(g[k - 1], lines[k])
  <2>1. k \in Nat /\ 1..k \in SUBSET (1..N) /\ k \in 1..k
    BY <1>1
  <2>2. Max(1..k) = k
    <3>1. 1..k \in SUBSET Int /\ \A y \in 1..k : k >= y
      BY <2>1
    <3> QED
      BY <2>1, <3>1, MaxOf
  <2>3. (1..k) \ {k} = 1..(k - 1) /\ k - 1 \in 0..N /\ k \in 0..N
    BY <1>1
  <2>4. iter[1..k] = decoderParseLine(iter[1..(k - 1)], lines[k])
    BY <1>4, <2>1, <2>2, <2>3
  <2> QED
    BY <2>3, <2>4
<1>7. g[N] = iter[1..N]
  BY <1>1
<1> HIDE DEF g
<1>8. LineByLine(g, read, lines)
  BY <1>1, <1>5, <1>6 DEF LineByLine
<1> QED
  BY <1>0, <1>1, <1>2, <1>7, <1>8

(* One line is read after nothing.                                         *)
LEMMA OneLine ==
    ASSUME NEW line, NEW ydata
    PROVE  decoderParseLines(<<line>>, ydata)
             = decoderParseLine([ydata |-> ydata, warnings |-> {}], line)
<1>1. PICK lines : lines = <<line>>
  OBVIOUS
<1>2. lines \in Seq({line}) /\ Len(lines) = 1 /\ lines[1] = line
  BY <1>1
<1>3. PICK g : /\ LineByLine(g, [ydata |-> ydata, warnings |-> {}], lines)
               /\ decoderParseLines(lines, ydata) = g[Len(lines)]
  BY <1>2, ParsedLineByLine
<1>4. 1 \in 1..1 /\ 1 - 1 = 0
  OBVIOUS
<1> QED
  BY <1>1, <1>2, <1>3, <1>4 DEF LineByLine

(* Two lines are read one after the other.                                 *)
LEMMA TwoLines ==
    ASSUME NEW first, NEW second, NEW ydata
    PROVE  decoderParseLines(<<first, second>>, ydata)
             = decoderParseLine(decoderParseLine([ydata |-> ydata, warnings |-> {}], first), second)
<1>1. PICK lines : lines = <<first, second>>
  OBVIOUS
<1>2. /\ lines \in Seq({first, second}) /\ Len(lines) = 2
      /\ lines[1] = first /\ lines[2] = second
  BY <1>1
<1>3. PICK g : /\ LineByLine(g, [ydata |-> ydata, warnings |-> {}], lines)
               /\ decoderParseLines(lines, ydata) = g[Len(lines)]
  BY <1>2, ParsedLineByLine
<1>4. 1 \in 1..2 /\ 1 - 1 = 0 /\ 2 \in 1..2 /\ 2 - 1 = 1
  OBVIOUS
<1> QED
  BY <1>1, <1>2, <1>3, <1>4 DEF LineByLine

-----------------------------------------------------------------------------
(* A line whose properties differ from each other, the name last if it has *)
(* one.                                                                    *)

\* The name of a field that is none (a name of its own keeps the empty string out of proofs).
NoName == ""

Distinct(fields) ==
    /\ \A k, l \in 1..Len(fields) : fields[k].prop = fields[l].prop => k = l
    /\ \A k \in 1..Len(fields) : /\ fields[k].prop # NoName
                                 /\ fields[k].prop = "name" => k = Len(fields)

(* A line that names the file in its last field only keeps all its fields. *)
LEMMA WholeLine ==
    ASSUME NEW F, NEW fields \in Seq(F), NEW tag, Distinct(fields)
    PROVE  Fields(Control(tag, fields)) = fields
<1> DEFINE line  == Control(tag, fields)
           names == {i \in DOMAIN line.fields : line.fields[i].prop = "name"}
<1>1. line.fields = fields /\ line.tag = tag
  BY DEF Control
<1>2. PICK N : N = Len(fields) /\ N \in Nat /\ DOMAIN fields = 1..N
  OBVIOUS
<1> HIDE DEF line
<1>3. Fields(line) = IF line.tag = "begin" /\ names # {} THEN SubSeq(line.fields, 1, Min(names))
                     ELSE line.fields
  BY DEF Fields
<1>4. CASE names # {}
  <2>1. names = {N}
    BY <1>1, <1>2, <1>4 DEF Distinct
  <2>2. Min(names) = N
    <3>1. names \in SUBSET Int /\ N \in names /\ \A y \in names : N <= y
      BY <1>2, <2>1
    <3> HIDE DEF names
    <3> QED
      BY <3>1, MinOf
  <2>3. SubSeq(fields, 1, N) = fields
    BY <1>2
  <2> QED
    BY <1>1, <1>3, <2>2, <2>3 DEF line
<1> QED
  BY <1>1, <1>3, <1>4 DEF line

\* decoderParseLine of a line with these fields.
ReadWith(fields, read, tag) ==
    LET Of(p)  == {i \in DOMAIN fields : fields[i].prop = p}
        props  == {fields[i].prop : i \in DOMAIN fields} \ {""}
        yprops == [p \in props |-> fields[Max(Of(p))].val]
    IN  [ydata    |-> [t \in DOMAIN read.ydata \union {tag} |->
                         IF t = tag THEN yprops ELSE read.ydata[t]],
         warnings |-> UNION {read.warnings,
                             When(Of("") # {}, "ignored_line_data"),
                             When(\E p \in props : Cardinality(Of(p)) > 1, "duplicate_property"),
                             When(tag \in DOMAIN read.ydata, "duplicate_line")}]

\* What is known after such a line has been read.
Reads(read, r, tag, fields) ==
    /\ DOMAIN r.ydata = DOMAIN read.ydata \union {tag}
    /\ \A k \in 1..Len(fields) : Prop(r.ydata, tag, fields[k].prop) = fields[k].val
    /\ \A p : (\A k \in 1..Len(fields) : fields[k].prop # p) => Prop(r.ydata, tag, p) = Absent
    /\ \A t, p : t # tag => Prop(r.ydata, t, p) = Prop(read.ydata, t, p)
    /\ tag \notin DOMAIN read.ydata => r.warnings = read.warnings

(* What reading such a line adds, and what it leaves as it was.            *)
LEMMA LineRead ==
    ASSUME NEW F, NEW fields \in Seq(F), NEW tag, Distinct(fields), NEW read,
           NEW r, r = decoderParseLine(read, Control(tag, fields))
    PROVE  Reads(read, r, tag, fields)
<1> DEFINE Of(p)  == {i \in DOMAIN fields : fields[i].prop = p}
           props  == {fields[i].prop : i \in DOMAIN fields} \ {""}
           yprops == [p \in props |-> fields[Max(Of(p))].val]
<1>1. PICK N : N = Len(fields) /\ N \in Nat /\ DOMAIN fields = 1..N
  OBVIOUS
<1>2. /\ r.ydata = [t \in DOMAIN read.ydata \union {tag} |-> IF t = tag THEN yprops ELSE read.ydata[t]]
      /\ r.warnings = UNION {read.warnings,
                             When(Of("") # {}, "ignored_line_data"),
                             When(\E p \in props : Cardinality(Of(p)) > 1, "duplicate_property"),
                             When(tag \in DOMAIN read.ydata, "duplicate_line")}
  <2>1. Fields(Control(tag, fields)) = fields /\ Control(tag, fields).tag = tag
    BY WholeLine DEF Control
  <2>2. PICK line : line = Control(tag, fields)
    OBVIOUS
  <2>3. decoderParseLine(read, line) = ReadWith(Fields(line), read, line.tag)
    BY DEF decoderParseLine, ReadWith
  <2>4. r = ReadWith(fields, read, tag)
    <3>1. r = decoderParseLine(read, line)
      BY <2>2
    <3> QED
      BY <2>1, <2>2, <2>3, <3>1
  <2>5. PICK y, w :
          /\ y = [t \in DOMAIN read.ydata \union {tag} |-> IF t = tag THEN yprops ELSE read.ydata[t]]
          /\ w = UNION {read.warnings,
                        When(Of("") # {}, "ignored_line_data"),
                        When(\E p \in props : Cardinality(Of(p)) > 1, "duplicate_property"),
                        When(tag \in DOMAIN read.ydata, "duplicate_line")}
    OBVIOUS
  <2>6. ReadWith(fields, read, tag) = [ydata |-> y, warnings |-> w]
    BY <2>5 DEF ReadWith
  <2> HIDE DEF Of, props, yprops
  <2>7. r.ydata = y /\ r.warnings = w
    BY <2>4, <2>6
  <2> QED
    BY <2>5, <2>7
<1>3. ASSUME NEW k \in 1..N PROVE Of(fields[k].prop) = {k}
  BY <1>1 DEF Distinct
<1>4. props = {fields[i].prop : i \in 1..N}
  BY <1>1 DEF Distinct, NoName
<1>5. ASSUME NEW k \in 1..N PROVE yprops[fields[k].prop] = fields[k].val
  <2>1. Max(Of(fields[k].prop)) = k
    <3>1. {k} \in SUBSET Int /\ k \in {k} /\ \A y \in {k} : k >= y
      BY <1>1
    <3> QED
      BY <1>3, <3>1, MaxOf
  <2>2. fields[k].prop \in props
    BY <1>4
  <2> QED
    BY <2>1, <2>2
<1>6. ASSUME NEW p \in props PROVE ~(Cardinality(Of(p)) > 1)
  <2>1. PICK k \in 1..N : p = fields[k].prop
    BY <1>4
  <2>2. Of(p) = {k}
    BY <1>3, <2>1
  <2> HIDE DEF Of, props, yprops
  <2>3. Cardinality({k}) = 1
    BY FS_Singleton
  <2>4. ~(Cardinality({k}) > 1)
    BY <2>3
  <2> QED
    BY <2>2, <2>4, Zenon
<1>7. Of("") = {}
  BY <1>1 DEF Distinct, NoName
<1>8. DOMAIN yprops = props
  OBVIOUS
<1> HIDE DEF Of, props, yprops
<1>9. tag \notin DOMAIN read.ydata => r.warnings = read.warnings
  BY <1>2, <1>6, <1>7 DEF When
<1>10. DOMAIN r.ydata = DOMAIN read.ydata \union {tag} /\ r.ydata[tag] = yprops
       /\ \A t \in DOMAIN read.ydata : t # tag => r.ydata[t] = read.ydata[t]
  BY <1>2
<1>11. \A t, p : t # tag => Prop(r.ydata, t, p) = Prop(read.ydata, t, p)
  BY <1>10 DEF Prop
<1>12. \A k \in 1..N : Prop(r.ydata, tag, fields[k].prop) = fields[k].val
  BY <1>4, <1>5, <1>8, <1>10 DEF Prop
<1>13. \A p : (\A k \in 1..N : fields[k].prop # p) => Prop(r.ydata, tag, p) = Absent
  BY <1>4, <1>8, <1>10 DEF Prop
<1> QED
  BY <1>1, <1>9, <1>10, <1>11, <1>12, <1>13 DEF Reads

-----------------------------------------------------------------------------
(* The lines of the data of a post, and what they decode to.               *)

(* Lines of one byte each hold the data byte by byte.                      *)
LEMMA FlattenBytes ==
    ASSUME NEW data \in Seq(Nat)
    PROVE  FlattenSeq([j \in 1..Len(data) |-> <<data[j]>>]) = data
<1> DEFINE N     == Len(data)
           tt(k) == [j \in 1..k |-> <<data[j]>>]
           G(k)  == FlattenSeq(tt(k)) = SubSeq(data, 1, k)
           S     == {k \in Nat : k <= N => G(k)}
<1>1. N \in Nat /\ \A j \in 1..N : data[j] \in Nat
  OBVIOUS
<1>2. 0 \in S
  <2>1. tt(0) = <<>>
    OBVIOUS
  <2>2. FlattenSeq(<<>>) = <<>>
    BY EmptySeq DEF FlattenSeq
  <2>3. SubSeq(data, 1, 0) = <<>>
    OBVIOUS
  <2> HIDE DEF tt
  <2> QED
    BY <2>1, <2>2, <2>3
<1>3. ASSUME NEW k \in Nat, k \in S PROVE k + 1 \in S
  <2> HIDE DEF G
  <2> SUFFICES ASSUME k + 1 <= N PROVE G(k + 1)
    OBVIOUS
  <2>1. PICK m : m = k + 1
    OBVIOUS
  <2>2. m \in 1..N /\ k \in 0..N /\ m \in Nat
    BY <1>1, <2>1
  <2>3. FlattenSeq(tt(k)) = SubSeq(data, 1, k)
    <3>1. G(k)
      BY <1>1, <1>3, <2>2
    <3> QED
      BY <3>1 DEF G
  <2>4. tt(k) \in Seq(Seq(Nat)) /\ Len(tt(k)) = k
    <3>1. ASSUME NEW j \in 1..k PROVE <<data[j]>> \in Seq(Nat)
      <4>1. data[j] \in Nat
        BY <1>1, <2>2
      <4> QED
        BY <4>1
    <3> QED
      BY <3>1
  <2>5. tt(m) = Append(tt(k), <<data[m]>>)
    <3>1. DOMAIN Append(tt(k), <<data[m]>>) = 1..m
      BY <2>1, <2>4
    <3>2. ASSUME NEW j \in 1..m PROVE Append(tt(k), <<data[m]>>)[j] = <<data[j]>>
      <4>1. CASE j = m
        BY <2>1, <2>4, <4>1
      <4>2. CASE j # m
        <5>1. j \in 1..k
          BY <2>1, <4>2
        <5>2. Append(tt(k), <<data[m]>>)[j] = tt(k)[j]
          BY <2>4, <5>1
        <5> QED
          BY <5>1, <5>2
      <4> QED
        BY <4>1, <4>2
    <3>3. \A j \in 1..m : tt(m)[j] = <<data[j]>>
      OBVIOUS
    <3> QED
      BY <2>1, <2>4, <3>1, <3>2, <3>3
  <2>6. <<data[m]>> \in Seq(Nat)
    BY <1>1, <2>2
  <2> HIDE DEF tt
  <2>7. FlattenSeq(tt(m)) = SubSeq(data, 1, k) \o <<data[m]>>
    BY <2>3, <2>4, <2>5, <2>6, FlattenAppend
  <2>8. SubSeq(data, 1, k) \o <<data[m]>> = SubSeq(data, 1, m)
    BY <2>1, <2>2
  <2> QED
    BY <2>1, <2>7, <2>8 DEF G
<1>4. Nat \subseteq S
  <2> HIDE DEF S
  <2> QED
    BY <1>2, <1>3, Induction
<1>5. SubSeq(data, 1, N) = data
  OBVIOUS
<1>6. G(N)
  <2> HIDE DEF G
  <2> QED
    BY <1>1, <1>4
<1> QED
  BY <1>5, <1>6

\* The lines of any content.
Contents == {Content(b) : b \in Seq(Nat)}

\* The tag of a line.
Tagged(line, tag) == line.tag = tag
NoTag == ""

(* A line has one tag.                                                     *)
LEMMA OneTag == \A line, t, u : Tagged(line, t) /\ Tagged(line, u) => t = u
  BY DEF Tagged

(* The lines of the data of a post: they have no tag and decode to it.     *)
LEMMA BodyFacts ==
    ASSUME NEW data \in Seq(Nat)
    PROVE  /\ Body(data) \in Seq(Contents) /\ Len(Body(data)) \in Nat \ {0}
           /\ \A j \in 1..Len(Body(data)) : Tagged(Body(data)[j], NoTag)
           /\ FlattenSeq([j \in 1..Len(Body(data)) |-> Decoded(Body(data)[j])]) = data
<1>1. ASSUME NEW b \in Seq(Nat)
      PROVE  Content(b) \in Contents /\ Tagged(Content(b), NoTag) /\ Decoded(Content(b)) = b
  BY DEF Contents, Content, Decoded, Tagged, NoTag
<1>2. CASE data = <<>>
  <2>1. <<>> \in Seq(Nat)
    OBVIOUS
  <2>2. Body(data) = <<Content(<<>>)>>
    BY <1>2 DEF Body
  <2>3. PICK l : l = Content(<<>>)
    OBVIOUS
  <2>4. l \in Contents /\ Tagged(l, NoTag) /\ Decoded(l) = <<>>
    BY <1>1, <2>1, <2>3
  <2>5. <<l>> \in Seq(Contents) /\ Len(<<l>>) = 1 /\ <<l>>[1] = l
    BY <2>4
  <2>6. [j \in 1..1 |-> Decoded(<<l>>[j])] = <<<<>>>>
    BY <2>4, <2>5
  <2>7. FlattenSeq(<<<<>>>>) = <<>>
    <3>1. FlattenSeq(<<>>) = <<>> /\ <<>> \in Seq(Seq(Nat)) /\ Append(<<>>, <<>>) = <<<<>>>>
      BY EmptySeq DEF FlattenSeq
    <3>2. FlattenSeq(Append(<<>>, <<>>)) = FlattenSeq(<<>>) \o <<>>
      BY <2>1, <3>1, FlattenAppend
    <3>3. <<>> \o <<>> = <<>>
      BY <2>1, ConcatEmptySeq
    <3> QED
      BY <3>1, <3>2, <3>3
  <2> QED
    BY <1>2, <2>2, <2>3, <2>4, <2>5, <2>6, <2>7
<1>3. CASE data # <<>>
  <2>1. PICK N : N = Len(data) /\ N \in Nat \ {0} /\ DOMAIN data = 1..N
    BY <1>3
  <2>0. PICK l : l = [j \in 1..N |-> Content(<<data[j]>>)]
    OBVIOUS
  <2>2. Body(data) = l
    BY <1>3, <2>0, <2>1 DEF Body
  <2>3. ASSUME NEW j \in 1..N
        PROVE  l[j] \in Contents /\ Tagged(l[j], NoTag) /\ Decoded(l[j]) = <<data[j]>>
    <3>1. data[j] \in Nat
      BY <2>1
    <3>2. <<data[j]>> \in Seq(Nat)
      BY <3>1
    <3>3. l[j] = Content(<<data[j]>>)
      BY <2>0
    <3> QED
      BY <1>1, <3>2, <3>3
  <2>4. l \in Seq(Contents) /\ Len(l) = N
    <3>1. l \in [1..N -> Contents]
      BY <2>0, <2>3
    <3> QED
      BY <2>1, <3>1
  <2>5. [j \in 1..N |-> Decoded(l[j])] = [j \in 1..N |-> <<data[j]>>]
    BY <2>3
  <2> QED
    BY <2>1, <2>2, <2>3, <2>4, <2>5, FlattenBytes
<1> QED
  BY <1>2, <1>3

-----------------------------------------------------------------------------
(* What from_post makes of header lines, data and an =yend line.           *)

\* from_post, where the =ybegin lines are known, also the last of the header lines, also
\* the =yend lines.
FromEnd(article, starts, start, head, ends, end) ==
    LET lines  == article.lines
        read   == decoderParseLines(SubSeq(lines, start, head), <<>>)
        last   == decoderParseLines(<<lines[end]>>, read.ydata)
        Unterminated(i) == i = Len(lines) /\ ~article.ended
    IN  IF starts = {} THEN DecoderError("no_start_found")
        ELSE IF Unterminated(head) THEN DecoderError("no_end_found")
        ELSE IF Tagged(lines[head], "end") THEN Parsed(read, <<>>, {})
        ELSE IF ends = {} THEN DecoderError("no_end_found")
        ELSE Parsed([last EXCEPT !.warnings = @ \union read.warnings],
                    FlattenSeq([i \in 1..(end - head - 1) |-> Decoded(lines[head + i])]),
                    When(Unterminated(end), "missing_yend_newline"))

FromHead(article, starts, start, head) ==
    LET ends == {i \in (head + 2)..Len(article.lines) : Tagged(article.lines[i], "end")}
    IN  FromEnd(article, starts, start, head, ends, Max(ends))

FromStart(article, starts, start) ==
    LET lines == article.lines
    IN  FromHead(article, starts, start,
                 Min({i \in start..Len(lines) :
                        Tagged(lines[i], "end") \/ i = Len(lines) \/ Tagged(lines[i + 1], NoTag)}))

(* from_post reads the lines before the data, then those after it, and decodes what is*)
(* between.                                                                *)
LEMMA ReadOfLines ==
    ASSUME NEW head, NEW end, NEW data \in Seq(Nat),
           Len(head) = 1 \/ Len(head) = 2,
           NEW L, head \in Seq(L), end \in L,
           Tagged(head[1], "begin"), Len(head) = 2 => Tagged(head[2], "part"), Tagged(end, "end")
    PROVE  LET read == decoderParseLines(head, <<>>)
               last == decoderParseLines(<<end>>, read.ydata)
           IN  Read(head \o Body(data) \o <<end>>)
                 = Parsed([last EXCEPT !.warnings = @ \union read.warnings], data, {})
<1>1. PICK h, m, body, S :
        /\ h = Len(head) /\ m = Len(body) /\ body = Body(data) /\ S = L \union Contents
  OBVIOUS
<1>0. /\ body \in Seq(Contents) /\ m \in Nat \ {0} /\ \A j \in 1..m : Tagged(body[j], NoTag)
      /\ FlattenSeq([j \in 1..m |-> Decoded(body[j])]) = data
  BY <1>1, BodyFacts
<1>2. h \in {1, 2} /\ m \in Nat \ {0} /\ h \in Nat
  BY <1>0, <1>1
<1>3. head \in Seq(S) /\ body \in Seq(S) /\ <<end>> \in Seq(S) /\ Len(<<end>>) = 1 /\ <<end>>[1] = end
  BY <1>0, <1>1
<1>4. PICK front : front = head \o body
  OBVIOUS
<1>5. /\ front \in Seq(S) /\ Len(front) = h + m
      /\ \A j \in 1..h : front[j] = head[j]
      /\ \A j \in 1..m : front[h + j] = body[j]
  <2>1. /\ head \o body \in Seq(S) /\ Len(head \o body) = Len(head) + Len(body)
        /\ \A j \in 1..Len(head) : (head \o body)[j] = head[j]
        /\ \A j \in 1..Len(body) : (head \o body)[Len(head) + j] = body[j]
    BY <1>3, ConcatProperties
  <2> QED
    BY <1>1, <1>4, <2>1
<1>6. PICK lines : lines = front \o <<end>>
  OBVIOUS
<1>7. /\ lines \in Seq(S) /\ Len(lines) = h + m + 1
      /\ \A j \in 1..(h + m) : lines[j] = front[j]
      /\ lines[h + m + 1] = end
  <2>1. /\ front \o <<end>> \in Seq(S) /\ Len(front \o <<end>>) = Len(front) + Len(<<end>>)
        /\ \A j \in 1..Len(front) : (front \o <<end>>)[j] = front[j]
        /\ \A j \in 1..Len(<<end>>) : (front \o <<end>>)[Len(front) + j] = <<end>>[j]
    BY <1>3, <1>5, ConcatProperties
  <2> QED
    BY <1>3, <1>5, <1>6, <2>1
<1>8. PICK N : N = h + m + 1 /\ N \in Nat /\ DOMAIN lines = 1..N /\ Len(lines) = N
  BY <1>2, <1>7
<1>9. \A j \in 1..h : lines[j] = head[j]
  BY <1>2, <1>5, <1>7
<1>10. \A j \in 1..m : lines[h + j] = body[j]
  BY <1>2, <1>5, <1>7
<1>11. lines[N] = end
  BY <1>7, <1>8
<1>13. /\ Tagged(lines[1], "begin")
       /\ h = 2 => Tagged(lines[2], "part")
       /\ \A j \in (h + 1)..(N - 1) : Tagged(lines[j], NoTag)
       /\ Tagged(lines[N], "end")
  <2>1. Tagged(lines[1], "begin") /\ (h = 2 => Tagged(lines[2], "part"))
    BY <1>1, <1>2, <1>9
  <2>2. ASSUME NEW j \in (h + 1)..(N - 1) PROVE Tagged(lines[j], NoTag)
    <3>1. j - h \in 1..m /\ j = h + (j - h)
      BY <1>2, <1>8
    <3> QED
      BY <1>0, <1>10, <3>1
  <2> QED
    BY <1>11, <2>1, <2>2
<1>14. ASSUME NEW j \in 1..N
       PROVE  /\ Tagged(lines[j], "begin") <=> j = 1
              /\ Tagged(lines[j], "end") <=> j = N
              /\ Tagged(lines[j], NoTag) <=> j \in (h + 1)..(N - 1)
  <2>1. j = 1 \/ (h = 2 /\ j = 2) \/ j \in (h + 1)..(N - 1) \/ j = N
    BY <1>2, <1>8
  <2>2. 1 # N /\ 2 # N /\ 1 \notin (h + 1)..(N - 1) /\ N \notin (h + 1)..(N - 1)
        /\ (h = 2 => 2 \notin (h + 1)..(N - 1)) /\ 1 # 2
    BY <1>2, <1>8
  <2>3. /\ "begin" # "end" /\ "begin" # NoTag /\ "begin" # "part" /\ "end" # NoTag /\ "part" # "end"
        /\ "part" # NoTag
    BY Zenon DEF NoTag
  <2>4. \E t \in {"begin", "part", "end", NoTag} :
           /\ Tagged(lines[j], t)
           /\ t = "begin" <=> j = 1
           /\ t = "end" <=> j = N
           /\ t = NoTag <=> j \in (h + 1)..(N - 1)
    BY <1>13, <2>1, <2>2, <2>3
  <2> QED
    BY <2>4, OneTag
<1>15. {i \in DOMAIN lines : Tagged(lines[i], "begin")} = {1} /\ Min({1}) = 1
  <2>1. {i \in DOMAIN lines : Tagged(lines[i], "begin")} = {1}
    <3>1. 1 \in 1..N
      BY <1>2, <1>8
    <3>2. \A j \in 1..N : Tagged(lines[j], "begin") <=> j = 1
      BY <1>14
    <3> QED
      BY <1>8, <3>1, <3>2
  <2>2. Min({1}) = 1
    <3>1. {1} \in SUBSET Int /\ 1 \in {1} /\ \A y \in {1} : 1 <= y
      OBVIOUS
    <3> QED
      BY <3>1, MinOf
  <2> QED
    BY <2>1, <2>2
<1>16. PICK heads :
         heads = {i \in 1..Len(lines) : Tagged(lines[i], "end") \/ i = Len(lines) \/ Tagged(lines[i + 1], NoTag)}
  OBVIOUS
<1>17. Min(heads) = h
  <2>1. h \in heads
    <3>1. h \in 1..N /\ h + 1 \in 1..N /\ h + 1 \in (h + 1)..(N - 1)
      BY <1>2, <1>8
    <3>2. Tagged(lines[h + 1], NoTag)
      BY <1>14, <3>1
    <3> QED
      BY <1>8, <1>16, <3>1, <3>2
  <2>2. \A y \in heads : h <= y
    <3> SUFFICES ASSUME NEW y \in 1..N, y < h,
                        Tagged(lines[y], "end") \/ y = N \/ Tagged(lines[y + 1], NoTag)
                 PROVE  FALSE
      BY <1>2, <1>8, <1>16
    <3>1. y = 1 /\ h = 2 /\ y # N /\ 2 \in 1..N /\ y + 1 = 2 /\ 2 \notin (h + 1)..(N - 1)
      BY <1>2, <1>8
    <3>2. ~Tagged(lines[y], "end") /\ ~Tagged(lines[2], NoTag)
      BY <1>14, <3>1
    <3> QED
      BY <3>1, <3>2
  <2>3. heads \in SUBSET Int
    BY <1>8, <1>16
  <2> QED
    BY <2>1, <2>2, <2>3, MinOf
<1>18. {i \in (h + 2)..Len(lines) : Tagged(lines[i], "end")} = {N} /\ Max({N}) = N
  <2>1. N \in (h + 2)..N /\ \A y \in (h + 2)..N : y \in 1..N
    BY <1>2, <1>8
  <2>2. {i \in (h + 2)..N : Tagged(lines[i], "end")} = {N}
    BY <1>14, <2>1
  <2>3. {N} \in SUBSET Int /\ N \in {N} /\ \A y \in {N} : N >= y
    BY <1>8
  <2>4. Max({N}) = N
    BY <2>3, MaxOf
  <2> QED
    BY <1>8, <2>2, <2>4
<1>19. SubSeq(lines, 1, h) = head
  <2>1. /\ Len(SubSeq(lines, 1, h)) = h /\ \A j \in 1..h : SubSeq(lines, 1, h)[j] = lines[j]
        /\ SubSeq(lines, 1, h) \in Seq(S)
    BY <1>2, <1>7, <1>8
  <2>2. \A j \in 1..h : SubSeq(lines, 1, h)[j] = head[j]
    BY <1>9, <2>1
  <2>3. SubSeq(lines, 1, h) \in Seq(S) /\ head \in Seq(S) /\ Len(SubSeq(lines, 1, h)) = Len(head)
        /\ \A j \in 1..Len(SubSeq(lines, 1, h)) : SubSeq(lines, 1, h)[j] = head[j]
    BY <1>1, <1>3, <2>1, <2>2
  <2>4. PICK cut : cut = SubSeq(lines, 1, h)
    OBVIOUS
  <2>5. cut \in Seq(S) /\ Len(cut) = Len(head) /\ \A j \in 1..Len(cut) : cut[j] = head[j]
    BY <2>3, <2>4
  <2>6. cut = head
    BY <1>3, <2>5, SeqEqual
  <2> QED
    BY <2>4, <2>6
<1>20. ~Tagged(lines[h], "end") /\ h # N
  <2>1. h \in 1..N /\ h # N
    BY <1>2, <1>8
  <2> QED
    BY <1>14, <2>1
<1>21. [i \in 1..(N - h - 1) |-> Decoded(lines[h + i])] = [j \in 1..m |-> Decoded(body[j])]
  <2>1. N - h - 1 = m
    BY <1>2, <1>8
  <2>2. \A j \in 1..m : Decoded(lines[h + j]) = Decoded(body[j])
    BY <1>10
  <2> QED
    BY <2>1, <2>2
<1>22. PICK article : article = [lines |-> lines, ended |-> TRUE]
  OBVIOUS
<1>23. article.lines = lines /\ article.ended = TRUE /\ Read(lines) = from_post(article)
  BY <1>22 DEF Read
<1>24. from_post(article) = FromStart(article, {1}, 1)
  <2>1. from_post(article)
          = FromStart(article, {i \in DOMAIN article.lines : Tagged(article.lines[i], "begin")},
                      Min({i \in DOMAIN article.lines : Tagged(article.lines[i], "begin")}))
    BY DEF from_post, FromStart, FromHead, FromEnd, Tagged, NoTag
  <2> QED
    BY <1>15, <1>23, <2>1
<1>25. FromStart(article, {1}, 1) = FromHead(article, {1}, 1, h)
  <2>1. FromStart(article, {1}, 1)
          = FromHead(article, {1}, 1,
                     Min({i \in 1..Len(article.lines) :
                            Tagged(article.lines[i], "end") \/ i = Len(article.lines)
                              \/ Tagged(article.lines[i + 1], NoTag)}))
    BY DEF FromStart, FromHead
  <2> QED
    BY <1>16, <1>17, <1>23, <2>1
<1>26. FromHead(article, {1}, 1, h) = FromEnd(article, {1}, 1, h, {N}, N)
  <2>1. FromHead(article, {1}, 1, h)
          = FromEnd(article, {1}, 1, h,
                    {i \in (h + 2)..Len(article.lines) : Tagged(article.lines[i], "end")},
                    Max({i \in (h + 2)..Len(article.lines) : Tagged(article.lines[i], "end")}))
    BY DEF FromHead, FromEnd
  <2> QED
    BY <1>18, <1>23, <2>1
<1>27. FromEnd(article, {1}, 1, h, {N}, N)
         = LET read == decoderParseLines(SubSeq(lines, 1, h), <<>>)
               last == decoderParseLines(<<lines[N]>>, read.ydata)
           IN  Parsed([last EXCEPT !.warnings = @ \union read.warnings],
                      FlattenSeq([i \in 1..(N - h - 1) |-> Decoded(lines[h + i])]), {})
  <2>1. {1} # {} /\ {N} # {}
    OBVIOUS
  <2> QED
    BY <1>20, <1>23, <2>1 DEF FromEnd, When
<1> QED
  BY <1>0, <1>1, <1>4, <1>6, <1>11, <1>19, <1>21, <1>23, <1>24, <1>25, <1>26, <1>27

-----------------------------------------------------------------------------
(* The checks of from_post on what was written.                            *)

(* The values of properties, told apart.                                   *)
LEMMA Values ==
    /\ \A n : Given(Number(n)) /\ Number(n) # Absent /\ ~Invalid(Number(n))
              /\ Number(n).is = "number" /\ Number(n).n = n
    /\ \A m, n : Over(Number(m), Number(n)) <=> m > n
    /\ \A m, n : Number(m) = Number(n) <=> m = n
    /\ \A d : Given(Crc(d)) /\ Crc(d).is = "crc"
    /\ ~Given(Absent) /\ ~Invalid(Absent) /\ Text # Absent
    /\ \A n : ~Over(Absent, Number(n)) /\ Absent # Number(n)
  BY Zenon DEF Given, Number, Absent, Over, Invalid, Crc, Text

(* Over compares numbers.                                                  *)
LEMMA NotOver == ASSUME NEW m \in Nat, NEW n \in Nat, m <= n PROVE ~Over(Number(m), Number(n))
<1>1. Over(Number(m), Number(n)) <=> m > n
  BY Values, Zenon
<1>2. ~(m > n)
  OBVIOUS
<1> QED
  BY <1>1, <1>2

(* There is no warning where its condition is false.                       *)
LEMMA NoneOf == \A warning : When(FALSE, warning) = {}
  BY DEF When

\* The properties the two kinds of header and =yend lines give.
ReadPart(y, k, n, z, b, e, s, data) ==
    /\ Prop(y, "begin", "line") = Number(1) /\ Prop(y, "begin", "name") = Text
    /\ Prop(y, "begin", "part") = Number(k) /\ Prop(y, "begin", "total") = Number(n)
    /\ Prop(y, "begin", "size") = Number(z)
    /\ Prop(y, "part", "begin") = Number(b) /\ Prop(y, "part", "end") = Number(e)
    /\ Prop(y, "end", "size") = Number(s) /\ Prop(y, "end", "part") = Number(k)
    /\ Prop(y, "end", "pcrc32") = Crc(data)
    /\ Prop(y, "end", "crc32") = Absent \/ \E d : Prop(y, "end", "crc32") = Crc(d)
    /\ "part" \in DOMAIN y

ReadSingle(y, s, data) ==
    /\ Prop(y, "begin", "line") = Number(1) /\ Prop(y, "begin", "name") = Text
    /\ Prop(y, "begin", "part") = Absent /\ Prop(y, "begin", "total") = Absent
    /\ Prop(y, "begin", "size") = Number(s)
    /\ Prop(y, "part", "begin") = Absent /\ Prop(y, "part", "end") = Absent
    /\ Prop(y, "end", "size") = Number(s) /\ Prop(y, "end", "part") = Absent
    /\ Prop(y, "end", "pcrc32") = Absent
    /\ Prop(y, "end", "crc32") = Crc(data)

(* Numbers that are not zero, or may be, are not complained of.            *)
LEMMA NumbersFine ==
    ASSUME NEW y,
           \A f \in NUMERICAL_FIELDS :
              \/ Prop(y, f[1], f[2]) = Absent
              \/ \E n \in Nat : Prop(y, f[1], f[2]) = Number(n) /\ (n = 0 => f[2] = "size")
    PROVE  NumberWarnings(y) = {}
<1>1. ASSUME NEW f \in NUMERICAL_FIELDS
      PROVE  /\ ~Invalid(Prop(y, f[1], f[2]))
             /\ ~(Prop(y, f[1], f[2]) = Number(0) /\ f[2] # "size")
  <2>1. CASE Prop(y, f[1], f[2]) = Absent
    BY <2>1, Values
  <2>2. ASSUME NEW n \in Nat, Prop(y, f[1], f[2]) = Number(n), n = 0 => f[2] = "size"
        PROVE  /\ ~Invalid(Prop(y, f[1], f[2]))
               /\ ~(Prop(y, f[1], f[2]) = Number(0) /\ f[2] # "size")
    BY <2>2, Values
  <2> QED
    BY <2>1, <2>2
<1>2. ASSUME NEW f \in NUMERICAL_FIELDS
      PROVE  When(Invalid(Prop(y, f[1], f[2])), "invalid_prop")
               \union When(Prop(y, f[1], f[2]) = Number(0) /\ f[2] # "size", "zero_prop") = {}
  BY <1>1 DEF When
<1> QED
  BY <1>2 DEF NumberWarnings

(* The properties of a part give no warning, if it has any data.           *)
LEMMA PartIsClean ==
    ASSUME NEW y, NEW data \in Seq(Nat), NEW k \in Nat, NEW n \in Nat, NEW z \in Nat,
           NEW b \in Nat, NEW e \in Nat, NEW s \in Nat, ReadPart(y, k, n, z, b, e, s, data),
           1 <= k, k <= n, 1 <= b, e = b + s - 1, e <= z, s = Len(data), s > 0
    PROVE  Warnings(y, data) = {}
<1>1. NumberWarnings(y) = {}
  <2>1. ASSUME NEW f \in NUMERICAL_FIELDS
        PROVE  \E m \in Nat : Prop(y, f[1], f[2]) = Number(m) /\ (m = 0 => f[2] = "size")
    <3>1. 1 \in Nat /\ 1 # 0 /\ n # 0 /\ k # 0 /\ b # 0 /\ e # 0
      OBVIOUS
    <3> QED
      BY <3>1 DEF ReadPart, NUMERICAL_FIELDS
  <2> QED
    BY <2>1, NumbersFine
<1>2. PartWarnings(y) = {}
  <2>1. ~Over(Number(k), Number(n))
    BY NotOver
  <2> QED
    BY <2>1, Values, NoneOf DEF ReadPart, PartWarnings, When
<1>3. RangeWarnings(y) = {}
  <2>1. ~Over(Number(b), Number(e)) /\ ~Over(Number(e), Number(z))
    <3>1. b <= e /\ e <= z
      OBVIOUS
    <3> QED
      BY <3>1, NotOver
  <2>2. s = e - b + 1
    OBVIOUS
  <2>3. /\ Prop(y, "part", "begin") = Number(b) /\ Prop(y, "part", "end") = Number(e)
        /\ Prop(y, "end", "size") = Number(s) /\ Prop(y, "begin", "size") = Number(z)
    BY DEF ReadPart
  <2>4. /\ \A v \in {Number(b), Number(e), Number(s)} : v.is = "number"
        /\ Number(s).n = Number(e).n - Number(b).n + 1
    BY <2>2, Values
  <2>5. Given(Number(b)) /\ Given(Number(e))
    BY Values
  <2> QED
    BY <2>1, <2>3, <2>4, <2>5 DEF RangeWarnings, When
<1>4. SizeWarnings(y) = {}
  <2>1. ~Over(Number(s), Number(z))
    <3>1. s <= z
      OBVIOUS
    <3> QED
      BY <3>1, NotOver
  <2> QED
    BY <2>1, Values DEF ReadPart, SizeWarnings, When
<1>5. CrcWarnings(y, data) = {}
  <2>1. /\ ~(Given(Prop(y, "end", "pcrc32")) /\ Prop(y, "end", "pcrc32").is # "crc")
        /\ ~(Given(Prop(y, "end", "crc32")) /\ Prop(y, "end", "crc32").is # "crc")
        /\ Prop(y, "end", "pcrc32") = Crc(data) /\ "part" \in DOMAIN y
    BY Values DEF ReadPart
  <2> QED
    BY <2>1 DEF CrcWarnings, When
<1>6. When(Prop(y, "end", "size") # Number(Len(data)), "data_size_mismatch") = {}
  BY DEF ReadPart, When
<1> QED
  BY <1>1, <1>2, <1>3, <1>4, <1>5, <1>6 DEF Warnings

(* Nor do those of a file in one post.                                     *)
LEMMA SingleIsClean ==
    ASSUME NEW y, NEW data \in Seq(Nat), NEW s \in Nat, ReadSingle(y, s, data), s = Len(data)
    PROVE  Warnings(y, data) = {}
<1>1. NumberWarnings(y) = {}
  <2>1. ASSUME NEW f \in NUMERICAL_FIELDS
        PROVE  \/ Prop(y, f[1], f[2]) = Absent
               \/ \E m \in Nat : Prop(y, f[1], f[2]) = Number(m) /\ (m = 0 => f[2] = "size")
    <3>1. 1 \in Nat /\ 1 # 0
      OBVIOUS
    <3> QED
      BY <3>1 DEF ReadSingle, NUMERICAL_FIELDS
  <2> QED
    BY <2>1, NumbersFine
<1>2. \A v : ~Over(Absent, v)
  BY Zenon DEF Over, Absent
<1>3. PartWarnings(y) = {}
  BY <1>2, Values DEF ReadSingle, PartWarnings, When
<1>4. RangeWarnings(y) = {}
  <2>1. /\ ~Given(Prop(y, "part", "begin"))
        /\ ~Over(Prop(y, "begin", "total"), Number(1)) /\ ~Over(Prop(y, "begin", "part"), Number(1))
        /\ ~Over(Prop(y, "end", "part"), Number(1))
    BY <1>2, Values DEF ReadSingle
  <2> QED
    BY <2>1 DEF RangeWarnings, When
<1>5. SizeWarnings(y) = {}
  <2>1. ~Given(Prop(y, "begin", "part")) /\ Prop(y, "begin", "size") = Prop(y, "end", "size")
    BY Values DEF ReadSingle
  <2> QED
    BY <2>1 DEF SizeWarnings, When
<1>6. CrcWarnings(y, data) = {}
  <2>1. /\ ~Given(Prop(y, "end", "pcrc32"))
        /\ ~(Given(Prop(y, "end", "crc32")) /\ Prop(y, "end", "crc32").is # "crc")
        /\ Prop(y, "end", "crc32") = Crc(data)
    BY Values DEF ReadSingle
  <2> QED
    BY <2>1 DEF CrcWarnings, When
<1>7. When(Prop(y, "end", "size") # Number(Len(data)), "data_size_mismatch") = {}
  BY DEF ReadSingle, When
<1> QED
  BY <1>1, <1>3, <1>4, <1>5, <1>6, <1>7 DEF Warnings

-----------------------------------------------------------------------------
(* What from_post reads in the lines of a post.                            *)

(* The two halves of a field.                                              *)
LEMMA FieldIs == \A p, v : Field(p, v).prop = p /\ Field(p, v).val = v
  BY DEF Field

\* What was known of other lines is known as before, and there is nothing to complain of.
Keeps(read, r, tag) ==
    /\ DOMAIN r.ydata = DOMAIN read.ydata \union {tag}
    /\ r.warnings = read.warnings
    /\ \A t, p : t # tag => Prop(r.ydata, t, p) = Prop(read.ydata, t, p)

\* There are no other properties.
Others(r, tag, props) == \A p : p \notin props => Prop(r.ydata, tag, p) = Absent

Two(read, r, tag, a, b) ==
    /\ Keeps(read, r, tag)
    /\ Prop(r.ydata, tag, a.prop) = a.val
    /\ Prop(r.ydata, tag, b.prop) = b.val
    /\ Others(r, tag, {a.prop, b.prop})

(* A line with two properties.                                             *)
LEMMA TwoFields ==
    ASSUME NEW a, NEW b,
           NEW tag, NEW read, NEW r, r = decoderParseLine(read, Control(tag, <<a, b>>)),
           a.prop # b.prop,
           a.prop # NoName, b.prop # NoName,
           a.prop # "name",
           tag \notin DOMAIN read.ydata
    PROVE  Two(read, r, tag, a, b)
<1>1. PICK f, F : f = <<a, b>> /\ F = {a, b}
  OBVIOUS
<1>2. f \in Seq(F) /\ Len(f) = 2 /\ f[1] = a /\ f[2] = b
  BY <1>1
<1>3. \A k \in 1..2 : k = 1 \/ k = 2
  OBVIOUS
<1>4. Distinct(f)
  <2>1. \A k, l \in 1..2 : f[k].prop = f[l].prop => k = l
    BY <1>2, <1>3
  <2>2. \A k \in 1..2 : f[k].prop # NoName /\ (f[k].prop = "name" => k = 2)
    BY <1>2, <1>3
  <2> QED
    BY <1>2, <2>1, <2>2 DEF Distinct
<1>5. /\ DOMAIN r.ydata = DOMAIN read.ydata \union {tag}
      /\ \A k \in 1..Len(f) : Prop(r.ydata, tag, f[k].prop) = f[k].val
      /\ \A p : (\A k \in 1..Len(f) : f[k].prop # p) => Prop(r.ydata, tag, p) = Absent
      /\ \A t, p : t # tag => Prop(r.ydata, t, p) = Prop(read.ydata, t, p)
      /\ tag \notin DOMAIN read.ydata => r.warnings = read.warnings
  <2>1. r = decoderParseLine(read, Control(tag, f))
    BY <1>1
  <2>2. Reads(read, r, tag, f)
    BY <1>2, <1>4, <2>1, LineRead
  <2> QED
    BY <2>2 DEF Reads
<1>6. Keeps(read, r, tag)
  BY <1>5 DEF Keeps
<1>7. \A k \in 1..2 : Prop(r.ydata, tag, f[k].prop) = f[k].val
  BY <1>2, <1>5
<1>8. 1 \in 1..2 /\ 2 \in 1..2
  OBVIOUS
<1>9. Others(r, tag, {a.prop, b.prop})
  BY <1>2, <1>3, <1>5 DEF Others
<1> QED
  BY <1>2, <1>6, <1>7, <1>8, <1>9 DEF Two

Three(read, r, tag, a, b, c) ==
    /\ Keeps(read, r, tag)
    /\ Prop(r.ydata, tag, a.prop) = a.val
    /\ Prop(r.ydata, tag, b.prop) = b.val
    /\ Prop(r.ydata, tag, c.prop) = c.val
    /\ Others(r, tag, {a.prop, b.prop, c.prop})

(* A line with three properties.                                           *)
LEMMA ThreeFields ==
    ASSUME NEW a, NEW b, NEW c,
           NEW tag, NEW read, NEW r, r = decoderParseLine(read, Control(tag, <<a, b, c>>)),
           a.prop # b.prop, a.prop # c.prop, b.prop # c.prop,
           a.prop # NoName, b.prop # NoName, c.prop # NoName,
           a.prop # "name", b.prop # "name",
           tag \notin DOMAIN read.ydata
    PROVE  Three(read, r, tag, a, b, c)
<1>1. PICK f, F : f = <<a, b, c>> /\ F = {a, b, c}
  OBVIOUS
<1>2. f \in Seq(F) /\ Len(f) = 3 /\ f[1] = a /\ f[2] = b /\ f[3] = c
  BY <1>1
<1>3. \A k \in 1..3 : k = 1 \/ k = 2 \/ k = 3
  OBVIOUS
<1>4. Distinct(f)
  <2>1. \A k, l \in 1..3 : f[k].prop = f[l].prop => k = l
    BY <1>2, <1>3
  <2>2. \A k \in 1..3 : f[k].prop # NoName /\ (f[k].prop = "name" => k = 3)
    BY <1>2, <1>3
  <2> QED
    BY <1>2, <2>1, <2>2 DEF Distinct
<1>5. /\ DOMAIN r.ydata = DOMAIN read.ydata \union {tag}
      /\ \A k \in 1..Len(f) : Prop(r.ydata, tag, f[k].prop) = f[k].val
      /\ \A p : (\A k \in 1..Len(f) : f[k].prop # p) => Prop(r.ydata, tag, p) = Absent
      /\ \A t, p : t # tag => Prop(r.ydata, t, p) = Prop(read.ydata, t, p)
      /\ tag \notin DOMAIN read.ydata => r.warnings = read.warnings
  <2>1. r = decoderParseLine(read, Control(tag, f))
    BY <1>1
  <2>2. Reads(read, r, tag, f)
    BY <1>2, <1>4, <2>1, LineRead
  <2> QED
    BY <2>2 DEF Reads
<1>6. Keeps(read, r, tag)
  BY <1>5 DEF Keeps
<1>7. \A k \in 1..3 : Prop(r.ydata, tag, f[k].prop) = f[k].val
  BY <1>2, <1>5
<1>8. 1 \in 1..3 /\ 2 \in 1..3 /\ 3 \in 1..3
  OBVIOUS
<1>9. Others(r, tag, {a.prop, b.prop, c.prop})
  BY <1>2, <1>3, <1>5 DEF Others
<1> QED
  BY <1>2, <1>6, <1>7, <1>8, <1>9 DEF Three

Four(read, r, tag, a, b, c, d) ==
    /\ Keeps(read, r, tag)
    /\ Prop(r.ydata, tag, a.prop) = a.val
    /\ Prop(r.ydata, tag, b.prop) = b.val
    /\ Prop(r.ydata, tag, c.prop) = c.val
    /\ Prop(r.ydata, tag, d.prop) = d.val
    /\ Others(r, tag, {a.prop, b.prop, c.prop, d.prop})

(* A line with four properties.                                            *)
LEMMA FourFields ==
    ASSUME NEW a, NEW b, NEW c, NEW d,
           NEW tag, NEW read, NEW r, r = decoderParseLine(read, Control(tag, <<a, b, c, d>>)),
           a.prop # b.prop, a.prop # c.prop, a.prop # d.prop,
           b.prop # c.prop, b.prop # d.prop, c.prop # d.prop,
           a.prop # NoName, b.prop # NoName, c.prop # NoName, d.prop # NoName,
           a.prop # "name", b.prop # "name", c.prop # "name",
           tag \notin DOMAIN read.ydata
    PROVE  Four(read, r, tag, a, b, c, d)
<1>1. PICK f, F : f = <<a, b, c, d>> /\ F = {a, b, c, d}
  OBVIOUS
<1>2. f \in Seq(F) /\ Len(f) = 4 /\ f[1] = a /\ f[2] = b /\ f[3] = c /\ f[4] = d
  BY <1>1
<1>3. \A k \in 1..4 : k = 1 \/ k = 2 \/ k = 3 \/ k = 4
  OBVIOUS
<1>4. Distinct(f)
  <2>1. \A k, l \in 1..4 : f[k].prop = f[l].prop => k = l
    BY <1>2, <1>3
  <2>2. \A k \in 1..4 : f[k].prop # NoName /\ (f[k].prop = "name" => k = 4)
    BY <1>2, <1>3
  <2> QED
    BY <1>2, <2>1, <2>2 DEF Distinct
<1>5. /\ DOMAIN r.ydata = DOMAIN read.ydata \union {tag}
      /\ \A k \in 1..Len(f) : Prop(r.ydata, tag, f[k].prop) = f[k].val
      /\ \A p : (\A k \in 1..Len(f) : f[k].prop # p) => Prop(r.ydata, tag, p) = Absent
      /\ \A t, p : t # tag => Prop(r.ydata, t, p) = Prop(read.ydata, t, p)
      /\ tag \notin DOMAIN read.ydata => r.warnings = read.warnings
  <2>1. r = decoderParseLine(read, Control(tag, f))
    BY <1>1
  <2>2. Reads(read, r, tag, f)
    BY <1>2, <1>4, <2>1, LineRead
  <2> QED
    BY <2>2 DEF Reads
<1>6. Keeps(read, r, tag)
  BY <1>5 DEF Keeps
<1>7. \A k \in 1..4 : Prop(r.ydata, tag, f[k].prop) = f[k].val
  BY <1>2, <1>5
<1>8. 1 \in 1..4 /\ 2 \in 1..4 /\ 3 \in 1..4 /\ 4 \in 1..4
  OBVIOUS
<1>9. Others(r, tag, {a.prop, b.prop, c.prop, d.prop})
  BY <1>2, <1>3, <1>5 DEF Others
<1> QED
  BY <1>2, <1>6, <1>7, <1>8, <1>9 DEF Four

Five(read, r, tag, a, b, c, d, e) ==
    /\ Keeps(read, r, tag)
    /\ Prop(r.ydata, tag, a.prop) = a.val
    /\ Prop(r.ydata, tag, b.prop) = b.val
    /\ Prop(r.ydata, tag, c.prop) = c.val
    /\ Prop(r.ydata, tag, d.prop) = d.val
    /\ Prop(r.ydata, tag, e.prop) = e.val
    /\ Others(r, tag, {a.prop, b.prop, c.prop, d.prop, e.prop})

(* A line with five properties.                                            *)
LEMMA FiveFields ==
    ASSUME NEW a, NEW b, NEW c, NEW d, NEW e,
           NEW tag, NEW read, NEW r, r = decoderParseLine(read, Control(tag, <<a, b, c, d, e>>)),
           a.prop # b.prop, a.prop # c.prop, a.prop # d.prop,
           a.prop # e.prop, b.prop # c.prop, b.prop # d.prop,
           b.prop # e.prop, c.prop # d.prop, c.prop # e.prop,
           d.prop # e.prop,
           a.prop # NoName, b.prop # NoName, c.prop # NoName, d.prop # NoName, e.prop # NoName,
           a.prop # "name", b.prop # "name", c.prop # "name", d.prop # "name",
           tag \notin DOMAIN read.ydata
    PROVE  Five(read, r, tag, a, b, c, d, e)
<1>1. PICK f, F : f = <<a, b, c, d, e>> /\ F = {a, b, c, d, e}
  OBVIOUS
<1>2. f \in Seq(F) /\ Len(f) = 5 /\ f[1] = a /\ f[2] = b /\ f[3] = c /\ f[4] = d /\ f[5] = e
  BY <1>1
<1>3. \A k \in 1..5 : k = 1 \/ k = 2 \/ k = 3 \/ k = 4 \/ k = 5
  OBVIOUS
<1>4. Distinct(f)
  <2>1. \A k, l \in 1..5 : f[k].prop = f[l].prop => k = l
    BY <1>2, <1>3
  <2>2. \A k \in 1..5 : f[k].prop # NoName /\ (f[k].prop = "name" => k = 5)
    BY <1>2, <1>3
  <2> QED
    BY <1>2, <2>1, <2>2 DEF Distinct
<1>5. /\ DOMAIN r.ydata = DOMAIN read.ydata \union {tag}
      /\ \A k \in 1..Len(f) : Prop(r.ydata, tag, f[k].prop) = f[k].val
      /\ \A p : (\A k \in 1..Len(f) : f[k].prop # p) => Prop(r.ydata, tag, p) = Absent
      /\ \A t, p : t # tag => Prop(r.ydata, t, p) = Prop(read.ydata, t, p)
      /\ tag \notin DOMAIN read.ydata => r.warnings = read.warnings
  <2>1. r = decoderParseLine(read, Control(tag, f))
    BY <1>1
  <2>2. Reads(read, r, tag, f)
    BY <1>2, <1>4, <2>1, LineRead
  <2> QED
    BY <2>2 DEF Reads
<1>6. Keeps(read, r, tag)
  BY <1>5 DEF Keeps
<1>7. \A k \in 1..5 : Prop(r.ydata, tag, f[k].prop) = f[k].val
  BY <1>2, <1>5
<1>8. 1 \in 1..5 /\ 2 \in 1..5 /\ 3 \in 1..5 /\ 4 \in 1..5 /\ 5 \in 1..5
  OBVIOUS
<1>9. Others(r, tag, {a.prop, b.prop, c.prop, d.prop, e.prop})
  BY <1>2, <1>3, <1>5 DEF Others
<1> QED
  BY <1>2, <1>6, <1>7, <1>8, <1>9 DEF Five

-----------------------------------------------------------------------------
(* What from_post reads in the lines of a post.                            *)

(* The names of properties differ from that of none.                       *)
LEMMA Names ==
    /\ "line" # NoName /\ "size" # NoName /\ "name" # NoName /\ "part" # NoName
    /\ "total" # NoName /\ "begin" # NoName /\ "end" # NoName /\ "crc32" # NoName
    /\ "pcrc32" # NoName
  BY Zenon DEF NoName

(* The field that names the file.                                          *)
LEMMA NameIs == Name.prop = "name" /\ Name.val = Text
  BY FieldIs DEF Name

\* Nothing has been read of an article yet.
Unread == [ydata |-> <<>>, warnings |-> {}]

(* Before any line.                                                        *)
LEMMA NothingRead ==
    DOMAIN Unread.ydata = {} /\ Unread.warnings = {} /\ \A t, p : Prop(Unread.ydata, t, p) = Absent
<1>1. DOMAIN Unread.ydata = {} /\ Unread.warnings = {}
  BY DEF Unread
<1> QED
  BY <1>1 DEF Prop

\* The last line is read on its own.
Again(read) == [ydata |-> read.ydata, warnings |-> {}]

(* What Again keeps and what it drops.                                     *)
LEMMA AgainIs == \A read : Again(read).ydata = read.ydata /\ Again(read).warnings = {}
  BY DEF Again

(* What the two lines of a file in one post say.                           *)
LEMMA SingleRead ==
    ASSUME NEW data, NEW s, NEW read, NEW last,
           read = decoderParseLine(Unread,
                    Control("begin", <<Field("line", Number(1)), Field("size", Number(s)), Name>>)),
           last = decoderParseLine(Again(read),
                    Control("end", <<Field("size", Number(s)), Field("crc32", Crc(data))>>))
    PROVE  ReadSingle(last.ydata, s, data) /\ read.warnings = {} /\ last.warnings = {}
<1>1. PICK a, b : a = Field("line", Number(1)) /\ b = Field("size", Number(s))
  OBVIOUS
<1>2. PICK d, e : d = b /\ e = Field("crc32", Crc(data))
  OBVIOUS
<1>3. /\ a.prop = "line" /\ a.val = Number(1) /\ b.prop = "size" /\ b.val = Number(s)
      /\ e.prop = "crc32" /\ e.val = Crc(data)
  BY <1>1, <1>2, FieldIs
<1>4. /\ Keeps(Unread, read, "begin")
      /\ Prop(read.ydata, "begin", "line") = Number(1)
      /\ Prop(read.ydata, "begin", "size") = Number(s)
      /\ Prop(read.ydata, "begin", "name") = Text
      /\ Others(read, "begin", {"line", "size", "name"})
  <2>1. read = decoderParseLine(Unread, Control("begin", <<a, b, Name>>))
    BY <1>1
  <2>2. "begin" \notin DOMAIN Unread.ydata
    BY NothingRead
  <2>3. /\ a.prop # b.prop /\ a.prop # Name.prop /\ b.prop # Name.prop
        /\ a.prop # NoName /\ b.prop # NoName /\ Name.prop # NoName
        /\ a.prop # "name" /\ b.prop # "name"
    BY <1>3, NameIs, Names
  <2>4. Three(Unread, read, "begin", a, b, Name)
    BY <2>1, <2>2, <2>3, ThreeFields
  <2> QED
    BY <1>3, <2>4, NameIs DEF Three
<1>5. /\ DOMAIN read.ydata = {"begin"} /\ read.warnings = {}
      /\ \A t, p : t # "begin" => Prop(read.ydata, t, p) = Absent
  BY <1>4, NothingRead DEF Keeps
<1>6. /\ Keeps(Again(read), last, "end")
      /\ Prop(last.ydata, "end", "size") = Number(s)
      /\ Prop(last.ydata, "end", "crc32") = Crc(data)
      /\ Others(last, "end", {"size", "crc32"})
  <2>1. last = decoderParseLine(Again(read), Control("end", <<b, e>>))
    BY <1>1, <1>2
  <2>2. "end" \notin DOMAIN Again(read).ydata
    BY <1>5, AgainIs
  <2>3. /\ b.prop # e.prop /\ b.prop # NoName /\ e.prop # NoName /\ b.prop # "name"
    BY <1>3, Names
  <2>4. Two(Again(read), last, "end", b, e)
    BY <2>1, <2>2, <2>3, TwoFields
  <2> QED
    BY <1>3, <2>4 DEF Two
<1>7. last.warnings = {} /\ \A t, p : t # "end" => Prop(last.ydata, t, p) = Prop(read.ydata, t, p)
  BY <1>6, AgainIs DEF Keeps
<1>8. ReadSingle(last.ydata, s, data)
  <2>1. /\ Prop(read.ydata, "begin", "part") = Absent /\ Prop(read.ydata, "begin", "total") = Absent
        /\ Prop(last.ydata, "end", "part") = Absent /\ Prop(last.ydata, "end", "pcrc32") = Absent
    BY <1>4, <1>6 DEF Others
  <2>2. /\ Prop(last.ydata, "part", "begin") = Absent /\ Prop(last.ydata, "part", "end") = Absent
        /\ \A p : Prop(last.ydata, "begin", p) = Prop(read.ydata, "begin", p)
    BY <1>5, <1>7
  <2> QED
    BY <1>4, <1>6, <2>1, <2>2 DEF ReadSingle
<1> QED
  BY <1>5, <1>7, <1>8

(* No field more.                                                          *)
LEMMA NoMore == \A a, b, c : <<a, b, c>> \o <<>> = <<a, b, c>>
  OBVIOUS

(* One field more.                                                         *)
LEMMA OneMore == \A a, b, c, d : <<a, b, c>> \o <<d>> = <<a, b, c, d>>
<1> SUFFICES ASSUME NEW a, NEW b, NEW c, NEW d PROVE <<a, b, c>> \o <<d>> = <<a, b, c, d>>
  OBVIOUS
<1>1. PICK F, s, t, u : F = {a, b, c, d} /\ s = <<a, b, c>> /\ t = <<d>> /\ u = <<a, b, c, d>>
  OBVIOUS
<1>2. s \in Seq(F) /\ t \in Seq(F) /\ u \in Seq(F) /\ Len(s) = 3 /\ Len(t) = 1 /\ Len(u) = 4
  BY <1>1
<1>3. /\ s \o t \in Seq(F) /\ Len(s \o t) = 4
      /\ \A j \in 1..4 : (s \o t)[j] = IF j <= 3 THEN s[j] ELSE t[j - 3]
  <2>1. /\ s \o t \in Seq(F) /\ Len(s \o t) = Len(s) + Len(t)
        /\ \A j \in 1..(Len(s) + Len(t)) : (s \o t)[j] = IF j <= Len(s) THEN s[j] ELSE t[j - Len(s)]
    BY <1>2, ConcatProperties
  <2> QED
    BY <1>2, <2>1
<1>4. \A j \in 1..4 : (s \o t)[j] = u[j]
  BY <1>1, <1>3
<1>5. s \o t = u
  BY <1>2, <1>3, <1>4, SeqEqual
<1> QED
  BY <1>1, <1>5

(* The =ybegin line of a part, the first line there is.                    *)
LEMMA BeginOfPart ==
    ASSUME NEW k, NEW n, NEW z, NEW first,
           first = decoderParseLine(Unread,
                     Control("begin", <<Field("part", Number(k)), Field("total", Number(n)),
                                        Field("line", Number(1)), Field("size", Number(z)), Name>>))
    PROVE  /\ Keeps(Unread, first, "begin")
           /\ Prop(first.ydata, "begin", "part") = Number(k)
           /\ Prop(first.ydata, "begin", "total") = Number(n)
           /\ Prop(first.ydata, "begin", "line") = Number(1)
           /\ Prop(first.ydata, "begin", "size") = Number(z)
           /\ Prop(first.ydata, "begin", "name") = Text
<1>1. PICK f1, f2, f3, f4 : /\ f1 = Field("part", Number(k)) /\ f2 = Field("total", Number(n))
                            /\ f3 = Field("line", Number(1)) /\ f4 = Field("size", Number(z))
  OBVIOUS
<1>2. /\ f1.prop = "part" /\ f1.val = Number(k) /\ f2.prop = "total" /\ f2.val = Number(n)
      /\ f3.prop = "line" /\ f3.val = Number(1) /\ f4.prop = "size" /\ f4.val = Number(z)
  BY <1>1, FieldIs
<1>3. first = decoderParseLine(Unread, Control("begin", <<f1, f2, f3, f4, Name>>))
  BY <1>1
<1>4. "begin" \notin DOMAIN Unread.ydata
  BY NothingRead
<1>5. /\ f1.prop # f2.prop /\ f1.prop # f3.prop /\ f1.prop # f4.prop /\ f1.prop # Name.prop
      /\ f2.prop # f3.prop /\ f2.prop # f4.prop /\ f2.prop # Name.prop
      /\ f3.prop # f4.prop /\ f3.prop # Name.prop /\ f4.prop # Name.prop
      /\ f1.prop # NoName /\ f2.prop # NoName /\ f3.prop # NoName /\ f4.prop # NoName
      /\ Name.prop # NoName
      /\ f1.prop # "name" /\ f2.prop # "name" /\ f3.prop # "name" /\ f4.prop # "name"
  BY <1>2, NameIs, Names
<1>6. PICK f5 : f5 = Name
  OBVIOUS
<1>7. Five(Unread, first, "begin", f1, f2, f3, f4, f5)
  <2>1. first = decoderParseLine(Unread, Control("begin", <<f1, f2, f3, f4, f5>>))
    BY <1>3, <1>6
  <2>2. f1.prop # f5.prop /\ f2.prop # f5.prop /\ f3.prop # f5.prop /\ f4.prop # f5.prop /\ f5.prop # NoName
    BY <1>5, <1>6
  <2> QED
    BY <1>4, <1>5, <2>1, <2>2, FiveFields
<1> QED
  BY <1>2, <1>6, <1>7, NameIs DEF Five

(* Its =ypart line, after that.                                            *)
LEMMA RangeOfPart ==
    ASSUME NEW b, NEW e, NEW first, "part" \notin DOMAIN first.ydata, NEW read,
           read = decoderParseLine(first,
                    Control("part", <<Field("begin", Number(b)), Field("end", Number(e))>>))
    PROVE  /\ Keeps(first, read, "part")
           /\ Prop(read.ydata, "part", "begin") = Number(b)
           /\ Prop(read.ydata, "part", "end") = Number(e)
<1>1. PICK g1, g2 : g1 = Field("begin", Number(b)) /\ g2 = Field("end", Number(e))
  OBVIOUS
<1>2. /\ g1.prop = "begin" /\ g1.val = Number(b) /\ g2.prop = "end" /\ g2.val = Number(e)
  BY <1>1, FieldIs
<1>3. read = decoderParseLine(first, Control("part", <<g1, g2>>))
  BY <1>1
<1>4. g1.prop # g2.prop /\ g1.prop # NoName /\ g2.prop # NoName /\ g1.prop # "name"
  BY <1>2, Names
<1>5. Two(first, read, "part", g1, g2)
  BY <1>3, <1>4, TwoFields
<1> QED
  BY <1>2, <1>5 DEF Two

\* What the =yend line of a part says of the part.
EndIs(before, last, k, s, data) ==
    /\ Keeps(before, last, "end")
    /\ Prop(last.ydata, "end", "size") = Number(s)
    /\ Prop(last.ydata, "end", "part") = Number(k)
    /\ Prop(last.ydata, "end", "pcrc32") = Crc(data)

(* The =yend line of a part that is not the last.                          *)
LEMMA EndOfPart ==
    ASSUME NEW data, NEW k, NEW s, NEW before, "end" \notin DOMAIN before.ydata, NEW last,
           last = decoderParseLine(before,
                    Control("end", <<Field("size", Number(s)), Field("part", Number(k)),
                                     Field("pcrc32", Crc(data))>>))
    PROVE  EndIs(before, last, k, s, data) /\ Prop(last.ydata, "end", "crc32") = Absent
<1>1. PICK h1, h2, h3 : /\ h1 = Field("size", Number(s)) /\ h2 = Field("part", Number(k))
                        /\ h3 = Field("pcrc32", Crc(data))
  OBVIOUS
<1>2. /\ h1.prop = "size" /\ h1.val = Number(s) /\ h2.prop = "part" /\ h2.val = Number(k)
      /\ h3.prop = "pcrc32" /\ h3.val = Crc(data)
  BY <1>1, FieldIs
<1>3. /\ h1.prop # h2.prop /\ h1.prop # h3.prop /\ h2.prop # h3.prop
      /\ h1.prop # NoName /\ h2.prop # NoName /\ h3.prop # NoName
      /\ h1.prop # "name" /\ h2.prop # "name"
  BY <1>2, Names
<1>4. last = decoderParseLine(before, Control("end", <<h1, h2, h3>>))
  BY <1>1
<1>5. Three(before, last, "end", h1, h2, h3)
  BY <1>3, <1>4, ThreeFields
<1>6. "crc32" \notin {h1.prop, h2.prop, h3.prop}
  BY <1>2
<1>7. Prop(last.ydata, "end", "crc32") = Absent
  BY <1>5, <1>6 DEF Three, Others
<1> QED
  BY <1>2, <1>5, <1>7 DEF EndIs, Three

(* That of the last part.                                                  *)
LEMMA EndOfLastPart ==
    ASSUME NEW data, NEW k, NEW s, NEW x, NEW before, "end" \notin DOMAIN before.ydata, NEW last,
           last = decoderParseLine(before,
                    Control("end", <<Field("size", Number(s)), Field("part", Number(k)),
                                     Field("pcrc32", Crc(data)), Field("crc32", Crc(x))>>))
    PROVE  EndIs(before, last, k, s, data) /\ Prop(last.ydata, "end", "crc32") = Crc(x)
<1>1. PICK h1, h2, h3, h4 : /\ h1 = Field("size", Number(s)) /\ h2 = Field("part", Number(k))
                            /\ h3 = Field("pcrc32", Crc(data)) /\ h4 = Field("crc32", Crc(x))
  OBVIOUS
<1>2. /\ h1.prop = "size" /\ h1.val = Number(s) /\ h2.prop = "part" /\ h2.val = Number(k)
      /\ h3.prop = "pcrc32" /\ h3.val = Crc(data) /\ h4.prop = "crc32" /\ h4.val = Crc(x)
  BY <1>1, FieldIs
<1>3. /\ h1.prop # h2.prop /\ h1.prop # h3.prop /\ h2.prop # h3.prop
      /\ h1.prop # h4.prop /\ h2.prop # h4.prop /\ h3.prop # h4.prop
      /\ h1.prop # NoName /\ h2.prop # NoName /\ h3.prop # NoName /\ h4.prop # NoName
      /\ h1.prop # "name" /\ h2.prop # "name" /\ h3.prop # "name"
  BY <1>2, Names
<1>4. last = decoderParseLine(before, Control("end", <<h1, h2, h3, h4>>))
  BY <1>1
<1>5. Four(before, last, "end", h1, h2, h3, h4)
  BY <1>3, <1>4, FourFields
<1> QED
  BY <1>2, <1>5 DEF EndIs, Four

\* The fields of the =yend line of a part; crc32 is written with the last part only.
EndOf(fields, a, b, c) == \/ fields = <<a, b, c>>
                          \/ \E x : fields = <<a, b, c, Field("crc32", Crc(x))>>

\* The lines of a part, read one after the other.
PartLines(first, read, last, fields, k, n, z, b, e, s, data) ==
    /\ first = decoderParseLine(Unread,
                 Control("begin", <<Field("part", Number(k)), Field("total", Number(n)),
                                    Field("line", Number(1)), Field("size", Number(z)), Name>>))
    /\ read = decoderParseLine(first,
                Control("part", <<Field("begin", Number(b)), Field("end", Number(e))>>))
    /\ last = decoderParseLine(Again(read), Control("end", fields))
    /\ EndOf(fields, Field("size", Number(s)), Field("part", Number(k)), Field("pcrc32", Crc(data)))

(* What they say.                                                          *)
LEMMA PartRead ==
    ASSUME NEW data, NEW k, NEW n, NEW z, NEW b, NEW e, NEW s, NEW first, NEW read, NEW last,
           NEW fields, PartLines(first, read, last, fields, k, n, z, b, e, s, data)
    PROVE  ReadPart(last.ydata, k, n, z, b, e, s, data) /\ read.warnings = {} /\ last.warnings = {}
<1>1. /\ Keeps(Unread, first, "begin")
      /\ Prop(first.ydata, "begin", "part") = Number(k)
      /\ Prop(first.ydata, "begin", "total") = Number(n)
      /\ Prop(first.ydata, "begin", "line") = Number(1)
      /\ Prop(first.ydata, "begin", "size") = Number(z)
      /\ Prop(first.ydata, "begin", "name") = Text
  BY BeginOfPart DEF PartLines
<1>2. DOMAIN first.ydata = {"begin"} /\ first.warnings = {}
  BY <1>1, NothingRead DEF Keeps
<1>3. /\ Keeps(first, read, "part")
      /\ Prop(read.ydata, "part", "begin") = Number(b)
      /\ Prop(read.ydata, "part", "end") = Number(e)
  <2>1. "part" \notin DOMAIN first.ydata
    BY <1>2
  <2> QED
    BY <2>1, RangeOfPart DEF PartLines
<1>4. /\ DOMAIN read.ydata = {"begin", "part"} /\ read.warnings = {}
      /\ \A p : Prop(read.ydata, "begin", p) = Prop(first.ydata, "begin", p)
  BY <1>2, <1>3 DEF Keeps
<1>5. "end" \notin DOMAIN Again(read).ydata
  BY <1>4, AgainIs
<1>6. /\ EndIs(Again(read), last, k, s, data)
      /\ Prop(last.ydata, "end", "crc32") = Absent \/ \E x : Prop(last.ydata, "end", "crc32") = Crc(x)
  <2>1. CASE last = decoderParseLine(Again(read),
               Control("end", <<Field("size", Number(s)), Field("part", Number(k)),
                                Field("pcrc32", Crc(data))>>))
    BY <1>5, <2>1, EndOfPart
  <2>2. ASSUME NEW x, last = decoderParseLine(Again(read),
               Control("end", <<Field("size", Number(s)), Field("part", Number(k)),
                                Field("pcrc32", Crc(data)), Field("crc32", Crc(x))>>))
        PROVE  EndIs(Again(read), last, k, s, data) /\ Prop(last.ydata, "end", "crc32") = Crc(x)
    BY <1>5, <2>2, EndOfLastPart
  <2>3. PICK u, v, w : /\ u = Field("size", Number(s)) /\ v = Field("part", Number(k))
                       /\ w = Field("pcrc32", Crc(data))
    OBVIOUS
  <2>4. EndOf(fields, u, v, w) /\ last = decoderParseLine(Again(read), Control("end", fields))
    BY <2>3 DEF PartLines
  <2> QED
    BY <2>1, <2>2, <2>3, <2>4 DEF EndOf
<1>7. last.warnings = {} /\ \A t, p : t # "end" => Prop(last.ydata, t, p) = Prop(read.ydata, t, p)
  BY <1>6, AgainIs DEF EndIs, Keeps
<1>8. "part" \in DOMAIN last.ydata
  BY <1>4, <1>6, AgainIs DEF EndIs, Keeps
<1>9. ReadPart(last.ydata, k, n, z, b, e, s, data)
  <2>1. /\ \A p : Prop(last.ydata, "begin", p) = Prop(read.ydata, "begin", p)
        /\ \A p : Prop(last.ydata, "part", p) = Prop(read.ydata, "part", p)
    BY <1>7
  <2>2. /\ Prop(last.ydata, "begin", "line") = Number(1) /\ Prop(last.ydata, "begin", "name") = Text
        /\ Prop(last.ydata, "begin", "part") = Number(k) /\ Prop(last.ydata, "begin", "total") = Number(n)
        /\ Prop(last.ydata, "begin", "size") = Number(z)
    BY <1>1, <1>4, <2>1
  <2>3. Prop(last.ydata, "part", "begin") = Number(b) /\ Prop(last.ydata, "part", "end") = Number(e)
    BY <1>3, <2>1
  <2> QED
    BY <1>6, <1>8, <2>2, <2>3 DEF ReadPart, EndIs
<1> QED
  BY <1>4, <1>7, <1>9

-----------------------------------------------------------------------------
(* The posts the encoder returns are read back.                            *)

\* What the =ypart and =yend lines of a post say of its data.
WellMade(post) ==
    /\ post \in Post /\ post.size = Len(post.pcrc32)
    /\ 1 <= post.part /\ post.part <= post.total
    /\ 1 <= post.begin /\ post.end = post.begin + post.size - 1 /\ post.end <= size
    /\ post.crc32 = <<>> \/ \E x : post.crc32 = <<x>>

NoError == ""

\* What OwnPostsParse says of a post.
ReadsBack(post) ==
    LET read == Read(Written(post)) IN
        /\ read.error = NoError /\ read.data = post.pcrc32
        /\ post.size > 0 \/ post.total <= 1 => read.warnings = {}

(* What Parsed returns where no property is missing.                       *)
LEMMA ParsedWhole ==
    ASSUME NEW read, NEW data, NEW further, ~MissingRequired(read.ydata)
    PROVE  LET p == Parsed(read, data, further)
           IN  /\ p.error = NoError /\ p.data = data
               /\ p.warnings = UNION {read.warnings, further, Warnings(read.ydata, data)}
  BY Zenon DEF Parsed, NoError

\* The warnings of the header lines are added to those of the last.
LEMMA LineIsRecord ==
    ASSUME NEW read, NEW line, NEW more,
           NEW r, r = [decoderParseLine(read, line) EXCEPT !.warnings = @ \union more]
    PROVE  /\ r.ydata = decoderParseLine(read, line).ydata
           /\ r.warnings = decoderParseLine(read, line).warnings \union more
<1>1. \E Y, W : decoderParseLine(read, line) = [ydata |-> Y, warnings |-> W]
  BY Zenon DEF decoderParseLine
<1>2. PICK Y, W : decoderParseLine(read, line) = [ydata |-> Y, warnings |-> W]
  BY <1>1
<1> QED
  BY <1>2

(* The properties from_post insists on.                                    *)
LEMMA NothingMissing ==
    ASSUME NEW y, NEW m \in Nat, NEW s \in Nat, NEW l \in Nat,
           Prop(y, "begin", "line") = Number(l), Prop(y, "begin", "size") = Number(m),
           Prop(y, "begin", "name") = Text, Prop(y, "end", "size") = Number(s)
    PROVE  ~MissingRequired(y)
  BY Values DEF MissingRequired

(* A control line has the tag it is made with.                             *)
LEMMA ControlIs == \A tag, fields : Tagged(Control(tag, fields), tag)
  BY DEF Tagged, Control

(* A file in one post.                                                     *)
LEMMA SingleReadsBack ==
    ASSUME NEW post, size \in Nat, WellMade(post), ~(post.total > 1)
    PROVE  ReadsBack(post)
<1> DEFINE s    == post.size
           data == post.pcrc32
           l1   == Control("begin", <<Field("line", Number(1)), Field("size", Number(s)), Name>>)
           l2   == Control("end", <<Field("size", Number(s)), Field("crc32", Crc(data))>>)
           one  == decoderParseLine(Unread, l1)
           last == decoderParseLine(Again(one), l2)
           all  == [last EXCEPT !.warnings = @ \union one.warnings]
<1>1. s \in Nat /\ data \in Seq(Nat) /\ s = Len(data)
  BY DEF WellMade, Post
<1>2. Written(post) = <<l1>> \o Body(data) \o <<l2>>
  BY DEF Written, WrittenSingle
<1>3. ReadSingle(last.ydata, s, data) /\ one.warnings = {} /\ last.warnings = {}
  <2>1. PICK o, r : o = one /\ r = last
    OBVIOUS
  <2>2. /\ o = decoderParseLine(Unread,
                Control("begin", <<Field("line", Number(1)), Field("size", Number(s)), Name>>))
        /\ r = decoderParseLine(Again(o),
                Control("end", <<Field("size", Number(s)), Field("crc32", Crc(data))>>))
    BY <2>1
  <2> HIDE DEF s, data, one, last, l1, l2
  <2>3. ReadSingle(r.ydata, s, data) /\ o.warnings = {} /\ r.warnings = {}
    BY <2>2, SingleRead
  <2> QED
    BY <2>1, <2>3
<1>4. Tagged(l1, "begin") /\ Tagged(l2, "end")
  BY ControlIs
<1> HIDE DEF s, data, l1, l2
<1>5. Read(<<l1>> \o Body(data) \o <<l2>>) = Parsed(all, data, {})
  <2>1. PICK L, head : L = {l1, l2} /\ head = <<l1>>
    OBVIOUS
  <2>2. /\ Len(head) = 1 /\ head \in Seq(L) /\ l2 \in L /\ Tagged(head[1], "begin")
    BY <1>4, <2>1
  <2>3. decoderParseLines(head, <<>>) = one
    BY <2>1, OneLine DEF Unread
  <2>4. decoderParseLines(<<l2>>, one.ydata) = last
    BY OneLine DEF Again
  <2>5. PICK read, final : /\ read = decoderParseLines(head, <<>>)
                           /\ final = decoderParseLines(<<l2>>, read.ydata)
    OBVIOUS
  <2>6. Read(head \o Body(data) \o <<l2>>)
          = Parsed([final EXCEPT !.warnings = @ \union read.warnings], data, {})
    BY <1>1, <1>4, <2>2, <2>5, ReadOfLines
  <2>7. read = one /\ final = last
    BY <2>3, <2>4, <2>5
  <2> QED
    BY <2>1, <2>6, <2>7
<1>6. PICK r : r = all
  OBVIOUS
<1>7. r.ydata = last.ydata /\ r.warnings = {}
  <2>1. r.ydata = last.ydata /\ r.warnings = last.warnings \union one.warnings
    BY <1>6, LineIsRecord
  <2> QED
    BY <1>3, <2>1
<1>8. ReadSingle(r.ydata, s, data)
  BY <1>3, <1>7
<1>9. ~MissingRequired(r.ydata)
  BY <1>1, <1>8, NothingMissing DEF ReadSingle
<1>10. Warnings(r.ydata, data) = {}
  BY <1>1, <1>8, SingleIsClean
<1>11. PICK p : p = Parsed(r, data, {})
  OBVIOUS
<1>12. /\ p.error = NoError /\ p.data = data
       /\ p.warnings = UNION {r.warnings, {}, Warnings(r.ydata, data)}
  BY <1>9, <1>11, ParsedWhole
<1>13. p.warnings = {}
  BY <1>7, <1>10, <1>12
<1>14. Read(Written(post)) = p
  BY <1>2, <1>5, <1>6, <1>11
<1> QED
  BY <1>12, <1>13, <1>14 DEF ReadsBack, data

(* The fields of a =yend line: crc32 is written with the last part only.   *)
LEMMA EndFields ==
    ASSUME NEW post, post.crc32 = <<>> \/ \E x : post.crc32 = <<x>>, NEW a, NEW b, NEW c, NEW fields,
           fields = <<a, b, c>> \o [i \in DOMAIN post.crc32 |-> Field("crc32", Crc(post.crc32[i]))]
    PROVE  EndOf(fields, a, b, c)
<1>1. CASE post.crc32 = <<>>
  <2>1. [i \in DOMAIN post.crc32 |-> Field("crc32", Crc(post.crc32[i]))] = <<>>
    BY <1>1
  <2>2. fields = <<a, b, c>> \o <<>>
    BY <2>1
  <2> QED
    BY <2>2, NoMore DEF EndOf
<1>2. ASSUME NEW x, post.crc32 = <<x>> PROVE fields = <<a, b, c, Field("crc32", Crc(x))>>
  <2>1. PICK q, f : q = post.crc32 /\ f = [i \in DOMAIN q |-> Field("crc32", Crc(q[i]))]
    OBVIOUS
  <2>2. DOMAIN q = 1..1 /\ q[1] = x
    BY <1>2, <2>1
  <2>3. f = <<Field("crc32", Crc(x))>>
    <3>1. f = [i \in 1..1 |-> Field("crc32", Crc(x))]
      BY <2>1, <2>2
    <3>2. PICK g : g = Field("crc32", Crc(x))
      OBVIOUS
    <3>3. [i \in 1..1 |-> g] = <<g>>
      OBVIOUS
    <3> QED
      BY <3>1, <3>2, <3>3
  <2> QED
    BY <2>1, <2>3, OneMore
<1> QED
  BY <1>1, <1>2 DEF EndOf

(* A part of several.                                                      *)
LEMMA PartReadsBack ==
    ASSUME NEW post, size \in Nat, WellMade(post), post.total > 1
    PROVE  ReadsBack(post)
<1> DEFINE k    == post.part
           n    == post.total
           b    == post.begin
           e    == post.end
           s    == post.size
           data == post.pcrc32
           l1   == Control("begin", <<Field("part", Number(k)), Field("total", Number(n)),
                                      Field("line", Number(1)), Field("size", Number(size)), Name>>)
           l2   == Control("part", <<Field("begin", Number(b)), Field("end", Number(e))>>)
           three == <<Field("size", Number(s)), Field("part", Number(k)), Field("pcrc32", Crc(data))>>
           crcs == [i \in DOMAIN post.crc32 |-> Field("crc32", Crc(post.crc32[i]))]
           l3   == Control("end", three \o crcs)
           one  == decoderParseLine(Unread, l1)
           two  == decoderParseLine(one, l2)
           last == decoderParseLine(Again(two), l3)
           all  == [last EXCEPT !.warnings = @ \union two.warnings]
<1>1. /\ k \in Nat /\ n \in Nat /\ b \in Nat /\ e \in Nat /\ s \in Nat
      /\ data \in Seq(Nat) /\ s = Len(data)
      /\ 1 <= k /\ k <= n /\ 1 <= b /\ e = b + s - 1 /\ e <= size
  BY DEF WellMade, Post
<1>2. Written(post) = <<l1, l2>> \o Body(data) \o <<l3>>
  BY DEF Written, WrittenPart
<1>3. ReadPart(last.ydata, k, n, size, b, e, s, data) /\ two.warnings = {} /\ last.warnings = {}
  <2>1. PICK fields : fields = three \o crcs
    OBVIOUS
  <2>2. EndOf(fields, Field("size", Number(s)), Field("part", Number(k)), Field("pcrc32", Crc(data)))
    <3>1. post.crc32 = <<>> \/ \E x : post.crc32 = <<x>>
      BY DEF WellMade
    <3>2. PICK u, v, w : /\ u = Field("size", Number(s)) /\ v = Field("part", Number(k))
                         /\ w = Field("pcrc32", Crc(data))
      OBVIOUS
    <3>3. fields = <<u, v, w>> \o [i \in DOMAIN post.crc32 |-> Field("crc32", Crc(post.crc32[i]))]
      BY <2>1, <3>2
    <3>4. EndOf(fields, u, v, w)
      BY <3>1, <3>3, EndFields
    <3> QED
      BY <3>2, <3>4
  <2>3. PICK o, t, r : o = one /\ t = two /\ r = last
    OBVIOUS
  <2>4. PartLines(o, t, r, fields, k, n, size, b, e, s, data)
    BY <2>1, <2>2, <2>3 DEF PartLines
  <2> HIDE DEF k, n, b, e, s, data, one, two, last, l1, l2, l3, three, crcs
  <2>6. ReadPart(r.ydata, k, n, size, b, e, s, data) /\ t.warnings = {} /\ r.warnings = {}
    BY <2>4, PartRead
  <2> QED
    BY <2>3, <2>6
<1>4. Tagged(l1, "begin") /\ Tagged(l2, "part") /\ Tagged(l3, "end")
  BY ControlIs
<1> HIDE DEF k, n, b, e, s, data, l1, l2, l3
<1>5. Read(<<l1, l2>> \o Body(data) \o <<l3>>) = Parsed(all, data, {})
  <2>1. PICK L, head : L = {l1, l2, l3} /\ head = <<l1, l2>>
    OBVIOUS
  <2>2. /\ Len(head) = 2 /\ head \in Seq(L) /\ l3 \in L
        /\ Tagged(head[1], "begin") /\ Tagged(head[2], "part")
    BY <1>4, <2>1
  <2>3. decoderParseLines(head, <<>>) = two
    BY <2>1, TwoLines DEF Unread
  <2>4. decoderParseLines(<<l3>>, two.ydata) = last
    BY OneLine DEF Again
  <2>5. PICK read, final : /\ read = decoderParseLines(head, <<>>)
                           /\ final = decoderParseLines(<<l3>>, read.ydata)
    OBVIOUS
  <2>6. Read(head \o Body(data) \o <<l3>>)
          = Parsed([final EXCEPT !.warnings = @ \union read.warnings], data, {})
    BY <1>1, <1>4, <2>2, <2>5, ReadOfLines
  <2>7. read = two /\ final = last
    BY <2>3, <2>4, <2>5
  <2> QED
    BY <2>1, <2>6, <2>7
<1>6. PICK r : r = all
  OBVIOUS
<1>7. r.ydata = last.ydata /\ r.warnings = {}
  <2>1. r.ydata = last.ydata /\ r.warnings = last.warnings \union two.warnings
    BY <1>6, LineIsRecord
  <2> QED
    BY <1>3, <2>1
<1>8. ReadPart(r.ydata, k, n, size, b, e, s, data)
  BY <1>3, <1>7
<1>9. ~MissingRequired(r.ydata)
  BY <1>1, <1>8, NothingMissing DEF ReadPart
<1>10. s > 0 => Warnings(r.ydata, data) = {}
  BY <1>1, <1>8, PartIsClean
<1>11. PICK p : p = Parsed(r, data, {})
  OBVIOUS
<1>12. /\ p.error = NoError /\ p.data = data
       /\ p.warnings = UNION {r.warnings, {}, Warnings(r.ydata, data)}
  BY <1>9, <1>11, ParsedWhole
<1>13. s > 0 => p.warnings = {}
  BY <1>7, <1>10, <1>12
<1>14. Read(Written(post)) = p
  BY <1>2, <1>5, <1>6, <1>11
<1>15. post.size > 0 \/ post.total <= 1 => p.warnings = {}
  BY <1>1, <1>13 DEF n, s
<1> QED
  BY <1>12, <1>14, <1>15 DEF ReadsBack, data

\* What every post is when it is returned, and remains.
PostsMade ==
    \A j \in 1..Len(posts) :
        /\ posts[j].size = Len(posts[j].pcrc32)
        /\ 1 <= posts[j].part /\ posts[j].part <= posts[j].total
        /\ posts[j].crc32 = <<>> \/ \E x : posts[j].crc32 = <<x>>

(* No call makes a post that is otherwise, and the posts made stay as they are.*)
LEMMA PostsMadeStep == ASSUME Inv, PostsMade, [Next]_vars PROVE PostsMade'
<1>1. Typed
  BY DEF Inv
<1>2. posts \in Seq(Post) /\ Len(posts) \in Nat /\ part \in Nat
  BY <1>1 DEF Typed
<1>3. CASE UNCHANGED posts
  BY <1>3 DEF PostsMade
<1>4. ASSUME NEW p \in Post, posts' = Append(posts, p),
             p.size = Len(p.pcrc32), 1 <= p.part, p.part <= p.total,
             p.crc32 = <<>> \/ \E x : p.crc32 = <<x>>
      PROVE  PostsMade'
  <2>1. /\ Len(posts') = Len(posts) + 1 /\ posts'[Len(posts) + 1] = p
        /\ \A j \in 1..Len(posts) : posts'[j] = posts[j]
    BY <1>2, <1>4, Grown
  <2>2. ASSUME NEW j \in 1..Len(posts') PROVE j \in 1..Len(posts) \/ j = Len(posts) + 1
    BY <1>2, <2>1
  <2> QED
    BY <1>4, <2>1, <2>2 DEF PostsMade
<1>5. ASSUME NEW data \in Data, Part(data) PROVE PostsMade'
  <2>1. data \in Seq(Nat) /\ Len(data) \in Nat
    BY DataAssumption
  <2>2. PICK last : last = IF IsLast(data) THEN <<crc'>> ELSE <<>>
    OBVIOUS
  <2>3. PICK p : p = [part |-> part', total |-> parts, begin |-> pos + 1, end |-> pos',
                      size |-> Len(data), pcrc32 |-> data, crc32 |-> last]
    OBVIOUS
  <2>4. /\ posts' = Append(posts, p) /\ part' = part + 1 /\ part + 1 <= parts
        /\ pos' = pos + Len(data) /\ crc' = crc \o data
    BY <1>5, <2>2, <2>3 DEF Part, Posted, Called
  <2>5. /\ last = <<>> \/ \E x : last = <<x>>
        /\ last \in Seq(Seq(Nat))
    <3>1. crc' \in Seq(Nat)
      BY <1>1, <2>1, <2>4 DEF Typed
    <3> QED
      BY <2>2, <3>1
  <2>6. p \in Post
    BY <1>1, <2>1, <2>3, <2>4, <2>5 DEF Typed, Post
  <2>7. 1 <= p.part /\ p.part <= p.total /\ p.size = Len(p.pcrc32) /\ p.crc32 = last
    BY <1>2, <2>3, <2>4
  <2> QED
    BY <1>4, <2>4, <2>5, <2>6, <2>7
<1>6. ASSUME NEW data \in Data, Single(data) PROVE PostsMade'
  <2>1. data \in Seq(Nat) /\ Len(data) \in Nat
    BY DataAssumption
  <2>2. PICK p : p = [part |-> 1, total |-> 1, begin |-> 1, end |-> Len(data),
                      size |-> Len(data), pcrc32 |-> data, crc32 |-> <<data>>]
    OBVIOUS
  <2>3. posts' = Append(posts, p)
    BY <1>6, <2>2 DEF Single, Posted, Called
  <2>4. p \in Post /\ 1 <= p.part /\ p.part <= p.total /\ p.size = Len(p.pcrc32) /\ p.crc32 = <<data>>
    BY <2>1, <2>2 DEF Post
  <2> QED
    BY <1>4, <2>3, <2>4
<1>7. CASE UNCHANGED vars
  BY <1>3, <1>7 DEF vars
<1>8. ASSUME NEW data \in Data, ExceededSize(data) \/ SizeMismatch(data) \/ SingleMismatch(data)
      PROVE  PostsMade'
  BY <1>3, <1>8 DEF ExceededSize, SizeMismatch, SingleMismatch, Threw
<1>9. CASE ExceededParts \/ singleEncodeError
  BY <1>3, <1>9 DEF ExceededParts, singleEncodeError, Threw
<1> QED
  BY <1>5, <1>6, <1>7, <1>8, <1>9 DEF Next

(* A post begins after the post before it, from byte 1 on.                 *)
LEMMA MadeIsWellMade ==
    ASSUME Inv, PostsMade, NEW j \in 1..Len(posts)
    PROVE  WellMade(posts[j])
<1>1. posts \in Seq(Post) /\ PostsTileFile
  BY DEF Inv, Typed
<1>2. posts[j] \in Post
  BY <1>1
<1>3. 1 <= posts[j].begin
  <2>1. CASE j = 1
    BY <1>1, <2>1 DEF PostsTileFile
  <2>2. CASE j # 1
    <3>1. j - 1 \in 1..Len(posts)
      BY <1>1, <2>2
    <3>2. posts[j - 1].end \in Nat
      <4>1. posts[j - 1] \in Post
        BY <1>1, <3>1
      <4> QED
        BY <4>1 DEF Post
    <3>3. posts[j].begin = posts[j - 1].end + 1
      BY <1>1, <2>2 DEF PostsTileFile
    <3> QED
      BY <3>2, <3>3
  <2> QED
    BY <2>1, <2>2
<1> QED
  BY <1>1, <1>2, <1>3 DEF PostsMade, PostsTileFile, WellMade

(* from_post reads every post the encoder returns without a complaint, and *)
(* gets back the data it was made of, whatever the size of the file, the   *)
(* number of its parts and the calls that threw in between (OwnPostsParse  *)
(* of YEncoder: the length, range, CRC and part number properties multi_   *)
(* post writes are those from_post checks).                                *)
THEOREM PostsAreReadBack == Spec => []OwnPostsParse
<1>1. Init => PostsMade
  <2> SUFFICES ASSUME Init PROVE PostsMade
    OBVIOUS
  <2>1. posts = <<>> /\ Len(posts) = 0
    BY EmptySeq DEF Init
  <2> QED
    BY <2>1 DEF PostsMade
<1>2. Inv /\ PostsMade => OwnPostsParse
  <2> SUFFICES ASSUME Inv, PostsMade, NEW j \in DOMAIN posts PROVE ReadsBack(posts[j])
    BY Zenon DEF OwnPostsParse, ReadsBack, NoError
  <2>1. size \in Nat /\ posts \in Seq(Post)
    BY DEF Inv, Typed
  <2>2. j \in 1..Len(posts)
    BY <2>1
  <2>3. WellMade(posts[j])
    BY <2>2, MadeIsWellMade
  <2>4. posts[j].total > 1 \/ ~(posts[j].total > 1)
    OBVIOUS
  <2> QED
    BY <2>1, <2>3, <2>4, PartReadsBack, SingleReadsBack
<1>3. Inv /\ PostsMade /\ [Next]_vars => PostsMade'
  BY PostsMadeStep
<1>4. Spec => []Inv
  BY Invariance
<1> QED
  BY <1>1, <1>2, <1>3, <1>4, PTL DEF Spec

-----------------------------------------------------------------------------
(* What from_post has read if it returns a post without a warning.         *)

\* What a line says of itself, whatever was read before it.
Says(line, p) == Prop(decoderParseLine(Unread, line).ydata, line.tag, p)

\* None of its fields is no property at all.
AllProps(fields) == \A k \in DOMAIN fields : fields[k].prop # NoName

(* What reading any line adds, and what it leaves as it was.               *)
LEMMA AnyLine ==
    ASSUME NEW read, NEW line, NEW r, r = decoderParseLine(read, line)
    PROVE  /\ DOMAIN r.ydata = DOMAIN read.ydata \union {line.tag}
           /\ \A p : Prop(r.ydata, line.tag, p) = Says(line, p)
           /\ \A t, p : t # line.tag => Prop(r.ydata, t, p) = Prop(read.ydata, t, p)
           /\ r.warnings = {} => /\ read.warnings = {} /\ line.tag \notin DOMAIN read.ydata
                                 /\ AllProps(Fields(line))
<1>1. PICK fields : fields = Fields(line)
  OBVIOUS
<1>2. PICK tag : tag = line.tag
  OBVIOUS
<1> DEFINE Of(p)  == {i \in DOMAIN fields : fields[i].prop = p}
           props  == {fields[i].prop : i \in DOMAIN fields} \ {""}
           yprops == [p \in props |-> fields[Max(Of(p))].val]
<1>3. ASSUME NEW any, NEW x, x = decoderParseLine(any, line)
      PROVE  /\ x.ydata = [t \in DOMAIN any.ydata \union {tag} |-> IF t = tag THEN yprops ELSE any.ydata[t]]
             /\ x.warnings = UNION {any.warnings,
                               When(Of("") # {}, "ignored_line_data"),
                               When(\E p \in props : Cardinality(Of(p)) > 1, "duplicate_property"),
                               When(tag \in DOMAIN any.ydata, "duplicate_line")}
  <2>1. x = ReadWith(fields, any, tag)
    <3>1. decoderParseLine(any, line) = ReadWith(Fields(line), any, line.tag)
      BY DEF decoderParseLine, ReadWith
    <3> QED
      BY <1>1, <1>2, <1>3, <3>1
  <2>2. PICK y :
           y = [t \in DOMAIN any.ydata \union {tag} |-> IF t = tag THEN yprops ELSE any.ydata[t]]
    OBVIOUS
  <2>3. PICK w :
           w = UNION {any.warnings,
                      When(Of("") # {}, "ignored_line_data"),
                      When(\E p \in props : Cardinality(Of(p)) > 1, "duplicate_property"),
                      When(tag \in DOMAIN any.ydata, "duplicate_line")}
    OBVIOUS
  <2>4. ReadWith(fields, any, tag) = [ydata |-> y, warnings |-> w]
    BY <2>2, <2>3 DEF ReadWith
  <2> HIDE DEF Of, props, yprops
  <2>5. x.ydata = y /\ x.warnings = w
    BY <2>1, <2>4
  <2> QED
    BY <2>2, <2>3, <2>5
<1>4. Of("") = {} <=> AllProps(fields)
  BY DEF AllProps, NoName
<1> HIDE DEF Of, props, yprops
<1>5. /\ r.ydata = [t \in DOMAIN read.ydata \union {tag} |-> IF t = tag THEN yprops ELSE read.ydata[t]]
      /\ r.warnings = UNION {read.warnings,
                        When(Of("") # {}, "ignored_line_data"),
                        When(\E p \in props : Cardinality(Of(p)) > 1, "duplicate_property"),
                        When(tag \in DOMAIN read.ydata, "duplicate_line")}
  BY <1>3
<1>6. PICK own : own = decoderParseLine(Unread, line)
  OBVIOUS
<1>7. own.ydata = [t \in DOMAIN Unread.ydata \union {tag} |-> IF t = tag THEN yprops ELSE Unread.ydata[t]]
  BY <1>3, <1>6
<1>8. /\ DOMAIN r.ydata = DOMAIN read.ydata \union {tag} /\ r.ydata[tag] = yprops
      /\ \A t \in DOMAIN read.ydata : t # tag => r.ydata[t] = read.ydata[t]
  BY <1>5
<1>9. tag \in DOMAIN own.ydata /\ own.ydata[tag] = yprops
  BY <1>7
<1>10. \A p : Prop(r.ydata, tag, p) = Prop(own.ydata, tag, p)
  BY <1>8, <1>9 DEF Prop
<1>11. \A t, p : t # tag => Prop(r.ydata, t, p) = Prop(read.ydata, t, p)
  BY <1>8 DEF Prop
<1>12. r.warnings = {} => read.warnings = {} /\ tag \notin DOMAIN read.ydata /\ Of("") = {}
  BY <1>5 DEF When
<1> QED
  BY <1>1, <1>2, <1>4, <1>6, <1>8, <1>10, <1>11, <1>12 DEF Says

\* What has been read of these lines says what they say, each of a tag of its own.
Knows(y, lines, n) ==
    /\ DOMAIN y = {lines[m].tag : m \in 1..n}
    /\ \A m \in 1..n : \A p : Prop(y, lines[m].tag, p) = Says(lines[m], p)

(* Header lines read without a warning.                                    *)
LEMMA HeaderSays ==
    ASSUME NEW S, NEW lines \in Seq(S), NEW r, r = decoderParseLines(lines, <<>>), r.warnings = {}
    PROVE  Knows(r.ydata, lines, Len(lines)) /\ \A m \in 1..Len(lines) : AllProps(Fields(lines[m]))
<1>1. PICK g : LineByLine(g, Unread, lines) /\ decoderParseLines(lines, <<>>) = g[Len(lines)]
  BY ParsedLineByLine DEF Unread
<1>2. PICK N : N = Len(lines) /\ N \in Nat
  OBVIOUS
<1> DEFINE Fine(k) == Knows(g[k].ydata, lines, k) /\ \A m \in 1..k : AllProps(Fields(lines[m]))
           S0 == {k \in Nat : k <= N /\ g[k].warnings = {} => Fine(k)}
<1>3. 0 \in S0
  <2>1. g[0] = Unread /\ 1..0 = {}
    BY <1>1 DEF LineByLine
  <2>2. Fine(0)
    BY <2>1, NothingRead DEF Knows
  <2> HIDE DEF Fine
  <2> QED
    BY <2>2
<1>4. ASSUME NEW k \in Nat, k \in S0 PROVE k + 1 \in S0
  <2> HIDE DEF Fine
  <2> SUFFICES ASSUME k + 1 <= N, g[k + 1].warnings = {} PROVE Fine(k + 1)
    OBVIOUS
  <2>1. PICK n : n = k + 1
    OBVIOUS
  <2>2. n \in 1..N /\ n - 1 = k /\ k <= N /\ n \in Nat
    BY <1>2, <2>1
  <2>3. g[n] = decoderParseLine(g[k], lines[n]) /\ g[n].warnings = {}
    BY <1>1, <1>2, <2>1, <2>2 DEF LineByLine
  <2>4. /\ DOMAIN g[n].ydata = DOMAIN g[k].ydata \union {lines[n].tag}
        /\ \A p : Prop(g[n].ydata, lines[n].tag, p) = Says(lines[n], p)
        /\ \A t, p : t # lines[n].tag => Prop(g[n].ydata, t, p) = Prop(g[k].ydata, t, p)
        /\ g[k].warnings = {} /\ lines[n].tag \notin DOMAIN g[k].ydata
        /\ AllProps(Fields(lines[n]))
    BY <2>3, AnyLine
  <2>5. Fine(k)
    BY <1>4, <2>2, <2>4
  <2>6. DOMAIN g[k].ydata = {lines[m].tag : m \in 1..k}
    BY <2>5 DEF Fine, Knows
  <2>7. \A m \in 1..n : m \in 1..k \/ m = n
    BY <2>1
  <2>8. n \in 1..n /\ \A m \in 1..k : m \in 1..n
    BY <2>1, <2>2
  <2>9. DOMAIN g[n].ydata = {lines[m].tag : m \in 1..n}
    BY <2>4, <2>6, <2>7, <2>8
  <2>10. ASSUME NEW m \in 1..n PROVE \A p : Prop(g[n].ydata, lines[m].tag, p) = Says(lines[m], p)
    <3>1. CASE m = n
      BY <2>4, <3>1
    <3>2. CASE m \in 1..k
      <4>1. lines[m].tag # lines[n].tag
        BY <2>4, <2>6, <3>2
      <4>2. \A p : Prop(g[k].ydata, lines[m].tag, p) = Says(lines[m], p)
        BY <2>5, <3>2 DEF Fine, Knows
      <4> QED
        BY <2>4, <4>1, <4>2
    <3> QED
      BY <2>7, <3>1, <3>2
  <2>11. \A m \in 1..n : AllProps(Fields(lines[m]))
    BY <2>4, <2>5, <2>7 DEF Fine
  <2>12. Fine(n)
    BY <2>9, <2>10, <2>11 DEF Fine, Knows
  <2> QED
    BY <2>1, <2>12
<1>5. N \in S0
  <2>1. Nat \subseteq S0
    <3> HIDE DEF S0
    <3> QED
      BY <1>3, <1>4, Induction
  <2> HIDE DEF S0
  <2> QED
    BY <1>2, <2>1
<1>6. Fine(N)
  <2> HIDE DEF Fine
  <2>1. g[N] = r
    BY <1>1, <1>2
  <2> QED
    BY <1>2, <1>5, <2>1
<1>7. g[N] = r
  BY <1>1, <1>2
<1> QED
  BY <1>2, <1>6, <1>7

\* What from_post returns of a post it has nothing to complain of.
Clean(r) == r.error = NoError /\ r.warnings = {}

(* No error has the empty text.                                            *)
LEMMA ErrorsAreErrors ==
    /\ DecoderError("no_start_found").error # NoError /\ DecoderError("no_end_found").error # NoError
    /\ DecoderError("missing_required_properties").error # NoError
  BY Zenon DEF DecoderError, NoError

(* What Parsed has found if that is so.                                    *)
LEMMA CleanParsed ==
    ASSUME NEW read, NEW r, \E data, further : r = Parsed(read, data, further), Clean(r)
    PROVE  r.props = read.ydata /\ read.warnings = {} /\ Warnings(r.props, r.data) = {}
<1>0. PICK data, further : r = Parsed(read, data, further)
  OBVIOUS
<1>1. ~MissingRequired(read.ydata)
  BY <1>0, ErrorsAreErrors DEF Parsed, Clean
<1>2. r.props = read.ydata
  BY <1>0, <1>1, Zenon DEF Parsed
<1>3. r.data = data /\ r.warnings = UNION {read.warnings, further, Warnings(read.ydata, data)}
  BY <1>0, <1>1, ParsedWhole
<1>4. read.warnings = {} /\ Warnings(read.ydata, data) = {}
  BY <1>3 DEF Clean
<1> QED
  BY <1>2, <1>3, <1>4

-----------------------------------------------------------------------------
\* What was found in the lines of a text up to h, the header, and in line e, the =yend.
Found(u, h, e, r) ==
    /\ h <= e /\ Tagged(u[e], "end")
    /\ DOMAIN r.props = {u[m].tag : m \in 1..h} \union {u[e].tag}
    /\ \A m \in 1..h : \A p : Prop(r.props, u[m].tag, p) = Says(u[m], p)
    /\ \A p : Prop(r.props, u[e].tag, p) = Says(u[e], p)

\* And there was nothing to complain of.
Takes(u, h, e, r) ==
    /\ Found(u, h, e, r)
    /\ \A m \in 1..h : AllProps(Fields(u[m]))
    /\ Warnings(r.props, r.data) = {}

(* A part of a text, line by line.                                         *)
LEMMA FrontIs ==
    ASSUME NEW S, NEW u \in Seq(S), NEW h \in 1..Len(u)
    PROVE  /\ SubSeq(u, 1, h) \in Seq(S) /\ Len(SubSeq(u, 1, h)) = h
           /\ \A m \in 1..h : SubSeq(u, 1, h)[m] = u[m]
  OBVIOUS

(* There is a least number.                                                *)
LEMMA MinExists == ASSUME NEW S \in SUBSET Nat, S # {} PROVE Min(S) \in S /\ \A y \in S : Min(S) <= y
  BY LeastNumber DEF Min

(* A greatest one, of numbers that have a bound.                           *)
LEMMA MaxExists ==
    ASSUME NEW S \in SUBSET Nat, S # {}, NEW N \in Nat, \A y \in S : y <= N
    PROVE  Max(S) \in S /\ \A y \in S : y <= Max(S)
<1>1. PICK T : T = {k \in Nat : N - k \in S}
  OBVIOUS
<1>2. T \in SUBSET Nat /\ T # {}
  <2>1. PICK y \in S : TRUE
    OBVIOUS
  <2>2. N - y \in T
    BY <1>1, <2>1
  <2> QED
    BY <1>1, <2>2
<1>3. PICK k \in T : \A l \in T : k <= l
  BY <1>2, LeastNumber
<1>4. N - k \in S /\ \A y \in S : y <= N - k
  <2>1. \A y \in S : N - y \in T
    BY <1>1
  <2> QED
    BY <1>1, <1>3, <2>1
<1>5. PICK x : x = N - k
  OBVIOUS
<1>6. S \in SUBSET Int /\ x \in S /\ \A y \in S : x >= y
  BY <1>4, <1>5
<1>7. Max(S) = x
  BY <1>6, MaxOf
<1> QED
  BY <1>6, <1>7

(* Of the lines read without a complaint, each of the header lines says    *)
(* what its properties are, and so does an =yend line.                     *)
LEMMA CleanRead ==
    ASSUME NEW S, NEW u \in Seq(S), u # <<>>, Tagged(u[1], "begin"), NEW r, r = Read(u), Clean(r)
    PROVE  \E h \in 1..Len(u), e \in 1..Len(u) : Takes(u, h, e, r)
<1>1. PICK N : N = Len(u) /\ N \in Nat /\ DOMAIN u = 1..N
  OBVIOUS
<1>2. 1 \in 1..N /\ N \in 1..N
  BY <1>1
<1>3. PICK article : article = [lines |-> u, ended |-> TRUE]
  OBVIOUS
<1>4. article.lines = u /\ article.ended = TRUE /\ r = from_post(article)
  BY <1>3 DEF Read
<1>5. PICK starts : starts = {i \in DOMAIN u : Tagged(u[i], "begin")}
  OBVIOUS
<1>6. Min(starts) = 1 /\ starts # {}
  <2>1. starts \in SUBSET Int /\ 1 \in starts /\ \A y \in starts : 1 <= y
    BY <1>1, <1>2, <1>5
  <2> QED
    BY <2>1, MinOf
<1>7. PICK heads : heads = {i \in 1..N : Tagged(u[i], "end") \/ i = N \/ Tagged(u[i + 1], NoTag)}
  OBVIOUS
<1>8. PICK h : h = Min(heads)
  OBVIOUS
<1>10. h \in 1..N
  <2>1. heads \in SUBSET Nat /\ N \in heads
    BY <1>1, <1>2, <1>7
  <2>2. Min(heads) \in heads
    BY <2>1, MinExists
  <2> QED
    BY <1>7, <1>8, <2>2
<1>11. PICK ends : ends = {i \in (h + 2)..N : Tagged(u[i], "end")}
  OBVIOUS
<1>12. PICK e : e = Max(ends)
  OBVIOUS
<1>13. r = FromEnd(article, starts, 1, h, ends, e)
  <2>1. r = FromStart(article, starts, Min(starts))
    BY <1>4, <1>5 DEF from_post, FromStart, FromHead, FromEnd, Tagged, NoTag
  <2>2. r = FromHead(article, starts, 1, Min({i \in 1..Len(article.lines) :
                        \/ Tagged(article.lines[i], "end") \/ i = Len(article.lines)
                        \/ Tagged(article.lines[i + 1], NoTag)}))
    BY <1>6, <2>1 DEF FromStart
  <2>3. {i \in 1..Len(article.lines) :
                        \/ Tagged(article.lines[i], "end") \/ i = Len(article.lines)
                        \/ Tagged(article.lines[i + 1], NoTag)} = heads
    BY <1>1, <1>4, <1>7
  <2>4. r = FromHead(article, starts, 1, h)
    BY <1>8, <2>2, <2>3
  <2> QED
    BY <1>1, <1>4, <1>11, <1>12, <2>4 DEF FromHead
<1>14. PICK read : read = decoderParseLines(SubSeq(u, 1, h), <<>>)
  OBVIOUS
<1>15. ASSUME read.warnings = {}
       PROVE  /\ DOMAIN read.ydata = {u[m].tag : m \in 1..h}
              /\ \A m \in 1..h : \A p : Prop(read.ydata, u[m].tag, p) = Says(u[m], p)
              /\ \A m \in 1..h : AllProps(Fields(u[m]))
  <2>1. PICK front : front = SubSeq(u, 1, h)
    OBVIOUS
  <2>2. front \in Seq(S) /\ Len(front) = h /\ \A m \in 1..h : front[m] = u[m]
    BY <1>1, <1>10, <2>1, FrontIs
  <2>3. Knows(read.ydata, front, h) /\ \A m \in 1..h : AllProps(Fields(front[m]))
    BY <1>14, <1>15, <2>1, <2>2, HeaderSays
  <2> QED
    BY <2>2, <2>3 DEF Knows
<1>16. CASE Tagged(u[h], "end")
  <2>1. r = Parsed(read, <<>>, {})
    BY <1>4, <1>6, <1>13, <1>14, <1>16, ErrorsAreErrors DEF FromEnd, Clean
  <2>2. \E data, further : r = Parsed(read, data, further)
    BY <2>1, Zenon
  <2>3. /\ r.props = read.ydata /\ read.warnings = {}
        /\ Warnings(r.props, r.data) = {}
    BY <2>2, CleanParsed
  <2>4. h \in 1..h /\ h <= h
    BY <1>10
  <2>5. Takes(u, h, h, r)
    BY <1>10, <1>15, <1>16, <2>3, <2>4 DEF Takes, Found
  <2> QED
    BY <1>1, <1>10, <2>5
<1>17. CASE ~Tagged(u[h], "end")
  <2>1. PICK last : last = decoderParseLines(<<u[e]>>, read.ydata)
    OBVIOUS
  <2>2. PICK both : both = [last EXCEPT !.warnings = @ \union read.warnings]
    OBVIOUS
  <2>3. ends # {}
    BY <1>4, <1>6, <1>13, <1>14, <1>17, ErrorsAreErrors DEF FromEnd, Clean
  <2>4. \E data, further : r = Parsed(both, data, further)
    BY <1>4, <1>6, <1>13, <1>14, <1>17, <2>1, <2>2, <2>3, ErrorsAreErrors DEF FromEnd, Clean
  <2>6. /\ r.props = both.ydata /\ both.warnings = {}
        /\ Warnings(r.props, r.data) = {}
    BY <2>4, CleanParsed
  <2>7. last = decoderParseLine(Again(read), u[e])
    BY <2>1, OneLine DEF Again
  <2>8. both.ydata = last.ydata /\ last.warnings = {} /\ read.warnings = {}
    <3>1. both.ydata = last.ydata /\ both.warnings = last.warnings \union read.warnings
      BY <2>2, <2>7, LineIsRecord
    <3> QED
      BY <2>6, <3>1
  <2>9. /\ DOMAIN last.ydata = DOMAIN read.ydata \union {u[e].tag}
        /\ \A p : Prop(last.ydata, u[e].tag, p) = Says(u[e], p)
        /\ \A t, p : t # u[e].tag => Prop(last.ydata, t, p) = Prop(read.ydata, t, p)
        /\ u[e].tag \notin DOMAIN read.ydata
    BY <2>7, <2>8, AnyLine, AgainIs
  <2>10. e \in ends /\ \A y \in ends : y <= e
    <3>1. ends \in SUBSET Nat /\ \A y \in ends : y <= N
      BY <1>1, <1>10, <1>11
    <3>2. Max(ends) \in ends /\ \A y \in ends : y <= Max(ends)
      BY <1>1, <2>3, <3>1, MaxExists
    <3> QED
      BY <1>12, <3>2
  <2>11. e \in 1..N /\ Tagged(u[e], "end") /\ e >= h + 2
    BY <1>1, <1>10, <1>11, <2>10
  <2>13. h <= e
    BY <1>1, <1>10, <2>11
  <2>14. \A m \in 1..h : u[m].tag # u[e].tag
    BY <1>15, <2>8, <2>9
  <2>15. \A m \in 1..h : \A p : Prop(last.ydata, u[m].tag, p) = Says(u[m], p)
    BY <1>15, <2>8, <2>9, <2>14
  <2>16. Takes(u, h, e, r)
    BY <1>10, <1>15, <2>6, <2>8, <2>9, <2>11, <2>13, <2>15 DEF Takes, Found
  <2> QED
    BY <1>1, <1>10, <2>11, <2>16
<1> QED
  BY <1>16, <1>17

(* A text without an =ybegin line is no post.                              *)
LEMMA NoBegin ==
    ASSUME NEW u, \A i \in DOMAIN u : ~Tagged(u[i], "begin"), NEW r, r = Read(u)
    PROVE  r.error # NoError
<1>1. PICK article : article = [lines |-> u, ended |-> TRUE]
  OBVIOUS
<1>2. article.lines = u /\ r = from_post(article)
  BY <1>1 DEF Read
<1>3. PICK starts : starts = {i \in DOMAIN u : Tagged(u[i], "begin")}
  OBVIOUS
<1>4. starts = {}
  BY <1>3
<1>5. r = FromStart(article, starts, Min(starts))
  BY <1>2, <1>3 DEF from_post, FromStart, FromHead, FromEnd, Tagged, NoTag
<1>6. PICK error : error = DecoderError("no_start_found")
  OBVIOUS
<1>7. r = error
  BY <1>4, <1>5, <1>6 DEF FromStart, FromHead, FromEnd
<1> QED
  BY <1>6, <1>7, ErrorsAreErrors

-----------------------------------------------------------------------------
\* Header lines, lines of data and an =yend line, put together.
TextIs(u, head, data, end) == u = head \o Body(data) \o <<end>>

LaidOut(u, head, end) ==
    /\ Len(u) \in Nat /\ Len(u) > Len(head) + 1
    /\ \A j \in 1..Len(head) : u[j] = head[j]
    /\ \A j \in 1..Len(u) : j > Len(head) /\ j < Len(u) => u[j] \in Contents
    /\ u[Len(u)] = end

(* Such a text, line by line.                                              *)
LEMMA LinesOf ==
    ASSUME NEW data \in Seq(Nat), NEW L, NEW head \in Seq(L), NEW end \in L,
           NEW u, TextIs(u, head, data, end)
    PROVE  u \in Seq(L \union Contents) /\ LaidOut(u, head, end)
<1>1. PICK S, h, body, m : /\ S = L \union Contents /\ h = Len(head) /\ body = Body(data)
                           /\ m = Len(body)
  OBVIOUS
<1>2. body \in Seq(Contents) /\ m \in Nat \ {0}
  BY <1>1, BodyFacts
<1>0. PICK last : last = <<end>>
  OBVIOUS
<1>3. head \in Seq(S) /\ body \in Seq(S) /\ last \in Seq(S) /\ Len(last) = 1 /\ last[1] = end
  BY <1>0, <1>1, <1>2
<1>4. PICK front : front = head \o body
  OBVIOUS
<1>5. /\ front \in Seq(S) /\ Len(front) = h + m
      /\ \A j \in 1..h : front[j] = head[j]
      /\ \A j \in 1..m : front[h + j] = body[j]
  <2>1. /\ head \o body \in Seq(S) /\ Len(head \o body) = Len(head) + Len(body)
        /\ \A j \in 1..Len(head) : (head \o body)[j] = head[j]
        /\ \A j \in 1..Len(body) : (head \o body)[Len(head) + j] = body[j]
    BY <1>3, ConcatProperties
  <2> QED
    BY <1>1, <1>4, <2>1
<1>6. u = front \o last /\ h \in Nat
  BY <1>0, <1>1, <1>4 DEF TextIs
<1>7. /\ u \in Seq(S) /\ Len(u) = h + m + 1
      /\ \A j \in 1..(h + m) : u[j] = front[j]
      /\ u[h + m + 1] = end
  <2>1. /\ u \in Seq(S) /\ Len(u) = Len(front) + Len(last)
        /\ \A j \in 1..Len(front) : u[j] = front[j]
        /\ \A j \in 1..Len(last) : u[Len(front) + j] = last[j]
    <3>0. front \in Seq(S) /\ last \in Seq(S)
      BY <1>3, <1>5
    <3>1. /\ front \o last \in Seq(S) /\ Len(front \o last) = Len(front) + Len(last)
          /\ \A j \in 1..Len(front) : (front \o last)[j] = front[j]
          /\ \A j \in 1..Len(last) : (front \o last)[Len(front) + j] = last[j]
      BY <3>0, ConcatProperties
    <3> QED
      BY <1>6, <3>1, Zenon
  <2>2. 1 \in 1..Len(last) /\ Len(front) = h + m /\ Len(last) = 1
    BY <1>3, <1>5
  <2>3. u[h + m + 1] = end
    <3>1. u[Len(front) + 1] = last[1]
      BY <2>1, <2>2
    <3> QED
      BY <1>3, <2>2, <3>1
  <2> QED
    BY <2>1, <2>2, <2>3
<1>8. ASSUME NEW j \in 1..Len(u), j > h, j < Len(u) PROVE u[j] \in Contents
  <2>1. j - h \in 1..m /\ h + (j - h) = j /\ j \in 1..(h + m)
    BY <1>2, <1>6, <1>7, <1>8
  <2>2. u[j] = body[j - h]
    BY <1>5, <1>7, <2>1
  <2>3. PICK k \in 1..m : k = j - h
    BY <2>1
  <2>4. body[k] \in Contents
    <3>1. k \in 1..Len(body) /\ body \in Seq(Contents)
      BY <1>1, <1>2
    <3> QED
      BY <3>1
  <2> QED
    BY <2>2, <2>3, <2>4
<1>9. Len(u) \in Nat /\ Len(u) > h + 1
  BY <1>2, <1>6, <1>7
<1>10. \A j \in 1..h : u[j] = head[j]
  BY <1>2, <1>5, <1>6, <1>7
<1> QED
  BY <1>1, <1>7, <1>8, <1>9, <1>10 DEF LaidOut

\* What has been read of header lines of different tags.
Header(read, head) ==
    /\ Knows(read.ydata, head, Len(head))
    /\ read.warnings = {} => \A m \in 1..Len(head) : AllProps(Fields(head[m]))

(* One or two header lines, whatever they say.                             *)
LEMMA HeaderRead ==
    ASSUME NEW L, NEW head \in Seq(L), Len(head) = 1 \/ Len(head) = 2,
           Len(head) = 2 => head[2].tag # head[1].tag,
           NEW read, read = decoderParseLines(head, <<>>)
    PROVE  Header(read, head)
<1>1. PICK a : a = head[1]
  OBVIOUS
<1>2. PICK one : one = decoderParseLine(Unread, a)
  OBVIOUS
<1>3. /\ DOMAIN one.ydata = {a.tag} /\ \A p : Prop(one.ydata, a.tag, p) = Says(a, p)
      /\ one.warnings = {} => AllProps(Fields(a))
  BY <1>2, AnyLine, NothingRead
<1>4. CASE Len(head) = 1
  <2>1. head = <<a>>
    BY <1>1, <1>4
  <2>2. read = one
    BY <1>2, <2>1, OneLine DEF Unread
  <2>3. \A m \in 1..1 : m = 1
    OBVIOUS
  <2> QED
    BY <1>1, <1>3, <1>4, <2>2, <2>3 DEF Header, Knows
<1>5. CASE Len(head) = 2
  <2>1. PICK b : b = head[2]
    OBVIOUS
  <2>2. head = <<a, b>> /\ b.tag # a.tag
    BY <1>1, <1>5, <2>1
  <2>3. read = decoderParseLine(one, b)
    BY <1>2, <2>2, TwoLines DEF Unread
  <2>0. /\ DOMAIN read.ydata = DOMAIN one.ydata \union {b.tag}
        /\ \A p : Prop(read.ydata, b.tag, p) = Says(b, p)
        /\ \A t, p : t # b.tag => Prop(read.ydata, t, p) = Prop(one.ydata, t, p)
        /\ read.warnings = {} => one.warnings = {} /\ AllProps(Fields(b))
    BY <2>3, AnyLine
  <2>4. /\ DOMAIN read.ydata = {a.tag, b.tag} /\ \A p : Prop(read.ydata, b.tag, p) = Says(b, p)
        /\ \A p : Prop(read.ydata, a.tag, p) = Says(a, p)
        /\ read.warnings = {} => AllProps(Fields(a)) /\ AllProps(Fields(b))
    BY <1>3, <2>0, <2>2
  <2>5. \A m \in 1..2 : m = 1 \/ m = 2
    OBVIOUS
  <2>6. 1 \in 1..2 /\ 2 \in 1..2
    OBVIOUS
  <2>7. DOMAIN read.ydata = {head[m].tag : m \in 1..2}
    BY <1>1, <2>1, <2>4, <2>5, <2>6
  <2> QED
    BY <1>1, <1>5, <2>1, <2>4, <2>5, <2>7 DEF Header, Knows
<1> QED
  BY <1>4, <1>5

(* What Parsed returns, if it does.                                        *)
LEMMA ReturnedParsed ==
    ASSUME NEW read, NEW data, NEW r, r = Parsed(read, data, {}), r.error = NoError
    PROVE  /\ r.props = read.ydata /\ r.data = data
           /\ r.warnings = {} => read.warnings = {} /\ Warnings(r.props, r.data) = {}
<1>1. ~MissingRequired(read.ydata)
  BY ErrorsAreErrors DEF Parsed
<1>2. r.props = read.ydata
  BY <1>1, Zenon DEF Parsed
<1>3. PICK none : none = {}
  OBVIOUS
<1>4. r.data = data /\ r.warnings = UNION {read.warnings, none, Warnings(read.ydata, data)}
  BY <1>1, <1>3, ParsedWhole
<1> QED
  BY <1>2, <1>4

\* The lines before the data.
Heads(head) == /\ Len(head) = 1 \/ Len(head) = 2
               /\ Tagged(head[1], "begin")
               /\ Len(head) = 2 => Tagged(head[2], "part")

(* from_post gets the data of such a text and what its lines say.          *)
LEMMA WholeText ==
    ASSUME NEW data \in Seq(Nat), NEW L, NEW head \in Seq(L), NEW end \in L,
           Heads(head), Tagged(end, "end"), NEW u, TextIs(u, head, data, end), NEW r, r = Read(u), r.error = NoError
    PROVE  /\ r.data = data /\ Found(u, Len(head), Len(u), r)
           /\ Clean(r) => Takes(u, Len(head), Len(u), r)
<1>0. PICK h : h = Len(head)
  OBVIOUS
<1>1. h = Len(head) /\ h \in {1, 2} /\ h \in Nat
  BY <1>0 DEF Heads
<1>2. /\ Len(u) \in Nat /\ Len(u) > h + 1 /\ u[Len(u)] = end
      /\ \A j \in 1..h : u[j] = head[j]
  <2>1. /\ Len(u) \in Nat /\ Len(u) > Len(head) + 1 /\ u[Len(u)] = end
        /\ \A j \in 1..Len(head) : u[j] = head[j]
    <3>1. LaidOut(u, head, end)
      BY LinesOf
    <3> QED
      BY <3>1 DEF LaidOut
  <2> QED
    BY <1>0, <2>1, Zenon
<1>3. PICK read : read = decoderParseLines(head, <<>>)
  OBVIOUS
<1>4. PICK last : last = decoderParseLines(<<end>>, read.ydata)
  OBVIOUS
<1>5. PICK both : both = [last EXCEPT !.warnings = @ \union read.warnings]
  OBVIOUS
<1>6. r = Parsed(both, data, {})
  <2>1. Read(head \o Body(data) \o <<end>>) = Parsed([last EXCEPT !.warnings = @ \union read.warnings], data, {})
    BY <1>3, <1>4, ReadOfLines DEF Heads
  <2> QED
    BY <1>5, <2>1 DEF TextIs
<1>7. /\ r.props = both.ydata /\ r.data = data
      /\ r.warnings = {} => both.warnings = {} /\ Warnings(r.props, r.data) = {}
  BY <1>6, ReturnedParsed
<1>8. last = decoderParseLine(Again(read), end)
  BY <1>4, OneLine DEF Again
<1>9. both.ydata = last.ydata /\ both.warnings = last.warnings \union read.warnings
  BY <1>5, <1>8, LineIsRecord
<1>10. Header(read, head)
  <2>1. h = 2 => head[2].tag # head[1].tag
    BY <1>1 DEF Tagged, Heads
  <2> QED
    BY <1>1, <1>3, <2>1, HeaderRead
<1>11. /\ DOMAIN last.ydata = DOMAIN read.ydata \union {end.tag}
       /\ \A p : Prop(last.ydata, end.tag, p) = Says(end, p)
       /\ \A t, p : t # end.tag => Prop(last.ydata, t, p) = Prop(read.ydata, t, p)
  BY <1>8, AnyLine, AgainIs
<1>12. \A m \in 1..h : head[m].tag # end.tag
  <2>1. \A m \in 1..h : m = 1 \/ (h = 2 /\ m = 2)
    BY <1>1
  <2> QED
    BY <1>1, <2>1 DEF Tagged, Heads
<1>13. /\ DOMAIN read.ydata = {u[m].tag : m \in 1..h}
       /\ \A m \in 1..h : \A p : Prop(read.ydata, u[m].tag, p) = Says(u[m], p)
       /\ read.warnings = {} => \A m \in 1..h : AllProps(Fields(u[m]))
  <2>1. /\ Knows(read.ydata, head, h)
        /\ read.warnings = {} => \A m \in 1..h : AllProps(Fields(head[m]))
    BY <1>0, <1>10 DEF Header
  <2>2. {head[m].tag : m \in 1..h} = {u[m].tag : m \in 1..h}
    BY <1>2
  <2> QED
    BY <1>2, <2>1, <2>2 DEF Knows
<1>14. \A m \in 1..h : \A p : Prop(r.props, u[m].tag, p) = Says(u[m], p)
  BY <1>2, <1>7, <1>9, <1>11, <1>12, <1>13
<1>15. Found(u, h, Len(u), r)
  BY <1>1, <1>2, <1>7, <1>9, <1>11, <1>13, <1>14 DEF Found
<1>16. Clean(r) => Takes(u, h, Len(u), r)
  BY <1>7, <1>9, <1>13, <1>15 DEF Takes, Clean
<1> QED
  BY <1>0, <1>7, <1>15, <1>16, Zenon

-----------------------------------------------------------------------------
(* The number of a post.                                                   *)
LEMMA PartIsNat == ASSUME posts \in Seq(Post), NEW i \in 1..Len(posts) PROVE posts[i].part \in Nat
<1>1. posts[i] \in Post
  OBVIOUS
<1> QED
  BY <1>1 DEF Post

\* The posts are told apart by their part numbers, unless there is but one.
Numbered ==
    /\ encode = "multi" => /\ parts > 1
                           /\ \A i \in 1..Len(posts) : posts[i].total > 1 /\ posts[i].part <= part
                           /\ \A i, j \in 1..Len(posts) : i < j => posts[i].part < posts[j].part
    /\ encode = "singleEncodeError" => Len(posts) = 1

(* A call that throws numbers no post, though it may count a part.         *)
LEMMA ThrewNumbered ==
    ASSUME Inv, Numbered, UNCHANGED <<parts, encode, posts>>, part' \in {part, part + 1}
    PROVE  Numbered'
<1>1. part \in Nat /\ posts \in Seq(Post)
  BY DEF Inv, Typed
<1>2. \A i \in 1..Len(posts) : posts[i].part \in Nat
  BY <1>1, PartIsNat
<1> QED
  BY <1>1, <1>2 DEF Numbered

(* A part has a number above those before it.                              *)
LEMMA PartNumbered == ASSUME Inv, Numbered, NEW data \in Data, Part(data) PROVE Numbered'
<1>1. part \in Nat /\ parts \in Nat /\ posts \in Seq(Post) /\ Len(posts) \in Nat
  BY DEF Inv, Typed
<1>2. PICK p : p = [part |-> part', total |-> parts, begin |-> pos + 1, end |-> pos',
                    size |-> Len(data), pcrc32 |-> data,
                    crc32 |-> IF IsLast(data) THEN <<crc'>> ELSE <<>>]
  OBVIOUS
<1>3. /\ posts' = Append(posts, p) /\ part' = part + 1 /\ encode = "multi"
      /\ encode' = encode /\ parts' = parts
  BY <1>2 DEF Part, Posted, Called
<1>4. p.part = part' /\ p.total = parts
  BY <1>2
<1>5. PICK n : n = Len(posts) /\ n \in Nat
  BY <1>1
<1>6. /\ Len(posts') = n + 1 /\ posts'[n + 1] = p
      /\ \A j \in 1..n : posts'[j] = posts[j]
  BY <1>1, <1>3, <1>5, AppendProperties
<1>7. /\ parts > 1
      /\ \A i \in 1..n : posts[i].total > 1 /\ posts[i].part <= part /\ posts[i].part \in Nat
      /\ \A i, j \in 1..n : i < j => posts[i].part < posts[j].part
  <2>1. \A i \in 1..n : posts[i].part \in Nat
    BY <1>1, <1>5, PartIsNat
  <2> QED
    BY <1>1, <1>3, <1>5, <2>1 DEF Numbered
<1>8. \A i \in 1..(n + 1) : i \in 1..n \/ i = n + 1
  BY <1>5
<1>9. \A i \in 1..(n + 1) : posts'[i].total > 1 /\ posts'[i].part <= part'
  BY <1>1, <1>3, <1>4, <1>6, <1>7, <1>8
<1>10. ASSUME NEW i \in 1..(n + 1), NEW j \in 1..(n + 1), i < j
       PROVE  posts'[i].part < posts'[j].part
  <2>1. i \in 1..n /\ posts'[i].part <= part
    BY <1>5, <1>6, <1>7, <1>10
  <2>2. CASE j \in 1..n
    BY <1>6, <1>7, <1>10, <2>1, <2>2
  <2>3. CASE j = n + 1
    BY <1>1, <1>3, <1>4, <1>6, <1>7, <2>1, <2>3
  <2> QED
    BY <1>8, <2>2, <2>3
<1> QED
  BY <1>3, <1>6, <1>7, <1>9, <1>10 DEF Numbered

(* Every call keeps it.                                                    *)
LEMMA NumberedStep == ASSUME Inv, Numbered, [Next]_vars PROVE Numbered'
<1>1. CASE ExceededParts
  BY <1>1, ThrewNumbered DEF ExceededParts, Threw, Called
<1>2. CASE singleEncodeError
  BY <1>2, ThrewNumbered DEF singleEncodeError, Threw, Called
<1>3. ASSUME NEW data \in Data, ExceededSize(data) PROVE Numbered'
  BY <1>3, ThrewNumbered DEF ExceededSize, Threw, Called
<1>4. ASSUME NEW data \in Data, SizeMismatch(data) PROVE Numbered'
  BY <1>4, ThrewNumbered DEF SizeMismatch, Threw, Called
<1>5. ASSUME NEW data \in Data, SingleMismatch(data) PROVE Numbered'
  BY <1>5, ThrewNumbered DEF SingleMismatch, Threw, Called
<1>6. ASSUME NEW data \in Data, Single(data) PROVE Numbered'
  <2>1. PICK p : p = [part |-> 1, total |-> 1, begin |-> 1, end |-> Len(data),
                      size |-> Len(data), pcrc32 |-> data, crc32 |-> <<data>>]
    OBVIOUS
  <2>2. posts' = Append(posts, p) /\ encode = "_encodeSingle" /\ encode' = "singleEncodeError"
    BY <1>6, <2>1 DEF Single, Posted, Called
  <2>3. posts = <<>>
    BY <2>2 DEF Inv, Between
  <2>4. posts' = <<p>>
    BY <2>2, <2>3
  <2> QED
    BY <2>2, <2>4 DEF Numbered
<1>7. CASE UNCHANGED vars
  BY <1>7, ThrewNumbered DEF vars
<1> QED
  BY <1>1, <1>2, <1>3, <1>4, <1>5, <1>6, <1>7, PartNumbered DEF Next

(* Two posts are one, or are parts with numbers of their own.              *)
LEMMA ToldApart ==
    ASSUME Inv, Numbered, NEW i \in 1..Len(posts), NEW j \in 1..Len(posts)
    PROVE  \/ i = j
           \/ posts[i].total > 1 /\ posts[j].total > 1 /\ posts[i].part # posts[j].part
<1>1. /\ encode \in {"multi", "_encodeSingle", "singleEncodeError"} /\ posts \in Seq(Post)
      /\ encode = "_encodeSingle" => posts = <<>>
  BY DEF Inv, Typed, Between
<1>2. Len(posts) \in Nat /\ posts[i].part \in Nat /\ posts[j].part \in Nat
  BY <1>1, PartIsNat
<1>3. CASE encode = "multi"
  <2>1. i < j \/ j < i \/ i = j
    BY <1>2
  <2> QED
    BY <1>2, <1>3, <2>1 DEF Numbered
<1>4. CASE encode = "singleEncodeError"
  <2>1. Len(posts) = 1
    BY <1>4 DEF Numbered
  <2>2. i \in 1..1 /\ j \in 1..1
    BY <2>1
  <2> QED
    BY <2>2
<1>5. CASE encode = "_encodeSingle"
  <2>1. Len(posts) = 0
    BY <1>1, <1>5
  <2> QED
    BY <2>1
<1> QED
  BY <1>1, <1>3, <1>4, <1>5

-----------------------------------------------------------------------------
(* The place in the file and the data a reader is told.                    *)

\* What a post is to be read as.
As(post) == [data |-> post.pcrc32,
             begin |-> IF post.total > 1 THEN Number(post.begin) ELSE Absent,
             end   |-> IF post.total > 1 THEN Number(post.end) ELSE Absent]

(* Several parts: the pcrc32 vouches for the data, and the range must be   *)
(* there, on a =ypart line.                                                *)
LEMMA PartOfSeveral ==
    ASSUME NEW post, post.total \in Nat, post.total > 1, NEW r, NEW data, data = r.data,
           NEW y, y = r.props, Warnings(y, data) = {},
           Prop(y, "begin", "total") = Number(post.total),
           Prop(y, "end", "pcrc32") = Crc(post.pcrc32),
           "part" \in DOMAIN y => /\ Prop(y, "part", "begin") = Number(post.begin)
                                  /\ Prop(y, "part", "end") = Number(post.end)
    PROVE  ReadAs(r) = As(post)
<1>1. RangeWarnings(y) = {} /\ CrcWarnings(y, data) = {}
  BY DEF Warnings
<1>2. PICK b : b = Prop(y, "part", "begin")
  OBVIOUS
<1>3. PICK e : e = Prop(y, "part", "end")
  OBVIOUS
<1>4. Given(b) /\ Given(e)
  <2>1. Over(Prop(y, "begin", "total"), Number(1))
    <3>1. Over(Number(post.total), Number(1))
      BY Values
    <3> QED
      BY <3>1
  <2>2. PICK Multi : Multi = (\E v \in {Prop(y, "begin", "total"), Prop(y, "begin", "part"),
                                       Prop(y, "end", "part")} : Over(v, Number(1)))
    OBVIOUS
  <2>3. Multi
    BY <2>1, <2>2
  <2>4. When(Multi, "missing_part_range") # {}
    BY <2>3 DEF When
  <2> QED
    BY <1>1, <1>2, <1>3, <2>2, <2>4 DEF RangeWarnings
<1>5. "part" \in DOMAIN y
  <2>1. b # Absent
    BY <1>4, Values
  <2> QED
    BY <1>2, <2>1 DEF Prop
<1>6. data = post.pcrc32
  <2>1. When(Given(Crc(post.pcrc32)) /\ Crc(post.pcrc32) # Crc(data), "pcrc32_mismatch") = {}
    BY <1>1 DEF CrcWarnings
  <2>2. Crc(post.pcrc32) = Crc(data)
    BY <2>1, Values DEF When
  <2> QED
    BY <2>2 DEF Crc
<1> QED
  BY <1>5, <1>6 DEF ReadAs, As

(* A file in one post: there is no =ypart line, and crc32 vouches for the  *)
(* data.                                                                   *)
LEMMA PartOfOne ==
    ASSUME NEW post, ~(post.total > 1), NEW r, NEW data, data = r.data,
           NEW y, y = r.props, Warnings(y, data) = {},
           Prop(y, "end", "crc32") = Crc(post.pcrc32), "part" \notin DOMAIN y
    PROVE  ReadAs(r) = As(post)
<1>1. CrcWarnings(y, data) = {}
  BY DEF Warnings
<1>2. data = post.pcrc32
  <2>1. When(/\ Given(Crc(post.pcrc32)) /\ "part" \notin DOMAIN y
             /\ Crc(post.pcrc32) # Crc(data), "crc32_mismatch") = {}
    BY <1>1 DEF CrcWarnings
  <2>2. Crc(post.pcrc32) = Crc(data)
    BY <2>1, Values DEF When
  <2> QED
    BY <2>2 DEF Crc
<1> QED
  BY <1>2 DEF ReadAs, As, Prop

\* What the lines of a post say that tell whose they are.
TextOf(post, s) ==
    /\ Len(s) \in Nat /\ Len(s) > 1
    /\ Tagged(s[1], "begin")
    /\ \A m \in 1..Len(s) : /\ Tagged(s[m], "begin") => m = 1
                            /\ Tagged(s[m], "end") => m = Len(s)
                            /\ Tagged(s[m], "part") => /\ post.total > 1
                                                       /\ Says(s[m], "begin") = Number(post.begin)
                                                       /\ Says(s[m], "end") = Number(post.end)
    /\ post.total > 1 => /\ Says(s[1], "part") = Number(post.part)
                         /\ Says(s[1], "total") = Number(post.total)
                         /\ Says(s[Len(s)], "part") = Number(post.part)
                         /\ Says(s[Len(s)], "pcrc32") = Crc(post.pcrc32)
    /\ ~(post.total > 1) => Says(s[Len(s)], "crc32") = Crc(post.pcrc32)

\* The lines of s up to i, then those of t from j on.
SplicedAt(u, s, i, t, j) ==
    /\ Len(u) = i + (Len(t) + 1 - j)
    /\ \A m \in 1..Len(u) : u[m] = IF m <= i THEN s[m] ELSE t[m - i + j - 1]

(* Two pieces, line by line.                                               *)
LEMMA PiecesAre ==
    ASSUME NEW S, NEW s \in Seq(S), NEW t \in Seq(S),
           NEW i \in 0..Len(s), NEW j \in 1..(Len(t) + 1),
           NEW u, u = SubSeq(s, 1, i) \o SubSeq(t, j, Len(t))
    PROVE  u \in Seq(S) /\ SplicedAt(u, s, i, t, j)
<1>1. PICK a : a = SubSeq(s, 1, i)
  OBVIOUS
<1>2. PICK b : b = SubSeq(t, j, Len(t))
  OBVIOUS
<1>3. PICK n : n = Len(t) + 1 - j /\ n \in Nat
  OBVIOUS
<1>4. a \in Seq(S) /\ Len(a) = i /\ \A m \in 1..i : a[m] = s[m]
  BY <1>1
<1>5. b \in Seq(S) /\ Len(b) = n /\ \A m \in 1..n : b[m] = t[m + j - 1]
  BY <1>2, <1>3
<1>6. u = a \o b
  BY <1>1, <1>2
<1>7. /\ u \in Seq(S) /\ Len(u) = Len(a) + Len(b)
      /\ \A m \in 1..(Len(a) + Len(b)) : u[m] = IF m <= Len(a) THEN a[m] ELSE b[m - Len(a)]
  <2>1. a \in Seq(S) /\ b \in Seq(S)
    BY <1>4, <1>5
  <2>2. /\ a \o b \in Seq(S) /\ Len(a \o b) = Len(a) + Len(b)
        /\ \A m \in 1..(Len(a) + Len(b)) : (a \o b)[m] = IF m <= Len(a) THEN a[m] ELSE b[m - Len(a)]
    BY <2>1, ConcatProperties
  <2> QED
    BY <1>6, <2>2
<1>8. ASSUME NEW m \in 1..Len(u) PROVE u[m] = IF m <= i THEN s[m] ELSE t[m - i + j - 1]
  <2>1. i \in Nat /\ j \in Nat /\ m \in Nat /\ m >= 1 /\ m <= i + n
    <3>1. Len(s) \in Nat /\ Len(t) \in Nat
      OBVIOUS
    <3>2. i \in Nat /\ j \in Nat
      BY <3>1
    <3>3. m \in 1..(i + n)
      BY <1>4, <1>5, <1>7
    <3> QED
      BY <1>3, <3>2, <3>3
  <2>2. u[m] = IF m <= i THEN a[m] ELSE b[m - i]
    BY <1>3, <1>4, <1>5, <1>7
  <2>3. CASE m <= i
    BY <1>4, <2>1, <2>2, <2>3
  <2>4. CASE ~(m <= i)
    <3>1. m - i \in 1..n /\ (m - i) + j - 1 = m - i + j - 1
      BY <1>3, <2>1, <2>4
    <3>2. b[m - i] = t[(m - i) + j - 1]
      BY <1>5, <3>1
    <3> QED
      BY <2>2, <2>4, <3>1, <3>2
  <2> QED
    BY <2>3, <2>4
<1> QED
  BY <1>3, <1>4, <1>5, <1>7, <1>8 DEF SplicedAt

\* A reader has the part number of the post whose =ybegin line it was, and all from the lines
\* of the post whose =yend line it was.
ReadFrom(y, p, q) ==
    /\ p.total > 1 => /\ Prop(y, "begin", "part") = Number(p.part)
                      /\ Prop(y, "begin", "total") = Number(p.total)
    /\ q.total > 1 => /\ Prop(y, "end", "part") = Number(q.part)
                      /\ Prop(y, "end", "pcrc32") = Crc(q.pcrc32)
    /\ ~(q.total > 1) => Prop(y, "end", "crc32") = Crc(q.pcrc32)

\* The =ypart lines there are are those of the post.
RangeFrom(y, q) ==
    "part" \in DOMAIN y => /\ q.total > 1
                           /\ Prop(y, "part", "begin") = Number(q.begin)
                           /\ Prop(y, "part", "end") = Number(q.end)

(* The header of one post with the end of another is noticed.              *)
LEMMA SamePart ==
    ASSUME NEW y, NEW data, Warnings(y, data) = {}, NEW p, NEW q, ReadFrom(y, p, q),
           p.total > 1, q.total > 1
    PROVE  p.part = q.part
<1>1. PartWarnings(y) = {}
  BY DEF Warnings
<1>2. PICK b : b = Prop(y, "begin", "part")
  OBVIOUS
<1>3. PICK e : e = Prop(y, "end", "part")
  OBVIOUS
<1>4. b = Number(p.part) /\ e = Number(q.part)
  BY <1>2, <1>3 DEF ReadFrom
<1>5. Given(b) /\ Given(e)
  BY <1>4, Values
<1>6. b = e
  BY <1>1, <1>2, <1>3, <1>5 DEF PartWarnings
<1> QED
  BY <1>4, <1>6, Values

(* What is read without a complaint is read from one post.                 *)
LEMMA ReadFromOne ==
    ASSUME NEW r, Warnings(r.props, r.data) = {}, NEW q, q.total \in Nat,
           ReadFrom(r.props, q, q), RangeFrom(r.props, q)
    PROVE  ReadAs(r) = As(q)
<1>1. PICK y : y = r.props
  OBVIOUS
<1>2. PICK data : data = r.data
  OBVIOUS
<1>3. Warnings(y, data) = {} /\ ReadFrom(y, q, q) /\ RangeFrom(y, q)
  BY <1>1, <1>2
<1>4. CASE q.total > 1
  BY <1>1, <1>2, <1>3, <1>4, PartOfSeveral DEF ReadFrom, RangeFrom
<1>5. CASE ~(q.total > 1)
  BY <1>1, <1>2, <1>3, <1>5, PartOfOne DEF ReadFrom, RangeFrom
<1> QED
  BY <1>4, <1>5

\* Two posts of one file.
Told(p, q) == \/ p = q
              \/ p.total > 1 /\ q.total > 1 /\ p.part # q.part

(* One post going on as another, or the same one, is taken for one that    *)
(* was made if at all.                                                     *)
LEMMA SplicedIsNoticed ==
    ASSUME NEW S, NEW s \in Seq(S), NEW t \in Seq(S), NEW p, NEW q, TextOf(p, s), TextOf(q, t),
           p.total \in Nat, q.total \in Nat, Told(p, q),
           NEW i \in 1..Len(s), NEW j \in 1..(Len(t) + 1),
           NEW u \in Seq(S), SplicedAt(u, s, i, t, j), NEW r, r = Read(u), Clean(r)
    PROVE  ReadAs(r) = As(p) \/ ReadAs(r) = As(q)
<1>1. /\ Len(s) \in Nat /\ Len(t) \in Nat /\ Len(u) \in Nat /\ Len(u) >= 1 /\ u # <<>>
      /\ i \in Nat /\ j \in Nat
  BY DEF SplicedAt
<1>2. u[1] = s[1] /\ Tagged(u[1], "begin") /\ 1 \in 1..Len(u)
  BY <1>1 DEF SplicedAt, TextOf
<1>3. PICK h \in 1..Len(u), e \in 1..Len(u) : Takes(u, h, e, r)
  BY <1>1, <1>2, CleanRead
<1>4. PICK y : y = r.props
  OBVIOUS
<1>5. /\ h <= e /\ Tagged(u[e], "end")
      /\ DOMAIN y = {u[m].tag : m \in 1..h} \union {u[e].tag}
      /\ \A m \in 1..h : \A a : Prop(y, u[m].tag, a) = Says(u[m], a)
      /\ \A a : Prop(y, u[e].tag, a) = Says(u[e], a)
      /\ Warnings(y, r.data) = {}
  BY <1>3, <1>4 DEF Takes, Found
<1>6. p.total > 1 => /\ Prop(y, "begin", "part") = Number(p.part)
                     /\ Prop(y, "begin", "total") = Number(p.total)
  <2>1. 1 \in 1..h
    BY <1>3, <1>5
  <2>2. \A a : Prop(y, "begin", a) = Says(s[1], a)
    BY <1>2, <1>5, <2>1 DEF Tagged
  <2> QED
    BY <2>2 DEF TextOf
<1>7. \A a : Prop(y, "end", a) = Says(u[e], a)
  BY <1>5 DEF Tagged
<1>8. "part" \in DOMAIN y => \E m \in 1..h : Tagged(u[m], "part") /\ \A a : Prop(y, "part", a) = Says(u[m], a)
  <2>1. u[e].tag # "part"
    BY <1>5 DEF Tagged
  <2> QED
    BY <1>5, <2>1 DEF Tagged
<1>9. CASE e <= i
  <2>1. \A m \in 1..h : m \in 1..Len(s) /\ u[m] = s[m]
    BY <1>1, <1>3, <1>5, <1>9 DEF SplicedAt
  <2>2. u[e] = s[e] /\ e \in 1..Len(s)
    BY <1>1, <1>3, <1>9 DEF SplicedAt
  <2>3. e = Len(s)
    BY <1>5, <2>2 DEF TextOf
  <2>4. ReadFrom(y, p, p)
    BY <1>6, <1>7, <2>2, <2>3 DEF ReadFrom, TextOf
  <2>5. RangeFrom(y, p)
    BY <1>8, <2>1 DEF RangeFrom, TextOf
  <2> QED
    BY <1>4, <1>5, <2>4, <2>5, ReadFromOne
<1>10. CASE ~(e <= i)
  <2>1. PICK k : k = e - i + j - 1
    OBVIOUS
  <2>2. u[e] = t[k] /\ k \in 1..Len(t)
    BY <1>1, <1>3, <1>10, <2>1 DEF SplicedAt
  <2>3. k = Len(t)
    BY <1>5, <2>2 DEF TextOf
  <2>4. ReadFrom(y, p, q)
    BY <1>6, <1>7, <2>2, <2>3 DEF ReadFrom, TextOf
  <2>5. p = q
    <3>1. p.total > 1 /\ q.total > 1 => p.part = q.part
      BY <1>5, <2>4, SamePart
    <3> QED
      BY <3>1 DEF Told
  <2>6. ASSUME NEW m \in 1..h, Tagged(u[m], "part")
        PROVE  /\ q.total > 1
               /\ Says(u[m], "begin") = Number(q.begin) /\ Says(u[m], "end") = Number(q.end)
    <3>1. m \in 1..Len(u)
      BY <1>1, <1>3
    <3>2. CASE m <= i
      <4>1. u[m] = s[m] /\ m \in 1..Len(s)
        BY <1>1, <3>1, <3>2 DEF SplicedAt
      <4> QED
        BY <2>5, <2>6, <4>1 DEF TextOf
    <3>3. CASE ~(m <= i)
      <4>1. PICK l : l = m - i + j - 1
        OBVIOUS
      <4>2. u[m] = t[l] /\ l \in 1..Len(t)
        BY <1>1, <3>1, <3>3, <4>1 DEF SplicedAt
      <4> QED
        BY <2>6, <4>2 DEF TextOf
    <3> QED
      BY <3>2, <3>3
  <2>7. RangeFrom(y, q)
    BY <1>8, <2>6 DEF RangeFrom
  <2>8. ReadFrom(y, q, q)
    BY <2>4, <2>5
  <2> QED
    BY <1>4, <1>5, <2>7, <2>8, ReadFromOne
<1> QED
  BY <1>9, <1>10

-----------------------------------------------------------------------------
\* The lines of a post.
BeginOf(post) ==
    IF post.total > 1
    THEN Control("begin", <<Field("part", Number(post.part)), Field("total", Number(post.total)),
                            Field("line", Number(1)), Field("size", Number(size)), Name>>)
    ELSE Control("begin", <<Field("line", Number(1)), Field("size", Number(post.size)), Name>>)
RangeOf(post) ==
    Control("part", <<Field("begin", Number(post.begin)), Field("end", Number(post.end))>>)
LastOf(post) ==
    IF post.total > 1
    THEN Control("end", <<Field("size", Number(post.size)), Field("part", Number(post.part)),
                          Field("pcrc32", Crc(post.pcrc32))>>
                        \o [i \in DOMAIN post.crc32 |-> Field("crc32", Crc(post.crc32[i]))])
    ELSE Control("end", <<Field("size", Number(post.size)), Field("crc32", Crc(post.pcrc32))>>)

HeadOf(post) == IF post.total > 1 THEN <<BeginOf(post), RangeOf(post)>> ELSE <<BeginOf(post)>>
LinesIn(post) == {BeginOf(post), RangeOf(post), LastOf(post)}

(* They are what is written.                                               *)
LEMMA WrittenIs == ASSUME NEW post PROVE TextIs(Written(post), HeadOf(post), post.pcrc32, LastOf(post))
<1>1. CASE post.total > 1
  BY <1>1, Zenon DEF TextIs, Written, WrittenPart, HeadOf, BeginOf, RangeOf, LastOf
<1>2. CASE ~(post.total > 1)
  BY <1>2, Zenon DEF TextIs, Written, WrittenSingle, HeadOf, BeginOf, LastOf
<1> QED
  BY <1>1, <1>2

(* Their tags.                                                             *)
LEMMA TheirTags ==
    ASSUME NEW post
    PROVE  /\ Tagged(BeginOf(post), "begin") /\ Tagged(RangeOf(post), "part") /\ Tagged(LastOf(post), "end")
  BY ControlIs, Zenon DEF BeginOf, RangeOf, LastOf

(* The header lines are a header.                                          *)
LEMMA HeadsAre ==
    ASSUME NEW post
    PROVE  /\ HeadOf(post) \in Seq(LinesIn(post)) /\ Heads(HeadOf(post)) /\ LastOf(post) \in LinesIn(post)
           /\ HeadOf(post)[1] = BeginOf(post)
           /\ post.total > 1 => Len(HeadOf(post)) = 2 /\ HeadOf(post)[2] = RangeOf(post)
           /\ ~(post.total > 1) => Len(HeadOf(post)) = 1
<1>1. PICK a : a = BeginOf(post)
  OBVIOUS
<1>2. PICK b : b = RangeOf(post)
  OBVIOUS
<1>3. PICK c : c = LastOf(post)
  OBVIOUS
<1>4. PICK L : L = {a, b, c}
  OBVIOUS
<1>5. LinesIn(post) = L
  BY <1>1, <1>2, <1>3, <1>4 DEF LinesIn
<1>6. Tagged(a, "begin") /\ Tagged(b, "part")
  BY <1>1, <1>2, TheirTags
<1>7. PICK head : head = HeadOf(post)
  OBVIOUS
<1>8. CASE post.total > 1
  <2>1. head = <<a, b>>
    BY <1>1, <1>2, <1>7, <1>8 DEF HeadOf
  <2>2. head \in Seq(L) /\ Len(head) = 2 /\ head[1] = a /\ head[2] = b
    BY <1>4, <2>1
  <2>3. Heads(head)
    BY <1>6, <2>2 DEF Heads
  <2> QED
    BY <1>1, <1>2, <1>3, <1>4, <1>5, <1>7, <1>8, <2>2, <2>3
<1>9. CASE ~(post.total > 1)
  <2>1. head = <<a>>
    BY <1>1, <1>7, <1>9 DEF HeadOf
  <2>2. head \in Seq(L) /\ Len(head) = 1 /\ head[1] = a
    BY <1>4, <2>1
  <2>3. Heads(head)
    BY <1>6, <2>2 DEF Heads
  <2> QED
    BY <1>1, <1>3, <1>4, <1>5, <1>7, <1>9, <2>2, <2>3
<1> QED
  BY <1>8, <1>9

(* What the lines of a part say.                                           *)
LEMMA PartSays ==
    ASSUME NEW post, post.total > 1, post.crc32 = <<>> \/ \E x : post.crc32 = <<x>>
    PROVE  /\ Says(BeginOf(post), "part") = Number(post.part)
           /\ Says(BeginOf(post), "total") = Number(post.total)
           /\ Says(RangeOf(post), "begin") = Number(post.begin)
           /\ Says(RangeOf(post), "end") = Number(post.end)
           /\ Says(LastOf(post), "size") = Number(post.size)
           /\ Says(LastOf(post), "part") = Number(post.part)
           /\ Says(LastOf(post), "pcrc32") = Crc(post.pcrc32)
<1>1. "part" \notin DOMAIN Unread.ydata /\ "end" \notin DOMAIN Unread.ydata
  BY NothingRead
<1>2. PICK a : a = BeginOf(post)
  OBVIOUS
<1>3. PICK b : b = RangeOf(post)
  OBVIOUS
<1>4. PICK c : c = LastOf(post)
  OBVIOUS
<1>5. a.tag = "begin" /\ b.tag = "part" /\ c.tag = "end"
  BY <1>2, <1>3, <1>4, TheirTags DEF Tagged
<1>6. PICK first : first = decoderParseLine(Unread, a)
  OBVIOUS
<1>7. Prop(first.ydata, "begin", "part") = Number(post.part) /\ Prop(first.ydata, "begin", "total") = Number(post.total)
  <2>1. first = decoderParseLine(Unread,
                     Control("begin", <<Field("part", Number(post.part)), Field("total", Number(post.total)),
                                        Field("line", Number(1)), Field("size", Number(size)), Name>>))
    BY <1>2, <1>6, Zenon DEF BeginOf
  <2> QED
    BY <2>1, BeginOfPart
<1>8. PICK second : second = decoderParseLine(Unread, b)
  OBVIOUS
<1>9. Prop(second.ydata, "part", "begin") = Number(post.begin) /\ Prop(second.ydata, "part", "end") = Number(post.end)
  <2>1. second = decoderParseLine(Unread,
                    Control("part", <<Field("begin", Number(post.begin)), Field("end", Number(post.end))>>))
    BY <1>3, <1>8, Zenon DEF RangeOf
  <2> QED
    BY <1>1, <2>1, RangeOfPart
<1>10. PICK third : third = decoderParseLine(Unread, c)
  OBVIOUS
<1>11. EndIs(Unread, third, post.part, post.size, post.pcrc32)
  <2>1. PICK k : k = post.part
    OBVIOUS
  <2>2. PICK s : s = post.size
    OBVIOUS
  <2>3. PICK data : data = post.pcrc32
    OBVIOUS
  <2>4. PICK x1 : x1 = Field("size", Number(s))
    OBVIOUS
  <2>5. PICK x2 : x2 = Field("part", Number(k))
    OBVIOUS
  <2>6. PICK x3 : x3 = Field("pcrc32", Crc(data))
    OBVIOUS
  <2>7. PICK fields : fields = <<x1, x2, x3>> \o [i \in DOMAIN post.crc32 |-> Field("crc32", Crc(post.crc32[i]))]
    OBVIOUS
  <2>8. EndOf(fields, x1, x2, x3)
    BY <2>7, EndFields
  <2>9. third = decoderParseLine(Unread, Control("end", fields))
    BY <1>4, <1>10, <2>1, <2>2, <2>3, <2>4, <2>5, <2>6, <2>7, Zenon DEF LastOf
  <2>10. CASE fields = <<x1, x2, x3>>
    <3>1. third = decoderParseLine(Unread,
                    Control("end", <<Field("size", Number(s)), Field("part", Number(k)), Field("pcrc32", Crc(data))>>))
      BY <2>4, <2>5, <2>6, <2>9, <2>10
    <3> QED
      BY <1>1, <2>1, <2>2, <2>3, <3>1, EndOfPart
  <2>11. ASSUME NEW x, fields = <<x1, x2, x3, Field("crc32", Crc(x))>>
         PROVE  EndIs(Unread, third, post.part, post.size, post.pcrc32)
    <3>1. third = decoderParseLine(Unread,
                    Control("end", <<Field("size", Number(s)), Field("part", Number(k)),
                                     Field("pcrc32", Crc(data)), Field("crc32", Crc(x))>>))
      BY <2>4, <2>5, <2>6, <2>9, <2>11
    <3> QED
      BY <1>1, <2>1, <2>2, <2>3, <3>1, EndOfLastPart
  <2> QED
    BY <2>8, <2>10, <2>11 DEF EndOf
<1>12. /\ Prop(third.ydata, "end", "size") = Number(post.size)
       /\ Prop(third.ydata, "end", "part") = Number(post.part)
       /\ Prop(third.ydata, "end", "pcrc32") = Crc(post.pcrc32)
  BY <1>11 DEF EndIs
<1>13. \A p : /\ Says(a, p) = Prop(first.ydata, "begin", p)
              /\ Says(b, p) = Prop(second.ydata, "part", p)
              /\ Says(c, p) = Prop(third.ydata, "end", p)
  BY <1>5, <1>6, <1>8, <1>10 DEF Says
<1> QED
  BY <1>2, <1>3, <1>4, <1>7, <1>9, <1>12, <1>13

(* A line with two properties, read first.                                 *)
LEMMA TwoSay ==
    ASSUME NEW tag, NEW a, NEW b, a.prop # b.prop, a.prop # NoName, b.prop # NoName, a.prop # "name",
           NEW line, line = Control(tag, <<a, b>>)
    PROVE  Says(line, a.prop) = a.val /\ Says(line, b.prop) = b.val
<1>2. PICK r : r = decoderParseLine(Unread, line)
  OBVIOUS
<1>3. r = decoderParseLine(Unread, Control(tag, <<a, b>>)) /\ tag \notin DOMAIN Unread.ydata
  BY <1>2, NothingRead
<1>4. Two(Unread, r, tag, a, b)
  BY <1>3, TwoFields
<1>5. Prop(r.ydata, tag, a.prop) = a.val /\ Prop(r.ydata, tag, b.prop) = b.val
  BY <1>4 DEF Two
<1>6. line.tag = tag
  BY ControlIs DEF Tagged
<1> QED
  BY <1>2, <1>5, <1>6 DEF Says

(* The =yend line of a file in one post.                                   *)
LEMMA SingleSays ==
    ASSUME NEW post, ~(post.total > 1) PROVE Says(LastOf(post), "crc32") = Crc(post.pcrc32)
<1>1. PICK a : a = Field("size", Number(post.size))
  OBVIOUS
<1>2. PICK b : b = Field("crc32", Crc(post.pcrc32))
  OBVIOUS
<1>3. a.prop = "size" /\ b.prop = "crc32" /\ b.val = Crc(post.pcrc32)
  BY <1>1, <1>2, FieldIs
<1>4. a.prop # b.prop /\ a.prop # NoName /\ b.prop # NoName /\ a.prop # "name"
  BY <1>3, Names
<1>5. PICK line : line = Control("end", <<a, b>>)
  OBVIOUS
<1>6. Says(line, b.prop) = b.val
  BY <1>4, <1>5, TwoSay
<1>7. LastOf(post) = line
  BY <1>1, <1>2, <1>5, Zenon DEF LastOf
<1> QED
  BY <1>3, <1>6, <1>7

\* A text as it was written, and line by line.
MadeText(post, s) ==
    /\ s = Written(post) /\ s \in Seq(LinesIn(post) \union Contents)
    /\ LaidOut(s, HeadOf(post), LastOf(post))

(* A post is written line by line.                                         *)
LEMMA MadeTextIs ==
    ASSUME NEW post, WellMade(post), NEW s, s = Written(post)
    PROVE  MadeText(post, s) /\ TextIs(s, HeadOf(post), post.pcrc32, LastOf(post))
<1>1. post.pcrc32 \in Seq(Nat)
  BY DEF WellMade, Post
<1>2. TextIs(s, HeadOf(post), post.pcrc32, LastOf(post))
  BY WrittenIs
<1>3. HeadOf(post) \in Seq(LinesIn(post)) /\ LastOf(post) \in LinesIn(post)
  BY HeadsAre
<1>4. s \in Seq(LinesIn(post) \union Contents) /\ LaidOut(s, HeadOf(post), LastOf(post))
  BY <1>1, <1>2, <1>3, LinesOf
<1> QED
  BY <1>2, <1>4 DEF MadeText

(* A line of content.                                                      *)
LEMMA ContentIs == \A l \in Contents : Tagged(l, NoTag) /\ DOMAIN l.fields = {}
<1> SUFFICES ASSUME NEW l \in Contents PROVE Tagged(l, NoTag) /\ DOMAIN l.fields = {}
  OBVIOUS
<1>1. PICK b : l = Content(b)
  BY DEF Contents
<1>2. l.tag = "" /\ l.fields = <<>>
  BY <1>1 DEF Content
<1>3. DOMAIN <<>> = {}
  OBVIOUS
<1> QED
  BY <1>2, <1>3, Zenon DEF Tagged, NoTag

(* A line of content is no control line.                                   *)
LEMMA ContentIsNone ==
    ASSUME NEW l \in Contents
    PROVE  ~Tagged(l, "begin") /\ ~Tagged(l, "end") /\ ~Tagged(l, "part")
<1>1. Tagged(l, NoTag)
  BY ContentIs
<1> QED
  BY <1>1, Zenon DEF Tagged, NoTag

(* Each line of a post, by its place.                                      *)
LEMMA LinesAre ==
    ASSUME NEW post, NEW s, MadeText(post, s), NEW m \in 1..Len(s)
    PROVE  \/ m = 1 /\ s[m] = BeginOf(post)
           \/ m = 2 /\ post.total > 1 /\ s[m] = RangeOf(post)
           \/ m = Len(s) /\ m # 1 /\ s[m] = LastOf(post)
           \/ s[m] \in Contents
<1>1. PICK h : h = Len(HeadOf(post))
  OBVIOUS
<1>2. PICK head : head = HeadOf(post)
  OBVIOUS
<1>3. /\ Len(s) \in Nat /\ Len(s) > h + 1
      /\ \A j \in 1..h : s[j] = head[j]
      /\ m > h /\ m < Len(s) => s[m] \in Contents
      /\ s[Len(s)] = LastOf(post)
  BY <1>1, <1>2 DEF MadeText, LaidOut
<1>4. head[1] = BeginOf(post) /\ (post.total > 1 => h = 2 /\ head[2] = RangeOf(post))
      /\ (~(post.total > 1) => h = 1)
  BY <1>1, <1>2, HeadsAre
<1>5. m \in Nat /\ 1 <= m /\ m <= Len(s)
  BY <1>3
<1>6. CASE post.total > 1
  BY <1>3, <1>4, <1>5, <1>6
<1>7. CASE ~(post.total > 1)
  BY <1>3, <1>4, <1>5, <1>7
<1> QED
  BY <1>6, <1>7

(* The lines of a post say whose they are.                                 *)
LEMMA TextOfIs ==
    ASSUME NEW post, WellMade(post), NEW s, MadeText(post, s)
    PROVE  TextOf(post, s)
<1>1. Len(s) \in Nat /\ Len(s) > 1
  <2>1. Len(HeadOf(post)) = 1 \/ Len(HeadOf(post)) = 2
    BY HeadsAre DEF Heads
  <2> QED
    BY <2>1 DEF MadeText, LaidOut
<1>2. s[1] = BeginOf(post) /\ s[Len(s)] = LastOf(post)
  <2>1. 1 \in 1..Len(HeadOf(post)) /\ HeadOf(post)[1] = BeginOf(post)
    BY HeadsAre, SMTT(60) DEF Heads
  <2> QED
    BY <2>1 DEF MadeText, LaidOut
<1>3. post.crc32 = <<>> \/ \E x : post.crc32 = <<x>>
  BY DEF WellMade
<1>4. ASSUME NEW m \in 1..Len(s)
      PROVE  /\ Tagged(s[m], "begin") => m = 1
             /\ Tagged(s[m], "end") => m = Len(s)
             /\ Tagged(s[m], "part") => /\ post.total > 1
                                        /\ Says(s[m], "begin") = Number(post.begin)
                                        /\ Says(s[m], "end") = Number(post.end)
  <2>1. Tagged(BeginOf(post), "begin") /\ Tagged(RangeOf(post), "part") /\ Tagged(LastOf(post), "end")
    BY TheirTags
  <2>2. CASE m = 1 /\ s[m] = BeginOf(post)
    BY <2>1, <2>2 DEF Tagged
  <2>3. CASE m = 2 /\ post.total > 1 /\ s[m] = RangeOf(post)
    BY <1>3, <2>1, <2>3, PartSays DEF Tagged
  <2>4. CASE m = Len(s) /\ m # 1 /\ s[m] = LastOf(post)
    BY <2>1, <2>4 DEF Tagged
  <2>5. CASE s[m] \in Contents
    BY <2>5, ContentIsNone
  <2> QED
    BY <2>2, <2>3, <2>4, <2>5, LinesAre
<1>5. Tagged(s[1], "begin")
  BY <1>2, TheirTags
<1>6. post.total > 1 => /\ Says(s[1], "part") = Number(post.part)
                        /\ Says(s[1], "total") = Number(post.total)
                        /\ Says(s[Len(s)], "part") = Number(post.part)
                        /\ Says(s[Len(s)], "pcrc32") = Crc(post.pcrc32)
  BY <1>2, <1>3, PartSays
<1>7. ~(post.total > 1) => Says(s[Len(s)], "crc32") = Crc(post.pcrc32)
  BY <1>2, SingleSays
<1> QED
  BY <1>1, <1>4, <1>5, <1>6, <1>7 DEF TextOf

(* The place a post is read from is on its =ypart line, if it has one.     *)
LEMMA FoundAs ==
    ASSUME NEW post, NEW u, NEW h, NEW e, NEW r, Found(u, h, e, r), r.data = post.pcrc32,
           post.total > 1 => /\ h = 2 /\ Tagged(u[2], "part")
                             /\ Says(u[2], "begin") = Number(post.begin)
                             /\ Says(u[2], "end") = Number(post.end),
           ~(post.total > 1) => h = 1 /\ Tagged(u[1], "begin")
    PROVE  ReadAs(r) = As(post)
<1>1. PICK y : y = r.props
  OBVIOUS
<1>2. /\ Tagged(u[e], "end")
      /\ DOMAIN y = {u[m].tag : m \in 1..h} \union {u[e].tag}
      /\ \A m \in 1..h : \A p : Prop(y, u[m].tag, p) = Says(u[m], p)
  BY <1>1 DEF Found
<1>3. CASE post.total > 1
  <2>1. \A p : Prop(y, "part", p) = Says(u[2], p)
    BY <1>2, <1>3 DEF Tagged
  <2> QED
    BY <1>1, <1>3, <2>1 DEF ReadAs, As
<1>4. CASE ~(post.total > 1)
  <2>1. \A m \in 1..h : m = 1
    BY <1>4
  <2>2. "part" \notin DOMAIN y
    BY <1>2, <1>4, <2>1 DEF Tagged
  <2>3. Prop(y, "part", "begin") = Absent /\ Prop(y, "part", "end") = Absent
    BY <2>2 DEF Prop
  <2> QED
    BY <1>1, <1>4, <2>3 DEF ReadAs, As
<1> QED
  BY <1>3, <1>4

(* A post as it was made is read as that, with or without a complaint.     *)
LEMMA OwnText ==
    ASSUME NEW post, WellMade(post), size \in Nat, NEW r, r = Read(Written(post))
    PROVE  ReadAs(r) = As(post)
<1>1. PICK s : s = Written(post)
  OBVIOUS
<1>2. MadeText(post, s) /\ TextIs(s, HeadOf(post), post.pcrc32, LastOf(post))
  BY <1>1, MadeTextIs
<1>3. post.pcrc32 \in Seq(Nat)
  BY DEF WellMade, Post
<1>4. r.error = NoError
  BY PartReadsBack, SingleReadsBack DEF ReadsBack
<1>5. /\ HeadOf(post) \in Seq(LinesIn(post)) /\ Heads(HeadOf(post)) /\ LastOf(post) \in LinesIn(post)
      /\ Tagged(LastOf(post), "end") /\ r = Read(s)
  BY <1>1, HeadsAre, TheirTags
<1>6. r.data = post.pcrc32 /\ Found(s, Len(HeadOf(post)), Len(s), r)
  BY <1>2, <1>3, <1>4, <1>5, WholeText
<1>7. post.total > 1 => /\ Len(HeadOf(post)) = 2 /\ Tagged(s[2], "part")
                        /\ Says(s[2], "begin") = Number(post.begin)
                        /\ Says(s[2], "end") = Number(post.end)
  <2> SUFFICES ASSUME post.total > 1 PROVE /\ Len(HeadOf(post)) = 2 /\ Tagged(s[2], "part")
                                           /\ Says(s[2], "begin") = Number(post.begin)
                                           /\ Says(s[2], "end") = Number(post.end)
    OBVIOUS
  <2>1. Len(HeadOf(post)) = 2 /\ HeadOf(post)[2] = RangeOf(post)
    BY HeadsAre
  <2>2. s[2] = RangeOf(post)
    BY <1>2, <2>1 DEF MadeText, LaidOut
  <2>3. post.crc32 = <<>> \/ \E x : post.crc32 = <<x>>
    BY DEF WellMade
  <2> QED
    BY <2>1, <2>2, <2>3, TheirTags, PartSays
<1>8. ~(post.total > 1) => Len(HeadOf(post)) = 1 /\ Tagged(s[1], "begin")
  <2>1. TextOf(post, s)
    BY <1>2, TextOfIs
  <2> QED
    BY <2>1, HeadsAre DEF TextOf
<1> QED
  BY <1>6, <1>7, <1>8, FoundAs

-----------------------------------------------------------------------------
\* A sequence with another element in one place.
Put(a, i, x) == [a EXCEPT ![i] = x]
HasPut(S, a, i, x, v) == /\ v \in Seq(S) /\ Len(v) = Len(a) /\ v[i] = x
                         /\ \A m \in 1..Len(a) : m # i => v[m] = a[m]

(* Only that element is another.                                           *)
LEMMA PutIs ==
    ASSUME NEW S, NEW a \in Seq(S), NEW i \in 1..Len(a), NEW x \in S
    PROVE  HasPut(S, a, i, x, Put(a, i, x))
  BY DEF Put, HasPut

\* Two sequences, one after the other.
HasJoined(S, a, b, c) == /\ c \in Seq(S) /\ Len(c) = Len(a) + Len(b)
                         /\ \A m \in 1..Len(a) : c[m] = a[m]
                         /\ \A m \in 1..Len(b) : c[Len(a) + m] = b[m]

(* Two sequences, one after the other.                                     *)
LEMMA JoinedIs ==
    ASSUME NEW S, NEW a \in Seq(S), NEW b \in Seq(S), NEW c, c = a \o b
    PROVE  HasJoined(S, a, b, c)
<1>1. /\ a \o b \in Seq(S) /\ Len(a \o b) = Len(a) + Len(b)
      /\ \A m \in 1..Len(a) : (a \o b)[m] = a[m]
      /\ \A m \in 1..Len(b) : (a \o b)[Len(a) + m] = b[m]
  BY ConcatProperties
<1> QED
  BY <1>1, Zenon DEF HasJoined

(* Replacing an element of the first of two sequences, or of the second.   *)
LEMMA ReplaceFirst ==
    ASSUME NEW S, NEW a \in Seq(S), NEW b \in Seq(S), NEW i \in 1..Len(a), NEW x \in S
    PROVE  Put(a \o b, i, x) = Put(a, i, x) \o b
<1>11. PICK c : c = a \o b
  OBVIOUS
<1>12. PICK d : d = Put(a, i, x)
  OBVIOUS
<1>1. PICK v : v = Put(c, i, x)
  OBVIOUS
<1>2. PICK w : w = d \o b
  OBVIOUS
<1>3. /\ c \in Seq(S) /\ Len(c) = Len(a) + Len(b)
      /\ \A m \in 1..Len(a) : c[m] = a[m]
      /\ \A m \in 1..Len(b) : c[Len(a) + m] = b[m]
  <2>1. HasJoined(S, a, b, c)
    BY <1>11, JoinedIs
  <2> QED
    BY <2>1 DEF HasJoined
<1>4. /\ d \in Seq(S) /\ Len(d) = Len(a) /\ d[i] = x
      /\ \A m \in 1..Len(a) : m # i => d[m] = a[m]
  <2>1. HasPut(S, a, i, x, d)
    BY <1>12, PutIs
  <2> QED
    BY <2>1 DEF HasPut
<1>5. /\ w \in Seq(S) /\ Len(w) = Len(a) + Len(b)
      /\ \A m \in 1..Len(a) : w[m] = d[m]
      /\ \A m \in 1..Len(b) : w[Len(a) + m] = b[m]
  <2>1. /\ w \in Seq(S) /\ Len(w) = Len(d) + Len(b)
        /\ \A m \in 1..Len(d) : w[m] = d[m]
        /\ \A m \in 1..Len(b) : w[Len(d) + m] = b[m]
    <3>1. HasJoined(S, d, b, w)
      BY <1>2, <1>4, JoinedIs
    <3> QED
      BY <3>1 DEF HasJoined
  <2> QED
    BY <1>4, <2>1
<1>6. Len(a) \in Nat /\ Len(b) \in Nat
  OBVIOUS
<1>7. i \in 1..Len(c)
  BY <1>3, <1>6
<1>8. /\ v \in Seq(S) /\ Len(v) = Len(c) /\ v[i] = x
      /\ \A m \in 1..Len(c) : m # i => v[m] = c[m]
  <2>1. HasPut(S, c, i, x, v)
    BY <1>1, <1>3, <1>7, PutIs
  <2> QED
    BY <2>1 DEF HasPut
<1>9. ASSUME NEW m \in 1..Len(c) PROVE v[m] = w[m]
  <2>1. CASE m \in 1..Len(a)
    BY <1>3, <1>4, <1>5, <1>8, <2>1
  <2>2. CASE m \notin 1..Len(a)
    <3>1. PICK k : k = m - Len(a)
      OBVIOUS
    <3>2. k \in 1..Len(b) /\ m = Len(a) + k
      BY <1>3, <1>6, <2>2, <3>1
    <3>3. v[m] = b[k]
      BY <1>3, <1>8, <2>2, <3>2
    <3>4. w[m] = b[k]
      BY <1>5, <3>2
    <3> QED
      BY <3>3, <3>4
  <2> QED
    BY <2>1, <2>2
<1>10. v = w
  BY <1>3, <1>5, <1>8, <1>9, SeqEqual
<1> QED
  BY <1>11, <1>12, <1>1, <1>2, <1>10, Zenon

(* The line replaced being the last.                                      *)
LEMMA ReplaceSecond ==
    ASSUME NEW S, NEW a \in Seq(S), NEW y \in S, NEW x \in S, NEW c, c = a \o <<y>>
    PROVE  Put(c, Len(c), x) = a \o <<x>>
<1>1. PICK one : one = <<y>>
  OBVIOUS
<1>2. PICK two : two = <<x>>
  OBVIOUS
<1>3. one \in Seq(S) /\ Len(one) = 1 /\ two \in Seq(S) /\ Len(two) = 1 /\ two[1] = x
  BY <1>1, <1>2
<1>4. PICK n : n = Len(a)
  OBVIOUS
<1>5. n \in Nat
  BY <1>4
<1>6. c = a \o one
  BY <1>1
<1>7. /\ c \in Seq(S) /\ Len(c) = n + 1
      /\ \A m \in 1..n : c[m] = a[m]
  <2>1. /\ c \in Seq(S) /\ Len(c) = Len(a) + Len(one)
        /\ \A m \in 1..Len(a) : c[m] = a[m]
    <3>1. HasJoined(S, a, one, c)
      BY <1>3, <1>6, JoinedIs
    <3> QED
      BY <3>1 DEF HasJoined
  <2> QED
    BY <1>3, <1>4, <2>1
<1>8. PICK w : w = a \o two
  OBVIOUS
<1>9. /\ w \in Seq(S) /\ Len(w) = n + 1
      /\ \A m \in 1..n : w[m] = a[m]
      /\ w[n + 1] = x
  <2>1. /\ w \in Seq(S) /\ Len(w) = Len(a) + Len(two)
        /\ \A m \in 1..Len(a) : w[m] = a[m]
        /\ \A m \in 1..Len(two) : w[Len(a) + m] = two[m]
    <3>1. HasJoined(S, a, two, w)
      BY <1>3, <1>8, JoinedIs
    <3> QED
      BY <3>1 DEF HasJoined
  <2>2. 1 \in 1..Len(two)
    BY <1>3
  <2> QED
    BY <1>3, <1>4, <2>1, <2>2
<1>10. PICK k : k = Len(c)
  OBVIOUS
<1>11. PICK v : v = Put(c, k, x)
  OBVIOUS
<1>12. k = n + 1 /\ k \in 1..Len(c)
  BY <1>5, <1>7, <1>10
<1>13. /\ v \in Seq(S) /\ Len(v) = Len(c) /\ v[k] = x
       /\ \A m \in 1..Len(c) : m # k => v[m] = c[m]
  <2>1. HasPut(S, c, k, x, v)
    BY <1>7, <1>11, <1>12, PutIs
  <2> QED
    BY <2>1 DEF HasPut
<1>14. ASSUME NEW m \in 1..(n + 1) PROVE v[m] = w[m]
  <2>1. m \in 1..n \/ m = n + 1
    BY <1>5
  <2> QED
    BY <1>5, <1>7, <1>9, <1>12, <1>13, <2>1
<1>15. v = w
  BY <1>7, <1>9, <1>13, <1>14, SeqEqual
<1> QED
  BY <1>2, <1>8, <1>10, <1>11, <1>15

(* A text with another line in place of one of its header lines, or of its *)
(* =yend line.                                                             *)
LEMMA ReplaceLine ==
    ASSUME NEW data \in Seq(Nat), NEW L, NEW head \in Seq(L), NEW end \in L, NEW line \in L,
           NEW s, TextIs(s, head, data, end)
    PROVE  /\ \A i \in 1..Len(head) :
                TextIs(Put(s, i, line), Put(head, i, line), data, end)
           /\ TextIs(Put(s, Len(s), line), head, data, line)
<1>1. PICK S : S = L \union Contents
  OBVIOUS
<1>2. PICK body : body = Body(data)
  OBVIOUS
<1>3. head \in Seq(S) /\ body \in Seq(S) /\ end \in S /\ line \in S
  <2>1. body \in Seq(Contents)
    BY <1>2, BodyFacts
  <2>2. L \subseteq S /\ Contents \subseteq S
    BY <1>1
  <2>3. head \in Seq(S)
    BY <2>2
  <2>4. body \in Seq(S)
    BY <2>1, <2>2
  <2> QED
    BY <2>2, <2>3, <2>4
<1>4. PICK front : front = head \o body
  OBVIOUS
<1>5. front \in Seq(S) /\ Len(front) = Len(head) + Len(body)
  <2>1. HasJoined(S, head, body, front)
    BY <1>3, <1>4, JoinedIs
  <2> QED
    BY <2>1 DEF HasJoined
<1>6. s = front \o <<end>>
  BY <1>2, <1>4 DEF TextIs
<1>7. ASSUME NEW i \in 1..Len(head)
      PROVE  TextIs(Put(s, i, line), Put(head, i, line), data, end)
  <2>1. PICK other : other = Put(head, i, line)
    OBVIOUS
  <2>2. PICK changed : changed = Put(front, i, line)
    OBVIOUS
  <2>3. changed = other \o body
    <3>1. Put(front, i, line) = other \o body
      BY <1>3, <1>4, <2>1, ReplaceFirst, Zenon
    <3> QED
      BY <2>2, <3>1
  <2>4. i \in 1..Len(front)
    <3>1. Len(head) \in Nat /\ Len(body) \in Nat
      BY <1>3
    <3> QED
      BY <1>5, <3>1
  <2>5. PICK tail : tail = <<end>>
    OBVIOUS
  <2>6. tail \in Seq(S) /\ s = front \o tail
    BY <1>3, <1>6, <2>5
  <2>7. Put(s, i, line) = changed \o tail
    BY <1>3, <1>5, <2>2, <2>4, <2>6, ReplaceFirst, Zenon
  <2> QED
    BY <1>2, <2>1, <2>3, <2>5, <2>7 DEF TextIs
<1>8. TextIs(Put(s, Len(s), line), head, data, line)
  <2>1. Put(s, Len(s), line) = front \o <<line>>
    BY <1>3, <1>5, <1>6, ReplaceSecond
  <2> QED
    BY <1>2, <1>4, <2>1 DEF TextIs
<1> QED
  BY <1>7, <1>8

\* A line with one property changed, as Garbled does.
Changed(line, from) ==
    \E k \in DOMAIN from.fields :
        \E f \in {Field("", Absent)} \union {Field(from.fields[k].prop, w) : w \in Forged(from.fields[k].val)} :
            line = [from EXCEPT !.fields[k] = f]

(* It is one line of the text that is changed.                             *)
LEMMA GarbledIs ==
    ASSUME NEW s, NEW u \in Garbled(s)
    PROVE  \E i \in DOMAIN s : \E line : Changed(line, s[i]) /\ u = Put(s, i, line)
<1> DEFINE Fs(i, k)   == {Field("", Absent)} \union {Field(s[i].fields[k].prop, w) :
                                                     w \in Forged(s[i].fields[k].val)}
           One(i, k)  == {[s EXCEPT ![i].fields[k] = f] : f \in Fs(i, k)}
           Line(i)    == UNION {One(i, k) : k \in DOMAIN s[i].fields}
<1>0. Garbled(s) = UNION {Line(i) : i \in DOMAIN s}
  BY DEF Garbled
<1> HIDE DEF Line
<1>1. PICK i \in DOMAIN s : u \in Line(i)
  BY <1>0
<1> USE DEF Line
<1> HIDE DEF One
<1>2. PICK k \in DOMAIN s[i].fields : u \in One(i, k)
  BY <1>1
<1> USE DEF One
<1>3. PICK f \in {Field("", Absent)} \union {Field(s[i].fields[k].prop, w) :
                                             w \in Forged(s[i].fields[k].val)} :
            u = [s EXCEPT ![i].fields[k] = f]
  BY <1>2
<1>4. PICK from : from = s[i]
  OBVIOUS
<1>5. PICK line : line = [from EXCEPT !.fields[k] = f]
  OBVIOUS
<1>6. Changed(line, s[i])
  BY <1>4, <1>5, Zenon DEF Changed
<1>7. u = [s EXCEPT ![i] = line]
  BY <1>3, <1>4, <1>5
<1> QED
  BY <1>6, <1>7 DEF Put

(* The tag of a line is no property, and a line of content has none.       *)
LEMMA ChangedIs ==
    ASSUME NEW line, NEW from, Changed(line, from)
    PROVE  line.tag = from.tag /\ from \notin Contents
<1>1. DOMAIN from.fields # {}
  BY DEF Changed
<1>2. from \notin Contents
  BY <1>1, ContentIs
<1>3. PICK k \in DOMAIN from.fields :
        \E f \in {Field("", Absent)} \union {Field(from.fields[k].prop, w) : w \in Forged(from.fields[k].val)} :
            line = [from EXCEPT !.fields[k] = f]
  BY DEF Changed
<1>4. PICK f : line = [from EXCEPT !.fields[k] = f]
  BY <1>3
<1>5. line.tag = from.tag
  BY <1>4
<1> QED
  BY <1>2, <1>5

(* A post with one of its lines changed is read in its place.              *)
LEMMA GarbledRead ==
    ASSUME NEW post, WellMade(post), NEW s, s = Written(post), NEW u \in Garbled(s),
           NEW r, r = Read(u), Clean(r)
    PROVE  /\ r.data = post.pcrc32
           /\ Takes(u, Len(HeadOf(post)), Len(s), r)
           /\ \E i \in 1..Len(s) : \E line :
                /\ Changed(line, s[i]) /\ s[i] \notin Contents
                /\ u[i] = line /\ \A m \in 1..Len(s) : m # i => u[m] = s[m]
<1>1. MadeText(post, s) /\ TextIs(s, HeadOf(post), post.pcrc32, LastOf(post))
  BY MadeTextIs
<1>2. PICK head : head = HeadOf(post)
  OBVIOUS
<1>3. PICK end : end = LastOf(post)
  OBVIOUS
<1>4. PICK data : data = post.pcrc32
  OBVIOUS
<1>5. data \in Seq(Nat)
  BY <1>4 DEF WellMade, Post
<1>6. PICK K : K = LinesIn(post) \union Contents
  OBVIOUS
<1>7. s \in Seq(K) /\ TextIs(s, head, data, end) /\ LaidOut(s, head, end)
  BY <1>1, <1>2, <1>3, <1>4, <1>6 DEF MadeText
<1>8. PICK i \in DOMAIN s : \E line : Changed(line, s[i]) /\ u = Put(s, i, line)
  BY GarbledIs
<1>9. PICK line : Changed(line, s[i]) /\ u = Put(s, i, line)
  BY <1>8
<1>10. i \in 1..Len(s) /\ Len(s) \in Nat
  BY <1>7, <1>8
<1>11. line.tag = s[i].tag /\ s[i] \notin Contents
  BY <1>9, ChangedIs
<1>12. PICK L : L = K \union {line}
  OBVIOUS
<1>13. head \in Seq(L) /\ Heads(head) /\ end \in L /\ Tagged(end, "end") /\ line \in L /\ s \in Seq(L)
  <2>1. head \in Seq(LinesIn(post)) /\ Heads(head) /\ end \in LinesIn(post) /\ Tagged(end, "end")
    BY <1>2, <1>3, HeadsAre, TheirTags
  <2>2. LinesIn(post) \subseteq L /\ K \subseteq L /\ line \in L
    BY <1>6, <1>12
  <2>3. head \in Seq(L)
    BY <2>1, <2>2
  <2>4. s \in Seq(L)
    BY <1>7, <2>2
  <2> QED
    BY <2>1, <2>2, <2>3, <2>4
<1>14. HasPut(L, s, i, line, u)
  BY <1>9, <1>10, <1>13, PutIs
<1>15. Len(u) = Len(s) /\ u[i] = line /\ \A m \in 1..Len(s) : m # i => u[m] = s[m]
  BY <1>14 DEF HasPut
<1>16. r.error = NoError
  BY DEF Clean
<1>17. r.data = data /\ Takes(u, Len(head), Len(u), r)
  <2>1. i \in 1..Len(head) \/ i = Len(s)
    <3>1. Len(head) \in Nat
      BY <1>13
    <3>2. i > Len(head) /\ i < Len(s) => s[i] \in Contents
      BY <1>7, <1>10 DEF LaidOut
    <3> QED
      BY <1>10, <1>11, <3>1, <3>2
  <2>2. CASE i \in 1..Len(head)
    <3>1. PICK other : other = Put(head, i, line)
      OBVIOUS
    <3>2. TextIs(u, other, data, end)
      BY <1>5, <1>7, <1>9, <1>13, <2>2, <3>1, ReplaceLine
    <3>3. HasPut(L, head, i, line, other)
      BY <1>13, <2>2, <3>1, PutIs
    <3>4. /\ other \in Seq(L) /\ Len(other) = Len(head) /\ other[i] = line
          /\ \A m \in 1..Len(head) : m # i => other[m] = head[m]
      BY <3>3 DEF HasPut
    <3>5. s[i] = head[i]
      BY <1>7, <2>2 DEF LaidOut
    <3>6. \A m \in 1..Len(head) : other[m].tag = head[m].tag
      BY <1>11, <3>4, <3>5
    <3>7. Heads(other)
      BY <1>13, <3>4, <3>6 DEF Heads, Tagged
    <3>8. r.data = data /\ Takes(u, Len(other), Len(u), r)
      BY <1>5, <1>13, <1>16, <3>2, <3>4, <3>7, WholeText
    <3> QED
      BY <3>4, <3>8
  <2>3. CASE i = Len(s)
    <3>1. TextIs(u, head, data, line)
      BY <1>5, <1>7, <1>9, <1>13, <2>3, ReplaceLine
    <3>2. Tagged(line, "end")
      BY <1>7, <1>11, <1>13, <2>3 DEF LaidOut, Tagged
    <3> QED
      BY <1>5, <1>13, <1>16, <3>1, <3>2, WholeText
  <2> QED
    BY <2>1, <2>2, <2>3
<1> QED
  BY <1>2, <1>4, <1>9, <1>10, <1>11, <1>15, <1>17

-----------------------------------------------------------------------------
(* A forged value that is the same number is the same.                     *)
LEMMA ForgedIs ==
    ASSUME NEW n \in Nat, NEW w \in Forged(Number(n)), w.is = "number", w.n = n PROVE w = Number(n)
<1>1. w = Text \/ w = Empty \/ w = Number(0) \/ w = Number(n + 1)
  BY Values DEF Forged
<1>2. Text.is # "number" /\ Empty.is # "number"
  BY DEF Text, Empty
<1>3. Number(0).n = 0 /\ Number(n + 1).n = n + 1
  BY Values
<1> QED
  BY <1>1, <1>2, <1>3

(* The ends of a range that is not complained of, and its size, fit.       *)
LEMMA RangeFits ==
    ASSUME NEW y, RangeWarnings(y) = {}, NEW n \in Nat, n > 1, NEW s \in Nat,
           Prop(y, "begin", "total") = Number(n), Prop(y, "end", "size") = Number(s)
    PROVE  LET b == Prop(y, "part", "begin")   e == Prop(y, "part", "end")
           IN  b.is = "number" /\ e.is = "number" /\ s = e.n - b.n + 1
<1>1. PICK b : b = Prop(y, "part", "begin")
  OBVIOUS
<1>2. PICK e : e = Prop(y, "part", "end")
  OBVIOUS
<1>3. PICK z : z = Prop(y, "end", "size")
  OBVIOUS
<1>4. PICK Multi : Multi = (\E v \in {Prop(y, "begin", "total"), Prop(y, "begin", "part"),
                                     Prop(y, "end", "part")} : Over(v, Number(1)))
  OBVIOUS
<1>5. Multi
  <2>1. Over(Number(n), Number(1))
    BY Values
  <2> QED
    BY <1>4, <2>1
<1>6. PICK Fits : Fits = (/\ \A v \in {b, e, z} : v.is = "number"
                          /\ z.n = e.n - b.n + 1)
  OBVIOUS
<1>7. RangeWarnings(y) =
        IF ~Given(b) \/ ~Given(e) THEN When(Multi, "missing_part_range")
        ELSE IF Over(b, e) THEN {"invalid_part_range"}
        ELSE IF ~Fits THEN {"size_mismatch_part_range"}
        ELSE When(Over(e, Prop(y, "begin", "size")), "part_range_exceeds_size")
  BY <1>1, <1>2, <1>3, <1>4, <1>6, Zenon DEF RangeWarnings
<1>8. When(Multi, "missing_part_range") # {}
  BY <1>5 DEF When
<1>9. Fits
  BY <1>7, <1>8
<1>10. z.n = s
  BY <1>3, Values
<1> QED
  BY <1>1, <1>2, <1>6, <1>9, <1>10

(* What a =ypart line says with one of its two properties changed.         *)
LEMMA ChangedRange ==
    ASSUME NEW post, NEW line, Changed(line, RangeOf(post)), AllProps(Fields(line))
    PROVE  \/ \E w \in Forged(Number(post.begin)) :
                Says(line, "begin") = w /\ Says(line, "end") = Number(post.end)
           \/ \E w \in Forged(Number(post.end)) :
                Says(line, "begin") = Number(post.begin) /\ Says(line, "end") = w
<1>1. PICK a : a = Field("begin", Number(post.begin))
  OBVIOUS
<1>2. PICK b : b = Field("end", Number(post.end))
  OBVIOUS
<1>3. /\ a.prop = "begin" /\ a.val = Number(post.begin) /\ b.prop = "end" /\ b.val = Number(post.end)
      /\ a.prop # NoName /\ b.prop # NoName
  BY <1>1, <1>2, FieldIs, Names
<1>4. PICK fields : fields = <<a, b>>
  OBVIOUS
<1>5. PICK from : from = [tag |-> "part", fields |-> fields, bytes |-> <<>>]
  OBVIOUS
<1>6. RangeOf(post) = from
  BY <1>1, <1>2, <1>4, <1>5 DEF RangeOf, Control
<1>7. PICK k : /\ k \in DOMAIN from.fields
               /\ \E f : /\ f \in {Field("", Absent)} \union {Field(from.fields[k].prop, w) :
                                                            w \in Forged(from.fields[k].val)}
                        /\ line = [from EXCEPT !.fields[k] = f]
  BY <1>6, Zenon DEF Changed
<1>8. PICK f : /\ f \in {Field("", Absent)} \union {Field(from.fields[k].prop, w) :
                                                   w \in Forged(from.fields[k].val)}
               /\ line = [from EXCEPT !.fields[k] = f]
  BY <1>7, Zenon
<1>9. from.fields = fields /\ (k = 1 \/ k = 2) /\ fields[1] = a /\ fields[2] = b
  <2>1. from.fields = fields
    BY <1>5
  <2>2. k \in DOMAIN fields
    BY <1>7, <2>1
  <2>3. DOMAIN fields = {1, 2} /\ fields[1] = a /\ fields[2] = b
    BY <1>4
  <2> QED
    BY <2>1, <2>2, <2>3
<1>10. PICK changed : changed = [fields EXCEPT ![k] = f]
  OBVIOUS
<1>11. line = Control("part", changed)
  BY <1>5, <1>8, <1>10 DEF Control
<1>12. k = 1 => changed = <<f, b>>
  BY <1>4, <1>10
<1>13. k = 2 => changed = <<a, f>>
  BY <1>4, <1>10
<1>14. f # Field("", Absent)
  <2>1. Fields(line) = changed
    <3>1. line.tag = "part" /\ line.fields = changed
      BY <1>11 DEF Control
    <3> QED
      BY <3>1 DEF Fields
  <2>2. k \in DOMAIN changed /\ changed[k] = f
    BY <1>9, <1>4, <1>10
  <2>3. f.prop # NoName
    BY <2>1, <2>2 DEF AllProps
  <2> QED
    BY <2>3, FieldIs, Zenon DEF NoName
<1>15. CASE k = 1
  <2>1. PICK w \in Forged(Number(post.begin)) : f = Field("begin", w)
    BY <1>3, <1>8, <1>9, <1>14, <1>15
  <2>2. f.prop = "begin" /\ f.val = w
    BY <2>1, FieldIs
  <2>3. f.prop # b.prop /\ f.prop # NoName /\ f.prop # "name"
    BY <1>3, <2>2
  <2>4. line = Control("part", <<f, b>>)
    BY <1>11, <1>12, <1>15
  <2>5. Says(line, f.prop) = f.val /\ Says(line, b.prop) = b.val
    BY <1>3, <2>3, <2>4, TwoSay
  <2> QED
    BY <1>3, <2>2, <2>5
<1>16. CASE k = 2
  <2>1. PICK w \in Forged(Number(post.end)) : f = Field("end", w)
    BY <1>3, <1>8, <1>9, <1>14, <1>16
  <2>2. f.prop = "end" /\ f.val = w
    BY <2>1, FieldIs
  <2>3. a.prop # f.prop /\ f.prop # NoName /\ a.prop # "name"
    BY <1>3, <2>2
  <2>4. line = Control("part", <<a, f>>)
    BY <1>11, <1>13, <1>16
  <2>5. Says(line, a.prop) = a.val /\ Says(line, f.prop) = f.val
    BY <1>3, <2>3, <2>4, TwoSay
  <2> QED
    BY <1>3, <2>2, <2>5
<1> QED
  BY <1>9, <1>15, <1>16

(* A post with one property changed is read as it was made if at all.      *)
LEMMA GarbledIsNoticed ==
    ASSUME NEW post, WellMade(post), NEW u \in Garbled(Written(post)), NEW r, r = Read(u), Clean(r)
    PROVE  ReadAs(r) = As(post)
<1>1. PICK s : s = Written(post)
  OBVIOUS
<1>2. MadeText(post, s) /\ u \in Garbled(s)
  BY <1>1, MadeTextIs
<1>3. PICK h : h = Len(HeadOf(post))
  OBVIOUS
<1>4. /\ r.data = post.pcrc32 /\ Takes(u, h, Len(s), r)
      /\ \E i \in 1..Len(s) : \E line :
           /\ Changed(line, s[i]) /\ s[i] \notin Contents
           /\ u[i] = line /\ \A m \in 1..Len(s) : m # i => u[m] = s[m]
  BY <1>1, <1>2, <1>3, GarbledRead
<1>5. PICK i \in 1..Len(s) : \E line :
           /\ Changed(line, s[i]) /\ s[i] \notin Contents
           /\ u[i] = line /\ \A m \in 1..Len(s) : m # i => u[m] = s[m]
  BY <1>4
<1>6. PICK line : /\ Changed(line, s[i]) /\ u[i] = line
                  /\ \A m \in 1..Len(s) : m # i => u[m] = s[m]
  BY <1>5
<1>7. \A m \in 1..Len(s) : u[m].tag = s[m].tag
  BY <1>6, ChangedIs
<1>8. TextOf(post, s)
  BY <1>2, TextOfIs
<1>9. Len(s) \in Nat /\ Len(s) > 1 /\ Tagged(s[1], "begin") /\ 1 \in 1..Len(s)
  BY <1>8 DEF TextOf
<1>10. Tagged(u[1], "begin")
  BY <1>7, <1>9 DEF Tagged
<1>11. Found(u, h, Len(s), r) /\ Warnings(r.props, r.data) = {} /\ \A m \in 1..h : AllProps(Fields(u[m]))
  BY <1>4 DEF Takes
<1>12. CASE ~(post.total > 1)
  <2>1. h = 1
    BY <1>3, <1>12, HeadsAre
  <2> QED
    BY <1>4, <1>10, <1>11, <1>12, <2>1, FoundAs
<1>13. CASE post.total > 1
  <2>1. h = 2 /\ HeadOf(post)[2] = RangeOf(post) /\ HeadOf(post)[1] = BeginOf(post)
    BY <1>3, <1>13, HeadsAre
  <2>2. /\ s[2] = RangeOf(post) /\ s[1] = BeginOf(post) /\ s[Len(s)] = LastOf(post)
        /\ Len(s) > 3
    BY <1>2, <1>3, <2>1 DEF MadeText, LaidOut
  <2>3. post.crc32 = <<>> \/ \E x : post.crc32 = <<x>>
    BY DEF WellMade
  <2>4. /\ Says(s[1], "total") = Number(post.total)
        /\ Says(s[2], "begin") = Number(post.begin) /\ Says(s[2], "end") = Number(post.end)
        /\ Says(s[Len(s)], "size") = Number(post.size)
    BY <1>13, <2>2, <2>3, PartSays
  <2>5. 2 \in 1..Len(s) /\ Len(s) \in 1..Len(s) /\ 2 # Len(s)
    BY <1>9, <2>2
  <2>6. Tagged(u[2], "part")
    BY <1>7, <2>2, <2>5, TheirTags DEF Tagged
  <2>7. Says(u[2], "begin") = Number(post.begin) /\ Says(u[2], "end") = Number(post.end)
    <3>1. CASE i # 2
      BY <1>6, <2>4, <2>5, <3>1
    <3>2. CASE i = 2
      <4>1. u[1] = s[1] /\ u[Len(s)] = s[Len(s)] /\ u[2] = line /\ Changed(line, RangeOf(post))
        BY <1>6, <1>9, <2>2, <2>5, <3>2
      <4>2. PICK y : y = r.props
        OBVIOUS
      <4>3. /\ \A p : Prop(y, "begin", p) = Says(u[1], p)
            /\ \A p : Prop(y, "part", p) = Says(u[2], p)
            /\ \A p : Prop(y, "end", p) = Says(u[Len(s)], p)
        <5>1. 1 \in 1..h /\ 2 \in 1..h
          BY <2>1
        <5> QED
          BY <1>10, <1>11, <2>6, <4>2, <5>1 DEF Found, Tagged
      <4>4. RangeWarnings(y) = {}
        BY <1>11, <4>2 DEF Warnings
      <4>5. PICK b : b = Says(line, "begin")
        OBVIOUS
      <4>6. PICK e : e = Says(line, "end")
        OBVIOUS
      <4>7. /\ post \in Post /\ post.total \in Nat /\ post.begin \in Nat /\ post.end \in Nat
            /\ post.size \in Nat /\ post.end = post.begin + post.size - 1
        BY DEF WellMade, Post
      <4>8. b.is = "number" /\ e.is = "number" /\ post.size = e.n - b.n + 1
        <5>1. Prop(y, "begin", "total") = Number(post.total) /\ Prop(y, "end", "size") = Number(post.size)
          BY <2>4, <4>1, <4>3
        <5>2. Prop(y, "part", "begin") = b /\ Prop(y, "part", "end") = e
          BY <4>1, <4>3, <4>5, <4>6
        <5>3. /\ Prop(y, "part", "begin").is = "number" /\ Prop(y, "part", "end").is = "number"
              /\ post.size = Prop(y, "part", "end").n - Prop(y, "part", "begin").n + 1
          BY <1>13, <4>4, <4>7, <5>1, RangeFits
        <5> QED
          BY <5>2, <5>3
      <4>9. AllProps(Fields(line))
        BY <1>11, <2>1, <4>1
      <4>10. \/ b \in Forged(Number(post.begin)) /\ e = Number(post.end)
             \/ b = Number(post.begin) /\ e \in Forged(Number(post.end))
        BY <4>1, <4>5, <4>6, <4>9, ChangedRange
      <4>11. b = Number(post.begin) /\ e = Number(post.end)
        <5>1. \A n : Number(n).n = n
          BY Values
        <5>2. CASE b \in Forged(Number(post.begin)) /\ e = Number(post.end)
          <6>1. b.n \in Int /\ b.n = post.begin
            <7>1. b = Text \/ b = Empty \/ b = Number(0) \/ b = Number(post.begin + 1)
              BY <5>2, Values DEF Forged
            <7>2. Text.is # "number" /\ Empty.is # "number"
              BY DEF Text, Empty
            <7>3. b.n \in Int
              BY <4>7, <4>8, <5>1, <7>1, <7>2
            <7> QED
              BY <4>7, <4>8, <5>1, <5>2, <7>3
          <6> QED
            BY <4>7, <4>8, <5>2, <6>1, ForgedIs
        <5>3. CASE b = Number(post.begin) /\ e \in Forged(Number(post.end))
          <6>1. e.n \in Int /\ e.n = post.end
            <7>1. e = Text \/ e = Empty \/ e = Number(0) \/ e = Number(post.end + 1)
              BY <5>3, Values DEF Forged
            <7>2. Text.is # "number" /\ Empty.is # "number"
              BY DEF Text, Empty
            <7>3. e.n \in Int
              BY <4>7, <4>8, <5>1, <7>1, <7>2
            <7> QED
              BY <4>7, <4>8, <5>1, <5>3, <7>3
          <6> QED
            BY <4>7, <4>8, <5>3, <6>1, ForgedIs
        <5> QED
          BY <4>10, <5>2, <5>3
      <4> QED
        BY <4>1, <4>5, <4>6, <4>11
    <3> QED
      BY <3>1, <3>2
  <2> QED
    BY <1>4, <1>11, <1>13, <2>1, <2>6, <2>7, FoundAs
<1> QED
  BY <1>12, <1>13

-----------------------------------------------------------------------------
(* Two posts of one file, spliced in any way, the text of the first left   *)
(* out altogether among them.                                              *)
LEMMA SplicedIsRead ==
    ASSUME NEW p, NEW q, WellMade(p), WellMade(q), size \in Nat, Told(p, q),
           NEW s, NEW t, s = Written(p), t = Written(q),
           NEW u, u \in Spliced(s, t), NEW r, r = Read(u), Clean(r)
    PROVE  ReadAs(r) = As(p) \/ ReadAs(r) = As(q)
<1>1. s = Written(p)
  OBVIOUS
<1>2. t = Written(q)
  OBVIOUS
<1>3. PICK i \in 0..Len(s), j \in 1..(Len(t) + 1) : u = SubSeq(s, 1, i) \o SubSeq(t, j, Len(t))
  <2>1. PICK i \in 0..Len(s), j \in 1..(Len(t) + 1) : u = Joined(s, i, t, j)
    BY DEF Spliced
  <2> QED
    BY <2>1 DEF Joined
<1>4. PICK S : S = (LinesIn(p) \union LinesIn(q)) \union Contents
  OBVIOUS
<1>5. MadeText(p, s) /\ MadeText(q, t)
  BY <1>1, <1>2, MadeTextIs
<1>6. s \in Seq(S) /\ t \in Seq(S)
  <2>1. s \in Seq(LinesIn(p) \union Contents) /\ t \in Seq(LinesIn(q) \union Contents)
    BY <1>5 DEF MadeText
  <2>2. LinesIn(p) \union Contents \subseteq S /\ LinesIn(q) \union Contents \subseteq S
    BY <1>4
  <2> QED
    BY <2>1, <2>2
<1>7. TextOf(p, s) /\ TextOf(q, t)
  BY <1>5, TextOfIs
<1>8. p.total \in Nat /\ q.total \in Nat
  BY DEF WellMade, Post
<1>9. u \in Seq(S) /\ SplicedAt(u, s, i, t, j)
  BY <1>3, <1>6, PiecesAre
<1>10. Len(s) \in Nat /\ Len(t) \in Nat /\ i \in Nat /\ j \in Nat /\ Len(u) \in Nat
  <2>1. Len(s) \in Nat /\ Len(t) \in Nat /\ Len(u) \in Nat
    BY <1>6, <1>9
  <2> QED
    BY <2>1
<1>11. CASE i # 0
  <2>1. i \in 1..Len(s)
    BY <1>10, <1>11
  <2> QED
    BY <1>6, <1>7, <1>8, <1>9, <2>1, SplicedIsNoticed
<1>12. CASE i = 0
  <2>1. Len(u) = Len(t) + 1 - j
    BY <1>9, <1>10, <1>12 DEF SplicedAt
  <2>2. ASSUME NEW m \in 1..Len(u) PROVE u[m] = t[m + j - 1] /\ m + j - 1 \in 1..Len(t)
    <3>1. u[m] = t[m - i + j - 1] /\ m - i + j - 1 = m + j - 1
      BY <1>9, <1>10, <1>12 DEF SplicedAt
    <3>2. m + j - 1 \in 1..Len(t)
      BY <1>10, <2>1
    <3> QED
      BY <3>1, <3>2
  <2>3. CASE j = 1
    <3>1. Len(u) = Len(t) /\ \A m \in 1..Len(t) : u[m] = t[m]
      BY <1>10, <2>1, <2>2, <2>3
    <3>2. u = t
      BY <1>6, <1>9, <3>1, SeqEqual
    <3>3. r = Read(Written(q))
      BY <1>2, <3>2
    <3> QED
      BY <3>3, OwnText
  <2>4. CASE j # 1
    <3>1. \A m \in 1..Len(u) : ~Tagged(u[m], "begin")
      <4>1. \A m \in 1..Len(u) : m + j - 1 # 1
        BY <1>10, <2>4
      <4> QED
        BY <1>7, <2>2, <4>1 DEF TextOf
    <3>2. DOMAIN u = 1..Len(u)
      BY <1>9
    <3>3. r.error # NoError
      BY <3>1, <3>2, NoBegin
    <3> QED
      BY <3>3 DEF Clean
  <2> QED
    BY <2>3, <2>4
<1> QED
  BY <1>11, <1>12

(* No damage goes by.                                                      *)
LEMMA NoDamageGoesBy == ASSUME Inv, PostsMade, Numbered PROVE DamageIsNoticed
<1>1. PICK made : made = {ReadAs(Read(s)) : s \in Sent}
  OBVIOUS
<1>2. SUFFICES ASSUME NEW u \in Damaged, NEW r, r = Read(u)
               PROVE  r.error # "" \/ r.warnings # {} \/ ReadAs(r) \in made
  BY <1>1 DEF DamageIsNoticed
<1>3. size \in Nat /\ posts \in Seq(Post) /\ DOMAIN posts = 1..Len(posts)
  BY DEF Inv, Typed
<1>4. ASSUME NEW a \in 1..Len(posts) PROVE WellMade(posts[a]) /\ As(posts[a]) \in made
  <2>1. WellMade(posts[a])
    BY MadeIsWellMade
  <2>2. PICK s : s = Written(posts[a])
    OBVIOUS
  <2>3. s \in Sent /\ ReadAs(Read(s)) = As(posts[a])
    BY <1>3, <2>1, <2>2, OwnText DEF Sent
  <2> QED
    BY <1>1, <2>1, <2>3
<1>5. ASSUME Clean(r), NEW s \in Sent, NEW t \in Sent,
             u \in Spliced(s, t)
      PROVE  ReadAs(r) \in made
  <2>1. PICK a \in 1..Len(posts) : s = Written(posts[a])
    BY <1>3 DEF Sent
  <2>2. PICK b \in 1..Len(posts) : t = Written(posts[b])
    BY <1>3 DEF Sent
  <2>3. PICK p : p = posts[a]
    OBVIOUS
  <2>4. PICK q : q = posts[b]
    OBVIOUS
  <2>5. WellMade(p) /\ WellMade(q) /\ As(p) \in made /\ As(q) \in made
    BY <1>4, <2>3, <2>4
  <2>6. Told(p, q)
    BY <2>3, <2>4, ToldApart DEF Told
  <2>7. s = Written(p) /\ t = Written(q)
    BY <2>1, <2>2, <2>3, <2>4
  <2>8. ReadAs(r) = As(p) \/ ReadAs(r) = As(q)
    BY <1>2, <1>3, <1>5, <2>5, <2>6, <2>7, SplicedIsRead
  <2> QED
    BY <2>5, <2>8
<1>6. ASSUME Clean(r), NEW s \in Sent, u \in Garbled(s)
      PROVE  ReadAs(r) \in made
  <2>1. PICK a \in 1..Len(posts) : s = Written(posts[a])
    BY <1>3 DEF Sent
  <2>2. PICK p : p = posts[a]
    OBVIOUS
  <2>3. WellMade(p) /\ As(p) \in made
    BY <1>4, <2>2
  <2>4. u \in Garbled(Written(p))
    BY <1>6, <2>1, <2>2
  <2>5. ReadAs(r) = As(p)
    BY <1>2, <1>6, <2>3, <2>4, GarbledIsNoticed
  <2> QED
    BY <2>3, <2>5
<1>7. (\E s \in Sent, t \in Sent : u \in Spliced(s, t)) \/ (\E s \in Sent : u \in Garbled(s))
  <2> DEFINE splices == {Spliced(s, t) : s \in Sent, t \in Sent}
             garbles == {Garbled(s) : s \in Sent}
  <2>1. PICK d \in splices \union garbles : u \in d
    <3>1. Damaged = UNION (splices \union garbles)
      BY DEF Damaged
    <3>2. u \in Damaged
      OBVIOUS
    <3> HIDE DEF splices, garbles
    <3> QED
      BY <3>1, <3>2
  <2>2. CASE d \in splices
    BY <2>1, <2>2
  <2>3. CASE d \in garbles
    BY <2>1, <2>3
  <2> QED
    BY <2>2, <2>3
<1>8. CASE Clean(r)
  BY <1>2, <1>5, <1>6, <1>7, <1>8
<1>9. CASE ~Clean(r)
  BY <1>9 DEF Clean, NoError
<1> QED
  BY <1>8, <1>9

-----------------------------------------------------------------------------
(* Whatever the data, the size of the file and the number of its parts,    *)
(* and whatever calls threw in between: a damaged post that from_post      *)
(* takes without a warning has the data and the place in the file of one   *)
(* that was made (DamageIsNoticed of YEncoder: the checks of from_post on  *)
(* the properties of the =ybegin, =ypart and =yend lines).                 *)
THEOREM DamagedPostsAreNoticed == Spec => []DamageIsNoticed
<1>1. Init => PostsMade /\ Numbered
  <2> SUFFICES ASSUME Init PROVE PostsMade /\ Numbered
    OBVIOUS
  <2>1. posts = <<>> /\ Len(posts) = 0
    BY EmptySeq DEF Init
  <2>2. encode = "multi" => parts > 1
    BY DEF Init
  <2>3. encode # "singleEncodeError"
    BY DEF Init
  <2> QED
    BY <2>1, <2>2, <2>3 DEF PostsMade, Numbered
<1>2. Inv /\ PostsMade /\ Numbered => DamageIsNoticed
  BY NoDamageGoesBy
<1>3. Inv /\ PostsMade /\ Numbered /\ [Next]_vars => PostsMade' /\ Numbered'
  BY PostsMadeStep, NumberedStep
<1>4. Spec => []Inv
  BY Invariance
<1> QED
  BY <1>1, <1>2, <1>3, <1>4, PTL DEF Spec
=============================================================================
