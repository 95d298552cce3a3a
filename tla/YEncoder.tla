------------------------------ MODULE YEncoder ------------------------------
(***************************************************************************)
(* YEncoder (src/index.js), the object multi_post returns: it is told the  *)
(* size of a file and the number of parts, is fed the parts one by one and *)
(* makes a post of each, or throws.  Its checks lie between its            *)
(* assignments, so a call that throws may leave it changed, and the caller *)
(* may go on calling it.                                                   *)
(*                                                                         *)
(* A post is what its =ybegin, =ypart and =yend lines say of the file;     *)
(* Written are the lines themselves, for from_post to read.  A CRC32 is    *)
(* modelled by the data it is of: crc32_combine(a, b, len) then is         *)
(* concatenation.                                                          *)
(***************************************************************************)
EXTENDS FromPost

CONSTANTS Data,         \* what a call may be given
          Size, Parts,  \* the sizes and numbers of parts announced
          MaxCalls      \* bound: calls to one encoder

ASSUME DataAssumption == Data \subseteq Seq(Nat)
ASSUME AnnouncedAssumption == Size \subseteq Nat /\ Parts \subseteq Nat /\ MaxCalls \in Nat

VARIABLES size, parts,  \* as announced
          part, pos, crc,
          encode,       \* which function the encode property holds
          yInfo,        \* whether the header is still there
          posts,        \* history: the posts returned,
          calls         \*   and the outcome of every call

vars == <<size, parts, part, pos, crc, encode, yInfo, posts, calls>>

Init == /\ size \in Size /\ parts \in Parts
        /\ part = 0 /\ pos = 0 /\ crc = <<>>
        /\ encode = IF parts > 1 THEN "multi" ELSE "_encodeSingle"
        /\ yInfo = TRUE
        /\ posts = <<>> /\ calls = <<>>

Called(outcome) == /\ Len(calls) < MaxCalls
                   /\ calls' = Append(calls, outcome)
                   /\ UNCHANGED <<size, parts>>

Posted(post) == Called("ok") /\ posts' = Append(posts, post)
Threw(error) == Called(error) /\ UNCHANGED posts

-----------------------------------------------------------------------------
(* encode of a multi-part file.                                            *)

ExceededParts == /\ encode = "multi" /\ part + 1 > parts
                 /\ Threw("Exceeded number of specified yEnc parts")
                 /\ part' = part + 1
                 /\ UNCHANGED <<pos, crc, encode, yInfo>>

ExceededSize(data) == /\ encode = "multi" /\ part + 1 <= parts
                      /\ pos + Len(data) > size
                      /\ Threw("Exceeded total file size")
                      /\ part' = part + 1
                      /\ UNCHANGED <<pos, crc, encode, yInfo>>

\* Fault: the first part of several is taken for the last.
IsLastFault(data) == part + 1 = 1

IsLast(data) == part + 1 = parts

\* Fault: a last part that is too short may be tried again.
SizeMismatchFault(data) == /\ encode = "multi" /\ IsLast(data)
                           /\ pos + Len(data) < size
                           /\ Threw("File size doesn't match total data length")
                           /\ crc' = crc \o data
                           /\ UNCHANGED <<part, pos, encode, yInfo>>

\* The CRC has been combined by the time the last part is found too short.
SizeMismatch(data) == /\ encode = "multi" /\ IsLast(data)
                      /\ pos + Len(data) < size
                      /\ Threw("File size doesn't match total data length")
                      /\ part' = part + 1 /\ crc' = crc \o data
                      /\ UNCHANGED <<pos, encode, yInfo>>

\* Fault: pos is set as in _encodeSingle.
PartFault(data) == /\ encode = "multi" /\ part + 1 <= parts
                   /\ pos + Len(data) <= size
                   /\ IsLast(data) => pos + Len(data) = size
                   /\ part' = part + 1 /\ crc' = crc \o data /\ pos' = Len(data)
                   /\ yInfo' = (yInfo /\ ~IsLast(data))
                   /\ Posted([part |-> part', total |-> parts, begin |-> pos + 1, end |-> pos',
                              size |-> Len(data), pcrc32 |-> data,
                              crc32 |-> IF IsLast(data) THEN <<crc'>> ELSE <<>>])
                   /\ UNCHANGED encode

Part(data) == /\ encode = "multi" /\ part + 1 <= parts
              /\ pos + Len(data) <= size
              /\ IsLast(data) => pos + Len(data) = size
              /\ part' = part + 1 /\ crc' = crc \o data /\ pos' = pos + Len(data)
              /\ yInfo' = (yInfo /\ ~IsLast(data))
              /\ Posted([part |-> part', total |-> parts, begin |-> pos + 1, end |-> pos',
                         size |-> Len(data), pcrc32 |-> data,
                         crc32 |-> IF IsLast(data) THEN <<crc'>> ELSE <<>>])
              /\ UNCHANGED encode

-----------------------------------------------------------------------------
(* _encodeSingle: the file in one post.                                    *)

SingleMismatch(data) == /\ encode = "_encodeSingle" /\ Len(data) # size
                        /\ Threw("File size doesn't match total data length")
                        /\ UNCHANGED <<part, pos, crc, encode, yInfo>>

Single(data) == /\ encode = "_encodeSingle" /\ Len(data) = size
                /\ encode' = "singleEncodeError"
                /\ part' = 1 /\ pos' = Len(data) /\ crc' = data /\ yInfo' = FALSE
                /\ Posted([part |-> 1, total |-> 1, begin |-> 1, end |-> Len(data),
                           size |-> Len(data), pcrc32 |-> data, crc32 |-> <<data>>])

singleEncodeError == /\ encode = "singleEncodeError"
                     /\ Threw("Exceeded number of specified yEnc parts")
                     /\ UNCHANGED <<part, pos, crc, encode, yInfo>>

-----------------------------------------------------------------------------
(* The text of a post, and what may become of it.                          *)

Name == Field("name", Text)

\* One byte to a line; data of no bytes leaves an empty line.
Body(data) == IF data = <<>> THEN <<Content(<<>>)>>
              ELSE [i \in DOMAIN data |-> Content(<<data[i]>>)]

\* post and _encodeSingle write the same.
WrittenSingle(post) ==
    <<Control("begin", <<Field("line", Number(1)), Field("size", Number(post.size)), Name>>)>>
    \o Body(post.pcrc32)
    \o <<Control("end", <<Field("size", Number(post.size)), Field("crc32", Crc(post.pcrc32))>>)>>

WrittenPart(post) ==
    <<Control("begin", <<Field("part", Number(post.part)), Field("total", Number(post.total)),
                         Field("line", Number(1)), Field("size", Number(size)), Name>>),
      Control("part",  <<Field("begin", Number(post.begin)), Field("end", Number(post.end))>>)>>
    \o Body(post.pcrc32)
    \o <<Control("end", <<Field("size", Number(post.size)), Field("part", Number(post.part)),
                          Field("pcrc32", Crc(post.pcrc32))>>
                        \o [i \in DOMAIN post.crc32 |-> Field("crc32", Crc(post.crc32[i]))])>>

Written(post) == IF post.total > 1 THEN WrittenPart(post) ELSE WrittenSingle(post)

\* A text that breaks off after some line, and perhaps goes on with another, or the same,
\* from some line.
Joined(s, i, t, j) == SubSeq(s, 1, i) \o SubSeq(t, j, Len(t))
Spliced(s, t) == {Joined(s, i, t, j) : i \in 0..Len(s), j \in 1..(Len(t) + 1)}

\* A text with the value of one property replaced, or the property made unreadable.
Forged(v) == {Text, Empty, Number(0)}
             \union IF v.is = "number" THEN {Number(v.n + 1)} ELSE {Crc(<<0>>)}
Garbled(s) ==
    UNION {UNION {{[s EXCEPT ![i].fields[k] = f] :
                     f \in {Field("", Absent)} \union {Field(s[i].fields[k].prop, w) :
                                                       w \in Forged(s[i].fields[k].val)}}
                  : k \in DOMAIN s[i].fields} : i \in DOMAIN s}

-----------------------------------------------------------------------------
Next == \/ ExceededParts \/ singleEncodeError
        \/ \E data \in Data : \/ ExceededSize(data) \/ SizeMismatch(data) \/ Part(data)
                              \/ SingleMismatch(data) \/ Single(data)

Spec == Init /\ [][Next]_vars

-----------------------------------------------------------------------------
(* Properties.                                                             *)

(* Whatever calls throw in between, the posts cover the file from its      *)
(* first byte without a gap or an overlap: =ypart begin and end.           *)
PostsTileFile ==
    \A i \in 1..Len(posts) :
        /\ posts[i].begin = IF i = 1 THEN 1 ELSE posts[i - 1].end + 1
        /\ posts[i].end = posts[i].begin + posts[i].size - 1 /\ posts[i].end <= size

(* A crc32 is on the last post only, once the file is complete, and it is  *)
(* that of the data of all the posts, though a call that threw may have    *)
(* combined its own data into this.crc.                                    *)
CrcIsOfWholeFile ==
    \A i \in 1..Len(posts) : posts[i].crc32 # <<>> =>
        /\ i = Len(posts) /\ posts[i].end = size
        /\ posts[i].crc32[1] = FlattenSeq([j \in 1..i |-> posts[j].pcrc32])

(* No call gets as far as yInfo.length once the header has been dropped    *)
(* (this.yInfo = null): a call after the last part throws the error that   *)
(* is meant for it.                                                        *)
HeaderOutlivesParts == ~yInfo => encode = "singleEncodeError" \/ (encode = "multi" /\ part >= parts)

(* What from_post reads in an article of these lines.                      *)
Read(lines) == from_post([lines |-> lines, ended |-> TRUE])

(* from_post finds nothing to complain of in a post as it was made, and    *)
(* gets the data of it back, but for parts of no bytes, whose =ypart line  *)
(* has an end before its begin.                                            *)
OwnPostsParse ==
    \A i \in DOMAIN posts : LET read == Read(Written(posts[i])) IN
        /\ read.error = "" /\ read.data = posts[i].pcrc32
        /\ posts[i].size > 0 \/ posts[i].total <= 1 => read.warnings = {}

\* The data and the place in the file a post was read as.
ReadAs(read) == [data |-> read.data, begin |-> Prop(read.props, "part", "begin"),
                 end |-> Prop(read.props, "part", "end")]

\* The texts of the posts made, and what may have become of them on the way.
Sent    == {Written(posts[i]) : i \in DOMAIN posts}
Damaged == UNION ({Spliced(s, t) : s \in Sent, t \in Sent} \union {Garbled(s) : s \in Sent})

(* Whatever happens to the lines of the posts on the way, lines missing or *)
(* repeated, one post going on as another, or one property changed: a post *)
(* that from_post takes without a warning has the data and the place in    *)
(* the file of one that was made.                                          *)
DamageIsNoticed ==
    LET made == {ReadAs(Read(s)) : s \in Sent}
    IN  \A s \in Damaged : LET read == Read(s) IN
            read.error # "" \/ read.warnings # {} \/ ReadAs(read) \in made

(* "This implementation will only generate multi-part posts sequentially": *)
(* the posts returned are parts 1, 2, 3... (README.md).  The code counts   *)
(* the calls that throw as well.                                           *)
PartsAreSequential == \A i \in 1..Len(posts) : posts[i].part = i
=============================================================================
