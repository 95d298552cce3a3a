------------------------------ MODULE MCIndexJs ------------------------------
(***************************************************************************)
(* What src/index.js adds to the native calls, in one run: a caller who    *)
(* either decodes articles with decodeChunk, or makes the posts of a file  *)
(* and has them read by from_post.  The two share no state.                *)
(***************************************************************************)
EXTENDS YEncoder, NodeDecode, MCChunks

ASSUME TextsAssumption == Texts /\ MaxFed \in Nat

\* Pieces of one to three bytes; articles are resumed with the texts of
\* decodePrev, with those alone or after another byte.
MCChunk == Upto(Char, 1) \union {<<CR, LF>>, <<CR, LF, DOT>>, <<EQ, Y>>, <<DOT, CR, LF>>}
Prevs   == {decodePrev[s] : s \in State}
MCPrev  == Prevs \union {<<CR, LF, DOT, EQ>>} \union {<<"a">> \o t : t \in Prevs}
NoPrev  == {}

\* A file is written in pieces of up to two bytes.
MCData == Upto({1, 2}, 2)

VARIABLE which                              \* what the caller is doing

MCInit == \/ which = "decoding" /\ CallerInit
             /\ size = 0 /\ parts = 0 /\ part = 0 /\ pos = 0 /\ crc = <<>>
             /\ encode = "_encodeSingle" /\ yInfo = TRUE /\ posts = <<>> /\ calls = <<>>
          \/ which = "posting" /\ Init /\ CallerInit

MCNext == /\ UNCHANGED which
          /\ \/ which = "decoding" /\ CallerNext /\ UNCHANGED vars
             \/ which = "posting" /\ Next /\ UNCHANGED callerVars

MCSpec == MCInit /\ [][MCNext]_<<which, vars, callerVars>>
=============================================================================
