------------------------------- MODULE MCChunks ------------------------------
(***************************************************************************)
(* The chunks the runs feed to the decoders: all short ones, and longer    *)
(* ones made of the sequences the decoders know, so that one sequence      *)
(* follows right after another in the middle of a chunk.                   *)
(***************************************************************************)
EXTENDS Naturals, Sequences
LOCAL INSTANCE SequencesExt

Upto(S, n) == UNION {[1..k -> S] : k \in 0..n}

Token == {<<"\r", "\n">>, <<"\r", "\n", ".">>, <<"\r">>, <<"\n">>, <<"=">>, <<"y">>, <<".">>, <<"a">>}

OfTokens(n) == {FlattenSeq(t) : t \in Upto(Token, n)}
=============================================================================
