----------------------------- MODULE YencStream ------------------------------
(***************************************************************************)
(* What incremental decoding promises (decode_end, src/src/decoder.h): the *)
(* stream arrives in chunks cut anywhere, and the decoder carries only the *)
(* context from one call to the next, so that the output and the position  *)
(* at which the data ends depend on the bytes and never on the cuts.       *)
(*                                                                         *)
(* An implementation may look ahead and skip several bytes at once, so a   *)
(* step consumes one, two or three of them.                                *)
(***************************************************************************)
EXTENDS Naturals, Sequences

CONSTANTS Chunk,        \* the chunks a call may be given
          Start,        \* the context a stream starts in
          To(_, _),     \* To(ctx, c): the context after byte c
          Yields(_, _), \* the bytes it decodes to
          Ends(_, _)    \* whether it ends the data, and how

VARIABLES chunk,        \* the chunk of the current (or last) call
          at,           \* how many bytes of it have been consumed
          decoded       \* [ctx, out, ended]: what they amount to

vars == <<chunk, at, decoded>>

Fresh(ctx) == [ctx |-> ctx, out |-> <<>>, ended |-> "NONE"]

Eat(d, c) == [ctx   |-> To(d.ctx, c),
              out   |-> d.out \o Yields(d.ctx, c),
              ended |-> Ends(d.ctx, c)]

\* All the bytes of s, or those up to the end of the data: what they amount
\* to, and how many they are.
After(s, ctx) ==
    LET d[n \in 0..Len(s)] ==
          IF n = 0 THEN [decoded |-> Fresh(ctx), read |-> 0]
          ELSE LET before == d[n - 1]
               IN  IF before.decoded.ended # "NONE" THEN before
                   ELSE [decoded |-> Eat(before.decoded, s[n]), read |-> n]
    IN  d[Len(s)]

Init == /\ chunk = <<>>
        /\ at = 0
        /\ decoded = Fresh(Start)

\* A call is given a chunk.
Deliver == /\ chunk = <<>>
           /\ chunk' \in Chunk
           /\ UNCHANGED <<at, decoded>>

Over == at = Len(chunk) \/ decoded.ended # "NONE"

\* Its result is collected; the next call continues from its context.
Collect == /\ Over
           /\ chunk' = <<>>
           /\ at' = 0
           /\ decoded' = Fresh(decoded.ctx)

\* Or the context is dropped: the next call starts another stream.
Restart == /\ Over
           /\ chunk' = <<>>
           /\ at' = 0
           /\ decoded' = Fresh(Start)

Consume1 == /\ decoded.ended = "NONE"
            /\ at + 1 <= Len(chunk)
            /\ decoded' = Eat(decoded, chunk[at + 1])
            /\ at' = at + 1
            /\ UNCHANGED chunk

Consume2 == /\ decoded.ended = "NONE"
            /\ at + 2 <= Len(chunk)
            /\ LET d == Eat(decoded, chunk[at + 1])
               IN  /\ d.ended = "NONE"
                   /\ decoded' = Eat(d, chunk[at + 2])
            /\ at' = at + 2
            /\ UNCHANGED chunk

Consume3 == /\ decoded.ended = "NONE"
            /\ at + 3 <= Len(chunk)
            /\ LET d == Eat(decoded, chunk[at + 1])
                   e == Eat(d, chunk[at + 2])
               IN  /\ d.ended = "NONE"
                   /\ e.ended = "NONE"
                   /\ decoded' = Eat(e, chunk[at + 3])
            /\ at' = at + 3
            /\ UNCHANGED chunk

Next == Deliver \/ Collect \/ Restart \/ Consume1 \/ Consume2 \/ Consume3

Spec == Init /\ [][Next]_vars
=============================================================================
