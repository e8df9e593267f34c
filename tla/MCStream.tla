------------------------------ MODULE MCStream ------------------------------
EXTENDS Stream

\* <think> and </think>, and <thinking>, with one letter for each part.
Tags == (<<"<", "t", ">">> :> TRUE) @@ (<<"<", "/", "t", ">">> :> FALSE)
        @@ (<<"<", "t", "k", ">">> :> TRUE)

\* The letters, a character of two bytes, and the pieces of the arguments of
\* tool calls.
SomeBytes == {"<", "/", ">", "t", "k", "x", "c3", "a9", "f", "g", "h"}

\* The role comes first, alone.  The other deltas end in the middle of a tag,
\* which the next one completes, in the same channel or the other, or does not, and
\* of which one runs into a character.  The call of the one has a gap before it,
\* unless the other comes too.
Role  == [role |-> TRUE, reasoning |-> <<>>, content |-> <<>>, calls |-> <<>>]
Plan  == [role |-> FALSE, reasoning |-> <<"c3", "a9", "<">>,
          content |-> <<"c3", "a9", "<", "/">>, calls |-> <<<<1, "f">>>>]
Thought == [role |-> FALSE, reasoning |-> <<"t", ">", "x", "<">>,
            content |-> <<"t", ">", "x", "<", "t">>, calls |-> <<<<1, "g">>, <<0, "h">>>>]

SomeDeltas == {Role, Plan, Thought}
CutDeltas  == {Thought}

\* One kind of those ParseSSE treats alike.
SomeKinds == {"blank", "usage", "tail", "contmore", "done", "queue"}
=============================================================================
