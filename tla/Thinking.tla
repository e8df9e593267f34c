------------------------------ MODULE Thinking ------------------------------
(***************************************************************************)
(* The thinking router of internal/stream/thinking.go: it moves text       *)
(* between tags to the reasoning channel and removes the tags, which may   *)
(* be split over any number of deltas.  A text is a sequence of bytes, of  *)
(* which the router takes one at a time, also in the middle of a character *)
(* of several; what it sends on is a sequence of <<byte, reasoning>> pairs,*)
(* that is the pieces of the code without their boundaries.                *)
(***************************************************************************)
EXTENDS Naturals, SequencesExt

CONSTANTS
  Bytes,          \* external: what a text is made of
  ThinkingTags    \* thinkingTags: a tag to TRUE if it opens

ASSUME TagTable ==
  /\ DOMAIN ThinkingTags \subseteq Seq(Bytes) \ {<<>>}
  /\ \A tag \in DOMAIN ThinkingTags : ThinkingTags[tag] \in BOOLEAN /\ Head(tag) = "<"

NewRouter == [inThinking |-> FALSE, pending |-> <<>>, pendingReasoning |-> FALSE]

IsTagPrefix(s) == \E tag \in DOMAIN ThinkingTags : IsPrefix(s, tag)

On(text, reasoning) == [i \in DOMAIN text |-> <<text[i], reasoning>>]

\* What is held back when the stream ends.
Finalize(p) == On(p.pending, p.pendingReasoning \/ p.inThinking)

\* Mutation of FeedByte: the test is made before the byte is added.
FeedByteLate(fed, c, source) ==
  LET p    == fed.router
      held == [p EXCEPT !.pending = Append(@, c), !.pendingReasoning = @ \/ source]
      idle == [p EXCEPT !.pending = <<>>, !.pendingReasoning = FALSE]
  IN  IF held.pending \in DOMAIN ThinkingTags
      THEN [fed EXCEPT !.router = [idle EXCEPT !.inThinking = ThinkingTags[held.pending]]]
      ELSE IF IsTagPrefix(p.pending)
      THEN [fed EXCEPT !.router = held]
      ELSE [router |-> idle, out |-> fed.out \o Finalize(held)]

\* Mutation of FeedByte: the flag is that of the first byte held back.
FeedByteFirstFlag(fed, c, source) ==
  LET p    == fed.router
      held == [p EXCEPT !.pending = Append(@, c),
                        !.pendingReasoning = IF p.pending = <<>> THEN source ELSE @]
      idle == [p EXCEPT !.pending = <<>>, !.pendingReasoning = FALSE]
  IN  IF held.pending \in DOMAIN ThinkingTags
      THEN [fed EXCEPT !.router = [idle EXCEPT !.inThinking = ThinkingTags[held.pending]]]
      ELSE IF IsTagPrefix(held.pending)
      THEN [fed EXCEPT !.router = held]
      ELSE [router |-> idle, out |-> fed.out \o Finalize(held)]

\* One byte: the router after it, and what was sent on so far.  Only a "<"
\* starts an attempt at a tag; any other byte is sent on at once.  The byte that
\* ends an attempt goes where the attempt goes, without the rest of its character.
FeedByte(fed, c, source) ==
  LET p    == fed.router
      held == [p EXCEPT !.pending = Append(@, c), !.pendingReasoning = @ \/ source]
      idle == [p EXCEPT !.pending = <<>>, !.pendingReasoning = FALSE]
  IN  IF held.pending \in DOMAIN ThinkingTags
      THEN [fed EXCEPT !.router = [idle EXCEPT !.inThinking = ThinkingTags[held.pending]]]
      ELSE IF IsTagPrefix(held.pending)
      THEN [fed EXCEPT !.router = held]
      ELSE [router |-> idle, out |-> fed.out \o Finalize(held)]

\* The bytes of a text in order, each with its source.
FeedAll(fed, text) ==
  LET After[i \in 0..Len(text)] ==
        IF i = 0 THEN fed ELSE FeedByte(After[i - 1], text[i][1], text[i][2])
  IN  After[Len(text)]

Feed(fed, text, source) == FeedAll(fed, On(text, source))

\* Of a delta, the reasoning goes first.
Route(p, delta) ==
  Feed(Feed([router |-> p, out |-> <<>>], delta.reasoning, TRUE), delta.content, FALSE)

-----------------------------------------------------------------------------
(* The reference: the same for a text that is there as a whole, cut into   *)
(* tags, attempts at a tag that fail with their last byte, and single      *)
(* bytes.  text is a sequence of <<byte, reasoning>> pairs.                *)

Cut(text, i, j) == [k \in 1..j - i + 1 |-> text[i + k - 1][1]]

Ends(text, i) ==
  {j \in i..Len(text) : \/ j = Len(text) \/ ~IsTagPrefix(Cut(text, i, j))
                        \/ Cut(text, i, j) \in DOMAIN ThinkingTags}

FirstEnd(text, i) == CHOOSE j \in Ends(text, i) : \A k \in Ends(text, i) : j <= k

\* What the piece from i on, and all after it, become in and out of a thought.
Rest(text) ==
  LET From[i \in 1..Len(text) + 1] ==
        IF i = Len(text) + 1 THEN [thinking \in BOOLEAN |-> <<>>]
        ELSE LET j     == FirstEnd(text, i)
                 piece == Cut(text, i, j)
             IN  [thinking \in BOOLEAN |->
                    IF piece \in DOMAIN ThinkingTags THEN From[j + 1][ThinkingTags[piece]]
                    ELSE On(piece, thinking \/ \E k \in i..j : text[k][2]) \o From[j + 1][thinking]]
  IN  From

Routed(text) == Rest(text)[1][FALSE]

TextOf(delta) == On(delta.reasoning, TRUE) \o On(delta.content, FALSE)
=============================================================================
