------------------------------- MODULE Stream -------------------------------
(***************************************************************************)
(* One generation's stream, from the upstream's 200 to the client:         *)
(* probeQueueEnvelope reads it, ParseSSE takes it apart line by line, the  *)
(* thinking router moves text between channels, and Server.relay writes    *)
(* what comes out to the client, as a stream or as one response.           *)
(*                                                                         *)
(* A line is a record of its kind and the delta it carries, if any.  A     *)
(* "head" is a data line that ends inside its JSON; "more" is a further    *)
(* piece of it and "tail" its last one, "contmore" and "cont" the same     *)
(* without the data: prefix.  A delta has a role or none and fragments of  *)
(* tool calls next to its text: the call's index and a piece of its        *)
(* arguments.                                                              *)
(***************************************************************************)
EXTENDS Thinking

CONSTANTS
  Deltas,      \* external: what a delta may carry
  InPieces,    \* external: those whose JSON may come on several lines
  Marked,      \* external: those whose text has the marker of the model's queue
  Leads,       \* external: the first bytes of the characters of several bytes
  Kinds,       \* external: the kinds of the other lines in use
  MaxLines,    \* bound: lines of a stream
  ProbeLines,  \* queueProbeBytes, as lines
  IncludeUsage \* ChatRequest.IncludeUsage

NoDelta == [role |-> FALSE, reasoning |-> <<>>, content |-> <<>>, calls |-> <<>>]
\* A JSON value with another one in it.
Garbled == [role |-> FALSE, reasoning |-> <<"?">>, content |-> <<"?">>, calls |-> <<>>]

\* "queue", "quota" and "error" are envelopes with a status other than 200, an
\* "empty" line is a data line of nothing but spaces, in a value or between two.
Closing == {"tail", "cont"}
Pieces  == {"more", "contmore"} \cup Closing
Plain   == {"blank", "control", "empty", "usage", "done",
            "queue", "quota", "error", "malformed"} \cup Pieces
Lines   == [kind : {"delta"}, delta : Deltas] \cup [kind : {"head"}, delta : InPieces]
           \cup [kind : Kinds, delta : {NoDelta}]

ASSUME StreamBounds == MaxLines \in Nat /\ ProbeLines \in Nat /\ IncludeUsage \in BOOLEAN
ASSUME LineKinds    == Kinds \subseteq Plain
ASSUME SomeText     == Marked \cup InPieces \subseteq Deltas /\ NoDelta \notin Deltas /\ Garbled \notin Deltas
ASSUME DeltaTypes   == Deltas \subseteq [role : BOOLEAN, reasoning : Seq(Bytes),
                                         content : Seq(Bytes), calls : Seq(Nat \X Bytes)]

VARIABLES
  sent,        \* the lines the upstream has sent and the probe has read
  ended,       \* external: how its connection ended
  expired,     \* the request's context is done
  gone,        \* the client has left
  streaming,   \* ChatRequest.Stream
  phase,       \* where the request is
  headLen,     \* lines of them in the probe's head
  headDone,    \* the head is complete
  pos,         \* lines ParseSSE has consumed
  incomplete,  \* the delta whose JSON is incomplete
  router,      \* the thinking router
  saw,         \* a delta with something in it was written
  role,        \* the client, or the accumulator, has a role
  text,        \* and what it has of the text
  tools,       \* and of the tool calls: by index, the pieces
  events,      \* what the client was sent
  status       \* what relay returns

upstream == <<sent, ended>>
context  == <<expired, gone>>
probe    == <<headLen, headDone>>
parser   == <<pos, incomplete, router>>
client   == <<saw, role, text, tools, events, status>>
streamVars == <<upstream, context, streaming, phase, probe, parser, client>>

StreamInit ==
  /\ sent = <<>> /\ ended = "open"
  /\ expired = FALSE /\ gone = FALSE
  /\ streaming \in BOOLEAN
  /\ phase = "probe" /\ headLen = 0 /\ headDone = FALSE
  /\ pos = 0 /\ incomplete = NoDelta /\ router = NewRouter
  /\ saw = FALSE /\ role = FALSE /\ text = <<>> /\ tools = <<>> /\ events = <<>> /\ status = 0

-----------------------------------------------------------------------------
(* The upstream, the clock and the client.                                 *)

End(how) ==
  /\ phase = "probe" /\ ended = "open" /\ ended' = how
  /\ UNCHANGED <<sent, context, streaming, phase, probe, parser, client>>

\* TotalRequestTimeout.
Expire ==
  /\ ~expired /\ expired' = TRUE
  /\ UNCHANGED <<upstream, gone, streaming, phase, probe, parser, client>>

Leave ==
  /\ ~gone /\ gone' = TRUE /\ expired' = TRUE
  /\ UNCHANGED <<upstream, streaming, phase, probe, parser, client>>

-----------------------------------------------------------------------------
(* probeQueueEnvelope: the head is read up to its first blank line or to   *)
(* the limit, then everything else up to the end of the stream, and an     *)
(* error of the connection or the end of the context is forgotten.         *)

\* A line arrives; one that was sent and not read is like one not sent.
Receive(l) == phase = "probe" /\ ended = "open" /\ Len(sent) < MaxLines /\ sent' = Append(sent, l)

ReadHead(l) ==
  /\ ~headDone /\ Receive(l)
  /\ headLen' = headLen + 1
  /\ headDone' = (l.kind = "blank" \/ headLen + 1 > ProbeLines)
  /\ UNCHANGED <<ended, context, streaming, phase, parser, client>>

ReadRest(l) ==
  /\ headDone /\ Receive(l)
  /\ UNCHANGED <<ended, context, streaming, phase, probe, parser, client>>

\* IsQueueError: the marker anywhere in the head.
IsQueueError == \E i \in 1..headLen : sent[i].kind = "queue" \/ sent[i].delta \in Marked

\* Mutation of ReadEnd: the body goes on being read after the context is done.
ReadEndDeaf ==
  /\ phase = "probe"
  /\ ended # "open"
  /\ phase' = IF IsQueueError THEN "queued" ELSE "parse"
  /\ UNCHANGED <<upstream, context, streaming, probe, parser, client>>

ReadEnd ==
  /\ phase = "probe"
  /\ expired \/ ended # "open"
  /\ phase' = IF IsQueueError THEN "queued" ELSE "parse"
  /\ UNCHANGED <<upstream, context, streaming, probe, parser, client>>

-----------------------------------------------------------------------------
(* ParseSSE on what the probe has read, with relay's emit.                 *)

Line        == sent[pos + 1]
Parsing     == phase = "parse" /\ pos < Len(sent)
Assembling  == incomplete # NoDelta
Consumed    == pos' = pos + 1

\* relay's answer to an error of ParseSSE; partial is what it says of the
\* deltas before it.
Fail(code) ==
  /\ phase' = "over" /\ status' = code
  /\ events' = IF streaming THEN events \o <<IF saw THEN "partial" ELSE "error", "[DONE]">>
               ELSE <<"error">>
  /\ role' = (streaming /\ role)
  /\ text' = IF streaming THEN text ELSE <<>>
  /\ tools' = IF streaming THEN tools ELSE <<>>
  /\ UNCHANGED <<saw, incomplete, router>>

\* WriteEvent; a response that is no stream has no events.
Written(kind) == IF streaming THEN Append(events, kind) ELSE events

\* The pieces of one call among fragments.
PiecesOf(calls, i) ==
  FlattenSeq([k \in DOMAIN calls |-> IF calls[k][1] = i THEN <<calls[k][2]>> ELSE <<>>])

Indexes(calls) == {calls[k][1] : k \in DOMAIN calls}

\* Mutation of Add: a fragment replaces what was there of its call.
AddLast(t, calls) ==
  [i \in DOMAIN t \cup Indexes(calls) |-> IF i \in Indexes(calls) THEN PiecesOf(calls, i) ELSE t[i]]

\* Accumulator.Add, and what a client does with the fragments it is sent.
Add(t, calls) ==
  [i \in DOMAIN t \cup Indexes(calls) |->
     (IF i \in DOMAIN t THEN t[i] ELSE <<>>) \o PiecesOf(calls, i)]

\* The response lists the calls by index, from 0 up to their number.
Listed(t) == [i \in DOMAIN t \cap 0..Cardinality(DOMAIN t) - 1 |-> t[i]]

\* Mutation of Emit: only text in the content channel counts as seen.
EmitSawContent(delta) ==
  \E fed \in {Route(router, delta)} :
      /\ router' = fed.router /\ role' = (role \/ delta.role)
      /\ text' = text \o fed.out /\ tools' = Add(tools, delta.calls)
      /\ saw' = (saw \/ (streaming /\ \E i \in DOMAIN fed.out : ~fed.out[i][2]))
      /\ events' = Written("delta")
      /\ UNCHANGED <<phase, status>>

\* A delta is routed and written, or added to the accumulator.
Emit(delta) ==
  \E fed \in {Route(router, delta)} :
      /\ router' = fed.router /\ role' = (role \/ delta.role)
      /\ text' = text \o fed.out /\ tools' = Add(tools, delta.calls)
      /\ saw' = (saw \/ (streaming /\ (delta.role \/ fed.out # <<>> \/ delta.calls # <<>>)))
      /\ events' = Written("delta")
      /\ UNCHANGED <<phase, status>>

Skip ==
  /\ Parsing /\ Consumed
  /\ \/ Line.kind \in {"blank", "control", "empty"}
     \/ Line.kind \in {"cont", "contmore"} /\ ~Assembling
  /\ UNCHANGED <<upstream, context, streaming, phase, probe, incomplete, router, client>>

Delta ==
  /\ Parsing /\ Consumed /\ ~Assembling
  /\ Line.kind = "delta" /\ Emit(Line.delta)
  /\ UNCHANGED <<upstream, context, streaming, probe, incomplete>>

HeadOfDelta ==
  /\ Parsing /\ Consumed /\ ~Assembling
  /\ Line.kind = "head" /\ incomplete' = Line.delta
  /\ UNCHANGED <<upstream, context, streaming, phase, probe, router, client>>

\* Mutation of RestOfDelta: every further piece is taken for the last.
RestOfDeltaEarly ==
  /\ Parsing /\ Consumed /\ Assembling /\ Line.kind \in Pieces
  /\ Emit(IF Line.kind \in Closing THEN incomplete ELSE NoDelta)
  /\ incomplete' = NoDelta
  /\ UNCHANGED <<upstream, context, streaming, probe>>

\* The last piece completes the value; a garbled one may be completed into any.
RestOfDelta ==
  /\ Parsing /\ Consumed /\ Assembling /\ Line.kind \in Closing
  /\ \E d \in IF incomplete = Garbled THEN Deltas \cup {NoDelta} ELSE {incomplete} : Emit(d)
  /\ incomplete' = NoDelta
  /\ UNCHANGED <<upstream, context, streaming, probe>>

\* A line of its own in the middle of a JSON value garbles the value; that, and
\* a piece of a garbled value, leaves it incomplete or makes it malformed.
Foreign == {"delta", "head", "usage", "queue", "quota", "error", "malformed"}
Garbles == Assembling /\ (Line.kind \in Foreign \/ (incomplete = Garbled /\ Line.kind \in Pieces))

StillIncomplete ==
  /\ Parsing /\ Consumed /\ Assembling
  /\ \/ Line.kind \in Pieces \ Closing /\ UNCHANGED incomplete
     \/ Garbles /\ incomplete' = Garbled
  /\ UNCHANGED <<upstream, context, streaming, phase, probe, router, client>>

\* A usage event is written only to a client that asked for it.
Usage ==
  /\ Parsing /\ Consumed /\ ~Assembling /\ Line.kind = "usage"
  /\ events' = IF IncludeUsage THEN Written("usage") ELSE events
  /\ UNCHANGED <<upstream, context, streaming, phase, probe, incomplete, router, saw, role, text, tools, status>>

\* Mutation of Done: the loop goes on.
DoneContinues ==
  /\ Parsing /\ Consumed /\ ~Assembling /\ Line.kind = "done"
  /\ text' = text \o Finalize(router)
  /\ router' = [router EXCEPT !.pending = <<>>, !.pendingReasoning = FALSE]
  /\ status' = 200
  /\ tools' = IF streaming THEN tools ELSE Listed(tools)
  /\ events' = IF streaming THEN Append(events, "[DONE]") ELSE <<"response">>
  /\ UNCHANGED <<upstream, context, streaming, phase, probe, incomplete, saw, role>>

\* [DONE], plain or in an envelope: the router gives out what it holds back.
Done ==
  /\ Parsing /\ Consumed /\ ~Assembling /\ Line.kind = "done"
  /\ phase' = "over" /\ status' = 200
  /\ text' = text \o Finalize(router)
  /\ router' = [router EXCEPT !.pending = <<>>, !.pendingReasoning = FALSE]
  /\ tools' = IF streaming THEN tools ELSE Listed(tools)
  /\ events' = IF ~streaming THEN <<"response">>
               ELSE events \o (IF router.pending = <<>> THEN <<>> ELSE <<"delta">>) \o <<"[DONE]">>
  /\ UNCHANGED <<upstream, context, streaming, probe, incomplete, saw, role>>

\* An envelope with another status than 200, of which only the quota is told
\* apart.
EnvelopeError ==
  /\ Parsing /\ Consumed /\ ~Assembling
  /\ Line.kind \in {"queue", "quota", "error"}
  /\ Fail(IF Line.kind = "quota" THEN 403 ELSE 502)
  /\ UNCHANGED <<upstream, context, streaming, probe>>

Malformed ==
  /\ Parsing /\ Consumed
  /\ \/ ~Assembling /\ Line.kind \in {"malformed", "tail", "more"}
     \/ Assembling /\ Line.kind = "done"
     \/ Garbles
  /\ Fail(502)
  /\ UNCHANGED <<upstream, context, streaming, probe>>

\* The lines end without [DONE].
Truncated ==
  /\ phase = "parse" /\ pos = Len(sent)
  /\ Fail(502)
  /\ UNCHANGED <<upstream, context, streaming, probe, pos>>

\* The context is done: the select of ParseSSE may see it before any line.
\* Its idle timer cannot fire: by now the body is in memory.
ContextDone ==
  /\ phase = "parse" /\ expired
  /\ Fail(502)
  /\ UNCHANGED <<upstream, context, streaming, probe, pos>>

\* A write to a client that has left fails, and so does all that follows it.
WriteFails ==
  /\ Parsing /\ Consumed /\ streaming /\ gone
  /\ Line.kind \in {"delta", "usage", "done"} \cup Closing
  /\ phase' = "over" /\ status' = 502
  /\ UNCHANGED <<upstream, context, streaming, probe, incomplete, router, saw, role, text, tools, events>>

-----------------------------------------------------------------------------
Handle ==
  \/ \E l \in Lines : ReadHead(l) \/ ReadRest(l)
  \/ ReadEnd
  \/ Skip \/ Delta \/ HeadOfDelta \/ RestOfDelta \/ StillIncomplete \/ Usage \/ Done
  \/ EnvelopeError \/ Malformed \/ Truncated \/ ContextDone \/ WriteFails

Over == phase \in {"over", "queued"}

StreamNext ==
  \/ \E how \in {"eof", "error"} : End(how)
  \/ ~Over /\ (Expire \/ Leave)
  \/ Handle

StreamSpec == StreamInit /\ [][StreamNext]_streamVars

\* The context has a deadline (WithTimeout in chat).  Once it is done, a read of
\* the body returns and the select of ParseSSE has a case that is ready; the
\* lines before it are finitely many.
StreamFairSpec ==
  StreamSpec /\ WF_streamVars(ReadEnd) /\ WF_streamVars(ContextDone)
             /\ WF_streamVars(~Over /\ Expire)

-----------------------------------------------------------------------------
StreamTypeOK ==
  /\ sent \in Seq(Lines) /\ Len(sent) <= MaxLines
  /\ ended \in {"open", "eof", "error"}
  /\ {expired, gone, streaming, headDone, saw, role} \subseteq BOOLEAN
  /\ phase \in {"probe", "queued", "parse", "over"}
  /\ headLen \in 0..Len(sent) /\ pos \in 0..Len(sent)
  /\ incomplete \in Deltas \cup {NoDelta, Garbled} /\ DOMAIN tools \subseteq Nat
  /\ router.pending = <<>> \/ IsTagPrefix(router.pending)
  /\ status \in {0, 200, 403, 502}

(* What a client may rely on.                                              *)

\* A stream ends with one [DONE], whatever the upstream, the connection and the
\* clock did (README.md:277): after it nothing is written, and it is there when
\* relay returns to a client that has not left.
OneDone ==
  streaming =>
    /\ \A i \in 1..Len(events) - 1 : events[i] # "[DONE]"
    /\ phase = "over" /\ ~gone => events # <<>> /\ Last(events) = "[DONE]"

\* The upstream put a line of its own into a JSON value before its last piece,
\* among the first k lines.
Interrupted(k) ==
  \E i, j \in 1..k : /\ i < j /\ sent[i].kind = "head" /\ sent[j].kind \in Foreign
                     /\ \A m \in i + 1..j - 1 : sent[m].kind \notin Closing

Answered == phase = "over" /\ status = 200 /\ ~Interrupted(pos)

\* A client that is told of no error has the whole answer: the upstream sent
\* [DONE], and of every delta before it, its JSON on one line or on any number of
\* them (sse.go:40-60, 119-128), each byte went into the answer in order, once
\* and in the channel the reference gives it.  It takes an upstream that does not
\* interrupt a value by another one, which no reader could tell from its rest.
AnswerIsWhole ==
  Answered =>
    \E k \in 1..Len(sent) :
      sent[k].kind = "done" /\ text = Routed(FlattenSeq([i \in 1..k |-> TextOf(sent[i].delta)]))

\* And every tool call: the fragments of one call may come in several deltas, next
\* to those of others and to text the router holds back, and are put together
\* in order.  A response lists the calls only up to their number (openai.go:86),
\* so that this takes an upstream that numbers them from 0 without a gap.
CallsAreWhole ==
  Answered =>
    LET calls == FlattenSeq([i \in 1..pos |-> sent[i].delta.calls])
    IN  streaming \/ Indexes(calls) = 0..Cardinality(Indexes(calls)) - 1
          => tools = [i \in Indexes(calls) |-> PiecesOf(calls, i)]

\* The router takes one byte at a time (thinking.go:49), and a character whose
\* bytes it puts into both channels reaches the client as U+FFFD in each.  That
\* happens to no more characters than follow, in the content, what could become
\* a tag and is reasoning in part: none that the upstream sent as reasoning, and
\* none in content that such an attempt does not run into.
TornAtTags ==
  LET whole   == FlattenSeq([i \in 1..pos |-> TextOf(sent[i].delta)])
      torn    == {i \in 1..Len(text) - 1 : text[i][1] \in Leads /\ text[i][2] # text[i + 1][2]}
      attempt(j, i) == IsTagPrefix(Cut(whole, j, i)) /\ \E k \in j..i : whole[k][2]
      ends    == {i \in 2..Len(whole) : /\ whole[i][1] \in Leads /\ ~whole[i][2]
                                        /\ \E j \in 1..i - 1 : attempt(j, i - 1)}
  IN  Answered => Cardinality(torn) <= Cardinality(ends)

\* The error at the end of a broken stream says whether the client has received
\* a part of the answer (partial), were it only its role or of a tool call.
PartialIsTold ==
  \A i \in DOMAIN events :
    /\ events[i] = "partial" => role \/ text # <<>> \/ tools # <<>>
    /\ events[i] = "error" => ~role /\ text = <<>> /\ tools = <<>>

\* Every generation is answered, whatever the upstream does: at the latest the
\* deadline of the request ends the probe's reading and ParseSSE.
StreamEnds == phase = "probe" ~> Over

-----------------------------------------------------------------------------
\* The probe reads no more than the head (queueprobe.go:19 and 22).
ProbeBounded == phase = "probe" => Len(sent) = headLen
=============================================================================
