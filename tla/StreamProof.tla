----------------------------- MODULE StreamProof -----------------------------
(***************************************************************************)
(* Proofs about Stream, for streams of any length and any deltas: what the *)
(* client is sent ends with one [DONE], a client that is told of no error  *)
(* has the whole text and every tool call, and one that is told of an      *)
(* error knows whether it has a part of them.                              *)
(***************************************************************************)
EXTENDS Stream, ThinkingProof

USE DEF upstream, context, probe, parser, client, Consumed

Events   == {"delta", "usage", "partial", "error", "response", "[DONE]"}
Quiet(s) == \A i \in 1..Len(s) : s[i] # "[DONE]"
Ended(s) == /\ s # <<>> /\ s[Len(s)] = "[DONE]"
            /\ \A i \in 1..Len(s) - 1 : s[i] # "[DONE]"

\* Until relay returns, no [DONE] is written; then it is the last event, for a
\* client that is still there.
Ending ==
  /\ events \in Seq(Events) /\ streaming \in BOOLEAN
  /\ phase # "over" => Quiet(events)
  /\ phase = "over" /\ streaming => Ended(events) \/ (gone /\ Quiet(events))

(* WriteEvent adds one event; the end adds "[DONE]", alone or after one.   *)
LEMMA Goes ==
  ASSUME NEW s \in Seq(Events), Quiet(s), NEW k \in Events, k # "[DONE]"
  PROVE  Append(s, k) \in Seq(Events) /\ Quiet(Append(s, k))
<1>1. /\ Append(s, k) \in Seq(Events) /\ Len(Append(s, k)) = Len(s) + 1
      /\ \A i \in 1..Len(s) : Append(s, k)[i] = s[i]
      /\ Append(s, k)[Len(s) + 1] = k
  BY AppendProperties
<1>2. \A i \in 1..Len(s) + 1 : i \in 1..Len(s) \/ i = Len(s) + 1
  BY LenProperties
<1> QED BY <1>1, <1>2 DEF Quiet

LEMMA Stops ==
  ASSUME NEW s \in Seq(Events), Quiet(s)
  PROVE  Append(s, "[DONE]") \in Seq(Events) /\ Ended(Append(s, "[DONE]"))
<1> DEFINE e == Append(s, "[DONE]")
<1>1. /\ e \in Seq(Events) /\ Len(e) = Len(s) + 1 /\ e # <<>>
      /\ \A i \in 1..Len(s) : e[i] = s[i]
      /\ e[Len(s) + 1] = "[DONE]"
  BY AppendProperties DEF Events
<1>2. Len(s) \in Nat
  BY LenProperties
<1> QED BY <1>1, <1>2 DEF Quiet, Ended

LEMMA Concats ==
  ASSUME NEW s \in Seq(Events), NEW k \in Events
  PROVE  /\ s \o <<>> = s /\ s \o <<"[DONE]">> = Append(s, "[DONE]")
         /\ s \o <<k>> = Append(s, k)
         /\ s \o <<k, "[DONE]">> = Append(Append(s, k), "[DONE]")
  OBVIOUS

LEMMA EndingStart == StreamInit => Ending
  BY DEF StreamInit, Ending, Quiet

\* An error is told and ends the stream.
LEMMA FailEnds ==
  ASSUME Ending, phase # "over", NEW code, Fail(code), UNCHANGED <<streaming, gone>>
  PROVE  Ending'
<1>1. \A k \in {"partial", "error"} :
        events \o <<k, "[DONE]">> \in Seq(Events) /\ Ended(events \o <<k, "[DONE]">>)
  <2> SUFFICES ASSUME NEW k \in {"partial", "error"}
               PROVE  events \o <<k, "[DONE]">> \in Seq(Events) /\ Ended(events \o <<k, "[DONE]">>)
    OBVIOUS
  <2>1. k \in Events /\ k # "[DONE]" /\ events \in Seq(Events) /\ Quiet(events)
    BY DEF Events, Ending
  <2>2. Append(events, k) \in Seq(Events) /\ Quiet(Append(events, k))
    BY <2>1, Goes
  <2>3. LET e == Append(Append(events, k), "[DONE]") IN e \in Seq(Events) /\ Ended(e)
    BY <2>2, Stops
  <2>4. events \o <<k, "[DONE]">> = Append(Append(events, k), "[DONE]")
    BY <2>1, Concats
  <2> QED BY <2>3, <2>4
<1>2. <<"error">> \in Seq(Events)
  BY DEF Events
<1> QED BY <1>1, <1>2 DEF Fail, Ending

\* Ending is inductive.
LEMMA EndingStep == Ending /\ [StreamNext]_streamVars => Ending'
<1> SUFFICES ASSUME Ending, [StreamNext]_streamVars PROVE Ending'
  OBVIOUS
<1>1. CASE UNCHANGED streamVars
  BY <1>1 DEF streamVars, Ending
<1>2. CASE \/ \E how \in {"eof", "error"} : End(how)
           \/ ~Over /\ (Expire \/ Leave)
           \/ \E l \in Lines : ReadHead(l) \/ ReadRest(l)
  BY <1>2 DEF End, Over, Expire, Leave, ReadHead, ReadRest, Receive, Ending
<1>3. CASE ReadEnd \/ Skip \/ HeadOfDelta \/ StillIncomplete
  BY <1>3 DEF ReadEnd, Skip, HeadOfDelta, StillIncomplete, Parsing, Ending
<1>4. \A k \in {"delta", "usage"} : Quiet(events) => Written(k) \in Seq(Events) /\ Quiet(Written(k))
  BY Goes DEF Written, Ending, Events
<1>5. CASE Delta \/ RestOfDelta \/ Usage
  <2>1. phase # "over" /\ UNCHANGED <<phase, streaming>>
    BY <1>5 DEF Delta, RestOfDelta, Usage, Emit, Parsing
  <2>2. \/ events' = events \/ \E k \in {"delta", "usage"} : events' = Written(k)
    BY <1>5 DEF Delta, RestOfDelta, Usage, Emit
  <2> QED BY <1>4, <2>1, <2>2 DEF Ending
<1>6. CASE EnvelopeError \/ Malformed \/ Truncated \/ ContextDone
  <2>1. phase # "over" /\ UNCHANGED <<streaming, gone>> /\ \E code \in {403, 502} : Fail(code)
    BY <1>6 DEF EnvelopeError, Malformed, Truncated, ContextDone, Parsing
  <2> QED BY <2>1, FailEnds
<1>7. CASE Done
  <2>1. phase # "over" /\ phase' = "over" /\ UNCHANGED <<streaming, gone>>
    BY <1>7 DEF Done, Parsing
  <2>2. events' = IF ~streaming THEN <<"response">>
                  ELSE IF router.pending = <<>> THEN Append(events, "[DONE]")
                  ELSE Append(Append(events, "delta"), "[DONE]")
    <3>1. events \in Seq(Events) /\ "delta" \in Events /\ "[DONE]" \in Events
      BY DEF Ending, Events
    <3>2. Append(events, "delta") \in Seq(Events)
      BY <3>1, AppendProperties
    <3>3. /\ (events \o <<>>) \o <<"[DONE]">> = Append(events, "[DONE]")
          /\ (events \o <<"delta">>) \o <<"[DONE]">> = Append(Append(events, "delta"), "[DONE]")
      BY <3>1, <3>2, Concats
    <3>4. events' = IF ~streaming THEN <<"response">>
                    ELSE (events \o (IF router.pending = <<>> THEN <<>> ELSE <<"delta">>)) \o <<"[DONE]">>
      BY <1>7 DEF Done
    <3> QED BY <3>3, <3>4
  <2>3. <<"response">> \in Seq(Events) /\ "delta" \in Events
    BY DEF Events
  <2>4. events' \in Seq(Events) /\ (streaming => Ended(events'))
    BY <2>1, <2>2, <2>3, Goes, Stops DEF Ending
  <2> QED BY <2>1, <2>4 DEF Ending
<1>8. CASE WriteFails
  BY <1>8 DEF WriteFails, Parsing, Ending
<1> QED BY <1>1, <1>2, <1>3, <1>5, <1>6, <1>7, <1>8 DEF StreamNext, Handle

(* Every stream has one [DONE], after which nothing is written, and it is  *)
(* there when relay returns to a client that has not left.                 *)
THEOREM OneDoneAlways == StreamSpec => []OneDone
<1>1. Ending => OneDone
  <2>1. \A s \in Seq(Events) : Len(s) \in Nat
    BY LenProperties
  <2> QED BY <2>1 DEF Ending, OneDone, Ended, Quiet, Last
<1> QED BY <1>1, EndingStart, EndingStep, PTL DEF StreamSpec

-----------------------------------------------------------------------------
(* What deltas, lines and the router are.                                  *)

Calls    == Seq(Nat \X Bytes)
Given    == Deltas \cup {NoDelta}

\* What a delta is made of.
LEMMA GivenType ==
  ASSUME NEW d \in Given
  PROVE  /\ d.reasoning \in Seq(Bytes) /\ d.content \in Seq(Bytes) /\ d.calls \in Calls
         /\ d.role \in BOOLEAN
         /\ On(d.reasoning, TRUE) \in Texts /\ On(d.content, FALSE) \in Texts /\ TextOf(d) \in Texts
         /\ d # Garbled
<1>1. /\ d.reasoning \in Seq(Bytes) /\ d.content \in Seq(Bytes) /\ d.calls \in Calls
      /\ d.role \in BOOLEAN
  <2>1. CASE d \in Deltas
    BY <2>1, DeltaTypes DEF Calls
  <2>2. CASE d = NoDelta
    BY <2>2, EmptySeq DEF NoDelta, Calls
  <2> QED BY <2>1, <2>2 DEF Given
<1>2. On(d.reasoning, TRUE) \in Texts /\ On(d.content, FALSE) \in Texts
  BY <1>1, OnType
<1>3. TextOf(d) \in Texts
  BY <1>2, TextConcat DEF TextOf
<1>4. d # Garbled
  <2>1. NoDelta.reasoning # Garbled.reasoning
    BY DEF NoDelta, Garbled
  <2> QED BY <2>1, SomeText DEF Given
<1> QED BY <1>1, <1>2, <1>3, <1>4

\* A line without a delta adds nothing.
LEMMA NoDeltaIsNothing == TextOf(NoDelta) = <<>> /\ NoDelta.calls = <<>> /\ NoDelta \in Given
<1>1. On(<<>>, TRUE) = <<>> /\ On(<<>>, FALSE) = <<>>
  BY EmptySeq, OnType
<1>2. <<>> \o <<>> = <<>>
  BY EmptySeq, TextConcat DEF Texts
<1> QED BY <1>1, <1>2 DEF TextOf, NoDelta, Given

\* A line has a delta in Given, and the kinds other than "delta" and "head" have none.
LEMMA LineIs ==
  ASSUME NEW l \in Lines
  PROVE  /\ l.delta \in Given
         /\ l.kind \in {"delta", "head"} => l.delta \in Deltas
         /\ l.kind \notin {"delta", "head"} => l.delta = NoDelta
<1>1. Kinds \cap {"delta", "head"} = {}
  BY LineKinds DEF Plain, Pieces, Closing
<1> QED BY <1>1, SomeText DEF Lines, Given

\* Of a delta, the router is fed the reasoning and then the content.
LEMMA RouteIs ==
  ASSUME NEW p \in Routers, NEW d \in Given
  PROVE  Route(p, d) = FeedAll([router |-> p, out |-> <<>>], TextOf(d)) /\ Route(p, d) \in Feds
<1> DEFINE fed == [router |-> p, out |-> <<>>]
<1>1. fed \in Feds
  BY EmptySeq DEF Feds, Texts
<1> HIDE DEF fed
<1>2. FeedAll(fed, TextOf(d)) = FeedAll(FeedAll(fed, On(d.reasoning, TRUE)), On(d.content, FALSE))
  BY <1>1, GivenType, FeedAllConcat DEF TextOf
<1>3. FeedAll(fed, TextOf(d)) \in Feds
  BY <1>1, GivenType, FeedAllType
<1> QED BY <1>2, <1>3 DEF Route, Feed, fed

(* What a delta adds to a text that came from w.                           *)
LEMMA RouteGoesOn ==
  ASSUME NEW p \in Routers, NEW o \in Texts, NEW d \in Given, NEW w \in Texts,
         FeedAll(Fresh, w) = [router |-> p, out |-> o]
  PROVE  FeedAll(Fresh, w \o TextOf(d)) = [router |-> Route(p, d).router, out |-> o \o Route(p, d).out]
<1> DEFINE t   == TextOf(d)
           was == [router |-> p, out |-> o]
           fed == FeedAll([router |-> p, out |-> <<>>], t)
<1>1. Fresh \in Feds /\ t \in Texts
  BY CutsStart, GivenType
<1>2. Route(p, d) = fed
  BY RouteIs
<1> HIDE DEF t
<1>3. FeedAll(was, t) = [router |-> fed.router, out |-> o \o fed.out]
  BY <1>1, FeedAllOut
<1> HIDE DEF was, fed
<1>4. FeedAll(Fresh, w \o t) = FeedAll(was, t)
  <2>1. FeedAll(Fresh, w) = was
    BY DEF was
  <2> QED BY <1>1, <2>1, FeedAllConcat
<1> QED BY <1>2, <1>3, <1>4 DEF t

HoldsPrefix(p) == p.pending = <<>> \/ IsTagPrefix(p.pending)

\* The router holds back nothing or the beginning of a tag, after any text.
LEMMA FeedAllPrefix ==
  ASSUME NEW fed \in Feds, HoldsPrefix(fed.router), NEW text_ \in Texts
  PROVE  HoldsPrefix(FeedAll(fed, text_).router)
<1> DEFINE T == {v \in Texts : HoldsPrefix(FeedAll(fed, v).router)}
<1>1. <<>> \in T
  BY EmptySeq, FeedAllEmpty DEF Texts
<1>2. ASSUME NEW v \in Texts, NEW x \in Bytes \X BOOLEAN, v \in T PROVE Append(v, x) \in T
  <2>1. Append(v, x) \in Texts
    BY AppendProperties DEF Texts
  <2>2. FeedAll(fed, v) \in Feds /\ FeedAll(fed, Append(v, x)) = FeedByte(FeedAll(fed, v), x[1], x[2])
    BY FeedAllType, FeedAllAppend
  <2>3. x[1] \in Bytes /\ x[2] \in BOOLEAN
    OBVIOUS
  <2> DEFINE held == Held(FeedAll(fed, v).router, x[1], x[2])
             next == FeedByte(FeedAll(fed, v), x[1], x[2])
  <2>4. next = IF held.pending \in DOMAIN ThinkingTags
               THEN [router |-> Idle(ThinkingTags[held.pending]), out |-> FeedAll(fed, v).out]
               ELSE IF IsTagPrefix(held.pending) THEN [router |-> held, out |-> FeedAll(fed, v).out]
               ELSE [router |-> Idle(held.inThinking), out |-> FeedAll(fed, v).out \o Finalize(held)]
    BY <2>2, <2>3, FeedByteCases
  <2>5. \A b : Idle(b).pending = <<>>
    BY DEF Idle, Record
  <2> HIDE DEF held, next
  <2>6. HoldsPrefix(next.router)
    BY <2>4, <2>5 DEF HoldsPrefix
  <2> QED BY <2>1, <2>2, <2>6 DEF next
<1>3. Texts \subseteq T
  <2> HIDE DEF T
  <2> QED BY <1>1, <1>2, SequenceInduction DEF Texts
<1> QED BY <1>3

LEMMA RoutePrefix ==
  ASSUME NEW p \in Routers, HoldsPrefix(p), NEW d \in Given
  PROVE  HoldsPrefix(Route(p, d).router)
<1>1. [router |-> p, out |-> <<>>] \in Feds
  BY EmptySeq DEF Feds, Texts
<1> QED BY <1>1, RouteIs, GivenType, FeedAllPrefix

-----------------------------------------------------------------------------
(* Types.                                                                  *)

Types == StreamTypeOK /\ router \in Routers /\ text \in Texts

LEMMA TypesStart == StreamInit => Types
<1> SUFFICES ASSUME StreamInit PROVE Types
  OBVIOUS
<1>1. NewRouter \in Routers /\ NewRouter.pending = <<>>
  BY EmptySeq DEF NewRouter, Routers
<1>2. <<>> \in Seq(Lines) /\ Len(<<>>) = 0 /\ <<>> \in Texts /\ DOMAIN <<>> = {}
  BY EmptySeq DEF Texts
<1>3. /\ sent = <<>> /\ ended = "open" /\ expired = FALSE /\ gone = FALSE /\ streaming \in BOOLEAN
      /\ phase = "probe" /\ headLen = 0 /\ headDone = FALSE
      /\ pos = 0 /\ incomplete = NoDelta /\ router = NewRouter
      /\ saw = FALSE /\ role = FALSE /\ text = <<>> /\ tools = <<>> /\ status = 0
  BY DEF StreamInit
<1>4. {expired, gone, streaming, headDone, saw, role} \subseteq BOOLEAN
  BY <1>3
<1>5. sent \in Seq(Lines) /\ Len(sent) <= MaxLines /\ headLen \in 0..Len(sent) /\ pos \in 0..Len(sent)
  BY <1>2, <1>3, StreamBounds
<1>6. DOMAIN tools \subseteq Nat /\ router \in Routers /\ router.pending = <<>> /\ text \in Texts
  BY <1>1, <1>2, <1>3
<1> QED BY <1>3, <1>4, <1>5, <1>6 DEF Types, StreamTypeOK

LEMMA IndexesType ==
  ASSUME NEW c \in Calls
  PROVE  Indexes(c) \subseteq Nat
<1>1. \A k \in DOMAIN c : c[k] \in Nat \X Bytes
  BY ElementOfSeq, LenProperties DEF Calls
<1> QED BY <1>1 DEF Indexes

\* The line ParseSSE is at.
LEMMA LineType ==
  ASSUME Types, Parsing
  PROVE  Line \in Lines /\ pos + 1 \in 1..Len(sent) /\ pos + 1 \in 0..Len(sent)
<1>1. pos + 1 \in 1..Len(sent) /\ pos + 1 \in 0..Len(sent) /\ sent \in Seq(Lines)
  BY LenProperties DEF Types, StreamTypeOK, Parsing
<1> QED BY <1>1, ElementOfSeq DEF Line

\* What a delta's events change.
LEMMA EmitTypes ==
  ASSUME Types, NEW d \in Given, Emit(d)
  PROVE  /\ router' \in Routers /\ HoldsPrefix(router') /\ text' \in Texts
         /\ DOMAIN tools' \subseteq Nat /\ saw' \in BOOLEAN /\ role' \in BOOLEAN
         /\ UNCHANGED <<phase, status>>
<1> DEFINE fed == Route(router, d)
<1>1. /\ router' = fed.router /\ text' = text \o fed.out /\ tools' = Add(tools, d.calls)
      /\ saw' = (saw \/ (streaming /\ (d.role \/ fed.out # <<>> \/ d.calls # <<>>)))
      /\ role' = (role \/ d.role) /\ UNCHANGED <<phase, status>>
  BY DEF Emit
<1>2. /\ router \in Routers /\ text \in Texts /\ HoldsPrefix(router) /\ DOMAIN tools \subseteq Nat
      /\ saw \in BOOLEAN /\ role \in BOOLEAN /\ d.role \in BOOLEAN
  BY GivenType DEF Types, StreamTypeOK, HoldsPrefix
<1>3. fed \in Feds /\ HoldsPrefix(fed.router)
  BY <1>2, RouteIs, RoutePrefix
<1>4. fed.router \in Routers /\ fed.out \in Texts
  BY <1>3 DEF Feds
<1> HIDE DEF fed
<1>5. DOMAIN tools' = DOMAIN tools \cup Indexes(d.calls)
  BY <1>1 DEF Add
<1>6. Indexes(d.calls) \subseteq Nat
  BY GivenType, IndexesType
<1>7. text' \in Texts
  BY <1>1, <1>2, <1>4, TextConcat
<1> QED BY <1>1, <1>2, <1>3, <1>4, <1>5, <1>6, <1>7

\* What Done leaves of the router.
LEMMA Flushed ==
  ASSUME NEW p \in Routers
  PROVE  /\ [p EXCEPT !.pending = <<>>, !.pendingReasoning = FALSE] = Idle(p.inThinking)
         /\ p.inThinking \in BOOLEAN
<1>1. [p EXCEPT !.pending = <<>>, !.pendingReasoning = FALSE] = Record(p.inThinking, <<>>, FALSE)
  BY Excepts
<1>2. p.inThinking \in BOOLEAN
  BY DEF Routers
<1> QED BY <1>1, <1>2 DEF Idle

\* Types is inductive.
LEMMA TypesStep == Types /\ [StreamNext]_streamVars => Types'
<1> SUFFICES ASSUME Types, [StreamNext]_streamVars PROVE Types'
  OBVIOUS
<1> USE DEF Types, StreamTypeOK
<1>0. Len(sent) \in Nat
  BY LenProperties
<1>1. CASE UNCHANGED streamVars
  BY <1>1 DEF streamVars
<1>2. CASE (\E how \in {"eof", "error"} : End(how)) \/ Expire \/ Leave
  <2>1. /\ ended' \in {"open", "eof", "error"} /\ expired' \in BOOLEAN /\ gone' \in BOOLEAN
        /\ UNCHANGED <<sent, streaming, phase, probe, parser, client>>
    <3>1. ended \in {"open", "eof", "error"} /\ expired \in BOOLEAN /\ gone \in BOOLEAN
      OBVIOUS
    <3>2. CASE \E how \in {"eof", "error"} : End(how)
      <4>1. PICK how \in {"eof", "error"} : End(how)
        BY <3>2
      <4> QED BY <3>1, <4>1 DEF End
    <3>3. CASE Expire \/ Leave
      BY <3>1, <3>3 DEF Expire, Leave
    <3> QED BY <1>2, <3>2, <3>3
  <2> QED BY <2>1
<1>3. ASSUME NEW l \in Lines, ReadHead(l) \/ ReadRest(l) PROVE Types'
  <2>1. /\ sent' = Append(sent, l) /\ Len(sent) < MaxLines
        /\ UNCHANGED <<ended, context, streaming, phase, parser, client>>
        /\ headLen' \in {headLen, headLen + 1} /\ headDone' \in BOOLEAN
    <3> HIDE DEF Types, StreamTypeOK
    <3>1. headDone \in BOOLEAN
      BY DEF Types, StreamTypeOK
    <3>2. CASE ReadHead(l)
      BY <3>2 DEF ReadHead, Receive
    <3>3. CASE ReadRest(l)
      BY <3>1, <3>3 DEF ReadRest, Receive
    <3> QED BY <1>3, <3>2, <3>3
  <2>2. sent' \in Seq(Lines) /\ Len(sent') = Len(sent) + 1
    BY <2>1, AppendProperties
  <2>3. Len(sent') <= MaxLines /\ headLen' \in 0..Len(sent') /\ pos' \in 0..Len(sent')
    BY <1>0, <2>1, <2>2, StreamBounds
  <2> QED BY <2>1, <2>2, <2>3
<1>4. CASE ReadEnd
  BY <1>4 DEF ReadEnd
<1>5. CASE Skip \/ HeadOfDelta \/ StillIncomplete \/ Usage
  <2>1. Parsing /\ Consumed /\ UNCHANGED <<upstream, context, streaming, phase, probe, router, role, text, tools, saw, status>>
    BY <1>5 DEF Skip, HeadOfDelta, StillIncomplete, Usage
  <2>2. incomplete' \in Deltas \cup {NoDelta, Garbled}
    BY <1>5, <2>1, LineType, LineIs DEF Skip, HeadOfDelta, StillIncomplete, Usage
  <2> QED BY <2>1, <2>2, LineType
<1>6. CASE Delta \/ RestOfDelta
  <2>1. Parsing /\ Consumed /\ UNCHANGED <<upstream, context, streaming, probe>>
    BY <1>6 DEF Delta, RestOfDelta
  <2>2. \E d \in Given : Emit(d)
    <3>1. CASE Delta
      BY <2>1, <3>1, LineType, LineIs DEF Delta
    <3>2. CASE RestOfDelta
      BY <3>2 DEF RestOfDelta, Given
    <3> QED BY <1>6, <3>1, <3>2
  <2>3. incomplete' \in Deltas \cup {NoDelta, Garbled}
    BY <1>6 DEF Delta, RestOfDelta
  <2>4. /\ router' \in Routers /\ HoldsPrefix(router') /\ text' \in Texts
        /\ DOMAIN tools' \subseteq Nat /\ saw' \in BOOLEAN /\ role' \in BOOLEAN
        /\ UNCHANGED <<phase, status>>
    BY <2>2, EmitTypes
  <2> QED BY <2>1, <2>3, <2>4, LineType DEF HoldsPrefix
<1>7. CASE Done
  <2>1. /\ Parsing /\ Consumed /\ phase' = "over" /\ status' = 200
        /\ UNCHANGED <<upstream, context, streaming, probe, incomplete, saw, role>>
        /\ text' = text \o Finalize(router)
        /\ router' = [router EXCEPT !.pending = <<>>, !.pendingReasoning = FALSE]
        /\ tools' = IF streaming THEN tools ELSE Listed(tools)
    BY <1>7 DEF Done
  <2>2. router' = Idle(router.inThinking) /\ router.inThinking \in BOOLEAN
    BY <2>1, Flushed
  <2>3. router' \in Routers /\ router'.pending = <<>>
    BY <2>2, IdleType DEF Idle, Record
  <2>4. text' \in Texts
    BY <2>1, FinalizeType, TextConcat
  <2>5. DOMAIN tools' \subseteq Nat
    BY <2>1 DEF Listed
  <2> QED BY <2>1, <2>3, <2>4, <2>5, LineType
<1>8. CASE EnvelopeError \/ Malformed \/ Truncated \/ ContextDone
  <2>1. /\ UNCHANGED <<upstream, context, streaming, probe>>
        /\ (pos' = pos \/ (Parsing /\ Consumed))
        /\ \E code \in {403, 502} : Fail(code)
    BY <1>8 DEF EnvelopeError, Malformed, Truncated, ContextDone
  <2>2. /\ phase' = "over" /\ status' \in {403, 502} /\ UNCHANGED <<saw, incomplete, router>>
        /\ text' \in {text, <<>>} /\ tools' \in {tools, <<>>} /\ role' \in BOOLEAN
    <3> HIDE DEF Types, StreamTypeOK
    <3> QED BY <2>1 DEF Fail
  <2>3. <<>> \in Texts /\ DOMAIN <<>> = {}
    BY EmptySeq DEF Texts
  <2> QED BY <2>1, <2>2, <2>3, LineType
<1>9. CASE WriteFails
  <2>1. /\ Parsing /\ Consumed /\ phase' = "over" /\ status' = 502
        /\ UNCHANGED <<upstream, context, streaming, probe, incomplete, router, saw, role, text, tools>>
    BY <1>9 DEF WriteFails
  <2> QED BY <2>1, LineType
<1> QED BY <1>1, <1>2, <1>3, <1>4, <1>5, <1>6, <1>7, <1>8, <1>9 DEF StreamNext, Handle

(* Types, and of the router: what it holds back is the beginning of a tag, *)
(* whatever the deltas end in.                                             *)
THEOREM StreamTyped == StreamSpec => []StreamTypeOK
<1>1. Types => StreamTypeOK
  BY DEF Types
<1> QED BY <1>1, TypesStart, TypesStep, PTL DEF StreamSpec

-----------------------------------------------------------------------------
(* What the client is told of an error.                                    *)

IsFunction(f) == f = [x \in DOMAIN f |-> f[x]]
Untold(s)     == \A i \in DOMAIN s : s[i] \notin {"partial", "error"}

\* While relay is at it, no error is told, and saw says whether the client of a
\* stream has something of the answer.
Told ==
  /\ IsFunction(tools)
  /\ phase # "over" => Untold(events)
  /\ phase # "over" /\ streaming => (saw <=> role \/ text # <<>> \/ tools # <<>>)
  /\ phase = "over" => PartialIsTold

\* The functions over no indexes are the empty one.
LEMMA EmptyFunction ==
  ASSUME NEW f, IsFunction(f)
  PROVE  f = <<>> <=> DOMAIN f = {}
<1>1. DOMAIN f = {} => f = [x \in {} |-> f[x]]
  BY DEF IsFunction
<1>2. [x \in {} |-> f[x]] = <<>> /\ DOMAIN <<>> = {}
  OBVIOUS
<1> QED BY <1>1, <1>2

\* Add leaves no call only if there was none and none is added.
LEMMA AddEmpty ==
  ASSUME NEW t, IsFunction(t), NEW c \in Calls
  PROVE  IsFunction(Add(t, c)) /\ (Add(t, c) = <<>> <=> t = <<>> /\ c = <<>>)
<1>1. IsFunction(Add(t, c)) /\ DOMAIN Add(t, c) = DOMAIN t \cup Indexes(c)
  BY DEF IsFunction, Add
<1>2. Indexes(c) = {} <=> c = <<>>
  <2>1. DOMAIN c = 1..Len(c) /\ Len(c) \in Nat /\ (c = <<>> <=> Len(c) = 0)
    BY LenProperties, EmptySeq DEF Calls
  <2>2. Indexes(c) = {} <=> DOMAIN c = {}
    BY DEF Indexes
  <2> QED BY <2>1, <2>2
<1> QED BY <1>1, <1>2, EmptyFunction

LEMMA UntoldGoes ==
  ASSUME NEW s \in Seq(Events), Untold(s), NEW k \in Events
  PROVE  /\ k \notin {"partial", "error"} => Untold(Append(s, k))
         /\ \A i \in DOMAIN (s \o <<k, "[DONE]">>) :
              (s \o <<k, "[DONE]">>)[i] \in {"partial", "error"} => (s \o <<k, "[DONE]">>)[i] = k
<1> DEFINE e == Append(s, k)
           g == Append(e, "[DONE]")
<1>1. /\ e \in Seq(Events) /\ Len(e) = Len(s) + 1 /\ DOMAIN e = 1..Len(s) + 1
      /\ \A i \in 1..Len(s) : e[i] = s[i]
      /\ e[Len(s) + 1] = k
  BY AppendProperties, LenProperties
<1>2. \A i \in DOMAIN s : s[i] \notin {"partial", "error"}
  BY DEF Untold
<1>3. DOMAIN s = 1..Len(s) /\ Len(s) \in Nat /\ "[DONE]" \in Events
  BY LenProperties DEF Events
<1>4. \A i \in DOMAIN e : e[i] \in {"partial", "error"} => e[i] = k
  BY <1>1, <1>2, <1>3
<1>5. /\ DOMAIN g = 1..Len(e) + 1
      /\ \A i \in 1..Len(e) : g[i] = e[i]
      /\ g[Len(e) + 1] = "[DONE]"
  <2>1. e \in Seq(Events)
    BY <1>1
  <2> HIDE DEF e
  <2> QED BY <1>3, <2>1, AppendProperties, LenProperties
<1>6. \A i \in DOMAIN g : g[i] \in {"partial", "error"} => g[i] = k
  <2>1. DOMAIN e = 1..Len(e) /\ Len(e) \in Nat
    BY <1>1, <1>3
  <2> HIDE DEF e, g
  <2> QED BY <1>4, <1>5, <2>1
<1>7. s \o <<k, "[DONE]">> = g
  BY Concats
<1>8. k \notin {"partial", "error"} => Untold(e)
  BY <1>4 DEF Untold
<1> HIDE DEF e, g
<1> QED BY <1>6, <1>7, <1>8 DEF e

LEMMA ToldStart == StreamInit => Told
<1> SUFFICES ASSUME StreamInit PROVE Told
  OBVIOUS
<1>1. saw = FALSE /\ role = FALSE /\ text = <<>> /\ tools = <<>> /\ events = <<>> /\ phase = "probe"
  BY DEF StreamInit
<1>2. IsFunction(<<>>) /\ Untold(<<>>)
  BY DEF IsFunction, Untold
<1> QED BY <1>1, <1>2 DEF Told

\* An error is partial exactly when something was sent.
LEMMA FailTells ==
  ASSUME Told, Ending, phase # "over", NEW code, Fail(code)
  PROVE  Told'
<1>1. phase' = "over"
  BY DEF Fail
<1>2. IsFunction(<<>>)
  BY DEF IsFunction
<1>3. CASE streaming
  <2> DEFINE k == IF saw THEN "partial" ELSE "error"
             e == events \o <<k, "[DONE]">>
  <2>1. events' = e /\ (role' <=> role) /\ text' = text /\ tools' = tools
    BY <1>3 DEF Fail
  <2>2. events \in Seq(Events) /\ Untold(events) /\ k \in Events
    BY DEF Told, Ending, Events
  <2>3. saw <=> role \/ text # <<>> \/ tools # <<>>
    BY <1>3 DEF Told
  <2>4. (k = "partial" => saw) /\ (k = "error" => ~saw)
    OBVIOUS
  <2> HIDE DEF k
  <2>5. \A i \in DOMAIN e : e[i] \in {"partial", "error"} => e[i] = k
    BY <2>2, UntoldGoes
  <2>6. \A i \in DOMAIN e : /\ e[i] = "partial" => role \/ text # <<>> \/ tools # <<>>
                            /\ e[i] = "error" => ~role /\ text = <<>> /\ tools = <<>>
    BY <2>3, <2>4, <2>5
  <2> HIDE DEF e
  <2>7. PartialIsTold'
    BY <2>1, <2>6 DEF PartialIsTold
  <2> QED BY <1>1, <2>1, <2>7 DEF Told
<1>4. CASE ~streaming
  <2>1. events' = <<"error">> /\ ~role' /\ text' = <<>> /\ tools' = <<>>
    BY <1>4 DEF Fail
  <2>2. PartialIsTold'
    BY <2>1 DEF PartialIsTold
  <2> QED BY <1>1, <1>2, <2>1, <2>2 DEF Told
<1> QED BY <1>3, <1>4

\* A delta's events leave saw true exactly when there is a role, text or a call.
LEMMA EmitTells ==
  ASSUME Types, Ending, Told, phase # "over", NEW d \in Given, Emit(d), UNCHANGED streaming
  PROVE  Told'
<1> DEFINE fed == Route(router, d)
<1>1. /\ text' = text \o fed.out /\ tools' = Add(tools, d.calls)
      /\ saw' = (saw \/ (streaming /\ (d.role \/ fed.out # <<>> \/ d.calls # <<>>)))
      /\ role' = (role \/ d.role) /\ events' = Written("delta") /\ phase' = phase
  BY DEF Emit
<1>2. router \in Routers /\ text \in Texts /\ IsFunction(tools) /\ Untold(events) /\ events \in Seq(Events)
  BY DEF Types, Told, Ending
<1>3. fed.out \in Texts
  BY <1>2, RouteIs DEF Feds
<1>4. text \o fed.out = <<>> <=> text = <<>> /\ fed.out = <<>>
  <2> HIDE DEF fed
  <2> QED BY <1>2, <1>3, ConcatEmptySeq, ConcatProperties, EmptySeq, LenProperties DEF Texts
<1>5. IsFunction(tools') /\ (tools' = <<>> <=> tools = <<>> /\ d.calls = <<>>)
  BY <1>1, <1>2, GivenType, AddEmpty
<1>6. Untold(events')
  BY <1>1, <1>2, UntoldGoes DEF Written, Events
<1>7. streaming => (saw <=> role \/ text # <<>> \/ tools # <<>>)
  BY DEF Told
<1> HIDE DEF fed
<1>8. streaming => (saw' <=> role' \/ text' # <<>> \/ tools' # <<>>)
  BY <1>1, <1>4, <1>5, <1>7
<1> QED BY <1>1, <1>5, <1>6, <1>8 DEF Told

\* Told is inductive, with Types and Ending.
LEMMA ToldStep == Types /\ Ending /\ Told /\ [StreamNext]_streamVars => Told'
<1> SUFFICES ASSUME Types, Ending, Told, [StreamNext]_streamVars PROVE Told'
  OBVIOUS
<1>1. CASE UNCHANGED streamVars
  BY <1>1 DEF streamVars, Told, PartialIsTold
<1>2. CASE \/ \E how \in {"eof", "error"} : End(how)
           \/ ~Over /\ (Expire \/ Leave)
           \/ \E l \in Lines : ReadHead(l) \/ ReadRest(l)
           \/ ReadEnd \/ Skip \/ HeadOfDelta \/ StillIncomplete
  <2>1. phase # "over" /\ phase' # "over" /\ UNCHANGED <<streaming, saw, role, text, tools, events>>
    BY <1>2 DEF End, Over, Expire, Leave, ReadHead, ReadRest, Receive,
                ReadEnd, Skip, HeadOfDelta, StillIncomplete, Parsing
  <2> QED BY <2>1 DEF Told
<1>3. CASE Usage
  <2>1. phase # "over" /\ UNCHANGED <<streaming, phase, saw, role, text, tools>> /\ events' \in {events, Written("usage")}
    BY <1>3 DEF Usage, Parsing
  <2>2. Untold(events')
    <3>1. events \in Seq(Events) /\ Untold(events) /\ "usage" \in Events
      BY <2>1 DEF Told, Ending, Events
    <3>2. Untold(Append(events, "usage"))
      BY <3>1, UntoldGoes
    <3> QED BY <2>1, <3>1, <3>2 DEF Written
  <2> QED BY <2>1, <2>2 DEF Told
<1>4. CASE Delta \/ RestOfDelta
  <2>1. phase # "over" /\ UNCHANGED streaming
    BY <1>4 DEF Delta, RestOfDelta, Parsing
  <2>2. \E d \in Given : Emit(d)
    <3>1. CASE Delta
      BY <3>1, LineType, LineIs DEF Delta
    <3>2. CASE RestOfDelta
      BY <3>2 DEF RestOfDelta, Given, Types, StreamTypeOK
    <3> QED BY <1>4, <3>1, <3>2
  <2> QED BY <2>1, <2>2, EmitTells
<1>5. CASE Done
  <2>1. /\ phase # "over" /\ phase' = "over"
        /\ events' = IF ~streaming THEN <<"response">>
                     ELSE (events \o (IF router.pending = <<>> THEN <<>> ELSE <<"delta">>)) \o <<"[DONE]">>
        /\ tools' \in {tools, Listed(tools)}
    BY <1>5 DEF Done, Parsing
  <2>2. events \in Seq(Events) /\ Untold(events)
    BY <2>1 DEF Told, Ending
  <2>3. Untold(<<"response">>) /\ "delta" \in Events /\ "[DONE]" \in Events
    BY DEF Untold, Events
  <2>4. Untold(Append(events, "[DONE]")) /\ Untold(Append(Append(events, "delta"), "[DONE]"))
    <3>1. Append(events, "delta") \in Seq(Events) /\ Untold(Append(events, "delta"))
      BY <2>2, <2>3, UntoldGoes, AppendProperties
    <3> QED BY <2>2, <2>3, <3>1, UntoldGoes
  <2>5. Untold(events')
    <3>1. /\ (events \o <<>>) \o <<"[DONE]">> = Append(events, "[DONE]")
          /\ (events \o <<"delta">>) \o <<"[DONE]">> = Append(Append(events, "delta"), "[DONE]")
      <4>1. Append(events, "delta") \in Seq(Events)
        BY <2>2, <2>3, AppendProperties
      <4> QED BY <2>2, <2>3, <4>1, Concats
    <3> QED BY <2>1, <2>3, <2>4, <3>1
  <2>6. IsFunction(tools')
    BY <2>1 DEF Told, IsFunction, Listed
  <2> QED BY <2>1, <2>5, <2>6 DEF Told, Untold, PartialIsTold
<1>6. CASE EnvelopeError \/ Malformed \/ Truncated \/ ContextDone
  <2>1. phase # "over" /\ \E code \in {403, 502} : Fail(code)
    BY <1>6 DEF EnvelopeError, Malformed, Truncated, ContextDone, Parsing
  <2> QED BY <2>1, FailTells
<1>7. CASE WriteFails
  <2>1. phase # "over" /\ phase' = "over" /\ UNCHANGED <<events, text, tools>>
    BY <1>7 DEF WriteFails, Parsing
  <2> QED BY <2>1 DEF Told, Untold, PartialIsTold
<1> QED BY <1>1, <1>2, <1>3, <1>4, <1>5, <1>6, <1>7 DEF StreamNext, Handle

(* The error at the end of a broken stream calls it partial exactly when   *)
(* the client has something of the answer, were it only the role or a part *)
(* of a tool call.                                                         *)
THEOREM PartialIsToldAlways == StreamSpec => []PartialIsTold
<1>1. Types /\ Ending /\ Told => PartialIsTold
  BY DEF Told, Untold, PartialIsTold
<1>2. StreamInit => Types /\ Ending /\ Told
  BY TypesStart, EndingStart, ToldStart
<1>3. (Types /\ Ending /\ Told) /\ [StreamNext]_streamVars => (Types /\ Ending /\ Told)'
  BY TypesStep, EndingStep, ToldStep
<1> QED BY <1>1, <1>2, <1>3, PTL DEF StreamSpec

-----------------------------------------------------------------------------
(* The text and the calls of the lines up to one of them.                  *)

TextUpto(s, k)  == FlattenSeq([i \in 1..k |-> TextOf(s[i].delta)])
CallsUpto(s, k) == FlattenSeq([i \in 1..k |-> s[i].delta.calls])
Together(c)     == [i \in Indexes(c) |-> PiecesOf(c, i)]

LEMMA UptoNone ==
  ASSUME NEW s
  PROVE  TextUpto(s, 0) = <<>> /\ CallsUpto(s, 0) = <<>>
<1>1. [i \in 1..0 |-> TextOf(s[i].delta)] = <<>> /\ [i \in 1..0 |-> s[i].delta.calls] = <<>>
  OBVIOUS
<1> QED BY <1>1, FlattenEmpty DEF TextUpto, CallsUpto

\* A sequence with one more element, and FlattenSeq of it.
LEMMA UptoGrows ==
  ASSUME NEW S, NEW f, NEW k \in Nat, \A i \in 1..k + 1 : f[i] \in Seq(S)
  PROVE  FlattenSeq([i \in 1..k + 1 |-> f[i]]) = FlattenSeq([i \in 1..k |-> f[i]]) \o f[k + 1]
<1> DEFINE t == [i \in 1..k |-> f[i]]
           u == [i \in 1..k + 1 |-> f[i]]
<1>1. t \in Seq(Seq(S)) /\ Len(t) = k /\ f[k + 1] \in Seq(S)
  OBVIOUS
<1>2. Append(t, f[k + 1]) = u
  OBVIOUS
<1> HIDE DEF t, u
<1>3. FlattenSeq(Append(t, f[k + 1])) = FlattenSeq(t) \o f[k + 1]
  BY <1>1, FlattenAppend
<1> QED BY <1>2, <1>3 DEF t, u

\* What the lines make, by one line more.
LEMMA UptoLine ==
  ASSUME NEW s \in Seq(Lines), NEW k \in Nat, k < Len(s)
  PROVE  /\ TextUpto(s, k + 1) = TextUpto(s, k) \o TextOf(s[k + 1].delta)
         /\ CallsUpto(s, k + 1) = CallsUpto(s, k) \o s[k + 1].delta.calls
<1> DEFINE f == [i \in 1..k + 1 |-> TextOf(s[i].delta)]
           g == [i \in 1..k + 1 |-> s[i].delta.calls]
<1>1. ASSUME NEW i \in 1..k + 1 PROVE TextOf(s[i].delta) \in Texts /\ s[i].delta.calls \in Calls
  <2>1. i \in 1..Len(s)
    BY LenProperties
  <2>2. s[i] \in Lines
    BY <2>1, ElementOfSeq
  <2> QED BY <2>2, LineIs, GivenType
<1>2. /\ k + 1 \in 1..k + 1
      /\ [i \in 1..k + 1 |-> f[i]] = f /\ [i \in 1..k + 1 |-> g[i]] = g
      /\ [i \in 1..k |-> f[i]] = [i \in 1..k |-> TextOf(s[i].delta)]
      /\ [i \in 1..k |-> g[i]] = [i \in 1..k |-> s[i].delta.calls]
  OBVIOUS
<1>3. f[k + 1] = TextOf(s[k + 1].delta) /\ g[k + 1] = s[k + 1].delta.calls
  BY <1>2
<1>4. (\A i \in 1..k + 1 : f[i] \in Texts) /\ (\A i \in 1..k + 1 : g[i] \in Calls)
  BY <1>1
<1>5. TextUpto(s, k + 1) = FlattenSeq(f) /\ CallsUpto(s, k + 1) = FlattenSeq(g)
  BY DEF TextUpto, CallsUpto
<1> HIDE DEF f, g
<1>6. FlattenSeq([i \in 1..k + 1 |-> f[i]]) = FlattenSeq([i \in 1..k |-> f[i]]) \o f[k + 1]
  BY <1>4, UptoGrows DEF Texts
<1>7. FlattenSeq([i \in 1..k + 1 |-> g[i]]) = FlattenSeq([i \in 1..k |-> g[i]]) \o g[k + 1]
  BY <1>4, UptoGrows DEF Calls
<1> QED BY <1>2, <1>3, <1>5, <1>6, <1>7 DEF TextUpto, CallsUpto

-----------------------------------------------------------------------------
(* Calls put together.                                                     *)

\* Of each fragment, its piece of call i, if it has one.
PiecesAt(c, i) == [k \in DOMAIN c |-> IF c[k][1] = i THEN <<c[k][2]>> ELSE <<>>]

\* Of the fragments, the pieces of one call.
LEMMA PiecesType ==
  ASSUME NEW c \in Calls, NEW i
  PROVE  PiecesAt(c, i) \in Seq(Seq(Bytes)) /\ PiecesOf(c, i) = FlattenSeq(PiecesAt(c, i))
<1>1. DOMAIN c = 1..Len(c) /\ Len(c) \in Nat /\ \A k \in 1..Len(c) : c[k] \in Nat \X Bytes
  BY LenProperties, ElementOfSeq DEF Calls
<1>2. \A k \in 1..Len(c) : <<c[k][2]>> \in Seq(Bytes) /\ <<>> \in Seq(Bytes)
  BY <1>1, EmptySeq
<1>3. PiecesAt(c, i) \in Seq(Seq(Bytes))
  BY <1>1, <1>2 DEF PiecesAt
<1> QED BY <1>3 DEF PiecesOf, PiecesAt

\* A call without fragments has no piece.
LEMMA NoPieces ==
  ASSUME NEW c \in Calls, NEW i, i \notin Indexes(c)
  PROVE  PiecesOf(c, i) = <<>>
<1>1. DOMAIN c = 1..Len(c) /\ Len(c) \in Nat
  BY LenProperties DEF Calls
<1>2. PiecesAt(c, i) = [k \in 1..Len(c) |-> <<>>]
  BY <1>1 DEF PiecesAt, Indexes
<1>3. <<>> \in Seq({})
  BY EmptySeq
<1>4. PiecesAt(c, i) \in Seq(Seq({}))
  BY <1>1, <1>2, <1>3
<1>5. FlattenSeq(PiecesAt(c, i)) \in Seq({})
  BY <1>4, FlattenType
<1>6. \A t \in Seq({}) : t = <<>>
  <2> SUFFICES ASSUME NEW t \in Seq({}), t # <<>> PROVE FALSE
    OBVIOUS
  <2>1. Len(t) \in Nat /\ Len(t) # 0
    BY LenProperties, EmptySeq
  <2>2. 1 \in 1..Len(t)
    BY <2>1
  <2>3. t[1] \in {}
    BY <2>2, ElementOfSeq
  <2> QED BY <2>3
<1> QED BY <1>5, <1>6, PiecesType

\* Of fragments in two parts, the pieces of one call are those of the parts, in order.
LEMMA CallsConcat ==
  ASSUME NEW c \in Calls, NEW d \in Calls
  PROVE  /\ c \o d \in Calls
         /\ Indexes(c \o d) = Indexes(c) \cup Indexes(d)
         /\ \A i : PiecesOf(c \o d, i) = PiecesOf(c, i) \o PiecesOf(d, i)
<1> DEFINE e == c \o d
           m == Len(c)
           n == Len(d)
<1>1. /\ e \in Calls /\ Len(e) = m + n /\ m \in Nat /\ n \in Nat
      /\ DOMAIN c = 1..m /\ DOMAIN d = 1..n /\ DOMAIN e = 1..m + n
      /\ \A k \in 1..m + n : e[k] = IF k <= m THEN c[k] ELSE d[k - m]
  BY ConcatProperties, LenProperties DEF Calls
<1>2. /\ \A k \in 1..m + n : k \in 1..m \/ (k - m \in 1..n /\ ~(k <= m))
      /\ \A k \in 1..m : k \in 1..m + n /\ k <= m
      /\ \A k \in 1..n : m + k \in 1..m + n /\ ~(m + k <= m) /\ (m + k) - m = k
  BY <1>1
<1> HIDE DEF e, m, n
<1>3. Indexes(e) = Indexes(c) \cup Indexes(d)
  <2>0. /\ \A k \in 1..m : k \in DOMAIN e /\ e[k] = c[k]
        /\ \A k \in 1..n : m + k \in DOMAIN e /\ e[m + k] = d[k]
        /\ \A k \in DOMAIN e : \/ k \in DOMAIN c /\ e[k] = c[k]
                               \/ k - m \in DOMAIN d /\ e[k] = d[k - m]
    BY <1>1, <1>2
  <2>1. ASSUME NEW k \in DOMAIN e PROVE e[k][1] \in Indexes(c) \cup Indexes(d)
    BY <2>0, Zenon DEF Indexes
  <2>2. ASSUME NEW k \in DOMAIN c PROVE c[k][1] \in Indexes(e)
    BY <1>1, <2>0, Zenon DEF Indexes
  <2>3. ASSUME NEW k \in DOMAIN d PROVE d[k][1] \in Indexes(e)
    BY <1>1, <2>0, Zenon DEF Indexes
  <2>4. Indexes(e) \subseteq Indexes(c) \cup Indexes(d)
    BY <2>1, Zenon DEF Indexes
  <2>5. Indexes(c) \subseteq Indexes(e) /\ Indexes(d) \subseteq Indexes(e)
    BY <2>2, <2>3, Zenon DEF Indexes
  <2> QED BY <2>4, <2>5
<1>4. ASSUME NEW i PROVE PiecesOf(e, i) = PiecesOf(c, i) \o PiecesOf(d, i)
  <2> DEFINE s == PiecesAt(c, i)
             t == PiecesAt(d, i)
             u == PiecesAt(e, i)
  <2>1. s \in Seq(Seq(Bytes)) /\ t \in Seq(Seq(Bytes)) /\ u \in Seq(Seq(Bytes))
    BY <1>1, PiecesType
  <2>2. Len(s) = m /\ Len(t) = n /\ Len(u) = m + n
    BY <1>1 DEF PiecesAt
  <2>3. /\ \A k \in 1..m : s[k] = IF c[k][1] = i THEN <<c[k][2]>> ELSE <<>>
        /\ \A k \in 1..n : t[k] = IF d[k][1] = i THEN <<d[k][2]>> ELSE <<>>
        /\ \A k \in 1..m + n : u[k] = IF e[k][1] = i THEN <<e[k][2]>> ELSE <<>>
    BY <1>1 DEF PiecesAt
  <2> HIDE DEF s, t, u
  <2>4. /\ s \o t \in Seq(Seq(Bytes)) /\ Len(s \o t) = m + n
        /\ \A k \in 1..m + n : (s \o t)[k] = IF k <= m THEN s[k] ELSE t[k - m]
    BY <1>1, <2>1, <2>2, ConcatProperties
  <2>5. ASSUME NEW k \in 1..m + n PROVE u[k] = (s \o t)[k]
    <3>1. CASE k <= m
      <4>1. k \in 1..m /\ e[k] = c[k]
        BY <1>1, <1>2, <3>1
      <4> QED BY <2>3, <2>4, <3>1, <4>1
    <3>2. CASE ~(k <= m)
      <4>1. k - m \in 1..n /\ e[k] = d[k - m]
        BY <1>1, <1>2, <3>2
      <4> QED BY <2>3, <2>4, <3>2, <4>1
    <3> QED BY <3>1, <3>2
  <2>6. u = s \o t
    BY <2>1, <2>2, <2>4, <2>5, SeqEqual
  <2>7. FlattenSeq(s \o t) = FlattenSeq(s) \o FlattenSeq(t)
    BY <2>1, FlattenConcat
  <2> QED BY <1>1, <2>6, <2>7, PiecesType DEF s, t, u
<1> QED BY <1>1, <1>3, <1>4 DEF e

(* Accumulator.Add goes on putting calls together.                         *)
LEMMA AddTogether ==
  ASSUME NEW c \in Calls, NEW d \in Calls
  PROVE  Add(Together(c), d) = Together(c \o d)
<1>1. DOMAIN Together(c) = Indexes(c)
  BY DEF Together
<1>2. ASSUME NEW i \in Indexes(c) \cup Indexes(d)
      PROVE  (IF i \in Indexes(c) THEN Together(c)[i] ELSE <<>>) \o PiecesOf(d, i) = PiecesOf(c \o d, i)
  <2>1. (IF i \in Indexes(c) THEN Together(c)[i] ELSE <<>>) = PiecesOf(c, i)
    <3>1. CASE i \in Indexes(c)
      BY <3>1 DEF Together
    <3>2. CASE i \notin Indexes(c)
      BY <3>2, NoPieces
    <3> QED BY <3>1, <3>2
  <2>2. PiecesOf(c \o d, i) = PiecesOf(c, i) \o PiecesOf(d, i)
    <3>1. \A x : PiecesOf(c \o d, x) = PiecesOf(c, x) \o PiecesOf(d, x)
      BY CallsConcat
    <3> QED BY <3>1, Zenon
  <2> QED BY <2>1, <2>2
<1>3. Add(Together(c), d) = [i \in Indexes(c) \cup Indexes(d) |-> PiecesOf(c \o d, i)]
  BY <1>1, <1>2 DEF Add
<1> QED BY <1>3, CallsConcat DEF Together

-----------------------------------------------------------------------------
(* The whole answer.                                                       *)

\* Of the lines consumed, w and c have been emitted, and the rest is the delta
\* whose JSON is incomplete.
Behind(w, c) ==
  /\ TextUpto(sent, pos) = w \o TextOf(incomplete)
  /\ CallsUpto(sent, pos) = c \o incomplete.calls
  /\ FeedAll(Fresh, w) = [router |-> router, out |-> text]
  /\ tools = Together(c)

\* A client that is told of no error has what the lines up to [DONE] make.
Complete ==
  /\ pos \in 1..Len(sent) /\ sent[pos].kind = "done"
  /\ text = Routed(TextUpto(sent, pos))
  /\ LET c == CallsUpto(sent, pos)
     IN  streaming \/ Indexes(c) = 0..Cardinality(Indexes(c)) - 1 => tools = Together(c)

\* The delta that is incomplete has a head, and no last piece yet.
Open ==
  incomplete # NoDelta =>
    \E h \in 1..pos : /\ sent[h].kind = "head"
                     /\ \A m \in h + 1..pos : sent[m].kind \notin Closing

Whole ==
  /\ phase = "probe" => pos = 0
  /\ ~Over /\ ~Interrupted(pos) =>
       incomplete # Garbled /\ Open /\ \E w \in Texts, c \in Calls : Behind(w, c)
  /\ Answered => Complete

LEMMA WholeStart == StreamInit => Whole
<1> SUFFICES ASSUME StreamInit PROVE Whole
  OBVIOUS
<1>1. /\ sent = <<>> /\ pos = 0 /\ incomplete = NoDelta /\ router = NewRouter /\ text = <<>>
      /\ tools = <<>> /\ phase = "probe"
  BY DEF StreamInit
<1>2. <<>> \in Texts /\ <<>> \in Calls /\ <<>> \o <<>> = <<>>
  BY EmptySeq, TextConcat DEF Texts, Calls
<1>3. Together(<<>>) = <<>>
  <2>1. Indexes(<<>>) = {}
    BY DEF Indexes
  <2>2. IsFunction(Together(<<>>)) /\ DOMAIN Together(<<>>) = {}
    BY <2>1 DEF Together, IsFunction
  <2> QED BY <2>2, EmptyFunction
<1>4. FeedAll(Fresh, <<>>) = [router |-> NewRouter, out |-> <<>>]
  BY <1>2, CutsStart, FeedAllEmpty DEF Fresh
<1>5. Behind(<<>>, <<>>)
  BY <1>1, <1>2, <1>3, <1>4, UptoNone, NoDeltaIsNothing DEF Behind
<1>6. incomplete # Garbled /\ Open /\ ~Answered
  BY <1>1, NoDeltaIsNothing, GivenType DEF Open, Answered
<1> QED BY <1>1, <1>2, <1>5, <1>6 DEF Whole

\* A line more does not undo an interruption.
LEMMA InterruptedStays ==
  ASSUME Types, Parsing, Consumed, UNCHANGED sent
  PROVE  Interrupted(pos) => Interrupted(pos)'
<1>1. pos \in Nat /\ pos' = pos + 1 /\ sent' = sent
  BY LenProperties DEF Types, StreamTypeOK
<1>2. \A i \in 1..pos : i \in 1..pos + 1
  BY <1>1
<1> QED BY <1>1, <1>2 DEF Interrupted

\* In a value that is open, the next line is one of its own only if it interrupts it.
LEMMA NoForeignLine ==
  ASSUME Types, Parsing, Consumed, UNCHANGED sent, Open, Assembling, ~Interrupted(pos)'
  PROVE  Line.kind \notin Foreign
<1>1. pos \in Nat /\ pos' = pos + 1 /\ sent' = sent
  BY LenProperties DEF Types, StreamTypeOK
<1>2. PICK h \in 1..pos : sent[h].kind = "head" /\ \A m \in h + 1..pos : sent[m].kind \notin Closing
  BY DEF Open, Assembling
<1>3. h \in 1..pos + 1 /\ pos + 1 \in 1..pos + 1 /\ h < pos + 1 /\ (pos + 1) - 1 = pos
  BY <1>1
<1>4. SUFFICES ASSUME sent[pos + 1].kind \in Foreign PROVE Interrupted(pos)'
  BY DEF Line
<1> QED BY <1>1, <1>2, <1>3, <1>4 DEF Interrupted

\* A line that completes nothing leaves the value open.
LEMMA StaysOpen ==
  ASSUME Types, Parsing, Consumed, UNCHANGED <<sent, incomplete>>, Open,
         incomplete = NoDelta \/ Line.kind \notin Closing
  PROVE  Open'
<1>1. pos \in Nat /\ pos' = pos + 1 /\ sent' = sent
  BY LenProperties DEF Types, StreamTypeOK
<1>2. CASE incomplete = NoDelta
  BY <1>2 DEF Open
<1>3. CASE incomplete # NoDelta
  <2>1. PICK h \in 1..pos : sent[h].kind = "head" /\ \A m \in h + 1..pos : sent[m].kind \notin Closing
    BY <1>3 DEF Open
  <2>2. h \in 1..pos + 1 /\ \A m \in h + 1..pos + 1 : m \in h + 1..pos \/ m = pos + 1
    BY <1>1
  <2>3. \A m \in h + 1..pos + 1 : sent[m].kind \notin Closing
    BY <1>3, <2>1, <2>2 DEF Line
  <2> QED BY <1>1, <2>1, <2>2, <2>3 DEF Open
<1> QED BY <1>2, <1>3

\* What the next line adds.
LEMMA NextLine ==
  ASSUME Types, Parsing, Consumed, UNCHANGED sent
  PROVE  /\ Line.delta \in Given
         /\ TextUpto(sent', pos') = TextUpto(sent, pos) \o TextOf(Line.delta)
         /\ CallsUpto(sent', pos') = CallsUpto(sent, pos) \o Line.delta.calls
<1>1. sent \in Seq(Lines) /\ pos \in Nat /\ pos < Len(sent) /\ sent' = sent /\ pos' = pos + 1
  BY DEF Types, StreamTypeOK, Parsing
<1>2. Line.delta \in Given
  BY LineType, LineIs
<1> QED BY <1>1, <1>2, UptoLine DEF Line

\* A line without a delta, or the first part of one's JSON.
LEMMA WholeReads ==
  ASSUME Types, Parsing, Consumed, UNCHANGED <<sent, router, text, tools>>,
         NEW w \in Texts, NEW c \in Calls, Behind(w, c),
         \/ Line.delta = NoDelta /\ incomplete' = incomplete /\ incomplete \in Given
         \/ incomplete = NoDelta /\ incomplete' = Line.delta
  PROVE  Behind(w, c)'
<1>1. /\ Line.delta \in Given
      /\ TextUpto(sent', pos') = (w \o TextOf(incomplete)) \o TextOf(Line.delta)
      /\ CallsUpto(sent', pos') = (c \o incomplete.calls) \o Line.delta.calls
  BY NextLine DEF Behind
<1>2. /\ TextUpto(sent', pos') = w \o TextOf(incomplete')
      /\ CallsUpto(sent', pos') = c \o incomplete'.calls
  <2>1. CASE Line.delta = NoDelta /\ incomplete' = incomplete /\ incomplete \in Given
    <3>1. TextOf(incomplete) \in Texts /\ incomplete.calls \in Calls
      BY <2>1, GivenType
    <3>2. w \o TextOf(incomplete) \in Texts /\ c \o incomplete.calls \in Calls
      BY <3>1, TextConcat, CallsConcat
    <3>3. /\ (w \o TextOf(incomplete)) \o <<>> = w \o TextOf(incomplete)
          /\ (c \o incomplete.calls) \o <<>> = c \o incomplete.calls
      BY <3>2, TextConcat, ConcatEmptySeq DEF Calls
    <3> QED BY <1>1, <2>1, <3>3, NoDeltaIsNothing
  <2>2. CASE incomplete = NoDelta /\ incomplete' = Line.delta
    <3>1. w \o <<>> = w /\ c \o <<>> = c
      BY TextConcat, ConcatEmptySeq DEF Calls
    <3> QED BY <1>1, <2>2, <3>1, NoDeltaIsNothing
  <2> QED BY <2>1, <2>2
<1> QED BY <1>2 DEF Behind

\* A delta that is complete with its line.
LEMMA WholeEmits ==
  ASSUME Types, Parsing, Consumed, UNCHANGED sent,
         NEW w \in Texts, NEW c \in Calls, Behind(w, c),
         NEW d \in Given, Emit(d), incomplete' = NoDelta,
         \/ incomplete = NoDelta /\ d = Line.delta
         \/ incomplete = d /\ Line.delta = NoDelta
  PROVE  \E v \in Texts, b \in Calls : Behind(v, b)'
<1> DEFINE v == w \o TextOf(d)
           b == c \o d.calls
<1>1. TextOf(d) \in Texts /\ d.calls \in Calls
  BY GivenType
<1>2. v \in Texts /\ b \in Calls
  BY <1>1, TextConcat, CallsConcat
<1>3. v \o <<>> = v /\ b \o <<>> = b /\ w \o <<>> = w /\ c \o <<>> = c
  BY <1>2, TextConcat, ConcatEmptySeq DEF Calls
<1>4. /\ TextUpto(sent', pos') = (w \o TextOf(incomplete)) \o TextOf(Line.delta)
      /\ CallsUpto(sent', pos') = (c \o incomplete.calls) \o Line.delta.calls
  BY NextLine DEF Behind
<1>5. TextUpto(sent', pos') = v \o <<>> /\ CallsUpto(sent', pos') = b \o <<>>
  BY <1>3, <1>4, NoDeltaIsNothing
<1>6. /\ router' = Route(router, d).router /\ text' = text \o Route(router, d).out
      /\ tools' = Add(tools, d.calls)
  BY DEF Emit
<1>7. router \in Routers /\ text \in Texts /\ tools = Together(c)
      /\ FeedAll(Fresh, w) = [router |-> router, out |-> text]
  BY DEF Types, Behind
<1>8. FeedAll(Fresh, v) = [router |-> router', out |-> text']
  BY <1>6, <1>7, RouteGoesOn
<1>9. tools' = Together(b)
  BY <1>1, <1>6, <1>7, AddTogether
<1>10. Behind(v, b)'
  BY <1>5, <1>8, <1>9, NoDeltaIsNothing DEF Behind
<1> QED BY <1>2, <1>10

\* If no index is missing, a response lists every call.
LEMMA ListedAll ==
  ASSUME NEW t, IsFunction(t), DOMAIN t = 0..Cardinality(DOMAIN t) - 1
  PROVE  Listed(t) = t
<1>1. DOMAIN t \cap 0..Cardinality(DOMAIN t) - 1 = DOMAIN t
  OBVIOUS
<1> QED BY <1>1 DEF Listed, IsFunction

\* At [DONE] the held-back text is sent, and nothing is missing.
LEMMA DoneAnswers ==
  ASSUME Types, Whole, Done, ~Interrupted(pos)'
  PROVE  Complete'
<1>1. /\ Parsing /\ Consumed /\ ~Assembling /\ Line.kind = "done"
      /\ UNCHANGED <<sent, streaming>>
      /\ text' = text \o Finalize(router)
      /\ tools' = IF streaming THEN tools ELSE Listed(tools)
  BY DEF Done
<1>2. incomplete = NoDelta /\ incomplete # Garbled /\ ~Over
  BY <1>1, NoDeltaIsNothing, GivenType DEF Assembling, Parsing, Over
<1>3. PICK w \in Texts, c \in Calls : Behind(w, c)
  BY <1>1, <1>2, InterruptedStays DEF Whole
<1>4. Line.delta = NoDelta
  BY <1>1, LineType, LineIs
<1>5. w \o <<>> = w /\ c \o <<>> = c
  BY TextConcat, ConcatEmptySeq DEF Calls
<1>6. TextUpto(sent', pos') = w /\ CallsUpto(sent', pos') = c
  BY <1>1, <1>2, <1>3, <1>4, <1>5, NextLine, NoDeltaIsNothing DEF Behind
<1>7. text' = Routed(w)
  <2>1. FeedAll(Fresh, w) = [router |-> router, out |-> text]
    BY <1>3 DEF Behind
  <2>2. FeedAll(Fresh, w).out \o Finalize(FeedAll(Fresh, w).router) = Routed(w)
    BY RouterFollowsReference
  <2> QED BY <1>1, <2>1, <2>2
<1>8. tools = Together(c)
  BY <1>3 DEF Behind
<1>9. ASSUME streaming \/ Indexes(c) = 0..Cardinality(Indexes(c)) - 1 PROVE tools' = Together(c)
  <2>1. CASE streaming
    BY <1>1, <1>8, <2>1
  <2>2. CASE ~streaming
    <3>1. IsFunction(Together(c)) /\ DOMAIN Together(c) = Indexes(c)
      BY DEF Together, IsFunction
    <3>2. Listed(Together(c)) = Together(c)
      BY <1>9, <2>2, <3>1, ListedAll
    <3> QED BY <1>1, <1>8, <2>2, <3>2
  <2> QED BY <2>1, <2>2
<1>10. pos' \in 1..Len(sent') /\ sent'[pos'].kind = "done" /\ streaming' = streaming
  <2>1. pos + 1 \in 1..Len(sent) /\ Line = sent[pos + 1]
    BY <1>1, LineType DEF Line
  <2> QED BY <1>1, <2>1
<1> QED BY <1>6, <1>7, <1>9, <1>10 DEF Complete

\* Whole is inductive, with Types.
LEMMA WholeStep == Types /\ Whole /\ [StreamNext]_streamVars => Whole'
<1> SUFFICES ASSUME Types, Whole, [StreamNext]_streamVars PROVE Whole'
  OBVIOUS
<1>1. CASE UNCHANGED streamVars
  BY <1>1 DEF streamVars, Whole, Open, Behind, Answered, Complete, Over, Interrupted
<1>2. CASE \/ \E how \in {"eof", "error"} : End(how)
           \/ ~Over /\ (Expire \/ Leave)
           \/ ReadEnd
  <2>1. /\ UNCHANGED <<sent, streaming, parser, client>>
        /\ phase' = phase \/ (phase = "probe" /\ phase' \in {"queued", "parse"})
        /\ phase' # "over" /\ (~Over' => ~Over)
    BY <1>2 DEF End, Over, Expire, Leave, ReadEnd
  <2> QED BY <2>1 DEF Whole, Open, Behind, Interrupted, Answered
<1>3. CASE \E l \in Lines : ReadHead(l) \/ ReadRest(l)
  <2>1. phase = "probe" /\ UNCHANGED <<phase, parser, client>>
    BY <1>3 DEF ReadHead, ReadRest, Receive
  <2>2. pos = 0 /\ ~Over /\ ~Interrupted(pos)
    BY <2>1 DEF Whole, Over, Interrupted
  <2>3. TextUpto(sent', pos') = TextUpto(sent, pos) /\ CallsUpto(sent', pos') = CallsUpto(sent, pos)
    BY <2>1, <2>2, UptoNone
  <2>4. \A w \in Texts, c \in Calls : Behind(w, c) => Behind(w, c)'
    BY <2>1, <2>3 DEF Behind
  <2>5. Open'
    BY <2>1, <2>2 DEF Whole, Open
  <2> QED BY <2>1, <2>2, <2>4, <2>5 DEF Whole, Answered
<1>4. CASE Skip \/ HeadOfDelta \/ StillIncomplete \/ Usage
  <2>1. /\ Parsing /\ Consumed /\ UNCHANGED <<sent, phase, router, text, tools>>
        /\ \/ /\ Line.kind \notin {"delta", "head"} /\ incomplete' = incomplete
              /\ ~Assembling \/ Line.kind \notin Closing
           \/ ~Assembling /\ Line.kind = "head" /\ incomplete' = Line.delta
           \/ Garbles
    BY <1>4 DEF Skip, HeadOfDelta, StillIncomplete, Usage, Pieces, Closing
  <2>2. phase = "parse" /\ phase' = "parse" /\ ~Over
    BY <2>1 DEF Parsing, Over
  <2>3. ASSUME ~Interrupted(pos)'
        PROVE  incomplete' # Garbled /\ Open' /\ \E w \in Texts, c \in Calls : Behind(w, c)'
    <3>1. incomplete # Garbled /\ Open /\ \E w \in Texts, c \in Calls : Behind(w, c)
      BY <2>1, <2>2, <2>3, InterruptedStays DEF Whole
    <3>2. PICK w \in Texts, c \in Calls : Behind(w, c)
      BY <3>1
    <3>3. ~Garbles
      BY <2>1, <2>3, <3>1, NoForeignLine DEF Garbles
    <3>4. CASE /\ Line.kind \notin {"delta", "head"} /\ incomplete' = incomplete
               /\ ~Assembling \/ Line.kind \notin Closing
      <4>1. Line.delta = NoDelta /\ incomplete \in Given
        BY <2>1, <3>1, <3>4, LineType, LineIs DEF Given, Types, StreamTypeOK
      <4>2. Behind(w, c)'
        BY <2>1, <3>2, <3>4, <4>1, WholeReads
      <4>3. Open'
        BY <2>1, <3>1, <3>4, StaysOpen DEF Assembling
      <4> QED BY <3>1, <3>4, <4>2, <4>3
    <3>5. CASE ~Assembling /\ Line.kind = "head" /\ incomplete' = Line.delta
      <4>1. Line.delta \in Given /\ incomplete = NoDelta
        BY <2>1, <3>5, LineType, LineIs DEF Assembling
      <4>2. Behind(w, c)'
        BY <2>1, <3>2, <3>5, <4>1, WholeReads
      <4>3. Open'
        <5>1. pos + 1 \in 1..pos + 1 /\ pos' = pos + 1 /\ sent' = sent
              /\ \A m \in (pos + 1) + 1..pos + 1 : FALSE
          BY <2>1, LenProperties DEF Types, StreamTypeOK
        <5> QED BY <3>5, <5>1 DEF Open, Line
      <4> QED BY <3>5, <4>1, <4>2, <4>3, GivenType
    <3> QED BY <2>1, <3>3, <3>4, <3>5
  <2> QED BY <2>2, <2>3 DEF Whole, Answered
<1>5. CASE Delta \/ RestOfDelta
  <2>1. /\ Parsing /\ Consumed /\ UNCHANGED sent /\ incomplete' = NoDelta
        /\ incomplete # Garbled =>
             \E d \in Given : /\ Emit(d)
                             /\ \/ incomplete = NoDelta /\ d = Line.delta
                                \/ incomplete = d /\ Line.delta = NoDelta
    <3>1. CASE Delta
      BY <3>1, LineType, LineIs, NoDeltaIsNothing, GivenType DEF Delta, Assembling
    <3>2. CASE RestOfDelta
      BY <3>2, LineType, LineIs DEF RestOfDelta, Assembling, Closing, Given, Types, StreamTypeOK
    <3> QED BY <1>5, <3>1, <3>2
  <2>2. phase = "parse" /\ phase' = "parse" /\ ~Over
    BY <1>5, <2>1 DEF Parsing, Over, Emit, Delta, RestOfDelta
  <2>3. ASSUME ~Interrupted(pos)'
        PROVE  incomplete' # Garbled /\ Open' /\ \E v \in Texts, b \in Calls : Behind(v, b)'
    <3>1. incomplete # Garbled /\ \E w \in Texts, c \in Calls : Behind(w, c)
      BY <2>1, <2>2, <2>3, InterruptedStays DEF Whole
    <3>2. \E v \in Texts, b \in Calls : Behind(v, b)'
      BY <2>1, <3>1, WholeEmits
    <3> QED BY <2>1, <3>2, NoDeltaIsNothing, GivenType DEF Open
  <2> QED BY <2>2, <2>3 DEF Whole, Answered
<1>6. CASE Done
  <2>1. phase' = "over"
    BY <1>6 DEF Done
  <2> QED BY <1>6, <2>1, DoneAnswers DEF Whole, Over, Answered
<1>7. CASE EnvelopeError \/ Malformed \/ Truncated \/ ContextDone \/ WriteFails
  <2>1. phase' = "over" /\ status' \in {403, 502}
    BY <1>7 DEF EnvelopeError, Malformed, Truncated, ContextDone, WriteFails, Fail
  <2> QED BY <2>1 DEF Whole, Over, Answered
<1> QED BY <1>1, <1>2, <1>3, <1>4, <1>5, <1>6, <1>7 DEF StreamNext, Handle

LEMMA WholeAlways == StreamSpec => [](Types /\ Whole)
<1>1. StreamInit => Types /\ Whole
  BY TypesStart, WholeStart
<1>2. (Types /\ Whole) /\ [StreamNext]_streamVars => (Types /\ Whole)'
  BY TypesStep, WholeStep
<1> QED BY <1>1, <1>2, PTL DEF StreamSpec

(* A client that is told of no error has the text of every delta up to     *)
(* [DONE], in order, each byte once and in the channel the reference gives *)
(* it, however the upstream cut the text into deltas and tags and the JSON *)
(* of a delta into lines, as long as it put no other value between them.   *)
THEOREM AnswerIsWholeAlways == StreamSpec => []AnswerIsWhole
<1>1. Types /\ Whole => AnswerIsWhole
  BY DEF Whole, Complete, Answered, AnswerIsWhole, TextUpto
<1> QED BY <1>1, WholeAlways, PTL

(* And every tool call, put together from its fragments in order; as a     *)
(* response, if their indexes are 0 up to their number.                    *)
THEOREM CallsAreWholeAlways == StreamSpec => []CallsAreWhole
<1>1. Types /\ Whole => CallsAreWhole
  BY DEF Whole, Complete, Answered, CallsAreWhole, CallsUpto, Together
<1> QED BY <1>1, WholeAlways, PTL
=============================================================================
