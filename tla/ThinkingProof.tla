---------------------------- MODULE ThinkingProof ----------------------------
(***************************************************************************)
(* Proofs about the thinking router, for texts of any length and any table *)
(* of tags: fed byte by byte, whatever the deltas are cut into, it         *)
(* sends on what the reference makes of the text as a whole.               *)
(***************************************************************************)
EXTENDS Thinking, Recursion

Texts   == Seq(Bytes \X BOOLEAN)
Routers == [inThinking : BOOLEAN, pending : Seq(Bytes), pendingReasoning : BOOLEAN]
Feds    == [router : Routers, out : Texts]
Fresh   == [router |-> NewRouter, out |-> <<>>]

LEMMA TextConcat ==
  ASSUME NEW s \in Texts, NEW t \in Texts
  PROVE  s \o t \in Texts /\ s \o <<>> = s /\ <<>> \o s = s
  BY ConcatProperties, ConcatEmptySeq DEF Texts

LEMMA TextAssociative ==
  ASSUME NEW s \in Texts, NEW t \in Texts, NEW u \in Texts
  PROVE  (s \o t) \o u = s \o (t \o u)
  BY ConcatAssociative DEF Texts

-----------------------------------------------------------------------------
(* What the operators return.                                              *)

LEMMA OnType ==
  ASSUME NEW s \in Seq(Bytes), NEW b \in BOOLEAN
  PROVE  On(s, b) \in Texts /\ Len(On(s, b)) = Len(s) /\ (On(s, b) = <<>> <=> s = <<>>)
<1>1. Len(s) \in Nat /\ DOMAIN s = 1..Len(s) /\ \A i \in 1..Len(s) : s[i] \in Bytes
  BY LenProperties, ElementOfSeq
<1>2. On(s, b) = [i \in 1..Len(s) |-> <<s[i], b>>]
  BY <1>1 DEF On
<1>3. \A i \in 1..Len(s) : <<s[i], b>> \in Bytes \X BOOLEAN
  BY <1>1
<1>4. On(s, b) \in Texts /\ Len(On(s, b)) = Len(s)
  BY <1>1, <1>2, <1>3 DEF Texts
<1>5. \A t \in Texts : t = <<>> <=> Len(t) = 0
  BY EmptySeq DEF Texts
<1>6. s = <<>> <=> Len(s) = 0
  BY EmptySeq
<1> QED BY <1>4, <1>5, <1>6

LEMMA FinalizeType ==
  ASSUME NEW p \in Routers
  PROVE  Finalize(p) \in Texts
<1>1. p.pending \in Seq(Bytes) /\ (p.pendingReasoning \/ p.inThinking) \in BOOLEAN
  BY DEF Routers
<1> QED BY <1>1, OnType DEF Finalize

Record(thinking, pending, reasoning) ==
  [inThinking |-> thinking, pending |-> pending, pendingReasoning |-> reasoning]

\* The router holding back one byte more, and the one holding back none.
Held(p, c, source) == Record(p.inThinking, Append(p.pending, c), p.pendingReasoning \/ source)
Idle(thinking)     == Record(thinking, <<>>, FALSE)

LEMMA HeldType ==
  ASSUME NEW p \in Routers, NEW c \in Bytes, NEW source \in BOOLEAN
  PROVE  Held(p, c, source) \in Routers
<1>1. Append(p.pending, c) \in Seq(Bytes)
  BY AppendProperties DEF Routers
<1> QED BY <1>1 DEF Routers, Held, Record

LEMMA IdleType == \A b \in BOOLEAN : Idle(b) \in Routers
  BY EmptySeq DEF Idle, Routers, Record

LEMMA RecordIs ==
  ASSUME NEW q, DOMAIN q = {"inThinking", "pending", "pendingReasoning"},
         q = [x \in DOMAIN q |-> q[x]]
  PROVE  q = Record(q.inThinking, q.pending, q.pendingReasoning)
  BY DEF Record

\* EXCEPT on a router.
LEMMA Excepts ==
  ASSUME NEW p \in Routers, NEW s, NEW b
  PROVE  [p EXCEPT !.pending = s, !.pendingReasoning = b] = Record(p.inThinking, s, b)
<1> DEFINE q == [p EXCEPT !.pending = s, !.pendingReasoning = b]
<1>1. /\ q.inThinking = p.inThinking /\ q.pending = s /\ q.pendingReasoning = b
      /\ DOMAIN q = {"inThinking", "pending", "pendingReasoning"}
  BY DEF Routers
<1>2. q = [x \in DOMAIN q |-> q[x]]
  OBVIOUS
<1> HIDE DEF q
<1>3. q = Record(q.inThinking, q.pending, q.pendingReasoning)
  BY <1>1, <1>2, RecordIs
<1> QED BY <1>1, <1>3 DEF q

LEMMA ExceptThinking ==
  ASSUME NEW x, NEW b
  PROVE  [Idle(x) EXCEPT !.inThinking = b] = Idle(b)
<1>1. \A y, z : [Record(x, y, z) EXCEPT !.inThinking = b] = Record(b, y, z)
  BY DEF Record
<1> QED BY <1>1 DEF Idle

(* The three cases of a byte, with records in place of EXCEPT.             *)
LEMMA FeedByteCases ==
  ASSUME NEW fed \in Feds, NEW c \in Bytes, NEW source \in BOOLEAN
  PROVE  FeedByte(fed, c, source) =
           LET held == Held(fed.router, c, source)
           IN  IF held.pending \in DOMAIN ThinkingTags
               THEN [router |-> Idle(ThinkingTags[held.pending]), out |-> fed.out]
               ELSE IF IsTagPrefix(held.pending) THEN [router |-> held, out |-> fed.out]
               ELSE [router |-> Idle(held.inThinking), out |-> fed.out \o Finalize(held)]
<1> DEFINE p    == fed.router
           held == [p EXCEPT !.pending = Append(p.pending, c), !.pendingReasoning = p.pendingReasoning \/ source]
           idle == [p EXCEPT !.pending = <<>>, !.pendingReasoning = FALSE]
<1>1. p \in Routers
  BY DEF Feds
<1>2. held = Held(p, c, source)
  BY <1>1, Excepts DEF Held
<1>3. idle = Idle(p.inThinking)
  BY <1>1, Excepts DEF Idle
<1>4. Held(p, c, source).inThinking = p.inThinking
  BY DEF Held, Record
<1>5. \A b : [Idle(p.inThinking) EXCEPT !.inThinking = b] = Idle(b)
  BY ExceptThinking
<1>6. \A r : [fed EXCEPT !.router = r] = [router |-> r, out |-> fed.out]
  BY DEF Feds
<1>7. FeedByte(fed, c, source) =
        IF held.pending \in DOMAIN ThinkingTags
        THEN [fed EXCEPT !.router = [idle EXCEPT !.inThinking = ThinkingTags[held.pending]]]
        ELSE IF IsTagPrefix(held.pending)
        THEN [fed EXCEPT !.router = held]
        ELSE [router |-> idle, out |-> fed.out \o Finalize(held)]
  BY DEF FeedByte
<1> HIDE DEF held, idle, p
<1> QED BY <1>2, <1>3, <1>4, <1>5, <1>6, <1>7 DEF p

LEMMA FeedByteType ==
  ASSUME NEW fed \in Feds, NEW c \in Bytes, NEW source \in BOOLEAN
  PROVE  FeedByte(fed, c, source) \in Feds
<1> DEFINE held == Held(fed.router, c, source)
<1>1. fed.router \in Routers /\ fed.out \in Texts
  BY DEF Feds
<1>2. held \in Routers
  BY <1>1, HeldType
<1>3. Finalize(held) \in Texts /\ fed.out \o Finalize(held) \in Texts
  BY <1>1, <1>2, FinalizeType, ConcatProperties DEF Texts
<1>4. held.pending \in DOMAIN ThinkingTags => ThinkingTags[held.pending] \in BOOLEAN
  BY TagTable
<1>5. held.inThinking \in BOOLEAN
  BY <1>2 DEF Routers
<1> HIDE DEF held
<1>6. \A r \in Routers, t \in Texts : [router |-> r, out |-> t] \in Feds
  BY DEF Feds
<1>7. \/ FeedByte(fed, c, source) = [router |-> held, out |-> fed.out]
      \/ \E b \in BOOLEAN : \/ FeedByte(fed, c, source) = [router |-> Idle(b), out |-> fed.out]
                            \/ FeedByte(fed, c, source) = [router |-> Idle(b), out |-> fed.out \o Finalize(held)]
  BY <1>4, <1>5, FeedByteCases DEF held
<1> QED BY <1>1, <1>2, <1>3, <1>6, <1>7, IdleType

-----------------------------------------------------------------------------
(* FeedAll, by its value on a text that grows at the end.                  *)

Feeds(f, text) == \A i \in 1..Len(text) : f[i] = FeedByte(f[i - 1], text[i][1], text[i][2])

\* FeedAll is a recursion that exists: a function over the places of the text.
LEMMA FeedAllIs ==
  ASSUME NEW fed \in Feds, NEW text \in Texts
  PROVE  \E f \in [0..Len(text) -> Feds] :
           f[0] = fed /\ Feeds(f, text) /\ FeedAll(fed, text) = f[Len(text)]
<1> DEFINE n == Len(text)
<1>0. n \in Nat /\ \A i \in 1..n : text[i] \in Bytes \X BOOLEAN
  BY LenProperties, ElementOfSeq DEF Texts
<1>1. PICK f \in [0..n -> Feds] : f[0] = fed /\ Feeds(f, text)
  <2> DEFINE step == [at \in (1..n) \X Feds |-> FeedByte(at[2], text[at[1]][1], text[at[1]][2])]
  <2>0. ASSUME NEW i \in 1..n, NEW s \in Feds
        PROVE  FeedByte(s, text[i][1], text[i][2]) \in Feds
    <3>1. text[i][1] \in Bytes /\ text[i][2] \in BOOLEAN
      BY <1>0
    <3> QED BY <3>1, FeedByteType
  <2>1. Steps(step, n, Feds)
    BY <2>0 DEF Steps
  <2>2. \A i \in 1..n, s \in Feds : step[<<i, s>>] = FeedByte(s, text[i][1], text[i][2])
    OBVIOUS
  <2> HIDE DEF step
  <2>3. PICK f : Follows(f, n, Feds, fed, step)
    BY <1>0, <2>1, Existence, Zenon
  <2>4. \A i \in 1..n : i - 1 \in 0..n
    BY <1>0
  <2>5. f \in [0..n -> Feds] /\ f[0] = fed
    BY <2>3 DEF Follows
  <2>6. \A i \in 1..n : f[i] = FeedByte(f[i - 1], text[i][1], text[i][2])
    BY <2>2, <2>3, <2>4, <2>5 DEF Follows
  <2> QED BY <2>5, <2>6 DEF Feeds
<1> DEFINE After[i \in 0..n] == IF i = 0 THEN fed ELSE FeedByte(After[i - 1], text[i][1], text[i][2])
<1>2. FeedAll(fed, text) = After[n]
  BY DEF FeedAll
<1>3. After = [i \in 0..n |-> IF i = 0 THEN fed ELSE FeedByte(After[i - 1], text[i][1], text[i][2])]
  <2> SUFFICES \E g : g = [i \in 0..n |-> IF i = 0 THEN fed ELSE FeedByte(g[i - 1], text[i][1], text[i][2])]
    BY Zenon
  <2>1. ASSUME NEW i \in 0..n
        PROVE  f[i] = IF i = 0 THEN fed ELSE FeedByte(f[i - 1], text[i][1], text[i][2])
    <3>1. i = 0 \/ i \in 1..n
      BY <1>0
    <3> QED BY <1>1, <3>1, Zenon DEF Feeds
  <2>2. f = [i \in 0..n |-> f[i]]
    BY <1>1
  <2>3. f = [i \in 0..n |-> IF i = 0 THEN fed ELSE FeedByte(f[i - 1], text[i][1], text[i][2])]
    BY <2>1, <2>2, Zenon
  <2> QED BY <2>3, Zenon
<1> HIDE DEF After
<1>4. After[0] = fed
  <2>1. 0 \in 0..n
    BY <1>0
  <2> QED BY <1>3, <2>1, Zenon
<1>5. \A i \in 1..n : After[i] = FeedByte(After[i - 1], text[i][1], text[i][2])
  <2>1. \A i \in 1..n : i \in 0..n /\ i # 0
    BY <1>0
  <2> QED BY <1>3, <2>1, Zenon
<1>6. Alike(f, After, n)
  <2>1. GoAlike(f, After, n)
    BY <1>1, <1>4, <1>5 DEF GoAlike, Feeds
  <2> QED BY <1>0, <2>1, Agreement
<1>7. n \in 0..n
  BY <1>0
<1> QED BY <1>1, <1>2, <1>6, <1>7 DEF Alike

LEMMA FeedAllType ==
  ASSUME NEW fed \in Feds, NEW text \in Texts
  PROVE  FeedAll(fed, text) \in Feds
<1>1. Len(text) \in 0..Len(text)
  BY LenProperties DEF Texts
<1> QED BY <1>1, FeedAllIs

LEMMA FeedAllEmpty ==
  ASSUME NEW fed \in Feds
  PROVE  FeedAll(fed, <<>>) = fed
<1>1. <<>> \in Texts /\ Len(<<>>) = 0
  BY EmptySeq DEF Texts
<1> QED BY <1>1, FeedAllIs

\* One byte more.
LEMMA FeedAllAppend ==
  ASSUME NEW fed \in Feds, NEW text \in Texts, NEW x \in Bytes \X BOOLEAN
  PROVE  FeedAll(fed, Append(text, x)) = FeedByte(FeedAll(fed, text), x[1], x[2])
<1> DEFINE n == Len(text)
           u == Append(text, x)
<1>0. /\ n \in Nat /\ u \in Texts /\ Len(u) = n + 1 /\ u[n + 1] = x
      /\ \A i \in 1..n : u[i] = text[i]
  BY LenProperties, AppendProperties DEF Texts
<1> HIDE DEF u
<1>1. PICK f \in [0..n -> Feds] : f[0] = fed /\ Feeds(f, text) /\ FeedAll(fed, text) = f[n]
  BY FeedAllIs
<1>2. PICK g \in [0..n + 1 -> Feds] : g[0] = fed /\ Feeds(g, u) /\ FeedAll(fed, u) = g[n + 1]
  BY <1>0, FeedAllIs
<1>3. Alike(f, g, n)
  <2>1. \A i \in 1..n : i \in 1..n + 1
    BY <1>0
  <2>2. \A i \in 1..n : g[i] = FeedByte(g[i - 1], text[i][1], text[i][2])
    BY <1>0, <1>2, <2>1 DEF Feeds
  <2>3. GoAlike(f, g, n)
    BY <1>1, <1>2, <2>2 DEF GoAlike, Feeds
  <2> HIDE DEF n
  <2> QED BY <1>0, <2>3, Agreement
<1>4. g[n + 1] = FeedByte(g[n], x[1], x[2])
  <2>1. n + 1 \in 1..n + 1 /\ (n + 1) - 1 = n
    BY <1>0
  <2>2. g[n + 1] = FeedByte(g[(n + 1) - 1], u[n + 1][1], u[n + 1][2])
    BY <1>0, <1>2, <2>1, Zenon DEF Feeds
  <2> QED BY <1>0, <2>1, <2>2
<1>5. n \in 0..n
  BY <1>0
<1> QED BY <1>1, <1>2, <1>3, <1>4, <1>5 DEF u, Alike

\* A text fed in two parts is fed as a whole: deltas leave no trace.
LEMMA FeedAllConcat ==
  ASSUME NEW fed \in Feds, NEW s \in Texts, NEW t \in Texts
  PROVE  FeedAll(fed, s \o t) = FeedAll(FeedAll(fed, s), t)
<1> DEFINE T == {v \in Texts : FeedAll(fed, s \o v) = FeedAll(FeedAll(fed, s), v)}
<1>0. FeedAll(fed, s) \in Feds /\ <<>> \in Texts /\ s \o <<>> = s
  BY FeedAllType, EmptySeq, ConcatEmptySeq DEF Texts
<1>1. <<>> \in T
  <2>1. FeedAll(FeedAll(fed, s), <<>>) = FeedAll(fed, s)
    BY <1>0, FeedAllEmpty
  <2> QED BY <1>0, <2>1
<1>2. ASSUME NEW v \in Texts, NEW x \in Bytes \X BOOLEAN, v \in T PROVE Append(v, x) \in T
  <2>1. s \o v \in Texts /\ Append(v, x) \in Texts
    BY ConcatProperties, AppendProperties DEF Texts
  <2>2. s \o Append(v, x) = Append(s \o v, x)
    BY DEF Texts
  <2>3. FeedAll(fed, Append(s \o v, x)) = FeedByte(FeedAll(fed, s \o v), x[1], x[2])
    BY <2>1, FeedAllAppend
  <2>4. FeedAll(FeedAll(fed, s), Append(v, x)) = FeedByte(FeedAll(FeedAll(fed, s), v), x[1], x[2])
    BY <1>0, FeedAllAppend
  <2> QED BY <1>2, <2>1, <2>2, <2>3, <2>4
<1>3. Texts \subseteq T
  <2> HIDE DEF T
  <2> QED BY <1>1, <1>2, SequenceInduction DEF Texts
<1> QED BY <1>3

(* What was sent on before a text does not change what the text becomes.   *)
LEMMA FeedAllOut ==
  ASSUME NEW p \in Routers, NEW o \in Texts, NEW text \in Texts
  PROVE  FeedAll([router |-> p, out |-> o], text)
           = LET fed == FeedAll([router |-> p, out |-> <<>>], text)
             IN  [router |-> fed.router, out |-> o \o fed.out]
<1> DEFINE After(v)  == FeedAll([router |-> p, out |-> o], v)
           Alone(v)  == FeedAll([router |-> p, out |-> <<>>], v)
           T == {v \in Texts : After(v) = [router |-> Alone(v).router, out |-> o \o Alone(v).out]}
<1>0. /\ [router |-> p, out |-> o] \in Feds /\ [router |-> p, out |-> <<>>] \in Feds
      /\ <<>> \in Texts /\ o \o <<>> = o
  BY EmptySeq, ConcatEmptySeq DEF Texts, Feds
<1>1. <<>> \in T
  <2>1. After(<<>>) = [router |-> p, out |-> o] /\ Alone(<<>>) = [router |-> p, out |-> <<>>]
    BY <1>0, FeedAllEmpty
  <2> HIDE DEF After, Alone
  <2>1a. Alone(<<>>).router = p /\ Alone(<<>>).out = <<>>
    BY <2>1
  <2>2. After(<<>>) = [router |-> Alone(<<>>).router, out |-> o \o Alone(<<>>).out]
    BY <1>0, <2>1, <2>1a, Zenon
  <2> QED BY <1>0, <2>2, Zenon
<1>2. ASSUME NEW v \in Texts, NEW x \in Bytes \X BOOLEAN, v \in T PROVE Append(v, x) \in T
  <2>1. Append(v, x) \in Texts
    BY AppendProperties DEF Texts
  <2>2. /\ After(v) \in Feds /\ After(Append(v, x)) = FeedByte(After(v), x[1], x[2])
        /\ Alone(v) \in Feds /\ Alone(Append(v, x)) = FeedByte(Alone(v), x[1], x[2])
    BY <1>0, FeedAllAppend, FeedAllType
  <2>3. After(v).router = Alone(v).router /\ After(v).out = o \o Alone(v).out
    BY <1>2
  <2> DEFINE held == Held(Alone(v).router, x[1], x[2])
  <2>4. x[1] \in Bytes /\ x[2] \in BOOLEAN /\ Alone(v).router \in Routers /\ Alone(v).out \in Texts
    BY <2>2 DEF Feds
  <2>5. held \in Routers
    BY <2>4, HeldType
  <2> HIDE DEF After, Alone
  <2>5a. Finalize(held) \in Texts
    BY <2>5, FinalizeType
  <2>6. (o \o Alone(v).out) \o Finalize(held) = o \o (Alone(v).out \o Finalize(held))
    BY <2>4, <2>5a, TextAssociative
  <2>7. \A f \in Feds : FeedByte(f, x[1], x[2]) =
          LET h == Held(f.router, x[1], x[2])
          IN  IF h.pending \in DOMAIN ThinkingTags
              THEN [router |-> Idle(ThinkingTags[h.pending]), out |-> f.out]
              ELSE IF IsTagPrefix(h.pending) THEN [router |-> h, out |-> f.out]
              ELSE [router |-> Idle(h.inThinking), out |-> f.out \o Finalize(h)]
    BY <2>4, FeedByteCases
  <2> HIDE DEF held
  <2>8. After(Append(v, x)) =
          IF held.pending \in DOMAIN ThinkingTags
          THEN [router |-> Idle(ThinkingTags[held.pending]), out |-> o \o Alone(v).out]
          ELSE IF IsTagPrefix(held.pending) THEN [router |-> held, out |-> o \o Alone(v).out]
          ELSE [router |-> Idle(held.inThinking), out |-> (o \o Alone(v).out) \o Finalize(held)]
    BY <2>2, <2>3, <2>7 DEF held
  <2>9. Alone(Append(v, x)) =
          IF held.pending \in DOMAIN ThinkingTags
          THEN [router |-> Idle(ThinkingTags[held.pending]), out |-> Alone(v).out]
          ELSE IF IsTagPrefix(held.pending) THEN [router |-> held, out |-> Alone(v).out]
          ELSE [router |-> Idle(held.inThinking), out |-> Alone(v).out \o Finalize(held)]
    BY <2>2, <2>7 DEF held
  <2>10. After(Append(v, x)) = [router |-> Alone(Append(v, x)).router, out |-> o \o Alone(Append(v, x)).out]
    <3>1. CASE held.pending \in DOMAIN ThinkingTags
      BY <2>8, <2>9, <3>1
    <3>2. CASE held.pending \notin DOMAIN ThinkingTags /\ IsTagPrefix(held.pending)
      BY <2>8, <2>9, <3>2
    <3>3. CASE held.pending \notin DOMAIN ThinkingTags /\ ~IsTagPrefix(held.pending)
      BY <2>6, <2>8, <2>9, <3>3
    <3> QED BY <3>1, <3>2, <3>3
  <2> QED BY <2>1, <2>10, Zenon
<1>3. Texts \subseteq T
  <2> HIDE DEF T
  <2> QED BY <1>1, <1>2, SequenceInduction DEF Texts
<1> QED BY <1>3

-----------------------------------------------------------------------------
(* The reference.                                                          *)

\* A cut is a text, and grows by one byte.
LEMMA CutIs ==
  ASSUME NEW text \in Texts, NEW i \in 1..Len(text) + 1, NEW j \in i - 1..Len(text)
  PROVE  /\ Cut(text, i, j) \in Seq(Bytes)
         /\ Len(Cut(text, i, j)) = j - i + 1
         /\ j < Len(text) => Cut(text, i, j + 1) = Append(Cut(text, i, j), text[j + 1][1])
<1>0. Len(text) \in Nat /\ \A k \in 1..Len(text) : text[k] \in Bytes \X BOOLEAN
  BY LenProperties, ElementOfSeq DEF Texts
<1>1. ASSUME NEW m \in i - 1..Len(text)
      PROVE  /\ Cut(text, i, m) \in Seq(Bytes)
             /\ Len(Cut(text, i, m)) = m - i + 1
             /\ \A k \in 1..m - i + 1 : Cut(text, i, m)[k] = text[i + k - 1][1]
  <2>1. m - i + 1 \in Nat /\ \A k \in 1..m - i + 1 : i + k - 1 \in 1..Len(text)
    BY <1>0
  <2>2. \A k \in 1..m - i + 1 : text[i + k - 1][1] \in Bytes
    BY <1>0, <2>1
  <2> QED BY <2>1, <2>2 DEF Cut
<1>2. ASSUME j < Len(text) PROVE Cut(text, i, j + 1) = Append(Cut(text, i, j), text[j + 1][1])
  <2> DEFINE a == Cut(text, i, j + 1)
             b == Append(Cut(text, i, j), text[j + 1][1])
  <2>1. j + 1 \in i - 1..Len(text) /\ j + 1 \in 1..Len(text) /\ text[j + 1][1] \in Bytes
    BY <1>0, <1>2
  <2>2. a \in Seq(Bytes) /\ Len(a) = j - i + 2 /\ \A k \in 1..j - i + 2 : a[k] = text[i + k - 1][1]
    <3>1. (j + 1) - i + 1 = j - i + 2
      BY <1>0
    <3> QED BY <1>1, <2>1, <3>1
  <2>3. b \in Seq(Bytes) /\ Len(b) = j - i + 2 /\ \A k \in 1..j - i + 2 : b[k] = text[i + k - 1][1]
    <3>1. /\ Cut(text, i, j) \in Seq(Bytes) /\ Len(Cut(text, i, j)) = j - i + 1
          /\ \A k \in 1..j - i + 1 : Cut(text, i, j)[k] = text[i + k - 1][1]
      BY <1>1
    <3>2. /\ b \in Seq(Bytes) /\ Len(b) = (j - i + 1) + 1
          /\ \A k \in 1..j - i + 1 : b[k] = Cut(text, i, j)[k]
          /\ b[(j - i + 1) + 1] = text[j + 1][1]
      BY <2>1, <3>1, AppendProperties
    <3>3. \A k \in 1..j - i + 2 : k \in 1..j - i + 1 \/ (k = (j - i + 1) + 1 /\ i + k - 1 = j + 1)
      BY <1>0
    <3>4. (j - i + 1) + 1 = j - i + 2
      BY <1>0
    <3> HIDE DEF b
    <3> QED BY <3>1, <3>2, <3>3, <3>4
  <2> HIDE DEF a, b
  <2>4. a = b
    BY <2>2, <2>3, SeqEqual
  <2> QED BY <2>4 DEF a, b
<1> QED BY <1>1, <1>2

\* Every piece has a first end.
LEMMA FirstEndIs ==
  ASSUME NEW text \in Texts, NEW i \in 1..Len(text)
  PROVE  /\ FirstEnd(text, i) \in Ends(text, i) /\ FirstEnd(text, i) \in i..Len(text)
         /\ \A k \in Ends(text, i) : FirstEnd(text, i) <= k
<1>0. Len(text) \in Nat
  BY LenProperties DEF Texts
<1>1. Ends(text, i) \subseteq Nat /\ Ends(text, i) \subseteq i..Len(text) /\ Len(text) \in Ends(text, i)
  BY <1>0 DEF Ends
<1>2. \E j \in Ends(text, i) : \A k \in Ends(text, i) : j <= k
  BY <1>1, Least
<1>3. FirstEnd(text, i) \in Ends(text, i) /\ \A k \in Ends(text, i) : FirstEnd(text, i) <= k
  BY <1>2, Zenon DEF FirstEnd
<1> QED BY <1>1, <1>3

\* The piece from i on, when the rest of the text is what f says.
Piece(f, text, i) ==
  IF i = Len(text) + 1 THEN [thinking \in BOOLEAN |-> <<>>]
  ELSE LET j     == FirstEnd(text, i)
           piece == Cut(text, i, j)
       IN  [thinking \in BOOLEAN |->
              IF piece \in DOMAIN ThinkingTags THEN f[j + 1][ThinkingTags[piece]]
              ELSE On(piece, thinking \/ \E k \in i..j : text[k][2]) \o f[j + 1][thinking]]

\* What is made of the text from i on depends on what comes after i only.
LEMMA PieceDepends ==
  ASSUME NEW text \in Texts, NEW i \in 1..Len(text) + 1, NEW f, NEW g,
         \A k \in i + 1..Len(text) + 1 : f[k] = g[k]
  PROVE  Piece(f, text, i) = Piece(g, text, i)
<1>1. CASE i = Len(text) + 1
  BY <1>1 DEF Piece
<1>2. CASE i # Len(text) + 1
  <2>1. Len(text) \in Nat
    BY LenProperties DEF Texts
  <2>2. i \in 1..Len(text)
    BY <1>2, <2>1
  <2>3. FirstEnd(text, i) \in i..Len(text)
    BY <2>2, FirstEndIs
  <2>4. FirstEnd(text, i) + 1 \in i + 1..Len(text) + 1
    BY <2>1, <2>3
  <2>5. f[FirstEnd(text, i) + 1] = g[FirstEnd(text, i) + 1]
    BY <2>4
  <2> QED BY <2>5, Zenon DEF Piece
<1> QED BY <1>1, <1>2

\* The reference's recursion, from the end of the text, exists.
LEMMA RestIs ==
  ASSUME NEW text \in Texts
  PROVE  \A i \in 1..Len(text) + 1 : Rest(text)[i] = Piece(Rest(text), text, i)
<1> DEFINE n == Len(text)
           From[i \in 1..n + 1] ==
             IF i = n + 1 THEN [thinking \in BOOLEAN |-> <<>>]
             ELSE LET j     == FirstEnd(text, i)
                      piece == Cut(text, i, j)
                  IN  [thinking \in BOOLEAN |->
                         IF piece \in DOMAIN ThinkingTags THEN From[j + 1][ThinkingTags[piece]]
                         ELSE On(piece, thinking \/ \E k \in i..j : text[k][2]) \o From[j + 1][thinking]]
<1>0. n \in Nat
  BY LenProperties DEF Texts
<1>1. Rest(text) = From
  BY DEF Rest
<1>2. From = CHOOSE f : f = [i \in 1..n + 1 |-> Piece(f, text, i)]
  BY Zenon DEF Piece
<1> HIDE DEF From
<1> DEFINE Upward(f, m) == \A i \in m..n + 1 : f[i] = Piece(f, text, i)
           T == {m \in 0..n : \E f : Upward(f, n + 1 - m)}
<1>3. 0 \in T
  <2> DEFINE f == [i \in {n + 1} |-> [thinking \in BOOLEAN |-> <<>>]]
  <2>1. f[n + 1] = Piece(f, text, n + 1)
    BY DEF Piece
  <2>2. Upward(f, n + 1 - 0)
    <3>1. \A i \in n + 1 - 0..n + 1 : i = n + 1
      BY <1>0
    <3> HIDE DEF f
    <3> QED BY <2>1, <3>1
  <2>3. 0 \in 0..n
    BY <1>0
  <2> HIDE DEF Upward
  <2> QED BY <2>2, <2>3, Zenon
<1>4. ASSUME NEW m \in 0..n - 1, m \in T PROVE m + 1 \in T
  <2>1. PICK f : Upward(f, n + 1 - m)
    BY <1>4
  <2> DEFINE l == n - m
             g == [i \in l..n + 1 |-> IF i = l THEN Piece(f, text, l) ELSE f[i]]
  <2>2. l \in 1..n + 1 /\ n + 1 - m = l + 1 /\ n + 1 - (m + 1) = l /\ m + 1 \in 0..n
    BY <1>0
  <2> HIDE DEF l
  <2>3. /\ g[l] = Piece(f, text, l) /\ \A i \in l + 1..n + 1 : g[i] = f[i]
    BY <1>0, <2>2
  <2> HIDE DEF g
  <2>4. \A i \in l..n + 1 : Piece(f, text, i) = Piece(g, text, i)
    <3> SUFFICES ASSUME NEW i \in l..n + 1 PROVE Piece(f, text, i) = Piece(g, text, i)
      OBVIOUS
    <3>1. i \in 1..n + 1 /\ \A k \in i + 1..n + 1 : k \in l + 1..n + 1
      BY <1>0, <2>2
    <3>2. \A k \in i + 1..n + 1 : f[k] = g[k]
      BY <2>3, <3>1
    <3> QED BY <3>1, <3>2, PieceDepends
  <2>5. Upward(g, l)
    <3>1. \A i \in l..n + 1 : i = l \/ i \in l + 1..n + 1
      BY <1>0, <2>2
    <3>2. \A i \in l + 1..n + 1 : f[i] = Piece(f, text, i)
      BY <2>1, <2>2
    <3> QED BY <2>3, <2>4, <3>1, <3>2, Zenon
  <2> HIDE DEF Upward
  <2> QED BY <2>2, <2>5
<1>5. 0..n \subseteq T
  <2> HIDE DEF T, n
  <2> QED BY <1>0, <1>3, <1>4, Induction
<1>6. PICK f : \A i \in 1..n + 1 : f[i] = Piece(f, text, i)
  <2>1. n \in 0..n /\ n + 1 - n = 1
    BY <1>0
  <2>2. n \in T
    BY <1>5, <2>1
  <2> QED BY <2>1, <2>2
<1> DEFINE g == [i \in 1..n + 1 |-> f[i]]
<1>7. \A i \in 1..n + 1 : Piece(f, text, i) = Piece(g, text, i)
  <2> SUFFICES ASSUME NEW i \in 1..n + 1 PROVE Piece(f, text, i) = Piece(g, text, i)
    OBVIOUS
  <2>1. \A k \in i + 1..n + 1 : k \in 1..n + 1
    BY <1>0
  <2>2. \A k \in i + 1..n + 1 : f[k] = g[k]
    BY <2>1
  <2> QED BY <2>2, PieceDepends
<1>8. g = [i \in 1..n + 1 |-> Piece(g, text, i)]
  BY <1>6, <1>7
<1>9. From = [i \in 1..n + 1 |-> Piece(From, text, i)]
  <2> HIDE DEF g
  <2> QED BY <1>2, <1>8, Zenon
<1> QED BY <1>1, <1>9

\* Some byte of a piece is reasoning by its source.
Reasoned(text, i, j) == \E k \in i..j : text[k][2]

(* What a piece and all after it become, case by case.                     *)
LEMMA RestCases ==
  ASSUME NEW text \in Texts, NEW thinking \in BOOLEAN
  PROVE  /\ Rest(text)[Len(text) + 1][thinking] = <<>>
         /\ \A i \in 1..Len(text) :
              LET j == FirstEnd(text, i)
              IN  Rest(text)[i][thinking] =
                    IF Cut(text, i, j) \in DOMAIN ThinkingTags
                    THEN Rest(text)[j + 1][ThinkingTags[Cut(text, i, j)]]
                    ELSE On(Cut(text, i, j), thinking \/ Reasoned(text, i, j)) \o Rest(text)[j + 1][thinking]
<1>0. Len(text) \in Nat
  BY LenProperties DEF Texts
<1>1. Rest(text)[Len(text) + 1][thinking] = <<>>
  <2>1. Rest(text)[Len(text) + 1] = Piece(Rest(text), text, Len(text) + 1)
    BY <1>0, RestIs
  <2>2. Piece(Rest(text), text, Len(text) + 1) = [b \in BOOLEAN |-> <<>>]
    BY DEF Piece
  <2> QED BY <2>1, <2>2
<1>2. ASSUME NEW i \in 1..Len(text)
      PROVE  LET j == FirstEnd(text, i)
             IN  Rest(text)[i][thinking] =
                   IF Cut(text, i, j) \in DOMAIN ThinkingTags
                   THEN Rest(text)[j + 1][ThinkingTags[Cut(text, i, j)]]
                   ELSE On(Cut(text, i, j), thinking \/ Reasoned(text, i, j)) \o Rest(text)[j + 1][thinking]
  <2>1. i \in 1..Len(text) + 1 /\ i # Len(text) + 1
    BY <1>0
  <2>2. Rest(text)[i] = Piece(Rest(text), text, i)
    BY <2>1, RestIs
  <2>3. Piece(Rest(text), text, i) =
          LET j     == FirstEnd(text, i)
              piece == Cut(text, i, j)
          IN  [b \in BOOLEAN |->
                 IF piece \in DOMAIN ThinkingTags THEN Rest(text)[j + 1][ThinkingTags[piece]]
                 ELSE On(piece, b \/ Reasoned(text, i, j)) \o Rest(text)[j + 1][b]]
    BY <2>1, Zenon DEF Piece, Reasoned
  <2> QED BY <2>2, <2>3, Zenon
<1> QED BY <1>1, <1>2

LEMMA RestType ==
  ASSUME NEW text \in Texts
  PROVE  \A i \in 1..Len(text) + 1, thinking \in BOOLEAN : Rest(text)[i][thinking] \in Texts
<1> DEFINE n == Len(text)
           Typed(i) == \A thinking \in BOOLEAN : Rest(text)[i][thinking] \in Texts
           T == {m \in 0..n : \A i \in n + 1 - m..n + 1 : Typed(i)}
<1>0. n \in Nat /\ \A k \in 1..n : text[k][2] \in BOOLEAN
  BY LenProperties, ElementOfSeq DEF Texts
<1>1. 0 \in T
  <2>1. <<>> \in Texts
    BY EmptySeq DEF Texts
  <2>2. Typed(n + 1)
    BY <2>1, RestCases
  <2>3. \A i \in n + 1 - 0..n + 1 : i = n + 1
    BY <1>0
  <2> HIDE DEF Typed
  <2> QED BY <1>0, <2>2, <2>3
<1>2. ASSUME NEW m \in 0..n - 1, m \in T PROVE m + 1 \in T
  <2> DEFINE l == n - m
  <2>1. /\ l \in 1..n /\ n + 1 - m = l + 1 /\ n + 1 - (m + 1) = l /\ m + 1 \in 0..n
        /\ \A i \in l..n + 1 : i = l \/ i \in l + 1..n + 1
    BY <1>0
  <2>2. \A i \in l + 1..n + 1 : Typed(i)
    BY <1>2, <2>1, Zenon
  <2> HIDE DEF l
  <2>3. FirstEnd(text, l) \in l..n
    BY <2>1, FirstEndIs
  <2> DEFINE j == FirstEnd(text, l)
  <2>4. j + 1 \in l + 1..n + 1 /\ l \in 1..n + 1 /\ j \in l - 1..n
    BY <1>0, <2>1, <2>3
  <2>5. Cut(text, l, j) \in Seq(Bytes)
    BY <2>4, CutIs
  <2>6. Cut(text, l, j) \in DOMAIN ThinkingTags => ThinkingTags[Cut(text, l, j)] \in BOOLEAN
    BY TagTable
  <2>7. ASSUME NEW thinking \in BOOLEAN PROVE Rest(text)[l][thinking] \in Texts
    <3>1. (thinking \/ Reasoned(text, l, j)) \in BOOLEAN
      OBVIOUS
    <3>2. On(Cut(text, l, j), thinking \/ Reasoned(text, l, j)) \in Texts
      BY <2>5, <3>1, OnType
    <3>3. \A b \in BOOLEAN : Rest(text)[j + 1][b] \in Texts
      BY <2>2, <2>4
    <3>4. On(Cut(text, l, j), thinking \/ Reasoned(text, l, j)) \o Rest(text)[j + 1][thinking] \in Texts
      BY <3>2, <3>3, TextConcat
    <3>5. Rest(text)[l][thinking] =
            IF Cut(text, l, j) \in DOMAIN ThinkingTags
            THEN Rest(text)[j + 1][ThinkingTags[Cut(text, l, j)]]
            ELSE On(Cut(text, l, j), thinking \/ Reasoned(text, l, j)) \o Rest(text)[j + 1][thinking]
      BY <2>1, RestCases
    <3> HIDE DEF j
    <3> QED BY <2>6, <3>3, <3>4, <3>5
  <2>8. \A i \in n + 1 - (m + 1)..n + 1 : Typed(i)
    BY <2>1, <2>2, <2>7
  <2> HIDE DEF Typed
  <2> QED BY <2>1, <2>8
<1>3. 0..n \subseteq T
  <2> HIDE DEF T, n
  <2> QED BY <1>0, <1>1, <1>2, Induction
<1>4. n \in 0..n /\ n + 1 - n = 1
  BY <1>0
<1>5. n \in T
  BY <1>3, <1>4
<1> QED BY <1>4, <1>5, Zenon

-----------------------------------------------------------------------------
(* The router against the reference.                                       *)

\* The router after m bytes holds back the piece that starts at i, no end of
\* which has come, and the reference still has that piece and the rest to say.
Cuts(text, m, fed, i) ==
  /\ i \in 1..m + 1
  /\ fed.router.pending = Cut(text, i, m)
  /\ fed.router.pendingReasoning = Reasoned(text, i, m)
  /\ \A j \in i..m : IsTagPrefix(Cut(text, i, j)) /\ Cut(text, i, j) \notin DOMAIN ThinkingTags
  /\ Routed(text) = fed.out \o Rest(text)[i][fed.router.inThinking]

\* Before the first byte nothing is sent and the whole text is to come.
LEMMA CutsStart ==
  ASSUME NEW text \in Texts
  PROVE  Fresh \in Feds /\ Cuts(text, 0, Fresh, 1)
<1>0. Len(text) \in Nat
  BY LenProperties DEF Texts
<1>1. Fresh \in Feds /\ Fresh.out = <<>> /\ Fresh.router = NewRouter
  BY EmptySeq DEF Fresh, Feds, Routers, NewRouter, Texts
<1>2. Cut(text, 1, 0) = <<>>
  <2>1. Cut(text, 1, 0) \in Seq(Bytes) /\ Len(Cut(text, 1, 0)) = 0
    BY <1>0, CutIs
  <2> QED BY <2>1, EmptySeq
<1>3. Routed(text) = <<>> \o Rest(text)[1][FALSE]
  <2>1. 1 \in 1..Len(text) + 1 /\ FALSE \in BOOLEAN
    BY <1>0
  <2>2. Rest(text)[1][FALSE] \in Texts
    BY <2>1, RestType, Zenon
  <2> QED BY <2>2, TextConcat DEF Routed
<1> QED BY <1>1, <1>2, <1>3 DEF Cuts, NewRouter, Reasoned

\* One byte: it goes on with the piece at hand, or ends it.
LEMMA CutsStep ==
  ASSUME NEW text \in Texts, NEW m \in 0..Len(text) - 1, NEW fed \in Feds,
         NEW i, Cuts(text, m, fed, i)
  PROVE  \E k : Cuts(text, m + 1, FeedByte(fed, text[m + 1][1], text[m + 1][2]), k)
<1> DEFINE n     == Len(text)
           c     == text[m + 1][1]
           held  == Held(fed.router, c, text[m + 1][2])
           piece == Cut(text, i, m + 1)
           why   == Reasoned(text, i, m + 1)
           thinking == fed.router.inThinking
           next  == FeedByte(fed, c, text[m + 1][2])
<1>0. /\ n \in Nat /\ m + 1 \in 1..n /\ c \in Bytes /\ text[m + 1][2] \in BOOLEAN
      /\ i \in 1..m + 1 /\ i \in 1..n /\ i \in 1..n + 1 /\ m \in i - 1..n /\ m < n
      /\ m + 1 \in i - 1..n /\ m + 2 \in 1..n + 1 /\ (m + 1) + 1 = m + 2
  BY LenProperties, ElementOfSeq DEF Texts, Cuts
<1>1. /\ fed.router \in Routers /\ fed.out \in Texts /\ thinking \in BOOLEAN
      /\ fed.router.pendingReasoning \in BOOLEAN
  BY DEF Feds, Routers
<1>2. held = Record(thinking, piece, why)
  <2>1. Append(fed.router.pending, c) = piece
    BY <1>0, CutIs DEF Cuts
  <2>2. (fed.router.pendingReasoning \/ text[m + 1][2]) = why
    <3>1. why <=> Reasoned(text, i, m) \/ text[m + 1][2]
      BY <1>0 DEF Reasoned
    <3>2. why \in BOOLEAN
      BY DEF Reasoned
    <3> QED BY <1>0, <1>1, <3>1, <3>2 DEF Cuts
  <2> QED BY <2>1, <2>2 DEF Held
<1>3. held.pending = piece /\ held.pendingReasoning = why /\ held.inThinking = thinking
  BY <1>2 DEF Record
<1>4. next =
        IF piece \in DOMAIN ThinkingTags
        THEN [router |-> Idle(ThinkingTags[piece]), out |-> fed.out]
        ELSE IF IsTagPrefix(piece) THEN [router |-> held, out |-> fed.out]
        ELSE [router |-> Idle(thinking), out |-> fed.out \o Finalize(held)]
  <2> HIDE DEF piece
  <2> QED BY <1>0, <1>3, FeedByteCases
<1>5. piece \in Seq(Bytes) /\ Cut(text, m + 2, m + 1) = <<>>
  <2>1. piece \in Seq(Bytes)
    BY <1>0, CutIs
  <2>2. m + 1 \in (m + 2) - 1..n /\ (m + 1) - (m + 2) + 1 = 0
    BY <1>0
  <2>3. Cut(text, m + 2, m + 1) \in Seq(Bytes) /\ Len(Cut(text, m + 2, m + 1)) = 0
    BY <1>0, <2>2, CutIs
  <2> QED BY <2>1, <2>3, EmptySeq
<1>6. /\ Routed(text) = fed.out \o Rest(text)[i][thinking]
      /\ \A j \in i..m : IsTagPrefix(Cut(text, i, j)) /\ Cut(text, i, j) \notin DOMAIN ThinkingTags
  BY DEF Cuts
\* Where the piece ends, nothing is held back.
<1>7. ASSUME NEW b \in BOOLEAN, NEW o, next = [router |-> Idle(b), out |-> o],
             Routed(text) = o \o Rest(text)[m + 2][b]
      PROVE  Cuts(text, m + 1, next, m + 2)
  <2>1. ~Reasoned(text, m + 2, m + 1) /\ Reasoned(text, m + 2, m + 1) \in BOOLEAN
    BY <1>0 DEF Reasoned
  <2>2. /\ next.router.pending = <<>> /\ next.router.pendingReasoning = FALSE
        /\ next.router.inThinking = b /\ next.out = o
    BY <1>7 DEF Idle, Record
  <2>3. \A j \in m + 2..m + 1 : FALSE
    BY <1>0
  <2>4. m + 2 \in 1..(m + 1) + 1
    BY <1>0
  <2> HIDE DEF next
  <2> QED BY <1>5, <1>7, <2>1, <2>2, <2>3, <2>4 DEF Cuts
<1>8. ASSUME piece \in DOMAIN ThinkingTags \/ ~IsTagPrefix(piece)
      PROVE  FirstEnd(text, i) = m + 1
  <2>1. m + 1 \in Ends(text, i)
    BY <1>0, <1>8 DEF Ends
  <2>2. \A j \in Ends(text, i) : j \notin i..m
    BY <1>0, <1>6 DEF Ends
  <2>3. FirstEnd(text, i) \in Ends(text, i) /\ FirstEnd(text, i) \in i..n /\ FirstEnd(text, i) <= m + 1
    BY <1>0, <2>1, FirstEndIs
  <2>4. FirstEnd(text, i) \notin i..m
    BY <2>2, <2>3
  <2> QED BY <1>0, <2>3, <2>4
<1>9. Rest(text)[i][thinking] =
        LET j == FirstEnd(text, i)
        IN  IF Cut(text, i, j) \in DOMAIN ThinkingTags
            THEN Rest(text)[j + 1][ThinkingTags[Cut(text, i, j)]]
            ELSE On(Cut(text, i, j), thinking \/ Reasoned(text, i, j)) \o Rest(text)[j + 1][thinking]
  BY <1>0, <1>1, RestCases
<1> SUFFICES \E k : Cuts(text, m + 1, next, k)
  OBVIOUS
<1>10. CASE piece \in DOMAIN ThinkingTags
  <2>1. ThinkingTags[piece] \in BOOLEAN /\ next = [router |-> Idle(ThinkingTags[piece]), out |-> fed.out]
    BY <1>4, <1>10, TagTable
  <2>2. Rest(text)[i][thinking] = Rest(text)[m + 2][ThinkingTags[piece]]
    BY <1>0, <1>8, <1>9, <1>10
  <2> HIDE DEF next, piece
  <2> QED BY <1>6, <1>7, <2>1, <2>2
<1>11. CASE piece \notin DOMAIN ThinkingTags /\ IsTagPrefix(piece)
  <2>1. next.router = held /\ next.out = fed.out
    BY <1>4, <1>11
  <2>2. \A j \in i..m + 1 : j \in i..m \/ j = m + 1
    BY <1>0
  <2>3. i \in 1..(m + 1) + 1
    BY <1>0
  <2> HIDE DEF next, held
  <2>4. Cuts(text, m + 1, next, i)
    BY <1>3, <1>6, <1>11, <2>1, <2>2, <2>3 DEF Cuts
  <2> QED BY <2>4
<1>12. CASE piece \notin DOMAIN ThinkingTags /\ ~IsTagPrefix(piece)
  <2>1. next = [router |-> Idle(thinking), out |-> fed.out \o Finalize(held)]
    BY <1>4, <1>12
  <2>2. Finalize(held) = On(piece, thinking \/ why)
    <3>1. (held.pendingReasoning \/ held.inThinking) = (thinking \/ why)
      BY <1>1, <1>3
    <3> QED BY <1>3, <3>1 DEF Finalize
  <2>3. Rest(text)[i][thinking] = Finalize(held) \o Rest(text)[m + 2][thinking]
    BY <1>0, <1>8, <1>9, <1>12, <2>2
  <2>4. Finalize(held) \in Texts /\ Rest(text)[m + 2][thinking] \in Texts
    <3>1. (thinking \/ why) \in BOOLEAN
      OBVIOUS
    <3>2. On(piece, thinking \/ why) \in Texts
      BY <1>5, <3>1, OnType
    <3> QED BY <1>0, <1>1, <2>2, <3>2, RestType
  <2>5. Routed(text) = (fed.out \o Finalize(held)) \o Rest(text)[m + 2][thinking]
    <3> DEFINE a == fed.out
               b == Finalize(held)
               r == Rest(text)[m + 2][thinking]
    <3>1. a \in Texts /\ b \in Texts /\ r \in Texts /\ Routed(text) = a \o (b \o r)
      BY <1>1, <1>6, <2>3, <2>4
    <3> HIDE DEF a, b, r
    <3>2. Routed(text) = (a \o b) \o r
      BY <3>1, TextAssociative
    <3> QED BY <3>2 DEF a, b, r
  <2> HIDE DEF next, held
  <2> QED BY <1>1, <1>7, <2>1, <2>5
<1> QED BY <1>10, <1>11, <1>12

\* After the last byte and Finalize, what was sent is what the reference says.
LEMMA CutsEnd ==
  ASSUME NEW text \in Texts, NEW fed \in Feds, NEW i, Cuts(text, Len(text), fed, i)
  PROVE  fed.out \o Finalize(fed.router) = Routed(text)
<1> DEFINE n == Len(text)
           thinking == fed.router.inThinking
<1>0. n \in Nat /\ i \in 1..n + 1 /\ n \in i - 1..n
  BY LenProperties DEF Texts, Cuts
<1>1. fed.router \in Routers /\ fed.out \in Texts /\ thinking \in BOOLEAN
  BY DEF Feds, Routers
<1>2. Finalize(fed.router) = On(Cut(text, i, n), thinking \/ Reasoned(text, i, n))
  <2>1. (Reasoned(text, i, n) \/ thinking) = (thinking \/ Reasoned(text, i, n))
    OBVIOUS
  <2> QED BY <2>1 DEF Finalize, Cuts
<1>3. CASE i = n + 1
  <2>1. Cut(text, i, n) \in Seq(Bytes) /\ Len(Cut(text, i, n)) = 0
    BY <1>0, <1>3, CutIs
  <2>2. Cut(text, i, n) = <<>>
    BY <2>1, EmptySeq
  <2>3. On(<<>>, thinking \/ Reasoned(text, i, n)) = <<>>
    <3>1. (thinking \/ Reasoned(text, i, n)) \in BOOLEAN /\ <<>> \in Seq(Bytes)
      BY EmptySeq
    <3> QED BY <3>1, OnType
  <2>4. Rest(text)[i][thinking] = <<>>
    BY <1>1, <1>3, RestCases
  <2> QED BY <1>2, <2>2, <2>3, <2>4 DEF Cuts
<1>4. CASE i # n + 1
  <2>0. i \in 1..n
    BY <1>0, <1>4
  <2>1. FirstEnd(text, i) = n
    <3>1. \A j \in Ends(text, i) : j \in i..n /\ (j = n \/ j \notin i..n)
      BY <1>0 DEF Ends, Cuts
    <3> QED BY <2>0, <3>1, FirstEndIs
  <2>2. n \in i..n
    BY <1>0, <2>0
  <2>3. Cut(text, i, n) \notin DOMAIN ThinkingTags
    BY <2>2 DEF Cuts
  <2>4. Rest(text)[i][thinking] = On(Cut(text, i, n), thinking \/ Reasoned(text, i, n)) \o Rest(text)[n + 1][thinking]
    BY <1>1, <2>0, <2>1, <2>3, RestCases
  <2>5. Rest(text)[n + 1][thinking] = <<>>
    BY <1>1, RestCases
  <2>6. On(Cut(text, i, n), thinking \/ Reasoned(text, i, n)) \in Texts
    <3>1. (thinking \/ Reasoned(text, i, n)) \in BOOLEAN /\ Cut(text, i, n) \in Seq(Bytes)
      BY <1>0, CutIs
    <3> QED BY <3>1, OnType
  <2> QED BY <1>2, <2>4, <2>5, <2>6, TextConcat DEF Cuts
<1> QED BY <1>3, <1>4

(* Fed a text in any deltas and flushed at its end, the router has sent on *)
(* what the reference makes of the text: every byte once and in order,     *)
(* tags removed, each in its channel, for any table of tags.               *)
THEOREM RouterFollowsReference ==
  ASSUME NEW text \in Texts
  PROVE  LET fed == FeedAll(Fresh, text)
         IN  fed.out \o Finalize(fed.router) = Routed(text)
<1> DEFINE n == Len(text)
<1>0. n \in Nat /\ n \in 0..n
  BY LenProperties DEF Texts
<1>1. PICK f \in [0..n -> Feds] : f[0] = Fresh /\ Feeds(f, text) /\ FeedAll(Fresh, text) = f[n]
  BY CutsStart, FeedAllIs
<1> DEFINE T == {m \in 0..n : \E i : Cuts(text, m, f[m], i)}
<1>2. 0 \in T
  BY <1>0, <1>1, CutsStart
<1>3. ASSUME NEW m \in 0..n - 1, m \in T PROVE m + 1 \in T
  <2>1. m \in 0..n /\ m + 1 \in 1..n /\ m + 1 \in 0..n /\ (m + 1) - 1 = m
    BY <1>0
  <2>2. PICK i : Cuts(text, m, f[m], i)
    BY <1>3
  <2>3. f[m] \in Feds /\ f[m + 1] = FeedByte(f[m], text[m + 1][1], text[m + 1][2])
    BY <1>1, <2>1 DEF Feeds
  <2>4. \E k : Cuts(text, m + 1, f[m + 1], k)
    BY <2>2, <2>3, CutsStep
  <2> QED BY <2>1, <2>4
<1>4. 0..n \subseteq T
  <2> HIDE DEF T, n
  <2> QED BY <1>0, <1>2, <1>3, Induction
<1>5. PICK i : Cuts(text, n, f[n], i)
  BY <1>0, <1>4
<1>6. f[n] \in Feds
  BY <1>0, <1>1
<1> QED BY <1>1, <1>5, <1>6, CutsEnd
=============================================================================
