------------------------------ MODULE ChatProof ------------------------------
(***************************************************************************)
(* Proofs about Chat, for every number of accounts and requests and every  *)
(* configuration: the inductive invariant ChatInv, that the handler uses   *)
(* the pool as Pool lets its callers, and so what PoolProof shows of the   *)
(* pool under the handler.                                                 *)
(***************************************************************************)
EXTENDS Chat, PoolProof, FiniteSetTheorems

USE DEF health, creds, scan, store, locals, trail, chat, At, Goto, Return, Stage

\* The generations and refreshes of one request are within its tries.
Counted(t) ==
  /\ \A a \in Accounts : forces[t][a] <= Tries(t, a) /\ posts[t][a] <= 3 * Tries(t, a)
  /\ Left(t)

\* What ChatInv says of one request.
Request(t) ==
  /\ attempts[t] = Cardinality(tried[t])
  /\ Working(t) => entry[t] \in tried[t]
  /\ waited[t] <= QueueWaitBudget + QueueWaitJitter /\ rounds[t] <= QueueMaxRounds
  /\ Inside(t) /\ Trail(t) /\ Counted(t)

\* All that Request speaks of.
Mine(t) == <<at[t], tried[t], attempts[t], rounds[t], waited[t], err[t], via[t],
             posts[t], forces[t], settled[t], pc[t], excluded[t], cands[t], entry[t], ret[t]>>

LEMMA ChatInvParts == ChatInv <=> ChatTypeOK /\ \A t \in Threads : Request(t)
  BY DEF ChatInv, Request, Counted, AttemptsMatch, WorksOnTried, QueueBudgetKept, NoStorm

(* A request is not disturbed by a step that leaves its part alone.        *)
LEMMA Undisturbed ==
  ASSUME NEW u \in Threads, Request(u), Mine(u)' = Mine(u)
  PROVE  Request(u)'
  BY DEF Request, Mine, Working, Inside, Trail, Calling, Counted, Left, Sent, Tries

(* Where the handler goes, and the trail it leaves.                        *)
LEMMA Moves ==
  ASSUME ChatTypeOK, NEW t \in Threads, NEW s \in Stages, To(t, s)
  PROVE  /\ at' \in [Threads -> Stages] /\ posts' \in [Threads -> [Accounts -> Nat]]
         /\ forces' \in [Threads -> [Accounts -> Nat]] /\ settled' \in [Threads -> BOOLEAN]
         /\ at'[t] = s
         /\ settled'[t] => s # "idle" /\ (settled[t] \/ (Posting(t) /\ (s = "relay" \/ err'[t] = "net")))
         /\ \A u \in Threads \ {t} : /\ at'[u] = at[u] /\ posts'[u] = posts[u]
                                     /\ forces'[u] = forces[u] /\ settled'[u] = settled[u]
<1>0. NoneSent \in [Accounts -> Nat]
  BY DEF NoneSent
<1>1. at' \in [Threads -> Stages] /\ at'[t] = s
  BY DEF To, ChatTypeOK
<1> DEFINE More(f) == [f EXCEPT ![entry[t]] = @ + 1]
<1>a. ASSUME NEW f \in [Accounts -> Nat] PROVE More(f) \in [Accounts -> Nat]
  <2>1. CASE entry[t] \in Accounts
    BY <2>1
  <2>2. CASE entry[t] \notin Accounts
    BY <2>2
  <2> QED BY <2>1, <2>2
<1>2. posts' \in [Threads -> [Accounts -> Nat]]
  <2>1. posts[t] \in [Accounts -> Nat] /\ More(posts[t]) \in [Accounts -> Nat]
    <3>1. posts[t] \in [Accounts -> Nat]
      BY DEF ChatTypeOK
    <3> QED BY <1>a, <3>1
  <2>2. posts' \in {[posts EXCEPT ![t] = NoneSent], [posts EXCEPT ![t] = More(posts[t])], posts}
    BY DEF To
  <2> HIDE DEF More
  <2> QED BY <1>0, <2>1, <2>2 DEF ChatTypeOK
<1>3. forces' \in [Threads -> [Accounts -> Nat]]
  <2>1. forces[t] \in [Accounts -> Nat] /\ More(forces[t]) \in [Accounts -> Nat]
    <3>1. forces[t] \in [Accounts -> Nat]
      BY DEF ChatTypeOK
    <3> QED BY <1>a, <3>1
  <2>2. forces' \in {[forces EXCEPT ![t] = NoneSent], [forces EXCEPT ![t] = More(forces[t])], forces}
    BY DEF To
  <2> HIDE DEF More
  <2> QED BY <1>0, <2>1, <2>2 DEF ChatTypeOK
<1>4. settled' \in [Threads -> BOOLEAN]
  BY DEF To, ChatTypeOK
<1>5. settled'[t] => s # "idle" /\ (settled[t] \/ (Posting(t) /\ (s = "relay" \/ err'[t] = "net")))
  BY DEF To, ChatTypeOK
<1>6. \A u \in Threads \ {t} : /\ at'[u] = at[u] /\ posts'[u] = posts[u]
                               /\ forces'[u] = forces[u] /\ settled'[u] = settled[u]
  BY DEF To, ChatTypeOK
<1> QED BY <1>1, <1>2, <1>3, <1>4, <1>5, <1>6

(* What a step adds to the counts: nothing, one generation with the account*)
(* at hand, one refresh of it; and nothing is left of them at the end.     *)
LEMMA Counts ==
  ASSUME ChatTypeOK, NEW t \in Threads, NEW s \in Stages, To(t, s)
  PROVE  /\ s = "idle" => \A a \in Accounts : posts'[t][a] = 0 /\ forces'[t][a] = 0
         /\ s # "idle" /\ ~Posting(t) => posts'[t] = posts[t]
         /\ s # "idle" /\ Posting(t) /\ entry[t] \in Accounts =>
              /\ posts'[t][entry[t]] = posts[t][entry[t]] + 1
              /\ \A a \in Accounts \ {entry[t]} : posts'[t][a] = posts[t][a]
         /\ s \notin {"idle", "forced"} => forces'[t] = forces[t]
         /\ s = "forced" /\ entry[t] \in Accounts =>
              /\ forces'[t][entry[t]] = forces[t][entry[t]] + 1
              /\ \A a \in Accounts \ {entry[t]} : forces'[t][a] = forces[t][a]
BY DEF To, ChatTypeOK, NoneSent

(* A step that neither sends nor forces anything keeps the counts within   *)
(* the tries, if it takes none of these back.                              *)
LEMMA QuietCounts ==
  ASSUME ChatTypeOK, NEW t \in Threads, NEW s \in Stages, To(t, s), Counted(t), ~Posting(t),
         s \notin {"idle", "forced"},
         tried'[t] = tried[t], rounds'[t] = rounds[t], entry'[t] = entry[t] \/ s = "select",
         \/ s \notin {"catalog", "pick", "set", "call", "recall", "mark401", "cosy", "cosycall"}
         \/ at[t] = "catalog" /\ s = "pick"
         \/ at[t] = "pick" /\ s \in {"set", "call"}
         \/ at[t] = "set" /\ s = "call"
         \/ at[t] = "forced" /\ s \in {"recall", "mark401"}
         \/ at[t] = "cosy" /\ s = "cosycall",
         entry[t] \in Accounts \/ s \notin {"recall", "mark401"}
  PROVE  Counted(t)'
<1>1. posts'[t] = posts[t] /\ forces'[t] = forces[t] /\ at'[t] = s
  BY Counts, Moves
<1>2. \A a \in Accounts : forces'[t][a] <= Tries(t, a)' /\ posts'[t][a] <= 3 * Tries(t, a)'
  BY <1>1 DEF Counted, Tries
<1>3. Left(t)'
  <2>1. posts[t][entry[t]] \in Nat \/ entry[t] \notin Accounts
    BY DEF ChatTypeOK
  <2>2. rounds[t] \in Nat
    BY DEF ChatTypeOK
  <2> QED BY <1>1, <2>1, <2>2 DEF Counted, Left, Sent
<1> QED BY <1>2, <1>3 DEF Counted

(* A generation is one of the three of a try.                              *)
LEMMA PostingCounts ==
  ASSUME ChatTypeOK, NEW t \in Threads, NEW s \in Stages, To(t, s), Counted(t), Posting(t),
         entry[t] \in tried[t], entry[t] \in Accounts, entry'[t] = entry[t],
         tried'[t] = tried[t], rounds'[t] = rounds[t],
         \/ s \in {"handle", "relay"}
         \/ s = "cosy" /\ at[t] # "cosycall"
         \/ s = "mark401" /\ at[t] = "recall"
         \/ s = "forced" /\ at[t] = "call"
  PROVE  Counted(t)'
<1> DEFINE e == entry[t]
<1>0. /\ rounds[t] \in Nat /\ \A a \in Accounts : posts[t][a] \in Nat /\ forces[t][a] \in Nat
  BY DEF ChatTypeOK
<1>1. /\ posts'[t][e] = posts[t][e] + 1 /\ at'[t] = s
      /\ \A a \in Accounts \ {e} : posts'[t][a] = posts[t][a] /\ forces'[t][a] = forces[t][a]
      /\ s # "forced" => forces'[t] = forces[t]
      /\ s = "forced" => forces'[t][e] = forces[t][e] + 1
  BY Counts, Moves
<1>2. /\ posts[t][e] <= 3 * rounds[t] + 2
      /\ at[t] = "call" => posts[t][e] <= 3 * rounds[t] /\ forces[t][e] <= rounds[t]
      /\ at[t] = "recall" => posts[t][e] <= 3 * rounds[t] + 1
  BY <1>0 DEF Counted, Left, Sent, Posting
<1>3. /\ Tries(t, e)' = rounds[t] + 1 /\ Tries(t, e) = rounds[t] + 1
      /\ \A a \in Accounts : Tries(t, a)' = Tries(t, a)
  BY DEF Tries
<1>4. forces'[t][e] <= Tries(t, e)' /\ posts'[t][e] <= 3 * Tries(t, e)'
  BY <1>0, <1>1, <1>2, <1>3 DEF Counted
<1>5. \A a \in Accounts \ {e} : forces'[t][a] <= Tries(t, a)' /\ posts'[t][a] <= 3 * Tries(t, a)'
  BY <1>1, <1>3 DEF Counted
<1>6. Left(t)'
  BY <1>0, <1>1, <1>2 DEF Left, Sent, Posting
<1> QED BY <1>4, <1>5, <1>6 DEF Counted

-----------------------------------------------------------------------------
(* One step of a request keeps the types and its own part of the invariant,*)
(* and leaves the other requests' parts alone.                             *)

Others(t) == \A u \in Threads \ {t} : Mine(u)' = Mine(u)
Keeps(t)  == ChatTypeOK' /\ Request(t)' /\ Others(t)

LEMMA ReplyKeeps ==
  ASSUME TypeOK, ChatTypeOK, NEW t \in Threads, NEW r \in Replies,
         Request(t), At(t, "idle"), Reply(t, r)
  PROVE  Keeps(t)
<1>1. "idle" \in Stages /\ To(t, "idle")
  BY DEF Stages, Reply
<1>2. ChatTypeOK'
  BY <1>1, Moves DEF Reply, ChatTypeOK
<1>3. Others(t)
  BY <1>1, Moves DEF Reply, ChatTypeOK, TypeOK, Others, Mine, vars
<1>4. Request(t)'
  <2>1. Cardinality({}) = 0
    BY FS_EmptySet
  <2>2. /\ at'[t] = "idle" /\ ~settled'[t] /\ pc'[t] = "idle"
        /\ tried'[t] = {} /\ attempts'[t] = 0 /\ waited'[t] = 0 /\ rounds'[t] = 0
        /\ \A a \in Accounts : posts'[t][a] = 0 /\ forces'[t][a] = 0
    BY <1>1, Moves, Counts DEF Reply, ChatTypeOK, TypeOK, vars
  <2>3. Counted(t)'
    BY <2>2 DEF Counted, Left, Tries
  <2> QED BY <2>1, <2>2, <2>3, RetryConfig DEF Request, Working, Inside, Trail
<1> QED BY <1>2, <1>3, <1>4 DEF Keeps

LEMMA ArriveKeeps ==
  ASSUME TypeOK, ChatTypeOK, NEW t \in Threads, Request(t), Arrive(t)
  PROVE  Keeps(t)
<1>1. Counted(t)'
  BY QuietCounts DEF Arrive, Stages, ChatTypeOK, Request, Posting, vars
<1> QED
  BY <1>1, Moves DEF Arrive, Stages, Keeps, Others, Mine, ChatTypeOK, TypeOK, Replies, Request, Working, Inside, Trail, vars, Posting

(* The steps that leave the pool alone.                                    *)
LEMMA QuietKeeps ==
  ASSUME TypeOK, ChatTypeOK, NEW t \in Threads, Request(t),
         \/ PickTransport(t) \/ SetTransport(t) \/ Forced(t) \/ FallBack(t) \/ WakeUp(t)
         \/ QuotaRefused(t) \/ Retry5xx(t)
  PROVE  Keeps(t)
<1>1. CASE PickTransport(t)
  <2>1. ChatTypeOK'
    <3>1. PICK s \in {"loop", "call", "set"} : To(t, s)
      BY <1>1 DEF PickTransport
    <3>2. s \in Stages
      BY DEF Stages
    <3>3. via' \in [Threads -> {"none", "bearer", "cosy"}]
      BY <1>1, TransportConfig DEF PickTransport, ChatTypeOK
    <3> QED BY <1>1, <3>1, <3>2, <3>3, Moves DEF PickTransport, ChatTypeOK
  <2>2. Others(t)
    BY <1>1, Moves DEF PickTransport, ChatTypeOK, Stages, Others, Mine, vars
  <2>3. Counted(t)'
    BY <1>1, QuietCounts DEF PickTransport, ChatTypeOK, Stages, Request, Working, Posting, vars, TypeOK
  <2>4. Request(t)'
    BY <1>1, <2>3, Moves DEF PickTransport, ChatTypeOK, Stages, Request, Working, Inside, Trail, Posting, vars, Calling
  <2> QED BY <2>1, <2>2, <2>4 DEF Keeps
<1>2. CASE Forced(t)
  <2>1. ChatTypeOK'
    BY <1>2, Moves DEF Forced, ChatTypeOK, Stages
  <2>2. Others(t)
    BY <1>2, Moves DEF Forced, ChatTypeOK, Stages, Others, Mine, vars
  <2>3. Counted(t)'
    BY <1>2, QuietCounts DEF Forced, ChatTypeOK, Stages, Request, Working, Posting, vars, TypeOK
  <2>4. Request(t)'
    BY <1>2, <2>3, Moves DEF Forced, ChatTypeOK, Stages, Request, Working, Inside, Trail, Posting, vars, Calling
  <2> QED BY <2>1, <2>2, <2>4 DEF Keeps
<1>3. CASE FallBack(t)
  <2>1. ChatTypeOK'
    BY <1>3, Moves DEF FallBack, ChatTypeOK, Stages
  <2>2. Others(t)
    BY <1>3, Moves DEF FallBack, ChatTypeOK, Stages, Others, Mine, vars
  <2>3. Counted(t)'
    BY <1>3, QuietCounts DEF FallBack, ChatTypeOK, Stages, Request, Working, Posting, vars, TypeOK
  <2>4. Request(t)'
    BY <1>3, <2>3, Moves DEF FallBack, ChatTypeOK, Stages, Request, Working, Inside, Trail, Posting, vars, Calling
  <2> QED BY <2>1, <2>2, <2>4 DEF Keeps
<1>4. CASE WakeUp(t)
  <2>1. ChatTypeOK'
    BY <1>4, Moves DEF WakeUp, ChatTypeOK, Stages
  <2>2. Others(t)
    BY <1>4, Moves DEF WakeUp, ChatTypeOK, Stages, Others, Mine, vars
  <2>3. Counted(t)'
    BY <1>4, QuietCounts DEF WakeUp, ChatTypeOK, Stages, Request, Working, Posting, vars, TypeOK
  <2>4. Request(t)'
    BY <1>4, <2>3, Moves DEF WakeUp, ChatTypeOK, Stages, Request, Working, Inside, Trail, Posting, vars, Calling
  <2> QED BY <2>1, <2>2, <2>4 DEF Keeps
<1>5. CASE QuotaRefused(t)
  <2>1. ChatTypeOK'
    BY <1>5, Moves DEF QuotaRefused, Handling, Handled, Forgotten, ChatTypeOK, Stages
  <2>2. Others(t)
    BY <1>5, Moves DEF QuotaRefused, Handling, Handled, Forgotten, ChatTypeOK, Stages, Others, Mine, vars
  <2>3. Counted(t)'
    BY <1>5, QuietCounts DEF QuotaRefused, Handling, Handled, Forgotten, ChatTypeOK, Stages, Request, Working, Posting, vars, TypeOK
  <2>4. Request(t)'
    BY <1>5, <2>3, Moves DEF QuotaRefused, Handling, Handled, Forgotten, ChatTypeOK, Stages, Request, Working, Inside, Trail, Posting, vars, Calling
  <2> QED BY <2>1, <2>2, <2>4 DEF Keeps
<1>6. CASE Retry5xx(t)
  <2>1. ChatTypeOK'
    BY <1>6, Moves DEF Retry5xx, Handling, Handled, Forgotten, ChatTypeOK, Stages
  <2>2. Others(t)
    BY <1>6, Moves DEF Retry5xx, Handling, Handled, Forgotten, ChatTypeOK, Stages, Others, Mine, vars
  <2>3. Counted(t)'
    BY <1>6, QuietCounts DEF Retry5xx, Handling, Handled, Forgotten, ChatTypeOK, Stages, Request, Working, Posting, vars, TypeOK
  <2>4. Request(t)'
    BY <1>6, <2>3, Moves DEF Retry5xx, Handling, Handled, Forgotten, ChatTypeOK, Stages, Request, Working, Inside, Trail, Posting, vars, Calling
  <2> QED BY <2>1, <2>2, <2>4 DEF Keeps
<1>7. CASE SetTransport(t)
  <2>1. ChatTypeOK'
    BY <1>7, Moves DEF SetTransport, ChatTypeOK, Stages
  <2>2. Others(t)
    BY <1>7, Moves DEF SetTransport, ChatTypeOK, Stages, Others, Mine, vars
  <2>3. Counted(t)'
    BY <1>7, QuietCounts DEF SetTransport, ChatTypeOK, Stages, Request, Working, Posting, vars, TypeOK
  <2>4. Request(t)'
    BY <1>7, <2>3, Moves DEF SetTransport, ChatTypeOK, Stages, Request, Working, Inside, Trail, Posting, vars, Calling
  <2> QED BY <2>1, <2>2, <2>4 DEF Keeps
<1> QED BY <1>1, <1>2, <1>3, <1>4, <1>5, <1>6, <1>7

(* The excluded accounts are finitely many, so they can be counted.        *)
LEMMA Counting ==
  ASSUME ChatTypeOK, NEW t \in Threads, NEW a \in Accounts
  PROVE  /\ Cardinality(tried[t]) \in Nat
         /\ a \notin tried[t] => Cardinality(tried[t] \cup {a}) = Cardinality(tried[t]) + 1
         /\ a \in tried[t] => /\ Cardinality(tried[t] \ {a}) = Cardinality(tried[t]) - 1
                              /\ Cardinality(tried[t] \ {a}) \in Nat
<1>1. IsFiniteSet(tried[t])
  <2>1. N \in Int /\ 1 \in Int
    BY PoolSize
  <2>2. IsFiniteSet(Accounts)
    BY <2>1, FS_Interval DEF Accounts
  <2>3. tried[t] \subseteq Accounts
    BY DEF ChatTypeOK
  <2> QED BY <2>2, <2>3, FS_Subset
<1>2. IsFiniteSet(tried[t] \ {a})
  BY <1>1, FS_Subset
<1> QED BY <1>1, <1>2, FS_AddElement, FS_RemoveElement, FS_CardinalityType

(* The steps that count an account, or give it back for the queue.         *)
LEMMA CountKeeps ==
  ASSUME TypeOK, ChatTypeOK, NEW t \in Threads, Request(t),
         Try(t) \/ \E q \in QueueWaits : QueueWait(t, q)
  PROVE  Keeps(t)
<1>1. CASE Try(t)
  <2>0. entry[t] \in Accounts \ tried[t]
    BY <1>1 DEF Try, Request, Inside
  <2>1. ChatTypeOK'
    BY <1>1, <2>0, Moves DEF Try, ChatTypeOK, Stages
  <2>2. Others(t)
    BY <1>1, Moves DEF Try, ChatTypeOK, Stages, Others, Mine, vars
  <2>3. attempts'[t] = Cardinality(tried'[t])
    <3>1. Cardinality(tried[t] \cup {entry[t]}) = Cardinality(tried[t]) + 1
      BY <2>0, Counting
    <3> QED BY <1>1, <3>1 DEF Try, Request, ChatTypeOK
  <2>4. Counted(t)'
    <3>1. /\ at'[t] \in {"catalog", "refused"} /\ posts'[t] = posts[t] /\ forces'[t] = forces[t]
          /\ tried'[t] = tried[t] \cup {entry[t]} /\ rounds'[t] = rounds[t] /\ entry'[t] = entry[t]
      BY <1>1, Moves, Counts DEF Try, Stages, Posting, vars, ChatTypeOK
    <3>2. /\ rounds[t] \in Nat
          /\ \A a \in Accounts : forces[t][a] <= Tries(t, a) /\ posts[t][a] <= 3 * Tries(t, a)
      BY DEF Request, Counted, ChatTypeOK
    <3>3. \A a \in Accounts : posts[t][a] \in Nat /\ forces[t][a] \in Nat
      BY DEF ChatTypeOK
    <3> QED BY <2>0, <3>1, <3>2, <3>3 DEF Counted, Left, Sent, Tries
  <2>5. Request(t)'
    BY <1>1, <2>3, <2>4, Moves DEF Try, ChatTypeOK, Stages, Request, Working, Inside, Trail, Posting, vars, Calling
  <2> QED BY <2>1, <2>2, <2>5 DEF Keeps
<1>2. ASSUME NEW q \in QueueWaits, QueueWait(t, q)
      PROVE  Keeps(t)
  <2>0. entry[t] \in tried[t] /\ entry[t] \in Accounts
    BY <1>2 DEF QueueWait, Queued, Request, Working, ChatTypeOK
  <2>1. ChatTypeOK'
    <3>1. attempts[t] - 1 \in Nat
      BY <2>0, Counting DEF Request
    <3> QED BY <1>2, <3>1, Moves, RetryConfig DEF QueueWait, Forgotten, ChatTypeOK, Stages
  <2>2. Others(t)
    BY <1>2, Moves DEF QueueWait, Forgotten, ChatTypeOK, Stages, Others, Mine, vars
  <2>3. waited'[t] <= QueueWaitBudget + QueueWaitJitter /\ rounds'[t] <= QueueMaxRounds
    BY <1>2, RetryConfig DEF QueueWait, QueueAdmits, ChatTypeOK
  <2>4. attempts'[t] = Cardinality(tried'[t])
    <3>1. Cardinality(tried[t] \ {entry[t]}) = Cardinality(tried[t]) - 1
      BY <2>0, Counting
    <3> QED BY <1>2, <3>1 DEF QueueWait, Request, ChatTypeOK
  <2>5. Counted(t)'
    <3>0. To(t, "sleep") /\ "sleep" \in Stages /\ ~Posting(t)
      BY <1>2 DEF QueueWait, Queued, Stages, Posting
    <3>1. /\ at'[t] = "sleep" /\ posts'[t] = posts[t] /\ forces'[t] = forces[t]
          /\ tried'[t] = tried[t] \ {entry[t]} /\ rounds'[t] = rounds[t] + 1
      <4>1. at'[t] = "sleep" /\ posts'[t] = posts[t] /\ forces'[t] = forces[t]
        BY <3>0, Moves, Counts
      <4>2. tried'[t] = tried[t] \ {entry[t]} /\ rounds'[t] = rounds[t] + 1
        BY <1>2 DEF QueueWait, ChatTypeOK
      <4> QED BY <4>1, <4>2
    <3>2. /\ rounds[t] \in Nat
          /\ \A a \in Accounts : forces[t][a] <= Tries(t, a) /\ posts[t][a] <= 3 * Tries(t, a)
      BY DEF Request, Counted, ChatTypeOK
    <3>3. \A a \in Accounts : posts[t][a] \in Nat /\ forces[t][a] \in Nat
      BY DEF ChatTypeOK
    <3> QED BY <3>1, <3>2, <3>3 DEF Counted, Left, Tries
  <2>6. Request(t)'
    <3>1. /\ To(t, "sleep") /\ "sleep" \in Stages /\ ~Posting(t)
          /\ at[t] = "handle" /\ err[t] # "net" /\ UNCHANGED vars
      BY <1>2, MarkedErrors DEF QueueWait, Queued, Stages, Posting
    <3>2. at'[t] = "sleep" /\ ~settled'[t]
      BY <3>1, Moves DEF Request, Trail
    <3> QED BY <2>3, <2>4, <2>5, <3>1, <3>2 DEF Request, Working, Inside, Trail, vars
  <2> QED BY <2>1, <2>2, <2>6 DEF Keeps
<1> QED BY <1>1, <1>2

(* The generations.                                                        *)
LEMMA GenerationKeeps ==
  ASSUME TypeOK, ChatTypeOK, NEW t \in Threads, Request(t), NEW k \in Answers,
         Generate(t, k) \/ Regenerate(t, k) \/ GenerateCosy(t, k)
  PROVE  Keeps(t)
<1>0. k \in Errors \cup {"stream"}
  BY UpstreamAnswers
<1>1. CASE Generate(t, k)
  <2>1. ChatTypeOK'
    BY <1>1, Moves, <1>0 DEF Generate, Outcome, Errors, ChatTypeOK, Stages
  <2>2. Others(t)
    BY <1>1, Moves, <1>0 DEF Generate, Outcome, Errors, ChatTypeOK, Stages, TypeOK, Others, Mine, vars
  <2>3. Counted(t)'
    BY <1>1, <1>0, PostingCounts DEF Generate, Outcome, Errors, ChatTypeOK, Stages, Request, Working, Posting, vars, TypeOK
  <2>4. Request(t)'
    BY <1>1, <2>3, Moves, <1>0 DEF Generate, Outcome, Errors, ChatTypeOK, Stages, TypeOK, Request, Working, Inside, Trail, Posting, vars, Calling
  <2> QED BY <2>1, <2>2, <2>4 DEF Keeps
<1>2. CASE Regenerate(t, k)
  <2>1. ChatTypeOK'
    BY <1>2, Moves, <1>0 DEF Regenerate, Outcome, Errors, ChatTypeOK, Stages
  <2>2. Others(t)
    BY <1>2, Moves, <1>0 DEF Regenerate, Outcome, Errors, ChatTypeOK, Stages, TypeOK, Others, Mine, vars
  <2>3. Counted(t)'
    BY <1>2, <1>0, PostingCounts DEF Regenerate, Outcome, Errors, ChatTypeOK, Stages, Request, Working, Posting, vars, TypeOK
  <2>4. Request(t)'
    BY <1>2, <2>3, Moves, <1>0 DEF Regenerate, Outcome, Errors, ChatTypeOK, Stages, TypeOK, Request, Working, Inside, Trail, Posting, vars, Calling
  <2> QED BY <2>1, <2>2, <2>4 DEF Keeps
<1>3. CASE GenerateCosy(t, k)
  <2>1. ChatTypeOK'
    BY <1>3, Moves, <1>0 DEF GenerateCosy, Outcome, Errors, ChatTypeOK, Stages
  <2>2. Others(t)
    BY <1>3, Moves, <1>0 DEF GenerateCosy, Outcome, Errors, ChatTypeOK, Stages, TypeOK, Others, Mine, vars
  <2>3. Counted(t)'
    BY <1>3, <1>0, PostingCounts DEF GenerateCosy, Outcome, Errors, ChatTypeOK, Stages, Request, Working, Trail, Posting, vars, TypeOK
  <2>4. Request(t)'
    BY <1>3, <2>3, Moves, <1>0 DEF GenerateCosy, Outcome, Errors, ChatTypeOK, Stages, TypeOK, Request, Working, Inside, Trail, Posting, vars, Calling
  <2> QED BY <2>1, <2>2, <2>4 DEF Keeps
<1> QED BY <1>1, <1>2, <1>3

(* The steps that may end the request.                                     *)
LEMMA EndKeeps ==
  ASSUME TypeOK, ChatTypeOK, NEW t \in Threads, Request(t),
         GiveUp(t) \/ FindModel(t) \/ QueueTimeout(t) \/ PassOn(t) \/ Relay(t)
  PROVE  Keeps(t)
<1>1. ASSUME NEW r \in Replies, Reply(t, r), at[t] \notin {"select", "fresh", "forced"} \/ At(t, "idle")
      PROVE  Keeps(t)
  BY <1>1, ReplyKeeps DEF Request, Inside
<1>2. CASE GiveUp(t)
  BY <1>1, <1>2 DEF GiveUp, Replies
<1>3. CASE FindModel(t)
  <2>1. CASE Reply(t, "400")
    BY <1>1, <1>3, <2>1 DEF FindModel, Replies
  <2>2. CASE To(t, "pick") /\ UNCHANGED <<locals, err, via, answer, vars>>
    <3>1. ChatTypeOK' /\ Others(t)
      BY <2>2, Moves DEF ChatTypeOK, Stages, Others, Mine, vars
    <3>2. Counted(t)'
      BY <1>3, <2>2, QuietCounts DEF FindModel, ChatTypeOK, Stages, Request, Posting, vars
    <3>3. Request(t)'
      BY <1>3, <2>2, <3>2, Moves DEF FindModel, ChatTypeOK, Stages, Request, Working, Inside, Trail, Posting, vars, Calling
    <3> QED BY <3>1, <3>3 DEF Keeps
  <2> QED BY <1>3, <2>1, <2>2 DEF FindModel
<1>4. CASE QueueTimeout(t) \/ Relay(t)
  BY <1>1, <1>4 DEF QueueTimeout, Relay, Replies
<1>5. CASE PassOn(t)
  BY <1>1, <1>5 DEF PassOn, Handling, Replies
<1> QED BY <1>2, <1>3, <1>4, <1>5

(* The steps that call the pool.                                           *)
LEMMA CallKeeps ==
  ASSUME TypeOK, ChatTypeOK, NEW t \in Threads, Request(t),
         \/ \E s \in Sessions \cup {NoSession} : Select(t, s)
         \/ Freshen(t) \/ Refused(t) \/ Unauthorized(t) \/ StillUnauthorized(t)
         \/ Reject401(t) \/ Reject403(t) \/ \E r \in RetryAfters : RateLimited(t, r)
  PROVE  Keeps(t)
<1>1. ASSUME NEW s \in Sessions \cup {NoSession}, Select(t, s)
      PROVE  Keeps(t)
  <2>1. ChatTypeOK'
    BY <1>1, Moves DEF Select, BeginSelect, Places, ChatTypeOK, Stages
  <2>2. Others(t)
    BY <1>1, Moves DEF Select, BeginSelect, Places, ChatTypeOK, Stages, TypeOK, Others, Mine, vars
  <2>3. Counted(t)'
    BY <1>1, QuietCounts DEF Select, BeginSelect, ChatTypeOK, Stages, Request, Working, Posting, vars, TypeOK
  <2>4. Request(t)'
    BY <1>1, <2>3, Moves DEF Select, BeginSelect, Places, ChatTypeOK, Stages, TypeOK, Request, Working, Inside, Trail, Posting, vars, Calling
  <2> QED BY <2>1, <2>2, <2>4 DEF Keeps
<1>2. CASE Freshen(t)
  <2>1. ChatTypeOK'
    BY <1>2, Moves DEF Freshen, BeginEnsureFresh, Places, ChatTypeOK, Stages
  <2>2. Others(t)
    BY <1>2, Moves DEF Freshen, BeginEnsureFresh, Places, ChatTypeOK, Stages, TypeOK, Others, Mine, vars
  <2>3. Counted(t)'
    BY <1>2, QuietCounts DEF Freshen, BeginEnsureFresh, ChatTypeOK, Stages, Request, Working, Posting, vars, TypeOK
  <2>4. Request(t)'
    BY <1>2, <2>3, Moves DEF Freshen, BeginEnsureFresh, Places, ChatTypeOK, Stages, TypeOK, Request, Working, Inside, Trail, Posting, vars, Calling
  <2> QED BY <2>1, <2>2, <2>4 DEF Keeps
<1>3. CASE Refused(t)
  <2>1. ChatTypeOK'
    BY <1>3, Moves DEF Refused, MarkAuthError, ChatTypeOK, Stages
  <2>2. Others(t)
    BY <1>3, Moves DEF Refused, MarkAuthError, ChatTypeOK, Stages, TypeOK, Others, Mine, vars
  <2>3. Counted(t)'
    BY <1>3, QuietCounts DEF Refused, MarkAuthError, ChatTypeOK, Stages, Request, Working, Posting, vars, TypeOK
  <2>4. Request(t)'
    BY <1>3, <2>3, Moves DEF Refused, MarkAuthError, ChatTypeOK, Stages, TypeOK, Request, Working, Inside, Trail, Posting, vars, Calling
  <2> QED BY <2>1, <2>2, <2>4 DEF Keeps
<1>4. CASE Unauthorized(t)
  <2>1. ChatTypeOK'
    BY <1>4, Moves DEF Unauthorized, BeginEnsureFresh, Errors, Places, ChatTypeOK, Stages
  <2>2. Others(t)
    BY <1>4, Moves DEF Unauthorized, BeginEnsureFresh, Errors, Places, ChatTypeOK, Stages, TypeOK, Others, Mine, vars
  <2>3. Counted(t)'
    BY <1>4, PostingCounts DEF Unauthorized, BeginEnsureFresh, Errors, ChatTypeOK, Stages, Request, Working, Posting, vars, TypeOK
  <2>4. Request(t)'
    BY <1>4, <2>3, Moves DEF Unauthorized, BeginEnsureFresh, Errors, Places, ChatTypeOK, Stages, TypeOK, Request, Working, Inside, Trail, Posting, vars, Calling
  <2> QED BY <2>1, <2>2, <2>4 DEF Keeps
<1>5. CASE StillUnauthorized(t)
  <2>1. ChatTypeOK'
    BY <1>5, Moves DEF StillUnauthorized, MarkAuthError, ChatTypeOK, Stages
  <2>2. Others(t)
    BY <1>5, Moves DEF StillUnauthorized, MarkAuthError, ChatTypeOK, Stages, TypeOK, Others, Mine, vars
  <2>3. Counted(t)'
    BY <1>5, QuietCounts DEF StillUnauthorized, MarkAuthError, ChatTypeOK, Stages, Request, Working, Posting, vars, TypeOK
  <2>4. Request(t)'
    BY <1>5, <2>3, Moves DEF StillUnauthorized, MarkAuthError, ChatTypeOK, Stages, TypeOK, Request, Working, Inside, Trail, Posting, vars, Calling
  <2> QED BY <2>1, <2>2, <2>4 DEF Keeps
<1>6. CASE Reject401(t)
  <2>1. ChatTypeOK'
    BY <1>6, Moves DEF Reject401, Handling, Handled, Forgotten, MarkAuthError, ChatTypeOK, Stages
  <2>2. Others(t)
    BY <1>6, Moves DEF Reject401, Handling, Handled, Forgotten, MarkAuthError, ChatTypeOK, Stages, TypeOK, Others, Mine, vars
  <2>3. Counted(t)'
    BY <1>6, QuietCounts DEF Reject401, Handling, Handled, Forgotten, MarkAuthError, ChatTypeOK, Stages, Request, Working, Posting, vars, TypeOK
  <2>4. Request(t)'
    BY <1>6, <2>3, Moves DEF Reject401, Handling, Handled, Forgotten, MarkAuthError, ChatTypeOK, Stages, TypeOK, Request, Working, Inside, Trail, Posting, vars, Calling
  <2> QED BY <2>1, <2>2, <2>4 DEF Keeps
<1>7. CASE Reject403(t)
  <2>1. ChatTypeOK'
    BY <1>7, Moves DEF Reject403, Handling, Handled, Forgotten, MarkDisabled, ChatTypeOK, Stages
  <2>2. Others(t)
    BY <1>7, Moves DEF Reject403, Handling, Handled, Forgotten, MarkDisabled, ChatTypeOK, Stages, TypeOK, Others, Mine, vars
  <2>3. Counted(t)'
    BY <1>7, QuietCounts DEF Reject403, Handling, Handled, Forgotten, MarkDisabled, ChatTypeOK, Stages, Request, Working, Posting, vars, TypeOK
  <2>4. Request(t)'
    BY <1>7, <2>3, Moves DEF Reject403, Handling, Handled, Forgotten, MarkDisabled, ChatTypeOK, Stages, TypeOK, Request, Working, Inside, Trail, Posting, vars, Calling
  <2> QED BY <2>1, <2>2, <2>4 DEF Keeps
<1>8. ASSUME NEW r \in RetryAfters, RateLimited(t, r)
      PROVE  Keeps(t)
  <2>1. ChatTypeOK'
    BY <1>8, Moves DEF RateLimited, Handling, Handled, Forgotten, MarkCooldown, ChatTypeOK, Stages
  <2>2. Others(t)
    BY <1>8, Moves DEF RateLimited, Handling, Handled, Forgotten, MarkCooldown, ChatTypeOK, Stages, TypeOK, Others, Mine, vars
  <2>3. Counted(t)'
    BY <1>8, QuietCounts DEF RateLimited, Handling, Handled, Forgotten, MarkCooldown, ChatTypeOK, Stages, Request, Working, Posting, vars, TypeOK
  <2>4. Request(t)'
    BY <1>8, <2>3, Moves DEF RateLimited, Handling, Handled, Forgotten, MarkCooldown, ChatTypeOK, Stages, TypeOK, Request, Working, Inside, Trail, Posting, vars, Calling
  <2> QED BY <2>1, <2>2, <2>4 DEF Keeps
<1> QED BY <1>1, <1>2, <1>3, <1>4, <1>5, <1>6, <1>7, <1>8

(* The steps inside a call to the pool: Select collects accounts that are  *)
(* not excluded and returns one of them, EnsureFresh keeps its entry.      *)
LEMMA InPoolKeeps ==
  ASSUME TypeOK, ChatTypeOK, NEW t \in Threads, Request(t), InPool(t)
  PROVE  Keeps(t)
<1>1. ChatTypeOK' /\ Mine(t)' = <<at[t], tried[t], attempts[t], rounds[t], waited[t], err[t], via[t],
        posts[t], forces[t], settled[t], pc'[t], excluded'[t], cands'[t], entry'[t], ret'[t]>>
  BY DEF InPool, ChatTypeOK, Mine
<1>2. Others(t)
  <2> USE DEF InPool, TypeOK, ChatTypeOK, Others, Mine
  <2>1. CASE ScanEntry(t) \/ RecoverEntry(t)
    BY <2>1 DEF ScanEntry, RecoverEntry
  <2>2. CASE Pick(t)
    <3>1. PICK a \in cands[t] : entry' = [entry EXCEPT ![t] = a]
      BY <2>2 DEF Pick
    <3> QED BY <2>2, <3>1 DEF Pick
  <2>3. CASE NoCandidate(t) \/ EndWalk(t) \/ StillFresh(t) \/ NoRefresher(t) \/ StartRefresh(t)
    BY <2>3 DEF NoCandidate, EndWalk, StillFresh, NoRefresher, StartRefresh
  <2>4. CASE RefreshOK(t) \/ RefreshFailed(t) \/ RefreshLost(t)
    BY <2>4 DEF RefreshOK, RefreshFailed, RefreshLost
  <2>5. CASE LockPersist(t) \/ GatherEntry(t) \/ \E w, ok \in BOOLEAN : Replace(t, w, ok)
    BY <2>5 DEF LockPersist, GatherEntry, Replace
  <2> QED BY <2>1, <2>2, <2>3, <2>4, <2>5 DEF Step
<1>3. Inside(t)'
  <2> USE DEF InPool, Request, Inside, Calling, TypeOK
  <2>1. CASE ScanEntry(t) \/ RecoverEntry(t)
    BY <2>1 DEF ScanEntry, RecoverEntry
  <2>2. CASE Pick(t) \/ NoCandidate(t) \/ EndWalk(t)
    BY <2>2 DEF Pick, NoCandidate, EndWalk
  <2>3. CASE StillFresh(t) \/ NoRefresher(t) \/ StartRefresh(t)
    BY <2>3 DEF StillFresh, NoRefresher, StartRefresh
  <2>4. CASE RefreshOK(t) \/ RefreshFailed(t) \/ RefreshLost(t)
    BY <2>4 DEF RefreshOK, RefreshFailed, RefreshLost
  <2>5. CASE LockPersist(t) \/ GatherEntry(t) \/ \E w, ok \in BOOLEAN : Replace(t, w, ok)
    BY <2>5 DEF LockPersist, GatherEntry, Replace
  <2> QED BY <2>1, <2>2, <2>3, <2>4, <2>5 DEF Step
<1>4. Working(t)' => entry'[t] = entry[t]
  <2>1. CASE ScanEntry(t) \/ RecoverEntry(t) \/ Pick(t) \/ NoCandidate(t) \/ EndWalk(t)
    <3>1. pc[t] \in {"select", "list", "recover"}
      BY <2>1 DEF ScanEntry, RecoverEntry, Pick, NoCandidate, EndWalk
    <3>2. Stage(t, "select")
      BY <3>1 DEF Request, Inside, Calling
    <3> QED BY <3>2 DEF InPool, Working
  <2>2. CASE \/ StillFresh(t) \/ NoRefresher(t) \/ StartRefresh(t)
             \/ RefreshOK(t) \/ RefreshFailed(t) \/ RefreshLost(t)
             \/ LockPersist(t) \/ GatherEntry(t) \/ \E w, ok \in BOOLEAN : Replace(t, w, ok)
    BY <2>2 DEF StillFresh, NoRefresher, StartRefresh, RefreshOK, RefreshFailed, RefreshLost,
                LockPersist, GatherEntry, Replace
  <2> QED BY <2>1, <2>2 DEF InPool, Step
<1>5. Counted(t)'
  <2>1. \A a \in Accounts : Tries(t, a)' = Tries(t, a)
    BY DEF InPool, Tries
  <2> QED BY <1>4, <2>1 DEF InPool, Request, Counted, Left, Sent, Working
<1>6. Request(t)'
  BY <1>3, <1>4, <1>5 DEF InPool, Request, Working, Trail
<1> QED BY <1>1, <1>2, <1>6 DEF Keeps

LEMMA HandlerKeeps ==
  ASSUME TypeOK, ChatTypeOK, NEW t \in Threads, Request(t), Arrive(t) \/ Handler(t) \/ InPool(t)
  PROVE  Keeps(t)
<1>1. CASE Handler(t)
  BY <1>1, QuietKeeps, CountKeeps, GenerationKeeps, EndKeeps, CallKeeps DEF Handler
<1> QED BY <1>1, ArriveKeeps, InPoolKeeps

(* The clock changes nothing the requests know, and a restart ends them.   *)
LEMMA ClockKeeps ==
  ASSUME ChatTypeOK, \A t \in Threads : Request(t), TimePasses \/ ServerRestart
  PROVE  ChatTypeOK' /\ \A t \in Threads : Request(t)'
<1>1. CASE TimePasses
  <2>1. ChatTypeOK' /\ \A t \in Threads : Mine(t)' = Mine(t)
    BY <1>1 DEF TimePasses, Tick, ChatTypeOK, Mine
  <2> QED BY <2>1, Undisturbed
<1>2. CASE ServerRestart
  <2>1. ChatTypeOK'
    BY <1>2 DEF ServerRestart, ChatTypeOK, Each, NoneSent, Stages, Replies
  <2>2. Cardinality({}) = 0
    BY FS_EmptySet
  <2>3. ASSUME NEW t \in Threads
        PROVE  Request(t)'
    <3>1. Counted(t)'
      BY <1>2 DEF ServerRestart, Each, NoneSent, Counted, Left, Tries
    <3> QED BY <1>2, <2>2, <3>1, RetryConfig DEF ServerRestart, Restart, Each, Request, Working, Inside, Trail
  <2> QED BY <2>1, <2>3
<1> QED BY <1>1, <1>2

-----------------------------------------------------------------------------
(* ChatInv and PoolInv hold together: the handler passes the pool accounts *)
(* it knows, and the pool returns one that is not excluded.                *)

LEMMA ChatStart == ChatInit => PoolInv /\ ChatInv
<1> SUFFICES ASSUME ChatInit PROVE PoolInv /\ ChatInv
  OBVIOUS
<1>1. PoolInv
  BY PoolStart DEF ChatInit
<1>2. ChatTypeOK
  BY DEF ChatInit, LocalsInit, ChatTypeOK, Each, NoneSent, Stages, Replies
<1>3. Cardinality({}) = 0
  BY FS_EmptySet
<1>4. ASSUME NEW t \in Threads
      PROVE  Request(t)
  <2>1. Counted(t)
    BY DEF ChatInit, LocalsInit, Each, NoneSent, Counted, Left, Tries
  <2> QED BY <1>3, <2>1, RetryConfig DEF ChatInit, LocalsInit, Init, Each, Request, Working, Inside, Trail
<1> QED BY <1>1, <1>2, <1>4, ChatInvParts

(* Every step of the handler is a step of the pool's callers, or none.     *)
LEMMA StepsArePool ==
  ASSUME PoolInv, ChatInv, [ChatNext]_chatVars
  PROVE  [Next]_vars
<1>1. ChatTypeOK /\ \A t \in Threads : Request(t)
  BY ChatInvParts
<1>2. ASSUME NEW t \in Threads, Handler(t)
      PROVE  Call(t) \/ UNCHANGED vars
  <2>1. tried[t] \in SUBSET Accounts
    BY <1>1 DEF ChatTypeOK
  <2>2. Working(t) => entry[t] \in Accounts
    BY <1>1, <2>1 DEF Request
  <2>3. CASE \E s \in Sessions \cup {NoSession} : Select(t, s)
    BY <2>1, <2>3, PoolCalls DEF Select, Call
  <2>4. CASE Freshen(t)
    BY <1>1, <2>4, PoolCalls DEF Freshen, Call, Request, Inside
  <2>5. CASE Unauthorized(t)
    BY <2>2, <2>5, PoolCalls DEF Unauthorized, Call, Working
  <2>6. CASE Refused(t) \/ StillUnauthorized(t) \/ Reject401(t)
    BY <2>2, <2>6, PoolCalls DEF Refused, StillUnauthorized, Reject401, Handling, Call, Working
  <2>7. CASE Reject403(t)
    BY <2>2, <2>7, PoolCalls DEF Reject403, Handling, Call, Working
  <2>8. CASE \E r \in RetryAfters : RateLimited(t, r)
    BY <2>2, <2>8, PoolCalls, CooldownPeriods DEF RateLimited, Handling, Call, Working
  <2>9. CASE \/ GiveUp(t) \/ FindModel(t) \/ QueueTimeout(t) \/ PassOn(t) \/ Relay(t)
             \/ Retry5xx(t) \/ WakeUp(t) \/ QuotaRefused(t)
    BY <2>9 DEF GiveUp, FindModel, QueueTimeout, PassOn, Relay, Retry5xx, WakeUp, QuotaRefused, Reply
  <2>10. CASE \/ Try(t) \/ PickTransport(t) \/ SetTransport(t) \/ Forced(t) \/ FallBack(t)
              \/ \E q \in QueueWaits : QueueWait(t, q)
              \/ \E k \in Answers : Generate(t, k) \/ Regenerate(t, k) \/ GenerateCosy(t, k)
    BY <2>10 DEF Try, PickTransport, SetTransport, Forced, FallBack, QueueWait, Generate, Regenerate, GenerateCosy
  <2> QED BY <1>2, <2>3, <2>4, <2>5, <2>6, <2>7, <2>8, <2>9, <2>10 DEF Handler
<1>3. ASSUME NEW t \in Threads, Arrive(t) PROVE UNCHANGED vars
  BY <1>3 DEF Arrive
<1>4. ASSUME NEW t \in Threads, InPool(t) PROVE Step(t)
  BY <1>4 DEF InPool
<1>5. CASE TimePasses \/ ServerRestart
  BY <1>5 DEF TimePasses, ServerRestart, Next
<1>6. CASE UNCHANGED chatVars
  BY <1>6 DEF chatVars
<1> QED BY <1>2, <1>3, <1>4, <1>5, <1>6 DEF ChatNext, Next

LEMMA ChatStep == PoolInv /\ ChatInv /\ [ChatNext]_chatVars => (PoolInv /\ ChatInv)'
<1> SUFFICES ASSUME PoolInv, ChatInv, [ChatNext]_chatVars PROVE (PoolInv /\ ChatInv)'
  OBVIOUS
<1>1. PoolInv'
  BY StepsArePool, PoolStep
<1>2. TypeOK /\ ChatTypeOK /\ \A t \in Threads : Request(t)
  BY ChatInvParts DEF PoolInv
<1>3. ChatTypeOK' /\ \A t \in Threads : Request(t)'
  <2>1. ASSUME NEW t \in Threads, Arrive(t) \/ Handler(t) \/ InPool(t)
        PROVE  ChatTypeOK' /\ \A u \in Threads : Request(u)'
    <3>1. Keeps(t)
      BY <1>2, <2>1, HandlerKeeps
    <3>2. ASSUME NEW u \in Threads, u # t
          PROVE  Request(u)'
      <4>1. Mine(u)' = Mine(u)
        BY <3>1, <3>2 DEF Keeps, Others
      <4> QED BY <1>2, <4>1, Undisturbed
    <3> QED BY <3>1, <3>2 DEF Keeps
  <2>2. CASE TimePasses \/ ServerRestart
    BY <1>2, <2>2, ClockKeeps
  <2>3. CASE UNCHANGED chatVars
    <3>1. ChatTypeOK' /\ \A t \in Threads : Mine(t)' = Mine(t)
      BY <1>2, <2>3 DEF chatVars, vars, ChatTypeOK, Mine
    <3> QED BY <1>2, <3>1, Undisturbed
  <2> QED BY <2>1, <2>2, <2>3 DEF ChatNext
<1>4. ChatInv'
  BY <1>3, ChatInvParts DEF ChatInv, Request, Counted, AttemptsMatch, WorksOnTried, QueueBudgetKept, NoStorm
<1> QED BY <1>1, <1>4

(* What a request has counted, waited and sent is always within its        *)
(* bounds, and what it knows of the account and of its last pool call is   *)
(* true, whatever the other requests do.                                   *)
THEOREM ChatInvariance == ChatSpec => []ChatInv
<1>1. ChatSpec => [](PoolInv /\ ChatInv)
  BY ChatStart, ChatStep, PTL DEF ChatSpec
<1> QED BY <1>1, PTL

(* The handler calls the pool only in ways Pool allows its callers.        *)
THEOREM HandlerUsesPool == ChatSpec => UsesPool
<1>1. ChatSpec => [](PoolInv /\ ChatInv)
  BY ChatStart, ChatStep, PTL DEF ChatSpec
<1>2. ChatInit => Init
  BY DEF ChatInit
<1>3. PoolInv /\ ChatInv /\ [ChatNext]_chatVars => [Next]_vars
  BY StepsArePool
<1> QED BY <1>1, <1>2, <1>3, PTL DEF ChatSpec, UsesPool, Spec

(* So what holds of the pool for all callers holds under the handler: a    *)
(* refresh token is spent once, and the credentials file never goes back.  *)
THEOREM CredentialsKept ==
  ChatSpec => []SpentTokenNotResent /\ []SingleFlight /\ DiskNeverRegresses /\ SavedBeforeReturn
<1>1. ChatSpec => Spec
  BY HandlerUsesPool DEF UsesPool
<1> QED BY <1>1, TokensSpentOnce, OneRefreshPerExpiry, FileMonotone, RefreshSaved

(* Over its whole life a request forces no more refreshes of an account than*)
(* it comes to it, and sends three times as many generations with it at    *)
(* most; and it comes to an account once, and once more for each round in  *)
(* the model's queue.                                                      *)
THEOREM GenerationsBounded == ChatSpec => []NoStorm
<1>1. ChatInv => NoStorm
  BY DEF ChatInv
<1> QED BY <1>1, ChatInvariance, PTL

(* The handler sends no generation again once the client has a stream or   *)
(* the outcome of one is uncertain (a network error).                      *)
THEOREM NeverReplayed == ChatSpec => []NothingReplayed
<1>1. ChatInv => NothingReplayed
  BY DEF ChatInv, Trail, NothingReplayed, Posting
<1> QED BY <1>1, ChatInvariance, PTL

(* The loop of chat counts its accounts right through every failover, 5xx  *)
(* retry and round in the model's queue.                                   *)
THEOREM AttemptsCounted == ChatSpec => []AttemptsMatch
<1>1. ChatInv => AttemptsMatch
  BY DEF ChatInv
<1> QED BY <1>1, ChatInvariance, PTL

(* The account a request works with is among the ones it has excluded.     *)
THEOREM TriedIsExcluded == ChatSpec => []WorksOnTried
<1>1. ChatInv => WorksOnTried
  BY DEF ChatInv
<1> QED BY <1>1, ChatInvariance, PTL

(* A request gets no more rounds and waiting time in the model's queue     *)
(* than configured, whatever waits the upstream asks for.                  *)
THEOREM QueueIsBounded == ChatSpec => []QueueBudgetKept
<1>1. ChatInv => QueueBudgetKept
  BY DEF ChatInv
<1> QED BY <1>1, ChatInvariance, PTL

(* An error that is not the account's leaves every healthy account healthy,*)
(* and a request that met a quota refusal is not told "no account".        *)
THEOREM QuotaIsNotTheAccount == ChatSpec => QuotaKeepsAccount
<1> DEFINE Spared(t) == /\ at[t] = "handle" /\ err[t] \in {"quota", "404", "5xx", "other", "net"}
                        /\ at'[t] # at[t]
           Kept      == \A a \in Accounts : state[a] = "healthy" => state'[a] = "healthy"
           Told(t)   == quota[t] /\ answer'[t] = "503" => answer[t] = "503"
<1>1. ASSUME ChatInv, ChatNext, NEW t \in Threads
      PROVE  (Spared(t) => Kept) /\ Told(t)
  <2>0. ChatTypeOK
    BY <1>1 DEF ChatInv
  <2>1. ASSUME NEW u \in Threads, u # t, Arrive(u) \/ Handler(u) \/ InPool(u)
        PROVE  at'[t] = at[t] /\ answer'[t] = answer[t]
    <3>1. \A s : To(u, s) => at'[t] = at[t]
      BY <2>0, <2>1 DEF To, ChatTypeOK
    <3>2. \A r : Reply(u, r) => at'[t] = at[t] /\ answer'[t] = answer[t]
      BY <2>0, <2>1, <3>1 DEF Reply, ChatTypeOK
    <3>3. CASE InPool(u)
      BY <3>3 DEF InPool
    <3>4. CASE Arrive(u)
      BY <2>0, <2>1, <3>1, <3>4 DEF Arrive, ChatTypeOK
    <3>5. CASE \/ GiveUp(u) \/ FindModel(u) \/ QueueTimeout(u) \/ PassOn(u) \/ Relay(u)
      BY <3>1, <3>2, <3>5 DEF GiveUp, FindModel, QueueTimeout, PassOn, Relay
    <3>6. CASE \/ \E s \in Sessions \cup {NoSession} : Select(u, s)
               \/ Freshen(u) \/ Try(u) \/ Refused(u) \/ PickTransport(u) \/ SetTransport(u) \/ Unauthorized(u)
               \/ Forced(u) \/ StillUnauthorized(u) \/ FallBack(u)
      BY <3>1, <3>6 DEF Select, Freshen, Try, Refused, PickTransport, SetTransport, Unauthorized, Forced,
                        StillUnauthorized, FallBack
    <3>7. CASE \/ \E k \in Answers : Generate(u, k) \/ Regenerate(u, k) \/ GenerateCosy(u, k)
      BY <3>1, <3>7 DEF Generate, Regenerate, GenerateCosy, Outcome
    <3>8. CASE \/ \E q \in QueueWaits : QueueWait(u, q)
               \/ WakeUp(u) \/ Reject401(u) \/ QuotaRefused(u) \/ Reject403(u)
               \/ \E r \in RetryAfters : RateLimited(u, r)
               \/ Retry5xx(u)
      BY <3>1, <3>8 DEF QueueWait, WakeUp, Reject401, QuotaRefused, Reject403, RateLimited,
                        Retry5xx, Handled
    <3> QED BY <2>1, <3>3, <3>4, <3>5, <3>6, <3>7, <3>8 DEF Handler
  <2>2. CASE Arrive(t) \/ InPool(t)
    <3>1. CASE Arrive(t)
      <4>1. answer'[t] = "none" /\ at[t] # "handle"
        BY <2>0, <3>1 DEF Arrive, ChatTypeOK
      <4> QED BY <4>1
    <3>2. CASE InPool(t)
      BY <3>2 DEF InPool
    <3> QED BY <2>2, <3>1, <3>2
  <2>3. CASE Handler(t)
    <3>1. ASSUME NEW r, Reply(t, r) PROVE answer'[t] = r /\ state' = state
      <4>1. answer' = [answer EXCEPT ![t] = r] /\ state' = state
        BY <3>1 DEF Reply, vars
      <4> QED BY <2>0, <4>1 DEF ChatTypeOK
    <3>2. CASE GiveUp(t)
      <4>1. at[t] # "handle"
        BY <3>2 DEF GiveUp
      <4> QED BY <3>1, <3>2, <4>1 DEF GiveUp
    <3>3. CASE FindModel(t)
      BY <3>1, <3>3 DEF FindModel
    <3>4. CASE QueueTimeout(t) \/ Relay(t)
      BY <3>1, <3>4 DEF QueueTimeout, Relay
    <3>5. CASE PassOn(t)
      BY <3>1, <3>5 DEF PassOn
    <3>6. CASE \/ \E s \in Sessions \cup {NoSession} : Select(t, s)
               \/ Freshen(t) \/ Try(t) \/ Refused(t) \/ PickTransport(t) \/ SetTransport(t) \/ Unauthorized(t)
               \/ Forced(t) \/ StillUnauthorized(t) \/ FallBack(t)
      BY <3>6 DEF Select, Freshen, Try, Refused, PickTransport, SetTransport, Unauthorized, Forced,
                  StillUnauthorized, FallBack
    <3>7. CASE \/ \E k \in Answers : Generate(t, k) \/ Regenerate(t, k) \/ GenerateCosy(t, k)
      BY <3>7 DEF Generate, Regenerate, GenerateCosy
    <3>8. CASE \/ \E q \in QueueWaits : QueueWait(t, q)
               \/ WakeUp(t) \/ Reject401(t) \/ QuotaRefused(t) \/ Reject403(t)
               \/ \E r \in RetryAfters : RateLimited(t, r)
               \/ Retry5xx(t)
      BY <3>8 DEF QueueWait, WakeUp, Reject401, QuotaRefused, Reject403, RateLimited,
                  Retry5xx, Handling, vars
    <3> QED BY <2>3, <3>2, <3>3, <3>4, <3>5, <3>6, <3>7, <3>8 DEF Handler
  <2>4. CASE TimePasses \/ ServerRestart
    BY <2>4 DEF TimePasses, Tick, ServerRestart, Restart, Each
  <2> QED BY <1>1, <2>1, <2>2, <2>3, <2>4 DEF ChatNext
<1>2. ChatInv /\ [ChatNext]_chatVars =>
        [\A t \in Threads :
           /\ at[t] = "handle" /\ err[t] \in {"quota", "404", "5xx", "other", "net"} /\ at'[t] # at[t]
                => \A a \in Accounts : state[a] = "healthy" => state'[a] = "healthy"
           /\ quota[t] /\ answer'[t] = "503" => answer[t] = "503"]_chatVars
  BY <1>1
<1> QED BY <1>2, ChatInvariance, PTL DEF ChatSpec, QuotaKeepsAccount
=============================================================================
