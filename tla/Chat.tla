-------------------------------- MODULE Chat --------------------------------
(***************************************************************************)
(* POST /v1/chat/completions: Server.chat of internal/server/server.go, one*)
(* goroutine per request, on the account pool of Pool.  A request is       *)
(* inside the handler at at[t], and inside a call to the pool while pc[t]  *)
(* is not "idle".                                                          *)
(*                                                                         *)
(* What the upstream answers to a generation is one of Answers; the model  *)
(* catalog and the choice of a transport answer here with any outcome they *)
(* can have.                                                               *)
(***************************************************************************)
EXTENDS Pool

CONSTANTS
  Answers,         \* external: how the upstream may answer a generation
  Transport,       \* Config.Transport
  Max5xxRetries,   \* Config.Max5xxRetries
  CooldownConfig,  \* Config.CooldownDefault
  RetryAfters,     \* external: Retry-After of a 429, 0 if there is none
  QueueMaxRounds,  \* Config.QueueMaxRounds
  QueueWaitMax,    \* Config.QueueWaitMax
  QueueWaitBudget, \* Config.QueueWaitBudget
  QueueWaitJitter, \* Config.QueueWaitJitter
  QueueWaits,      \* external: QueueWaitSeconds of a queue signal
  StrayMarkers     \* external: other errors whose text may have the queue's marker

\* "stream" is a 200 that relay copies to the client.  The others are errors:
\* an HTTP status, with 403 told apart by the markers in its message ("queue"
\* for the model capacity queue, "quota" for the model quota), "other" for any
\* status the handler has no case for, and "net" for no HTTP status at all.
Errors == {"401", "404", "queue", "quota", "403", "429", "5xx", "other", "net"}

Longer(a, b) == IF a > b THEN a ELSE b     \* maxDuration

ASSUME UpstreamAnswers == Answers \subseteq Errors \cup {"stream"}
ASSUME TransportConfig == Transport \in {"auto", "bearer", "cosy"}
ASSUME RetryConfig ==
  /\ Max5xxRetries \in Nat /\ QueueMaxRounds \in Nat
  /\ QueueWaitMax \in Nat /\ QueueWaitBudget \in Nat
  /\ QueueWaitJitter \in Nat \ {0}
  /\ QueueWaits \subseteq Nat \ {0}
\* The text of a network error is Go's own, not the upstream's.
ASSUME MarkedErrors == StrayMarkers \subseteq Errors \ {"net"}
ASSUME CooldownPeriods == \A r \in RetryAfters : Longer(r, CooldownConfig) \in Cooldowns
ASSUME PoolCalls ==
  {"Select", "EnsureFresh", "MarkAuthError", "MarkDisabled", "MarkCooldown"} \subseteq Ops

VARIABLES
  at,        \* where the request is in the handler
  tried,     \* excluded
  attempts,  \* accountAttempts
  rounds,    \* queueRounds
  waited,    \* queueWaited
  retries,   \* retries5xx
  quota,     \* lastQuotaErr # nil
  err,       \* callErr
  via,       \* transport
  answer,    \* what the client got
  posts,     \* history: generations the request has sent with each account
  forces,    \* history: refreshes it has forced of each account
  settled    \* history: a generation was relayed, or ended uncertain

locals == <<tried, attempts, rounds, waited, retries, quota>>
trail  == <<posts, forces, settled>>
chat   == <<at, locals, err, via, answer, trail>>

Stages == {"idle", "loop", "select", "fresh", "refused", "catalog", "pick", "set", "call",
           "forced", "recall", "mark401", "cosy", "cosycall", "handle", "sleep", "relay"}
Replies == {"none", "relayed", "400", "403", "502", "503", "504", "upstream"}

Each(v)  == [t \in Threads |-> v]
NoneSent == [a \in Accounts |-> 0]

LocalsInit ==
  /\ at = Each("idle")
  /\ tried = Each({})
  /\ attempts = Each(0)
  /\ rounds = Each(0)
  /\ waited = Each(0)
  /\ retries = Each(0)
  /\ quota = Each(FALSE)
  /\ err = Each("none")
  /\ via = Each("none")
  /\ answer = Each("none")
  /\ posts = Each(NoneSent) /\ forces = Each(NoneSent) /\ settled = Each(FALSE)

ChatInit == Init /\ LocalsInit

Stage(t, s) == at[t] = s
Posting(t)  == at[t] \in {"call", "recall", "cosycall"}

\* The handler moves on, with the trail a generation leaves at the upstream.
To(t, s) ==
  /\ at' = [at EXCEPT ![t] = s]
  /\ posts' = IF s = "idle" THEN [posts EXCEPT ![t] = NoneSent]
              ELSE IF Posting(t) THEN [posts EXCEPT ![t][entry[t]] = @ + 1] ELSE posts
  /\ forces' = IF s = "idle" THEN [forces EXCEPT ![t] = NoneSent]
               ELSE IF s = "forced" THEN [forces EXCEPT ![t][entry[t]] = @ + 1] ELSE forces
  /\ settled' = [settled EXCEPT ![t] =
       s # "idle" /\ (@ \/ (Posting(t) /\ (s = "relay" \/ err'[t] = "net")))]

\* The handler returns, and its local variables are gone.
Reply(t, r) ==
  /\ To(t, "idle")
  /\ answer' = [answer EXCEPT ![t] = r]
  /\ tried' = [tried EXCEPT ![t] = {}]
  /\ attempts' = [attempts EXCEPT ![t] = 0]
  /\ rounds' = [rounds EXCEPT ![t] = 0]
  /\ waited' = [waited EXCEPT ![t] = 0]
  /\ retries' = [retries EXCEPT ![t] = 0]
  /\ quota' = [quota EXCEPT ![t] = FALSE]
  /\ err' = [err EXCEPT ![t] = "none"]
  /\ via' = [via EXCEPT ![t] = "none"]
  /\ UNCHANGED vars

-----------------------------------------------------------------------------
(* One request, from a body that can be read and parsed.                   *)

Arrive(t) ==
  /\ Stage(t, "idle") /\ To(t, "loop")
  /\ answer' = [answer EXCEPT ![t] = "none"]
  /\ UNCHANGED <<locals, err, via, vars>>

\* The loop condition: accounts are left to try.
Select(t, s) ==
  /\ Stage(t, "loop") /\ attempts[t] < N
  /\ BeginSelect(t, s, tried[t])
  /\ To(t, "select")
  /\ UNCHANGED <<locals, err, via, answer>>

\* No account is left, or Select knows of none: the client gets the last quota
\* refusal, if there was one.
GiveUp(t) ==
  /\ \/ Stage(t, "loop") /\ attempts[t] >= N
     \/ Stage(t, "select") /\ At(t, "idle") /\ ret[t] = "noAccount"
  /\ Reply(t, IF quota[t] THEN "403" ELSE "503")

Freshen(t) ==
  /\ Stage(t, "select") /\ At(t, "idle") /\ ret[t] = "ok"
  /\ BeginEnsureFresh(t, entry[t], FALSE)
  /\ To(t, "fresh")
  /\ UNCHANGED <<locals, err, via, answer>>

\* Mutation of Try: accountAttempts is not raised.
TryUncounted(t) ==
  /\ Stage(t, "fresh") /\ At(t, "idle")
  /\ tried' = [tried EXCEPT ![t] = @ \cup {entry[t]}]
  /\ To(t, IF ret[t] = "ok" THEN "catalog" ELSE "refused")
  /\ UNCHANGED <<attempts, rounds, waited, retries, quota, via, err, answer, vars>>

\* Mutation of Try: the account is excluded only once its credential is fresh.
TryExcludesLate(t) ==
  /\ Stage(t, "fresh") /\ At(t, "idle")
  /\ tried' = [tried EXCEPT ![t] = IF ret[t] = "ok" THEN @ \cup {entry[t]} ELSE @]
  /\ attempts' = [attempts EXCEPT ![t] = @ + 1]
  /\ To(t, IF ret[t] = "ok" THEN "catalog" ELSE "refused")
  /\ UNCHANGED <<rounds, waited, retries, quota, via, err, answer, vars>>

\* EnsureFresh has returned; its error is that of the refresh or of the file.
Try(t) ==
  /\ Stage(t, "fresh") /\ At(t, "idle")
  /\ tried' = [tried EXCEPT ![t] = @ \cup {entry[t]}]
  /\ attempts' = [attempts EXCEPT ![t] = @ + 1]
  /\ To(t, IF ret[t] = "ok" THEN "catalog" ELSE "refused")
  /\ UNCHANGED <<rounds, waited, retries, quota, via, err, answer, vars>>

Refused(t) ==
  /\ Stage(t, "refused")
  /\ MarkAuthError(t, entry[t])
  /\ To(t, "loop")
  /\ UNCHANGED <<locals, err, via, answer>>

\* Catalog.Get always has a model, so that the handler's "no models" branch is
\* never taken; the model asked for may be missing or lack a capability.
FindModel(t) ==
  /\ Stage(t, "catalog")
  /\ \/ Reply(t, "400")
     \/ To(t, "pick") /\ UNCHANGED <<locals, err, via, answer, vars>>

\* Mutation of PickTransport: an account whose probe failed does not count as tried.
PickTransportUncounted(t) ==
  /\ Stage(t, "pick")
  /\ \/ /\ To(t, "loop") /\ UNCHANGED via
        /\ tried' = [tried EXCEPT ![t] = @ \ {entry[t]}]
        /\ attempts' = [attempts EXCEPT ![t] = @ - 1]
     \/ /\ To(t, "call") \/ To(t, "set")
        /\ \E p \in IF Transport = "auto" THEN {"bearer", "cosy"} ELSE {Transport} :
             via' = [via EXCEPT ![t] = p]
        /\ UNCHANGED <<tried, attempts>>
  /\ UNCHANGED <<rounds, waited, retries, quota, err, answer, vars>>

\* pickTransport: a failed probe moves on to the next account; a transport that is
\* cached is used at once, one that a probe has found is cached first.
PickTransport(t) ==
  /\ Stage(t, "pick")
  /\ \/ To(t, "loop") /\ UNCHANGED via
     \/ /\ To(t, "call") \/ To(t, "set")
        /\ \E p \in IF Transport = "auto" THEN {"bearer", "cosy"} ELSE {Transport} :
             via' = [via EXCEPT ![t] = p]
  /\ UNCHANGED <<tried, attempts, rounds, waited, retries, quota, err, answer, vars>>

\* cache() ends with Entry.SetTransport, which waits for the entry's mutex.
SetTransport(t) ==
  /\ Stage(t, "set") /\ mu[entry[t]] = Free
  /\ To(t, "call")
  /\ UNCHANGED <<locals, err, via, answer, vars>>

-----------------------------------------------------------------------------
(* The generation: the call, one forced refresh and a second call after a  *)
(* 401, and one call by COSY when Bearer is not there.                     *)

Outcome(t, k) ==
  /\ err' = [err EXCEPT ![t] = IF k = "stream" THEN "none" ELSE k]
  /\ To(t, IF k = "stream" THEN "relay"
           ELSE IF k = "404" /\ Transport = "auto" /\ via[t] = "bearer" THEN "cosy"
           ELSE "handle")

Generate(t, k) ==
  /\ Stage(t, "call") /\ k # "401"
  /\ Outcome(t, k)
  /\ UNCHANGED <<locals, via, answer, vars>>

Unauthorized(t) ==
  /\ Stage(t, "call") /\ "401" \in Answers
  /\ BeginEnsureFresh(t, entry[t], TRUE)
  /\ err' = [err EXCEPT ![t] = "401"]
  /\ To(t, "forced")
  /\ UNCHANGED <<locals, via, answer>>

Forced(t) ==
  /\ Stage(t, "forced") /\ At(t, "idle")
  /\ To(t, IF ret[t] = "ok" THEN "recall" ELSE "mark401")
  /\ UNCHANGED <<locals, err, via, answer, vars>>

\* Mutation of Regenerate: a second 401 is treated like the first.
RegenerateAgain(t, k) ==
  /\ Stage(t, "recall")
  /\ IF k = "401" THEN UNCHANGED err /\ To(t, "call") ELSE Outcome(t, k)
  /\ UNCHANGED <<locals, via, answer, vars>>

Regenerate(t, k) ==
  /\ Stage(t, "recall")
  /\ IF k = "401" THEN UNCHANGED err /\ To(t, "mark401") ELSE Outcome(t, k)
  /\ UNCHANGED <<locals, via, answer, vars>>

StillUnauthorized(t) ==
  /\ Stage(t, "mark401")
  /\ MarkAuthError(t, entry[t])
  /\ To(t, "handle")
  /\ UNCHANGED <<locals, err, via, answer>>

\* Entry.SetTransport again.
FallBack(t) ==
  /\ Stage(t, "cosy") /\ mu[entry[t]] = Free
  /\ via' = [via EXCEPT ![t] = "cosy"]
  /\ To(t, "cosycall")
  /\ UNCHANGED <<tried, attempts, rounds, waited, retries, quota, err, answer, vars>>

GenerateCosy(t, k) ==
  /\ Stage(t, "cosycall")
  /\ Outcome(t, k)
  /\ UNCHANGED <<locals, via, answer, vars>>

-----------------------------------------------------------------------------
(* The error: wait for the queue, or blame the account and move on.        *)

\* Mutation of QueueAdmits: the wait to come is not counted.
QueueAdmitsWaited(t, q) ==
  /\ rounds[t] < QueueMaxRounds
  /\ q <= QueueWaitMax
  /\ waited[t] <= QueueWaitBudget

QueueAdmits(t, q) ==
  /\ rounds[t] < QueueMaxRounds
  /\ q <= QueueWaitMax
  /\ waited[t] + q <= QueueWaitBudget

Handling(t, k) == Stage(t, "handle") /\ err[t] = k
Queued(t)      == Stage(t, "handle") /\ err[t] \in {"queue"} \cup StrayMarkers
Forgotten(t)   == err' = [err EXCEPT ![t] = "none"] /\ via' = [via EXCEPT ![t] = "none"]
Handled(t)     == To(t, "loop") /\ Forgotten(t)

\* Any error whose text has the marker: the handler looks at the text first.
QueueWait(t, q) ==
  /\ Queued(t) /\ QueueAdmits(t, q)
  /\ rounds' = [rounds EXCEPT ![t] = @ + 1]
  /\ \E j \in 1..QueueWaitJitter : waited' = [waited EXCEPT ![t] = @ + q + j]
  /\ tried' = [tried EXCEPT ![t] = @ \ {entry[t]}]
  /\ attempts' = [attempts EXCEPT ![t] = @ - 1]
  /\ To(t, "sleep") /\ Forgotten(t)
  /\ UNCHANGED <<retries, quota, answer, vars>>

WakeUp(t) ==
  /\ Stage(t, "sleep") /\ To(t, "loop")
  /\ UNCHANGED <<locals, err, via, answer, vars>>

\* The request's context ends first.
QueueTimeout(t) == Stage(t, "sleep") /\ Reply(t, "504")

Reject401(t) ==
  /\ Handling(t, "401") /\ MarkAuthError(t, entry[t])
  /\ Handled(t) /\ UNCHANGED <<locals, answer>>

\* Mutation of QuotaRefused: the account is disabled like for any other 403.
QuotaDisables(t) ==
  /\ Handling(t, "quota")
  /\ quota' = [quota EXCEPT ![t] = TRUE]
  /\ MarkDisabled(t, entry[t])
  /\ Handled(t)
  /\ UNCHANGED <<tried, attempts, rounds, waited, retries, answer>>

QuotaRefused(t) ==
  /\ Handling(t, "quota")
  /\ quota' = [quota EXCEPT ![t] = TRUE]
  /\ Handled(t)
  /\ UNCHANGED <<tried, attempts, rounds, waited, retries, answer, vars>>

\* Mutation of Reject403: the handler changes the entry itself.
Reject403ByHand(t) ==
  /\ Handling(t, "403")
  /\ state' = [state EXCEPT ![entry[t]] = "disabled"]
  /\ Handled(t)
  /\ UNCHANGED <<locals, answer, cooldownUntil, disabledUntil, creds, scan, store, mu,
                 pc, entry, force, cursor, cred, ret>>

\* Any other 403, the queue signal whose wait does not fit among them.
Reject403(t) ==
  /\ \/ Handling(t, "403")
     \/ Handling(t, "queue") /\ \E q \in QueueWaits : ~QueueAdmits(t, q)
  /\ MarkDisabled(t, entry[t])
  /\ Handled(t) /\ UNCHANGED <<locals, answer>>

RateLimited(t, r) ==
  /\ Handling(t, "429")
  /\ MarkCooldown(t, entry[t], Longer(r, CooldownConfig))
  /\ Handled(t) /\ UNCHANGED <<locals, answer>>

Retry5xx(t) ==
  /\ Handling(t, "5xx") /\ retries[t] < Max5xxRetries
  /\ retries' = [retries EXCEPT ![t] = @ + 1]
  /\ Handled(t)
  /\ UNCHANGED <<tried, attempts, rounds, waited, quota, answer, vars>>

\* Mutation of PassOn: after a network error the next account is tried.
PassOnRetries(t) ==
  \/ Handling(t, "5xx") /\ retries[t] >= Max5xxRetries /\ Reply(t, "upstream")
  \/ (Handling(t, "404") \/ Handling(t, "other")) /\ Reply(t, "upstream")
  \/ Handling(t, "net") /\ Handled(t) /\ UNCHANGED <<locals, answer, vars>>

PassOn(t) ==
  \/ Handling(t, "5xx") /\ retries[t] >= Max5xxRetries /\ Reply(t, "upstream")
  \/ (Handling(t, "404") \/ Handling(t, "other")) /\ Reply(t, "upstream")
  \/ Handling(t, "net") /\ Reply(t, "502")

\* relay copies the stream to the client, to its end or to an error: from here
\* no other account or transport is tried.
Relay(t) == Stage(t, "relay") /\ Reply(t, "relayed")

-----------------------------------------------------------------------------
InPool(t) == Step(t) /\ UNCHANGED chat

Handler(t) ==
  \/ \E s \in Sessions \cup {NoSession} : Select(t, s)
  \/ GiveUp(t) \/ Freshen(t) \/ Try(t) \/ Refused(t) \/ FindModel(t)
  \/ PickTransport(t) \/ SetTransport(t)
  \/ \E k \in Answers : Generate(t, k) \/ Regenerate(t, k) \/ GenerateCosy(t, k)
  \/ Unauthorized(t) \/ Forced(t) \/ StillUnauthorized(t) \/ FallBack(t)
  \/ \E q \in QueueWaits : QueueWait(t, q)
  \/ WakeUp(t) \/ QueueTimeout(t) \/ Reject401(t) \/ QuotaRefused(t) \/ Reject403(t)
  \/ \E r \in RetryAfters : RateLimited(t, r)
  \/ Retry5xx(t) \/ PassOn(t) \/ Relay(t)

TimePasses == "Tick" \in Ops /\ Tick /\ UNCHANGED chat

\* The process ends with its requests.
ServerRestart ==
  /\ "Restart" \in Ops /\ Restart
  /\ at' = Each("idle") /\ tried' = Each({}) /\ attempts' = Each(0)
  /\ rounds' = Each(0) /\ waited' = Each(0) /\ retries' = Each(0)
  /\ quota' = Each(FALSE) /\ err' = Each("none") /\ via' = Each("none")
  /\ answer' = Each("none")
  /\ posts' = Each(NoneSent) /\ forces' = Each(NoneSent) /\ settled' = Each(FALSE)

ChatNext ==
  \/ \E t \in Threads : Arrive(t) \/ Handler(t) \/ InPool(t)
  \/ TimePasses \/ ServerRestart

chatVars == <<vars, chat>>

ChatSpec == ChatInit /\ [][ChatNext]_chatVars

ChatFairSpec == ChatSpec /\ \A t \in Threads : SF_chatVars(Handler(t) \/ InPool(t))

-----------------------------------------------------------------------------
ChatTypeOK ==
  /\ at \in [Threads -> Stages]
  /\ tried \in [Threads -> SUBSET Accounts]
  /\ attempts \in [Threads -> Nat] /\ rounds \in [Threads -> Nat]
  /\ waited \in [Threads -> Nat] /\ retries \in [Threads -> Nat]
  /\ quota \in [Threads -> BOOLEAN]
  /\ err \in [Threads -> Errors \cup {"none"}]
  /\ via \in [Threads -> {"none", "bearer", "cosy"}]
  /\ answer \in [Threads -> Replies]
  /\ posts \in [Threads -> [Accounts -> Nat]] /\ forces \in [Threads -> [Accounts -> Nat]]
  /\ settled \in [Threads -> BOOLEAN]

\* accountAttempts counts exactly the excluded accounts, through every retry
\* and queue wait: Select never hands out an excluded account, and the queue
\* takes the account out of the map when it lowers the count.  So the loop
\* tries an account again only after a wait for the queue.
AttemptsMatch == \A t \in Threads : attempts[t] = Cardinality(tried[t])

\* The account the handler works on is one it has counted, until it is given
\* back to the pool for the queue.
Working(t) == at[t] \in {"refused", "catalog", "pick", "set", "call", "forced", "recall",
                         "mark401", "cosy", "cosycall", "handle", "relay"}
WorksOnTried == \A t \in Threads : Working(t) => entry[t] \in tried[t]

\* A request waits for the queue no longer than its budget and one jitter, in
\* no more rounds than configured, whatever waits the upstream asks for.
QueueBudgetKept ==
  \A t \in Threads : /\ waited[t] <= QueueWaitBudget + QueueWaitJitter
                     /\ rounds[t] <= QueueMaxRounds

\* How often a request can have come to account a by now: once while it is among
\* the excluded ones, and once for each wait for the queue that gave it back.
Tries(t, a) == rounds[t] + IF a \in tried[t] THEN 1 ELSE 0

\* No storm: over a whole request, its failovers, 5xx retries and queue rounds
\* together, an account is refreshed by force no oftener than the request comes to
\* it, and gets three generations each time at most: the call, the one after the
\* refresh and the one by COSY.  (README.md:199 has one refresh; after a wait for
\* the queue the same account may be chosen and refreshed by force again.)
NoStorm ==
  \A t \in Threads, a \in Accounts :
    forces[t][a] <= Tries(t, a) /\ posts[t][a] <= 3 * Tries(t, a)

\* Once the client has a stream, or a generation ended in a way that leaves open
\* whether the upstream ran it, the request sends no generation again, by no
\* account and no transport (README.md:204-205).
NothingReplayed == \A t \in Threads : settled[t] => ~Posting(t)

\* Every request is answered: the failovers, the retries and the queue rounds
\* come to an end whatever the upstream answers and other requests do.
EveryRequestAnswered == \A t \in Threads : at[t] # "idle" ~> at[t] = "idle"

\* A refusal for the model's quota leaves the account in service, as do a 5xx
\* and an error with an uncertain outcome; and a client that gets "accounts
\* exhausted" (503) met no account that only lacks the quota.
QuotaKeepsAccount ==
  [][\A t \in Threads :
       /\ at[t] = "handle" /\ err[t] \in {"quota", "404", "5xx", "other", "net"} /\ at'[t] # at[t]
            => \A a \in Accounts : state[a] = "healthy" => state'[a] = "healthy"
       /\ quota[t] /\ answer'[t] = "503" => answer[t] = "503"]_chatVars

\* The handler uses the pool the way Pool lets its callers: no call before the
\* last one has returned and no entry changed without its mutex.  What holds
\* of Pool holds of the pool under the handler.
UsesPool == Spec

-----------------------------------------------------------------------------
(* The inductive invariant behind them.                                    *)

\* How a request is inside the pool: only in the stages that wait for a call.
\* Select has the handler's excluded set and answers with an account outside it.
Inside(t) ==
  /\ At(t, "select") => /\ Stage(t, "select") /\ excluded[t] = tried[t]
                        /\ cands[t] \subseteq Accounts \ tried[t]
  /\ Stage(t, "select") => pc[t] \in {"select", "idle"}
  /\ Stage(t, "select") /\ At(t, "idle") /\ ret[t] = "ok" => entry[t] \in Accounts \ tried[t]
  /\ Stage(t, "fresh") => entry[t] \in Accounts \ tried[t]
  /\ at[t] \in {"fresh", "forced"} => At(t, "idle") \/ Calling(t)
  /\ at[t] \notin {"select", "fresh", "forced"} => At(t, "idle")

\* What a stage of the generation knows of the calls before it.
Trail(t) ==
  /\ ~settled[t] \/ Stage(t, "relay") \/ (Stage(t, "handle") /\ err[t] = "net")
  /\ at[t] \in {"forced", "recall", "mark401"} => err[t] = "401"
  /\ Stage(t, "cosycall") => via[t] = "cosy"

\* What is left of a try at a stage: of the account's generations at most k are of
\* this try, and its refresh has not been forced yet where one may be.
Sent(t, k) == posts[t][entry[t]] <= 3 * rounds[t] + k
Left(t) ==
  /\ at[t] \in {"catalog", "pick", "set", "call"} => forces[t][entry[t]] <= rounds[t] /\ Sent(t, 0)
  /\ at[t] \in {"forced", "recall"} => Sent(t, 1)
  /\ at[t] \in {"mark401", "cosy", "cosycall"} => Sent(t, 2)

ChatInv == /\ ChatTypeOK /\ AttemptsMatch /\ WorksOnTried /\ QueueBudgetKept /\ NoStorm
           /\ \A t \in Threads : Inside(t) /\ Trail(t) /\ Left(t)

-----------------------------------------------------------------------------
(* What comments, documents and messages say of the handler, and the code  *)
(* does not do.                                                            *)

\* After the wait for the queue the same account is asked again (server.go:328,
\* queue.go:21).  An entry that is not among the tried ones is the one waited for.
QueueRetriesSame ==
  [][\A t \in Threads :
       Stage(t, "select") /\ rounds[t] > 0 /\ entry[t] \notin tried[t]
         /\ pc[t] = "select" /\ pc'[t] = "idle" /\ ret'[t] = "ok"
       => entry'[t] = entry[t]]_chatVars

\* An account is in the state "authentication rejected" (pool.go:146) because its
\* credential was: the upstream refused the refresh or answered 401, and the file
\* that could not be written is no such reason.
AuthErrorIsRejection ==
  [][\A t \in Threads : Stage(t, "refused") /\ at'[t] = "loop"
       => ret[t] = "refreshError"]_chatVars

\* A 429 keeps the account out for its Retry-After or the configured time
\* (README.md:203).
CooldownHonoured ==
  [][\A a \in Accounts : state[a] = "cooldown" /\ ~Elapsed(cooldownUntil[a])
       => state'[a] # "healthy"]_chatVars
=============================================================================
