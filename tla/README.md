# Qoder2api-plus in TLA+

Qoder2api-plus is an OpenAI-compatible proxy: it serves `/v1/chat/completions`
from a pool of Qoder accounts, refreshes and rotates their credentials, fails
over between accounts, and turns the upstream's server-sent events into the
client's. This directory models the parts of it whose correctness depends on
the order of steps: the account pool, the chat handler on top of it, the shared
model catalog, readiness, the choice of a transport with its shared cache, the
path of one stream, and the commands as processes that share one credentials
file. Every module is written
from the Go source; `PROJECT.json` maps each definition to its lines.

## 1. Inventory

| Part | Source (`src/...`) | State | Operations | Interacts with |
|---|---|---|---|---|
| Account pool | `internal/pool/pool.go` | per entry: state, `cooldownUntil`, `disabledUntil`, credential, mutex; `rr`, `persistMu` | `Select`, `EnsureFresh`, `Mark*`, `Recover`, `Available`, `Statuses`, `AdminEntries` | called by every request; calls the refresher and the store |
| Credential store | `internal/credential/store.go` | the credentials file, a temporary file per write | `Replace`, `Upsert`, `Load` | pool; other processes (`login`, `import-pat`, `models`, `doctor`) |
| Token refresh, logins | `internal/qoder/auth.go` | none (the upstream rotates the token); the ticker and timer of a login | `Refresh`, `ExchangePAT`, `PollDeviceFlow`; userinfo, quota | pool, `login`, `import-pat` |
| Chat handler | `internal/server/server.go` (`chat`) | locals of one request | the failover loop | pool, catalog, transports, relay |
| Model catalog | `internal/qoder/catalog.go` | one snapshot, an RW mutex | `Get`, `Snapshot` | every request, `Prime` |
| Readiness | `internal/server/server.go` | `ready`, `degraded`, `readyMu` | `Prime`, `setReady`, `/readyz` | catalog, `serve` |
| Transports | `internal/qoder/transport.go`, `internal/server/server.go` (`pickTransport`) | `transportCache`, an RW mutex | `pickTransport`, `Probe`, the fallback, `Chat` by Bearer or COSY | `Prime`, every request, upstream |
| Queue signal, probe | `internal/qoder/queue.go`, `queueprobe.go` | none | `IsQueueError`, `QueueWaitSeconds`, `probeQueueEnvelope` | transports |
| SSE parser, relay, writer | `internal/stream/sse.go`, `openai.go`, `server.go` (`relay`) | the partial JSON, the accumulator | `ParseSSE`, `relay`, `WriteEvent` | client |
| Thinking router | `internal/stream/thinking.go` | `inThinking`, held-back text | `Feed`, `Route`, `Finalize` | relay |
| COSY signing, encoding | `internal/qoder/cosy.go`, `encoding.go` | none | pure functions | transports |
| HTTP client, configuration, constants | `http.go`, `config.go`, `constants.go` | none after start | | all |
| Admin, models, health | `server.go` | none | `/admin/*`, `/v1/models`, `/healthz` | pool, catalog |
| Command line | `cmd/qoder-proxy/main.go` | the list of accounts each process has loaded | `serve`, `login`, `import-pat`, `models`, `doctor` | everything |

What is hard in it:

- *Several request goroutines on one entry.* A refresh holds the entry's mutex
  over a call to the upstream, and the write of the file holds `persistMu` while
  it takes the mutex of every entry in turn.
- *Refresh tokens rotate.* A token can be spent once; the new one exists in
  memory before it is in the file, the write may fail, the process may end.
- *The state of an entry has many writers*: 401, 403, 429, a refresh, the lazy
  recovery, an administrator. The last one wins.
- *The failover loop* keeps its own books (`excluded`, `accountAttempts`,
  `queueRounds`, `queueWaited`, `retries5xx`) and gives attempts back in one case.
- *Nothing may be sent twice* that the upstream may have run.
- *Catalog fetches overlap* without a lock and end in any order; so do the
  probes of transports, whose results overwrite each other in a cache that all
  requests share.
- *Several processes write one file* with no lock between them: a server writes
  back the list it loaded, a login the list it has just read. Any of them may end
  at any step, and a rename may not have reached the disk when the power fails.
- *A stream* may end, stall, be cut inside a JSON value, outlive the deadline or
  the client, and has sent its 200 by then. Tags may be split over chunks, and
  JSON values over lines.

What makes each part correct: the file never goes back and holds what was
reported as saved; a token is spent once; `Select`'s answer is true although its
walk is not atomic; nobody waits for ever; an account out of service for a 403
or a 429 comes back; the loop's books match its accounts and its budgets; no
generation is repeated after an uncertain end; the catalog shows the listing
brought last; a generation goes by a transport that was probed, by COSY for a
concrete model and by the configured one if there is one; the credentials file
can always be read, and loses nothing but to a writer that had looked too early;
a client told of no error has the whole answer in the right channels, and every
stream ends with one `[DONE]`.

## 2. Modules

| Module | What it is |
|---|---|
| `Pool` | the pool, its callers unrestricted: any number of goroutines, any call at any moment, a clock, restarts |
| `PoolSelect` | EXTENDS `Pool`: the history of what was usable while each call of `Select` walks |
| `Chat` | EXTENDS `Pool`: one handler per goroutine; its calls are the pool's actions |
| `Catalog` | `Get` with overlapping fetches |
| `Readiness` | EXTENDS `Catalog`: `Prime`, then requests and `/readyz` |
| `Transports` | EXTENDS `Catalog` (for its goroutines and accounts): `pickTransport`, its cache, the probes, the fallback to COSY |
| `Routing` | composes `Readiness` and `Transports`: a request takes a listing, finds its model, has a transport picked and generates |
| `Thinking` | the router byte by byte, and `Routed`, the reference on whole texts |
| `Stream` | EXTENDS `Thinking`: probe, parser, relay and writer for one generation |
| `Processes` | the commands as processes on one credentials file, crashes and power losses |
| `MCPool`, `MCPoolSelect`, `MCChat`, `MCRouting`, `MCStream`, `MCProcesses` | instances for TLC |
| `PoolProof`, `ChatProof`, `ReadinessProof`, `RoutingProof`, `ThinkingProof`, `StreamProof`, `ProcessesProof` | theorems |
| `Recursion` | lemmas: induction over numbers and sequences, functions defined by recursion, `FlattenSeq` |

Abstract and detailed specifications: `Chat` implements `Pool!Spec` (`UsesPool`,
the same variables: the handler is one particular caller); `Routing` implements
`Readiness` (`ServesReady`: with the probes and generations hidden), which is
`Catalog` with a particular beginning (lemma `ServerUsesCatalog`). `Routing` also
implements `TransportsSpec` (lemma `RoutingPicks`).

### Pool and the code

Accounts are `1..N`, the order of `Pool.entries`. A credential is a generation
number: the upstream adds one per refresh it answers (`issued`), memory holds
`account`, the file `disk`. `ttl` counts down to the refresh window. A deadline
is the number of ticks left; -1 means that `time.Now().After` is true.

`pc[t]` is where a goroutine is in a pool call. `BeginSelect`, `ScanEntry` (one
`Snapshot`), `Pick`/`NoCandidate` are `Select`; `BeginList` .. `EndWalk` the
read-only walks, which also recover entries; `BeginRecover`, `RecoverEntry` ..
`EndWalk` the walk of `Recover`, which takes every entry's mutex in turn and
changes the one it looks for; `BeginEnsureFresh`, `StillFresh`,
`NoRefresher`, `StartRefresh`, `RefreshOK`/`RefreshFailed`/`RefreshLost`,
`LockPersist`, `GatherEntry`, `Replace` are `EnsureFresh` and `Store.Replace`.
An entry's mutex that is taken and given back without leaving the pool is a
guard (`mu[a] = Free`) on one atomic action; across the upstream's call it is
held in `mu`. `RefreshLost` is an answer the upstream gave and the pool never
got. `Replace(t, w, ok)`: `w` the file was renamed into place, `ok` no step
failed (the chmod after the rename may fail). `Restart` loads the file and makes
every account healthy, as `New` does. `lost` is history: accounts whose latest
token was lost with an answer or with a process. Left out: `lastError`, the value
of `Entry.selectedTransport` and formatting, which nothing decides on.

The session hash is its first byte, which alone enters the choice; `rr` is kept
modulo `RRWrap`, a multiple of every possible number of candidates, so that
`rr % len` is exact (the overflow of the 64-bit counter is out of reach).

`PoolSelect` adds to every step what it makes of `steady` (accounts usable ever
since a call of `Select` began) and `ever` (usable at some moment of it); the
steps themselves are `Pool`'s.

### Chat and the code

`at[t]` is the place in `Server.chat`; the other locals have the source's names
shortened (see the VARIABLES). The upstream answers a generation with one of
`Errors` or a stream. A 405 is a `"404"` where the code treats them alike;
`"queue"` and `"quota"` are 403s with the markers of `QueueWaitSeconds` and
`IsQuotaError`. The handler looks for the queue's marker in the text of any error
before it looks at the status: `StrayMarkers` are the other errors whose text may
have it (`Queued`), a 429 in `chat_failover`. Network errors are not among them
(`MarkedErrors`): their text is Go's own. `Handler(t)` lists the steps in the order of the code. The catalog and
`pickTransport` enter by their outcomes (`FindModel`, `PickTransport`): a
listing with the model or without it, Bearer or COSY or an error. How those
outcomes come about is `Routing`'s. A transport that a probe has found is cached
first, which ends with `Entry.SetTransport` and waits for the entry's mutex
(`SetTransport`, and `FallBack`). `posts`, `forces` and `settled` are history:
per account, the generations the request has sent and the refreshes it has
forced, from its arrival to its answer, and whether a generation was relayed or
ended uncertain.

### Catalog, Readiness and the code

`Get` decides under the read lock (`Fresh`); `Hit` reads again under a second
one; `Fetched` and `FetchFailed` store under the write lock. `got` is `Get`'s
`s`, what it read at first, and then what it returned. The upstream may answer
any of an account's `Offers`, so listings change from fetch to fetch. `brought`
is history: the listing a fetch brought last. `Readiness` runs
`Prime` alone first, as `serve` does before it listens; `readers` counts the
read locks `readiness` takes and does not give back. `Used` is the end of a
caller's use of its listing.

### Transports, Routing and the code

`cache` is `Server.transportCache`; its key is the account and the class of the
model, and all tiers (and `Prime`, which asks for no model, `NoModel`) share one
class. A goroutine is `"probe"` between the read of the cache and the write of
what its probe found, and `"post"` while its generation is under way. `FirstProbe`
is the order of the branches in `pickTransport`; `NoBearerRoute` is the 404
after which COSY is probed, which a region without a Bearer endpoint
(`BearerAccounts`) gives at once. `FallBack` is the 404 or 405 of a generation,
which `chat` answers by writing `"cosy"` and sending it by COSY. That every
generation by Bearer may get a 404 although its probe did not is the upstream's
freedom. `found` and `denied` are history: what a probe has found for which
account, and which accounts Bearer itself has turned away. `Entry.SetTransport`
is `Chat`'s.

`Routing` adds one variable, `asking`: goroutines that have a listing and have
not used it yet. `Request` starts where `EnsureFresh` has returned, `Answered`
is `/v1/models` and the requests that end with `400`, `Finds` picks a transport
for a model of the listing at hand, which may be another account's. `Prime` goes
through the same code (`PrimePicks`, `PrimeFindsNone`, `PrimeFindsOne`), before
any request. The models of `Transports` and `Catalog` are the same set, and so are
their goroutines.

### Processes and the code

A process is at one of the steps of its command (`pc`): `serve`, `models` and
`doctor` hold a list (`"up"`) and write it back after a refresh; `login` polls
(`Poll`, `Pending`, `TimedOut`, `Authorized`), `import-pat` exchanges its token
(`Exchanged`), and both ask for the user and call `Upsert`, which reads the file
again. `Sync` is the writing, flushing and closing of the temporary file, `Rename`
the rename and what follows it. A credential is its age, as in `Pool`; an entry
of the file is a user (region and user id) with a credential, 0 for none.

`Stop` is every end of a process: an error, an interrupt, a kill, the end of its
work. `serve` ends so while requests are under way (`main.go:126` returns as
soon as `Shutdown` begins). `WriteFails` is what only `serve` survives. A write
of `serve` is one at a time, under `Store.mu` and `persistMu`; the goroutines
inside it are `Pool`'s. `Refreshed` may succeed for a token that another process
has sent already: whether refresh tokens rotate is the upstream's, and a refresh
that fails changes nothing here. `PowerLoss` ends all processes and shows the
file of the last rename or, since nothing flushes the directory, the one of
before; contents that were not flushed are torn. `durable` is what the disk has,
`stale` is history: the entries others have written since a process took the list
it writes, which is its start for `serve`, `models` and `doctor` and `Upsert` for
`login` and `import-pat`. Before `Upsert` a login has no such list, and nothing
is excused by what its command had loaded (`LossesExplained`).

### Stream and the code

`Stream` takes lines as they are parsed: a line has a kind and a delta; a delta's
text is a sequence of bytes, as the router takes them. A `"head"` line ends inside
its JSON, `"more"` and `"contmore"` (with and without `data:`) are further pieces of
the value, any number of them, and `"tail"` or `"cont"` the last (`HeadOfDelta`,
`StillIncomplete`, `RestOfDelta`); blank and control lines and a data line of
spaces change nothing (`Skip`). A line that is a value of its own (`Foreign`) and
comes before the last piece garbles the value: that leaves it incomplete, to be
completed into anything, or makes it malformed, and the model allows each
(`Garbles`, `StillIncomplete`, `RestOfDelta`, `Malformed`), since it depends on the
bytes. The probe is `ReadHead`,
`ReadRest`, `ReadEnd`; the parser's loop is one action per kind of line.
`ContextDone` may win against a line that is ready, as Go's `select` may. The
pieces `Emit` writes are one event per delta. Next to its text a delta has
fragments of tool calls, an index and a piece each; `Add` puts them together, as
`Accumulator.Add` does for a response and a client does for a stream, and `Listed`
is what `Response` makes of them. A delta may have a role next to them or alone, as
the first one has (`bearer_standard.sse:1`), which counts as delivered
(`server.go:577`). Finish reasons, the 16 MiB limit and the texts of errors are left
out.

## 3. What TLC checks

| Run | Instance | Question |
|---|---|---|
| `pool_refresh` | 2 accounts, 2 goroutines, 2 refreshes each, restarts, failing writes | `PoolInv` (types, mutexes and who holds them, the order memory/file/upstream), `SpentTokenNotResent`, `SingleFlight`, `DiskNeverRegresses`, `SavedBeforeReturn` |
| `pool_recovery` | 1 account, 2 goroutines, every Mark, `Select` and the walk of `Recover` | `OutOfServiceEnds`: an account no longer marked comes back |
| `pool_select` | 2 accounts, 2 goroutines that select, mark and recover, the clock | `SelectTruthful`: the walk's answer was true during the call |
| `chat_failover` | 2 accounts, 1 goroutine with one request after another, all answers, the queue's marker in a 429 too | `ChatInv`, the loop's books, the queue's budgets, `NoStorm`, `NothingReplayed`, `QuotaKeepsAccount`, and the refinement `UsesPool` |
| `chat_crowd` | 1 account, 2 requests at once, file, restarts | `EveryRequestAnswered`, `CallsReturn` under fairness |
| `routing` | 2 accounts with different models, one whose listing changes, one of a region without Bearer; 2 goroutines; a tier and a concrete model; every configured transport | `RoutingInv`, `HitIsGood`, `RemembersListing`, `ConcreteByCosy`, `ForcedKept`, `ProbedFirst`, `FallbackLearned`, and the refinement `ServesReady` |
| `processes` | one each of `serve`, `doctor`, `login`, `import-pat`; 2 users, one of them in the file at the start; 2 credentials each | `ProcessesInv`, `FileReadable`, `LossesExplained`, `LoginEnds` |
| `stream_relay` | streams of up to 4 lines, both kinds of response, a delta of a role alone, a character of two bytes | types, `OneDone`, `AnswerIsWhole` (with the reference `Routed`), `CallsAreWhole`, `TornAtTags`, `PartialIsTold`, `StreamEnds` |

Bounds, and why they are enough. Two goroutines are the fewest that can race on
an entry and on the file; a third would only repeat one of the two roles. Two
accounts let one be written by the refresh of the other and let the loop fail
over once and come back. `MaxGen = 2` gives a write that is overtaken by a
second refresh of the same account. A life of a tick at most and
periods of none, one or two ticks (each run has its own) put a deadline before, at
and after each step. Four lines are a value on three of
them, or on two and an interruption, and an end; `ProbeLines = 1` ends the probe's head
before the stream does. `MaxReaders = 1` is a lock that is not given back. In `routing` the listings of the accounts differ, so that a goroutine
meets the other's listing, and one of them changes between two fetches, and one tier and one concrete model are the two
classes of the cache. In `processes` one process of each command gives every
pair of commands, and two users an entry to be lost by a writer of the other;
`MaxIssued = 2` is a credential and its successor. Bounds never disable a step
the code could take without being named in the guards (`MaxGen` in `Answered`,
`MaxLines` in `Receive`, `MaxReaders` in `Readyz`, `MaxIssued` in `Issue`).
`chat_failover` has one goroutine because its properties are of one request; the
proofs below lift it to any number. There the queue's budget admits one wait and
not a second one, and a signal may ask for more than `QueueWaitMax`; the limit of
rounds binds in `chat_crowd`, and `QueueIsBounded` proves the limits together. Restarts under the handler are in
`chat_crowd`. `stream_relay` switches deadlock checking off: a request that is
over does nothing more.

Fairness. `Fairness` in `Pool` is strong fairness of each goroutine's steps: the
Go scheduler runs every runnable goroutine, a `sync.Mutex` hands over to a
waiter that starves, and the call to the upstream ends with its context.
`ChatFairSpec` asks the same of handlers (their calls have the context of
`WithTimeout`); new requests need not arrive. `HealthFairSpec` adds the clock
and that somebody looks at the pool. `StreamFairSpec` asks only for the deadline
and for what it releases; that the upstream sends anything, or closes, is not
assumed. `FairSpec` in `Processes` is of logins alone: the ticker ticks, polls
are answered (the HTTP client's timeouts cover the headers; that a body ends,
`auth.go:145`, is assumed), the timer runs out, and `select`, which chooses at
random between ready cases, takes the timer's at last (strong fairness of
`TimedOut`). `FallbackLearned` needs no fairness: it says that something happens
finitely often, because an entry of the cache is never removed.

### Where the code and its words part

Four runs state what a document or comment says and TLC finds it violated:

| Run | Said | Done |
|---|---|---|
| `cooldown_lost` | a 429 cools the account down for its Retry-After (`README.md:203`) | a refresh by another request sets it healthy (`pool.go:124`) |
| `queue_other_account` | the same account is retried after the queue wait (`server.go:328`, `queue.go:21`) | `Select` chooses anew (`server.go:412`) |
| `file_error_blamed` | `auth_error` is "authentication rejected" (`pool.go:146`) | a failed write of the file marks it too (`server.go:349`) |
| `stream_probe` | the probe reads to the first event, 4096 bytes at most (`queueprobe.go:19`, `:22`) | it reads the whole stream before anything is relayed (`queueprobe.go:78`) |

Others met while modelling, without a run: `/readyz` keeps the answer of the one
`Prime`, while `README.md:216` has it degraded until a listing was fetched
(`SetReady` is no step of a request); "a 401 is refreshed once" (`README.md:199`)
holds of one try: after a wait for the queue the same account may be chosen and
refreshed by force again (`server.go:412`; `NoStorm` counts both); `partial: true`
(`README.md:277`) is not on every broken stream, but on those that delivered
something (`PartialIsTold`), which a role alone is (`server.go:577`); a character
split over reasoning and content at the end of an attempt at a tag comes out as
U+FFFD in each (`thinking.go:49` takes one byte, and `json.Marshal` replaces what is
no character; `TornAtTags` says how often); a piece of a JSON value that is nothing
but spaces is dropped (`sse.go:30`), although `sse.go:109` keeps spaces at the end
of a piece as output of the model; an envelope whose body is cut inside its own JSON is taken for a value that goes on
(`sse.go:55`), and is an error only at the next line or at the end; a queue signal whose wait does not fit the
budget disables a healthy account (`server.go:437`); a good listing of another
account answers `400 model_not_found` (`server.go:359`); `readiness` never gives
its read lock back (`server.go:219`), which is harmless only because `Prime`
ends first (`main.go:114`); `queue_wait_jitter: 0` passes `Validate`
and panics in `rand.Int63n` (`server.go:406`); the word `queueType` in an
ordinary first event is taken for a queue signal (`queue.go:31`); text held back
by the router goes out after the delta with the finish reason (`server.go:562`);
the message of a queue envelope is cut to 256 bytes before it is searched for
the wait (`queueprobe.go:85`); `<<think>` is not seen as a tag; a tool call behind
a gap in the indexes is left out of a response, and not of a stream
(`openai.go:86`; `CallsAreWhole` names the case).

## 4. What is proved

TLAPS checks, for every value of the constants under the named ASSUMEs:

| Module | Theorem | States |
|---|---|---|
| `PoolProof` | `PoolInvariance`, `TypeCorrect` | `Spec => []PoolInv` |
| | `TokensSpentOnce`, `OneRefreshPerExpiry` | `SpentTokenNotResent`, `SingleFlight` |
| | `FileMonotone`, `RefreshSaved` | `DiskNeverRegresses`, `SavedBeforeReturn` |
| | `SelectIsTruthful` | `SelectSpec => SelectTruthful`, with all calls of the pool around it |
| | `WaitsEnd` | no goroutines wait in a circle for each other's mutexes |
| `ChatProof` | `ChatInvariance` | `ChatSpec => []ChatInv` |
| | `HandlerUsesPool` | `ChatSpec => UsesPool` (refinement) |
| | `CredentialsKept` | the pool's guarantees, for the pool under the handler |
| | `GenerationsBounded`, `NeverReplayed` | `NoStorm`, `NothingReplayed` |
| | `AttemptsCounted`, `TriedIsExcluded`, `QueueIsBounded` | `AttemptsMatch`, `WorksOnTried`, `QueueBudgetKept` |
| | `QuotaIsNotTheAccount` | `QuotaKeepsAccount` |
| `ReadinessProof` | `ReadinessTyped`, `HitsAreGood` | types, `HitIsGood` |
| | `ListingRemembered` | `RemembersListing` |
| `RoutingProof` | `RoutingInvariance` | `RoutingSpec => []RoutingInv` |
| | `RoutingServesReady`, `RoutingRemembers` | `ServesReady` (refinement), and with it what `ReadinessProof` shows |
| | `ConcreteModelsByCosy`, `ConfiguredKept`, `ProbedBeforeUse` | `ConcreteByCosy`, `ForcedKept`, `ProbedFirst` |
| | `FallbacksDescend` | what can still fall back only shrinks, and every fallback shrinks it |
| `ProcessesProof` | `ProcessesInvariance` | `Spec => []ProcessesInv` |
| | `AlwaysReadable`, `LossesAreExplained` | `FileReadable`, `LossesExplained` |
| `ThinkingProof` | `RouterFollowsReference` | the router, byte by byte, sends what `Routed` makes of the whole text |
| `StreamProof` | `OneDoneAlways`, `StreamTyped` | `OneDone`, `StreamTypeOK` |
| | `AnswerIsWholeAlways`, `CallsAreWholeAlways` | `AnswerIsWhole`, `CallsAreWhole` |
| | `PartialIsToldAlways` | `PartialIsTold` |

Every invariant and every action property of a passing run but `TornAtTags` is
proved, for any number of accounts, goroutines, requests, processes, lines and
deltas.

*The pool.* None of the properties of credentials and the file is inductive.
`PoolInv` adds what is held where (`Held`) and by whom (`Owned`: an entry's
mutex across the call to the upstream only, `persistMu` through the gathering
only, never both), that a generation goes from the upstream to memory to the
file (`Ordered`), and what a writer has gathered: for the entries before its
cursor, at least what the file holds and at most what memory holds, and for its
own account at least what it returns (`Gathered`). `Gathered` is inductive only
because the gathering starts after `persistMu` is held, so that the file cannot
change under it. This is the argument for `DiskNeverRegresses`.

`WaitsEnd` follows from `Owned` and is the safety core of `CallsReturn`: whoever
waits, waits for a goroutine in its call to the upstream, which waits for none,
or for the writer of the file, which waits at most for such a one. An order of
the two mutexes would not be enough to say, since `GatherEntry` takes entries'
mutexes under `persistMu`; what counts is that `EnsureFresh` gives the entry's
back before it asks for `persistMu`.

`SelectTruthful` rests on `Walked`: what is usable now lies between `steady` and
`ever`; a candidate is in `ever` and not excluded; of the entries before the
cursor, those in `steady` that are not excluded are candidates. When the walk
ends without a candidate the cursor is behind every entry. A restart ends all
calls, and a step of another goroutine changes neither the cursor nor the
candidates (`SelectSteps`).

*The handler.* `ChatInv` says per request how its place in the handler fits its
place in the pool (`Inside`: while `Select` runs, its excluded set is `tried` and
its candidates are outside it; so the account that comes back is new, and the
count goes up with the set), what the trail of its generations can be at each
stage (`Trail`), and what is left of a try (`Left`). `NoStorm` is inductive with
`Left`: whenever an account is added to the excluded set, or taken out for a wait
that adds a round, `Tries` of no account goes down; a stage between two
generations leaves room for those that can follow it. `ChatProof` shows that a step of one request keeps its own part
(`HandlerKeeps`) and does not touch what the parts of the others speak of
(`Others`, `Undisturbed`), so the number of requests does not matter.
`StepsArePool` then maps each step of the handler to a call, a step of the pool
or a stutter, and `CredentialsKept` follows without a second proof.

*The catalog.* `SnapshotChanges`: a step keeps the snapshot, brings a listing, or
installs the fallback where there was none. `RemembersListing` is inductive with the
types: the fallback can only take the place of a snapshot that is not good, and
then no fetch has brought a listing yet. The failed fetch that went by what `Get`
saw (the mutation `FetchFailedSeen`) keeps every snapshot good and breaks just
this property.

*The transports.* What a generation goes by depends on what others have left in
the cache, so the three properties are carried by what the cache may hold
(`CacheSound`: an entry was found for this very account or follows a refusal, and
fits the class and the configuration) and what a probe asks for (`ProbeSound`):
`TransportsInv`. `KeyOf` says that two models share a key only if both are tiers.
`RoutingPicks` maps a step of the composition to a step of `Transports` or a
stutter, `RoutingServesReady` to a step of `Readiness` or a stutter; `Accounted`
is what the first of them needs of the callers (an account is at hand whenever a
transport is picked).

`FallbacksDescend` is the argument behind `FallbackLearned`. Of one entry of the
cache, take the goroutines that probe for it, then whether it says `"bearer"`,
then the generations that have left by Bearer while it says `"cosy"`. Once the
entry is filled it is never emptied, so nobody begins to probe for it, and every
step shrinks this measure, in that order, or leaves it (`Descends`, `Stays`); a
fallback always shrinks it, and there are finitely many goroutines. A probe that
ends may write `"bearer"` over a `"cosy"` that a fallback has learned: this is
why probes come first. `Known`, that a generation's entry is filled, is what makes
it inductive.

*The processes.* `LossesExplained` rests on `Knows`: what a process is about to
write is as new as the file for every user whose entry nobody has written since
the process looked, except its own. It holds after `Upsert` because that reads
the file again (the mutation `UpsertLoaded`, which puts the account into the list
the command had loaded and touches no history, breaks it), and survives the renames
of others because these mark the entries they change in `stale`. `FileReadable`
rests on `FlushedFirst`: a process gets to its rename only by `Sync`.

*The router.* `RouterFollowsReference` is by induction over the text, with
`Cuts` as its invariant: after each byte, what was sent, followed by what the
reference makes of the text from the piece at hand on, is the reference's answer
for the whole, and what is held back is that piece as far as it has come.
`CutsStep` splits on whether the byte completes a tag, continues the beginning
of one or ends the attempt. The deltas do not enter: feeding two texts is feeding
their concatenation (`FeedAllConcat`), and what was sent before does not matter
(`FeedAllOut`). It needs of the table of tags only that a tag begins with `<`.

`Recursion` is what this stands on. The library's induction theorems take a
predicate as a parameter, which the provers cannot instantiate; with a set in
the predicate's place (`Induction`, `SequenceInduction`, from the well-foundedness
of the numbers) they can be cited. `Existence` gives the functions that the model
defines by recursion; `FlattenIs` does it for the community modules' `FlattenSeq`.

*The stream.* Four invariants, of which the last two use those before them. `Ending`:
no `[DONE]` is written before relay returns, and when it returns the last event
is one, unless the client has left. `Types`: the router holds back nothing or the
beginning of a tag. `Told`: while a response is streamed, `saw` is set exactly
when the client has its role, some text or a part of a tool call; an error is called
partial exactly then. `Whole`: the lines read so far are what the router has been
fed and the accumulator has put together, followed by the value that is not
complete yet (`Behind`); a value that another one has garbled is one that the
upstream has interrupted (`Interrupted`), of which nothing is claimed. So at `[DONE]`, when nothing is left over and the router is flushed, the
text is `Routed` of all lines by `RouterFollowsReference`. For the tool calls
`CallsConcat` says that the pieces of a call in two runs of fragments are those of
the first and then those of the second, so adding a delta's fragments to the calls
put together is putting all of them together (`AddTogether`).

Assumptions that say something of the code: `TagTable` (a tag begins with `<`
and is not empty), `DeltaTypes` (a delta is a role or none, two texts and fragments
with an index each), `MarkedErrors` (no network error has the queue's marker), `RouterTiers` and `Regions`
(`Prime`'s empty key is no model; Bearer is there for some accounts), `Commands`
(a process runs one command), `CooldownPeriods` (the handler's cooldowns are
among the pool's), `RetryConfig` (a positive jitter, see above), `RoundRobin`,
`PoolCalls`. Bounds such as `MaxGen` and `RRWrap` are constants of the theorems,
so they hold for any bound.

Only model-checked: the liveness properties (`OutOfServiceEnds`,
`EveryRequestAnswered`, `CallsReturn`, `StreamEnds`, `LoginEnds`,
`FallbackLearned`), since the prover does not handle fairness or ENABLED, and
`FallbackLearned` would take an induction along the behaviour; and `TornAtTags`,
which counts characters in the reference's cuts. `WaitsEnd` and
`FallbacksDescend` prove of two of them what a single step can show. The four
runs that expect a violation have nothing to prove.

## 5. Not modelled

COSY signing, encodings, the HTTP client, configuration and the request bodies
are functions of their input without shared state. Quota and userinfo calls are
single requests; that `ParseExpiry` guesses the unit of an expiry from its size
is arithmetic on one number of the upstream's. See the components of
`PROJECT.json` for what is left out of a modelled part.

## 6. Plan

Done: `Pool`, `Chat`, `Catalog`, `Readiness`, `Transports`, `Routing`, `Stream`,
`Processes`, with the proofs above.

Next, in this order:

1. *Proofs*: the pool as an implementation of a one-step `EnsureFresh`; the
   descent behind `EveryRequestAnswered` (`tried` grows or a budget shrinks), as
   `FallbacksDescend` is for `FallbackLearned`; that `Processes` with one process
   is the file of `Pool`.
2. *Stream*: finish reasons, and the order of the held-back text; the proof of
   `TornAtTags`.
3. *Composition*: `Chat` with `Routing`, so that `FindModel`'s outcomes are those
   of another account's listing; `Processes` with the goroutines of `Pool` inside
   `serve`.
