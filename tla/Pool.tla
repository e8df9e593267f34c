-------------------------------- MODULE Pool --------------------------------
(***************************************************************************)
(* The account pool of internal/pool/pool.go: the entries and their        *)
(* mutexes, the round-robin counter, the credential refresh and the write  *)
(* of the credentials file, called by several request goroutines at once.  *)
(*                                                                         *)
(* Accounts are 1..N: Pool.entries is sorted by account ID and every loop  *)
(* over it runs in that order.  A credential is its generation, a number   *)
(* that the upstream increases with every refresh it answers; an older     *)
(* generation is a refresh token the upstream has already replaced.        *)
(*                                                                         *)
(* Times are relative: a deadline is the number of ticks left, Tick lowers *)
(* it, and -1 means that time.Now().After(deadline) is true.               *)
(***************************************************************************)
EXTENDS Integers, FiniteSets

CONSTANTS
  N,                \* number of accounts in the pool
  Threads,          \* goroutines that call the pool
  Free,             \* the owner of a mutex nobody holds
  Sessions,         \* first hash bytes of the session keys in use
  NoSession,        \* the empty session key
  Ops,              \* the operations the callers of this instance use
  MaxGen,           \* bound: refreshes per account
  RRWrap,           \* bound: the round-robin counter, a multiple of 1..N
  Life,             \* ticks from a refresh to the next refresh window
  Cooldowns,        \* durations passed to MarkCooldown
  DefaultCooldown,  \* what MarkCooldown makes of a duration <= 0
  DisabledRecovery, \* disabledRecovery
  HasStore,         \* Pool.store # nil
  HasRefresher      \* Pool.refresh # nil

Accounts == 1..N
Gens     == 0..MaxGen
NoneSaved == [a \in Accounts |-> 0]
Zero     == -2      \* time.Time{}: IsZero, and long past

ASSUME PoolSize        == N \in Nat \ {0}
ASSUME ThreadOwner     == Free \notin Threads
ASSUME GenBound        == MaxGen \in Nat /\ Life \in Nat
ASSUME SessionBytes    == Sessions \subseteq 0..255 /\ NoSession \notin 0..255
ASSUME RecoveryPeriods == /\ DisabledRecovery \in Nat /\ DefaultCooldown \in Nat \ {0}
                          /\ Cooldowns \subseteq Int
ASSUME RoundRobin      == RRWrap \in Nat \ {0} /\ \A k \in Accounts : RRWrap % k = 0
ASSUME PoolOptions     == HasStore \in BOOLEAN /\ HasRefresher \in BOOLEAN

VARIABLES
  state,            \* Entry.state
  cooldownUntil,    \* Entry.cooldownUntil, as ticks left
  disabledUntil,    \* Entry.disabledUntil, as ticks left
  account,          \* Entry.Account: the generation held in memory
  ttl,              \* ticks until Entry.Account enters its refresh window
  mu,               \* Entry.mu: who holds it across a call to the upstream
  persistMu,        \* Pool.persistMu
  rr,               \* Pool.rr, modulo RRWrap
  disk,             \* generations in the credentials file
  issued,           \* external: the latest generation the upstream issued
  lost,             \* history: accounts whose latest generation was lost
  pc,               \* per goroutine: where it is inside a pool call
  entry,            \* per goroutine: the entry passed in, or selected
  force,            \* per goroutine: EnsureFresh's force
  session,          \* per goroutine: Select's session
  excluded,         \* per goroutine: Select's excluded
  cursor,           \* per goroutine: loop position over Pool.entries
  cands,            \* per goroutine: Select's candidates
  saved,            \* per goroutine: EnsureFresh's accounts
  cred,             \* per goroutine: account sent to, or returned by, a call
  ret               \* per goroutine: how its last pool call ended

health == <<state, cooldownUntil, disabledUntil>>
creds  == <<account, ttl, issued, lost>>
scan   == <<session, excluded, cands, rr>>
store  == <<persistMu, disk, saved>>
vars   == <<health, creds, scan, store, mu, pc, entry, force, cursor, cred, ret>>

States  == {"healthy", "cooldown", "disabled", "auth_error"}
Places  == {"idle", "select", "list", "recover", "lock", "refresh", "persist", "gather"}
Results == {"none", "ok", "noAccount", "refreshError", "storeError"}

-----------------------------------------------------------------------------
(* New: every account healthy, whatever the previous process knew of it.   *)

Init ==
  /\ state = [a \in Accounts |-> "healthy"]
  /\ cooldownUntil = [a \in Accounts |-> Zero]
  /\ disabledUntil = [a \in Accounts |-> Zero]
  /\ account = [a \in Accounts |-> 0]
  /\ ttl \in [Accounts -> {0, Life}]
  /\ mu = [a \in Accounts |-> Free]
  /\ persistMu = Free
  /\ rr = 0
  /\ disk = [a \in Accounts |-> 0]
  /\ issued = [a \in Accounts |-> 0]
  /\ lost = {}
  /\ pc = [t \in Threads |-> "idle"]
  /\ entry = [t \in Threads |-> 0]
  /\ force = [t \in Threads |-> FALSE]
  /\ session = [t \in Threads |-> NoSession]
  /\ excluded = [t \in Threads |-> {}]
  /\ cursor = [t \in Threads |-> 1]
  /\ cands = [t \in Threads |-> {}]
  /\ saved = [t \in Threads |-> NoneSaved]
  /\ cred = [t \in Threads |-> 0]
  /\ ret = [t \in Threads |-> "none"]

At(t, p)  == pc[t] = p
Goto(t, p) == pc' = [pc EXCEPT ![t] = p]
Return(t, r) ==     \* a call's local variables end with it
  /\ Goto(t, "idle")
  /\ ret' = [ret EXCEPT ![t] = r]
  /\ cursor' = [cursor EXCEPT ![t] = 1]

-----------------------------------------------------------------------------
(* Entry.Snapshot: under the entry's mutex, an elapsed cooldown or         *)
(* disabled period turns the entry healthy.                                *)

Elapsed(left) == left < 0

Recovered(a) ==
  \/ state[a] = "cooldown" /\ Elapsed(cooldownUntil[a])
  \/ state[a] = "disabled" /\ disabledUntil[a] # Zero /\ Elapsed(disabledUntil[a])

Usable(a) == state[a] = "healthy" \/ Recovered(a)

Snapshot(a) ==
  /\ mu[a] = Free
  /\ state' = [state EXCEPT ![a] = IF Recovered(a) THEN "healthy" ELSE @]
  /\ disabledUntil' = [disabledUntil EXCEPT
       ![a] = IF state[a] = "disabled" /\ Recovered(a) THEN Zero ELSE @]
  /\ UNCHANGED cooldownUntil

(* Select, and the read-only walks Available, Statuses and AdminEntries:   *)
(* one Snapshot at a time, so that the walk is no atomic view of the pool. *)

BeginSelect(t, s, x) ==
  /\ At(t, "idle") /\ Goto(t, "select")
  /\ session' = [session EXCEPT ![t] = s]
  /\ excluded' = [excluded EXCEPT ![t] = x]
  /\ cursor' = [cursor EXCEPT ![t] = 1]
  /\ cands' = [cands EXCEPT ![t] = {}]
  /\ UNCHANGED <<health, creds, store, rr, mu, entry, force, cred, ret>>

BeginList(t) ==
  /\ At(t, "idle") /\ Goto(t, "list")
  /\ cursor' = [cursor EXCEPT ![t] = 1]
  /\ UNCHANGED <<health, creds, scan, store, mu, entry, force, cred, ret>>

\* Mutation of ScanEntry: the excluded accounts are candidates too.
ScanEntryAll(t) ==
  /\ pc[t] \in {"select", "list"} /\ cursor[t] \in Accounts
  /\ Snapshot(cursor[t])
  /\ cands' = [cands EXCEPT ![t] =
       IF At(t, "select") /\ Usable(cursor[t]) THEN @ \cup {cursor[t]} ELSE @]
  /\ cursor' = [cursor EXCEPT ![t] = @ + 1]
  /\ UNCHANGED <<creds, store, session, excluded, rr, mu, pc, entry, force, cred, ret>>

ScanEntry(t) ==
  /\ pc[t] \in {"select", "list"} /\ cursor[t] \in Accounts
  /\ Snapshot(cursor[t])
  /\ cands' = [cands EXCEPT ![t] =
       IF At(t, "select") /\ Usable(cursor[t]) /\ cursor[t] \notin excluded[t]
       THEN @ \cup {cursor[t]} ELSE @]
  /\ cursor' = [cursor EXCEPT ![t] = @ + 1]
  /\ UNCHANGED <<creds, store, session, excluded, rr, mu, pc, entry, force, cred, ret>>

Pick(t) ==
  /\ At(t, "select") /\ cursor[t] = N + 1
  /\ \E a \in cands[t] :       \* candidates[idx] has idx candidates before it
       /\ Cardinality({b \in cands[t] : b < a}) =
            (IF session[t] = NoSession THEN rr ELSE session[t]) % Cardinality(cands[t])
       /\ entry' = [entry EXCEPT ![t] = a]
  /\ rr' = IF session[t] = NoSession THEN (rr + 1) % RRWrap ELSE rr
  /\ cands' = [cands EXCEPT ![t] = {}]
  /\ excluded' = [excluded EXCEPT ![t] = {}]
  /\ session' = [session EXCEPT ![t] = NoSession]
  /\ Return(t, "ok")
  /\ UNCHANGED <<health, creds, store, mu, force, cred>>

NoCandidate(t) ==
  /\ At(t, "select") /\ cursor[t] = N + 1 /\ cands[t] = {}
  /\ entry' = [entry EXCEPT ![t] = 0]
  /\ excluded' = [excluded EXCEPT ![t] = {}]
  /\ session' = [session EXCEPT ![t] = NoSession]
  /\ Return(t, "noAccount")
  /\ UNCHANGED <<health, creds, cands, rr, store, mu, force, cred>>

\* The end of a walk that answers nothing, Recover's among them.
EndWalk(t) ==
  /\ pc[t] \in {"list", "recover"} /\ cursor[t] = N + 1
  /\ Return(t, "ok")
  /\ UNCHANGED <<health, creds, scan, store, mu, entry, force, cred>>

-----------------------------------------------------------------------------
(* EnsureFresh: the entry's mutex is held across the call to the upstream, *)
(* and given back before persistMu is asked for.                           *)

BeginEnsureFresh(t, a, f) ==
  /\ At(t, "idle") /\ Goto(t, "lock")
  /\ entry' = [entry EXCEPT ![t] = a]
  /\ force' = [force EXCEPT ![t] = f]
  /\ UNCHANGED <<health, creds, scan, store, mu, cursor, cred, ret>>

NeedsRefresh(t) == force[t] \/ ttl[entry[t]] = 0

StillFresh(t) ==
  /\ At(t, "lock") /\ mu[entry[t]] = Free /\ ~NeedsRefresh(t)
  /\ cred' = [cred EXCEPT ![t] = account[entry[t]]]
  /\ Return(t, "ok")
  /\ UNCHANGED <<health, creds, scan, store, mu, entry, force>>

NoRefresher(t) ==
  /\ At(t, "lock") /\ mu[entry[t]] = Free /\ NeedsRefresh(t) /\ ~HasRefresher
  /\ cred' = [cred EXCEPT ![t] = account[entry[t]]]
  /\ Return(t, "refreshError")
  /\ UNCHANGED <<health, creds, scan, store, mu, entry, force>>

\* Mutation of StartRefresh: the mutex is given back for the call to the upstream.
StartRefreshUnlocked(t) ==
  /\ At(t, "lock") /\ mu[entry[t]] = Free /\ NeedsRefresh(t) /\ HasRefresher
  /\ cred' = [cred EXCEPT ![t] = account[entry[t]]]
  /\ Goto(t, "refresh")
  /\ UNCHANGED <<health, creds, scan, store, mu, entry, force, cursor, ret>>

StartRefresh(t) ==
  /\ At(t, "lock") /\ mu[entry[t]] = Free /\ NeedsRefresh(t) /\ HasRefresher
  /\ mu' = [mu EXCEPT ![entry[t]] = t]
  /\ cred' = [cred EXCEPT ![t] = account[entry[t]]]
  /\ Goto(t, "refresh")
  /\ UNCHANGED <<health, creds, scan, store, entry, force, cursor, ret>>

\* External: the upstream answers a refresh token it has not replaced yet.
Answered(t) == cred[t] = issued[entry[t]] /\ issued[entry[t]] < MaxGen

\* Mutation of RefreshOK: the mutex is kept until the file is written.
RefreshOKHolding(t) ==
  /\ At(t, "refresh") /\ Answered(t)
  /\ issued' = [issued EXCEPT ![entry[t]] = @ + 1]
  /\ account' = [account EXCEPT ![entry[t]] = issued[entry[t]] + 1]
  /\ cred' = [cred EXCEPT ![t] = issued[entry[t]] + 1]
  /\ ttl' = [ttl EXCEPT ![entry[t]] = Life]
  /\ state' = [state EXCEPT ![entry[t]] = "healthy"]
  /\ Goto(t, "persist")
  /\ UNCHANGED <<mu, ret, cursor, lost, cooldownUntil, disabledUntil, scan, store, entry, force>>

RefreshOK(t) ==
  /\ At(t, "refresh") /\ Answered(t)
  /\ issued' = [issued EXCEPT ![entry[t]] = @ + 1]
  /\ account' = [account EXCEPT ![entry[t]] = issued[entry[t]] + 1]
  /\ cred' = [cred EXCEPT ![t] = issued[entry[t]] + 1]
  /\ ttl' = [ttl EXCEPT ![entry[t]] = Life]
  /\ state' = [state EXCEPT ![entry[t]] = "healthy"]
  /\ mu' = [mu EXCEPT ![entry[t]] = Free]
  /\ IF HasStore THEN Goto(t, "persist") /\ UNCHANGED <<ret, cursor>> ELSE Return(t, "ok")
  /\ UNCHANGED <<lost, cooldownUntil, disabledUntil, scan, store, entry, force>>

\* The upstream refuses, cannot be reached, or the context ends first.
RefreshFailed(t) ==
  /\ At(t, "refresh")
  /\ mu' = [mu EXCEPT ![entry[t]] = Free]
  /\ Return(t, "refreshError")
  /\ UNCHANGED <<health, creds, scan, store, entry, force, cred>>

\* The upstream replaces the token, and its answer never reaches the pool.
RefreshLost(t) ==
  /\ At(t, "refresh") /\ Answered(t)
  /\ issued' = [issued EXCEPT ![entry[t]] = @ + 1]
  /\ lost' = lost \cup {entry[t]}
  /\ mu' = [mu EXCEPT ![entry[t]] = Free]
  /\ Return(t, "refreshError")
  /\ UNCHANGED <<health, account, ttl, scan, store, entry, force, cred>>

\* Mutation of LockPersist: the accounts are collected before persistMu is held.
LockPersistNoWait(t) ==
  /\ At(t, "persist")
  /\ persistMu' = t
  /\ cursor' = [cursor EXCEPT ![t] = 1]
  /\ Goto(t, "gather")
  /\ UNCHANGED <<health, creds, scan, disk, saved, mu, entry, force, cred, ret>>

LockPersist(t) ==
  /\ At(t, "persist") /\ persistMu = Free
  /\ persistMu' = t
  /\ cursor' = [cursor EXCEPT ![t] = 1]
  /\ Goto(t, "gather")
  /\ UNCHANGED <<health, creds, scan, disk, saved, mu, entry, force, cred, ret>>

GatherEntry(t) ==
  /\ At(t, "gather") /\ cursor[t] \in Accounts /\ mu[cursor[t]] = Free
  /\ saved' = [saved EXCEPT ![t][cursor[t]] = account[cursor[t]]]
  /\ cursor' = [cursor EXCEPT ![t] = @ + 1]
  /\ UNCHANGED <<health, creds, scan, persistMu, disk, mu, pc, entry, force, cred, ret>>

\* Mutation of Replace: the error of the write is dropped.
ReplaceUnchecked(t, w, ok) ==
  /\ At(t, "gather") /\ cursor[t] = N + 1
  /\ disk' = IF w THEN saved[t] ELSE disk
  /\ persistMu' = Free
  /\ saved' = [saved EXCEPT ![t] = NoneSaved]
  /\ Return(t, "ok")
  /\ UNCHANGED <<health, creds, scan, mu, entry, force, cred>>

\* Store.Replace; w: the file was renamed into place, ok: no step failed.
\* The chmod after the rename may fail, so w and ~ok is possible.
Replace(t, w, ok) ==
  /\ At(t, "gather") /\ cursor[t] = N + 1
  /\ disk' = IF w THEN saved[t] ELSE disk
  /\ persistMu' = Free
  /\ saved' = [saved EXCEPT ![t] = NoneSaved]
  /\ Return(t, IF ok THEN "ok" ELSE "storeError")
  /\ UNCHANGED <<health, creds, scan, mu, entry, force, cred>>

-----------------------------------------------------------------------------
(* The Mark operations and Recover: they overwrite the state, whatever it  *)
(* is, once they get the entry's mutex.                                    *)

MarkAuthError(t, a) ==
  /\ At(t, "idle") /\ mu[a] = Free
  /\ state' = [state EXCEPT ![a] = "auth_error"]
  /\ UNCHANGED <<cooldownUntil, disabledUntil, creds, scan, store, mu,
                 pc, entry, force, cursor, cred, ret>>

\* Mutation of MarkDisabled: no time of recovery is set.
MarkDisabledForGood(t, a) ==
  /\ At(t, "idle") /\ mu[a] = Free
  /\ state' = [state EXCEPT ![a] = "disabled"]
  /\ UNCHANGED <<cooldownUntil, disabledUntil, creds, scan, store, mu,
                 pc, entry, force, cursor, cred, ret>>

MarkDisabled(t, a) ==
  /\ At(t, "idle") /\ mu[a] = Free
  /\ state' = [state EXCEPT ![a] = "disabled"]
  /\ disabledUntil' = [disabledUntil EXCEPT ![a] = DisabledRecovery]
  /\ UNCHANGED <<cooldownUntil, creds, scan, store, mu,
                 pc, entry, force, cursor, cred, ret>>

MarkCooldown(t, a, d) ==
  /\ At(t, "idle") /\ mu[a] = Free
  /\ state' = [state EXCEPT ![a] = "cooldown"]
  /\ cooldownUntil' = [cooldownUntil EXCEPT ![a] = IF d <= 0 THEN DefaultCooldown ELSE d]
  /\ UNCHANGED <<disabledUntil, creds, scan, store, mu,
                 pc, entry, force, cursor, cred, ret>>

\* Recover looks for its account under one entry's mutex after the other, and
\* goes on to the end of the list when it has found it.
BeginRecover(t, a) ==
  /\ At(t, "idle") /\ Goto(t, "recover")
  /\ entry' = [entry EXCEPT ![t] = a]
  /\ cursor' = [cursor EXCEPT ![t] = 1]
  /\ UNCHANGED <<health, creds, scan, store, mu, force, cred, ret>>

RecoverEntry(t) ==
  /\ At(t, "recover") /\ cursor[t] \in Accounts /\ mu[cursor[t]] = Free
  /\ IF cursor[t] = entry[t]
     THEN /\ state' = [state EXCEPT ![cursor[t]] = "healthy"]
          /\ cooldownUntil' = [cooldownUntil EXCEPT ![cursor[t]] = Zero]
     ELSE UNCHANGED <<state, cooldownUntil>>
  /\ cursor' = [cursor EXCEPT ![t] = @ + 1]
  /\ UNCHANGED <<disabledUntil, creds, scan, store, mu, pc, entry, force, cred, ret>>

-----------------------------------------------------------------------------
(* The clock, and the end of the process followed by a new one that loads  *)
(* the credentials file.  A token older than the one in memory comes back  *)
(* with whatever lifetime it has left.                                     *)

Later(left) == IF left > -1 THEN left - 1 ELSE left

Tick ==
  /\ cooldownUntil' = [a \in Accounts |-> Later(cooldownUntil[a])]
  /\ disabledUntil' = [a \in Accounts |-> Later(disabledUntil[a])]
  /\ ttl' = [a \in Accounts |-> IF ttl[a] > 0 THEN ttl[a] - 1 ELSE 0]
  /\ UNCHANGED <<state, account, issued, lost, scan, store, mu,
                 pc, entry, force, cursor, cred, ret>>

Restart ==
  /\ state' = [a \in Accounts |-> "healthy"]
  /\ cooldownUntil' = [a \in Accounts |-> Zero]
  /\ disabledUntil' = [a \in Accounts |-> Zero]
  /\ account' = disk
  /\ lost' = lost \cup {a \in Accounts : disk[a] # account[a]}
  /\ \E r \in [Accounts -> 0..Life] :
       ttl' = [a \in Accounts |-> IF disk[a] = account[a] THEN ttl[a] ELSE r[a]]
  /\ mu' = [a \in Accounts |-> Free]
  /\ persistMu' = Free
  /\ rr' = 0
  /\ pc' = [t \in Threads |-> "idle"]
  /\ ret' = [t \in Threads |-> "none"]
  /\ entry' = [t \in Threads |-> 0]
  /\ cursor' = [t \in Threads |-> 1]
  /\ cands' = [t \in Threads |-> {}]
  /\ saved' = [t \in Threads |-> NoneSaved]
  /\ UNCHANGED <<issued, disk, session, excluded, force, cred>>

-----------------------------------------------------------------------------
Call(t) ==
  \/ "Select" \in Ops /\ \E s \in Sessions \cup {NoSession}, x \in SUBSET Accounts : BeginSelect(t, s, x)
  \/ "List" \in Ops /\ BeginList(t)
  \/ \E a \in Accounts :
       \/ "EnsureFresh" \in Ops /\ \E f \in BOOLEAN : BeginEnsureFresh(t, a, f)
       \/ "MarkAuthError" \in Ops /\ MarkAuthError(t, a)
       \/ "MarkDisabled" \in Ops /\ MarkDisabled(t, a)
       \/ "MarkCooldown" \in Ops /\ \E d \in Cooldowns : MarkCooldown(t, a, d)
       \/ "Recover" \in Ops /\ BeginRecover(t, a)

Step(t) ==
  \/ ScanEntry(t) \/ RecoverEntry(t) \/ Pick(t) \/ NoCandidate(t) \/ EndWalk(t)
  \/ StillFresh(t) \/ NoRefresher(t) \/ StartRefresh(t)
  \/ RefreshOK(t) \/ RefreshFailed(t) \/ RefreshLost(t)
  \/ LockPersist(t) \/ GatherEntry(t)
  \/ Replace(t, TRUE, TRUE) \/ Replace(t, TRUE, FALSE) \/ Replace(t, FALSE, FALSE)

Next ==
  \/ \E t \in Threads : Call(t) \/ Step(t)
  \/ "Tick" \in Ops /\ Tick
  \/ "Restart" \in Ops /\ Restart

Spec == Init /\ [][Next]_vars

\* A goroutine inside a call keeps running: the walk, the mutexes (which hand
\* over to a waiter that starves), and the upstream call, whose context ends.
Fairness == \A t \in Threads : SF_vars(Step(t))

FairSpec == Spec /\ Fairness

-----------------------------------------------------------------------------
TypeOK ==
  /\ state \in [Accounts -> States]
  /\ cooldownUntil \in [Accounts -> Int] /\ disabledUntil \in [Accounts -> Int]
  /\ account \in [Accounts -> Gens] /\ issued \in [Accounts -> Gens]
  /\ disk \in [Accounts -> Gens]
  /\ ttl \in [Accounts -> 0..Life]
  /\ lost \subseteq Accounts
  /\ mu \in [Accounts -> Threads \cup {Free}]
  /\ persistMu \in Threads \cup {Free}
  /\ rr \in 0..RRWrap - 1
  /\ pc \in [Threads -> Places]
  /\ entry \in [Threads -> 0..N]
  /\ force \in [Threads -> BOOLEAN]
  /\ session \in [Threads -> Sessions \cup {NoSession}]
  /\ excluded \in [Threads -> SUBSET Accounts]
  /\ cursor \in [Threads -> 1..N + 1]
  /\ cands \in [Threads -> SUBSET Accounts]
  /\ saved \in [Threads -> [Accounts -> Gens]]
  /\ cred \in [Threads -> Gens]
  /\ ret \in [Threads -> Results]

(* What the pool promises.                                                 *)

\* The credentials file never goes back to an older credential of any account,
\* whatever refreshes, restarts and failing writes overlap: EnsureFresh collects
\* the accounts it writes only once it holds persistMu.
DiskNeverRegresses == [][\A a \in Accounts : disk'[a] >= disk[a]]_disk

\* A refresh that EnsureFresh reports as done is in the file when it returns,
\* also when a later refresh of the same account has overtaken it.
SavedBeforeReturn ==
  [][\A t \in Threads : At(t, "gather") /\ pc'[t] = "idle" /\ ret'[t] = "ok"
       => disk'[entry[t]] >= cred[t]]_vars

\* No refresh token is sent that the upstream has already replaced, unless the
\* replacement was lost with an answer or with the process: the entry's mutex
\* is held from reading the account to storing the answer.
SpentTokenNotResent ==
  \A t \in Threads : At(t, "refresh") =>
    cred[t] = issued[entry[t]] \/ entry[t] \in lost

\* Goroutines that find the same token in its refresh window send one refresh:
\* whoever gets the mutex later sees the new expiry (the single flight of
\* pool_test.go, for every interleaving).
SingleFlight ==
  \A t \in Threads : At(t, "refresh") /\ ~force[t] => ttl[entry[t]] = 0

-----------------------------------------------------------------------------
(* The inductive invariant behind them.                                    *)

Calling(t) == pc[t] \in {"lock", "refresh", "persist", "gather"}
Saving(t)  == pc[t] \in {"persist", "gather"}

\* Who holds what: an entry is held for one refresh of the account read under
\* it, and persistMu for one write.
Held ==
  \A t \in Threads :
    /\ Calling(t) => entry[t] \in Accounts
    /\ At(t, "refresh") => mu[entry[t]] = t /\ cred[t] = account[entry[t]]
    /\ At(t, "gather") => persistMu = t

\* A generation travels from the upstream to the pool to the file.
Ordered ==
  \A a \in Accounts :
    /\ disk[a] <= account[a] /\ account[a] <= issued[a]
    /\ account[a] = issued[a] \/ a \in lost

\* What a goroutine is about to write: no older than the file, nor than the
\* credential it returns.
Gathered ==
  \A t \in Threads :
    /\ Saving(t) => cred[t] <= account[entry[t]]
    /\ At(t, "gather") => \A a \in Accounts : a < cursor[t] =>
         /\ disk[a] <= saved[t][a] /\ saved[t][a] <= account[a]
         /\ a = entry[t] => cred[t] <= saved[t][a]

\* And of what is held, who holds it: the two mutexes are never held together.
Owned ==
  /\ \A a \in Accounts : mu[a] # Free => At(mu[a], "refresh") /\ entry[mu[a]] = a
  /\ persistMu # Free => At(persistMu, "gather")

PoolInv == TypeOK /\ Held /\ Owned /\ Ordered /\ Gathered /\ SingleFlight

-----------------------------------------------------------------------------
\* Every pool call ends: no goroutine holds an entry's mutex while it waits for
\* persistMu, which is held while waiting for each entry's mutex in turn.
CallsReturn == \A t \in Threads : pc[t] # "idle" ~> pc[t] = "idle"
=============================================================================
