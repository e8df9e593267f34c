------------------------------ MODULE PoolProof ------------------------------
(***************************************************************************)
(* Proofs about Pool, for every number of accounts and goroutines and      *)
(* every bound: the type invariant, the inductive invariant PoolInv and    *)
(* what follows from it about refresh tokens and the credentials file; and *)
(* what Select answers, with the history of PoolSelect.                    *)
(***************************************************************************)
EXTENDS PoolSelect, TLAPS

USE DEF health, creds, scan, store, At, Goto, Return

(* The initial states are well typed (New in pool.go).                     *)
LEMMA InitTyped == Init => TypeOK
<1> SUFFICES ASSUME Init PROVE TypeOK
  OBVIOUS
<1>1. 0 \in Gens /\ 0 \in 0..N /\ 1 \in 1..N + 1 /\ 0 \in 0..RRWrap - 1
  BY PoolSize, GenBound, RoundRobin DEF Gens
<1>2. ttl \in [Accounts -> 0..Life]
  <2>1. {0, Life} \subseteq 0..Life
    BY GenBound
  <2> QED BY <2>1 DEF Init
<1>3. saved \in [Threads -> [Accounts -> Gens]]
  BY <1>1 DEF Init, NoneSaved
<1> QED BY <1>1, <1>2, <1>3 DEF Init, TypeOK, States, Places, Results, Zero

(* Entry.Snapshot and the walks of Select and the status endpoints keep    *)
(* the types.                                                              *)
LEMMA WalksTyped ==
  ASSUME TypeOK, NEW t \in Threads,
         \/ \E s \in Sessions \cup {NoSession}, x \in SUBSET Accounts : BeginSelect(t, s, x)
         \/ BeginList(t) \/ ScanEntry(t) \/ RecoverEntry(t) \/ Pick(t) \/ NoCandidate(t) \/ EndWalk(t)
  PROVE  TypeOK'
<1>1. ASSUME NEW s \in Sessions \cup {NoSession}, NEW x \in SUBSET Accounts, BeginSelect(t, s, x)
      PROVE  TypeOK'
  BY <1>1, PoolSize DEF BeginSelect, TypeOK, Places
<1>2. CASE BeginList(t)
  BY <1>2, PoolSize DEF BeginList, TypeOK, Places
<1>3. CASE ScanEntry(t)
  <2>1. cursor' \in [Threads -> 1..N + 1]
    <3>1. cursor[t] \in 1..N
      BY <1>3 DEF ScanEntry, Accounts
    <3>2. cursor[t] + 1 \in 1..N + 1
      BY <3>1, PoolSize
    <3> QED BY <1>3, <3>2 DEF ScanEntry, TypeOK
  <2>2. cands' \in [Threads -> SUBSET Accounts]
    BY <1>3 DEF ScanEntry, TypeOK
  <2>3. /\ state' \in [Accounts -> States]
        /\ cooldownUntil' \in [Accounts -> Int] /\ disabledUntil' \in [Accounts -> Int]
    BY <1>3 DEF ScanEntry, Snapshot, TypeOK, States, Zero
  <2> QED BY <1>3, <2>1, <2>2, <2>3 DEF ScanEntry, TypeOK
<1>4. CASE Pick(t)
  <2>1. rr' \in 0..RRWrap - 1
    <3>1. \A n, w \in Nat : w # 0 => n % w \in 0..w - 1
      OBVIOUS
    <3>2. rr + 1 \in Nat
      BY RoundRobin DEF TypeOK
    <3> QED BY <1>4, <3>1, <3>2, RoundRobin DEF Pick, TypeOK
  <2>2. cursor' \in [Threads -> 1..N + 1]
    BY <1>4, PoolSize DEF Pick, TypeOK
  <2>3. /\ entry' \in [Threads -> 0..N] /\ cands' \in [Threads -> SUBSET Accounts]
        /\ excluded' \in [Threads -> SUBSET Accounts]
    <3>1. PICK a \in cands[t] : entry' = [entry EXCEPT ![t] = a]
      BY <1>4 DEF Pick
    <3>2. a \in 0..N
      BY <3>1, PoolSize DEF TypeOK, Accounts
    <3> QED BY <1>4, <3>1, <3>2 DEF Pick, TypeOK
  <2> QED BY <1>4, <2>1, <2>2, <2>3 DEF Pick, TypeOK, Places, Results
<1>5. CASE NoCandidate(t)
  BY <1>5, PoolSize DEF NoCandidate, TypeOK, Places, Results
<1>6. CASE EndWalk(t)
  BY <1>6, PoolSize DEF EndWalk, TypeOK, Places, Results
<1>7. CASE RecoverEntry(t)
  <2>1. cursor[t] + 1 \in 1..N + 1
    BY <1>7, PoolSize DEF RecoverEntry, Accounts
  <2>2. /\ state' \in [Accounts -> States] /\ cooldownUntil' \in [Accounts -> Int]
        /\ cursor' \in [Threads -> 1..N + 1]
    BY <1>7, <2>1 DEF RecoverEntry, TypeOK, States, Zero
  <2> QED BY <1>7, <2>2 DEF RecoverEntry, TypeOK
<1> QED BY <1>1, <1>2, <1>3, <1>4, <1>5, <1>6, <1>7

(* EnsureFresh up to the upstream's answer keeps the types.                *)
LEMMA RefreshTyped ==
  ASSUME TypeOK, NEW t \in Threads,
         \/ \E a \in Accounts, f \in BOOLEAN : BeginEnsureFresh(t, a, f)
         \/ StillFresh(t) \/ NoRefresher(t) \/ StartRefresh(t)
         \/ RefreshOK(t) \/ RefreshFailed(t) \/ RefreshLost(t),
         Calling(t) => entry[t] \in Accounts
  PROVE  TypeOK'
<1>1. ASSUME NEW a \in Accounts, NEW f \in BOOLEAN, BeginEnsureFresh(t, a, f)
      PROVE  TypeOK'
  <2>1. a \in 0..N
    BY PoolSize DEF Accounts
  <2> QED BY <1>1, <2>1 DEF BeginEnsureFresh, TypeOK, Places
<1>2. 1 \in 1..N + 1 /\ Life \in 0..Life
  BY PoolSize, GenBound
<1>3. At(t, "refresh") /\ Answered(t) => issued[entry[t]] + 1 \in Gens
  BY GenBound DEF Answered, TypeOK, Gens, Calling
<1>4. CASE StillFresh(t)
  BY <1>2, <1>4 DEF StillFresh, TypeOK, Places, Results, Calling
<1>5. CASE NoRefresher(t)
  BY <1>2, <1>5 DEF NoRefresher, TypeOK, Places, Results, Calling
<1>6. CASE StartRefresh(t)
  BY <1>2, <1>6 DEF StartRefresh, TypeOK, Places, Calling
<1>7. CASE RefreshOK(t)
  BY <1>2, <1>3, <1>7 DEF RefreshOK, TypeOK, Places, Results, States
<1>8. CASE RefreshFailed(t)
  BY <1>2, <1>8 DEF RefreshFailed, TypeOK, Places, Results
<1>9. CASE RefreshLost(t)
  BY <1>2, <1>3, <1>9 DEF RefreshLost, TypeOK, Places, Results, Calling
<1> QED BY <1>1, <1>4, <1>5, <1>6, <1>7, <1>8, <1>9

(* Writing the file, marking an account, the clock and a restart keep the  *)
(* types.                                                                  *)
LEMMA RestTyped ==
  ASSUME TypeOK, NEW t \in Threads, NEW a \in Accounts,
         \/ LockPersist(t) \/ GatherEntry(t)
         \/ \E w, ok \in BOOLEAN : Replace(t, w, ok)
         \/ MarkAuthError(t, a) \/ MarkDisabled(t, a)
         \/ \E d \in Cooldowns : MarkCooldown(t, a, d)
         \/ BeginRecover(t, a)
  PROVE  TypeOK'
<1>1. 1 \in 1..N + 1
  BY PoolSize
<1>2. CASE LockPersist(t)
  BY <1>1, <1>2 DEF LockPersist, TypeOK, Places
<1>3. CASE GatherEntry(t)
  <2>1. cursor[t] \in 1..N /\ cursor[t] + 1 \in 1..N + 1
    BY <1>3, PoolSize DEF GatherEntry, Accounts
  <2> QED BY <1>3, <2>1 DEF GatherEntry, TypeOK
<1>4. ASSUME NEW w \in BOOLEAN, NEW ok \in BOOLEAN, Replace(t, w, ok)
      PROVE  TypeOK'
  <2>1. NoneSaved \in [Accounts -> Gens]
    BY GenBound DEF NoneSaved, Gens
  <2> QED BY <1>1, <1>4, <2>1 DEF Replace, TypeOK, Places, Results
<1>5. CASE MarkAuthError(t, a)
  BY <1>5 DEF MarkAuthError, TypeOK, States
<1>6. CASE MarkDisabled(t, a)
  BY <1>6, RecoveryPeriods DEF MarkDisabled, TypeOK, States
<1>7. ASSUME NEW d \in Cooldowns, MarkCooldown(t, a, d)
      PROVE  TypeOK'
  BY <1>7, RecoveryPeriods DEF MarkCooldown, TypeOK, States
<1>8. CASE BeginRecover(t, a)
  <2>1. a \in 0..N
    BY PoolSize DEF Accounts
  <2> QED BY <1>1, <1>8, <2>1 DEF BeginRecover, TypeOK, Places
<1> QED BY <1>2, <1>3, <1>4, <1>5, <1>6, <1>7, <1>8

LEMMA ClockTyped == TypeOK /\ (Tick \/ Restart) => TypeOK'
<1> SUFFICES ASSUME TypeOK, Tick \/ Restart PROVE TypeOK'
  OBVIOUS
<1>1. CASE Tick
  <2>1. ttl' \in [Accounts -> 0..Life]
    BY <1>1, GenBound DEF Tick, TypeOK
  <2>2. cooldownUntil' \in [Accounts -> Int] /\ disabledUntil' \in [Accounts -> Int]
    BY <1>1 DEF Tick, TypeOK, Later
  <2> QED BY <1>1, <2>1, <2>2 DEF Tick, TypeOK
<1>2. CASE Restart
  <2>1. /\ 0 \in Gens /\ 0 \in 0..N /\ 1 \in 1..N + 1 /\ 0 \in 0..RRWrap - 1
    BY PoolSize, GenBound, RoundRobin DEF Gens
  <2>2. ttl' \in [Accounts -> 0..Life]
    BY <1>2 DEF Restart, TypeOK
  <2>3. saved' \in [Threads -> [Accounts -> Gens]]
    BY <1>2, <2>1 DEF Restart, NoneSaved
  <2>4. lost' \subseteq Accounts
    BY <1>2 DEF Restart, TypeOK
  <2> QED BY <1>2, <2>1, <2>2, <2>3, <2>4 DEF Restart, TypeOK, States, Places, Results, Zero
<1> QED BY <1>1, <1>2

LEMMA StepTyped ==
  ASSUME TypeOK, Held, Next
  PROVE  TypeOK'
<1>1. CASE Tick \/ Restart
  BY <1>1, ClockTyped
<1>2. ASSUME NEW t \in Threads, Call(t) PROVE TypeOK'
  <2>1. Calling(t) => entry[t] \in Accounts
    BY DEF Held
  <2>2. CASE \E s \in Sessions \cup {NoSession}, x \in SUBSET Accounts : BeginSelect(t, s, x)
    BY <2>2, WalksTyped
  <2>3. CASE BeginList(t)
    BY <2>3, WalksTyped
  <2>4. ASSUME NEW a \in Accounts, NEW f \in BOOLEAN, BeginEnsureFresh(t, a, f)
        PROVE  TypeOK'
    BY <2>1, <2>4, RefreshTyped
  <2>5. ASSUME NEW a \in Accounts,
               \/ MarkAuthError(t, a) \/ MarkDisabled(t, a) \/ BeginRecover(t, a)
               \/ \E d \in Cooldowns : MarkCooldown(t, a, d)
        PROVE  TypeOK'
    BY <2>5, RestTyped
  <2> QED BY <1>2, <2>2, <2>3, <2>4, <2>5 DEF Call
<1>3. ASSUME NEW t \in Threads, Step(t) PROVE TypeOK'
  <2>1. Calling(t) => entry[t] \in Accounts
    BY DEF Held
  <2>2. CASE ScanEntry(t) \/ RecoverEntry(t) \/ Pick(t) \/ NoCandidate(t) \/ EndWalk(t)
    BY <2>2, WalksTyped
  <2>3. CASE \/ StillFresh(t) \/ NoRefresher(t) \/ StartRefresh(t)
             \/ RefreshOK(t) \/ RefreshFailed(t) \/ RefreshLost(t)
    BY <2>1, <2>3, RefreshTyped
  <2>4. CASE \/ LockPersist(t) \/ GatherEntry(t)
             \/ \E w, ok \in BOOLEAN : Replace(t, w, ok)
    <3>1. 1 \in Accounts
      BY PoolSize DEF Accounts
    <3> QED BY <2>4, <3>1, RestTyped
  <2> QED BY <1>3, <2>2, <2>3, <2>4 DEF Step
<1> QED BY <1>1, <1>2, <1>3 DEF Next

-----------------------------------------------------------------------------
(* The rest of the inductive invariant.                                    *)

Travel == Held /\ Ordered /\ Gathered /\ SingleFlight

LEMMA InitTravels == Init => Travel
  BY GenBound DEF Init, Travel, Held, Ordered, Gathered, SingleFlight, Calling, Saving

(* The walks and the Mark operations move no credential and hold nothing.  *)
LEMMA WalksTravel ==
  ASSUME TypeOK, Travel, NEW t \in Threads,
         \/ \E s \in Sessions \cup {NoSession}, x \in SUBSET Accounts : BeginSelect(t, s, x)
         \/ BeginList(t) \/ ScanEntry(t) \/ RecoverEntry(t) \/ Pick(t) \/ NoCandidate(t) \/ EndWalk(t)
         \/ \E a \in Accounts :
              \/ MarkAuthError(t, a) \/ MarkDisabled(t, a) \/ BeginRecover(t, a)
              \/ \E d \in Cooldowns : MarkCooldown(t, a, d)
  PROVE  Travel'
<1>1. /\ pc[t] \in {"idle", "select", "list", "recover"} /\ pc'[t] \in {"idle", "select", "list", "recover"}
      /\ \A u \in Threads \ {t} : /\ pc'[u] = pc[u] /\ entry'[u] = entry[u]
                                  /\ cursor'[u] = cursor[u]
      /\ UNCHANGED <<creds, store, mu, force, cred>>
  BY DEF BeginSelect, BeginList, ScanEntry, RecoverEntry, Pick, NoCandidate, EndWalk, MarkAuthError,
         MarkDisabled, MarkCooldown, BeginRecover, TypeOK
<1>2. Held'
  BY <1>1 DEF Travel, Held, Calling
<1>3. Ordered'
  BY <1>1 DEF Travel, Ordered
<1>4. Gathered'
  BY <1>1 DEF Travel, Gathered, Saving
<1>5. SingleFlight'
  BY <1>1 DEF Travel, SingleFlight
<1> QED BY <1>2, <1>3, <1>4, <1>5 DEF Travel

(* EnsureFresh: the entry's mutex makes the account sent the account that  *)
(* the answer replaces.                                                    *)
LEMMA RefreshTravels ==
  ASSUME TypeOK, Travel, NEW t \in Threads,
         \/ \E a \in Accounts, f \in BOOLEAN : BeginEnsureFresh(t, a, f)
         \/ StillFresh(t) \/ NoRefresher(t) \/ StartRefresh(t)
         \/ RefreshOK(t) \/ RefreshFailed(t) \/ RefreshLost(t)
  PROVE  Travel'
<1>0. \A a \in Accounts : account[a] \in Int /\ disk[a] \in Int /\ issued[a] \in Int
  BY DEF TypeOK, Gens
<1>1. ASSUME NEW a \in Accounts, NEW f \in BOOLEAN, BeginEnsureFresh(t, a, f)
      PROVE  Travel'
  BY <1>1 DEF BeginEnsureFresh, TypeOK, Travel, Held, Ordered, Gathered, SingleFlight, Calling, Saving
<1>2. CASE StillFresh(t)
  BY <1>2 DEF StillFresh, TypeOK, Travel, Held, Ordered, Gathered, SingleFlight, Calling, Saving
<1>3. CASE NoRefresher(t)
  BY <1>3 DEF NoRefresher, TypeOK, Travel, Held, Ordered, Gathered, SingleFlight, Calling, Saving
<1>4. CASE StartRefresh(t)
  BY <1>4, ThreadOwner DEF StartRefresh, NeedsRefresh, TypeOK, Travel, Held, Ordered, Gathered, SingleFlight, Calling, Saving
<1>5. CASE RefreshOK(t)
  <2>1. entry[t] \in Accounts /\ mu[entry[t]] = t /\ cred[t] = account[entry[t]]
    BY <1>5 DEF RefreshOK, Travel, Held, Calling
  <2>2. account'[entry[t]] = issued[entry[t]] + 1 /\ issued'[entry[t]] = issued[entry[t]] + 1
    BY <1>5, <2>1 DEF RefreshOK, TypeOK
  <2>3. /\ \A a \in Accounts \ {entry[t]} : account'[a] = account[a] /\ issued'[a] = issued[a]
        /\ \A a \in Accounts \ {entry[t]} : mu'[a] = mu[a] /\ ttl'[a] = ttl[a]
        /\ disk' = disk /\ lost' = lost /\ saved' = saved /\ force' = force
    BY <1>5 DEF RefreshOK, TypeOK
  <2>4. \A a \in Accounts : account[a] <= account'[a]
    BY <1>0, <2>1, <2>2, <2>3 DEF Travel, Ordered
  <2>5. \A u \in Threads \ {t} : At(u, "refresh") => entry[u] # entry[t]
    BY <2>1 DEF Travel, Held
  <2>6. Held'
    BY <1>5, <2>1, <2>3, <2>5 DEF RefreshOK, TypeOK, Travel, Held, Calling
  <2>7. Ordered'
    BY <1>0, <2>1, <2>2, <2>3 DEF Travel, Ordered
  <2>8. Gathered'
    <3>1. /\ pc'[t] \in {"persist", "idle"} /\ cred'[t] = account'[entry[t]] /\ entry' = entry
          /\ \A u \in Threads \ {t} : /\ pc'[u] = pc[u] /\ cred'[u] = cred[u]
                                      /\ cursor'[u] = cursor[u]
      BY <1>5, <2>2 DEF RefreshOK, TypeOK
    <3>2. \A u \in Threads : cred[u] \in Int /\ \A a \in Accounts : saved[u][a] \in Int /\ account'[a] \in Int
      BY <1>0, <2>2, <2>3 DEF TypeOK, Gens
    <3>3. \A u \in Threads : Saving(u)' => cred'[u] <= account'[entry[u]]
      BY <1>0, <2>1, <2>4, <3>1, <3>2 DEF Travel, Held, Gathered, Saving, Calling
    <3>4. ASSUME NEW u \in Threads, pc'[u] = "gather", NEW a \in Accounts, a < cursor'[u]
          PROVE  /\ disk[a] <= saved[u][a] /\ saved[u][a] <= account'[a]
                 /\ a = entry[u] => cred'[u] <= saved[u][a]
      BY <1>0, <2>4, <3>1, <3>2, <3>4 DEF Travel, Gathered
    <3> QED BY <2>3, <3>1, <3>3, <3>4 DEF Gathered
  <2>9. SingleFlight'
    BY <1>5, <2>1, <2>3, <2>5 DEF RefreshOK, TypeOK, Travel, SingleFlight
  <2> QED BY <2>6, <2>7, <2>8, <2>9 DEF Travel
<1>6. CASE RefreshFailed(t)
  BY <1>6, ThreadOwner DEF RefreshFailed, TypeOK, Travel, Held, Ordered, Gathered, SingleFlight, Calling, Saving
<1>7. CASE RefreshLost(t)
  BY <1>0, <1>7, ThreadOwner DEF RefreshLost, Answered, TypeOK, Travel, Held, Ordered, Gathered, SingleFlight, Calling, Saving
<1> QED BY <1>1, <1>2, <1>3, <1>4, <1>5, <1>6, <1>7

(* The write of the file: persistMu makes what is collected at least as    *)
(* new as what the file holds, whoever wrote it.                           *)
LEMMA PersistTravels ==
  ASSUME TypeOK, Travel, NEW t \in Threads,
         \/ LockPersist(t) \/ GatherEntry(t)
         \/ \E w, ok \in BOOLEAN : Replace(t, w, ok)
  PROVE  Travel'
<1>0. /\ \A a \in Accounts : account[a] \in Int /\ disk[a] \in Int /\ issued[a] \in Int
      /\ \A u \in Threads : cred[u] \in Int /\ \A a \in Accounts : saved[u][a] \in Int
  BY DEF TypeOK, Gens
<1>1. CASE LockPersist(t)
  <2>1. \A u \in Threads : ~At(u, "gather")
    BY <1>1, ThreadOwner DEF LockPersist, Travel, Held
  <2>2. \A a \in Accounts : ~(a < 1)
    BY DEF Accounts
  <2>3. /\ pc[t] = "persist" /\ pc'[t] = "gather" /\ persistMu' = t /\ cursor'[t] = 1
        /\ \A u \in Threads \ {t} : pc'[u] = pc[u] /\ cursor'[u] = cursor[u]
        /\ UNCHANGED <<health, creds, disk, saved, mu, entry, force, cred>>
    BY <1>1 DEF LockPersist, TypeOK
  <2>4. Held' /\ Ordered' /\ SingleFlight'
    BY <2>1, <2>3 DEF Travel, Held, Ordered, SingleFlight, Calling
  <2>5. Gathered'
    BY <2>1, <2>2, <2>3 DEF Travel, Gathered, Saving
  <2> QED BY <2>4, <2>5 DEF Travel
<1>2. CASE GatherEntry(t)
  <2>0. cursor[t] \in Int
    BY <1>2 DEF GatherEntry, Accounts
  <2>1. /\ At(t, "gather") /\ cursor[t] \in Accounts
        /\ cursor'[t] = cursor[t] + 1 /\ saved'[t][cursor[t]] = account[cursor[t]]
        /\ \A a \in Accounts \ {cursor[t]} : saved'[t][a] = saved[t][a]
        /\ \A u \in Threads \ {t} : saved'[u] = saved[u] /\ cursor'[u] = cursor[u]
        /\ UNCHANGED <<health, creds, persistMu, disk, mu, pc, entry, force, cred>>
    BY <1>2 DEF GatherEntry, TypeOK
  <2>2. Held' /\ Ordered' /\ SingleFlight'
    BY <2>1 DEF Travel, Held, Ordered, SingleFlight, Calling
  <2>3. Gathered'
    <3>1. \A a \in Accounts : a < cursor[t] + 1 => a < cursor[t] \/ a = cursor[t]
      BY <2>0 DEF Accounts
    <3>2. \A a \in Accounts : a < cursor'[t] =>
            /\ disk[a] <= saved'[t][a] /\ saved'[t][a] <= account[a]
            /\ a = entry[t] => cred[t] <= saved'[t][a]
      BY <1>0, <2>1, <3>1 DEF Travel, Gathered, Ordered, Saving
    <3> QED BY <2>1, <3>2 DEF Travel, Gathered, Saving
  <2> QED BY <2>2, <2>3 DEF Travel
<1>3. ASSUME NEW w \in BOOLEAN, NEW ok \in BOOLEAN, Replace(t, w, ok)
      PROVE  Travel'
  <2>1. \A a \in Accounts : disk[a] <= disk'[a] /\ disk'[a] <= account[a]
    <3>1. \A a \in Accounts : a < cursor[t]
      BY <1>3, PoolSize DEF Replace, Accounts
    <3> QED BY <1>0, <1>3, <3>1 DEF Replace, Travel, Gathered, Ordered
  <2>2. /\ persistMu = t /\ pc'[t] = "idle"
        /\ \A u \in Threads \ {t} : /\ pc'[u] = pc[u] /\ saved'[u] = saved[u]
                                    /\ cursor'[u] = cursor[u]
        /\ UNCHANGED <<health, creds, mu, entry, force, cred>>
    BY <1>3 DEF Replace, TypeOK, Travel, Held
  <2>3. \A u \in Threads \ {t} : ~At(u, "gather")
    BY <2>2 DEF Travel, Held
  <2>4. Held' /\ SingleFlight'
    BY <2>2, <2>3 DEF Travel, Held, SingleFlight, Calling
  <2>5. Ordered'
    BY <1>0, <2>1, <2>2 DEF Travel, Ordered
  <2>6. Gathered'
    BY <2>2, <2>3 DEF Travel, Gathered, Saving
  <2> QED BY <2>4, <2>5, <2>6 DEF Travel
<1> QED BY <1>1, <1>2, <1>3

LEMMA ClockTravels == TypeOK /\ Travel /\ (Tick \/ Restart) => Travel'
<1> SUFFICES ASSUME TypeOK, Travel, Tick \/ Restart PROVE Travel'
  OBVIOUS
<1>1. CASE Tick
  <2>1. \A a \in Accounts : ttl[a] = 0 => ttl'[a] = 0
    BY <1>1 DEF Tick
  <2>2. Held' /\ Ordered' /\ Gathered'
    BY <1>1 DEF Tick, Travel, Held, Ordered, Gathered, Calling, Saving
  <2>3. SingleFlight'
    BY <1>1, <2>1 DEF Tick, Travel, SingleFlight, Held, Calling
  <2> QED BY <2>2, <2>3 DEF Travel
<1>2. CASE Restart
  <2>1. \A t \in Threads : pc'[t] = "idle"
    BY <1>2 DEF Restart
  <2>2. Held' /\ Gathered' /\ SingleFlight'
    BY <2>1 DEF Held, Gathered, SingleFlight, Calling, Saving
  <2>3. Ordered'
    <3>1. ASSUME NEW a \in Accounts
          PROVE  /\ disk[a] <= account'[a] /\ account'[a] <= issued[a]
                 /\ account'[a] = issued[a] \/ a \in lost'
      BY <1>2 DEF Restart, TypeOK, Gens, Travel, Ordered
    <3> QED BY <1>2, <3>1 DEF Restart, Ordered
  <2> QED BY <2>2, <2>3 DEF Travel
<1> QED BY <1>1, <1>2

LEMMA StepTravels ==
  ASSUME TypeOK, Travel, Next
  PROVE  Travel'
<1>1. CASE Tick \/ Restart
  BY <1>1, ClockTravels
<1>2. ASSUME NEW t \in Threads, Call(t) PROVE Travel'
  BY <1>2, WalksTravel, RefreshTravels DEF Call
<1>3. ASSUME NEW t \in Threads, Step(t) PROVE Travel'
  <2>1. CASE ScanEntry(t) \/ RecoverEntry(t) \/ Pick(t) \/ NoCandidate(t) \/ EndWalk(t)
    BY <2>1, WalksTravel
  <2>2. CASE \/ StillFresh(t) \/ NoRefresher(t) \/ StartRefresh(t)
             \/ RefreshOK(t) \/ RefreshFailed(t) \/ RefreshLost(t)
    BY <2>2, RefreshTravels
  <2>3. CASE \/ LockPersist(t) \/ GatherEntry(t)
             \/ \E w, ok \in BOOLEAN : Replace(t, w, ok)
    BY <2>3, PersistTravels
  <2> QED BY <1>3, <2>1, <2>2, <2>3 DEF Step
<1> QED BY <1>1, <1>2, <1>3 DEF Next

-----------------------------------------------------------------------------
(* Who holds what is held.                                                 *)

\* Owned is inductive, with Held: only its holder gives a mutex back.
LEMMA StepOwned ==
  ASSUME TypeOK, Held, Owned, Next
  PROVE  Owned'
<1>1. CASE Tick
  BY <1>1 DEF Tick, Owned
<1>2. CASE Restart
  BY <1>2 DEF Restart, Owned
\* A step that takes and gives back nothing, of one that holds nothing.
<1>3. ASSUME NEW t \in Threads, pc[t] \notin {"refresh", "gather"}, UNCHANGED <<mu, persistMu>>,
             \A u \in Threads \ {t} : pc'[u] = pc[u] /\ entry'[u] = entry[u]
      PROVE  Owned'
  BY <1>3, ThreadOwner DEF Owned, TypeOK
<1>4. ASSUME NEW t \in Threads, Call(t) PROVE Owned'
  <2>1. /\ pc[t] = "idle" /\ UNCHANGED <<mu, persistMu>>
        /\ \A u \in Threads \ {t} : pc'[u] = pc[u] /\ entry'[u] = entry[u]
    BY <1>4 DEF TypeOK, Call, BeginSelect, BeginList, BeginEnsureFresh,
         MarkAuthError, MarkDisabled, MarkCooldown, BeginRecover
  <2> QED BY <1>3, <2>1
<1>5. ASSUME NEW t \in Threads, Step(t) PROVE Owned'
  <2>1. CASE \/ ScanEntry(t) \/ RecoverEntry(t) \/ Pick(t) \/ NoCandidate(t) \/ EndWalk(t)
             \/ StillFresh(t) \/ NoRefresher(t)
    <3>1. /\ pc[t] \in {"select", "list", "recover", "lock"} /\ UNCHANGED <<mu, persistMu>>
          /\ \A u \in Threads \ {t} : pc'[u] = pc[u] /\ entry'[u] = entry[u]
      BY <2>1 DEF TypeOK, ScanEntry, RecoverEntry, Pick, NoCandidate, EndWalk, StillFresh, NoRefresher
    <3> QED BY <1>3, <3>1
  <2>2. CASE StartRefresh(t)
    <3>1. /\ pc[t] = "lock" /\ pc'[t] = "refresh" /\ entry' = entry /\ persistMu' = persistMu
          /\ mu'[entry[t]] = t /\ \A a \in Accounts \ {entry[t]} : mu'[a] = mu[a]
          /\ \A u \in Threads \ {t} : pc'[u] = pc[u]
      BY <2>2 DEF StartRefresh, TypeOK, Held, Calling
    <3>2. ASSUME NEW a \in Accounts, mu'[a] # Free
          PROVE  pc'[mu'[a]] = "refresh" /\ entry'[mu'[a]] = a
      <4>1. CASE a = entry[t]
        BY <3>1, <4>1
      <4>2. CASE a # entry[t]
        <5>1. mu'[a] = mu[a] /\ pc[mu[a]] = "refresh" /\ entry[mu[a]] = a /\ mu[a] \in Threads
          BY <3>1, <3>2, <4>2 DEF Owned, TypeOK
        <5> QED BY <3>1, <5>1
      <4> QED BY <4>1, <4>2
    <3>3. persistMu # Free => persistMu \in Threads \ {t} /\ pc[persistMu] = "gather"
      BY <3>1 DEF Owned, TypeOK
    <3> QED BY <3>1, <3>2, <3>3 DEF Owned
  <2>3. CASE RefreshOK(t) \/ RefreshFailed(t) \/ RefreshLost(t)
    <3>1. /\ pc[t] = "refresh" /\ entry' = entry /\ persistMu' = persistMu
          /\ mu'[entry[t]] = Free /\ \A a \in Accounts \ {entry[t]} : mu'[a] = mu[a]
          /\ \A u \in Threads \ {t} : pc'[u] = pc[u]
      BY <2>3 DEF RefreshOK, RefreshFailed, RefreshLost, TypeOK, Held, Calling
    <3>2. ASSUME NEW a \in Accounts, mu'[a] # Free
          PROVE  pc'[mu'[a]] = "refresh" /\ entry'[mu'[a]] = a
      <4>1. a # entry[t] /\ mu'[a] = mu[a] /\ mu[a] \in Threads
        BY <3>1, <3>2 DEF TypeOK
      <4>2. pc[mu[a]] = "refresh" /\ entry[mu[a]] = a
        BY <3>2, <4>1 DEF Owned
      <4> QED BY <3>1, <4>1, <4>2
    <3>3. persistMu # Free => persistMu \in Threads \ {t} /\ pc[persistMu] = "gather"
      BY <3>1 DEF Owned, TypeOK
    <3> QED BY <3>1, <3>2, <3>3 DEF Owned
  <2>4. CASE LockPersist(t)
    <3>1. /\ pc[t] = "persist" /\ pc'[t] = "gather" /\ persistMu' = t /\ UNCHANGED <<mu, entry>>
          /\ \A u \in Threads \ {t} : pc'[u] = pc[u]
      BY <2>4 DEF LockPersist, TypeOK
    <3>2. ASSUME NEW a \in Accounts, mu[a] # Free
          PROVE  pc'[mu[a]] = "refresh" /\ entry[mu[a]] = a
      <4>1. pc[mu[a]] = "refresh" /\ entry[mu[a]] = a /\ mu[a] \in Threads
        BY <3>2 DEF Owned, TypeOK
      <4> QED BY <3>1, <4>1
    <3> QED BY <3>1, <3>2 DEF Owned
  <2>5. CASE GatherEntry(t)
    BY <2>5 DEF GatherEntry, Owned
  <2>6. CASE \E w, ok \in BOOLEAN : Replace(t, w, ok)
    <3>1. /\ pc[t] = "gather" /\ persistMu' = Free /\ UNCHANGED <<mu, entry>>
          /\ \A u \in Threads \ {t} : pc'[u] = pc[u]
      BY <2>6 DEF Replace, TypeOK
    <3> QED BY <3>1, ThreadOwner DEF Owned, TypeOK
  <2> QED BY <1>5, <2>1, <2>2, <2>3, <2>4, <2>5, <2>6 DEF Step
<1> QED BY <1>1, <1>2, <1>4, <1>5 DEF Next

-----------------------------------------------------------------------------
LEMMA PoolStep == PoolInv /\ [Next]_vars => PoolInv'
<1> SUFFICES ASSUME PoolInv, [Next]_vars PROVE PoolInv'
  OBVIOUS
<1>1. CASE Next
  BY <1>1, StepTyped, StepTravels, StepOwned DEF PoolInv, Travel
<1>2. CASE UNCHANGED vars
  BY <1>2 DEF vars, PoolInv, TypeOK, Held, Owned, Ordered, Gathered, SingleFlight, Calling, Saving
<1> QED BY <1>1, <1>2

LEMMA PoolStart == Init => PoolInv
  BY InitTyped, InitTravels DEF PoolInv, Travel, Init, Owned

(* PoolInv is an invariant of the pool: the type invariant, who holds      *)
(* which mutex, the order memory, file and upstream keep, and what a       *)
(* writer has collected.                                                   *)
THEOREM PoolInvariance == Spec => []PoolInv
  BY PoolStart, PoolStep, PTL DEF Spec

(* Every variable keeps its type, whatever calls overlap.                  *)
THEOREM TypeCorrect == Spec => []TypeOK
<1>1. PoolInv => TypeOK
  BY DEF PoolInv
<1> QED BY <1>1, PoolInvariance, PTL

(* No refresh token is sent that the upstream has replaced, whatever the   *)
(* goroutines of EnsureFresh, failed writes and restarts interleave to.    *)
THEOREM TokensSpentOnce == Spec => []SpentTokenNotResent
<1>1. PoolInv => SpentTokenNotResent
  BY DEF PoolInv, Held, Ordered, SpentTokenNotResent, Calling
<1> QED BY <1>1, PoolInvariance, PTL

(* Goroutines that find the same expired token in EnsureFresh refresh it   *)
(* once: the expiry is read again under the entry's mutex.                 *)
THEOREM OneRefreshPerExpiry == Spec => []SingleFlight
<1>1. PoolInv => SingleFlight
  BY DEF PoolInv
<1> QED BY <1>1, PoolInvariance, PTL

\* Whom a goroutine inside a call waits for: the holder of the mutex of the
\* entry it is at, or of persistMu.
Waits(t, u) ==
  \/ At(t, "lock") /\ mu[entry[t]] = u
  \/ pc[t] \in {"select", "list", "recover", "gather"} /\ cursor[t] \in Accounts /\ mu[cursor[t]] = u
  \/ At(t, "persist") /\ persistMu = u

NoCircularWait ==
  \A t, u \in Threads : Waits(t, u) =>
    \/ At(u, "refresh")
    \/ At(t, "persist") /\ At(u, "gather")

(* No circle of goroutines waits for each other: whoever is waited for is  *)
(* in its call to the upstream, where it waits for none, or writes the     *)
(* file and waits at most for such a one.                                  *)
THEOREM WaitsEnd == Spec => []NoCircularWait
<1>1. PoolInv => NoCircularWait
  BY ThreadOwner DEF PoolInv, Held, Owned, NoCircularWait, Waits, Calling
<1> QED BY <1>1, PoolInvariance, PTL

(* The credentials file never goes back to an older credential.            *)
THEOREM FileMonotone == Spec => DiskNeverRegresses
<1>1. PoolInv /\ PoolInv' /\ [Next]_vars => [\A a \in Accounts : disk'[a] >= disk[a]]_disk
  <2> SUFFICES ASSUME PoolInv, Next, disk' # disk
               PROVE  \A a \in Accounts : disk'[a] >= disk[a]
    BY DEF vars
  <2>1. PICK t \in Threads : \E w, ok \in BOOLEAN : Replace(t, w, ok)
    <3>1. ASSUME NEW t \in Threads, Call(t)
          PROVE  FALSE
      BY <3>1 DEF Call, BeginSelect, BeginList, BeginEnsureFresh, MarkAuthError,
                  MarkDisabled, MarkCooldown, BeginRecover
    <3>2. ASSUME NEW t \in Threads, Step(t)
          PROVE  \E w, ok \in BOOLEAN : Replace(t, w, ok)
      BY <3>2 DEF Step, ScanEntry, RecoverEntry, Pick, NoCandidate, EndWalk, StillFresh, NoRefresher,
                  StartRefresh, RefreshOK, RefreshFailed, RefreshLost, LockPersist, GatherEntry
    <3> QED BY <3>1, <3>2 DEF Next, Tick, Restart
  <2>2. disk' = saved[t] /\ At(t, "gather") /\ \A a \in Accounts : a < cursor[t]
    BY <2>1, PoolSize DEF Replace, Accounts
  <2> QED BY <2>2 DEF PoolInv, TypeOK, Gens, Gathered
<1> QED BY <1>1, PoolInvariance, PTL DEF Spec, DiskNeverRegresses

(* A refresh that is reported as done is in the file.                      *)
THEOREM RefreshSaved == Spec => SavedBeforeReturn
<1> DEFINE Done(t) == At(t, "gather") /\ pc'[t] = "idle" /\ ret'[t] = "ok"
<1>1. ASSUME PoolInv, PoolInv', [Next]_vars, NEW t \in Threads, Done(t)
      PROVE  disk'[entry[t]] >= cred[t]
  <2>1. CASE \E ok \in BOOLEAN : Replace(t, TRUE, ok)
    <3>1. disk' = saved[t] /\ \A a \in Accounts : a < cursor[t]
      BY <2>1, PoolSize DEF Replace, Accounts
    <3>2. entry[t] \in Accounts
      BY <1>1 DEF PoolInv, Held, Calling
    <3> QED BY <1>1, <3>1, <3>2 DEF PoolInv, TypeOK, Gens, Gathered
  <2>2. CASE Replace(t, FALSE, FALSE)
    BY <1>1, <2>2 DEF Replace, PoolInv, TypeOK
  <2>3. CASE Restart
    BY <1>1, <2>3 DEF Restart
  <2>4. \/ \E ok \in BOOLEAN : Replace(t, TRUE, ok)
        \/ Replace(t, FALSE, FALSE) \/ Restart
    <3>1. pc' # pc
      BY <1>1
    <3>2. ASSUME NEW u \in Threads, u # t, Call(u) \/ Step(u)
          PROVE  FALSE
      BY <1>1, <3>2 DEF PoolInv, TypeOK, Call, Step, BeginSelect, BeginList, BeginEnsureFresh,
           MarkAuthError, MarkDisabled, MarkCooldown, BeginRecover, ScanEntry, RecoverEntry, Pick,
           NoCandidate, EndWalk, StillFresh, NoRefresher, StartRefresh, RefreshOK,
           RefreshFailed, RefreshLost, LockPersist, GatherEntry, Replace
    <3>3. ASSUME Call(t) \/ Step(t)
          PROVE  \E w, ok \in BOOLEAN : Replace(t, w, ok) /\ (ok => w)
      BY <1>1, <3>3 DEF PoolInv, TypeOK, Call, Step, BeginSelect, BeginList, BeginEnsureFresh,
           MarkAuthError, MarkDisabled, MarkCooldown, BeginRecover, ScanEntry, RecoverEntry, Pick,
           NoCandidate, EndWalk, StillFresh, NoRefresher, StartRefresh, RefreshOK,
           RefreshFailed, RefreshLost, LockPersist, GatherEntry
    <3> QED BY <1>1, <3>1, <3>2, <3>3 DEF Next, Tick, vars
  <2> QED BY <2>1, <2>2, <2>3, <2>4
<1>2. PoolInv /\ PoolInv' /\ [Next]_vars =>
        [\A t \in Threads : Done(t) => disk'[entry[t]] >= cred[t]]_vars
  BY <1>1
<1> QED BY <1>2, PoolInvariance, PTL DEF Spec, SavedBeforeReturn

-----------------------------------------------------------------------------
(* Select.                                                                 *)

\* What a step is to a goroutine that is in Select after it: nothing, the
\* begin of the call, or the Snapshot of one entry.
LEMMA SelectSteps ==
  ASSUME PoolInv, Next, NEW t \in Threads, pc'[t] = "select"
  PROVE  \/ /\ pc[t] = "select"
            /\ cands'[t] = cands[t] /\ cursor'[t] = cursor[t] /\ excluded'[t] = excluded[t]
         \/ pc[t] # "select" /\ cands'[t] = {} /\ cursor'[t] = 1
         \/ pc[t] = "select" /\ ScanEntry(t)
<1> DEFINE Kept == /\ pc[t] = "select"
                   /\ cands'[t] = cands[t] /\ cursor'[t] = cursor[t] /\ excluded'[t] = excluded[t]
           Begun == pc[t] # "select" /\ cands'[t] = {} /\ cursor'[t] = 1
<1>0. TypeOK
  BY DEF PoolInv
<1>1. CASE Tick \/ Restart
  BY <1>1 DEF Tick, Restart
<1>2. ASSUME NEW u \in Threads, u # t, Call(u) \/ Step(u) PROVE Kept
  BY <1>0, <1>2 DEF TypeOK, Call, Step, BeginSelect, BeginList, BeginEnsureFresh,
       MarkAuthError, MarkDisabled, MarkCooldown, BeginRecover, ScanEntry, RecoverEntry, Pick,
       NoCandidate, EndWalk, StillFresh, NoRefresher, StartRefresh, RefreshOK,
       RefreshFailed, RefreshLost, LockPersist, GatherEntry, Replace
<1>3. CASE Call(t)
  BY <1>0, <1>3 DEF TypeOK, Call, BeginSelect, BeginList, BeginEnsureFresh,
       MarkAuthError, MarkDisabled, MarkCooldown, BeginRecover
<1>4. CASE Step(t)
  BY <1>0, <1>4 DEF TypeOK, Step, ScanEntry, RecoverEntry, Pick,
       NoCandidate, EndWalk, StillFresh, NoRefresher, StartRefresh, RefreshOK,
       RefreshFailed, RefreshLost, LockPersist, GatherEntry, Replace
<1> QED BY <1>1, <1>2, <1>3, <1>4 DEF Next

\* And to one that leaves it.
LEMMA SelectEnds ==
  ASSUME PoolInv, Next, NEW t \in Threads, pc[t] = "select", pc'[t] = "idle"
  PROVE  Pick(t) \/ NoCandidate(t) \/ ret'[t] = "none"
<1>0. TypeOK
  BY DEF PoolInv
<1>1. CASE Tick \/ Restart
  BY <1>1 DEF Tick, Restart
<1>2. ASSUME NEW u \in Threads, u # t, Call(u) \/ Step(u) PROVE FALSE
  BY <1>0, <1>2 DEF TypeOK, Call, Step, BeginSelect, BeginList, BeginEnsureFresh,
       MarkAuthError, MarkDisabled, MarkCooldown, BeginRecover, ScanEntry, RecoverEntry, Pick,
       NoCandidate, EndWalk, StillFresh, NoRefresher, StartRefresh, RefreshOK,
       RefreshFailed, RefreshLost, LockPersist, GatherEntry, Replace
<1>3. CASE Call(t)
  BY <1>3 DEF Call, BeginSelect, BeginList, BeginEnsureFresh,
       MarkAuthError, MarkDisabled, MarkCooldown, BeginRecover
<1>4. CASE Step(t)
  BY <1>4 DEF Step, ScanEntry, RecoverEntry, EndWalk, StillFresh, NoRefresher, StartRefresh, RefreshOK,
       RefreshFailed, RefreshLost, LockPersist, GatherEntry, Replace
<1> QED BY <1>1, <1>2, <1>3, <1>4 DEF Next

LEMMA WalkedStart == SelectInit => Walked
  BY DEF SelectInit, Init, Walked

\* Walked is inductive: a scan looks at one entry, and any other step can make
\* accounts usable or not, which ever and steady see at once.
LEMMA WalkedStep ==
  ASSUME PoolInv, Walked, SelectNext
  PROVE  Walked'
<1> SUFFICES ASSUME NEW t \in Threads, pc'[t] = "select"
             PROVE  /\ steady'[t] \subseteq UsableNow' /\ UsableNow' \subseteq ever'[t]
                    /\ cands'[t] \subseteq ever'[t] \ excluded'[t]
                    /\ \A a \in steady'[t] \ excluded'[t] : a < cursor'[t] => a \in cands'[t]
  BY DEF Walked
<1>0. Next
  BY DEF SelectNext
<1>1. /\ steady'[t] = IF pc[t] # "select" THEN UsableNow' ELSE steady[t] \cap UsableNow'
      /\ ever'[t] = IF pc[t] # "select" THEN UsableNow' ELSE ever[t] \cup UsableNow'
  BY DEF SelectNext
<1>2. steady'[t] \subseteq UsableNow' /\ UsableNow' \subseteq ever'[t]
  BY <1>1
<1>3. CASE pc[t] # "select" /\ cands'[t] = {} /\ cursor'[t] = 1
  <2>1. \A a \in UsableNow' : ~(a < 1)
    BY DEF UsableNow, Accounts
  <2> QED BY <1>2, <1>3, <2>1
<1>4. ASSUME pc[t] = "select"
      PROVE  /\ steady[t] \subseteq UsableNow /\ UsableNow \subseteq ever[t]
             /\ cands[t] \subseteq ever[t] \ excluded[t]
             /\ \A a \in steady[t] \ excluded[t] : a < cursor[t] => a \in cands[t]
             /\ steady'[t] \subseteq steady[t] /\ ever[t] \subseteq ever'[t]
  BY <1>1, <1>4 DEF Walked
<1>5. CASE /\ pc[t] = "select"
           /\ cands'[t] = cands[t] /\ cursor'[t] = cursor[t] /\ excluded'[t] = excluded[t]
  BY <1>2, <1>4, <1>5
<1>6. CASE pc[t] = "select" /\ ScanEntry(t)
  <2> DEFINE e == cursor[t]
  <2>1. /\ e \in Accounts /\ excluded'[t] = excluded[t] /\ cursor'[t] = e + 1
        /\ cands'[t] = IF Usable(e) /\ e \notin excluded[t] THEN cands[t] \cup {e} ELSE cands[t]
    BY <1>6 DEF ScanEntry, PoolInv, TypeOK
  <2>2. e \in UsableNow <=> Usable(e)
    BY <2>1 DEF UsableNow
  <2>3. UsableNow \subseteq Accounts
    BY DEF UsableNow
  <2>4. \A a \in Accounts : a < e + 1 => a < e \/ a = e
    BY <2>1 DEF Accounts
  <2> HIDE DEF e
  <2>5. cands'[t] \subseteq ever'[t] \ excluded'[t]
    BY <1>4, <1>6, <2>1, <2>2
  <2>6. ASSUME NEW a \in steady'[t] \ excluded'[t], a < cursor'[t] PROVE a \in cands'[t]
    <3>1. a \in steady[t] \ excluded[t] /\ a \in UsableNow /\ a \in Accounts
      BY <1>4, <1>6, <2>1, <2>3, <2>6
    <3>2. CASE a = e
      BY <2>1, <2>2, <3>1, <3>2
    <3>3. CASE a # e
      <4>1. a < cursor[t]
        BY <2>1, <2>4, <2>6, <3>1, <3>3 DEF e
      <4> QED BY <1>4, <1>6, <2>1, <3>1, <4>1
    <3> QED BY <3>2, <3>3
  <2> QED BY <1>2, <2>5, <2>6
<1> QED BY <1>0, <1>3, <1>5, <1>6, SelectSteps

(* Select's answer is true of the pool it walked, one Snapshot at a time:  *)
(* "no healthy account" means that none outside the excluded ones stayed   *)
(* usable during the call, and an account it returns was usable at some    *)
(* moment of it and is not excluded, whatever other goroutines mark.       *)
THEOREM SelectIsTruthful == SelectSpec => SelectTruthful
<1> DEFINE Inv == PoolInv /\ Walked
           Truth == \A t \in Threads : At(t, "select") /\ pc'[t] = "idle" =>
                      /\ ret'[t] = "noAccount" => steady[t] \subseteq excluded[t]
                      /\ ret'[t] = "ok" => entry'[t] \in ever[t] \ excluded[t]
<1>1. SelectInit => Inv
  BY PoolStart, WalkedStart DEF SelectInit
<1>2. Inv /\ [SelectNext]_<<vars, steady, ever>> => Inv'
  <2> SUFFICES ASSUME Inv, [SelectNext]_<<vars, steady, ever>> PROVE Inv'
    OBVIOUS
  <2>1. CASE SelectNext
    BY <2>1, PoolStep, WalkedStep DEF SelectNext
  <2>2. CASE UNCHANGED <<vars, steady, ever>>
    <3>1. Walked'
      BY <2>2 DEF vars, Walked, UsableNow, Usable, Recovered
    <3> QED BY <2>2, <3>1, PoolStep
  <2> QED BY <2>1, <2>2
<1>3. Inv /\ [SelectNext]_<<vars, steady, ever>> => [Truth]_vars
  <2> SUFFICES ASSUME Inv, SelectNext, NEW t \in Threads, pc[t] = "select", pc'[t] = "idle"
               PROVE  /\ ret'[t] = "noAccount" => steady[t] \subseteq excluded[t]
                      /\ ret'[t] = "ok" => entry'[t] \in ever[t] \ excluded[t]
    BY DEF vars
  <2>1. Pick(t) \/ NoCandidate(t) \/ ret'[t] = "none"
    BY SelectEnds DEF SelectNext
  <2>2. TypeOK
    BY DEF PoolInv
  <2>3. CASE Pick(t)
    <3>1. entry'[t] \in cands[t] /\ ret'[t] = "ok"
      BY <2>2, <2>3 DEF Pick, TypeOK
    <3> QED BY <3>1 DEF Walked
  <2>4. CASE NoCandidate(t)
    <3>1. ret'[t] = "noAccount" /\ cands[t] = {} /\ cursor[t] = N + 1
      BY <2>2, <2>4 DEF NoCandidate, TypeOK
    <3>2. \A a \in steady[t] : a < N + 1
      BY PoolSize DEF Walked, UsableNow, Accounts
    <3> QED BY <3>1, <3>2 DEF Walked
  <2> QED BY <2>1, <2>3, <2>4
<1> QED BY <1>1, <1>2, <1>3, PTL DEF SelectSpec, SelectTruthful
=============================================================================
