--------------------------- MODULE ProcessesProof ---------------------------
(***************************************************************************)
(* Proofs about Processes, for any number of processes of each command and *)
(* any number of users and credentials.                                    *)
(***************************************************************************)
EXTENDS Processes, TLAPS

LEMMA ProcessesStart == Init => ProcessesInv
<1> SUFFICES ASSUME Init PROVE ProcessesInv
  OBVIOUS
<1>1. ProcessesTypeOK
  <2>1. issued \in Lists /\ Blank \in Lists
    BY IssuedBound, KnownUsers DEF Init, Lists, Blank
  <2> QED BY <2>1 DEF Init, ProcessesTypeOK
<1>2. Issued
  BY <1>1, IssuedBound, KnownUsers DEF Init, Issued, Own, Blank, ProcessesTypeOK, Lists
<1>3. Knows /\ FlushedFirst
  BY DEF Init, Knows, FlushedFirst
<1> QED BY <1>1, <1>2, <1>3 DEF ProcessesInv

(* The steps that move a process and touch no list and no file.            *)
LEMMA MovesKeep ==
  ASSUME ProcessesInv, NEW p \in Procs,
         Poll(p) \/ Deadline(p) \/ Pending(p) \/ UserInfo(p) \/ Sync(p) \/ WriteFails(p)
  PROVE  ProcessesInv'
<1>1. ProcessesTypeOK'
  BY DEF ProcessesInv, ProcessesTypeOK, Move, disk, Poll, Deadline, Pending, UserInfo, Sync,
         WriteFails
<1>2. Issued'
  BY DEF ProcessesInv, Issued, Own, disk, Poll, Deadline, Pending, UserInfo, Sync, WriteFails
<1>3. FlushedFirst'
  BY DEF ProcessesInv, ProcessesTypeOK, FlushedFirst, Move, disk, Poll, Deadline, Pending,
         UserInfo, Sync, WriteFails
<1>4. Knows'
  BY DEF ProcessesInv, ProcessesTypeOK, Knows, Own, Move, disk, Poll, Deadline, Pending,
         UserInfo, Sync, WriteFails
<1> QED BY <1>1, <1>2, <1>3, <1>4 DEF ProcessesInv

LEMMA LeavesKeep ==
  ASSUME ProcessesInv, NEW p \in Procs, Leave(p), UNCHANGED <<disk, issued>>
  PROVE  ProcessesInv'
<1>0. Blank \in Lists /\ \A u \in Users : Blank[u] = 0
  BY IssuedBound DEF Blank, Lists
<1>1. ProcessesTypeOK'
  BY <1>0 DEF ProcessesInv, ProcessesTypeOK, Leave, Move, TakeList, disk
<1>2. Issued'
  <2>1. \A u \in Users : 0 <= issued[u]
    BY DEF ProcessesInv, ProcessesTypeOK, Lists
  <2> QED BY <1>0, <2>1 DEF ProcessesInv, ProcessesTypeOK, Issued, Own, Leave, TakeList, disk
<1>3. FlushedFirst'
  BY DEF ProcessesInv, ProcessesTypeOK, FlushedFirst, Leave, Move, disk
<1>4. Knows'
  BY DEF ProcessesInv, ProcessesTypeOK, Knows, Own, Leave, Move, TakeList, disk
<1> QED BY <1>1, <1>2, <1>3, <1>4 DEF ProcessesInv

LEMMA StartKeeps ==
  ASSUME ProcessesInv, NEW p \in Procs, Start(p)
  PROVE  ProcessesInv'
<1>0. \E at \in {"up", "poll", "exchange"} : pc' = [pc EXCEPT ![p] = at]
  <2>1. \/ pc' = [pc EXCEPT ![p] = "up"]
        \/ pc' = [pc EXCEPT ![p] = "poll"]
        \/ pc' = [pc EXCEPT ![p] = "exchange"]
    <3>1. CASE p \in Holders
      BY <3>1, Commands DEF Start, Move, Holders
    <3>2. CASE p \in Logins
      BY <3>2, Commands DEF Start, Move, Holders
    <3>3. CASE p \in Imports
      BY <3>3, Commands DEF Start, Move, Holders
    <3> QED BY <3>1, <3>2, <3>3 DEF Procs, Adders
  <2> QED BY <2>1
<1>1. ProcessesTypeOK'
  BY <1>0 DEF ProcessesInv, ProcessesTypeOK, Start, TakeList, disk
<1>2. Issued'
  BY DEF ProcessesInv, ProcessesTypeOK, Issued, Own, Start, TakeList, disk
<1>3. FlushedFirst'
  BY <1>0 DEF ProcessesInv, ProcessesTypeOK, FlushedFirst, Start, disk
<1>4. Knows'
  <2> SUFFICES ASSUME NEW q \in Procs, pc'[q] \in {"up", "write", "rename"},
                      NEW u \in Users, u \notin stale'[q] \cup Own(q)'
               PROVE  file'[u] <= list'[q][u]
    BY DEF Knows
  <2>1. file \in Lists /\ file[u] <= file[u]
    BY DEF ProcessesInv, ProcessesTypeOK, Lists
  <2>2. CASE q = p
    BY <2>1, <2>2 DEF ProcessesInv, ProcessesTypeOK, Start, TakeList, disk
  <2>3. CASE q # p
    BY <1>0, <2>3 DEF ProcessesInv, ProcessesTypeOK, Knows, Own, Start, TakeList, disk
  <2> QED BY <2>2, <2>3
<1> QED BY <1>1, <1>2, <1>3, <1>4 DEF ProcessesInv

(* A new credential is newer than any in a list or in the file.            *)
LEMMA IssueGrows ==
  ASSUME ProcessesInv, NEW u \in Users, Issue(u)
  PROVE  /\ issued' \in Lists /\ issued'[u] \in 1..MaxIssued
         /\ \A v \in Users : issued[v] <= issued'[v]
         /\ file[u] <= issued'[u]
BY IssuedBound DEF ProcessesInv, ProcessesTypeOK, Issued, Issue, Lists

LEMMA RefreshKeeps ==
  ASSUME ProcessesInv, NEW p \in Procs, NEW u \in Users, Refreshed(p, u)
  PROVE  ProcessesInv'
<1>1. /\ issued' \in Lists /\ issued'[u] \in 1..MaxIssued
      /\ \A v \in Users : issued[v] <= issued'[v]
      /\ file[u] <= issued'[u]
  BY IssueGrows DEF Refreshed
<1>2. list'[p] \in Lists /\ list' \in [Procs -> Lists] /\ list'[p][u] = issued'[u]
      /\ \A v \in Users \ {u} : list'[p][v] = list[p][v]
  BY <1>1 DEF Refreshed, ProcessesInv, ProcessesTypeOK, Lists
<1>3. \A q \in Procs \ {p} : list'[q] = list[q]
  BY DEF Refreshed, ProcessesInv, ProcessesTypeOK
<1>4. ProcessesTypeOK'
  BY <1>1, <1>2 DEF ProcessesInv, ProcessesTypeOK, Refreshed, Move, disk
<1>5. Issued'
  <2> SUFFICES ASSUME NEW v \in Users
               PROVE  /\ file'[v] <= issued'[v] /\ durable'[v] <= issued'[v]
                      /\ \A q \in Procs : /\ list'[q][v] <= issued'[v]
                                          /\ v \in Own(q)' => account'[q].cred <= issued'[v]
    BY DEF Issued
  <2>1. /\ issued[v] \in Nat /\ issued'[v] \in Nat /\ file[v] \in Nat /\ durable[v] \in Nat
        /\ \A q \in Procs : list[q][v] \in Nat /\ list'[q][v] \in Nat
        /\ \A q \in Procs : v \in Own(q) => account[q].cred \in Nat
    BY <1>1, <1>2 DEF ProcessesInv, ProcessesTypeOK, Lists, Own, Accounts
  <2>2. /\ file[v] <= issued[v] /\ durable[v] <= issued[v]
        /\ \A q \in Procs : /\ list[q][v] <= issued[v]
                            /\ v \in Own(q) => account[q].cred <= issued[v]
    BY DEF ProcessesInv, Issued
  <2>3. file' = file /\ durable' = durable /\ account' = account /\ issued[v] <= issued'[v]
    BY <1>1 DEF Refreshed, disk
  <2>4. \A q \in Procs : v \in Own(q)' => v \in Own(q)
    BY <2>3 DEF Own
  <2>5. \A q \in Procs : list'[q][v] <= issued'[v]
    BY <1>2, <1>3, <2>1, <2>2, <2>3
  <2> QED BY <2>1, <2>2, <2>3, <2>4, <2>5
<1>6. FlushedFirst'
  BY DEF ProcessesInv, ProcessesTypeOK, FlushedFirst, Refreshed, Move, disk
<1>7. Knows'
  <2> SUFFICES ASSUME NEW q \in Procs, pc'[q] \in {"up", "write", "rename"},
                      NEW v \in Users, v \notin stale'[q] \cup Own(q)'
               PROVE  file'[v] <= list'[q][v]
    BY DEF Knows
  <2>1. /\ file' = file /\ stale' = stale /\ Own(q)' = Own(q)
        /\ pc[q] \in {"up", "write", "rename"}
    BY DEF Refreshed, disk, Own, Move, ProcessesInv, ProcessesTypeOK
  <2>2. file[v] <= list[q][v]
    BY <2>1 DEF ProcessesInv, Knows
  <2>3. CASE q = p /\ v = u
    BY <1>1, <1>2, <2>1, <2>3
  <2>4. CASE ~(q = p /\ v = u)
    BY <1>2, <1>3, <2>1, <2>2, <2>4
  <2> QED BY <2>3, <2>4
<1> QED BY <1>4, <1>5, <1>6, <1>7 DEF ProcessesInv

LEMMA ObtainsKeeps ==
  ASSUME ProcessesInv, NEW p \in Procs, NEW u \in Users, Obtains(p, u)
  PROVE  ProcessesInv'
<1>1. /\ issued' \in Lists /\ issued'[u] \in 1..MaxIssued
      /\ \A v \in Users : issued[v] <= issued'[v]
  BY IssueGrows DEF Obtains
<1>2. /\ account'[p] = [user |-> u, cred |-> issued'[u]] /\ account'[p] \in Accounts
      /\ \A q \in Procs \ {p} : account'[q] = account[q]
  BY <1>1 DEF Obtains, ProcessesInv, ProcessesTypeOK, Accounts
<1>3. ProcessesTypeOK'
  BY <1>1, <1>2 DEF ProcessesInv, ProcessesTypeOK, Obtains, Move, disk
<1>4. Issued'
  <2> SUFFICES ASSUME NEW v \in Users
               PROVE  /\ file'[v] <= issued'[v] /\ durable'[v] <= issued'[v]
                      /\ \A q \in Procs : /\ list'[q][v] <= issued'[v]
                                          /\ v \in Own(q)' => account'[q].cred <= issued'[v]
    BY DEF Issued
  <2>1. /\ issued[v] \in Nat /\ issued'[v] \in Nat /\ file[v] \in Nat /\ durable[v] \in Nat
        /\ \A q \in Procs : list[q][v] \in Nat
        /\ \A q \in Procs : v \in Own(q) => account[q].cred \in Nat
    BY <1>1 DEF ProcessesInv, ProcessesTypeOK, Lists, Own, Accounts
  <2>2. /\ file[v] <= issued[v] /\ durable[v] <= issued[v] /\ issued[v] <= issued'[v]
        /\ \A q \in Procs : /\ list[q][v] <= issued[v]
                            /\ v \in Own(q) => account[q].cred <= issued[v]
    BY <1>1 DEF ProcessesInv, Issued
  <2>3. file' = file /\ durable' = durable /\ list' = list
    BY DEF Obtains, disk
  <2>4. ASSUME NEW q \in Procs, v \in Own(q)' PROVE account'[q].cred <= issued'[v]
    <3>1. CASE q = p
      BY <1>1, <1>2, <2>4, <3>1, NullAccount DEF Own
    <3>2. CASE q # p
      BY <1>2, <2>1, <2>2, <2>4, <3>2 DEF Own
    <3> QED BY <3>1, <3>2
  <2> QED BY <2>1, <2>2, <2>3, <2>4
<1>5. FlushedFirst'
  BY DEF ProcessesInv, ProcessesTypeOK, FlushedFirst, Obtains, Move, disk
<1>6. Knows'
  <2> SUFFICES ASSUME NEW q \in Procs, pc'[q] \in {"up", "write", "rename"},
                      NEW v \in Users, v \notin stale'[q] \cup Own(q)'
               PROVE  file'[v] <= list'[q][v]
    BY DEF Knows
  <2>1. q # p /\ pc'[q] = pc[q]
    BY DEF Obtains, Move, ProcessesInv, ProcessesTypeOK
  <2> QED BY <1>2, <2>1 DEF Obtains, disk, Own, ProcessesInv, Knows
<1> QED BY <1>3, <1>4, <1>5, <1>6 DEF ProcessesInv

(* Upsert takes what the file holds now, and its own account.              *)
LEMMA UpsertKeeps ==
  ASSUME ProcessesInv, NEW p \in Procs, Upsert(p)
  PROVE  ProcessesInv'
<1>1. PICK a \in Accounts : account[p] = a /\ a \in Accounts
  BY DEF Upsert, ProcessesInv, ProcessesTypeOK
<1>2. a.user \in Users /\ a.cred \in 1..MaxIssued /\ Own(p) = {a.user}
  BY <1>1, NullAccount DEF Accounts, Own
<1>3. /\ list'[p] \in Lists /\ list'[p][a.user] = a.cred
      /\ \A v \in Users \ {a.user} : list'[p][v] = file[v]
      /\ list' \in [Procs -> Lists]
      /\ \A q \in Procs \ {p} : list'[q] = list[q]
  BY <1>1, <1>2 DEF Upsert, Put, ProcessesInv, ProcessesTypeOK, Lists
<1>4. ProcessesTypeOK'
  BY <1>3 DEF ProcessesInv, ProcessesTypeOK, Upsert, Move, disk
<1>5. Issued'
  <2> SUFFICES ASSUME NEW v \in Users
               PROVE  /\ file'[v] <= issued'[v] /\ durable'[v] <= issued'[v]
                      /\ \A q \in Procs : /\ list'[q][v] <= issued'[v]
                                          /\ v \in Own(q)' => account'[q].cred <= issued'[v]
    BY DEF Issued
  <2>1. UNCHANGED <<file, durable, issued, account>>
    BY DEF Upsert, disk
  <2>2. list'[p][v] <= issued[v]
    <3>1. CASE v = a.user
      BY <1>1, <1>2, <1>3, <3>1 DEF ProcessesInv, Issued
    <3>2. CASE v # a.user
      BY <1>3, <3>2 DEF ProcessesInv, Issued
    <3> QED BY <3>1, <3>2
  <2> QED BY <1>3, <2>1, <2>2 DEF ProcessesInv, Issued, Own
<1>6. FlushedFirst'
  BY DEF ProcessesInv, ProcessesTypeOK, FlushedFirst, Upsert, Move, disk
<1>7. Knows'
  <2> SUFFICES ASSUME NEW q \in Procs, pc'[q] \in {"up", "write", "rename"},
                      NEW v \in Users, v \notin stale'[q] \cup Own(q)'
               PROVE  file'[v] <= list'[q][v]
    BY DEF Knows
  <2>1. file' = file /\ Own(q)' = Own(q) /\ file[v] \in Nat
    BY DEF Upsert, disk, Own, ProcessesInv, ProcessesTypeOK, Lists
  <2>2. CASE q = p
    BY <1>2, <1>3, <2>1, <2>2
  <2>3. CASE q # p
    BY <1>3, <2>1, <2>3 DEF Upsert, Move, ProcessesInv, ProcessesTypeOK, Knows
  <2> QED BY <2>2, <2>3
<1> QED BY <1>4, <1>5, <1>6, <1>7 DEF ProcessesInv

(* A rename makes the others' lists stale where it changes the file, and   *)
(* leaves what they know of the rest as it was.                            *)
LEMMA RenameKeeps ==
  ASSUME ProcessesInv, NEW p \in Procs, Rename(p)
  PROVE  ProcessesInv'
<1>0. Blank \in Lists /\ \A u \in Users : Blank[u] = 0
  BY IssuedBound DEF Blank, Lists
<1>1. /\ file' = list[p] /\ list[p] \in Lists
      /\ list'[p] \in {list[p], Blank} /\ (pc'[p] = "up" => list'[p] = list[p])
      /\ pc'[p] \in {"up", "off"} /\ account'[p] = NoAccount
      /\ \A q \in Procs \ {p} : /\ list'[q] = list[q] /\ pc'[q] = pc[q]
                                /\ account'[q] = account[q]
      /\ pc' \in [Procs -> {"off", "up", "poll", "asking", "exchange", "userinfo", "upsert",
                            "write", "rename"}]
      /\ account' \in [Procs -> Accounts \cup {NoAccount}]
      /\ list' \in [Procs -> Lists]
  BY <1>0 DEF Rename, ProcessesInv, ProcessesTypeOK
<1>2. stale' \in [Procs -> SUBSET Users]
  BY DEF Rename, Shows, ProcessesInv, ProcessesTypeOK
<1>3. p \in flushed /\ contents' = "flushed"
  BY DEF Rename, ProcessesInv, FlushedFirst
<1>4. ProcessesTypeOK'
  BY <1>1, <1>2, <1>3 DEF Rename, ProcessesInv, ProcessesTypeOK
<1>5. Issued'
  <2> SUFFICES ASSUME NEW v \in Users
               PROVE  /\ file'[v] <= issued'[v] /\ durable'[v] <= issued'[v]
                      /\ \A q \in Procs : /\ list'[q][v] <= issued'[v]
                                          /\ v \in Own(q)' => account'[q].cred <= issued'[v]
    BY DEF Issued
  <2>1. issued' = issued /\ durable' = durable /\ issued[v] \in Nat
    BY DEF Rename, ProcessesInv, ProcessesTypeOK, Lists
  <2>2. list[p][v] <= issued[v] /\ Blank[v] <= issued[v]
    BY <1>0, <2>1 DEF ProcessesInv, Issued
  <2> QED BY <1>1, <2>1, <2>2 DEF ProcessesInv, Issued, Own
<1>6. FlushedFirst'
  BY <1>1, <1>3 DEF Rename, ProcessesInv, FlushedFirst
<1>7. Knows'
  <2> SUFFICES ASSUME NEW q \in Procs, pc'[q] \in {"up", "write", "rename"},
                      NEW v \in Users, v \notin stale'[q] \cup Own(q)'
               PROVE  file'[v] <= list'[q][v]
    BY DEF Knows
  <2>1. CASE q = p
    <3>1. list'[q][v] = file'[v] /\ file'[v] \in Nat
      BY <1>1, <2>1 DEF Lists
    <3> QED BY <3>1
  <2>2. CASE q # p
    <3>1. list'[q] = list[q] /\ pc'[q] = pc[q] /\ Own(q)' = Own(q)
      BY <1>1, <2>2 DEF Own
    <3>2. v \notin stale[q] /\ file'[v] = file[v]
      BY <2>2, <3>1 DEF Rename, Shows
    <3> QED BY <3>1, <3>2 DEF ProcessesInv, Knows
  <2> QED BY <2>1, <2>2
<1> QED BY <1>4, <1>5, <1>6, <1>7 DEF ProcessesInv

LEMMA DisksKeep == ProcessesInv /\ (Flush \/ PowerLoss) => ProcessesInv'
<1> SUFFICES ASSUME ProcessesInv, Flush \/ PowerLoss PROVE ProcessesInv'
  OBVIOUS
<1>1. CASE Flush
  BY <1>1 DEF Flush, ProcessesInv, ProcessesTypeOK, Knows, FlushedFirst, Issued, Own
<1>2. CASE PowerLoss
  <2>0. Blank \in Lists /\ \A u \in Users : Blank[u] = 0
    BY IssuedBound DEF Blank, Lists
  <2>1. file' \in {file, durable} /\ durable' = file' /\ contents' = "flushed"
    BY <1>2 DEF PowerLoss, ProcessesInv, FlushedFirst
  <2>2. ProcessesTypeOK'
    BY <1>2, <2>0, <2>1 DEF PowerLoss, ProcessesInv, ProcessesTypeOK
  <2>3. Issued'
    <3>1. \A u \in Users : issued[u] \in Nat
      BY DEF ProcessesInv, ProcessesTypeOK, Lists
    <3> QED BY <1>2, <2>0, <2>1, <3>1 DEF PowerLoss, ProcessesInv, Issued, Own
  <2>4. FlushedFirst' /\ Knows'
    BY <1>2, <2>1 DEF PowerLoss, FlushedFirst, Knows
  <2> QED BY <2>2, <2>3, <2>4 DEF ProcessesInv
<1> QED BY <1>1, <1>2

LEMMA ProcessesStep == ProcessesInv /\ [Next]_vars => ProcessesInv'
<1> SUFFICES ASSUME ProcessesInv, [Next]_vars PROVE ProcessesInv'
  OBVIOUS
<1>1. ASSUME NEW p \in Procs, Step(p) PROVE ProcessesInv'
  <2>1. CASE Start(p) \/ Upsert(p) \/ Rename(p)
    BY <2>1, StartKeeps, UpsertKeeps, RenameKeeps
  <2>2. CASE Stop(p) \/ TimedOut(p)
    BY <2>2, LeavesKeep DEF Stop, TimedOut
  <2>3. CASE \E u \in Users : Refreshed(p, u) \/ Authorized(p, u) \/ Exchanged(p, u)
    BY <2>3, RefreshKeeps, ObtainsKeeps DEF Authorized, Exchanged
  <2>4. CASE Poll(p) \/ Deadline(p) \/ Pending(p) \/ UserInfo(p) \/ Sync(p) \/ WriteFails(p)
    BY <2>4, MovesKeep
  <2> QED BY <1>1, <2>1, <2>2, <2>3, <2>4 DEF Step
<1>2. CASE UNCHANGED vars
  BY <1>2 DEF vars, ProcessesInv, ProcessesTypeOK, Knows, FlushedFirst, Issued, Own
<1> QED BY <1>1, <1>2, DisksKeep DEF Next

(* The inductive invariant: types, what a process knows of the file, and   *)
(* that nothing gets the file's name that is not on the disk.              *)
THEOREM ProcessesInvariance == Spec => []ProcessesInv
BY ProcessesStart, ProcessesStep, PTL DEF Spec

(* Whatever ends at whatever step, the file can be read.                   *)
THEOREM AlwaysReadable == Spec => []FileReadable
<1>1. ProcessesInv => FileReadable
  BY DEF ProcessesInv, FlushedFirst, FileReadable
<1> QED BY <1>1, ProcessesInvariance, PTL

(* What is lost from the file, and who can lose it.                        *)
THEOREM LossesAreExplained == Spec => LossesExplained
<1>1. ProcessesInv /\ [Next]_vars =>
        [\A u \in Users : file'[u] < file[u] =>
           PowerLoss \/ \E p \in Procs : Rename(p) /\ u \in stale[p] \cup Own(p)]_vars
  <2> SUFFICES ASSUME ProcessesInv, Next, NEW u \in Users, file'[u] < file[u], ~PowerLoss
               PROVE  \E p \in Procs : Rename(p) /\ u \in stale[p] \cup Own(p)
    OBVIOUS
  <2>1. file[u] \in Nat
    BY DEF ProcessesInv, ProcessesTypeOK, Lists
  <2>2. file' # file
    BY <2>1
  <2>3. PICK p \in Procs : Rename(p)
    BY <2>2 DEF Next, Step, Start, Stop, Refreshed, Authorized, Exchanged, Obtains, Poll,
                Deadline, TimedOut, Pending, UserInfo, Upsert, Sync, WriteFails, Flush, disk
  <2>4. list[p][u] < file[u] /\ list[p][u] \in Nat
    BY <2>3 DEF Rename, ProcessesInv, ProcessesTypeOK, Lists
  <2>5. u \in stale[p] \cup Own(p)
    BY <2>1, <2>3, <2>4 DEF Rename, ProcessesInv, Knows
  <2> QED BY <2>3, <2>5
<1> QED BY <1>1, ProcessesInvariance, PTL DEF Spec, LossesExplained
=============================================================================
