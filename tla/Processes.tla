----------------------------- MODULE Processes -----------------------------
(***************************************************************************)
(* The commands of cmd/qoder-proxy as processes that share one credentials *)
(* file: serve, models and doctor load a list of accounts, refresh         *)
(* credentials in it and write the whole list back (Store.Replace); login  *)
(* and import-pat obtain one credential and put it into the list of the    *)
(* file (Store.Upsert).  No lock is held between processes; Store.mu and   *)
(* what goes on inside serve are Pool's.  A process may end at any step,   *)
(* and the power may fail.                                                 *)
(***************************************************************************)
EXTENDS Integers, FiniteSets

CONSTANTS
  Users,      \* who can have an account: region and user id
  Known,      \* those who have one in the file at the start
  Servers,    \* processes that run serve
  Tools,      \* processes that run models or doctor
  Logins,     \* processes that run login
  Imports,    \* processes that run import-pat
  NoAccount,  \* no credential yet
  MaxIssued   \* bound: credentials issued to a user

ASSUME Commands ==
  /\ Servers \cap (Tools \cup Logins \cup Imports) = {} /\ Tools \cap (Logins \cup Imports) = {}
  /\ Logins \cap Imports = {}
ASSUME NullAccount == NoAccount \notin [user : Users, cred : 1..MaxIssued]
ASSUME IssuedBound == MaxIssued \in Nat \ {0}
ASSUME KnownUsers  == Known \subseteq Users

Holders == Servers \cup Tools
Adders  == Logins \cup Imports
Procs   == Holders \cup Adders

VARIABLES
  file,       \* the credentials file: per user the credential, by age, 0 for none
  contents,   \* of the file: flushed, cached (only in memory), or torn
  durable,    \* what the disk shows under the file's name
  issued,     \* credentials issued per user
  pc,         \* per process: where it is
  list,       \* per process: its accounts
  account,    \* per login or import: the credential it has got
  flushed,    \* processes whose temporary file is on the disk
  expired,    \* logins whose five minutes are over
  stale       \* history, per process that has the list it writes: users whose
              \* entry in the file others have changed since it took that list

vars == <<file, contents, durable, issued, pc, list, account, flushed, expired, stale>>
disk == <<file, contents, durable>>

Lists    == [Users -> 0..MaxIssued]
Blank    == [u \in Users |-> 0]
Accounts == [user : Users, cred : 1..MaxIssued]

Init ==
  /\ issued = [u \in Users |-> IF u \in Known THEN 1 ELSE 0]
  /\ file = issued /\ durable = file /\ contents = "flushed"
  /\ pc = [p \in Procs |-> "off"] /\ list = [p \in Procs |-> Blank]
  /\ account = [p \in Procs |-> NoAccount]
  /\ flushed = {} /\ expired = {}
  /\ stale = [p \in Procs |-> {}]

Move(p, at) == pc' = [pc EXCEPT ![p] = at]

TakeList(p, accounts) ==
  /\ list' = [list EXCEPT ![p] = accounts]
  /\ stale' = [stale EXCEPT ![p] = {}]

\* The process is gone, and its temporary file with it.
Leave(p) ==
  /\ Move(p, "off")
  /\ TakeList(p, Blank)
  /\ account' = [account EXCEPT ![p] = NoAccount]
  /\ flushed' = flushed \ {p} /\ expired' = expired \ {p}

\* components loads the file, for login and import-pat too.
Start(p) ==
  /\ pc[p] = "off" /\ contents # "torn"
  /\ Move(p, CASE p \in Holders -> "up" [] p \in Logins -> "poll" [] p \in Imports -> "exchange")
  /\ TakeList(p, file)
  /\ UNCHANGED <<disk, issued, account, flushed, expired>>

\* Any error that ends the command, an interrupt, a kill; or its normal end.
Stop(p) == pc[p] # "off" /\ Leave(p) /\ UNCHANGED <<disk, issued>>

\* A credential newer than all others of the user.
Issue(u) == issued[u] < MaxIssued /\ issued' = [issued EXCEPT ![u] = @ + 1]

\* AuthClient.Refresh for an account of the list, and the write that follows.  The
\* upstream need not rotate refresh tokens, so that it may accept one that another
\* process has sent; a refresh that fails changes nothing here.
Refreshed(p, u) ==
  /\ pc[p] = "up" /\ list[p][u] > 0
  /\ Issue(u)
  /\ list' = [list EXCEPT ![p][u] = issued'[u]]
  /\ Move(p, "write")
  /\ UNCHANGED <<disk, account, flushed, expired, stale>>

\* The ticker's case in PollDeviceFlow.
Poll(p) ==
  /\ pc[p] = "poll"
  /\ Move(p, "asking")
  /\ UNCHANGED <<disk, issued, list, account, flushed, expired, stale>>

\* The timer of five minutes.
Deadline(p) ==
  /\ pc[p] \in {"poll", "asking"} /\ p \notin expired
  /\ expired' = expired \cup {p}
  /\ UNCHANGED <<disk, issued, pc, list, account, flushed, stale>>

\* Mutation of TimedOut: a break that only leaves the select.
TimedOutBreaks(p) ==
  /\ pc[p] = "poll" /\ p \in expired
  /\ Move(p, "asking")
  /\ expired' = expired \ {p}
  /\ UNCHANGED <<disk, issued, list, account, flushed, stale>>

\* The timer's case; select takes either when both are ready.
TimedOut(p) == pc[p] = "poll" /\ p \in expired /\ Leave(p) /\ UNCHANGED <<disk, issued>>

\* 404 or 202: not authorized yet.
Pending(p) ==
  /\ pc[p] = "asking"
  /\ Move(p, "poll")
  /\ UNCHANGED <<disk, issued, list, account, flushed, expired, stale>>

\* A new credential of user u, with a usable expiry.
Obtains(p, u) ==
  /\ Issue(u)
  /\ account' = [account EXCEPT ![p] = [user |-> u, cred |-> issued'[u]]]
  /\ Move(p, "userinfo")
  /\ UNCHANGED <<disk, list, flushed, expired, stale>>

\* The poll brings it, once the user has authorized the login.
Authorized(p, u) == pc[p] = "asking" /\ Obtains(p, u)

\* The personal access token is exchanged for it.
Exchanged(p, u) == pc[p] = "exchange" /\ Obtains(p, u)

UserInfo(p) ==
  /\ pc[p] = "userinfo"
  /\ Move(p, "upsert")
  /\ UNCHANGED <<disk, issued, list, account, flushed, expired, stale>>

Put(accounts, a) == [accounts EXCEPT ![a.user] = a.cred]

\* Mutation of Upsert: the list that components loaded is written back.
UpsertLoaded(p) ==
  /\ pc[p] = "upsert" /\ contents # "torn"
  /\ list' = [list EXCEPT ![p] = Put(@, account[p])]
  /\ Move(p, "write")
  /\ UNCHANGED <<disk, issued, account, flushed, expired, stale>>

\* Upsert loads the file again and replaces the user's account or adds it.
Upsert(p) ==
  /\ pc[p] = "upsert" /\ contents # "torn"
  /\ list' = [list EXCEPT ![p] = Put(file, account[p])]
  /\ Move(p, "write")
  /\ UNCHANGED <<disk, issued, account, flushed, expired, stale>>

\* Mutation of Sync: the temporary file is written and closed, not flushed.
SyncNot(p) ==
  /\ pc[p] = "write"
  /\ Move(p, "rename")
  /\ UNCHANGED <<disk, issued, list, account, flushed, expired, stale>>

\* CreateTemp, Chmod, Write, Sync, Close.
Sync(p) ==
  /\ pc[p] = "write"
  /\ flushed' = flushed \cup {p}
  /\ Move(p, "rename")
  /\ UNCHANGED <<disk, issued, list, account, expired, stale>>

\* What a rename by p puts out of date in the list that q writes.  A login or
\* import takes that list in Upsert: before, it has nothing that can get old.
Shows(q, p) ==
  IF q # p /\ pc[q] \in {"up", "write", "rename"} THEN {u \in Users : file'[u] # file[u]}
                                                ELSE {}

\* Other processes see the new file at once, the disk does later.  serve goes on,
\* whether the last Chmod succeeds or not; the other commands are at their end.
Rename(p) ==
  /\ pc[p] = "rename"
  /\ file' = list[p]
  /\ contents' = IF p \in flushed THEN "flushed" ELSE "cached"
  /\ pc' = [pc EXCEPT ![p] = IF p \in Servers THEN "up" ELSE "off"]
  /\ list' = [list EXCEPT ![p] = IF p \in Servers THEN @ ELSE Blank]
  /\ account' = [account EXCEPT ![p] = NoAccount]
  /\ flushed' = flushed \ {p} /\ expired' = expired \ {p}
  /\ stale' = [q \in Procs |-> IF q = p THEN {} ELSE stale[q] \cup Shows(q, p)]
  /\ UNCHANGED <<durable, issued>>

\* A step before the rename fails: serve goes on with the list it has in memory,
\* and writes that one after the next refresh.  (The others stop.)
WriteFails(p) ==
  /\ pc[p] \in {"write", "rename"} /\ p \in Servers
  /\ Move(p, "up")
  /\ flushed' = flushed \ {p}
  /\ UNCHANGED <<disk, issued, list, account, expired, stale>>

\* External: the directory reaches the disk.
Flush ==
  /\ durable # file /\ contents = "flushed"
  /\ durable' = file
  /\ UNCHANGED <<file, contents, issued, pc, list, account, flushed, expired, stale>>

\* External: every process ends.  The disk shows the last rename or, since the
\* directory was not flushed, the file of before; contents not flushed are lost.
PowerLoss ==
  /\ \/ file' = durable /\ contents' = "flushed"
     \/ file' = file /\ contents' = IF contents = "cached" THEN "torn" ELSE contents
  /\ durable' = file'
  /\ pc' = [p \in Procs |-> "off"] /\ list' = [p \in Procs |-> Blank]
  /\ account' = [p \in Procs |-> NoAccount]
  /\ flushed' = {} /\ expired' = {} /\ stale' = [p \in Procs |-> {}]
  /\ UNCHANGED issued

Step(p) ==
  \/ Start(p) \/ Stop(p)
  \/ \E u \in Users : Refreshed(p, u) \/ Authorized(p, u) \/ Exchanged(p, u)
  \/ Poll(p) \/ Deadline(p) \/ TimedOut(p) \/ Pending(p) \/ UserInfo(p)
  \/ Upsert(p) \/ Sync(p) \/ Rename(p) \/ WriteFails(p)

Next == (\E p \in Procs : Step(p)) \/ Flush \/ PowerLoss

Spec == Init /\ [][Next]_vars

\* A login goes on with what it is at: the ticker ticks, polls are answered (they
\* have no timeout of their own once the headers are there), the file is written.
LoginGoesOn(p) ==
  \/ Poll(p) \/ Pending(p) \/ UserInfo(p) \/ Upsert(p) \/ Sync(p) \/ Rename(p)

\* select chooses at random between the ticker and the timer.
FairSpec ==
  /\ Spec
  /\ \A p \in Logins : WF_vars(LoginGoesOn(p)) /\ WF_vars(Deadline(p)) /\ SF_vars(TimedOut(p))

-----------------------------------------------------------------------------
ProcessesTypeOK ==
  /\ issued \in Lists /\ file \in Lists /\ durable \in Lists
  /\ contents \in {"flushed", "cached", "torn"}
  /\ pc \in [Procs -> {"off", "up", "poll", "asking", "exchange", "userinfo", "upsert",
                       "write", "rename"}]
  /\ list \in [Procs -> Lists]
  /\ account \in [Procs -> Accounts \cup {NoAccount}]
  /\ \A p \in Procs : pc[p] \in {"userinfo", "upsert"} => account[p] \in Accounts
  /\ flushed \subseteq Procs /\ expired \subseteq Procs
  /\ stale \in [Procs -> SUBSET Users]

\* The account a login or import is there to write.
Own(p) == IF account[p] = NoAccount THEN {} ELSE {account[p].user}

\* What a process is about to write is as new as the file, except where another
\* process has written the file since it looked: a server or tool at its start, a
\* login or import in Upsert.
Knows ==
  \A p \in Procs : pc[p] \in {"up", "write", "rename"} =>
    \A u \in Users \ (stale[p] \cup Own(p)) : file[u] <= list[p][u]

\* Nothing is renamed to the file that a power loss could tear.
FlushedFirst ==
  /\ contents = "flushed"
  /\ \A p \in Procs : pc[p] = "rename" => p \in flushed

\* No credential is beyond the last one issued.
Issued ==
  \A u \in Users :
    /\ file[u] <= issued[u] /\ durable[u] <= issued[u]
    /\ \A p \in Procs : /\ list[p][u] <= issued[u]
                        /\ u \in Own(p) => account[p].cred <= issued[u]

ProcessesInv == ProcessesTypeOK /\ Knows /\ FlushedFirst /\ Issued

\* The file can always be read: whichever process ends at whichever step, and also
\* after a power loss, it is a list that a process wrote as a whole.
FileReadable == contents # "torn"

\* Short of a power loss, an account leaves the file, or goes back to an older
\* credential in it, only by a server or tool that had loaded its list before
\* another process wrote that entry (README.md:64 warns of serve after a login), by
\* a login or import that another one overtook between its Upsert and its rename,
\* or by a login or import of that very account.  What was written while a login
\* waited for its user is kept: it is no excuse that its command loaded the file
\* at the start.
LossesExplained ==
  [][\A u \in Users : file'[u] < file[u] =>
       PowerLoss \/ \E p \in Procs : Rename(p) /\ u \in stale[p] \cup Own(p)]_vars

\* login ends whatever the upstream answers to its polls and whether or not the
\* user authorizes it (README.md:60).
LoginEnds == \A p \in Logins : pc[p] # "off" ~> pc[p] = "off"
=============================================================================
