------------------------------- MODULE Catalog -------------------------------
(***************************************************************************)
(* The model catalog of internal/qoder/catalog.go: one snapshot shared by  *)
(* every account and request.  Get decides under the read lock, fetches    *)
(* without a lock, and stores under the write lock, so that fetches        *)
(* overlap and end in any order.                                           *)
(***************************************************************************)
EXTENDS Integers, FiniteSets

CONSTANTS
  Owners,     \* accounts
  Callers,    \* goroutines that call Get
  NoOwner,    \* CatalogSnapshot.AccountID of the empty snapshot
  Models,     \* model keys
  Lite,       \* the key of the conservative fallback
  Offers,     \* external: the listings the upstream may answer for an account
  TTL         \* Catalog.TTL, in ticks

ASSUME LiteModel  == Lite \in Models
ASSUME CatalogTTL == TTL \in Nat
ASSUME NullOwner  == NoOwner \notin Owners
ASSUME Listings   == Offers \in [Owners -> SUBSET ((SUBSET Models) \ {{}})]

VARIABLES
  snapshot,   \* Catalog.snapshot
  age,        \* ticks since snapshot.FetchedAt, which matter up to the TTL
  phase,      \* per goroutine: where it is in Get
  asked,      \* per goroutine: the account Get was called for
  got,        \* per goroutine: the snapshot Get read at first, then the one it returned
  brought     \* history: the listing that a fetch brought last

catalogVars == <<snapshot, age, phase, asked, got, brought>>

Snapshots == [models : SUBSET Models, owner : Owners \cup {NoOwner},
              degraded : BOOLEAN]

Empty == [models |-> {}, owner |-> NoOwner, degraded |-> FALSE]
Listing(a, ms) == [models |-> ms, owner |-> a, degraded |-> FALSE]
Fallback(a) == [models |-> {Lite}, owner |-> a, degraded |-> TRUE]

CatalogInit ==
  /\ snapshot = Empty /\ age = TTL
  /\ phase = [c \in Callers |-> "idle"]
  /\ asked = [c \in Callers |-> NoOwner]
  /\ got = [c \in Callers |-> Empty]
  /\ brought = Empty

Good(s) == s.models # {} /\ ~s.degraded

\* fresh: under the read lock.
Fresh(a) == Good(snapshot) /\ snapshot.owner = a /\ age < TTL

\* Mutation of Get: the account is kept only for a fetch.
GetForgets(c, a) ==
  /\ phase[c] = "idle"
  /\ phase' = [phase EXCEPT ![c] = IF Fresh(a) THEN "hit" ELSE "fetch"]
  /\ asked' = [asked EXCEPT ![c] = IF Fresh(a) THEN NoOwner ELSE a]
  /\ got' = [got EXCEPT ![c] = snapshot]
  /\ UNCHANGED <<snapshot, age, brought>>

Get(c, a) ==
  /\ phase[c] = "idle"
  /\ phase' = [phase EXCEPT ![c] = IF Fresh(a) THEN "hit" ELSE "fetch"]
  /\ asked' = [asked EXCEPT ![c] = a]
  /\ got' = [got EXCEPT ![c] = snapshot]
  /\ UNCHANGED <<snapshot, age, brought>>

Done(c, s) ==
  /\ phase' = [phase EXCEPT ![c] = "idle"]
  /\ got' = [got EXCEPT ![c] = s]
  /\ UNCHANGED asked

\* Snapshot(): the read lock is taken a second time.
Hit(c) ==
  /\ phase[c] = "hit"
  /\ Done(c, snapshot)
  /\ UNCHANGED <<snapshot, age, brought>>

\* fetch brought the account's enabled models, of which there is one at least.
Fetched(c) ==
  /\ phase[c] = "fetch"
  /\ \E ms \in Offers[asked[c]] : snapshot' = Listing(asked[c], ms)
  /\ age' = 0
  /\ brought' = snapshot'
  /\ Done(c, snapshot')

\* Mutation of FetchFailed: the fallback is installed over a good snapshot.
FetchFailedFallsBack(c) ==
  /\ phase[c] = "fetch"
  /\ snapshot' = Fallback(asked[c])
  /\ age' = 0
  /\ Done(c, snapshot')
  /\ UNCHANGED brought

\* Mutation of FetchFailed: the good listing Get saw is put back.
FetchFailedSeen(c) ==
  /\ phase[c] = "fetch"
  /\ snapshot' = CASE Good(got[c]) -> got[c]
                 [] Good(snapshot) /\ ~Good(got[c]) -> snapshot
                 [] OTHER -> Fallback(asked[c])
  /\ age' = IF Good(snapshot') THEN age ELSE 0
  /\ Done(c, snapshot')
  /\ UNCHANGED brought

\* fetch failed: the last good snapshot stands, whoever it belongs to, and
\* without one the fallback takes its place.
FetchFailed(c) ==
  /\ phase[c] = "fetch"
  /\ snapshot' = IF Good(snapshot) THEN snapshot ELSE Fallback(asked[c])
  /\ age' = IF Good(snapshot) THEN age ELSE 0
  /\ Done(c, snapshot')
  /\ UNCHANGED brought

\* The caller is through with the snapshot Get gave it.
Used(c) ==
  /\ phase[c] = "idle"
  /\ asked' = [asked EXCEPT ![c] = NoOwner]
  /\ got' = [got EXCEPT ![c] = Empty]
  /\ UNCHANGED <<snapshot, age, phase, brought>>

Age ==
  /\ age' = IF age < TTL THEN age + 1 ELSE age
  /\ UNCHANGED <<snapshot, phase, asked, got, brought>>

CatalogNext ==
  \/ \E c \in Callers : \/ \E a \in Owners : Get(c, a)
                        \/ Hit(c) \/ Fetched(c) \/ FetchFailed(c) \/ Used(c)
  \/ Age

CatalogSpec == CatalogInit /\ [][CatalogNext]_catalogVars

-----------------------------------------------------------------------------
CatalogTypeOK ==
  /\ snapshot \in Snapshots /\ age \in 0..TTL
  /\ phase \in [Callers -> {"idle", "hit", "fetch"}]
  /\ asked \in [Callers -> Owners \cup {NoOwner}]
  /\ \A c \in Callers : phase[c] # "idle" => asked[c] \in Owners
  /\ got \in [Callers -> Snapshots]
  /\ brought = Empty \/ (brought \in Snapshots /\ Good(brought))

\* A goroutine that was told of a fresh listing finds one when it reads the
\* snapshot again without the lock it decided under, neither the empty snapshot
\* nor the fallback: fetches that fail meanwhile do not take it away.
HitIsGood == \A c \in Callers : phase[c] = "hit" => Good(snapshot)

\* The catalog shows the listing that a fetch brought last, as it was brought and
\* for the account it was brought for, and until a fetch has brought one it shows
\* none (README.md:215).  Of fetches that overlap the last to bring one counts; one
\* that fails later neither puts back the listing its Get saw, nor puts the fallback
\* over one brought meanwhile, nor passes it off as its own account's.
RemembersListing ==
  IF brought = Empty THEN ~Good(snapshot) ELSE snapshot = brought

=============================================================================
