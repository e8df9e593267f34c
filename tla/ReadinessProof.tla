--------------------------- MODULE ReadinessProof ---------------------------
(***************************************************************************)
(* Proofs about Catalog and Readiness, for every number of accounts,       *)
(* requests and models: fetches that overlap keep the last listing.        *)
(***************************************************************************)
EXTENDS Readiness, TLAPS

CatalogInv == CatalogTypeOK /\ HitIsGood /\ RemembersListing

(* A listing and the fallback are snapshots.                               *)
LEMMA SnapshotsMade ==
  ASSUME NEW a \in Owners
  PROVE  /\ \A ms \in Offers[a] : Listing(a, ms) \in Snapshots /\ Good(Listing(a, ms))
         /\ Fallback(a) \in Snapshots /\ ~Good(Fallback(a))
<1>1. \A ms \in Offers[a] : ms \in SUBSET Models /\ ms # {}
  BY Listings
<1>2. {Lite} \in SUBSET Models /\ {Lite} # {}
  BY LiteModel
<1> QED BY <1>1, <1>2 DEF Listing, Fallback, Snapshots, Good

LEMMA CatalogStart == CatalogInit => CatalogInv
  BY CatalogTTL DEF CatalogInit, CatalogInv, CatalogTypeOK, HitIsGood, RemembersListing,
                    Empty, Snapshots, Good

(* What a step does to the snapshot: nothing, or a listing just brought,   *)
(* or the fallback where no good one was.                                  *)
LEMMA SnapshotChanges ==
  ASSUME CatalogInv, CatalogNext
  PROVE  \/ UNCHANGED <<snapshot, brought>>
         \/ \E a \in Owners : \E ms \in Offers[a] :
              snapshot' = Listing(a, ms) /\ brought' = snapshot'
         \/ /\ ~Good(snapshot) /\ brought' = brought
            /\ \E a \in Owners : snapshot' = Fallback(a)
<1>1. ASSUME NEW c \in Callers, Fetched(c)
      PROVE  \E a \in Owners : \E ms \in Offers[a] :
               snapshot' = Listing(a, ms) /\ brought' = snapshot'
  <2>1. asked[c] \in Owners
    BY <1>1 DEF CatalogInv, CatalogTypeOK, Fetched
  <2> QED BY <1>1, <2>1 DEF Fetched
<1>2. ASSUME NEW c \in Callers, FetchFailed(c)
      PROVE  \/ UNCHANGED <<snapshot, brought>>
             \/ /\ ~Good(snapshot) /\ brought' = brought
                /\ \E a \in Owners : snapshot' = Fallback(a)
  <2>1. asked[c] \in Owners
    BY <1>2 DEF CatalogInv, CatalogTypeOK, FetchFailed
  <2> QED BY <1>2, <2>1 DEF FetchFailed
<1>3. CASE Age \/ \E c \in Callers : Hit(c) \/ Used(c) \/ \E a \in Owners : Get(c, a)
  BY <1>3 DEF Age, Get, Hit, Used
<1> QED BY <1>1, <1>2, <1>3 DEF CatalogNext

LEMMA CatalogStep == CatalogInv /\ [CatalogNext]_catalogVars => CatalogInv'
<1> SUFFICES ASSUME CatalogInv, [CatalogNext]_catalogVars PROVE CatalogInv'
  OBVIOUS
<1>1. CASE UNCHANGED catalogVars
  BY <1>1 DEF catalogVars, CatalogInv, CatalogTypeOK, HitIsGood, RemembersListing, Good
<1>2. CASE CatalogNext
  <2>1. /\ snapshot' \in Snapshots
        /\ brought' = Empty \/ (brought' \in Snapshots /\ Good(brought'))
        /\ Good(snapshot) => Good(snapshot')
        /\ RemembersListing'
    <3>1. /\ snapshot \in Snapshots /\ RemembersListing
          /\ brought = Empty \/ (brought \in Snapshots /\ Good(brought))
      BY DEF CatalogInv, CatalogTypeOK
    <3>2. CASE UNCHANGED <<snapshot, brought>>
      BY <3>1, <3>2 DEF RemembersListing, Good
    <3>3. ASSUME NEW a \in Owners, NEW ms \in Offers[a],
                 snapshot' = Listing(a, ms), brought' = snapshot'
          PROVE  snapshot' \in Snapshots /\ Good(snapshot') /\ RemembersListing'
      BY <3>3, SnapshotsMade DEF RemembersListing, Good, Empty
    <3>4. ASSUME NEW a \in Owners, ~Good(snapshot), brought' = brought,
                 snapshot' = Fallback(a)
          PROVE  snapshot' \in Snapshots /\ RemembersListing'
      <4>1. brought = Empty
        BY <3>1, <3>4 DEF RemembersListing
      <4> QED BY <3>4, <4>1, SnapshotsMade DEF RemembersListing, Good
    <3> QED BY <1>2, <3>1, <3>2, <3>3, <3>4, SnapshotChanges
  <2>2. Empty \in Snapshots /\ snapshot \in Snapshots
    BY DEF Empty, Snapshots, CatalogInv, CatalogTypeOK
  <2>3. age' \in 0..TTL
    BY <1>2, CatalogTTL DEF CatalogNext, Get, Hit, Fetched, FetchFailed, Used, Age,
                            CatalogInv, CatalogTypeOK
  <2>4. ASSUME NEW c \in Callers, NEW a \in Owners, Get(c, a)
        PROVE  CatalogInv'
    <3>1. phase'[c] = "hit" => Good(snapshot)
      BY <2>4 DEF Get, Fresh, CatalogInv, CatalogTypeOK
    <3> QED BY <2>1, <2>2, <2>3, <2>4, <3>1 DEF Get, CatalogInv, CatalogTypeOK, HitIsGood
  <2>5. ASSUME NEW c \in Callers, Hit(c) \/ Fetched(c) \/ FetchFailed(c)
        PROVE  CatalogInv'
    <3>1. \E s \in Snapshots : Done(c, s)
      BY <2>1, <2>2, <2>5 DEF Hit, Fetched, FetchFailed
    <3> QED BY <2>1, <2>3, <3>1 DEF Done, CatalogInv, CatalogTypeOK, HitIsGood
  <2>6. CASE Age
    BY <2>1, <2>3, <2>6 DEF Age, CatalogInv, CatalogTypeOK, HitIsGood
  <2>7. ASSUME NEW c \in Callers, Used(c) PROVE CatalogInv'
    BY <2>1, <2>2, <2>3, <2>7 DEF Used, CatalogInv, CatalogTypeOK, HitIsGood
  <2> QED BY <1>2, <2>4, <2>5, <2>6, <2>7 DEF CatalogNext
<1> QED BY <1>1, <1>2

(* The server uses the catalog only by Get and its steps.                  *)
LEMMA ServerGets == [ReadinessNext]_readinessVars => [CatalogNext]_catalogVars
<1> SUFFICES ASSUME [ReadinessNext]_readinessVars PROVE [CatalogNext]_catalogVars
  OBVIOUS
<1>1. CASE PrimeNoAccount \/ Readyz \/ \E ok \in BOOLEAN : PrimeTransport(ok)
  BY <1>1 DEF PrimeNoAccount, Readyz, PrimeTransport, SetReady
<1>2. CASE PrimeWaits \/ Serving \/ \E a \in Owners : PrimeCatalog(a)
  BY <1>2, StarterCalls DEF PrimeWaits, Serving, PrimeCatalog, CatalogNext
<1>3. CASE UNCHANGED readinessVars
  BY <1>3 DEF readinessVars
<1> QED BY <1>1, <1>2, <1>3 DEF ReadinessNext

LEMMA ServerUsesCatalog == ReadinessSpec => CatalogSpec
<1>1. ReadinessInit => CatalogInit
  BY DEF ReadinessInit
<1> QED BY <1>1, ServerGets, PTL DEF ReadinessSpec, CatalogSpec

(* Whoever is told of a fresh listing reads a good one, whatever fetches   *)
(* end between the two read locks.                                         *)
THEOREM HitsAreGood == ReadinessSpec => []HitIsGood
<1>1. CatalogSpec => []CatalogInv
  BY CatalogStart, CatalogStep, PTL DEF CatalogSpec
<1>2. CatalogInv => HitIsGood
  BY DEF CatalogInv
<1> QED BY <1>1, <1>2, ServerUsesCatalog, PTL

(* However fetches overlap, fail and end, the catalog shows the listing    *)
(* brought last, as it was brought.                                        *)
THEOREM ListingRemembered == ReadinessSpec => []RemembersListing
<1>1. CatalogSpec => []CatalogInv
  BY CatalogStart, CatalogStep, PTL DEF CatalogSpec
<1>2. CatalogInv => RemembersListing
  BY DEF CatalogInv
<1> QED BY <1>1, <1>2, ServerUsesCatalog, PTL

(* The types of the whole, which say that whoever is in Get asked for an   *)
(* account, and that locks are counted within the bound.                   *)
THEOREM ReadinessTyped == ReadinessSpec => []ReadinessTypeOK
<1> DEFINE OwnTypes == /\ primed \in {"start", "catalog", "done"}
                       /\ ready \in BOOLEAN /\ degraded \in BOOLEAN
                       /\ readers \in 0..MaxReaders
<1>1. ReadinessInit => OwnTypes
  <2>1. 0 \in 0..MaxReaders
    BY ReaderBound
  <2> QED BY <2>1, Zenon DEF ReadinessInit
<1>2. CatalogTypeOK /\ OwnTypes /\ [ReadinessNext]_readinessVars => OwnTypes'
  <2> SUFFICES ASSUME CatalogTypeOK, OwnTypes, [ReadinessNext]_readinessVars PROVE OwnTypes'
    OBVIOUS
  <2>1. CASE PrimeNoAccount \/ PrimeWaits \/ Serving \/ (\E a \in Owners : PrimeCatalog(a))
             \/ UNCHANGED readinessVars
    BY <2>1 DEF PrimeNoAccount, SetReady, PrimeWaits, Serving, PrimeCatalog, readinessVars
  <2>2. ASSUME NEW ok \in BOOLEAN, PrimeTransport(ok) PROVE OwnTypes'
    <3>1. got[Starter] \in Snapshots
      BY StarterCalls DEF CatalogTypeOK
    <3>2. got[Starter].degraded \in BOOLEAN
      BY <3>1 DEF Snapshots
    <3> QED BY <2>2, <3>2 DEF PrimeTransport, SetReady
  <2>3. CASE Readyz
    <3>1. readers' \in 0..MaxReaders
      BY <2>3, ReaderBound DEF Readyz
    <3> QED BY <2>3, <3>1, Zenon DEF Readyz
  <2> QED BY <2>1, <2>2, <2>3 DEF ReadinessNext
<1>3. CatalogSpec => []CatalogInv
  BY CatalogStart, CatalogStep, PTL DEF CatalogSpec
<1>4. CatalogInv => CatalogTypeOK
  BY DEF CatalogInv
<1>5. CatalogTypeOK /\ OwnTypes => ReadinessTypeOK
  BY DEF ReadinessTypeOK
<1> QED BY <1>1, <1>2, <1>3, <1>4, <1>5, ServerUsesCatalog, PTL DEF ReadinessSpec
=============================================================================
