---------------------------- MODULE RoutingProof ----------------------------
(***************************************************************************)
(* Proofs about Transports and Routing, for every number of accounts,      *)
(* requests and models, every region and every configured transport:       *)
(* first that the transports keep their invariant, then that routing uses  *)
(* both the catalog and the transports as their specifications say, which  *)
(* carries the proofs of ReadinessProof over to it.                        *)
(***************************************************************************)
EXTENDS Routing, ReadinessProof

LEMMA TransportsStart == TransportsInit => TransportsInv
<1> SUFFICES ASSUME TransportsInit PROVE TransportsInv
  OBVIOUS
<1>1. TransportsTypeOK
  BY DEF TransportsInit, TransportsTypeOK
<1>2. CacheSound
  BY DEF TransportsInit, CacheSound, CacheKeys
<1>3. ProbeSound /\ ConcreteByCosy /\ ForcedKept /\ ProbedFirst
  BY DEF TransportsInit, ProbeSound, ConcreteByCosy, ForcedKept, ProbedFirst, Generating
<1> QED BY <1>1, <1>2, <1>3 DEF TransportsInv

(* An entry of the cache serves one account, and either all tiers or one   *)
(* concrete model.                                                         *)
LEMMA KeyOf ==
  ASSUME NEW a \in Owners, NEW m \in Models \cup {NoModel}
  PROVE  \E k \in Models \cup {NoModel} :
           CacheKey(a, m) = <<a, k>> /\ CacheKey(a, m) \in CacheKeys /\ (IsTier(k) <=> IsTier(m))
BY DEF CacheKey, CacheKeys, IsTier

LEMMA PickKeeps ==
  ASSUME TransportsInv, NEW c \in Callers, NEW a \in Owners, NEW m \in Models \cup {NoModel},
         Pick(c, a, m)
  PROVE  TransportsInv'
<1>1. PICK k \in Models \cup {NoModel} :
        CacheKey(a, m) = <<a, k>> /\ CacheKey(a, m) \in CacheKeys /\ (IsTier(k) <=> IsTier(m))
  BY KeyOf
<1>2. cache[<<a, k>>] \in Transport \cup {"none"} /\ forced \in Transport \cup {"auto"}
  BY <1>1 DEF TransportsInv, TransportsTypeOK
<1>3. FirstProbe(m) \in Transport /\ forced \in {"auto", FirstProbe(m)}
      /\ (forced = "auto" /\ ~IsTier(m) => FirstProbe(m) = "cosy")
  BY <1>2 DEF FirstProbe, Transport
<1>4. Cached(<<a, k>>) =>
        LET t == cache[<<a, k>>] IN
          /\ t \in Transport /\ forced \in {"auto", t}
          /\ forced = "auto" /\ ~IsTier(m) => t = "cosy"
          /\ <<a, t>> \in found \/ (t = "cosy" /\ a \in denied)
  BY <1>1, <1>2 DEF Cached, TransportsInv, CacheSound, Transport
<1>5. /\ forced' = forced /\ cache' = cache /\ found' = found /\ denied' = denied
      /\ \A d \in Callers \ {c} : /\ stage'[d] = stage[d] /\ who'[d] = who[d]
                                  /\ want'[d] = want[d] /\ via'[d] = via[d]
      /\ who'[c] = a /\ want'[c] = m
      /\ \/ Cached(<<a, k>>) /\ stage'[c] = "post" /\ via'[c] = cache[<<a, k>>]
         \/ stage'[c] = "probe" /\ via'[c] = FirstProbe(m)
  BY <1>1 DEF Pick, TransportsInv, TransportsTypeOK
<1>6. TransportsTypeOK'
  <2>1. via'[c] \in Transport /\ stage'[c] \in {"probe", "post"}
    BY <1>3, <1>4, <1>5
  <2>2. /\ stage' \in [Callers -> {"idle", "probe", "post"}]
        /\ who' \in [Callers -> Owners \cup {NoOwner}]
        /\ want' \in [Callers -> Models \cup {NoModel}]
        /\ via' \in [Callers -> Transport \cup {"none"}]
    BY <1>1, <1>2, <1>3 DEF Pick, TransportsInv, TransportsTypeOK
  <2> QED BY <1>5, <2>1, <2>2 DEF TransportsInv, TransportsTypeOK
<1>7. CacheSound'
  BY <1>5 DEF TransportsInv, CacheSound, IsTier
<1>8. ProbeSound' /\ ConcreteByCosy' /\ ForcedKept' /\ ProbedFirst'
  BY <1>3, <1>4, <1>5 DEF TransportsInv, ProbeSound, ConcreteByCosy, ForcedKept, ProbedFirst,
                          Generating, IsTier
<1> QED BY <1>6, <1>7, <1>8 DEF TransportsInv

(* A probe's result, and COSY after a fallback, may overwrite whatever     *)
(* another request has stored meanwhile: both are sound for the entry.     *)
LEMMA RememberKeeps ==
  ASSUME TransportsInv, NEW c \in Callers, NEW t \in Transport, Remember(c, t),
         stage[c] # "idle", forced' = forced,
         found \subseteq found', denied \subseteq denied',
         <<who[c], t>> \in found' \/ (t = "cosy" /\ who[c] \in denied'),
         forced \in {"auto", t}, forced = "auto" /\ ~IsTier(want[c]) => t = "cosy"
  PROVE  CacheSound' /\ cache' \in [CacheKeys -> Transport \cup {"none"}]
<1>1. who[c] \in Owners /\ want[c] \in Models \cup {NoModel}
  BY DEF TransportsInv, TransportsTypeOK
<1>2. PICK k \in Models \cup {NoModel} :
        /\ CacheKey(who[c], want[c]) = <<who[c], k>>
        /\ CacheKey(who[c], want[c]) \in CacheKeys /\ (IsTier(k) <=> IsTier(want[c]))
  BY <1>1, KeyOf
<1>3. cache' = [cache EXCEPT ![<<who[c], k>>] = t] /\ <<who[c], k>> \in CacheKeys
      /\ cache \in [CacheKeys -> Transport \cup {"none"}]
  BY <1>2 DEF Remember, TransportsInv, TransportsTypeOK
<1>4. ASSUME NEW a \in Owners, NEW m \in Models \cup {NoModel}, cache'[<<a, m>>] # "none"
      PROVE  LET u == cache'[<<a, m>>] IN
               /\ <<a, u>> \in found' \/ (u = "cosy" /\ a \in denied')
               /\ forced \in {"auto", u}
               /\ forced = "auto" /\ ~IsTier(m) => u = "cosy"
  <2>1. <<a, m>> \in CacheKeys
    BY DEF CacheKeys
  <2>2. CASE <<a, m>> = <<who[c], k>>
    <3>1. a = who[c] /\ m = k /\ cache'[<<a, m>>] = t
      BY <1>3, <2>2
    <3> QED BY <1>2, <3>1
  <2>3. CASE <<a, m>> # <<who[c], k>>
    <3>1. cache'[<<a, m>>] = cache[<<a, m>>]
      BY <1>3, <2>1, <2>3
    <3> QED BY <1>4, <3>1 DEF TransportsInv, CacheSound
  <2> QED BY <2>2, <2>3
<1>5. CacheSound'
  BY <1>4 DEF CacheSound, IsTier
<1> QED BY <1>3, <1>5

LEMMA StepKeeps ==
  ASSUME TransportsInv, NEW c \in Callers, TransportsStep(c)
  PROVE  TransportsInv'
<1>1. CASE \E a \in Owners, m \in Models \cup {NoModel} : Pick(c, a, m)
  BY <1>1, PickKeeps
<1>2. CASE ProbeFinds(c)
  <2>1. /\ via[c] \in Transport /\ forced \in {"auto", via[c]}
        /\ forced = "auto" /\ ~IsTier(want[c]) => via[c] = "cosy"
    BY <1>2 DEF ProbeFinds, TransportsInv, ProbeSound
  <2>2. CacheSound' /\ cache' \in [CacheKeys -> Transport \cup {"none"}]
    BY <1>2, <2>1, RememberKeeps DEF ProbeFinds
  <2>3. who[c] \in Owners
    BY <1>2 DEF ProbeFinds, TransportsInv, TransportsTypeOK
  <2>4. TransportsTypeOK'
    BY <1>2, <2>1, <2>2, <2>3 DEF ProbeFinds, TransportsInv, TransportsTypeOK
  <2>5. ProbeSound' /\ ConcreteByCosy' /\ ForcedKept' /\ ProbedFirst'
    BY <1>2, <2>1 DEF ProbeFinds, TransportsInv, TransportsTypeOK, ProbeSound, ConcreteByCosy,
                      ForcedKept, ProbedFirst, Generating, IsTier
  <2> QED BY <2>2, <2>4, <2>5 DEF TransportsInv
<1>3. CASE FallBack(c)
  <2>1. "cosy" \in Transport /\ who[c] \in Owners
    BY <1>3 DEF FallBack, Transport, TransportsInv, TransportsTypeOK
  <2>2. CacheSound' /\ cache' \in [CacheKeys -> Transport \cup {"none"}]
    BY <1>3, <2>1, RememberKeeps DEF FallBack
  <2>3. TransportsTypeOK'
    BY <1>3, <2>1, <2>2 DEF FallBack, TransportsInv, TransportsTypeOK
  <2>4. ProbeSound' /\ ConcreteByCosy' /\ ForcedKept' /\ ProbedFirst'
    BY <1>3 DEF FallBack, TransportsInv, TransportsTypeOK, ProbeSound, ConcreteByCosy,
                ForcedKept, ProbedFirst, Generating, IsTier
  <2> QED BY <2>2, <2>3, <2>4 DEF TransportsInv
<1>4. CASE NoBearerRoute(c)
  BY <1>4 DEF NoBearerRoute, TransportsInv, TransportsTypeOK, CacheSound, ProbeSound,
              ConcreteByCosy, ForcedKept, ProbedFirst, Generating, IsTier, Transport
<1>5. CASE ProbeFails(c) \/ Generated(c)
  BY <1>5 DEF ProbeFails, Generated, Through, TransportsInv, TransportsTypeOK, CacheSound,
              ProbeSound, ConcreteByCosy, ForcedKept, ProbedFirst, Generating, IsTier
<1> QED BY <1>1, <1>2, <1>3, <1>4, <1>5 DEF TransportsStep

LEMMA TransportsKept ==
  TransportsInv /\ [\E c \in Callers : TransportsStep(c)]_transportVars => TransportsInv'
<1> SUFFICES ASSUME TransportsInv, UNCHANGED transportVars PROVE TransportsInv'
  BY StepKeeps
<1> QED BY DEF transportVars, TransportsInv, TransportsTypeOK, CacheSound, ProbeSound,
               ConcreteByCosy, ForcedKept, ProbedFirst, Generating, IsTier

(***************************************************************************)
(* Routing on top of both.                                                 *)
(***************************************************************************)

LEMMA WhoAsks ==
  RoutingSpec => [](Accounted /\ asked \in [Callers -> Owners \cup {NoOwner}])
<1> DEFINE Inv == Accounted /\ asked \in [Callers -> Owners \cup {NoOwner}]
<1>1. RoutingInit => Inv
  BY DEF RoutingInit, ReadinessInit, CatalogInit, Accounted
<1>2. Inv /\ [RoutingNext]_routingVars => Inv'
  <2> SUFFICES ASSUME Inv, [RoutingNext]_routingVars PROVE Inv'
    OBVIOUS
  <2>1. CASE PrimeLists
    <3>1. CASE PrimeNoAccount
      BY <2>1, <3>1 DEF PrimeLists, CatalogOnly, PrimeNoAccount, SetReady, catalogVars, Accounted
    <3>2. CASE PrimeWaits
      BY <2>1, <3>2 DEF PrimeLists, CatalogOnly, PrimeWaits, Hit, Fetched, FetchFailed, Done, Age,
                        Accounted
    <3>3. ASSUME NEW a \in Owners, PrimeCatalog(a) PROVE Inv'
      BY <2>1, <3>3, StarterCalls DEF PrimeLists, CatalogOnly, PrimeCatalog, Get, Accounted
    <3> QED BY <2>1, <3>1, <3>2, <3>3 DEF PrimeLists
  <2>2. CASE PrimeFindsNone \/ PrimeFindsOne
    BY <2>2 DEF PrimeFindsNone, PrimeFindsOne, PrimeTransport, SetReady, catalogVars, Accounted
  <2>3. CASE PrimePicks \/ \E c \in Callers : Probes(c) \/ Generates(c)
    BY <2>3 DEF PrimePicks, Probes, Generates, RoutesOnly, readinessVars, catalogVars, Accounted
  <2>4. CASE Readies
    BY <2>4 DEF Readies, Readyz, CatalogOnly, catalogVars, Accounted
  <2>5. CASE Lists
    BY <2>5 DEF Lists, CatalogOnly, Hit, Fetched, FetchFailed, Done, Age, Accounted
  <2>6. ASSUME NEW c \in Callers, NEW a \in Owners, Request(c, a) PROVE Inv'
    BY <2>6 DEF Request, Get, Accounted
  <2>7. ASSUME NEW c \in Callers, Answered(c) \/ Finds(c) PROVE Inv'
    BY <2>7 DEF Answered, Finds, Used, Accounted
  <2>8. CASE UNCHANGED routingVars
    BY <2>8 DEF routingVars, readinessVars, catalogVars, Accounted
  <2> QED BY <2>1, <2>2, <2>3, <2>4, <2>5, <2>6, <2>7, <2>8 DEF RoutingNext
<1> QED BY <1>1, <1>2, PTL DEF RoutingSpec

(* Refinement: prime, requests and /readyz touch the catalog and the lock  *)
(* as Readiness says.                                                      *)
THEOREM RoutingServesReady == RoutingSpec => ServesReady
<1>1. RoutingInit => ReadinessInit
  BY DEF RoutingInit
<1>2. Accounted /\ [RoutingNext]_routingVars => [ReadinessNext]_readinessVars
  <2> SUFFICES ASSUME Accounted, [RoutingNext]_routingVars PROVE [ReadinessNext]_readinessVars
    OBVIOUS
  <2>1. CASE PrimeLists \/ PrimeFindsNone \/ PrimeFindsOne \/ Readies
    BY <2>1 DEF PrimeLists, PrimeFindsNone, PrimeFindsOne, Readies, ReadinessNext
  <2>2. CASE PrimePicks \/ \E c \in Callers : Probes(c) \/ Generates(c)
    BY <2>2 DEF PrimePicks, Probes, Generates, RoutesOnly
  <2>3. CASE Lists
    BY <2>3 DEF Lists, Serving, CatalogNext, ReadinessNext
  <2>4. ASSUME NEW c \in Callers, NEW a \in Owners, Request(c, a) PROVE Serving
    BY <2>4 DEF Request, Serving, CatalogNext
  <2>5. ASSUME NEW c \in Callers, Answered(c) \/ Finds(c) PROVE Serving
    BY <2>5 DEF Accounted, Answered, Finds, Serving, CatalogNext
  <2>6. CASE UNCHANGED routingVars
    BY <2>6 DEF routingVars, readinessVars
  <2> QED BY <2>1, <2>2, <2>3, <2>4, <2>5, <2>6 DEF RoutingNext, ReadinessNext
<1> QED BY <1>1, <1>2, WhoAsks, PTL DEF RoutingSpec, ServesReady, ReadinessSpec

(* And the transports as Transports says.                                  *)
LEMMA RoutingPicks == RoutingSpec => TransportsSpec
<1> DEFINE TNext == \E c \in Callers : TransportsStep(c)
<1>1. RoutingInit => TransportsInit
  BY DEF RoutingInit
<1>2. Accounted /\ CatalogTypeOK /\ [RoutingNext]_routingVars => [TNext]_transportVars
  <2> SUFFICES ASSUME Accounted, CatalogTypeOK, RoutingNext PROVE [TNext]_transportVars
    BY DEF routingVars
  <2>1. CASE PrimeLists \/ Readies \/ Lists
    BY <2>1 DEF PrimeLists, Readies, Lists, CatalogOnly
  <2>2. CASE PrimePicks
    BY <2>2, StarterCalls DEF PrimePicks, Accounted, TransportsStep
  <2>3. CASE PrimeFindsNone \/ PrimeFindsOne
    BY <2>3, StarterCalls DEF PrimeFindsNone, PrimeFindsOne, TransportsStep
  <2>4. ASSUME NEW c \in Callers, Probes(c) \/ Generates(c) PROVE TransportsStep(c)
    BY <2>4 DEF Probes, Generates, TransportsStep
  <2>5. ASSUME NEW c \in Callers, Finds(c) PROVE TransportsStep(c)
    <3>1. got[c] \in Snapshots /\ asked[c] \in Owners
      BY <2>5 DEF Finds, Accounted, CatalogTypeOK
    <3>2. PICK m \in got[c].models : Pick(c, asked[c], m)
      BY <2>5 DEF Finds
    <3>3. m \in Models
      BY <3>1, <3>2 DEF Snapshots
    <3> QED BY <3>1, <3>2, <3>3 DEF TransportsStep
  <2>6. ASSUME NEW c \in Callers, (\E a \in Owners : Request(c, a)) \/ Answered(c)
        PROVE  UNCHANGED transportVars
    BY <2>6 DEF Request, Answered
  <2> QED BY <2>1, <2>2, <2>3, <2>4, <2>5, <2>6 DEF RoutingNext
<1>3. ReadinessTypeOK => CatalogTypeOK
  BY DEF ReadinessTypeOK
<1>4. RoutingSpec => []ReadinessTypeOK
  BY RoutingServesReady, ReadinessTyped, PTL DEF ServesReady
<1> QED BY <1>1, <1>2, <1>3, <1>4, WhoAsks, PTL DEF RoutingSpec, TransportsSpec

LEMMA TransportsHold == RoutingSpec => []TransportsInv
<1>1. TransportsSpec => []TransportsInv
  BY TransportsStart, TransportsKept, PTL DEF TransportsSpec
<1> QED BY <1>1, RoutingPicks, PTL

(* The inductive invariant of routing.                                     *)
THEOREM RoutingInvariance == RoutingSpec => []RoutingInv
<1>1. RoutingSpec => []ReadinessTypeOK
  BY RoutingServesReady, ReadinessTyped, PTL DEF ServesReady
<1> QED BY <1>1, TransportsHold, WhoAsks, PTL DEF RoutingInv

(* Concrete models go by COSY, unless Bearer is configured.                *)
THEOREM ConcreteModelsByCosy == RoutingSpec => []ConcreteByCosy
<1>1. TransportsInv => ConcreteByCosy
  BY DEF TransportsInv
<1> QED BY <1>1, TransportsHold, PTL

(* A configured transport is kept to.                                      *)
THEOREM ConfiguredKept == RoutingSpec => []ForcedKept
<1>1. TransportsInv => ForcedKept
  BY DEF TransportsInv
<1> QED BY <1>1, TransportsHold, PTL

(* No generation goes by a transport that was neither probed nor reached   *)
(* by a fallback of the same account.                                      *)
THEOREM ProbedBeforeUse == RoutingSpec => []ProbedFirst
<1>1. TransportsInv => ProbedFirst
  BY DEF TransportsInv
<1> QED BY <1>1, TransportsHold, PTL

(* What Readiness promises holds with the probes in between.               *)
THEOREM RoutingRemembers ==
  RoutingSpec => []RemembersListing /\ []HitIsGood
BY RoutingServesReady, ListingRemembered, HitsAreGood, PTL DEF ServesReady

-----------------------------------------------------------------------------
(* Why requests stop falling back: of one entry of the cache, what can     *)
(* still make a request run into a Bearer that is not there only shrinks.  *)

Entry(c)    == CacheKey(who[c], want[c])
Probing(k)  == {c \in Callers : stage[c] = "probe" /\ Entry(c) = k}
ByBearer(k) == {c \in Callers : stage[c] = "post" /\ via[c] = "bearer" /\ Entry(c) = k}

\* First the probes under way, which may write "bearer" again; then a "bearer" in
\* the cache; then the generations that have left with one.
Descends(k) ==
  \/ Probing(k)' \subseteq Probing(k) /\ Probing(k)' # Probing(k)
  \/ Probing(k)' = Probing(k) /\ cache[k] = "bearer" /\ cache'[k] = "cosy"
  \/ /\ Probing(k)' = Probing(k) /\ cache[k] = "cosy" /\ cache'[k] = "cosy"
     /\ ByBearer(k)' \subseteq ByBearer(k) /\ ByBearer(k)' # ByBearer(k)

Stays(k) ==
  /\ Probing(k)' = Probing(k) /\ cache'[k] = cache[k]
  /\ cache[k] = "cosy" => ByBearer(k)' = ByBearer(k)

FallbackDescends ==
  [][/\ \A k \in CacheKeys : cache[k] # "none" => cache'[k] # "none" /\ (Descends(k) \/ Stays(k))
     /\ \A c \in Callers : FallBack(c) => cache[Entry(c)] # "none" /\ Descends(Entry(c))]_transportVars

\* A generation's transport is in the cache.
Known == \A c \in Callers : stage[c] = "post" => cache[Entry(c)] # "none"

\* A goroutine that probes or generates works on one entry of the cache.
LEMMA EntryIs ==
  ASSUME TransportsInv, NEW c \in Callers, stage[c] # "idle"
  PROVE  Entry(c) \in CacheKeys /\ who[c] \in Owners /\ want[c] \in Models \cup {NoModel}
<1>1. who[c] \in Owners /\ want[c] \in Models \cup {NoModel}
  BY DEF TransportsInv, TransportsTypeOK
<1> QED BY <1>1, KeyOf DEF Entry

\* The two sets, where one goroutine moves.
LEMMA OthersStay ==
  ASSUME NEW c \in Callers, NEW k,
         \A d \in Callers \ {c} : /\ stage'[d] = stage[d] /\ who'[d] = who[d]
                                  /\ want'[d] = want[d] /\ via'[d] = via[d]
  PROVE  /\ \A d \in Callers \ {c} : Entry(d)' = Entry(d)
         /\ \A d \in Callers \ {c} : /\ d \in Probing(k)' <=> d \in Probing(k)
                                     /\ d \in ByBearer(k)' <=> d \in ByBearer(k)
         /\ Probing(k) \subseteq Callers /\ Probing(k)' \subseteq Callers
         /\ ByBearer(k) \subseteq Callers /\ ByBearer(k)' \subseteq Callers
         /\ c \in Probing(k) <=> stage[c] = "probe" /\ Entry(c) = k
         /\ c \in Probing(k)' <=> stage'[c] = "probe" /\ Entry(c)' = k
         /\ c \in ByBearer(k) <=> stage[c] = "post" /\ via[c] = "bearer" /\ Entry(c) = k
         /\ c \in ByBearer(k)' <=> stage'[c] = "post" /\ via'[c] = "bearer" /\ Entry(c)' = k
<1>1. \A d \in Callers \ {c} : Entry(d)' = Entry(d)
  BY DEF Entry, CacheKey, IsTier
<1> QED BY <1>1 DEF Probing, ByBearer

\* A step of one goroutine: entries are not lost, every entry descends or stays,
\* and the entry of a fallback descends.
LEMMA StepDescends ==
  ASSUME TransportsInv, Known, NEW c \in Callers, TransportsStep(c)
  PROVE  /\ \A k \in CacheKeys : cache[k] # "none" => cache'[k] # "none" /\ (Descends(k) \/ Stays(k))
         /\ FallBack(c) => cache[Entry(c)] # "none" /\ Descends(Entry(c))
         /\ \A d \in Callers : FallBack(d) => d = c
         /\ Known'
<1>0. cache \in [CacheKeys -> Transport \cup {"none"}]
  BY DEF TransportsInv, TransportsTypeOK
<1>1. \A d \in Callers \ {c} : /\ stage'[d] = stage[d] /\ who'[d] = who[d]
                               /\ want'[d] = want[d] /\ via'[d] = via[d]
  BY DEF TransportsStep, Pick, ProbeFinds, NoBearerRoute, ProbeFails, FallBack, Generated, Through,
         TransportsInv, TransportsTypeOK
<1>2. \A d \in Callers : FallBack(d) => d = c
  <2>1. ASSUME NEW d \in Callers \ {c}, FallBack(d) PROVE FALSE
    BY <1>1, <2>1 DEF FallBack, TransportsInv, TransportsTypeOK
  <2> QED BY <2>1
\* What c does not work on stays.
<1>3. ASSUME NEW k \in CacheKeys, cache'[k] = cache[k],
             c \in Probing(k)' <=> c \in Probing(k),
             cache[k] = "cosy" => (c \in ByBearer(k)' <=> c \in ByBearer(k))
      PROVE  Stays(k)
  <2>1. /\ \A d \in Callers \ {c} : /\ d \in Probing(k)' <=> d \in Probing(k)
                                    /\ d \in ByBearer(k)' <=> d \in ByBearer(k)
        /\ Probing(k) \subseteq Callers /\ Probing(k)' \subseteq Callers
        /\ ByBearer(k) \subseteq Callers /\ ByBearer(k)' \subseteq Callers
    BY <1>1, OthersStay
  <2>2. Probing(k)' = Probing(k)
    BY <1>3, <2>1
  <2>3. cache[k] = "cosy" => ByBearer(k)' = ByBearer(k)
    BY <1>3, <2>1
  <2> QED BY <1>3, <2>2, <2>3 DEF Stays
<1>4. ASSUME NEW k \in CacheKeys, c \in Probing(k), c \notin Probing(k)'
      PROVE  Descends(k)
  BY <1>1, <1>4, OthersStay DEF Descends
\* For Known: the cache loses no entry, and c has one.
<1>5. ASSUME \A k \in CacheKeys : cache[k] # "none" => cache'[k] # "none",
             stage'[c] = "post" => cache'[Entry(c)'] # "none"
      PROVE  Known'
  <2>1. ASSUME NEW d \in Callers \ {c}, stage'[d] = "post" PROVE cache'[Entry(d)'] # "none"
    <3>1. stage[d] = "post" /\ Entry(d)' = Entry(d)
      BY <1>1, <2>1, OthersStay
    <3> QED BY <1>5, <3>1, EntryIs DEF Known
  <2> QED BY <1>5, <2>1 DEF Known
<1>6. ASSUME NEW a \in Owners, NEW m \in Models \cup {NoModel}, Pick(c, a, m)
      PROVE  (\A k \in CacheKeys : cache[k] # "none" => cache'[k] # "none" /\ Stays(k)) /\ Known'
  <2>1. /\ stage[c] = "idle" /\ cache' = cache /\ who'[c] = a /\ want'[c] = m
        /\ \/ Cached(CacheKey(a, m)) /\ stage'[c] = "post" /\ via'[c] = cache[CacheKey(a, m)]
           \/ ~Cached(CacheKey(a, m)) /\ stage'[c] = "probe"
    BY <1>6 DEF Pick, TransportsInv, TransportsTypeOK
  <2>2. Entry(c)' = CacheKey(a, m)
    BY <2>1 DEF Entry, CacheKey, IsTier
  <2>3. PICK n \in Models \cup {NoModel} : CacheKey(a, m) = <<a, n>> /\ CacheKey(a, m) \in CacheKeys
    BY KeyOf
  <2>4. cache[CacheKey(a, m)] # "none" => Cached(CacheKey(a, m))
    BY <2>3 DEF TransportsInv, CacheSound, Cached
  <2>5. Cached(CacheKey(a, m)) => cache[CacheKey(a, m)] # "none"
    BY DEF Cached, TransportsInv, TransportsTypeOK, Transport
  <2>6. ASSUME NEW k \in CacheKeys, cache[k] # "none" PROVE Stays(k)
    <3>1. c \notin Probing(k) /\ c \notin Probing(k)'
      BY <1>1, <2>1, <2>2, <2>4, <2>6, OthersStay
    <3>2. cache[k] = "cosy" => c \notin ByBearer(k) /\ c \notin ByBearer(k)'
      BY <1>1, <2>1, <2>2, <2>4, OthersStay
    <3> QED BY <1>3, <2>1, <3>1, <3>2
  <2>7. Known'
    BY <1>5, <2>1, <2>2, <2>5
  <2> QED BY <2>1, <2>6, <2>7
<1>7. CASE ProbeFinds(c)
  <2>1. /\ stage[c] = "probe" /\ stage'[c] = "post" /\ via[c] \in Transport
        /\ cache' = [cache EXCEPT ![Entry(c)] = via[c]] /\ who' = who /\ want' = want
    BY <1>7 DEF ProbeFinds, Remember, Entry, TransportsInv, TransportsTypeOK, ProbeSound
  <2>2. Entry(c)' = Entry(c) /\ Entry(c) \in CacheKeys
    BY <2>1, EntryIs DEF Entry, CacheKey, IsTier
  <2>3. cache'[Entry(c)] \in Transport /\ \A k \in CacheKeys \ {Entry(c)} : cache'[k] = cache[k]
    BY <1>0, <2>1, <2>2
  <2>4. \A k \in CacheKeys : cache[k] # "none" => cache'[k] # "none"
    BY <2>3 DEF Transport
  <2>5. ASSUME NEW k \in CacheKeys \ {Entry(c)} PROVE Stays(k)
    BY <1>1, <1>3, <2>2, <2>3, OthersStay
  <2>6. Descends(Entry(c))
    BY <1>1, <1>4, <2>1, <2>2, OthersStay
  <2>7. Known'
    BY <1>5, <2>2, <2>3, <2>4 DEF Transport
  <2>8. ~FallBack(c)
    BY <2>1 DEF FallBack
  <2> QED BY <1>2, <2>4, <2>5, <2>6, <2>7, <2>8
<1>8. CASE NoBearerRoute(c)
  <2>1. stage[c] = "probe" /\ UNCHANGED <<cache, stage, who, want>>
    BY <1>8 DEF NoBearerRoute
  <2>2. Entry(c)' = Entry(c)
    BY <2>1 DEF Entry, CacheKey, IsTier
  <2>3. ASSUME NEW k \in CacheKeys PROVE Stays(k)
    BY <1>1, <1>3, <2>1, <2>2, OthersStay
  <2>4. Known' /\ ~FallBack(c)
    BY <1>5, <2>1 DEF FallBack
  <2> QED BY <1>2, <2>1, <2>3, <2>4
<1>9. CASE ProbeFails(c)
  <2>1. stage[c] = "probe" /\ stage'[c] = "idle" /\ cache' = cache
    BY <1>9 DEF ProbeFails, Through, TransportsInv, TransportsTypeOK
  <2>2. ASSUME NEW k \in CacheKeys PROVE Stays(k) \/ Descends(k)
    BY <1>1, <1>3, <1>4, <2>1, OthersStay
  <2>3. Known' /\ ~FallBack(c)
    BY <1>5, <2>1 DEF FallBack
  <2> QED BY <1>2, <2>1, <2>2, <2>3
<1>10. CASE FallBack(c)
  <2>1. /\ stage[c] = "post" /\ stage' = stage /\ via[c] = "bearer" /\ via'[c] = "cosy"
        /\ cache' = [cache EXCEPT ![Entry(c)] = "cosy"] /\ who' = who /\ want' = want
    BY <1>10 DEF FallBack, Remember, Entry, TransportsInv, TransportsTypeOK
  <2>2. Entry(c)' = Entry(c) /\ Entry(c) \in CacheKeys
    BY <2>1, EntryIs DEF Entry, CacheKey, IsTier
  <2>3. cache'[Entry(c)] = "cosy" /\ \A k \in CacheKeys \ {Entry(c)} : cache'[k] = cache[k]
    BY <1>0, <2>1, <2>2
  <2>4. cache[Entry(c)] \in {"bearer", "cosy"}
    BY <1>0, <2>1, <2>2 DEF Known, Transport
  <2>5. ASSUME NEW k \in CacheKeys \ {Entry(c)} PROVE Stays(k)
    BY <1>1, <1>3, <2>1, <2>2, <2>3, OthersStay
  <2>6. Probing(Entry(c))' = Probing(Entry(c))
    <3> DEFINE k == Entry(c)
    <3>1. k' = k
      BY <2>2
    <3>2. \A d \in Callers : Entry(d)' = Entry(d)
      BY <1>1, <2>2, OthersStay
    <3> QED BY <2>1, <2>2, <3>2 DEF Probing
  <2>7. Descends(Entry(c))
    <3>1. CASE cache[Entry(c)] = "bearer"
      BY <2>2, <2>3, <2>6, <3>1 DEF Descends
    <3>2. CASE cache[Entry(c)] = "cosy"
      BY <1>1, <2>1, <2>2, <2>3, <2>6, <3>2, OthersStay DEF Descends
    <3> QED BY <2>4, <3>1, <3>2
  <2>8. \A k \in CacheKeys : cache[k] # "none" => cache'[k] # "none"
    BY <2>3
  <2>9. Known'
    BY <1>5, <2>2, <2>3, <2>8
  <2> QED BY <1>2, <2>4, <2>5, <2>7, <2>8, <2>9
<1>11. CASE Generated(c)
  <2>1. stage[c] = "post" /\ stage'[c] = "idle" /\ cache' = cache
    BY <1>11 DEF Generated, Through, TransportsInv, TransportsTypeOK
  <2>2. via'[c] # "bearer"
    BY <1>11 DEF Generated, Through, TransportsInv, TransportsTypeOK
  <2>3. ASSUME NEW k \in CacheKeys PROVE Stays(k) \/ Descends(k)
    <3>1. c \notin Probing(k) /\ c \notin Probing(k)' /\ c \notin ByBearer(k)'
      BY <1>1, <2>1, OthersStay
    <3>2. CASE c \notin ByBearer(k) \/ cache[k] # "cosy"
      BY <1>3, <2>1, <3>1, <3>2
    <3>3. CASE c \in ByBearer(k) /\ cache[k] = "cosy"
      BY <1>1, <2>1, <3>1, <3>3, OthersStay DEF Descends
    <3> QED BY <3>2, <3>3
  <2>4. Known'
    BY <1>5, <2>1
  <2>5. ~FallBack(c)
    BY <2>2, <1>11 DEF FallBack, Generated, Through, TransportsInv, TransportsTypeOK
  <2> QED BY <1>2, <2>1, <2>3, <2>4, <2>5
<1> QED
  <2>1. CASE \E a \in Owners, m \in Models \cup {NoModel} : Pick(c, a, m)
    <3>1. ~FallBack(c)
      BY <2>1 DEF Pick, FallBack
    <3> QED BY <1>2, <1>6, <2>1, <3>1
  <2> QED BY <1>7, <1>8, <1>9, <1>10, <1>11, <2>1 DEF TransportsStep

(* Every fallback of an entry takes it a step down an order that has no    *)
(* infinite descent when the goroutines are finitely many, and no step of  *)
(* any goroutine takes it up: which is why fallbacks end.                  *)
THEOREM FallbacksDescend == RoutingSpec => FallbackDescends
<1> DEFINE TNext == \E c \in Callers : TransportsStep(c)
           Down == /\ \A k \in CacheKeys : cache[k] # "none" => cache'[k] # "none" /\ (Descends(k) \/ Stays(k))
                   /\ \A c \in Callers : FallBack(c) => cache[Entry(c)] # "none" /\ Descends(Entry(c))
<1>1. TransportsInit => TransportsInv /\ Known
  BY TransportsStart DEF TransportsInit, Known
<1>2. TransportsInv /\ Known /\ [TNext]_transportVars => (TransportsInv /\ Known)'
  <2> SUFFICES ASSUME TransportsInv, Known, [TNext]_transportVars PROVE Known'
    BY TransportsKept
  <2>1. CASE TNext
    BY <2>1, StepDescends
  <2>2. CASE UNCHANGED transportVars
    BY <2>2 DEF transportVars, Known, Entry, CacheKey, IsTier
  <2> QED BY <2>1, <2>2
<1>3. TransportsInv /\ Known /\ [TNext]_transportVars => [Down]_transportVars
  <2> SUFFICES ASSUME TransportsInv, Known, NEW c \in Callers, TransportsStep(c) PROVE Down
    OBVIOUS
  <2>1. \A d \in Callers : FallBack(d) => d = c
    BY StepDescends
  <2> QED BY <2>1, StepDescends
<1>4. TransportsSpec => [][Down]_transportVars
  BY <1>1, <1>2, <1>3, PTL DEF TransportsSpec
<1> QED BY <1>4, RoutingPicks DEF FallbackDescends
=============================================================================
