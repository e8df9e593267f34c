------------------------------ MODULE Transports ------------------------------
(***************************************************************************)
(* Which transport carries a generation: Server.pickTransport, the cache   *)
(* it shares between requests, the probes of BearerTransport and           *)
(* CosyTransport, and the fallback of Server.chat to COSY.  Probes run     *)
(* without a lock, and their results are written over whatever the cache   *)
(* holds by then.                                                          *)
(***************************************************************************)
EXTENDS Catalog

CONSTANTS
  Tiers,           \* the model keys isRouterTier knows
  NoModel,         \* the empty model key, with which Prime asks
  BearerAccounts   \* accounts of a region with a Bearer endpoint

ASSUME RouterTiers == Tiers \subseteq Models /\ NoModel \notin Models
ASSUME Regions     == BearerAccounts \subseteq Owners

VARIABLES
  forced,          \* Config.Transport, fixed once the configuration is loaded
  cache,           \* Server.transportCache
  stage,           \* per goroutine: before, probing, or generating
  who,             \* per goroutine: the account
  want,            \* per goroutine: the model key
  via,             \* per goroutine: the transport probed or chosen
  found,           \* history: accounts and the transports a probe found for them
  denied           \* history: accounts whose generation by Bearer got a 404 or 405

transportVars == <<forced, cache, stage, who, want, via, found, denied>>

Transport == {"bearer", "cosy"}
IsTier(m) == m \in Tiers \cup {NoModel}

\* Mutation of CacheKey: one entry for all models of an account.
CacheKeyOfAccount(a, m) == <<a, NoModel>>

\* Mutation of CacheKey: one entry for all accounts.
CacheKeyOfClass(a, m) == <<CHOOSE b \in Owners : TRUE, IF IsTier(m) THEN NoModel ELSE m>>

\* account.ID + "|" + class: all tiers share one entry, a concrete model has
\* its own.
CacheKey(a, m) == <<a, IF IsTier(m) THEN NoModel ELSE m>>
CacheKeys      == Owners \X (Models \cup {NoModel})

TransportsInit ==
  /\ forced \in Transport \cup {"auto"}
  /\ cache = [k \in CacheKeys |-> "none"]
  /\ stage = [c \in Callers |-> "idle"]
  /\ who = [c \in Callers |-> NoOwner]
  /\ want = [c \in Callers |-> NoModel]
  /\ via = [c \in Callers |-> "none"]
  /\ found = {} /\ denied = {}

Cached(k) == IF forced = "auto" THEN cache[k] # "none" ELSE cache[k] = forced

\* Concrete models need the request shape of COSY.
FirstProbe(m) == CASE forced # "auto" -> forced
                   [] forced = "auto" /\ IsTier(m) -> "bearer"
                   [] OTHER -> "cosy"

Pick(c, a, m) ==
  /\ stage[c] = "idle"
  /\ who' = [who EXCEPT ![c] = a]
  /\ want' = [want EXCEPT ![c] = m]
  /\ IF Cached(CacheKey(a, m))
     THEN /\ stage' = [stage EXCEPT ![c] = "post"]
          /\ via' = [via EXCEPT ![c] = cache[CacheKey(a, m)]]
     ELSE /\ stage' = [stage EXCEPT ![c] = "probe"]
          /\ via' = [via EXCEPT ![c] = FirstProbe(m)]
  /\ UNCHANGED <<forced, cache, found, denied>>

Remember(c, t) == cache' = [cache EXCEPT ![CacheKey(who[c], want[c])] = t]

Through(c) ==
  /\ stage' = [stage EXCEPT ![c] = "idle"]
  /\ who' = [who EXCEPT ![c] = NoOwner]
  /\ want' = [want EXCEPT ![c] = NoModel]
  /\ via' = [via EXCEPT ![c] = "none"]
  /\ UNCHANGED <<forced, cache, found, denied>>

\* Bearer answers OPTIONS with anything but a 404 or a 5xx; COSY lists its models.
ProbeFinds(c) ==
  /\ stage[c] = "probe"
  /\ via[c] = "bearer" => who[c] \in BearerAccounts
  /\ Remember(c, via[c])
  /\ found' = found \cup {<<who[c], via[c]>>}
  /\ stage' = [stage EXCEPT ![c] = "post"]
  /\ UNCHANGED <<forced, who, want, via, denied>>

\* 404, which a region without the endpoint gets at once.
NoBearerRoute(c) ==
  /\ stage[c] = "probe" /\ via[c] = "bearer" /\ forced = "auto"
  /\ via' = [via EXCEPT ![c] = "cosy"]
  /\ UNCHANGED <<forced, cache, stage, who, want, found, denied>>

\* Any other error: the request goes on without this account.
ProbeFails(c) ==
  /\ stage[c] = "probe"
  /\ via[c] = "bearer" /\ forced = "auto" => who[c] \in BearerAccounts
  /\ Through(c)

\* Mutation of FallBack: a configured Bearer falls back too.
FallBackForced(c) ==
  /\ stage[c] = "post" /\ via[c] = "bearer"
  /\ Remember(c, "cosy")
  /\ denied' = denied \cup {who[c]}
  /\ via' = [via EXCEPT ![c] = "cosy"]
  /\ UNCHANGED <<forced, stage, who, want, found>>

\* Mutation of FallBack: the class is the model's, also for a tier.
FallBackMisses(c) ==
  /\ stage[c] = "post" /\ via[c] = "bearer" /\ forced = "auto"
  /\ cache' = [cache EXCEPT ![<<who[c], want[c]>>] = "cosy"]
  /\ denied' = denied \cup {who[c]}
  /\ via' = [via EXCEPT ![c] = "cosy"]
  /\ UNCHANGED <<forced, stage, who, want, found>>

\* The generation by Bearer gets a 404 or 405: the next one goes by COSY, which
\* nobody has probed.
FallBack(c) ==
  /\ stage[c] = "post" /\ via[c] = "bearer" /\ forced = "auto"
  /\ Remember(c, "cosy")
  /\ denied' = denied \cup {who[c]}
  /\ via' = [via EXCEPT ![c] = "cosy"]
  /\ UNCHANGED <<forced, stage, who, want, found>>

\* The generation ends in any other way.  (A second one after a 401 goes by the
\* same transport.)
Generated(c) ==
  /\ stage[c] = "post"
  /\ Through(c)

TransportsStep(c) ==
  \/ \E a \in Owners, m \in Models \cup {NoModel} : Pick(c, a, m)
  \/ ProbeFinds(c) \/ NoBearerRoute(c) \/ ProbeFails(c)
  \/ FallBack(c) \/ Generated(c)

TransportsSpec == TransportsInit /\ [][\E c \in Callers : TransportsStep(c)]_transportVars

-----------------------------------------------------------------------------
TransportsTypeOK ==
  /\ forced \in Transport \cup {"auto"}
  /\ cache \in [CacheKeys -> Transport \cup {"none"}]
  /\ stage \in [Callers -> {"idle", "probe", "post"}]
  /\ who \in [Callers -> Owners \cup {NoOwner}]
  /\ \A c \in Callers : stage[c] # "idle" => who[c] \in Owners
  /\ want \in [Callers -> Models \cup {NoModel}]
  /\ via \in [Callers -> Transport \cup {"none"}]
  /\ found \subseteq Owners \X Transport /\ denied \subseteq Owners

Generating(c) == stage[c] = "post"

\* A concrete model's generation never goes by Bearer unless the configuration
\* says so, whatever other requests have cached for the account (README.md:190).
ConcreteByCosy ==
  \A c \in Callers : Generating(c) /\ forced = "auto" /\ ~IsTier(want[c]) => via[c] = "cosy"

\* A configured transport carries every generation, whatever probes fail, whatever
\* the cache holds and whatever a generation answers (README.md:187).
ForcedKept ==
  forced # "auto" => \A c \in Callers : Generating(c) => via[c] = forced

\* No generation is sent on a guess, and none by Bearer in a region that has no
\* endpoint for it: a probe with this account found the transport, or Bearer
\* itself told the account that the route is not there (README.md:191-195).
ProbedFirst ==
  \A c \in Callers : Generating(c) =>
    \/ <<who[c], via[c]>> \in found
    \/ via[c] = "cosy" /\ who[c] \in denied

\* What the cache may hold.
CacheSound ==
  \A a \in Owners : \A m \in Models \cup {NoModel} :
    LET t == cache[<<a, m>>] IN
      t # "none" => /\ <<a, t>> \in found \/ (t = "cosy" /\ a \in denied)
                    /\ forced \in {"auto", t}
                    /\ forced = "auto" /\ ~IsTier(m) => t = "cosy"

\* What a probe asks for.
ProbeSound ==
  \A c \in Callers : stage[c] = "probe" =>
    /\ forced \in {"auto", via[c]} /\ via[c] \in Transport
    /\ forced = "auto" /\ ~IsTier(want[c]) => via[c] = "cosy"

TransportsInv ==
  TransportsTypeOK /\ CacheSound /\ ProbeSound /\ ConcreteByCosy /\ ForcedKept /\ ProbedFirst

\* Requests of an account stop running into a Bearer that is not there: a slow
\* probe may write "bearer" over the "cosy" of a fallback, and the fallback come
\* again, but only finitely often, since no probe starts once the cache has an
\* entry (README.md:193).
FallbackLearned == \A c \in Callers : <>[][~FallBack(c)]_transportVars
=============================================================================
