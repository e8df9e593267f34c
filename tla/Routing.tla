------------------------------ MODULE Routing ------------------------------
(***************************************************************************)
(* From a request to the transport of its generation: Server.Prime and     *)
(* Server.chat (and /v1/models) on the shared model catalog and the shared *)
(* transport cache.  Prime does both in turn before the server listens;    *)
(* then a request takes a listing for its account, finds its model in it,  *)
(* and has a transport picked for account and model.                       *)
(***************************************************************************)
EXTENDS Readiness, Transports

VARIABLE asking   \* goroutines between Catalog.Get and what they do with it

routingVars == <<readinessVars, transportVars, asking>>

RoutingInit == ReadinessInit /\ TransportsInit /\ asking = {}

CatalogOnly == UNCHANGED <<transportVars, asking>>
RoutesOnly  == UNCHANGED <<readinessVars, asking>>

\* Prime up to pickTransport.
PrimeLists ==
  /\ PrimeNoAccount \/ PrimeWaits \/ \E a \in Owners : PrimeCatalog(a)
  /\ CatalogOnly

\* Prime asks for no model.
PrimePicks ==
  /\ primed = "catalog" /\ phase[Starter] = "idle"
  /\ Pick(Starter, asked[Starter], NoModel)
  /\ RoutesOnly

Probes(c) ==
  /\ \/ ProbeFinds(c) \/ NoBearerRoute(c)
     \/ primed = "done" /\ ProbeFails(c)
  /\ RoutesOnly

PrimeFindsNone ==
  /\ ProbeFails(Starter)
  /\ PrimeTransport(FALSE)
  /\ UNCHANGED asking

\* Prime sends nothing by the transport it has found.
PrimeFindsOne ==
  /\ Generated(Starter)
  /\ PrimeTransport(TRUE)
  /\ UNCHANGED asking

Readies == Readyz /\ CatalogOnly

\* Mutation of Request: requests are handled while Prime runs.
RequestEarly(c, a) ==
  /\ c # Starter /\ stage[c] = "idle" /\ c \notin asking
  /\ Get(c, a)
  /\ asking' = asking \cup {c}
  /\ UNCHANGED <<primed, ready, degraded, readers, transportVars>>

\* Select and EnsureFresh have given the request account a.
Request(c, a) ==
  /\ primed = "done" /\ stage[c] = "idle" /\ c \notin asking
  /\ Get(c, a)
  /\ asking' = asking \cup {c}
  /\ UNCHANGED <<primed, ready, degraded, readers, transportVars>>

Lists ==
  /\ primed = "done"
  /\ Age \/ \E c \in Callers : Hit(c) \/ Fetched(c) \/ FetchFailed(c)
  /\ UNCHANGED <<primed, ready, degraded, readers>> /\ CatalogOnly

\* The listing is all that was asked for, or the model is not in it, or cannot
\* do what is asked.
Answered(c) ==
  /\ c \in asking /\ Used(c)
  /\ asking' = asking \ {c}
  /\ UNCHANGED <<primed, ready, degraded, readers, transportVars>>

Finds(c) ==
  /\ c \in asking /\ Used(c)
  /\ \E m \in got[c].models : Pick(c, asked[c], m)
  /\ asking' = asking \ {c}
  /\ UNCHANGED <<primed, ready, degraded, readers>>

Generates(c) ==
  /\ primed = "done"
  /\ FallBack(c) \/ Generated(c)
  /\ RoutesOnly

RoutingNext ==
  \/ PrimeLists \/ PrimePicks \/ PrimeFindsNone \/ PrimeFindsOne
  \/ Readies \/ Lists
  \/ \E c \in Callers : \/ \E a \in Owners : Request(c, a)
                        \/ Answered(c) \/ Finds(c) \/ Probes(c) \/ Generates(c)

RoutingSpec == RoutingInit /\ [][RoutingNext]_routingVars

-----------------------------------------------------------------------------
\* Whoever has a transport picked has an account, and nobody asks before Prime
\* has ended.
Accounted ==
  /\ asking \subseteq Callers /\ (asking # {} => primed = "done")
  /\ \A c \in asking : asked[c] \in Owners
  /\ primed = "catalog" => asked[Starter] \in Owners

\* The inductive invariant, the types among it: what is known of the catalog, of
\* the cache and of every generation under way, however requests overlap.
RoutingInv == ReadinessTypeOK /\ TransportsInv /\ Accounted

\* Refinement: with the probes and generations hidden, requests and Prime use the
\* catalog, and /readyz, as Readiness says; in particular nothing of the catalog
\* or of the lock is touched by a request before Prime has ended.
ServesReady == ReadinessSpec
=============================================================================
