------------------------------ MODULE Readiness ------------------------------
(***************************************************************************)
(* What /readyz reports: Server.Prime, setReady and readiness of           *)
(* internal/server/server.go on the model catalog.  serve calls Prime once,*)
(* before it listens; the requests that come then use the catalog too.     *)
(* readiness takes the read lock of readyMu and does not give it back.     *)
(***************************************************************************)
EXTENDS Catalog

CONSTANTS
  Starter,    \* the goroutine of main, which runs Prime
  MaxReaders  \* bound: calls of /readyz

ASSUME StarterCalls == Starter \in Callers
ASSUME ReaderBound  == MaxReaders \in Nat

VARIABLES
  primed,     \* how far main is: in Prime, before the answer, or serving
  ready,      \* Server.ready
  degraded,   \* Server.degraded
  readers     \* Server.readyMu: read locks held

readinessVars == <<catalogVars, primed, ready, degraded, readers>>

ReadinessInit ==
  /\ CatalogInit
  /\ primed = "start"
  /\ ready = FALSE /\ degraded = FALSE
  /\ readers = 0

\* The write lock waits for the readers.
SetReady(r, d) ==
  /\ readers = 0
  /\ primed' = "done"
  /\ ready' = r /\ degraded' = d
  /\ UNCHANGED <<catalogVars, readers>>

\* Select finds no account, or EnsureFresh fails.
PrimeNoAccount == primed = "start" /\ SetReady(FALSE, FALSE)

PrimeCatalog(a) ==
  /\ primed = "start" /\ primed' = "catalog"
  /\ Get(Starter, a)
  /\ UNCHANGED <<ready, degraded, readers>>

\* Get has returned, with models or without: pickTransport finds a transport
\* (ok) or does not.
PrimeTransport(ok) ==
  /\ primed = "catalog" /\ phase[Starter] = "idle"
  /\ SetReady(ok /\ got[Starter].models # {},
              got[Starter].degraded /\ got[Starter].models # {})

\* While Prime runs nothing else uses the catalog.
PrimeWaits ==
  /\ primed = "catalog"
  /\ Hit(Starter) \/ Fetched(Starter) \/ FetchFailed(Starter) \/ Age
  /\ UNCHANGED <<primed, ready, degraded, readers>>

Readyz ==
  /\ primed = "done" /\ readers < MaxReaders
  /\ readers' = readers + 1
  /\ UNCHANGED <<catalogVars, primed, ready, degraded>>

Serving ==
  /\ primed = "done" /\ CatalogNext
  /\ UNCHANGED <<primed, ready, degraded, readers>>

ReadinessNext ==
  \/ PrimeNoAccount
  \/ \E a \in Owners : PrimeCatalog(a)
  \/ \E ok \in BOOLEAN : PrimeTransport(ok)
  \/ PrimeWaits \/ Readyz \/ Serving

ReadinessSpec == ReadinessInit /\ [][ReadinessNext]_readinessVars

-----------------------------------------------------------------------------
ReadinessTypeOK ==
  /\ CatalogTypeOK
  /\ primed \in {"start", "catalog", "done"}
  /\ ready \in BOOLEAN /\ degraded \in BOOLEAN
  /\ readers \in 0..MaxReaders
=============================================================================
