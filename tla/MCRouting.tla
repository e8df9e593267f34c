------------------------------ MODULE MCRouting ------------------------------
(* Routing, with Readiness, Catalog and Transports under it, for TLC: an   *)
(* account with a Bearer endpoint and one without, with different models.  *)
EXTENDS Routing, TLC

CONSTANTS a1, a2, lite, pro

TwoOffers == (a1 :> {{lite, pro}, {pro}}) @@ (a2 :> {{pro}})
=============================================================================
