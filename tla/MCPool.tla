------------------------------- MODULE MCPool -------------------------------
(* Pool for TLC.                                                           *)
EXTENDS Pool, TLC

RefreshOps == {"EnsureFresh", "Tick", "Restart"}

\* The goroutines are interchangeable (safety runs only).
Symmetric == Permutations(Threads)
-----------------------------------------------------------------------------
RecoverOps == {"Select", "List", "EnsureFresh", "MarkAuthError", "MarkDisabled",
               "MarkCooldown", "Recover", "Tick"}

\* Time passes, and /readyz or the next request looks at the pool.
HealthFairSpec ==
  Spec /\ Fairness /\ WF_vars(Tick) /\ \A t \in Threads : SF_vars(BeginList(t))

Marked(a) ==
  \E t \in Threads : MarkDisabled(t, a) \/ \E d \in Cooldowns : MarkCooldown(t, a, d)

\* No account is out of service for good because of a 403 or a 429: once no
\* request marks it any more it is seen healthy again, in whatever order
\* MarkDisabled, MarkCooldown, Recover and the lazy recovery came (the
\* permanent "disabled" state that FORK-PLAN.md 2.2 reports is gone).
OutOfServiceEnds ==
  \A a \in Accounts :
    <>[][~Marked(a)]_vars => []<>(state[a] \notin {"disabled", "cooldown"})
=============================================================================
