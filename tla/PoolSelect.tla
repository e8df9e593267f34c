----------------------------- MODULE PoolSelect -----------------------------
(***************************************************************************)
(* Pool with the history that a statement about Select's walk needs: what  *)
(* was usable while a call of Select looked at one entry after the other.  *)
(***************************************************************************)
EXTENDS Pool

VARIABLES
  steady,     \* history: accounts usable at every moment since Select began
  ever        \* history: accounts usable at some moment since Select began

UsableNow == {a \in Accounts : Usable(a)}

SelectInit == Init /\ steady = [t \in Threads |-> {}] /\ ever = [t \in Threads |-> {}]

SelectNext ==
  /\ Next
  /\ steady' = [t \in Threads |->
       IF pc'[t] # "select" THEN {}
       ELSE IF pc[t] # "select" THEN UsableNow' ELSE steady[t] \cap UsableNow']
  /\ ever' = [t \in Threads |->
       IF pc'[t] # "select" THEN {}
       ELSE IF pc[t] # "select" THEN UsableNow' ELSE ever[t] \cup UsableNow']

SelectSpec == SelectInit /\ [][SelectNext]_<<vars, steady, ever>>

-----------------------------------------------------------------------------
\* What Select answers is true of the pool although it looks at one entry at a
\* time while other requests mark accounts and deadlines pass: "no healthy
\* account" only if none outside the excluded ones stayed usable all along, and
\* a selected account was usable during the call and is not an excluded one.
SelectTruthful ==
  [][\A t \in Threads : At(t, "select") /\ pc'[t] = "idle" =>
       /\ ret'[t] = "noAccount" => steady[t] \subseteq excluded[t]
       /\ ret'[t] = "ok" => entry'[t] \in ever[t] \ excluded[t]]_vars

\* The inductive invariant behind it: what is usable lies between the two, a
\* candidate was usable and is not excluded, and of the entries looked at, those
\* that stayed usable are candidates.
Walked ==
  \A t \in Threads : At(t, "select") =>
    /\ steady[t] \subseteq UsableNow /\ UsableNow \subseteq ever[t]
    /\ cands[t] \subseteq ever[t] \ excluded[t]
    /\ \A a \in steady[t] \ excluded[t] : a < cursor[t] => a \in cands[t]
=============================================================================
