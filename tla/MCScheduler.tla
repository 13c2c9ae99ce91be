----------------------------- MODULE MCScheduler -----------------------------
(* Small instances of Scheduler for TLC: a run is of one of its scopes.      *)
EXTENDS Scheduler

CONSTANTS p, e, o, q, a, b, c, Scopes

VARIABLE scope

\* A permission request and an ordinary signal of one agent, a model error of
\* another, and an ordinary signal of a third.
MCJobs == {p, e, o, q}
MCAgentOf == [j \in Jobs |-> IF j \in {p, o} THEN a ELSE IF j = e THEN b ELSE c]
MCKindOf == [j \in Jobs |-> CASE j = p -> "permission"
                              [] j = e -> "model_error"
                              [] OTHER -> "other"]

\* One signal of each kind, of three agents.
EachJobs == {p, q, e}

\* "mix": two signals of one agent and a model error, each asked in one
\* round; the host of the ordinary one stays, and no worker dies.
\* "rounds": two agents, two rounds, a worker that dies.
\* "any": whatever the constants allow.
Within ==
    CASE scope = "mix" ->
           /\ host'[q] = "new" /\ host'[o] # "gone" /\ panics' = 0
           /\ \A j \in {p, o, e} : round'[j] <= 1
      [] scope = "rounds" ->
           /\ host'[o] = "new" /\ host'[e] = "new"
      [] OTHER -> TRUE

ScopedInit == Init /\ scope \in Scopes
ScopedNext == Next /\ Within /\ UNCHANGED scope
ScopedSpec == ScopedInit /\ [][ScopedNext]_<<vars, scope>>
ScopedFairSpec == ScopedSpec /\ Fairness
=============================================================================
