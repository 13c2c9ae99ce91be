------------------------------- MODULE MCEngine -------------------------------
(* Small instances of Engine for TLC: a run is of one of two scopes.           *)
EXTENDS Engine, TLC

CONSTANTS r1, r2, c1, c2, a, b

VARIABLE scope

\* A shell command and another signal, of two agents.
TwoAgents == r1 :> a @@ r2 :> b

\* "rounds": one shell command, judged by every capability.
\* "pair": the signals of two agents, judged by one, in two rounds; of those
\* a capability settles at once, only the other scope has any.
Within ==
    IF scope = "rounds" THEN outcome'[r2] = "new"
    ELSE \A r \in Runs :
            /\ asks'[r][c2] = Nothing /\ round'[r] <= 2
            /\ outcome[r] = "new" => settled'[r] \subseteq {"deny", "confirm"}

ScopedInit == Init /\ scope \in {"rounds", "pair"}
ScopedNext == Next /\ Within /\ UNCHANGED scope
ScopedSpec == ScopedInit /\ [][ScopedNext]_<<vars, scope>> /\ Fairness
===============================================================================
