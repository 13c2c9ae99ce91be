---------------------------- MODULE MCFailover ----------------------------
(* Small instances of Failover for TLC: a run is of one of its scopes.       *)
EXTENDS Failover

CONSTANTS a1, b1, c1, Scopes

VARIABLE scope

Row(provider, tier, at) ==
    [provider |-> provider, name |-> "one", tier |-> tier, known |-> tier,
     recommended |-> FALSE, free |-> FALSE, pin |-> Unpinned, at |-> at]

\* Two providers of one tier, a third of another.
MCCatalog ==
    [m \in Models |-> CASE m = a1 -> Row("a", "frontier", 0)
                        [] m = b1 -> Row("b", "frontier", 1)
                        [] m = c1 -> Row("c", "balanced", 2)]
AllListed == {Models}
LimitOrUnusable == {{"limit"}, {"unusable"}}
Limit == {{"limit"}}
NoBlacklist == {{}}
ExcludesOrigin == {{}, {c1}, {a1, c1}}

\* "chain": three models fail over two executions, and no prompt is sent.
\* "return": one execution and a prompt; the third model is excluded, and the
\* first may come to be.
\* "any": whatever the constants allow.
Within ==
    CASE scope = "chain" ->
           /\ blacklist' = {} /\ prompts' = 0
           /\ choices' # choices => selected' = b1
      [] scope = "return" -> c1 \in blacklist' /\ execution' <= 1
      [] OTHER -> TRUE

ScopedInit ==
    /\ Init /\ scope \in Scopes
    /\ scope = "chain" => blacklist = {}
    /\ scope = "return" => blacklist = {c1}
ScopedNext == Next /\ Within /\ UNCHANGED scope
ScopedSpec == ScopedInit /\ [][ScopedNext]_<<vars, scope>>
=============================================================================
