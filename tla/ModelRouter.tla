----------------------------- MODULE ModelRouter -----------------------------
(***************************************************************************)
(* The model router: capabilities/model-router/src/lib.rs.                 *)
(*                                                                         *)
(* When an agent's model hits a usage limit the router moves the agent to  *)
(* another model, or has it wait once; later it may move the agent back.   *)
(* The router's state is kept per agent, and an agent's signals never      *)
(* touch another's, so this is the state of one agent.                     *)
(*                                                                         *)
(* A signal is judged and acted on in one action here: the scheduler       *)
(* judges an agent's signals one at a time, model errors alone, and an     *)
(* error abandoned in between is undone (module Scheduler).  Of an error   *)
(* only its class is kept, of the judge's answer only the pick.  Renewing  *)
(* and warming contexts change no state of the router and are left out.    *)
(***************************************************************************)
EXTENDS Naturals, FiniteSets

CONSTANTS
    Models,         \* a model at a variant: ModelRef
    NoModel,        \* no model: None, and an effect that keeps the model
    Ignored,        \* no model effect at all
    Catalog,        \* what the tier tables and the config say of each model
    MaxCandidates,  \* max_candidates
    Blacklists      \* the blacklists the config may have

Tiers == {"frontier", "balanced", "fast"}
NoTier == "none"
Unpinned == Cardinality(Models)

\* tier: rated by its own provider; known: by any; pin: its position in the
\* pins; at: its position in the host's list; free: a last resort.
Rows == [provider : {Catalog[m].provider : m \in Models},
         name : {Catalog[m].name : m \in Models},
         tier : Tiers \cup {NoTier}, known : Tiers \cup {NoTier},
         recommended : BOOLEAN, free : BOOLEAN,
         pin : 0..Unpinned, at : 0..(Cardinality(Models) - 1)]

ASSUME CatalogAssumption ==
    /\ IsFiniteSet(Models) /\ NoModel \notin Models /\ Ignored \notin Models
    /\ NoModel # Ignored
    /\ Catalog \in [Models -> Rows]
    /\ MaxCandidates \in Nat \ {0}
    /\ Blacklists \subseteq SUBSET Models

Providers == {Catalog[m].provider : m \in Models}

\* ErrorWords: the classes an error may be in.
Errors == SUBSET {"limit", "lasting", "unusable"}

VARIABLES
    attempted,   \* models tried since one served the agent
    exhausted,   \* providers whose limit was hit since then
    origin,      \* the model left on a limit, and where the agent went
    waited,      \* the model waited on
    elapsed,     \* switch_back.after_seconds passed since origin.since
    blacklist    \* the config's

routerVars == <<attempted, exhausted, origin, waited, elapsed, blacklist>>

NoOrigin == [model |-> NoModel, current |-> NoModel]
Origins == {NoOrigin} \cup [model : Models, current : Models]

RouterTypeOK ==
    /\ attempted \subseteq Models /\ exhausted \subseteq Providers
    /\ origin \in Origins /\ waited \in Models \cup {NoModel}
    /\ elapsed \in BOOLEAN /\ blacklist \in Blacklists

RouterInit ==
    /\ attempted = {} /\ exhausted = {} /\ origin = NoOrigin
    /\ waited = NoModel /\ elapsed = FALSE
    /\ blacklist \in Blacklists

-----------------------------------------------------------------------------
(* Which models to offer.                                                   *)

SameModel(m, n) == /\ Catalog[m].provider = Catalog[n].provider
                   /\ Catalog[m].name = Catalog[n].name

Untried(m, usable, tried, out) ==
    {n \in usable \ (tried \cup blacklist) :
        ~SameModel(n, m) /\ Catalog[n].provider \notin out}

\* One variant per model, the first MaxCandidates of them, by `place`.
Shortlist(S, place) ==
    LET one == {n \in S : \A k \in S :
                   SameModel(n, k) => place[n] <= place[k]}
    IN  {n \in one : Cardinality({k \in one : place[k] < place[n]})
                        < MaxCandidates}

\* sort_by_key: pins, recommended models, other providers, the host's order.
Place(m) ==
    [n \in Models |->
        LET unrecommended == IF Catalog[n].recommended THEN 0 ELSE 2
            own == IF Catalog[n].provider = Catalog[m].provider THEN 1 ELSE 0
        IN  (Catalog[n].pin * 4 + unrecommended + own) * Unpinned
              + Catalog[n].at]

Ranked(m, untried, tier) ==
    Shortlist({n \in untried :
                 \/ Catalog[n].pin # Unpinned
                 \/ /\ Catalog[n].tier # NoTier
                    /\ tier \in {NoTier, Catalog[n].tier}}, Place(m))

LastResort(untried) ==
    Shortlist({n \in untried : Catalog[n].free},
              [n \in Models |-> Catalog[n].at])

Candidates(m, usable, tried, out) ==
    LET untried == Untried(m, usable, tried, out)
        same_tier == Ranked(m, untried, Catalog[m].known)
        any_tier == Ranked(m, untried, NoTier)
    IN  CASE same_tier # {} -> same_tier
          [] same_tier = {} /\ any_tier # {} -> any_tier
          [] OTHER -> LastResort(untried)

-----------------------------------------------------------------------------
(* One action per signal.  `answer` is the effect: Ignored when there is    *)
(* none, NoModel to keep the model, else the model to move to.              *)

\* Faulty variant: any failure of the model moved to starts over.
UnreachedByCurrent(m) == origin # NoOrigin /\ origin.current = m

\* A retry still runs on the origin: the proposed switch never reached the
\* host.
Unreached(m) == origin # NoOrigin /\ origin.model = m /\ origin.current # m

\* A limit, or a model the router moved to that cannot serve the agent.
Handled(m, error, from) ==
    "limit" \in error \/ ("unusable" \in error /\ from.current = m)

Stay(answered, from, answer) ==
    /\ answer = answered
    /\ origin' = from /\ elapsed' = (elapsed /\ from # NoOrigin)

\* Faulty variant: a chain of switches keeps the first target too.
SwitchKeepingFirst(m, to, from, answer) ==
    /\ answer = to
    /\ origin' = IF from = NoOrigin THEN [model |-> m, current |-> to]
                 ELSE from
    /\ elapsed' = (elapsed /\ from # NoOrigin)
    /\ waited' = NoModel

\* record_switch: a chain of switches keeps the first model and its time.
Switch(m, to, from, answer) ==
    /\ answer = to
    /\ origin' = [model |-> IF from = NoOrigin THEN m ELSE from.model,
                  current |-> to]
    /\ elapsed' = (elapsed /\ from # NoOrigin)
    /\ waited' = NoModel

\* failover and act, past its early returns.  A failed or unsure judge picks
\* the first of the models offered, any other judge any of them.
Pick(m, error, from, tried, out, usable, answer) ==
    LET offered == Candidates(m, usable, tried, out)
        may_wait == "lasting" \notin error /\ waited # m
    IN  /\ exhausted' = out
        /\ \/ /\ offered = {}
              /\ Stay(NoModel, from, answer)
              /\ attempted' = tried /\ UNCHANGED waited
           \/ /\ offered # {} /\ may_wait
              /\ Stay(NoModel, from, answer)
              /\ attempted' = tried /\ waited' = m
           \/ \E to \in offered :
                 /\ Switch(m, to, from, answer)
                 /\ attempted' = tried \cup {to}

ModelError(m, error, tool_executed, usable, answer) ==
    LET from == IF Unreached(m) THEN NoOrigin ELSE origin
        tried == IF Unreached(m) THEN {} ELSE attempted
        out == IF Unreached(m) THEN {} ELSE exhausted
        hit == IF "limit" \in error THEN {Catalog[m].provider} ELSE {}
    IN  /\ \/ /\ ~Handled(m, error, from)
              /\ Stay(Ignored, from, answer)
              /\ attempted' = tried /\ exhausted' = out /\ UNCHANGED waited
           \/ /\ Handled(m, error, from) /\ tool_executed
              /\ Stay(NoModel, from, answer)
              /\ attempted' = tried /\ exhausted' = out /\ UNCHANGED waited
           \/ /\ Handled(m, error, from) /\ ~tool_executed
              /\ Pick(m, error, from, tried \cup {m}, out \cup hit, usable,
                      answer)
        /\ UNCHANGED blacklist

\* A late success of a model left behind forgets nothing.
ModelSucceeded(m) ==
    /\ LET serves == origin = NoOrigin \/ origin.current = m
       IN  /\ attempted' = IF serves THEN {} ELSE attempted
           /\ exhausted' = IF serves THEN {} ELSE exhausted
    /\ waited' = IF waited = m THEN NoModel ELSE waited
    /\ UNCHANGED <<origin, elapsed, blacklist>>

\* The origin is forgotten: the config excludes it now, or the user chose
\* another model.
DropOrigin(current, answer) ==
    /\ origin # NoOrigin
    /\ \/ origin.model \in blacklist
       \/ current \notin {NoModel, origin.current}
    /\ answer = Ignored
    /\ origin' = NoOrigin /\ elapsed' = FALSE
    /\ UNCHANGED <<attempted, exhausted, waited, blacklist>>

\* Faulty variant: the blacklist is for candidates only.
ReturnToAnyOrigin(current, answer) ==
    /\ origin # NoOrigin
    /\ current = origin.current /\ elapsed
    /\ answer = origin.model
    /\ origin' = NoOrigin /\ elapsed' = FALSE
    /\ attempted' = {} /\ exhausted' = {} /\ waited' = NoModel
    /\ UNCHANGED blacklist

\* switch_back asks, and is told yes: return_to_origin.
ReturnToOrigin(current, answer) ==
    /\ origin # NoOrigin /\ origin.model \notin blacklist
    /\ current = origin.current /\ elapsed
    /\ answer = origin.model
    /\ origin' = NoOrigin /\ elapsed' = FALSE
    /\ attempted' = {} /\ exhausted' = {} /\ waited' = NoModel
    /\ UNCHANGED blacklist

\* There is nothing to ask yet, or the answer is no.
KeepGoing(current, answer) ==
    /\ \/ origin = NoOrigin
       \/ /\ origin.model \notin blacklist
          /\ current \in {NoModel, origin.current}
    /\ answer = Ignored
    /\ UNCHANGED routerVars

UserMessage(current, answer) ==
    \/ DropOrigin(current, answer)
    \/ ReturnToOrigin(current, answer)
    \/ KeepGoing(current, answer)

\* Time passes since the origin was left.
Elapse ==
    /\ origin # NoOrigin /\ ~elapsed
    /\ elapsed' = TRUE
    /\ UNCHANGED <<attempted, exhausted, origin, waited, blacklist>>

\* The engine is rebuilt with another config; save and load carry the state.
Reconfigure ==
    /\ \E b \in Blacklists \ {blacklist} : blacklist' = b
    /\ UNCHANGED <<attempted, exhausted, origin, waited, elapsed>>
=============================================================================
