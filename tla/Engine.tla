-------------------------------- MODULE Engine --------------------------------
(***************************************************************************)
(* The engine's runs (crates/core/src/engine.rs) and the judges that the   *)
(* capabilities hold between their rounds (judgment/judged.rs).            *)
(*                                                                         *)
(* A run is one signal being judged.  Every capability says what it asks:  *)
(* System One questions for the host ("one"), questions routed to a local  *)
(* judge, which the engine asks itself ("local"; a question whose judge is *)
(* missing behaves alike, unanswered), System Two reasonings ("two").  The *)
(* host brings results back by run, in any order, late, twice or never.    *)
(* Which judgment a capability makes of its outcomes is nondeterministic.  *)
(***************************************************************************)
EXTENDS Naturals, FiniteSets

CONSTANTS
    Runs,         \* the signals, by the run they would get
    AgentOf,      \* [Runs -> agents]
    Shell,        \* permission requests for a shell command: asked for harm
    Caps,         \* the capabilities
    MaxRounds,    \* MAX_ROUNDS
    MaxRuns,      \* MAX_RUNS
    NoRun

ASSUME ConstantsAssumption ==
    /\ IsFiniteSet(Runs) /\ IsFiniteSet(Caps)
    /\ Shell \subseteq Runs /\ NoRun \notin Runs
    /\ MaxRounds \in Nat \ {0} /\ MaxRuns \in Nat
    /\ AgentOf \in [Runs -> {AgentOf[r] : r \in Runs}]

Kinds == {"one", "local", "two"}
Nothing == {}

\* Effects are told apart as far as the engine does: permission decisions it
\* may replace, and others.
Effects == {"allow", "deny", "confirm", "other"}

VARIABLES
    outcome,       \* each signal: see Outcomes
    round,         \* Run.round
    asks,          \* Run.asks: what each capability asked this round
    host_asked,    \* whether Run.questions, the host's, is nonempty
    irreversible,  \* Run.irreversible
    settled,       \* Run.settled, then the effects returned
    pending,       \* Judging.pending, of each capability
    inline,        \* the run the engine continues by itself, if any
    judged,        \* history: the capabilities interested in each signal
    acted,         \* history: how often each acted on its verdict
    harmful,       \* history: System One judged the command irreversible
    failed         \* history: a System One call of the run failed

history == <<judged, acted, harmful, failed>>
vars == <<outcome, round, asks, host_asked, irreversible, settled, pending,
          inline, history>>

Outcomes == {"new", "refused", "running", "done", "cancelled"}

InFlight == {r \in Runs : outcome[r] = "running"}

Init ==
    /\ outcome = [r \in Runs |-> "new"]
    /\ round = [r \in Runs |-> 0]
    /\ asks = [r \in Runs |-> [c \in Caps |-> Nothing]]
    /\ host_asked = [r \in Runs |-> FALSE]
    /\ irreversible = [r \in Runs |-> FALSE]
    /\ settled = [r \in Runs |-> {}]
    /\ pending = [c \in Caps |-> [r \in Runs |-> Nothing]]
    /\ inline = NoRun
    /\ judged = [r \in Runs |-> {}]
    /\ acted = [r \in Runs |-> [c \in Caps |-> 0]]
    /\ harmful = {}
    /\ failed = {}

\* The engine is idle: no call of it is in progress.
Idle == inline = NoRun

-----------------------------------------------------------------------------
(* start                                                                    *)

\* The agent has a run in flight, or MAX_RUNS are.
Refuses(r) ==
    \/ \E k \in InFlight : AgentOf[k] = AgentOf[r]
    \/ Cardinality(InFlight) >= MaxRuns

\* An invalid signal, or one the engine refuses.
StartError(r) ==
    /\ Idle /\ outcome[r] = "new"
    /\ outcome' = [outcome EXCEPT ![r] = "refused"]
    /\ UNCHANGED <<round, asks, host_asked, irreversible, settled, pending,
                   inline, history>>

\* The backstop vetoes the request, or asks you to confirm it, before any
\* capability or judge sees it.
StartVetoed(r) ==
    /\ Idle /\ outcome[r] = "new" /\ ~Refuses(r)
    /\ outcome' = [outcome EXCEPT ![r] = "done"]
    /\ \E effect \in {"deny", "confirm"} :
           settled' = [settled EXCEPT ![r] = {effect}]
    /\ UNCHANGED <<round, asks, host_asked, irreversible, pending, inline,
                   history>>

\* What a capability plans: it asks, settles now, or skips the signal.  Of the
\* effects it settles with, "allow" stands for any permission decision.
Plans == [asks : SUBSET Kinds, settled : {{}, {"allow"}, {"other"}}]
Plan == {p \in Plans : p.asks # {} => p.settled = {}}

\* Whether a round has something for the host.
ForHost(questions, inference) ==
    questions \/ \E c \in Caps : "two" \in inference[c]

\* plan, and the round's first asks: capabilities', whether the command does
\* irreversible harm, and whether masked text is secret.  With nothing for the
\* host, the run continues by itself.
Start(r) ==
    /\ Idle /\ outcome[r] = "new" /\ ~Refuses(r)
    /\ \E plan \in [Caps -> Plan], secret \in BOOLEAN :
         LET inference == [c \in Caps |-> plan[c].asks]
             asking == {c \in Caps : inference[c] # {}}
             done == UNION {plan[c].settled : c \in Caps}
             questions == \/ r \in Shell \/ secret
                          \/ \E c \in Caps : "one" \in inference[c]
         IN  /\ settled' = [settled EXCEPT ![r] = done]
             /\ judged' = [judged EXCEPT ![r] = asking]
             /\ IF asking = {} /\ r \notin Shell
                THEN /\ outcome' = [outcome EXCEPT ![r] = "done"]
                     /\ UNCHANGED <<round, asks, host_asked, pending, inline>>
                ELSE /\ outcome' = [outcome EXCEPT ![r] = "running"]
                     /\ round' = [round EXCEPT ![r] = 1]
                     /\ asks' = [asks EXCEPT ![r] = inference]
                     /\ host_asked' = [host_asked EXCEPT ![r] = questions]
                     /\ pending' = [c \in Caps |->
                                      [pending[c] EXCEPT ![r] = inference[c]]]
                     /\ inline' = IF ForHost(questions, inference)
                                  THEN NoRun ELSE r
    /\ UNCHANGED <<irreversible, acted, harmful, failed>>

-----------------------------------------------------------------------------
(* resume                                                                   *)

\* Faulty variant: a judge asked its last round waits for another.
SettlesOnFailure(r, told, next) == ~told /\ next \cap {"one", "local"} # {}

\* Judging settles a judge that would ask again when rounds are spent, or
\* when it was told System One failed and it has more questions.
Settles(r, told, next) ==
    round[r] >= MaxRounds \/ (~told /\ next \cap {"one", "local"} # {})

\* advance: a capability that asked the host nothing is not told of its
\* failure.
Told(r, c, answered) == "one" \in asks[r][c] => answered

\* What capability c's judge does next, given what the round brought: it is
\* done, or asks again ({} when it is finished, also by settling).
NextAsk(r, c, answered, next) ==
    IF pending[c][r] = Nothing \/ Settles(r, Told(r, c, answered), next)
    THEN Nothing ELSE next

\* A failed System One call ends System One's rounds; a next round that asks
\* System One nothing may still run.
NextAllowed(answered, next) ==
    answered \/ \A c \in Caps : "one" \notin next[c]

\* Faulty variant: a value known so far is acted on between rounds too.
ActsEachRound(r, c, again) == pending[c][r] # Nothing

\* Judging acts on the value its judge finishes or settles with; it holds none
\* for a run it released.
Acts(r, c, again) == pending[c][r] # Nothing /\ again = Nothing

\* Faulty variant: a next round is not counted.
SameRound(r) == round[r]

NextRound(r) == round[r] + 1

\* Faulty variant: a later round clears what the first one judged.
IrreversibleEachRound(r, harm) == harm

\* Only the first round's answers say whether the command is irreversible.
Irreversible(r, harm) == IF round[r] = 1 THEN harm ELSE irreversible[r]

\* A command judged irreversible is denied, whatever a contract said.
Final(r, harm, effects) ==
    IF Irreversible(r, harm)
    THEN (effects \ {"allow", "deny", "confirm"}) \cup {"deny"}
    ELSE effects

\* Faulty variant: capabilities keep their judges.
ReleaseNothing(r, kept) == pending' = kept

\* release: every capability forgets the run.
Release(r, kept) == pending' = [c \in Caps |-> [kept[c] EXCEPT ![r] = Nothing]]

\* The capabilities that asked something this round, what each judge asks
\* next, and those that act on their verdict.
Asking(r) == {c \in Caps : asks[r][c] # Nothing}

Again(r, answered, next) ==
    [c \in Caps |-> IF c \in Asking(r)
                    THEN NextAsk(r, c, answered, next[c]) ELSE Nothing]

Acting(r, again) == {c \in Asking(r) : Acts(r, c, again[c])}

\* The judges capabilities hold once the round is over.
Kept(r, again) ==
    [c \in Caps |-> [pending[c] EXCEPT ![r] =
                        IF c \in Asking(r) THEN again[c] ELSE @]]

GoesOn(r, answered, again) ==
    /\ \E c \in Caps : again[c] # Nothing
    /\ round[r] < MaxRounds
    /\ NextAllowed(answered, again)

\* The run goes on: by itself when the round has nothing for the host.
AskRound(r, again, effects) ==
    LET questions == \E c \in Caps : "one" \in again[c]
    IN  /\ round' = [round EXCEPT ![r] = NextRound(r)]
        /\ asks' = [asks EXCEPT ![r] = again]
        /\ host_asked' = [host_asked EXCEPT ![r] = questions]
        /\ settled' = [settled EXCEPT ![r] = effects]
        /\ pending' = Kept(r, again)
        /\ inline' = IF ForHost(questions, again) THEN NoRun ELSE r
        /\ UNCHANGED outcome

\* The run settles; a judge still waiting for a round is dropped.
EndRun(r, again, harm, effects) ==
    /\ outcome' = [outcome EXCEPT ![r] = "done"]
    /\ settled' = [settled EXCEPT ![r] = Final(r, harm, effects)]
    /\ Release(r, Kept(r, again))
    /\ inline' = NoRun
    /\ UNCHANGED <<round, asks, host_asked>>

\* A round's results, told to the capabilities that asked.
EndRound(r, answered, next, harm, act) ==
    LET again == Again(r, answered, next)
        acting == Acting(r, again)
        effects == settled[r] \cup {act[c] : c \in acting}
    IN  /\ harmful' = IF harm THEN harmful \cup {r} ELSE harmful
        /\ failed' = IF answered THEN failed ELSE failed \cup {r}
        /\ acted' = [acted EXCEPT ![r] =
                       [c \in Caps |-> IF c \in acting THEN @[c] + 1 ELSE @[c]]]
        /\ irreversible' = [irreversible EXCEPT ![r] = Irreversible(r, harm)]
        /\ IF GoesOn(r, answered, again)
           THEN AskRound(r, again, effects)
           ELSE EndRun(r, again, harm, effects)
        /\ UNCHANGED judged

\* Only the first round of a shell command asks for harm.
MayBeHarm(r, answered) ==
    IF r \in Shell /\ answered /\ round[r] = 1 THEN BOOLEAN ELSE {FALSE}

\* resume_round, for a run in flight.  `answered`: System One's answers came
\* and are valid, or it was asked nothing.
ResumeRound(r, answered) ==
    \E next \in [Asking(r) -> SUBSET Kinds], harm \in MayBeHarm(r, answered),
       act \in [Asking(r) -> {"allow", "other"}] :
        EndRound(r, answered, next, harm, act)

\* Faulty variant: a result for a run that was cancelled is used.
KnowsForever(r) == outcome[r] \in {"running", "cancelled"}

\* self.runs.remove(&run): a run in flight.
Knows(r) == r \in InFlight

\* The host brings a round's results, or a late or repeated one.  A run not in
\* flight: nothing changes.
Resume(r) ==
    /\ Idle /\ Knows(r)
    /\ \E ok \in BOOLEAN : ResumeRound(r, ok \/ ~host_asked[r])

\* Local judges answered the whole round: the engine continues at once.
ResumeInline ==
    /\ ~Idle
    /\ ResumeRound(inline, TRUE)

-----------------------------------------------------------------------------
(* cancel                                                                   *)

Cancel(r) ==
    /\ Idle /\ r \in InFlight
    /\ outcome' = [outcome EXCEPT ![r] = "cancelled"]
    /\ Release(r, pending)
    /\ UNCHANGED <<round, asks, host_asked, irreversible, settled, inline,
                   history>>

-----------------------------------------------------------------------------

Next ==
    \/ \E r \in Runs : \/ StartError(r) \/ StartVetoed(r) \/ Start(r)
                       \/ Resume(r) \/ Cancel(r)
    \/ ResumeInline

Spec == Init /\ [][Next]_vars

\* The engine's own continuation is part of the host's call, which returns;
\* and the host resumes each run it keeps, with results or, past the deadline,
\* with a failure (scheduler.rs, sweep and expire).
Fairness == WF_vars(ResumeInline) /\ \A r \in Runs : WF_vars(Resume(r))

FairSpec == Spec /\ Fairness

-----------------------------------------------------------------------------
(* What must hold.                                                          *)

TypeOK ==
    /\ outcome \in [Runs -> Outcomes]
    /\ round \in [Runs -> 0..MaxRounds]
    /\ asks \in [Runs -> [Caps -> SUBSET Kinds]]
    /\ host_asked \in [Runs -> BOOLEAN]
    /\ irreversible \in [Runs -> BOOLEAN]
    /\ settled \in [Runs -> SUBSET Effects]
    /\ pending \in [Caps -> [Runs -> SUBSET Kinds]]
    /\ inline \in InFlight \cup {NoRun}
    /\ judged \in [Runs -> SUBSET Caps]
    /\ acted \in [Runs -> [Caps -> Nat]]
    /\ harmful \subseteq Runs /\ failed \subseteq Runs

\* A capability holds a judge exactly for the runs in flight it asked
\* something for: none leaks when a run settles, is cancelled or is dropped
\* for want of a next round, and none is lost between two rounds.
JudgesMatchRuns ==
    \A c \in Caps, r \in Runs :
        pending[c][r] = IF r \in InFlight THEN asks[r][c] ELSE Nothing

\* No capability acts twice on one signal, whatever results come back twice.
ActsOnce == \A r \in Runs, c \in Caps : acted[r][c] <= 1

\* While System One answers, every capability that judged a signal acts on its
\* verdict by the time the signal is done, in rounds or by settling.
VerdictActed ==
    \A r \in Runs : outcome[r] = "done" /\ r \notin failed =>
        \A c \in judged[r] : acted[r][c] = 1

\* Once System One judged a command irreversible, the one permission decision
\* returned is a denial, whatever the capabilities decided and however many
\* rounds they took.
IrreversibleDenied ==
    \A r \in harmful : outcome[r] = "done" =>
        settled[r] \cap {"allow", "deny", "confirm"} = {"deny"}

\* A signal that settled or was cancelled stays as it was: a late or repeated
\* result makes no capability act and changes no effect.
Over(r) == outcome[r] \in {"done", "cancelled", "refused"}
StaysOver ==
    [][\A r \in Runs : Over(r) =>
          /\ outcome'[r] = outcome[r] /\ settled'[r] = settled[r]
          /\ acted'[r] = acted[r]]_vars

\* Every run ends, however often its capabilities would ask again: rounds are
\* counted whoever answers them, the host or the engine by itself.
RunsEnd == \A r \in Runs : outcome[r] = "running" ~> outcome[r] # "running"

\* "In every other case it settles, so its value is always acted on."
\* (judgment/judged.rs, Judging::resume)
AlwaysActedOn ==
    \A r \in Runs : outcome[r] = "done" =>
        \A c \in judged[r] : acted[r][c] = 1
===============================================================================
