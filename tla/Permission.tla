----------------------------- MODULE Permission ------------------------------
(* Permission requests: the host asks about or allows a call, the backstop   *)
(* vetoes what it knows to be irreversible, contracts judge the rest, and    *)
(* the host keeps its own decision or asks when no answer comes in time.     *)
(*                                                                           *)
(* An agent has one request at a time.  Which answers System One gives is    *)
(* free; a request is described by what the code reads of it.                *)
EXTENDS Integers, FiniteSets, Functions, TLC

CONSTANTS
    Askers,
    Requests,      \* [action, resources : sets of [within, named], command,
                   \*  vetoed, confirmed, oversized]
    Contracts,     \* id |-> [actions, hosts, required, forbidden, cooldown,
                   \*         positive, negative, outcomes]
    Commands,      \* shell commands, and NoCommand of other requests
    NoCommand,
    Learnable,     \* commands the backstop can learn, and then finds again
    MaxLearned, MaxCooldowns,
    MaxRequests,   \* bound: requests of all agents
    MaxTime        \* bound: ticks of the clock

Ids == DOMAIN Contracts
HostDecisions == {"allow", "ask", "deny"}
Outcomes == {"allow", "deny", "ask", "prompt", "remind", "abstain"}
Branches == {"positive", "negative", "uncertain"}
Resolutions == Branches \cup {"missing_evidence", "judge_failure", "cooldown"}
Evidence == {"resource_present", "resource_within_workspace", "resource_named_by_user"}

\* An answer: its value on the question's scale, and whether it is as
\* confident as the contract wants.
Values == 0..2
PermissionAnswer == [value : Values, sure : BOOLEAN]

\* Skill::validate: only a judged branch may allow, and a contract that judges
\* what the host allows denies or abstains.
ValidContract(c) ==
    /\ c.hosts # {} /\ c.hosts \subseteq {"allow", "ask"}
    /\ c.required \cap c.forbidden = {} /\ c.required \cup c.forbidden \subseteq Evidence
    /\ c.cooldown \in Nat
    /\ {c.positive, c.negative} \subseteq Values /\ c.negative < c.positive
    /\ c.outcomes \in [Resolutions -> Outcomes]
    /\ \A o \in Resolutions \ {"positive", "negative"} : c.outcomes[o] # "allow"
    /\ "allow" \in c.hosts => \A o \in Resolutions : c.outcomes[o] \in {"deny", "abstain"}

ASSUME PermissionAssumption ==
    /\ \A id \in Ids : ValidContract(Contracts[id])
    /\ NoCommand \in Commands /\ Learnable \subseteq Commands \ {NoCommand}
    /\ \A r \in Requests : r.command \in Commands
    /\ {MaxLearned, MaxCooldowns, MaxRequests, MaxTime} \subseteq Nat

VARIABLES
    calls,       \* each agent's latest request: see Call
    cooldowns,   \* Permission.cooldowns: when an agent's contract was last used
    taught,     \* Backstop.learned
    time, requests,
    condemned    \* history: commands judged irreversible

permissionVars == <<calls, cooldowns, taught, time, requests, condemned>>

\* What became of a request: at the host, in the daemon, answered, or settled
\* by the host.  `answers` and `known` are history: what the judges said, and
\* what was condemned when the daemon took it.
NoCall == [stage |-> "none"]

PermissionInit ==
    /\ calls = [a \in Askers |-> NoCall]
    /\ cooldowns = << >> /\ taught = {} /\ condemned = {}
    /\ time = 0 /\ requests = 0

-----------------------------------------------------------------------------
(* Contracts.                                                                *)

\* evidence::collect
EvidenceOf(r) ==
    IF r.resources = {} THEN {}
    ELSE {e \in Evidence :
            CASE e = "resource_present" -> TRUE
              [] e = "resource_within_workspace" -> \A x \in r.resources : x.within
              [] OTHER -> \A x \in r.resources : x.named}

MissingEvidence(id, r) ==
    \/ ~(Contracts[id].required \subseteq EvidenceOf(r))
    \/ Contracts[id].forbidden \cap EvidenceOf(r) # {}

Matching(call) ==
    {id \in Ids : /\ call.request.action \in Contracts[id].actions
                  /\ call.host \in Contracts[id].hosts}

Cooling(a, id, at) ==
    /\ <<a, id>> \in DOMAIN cooldowns
    /\ at - cooldowns[<<a, id>>] < Contracts[id].cooldown

\* The contracts whose question is asked.
Questioned(a, call) ==
    {id \in Matching(call) :
        ~MissingEvidence(id, call.request) /\ ~Cooling(a, id, call.at)}

\* resolve_branch, thresholds first and then confidence.
Branch(id, answer) ==
    IF ~answer.sure THEN "uncertain"
    ELSE CASE answer.value >= Contracts[id].positive -> "positive"
           [] answer.value <= Contracts[id].negative -> "negative"
           [] OTHER -> "uncertain"

\* How a contract is resolved once the answers are in: it is looked at anew.
Resolution(a, call, answers, id) ==
    CASE MissingEvidence(id, call.request) -> "missing_evidence"
      [] ~MissingEvidence(id, call.request) /\ Cooling(a, id, call.at) -> "cooldown"
      [] OTHER -> IF id \in DOMAIN answers THEN answers[id] ELSE "judge_failure"

CombinedAllowFirst(host, outcomes) ==
    CASE "allow" \in outcomes -> "allow"
      [] "allow" \notin outcomes /\ "deny" \in outcomes -> "deny"
      [] outcomes \cap {"allow", "deny"} = {} /\ "ask" \in outcomes -> "ask"
      [] OTHER -> host

\* combine: the most restrictive; without one the host's decision is kept.
Combined(host, outcomes) ==
    CASE "deny" \in outcomes -> "deny"
      [] "deny" \notin outcomes /\ outcomes \cap {"ask", "prompt", "remind"} # {} -> "ask"
      [] outcomes \subseteq {"allow", "abstain"} /\ "allow" \in outcomes -> "allow"
      [] OTHER -> host

\* Permission::record: at its capacity every cooldown is forgotten.
Recorded(a, ids, at) ==
    LET keys == {<<a, id>> : id \in ids}
        kept == IF Cardinality(DOMAIN cooldowns \cup keys) > MaxCooldowns
                THEN << >> ELSE cooldowns
    IN  [k \in keys |-> at] @@ kept

\* Permission::answer: the decision, and what is recorded.
Decision(a, call, answers) ==
    Combined(call.host, {Contracts[id].outcomes[Resolution(a, call, answers, id)] :
                           id \in Matching(call)})

Used(a, call, answers) ==
    {id \in Matching(call) : Resolution(a, call, answers, id) # "cooldown"}

-----------------------------------------------------------------------------
(* The host.                                                                 *)

\* A failure keeps what the host allows, and asks otherwise.
OnFailure(call) == IF call.host = "allow" THEN "allow" ELSE "ask"

Settled(call, decision) ==
    [call EXCEPT !.stage = "settled", !.decision = decision, !.at = 0, !.retries = 0]

\* A request the host denies stays denied; one too large is not reported.
Evaluate(a, r, host) ==
    /\ calls[a].stage \in {"none", "settled"}
    /\ requests < MaxRequests /\ requests' = requests + 1
    /\ calls' = [calls EXCEPT ![a] =
          LET call == [stage |-> "sent", request |-> r, host |-> host,
                       at |-> time, retries |-> 0, decision |-> host,
                       answers |-> << >>, known |-> FALSE, reached |-> FALSE]
          IN  CASE host = "deny" -> Settled(call, "deny")
                [] host # "deny" /\ r.oversized -> Settled(call, OnFailure(call))
                [] OTHER -> call]
    /\ UNCHANGED <<cooldowns, taught, time, condemned>>

\* A daemon that is away is tried again, twice.
Unreachable(a) ==
    /\ calls[a].stage = "sent"
    /\ calls' = [calls EXCEPT ![a] =
          IF @.retries < 2 THEN [calls[a] EXCEPT !.retries = @ + 1]
          ELSE Settled(@, OnFailure(@))]
    /\ UNCHANGED <<cooldowns, taught, time, requests, condemned>>

\* Five seconds, or any other error.
GiveUp(a) ==
    /\ calls[a].stage \in {"sent", "judging", "replied"}
    /\ calls' = [calls EXCEPT ![a] =
          IF @.stage = "judging" THEN [@ EXCEPT !.stage = "left"]
          ELSE [Settled(@, OnFailure(@)) EXCEPT !.reached = FALSE]]
    /\ UNCHANGED <<cooldowns, taught, time, requests, condemned>>

\* The daemon's decision is the host's.
Applied(a) ==
    /\ calls[a].stage = "replied"
    /\ calls' = [calls EXCEPT ![a] = Settled(@, @.decision)]
    /\ UNCHANGED <<cooldowns, taught, time, requests, condemned>>

-----------------------------------------------------------------------------
(* The daemon.                                                               *)

VetoedBuiltIn(r) == r.vetoed
Vetoed(r) == r.vetoed \/ r.command \in taught

\* Engine::start.  The backstop goes first, and then what the user confirms;
\* a shell command is asked about even when no contract matches.
Take(a) ==
    /\ calls[a].stage = "sent"
    /\ LET call == [calls[a] EXCEPT !.known = calls[a].request.command \in condemned,
                                    !.reached = TRUE, !.retries = 0]
           r == call.request
       IN  IF Vetoed(r) \/ r.confirmed
           THEN /\ calls' = [calls EXCEPT ![a] =
                     [call EXCEPT !.stage = "replied",
                        !.decision = IF Vetoed(r) THEN "deny" ELSE "ask"]]
                /\ UNCHANGED cooldowns
           ELSE IF Questioned(a, call) = {} /\ r.command = NoCommand
           THEN /\ calls' = [calls EXCEPT ![a] =
                     [call EXCEPT !.stage = "replied",
                                  !.decision = Decision(a, call, << >>)]]
                /\ cooldowns' = Recorded(a, Used(a, call, << >>), call.at)
           ELSE /\ calls' = [calls EXCEPT ![a] = [call EXCEPT !.stage = "judging"]]
                /\ UNCHANGED cooldowns
    /\ UNCHANGED <<taught, time, requests, condemned>>

\* The answers arrive, or none does; a contract finds its own by its id.
\* A command judged irreversible is learned and denied, whatever the contracts
\* said, and though nobody waits for it any more.
Judged(a, answers, irreversible) ==
    /\ calls[a].stage \in {"judging", "left"}
    /\ DOMAIN answers \in {{}, Questioned(a, calls[a])}
    /\ irreversible => calls[a].request.command # NoCommand
    /\ calls' = [calls EXCEPT ![a] =
          IF calls[a].stage = "left"
          THEN [Settled(@, OnFailure(@)) EXCEPT !.reached = FALSE]
          ELSE [@ EXCEPT !.stage = "replied", !.answers = answers,
                         !.decision = IF irreversible THEN "deny"
                                      ELSE Decision(a, calls[a], answers)]]
    /\ cooldowns' = Recorded(a, Used(a, calls[a], answers), calls[a].at)
    /\ IF irreversible
       THEN /\ condemned' = condemned \cup {calls[a].request.command}
            /\ taught' = IF /\ calls[a].request.command \in Learnable
                             /\ Cardinality(taught) < MaxLearned
                          THEN taught \cup {calls[a].request.command} ELSE taught
       ELSE UNCHANGED <<taught, condemned>>
    /\ UNCHANGED <<time, requests>>

\* The scheduler sees that the host left before the answers come.
Cancel(a) ==
    /\ calls[a].stage = "left"
    /\ calls' = [calls EXCEPT ![a] =
          [Settled(@, OnFailure(@)) EXCEPT !.reached = FALSE]]
    /\ UNCHANGED <<cooldowns, taught, time, requests, condemned>>

PermissionTick ==
    /\ time < MaxTime /\ time' = time + 1
    /\ UNCHANGED <<calls, cooldowns, taught, requests, condemned>>

PermissionNext ==
    \/ \E a \in Askers :
          \/ \E r \in Requests, host \in HostDecisions : Evaluate(a, r, host)
          \/ Unreachable(a) \/ GiveUp(a) \/ Applied(a)
          \/ Take(a) \/ Cancel(a)
          \/ \E asked \in SUBSET Ids, irreversible \in BOOLEAN :
                \E given \in [asked -> PermissionAnswer] :
                   Judged(a, [id \in asked |-> Branch(id, given[id])], irreversible)
    \/ PermissionTick

PermissionSpec == PermissionInit /\ [][PermissionNext]_permissionVars

-----------------------------------------------------------------------------
(* Properties.                                                               *)

Decided(a) == calls[a].stage \in {"replied", "settled"}

\* A contract was not against it: by its own answer or, without one, by what it
\* does when it is not judged.
Agrees(call, id) ==
    \E o \in IF id \in DOMAIN call.answers THEN {call.answers[id]}
              ELSE Resolutions \ Branches :
        Contracts[id].outcomes[o] \in {"allow", "abstain"}

\* What the host would ask about is allowed only on a judge's word in this
\* very request: a contract's own answer allows it, no matching contract is
\* against it, and neither backstop list names it, whatever is late, missing,
\* cooling down or forgotten.
GrantsJudged ==
    \A a \in Askers : LET call == calls[a] IN
        Decided(a) /\ call.host = "ask" /\ call.decision = "allow" =>
            /\ ~call.request.vetoed /\ ~call.request.confirmed
            /\ \E id \in DOMAIN call.answers :
                 Contracts[id].outcomes[call.answers[id]] = "allow"
            /\ \A id \in Matching(call) : Agrees(call, id)

\* The host's denial stands, and its allow can only be vetoed, unless the user
\* asked to confirm such a request (contract.rs, adapter permission.ts).
HostStands ==
    \A a \in Askers : LET call == calls[a] IN
        Decided(a) =>
            /\ call.host = "deny" => call.decision = "deny"
            /\ call.host = "allow" /\ call.decision = "ask" => call.request.confirmed

DecisionsEarned == GrantsJudged /\ HostStands

\* A command once judged irreversible is denied to every agent whose request
\* reaches the daemon after that, though the host that first asked had left
\* before the answer, and whatever the contracts say.
HarmRemembered ==
    \A a \in Askers :
        /\ Decided(a) /\ calls[a].reached /\ calls[a].known
        /\ calls[a].request.command \in Learnable
        => calls[a].decision = "deny"
=============================================================================
