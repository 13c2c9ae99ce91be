------------------------------- MODULE Renewal -------------------------------
(* The prompt cache of idle sessions: kept warm after a turn by requests of  *)
(* the plugin's own (warming.ts), and once cold, a long context renewed by a *)
(* cheaper model's summary before the next prompt (renewal.ts), both as the  *)
(* model router decides (model-router/src/lib.rs, config.rs).                *)
(*                                                                           *)
(* The plugin handles what is ready before a second passes.                  *)
EXTENDS Integers, Sequences, FiniteSets

CONSTANTS
    Sessions, Providers,
    Own,            \* the provider of the sessions' own model
    Fast, Free,     \* providers of a fast-tier, and of a last-resort model
    Pins, Banned,   \* of a pinned, and of only blacklisted models
    LongSessions,   \* whose context is over its budget
    Lifetime, LeadSeconds, MaxSeconds,
    Prices,         \* [read, write, input]
    MaxTracked,     \* MAX_SESSIONS
    PendingSeconds, PassOverSeconds,
    MaxClock, MaxTurns, MaxTrials    \* bounds

ASSUME RenewalAssumption ==
    /\ {Lifetime, LeadSeconds, MaxSeconds, PendingSeconds, PassOverSeconds,
        MaxClock, MaxTurns, MaxTrials} \subseteq Nat
    /\ Prices \in [{"read", "write", "input"} -> Nat]
    /\ Fast \cup Free \cup Pins \cup Banned \cup {Own} \subseteq Providers
    /\ LongSessions \subseteq Sessions /\ MaxTracked \in Nat \ {0}

VARIABLES
    clock,
    contexts,   \* of each session, at the host: running, turns, when the last
                \* measured reply ended, and when the provider last read it
    events,     \* execution events the plugin has not handled
    executions, warmed, loops, pending,    \* its maps, by session
    plans,      \* warming decisions under way
    warmers,     \* warming loops, by number
    resumes,    \* renewal decisions under way, by session
    compactions,    \* of each session: to begin, and how its summary is written
    passed_over, stored,    \* providers passed over, until when; and on disk
    exhausted,  \* the router's: providers whose limit a session hit
    memo        \* history: see RenewalInit

renewalVars ==
    <<clock, contexts, events, executions, warmed, loops, pending, plans,
      warmers, resumes, compactions, passed_over, stored, exhausted, memo>>

timeVars == <<contexts, events, executions>>
warmVars == <<warmed, loops, plans, warmers>>
renewVars == <<pending, resumes, compactions, passed_over, stored>>

NoMap == << >>
NoneYet == [stage |-> "none"]

\* forgot: executions were cleared.  unseen: the provider may have read a session
\* without the plugin's knowing since its last measured reply.  failed: when a
\* provider last failed to summarize.
RenewalInit ==
    /\ clock = 1 /\ events = << >> /\ plans = {} /\ warmers = << >>
    /\ contexts = [s \in Sessions |->
                     [running |-> FALSE, turns |-> 0, ended |-> 0, read |-> 0]]
    /\ executions = NoMap /\ warmed = NoMap /\ loops = NoMap /\ pending = NoMap
    /\ resumes = [s \in Sessions |-> NoneYet]
    /\ compactions = [s \in Sessions |-> NoneYet]
    /\ passed_over = NoMap /\ stored = NoMap /\ exhausted = {}
    /\ memo = [forgot |-> FALSE, unseen |-> {}, failed |-> NoMap, trials |-> 0]

Set(map, key, value) ==
    [k \in DOMAIN map \cup {key} |-> IF k = key THEN value ELSE map[k]]
Without(map, key) == [k \in DOMAIN map \ {key} |-> map[k]]

\* A map of MaxTracked is cleared to make room.
Room(map, key) == IF key \notin DOMAIN map /\ Cardinality(DOMAIN map) >= MaxTracked
                  THEN NoMap ELSE map

-----------------------------------------------------------------------------
(* What the router decides.                                                  *)

\* Warming::plan: as often as it fits in MaxSeconds, and as pays.
WarmTimes ==
    LET every == Lifetime - LeadSeconds
        write == IF Prices.write > 0 THEN Prices.write ELSE Prices.input
        saved == IF write > Prices.read THEN write - Prices.read ELSE 0
        in_time == (MaxSeconds - 1) \div every
        paid_for == saved \div Prices.read
    IN  IF MaxSeconds = 0 \/ Lifetime <= LeadSeconds \/ Prices.read = 0 THEN 0
        ELSE IF in_time < paid_for THEN in_time ELSE paid_for

\* A session short of min_tokens, or whose provider hit a limit, is not warmed.
WarmPlan(s) ==
    IF s \in LongSessions /\ <<s, Own>> \notin exhausted THEN WarmTimes ELSE 0

\* ModelRouter::summarizer, of the providers usable: pinned, then fast, first on
\* the session's own provider, then free.
Summarizers(s, usable) ==
    LET left == {p \in usable \ Banned : <<s, p>> \notin exhausted}
        first(these, others) == IF these # {} THEN these ELSE others
    IN  first(left \cap Pins,
              first(left \cap Fast \cap {Own}, first(left \cap Fast, left \cap Free)))

\* The facts judge: cold, and long.
Renews(s, idle) == idle >= Lifetime /\ s \in LongSessions

-----------------------------------------------------------------------------
(* The host.                                                                 *)

\* A second passes when nothing is left to do at once.
Tick ==
    /\ clock < MaxClock /\ events = << >>
    /\ \A n \in DOMAIN warmers : ~(warmers[n].stage = "asleep" /\ warmers[n].at <= clock)
                                 /\ warmers[n].stage # "stopping"
    /\ clock' = clock + 1
    /\ UNCHANGED <<timeVars, warmVars, renewVars, exhausted, memo>>

\* The loop is interrupted in the background.
Stopped(s, all) ==
    [n \in DOMAIN all |->
        IF s \in DOMAIN loops /\ loops[s] = n /\ all[n].stage \in {"asleep", "sending"}
        THEN [all[n] EXCEPT !.stage = "stopping"] ELSE all[n]]

Stops(s) == warmers' = Stopped(s, warmers) /\ loops' = Without(loops, s)

\* A request of the session's own: the context hook stops its warming.
Executes(s) ==
    /\ ~contexts[s].running /\ contexts[s].turns < MaxTurns
    /\ compactions[s].stage = "none" /\ resumes[s].stage = "none"
    /\ contexts' = [contexts EXCEPT ![s].running = TRUE, ![s].turns = @ + 1,
                                    ![s].read = clock]
    /\ events' = Append(events, <<"started", s>>)
    /\ Stops(s)
    /\ UNCHANGED <<clock, executions, warmed, plans, renewVars, exhausted, memo>>

\* It ends, with a reply, which measures the context, or on a limit.
Ends(s, limit) ==
    /\ contexts[s].running
    /\ contexts' = [contexts EXCEPT ![s].running = FALSE,
                                    ![s].ended = IF limit THEN @ ELSE clock,
                                    ![s].read = clock]
    /\ events' = IF limit THEN events ELSE Append(events, <<"succeeded", s>>)
    /\ exhausted' = IF limit THEN exhausted \cup {<<s, Own>>}
                    ELSE {x \in exhausted : x[1] # s}
    /\ memo' = [memo EXCEPT !.unseen = IF limit THEN @ \cup {s} ELSE @ \ {s}]
    /\ UNCHANGED <<clock, executions, warmVars, renewVars>>

-----------------------------------------------------------------------------
(* Warming.                                                                  *)

\* started
HandlesStart(s) ==
    /\ events # << >> /\ Head(events) = <<"started", s>> /\ events' = Tail(events)
    /\ LET room == Room(executions, s)
       IN  /\ executions' = Set(room, s, IF s \in DOMAIN room THEN room[s] + 1 ELSE 1)
           /\ memo' = [memo EXCEPT !.forgot = @ \/ room # executions]
    /\ Stops(s)
    /\ UNCHANGED <<clock, contexts, warmed, plans, renewVars, exhausted>>

ExecutionsOf(s) == IF s \in DOMAIN executions THEN executions[s] ELSE 0

\* schedule: what the turn left goes to the engine.
HandlesEnd(s) ==
    /\ events # << >> /\ Head(events) = <<"succeeded", s>> /\ events' = Tail(events)
    /\ plans' = plans \cup {[of |-> s, execution |-> ExecutionsOf(s),
                              turn |-> contexts[s].turns]}
    /\ UNCHANGED <<clock, contexts, executions, warmed, loops, warmers, renewVars,
                   exhausted, memo>>

\* Faulty variant: a plan is followed whatever began meanwhile.
NoneBeganEver(plan) == TRUE

\* No execution began while the engine decided.
NoneBegan(plan) == ExecutionsOf(plan.of) = plan.execution

\* The engine's plan; any older loop is stopped, and all when there are too many.
Schedules(plan) ==
    /\ plan \in plans /\ plans' = plans \ {plan}
    /\ LET times == WarmPlan(plan.of)
           rest == Without(loops, plan.of)
           room == IF Cardinality(DOMAIN rest) >= MaxTracked THEN NoMap ELSE rest
           stopped == [n \in DOMAIN warmers |->
                         IF /\ \E s \in DOMAIN loops : loops[s] = n /\ s \notin DOMAIN room
                            /\ warmers[n].stage \in {"asleep", "sending"}
                         THEN [warmers[n] EXCEPT !.stage = "stopping"] ELSE warmers[n]]
       IN  IF times = 0 \/ ~NoneBegan(plan) THEN Stops(plan.of)
           ELSE /\ warmers' = Append(stopped,
                     [of |-> plan.of, turn |-> plan.turn, stage |-> "asleep",
                      left |-> times, at |-> clock + Lifetime - LeadSeconds])
                /\ loops' = Set(room, plan.of, Len(warmers'))
    /\ UNCHANGED <<clock, timeVars, warmed, renewVars, exhausted, memo>>

\* No decision: the cache expires as it would.
PlanFails(plan) ==
    /\ plan \in plans /\ plans' = plans \ {plan}
    /\ UNCHANGED <<clock, timeVars, warmed, loops, warmers, renewVars, exhausted, memo>>

\* warm: the next request; a loop being stopped may just get to it.
Warms(n) ==
    /\ n \in DOMAIN warmers /\ warmers[n].stage \in {"asleep", "stopping"}
    /\ warmers[n].at <= clock /\ warmers[n].left > 0
    /\ warmers' = [warmers EXCEPT ![n].stage =
                    IF @ = "stopping" THEN "stopping" ELSE "sending", ![n].left = @ - 1]
    /\ contexts' = [contexts EXCEPT ![warmers[n].of].read = clock]
    /\ memo' = IF warmers[n].stage = "stopping"
               THEN [memo EXCEPT !.unseen = @ \cup {warmers[n].of}] ELSE memo
    /\ UNCHANGED <<clock, events, executions, warmed, loops, plans, renewVars,
                   exhausted>>

\* It is answered, or fails, and the next one is sent either way.
Warmed(n, ok) ==
    /\ n \in DOMAIN warmers /\ warmers[n].stage = "sending"
    /\ LET s == warmers[n].of
       IN  /\ warmers' = [warmers EXCEPT
                ![n].stage = IF warmers[n].left = 0 THEN "over" ELSE "asleep",
                ![n].at = clock + Lifetime - LeadSeconds]
           /\ warmed' = IF ok THEN Set(Room(warmed, s), s, clock) ELSE warmed
           /\ memo' = [memo EXCEPT !.unseen =
                         @ \cup (IF ok THEN DOMAIN warmed \ DOMAIN warmed' ELSE {s})]
    /\ UNCHANGED <<clock, timeVars, loops, plans, renewVars, exhausted>>

Interrupted(n) ==
    /\ n \in DOMAIN warmers /\ warmers[n].stage = "stopping"
    /\ warmers' = [warmers EXCEPT ![n].stage = "over"]
    /\ memo' = [memo EXCEPT !.unseen = @ \cup {warmers[n].of}]
    /\ UNCHANGED <<clock, timeVars, warmed, loops, plans, renewVars, exhausted>>

-----------------------------------------------------------------------------
(* Renewal.                                                                  *)

\* contextFacts: idle since its last reply, or a later warming.
IdleSeconds(s) ==
    LET at == IF s \in DOMAIN warmed THEN warmed[s] ELSE 0
    IN  clock - (IF at > contexts[s].ended THEN at ELSE contexts[s].ended)

Usable == {p \in Providers : p \notin DOMAIN passed_over \/ passed_over[p] <= clock}

\* Something is being read of the session, and not measured yet.
InFlight(s) ==
    \/ contexts[s].running
    \/ \E n \in DOMAIN warmers :
         warmers[n].of = s /\ warmers[n].stage \in {"sending", "stopping"}

\* renew: the facts of a prompt that goes on with a measured context.
Resumes(s) ==
    /\ resumes[s].stage = "none" /\ contexts[s].ended > 0
    /\ contexts[s].turns < MaxTurns
    /\ resumes' = [resumes EXCEPT ![s] =
         [stage |-> "judging", idle |-> IdleSeconds(s), usable |-> Usable,
          cold |-> \/ contexts[s].read + Lifetime <= clock
                   \/ InFlight(s) \/ s \in memo.unseen,
          failing |-> {p \in DOMAIN memo.failed :
                         clock < memo.failed[p] + PassOverSeconds}]]
    /\ UNCHANGED <<clock, timeVars, warmVars, pending, compactions, passed_over,
                   stored, exhausted, memo>>

\* The compaction is queued, and how its summary is to be written noted before;
\* the host may refuse.  Nothing is asked of a session on a fast or free model.
Renewed(s, accepted) ==
    LET resume == resumes[s]
        models == IF Own \in Fast \cup Free THEN {} ELSE Summarizers(s, resume.usable)
    IN  /\ resume.stage = "judging" /\ compactions[s].stage = "none"
        /\ Renews(s, resume.idle)
        /\ \E p \in models :
             LET noted == Set(Room(pending, s), s, [provider |-> p, at |-> clock])
             IN  pending' = IF accepted THEN noted ELSE Without(noted, s)
        /\ compactions' = [compactions EXCEPT ![s] =
                             IF accepted THEN [stage |-> "queued"] ELSE @]
        /\ resumes' = [resumes EXCEPT ![s] = NoneYet]
        /\ UNCHANGED <<clock, timeVars, warmVars, passed_over, stored, exhausted, memo>>

\* The engine says no, or nothing in time: the prompt goes on as it is.
GoesOn(s) ==
    /\ resumes[s].stage = "judging" /\ resumes' = [resumes EXCEPT ![s] = NoneYet]
    /\ UNCHANGED <<clock, timeVars, warmVars, pending, compactions, passed_over,
                   stored, exhausted, memo>>

\* A compaction of the host's own: the window is full.
Fills(s) ==
    /\ compactions[s].stage = "none" /\ memo.trials < MaxTrials
    /\ compactions' = [compactions EXCEPT ![s] = [stage |-> "queued"]]
    /\ memo' = [memo EXCEPT !.trials = @ + 1]
    /\ UNCHANGED <<clock, timeVars, warmVars, pending, resumes, passed_over, stored,
                   exhausted>>

\* The compaction hook: a summary by the model noted, unless that was long ago;
\* else, or if it fails, by the session's own.
Compacts(s) ==
    /\ compactions[s].stage = "queued" /\ pending' = Without(pending, s)
    /\ compactions' = [compactions EXCEPT ![s] =
         IF s \in DOMAIN pending /\ clock - pending[s].at <= PendingSeconds
         THEN [stage |-> "cheap", provider |-> pending[s].provider]
         ELSE [stage |-> "own"]]
    /\ UNCHANGED <<clock, timeVars, warmVars, resumes, passed_over, stored, exhausted,
                   memo>>

\* summarize and filled: a summary starts a context that is yet to be measured.
\* It fills the template or not, or its model
\* fails and is passed over.
Summarized(s, how) ==
    /\ compactions[s].stage = "cheap" /\ memo.trials < MaxTrials
    /\ compactions' = [compactions EXCEPT ![s] =
                         IF how = "filled" THEN NoneYet ELSE [stage |-> "own"]]
    /\ LET p == compactions[s].provider
       IN  IF how = "fails"
           THEN /\ passed_over' = Set(passed_over, p, clock + PassOverSeconds)
                /\ memo' = [memo EXCEPT !.failed = Set(@, p, clock), !.trials = @ + 1]
           ELSE UNCHANGED <<passed_over, memo>>
    /\ contexts' = IF how = "filled" THEN [contexts EXCEPT ![s].ended = 0] ELSE contexts
    /\ UNCHANGED <<clock, events, executions, warmVars, pending, resumes, stored,
                   exhausted>>

OwnSummary(s) ==
    /\ compactions[s].stage = "own" /\ compactions' = [compactions EXCEPT ![s] = NoneYet]
    /\ contexts' = [contexts EXCEPT ![s].ended = 0, ![s].read = clock]
    /\ UNCHANGED <<clock, events, executions, warmVars, pending, resumes, passed_over, stored,
                   exhausted, memo>>

\* storage.set
Stores ==
    /\ stored # passed_over /\ stored' = passed_over
    /\ UNCHANGED <<clock, timeVars, warmVars, pending, resumes, compactions,
                   passed_over, exhausted, memo>>

\* OpenCode is restarted, between turns.
Reinstalls ==
    /\ memo.trials < MaxTrials /\ \A s \in Sessions : ~contexts[s].running
    /\ events' = << >> /\ plans' = {} /\ warmers' = << >>
    /\ executions' = NoMap /\ warmed' = NoMap /\ loops' = NoMap /\ pending' = NoMap
    /\ resumes' = [s \in Sessions |-> NoneYet]
    /\ compactions' = [s \in Sessions |-> NoneYet]
    /\ passed_over' = stored
    /\ LET kept == {p \in DOMAIN memo.failed \cap DOMAIN stored :
                       stored[p] = passed_over[p]}
       IN  memo' = [memo EXCEPT !.unseen = Sessions, !.trials = @ + 1,
                                !.failed = [p \in kept |-> memo.failed[p]]]
    /\ UNCHANGED <<clock, contexts, stored, exhausted>>

RenewalNext ==
    \/ Tick \/ Stores \/ Reinstalls
    \/ \E s \in Sessions :
         \/ Executes(s) \/ \E limit \in BOOLEAN : Ends(s, limit)
         \/ HandlesStart(s) \/ HandlesEnd(s) \/ Resumes(s)
         \/ \E accepted \in BOOLEAN : Renewed(s, accepted)
         \/ GoesOn(s) \/ Fills(s) \/ Compacts(s) \/ OwnSummary(s)
         \/ \E how \in {"filled", "unfilled", "fails"} : Summarized(s, how)
    \/ \E plan \in plans : Schedules(plan) \/ PlanFails(plan)
    \/ \E n \in DOMAIN warmers :
         \/ Warms(n) \/ Interrupted(n) \/ \E ok \in BOOLEAN : Warmed(n, ok)

RenewalSpec == RenewalInit /\ [][RenewalNext]_renewalVars

-----------------------------------------------------------------------------
(* Properties.                                                               *)

\* A loop that sends a request was either stopped just now or warms the turn
\* that ended last, of a session at rest.
WarmsIdle(n) ==
    LET warmer == warmers[n] IN
    warmer.stage = "asleep" /\ ~memo.forgot =>
        ~contexts[warmer.of].running /\ contexts[warmer.of].turns = warmer.turn

\* A context is renewed once it is cold, as far as the plugin could see.
RenewsCold(s) == resumes[s].cold

\* A provider whose summary failed writes no other within PassOverSeconds, as
\* long as the plugin has not been restarted before it could store that.
PassesOver(s, p) == p \notin resumes[s].failing

\* Of executions, plans, loops and prompts that overtake each other: warming
\* reads no session that went on, a context is renewed only cold, and not by a
\* provider that just failed, was excluded, or is on a limit.
RenewalKept ==
    [][/\ \A n \in DOMAIN warmers :
            n \in DOMAIN warmers' /\ warmers'[n].left < warmers[n].left => WarmsIdle(n)
       /\ \A s \in Sessions :
            s \in DOMAIN pending' /\ (s \in DOMAIN pending => pending'[s] # pending[s]) =>
              /\ RenewsCold(s) /\ PassesOver(s, pending'[s].provider)
              /\ pending'[s].provider \notin Banned
              /\ <<s, pending'[s].provider>> \notin exhausted]_renewalVars
=============================================================================
