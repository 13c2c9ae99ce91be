------------------------------ MODULE Failover ------------------------------
(***************************************************************************)
(* One session of the host whose model fails, and the model router: the    *)
(* adapter's model-router.ts, and the model switch in exposure.ts, around  *)
(* module ModelRouter.                                                     *)
(*                                                                         *)
(* The adapter reports a failed request to the daemon and applies the      *)
(* answer.  It awaits the daemon and the host in between, so executions    *)
(* end and start, the user selects another model and other reports are     *)
(* answered meanwhile.  A report, a success or a prompt may be lost: the   *)
(* daemon is down, the signal's deadline passes, or the answer is late.    *)
(* The host is modelled from how the adapter uses it; its events reach the *)
(* adapter at once.                                                        *)
(***************************************************************************)
EXTENDS ModelRouter

CONSTANTS
    Default,        \* the model of a session without a selection
    Listings,       \* sets of usable models the host may list
    Selectable,     \* models the user selects
    Faults,         \* classes of errors that happen
    MaxExecutions,  \* bound: executions of the session
    MaxChoices,     \* bound: models the user selects
    MaxPrompts,     \* bound: prompts the user sends
    MaxSteps        \* bound: steps the session completes

ASSUME SessionAssumption ==
    /\ Default \in Models /\ Listings \subseteq SUBSET Models
    /\ Selectable \subseteq Models
    /\ Faults \subseteq Errors
    /\ MaxExecutions \in Nat /\ MaxChoices \in Nat /\ MaxPrompts \in Nat
    /\ MaxSteps \in Nat

VARIABLES
    selected,    \* the session's model; NoModel runs on the default
    step,        \* what the running execution does: see Steps
    execution,   \* executions started: the generation
    requested,   \* Sessions.requested
    tool_ran,    \* Sessions.toolRan
    switched,    \* Sessions.switched
    reports,     \* failures being reported: route, followUp
    successes,   \* models of model_succeeded signals on their way
    prompt,      \* the prompt hook: the user_message on its way
    prompts, choices, steps,
    astray       \* history: the session may be elsewhere than the router's origin says

hostVars == <<selected, step, execution, requested, tool_ran, switched>>
userVars == <<prompt, prompts, choices>>
stepVars == <<successes, steps>>
vars == <<routerVars, hostVars, reports, stepVars, userVars, astray>>

\* idle: no execution; ready: between two requests; failed: the retry hook
\* has a failed request.
Steps == {"idle", "ready", "requesting", "failed"}

\* sent: the models are listed and the signal is sent; checked: the session's
\* model was read and is still the one that failed.
Stages == {"sent", "answered", "checked"}

Report == [by : {"retry", "end"}, execution : 1..MaxExecutions,
           model : Models, error : Faults,
           tool_executed : BOOLEAN, stage : Stages,
           next : Models \cup {NoModel}, raced : BOOLEAN]

NoPrompt == [stage |-> "none", expected |-> NoModel, next |-> NoModel,
             raced |-> FALSE]
Prompt == {NoPrompt} \cup [stage : Stages,
                           expected : Models \cup {NoModel},
                           next : Models \cup {NoModel}, raced : BOOLEAN]

TypeOK ==
    /\ RouterTypeOK
    /\ selected \in Models \cup {NoModel} /\ step \in Steps
    /\ execution \in 0..MaxExecutions
    /\ requested \in Models \cup {NoModel} /\ tool_ran \in BOOLEAN
    /\ switched \in Models \cup {NoModel}
    /\ reports \subseteq Report /\ successes \subseteq Models
    /\ prompt \in Prompt /\ prompts \in 0..MaxPrompts
    /\ choices \in 0..MaxChoices /\ steps \in 0..MaxSteps
    /\ astray \in BOOLEAN

Init ==
    /\ RouterInit
    /\ selected = NoModel /\ step = "idle" /\ execution = 0
    /\ requested = NoModel /\ tool_ran = FALSE /\ switched = NoModel
    /\ reports = {} /\ successes = {} /\ prompt = NoPrompt
    /\ prompts = 0 /\ choices = 0 /\ steps = 0 /\ astray = FALSE

running == step # "idle"
RunsOn == IF selected = NoModel THEN Default ELSE selected

\* Sessions.current: the execution that was running then still runs.
Valid(r) == running /\ r.execution = execution

\* Faulty variant: what the session runs on is not looked at.
MovedOnNever(m) == FALSE

\* The session's model is no longer the one the report or prompt is about.
MovedOn(m) == selected \notin {NoModel, m}

-----------------------------------------------------------------------------
(* The host: executions, their requests, and the user's selection.          *)

Start ==
    /\ step = "idle" /\ execution < MaxExecutions
    /\ step' = "ready" /\ execution' = execution + 1 /\ tool_ran' = FALSE
    /\ UNCHANGED <<routerVars, selected, requested, switched, reports,
                   stepVars, userVars, astray>>

Request ==
    /\ step = "ready"
    /\ step' = "requesting" /\ requested' = RunsOn /\ tool_ran' = FALSE
    /\ UNCHANGED <<routerVars, selected, execution, switched, reports,
                   stepVars, userVars, astray>>

ToolRuns ==
    /\ step = "requesting" /\ ~tool_ran
    /\ tool_ran' = TRUE
    /\ UNCHANGED <<routerVars, selected, step, execution, requested, switched,
                   reports, stepVars, userVars, astray>>

\* session.step.ended.
StepEnds ==
    /\ step = "requesting" /\ steps < MaxSteps
    /\ step' = "ready" /\ switched' = NoModel
    /\ successes' = successes \cup {requested} /\ steps' = steps + 1
    /\ UNCHANGED <<routerVars, selected, execution, requested, tool_ran,
                   reports, userVars, astray>>

\* Faulty variant: no report says that a tool ran.
NewReportUnaware(by, m, error, ran) ==
    [by |-> by, execution |-> execution, model |-> m,
     error |-> error, tool_executed |-> FALSE, stage |-> "sent",
     next |-> NoModel, raced |-> FALSE]

NewReport(by, m, error, ran) ==
    [by |-> by, execution |-> execution, model |-> m,
     error |-> error, tool_executed |-> ran, stage |-> "sent",
     next |-> NoModel, raced |-> FALSE]

\* The retry hook: it reports this failure itself.
RetryHook(error) ==
    /\ step = "requesting"
    /\ step' = "failed" /\ switched' = NoModel
    /\ reports' = reports \cup {NewReport("retry", requested, error, tool_ran)}
    /\ UNCHANGED <<routerVars, selected, execution, requested, tool_ran,
                   stepVars, userVars, astray>>

Hooked == step = "failed" /\ \E r \in reports : r.by = "retry" /\ Valid(r)

\* Without a switch, the host retries or gives up as it decides.
HostRetries ==
    /\ step = "failed" /\ ~Hooked
    /\ step' = "ready"
    /\ UNCHANGED <<routerVars, selected, execution, requested, tool_ran,
                   switched, reports, stepVars, userVars, astray>>

\* Sessions.end.
End == step' = "idle" /\ requested' = NoModel /\ switched' = NoModel

\* session.execution.failed: a request failed past the retry hook, or the host
\* gave up.  With a model the router switched to, it is reported.
Fails(error) ==
    /\ step = "requesting" \/ (step = "failed" /\ ~Hooked)
    /\ End
    /\ IF switched = NoModel
       THEN UNCHANGED reports
       ELSE reports' = reports \cup {NewReport("end", switched, error, FALSE)}
    /\ UNCHANGED <<routerVars, selected, execution, tool_ran, stepVars,
                   userVars, astray>>

\* session.execution.interrupted or succeeded.
Ends ==
    /\ running
    /\ End
    /\ UNCHANGED <<routerVars, selected, execution, tool_ran, reports,
                   stepVars, userVars, astray>>

\* The session's model changes between another's look at it and its switch.
Race(r) == [r EXCEPT !.raced = @ \/ r.stage = "checked"]
Raced(S) == {Race(r) : r \in S}

\* The user selects another model, whatever runs.
Choose(m) ==
    /\ choices < MaxChoices /\ m # selected
    /\ selected' = m /\ choices' = choices + 1
    /\ reports' = Raced(reports) /\ prompt' = Race(prompt)
    /\ astray' = TRUE
    /\ UNCHANGED <<routerVars, step, execution, requested, tool_ran, switched,
                   stepVars, prompts>>

-----------------------------------------------------------------------------
(* A report: route and failover, or followUp.                               *)

Become(r, new) == reports' = (reports \ {r}) \cup new

\* Whether the report is still wanted: a retry's execution must still run.
Wanted(r) == r.by = "end" \/ Valid(r)

Pending == {r \in reports : r.stage # "sent"}

\* Without an origin the router believes nothing of the session; with two
\* answers on their way it cannot know which is applied last.
Believes == astray' = (origin' # NoOrigin /\ (astray \/ Pending # {}))

\* The daemon answers.
Answer(r) ==
    /\ r.stage = "sent"
    /\ \E usable \in Listings, answer \in Models \cup {NoModel, Ignored} :
         /\ ModelError(r.model, r.error, r.tool_executed, usable, answer)
         /\ Become(r, IF answer \in Models
                      THEN {[r EXCEPT !.stage = "answered", !.next = answer]}
                      ELSE {})
    /\ Believes
    /\ UNCHANGED <<hostVars, stepVars, userVars>>

\* The signal fails or times out, before the daemon judged it or after; or
\* the host does not answer.
Lose(r) ==
    /\ Become(r, {})
    /\ astray' = (astray \/ r.stage \in {"answered", "checked"})
    /\ UNCHANGED <<routerVars, hostVars, stepVars, userVars>>

\* host.session.get, and the tests on what it returned.
Check(r) ==
    /\ r.stage = "answered"
    /\ IF Wanted(r) /\ ~MovedOn(r.model)
       THEN /\ Become(r, {[r EXCEPT !.stage = "checked"]})
            /\ UNCHANGED astray
       ELSE /\ Become(r, {}) /\ astray' = TRUE
    /\ UNCHANGED <<routerVars, hostVars, stepVars, userVars>>

\* host.session.switchModel; a retry still wanted is made at once.  A
\* follow-up wakes the agent, as any execution starts.
Apply(r) ==
    /\ r.stage = "checked"
    /\ reports' = Raced(reports \ {r}) /\ prompt' = Race(prompt)
    /\ astray' = (astray \/ r.raced)
    /\ selected' = r.next /\ switched' = r.next
    /\ step' = IF r.by = "retry" /\ Valid(r) THEN "ready" ELSE step
    /\ UNCHANGED <<routerVars, execution, requested, tool_ran, stepVars,
                   prompts, choices>>

-----------------------------------------------------------------------------
(* Successes and prompts.                                                   *)

\* model_succeeded reaches the daemon, or is dropped.
Succeeded(m) ==
    /\ m \in successes /\ successes' = successes \ {m}
    /\ ModelSucceeded(m) \/ UNCHANGED routerVars
    /\ UNCHANGED <<hostVars, reports, steps, userVars, astray>>

\* The prompt hook reads the session's model and sends user_message.
SendPrompt ==
    /\ prompt = NoPrompt /\ prompts < MaxPrompts
    /\ prompts' = prompts + 1
    /\ prompt' = [NoPrompt EXCEPT !.stage = "sent", !.expected = selected]
    /\ UNCHANGED <<routerVars, hostVars, reports, stepVars, choices, astray>>

AnswerPrompt ==
    /\ prompt.stage = "sent"
    /\ \E answer \in Models \cup {Ignored} :
         /\ UserMessage(prompt.expected, answer)
         /\ IF answer \in Models
            THEN prompt' = [prompt EXCEPT !.stage = "answered", !.next = answer]
            ELSE prompt' = NoPrompt
    /\ Believes
    /\ UNCHANGED <<hostVars, reports, stepVars, prompts, choices>>

LosePrompt ==
    /\ prompt # NoPrompt /\ prompt' = NoPrompt
    /\ UNCHANGED <<routerVars, hostVars, reports, stepVars, prompts, choices,
                   astray>>

\* exposure.ts switchModel: the session's model is read, then changed.
CheckPrompt ==
    /\ prompt.stage = "answered"
    /\ prompt' = IF selected # NoModel /\ selected = prompt.expected
                 THEN [prompt EXCEPT !.stage = "checked"] ELSE NoPrompt
    /\ UNCHANGED <<routerVars, hostVars, reports, stepVars, prompts, choices,
                   astray>>

ApplyPrompt ==
    /\ prompt.stage = "checked"
    /\ selected' = prompt.next /\ prompt' = NoPrompt
    /\ reports' = Raced(reports)
    /\ astray' = (origin # NoOrigin)
    /\ UNCHANGED <<routerVars, step, execution, requested, tool_ran, switched,
                   stepVars, prompts, choices>>

\* Time passes, or the config changes, in the daemon.
Daemon ==
    /\ Elapse \/ Reconfigure
    /\ UNCHANGED <<hostVars, reports, stepVars, userVars, astray>>

Next ==
    \/ Start \/ Request \/ ToolRuns \/ StepEnds \/ HostRetries \/ Ends
    \/ \E error \in Faults : RetryHook(error) \/ Fails(error)
    \/ \E m \in Selectable : Choose(m)
    \/ \E m \in Models : Succeeded(m)
    \/ \E r \in reports :
         Answer(r) \/ Lose(r) \/ Check(r) \/ Apply(r)
    \/ SendPrompt \/ AnswerPrompt \/ LosePrompt \/ CheckPrompt \/ ApplyPrompt
    \/ Daemon

Spec == Init /\ [][Next]_vars

-----------------------------------------------------------------------------
(* What must hold.                                                          *)

\* The router knows where the session is: while it remembers an origin, the
\* session runs on the model it moved it to, unless the user chose another
\* model, an answer was lost or dropped, or two answers overtook each other.
\* A router that is wrong here judges an error of a model the session left as
\* the current one's, or never moves the agent back (lib.rs record_switch and
\* failover, model-router.ts failover and followUp).
RouterFollows ==
    origin # NoOrigin /\ ~astray /\ Pending = {} => selected = origin.current

\* No answer overwrites a newer choice: a report's switch finds the session on
\* the model that failed, a return on the model it was asked about, unless
\* the model changed after the last look (the tests on session.get).
NoStaleSwitch ==
    [][/\ \A r \in reports : Apply(r) =>
            selected \in {NoModel, r.model} \/ r.raced
       /\ ApplyPrompt => selected = prompt.expected \/ prompt.raced]_vars

\* A retry repeats no tool: one the router asks for restarts a request that
\* failed, of the same execution, in which no tool ran (Sessions.toolRan and
\* generations, lib.rs failover).
RetriesSafely ==
    [][\A r \in reports : Apply(r) /\ step' # step =>
          step = "failed" /\ r.execution = execution /\ ~tool_ran]_vars

\* While the user chooses nothing and no step completes, an agent is moved
\* from model to model only so often, however long its models keep failing
\* and its answers are lost (the sets attempted and exhausted, and all that
\* empties them).
SwitchesEnd == <>[][\A r \in reports : ~Apply(r)]_vars

\* What the router answers with, in this step.
Answered ==
    {r.next : r \in {q \in reports' \ reports : q.stage = "answered"}}
      \cup (IF prompt.stage = "sent" /\ prompt'.stage = "answered"
            THEN {prompt'.next} ELSE {})

\* A model the config excludes is never moved to, not even as the origin of
\* an earlier switch (ARCHITECTURE.md, Model router; lib.rs untried and
\* switch_back).
BlacklistHonoured == [][Answered \cap blacklist = {}]_vars

\* No model is offered on a provider whose limit the agent hit, until a model
\* serves the agent again (ARCHITECTURE.md, The router, 2).
LimitsHonoured ==
    [][\A m \in Answered : prompt = prompt' =>
          Catalog[m].provider \notin exhausted]_vars
=============================================================================
