---------------------------- MODULE FailoverProofs ----------------------------
(* Proofs about ModelRouter and Failover, for any models, catalog, blacklists *)
(* and bounds.                                                                *)
EXTENDS Failover, TLAPS

-----------------------------------------------------------------------------
(* What the router answers.                                                 *)

\* The models offered are usable, not excluded, and not those tried.
LEMMA CandidatesOffered ==
    ASSUME NEW m, NEW usable, NEW tried, NEW out,
           NEW n \in Candidates(m, usable, tried, out)
    PROVE  n \in usable \ (tried \cup blacklist)
<1> DEFINE untried == Untried(m, usable, tried, out)
<1>1. untried \subseteq usable \ (tried \cup blacklist)
  BY DEF Untried
<1>2. \A S, place : Shortlist(S, place) \subseteq S
  BY DEF Shortlist
<1>3. \A tier : Ranked(m, untried, tier) \subseteq untried
  BY <1>2 DEF Ranked
<1>4. LastResort(untried) \subseteq untried
  BY <1>2 DEF LastResort
<1>5. \/ n \in Ranked(m, untried, Catalog[m].known)
      \/ n \in Ranked(m, untried, NoTier)
      \/ n \in LastResort(untried)
  BY DEF Candidates
<1>6. QED
  BY <1>1, <1>3, <1>4, <1>5

\* An origin is never NoOrigin: no model is NoModel.
LEMMA OriginIsSome ==
    ASSUME NEW m \in Models, NEW n \in Models
    PROVE  [model |-> m, current |-> n] # NoOrigin
<1>1. NoModel \notin Models
  BY CatalogAssumption
<1>2. [model |-> m, current |-> n].model = m /\ NoOrigin.model = NoModel
  BY DEF NoOrigin
<1>3. QED
  BY <1>1, <1>2

\* A switch answered with a model makes it the origin's current model; any
\* other answer keeps the origin or forgets it.
Answers(answer) ==
    /\ RouterTypeOK'
    /\ answer \in Models =>
         /\ origin' # NoOrigin /\ origin'.current = answer
         /\ answer \notin blacklist
    /\ answer \notin Models => origin' \in {origin, NoOrigin}

LEMMA PickAnswers ==
    ASSUME RouterTypeOK, NEW m \in Models, NEW error,
           NEW from \in {origin, NoOrigin}, NEW tried \in SUBSET Models,
           NEW out \in SUBSET Providers, NEW usable \in SUBSET Models,
           NEW answer, UNCHANGED blacklist,
           Pick(m, error, from, tried, out, usable, answer)
    PROVE  Answers(answer)
<1> DEFINE offered == Candidates(m, usable, tried, out)
<1>1. NoModel \notin Models /\ Ignored \notin Models
  BY CatalogAssumption
<1>2. exhausted' \subseteq Providers /\ blacklist' \in Blacklists
  BY DEF Pick, RouterTypeOK
<1>3. CASE Stay(NoModel, from, answer) /\ attempted' = tried
           /\ waited' \in {waited, m}
  <2>1. answer = NoModel /\ origin' = from
    BY <1>3 DEF Stay
  <2>2. elapsed' = (elapsed /\ from # NoOrigin)
    BY <1>3 DEF Stay
  <2>3. elapsed' \in BOOLEAN
    BY <2>2
  <2>4. origin' \in Origins
    BY <2>1 DEF RouterTypeOK, Origins
  <2>5. RouterTypeOK'
    BY <1>2, <1>3, <2>3, <2>4 DEF RouterTypeOK
  <2>6. QED
    BY <1>1, <2>1, <2>5 DEF Answers
<1>4. ASSUME NEW to \in offered, Switch(m, to, from, answer),
             attempted' = tried \cup {to}
      PROVE  Answers(answer)
  <2>1. to \in usable \ blacklist
    <3> HIDE DEF offered
    <3>1. to \in usable \ (tried \cup blacklist)
      BY <1>4, CandidatesOffered DEF offered
    <3>2. QED
      BY <3>1
  <2>2. answer = to /\ to \in Models
    BY <1>4, <2>1 DEF Switch
  <2>3. PICK left \in Models : origin' = [model |-> left, current |-> to]
    <3>1. CASE from = NoOrigin
      BY <1>4, <3>1 DEF Switch
    <3>2. CASE from # NoOrigin
      <4>1. from.model \in Models
        BY <3>2 DEF RouterTypeOK, Origins
      <4>2. QED
        BY <1>4, <3>2, <4>1 DEF Switch
    <3>3. QED
      BY <3>1, <3>2
  <2>4. origin' # NoOrigin /\ origin'.current = to /\ origin' \in Origins
    BY <2>2, <2>3, OriginIsSome DEF Origins
  <2>5. elapsed' = (elapsed /\ from # NoOrigin)
    BY <1>4 DEF Switch
  <2>6. elapsed' \in BOOLEAN
    BY <2>5
  <2>7. attempted' \subseteq Models /\ waited' \in Models \cup {NoModel}
    BY <1>4, <2>2 DEF Switch
  <2>8. RouterTypeOK'
    BY <1>2, <2>4, <2>6, <2>7 DEF RouterTypeOK
  <2>9. QED
    BY <2>1, <2>2, <2>4, <2>8 DEF Answers
<1>5. \/ Stay(NoModel, from, answer) /\ attempted' = tried
           /\ waited' \in {waited, m}
      \/ \E to \in offered :
           Switch(m, to, from, answer) /\ attempted' = tried \cup {to}
  BY DEF Pick
<1>6. QED
  BY <1>3, <1>4, <1>5

LEMMA ErrorAnswers ==
    ASSUME RouterTypeOK, NEW m \in Models, NEW error, NEW ran,
           NEW usable \in SUBSET Models, NEW answer,
           ModelError(m, error, ran, usable, answer)
    PROVE  Answers(answer) /\ (ran = TRUE => answer \notin Models)
<1> DEFINE from == IF Unreached(m) THEN NoOrigin ELSE origin
           tried == IF Unreached(m) THEN {} ELSE attempted
           out == IF Unreached(m) THEN {} ELSE exhausted
           hit == IF "limit" \in error THEN {Catalog[m].provider} ELSE {}
<1>1. NoModel \notin Models /\ Ignored \notin Models
  BY CatalogAssumption
<1>2. /\ from \in {origin, NoOrigin} /\ tried \subseteq Models
      /\ out \subseteq Providers /\ hit \subseteq Providers
  BY DEF RouterTypeOK, Providers
<1>3. UNCHANGED blacklist
  BY DEF ModelError
<1>4. CASE \E kept \in {NoModel, Ignored} :
             /\ Stay(kept, from, answer)
             /\ attempted' = tried /\ exhausted' = out /\ waited' = waited
  <2>1. PICK kept \in {NoModel, Ignored} :
             /\ Stay(kept, from, answer)
             /\ attempted' = tried /\ exhausted' = out /\ waited' = waited
    BY <1>4
  <2> HIDE DEF from, tried, out
  <2>2. answer = kept /\ origin' = from
        /\ elapsed' = (elapsed /\ from # NoOrigin)
    BY <2>1 DEF Stay
  <2>3. elapsed' \in BOOLEAN
    BY <2>2
  <2>4. origin' \in Origins
    BY <1>2, <2>2 DEF RouterTypeOK, Origins
  <2>5. RouterTypeOK'
    BY <1>2, <1>3, <2>1, <2>3, <2>4 DEF RouterTypeOK
  <2>6. QED
    BY <1>1, <1>2, <2>2, <2>5 DEF Answers
<1>5. CASE /\ ran # TRUE
           /\ Pick(m, error, from, tried \cup {m}, out \cup hit, usable,
                   answer)
  <2> HIDE DEF from, tried, out, hit
  <2>1. tried \cup {m} \in SUBSET Models /\ out \cup hit \in SUBSET Providers
    BY <1>2
  <2>2. QED
    BY <1>2, <1>3, <1>5, <2>1, PickAnswers
<1>6. \/ \E kept \in {NoModel, Ignored} :
           /\ Stay(kept, from, answer)
           /\ attempted' = tried /\ exhausted' = out /\ waited' = waited
      \/ /\ ran # TRUE
         /\ Pick(m, error, from, tried \cup {m}, out \cup hit, usable, answer)
  BY DEF ModelError
<1>7. QED
  BY <1>4, <1>5, <1>6

\* A prompt is answered with the origin, which is forgotten, or with nothing.
LEMMA PromptAnswers ==
    ASSUME RouterTypeOK, NEW current, NEW answer,
           UserMessage(current, answer)
    PROVE  /\ RouterTypeOK' /\ origin' \in {origin, NoOrigin}
           /\ answer \in Models => answer \notin blacklist
<1>1. Ignored \notin Models
  BY CatalogAssumption
<1>2. CASE DropOrigin(current, answer)
  BY <1>1, <1>2 DEF DropOrigin, RouterTypeOK, Origins
<1>3. CASE ReturnToOrigin(current, answer)
  BY <1>3 DEF ReturnToOrigin, RouterTypeOK, Origins
<1>4. CASE KeepGoing(current, answer)
  BY <1>1, <1>4 DEF KeepGoing, RouterTypeOK, routerVars
<1>5. QED
  BY <1>2, <1>3, <1>4 DEF UserMessage

\* Successes, time and configurations keep the router's types and its origin.
LEMMA RouterKeeps ==
    ASSUME RouterTypeOK,
           (\E m \in Models : ModelSucceeded(m)) \/ Elapse \/ Reconfigure
             \/ UNCHANGED routerVars
    PROVE  RouterTypeOK' /\ origin' = origin
<1>1. ASSUME NEW m \in Models, ModelSucceeded(m)
      PROVE  RouterTypeOK' /\ origin' = origin
  BY <1>1 DEF ModelSucceeded, RouterTypeOK
<1>2. CASE Elapse
  BY <1>2 DEF Elapse, RouterTypeOK
<1>3. CASE Reconfigure
  BY <1>3 DEF Reconfigure, RouterTypeOK
<1>4. CASE UNCHANGED routerVars
  BY <1>4 DEF RouterTypeOK, routerVars
<1>5. QED
  BY <1>1, <1>2, <1>3, <1>4

-----------------------------------------------------------------------------
(* Type correctness.  A request runs on a model, in an execution.           *)

RunInv ==
    /\ running => execution \in 1..MaxExecutions
    /\ step = "requesting" => requested \in Models

TypeInv == TypeOK /\ RunInv

LEMMA TypeInit == Init => TypeInv
<1>1. SUFFICES ASSUME Init PROVE TypeInv
  OBVIOUS
<1>2. RouterTypeOK
  BY <1>1 DEF Init, RouterInit, RouterTypeOK, Origins
<1>3. prompt \in Prompt
  BY <1>1 DEF Init, Prompt
<1>4. 0 \in 0..MaxExecutions /\ 0 \in 0..MaxPrompts
      /\ 0 \in 0..MaxChoices /\ 0 \in 0..MaxSteps
  BY SessionAssumption
<1>5. reports \subseteq Report /\ successes \subseteq Models
  BY <1>1 DEF Init
<1>6. QED
  BY <1>1, <1>2, <1>3, <1>4, <1>5
     DEF Init, TypeInv, TypeOK, RunInv, Steps, running

\* The host's own steps.
LEMMA HostType ==
    ASSUME TypeInv,
           Start \/ Request \/ ToolRuns \/ StepEnds \/ HostRetries \/ Ends
    PROVE  TypeInv'
<1> USE SessionAssumption
    DEF TypeInv, TypeOK, RunInv, Steps, running, hostVars, userVars, stepVars
<1>1. RouterTypeOK' /\ UNCHANGED <<choices, prompt, prompts, astray, reports>>
  BY RouterKeeps
     DEF Start, Request, ToolRuns, StepEnds, HostRetries, Ends, routerVars
<1>2. CASE Start
  <2>1. execution' \in 1..MaxExecutions /\ step' = "ready" /\ ~tool_ran'
    BY <1>2 DEF Start
  <2>2. UNCHANGED <<selected, requested, switched, successes, steps>>
    BY <1>2 DEF Start
  <2>3. tool_ran' \in BOOLEAN
    BY <1>2 DEF Start
  <2>4. QED
    BY <1>1, <2>1, <2>2, <2>3
<1>3. CASE Request
  BY <1>1, <1>3 DEF Request, RunsOn
<1>4. CASE ToolRuns
  BY <1>1, <1>4 DEF ToolRuns
<1>5. CASE StepEnds
  BY <1>1, <1>5 DEF StepEnds
<1>6. CASE HostRetries
  BY <1>1, <1>6 DEF HostRetries
<1>7. CASE Ends
  BY <1>1, <1>7 DEF Ends, End
<1>8. QED
  BY <1>2, <1>3, <1>4, <1>5, <1>6, <1>7

\* Reports stay reports when the session's model changes.
LEMMA RacedType ==
    ASSUME NEW S, S \subseteq Report
    PROVE  Raced(S) \subseteq Report
BY DEF Raced, Race, Report, Stages

LEMMA RacedPromptType ==
    ASSUME NEW p \in Prompt
    PROVE  Race(p) \in Prompt
<1>1. CASE p = NoPrompt
  <2>1. p.stage = "none" /\ p.raced = FALSE
    BY <1>1 DEF NoPrompt
  <2>2. Race(p) = [p EXCEPT !.raced = FALSE]
    BY <2>1 DEF Race
  <2>3. Race(p) = NoPrompt
    BY <1>1, <2>2 DEF NoPrompt
  <2>4. QED
    BY <2>3 DEF Prompt
<1>2. CASE p # NoPrompt
  BY <1>2 DEF Prompt, Race, Stages
<1>3. QED
  BY <1>1, <1>2

\* A failed request becomes a report.
LEMMA FailType ==
    ASSUME TypeInv, NEW error \in Faults, RetryHook(error) \/ Fails(error)
    PROVE  TypeInv'
<1> USE SessionAssumption
    DEF TypeInv, TypeOK, RunInv, Steps, running, hostVars, userVars, stepVars
<1>1. RouterTypeOK' /\ UNCHANGED <<choices, prompt, prompts, astray>>
  BY RouterKeeps DEF RetryHook, Fails, routerVars
<1>2. \A by \in {"retry", "end"}, m \in Models, ran \in BOOLEAN :
         execution \in 1..MaxExecutions =>
           NewReport(by, m, error, ran) \in Report
  BY DEF NewReport, Report, Stages
<1>3. CASE RetryHook(error)
  <2>1. reports' \subseteq Report
    BY <1>2, <1>3 DEF RetryHook
  <2>2. QED
    BY <1>1, <1>3, <2>1 DEF RetryHook
<1>4. CASE Fails(error)
  <2>1. execution \in 1..MaxExecutions
    BY <1>4 DEF Fails
  <2>2. reports' \subseteq Report
    <3>1. CASE switched = NoModel
      BY <1>4, <3>1 DEF Fails
    <3>2. CASE switched # NoModel
      <4>1. switched \in Models
        BY <3>2
      <4>2. NewReport("end", switched, error, FALSE) \in Report
        BY <1>2, <2>1, <4>1
      <4>3. QED
        BY <1>4, <3>2, <4>2 DEF Fails
    <3>3. QED
      BY <3>1, <3>2
  <2>3. QED
    BY <1>1, <1>4, <2>2 DEF Fails, End
<1>5. QED
  BY <1>3, <1>4

\* The steps of a report.
LEMMA ReportType ==
    ASSUME TypeInv, NEW r \in reports,
           Answer(r) \/ Lose(r) \/ Check(r) \/ Apply(r)
    PROVE  TypeInv'
<1> USE SessionAssumption
    DEF TypeInv, TypeOK, RunInv, Steps, running, hostVars, userVars, stepVars
<1>1. r \in Report /\ r.model \in Models /\ r.error \in Faults
  BY DEF Report
<1>2. CASE Answer(r)
  <2>1. PICK usable \in Listings, answer \in Models \cup {NoModel, Ignored} :
           /\ ModelError(r.model, r.error, r.tool_executed, usable, answer)
           /\ Become(r, IF answer \in Models
                        THEN {[r EXCEPT !.stage = "answered", !.next = answer]}
                        ELSE {})
    BY <1>2 DEF Answer
  <2>2. RouterTypeOK'
    <3>1. usable \in SUBSET Models
      OBVIOUS
    <3>2. QED
      BY <1>1, <2>1, <3>1, ErrorAnswers DEF Answers
  <2>3. reports' \subseteq Report
    <3>1. answer \in Models =>
             [r EXCEPT !.stage = "answered", !.next = answer] \in Report
      BY <1>1 DEF Report, Stages
    <3>2. QED
      BY <2>1, <3>1 DEF Become
  <2>4. astray' \in BOOLEAN
    BY <1>2 DEF Answer, Believes
  <2>5. QED
    BY <1>2, <2>2, <2>3, <2>4 DEF Answer
<1>3. CASE Lose(r) \/ Check(r)
  <2>1. RouterTypeOK'
    BY <1>3, RouterKeeps DEF Lose, Check
  <2>2. [r EXCEPT !.stage = "checked"] \in Report
    BY <1>1 DEF Report, Stages
  <2>3. reports' \subseteq Report
    BY <1>3, <2>2 DEF Lose, Check, Become
  <2>4. astray' \in BOOLEAN
    BY <1>3 DEF Lose, Check
  <2>5. QED
    BY <1>3, <2>1, <2>3, <2>4 DEF Lose, Check
<1>4. CASE Apply(r)
  <2>1. RouterTypeOK'
    BY <1>4, RouterKeeps DEF Apply
  <2>2. reports' \subseteq Report /\ prompt' \in Prompt
    BY <1>4, RacedType, RacedPromptType DEF Apply
  <2>3. astray' \in BOOLEAN
    BY <1>4 DEF Apply
  <2>4. r.next \in Models \cup {NoModel}
    BY <1>1 DEF Report
  <2>5. step' \in Steps /\ (step' = "requesting" => step = "requesting")
        /\ (step' # "idle" => step # "idle")
    BY <1>4 DEF Apply, Valid
  <2>6. QED
    BY <1>4, <2>1, <2>2, <2>3, <2>4, <2>5 DEF Apply
<1>5. QED
  BY <1>2, <1>3, <1>4

\* The user, prompts, successes, time.
LEMMA UserType ==
    ASSUME TypeInv,
           \/ \E m \in Selectable : Choose(m)
           \/ \E m \in Models : Succeeded(m)
           \/ SendPrompt \/ AnswerPrompt \/ LosePrompt \/ CheckPrompt
           \/ ApplyPrompt \/ Daemon
    PROVE  TypeInv'
<1> USE SessionAssumption
    DEF TypeInv, TypeOK, RunInv, Steps, running, hostVars, userVars, stepVars
<1>1. NoPrompt \in Prompt
  BY DEF Prompt
<1>2. ASSUME NEW m \in Selectable, Choose(m) PROVE TypeInv'
  <2>1. RouterTypeOK'
    BY <1>2, RouterKeeps DEF Choose
  <2>2. reports' \subseteq Report /\ prompt' \in Prompt
    BY <1>2, RacedType, RacedPromptType DEF Choose
  <2>3. choices' \in 0..MaxChoices
    BY <1>2 DEF Choose
  <2>4. QED
    BY <1>2, <2>1, <2>2, <2>3 DEF Choose
<1>3. ASSUME NEW m \in Models, Succeeded(m) PROVE TypeInv'
  <2>1. RouterTypeOK'
    BY <1>3, RouterKeeps DEF Succeeded
  <2>2. QED
    BY <1>3, <2>1 DEF Succeeded
<1>4. CASE SendPrompt \/ LosePrompt \/ CheckPrompt
  <2>1. RouterTypeOK'
    BY <1>4, RouterKeeps DEF SendPrompt, LosePrompt, CheckPrompt
  <2>2. prompt' \in Prompt
    <3>1. CASE SendPrompt
      <4>1. prompt' = [stage |-> "sent", expected |-> selected,
                       next |-> NoModel, raced |-> FALSE]
        BY <3>1 DEF SendPrompt, NoPrompt
      <4>2. QED
        BY <4>1 DEF Prompt, Stages
    <3>2. CASE LosePrompt
      BY <1>1, <3>2 DEF LosePrompt
    <3>3. CASE CheckPrompt
      <4>1. prompt # NoPrompt
        BY <3>3 DEF CheckPrompt, NoPrompt
      <4>2. [prompt EXCEPT !.stage = "checked"] \in Prompt
        BY <4>1 DEF Prompt, Stages
      <4>3. QED
        BY <1>1, <3>3, <4>2 DEF CheckPrompt
    <3>4. QED
      BY <1>4, <3>1, <3>2, <3>3
  <2>3. prompts' \in 0..MaxPrompts
    BY <1>4 DEF SendPrompt, LosePrompt, CheckPrompt
  <2>4. QED
    BY <1>4, <2>1, <2>2, <2>3 DEF SendPrompt, LosePrompt, CheckPrompt
<1>5. CASE AnswerPrompt
  <2>1. PICK answer \in Models \cup {Ignored} :
           /\ UserMessage(prompt.expected, answer)
           /\ prompt' = IF answer \in Models
                        THEN [prompt EXCEPT !.stage = "answered",
                                            !.next = answer]
                        ELSE NoPrompt
    BY <1>5 DEF AnswerPrompt
  <2>2. RouterTypeOK'
    BY <2>1, PromptAnswers
  <2>3. prompt' \in Prompt
    <3>1. prompt # NoPrompt
      <4>1. prompt.stage = "sent"
        BY <1>5 DEF AnswerPrompt
      <4>2. NoPrompt.stage = "none"
        BY DEF NoPrompt
      <4>3. QED
        BY <4>1, <4>2
    <3>2. answer \in Models =>
            [prompt EXCEPT !.stage = "answered", !.next = answer] \in Prompt
      BY <3>1 DEF Prompt, Stages
    <3>3. QED
      BY <1>1, <2>1, <3>2
  <2>4. astray' \in BOOLEAN
    BY <1>5 DEF AnswerPrompt, Believes
  <2>5. QED
    BY <1>5, <2>2, <2>3, <2>4 DEF AnswerPrompt
<1>6. CASE ApplyPrompt
  <2>1. RouterTypeOK'
    BY <1>6, RouterKeeps DEF ApplyPrompt
  <2>2. reports' \subseteq Report
    BY <1>6, RacedType DEF ApplyPrompt
  <2>3. astray' \in BOOLEAN
    BY <1>6 DEF ApplyPrompt
  <2>4. prompt.next \in Models \cup {NoModel}
    BY DEF Prompt, NoPrompt
  <2>5. QED
    BY <1>1, <1>6, <2>1, <2>2, <2>3, <2>4 DEF ApplyPrompt
<1>7. CASE Daemon
  <2>1. RouterTypeOK'
    BY <1>7, RouterKeeps DEF Daemon
  <2>2. QED
    BY <1>7, <2>1 DEF Daemon
<1>8. QED
  BY <1>2, <1>3, <1>4, <1>5, <1>6, <1>7

LEMMA TypeStep == TypeInv /\ [Next]_vars => TypeInv'
<1>1. SUFFICES ASSUME TypeInv, [Next]_vars PROVE TypeInv'
  OBVIOUS
<1>2. CASE UNCHANGED vars
  BY <1>1, <1>2
     DEF TypeInv, TypeOK, RunInv, RouterTypeOK, running, vars, routerVars,
         hostVars, userVars, stepVars
<1>3. CASE Next
  BY <1>1, <1>3, HostType, FailType, ReportType, UserType DEF Next
<1>4. QED
  BY <1>1, <1>2, <1>3

\* The types and what a run keeps of itself hold throughout: the facts the other
\* proofs start from.
THEOREM TypesHold == Spec => []TypeInv
BY TypeInit, TypeStep, PTL DEF Spec

\* Every reachable state is well typed: reports are about models and running
\* executions, and the router's origin is none or a pair of models.
THEOREM FailoverTypeCorrect == Spec => []TypeOK
<1>1. TypeInv => TypeOK
  BY DEF TypeInv
<1>2. QED
  BY <1>1, TypesHold, PTL

-----------------------------------------------------------------------------
(* The router knows where the session is.                                   *)

\* An answer on its way is where the router believes the session is going;
\* with none on its way the session is there.
FollowInv ==
    origin # NoOrigin /\ ~astray =>
        /\ \A r \in reports : r.stage # "sent" => r.next = origin.current
        /\ Pending = {} => selected = origin.current

\* Changing the session's model leaves what reports say.
LEMMA RacedSame ==
    ASSUME NEW S, S \subseteq Report, NEW r \in Raced(S)
    PROVE  \E q \in S : /\ r = Race(q) /\ r.next = q.next
                        /\ r.stage = q.stage /\ r.model = q.model
                        /\ r.by = q.by /\ r.execution = q.execution
                        /\ r.tool_executed = q.tool_executed
                        /\ (r.raced <=> (q.raced \/ q.stage = "checked"))
<1>1. PICK q \in S : r = Race(q)
  BY DEF Raced
<1>2. q \in Report
  BY <1>1
<1>3. QED
  BY <1>1, <1>2 DEF Race, Report

\* Without a new answer, and with the session where it was, all is as before.
LEMMA FollowFrame ==
    ASSUME FollowInv, origin' \in {origin, NoOrigin}, selected' = selected,
           astray' = FALSE /\ origin' # NoOrigin => astray = FALSE,
           \A r \in reports' : r.stage # "sent" => r \in reports,
           Pending \subseteq reports'
    PROVE  FollowInv'
<1>1. Pending' = Pending
  BY DEF Pending
<1>2. QED
  BY <1>1 DEF FollowInv

LEMMA FollowReport ==
    ASSUME TypeInv, FollowInv, NEW r \in reports,
           Answer(r) \/ Lose(r) \/ Check(r) \/ Apply(r)
    PROVE  FollowInv'
<1> USE DEF hostVars
<1>1. r \in Report /\ r.model \in Models /\ astray \in BOOLEAN
  BY DEF TypeInv, TypeOK, Report
<1>2. CASE Answer(r)
  <2>1. PICK usable \in Listings, answer \in Models \cup {NoModel, Ignored} :
           /\ ModelError(r.model, r.error, r.tool_executed, usable, answer)
           /\ Become(r, IF answer \in Models
                        THEN {[r EXCEPT !.stage = "answered", !.next = answer]}
                        ELSE {})
    BY <1>2 DEF Answer
  <2>2. Answers(answer)
    <3>1. usable \in SUBSET Models /\ RouterTypeOK
      BY SessionAssumption DEF TypeInv, TypeOK
    <3>2. QED
      BY <1>1, <2>1, <3>1, ErrorAnswers
  <2>3. r.stage = "sent" /\ selected' = selected
    BY <1>2 DEF Answer
  <2>4. astray' = (origin' # NoOrigin /\ (astray \/ Pending # {}))
    BY <1>2 DEF Answer, Believes
  <2>5. CASE answer \in Models
    <3> DEFINE new == [r EXCEPT !.stage = "answered", !.next = answer]
    <3>1. new.stage = "answered" /\ new.next = answer
      BY <1>1 DEF Report
    <3>2. reports' = (reports \ {r}) \cup {new}
      BY <2>1, <2>5 DEF Become
    <3>3. origin'.current = answer
      BY <2>2, <2>5 DEF Answers
    <3> HIDE DEF new
    <3>4. Pending' # {}
      BY <3>1, <3>2 DEF Pending
    <3>5. ASSUME ~astray', origin' # NoOrigin, NEW q \in reports',
                 q.stage # "sent"
          PROVE  q = new
      <4>1. Pending = {}
        BY <2>4, <3>5
      <4>2. QED
        BY <3>2, <3>5, <4>1 DEF Pending
    <3>6. QED
      BY <3>1, <3>3, <3>4, <3>5 DEF FollowInv
  <2>6. CASE answer \notin Models
    <3>1. reports' = reports \ {r}
      BY <2>1, <2>6 DEF Become
    <3>2. origin' \in {origin, NoOrigin}
      BY <2>2, <2>6 DEF Answers
    <3>3. Pending \subseteq reports'
      BY <2>3, <3>1 DEF Pending
    <3>4. astray' = FALSE /\ origin' # NoOrigin => astray = FALSE
      BY <1>1, <2>4
    <3>5. QED
      BY <2>3, <3>1, <3>2, <3>3, <3>4, FollowFrame
  <2>7. QED
    BY <2>5, <2>6
<1>3. CASE Lose(r)
  <2>1. reports' = reports \ {r} /\ UNCHANGED <<origin, selected>>
    BY <1>3 DEF Lose, Become, routerVars
  <2>2. astray' = (astray \/ r.stage \in {"answered", "checked"})
    BY <1>3 DEF Lose
  <2>3. CASE r.stage = "sent"
    <3>1. Pending \subseteq reports'
      BY <2>1, <2>3 DEF Pending
    <3>2. QED
      BY <1>1, <2>1, <2>2, <3>1, FollowFrame
  <2>4. CASE r.stage # "sent"
    <3>1. r.stage \in {"answered", "checked"}
      BY <1>1, <2>4 DEF Report, Stages
    <3>2. QED
      BY <2>2, <3>1 DEF FollowInv
  <2>5. QED
    BY <2>3, <2>4
<1>4. CASE Check(r)
  <2>1. r.stage = "answered" /\ UNCHANGED <<origin, selected>>
    BY <1>4 DEF Check, routerVars
  <2>2. CASE Wanted(r) /\ ~MovedOn(r.model)
    <3> DEFINE new == [r EXCEPT !.stage = "checked"]
    <3>1. reports' = (reports \ {r}) \cup {new} /\ astray' = astray
      BY <1>4, <2>2 DEF Check, Become
    <3>2. new.stage = "checked" /\ new.next = r.next
      BY <1>1 DEF Report
    <3> HIDE DEF new
    <3>3. Pending # {} /\ Pending' # {}
      BY <2>1, <3>1, <3>2 DEF Pending
    <3>4. QED
      BY <2>1, <3>1, <3>2, <3>3 DEF FollowInv
  <2>3. CASE ~(Wanted(r) /\ ~MovedOn(r.model))
    <3>1. astray' = TRUE
      BY <1>4, <2>3 DEF Check
    <3>2. QED
      BY <3>1 DEF FollowInv
  <2>4. QED
    BY <2>2, <2>3
<1>5. CASE Apply(r)
  <2>1. /\ reports' = Raced(reports \ {r}) /\ selected' = r.next
        /\ r.stage = "checked" /\ UNCHANGED origin
    BY <1>5 DEF Apply, routerVars
  <2>2. astray' = (astray \/ r.raced)
    BY <1>5 DEF Apply
  <2>3. reports \ {r} \subseteq Report
    BY DEF TypeInv, TypeOK
  <2>4. ASSUME ~astray', origin' # NoOrigin
        PROVE  r.next = origin.current
               /\ \A q \in reports : q.stage # "sent" => q.next = origin.current
    <3>1. ~astray
      BY <2>2, <2>4
    <3>2. QED
      BY <2>1, <2>4, <3>1 DEF FollowInv
  <2>5. ASSUME NEW q \in reports', q.stage # "sent"
        PROVE  \E k \in reports : k.stage # "sent" /\ q.next = k.next
    BY <2>1, <2>3, <2>5, RacedSame
  <2>6. QED
    BY <2>1, <2>4, <2>5 DEF FollowInv
<1>6. QED
  BY <1>2, <1>3, <1>4, <1>5

LEMMA FollowStep ==
    ASSUME TypeInv, FollowInv, [Next]_vars
    PROVE  FollowInv'
<1> USE DEF hostVars, routerVars, userVars, stepVars
<1>1. CASE Start \/ Request \/ ToolRuns \/ StepEnds \/ HostRetries \/ Ends
           \/ (\E m \in Models : Succeeded(m))
           \/ SendPrompt \/ LosePrompt \/ CheckPrompt \/ Daemon
           \/ UNCHANGED vars
  <2>1. RouterTypeOK
    BY DEF TypeInv, TypeOK
  <2>2. /\ UNCHANGED <<reports, astray, selected>>
        /\ \/ \E m \in Models : ModelSucceeded(m)
           \/ Elapse \/ Reconfigure \/ UNCHANGED routerVars
    BY <1>1 DEF Start, Request, ToolRuns, StepEnds, HostRetries, Ends,
         Succeeded, SendPrompt, LosePrompt, CheckPrompt, Daemon, vars
  <2>3. origin' = origin
    BY <2>1, <2>2, RouterKeeps
  <2>4. QED
    BY <2>2, <2>3 DEF FollowInv, Pending
<1>2. ASSUME NEW error \in Faults, RetryHook(error) \/ Fails(error)
      PROVE  FollowInv'
  <2>1. UNCHANGED <<origin, astray, selected>>
    BY <1>2 DEF RetryHook, Fails
  <2>2. \A by, m, ran : NewReport(by, m, error, ran).stage = "sent"
    BY DEF NewReport
  <2>3. reports \subseteq reports'
        /\ \A r \in reports' : r.stage # "sent" => r \in reports
    BY <1>2, <2>2 DEF RetryHook, Fails
  <2>4. QED
    BY <2>1, <2>3, FollowFrame DEF Pending
<1>3. ASSUME NEW m \in Selectable, Choose(m) PROVE FollowInv'
  BY <1>3 DEF Choose, FollowInv
<1>4. ASSUME NEW r \in reports, Answer(r) \/ Lose(r) \/ Check(r) \/ Apply(r)
      PROVE  FollowInv'
  BY <1>4, FollowReport
<1>5. CASE AnswerPrompt
  <2>1. PICK answer : UserMessage(prompt.expected, answer)
    BY <1>5 DEF AnswerPrompt
  <2>2. origin' \in {origin, NoOrigin}
    BY <2>1, PromptAnswers DEF TypeInv, TypeOK
  <2>3. astray' = (origin' # NoOrigin /\ (astray \/ Pending # {}))
        /\ UNCHANGED <<reports, selected>>
    BY <1>5 DEF AnswerPrompt, Believes
  <2>4. astray \in BOOLEAN
    BY DEF TypeInv, TypeOK
  <2>5. QED
    BY <2>2, <2>3, <2>4, FollowFrame DEF Pending
<1>6. CASE ApplyPrompt
  BY <1>6 DEF ApplyPrompt, FollowInv
<1>7. QED
  BY <1>1, <1>2, <1>3, <1>4, <1>5, <1>6 DEF Next

\* The router knows where the session is, for any models and any number of
\* failures, executions, prompts and choices of the user.
THEOREM RouterKnows == Spec => []RouterFollows
<1>1. Init => FollowInv
  BY DEF Init, RouterInit, FollowInv
<1>2. TypeInv /\ FollowInv /\ [Next]_vars => FollowInv'
  BY FollowStep
<1>3. FollowInv => RouterFollows
  BY DEF FollowInv, RouterFollows
<1>4. QED
  BY <1>1, <1>2, <1>3, TypesHold, PTL DEF Spec

-----------------------------------------------------------------------------
(* No newer choice is overwritten.                                          *)

\* Past the last look, the session is as it was seen, or the answer is raced.
CheckInv ==
    /\ \A r \in reports : r.stage = "checked" /\ ~r.raced =>
          selected \in {NoModel, r.model}
    /\ prompt.stage = "checked" /\ ~prompt.raced => selected = prompt.expected

\* Every answer past its last look is raced once the session's model changes.
LEMMA CheckRaced ==
    ASSUME TypeInv, NEW S, S \subseteq reports, reports' = Raced(S),
           prompt' \in {Race(prompt), NoPrompt}
    PROVE  CheckInv'
<1>1. S \subseteq Report /\ prompt \in Prompt
  BY DEF TypeInv, TypeOK
<1>2. \A r \in reports' : r.stage = "checked" => r.raced
  BY <1>1, RacedSame
<1>3. prompt'.stage = "checked" => prompt'.raced
  <2>1. NoPrompt.stage = "none"
    BY DEF NoPrompt
  <2>2. CASE prompt = NoPrompt
    BY <2>1, <2>2 DEF Race, NoPrompt
  <2>3. CASE prompt # NoPrompt
    BY <1>1, <2>1, <2>3 DEF Race, Prompt
  <2>4. QED
    BY <2>2, <2>3
<1>4. QED
  BY <1>2, <1>3 DEF CheckInv

\* Otherwise only a look adds one.
LEMMA CheckFrame ==
    ASSUME CheckInv, selected' = selected,
           \A r \in reports' : r.stage = "checked" => r \in reports,
           prompt'.stage = "checked" => prompt' = prompt
    PROVE  CheckInv'
BY DEF CheckInv

LEMMA CheckStep ==
    ASSUME TypeInv, CheckInv, [Next]_vars
    PROVE  CheckInv'
<1> USE DEF hostVars, userVars
<1>1. CASE Start \/ Request \/ ToolRuns \/ StepEnds \/ HostRetries \/ Ends
           \/ (\E m \in Models : Succeeded(m)) \/ Daemon \/ UNCHANGED vars
  BY <1>1, CheckFrame
     DEF Start, Request, ToolRuns, StepEnds, HostRetries, Ends, End,
         Succeeded, Daemon, vars
<1>2. ASSUME NEW error \in Faults, RetryHook(error) \/ Fails(error)
      PROVE  CheckInv'
  <2>1. UNCHANGED <<selected, prompt>>
    BY <1>2 DEF RetryHook, Fails
  <2>2. \A by, m, ran : NewReport(by, m, error, ran).stage = "sent"
    BY DEF NewReport
  <2>3. \A r \in reports' : r.stage # "sent" => r \in reports
    <3>1. CASE RetryHook(error)
      BY <2>2, <3>1 DEF RetryHook
    <3>2. CASE Fails(error)
      BY <2>2, <3>2 DEF Fails
    <3>3. QED
      BY <1>2, <3>1, <3>2
  <2>4. QED
    BY <2>1, <2>3, CheckFrame
<1>3. ASSUME NEW m \in Selectable, Choose(m) PROVE CheckInv'
  BY <1>3, CheckRaced DEF Choose
<1>4. ASSUME NEW r \in reports, Answer(r) \/ Lose(r)
      PROVE  CheckInv'
  <2>1. UNCHANGED <<selected, prompt>>
    BY <1>4 DEF Answer, Lose
  <2>2. r \in Report
    BY DEF TypeInv, TypeOK
  <2>3. \A answer : [r EXCEPT !.stage = "answered", !.next = answer].stage
                      = "answered"
    BY <2>2 DEF Report
  <2>4. \A q \in reports' : q.stage = "checked" => q \in reports
    BY <1>4, <2>3 DEF Answer, Lose, Become
  <2>5. QED
    BY <2>1, <2>4, CheckFrame
<1>5. ASSUME NEW r \in reports, Check(r)
      PROVE  CheckInv'
  <2> DEFINE new == [r EXCEPT !.stage = "checked"]
  <2>1. UNCHANGED <<selected, prompt>>
    BY <1>5 DEF Check
  <2>2. new.model = r.model
    BY DEF TypeInv, TypeOK, Report
  <2>3. \A q \in reports' : q \in reports \/ (q = new /\ ~MovedOn(r.model))
    BY <1>5 DEF Check, Become
  <2> HIDE DEF new
  <2>4. QED
    BY <2>1, <2>2, <2>3 DEF CheckInv, MovedOn
<1>6. ASSUME NEW r \in reports, Apply(r)
      PROVE  CheckInv'
  <2>1. reports \ {r} \subseteq reports
    OBVIOUS
  <2>2. reports' = Raced(reports \ {r}) /\ prompt' = Race(prompt)
    BY <1>6 DEF Apply
  <2>3. QED
    BY <2>1, <2>2, CheckRaced
<1>7. CASE SendPrompt \/ AnswerPrompt \/ LosePrompt
  <2>1. UNCHANGED <<selected, reports>>
    BY <1>7 DEF SendPrompt, AnswerPrompt, LosePrompt
  <2>2. prompt'.stage # "checked"
    <3>1. CASE SendPrompt \/ LosePrompt
      <4>1. [NoPrompt EXCEPT !.stage = "sent", !.expected = selected].stage
              = "sent" /\ NoPrompt.stage = "none"
        BY DEF NoPrompt
      <4>2. QED
        BY <3>1, <4>1 DEF SendPrompt, LosePrompt
    <3>2. CASE AnswerPrompt
      <4>1. prompt.stage = "sent"
        BY <3>2 DEF AnswerPrompt
      <4>2. NoPrompt.stage = "none"
        BY DEF NoPrompt
      <4>3. prompt \in [stage : Stages, expected : Models \cup {NoModel},
                        next : Models \cup {NoModel}, raced : BOOLEAN]
        BY <4>1, <4>2 DEF TypeInv, TypeOK, Prompt
      <4>4. \A answer : [prompt EXCEPT !.stage = "answered",
                                       !.next = answer].stage = "answered"
        BY <4>3
      <4>5. QED
        BY <3>2, <4>2, <4>4 DEF AnswerPrompt
    <3>3. QED
      BY <1>7, <3>1, <3>2
  <2>3. QED
    BY <2>1, <2>2, CheckFrame
<1>8. CASE CheckPrompt
  <2>1. UNCHANGED <<selected, reports>> /\ prompt.stage = "answered"
    BY <1>8 DEF CheckPrompt
  <2>2. NoPrompt.stage = "none"
    BY DEF NoPrompt
  <2>3. prompt \in [stage : Stages, expected : Models \cup {NoModel},
                    next : Models \cup {NoModel}, raced : BOOLEAN]
    BY <2>1, <2>2 DEF TypeInv, TypeOK, Prompt
  <2>4. prompt'.stage = "checked" => selected' = prompt'.expected
    BY <1>8, <2>1, <2>2, <2>3 DEF CheckPrompt
  <2>5. QED
    BY <2>1, <2>4 DEF CheckInv
<1>9. CASE ApplyPrompt
  BY <1>9, CheckRaced DEF ApplyPrompt
<1>10. QED
  BY <1>1, <1>2, <1>3, <1>4, <1>5, <1>6, <1>7, <1>8, <1>9 DEF Next

\* No switch, of a report or of a prompt, overwrites a choice made before the
\* adapter's last look at the session.
THEOREM ChoicesStand == Spec => NoStaleSwitch
<1>1. Init => CheckInv
  BY DEF Init, CheckInv, NoPrompt
<1>2. TypeInv /\ CheckInv /\ [Next]_vars => CheckInv'
  BY CheckStep
<1>3. CheckInv => (\A r \in reports : Apply(r) =>
                     selected \in {NoModel, r.model} \/ r.raced)
  BY DEF CheckInv, Apply
<1>4. CheckInv => (ApplyPrompt => selected = prompt.expected \/ prompt.raced)
  BY DEF CheckInv, ApplyPrompt
<1>5. QED
  BY <1>1, <1>2, <1>3, <1>4, TypesHold, PTL DEF Spec, NoStaleSwitch

-----------------------------------------------------------------------------
(* A retry repeats no tool.                                                 *)

\* What a retry's report says of the request that failed: it still waits for
\* the retry hook, and once answered, no tool ran in it.
WaitsFor(r) ==
    /\ step = "failed"
    /\ r.stage = "sent" => r.tool_executed = tool_ran
    /\ r.stage # "sent" => ~tool_ran

RetryInv ==
    /\ \A r \in reports : r.execution <= execution
    /\ \A r \in reports : r.by = "retry" /\ Valid(r) => WaitsFor(r)
    /\ \A q, r \in reports :
         q.by = "retry" /\ r.by = "retry" /\ q.execution = r.execution
           => q = r

\* A report goes, or one like it takes its place.
LEMMA RetryBecome ==
    ASSUME RetryInv, NEW r \in reports, NEW new,
           reports' \subseteq (reports \ {r}) \cup {new},
           UNCHANGED <<step, execution, tool_ran>>,
           new \in reports' =>
             /\ new.by = r.by /\ new.execution = r.execution
             /\ new.stage # "sent"
             /\ r.stage = "sent" => r.tool_executed = FALSE
    PROVE  RetryInv'
<1>1. \A q \in reports' : \/ q \in reports \ {r}
                          \/ q = new /\ new.by = r.by
                             /\ new.execution = r.execution
  OBVIOUS
<1>2. \A q \in reports' : q.execution <= execution'
  BY <1>1 DEF RetryInv
<1>3. ASSUME NEW q \in reports', q.by = "retry", Valid(q)'
      PROVE  WaitsFor(q)'
  <2>1. CASE q \in reports \ {r}
    BY <1>3, <2>1 DEF RetryInv, Valid, running, WaitsFor
  <2>2. CASE q = new
    <3>1. r.by = "retry" /\ Valid(r)
      BY <1>3, <2>2 DEF Valid, running
    <3>2. WaitsFor(r) /\ q.stage # "sent"
      BY <2>2, <3>1 DEF RetryInv
    <3>3. r.stage = "sent" => r.tool_executed = FALSE
      BY <2>2
    <3>4. tool_ran = FALSE \/ ~tool_ran
      BY <3>2, <3>3 DEF WaitsFor
    <3>5. QED
      BY <3>2, <3>4 DEF WaitsFor
  <2>3. QED
    BY <1>1, <2>1, <2>2
<1>4. ASSUME NEW p \in reports', NEW q \in reports', p.by = "retry",
             q.by = "retry", p.execution = q.execution
      PROVE  p = q
  BY <1>1, <1>4 DEF RetryInv
<1>5. QED
  BY <1>2, <1>3, <1>4 DEF RetryInv

\* Racing the others changes nothing for retries, whatever becomes of r.
LEMMA RetryRaced ==
    ASSUME TypeInv, RetryInv, NEW S, S \subseteq reports, reports' = Raced(S),
           UNCHANGED <<execution, tool_ran>>,
           \/ step' = step
           \/ \A q \in S : q.by = "retry" => q.execution # execution
    PROVE  RetryInv'
<1>1. S \subseteq Report
  BY DEF TypeInv, TypeOK
<1>2. \A r \in reports' : \E q \in S :
         /\ r = Race(q) /\ r.stage = q.stage /\ r.by = q.by
         /\ r.execution = q.execution /\ r.tool_executed = q.tool_executed
  BY <1>1, RacedSame
<1>3. \A r \in reports' : r.execution <= execution'
  BY <1>2 DEF RetryInv
<1>4. ASSUME NEW r \in reports', r.by = "retry", Valid(r)'
      PROVE  WaitsFor(r)'
  <2>1. PICK q \in S : /\ r = Race(q) /\ r.stage = q.stage /\ r.by = q.by
                       /\ r.execution = q.execution
                       /\ r.tool_executed = q.tool_executed
    BY <1>2
  <2>2. q.execution = execution /\ q.by = "retry" /\ step' # "idle"
    BY <1>4, <2>1 DEF Valid, running
  <2>3. step' = step
    BY <2>2
  <2>4. WaitsFor(q)
    BY <2>2, <2>3 DEF RetryInv, Valid, running
  <2>5. QED
    BY <2>1, <2>3, <2>4 DEF WaitsFor
<1>5. ASSUME NEW p \in reports', NEW q \in reports', p.by = "retry",
             q.by = "retry", p.execution = q.execution
      PROVE  p = q
  BY <1>2, <1>5 DEF RetryInv
<1>6. QED
  BY <1>3, <1>4, <1>5 DEF RetryInv

\* With the request the same, or none waiting for it, nothing changes.
LEMMA RetrySame ==
    ASSUME RetryInv, UNCHANGED <<reports, execution>>,
           \/ UNCHANGED <<step, tool_ran>>
           \/ \A q \in reports : q.by = "retry" => ~Valid(q)'
    PROVE  RetryInv'
BY DEF RetryInv, WaitsFor, Valid, running

\* A new report is the only one of a retry of its execution.
LEMMA RetryFails ==
    ASSUME TypeInv, RetryInv, NEW error \in Faults,
           RetryHook(error) \/ Fails(error)
    PROVE  RetryInv'
<1>1. UNCHANGED <<execution, tool_ran>> /\ execution \in 0..MaxExecutions
  BY DEF RetryHook, Fails, TypeInv, TypeOK
<1>2. CASE RetryHook(error)
  <2> DEFINE new == NewReport("retry", requested, error, tool_ran)
  <2>1. /\ new.by = "retry" /\ new.execution = execution
        /\ new.stage = "sent" /\ new.tool_executed = tool_ran
    BY DEF NewReport
  <2>2. reports' = reports \cup {new} /\ step = "requesting"
        /\ step' = "failed"
    BY <1>2 DEF RetryHook
  <2> HIDE DEF new
  <2>3. \A r \in reports : r.by = "retry" => r.execution # execution
    BY <2>2 DEF RetryInv, Valid, running, WaitsFor
  <2>4. \A r \in reports' : r.execution <= execution'
    BY <1>1, <2>1, <2>2, SessionAssumption DEF RetryInv
  <2>5. ASSUME NEW r \in reports', r.by = "retry", Valid(r)'
        PROVE  WaitsFor(r)'
    <3>1. r = new
      BY <1>1, <2>2, <2>3, <2>5 DEF Valid
    <3>2. QED
      BY <1>1, <2>1, <2>2, <3>1 DEF WaitsFor
  <2>6. ASSUME NEW p \in reports', NEW q \in reports', p.by = "retry",
               q.by = "retry", p.execution = q.execution
        PROVE  p = q
    BY <2>1, <2>2, <2>3, <2>6 DEF RetryInv
  <2>7. QED
    BY <2>4, <2>5, <2>6 DEF RetryInv
<1>3. CASE Fails(error)
  <2> DEFINE new == NewReport("end", switched, error, FALSE)
  <2>1. new.by = "end" /\ new.execution = execution
    BY DEF NewReport
  <2>2. step' = "idle" /\ reports' \subseteq reports \cup {new}
    BY <1>3 DEF Fails, End
  <2> HIDE DEF new
  <2>3. \A r \in reports' : r.execution <= execution'
    BY <1>1, <2>1, <2>2, SessionAssumption DEF RetryInv
  <2>4. \A r \in reports' : ~Valid(r)'
    BY <2>2 DEF Valid, running
  <2>5. \A r \in reports' : r.by = "retry" => r \in reports
    BY <2>1, <2>2
  <2>6. QED
    BY <2>3, <2>4, <2>5 DEF RetryInv
<1>4. QED
  BY <1>2, <1>3

LEMMA RetryReport ==
    ASSUME TypeInv, RetryInv, NEW r \in reports,
           Answer(r) \/ Lose(r) \/ Check(r) \/ Apply(r)
    PROVE  RetryInv'
<1> USE DEF hostVars
<1>1. r \in Report /\ r.model \in Models /\ r.tool_executed \in BOOLEAN
      /\ RouterTypeOK
  BY DEF TypeInv, TypeOK, Report
<1>2. CASE Answer(r)
  <2>1. PICK usable \in Listings, answer \in Models \cup {NoModel, Ignored} :
           /\ ModelError(r.model, r.error, r.tool_executed, usable, answer)
           /\ Become(r, IF answer \in Models
                        THEN {[r EXCEPT !.stage = "answered", !.next = answer]}
                        ELSE {})
    BY <1>2 DEF Answer
  <2> DEFINE new == [r EXCEPT !.stage = "answered", !.next = answer]
  <2>2. usable \in SUBSET Models
    BY SessionAssumption
  <2>3. r.tool_executed = TRUE => answer \notin Models
    BY <1>1, <2>1, <2>2, ErrorAnswers
  <2>4. /\ new.by = r.by /\ new.execution = r.execution
        /\ new.stage = "answered"
    BY <1>1 DEF Report
  <2>5. \/ answer \notin Models /\ reports' = reports \ {r}
        \/ answer \in Models /\ reports' = (reports \ {r}) \cup {new}
    BY <2>1 DEF Become
  <2>6. UNCHANGED <<step, execution, tool_ran>>
    BY <1>2 DEF Answer
  <2> HIDE DEF new
  <2>7. CASE answer \in Models
    <3>1. r.tool_executed = FALSE
      BY <1>1, <2>3, <2>7
    <3>2. QED
      BY <2>4, <2>5, <2>6, <2>7, <3>1, RetryBecome
  <2>8. CASE answer \notin Models
    <3>1. reports' \subseteq reports /\ r \notin reports'
      BY <2>5, <2>8
    <3>2. QED
      BY <2>6, <3>1 DEF RetryInv, Valid, running, WaitsFor
  <2>9. QED
    BY <2>7, <2>8
<1>3. CASE Lose(r)
  <2>1. reports' \subseteq reports /\ UNCHANGED <<step, execution, tool_ran>>
    BY <1>3 DEF Lose, Become
  <2>2. QED
    BY <2>1 DEF RetryInv, Valid, running, WaitsFor
<1>4. CASE Check(r)
  <2> DEFINE new == [r EXCEPT !.stage = "checked"]
  <2>1. /\ new.by = r.by /\ new.execution = r.execution
        /\ new.stage = "checked"
    BY <1>1 DEF Report
  <2>2. reports' \subseteq (reports \ {r}) \cup {new} /\ r.stage = "answered"
    BY <1>4 DEF Check, Become
  <2>3. UNCHANGED <<step, execution, tool_ran>>
    BY <1>4 DEF Check
  <2> HIDE DEF new
  <2>4. QED
    BY <2>1, <2>2, <2>3, RetryBecome
<1>5. CASE Apply(r)
  <2>1. reports' = Raced(reports \ {r}) /\ UNCHANGED <<execution, tool_ran>>
        /\ reports \ {r} \subseteq reports
    BY <1>5 DEF Apply
  <2>2. CASE r.by = "retry" /\ Valid(r)
    <3>1. \A q \in reports \ {r} : q.by = "retry" => q.execution # execution
      BY <2>2 DEF RetryInv, Valid
    <3>2. step # "idle"
      BY <2>2 DEF Valid, running
    <3>3. QED
      BY <2>1, <3>1, <3>2, RetryRaced
  <2>3. CASE ~(r.by = "retry" /\ Valid(r))
    <3>1. step' = step
      BY <1>5, <2>3 DEF Apply
    <3>2. QED
      BY <2>1, <3>1, RetryRaced
  <2>4. QED
    BY <2>2, <2>3
<1>6. QED
  BY <1>2, <1>3, <1>4, <1>5

LEMMA RetryStep ==
    ASSUME TypeInv, RetryInv, [Next]_vars
    PROVE  RetryInv'
<1> USE DEF hostVars, userVars
<1>1. CASE Start
  <2>1. UNCHANGED reports /\ execution' = execution + 1 /\ execution \in Nat
    BY <1>1 DEF Start, TypeInv, TypeOK
  <2>2. reports \subseteq Report /\ \A r \in Report : r.execution \in Nat
    BY DEF TypeInv, TypeOK, Report
  <2>3. \A r \in reports : r.execution <= execution' /\ r.execution # execution'
    BY <2>1, <2>2 DEF RetryInv
  <2>4. QED
    BY <2>1, <2>3 DEF RetryInv, Valid
<1>2. CASE Request \/ ToolRuns \/ StepEnds \/ HostRetries
  <2>1. UNCHANGED <<reports, execution>>
    BY <1>2 DEF Request, ToolRuns, StepEnds, HostRetries
  <2>2. step # "idle"
    BY <1>2 DEF Request, ToolRuns, StepEnds, HostRetries
  <2>3. \A q \in reports : q.by = "retry" => ~Valid(q)
    <3>1. CASE Request \/ ToolRuns \/ StepEnds
      BY <3>1 DEF Request, ToolRuns, StepEnds, RetryInv, WaitsFor
    <3>2. CASE HostRetries
      BY <3>2 DEF HostRetries, Hooked
    <3>3. QED
      BY <1>2, <3>1, <3>2
  <2>4. \A q \in reports : q.by = "retry" => ~Valid(q)'
    BY <2>1, <2>2, <2>3 DEF Valid, running
  <2>5. QED
    BY <2>1, <2>4, RetrySame
<1>3. CASE Ends
  <2>1. UNCHANGED <<reports, execution>> /\ step' = "idle"
    BY <1>3 DEF Ends, End
  <2>2. \A q \in reports : ~Valid(q)'
    BY <2>1 DEF Valid, running
  <2>3. QED
    BY <2>1, <2>2, RetrySame
<1>4. CASE (\E m \in Models : Succeeded(m)) \/ SendPrompt \/ AnswerPrompt
           \/ LosePrompt \/ CheckPrompt \/ Daemon \/ UNCHANGED vars
  <2>1. UNCHANGED <<reports, execution, step, tool_ran>>
    BY <1>4 DEF Succeeded, SendPrompt, AnswerPrompt, LosePrompt, CheckPrompt,
         Daemon, vars
  <2>2. QED
    BY <2>1, RetrySame
<1>5. CASE (\E m \in Selectable : Choose(m)) \/ ApplyPrompt
  <2>1. reports' = Raced(reports) /\ UNCHANGED <<execution, step, tool_ran>>
    BY <1>5 DEF Choose, ApplyPrompt
  <2>2. step # "idle" \/ step' = "idle"
    BY <2>1
  <2>3. QED
    BY <2>1, <2>2, RetryRaced
<1>6. ASSUME NEW error \in Faults, RetryHook(error) \/ Fails(error)
      PROVE  RetryInv'
  BY <1>6, RetryFails
<1>7. ASSUME NEW r \in reports, Answer(r) \/ Lose(r) \/ Check(r) \/ Apply(r)
      PROVE  RetryInv'
  BY <1>7, RetryReport
<1>8. QED
  BY <1>1, <1>2, <1>3, <1>4, <1>5, <1>6, <1>7 DEF Next

\* A retry the router asks for restarts the failed request its report is
\* about, and only if no tool ran in it.
THEOREM NoToolTwice == Spec => RetriesSafely
<1>1. Init => RetryInv
  BY DEF Init, RetryInv
<1>2. TypeInv /\ RetryInv /\ [Next]_vars => RetryInv'
  BY RetryStep
<1>3. RetryInv =>
        (\A r \in reports : Apply(r) /\ step' # step =>
           step = "failed" /\ r.execution = execution /\ ~tool_ran)
  <2>1. SUFFICES ASSUME RetryInv, NEW r \in reports, Apply(r), step' # step
                 PROVE  step = "failed" /\ r.execution = execution /\ ~tool_ran
    OBVIOUS
  <2>2. r.by = "retry" /\ Valid(r) /\ r.stage = "checked"
    BY <2>1 DEF Apply
  <2>3. WaitsFor(r)
    BY <2>1, <2>2 DEF RetryInv
  <2>4. QED
    BY <2>2, <2>3 DEF WaitsFor, Valid
<1>4. QED
  BY <1>1, <1>2, <1>3, TypesHold, PTL DEF Spec, RetriesSafely

-----------------------------------------------------------------------------
(* The blacklist.                                                           *)

\* Racing a report in flight makes no new answer.
LEMMA RacedAnswersNothing ==
    ASSUME NEW S, S \subseteq Report, NEW r \in Raced(S), r.stage = "answered"
    PROVE  r \in S
<1>1. PICK q \in S : r = Race(q) /\ r.stage = q.stage
  BY RacedSame
<1>2. q \in Report /\ q.stage = "answered"
  BY <1>1
<1>3. Race(q) = [q EXCEPT !.raced = q.raced]
  BY <1>2 DEF Race, Report
<1>4. Race(q) = q
  BY <1>2, <1>3 DEF Report
<1>5. QED
  BY <1>1, <1>4

LEMMA AnswersAllowed ==
    ASSUME TypeInv, [Next]_vars
    PROVE  Answered \cap blacklist = {}
<1> DEFINE told == {r.next : r \in {q \in reports' \ reports :
                                      q.stage = "answered"}}
           asked == prompt.stage = "sent" /\ prompt'.stage = "answered"
<1> USE DEF hostVars, userVars
<1>1. reports \subseteq Report /\ RouterTypeOK
  BY DEF TypeInv, TypeOK
<1>2. CASE \E r \in reports : Answer(r)
  <2>1. PICK r \in reports : Answer(r)
    BY <1>2
  <2>2. PICK usable \in Listings, answer \in Models \cup {NoModel, Ignored} :
           /\ ModelError(r.model, r.error, r.tool_executed, usable, answer)
           /\ Become(r, IF answer \in Models
                        THEN {[r EXCEPT !.stage = "answered", !.next = answer]}
                        ELSE {})
    BY <2>1 DEF Answer
  <2>3. usable \in SUBSET Models /\ r.model \in Models
    BY <1>1, SessionAssumption DEF Report
  <2>4. answer \in Models => answer \notin blacklist
    <3>1. Answers(answer)
      BY <1>1, <2>2, <2>3, ErrorAnswers
    <3>2. QED
      BY <3>1 DEF Answers
  <2>5. [r EXCEPT !.stage = "answered", !.next = answer].next = answer
    BY <1>1 DEF Report
  <2>6. \A q \in reports' \ reports : q.next \notin blacklist
    BY <2>2, <2>4, <2>5 DEF Become
  <2>7. prompt' = prompt
    BY <2>1 DEF Answer
  <2>8. QED
    BY <2>6, <2>7 DEF Answered
<1>3. CASE AnswerPrompt
  <2>1. PICK answer \in Models \cup {Ignored} :
           /\ UserMessage(prompt.expected, answer)
           /\ prompt' = IF answer \in Models
                        THEN [prompt EXCEPT !.stage = "answered",
                                            !.next = answer]
                        ELSE NoPrompt
    BY <1>3 DEF AnswerPrompt
  <2>2. prompt.stage = "sent" /\ reports' = reports
    BY <1>3 DEF AnswerPrompt
  <2>3. NoPrompt.stage = "none"
    BY DEF NoPrompt
  <2>4. prompt \in [stage : Stages, expected : Models \cup {NoModel},
                    next : Models \cup {NoModel}, raced : BOOLEAN]
    BY <2>2, <2>3 DEF TypeInv, TypeOK, Prompt
  <2>5. [prompt EXCEPT !.stage = "answered", !.next = answer].next = answer
    BY <2>4
  <2>6. answer \in Models => answer \notin blacklist
    BY <1>1, <2>1, PromptAnswers
  <2>7. prompt'.stage = "answered" => prompt'.next \notin blacklist
    BY <2>1, <2>3, <2>5, <2>6
  <2>8. QED
    BY <2>2, <2>7 DEF Answered
<1>4. CASE Start \/ Request \/ ToolRuns \/ StepEnds \/ HostRetries \/ Ends
           \/ (\E m \in Models : Succeeded(m)) \/ Daemon \/ UNCHANGED vars
  BY <1>4 DEF Answered, Start, Request, ToolRuns, StepEnds, HostRetries, Ends,
       Succeeded, Daemon, vars
<1>5. CASE SendPrompt \/ LosePrompt \/ CheckPrompt
  <2>1. UNCHANGED reports
    BY <1>5 DEF SendPrompt, LosePrompt, CheckPrompt
  <2>2. prompt.stage = "sent" => prompt'.stage # "answered"
    BY <1>5 DEF SendPrompt, LosePrompt, CheckPrompt, NoPrompt
  <2>3. QED
    BY <2>1, <2>2 DEF Answered
<1>6. ASSUME NEW error \in Faults, RetryHook(error) \/ Fails(error)
      PROVE  Answered \cap blacklist = {}
  <2>1. \A r \in reports' \ reports : r.stage = "sent"
    <3>1. CASE RetryHook(error)
      <4> DEFINE new == NewReport("retry", requested, error, tool_ran)
      <4>1. reports' = reports \cup {new}
        BY <3>1 DEF RetryHook
      <4>2. new.stage = "sent"
        BY DEF NewReport
      <4> HIDE DEF new
      <4>3. QED
        BY <4>1, <4>2
    <3>2. CASE Fails(error)
      <4> DEFINE new == NewReport("end", switched, error, FALSE)
      <4>1. reports' \subseteq reports \cup {new}
        BY <3>2 DEF Fails
      <4>2. new.stage = "sent"
        BY DEF NewReport
      <4> HIDE DEF new
      <4>3. QED
        BY <4>1, <4>2
    <3>3. QED
      BY <1>6, <3>1, <3>2
  <2>2. prompt' = prompt
    BY <1>6 DEF RetryHook, Fails
  <2>3. QED
    BY <2>1, <2>2 DEF Answered
<1>7. CASE (\E m \in Selectable : Choose(m)) \/ ApplyPrompt
           \/ (\E r \in reports : Apply(r))
  <2>1. PICK S \in SUBSET reports : reports' = Raced(S)
    BY <1>7 DEF Choose, ApplyPrompt, Apply
  <2>2. \A r \in reports' : r.stage = "answered" => r \in reports
    BY <1>1, <2>1, RacedAnswersNothing
  <2>3. prompt.stage = "sent" => prompt'.stage # "answered"
    <3>1. prompt' \in {Race(prompt), NoPrompt}
      BY <1>7 DEF Choose, ApplyPrompt, Apply
    <3>2. prompt.stage = "sent" => Race(prompt).stage = "sent"
      BY DEF Race, TypeInv, TypeOK, Prompt, NoPrompt
    <3>3. QED
      BY <3>1, <3>2 DEF NoPrompt
  <2>4. QED
    BY <2>2, <2>3 DEF Answered
<1>8. ASSUME NEW r \in reports, Lose(r) \/ Check(r)
      PROVE  Answered \cap blacklist = {}
  <2>1. [r EXCEPT !.stage = "checked"].stage = "checked"
    BY <1>1 DEF Report
  <2>2. \A q \in reports' \ reports : q.stage = "checked"
    BY <1>8, <2>1 DEF Lose, Check, Become
  <2>3. prompt' = prompt
    BY <1>8 DEF Lose, Check
  <2>4. QED
    BY <2>2, <2>3 DEF Answered
<1>9. QED
  BY <1>2, <1>3, <1>4, <1>5, <1>6, <1>7, <1>8 DEF Next

\* No model the config excludes when the router answers is ever answered with,
\* for any catalog and blacklists, and however the config changes.
THEOREM ExcludedNeverOffered == Spec => BlacklistHonoured
<1>1. TypeInv /\ [Next]_vars => Answered \cap blacklist = {}
  BY AnswersAllowed
<1>2. QED
  BY <1>1, TypesHold, PTL DEF Spec, BlacklistHonoured
=============================================================================
