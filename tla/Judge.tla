------------------------------- MODULE Judge --------------------------------
(* One worker's System One: the primary judge and its fallback, a second     *)
(* judge for the answers the first is unsure of, and a System Two review of  *)
(* those both doubt, all under the deadline of the signal.  The clock counts *)
(* ticks; a client's own timeout bounds each of its calls.                   *)
EXTENDS Integers, FiniteSets, FiniteSetsExt

CONSTANTS
    Questions,     \* asked together: a set of positions, in the order asked
    Never,         \* those that opt out of a second opinion
    Wide,          \* those with more values than a review's field may hold
    WithFallback,  \* CHAUFFEUR_JUDGE_FALLBACK is set
    WithReview,    \* CHAUFFEUR_JUDGE_REVIEW is set
    Timeout,       \* the clients' own timeout
    RetryAfter, RoundReserve, MinSecond, MinReview, MaxReviewed,
    LoginTime,     \* how long a refresh of the review's login may hold it up
    Deadlines,     \* the time a task may have
    MaxClock       \* bound: ticks of the clock

ASSUME JudgeAssumption ==
    /\ Questions \subseteq Nat \ {0} /\ Questions # {}
    /\ WithFallback \in BOOLEAN /\ WithReview \in BOOLEAN
    /\ {Timeout, RetryAfter, MinSecond, MinReview, MaxReviewed, MaxClock}
         \subseteq Nat \ {0}
    /\ RoundReserve \in Nat /\ LoginTime \in Nat
    /\ Deadlines \subseteq Nat

VARIABLES
    clock,
    retry_at,     \* when the primary is tried again; 0: at once
    task,         \* the task of this worker: see Task
    standing,     \* who gave the answer each question has
    sure,         \* questions whose answer is not in doubt
    replaced,     \* who gave the first answer of a question that has another
    judge_name,   \* who is on record as having answered
    trusted,      \* history: the answers the first judge was sure of
    failed_at     \* history: when the primary last failed

judgeVars == <<clock, retry_at, task, standing, sure, replaced, judge_name,
               trusted, failed_at>>

Nobody == "none"
Firsts == {"primary", "fallback"}
Sources == Firsts \cup {"second", "review"}
JudgeStages == Sources \cup {"idle", "asked", "answered", "failed"}

\* began: when the first judge was turned to; ends: when the call under way is
\* over at the latest.
Task == [stage : JudgeStages, urgent : BOOLEAN, escalating : BOOLEAN,
         deadline : Nat, began : Nat, ends : Int]

JudgeTypeOK ==
    /\ clock \in 0..MaxClock /\ retry_at \in Nat /\ failed_at \in Nat
    /\ task \in Task
    /\ standing \in [Questions -> Sources \cup {Nobody}]
    /\ replaced \in [Questions -> Sources \cup {Nobody}]
    /\ sure \subseteq Questions /\ trusted \subseteq Questions
    /\ judge_name \in SUBSET Sources

JudgeInit ==
    /\ clock = 1 /\ retry_at = 0 /\ failed_at = 0
    /\ task = [stage |-> "idle", urgent |-> FALSE, escalating |-> FALSE,
               deadline |-> 0, began |-> 0, ends |-> 0]
    /\ standing = [q \in Questions |-> Nobody]
    /\ replaced = [q \in Questions |-> Nobody]
    /\ sure = {} /\ trusted = {}
    /\ judge_name = {"primary"}

-----------------------------------------------------------------------------
(* What comes next.                                                          *)

Busy == task.stage \in Sources \cup {"asked"}

\* A call of a judge that must be over at `by`: with no time left it fails.
Turn(stage, by) ==
    [task EXCEPT !.stage = stage, !.ends = Min({by, clock + Timeout})]

\* Each step of an escalation ends this long before the deadline.
BeforeDeadline == task.deadline
Before == task.deadline - RoundReserve
HasTime(needed) == Before - clock >= needed

Unsure(settled) == Questions \ (settled \cup Never)

\* A review answers the first few of them.
Reviewable(questions) ==
    {q \in questions \ Wide :
        Cardinality({p \in questions \ Wide : p < q}) < MaxReviewed}

AfterSecond(settled) ==
    IF /\ WithReview /\ HasTime(MinReview)
       /\ Reviewable(Unsure(settled)) # {}
    THEN [task EXCEPT !.stage = "review", !.ends = Before]
    ELSE [task EXCEPT !.stage = "answered"]

AfterFirst(settled) ==
    CASE ~task.escalating \/ task.urgent ->
           [task EXCEPT !.stage = "answered"]
      [] OTHER ->
           IF Unsure(settled) # {} /\ HasTime(MinSecond)
           THEN Turn("second", Before) ELSE AfterSecond(settled)

-----------------------------------------------------------------------------
(* A task of the worker.                                                     *)

\* The scheduler hands a task over; one already late is not asked at all.
BeginTask(urgent, escalating, time) ==
    /\ ~Busy /\ clock < MaxClock
    /\ task' = [task EXCEPT !.stage = IF time = 0 THEN "failed" ELSE "asked",
                            !.urgent = urgent, !.escalating = escalating,
                            !.deadline = clock + time]
    /\ standing' = [q \in Questions |-> Nobody]
    /\ replaced' = [q \in Questions |-> Nobody]
    /\ sure' = {} /\ trusted' = {}
    /\ UNCHANGED <<clock, retry_at, judge_name, failed_at>>

\* Fallback::attempt: the primary unless it is cooling down.
AskFirst ==
    /\ task.stage = "asked"
    /\ LET first == IF ~WithFallback \/ clock >= retry_at
                    THEN "primary" ELSE "fallback"
       IN  task' = [Turn(first, task.deadline) EXCEPT !.began = clock]
    /\ UNCHANGED <<clock, retry_at, standing, sure, replaced, judge_name,
                   trusted, failed_at>>

\* Valid answers to every question, of which the judge is sure of some.
FirstAnswers(settled) ==
    /\ task.stage \in Firsts /\ clock < task.ends
    /\ retry_at' = IF task.stage = "primary" THEN 0 ELSE retry_at
    /\ standing' = [q \in Questions |-> task.stage]
    /\ sure' = settled /\ trusted' = settled
    /\ judge_name' = {task.stage}
    /\ task' = AfterFirst(settled)
    /\ UNCHANGED <<clock, replaced, failed_at>>

FirstFailsRetrying ==
    /\ task.stage \in Firsts
    /\ retry_at' = IF task.stage = "primary" THEN clock + RetryAfter ELSE retry_at
    /\ task' = [task EXCEPT !.stage = "asked"]
    /\ failed_at' = IF task.stage = "primary" THEN clock ELSE failed_at
    /\ UNCHANGED <<clock, standing, sure, replaced, judge_name, trusted>>

\* An error, no answer in time, or invalid answers.
FirstFails ==
    /\ task.stage \in Firsts
    /\ IF task.stage = "primary" /\ WithFallback
       THEN /\ retry_at' = clock + RetryAfter
            /\ task' = Turn("fallback", task.deadline)
       ELSE /\ task' = [task EXCEPT !.stage = "failed"]
            /\ UNCHANGED retry_at
    /\ failed_at' = IF task.stage = "primary" THEN clock ELSE failed_at
    \* An escalating judge keeps the name of its last success.
    /\ judge_name' = IF task.escalating /\ ~task.urgent
                     THEN judge_name ELSE {task.stage}
    /\ UNCHANGED <<clock, standing, sure, replaced, trusted>>

ReplaceLatest(questions, source) ==
    /\ standing' = [q \in Questions |->
                      IF q \in questions THEN source ELSE standing[q]]
    /\ replaced' = [q \in Questions |->
                      IF q \in questions THEN standing[q] ELSE replaced[q]]

\* replace: the better judge's answers stand, the first judge's are kept.
Replace(questions, source) ==
    /\ standing' = [q \in Questions |->
                      IF q \in questions THEN source ELSE standing[q]]
    /\ replaced' = [q \in Questions |->
                      IF q \in questions /\ replaced[q] = Nobody
                      THEN standing[q] ELSE replaced[q]]

SecondAnswers(settled) ==
    /\ task.stage = "second" /\ clock < task.ends
    /\ settled \subseteq Unsure(sure)
    /\ Replace(Unsure(sure), "second")
    /\ sure' = sure \cup settled
    /\ judge_name' = judge_name \cup {"second"}
    /\ task' = AfterSecond(sure \cup settled)
    /\ UNCHANGED <<clock, retry_at, trusted, failed_at>>

SecondFails ==
    /\ task.stage = "second"
    /\ task' = AfterSecond(sure)
    /\ UNCHANGED <<clock, retry_at, standing, sure, replaced, judge_name,
                   trusted, failed_at>>

\* System Two abstains from the questions it does not answer.
ReviewAnswers(answered) ==
    /\ task.stage = "review" /\ clock < task.ends
    /\ answered \subseteq Reviewable(Unsure(sure))
    /\ Replace(answered, "review")
    /\ sure' = sure \cup answered
    /\ judge_name' = judge_name \cup {"review"}
    /\ task' = [task EXCEPT !.stage = "answered"]
    /\ UNCHANGED <<clock, retry_at, trusted, failed_at>>

ReviewFails ==
    /\ task.stage = "review"
    /\ task' = [task EXCEPT !.stage = "answered"]
    /\ UNCHANGED <<clock, retry_at, standing, sure, replaced, judge_name,
                   trusted, failed_at>>

\* Time passes between tasks and in a call until the client gives it up.  A
\* review that refreshes its login is not given up meanwhile.
Tick ==
    /\ clock < MaxClock
    /\ task.stage \in Sources =>
         clock < task.ends + (IF task.stage = "review" THEN LoginTime ELSE 0)
    /\ clock' = clock + 1
    /\ UNCHANGED <<retry_at, task, standing, sure, replaced, judge_name,
                   trusted, failed_at>>

Ends == FirstFails \/ SecondFails \/ ReviewFails

JudgeNext ==
    \/ \E urgent, escalating \in BOOLEAN, time \in Deadlines :
          BeginTask(urgent, escalating, time)
    \/ AskFirst
    \/ \E settled \in SUBSET Questions :
          \/ FirstAnswers(settled) \/ SecondAnswers(settled)
          \/ ReviewAnswers(settled)
    \/ Ends
    \/ Tick

JudgeSpec == JudgeInit /\ [][JudgeNext]_judgeVars

\* A worker whose thread runs asks, and every call it makes has a timeout.
JudgeFairness == WF_judgeVars(AskFirst) /\ WF_judgeVars(Ends)

-----------------------------------------------------------------------------
(* Properties.                                                               *)

Escalated == task.stage \in {"second", "review", "answered"}

\* Escalation only adds: every question the first judge answered keeps an
\* answer through every failed or late step, and those it was sure of keep
\* its own (docs/judges.md: a failed, invalid or late step keeps the answers
\* already in hand).
AnswersInHand ==
    Escalated => \A q \in Questions :
        /\ standing[q] # Nobody
        /\ q \in trusted => standing[q] \in Firsts

\* The record keeps the first judge's answer of every question that another
\* judge's answer stands for, and only of those, though a review may replace
\* the second judge's.
FirstOnRecord ==
    \A q \in Questions :
        IF standing[q] \in {"second", "review"}
        THEN replaced[q] \in Firsts ELSE replaced[q] = Nobody

\* Who is on record as having answered includes everyone whose answer stands.
RecordNamesJudges ==
    task.stage = "answered" => \A q \in Questions : standing[q] \in judge_name

\* A step of an escalation, answered or given up, ends a round reserve before
\* the deadline of the signal, so what is in hand reaches the engine in time.
RoundReserved ==
    [][task.stage \in {"second", "review"} /\ task'.stage = "answered"
         => clock <= task.deadline - RoundReserve]_judgeVars

\* The first judge takes one timeout, or two where the primary fails first,
\* and never longer than the deadline.
FirstBounded ==
    task.stage \in Firsts =>
        /\ clock <= task.began
                      + (IF task.stage = "primary" THEN 1 ELSE 2) * Timeout
        /\ clock <= Max({task.began, task.deadline})

\* Permission requests are never escalated.
UrgentAlone ==
    task.urgent => \A q \in Questions : standing[q] \notin {"second", "review"}

AnswersKept ==
    /\ JudgeTypeOK /\ AnswersInHand /\ FirstOnRecord /\ RecordNamesJudges
    /\ FirstBounded /\ UrgentAlone

\* A worker is never kept for good: whatever its judges do, its task is
\* answered or given up.
AskEnds == Busy ~> ~Busy
=============================================================================
