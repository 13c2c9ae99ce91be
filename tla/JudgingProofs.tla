--------------------------- MODULE JudgingProofs ----------------------------
(* Proofs about the parts that judge: the answers in hand are kept and in     *)
(* time (Judge), what a capability acts on was earned (Judgments), and the    *)
(* login of System Two survives what workers, the CLI, the user and the clock *)
(* do beside each other (Login), and what a judge is shown of an agent is its *)
(* own activity, redacted as the lists say (Activity), for any number of each.*)
EXTENDS Judge, Judgments, Login, Activity, SequenceTheorems, WellFoundedInduction, TLAPS

-----------------------------------------------------------------------------
(* System One judges: the inductive invariant.                               *)

\* Until the first judge answers there is no answer to any question.
AskedInv ==
    task.stage \in Firsts \cup {"asked"} =>
        \A q \in Questions : standing[q] = Nobody /\ replaced[q] = Nobody

\* From then on every question has an answer of a judge on record; what the
\* first judge was sure of is not in doubt, and nobody else was asked of it.
\* Nothing urgent is asked again.
EscalationInv ==
    /\ Escalated =>
         /\ trusted \subseteq sure
         /\ \A q \in Questions : /\ standing[q] # Nobody /\ standing[q] \in judge_name
                                 /\ q \in trusted => standing[q] \in Firsts
    /\ task.stage \in {"second", "review"} => ~task.urgent

\* The call under way ends by the deadline, and in time for the calls before.
TimedInv ==
    task.stage \in Firsts =>
        /\ clock >= task.began /\ task.ends <= task.deadline
        /\ task.ends <= task.began + (IF task.stage = "primary" THEN 1 ELSE 2) * Timeout
        /\ clock <= task.began + (IF task.stage = "primary" THEN 1 ELSE 2) * Timeout
        /\ clock = task.began \/ clock <= task.deadline

JudgeInv ==
    /\ JudgeTypeOK /\ AskedInv /\ EscalationInv /\ TimedInv /\ FirstOnRecord
    /\ UrgentAlone

-----------------------------------------------------------------------------

LEMMA MinOfTwo ==
    ASSUME NEW a \in Int, NEW b \in Int
    PROVE  Min({a, b}) \in Int /\ Min({a, b}) <= a /\ Min({a, b}) <= b
<1>1. \E x \in {a, b} : \A y \in {a, b} : x =< y
  <2>1. CASE a <= b
    BY <2>1
  <2>2. CASE ~(a <= b)
    BY <2>2
  <2>3. QED
    BY <2>1, <2>2
<1>2. Min({a, b}) \in {a, b} /\ \A y \in {a, b} : Min({a, b}) <= y
  BY <1>1 DEF Min
<1>3. QED
  BY <1>2

LEMMA MaxOfTwo ==
    ASSUME NEW a \in Int, NEW b \in Int
    PROVE  Max({a, b}) \in Int /\ Max({a, b}) >= a /\ Max({a, b}) >= b
<1>1. \E x \in {a, b} : \A y \in {a, b} : x >= y
  <2>1. CASE a >= b
    BY <2>1
  <2>2. CASE ~(a >= b)
    BY <2>2
  <2>3. QED
    BY <2>1, <2>2
<1>2. Max({a, b}) \in {a, b} /\ \A y \in {a, b} : Max({a, b}) >= y
  BY <1>1 DEF Max
<1>3. QED
  BY <1>2

LEMMA JudgeConstants ==
    /\ Timeout \in Nat /\ Timeout > 0 /\ RetryAfter \in Nat /\ RoundReserve \in Nat
    /\ LoginTime \in Nat /\ MaxClock \in Nat /\ Deadlines \subseteq Nat
    /\ Questions \subseteq Nat \ {0} /\ WithFallback \in BOOLEAN
  BY JudgeAssumption

\* A call has its stage and ends by its deadline, and by its own timeout.
LEMMA TurnIs ==
    ASSUME JudgeTypeOK, NEW stage \in JudgeStages, NEW by \in Int
    PROVE  /\ Turn(stage, by) \in Task /\ Turn(stage, by).stage = stage
           /\ Turn(stage, by).urgent = task.urgent
           /\ Turn(stage, by).deadline = task.deadline
           /\ Turn(stage, by).began = task.began
           /\ Turn(stage, by).ends <= by
           /\ Turn(stage, by).ends <= clock + Timeout
<1>1. task \in Task /\ clock \in Int /\ clock + Timeout \in Int
  BY JudgeConstants DEF JudgeTypeOK
<1> DEFINE ends == Min({by, clock + Timeout})
<1>2. ends \in Int /\ ends <= by /\ ends <= clock + Timeout
  BY <1>1, MinOfTwo
<1>3. Turn(stage, by) = [task EXCEPT !.stage = stage, !.ends = ends]
  BY DEF Turn
<1> HIDE DEF ends
<1>4. QED
  BY <1>1, <1>2, <1>3 DEF Task

\* After the second judge comes a review, or the answers are given.
LEMMA AfterSecondIs ==
    ASSUME JudgeTypeOK, NEW settled
    PROVE  /\ AfterSecond(settled) \in Task
           /\ AfterSecond(settled).stage \in {"review", "answered"}
           /\ AfterSecond(settled).urgent = task.urgent
<1>1. task \in Task /\ Before \in Int
  BY JudgeConstants DEF JudgeTypeOK, Before, Task
<1>2. [task EXCEPT !.stage = "answered"] \in Task
  BY <1>1 DEF Task, JudgeStages
<1>3. [task EXCEPT !.stage = "review", !.ends = Before] \in Task
  BY <1>1 DEF Task, JudgeStages, Sources
<1>4. QED
  BY <1>1, <1>2, <1>3 DEF AfterSecond, Task

LEMMA AfterFirstIs ==
    ASSUME JudgeTypeOK, NEW settled
    PROVE  /\ AfterFirst(settled) \in Task
           /\ AfterFirst(settled).stage \in {"second", "review", "answered"}
           /\ AfterFirst(settled).urgent = task.urgent
           /\ AfterFirst(settled).stage # "answered" => ~task.urgent
<1>1. task \in Task /\ Before \in Int
  BY JudgeConstants DEF JudgeTypeOK, Before, Task
<1>2. CASE ~task.escalating \/ task.urgent
  <2>1. AfterFirst(settled) = [task EXCEPT !.stage = "answered"]
    BY <1>2 DEF AfterFirst
  <2>2. QED
    BY <1>1, <2>1 DEF Task, JudgeStages
<1>3. CASE ~(~task.escalating \/ task.urgent)
  <2>1. AfterFirst(settled) \in {Turn("second", Before), AfterSecond(settled)}
    BY <1>3 DEF AfterFirst
  <2>2. "second" \in JudgeStages
    BY DEF JudgeStages, Sources
  <2>3. QED
    BY <1>1, <1>3, <2>1, <2>2, TurnIs, AfterSecondIs
<1>4. QED
  BY <1>2, <1>3

\* Another judge's answers take the place of answers there are.
LEMMA ReplaceKeeps ==
    ASSUME JudgeTypeOK, FirstOnRecord, NEW questions \in SUBSET Questions,
           NEW source \in {"second", "review"}, Replace(questions, source),
           \A q \in Questions : standing[q] # Nobody
    PROVE  /\ standing' \in [Questions -> Sources \cup {Nobody}]
           /\ replaced' \in [Questions -> Sources \cup {Nobody}]
           /\ FirstOnRecord'
           /\ \A q \in Questions :
                standing'[q] = IF q \in questions THEN source ELSE standing[q]
<1>1. /\ standing \in [Questions -> Sources \cup {Nobody}]
      /\ replaced \in [Questions -> Sources \cup {Nobody}]
      /\ source \in Sources /\ source # Nobody
  BY DEF JudgeTypeOK, Sources, Nobody
<1>2. /\ standing' \in [Questions -> Sources \cup {Nobody}]
      /\ replaced' \in [Questions -> Sources \cup {Nobody}]
  BY <1>1 DEF Replace
<1>3. \A q \in Questions :
        standing'[q] = IF q \in questions THEN source ELSE standing[q]
  BY DEF Replace
<1>4. ASSUME NEW q \in Questions
      PROVE  IF standing'[q] \in {"second", "review"}
             THEN replaced'[q] \in Firsts ELSE replaced'[q] = Nobody
  <2>1. replaced'[q] = IF q \in questions /\ replaced[q] = Nobody
                       THEN standing[q] ELSE replaced[q]
    BY DEF Replace
  <2>2. CASE q \notin questions
    BY <1>3, <2>1, <2>2 DEF FirstOnRecord
  <2>3. CASE q \in questions
    <3>1. standing[q] \in Firsts \/ standing[q] \in {"second", "review"}
      BY <1>1 DEF Sources
    <3>2. CASE standing[q] \in {"second", "review"}
      BY <1>3, <2>1, <2>3, <3>2 DEF FirstOnRecord, Firsts, Nobody
    <3>3. CASE standing[q] \in Firsts
      BY <1>3, <2>1, <2>3, <3>3 DEF FirstOnRecord, Firsts, Nobody
    <3>4. QED
      BY <3>1, <3>2, <3>3
  <2>4. QED
    BY <2>2, <2>3
<1>5. QED
  BY <1>2, <1>3, <1>4 DEF FirstOnRecord

-----------------------------------------------------------------------------

LEMMA JudgeStart == JudgeInit => JudgeInv
<1> SUFFICES ASSUME JudgeInit PROVE JudgeInv
  OBVIOUS
<1>1. task \in Task /\ task.stage = "idle" /\ ~task.urgent
  BY DEF JudgeInit, Task, JudgeStages
<1>2. 1 \in 0..MaxClock
  BY JudgeAssumption
<1>3. JudgeTypeOK
  BY <1>1, <1>2 DEF JudgeInit, JudgeTypeOK, Sources, Firsts
<1>4. AskedInv /\ TimedInv
  BY <1>1 DEF AskedInv, TimedInv, Firsts
<1>5. EscalationInv
  BY <1>1 DEF EscalationInv, Escalated
<1>6. FirstOnRecord /\ UrgentAlone
  BY DEF JudgeInit, FirstOnRecord, UrgentAlone, Nobody
<1>7. QED
  BY <1>3, <1>4, <1>5, <1>6 DEF JudgeInv

LEMMA BeginKeeps ==
    ASSUME JudgeInv, NEW urgent \in BOOLEAN, NEW escalating \in BOOLEAN,
           NEW time \in Deadlines, BeginTask(urgent, escalating, time)
    PROVE  JudgeInv'
<1>1. JudgeTypeOK
  BY DEF JudgeInv
<1> PICK stage, deadline : /\ stage = IF time = 0 THEN "failed" ELSE "asked"
                           /\ deadline = clock + time
  OBVIOUS
<1>2. deadline \in Nat
  BY <1>1, JudgeConstants DEF JudgeTypeOK
<1>3. task' = [task EXCEPT !.stage = stage, !.urgent = urgent, !.escalating = escalating,
                           !.deadline = deadline]
  BY DEF BeginTask
<1>4. task \in Task /\ stage \in JudgeStages
  BY <1>1 DEF JudgeTypeOK, JudgeStages
<1>5. task' \in Task /\ task'.stage \in {"failed", "asked"}
  BY <1>2, <1>3, <1>4 DEF Task
<1>6. JudgeTypeOK'
  BY <1>1, <1>5 DEF JudgeTypeOK, BeginTask
<1>7. AskedInv'
  BY DEF AskedInv, BeginTask
<1>8. EscalationInv' /\ TimedInv'
  BY <1>5 DEF EscalationInv, TimedInv, Escalated, Firsts
<1>9. FirstOnRecord' /\ UrgentAlone'
  BY DEF FirstOnRecord, UrgentAlone, BeginTask, Nobody
<1>10. QED
  BY <1>6, <1>7, <1>8, <1>9 DEF JudgeInv

\* Steps before there is an answer, or none of this task will come.
LEMMA EarlyKeeps ==
    ASSUME JudgeInv, task' \in Task, task'.urgent = task.urgent,
           task.stage \in Firsts \cup {"asked"},
           task'.stage \in Firsts \cup {"failed"}, TimedInv',
           retry_at' \in Nat, failed_at' \in Nat, judge_name' \in SUBSET Sources,
           UNCHANGED <<clock, standing, sure, replaced, trusted>>
    PROVE  JudgeInv'
<1>1. JudgeTypeOK'
  BY DEF JudgeInv, JudgeTypeOK
<1>2. AskedInv'
  BY DEF JudgeInv, AskedInv
<1>3. EscalationInv'
  BY DEF EscalationInv, Escalated, Firsts
<1>4. FirstOnRecord' /\ UrgentAlone'
  BY DEF JudgeInv, FirstOnRecord, UrgentAlone
<1>5. QED
  BY <1>1, <1>2, <1>3, <1>4 DEF JudgeInv

LEMMA AskKeeps ==
    ASSUME JudgeInv, AskFirst PROVE JudgeInv'
<1>1. JudgeTypeOK /\ task.stage = "asked" /\ task \in Task /\ clock \in Nat
  BY DEF JudgeInv, AskFirst, JudgeTypeOK
<1> PICK first : first = IF ~WithFallback \/ clock >= retry_at THEN "primary" ELSE "fallback"
  OBVIOUS
<1> PICK turn : turn = Turn(first, task.deadline)
  OBVIOUS
<1>2. first \in Firsts /\ first \in JudgeStages /\ task.deadline \in Int
  BY <1>1 DEF Firsts, JudgeStages, Sources, Task
<1>3. /\ turn \in Task /\ turn.stage = first /\ turn.urgent = task.urgent
      /\ turn.deadline = task.deadline /\ turn.ends <= task.deadline
      /\ turn.ends <= clock + Timeout
  BY <1>1, <1>2, TurnIs
<1>4. task' = [turn EXCEPT !.began = clock]
  BY DEF AskFirst
<1>5. /\ task' \in Task /\ task'.stage = first /\ task'.urgent = task.urgent
      /\ task'.deadline = task.deadline /\ task'.ends = turn.ends /\ task'.began = clock
  BY <1>1, <1>3, <1>4 DEF Task
<1>6. UNCHANGED <<clock, retry_at, standing, sure, replaced, judge_name, trusted, failed_at>>
  BY DEF AskFirst
<1>7. TimedInv'
  <2>1. turn.ends \in Int
    BY <1>3 DEF Task
  <2>2. QED
    BY <1>1, <1>3, <1>5, <1>6, <2>1, JudgeConstants DEF TimedInv
<1>8. QED
  BY <1>1, <1>2, <1>5, <1>6, <1>7, EarlyKeeps DEF JudgeTypeOK

LEMMA FirstFailsKeeps ==
    ASSUME JudgeInv, FirstFails PROVE JudgeInv'
<1>1. /\ JudgeTypeOK /\ TimedInv /\ task.stage \in Firsts /\ task \in Task /\ clock \in Nat
      /\ retry_at \in Nat /\ failed_at \in Nat
  BY DEF JudgeInv, FirstFails, JudgeTypeOK
<1>2. UNCHANGED <<clock, standing, sure, replaced, trusted>>
  BY DEF FirstFails
<1>3. failed_at' \in Nat
  BY <1>1 DEF FirstFails
<1>4. judge_name' \in SUBSET Sources
  BY <1>1 DEF FirstFails, JudgeTypeOK, Sources
<1>5. CASE task.stage = "primary" /\ WithFallback
  <2>1. retry_at' = clock + RetryAfter /\ task' = Turn("fallback", task.deadline)
    BY <1>5 DEF FirstFails
  <2>2. retry_at' \in Nat
    BY <1>1, <2>1, JudgeConstants
  <2>3. "fallback" \in JudgeStages /\ task.deadline \in Int
    BY <1>1 DEF JudgeStages, Sources, Firsts, Task
  <2>4. /\ task' \in Task /\ task'.stage = "fallback" /\ task'.urgent = task.urgent
        /\ task'.deadline = task.deadline /\ task'.began = task.began
        /\ task'.ends <= task.deadline /\ task'.ends <= clock + Timeout
    BY <1>1, <2>1, <2>3, TurnIs
  <2>5. TimedInv'
    <3>1. task'.ends \in Int /\ task.began \in Nat /\ task.deadline \in Nat
      BY <1>1, <2>4 DEF Task
    <3>2. /\ clock >= task.began /\ clock <= task.began + Timeout
          /\ clock = task.began \/ clock <= task.deadline
      BY <1>1, <1>5, <3>1, JudgeConstants DEF TimedInv
    <3>3. QED
      BY <1>1, <1>2, <2>4, <3>1, <3>2, JudgeConstants DEF TimedInv
  <2>6. QED
    BY <1>1, <1>2, <1>3, <1>4, <2>2, <2>4, <2>5, EarlyKeeps DEF Firsts
<1>6. CASE ~(task.stage = "primary" /\ WithFallback)
  <2>1. retry_at' = retry_at /\ task' = [task EXCEPT !.stage = "failed"]
    BY <1>6 DEF FirstFails
  <2>2. task' \in Task /\ task'.stage = "failed" /\ task'.urgent = task.urgent
    BY <1>1, <2>1 DEF Task, JudgeStages
  <2>3. TimedInv'
    BY <2>2 DEF TimedInv, Firsts
  <2>4. QED
    BY <1>1, <1>2, <1>3, <1>4, <2>1, <2>2, <2>3, EarlyKeeps
<1>7. QED
  BY <1>5, <1>6

LEMMA FirstAnswersKeeps ==
    ASSUME JudgeInv, NEW settled \in SUBSET Questions, FirstAnswers(settled)
    PROVE  JudgeInv'
<1>1. /\ JudgeTypeOK /\ AskedInv /\ task.stage \in Firsts /\ retry_at \in Nat
  BY DEF JudgeInv, FirstAnswers, JudgeTypeOK
<1>2. /\ task' = AfterFirst(settled)
      /\ standing' = [q \in Questions |-> task.stage]
      /\ sure' = settled /\ trusted' = settled /\ judge_name' = {task.stage}
      /\ retry_at' \in {0, retry_at}
      /\ UNCHANGED <<clock, replaced, failed_at>>
  BY DEF FirstAnswers
<1>3. /\ task' \in Task /\ task'.stage \in {"second", "review", "answered"}
      /\ task'.stage # "answered" => ~task'.urgent
  BY <1>1, <1>2, AfterFirstIs
<1>4. task.stage \in Sources /\ task.stage # Nobody /\ task.stage \notin {"second", "review"}
  BY <1>1 DEF Sources, Firsts, Nobody
<1>5. JudgeTypeOK'
  BY <1>1, <1>2, <1>3, <1>4 DEF JudgeTypeOK
<1>6. AskedInv' /\ TimedInv'
  BY <1>3 DEF AskedInv, TimedInv, Firsts
<1>7. EscalationInv'
  BY <1>1, <1>2, <1>3, <1>4 DEF EscalationInv
<1>8. FirstOnRecord' /\ UrgentAlone'
  BY <1>1, <1>2, <1>4 DEF FirstOnRecord, UrgentAlone, AskedInv
<1>9. QED
  BY <1>5, <1>6, <1>7, <1>8 DEF JudgeInv

\* The answers of a judge that was asked again replace what was in doubt.
LEMMA BetterKeeps ==
    ASSUME JudgeInv, NEW questions \in SUBSET (Questions \ sure),
           NEW source \in {"second", "review"}, task.stage \in {"second", "review"},
           Replace(questions, source), judge_name' = judge_name \cup {source},
           sure' \in SUBSET Questions, sure \subseteq sure',
           task' \in Task, task'.stage \in {"review", "answered"},
           task'.urgent = task.urgent,
           UNCHANGED <<clock, retry_at, trusted, failed_at>>
    PROVE  JudgeInv'
<1>1. /\ JudgeTypeOK /\ EscalationInv /\ FirstOnRecord /\ Escalated /\ ~task.urgent
  BY DEF JudgeInv, Escalated, EscalationInv
<1>2. \A q \in Questions : standing[q] # Nobody
  BY <1>1 DEF EscalationInv
<1>3. /\ standing' \in [Questions -> Sources \cup {Nobody}]
      /\ replaced' \in [Questions -> Sources \cup {Nobody}]
      /\ FirstOnRecord'
      /\ \A q \in Questions :
           standing'[q] = IF q \in questions THEN source ELSE standing[q]
  BY <1>1, <1>2, ReplaceKeeps
<1>4. JudgeTypeOK'
  BY <1>1, <1>3 DEF JudgeTypeOK, Sources
<1>5. AskedInv' /\ TimedInv'
  BY DEF AskedInv, TimedInv, Firsts
<1>6. EscalationInv'
  <2>1. trusted' \subseteq sure'
    BY <1>1 DEF EscalationInv
  <2>2. source # Nobody
    BY DEF Nobody
  <2>3. \A q \in Questions :
          /\ standing'[q] # Nobody /\ standing'[q] \in judge_name'
          /\ q \in trusted' => standing'[q] \in Firsts
    BY <1>1, <1>3, <2>2 DEF EscalationInv
  <2>4. QED
    BY <1>1, <2>1, <2>3 DEF EscalationInv
<1>7. UrgentAlone'
  BY <1>1 DEF UrgentAlone
<1>8. QED
  BY <1>3, <1>4, <1>5, <1>6, <1>7 DEF JudgeInv

LEMMA SecondAnswersKeeps ==
    ASSUME JudgeInv, NEW settled \in SUBSET Questions, SecondAnswers(settled)
    PROVE  JudgeInv'
<1>1. JudgeTypeOK /\ task.stage = "second" /\ sure \subseteq Questions
  BY DEF JudgeInv, SecondAnswers, JudgeTypeOK
<1>2. Unsure(sure) \in SUBSET (Questions \ sure)
  BY DEF Unsure
<1>3. /\ task' \in Task /\ task'.stage \in {"review", "answered"}
      /\ task'.urgent = task.urgent
  BY <1>1, AfterSecondIs DEF SecondAnswers
<1>4. QED
  BY <1>1, <1>2, <1>3, BetterKeeps DEF SecondAnswers

LEMMA ReviewAnswersKeeps ==
    ASSUME JudgeInv, NEW answered \in SUBSET Questions, ReviewAnswers(answered)
    PROVE  JudgeInv'
<1>1. /\ JudgeTypeOK /\ task.stage = "review" /\ sure \subseteq Questions /\ task \in Task
  BY DEF JudgeInv, ReviewAnswers, JudgeTypeOK
<1>2. answered \in SUBSET (Questions \ sure)
  BY DEF ReviewAnswers, Reviewable, Unsure
<1>3. /\ task' \in Task /\ task'.stage = "answered" /\ task'.urgent = task.urgent
  BY <1>1 DEF ReviewAnswers, Task, JudgeStages
<1>4. QED
  BY <1>1, <1>2, <1>3, BetterKeeps DEF ReviewAnswers

\* A judge that was asked again fails: the answers in hand stand.
LEMMA LateFailsKeep ==
    ASSUME JudgeInv, SecondFails \/ ReviewFails PROVE JudgeInv'
<1>1. /\ JudgeTypeOK /\ EscalationInv /\ task.stage \in {"second", "review"}
      /\ task \in Task /\ FirstOnRecord /\ UrgentAlone
  BY DEF JudgeInv, SecondFails, ReviewFails, JudgeTypeOK
<1>2. UNCHANGED <<clock, retry_at, standing, sure, replaced, judge_name, trusted, failed_at>>
  BY DEF SecondFails, ReviewFails
<1>3. /\ task' \in Task /\ task'.stage \in {"review", "answered"}
      /\ task'.urgent = task.urgent
  <2>1. CASE SecondFails
    BY <1>1, <2>1, AfterSecondIs DEF SecondFails
  <2>2. CASE ReviewFails
    BY <1>1, <2>2 DEF ReviewFails, Task, JudgeStages
  <2>3. QED
    BY <2>1, <2>2
<1>4. JudgeTypeOK'
  BY <1>1, <1>2, <1>3 DEF JudgeTypeOK
<1>5. AskedInv' /\ TimedInv'
  BY <1>3 DEF AskedInv, TimedInv, Firsts
<1>6. EscalationInv' /\ FirstOnRecord' /\ UrgentAlone'
  BY <1>1, <1>2, <1>3 DEF EscalationInv, Escalated, FirstOnRecord, UrgentAlone
<1>7. QED
  BY <1>4, <1>5, <1>6 DEF JudgeInv

LEMMA TickKeeps ==
    ASSUME JudgeInv, Tick PROVE JudgeInv'
<1>1. JudgeTypeOK /\ TimedInv /\ task \in Task /\ clock \in Nat
  BY DEF JudgeInv, JudgeTypeOK
<1>2. /\ clock' = clock + 1 /\ clock < MaxClock
      /\ UNCHANGED <<retry_at, task, standing, sure, replaced, judge_name, trusted,
                     failed_at>>
  BY DEF Tick
<1>3. JudgeTypeOK'
  <2>1. clock' \in 0..MaxClock
    BY <1>1, <1>2, JudgeConstants
  <2>2. QED
    BY <1>1, <1>2, <2>1 DEF JudgeTypeOK
<1>4. TimedInv'
  <2> SUFFICES ASSUME task.stage \in Firsts PROVE TimedInv'
    BY <1>2 DEF TimedInv
  <2>1. task.ends \in Int /\ task.began \in Nat /\ task.deadline \in Nat
    BY <1>1 DEF Task
  <2>2. clock < task.ends
    BY <1>1, <2>1, JudgeConstants DEF Tick, Firsts, Sources
  <2> PICK most : most = task.began + (IF task.stage = "primary" THEN 1 ELSE 2) * Timeout
    OBVIOUS
  <2>3. most \in Int
    BY <2>1, JudgeConstants
  <2>4. task.ends <= most /\ task.ends <= task.deadline /\ clock >= task.began
    BY <1>1 DEF TimedInv
  <2>5. clock' <= most /\ clock' >= task.began /\ clock' <= task.deadline
    BY <1>1, <1>2, <2>1, <2>2, <2>3, <2>4
  <2>6. QED
    BY <1>2, <2>4, <2>5 DEF TimedInv
<1>5. AskedInv' /\ EscalationInv' /\ FirstOnRecord' /\ UrgentAlone'
  BY <1>2 DEF JudgeInv, AskedInv, EscalationInv, Escalated, FirstOnRecord, UrgentAlone
<1>6. QED
  BY <1>3, <1>4, <1>5 DEF JudgeInv

LEMMA JudgeInvariant == JudgeSpec => []JudgeInv
<1>1. JudgeInit => JudgeInv
  BY JudgeStart
<1>2. JudgeInv /\ [JudgeNext]_judgeVars => JudgeInv'
  <2> SUFFICES ASSUME JudgeInv, [JudgeNext]_judgeVars PROVE JudgeInv'
    OBVIOUS
  <2>1. CASE UNCHANGED judgeVars
    <3>1. JudgeTypeOK'
      BY <2>1 DEF JudgeInv, JudgeTypeOK, judgeVars
    <3>2. AskedInv' /\ EscalationInv' /\ TimedInv'
      BY <2>1 DEF JudgeInv, AskedInv, EscalationInv, Escalated, TimedInv, judgeVars
    <3>3. FirstOnRecord' /\ UrgentAlone'
      BY <2>1 DEF JudgeInv, FirstOnRecord, UrgentAlone, judgeVars
    <3>4. QED
      BY <3>1, <3>2, <3>3 DEF JudgeInv
  <2>2. CASE \E urgent, escalating \in BOOLEAN, time \in Deadlines :
               BeginTask(urgent, escalating, time)
    BY <2>2, BeginKeeps
  <2>3. CASE AskFirst
    BY <2>3, AskKeeps
  <2>4. CASE \E settled \in SUBSET Questions :
               \/ FirstAnswers(settled) \/ SecondAnswers(settled)
               \/ ReviewAnswers(settled)
    BY <2>4, FirstAnswersKeeps, SecondAnswersKeeps, ReviewAnswersKeeps
  <2>5. CASE Ends
    BY <2>5, FirstFailsKeeps, LateFailsKeep DEF Ends
  <2>6. CASE Tick
    BY <2>6, TickKeeps
  <2>7. QED
    BY <2>1, <2>2, <2>3, <2>4, <2>5, <2>6 DEF JudgeNext
<1>3. QED
  BY <1>1, <1>2, PTL DEF JudgeSpec

\* Answers in hand are kept through every failed, late or better step of an
\* escalation; those the first judge was sure of stay its own, the record keeps
\* the first answer and names everyone whose answer stands; the first judge
\* never takes longer than its timeouts and the deadline; and nothing urgent is
\* asked again: for any questions, timeouts and deadlines (escalation.rs,
\* judge.rs).
THEOREM AnswersStay == JudgeSpec => []AnswersKept
<1>1. JudgeInv => AnswersKept
  <2> SUFFICES ASSUME JudgeInv PROVE AnswersKept
    OBVIOUS
  <2>1. JudgeTypeOK /\ task \in Task /\ clock \in Nat
    BY DEF JudgeInv, JudgeTypeOK
  <2>2. AnswersInHand /\ RecordNamesJudges
    BY DEF JudgeInv, EscalationInv, Escalated, AnswersInHand, RecordNamesJudges
  <2>3. FirstBounded
    <3> SUFFICES ASSUME task.stage \in Firsts
                 PROVE  /\ clock <= task.began
                              + (IF task.stage = "primary" THEN 1 ELSE 2) * Timeout
                        /\ clock <= Max({task.began, task.deadline})
      BY DEF FirstBounded
    <3>1. task.began \in Int /\ task.deadline \in Int
      BY <2>1 DEF Task
    <3>2. /\ Max({task.began, task.deadline}) \in Int
          /\ Max({task.began, task.deadline}) >= task.began
          /\ Max({task.began, task.deadline}) >= task.deadline
      BY <3>1, MaxOfTwo
    <3> PICK most : most = Max({task.began, task.deadline})
      OBVIOUS
    <3>3. clock = task.began \/ clock <= task.deadline
      BY DEF JudgeInv, TimedInv
    <3>4. clock <= most
      BY <2>1, <3>1, <3>2, <3>3
    <3>5. QED
      BY <3>4 DEF JudgeInv, TimedInv
  <2>4. QED
    BY <2>2, <2>3 DEF JudgeInv, AnswersKept
<1>2. QED
  BY <1>1, JudgeInvariant, PTL

\* While a better judge is asked, there is a round left before the deadline: its
\* call ends by then, but for a review that refreshes its login.
ReserveInv ==
    task.stage \in {"second", "review"} =>
        /\ task.ends <= Before
        /\ clock <= Before + (IF task.stage = "review" THEN LoginTime ELSE 0)

\* What comes after an answer has a round left, if it began with one.
LEMMA AfterSecondReserves ==
    ASSUME JudgeTypeOK, NEW settled, clock' = clock,
           task' = AfterSecond(settled)
    PROVE  ReserveInv'
<1>1. task \in Task /\ clock \in Nat /\ Before \in Int
  BY JudgeConstants DEF JudgeTypeOK, Before, Task
<1>2. MinReview \in Nat /\ LoginTime \in Nat
  BY JudgeAssumption
<1>3. CASE task' = [task EXCEPT !.stage = "answered"]
  BY <1>1, <1>3 DEF ReserveInv, Task
<1>4. CASE /\ HasTime(MinReview)
           /\ task' = [task EXCEPT !.stage = "review", !.ends = Before]
  <2>1. task'.ends = Before /\ task'.deadline = task.deadline
    BY <1>1, <1>4 DEF Task
  <2>2. Before' = Before
    BY <2>1 DEF Before
  <2>3. clock <= Before
    BY <1>1, <1>2, <1>4 DEF HasTime
  <2>4. QED
    BY <1>1, <1>2, <2>1, <2>2, <2>3 DEF ReserveInv
<1>5. QED
  BY <1>3, <1>4 DEF AfterSecond

LEMMA AfterFirstReserves ==
    ASSUME JudgeTypeOK, NEW settled, clock' = clock,
           task' = AfterFirst(settled)
    PROVE  ReserveInv'
<1>1. task \in Task /\ clock \in Nat /\ Before \in Int /\ "second" \in JudgeStages
  BY JudgeConstants DEF JudgeTypeOK, Before, Task, JudgeStages, Sources
<1>2. MinSecond \in Nat /\ LoginTime \in Nat
  BY JudgeAssumption
<1>3. CASE task' = [task EXCEPT !.stage = "answered"]
  BY <1>1, <1>3 DEF ReserveInv, Task
<1>4. CASE HasTime(MinSecond) /\ task' = Turn("second", Before)
  <2>1. /\ task'.ends <= Before /\ task'.deadline = task.deadline
        /\ task'.stage = "second"
    BY <1>1, <1>4, TurnIs
  <2>2. Before' = Before
    BY <2>1 DEF Before
  <2>3. clock <= Before
    BY <1>1, <1>2, <1>4 DEF HasTime
  <2>4. QED
    BY <1>1, <1>2, <2>1, <2>2, <2>3 DEF ReserveInv
<1>5. CASE task' = AfterSecond(settled)
  BY <1>5, AfterSecondReserves
<1>6. QED
  BY <1>3, <1>4, <1>5 DEF AfterFirst

LEMMA ReserveKeeps ==
    ASSUME JudgeTypeOK, ReserveInv, [JudgeNext]_judgeVars
    PROVE  ReserveInv'
<1>1. task \in Task /\ clock \in Nat
  BY DEF JudgeTypeOK
<1>2. CASE task'.stage \notin {"second", "review"}
  BY <1>2 DEF ReserveInv
<1>3. CASE task' = task /\ clock' = clock
  BY <1>3 DEF ReserveInv, Before
<1>4. CASE \E settled \in SUBSET Questions : FirstAnswers(settled)
  BY <1>4, AfterFirstReserves DEF FirstAnswers
<1>5. CASE \/ SecondFails
           \/ \E settled \in SUBSET Questions : SecondAnswers(settled)
  BY <1>5, AfterSecondReserves DEF SecondFails, SecondAnswers
<1>6. CASE Tick
  <2> SUFFICES ASSUME task.stage \in {"second", "review"} PROVE ReserveInv'
    BY <1>6 DEF ReserveInv, Tick
  <2>1. /\ task' = task /\ clock' = clock + 1
        /\ clock < task.ends + (IF task.stage = "review" THEN LoginTime ELSE 0)
    BY <1>6 DEF Tick, Sources
  <2>2. Before' = Before /\ Before \in Int /\ task.ends \in Int
    BY <1>1, <2>1, JudgeConstants DEF Before, Task
  <2>3. QED
    BY <1>1, <2>1, <2>2, JudgeConstants DEF ReserveInv
<1>7. CASE \E settled \in SUBSET Questions : ReviewAnswers(settled)
  BY <1>1, <1>2, <1>7 DEF ReviewAnswers, Task
<1>8. CASE ReviewFails
  BY <1>1, <1>2, <1>8 DEF ReviewFails, Task
<1>9. CASE FirstFails
  <2>1. "fallback" \in JudgeStages /\ task.deadline \in Int
    BY <1>1 DEF JudgeStages, Sources, Firsts, Task
  <2>2. QED
    BY <1>1, <1>2, <1>9, <2>1, TurnIs DEF FirstFails, Task
<1>10. CASE AskFirst
  <2> DEFINE first == IF ~WithFallback \/ clock >= retry_at THEN "primary" ELSE "fallback"
  <2>1. first \in JudgeStages /\ task.deadline \in Int /\ first \notin {"second", "review"}
    BY <1>1 DEF JudgeStages, Sources, Firsts, Task
  <2>2. task' = [Turn(first, task.deadline) EXCEPT !.began = clock]
    BY <1>10 DEF AskFirst
  <2> HIDE DEF first
  <2>3. Turn(first, task.deadline) \in Task /\ Turn(first, task.deadline).stage = first
    BY <2>1, TurnIs
  <2>4. task'.stage = first
    BY <2>2, <2>3 DEF Task
  <2>5. QED
    BY <1>2, <2>1, <2>4
<1>11. CASE \E urgent, escalating \in BOOLEAN, time \in Deadlines :
              BeginTask(urgent, escalating, time)
  BY <1>1, <1>2, <1>11 DEF BeginTask, Task
<1>12. QED
  BY <1>3, <1>4, <1>5, <1>6, <1>7, <1>8, <1>9, <1>10, <1>11
     DEF JudgeNext, Ends, judgeVars

\* What a better judge answers, or fails to, is in hand a round before the
\* deadline of the signal, for any timeouts, reserve and deadlines
\* (escalation.rs, ROUND_RESERVE), as long as no review has to refresh its
\* login first.
THEOREM ReserveKept == LoginTime = 0 => (JudgeSpec => RoundReserved)
<1> SUFFICES ASSUME LoginTime = 0 PROVE JudgeSpec => RoundReserved
  OBVIOUS
<1>1. JudgeInit => JudgeTypeOK /\ ReserveInv
  BY JudgeStart DEF JudgeInv, JudgeInit, ReserveInv
<1>2. JudgeInv /\ ReserveInv /\ [JudgeNext]_judgeVars => ReserveInv'
  BY ReserveKeeps DEF JudgeInv
<1>3. JudgeInv /\ ReserveInv /\ [JudgeNext]_judgeVars =>
        [task.stage \in {"second", "review"} /\ task'.stage = "answered"
            => clock <= task.deadline - RoundReserve]_judgeVars
  <2> SUFFICES ASSUME JudgeInv, ReserveInv, task.stage \in {"second", "review"}
               PROVE  clock <= task.deadline - RoundReserve
    OBVIOUS
  <2>1. clock \in Nat /\ Before \in Int
    BY JudgeConstants DEF JudgeInv, JudgeTypeOK, Before, Task
  <2>2. clock <= Before
    BY <2>1 DEF ReserveInv
  <2>3. QED
    BY <2>2 DEF Before
<1>4. JudgeSpec => []ReserveInv
  BY <1>1, <1>2, JudgeInvariant, PTL DEF JudgeSpec
<1>5. QED
  BY <1>3, <1>4, JudgeInvariant, PTL DEF RoundReserved, JudgeSpec

-----------------------------------------------------------------------------
(* Judgments: the inductive invariant.                                       *)

Refusal(k, answers) == \E i \in DOMAIN answers : ~Holds(Steps[k][i], answers[i])

\* What a candidate waits for, or was found, follows from the answers it had.
CandidateEarned(k, state, answers, fell) ==
    \/ \E step \in 1..Len(Steps[k]) :
          /\ state = Asking(step) /\ Len(answers) = step - 1
          /\ ~Refusal(k, answers)
    \/ /\ state = Done(TRUE) /\ Len(answers) = Len(Steps[k])
       /\ ~Refusal(k, answers)
    \/ state = Done(FALSE) /\ (fell \/ Refusal(k, answers))

\* A screening asks once, in its first round; what is then reviewed was open.
ScreenEarned(state, answers) ==
    \/ state = Asking(1) /\ answers = << >> /\ round = 1
    \/ state = Reviewing /\ (answers # << >> => Screened(answers[1]) \in Escalation)

PendingInv ==
    round # 0 =>
        /\ verdict = Unheard
        /\ judge = [form |-> judge.form, asks |-> judge.asks]
        /\ judge.asks = [k \in DOMAIN judge.asks |-> judge.asks[k]]
        /\ \A k \in Candidates \ DOMAIN judge.asks : given[k] = << >>
        /\ judge.form = "candidates" =>
             \A k \in DOMAIN judge.asks :
                 CandidateEarned(k, judge.asks[k], given[k], failed)
        /\ judge.form = "screen" =>
             /\ DOMAIN judge.asks = {1} /\ reviewed = "none"
             /\ ScreenEarned(judge.asks[1], given[1])

JudgmentInv == VerdictEarned /\ PendingInv

-----------------------------------------------------------------------------
(* One candidate, one round.                                                 *)

LEMMA StatesDiffer ==
    /\ \A step : Asking(step).asks = "one" /\ Asking(step).step = step
    /\ \A value : Done(value).asks = "none" /\ Done(value).value = value
    /\ Reviewing.asks = "two"
  BY DEF Asking, Done, Reviewing

\* A candidate asks its next step, or has a value, and never System Two.
LEMMA EarnedStages ==
    ASSUME NEW k, NEW state, NEW answers, NEW fell, CandidateEarned(k, state, answers, fell)
    PROVE  state.asks \in {"one", "none"}
  BY StatesDiffer DEF CandidateEarned

\* An answer takes it to the next of its steps, or ends it.
LEMMA AnswerEarns ==
    ASSUME NEW k \in Candidates, NEW answers \in Seq(AnswersGiven), NEW fell,
           NEW state, CandidateEarned(k, state, answers, fell), state.asks = "one",
           NEW answer \in AnswersGiven, NEW reasoned
    PROVE  CandidateEarned(k, Stepped("candidates", k, state, answer, reasoned),
                           Append(answers, answer), fell)
<1>1. PICK step \in 1..Len(Steps[k]) :
        state = Asking(step) /\ Len(answers) = step - 1 /\ ~Refusal(k, answers)
  BY StatesDiffer DEF CandidateEarned
<1>2. Steps[k] \in Seq(AnswerRule)
  BY JudgmentsAssumption
<1> DEFINE more == Append(answers, answer)
<1>3. /\ Len(more) = step /\ more[step] = answer
      /\ \A i \in DOMAIN answers : i \in DOMAIN more /\ i # step /\ more[i] = answers[i]
      /\ \A i \in DOMAIN more : i \in DOMAIN answers \/ i = step
      /\ step \in DOMAIN more
  BY <1>1, <1>2
<1>4. Stepped("candidates", k, state, answer, reasoned) =
        IF Holds(Steps[k][step], answer) THEN StepFrom(k, step + 1) ELSE Done(FALSE)
  BY <1>1, StatesDiffer DEF Stepped
<1> HIDE DEF more
<1>5. CASE ~Holds(Steps[k][step], answer)
  <2>1. Refusal(k, more)
    BY <1>3, <1>5 DEF Refusal
  <2>2. QED
    BY <1>4, <1>5, <2>1 DEF CandidateEarned, more
<1>6. CASE Holds(Steps[k][step], answer)
  <2>1. ~Refusal(k, more)
    BY <1>1, <1>3, <1>6 DEF Refusal
  <2>2. CASE step = Len(Steps[k])
    <3>0. step + 1 > Len(Steps[k])
      BY <1>2, <2>2
    <3>1. Stepped("candidates", k, state, answer, reasoned) = Done(TRUE)
      BY <1>4, <1>6, <3>0 DEF StepFrom
    <3>2. QED
      BY <1>3, <2>1, <2>2, <3>1 DEF CandidateEarned, more
  <2>3. CASE step < Len(Steps[k])
    <3>1. /\ step + 1 \in 1..Len(Steps[k]) /\ (step + 1) - 1 = step
          /\ ~(step + 1 > Len(Steps[k]))
      BY <1>2, <2>3
    <3>2. Stepped("candidates", k, state, answer, reasoned) = Asking(step + 1)
      BY <1>4, <1>6, <3>1 DEF StepFrom
    <3>3. Len(more) = (step + 1) - 1
      BY <1>3, <3>1
    <3>4. QED
      BY <2>1, <3>1, <3>2, <3>3 DEF CandidateEarned, more
  <2>4. QED
    BY <1>2, <2>2, <2>3
<1>7. QED
  BY <1>5, <1>6

\* Without one it is turned down, and that a round failed is known.
LEMMA SilenceEarns ==
    ASSUME NEW k, NEW answers, NEW fell, NEW state,
           CandidateEarned(k, state, answers, fell), state.asks = "one", NEW reasoned
    PROVE  CandidateEarned(k, Stepped("candidates", k, state, NoAnswer, reasoned),
                           answers, TRUE)
<1>1. Stepped("candidates", k, state, NoAnswer, reasoned) = Done(FALSE)
  BY DEF Stepped, Holds
<1>2. QED
  BY <1>1 DEF CandidateEarned

\* One with a value keeps it.
LEMMA ValueStays ==
    ASSUME NEW k, NEW answers, NEW fell \in BOOLEAN, NEW falls \in BOOLEAN, fell => falls,
           NEW state, CandidateEarned(k, state, answers, fell), state.asks = "none",
           NEW answer, NEW reasoned
    PROVE  CandidateEarned(k, Stepped("candidates", k, state, answer, reasoned), answers,
                           falls)
<1>1. Stepped("candidates", k, state, answer, reasoned) = state
  BY DEF Stepped
<1>2. QED
  BY <1>1 DEF CandidateEarned

\* What is acted on: who was found by all of its steps.
LEMMA ValueEarned ==
    ASSUME NEW k, NEW state, NEW answers, NEW fell, CandidateEarned(k, state, answers, fell)
    PROVE  /\ SettledValue("candidates", state) =>
                Len(answers) = Len(Steps[k]) /\ ~Refusal(k, answers)
           /\ ~SettledValue("candidates", state) /\ state.asks = "none" =>
                fell \/ Refusal(k, answers)
<1>1. state.asks = "one" => SettledValue("candidates", state) = FALSE
  BY DEF SettledValue
<1>2. state.asks = "none" => SettledValue("candidates", state) = state.value
  BY DEF SettledValue
<1>3. QED
  BY <1>1, <1>2, StatesDiffer DEF CandidateEarned

-----------------------------------------------------------------------------
(* Every action.                                                             *)

LEMMA JudgmentConstants ==
    /\ MaxRounds \in Nat /\ MaxRounds > 0 /\ 0 \in 0..MaxRounds /\ 1 \in 1..MaxRounds
    /\ 1..MaxRounds \subseteq 0..MaxRounds
  BY JudgmentsAssumption

\* Nothing is acted on yet.
LEMMA UnheardKeeps ==
    ASSUME verdict = Unheard
    PROVE  HeldInFull /\ RefusedByAnswer /\ ReviewDecides /\ verdict.held = {}
  BY DEF HeldInFull, RefusedByAnswer, ReviewDecides, Unheard

LEMMA JudgmentStart == JudgmentInit => JudgmentInv
<1> SUFFICES ASSUME JudgmentInit PROVE JudgmentInv
  OBVIOUS
<1>1. round = 0 /\ judge = NoJudge /\ verdict = Unheard
  BY DEF JudgmentInit
<1>2. JudgmentTypeOK
  <2>1. \A k \in Candidates : given[k] \in Seq(AnswersGiven)
    BY DEF JudgmentInit
  <2>2. fallible \in BOOLEAN /\ failed \in BOOLEAN
    BY DEF JudgmentInit
  <2>3. QED
    BY <1>1, <2>1, <2>2, UnheardKeeps, JudgmentConstants DEF JudgmentTypeOK
<1>3. HeldInFull /\ RefusedByAnswer /\ ReviewDecides
  BY <1>1, UnheardKeeps
<1>4. QED
  BY <1>1, <1>2, <1>3 DEF JudgmentInv, VerdictEarned, PendingInv

LEMMA CancelKeeps ==
    ASSUME JudgmentInv, CancelJudging PROVE JudgmentInv'
<1>1. /\ round' = 0 /\ judge' = NoJudge
      /\ UNCHANGED <<fallible, failed, verdict, given, reviewed>>
  BY DEF CancelJudging
<1>2. JudgmentTypeOK'
  BY <1>1, JudgmentConstants DEF JudgmentInv, VerdictEarned, JudgmentTypeOK
<1>3. HeldInFull' /\ RefusedByAnswer' /\ ReviewDecides'
  BY <1>1 DEF JudgmentInv, VerdictEarned, HeldInFull, RefusedByAnswer, ReviewDecides, Refused
<1>4. QED
  BY <1>1, <1>2, <1>3 DEF JudgmentInv, VerdictEarned, PendingInv

\* A judgment that goes on: the round is counted, and nothing is acted on yet.
LEMMA AsksKeeps ==
    ASSUME round' \in 1..MaxRounds, verdict' = Unheard, judge'.form \in Forms,
           DOMAIN judge'.asks \in SUBSET Candidates,
           judge'.asks = [k \in DOMAIN judge'.asks |-> judge'.asks[k]],
           judge' = [form |-> judge'.form, asks |-> judge'.asks], Open(judge'.asks) # {},
           fallible' \in BOOLEAN, failed' \in BOOLEAN,
           \A k \in Candidates : given'[k] \in Seq(AnswersGiven),
           \A k \in Candidates \ DOMAIN judge'.asks : given'[k] = << >>,
           judge'.form = "candidates" =>
               \A k \in DOMAIN judge'.asks :
                   CandidateEarned(k, judge'.asks[k], given'[k], failed'),
           judge'.form = "screen" =>
               /\ DOMAIN judge'.asks = {1} /\ reviewed' = "none"
               /\ \/ judge'.asks[1] = Asking(1) /\ given'[1] = << >> /\ round' = 1
                  \/ /\ judge'.asks[1] = Reviewing
                     /\ given'[1] # << >> => Screened(given'[1][1]) \in Escalation
    PROVE  JudgmentInv'
<1>1. round' \in 0..MaxRounds /\ round' # 0
  BY JudgmentConstants
<1>2. judge' # NoJudge
  BY DEF NoJudge, Forms
<1>3. HeldInFull' /\ RefusedByAnswer' /\ ReviewDecides' /\ verdict'.held = {}
  BY DEF HeldInFull, RefusedByAnswer, ReviewDecides, Unheard
<1>4. JudgmentTypeOK'
  BY <1>1, <1>2, <1>3 DEF JudgmentTypeOK
<1>5. PendingInv'
  <2>1. judge'.form = "screen" => ScreenEarned(judge.asks[1], given[1])'
    BY DEF ScreenEarned
  <2>2. QED
    BY <2>1 DEF PendingInv
<1>6. QED
  BY <1>3, <1>4, <1>5 DEF JudgmentInv, VerdictEarned

LEMMA StartKeeps ==
    ASSUME JudgmentInv, NEW form \in Forms, NEW some \in SUBSET Candidates,
           NEW none_known \in BOOLEAN, StartJudging(form, some, none_known)
    PROVE  JudgmentInv'
<1> DEFINE asks == [k \in some |-> IF form = "screen" THEN Asking(1) ELSE StepFrom(k, 1)]
           j == [form |-> form, asks |-> asks]
<1>1. /\ IF Open(asks) = {} THEN ActOn(j, FALSE)
         ELSE judge' = j /\ round' = 1 /\ verdict' = Unheard
      /\ form = "screen" => some = {1}
      /\ fallible' = none_known /\ failed' = FALSE
      /\ given' = [k \in Candidates |-> << >>] /\ reviewed' = "none"
  BY DEF StartJudging
<1>2. \A k \in Candidates : given'[k] = << >> /\ given'[k] \in Seq(AnswersGiven)
  BY <1>1
<1>3. form = "candidates" =>
        \A k \in some : CandidateEarned(k, asks[k], << >>, FALSE)
  <2> SUFFICES ASSUME form = "candidates", NEW k \in some
               PROVE  CandidateEarned(k, StepFrom(k, 1), << >>, FALSE)
    OBVIOUS
  <2>1. Len(Steps[k]) \in Nat
    BY JudgmentsAssumption
  <2>2. ~Refusal(k, << >>) /\ Len(<< >>) = 0
    BY DEF Refusal
  <2>3. CASE Len(Steps[k]) = 0
    <3>1. 1 > Len(Steps[k])
      BY <2>3
    <3>2. StepFrom(k, 1) = Done(TRUE)
      BY <3>1 DEF StepFrom
    <3>3. QED
      BY <2>2, <2>3, <3>2 DEF CandidateEarned
  <2>4. CASE Len(Steps[k]) # 0
    <3>1. 1 \in 1..Len(Steps[k]) /\ ~(1 > Len(Steps[k])) /\ 1 - 1 = 0
      BY <2>1, <2>4
    <3>2. StepFrom(k, 1) = Asking(1)
      BY <3>1 DEF StepFrom
    <3>3. QED
      BY <2>2, <3>1, <3>2 DEF CandidateEarned
  <2>5. QED
    BY <2>3, <2>4
<1>4. form = "screen" => some = {1} /\ asks[1] = Asking(1)
  BY <1>1
<1> HIDE DEF asks
<1>5. asks = [k \in some |-> asks[k]] /\ DOMAIN asks = some
  BY DEF asks
<1>6. CASE Open(asks) # {}
  <2>1. judge' = j /\ round' = 1 /\ verdict' = Unheard
    BY <1>1, <1>6
  <2>2. form = "candidates" =>
          \A k \in some : CandidateEarned(k, asks[k], given'[k], failed')
    BY <1>1, <1>2, <1>3
  <2>3. form = "screen" => /\ some = {1} /\ reviewed' = "none"
                           /\ asks[1] = Asking(1) /\ given'[1] = << >> /\ round' = 1
    BY <1>1, <1>2, <1>4, <2>1
  <2>4. /\ round' \in 1..MaxRounds /\ fallible' \in BOOLEAN /\ failed' \in BOOLEAN
    BY <1>1, <2>1, JudgmentConstants
  <2>5. judge' = [form |-> form, asks |-> asks] /\ asks = [k \in some |-> asks[k]]
    BY <1>5, <2>1
  <2>6. /\ \A k \in Candidates : given'[k] \in Seq(AnswersGiven)
        /\ \A k \in Candidates \ some : given'[k] = << >>
    BY <1>2
  <2>7. judge'.form = form /\ judge'.asks = asks /\ DOMAIN judge'.asks = some
    BY <1>5, <2>1
  <2> HIDE DEF j
  <2>8. QED
    BY <1>6, <2>1, <2>2, <2>3, <2>4, <2>5, <2>6, <2>7, AsksKeeps
<1>7. CASE Open(asks) = {}
  <2>1. /\ round' = 0 /\ judge' = NoJudge
        /\ verdict'.held = HeldOf(j) /\ verdict'.form = form /\ ~verdict'.none
    BY <1>1, <1>7 DEF ActOn
  <2>2. \A k \in some : asks[k].asks = "none"
    BY <1>5, <1>7 DEF Open
  <2>3. form = "candidates"
    BY <1>4, <2>2, StatesDiffer DEF Forms
  <2>4. /\ HeldOf(j) \subseteq some
        /\ \A k \in HeldOf(j) : SettledValue("candidates", asks[k])
    BY <1>5, <2>3 DEF HeldOf
  <2>5. \A k \in HeldOf(j) : Len(<< >>) = Len(Steps[k]) /\ ~Refusal(k, << >>)
    BY <1>3, <2>3, <2>4, ValueEarned
  <2>6. HeldInFull'
    BY <1>2, <2>1, <2>4, <2>5 DEF HeldInFull, Refused, Refusal
  <2>7. RefusedByAnswer' /\ ReviewDecides'
    BY <1>2, <2>1, <2>3 DEF RefusedByAnswer, ReviewDecides
  <2>8. JudgmentTypeOK'
    BY <1>1, <1>2, <2>1, <2>4, JudgmentConstants DEF JudgmentTypeOK
  <2>9. QED
    BY <2>1, <2>6, <2>7, <2>8 DEF JudgmentInv, VerdictEarned, PendingInv
<1>8. QED
  BY <1>6, <1>7

\* What a round makes of every candidate.
LEMMA RoundSteps ==
    ASSUME PendingInv, round # 0, NEW answers, NEW reasoned
    PROVE  LET next == AllStepped(answers, reasoned)
               asks == judge.asks
           IN  /\ next = [form |-> judge.form, asks |-> next.asks]
               /\ next.asks = [k \in DOMAIN asks |-> next.asks[k]]
               /\ \A k \in DOMAIN asks :
                    next.asks[k] =
                      Stepped(judge.form, k, asks[k],
                              IF k \in DOMAIN answers THEN answers[k] ELSE NoAnswer,
                              reasoned)
<1> PICK form, asks : form = judge.form /\ asks = judge.asks
  OBVIOUS
<1>1. judge = [form |-> form, asks |-> asks]
  BY DEF PendingInv
<1> DEFINE stepped == [k \in DOMAIN asks |->
                         Stepped(form, k, asks[k],
                                 IF k \in DOMAIN answers THEN answers[k] ELSE NoAnswer,
                                 reasoned)]
<1>2. AllStepped(answers, reasoned) = [judge EXCEPT !.asks = stepped]
  BY DEF AllStepped
<1>3. stepped = [k \in DOMAIN asks |-> stepped[k]]
  OBVIOUS
<1>4. \A k \in DOMAIN asks :
        stepped[k] = Stepped(form, k, asks[k],
                             IF k \in DOMAIN answers THEN answers[k] ELSE NoAnswer,
                             reasoned)
  OBVIOUS
<1> HIDE DEF stepped
<1>5. AllStepped(answers, reasoned) = [form |-> form, asks |-> stepped]
  BY <1>1, <1>2
<1>6. QED
  BY <1>3, <1>4, <1>5

LEMMA ResumeKeeps ==
    ASSUME JudgmentInv, NEW answers,
           \A k \in DOMAIN answers : answers[k] \in AnswersGiven,
           NEW reasoned \in {"yes", "no", "unavailable"}, ResumeJudging(answers, reasoned)
    PROVE  JudgmentInv'
<1> DEFINE posed == AskOne(judge.asks)
           answered == posed = {} \/ DOMAIN answers = posed
           next == AllStepped(answers, reasoned)
           lost == failed \/ ~answered
           left == Open(next.asks) # {}
           over == left /\ (round >= MaxRounds
                              \/ (~answered /\ AskOne(next.asks) # {}))
<1> PICK form, some, asks : /\ form = judge.form /\ some = DOMAIN judge.asks
                            /\ asks = next.asks
  OBVIOUS
<1>1. /\ round # 0 /\ DOMAIN answers \in {{}, posed}
      /\ given' = [k \in Candidates |->
            IF k \in DOMAIN answers THEN Append(given[k], answers[k]) ELSE given[k]]
      /\ reviewed' = IF \E k \in DOMAIN judge.asks : judge.asks[k].asks = "two"
                     THEN reasoned ELSE reviewed
      /\ failed' = (lost \/ over)
      /\ IF left /\ ~over
         THEN judge' = next /\ round' = round + 1 /\ UNCHANGED verdict
         ELSE ActOn(next, fallible /\ (lost \/ over))
      /\ UNCHANGED fallible
  BY DEF ResumeJudging
<1>2. /\ JudgmentTypeOK /\ PendingInv /\ verdict = Unheard
      /\ form \in Forms /\ some \in SUBSET Candidates
      /\ fallible \in BOOLEAN /\ failed \in BOOLEAN /\ round \in 1..MaxRounds
  BY <1>1, JudgmentConstants DEF JudgmentInv, VerdictEarned, JudgmentTypeOK, PendingInv
<1>3. /\ next = [form |-> form, asks |-> asks]
      /\ asks = [k \in some |-> asks[k]] /\ DOMAIN asks = some
      /\ \A k \in some :
           asks[k] = Stepped(form, k, judge.asks[k],
                             IF k \in DOMAIN answers THEN answers[k] ELSE NoAnswer,
                             reasoned)
  BY <1>1, <1>2, RoundSteps
<1>4. DOMAIN answers \subseteq posed /\ posed \subseteq some
      /\ \A k \in some : k \in posed <=> judge.asks[k].asks = "one"
  BY <1>1 DEF AskOne
<1>5. /\ \A k \in Candidates : given'[k] \in Seq(AnswersGiven)
      /\ \A k \in Candidates \ some : given'[k] = << >>
      /\ \A k \in Candidates :
           given'[k] = IF k \in DOMAIN answers THEN Append(given[k], answers[k]) ELSE given[k]
  BY <1>1, <1>2, <1>4 DEF PendingInv, JudgmentTypeOK
<1>6. lost \in BOOLEAN /\ over \in BOOLEAN /\ left \in BOOLEAN
  BY <1>2
<1>7. failed' \in BOOLEAN /\ (failed => failed') /\ (~answered => failed')
      /\ (over => failed')
  BY <1>1, <1>2, <1>6
<1>8. form = "candidates" =>
        \A k \in some : CandidateEarned(k, asks[k], given'[k], failed')
  <2> SUFFICES ASSUME form = "candidates", NEW k \in some
               PROVE  CandidateEarned(k, asks[k], given'[k], failed')
    OBVIOUS
  <2>1. /\ CandidateEarned(k, judge.asks[k], given[k], failed)
        /\ k \in Candidates /\ given[k] \in Seq(AnswersGiven)
    BY <1>1, <1>2 DEF PendingInv, JudgmentTypeOK
  <2>2. judge.asks[k].asks \in {"one", "none"}
    BY <2>1, EarnedStages
  <2>3. CASE judge.asks[k].asks = "none"
    <3>1. k \notin DOMAIN answers /\ given'[k] = given[k]
      BY <1>4, <1>5, <2>1, <2>3
    <3>2. asks[k] = Stepped("candidates", k, judge.asks[k], NoAnswer, reasoned)
      BY <1>3, <3>1
    <3>3. QED
      BY <1>2, <1>7, <2>1, <2>3, <3>1, <3>2, ValueStays
  <2>4. CASE judge.asks[k].asks = "one" /\ k \in DOMAIN answers
    <3>1. given'[k] = Append(given[k], answers[k]) /\ answers[k] \in AnswersGiven
      BY <1>5, <2>1, <2>4
    <3>2. asks[k] = Stepped("candidates", k, judge.asks[k], answers[k], reasoned)
      BY <1>3, <2>4
    <3>3. CandidateEarned(k, asks[k], given'[k], failed)
      BY <2>1, <2>4, <3>1, <3>2, AnswerEarns
    <3>4. QED
      BY <1>2, <1>7, <3>3 DEF CandidateEarned
  <2>5. CASE judge.asks[k].asks = "one" /\ k \notin DOMAIN answers
    <3>1. given'[k] = given[k]
      BY <1>5, <2>1, <2>5
    <3>2. asks[k] = Stepped("candidates", k, judge.asks[k], NoAnswer, reasoned)
      BY <1>3, <2>5
    <3>3. CandidateEarned(k, asks[k], given'[k], TRUE)
      BY <2>1, <2>5, <3>1, <3>2, SilenceEarns
    <3>4. ~answered
      BY <1>1, <1>4, <2>5
    <3>5. failed'
      BY <1>7, <3>4
    <3>6. QED
      BY <3>3, <3>5 DEF CandidateEarned
  <2>6. QED
    BY <2>2, <2>3, <2>4, <2>5
\* A screening: what was open goes to System Two, and what it says stands.
<1>9. form = "screen" =>
        /\ some = {1} /\ 1 \in Candidates
        /\ \/ /\ judge.asks[1] = Asking(1) /\ given[1] = << >> /\ round = 1
              /\ reviewed' = "none"
              /\ given'[1] # << >> => 1 \in DOMAIN answers /\ given'[1][1] = answers[1]
              /\ asks[1] = AfterScreening(IF 1 \in DOMAIN answers THEN answers[1] ELSE NoAnswer)
           \/ /\ judge.asks[1] = Reviewing /\ asks[1] = Done(reasoned = "yes")
              /\ reviewed' = reasoned
  <2> SUFFICES ASSUME form = "screen"
               PROVE  /\ some = {1} /\ 1 \in Candidates
                      /\ \/ /\ judge.asks[1] = Asking(1) /\ given[1] = << >> /\ round = 1
                            /\ reviewed' = "none"
                            /\ given'[1] # << >> =>
                                 1 \in DOMAIN answers /\ given'[1][1] = answers[1]
                            /\ asks[1] = AfterScreening(IF 1 \in DOMAIN answers
                                                        THEN answers[1] ELSE NoAnswer)
                         \/ /\ judge.asks[1] = Reviewing /\ asks[1] = Done(reasoned = "yes")
                            /\ reviewed' = reasoned
    OBVIOUS
  <2>1. /\ some = {1} /\ 1 \in Candidates /\ reviewed = "none"
        /\ ScreenEarned(judge.asks[1], given[1])
    BY <1>1, <1>2 DEF PendingInv
  <2>2. CASE judge.asks[1] = Asking(1) /\ given[1] = << >> /\ round = 1
    <3>1. asks[1] = AfterScreening(IF 1 \in DOMAIN answers THEN answers[1] ELSE NoAnswer)
      BY <1>3, <2>1, <2>2, StatesDiffer DEF Stepped
    <3>2. reviewed' = "none"
      BY <1>1, <2>1, <2>2, StatesDiffer
    <3>3. given'[1] # << >> => 1 \in DOMAIN answers /\ given'[1] = Append(<< >>, answers[1])
      BY <1>5, <2>1, <2>2
    <3>4. QED
      BY <2>1, <2>2, <3>1, <3>2, <3>3
  <2>3. CASE judge.asks[1] = Reviewing
    <3>1. asks[1] = Done(reasoned = "yes")
      BY <1>3, <2>1, <2>3, StatesDiffer DEF Stepped
    <3>2. reviewed' = reasoned
      BY <1>1, <2>1, <2>3, StatesDiffer
    <3>3. QED
      BY <2>1, <2>3, <3>1, <3>2
  <2>4. QED
    BY <2>1, <2>2, <2>3 DEF ScreenEarned
<1>10. CASE left /\ ~over
  <2>1. judge' = next /\ round' = round + 1 /\ verdict' = Unheard
    BY <1>1, <1>2, <1>10
  <2>2. round' \in 1..MaxRounds
    BY <1>2, <1>10, <2>1, JudgmentConstants
  <2>3. form = "screen" =>
          /\ some = {1} /\ reviewed' = "none"
          /\ asks[1] = Reviewing
          /\ given'[1] # << >> => Screened(given'[1][1]) \in Escalation
    <3> SUFFICES ASSUME form = "screen"
                 PROVE  /\ some = {1} /\ reviewed' = "none"
                        /\ asks[1] = Reviewing
                        /\ given'[1] # << >> => Screened(given'[1][1]) \in Escalation
      OBVIOUS
    <3>1. some = {1} /\ asks[1].asks # "none"
      BY <1>3, <1>9, <1>10 DEF Open
    <3>2. QED
      BY <1>9, <3>1, StatesDiffer DEF AfterScreening
  <2>4. Open(asks) # {}
    BY <1>3, <1>10
  <2>5. judge' = [form |-> form, asks |-> asks]
    BY <1>3, <2>1
  <2>6. fallible' \in BOOLEAN
    BY <1>1, <1>2
  <2>7. form = "screen" =>
          /\ some = {1} /\ reviewed' = "none"
          /\ \/ asks[1] = Asking(1) /\ given'[1] = << >> /\ round' = 1
             \/ /\ asks[1] = Reviewing
                /\ given'[1] # << >> => Screened(given'[1][1]) \in Escalation
    BY <2>3
  <2>8. asks = [k \in some |-> asks[k]] /\ verdict' = Unheard
    BY <1>3, <2>1
  <2>9. form \in Forms /\ some \in SUBSET Candidates /\ failed' \in BOOLEAN
    BY <1>2, <1>7
  <2> HIDE DEF next, over, left, lost, answered, posed
  <2>10. /\ \A k \in Candidates : given'[k] \in Seq(AnswersGiven)
         /\ \A k \in Candidates \ some : given'[k] = << >>
    BY <1>5
  <2>11. judge'.form = form /\ judge'.asks = asks /\ DOMAIN judge'.asks = some
    BY <1>3, <2>5
  <2>12. QED
    BY <1>8, <2>2, <2>4, <2>5, <2>6, <2>7, <2>8, <2>9, <2>10, <2>11, AsksKeeps
<1>11. CASE ~(left /\ ~over)
  <2> DEFINE none == fallible /\ (lost \/ over)
  <2>1. /\ round' = 0 /\ judge' = NoJudge /\ verdict'.none = none /\ verdict'.form = form
        /\ verdict'.held = IF none THEN {} ELSE HeldOf([form |-> form, asks |-> asks])
    <3>1. ActOn(next, none)
      BY <1>1, <1>11
    <3> HIDE DEF next, none
    <3>2. ActOn([form |-> form, asks |-> asks], none)
      BY <1>3, <3>1
    <3>3. QED
      BY <3>2 DEF ActOn
  <2>2. \A k \in verdict'.held : k \in some /\ SettledValue(form, asks[k])
    BY <1>3, <2>1 DEF HeldOf
  <2>3. none = (fallible' /\ failed')
    BY <1>1
  <2>4. HeldInFull'
    <3> SUFFICES ASSUME form = "candidates", NEW k \in verdict'.held
                 PROVE  Len(given'[k]) = Len(Steps[k]) /\ ~Refusal(k, given'[k])
      BY <2>1 DEF HeldInFull, Refused, Refusal
    <3>1. k \in some /\ SettledValue("candidates", asks[k])
      BY <2>2
    <3>2. CandidateEarned(k, asks[k], given'[k], failed')
      BY <1>8, <3>1
    <3>3. QED
      BY <3>1, <3>2, ValueEarned
  <2>5. RefusedByAnswer'
    <3> SUFFICES ASSUME form = "candidates", fallible', ~none,
                        NEW k \in Candidates \ verdict'.held, given'[k] # << >>
                 PROVE  Refusal(k, given'[k])
      BY <2>1 DEF RefusedByAnswer, Refused, Refusal
    <3>1. ~failed' /\ ~over
      BY <1>7, <2>3
    <3>2. ~left
      BY <1>11, <3>1
    <3>3. k \in some
      BY <1>5
    <3>4. asks[k].asks = "none"
      BY <1>3, <3>2, <3>3 DEF Open
    <3>5. ~SettledValue("candidates", asks[k])
      BY <1>3, <2>1, <3>3 DEF HeldOf
    <3>6. CandidateEarned(k, asks[k], given'[k], failed')
      BY <1>8, <3>3
    <3>7. QED
      BY <3>1, <3>4, <3>5, <3>6, ValueEarned
  <2>6. ReviewDecides'
    <3> SUFFICES ASSUME form = "screen"
                 PROVE  /\ reviewed' # "none" =>
                             verdict'.held = {k \in {1} : reviewed' = "yes" /\ ~none}
                        /\ reviewed' = "none" /\ given'[1] # << >> =>
                             Screened(given'[1][1]) \notin Escalation \/ MaxRounds = 1
      BY <2>1 DEF ReviewDecides
    <3>1. some = {1}
      BY <1>9
    <3>2. CASE judge.asks[1] = Reviewing /\ asks[1] = Done(reasoned = "yes")
               /\ reviewed' = reasoned
      <4>1. SettledValue(form, asks[1]) = (reasoned = "yes")
        BY <3>2, StatesDiffer DEF SettledValue
      <4>2. HeldOf([form |-> form, asks |-> asks]) = {k \in {1} : reasoned = "yes"}
        BY <1>3, <3>1, <4>1 DEF HeldOf
      <4>3. QED
        BY <2>1, <3>2, <4>2
    <3>3. CASE /\ reviewed' = "none" /\ round = 1
               /\ given'[1] # << >> => 1 \in DOMAIN answers /\ given'[1][1] = answers[1]
               /\ asks[1] = AfterScreening(IF 1 \in DOMAIN answers THEN answers[1]
                                           ELSE NoAnswer)
      <4> SUFFICES ASSUME given'[1] # << >>, Screened(given'[1][1]) \in Escalation
                   PROVE  MaxRounds = 1
        BY <3>3
      <4>1. asks[1] = Reviewing
        BY <3>3 DEF AfterScreening
      <4>2. Open(asks) = {1} /\ AskOne(asks) = {}
        BY <1>3, <3>1, <4>1, StatesDiffer DEF Open, AskOne
      <4>3. round >= MaxRounds
        BY <1>3, <1>11, <4>2
      <4>4. QED
        BY <3>3, <4>3, JudgmentConstants
    <3>4. QED
      BY <1>9, <3>2, <3>3
  <2>7. JudgmentTypeOK'
    <3>1. verdict'.held \subseteq Candidates
      BY <1>2, <2>2
    <3>2. fallible' \in BOOLEAN
      BY <1>1, <1>2
    <3>3. QED
      BY <1>5, <1>7, <2>1, <3>1, <3>2, JudgmentConstants DEF JudgmentTypeOK
  <2>8. QED
    BY <2>1, <2>4, <2>5, <2>6, <2>7 DEF JudgmentInv, VerdictEarned, PendingInv
<1>12. QED
  BY <1>10, <1>11

LEMMA JudgmentInvariant == JudgmentSpec => []JudgmentInv
<1>1. JudgmentInit => JudgmentInv
  BY JudgmentStart
<1>2. JudgmentInv /\ [JudgmentNext]_judgmentVars => JudgmentInv'
  <2> SUFFICES ASSUME JudgmentInv, [JudgmentNext]_judgmentVars PROVE JudgmentInv'
    OBVIOUS
  <2>1. CASE UNCHANGED judgmentVars
    <3> USE <2>1 DEF judgmentVars
    <3>1. JudgmentTypeOK' /\ PendingInv'
      BY DEF JudgmentInv, VerdictEarned, JudgmentTypeOK, PendingInv, ScreenEarned
    <3>2. HeldInFull' /\ RefusedByAnswer' /\ ReviewDecides'
      BY DEF JudgmentInv, VerdictEarned, HeldInFull, RefusedByAnswer, ReviewDecides, Refused
    <3>3. QED
      BY <3>1, <3>2 DEF JudgmentInv, VerdictEarned
  <2>2. CASE \E form \in Forms, some \in SUBSET Candidates, none_known \in BOOLEAN :
               StartJudging(form, some, none_known)
    BY <2>2, StartKeeps
  <2>3. CASE \E reasoned \in {"yes", "no", "unavailable"} :
               \/ ResumeJudging(<< >>, reasoned)
               \/ \E answers \in [AskOne(judge.asks) -> AnswersGiven] :
                     ResumeJudging(answers, reasoned)
    BY <2>3, ResumeKeeps
  <2>4. CASE CancelJudging
    BY <2>4, CancelKeeps
  <2>5. QED
    BY <2>1, <2>2, <2>3, <2>4 DEF JudgmentNext
<1>3. QED
  BY <1>1, <1>2, PTL DEF JudgmentSpec

\* What a capability acts on was earned: a candidate that is held had all of
\* its steps answered and held, where failure is told from refusal whatever is
\* not held was refused by an answer, and a review stands over its screening:
\* for any candidates, rules, escalations and rounds (core/judgment).
THEOREM VerdictsEarned == JudgmentSpec => []VerdictEarned
<1>1. JudgmentInv => VerdictEarned
  BY DEF JudgmentInv
<1>2. QED
  BY <1>1, JudgmentInvariant, PTL

-----------------------------------------------------------------------------
(* Types.                                                                    *)

AllTokens == [login : Nat, issue : Nat]

Places == {"idle", "lock", "read", "post", "save", "send", "forget"}

Calls == [at : Places, file : AllTokens, knows : {"on", "off"},
          verdict : BOOLEAN, refused : BOOLEAN]

LoginTypeOK ==
    /\ issued \in Seq(Nat) /\ Len(issued) > 0
    /\ login \in AllTokens /\ login.login \in DOMAIN issued
    /\ expired \subseteq AllTokens /\ cached \in AllTokens
    /\ locked \in Callers \cup {NoCaller}
    /\ call \in [Callers -> Calls]
    /\ \A w \in Callers :
         call[w].at \in {"post", "save"} => call[w].file.login \in DOMAIN issued
    /\ client \in [at : {"idle", "post", "save"}, file : AllTokens]
    /\ client.at # "idle" => client.file.login \in DOMAIN issued
    /\ profiles \in {"on", "off", "broken"}
    /\ spent \subseteq AllTokens /\ resent \in BOOLEAN
    /\ unsaved \subseteq Nat /\ overtaken \subseteq Nat

-----------------------------------------------------------------------------
(* The inductive invariant.                                                  *)

\* From the read to the write a worker has the lock.
LockInv ==
    \A w \in Callers : call[w].at \in {"read", "post", "save"} => locked = w

\* Someone has newer tokens of the login, and is about to write them.
Saving(l) ==
    \/ client.at = "save" /\ client.file.login = l
    \/ \E w \in Callers : call[w].at = "save" /\ call[w].file.login = l

\* The file is out of date only for a moment, or for good once tokens are lost.
CurrentInv == Current(login) \/ login.login \in unsaved \/ Saving(login.login)

\* A refresh token used up is never the one the provider would take.
SpentInv ==
    \A t \in spent : t.login \in DOMAIN issued /\ t.issue < issued[t.login]

\* The file holds one a worker used up only while that worker, with the lock,
\* is about to write the next.
FileInv ==
    login \in spent =>
        \/ login.login \in unsaved
        \/ \E w \in Callers : call[w].at = "save" /\ call[w].file.login = login.login

\* So what a worker read, with the lock, was not used up by another.
PostInv ==
    \A w \in Callers :
        call[w].at = "post" /\ call[w].file \in spent => call[w].file.login \in unsaved

VerdictInv == \A w \in Callers : call[w].verdict => ~call[w].refused

LoginInv ==
    /\ LoginTypeOK /\ LockInv /\ CurrentInv /\ SpentInv /\ FileInv /\ PostInv
    /\ LatestLogin /\ ~resent /\ VerdictInv

-----------------------------------------------------------------------------
(* What changes neither tokens nor who is about to refresh them.             *)

LEMMA CallIs ==
    ASSUME LoginTypeOK, NEW w \in Callers
    PROVE  /\ call[w] \in Calls /\ call[w].at \in Places /\ call[w].file \in AllTokens
           /\ call[w].knows \in {"on", "off"}
           /\ call[w].verdict \in BOOLEAN /\ call[w].refused \in BOOLEAN
<1>1. call[w] \in Calls
  BY DEF LoginTypeOK
<1>2. QED
  BY <1>1 DEF Calls

LEMMA QuietKeeps ==
    ASSUME LoginInv,
           UNCHANGED <<login, issued, client, spent, resent, unsaved, overtaken>>,
           expired' \subseteq AllTokens, cached' \in AllTokens,
           locked' \in Callers \cup {NoCaller}, profiles' \in {"on", "off", "broken"},
           call' \in [Callers -> Calls], LockInv', VerdictInv',
           \A w \in Callers : call'[w].at \in {"post", "save"} => call'[w] = call[w],
           \A w \in Callers : call[w].at = "save" => call'[w] = call[w]
    PROVE  LoginInv'
<1>1. LoginTypeOK'
  BY DEF LoginInv, LoginTypeOK
<1>2. CurrentInv'
  <2>1. Saving(login.login) => Saving(login.login)'
    BY DEF Saving
  <2>2. QED
    BY <2>1 DEF LoginInv, CurrentInv, Current
<1>3. SpentInv'
  BY DEF LoginInv, SpentInv
<1>4. FileInv'
  BY DEF LoginInv, FileInv
<1>5. PostInv'
  BY DEF LoginInv, PostInv
<1>6. LatestLogin' /\ ~resent'
  BY DEF LoginInv, LatestLogin
<1>7. QED
  BY <1>1, <1>2, <1>3, <1>4, <1>5, <1>6 DEF LoginInv

\* A call of one worker that is neither before nor after the provider.
LEMMA CallKeeps ==
    ASSUME LoginInv, NEW w \in Callers, NEW next \in Calls,
           call' = [call EXCEPT ![w] = next],
           UNCHANGED <<login, issued, client, spent, resent, unsaved, overtaken,
                       expired, profiles>>,
           cached' \in AllTokens, locked' \in Callers \cup {NoCaller},
           call[w].at # "save", next.at \notin {"post", "save"},
           next.at = "read" => locked' = w,
           \A v \in Callers : v # w /\ locked = v => locked' = v,
           next.verdict => ~next.refused
    PROVE  LoginInv'
<1>1. LoginTypeOK
  BY DEF LoginInv
<1>2. /\ call' \in [Callers -> Calls] /\ call'[w] = next
      /\ \A v \in Callers : v # w => call'[v] = call[v]
  BY <1>1 DEF LoginTypeOK
<1>3. LockInv'
  BY <1>2 DEF LoginInv, LockInv
<1>4. VerdictInv'
  BY <1>2 DEF LoginInv, VerdictInv
<1>5. /\ \A v \in Callers : call'[v].at \in {"post", "save"} => call'[v] = call[v]
      /\ \A v \in Callers : call[v].at = "save" => call'[v] = call[v]
  BY <1>2
<1>6. expired' \subseteq AllTokens /\ profiles' \in {"on", "off", "broken"}
  BY <1>1 DEF LoginTypeOK
<1>7. QED
  BY <1>2, <1>3, <1>4, <1>5, <1>6, QuietKeeps

-----------------------------------------------------------------------------
(* One lemma per action.                                                     *)

LEMMA LoginStart == LoginInit => LoginInv
<1> SUFFICES ASSUME LoginInit PROVE LoginInv
  OBVIOUS
<1>1. login = [login |-> 1, issue |-> 1] /\ issued = <<1>>
  BY DEF LoginInit, Tokens
<1>2. NoTokens \in AllTokens /\ login \in AllTokens
  BY <1>1 DEF NoTokens, Tokens, AllTokens
<1>3. Idle \in Calls /\ Idle.at = "idle" /\ ~Idle.verdict
  BY <1>2 DEF Idle, Calls, Places
<1>4. /\ call \in [Callers -> Calls]
      /\ \A w \in Callers : call[w].at = "idle" /\ ~call[w].verdict
  BY <1>3 DEF LoginInit
<1>5. LoginTypeOK
  <2>1. issued \in Seq(Nat) /\ Len(issued) = 1 /\ DOMAIN issued = 1 .. 1
    BY <1>1
  <2>2. login.login \in DOMAIN issued
    BY <1>1, <2>1
  <2>3. client = [at |-> "idle", file |-> NoTokens] /\ cached = NoTokens
    BY DEF LoginInit
  <2>4. /\ client \in [at : {"idle", "post", "save"}, file : AllTokens]
        /\ client.at = "idle"
    BY <1>2, <2>3
  <2>5. /\ expired \subseteq AllTokens /\ cached \in AllTokens
        /\ locked \in Callers \cup {NoCaller} /\ profiles \in {"on", "off", "broken"}
        /\ spent \subseteq AllTokens /\ resent \in BOOLEAN
        /\ unsaved \subseteq Nat /\ overtaken \subseteq Nat
    BY <1>2, <2>3 DEF LoginInit
  <2>6. QED
    BY <1>2, <1>4, <2>1, <2>2, <2>4, <2>5 DEF LoginTypeOK
<1>6. CurrentInv /\ LatestLogin
  BY <1>1 DEF CurrentInv, Current, LatestLogin
<1>7. QED
  BY <1>4, <1>5, <1>6 DEF LoginInv, LoginInit, LockInv, SpentInv, FileInv, PostInv,
                          VerdictInv

LEMMA FailedCall ==
    ASSUME LoginTypeOK, NEW w \in Callers
    PROVE  /\ [Idle EXCEPT !.knows = call[w].knows] \in Calls
           /\ [Idle EXCEPT !.knows = call[w].knows].at = "idle"
           /\ [Idle EXCEPT !.knows = call[w].knows].verdict = FALSE
<1>1. call[w].knows \in {"on", "off"}
  BY CallIs
<1>2. NoTokens \in AllTokens
  BY DEF NoTokens, Tokens, AllTokens
<1>3. QED
  BY <1>1, <1>2 DEF Idle, Calls, Places

LEMMA GoingOn ==
    ASSUME LoginTypeOK, NEW w \in Callers, NEW place \in Places
    PROVE  /\ [call[w] EXCEPT !.at = place] \in Calls
           /\ [call[w] EXCEPT !.at = place].at = place
           /\ [call[w] EXCEPT !.at = place].file = call[w].file
           /\ [call[w] EXCEPT !.at = place].verdict = call[w].verdict
           /\ [call[w] EXCEPT !.at = place].refused = call[w].refused
           /\ [call EXCEPT ![w].at = place] = [call EXCEPT ![w] = [call[w] EXCEPT !.at = place]]
<1>1. call[w] \in Calls
  BY CallIs
<1>2. /\ [call[w] EXCEPT !.at = place] \in Calls
      /\ [call[w] EXCEPT !.at = place].at = place
      /\ [call[w] EXCEPT !.at = place].file = call[w].file
      /\ [call[w] EXCEPT !.at = place].verdict = call[w].verdict
      /\ [call[w] EXCEPT !.at = place].refused = call[w].refused
  BY <1>1 DEF Calls
<1>3. QED
  BY <1>2

LEMMA CallBeginsKeeps ==
    ASSUME LoginInv, NEW w \in Callers, Ask(w) PROVE LoginInv'
<1>1. LoginTypeOK
  BY DEF LoginInv
<1>2. call[w].at = "idle"
  BY DEF Ask, At
<1>3. Knows(w) \in {"on", "off"}
  BY <1>1, CallIs DEF Knows, LoginTypeOK
<1>4. NoTokens \in AllTokens
  BY DEF NoTokens, Tokens, AllTokens
<1>5. PICK next \in Calls :
        /\ call' = [call EXCEPT ![w] = next]
        /\ next.at \in {"lock", "idle"} /\ ~next.verdict
  <2>1. CASE call' = [call EXCEPT ![w] = [Idle EXCEPT !.at = "lock", !.knows = "on"]]
    <3>1. [Idle EXCEPT !.at = "lock", !.knows = "on"] \in Calls
      BY <1>4 DEF Idle, Calls, Places
    <3>2. QED
      BY <2>1, <3>1 DEF Idle
  <2>2. CASE call' = [call EXCEPT ![w] = [Idle EXCEPT !.knows = Knows(w)]]
    <3>1. [Idle EXCEPT !.knows = Knows(w)] \in Calls
      BY <1>3, <1>4 DEF Idle, Calls, Places
    <3>2. QED
      BY <2>2, <3>1 DEF Idle
  <2>3. QED
    BY <2>1, <2>2 DEF Ask
<1>6. UNCHANGED <<login, issued, expired, client, spent, resent, unsaved, overtaken,
                  profiles, cached, locked>>
  BY DEF Ask, files, history
<1>7. cached' \in AllTokens /\ locked' \in Callers \cup {NoCaller}
  BY <1>1, <1>6 DEF LoginTypeOK
<1>8. QED
  BY <1>2, <1>5, <1>6, <1>7, CallKeeps

LEMMA LockKeeps ==
    ASSUME LoginInv, NEW w \in Callers, Lock(w) PROVE LoginInv'
<1>1. LoginTypeOK
  BY DEF LoginInv
<1>2. /\ call[w].at = "lock" /\ locked = NoCaller
      /\ UNCHANGED <<login, issued, expired, client, spent, resent, unsaved, overtaken,
                     profiles, cached>>
  BY DEF Lock, At, Lockable, files, history
<1>3. NoCaller \notin Callers
  BY LoginAssumption
<1>4. PICK place \in {"send", "read"} :
        /\ call' = [call EXCEPT ![w].at = place]
        /\ place = "read" => locked' = w
        /\ locked' \in {NoCaller, w}
  BY <1>2 DEF Lock, Goes
<1>5. call[w].verdict => ~call[w].refused
  BY DEF LoginInv, VerdictInv
<1>6. place \in Places
  BY DEF Places
<1> DEFINE next == [call[w] EXCEPT !.at = place]
<1>7. /\ next \in Calls /\ next.at = place /\ call' = [call EXCEPT ![w] = next]
      /\ next.verdict => ~next.refused
  BY <1>1, <1>4, <1>5, <1>6, GoingOn
<1>8. cached' \in AllTokens /\ locked' \in Callers \cup {NoCaller}
  BY <1>1, <1>2, <1>4 DEF LoginTypeOK
<1> HIDE DEF next
<1>9. QED
  BY <1>2, <1>3, <1>4, <1>7, <1>8, CallKeeps

\* No other worker has the lock.
LEMMA Alone ==
    ASSUME LoginInv, NEW w \in Callers, call[w].at \in {"read", "post", "save"}
    PROVE  /\ locked = w /\ locked # NoCaller
           /\ \A v \in Callers : v # w => call[v].at \notin {"read", "post", "save"}
  BY LoginAssumption DEF LoginInv, LockInv

LEMMA ReadLoginKeeps ==
    ASSUME LoginInv, NEW w \in Callers, ReadLogin(w) PROVE LoginInv'
<1>1. LoginTypeOK
  BY DEF LoginInv
<1>2. /\ call[w].at = "read"
      /\ UNCHANGED <<login, issued, expired, client, spent, resent, unsaved, overtaken,
                     profiles>>
  BY DEF ReadLogin, At, files, history
<1>3. /\ locked = w
      /\ \A v \in Callers : v # w => call[v].at \notin {"read", "post", "save"}
  BY <1>2, Alone
<1>4. CASE Fresh(login)
  <2>1. cached' = login /\ call' = [call EXCEPT ![w].at = "send"] /\ locked' = NoCaller
    BY <1>4 DEF ReadLogin, Goes, Unlock
  <2> DEFINE next == [call[w] EXCEPT !.at = "send"]
  <2>2. /\ next \in Calls /\ next.at = "send" /\ call' = [call EXCEPT ![w] = next]
        /\ next.verdict = call[w].verdict /\ next.refused = call[w].refused
    <3>1. "send" \in Places
      BY DEF Places
    <3>2. QED
      BY <1>1, <2>1, <3>1, GoingOn
  <2>3. next.verdict => ~next.refused
    BY <2>2 DEF LoginInv, VerdictInv
  <2>4. cached' \in AllTokens /\ locked' \in Callers \cup {NoCaller}
    BY <1>1, <2>1 DEF LoginTypeOK
  <2> HIDE DEF next
  <2>5. QED
    BY <1>2, <1>3, <2>2, <2>3, <2>4, CallKeeps
<1>5. CASE ~Fresh(login)
  <2>1. call' = [call EXCEPT ![w].at = "post", ![w].file = login]
        /\ UNCHANGED <<cached, locked>>
    BY <1>5 DEF ReadLogin
  <2>2. /\ call[w] \in Calls /\ login \in AllTokens /\ "post" \in Places
        /\ login.login \in DOMAIN issued
    BY <1>1, CallIs DEF LoginTypeOK, Places
  <2> DEFINE next == [call[w] EXCEPT !.at = "post", !.file = login]
  <2>3. call' = [call EXCEPT ![w] = next]
    BY <2>1
  <2>4. /\ next \in Calls /\ next.at = "post" /\ next.file = login
        /\ next.verdict = call[w].verdict /\ next.refused = call[w].refused
    BY <2>2 DEF Calls
  <2> HIDE DEF next
  <2>5. /\ call' \in [Callers -> Calls] /\ call'[w] = next
        /\ \A v \in Callers : v # w => call'[v] = call[v]
    BY <1>1, <2>3, <2>4 DEF LoginTypeOK
  <2>6. LoginTypeOK'
    BY <1>1, <1>2, <2>1, <2>2, <2>4, <2>5 DEF LoginTypeOK
  <2>7. LockInv' /\ VerdictInv'
    BY <1>2, <1>3, <2>1, <2>4, <2>5 DEF LoginInv, LockInv, VerdictInv
  <2>8. \A v \in Callers : call'[v].at = "save" <=> call[v].at = "save"
    BY <1>2, <2>4, <2>5
  <2>9. CurrentInv' /\ SpentInv' /\ FileInv' /\ LatestLogin' /\ ~resent'
    <3>1. Saving(login.login) => Saving(login.login)'
      BY <1>2, <2>5 DEF Saving
    <3>2. QED
      BY <1>2, <2>5, <2>8, <3>1
         DEF LoginInv, CurrentInv, Current, SpentInv, FileInv, LatestLogin
  <2>10. PostInv'
    <3>1. login \in spent => login.login \in unsaved
      BY <1>2, <1>3 DEF LoginInv, FileInv
    <3>2. QED
      BY <1>2, <2>4, <2>5, <3>1 DEF LoginInv, PostInv
  <2>11. QED
    BY <2>6, <2>7, <2>9, <2>10 DEF LoginInv
<1>6. QED
  BY <1>4, <1>5

\* Tokens issued for a login.
LEMMA IssueIs ==
    ASSUME LoginTypeOK, NEW l \in DOMAIN issued, Issue(l)
    PROVE  /\ issued' \in Seq(Nat) /\ Len(issued') = Len(issued)
           /\ DOMAIN issued' = DOMAIN issued
           /\ issued[l] \in Nat /\ issued'[l] = issued[l] + 1
           /\ \A m \in DOMAIN issued : m # l => issued'[m] = issued[m]
<1>1. /\ issued \in Seq(Nat) /\ issued' = [issued EXCEPT ![l] = issued[l] + 1]
  BY DEF LoginTypeOK, Issue
<1>2. issued[l] \in Nat /\ issued[l] + 1 \in Nat
  BY <1>1
<1>3. issued' \in Seq(Nat) /\ Len(issued') = Len(issued)
  BY <1>1, <1>2, ExceptSeq
<1>4. DOMAIN issued' = DOMAIN issued
  BY <1>1
<1>5. QED
  BY <1>1, <1>2, <1>3, <1>4

\* What a login was issued never shrinks, and used up tokens stay used up.
LEMMA SpentAfterIssue ==
    ASSUME LoginInv, NEW l \in DOMAIN issued, Issue(l),
           NEW n, n = issued[l],
           spent' \subseteq spent \cup {[login |-> l, issue |-> n]}
    PROVE  SpentInv'
<1>1. LoginTypeOK /\ SpentInv
  BY DEF LoginInv
<1>2. /\ DOMAIN issued' = DOMAIN issued
      /\ issued[l] \in Nat /\ issued'[l] = issued[l] + 1
      /\ \A m \in DOMAIN issued : m # l => issued'[m] = issued[m]
  BY <1>1, IssueIs
<1>3. SUFFICES ASSUME NEW t \in spent'
               PROVE  t.login \in DOMAIN issued' /\ t.issue < issued'[t.login]
  BY DEF SpentInv
<1>4. CASE t \in spent
  <2>1. t.login \in DOMAIN issued /\ t.issue < issued[t.login] /\ t.issue \in Nat
    BY <1>1, <1>4 DEF SpentInv, LoginTypeOK, AllTokens
  <2>2. CASE t.login = l
    BY <1>2, <2>1, <2>2
  <2>3. CASE t.login # l
    BY <1>2, <2>1, <2>3
  <2>4. QED
    BY <2>2, <2>3
<1>5. CASE t = [login |-> l, issue |-> n]
  BY <1>2, <1>5
<1>6. QED
  BY <1>4, <1>5

\* A worker that posts has tokens no other has used up.
LEMMA NotResent ==
    ASSUME LoginInv, NEW w \in Callers, call[w].at = "post", Spends(call[w].file)
    PROVE  /\ ~resent'
           /\ Current(call[w].file) => spent' = spent \cup {call[w].file}
           /\ ~Current(call[w].file) => spent' = spent
  BY DEF LoginInv, PostInv, Spends

LEMMA RefreshKeeps ==
    ASSUME LoginInv, NEW w \in Callers, Refresh(w) PROVE LoginInv'
<1>1. LoginTypeOK
  BY DEF LoginInv
<1> PICK file : file = call[w].file
  OBVIOUS
<1>2. /\ call[w].at = "post" /\ Spends(file)
      /\ UNCHANGED <<login, expired, client, unsaved, overtaken, profiles, cached>>
  BY DEF Refresh, At
<1>3. /\ locked = w
      /\ \A v \in Callers : v # w => call[v].at \notin {"read", "post", "save"}
  BY <1>2, Alone
<1>4. /\ file \in AllTokens /\ file.login \in DOMAIN issued
      /\ file = [login |-> file.login, issue |-> file.issue]
  BY <1>1, <1>2, CallIs DEF LoginTypeOK, AllTokens
<1>5. /\ ~resent'
      /\ Current(file) => spent' = spent \cup {file}
      /\ ~Current(file) => spent' = spent
  BY <1>2, NotResent
<1>6. CASE Current(file)
  <2>1. /\ Issue(file.login) /\ call' = [call EXCEPT ![w].at = "save"]
        /\ locked' = locked /\ issued[file.login] = file.issue
    BY <1>6 DEF Refresh, Goes, Current
  <2> DEFINE next == [call[w] EXCEPT !.at = "save"]
  <2>2. /\ next \in Calls /\ next.at = "save" /\ next.file = file
        /\ call' = [call EXCEPT ![w] = next]
        /\ next.verdict = call[w].verdict /\ next.refused = call[w].refused
    <3>1. "save" \in Places
      BY DEF Places
    <3>2. QED
      BY <1>1, <2>1, <3>1, GoingOn
  <2> HIDE DEF next
  <2>3. /\ call' \in [Callers -> Calls] /\ call'[w] = next
        /\ \A v \in Callers : v # w => call'[v] = call[v]
    BY <1>1, <2>2 DEF LoginTypeOK
  <2>4. /\ issued' \in Seq(Nat) /\ Len(issued') = Len(issued)
        /\ DOMAIN issued' = DOMAIN issued
        /\ \A m \in DOMAIN issued : m # file.login => issued'[m] = issued[m]
    BY <1>1, <1>4, <2>1, IssueIs
  <2>5. SpentInv'
    BY <1>4, <1>5, <1>6, <2>1, SpentAfterIssue
  <2>6. LoginTypeOK'
    <3>1. spent' \subseteq AllTokens /\ resent' \in BOOLEAN
      BY <1>1, <1>2, <1>4, <1>5, <1>6 DEF LoginTypeOK, Spends
    <3>2. \A v \in Callers :
            call'[v].at \in {"post", "save"} => call'[v].file.login \in DOMAIN issued'
      BY <1>1, <1>4, <2>2, <2>3, <2>4 DEF LoginTypeOK
    <3>3. QED
      BY <1>1, <1>2, <2>1, <2>3, <2>4, <3>1, <3>2 DEF LoginTypeOK
  <2>7. LockInv' /\ VerdictInv'
    BY <1>2, <1>3, <2>1, <2>2, <2>3 DEF LoginInv, LockInv, VerdictInv
  <2>8. CurrentInv'
    <3>1. Saving(file.login)'
      BY <2>2, <2>3 DEF Saving
    <3>2. CASE login.login = file.login
      BY <1>2, <3>1, <3>2 DEF CurrentInv
    <3>3. CASE login.login # file.login
      <4>1. Current(login) => Current(login)'
        BY <1>1, <1>2, <2>4, <3>3 DEF Current, LoginTypeOK
      <4>2. Saving(login.login) => Saving(login.login)'
        BY <1>2, <1>3, <2>3 DEF Saving
      <4>3. QED
        BY <1>2, <4>1, <4>2 DEF LoginInv, CurrentInv
    <3>4. QED
      BY <3>2, <3>3
  <2>9. FileInv'
    <3>1. SUFFICES ASSUME login' \in spent', login'.login \notin unsaved'
                   PROVE  \E v \in Callers :
                             call'[v].at = "save" /\ call'[v].file.login = login'.login
      BY DEF FileInv
    <3>2. login = file
      BY <1>2, <1>3, <1>5, <1>6, <3>1 DEF LoginInv, FileInv
    <3>3. QED
      BY <1>2, <2>2, <2>3, <3>2
  <2>10. PostInv'
    BY <1>3, <2>2, <2>3 DEF PostInv
  <2>11. LatestLogin'
    BY <1>2, <2>4 DEF LoginInv, LatestLogin
  <2>12. QED
    BY <1>5, <2>5, <2>6, <2>7, <2>8, <2>9, <2>10, <2>11 DEF LoginInv
<1>7. CASE ~Current(file)
  <2> DEFINE next == [Idle EXCEPT !.knows = call[w].knows]
  <2>1. /\ call' = [call EXCEPT ![w] = next] /\ locked' = NoCaller
        /\ UNCHANGED <<issued, spent, resent>>
    BY <1>1, <1>2, <1>5, <1>7 DEF Refresh, Fails, Unlock, LoginInv, LoginTypeOK, Spends
  <2>2. next \in Calls /\ next.at = "idle" /\ ~next.verdict
    BY <1>1, FailedCall
  <2>3. cached' \in AllTokens /\ locked' \in Callers \cup {NoCaller}
    BY <1>1, <1>2, <2>1 DEF LoginTypeOK
  <2> HIDE DEF next
  <2>4. QED
    BY <1>2, <1>3, <2>1, <2>2, <2>3, CallKeeps
<1>8. QED
  BY <1>6, <1>7

\* A worker that had the lock fails: the parts that only look at calls.
LEMMA HolderFails ==
    ASSUME LoginInv, NEW w \in Callers, call[w].at \in {"post", "save"},
           Fails(w), Unlock, login' = login,
           \A l \in {login.login} : l \in unsaved => l \in unsaved',
           call[w].at = "save" => call[w].file.login \in unsaved',
           client' = client
    PROVE  /\ call' \in [Callers -> Calls] /\ call'[w].at = "idle"
           /\ \A v \in Callers : v # w => call'[v] = call[v]
           /\ \A v \in Callers : call'[v].at \notin {"read", "post", "save"}
           /\ locked' = NoCaller /\ LockInv' /\ VerdictInv'
           /\ login.login \notin unsaved' /\ Saving(login.login) => Saving(login.login)'
<1> DEFINE next == [Idle EXCEPT !.knows = call[w].knows]
<1>1. LoginTypeOK
  BY DEF LoginInv
<1>2. next \in Calls /\ next.at = "idle" /\ ~next.verdict
  BY <1>1, FailedCall
<1>3. call' = [call EXCEPT ![w] = next] /\ locked' = NoCaller
  BY DEF Fails, Unlock
<1> HIDE DEF next
<1>4. /\ call' \in [Callers -> Calls] /\ call'[w] = next
      /\ \A v \in Callers : v # w => call'[v] = call[v]
  BY <1>1, <1>2, <1>3 DEF LoginTypeOK
<1>5. \A v \in Callers : v # w => call[v].at \notin {"read", "post", "save"}
  BY Alone
<1>6. LockInv' /\ VerdictInv'
  BY <1>2, <1>4, <1>5 DEF LockInv, VerdictInv, LoginInv
<1>7. login.login \notin unsaved' /\ Saving(login.login) => Saving(login.login)'
  BY <1>4, <1>5 DEF Saving
<1>8. QED
  BY <1>2, <1>3, <1>4, <1>5, <1>6, <1>7

LEMMA RefreshLostKeeps ==
    ASSUME LoginInv, NEW w \in Callers, RefreshLost(w) PROVE LoginInv'
<1>1. LoginTypeOK
  BY DEF LoginInv
<1> PICK file : file = call[w].file
  OBVIOUS
<1>2. /\ call[w].at = "post" /\ Fails(w) /\ Unlock
      /\ UNCHANGED <<login, expired, client, overtaken, profiles, cached>>
  BY DEF RefreshLost, At
<1>3. /\ file \in AllTokens /\ file.login \in DOMAIN issued
      /\ file = [login |-> file.login, issue |-> file.issue]
  BY <1>1, <1>2, CallIs DEF LoginTypeOK, AllTokens
<1>4. \/ UNCHANGED <<issued, unsaved, spent, resent>>
      \/ /\ Current(file) /\ Issue(file.login) /\ Spends(file)
         /\ unsaved' = unsaved \cup {file.login}
  BY DEF RefreshLost
<1>5. unsaved \subseteq unsaved'
  BY <1>4
<1>6. /\ call' \in [Callers -> Calls]
      /\ \A v \in Callers : v # w => call'[v] = call[v]
      /\ \A v \in Callers : call'[v].at \notin {"read", "post", "save"}
      /\ locked' = NoCaller /\ LockInv' /\ VerdictInv'
      /\ login.login \notin unsaved' /\ Saving(login.login) => Saving(login.login)'
  BY <1>2, <1>5, HolderFails
<1>7. \A v \in Callers : call[v].at # "save"
  BY <1>2, Alone
<1>8. CASE UNCHANGED <<issued, unsaved, spent, resent>>
  <2>1. LoginTypeOK'
    BY <1>1, <1>2, <1>6, <1>8 DEF LoginTypeOK
  <2>2. CurrentInv' /\ SpentInv' /\ LatestLogin'
    BY <1>2, <1>6, <1>8 DEF LoginInv, CurrentInv, Current, SpentInv, LatestLogin
  <2>3. FileInv' /\ PostInv' /\ ~resent'
    BY <1>2, <1>6, <1>7, <1>8 DEF LoginInv, FileInv, PostInv
  <2>4. QED
    BY <1>6, <2>1, <2>2, <2>3 DEF LoginInv
<1>9. CASE /\ Current(file) /\ Issue(file.login) /\ Spends(file)
           /\ unsaved' = unsaved \cup {file.login}
  <2>1. ~resent' /\ spent' = spent \cup {file}
    BY <1>2, <1>9, NotResent
  <2>2. /\ issued' \in Seq(Nat) /\ Len(issued') = Len(issued)
        /\ DOMAIN issued' = DOMAIN issued
        /\ \A m \in DOMAIN issued : m # file.login => issued'[m] = issued[m]
    BY <1>1, <1>3, <1>9, IssueIs
  <2>3. issued[file.login] = file.issue
    BY <1>9 DEF Current
  <2>4. SpentInv'
    BY <1>3, <1>9, <2>1, <2>3, SpentAfterIssue
  <2>5. LoginTypeOK'
    <3>1. /\ spent' \subseteq AllTokens /\ resent' \in BOOLEAN /\ unsaved' \subseteq Nat
      BY <1>1, <1>3, <1>9, <2>1 DEF LoginTypeOK, AllTokens, Spends
    <3>2. QED
      BY <1>1, <1>2, <1>6, <2>2, <3>1 DEF LoginTypeOK
  <2>6. CurrentInv'
    <3>1. CASE login.login = file.login
      BY <1>2, <1>9, <3>1 DEF CurrentInv
    <3>2. CASE login.login # file.login
      BY <1>1, <1>2, <1>6, <1>9, <2>2, <3>2
         DEF LoginInv, CurrentInv, Current, LoginTypeOK
    <3>3. QED
      BY <3>1, <3>2
  <2>7. FileInv' /\ PostInv' /\ LatestLogin'
    BY <1>2, <1>6, <1>7, <1>9, <2>1, <2>2 DEF LoginInv, FileInv, PostInv, LatestLogin
  <2>8. QED
    BY <1>6, <2>1, <2>4, <2>5, <2>6, <2>7 DEF LoginInv
<1>10. QED
  BY <1>4, <1>8, <1>9

\* The newest tokens of a login were used by nobody.
LEMMA NewestUnspent ==
    ASSUME LoginInv, NEW l \in DOMAIN issued
    PROVE  /\ [login |-> l, issue |-> issued[l]] \notin spent
           /\ [login |-> l, issue |-> issued[l]] \in AllTokens
<1>1. issued[l] \in Nat /\ l \in Nat
  BY DEF LoginInv, LoginTypeOK
<1>2. QED
  BY <1>1 DEF LoginInv, SpentInv, AllTokens

LEMMA SaveLoginKeeps ==
    ASSUME LoginInv, NEW w \in Callers, SaveLogin(w) PROVE LoginInv'
<1>1. LoginTypeOK
  BY DEF LoginInv
<1> PICK file : file = call[w].file
  OBVIOUS
<1>2. /\ call[w].at = "save"
      /\ login' = [login |-> file.login, issue |-> issued[file.login]]
      /\ cached' = login' /\ Overtakes(file) /\ locked' = NoCaller
      /\ call' = [call EXCEPT ![w].at = "send", ![w].file = NoTokens]
      /\ UNCHANGED <<issued, expired, client, profiles, spent, resent, unsaved>>
  BY DEF SaveLogin, At, Refreshed, Tokens, Unlock
<1>3. file \in AllTokens /\ file.login \in DOMAIN issued
  BY <1>1, <1>2, CallIs DEF LoginTypeOK
<1>4. \A v \in Callers : v # w => call[v].at \notin {"read", "post", "save"}
  BY <1>2, Alone
<1> DEFINE next == [call[w] EXCEPT !.at = "send", !.file = NoTokens]
<1>5. /\ next \in Calls /\ next.at = "send"
      /\ next.verdict = call[w].verdict /\ next.refused = call[w].refused
  <2>1. call[w] \in Calls /\ NoTokens \in AllTokens
    BY <1>1, CallIs DEF NoTokens, Tokens, AllTokens
  <2>2. QED
    BY <2>1 DEF Calls, Places
<1>6. call' = [call EXCEPT ![w] = next]
  BY <1>2
<1> HIDE DEF next
<1>7. /\ call' \in [Callers -> Calls] /\ call'[w] = next
      /\ \A v \in Callers : v # w => call'[v] = call[v]
  BY <1>1, <1>5, <1>6 DEF LoginTypeOK
<1>8. /\ login' \in AllTokens /\ login'.login = file.login /\ login' \notin spent
      /\ Current(login)'
  BY <1>2, <1>3, NewestUnspent DEF LoginInv, Current
<1>9. LoginTypeOK'
  <2>1. overtaken' \subseteq Nat
    BY <1>1, <1>2 DEF Overtakes, LoginTypeOK, AllTokens
  <2>2. QED
    BY <1>1, <1>2, <1>3, <1>4, <1>5, <1>7, <1>8, <2>1 DEF LoginTypeOK
<1>10. LockInv' /\ VerdictInv' /\ PostInv'
  BY <1>2, <1>4, <1>5, <1>7 DEF LoginInv, LockInv, VerdictInv, PostInv
<1>11. CurrentInv' /\ FileInv' /\ SpentInv' /\ ~resent'
  BY <1>2, <1>8 DEF LoginInv, CurrentInv, FileInv, SpentInv
<1>12. LatestLogin'
  BY <1>2, <1>8 DEF LoginInv, LatestLogin, Overtakes
<1>13. QED
  BY <1>9, <1>10, <1>11, <1>12 DEF LoginInv

LEMMA SaveFailsKeeps ==
    ASSUME LoginInv, NEW w \in Callers, SaveFails(w) PROVE LoginInv'
<1>1. LoginTypeOK
  BY DEF LoginInv
<1>2. /\ call[w].at = "save" /\ Fails(w) /\ Unlock
      /\ unsaved' = unsaved \cup {call[w].file.login}
      /\ UNCHANGED <<login, issued, expired, client, overtaken, profiles, cached,
                     spent, resent>>
  BY DEF SaveFails, At, files
<1>3. call[w].file.login \in Nat
  BY <1>1, CallIs DEF AllTokens
<1>4. /\ call' \in [Callers -> Calls]
      /\ \A v \in Callers : v # w => call'[v] = call[v]
      /\ \A v \in Callers : call'[v].at \notin {"read", "post", "save"}
      /\ locked' = NoCaller /\ LockInv' /\ VerdictInv'
      /\ login.login \notin unsaved' /\ Saving(login.login) => Saving(login.login)'
  BY <1>2, HolderFails
<1>5. \A v \in Callers : v # w => call[v].at # "save"
  BY <1>2, Alone
<1>6. LoginTypeOK'
  BY <1>1, <1>2, <1>3, <1>4 DEF LoginTypeOK
<1>7. CurrentInv' /\ SpentInv' /\ LatestLogin' /\ ~resent'
  BY <1>2, <1>4 DEF LoginInv, CurrentInv, Current, SpentInv, LatestLogin
<1>8. FileInv' /\ PostInv'
  BY <1>2, <1>4, <1>5 DEF LoginInv, FileInv, PostInv
<1>9. QED
  BY <1>4, <1>6, <1>7, <1>8 DEF LoginInv

LEMMA CallEndsKeeps ==
    ASSUME LoginInv, NEW w \in Callers, SendFails(w) \/ Forget(w) \/ Answers(w)
    PROVE  LoginInv'
<1>1. LoginTypeOK
  BY DEF LoginInv
<1>2. /\ call[w].at \in {"send", "forget"}
      /\ UNCHANGED <<login, issued, expired, client, spent, resent, unsaved, overtaken,
                     profiles, locked>>
      /\ cached' \in {cached, NoTokens}
  BY DEF SendFails, Forget, Answers, At, files, history
<1>3. NoTokens \in AllTokens
  BY DEF NoTokens, Tokens, AllTokens
<1>4. cached' \in AllTokens /\ locked' \in Callers \cup {NoCaller}
  BY <1>1, <1>2, <1>3 DEF LoginTypeOK
<1>5. PICK next \in Calls :
        /\ call' = [call EXCEPT ![w] = next]
        /\ next.at \in {"idle", "forget"} /\ (next.verdict => ~next.refused)
  <2>1. CASE Fails(w)
    BY <1>1, <2>1, FailedCall DEF Fails
  <2>2. CASE Goes(w, "forget")
    <3>1. "forget" \in Places
      BY DEF Places
    <3>2. call[w].verdict => ~call[w].refused
      BY DEF LoginInv, VerdictInv
    <3> DEFINE next == [call[w] EXCEPT !.at = "forget"]
    <3>3. /\ next \in Calls /\ next.at = "forget" /\ call' = [call EXCEPT ![w] = next]
          /\ next.verdict = call[w].verdict /\ next.refused = call[w].refused
      BY <1>1, <2>2, <3>1, GoingOn DEF Goes
    <3> HIDE DEF next
    <3>4. QED
      BY <3>2, <3>3
  <2>3. CASE Answers(w)
    <3>1. PICK text \in BOOLEAN, refused \in BOOLEAN, completed \in BOOLEAN,
               fits \in BOOLEAN :
            LET ruling == completed /\ Verdict(text, refused, fits)
            IN  call' = [call EXCEPT ![w] = [Idle EXCEPT !.knows = call[w].knows,
                                                         !.verdict = ruling,
                                                         !.refused = ruling /\ refused]]
      BY <2>3 DEF Answers
    <3> DEFINE ruling == completed /\ Verdict(text, refused, fits)
               both == ruling /\ refused
    <3>2. ruling \in BOOLEAN /\ both \in BOOLEAN /\ (ruling => ~both)
      BY Zenon DEF Verdict, MayBeVerdict
    <3>3. call' = [call EXCEPT ![w] = [Idle EXCEPT !.knows = call[w].knows,
                                                   !.verdict = ruling,
                                                   !.refused = both]]
      BY <3>1
    <3> HIDE DEF ruling, both
    <3>4. call[w].knows \in {"on", "off"}
      BY <1>1, CallIs
    <3> DEFINE next == [Idle EXCEPT !.knows = call[w].knows, !.verdict = ruling,
                                    !.refused = both]
    <3>5. /\ next \in Calls /\ next.at = "idle" /\ next.verdict = ruling
          /\ next.refused = both
      BY <1>3, <3>2, <3>4 DEF Idle, Calls, Places
    <3>6. call' = [call EXCEPT ![w] = next]
      BY <3>3
    <3> HIDE DEF next
    <3>7. QED
      BY <3>2, <3>5, <3>6
  <2>4. QED
    BY <2>1, <2>2, <2>3 DEF SendFails, Forget
<1>6. QED
  BY <1>2, <1>4, <1>5, CallKeeps

LEMMA CLIReadsKeeps ==
    ASSUME LoginInv, CLIReads PROVE LoginInv'
<1>1. /\ client.at = "idle" /\ client' = [at |-> "post", file |-> login]
      /\ UNCHANGED <<login, issued, expired, cached, locked, call, profiles,
                     spent, resent, unsaved, overtaken>>
  BY DEF CLIReads, files, history
<1>2. LoginTypeOK'
  BY <1>1 DEF LoginInv, LoginTypeOK
<1>3. Saving(login.login) => Saving(login.login)'
  BY <1>1 DEF Saving
<1>4. QED
  BY <1>1, <1>2, <1>3 DEF LoginInv, LockInv, CurrentInv, Current, SpentInv, FileInv,
                          PostInv, LatestLogin, VerdictInv

LEMMA CLIRefreshesKeeps ==
    ASSUME LoginInv, CLIRefreshes PROVE LoginInv'
<1>1. LoginTypeOK
  BY DEF LoginInv
<1> PICK file : file = client.file
  OBVIOUS
<1>2. /\ client.at = "post"
      /\ UNCHANGED <<login, expired, cached, locked, call, profiles,
                     spent, resent, unsaved, overtaken>>
  BY DEF CLIRefreshes, history
<1>3. file \in AllTokens /\ file.login \in DOMAIN issued
  BY <1>1, <1>2 DEF LoginTypeOK
<1>4. CASE Current(file)
  <2>1. Issue(file.login) /\ client' = [client EXCEPT !.at = "save"]
    BY <1>4 DEF CLIRefreshes
  <2>2. /\ client'.at = "save" /\ client'.file = file
        /\ client' \in [at : {"idle", "post", "save"}, file : AllTokens]
    BY <1>1, <2>1 DEF LoginTypeOK
  <2>3. /\ issued' \in Seq(Nat) /\ Len(issued') = Len(issued)
        /\ DOMAIN issued' = DOMAIN issued
        /\ \A m \in DOMAIN issued : m # file.login => issued'[m] = issued[m]
    BY <1>1, <1>3, <2>1, IssueIs
  <2>4. SpentInv'
    BY <1>2, <1>3, <2>1, SpentAfterIssue
  <2>5. LoginTypeOK'
    BY <1>1, <1>2, <1>3, <2>2, <2>3 DEF LoginTypeOK
  <2>6. CurrentInv'
    <3>1. Saving(file.login)'
      BY <2>2 DEF Saving
    <3>2. CASE login.login = file.login
      BY <1>2, <3>1, <3>2 DEF CurrentInv
    <3>3. CASE login.login # file.login
      <4>1. Current(login) => Current(login)'
        BY <1>1, <1>2, <2>3, <3>3 DEF Current, LoginTypeOK
      <4>2. Saving(login.login) => Saving(login.login)'
        BY <1>2 DEF Saving
      <4>3. QED
        BY <1>2, <4>1, <4>2 DEF LoginInv, CurrentInv
    <3>4. QED
      BY <3>2, <3>3
  <2>7. QED
    BY <1>2, <2>3, <2>4, <2>5, <2>6
       DEF LoginInv, LockInv, FileInv, PostInv, LatestLogin, VerdictInv
<1>5. CASE ~Current(file)
  <2>1. client' = [client EXCEPT !.at = "idle"] /\ issued' = issued
    BY <1>5 DEF CLIRefreshes
  <2>2. /\ client'.at = "idle"
        /\ client' \in [at : {"idle", "post", "save"}, file : AllTokens]
    BY <1>1, <2>1 DEF LoginTypeOK
  <2>3. LoginTypeOK'
    BY <1>1, <1>2, <2>1, <2>2 DEF LoginTypeOK
  <2>4. Saving(login.login) => Saving(login.login)'
    BY <1>2 DEF Saving
  <2>5. QED
    BY <1>2, <2>1, <2>3, <2>4 DEF LoginInv, LockInv, CurrentInv, Current, SpentInv,
                                  FileInv, PostInv, LatestLogin, VerdictInv
<1>6. QED
  BY <1>4, <1>5

LEMMA CLISavesKeeps ==
    ASSUME LoginInv, CLISaves PROVE LoginInv'
<1>1. LoginTypeOK
  BY DEF LoginInv
<1> PICK file : file = client.file
  OBVIOUS
<1>2. /\ client.at = "save"
      /\ login' = [login |-> file.login, issue |-> issued[file.login]]
      /\ Overtakes(file) /\ client' = [client EXCEPT !.at = "idle"]
      /\ UNCHANGED <<issued, expired, cached, locked, call, profiles,
                     spent, resent, unsaved>>
  BY DEF CLISaves, Tokens
<1>3. file \in AllTokens /\ file.login \in DOMAIN issued
  BY <1>1, <1>2 DEF LoginTypeOK
<1>4. /\ login' \in AllTokens /\ login'.login = file.login /\ login' \notin spent
      /\ Current(login)'
  BY <1>2, <1>3, NewestUnspent DEF Current
<1>5. LoginTypeOK'
  <2>1. overtaken' \subseteq Nat
    BY <1>1, <1>2 DEF Overtakes, LoginTypeOK, AllTokens
  <2>2. client' \in [at : {"idle", "post", "save"}, file : AllTokens] /\ client'.at = "idle"
    BY <1>1, <1>2 DEF LoginTypeOK
  <2>3. QED
    BY <1>1, <1>2, <1>3, <1>4, <2>1, <2>2 DEF LoginTypeOK
<1>6. LatestLogin'
  BY <1>2, <1>4 DEF LoginInv, LatestLogin, Overtakes
<1>7. QED
  BY <1>2, <1>4, <1>5, <1>6 DEF LoginInv, LockInv, CurrentInv, SpentInv, FileInv,
                                PostInv, VerdictInv

LEMMA LogsInKeeps ==
    ASSUME LoginInv, LogsIn PROVE LoginInv'
<1>1. LoginTypeOK
  BY DEF LoginInv
<1>2. /\ issued' = Append(issued, 1)
      /\ login' = [login |-> Len(issued'), issue |-> 1]
      /\ UNCHANGED <<expired, cached, locked, call, client, profiles,
                     spent, resent, unsaved, overtaken>>
  BY DEF LogsIn, Tokens, history
<1>3. /\ issued' \in Seq(Nat) /\ Len(issued') = Len(issued) + 1
      /\ Len(issued) \in Nat /\ DOMAIN issued = 1 .. Len(issued)
      /\ DOMAIN issued' = 1 .. Len(issued')
      /\ \A m \in DOMAIN issued : issued'[m] = issued[m]
      /\ issued'[Len(issued')] = 1
  BY <1>1, <1>2 DEF LoginTypeOK
<1>4. DOMAIN issued \subseteq DOMAIN issued' /\ login'.login = Len(issued')
  BY <1>2, <1>3
<1>5. LoginTypeOK'
  <2>1. login' \in AllTokens /\ login'.login \in DOMAIN issued'
    BY <1>2, <1>3 DEF AllTokens
  <2>2. /\ \A w \in Callers :
             call'[w].at \in {"post", "save"} => call'[w].file.login \in DOMAIN issued'
        /\ client'.at # "idle" => client'.file.login \in DOMAIN issued'
    BY <1>1, <1>2, <1>4 DEF LoginTypeOK
  <2>3. QED
    BY <1>1, <1>2, <1>3, <2>1, <2>2 DEF LoginTypeOK
<1>6. CurrentInv' /\ LatestLogin'
  BY <1>2, <1>3, <1>4 DEF CurrentInv, Current, LatestLogin
<1>7. SpentInv'
  BY <1>2, <1>3, <1>4 DEF LoginInv, SpentInv
<1>8. login' \notin spent
  <2> SUFFICES ASSUME login' \in spent PROVE FALSE
    OBVIOUS
  <2>1. login'.login \in DOMAIN issued
    BY DEF LoginInv, SpentInv
  <2>2. QED
    BY <1>3, <1>4, <2>1
<1>9. QED
  BY <1>2, <1>5, <1>6, <1>7, <1>8 DEF LoginInv, LockInv, FileInv, PostInv, VerdictInv

LEMMA AroundKeeps ==
    ASSUME LoginInv,
           \/ \E l \in DOMAIN issued : Expires(l)
           \/ \E to \in {"off", "broken"} : EditProfiles(to)
    PROVE  LoginInv'
<1>1. LoginTypeOK
  BY DEF LoginInv
<1>2. ASSUME NEW l \in DOMAIN issued, Expires(l) PROVE LoginInv'
  <2>1. [login |-> l, issue |-> issued[l]] \in AllTokens
    BY NewestUnspent
  <2>2. expired' \subseteq AllTokens
    BY <1>1, <1>2, <2>1 DEF Expires, Tokens, LoginTypeOK
  <2>3. QED
    BY <1>1, <1>2, <2>2, QuietKeeps
       DEF Expires, history, LoginTypeOK, LoginInv, LockInv, VerdictInv
<1>3. ASSUME NEW to \in {"off", "broken"}, EditProfiles(to) PROVE LoginInv'
  BY <1>1, <1>3, QuietKeeps
     DEF EditProfiles, files, history, LoginTypeOK, LoginInv, LockInv, VerdictInv
<1>4. QED
  BY <1>2, <1>3

LEMMA CrashKeeps ==
    ASSUME LoginInv, LoginCrash PROVE LoginInv'
<1>1. LoginTypeOK
  BY DEF LoginInv
<1>2. /\ unsaved' = unsaved \cup
           {call[w].file.login : w \in {v \in Callers : call[v].at = "save"}}
      /\ call' = [w \in Callers |-> Idle]
      /\ cached' = NoTokens /\ locked' = NoCaller
      /\ UNCHANGED <<login, issued, expired, client, profiles, spent, resent, overtaken>>
  BY DEF LoginCrash, At, Unlock, files
<1>3. /\ NoTokens \in AllTokens /\ Idle \in Calls
      /\ Idle.at = "idle" /\ ~Idle.verdict
  BY DEF NoTokens, Tokens, AllTokens, Idle, Calls, Places
<1>4. /\ call' \in [Callers -> Calls]
      /\ \A w \in Callers : call'[w].at = "idle" /\ ~call'[w].verdict
  BY <1>2, <1>3
<1>5. \A w \in Callers : call[w].at = "save" => call[w].file.login \in unsaved'
  BY <1>2
<1>6. unsaved \subseteq unsaved' /\ unsaved' \subseteq Nat
  <2>1. \A w \in Callers : call[w].file.login \in Nat
    BY <1>1, CallIs DEF AllTokens
  <2>2. QED
    BY <1>1, <1>2, <2>1 DEF LoginTypeOK
<1>7. LoginTypeOK'
  BY <1>1, <1>2, <1>3, <1>4, <1>6 DEF LoginTypeOK
<1>8. CurrentInv'
  BY <1>2, <1>5, <1>6 DEF LoginInv, CurrentInv, Current, Saving
<1>9. FileInv'
  BY <1>2, <1>5, <1>6 DEF LoginInv, FileInv
<1>10. QED
  BY <1>2, <1>4, <1>7, <1>8, <1>9
     DEF LoginInv, LockInv, SpentInv, PostInv, LatestLogin, VerdictInv

LEMMA LoginStep == LoginInv /\ [LoginNext]_loginVars => LoginInv'
<1> SUFFICES ASSUME LoginInv, [LoginNext]_loginVars PROVE LoginInv'
  OBVIOUS
<1>1. ASSUME NEW w \in Callers,
             \/ Ask(w) \/ Lock(w) \/ ReadLogin(w)
             \/ Refresh(w) \/ RefreshLost(w) \/ SaveLogin(w) \/ SaveFails(w)
             \/ SendFails(w) \/ Forget(w) \/ Answers(w)
      PROVE  LoginInv'
  BY <1>1, CallBeginsKeeps, LockKeeps, ReadLoginKeeps, RefreshKeeps, RefreshLostKeeps,
     SaveLoginKeeps, SaveFailsKeeps, CallEndsKeeps
<1>2. CASE CLIReads \/ CLIRefreshes \/ CLISaves \/ LogsIn \/ LoginCrash
  BY <1>2, CLIReadsKeeps, CLIRefreshesKeeps, CLISavesKeeps, LogsInKeeps, CrashKeeps
<1>3. CASE \/ \E l \in DOMAIN issued : Expires(l)
           \/ \E to \in {"off", "broken"} : EditProfiles(to)
  BY <1>3, AroundKeeps
<1>4. CASE UNCHANGED loginVars
  BY <1>4, QuietKeeps
     DEF loginVars, LoginTypeOK, LoginInv, LockInv, VerdictInv
<1>5. QED
  BY <1>1, <1>2, <1>3, <1>4 DEF LoginNext

-----------------------------------------------------------------------------
(* Theorems.                                                                 *)

\* Every reachable state is well typed: what is read, refreshed or about to be
\* written are tokens of a login the user has made.
THEOREM LoginTypeCorrect == LoginSpec => []LoginTypeOK
<1>1. LoginInv => LoginTypeOK
  BY DEF LoginInv
<1>2. QED
  BY <1>1, LoginStart, LoginStep, PTL DEF LoginSpec

\* Whatever workers, the Codex CLI and the user do beside each other, the file
\* holds tokens the provider takes unless a reply, a write or the daemon was
\* lost; the user's last login is lost only to a refresh of an earlier one; no
\* worker sends a refresh token another used up; and a refusal is no verdict
\* (CodexAuth::access, refresh and write, run_attempt).
THEOREM LoginSurvives == LoginSpec => []LoginKept
<1>1. LoginInv => LoginKept
  <2> SUFFICES ASSUME LoginInv PROVE LoginKept
    OBVIOUS
  <2>1. StaysLoggedIn
    BY DEF LoginInv, CurrentInv, Saving, StaysLoggedIn, At
  <2>2. QED
    BY <2>1 DEF LoginInv, VerdictInv, LoginKept
<1>2. QED
  BY <1>1, LoginStart, LoginStep, PTL DEF LoginSpec

-----------------------------------------------------------------------------
(* Folds.                                                                    *)

LEMMA Least ==
    ASSUME NEW T \in SUBSET Nat, T # {}
    PROVE  \E i \in T : \A k \in T : i <= k
<1> DEFINE R == OpToRel(<, Nat)
<1>1. IsWellFoundedOn(R, Nat)
  BY NatLessThanWellFounded
<1>2. \A x, y \in Nat : x < y => <<x, y>> \in R
  BY DEF OpToRel
<1> HIDE DEF R
<1>3. PICK i \in T : \A k \in T : ~ (<<k, i>> \in R)
  BY <1>1, WFMin
<1>4. \A k \in T : ~ (k < i)
  BY <1>2, <1>3
<1>5. QED
  BY <1>4

\* The largest of a range, alone or with some below it.
LEMMA MaxIs ==
    ASSUME NEW m \in Nat, NEW s \in SUBSET (1 .. m), m \in s
    PROVE  Max(s) = m
<1>1. \A x \in s : x \in 1 .. m
  OBVIOUS
<1>2. m \in s /\ \A y \in s : m >= y
  BY <1>1
<1>3. \A x \in s : (\A y \in s : x >= y) => x = m
  BY <1>1, <1>2
<1>4. QED
  BY <1>2, <1>3 DEF Max

\* What a fold does at each set: it applies the step to the largest and to what
\* is of the rest.
FoldAt(f, base, step, s) ==
    IF s = {} THEN base ELSE step[<<f[s \ {Max(s)}], Max(s)>>]

IsFold(f, A, base, n, step) ==
    /\ f \in [SUBSET (1 .. n) -> A]
    /\ \A s \in SUBSET (1 .. n) : f[s] = FoldAt(f, base, step, s)

LEMMA FoldExists ==
    ASSUME NEW A, NEW base \in A, NEW n \in Nat, NEW step, step \in [A \X (1 .. n) -> A]
    PROVE  \E f : IsFold(f, A, base, n, step)
<1> DEFINE Fold(m) == \E f \in [SUBSET (1 .. m) -> A] :
                         \A s \in SUBSET (1 .. m) : f[s] = FoldAt(f, base, step, s)
           Bad == {m \in 0 .. n : ~Fold(m)}
<1>1. Fold(0)
  <2>1. PICK f : f = [s \in SUBSET (1 .. 0) |-> base]
    OBVIOUS
  <2>2. f \in [SUBSET (1 .. 0) -> A] /\ \A s \in SUBSET (1 .. 0) : s = {} /\ f[s] = base
    BY <2>1
  <2>3. QED
    BY <2>2 DEF FoldAt
<1>2. ASSUME NEW m \in 1 .. n, Fold(m - 1)
      PROVE  Fold(m)
  <2>1. PICK f \in [SUBSET (1 .. m - 1) -> A] :
          \A s \in SUBSET (1 .. m - 1) : f[s] = FoldAt(f, base, step, s)
    BY <1>2
  <2>2. PICK g : g = [s \in SUBSET (1 .. m) |->
                        IF m \in s THEN step[<<f[s \ {m}], m>>] ELSE f[s]]
    OBVIOUS
  <2>3. \A s \in SUBSET (1 .. m) :
          /\ s \ {m} \in SUBSET (1 .. m - 1)
          /\ m \notin s => s \in SUBSET (1 .. m - 1)
    OBVIOUS
  <2>4. \A s \in SUBSET (1 .. m - 1) : s \in SUBSET (1 .. m) /\ m \notin s
    OBVIOUS
  <2>5. \A s \in SUBSET (1 .. m - 1) : g[s] = f[s]
    BY <2>2, <2>4
  <2>6. g \in [SUBSET (1 .. m) -> A]
    <3>1. SUFFICES ASSUME NEW s \in SUBSET (1 .. m)
                   PROVE  (IF m \in s THEN step[<<f[s \ {m}], m>>] ELSE f[s]) \in A
      BY <2>2
    <3>2. CASE m \in s
      BY <2>3, <3>2
    <3>3. CASE m \notin s
      BY <2>3, <3>3
    <3>4. QED
      BY <3>2, <3>3
  <2>7. ASSUME NEW s \in SUBSET (1 .. m)
        PROVE  g[s] = FoldAt(g, base, step, s)
    <3>1. CASE m \in s
      <4>1. g[s] = step[<<f[s \ {m}], m>>] /\ Max(s) = m /\ s # {}
        BY <2>2, <3>1, MaxIs
      <4>2. f[s \ {m}] = g[s \ {m}]
        BY <2>3, <2>5
      <4>3. QED
        BY <4>1, <4>2 DEF FoldAt
    <3>2. CASE m \notin s
      <4>1. s \in SUBSET (1 .. m - 1) /\ g[s] = f[s] /\ f[s] = FoldAt(f, base, step, s)
        BY <2>1, <2>3, <2>5, <3>2
      <4>2. s \ {Max(s)} \in SUBSET (1 .. m - 1)
        BY <4>1
      <4>3. f[s \ {Max(s)}] = g[s \ {Max(s)}]
        BY <4>2, <2>5
      <4>4. QED
        BY <4>1, <4>3 DEF FoldAt
    <3>3. QED
      BY <3>1, <3>2
  <2>8. QED
    BY <2>6, <2>7
<1>3. Bad = {}
  <2>1. SUFFICES ASSUME Bad # {} PROVE FALSE
    OBVIOUS
  <2>2. Bad \in SUBSET Nat
    OBVIOUS
  <2>3. PICK m \in Bad : \A k \in Bad : m <= k
    <3> HIDE DEF Bad
    <3>1. QED
      BY <2>1, <2>2, Least
  <2>4. m \in 0 .. n /\ ~Fold(m)
    BY <2>3
  <2> HIDE DEF Fold
  <2>5. m \in 1 .. n /\ m - 1 \in 0 .. n /\ ~(m <= m - 1)
    BY <1>1, <2>4
  <2>6. Fold(m - 1)
    BY <2>3, <2>5
  <2>7. QED
    BY <1>2, <2>4, <2>5, <2>6
<1>4. Fold(n)
  <2> HIDE DEF Fold
  <2>1. n \in 0 .. n
    OBVIOUS
  <2>2. QED
    BY <1>3, <2>1
<1>5. QED
  BY <1>4 DEF IsFold

\* What is so of the base and of each step after one it is so of, is so at the
\* end: the numbers at which it is not have no least.
LEMMA Upwards ==
    ASSUME NEW n \in Nat, NEW T, 0 \in T, \A i \in 1 .. n : i - 1 \in T => i \in T
    PROVE  \A i \in 0 .. n : i \in T
<1> DEFINE Bad == (0 .. n) \ T
<1>1. SUFFICES ASSUME Bad # {} PROVE FALSE
  OBVIOUS
<1>2. Bad \in SUBSET Nat
  OBVIOUS
<1>3. PICK m \in Bad : \A k \in Bad : m <= k
  <2> HIDE DEF Bad
  <2>1. QED
    BY <1>1, <1>2, Least
<1>4. m \in 1 .. n
  OBVIOUS
<1>5. m - 1 \notin Bad
  BY <1>3, <1>4
<1>6. m - 1 \in T
  BY <1>4, <1>5
<1>7. QED
  BY <1>4, <1>6

LEMMA MaxIn ==
    ASSUME NEW n \in Nat, NEW s \in SUBSET (1 .. n), s # {}
    PROVE  Max(s) \in s /\ Max(s) \in 1 .. n
<1> DEFINE up == {n - x : x \in s}
<1>1. \A x \in s : x \in 1 .. n /\ n - x \in Nat /\ n - x \in up
  OBVIOUS
<1>2. up \in SUBSET Nat /\ up # {}
  BY <1>1
<1>3. \E j \in up : \A k \in up : j <= k
  <2> HIDE DEF up
  <2>1. QED
    BY <1>2, Least
<1>4. PICK x \in s : \A k \in up : n - x <= k
  BY <1>3
<1>5. \A y \in s : x >= y
  BY <1>1, <1>4
<1>6. QED
  BY <1>1, <1>4, <1>5 DEF Max

\* The sets a fold over a sequence goes through.
LEMMA PrefixSets ==
    ASSUME NEW n \in Nat, NEW i \in 1 .. n
    PROVE  /\ 1 .. i \in SUBSET (1 .. n) /\ 1 .. i # {} /\ Max(1 .. i) = i
           /\ (1 .. i) \ {i} = 1 .. (i - 1)
<1>1. 1 .. i \in SUBSET (1 .. n) /\ i \in 1 .. i /\ i \in Nat
  OBVIOUS
<1>2. Max(1 .. i) = i
  BY <1>1, MaxIs
<1>3. (1 .. i) \ {i} = 1 .. (i - 1)
  OBVIOUS
<1>4. QED
  BY <1>1, <1>2, <1>3

-----------------------------------------------------------------------------
(* Redaction.                                                                *)

RedactAt(done, word, lists) ==
    LET next == ReplaceWord(word, done.masking, lists)
    IN  [text |-> Append(done.text, next.shown), masking |-> next.masking]

\* What a word becomes.
LEMMA WordIs ==
    ASSUME NEW word, NEW masking, NEW lists, NEW next,
           next = ReplaceWord(word, masking, lists)
    PROVE  \/ /\ next.shown = Shown("redacted", word, 0) /\ next.masking = masking
           \/ /\ next.shown = Shown("clear", word, 0) /\ next.masking = masking
              /\ \/ ~HasShape(word.value)
                 \/ /\ <<ShapeOf[word.value], NoKey>> \notin lists.secrets
                    /\ \/ ShapeOf[word.value] \in Hashes /\ word.key = NoKey
                       \/ <<ShapeOf[word.value], word.key>> \in lists.safes
           \/ /\ next.shown = Shown("described", word, NumberOf(masking, word.value))
              /\ \/ /\ NumberOf(masking, word.value) <= Len(masking)
                    /\ next.masking = masking
                 \/ /\ ~(NumberOf(masking, word.value) <= Len(masking))
                    /\ next.masking = Append(masking, [value |-> word.value,
                                                       shape |-> ShapeOf[word.value],
                                                       key |-> word.key])
BY DEF ReplaceWord

LEMMA NumberIs ==
    ASSUME NEW M, NEW masking \in Seq(M), NEW value
    PROVE  \/ /\ NumberOf(masking, value) = Len(masking) + 1
              /\ \A i \in DOMAIN masking : masking[i].value # value
           \/ /\ NumberOf(masking, value) \in DOMAIN masking
              /\ masking[NumberOf(masking, value)].value = value
<1> DEFINE seen == {i \in DOMAIN masking : masking[i].value = value}
<1>1. CASE seen = {}
  BY <1>1 DEF NumberOf
<1>2. CASE seen # {}
  <2>1. NumberOf(masking, value) = CHOOSE i \in seen : TRUE
    BY <1>2 DEF NumberOf
  <2>2. NumberOf(masking, value) \in seen
    <3> HIDE DEF seen
    <3>1. QED
      BY <1>2, <2>1
  <2>3. QED
    BY <2>2
<1>3. QED
  BY <1>1, <1>2

LEMMA RedactAtIs ==
    ASSUME NEW W, NEW word \in W, NEW lists, NEW S, NEW N, NEW done,
           done.text \in Seq(S), done.masking \in Seq(N),
           \A as \in {"redacted", "clear", "described"}, k \in Nat : Shown(as, word, k) \in S,
           [value |-> word.value, shape |-> ShapeOf[word.value], key |-> word.key] \in N
    PROVE  RedactAt(done, word, lists) \in [text : Seq(S), masking : Seq(N)]
<1>1. PICK next : next = ReplaceWord(word, done.masking, lists)
  OBVIOUS
<1>2. PICK k : k = NumberOf(done.masking, word.value)
  OBVIOUS
<1>3. k \in Nat
  BY <1>2, NumberIs
<1>4. next.shown \in S
  <2>1. \/ next.shown = Shown("redacted", word, 0)
        \/ next.shown = Shown("clear", word, 0)
        \/ next.shown = Shown("described", word, k)
    BY <1>1, <1>2, WordIs
  <2>2. QED
    BY <1>3, <2>1
<1>5. next.masking \in Seq(N)
  <2>1. PICK entry \in N : entry = [value |-> word.value, shape |-> ShapeOf[word.value],
                                    key |-> word.key]
    OBVIOUS
  <2>2. \/ next.masking = done.masking
        \/ next.masking = Append(done.masking, [value |-> word.value,
                                shape |-> ShapeOf[word.value], key |-> word.key])
    BY <1>1, WordIs, Zenon
  <2>3. next.masking = done.masking \/ next.masking = Append(done.masking, entry)
    BY <2>1, <2>2, Zenon
  <2>4. Append(done.masking, entry) \in Seq(N)
    OBVIOUS
  <2>5. QED
    BY <2>3, <2>4, Zenon
<1>6. Append(done.text, next.shown) \in Seq(S)
  BY <1>4
<1>7. RedactAt(done, word, lists) = [text |-> Append(done.text, next.shown),
                                     masking |-> next.masking]
  BY <1>1 DEF RedactAt
<1>8. QED
  BY <1>5, <1>6, <1>7

LEMMA RedactRuns ==
    ASSUME NEW W, NEW words \in Seq(W), NEW M, NEW masking \in Seq(M), NEW lists
    PROVE  \E h : /\ h[0] = [text |-> << >>, masking |-> masking]
                  /\ \A i \in 1 .. Len(words) : h[i] = RedactAt(h[i - 1], words[i], lists)
                  /\ Redact(words, masking, lists) = h[Len(words)]
<1> DEFINE body(base, f) == [s \in SUBSET (DOMAIN words) |->
                         IF s = {} THEN base
                         ELSE RedactAt(f[s \ {Max(s)}], words[Max(s)], lists)]
           iter(base) == CHOOSE f : f = body(base, f)
<1>13. PICK base : base = [text |-> << >>, masking |-> masking]
  OBVIOUS
<1>1. PICK n \in Nat : n = Len(words) /\ DOMAIN words = 1 .. n
  OBVIOUS
<1>2. Redact(words, masking, lists) = iter(base)[DOMAIN words]
  BY <1>13 DEF Redact, FoldLeft, MapThenFoldSet, RedactAt
<1>3. PICK S : S = [as : {"redacted", "clear", "described"}, word : W, number : Nat]
  OBVIOUS
<1>14. PICK N : N = M \cup {[value |-> w.value, shape |-> ShapeOf[w.value],
                            key |-> w.key] : w \in W}
  OBVIOUS
<1>15. PICK A : A = [text : Seq(S), masking : Seq(N)]
  OBVIOUS
<1>16. base \in A
  <2>1. M \subseteq N
    BY <1>14
  <2>2. masking \in Seq(N) /\ << >> \in Seq(S)
    BY <2>1
  <2>3. QED
    BY <1>13, <1>15, <2>2
<1>4. ASSUME NEW done \in A, NEW word \in W
      PROVE  RedactAt(done, word, lists) \in A
  <2>1. done.text \in Seq(S) /\ done.masking \in Seq(N)
    BY <1>15
  <2>2. \A as \in {"redacted", "clear", "described"}, k \in Nat : Shown(as, word, k) \in S
    BY <1>3 DEF Shown
  <2>3. [value |-> word.value, shape |-> ShapeOf[word.value], key |-> word.key] \in N
    BY <1>14
  <2>4. QED
    BY <1>15, <2>1, <2>2, <2>3, RedactAtIs
<1>5. \E f : f = body(base, f)
  <2>1. PICK step : step = [x \in A \X (1 .. n) |-> RedactAt(x[1], words[x[2]], lists)]
    OBVIOUS
  <2>2. \A i \in 1 .. n : words[i] \in W
    BY <1>1
  <2>3. step \in [A \X (1 .. n) -> A]
    BY <1>4, <2>1, <2>2
  <2>10. PICK f : IsFold(f, A, base, n, step)
    BY <1>1, <1>16, <2>3, FoldExists
  <2>4. /\ f \in [SUBSET (1 .. n) -> A]
        /\ \A s \in SUBSET (1 .. n) : f[s] = FoldAt(f, base, step, s)
    BY <2>10 DEF IsFold
  <2>5. ASSUME NEW s \in SUBSET (1 .. n), s # {}
        PROVE  f[s] = RedactAt(f[s \ {Max(s)}], words[Max(s)], lists)
    <3>1. Max(s) \in 1 .. n /\ s \ {Max(s)} \in SUBSET (1 .. n)
      BY <2>5, MaxIn
    <3>2. <<f[s \ {Max(s)}], Max(s)>> \in A \X (1 .. n)
      BY <2>4, <3>1
    <3>3. step[<<f[s \ {Max(s)}], Max(s)>>] = RedactAt(f[s \ {Max(s)}], words[Max(s)], lists)
      BY <2>1, <3>2
    <3>4. QED
      BY <2>4, <2>5, <3>3 DEF FoldAt
  <2>6. f[{}] = base
    BY <2>4 DEF FoldAt
  <2>7. f = [s \in SUBSET (1 .. n) |-> f[s]]
    BY <2>4
  <2>8. f = [s \in SUBSET (1 .. n) |->
              IF s = {} THEN base ELSE RedactAt(f[s \ {Max(s)}], words[Max(s)], lists)]
    BY <2>5, <2>6, <2>7
  <2>9. QED
    BY <1>1, <2>8
<1>17. PICK g : g = iter(base)
  OBVIOUS
<1>6. g = body(base, g)
  BY <1>5, <1>17
<1>7. \A s \in SUBSET (1 .. n) :
        g[s] = IF s = {} THEN base ELSE RedactAt(g[s \ {Max(s)}], words[Max(s)], lists)
  BY <1>1, <1>6
<1>8. PICK h : h = [i \in 0 .. n |-> g[1 .. i]]
  OBVIOUS
<1>9. h[0] = base
  <2>1. 1 .. 0 = {} /\ 0 \in 0 .. n /\ {} \in SUBSET (1 .. n)
    OBVIOUS
  <2>2. QED
    BY <1>7, <1>8, <2>1
<1>10. ASSUME NEW i \in 1 .. n
       PROVE  h[i] = RedactAt(h[i - 1], words[i], lists)
  <2>1. i \in 0 .. n /\ i - 1 \in 0 .. n
    OBVIOUS
  <2>2. g[1 .. i] = RedactAt(g[1 .. (i - 1)], words[i], lists)
    BY <1>7, PrefixSets
  <2>3. QED
    BY <1>8, <2>1, <2>2
<1>11. h[n] = g[1 .. n]
  BY <1>8
<1>12. QED
  BY <1>1, <1>2, <1>9, <1>10, <1>11, <1>13, <1>17

\* The lines of a state are words.
LEMMA SaidIs ==
    ASSUME NEW W, NEW E, NEW entries \in Seq(E), \A entry \in E : entry.words \in Seq(W)
    PROVE  Said(entries) \in Seq(W)
<1> DEFINE body(f) == [s \in SUBSET (DOMAIN entries) |->
                         IF s = {} THEN << >>
                         ELSE f[s \ {Max(s)}] \o entries[Max(s)].words]
           iter == CHOOSE f : f = body(f)
<1>1. PICK n \in Nat : n = Len(entries) /\ DOMAIN entries = 1 .. n
  OBVIOUS
<1>2. PICK g : g = iter
  OBVIOUS
<1>3. Said(entries) = g[DOMAIN entries]
  BY <1>2 DEF Said, FoldLeft, MapThenFoldSet
<1>4. PICK A : A = Seq(W)
  OBVIOUS
<1>5. << >> \in A
  BY <1>4
<1>6. \A text \in A : \A i \in 1 .. n : text \o entries[i].words \in A
  BY <1>1, <1>4
<1>7. \E f : f = body(f)
  <2>1. PICK step : step = [x \in A \X (1 .. n) |-> x[1] \o entries[x[2]].words]
    OBVIOUS
  <2>2. step \in [A \X (1 .. n) -> A]
    BY <1>6, <2>1
  <2>3. PICK f : IsFold(f, A, << >>, n, step)
    BY <1>1, <1>5, <2>2, FoldExists
  <2>4. /\ f \in [SUBSET (1 .. n) -> A]
        /\ \A s \in SUBSET (1 .. n) : f[s] = FoldAt(f, << >>, step, s)
    BY <2>3 DEF IsFold
  <2>5. ASSUME NEW s \in SUBSET (1 .. n), s # {}
        PROVE  f[s] = f[s \ {Max(s)}] \o entries[Max(s)].words
    <3>1. Max(s) \in 1 .. n /\ s \ {Max(s)} \in SUBSET (1 .. n)
      BY <1>1, <2>5, MaxIn
    <3>2. <<f[s \ {Max(s)}], Max(s)>> \in A \X (1 .. n)
      BY <2>4, <3>1
    <3>3. step[<<f[s \ {Max(s)}], Max(s)>>] = f[s \ {Max(s)}] \o entries[Max(s)].words
      BY <2>1, <3>2
    <3>4. QED
      BY <2>4, <2>5, <3>3 DEF FoldAt
  <2>6. f[{}] = << >>
    BY <2>4 DEF FoldAt
  <2>7. f = [s \in SUBSET (1 .. n) |-> f[s]]
    BY <2>4
  <2>8. f = [s \in SUBSET (1 .. n) |->
              IF s = {} THEN << >> ELSE f[s \ {Max(s)}] \o entries[Max(s)].words]
    BY <2>5, <2>6, <2>7
  <2>9. QED
    BY <1>1, <2>8
<1>8. g = body(g)
  BY <1>2, <1>7
<1>9. \A s \in SUBSET (1 .. n) :
        g[s] = IF s = {} THEN << >> ELSE g[s \ {Max(s)}] \o entries[Max(s)].words
  BY <1>1, <1>8
<1>10. PICK T : T = {i \in 0 .. n : g[1 .. i] \in A}
  OBVIOUS
<1>11. 0 \in T
  <2>1. 1 .. 0 = {} /\ 0 \in 0 .. n /\ {} \in SUBSET (1 .. n)
    BY <1>1
  <2>2. QED
    BY <1>5, <1>9, <1>10, <2>1
<1>12. ASSUME NEW i \in 1 .. n, i - 1 \in T
       PROVE  i \in T
  <2>1. g[1 .. i] = g[1 .. (i - 1)] \o entries[i].words
    <3>1. /\ 1 .. i \in SUBSET (1 .. n) /\ 1 .. i # {} /\ Max(1 .. i) = i
          /\ (1 .. i) \ {i} = 1 .. (i - 1)
      BY <1>1, PrefixSets
    <3>2. g[1 .. i] = g[(1 .. i) \ {Max(1 .. i)}] \o entries[Max(1 .. i)].words
      BY <1>9, <3>1
    <3>3. QED
      BY <3>1, <3>2
  <2>2. g[1 .. i] \in A /\ i \in 0 .. n
    BY <1>1, <1>6, <1>10, <1>12, <2>1
  <2>3. QED
    BY <1>10, <2>2
<1>13. n \in T
  <2>1. n \in 0 .. n
    BY <1>1
  <2>2. QED
    BY <1>1, <1>11, <1>12, <2>1, Upwards
<1>14. QED
  BY <1>1, <1>3, <1>4, <1>10, <1>13

-----------------------------------------------------------------------------
(* The lists.                                                                *)

LearnAt(lists, probe, answers, i) ==
    CASE answers[i] = "secret" -> LearnSecret(lists, probe[i].shape, probe[i].key)
      [] answers[i] = "safe"   -> LearnSafe(lists, probe[i].shape, probe[i].key)
      [] OTHER                 -> lists

LEMMA LearnRuns ==
    ASSUME NEW n \in Nat, NEW probe, NEW answers, DOMAIN answers = 1 .. n,
           NEW known, known = [secrets |-> known.secrets, safes |-> known.safes]
    PROVE  \E h : /\ h[0] = known
                  /\ \A i \in 1 .. n : h[i] = LearnAt(h[i - 1], probe, answers, i)
                  /\ LearnAll(probe, answers, known) = h[n]
<1> DEFINE turns == [i \in DOMAIN answers |-> i]
           body(f) == [s \in SUBSET (DOMAIN turns) |->
                         IF s = {} THEN known
                         ELSE LearnAt(f[s \ {Max(s)}], probe, answers, turns[Max(s)])]
           iter == CHOOSE f : f = body(f)
<1>1. PICK g : g = iter
  OBVIOUS
<1>2. LearnAll(probe, answers, known) = g[DOMAIN turns]
  BY <1>1 DEF LearnAll, FoldLeft, MapThenFoldSet, LearnAt
<1>3. DOMAIN turns = 1 .. n /\ \A i \in 1 .. n : turns[i] = i
  OBVIOUS
<1>4. PICK X : X = known.secrets \cup known.safes
                     \cup {<<probe[i].shape, NoKey>> : i \in 1 .. n}
                     \cup {<<probe[i].shape, probe[i].key>> : i \in 1 .. n}
  OBVIOUS
<1>5. PICK A : A = [secrets : SUBSET X, safes : SUBSET X]
  OBVIOUS
<1>6. known \in A
  BY <1>4, <1>5
<1>7. ASSUME NEW lists \in A, NEW i \in 1 .. n
      PROVE  LearnAt(lists, probe, answers, i) \in A
  <2>1. lists.secrets \subseteq X /\ lists.safes \subseteq X
    BY <1>5
  <2>2. <<probe[i].shape, NoKey>> \in X /\ <<probe[i].shape, probe[i].key>> \in X
    BY <1>4
  <2>3. LearnSecret(lists, probe[i].shape, probe[i].key) \in A
    BY <1>5, <2>1, <2>2 DEF LearnSecret
  <2>4. LearnSafe(lists, probe[i].shape, probe[i].key) \in A
    BY <1>5, <2>1, <2>2 DEF LearnSafe
  <2>5. QED
    BY <2>3, <2>4 DEF LearnAt
<1>8. \E f : f = body(f)
  <2>1. PICK step : step = [x \in A \X (1 .. n) |-> LearnAt(x[1], probe, answers, x[2])]
    OBVIOUS
  <2>2. step \in [A \X (1 .. n) -> A]
    BY <1>7, <2>1
  <2>3. PICK f : IsFold(f, A, known, n, step)
    BY <1>6, <2>2, FoldExists
  <2>4. /\ f \in [SUBSET (1 .. n) -> A]
        /\ \A s \in SUBSET (1 .. n) : f[s] = FoldAt(f, known, step, s)
    BY <2>3 DEF IsFold
  <2>5. ASSUME NEW s \in SUBSET (1 .. n), s # {}
        PROVE  f[s] = LearnAt(f[s \ {Max(s)}], probe, answers, turns[Max(s)])
    <3>1. Max(s) \in 1 .. n /\ s \ {Max(s)} \in SUBSET (1 .. n)
      BY <2>5, MaxIn
    <3>2. <<f[s \ {Max(s)}], Max(s)>> \in A \X (1 .. n)
      BY <2>4, <3>1
    <3>3. step[<<f[s \ {Max(s)}], Max(s)>>]
            = LearnAt(f[s \ {Max(s)}], probe, answers, turns[Max(s)])
      BY <1>3, <2>1, <3>1, <3>2
    <3>4. QED
      BY <2>4, <2>5, <3>3 DEF FoldAt
  <2>6. f[{}] = known
    BY <2>4 DEF FoldAt
  <2>7. f = [s \in SUBSET (1 .. n) |-> f[s]]
    BY <2>4
  <2>8. f = [s \in SUBSET (1 .. n) |->
              IF s = {} THEN known
              ELSE LearnAt(f[s \ {Max(s)}], probe, answers, turns[Max(s)])]
    BY <2>5, <2>6, <2>7
  <2>9. f = body(f)
    <3> HIDE DEF turns
    <3>1. QED
      BY <1>3, <2>8
  <2>10. QED
    BY <2>9
<1>9. g = body(g)
  BY <1>1, <1>8
<1>10. \A s \in SUBSET (1 .. n) :
         g[s] = IF s = {} THEN known
                ELSE LearnAt(g[s \ {Max(s)}], probe, answers, turns[Max(s)])
  BY <1>3, <1>9
<1>11. PICK h : h = [i \in 0 .. n |-> g[1 .. i]]
  OBVIOUS
<1>12. h[0] = known
  <2>1. 1 .. 0 = {} /\ 0 \in 0 .. n /\ {} \in SUBSET (1 .. n)
    OBVIOUS
  <2>2. QED
    BY <1>10, <1>11, <2>1
<1>13. ASSUME NEW i \in 1 .. n
       PROVE  h[i] = LearnAt(h[i - 1], probe, answers, i)
  <2>1. i \in 0 .. n /\ i - 1 \in 0 .. n
    OBVIOUS
  <2>2. /\ 1 .. i \in SUBSET (1 .. n) /\ 1 .. i # {} /\ Max(1 .. i) = i
        /\ (1 .. i) \ {i} = 1 .. (i - 1)
    BY PrefixSets
  <2>3. g[1 .. i] = LearnAt(g[(1 .. i) \ {Max(1 .. i)}], probe, answers, turns[Max(1 .. i)])
    BY <1>10, <2>2
  <2>4. g[1 .. i] = LearnAt(g[1 .. (i - 1)], probe, answers, i)
    BY <1>3, <2>2, <2>3
  <2>5. QED
    BY <1>11, <2>1, <2>4
<1>14. h[n] = g[1 .. n]
  BY <1>11
<1>15. QED
  BY <1>2, <1>3, <1>12, <1>13, <1>14

-----------------------------------------------------------------------------
(* What is sent.                                                             *)

\* A value has one number, and its shape.
Masked(masking) ==
    /\ \E M : masking \in Seq(M)
    /\ \A i, j \in DOMAIN masking : masking[i].value = masking[j].value => i = j
    /\ \A i \in DOMAIN masking : masking[i].shape = ShapeOf[masking[i].value]

Longer(masking, later) ==
    \A i \in DOMAIN masking : i \in DOMAIN later /\ later[i] = masking[i]

\* Why a word is shown as it is.
Fair(item, masking, lists) ==
    /\ item.as = "clear" =>
         \/ ~HasShape(item.word.value)
         \/ /\ <<ShapeOf[item.word.value], NoKey>> \notin lists.secrets
            /\ \/ ShapeOf[item.word.value] \in Hashes /\ item.word.key = NoKey
               \/ <<ShapeOf[item.word.value], item.word.key>> \in lists.safes
    /\ item.as = "described" =>
         item.number \in DOMAIN masking /\ masking[item.number].value = item.word.value

LEMMA FairLonger ==
    ASSUME NEW item, NEW masking, NEW later, NEW lists,
           Fair(item, masking, lists), Longer(masking, later)
    PROVE  Fair(item, later, lists)
BY DEF Fair, Longer

LEMMA MaskedLonger ==
    ASSUME NEW masking, Masked(masking), NEW value,
           \A i \in DOMAIN masking : masking[i].value # value,
           NEW entry, entry.value = value, entry.shape = ShapeOf[value]
    PROVE  /\ Masked(Append(masking, entry)) /\ Longer(masking, Append(masking, entry))
           /\ Len(masking) + 1 \in DOMAIN Append(masking, entry)
           /\ Append(masking, entry)[Len(masking) + 1] = entry
<1>1. PICK M : masking \in Seq(M)
  BY DEF Masked
<1>2. PICK m : m = Append(masking, entry)
  OBVIOUS
<1>3. PICK n \in Nat : n = Len(masking) /\ DOMAIN masking = 1 .. n
  BY <1>1
<1>4. m \in Seq(M \cup {entry}) /\ DOMAIN m = 1 .. n + 1
      /\ m[n + 1] = entry /\ \A i \in 1 .. n : m[i] = masking[i]
  BY <1>1, <1>2, <1>3
<1>5. \A i, j \in 1 .. n + 1 : m[i].value = m[j].value => i = j
  <2>1. \A i \in 1 .. n + 1 : i \in 1 .. n \/ i = n + 1
    OBVIOUS
  <2>2. \A i \in 1 .. n : m[i].value # value
    BY <1>3, <1>4
  <2>3. \A i, j \in 1 .. n : m[i].value = m[j].value => i = j
    BY <1>3, <1>4 DEF Masked
  <2>4. m[n + 1].value = value
    BY <1>4
  <2>5. QED
    BY <2>1, <2>2, <2>3, <2>4
<1>6. \A i \in 1 .. n + 1 : m[i].shape = ShapeOf[m[i].value]
  <2>1. \A i \in 1 .. n + 1 : i \in 1 .. n \/ i = n + 1
    OBVIOUS
  <2>2. \A i \in 1 .. n : m[i].shape = ShapeOf[m[i].value]
    BY <1>3, <1>4 DEF Masked
  <2>3. QED
    BY <1>4, <2>1, <2>2
<1>7. Masked(m)
  BY <1>4, <1>5, <1>6 DEF Masked
<1>8. Longer(masking, m)
  BY <1>3, <1>4 DEF Longer
<1>9. QED
  BY <1>2, <1>3, <1>4, <1>7, <1>8

\* How far a text is.
Fine(done, masking, lists) ==
    /\ Masked(done.masking) /\ Longer(masking, done.masking)
    /\ \E S : done.text \in Seq(S)
    /\ \A i \in DOMAIN done.text : Fair(done.text[i], done.masking, lists)

LEMMA FineAt ==
    ASSUME NEW done, NEW masking, NEW lists, Fine(done, masking, lists), NEW word,
           NEW later, later = RedactAt(done, word, lists)
    PROVE  Fine(later, masking, lists)
<1>1. PICK next : next = ReplaceWord(word, done.masking, lists)
  OBVIOUS
<1>2. later.text = Append(done.text, next.shown) /\ later.masking = next.masking
  BY <1>1 DEF RedactAt
<1>3. PICK k : k = NumberOf(done.masking, word.value)
  OBVIOUS
<1>4. PICK M : done.masking \in Seq(M)
  BY DEF Fine, Masked
<1>5. /\ Masked(next.masking) /\ Longer(done.masking, next.masking)
      /\ Fair(next.shown, next.masking, lists)
  <2>1. CASE next.shown = Shown("redacted", word, 0) /\ next.masking = done.masking
    BY <2>1 DEF Fine, Longer, Fair, Shown
  <2>2. CASE /\ next.shown = Shown("clear", word, 0) /\ next.masking = done.masking
             /\ \/ ~HasShape(word.value)
                \/ /\ <<ShapeOf[word.value], NoKey>> \notin lists.secrets
                   /\ \/ ShapeOf[word.value] \in Hashes /\ word.key = NoKey
                      \/ <<ShapeOf[word.value], word.key>> \in lists.safes
    <3>1. next.shown.as = "clear" /\ next.shown.word = word
      BY <2>2 DEF Shown
    <3>2. Fair(next.shown, next.masking, lists)
      BY <2>2, <3>1 DEF Fair
    <3>3. QED
      BY <2>2, <3>2 DEF Fine, Longer
  <2>3. CASE /\ next.shown = Shown("described", word, k)
             /\ k <= Len(done.masking) /\ next.masking = done.masking
    <3>1. k \in DOMAIN done.masking /\ done.masking[k].value = word.value
      BY <1>3, <1>4, <2>3, NumberIs
    <3>2. /\ next.shown.as = "described" /\ next.shown.word = word
          /\ next.shown.number = k
      BY <2>3 DEF Shown
    <3>3. Fair(next.shown, next.masking, lists)
      BY <2>3, <3>1, <3>2 DEF Fair
    <3>4. QED
      BY <2>3, <3>3 DEF Fine, Longer
  <2>4. CASE /\ next.shown = Shown("described", word, k)
             /\ ~(k <= Len(done.masking))
             /\ next.masking = Append(done.masking, [value |-> word.value,
                                 shape |-> ShapeOf[word.value], key |-> word.key])
    <3>1. PICK entry : entry = [value |-> word.value, shape |-> ShapeOf[word.value],
                                key |-> word.key]
      OBVIOUS
    <3>2. /\ k = Len(done.masking) + 1
          /\ \A i \in DOMAIN done.masking : done.masking[i].value # word.value
      BY <1>3, <1>4, <2>4, NumberIs
    <3>3. Masked(done.masking) /\ entry.value = word.value /\ entry.shape = ShapeOf[word.value]
      BY <3>1 DEF Fine
    <3>4. PICK m : m = Append(done.masking, entry)
      OBVIOUS
    <3>5. /\ Masked(m) /\ Longer(done.masking, m) /\ k \in DOMAIN m /\ m[k] = entry
      BY <3>2, <3>3, <3>4, MaskedLonger
    <3>6. /\ next.shown.as = "described" /\ next.shown.word = word
          /\ next.shown.number = k /\ next.masking = m
      BY <2>4, <3>1, <3>4 DEF Shown
    <3>7. Fair(next.shown, next.masking, lists)
      BY <3>3, <3>5, <3>6 DEF Fair
    <3>8. QED
      BY <3>5, <3>6, <3>7
  <2>5. QED
    BY <1>1, <1>3, <2>1, <2>2, <2>3, <2>4, WordIs
<1>6. \E S : later.text \in Seq(S)
  <2>1. PICK S : done.text \in Seq(S)
    BY DEF Fine
  <2>2. Append(done.text, next.shown) \in Seq(S \cup {next.shown})
    BY <2>1
  <2>3. QED
    BY <1>2, <2>2
<1>7. \A i \in DOMAIN later.text : Fair(later.text[i], later.masking, lists)
  <2>1. PICK S : done.text \in Seq(S)
    BY DEF Fine
  <2>2. PICK n \in Nat : n = Len(done.text) /\ DOMAIN done.text = 1 .. n
    BY <2>1
  <2>3. /\ DOMAIN later.text = 1 .. n + 1 /\ later.text[n + 1] = next.shown
        /\ \A i \in 1 .. n : later.text[i] = done.text[i]
    BY <1>2, <2>1, <2>2
  <2>4. \A i \in 1 .. n : Fair(done.text[i], next.masking, lists)
    BY <1>5, <2>2, FairLonger DEF Fine
  <2>5. \A i \in 1 .. n + 1 : i \in 1 .. n \/ i = n + 1
    OBVIOUS
  <2>6. QED
    BY <1>2, <1>5, <2>3, <2>4, <2>5
<1>8. Longer(masking, later.masking)
  BY <1>2, <1>5 DEF Fine, Longer
<1>9. QED
  BY <1>2, <1>5, <1>6, <1>7, <1>8 DEF Fine

LEMMA RedactIs ==
    ASSUME NEW W, NEW words \in Seq(W), NEW masking, Masked(masking), NEW lists
    PROVE  Fine(Redact(words, masking, lists), masking, lists)
<1>1. PICK M : masking \in Seq(M)
  BY DEF Masked
<1>2. PICK n \in Nat : n = Len(words) /\ DOMAIN words = 1 .. n
  OBVIOUS
<1>3. PICK h : /\ h[0] = [text |-> << >>, masking |-> masking]
               /\ \A i \in 1 .. n : h[i] = RedactAt(h[i - 1], words[i], lists)
               /\ Redact(words, masking, lists) = h[n]
  BY <1>1, <1>2, RedactRuns
<1>4. Fine(h[0], masking, lists)
  <2>1. h[0].text = << >> /\ h[0].masking = masking
    BY <1>3
  <2>2. << >> \in Seq({}) /\ DOMAIN << >> = {}
    OBVIOUS
  <2>3. QED
    BY <2>1, <2>2 DEF Fine, Longer
<1>5. PICK T : T = {i \in 0 .. n : Fine(h[i], masking, lists)}
  OBVIOUS
<1>6. ASSUME NEW i \in 1 .. n, i - 1 \in T
      PROVE  i \in T
  <2>1. Fine(h[i], masking, lists)
    BY <1>3, <1>5, <1>6, FineAt
  <2>2. QED
    BY <1>5, <2>1
<1>7. 0 \in T /\ n \in 0 .. n
  BY <1>4, <1>5
<1>8. n \in T
  BY <1>6, <1>7, Upwards
<1>9. QED
  BY <1>3, <1>5, <1>8

-----------------------------------------------------------------------------
(* Situations.                                                               *)

ActivityEntries == [signal : Nat, of : Speakers, words : Seq(Words)]

\* The entries are of the agent's last signals, without a gap.
EndsWith(entries, a, all) ==
    /\ Len(entries) <= Len(all)
    /\ \A i \in 1 .. Len(entries) :
         entries[i].of = a /\ entries[i].signal = all[Len(all) - Len(entries) + i]

LEMMA EndOfEnd ==
    ASSUME NEW E, NEW entries \in Seq(E), NEW a, NEW all \in Seq(Nat),
           EndsWith(entries, a, all), NEW n \in 1 .. Len(entries) + 1
    PROVE  /\ SubSeq(entries, n, Len(entries)) \in Seq(E)
           /\ Len(SubSeq(entries, n, Len(entries))) = Len(entries) + 1 - n
           /\ EndsWith(SubSeq(entries, n, Len(entries)), a, all)
<1>1. PICK m \in Nat : m = Len(entries) /\ DOMAIN entries = 1 .. m
  OBVIOUS
<1>2. PICK e : e = SubSeq(entries, n, m)
  OBVIOUS
<1>3. /\ e \in Seq(E) /\ Len(e) = m + 1 - n
      /\ \A i \in 1 .. m + 1 - n : e[i] = entries[n + i - 1]
  BY <1>1, <1>2
<1>4. PICK k \in Nat : k = Len(all)
  OBVIOUS
<1>5. m <= k /\ \A i \in 1 .. m : entries[i].of = a /\ entries[i].signal = all[k - m + i]
  BY <1>1, <1>4 DEF EndsWith
<1>6. ASSUME NEW i \in 1 .. m + 1 - n
      PROVE  e[i].of = a /\ e[i].signal = all[k - (m + 1 - n) + i]
  <2>1. n + i - 1 \in 1 .. m /\ k - m + (n + i - 1) = k - (m + 1 - n) + i
    BY <1>1
  <2>2. QED
    BY <1>3, <1>5, <2>1
<1>7. m + 1 - n <= k
  BY <1>1, <1>5
<1>8. EndsWith(e, a, all)
  BY <1>3, <1>4, <1>6, <1>7 DEF EndsWith
<1>9. QED
  BY <1>1, <1>2, <1>3, <1>8

LEMMA EndAppended ==
    ASSUME NEW E, NEW entries \in Seq(E), NEW a, NEW all \in Seq(Nat),
           EndsWith(entries, a, all), NEW entry \in E, entry.of = a, entry.signal \in Nat
    PROVE  EndsWith(Append(entries, entry), a, Append(all, entry.signal))
<1>1. PICK m \in Nat, k \in Nat : m = Len(entries) /\ k = Len(all)
  OBVIOUS
<1>2. PICK e, b : e = Append(entries, entry) /\ b = Append(all, entry.signal)
  OBVIOUS
<1>3. /\ Len(e) = m + 1 /\ e[m + 1] = entry /\ \A i \in 1 .. m : e[i] = entries[i]
      /\ Len(b) = k + 1 /\ b[k + 1] = entry.signal /\ \A i \in 1 .. k : b[i] = all[i]
  BY <1>1, <1>2
<1>4. m <= k /\ \A i \in 1 .. m : entries[i].of = a /\ entries[i].signal = all[k - m + i]
  BY <1>1 DEF EndsWith
<1>5. ASSUME NEW i \in 1 .. m + 1
      PROVE  e[i].of = a /\ e[i].signal = b[(k + 1) - (m + 1) + i]
  <2>1. CASE i = m + 1
    <3>1. (k + 1) - (m + 1) + i = k + 1
      BY <1>1, <2>1
    <3>2. QED
      BY <1>3, <2>1, <3>1
  <2>2. CASE i # m + 1
    <3>1. i \in 1 .. m /\ (k + 1) - (m + 1) + i = k - m + i /\ k - m + i \in 1 .. k
      BY <1>1, <1>4, <2>2
    <3>2. QED
      BY <1>3, <1>4, <3>1
  <2>3. QED
    BY <2>1, <2>2
<1>6. m + 1 <= k + 1
  BY <1>4
<1>7. EndsWith(e, a, b)
  BY <1>3, <1>5, <1>6 DEF EndsWith
<1>8. QED
  BY <1>2, <1>7

\* The newest are an end, and one at least.
LEMMA NewestIs ==
    ASSUME NEW E, NEW entries \in Seq(E), entries # << >>, NEW bound
    PROVE  \E n \in 1 .. Len(entries) :
             NewestWithin(entries, bound) = SubSeq(entries, n, Len(entries))
<1> DEFINE fits == {n \in 1 .. Len(entries) :
                      Held(SubSeq(entries, n, Len(entries))) <= bound} \cup {Len(entries)}
<1>1. Len(entries) \in Nat \ {0}
  OBVIOUS
<1>2. PICK F : F = fits
  OBVIOUS
<1>3. F \in SUBSET (1 .. Len(entries)) /\ F # {}
  BY <1>1, <1>2
<1>4. F \in SUBSET Nat
  BY <1>1, <1>3
<1>5. PICK n : n = CHOOSE k \in F : \A m \in F : k <= m
  OBVIOUS
<1>6. n \in F
  BY <1>3, <1>4, <1>5, Least
<1>7. NewestWithin(entries, bound) = SubSeq(entries, n, Len(entries))
  BY <1>2, <1>5 DEF NewestWithin
<1>8. QED
  BY <1>3, <1>6, <1>7

LEMMA NewestEnds ==
    ASSUME NEW E, NEW entries \in Seq(E), entries # << >>, NEW bound,
           NEW a, NEW all \in Seq(Nat), EndsWith(entries, a, all)
    PROVE  /\ NewestWithin(entries, bound) \in Seq(E)
           /\ NewestWithin(entries, bound) # << >>
           /\ EndsWith(NewestWithin(entries, bound), a, all)
<1>1. PICK n \in 1 .. Len(entries) :
        NewestWithin(entries, bound) = SubSeq(entries, n, Len(entries))
  BY NewestIs
<1>2. n \in 1 .. Len(entries) + 1 /\ Len(entries) + 1 - n > 0
  OBVIOUS
<1>3. PICK e : e = SubSeq(entries, n, Len(entries))
  OBVIOUS
<1>4. e \in Seq(E) /\ Len(e) > 0 /\ EndsWith(e, a, all)
  BY <1>2, <1>3, EndOfEnd
<1>5. e # << >>
  BY <1>4
<1>6. NewestWithin(entries, bound) = e
  BY <1>1, <1>3
<1>7. QED
  BY <1>4, <1>5, <1>6

LEMMA ClippedIs ==
    ASSUME NEW saying \in Sayings
    PROVE  Clipped(saying.words, Clips[saying.clip]) \in Seq(Words)
<1>1. PICK words \in Seq(Words), head \in Nat, tail \in Nat :
        /\ words = saying.words
        /\ head = Clips[saying.clip].head /\ tail = Clips[saying.clip].tail
  BY WordsAssumption, ActivityAssumption
<1>2. CASE Len(words) <= head + tail
  BY <1>1, <1>2 DEF Clipped
<1>3. CASE ~(Len(words) <= head + tail)
  <2>1. SubSeq(words, 1, head) \in Seq(Words)
    BY <1>3
  <2>2. SubSeq(words, Len(words) - tail + 1, Len(words)) \in Seq(Words)
    BY <1>3
  <2>3. QED
    BY <1>1, <1>3, <2>1, <2>2 DEF Clipped
<1>4. QED
  BY <1>2, <1>3

\* A situation is of what its agent did last.
IsSituation(situation, a, all) ==
    situation.entries \in Seq(ActivityEntries) /\ EndsWith(situation.entries, a, all)

\* An entry, with none or the oldest of the others gone.
LEMMA RecordIs ==
    ASSUME NEW a \in Speakers, NEW situation, NEW all \in Seq(Nat),
           IsSituation(situation, a, all), NEW entry \in ActivityEntries, entry.of = a,
           NEW at, NEW later, later = Record(situation, entry, TRUE, at)
    PROVE  IsSituation(later, a, Append(all, entry.signal)) /\ later.entries # << >>
<1>1. PICK entries : entries = situation.entries
  OBVIOUS
<1>2. entries \in Seq(ActivityEntries) /\ EndsWith(entries, a, all)
  BY <1>1 DEF IsSituation
<1>3. PICK kept : kept = IF Len(entries) = MaxEntries THEN Tail(entries) ELSE entries
  OBVIOUS
<1>4. kept \in Seq(ActivityEntries) /\ EndsWith(kept, a, all)
  <2>1. CASE Len(entries) = MaxEntries
    <3>1. Len(entries) \in Nat \ {0} /\ 2 \in 1 .. Len(entries) + 1
      BY <1>2, <2>1, ActivityAssumption
    <3>2. Tail(entries) = SubSeq(entries, 2, Len(entries))
      BY <1>2, <3>1
    <3>3. kept = SubSeq(entries, 2, Len(entries))
      BY <1>3, <2>1, <3>2
    <3>4. /\ SubSeq(entries, 2, Len(entries)) \in Seq(ActivityEntries)
          /\ EndsWith(SubSeq(entries, 2, Len(entries)), a, all)
      BY <1>2, <3>1, EndOfEnd
    <3>5. QED
      BY <3>3, <3>4
  <2>2. CASE Len(entries) # MaxEntries
    BY <1>2, <1>3, <2>2
  <2>3. QED
    BY <2>1, <2>2
<1>5. entry.signal \in Nat
  BY DEF ActivityEntries
<1>6. PICK e, b : e = Append(kept, entry) /\ b = Append(all, entry.signal)
  OBVIOUS
<1>7. e \in Seq(ActivityEntries) /\ e # << >> /\ b \in Seq(Nat)
  BY <1>4, <1>5, <1>6
<1>8. EndsWith(e, a, b)
  BY <1>4, <1>5, <1>6, EndAppended
<1>9. later.entries = NewestWithin(e, MaxStateChars)
  BY <1>1, <1>3, <1>6 DEF Record
<1>10. QED
  BY <1>6, <1>7, <1>8, <1>9, NewestEnds DEF IsSituation

\* Every agent's situation is of what it did last.
AreSituations(known, all) ==
    /\ DOMAIN known \subseteq Speakers
    /\ \A b \in DOMAIN known : IsSituation(known[b], b, all[b])

LEMMA SituationOfIs ==
    ASSUME NEW known, NEW all \in [Speakers -> Seq(Nat)], AreSituations(known, all),
           NEW a \in Speakers
    PROVE  IsSituation(SituationOf(known, a), a, all[a])
<1>1. CASE a \in DOMAIN known
  BY <1>1 DEF SituationOf, AreSituations
<1>2. CASE a \notin DOMAIN known
  <2>1. SituationOf(known, a).entries = << >>
    BY <1>2 DEF SituationOf, NothingDone
  <2>2. << >> \in Seq(ActivityEntries) /\ Len(<< >>) = 0 /\ 0 <= Len(all[a])
    OBVIOUS
  <2>3. QED
    BY <2>1, <2>2 DEF IsSituation, EndsWith
<1>3. QED
  BY <1>1, <1>2

\* What a signal's entry would be.
EntryOf(a, saying) ==
    [signal |-> signals + 1, of |-> a, words |-> Clipped(saying.words, Clips[saying.clip])]

Put(known, rest, a, saying, at) ==
    [b \in rest \cup {a} |->
        IF b = a THEN Record(SituationOf(known, a), EntryOf(a, saying), saying.line, at)
        ELSE known[b]]

LEMMA RemembersAre ==
    ASSUME NEW known, NEW a, NEW saying, NEW at, NEW later \in Remembers(known, a, saying, at)
    PROVE  \/ ~saying.remembered /\ later = known
           \/ /\ saying.remembered
              /\ \E rest \in SUBSET DOMAIN known : later = Put(known, rest, a, saying, at)
<1>1. CASE ~saying.remembered
  BY <1>1 DEF Remembers
<1>2. CASE saying.remembered /\ (a \in DOMAIN known \/ Cardinality(DOMAIN known) < MaxAgents)
  <2>1. later = Put(known, DOMAIN known, a, saying, at)
    BY <1>2 DEF Remembers, Put, EntryOf
  <2>2. QED
    BY <1>2, <2>1
<1>3. CASE saying.remembered /\ ~(a \in DOMAIN known \/ Cardinality(DOMAIN known) < MaxAgents)
  <2>1. PICK old \in Oldest(known) : later = Put(known, DOMAIN known \ {old}, a, saying, at)
    BY <1>3 DEF Remembers, Put, EntryOf
  <2>2. DOMAIN known \ {old} \in SUBSET DOMAIN known
    OBVIOUS
  <2>3. QED
    BY <1>3, <2>1, <2>2
<1>4. QED
  BY <1>1, <1>2, <1>3

\* Everyone's activity `all` after `saying` of `a`, and a memory that follows it.
AddsTo(now, all, a, saying) ==
    now = IF MakesEntry(saying) THEN [all EXCEPT ![a] = Append(@, signals + 1)] ELSE all

Follows(later, now, a, saying) ==
    /\ now \in [Speakers -> Seq(Nat)] /\ AreSituations(later, now)
    /\ MakesEntry(saying) => SituationOf(later, a).entries # << >>

Told(all) == all \in [Speakers -> Seq(Nat)]

LEMMA RemembersIs ==
    ASSUME NEW known, NEW all, Told(all), AreSituations(known, all),
           signals \in Nat, NEW a \in Speakers, NEW saying \in Sayings, NEW at,
           NEW later, later \in Remembers(known, a, saying, at),
           NEW now, AddsTo(now, all, a, saying)
    PROVE  Follows(later, now, a, saying)
<1>0. /\ all \in [Speakers -> Seq(Nat)]
      /\ now = IF MakesEntry(saying) THEN [all EXCEPT ![a] = Append(@, signals + 1)] ELSE all
  BY DEF Told, AddsTo
<1>1. now \in [Speakers -> Seq(Nat)]
  BY <1>0
<1>2. CASE ~saying.remembered
  BY <1>0, <1>1, <1>2, RemembersAre DEF MakesEntry, Follows
<1>3. CASE saying.remembered
  <2>1. PICK rest \in SUBSET DOMAIN known : later = Put(known, rest, a, saying, at)
    BY <1>3, RemembersAre
  <2>2. PICK entry : entry = EntryOf(a, saying)
    OBVIOUS
  <2>3. entry \in ActivityEntries /\ entry.of = a /\ entry.signal = signals + 1
    BY <2>2, ClippedIs DEF EntryOf, ActivityEntries
  <2>4. PICK situation : situation = SituationOf(known, a)
    OBVIOUS
  <2>5. IsSituation(situation, a, all[a])
    BY <1>0, <2>4, SituationOfIs
  <2>6. PICK after : after = Record(situation, entry, saying.line, at)
    OBVIOUS
  <2>7. /\ DOMAIN later = rest \cup {a} /\ later[a] = after
        /\ \A b \in rest \ {a} : later[b] = known[b]
    BY <2>1, <2>2, <2>4, <2>6 DEF Put
  <2>8. IsSituation(after, a, now[a]) /\ (MakesEntry(saying) => after.entries # << >>)
    <3>1. CASE saying.line
      <4>1. MakesEntry(saying)
        BY <1>3, <3>1 DEF MakesEntry
      <4>2. after = Record(situation, entry, TRUE, at)
        BY <2>6, <3>1
      <4>3. now[a] = Append(all[a], entry.signal) /\ all[a] \in Seq(Nat)
        BY <1>0, <2>3, <4>1
      <4>4. QED
        BY <2>3, <2>5, <4>2, <4>3, RecordIs
    <3>2. CASE ~saying.line
      <4>1. ~MakesEntry(saying)
        BY <3>2 DEF MakesEntry
      <4>2. after.entries = situation.entries
        BY <2>6, <3>2 DEF Record
      <4>3. now[a] = all[a]
        BY <1>0, <4>1
      <4>4. QED
        BY <2>5, <4>1, <4>2, <4>3 DEF IsSituation
    <3>3. QED
      BY <3>1, <3>2
  <2>9. ASSUME NEW b \in rest \ {a}
        PROVE  IsSituation(later[b], b, now[b])
    <3>1. b \in DOMAIN known /\ b \in Speakers
      BY DEF AreSituations
    <3>2. now[b] = all[b] /\ later[b] = known[b]
      BY <1>0, <2>7, <3>1
    <3>3. QED
      BY <3>1, <3>2 DEF AreSituations
  <2>10. DOMAIN later \subseteq Speakers
    BY <2>7 DEF AreSituations
  <2>11. AreSituations(later, now)
    BY <2>7, <2>8, <2>9, <2>10 DEF AreSituations
  <2>12. SituationOf(later, a) = after
    BY <2>7 DEF SituationOf
  <2>13. QED
    BY <1>1, <2>8, <2>11, <2>12 DEF Follows
<1>4. QED
  BY <1>2, <1>3

\* A round shows the end of what was done, what is fair to show, and the numbers
\* of what it masks.
Sent(sent, situation, a, all, lists) ==
    /\ Len(sent.entries) \in Nat /\ Len(sent.entries) <= Len(all)
    /\ situation.entries # << >> => Len(sent.entries) > 0
    /\ sent.entries = [i \in 1 .. Len(sent.entries) |->
                         <<a, all[Len(all) - Len(sent.entries) + i]>>]
    /\ Masked(sent.masking)
    /\ \A i \in DOMAIN sent.text : Fair(sent.text[i], sent.masking, lists)

LEMMA RenderIs ==
    ASSUME NEW situation, NEW a, NEW all \in Seq(Nat), IsSituation(situation, a, all),
           NEW quoted, NEW entries, entries = Render(situation.entries, quoted)
    PROVE  /\ entries \in Seq(ActivityEntries) /\ EndsWith(entries, a, all)
           /\ situation.entries # << >> => entries # << >>
<1>1. PICK whole : whole = situation.entries
  OBVIOUS
<1>2. whole \in Seq(ActivityEntries) /\ EndsWith(whole, a, all)
  BY <1>1 DEF IsSituation
<1>3. CASE whole = << >>
  <2>1. entries = << >>
    BY <1>1, <1>3 DEF Render
  <2>2. QED
    BY <1>1, <1>2, <1>3, <2>1
<1>4. CASE whole # << >>
  <2>1. PICK bound : entries = NewestWithin(whole, bound)
    BY <1>1, <1>4 DEF Render
  <2>2. QED
    BY <1>2, <1>4, <2>1, NewestEnds
<1>5. QED
  BY <1>3, <1>4

LEMMA JoinedIs ==
    ASSUME NEW S, NEW one \in Seq(S), NEW two \in Seq(S), NEW i \in DOMAIN (one \o two)
    PROVE  \/ i \in DOMAIN one /\ (one \o two)[i] = one[i]
           \/ \E m \in DOMAIN two : (one \o two)[i] = two[m]
<1>1. PICK j \in Nat, k \in Nat : /\ j = Len(one) /\ DOMAIN one = 1 .. j
                                  /\ k = Len(two) /\ DOMAIN two = 1 .. k
  OBVIOUS
<1>2. i \in 1 .. j + k
  BY <1>1
<1>3. CASE i <= j
  BY <1>1, <1>2, <1>3
<1>4. CASE ~(i <= j)
  <2>1. i - j \in 1 .. k
    BY <1>1, <1>2, <1>4
  <2>2. (one \o two)[i] = two[i - j]
    BY <1>1, <1>2, <1>4
  <2>3. QED
    BY <1>1, <2>1, <2>2
<1>5. QED
  BY <1>3, <1>4

LEMMA SendsIs ==
    ASSUME NEW situation, NEW a, NEW all \in Seq(Nat), IsSituation(situation, a, all),
           NEW quoted \in Seq(Words), NEW lists,
           NEW sent, sent = Sends(situation, quoted, lists)
    PROVE  Sent(sent, situation, a, all, lists)
<1>1. PICK entries : entries = Render(situation.entries, quoted)
  OBVIOUS
<1>2. /\ entries \in Seq(ActivityEntries) /\ EndsWith(entries, a, all)
      /\ situation.entries # << >> => entries # << >>
  BY <1>1, RenderIs
<1>3. PICK n \in Nat : n = Len(entries) /\ DOMAIN entries = 1 .. n
  BY <1>2
<1>4. PICK state : state = Redact(Said(entries), << >>, lists)
  OBVIOUS
<1>5. PICK questions : questions = Redact(quoted, state.masking, lists)
  OBVIOUS
<1>6. /\ sent.entries = [i \in 1 .. n |-> <<entries[i].of, entries[i].signal>>]
      /\ sent.text = state.text \o questions.text /\ sent.masking = questions.masking
  BY <1>1, <1>3, <1>4, <1>5 DEF Sends
<1>7. Said(entries) \in Seq(Words)
  <2>1. \A entry \in ActivityEntries : entry.words \in Seq(Words)
    BY DEF ActivityEntries
  <2>2. QED
    BY <1>2, <2>1, SaidIs
<1>8. Masked(<< >>)
  <2>1. << >> \in Seq({}) /\ DOMAIN << >> = {}
    OBVIOUS
  <2>2. QED
    BY <2>1 DEF Masked
<1>9. Fine(state, << >>, lists)
  BY <1>4, <1>7, <1>8, RedactIs
<1>10. Fine(questions, state.masking, lists)
  BY <1>5, <1>9, RedactIs DEF Fine
<1>11. Masked(sent.masking)
  BY <1>6, <1>10 DEF Fine
<1>12. ASSUME NEW i \in DOMAIN sent.text
       PROVE  Fair(sent.text[i], sent.masking, lists)
  <2>1. PICK S, Q : state.text \in Seq(S) /\ questions.text \in Seq(Q)
    BY <1>9, <1>10 DEF Fine
  <2>2. state.text \in Seq(S \cup Q) /\ questions.text \in Seq(S \cup Q)
    BY <2>1
  <2>3. \/ i \in DOMAIN state.text /\ sent.text[i] = state.text[i]
        \/ \E m \in DOMAIN questions.text : sent.text[i] = questions.text[m]
    <3>1. PICK one, two : one = state.text /\ two = questions.text
      OBVIOUS
    <3>2. sent.text = one \o two /\ one \in Seq(S \cup Q) /\ two \in Seq(S \cup Q)
      BY <1>6, <2>2, <3>1
    <3>3. i \in DOMAIN (one \o two)
      BY <3>2
    <3>4. \/ i \in DOMAIN one /\ (one \o two)[i] = one[i]
          \/ \E m \in DOMAIN two : (one \o two)[i] = two[m]
      BY <3>2, <3>3, JoinedIs
    <3>5. QED
      BY <3>1, <3>2, <3>4
  <2>4. CASE i \in DOMAIN state.text /\ sent.text[i] = state.text[i]
    <3>1. Fair(state.text[i], state.masking, lists)
      BY <1>9, <2>4 DEF Fine
    <3>2. Longer(state.masking, sent.masking)
      BY <1>6, <1>10 DEF Fine
    <3>3. QED
      BY <2>4, <3>1, <3>2, FairLonger
  <2>5. CASE \E m \in DOMAIN questions.text : sent.text[i] = questions.text[m]
    <3>1. PICK m \in DOMAIN questions.text : sent.text[i] = questions.text[m]
      BY <2>5
    <3>2. Fair(questions.text[m], questions.masking, lists)
      BY <1>10 DEF Fine
    <3>3. QED
      BY <1>6, <3>1, <3>2
  <2>6. QED
    BY <2>3, <2>4, <2>5
<1>13. Len(sent.entries) = n
  BY <1>6
<1>14. n <= Len(all)
       /\ \A i \in 1 .. n : entries[i].of = a /\ entries[i].signal = all[Len(all) - n + i]
  BY <1>2, <1>3 DEF EndsWith
<1>15. sent.entries = [i \in 1 .. n |-> <<a, all[Len(all) - n + i]>>]
  BY <1>6, <1>14
<1>16. situation.entries # << >> => n > 0
  BY <1>2, <1>3
<1>17. QED
  BY <1>11, <1>12, <1>13, <1>14, <1>15, <1>16 DEF Sent

-----------------------------------------------------------------------------
(* What is learned.                                                          *)

\* Secrets are listed whatever key they follow, and only what was judged safe
\* is listed as safe.
KnownSecrets(known) == \A x \in known : \E shape : x = <<shape, NoKey>>

LEMMA LearnIs ==
    ASSUME NEW n \in Nat, NEW probe, NEW answers, DOMAIN answers = 1 .. n,
           NEW known, known = [secrets |-> known.secrets, safes |-> known.safes],
           KnownSecrets(known.secrets),
           NEW lists, lists = LearnAll(probe, answers, known)
    PROVE  /\ KnownSecrets(lists.secrets) /\ known.secrets \subseteq lists.secrets
           /\ lists.safes \subseteq known.safes \cup
                {<<probe[i].shape, probe[i].key>> : i \in {j \in 1 .. n : answers[j] = "safe"}}
<1>1. PICK h : /\ h[0] = known
               /\ \A i \in 1 .. n : h[i] = LearnAt(h[i - 1], probe, answers, i)
               /\ LearnAll(probe, answers, known) = h[n]
  BY LearnRuns
<1>2. PICK safe : safe = known.safes \cup
        {<<probe[i].shape, probe[i].key>> : i \in {j \in 1 .. n : answers[j] = "safe"}}
  OBVIOUS
<1> DEFINE Kept(l) == /\ KnownSecrets(l.secrets) /\ known.secrets \subseteq l.secrets
                      /\ l.safes \subseteq safe
<1>3. Kept(known)
  BY <1>2
<1>4. ASSUME NEW i \in 1 .. n, NEW l, Kept(l)
      PROVE  Kept(LearnAt(l, probe, answers, i))
  <2>1. PICK s, k : s = probe[i].shape /\ k = probe[i].key
    OBVIOUS
  <2>2. Kept(LearnSecret(l, s, k))
    <3>1. CASE LearnSecret(l, s, k) = l
      BY <1>4, <3>1
    <3>2. CASE LearnSecret(l, s, k) = [secrets |-> l.secrets \cup {<<s, NoKey>>},
                                       safes |-> l.safes \ {<<s, NoKey>>}]
      <4>1. KnownSecrets(l.secrets \cup {<<s, NoKey>>})
        BY <1>4 DEF KnownSecrets
      <4>2. QED
        BY <1>4, <3>2, <4>1
    <3>3. QED
      BY <3>1, <3>2 DEF LearnSecret
  <2>3. CASE answers[i] = "safe"
    <3>1. <<s, k>> \in safe
      BY <1>2, <2>1, <2>3
    <3>2. CASE LearnSafe(l, s, k) = l
      BY <1>4, <2>1, <2>3, <3>2 DEF LearnAt
    <3>3. CASE /\ k # NoKey
               /\ LearnSafe(l, s, k) = [secrets |-> l.secrets \ {<<s, k>>},
                                        safes |-> l.safes \cup {<<s, k>>}]
      <4>1. <<s, k>> \notin l.secrets
        BY <1>4, <3>3 DEF KnownSecrets
      <4>2. LearnAt(l, probe, answers, i) = LearnSafe(l, s, k)
        BY <2>1, <2>3 DEF LearnAt
      <4>3. l.secrets \ {<<s, k>>} = l.secrets
        BY <4>1
      <4>4. /\ LearnAt(l, probe, answers, i).secrets = l.secrets
            /\ LearnAt(l, probe, answers, i).safes = l.safes \cup {<<s, k>>}
        BY <3>3, <4>2, <4>3
      <4>5. QED
        BY <1>4, <3>1, <4>4
    <3>4. QED
      BY <3>2, <3>3 DEF LearnSafe
  <2>4. CASE answers[i] = "secret"
    BY <2>1, <2>2, <2>4 DEF LearnAt
  <2>5. CASE answers[i] \notin {"safe", "secret"}
    <3>1. LearnAt(l, probe, answers, i) = l
      BY <2>5 DEF LearnAt
    <3>2. QED
      BY <1>4, <3>1
  <2>6. QED
    BY <2>3, <2>4, <2>5
<1>5. PICK T : T = {i \in 0 .. n : Kept(h[i])}
  OBVIOUS
<1>6. ASSUME NEW i \in 1 .. n, i - 1 \in T
      PROVE  i \in T
  <2>1. Kept(h[i - 1])
    BY <1>5, <1>6
  <2> HIDE DEF Kept
  <2>2. Kept(h[i])
    BY <1>1, <1>4, <2>1
  <2>3. QED
    BY <1>5, <2>2
<1>7. 0 \in T /\ n \in 0 .. n
  <2> HIDE DEF Kept
  <2>1. QED
    BY <1>1, <1>3, <1>5
<1>8. n \in T
  BY <1>6, <1>7, Upwards
<1>9. QED
  BY <1>1, <1>2, <1>5, <1>8

-----------------------------------------------------------------------------
(* Rounds.                                                                   *)

\* A run remembers what its agent had done at its signal.
IsActivityRun(a, r) ==
    /\ r = [round |-> r.round, situation |-> r.situation, sent |-> r.sent,
            probe |-> r.probe, did |-> r.did, made |-> r.made]
    /\ r.did \in Seq(Nat) /\ IsSituation(r.situation, a, r.did)
    /\ r.made => r.situation.entries # << >>
    /\ \E n \in Nat : DOMAIN r.probe = 1 .. n

ListsInv ==
    /\ KnownSecrets(secrets)
    /\ \A shape \in branded : <<shape, NoKey>> \in secrets
    /\ safes \subseteq vouched

ActivityInv ==
    /\ signals \in Nat /\ did \in [Speakers -> Seq(Nat)]
    /\ AreSituations(situations, did)
    /\ judging = [a \in Speakers |-> judging[a]]
    /\ \A a \in Speakers : judging[a] = NotJudging \/ IsActivityRun(a, judging[a])
    /\ ListsInv

LEMMA ActivityStarts == ActivityInit => ActivityInv
<1> SUFFICES ASSUME ActivityInit PROVE ActivityInv
  OBVIOUS
<1>1. DOMAIN situations = {}
  BY DEF ActivityInit
<1>2. AreSituations(situations, did)
  BY <1>1 DEF AreSituations
<1>3. ListsInv
  BY DEF ActivityInit, ListsInv, KnownSecrets
<1>4. did \in [Speakers -> Seq(Nat)] /\ signals \in Nat
  BY DEF ActivityInit
<1>5. /\ judging = [a \in Speakers |-> judging[a]]
      /\ \A a \in Speakers : judging[a] = NotJudging
  BY DEF ActivityInit
<1>6. QED
  BY <1>2, <1>3, <1>4, <1>5 DEF ActivityInv

\* What a run shows, and may, of the lists as they are.
OwnRun(a, run) ==
    /\ Len(run.sent.entries) <= Len(run.did)
    /\ run.made => Len(run.sent.entries) > 0
    /\ run.sent.entries = [i \in 1 .. Len(run.sent.entries) |->
                             <<a, run.did[Len(run.did) - Len(run.sent.entries) + i]>>]

FairItem(shown, shape, brands, vouches) ==
    shown.as = "clear" /\ shape # NoShape =>
        \/ shape \in Hashes /\ shown.word.key = NoKey /\ shape \notin brands
        \/ <<shape, shown.word.key>> \in vouches /\ shape \notin brands

FairRun(run, brands, vouches) ==
    \A i \in DOMAIN run.sent.text :
        FairItem(run.sent.text[i], ShapeOf[run.sent.text[i].word.value], brands, vouches)

NumberedRun(sent) ==
    \A one, other \in {sent.text[i] : i \in {j \in DOMAIN sent.text :
                                                sent.text[j].as = "described"}} :
        /\ one.number = other.number <=> one.word.value = other.word.value
        /\ sent.masking[one.number].shape = ShapeOf[one.word.value]

\* What is learned: see ListsInv.
FairLists(lists, brands, vouches) ==
    /\ KnownSecrets(lists.secrets)
    /\ \A shape \in brands : <<shape, NoKey>> \in lists.secrets
    /\ lists.safes \subseteq vouches

LEMMA SentSound ==
    ASSUME NEW a, NEW run, NEW lists, NEW brands, NEW vouches,
           FairLists(lists, brands, vouches),
           Sent(run.sent, run.situation, a, run.did, lists),
           run.made => run.situation.entries # << >>
    PROVE  OwnRun(a, run) /\ FairRun(run, brands, vouches) /\ NumberedRun(run.sent)
<1>1. OwnRun(a, run)
  BY DEF Sent, OwnRun
<1>2. PICK sent : sent = run.sent
  OBVIOUS
<1>3. /\ Masked(sent.masking)
      /\ \A i \in DOMAIN sent.text : Fair(sent.text[i], sent.masking, lists)
  BY <1>2 DEF Sent
<1>4. ASSUME NEW shown, Fair(shown, sent.masking, lists)
      PROVE  FairItem(shown, ShapeOf[shown.word.value], brands, vouches)
  BY <1>4 DEF Fair, FairItem, FairLists, HasShape
<1>5. FairRun(run, brands, vouches)
  BY <1>2, <1>3, <1>4 DEF FairRun
<1>6. NumberedRun(sent)
  <2>1. PICK described : described = {sent.text[i] : i \in {j \in DOMAIN sent.text :
                                          sent.text[j].as = "described"}}
    OBVIOUS
  <2>2. \A item \in described :
          /\ item.number \in DOMAIN sent.masking
          /\ sent.masking[item.number].value = item.word.value
    BY <1>3, <2>1 DEF Fair
  <2>3. ASSUME NEW one \in described, NEW other \in described
        PROVE  /\ one.number = other.number <=> one.word.value = other.word.value
               /\ sent.masking[one.number].shape = ShapeOf[one.word.value]
    BY <1>3, <2>2 DEF Masked
  <2>4. QED
    BY <2>1, <2>3 DEF NumberedRun
<1>7. QED
  BY <1>1, <1>2, <1>5, <1>6

\* What a round shows.
RoundSound(a) == OwnActivity(a) /\ Unrevealed(a) /\ Numbered(a)

LEMMA RoundSoundIs ==
    ASSUME NEW a, OwnRun(a, judging'[a]), FairRun(judging'[a], branded', vouched'),
           NumberedRun(judging'[a].sent)
    PROVE  RoundSound(a)'
<1>1. OwnActivity(a)'
  BY DEF OwnActivity, OwnRun
<1>2. Unrevealed(a)'
  BY DEF Unrevealed, FairRun, FairItem
<1>3. Numbered(a)'
  BY DEF Numbered, NumberedRun
<1>4. QED
  BY <1>1, <1>2, <1>3 DEF RoundSound

\* A round begins with what it sends; the others go on as they did.
LEMMA RoundBegins ==
    ASSUME ActivityInv, NEW a \in Speakers, NEW r, judging' = [judging EXCEPT ![a] = r],
           r = NotJudging \/ IsActivityRun(a, r),
           signals' \in Nat, did' \in [Speakers -> Seq(Nat)],
           AreSituations(situations, did)', ListsInv',
           NEW lists, lists.secrets = secrets', lists.safes = safes',
           r # NotJudging => Sent(r.sent, r.situation, a, r.did, lists)
    PROVE  /\ ActivityInv'
           /\ \A b \in Speakers :
                judging'[b] # judging[b] /\ judging'[b].round > 0 => RoundSound(b)'
<1>1. judging' = [b \in Speakers |-> IF b = a THEN r ELSE judging[b]]
  BY DEF ActivityInv
<1>2. /\ judging' = [b \in Speakers |-> judging'[b]]
      /\ judging'[a] = r /\ \A b \in Speakers \ {a} : judging'[b] = judging[b]
  BY <1>1
<1>3. (\A b \in Speakers : judging[b] = NotJudging \/ IsActivityRun(b, judging[b]))'
  <2>1. ASSUME NEW b \in Speakers
        PROVE  judging'[b] = NotJudging \/ IsActivityRun(b, judging'[b])
    BY <1>2 DEF ActivityInv
  <2>2. QED
    BY <2>1
<1>4. ActivityInv'
  BY <1>2, <1>3 DEF ActivityInv
<1>5. ASSUME NEW b \in Speakers, judging'[b] # judging[b], judging'[b].round > 0
      PROVE  RoundSound(b)'
  <2>1. b = a
    BY <1>2, <1>5
  <2>2. r # NotJudging
    BY <1>2, <1>5, <2>1 DEF NotJudging
  <2>3. Sent(r.sent, r.situation, a, r.did, lists) /\ (r.made => r.situation.entries # << >>)
    BY <2>2 DEF IsActivityRun
  <2>4. FairLists(lists, branded', vouched')
    BY DEF ListsInv, FairLists
  <2>5. OwnRun(a, r) /\ FairRun(r, branded', vouched') /\ NumberedRun(r.sent)
    BY <2>3, <2>4, SentSound
  <2>6. RoundSound(a)'
    BY <1>2, <2>5, RoundSoundIs
  <2>7. QED
    BY <2>1, <2>6
<1>6. QED
  BY <1>4, <1>5

RoundsSound ==
    \A b \in Speakers : judging'[b] # judging[b] /\ judging'[b].round > 0 => RoundSound(b)'

LEMMA RoundsStay ==
    ASSUME ActivityInv, judging' = judging,
           signals' \in Nat, did' \in [Speakers -> Seq(Nat)],
           AreSituations(situations, did)', ListsInv'
    PROVE  ActivityInv' /\ RoundsSound
<1>1. (\A b \in Speakers : judging[b] = NotJudging \/ IsActivityRun(b, judging[b]))'
  <2>1. \A b \in Speakers : judging[b] = NotJudging \/ IsActivityRun(b, judging[b])
    BY DEF ActivityInv
  <2>2. QED
    BY <2>1
<1>2. judging' = [a \in Speakers |-> judging'[a]]
  BY DEF ActivityInv
<1>3. QED
  BY <1>1, <1>2 DEF ActivityInv, RoundsSound

LEMMA ListsStay ==
    ASSUME ListsInv, UNCHANGED <<secrets, safes, branded, vouched>>
    PROVE  ListsInv'
BY DEF ListsInv, KnownSecrets

LEMMA ProbeIs ==
    ASSUME NEW masking, Masked(masking)
    PROVE  \E n \in Nat : DOMAIN Probe(masking) = 1 .. n
<1>1. PICK M : masking \in Seq(M)
  BY DEF Masked
<1>2. PICK n \in Nat : n = IF Len(masking) < MaxShapes THEN Len(masking) ELSE MaxShapes
  BY <1>1, ActivityAssumption
<1>3. Probe(masking) = SubSeq(masking, 1, n) /\ n <= Len(masking)
  BY <1>1, <1>2, ActivityAssumption DEF Probe
<1>4. DOMAIN SubSeq(masking, 1, n) = 1 .. n
  BY <1>1, <1>3
<1>5. QED
  BY <1>3, <1>4

LEMMA StartRunSound ==
    ASSUME ActivityInv, NEW a \in Speakers, NEW saying \in Sayings, NEW at, StartRun(a, saying, at)
    PROVE  ActivityInv' /\ RoundsSound
<1>1. /\ signals \in Nat /\ did \in [Speakers -> Seq(Nat)]
      /\ AreSituations(situations, did) /\ ListsInv
  BY DEF ActivityInv
<1>2. PICK known \in Remembers(situations, a, saying, at) :
        /\ situations' = known
        /\ saying.quoted # << >> =>
             LET situation == SituationOf(known, a)
                 sent == Sends(situation, saying.quoted, Lists)
             IN  judging' = [judging EXCEPT ![a] =
                   [round |-> 1, situation |-> situation, sent |-> sent,
                    probe |-> Probe(sent.masking), did |-> did'[a],
                    made |-> MakesEntry(saying)]]
        /\ saying.quoted = << >> => UNCHANGED judging
  BY DEF StartRun
<1>3. /\ signals' = signals + 1 /\ UNCHANGED <<secrets, safes, branded, vouched>>
      /\ did' = IF MakesEntry(saying) THEN [did EXCEPT ![a] = Append(@, signals + 1)] ELSE did
  BY DEF StartRun
<1>4. PICK now : now = did'
  OBVIOUS
<1>5. /\ now \in [Speakers -> Seq(Nat)] /\ AreSituations(known, now)
      /\ MakesEntry(saying) => SituationOf(known, a).entries # << >>
  <2>1. PICK all : all = did
    OBVIOUS
  <2>2. /\ all \in [Speakers -> Seq(Nat)] /\ AreSituations(situations, all)
        /\ now = IF MakesEntry(saying) THEN [all EXCEPT ![a] = Append(@, signals + 1)]
                 ELSE all
    BY <1>1, <1>3, <1>4, <2>1
  <2>3. PICK before : before = situations
    OBVIOUS
  <2>4. /\ AreSituations(before, all) /\ known \in Remembers(before, a, saying, at)
        /\ signals \in Nat
    BY <1>1, <1>2, <2>2, <2>3
  <2>5. /\ now \in [Speakers -> Seq(Nat)] /\ AreSituations(known, now)
        /\ MakesEntry(saying) => SituationOf(known, a).entries # << >>
    <3>1. Told(all) /\ AddsTo(now, all, a, saying)
      BY <2>2 DEF Told, AddsTo
    <3>2. Follows(known, now, a, saying)
      BY <2>4, <3>1, RemembersIs
    <3>3. QED
      BY <3>2 DEF Follows
  <2>6. QED
    BY <2>5
<1>6. /\ signals' \in Nat /\ did' \in [Speakers -> Seq(Nat)]
      /\ AreSituations(situations, did)' /\ ListsInv'
  <2>1. AreSituations(situations, did)'
    BY <1>2, <1>4, <1>5 DEF AreSituations
  <2>2. ListsInv'
    BY <1>1, <1>3, ListsStay
  <2>3. QED
    BY <1>1, <1>3, <1>4, <1>5, <2>1, <2>2
<1>7. CASE saying.quoted = << >>
  BY <1>2, <1>6, <1>7, RoundsStay
<1>8. CASE saying.quoted # << >>
  <2>1. PICK situation, lists : situation = SituationOf(known, a) /\ lists = Lists
    OBVIOUS
  <2>2. PICK sent : sent = Sends(situation, saying.quoted, lists)
    OBVIOUS
  <2>3. PICK made : made = MakesEntry(saying)
    OBVIOUS
  <2>4. PICK r : r = [round |-> 1, situation |-> situation, sent |-> sent,
                      probe |-> Probe(sent.masking), did |-> now[a], made |-> made]
    OBVIOUS
  <2>5. judging' = [judging EXCEPT ![a] = r]
    BY <1>2, <1>4, <1>8, <2>1, <2>2, <2>3, <2>4
  <2>6. /\ r.situation = situation /\ r.sent = sent /\ r.probe = Probe(sent.masking)
        /\ r.did = now[a] /\ r.made = made
        /\ r = [round |-> r.round, situation |-> r.situation, sent |-> r.sent,
                probe |-> r.probe, did |-> r.did, made |-> r.made]
    BY <2>4
  <2>7. now[a] \in Seq(Nat) /\ IsSituation(situation, a, now[a])
    BY <1>5, <2>1, SituationOfIs
  <2>8. saying.quoted \in Seq(Words)
    BY WordsAssumption
  <2>9. Sent(sent, situation, a, now[a], lists)
    BY <2>2, <2>7, <2>8, SendsIs
  <2>10. \E n \in Nat : DOMAIN Probe(sent.masking) = 1 .. n
    BY <2>9, ProbeIs DEF Sent
  <2>11. made => situation.entries # << >>
    BY <1>5, <2>1, <2>3
  <2>12. IsActivityRun(a, r)
    BY <2>6, <2>7, <2>10, <2>11 DEF IsActivityRun
  <2>13. lists.secrets = secrets' /\ lists.safes = safes'
    BY <1>3, <2>1 DEF Lists
  <2>14. Sent(r.sent, r.situation, a, r.did, lists)
    BY <2>6, <2>9
  <2>15. QED
    BY <1>6, <2>5, <2>12, <2>13, <2>14, RoundBegins DEF RoundsSound
<1>9. QED
  BY <1>7, <1>8

LEMMA ResumeSound ==
    ASSUME ActivityInv, NEW a \in Speakers, judging[a].round > 0,
           NEW answers \in MaySay(a), NEW next \in FollowUps, Resume(a, answers, next)
    PROVE  ActivityInv' /\ RoundsSound
<1>1. PICK run : run = judging[a]
  OBVIOUS
<1>2. IsActivityRun(a, run)
  BY <1>1 DEF ActivityInv, NotJudging
<1>3. PICK lists : lists = LearnAll(run.probe, answers, Lists)
  OBVIOUS
<1>4. PICK safe, secret :
        /\ safe = {<<run.probe[i].shape, run.probe[i].key>> :
                      i \in {j \in DOMAIN answers : answers[j] = "safe"}}
        /\ secret = {p.shape : p \in {run.probe[i] : i \in {j \in DOMAIN answers :
                                                           answers[j] = "secret"}}}
  OBVIOUS
<1>5. /\ secrets' = lists.secrets /\ safes' = lists.safes
      /\ branded' = branded \cup {shape \in secret :
                                    \E key \in Keys : <<shape, key>> \in lists.secrets}
      /\ vouched' = vouched \cup safe
  <2>1. {<<p.shape, p.key>> : p \in {run.probe[i] : i \in {j \in DOMAIN answers :
                                                          answers[j] = "safe"}}} = safe
    BY <1>4
  <2>2. QED
    BY <1>1, <1>3, <1>4, <2>1 DEF Resume
<1>6. judging' = [judging EXCEPT ![a] =
                    IF run.round = 2 \/ next = << >> THEN NotJudging
                    ELSE [run EXCEPT !.round = 2, !.sent = Sends(run.situation, next, lists)]]
  BY <1>1, <1>3 DEF Resume
<1>7. PICK n \in Nat : DOMAIN answers = 1 .. n
  <2>1. PICK m \in Nat : DOMAIN run.probe = 1 .. m
    BY <1>2 DEF IsActivityRun
  <2>2. DOMAIN answers = DOMAIN run.probe \/ DOMAIN answers = {}
    BY <1>1 DEF MaySay
  <2>3. 1 .. 0 = {}
    OBVIOUS
  <2>4. QED
    BY <2>1, <2>2, <2>3
<1>8. /\ KnownSecrets(lists.secrets) /\ secrets \subseteq lists.secrets
      /\ lists.safes \subseteq safes \cup safe
  <2>1. PICK known : known = Lists
    OBVIOUS
  <2>2. /\ known.secrets = secrets /\ known.safes = safes
        /\ known = [secrets |-> known.secrets, safes |-> known.safes]
    BY <2>1 DEF Lists
  <2>3. KnownSecrets(known.secrets)
    BY <2>2 DEF ActivityInv, ListsInv
  <2>4. lists = LearnAll(run.probe, answers, known)
    BY <1>3, <2>1
  <2>5. PICK probe : probe = run.probe
    OBVIOUS
  <2>6. lists = LearnAll(probe, answers, known)
    BY <2>4, <2>5
  <2>7. /\ KnownSecrets(lists.secrets) /\ known.secrets \subseteq lists.secrets
        /\ lists.safes \subseteq known.safes \cup
             {<<probe[i].shape, probe[i].key>> :
                 i \in {j \in 1 .. n : answers[j] = "safe"}}
    BY <1>7, <2>2, <2>3, <2>6, LearnIs
  <2>8. QED
    BY <1>4, <1>7, <2>2, <2>5, <2>7
<1>9. ListsInv'
  <2>1. /\ \A shape \in branded : <<shape, NoKey>> \in secrets
        /\ safes \subseteq vouched
    BY DEF ActivityInv, ListsInv
  <2>2. ASSUME NEW shape \in branded'
        PROVE  <<shape, NoKey>> \in secrets'
    <3>1. CASE shape \in branded
      BY <1>5, <1>8, <2>1, <3>1
    <3>2. CASE shape \notin branded
      <4>1. PICK key \in Keys : <<shape, key>> \in lists.secrets
        BY <1>5, <3>2
      <4>2. key = NoKey
        BY <1>8, <4>1 DEF KnownSecrets
      <4>3. QED
        BY <1>5, <4>1, <4>2
    <3>3. QED
      BY <3>1, <3>2
  <2>3. safes' \subseteq vouched'
    BY <1>5, <1>8, <2>1
  <2>4. KnownSecrets(secrets)'
    BY <1>5, <1>8 DEF KnownSecrets
  <2>5. QED
    BY <2>2, <2>3, <2>4 DEF ListsInv
<1>10. /\ signals' \in Nat /\ did' \in [Speakers -> Seq(Nat)]
       /\ AreSituations(situations, did)'
  BY DEF Resume, ActivityInv, AreSituations
<1>11. CASE run.round = 2 \/ next = << >>
  <2>1. judging' = [judging EXCEPT ![a] = NotJudging]
    BY <1>6, <1>11
  <2>2. QED
    BY <1>5, <1>9, <1>10, <2>1, RoundBegins DEF RoundsSound
<1>12. CASE ~(run.round = 2 \/ next = << >>)
  <2>1. PICK sent : sent = Sends(run.situation, next, lists)
    OBVIOUS
  <2>2. PICK r : r = [round |-> 2, situation |-> run.situation, sent |-> sent,
                      probe |-> run.probe, did |-> run.did, made |-> run.made]
    OBVIOUS
  <2>3. [run EXCEPT !.round = 2, !.sent = sent] = r
    <3>1. PICK x, y, z, p, d, m : run = [round |-> x, situation |-> y, sent |-> z,
                                         probe |-> p, did |-> d, made |-> m]
      BY <1>2 DEF IsActivityRun
    <3>4. run.situation = y /\ run.probe = p /\ run.did = d /\ run.made = m
      BY <3>1
    <3>2. [run EXCEPT !.round = 2, !.sent = sent]
            = [round |-> 2, situation |-> y, sent |-> sent, probe |-> p, did |-> d,
                  made |-> m]
      <4>1. PICK again : again = [run EXCEPT !.round = 2]
        OBVIOUS
      <4>2. again = [round |-> 2, situation |-> y, sent |-> z, probe |-> p, did |-> d,
                     made |-> m]
        BY ONLY <3>1, <4>1
      <4>3. [again EXCEPT !.sent = sent]
              = [round |-> 2, situation |-> y, sent |-> sent, probe |-> p, did |-> d,
                 made |-> m]
        BY ONLY <4>2
      <4>4. [run EXCEPT !.round = 2, !.sent = sent] = [again EXCEPT !.sent = sent]
        BY ONLY <4>1
      <4>5. QED
        BY ONLY <4>3, <4>4
    <3>3. QED
      BY <2>2, <3>2, <3>4
  <2>4. judging' = [judging EXCEPT ![a] = r]
    BY <1>6, <1>12, <2>1, <2>3
  <2>5. /\ r.situation = run.situation /\ r.sent = sent /\ r.probe = run.probe
        /\ r.did = run.did /\ r.made = run.made
        /\ r = [round |-> r.round, situation |-> r.situation, sent |-> r.sent,
                probe |-> r.probe, did |-> r.did, made |-> r.made]
    BY <2>2
  <2>6. IsActivityRun(a, r)
    BY <1>2, <2>5 DEF IsActivityRun
  <2>7. next \in Seq(Words)
    BY WordsAssumption
  <2>8. Sent(sent, run.situation, a, run.did, lists)
    BY <1>2, <2>1, <2>7, SendsIs DEF IsActivityRun
  <2>9. Sent(r.sent, r.situation, a, r.did, lists)
    BY <2>5, <2>8
  <2>10. QED
    BY <1>5, <1>9, <1>10, <2>4, <2>6, <2>9, RoundBegins DEF RoundsSound
<1>13. QED
  BY <1>11, <1>12

LEMMA CancelRunSound ==
    ASSUME ActivityInv, NEW a \in Speakers, CancelRun(a)
    PROVE  ActivityInv' /\ RoundsSound
<1>1. judging' = [judging EXCEPT ![a] = NotJudging]
  BY DEF CancelRun
<1>2. /\ signals' \in Nat /\ did' \in [Speakers -> Seq(Nat)]
      /\ AreSituations(situations, did)'
  BY DEF CancelRun, ActivityInv, AreSituations
<1>3. ListsInv'
  BY ListsStay DEF CancelRun, ActivityInv
<1>4. PICK lists : lists = [secrets |-> secrets', safes |-> safes']
  OBVIOUS
<1>5. lists.secrets = secrets' /\ lists.safes = safes'
  BY <1>4
<1>6. QED
  BY <1>1, <1>2, <1>3, <1>5, RoundBegins DEF RoundsSound

LEMMA ActivityStep ==
    ASSUME ActivityInv, [ActivityNext]_activityVars
    PROVE  ActivityInv' /\ RoundsSound
<1>1. CASE ActivityNext
  BY <1>1, StartRunSound, ResumeSound, CancelRunSound DEF ActivityNext
<1>2. CASE UNCHANGED activityVars
  <2>1. /\ signals' \in Nat /\ did' \in [Speakers -> Seq(Nat)]
        /\ AreSituations(situations, did)' /\ judging' = judging
    BY <1>2 DEF activityVars, ActivityInv, AreSituations
  <2>2. ListsInv'
    BY <1>2, ListsStay DEF activityVars, ActivityInv
  <2>3. QED
    BY <2>1, <2>2, RoundsStay
<1>3. QED
  BY <1>1, <1>2

\* Whatever other agents do, and whatever is evicted, learned or cancelled in
\* between, every round shows the end of what its agent did up to the signal, and
\* no string whose shape was not judged safe after its key or that was judged a
\* secret, under numbers that say which are the same, for any agents, signals,
\* words, shapes, keys and limits (situation.rs, redact.rs, learning.rs).
THEOREM OwnActivityShown == ActivitySpec => ActivityShown
<1>1. ActivityInit => ActivityInv
  BY ActivityStarts
<1>2. ActivityInv /\ [ActivityNext]_activityVars => ActivityInv'
  BY ActivityStep
<1>3. ActivityInv /\ [ActivityNext]_activityVars =>
        [\A a \in Speakers :
            judging'[a] # judging[a] /\ judging'[a].round > 0 =>
                (OwnActivity(a) /\ Unrevealed(a) /\ Numbered(a))']_activityVars
  BY ActivityStep DEF RoundsSound, RoundSound
<1>4. QED
  BY <1>1, <1>2, <1>3, PTL DEF ActivitySpec, ActivityShown

=============================================================================
