----------------------------- MODULE Judgments ------------------------------
(* A capability's judgment (core/judgment): questions and reasonings asked   *)
(* in rounds, each read by a rule, that ends in a value the capability acts  *)
(* on.  Candidates are judged side by side, each in steps of its own; or one *)
(* screening goes on to System Two.  The engine runs its rounds (Engine).    *)
(* Probabilities and confidences are counted in parts of Scale.              *)
EXTENDS Integers, Sequences, FiniteSets, FiniteSetsExt

CONSTANTS
    Scale,         \* certain
    Candidates,    \* positions of the candidates
    Steps,         \* each one's rules, in order
    ScreenYes, ScreenNo,   \* the rules of a screening
    Escalation,    \* screenings that go on to System Two
    Settles,       \* what the capability reads in the others
    AnswerScale,   \* the values answers take
    MaxRounds

\* A yes or a no at or beyond `at`, or anything but that no, with at least
\* that confidence.
AnswerRule == [kind : {"yes", "no", "unless_no"}, at : 0..Scale,
         confidence : 0..Scale]

Screenings == {"yes", "no", "unsure", "failed"}

ASSUME JudgmentsAssumption ==
    /\ Scale \in Nat \ {0} /\ MaxRounds \in Nat \ {0}
    /\ Candidates \subseteq Nat \ {0} /\ Candidates # {}
    /\ Steps \in [Candidates -> Seq(AnswerRule)]
    /\ {ScreenYes, ScreenNo} \subseteq AnswerRule
    /\ Escalation \subseteq {"unsure", "failed"}
    /\ Settles \in [Screenings -> BOOLEAN]
    /\ AnswerScale \subseteq 0..Scale

VARIABLES
    judge,     \* Judging.pending: what each candidate waits for
    round,     \* the engine's round; 0: none
    fallible,  \* this judgment tells failure from refusal
    failed,    \* a round of it failed, so its value is None
    verdict,   \* what the capability acted on last
    given,     \* history: the answers each candidate had
    reviewed   \* history: what System Two answered

judgmentVars == <<judge, round, fallible, failed, verdict, given, reviewed>>

NoAnswer == [p |-> 0 - 1, sure |-> 0]
AnswersGiven == [p : AnswerScale, sure : AnswerScale]
Forms == {"candidates", "screen"}

NoJudge == [form |-> "none", asks |-> << >>]
Unheard == [acted |-> FALSE, form |-> "none", none |-> FALSE, held |-> {}]

\* What a candidate asks, for which of its steps, and its value once it asks
\* no more.
Asking(step) == [asks |-> "one", step |-> step, value |-> FALSE]
Reviewing == [asks |-> "two", step |-> 1, value |-> FALSE]
Done(value) == [asks |-> "none", step |-> 0, value |-> value]

-----------------------------------------------------------------------------
(* Rules.                                                                    *)

HoldsUnheard(rule, answer) ==
    LET confident == answer.sure >= rule.confidence
    IN  CASE rule.kind = "yes" -> answer.p >= rule.at /\ confident
          [] rule.kind = "no" -> answer.p <= rule.at /\ confident
          [] rule.kind = "unless_no" -> ~(answer.p <= rule.at /\ confident)

Holds(rule, answer) ==
    LET confident == answer.sure >= rule.confidence
    IN  /\ answer # NoAnswer
        /\ CASE rule.kind = "yes" -> answer.p >= rule.at /\ confident
             [] rule.kind = "no" -> answer.p <= rule.at /\ confident
             [] rule.kind = "unless_no" ->
                  ~(answer.p <= rule.at /\ confident)

Screened(answer) ==
    CASE answer = NoAnswer -> "failed"
      [] answer # NoAnswer /\ Holds(ScreenYes, answer) -> "yes"
      [] /\ answer # NoAnswer /\ ~Holds(ScreenYes, answer)
         /\ Holds(ScreenNo, answer) -> "no"
      [] OTHER -> "unsure"

-----------------------------------------------------------------------------
(* Strategies.                                                               *)

\* chain: a step is asked once the one before it held.
StepFrom(k, step) ==
    IF step > Len(Steps[k]) THEN Done(TRUE) ELSE Asking(step)

\* escalate: System One first, System Two for what it leaves open.
AfterScreening(answer) ==
    IF Screened(answer) \in Escalation THEN Reviewing
    ELSE Done(Settles[Screened(answer)])

\* Judgment::step_round, of one candidate.
Stepped(form, k, state, answer, reasoned) ==
    CASE state.asks = "none" -> state
      [] state.asks = "two" -> Done(reasoned = "yes")
      [] state.asks = "one" /\ form = "screen" -> AfterScreening(answer)
      [] state.asks = "one" /\ form = "candidates" ->
           IF Holds(Steps[k][state.step], answer)
           THEN StepFrom(k, state.step + 1) ELSE Done(FALSE)

\* all: every one that still asks is stepped by the same round.
AllStepped(answers, reasoned) ==
    [judge EXCEPT !.asks =
        [k \in DOMAIN @ |->
            Stepped(judge.form, k, @[k],
                    IF k \in DOMAIN answers THEN answers[k] ELSE NoAnswer,
                    reasoned)]]

Open(asks) == {k \in DOMAIN asks : asks[k].asks # "none"}
AskOne(asks) == {k \in DOMAIN asks : asks[k].asks = "one"}

\* settle: every round that is left is read as failed.
SettledValue(form, state) ==
    LET next == Stepped(form, 1, state, NoAnswer, "unavailable")
    IN  CASE state.asks = "none" -> state.value
          [] form = "candidates" /\ state.asks # "none" -> FALSE
          [] form = "screen" /\ state.asks # "none" ->
               next.asks = "none" /\ next.value

HeldOf(j) ==
    {k \in DOMAIN j.asks : SettledValue(j.form, j.asks[k])}

-----------------------------------------------------------------------------
(* Judging.                                                                  *)

JudgmentInit ==
    /\ judge = NoJudge /\ round = 0
    /\ fallible = FALSE /\ failed = FALSE
    /\ verdict = Unheard
    /\ given = [k \in Candidates |-> << >>] /\ reviewed = "none"

\* Judged::act with its value; whether a value can be None is the judgment's.
ActOn(j, none) ==
    /\ verdict' = [acted |-> TRUE, form |-> j.form, none |-> none,
                   held |-> IF none THEN {} ELSE HeldOf(j)]
    /\ judge' = NoJudge /\ round' = 0

\* Judging::start: a judgment that asks nothing is acted on at once.
StartJudging(form, some, none_known) ==
    /\ round = 0
    /\ form = "screen" => some = {1}
    /\ LET j == [form |-> form,
                 asks |-> [k \in some |-> IF form = "screen" THEN Asking(1)
                                          ELSE StepFrom(k, 1)]]
       IN  IF Open(j.asks) = {} THEN ActOn(j, FALSE)
           ELSE judge' = j /\ round' = 1 /\ verdict' = Unheard
    /\ fallible' = none_known /\ failed' = FALSE
    /\ given' = [k \in Candidates |-> << >>] /\ reviewed' = "none"

\* Judging::resume.  A round answers all its questions or none of them.  It
\* asks again only while rounds remain, and System One only after an answer.
ResumeJudging(answers, reasoned) ==
    LET asked == AskOne(judge.asks)
        answered == asked = {} \/ DOMAIN answers = asked
        next == AllStepped(answers, reasoned)
        lost == failed \/ ~answered
        left == Open(next.asks) # {}
        over == left /\ (round >= MaxRounds
                           \/ (~answered /\ AskOne(next.asks) # {}))
    IN  /\ round # 0 /\ DOMAIN answers \in {{}, asked}
        /\ given' = [k \in Candidates |->
              IF k \in DOMAIN answers THEN Append(given[k], answers[k])
              ELSE given[k]]
        /\ reviewed' = IF \E k \in DOMAIN judge.asks :
                             judge.asks[k].asks = "two"
                       THEN reasoned ELSE reviewed
        /\ failed' = (lost \/ over)
        /\ IF left /\ ~over
           THEN judge' = next /\ round' = round + 1 /\ UNCHANGED verdict
           ELSE ActOn(next, fallible /\ (lost \/ over))
        /\ UNCHANGED fallible

\* The run was cancelled: its host is gone.
CancelJudging ==
    /\ round # 0
    /\ judge' = NoJudge /\ round' = 0
    /\ UNCHANGED <<fallible, failed, verdict, given, reviewed>>

JudgmentNext ==
    \/ \E form \in Forms, some \in SUBSET Candidates, none_known \in BOOLEAN :
          StartJudging(form, some, none_known)
    \/ \E reasoned \in {"yes", "no", "unavailable"} :
          \/ ResumeJudging(<< >>, reasoned)
          \/ \E answers \in [AskOne(judge.asks) -> AnswersGiven] :
                ResumeJudging(answers, reasoned)
    \/ CancelJudging

JudgmentSpec == JudgmentInit /\ [][JudgmentNext]_judgmentVars

JudgmentTypeOK ==
    /\ round \in 0..MaxRounds /\ fallible \in BOOLEAN /\ failed \in BOOLEAN
    /\ (round # 0) = (judge # NoJudge)
    /\ round # 0 => /\ judge.form \in Forms
                    /\ Open(judge.asks) # {}
                    /\ DOMAIN judge.asks \subseteq Candidates
    /\ \A k \in Candidates : given[k] \in Seq(AnswersGiven)
    /\ verdict.held \subseteq Candidates

-----------------------------------------------------------------------------
(* Properties.                                                               *)

Refused(k) == \E i \in DOMAIN given[k] : ~Holds(Steps[k][i], given[k][i])

\* A candidate that is acted on had an answer for every one of its steps, each
\* in a round of its own and each held by its own rule: a failed round, or
\* rounds that ran out, never stand in for one.
HeldInFull ==
    verdict.acted /\ verdict.form = "candidates" =>
        \A k \in verdict.held :
            Len(given[k]) = Len(Steps[k]) /\ ~Refused(k)

\* Where failure is told from refusal, what is not held was refused by an
\* answer, and the judges did not merely stay silent (Judgment::unless_failed).
RefusedByAnswer ==
    verdict.acted /\ verdict.form = "candidates" /\ fallible /\ ~verdict.none =>
        \A k \in Candidates \ verdict.held :
            given[k] # << >> => Refused(k)

\* What System Two reviewed stands over what the screening leaned to, and only
\* what a screening leaves open is reviewed.
ReviewDecides ==
    verdict.acted /\ verdict.form = "screen" =>
        /\ reviewed # "none" => verdict.held = {k \in {1} : reviewed = "yes"
                                                 /\ ~verdict.none}
        /\ reviewed = "none" /\ given[1] # << >> =>
             Screened(given[1][1]) \notin Escalation \/ MaxRounds = 1

VerdictEarned == JudgmentTypeOK /\ HeldInFull /\ RefusedByAnswer /\ ReviewDecides
=============================================================================
