----------------------------- MODULE MCJudging ------------------------------
(* The parts that judge, and what is remembered of it, each in a scope of its *)
(* own.                                                                       *)
EXTENDS Judge, Judgments, Permission, Activity, Login, Memory

VARIABLE scope

scopedVars == <<judgeVars, judgmentVars, permissionVars, activityVars, loginVars,
                vars, scope>>

-----------------------------------------------------------------------------
(* Judgments: one, two and three steps, so that rounds run out.              *)

Likely == [kind |-> "yes", at |-> 3, confidence |-> 2]
Unlikely == [kind |-> "no", at |-> 1, confidence |-> 2]
Possible == [kind |-> "unless_no", at |-> 1, confidence |-> 2]
StepsOf == <<<<Likely>>, <<Likely, Possible>>, <<Unlikely, Possible, Likely>>>>
ReadAs == [s \in Screenings |-> s = "yes"]

-----------------------------------------------------------------------------
(* Permission: a contract of what the host asks about, and one that judges   *)
(* what it allows too, which cools down.                                     *)

CONSTANTS no, rm, a1, a2, s1, e1, p1, none

OutcomesOf(positive, negative, otherwise) ==
    [o \in Resolutions |-> CASE o = "positive" -> positive
                             [] o = "negative" -> negative
                             [] OTHER -> otherwise]

TwoContracts ==
    "gate" :> [actions |-> {"shell", "edit"}, hosts |-> {"ask"},
               required |-> {"resource_within_workspace"}, forbidden |-> {},
               cooldown |-> 0, positive |-> 2, negative |-> 0,
               outcomes |-> OutcomesOf("allow", "ask", "ask")]
 @@ "guard" :> [actions |-> {"shell"}, hosts |-> {"ask", "allow"},
                required |-> {}, forbidden |-> {},
                cooldown |-> 1, positive |-> 2, negative |-> 1,
                outcomes |-> OutcomesOf("deny", "abstain", "abstain")]

Request(action, within, command, confirmed) ==
    [action |-> action, resources |-> {[within |-> within, named |-> FALSE]},
     command |-> command, vetoed |-> FALSE, confirmed |-> confirmed,
     oversized |-> FALSE]

ThreeRequests == {Request("shell", TRUE, rm, FALSE),
                  Request("edit", FALSE, no, FALSE),
                  Request("edit", TRUE, no, TRUE)}

-----------------------------------------------------------------------------
(* Activity: two strings of one shape, after a key and after none, a hash,    *)
(* and one of a known format; a signal without a line and a review.          *)

Word(value, key) == [value |-> value, key |-> key]

Shapes == "word" :> "plain" @@ "x1" :> "x" @@ "x2" :> "x" @@ "h" :> "hex" @@ "k" :> "k"

Saying(line, clip, words, quoted, remembered) ==
    [line |-> line, clip |-> clip, words |-> words, quoted |-> quoted,
     remembered |-> remembered]

FourSayings ==
    {Saying(TRUE, "both", <<Word("x1", "key"), Word("word", none), Word("x2", "key")>>,
            <<Word("x1", none)>>, TRUE),
     Saying(TRUE, "head", <<Word("h", none), Word("x2", "key")>>,
            <<Word("word", none), Word("k", none)>>, TRUE),
     Saying(FALSE, "head", << >>, << >>, TRUE),
     Saying(TRUE, "head", << >>, <<Word("x1", "other"), Word("x1", none), Word("h", "key")>>,
            FALSE)}

TwoClips == "both" :> [head |-> 1, tail |-> 1] @@ "head" :> [head |-> 2, tail |-> 0]

TwoFollowUps == {<< >>, <<Word("x2", "key")>>}

-----------------------------------------------------------------------------

ScopedInit ==
    /\ scope \in {"judge", "judgment", "permission", "activity", "login", "memory"}
    /\ JudgeInit /\ JudgmentInit /\ PermissionInit /\ ActivityInit
    /\ LoginInit /\ Init

ScopedNext ==
    /\ UNCHANGED scope
    /\ \/ /\ scope = "judge" /\ JudgeNext
          /\ UNCHANGED <<judgmentVars, permissionVars, activityVars, loginVars, vars>>
       \/ /\ scope = "judgment" /\ JudgmentNext
          /\ UNCHANGED <<judgeVars, permissionVars, activityVars, loginVars, vars>>
       \/ /\ scope = "permission" /\ PermissionNext
          /\ UNCHANGED <<judgeVars, judgmentVars, activityVars, loginVars, vars>>
       \/ /\ scope = "activity" /\ ActivityNext
          /\ UNCHANGED <<judgeVars, judgmentVars, permissionVars, loginVars, vars>>
       \/ /\ scope = "login" /\ LoginNext
          /\ UNCHANGED <<judgeVars, judgmentVars, permissionVars, activityVars, vars>>
       \/ /\ scope = "memory" /\ Next
          /\ UNCHANGED <<judgeVars, judgmentVars, permissionVars, activityVars, loginVars>>

ScopedSpec == ScopedInit /\ [][ScopedNext]_scopedVars /\ JudgeFairness
=============================================================================
