----------------------------- MODULE EngineProofs -----------------------------
(* Proofs about Engine, for any number of runs, capabilities and rounds.      *)
EXTENDS Engine, TLAPS

-----------------------------------------------------------------------------
(* Type correctness.                                                        *)

\* What the next round asks, and the judges kept for it, are well typed.
LEMMA AgainType ==
    ASSUME TypeOK, NEW r \in Runs, NEW answered \in BOOLEAN,
           NEW next \in [Asking(r) -> SUBSET Kinds]
    PROVE  /\ Again(r, answered, next) \in [Caps -> SUBSET Kinds]
           /\ Kept(r, Again(r, answered, next))
                \in [Caps -> [Runs -> SUBSET Kinds]]
<1>1. \A c \in Asking(r) : NextAsk(r, c, answered, next[c]) \in SUBSET Kinds
  BY DEF NextAsk, Nothing
<1>2. Again(r, answered, next) \in [Caps -> SUBSET Kinds]
  BY <1>1 DEF Again, Nothing
<1> HIDE DEF Again
<1>3. Kept(r, Again(r, answered, next)) \in [Caps -> [Runs -> SUBSET Kinds]]
  BY <1>2 DEF Kept, TypeOK
<1>4. QED
  BY <1>2, <1>3

\* What becomes of a run that was brought a round's results.
LEMMA EndRoundType ==
    ASSUME TypeOK, NEW r \in InFlight, NEW answered \in BOOLEAN,
           NEW next \in [Asking(r) -> SUBSET Kinds],
           NEW harm \in BOOLEAN, NEW act \in [Asking(r) -> {"allow", "other"}],
           EndRound(r, answered, next, harm, act)
    PROVE  TypeOK'
<1> DEFINE again == Again(r, answered, next)
           acting == Acting(r, again)
           effects == settled[r] \cup {act[c] : c \in acting}
<1>1. r \in Runs /\ outcome[r] = "running"
  BY DEF InFlight
<1>2. /\ again \in [Caps -> SUBSET Kinds]
      /\ Kept(r, again) \in [Caps -> [Runs -> SUBSET Kinds]]
  BY <1>1, AgainType
<1>3. effects \in SUBSET Effects
  BY <1>1 DEF Acting, Asking, Effects, TypeOK
<1>4. /\ harmful' \subseteq Runs /\ failed' \subseteq Runs
      /\ judged' \in [Runs -> SUBSET Caps]
  BY <1>1 DEF EndRound, TypeOK
<1>5. acted' \in [Runs -> [Caps -> Nat]]
  <2>1. acted' = [acted EXCEPT ![r] =
                    [c \in Caps |-> IF c \in acting THEN @[c] + 1 ELSE @[c]]]
    BY DEF EndRound
  <2> HIDE DEF acting
  <2>2. [c \in Caps |-> IF c \in acting THEN acted[r][c] + 1 ELSE acted[r][c]]
          \in [Caps -> Nat]
    BY <1>1 DEF TypeOK
  <2>3. QED
    BY <1>1, <2>1, <2>2 DEF TypeOK
<1>6. irreversible' \in [Runs -> BOOLEAN]
  <2>1. Irreversible(r, harm) \in BOOLEAN
    BY <1>1 DEF Irreversible, TypeOK
  <2>2. irreversible' = [irreversible EXCEPT ![r] = Irreversible(r, harm)]
    BY DEF EndRound
  <2>3. QED
    BY <2>1, <2>2 DEF TypeOK
<1>7. \/ GoesOn(r, answered, again) /\ AskRound(r, again, effects)
      \/ EndRun(r, again, harm, effects)
  BY DEF EndRound
<1> HIDE DEF again, effects, acting
<1>8. CASE GoesOn(r, answered, again) /\ AskRound(r, again, effects)
  <2>1. round' \in [Runs -> 0..MaxRounds]
    <3>1. round[r] + 1 \in 0..MaxRounds
      BY <1>1, <1>8, ConstantsAssumption DEF GoesOn, TypeOK
    <3>2. QED
      BY <1>8, <3>1 DEF AskRound, NextRound, TypeOK
  <2>2. /\ asks' \in [Runs -> [Caps -> SUBSET Kinds]]
        /\ settled' \in [Runs -> SUBSET Effects]
        /\ pending' \in [Caps -> [Runs -> SUBSET Kinds]]
        /\ outcome' = outcome
    BY <1>2, <1>3, <1>8 DEF AskRound, TypeOK
  <2>3. host_asked' \in [Runs -> BOOLEAN]
    BY <1>8 DEF AskRound, TypeOK
  <2>4. inline' \in InFlight' \cup {NoRun}
    BY <1>1, <1>8, <2>2 DEF AskRound, InFlight
  <2>5. QED
    BY <1>4, <1>5, <1>6, <2>1, <2>2, <2>3, <2>4 DEF TypeOK
<1>9. CASE EndRun(r, again, harm, effects)
  <2>1. /\ outcome' \in [Runs -> Outcomes]
        /\ inline' = NoRun
        /\ UNCHANGED <<round, asks, host_asked>>
    BY <1>9 DEF EndRun, Outcomes, TypeOK
  <2>2. settled' \in [Runs -> SUBSET Effects]
    <3>1. Final(r, harm, effects) \in SUBSET Effects
      BY <1>3 DEF Final, Effects
    <3>2. QED
      BY <1>9, <3>1 DEF EndRun, TypeOK
  <2>3. pending' \in [Caps -> [Runs -> SUBSET Kinds]]
    BY <1>2, <1>9 DEF EndRun, Release, Nothing
  <2>4. QED
    BY <1>4, <1>5, <1>6, <2>1, <2>2, <2>3 DEF TypeOK
<1>10. QED
  BY <1>7, <1>8, <1>9

\* A round's results come from the host, or from local judges.
LEMMA ResumeIsEndRound ==
    ASSUME TypeOK, ResumeInline \/ \E r \in Runs : Resume(r)
    PROVE  \E r \in InFlight : \E answered \in BOOLEAN,
              next \in [Asking(r) -> SUBSET Kinds], harm \in BOOLEAN,
              act \in [Asking(r) -> {"allow", "other"}] :
             /\ harm => round[r] = 1
             /\ EndRound(r, answered, next, harm, act)
<1>1. ASSUME NEW r \in InFlight, NEW answered \in BOOLEAN,
             ResumeRound(r, answered)
      PROVE  \E next \in [Asking(r) -> SUBSET Kinds], harm \in BOOLEAN,
                act \in [Asking(r) -> {"allow", "other"}] :
               /\ harm => round[r] = 1
               /\ EndRound(r, answered, next, harm, act)
  <2>1. MayBeHarm(r, answered) \subseteq BOOLEAN
    BY DEF MayBeHarm
  <2>2. \A harm \in MayBeHarm(r, answered) : harm => round[r] = 1
    BY DEF MayBeHarm
  <2>3. QED
    BY <1>1, <2>1, <2>2 DEF ResumeRound
<1>2. CASE ResumeInline
  <2>1. inline \in InFlight /\ ResumeRound(inline, TRUE)
    BY <1>2 DEF ResumeInline, Idle, TypeOK
  <2>2. QED
    BY <1>1, <2>1
<1>3. ASSUME NEW r \in Runs, Resume(r)
      PROVE  \E answered \in BOOLEAN : r \in InFlight /\ ResumeRound(r, answered)
  <2>1. r \in InFlight
    BY <1>3 DEF Resume, Knows
  <2>2. PICK ok \in BOOLEAN : ResumeRound(r, ok \/ ~host_asked[r])
    BY <1>3 DEF Resume
  <2>3. (ok \/ ~host_asked[r]) \in BOOLEAN
    OBVIOUS
  <2>4. QED
    BY <2>1, <2>2, <2>3
<1>4. QED
  BY <1>1, <1>2, <1>3

\* What a signal that starts becomes: settled at once, or a run in its first
\* round.
StartsDone(r, done) ==
    /\ outcome' = [outcome EXCEPT ![r] = "done"]
    /\ settled' = [settled EXCEPT ![r] = done]
    /\ judged' = [judged EXCEPT ![r] = {}]
    /\ UNCHANGED <<round, asks, host_asked, pending, inline>>

StartsRun(r, done, inference, questions) ==
    /\ outcome' = [outcome EXCEPT ![r] = "running"]
    /\ settled' = [settled EXCEPT ![r] = done]
    /\ judged' = [judged EXCEPT ![r] = {c \in Caps : inference[c] # {}}]
    /\ round' = [round EXCEPT ![r] = 1]
    /\ asks' = [asks EXCEPT ![r] = inference]
    /\ host_asked' = [host_asked EXCEPT ![r] = questions]
    /\ pending' = [c \in Caps |-> [pending[c] EXCEPT ![r] = inference[c]]]
    /\ inline' \in {NoRun, r}

LEMMA StartIs ==
    ASSUME NEW r \in Runs, Start(r)
    PROVE  \E done \in SUBSET Effects, inference \in [Caps -> SUBSET Kinds],
              questions \in BOOLEAN :
             StartsDone(r, done) \/ StartsRun(r, done, inference, questions)
<1>1. PICK plan \in [Caps -> Plan], secret \in BOOLEAN :
        LET inference == [c \in Caps |-> plan[c].asks]
            asking == {c \in Caps : inference[c] # {}}
            done == UNION {plan[c].settled : c \in Caps}
            questions == \/ r \in Shell \/ secret
                         \/ \E c \in Caps : "one" \in inference[c]
        IN  /\ settled' = [settled EXCEPT ![r] = done]
            /\ judged' = [judged EXCEPT ![r] = asking]
            /\ IF asking = {} /\ r \notin Shell
               THEN /\ outcome' = [outcome EXCEPT ![r] = "done"]
                    /\ UNCHANGED <<round, asks, host_asked, pending, inline>>
               ELSE /\ outcome' = [outcome EXCEPT ![r] = "running"]
                    /\ round' = [round EXCEPT ![r] = 1]
                    /\ asks' = [asks EXCEPT ![r] = inference]
                    /\ host_asked' = [host_asked EXCEPT ![r] = questions]
                    /\ pending' = [c \in Caps |->
                                     [pending[c] EXCEPT ![r] = inference[c]]]
                    /\ inline' = IF ForHost(questions, inference)
                                 THEN NoRun ELSE r
  BY DEF Start
<1> DEFINE inference == [c \in Caps |-> plan[c].asks]
           done == UNION {plan[c].settled : c \in Caps}
           questions == \/ r \in Shell \/ secret
                        \/ \E c \in Caps : "one" \in inference[c]
           asking == {c \in Caps : inference[c] # {}}
<1>2. \A c \in Caps : plan[c].asks \in SUBSET Kinds
                      /\ plan[c].settled \in SUBSET Effects
  BY DEF Plan, Plans, Effects
<1>3. inference \in [Caps -> SUBSET Kinds] /\ done \in SUBSET Effects
  BY <1>2
<1>4. questions \in BOOLEAN
  OBVIOUS
<1>5. /\ settled' = [settled EXCEPT ![r] = done]
      /\ judged' = [judged EXCEPT ![r] = asking]
      /\ IF asking = {} /\ r \notin Shell
         THEN /\ outcome' = [outcome EXCEPT ![r] = "done"]
              /\ UNCHANGED <<round, asks, host_asked, pending, inline>>
         ELSE /\ outcome' = [outcome EXCEPT ![r] = "running"]
              /\ round' = [round EXCEPT ![r] = 1]
              /\ asks' = [asks EXCEPT ![r] = inference]
              /\ host_asked' = [host_asked EXCEPT ![r] = questions]
              /\ pending' = [c \in Caps |->
                               [pending[c] EXCEPT ![r] = inference[c]]]
              /\ inline' = IF ForHost(questions, inference)
                           THEN NoRun ELSE r
  BY <1>1
<1> HIDE DEF inference, done, questions
<1>6. StartsDone(r, done) \/ StartsRun(r, done, inference, questions)
  BY <1>5 DEF StartsDone, StartsRun
<1>7. QED
  BY <1>3, <1>4, <1>6

\* Starting, refusing and cancelling keep the types.
LEMMA OtherType ==
    ASSUME TypeOK, NEW r \in Runs,
           StartError(r) \/ StartVetoed(r) \/ Start(r) \/ Cancel(r)
    PROVE  TypeOK'
<1> USE DEF TypeOK, Outcomes, InFlight, history
<1>1. CASE StartError(r)
  BY <1>1 DEF StartError, Idle
<1>2. CASE StartVetoed(r)
  <2>1. settled' \in [Runs -> SUBSET Effects]
    BY <1>2 DEF StartVetoed, Effects
  <2>2. inline' \in InFlight' \cup {NoRun}
    BY <1>2 DEF StartVetoed, Idle
  <2>3. QED
    BY <1>2, <2>1, <2>2 DEF StartVetoed
<1>3. CASE Start(r)
  <2>1. PICK done \in SUBSET Effects, inference \in [Caps -> SUBSET Kinds],
             questions \in BOOLEAN :
          StartsDone(r, done) \/ StartsRun(r, done, inference, questions)
    BY <1>3, StartIs
  <2>2. inline = NoRun /\ UNCHANGED <<irreversible, acted, harmful, failed>>
    BY <1>3 DEF Start, Idle
  <2>3. CASE StartsDone(r, done)
    BY <2>2, <2>3 DEF StartsDone
  <2>4. CASE StartsRun(r, done, inference, questions)
    <3>1. round' \in [Runs -> 0..MaxRounds]
      BY <2>4, ConstantsAssumption DEF StartsRun
    <3>2. /\ asks' \in [Runs -> [Caps -> SUBSET Kinds]]
          /\ settled' \in [Runs -> SUBSET Effects]
          /\ outcome' \in [Runs -> Outcomes]
          /\ judged' \in [Runs -> SUBSET Caps]
      BY <2>4 DEF StartsRun
    <3>3. host_asked' \in [Runs -> BOOLEAN]
      BY <2>4 DEF StartsRun
    <3>4. pending' \in [Caps -> [Runs -> SUBSET Kinds]]
      BY <2>4 DEF StartsRun
    <3>5. inline' \in InFlight' \cup {NoRun}
      BY <2>4 DEF StartsRun
    <3>6. QED
      BY <2>2, <3>1, <3>2, <3>3, <3>4, <3>5
  <2>5. QED
    BY <2>1, <2>3, <2>4
<1>4. CASE Cancel(r)
  <2>1. pending' \in [Caps -> [Runs -> SUBSET Kinds]]
    BY <1>4 DEF Cancel, Release, Nothing
  <2>2. inline' \in InFlight' \cup {NoRun}
    BY <1>4 DEF Cancel, Idle
  <2>3. QED
    BY <1>4, <2>1, <2>2 DEF Cancel
<1>5. QED
  BY <1>1, <1>2, <1>3, <1>4

\* Every variable keeps its type, in every behaviour: no run passes MAX_ROUNDS,
\* and the engine continues only runs in flight by itself.
THEOREM EngineTypeCorrect == Spec => []TypeOK
<1>1. Init => TypeOK
  <2> SUFFICES ASSUME Init PROVE TypeOK
    OBVIOUS
  <2>1. /\ outcome \in [Runs -> Outcomes]
        /\ round \in [Runs -> 0..MaxRounds]
    BY ConstantsAssumption DEF Init, Outcomes
  <2>2. /\ asks \in [Runs -> [Caps -> SUBSET Kinds]]
        /\ pending \in [Caps -> [Runs -> SUBSET Kinds]]
    BY DEF Init, Nothing
  <2>3. /\ host_asked \in [Runs -> BOOLEAN]
        /\ irreversible \in [Runs -> BOOLEAN]
    BY DEF Init
  <2>4. /\ settled \in [Runs -> SUBSET Effects]
        /\ judged \in [Runs -> SUBSET Caps]
        /\ acted \in [Runs -> [Caps -> Nat]]
        /\ inline \in InFlight \cup {NoRun}
        /\ harmful \subseteq Runs /\ failed \subseteq Runs
    BY DEF Init
  <2>5. QED
    BY <2>1, <2>2, <2>3, <2>4 DEF TypeOK
<1>2. TypeOK /\ [Next]_vars => TypeOK'
  <2> SUFFICES ASSUME TypeOK, [Next]_vars PROVE TypeOK'
    OBVIOUS
  <2>1. CASE UNCHANGED vars
    BY <2>1 DEF vars, history, TypeOK, InFlight
  <2>2. CASE ResumeInline \/ \E r \in Runs : Resume(r)
    BY <2>2, ResumeIsEndRound, EndRoundType
  <2>3. QED
    BY <2>1, <2>2, OtherType DEF Next
<1>3. QED
  BY <1>1, <1>2, PTL DEF Spec

-----------------------------------------------------------------------------
(* What a step does to one run, and that it leaves the others alone.        *)

\* Nothing of another run changes.
OthersAlone(r) ==
    \A k \in Runs : k # r =>
        /\ outcome'[k] = outcome[k] /\ round'[k] = round[k]
        /\ asks'[k] = asks[k] /\ settled'[k] = settled[k]
        /\ irreversible'[k] = irreversible[k] /\ acted'[k] = acted[k]
        /\ judged'[k] = judged[k]
        /\ k \in harmful' <=> k \in harmful
        /\ k \in failed' <=> k \in failed
        /\ \A c \in Caps : pending'[c][k] = pending[c][k]

\* The run goes on with what its capabilities ask, or is done and no judge is
\* held for it; and those that finished acted.
LEMMA EndRoundIs ==
    ASSUME TypeOK, NEW r \in InFlight, NEW answered \in BOOLEAN,
           NEW next \in [Asking(r) -> SUBSET Kinds],
           NEW harm \in BOOLEAN, NEW act \in [Asking(r) -> {"allow", "other"}],
           EndRound(r, answered, next, harm, act)
    PROVE  LET again == Again(r, answered, next)
           IN  /\ OthersAlone(r)
               /\ judged' = judged
               /\ r \in harmful' <=> (harm \/ r \in harmful)
               /\ r \in failed' <=> (~answered \/ r \in failed)
               /\ irreversible'[r] = Irreversible(r, harm)
               /\ \A c \in Caps : acted'[r][c] =
                      IF c \in Acting(r, again) THEN acted[r][c] + 1
                      ELSE acted[r][c]
               /\ \/ /\ GoesOn(r, answered, again)
                     /\ outcome'[r] = "running"
                     /\ round'[r] = round[r] + 1
                     /\ asks'[r] = again
                     /\ \A c \in Caps : pending'[c][r] =
                            IF c \in Asking(r) THEN again[c] ELSE pending[c][r]
                  \/ /\ ~GoesOn(r, answered, again)
                     /\ outcome'[r] = "done"
                     /\ \E effects : settled'[r] = Final(r, harm, effects)
                     /\ \A c \in Caps : pending'[c][r] = Nothing
<1> DEFINE again == Again(r, answered, next)
           acting == Acting(r, again)
           effects == settled[r] \cup {act[c] : c \in acting}
           goes == GoesOn(r, answered, again) /\ AskRound(r, again, effects)
           ends == ~GoesOn(r, answered, again) /\ EndRun(r, again, harm, effects)
<1>1. r \in Runs /\ outcome[r] = "running"
  BY DEF InFlight
<1>2. goes \/ ends
  BY DEF EndRound
<1>3. /\ harmful' = IF harm THEN harmful \cup {r} ELSE harmful
      /\ failed' = IF answered THEN failed ELSE failed \cup {r}
      /\ irreversible' = [irreversible EXCEPT ![r] = Irreversible(r, harm)]
      /\ judged' = judged
  BY DEF EndRound
<1>4. acted' = [acted EXCEPT ![r] =
                  [c \in Caps |-> IF c \in acting THEN @[c] + 1 ELSE @[c]]]
  BY DEF EndRound
<1> HIDE DEF again, effects, acting
<1>5. /\ \A c \in Caps : acted'[r][c] =
             IF c \in acting THEN acted[r][c] + 1 ELSE acted[r][c]
      /\ \A k \in Runs : k # r => acted'[k] = acted[k]
  BY <1>1, <1>4 DEF TypeOK
<1>6. \A k \in Runs : k # r =>
        /\ irreversible'[k] = irreversible[k] /\ judged'[k] = judged[k]
        /\ k \in harmful' <=> k \in harmful
        /\ k \in failed' <=> k \in failed
  BY <1>3 DEF TypeOK
<1>7. irreversible'[r] = Irreversible(r, harm)
  BY <1>1, <1>3 DEF TypeOK
<1>8. CASE goes
  <2>1. \A c \in Caps : /\ pending'[c][r] = IF c \in Asking(r) THEN again[c]
                                            ELSE pending[c][r]
                        /\ \A k \in Runs : k # r => pending'[c][k] = pending[c][k]
    BY <1>1, <1>8 DEF AskRound, Kept, TypeOK
  <2>2. \A k \in Runs : k # r =>
          /\ outcome'[k] = outcome[k] /\ round'[k] = round[k]
          /\ asks'[k] = asks[k] /\ settled'[k] = settled[k]
    BY <1>8 DEF AskRound, TypeOK
  <2>3. /\ outcome'[r] = "running" /\ round'[r] = round[r] + 1
        /\ asks'[r] = again
    BY <1>1, <1>8 DEF AskRound, NextRound, TypeOK
  <2>4. OthersAlone(r)
    BY <1>5, <1>6, <2>1, <2>2 DEF OthersAlone
  <2>5. QED
    BY <1>3, <1>5, <1>7, <1>8, <2>1, <2>3, <2>4 DEF again, acting
<1>9. CASE ends
  <2>1. \A c \in Caps : /\ pending'[c][r] = Nothing
                        /\ \A k \in Runs : k # r => pending'[c][k] = pending[c][k]
    BY <1>1, <1>9 DEF EndRun, Release, Kept, TypeOK
  <2>2. \A k \in Runs : k # r =>
          /\ outcome'[k] = outcome[k] /\ round'[k] = round[k]
          /\ asks'[k] = asks[k] /\ settled'[k] = settled[k]
    BY <1>9 DEF EndRun, TypeOK
  <2>3. /\ outcome'[r] = "done"
        /\ settled'[r] = Final(r, harm, effects)
    BY <1>1, <1>9 DEF EndRun, TypeOK
  <2>4. OthersAlone(r)
    BY <1>5, <1>6, <2>1, <2>2 DEF OthersAlone
  <2>5. QED
    BY <1>3, <1>5, <1>7, <1>9, <2>1, <2>3, <2>4 DEF again, acting
<1>10. QED
  BY <1>2, <1>8, <1>9

\* A signal that starts is done, and judged by nobody, or a run in its first
\* round.
LEMMA StartEffect ==
    ASSUME TypeOK, NEW r \in Runs, Start(r)
    PROVE  /\ OthersAlone(r) /\ outcome[r] = "new"
           /\ harmful' = harmful /\ failed' = failed /\ acted' = acted
           /\ \/ /\ outcome'[r] = "done" /\ judged'[r] = {}
                 /\ \A c \in Caps : pending'[c][r] = pending[c][r]
              \/ /\ outcome'[r] = "running" /\ round'[r] = 1
                 /\ \A c \in Caps : pending'[c][r] = asks'[r][c]
                 /\ judged'[r] = {c \in Caps : asks'[r][c] # {}}
<1>1. PICK done \in SUBSET Effects, inference \in [Caps -> SUBSET Kinds],
           questions \in BOOLEAN :
        StartsDone(r, done) \/ StartsRun(r, done, inference, questions)
  BY StartIs
<1>2. /\ UNCHANGED <<irreversible, acted, harmful, failed>>
      /\ outcome[r] = "new"
  BY DEF Start
<1>3. CASE StartsDone(r, done)
  BY <1>2, <1>3 DEF StartsDone, OthersAlone, TypeOK
<1>4. CASE StartsRun(r, done, inference, questions)
  <2>1. \A c \in Caps : /\ pending'[c][r] = inference[c]
                        /\ \A k \in Runs : k # r => pending'[c][k] = pending[c][k]
    BY <1>4 DEF StartsRun, TypeOK
  <2>2. /\ outcome'[r] = "running" /\ round'[r] = 1 /\ asks'[r] = inference
        /\ judged'[r] = {c \in Caps : inference[c] # {}}
    BY <1>4 DEF StartsRun, TypeOK
  <2>3. OthersAlone(r)
    BY <1>2, <1>4, <2>1 DEF StartsRun, OthersAlone, TypeOK
  <2>4. QED
    BY <1>2, <2>1, <2>2, <2>3
<1>5. QED
  BY <1>1, <1>3, <1>4

\* A signal refused, vetoed or cancelled leaves flight and is acted on by
\* nobody.
LEMMA ShortEffect ==
    ASSUME TypeOK, NEW r \in Runs, StartError(r) \/ StartVetoed(r) \/ Cancel(r)
    PROVE  /\ OthersAlone(r)
           /\ UNCHANGED <<acted, judged, harmful, failed>>
           /\ \/ outcome[r] = "new" /\ outcome'[r] \in {"refused", "done"}
                 /\ \A c \in Caps : pending'[c][r] = pending[c][r]
              \/ outcome[r] = "running" /\ outcome'[r] = "cancelled"
                 /\ \A c \in Caps : pending'[c][r] = Nothing
<1>1. CASE StartError(r)
  BY <1>1 DEF StartError, OthersAlone, history, TypeOK
<1>2. CASE StartVetoed(r)
  BY <1>2 DEF StartVetoed, OthersAlone, history, TypeOK
<1>3. CASE Cancel(r)
  <2>1. \A c \in Caps : /\ pending'[c][r] = Nothing
                        /\ \A k \in Runs : k # r => pending'[c][k] = pending[c][k]
    BY <1>3 DEF Cancel, Release, TypeOK
  <2>2. outcome[r] = "running" /\ outcome'[r] = "cancelled"
    BY <1>3 DEF Cancel, InFlight, TypeOK
  <2>3. OthersAlone(r)
    BY <1>3, <2>1 DEF Cancel, OthersAlone, history, TypeOK
  <2>4. QED
    BY <1>3, <2>1, <2>2, <2>3 DEF Cancel, history
<1>4. QED
  BY <1>1, <1>2, <1>3

-----------------------------------------------------------------------------
(* Judges, verdicts and harm.                                               *)

\* A new signal was judged by nobody.
NewInv ==
    \A r \in Runs : outcome[r] = "new" =>
        /\ judged[r] = {} /\ r \notin harmful
        /\ \A c \in Caps : acted[r][c] = 0

\* A capability that acted holds no judge for the run, and one that judged a
\* run in flight acted or holds a judge, unless System One failed.
ActedInv ==
    /\ \A r \in Runs, c \in Caps :
           acted[r][c] = 0 \/ (acted[r][c] = 1 /\ pending[c][r] = Nothing)
    /\ \A r \in InFlight : r \notin failed =>
           \A c \in judged[r] : acted[r][c] = 1 \/ pending[c][r] # Nothing
    /\ VerdictActed

\* After its first round, a run in flight remembers that its command is
\* irreversible.
HarmInv ==
    /\ \A r \in InFlight : round[r] >= 1
    /\ \A r \in InFlight \cap harmful : irreversible[r] /\ round[r] > 1
    /\ IrreversibleDenied

EngineInv == JudgesMatchRuns /\ NewInv /\ ActedInv /\ HarmInv

\* What EngineInv says of one run.
InvOf(r) ==
    /\ \A c \in Caps : pending[c][r] =
           IF outcome[r] = "running" THEN asks[r][c] ELSE Nothing
    /\ outcome[r] = "new" =>
           /\ judged[r] = {} /\ r \notin harmful
           /\ \A c \in Caps : acted[r][c] = 0
    /\ \A c \in Caps :
           acted[r][c] = 0 \/ (acted[r][c] = 1 /\ pending[c][r] = Nothing)
    /\ outcome[r] = "running" /\ r \notin failed =>
           \A c \in judged[r] : acted[r][c] = 1 \/ pending[c][r] # Nothing
    /\ outcome[r] = "done" /\ r \notin failed =>
           \A c \in judged[r] : acted[r][c] = 1
    /\ outcome[r] = "running" => round[r] >= 1
    /\ outcome[r] = "running" /\ r \in harmful => irreversible[r] /\ round[r] > 1
    /\ outcome[r] = "done" /\ r \in harmful =>
           settled[r] \cap {"allow", "deny", "confirm"} = {"deny"}

LEMMA InvByRun ==
    ASSUME TypeOK
    PROVE  EngineInv <=> \A r \in Runs : InvOf(r)
BY DEF TypeOK, EngineInv, JudgesMatchRuns, NewInv, ActedInv, VerdictActed,
       HarmInv, IrreversibleDenied, InvOf, InFlight

\* A run nothing changed of keeps its part.
LEMMA OthersKeep ==
    ASSUME TypeOK, NEW r, OthersAlone(r), NEW k \in Runs, k # r, InvOf(k)
    PROVE  InvOf(k)'
<1> DEFINE same == /\ outcome'[k] = outcome[k] /\ round'[k] = round[k]
                   /\ asks'[k] = asks[k] /\ settled'[k] = settled[k]
                   /\ irreversible'[k] = irreversible[k]
                   /\ acted'[k] = acted[k] /\ judged'[k] = judged[k]
                   /\ k \in harmful' <=> k \in harmful
                   /\ k \in failed' <=> k \in failed
                   /\ \A c \in Caps : pending'[c][k] = pending[c][k]
<1>1. same
  BY DEF OthersAlone
<1>2. \A c \in Caps : pending'[c][k] =
        IF outcome'[k] = "running" THEN asks'[k][c] ELSE Nothing
  BY <1>1 DEF InvOf
<1>3. outcome'[k] = "new" =>
        /\ judged'[k] = {} /\ k \notin harmful'
        /\ \A c \in Caps : acted'[k][c] = 0
  BY <1>1 DEF InvOf
<1>4. \A c \in Caps :
        acted'[k][c] = 0 \/ (acted'[k][c] = 1 /\ pending'[c][k] = Nothing)
  BY <1>1 DEF InvOf
<1>5. judged[k] \subseteq Caps /\ judged'[k] = judged[k]
  BY <1>1 DEF TypeOK
<1>6. /\ outcome'[k] = "running" /\ k \notin failed' =>
           \A c \in judged'[k] : acted'[k][c] = 1 \/ pending'[c][k] # Nothing
      /\ outcome'[k] = "done" /\ k \notin failed' =>
           \A c \in judged'[k] : acted'[k][c] = 1
  BY <1>1, <1>5 DEF InvOf
<1>7. outcome'[k] = "running" => round'[k] >= 1
  BY <1>1 DEF InvOf
<1>8. outcome'[k] = "running" /\ k \in harmful' =>
        irreversible'[k] /\ round'[k] > 1
  BY <1>1 DEF InvOf
<1>9. outcome'[k] = "done" /\ k \in harmful' =>
        settled'[k] \cap {"allow", "deny", "confirm"} = {"deny"}
  BY <1>1 DEF InvOf
<1>10. QED
  BY <1>2, <1>3, <1>4, <1>6, <1>7, <1>8, <1>9 DEF InvOf

\* In a run whose rounds are spent no judge asks again.
LEMMA SpentAsksNothing ==
    ASSUME TypeOK, NEW r \in Runs, NEW answered, NEW next,
           round[r] >= MaxRounds
    PROVE  \A c \in Caps : Again(r, answered, next)[c] = Nothing
BY DEF Again, NextAsk, Settles

\* A round's results keep the run's part: while System One answers, a judge
\* goes on or acts; and what the first round judged irreversible stays so.
LEMMA EndRoundKeeps ==
    ASSUME TypeOK, NEW r \in InFlight, InvOf(r), NEW answered \in BOOLEAN,
           NEW next \in [Asking(r) -> SUBSET Kinds],
           NEW harm \in BOOLEAN, NEW act \in [Asking(r) -> {"allow", "other"}],
           harm => round[r] = 1,
           EndRound(r, answered, next, harm, act)
    PROVE  InvOf(r)'
<1> DEFINE again == Again(r, answered, next)
<1>1. r \in Runs /\ outcome[r] = "running"
  BY DEF InFlight
<1>2. \A c \in Caps : /\ pending[c][r] = asks[r][c]
                      /\ c \in Asking(r) <=> pending[c][r] # Nothing
  BY <1>1 DEF InvOf, Asking
<1>3. \A c \in Caps : c \notin Asking(r) => again[c] = Nothing
  BY DEF Again
<1>4. \A c \in Caps : c \in Acting(r, again) <=>
                        c \in Asking(r) /\ again[c] = Nothing
  BY <1>2 DEF Acting, Acts
<1>5. \A c \in Caps : acted[r][c] \in Nat
  BY <1>1 DEF TypeOK
<1>6. judged[r] \subseteq Caps /\ round[r] \in Nat
  BY <1>1, ConstantsAssumption DEF TypeOK
<1>7. /\ judged'[r] = judged[r]
      /\ r \in harmful' <=> (harm \/ r \in harmful)
      /\ r \in failed' <=> (~answered \/ r \in failed)
      /\ irreversible'[r] = Irreversible(r, harm)
      /\ \A c \in Caps : acted'[r][c] =
             IF c \in Acting(r, again) THEN acted[r][c] + 1 ELSE acted[r][c]
  BY EndRoundIs
<1>8. \/ /\ GoesOn(r, answered, again)
         /\ outcome'[r] = "running"
         /\ round'[r] = round[r] + 1
         /\ asks'[r] = again
         /\ \A c \in Caps : pending'[c][r] =
                IF c \in Asking(r) THEN again[c] ELSE pending[c][r]
      \/ /\ ~GoesOn(r, answered, again)
         /\ outcome'[r] = "done"
         /\ \E effects : settled'[r] = Final(r, harm, effects)
         /\ \A c \in Caps : pending'[c][r] = Nothing
  BY EndRoundIs
<1>9. GoesOn(r, answered, again) \/ ~answered
        \/ \A c \in Caps : again[c] = Nothing
  <2>1. round[r] >= MaxRounds => \A c \in Caps : again[c] = Nothing
    BY <1>1, SpentAsksNothing
  <2>2. round[r] >= MaxRounds \/ round[r] < MaxRounds
    BY <1>6, ConstantsAssumption
  <2>3. QED
    BY <2>1, <2>2 DEF GoesOn, NextAllowed
<1> HIDE DEF again
<1>10. \A c \in Caps :
         acted'[r][c] = 0 \/ (acted'[r][c] = 1 /\ pending'[c][r] = Nothing)
  <2>1. \A c \in Caps : pending[c][r] # Nothing => acted[r][c] = 0
    BY <1>5 DEF InvOf
  <2>2. ASSUME NEW c \in Caps, c \in Acting(r, again)
        PROVE  acted'[r][c] = 1 /\ pending'[c][r] = Nothing
    BY <1>2, <1>4, <1>5, <1>7, <1>8, <2>1, <2>2
  <2>3. ASSUME NEW c \in Caps, c \notin Acting(r, again)
        PROVE  /\ acted'[r][c] = acted[r][c]
               /\ pending[c][r] = Nothing => pending'[c][r] = Nothing
    BY <1>2, <1>7, <1>8, <2>3
  <2>4. QED
    BY <2>1, <2>2, <2>3 DEF InvOf
<1>11. \A c \in Caps : c \in judged[r] /\ r \notin failed' =>
         acted'[r][c] = 1 \/ (outcome'[r] = "running" /\ pending'[c][r] # Nothing)
  <2> SUFFICES ASSUME NEW c \in Caps, c \in judged[r], r \notin failed'
               PROVE  \/ acted'[r][c] = 1
                      \/ outcome'[r] = "running" /\ pending'[c][r] # Nothing
    OBVIOUS
  <2>1. answered /\ r \notin failed
    BY <1>7
  <2>2. CASE acted[r][c] = 1
    <3>1. pending[c][r] = Nothing
      BY <2>2 DEF InvOf
    <3>2. c \notin Acting(r, again)
      BY <1>2, <1>4, <3>1
    <3>3. QED
      BY <1>7, <2>2, <3>2
  <2>3. CASE pending[c][r] # Nothing
    <3>1. acted[r][c] = 0 /\ c \in Asking(r)
      BY <1>2, <1>5, <2>3 DEF InvOf
    <3>2. CASE again[c] = Nothing
      BY <1>4, <1>7, <3>1, <3>2
    <3>3. CASE again[c] # Nothing
      BY <1>8, <1>9, <2>1, <3>1, <3>3
    <3>4. QED
      BY <3>2, <3>3
  <2>4. QED
    BY <1>1, <2>1, <2>2, <2>3 DEF InvOf
<1>12. outcome'[r] = "running" => round'[r] >= 1
  BY <1>1, <1>6, <1>8 DEF InvOf
<1>13. r \in harmful' => Irreversible(r, harm)
  BY <1>1, <1>6, <1>7 DEF InvOf, Irreversible
<1>14. outcome'[r] = "running" /\ r \in harmful' =>
         irreversible'[r] /\ round'[r] > 1
  BY <1>1, <1>6, <1>7, <1>8, <1>13 DEF InvOf
<1>15. outcome'[r] = "done" /\ r \in harmful' =>
         settled'[r] \cap {"allow", "deny", "confirm"} = {"deny"}
  BY <1>8, <1>13 DEF Final
<1>16. \A c \in Caps : pending'[c][r] =
         IF outcome'[r] = "running" THEN asks'[r][c] ELSE Nothing
  BY <1>2, <1>3, <1>8 DEF again
<1>17. outcome'[r] # "new"
  BY <1>8
<1>18. QED
  BY <1>6, <1>7, <1>10, <1>11, <1>12, <1>14, <1>15, <1>16, <1>17 DEF InvOf

LEMMA EngineInvStep ==
    ASSUME TypeOK, TypeOK', EngineInv, [Next]_vars
    PROVE  EngineInv'
<1>1. \A r \in Runs : InvOf(r)
  BY InvByRun
<1>2. SUFFICES \A r \in Runs : InvOf(r)'
  BY DEF TypeOK, EngineInv, JudgesMatchRuns, NewInv, ActedInv, VerdictActed,
         HarmInv, IrreversibleDenied, InvOf, InFlight
<1>3. CASE UNCHANGED vars
  BY <1>1, <1>3 DEF vars, history, InvOf
<1>4. CASE ResumeInline \/ \E r \in Runs : Resume(r)
  <2>1. PICK r \in InFlight :
             \E answered \in BOOLEAN, next \in [Asking(r) -> SUBSET Kinds], harm \in BOOLEAN,
             act \in [Asking(r) -> {"allow", "other"}] :
          /\ harm => round[r] = 1
          /\ EndRound(r, answered, next, harm, act)
    BY <1>4, ResumeIsEndRound
  <2>2. r \in Runs
    BY DEF InFlight
  <2>3. OthersAlone(r)
    BY <2>1, EndRoundIs
  <2>4. InvOf(r)'
    BY <1>1, <2>1, <2>2, EndRoundKeeps
  <2>5. QED
    BY <1>1, <2>3, <2>4, OthersKeep
<1>5. ASSUME NEW r \in Runs, Start(r)
      PROVE  \A k \in Runs : InvOf(k)'
  <2>1. InvOf(r)'
    BY <1>1, <1>5, StartEffect DEF InvOf, Nothing
  <2>2. QED
    BY <1>1, <1>5, <2>1, StartEffect, OthersKeep
<1>6. ASSUME NEW r \in Runs, StartError(r) \/ StartVetoed(r) \/ Cancel(r)
      PROVE  \A k \in Runs : InvOf(k)'
  <2>1. InvOf(r)'
    BY <1>1, <1>6, ShortEffect DEF InvOf
  <2>2. QED
    BY <1>1, <1>6, <2>1, ShortEffect, OthersKeep
<1>7. QED
  BY <1>3, <1>4, <1>5, <1>6 DEF Next

LEMMA EngineInvariant == Spec => [](TypeOK /\ EngineInv)
<1>1. Init => EngineInv
  <2> SUFFICES ASSUME Init PROVE EngineInv
    OBVIOUS
  <2>1. /\ \A r \in Runs : outcome[r] = "new" /\ judged[r] = {}
        /\ \A r \in Runs, c \in Caps : acted[r][c] = 0 /\ pending[c][r] = Nothing
        /\ harmful = {}
    BY DEF Init
  <2>2. QED
    BY <2>1 DEF EngineInv, JudgesMatchRuns, NewInv, ActedInv, VerdictActed,
                HarmInv, IrreversibleDenied, InFlight
<1>2. TypeOK /\ TypeOK' /\ EngineInv /\ [Next]_vars => EngineInv'
  BY EngineInvStep
<1>3. QED
  BY <1>1, <1>2, EngineTypeCorrect, PTL DEF Spec

\* A capability holds a judge exactly for the runs in flight it asked something
\* for, on every path a run ends by.
THEOREM NoJudgeLeaks == Spec => []JudgesMatchRuns
<1>1. EngineInv => JudgesMatchRuns
  BY DEF EngineInv
<1>2. QED
  BY <1>1, EngineInvariant, PTL

\* No capability acts twice on a signal.
THEOREM VerdictOnce == Spec => []ActsOnce
<1>1. EngineInv => ActsOnce
  BY DEF EngineInv, ActedInv, ActsOnce
<1>2. QED
  BY <1>1, EngineInvariant, PTL

\* While System One answers, no verdict is dropped.
THEOREM VerdictReached == Spec => []VerdictActed
<1>1. EngineInv => VerdictActed
  BY DEF EngineInv, ActedInv
<1>2. QED
  BY <1>1, EngineInvariant, PTL

\* A command judged irreversible in the first round is denied in the last.
THEOREM HarmDenied == Spec => []IrreversibleDenied
<1>1. EngineInv => IrreversibleDenied
  BY DEF EngineInv, HarmInv
<1>2. QED
  BY <1>1, EngineInvariant, PTL

\* What a late or repeated result cannot do: change a signal that is over.
THEOREM OverForGood == Spec => StaysOver
<1> DEFINE Stays == \A r \in Runs : Over(r) =>
                      /\ outcome'[r] = outcome[r] /\ settled'[r] = settled[r]
                      /\ acted'[r] = acted[r]
<1>1. TypeOK /\ [Next]_vars => Stays \/ UNCHANGED vars
  <2> SUFFICES ASSUME TypeOK, [Next]_vars, ~UNCHANGED vars PROVE Stays
    OBVIOUS
  <2>1. ASSUME NEW r \in Runs, OthersAlone(r), ~Over(r)
        PROVE  Stays
    BY <2>1 DEF OthersAlone
  <2>2. CASE ResumeInline \/ \E r \in Runs : Resume(r)
    <3>1. PICK r \in InFlight :
               \E answered \in BOOLEAN, next \in [Asking(r) -> SUBSET Kinds], harm \in BOOLEAN,
               act \in [Asking(r) -> {"allow", "other"}] :
            EndRound(r, answered, next, harm, act)
      BY <2>2, ResumeIsEndRound
    <3>2. OthersAlone(r)
      BY <3>1, EndRoundIs
    <3>3. QED
      BY <2>1, <3>2 DEF InFlight, Over
  <2>3. ASSUME NEW r \in Runs, Start(r)
        PROVE  Stays
    BY <2>1, <2>3, StartEffect DEF Over
  <2>4. ASSUME NEW r \in Runs, StartError(r) \/ StartVetoed(r) \/ Cancel(r)
        PROVE  Stays
    BY <2>1, <2>4, ShortEffect DEF Over
  <2>5. QED
    BY <2>2, <2>3, <2>4 DEF Next
<1>2. QED
  BY <1>1, EngineTypeCorrect, PTL DEF Spec, StaysOver
===============================================================================
