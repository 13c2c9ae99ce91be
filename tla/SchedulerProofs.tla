--------------------------- MODULE SchedulerProofs ---------------------------
(* Proofs about Scheduler, for any number of jobs, agents and workers.       *)
EXTENDS Scheduler, FiniteSetTheorems, SequenceTheorems, TLAPS

\* Removing an element of a sequence leaves a sequence over the same set.
LEMMA RemoveAtType ==
    ASSUME NEW S, NEW s \in Seq(S), NEW i \in DOMAIN s
    PROVE  RemoveAt(s, i) \in Seq(S)
BY DEF RemoveAt

\* So does inserting an element of the set.
LEMMA InsertAtType ==
    ASSUME NEW S, NEW s \in Seq(S), NEW e \in S, NEW p \in 1..(Len(s) + 1)
    PROVE  InsertAt(s, p, e) \in Seq(S)
BY DEF InsertAt

-----------------------------------------------------------------------------
(* Type correctness.                                                        *)

\* `complete` keeps the types of what it changes.
LEMMA CompleteType ==
    ASSUME TypeOK, NEW j, NEW result \in Replies,
           NEW saved \in SUBSET SUBSET Jobs, NEW memory \in SUBSET Jobs,
           Complete(j, result, saved, memory)
    PROVE  /\ host' \in [Jobs -> HostStates] /\ reply' \in [Jobs -> Replies]
           /\ late' \in SUBSET Jobs /\ recorded' \in SUBSET Jobs
<1>1. saved # None => (CHOOSE m \in saved : TRUE) \in SUBSET Jobs
  BY DEF None
<1>2. Undo(saved, memory) \in SUBSET Jobs
  BY <1>1 DEF Undo
<1>3. reply' \in [Jobs -> Replies] /\ late' \in SUBSET Jobs
  BY DEF Complete, TypeOK
<1>4. host' \in [Jobs -> HostStates]
  BY DEF Complete, TypeOK, HostStates
<1>5. recorded' \in SUBSET Jobs
  BY <1>2 DEF Complete, TypeOK
<1>6. QED
  BY <1>3, <1>4, <1>5

\* So does removing a signal from flight.
LEMMA ForgetType ==
    ASSUME TypeOK, NEW j, Forget(j)
    PROVE  /\ active' \in SUBSET Jobs
           /\ round' \in [Jobs -> 0..MaxRounds]
           /\ awaiting' \in [Jobs -> Nat]
           /\ before' \in [Jobs -> SUBSET SUBSET Jobs]
<1>1. active' \in SUBSET Jobs
  BY DEF Forget, TypeOK
<1>2. round' \in [Jobs -> 0..MaxRounds]
  <2>1. 0 \in 0..MaxRounds
    BY ConstantsAssumption
  <2>2. QED
    BY <2>1 DEF Forget, TypeOK
<1>3. awaiting' \in [Jobs -> Nat]
  BY DEF Forget, TypeOK
<1>4. before' \in [Jobs -> SUBSET SUBSET Jobs]
  <2>1. None \in SUBSET SUBSET Jobs
    BY DEF None
  <2>2. QED
    BY <2>1 DEF Forget, TypeOK
<1>5. QED
  BY <1>1, <1>2, <1>3, <1>4

\* So does `expire`.
LEMMA ExpireType ==
    ASSUME TypeOK, NEW j \in Jobs, Expire(j)
    PROVE  /\ host' \in [Jobs -> HostStates] /\ reply' \in [Jobs -> Replies]
           /\ late' \in SUBSET Jobs
           /\ runs' \in SUBSET Jobs /\ recorded' \in SUBSET Jobs
           /\ active' \in SUBSET Jobs
           /\ round' \in [Jobs -> 0..MaxRounds]
           /\ awaiting' \in [Jobs -> Nat]
           /\ before' \in [Jobs -> SUBSET SUBSET Jobs]
<1>1. CASE j \in active
  <2> DEFINE result == IF j \in runs THEN "effects" ELSE "error"
  <2>1. /\ Complete(j, result, before[j], recorded)
        /\ runs' = runs \ {j} /\ Forget(j)
    BY <1>1 DEF Expire
  <2>2. result \in Replies /\ before[j] \in SUBSET SUBSET Jobs
        /\ recorded \in SUBSET Jobs
    BY DEF Replies, TypeOK
  <2> HIDE DEF result
  <2>3. QED
    BY <2>1, <2>2, CompleteType, ForgetType DEF TypeOK
<1>2. CASE j \notin active
  BY <1>2 DEF Expire, TypeOK, engineVars
<1>3. QED
  BY <1>1, <1>2

\* So does `ask`, for a round the engine may ask.
LEMMA AskType ==
    ASSUME TypeOK, NEW j \in Jobs, NEW r \in 1..MaxRounds, NEW a \in Asks,
           NEW from \in {"sweep", "admit"}, Ask(j, r, a, from)
    PROVE  /\ round' \in [Jobs -> 0..MaxRounds]
           /\ awaiting' \in [Jobs -> Nat]
           /\ one_backlog' \in Seq(OneTask) /\ two_backlog' \in Seq(TwoTask)
           /\ pc' \in Phases /\ cur' \in Jobs \cup {NoJob}
           /\ back' \in {"sweep", "admit"}
<1> DEFINE two == IF TwoWorkers = 0 THEN 0 ELSE a.reasonings
           calls == Counted(a.questions, two)
           asked == [i \in 1..two |-> [job |-> j, round |-> r, id |-> i]]
<1>1. /\ a.questions \in BOOLEAN /\ a.reasonings \in 0..MaxReasonings
      /\ two \in 0..MaxReasonings /\ MaxReasonings \in Nat
  BY ConstantsAssumption DEF Asks
<1>2. calls \in Nat
  BY <1>1 DEF Counted
<1>3. /\ round' = [round EXCEPT ![j] = r]
      /\ awaiting' = [awaiting EXCEPT ![j] = calls]
      /\ two_backlog' = two_backlog \o asked
      /\ Continue(j, calls, from)
  BY DEF Ask
<1>4. asked \in Seq(TwoTask)
  <2>1. \A i \in 1..two : [job |-> j, round |-> r, id |-> i] \in TwoTask
    BY <1>1 DEF TwoTask
  <2>2. two \in Nat
    BY <1>1
  <2>3. QED
    BY <2>1, <2>2
<1>5. one_backlog' \in Seq(OneTask)
  <2> DEFINE task == [job |-> j, round |-> r]
  <2>1. task \in OneTask
    BY DEF OneTask
  <2>2. CASE a.questions
    <3>1. PICK p \in 1..(Len(one_backlog) + 1) :
                  one_backlog' = InsertAt(one_backlog, p, task)
      BY <2>2 DEF Ask
    <3>2. one_backlog \in Seq(OneTask)
      BY DEF TypeOK
    <3>3. QED
      BY <2>1, <3>1, <3>2, InsertAtType
  <2>3. CASE ~a.questions
    BY <2>3 DEF Ask, TypeOK
  <2>4. QED
    BY <2>2, <2>3
<1>6. two_backlog' \in Seq(TwoTask)
  <2>1. two_backlog \in Seq(TwoTask)
    BY DEF TypeOK
  <2> HIDE DEF asked
  <2>2. QED
    BY <1>3, <1>4, <2>1
<1>7. pc' \in Phases /\ cur' \in Jobs \cup {NoJob} /\ back' \in {"sweep", "admit"}
  BY <1>3 DEF Continue, Phases
<1>8. round' \in [Jobs -> 0..MaxRounds] /\ awaiting' \in [Jobs -> Nat]
  <2> HIDE DEF calls
  <2>1. r \in 0..MaxRounds
    BY ConstantsAssumption
  <2>2. QED
    BY <1>2, <1>3, <2>1 DEF TypeOK
<1>9. QED
  BY <1>5, <1>6, <1>7, <1>8

\* What the thread receives is an event of its type.
LEMMA ReceivedType ==
    ASSUME TypeOK, Received
    PROVE  /\ inbox' \in Seq(Event)
           /\ Head(inbox).type = "job" => Head(inbox).job \in Jobs
           /\ Head(inbox).type = "answers" => Head(inbox).task \in OneTask
           /\ Head(inbox).type = "reasoned" => Head(inbox).task \in TwoTask
<1>1. inbox \in Seq(Event) /\ inbox # <<>> /\ inbox' = Tail(inbox)
  BY DEF TypeOK, Received
<1>2. Head(inbox) \in Event /\ Tail(inbox) \in Seq(Event)
  BY <1>1
<1>3. ASSUME NEW ev \in Event
      PROVE  /\ ev.type = "job" => ev.job \in Jobs
             /\ ev.type = "answers" => ev.task \in OneTask
             /\ ev.type = "reasoned" => ev.task \in TwoTask
  BY DEF Event, ClosedEvent
<1>4. QED
  BY <1>1, <1>2, <1>3

\* What hosts, time and workers do keeps the types.
LEMMA OutsideType ==
    ASSUME TypeOK,
           \/ \E j \in Jobs : Host(j) \/ Pass(j)
           \/ Close \/ Workers
    PROVE  TypeOK'
<1> USE DEF TypeOK, hostVars, loopVars, signalVars, engineVars, busyVars,
            outVars, backlogs
<1>1. ASSUME NEW j \in Jobs, IngestCount(j) \/ IngestRefuse(j) \/ GiveUp(j)
      PROVE  TypeOK'
  <2>1. /\ host' \in [Jobs -> HostStates] /\ queued' \in Int
        /\ UNCHANGED <<reply, late, closed, loopVars, inbox, signalVars,
                       backlogs, engineVars, busyVars, outVars>>
    <3>1. CASE IngestCount(j)
      BY <3>1 DEF IngestCount, HostStates
    <3>2. CASE IngestRefuse(j)
      BY <3>2 DEF IngestRefuse, HostStates
    <3>3. CASE GiveUp(j)
      BY <3>3 DEF GiveUp, HostStates
    <3>4. QED
      BY <1>1, <3>1, <3>2, <3>3
  <2>2. QED
    BY <2>1
<1>2. ASSUME NEW j \in Jobs, IngestSend(j)
      PROVE  TypeOK'
  <2>1. JobEvent(j) \in Event
    BY DEF JobEvent, Event
  <2>2. inbox' \in Seq(Event)
    BY <1>2, <2>1 DEF IngestSend
  <2>3. QED
    BY <1>2, <2>2 DEF IngestSend, HostStates
<1>3. ASSUME NEW j \in Jobs, Pass(j)
      PROVE  TypeOK'
  BY <1>3 DEF Pass
<1>4. CASE Close
  <2>1. inbox' \in Seq(Event)
    BY <1>4 DEF Close, Event
  <2>2. QED
    BY <1>4, <2>1 DEF Close
<1>5. ASSUME NEW t \in one_out, OneReturns(t)
      PROVE  TypeOK'
  <2>1. AnswerEvent(t) \in Event
    BY DEF AnswerEvent, Event
  <2>2. inbox' \in Seq(Event)
    BY <1>5, <2>1 DEF OneReturns
  <2>3. QED
    BY <1>5, <2>2 DEF OneReturns
<1>6. ASSUME NEW t \in two_out, TwoReturns(t)
      PROVE  TypeOK'
  <2>1. ReasonEvent(t) \in Event
    BY DEF ReasonEvent, Event
  <2>2. inbox' \in Seq(Event)
    BY <1>6, <2>1 DEF TwoReturns
  <2>3. QED
    BY <1>6, <2>2 DEF TwoReturns
<1>7. ASSUME NEW t \in one_out \cup two_out, WorkerDies(t)
      PROVE  TypeOK'
  BY <1>7, ConstantsAssumption DEF WorkerDies
<1>8. QED
  BY <1>1, <1>2, <1>3, <1>4, <1>5, <1>6, <1>7 DEF Host, Workers

\* What the thread does keeps the types: one step per part of its loop.
LEMMA ThreadType ==
    ASSUME TypeOK, Thread
    PROVE  TypeOK'
<1> USE DEF hostVars, loopVars, signalVars, engineVars, busyVars, outVars,
            backlogs
<1>1. ASSUME NEW i \in DOMAIN waiting
      PROVE  /\ waiting[i] \in Jobs
             /\ RemoveAt(waiting, i) \in Seq(Jobs)
  BY RemoveAtType DEF TypeOK
<1>2. ASSUME NEW i \in DOMAIN waiting, SweepWaiting(i)
      PROVE  TypeOK'
  BY <1>1, <1>2 DEF SweepWaiting, TypeOK, HostStates, Replies
<1>3. ASSUME NEW j \in Jobs, Abandon(j)
      PROVE  TypeOK'
  <2>1. Undo(before[j], recorded) \in SUBSET Jobs
    <3>1. before[j] # None => (CHOOSE m \in before[j] : TRUE) \in SUBSET Jobs
      BY DEF None, TypeOK
    <3>2. QED
      BY <3>1 DEF Undo, TypeOK
  <2>2. Forget(j)
    BY <1>3 DEF Abandon
  <2>3. QED
    BY <1>3, <2>1, <2>2, ForgetType DEF Abandon, TypeOK
<1>4. ASSUME NEW j \in Jobs, SweepLate(j)
      PROVE  TypeOK'
  <2>1. Expire(j)
    BY <1>4 DEF SweepLate
  <2>2. QED
    BY <1>4, <2>1, ExpireType DEF SweepLate, TypeOK
<1>5. CASE SweepDone
  BY <1>5 DEF SweepDone, GoTo, TypeOK, Phases
<1>6. ASSUME NEW i \in DOMAIN waiting, BeginError(i)
      PROVE  TypeOK'
  <2>1. Complete(waiting[i], "error", None, recorded)
    BY <1>6 DEF BeginError
  <2>2. /\ host' \in [Jobs -> HostStates] /\ reply' \in [Jobs -> Replies]
        /\ late' \in SUBSET Jobs /\ recorded' \in SUBSET Jobs
    BY <2>1, CompleteType DEF None, Replies, TypeOK
  <2>3. QED
    BY <1>1, <1>6, <2>2 DEF BeginError, TypeOK
<1>7. ASSUME NEW i \in DOMAIN waiting
      PROVE  SavedFor(waiting[i]) \in SUBSET SUBSET Jobs
  BY DEF SavedFor, Some, None, TypeOK
<1>8. ASSUME NEW i \in DOMAIN waiting, BeginDone(i)
      PROVE  TypeOK'
  <2>1. Complete(waiting[i], "effects", SavedFor(waiting[i]),
                 recorded \cup {waiting[i]})
    BY <1>8 DEF BeginDone
  <2>2. /\ host' \in [Jobs -> HostStates] /\ reply' \in [Jobs -> Replies]
        /\ late' \in SUBSET Jobs /\ recorded' \in SUBSET Jobs
    <3>1. recorded \cup {waiting[i]} \in SUBSET Jobs
      BY <1>1 DEF TypeOK
    <3>2. "effects" \in Replies /\ SavedFor(waiting[i]) \in SUBSET SUBSET Jobs
      BY <1>7 DEF Replies
    <3>3. QED
      BY <2>1, <3>1, <3>2, CompleteType
  <2>3. QED
    BY <1>1, <1>8, <2>2 DEF BeginDone, TypeOK
<1>9. ASSUME NEW i \in DOMAIN waiting, BeginAsk(i)
      PROVE  TypeOK'
  <2>1. PICK a \in Asks : Ask(waiting[i], 1, a, "admit")
    BY <1>9 DEF BeginAsk
  <2>2. 1 \in 1..MaxRounds
    BY ConstantsAssumption
  <2>3. /\ round' \in [Jobs -> 0..MaxRounds]
        /\ awaiting' \in [Jobs -> Nat]
        /\ one_backlog' \in Seq(OneTask) /\ two_backlog' \in Seq(TwoTask)
        /\ pc' \in Phases /\ cur' \in Jobs \cup {NoJob}
        /\ back' \in {"sweep", "admit"}
    BY <1>1, <2>1, <2>2, AskType
  <2>4. /\ before' = [before EXCEPT ![waiting[i]] = SavedFor(waiting[i])]
        /\ active' = active \cup {waiting[i]}
        /\ runs' = runs \cup {waiting[i]}
        /\ recorded' = recorded \cup {waiting[i]}
        /\ waiting' = RemoveAt(waiting, i)
        /\ UNCHANGED <<hostVars, inbox, busyVars, outVars>>
    BY <1>9 DEF BeginAsk
  <2>5. /\ before' \in [Jobs -> SUBSET SUBSET Jobs]
        /\ active' \in SUBSET Jobs /\ runs' \in SUBSET Jobs
        /\ recorded' \in SUBSET Jobs /\ waiting' \in Seq(Jobs)
    BY <1>1, <1>7, <2>4 DEF TypeOK
  <2>6. QED
    BY <2>3, <2>4, <2>5 DEF TypeOK
<1>10. CASE AdmitDone
  BY <1>10 DEF AdmitDone, GoTo, TypeOK, Phases
<1>11. ASSUME NEW i \in DOMAIN one_backlog, DispatchOne(i)
       PROVE  TypeOK'
  <2> DEFINE t == one_backlog[i]
  <2>1. t \in OneTask /\ RemoveAt(one_backlog, i) \in Seq(OneTask)
    BY RemoveAtType DEF TypeOK
  <2>2. t.job \in Jobs
    BY <2>1 DEF OneTask
  <2>3. /\ one_backlog' = RemoveAt(one_backlog, i)
        /\ UNCHANGED <<queued, closed, loopVars, inbox, waiting, two_backlog,
                       two_busy, two_out, panics>>
    BY <1>11 DEF DispatchOne
  <2>4. CASE t.job \in late
    <3>1. Expire(t.job) /\ UNCHANGED <<one_out, one_busy>>
      BY <1>11, <2>4 DEF DispatchOne
    <3> HIDE DEF t
    <3>2. QED
      BY <2>1, <2>2, <2>3, <3>1, ExpireType DEF TypeOK
  <2>5. CASE t.job \notin late
    <3>1. /\ UNCHANGED <<host, reply, late, active, round, awaiting, before,
                         engineVars>>
          /\ \/ one_out' = one_out \cup {t} /\ one_busy' = one_busy + 1
             \/ UNCHANGED <<one_out, one_busy>>
      BY <1>11, <2>5 DEF DispatchOne
    <3> HIDE DEF t
    <3>2. QED
      BY <2>1, <2>3, <3>1 DEF TypeOK
  <2>6. QED
    BY <2>4, <2>5
<1>12. CASE DispatchTwo
  <2> DEFINE t == Head(two_backlog)
  <2>1. two_backlog \in Seq(TwoTask) /\ two_backlog # <<>>
    BY <1>12 DEF DispatchTwo, TypeOK
  <2>2. t \in TwoTask /\ Tail(two_backlog) \in Seq(TwoTask)
    BY <2>1
  <2>3. QED
    BY <1>12, <2>2, SMTT(20) DEF DispatchTwo, TypeOK
<1>13. CASE DispatchDone
  BY <1>13 DEF DispatchDone, GoTo, TypeOK, Phases
<1>14. CASE RecvJob
  <2>1. inbox' \in Seq(Event) /\ Head(inbox).job \in Jobs
    BY <1>14, ReceivedType DEF RecvJob
  <2>2. waiting' \in Seq(Jobs)
    BY <1>14, <2>1 DEF RecvJob, TypeOK
  <2>3. QED
    BY <1>14, <2>1, <2>2, SMTT(20) DEF RecvJob, TypeOK, Phases
<1>15. CASE RecvClosed
  BY <1>15, ReceivedType DEF RecvClosed, TypeOK, Phases
<1>16. CASE Tick
  BY <1>16 DEF Tick, GoTo, TypeOK, Phases
<1>17. ASSUME NEW t, t.job \in Jobs, Settle(t)
       PROVE  /\ host' \in [Jobs -> HostStates] /\ reply' \in [Jobs -> Replies]
              /\ late' \in SUBSET Jobs
              /\ pc' \in Phases /\ cur' \in Jobs \cup {NoJob}
              /\ back' \in {"sweep", "admit"}
              /\ runs' \in SUBSET Jobs /\ recorded' \in SUBSET Jobs
              /\ active' \in SUBSET Jobs
              /\ round' \in [Jobs -> 0..MaxRounds]
              /\ awaiting' \in [Jobs -> Nat]
              /\ before' \in [Jobs -> SUBSET SUBSET Jobs]
  <2>1. CASE t.job \in active \cap late
    <3>1. Expire(t.job) /\ pc' = "sweep" /\ UNCHANGED <<cur, back>>
      BY <1>17, <2>1 DEF Settle
    <3>2. QED
      BY <1>17, <3>1, ExpireType DEF TypeOK, Phases
  <2>2. CASE t.job \notin active \cap late
    <3> DEFINE left == IF awaiting[t.job] > 0 THEN awaiting[t.job] - 1 ELSE 0
    <3>1. left \in Nat
      BY <1>17 DEF TypeOK
    <3>2. /\ \/ awaiting' = [awaiting EXCEPT ![t.job] = left]
             \/ UNCHANGED awaiting
          /\ \/ pc' = "advance" /\ cur' = t.job /\ back' = "sweep"
             \/ pc' = "sweep" /\ UNCHANGED <<cur, back>>
          /\ UNCHANGED <<host, reply, late, active, round, before, engineVars>>
      BY <1>17, <2>2 DEF Settle
    <3> HIDE DEF left
    <3>3. awaiting' \in [Jobs -> Nat]
      <4>1. awaiting \in [Jobs -> Nat]
        BY DEF TypeOK
      <4>2. awaiting' = [awaiting EXCEPT ![t.job] = left] \/ awaiting' = awaiting
        BY <3>2
      <4>3. QED
        BY <3>1, <4>1, <4>2
    <3>4. /\ pc' \in Phases /\ cur' \in Jobs \cup {NoJob}
          /\ back' \in {"sweep", "admit"}
      BY <1>17, <3>2 DEF TypeOK, Phases
    <3>5. QED
      BY <3>2, <3>3, <3>4 DEF TypeOK
  <2>3. QED
    BY <2>1, <2>2
<1>18. CASE CollectAnswers
  <2>1. inbox' \in Seq(Event) /\ Head(inbox).task.job \in Jobs
    BY <1>18, ReceivedType DEF CollectAnswers, OneTask
  <2>2. Settle(Head(inbox).task)
    BY <1>18 DEF CollectAnswers
  <2>3. Finished(one_busy) \in Nat
    BY DEF Finished, TypeOK
  <2>4. QED
    BY <1>17, <1>18, <2>1, <2>2, <2>3 DEF CollectAnswers, TypeOK
<1>19. CASE CollectReasoned
  <2>1. inbox' \in Seq(Event) /\ Head(inbox).task.job \in Jobs
    BY <1>19, ReceivedType DEF CollectReasoned, TwoTask
  <2>2. Settle(Head(inbox).task)
    BY <1>19 DEF CollectReasoned
  <2>3. Finished(two_busy) \in Nat
    BY DEF Finished, TypeOK
  <2>4. QED
    BY <1>17, <1>19, <2>1, <2>2, <2>3 DEF CollectReasoned, TypeOK
<1>20. CASE AdvanceAsk
  <2>1. PICK a \in Asks : Ask(cur, round[cur] + 1, a, back)
    BY <1>20 DEF AdvanceAsk
  <2>2. cur \in Jobs /\ round[cur] + 1 \in 1..MaxRounds
    BY <1>20, ConstantsAssumption DEF AdvanceAsk, MayAskAgain, TypeOK
  <2>3. /\ round' \in [Jobs -> 0..MaxRounds]
        /\ awaiting' \in [Jobs -> Nat]
        /\ one_backlog' \in Seq(OneTask) /\ two_backlog' \in Seq(TwoTask)
        /\ pc' \in Phases /\ cur' \in Jobs \cup {NoJob}
        /\ back' \in {"sweep", "admit"}
    BY <2>1, <2>2, AskType, SMTT(20) DEF TypeOK
  <2>4. QED
    BY <1>20, <2>3 DEF AdvanceAsk, TypeOK
<1>21. CASE AdvanceDone
  <2> DEFINE result == IF cur \in runs THEN "effects" ELSE "error"
             saved == IF cur \in runs THEN before[cur] ELSE None
  <2>1. Complete(cur, result, saved, recorded) /\ Forget(cur)
    BY <1>21 DEF AdvanceDone
  <2>2. /\ result \in Replies /\ saved \in SUBSET SUBSET Jobs
        /\ recorded \in SUBSET Jobs
    BY DEF Replies, None, TypeOK
  <2> HIDE DEF result, saved
  <2>3. QED
    BY <1>21, <2>1, <2>2, CompleteType, ForgetType
       DEF AdvanceDone, TypeOK, Phases
<1>22. QED
  BY <1>2, <1>3, <1>4, <1>5, <1>6, <1>8, <1>9, <1>10, <1>11, <1>12, <1>13,
     <1>14, <1>15, <1>16, <1>18, <1>19, <1>20, <1>21
     DEF Thread, Sweep, Admit, Dispatch, Receive, Advance

\* Every variable keeps its type, in every behaviour: the scheduler's queues
\* hold tasks and jobs of its own, and no round exceeds MAX_ROUNDS.
THEOREM TypeCorrect == Spec => []TypeOK
<1>1. Init => TypeOK
  <2> SUFFICES ASSUME Init PROVE TypeOK
    OBVIOUS
  <2>1. /\ host \in [Jobs -> HostStates] /\ reply \in [Jobs -> Replies]
        /\ pc \in Phases
    BY DEF Init, HostStates, Replies, Phases
  <2>2. /\ round \in [Jobs -> 0..MaxRounds] /\ awaiting \in [Jobs -> Nat]
        /\ panics \in 0..MaxPanics
    BY ConstantsAssumption DEF Init
  <2>3. before \in [Jobs -> SUBSET SUBSET Jobs]
    BY DEF Init, None
  <2>4. /\ inbox \in Seq(Event) /\ waiting \in Seq(Jobs)
        /\ one_backlog \in Seq(OneTask) /\ two_backlog \in Seq(TwoTask)
    BY DEF Init
  <2>5. closed \in BOOLEAN
    BY DEF Init
  <2>6. /\ queued \in Int /\ late \in SUBSET Jobs
        /\ cur \in Jobs \cup {NoJob} /\ back \in {"sweep", "admit"}
        /\ active \in SUBSET Jobs
        /\ runs \in SUBSET Jobs /\ recorded \in SUBSET Jobs
        /\ one_busy \in Nat /\ two_busy \in Nat
        /\ one_out \in SUBSET OneTask /\ two_out \in SUBSET TwoTask
    BY DEF Init
  <2>7. QED
    BY <2>1, <2>2, <2>3, <2>4, <2>5, <2>6 DEF TypeOK
<1>2. TypeOK /\ [Next]_vars => TypeOK'
  <2> SUFFICES ASSUME TypeOK, [Next]_vars PROVE TypeOK'
    OBVIOUS
  <2>1. CASE Thread
    BY <2>1, ThreadType
  <2>2. CASE (\E j \in Jobs : Host(j) \/ Pass(j)) \/ Close \/ Workers
    BY <2>2, OutsideType
  <2>3. CASE Stopped \/ UNCHANGED vars
    BY <2>3 DEF Stopped, vars, TypeOK, hostVars, loopVars, signalVars,
                engineVars, busyVars, outVars, backlogs
  <2>4. QED
    BY <2>1, <2>2, <2>3 DEF Next
<1>3. QED
  BY <1>1, <1>2, PTL DEF Spec

-----------------------------------------------------------------------------
(* The engine's runs are the signals in flight.                             *)

\* Only starting, settling and abandoning a signal change either, and all of
\* them change both; a reload finds nothing in flight.
LEMMA EngineAgreesStep ==
    ASSUME EngineAgrees, [Next]_vars
    PROVE  EngineAgrees'
<1> USE DEF EngineAgrees, hostVars, loopVars, signalVars, engineVars, busyVars,
            outVars, backlogs
<1>1. ASSUME NEW j, Expire(j)
      PROVE  runs' = active'
  BY <1>1 DEF Expire, Forget
<1>2. ASSUME NEW t, Settle(t)
      PROVE  runs' = active'
  BY <1>1, <1>2 DEF Settle
<1>3. CASE Sweep
  BY <1>1, <1>3 DEF Sweep, SweepWaiting, Abandon, Forget, SweepLate, SweepDone,
                    GoTo, MayReload
<1>4. CASE Admit
  BY <1>4 DEF Admit, BeginError, BeginDone, BeginAsk, AdmitDone, GoTo
<1>5. CASE Dispatch
  BY <1>1, <1>5 DEF Dispatch, DispatchOne, DispatchTwo, DispatchDone, GoTo
<1>6. CASE Receive
  BY <1>2, <1>6 DEF Receive, RecvJob, RecvClosed, Tick, CollectAnswers,
                    CollectReasoned, GoTo
<1>7. CASE Advance
  BY <1>7 DEF Advance, AdvanceAsk, AdvanceDone, Forget
<1>8. CASE (\E j \in Jobs : Host(j) \/ Pass(j)) \/ Close \/ Workers
  BY <1>8 DEF Host, IngestCount, IngestRefuse, IngestSend, GiveUp, Pass, Close,
              Workers, OneReturns, TwoReturns, WorkerDies
<1>9. CASE Stopped \/ UNCHANGED vars
  BY <1>9 DEF Stopped, vars
<1>10. QED
  BY <1>3, <1>4, <1>5, <1>6, <1>7, <1>8, <1>9 DEF Next, Thread

\* The engine knows exactly the signals the scheduler has in flight: no run is
\* dropped by a reload or leaked by a signal that was abandoned or expired.
THEOREM RunsAreInFlight == Spec => []EngineAgrees
<1>1. Init => EngineAgrees
  BY DEF Init, EngineAgrees
<1>2. EngineAgrees /\ [Next]_vars => EngineAgrees'
  BY EngineAgreesStep
<1>3. QED
  BY <1>1, <1>2, PTL DEF Spec

\* The engine never refuses a signal that admit starts: admit's own tests
\* (agent idle, room left) imply the engine's, as the runs agree.
THEOREM NeverRefused == Spec => []AdmittedNeverRefused
<1>1. TypeOK /\ EngineAgrees => AdmittedNeverRefused
  <2> SUFFICES ASSUME TypeOK, EngineAgrees, NEW i \in DOMAIN waiting,
                      Admissible(i)
               PROVE  ~EngineRefuses(waiting[i])
    BY DEF AdmittedNeverRefused
  <2>1. Cardinality(active) \in Nat /\ runs = active
    <3>1. IsFiniteSet(active)
      BY ConstantsAssumption, FS_Subset DEF TypeOK
    <3>2. QED
      BY <3>1, FS_CardinalityType DEF EngineAgrees
  <2>2. ~(Cardinality(runs) >= MaxRuns)
    BY <2>1, ConstantsAssumption DEF Admissible
  <2>3. \A k \in runs : AgentOf[k] # AgentOf[waiting[i]]
    BY <2>1 DEF Admissible, IsNext, Eligible
  <2>4. QED
    BY <2>2, <2>3 DEF EngineRefuses
<1>2. QED
  BY <1>1, TypeCorrect, RunsAreInFlight, PTL

-----------------------------------------------------------------------------
(* Undoing a model error undoes nothing else.                               *)

\* A lone signal's saved memory holds every signal answered with effects,
\* because nothing else is in flight while it is, and so nothing else can be
\* answered with effects before the memory is put back.
MemoryInv ==
    /\ UndoKeepsAnswered
    /\ \A k \in active : k \in recorded
    /\ \A k \in active : before[k] # None => active = {k}
    /\ \A k \in active : \A m \in before[k] :
           \A j \in Jobs : reply[j] = "effects" => j \in m

\* What `complete` does to memory and replies.
LEMMA CompleteEffect ==
    ASSUME TypeOK, NEW j, NEW result, NEW saved, NEW memory,
           Complete(j, result, saved, memory)
    PROVE  \/ /\ reply' = reply
              /\ recorded' = memory \/ recorded' \in saved
           \/ /\ reply' = [reply EXCEPT ![j] = result]
              /\ recorded' = memory
<1>1. saved # None => (CHOOSE m \in saved : TRUE) \in saved
  BY DEF None
<1>2. Undo(saved, memory) = memory \/ Undo(saved, memory) \in saved
  BY <1>1 DEF Undo
<1>3. QED
  BY <1>2 DEF Complete

\* A signal that leaves flight, answered or not, keeps the invariant.
LEMMA SettleMemory ==
    ASSUME TypeOK, MemoryInv, NEW j, NEW result,
           \/ j \in active /\ Complete(j, result, before[j], recorded)
           \/ Complete(j, "error", None, recorded),
           Forget(j)
    PROVE  MemoryInv'
<1>1. /\ active' = active \ {j}
      /\ \A k \in active' : before'[k] = before[k]
  BY DEF Forget, TypeOK
<1>2. CASE j \in active /\ Complete(j, result, before[j], recorded)
  <2>1. CASE recorded' \in before[j] /\ reply' = reply
    <3>1. active' = {}
      BY <1>1, <1>2, <2>1 DEF MemoryInv, None
    <3>2. UndoKeepsAnswered'
      BY <1>2, <2>1 DEF MemoryInv, UndoKeepsAnswered
    <3>3. QED
      BY <3>1, <3>2 DEF MemoryInv
  <2>2. CASE recorded' = recorded /\ reply' = reply
    BY <1>1, <2>2 DEF MemoryInv, UndoKeepsAnswered
  <2>3. CASE recorded' = recorded /\ reply' = [reply EXCEPT ![j] = result]
    <3>1. \A i \in Jobs : reply'[i] = "effects" => reply[i] = "effects" \/ i = j
      BY <2>3 DEF TypeOK
    <3>2. UndoKeepsAnswered'
      BY <1>2, <2>3, <3>1 DEF MemoryInv, UndoKeepsAnswered
    <3>3. \A k \in active' : before'[k] = None
      BY <1>1, <1>2 DEF MemoryInv
    <3>4. QED
      BY <1>1, <2>3, <3>2, <3>3 DEF MemoryInv, None
  <2>4. QED
    BY <1>2, <2>1, <2>2, <2>3, CompleteEffect
<1>3. CASE Complete(j, "error", None, recorded)
  <2>1. recorded' = recorded
    BY <1>3 DEF Complete, Undo
  <2>2. \A i \in Jobs : reply'[i] = "effects" => reply[i] = "effects"
    BY <1>3 DEF Complete, TypeOK
  <2>3. QED
    BY <1>1, <2>1, <2>2 DEF MemoryInv, UndoKeepsAnswered
<1>4. QED
  BY <1>2, <1>3

\* An expired signal keeps what was undone and what was answered apart.
LEMMA ExpireMemory ==
    ASSUME TypeOK, MemoryInv, NEW j, Expire(j)
    PROVE  MemoryInv'
<1>1. CASE j \in active
  BY <1>1, SettleMemory DEF Expire
<1>2. CASE j \notin active
  BY <1>2 DEF Expire, engineVars, MemoryInv, UndoKeepsAnswered
<1>3. QED
  BY <1>1, <1>2

\* A step that leaves memory, replies and signals in flight alone.
LEMMA OtherMemory ==
    ASSUME MemoryInv, UNCHANGED <<reply, active, before, recorded>>
    PROVE  MemoryInv'
BY DEF MemoryInv, UndoKeepsAnswered

\* Starting a signal.
LEMMA BeginMemory ==
    ASSUME TypeOK, MemoryInv, NEW i \in DOMAIN waiting,
           BeginError(i) \/ BeginDone(i) \/ BeginAsk(i)
    PROVE  MemoryInv'
<1> DEFINE j == waiting[i]
<1>1. j \in Jobs /\ j \notin active
  BY DEF TypeOK, BeginError, BeginDone, BeginAsk, Admissible, IsNext, Eligible
<1>2. /\ \A k \in active : before[k] = None
      /\ runs_alone(j) => active = {}
  BY DEF BeginError, BeginDone, BeginAsk, Admissible, AloneInFlight
<1>3. CASE BeginError(i)
  <2>1. /\ Complete(j, "error", None, recorded)
        /\ UNCHANGED <<active, before>>
    BY <1>3 DEF BeginError
  <2>2. recorded' = recorded
    BY <2>1 DEF Complete, Undo
  <2>3. \A h \in Jobs : reply'[h] = "effects" => reply[h] = "effects"
    BY <2>1 DEF Complete, TypeOK
  <2>4. QED
    BY <2>1, <2>2, <2>3 DEF MemoryInv, UndoKeepsAnswered
<1>4. CASE BeginDone(i)
  <2>1. /\ Complete(j, "effects", SavedFor(j), recorded \cup {j})
        /\ UNCHANGED <<active, before>>
    BY <1>4 DEF BeginDone
  <2>2. \A m \in SavedFor(j) : m = recorded
    BY DEF SavedFor, Some, None
  <2>3. \/ /\ reply' = reply
           /\ recorded' = recorded \cup {j} \/ recorded' = recorded
        \/ /\ reply' = [reply EXCEPT ![j] = "effects"]
           /\ recorded' = recorded \cup {j}
    BY <2>1, <2>2, CompleteEffect
  <2>4. /\ recorded \subseteq recorded'
        /\ \A h \in Jobs : reply'[h] = "effects" => h \in recorded'
    BY <1>1, <2>3 DEF MemoryInv, UndoKeepsAnswered, TypeOK
  <2>5. QED
    BY <1>2, <2>1, <2>4 DEF MemoryInv, UndoKeepsAnswered, None
<1>5. CASE BeginAsk(i)
  <2>1. /\ active' = active \cup {j}
        /\ before' = [before EXCEPT ![j] = SavedFor(j)]
        /\ recorded' = recorded \cup {j} /\ reply' = reply
    BY <1>5 DEF BeginAsk, hostVars
  <2>2. /\ before'[j] = SavedFor(j)
        /\ \A k \in active : before'[k] = None
    BY <1>1, <1>2, <2>1 DEF TypeOK
  <2>3. SavedFor(j) # None => active = {}
    BY <1>2 DEF SavedFor
  <2>4. \A m \in SavedFor(j) : m = recorded
    BY DEF SavedFor, Some, None
  <2>5. \A k \in active' : before'[k] # None => active' = {k}
    BY <2>1, <2>2, <2>3
  <2>6. \A k \in active' : \A m \in before'[k] :
            \A h \in Jobs : reply'[h] = "effects" => h \in m
    BY <2>1, <2>2, <2>4 DEF MemoryInv, UndoKeepsAnswered, None
  <2>7. QED
    BY <2>1, <2>5, <2>6 DEF MemoryInv, UndoKeepsAnswered
<1>6. QED
  BY <1>3, <1>4, <1>5

\* Every step keeps the undo of a lone signal from touching another's.
LEMMA MemoryStep ==
    ASSUME TypeOK, EngineAgrees, MemoryInv, [Next]_vars
    PROVE  MemoryInv'
<1> USE DEF hostVars, loopVars, signalVars, engineVars, busyVars, outVars,
            backlogs
<1>1. CASE Sweep
  <2>1. ASSUME NEW i \in DOMAIN waiting, SweepWaiting(i)
        PROVE  MemoryInv'
    <3>1. /\ UNCHANGED <<active, before, recorded>>
          /\ \A h \in Jobs : reply'[h] = "effects" => reply[h] = "effects"
      BY <2>1 DEF SweepWaiting, TypeOK
    <3>2. QED
      BY <3>1 DEF MemoryInv, UndoKeepsAnswered
  <2>2. ASSUME NEW j \in Jobs, Abandon(j)
        PROVE  MemoryInv'
    <3>1. Complete(j, "effects", before[j], recorded) /\ j \in active /\ Forget(j)
      BY <2>2 DEF Abandon, Complete
    <3>2. QED
      BY <3>1, SettleMemory
  <2>3. ASSUME NEW j \in Jobs, SweepLate(j)
        PROVE  MemoryInv'
    BY <2>3, ExpireMemory DEF SweepLate
  <2>4. CASE SweepDone
    BY <2>4, OtherMemory DEF SweepDone, GoTo
  <2>5. QED
    BY <1>1, <2>1, <2>2, <2>3, <2>4 DEF Sweep
<1>2. CASE Admit
  <2>1. CASE AdmitDone
    BY <2>1, OtherMemory DEF AdmitDone, GoTo
  <2>2. QED
    BY <1>2, <2>1, BeginMemory DEF Admit
<1>3. CASE Dispatch
  <2>1. ASSUME NEW i \in DOMAIN one_backlog, DispatchOne(i)
        PROVE  MemoryInv'
    <3>1. CASE one_backlog[i].job \in late
      BY <2>1, <3>1, ExpireMemory DEF DispatchOne
    <3>2. CASE one_backlog[i].job \notin late
      BY <2>1, <3>2, OtherMemory DEF DispatchOne
    <3>3. QED
      BY <3>1, <3>2
  <2>2. CASE DispatchTwo \/ DispatchDone
    BY <2>2, OtherMemory DEF DispatchTwo, DispatchDone, GoTo
  <2>3. QED
    BY <1>3, <2>1, <2>2 DEF Dispatch
<1>4. CASE Receive
  <2>1. ASSUME NEW t, Settle(t)
        PROVE  MemoryInv'
    <3>1. CASE t.job \in active \cap late
      BY <2>1, <3>1, ExpireMemory DEF Settle
    <3>2. CASE t.job \notin active \cap late
      BY <2>1, <3>2, OtherMemory DEF Settle
    <3>3. QED
      BY <3>1, <3>2
  <2>2. CASE RecvJob \/ RecvClosed \/ Tick
    BY <2>2, OtherMemory DEF RecvJob, RecvClosed, Tick, GoTo
  <2>3. QED
    BY <1>4, <2>1, <2>2 DEF Receive, CollectAnswers, CollectReasoned
<1>5. CASE Advance
  <2>1. CASE AdvanceAsk
    BY <2>1, OtherMemory DEF AdvanceAsk
  <2>2. CASE AdvanceDone
    BY <2>2, SettleMemory DEF AdvanceDone, EngineAgrees
  <2>3. QED
    BY <1>5, <2>1, <2>2 DEF Advance
<1>6. CASE (\E j \in Jobs : Host(j) \/ Pass(j)) \/ Close \/ Workers
  BY <1>6, OtherMemory
     DEF Host, IngestCount, IngestRefuse, IngestSend, GiveUp, Pass, Close,
         Workers, OneReturns, TwoReturns, WorkerDies
<1>7. CASE Stopped \/ UNCHANGED vars
  BY <1>7, OtherMemory DEF Stopped, vars
<1>8. QED
  BY <1>1, <1>2, <1>3, <1>4, <1>5, <1>6, <1>7 DEF Next, Thread

\* No undo of a model error takes away what the engine remembers of a signal
\* the host got effects for.
THEOREM UndoIsLocal == Spec => []UndoKeepsAnswered
<1>1. Init => MemoryInv
  BY DEF Init, MemoryInv, UndoKeepsAnswered
<1>2. TypeOK /\ EngineAgrees /\ MemoryInv /\ [Next]_vars => MemoryInv'
  BY MemoryStep
<1>3. MemoryInv => UndoKeepsAnswered
  BY DEF MemoryInv
<1>4. QED
  BY <1>1, <1>2, <1>3, TypeCorrect, RunsAreInFlight, PTL DEF Spec

-----------------------------------------------------------------------------
(* Sequences without duplicates, and what they hold.                        *)

\* What a sequence holds, and a sequence that holds nothing twice.
Elems(s) == {s[i] : i \in DOMAIN s}

OneToOne(s) == \A i, k \in DOMAIN s : s[i] = s[k] => i = k

\* RemoveAt, index by index.
LEMMA RemoveAtIs ==
    ASSUME NEW S, NEW s \in Seq(S), NEW i \in DOMAIN s
    PROVE  /\ RemoveAt(s, i) \in Seq(S) /\ Len(RemoveAt(s, i)) = Len(s) - 1
           /\ \A k \in 1..(Len(s) - 1) :
                  RemoveAt(s, i)[k] = IF k < i THEN s[k] ELSE s[k + 1]
<1> DEFINE n == Len(s)
           front == SubSeq(s, 1, i - 1)
           rest == SubSeq(s, i + 1, n)
<1>1. i \in 1..n /\ n \in Nat
  OBVIOUS
<1>2. /\ front \in Seq(S) /\ Len(front) = i - 1
      /\ \A k \in 1..(i - 1) : front[k] = s[k]
  BY <1>1
<1>3. /\ rest \in Seq(S) /\ Len(rest) = n - i
      /\ \A k \in 1..(n - i) : rest[k] = s[i + k]
  BY <1>1
<1>4. RemoveAt(s, i) = front \o rest
  BY DEF RemoveAt
<1> HIDE DEF front, rest, n
<1> DEFINE whole == front \o rest
<1>5. /\ whole \in Seq(S) /\ Len(whole) = n - 1
      /\ \A k \in 1..(n - 1) : whole[k] =
             IF k <= i - 1 THEN front[k] ELSE rest[k - (i - 1)]
  <2>1. Len(front) + Len(rest) = n - 1
    BY <1>1, <1>2, <1>3
  <2>2. /\ whole \in Seq(S) /\ Len(whole) = Len(front) + Len(rest)
        /\ \A k \in 1..(Len(front) + Len(rest)) : whole[k] =
               IF k <= Len(front) THEN front[k] ELSE rest[k - Len(front)]
    BY <1>2, <1>3, ConcatProperties
  <2> HIDE DEF whole
  <2>3. QED
    BY <1>2, <2>1, <2>2
<1> HIDE DEF whole
<1>6. \A k \in 1..(n - 1) : whole[k] = IF k < i THEN s[k] ELSE s[k + 1]
  <2> SUFFICES ASSUME NEW k \in 1..(n - 1)
               PROVE  whole[k] = IF k < i THEN s[k] ELSE s[k + 1]
    OBVIOUS
  <2>0. whole[k] = IF k <= i - 1 THEN front[k] ELSE rest[k - (i - 1)]
    BY <1>5
  <2>1. CASE k < i
    <3>1. k <= i - 1 /\ k \in 1..(i - 1)
      BY <1>1, <2>1
    <3>2. whole[k] = s[k]
      BY <1>2, <2>0, <3>1
    <3>3. QED
      BY <2>1, <3>2
  <2>2. CASE k >= i
    <3>1. /\ k - (i - 1) \in 1..(n - i) /\ i + (k - (i - 1)) = k + 1
          /\ ~(k <= i - 1) /\ ~(k < i)
      BY <1>1, <2>2
    <3>2. rest[k - (i - 1)] = s[k + 1]
      BY <1>3, <3>1
    <3>3. QED
      BY <2>0, <3>1, <3>2
  <2>3. QED
    BY <1>1, <2>1, <2>2
<1>7. QED
  BY <1>4, <1>5, <1>6 DEF n, whole

\* InsertAt, index by index.
LEMMA InsertAtIs ==
    ASSUME NEW S, NEW s \in Seq(S), NEW e \in S, NEW p \in 1..(Len(s) + 1)
    PROVE  /\ InsertAt(s, p, e) \in Seq(S) /\ Len(InsertAt(s, p, e)) = Len(s) + 1
           /\ \A k \in 1..(Len(s) + 1) :
                  InsertAt(s, p, e)[k] = IF k < p THEN s[k]
                                         ELSE IF k = p THEN e ELSE s[k - 1]
<1> DEFINE n == Len(s)
           front == SubSeq(s, 1, p - 1)
           rest == SubSeq(s, p, n)
<1>1. p \in 1..(n + 1) /\ n \in Nat
  OBVIOUS
<1>2. /\ front \in Seq(S) /\ Len(front) = p - 1
      /\ \A k \in 1..(p - 1) : front[k] = s[k]
  BY <1>1
<1>3. /\ rest \in Seq(S) /\ Len(rest) = n - p + 1
      /\ \A k \in 1..(n - p + 1) : rest[k] = s[p + k - 1]
  BY <1>1
<1>4. InsertAt(s, p, e) = front \o <<e>> \o rest
  BY DEF InsertAt
<1> DEFINE new == front \o <<e>>
<1> HIDE DEF front, rest, n
<1>5. /\ new \in Seq(S) /\ Len(new) = p
      /\ \A k \in 1..(p - 1) : new[k] = s[k]
      /\ new[p] = e
  BY <1>1, <1>2
<1> HIDE DEF new
<1> DEFINE whole == new \o rest
<1>6. /\ whole \in Seq(S) /\ Len(whole) = n + 1
      /\ \A k \in 1..(n + 1) : whole[k] =
             IF k <= p THEN new[k] ELSE rest[k - p]
  <2>1. Len(new) + Len(rest) = n + 1
    BY <1>1, <1>3, <1>5
  <2>2. /\ whole \in Seq(S) /\ Len(whole) = Len(new) + Len(rest)
        /\ \A k \in 1..(Len(new) + Len(rest)) : whole[k] =
               IF k <= Len(new) THEN new[k] ELSE rest[k - Len(new)]
    BY <1>3, <1>5, ConcatProperties
  <2> HIDE DEF whole
  <2>3. QED
    BY <1>5, <2>1, <2>2
<1> HIDE DEF whole
<1>7. \A k \in 1..(n + 1) : whole[k] =
         IF k < p THEN s[k] ELSE IF k = p THEN e ELSE s[k - 1]
  <2> SUFFICES ASSUME NEW k \in 1..(n + 1)
               PROVE  whole[k] =
                        IF k < p THEN s[k] ELSE IF k = p THEN e ELSE s[k - 1]
    OBVIOUS
  <2>0. whole[k] = IF k <= p THEN new[k] ELSE rest[k - p]
    BY <1>6
  <2>1. CASE k <= p
    BY <1>1, <1>5, <2>0, <2>1
  <2>2. CASE k > p
    <3>1. /\ k - p \in 1..(n - p + 1) /\ p + (k - p) - 1 = k - 1
          /\ ~(k <= p) /\ ~(k < p) /\ k # p
      BY <1>1, <2>2
    <3>2. rest[k - p] = s[k - 1]
      BY <1>3, <3>1
    <3>3. QED
      BY <2>0, <3>1, <3>2
  <2>3. QED
    BY <1>1, <2>1, <2>2
<1>8. QED
  BY <1>4, <1>6, <1>7 DEF n, new, whole

\* Taking an element out takes only it out.
LEMMA RemoveAtElems ==
    ASSUME NEW S, NEW s \in Seq(S), NEW i \in DOMAIN s, OneToOne(s)
    PROVE  /\ OneToOne(RemoveAt(s, i))
           /\ Elems(RemoveAt(s, i)) = Elems(s) \ {s[i]}
<1> DEFINE r == RemoveAt(s, i)
<1>1. /\ r \in Seq(S) /\ Len(r) = Len(s) - 1 /\ i \in 1..Len(s) /\ Len(s) \in Nat
      /\ \A k \in 1..(Len(s) - 1) : r[k] = IF k < i THEN s[k] ELSE s[k + 1]
  BY RemoveAtIs
<1> HIDE DEF r
<1>2. DOMAIN r = 1..(Len(s) - 1) /\ DOMAIN s = 1..Len(s)
  BY <1>1
<1>3. OneToOne(r)
  <2> DEFINE from(q) == IF q < i THEN q ELSE q + 1
  <2>1. \A q \in DOMAIN r : from(q) \in DOMAIN s /\ r[q] = s[from(q)]
    BY <1>1, <1>2
  <2>2. \A q, m \in DOMAIN r : from(q) = from(m) => q = m
    BY <1>1, <1>2
  <2>3. \A q, m \in DOMAIN r : r[q] = r[m] => from(q) = from(m)
    <3> HIDE DEF from
    <3>1. QED
      BY <2>1 DEF OneToOne
  <2>4. QED
    <3> HIDE DEF from
    <3>1. QED
      BY <2>2, <2>3 DEF OneToOne
<1>4. Elems(r) \subseteq Elems(s) \ {s[i]}
  <2> SUFFICES ASSUME NEW k \in DOMAIN r PROVE r[k] \in Elems(s) /\ r[k] # s[i]
    BY DEF Elems
  <2>1. QED
    BY <1>1, <1>2, SMTT(20) DEF Elems, OneToOne
<1>5. Elems(s) \ {s[i]} \subseteq Elems(r)
  <2> SUFFICES ASSUME NEW k \in DOMAIN s, k # i PROVE s[k] \in Elems(r)
    BY DEF Elems
  <2>1. CASE k < i
    BY <1>1, <1>2, <2>1 DEF Elems
  <2>2. CASE k > i
    <3>1. k - 1 \in DOMAIN r /\ r[k - 1] = s[k]
      BY <1>1, <1>2, <2>2
    <3>2. QED
      BY <3>1 DEF Elems
  <2>3. QED
    BY <1>1, <1>2, <2>1, <2>2
<1>6. QED
  BY <1>3, <1>4, <1>5 DEF r

\* Putting an element in, at whatever place, adds only it.
LEMMA InsertAtElems ==
    ASSUME NEW S, NEW s \in Seq(S), NEW e \in S, NEW p \in 1..(Len(s) + 1),
           OneToOne(s), e \notin Elems(s)
    PROVE  /\ OneToOne(InsertAt(s, p, e))
           /\ Elems(InsertAt(s, p, e)) = Elems(s) \cup {e}
<1> DEFINE r == InsertAt(s, p, e)
<1>1. /\ r \in Seq(S) /\ Len(r) = Len(s) + 1 /\ Len(s) \in Nat
      /\ \A k \in 1..(Len(s) + 1) :
             r[k] = IF k < p THEN s[k] ELSE IF k = p THEN e ELSE s[k - 1]
  BY InsertAtIs
<1> HIDE DEF r
<1>2. DOMAIN r = 1..(Len(s) + 1) /\ DOMAIN s = 1..Len(s)
  BY <1>1
<1>3. OneToOne(r)
  <2> SUFFICES ASSUME NEW k \in DOMAIN r, NEW m \in DOMAIN r, r[k] = r[m] PROVE k = m
    BY DEF OneToOne
  <2>1. \A n \in DOMAIN s : s[n] # e
    BY DEF Elems
  <2> DEFINE at(q) == IF q < p THEN q ELSE q - 1
  <2>2. \A q \in DOMAIN r : q # p => at(q) \in DOMAIN s /\ r[q] = s[at(q)]
    BY <1>1, <1>2
  <2>3. p \in DOMAIN r /\ r[p] = e
    BY <1>1, <1>2
  <2>4. CASE k = p \/ m = p
    BY <2>1, <2>2, <2>3, <2>4
  <2>5. CASE k # p /\ m # p
    <3>1. at(k) = at(m)
      BY <2>2, <2>5 DEF OneToOne
    <3>2. QED
      BY <1>2, <2>5, <3>1
  <2>6. QED
    BY <2>4, <2>5
<1>4. Elems(r) \subseteq Elems(s) \cup {e}
  BY <1>1, <1>2 DEF Elems
<1>5. Elems(s) \cup {e} \subseteq Elems(r)
  <2>1. p \in DOMAIN r /\ r[p] = e
    BY <1>1, <1>2
  <2>2. ASSUME NEW k \in DOMAIN s PROVE s[k] \in Elems(r)
    <3>1. CASE k < p
      BY <1>1, <1>2, <3>1 DEF Elems
    <3>2. CASE k >= p
      <4>1. k + 1 \in DOMAIN r /\ r[k + 1] = s[k]
        BY <1>1, <1>2, <3>2
      <4>2. QED
        BY <4>1 DEF Elems
    <3>3. QED
      BY <1>1, <1>2, <3>1, <3>2
  <2>3. QED
    BY <2>1, <2>2 DEF Elems
<1>6. QED
  BY <1>3, <1>4, <1>5 DEF r

\* Appending a new element adds only it.
LEMMA AppendElems ==
    ASSUME NEW S, NEW s \in Seq(S), NEW e \in S, OneToOne(s), e \notin Elems(s)
    PROVE  OneToOne(Append(s, e)) /\ Elems(Append(s, e)) = Elems(s) \cup {e}
<1> DEFINE r == Append(s, e)
<1>1. /\ r \in Seq(S) /\ Len(r) = Len(s) + 1 /\ Len(s) \in Nat
      /\ \A k \in 1..Len(s) : r[k] = s[k]
      /\ r[Len(s) + 1] = e
  OBVIOUS
<1> HIDE DEF r
<1>2. DOMAIN r = 1..(Len(s) + 1) /\ DOMAIN s = 1..Len(s)
  BY <1>1
<1>3. OneToOne(r)
  <2>1. \A k \in DOMAIN s : s[k] # e
    BY DEF Elems
  <2>2. \A k \in DOMAIN r : (k \in DOMAIN s /\ r[k] = s[k]) \/ (k = Len(s) + 1 /\ r[k] = e)
    BY <1>1, <1>2
  <2>3. QED
    BY <2>1, <2>2 DEF OneToOne
<1>4. Elems(r) = Elems(s) \cup {e}
  BY <1>1, <1>2 DEF Elems
<1>5. QED
  BY <1>3, <1>4 DEF r

\* Taking the head off takes only it out.
LEMMA TailElems ==
    ASSUME NEW S, NEW s \in Seq(S), s # << >>, OneToOne(s)
    PROVE  OneToOne(Tail(s)) /\ Elems(Tail(s)) = Elems(s) \ {Head(s)}
           /\ Head(s) \in Elems(s)
<1> DEFINE r == Tail(s)
<1>1. /\ r \in Seq(S) /\ Len(r) = Len(s) - 1 /\ Len(s) \in Nat \ {0}
      /\ \A k \in 1..(Len(s) - 1) : r[k] = s[k + 1]
      /\ Head(s) = s[1]
  OBVIOUS
<1> HIDE DEF r
<1>2. DOMAIN r = 1..(Len(s) - 1) /\ DOMAIN s = 1..Len(s)
  BY <1>1
<1>3. OneToOne(r)
  <2>1. \A k \in DOMAIN r : k \in Int /\ k + 1 \in DOMAIN s /\ r[k] = s[k + 1]
    BY <1>1, <1>2
  <2>2. \A k, m \in DOMAIN r : r[k] = r[m] => k + 1 = m + 1
    BY <2>1 DEF OneToOne
  <2>3. QED
    BY <2>1, <2>2 DEF OneToOne
<1>4. Elems(r) \subseteq Elems(s) \ {Head(s)} /\ Head(s) \in Elems(s)
  BY <1>1, <1>2, SMTT(20) DEF Elems, OneToOne
<1>5. ASSUME NEW k \in DOMAIN s, k # 1 PROVE s[k] \in Elems(r)
  <2>1. k - 1 \in DOMAIN r /\ r[k - 1] = s[k]
    BY <1>1, <1>2, <1>5
  <2>2. QED
    BY <2>1 DEF Elems
<1>6. Elems(s) \ {Head(s)} \subseteq Elems(r)
  BY <1>1, <1>5 DEF Elems
<1>7. QED
  BY <1>3, <1>4, <1>6 DEF r

-----------------------------------------------------------------------------
(* The signals in a sequence of events.  Induction over the natural numbers  *)
(* is done with least counterexamples.                                       *)

\* A set of natural numbers that is not empty has a least element.
LEMMA Least ==
    ASSUME NEW T \in SUBSET Nat, T # {}
    PROVE  \E i \in T : \A k \in T : i <= k
<1> DEFINE R == OpToRel(<, Nat)
<1>1. IsWellFoundedOn(R, Nat)
  BY NatLessThanWellFounded
<1>2. \A x, y \in Nat : x < y => <<x, y>> \in R
  BY DEF OpToRel
<1> HIDE DEF R
<1>3. PICK i \in T : \A k \in T : ~ (<<k, i>> \in R)
  BY <1>1, WFMin
<1>4. \A k \in T : ~ (k < i)
  BY <1>2, <1>3
<1>5. QED
  BY <1>4

\* What the function f of JobsIn is at i, from its value at i - 1.
PickedAt(events, f, i) ==
    IF i = 0 THEN <<>>
    ELSE IF events[i].type = "job" THEN Append(f[i - 1], events[i].job)
    ELSE f[i - 1]

\* g is that function, up to m.
Follows(events, g, m) == \A i \in 0..m : g[i] = PickedAt(events, g, i)
\* That function exists, with sequences of jobs for values.
Picks(events, g, m) == g \in [0..m -> Seq(Jobs)] /\ Follows(events, g, m)

\* There is such a function for every sequence of events.
LEMMA PicksExists ==
    ASSUME NEW s \in Seq(Event), NEW n \in 0..Len(s)
    PROVE  \E g : Picks(s, g, n)
<1> DEFINE Bad == {m \in 0..Len(s) : ~ \E g : Picks(s, g, m)}
<1>1. SUFFICES ASSUME Bad # {} PROVE FALSE
  OBVIOUS
<1>2. PICK m \in Bad : \A k \in Bad : m <= k
  <2>1. Bad \in SUBSET Nat
    OBVIOUS
  <2> HIDE DEF Bad
  <2>2. QED
    BY <1>1, <2>1, Least
<1>3. CASE m = 0
  <2>1. Picks(s, [i \in 0..0 |-> <<>>], 0)
    BY DEF Picks, Follows, PickedAt
  <2>2. QED
    BY <1>3, <2>1
<1>4. CASE m # 0
  <2>1. m \in 1..Len(s) /\ m - 1 \in 0..Len(s) /\ m - 1 \notin Bad
    BY <1>2, <1>4
  <2>2. PICK g : Picks(s, g, m - 1)
    BY <2>1
  <2> DEFINE h == [i \in 0..m |-> IF i = m THEN PickedAt(s, g, m) ELSE g[i]]
  <2>3. PickedAt(s, g, m) \in Seq(Jobs)
    <3>1. g[m - 1] \in Seq(Jobs)
      BY <2>1, <2>2 DEF Picks, Follows
    <3>2. s[m] \in Event
      BY <2>1
    <3>3. s[m].type = "job" => s[m].job \in Jobs
      BY <3>2 DEF Event, ClosedEvent
    <3>4. QED
      BY <2>1, <3>1, <3>3 DEF PickedAt
  <2>4. \A i \in 0..m : h[i] = IF i = m THEN PickedAt(s, g, m) ELSE g[i]
    OBVIOUS
  <2>5. h \in [0..m -> Seq(Jobs)]
    BY <2>1, <2>2, <2>3 DEF Picks, Follows
  <2> HIDE DEF h
  <2>6. \A i \in 0..m : h[i] = PickedAt(s, h, i)
    <3> SUFFICES ASSUME NEW i \in 0..m PROVE h[i] = PickedAt(s, h, i)
      OBVIOUS
    <3>1. i # 0 => i - 1 \in 0..m /\ i - 1 # m
      BY <2>1
    <3>2. PickedAt(s, h, i) = PickedAt(s, g, i)
      BY <2>4, <3>1 DEF PickedAt
    <3>3. i # m => i \in 0..(m - 1)
      BY <2>1
    <3>4. QED
      BY <2>2, <2>4, <3>2, <3>3 DEF Picks, Follows
  <2>7. QED
    BY <2>5, <2>6 DEF Picks, Follows
<1>5. QED
  BY <1>3, <1>4

\* There is only one.
LEMMA PicksOne ==
    ASSUME NEW s, NEW n \in Nat, NEW f, NEW g,
           Follows(s, f, n), Follows(s, g, n)
    PROVE  f[n] = g[n]
<1> DEFINE Bad == {i \in 0..n : f[i] # g[i]}
<1>1. SUFFICES ASSUME Bad # {} PROVE FALSE
  <2>1. n \in 0..n
    OBVIOUS
  <2>2. QED
    BY <2>1
<1>2. PICK i \in Bad : \A k \in Bad : i <= k
  <2>1. Bad \in SUBSET Nat
    OBVIOUS
  <2> HIDE DEF Bad
  <2>2. QED
    BY <1>1, <2>1, Least
<1>3. i # 0 => i - 1 \in 0..n /\ f[i - 1] = g[i - 1]
  BY <1>2
<1>4. PickedAt(s, f, i) = PickedAt(s, g, i)
  BY <1>3 DEF PickedAt
<1>5. QED
  BY <1>2, <1>4 DEF Follows

\* JobsIn is the last value of that function.
LEMMA JobsInIs ==
    ASSUME NEW s \in Seq(Event), NEW g, Picks(s, g, Len(s))
    PROVE  JobsIn(s) = g[Len(s)] /\ JobsIn(s) \in Seq(Jobs)
<1> DEFINE n == Len(s)
           body(f) == [i \in 0..n |->
                         IF i = 0 THEN <<>>
                         ELSE IF s[i].type = "job" THEN Append(f[i - 1], s[i].job)
                         ELSE f[i - 1]]
           h == CHOOSE f : f = body(f)
<1>1. n \in Nat
  OBVIOUS
<1>2. g = body(g)
  BY DEF Picks, Follows, PickedAt
<1>3. h = body(h)
  BY <1>2
<1>4. Follows(s, h, n)
  <2> HIDE DEF h
  <2>1. SUFFICES ASSUME NEW i \in 0..n PROVE body(h)[i] = PickedAt(s, h, i)
    BY <1>3 DEF Follows
  <2>2. QED
    BY DEF PickedAt
<1>5. Follows(s, g, n)
  BY DEF Picks
<1>6. JobsIn(s) = h[n]
  BY DEF JobsIn
<1> HIDE DEF h
<1>7. h[n] = g[n]
  BY <1>1, <1>4, <1>5, PicksOne
<1>8. g[n] \in Seq(Jobs)
  BY <1>1 DEF Picks, Follows
<1>9. QED
  BY <1>6, <1>7, <1>8

\* The signals in a sequence of events are a sequence of jobs.
LEMMA JobsInType ==
    ASSUME NEW s \in Seq(Event)
    PROVE  JobsIn(s) \in Seq(Jobs)
<1>1. Len(s) \in 0..Len(s)
  OBVIOUS
<1>2. QED
  BY <1>1, PicksExists, JobsInIs

\* An event sent adds its signal at the end.
LEMMA JobsInAppend ==
    ASSUME NEW s \in Seq(Event), NEW e \in Event
    PROVE  JobsIn(Append(s, e)) = IF e.type = "job" THEN Append(JobsIn(s), e.job)
                                  ELSE JobsIn(s)
<1> DEFINE n == Len(s)
           t == Append(s, e)
<1>1. /\ n \in Nat /\ t \in Seq(Event) /\ Len(t) = n + 1
      /\ \A i \in 1..n : t[i] = s[i]
      /\ t[n + 1] = e
  OBVIOUS
<1> HIDE DEF t
<1>2. PICK f : Picks(s, f, n)
  BY <1>1, PicksExists
<1>3. PICK g : Picks(t, g, n + 1)
  <2>1. n + 1 \in 0..Len(t)
    BY <1>1
  <2>2. QED
    BY <1>1, <2>1, PicksExists
<1>4. Follows(s, g, n)
  <2>1. SUFFICES ASSUME NEW i \in 0..n PROVE g[i] = PickedAt(s, g, i)
    BY DEF Follows
  <2>2. g[i] = PickedAt(t, g, i)
    BY <1>1, <1>3 DEF Picks, Follows
  <2>3. i # 0 => t[i] = s[i]
    BY <1>1
  <2>4. QED
    BY <2>2, <2>3 DEF PickedAt
<1>5. g[n] = f[n]
  BY <1>1, <1>2, <1>4, PicksOne DEF Picks
<1>6. g[n + 1] = IF e.type = "job" THEN Append(g[n], e.job) ELSE g[n]
  <2>1. g[n + 1] = PickedAt(t, g, n + 1)
    BY <1>1, <1>3 DEF Picks, Follows
  <2>2. n + 1 # 0 /\ n + 1 - 1 = n
    BY <1>1
  <2>3. QED
    BY <1>1, <2>1, <2>2 DEF PickedAt
<1>7. JobsIn(s) = f[n] /\ JobsIn(t) = g[n + 1]
  BY <1>1, <1>2, <1>3, JobsInIs
<1>8. QED
  BY <1>5, <1>6, <1>7 DEF t

\* An event received is the first of the signals, or none of them.
LEMMA JobsInTail ==
    ASSUME NEW s \in Seq(Event), s # <<>>
    PROVE  /\ Tail(s) \in Seq(Event)
           /\ Head(s).type = "job" =>
                  JobsIn(s) = <<Head(s).job>> \o JobsIn(Tail(s))
           /\ Head(s).type # "job" => JobsIn(s) = JobsIn(Tail(s))
<1> DEFINE n == Len(s)
           t == Tail(s)
           h == IF Head(s).type = "job" THEN <<Head(s).job>> ELSE <<>>
<1>1. /\ n \in Nat \ {0} /\ t \in Seq(Event) /\ Len(t) = n - 1
      /\ \A i \in 1..(n - 1) : t[i] = s[i + 1]
      /\ Head(s) = s[1] /\ s[1] \in Event
  OBVIOUS
<1>2. h \in Seq(Jobs)
  <2>1. Head(s).type = "job" => Head(s).job \in Jobs
    BY <1>1 DEF Event, ClosedEvent
  <2>2. QED
    BY <2>1
<1> HIDE DEF t
<1>3. PICK f : Picks(s, f, n)
  <2>1. n \in 0..Len(s)
    BY <1>1
  <2>2. QED
    BY <2>1, PicksExists
<1>4. PICK g : Picks(t, g, n - 1)
  <2>1. n - 1 \in 0..Len(t)
    BY <1>1
  <2>2. QED
    BY <1>1, <2>1, PicksExists
<1>5. f[1] = h
  <2>1. 0 \in 0..n /\ 1 \in 0..n /\ 1 # 0 /\ 1 - 1 = 0
    BY <1>1
  <2>2. f[0] = <<>> /\ f[1] = PickedAt(s, f, 1)
    BY <1>3, <2>1 DEF Picks, Follows, PickedAt
  <2>3. f[1] = IF s[1].type = "job" THEN Append(<<>>, s[1].job) ELSE <<>>
    BY <2>1, <2>2 DEF PickedAt
  <2>4. QED
    BY <1>1, <2>3
<1> HIDE DEF h
<1>6. \A i \in 0..(n - 1) : f[i + 1] = h \o g[i]
  <2> DEFINE Bad == {i \in 0..(n - 1) : f[i + 1] # h \o g[i]}
  <2>1. SUFFICES ASSUME Bad # {} PROVE FALSE
    OBVIOUS
  <2>2. PICK i \in Bad : \A k \in Bad : i <= k
    <3>1. Bad \in SUBSET Nat
      BY <1>1
    <3>2. QED
      BY <2>1, <3>1, Least
  <2>3. i # 0
    <3>1. g[0] = <<>> /\ 0 + 1 = 1
      BY <1>1, <1>4 DEF Picks, Follows, PickedAt
    <3>2. h \o <<>> = h
      BY <1>2, ConcatEmptySeq
    <3>3. QED
      BY <1>5, <2>2, <3>1, <3>2
  <2>4. /\ i \in 1..(n - 1) /\ i - 1 \in 0..(n - 1) /\ i + 1 \in 0..n
        /\ (i - 1) + 1 = i /\ (i + 1) - 1 = i /\ i + 1 # 0
        /\ ~(i <= i - 1)
    BY <1>1, <2>2, <2>3
  <2>12. i - 1 \notin Bad
    <3> HIDE DEF Bad
    <3>1. QED
      BY <2>2, <2>4
  <2>5. f[i] = h \o g[i - 1]
    BY <2>4, <2>12
  <2>6. t[i] = s[i + 1] /\ t[i] \in Event
    BY <1>1, <2>4
  <2>7. g[i] = IF t[i].type = "job" THEN Append(g[i - 1], t[i].job) ELSE g[i - 1]
    BY <1>4, <2>3, <2>4 DEF Picks, Follows, PickedAt
  <2>8. f[i + 1] = IF t[i].type = "job" THEN Append(f[i], t[i].job) ELSE f[i]
    BY <1>3, <2>4, <2>6 DEF Picks, Follows, PickedAt
  <2>9. g[i - 1] \in Seq(Jobs)
    BY <1>4, <2>4 DEF Picks, Follows
  <2>10. CASE t[i].type = "job"
    <3>1. t[i].job \in Jobs
      BY <2>6, <2>10 DEF Event, ClosedEvent
    <3>2. Append(h \o g[i - 1], t[i].job) = h \o Append(g[i - 1], t[i].job)
      <4>1. PICK q : q = g[i - 1]
        OBVIOUS
      <4>2. PICK e : e = t[i].job
        OBVIOUS
      <4>3. q \in Seq(Jobs) /\ e \in Jobs
        BY <2>9, <3>1, <4>1, <4>2
      <4>5. h \o q \in Seq(Jobs) /\ <<e>> \in Seq(Jobs)
        BY <1>2, <4>3, ConcatProperties
      <4>6. Append(h \o q, e) = (h \o q) \o <<e>> /\ Append(q, e) = q \o <<e>>
        BY <4>3, <4>5, AppendIsConcat
      <4>7. (h \o q) \o <<e>> = h \o (q \o <<e>>)
        BY <1>2, <4>3, <4>5, ConcatAssociative
      <4>4. QED
        BY <4>1, <4>2, <4>6, <4>7
    <3>3. QED
      BY <2>2, <2>5, <2>7, <2>8, <2>10, <3>2
  <2>11. QED
    BY <2>2, <2>5, <2>7, <2>8, <2>10
<1>7. f[n] = h \o g[n - 1]
  <2>1. n - 1 \in 0..(n - 1) /\ (n - 1) + 1 = n
    BY <1>1
  <2>2. QED
    BY <1>6, <2>1
<1>8. JobsIn(s) = f[n] /\ JobsIn(t) = g[n - 1] /\ JobsIn(t) \in Seq(Jobs)
  BY <1>1, <1>3, <1>4, JobsInIs
<1>9. Head(s).type # "job" => h \o JobsIn(t) = JobsIn(t)
  BY <1>8, ConcatEmptySeq DEF h
<1>10. QED
  BY <1>1, <1>7, <1>8, <1>9 DEF t, h

\* No events, no signals.
LEMMA JobsInEmpty == JobsIn(<<>>) = <<>>
<1>1. Picks(<<>>, [i \in 0..0 |-> <<>>], 0) /\ <<>> \in Seq(Event) /\ Len(<<>>) = 0
  BY DEF Picks, Follows, PickedAt
<1>2. QED
  BY <1>1, JobsInIs

-----------------------------------------------------------------------------
(* Where signals are.                                                       *)

\* Signals in the inbox, signals waiting, and those whose host asked.
Sent == {j \in Jobs : JobEvent(j) \in Elems(inbox)}
Waiting == Elems(waiting)

Asked(j) == host[j] \in {"asking", "gone"}

\* A signal is in one place: sent, waiting or in flight, and then its host
\* waits or has given up.
JobPlaces ==
    /\ OneToOne(waiting)
    /\ Sent \cap Waiting = {} /\ Sent \cap active = {} /\ Waiting \cap active = {}
    /\ \A j \in Sent \cup Waiting \cup active : Asked(j)

\* The scheduler took the signal up, in flight or done with.
Begun(j) ==
    /\ j \notin Sent \cup Waiting
    /\ Asked(j) \/ host[j] = "answered"

\* A signal once begun stays so, is never started again, and its rounds only
\* go up.
BegunStays ==
    \A k \in Jobs : Begun(k) =>
        /\ Begun(k)'
        /\ k \in active' => k \in active /\ round[k] <= round'[k]

\* No event is in the inbox twice.
InboxOnce == OneToOne(inbox) /\ (closed \/ ClosedEvent \notin Elems(inbox))

\* Events sent and received, and the signals sent.
LEMMA SendsOther ==
    ASSUME TypeOK, NEW e \in Event, e.type # "job", inbox' = Append(inbox, e)
    PROVE  Sent' = Sent
<1>1. inbox \in Seq(Event) /\ Len(inbox) \in Nat
  BY DEF TypeOK
<1>2. Elems(inbox') = Elems(inbox) \cup {e}
  BY <1>1 DEF Elems
<1>3. \A j \in Jobs : JobEvent(j) # e
  BY DEF JobEvent
<1>4. QED
  BY <1>2, <1>3 DEF Sent

\* A job sent adds its signal.
LEMMA SendsJob ==
    ASSUME TypeOK, NEW j \in Jobs, inbox' = Append(inbox, JobEvent(j))
    PROVE  Sent' = Sent \cup {j}
<1>1. inbox \in Seq(Event) /\ Len(inbox) \in Nat
  BY DEF TypeOK
<1>2. Elems(inbox') = Elems(inbox) \cup {JobEvent(j)}
  BY <1>1 DEF Elems
<1>3. \A k \in Jobs : JobEvent(k) = JobEvent(j) => k = j
  BY DEF JobEvent
<1>4. QED
  BY <1>2, <1>3 DEF Sent

\* The event received leaves the inbox, and a job's signal is no longer sent.
LEMMA Receives ==
    ASSUME TypeOK, InboxOnce, Received
    PROVE  /\ OneToOne(inbox') /\ Elems(inbox') = Elems(inbox) \ {Head(inbox)}
           /\ Head(inbox) \in Elems(inbox) /\ Head(inbox) \in Event
           /\ Head(inbox).type = "job" =>
                  /\ Head(inbox).job \in Sent
                  /\ Sent' = Sent \ {Head(inbox).job}
           /\ Head(inbox).type # "job" => Sent' = Sent
<1>1. inbox \in Seq(Event) /\ inbox # <<>> /\ inbox' = Tail(inbox) /\ OneToOne(inbox)
  BY DEF TypeOK, Received, InboxOnce
<1>2. /\ OneToOne(inbox') /\ Elems(inbox') = Elems(inbox) \ {Head(inbox)}
      /\ Head(inbox) \in Elems(inbox)
  BY <1>1, TailElems
<1>3. Head(inbox) \in Event
  BY <1>1
<1>4. CASE Head(inbox).type = "job"
  <2>1. PICK j \in Jobs : Head(inbox) = JobEvent(j)
    BY <1>3, <1>4 DEF Event, JobEvent, ClosedEvent
  <2>2. Head(inbox).job = j
    BY <2>1 DEF JobEvent
  <2>3. \A k \in Jobs : JobEvent(k) = JobEvent(j) <=> k = j
    BY DEF JobEvent
  <2>4. Sent' = Sent \ {j} /\ j \in Sent
    BY <1>2, <2>1, <2>3 DEF Sent
  <2>5. QED
    BY <1>2, <1>3, <1>4, <2>2, <2>4
<1>5. CASE Head(inbox).type # "job"
  <2>1. \A k \in Jobs : JobEvent(k) # Head(inbox)
    BY <1>5 DEF JobEvent
  <2>2. Sent' = Sent
    BY <1>2, <2>1 DEF Sent
  <2>3. QED
    BY <1>2, <1>3, <1>5, <2>2
<1>6. QED
  BY <1>4, <1>5

\* A signal's host moves on with `complete`, and no other does.
LEMMA CompleteHost ==
    ASSUME TypeOK, NEW j \in Jobs, Asked(j), NEW result, NEW saved, NEW memory,
           Complete(j, result, saved, memory)
    PROVE  /\ \A k \in Jobs : k # j => host'[k] = host[k] /\ reply'[k] = reply[k]
           /\ IF host[j] = "asking"
              THEN host'[j] = "answered" /\ reply'[j] = result
              ELSE host'[j] = host[j] /\ reply'[j] = reply[j]
BY DEF Complete, TypeOK, Asked, is_closed

\* A step that starts nothing and leaves the signals sent and waiting.
LEMMA PlacesStay ==
    ASSUME TypeOK, JobPlaces, Sent' = Sent, waiting' = waiting,
           active' \subseteq active,
           \A k \in Jobs : \/ host'[k] = host[k]
                           \/ host[k] \notin {"asking", "gone", "answered"}
                           \/ host[k] = "asking" /\ host'[k] = "gone"
                           \/ host[k] = "asking" /\ host'[k] = "answered"
                              /\ k \in active \ active'
    PROVE  /\ JobPlaces'
           /\ \A k \in Jobs : Begun(k) => Begun(k)' /\ (k \in active' => k \in active)
<1>1. Waiting' = Waiting /\ OneToOne(waiting')
  BY DEF Waiting, Elems, OneToOne, JobPlaces
<1>2. Sent \subseteq Jobs /\ Waiting \subseteq Jobs /\ active \subseteq Jobs
  <2>1. waiting \in Seq(Jobs) /\ active \in SUBSET Jobs
    BY DEF TypeOK
  <2>2. QED
    BY <2>1 DEF Sent, Waiting, Elems
<1>3. \A j \in Sent' \cup Waiting' \cup active' : Asked(j)'
  BY <1>1, <1>2 DEF JobPlaces, Asked
<1>4. JobPlaces'
  BY <1>1, <1>3 DEF JobPlaces
<1>5. ASSUME NEW k \in Jobs, Begun(k)
      PROVE  Begun(k)' /\ (k \in active' => k \in active)
  BY <1>1, <1>5 DEF Begun, Asked
<1>6. QED
  BY <1>4, <1>5

\* A step that takes a signal from those waiting, to settle or start it.
LEMMA PlacesTaken ==
    ASSUME TypeOK, JobPlaces, Sent' = Sent, NEW i \in DOMAIN waiting,
           waiting' = RemoveAt(waiting, i),
           \/ active' = active
           \/ active' = active \cup {waiting[i]} /\ host' = host,
           \A k \in Jobs : k # waiting[i] => host'[k] = host[k]
    PROVE  /\ JobPlaces' /\ waiting[i] \in Waiting
           /\ \A k \in Jobs : Begun(k) => Begun(k)' /\ (k \in active' => k \in active)
<1>1. waiting \in Seq(Jobs) /\ active \in SUBSET Jobs /\ waiting[i] \in Jobs
  BY DEF TypeOK
<1>2. /\ Waiting' = Waiting \ {waiting[i]} /\ OneToOne(waiting')
      /\ waiting[i] \in Waiting
  <2>1. OneToOne(waiting)
    BY DEF JobPlaces
  <2>2. waiting[i] \in Elems(waiting)
    BY DEF Elems
  <2>3. QED
    BY <1>1, <2>1, <2>2, RemoveAtElems DEF Waiting
<1>3. Sent \subseteq Jobs /\ Waiting \subseteq Jobs
  BY <1>1 DEF Sent, Waiting, Elems
<1>4. \A j \in Sent' \cup Waiting' \cup active' : Asked(j)'
  BY <1>1, <1>2, <1>3 DEF JobPlaces, Asked
<1>5. JobPlaces'
  BY <1>2, <1>4 DEF JobPlaces
<1>6. ASSUME NEW k \in Jobs, Begun(k)
      PROVE  Begun(k)' /\ (k \in active' => k \in active)
  BY <1>1, <1>2, <1>6 DEF Begun, Asked
<1>7. QED
  BY <1>2, <1>5, <1>6

\* A signal in flight that settles, or is abandoned.
LEMMA PlacesLeft ==
    ASSUME TypeOK, JobPlaces, NEW j \in Jobs, j \in active, Forget(j),
           Sent' = Sent, waiting' = waiting,
           \/ \E result, saved, memory : Complete(j, result, saved, memory)
           \/ host' = host
    PROVE  JobPlaces' /\ BegunStays
<1>1. Asked(j)
  BY DEF JobPlaces
<1>2. \A k \in Jobs : k # j => host'[k] = host[k]
  BY <1>1, CompleteHost
<1>3. host'[j] = host[j] \/ (host[j] = "asking" /\ host'[j] = "answered")
  BY <1>1, CompleteHost
<1>4. active' = active \ {j} /\ active \in SUBSET Jobs
  BY DEF Forget, TypeOK
<1>5. \A k \in active' : round'[k] = round[k] /\ round[k] \in Int
  BY <1>4, ConstantsAssumption DEF Forget, TypeOK
<1>6. /\ JobPlaces'
      /\ \A k \in Jobs : Begun(k) => Begun(k)' /\ (k \in active' => k \in active)
  BY <1>2, <1>3, <1>4, PlacesStay
<1>7. QED
  BY <1>5, <1>6 DEF BegunStays

\* An expired signal leaves the others where they are.
LEMMA ExpirePlaces ==
    ASSUME TypeOK, JobPlaces, NEW j \in Jobs, Expire(j),
           Sent' = Sent, waiting' = waiting
    PROVE  JobPlaces' /\ BegunStays
<1>1. CASE j \in active
  BY <1>1, PlacesLeft DEF Expire
<1>2. CASE j \notin active
  <2>1. host' = host /\ active' = active /\ round' = round
    BY <1>2 DEF Expire
  <2>2. \A k \in active : round[k] \in Int
    BY ConstantsAssumption DEF TypeOK
  <2>3. QED
    BY <2>1, <2>2, PlacesStay DEF BegunStays
<1>3. QED
  BY <1>1, <1>2

\* A step that leaves hosts, signals and rounds alone.
LEMMA PlacesSame ==
    ASSUME TypeOK, JobPlaces, Sent' = Sent,
           UNCHANGED <<host, waiting, active, round>>
    PROVE  JobPlaces' /\ BegunStays
<1>1. \A k \in active : round[k] \in Int
  BY ConstantsAssumption DEF TypeOK
<1>2. QED
  BY <1>1, PlacesStay DEF BegunStays

\* So does a result that is collected.
LEMMA SettlePlaces ==
    ASSUME TypeOK, JobPlaces, NEW t, t.job \in Jobs, Settle(t),
           Sent' = Sent, waiting' = waiting
    PROVE  JobPlaces' /\ BegunStays
<1>1. CASE t.job \in active \cap late
  BY <1>1, ExpirePlaces DEF Settle
<1>2. CASE t.job \notin active \cap late
  BY <1>2, PlacesSame DEF Settle
<1>3. QED
  BY <1>1, <1>2

\* What hosts, time and workers do.
LEMMA OutsidePlaces ==
    ASSUME TypeOK, JobPlaces,
           \/ \E j \in Jobs : Host(j) \/ Pass(j)
           \/ Close \/ Workers
    PROVE  JobPlaces' /\ BegunStays
<1> USE DEF hostVars, loopVars, signalVars, engineVars, busyVars, outVars,
            backlogs
<1>1. \A k \in active : round[k] \in Int
  BY ConstantsAssumption DEF TypeOK
<1>2. ASSUME NEW j \in Jobs, IngestCount(j) \/ IngestRefuse(j) \/ GiveUp(j)
      PROVE  JobPlaces' /\ BegunStays
  <2>1. /\ UNCHANGED <<inbox, waiting, active, round>>
        /\ \A k \in Jobs : \/ host'[k] = host[k]
                           \/ host[k] \notin {"asking", "gone", "answered"}
                           \/ host[k] = "asking" /\ host'[k] = "gone"
    BY <1>2 DEF IngestCount, IngestRefuse, GiveUp, TypeOK
  <2>2. Sent' = Sent
    BY <2>1 DEF Sent, Elems
  <2>3. QED
    BY <1>1, <2>1, <2>2, PlacesStay DEF BegunStays
<1>3. ASSUME NEW j \in Jobs, IngestSend(j)
      PROVE  JobPlaces' /\ BegunStays
  <2>1. /\ host[j] = "counted" /\ host' = [host EXCEPT ![j] = "asking"]
        /\ UNCHANGED <<waiting, active, round>>
    BY <1>3 DEF IngestSend
  <2>2. Sent' = Sent \cup {j}
    BY <1>3, SendsJob DEF IngestSend
  <2>3. Waiting' = Waiting /\ (OneToOne(waiting') <=> OneToOne(waiting))
    BY <2>1 DEF Waiting
  <2>4. j \notin Waiting \cup active
    BY <2>1 DEF JobPlaces, Asked
  <2>5. \A k \in Jobs : host'[k] = IF k = j THEN "asking" ELSE host[k]
    BY <2>1 DEF TypeOK
  <2>6. Sent \subseteq Jobs /\ Waiting \subseteq Jobs /\ active \subseteq Jobs
    <3>1. waiting \in Seq(Jobs) /\ active \in SUBSET Jobs
      BY DEF TypeOK
    <3>2. QED
      BY <3>1 DEF Sent, Waiting, Elems
  <2>7. JobPlaces'
    BY <2>1, <2>2, <2>3, <2>4, <2>5, <2>6 DEF JobPlaces, Asked
  <2>8. ASSUME NEW k \in Jobs, Begun(k) PROVE Begun(k)'
    BY <2>1, <2>2, <2>3, <2>5, <2>8 DEF Begun, Asked
  <2>9. QED
    BY <1>1, <2>1, <2>7, <2>8 DEF BegunStays
<1>4. ASSUME NEW j \in Jobs, Pass(j) PROVE JobPlaces' /\ BegunStays
  <2>1. UNCHANGED <<host, inbox, waiting, active, round>>
    BY <1>4 DEF Pass
  <2>2. Sent' = Sent
    BY <2>1 DEF Sent
  <2>3. QED
    BY <2>1, <2>2, PlacesSame
<1>5. CASE Close
  <2>1. ClosedEvent \in Event /\ ClosedEvent.type # "job"
    BY DEF Event, ClosedEvent
  <2>2. Sent' = Sent
    BY <1>5, <2>1, SendsOther DEF Close
  <2>3. QED
    BY <1>5, <2>2, PlacesSame DEF Close
<1>6. ASSUME NEW t \in one_out, OneReturns(t) PROVE JobPlaces' /\ BegunStays
  <2>1. AnswerEvent(t) \in Event /\ AnswerEvent(t).type # "job"
    BY DEF Event, AnswerEvent, TypeOK
  <2>2. Sent' = Sent
    BY <1>6, <2>1, SendsOther DEF OneReturns
  <2>3. QED
    BY <1>6, <2>2, PlacesSame DEF OneReturns
<1>7. ASSUME NEW t \in two_out, TwoReturns(t) PROVE JobPlaces' /\ BegunStays
  <2>1. ReasonEvent(t) \in Event /\ ReasonEvent(t).type # "job"
    BY DEF Event, ReasonEvent, TypeOK
  <2>2. Sent' = Sent
    BY <1>7, <2>1, SendsOther DEF TwoReturns
  <2>3. QED
    BY <1>7, <2>2, PlacesSame DEF TwoReturns
<1>8. ASSUME NEW t, WorkerDies(t) PROVE JobPlaces' /\ BegunStays
  <2>1. UNCHANGED <<host, inbox, waiting, active, round>>
    BY <1>8 DEF WorkerDies
  <2>2. Sent' = Sent
    BY <2>1 DEF Sent
  <2>3. QED
    BY <2>1, <2>2, PlacesSame
<1>9. QED
  BY <1>2, <1>3, <1>4, <1>5, <1>6, <1>7, <1>8 DEF Host, Workers

\* What the thread has to do with a signal it advances: it is in flight.  And
\* a signal in flight waits for a call, unless the thread is about to resume
\* it; a model error in flight has the memory before it saved.
FlightInv ==
    /\ pc = "advance" => cur \in active
    /\ InFlightAwaits
    /\ \A k \in active : runs_alone(k) => before[k] # None

\* The thread moves each signal from one place to the next.
LEMMA ThreadPlaces ==
    ASSUME TypeOK, JobPlaces, InboxOnce, FlightInv, Thread
    PROVE  JobPlaces' /\ BegunStays
<1> USE DEF hostVars, loopVars, signalVars, engineVars, busyVars, outVars,
            backlogs
<1>1. \A k \in active : round[k] \in Int
  BY ConstantsAssumption DEF TypeOK
<1>2. inbox' = inbox => Sent' = Sent
  BY DEF Sent
<1>3. ASSUME NEW i \in DOMAIN waiting
      PROVE  waiting[i] \in Jobs /\ waiting[i] \in Waiting /\ Asked(waiting[i])
             /\ waiting[i] \notin active
  <2>1. waiting[i] \in Jobs /\ waiting[i] \in Waiting
    BY DEF TypeOK, Waiting, Elems
  <2>2. QED
    BY <2>1 DEF JobPlaces
<1>4. ASSUME NEW i \in DOMAIN waiting, SweepWaiting(i)
      PROVE  JobPlaces' /\ BegunStays
  <2>1. /\ waiting' = RemoveAt(waiting, i) /\ active' = active /\ round' = round
        /\ inbox' = inbox
        /\ \A k \in Jobs : k # waiting[i] => host'[k] = host[k]
    BY <1>3, <1>4 DEF SweepWaiting, TypeOK
  <2>3. /\ JobPlaces'
        /\ \A k \in Jobs : Begun(k) => Begun(k)' /\ (k \in active' => k \in active)
    BY <1>2, <2>1, PlacesTaken
  <2>4. QED
    BY <1>1, <2>1, <2>3 DEF BegunStays
<1>5. ASSUME NEW i \in DOMAIN waiting, BeginError(i) \/ BeginDone(i)
      PROVE  JobPlaces' /\ BegunStays
  <2>1. /\ waiting' = RemoveAt(waiting, i) /\ active' = active /\ round' = round
        /\ inbox' = inbox
        /\ \E result, saved, memory : Complete(waiting[i], result, saved, memory)
    BY <1>5 DEF BeginError, BeginDone
  <2>2. \A k \in Jobs : k # waiting[i] => host'[k] = host[k]
    BY <1>3, <2>1, CompleteHost DEF Asked
  <2>4. /\ JobPlaces'
        /\ \A k \in Jobs : Begun(k) => Begun(k)' /\ (k \in active' => k \in active)
    BY <1>2, <2>1, <2>2, PlacesTaken
  <2>5. QED
    BY <1>1, <2>1, <2>4 DEF BegunStays
<1>6. ASSUME NEW i \in DOMAIN waiting, BeginAsk(i)
      PROVE  JobPlaces' /\ BegunStays
  <2>1. PICK a \in Asks : Ask(waiting[i], 1, a, "admit")
    BY <1>6 DEF BeginAsk
  <2>2. /\ waiting' = RemoveAt(waiting, i) /\ active' = active \cup {waiting[i]}
        /\ inbox' = inbox /\ host' = host
        /\ round' = [round EXCEPT ![waiting[i]] = 1]
    BY <1>6, <2>1 DEF BeginAsk, Ask
  <2>3. /\ JobPlaces'
        /\ \A k \in Jobs : Begun(k) => Begun(k)' /\ (k \in active' => k \in active)
    BY <1>2, <2>2, PlacesTaken
  <2>4. \A k \in active : round'[k] = round[k]
    BY <1>3, <2>2 DEF TypeOK
  <2>5. QED
    BY <1>1, <2>3, <2>4 DEF BegunStays
<1>7. ASSUME NEW j \in Jobs, Abandon(j) PROVE JobPlaces' /\ BegunStays
  BY <1>2, <1>7, PlacesLeft DEF Abandon
<1>8. ASSUME NEW j \in Jobs, SweepLate(j) PROVE JobPlaces' /\ BegunStays
  BY <1>2, <1>8, ExpirePlaces DEF SweepLate
<1>9. CASE SweepDone \/ AdmitDone \/ DispatchTwo \/ DispatchDone \/ Tick
  BY <1>2, <1>9, PlacesSame
     DEF SweepDone, AdmitDone, DispatchTwo, DispatchDone, Tick, GoTo
<1>10. ASSUME NEW i \in DOMAIN one_backlog, DispatchOne(i)
       PROVE  JobPlaces' /\ BegunStays
  <2>1. inbox' = inbox /\ waiting' = waiting
    BY <1>10 DEF DispatchOne
  <2>2. one_backlog[i].job \in Jobs
    <3>1. one_backlog[i] \in OneTask
      BY DEF TypeOK
    <3>2. QED
      BY <3>1 DEF OneTask
  <2>3. CASE one_backlog[i].job \in late
    BY <1>2, <1>10, <2>1, <2>2, <2>3, ExpirePlaces DEF DispatchOne
  <2>4. CASE one_backlog[i].job \notin late
    BY <1>2, <1>10, <2>1, <2>4, PlacesSame DEF DispatchOne
  <2>5. QED
    BY <2>3, <2>4
<1>11. CASE RecvJob
  <2> DEFINE j == Head(inbox).job
  <2>1. /\ waiting' = Append(waiting, j)
        /\ UNCHANGED <<host, active, round>>
    BY <1>11 DEF RecvJob
  <2>2. j \in Sent /\ Sent' = Sent \ {j}
    BY <1>11, Receives DEF RecvJob
  <2>3. j \in Jobs /\ j \notin Waiting
    BY <2>2 DEF Sent, JobPlaces
  <2> HIDE DEF j
  <2>4. Waiting' = Waiting \cup {j} /\ OneToOne(waiting')
    <3>1. waiting \in Seq(Jobs) /\ OneToOne(waiting) /\ j \notin Elems(waiting)
      BY <2>3 DEF TypeOK, JobPlaces, Waiting
    <3>2. QED
      BY <2>1, <2>3, <3>1, AppendElems DEF Waiting
  <2>5. JobPlaces'
    BY <2>1, <2>2, <2>4 DEF JobPlaces, Asked
  <2>6. QED
    BY <1>1, <2>1, <2>2, <2>4, <2>5 DEF BegunStays, Begun, Asked
<1>12. CASE RecvClosed
  BY <1>12, Receives, PlacesSame DEF RecvClosed
<1>13. CASE CollectAnswers
  <2>1. Head(inbox).task \in OneTask /\ Sent' = Sent
    BY <1>13, ReceivedType, Receives DEF CollectAnswers
  <2>2. Head(inbox).task.job \in Jobs
    BY <2>1 DEF OneTask
  <2>3. QED
    BY <1>13, <2>1, <2>2, SettlePlaces DEF CollectAnswers
<1>14. CASE CollectReasoned
  <2>1. Head(inbox).task \in TwoTask /\ Sent' = Sent
    BY <1>14, ReceivedType, Receives DEF CollectReasoned
  <2>2. Head(inbox).task.job \in Jobs
    BY <2>1 DEF TwoTask
  <2>3. QED
    BY <1>14, <2>1, <2>2, SettlePlaces DEF CollectReasoned
<1>15. CASE AdvanceAsk
  <2>1. PICK a \in Asks : Ask(cur, round[cur] + 1, a, back)
    BY <1>15 DEF AdvanceAsk
  <2>2. /\ round' = [round EXCEPT ![cur] = round[cur] + 1]
        /\ UNCHANGED <<host, inbox, waiting, active>>
    BY <1>15, <2>1 DEF Ask, AdvanceAsk
  <2>3. /\ JobPlaces'
        /\ \A k \in Jobs : Begun(k) => Begun(k)' /\ (k \in active' => k \in active)
    BY <1>2, <2>2, PlacesStay
  <2>4. \A k \in active : round[k] <= round'[k]
    BY <1>1, <2>2 DEF TypeOK
  <2>5. QED
    BY <2>2, <2>3, <2>4 DEF BegunStays
<1>16. CASE AdvanceDone
  <2>1. cur \in active /\ cur \in Jobs
    BY <1>16 DEF AdvanceDone, FlightInv, TypeOK
  <2>2. QED
    BY <1>2, <1>16, <2>1, PlacesLeft DEF AdvanceDone
<1>17. QED
  BY <1>4, <1>5, <1>6, <1>7, <1>8, <1>9, <1>10, <1>11, <1>12, <1>13, <1>14,
     <1>15, <1>16 DEF Thread, Sweep, Admit, Dispatch, Receive, Advance

\* After each step a signal is in one place, and one begun stays so.
LEMMA PlacesStep ==
    ASSUME TypeOK, JobPlaces, InboxOnce, FlightInv, [Next]_vars
    PROVE  JobPlaces' /\ BegunStays
<1>1. CASE Thread
  BY <1>1, ThreadPlaces
<1>2. CASE (\E j \in Jobs : Host(j) \/ Pass(j)) \/ Close \/ Workers
  BY <1>2, OutsidePlaces
<1>3. CASE Stopped \/ UNCHANGED vars
  <2>1. UNCHANGED <<host, inbox, waiting, active, round>>
    BY <1>3 DEF Stopped, vars, hostVars, signalVars
  <2>2. Sent' = Sent
    BY <2>1 DEF Sent
  <2>3. QED
    BY <2>1, <2>2, PlacesSame
<1>4. QED
  BY <1>1, <1>2, <1>3 DEF Next

\* A signal leaves flight.
LEMMA FlightLeft ==
    ASSUME TypeOK, FlightInv, NEW j \in Jobs, Forget(j),
           pc # "advance" \/ cur = j, pc' # "advance"
    PROVE  FlightInv'
<1>1. \A k \in active' : /\ k \in active /\ k # j
                         /\ awaiting'[k] = awaiting[k] /\ before'[k] = before[k]
  BY DEF Forget, TypeOK
<1>2. QED
  BY <1>1 DEF FlightInv, InFlightAwaits

\* The thread goes on, and no signal changes.
LEMMA FlightGoesOn ==
    ASSUME FlightInv, UNCHANGED <<active, awaiting, before>>,
           pc # "advance", pc' # "advance"
    PROVE  FlightInv'
BY DEF FlightInv, InFlightAwaits

\* What stays in flight after a deadline passes.
LEMMA FlightExpire ==
    ASSUME TypeOK, FlightInv, NEW j \in Jobs, Expire(j),
           pc # "advance", pc' # "advance"
    PROVE  FlightInv'
<1>1. CASE j \in active
  BY <1>1, FlightLeft DEF Expire
<1>2. CASE j \notin active
  BY <1>2, FlightGoesOn DEF Expire
<1>3. QED
  BY <1>1, <1>2

\* A round of j starts.
LEMMA FlightAsk ==
    ASSUME TypeOK, FlightInv, NEW j \in Jobs, NEW r, NEW a \in Asks,
           NEW from \in {"sweep", "admit"}, Ask(j, r, a, from),
           pc # "advance" \/ cur = j,
           active' = active \cup {j},
           \A k \in active \ {j} : before'[k] = before[k],
           runs_alone(j) => before'[j] # None
    PROVE  FlightInv'
<1> DEFINE two == IF TwoWorkers = 0 THEN 0 ELSE a.reasonings
           calls == Counted(a.questions, two)
<1>1. /\ a.questions \in BOOLEAN /\ a.reasonings \in 0..MaxReasonings
      /\ two \in Nat
  BY ConstantsAssumption DEF Asks
<1>2. calls \in Nat
  BY <1>1 DEF Counted
<1>3. awaiting' = [awaiting EXCEPT ![j] = calls] /\ Continue(j, calls, from)
  BY DEF Ask
<1> HIDE DEF calls
<1>4. /\ awaiting'[j] = calls
      /\ \A k \in active \ {j} : awaiting'[k] = awaiting[k] /\ awaiting[k] > 0
  BY <1>3 DEF TypeOK, FlightInv, InFlightAwaits
<1>5. IF calls = 0 THEN pc' = "advance" /\ cur' = j ELSE pc' = from
  BY <1>3 DEF Continue
<1>6. InFlightAwaits'
  BY <1>2, <1>4, <1>5 DEF InFlightAwaits
<1>7. (pc' = "advance" => cur' \in active')
  BY <1>5
<1>8. \A k \in active' : runs_alone(k) => before'[k] # None
  BY DEF FlightInv
<1>9. QED
  BY <1>6, <1>7, <1>8 DEF FlightInv

\* A result collected: its signal still waits, or is resumed.
LEMMA FlightSettle ==
    ASSUME TypeOK, FlightInv, NEW t, t.job \in Jobs, Settle(t), pc = "recv"
    PROVE  FlightInv'
<1>1. CASE t.job \in active \cap late
  BY <1>1, FlightExpire DEF Settle
<1>2. CASE t.job \notin active \cap late
  <2> DEFINE j == t.job
             left == IF awaiting[j] > 0 THEN awaiting[j] - 1 ELSE 0
  <2>1. left \in Nat
    BY DEF TypeOK
  <2>2. UNCHANGED <<active, before>>
    BY <1>2 DEF Settle
  <2>3. CASE InRound(t)
    <3>1. /\ awaiting' = [awaiting EXCEPT ![j] = left]
          /\ IF left = 0 THEN pc' = "advance" /\ cur' = j ELSE pc' = "sweep"
      BY <1>2, <2>3 DEF Settle
    <3>2. j \in active
      BY <2>3 DEF InRound
    <3> HIDE DEF left, j
    <3>3. awaiting'[j] = left /\ \A k \in active \ {j} : awaiting'[k] = awaiting[k]
      BY <3>1, <3>2 DEF TypeOK
    <3>4. \A k \in active : awaiting[k] > 0
      BY DEF FlightInv, InFlightAwaits
    <3>5. InFlightAwaits'
      BY <2>1, <2>2, <3>1, <3>3, <3>4 DEF InFlightAwaits
    <3>6. QED
      BY <2>2, <3>1, <3>2, <3>5 DEF FlightInv
  <2>4. CASE ~InRound(t)
    BY <1>2, <2>4, FlightGoesOn DEF Settle
  <2>5. QED
    BY <2>3, <2>4
<1>3. QED
  BY <1>1, <1>2

\* After each step a signal in flight waits, or is being resumed.
LEMMA FlightStep ==
    ASSUME TypeOK, FlightInv, [Next]_vars
    PROVE  FlightInv'
<1> USE DEF hostVars, loopVars, signalVars, engineVars, busyVars, outVars,
            backlogs
<1>1. CASE Sweep
  BY <1>1, FlightLeft, FlightGoesOn, FlightExpire
     DEF Sweep, SweepWaiting, Abandon, SweepLate, SweepDone, GoTo
<1>2. ASSUME NEW i \in DOMAIN waiting, BeginError(i) \/ BeginDone(i)
      PROVE  FlightInv'
  BY <1>2, FlightGoesOn DEF BeginError, BeginDone
<1>3. ASSUME NEW i \in DOMAIN waiting, BeginAsk(i)
      PROVE  FlightInv'
  <2>1. PICK a \in Asks : Ask(waiting[i], 1, a, "admit")
    BY <1>3 DEF BeginAsk
  <2>2. /\ waiting[i] \in Jobs /\ pc = "admit"
        /\ active' = active \cup {waiting[i]}
        /\ before' = [before EXCEPT ![waiting[i]] = SavedFor(waiting[i])]
    BY <1>3 DEF BeginAsk, TypeOK
  <2>3. /\ \A k \in active \ {waiting[i]} : before'[k] = before[k]
        /\ before'[waiting[i]] = SavedFor(waiting[i])
    BY <2>2 DEF TypeOK
  <2>4. runs_alone(waiting[i]) => SavedFor(waiting[i]) # None
    BY DEF SavedFor, Some, None
  <2>5. QED
    BY <2>1, <2>2, <2>3, <2>4, FlightAsk
<1>4. CASE AdmitDone
  BY <1>4, FlightGoesOn DEF AdmitDone, GoTo
<1>5. ASSUME NEW i \in DOMAIN one_backlog, DispatchOne(i)
      PROVE  FlightInv'
  <2>1. one_backlog[i] \in OneTask
    BY DEF TypeOK
  <2>2. one_backlog[i].job \in Jobs
    BY <2>1 DEF OneTask
  <2>3. CASE one_backlog[i].job \in late
    BY <1>5, <2>2, <2>3, FlightExpire DEF DispatchOne
  <2>4. CASE one_backlog[i].job \notin late
    BY <1>5, <2>4, FlightGoesOn DEF DispatchOne
  <2>5. QED
    BY <2>3, <2>4
<1>6. CASE DispatchTwo \/ DispatchDone
  BY <1>6, FlightGoesOn DEF DispatchTwo, DispatchDone, GoTo
<1>7. CASE RecvJob \/ RecvClosed \/ Tick
  BY <1>7, FlightGoesOn DEF RecvJob, RecvClosed, Tick, Received, GoTo
<1>8. CASE CollectAnswers
  <2>1. Head(inbox).task.job \in Jobs
    BY <1>8, ReceivedType DEF CollectAnswers, OneTask
  <2>2. QED
    BY <1>8, <2>1, FlightSettle DEF CollectAnswers, Received
<1>9. CASE CollectReasoned
  <2>1. Head(inbox).task.job \in Jobs
    BY <1>9, ReceivedType DEF CollectReasoned, TwoTask
  <2>2. QED
    BY <1>9, <2>1, FlightSettle DEF CollectReasoned, Received
<1>10. CASE AdvanceAsk
  <2>1. PICK a \in Asks : Ask(cur, round[cur] + 1, a, back)
    BY <1>10 DEF AdvanceAsk
  <2>2. /\ cur \in active /\ cur \in Jobs /\ back \in {"sweep", "admit"}
        /\ UNCHANGED <<active, before>>
    BY <1>10 DEF AdvanceAsk, FlightInv, TypeOK
  <2>3. active' = active \cup {cur}
    BY <2>2
  <2>4. runs_alone(cur) => before'[cur] # None
    BY <2>2 DEF FlightInv
  <2>5. QED
    BY <2>1, <2>2, <2>3, <2>4, FlightAsk
<1>11. CASE AdvanceDone
  <2>1. cur \in Jobs /\ pc' # "advance"
    BY <1>11 DEF AdvanceDone, FlightInv, TypeOK
  <2>2. QED
    BY <1>11, <2>1, FlightLeft DEF AdvanceDone
<1>12. CASE (\E j \in Jobs : Host(j) \/ Pass(j)) \/ Close \/ Workers
  BY <1>12 DEF FlightInv, InFlightAwaits, Host, IngestCount, IngestRefuse,
               IngestSend, GiveUp, Pass, Close, Workers, OneReturns,
               TwoReturns, WorkerDies
<1>13. CASE Stopped \/ UNCHANGED vars
  BY <1>13 DEF FlightInv, InFlightAwaits, Stopped, vars
<1>14. QED
  BY <1>1, <1>2, <1>3, <1>4, <1>5, <1>6, <1>7, <1>8, <1>9, <1>10, <1>11, <1>12,
     <1>13 DEF Next, Thread, Admit, Dispatch, Receive, Advance

-----------------------------------------------------------------------------
(* A model error that was given up leaves no trace.                         *)

\* What the engine remembers of model errors is of those in flight and of
\* those answered, and the memory saved for one in flight has only the latter.
ErrorInv ==
    /\ \A j \in recorded : runs_alone(j) => j \in active \/ host[j] = "answered"
    /\ \A k \in active : \A m \in before[k] :
           \A j \in m : runs_alone(j) => host[j] = "answered"

\* No host that was answered goes back.
AnsweredStays == \A k \in Jobs : host[k] = "answered" => host'[k] = "answered"

\* Steps that touch neither memory nor what is in flight.
LEMMA ErrorStays ==
    ASSUME TypeOK, ErrorInv, AnsweredStays, UNCHANGED <<active, before, recorded>>
    PROVE  ErrorInv'
BY DEF ErrorInv, AnsweredStays, TypeOK

\* A signal in flight settles or is abandoned.
LEMMA ErrorLeft ==
    ASSUME TypeOK, ErrorInv, JobPlaces, FlightInv, NEW j \in Jobs, j \in active,
           Forget(j), NEW result, Complete(j, result, before[j], recorded)
    PROVE  ErrorInv'
<1>1. Asked(j)
  BY DEF JobPlaces
<1>2. /\ \A k \in Jobs : k # j => host'[k] = host[k]
      /\ host[j] = "asking" => host'[j] = "answered"
  BY <1>1, CompleteHost
<1>3. AnsweredStays
  BY <1>1, <1>2 DEF AnsweredStays, Asked
<1>4. \A k \in active' : k \in active /\ before'[k] = before[k]
  BY DEF Forget, TypeOK
<1>5. \A k \in active' : \A m \in before'[k] :
         \A h \in m : runs_alone(h) => host'[h] = "answered"
  BY <1>3, <1>4 DEF ErrorInv, AnsweredStays, TypeOK
<1>6. ASSUME NEW h \in recorded', runs_alone(h)
      PROVE  h \in active' \/ host'[h] = "answered"
  <2>1. CASE host[j] = "asking"
    <3>1. recorded' = recorded
      BY <2>1 DEF Complete, is_closed
    <3>2. h \in Jobs /\ (h \in active \/ host[h] = "answered")
      BY <1>6, <3>1 DEF ErrorInv, TypeOK
    <3>3. active' = active \ {j}
      BY DEF Forget
    <3>4. QED
      BY <1>2, <1>3, <2>1, <3>2, <3>3 DEF AnsweredStays
  <2>2. CASE host[j] # "asking"
    <3>1. recorded' = Undo(before[j], recorded)
      BY <1>1, <2>2 DEF Complete, is_closed, Asked
    <3>2. CASE before[j] = None
      <4>1. recorded' = recorded /\ ~runs_alone(j)
        BY <3>1, <3>2 DEF Undo, FlightInv
      <4>2. h \in Jobs /\ (h \in active \/ host[h] = "answered")
        BY <1>6, <4>1 DEF ErrorInv, TypeOK
      <4>3. active' = active \ {j} /\ h # j
        BY <1>6, <4>1 DEF Forget
      <4>4. QED
        BY <1>3, <4>2, <4>3 DEF AnsweredStays
    <3>3. CASE before[j] # None
      <4>1. recorded' \in before[j]
        BY <3>1, <3>3 DEF Undo, None
      <4>2. h \in Jobs /\ host[h] = "answered"
        <5>1. before[j] \in SUBSET SUBSET Jobs
          BY DEF TypeOK
        <5>2. QED
          BY <1>6, <4>1, <5>1 DEF ErrorInv
      <4>3. QED
        BY <1>3, <4>2 DEF AnsweredStays
    <3>4. QED
      BY <3>2, <3>3
  <2>3. QED
    BY <2>1, <2>2
<1>7. QED
  BY <1>5, <1>6 DEF ErrorInv

\* A model error that expires is answered or undone.
LEMMA ErrorExpire ==
    ASSUME TypeOK, ErrorInv, JobPlaces, FlightInv, NEW j \in Jobs, Expire(j)
    PROVE  ErrorInv'
<1>1. CASE j \in active
  BY <1>1, ErrorLeft DEF Expire
<1>2. CASE j \notin active
  BY <1>2, ErrorStays DEF Expire, engineVars, AnsweredStays
<1>3. QED
  BY <1>1, <1>2

\* So is one whose result is collected late.
LEMMA ErrorSettle ==
    ASSUME TypeOK, ErrorInv, JobPlaces, FlightInv, NEW t, t.job \in Jobs, Settle(t)
    PROVE  ErrorInv'
<1>1. CASE t.job \in active \cap late
  BY <1>1, ErrorExpire DEF Settle
<1>2. CASE t.job \notin active \cap late
  BY <1>2, ErrorStays DEF Settle, engineVars, AnsweredStays
<1>3. QED
  BY <1>1, <1>2

\* Starting a signal.
LEMMA ErrorBegin ==
    ASSUME TypeOK, ErrorInv, JobPlaces, NEW i \in DOMAIN waiting,
           BeginError(i) \/ BeginDone(i) \/ BeginAsk(i)
    PROVE  ErrorInv'
<1>1. PICK j : j = waiting[i]
  OBVIOUS
<1>2. /\ j \in Jobs /\ Asked(j) /\ j \notin active
      /\ runs_alone(j) => active = {}
  <2>1. j \in Waiting /\ j \in Jobs
    BY <1>1 DEF Waiting, Elems, TypeOK
  <2>2. QED
    BY <1>1, <2>1 DEF JobPlaces, BeginError, BeginDone, BeginAsk, Admissible
<1>3. CASE BeginError(i)
  <2>1. /\ Complete(j, "error", None, recorded) /\ UNCHANGED <<active, before>>
    BY <1>1, <1>3 DEF BeginError
  <2>2. recorded' = recorded
    BY <2>1 DEF Complete, Undo
  <2>3. AnsweredStays
    BY <1>2, <2>1, CompleteHost DEF AnsweredStays, Asked
  <2>4. QED
    BY <2>1, <2>2, <2>3, ErrorStays
<1>4. CASE BeginDone(i)
  <2>1. /\ Complete(j, "effects", SavedFor(j), recorded \cup {j})
        /\ UNCHANGED <<active, before>>
    BY <1>1, <1>4 DEF BeginDone
  <2>2. AnsweredStays
    BY <1>2, <2>1, CompleteHost DEF AnsweredStays, Asked
  <2>3. \A k \in active' : \A m \in before'[k] :
           \A h \in m : runs_alone(h) => host'[h] = "answered"
    BY <2>1, <2>2 DEF ErrorInv, AnsweredStays, TypeOK
  <2>4. \/ recorded' = recorded
        \/ recorded' = recorded \cup {j} /\ host'[j] = "answered"
        \/ recorded' = recorded \cup {j} /\ ~runs_alone(j)
    <3>1. CASE host[j] = "asking"
      BY <1>2, <2>1, <3>1, CompleteHost DEF Complete, is_closed
    <3>2. CASE host[j] # "asking"
      <4>1. recorded' = Undo(SavedFor(j), recorded \cup {j})
        BY <1>2, <2>1, <3>2 DEF Complete, is_closed, Asked
      <4>2. runs_alone(j) => SavedFor(j) = {recorded} /\ SavedFor(j) # None
        BY DEF SavedFor, Some, None
      <4>3. ~runs_alone(j) => SavedFor(j) = None
        BY DEF SavedFor
      <4>4. QED
        BY <4>1, <4>2, <4>3 DEF Undo
    <3>3. QED
      BY <3>1, <3>2
  <2>5. \A h \in recorded' : runs_alone(h) => h \in active' \/ host'[h] = "answered"
    BY <2>1, <2>2, <2>4 DEF ErrorInv, AnsweredStays, TypeOK
  <2>6. QED
    BY <2>3, <2>5 DEF ErrorInv
<1>5. CASE BeginAsk(i)
  <2>1. /\ active' = active \cup {j} /\ recorded' = recorded \cup {j}
        /\ before' = [before EXCEPT ![j] = SavedFor(j)] /\ host' = host
    BY <1>1, <1>5 DEF BeginAsk, hostVars
  <2>2. \A h \in recorded' : runs_alone(h) => h \in active' \/ host'[h] = "answered"
    BY <2>1 DEF ErrorInv
  <2>3. \A k \in active : before'[k] = before[k]
    BY <1>2, <2>1 DEF TypeOK
  <2>4. \A m \in before'[j] : m = recorded /\ runs_alone(j)
    BY <1>2, <2>1 DEF TypeOK, SavedFor, Some, None
  <2>5. \A m \in before'[j] : \A h \in m : runs_alone(h) => host'[h] = "answered"
    BY <1>2, <2>1, <2>4 DEF ErrorInv
  <2>6. QED
    BY <2>1, <2>2, <2>3, <2>5 DEF ErrorInv
<1>6. QED
  BY <1>3, <1>4, <1>5

\* After each step memory has only the model errors it may have.
LEMMA ErrorStep ==
    ASSUME TypeOK, EngineAgrees, ErrorInv, JobPlaces, FlightInv, [Next]_vars
    PROVE  ErrorInv'
<1> USE DEF hostVars, loopVars, signalVars, engineVars, busyVars, outVars,
            backlogs
<1>1. CASE Sweep
  <2>1. ASSUME NEW i \in DOMAIN waiting, SweepWaiting(i)
        PROVE  ErrorInv'
    BY <2>1, ErrorStays DEF SweepWaiting, AnsweredStays, TypeOK
  <2>2. ASSUME NEW j \in Jobs, Abandon(j)
        PROVE  ErrorInv'
    <3>1. Complete(j, "effects", before[j], recorded) /\ j \in active /\ Forget(j)
      BY <2>2 DEF Abandon, Complete
    <3>2. QED
      BY <3>1, ErrorLeft
  <2>3. ASSUME NEW j \in Jobs, SweepLate(j)
        PROVE  ErrorInv'
    BY <2>3, ErrorExpire DEF SweepLate
  <2>4. CASE SweepDone
    BY <2>4, ErrorStays DEF SweepDone, GoTo, AnsweredStays
  <2>5. QED
    BY <1>1, <2>1, <2>2, <2>3, <2>4 DEF Sweep
<1>2. CASE Admit
  <2>1. CASE AdmitDone
    BY <2>1, ErrorStays DEF AdmitDone, GoTo, AnsweredStays
  <2>2. QED
    BY <1>2, <2>1, ErrorBegin DEF Admit
<1>3. CASE Dispatch
  <2>1. ASSUME NEW i \in DOMAIN one_backlog, DispatchOne(i)
        PROVE  ErrorInv'
    <3>1. one_backlog[i] \in OneTask
      BY DEF TypeOK
    <3>2. one_backlog[i].job \in Jobs
      BY <3>1 DEF OneTask
    <3>3. CASE one_backlog[i].job \in late
      BY <2>1, <3>2, <3>3, ErrorExpire DEF DispatchOne
    <3>4. CASE one_backlog[i].job \notin late
      BY <2>1, <3>4, ErrorStays DEF DispatchOne, AnsweredStays
    <3>5. QED
      BY <3>3, <3>4
  <2>2. CASE DispatchTwo \/ DispatchDone
    BY <2>2, ErrorStays DEF DispatchTwo, DispatchDone, GoTo, AnsweredStays
  <2>3. QED
    BY <1>3, <2>1, <2>2 DEF Dispatch
<1>4. CASE RecvJob \/ RecvClosed \/ Tick
  BY <1>4, ErrorStays DEF RecvJob, RecvClosed, Tick, GoTo, AnsweredStays
<1>5. CASE CollectAnswers
  <2>1. Head(inbox).task.job \in Jobs
    BY <1>5, ReceivedType DEF CollectAnswers, OneTask
  <2>2. QED
    BY <1>5, <2>1, ErrorSettle DEF CollectAnswers
<1>6. CASE CollectReasoned
  <2>1. Head(inbox).task.job \in Jobs
    BY <1>6, ReceivedType DEF CollectReasoned, TwoTask
  <2>2. QED
    BY <1>6, <2>1, ErrorSettle DEF CollectReasoned
<1>7. CASE AdvanceAsk
  BY <1>7, ErrorStays DEF AdvanceAsk, AnsweredStays
<1>8. CASE AdvanceDone
  <2>1. cur \in active /\ cur \in Jobs /\ cur \in runs
    BY <1>8 DEF AdvanceDone, FlightInv, TypeOK, EngineAgrees
  <2>2. QED
    BY <1>8, <2>1, ErrorLeft DEF AdvanceDone
<1>9. ASSUME NEW j \in Jobs, Host(j)
      PROVE  ErrorInv'
  <2>1. AnsweredStays
    BY <1>9 DEF AnsweredStays, TypeOK, Host, IngestCount, IngestRefuse,
                IngestSend, GiveUp
  <2>2. QED
    BY <1>9, <2>1, ErrorStays
       DEF Host, IngestCount, IngestRefuse, IngestSend, GiveUp
<1>10. CASE (\E j \in Jobs : Pass(j)) \/ Close \/ Workers
  BY <1>10, ErrorStays
     DEF AnsweredStays, Pass, Close, Workers, OneReturns, TwoReturns, WorkerDies
<1>11. CASE Stopped \/ UNCHANGED vars
  BY <1>11, ErrorStays DEF Stopped, vars, AnsweredStays
<1>12. QED
  BY <1>1, <1>2, <1>3, <1>4, <1>5, <1>6, <1>7, <1>8, <1>9, <1>10, <1>11
     DEF Next, Thread, Receive, Advance

-----------------------------------------------------------------------------
(* The scheduler implements Ingest.                                         *)

\* What the line of accepted signals does.
LEMMA LineSame ==
    ASSUME waiting' = waiting, JobsIn(inbox') = JobsIn(inbox)
    PROVE  Line' = Line
BY DEF Line

\* An event that is no job adds nothing to the line.
LEMMA LineSends ==
    ASSUME TypeOK, NEW e \in Event, e.type # "job", inbox' = Append(inbox, e)
    PROVE  JobsIn(inbox') = JobsIn(inbox)
BY JobsInAppend DEF TypeOK

\* A job sent joins the line at its end.
LEMMA LineSent ==
    ASSUME TypeOK, NEW j \in Jobs, inbox' = Append(inbox, JobEvent(j)),
           waiting' = waiting
    PROVE  Line' = Append(Line, j)
<1> DEFINE q == JobsIn(inbox)
<1>1. inbox \in Seq(Event) /\ waiting \in Seq(Jobs)
  BY DEF TypeOK
<1>2. JobEvent(j) \in Event /\ JobEvent(j).type = "job" /\ JobEvent(j).job = j
  BY DEF Event, JobEvent
<1>3. q \in Seq(Jobs)
  BY <1>1, JobsInType
<1>4. JobsIn(inbox') = Append(q, j)
  BY <1>1, <1>2, JobsInAppend
<1> HIDE DEF q
<1>5. waiting \o q \in Seq(Jobs) /\ <<j>> \in Seq(Jobs)
  BY <1>1, <1>3, ConcatProperties
<1>6. Append(waiting \o q, j) = (waiting \o q) \o <<j>> /\ Append(q, j) = q \o <<j>>
  BY <1>3, <1>5, AppendIsConcat
<1>7. (waiting \o q) \o <<j>> = waiting \o (q \o <<j>>)
  BY <1>1, <1>3, <1>5, ConcatAssociative
<1>8. Line = waiting \o q /\ Line' = waiting \o Append(q, j)
  BY <1>4 DEF Line, q
<1>9. QED
  BY <1>6, <1>7, <1>8

\* A signal that moves from the inbox to those waiting keeps its place.
LEMMA LineReceived ==
    ASSUME TypeOK, Received, Head(inbox).type = "job",
           waiting' = Append(waiting, Head(inbox).job)
    PROVE  Line' = Line
<1> DEFINE q == JobsIn(Tail(inbox))
           j == Head(inbox).job
<1>1. inbox \in Seq(Event) /\ waiting \in Seq(Jobs) /\ inbox # <<>>
      /\ inbox' = Tail(inbox)
  BY DEF TypeOK, Received
<1>2. Tail(inbox) \in Seq(Event) /\ JobsIn(inbox) = <<j>> \o q
  BY <1>1, JobsInTail
<1>3. q \in Seq(Jobs) /\ j \in Jobs
  BY <1>2, JobsInType, ReceivedType
<1> HIDE DEF q, j
<1>4. <<j>> \in Seq(Jobs)
  BY <1>3
<1>5. Append(waiting, j) = waiting \o <<j>>
  BY <1>1, <1>3, AppendIsConcat
<1>6. (waiting \o <<j>>) \o q = waiting \o (<<j>> \o q)
  BY <1>1, <1>3, <1>4, ConcatAssociative
<1>7. Line = waiting \o (<<j>> \o q) /\ Line' = Append(waiting, j) \o q
  BY <1>1, <1>2 DEF Line, q, j
<1>8. QED
  BY <1>5, <1>6, <1>7

\* What leaves those waiting leaves the line at the same place.
LEMMA LineTaken ==
    ASSUME TypeOK, NEW i \in DOMAIN waiting, waiting' = RemoveAt(waiting, i),
           inbox' = inbox
    PROVE  /\ i \in DOMAIN Line /\ \A e \in 1..i : Line[e] = waiting[e]
           /\ Line' = RemoveAt(Line, i)
<1> DEFINE q == JobsIn(inbox)
           w == waiting
           n == Len(waiting)
           r == RemoveAt(w, i)
           left == r \o q
           s == w \o q
           right == RemoveAt(s, i)
<1>1. w \in Seq(Jobs) /\ q \in Seq(Jobs) /\ n \in Nat /\ i \in 1..n /\ Len(q) \in Nat
  BY JobsInType DEF TypeOK
<1>2. /\ r \in Seq(Jobs) /\ Len(r) = n - 1
      /\ \A k \in 1..(n - 1) : r[k] = IF k < i THEN w[k] ELSE w[k + 1]
  BY <1>1, RemoveAtIs
<1>3. /\ s \in Seq(Jobs) /\ Len(s) = n + Len(q)
      /\ \A k \in 1..(n + Len(q)) : s[k] = IF k <= n THEN w[k] ELSE q[k - n]
  BY <1>1, ConcatProperties
<1>4. Line = s /\ Line' = left
  BY DEF Line
<1> HIDE DEF q, r, s, w
<1>5. /\ left \in Seq(Jobs) /\ Len(left) = Len(r) + Len(q)
      /\ \A k \in 1..(Len(r) + Len(q)) :
             left[k] = IF k <= Len(r) THEN r[k] ELSE q[k - Len(r)]
  BY <1>1, <1>2, ConcatProperties
<1> HIDE DEF n
<1>6. i \in DOMAIN s
  BY <1>1, <1>3
<1>7. /\ right \in Seq(Jobs) /\ Len(right) = n + Len(q) - 1
      /\ \A k \in 1..(n + Len(q) - 1) : right[k] = IF k < i THEN s[k] ELSE s[k + 1]
  <2>1. /\ right \in Seq(Jobs) /\ Len(right) = Len(s) - 1
        /\ \A k \in 1..(Len(s) - 1) : right[k] = IF k < i THEN s[k] ELSE s[k + 1]
    BY <1>3, <1>6, RemoveAtIs
  <2> HIDE DEF right
  <2>2. Len(s) - 1 = n + Len(q) - 1
    BY <1>1, <1>3
  <2>3. QED
    BY <2>1, <2>2
<1>8. Len(left) = n + Len(q) - 1
  BY <1>1, <1>2, <1>5
<1> HIDE DEF left, right
<1>9. ASSUME NEW k \in 1..(n + Len(q) - 1)
      PROVE  left[k] = right[k]
  <2>1. left[k] = IF k <= n - 1 THEN r[k] ELSE q[k - (n - 1)]
    BY <1>1, <1>2, <1>5
  <2>2. right[k] = IF k < i THEN s[k] ELSE s[k + 1]
    BY <1>7
  <2>3. k \in 1..(n + Len(q)) /\ k + 1 \in 1..(n + Len(q))
    BY <1>1
  <2>4. /\ s[k] = IF k <= n THEN w[k] ELSE q[k - n]
        /\ s[k + 1] = IF k + 1 <= n THEN w[k + 1] ELSE q[(k + 1) - n]
    BY <1>3, <2>3
  <2>5. CASE k <= n - 1
    <3>1. r[k] = IF k < i THEN w[k] ELSE w[k + 1]
      BY <1>1, <1>2, <2>5
    <3>2. k <= n /\ k + 1 <= n
      BY <1>1, <2>5
    <3>3. QED
      BY <2>1, <2>2, <2>4, <2>5, <3>1, <3>2
  <2>6. CASE ~(k <= n - 1)
    <3>1. ~(k < i) /\ ~(k + 1 <= n) /\ (k + 1) - n = k - (n - 1)
      BY <1>1, <2>6
    <3>2. QED
      BY <2>1, <2>2, <2>4, <2>6, <3>1
  <2>7. QED
    BY <2>5, <2>6
<1>10. left = right
  <2>1. Len(left) = Len(right)
    BY <1>7, <1>8
  <2>2. \A k \in 1..Len(left) : left[k] = right[k]
    BY <1>8, <1>9
  <2>3. QED
    BY <1>5, <1>7, <2>1, <2>2, SeqEqual
<1>11. \A e \in 1..i : s[e] = w[e]
  BY <1>1, <1>3
<1>12. QED
  BY <1>4, <1>6, <1>10, <1>11 DEF right, w

\* What a host's state is to Ingest.
LEMMA StatusIs ==
    ASSUME NEW j
    PROVE  /\ host[j] \in {"new", "counted", "refusing"} => Status(j) = "new"
           /\ host[j] = "asking" <=> Status(j) = "asking" /\ host[j] # "answered"
           /\ host[j] = "gone" => Status(j) = "gone"
           /\ host[j] = "refused" => Status(j) = "refused"
           /\ host[j] = "answered" => Status(j) = reply[j]
BY DEF Status

\* Hosts that know what they knew.
LEMMA StatusSame ==
    ASSUME \A k \in Jobs : Status(k)' = Status(k)
    PROVE  [k \in Jobs |-> Status(k)]' = [k \in Jobs |-> Status(k)]
OBVIOUS

\* One host that learns something.
LEMMA StatusBecomes ==
    ASSUME NEW j \in Jobs, NEW state,
           \A k \in Jobs : k # j => Status(k)' = Status(k),
           Status(j)' = state
    PROVE  Promise!Become(j, state)
BY DEF Promise!Become

\* A step that leaves what Ingest sees.
LEMMA Unseen ==
    ASSUME Line' = Line, active' = active, \A k \in Jobs : Status(k)' = Status(k)
    PROVE  UNCHANGED Promise!vars
BY StatusSame DEF Promise!vars

\* What `complete` replies is what Ingest's hosts see.
LEMMA CompleteReplies ==
    ASSUME TypeOK, NEW j \in Jobs, Asked(j), NEW result \in {"effects", "error"},
           NEW saved, NEW memory, Complete(j, result, saved, memory)
    PROVE  Promise!Reply(j, result)
<1>1. \A k \in Jobs : k # j => Status(k)' = Status(k)
  BY CompleteHost DEF Status
<1>2. CASE host[j] = "asking"
  <2>1. Status(j) = "asking" /\ Status(j)' = result
    BY <1>2, CompleteHost DEF Status
  <2>2. Promise!Become(j, result)
    BY <1>1, <2>1, StatusBecomes
  <2>3. QED
    BY <2>1, <2>2 DEF Promise!Reply
<1>3. CASE host[j] # "asking"
  <2>1. Status(j) = "gone" /\ Status(j)' = Status(j)
    BY <1>3, CompleteHost DEF Status, Asked
  <2>2. [k \in Jobs |-> Status(k)]' = [k \in Jobs |-> Status(k)]
    BY <1>1, <2>1, StatusSame
  <2>3. QED
    BY <2>1, <2>2 DEF Promise!Reply
<1>4. QED
  BY <1>2, <1>3

\* A signal in flight that settles with effects, or is abandoned, settles.
LEMMA SettleMaps ==
    ASSUME TypeOK, JobPlaces, NEW j \in Jobs, j \in active, Forget(j), Line' = Line,
           NEW saved, NEW memory, Complete(j, "effects", saved, memory)
    PROVE  Promise!Next
<1>1. Asked(j)
  BY DEF JobPlaces
<1>2. Promise!Reply(j, "effects")
  BY <1>1, CompleteReplies
<1>3. active' = active \ {j}
  BY DEF Forget
<1>4. Promise!Settle(j)
  BY <1>2, <1>3 DEF Promise!Settle
<1>5. QED
  BY <1>4 DEF Promise!Next

\* A deadline settles a judged signal, or does nothing Ingest sees.
LEMMA ExpireMaps ==
    ASSUME TypeOK, EngineAgrees, JobPlaces, NEW j \in Jobs, Expire(j), Line' = Line
    PROVE  [Promise!Next]_(Promise!vars)
<1>1. CASE j \in active
  <2>1. Complete(j, "effects", before[j], recorded) /\ Forget(j)
    BY <1>1 DEF Expire, EngineAgrees
  <2>2. QED
    BY <1>1, <2>1, SettleMaps
<1>2. CASE j \notin active
  <2>1. UNCHANGED <<host, reply, active>>
    BY <1>2 DEF Expire
  <2>2. QED
    BY <2>1, Unseen DEF Status
<1>3. QED
  BY <1>1, <1>2

\* A result settles its signal only when that is past its deadline.
LEMMA CollectMaps ==
    ASSUME TypeOK, EngineAgrees, JobPlaces, NEW t, t.job \in Jobs, Settle(t),
           Line' = Line
    PROVE  [Promise!Next]_(Promise!vars)
<1>1. CASE t.job \in active \cap late
  BY <1>1, ExpireMaps DEF Settle
<1>2. CASE t.job \notin active \cap late
  BY <1>2, Unseen DEF Settle, Status
<1>3. QED
  BY <1>1, <1>2

\* What hosts, time and workers do.
LEMMA OutsideMaps ==
    ASSUME TypeOK,
           \/ \E j \in Jobs : Host(j) \/ Pass(j)
           \/ Close \/ Workers
    PROVE  [Promise!Next]_(Promise!vars)
<1> USE DEF hostVars, loopVars, signalVars, engineVars, busyVars, outVars,
            backlogs
<1>1. ASSUME NEW j \in Jobs, IngestCount(j)
      PROVE  UNCHANGED Promise!vars
  <2>1. /\ UNCHANGED <<reply, waiting, inbox, active>> /\ host[j] = "new"
        /\ host'[j] \in {"refusing", "counted"}
        /\ \A k \in Jobs : k # j => host'[k] = host[k]
    BY <1>1 DEF IngestCount, TypeOK
  <2>2. \A k \in Jobs : Status(k)' = Status(k)
    BY <2>1 DEF Status
  <2>3. QED
    BY <2>1, <2>2, LineSame, Unseen
<1>2. ASSUME NEW j \in Jobs, IngestRefuse(j)
      PROVE  Promise!Next
  <2>1. /\ UNCHANGED <<reply, waiting, inbox, active>> /\ host[j] = "refusing"
        /\ host'[j] = "refused"
        /\ \A k \in Jobs : k # j => host'[k] = host[k]
    BY <1>2 DEF IngestRefuse, TypeOK
  <2>2. /\ \A k \in Jobs : k # j => Status(k)' = Status(k)
        /\ Status(j) = "new" /\ Status(j)' = "refused"
    BY <2>1 DEF Status
  <2>3. Promise!Become(j, "refused")
    BY <2>2, StatusBecomes
  <2>4. Line' = Line
    BY <2>1, LineSame
  <2>5. Promise!Refuse(j)
    BY <2>1, <2>2, <2>3, <2>4 DEF Promise!Refuse
  <2>6. QED
    BY <2>5 DEF Promise!Next
<1>3. ASSUME NEW j \in Jobs, IngestSend(j)
      PROVE  Promise!Next
  <2>1. /\ UNCHANGED <<reply, waiting, active>> /\ host[j] = "counted"
        /\ host'[j] = "asking" /\ inbox' = Append(inbox, JobEvent(j))
        /\ \A k \in Jobs : k # j => host'[k] = host[k]
    BY <1>3 DEF IngestSend, TypeOK
  <2>2. /\ \A k \in Jobs : k # j => Status(k)' = Status(k)
        /\ Status(j) = "new" /\ Status(j)' = "asking"
    BY <2>1 DEF Status
  <2>3. Promise!Become(j, "asking")
    BY <2>2, StatusBecomes
  <2>4. Line' = Append(Line, j)
    BY <2>1, LineSent
  <2>5. Promise!Accept(j)
    BY <2>1, <2>2, <2>3, <2>4 DEF Promise!Accept
  <2>6. QED
    BY <2>5 DEF Promise!Next
<1>4. ASSUME NEW j \in Jobs, GiveUp(j)
      PROVE  Promise!Next
  <2>1. /\ UNCHANGED <<reply, waiting, inbox, active>> /\ host[j] = "asking"
        /\ host'[j] = "gone"
        /\ \A k \in Jobs : k # j => host'[k] = host[k]
    BY <1>4 DEF GiveUp, TypeOK
  <2>2. /\ \A k \in Jobs : k # j => Status(k)' = Status(k)
        /\ Status(j) = "asking" /\ Status(j)' = "gone"
    BY <2>1 DEF Status
  <2>3. Promise!Become(j, "gone")
    BY <2>2, StatusBecomes
  <2>4. Line' = Line
    BY <2>1, LineSame
  <2>5. Promise!GiveUp(j)
    BY <2>1, <2>2, <2>3, <2>4 DEF Promise!GiveUp
  <2>6. QED
    BY <2>5 DEF Promise!Next
<1>5. ASSUME NEW j \in Jobs, Pass(j)
      PROVE  UNCHANGED Promise!vars
  BY <1>5, LineSame, Unseen DEF Pass, Status
<1>6. ASSUME NEW e \in Event, e.type # "job", inbox' = Append(inbox, e),
             UNCHANGED <<host, reply, waiting, active>>
      PROVE  UNCHANGED Promise!vars
  <2>1. Line' = Line
    BY <1>6, LineSends, LineSame
  <2>2. QED
    BY <1>6, <2>1, Unseen DEF Status
<1>7. CASE Close
  <2>1. ClosedEvent \in Event /\ ClosedEvent.type # "job"
    BY DEF Event, ClosedEvent
  <2>2. QED
    BY <1>6, <1>7, <2>1 DEF Close
<1>8. ASSUME NEW t \in one_out, OneReturns(t)
      PROVE  UNCHANGED Promise!vars
  <2>1. AnswerEvent(t) \in Event /\ AnswerEvent(t).type # "job"
    BY DEF Event, AnswerEvent, TypeOK
  <2>2. QED
    BY <1>6, <1>8, <2>1 DEF OneReturns
<1>9. ASSUME NEW t \in two_out, TwoReturns(t)
      PROVE  UNCHANGED Promise!vars
  <2>1. ReasonEvent(t) \in Event /\ ReasonEvent(t).type # "job"
    BY DEF Event, ReasonEvent, TypeOK
  <2>2. QED
    BY <1>6, <1>9, <2>1 DEF TwoReturns
<1>10. ASSUME NEW t, WorkerDies(t)
       PROVE  UNCHANGED Promise!vars
  BY <1>10, LineSame, Unseen DEF WorkerDies, Status
<1>11. QED
  BY <1>1, <1>2, <1>3, <1>4, <1>5, <1>7, <1>8, <1>9, <1>10 DEF Host, Workers

\* A signal that admit may start has its turn.
LEMMA AdmissibleTurn ==
    ASSUME TypeOK, FlightInv, NEW i \in DOMAIN waiting, Admissible(i),
           \A e \in 1..i : Line[e] = waiting[e]
    PROVE  Promise!Turn(i)
<1>1. i \in 1..i /\ \A e \in 1..(i - 1) : e \in 1..i
  BY SMTT(20) DEF TypeOK
<1>2. /\ \A k \in active : AgentOf[k] # AgentOf[waiting[i]]
      /\ \A e \in 1..(i - 1) : AgentOf[waiting[e]] # AgentOf[waiting[i]]
  BY DEF Admissible, IsNext, Eligible
<1>3. \A k \in active : KindOf[k] # "model_error"
  BY DEF Admissible, AloneInFlight, FlightInv, runs_alone
<1>4. KindOf[waiting[i]] = "model_error" => active = {}
  BY DEF Admissible, runs_alone
<1>5. QED
  BY <1>1, <1>2, <1>3, <1>4 DEF Promise!Turn

\* Ingest removes from sequences as the scheduler does.
LEMMA RemovesAlike ==
    ASSUME NEW s, NEW i
    PROVE  Promise!RemoveAt(s, i) = RemoveAt(s, i)
BY DEF Promise!RemoveAt, RemoveAt

\* Each step of the thread is one of Ingest's, or a stutter.
LEMMA ThreadMaps ==
    ASSUME TypeOK, EngineAgrees, JobPlaces, FlightInv, Thread
    PROVE  [Promise!Next]_(Promise!vars)
<1> USE DEF hostVars, loopVars, signalVars, engineVars, busyVars, outVars,
            backlogs
<1>1. ASSUME NEW i \in DOMAIN waiting
      PROVE  waiting[i] \in Jobs /\ Asked(waiting[i])
  <2>1. waiting[i] \in Jobs /\ waiting[i] \in Waiting
    BY DEF TypeOK, Waiting, Elems
  <2>2. QED
    BY <2>1 DEF JobPlaces
<1>2. ASSUME NEW i \in DOMAIN waiting, SweepWaiting(i)
      PROVE  Promise!Next
  <2>1. PICK j : j = waiting[i]
    OBVIOUS
  <2>2. /\ waiting' = RemoveAt(waiting, i) /\ inbox' = inbox /\ active' = active
        /\ Complete(j, "error", None, recorded) /\ j \in Jobs /\ Asked(j)
    BY <1>1, <1>2, <2>1 DEF SweepWaiting, Complete, Undo
  <2>3. Promise!Reply(j, "error")
    BY <2>2, CompleteReplies
  <2>4. /\ i \in DOMAIN Line /\ Line[i] = j /\ Line' = RemoveAt(Line, i)
    <3>1. i \in 1..i
      BY DEF TypeOK
    <3>2. QED
      BY <2>1, <2>2, <3>1, LineTaken
  <2>5. Promise!Drop(i)
    BY <2>2, <2>3, <2>4, RemovesAlike DEF Promise!Drop
  <2>6. QED
    BY <2>4, <2>5 DEF Promise!Next
<1>3. ASSUME NEW j \in Jobs, Abandon(j)
      PROVE  Promise!Next
  <2>1. /\ Complete(j, "effects", before[j], recorded) /\ j \in active /\ Forget(j)
        /\ Line' = Line
    BY <1>3, LineSame DEF Abandon, Complete
  <2>2. QED
    BY <2>1, SettleMaps
<1>4. ASSUME NEW j \in Jobs, SweepLate(j)
      PROVE  [Promise!Next]_(Promise!vars)
  BY <1>4, LineSame, ExpireMaps DEF SweepLate
<1>5. CASE SweepDone \/ AdmitDone \/ DispatchTwo \/ DispatchDone \/ Tick
  <2>1. UNCHANGED <<host, reply, waiting, inbox, active>>
    BY <1>5 DEF SweepDone, AdmitDone, DispatchTwo, DispatchDone, Tick, GoTo
  <2>2. QED
    BY <2>1, LineSame, Unseen DEF Status
<1>6. ASSUME NEW i \in DOMAIN waiting, BeginError(i) \/ BeginDone(i)
      PROVE  Promise!Next
  <2>1. PICK j : j = waiting[i]
    OBVIOUS
  <2>2. PICK result \in {"effects", "error"} :
            \E saved, memory : Complete(j, result, saved, memory)
    BY <1>6, <2>1 DEF BeginError, BeginDone
  <2>3. /\ waiting' = RemoveAt(waiting, i) /\ inbox' = inbox /\ active' = active
        /\ Admissible(i) /\ j \in Jobs /\ Asked(j)
    BY <1>1, <1>6, <2>1 DEF BeginError, BeginDone
  <2>4. Promise!Reply(j, result)
    BY <2>2, <2>3, CompleteReplies
  <2>5. /\ i \in DOMAIN Line /\ \A e \in 1..i : Line[e] = waiting[e]
        /\ Line[i] = j /\ Line' = RemoveAt(Line, i)
    <3>1. i \in 1..i
      BY DEF TypeOK
    <3>2. QED
      BY <2>1, <2>3, <3>1, LineTaken
  <2>6. Promise!Turn(i)
    BY <2>3, <2>5, AdmissibleTurn
  <2>7. Promise!SettleAtOnce(i)
    BY <2>3, <2>4, <2>5, <2>6, RemovesAlike DEF Promise!SettleAtOnce
  <2>8. QED
    BY <2>5, <2>7 DEF Promise!Next
<1>7. ASSUME NEW i \in DOMAIN waiting, BeginAsk(i)
      PROVE  Promise!Next
  <2>1. /\ waiting' = RemoveAt(waiting, i) /\ inbox' = inbox
        /\ active' = active \cup {waiting[i]} /\ UNCHANGED <<host, reply>>
        /\ Admissible(i)
    BY <1>7 DEF BeginAsk
  <2>2. /\ i \in DOMAIN Line /\ \A e \in 1..i : Line[e] = waiting[e]
        /\ Line[i] = waiting[i] /\ Line' = RemoveAt(Line, i)
    <3>1. i \in 1..i
      BY DEF TypeOK
    <3>2. QED
      BY <2>1, <3>1, LineTaken
  <2>3. Promise!Turn(i)
    BY <2>1, <2>2, AdmissibleTurn
  <2>4. [k \in Jobs |-> Status(k)]' = [k \in Jobs |-> Status(k)]
    BY <2>1, StatusSame DEF Status
  <2>5. Promise!Start(i)
    BY <2>1, <2>2, <2>3, <2>4, RemovesAlike DEF Promise!Start
  <2>6. QED
    BY <2>2, <2>5 DEF Promise!Next
<1>8. ASSUME NEW i \in DOMAIN one_backlog, DispatchOne(i)
      PROVE  [Promise!Next]_(Promise!vars)
  <2>1. one_backlog[i] \in OneTask
    BY DEF TypeOK
  <2>2. one_backlog[i].job \in Jobs /\ Line' = Line
    BY <1>8, <2>1, LineSame DEF OneTask, DispatchOne
  <2>3. CASE one_backlog[i].job \in late
    BY <1>8, <2>2, <2>3, ExpireMaps DEF DispatchOne
  <2>4. CASE one_backlog[i].job \notin late
    BY <1>8, <2>2, <2>4, Unseen DEF DispatchOne, Status
  <2>5. QED
    BY <2>3, <2>4
<1>9. CASE RecvJob
  <2>1. Line' = Line
    BY <1>9, LineReceived DEF RecvJob
  <2>2. QED
    BY <1>9, <2>1, Unseen DEF RecvJob, Status
<1>10. ASSUME Received, Head(inbox).type # "job", waiting' = waiting
       PROVE  Line' = Line
  <2>1. inbox \in Seq(Event)
    BY DEF TypeOK
  <2>2. QED
    BY <1>10, <2>1, JobsInTail, LineSame DEF Received
<1>11. CASE RecvClosed
  BY <1>10, <1>11, Unseen DEF RecvClosed, Status
<1>12. CASE CollectAnswers
  <2>1. Head(inbox).task.job \in Jobs
    BY <1>12, ReceivedType DEF CollectAnswers, OneTask
  <2>2. QED
    BY <1>10, <1>12, <2>1, CollectMaps DEF CollectAnswers
<1>13. CASE CollectReasoned
  <2>1. Head(inbox).task.job \in Jobs
    BY <1>13, ReceivedType DEF CollectReasoned, TwoTask
  <2>2. QED
    BY <1>10, <1>13, <2>1, CollectMaps DEF CollectReasoned
<1>14. CASE AdvanceAsk
  BY <1>14, LineSame, Unseen DEF AdvanceAsk, Status
<1>15. CASE AdvanceDone
  <2>1. /\ cur \in active /\ cur \in Jobs /\ cur \in runs /\ Forget(cur)
        /\ Complete(cur, "effects", before[cur], recorded) /\ Line' = Line
    BY <1>15, LineSame DEF AdvanceDone, FlightInv, TypeOK, EngineAgrees
  <2>2. QED
    BY <2>1, SettleMaps
<1>16. QED
  BY <1>2, <1>3, <1>4, <1>5, <1>6, <1>7, <1>8, <1>9, <1>11, <1>12, <1>13,
     <1>14, <1>15 DEF Thread, Sweep, Admit, Dispatch, Receive, Advance

\* Each step of the scheduler is one of Ingest's, or a stutter.
LEMMA StepMaps ==
    ASSUME TypeOK, EngineAgrees, JobPlaces, FlightInv, [Next]_vars
    PROVE  [Promise!Next]_(Promise!vars)
<1>1. CASE Thread
  BY <1>1, ThreadMaps
<1>2. CASE (\E j \in Jobs : Host(j) \/ Pass(j)) \/ Close \/ Workers
  BY <1>2, OutsideMaps
<1>3. CASE Stopped \/ UNCHANGED vars
  <2>1. UNCHANGED <<host, reply, waiting, inbox, active>>
    BY <1>3 DEF Stopped, vars, hostVars, signalVars
  <2>2. QED
    BY <2>1, LineSame, Unseen DEF Status
<1>4. QED
  BY <1>1, <1>2, <1>3 DEF Next

\* The scheduler starts where Ingest starts.
LEMMA InitMaps ==
    ASSUME Init
    PROVE  Promise!Init
<1>1. [j \in Jobs |-> Status(j)] = [j \in Jobs |-> "new"]
  BY DEF Init, Status
<1>2. Line = <<>>
  BY JobsInEmpty DEF Init, Line
<1>3. QED
  BY <1>1, <1>2 DEF Init, Promise!Init

-----------------------------------------------------------------------------
(* Where calls are.                                                         *)

\* Two sequences with nothing in common, one after the other.
LEMMA ConcatElems ==
    ASSUME NEW S, NEW s \in Seq(S), NEW q \in Seq(S), OneToOne(s), OneToOne(q),
           Elems(s) \cap Elems(q) = {}
    PROVE  OneToOne(s \o q) /\ Elems(s \o q) = Elems(s) \cup Elems(q)
<1> DEFINE r == s \o q
           n == Len(s)
           m == Len(q)
<1>1. /\ r \in Seq(S) /\ Len(r) = n + m
      /\ \A k \in 1..(n + m) : r[k] = IF k <= n THEN s[k] ELSE q[k - n]
  BY ConcatProperties
<1>2. n \in Nat /\ m \in Nat /\ DOMAIN s = 1..n /\ DOMAIN q = 1..m
  OBVIOUS
<1> HIDE DEF r, n, m
<1>3. DOMAIN r = 1..(n + m)
  BY <1>1, <1>2
<1>4. \A k \in DOMAIN r : IF k <= n THEN k \in DOMAIN s /\ r[k] = s[k]
                          ELSE k - n \in DOMAIN q /\ r[k] = q[k - n]
  BY <1>1, <1>2, <1>3
<1>5. \A k \in DOMAIN s, l \in DOMAIN q : s[k] # q[l]
  BY DEF Elems
<1>6. OneToOne(r)
  <2> SUFFICES ASSUME NEW k \in DOMAIN r, NEW l \in DOMAIN r, r[k] = r[l] PROVE k = l
    BY DEF OneToOne
  <2>1. CASE k <= n /\ l <= n
    BY <1>4, <2>1 DEF OneToOne
  <2>2. CASE ~(k <= n) /\ ~(l <= n)
    <3>1. k - n = l - n
      BY <1>4, <2>2 DEF OneToOne
    <3>2. QED
      BY <1>2, <1>3, <3>1
  <2>3. QED
    BY <1>4, <1>5, <2>1, <2>2
<1>7. Elems(r) \subseteq Elems(s) \cup Elems(q)
  BY <1>4 DEF Elems
<1>8. ASSUME NEW k \in DOMAIN s PROVE s[k] \in Elems(r)
  <2>1. k \in DOMAIN r /\ k <= n
    BY <1>2, <1>3
  <2>2. QED
    BY <1>4, <2>1 DEF Elems
<1>9. ASSUME NEW k \in DOMAIN q PROVE q[k] \in Elems(r)
  <2>1. k + n \in DOMAIN r /\ ~(k + n <= n) /\ (k + n) - n = k
    BY <1>2, <1>3
  <2>2. r[k + n] = q[k]
    BY <1>4, <2>1
  <2>3. QED
    BY <2>1, <2>2 DEF Elems
<1>10. Elems(s) \cup Elems(q) \subseteq Elems(r)
  BY <1>8, <1>9 DEF Elems
<1>11. QED
  BY <1>6, <1>7, <1>10 DEF r

\* Calls queued, and calls whose result is in the inbox.
OneQueue == Elems(one_backlog)
TwoQueue == Elems(two_backlog)
OneBack == {t \in OneTask : AnswerEvent(t) \in Elems(inbox)}
TwoBack == {t \in TwoTask : ReasonEvent(t) \in Elems(inbox)}
\* The calls there are.
OneTasks == OneQueue \cup one_out \cup OneBack
TwoTasks == TwoQueue \cup two_out \cup TwoBack

\* A call is of a signal that was begun, and of no later round than it is in.
Known(t) ==
    Begun(t.job) /\ (t.job \in active => t.round <= round[t.job])

\* A call is in one place: queued, with a worker or back in the inbox.
OnePlaces ==
    /\ OneToOne(one_backlog)
    /\ OneQueue \cap one_out = {} /\ OneQueue \cap OneBack = {}
    /\ one_out \cap OneBack = {}
    /\ \A t \in OneTasks : Known(t)
\* The same of System Two's calls.
TwoPlaces ==
    /\ OneToOne(two_backlog)
    /\ TwoQueue \cap two_out = {} /\ TwoQueue \cap TwoBack = {}
    /\ two_out \cap TwoBack = {}
    /\ \A t \in TwoTasks : Known(t)

\* All calls and events are in one place.
TaskPlaces == InboxOnce /\ OnePlaces /\ TwoPlaces

\* They are calls of the scheduler's types.
LEMMA TasksType ==
    ASSUME TypeOK
    PROVE  OneTasks \subseteq OneTask /\ TwoTasks \subseteq TwoTask
<1>1. one_backlog \in Seq(OneTask) /\ two_backlog \in Seq(TwoTask)
  BY DEF TypeOK
<1>2. OneQueue \subseteq OneTask /\ TwoQueue \subseteq TwoTask
  BY <1>1 DEF OneQueue, TwoQueue, Elems
<1>3. QED
  BY <1>2 DEF OneTasks, TwoTasks, OneBack, TwoBack, TypeOK

\* What is known of a call stays so.
LEMMA KnownStays ==
    ASSUME TypeOK, TypeOK', BegunStays, NEW t, Known(t),
           t.job \in Jobs, t.round \in Int
    PROVE  Known(t)'
<1>1. Begun(t.job)' /\ (t.job \in active' => t.job \in active
                                             /\ round[t.job] <= round'[t.job])
  BY DEF Known, BegunStays
<1>2. round[t.job] \in Int /\ round'[t.job] \in Int
  BY ConstantsAssumption DEF TypeOK
<1>3. QED
  BY <1>1, <1>2 DEF Known

\* That holds for every call there is.
LEMMA TasksKnown ==
    ASSUME TypeOK, TypeOK', BegunStays, TaskPlaces
    PROVE  \A t \in OneTasks \cup TwoTasks : Known(t)'
<1>1. SUFFICES ASSUME NEW t \in OneTasks \cup TwoTasks PROVE Known(t)'
  OBVIOUS
<1>2. t.job \in Jobs /\ t.round \in Int
  BY TasksType, ConstantsAssumption DEF OneTask, TwoTask
<1>3. Known(t)
  BY DEF TaskPlaces, OnePlaces, TwoPlaces
<1>4. QED
  BY <1>2, <1>3, KnownStays

\* Events sent.
LEMMA Sends ==
    ASSUME TypeOK, InboxOnce, NEW e \in Event, e \notin Elems(inbox),
           inbox' = Append(inbox, e)
    PROVE  OneToOne(inbox') /\ Elems(inbox') = Elems(inbox) \cup {e}
<1>1. inbox \in Seq(Event) /\ OneToOne(inbox)
  BY DEF TypeOK, InboxOnce
<1>2. QED
  BY <1>1, AppendElems

\* Without an event the results in the inbox stay.
LEMMA BackSame ==
    ASSUME inbox' = inbox
    PROVE  OneBack' = OneBack /\ TwoBack' = TwoBack
BY DEF OneBack, TwoBack

\* Only a result sent adds to the results in the inbox.
LEMMA BackSends ==
    ASSUME TypeOK, InboxOnce, NEW e \in Event, e \notin Elems(inbox),
           inbox' = Append(inbox, e)
    PROVE  /\ e.type # "answers" => OneBack' = OneBack
           /\ e.type # "reasoned" => TwoBack' = TwoBack
           /\ \A t \in OneTask : e = AnswerEvent(t) => OneBack' = OneBack \cup {t}
           /\ \A t \in TwoTask : e = ReasonEvent(t) => TwoBack' = TwoBack \cup {t}
<1>1. Elems(inbox') = Elems(inbox) \cup {e}
  BY Sends
<1>2. /\ \A t \in OneTask : AnswerEvent(t) \in Elems(inbox') <=>
             AnswerEvent(t) \in Elems(inbox) \/ AnswerEvent(t) = e
      /\ \A t \in TwoTask : ReasonEvent(t) \in Elems(inbox') <=>
             ReasonEvent(t) \in Elems(inbox) \/ ReasonEvent(t) = e
  BY <1>1
<1>3. e.type # "answers" => OneBack' = OneBack
  BY <1>2 DEF OneBack, AnswerEvent
<1>4. e.type # "reasoned" => TwoBack' = TwoBack
  BY <1>2 DEF TwoBack, ReasonEvent
<1>5. ASSUME NEW t \in OneTask, e = AnswerEvent(t)
      PROVE  OneBack' = OneBack \cup {t}
  <2>1. \A u \in OneTask : AnswerEvent(u) = e <=> u = t
    BY <1>5 DEF AnswerEvent
  <2>2. QED
    BY <1>2, <2>1 DEF OneBack
<1>6. ASSUME NEW t \in TwoTask, e = ReasonEvent(t)
      PROVE  TwoBack' = TwoBack \cup {t}
  <2>1. \A u \in TwoTask : ReasonEvent(u) = e <=> u = t
    BY <1>6 DEF ReasonEvent
  <2>2. QED
    BY <1>2, <2>1 DEF TwoBack
<1>7. QED
  BY <1>3, <1>4, <1>5, <1>6

\* Results received.
LEMMA BackReceives ==
    ASSUME TypeOK, InboxOnce, Received
    PROVE  /\ OneBack' \subseteq OneBack /\ TwoBack' \subseteq TwoBack
           /\ IF Head(inbox).type = "answers"
              THEN /\ Head(inbox).task \in OneBack
                   /\ OneBack' = OneBack \ {Head(inbox).task}
              ELSE OneBack' = OneBack
           /\ IF Head(inbox).type = "reasoned"
              THEN /\ Head(inbox).task \in TwoBack
                   /\ TwoBack' = TwoBack \ {Head(inbox).task}
              ELSE TwoBack' = TwoBack
<1>1. PICK e : e = Head(inbox)
  OBVIOUS
<1>2. Elems(inbox') = Elems(inbox) \ {e} /\ e \in Elems(inbox) /\ e \in Event
  BY <1>1, Receives
<1>3. /\ \A t \in OneTask : AnswerEvent(t) \in Elems(inbox') <=>
             AnswerEvent(t) \in Elems(inbox) /\ AnswerEvent(t) # e
      /\ \A t \in TwoTask : ReasonEvent(t) \in Elems(inbox') <=>
             ReasonEvent(t) \in Elems(inbox) /\ ReasonEvent(t) # e
  BY <1>2
<1>4. CASE e.type = "answers"
  <2>1. PICK t \in OneTask : e = AnswerEvent(t)
    BY <1>2, <1>4 DEF Event, AnswerEvent, ClosedEvent
  <2>2. e.task = t /\ (\A u \in OneTask : AnswerEvent(u) = e <=> u = t)
        /\ \A u \in TwoTask : ReasonEvent(u) # e
    BY <2>1 DEF AnswerEvent, ReasonEvent
  <2>3. OneBack' = OneBack \ {t} /\ t \in OneBack /\ TwoBack' = TwoBack
    BY <1>2, <1>3, <2>1, <2>2 DEF OneBack, TwoBack
  <2>4. QED
    BY <1>1, <1>4, <2>2, <2>3
<1>5. CASE e.type = "reasoned"
  <2>1. PICK t \in TwoTask : e = ReasonEvent(t)
    BY <1>2, <1>5 DEF Event, ReasonEvent, ClosedEvent
  <2>2. e.task = t /\ (\A u \in TwoTask : ReasonEvent(u) = e <=> u = t)
        /\ \A u \in OneTask : AnswerEvent(u) # e
    BY <2>1 DEF AnswerEvent, ReasonEvent
  <2>3. TwoBack' = TwoBack \ {t} /\ t \in TwoBack /\ OneBack' = OneBack
    BY <1>2, <1>3, <2>1, <2>2 DEF OneBack, TwoBack
  <2>4. QED
    BY <1>1, <1>5, <2>2, <2>3
<1>6. CASE e.type \notin {"answers", "reasoned"}
  <2>1. OneBack' = OneBack /\ TwoBack' = TwoBack
    BY <1>3, <1>6 DEF OneBack, TwoBack, AnswerEvent, ReasonEvent
  <2>2. QED
    BY <1>1, <1>6, <2>1
<1>7. QED
  BY <1>4, <1>5, <1>6

\* The calls `ask` queues for round r of signal j.
Reasonings(a) == IF TwoWorkers = 0 THEN 0 ELSE a.reasonings
\* The System One call and the System Two calls of that round.
NewOne(j, r, a) == IF a.questions THEN {[job |-> j, round |-> r]} ELSE {}
NewTwo(j, r, a) ==
    {[job |-> j, round |-> r, id |-> i] : i \in 1..Reasonings(a)}

\* `ask` queues exactly these.
LEMMA AskQueues ==
    ASSUME TypeOK, NEW j \in Jobs, NEW r \in 1..MaxRounds, NEW a \in Asks,
           NEW from, Ask(j, r, a, from),
           OneToOne(one_backlog), OneToOne(two_backlog),
           OneQueue \cap NewOne(j, r, a) = {}, TwoQueue \cap NewTwo(j, r, a) = {}
    PROVE  /\ OneToOne(one_backlog') /\ OneQueue' = OneQueue \cup NewOne(j, r, a)
           /\ OneToOne(two_backlog') /\ TwoQueue' = TwoQueue \cup NewTwo(j, r, a)
           /\ awaiting' = [awaiting EXCEPT ![j] = Counted(a.questions, Reasonings(a))]
           /\ round' = [round EXCEPT ![j] = r]
           /\ Reasonings(a) \in Nat /\ a.questions \in BOOLEAN
<1> DEFINE two == Reasonings(a)
           asked == [i \in 1..two |-> [job |-> j, round |-> r, id |-> i]]
<1>1. /\ a.questions \in BOOLEAN /\ a.reasonings \in 0..MaxReasonings
      /\ two \in 0..MaxReasonings /\ MaxReasonings \in Nat /\ two \in Nat
  BY ConstantsAssumption DEF Asks, Reasonings
<1>2. /\ round' = [round EXCEPT ![j] = r]
      /\ awaiting' = [awaiting EXCEPT ![j] = Counted(a.questions, two)]
      /\ two_backlog' = two_backlog \o asked
  BY DEF Ask, Reasonings
<1>3. OneToOne(one_backlog') /\ OneQueue' = OneQueue \cup NewOne(j, r, a)
  <2>1. PICK task : task = [job |-> j, round |-> r]
    OBVIOUS
  <2>2. task \in OneTask /\ one_backlog \in Seq(OneTask)
    BY <2>1 DEF OneTask, TypeOK
  <2>3. CASE a.questions
    <3>1. PICK p \in 1..(Len(one_backlog) + 1) :
                  one_backlog' = InsertAt(one_backlog, p, task)
      BY <2>1, <2>3 DEF Ask
    <3>2. NewOne(j, r, a) = {task} /\ task \notin Elems(one_backlog)
      BY <2>1, <2>3 DEF NewOne, OneQueue
    <3>3. /\ OneToOne(InsertAt(one_backlog, p, task))
          /\ Elems(InsertAt(one_backlog, p, task)) = Elems(one_backlog) \cup {task}
      BY <2>2, <3>2, InsertAtElems
    <3>4. QED
      BY <3>1, <3>2, <3>3 DEF OneQueue
  <2>4. CASE ~a.questions
    <3>1. one_backlog' = one_backlog /\ NewOne(j, r, a) = {}
      BY <2>4 DEF Ask, NewOne
    <3>2. QED
      BY <3>1 DEF OneQueue
  <2>5. QED
    BY <2>3, <2>4
<1>4. /\ asked \in Seq(TwoTask) /\ OneToOne(asked)
      /\ Elems(asked) = NewTwo(j, r, a)
  <2>1. \A i \in 1..two : [job |-> j, round |-> r, id |-> i] \in TwoTask
    BY <1>1 DEF TwoTask
  <2>2. asked \in Seq(TwoTask)
    BY <1>1, <2>1
  <2>3. DOMAIN asked = 1..two /\ \A i \in 1..two : asked[i].id = i
    OBVIOUS
  <2>4. OneToOne(asked)
    BY <2>3 DEF OneToOne
  <2>5. Elems(asked) = NewTwo(j, r, a)
    BY <2>3 DEF Elems, NewTwo
  <2>6. QED
    BY <2>2, <2>4, <2>5
<1> HIDE DEF asked
<1>5. OneToOne(two_backlog') /\ TwoQueue' = TwoQueue \cup NewTwo(j, r, a)
  <2>1. two_backlog \in Seq(TwoTask) /\ Elems(two_backlog) \cap Elems(asked) = {}
    BY <1>4 DEF TypeOK, TwoQueue
  <2>2. /\ OneToOne(two_backlog \o asked)
        /\ Elems(two_backlog \o asked) = Elems(two_backlog) \cup Elems(asked)
    BY <1>4, <2>1, ConcatElems
  <2>3. QED
    BY <1>2, <1>4, <2>2 DEF TwoQueue
<1>6. QED
  BY <1>1, <1>2, <1>3, <1>5

\* A round that starts asks calls nobody asked before.
LEMMA AskFresh ==
    ASSUME TypeOK, TaskPlaces, NEW j \in Jobs, NEW r \in 1..MaxRounds, NEW a \in Asks,
           \/ j \in Waiting
           \/ j \in active /\ r = round[j] + 1
    PROVE  /\ \A t \in OneTasks \cup TwoTasks : ~(t.job = j /\ t.round = r)
           /\ OneTasks \cap NewOne(j, r, a) = {} /\ TwoTasks \cap NewTwo(j, r, a) = {}
<1>1. ASSUME NEW t \in OneTasks \cup TwoTasks
      PROVE  ~(t.job = j /\ t.round = r)
  <2>1. Known(t) /\ t.round \in Int
    BY TasksType, ConstantsAssumption
       DEF TaskPlaces, OnePlaces, TwoPlaces, OneTask, TwoTask
  <2>2. round[j] \in Int
    BY ConstantsAssumption DEF TypeOK
  <2>3. QED
    BY <2>1, <2>2 DEF Known, Begun
<1>2. /\ \A t \in NewOne(j, r, a) : t.job = j /\ t.round = r
      /\ \A t \in NewTwo(j, r, a) : t.job = j /\ t.round = r
  BY DEF NewOne, NewTwo
<1>3. QED
  BY <1>1, <1>2

\* After `ask` each call is still in one place.
LEMMA AskTasks ==
    ASSUME TypeOK, TypeOK', TaskPlaces, BegunStays,
           NEW j \in Jobs, NEW r \in 1..MaxRounds, NEW a \in Asks,
           NEW from, Ask(j, r, a, from),
           \/ j \in Waiting
           \/ j \in active /\ r = round[j] + 1,
           Begun(j)', UNCHANGED <<inbox, closed, one_out, two_out>>
    PROVE  TaskPlaces'
<1>1. /\ OneTasks \cap NewOne(j, r, a) = {} /\ TwoTasks \cap NewTwo(j, r, a) = {}
  BY AskFresh
<1>2. OneQueue \cap NewOne(j, r, a) = {} /\ TwoQueue \cap NewTwo(j, r, a) = {}
  BY <1>1 DEF OneTasks, TwoTasks
<1>3. /\ OneToOne(one_backlog') /\ OneQueue' = OneQueue \cup NewOne(j, r, a)
      /\ OneToOne(two_backlog') /\ TwoQueue' = TwoQueue \cup NewTwo(j, r, a)
      /\ round' = [round EXCEPT ![j] = r]
  BY <1>2, AskQueues DEF TaskPlaces, OnePlaces, TwoPlaces
<1>4. OneBack' = OneBack /\ TwoBack' = TwoBack
  BY BackSame
<1>5. round'[j] = r
  BY <1>3 DEF TypeOK
<1>6. \A t \in NewOne(j, r, a) \cup NewTwo(j, r, a) : Known(t)'
  <2>1. \A t \in NewOne(j, r, a) \cup NewTwo(j, r, a) : t.job = j /\ t.round = r
    BY DEF NewOne, NewTwo
  <2>2. r <= r
    OBVIOUS
  <2>3. QED
    BY <1>5, <2>1, <2>2 DEF Known
<1>7. \A t \in OneTasks \cup TwoTasks : Known(t)'
  BY TasksKnown
<1>8. InboxOnce'
  BY DEF TaskPlaces, InboxOnce
<1>9. OnePlaces'
  BY <1>1, <1>3, <1>4, <1>6, <1>7 DEF OnePlaces, TaskPlaces, OneTasks
<1>10. TwoPlaces'
  BY <1>1, <1>3, <1>4, <1>6, <1>7 DEF TwoPlaces, TaskPlaces, TwoTasks
<1>11. QED
  BY <1>8, <1>9, <1>10 DEF TaskPlaces

\* A side whose calls only disappear.
LEMMA OneShrinks ==
    ASSUME TypeOK, TypeOK', TaskPlaces, BegunStays, one_backlog' = one_backlog,
           one_out' \subseteq one_out, OneBack' \subseteq OneBack
    PROVE  OnePlaces'
<1>1. \A t \in OneTasks : Known(t)'
  BY TasksKnown
<1>2. OneQueue' = OneQueue /\ (OneToOne(one_backlog') <=> OneToOne(one_backlog))
  BY DEF OneQueue
<1>3. QED
  BY <1>1, <1>2 DEF TaskPlaces, OnePlaces, OneTasks

\* The same of System Two's.
LEMMA TwoShrinks ==
    ASSUME TypeOK, TypeOK', TaskPlaces, BegunStays, two_backlog' = two_backlog,
           two_out' \subseteq two_out, TwoBack' \subseteq TwoBack
    PROVE  TwoPlaces'
<1>1. \A t \in TwoTasks : Known(t)'
  BY TasksKnown
<1>2. TwoQueue' = TwoQueue /\ (OneToOne(two_backlog') <=> OneToOne(two_backlog))
  BY DEF TwoQueue
<1>3. QED
  BY <1>1, <1>2 DEF TaskPlaces, TwoPlaces, TwoTasks

\* A step that touches no call.
LEMMA TasksSame ==
    ASSUME TypeOK, TypeOK', TaskPlaces, BegunStays,
           UNCHANGED <<inbox, closed, one_backlog, two_backlog, one_out, two_out>>
    PROVE  TaskPlaces'
<1>1. OneBack' = OneBack /\ TwoBack' = TwoBack
  BY BackSame
<1>2. InboxOnce'
  BY DEF TaskPlaces, InboxOnce
<1>3. QED
  BY <1>1, <1>2, OneShrinks, TwoShrinks DEF TaskPlaces

\* A call taken off the System One backlog, by a worker or for good.
LEMMA OneTaken ==
    ASSUME TypeOK, TaskPlaces, NEW i \in DOMAIN one_backlog,
           one_backlog' = RemoveAt(one_backlog, i)
    PROVE  /\ one_backlog[i] \in OneQueue /\ one_backlog[i] \in OneTask
           /\ OneToOne(one_backlog') /\ OneQueue' = OneQueue \ {one_backlog[i]}
<1>1. one_backlog \in Seq(OneTask) /\ OneToOne(one_backlog)
  BY DEF TypeOK, TaskPlaces, OnePlaces
<1>2. one_backlog[i] \in Elems(one_backlog) /\ one_backlog[i] \in OneTask
  BY <1>1 DEF Elems
<1>3. QED
  BY <1>1, <1>2, RemoveAtElems DEF OneQueue

\* A call taken off the System Two backlog.
LEMMA TwoTaken ==
    ASSUME TypeOK, TaskPlaces, two_backlog # <<>>, two_backlog' = Tail(two_backlog)
    PROVE  /\ Head(two_backlog) \in TwoQueue /\ Head(two_backlog) \in TwoTask
           /\ OneToOne(two_backlog') /\ TwoQueue' = TwoQueue \ {Head(two_backlog)}
<1>1. two_backlog \in Seq(TwoTask) /\ OneToOne(two_backlog)
  BY DEF TypeOK, TaskPlaces, TwoPlaces
<1>2. Head(two_backlog) \in TwoTask
  BY <1>1
<1>3. QED
  BY <1>1, <1>2, TailElems DEF TwoQueue

\* After each step a call is in one place.
LEMMA TasksStep ==
    ASSUME TypeOK, TypeOK', JobPlaces, FlightInv, TaskPlaces, BegunStays,
           [Next]_vars
    PROVE  TaskPlaces'
<1> USE DEF hostVars, loopVars, signalVars, engineVars, busyVars, outVars,
            backlogs
<1>0. InboxOnce /\ OnePlaces /\ TwoPlaces
  BY DEF TaskPlaces
<1>1. ASSUME NEW j \in Jobs, IngestSend(j)
      PROVE  TaskPlaces'
  <2>1. host[j] = "counted" /\ inbox' = Append(inbox, JobEvent(j))
    BY <1>1 DEF IngestSend
  <2>2. JobEvent(j) \in Event /\ JobEvent(j).type = "job"
    BY DEF JobEvent, Event
  <2>3. JobEvent(j) \notin Elems(inbox)
    BY <2>1 DEF JobPlaces, Asked, Sent
  <2>4. OneToOne(inbox') /\ Elems(inbox') = Elems(inbox) \cup {JobEvent(j)}
    BY <1>0, <2>1, <2>2, <2>3, Sends
  <2>5. OneBack' = OneBack /\ TwoBack' = TwoBack
    BY <1>0, <2>1, <2>2, <2>3, BackSends
  <2>6. ClosedEvent # JobEvent(j)
    BY DEF ClosedEvent, JobEvent
  <2>7. InboxOnce'
    BY <1>0, <1>1, <2>4, <2>6 DEF InboxOnce, IngestSend
  <2>8. QED
    BY <1>1, <2>5, <2>7, OneShrinks, TwoShrinks DEF TaskPlaces, IngestSend
<1>2. CASE Close
  <2>1. inbox' = Append(inbox, ClosedEvent) /\ ~closed /\ closed'
    BY <1>2 DEF Close
  <2>2. ClosedEvent \in Event /\ ClosedEvent.type = "closed"
    BY DEF ClosedEvent, Event
  <2>3. ClosedEvent \notin Elems(inbox)
    BY <1>0, <2>1 DEF InboxOnce
  <2>4. OneToOne(inbox')
    BY <1>0, <2>1, <2>2, <2>3, Sends
  <2>5. OneBack' = OneBack /\ TwoBack' = TwoBack
    BY <1>0, <2>1, <2>2, <2>3, BackSends
  <2>6. InboxOnce'
    BY <2>1, <2>4 DEF InboxOnce
  <2>7. QED
    BY <1>2, <2>5, <2>6, OneShrinks, TwoShrinks DEF TaskPlaces, Close
<1>3. ASSUME NEW t \in one_out, OneReturns(t)
      PROVE  TaskPlaces'
  <2>1. /\ one_out' = one_out \ {t} /\ inbox' = Append(inbox, AnswerEvent(t))
        /\ UNCHANGED <<closed, one_backlog, two_backlog, two_out>>
    BY <1>3 DEF OneReturns
  <2>2. t \in OneTask /\ AnswerEvent(t) \in Event /\ AnswerEvent(t).type = "answers"
    BY DEF AnswerEvent, Event, TypeOK
  <2>3. AnswerEvent(t) \notin Elems(inbox)
    BY <1>0, <2>2 DEF OnePlaces, OneBack
  <2>4. OneToOne(inbox') /\ Elems(inbox') = Elems(inbox) \cup {AnswerEvent(t)}
    BY <1>0, <2>1, <2>2, <2>3, Sends
  <2>5. OneBack' = OneBack \cup {t} /\ TwoBack' = TwoBack
    BY <1>0, <2>1, <2>2, <2>3, BackSends
  <2>6. ClosedEvent # AnswerEvent(t)
    BY DEF ClosedEvent, AnswerEvent
  <2>7. InboxOnce'
    BY <1>0, <2>1, <2>4, <2>6 DEF InboxOnce
  <2>8. OneQueue' = OneQueue /\ (OneToOne(one_backlog') <=> OneToOne(one_backlog))
    BY <2>1 DEF OneQueue
  <2>9. \A u \in OneTasks : Known(u)'
    BY TasksKnown
  <2>10. OnePlaces'
    BY <1>0, <2>1, <2>5, <2>8, <2>9 DEF OnePlaces, OneTasks
  <2>11. TwoPlaces'
    BY <2>1, <2>5, TwoShrinks
  <2>12. QED
    BY <2>7, <2>10, <2>11 DEF TaskPlaces
<1>4. ASSUME NEW t \in two_out, TwoReturns(t)
      PROVE  TaskPlaces'
  <2>1. /\ two_out' = two_out \ {t} /\ inbox' = Append(inbox, ReasonEvent(t))
        /\ UNCHANGED <<closed, one_backlog, two_backlog, one_out>>
    BY <1>4 DEF TwoReturns
  <2>2. t \in TwoTask /\ ReasonEvent(t) \in Event /\ ReasonEvent(t).type = "reasoned"
    BY DEF ReasonEvent, Event, TypeOK
  <2>3. ReasonEvent(t) \notin Elems(inbox)
    BY <1>0, <2>2 DEF TwoPlaces, TwoBack
  <2>4. OneToOne(inbox') /\ Elems(inbox') = Elems(inbox) \cup {ReasonEvent(t)}
    BY <1>0, <2>1, <2>2, <2>3, Sends
  <2>5. TwoBack' = TwoBack \cup {t} /\ OneBack' = OneBack
    BY <1>0, <2>1, <2>2, <2>3, BackSends
  <2>6. ClosedEvent # ReasonEvent(t)
    BY DEF ClosedEvent, ReasonEvent
  <2>7. InboxOnce'
    BY <1>0, <2>1, <2>4, <2>6 DEF InboxOnce
  <2>8. TwoQueue' = TwoQueue /\ (OneToOne(two_backlog') <=> OneToOne(two_backlog))
    BY <2>1 DEF TwoQueue
  <2>9. \A u \in TwoTasks : Known(u)'
    BY TasksKnown
  <2>10. TwoPlaces'
    BY <1>0, <2>1, <2>5, <2>8, <2>9 DEF TwoPlaces, TwoTasks
  <2>11. OnePlaces'
    BY <2>1, <2>5, OneShrinks
  <2>12. QED
    BY <2>7, <2>10, <2>11 DEF TaskPlaces
<1>5. ASSUME NEW t, WorkerDies(t)
      PROVE  TaskPlaces'
  <2>1. /\ one_out' \subseteq one_out /\ two_out' \subseteq two_out
        /\ UNCHANGED <<inbox, closed, one_backlog, two_backlog>>
    BY <1>5 DEF WorkerDies
  <2>2. OneBack' = OneBack /\ TwoBack' = TwoBack
    BY <2>1, BackSame
  <2>3. InboxOnce'
    BY <1>0, <2>1 DEF InboxOnce
  <2>4. QED
    BY <2>1, <2>2, <2>3, OneShrinks, TwoShrinks DEF TaskPlaces
<1>6. ASSUME NEW i \in DOMAIN one_backlog, DispatchOne(i)
      PROVE  TaskPlaces'
  <2>1. PICK t : t = one_backlog[i]
    OBVIOUS
  <2>2. /\ one_backlog' = RemoveAt(one_backlog, i)
        /\ one_out' = one_out \/ one_out' = one_out \cup {t}
        /\ UNCHANGED <<inbox, closed, two_backlog, two_out>>
    BY <1>6, <2>1 DEF DispatchOne
  <2>3. t \in OneQueue /\ OneToOne(one_backlog') /\ OneQueue' = OneQueue \ {t}
    BY <2>1, <2>2, OneTaken
  <2>4. OneBack' = OneBack /\ TwoBack' = TwoBack
    BY <2>2, BackSame
  <2>5. \A u \in OneTasks : Known(u)'
    BY TasksKnown
  <2>6. OnePlaces'
    BY <1>0, <2>2, <2>3, <2>4, <2>5 DEF OnePlaces, OneTasks
  <2>7. TwoPlaces' /\ InboxOnce'
    BY <1>0, <2>2, <2>4, TwoShrinks DEF InboxOnce
  <2>8. QED
    BY <2>6, <2>7 DEF TaskPlaces
<1>7. CASE DispatchTwo
  <2>1. PICK t : t = Head(two_backlog)
    OBVIOUS
  <2>2. /\ two_backlog # <<>> /\ two_backlog' = Tail(two_backlog)
        /\ two_out' = two_out \/ two_out' = two_out \cup {t}
        /\ UNCHANGED <<inbox, closed, one_backlog, one_out>>
    BY <1>7, <2>1 DEF DispatchTwo
  <2>3. t \in TwoQueue /\ OneToOne(two_backlog') /\ TwoQueue' = TwoQueue \ {t}
    BY <2>1, <2>2, TwoTaken
  <2>4. OneBack' = OneBack /\ TwoBack' = TwoBack
    BY <2>2, BackSame
  <2>5. \A u \in TwoTasks : Known(u)'
    BY TasksKnown
  <2>6. TwoPlaces'
    BY <1>0, <2>2, <2>3, <2>4, <2>5 DEF TwoPlaces, TwoTasks
  <2>7. OnePlaces' /\ InboxOnce'
    BY <1>0, <2>2, <2>4, OneShrinks DEF InboxOnce
  <2>8. QED
    BY <2>6, <2>7 DEF TaskPlaces
<1>8. ASSUME Received,
             UNCHANGED <<closed, one_backlog, two_backlog, one_out, two_out>>
      PROVE  TaskPlaces'
  <2>1. OneToOne(inbox') /\ Elems(inbox') \subseteq Elems(inbox)
    BY <1>0, <1>8, Receives
  <2>2. OneBack' \subseteq OneBack /\ TwoBack' \subseteq TwoBack
    BY <1>0, <1>8, BackReceives
  <2>3. InboxOnce'
    BY <1>0, <1>8, <2>1 DEF InboxOnce
  <2>4. QED
    BY <1>8, <2>2, <2>3, OneShrinks, TwoShrinks DEF TaskPlaces
<1>9. CASE RecvJob \/ RecvClosed \/ CollectAnswers \/ CollectReasoned
  BY <1>8, <1>9 DEF RecvJob, RecvClosed, CollectAnswers, CollectReasoned
<1>10. ASSUME NEW i \in DOMAIN waiting, BeginAsk(i)
       PROVE  TaskPlaces'
  <2>1. PICK a \in Asks : Ask(waiting[i], 1, a, "admit")
    BY <1>10 DEF BeginAsk
  <2>2. /\ waiting[i] \in Jobs /\ waiting[i] \in Waiting
        /\ Asked(waiting[i]) /\ waiting[i] \notin Sent
    <3>1. waiting[i] \in Jobs /\ waiting[i] \in Waiting
      BY SMTT(20) DEF TypeOK, Waiting, Elems
    <3>2. QED
      BY <3>1 DEF JobPlaces
  <2>3. PICK j : j = waiting[i]
    OBVIOUS
  <2>4. Begun(j)'
    <3>1. waiting \in Seq(Jobs) /\ OneToOne(waiting) /\ waiting' = RemoveAt(waiting, i)
          /\ host' = host /\ inbox' = inbox
      BY <1>10 DEF TypeOK, JobPlaces, BeginAsk
    <3>2. Waiting' = Waiting \ {j} /\ Sent' = Sent
      BY <2>3, <3>1, RemoveAtElems DEF Waiting, Sent
    <3>3. QED
      BY <2>2, <2>3, <3>1, <3>2 DEF Begun, Asked
  <2>5. 1 \in 1..MaxRounds
    BY ConstantsAssumption
  <2>6. UNCHANGED <<inbox, closed, one_out, two_out>>
    BY <1>10 DEF BeginAsk
  <2>7. QED
    BY <2>1, <2>2, <2>3, <2>4, <2>5, <2>6, AskTasks
<1>11. CASE AdvanceAsk
  <2>1. PICK a \in Asks : Ask(cur, round[cur] + 1, a, back)
    BY <1>11 DEF AdvanceAsk
  <2>2. /\ cur \in active /\ cur \in Jobs /\ round[cur] + 1 \in 1..MaxRounds
        /\ UNCHANGED <<host, waiting, inbox, closed, one_out, two_out>>
    BY <1>11, ConstantsAssumption, SMTT(20) DEF AdvanceAsk, MayAskAgain, FlightInv, TypeOK
  <2>3. Begun(cur) /\ Asked(cur)
    BY <2>2 DEF JobPlaces, Begun
  <2>4. PICK j, r : j = cur /\ r = round[cur] + 1
    OBVIOUS
  <2>5. Begun(j)'
    BY <2>2, <2>3, <2>4 DEF BegunStays
  <2>6. QED
    BY <2>1, <2>2, <2>4, <2>5, AskTasks
<1>12. CASE \/ \E i \in DOMAIN waiting :
                   SweepWaiting(i) \/ BeginError(i) \/ BeginDone(i)
            \/ \E j \in Jobs : Abandon(j) \/ SweepLate(j)
            \/ SweepDone \/ AdmitDone \/ DispatchDone \/ Tick \/ AdvanceDone
  <2>1. UNCHANGED <<inbox, closed, one_backlog, two_backlog, one_out, two_out>>
    BY <1>12 DEF SweepWaiting, BeginError, BeginDone, Abandon, SweepLate,
                 SweepDone, AdmitDone, DispatchDone, Tick, AdvanceDone, GoTo
  <2>2. QED
    BY <2>1, TasksSame
<1>13. CASE \/ \E j \in Jobs : IngestCount(j) \/ IngestRefuse(j) \/ GiveUp(j) \/ Pass(j)
            \/ Stopped \/ UNCHANGED vars
  <2>1. UNCHANGED <<inbox, closed, one_backlog, two_backlog, one_out, two_out>>
    BY <1>13 DEF IngestCount, IngestRefuse, GiveUp, Pass, Stopped, vars
  <2>2. QED
    BY <2>1, TasksSame
<1>14. CASE Thread
  BY <1>6, <1>7, <1>9, <1>10, <1>11, <1>12, <1>14
     DEF Thread, Sweep, Admit, Dispatch, Receive, Advance
<1>15. QED
  BY <1>1, <1>2, <1>3, <1>4, <1>5, <1>13, <1>14 DEF Next, Host, Workers

-----------------------------------------------------------------------------
(* How many there are.                                                      *)

\* A set counted by a function that tells its members apart.
LEMMA SameCount ==
    ASSUME NEW I, IsFiniteSet(I), NEW f, DOMAIN f = I,
           \A i, k \in I : f[i] = f[k] => i = k
    PROVE  /\ IsFiniteSet({f[i] : i \in I})
           /\ Cardinality({f[i] : i \in I}) = Cardinality(I)
<1> DEFINE T == {f[i] : i \in I}
           g == [i \in I |-> f[i]]
<1>1. g \in [I -> T] /\ \A i, k \in I : g[i] = g[k] => i = k
  OBVIOUS
<1>2. \A t \in T : \E i \in I : g[i] = t
  OBVIOUS
<1>3. g \in Bijection(I, T)
  BY <1>1, <1>2 DEF Bijection, Injection, IsInjective, Surjection
<1>4. ExistsBijection(I, T)
  BY <1>3 DEF ExistsBijection
<1>5. QED
  BY <1>4, FS_Bijection

\* The indexes of some elements of a sequence without duplicates are as many
\* as the elements.
LEMMA IndexesCount ==
    ASSUME NEW S, NEW s \in Seq(S), OneToOne(s), NEW T
    PROVE  /\ IsFiniteSet({i \in DOMAIN s : s[i] \in T}) /\ IsFiniteSet(Elems(s) \cap T)
           /\ Cardinality({i \in DOMAIN s : s[i] \in T}) = Cardinality(Elems(s) \cap T)
<1> DEFINE I == {i \in DOMAIN s : s[i] \in T}
           f == [i \in I |-> s[i]]
<1>1. IsFiniteSet(I)
  <2>1. IsFiniteSet(1..Len(s)) /\ I \in SUBSET (1..Len(s))
    BY FS_Interval
  <2>2. QED
    BY <2>1, FS_Subset
<1>2. DOMAIN f = I /\ \A i, k \in I : f[i] = f[k] => i = k
  BY DEF OneToOne
<1>3. {f[i] : i \in I} = Elems(s) \cap T
  BY DEF Elems
<1>4. QED
  <2> HIDE DEF f, I
  <2>1. IsFiniteSet(Elems(s) \cap T) /\ Cardinality(Elems(s) \cap T) = Cardinality(I)
    BY <1>1, <1>2, <1>3, SameCount
  <2>2. QED
    BY <1>1, <2>1 DEF I

\* Calls are records, of finitely many.
LEMMA TasksFinite == IsFiniteSet(OneTask) /\ IsFiniteSet(TwoTask)
<1>1. IsFiniteSet(Jobs) /\ IsFiniteSet(1..MaxRounds) /\ IsFiniteSet(1..MaxReasonings)
  BY ConstantsAssumption, FS_Interval
<1>2. IsFiniteSet(OneTask)
  <2> DEFINE P == Jobs \X (1..MaxRounds)
             f == [x \in P |-> [job |-> x[1], round |-> x[2]]]
  <2>1. IsFiniteSet(P)
    BY <1>1, FS_Product
  <2>2. \A x \in P : f[x] \in OneTask
    BY DEF OneTask
  <2>3. ASSUME NEW t \in OneTask PROVE \E x \in P : f[x] = t
    <3>1. <<t.job, t.round>> \in P /\ f[<<t.job, t.round>>] = t
      BY DEF OneTask
    <3>2. QED
      BY <3>1
  <2>4. f \in Surjection(P, OneTask)
    BY <2>2, <2>3 DEF Surjection
  <2> HIDE DEF f, P
  <2>5. QED
    BY <2>1, <2>4, FS_Surjection
<1>3. IsFiniteSet(TwoTask)
  <2> DEFINE P == OneTask \X (1..MaxReasonings)
             f == [x \in P |-> [job |-> x[1].job, round |-> x[1].round, id |-> x[2]]]
  <2>1. IsFiniteSet(P)
    BY <1>1, <1>2, FS_Product
  <2>2. \A x \in P : f[x] \in TwoTask
    BY DEF OneTask, TwoTask
  <2>3. ASSUME NEW t \in TwoTask PROVE \E x \in P : f[x] = t
    <3>1. PICK u : u = [job |-> t.job, round |-> t.round]
      OBVIOUS
    <3>2. <<u, t.id>> \in P /\ f[<<u, t.id>>] = t
      BY <3>1 DEF OneTask, TwoTask
    <3>3. QED
      BY <3>2
  <2>4. f \in Surjection(P, TwoTask)
    BY <2>2, <2>3 DEF Surjection
  <2> HIDE DEF f, P
  <2>5. QED
    BY <2>1, <2>4, FS_Surjection
<1>4. QED
  BY <1>2, <1>3

\* No call is both of System One and of System Two.
LEMMA TasksApart == OneTask \cap TwoTask = {}
<1> SUFFICES ASSUME NEW t \in OneTask, t \in TwoTask PROVE FALSE
  OBVIOUS
<1>1. DOMAIN t = {"job", "round"} /\ DOMAIN t = {"job", "round", "id"}
  BY DEF OneTask, TwoTask
<1>2. QED
  BY <1>1

-----------------------------------------------------------------------------
(* What the counters count.                                                 *)

\* Hosts between fetch_add and sending or refusing, and what `queued` is.
Counting == {j \in Jobs : host[j] \in {"counted", "refusing"}}

QueuedInv == queued = Cardinality(Counting) + Cardinality(Sent)

\* Calls that hold a worker: being worked on, or not yet collected.
OneHeld == one_out \cup OneBack
TwoHeld == two_out \cup TwoBack

\* The pools' busy counts, each above what holds its workers.
PoolsInv ==
    /\ Cardinality(OneHeld) <= one_busy /\ one_busy <= OneWorkers
    /\ Cardinality(TwoHeld) <= two_busy /\ two_busy <= TwoWorkers
    /\ one_busy + two_busy = Cardinality(OneHeld) + Cardinality(TwoHeld) + panics

\* The calls of a signal's round.
OneOf(j) == {t \in OneTask : IsCallOf(t, j)}
TwoOf(j) == {t \in TwoTask : IsCallOf(t, j)}
\* How many of them there are.
Out(j) == Cardinality(OneTasks \cap OneOf(j)) + Cardinality(TwoTasks \cap TwoOf(j))

\* `awaiting` counts them, and those whose worker died.
CallsInv == \A j \in active : Out(j) <= awaiting[j] /\ awaiting[j] <= Out(j) + panics

\* The three counters.
CountsInv == QueuedInv /\ PoolsInv /\ CallsInv

\* Everything counted is finite.
LEMMA CountsTypes ==
    ASSUME TypeOK
    PROVE  /\ IsFiniteSet(Counting) /\ Cardinality(Counting) \in Nat
           /\ IsFiniteSet(Sent) /\ Cardinality(Sent) \in Nat
           /\ IsFiniteSet(OneHeld) /\ Cardinality(OneHeld) \in Nat
           /\ IsFiniteSet(TwoHeld) /\ Cardinality(TwoHeld) \in Nat
           /\ IsFiniteSet(one_out) /\ IsFiniteSet(two_out)
           /\ IsFiniteSet(OneBack) /\ IsFiniteSet(TwoBack)
           /\ \A j \in Jobs : /\ IsFiniteSet(OneTasks \cap OneOf(j))
                              /\ Cardinality(OneTasks \cap OneOf(j)) \in Nat
                              /\ IsFiniteSet(TwoTasks \cap TwoOf(j))
                              /\ Cardinality(TwoTasks \cap TwoOf(j)) \in Nat
<1>1. Counting \in SUBSET Jobs /\ Sent \in SUBSET Jobs /\ IsFiniteSet(Jobs)
  BY ConstantsAssumption DEF Counting, Sent
<1>2. /\ OneHeld \in SUBSET OneTask /\ TwoHeld \in SUBSET TwoTask
      /\ one_out \in SUBSET OneTask /\ two_out \in SUBSET TwoTask
      /\ OneBack \in SUBSET OneTask /\ TwoBack \in SUBSET TwoTask
  BY DEF OneHeld, TwoHeld, OneBack, TwoBack, TypeOK
<1>3. \A j \in Jobs : /\ OneTasks \cap OneOf(j) \in SUBSET OneTask
                      /\ TwoTasks \cap TwoOf(j) \in SUBSET TwoTask
  BY DEF OneOf, TwoOf
<1>4. /\ \A T \in SUBSET Jobs : IsFiniteSet(T) /\ Cardinality(T) \in Nat
      /\ \A T \in SUBSET OneTask : IsFiniteSet(T) /\ Cardinality(T) \in Nat
      /\ \A T \in SUBSET TwoTask : IsFiniteSet(T) /\ Cardinality(T) \in Nat
  BY <1>1, TasksFinite, FS_Subset, FS_CardinalityType
<1>5. QED
  BY <1>1, <1>2, <1>3, <1>4

\* A signal of which no call comes or goes.
LEMMA OutSame ==
    ASSUME TypeOK, NEW j \in Jobs, round'[j] = round[j],
           OneTasks' \cap {t \in OneTask : t.job = j}
               = OneTasks \cap {t \in OneTask : t.job = j},
           TwoTasks' \cap {t \in TwoTask : t.job = j}
               = TwoTasks \cap {t \in TwoTask : t.job = j}
    PROVE  Out(j)' = Out(j)
<1>1. OneOf(j)' = OneOf(j) /\ TwoOf(j)' = TwoOf(j)
  BY DEF OneOf, TwoOf, IsCallOf
<1>2. OneTasks' \cap OneOf(j) = OneTasks \cap OneOf(j)
  BY DEF OneOf, IsCallOf
<1>3. TwoTasks' \cap TwoOf(j) = TwoTasks \cap TwoOf(j)
  BY DEF TwoOf, IsCallOf
<1>4. QED
  BY <1>1, <1>2, <1>3 DEF Out

\* The hosts counting and the signals sent, after each step.
LEMMA QueuedStep ==
    ASSUME TypeOK, JobPlaces, InboxOnce, FlightInv, QueuedInv, [Next]_vars
    PROVE  QueuedInv'
<1> USE DEF hostVars, loopVars, signalVars, engineVars, busyVars, outVars,
            backlogs
<1>1. /\ IsFiniteSet(Counting) /\ Cardinality(Counting) \in Nat
      /\ IsFiniteSet(Sent) /\ Cardinality(Sent) \in Nat /\ queued \in Int
  BY CountsTypes DEF TypeOK
<1>2. ASSUME queued' = queued, Sent' = Sent,
             \A j \in Jobs : \/ host'[j] = host[j]
                             \/ host[j] \in {"asking", "gone"}
                                /\ host'[j] \in {"answered", "gone"}
      PROVE  QueuedInv'
  <2>1. Counting' = Counting
    BY <1>2 DEF Counting
  <2>2. QED
    BY <1>2, <2>1 DEF QueuedInv
<1>3. inbox' = inbox => Sent' = Sent
  BY DEF Sent
<1>4. ASSUME NEW j \in Jobs, IngestCount(j) PROVE QueuedInv'
  <2>1. /\ queued' = queued + 1 /\ Sent' = Sent /\ host[j] = "new"
        /\ \A k \in Jobs : IF k = j THEN host'[k] \in {"counted", "refusing"}
                           ELSE host'[k] = host[k]
    BY <1>3, <1>4 DEF IngestCount, TypeOK
  <2>2. Counting' = Counting \cup {j} /\ j \notin Counting
    BY <2>1 DEF Counting
  <2>3. Cardinality(Counting') = Cardinality(Counting) + 1
    BY <1>1, <2>2, FS_AddElement
  <2>4. QED
    BY <1>1, <2>1, <2>3 DEF QueuedInv
<1>5. ASSUME NEW j \in Jobs, IngestRefuse(j) PROVE QueuedInv'
  <2>1. /\ queued' = queued - 1 /\ Sent' = Sent /\ host[j] = "refusing"
        /\ \A k \in Jobs : host'[k] = IF k = j THEN "refused" ELSE host[k]
    BY <1>3, <1>5 DEF IngestRefuse, TypeOK
  <2>2. Counting' = Counting \ {j} /\ j \in Counting
    BY <2>1 DEF Counting
  <2>3. Cardinality(Counting') = Cardinality(Counting) - 1
    BY <1>1, <2>2, FS_RemoveElement
  <2>4. QED
    BY <1>1, <2>1, <2>3 DEF QueuedInv
<1>6. ASSUME NEW j \in Jobs, IngestSend(j) PROVE QueuedInv'
  <2>1. /\ queued' = queued /\ host[j] = "counted"
        /\ \A k \in Jobs : host'[k] = IF k = j THEN "asking" ELSE host[k]
    BY <1>6 DEF IngestSend, TypeOK
  <2>2. Counting' = Counting \ {j} /\ j \in Counting
    BY <2>1 DEF Counting
  <2>3. Sent' = Sent \cup {j}
    BY <1>6, SendsJob DEF IngestSend
  <2>4. j \notin Sent
    BY <2>1 DEF JobPlaces, Asked
  <2>5. /\ Cardinality(Counting') = Cardinality(Counting) - 1
        /\ Cardinality(Sent') = Cardinality(Sent) + 1
    BY <1>1, <2>2, <2>3, <2>4, FS_RemoveElement, FS_AddElement
  <2>6. QED
    BY <1>1, <2>1, <2>5 DEF QueuedInv
<1>7. ASSUME NEW j \in Jobs, GiveUp(j) \/ Pass(j) PROVE QueuedInv'
  <2>1. /\ queued' = queued /\ Sent' = Sent
        /\ \A k \in Jobs : \/ host'[k] = host[k]
                           \/ host[k] = "asking" /\ host'[k] = "gone"
    BY <1>3, <1>7 DEF GiveUp, Pass, TypeOK
  <2>2. QED
    BY <1>2, <2>1
<1>8. CASE Close
  <2>1. ClosedEvent \in Event /\ ClosedEvent.type # "job"
    BY DEF Event, ClosedEvent
  <2>2. Sent' = Sent
    BY <1>8, <2>1, SendsOther DEF Close
  <2>3. QED
    BY <1>2, <1>8, <2>2 DEF Close
<1>9. ASSUME NEW t \in one_out, OneReturns(t) PROVE QueuedInv'
  <2>1. AnswerEvent(t) \in Event /\ AnswerEvent(t).type # "job"
    BY DEF Event, AnswerEvent, TypeOK
  <2>2. Sent' = Sent
    BY <1>9, <2>1, SendsOther DEF OneReturns
  <2>3. QED
    BY <1>2, <1>9, <2>2 DEF OneReturns
<1>10. ASSUME NEW t \in two_out, TwoReturns(t) PROVE QueuedInv'
  <2>1. ReasonEvent(t) \in Event /\ ReasonEvent(t).type # "job"
    BY DEF Event, ReasonEvent, TypeOK
  <2>2. Sent' = Sent
    BY <1>10, <2>1, SendsOther DEF TwoReturns
  <2>3. QED
    BY <1>2, <1>10, <2>2 DEF TwoReturns
<1>11. ASSUME NEW t, WorkerDies(t) PROVE QueuedInv'
  BY <1>2, <1>3, <1>11 DEF WorkerDies
<1>12. CASE Stopped \/ UNCHANGED vars
  BY <1>2, <1>3, <1>12 DEF Stopped, vars
<1>13. ASSUME NEW j \in Jobs, Asked(j), NEW result, NEW saved, NEW memory,
              Complete(j, result, saved, memory), queued' = queued, Sent' = Sent
       PROVE  QueuedInv'
  BY <1>2, <1>13, CompleteHost DEF Asked
<1>14. ASSUME NEW i \in DOMAIN waiting
       PROVE  waiting[i] \in Jobs /\ Asked(waiting[i])
  <2>1. waiting[i] \in Jobs /\ waiting[i] \in Waiting
    BY DEF TypeOK, Waiting, Elems
  <2>2. QED
    BY <2>1 DEF JobPlaces
<1>15. ASSUME NEW j \in Jobs, Expire(j), queued' = queued, Sent' = Sent
       PROVE  QueuedInv'
  <2>1. CASE j \in active
    <3>1. Asked(j)
      BY <2>1 DEF JobPlaces
    <3>2. QED
      BY <1>13, <1>15, <2>1, <3>1 DEF Expire
  <2>2. CASE j \notin active
    BY <1>2, <1>15, <2>2 DEF Expire
  <2>3. QED
    BY <2>1, <2>2
<1>16. ASSUME NEW i \in DOMAIN waiting,
              SweepWaiting(i) \/ BeginError(i) \/ BeginDone(i) \/ BeginAsk(i)
       PROVE  QueuedInv'
  <2>1. queued' = queued /\ Sent' = Sent
    BY <1>3, <1>16 DEF SweepWaiting, BeginError, BeginDone, BeginAsk
  <2>2. CASE SweepWaiting(i)
    <3>1. \A k \in Jobs : \/ host'[k] = host[k]
                          \/ host[k] \in {"asking", "gone"} /\ host'[k] = "answered"
      BY <1>14, <2>2 DEF SweepWaiting, TypeOK, Asked
    <3>2. QED
      BY <1>2, <2>1, <3>1
  <2>3. CASE BeginError(i) \/ BeginDone(i)
    BY <1>13, <1>14, <2>1, <2>3 DEF BeginError, BeginDone
  <2>4. CASE BeginAsk(i)
    BY <1>2, <2>1, <2>4 DEF BeginAsk
  <2>5. QED
    BY <1>16, <2>2, <2>3, <2>4
<1>17. ASSUME NEW j \in Jobs, Abandon(j) \/ SweepLate(j) PROVE QueuedInv'
  BY <1>2, <1>3, <1>15, <1>17 DEF Abandon, SweepLate
<1>18. CASE SweepDone \/ AdmitDone \/ DispatchTwo \/ DispatchDone \/ Tick
  BY <1>2, <1>3, <1>18 DEF SweepDone, AdmitDone, DispatchTwo, DispatchDone, Tick, GoTo
<1>19. ASSUME NEW i \in DOMAIN one_backlog, DispatchOne(i) PROVE QueuedInv'
  <2>1. one_backlog[i].job \in Jobs /\ queued' = queued /\ Sent' = Sent
    <3>1. one_backlog[i] \in OneTask
      BY DEF TypeOK
    <3>2. QED
      BY <1>3, <1>19, <3>1 DEF OneTask, DispatchOne
  <2>2. CASE one_backlog[i].job \in late
    BY <1>15, <1>19, <2>1, <2>2 DEF DispatchOne
  <2>3. CASE one_backlog[i].job \notin late
    BY <1>2, <1>19, <2>1, <2>3 DEF DispatchOne
  <2>4. QED
    BY <2>2, <2>3
<1>20. CASE RecvJob
  <2>1. PICK j : j = Head(inbox).job
    OBVIOUS
  <2>2. queued' = queued - 1 /\ host' = host /\ j \in Sent /\ Sent' = Sent \ {j}
    BY <1>20, <2>1, Receives DEF RecvJob
  <2>3. Cardinality(Sent') = Cardinality(Sent) - 1 /\ Counting' = Counting
    BY <1>1, <2>2, FS_RemoveElement DEF Counting
  <2>4. QED
    BY <1>1, <2>2, <2>3 DEF QueuedInv
<1>21. CASE RecvClosed
  BY <1>2, <1>21, Receives DEF RecvClosed
<1>22. ASSUME NEW t, t.job \in Jobs, Settle(t), queued' = queued, Sent' = Sent
       PROVE  QueuedInv'
  <2>1. CASE t.job \in active \cap late
    BY <1>15, <1>22, <2>1 DEF Settle
  <2>2. CASE t.job \notin active \cap late
    BY <1>2, <1>22, <2>2 DEF Settle
  <2>3. QED
    BY <2>1, <2>2
<1>23. CASE CollectAnswers
  <2>1. Head(inbox).task \in OneTask /\ Sent' = Sent
    BY <1>23, ReceivedType, Receives DEF CollectAnswers
  <2>2. QED
    BY <1>22, <1>23, <2>1 DEF OneTask, CollectAnswers
<1>24. CASE CollectReasoned
  <2>1. Head(inbox).task \in TwoTask /\ Sent' = Sent
    BY <1>24, ReceivedType, Receives DEF CollectReasoned
  <2>2. QED
    BY <1>22, <1>24, <2>1 DEF TwoTask, CollectReasoned
<1>25. CASE AdvanceAsk
  BY <1>2, <1>3, <1>25 DEF AdvanceAsk
<1>26. CASE AdvanceDone
  <2>1. cur \in active /\ cur \in Jobs /\ Asked(cur)
    BY <1>26 DEF AdvanceDone, FlightInv, TypeOK, JobPlaces
  <2>2. QED
    BY <1>3, <1>13, <1>26, <2>1 DEF AdvanceDone
<1>27. CASE Thread
  BY <1>16, <1>17, <1>18, <1>19, <1>20, <1>21, <1>23, <1>24, <1>25, <1>26, <1>27
     DEF Thread, Sweep, Admit, Dispatch, Receive, Advance
<1>28. QED
  BY <1>4, <1>5, <1>6, <1>7, <1>8, <1>9, <1>10, <1>11, <1>12, <1>27
     DEF Next, Host, Workers

\* The pools, after each step.
LEMMA PoolsStep ==
    ASSUME TypeOK, JobPlaces, TaskPlaces, PoolsInv, [Next]_vars
    PROVE  PoolsInv'
<1> USE DEF hostVars, loopVars, signalVars, engineVars, busyVars, outVars,
            backlogs
<1>1. /\ IsFiniteSet(OneHeld) /\ Cardinality(OneHeld) \in Nat
      /\ IsFiniteSet(TwoHeld) /\ Cardinality(TwoHeld) \in Nat
      /\ one_busy \in Nat /\ two_busy \in Nat /\ panics \in Nat
      /\ OneWorkers \in Nat /\ TwoWorkers \in Nat
  BY CountsTypes, ConstantsAssumption DEF TypeOK
<1>2. InboxOnce /\ OnePlaces /\ TwoPlaces
  BY DEF TaskPlaces
<1>3. ASSUME OneHeld' = OneHeld, TwoHeld' = TwoHeld, UNCHANGED <<busyVars, panics>>
      PROVE  PoolsInv'
  BY <1>3 DEF PoolsInv
<1>4. ASSUME OneBack' = OneBack, TwoBack' = TwoBack,
             UNCHANGED <<busyVars, one_out, two_out, panics>>
      PROVE  PoolsInv'
  BY <1>3, <1>4 DEF OneHeld, TwoHeld
<1>5. ASSUME UNCHANGED <<inbox, busyVars, one_out, two_out, panics>>
      PROVE  PoolsInv'
  BY <1>4, <1>5, BackSame
<1>6. CASE \/ \E j \in Jobs : IngestCount(j) \/ IngestRefuse(j) \/ GiveUp(j) \/ Pass(j)
           \/ Stopped \/ UNCHANGED vars
  BY <1>5, <1>6 DEF IngestCount, IngestRefuse, GiveUp, Pass, Stopped, vars
<1>7. ASSUME NEW j \in Jobs, IngestSend(j) PROVE PoolsInv'
  <2>1. host[j] = "counted" /\ inbox' = Append(inbox, JobEvent(j))
    BY <1>7 DEF IngestSend
  <2>2. JobEvent(j) \in Event /\ JobEvent(j).type = "job"
    BY DEF JobEvent, Event
  <2>3. JobEvent(j) \notin Elems(inbox)
    BY <2>1 DEF JobPlaces, Asked, Sent
  <2>4. OneBack' = OneBack /\ TwoBack' = TwoBack
    BY <1>2, <2>1, <2>2, <2>3, BackSends
  <2>5. QED
    BY <1>4, <1>7, <2>4 DEF IngestSend
<1>8. CASE Close
  <2>1. inbox' = Append(inbox, ClosedEvent) /\ ~closed
    BY <1>8 DEF Close
  <2>2. ClosedEvent \in Event /\ ClosedEvent.type = "closed"
    BY DEF ClosedEvent, Event
  <2>3. ClosedEvent \notin Elems(inbox)
    BY <1>2, <2>1 DEF InboxOnce
  <2>4. OneBack' = OneBack /\ TwoBack' = TwoBack
    BY <1>2, <2>1, <2>2, <2>3, BackSends
  <2>5. QED
    BY <1>4, <1>8, <2>4 DEF Close
<1>9. ASSUME NEW t \in one_out, OneReturns(t) PROVE PoolsInv'
  <2>1. /\ one_out' = one_out \ {t} /\ inbox' = Append(inbox, AnswerEvent(t))
        /\ UNCHANGED <<busyVars, two_out, panics>>
    BY <1>9 DEF OneReturns
  <2>2. t \in OneTask /\ AnswerEvent(t) \in Event /\ AnswerEvent(t).type = "answers"
    BY DEF AnswerEvent, Event, TypeOK
  <2>3. AnswerEvent(t) \notin Elems(inbox)
    BY <1>2, <2>2 DEF OnePlaces, OneBack
  <2>4. OneBack' = OneBack \cup {t} /\ TwoBack' = TwoBack
    BY <1>2, <2>1, <2>2, <2>3, BackSends
  <2>5. QED
    BY <1>3, <2>1, <2>4 DEF OneHeld, TwoHeld
<1>10. ASSUME NEW t \in two_out, TwoReturns(t) PROVE PoolsInv'
  <2>1. /\ two_out' = two_out \ {t} /\ inbox' = Append(inbox, ReasonEvent(t))
        /\ UNCHANGED <<busyVars, one_out, panics>>
    BY <1>10 DEF TwoReturns
  <2>2. t \in TwoTask /\ ReasonEvent(t) \in Event /\ ReasonEvent(t).type = "reasoned"
    BY DEF ReasonEvent, Event, TypeOK
  <2>3. ReasonEvent(t) \notin Elems(inbox)
    BY <1>2, <2>2 DEF TwoPlaces, TwoBack
  <2>4. TwoBack' = TwoBack \cup {t} /\ OneBack' = OneBack
    BY <1>2, <2>1, <2>2, <2>3, BackSends
  <2>5. QED
    BY <1>3, <2>1, <2>4 DEF OneHeld, TwoHeld
<1>11. ASSUME NEW t \in one_out \cup two_out, WorkerDies(t) PROVE PoolsInv'
  <2>1. /\ one_out' = one_out \ {t} /\ two_out' = two_out \ {t}
        /\ panics' = panics + 1 /\ UNCHANGED <<inbox, busyVars>>
    BY <1>11 DEF WorkerDies
  <2>2. OneBack' = OneBack /\ TwoBack' = TwoBack
    BY <2>1, BackSame
  <2>3. OneHeld \subseteq OneTask /\ TwoHeld \subseteq TwoTask
    BY DEF OneHeld, TwoHeld, OneBack, TwoBack, TypeOK
  <2>4. CASE t \in one_out
    <3>1. t \notin TwoHeld /\ t \in OneHeld
      BY <2>3, <2>4, TasksApart DEF OneHeld
    <3>2. OneHeld' = OneHeld \ {t} /\ TwoHeld' = TwoHeld
      BY <1>2, <2>1, <2>2, <2>4, <3>1 DEF OneHeld, TwoHeld, OnePlaces
    <3>3. Cardinality(OneHeld') = Cardinality(OneHeld) - 1
      BY <1>1, <3>1, <3>2, FS_RemoveElement
    <3>4. QED
      BY <1>1, <2>1, <3>2, <3>3 DEF PoolsInv
  <2>5. CASE t \in two_out
    <3>1. t \notin OneHeld /\ t \in TwoHeld
      BY <2>3, <2>5, TasksApart DEF TwoHeld
    <3>2. TwoHeld' = TwoHeld \ {t} /\ OneHeld' = OneHeld
      BY <1>2, <2>1, <2>2, <2>5, <3>1 DEF OneHeld, TwoHeld, TwoPlaces
    <3>3. Cardinality(TwoHeld') = Cardinality(TwoHeld) - 1
      BY <1>1, <3>1, <3>2, FS_RemoveElement
    <3>4. QED
      BY <1>1, <2>1, <3>2, <3>3 DEF PoolsInv
  <2>6. QED
    BY <2>4, <2>5
<1>12. ASSUME NEW i \in DOMAIN one_backlog, DispatchOne(i) PROVE PoolsInv'
  <2>1. PICK t : t = one_backlog[i]
    OBVIOUS
  <2>2. /\ one_backlog' = RemoveAt(one_backlog, i) /\ Free(OneWorkers, one_busy) > 0
        /\ UNCHANGED <<inbox, two_busy, two_out, panics>>
        /\ \/ UNCHANGED <<one_out, one_busy>>
           \/ one_out' = one_out \cup {t} /\ one_busy' = one_busy + 1
    BY <1>12, <2>1 DEF DispatchOne
  <2>3. t \in OneQueue
    BY <2>1, <2>2, OneTaken
  <2>4. OneBack' = OneBack /\ TwoBack' = TwoBack
    BY <2>2, BackSame
  <2>5. CASE UNCHANGED <<one_out, one_busy>>
    BY <1>5, <2>2, <2>5
  <2>6. CASE one_out' = one_out \cup {t} /\ one_busy' = one_busy + 1
    <3>1. OneHeld' = OneHeld \cup {t} /\ t \notin OneHeld /\ TwoHeld' = TwoHeld
      BY <1>2, <2>2, <2>3, <2>4, <2>6 DEF OneHeld, TwoHeld, OnePlaces
    <3>2. Cardinality(OneHeld') = Cardinality(OneHeld) + 1
      BY <1>1, <3>1, FS_AddElement
    <3>3. one_busy + 1 <= OneWorkers
      BY <1>1, <2>2 DEF Free
    <3>4. QED
      BY <1>1, <2>2, <2>6, <3>1, <3>2, <3>3 DEF PoolsInv
  <2>7. QED
    BY <2>2, <2>5, <2>6
<1>13. CASE DispatchTwo
  <2>1. PICK t : t = Head(two_backlog)
    OBVIOUS
  <2>2. /\ two_backlog # <<>> /\ two_backlog' = Tail(two_backlog)
        /\ Free(TwoWorkers, two_busy) > 0
        /\ UNCHANGED <<inbox, one_busy, one_out, panics>>
        /\ \/ UNCHANGED <<two_out, two_busy>>
           \/ two_out' = two_out \cup {t} /\ two_busy' = two_busy + 1
    BY <1>13, <2>1 DEF DispatchTwo
  <2>3. t \in TwoQueue
    BY <2>1, <2>2, TwoTaken
  <2>4. OneBack' = OneBack /\ TwoBack' = TwoBack
    BY <2>2, BackSame
  <2>5. CASE UNCHANGED <<two_out, two_busy>>
    BY <1>5, <2>2, <2>5
  <2>6. CASE two_out' = two_out \cup {t} /\ two_busy' = two_busy + 1
    <3>1. TwoHeld' = TwoHeld \cup {t} /\ t \notin TwoHeld /\ OneHeld' = OneHeld
      BY <1>2, <2>2, <2>3, <2>4, <2>6 DEF OneHeld, TwoHeld, TwoPlaces
    <3>2. Cardinality(TwoHeld') = Cardinality(TwoHeld) + 1
      BY <1>1, <3>1, FS_AddElement
    <3>3. two_busy + 1 <= TwoWorkers
      BY <1>1, <2>2 DEF Free
    <3>4. two_busy' = two_busy + 1 /\ one_busy' = one_busy /\ panics' = panics
      BY <2>2, <2>6
    <3>5. /\ Cardinality(TwoHeld') <= two_busy' /\ two_busy' <= TwoWorkers
          /\ Cardinality(OneHeld') <= one_busy' /\ one_busy' <= OneWorkers
      BY <1>1, <3>1, <3>2, <3>3, <3>4 DEF PoolsInv
    <3>6. one_busy' + two_busy' = Cardinality(OneHeld') + Cardinality(TwoHeld') + panics'
      BY <1>1, <3>1, <3>2, <3>4 DEF PoolsInv
    <3>7. QED
      BY <3>5, <3>6 DEF PoolsInv
  <2>7. QED
    BY <2>2, <2>5, <2>6
<1>14. CASE RecvJob \/ RecvClosed
  <2>1. Received /\ Head(inbox).type \notin {"answers", "reasoned"}
        /\ UNCHANGED <<busyVars, one_out, two_out, panics>>
    BY <1>14 DEF RecvJob, RecvClosed
  <2>2. OneBack' = OneBack /\ TwoBack' = TwoBack
    BY <1>2, <2>1, BackReceives
  <2>3. QED
    BY <1>4, <2>1, <2>2
<1>15. CASE CollectAnswers
  <2>1. PICK t : t = Head(inbox).task
    OBVIOUS
  <2>2. /\ Received /\ Head(inbox).type = "answers" /\ one_busy' = Finished(one_busy)
        /\ UNCHANGED <<two_busy, one_out, two_out, panics>>
    BY <1>15 DEF CollectAnswers
  <2>3. t \in OneBack /\ OneBack' = OneBack \ {t} /\ TwoBack' = TwoBack
    BY <1>2, <2>1, <2>2, BackReceives
  <2>4. OneHeld' = OneHeld \ {t} /\ t \in OneHeld /\ TwoHeld' = TwoHeld
    BY <1>2, <2>2, <2>3 DEF OneHeld, TwoHeld, OnePlaces
  <2>5. Cardinality(OneHeld') = Cardinality(OneHeld) - 1 /\ Cardinality(OneHeld) # 0
    BY <1>1, <2>4, FS_RemoveElement, FS_EmptySet
  <2>6. one_busy' = one_busy - 1
    BY <1>1, <2>2, <2>5 DEF PoolsInv, Finished
  <2>7. QED
    BY <1>1, <2>2, <2>4, <2>5, <2>6 DEF PoolsInv
<1>16. CASE CollectReasoned
  <2>1. PICK t : t = Head(inbox).task
    OBVIOUS
  <2>2. /\ Received /\ Head(inbox).type = "reasoned" /\ two_busy' = Finished(two_busy)
        /\ UNCHANGED <<one_busy, one_out, two_out, panics>>
    BY <1>16 DEF CollectReasoned
  <2>3. t \in TwoBack /\ TwoBack' = TwoBack \ {t} /\ OneBack' = OneBack
    BY <1>2, <2>1, <2>2, BackReceives
  <2>4. TwoHeld' = TwoHeld \ {t} /\ t \in TwoHeld /\ OneHeld' = OneHeld
    BY <1>2, <2>2, <2>3 DEF OneHeld, TwoHeld, TwoPlaces
  <2>5. Cardinality(TwoHeld') = Cardinality(TwoHeld) - 1 /\ Cardinality(TwoHeld) # 0
    BY <1>1, <2>4, FS_RemoveElement, FS_EmptySet
  <2>6. two_busy' = two_busy - 1
    BY <1>1, <2>2, <2>5 DEF PoolsInv, Finished
  <2>7. QED
    BY <1>1, <2>2, <2>4, <2>5, <2>6 DEF PoolsInv
<1>17. CASE \/ \E i \in DOMAIN waiting :
                   SweepWaiting(i) \/ BeginError(i) \/ BeginDone(i) \/ BeginAsk(i)
            \/ \E j \in Jobs : Abandon(j) \/ SweepLate(j)
            \/ SweepDone \/ AdmitDone \/ DispatchDone \/ Tick \/ AdvanceAsk \/ AdvanceDone
  BY <1>5, <1>17 DEF SweepWaiting, BeginError, BeginDone, BeginAsk, Abandon, SweepLate,
                     SweepDone, AdmitDone, DispatchDone, Tick, AdvanceAsk, AdvanceDone, GoTo
<1>18. CASE Thread
  BY <1>12, <1>13, <1>14, <1>15, <1>16, <1>17, <1>18
     DEF Thread, Sweep, Admit, Dispatch, Receive, Advance
<1>19. QED
  BY <1>6, <1>7, <1>8, <1>9, <1>10, <1>11, <1>18 DEF Next, Host, Workers

\* `awaiting` is right for one signal.
CallsOk(k) == Out(k) <= awaiting[k] /\ awaiting[k] <= Out(k) + panics

\* No call of the signal comes or goes.
CallsStay(k) ==
    /\ OneTasks' \cap {t \in OneTask : t.job = k} = OneTasks \cap {t \in OneTask : t.job = k}
    /\ TwoTasks' \cap {t \in TwoTask : t.job = k} = TwoTasks \cap {t \in TwoTask : t.job = k}

\* It stays so while no call of it comes or goes.
LEMMA CallsKeep ==
    ASSUME TypeOK, CallsInv, NEW k \in active, CallsStay(k), panics' = panics,
           round'[k] = round[k], awaiting'[k] = awaiting[k]
    PROVE  CallsOk(k)'
<1>1. k \in Jobs
  BY DEF TypeOK
<1>2. Out(k)' = Out(k)
  BY <1>1, OutSame DEF CallsStay
<1>3. CallsOk(k)
  BY DEF CallsInv, CallsOk
<1>4. QED
  BY <1>2, <1>3 DEF CallsOk

\* Steps that touch no call, and those that also forget a signal.
LEMMA CallsSame ==
    ASSUME TypeOK, CallsInv, UNCHANGED <<active, round, awaiting, panics>>,
           OneTasks' = OneTasks, TwoTasks' = TwoTasks
    PROVE  CallsInv'
<1>1. \A k \in active : CallsOk(k)'
  BY CallsKeep DEF CallsStay
<1>2. QED
  BY <1>1 DEF CallsInv, CallsOk

\* Steps that forget a signal.
LEMMA CallsForget ==
    ASSUME TypeOK, CallsInv, NEW j, Forget(j), panics' = panics,
           \A k \in active \ {j} : CallsStay(k)
    PROVE  CallsInv'
<1>1. ASSUME NEW k \in active \ {j}
      PROVE  round'[k] = round[k] /\ awaiting'[k] = awaiting[k]
  BY DEF Forget, TypeOK
<1>2. \A k \in active \ {j} : CallsOk(k)'
  BY <1>1, CallsKeep
<1>3. active' = active \ {j}
  BY DEF Forget
<1>4. QED
  BY <1>2, <1>3 DEF CallsInv, CallsOk

\* Steps in which a deadline settles one.
LEMMA CallsExpire ==
    ASSUME TypeOK, CallsInv, NEW j, Expire(j), panics' = panics,
           \A k \in active \ {j} : CallsStay(k)
    PROVE  CallsInv'
<1>1. CASE j \in active
  BY <1>1, CallsForget DEF Expire
<1>2. CASE j \notin active
  <2>1. UNCHANGED <<active, round, awaiting>> /\ \A k \in active : CallsStay(k)
    BY <1>2 DEF Expire
  <2>2. \A k \in active : CallsOk(k)'
    BY <2>1, CallsKeep
  <2>3. QED
    BY <2>1, <2>2 DEF CallsInv, CallsOk
<1>3. QED
  BY <1>1, <1>2

\* A call a result came back for: its signal waits for one less.
LEMMA CallsSettle ==
    ASSUME TypeOK, CallsInv, NEW t, t.job \in Jobs, Settle(t), panics' = panics,
           \/ /\ t \in OneTask /\ t \in OneTasks
              /\ OneTasks' = OneTasks \ {t} /\ TwoTasks' = TwoTasks
           \/ /\ t \in TwoTask /\ t \in TwoTasks
              /\ TwoTasks' = TwoTasks \ {t} /\ OneTasks' = OneTasks
    PROVE  CallsInv'
<1>1. \A k \in active : k # t.job => CallsStay(k)
  BY DEF CallsStay
<1>2. CASE t.job \in active \cap late
  BY <1>1, <1>2, CallsExpire DEF Settle
<1>3. CASE t.job \notin active \cap late
  <2>1. active' = active /\ round' = round
    BY <1>3 DEF Settle
  <2>2. CASE ~InRound(t)
    <3>1. awaiting' = awaiting
      BY <1>3, <2>2 DEF Settle
    <3>2. ASSUME NEW k \in active PROVE CallsOk(k)'
      <4>1. CASE k # t.job
        BY <1>1, <2>1, <3>1, <4>1, CallsKeep
      <4>2. CASE k = t.job
        <5>1. t.round # round[k] /\ k \in Jobs
          BY <2>2, <4>2 DEF InRound, TypeOK
        <5>2. t \notin OneOf(k) /\ t \notin TwoOf(k)
              /\ OneOf(k)' = OneOf(k) /\ TwoOf(k)' = TwoOf(k)
          BY <2>1, <5>1 DEF OneOf, TwoOf, IsCallOf
        <5>3. /\ OneTasks' \cap OneOf(k)' = OneTasks \cap OneOf(k)
              /\ TwoTasks' \cap TwoOf(k)' = TwoTasks \cap TwoOf(k)
          BY <5>2
        <5>4. Out(k)' = Out(k) /\ CallsOk(k)
          BY <5>3 DEF Out, CallsInv, CallsOk
        <5>5. QED
          BY <3>1, <5>4 DEF CallsOk
      <4>3. QED
        BY <4>1, <4>2
    <3>3. QED
      BY <2>1, <3>2 DEF CallsInv, CallsOk
  <2>3. CASE InRound(t)
    <3>1. PICK j : j = t.job
      OBVIOUS
    <3>2. PICK left : left = IF awaiting[j] > 0 THEN awaiting[j] - 1 ELSE 0
      OBVIOUS
    <3>3. /\ j \in active /\ j \in Jobs /\ t.round = round[j]
          /\ awaiting' = [awaiting EXCEPT ![j] = left]
      BY <1>3, <2>3, <3>1, <3>2 DEF Settle, InRound
    <3>4. /\ awaiting[j] \in Nat /\ panics \in Nat
          /\ awaiting'[j] = left /\ \A k \in active \ {j} : awaiting'[k] = awaiting[k]
      BY <3>3, ConstantsAssumption DEF TypeOK
    <3>5. OneOf(j)' = OneOf(j) /\ TwoOf(j)' = TwoOf(j)
      BY <2>1 DEF OneOf, TwoOf, IsCallOf
    <3>6. Out(j)' = Out(j) - 1 /\ Out(j) \in Nat /\ Out(j) # 0
      <4>1. /\ IsFiniteSet(OneTasks \cap OneOf(j)) /\ IsFiniteSet(TwoTasks \cap TwoOf(j))
            /\ Cardinality(OneTasks \cap OneOf(j)) \in Nat
            /\ Cardinality(TwoTasks \cap TwoOf(j)) \in Nat
        BY <3>3, CountsTypes
      <4>2. PICK x, y : /\ x = Cardinality(OneTasks \cap OneOf(j))
                      /\ y = Cardinality(TwoTasks \cap TwoOf(j))
        OBVIOUS
      <4>3. CASE /\ t \in OneTask /\ t \in OneTasks
                 /\ OneTasks' = OneTasks \ {t} /\ TwoTasks' = TwoTasks
        <5>1. t \in OneTasks \cap OneOf(j)
          BY <3>1, <3>3, <4>3 DEF OneOf, IsCallOf
        <5>2. OneTasks' \cap OneOf(j)' = (OneTasks \cap OneOf(j)) \ {t}
          BY <3>5, <4>3
        <5>3. PICK T : T = OneTasks \cap OneOf(j)
          OBVIOUS
        <5>4. IsFiniteSet(T) /\ t \in T /\ Cardinality(T) = x
          BY <4>1, <4>2, <5>1, <5>3
        <5>5. Cardinality(T \ {t}) = x - 1 /\ x # 0
          BY <5>4, FS_RemoveElement, FS_EmptySet
        <5>6. Cardinality(OneTasks' \cap OneOf(j)') = x - 1
          BY <5>2, <5>3, <5>5
        <5>7. Cardinality(TwoTasks' \cap TwoOf(j)') = y
          BY <3>5, <4>2, <4>3
        <5>8. Out(j) = x + y /\ Out(j)' = (x + y) - 1
          BY <4>1, <4>2, <5>6, <5>7 DEF Out
        <5>9. QED
          BY <4>1, <4>2, <5>5, <5>8
      <4>4. CASE /\ t \in TwoTask /\ t \in TwoTasks
                 /\ TwoTasks' = TwoTasks \ {t} /\ OneTasks' = OneTasks
        <5>1. t \in TwoTasks \cap TwoOf(j)
          BY <3>1, <3>3, <4>4 DEF TwoOf, IsCallOf
        <5>2. TwoTasks' \cap TwoOf(j)' = (TwoTasks \cap TwoOf(j)) \ {t}
          BY <3>5, <4>4
        <5>3. PICK T : T = TwoTasks \cap TwoOf(j)
          OBVIOUS
        <5>4. IsFiniteSet(T) /\ t \in T /\ Cardinality(T) = y
          BY <4>1, <4>2, <5>1, <5>3
        <5>5. Cardinality(T \ {t}) = y - 1 /\ y # 0
          BY <5>4, FS_RemoveElement, FS_EmptySet
        <5>6. Cardinality(TwoTasks' \cap TwoOf(j)') = y - 1
          BY <5>2, <5>3, <5>5
        <5>7. Cardinality(OneTasks' \cap OneOf(j)') = x
          BY <3>5, <4>2, <4>4
        <5>8. Out(j) = x + y /\ Out(j)' = (x + y) - 1
          BY <4>1, <4>2, <5>6, <5>7 DEF Out
        <5>9. QED
          BY <4>1, <4>2, <5>5, <5>8
      <4>5. QED
        BY <4>3, <4>4
    <3>7. CallsOk(j)'
      <4>1. Out(j) <= awaiting[j] /\ awaiting[j] <= Out(j) + panics
        BY <3>3 DEF CallsInv
      <4>2. left = awaiting[j] - 1
        BY <3>2, <3>4, <3>6, <4>1
      <4>3. Out(j)' <= left /\ left <= Out(j)' + panics
        BY <3>4, <3>6, <4>1, <4>2
      <4>4. QED
        BY <3>4, <4>3 DEF CallsOk
    <3>8. \A k \in active \ {j} : CallsOk(k)'
      BY <1>1, <2>1, <3>1, <3>4, CallsKeep
    <3>9. QED
      BY <2>1, <3>7, <3>8 DEF CallsInv, CallsOk
  <2>4. QED
    BY <2>2, <2>3
<1>4. QED
  BY <1>2, <1>3

\* A round that starts waits for as many calls as it queued.
LEMMA CallsAsk ==
    ASSUME TypeOK, TypeOK', TaskPlaces, CallsInv,
           NEW j \in Jobs, NEW r \in 1..MaxRounds, NEW a \in Asks,
           NEW from, Ask(j, r, a, from),
           \/ j \in Waiting
           \/ j \in active /\ r = round[j] + 1,
           UNCHANGED <<inbox, one_out, two_out, panics>>,
           active' = active \cup {j}
    PROVE  CallsInv'
<1>1. /\ OneTasks \cap NewOne(j, r, a) = {} /\ TwoTasks \cap NewTwo(j, r, a) = {}
      /\ \A t \in OneTasks \cup TwoTasks : ~(t.job = j /\ t.round = r)
  BY AskFresh
<1>2. OneQueue \cap NewOne(j, r, a) = {} /\ TwoQueue \cap NewTwo(j, r, a) = {}
  BY <1>1 DEF OneTasks, TwoTasks
<1>3. PICK two : two = Reasonings(a)
  OBVIOUS
<1>4. /\ OneQueue' = OneQueue \cup NewOne(j, r, a)
      /\ TwoQueue' = TwoQueue \cup NewTwo(j, r, a)
      /\ awaiting' = [awaiting EXCEPT ![j] = Counted(a.questions, two)]
      /\ round' = [round EXCEPT ![j] = r]
      /\ two \in Nat /\ a.questions \in BOOLEAN
  BY <1>2, <1>3, AskQueues DEF TaskPlaces, OnePlaces, TwoPlaces
<1>5. OneBack' = OneBack /\ TwoBack' = TwoBack
  BY BackSame
<1>6. /\ OneTasks' = OneTasks \cup NewOne(j, r, a)
      /\ TwoTasks' = TwoTasks \cup NewTwo(j, r, a)
  BY <1>4, <1>5 DEF OneTasks, TwoTasks
<1>7. /\ round'[j] = r /\ awaiting'[j] = Counted(a.questions, two)
      /\ \A k \in active \ {j} : round'[k] = round[k] /\ awaiting'[k] = awaiting[k]
  BY <1>4 DEF TypeOK
<1>8. /\ \A t \in NewOne(j, r, a) : t \in OneTask /\ t.job = j /\ t.round = r
      /\ \A t \in NewTwo(j, r, a) : t.job = j /\ t.round = r
  BY DEF NewOne, NewTwo, OneTask
<1>9. \A k \in active \ {j} : CallsOk(k)'
  <2>1. \A k \in active \ {j} : CallsStay(k)
    BY <1>6, <1>8 DEF CallsStay
  <2>2. QED
    BY <1>7, <2>1, CallsKeep
<1>10. Cardinality(OneTasks' \cap OneOf(j)') = IF a.questions THEN 1 ELSE 0
  <2>1. OneTasks' \cap OneOf(j)' = NewOne(j, r, a)
    BY <1>1, <1>6, <1>7, <1>8 DEF OneOf, IsCallOf
  <2>2. Cardinality(NewOne(j, r, a)) = IF a.questions THEN 1 ELSE 0
    BY FS_Singleton, FS_EmptySet DEF NewOne
  <2>3. QED
    BY <2>1, <2>2
<1>11. Cardinality(TwoTasks' \cap TwoOf(j)') = two
  <2>1. TwoTasks' \subseteq TwoTask
    <3>1. (TwoTasks \subseteq TwoTask)'
      BY TasksType, PTL
    <3>2. QED
      BY <3>1
  <2>2. TwoTasks' \cap TwoOf(j)' = NewTwo(j, r, a)
    BY <1>1, <1>6, <1>7, <1>8, <2>1 DEF TwoOf, IsCallOf
  <2>3. Cardinality(NewTwo(j, r, a)) = two
    <3> DEFINE f == [i \in 1..two |-> [job |-> j, round |-> r, id |-> i]]
    <3>1. IsFiniteSet(1..two) /\ Cardinality(1..two) = two
      BY <1>4, FS_Interval
    <3>2. \A i \in 1..two : f[i].id = i
      OBVIOUS
    <3>3. DOMAIN f = 1..two /\ \A i, k \in 1..two : f[i] = f[k] => i = k
      BY <3>2
    <3>4. {f[i] : i \in 1..two} = NewTwo(j, r, a)
      BY <1>3 DEF NewTwo
    <3> HIDE DEF f
    <3> DEFINE I == 1..two
    <3>5. DOMAIN f = I /\ (\A i, k \in I : f[i] = f[k] => i = k) /\ IsFiniteSet(I)
      BY <3>1, <3>3
    <3> HIDE DEF I
    <3>6. Cardinality({f[i] : i \in I}) = Cardinality(I)
      BY <3>5, SameCount
    <3>7. QED
      BY <3>1, <3>4, <3>6 DEF I
  <2>4. QED
    BY <2>2, <2>3
<1>12. CallsOk(j)'
  <2>1. Out(j)' = Counted(a.questions, two)
    BY <1>10, <1>11 DEF Out, Counted
  <2>2. Counted(a.questions, two) \in Nat /\ panics' \in Nat
    BY <1>4, ConstantsAssumption DEF Counted, TypeOK
  <2>3. QED
    BY <1>7, <2>1, <2>2 DEF CallsOk
<1>13. QED
  BY <1>9, <1>12 DEF CallsInv, CallsOk

\* A call whose worker died: its signal waits for it in vain.
LEMMA CallsDie ==
    ASSUME TypeOK, TypeOK', TaskPlaces, CallsInv, NEW t \in one_out \cup two_out,
           WorkerDies(t)
    PROVE  CallsInv'
<1>1. /\ one_out' = one_out \ {t} /\ two_out' = two_out \ {t} /\ panics' = panics + 1
      /\ UNCHANGED <<inbox, one_backlog, two_backlog, active, round, awaiting>>
  BY DEF WorkerDies, signalVars, backlogs
<1>2. /\ OneBack' = OneBack /\ TwoBack' = TwoBack
      /\ OneQueue' = OneQueue /\ TwoQueue' = TwoQueue
  BY <1>1, BackSame DEF OneQueue, TwoQueue
<1>3. OneTasks \subseteq OneTask /\ TwoTasks \subseteq TwoTask
  BY TasksType
<1>4. SUFFICES ASSUME NEW k \in active
               PROVE  Out(k)' <= awaiting[k] /\ awaiting[k] <= Out(k)' + (panics + 1)
  BY <1>1 DEF CallsInv
<1>5. k \in Jobs /\ OneOf(k)' = OneOf(k) /\ TwoOf(k)' = TwoOf(k)
  BY <1>1 DEF OneOf, TwoOf, IsCallOf, TypeOK
<1>6. PICK A, B : A = OneTasks \cap OneOf(k) /\ B = TwoTasks \cap TwoOf(k)
  OBVIOUS
<1>7. /\ IsFiniteSet(A) /\ Cardinality(A) \in Nat
      /\ IsFiniteSet(B) /\ Cardinality(B) \in Nat
  BY <1>5, <1>6, CountsTypes
<1>8. /\ Cardinality(A) + Cardinality(B) <= awaiting[k]
      /\ awaiting[k] <= Cardinality(A) + Cardinality(B) + panics
      /\ awaiting[k] \in Nat /\ panics \in Nat
  <2>1. Out(k) = Cardinality(A) + Cardinality(B)
    BY <1>6 DEF Out
  <2>2. awaiting[k] \in Nat /\ panics \in Nat
    BY <1>5, ConstantsAssumption DEF TypeOK
  <2>3. Out(k) <= awaiting[k] /\ awaiting[k] <= Out(k) + panics
    BY DEF CallsInv
  <2>4. QED
    BY <2>1, <2>2, <2>3
<1>9. CASE t \in one_out
  <2>1. t \in OneTasks /\ t \notin TwoTasks
    BY <1>3, <1>9, TasksApart DEF OneTasks
  <2>2. OneTasks' = OneTasks \ {t} /\ TwoTasks' = TwoTasks
    BY <1>1, <1>2, <1>9, <2>1 DEF OneTasks, TwoTasks, TaskPlaces, OnePlaces
  <2>3. Out(k)' = Cardinality(A \ {t}) + Cardinality(B)
    <3>1. (OneTasks \cap OneOf(k))' = A \ {t} /\ (TwoTasks \cap TwoOf(k))' = B
      BY <1>5, <1>6, <2>2
    <3>2. QED
      BY <3>1 DEF Out
  <2>4. Cardinality(A \ {t}) \in {Cardinality(A), Cardinality(A) - 1}
    BY <1>7, FS_RemoveElement
  <2>5. QED
    BY <1>7, <1>8, <2>3, <2>4
<1>10. CASE t \in two_out
  <2>1. t \in TwoTasks /\ t \notin OneTasks
    BY <1>3, <1>10, TasksApart DEF TwoTasks
  <2>2. TwoTasks' = TwoTasks \ {t} /\ OneTasks' = OneTasks
    BY <1>1, <1>2, <1>10, <2>1 DEF OneTasks, TwoTasks, TaskPlaces, TwoPlaces
  <2>3. Out(k)' = Cardinality(A) + Cardinality(B \ {t})
    <3>1. (OneTasks \cap OneOf(k))' = A /\ (TwoTasks \cap TwoOf(k))' = B \ {t}
      BY <1>5, <1>6, <2>2
    <3>2. QED
      BY <3>1 DEF Out
  <2>4. Cardinality(B \ {t}) \in {Cardinality(B), Cardinality(B) - 1}
    BY <1>7, FS_RemoveElement
  <2>5. QED
    BY <1>7, <1>8, <2>3, <2>4
<1>11. QED
  BY <1>9, <1>10

\* After each step `awaiting` counts the calls out.
LEMMA CallsStep ==
    ASSUME TypeOK, TypeOK', JobPlaces, FlightInv, TaskPlaces, CallsInv, [Next]_vars
    PROVE  CallsInv'
<1> USE DEF hostVars, loopVars, signalVars, engineVars, busyVars, outVars,
            backlogs
<1>1. InboxOnce /\ OnePlaces /\ TwoPlaces
  BY DEF TaskPlaces
<1>2. UNCHANGED <<inbox, one_backlog, two_backlog, one_out, two_out>>
         => OneTasks' = OneTasks /\ TwoTasks' = TwoTasks
  BY BackSame DEF OneTasks, TwoTasks, OneQueue, TwoQueue
<1>3. ASSUME OneBack' = OneBack, TwoBack' = TwoBack,
             UNCHANGED <<one_backlog, two_backlog, one_out, two_out, panics,
                         active, round, awaiting>>
      PROVE  CallsInv'
  <2>1. OneTasks' = OneTasks /\ TwoTasks' = TwoTasks
    BY <1>3 DEF OneTasks, TwoTasks, OneQueue, TwoQueue
  <2>2. QED
    BY <1>3, <2>1, CallsSame
<1>4. CASE \/ \E j \in Jobs : IngestCount(j) \/ IngestRefuse(j) \/ GiveUp(j) \/ Pass(j)
           \/ Stopped \/ UNCHANGED vars
  BY <1>2, <1>4, CallsSame DEF IngestCount, IngestRefuse, GiveUp, Pass, Stopped, vars
<1>5. ASSUME NEW j \in Jobs, IngestSend(j) PROVE CallsInv'
  <2>1. host[j] = "counted" /\ inbox' = Append(inbox, JobEvent(j))
    BY <1>5 DEF IngestSend
  <2>2. JobEvent(j) \in Event /\ JobEvent(j).type = "job"
    BY DEF JobEvent, Event
  <2>3. JobEvent(j) \notin Elems(inbox)
    BY <2>1 DEF JobPlaces, Asked, Sent
  <2>4. OneBack' = OneBack /\ TwoBack' = TwoBack
    BY <1>1, <2>1, <2>2, <2>3, BackSends
  <2>5. QED
    BY <1>3, <1>5, <2>4 DEF IngestSend
<1>6. CASE Close
  <2>1. inbox' = Append(inbox, ClosedEvent) /\ ~closed
    BY <1>6 DEF Close
  <2>2. ClosedEvent \in Event /\ ClosedEvent.type = "closed"
    BY DEF ClosedEvent, Event
  <2>3. ClosedEvent \notin Elems(inbox)
    BY <1>1, <2>1 DEF InboxOnce
  <2>4. OneBack' = OneBack /\ TwoBack' = TwoBack
    BY <1>1, <2>1, <2>2, <2>3, BackSends
  <2>5. QED
    BY <1>3, <1>6, <2>4 DEF Close
<1>7. ASSUME NEW t \in one_out, OneReturns(t) PROVE CallsInv'
  <2>1. /\ one_out' = one_out \ {t} /\ inbox' = Append(inbox, AnswerEvent(t))
        /\ UNCHANGED <<one_backlog, two_backlog, two_out, panics, active, round, awaiting>>
    BY <1>7 DEF OneReturns
  <2>2. t \in OneTask /\ AnswerEvent(t) \in Event /\ AnswerEvent(t).type = "answers"
    BY DEF AnswerEvent, Event, TypeOK
  <2>3. AnswerEvent(t) \notin Elems(inbox)
    BY <1>1, <2>2 DEF OnePlaces, OneBack
  <2>4. OneBack' = OneBack \cup {t} /\ TwoBack' = TwoBack
    BY <1>1, <2>1, <2>2, <2>3, BackSends
  <2>5. OneTasks' = OneTasks /\ TwoTasks' = TwoTasks
    BY <2>1, <2>4 DEF OneTasks, TwoTasks, OneQueue, TwoQueue
  <2>6. QED
    BY <2>1, <2>5, CallsSame
<1>8. ASSUME NEW t \in two_out, TwoReturns(t) PROVE CallsInv'
  <2>1. /\ two_out' = two_out \ {t} /\ inbox' = Append(inbox, ReasonEvent(t))
        /\ UNCHANGED <<one_backlog, two_backlog, one_out, panics, active, round, awaiting>>
    BY <1>8 DEF TwoReturns
  <2>2. t \in TwoTask /\ ReasonEvent(t) \in Event /\ ReasonEvent(t).type = "reasoned"
    BY DEF ReasonEvent, Event, TypeOK
  <2>3. ReasonEvent(t) \notin Elems(inbox)
    BY <1>1, <2>2 DEF TwoPlaces, TwoBack
  <2>4. TwoBack' = TwoBack \cup {t} /\ OneBack' = OneBack
    BY <1>1, <2>1, <2>2, <2>3, BackSends
  <2>5. OneTasks' = OneTasks /\ TwoTasks' = TwoTasks
    BY <2>1, <2>4 DEF OneTasks, TwoTasks, OneQueue, TwoQueue
  <2>6. QED
    BY <2>1, <2>5, CallsSame
<1>9. ASSUME NEW i \in DOMAIN waiting,
             SweepWaiting(i) \/ BeginError(i) \/ BeginDone(i)
      PROVE  CallsInv'
  BY <1>2, <1>9, CallsSame DEF SweepWaiting, BeginError, BeginDone
<1>10. ASSUME NEW j \in Jobs, Abandon(j) \/ SweepLate(j) PROVE CallsInv'
  <2>1. UNCHANGED <<panics, inbox, one_backlog, two_backlog, one_out, two_out>>
        /\ (Forget(j) \/ Expire(j))
    BY <1>10 DEF Abandon, SweepLate
  <2>2. \A k \in active : CallsStay(k)
    BY <1>2, <2>1 DEF CallsStay
  <2>3. QED
    BY <2>1, <2>2, CallsForget, CallsExpire
<1>11. CASE SweepDone \/ AdmitDone \/ DispatchDone \/ Tick
  BY <1>2, <1>11, CallsSame DEF SweepDone, AdmitDone, DispatchDone, Tick, GoTo
<1>12. ASSUME NEW i \in DOMAIN one_backlog, DispatchOne(i) PROVE CallsInv'
  <2>1. PICK t : t = one_backlog[i]
    OBVIOUS
  <2>2. /\ one_backlog' = RemoveAt(one_backlog, i)
        /\ UNCHANGED <<inbox, two_backlog, two_out, panics>>
    BY <1>12 DEF DispatchOne
  <2>3. t \in OneQueue /\ OneQueue' = OneQueue \ {t}
    BY <2>1, <2>2, OneTaken
  <2>4. OneBack' = OneBack /\ TwoBack' = TwoBack
    BY <2>2, BackSame
  <2>5. TwoTasks' = TwoTasks
    BY <2>2, <2>4 DEF TwoTasks, TwoQueue
  <2>6. CASE t.job \in late \/ t.job \notin active
    <3>1. one_out' = one_out
      BY <1>12, <2>1, <2>6 DEF DispatchOne
    <3>2. OneTasks' = OneTasks \ {t}
      BY <1>1, <2>3, <2>4, <3>1 DEF OneTasks, OnePlaces
    <3>3. \A k \in active : k # t.job => CallsStay(k)
      BY <2>5, <3>2 DEF CallsStay
    <3>4. CASE t.job \in late
      <4>1. Expire(t.job)
        BY <1>12, <2>1, <3>4 DEF DispatchOne
      <4>2. QED
        BY <2>2, <3>3, <4>1, CallsExpire
    <3>5. CASE t.job \notin late /\ t.job \notin active
      <4>1. UNCHANGED <<active, round, awaiting>>
        BY <1>12, <2>1, <3>5 DEF DispatchOne
      <4>2. \A k \in active : CallsOk(k)'
        BY <2>2, <3>3, <3>5, <4>1, CallsKeep
      <4>3. QED
        BY <4>1, <4>2 DEF CallsInv, CallsOk
    <3>6. QED
      BY <2>6, <3>4, <3>5
  <2>7. CASE t.job \notin late /\ t.job \in active
    <3>1. one_out' = one_out \cup {t} /\ UNCHANGED <<active, round, awaiting>>
      BY <1>12, <2>1, <2>7 DEF DispatchOne
    <3>2. OneTasks' = OneTasks
      BY <2>3, <2>4, <3>1 DEF OneTasks
    <3>3. QED
      BY <2>2, <2>5, <3>1, <3>2, CallsSame
  <2>8. QED
    BY <2>6, <2>7
<1>13. CASE DispatchTwo
  <2>1. PICK t : t = Head(two_backlog)
    OBVIOUS
  <2>2. /\ two_backlog # <<>> /\ two_backlog' = Tail(two_backlog)
        /\ UNCHANGED <<inbox, one_backlog, one_out, panics, active, round, awaiting>>
        /\ IF t.job \in active THEN two_out' = two_out \cup {t} ELSE two_out' = two_out
    BY <1>13, <2>1 DEF DispatchTwo
  <2>3. t \in TwoQueue /\ TwoQueue' = TwoQueue \ {t}
    BY <2>1, <2>2, TwoTaken
  <2>4. OneBack' = OneBack /\ TwoBack' = TwoBack
    BY <2>2, BackSame
  <2>5. OneTasks' = OneTasks
    BY <2>2, <2>4 DEF OneTasks, OneQueue
  <2>6. CASE t.job \notin active
    <3>1. TwoTasks' = TwoTasks \ {t}
      BY <1>1, <2>2, <2>3, <2>4, <2>6 DEF TwoTasks, TwoPlaces
    <3>2. \A k \in active : CallsStay(k)
      BY <2>5, <2>6, <3>1 DEF CallsStay
    <3>3. \A k \in active : CallsOk(k)'
      BY <2>2, <3>2, CallsKeep
    <3>4. QED
      BY <2>2, <3>3 DEF CallsInv, CallsOk
  <2>7. CASE t.job \in active
    <3>1. TwoTasks' = TwoTasks
      BY <2>2, <2>3, <2>4, <2>7 DEF TwoTasks
    <3>2. QED
      BY <2>2, <2>5, <3>1, CallsSame
  <2>8. QED
    BY <2>6, <2>7
<1>14. CASE RecvJob \/ RecvClosed
  <2>1. Received /\ Head(inbox).type \notin {"answers", "reasoned"}
        /\ UNCHANGED <<one_backlog, two_backlog, one_out, two_out, panics,
                       active, round, awaiting>>
    BY <1>14 DEF RecvJob, RecvClosed
  <2>2. OneBack' = OneBack /\ TwoBack' = TwoBack
    BY <1>1, <2>1, BackReceives
  <2>3. QED
    BY <1>3, <2>1, <2>2
<1>15. CASE CollectAnswers
  <2>1. PICK t : t = Head(inbox).task
    OBVIOUS
  <2>2. /\ Received /\ Head(inbox).type = "answers" /\ Settle(t)
        /\ UNCHANGED <<one_backlog, two_backlog, one_out, two_out, panics>>
    BY <1>15, <2>1 DEF CollectAnswers
  <2>3. t \in OneBack /\ OneBack' = OneBack \ {t} /\ TwoBack' = TwoBack
    BY <1>1, <2>1, <2>2, BackReceives
  <2>4. t \in OneTask /\ t \in OneTasks /\ t.job \in Jobs
    BY <2>3 DEF OneBack, OneTasks, OneTask
  <2>5. OneTasks' = OneTasks \ {t} /\ TwoTasks' = TwoTasks
    BY <1>1, <2>2, <2>3 DEF OneTasks, TwoTasks, OneQueue, TwoQueue, OnePlaces
  <2>6. QED
    BY <2>2, <2>4, <2>5, CallsSettle
<1>16. CASE CollectReasoned
  <2>1. PICK t : t = Head(inbox).task
    OBVIOUS
  <2>2. /\ Received /\ Head(inbox).type = "reasoned" /\ Settle(t)
        /\ UNCHANGED <<one_backlog, two_backlog, one_out, two_out, panics>>
    BY <1>16, <2>1 DEF CollectReasoned
  <2>3. t \in TwoBack /\ TwoBack' = TwoBack \ {t} /\ OneBack' = OneBack
    BY <1>1, <2>1, <2>2, BackReceives
  <2>4. t \in TwoTask /\ t \in TwoTasks /\ t.job \in Jobs
    BY <2>3 DEF TwoBack, TwoTasks, TwoTask
  <2>5. TwoTasks' = TwoTasks \ {t} /\ OneTasks' = OneTasks
    BY <1>1, <2>2, <2>3 DEF OneTasks, TwoTasks, OneQueue, TwoQueue, TwoPlaces
  <2>6. QED
    BY <2>2, <2>4, <2>5, CallsSettle
<1>17. ASSUME NEW i \in DOMAIN waiting, BeginAsk(i) PROVE CallsInv'
  <2>1. PICK a \in Asks : Ask(waiting[i], 1, a, "admit")
    BY <1>17 DEF BeginAsk
  <2>2. PICK j : j = waiting[i]
    OBVIOUS
  <2>3. j \in Jobs /\ j \in Waiting
    BY <2>2, SMTT(20) DEF TypeOK, Waiting, Elems
  <2>4. 1 \in 1..MaxRounds
    BY ConstantsAssumption
  <2>5. active' = active \cup {j} /\ UNCHANGED <<inbox, one_out, two_out, panics>>
    BY <1>17, <2>2 DEF BeginAsk
  <2>6. QED
    BY <2>1, <2>2, <2>3, <2>4, <2>5, CallsAsk
<1>18. CASE AdvanceAsk
  <2>1. PICK a \in Asks : Ask(cur, round[cur] + 1, a, back)
    BY <1>18 DEF AdvanceAsk
  <2>2. PICK j, r : j = cur /\ r = round[cur] + 1
    OBVIOUS
  <2>3. /\ j \in active /\ j \in Jobs /\ r \in 1..MaxRounds /\ r = round[j] + 1
        /\ active' = active \cup {j} /\ UNCHANGED <<inbox, one_out, two_out, panics>>
    BY <1>18, <2>2, ConstantsAssumption, SMTT(20) DEF AdvanceAsk, MayAskAgain, FlightInv, TypeOK
  <2>4. QED
    BY <2>1, <2>2, <2>3, CallsAsk
<1>19. CASE AdvanceDone
  <2>1. UNCHANGED <<panics, inbox, one_backlog, two_backlog, one_out, two_out>>
        /\ Forget(cur)
    BY <1>19 DEF AdvanceDone
  <2>2. \A k \in active : CallsStay(k)
    BY <1>2, <2>1 DEF CallsStay
  <2>3. QED
    BY <2>1, <2>2, CallsForget
<1>20. CASE Thread
  BY <1>9, <1>10, <1>11, <1>12, <1>13, <1>14, <1>15, <1>16, <1>17, <1>18, <1>19, <1>20
     DEF Thread, Sweep, Admit, Dispatch, Receive, Advance
<1>21. QED
  BY <1>4, <1>5, <1>6, <1>7, <1>8, <1>20, CallsDie DEF Next, Host, Workers

\* Sets without a common member are counted apart.
LEMMA ApartCount ==
    ASSUME NEW A, NEW B, IsFiniteSet(A), IsFiniteSet(B), A \cap B = {}
    PROVE  /\ IsFiniteSet(A \cup B)
           /\ Cardinality(A \cup B) = Cardinality(A) + Cardinality(B)
           /\ Cardinality(A) \in Nat /\ Cardinality(B) \in Nat
<1>1. Cardinality(A) \in Nat /\ Cardinality(B) \in Nat
  BY FS_CardinalityType
<1>2. /\ IsFiniteSet(A \cup B)
      /\ Cardinality(A \cup B) = Cardinality(A) + Cardinality(B) - Cardinality(A \cap B)
  BY FS_Union
<1>3. Cardinality(A \cap B) = 0
  BY FS_EmptySet
<1>4. QED
  BY <1>1, <1>2, <1>3

\* The signals sent are as many as their events.
LEMMA SentCount ==
    ASSUME TypeOK, InboxOnce
    PROVE  Cardinality(InInbox("job")) = Cardinality(Sent)
<1> DEFINE I == InInbox("job")
           f == [i \in I |-> inbox[i].job]
<1>1. inbox \in Seq(Event) /\ OneToOne(inbox)
  BY DEF TypeOK, InboxOnce
<1>2. \A i \in I : /\ i \in DOMAIN inbox /\ inbox[i].job \in Jobs
                   /\ inbox[i] = JobEvent(inbox[i].job)
  BY <1>1 DEF InInbox, Event, JobEvent, ClosedEvent
<1>3. \A i, k \in I : f[i] = f[k] => i = k
  BY <1>1, <1>2 DEF OneToOne
<1>4. {f[i] : i \in I} = Sent
  <2>1. \A i \in I : f[i] \in Sent
    BY <1>2 DEF Sent, Elems
  <2>2. ASSUME NEW j \in Sent PROVE \E i \in I : f[i] = j
    <3>1. PICK i \in DOMAIN inbox : inbox[i] = JobEvent(j)
      BY DEF Sent, Elems
    <3>2. i \in I /\ f[i] = j
      BY <3>1 DEF InInbox, JobEvent
    <3>3. QED
      BY <3>2
  <2>3. QED
    BY <2>1, <2>2
<1>5. IsFiniteSet(I)
  <2>1. IsFiniteSet(1..Len(inbox)) /\ I \in SUBSET (1..Len(inbox))
    BY <1>1, FS_Interval DEF InInbox
  <2>2. QED
    BY <2>1, FS_Subset
<1>6. DOMAIN f = I
  OBVIOUS
<1> HIDE DEF f, I
<1>7. Cardinality({f[i] : i \in I}) = Cardinality(I)
  BY <1>3, <1>5, <1>6, SameCount
<1>8. QED
  BY <1>4, <1>7 DEF I

\* The results in the inbox are as many as their calls.
LEMMA BackCount ==
    ASSUME TypeOK, InboxOnce, NEW T
    PROVE  Cardinality({i \in InInbox("answers") \cup InInbox("reasoned") :
                            inbox[i].task \in T})
             = Cardinality((OneBack \cup TwoBack) \cap T)
<1> DEFINE I == {i \in InInbox("answers") \cup InInbox("reasoned") : inbox[i].task \in T}
           f == [i \in I |-> inbox[i].task]
<1>1. inbox \in Seq(Event) /\ OneToOne(inbox)
  BY DEF TypeOK, InboxOnce
<1>2. \A i \in InInbox("answers") :
         /\ i \in DOMAIN inbox /\ inbox[i].task \in OneTask
         /\ inbox[i] = AnswerEvent(inbox[i].task)
  BY <1>1 DEF InInbox, Event, AnswerEvent, ClosedEvent
<1>3. \A i \in InInbox("reasoned") :
         /\ i \in DOMAIN inbox /\ inbox[i].task \in TwoTask
         /\ inbox[i] = ReasonEvent(inbox[i].task)
  BY <1>1 DEF InInbox, Event, ReasonEvent, ClosedEvent
<1>4. \A i, k \in I : f[i] = f[k] => i = k
  BY <1>1, <1>2, <1>3, TasksApart DEF OneToOne
<1>5. {f[i] : i \in I} = (OneBack \cup TwoBack) \cap T
  <2>1. \A i \in I : f[i] \in (OneBack \cup TwoBack) \cap T
    BY <1>2, <1>3 DEF OneBack, TwoBack, Elems
  <2>2. ASSUME NEW t \in OneBack \cap T PROVE \E i \in I : f[i] = t
    <3>1. PICK i \in DOMAIN inbox : inbox[i] = AnswerEvent(t)
      BY DEF OneBack, Elems
    <3>2. i \in I /\ f[i] = t
      BY <3>1 DEF InInbox, AnswerEvent
    <3>3. QED
      BY <3>2
  <2>3. ASSUME NEW t \in TwoBack \cap T PROVE \E i \in I : f[i] = t
    <3>1. PICK i \in DOMAIN inbox : inbox[i] = ReasonEvent(t)
      BY DEF TwoBack, Elems
    <3>2. i \in I /\ f[i] = t
      BY <3>1 DEF InInbox, ReasonEvent
    <3>3. QED
      BY <3>2
  <2>4. QED
    BY <2>1, <2>2, <2>3
<1>6. IsFiniteSet(I)
  <2>1. IsFiniteSet(1..Len(inbox)) /\ I \in SUBSET (1..Len(inbox))
    BY <1>1, FS_Interval DEF InInbox
  <2>2. QED
    BY <2>1, FS_Subset
<1>7. DOMAIN f = I
  OBVIOUS
<1> HIDE DEF f, I
<1>8. Cardinality({f[i] : i \in I}) = Cardinality(I)
  BY <1>4, <1>6, <1>7, SameCount
<1>9. QED
  BY <1>5, <1>8 DEF I

\* The calls of a signal, wherever they are.
LEMMA CallsCount ==
    ASSUME TypeOK, TaskPlaces, NEW j \in Jobs
    PROVE  CallsOf(j) = Out(j)
<1> DEFINE O == OneOf(j)
           W == TwoOf(j)
<1>1. /\ one_backlog \in Seq(OneTask) /\ two_backlog \in Seq(TwoTask)
      /\ one_out \subseteq OneTask /\ two_out \subseteq TwoTask
      /\ OneBack \subseteq OneTask /\ TwoBack \subseteq TwoTask
      /\ OneToOne(one_backlog) /\ OneToOne(two_backlog) /\ InboxOnce
  BY DEF TypeOK, OneBack, TwoBack, TaskPlaces, OnePlaces, TwoPlaces
<1>2. /\ O \subseteq OneTask /\ W \subseteq TwoTask
      /\ \A t \in OneTask : t \in O <=> IsCallOf(t, j)
      /\ \A t \in TwoTask : t \in W <=> IsCallOf(t, j)
  BY DEF OneOf, TwoOf
<1> HIDE DEF O, W
<1>3. /\ IsFiniteSet(OneQueue \cap O) /\ IsFiniteSet(TwoQueue \cap W)
      /\ Cardinality({i \in DOMAIN one_backlog : IsCallOf(one_backlog[i], j)})
             = Cardinality(OneQueue \cap O)
      /\ Cardinality({i \in DOMAIN two_backlog : IsCallOf(two_backlog[i], j)})
             = Cardinality(TwoQueue \cap W)
  <2>1. /\ {i \in DOMAIN one_backlog : IsCallOf(one_backlog[i], j)}
               = {i \in DOMAIN one_backlog : one_backlog[i] \in O}
        /\ {i \in DOMAIN two_backlog : IsCallOf(two_backlog[i], j)}
               = {i \in DOMAIN two_backlog : two_backlog[i] \in W}
    BY <1>1, <1>2
  <2>2. QED
    BY <1>1, <2>1, IndexesCount DEF OneQueue, TwoQueue
<1>4. /\ IsFiniteSet(one_out \cap O) /\ IsFiniteSet(two_out \cap W)
      /\ IsFiniteSet(OneBack \cap O) /\ IsFiniteSet(TwoBack \cap W)
  BY CountsTypes, FS_Intersection
<1>5. Cardinality({t \in one_out \cup two_out : IsCallOf(t, j)})
         = Cardinality(one_out \cap O) + Cardinality(two_out \cap W)
  <2>1. {t \in one_out \cup two_out : IsCallOf(t, j)}
            = (one_out \cap O) \cup (two_out \cap W)
    BY <1>1, <1>2
  <2>2. (one_out \cap O) \cap (two_out \cap W) = {}
    BY <1>1, TasksApart
  <2>3. QED
    BY <1>4, <2>1, <2>2, ApartCount
<1>6. Cardinality({i \in InInbox("answers") \cup InInbox("reasoned") :
                       IsCallOf(inbox[i].task, j)})
         = Cardinality(OneBack \cap O) + Cardinality(TwoBack \cap W)
  <2>1. \A i \in InInbox("answers") \cup InInbox("reasoned") :
            IsCallOf(inbox[i].task, j) <=> inbox[i].task \in O \cup W
    <3>1. inbox \in Seq(Event)
      BY DEF TypeOK
    <3>2. \A i \in InInbox("answers") \cup InInbox("reasoned") :
              inbox[i].task \in OneTask \cup TwoTask
      BY <3>1 DEF InInbox, Event, ClosedEvent
    <3>3. QED
      BY <1>2, <3>2
  <2>2. {i \in InInbox("answers") \cup InInbox("reasoned") : IsCallOf(inbox[i].task, j)}
            = {i \in InInbox("answers") \cup InInbox("reasoned") : inbox[i].task \in O \cup W}
    BY <2>1
  <2>3. Cardinality({i \in InInbox("answers") \cup InInbox("reasoned") :
                         inbox[i].task \in O \cup W})
            = Cardinality((OneBack \cup TwoBack) \cap (O \cup W))
    BY <1>1, BackCount
  <2>4. /\ (OneBack \cup TwoBack) \cap (O \cup W) = (OneBack \cap O) \cup (TwoBack \cap W)
        /\ (OneBack \cap O) \cap (TwoBack \cap W) = {}
    BY <1>1, <1>2, TasksApart
  <2>5. Cardinality((OneBack \cap O) \cup (TwoBack \cap W))
            = Cardinality(OneBack \cap O) + Cardinality(TwoBack \cap W)
    BY <1>4, <2>4, ApartCount
  <2>6. QED
    BY <2>2, <2>3, <2>4, <2>5
<1>7. /\ Cardinality(OneTasks \cap O) = Cardinality(OneQueue \cap O)
             + Cardinality(one_out \cap O) + Cardinality(OneBack \cap O)
      /\ Cardinality(OneQueue \cap O) \in Nat /\ Cardinality(one_out \cap O) \in Nat
      /\ Cardinality(OneBack \cap O) \in Nat
  <2>1. PICK A, B, C : A = OneQueue \cap O /\ B = one_out \cap O /\ C = OneBack \cap O
    OBVIOUS
  <2>2. A \cap B = {} /\ (A \cup B) \cap C = {} /\ OneTasks \cap O = (A \cup B) \cup C
    BY <2>1 DEF OneTasks, TaskPlaces, OnePlaces
  <2>3. IsFiniteSet(A) /\ IsFiniteSet(B) /\ IsFiniteSet(C)
    BY <1>3, <1>4, <2>1
  <2>4. /\ IsFiniteSet(A \cup B) /\ Cardinality(A) \in Nat /\ Cardinality(B) \in Nat
        /\ Cardinality(A \cup B) = Cardinality(A) + Cardinality(B)
    BY <2>2, <2>3, ApartCount
  <2>5. Cardinality((A \cup B) \cup C) = Cardinality(A \cup B) + Cardinality(C)
        /\ Cardinality(C) \in Nat
    BY <2>2, <2>3, <2>4, ApartCount
  <2>6. QED
    BY <2>1, <2>2, <2>4, <2>5
<1>8. /\ Cardinality(TwoTasks \cap W) = Cardinality(TwoQueue \cap W)
             + Cardinality(two_out \cap W) + Cardinality(TwoBack \cap W)
      /\ Cardinality(TwoQueue \cap W) \in Nat /\ Cardinality(two_out \cap W) \in Nat
      /\ Cardinality(TwoBack \cap W) \in Nat
  <2>1. PICK A, B, C : A = TwoQueue \cap W /\ B = two_out \cap W /\ C = TwoBack \cap W
    OBVIOUS
  <2>2. A \cap B = {} /\ (A \cup B) \cap C = {} /\ TwoTasks \cap W = (A \cup B) \cup C
    BY <2>1 DEF TwoTasks, TaskPlaces, TwoPlaces
  <2>3. IsFiniteSet(A) /\ IsFiniteSet(B) /\ IsFiniteSet(C)
    BY <1>3, <1>4, <2>1
  <2>4. /\ IsFiniteSet(A \cup B) /\ Cardinality(A) \in Nat /\ Cardinality(B) \in Nat
        /\ Cardinality(A \cup B) = Cardinality(A) + Cardinality(B)
    BY <2>2, <2>3, ApartCount
  <2>5. Cardinality((A \cup B) \cup C) = Cardinality(A \cup B) + Cardinality(C)
        /\ Cardinality(C) \in Nat
    BY <2>2, <2>3, <2>4, ApartCount
  <2>6. QED
    BY <2>1, <2>2, <2>4, <2>5
<1>9. Out(j) = Cardinality(OneTasks \cap O) + Cardinality(TwoTasks \cap W)
  BY DEF Out, O, W
<1>10. CallsOf(j) = Cardinality(OneQueue \cap O) + Cardinality(TwoQueue \cap W)
          + (Cardinality(one_out \cap O) + Cardinality(two_out \cap W))
          + (Cardinality(OneBack \cap O) + Cardinality(TwoBack \cap W))
  BY <1>3, <1>5, <1>6 DEF CallsOf
<1>11. QED
  BY <1>7, <1>8, <1>9, <1>10

\* The counters count what CountsAgree says.
LEMMA CountsFollow ==
    ASSUME TypeOK, TaskPlaces, CountsInv
    PROVE  CountsAgree
<1>1. QueuedCountsCalls
  BY SentCount DEF CountsInv, QueuedInv, QueuedCountsCalls, Counting, TaskPlaces
<1>2. AwaitingCountsCalls
  <2>1. \A j \in active : j \in Jobs
    BY DEF TypeOK
  <2>2. \A j \in active : CallsOf(j) = Out(j) /\ awaiting[j] \in Nat
    BY <2>1, CallsCount DEF TypeOK
  <2>3. QED
    BY <2>2 DEF CountsInv, CallsInv, AwaitingCountsCalls
<1>3. PoolsAccount
  <2>1. /\ IsFiniteSet(one_out) /\ IsFiniteSet(two_out)
        /\ IsFiniteSet(OneBack) /\ IsFiniteSet(TwoBack)
    BY CountsTypes
  <2>2. one_out \cap OneBack = {} /\ two_out \cap TwoBack = {} /\ InboxOnce
    BY DEF TaskPlaces, OnePlaces, TwoPlaces
  <2>3. OneBack \cap TwoBack = {}
    BY TasksApart DEF OneBack, TwoBack
  <2>4. /\ Cardinality(OneHeld) = Cardinality(one_out) + Cardinality(OneBack)
        /\ Cardinality(TwoHeld) = Cardinality(two_out) + Cardinality(TwoBack)
        /\ Cardinality(OneBack \cup TwoBack) = Cardinality(OneBack) + Cardinality(TwoBack)
        /\ Cardinality(one_out) \in Nat /\ Cardinality(OneBack) \in Nat
        /\ Cardinality(two_out) \in Nat /\ Cardinality(TwoBack) \in Nat
    BY <2>1, <2>2, <2>3, ApartCount DEF OneHeld, TwoHeld
  <2>5. Cardinality(InInbox("answers") \cup InInbox("reasoned"))
            = Cardinality(OneBack \cup TwoBack)
    <3> DEFINE T == OneTask \cup TwoTask
    <3>1. inbox \in Seq(Event)
      BY DEF TypeOK
    <3>2. \A i \in InInbox("answers") \cup InInbox("reasoned") : inbox[i].task \in T
      BY <3>1 DEF InInbox, Event, ClosedEvent
    <3>3. InInbox("answers") \cup InInbox("reasoned")
              = {i \in InInbox("answers") \cup InInbox("reasoned") : inbox[i].task \in T}
      BY <3>2
    <3>4. OneBack \cup TwoBack = (OneBack \cup TwoBack) \cap T
      BY DEF OneBack, TwoBack
    <3> HIDE DEF T
    <3>5. QED
      BY <2>2, <3>3, <3>4, BackCount
  <2>6. one_busy \in Nat /\ two_busy \in Nat /\ panics \in Nat
    BY ConstantsAssumption DEF TypeOK
  <2>7. QED
    BY <2>4, <2>5, <2>6 DEF CountsInv, PoolsInv, PoolsAccount
<1>4. QED
  BY <1>1, <1>2, <1>3 DEF CountsAgree

-----------------------------------------------------------------------------
(* No worker idles, and the reserved ones are kept.                         *)

\* What QueuesMove says of the workers.
WorkersInv == ReservedForPermission /\ NoIdleWorker

\* Ordinary calls being worked on.
Ordinary == {t \in one_out : ~urgent(t)}

\* The first of some indexes of a sequence.
LEMMA FirstIndex ==
    ASSUME NEW S, NEW s \in Seq(S), NEW T \in SUBSET DOMAIN s, T # {}
    PROVE  \E i \in T : \A k \in 1..(i - 1) : k \notin T
<1>1. T \in SUBSET Nat
  OBVIOUS
<1>2. PICK i \in T : \A k \in T : i <= k
  BY <1>1, Least
<1>3. i \in Nat
  BY <1>1
<1>4. \A k \in 1..(i - 1) : k \notin T
  BY <1>2, <1>3
<1>5. QED
  BY <1>4

\* The thread dispatched all it may when it goes on to its inbox.
LEMMA DispatchedAll ==
    ASSUME TypeOK, OneDispatched, one_backlog # <<>>
    PROVE  /\ Free(OneWorkers, one_busy) <= Reserved
           /\ (\E i \in DOMAIN one_backlog : urgent(one_backlog[i]))
                => Free(OneWorkers, one_busy) = 0
<1>1. /\ one_backlog \in Seq(OneTask) /\ Reserved \in Nat
      /\ OneWorkers \in Nat /\ one_busy \in Nat
  BY ConstantsAssumption DEF TypeOK
<1>2. CASE Free(OneWorkers, one_busy) = 0
  BY <1>1, <1>2
<1>3. CASE \A i \in DOMAIN one_backlog : ~Picked(i)
  <2>1. 1 \in DOMAIN one_backlog
    BY <1>1
  <2>2. PicksUrgentOnly
    BY <1>3, <2>1 DEF Picked
  <2>3. ~ \E i \in DOMAIN one_backlog : urgent(one_backlog[i])
    <3>1. PICK T : T = {i \in DOMAIN one_backlog : urgent(one_backlog[i])}
      OBVIOUS
    <3>2. SUFFICES ASSUME T # {} PROVE FALSE
      BY <3>1
    <3>3. PICK i \in T : \A k \in 1..(i - 1) : k \notin T
      BY <1>1, <3>1, <3>2, FirstIndex
    <3>4. i \in DOMAIN one_backlog /\ urgent(one_backlog[i])
          /\ \A k \in 1..(i - 1) : k \in DOMAIN one_backlog
      BY <1>1, <3>1
    <3>5. \A k \in 1..(i - 1) : ~urgent(one_backlog[k])
      BY <3>1, <3>3, <3>4
    <3>6. QED
      BY <1>3, <2>2, <3>4, <3>5 DEF Picked
  <2>4. QED
    BY <2>2, <2>3 DEF PicksUrgentOnly
<1>4. QED
  BY <1>2, <1>3 DEF OneDispatched

\* A worker taken by an ordinary call leaves the reserved ones.
LEMMA ReservedKept ==
    ASSUME TypeOK, PoolsInv, ReservedForPermission,
           NEW i \in DOMAIN one_backlog, Picked(i), ~urgent(one_backlog[i]),
           one_out' = one_out \cup {one_backlog[i]}
    PROVE  ReservedForPermission'
<1>1. PICK t : t = one_backlog[i]
  OBVIOUS
<1>2. /\ OneWorkers \in Nat /\ Reserved \in Nat /\ one_busy \in Nat
  BY ConstantsAssumption DEF TypeOK
<1>3. ~(Free(OneWorkers, one_busy) <= Reserved)
  BY DEF Picked, PicksUrgentOnly
<1>4. one_busy < OneWorkers - Reserved
  BY <1>2, <1>3 DEF Free
<1>5. /\ IsFiniteSet(OneHeld) /\ Ordinary \in SUBSET OneHeld
      /\ Cardinality(OneHeld) \in Nat
  BY CountsTypes DEF Ordinary, OneHeld
<1>6. /\ IsFiniteSet(Ordinary) /\ Cardinality(Ordinary) <= Cardinality(OneHeld)
      /\ Cardinality(Ordinary) \in Nat
  BY <1>5, FS_Subset, FS_CardinalityType
<1>7. Ordinary' = Ordinary \cup {t}
  BY <1>1 DEF Ordinary, urgent
<1>8. Cardinality(Ordinary \cup {t}) <= Cardinality(Ordinary) + 1
  <2>1. Cardinality(Ordinary \cup {t}) =
            IF t \in Ordinary THEN Cardinality(Ordinary) ELSE Cardinality(Ordinary) + 1
    BY <1>6, FS_AddElement
  <2>2. QED
    BY <1>6, <2>1
<1>9. Cardinality(OneHeld) <= one_busy
  BY DEF PoolsInv
<1>10. Cardinality(Ordinary \cup {t}) \in Nat
  BY <1>6, FS_AddElement, FS_CardinalityType
<1>11. Cardinality(Ordinary') <= OneWorkers - Reserved
  BY <1>2, <1>4, <1>5, <1>6, <1>7, <1>8, <1>9, <1>10
<1>12. QED
  BY <1>11 DEF Ordinary, ReservedForPermission

\* Ordinary calls that only come back, and urgent ones.
LEMMA ReservedStays ==
    ASSUME TypeOK, ReservedForPermission,
           \A t \in one_out' : t \in one_out \/ urgent(t),
           one_out' \subseteq OneTask
    PROVE  ReservedForPermission'
<1>1. Ordinary' \in SUBSET Ordinary
  BY DEF Ordinary, urgent
<1>2. IsFiniteSet(Ordinary)
  BY TasksFinite, FS_Subset DEF Ordinary, TypeOK
<1>3. Cardinality(Ordinary') <= Cardinality(Ordinary) /\ Cardinality(Ordinary') \in Nat
      /\ Cardinality(Ordinary) \in Nat
  BY <1>1, <1>2, FS_Subset, FS_CardinalityType
<1>4. OneWorkers - Reserved \in Int /\ Cardinality(Ordinary) <= OneWorkers - Reserved
  BY ConstantsAssumption DEF ReservedForPermission, Ordinary
<1>5. Cardinality(Ordinary') <= OneWorkers - Reserved
  BY <1>3, <1>4
<1>6. QED
  BY <1>5 DEF ReservedForPermission, Ordinary

\* After each step the reserved workers are kept.
LEMMA ReservedStep ==
    ASSUME TypeOK, TypeOK', PoolsInv, ReservedForPermission, [Next]_vars
    PROVE  ReservedForPermission'
<1> USE DEF hostVars, loopVars, signalVars, engineVars, busyVars, outVars,
            backlogs
<1>1. ASSUME one_out' \subseteq one_out PROVE ReservedForPermission'
  BY <1>1, ReservedStays DEF TypeOK
<1>2. ASSUME NEW i \in DOMAIN one_backlog, DispatchOne(i) PROVE ReservedForPermission'
  <2>1. CASE one_out' = one_out
    BY <1>1, <2>1
  <2>2. CASE one_out' = one_out \cup {one_backlog[i]}
    <3>1. CASE urgent(one_backlog[i])
      BY <2>2, <3>1, ReservedStays DEF TypeOK
    <3>2. CASE ~urgent(one_backlog[i])
      BY <1>2, <2>2, <3>2, ReservedKept DEF DispatchOne
    <3>3. QED
      BY <3>1, <3>2
  <2>3. QED
    BY <1>2, <2>1, <2>2 DEF DispatchOne
<1>3. CASE \/ \E j \in Jobs : Host(j) \/ Pass(j)
           \/ Close \/ Workers \/ Stopped \/ UNCHANGED vars
  <2>1. one_out' \subseteq one_out
    BY <1>3 DEF Host, IngestCount, IngestRefuse, IngestSend, GiveUp, Pass, Close,
                Workers, OneReturns, TwoReturns, WorkerDies, Stopped, vars
  <2>2. QED
    BY <1>1, <2>1
<1>4. CASE Sweep \/ Admit \/ DispatchTwo \/ DispatchDone \/ Receive \/ Advance
  <2>1. one_out' = one_out
    BY <1>4 DEF Sweep, SweepWaiting, Abandon, SweepLate, SweepDone, Admit,
                BeginError, BeginDone, BeginAsk, AdmitDone, DispatchTwo,
                DispatchDone, Receive, RecvJob, RecvClosed, Tick, CollectAnswers,
                CollectReasoned, Advance, AdvanceAsk, AdvanceDone, GoTo
  <2>2. QED
    BY <1>1, <2>1
<1>5. QED
  BY <1>2, <1>3, <1>4 DEF Next, Thread, Dispatch

\* After each step no worker idles while the thread waits.
LEMMA IdleStep ==
    ASSUME TypeOK, NoIdleWorker, [Next]_vars
    PROVE  NoIdleWorker'
<1> USE DEF hostVars, loopVars, signalVars, engineVars, busyVars, outVars,
            backlogs
<1>1. ASSUME UNCHANGED <<pc, one_backlog, one_busy>> PROVE NoIdleWorker'
  BY <1>1 DEF NoIdleWorker
<1>2. ASSUME pc' # "recv" PROVE NoIdleWorker'
  BY <1>2 DEF NoIdleWorker
<1>3. CASE \/ \E j \in Jobs : Host(j) \/ Pass(j)
           \/ Close \/ Workers \/ Stopped \/ UNCHANGED vars
  <2>1. UNCHANGED <<pc, one_backlog, one_busy>>
    BY <1>3 DEF Host, IngestCount, IngestRefuse, IngestSend, GiveUp, Pass, Close,
                Workers, OneReturns, TwoReturns, WorkerDies, Stopped, vars
  <2>2. QED
    BY <1>1, <2>1
<1>4. CASE DispatchDone
  <2>1. UNCHANGED <<one_backlog, one_busy>> /\ OneDispatched
    BY <1>4 DEF DispatchDone, GoTo
  <2>2. QED
    BY <2>1, DispatchedAll DEF NoIdleWorker
<1>5. CASE Sweep
  BY <1>2, <1>5 DEF Sweep, SweepWaiting, Abandon, SweepLate, SweepDone, GoTo
<1>6. CASE Admit
  <2>1. CASE AdmitDone
    BY <1>2, <2>1 DEF AdmitDone, GoTo
  <2>2. ASSUME NEW i \in DOMAIN waiting, BeginError(i) \/ BeginDone(i)
        PROVE  NoIdleWorker'
    BY <1>2, <2>2 DEF BeginError, BeginDone
  <2>3. ASSUME NEW i \in DOMAIN waiting, BeginAsk(i) PROVE NoIdleWorker'
    BY <1>2, <2>3 DEF BeginAsk, Ask, Continue
  <2>4. QED
    BY <1>6, <2>1, <2>2, <2>3 DEF Admit
<1>7. CASE (\E i \in DOMAIN one_backlog : DispatchOne(i)) \/ DispatchTwo
  BY <1>2, <1>7 DEF DispatchOne, DispatchTwo
<1>8. ASSUME NEW t, Settle(t) PROVE pc' # "recv"
  BY <1>8 DEF Settle
<1>9. CASE Receive
  BY <1>2, <1>8, <1>9 DEF Receive, RecvJob, RecvClosed, Tick, CollectAnswers,
                          CollectReasoned, GoTo
<1>10. CASE Advance
  <2>1. back \in {"sweep", "admit"}
    BY DEF TypeOK
  <2>2. CASE AdvanceAsk
    BY <1>2, <2>1, <2>2 DEF AdvanceAsk, Ask, Continue
  <2>3. CASE AdvanceDone
    BY <1>2, <2>1, <2>3 DEF AdvanceDone
  <2>4. QED
    BY <1>10, <2>2, <2>3 DEF Advance
<1>11. QED
  BY <1>3, <1>4, <1>5, <1>6, <1>7, <1>9, <1>10 DEF Next, Thread, Dispatch

-----------------------------------------------------------------------------
(* The whole invariant, and what it gives.                                  *)

\* Each part is needed to keep another: counting needs calls in one place,
\* that needs signals in one place, and the thread to resume what is in flight.
SchedulerInv ==
    /\ JobPlaces
    /\ TaskPlaces
    /\ FlightInv
    /\ ErrorInv
    /\ CountsInv
    /\ WorkersInv

\* It holds at the start.
LEMMA InvInit == Init => SchedulerInv
<1> SUFFICES ASSUME Init PROVE SchedulerInv
  OBVIOUS
<1>1. Elems(<<>>) = {} /\ OneToOne(<<>>)
  BY DEF Elems, OneToOne
<1>2. /\ Sent = {} /\ Waiting = {} /\ active = {} /\ recorded = {}
      /\ OneQueue = {} /\ TwoQueue = {} /\ OneBack = {} /\ TwoBack = {}
      /\ one_out = {} /\ two_out = {}
  BY <1>1 DEF Init, Sent, Waiting, OneQueue, TwoQueue, OneBack, TwoBack
<1>3. JobPlaces
  BY <1>1, <1>2 DEF Init, JobPlaces
<1>4. TaskPlaces
  BY <1>1, <1>2 DEF Init, TaskPlaces, InboxOnce, OnePlaces, TwoPlaces, OneTasks, TwoTasks
<1>5. FlightInv /\ ErrorInv
  BY <1>2 DEF Init, FlightInv, InFlightAwaits, ErrorInv
<1>6. QueuedInv
  <2>1. Counting = {}
    BY DEF Init, Counting
  <2>2. QED
    BY <1>2, <2>1, FS_EmptySet DEF Init, QueuedInv
<1>7. PoolsInv
  <2>1. OneHeld = {} /\ TwoHeld = {}
    BY <1>2 DEF OneHeld, TwoHeld
  <2>2. QED
    BY <2>1, FS_EmptySet, ConstantsAssumption DEF Init, PoolsInv
<1>8. CallsInv
  BY <1>2 DEF CallsInv
<1>9. WorkersInv
  <2>1. {t \in one_out : ~urgent(t)} = {}
    BY <1>2
  <2>2. QED
    BY <2>1, FS_EmptySet, ConstantsAssumption
       DEF Init, WorkersInv, ReservedForPermission, NoIdleWorker
<1>10. QED
  BY <1>3, <1>4, <1>5, <1>6, <1>7, <1>8, <1>9 DEF SchedulerInv, CountsInv

\* And after each step.
LEMMA InvStep ==
    ASSUME TypeOK, TypeOK', EngineAgrees, SchedulerInv, [Next]_vars
    PROVE  SchedulerInv'
<1>1. /\ JobPlaces /\ TaskPlaces /\ InboxOnce /\ FlightInv /\ ErrorInv
      /\ QueuedInv /\ PoolsInv /\ CallsInv /\ ReservedForPermission /\ NoIdleWorker
  BY DEF SchedulerInv, TaskPlaces, CountsInv, WorkersInv
<1>2. JobPlaces' /\ BegunStays
  BY <1>1, PlacesStep
<1>3. TaskPlaces'
  BY <1>1, <1>2, TasksStep
<1>4. FlightInv' /\ ErrorInv'
  BY <1>1, FlightStep, ErrorStep
<1>5. CountsInv'
  BY <1>1, QueuedStep, PoolsStep, CallsStep DEF CountsInv
<1>6. WorkersInv'
  BY <1>1, ReservedStep, IdleStep DEF WorkersInv
<1>7. QED
  BY <1>2, <1>3, <1>4, <1>5, <1>6 DEF SchedulerInv

\* Where signals and calls are, what is in flight and what the counters count
\* stay consistent, in every behaviour.
THEOREM Consistent == Spec => []SchedulerInv
<1>1. TypeOK /\ TypeOK' /\ EngineAgrees /\ SchedulerInv /\ [Next]_vars => SchedulerInv'
  BY InvStep
<1>2. QED
  BY <1>1, InvInit, TypeCorrect, RunsAreInFlight, PTL DEF Spec

\* `queued` counts exactly the calls the scheduler has not received, no signal's
\* round ends early or waits for a call that is back, and a pool's busy count
\* is its calls out, results not collected and dead threads, whatever hosts,
\* thread and workers do in between.
THEOREM CountersCount == Spec => []CountsAgree
<1>1. TypeOK /\ SchedulerInv => CountsAgree
  BY CountsFollow DEF SchedulerInv
<1>2. QED
  BY <1>1, Consistent, TypeCorrect, PTL

\* A signal in flight always waits for something, ordinary calls never take
\* the workers reserved for permission requests, and the thread never blocks
\* on its inbox while a call could be handed to a free worker.
THEOREM QueuesKeepMoving == Spec => []QueuesMove
<1>1. SchedulerInv => QueuesMove
  BY DEF SchedulerInv, FlightInv, WorkersInv, QueuesMove
<1>2. QED
  BY <1>1, Consistent, PTL

\* A model error whose host stopped waiting, whether it waited, was in flight
\* or was just settled, leaves nothing in the engine's memory.
THEOREM GivenUpErrorsForgotten == Spec => []AbandonedErrorUndone
<1>1. SchedulerInv => AbandonedErrorUndone
  BY DEF SchedulerInv, ErrorInv, AbandonedErrorUndone, is_closed
<1>2. QED
  BY <1>1, Consistent, PTL

\* Threads, queues, workers and deadlines implement what Ingest promises: every
\* step is one of Ingest's, or changes nothing Ingest sees.
THEOREM SchedulerImplementsIngest == Spec => ImplementsIngest
<1>1. Init => Promise!Init
  BY InitMaps
<1>2. TypeOK /\ EngineAgrees /\ SchedulerInv /\ [Next]_vars
         => [Promise!Next]_(Promise!vars)
  BY StepMaps DEF SchedulerInv
<1>3. QED
  BY <1>1, <1>2, Consistent, TypeCorrect, RunsAreInFlight, PTL
     DEF Spec, ImplementsIngest, Promise!Spec
===============================================================================
