------------------------------ MODULE Scheduler ------------------------------
(***************************************************************************)
(* The daemon's scheduler (crates/daemon/src/scheduler.rs, workers.rs).    *)
(*                                                                         *)
(* Hosts call EngineHandle::ingest from many tasks.  One thread, the       *)
(* scheduler, owns the engine: it loops over sweep, admit, dispatch and    *)
(* one event of its inbox.  Every judge call runs on a worker thread and   *)
(* comes back through the same inbox.                                      *)
(*                                                                         *)
(* A signal is identified with its job and with its engine run: a job is   *)
(* started at most once, and the engine numbers runs without reuse.  What  *)
(* the engine asks is chosen nondeterministically (module Engine says what *)
(* it may ask); time is the set `late` of jobs past their deadline, which  *)
(* only grows.  A job's reply channel is closed once its host is "gone".   *)
(***************************************************************************)
EXTENDS Integers, Sequences, FiniteSets, SequencesExt

CONSTANTS
    Jobs,           \* the signals hosts send
    Agents,         \* the agents they are about
    AgentOf,        \* [Jobs -> Agents]
    KindOf,         \* [Jobs -> Kinds]
    QueueDepth,     \* QUEUE_DEPTH
    MaxActive,      \* MAX_ACTIVE
    OneWorkers,     \* ONE_WORKERS
    Reserved,       \* RESERVED_FOR_PERMISSION
    TwoWorkers,     \* TWO_WORKERS; 0 when no System Two is configured
    MaxRounds,      \* engine MAX_ROUNDS
    MaxRuns,        \* engine MAX_RUNS
    MaxReasonings,  \* bound: reasonings one round asks
    MaxPanics,      \* bound: worker threads that die
    NoJob           \* `cur` outside `advance`

Kinds == {"permission", "model_error", "other"}

ASSUME ConstantsAssumption ==
    /\ AgentOf \in [Jobs -> Agents]
    /\ KindOf \in [Jobs -> Kinds]
    /\ IsFiniteSet(Jobs)
    /\ QueueDepth \in Nat /\ MaxActive \in Nat \ {0}
    /\ OneWorkers \in Nat /\ Reserved \in 0..OneWorkers
    /\ TwoWorkers \in Nat /\ MaxRounds \in Nat \ {0}
    /\ MaxRuns \in Nat /\ MaxActive <= MaxRuns
    /\ MaxReasonings \in Nat /\ MaxPanics \in Nat

ASSUME NoJobAssumption == NoJob \notin Jobs

\* Option<T>, as a set of at most one value.
None == {}
Some(v) == {v}

VARIABLES
    \* The hosts' side: one task of the HTTP server per signal.
    host,         \* where each job's ingest call is
    reply,        \* what was sent on its reply channel
    queued,       \* the atomic counter `queued`
    late,         \* jobs the scheduler holds, past job.expires(deadline)
    closed,       \* every EngineHandle was dropped
    \* The scheduler thread.
    pc,           \* the part of the loop it is in
    cur,          \* the run `advance` resumes, when pc = "advance"
    back,         \* where `advance` returns to
    inbox,        \* the mpsc channel of Events
    waiting,      \* signals not yet started, in arrival order
    active,       \* the keys of `active`
    round,        \* Active.round
    awaiting,     \* Active.awaiting
    before,       \* Active.before: the memory saved for a lone signal
    one_backlog, two_backlog,
    \* The engine, as far as the scheduler's calls decide it.
    runs,         \* Engine.runs: signals between rounds
    recorded,     \* signals its memory holds
    \* The worker pools.
    one_busy, two_busy,   \* Pool.busy
    one_out, two_out,     \* tasks worker threads are running
    panics                \* worker threads that died

hostVars   == <<host, reply, queued, late, closed>>
loopVars   == <<pc, cur, back>>
signalVars == <<waiting, active, round, awaiting, before>>
engineVars == <<runs, recorded>>
busyVars   == <<one_busy, two_busy>>
outVars    == <<one_out, two_out, panics>>
backlogs   == <<one_backlog, two_backlog>>
vars == <<hostVars, loopVars, inbox, signalVars, backlogs, engineVars,
          busyVars, outVars>>

-----------------------------------------------------------------------------
(* Events, tasks and small questions about them.                            *)

HostStates == {"new", "counted", "refusing", "asking",
               "refused", "answered", "gone"}
Replies == {"none", "effects", "error"}
Phases == {"sweep", "admit", "dispatch", "recv", "advance", "stopped"}

OneTask == [job : Jobs, round : 1..MaxRounds]
TwoTask == [job : Jobs, round : 1..MaxRounds, id : 1..MaxReasonings]

JobEvent(j)    == [type |-> "job", job |-> j]
AnswerEvent(t) == [type |-> "answers", task |-> t]
ReasonEvent(t) == [type |-> "reasoned", task |-> t]
ClosedEvent    == [type |-> "closed"]

Event == [type : {"job"}, job : Jobs]
         \cup [type : {"answers"}, task : OneTask]
         \cup [type : {"reasoned"}, task : TwoTask]
         \cup {ClosedEvent}

is_permission(j) == KindOf[j] = "permission"
runs_alone(j) == KindOf[j] = "model_error"

urgent(t) == is_permission(t.job)

\* The host stopped waiting: its end of the reply channel was dropped.
is_closed(j) == host[j] = "gone"

\* A host still holds its future, and with it an EngineHandle.
InCall(j) == host[j] \in {"counted", "refusing", "asking"}

Init ==
    /\ host = [j \in Jobs |-> "new"]
    /\ reply = [j \in Jobs |-> "none"]
    /\ queued = 0 /\ late = {} /\ closed = FALSE
    /\ pc = "sweep" /\ cur = NoJob /\ back = "sweep"
    /\ inbox = <<>> /\ waiting = <<>> /\ active = {}
    /\ round = [j \in Jobs |-> 0]
    /\ awaiting = [j \in Jobs |-> 0]
    /\ before = [j \in Jobs |-> None]
    /\ one_backlog = <<>> /\ two_backlog = <<>>
    /\ runs = {} /\ recorded = {}
    /\ one_busy = 0 /\ two_busy = 0
    /\ one_out = {} /\ two_out = {} /\ panics = 0

-----------------------------------------------------------------------------
(* The hosts: ingest_with_deadline.                                         *)

\* queued.fetch_add, and the comparison with the value it returned.
IngestCount(j) ==
    /\ host[j] = "new" /\ ~closed
    /\ queued' = queued + 1
    /\ host' = [host EXCEPT ![j] =
                    IF queued >= QueueDepth THEN "refusing" ELSE "counted"]
    /\ UNCHANGED <<reply, late, closed, loopVars, inbox, signalVars, backlogs,
                   engineVars, busyVars, outVars>>

\* "engine unavailable: queue full".
IngestRefuse(j) ==
    /\ host[j] = "refusing"
    /\ queued' = queued - 1
    /\ host' = [host EXCEPT ![j] = "refused"]
    /\ UNCHANGED <<reply, late, closed, loopVars, inbox, signalVars, backlogs,
                   engineVars, busyVars, outVars>>

\* events.send(Event::Job(job)); the host then waits for the reply.
IngestSend(j) ==
    /\ host[j] = "counted"
    /\ host' = [host EXCEPT ![j] = "asking"]
    /\ inbox' = Append(inbox, JobEvent(j))
    /\ UNCHANGED <<reply, queued, late, closed, loopVars, signalVars, backlogs,
                   engineVars, busyVars, outVars>>

\* Faulty variant: a host that gives up takes its signal off the count, as
\* the scheduler does too.
GiveUpUncounting(j) ==
    /\ host[j] = "asking"
    /\ host' = [host EXCEPT ![j] = "gone"]
    /\ queued' = queued - 1
    /\ UNCHANGED <<reply, late, closed, loopVars, inbox, signalVars,
                   backlogs, engineVars, busyVars, outVars>>

\* REPLY_TIMEOUT, or the host dropped its request: the future is dropped.
GiveUp(j) ==
    /\ host[j] = "asking"
    /\ host' = [host EXCEPT ![j] = "gone"]
    /\ UNCHANGED <<reply, queued, late, closed, loopVars, inbox, signalVars,
                   backlogs, engineVars, busyVars, outVars>>

\* The scheduler holds the job: in its inbox, waiting or in flight.
Held(j) ==
    \/ \E i \in DOMAIN inbox : inbox[i] = JobEvent(j)
    \/ \E i \in DOMAIN waiting : waiting[i] = j
    \/ j \in active

\* Job::expires passes.
Pass(j) ==
    /\ Held(j) /\ j \notin late
    /\ late' = late \cup {j}
    /\ UNCHANGED <<host, reply, queued, closed, loopVars, inbox, signalVars,
                   backlogs, engineVars, busyVars, outVars>>

\* The last handle is dropped: Inner::drop sends Event::Closed.
Close ==
    /\ ~closed
    /\ \A j \in Jobs : ~InCall(j)   \* each holds a handle
    /\ closed' = TRUE
    /\ inbox' = Append(inbox, ClosedEvent)
    /\ UNCHANGED <<host, reply, queued, late, loopVars, signalVars, backlogs,
                   engineVars, busyVars, outVars>>

-----------------------------------------------------------------------------
(* What several parts of the loop share: complete, ask, expire.             *)

\* Faulty variant: nothing is put back.
UndoNothing(saved, memory) == memory

\* Engine memory is put back when the host of a lone signal is gone.
Undo(saved, memory) ==
    IF saved = None THEN memory ELSE CHOOSE m \in saved : TRUE

\* `complete`: reply, unless the host stopped waiting.  `memory` is what the
\* engine's memory holds after this step's engine call.
Complete(j, result, saved, memory) ==
  /\ late' = late \ {j}
  /\ IF is_closed(j)
     THEN /\ recorded' = Undo(saved, memory)
          /\ UNCHANGED <<host, reply>>
     ELSE /\ reply' = [reply EXCEPT ![j] = result]
          /\ host' = [host EXCEPT ![j] = "answered"]
          /\ recorded' = memory

\* active.remove(&run)
Forget(j) ==
    /\ active' = active \ {j}
    /\ round' = [round EXCEPT ![j] = 0]
    /\ awaiting' = [awaiting EXCEPT ![j] = 0]
    /\ before' = [before EXCEPT ![j] = None]

\* Where `ask` puts a System One task: a permission request's before the
\* first that is not one, any other last.
InsertPlace(j, p) ==
    IF is_permission(j)
    THEN /\ \A i \in 1..(p - 1) : urgent(one_backlog[i])
         /\ p <= Len(one_backlog) => ~urgent(one_backlog[p])
    ELSE p = Len(one_backlog) + 1

\* The calls of a round: one of System One, one per reasoning.
Counted(q, two) == (IF q THEN 1 ELSE 0) + two

\* A round with no call is resumed inline; the loop goes on at `from`.
Continue(j, calls, from) ==
    IF calls = 0
    THEN pc' = "advance" /\ cur' = j /\ back' = from
    ELSE pc' = from /\ cur' = NoJob /\ back' = "sweep"

\* `ask`: queue round r's calls, a System One task when the engine asks the
\* host questions, and a System Two task for each reasoning.
\* Without System Two they are unavailable at once.
Ask(j, r, a, from) ==
    LET two == IF TwoWorkers = 0 THEN 0 ELSE a.reasonings
        calls == Counted(a.questions, two)
    IN  /\ round' = [round EXCEPT ![j] = r]
        /\ awaiting' = [awaiting EXCEPT ![j] = calls]
        /\ IF a.questions
           THEN \E p \in 1..(Len(one_backlog) + 1) :
                    /\ InsertPlace(j, p)
                    /\ one_backlog' = InsertAt(one_backlog, p,
                                              [job |-> j, round |-> r])
           ELSE one_backlog' = one_backlog
        /\ two_backlog' = two_backlog \o
               [i \in 1..two |-> [job |-> j, round |-> r, id |-> i]]
        /\ Continue(j, calls, from)

\* What a round may ask: something.
Asks == {a \in [questions : BOOLEAN, reasonings : 0..MaxReasonings] :
            a.questions \/ a.reasonings > 0}

\* `expire`: resume with what came back until the engine settles, which it
\* does within MAX_ROUNDS failing rounds, and reply.
Expire(j) ==
    IF j \in active
    THEN /\ Complete(j, IF j \in runs THEN "effects" ELSE "error",
                     before[j], recorded)
         /\ runs' = runs \ {j}
         /\ Forget(j)
    ELSE UNCHANGED <<host, reply, late, active, round, awaiting, before,
                     engineVars>>

-----------------------------------------------------------------------------
(* The loop's first part: sweep.  It looks at one job per step, since hosts *)
(* give up and deadlines pass while it runs.  A host seen gone only when    *)
(* its signal's deadline is checked is one that gave up between the two     *)
(* checks, so Abandon and SweepLate may both apply to a signal.             *)

\* A step of the thread from one part of the loop to the next.
GoTo(from, to) ==
    /\ pc = from
    /\ pc' = to
    /\ UNCHANGED <<hostVars, cur, back, inbox, signalVars, backlogs,
                   busyVars, outVars>>

Sweepable(i) == is_closed(waiting[i]) \/ waiting[i] \in late

SweepWaiting(i) ==
    /\ pc = "sweep" /\ Sweepable(i)
    /\ LET j == waiting[i]
       IN  /\ IF is_closed(j)
              THEN UNCHANGED <<host, reply>>
              ELSE /\ reply' = [reply EXCEPT ![j] = "error"]
                   /\ host' = [host EXCEPT ![j] = "answered"]
           /\ late' = late \ {j}
    /\ waiting' = RemoveAt(waiting, i)
    /\ UNCHANGED <<queued, closed, loopVars, inbox, active, round,
                   awaiting, before, backlogs, engineVars, busyVars, outVars>>

WaitingSwept == \A i \in DOMAIN waiting : ~Sweepable(i)

\* `abandon`: the host stopped waiting, so no capability acts.
Abandon(j) ==
    /\ pc = "sweep" /\ WaitingSwept
    /\ j \in active /\ is_closed(j)
    /\ runs' = runs \ {j}
    /\ recorded' = Undo(before[j], recorded)
    /\ late' = late \ {j}
    /\ Forget(j)
    /\ UNCHANGED <<host, reply, queued, closed, loopVars, inbox, waiting,
                   backlogs, busyVars, outVars>>

SweepLate(j) ==
    /\ pc = "sweep" /\ WaitingSwept
    /\ j \in active \cap late
    /\ Expire(j)
    /\ UNCHANGED <<queued, closed, loopVars, inbox, waiting, backlogs,
                   busyVars, outVars>>

\* Faulty variant: a reload while signals are in flight.
MayReloadAnytime == waiting # <<>>

\* admit reloads config and skills only between signals: the rebuilt engine
\* has the memory of the old one but none of its runs.
MayReload == waiting # <<>> /\ active = {}

\* Nothing is left to sweep: engine.current(), then the loop of admit.
SweepDone ==
    /\ WaitingSwept
    /\ \A j \in active : ~is_closed(j) /\ j \notin late
    /\ GoTo("sweep", "admit")
    /\ runs' = runs \/ (MayReload /\ runs' = {})
    /\ UNCHANGED recorded

Sweep ==
    \/ \E i \in DOMAIN waiting : SweepWaiting(i)
    \/ \E j \in Jobs : Abandon(j) \/ SweepLate(j)
    \/ SweepDone

-----------------------------------------------------------------------------
(* admit: start waiting signals while there is room.                        *)

\* Faulty variant: an agent's signal in flight is overlooked.
EligibleBusy(i) ==
    \A e \in 1..(i - 1) : AgentOf[waiting[e]] # AgentOf[waiting[i]]

\* Faulty variant: an agent's earlier signal still waiting is overlooked.
EligibleOvertaking(i) ==
    \A k \in active : AgentOf[k] # AgentOf[waiting[i]]

\* No signal of its agent in flight or waiting ahead of it.
Eligible(i) ==
    LET agent == AgentOf[waiting[i]]
    IN  /\ \A k \in active : AgentOf[k] # agent
        /\ \A e \in 1..(i - 1) : AgentOf[waiting[e]] # agent

\* `next`: the first eligible permission request, else the first eligible.
IsNext(i) ==
    /\ Eligible(i)
    /\ IF \E k \in DOMAIN waiting : Eligible(k) /\ is_permission(waiting[k])
       THEN /\ is_permission(waiting[i])
            /\ \A k \in 1..(i - 1) :
                   ~(Eligible(k) /\ is_permission(waiting[k]))
       ELSE \A k \in 1..(i - 1) : ~Eligible(k)

\* A lone signal is in flight.
AloneInFlight == \E k \in active : before[k] # None

\* Faulty variant: a lone signal in flight does not hold up the others.
AdmissibleBeside(i) ==
    /\ Cardinality(active) < MaxActive
    /\ IsNext(i)
    /\ runs_alone(waiting[i]) => active = {}

\* The loop of `admit` starts waiting[i] next.
Admissible(i) ==
    /\ Cardinality(active) < MaxActive
    /\ ~AloneInFlight
    /\ IsNext(i)
    /\ runs_alone(waiting[i]) => active = {}

\* engine.start refuses: agent busy, or MAX_RUNS runs between rounds.
EngineRefuses(j) ==
    \/ \E k \in runs : AgentOf[k] = AgentOf[j]
    \/ Cardinality(runs) >= MaxRuns

SavedFor(j) == IF runs_alone(j) THEN Some(recorded) ELSE None

\* engine.start fails: the signal is invalid, or the engine refuses.
BeginError(i) ==
    /\ pc = "admit" /\ Admissible(i)
    /\ Complete(waiting[i], "error", None, recorded)
    /\ waiting' = RemoveAt(waiting, i)
    /\ UNCHANGED <<queued, closed, loopVars, inbox, active, round,
                   awaiting, before, backlogs, runs, busyVars, outVars>>

\* engine.start settles the signal at once.
BeginDone(i) ==
    LET j == waiting[i]
    IN  /\ pc = "admit" /\ Admissible(i) /\ ~EngineRefuses(j)
        /\ Complete(j, "effects", SavedFor(j), recorded \cup {j})
        /\ waiting' = RemoveAt(waiting, i)
        /\ UNCHANGED <<queued, closed, loopVars, inbox, active, round,
                       awaiting, before, backlogs, runs, busyVars, outVars>>

\* engine.start asks: the signal is in flight, in its first round.
BeginAsk(i) ==
    LET j == waiting[i]
    IN  /\ pc = "admit" /\ Admissible(i) /\ ~EngineRefuses(j)
        /\ active' = active \cup {j}
        /\ before' = [before EXCEPT ![j] = SavedFor(j)]
        /\ runs' = runs \cup {j}
        /\ recorded' = recorded \cup {j}
        /\ waiting' = RemoveAt(waiting, i)
        /\ \E a \in Asks : Ask(j, 1, a, "admit")
        /\ UNCHANGED <<hostVars, inbox, busyVars, outVars>>

\* No room, nothing eligible, or the next signal must wait to run alone.
AdmitDone ==
    /\ \A i \in DOMAIN waiting : ~Admissible(i)
    /\ GoTo("admit", "dispatch") /\ UNCHANGED engineVars

Admit ==
    \/ \E i \in DOMAIN waiting : BeginError(i) \/ BeginDone(i) \/ BeginAsk(i)
    \/ AdmitDone

-----------------------------------------------------------------------------
(* dispatch: hand queued calls to free workers.                             *)

Free(size, busy) == IF busy < size THEN size - busy ELSE 0

\* Faulty variant: off by one.
PicksUrgentOnlyLate == Free(OneWorkers, one_busy) < Reserved

\* The last free System One worker serves only permission requests.
PicksUrgentOnly == Free(OneWorkers, one_busy) <= Reserved

\* The task dispatch takes: the first urgent one, or simply the first.
Picked(i) ==
    IF PicksUrgentOnly
    THEN /\ urgent(one_backlog[i])
         /\ \A k \in 1..(i - 1) : ~urgent(one_backlog[k])
    ELSE i = 1

\* A task of a signal past its deadline settles the signal instead; a task
\* of a signal already settled or abandoned is skipped.
DispatchOne(i) ==
    LET t == one_backlog[i]
    IN  /\ pc = "dispatch"
        /\ Free(OneWorkers, one_busy) > 0 /\ Picked(i)
        /\ one_backlog' = RemoveAt(one_backlog, i)
        /\ IF t.job \in late
           THEN Expire(t.job) /\ UNCHANGED <<one_out, one_busy>>
           ELSE /\ IF t.job \in active
                   THEN /\ one_out' = one_out \cup {t}
                        /\ one_busy' = one_busy + 1
                   ELSE UNCHANGED <<one_out, one_busy>>
                /\ UNCHANGED <<host, reply, late, active, round, awaiting,
                               before, engineVars>>
        /\ UNCHANGED <<queued, closed, loopVars, inbox, waiting,
                       two_backlog, two_busy, two_out, panics>>

OneDispatched ==
    \/ Free(OneWorkers, one_busy) = 0
    \/ \A i \in DOMAIN one_backlog : ~Picked(i)

DispatchTwo ==
    LET t == Head(two_backlog)
    IN  /\ pc = "dispatch" /\ OneDispatched
        /\ Free(TwoWorkers, two_busy) > 0 /\ two_backlog # <<>>
        /\ two_backlog' = Tail(two_backlog)
        /\ IF t.job \in active
           THEN two_out' = two_out \cup {t} /\ two_busy' = two_busy + 1
           ELSE UNCHANGED <<two_out, two_busy>>
        /\ UNCHANGED <<hostVars, loopVars, inbox, signalVars, one_backlog,
                       engineVars, one_busy, one_out, panics>>

DispatchDone ==
    /\ OneDispatched
    /\ Free(TwoWorkers, two_busy) = 0 \/ two_backlog = <<>>
    /\ GoTo("dispatch", "recv") /\ UNCHANGED engineVars

Dispatch ==
    \/ \E i \in DOMAIN one_backlog : DispatchOne(i)
    \/ DispatchTwo
    \/ DispatchDone

-----------------------------------------------------------------------------
(* One event of the inbox, and what it leads to.                            *)

Received == pc = "recv" /\ inbox # <<>> /\ inbox' = Tail(inbox)

\* Event::Job
RecvJob ==
    /\ Received /\ Head(inbox).type = "job"
    /\ queued' = queued - 1
    /\ waiting' = Append(waiting, Head(inbox).job)
    /\ pc' = "sweep"
    /\ UNCHANGED <<host, reply, late, closed, cur, back, active, round,
                   awaiting, before, backlogs, engineVars, busyVars, outVars>>

\* Event::Closed: `run` returns.
RecvClosed ==
    /\ Received /\ Head(inbox).type = "closed"
    /\ pc' = "stopped"
    /\ UNCHANGED <<hostVars, cur, back, signalVars, backlogs, engineVars,
                   busyVars, outVars>>

\* Faulty variant: a scheduler with nothing waiting blocks on its inbox.
TickWaiting ==
    /\ inbox = <<>>
    /\ waiting # <<>>
    /\ GoTo("recv", "sweep") /\ UNCHANGED engineVars

\* recv_timeout(TICK), which only a busy scheduler calls.
Tick ==
    /\ inbox = <<>>
    /\ active # {} \/ waiting # <<>>
    /\ GoTo("recv", "sweep") /\ UNCHANGED engineVars

Finished(busy) == IF busy > 0 THEN busy - 1 ELSE 0

\* The result belongs to the round its signal is in.
InRound(t) == t.job \in active /\ round[t.job] = t.round

\* What `collect` does with the result of task t once its worker is free.
Settle(t) ==
    LET j == t.job
        left == IF awaiting[j] > 0 THEN awaiting[j] - 1 ELSE 0
    IN  IF j \in active \cap late
        THEN Expire(j) /\ pc' = "sweep" /\ UNCHANGED <<cur, back>>
        ELSE /\ IF InRound(t)
                THEN /\ awaiting' = [awaiting EXCEPT ![j] = left]
                     /\ IF left = 0
                        THEN pc' = "advance" /\ cur' = j /\ back' = "sweep"
                        ELSE pc' = "sweep" /\ UNCHANGED <<cur, back>>
                ELSE pc' = "sweep" /\ UNCHANGED <<awaiting, cur, back>>
             /\ UNCHANGED <<host, reply, late, active, round, before,
                            engineVars>>

\* Event::Done, `collect`.  (Event::Started only keeps metadata for the
\* audit log, and is left out.)
CollectAnswers ==
    /\ Received /\ Head(inbox).type = "answers"
    /\ one_busy' = Finished(one_busy)
    /\ Settle(Head(inbox).task)
    /\ UNCHANGED <<queued, closed, waiting, backlogs, two_busy, outVars>>

CollectReasoned ==
    /\ Received /\ Head(inbox).type = "reasoned"
    /\ two_busy' = Finished(two_busy)
    /\ Settle(Head(inbox).task)
    /\ UNCHANGED <<queued, closed, waiting, backlogs, one_busy, outVars>>

\* The engine asks again only below MAX_ROUNDS.
MayAskAgain == cur \in runs /\ round[cur] < MaxRounds

\* `advance`: the engine asks another round.
AdvanceAsk ==
    /\ pc = "advance" /\ MayAskAgain
    /\ \E a \in Asks : Ask(cur, round[cur] + 1, a, back)
    /\ UNCHANGED <<hostVars, inbox, waiting, active, before, engineVars,
                   busyVars, outVars>>

\* `advance`: the engine settles the signal, or does not know it.
AdvanceDone ==
    /\ pc = "advance"
    /\ IF cur \in runs
       THEN Complete(cur, "effects", before[cur], recorded)
       ELSE Complete(cur, "error", None, recorded)
    /\ runs' = runs \ {cur}
    /\ Forget(cur)
    /\ pc' = back /\ cur' = NoJob /\ back' = "sweep"
    /\ UNCHANGED <<queued, closed, inbox, waiting, backlogs, busyVars,
                   outVars>>

Receive == RecvJob \/ RecvClosed \/ Tick \/ CollectAnswers \/ CollectReasoned
Advance == AdvanceAsk \/ AdvanceDone

-----------------------------------------------------------------------------
(* The workers: workers.rs, and the calls `ask` and `reason`.               *)

\* A worker sends what its work returned, an error included.
OneReturns(t) ==
    /\ t \in one_out
    /\ one_out' = one_out \ {t}
    /\ inbox' = Append(inbox, AnswerEvent(t))
    /\ UNCHANGED <<hostVars, loopVars, signalVars, backlogs, engineVars,
                   busyVars, two_out, panics>>

TwoReturns(t) ==
    /\ t \in two_out
    /\ two_out' = two_out \ {t}
    /\ inbox' = Append(inbox, ReasonEvent(t))
    /\ UNCHANGED <<hostVars, loopVars, signalVars, backlogs, engineVars,
                   busyVars, one_out, panics>>

\* The work panics: the thread is gone, and the pool still counts it busy.
WorkerDies(t) ==
    /\ t \in one_out \cup two_out
    /\ panics < MaxPanics
    /\ panics' = panics + 1
    /\ one_out' = one_out \ {t}
    /\ two_out' = two_out \ {t}
    /\ UNCHANGED <<hostVars, loopVars, inbox, signalVars, backlogs, engineVars,
                   busyVars>>

-----------------------------------------------------------------------------

Host(j) == IngestCount(j) \/ IngestRefuse(j) \/ IngestSend(j) \/ GiveUp(j)

Thread == Sweep \/ Admit \/ Dispatch \/ Receive \/ Advance

Workers ==
    \/ \E t \in one_out : OneReturns(t)
    \/ \E t \in two_out : TwoReturns(t)
    \/ \E t \in one_out \cup two_out : WorkerDies(t)

\* Every handle is dropped and the scheduler returned.
Stopped == pc = "stopped" /\ UNCHANGED vars

Next ==
    \/ \E j \in Jobs : Host(j) \/ Pass(j)
    \/ Close
    \/ Thread
    \/ Workers
    \/ Stopped

Spec == Init /\ [][Next]_vars

\* The thread runs and time passes.  No fairness of the workers (a judge may
\* never answer) nor of the hosts.
Fairness == WF_vars(Thread) /\ \A j \in Jobs : WF_vars(Pass(j))

FairSpec == Spec /\ Fairness
-----------------------------------------------------------------------------
(* What must hold.                                                          *)

TypeOK ==
    /\ host \in [Jobs -> HostStates]
    /\ reply \in [Jobs -> Replies]
    /\ queued \in Int
    /\ late \in SUBSET Jobs /\ closed \in BOOLEAN
    /\ pc \in Phases /\ cur \in Jobs \cup {NoJob}
    /\ back \in {"sweep", "admit"}
    /\ inbox \in Seq(Event)
    /\ waiting \in Seq(Jobs) /\ active \in SUBSET Jobs
    /\ round \in [Jobs -> 0..MaxRounds]
    /\ awaiting \in [Jobs -> Nat]
    /\ before \in [Jobs -> SUBSET SUBSET Jobs]
    /\ one_backlog \in Seq(OneTask) /\ two_backlog \in Seq(TwoTask)
    /\ runs \in SUBSET Jobs /\ recorded \in SUBSET Jobs
    /\ one_busy \in Nat /\ two_busy \in Nat
    /\ one_out \in SUBSET OneTask /\ two_out \in SUBSET TwoTask
    /\ panics \in 0..MaxPanics

InInbox(type) == {i \in DOMAIN inbox : inbox[i].type = type}

\* The counter that refuses signals counts exactly the calls between its
\* fetch_add and either the refusal or the scheduler's receipt of the job,
\* whatever the interleaving of hosts and scheduler (`queued`, decremented on
\* another thread than it is incremented on).
QueuedCountsCalls ==
    queued = Cardinality({j \in Jobs : host[j] \in {"counted", "refusing"}})
             + Cardinality(InInbox("job"))

\* The scheduler's signals in flight are exactly the engine's runs, so the
\* engine never refuses a started agent as busy, never drops a signal the
\* scheduler resumes, and leaks no run when a signal is abandoned or expires,
\* even across a reload.
EngineAgrees == runs = active

\* The engine never refuses a signal the scheduler admits, as its agent being
\* busy or for too many runs: a refusal would be an error to a host whose
\* signal was only early.
AdmittedNeverRefused ==
    pc = "admit" =>
        \A i \in DOMAIN waiting : Admissible(i) => ~EngineRefuses(waiting[i])

\* Signals the host got effects for stay in the engine's memory: no undo of
\* another signal removes them.
UndoKeepsAnswered == \A j \in Jobs : reply[j] = "effects" => j \in recorded

\* A model error whose host stopped waiting leaves no trace in the engine's
\* memory once it is no longer in flight.
AbandonedErrorUndone ==
    \A j \in Jobs : runs_alone(j) /\ is_closed(j) /\ j \notin active
                      => j \notin recorded

\* Calls of a signal's current round, wherever they are.
IsCallOf(t, j) == t.job = j /\ t.round = round[j]

CallsOf(j) ==
    Cardinality({i \in DOMAIN one_backlog : IsCallOf(one_backlog[i], j)})
    + Cardinality({i \in DOMAIN two_backlog : IsCallOf(two_backlog[i], j)})
    + Cardinality({t \in one_out \cup two_out : IsCallOf(t, j)})
    + Cardinality({i \in InInbox("answers") \cup InInbox("reasoned") :
                      IsCallOf(inbox[i].task, j)})

\* `awaiting` counts the calls of the round still out, and calls lost with a
\* dead worker: a round never ends early, nor waits for a call that is back.
AwaitingCountsCalls ==
    \A j \in active : /\ awaiting[j] >= CallsOf(j)
                      /\ awaiting[j] <= CallsOf(j) + panics

\* No lost wake-up: a signal in flight waits for some call, unless the
\* thread is about to resume it.
InFlightAwaits ==
    \A j \in active : awaiting[j] > 0 \/ (pc = "advance" /\ cur = j)

\* A pool's busy count is its tasks out, its results not yet collected and
\* its dead threads, so no task ever waits inside a pool for a worker.
PoolsAccount ==
    /\ one_busy <= OneWorkers /\ two_busy <= TwoWorkers
    /\ one_busy + two_busy
         = Cardinality(one_out) + Cardinality(two_out) + panics
           + Cardinality(InInbox("answers") \cup InInbox("reasoned"))

\* What the scheduler counts is what there is.
CountsAgree == QueuedCountsCalls /\ AwaitingCountsCalls /\ PoolsAccount

\* Other signals' System One calls never occupy the workers reserved for
\* permission requests.
ReservedForPermission ==
    Cardinality({t \in one_out : ~urgent(t)}) <= OneWorkers - Reserved

\* When the thread blocks on its inbox, a queued System One call waits only
\* for a worker: a permission request's while every worker is taken, another
\* one's while at most the reserved ones are free.
NoIdleWorker ==
    pc = "recv" /\ one_backlog # <<>> =>
        /\ Free(OneWorkers, one_busy) <= Reserved
        /\ (\E i \in DOMAIN one_backlog : urgent(one_backlog[i]))
             => Free(OneWorkers, one_busy) = 0

\* Queues move: a signal in flight has something to wait for, the workers kept
\* for permission requests are never lost to other signals, and no call waits
\* while a worker it may have is free.
QueuesMove == InFlightAwaits /\ ReservedForPermission /\ NoIdleWorker

\* Every signal a host waits on is answered, or its host gives up: whatever
\* the judges do, its deadline settles it.
Answered == \A j \in Jobs : host[j] = "asking" ~> host[j] # "asking"
-----------------------------------------------------------------------------
(* The scheduler implements Ingest.                                         *)

\* The signals in a sequence of events, in order.
JobsIn(events) ==
    LET f[i \in 0..Len(events)] ==
            IF i = 0 THEN <<>>
            ELSE IF events[i].type = "job" THEN Append(f[i - 1], events[i].job)
            ELSE f[i - 1]
    IN  f[Len(events)]

\* What the signal's host knows of it.
Status(j) ==
    IF host[j] \in {"new", "counted", "refusing"} THEN "new"
    ELSE IF host[j] = "answered" THEN reply[j] ELSE host[j]

\* Accepted signals that were not started, in order.
Line == waiting \o JobsIn(inbox)

Promise == INSTANCE Ingest WITH
    status <- [j \in Jobs |-> Status(j)], line <- Line, judging <- active

\* Every behaviour of the threads, queues and workers is one the daemon
\* promises: per-agent order across queue and backlog, model errors alone,
\* and effects only for signals that were judged.
ImplementsIngest == Promise!Spec
=============================================================================
