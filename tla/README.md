# Verification of Chauffeur

Chauffeur is a daemon that rides along a coding agent. A host (OpenCode) sends
it signals over HTTP: a permission request, a finished turn, a model error, a
compaction. The daemon asks small judge models ("System One") and reasoning
models ("System Two") the questions its capabilities have, and answers with
effects. This directory holds TLA+ models of the part of it that is concurrent,
stateful and hard to test, TLC runs over small instances, and TLAPS proofs
about the models for every value of their constants.

Paths below are relative to the repository's root.

## Inventory

| Component | State it keeps | Operations | Makes it correct |
|---|---|---|---|
| Scheduler (`crates/daemon/src/scheduler.rs`, `workers.rs`) | inbox channel, `queued` counter, `waiting` queue, `active` signals with round, calls out and saved memory, two call backlogs, busy workers | `ingest_with_deadline` from many tasks; the thread's `sweep`, `admit`, `dispatch`, `collect`, `advance`, `abandon`, `complete`; workers return, fail or die | every signal answered once; one signal per agent, in order; model errors alone; permission requests never starved of a worker; counters that never drift |
| Engine (`crates/core/src/engine.rs`, `contracts/`) | runs between rounds, agents' situations, backstop, redactor | `start`, `resume`, `cancel`, `export`, `load`, `take_learned_changed` | rounds bounded; a run forgotten on every path; irreversible harm denied |
| Judgments (`crates/core/src/judgment/`) | one judge per run between rounds; what each candidate waits for | `ask`, `resume`, `settle`, `forget` | a verdict acted on exactly once, and only with an answer for every step |
| Situation, redactor, backstop (`crates/core/src/state`, `features`) | per agent a bounded history; two learned lists of shapes; learned patterns | record, render, mask, learn, veto | own activity only; no secret shown; lists only grow while running |
| Memory and reloading (`crates/daemon/src/engine.rs`, `learned.rs`, `crates/core/src/watch.rs`) | `state.json`, two learned files, the fingerprint of the watched files | `spawn`, `restore`, `persist`, `save`, `changed`, rebuild | what was saved survives crash, reload and undo; no edit missed |
| System One judges (`crates/daemon/src/judge.rs`, `escalation.rs`) | per worker: when to retry the primary | `judge`, fallback, second judge, review | answers in hand kept, and in time |
| System Two (`reasoning.rs`, `contracts/system_two.rs`, `plugins/openai/src/codex`) | profiles, reloaded between calls; a login shared by workers and the Codex CLI | `reason`, `refresh`, `forget` | the login survives; no verdict from a refusal |
| Model router (`capabilities/model-router`, the adapter's `model-router.ts`) | per agent: attempted models, exhausted providers, origin, waits; per session: running request, tool, pending switch | errors, successes, prompts; retry hook, follow-up, switching the session's model | knows where the session is; no newer choice overwritten; no tool repeated; moves end |
| Warming and renewal (`capabilities/model-router`, the adapter's `warming.ts`, `renewal.ts`) | executions counted, loops, plans, how a summary is to be written, providers passed over | plan, warm, stop; renew, compact, pass over | only sessions at rest are warmed, only cold ones renewed |
| Rules and rulebooks (`capabilities/rules`) | running books, budgets, pauses, history | deliver, pause, complete, review | budget never exceeded, no delivery while paused |
| Permission (`capabilities/permission`, `permission.ts`) | cooldowns of contracts | contracts, evidence, retries | the most restrictive outcome wins, on a judge's word |
| Skill sources (`crates/daemon/src/skills.rs`, `capabilities/skill-exposure/src/sources`) | fetched versions, reviews, records on disk | refresh, review, accept, attach | only a vouched version is shown |
| Skill approval (`crates/cli/src/discover.rs`, `approve.rs`, `skilld.rs`, `capabilities/skill-review`) | `skill-sources.json` | find, review, consent, write | what is written is what was agreed to |
| Skill and tool exposure (`capabilities/skill-exposure`, `tool-exposure`, `exposure.ts`, `ask-tool.ts`) | hidden tools in a cache, the host's storage and its messages; attached skills | hide, bring back, attach, clear at compaction | only unneeded tools hidden; once back, they stay |
| Monitors, event gate (`capabilities/monitors`, `event-gate`, `sourcefed`) | watches judged | follow, gate | followed once; events fail open |
| Daemon server (`crates/daemon/src/lib.rs`, the adapter's `daemon.ts`) | the port, the token, a daemon's version | look, start, replace, shut down | one daemon left, of the right version; memory kept |
| Audit log, ranking, judge clients, provider plugins, CLI, MCP, benchmarks | I/O around the above | | |

How they interact. Each HTTP request is a task that calls
`EngineHandle::ingest` and waits on a reply channel; dropping the future closes
it. One thread owns the engine and everything `waiting` or `active`; it calls
the engine (`start`, `resume`, `cancel`), which calls every capability, and
hands judge calls to worker threads, whose results come back through the
thread's inbox. Between signals the thread lets `Reloading::current` rebuild the
engine from changed files, carrying memory over. When a signal completes the
thread replies and then saves memory to disk. The skill worker is a task of its
own and publishes its catalog to the capabilities. In the host, hooks of one
session run side by side and interleave at every await.

What is hard here:

- hosts leave (`is_closed`) and deadlines pass at every step, also between two
  tests of the same sweep; a model error undone must leave no trace;
- the counter of queued signals is written on several threads;
- results come back after their round, their signal or their engine is gone;
- worker threads can die with a call;
- a config edit races the rebuild and the start of the daemon; the daemon can
  die between the reply, the state file and the learned files;
- capabilities ask several rounds, of judges that fail separately;
- files are shared with other processes: `auth.json` with the Codex CLI,
  `skill-sources.json` with the user and with other runs of the command;
- plugins of several releases find, replace and start daemons at once;
- a plan, a report or a verdict comes back after what it was about has changed.

`PROJECT.json` lists each of these as a hazard, at its line, with the property
that covers it or the reason none does.

## Modules

### Ingest: what the daemon promises

`Ingest` has no threads, queues or workers: signals are refused or line up,
each agent's are judged one at a time in the order they came, a model error
alone; a host that waits gets at most one result, effects only for a signal
that was judged or settled in its turn; any signal may leave the line unjudged
with an error, when its deadline passes or its host leaves.

### Scheduler: the thread, its queues and the pools

One step of the model is one atomic step of one thread. The hosts' `ingest` is
three steps (`IngestCount`, then `IngestRefuse` or `IngestSend`), because the
counter and the channel are written separately. The scheduler thread goes
through `pc`: `sweep`, `admit`, `dispatch`, `recv`, and `advance` when a round
is ready to be resumed. Each signal swept, admitted or dispatched is a step of
its own, so hosts, time and workers interleave between any two of them.

| Code | Model |
|---|---|
| `Inner::queued`, `Inner::drop` | `queued`, `Close` |
| `Job::reply` and its receiver | `reply`, `host`; the channel is closed when the host is `gone` |
| `Job::expires` past | `late`, which only time adds to |
| `sweep`, `abandon`, `expire` | `SweepWaiting`, `Abandon`, `SweepLate`, `Expire` |
| `Reloading::current` in `admit` | `SweepDone`, `MayReload`: a reload forgets the runs |
| `next`, `admit`, `begin` | `Eligible`, `IsNext`, `Admissible`, `BeginError`, `BeginDone`, `BeginAsk` |
| `ask`, `advance` | `Ask`, `Continue`, `AdvanceAsk`, `AdvanceDone` |
| `dispatch` | `DispatchOne`, `DispatchTwo` |
| `collect` | `CollectAnswers`, `CollectReasoned`, `Settle` |
| `Pool`, worker threads | `one_busy`/`two_busy`, `one_out`/`two_out`, `OneReturns`, `TwoReturns`, `WorkerDies` |

Abstracted: what a signal says and what questions ask (which of them a round has
is nondeterministic, as `Engine` details); the state on disk (module `Memory`);
the audit log and its `Started` events. A job, its signal and its run are one
value, since the engine numbers runs without reuse.

### Engine: runs, rounds and the judges capabilities hold

One step is one call of the engine's owner (`Start*`, `Resume`, `Cancel`), or
the engine's own loop over rounds that local judges answer whole
(`ResumeInline`). A capability's round is the set of kinds of question it asks:
of the host's System One, of a local judge, of System Two. `NextAsk`, `Told`,
`NextAllowed` and `Acts` follow `Judging::resume` and `resume_round`; which
judgment a capability makes of its answers is free, so all of them are covered.
`judged`, `acted`, `harmful` and `failed` are history: they only record.

Abstracted: the wording of questions, redaction, the situation (`Activity`). Of
effects only permission decisions are told apart, the ones the engine may
replace. The calls `begin`, `finish` and `ingest`, which the daemon does not
make, are left out. All questions a capability routes to System One are the
host's.

### Judgments: what a capability makes of its answers

Where `Engine` leaves a judgment's outcome free, `Judgments` models it:
`AnswerRule` and `Holds` are the rules with their thresholds and confidences;
candidates go through their steps side by side (`StartJudging`,
`ResumeJudging`), a screening goes on to System Two. `resume` settles as the code does: for lack of
rounds, after a failed round, by what a reasoning said; `fallible` is
`Judgment::unless_failed`. `zip`, which no capability uses, is left out.

### Permission: from the host's question to its decision

The adapter (`Evaluate`, `Unreachable` with its two retries, `GiveUp` after five
seconds, `Applied`), the engine's checks in their order (`Take`: backstop,
confirmation, contracts), the answers (`Judged`) and the scheduler that cancels
(`Cancel`). `EvidenceOf`, `Branch`, `Resolution` and `Combined` are the
capability's; `Recorded` forgets every cooldown at the limit. `ValidContract` is
what `Skill::validate` lets through. The backstop learns a `Learnable` command
and finds it again; commands whose text no pattern can be learned from, and
matching itself, are left out.

### Activity: what a judge is shown

`situations` are the engine's, bounded in entries (`MaxEntries`), in what is
rendered (`Render`, with clipping by head and tail) and in agents
(`MaxAgents`: the one last active longest ago is forgotten). Text is a sequence
of words with the key each follows; a word cut by clipping counts as plain.
`Redact` numbers strings and masks as `Redactor` does; `LearnAll` moves a shape
between the lists `secrets` and `safes`, bounded, as `learning.rs` does. A
signal is judged over rounds while others are recorded, evicted and learned
from.

### Judge and Login: System One and System Two

`Judge` is one worker's System One on a clock: the primary, its fallback and
cooldown, the second judge with its questions, the review, each under what is
left of the signal's deadline less the reserve. A client's call ends by its own
timeout at the latest. `Login` has the workers of System Two with their
registries, the lock around the Codex login, the provider that takes a refresh
token once, the CLI and the user beside them, replies and writes that are lost,
and a daemon that dies. `MayBeVerdict` and `Verdict` are what `read_stream` and
`run_attempt` accept.

### Memory: files, reloads, undo and crashes

The memory in `state.json` is the set of signals recorded in it; what the
backstop and the redactor learn is a set of patterns; all watched files are one
version number that `Edit` raises. `phase` is where the daemon is between two
writes or reads: starting (`Build`, `Restore`, `StartWatching`), between a
changed fingerprint and the new engine (`SeeChange`, `ReadConfig`, `Rebuild`),
and after a reply (`WriteState`, `RenameState`, `SaveLearned`). `Crash` happens
at any of these. Which signals are in flight together is up to `Scheduler`; here
only what concerns memory is kept (`MayBegin`).

### ModelRouter and Failover: a session whose models fail

`ModelRouter` is the state the router keeps for one agent and the three signals
that change it: an error (`ModelError`: `failover`, the pick and `act`), a
success (`ModelSucceeded`) and a prompt (`UserMessage`: `switch_back`,
`return_to_origin`). An error is a set of classes (a limit, one that lasts, a
model that cannot serve); tiers, pins and recommended models are a table
(`Catalog`); of time only whether the wait before switching back is over.

`Failover` composes it with the host's session and the adapter:

| Code | Model |
|---|---|
| `Sessions` | `execution`, `requested`, `tool_ran`, `switched`; `Valid` is `current()` |
| retry hook, `route`, `failover` | `RetryHook`, then `Answer`, `Check`, `Apply` or `Lose` of a report |
| `session.execution.failed`, `followUp` | `Fails`, then the same steps |
| `session.step.ended` | `StepEnds`, and `Succeeded` when the signal arrives |
| prompt hook, `switchModel` of `exposure.ts` | `SendPrompt`, `AnswerPrompt`, `CheckPrompt`, `ApplyPrompt` or `LosePrompt` |
| the host (external) | `Start`, `Request`, `ToolRuns`, `HostRetries`, `Fails`, `Ends`, `Choose` |

Each await of the adapter separates two steps, so executions end and start, the
user selects models, and reports overtake one another in between. A lost report
is one the daemon did not judge, or judged and whose answer was not carried out;
a model error abandoned in between is undone (`Scheduler`), so it counts as not
judged. `raced` marks an answer whose session changed between the adapter's last
look and the host's switch, which no adapter can see; `astray` is history: the
session may be elsewhere than the router was told.

Abstracted: several agents (their states are separate), the cap on tracked
agents, the words that classify an error.

### Renewal: warming and renewing idle sessions

`WarmPlan` and `Summarizers` are the router's decisions; the adapter's maps
(`executions`, `loops`, `pending`, `passed_over`) are bounded and cleared as in
the code (`Room`). Events, plans that come back (`Schedules`), loops that send
and are interrupted (`Warms`, `Warmed`, `Interrupted`), prompts (`Resumes`,
`Renewed`), compactions queued, refused or of the host's own, and a restart of
OpenCode interleave. The plugin handles what is ready before a second passes.
What it cannot see is history: a request that a limit or a stop cut short read
the session, but no reply of it is measured until the next one
(`memo.unseen`); and a restart keeps of `passed_over` what was stored, so
`memo.failed` keeps the providers whose failure was. `RenewalKept` speaks of
what the plugin could know.
The model has two oddities of the code: a plan that comes back late stops the
loop of the turn after it, and when `executions` was cleared in between a count
may repeat, so that an old plan is followed (`memo.forgot`, which `RenewalKept`
excuses). Slow requests can take a loop past `max_seconds`; nothing is said of
that.

### Rules: rulebooks and their host

A signal's facts select the rules to be asked (`Asked`, `Admits`), a judgment finds any
subset of them to hold, and `Act` chooses, delivers, ends or pauses books and
counts their budgets; the host shows contexts, resumes the agent or lets it
work (`idle.ts`), and the user starts, stops, pauses and resumes books at any
moment. `heard` and `pokes` are history. Gates on the text of a call are left
out: a rule they refuse is one that does not hold.

### SkillSources and Approval: whose skills

`SkillSources` is the daemon's skill worker as a process: read the
configuration, check what is due, fetch, record, start reviews, and wait for
one to end, for an acceptance, an attached skill or a pause (`at`, `todo`).
Upstream changes, the user and the reviews go on at every await; a crash keeps
`disk` and `folders`, a review task may die (its skill then stays busy, unless
it was the last one in flight), and a record may not be written. `unrecorded` has
the slots whose first record was not, which `OnlyVouched` excuses and
`ReviewedFirst` is about. A revision is an upstream and the
number of its change; what a skill says at it is a version. `Approval` is
`chauffeur skill approve` as processes that read `skill-sources.json` first and
write it last, with the user and other runs in between; an edit made in between
is overwritten, as in the code, and `ApprovalsSound` speaks of what the run
read.

### Exposure and Monitors: what a session has

`Exposure` is one session with two hooks of the adapter, a prompt's and a tool
call's, that read what is hidden, ask the engine and write session, storage and
message with an await between each; compaction and restarts; a parent that
hides tools of a subagent. Where two changes overlapped or one was cut short
(`excused`), a skill may arrive twice and a tool that was brought back may be
hidden again: `ask-tool.ts:56` says "so none arrives twice", which the model
shows for changes one after the other only. `Monitors` follows watches that
tool calls name, through an integration that may be late, and has the gate that
events pass.

### Startup: whose daemon

`Startup` has plugins that look for a daemon, use it, start their own or
replace it, and daemons that load the saved memory, take the port, answer, and
stop once their requests are finished. A plugin whose token another daemon does
not take looks at a port where nobody answers, and starts in vain: such a
plugin is never served, so the instance has one token. A daemon told to stop
answers and saves beside the next one, which may have read the memory before:
`MemoryKept` speaks of times when none was told to.

### Compositions for TLC

`MCScheduler`, `MCEngine` and `MCFailover` give the constants values and a
variable `scope`, chosen at first and never changed, that says which instance a
behaviour is of. `MCJudging` puts Judge, Judgments, Permission, Activity, Login
and Memory side by side, `MCCapabilities` Rules, SkillSources, Approval,
Monitors, Exposure, Startup and Renewal: in each scope one of them moves. These
parts do not share state in the code either, but for what `Engine` and
`Scheduler` model.

## Runs

Every run bounds the number of signals or calls and explores its instance
completely. `CHECK_DEADLOCK FALSE` is set where a finite set of signals may all
be over, after which nothing can happen; the scheduler's own stop is the step
`Stopped`, so its runs check deadlock.

| Run | Instance | Shows |
|---|---|---|
| `scheduler_mix` | scope `mix`: a permission request and an ordinary signal of one agent, a model error of another, the ordinary one's host stays; scope `rounds`: two agents, two rounds of System One and Two, a dying worker; queue depth 2, `MAX_ACTIVE` 2 | `CountsAgree`, `EngineAgrees`, `AdmittedNeverRefused`, `UndoKeepsAnswered`, `AbandonedErrorUndone`, and that the scheduler implements `Ingest` |
| `scheduler_workers` | a permission request, an ordinary signal and a model error of three agents; two System One workers, one reserved; no System Two; fairness, a worker that dies | `QueuesMove` (no lost wake-up, no lost or idle worker), `Answered` |
| `engine_rounds` | scope `rounds`: two capabilities, one shell command, three rounds; scope `pair`: runs of two agents, two rounds; fairness | `JudgesMatchRuns`, `ActsOnce`, `VerdictActed`, `IrreversibleDenied`, `StaysOver`, `RunsEnd` |
| `engine_dropped` | two capabilities, two rounds | refutes `AlwaysActedOn` |
| `judging_parts` | Judge: three questions, one that opts out, a clock of 6; Judgments: candidates of one to three steps and a screening, two rounds; Permission: two agents, two contracts, a learnable command; Activity: two agents of which one is tracked, two shapes, lists of one; Login: two workers, two logins, two issues, one fault; Memory: two signals, two edits, two crashes | `AnswersKept`, `RoundReserved`, `AskEnds`; `VerdictEarned`; `DecisionsEarned`, `HarmRemembered`; `ActivityShown`; `LoginKept`; `SavedSurvives`, `UndoneNeverSaved`, `NoStaleEngine`, `LearnedNeverForgotten` |
| `memory_learned` | one signal, one pattern | refutes `LearnedIsSaved` |
| `failover_moves` | scope `chain`: three models of three providers, two of one tier, two executions, one completed step, one choice of the user; scope `return`: two models, one execution, a prompt, a config that comes to exclude the origin | `RouterFollows`, `NoStaleSwitch`, `RetriesSafely`, `BlacklistHonoured`, `SwitchesEnd` |
| `failover_limits` | two models, the user goes back to the first | refutes `LimitsHonoured` |
| `memory_starting` | an edit while the daemon starts | refutes `RebuiltOnChange` |
| `capabilities_parts` | Rules: six rules of two books, our own and the project's; versions and sources: one slot, two URLs, two versions, a crash, a review that dies, and (versions) a record that cannot be written; approval: two runs, five selections, three files; monitors and gate: two agents, two watches, tables of one and two; exposure: one prompt hook, one call, a compaction; startup: two plugins of two releases, three daemons, one thing going wrong; warming and renewal: a long session, two turns, a clock of 4 | `BooksRestrained`, `BooksSpeak`; `OnlyVouched`, `ApprovedStays`; `ApprovalsSound`; `MonitorsKept`; `ExposureKept`; `DaemonServed`; `RenewalKept` |
| `rules_otherwise` | a book's rule that holds and one of higher priority | refutes `OtherwiseWhenNoneHolds` |
| `skills_reviewed` | versions: one slot, two URLs, a crash, a record that cannot be written | refutes `ReviewedFirst` |

Each component's type invariant is proved (below) or a conjunct of its first
invariant (`JudgeTypeOK`, `JudgmentTypeOK`, `RulesTypeOK`).

Why the bounds suffice. The scheduler's rules compare two signals at a time
(of one agent or of two, alone or not, urgent or not) or a signal with a count
at its limit; the instances hold one of each kind, with limits one below what
would let all signals through. Two rounds give a late result of an earlier
round; one panic gives a lost call. The code's limits are `QUEUE_DEPTH` 64,
`MAX_ACTIVE` 8, `MAX_ROUNDS` 2, `MAX_RUNS` 64. Three rounds in the engine give
a middle one, which two would not. Two edits let one happen
during the rebuild for the other; two crashes let one hit the restart after the
other. Three models are the least with a chain of two switches, two executions
the least with a report that outlives its own, one prompt, one choice and one
completed step the least that race an answer. In `Judge` the clock runs past a
deadline and past a retry, `MaxReviewed` 1 leaves one doubted question out. In
`Activity` one tracked agent of two makes every signal evict the other's
activity, a list of one makes every second lesson meet a full list. In
`Permission` two requests are the least with one that teaches and one that is
denied; a third would add a cooldown that ran out between them. In `Login` two
issues of one login tell a used token from a fresh one, a second login is the
user's. In `SkillSources` two changes let one fall into the review of the other
(`versions`; a record that cannot be written takes the place of one), one edit of the sources lets a review be of a source no longer
followed (`sources`). In `Rules` a budget of one and one of two are met, and an
id that extends another's. In `Startup` three daemons let two start beside the
one they replace; a signal, a reopened session and a fault are taken one at a
time (`OneThing`), since each alone races every step of the plugins; a daemon
told to stop leaves the port before the plugin's last look, 30 in the code. In
`Renewal` `MaxTracked` 1 makes every second session clear the maps.

Bounds the code does not have are named `Max...` in their modules: of panics,
reasonings, edits, crashes, executions, choices, prompts, steps, requests,
ticks, faults, deaths, sessions and restarts. `LoginTime` is 0: the time a
login's refresh takes is modelled in `Judge` but not part of the instance, since
with it `RoundReserved` fails for as long as the refresh takes, which the code
accepts. In `Failover` requests, failures and retries are
unbounded, so that `SwitchesEnd` speaks of endless behaviours.

Fairness. `Scheduler!Fairness`: the scheduler thread runs while it has
something to do (the operating system schedules it, and a busy scheduler waits
with a timeout, `TICK`), and time passes. Nothing is assumed of judges, workers
or hosts: a call may never come back. `Engine!Fairness`: a call of the engine
returns, and the scheduler resumes every run it keeps, with results or, past
the deadline, with a failure (which `Answered` is about). `JudgeFairness`: a
call of a client begins and ends, since the client's own timeout ends it
(`AskFirst`, `Ends`); nothing else is assumed, in particular no answer.
`SwitchesEnd` needs no fairness: it says what never goes on forever.

## What the violations show

- `AlwaysActedOn`: when a System One call failed, and a capability that had
  asked only System Two now asks System One, nobody gets a next round, and a
  capability that waited for one is dropped without settling.
- `LearnedIsSaved`: `complete` returns early when the host left, before what
  was learned is saved.
- `RebuiltOnChange`: the watch's first fingerprint is taken after the engine is
  built and memory restored; an edit in between is noticed only with the next.
- `LimitsHonoured`: an error of the model an agent left is taken for a switch
  that was never carried out, and all exhausted providers are forgotten. When it
  was carried out and the user went back by hand, a provider whose limit was hit
  is offered again although no model served the agent since.
- `OtherwiseWhenNoneHolds`: a rule that holds but loses its place to one of
  higher priority counts as not holding, and its book delivers its `otherwise`.
- `ReviewedFirst`: when the first record of a new source cannot be written, that
  is only logged, and its listing is written after it; the next start takes what
  the listing has for versions in use before reviews existed, and shows them.

## Proved

`SchedulerProofs` proves, for any finite set of signals, any agents, queue depth,
worker and round limits (`ConstantsAssumption`: limits are naturals,
`MAX_ACTIVE` positive and at most `MAX_RUNS`; `NoJobAssumption`: `NoJob` is no
signal):

- `TypeCorrect`: `TypeOK`, inductive as it stands; one lemma per helper
  (`Complete`, `Forget`, `Expire`, `Ask`), then one step per action.
- `RunsAreInFlight`: `EngineAgrees`. Starting, settling and abandoning change
  both sets together; a reload, which forgets the runs, happens only when
  nothing is in flight.
- `NeverRefused`: `AdmittedNeverRefused` follows from `EngineAgrees`: admit's own
  tests (agent idle, room under `MAX_ACTIVE`) are then the engine's.
- `UndoIsLocal`: `UndoKeepsAnswered`. It is not inductive: an undo puts back a
  saved memory, so the saved memory must hold everything answered since it was
  saved. `MemoryInv` adds that a signal with a saved memory is alone in flight,
  that signals in flight are recorded, and that each saved memory holds every
  answered signal.

- `CountersCount`, `QueuesKeepMoving`, `GivenUpErrorsForgotten`: `CountsAgree`,
  `QueuesMove`, `AbandonedErrorUndone`, from one invariant, `SchedulerInv`
  (`Consistent`), whose parts need each other:
  - `JobPlaces` and `TaskPlaces`: every signal, and every call, is in one place
    (with its host, in the inbox, waiting, in flight; in a backlog, with a
    worker, on its way back) and in it once;
  - `FlightInv`: a signal in flight waits for a call, unless the thread is about
    to resume it, and a model error in flight has its memory saved;
  - `ErrorInv`: model errors in the engine's memory are in flight or answered,
    and saved memories hold answered ones only;
  - `CountsInv`: `queued`, `awaiting` and the pools' busy counts against the
    cardinality of what they count. Each step moves one element between two
    sets, so places being unique is what makes the counts follow; sequences are
    counted through the set of their elements, which have no duplicates;
  - `WorkersInv`: reserved workers are kept, and none idles with a call it may
    have. That the first call a free worker may take is taken is shown by a
    least index (`FirstIndex`).
- `SchedulerImplementsIngest`: `ImplementsIngest`, the refinement. Under the
  mapping (`JobsIn`, `Status`, `Line`: a signal is where its place says, the line
  is the inbox followed by what waits) each step is a step of `Ingest` or changes
  none of its variables; what is `late` or gone lets the line be left.

`EngineProofs` proves, for any capabilities, runs, agents, kinds of question and
any `MAX_RUNS` and `MAX_ROUNDS` of naturals:

- `EngineTypeCorrect`: `TypeOK`.
- `NoJudgeLeaks`, `VerdictOnce`, `VerdictReached`, `HarmDenied`:
  `JudgesMatchRuns`, `ActsOnce`, `VerdictActed`, `IrreversibleDenied`, from one
  invariant, `EngineInv`. It is stated run by run (`InvOf`): the judges of a run
  are those whose questions are out (`JudgesMatchRuns`), a run not started has
  no history (`NewInv`), a capability has acted only where its judge is gone
  (`ActedInv`), and a command whose judge found harm stays marked while its run
  is kept, and no decision but a denial is given for it (`HarmInv`). Every action
  changes one run; `OthersAlone` says so and `OthersKeep` carries the invariant
  over for the rest.
- `OverForGood`: `StaysOver`, an action property that needs only types.

`MemoryProofs` proves, for any signals, patterns, and bounds on edits and crashes:

- `MemoryTypeCorrect`: `TypeOK`.
- `SavedMemorySurvives`: `SavedSurvives`. `SavedInv` says where a memory recorded
  in `state.json` is: in the engine, or still to be restored, or aside while the
  engine is rebuilt. It needs `LoneInv`: memory is set aside for an undo exactly
  while a model error is judged, which is then alone in flight.
- `UndoneMemoryNeverSaved`: `UndoneNeverSaved`, from `UndoneInv`: an undone
  signal is in no copy of memory, on disk or in the engine.
- `LearnedKept`: `LearnedNeverForgotten`, with `LearnedInv`.
- `NoEditMissed`: `NoStaleEngine`, assuming no edit while the daemon starts
  (`~EditsWhileStarting`); `memory_starting` shows that the assumption is needed.

`FailoverProofs` proves, for any models, catalog, blacklists, faults and bounds
(`CatalogAssumption` and `SessionAssumption`: `NoModel` and `Ignored` are no
models, the catalog's listings and the host's choices are):

- `FailoverTypeCorrect`: `TypeOK`, with `RunInv` (a request under way has a
  model, a running session an execution).
- `RouterKnows`: `RouterFollows`. A switch is decided in the router and made in
  the host two messages later, so the invariant, `FollowInv`, speaks of what is
  between them: an answer on its way carries the model of the origin, and with
  none on its way the session has it.
- `ChoicesStand`: `NoStaleSwitch`. `CheckInv`: past its last look, an answer has
  seen the model the session still has, unless it is marked as raced.
- `NoToolTwice`: `RetriesSafely`. `RetryInv`: a retry's report that is still
  valid waits for the very request that failed, as it failed, and there is one
  such report for an execution.
- `ExcludedNeverOffered`: `BlacklistHonoured`, an action property that needs only
  types and what each answer of the router may be (`ErrorAnswers`,
  `PromptAnswers`).


`CapabilityProofs` proves, each for any values of its component's constants:

- `MonitorsTypeCorrect` and `FollowedAndGated`: `MonitorsKept`. What is followed
  is counted in `made` when the integration carries a create out, which may be
  after its table was cleared; `UnrecordedInv` says that what is not on record
  was not followed as far as it counts, `FollowingInv` that nothing being judged
  is on record yet. `GateInv` says at every stage of an event why it may be
  withheld.
- `StartupTypeCorrect` and `OneDaemonServes`: `DaemonServed`. `PortInv`: one
  daemon has the port. `StopInv`: whoever told it to stop is still waiting for it;
  `ReplaceInv`: and found it of another version; so `ComingInv`: a daemon is at the
  port or on its way there, or a plugin is about to start one. `KeptInv`: a daemon
  that comes to the port read the memory after everything answered was saved.
- `ExposureTypeCorrect` and `UnjudgedStayShown`: `ExposureKept`. The two hooks
  keep what they read over their awaits, so the invariant relates each to the
  storage at every stage: what they are about to hide was judged (`ShownInv`),
  changes are one at a time unless `excused` (`AloneInv`), only the first prompt of
  a context hides (`BegunInv`, `FirstInv`), what was brought back is nowhere hidden
  but in a storage about to be written (`BackInv`), and a change knows the skills
  in the context (`SkillInv`).
- `BudgetsHold`: types, `OneVoice` and `WithinBudget`, from `RulesInv`, which
  speaks of one agent at a time (`TurnInv`, `VoiceInv`, `BudgetInv`); each action
  is of one agent and leaves the others' state alone (`OthersKept`).
- `BooksHoldBack`: `BooksRestrained`, and `BooksAnswer`: `BooksSpeak`, assuming
  `IdsApart`: no rule of another book, nor one of no book, is named as if it were
  a book's. Rules find their book by the longest running id they extend; the
  rules and books that are shipped are apart in this sense, but the code compares
  no ids across books, and without it a rule of no book, asked while a book is
  paused, would be taken for that book's. `HoldInv`: what is asked of a book is
  asked while it may speak (`OwnInv`), and a book that woke the agent waits until
  it worked (`IdleInv`).

`AdapterProofs` proves what the adapter does at its awaits:

- `PermissionTypeCorrect`, for any agents, contracts, commands and limits.
- `OnJudgesWord`: `DecisionsEarned`. `EarnedInv` follows a request from the host
  to its decision: none that the host denies is under way, none is judged that
  the backstop or the user had a say in, and an allowed one has its answers.
- `HarmStaysDenied`: `HarmRemembered`, assuming that everything that can be
  learned fits `MAX_LEARNED`: past it the oldest lesson is dropped, and the
  command is judged again. `HarmInv`: known harm is in the backstop, and no
  request that has it is being judged.
- `RenewalTypeCorrect`, for any sessions, providers, prices and limits.
- `RenewalsKept`: `RenewalKept`, action properties of warming and of renewal. A
  plan was right when it was made and is followed later, so the invariant says
  what may have happened since: a plan with no execution since is for the
  session's last turn, unless a start is still unheard (`PlanInv`); a loop that
  is not stopped is its session's, and likewise for the last turn, or has a start
  ahead of its first request (`LoopInv`); of a running session an end not yet
  handled is followed by a start (`QueueInv`). Of renewals: what the plugin saw
  of a session it knows the last reading of (`ReadInv`), a prompt's facts are so
  (`ResumeInv`), a provider that failed is passed over long enough (`FailedInv`).
  The invariant was not inductive at first: it needs what the plugin cannot have
  seen (`memo.unseen`) and what storage lost (`memo.failed`) to be recorded
  precisely, which small instances had not told apart.

`JudgingProofs` proves:

- `AnswersStay`: `AnswersKept` of `Judge`, for any questions, clients, times and
  deadlines. `JudgeInv` has its types; no question has an answer before the first
  judge's (`AskedInv`), and each has one of a judge on record after it, which
  nobody else was asked where the first was sure (`EscalationInv`,
  `FirstOnRecord`); a call ends by the signal's deadline (`TimedInv`); an urgent
  signal has no second judge (`UrgentAlone`).
- `ReserveKept`: `RoundReserved`, for a `LoginTime` of 0. `ReserveInv`: a better
  judge is asked only with a round left, and its call ends before it.
- `VerdictsEarned`: `VerdictEarned` of `Judgments`, for any rules, candidates and
  round limits. `PendingInv` says of each candidate between rounds which answers
  it has and that they led where it is (`CandidateEarned`), and the same of a
  screening (`ScreenEarned`).
- `LoginTypeCorrect` and `LoginSurvives`: `LoginKept`, for any workers, logins,
  issues and faults. Between the provider's answer and the write the file holds a
  token that is used up, so `CurrentInv` and `FileInv` say who is about to write
  the next one. `LockInv` makes that the only worker in between, and `SpentInv` and
  `PostInv` then say that what a worker read under the lock was not used up by
  another.
- `OwnActivityShown`: `ActivityShown` of `Activity`, for any agents, words, shapes,
  keys and limits, where a clip keeps a natural number of characters of each end
  (`ActivityAssumption`) and a saying is of known words and clipped as one of
  `Clips` says (`WordsAssumption`). `ActivityInv` has what an agent's situation
  holds, the end of what the agent did (`EndsWith`), and what a round sent, with
  `ListsInv` for the lists of shapes: a secret holds after any key, and what is
  safe was judged so. Under it are what the algorithms compute: `NewestIs`, the
  entries that fit are the newest ones; `RecordIs`, recording adds one and drops
  from the front; `RedactIs`, every word of a redacted text is fair to show
  (`Fair`) and a number stands for one string; `LearnIs`, learning only adds to the
  secrets, and to what is safe only what was answered. The last two are folds over
  a sequence. A fold is given by a recursive function that `FoldExists` shows to
  exist: a least length at which it did not would contradict the one before
  (`Least`), and `RedactRuns` and `LearnRuns` follow it the same way.

`SkillProofs` proves, for any slots, order, upstreams, names, versions and bounds:

- `SkillTypeCorrect`: `SkillTypeOK`.
- `NothingUnvouched`: `OnlyVouched`. What is shown follows from the records of
  the entries in memory (`CatalogVouched`), so `RecordsInv` says that whatever a
  record approves, in memory or on disk, was vouched for and is what it says it
  is; `EntryInv`, that an entry and its record are of the source configured, so
  that no approval counts for another source's files; `FirstRecordInv`, that a
  slot without a record on disk lists only what was in use before reviews, so
  that approving it as it is approves nothing new. The last is what a first
  record that could not be written breaks.
- `ApprovedVersionsStay`: `ApprovedStays`. `HeldInv`: an entry in
  memory has every approval its source's record on disk has, so that a restart
  takes none back; `FreshInv`: a listed Git skill with an approval is shown once
  the catalog is published, as it is or as it was approved; `RealInv`: every
  approval is of a version.
- `ApprovedIsFollowed`: `ApprovalsSound` of `Approval`, for any registry, sources,
  limits, runs and edits by hand, where folders are paths whose parents are folders
  (`FoldersAssumption`) and the registry's skills are in such folders
  (`RegistryAssumption`). `ApprovalInv` says what a run that is about to write knows:
  its plan was found valid, and whoever had to agree did. The rest is about the
  change: `CommonDirsIs`, what is above the common folder is what is above every
  skill, which is also what `Granted` says (`GrantedIs`); `MergeIs`, the paths it
  drops are those the new one stands for; `ShownAreText`, a skill System One saw
  whole is text. `CommonDirs` and `Fits` are recursive functions over the length of
  a sequence: they exist, and have their property at each length, because a least
  length at which they did not would contradict the one before (`LeastOf`).

## Model-checked only

Liveness under fairness is beyond the prover and left to TLC, over the instances
above: `Answered`, `RunsEnd`, `AskEnds`, `SwitchesEnd`.

## Not modelled

- The audit log (events written by one task, read by the CLI), ranking and the
  judges' clients (arithmetic on scores, HTTP and its formats), the model
  providers' plugins but for the Codex login, the command line but for
  `skill approve`, the MCP server (it forwards to the daemon), benchmarks.
- Text: finding a pattern in a command, a watch in a result, a class of error in
  its words, a secret's shape in a line. The models take what is found as given.
- Capacities with no property: the scheduler's `waiting` queue is bounded by
  nothing (`QUEUE_DEPTH` is of its inbox), and a secret judged while the redactor's
  list is full is not kept. The hazards of `PROJECT.json` without a property say
  why.
- The daemon's routes for integrations, its endpoint file, and namespaces of
  code mode in tool exposure.

## Plan

The plan was written in this order and is done up to the last point: scheduler
and engine; memory; the router and its host; judges, logins and judgments;
permission and activity; rules; skills and their approval; monitors; exposure;
startup; renewal; proofs of every safety property of the passing runs. What
is left:

- namespaces of code mode in `Exposure`, so that hiding one tool hides a name
  several tools share;
- larger instances: three agents in `Permission`, two slots in `SkillSources`,
  two sessions in `Exposure`;
- a review that dies (`ReviewDies`), once the code says what should become of
  its skill.
