-------------------------------- MODULE Memory --------------------------------
(***************************************************************************)
(* What the engine remembers, on disk and across reloads, undos, crashes   *)
(* and restarts: crates/daemon/src/engine.rs and learned.rs, the engine's  *)
(* save and load, core's watch.rs, and `begin`, `abandon` and `complete`   *)
(* of the scheduler.                                                       *)
(*                                                                         *)
(* The memory saved in the state file (situations, capabilities' memory)   *)
(* is the set of the signals recorded in it; what the backstop and the     *)
(* redactor learned is a set of patterns.  A version of the config stands  *)
(* for all the watched files; a person edits them at any moment.  Module   *)
(* Scheduler says which signals are in flight together; here their order   *)
(* is free, up to what concerns memory.                                    *)
(***************************************************************************)
EXTENDS Naturals, FiniteSets

CONSTANTS
    Signals,
    Alone,        \* the model errors: runs_alone
    Patterns,     \* what judges may teach
    MaxActive,    \* MAX_ACTIVE
    MaxEdits,     \* bound: edits of the config
    MaxCrashes,   \* bound: crashes of the daemon
    EditsWhileStarting   \* whether the config is also edited while it starts

ASSUME ConstantsAssumption ==
    /\ IsFiniteSet(Signals) /\ Alone \subseteq Signals
    /\ MaxActive \in Nat \ {0} /\ MaxEdits \in Nat /\ MaxCrashes \in Nat
    /\ EditsWhileStarting \in BOOLEAN

VARIABLES
    phase,          \* where the daemon is: see Phases
    stage,          \* each signal's progress: see Stages
    gone,           \* signals whose host stopped waiting
    memory,         \* the running engine's memory
    before,         \* Active.before, of a signal judged alone
    learned,        \* the running engine's learned patterns
    changed,        \* Engine.learned_changed
    built,          \* the config the running engine was built from
    seen,           \* Watch.last
    read,           \* the config the rebuild in progress read
    state_file, learned_file, config, broken,    \* on disk
    kept,           \* history: signals answered and then saved
    crashes

engineVars == <<memory, before, learned, changed>>
configVars == <<built, seen, read, config, broken>>
diskVars == <<state_file, learned_file, kept>>
vars == <<phase, stage, gone, engineVars, configVars, diskVars, crashes>>

None == {}
Some(v) == {v}

\* Starting: down, read, restored.  Serving: idle; changed and rebuilt are
\* between a changed fingerprint and the new engine; answered, written and
\* saved follow a signal's reply.
Phases == {"down", "read", "restored", "idle", "changed", "rebuilt",
           "answered", "written", "saved"}
Starting == {"down", "read", "restored"}
Stages == {"new", "waiting", "judging", "judged", "replied", "dropped"}

active == {s \in Signals : stage[s] \in {"judging", "judged"}}

Init ==
    /\ phase = "down"
    /\ stage = [s \in Signals |-> "new"] /\ gone = {}
    /\ memory = {} /\ before = [s \in Signals |-> None]
    /\ learned = {} /\ changed = FALSE
    /\ built = 0 /\ seen = 0 /\ read = 0 /\ config = 0 /\ broken = {}
    /\ state_file = {} /\ learned_file = {} /\ kept = {}
    /\ crashes = 0

-----------------------------------------------------------------------------
(* Starting: spawn, restore, reloading.                                     *)

\* learned::load and build_engine.  A config that does not load stops the
\* daemon.
Build ==
    /\ phase = "down" /\ config \notin broken
    /\ phase' = "read"
    /\ built' = config
    /\ learned' = learned_file
    /\ UNCHANGED <<stage, gone, memory, before, changed, seen, read, config,
                   broken, diskVars, crashes>>

\* restore: what the state file holds, if it can be read.
Restore ==
    /\ phase = "read"
    /\ phase' = "restored"
    /\ memory' = state_file
    /\ UNCHANGED <<stage, gone, before, learned, changed, configVars, diskVars,
                   crashes>>

\* reloading: Watch::new takes the files as they are now.
StartWatching ==
    /\ phase = "restored"
    /\ phase' = "idle"
    /\ seen' = config
    /\ UNCHANGED <<stage, gone, engineVars, built, read, config, broken,
                   diskVars, crashes>>

\* Someone edits the config, into one that loads or one that does not.
Edit ==
    /\ config < MaxEdits
    /\ phase \in {"read", "restored"} => EditsWhileStarting
    /\ config' = config + 1
    /\ \E fails \in BOOLEAN :
           broken' = IF fails THEN broken \cup {config + 1} ELSE broken
    /\ UNCHANGED <<phase, stage, gone, engineVars, built, seen, read, diskVars,
                   crashes>>

-----------------------------------------------------------------------------
(* Reloading: engine.current(), between signals.                            *)

\* Watch::changed: the fingerprint is kept before anything is rebuilt.
SeeChange ==
    /\ phase = "idle" /\ active = {}
    /\ \E s \in Signals : stage[s] = "waiting"
    /\ config # seen
    /\ seen' = config
    /\ phase' = "changed"
    /\ UNCHANGED <<stage, gone, engineVars, built, read, config, broken,
                   diskVars, crashes>>

ReadConfig ==
    /\ phase = "changed"
    /\ read' = config
    /\ phase' = "rebuilt"
    /\ UNCHANGED <<stage, gone, engineVars, built, seen, config, broken,
                   diskVars, crashes>>

\* Faulty variant: a rebuild takes what was learned from the file.
LearnedFromFile == learned_file

\* The rebuilt engine is given the old one's learned patterns.
LearnedFromOld == learned

\* Faulty variant: files are fingerprinted again after the rebuild.
SeenAfterRebuild == config

\* A rebuild leaves the fingerprint as it was taken before.
SeenBeforeRebuild == seen

\* A rebuild that fails keeps the running engine.  One that works replaces it,
\* with its memory and what it learned, and a fresh learned_changed.
Rebuild ==
    /\ phase = "rebuilt"
    /\ phase' = "idle"
    /\ IF read \in broken
       THEN UNCHANGED <<built, learned, changed>>
       ELSE /\ built' = read
            /\ learned' = LearnedFromOld
            /\ changed' = FALSE
    /\ seen' = SeenBeforeRebuild
    /\ UNCHANGED <<stage, gone, memory, before, read, config, broken, diskVars,
                   crashes>>

-----------------------------------------------------------------------------
(* Signals.                                                                 *)

Advance(s, to) == stage' = [stage EXCEPT ![s] = to]

Arrive(s) ==
    /\ phase \notin Starting /\ stage[s] = "new"
    /\ Advance(s, "waiting")
    /\ UNCHANGED <<phase, gone, engineVars, configVars, diskVars, crashes>>

Leave(s) ==
    /\ stage[s] \in {"waiting", "judging", "judged"} /\ s \notin gone
    /\ gone' = gone \cup {s}
    /\ UNCHANGED <<phase, stage, engineVars, configVars, diskVars, crashes>>

\* sweep: a waiting signal whose host is gone is never started.
Drop(s) ==
    /\ phase = "idle" /\ stage[s] = "waiting" /\ s \in gone
    /\ Advance(s, "dropped")
    /\ UNCHANGED <<phase, gone, engineVars, configVars, diskVars, crashes>>

\* Faulty variant: a signal is judged beside a lone one.
MayBeginBeside(s) ==
    /\ Cardinality(active) < MaxActive
    /\ s \in Alone => active = {}

\* admit, as far as memory is concerned: nothing is judged beside a lone one.
MayBegin(s) ==
    /\ Cardinality(active) < MaxActive
    /\ \A k \in active : before[k] = None
    /\ s \in Alone => active = {}

\* runs_alone: the memory is saved before such a signal.
KeepsMemory(s) == s \in Alone

\* begin: Engine::start records the signal, and questions go out.
Begin(s) ==
    /\ phase = "idle" /\ stage[s] = "waiting" /\ MayBegin(s)
    /\ Advance(s, "judging")
    /\ before' = [before EXCEPT ![s] =
                      IF KeepsMemory(s) THEN Some(memory) ELSE None]
    /\ memory' = memory \cup {s}
    /\ UNCHANGED <<phase, gone, learned, changed, configVars, diskVars,
                   crashes>>

\* The first round's valid answers may teach patterns.
Learn(s) ==
    /\ phase = "idle" /\ stage[s] = "judging"
    /\ Advance(s, "judged")
    /\ \E new \in SUBSET Patterns :
           /\ learned' = learned \cup new
           /\ changed' = (changed \/ new \ learned # {})
    /\ UNCHANGED <<phase, gone, memory, before, configVars, diskVars, crashes>>

\* The memory after a lone signal whose host is gone; other signals leave
\* theirs.  Learned patterns are not part of it.
Undone(s) == IF before[s] = None THEN memory ELSE CHOOSE m \in before[s] : TRUE

\* abandon, and complete when the host is gone: nothing is saved.
Abandon(s) ==
    /\ phase = "idle" /\ s \in active /\ s \in gone
    /\ Advance(s, "dropped")
    /\ memory' = Undone(s)
    /\ before' = [before EXCEPT ![s] = None]
    /\ UNCHANGED <<phase, gone, learned, changed, configVars, diskVars,
                   crashes>>

\* complete: the reply goes out first.  A signal refused at once, or settled
\* at once, is completed too.
Answer(s) ==
    /\ phase = "idle" /\ s \notin gone
    /\ stage[s] \in {"judging", "judged"}
    /\ Advance(s, "replied")
    /\ before' = [before EXCEPT ![s] = None]
    /\ phase' = "answered"
    /\ UNCHANGED <<gone, memory, learned, changed, configVars, diskVars,
                   crashes>>

\* Engine::start rejects the signal: nothing is recorded, the error is the
\* reply, and the memory is saved all the same.
AnswerInvalid(s) ==
    /\ phase = "idle" /\ s \notin gone /\ stage[s] = "waiting" /\ MayBegin(s)
    /\ Advance(s, "replied")
    /\ phase' = "answered"
    /\ UNCHANGED <<gone, engineVars, configVars, diskVars, crashes>>

-----------------------------------------------------------------------------
(* complete's saves: persist, then learned::save.                           *)

\* Faulty variant: the state file is written in place.
WhileWritingInPlace == {}

\* The state file while its next content is written to a temporary file.
WhileWriting == state_file

WriteState ==
    /\ phase = "answered"
    /\ phase' = "written"
    /\ state_file' = WhileWriting
    /\ UNCHANGED <<stage, gone, engineVars, configVars, learned_file, kept,
                   crashes>>

\* The temporary file replaces the state file.
RenameState ==
    /\ phase = "written"
    /\ phase' = "saved"
    /\ state_file' = memory
    /\ kept' = kept \cup {s \in memory : stage[s] = "replied"}
    /\ UNCHANGED <<stage, gone, engineVars, configVars, learned_file, crashes>>

\* A full disk: the error is logged, the old file stays.
WriteFails ==
    /\ phase = "answered"
    /\ phase' = "saved"
    /\ UNCHANGED <<stage, gone, engineVars, configVars, diskVars, crashes>>

\* take_learned_changed, and both learned files if it was set.
SaveLearned ==
    /\ phase = "saved"
    /\ phase' = "idle"
    /\ changed' = FALSE
    /\ learned_file' = IF changed THEN learned ELSE learned_file
    /\ UNCHANGED <<stage, gone, memory, before, learned, configVars,
                   state_file, kept, crashes>>

\* The daemon dies: hosts' calls fail, and only what is on disk is left.
Crash ==
    /\ phase # "down" /\ crashes < MaxCrashes
    /\ crashes' = crashes + 1
    /\ phase' = "down"
    /\ stage' = [s \in Signals |->
                    IF stage[s] \in {"waiting", "judging", "judged"}
                    THEN "dropped" ELSE stage[s]]
    /\ memory' = {} /\ learned' = {} /\ changed' = FALSE
    /\ before' = [s \in Signals |-> None]
    /\ UNCHANGED <<gone, configVars, diskVars>>

-----------------------------------------------------------------------------

Signal(s) ==
    \/ Arrive(s) \/ Leave(s) \/ Drop(s) \/ Begin(s) \/ Learn(s)
    \/ Abandon(s) \/ Answer(s) \/ AnswerInvalid(s)

Save == WriteState \/ RenameState \/ WriteFails \/ SaveLearned

Next ==
    \/ Build \/ Restore \/ StartWatching \/ Edit
    \/ SeeChange \/ ReadConfig \/ Rebuild
    \/ \E s \in Signals : Signal(s)
    \/ Save
    \/ Crash

Spec == Init /\ [][Next]_vars

-----------------------------------------------------------------------------
(* What must hold.                                                          *)

TypeOK ==
    /\ phase \in Phases /\ stage \in [Signals -> Stages]
    /\ gone \in SUBSET Signals /\ memory \in SUBSET Signals
    /\ before \in [Signals -> SUBSET SUBSET Signals]
    /\ \A s \in Signals : before[s] # None => s \in Alone \cap active
    /\ learned \in SUBSET Patterns /\ changed \in BOOLEAN
    /\ {built, seen, read, config} \subseteq 0..MaxEdits
    /\ broken \subseteq 0..MaxEdits
    /\ state_file \in SUBSET Signals /\ learned_file \in SUBSET Patterns
    /\ kept \in SUBSET Signals /\ crashes \in 0..MaxCrashes

\* Signals that were answered and then saved stay in the state file, and in
\* the memory of every engine serving: no crash while saving, restart, reload
\* or undo of another signal loses them.
SavedSurvives ==
    /\ kept \subseteq state_file
    /\ phase \notin {"down", "read"} => kept \subseteq memory

\* A model error that got no reply leaves no trace: not in memory once it is
\* no longer in flight, and never on disk, even when the daemon dies first.
UndoneNeverSaved ==
    \A s \in Alone : stage[s] # "replied" =>
        /\ s \notin state_file
        /\ s \notin active => s \notin memory

\* A running engine forgets no learned pattern, whether it is rebuilt, restored
\* or a lone signal is undone; a saved one is never taken off its file.
LearnedNeverForgotten ==
    [][/\ phase # "down" /\ phase' # "down" => learned \subseteq learned'
       /\ learned_file \subseteq learned_file']_vars

\* An idle daemon whose watch has seen the current files runs the engine built
\* from them, if they load: an edit during a rebuild is never missed.
NoStaleEngine ==
    phase = "idle" /\ seen = config /\ config \notin broken => built = config

\* "adds its command to $CHAUFFEUR_STATE_DIR/learned-backstop.json
\* immediately" (ARCHITECTURE.md:116): at the latest once the signal that
\* taught it is over.
LearnedIsSaved ==
    phase = "idle" /\ active = {} => learned \subseteq learned_file

\* "`engine`, rebuilt from the files whenever they change."
\* (crates/daemon/src/engine.rs, reloading)
RebuiltOnChange == NoStaleEngine
===============================================================================
