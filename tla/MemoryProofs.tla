----------------------------- MODULE MemoryProofs -----------------------------
(* Proofs about Memory, for any number of signals, patterns, edits, crashes.  *)
EXTENDS Memory, TLAPS

\* The memory put back for a lone signal is one of those saved for it; any
\* other signal's undo changes nothing.
LEMMA UndoneIs ==
    ASSUME NEW s
    PROVE  Undone(s) = memory \/ Undone(s) \in before[s]
<1>1. CASE before[s] = None
  BY <1>1 DEF Undone
<1>2. CASE before[s] # None
  <2>1. PICK m : m \in before[s]
    BY <1>2 DEF None
  <2>2. (CHOOSE n \in before[s] : TRUE) \in before[s]
    BY <2>1
  <2>3. QED
    BY <1>2, <2>2 DEF Undone
<1>3. QED
  BY <1>1, <1>2

-----------------------------------------------------------------------------
(* Type correctness.                                                        *)

\* Starting, editing and reloading keep the types.
LEMMA ConfigType ==
    ASSUME TypeOK,
           Build \/ Restore \/ StartWatching \/ Edit \/ SeeChange
             \/ ReadConfig \/ Rebuild
    PROVE  TypeOK'
<1> USE ConstantsAssumption
    DEF TypeOK, Phases, active, engineVars, configVars, diskVars
<1>1. CASE Build
  BY <1>1 DEF Build
<1>2. CASE Restore
  BY <1>2 DEF Restore
<1>3. CASE StartWatching
  BY <1>3 DEF StartWatching
<1>4. CASE Edit
  <2>1. config + 1 \in 0..MaxEdits /\ config' = config + 1
    BY <1>4 DEF Edit
  <2>2. broken' = broken \/ broken' = broken \cup {config + 1}
    BY <1>4 DEF Edit
  <2>3. broken' \subseteq 0..MaxEdits
    BY <2>1, <2>2
  <2>4. QED
    BY <1>4, <2>1, <2>3 DEF Edit
<1>5. CASE SeeChange
  BY <1>5 DEF SeeChange
<1>6. CASE ReadConfig
  BY <1>6 DEF ReadConfig
<1>7. CASE Rebuild
  BY <1>7 DEF Rebuild, LearnedFromOld, SeenBeforeRebuild
<1>8. QED
  BY <1>1, <1>2, <1>3, <1>4, <1>5, <1>6, <1>7

\* So do signals.
LEMMA SignalType ==
    ASSUME TypeOK, NEW s \in Signals, Signal(s)
    PROVE  TypeOK'
<1> USE DEF TypeOK, Phases, Stages, active, engineVars, configVars, diskVars
<1>1. CASE Arrive(s)
  BY <1>1 DEF Arrive, Advance
<1>2. CASE Leave(s)
  BY <1>2 DEF Leave
<1>3. CASE Drop(s)
  BY <1>3 DEF Drop, Advance
<1>4. CASE Begin(s)
  <2>1. before' \in [Signals -> SUBSET SUBSET Signals]
    BY <1>4 DEF Begin, None, Some
  <2>2. \A k \in Signals : before'[k] # None => k \in Alone \cap active'
    BY <1>4 DEF Begin, Advance, KeepsMemory
  <2>3. stage' \in [Signals -> Stages] /\ memory' \in SUBSET Signals
    BY <1>4 DEF Begin, Advance
  <2>4. QED
    BY <1>4, <2>1, <2>2, <2>3 DEF Begin
<1>5. CASE Learn(s)
  BY <1>5 DEF Learn, Advance
<1>6. CASE Abandon(s)
  <2>1. memory' \in SUBSET Signals
    BY <1>6, UndoneIs DEF Abandon
  <2>2. before' \in [Signals -> SUBSET SUBSET Signals]
    BY <1>6 DEF Abandon, None
  <2>3. \A k \in Signals : before'[k] # None => k \in Alone \cap active'
    BY <1>6 DEF Abandon, Advance
  <2>4. QED
    BY <1>6, <2>1, <2>2, <2>3 DEF Abandon, Advance
<1>7. CASE Answer(s)
  <2>1. before' \in [Signals -> SUBSET SUBSET Signals]
    BY <1>7 DEF Answer, None
  <2>2. \A k \in Signals : before'[k] # None => k \in Alone \cap active'
    BY <1>7 DEF Answer, Advance
  <2>3. QED
    BY <1>7, <2>1, <2>2 DEF Answer, Advance
<1>8. CASE AnswerInvalid(s)
  BY <1>8 DEF AnswerInvalid, Advance
<1>9. QED
  BY <1>1, <1>2, <1>3, <1>4, <1>5, <1>6, <1>7, <1>8 DEF Signal

\* So do saving and crashing.
LEMMA DiskType ==
    ASSUME TypeOK, Save \/ Crash
    PROVE  TypeOK'
<1> USE DEF TypeOK, Phases, active, engineVars, configVars, diskVars
<1>1. CASE WriteState
  BY <1>1 DEF WriteState, WhileWriting
<1>2. CASE RenameState
  BY <1>2 DEF RenameState
<1>3. CASE WriteFails
  BY <1>3 DEF WriteFails
<1>4. CASE SaveLearned
  BY <1>4 DEF SaveLearned
<1>5. CASE Crash
  <2>1. stage' \in [Signals -> Stages]
    BY <1>5 DEF Crash, Stages
  <2>2. before' \in [Signals -> SUBSET SUBSET Signals]
    BY <1>5 DEF Crash, None
  <2>3. \A s \in Signals : before'[s] = None
    BY <1>5 DEF Crash
  <2>4. crashes' \in 0..MaxCrashes
    BY <1>5, ConstantsAssumption DEF Crash
  <2>5. QED
    BY <1>5, <2>1, <2>2, <2>3, <2>4 DEF Crash
<1>6. QED
  BY <1>1, <1>2, <1>3, <1>4, <1>5 DEF Save

\* Every variable keeps its type, in every behaviour: memory is saved aside
\* only for model errors, while they are judged.
THEOREM MemoryTypeCorrect == Spec => []TypeOK
<1>1. Init => TypeOK
  <2> SUFFICES ASSUME Init PROVE TypeOK
    OBVIOUS
  <2>1. /\ stage \in [Signals -> Stages]
        /\ before \in [Signals -> SUBSET SUBSET Signals]
        /\ \A s \in Signals : before[s] = None
    BY DEF Init, Stages, None
  <2>2. /\ {built, seen, read, config} \subseteq 0..MaxEdits
        /\ crashes \in 0..MaxCrashes
    BY ConstantsAssumption DEF Init
  <2>3. phase \in Phases /\ changed \in BOOLEAN
    BY DEF Init, Phases
  <2>4. /\ gone \in SUBSET Signals /\ memory \in SUBSET Signals
        /\ learned \in SUBSET Patterns /\ broken \subseteq 0..MaxEdits
        /\ state_file \in SUBSET Signals /\ kept \in SUBSET Signals
        /\ learned_file \in SUBSET Patterns
    BY DEF Init
  <2>5. QED
    BY <2>1, <2>2, <2>3, <2>4 DEF TypeOK
<1>2. TypeOK /\ [Next]_vars => TypeOK'
  <2> SUFFICES ASSUME TypeOK, [Next]_vars PROVE TypeOK'
    OBVIOUS
  <2>1. CASE UNCHANGED vars
    BY <2>1 DEF vars, TypeOK, active, engineVars, configVars, diskVars
  <2>2. QED
    BY <2>1, ConfigType, SignalType, DiskType DEF Next
<1>3. QED
  BY <1>1, <1>2, PTL DEF Spec

-----------------------------------------------------------------------------
(* A lone signal is alone.                                                  *)

\* Memory is saved aside exactly while a model error is judged, and then no
\* other signal is in flight and the daemon is doing nothing else: neither
\* reloading nor saving.
LoneInv ==
    /\ \A s \in Signals : before[s] # None => active = {s} /\ phase = "idle"
    /\ \A s \in Alone \cap active : before[s] # None

\* One step per action that starts or ends a signal or leaves "idle"; any
\* other leaves what LoneInv speaks of alone.
LEMMA LoneStep ==
    ASSUME TypeOK, LoneInv, [Next]_vars
    PROVE  LoneInv'
<1> USE DEF LoneInv, active
<1>1. CASE UNCHANGED <<stage, before, phase>>
  BY <1>1
<1>2. CASE UNCHANGED <<stage, before>> /\ phase \notin {"idle"}
  BY <1>2
<1>3. CASE SeeChange
  BY <1>3 DEF SeeChange, engineVars
<1>4. ASSUME NEW s \in Signals, Arrive(s) \/ Drop(s) \/ Learn(s)
      PROVE  LoneInv'
  <2>1. active' = active /\ UNCHANGED <<before, phase>>
    BY <1>4 DEF Arrive, Drop, Learn, Advance, TypeOK, engineVars
  <2>2. QED
    BY <2>1
<1>5. ASSUME NEW s \in Signals, Begin(s)
      PROVE  LoneInv'
  <2>1. /\ active' = active \cup {s} /\ s \notin active
        /\ phase = "idle" /\ phase' = "idle" /\ MayBegin(s)
    BY <1>5 DEF Begin, Advance, TypeOK
  <2>2. \A k \in active : before[k] = None
    BY <2>1 DEF MayBegin
  <2>3. \A k \in Signals : before[k] = None
    BY <2>2
  <2>4. /\ \A k \in Signals : k # s => before'[k] = None
        /\ before'[s] # None => s \in Alone
        /\ s \in Alone => before'[s] # None
    BY <1>5, <2>3 DEF Begin, KeepsMemory, None, Some, TypeOK
  <2>5. s \in Alone => active' = {s}
    BY <2>1 DEF MayBegin
  <2>6. \A k \in Alone \cap active' : k = s
    BY <2>1, <2>2
  <2>7. QED
    BY <2>1, <2>4, <2>5, <2>6
<1>6. ASSUME NEW s \in Signals, Abandon(s) \/ Answer(s)
      PROVE  LoneInv'
  <2>1. /\ s \in active /\ active' = active \ {s}
        /\ before' = [before EXCEPT ![s] = None]
    BY <1>6 DEF Abandon, Answer, Advance, TypeOK
  <2>2. \A k \in Signals : before'[k] # None => k # s /\ before[k] # None
    BY <2>1 DEF TypeOK
  <2>3. \A k \in Signals : before'[k] = None
    BY <2>1, <2>2
  <2>4. \A k \in Alone \cap active' : before[k] # None /\ k # s
    BY <2>1
  <2>5. QED
    BY <2>1, <2>3, <2>4
<1>7. ASSUME NEW s \in Signals, AnswerInvalid(s)
      PROVE  LoneInv'
  <2>1. /\ active' = active /\ UNCHANGED before
        /\ \A k \in active : before[k] = None
    BY <1>7 DEF AnswerInvalid, Advance, MayBegin, TypeOK, engineVars
  <2>2. QED
    BY <2>1
<1>8. CASE Crash
  <2>1. active' = {} /\ \A s \in Signals : before'[s] = None
    BY <1>8 DEF Crash, TypeOK
  <2>2. QED
    BY <2>1
<1>9. QED
  <2>1. CASE Build \/ Restore \/ StartWatching \/ Edit \/ ReadConfig \/ Rebuild
    BY <2>1, <1>1, <1>2
       DEF Build, Restore, StartWatching, Edit, ReadConfig, Rebuild,
           engineVars
  <2>2. CASE Save
    BY <2>2, <1>2
       DEF Save, WriteState, RenameState, WriteFails, SaveLearned, engineVars
  <2>3. CASE \E s \in Signals : Leave(s)
    BY <2>3, <1>1 DEF Leave, engineVars
  <2>4. CASE UNCHANGED vars
    BY <2>4, <1>1 DEF vars, engineVars
  <2>5. QED
    BY <2>1, <2>2, <2>3, <2>4, <1>3, <1>4, <1>5, <1>6, <1>7, <1>8
       DEF Next, Signal

-----------------------------------------------------------------------------
(* What was saved survives.                                                 *)

\* The memory saved aside holds all that was answered and saved: nothing else
\* is answered before it may be put back.  While the state file is written,
\* the memory in it is the engine's.
SavedInv ==
    /\ SavedSurvives
    /\ \A s \in Signals : \A m \in before[s] : kept \subseteq m

LEMMA SavedStep ==
    ASSUME TypeOK, LoneInv, SavedInv, [Next]_vars
    PROVE  SavedInv'
<1> USE DEF SavedInv, SavedSurvives
<1>1. ASSUME UNCHANGED <<memory, before, state_file, kept>>,
             phase' = phase \/ phase \notin {"down", "read"}
      PROVE  SavedInv'
  BY <1>1
<1>2. CASE Build \/ Restore
  BY <1>2 DEF Build, Restore, diskVars
<1>3. CASE StartWatching \/ Edit \/ SeeChange \/ ReadConfig \/ Rebuild
  BY <1>3, <1>1
     DEF StartWatching, Edit, SeeChange, ReadConfig, Rebuild, engineVars,
         diskVars
<1>4. ASSUME NEW s \in Signals, Signal(s)
      PROVE  SavedInv'
  <2>1. CASE Arrive(s) \/ Leave(s) \/ Drop(s) \/ Learn(s) \/ AnswerInvalid(s)
    <3>1. UNCHANGED <<memory, before, state_file, kept>>
      BY <2>1 DEF Arrive, Leave, Drop, Learn, AnswerInvalid, engineVars,
                  diskVars
    <3>2. phase' = phase \/ phase \notin {"down", "read"}
      BY <2>1 DEF Arrive, Leave, Drop, Learn, AnswerInvalid
    <3>3. QED
      BY <3>1, <3>2, <1>1
  <2>2. CASE Begin(s)
    <3>1. /\ phase = "idle" /\ memory' = memory \cup {s}
          /\ UNCHANGED <<phase, state_file, kept>>
      BY <2>2 DEF Begin, diskVars
    <3>2. \A m \in before'[s] : m = memory
      BY <2>2 DEF Begin, None, Some, TypeOK
    <3>3. \A k \in Signals : k # s => before'[k] = before[k]
      BY <2>2 DEF Begin, TypeOK
    <3>4. QED
      BY <3>1, <3>2, <3>3
  <2>3. CASE Abandon(s)
    <3>1. /\ phase = "idle" /\ memory' = Undone(s)
          /\ UNCHANGED <<phase, state_file, kept>>
      BY <2>3 DEF Abandon, diskVars
    <3>2. \A k \in Signals : before'[k] = before[k] \/ before'[k] = {}
      BY <2>3 DEF Abandon, None, TypeOK
    <3>3. kept \subseteq memory'
      BY <3>1, UndoneIs
    <3>4. QED
      BY <3>1, <3>2, <3>3
  <2>4. CASE Answer(s)
    <3>1. /\ phase = "idle"
          /\ UNCHANGED <<memory, state_file, kept>>
      BY <2>4 DEF Answer, diskVars
    <3>2. \A k \in Signals : before'[k] = before[k] \/ before'[k] = {}
      BY <2>4 DEF Answer, None, TypeOK
    <3>3. QED
      BY <3>1, <3>2
  <2>5. QED
    BY <1>4, <2>1, <2>2, <2>3, <2>4 DEF Signal
<1>5. CASE WriteState \/ WriteFails \/ SaveLearned
  BY <1>5, <1>1
     DEF WriteState, WhileWriting, WriteFails, SaveLearned, engineVars,
         diskVars
<1>6. CASE RenameState
  <2>1. /\ state_file' = memory /\ memory' = memory /\ UNCHANGED before
        /\ kept' \subseteq memory
    BY <1>6 DEF RenameState, engineVars
  <2>2. \A s \in Signals : before[s] = None
    BY <1>6 DEF RenameState, LoneInv
  <2>3. QED
    BY <2>1, <2>2 DEF None
<1>7. CASE Crash
  BY <1>7 DEF Crash, diskVars, None
<1>8. CASE UNCHANGED vars
  BY <1>8, <1>1 DEF vars, engineVars, diskVars
<1>9. QED
  BY <1>2, <1>3, <1>4, <1>5, <1>6, <1>7, <1>8 DEF Next, Save

\* No crash while saving, restart, reload or undo loses a signal that was
\* answered and then saved.
THEOREM SavedMemorySurvives == Spec => []SavedSurvives
<1>1. Init => LoneInv /\ SavedInv
  BY DEF Init, LoneInv, active, SavedInv, SavedSurvives, None
<1>2. TypeOK /\ LoneInv /\ SavedInv /\ [Next]_vars => LoneInv' /\ SavedInv'
  BY LoneStep, SavedStep
<1>3. SavedInv => SavedSurvives
  BY DEF SavedInv
<1>4. QED
  BY <1>1, <1>2, <1>3, MemoryTypeCorrect, PTL DEF Spec

-----------------------------------------------------------------------------
(* What was undone was never saved.                                         *)

\* A model error without a reply is nowhere but in the engine's memory, while
\* it is judged; not in the memory saved aside, for it or for another.
Unanswered(s) == s \in Alone /\ stage[s] # "replied"

UndoneInv ==
    /\ UndoneNeverSaved
    /\ \A s \in Signals : \A m \in before[s] :
           \A t \in Alone : Unanswered(t) => t \notin m

LEMMA UndoneStep ==
    ASSUME TypeOK, LoneInv, UndoneInv, [Next]_vars
    PROVE  UndoneInv'
<1> USE ConstantsAssumption DEF UndoneInv, UndoneNeverSaved, Unanswered
<1>1. ASSUME UNCHANGED <<memory, before, state_file>>,
             \A t \in Alone : Unanswered(t)' => Unanswered(t),
             \A t \in Alone : Unanswered(t)' /\ t \notin active'
                                => t \notin active
      PROVE  UndoneInv'
  BY <1>1
<1>2. CASE Restore
  BY <1>2 DEF Restore, diskVars, active
<1>3. CASE \/ Build \/ StartWatching \/ Edit \/ SeeChange \/ ReadConfig
           \/ Rebuild \/ UNCHANGED vars
  <2>1. UNCHANGED <<memory, before, state_file, stage>>
    BY <1>3 DEF Build, StartWatching, Edit, SeeChange, ReadConfig, Rebuild,
                vars, engineVars, diskVars
  <2>2. QED
    BY <2>1 DEF active
<1>4. ASSUME NEW s \in Signals, Signal(s)
      PROVE  UndoneInv'
  <2>1. CASE Arrive(s) \/ Leave(s) \/ Drop(s) \/ Learn(s)
    <3>1. UNCHANGED <<memory, before, state_file>>
      BY <2>1 DEF Arrive, Leave, Drop, Learn, engineVars, diskVars
    <3>2. /\ active' = active
          /\ \A t \in Alone : Unanswered(t)' => Unanswered(t)
      BY <2>1 DEF Arrive, Leave, Drop, Learn, Advance, TypeOK, active
    <3>3. QED
      BY <3>1, <3>2
  <2>2. CASE AnswerInvalid(s)
    <3>1. UNCHANGED <<memory, before, state_file>>
      BY <2>2 DEF AnswerInvalid, engineVars, diskVars
    <3>2. /\ active' = active
          /\ \A t \in Alone : Unanswered(t)' => Unanswered(t)
      BY <2>2 DEF AnswerInvalid, Advance, TypeOK, active
    <3>3. QED
      BY <3>1, <3>2
  <2>3. CASE Begin(s)
    <3>1. /\ memory' = memory \cup {s} /\ active' = active \cup {s}
          /\ UNCHANGED state_file /\ MayBegin(s)
          /\ \A t \in Alone : Unanswered(t)' = Unanswered(t)
      BY <2>3 DEF Begin, Advance, diskVars, TypeOK, active
    <3>2. s \in Alone => active = {}
      BY <3>1 DEF MayBegin
    <3>3. /\ s \notin Alone => before'[s] = {}
          /\ \A m \in before'[s] : m = memory
          /\ \A k \in Signals : k # s => before'[k] = before[k]
      BY <2>3 DEF Begin, KeepsMemory, None, Some, TypeOK
    <3>4. \A m \in before'[s] : \A t \in Alone : Unanswered(t) => t \notin m
      BY <3>2, <3>3
    <3>5. QED
      BY <3>1, <3>3, <3>4
  <2>4. CASE Abandon(s)
    <3>1. /\ s \in active /\ active' = active \ {s}
          /\ memory' = Undone(s) /\ UNCHANGED state_file
          /\ \A t \in Alone : Unanswered(t)' => Unanswered(t)
      BY <2>4 DEF Abandon, Advance, diskVars, TypeOK, active
    <3>2. \A k \in Signals : before'[k] = before[k] \/ before'[k] = {}
      BY <2>4 DEF Abandon, None, TypeOK
    <3>3. CASE s \in Alone
      <4>1. before[s] # None
        BY <3>1, <3>3 DEF LoneInv
      <4>2. Undone(s) \in before[s]
        <5>1. PICK m : m \in before[s]
          BY <4>1 DEF None
        <5>2. (CHOOSE n \in before[s] : TRUE) \in before[s]
          BY <5>1
        <5>3. QED
          BY <4>1, <5>2 DEF Undone
      <4>3. QED
        BY <3>1, <3>2, <4>2
    <3>4. CASE s \notin Alone
      <4>1. before[s] = None
        BY <3>4 DEF TypeOK
      <4>2. memory' = memory
        BY <3>1, <4>1 DEF Undone
      <4>3. QED
        BY <3>1, <3>2, <3>4, <4>2
    <3>5. QED
      BY <3>3, <3>4
  <2>5. CASE Answer(s)
    <3>1. /\ active' = active \ {s} /\ UNCHANGED <<memory, state_file>>
          /\ \A t \in Alone : Unanswered(t)' => Unanswered(t) /\ t # s
      BY <2>5 DEF Answer, Advance, diskVars, TypeOK, active
    <3>2. \A k \in Signals : before'[k] = before[k] \/ before'[k] = {}
      BY <2>5 DEF Answer, None, TypeOK
    <3>3. QED
      BY <3>1, <3>2
  <2>6. QED
    BY <1>4, <2>1, <2>2, <2>3, <2>4, <2>5 DEF Signal
<1>5. CASE WriteState \/ WriteFails \/ SaveLearned
  <2>1. UNCHANGED <<memory, before, state_file, stage>>
    BY <1>5 DEF WriteState, WhileWriting, WriteFails, SaveLearned, engineVars,
                diskVars
  <2>2. QED
    BY <2>1 DEF active
<1>6. CASE RenameState
  <2>1. /\ state_file' = memory /\ UNCHANGED <<memory, before, stage>>
        /\ phase # "idle"
    BY <1>6 DEF RenameState, engineVars
  <2>2. \A s \in Alone \cap active : FALSE
    BY <2>1 DEF LoneInv, active
  <2>3. QED
    BY <2>1, <2>2 DEF active
<1>7. CASE Crash
  <2>1. /\ memory' = {} /\ UNCHANGED state_file
        /\ \A k \in Signals : before'[k] = {}
        /\ \A t \in Alone : Unanswered(t)' => Unanswered(t)
    BY <1>7 DEF Crash, diskVars, None, TypeOK
  <2>2. QED
    BY <2>1
<1>8. QED
  BY <1>2, <1>3, <1>4, <1>5, <1>6, <1>7 DEF Next, Save

\* A model error without a reply is not in memory once it is over, and never
\* on disk: what an undo takes back was not saved in the meantime.
THEOREM UndoneMemoryNeverSaved == Spec => []UndoneNeverSaved
<1>1. Init => LoneInv /\ UndoneInv
  BY DEF Init, LoneInv, active, UndoneInv, UndoneNeverSaved, None
<1>2. TypeOK /\ LoneInv /\ UndoneInv /\ [Next]_vars => LoneInv' /\ UndoneInv'
  BY LoneStep, UndoneStep
<1>3. UndoneInv => UndoneNeverSaved
  BY DEF UndoneInv
<1>4. QED
  BY <1>1, <1>2, <1>3, MemoryTypeCorrect, PTL DEF Spec

-----------------------------------------------------------------------------
(* What is learned.                                                         *)

\* The running engine knows what is in the learned files.
LearnedInv == phase # "down" => learned_file \subseteq learned

\* A running engine forgets no pattern, and a saved one stays on file.
THEOREM LearnedKept == Spec => LearnedNeverForgotten
<1> DEFINE Keeps ==
      /\ phase # "down" /\ phase' # "down" => learned \subseteq learned'
      /\ learned_file \subseteq learned_file'
<1>1. Init => LearnedInv
  BY DEF Init, LearnedInv
<1>2. LearnedInv /\ [Next]_vars => LearnedInv' /\ Keeps
  <2> SUFFICES ASSUME LearnedInv, [Next]_vars PROVE LearnedInv' /\ Keeps
    OBVIOUS
  <2> USE DEF LearnedInv
  <2>1. CASE UNCHANGED <<learned, learned_file>> /\ phase # "down"
    BY <2>1
  <2>2. CASE UNCHANGED <<learned, learned_file, phase>>
    BY <2>2
  <2>3. CASE Build
    BY <2>3 DEF Build, diskVars
  <2>4. CASE Restore \/ StartWatching \/ SeeChange \/ ReadConfig
    BY <2>4, <2>1 DEF Restore, StartWatching, SeeChange, ReadConfig,
                      engineVars, diskVars
  <2>5. CASE Rebuild
    BY <2>5 DEF Rebuild, LearnedFromOld, diskVars
  <2>6. CASE Edit \/ UNCHANGED vars
    BY <2>6, <2>2 DEF Edit, vars, engineVars, diskVars
  <2>7. ASSUME NEW s \in Signals, Signal(s)
        PROVE  LearnedInv' /\ Keeps
    <3>1. CASE Learn(s)
      BY <3>1 DEF Learn, diskVars
    <3>2. CASE Arrive(s) \/ Leave(s)
      BY <3>2, <2>2 DEF Arrive, Leave, engineVars, diskVars
    <3>3. CASE Drop(s) \/ Begin(s) \/ Abandon(s) \/ Answer(s)
                 \/ AnswerInvalid(s)
      BY <3>3, <2>1 DEF Drop, Begin, Abandon, Answer, AnswerInvalid,
                        engineVars, diskVars
    <3>4. QED
      BY <2>7, <3>1, <3>2, <3>3 DEF Signal
  <2>8. CASE WriteState \/ RenameState \/ WriteFails
    BY <2>8, <2>1 DEF WriteState, RenameState, WriteFails, engineVars, diskVars
  <2>9. CASE SaveLearned
    BY <2>9 DEF SaveLearned
  <2>10. CASE Crash
    BY <2>10 DEF Crash, diskVars
  <2>11. QED
    BY <2>3, <2>4, <2>5, <2>6, <2>7, <2>8, <2>9, <2>10 DEF Next, Save
<1>3. QED
  BY <1>1, <1>2, PTL DEF Spec, LearnedNeverForgotten

-----------------------------------------------------------------------------
(* No edit is missed.                                                       *)

\* The fingerprint is never newer than the files.  Until the files change
\* again, the engine, or the rebuild in progress, is of the files it was taken
\* from.
WatchInv ==
    /\ seen <= config
    /\ phase \in {"read", "restored"} => built = config /\ config \notin broken
    /\ phase = "rebuilt" /\ seen = config => read = config
    /\ phase \in {"idle", "answered", "written", "saved"}
         /\ seen = config /\ config \notin broken => built = config

\* If nobody edits the config while the daemon starts, a daemon that is idle
\* runs the engine built from the files its watch saw, if they load.
THEOREM NoEditMissed == ~EditsWhileStarting => (Spec => []NoStaleEngine)
<1> SUFFICES ASSUME ~EditsWhileStarting PROVE Spec => []NoStaleEngine
  OBVIOUS
<1>1. Init => WatchInv
  BY DEF Init, WatchInv
<1>2. TypeOK /\ WatchInv /\ [Next]_vars => WatchInv'
  <2> SUFFICES ASSUME TypeOK, WatchInv, [Next]_vars PROVE WatchInv'
    OBVIOUS
  <2> USE DEF WatchInv
  <2>0. seen \in Nat /\ config \in Nat /\ built \in Nat /\ read \in Nat
    BY ConstantsAssumption DEF TypeOK
  <2>1. CASE UNCHANGED <<built, seen, read, config, broken, phase>>
    BY <2>1
  <2>2. CASE /\ UNCHANGED <<built, seen, read, config, broken>>
             /\ phase \in {"idle", "answered", "written", "saved"}
             /\ phase' \in {"idle", "answered", "written", "saved"}
    BY <2>2
  <2>3. CASE Build
    BY <2>3 DEF Build
  <2>4. CASE Restore
    BY <2>4 DEF Restore, configVars
  <2>5. CASE StartWatching
    BY <2>0, <2>5 DEF StartWatching
  <2>6. CASE Edit
    <3>1. /\ phase \notin {"read", "restored"} /\ phase' = phase
          /\ seen' = seen /\ config' = config + 1 /\ config' \in Nat
      BY <2>0, <2>6 DEF Edit, engineVars
    <3>2. seen' <= config' /\ seen' # config'
      BY <2>0, <3>1
    <3>3. QED
      BY <3>1, <3>2
  <2>7. CASE SeeChange
    BY <2>0, <2>7 DEF SeeChange
  <2>8. CASE ReadConfig
    BY <2>8 DEF ReadConfig
  <2>9. CASE Rebuild
    BY <2>9 DEF Rebuild, SeenBeforeRebuild
  <2>10. CASE (\E s \in Signals : Signal(s)) \/ Save \/ UNCHANGED vars
    BY <2>10, <2>1, <2>2
       DEF Signal, Arrive, Leave, Drop, Begin, Learn, Abandon, Answer,
           AnswerInvalid, Save, WriteState, RenameState, WriteFails,
           SaveLearned, vars, configVars
  <2>11. CASE Crash
    BY <2>11 DEF Crash, configVars
  <2>12. QED
    BY <2>3, <2>4, <2>5, <2>6, <2>7, <2>8, <2>9, <2>10, <2>11 DEF Next
<1>3. WatchInv => NoStaleEngine
  BY DEF WatchInv, NoStaleEngine
<1>4. QED
  BY <1>1, <1>2, <1>3, MemoryTypeCorrect, PTL DEF Spec
===============================================================================
