------------------------------ MODULE Activity -------------------------------
(* What a judge is shown of an agent: its recent activity (situation.rs),    *)
(* with secrets redacted (redact.rs), and what the shapes of unknown strings *)
(* are learned to be from the answers (learning.rs), in the engine's rounds. *)
(*                                                                           *)
(* Text is a sequence of words; a word cut in two by clipping counts as      *)
(* plain.  Whether a shape is a secret is what a judge says, and two judges  *)
(* may differ.                                                               *)
EXTENDS Integers, Sequences, FiniteSets, SequencesExt

CONSTANTS
    Speakers,       \* agents
    Sayings,        \* signals: [line, clip, words, quoted, remembered]
    FollowUps,      \* what a second round may quote
    ShapeOf,        \* the shape of each value; NoShape of plain words
    NoShape,
    Keys, NoKey,    \* keys a word may follow, NoKey of those that follow none
    KnownFormats,   \* values with a listed prefix, and private keys
    Hashes,         \* shapes of hex
    Clips,          \* of each clip: head and tail
    MaxEntries, MaxStateChars, MinStateChars, HeaderChars, MaxAgents,
    MaxShapes,      \* shapes asked about
    MaxKnown,       \* shapes in a list, MAX_LEARNED
    MaxSignals, MaxAt    \* bounds

ASSUME ActivityAssumption ==
    /\ {MaxEntries, MaxAgents} \subseteq Nat \ {0}
    /\ {MaxStateChars, MinStateChars, HeaderChars, MaxShapes, MaxKnown,
        MaxSignals, MaxAt} \subseteq Nat
    /\ KnownFormats \subseteq DOMAIN ShapeOf /\ NoKey \in Keys
    /\ \A c \in DOMAIN Clips :
         {Clips[c].head, Clips[c].tail} \subseteq Nat /\ Clips[c].head + Clips[c].tail > 0

\* walk: words, each with the key before it; a path is a word a segment.
Words == [value : DOMAIN ShapeOf, key : Keys]

ASSUME WordsAssumption ==
    /\ \A saying \in Sayings :
         {saying.words, saying.quoted} \subseteq Seq(Words) /\ saying.clip \in DOMAIN Clips
    /\ FollowUps \subseteq Seq(Words)

VARIABLES
    situations,   \* Engine.situations: entries and when last active
    judging,      \* Engine.runs, by agent: see StartRun
    secrets, safes,   \* Redactor.secret and safe: shapes after a key
    signals,      \* signals so far
    did,          \* history: each agent's signals that made a line
    branded,      \* history: shapes judged secret, and kept
    vouched       \* history: shapes judged safe, after which key

activityVars ==
    <<situations, judging, secrets, safes, signals, did, branded, vouched>>

NothingDone == [entries |-> << >>, last |-> 0]
NotJudging == [round |-> 0]

ActivityInit ==
    /\ situations = << >>
    /\ judging = [a \in Speakers |-> NotJudging]
    /\ secrets = {} /\ safes = {} /\ signals = 0
    /\ did = [a \in Speakers |-> << >>] /\ branded = {} /\ vouched = {}

-----------------------------------------------------------------------------
(* Situations.                                                               *)

\* Keep::apply
Clipped(words, clip) ==
    IF Len(words) <= clip.head + clip.tail THEN words
    ELSE SubSeq(words, 1, clip.head)
           \o SubSeq(words, Len(words) - clip.tail + 1, Len(words))

\* An entry with its bullet and newline; a word counts one.
Cost(entry) == Len(entry.words) + 1

Held(entries) == FoldLeft(LAMBDA sum, entry : sum + Cost(entry), 0, entries)

\* The longest end of the entries that is within a bound, or the newest alone.
NewestWithin(entries, bound) ==
    LET fits == {n \in 1 .. Len(entries) :
                   Held(SubSeq(entries, n, Len(entries))) <= bound} \cup {Len(entries)}
    IN  SubSeq(entries, CHOOSE n \in fits : \A m \in fits : n <= m, Len(entries))

\* Situation::record
Record(situation, entry, makes_line, at) ==
    LET last == IF at > situation.last THEN at ELSE situation.last
        kept == IF Len(situation.entries) = MaxEntries THEN Tail(situation.entries)
                ELSE situation.entries
    IN  [last |-> last,
         entries |-> IF makes_line THEN NewestWithin(Append(kept, entry), MaxStateChars)
                     ELSE situation.entries]

\* Engine::evict_oldest: of several, any.
Oldest(known) ==
    {a \in DOMAIN known : \A b \in DOMAIN known : known[a].last <= known[b].last}

SituationOf(known, a) == IF a \in DOMAIN known THEN known[a] ELSE NothingDone

\* Engine::record
Remembers(known, a, saying, at) ==
    LET entry == [signal |-> signals + 1, of |-> a,
                  words |-> Clipped(saying.words, Clips[saying.clip])]
        put(rest) == [b \in rest \cup {a} |->
                        IF b = a THEN Record(SituationOf(known, a), entry, saying.line, at)
                        ELSE known[b]]
    IN  CASE ~saying.remembered -> {known}
          [] saying.remembered /\ (a \in DOMAIN known \/ Cardinality(DOMAIN known) < MaxAgents) ->
               {put(DOMAIN known)}
          [] OTHER -> {put(DOMAIN known \ {old}) : old \in Oldest(known)}

\* Situation::render, within what the questions leave (Engine::state_budget).
Render(entries, asked) ==
    LET left == MaxStateChars - Len(asked)
        budget == IF left > MinStateChars THEN left ELSE MinStateChars
    IN  IF entries = << >> THEN << >>
        ELSE NewestWithin(entries, budget - HeaderChars)

-----------------------------------------------------------------------------
(* Redaction.                                                                *)

Shown(as, word, number) == [as |-> as, word |-> word, number |-> number]

\* Credential-like: long enough hex, or mixed letters and digits.
HasShape(value) == ShapeOf[value] # NoShape

\* Masking::number: the same value gets the same number, and the key it was
\* first seen after.
NumberOf(masking, value) ==
    LET seen == {i \in DOMAIN masking : masking[i].value = value}
    IN  IF seen = {} THEN Len(masking) + 1 ELSE CHOOSE i \in seen : TRUE

\* Redactor::replace_word
ReplaceWord(word, masking, lists) ==
    LET shape == ShapeOf[word.value]
        number == NumberOf(masking, word.value)
    IN  IF \/ word.value \in KnownFormats
           \/ HasShape(word.value) /\ <<shape, NoKey>> \in lists.secrets
        THEN [shown |-> Shown("redacted", word, 0), masking |-> masking]
        ELSE IF \/ ~HasShape(word.value)
                \/ shape \in Hashes /\ word.key = NoKey
                \/ <<shape, word.key>> \in lists.safes
        THEN [shown |-> Shown("clear", word, 0), masking |-> masking]
        ELSE [shown |-> Shown("described", word, number),
              masking |-> IF number <= Len(masking) THEN masking
                          ELSE Append(masking, [value |-> word.value, shape |-> shape,
                                                key |-> word.key])]

\* Redactor::redact, with one numbering.
Redact(words, masking, lists) ==
    FoldLeft(LAMBDA done, word :
               LET next == ReplaceWord(word, done.masking, lists)
               IN  [text |-> Append(done.text, next.shown), masking |-> next.masking],
             [text |-> << >>, masking |-> masking], words)

\* The lines of a state, one after the other.
Said(entries) == FoldLeft(LAMBDA text, entry : text \o entry.words, << >>, entries)

\* A round: the state, then what the questions and evidence beside it quote.
Sends(situation, asked, lists) ==
    LET entries == Render(situation.entries, asked)
        state == Redact(Said(entries), << >>, lists)
        questions == Redact(asked, state.masking, lists)
    IN  [entries |-> [i \in DOMAIN entries |-> <<entries[i].of, entries[i].signal>>],
         text |-> state.text \o questions.text,
         masking |-> questions.masking]

\* learning::secrets and Probe::new
Probe(masking) == SubSeq(masking, 1, IF Len(masking) < MaxShapes THEN Len(masking) ELSE MaxShapes)

-----------------------------------------------------------------------------
(* The lists.                                                                *)

\* A secret only where it was seen.
LearnSecretThere(lists, shape, key) ==
    IF Cardinality(lists.secrets) >= MaxKnown \/ <<shape, key>> \in lists.secrets THEN lists
    ELSE [secrets |-> lists.secrets \cup {<<shape, key>>},
          safes |-> lists.safes \ {<<shape, key>>}]

\* Redactor::learn of a secret, whatever key it follows.
LearnSecret(lists, shape, key) ==
    IF Cardinality(lists.secrets) >= MaxKnown \/ <<shape, NoKey>> \in lists.secrets THEN lists
    ELSE [secrets |-> lists.secrets \cup {<<shape, NoKey>>},
          safes |-> lists.safes \ {<<shape, NoKey>>}]

\* Redactor::learn of one that is safe after its key.
LearnSafe(lists, shape, key) ==
    IF key = NoKey \/ Cardinality(lists.safes) >= MaxKnown \/ <<shape, key>> \in lists.safes
    THEN lists
    ELSE [secrets |-> lists.secrets \ {<<shape, key>>},
          safes |-> lists.safes \cup {<<shape, key>>}]

\* Probe::learn, each answer in turn.
LearnAll(probe, answers, known) ==
    FoldLeft(LAMBDA lists, i :
               CASE answers[i] = "secret" -> LearnSecret(lists, probe[i].shape, probe[i].key)
                 [] answers[i] = "safe"   -> LearnSafe(lists, probe[i].shape, probe[i].key)
                 [] OTHER                 -> lists,
             known, [i \in DOMAIN answers |-> i])

-----------------------------------------------------------------------------
(* Rounds.                                                                   *)

Lists == [secrets |-> secrets, safes |-> safes]

MakesEntry(saying) == saying.line /\ saying.remembered

\* Engine::start: recorded, and judged if anything is asked.
StartRun(a, saying, at) ==
    /\ signals < MaxSignals /\ signals' = signals + 1
    /\ judging[a].round = 0
    /\ did' = IF MakesEntry(saying) THEN [did EXCEPT ![a] = Append(@, signals')] ELSE did
    /\ \E known \in Remembers(situations, a, saying, at) :
         /\ situations' = known
         /\ saying.quoted # << >> =>
              LET situation == SituationOf(known, a)
                  sent == Sends(situation, saying.quoted, Lists)
              IN  judging' = [judging EXCEPT ![a] =
                    [round |-> 1, situation |-> situation, sent |-> sent,
                     probe |-> Probe(sent.masking), did |-> did'[a],
                     made |-> MakesEntry(saying)]]
         /\ saying.quoted = << >> => UNCHANGED judging
    /\ UNCHANGED <<secrets, safes, branded, vouched>>

\* resume_round: the first round's answers are learned from; a second asks anew,
\* about the same activity.  No answer teaches as much as one that is unsure.
Resume(a, answers, next) ==
    /\ LET run == judging[a]
           about(answer) == {run.probe[i] : i \in {j \in DOMAIN answers : answers[j] = answer}}
           lists == LearnAll(run.probe, answers, Lists)
       IN  /\ secrets' = lists.secrets /\ safes' = lists.safes
           /\ branded' = branded \cup {shape \in {p.shape : p \in about("secret")} :
                                         \E key \in Keys : <<shape, key>> \in lists.secrets}
           /\ vouched' = vouched \cup {<<p.shape, p.key>> : p \in about("safe")}
           /\ judging' = [judging EXCEPT ![a] =
                IF run.round = 2 \/ next = << >> THEN NotJudging
                ELSE [run EXCEPT !.round = 2, !.sent = Sends(run.situation, next, lists)]]
    /\ UNCHANGED <<situations, signals, did>>

\* Engine::cancel
CancelRun(a) ==
    /\ judging[a].round > 0
    /\ judging' = [judging EXCEPT ![a] = NotJudging]
    /\ UNCHANGED <<situations, secrets, safes, signals, did, branded, vouched>>

\* What a judge may say of the shapes it is asked about.
MaySay(a) ==
    [IF judging[a].round = 1 THEN DOMAIN judging[a].probe ELSE {} -> {"secret", "safe", "unsure"}]

ActivityNext ==
    \E a \in Speakers :
        \/ \E saying \in Sayings, at \in 0 .. MaxAt : StartRun(a, saying, at)
        \/ /\ judging[a].round > 0
           /\ \E answers \in MaySay(a), next \in FollowUps : Resume(a, answers, next)
        \/ CancelRun(a)

ActivitySpec == ActivityInit /\ [][ActivityNext]_activityVars

-----------------------------------------------------------------------------
(* Properties.                                                               *)

\* What is shown of an agent is the end of what it did up to its signal, without
\* a gap, and its signal with it.
OwnActivity(a) ==
    LET run == judging[a]
        shown == Len(run.sent.entries)
    IN  /\ shown <= Len(run.did)
        /\ run.made => shown > 0
        /\ run.sent.entries =
             [i \in 1 .. shown |-> <<a, run.did[Len(run.did) - shown + i]>>]

\* A string is shown only where its shape was judged safe, and no longer once it
\* was judged a secret.
Unrevealed(a) ==
    \A i \in DOMAIN judging[a].sent.text :
        LET shown == judging[a].sent.text[i]
            shape == ShapeOf[shown.word.value]
        IN  shown.as = "clear" /\ shape # NoShape =>
              \/ shape \in Hashes /\ shown.word.key = NoKey /\ shape \notin branded
              \/ <<shape, shown.word.key>> \in vouched /\ shape \notin branded

\* A number stands for one string, and is asked about by its shape.
Numbered(a) ==
    LET sent == judging[a].sent
        described == {sent.text[i] : i \in {j \in DOMAIN sent.text : sent.text[j].as = "described"}}
    IN  \A one, other \in described :
            /\ one.number = other.number <=> one.word.value = other.word.value
            /\ sent.masking[one.number].shape = ShapeOf[one.word.value]

\* Whatever is recorded, evicted, learned or cancelled of other agents in
\* between, every round shows the agent's own latest activity, and in it and in
\* the questions beside it no string that was not judged safe after its key,
\* under numbers that say which are the same (situation.rs, redact.rs: A shape
\* this surely a secret is always redacted from then on).
ActivityShown ==
    [][\A a \in Speakers :
        judging'[a] # judging[a] /\ judging'[a].round > 0 =>
            (OwnActivity(a) /\ Unrevealed(a) /\ Numbered(a))']_activityVars
=============================================================================
