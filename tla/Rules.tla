------------------------------- MODULE Rules --------------------------------
(* The rules capability: rules and rulebooks that the facts of a session     *)
(* admit, that a judgment confirms, and whose contexts are delivered, and    *)
(* the host's part in it: an agent that works, ends its turn and is resumed. *)
(*                                                                           *)
(* What a judgment finds is any subset of the rules it asked.  Gates on the  *)
(* text of a call are left out: a rule they refuse is one that does not hold.*)
EXTENDS Integers, FiniteSets, Sequences, SequencesExt

CONSTANTS
    Agents,
    Tools,
    Shipped,       \* rules that apply everywhere
    Project,       \* rules of the workspace, while they can be read
    Shelf,         \* rulebooks offered: id |-> [budget, otherwise, needs_args, rules]
    Continues,     \* CHAUFFEUR_IDLE_STEERING
    MaxDeliveries, MaxRunning, MaxSessions,
    MaxCommands,   \* bound: commands and messages of the user
    MaxNow         \* bound: ticks of the clock

VARIABLES
    sessions,    \* Books.sessions: each agent's running books
    fired,       \* when a rule last delivered, and whether `once` is spent
    history,     \* tools called this turn and this session
    asked,       \* the judgment in progress for an agent's signal
    said,        \* the contexts the latest signal delivered to each agent
    working,     \* agents in the middle of a turn
    readable,    \* whether the project's rules can be read
    now, commands,
    heard,       \* history: deliveries of a book since its start
    pokes        \* history: times a book woke the agent since it last worked

bookVars == <<sessions, heard, pokes>>
signalVars == <<fired, history, asked, said, working>>
rulesVars == <<bookVars, signalVars, readable, now, commands>>

\* Of no book, or of no rule.
NoBook == << >>
Books == DOMAIN Shelf
Todos == {"none", "open", "done"}

-----------------------------------------------------------------------------
(* The format.  A rule's id is a sequence of words, its book's first.        *)

Rule == [id : Seq(STRING), on : {"tool_result", "turn_end"},
         tools : SUBSET Tools, called : SUBSET Tools, todos : SUBSET Todos,
         window : {"turn", "session"}, once : BOOLEAN, cooldown : Nat,
         steps : Nat, reviewed : BOOLEAN, holds_on : STRING, priority : Nat,
         place : Nat, delivery : {"steer", "resume", "wait"},
         end : {"complete", "pause", "none"}]

\* Rule::validate_as_part, its bounds on text and lists left out.
ValidRule(r) ==
    /\ IF r.on = "tool_result"
       THEN r.tools # {} /\ r.delivery = "steer"
       ELSE r.tools = {} /\ r.delivery \in {"resume", "wait"}
    /\ r.todos # {} => r.on = "turn_end"
    /\ r.steps \in 1..2
    /\ r.reviewed =>
         /\ r.steps = 1 /\ r.on = "turn_end"
         /\ r.holds_on \in {"complete", "continue", "blocked"}
         /\ r.end = "complete" => r.holds_on = "complete"

\* Rulebook::validate.
ValidBook(id) ==
    /\ Shelf[id].budget \in Nat \ {0}
    /\ Shelf[id].rules # {}
    /\ \A r \in Shelf[id].rules :
          /\ ValidRule(r) /\ IsStrictPrefix(id, r.id)
          /\ r.end # "none" => r.on = "turn_end"

AllRules == Shipped \cup Project \cup UNION {Shelf[id].rules : id \in Books}

\* `place` is where a rule stands in the list, so no two rules tie.
ASSUME RulesAssumption ==
    /\ Books \subseteq Seq(STRING) \ {NoBook} /\ AllRules \subseteq Rule
    /\ \A id \in Books : ValidBook(id)
    /\ \A r \in Shipped \cup Project : ValidRule(r) /\ r.end = "none"
    /\ \A r, s \in AllRules :
          r.priority = s.priority /\ r.steps = s.steps /\ r.place = s.place => r = s
    /\ {MaxDeliveries, MaxRunning, MaxSessions} \subseteq Nat \ {0}
    /\ MaxCommands \in Nat /\ MaxNow \in Nat
    /\ Continues \in BOOLEAN

RunningBook == [paused : BOOLEAN, deliveries : Nat, worked : BOOLEAN]

Context == [book : Books \cup {NoBook}, rule : Seq(STRING),
            kind : {"rule", "otherwise", "budget", "start", "answer"},
            delivery : {"steer", "resume", "wait"},
            held : BOOLEAN]   \* history: a rule of the book held

RulesInit ==
    /\ sessions = << >>
    /\ fired = [a \in Agents |-> << >>]
    /\ history = [a \in Agents |-> [turn |-> {}, session |-> {}]]
    /\ asked = << >>
    /\ said = [a \in Agents |-> {}]
    /\ working = {} /\ readable = TRUE /\ now = 0 /\ commands = 0
    /\ heard = [a \in Agents |-> [b \in Books |-> 0]]
    /\ pokes = [a \in Agents |-> [b \in Books |-> 0]]

Updated(f, x, v) == [y \in DOMAIN f \cup {x} |-> IF y = x THEN v ELSE f[y]]

RunningOf(a) == IF a \in DOMAIN sessions THEN sessions[a] ELSE << >>

-----------------------------------------------------------------------------
(* What is asked.                                                            *)

\* A project rule that reuses a shipped id is left out.
RulesFor ==
    Shipped \cup (IF readable
                  THEN {r \in Project : \A s \in Shipped : s.id # r.id}
                  ELSE {})

\* Turn-end rules wait until the agent has worked.
ChecksTurn(running) == running.worked /\ Continues

BookRules(a, trigger) ==
    UNION {Shelf[b].rules : b \in
             {c \in DOMAIN RunningOf(a) :
                 /\ ~RunningOf(a)[c].paused
                 /\ trigger = "turn_end" => ChecksTurn(RunningOf(a)[c])}}

TurnBooks(a) ==
    {b \in DOMAIN RunningOf(a) :
        /\ ~RunningOf(a)[b].paused /\ ChecksTurn(RunningOf(a)[b])
        /\ \E r \in Shelf[b].rules : r.on = "turn_end"}

MayFire(a, r) ==
    r.id \in DOMAIN fired[a] =>
        /\ ~(r.once /\ fired[a][r.id].spent)
        /\ now - fired[a][r.id].at >= r.cooldown

Admits(a, r, calls, todos) ==
    /\ r.called \subseteq (IF r.window = "turn" THEN calls.turn ELSE calls.session)
    /\ r.todos = {} \/ todos \in r.todos

Asked(a, trigger, tool, calls, todos) ==
    {r \in RulesFor \cup BookRules(a, trigger) :
        /\ r.on = trigger
        /\ trigger = "tool_result" => tool \in r.tools
        /\ Admits(a, r, calls, todos) /\ MayFire(a, r)}

-----------------------------------------------------------------------------
(* What is delivered.                                                        *)

\* The running book a rule belongs to, by the longest matching id.
Owner(a, r) ==
    LET fits == {b \in DOMAIN RunningOf(a) : IsStrictPrefix(b, r.id)}
    IN  IF fits = {} THEN NoBook
        ELSE CHOOSE b \in fits : \A c \in fits : Len(c) <= Len(b)

Ahead(r, s) ==
    \/ r.priority > s.priority
    \/ r.priority = s.priority /\ r.steps < s.steps
    \/ r.priority = s.priority /\ r.steps = s.steps /\ r.place < s.place

\* One rule of each running book, and no more than the limit in all.
Chosen(a, held) ==
    LET voiced == {r \in held : Owner(a, r) = NoBook
                     \/ \A s \in held : Owner(a, s) = Owner(a, r) => ~Ahead(s, r)}
    IN  {r \in voiced :
            Cardinality({s \in voiced : Ahead(s, r)}) < MaxDeliveries}

SpentLate(a, b) == RunningOf(a)[b].deliveries > Shelf[b].budget
Spent(a, b) == RunningOf(a)[b].deliveries >= Shelf[b].budget

\* Books.deliver: what is left of a book once a rule of it delivers.
Delivered(running, r) ==
    [paused |-> running.paused \/ r.end = "pause",
     deliveries |-> running.deliveries + 1,
     worked |-> running.worked /\ r.delivery # "resume"]

Voice(b, r, kind, delivery, held) ==
    [book |-> b, rule |-> r, kind |-> kind, delivery |-> delivery,
     held |-> held]

\* Books a turn end asked, none of whose rules is delivered.
QuietWhenSilent(a, chosen, turn) ==
    {b \in turn \cap DOMAIN RunningOf(a) : chosen = {}}

Quiet(a, chosen, turn) ==
    {b \in turn \cap DOMAIN RunningOf(a) : \A r \in chosen : Owner(a, r) # b}

Holding(a, held, b) == \E r \in held : Owner(a, r) = b

\* A spent budget replaces what would be delivered, and stops the book.
Contexts(a, held, chosen, turn) ==
    {LET b == Owner(a, r)
     IN  IF b # NoBook /\ Spent(a, b)
         THEN Voice(b, NoBook, "budget", "resume", Holding(a, held, b))
         ELSE Voice(b, r.id, "rule", r.delivery, TRUE) : r \in chosen}
      \cup {Voice(b, NoBook, "budget", "resume", Holding(a, held, b)) :
              b \in {c \in Quiet(a, chosen, turn) : Spent(a, c)}}
      \cup {Voice(b, NoBook, "otherwise", "resume", Holding(a, held, b)) :
              b \in {c \in Quiet(a, chosen, turn) :
                        ~Spent(a, c) /\ Shelf[c].otherwise
                          /\ ~RunningOf(a)[c].paused}}

Ended(a, chosen, contexts) ==
    {c.book : c \in {d \in contexts : d.kind = "budget"}}
      \cup {b \in DOMAIN RunningOf(a) :
              \E r \in chosen : Owner(a, r) = b /\ r.end = "complete"}

BooksAfter(a, chosen, contexts) ==
    [b \in DOMAIN RunningOf(a) \ Ended(a, chosen, contexts) |->
        IF \E c \in contexts : c.book = b /\ c.kind = "otherwise"
        THEN [RunningOf(a)[b] EXCEPT !.deliveries = @ + 1, !.worked = FALSE]
        ELSE IF \E r \in chosen : Owner(a, r) = b
             THEN Delivered(RunningOf(a)[b],
                            CHOOSE r \in chosen : Owner(a, r) = b)
             ELSE RunningOf(a)[b]]

Speaking(contexts) == {c.book : c \in contexts} \ {NoBook}
Waking(contexts) == {c.book : c \in {d \in contexts : d.delivery = "resume"}}
Counted(contexts) == {c.book : c \in {d \in contexts : d.kind # "budget"}}

\* Rules::act.  What arrives at the host it shows, and it wakes the agent for
\* a context that resumes.
Act(a, held, arrives) ==
    /\ a \in DOMAIN asked /\ held \subseteq asked[a].rules
    /\ LET chosen == Chosen(a, held)
           contexts == Contexts(a, held, chosen, asked[a].turn)
           shown == IF arrives THEN contexts ELSE {}
       IN  /\ sessions' = IF a \in DOMAIN sessions
                          THEN [sessions EXCEPT ![a] = BooksAfter(a, chosen, contexts)]
                          ELSE sessions
           /\ fired' = [fired EXCEPT ![a] =
                 [i \in {r.id : r \in chosen} |->
                    [at |-> now, spent |-> TRUE,
                     window |-> (CHOOSE r \in chosen : r.id = i).window]] @@ @]
           /\ said' = [said EXCEPT ![a] = contexts]
           /\ working' = IF \E c \in shown : c.delivery = "resume"
                         THEN working \cup {a} ELSE working
           /\ heard' = [heard EXCEPT ![a] = [b \in Books |->
                 @[b] + (IF b \in Counted(shown) THEN 1 ELSE 0)]]
           /\ pokes' = [pokes EXCEPT ![a] = [b \in Books |->
                 @[b] + (IF b \in Waking(shown) THEN 1 ELSE 0)]]
    /\ asked' = Restrict(asked, DOMAIN asked \ {a})
    /\ UNCHANGED <<history, readable, now, commands>>

\* The host stopped waiting for the signal, or the daemon for its answers.
Abandon(a) ==
    /\ a \in DOMAIN asked
    /\ asked' = Restrict(asked, DOMAIN asked \ {a})
    /\ UNCHANGED <<bookVars, fired, history, said, working, readable, now, commands>>

-----------------------------------------------------------------------------
(* Signals.  An agent's are taken one at a time, and a judgment that asks    *)
(* nothing is acted on at once.                                              *)

Ready(a) ==
    /\ a \notin DOMAIN asked
    /\ \A c \in DOMAIN asked : asked[c].rules # {}

\* Books.worked
Worked(a) ==
    IF a \in DOMAIN sessions
    THEN [sessions EXCEPT ![a] =
            [b \in DOMAIN @ |-> [@[b] EXCEPT !.worked = TRUE]]]
    ELSE sessions

NoPokes(a) == [pokes EXCEPT ![a] = [b \in Books |-> 0]]

\* A new turn window, in which a turn-window rule's `once` is renewed.
UserMessage(a) ==
    /\ Ready(a) /\ commands < MaxCommands
    /\ commands' = commands + 1
    /\ history' = [history EXCEPT ![a].turn = {}]
    /\ fired' = [fired EXCEPT ![a] =
          [i \in DOMAIN @ |->
             [@[i] EXCEPT !.spent = @ /\ fired[a][i].window # "turn"]]]
    /\ sessions' = Worked(a) /\ pokes' = NoPokes(a)
    /\ working' = working \cup {a}
    /\ said' = [said EXCEPT ![a] = {}]
    /\ UNCHANGED <<asked, readable, now, heard>>

\* What the tool's result and the turn's end ask: the rules, and the books
\* that keep the agent going when none of them holds.
ToolResult(a, tool) ==
    /\ Ready(a) /\ a \in working
    /\ LET calls == [turn |-> history[a].turn \cup {tool},
                     session |-> history[a].session \cup {tool}]
       IN  /\ history' = [history EXCEPT ![a] = calls]
           /\ asked' = Updated(asked, a,
                 [rules |-> Asked(a, "tool_result", tool, calls, "none"), turn |-> {}])
    /\ sessions' = Worked(a) /\ pokes' = NoPokes(a)
    /\ said' = [said EXCEPT ![a] = {}]
    /\ UNCHANGED <<fired, working, readable, now, commands, heard>>

TurnEnd(a, todos) ==
    /\ Ready(a) /\ a \in working
    /\ working' = working \ {a}
    /\ asked' = Updated(asked, a,
          [rules |-> Asked(a, "turn_end", "none", history[a], todos), turn |-> TurnBooks(a)])
    /\ said' = [said EXCEPT ![a] = {}]
    /\ UNCHANGED <<bookVars, fired, history, readable, now, commands>>

\* A rulebook command, answered at once.
Command(a) ==
    /\ Ready(a) /\ commands < MaxCommands
    /\ commands' = commands + 1
    /\ UNCHANGED <<fired, history, asked, readable, now>>

Answer(a, b, kind, delivery) ==
    /\ said' = [said EXCEPT ![a] = {Voice(b, NoBook, kind, delivery, FALSE)}]
    /\ working' = IF delivery = "resume" THEN working \cup {a} ELSE working

Fresh == [paused |-> FALSE, deliveries |-> 0, worked |-> TRUE]

StartRefused(a, b, args) ==
    \/ ~readable
    \/ Shelf[b].needs_args /\ ~args
    \/ Cardinality(DOMAIN RunningOf(a) \ {b}) >= MaxRunning

\* A restart replaces the book; a session too many clears every session's.
StartBook(a, b, args) ==
    /\ Command(a)
    /\ IF StartRefused(a, b, args)
       THEN Answer(a, NoBook, "answer", "wait") /\ UNCHANGED bookVars
       ELSE /\ sessions' =
                 LET kept == IF /\ a \notin DOMAIN sessions
                                /\ Cardinality(DOMAIN sessions) >= MaxSessions
                             THEN << >> ELSE sessions
                 IN  Updated(kept, a, Updated(RunningOf(a), b, Fresh))
            /\ heard' = [heard EXCEPT ![a][b] = 0]
            /\ pokes' = [pokes EXCEPT ![a][b] = 0]
            /\ Answer(a, b, "start", "resume")

PauseBook(a, b) ==
    /\ Command(a) /\ b \in DOMAIN RunningOf(a)
    /\ sessions' = [sessions EXCEPT ![a][b].paused = TRUE]
    /\ Answer(a, b, "answer", "wait")
    /\ UNCHANGED <<heard, pokes>>

ResumeBook(a, b) ==
    /\ Command(a) /\ b \in DOMAIN RunningOf(a)
    /\ sessions' = [sessions EXCEPT ![a][b].paused = FALSE,
                                    ![a][b].worked = TRUE]
    /\ pokes' = [pokes EXCEPT ![a][b] = 0]
    /\ Answer(a, b, "start", "resume")
    /\ UNCHANGED heard

ClearBook(a, b) ==
    /\ Command(a) /\ b \in DOMAIN RunningOf(a)
    /\ sessions' = [sessions EXCEPT ![a] =
          [c \in DOMAIN @ \ {b} |-> @[c]]]
    /\ Answer(a, b, "answer", "wait")
    /\ UNCHANGED <<heard, pokes>>

\* A project's rules and books become unreadable, or readable again.
EditProject ==
    /\ commands < MaxCommands /\ commands' = commands + 1
    /\ readable' = ~readable
    /\ UNCHANGED <<bookVars, signalVars, now>>

RulesTick ==
    /\ now < MaxNow /\ now' = now + 1
    /\ UNCHANGED <<bookVars, signalVars, readable, commands>>

RulesNext ==
    \/ \E a \in Agents :
          \/ UserMessage(a)
          \/ \E tool \in Tools : ToolResult(a, tool)
          \/ \E todos \in Todos : TurnEnd(a, todos)
          \/ \E b \in Books :
                \/ \E args \in BOOLEAN : StartBook(a, b, args)
                \/ PauseBook(a, b) \/ ResumeBook(a, b) \/ ClearBook(a, b)
          \/ a \in DOMAIN asked /\ \E held \in SUBSET asked[a].rules, arrives \in BOOLEAN :
                Act(a, held, arrives)
          \/ Abandon(a)
    \/ EditProject \/ RulesTick

RulesSpec == RulesInit /\ [][RulesNext]_rulesVars

RulesTypeOK ==
    /\ DOMAIN sessions \subseteq Agents
    /\ Cardinality(DOMAIN sessions) <= MaxSessions
    /\ \A a \in DOMAIN sessions :
          /\ sessions[a] \in [DOMAIN sessions[a] -> RunningBook]
          /\ DOMAIN sessions[a] \subseteq Books
          /\ Cardinality(DOMAIN sessions[a]) <= MaxRunning
    /\ \A a \in Agents :
          /\ \A c \in said[a] : c \in Context
          /\ a \in DOMAIN asked => asked[a].turn \subseteq Books
    /\ working \subseteq Agents /\ readable \in BOOLEAN

-----------------------------------------------------------------------------
(* Properties.                                                               *)

\* A running book delivers one context per signal, so the agent never hears
\* both "done" and "keep going" from it.
OneVoice ==
    \A a \in Agents : \A c, d \in said[a] :
        c.book # NoBook /\ c.book = d.book => c = d

\* A start delivers no more than its budget, however it is paused, resumed
\* and judged; and whatever was shown is what its spent budget counts.
WithinBudget ==
    \A a \in Agents : \A b \in Books :
        /\ heard[a][b] <= Shelf[b].budget
        /\ b \in DOMAIN RunningOf(a) =>
             heard[a][b] <= RunningOf(a)[b].deliveries

\* A book does not keep waking an agent that does nothing: once it woke it,
\* it waits for a tool or the user.
NoIdleWaking ==
    \A a \in Agents : \A b \in Books : pokes[a][b] <= 1

\* Running books hold back.
BooksRestrained == RulesTypeOK /\ OneVoice /\ WithinBudget /\ NoIdleWaking

\* A paused book, and one that ended, is silent until the user resumes or
\* starts it.
PausedSilent(a) ==
    a \in DOMAIN asked /\ said'[a] # said[a] =>
        \A b \in Speaking(said'[a]) :
            b \in DOMAIN RunningOf(a) /\ ~RunningOf(a)[b].paused

\* A turn end that a running book's rules were asked about never leaves an
\* unfinished book's agent without word from it: a rule of it, its
\* `otherwise`, or its spent budget.
KeepsGoing(a) ==
    /\ a \in DOMAIN asked /\ a \notin DOMAIN asked'
    /\ \E b \in asked[a].turn \cap DOMAIN RunningOf(a) :
          Shelf[b].otherwise /\ b \notin Speaking(said'[a])
    => ~\E held \in SUBSET asked[a].rules, arrives \in BOOLEAN :
           Act(a, held, arrives)

\* A running book speaks when it has to and is silent when it must be.
BooksSpeak == [][\A a \in Agents : PausedSilent(a) /\ KeepsGoing(a)]_rulesVars

\* `otherwise` is for a turn end where the rules of the book were asked and
\* none holds (skills/README.md).
OtherwiseWhenNoneHolds ==
    \A a \in Agents : \A c \in said[a] : c.kind = "otherwise" => ~c.held
=============================================================================
