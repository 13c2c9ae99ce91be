------------------------------ MODULE Exposure ------------------------------
(* Tool and skill exposure of one session: which tools the engine hides from *)
(* its agent and brings back (tool-exposure), which skills it attaches       *)
(* (skill-exposure), and the adapter that applies both (exposure.ts,         *)
(* ask-tool.ts, tool-results.ts).                                            *)
(*                                                                           *)
(* A prompt's hook and a tool call's run side by side in the adapter and     *)
(* interleave at every await; the daemon judges an agent's signals one at a  *)
(* time.  What judges find is free.                                          *)
EXTENDS Integers, FiniteSets

CONSTANTS
    Exposed,         \* the tools the host sends in its requests
    GroupOf,         \* a tool's group
    NeverExposed,    \* tools that are always hidden
    Base,            \* tools that are never judged
    Skills,
    MaxAttached,     \* skills one signal may attach
    ParentHides,     \* what the parent of a subagent may hide
    MaxPrompts, MaxAsked,    \* bounds: prompts, tool calls
    MaxCompactions, MaxRestarts   \* bounds

ASSUME ExposureAssumption ==
    /\ NeverExposed \subseteq Exposed /\ Base \subseteq Exposed
    /\ NeverExposed \cap Base = {}
    /\ ParentHides \subseteq SUBSET Exposed
    /\ {MaxAttached, MaxPrompts, MaxAsked, MaxCompactions, MaxRestarts}
         \subseteq Nat

VARIABLES
    cache,       \* HiddenTools.sessions: what is hidden, once it is known
    storage,     \* the same in the host's storage
    recorded,    \* the same, on the latest message of the context that has it
    in_context,  \* how often each skill is in the context
    begun,       \* the context has a message of the user
    fibers,      \* the prompt's hook and the tool call's: see Fiber
    agent,       \* SkillExposure.agents: skills to offer, and those attached
    inherits,    \* a subagent, that has not begun: what its parent hides
    used,        \* prompts, calls, compactions and restarts so far
    doubted,     \* history: tools ever judged unneeded, or never exposed
    back,        \* history: tools brought back in this context
    excused      \* history: two changes overlapped, or one was cut short

hostVars == <<cache, storage, recorded, in_context, begun, inherits>>
exposureVars == <<hostVars, fibers, agent, used, doubted, back, excused>>

\* A set of tools, where there is one.
Known(tools) == {tools}
Unknown == {}
TheSet(maybe) == UNION maybe

Fibers == {"prompt", "call"}

\* first: a user message that starts a context.  tools and skills: what is
\* offered to the engine, and then what it answers.  present: skills in the
\* context when it was read.  set: what is hidden, when it was read.
Idle == [stage |-> "none", kind |-> "none", first |-> FALSE, tools |-> {},
         hide |-> {}, reveal |-> {}, skills |-> {}, present |-> {},
         set |-> {}]

ExposureInit ==
    /\ cache = Unknown /\ storage = Unknown /\ recorded = Unknown
    /\ in_context = [s \in Skills |-> 0] /\ begun = FALSE
    /\ fibers = [f \in Fibers |-> Idle]
    /\ agent = [skills |-> {}, attached |-> {}]
    /\ inherits \in {Unknown} \cup {Known(h) : h \in ParentHides}
    /\ used = [prompts |-> 0, calls |-> 0, compactions |-> 0, restarts |-> 0]
    /\ doubted = NeverExposed \cup TheSet(inherits)
    /\ back = {} /\ excused = FALSE

Use(what, limit) ==
    /\ used[what] < limit /\ used' = [used EXCEPT ![what] = @ + 1]

Put(f, fiber) == fibers' = [fibers EXCEPT ![f] = fiber]

\* HiddenTools.current: what is cached, or else stored, or else on record.
Current ==
    IF cache # Unknown THEN TheSet(cache)
    ELSE IF storage # Unknown THEN TheSet(storage) ELSE TheSet(recorded)

InContext == {s \in Skills : in_context[s] > 0}

Overlaps == \A f \in Fibers : fibers'[f].stage # "none"

-----------------------------------------------------------------------------
(* The prompt's hook.                                                        *)

\* admission, and the start of a context.  A subagent goes on where its parent
\* is, and a new context hides nothing until the engine decides.
Admit ==
    /\ fibers["prompt"].stage = "none" /\ Use("prompts", MaxPrompts)
    /\ LET fresh == ~begun
           first == fresh /\ inherits = Unknown
       IN  /\ Put("prompt", [Idle EXCEPT !.stage = "read", !.kind = "prompt",
                               !.first = first, !.present = InContext,
                               !.skills = Skills \ InContext])
           /\ back' = IF first THEN {} ELSE back
           /\ IF fresh
              THEN /\ cache' = Known(TheSet(inherits))
                   /\ storage' = Known(TheSet(inherits))
                   /\ inherits' = Unknown
              ELSE UNCHANGED <<cache, storage, inherits>>
    /\ excused' = (excused \/ Overlaps)
    /\ UNCHANGED <<recorded, in_context, begun, agent, doubted>>

\* toolsToJudge
Offer ==
    /\ fibers["prompt"].stage = "read"
    /\ Put("prompt", [fibers["prompt"] EXCEPT !.stage = "sent",
              !.tools = IF fibers["prompt"].first THEN Exposed
                        ELSE Current \cap Exposed])
    /\ cache' = IF fibers["prompt"].first THEN cache ELSE Known(Current)
    /\ UNCHANGED <<storage, recorded, in_context, begun, inherits, agent,
                   used, doubted, back, excused>>

\* A tool call: its result, with the hidden tools that what is missing could
\* mean, or the agent's own request, with all of them.
Call(kind, candidates) ==
    /\ fibers["call"].stage = "none" /\ begun /\ Use("calls", MaxAsked)
    /\ candidates \subseteq Current \ NeverExposed
    /\ kind = "ask" => candidates = Current \ NeverExposed
    /\ Put("call", [Idle EXCEPT !.stage = "sent", !.kind = kind,
                      !.tools = candidates, !.present = InContext])
    /\ cache' = Known(Current)
    /\ excused' = (excused \/ Overlaps)
    /\ UNCHANGED <<storage, recorded, in_context, begun, inherits, agent,
                   doubted, back>>

-----------------------------------------------------------------------------
(* The engine.                                                               *)

\* An agent's signals are judged one at a time.  A prompt's says which skills
\* there are to offer.
Begins(f) ==
    /\ fibers[f].stage = "sent" /\ \A g \in Fibers : fibers[g].stage # "judging"
    /\ Put(f, [fibers[f] EXCEPT !.stage = "judging"])
    /\ agent' = IF f = "prompt"
                THEN [skills |-> fibers[f].skills, attached |-> {}] ELSE agent
    /\ UNCHANGED <<hostVars, used, doubted, back, excused>>

Judgeable(tools) == tools \ (NeverExposed \cup Base)

\* The tools of the groups that are chosen.
InGroups(tools, groups) == {t \in Judgeable(tools) : GroupOf[t] \in groups}

\* ToolExposure::act, by kind: groups the first message hides, or that a later
\* one or the agent's request brings back, or the one tool that is missing.
\* Without an answer nothing changes.
Hides(f, heard, groups) ==
    IF fibers[f].kind = "prompt" /\ fibers[f].first /\ heard
    THEN (fibers[f].tools \cap NeverExposed)
           \cup InGroups(fibers[f].tools, groups)
    ELSE {}

Reveals(f, heard, groups) ==
    IF fibers[f].first \/ ~heard THEN {} ELSE InGroups(fibers[f].tools, groups)

\* SkillExposure::act: what is attached is not offered again.
Attaches(f, picked) ==
    /\ picked \subseteq agent.skills \ agent.attached
    /\ Cardinality(picked) <= (IF fibers[f].kind = "tool" THEN 1 ELSE MaxAttached)

Acts(f, heard, groups, picked) ==
    /\ fibers[f].stage = "judging" /\ Attaches(f, picked)
    /\ fibers[f].kind = "tool" => Cardinality(Reveals(f, heard, groups)) <= 1
    /\ agent' = [agent EXCEPT !.attached = @ \cup picked]
    /\ Put(f, [fibers[f] EXCEPT !.stage = "replied", !.tools = {},
                 !.hide = Hides(f, heard, groups),
                 !.reveal = Reveals(f, heard, groups), !.skills = picked])
    /\ doubted' = doubted \cup Hides(f, heard, groups)
    /\ UNCHANGED <<hostVars, used, back, excused>>

-----------------------------------------------------------------------------
(* What a prompt applies.                                                    *)

\* The reply: what is hidden is read before other effects are applied.
Replied ==
    /\ fibers["prompt"].stage = "replied"
    /\ LET fiber == fibers["prompt"]
       IN  Put("prompt", [fiber EXCEPT !.set = TheSet(cache),
                !.stage = IF fiber.hide \cup fiber.reveal = {} THEN "attach"
                          ELSE "hide"])
    /\ UNCHANGED <<hostVars, agent, used, doubted, back, excused>>

\* hideTools: in the cache at once, and then in storage.
HideTools ==
    /\ fibers["prompt"].stage = "hide"
    /\ LET fiber == fibers["prompt"]
           hidden == (fiber.set \cup fiber.hide) \ fiber.reveal
       IN  /\ cache' = Known(hidden)
           /\ Put("prompt", [fiber EXCEPT !.stage = "store", !.set = hidden])
           /\ back' = back \cup fiber.reveal
    /\ UNCHANGED <<storage, recorded, in_context, begun, inherits, agent,
                   used, doubted, excused>>

StoreHidden ==
    /\ fibers["prompt"].stage = "store"
    /\ storage' = Known(fibers["prompt"].set)
    /\ Put("prompt", [fibers["prompt"] EXCEPT !.stage = "attach"])
    /\ UNCHANGED <<cache, recorded, in_context, begun, inherits, agent, used,
                   doubted, back, excused>>

Arrive(skills) ==
    in_context' = [s \in Skills |-> in_context[s]
                                      + (IF s \in skills THEN 1 ELSE 0)]

\* attach, and the message is part of the context.
AdmitPrompt ==
    /\ fibers["prompt"].stage = "attach"
    /\ Arrive(fibers["prompt"].skills \ fibers["prompt"].present)
    /\ recorded' = IF fibers["prompt"].hide \cup fibers["prompt"].reveal = {}
                   THEN recorded ELSE Known(fibers["prompt"].set)
    /\ begun' = TRUE /\ Put("prompt", Idle)
    /\ UNCHANGED <<cache, storage, inherits, agent, used, doubted, back,
                   excused>>

\* The daemon is late or away: the prompt is admitted as it is, and a call
\* goes on without.  A signal under way may still be acted on, unheard.
GiveUpWaiting(f) ==
    /\ fibers[f].stage \in {"sent", "judging"}
    /\ IF f = "prompt"
       THEN Put(f, [fibers[f] EXCEPT !.stage = "attach", !.skills = {}])
       ELSE Put(f, Idle)
    /\ IF fibers[f].stage = "judging"
       THEN \E picked \in SUBSET Skills :
               /\ Attaches(f, picked)
               /\ agent' = [agent EXCEPT !.attached = @ \cup picked]
       ELSE UNCHANGED agent
    /\ UNCHANGED <<hostVars, used, doubted, back, excused>>

-----------------------------------------------------------------------------
(* What a tool call applies.                                                 *)

\* reveal: all that is named, or nothing.
ReadHidden ==
    /\ fibers["call"].stage = "replied"
    /\ LET fiber == fibers["call"]
       IN  Put("call", [fiber EXCEPT !.set = Current,
               !.stage = IF fiber.reveal # {} /\ fiber.reveal \subseteq Current
                         THEN "say" ELSE "deliver"])
    /\ cache' = Known(Current)
    /\ UNCHANGED <<storage, recorded, in_context, begun, inherits, agent,
                   used, doubted, back, excused>>

Remaining == fibers["call"].set \ fibers["call"].reveal

\* A message in the session, then storage, then the cache: an await each.
Say ==
    /\ fibers["call"].stage = "say"
    /\ recorded' = Known(Remaining)
    /\ Put("call", [fibers["call"] EXCEPT !.stage = "list"])
    /\ UNCHANGED <<cache, storage, in_context, begun, inherits, agent, used,
                   doubted, back, excused>>

StoreNothing ==
    /\ fibers["call"].stage = "list"
    /\ Put("call", [fibers["call"] EXCEPT !.stage = "remember"])
    /\ UNCHANGED <<hostVars, agent, used, doubted, back, excused>>

StoreRemaining ==
    /\ fibers["call"].stage = "list"
    /\ storage' = Known(Remaining)
    /\ Put("call", [fibers["call"] EXCEPT !.stage = "remember"])
    /\ UNCHANGED <<cache, recorded, in_context, begun, inherits, agent, used,
                   doubted, back, excused>>

Remember ==
    /\ fibers["call"].stage = "remember"
    /\ cache' = Known(Remaining)
    /\ back' = back \cup fibers["call"].reveal
    /\ Put("call", [fibers["call"] EXCEPT !.stage = "deliver"])
    /\ UNCHANGED <<storage, recorded, in_context, begun, inherits, agent,
                   used, doubted, excused>>

\* deliverContext reads the context again; the reply to a request goes by
\* what was there before it was sent.
Deliver ==
    /\ fibers["call"].stage = "deliver"
    /\ LET fiber == fibers["call"]
       IN  Put("call", [fiber EXCEPT !.stage = "attach",
               !.present = IF fiber.kind = "ask" THEN @ ELSE InContext])
    /\ UNCHANGED <<hostVars, agent, used, doubted, back, excused>>

CallEnds ==
    /\ fibers["call"].stage = "attach"
    /\ Arrive(fibers["call"].skills \ fibers["call"].present)
    /\ Put("call", Idle)
    /\ UNCHANGED <<cache, storage, recorded, begun, inherits, agent, used,
                   doubted, back, excused>>

-----------------------------------------------------------------------------
(* Around it.                                                                *)

\* The context is compacted, whatever is under way.
Compact ==
    /\ begun /\ Use("compactions", MaxCompactions)
    /\ begun' = FALSE /\ recorded' = Unknown
    /\ in_context' = [s \in Skills |-> 0]
    /\ excused' = (excused \/ \E f \in Fibers : fibers[f].stage # "none")
    /\ UNCHANGED <<cache, storage, inherits, fibers, agent, doubted, back>>

\* The host restarts; a change that is under way is cut short.
RestartHost ==
    /\ Use("restarts", MaxRestarts)
    /\ cache' = Unknown /\ fibers' = [f \in Fibers |-> Idle]
    /\ excused' = (excused \/ \E f \in Fibers : fibers[f].stage # "none")
    /\ UNCHANGED <<storage, recorded, in_context, begun, inherits, agent,
                   doubted, back>>

Groups == {GroupOf[t] : t \in Exposed}

ExposureNext ==
    \/ Admit \/ Offer
    \/ \E kind \in {"tool", "ask"}, candidates \in SUBSET Exposed :
          Call(kind, candidates)
    \/ \E f \in Fibers :
          \/ Begins(f) \/ GiveUpWaiting(f)
          \/ \E heard \in BOOLEAN, groups \in SUBSET Groups,
                picked \in SUBSET Skills : Acts(f, heard, groups, picked)
    \/ Replied \/ HideTools \/ StoreHidden \/ AdmitPrompt
    \/ ReadHidden \/ Say \/ StoreRemaining \/ Remember \/ Deliver \/ CallEnds
    \/ Compact \/ RestartHost

ExposureSpec == ExposureInit /\ [][ExposureNext]_exposureVars

-----------------------------------------------------------------------------
(* Properties.                                                               *)

\* Only what the engine judged unneeded is ever hidden, and what is never
\* exposed: a base tool, or one it never judged, stays, however the changes
\* interleave and wherever they are read back from.
UnjudgedShown ==
    \A maybe \in {cache, storage, recorded} :
        /\ TheSet(maybe) \subseteq doubted
        /\ TheSet(maybe) \cap Base \subseteq UNION ParentHides

\* A tool that was brought back stays for the context, across restarts, unless
\* two changes overlapped or one was cut short.
BroughtBack == ~excused => Current \cap back = {}

\* A skill reaches a context once, whoever picked it, unless a prompt and a
\* call overlapped.
SkillOnce == ~excused => \A s \in Skills : in_context[s] <= 1

ExposureKept == UnjudgedShown /\ BroughtBack /\ SkillOnce
=============================================================================
