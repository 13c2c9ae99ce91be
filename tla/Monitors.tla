------------------------------ MODULE Monitors -------------------------------
(* Following work: what a tool call names may be the agent's own to follow,  *)
(* a judgment says whether it is, and the integration (sourcefed) keeps the  *)
(* monitor.  Its events pass a gate on their way to the agent.               *)
(*                                                                           *)
(* The integration is another process: a call of it may fail, and one that   *)
(* timed out may still be carried out later.  An agent's signals are taken   *)
(* one at a time.                                                            *)
EXTENDS Integers, FiniteSets

CONSTANTS
    Followers,     \* agents
    Watches,       \* what an integration can follow
    MaxCandidates, MaxFollowers, MaxJudged,
    MaxCalls,      \* bound: tool results that name something
    MaxMeddling,   \* bound: monitors the user adds or removes
    MaxEvents      \* bound: events of the integration

ASSUME MonitorsAssumption ==
    /\ MaxCandidates <= MaxJudged
    /\ {MaxCandidates, MaxFollowers, MaxJudged} \subseteq Nat \ {0}
    /\ {MaxCalls, MaxMeddling, MaxEvents} \subseteq Nat

VARIABLES
    judged,      \* FollowWork.judged, of the agents it tracks
    following,   \* the watches an agent's call is being judged about
    monitors,    \* the integration's: who follows what
    slow,        \* creates that timed out and may still be carried out
    event,       \* the gate's latest event: see NoEvent
    spent,       \* calls, meddling and events so far
    made         \* history: creates sent for what is on record as judged

followVars == <<judged, following, slow, made>>
monitorVars == <<followVars, monitors, event, spent>>

Pairs == Followers \X Watches

NoEvent == [stage |-> "none", body |-> "none", verdict |-> "none",
            deliver |-> TRUE]

MonitorsInit ==
    /\ judged = << >> /\ following = << >>
    /\ monitors = {} /\ slow = {}
    /\ event = NoEvent
    /\ spent = [calls |-> 0, meddling |-> 0, events |-> 0]
    /\ made = [p \in Pairs |-> 0]

Once(what, limit) ==
    /\ spent[what] < limit /\ spent' = [spent EXCEPT ![what] = @ + 1]

-----------------------------------------------------------------------------
(* FollowWork.                                                               *)

JudgedAnew(a) == {}
JudgedOf(a) == IF a \in DOMAIN judged THEN judged[a] ELSE {}

Entered(table, a, watches) ==
    [b \in DOMAIN table \cup {a} |-> IF b = a THEN watches ELSE table[b]]

\* FollowWork::record: at its limits it forgets every agent's watches, or this
\* agent's, before it adds the new ones.
Remembering(a, watches) ==
    LET kept == IF a \notin DOMAIN judged
                   /\ Cardinality(DOMAIN judged) >= MaxFollowers
                THEN << >> ELSE judged
        mine == IF a \in DOMAIN kept THEN kept[a] ELSE {}
        room == Cardinality(mine) + Cardinality(watches) <= MaxJudged
    IN  Entered(kept, a, (IF room THEN mine ELSE {}) \cup watches)

\* What is forgotten starts again.
CreatesKept(record, sent) ==
    [p \in Pairs |->
        IF p[1] \in DOMAIN record /\ p[2] \in record[p[1]]
        THEN made[p] + (IF p \in sent THEN 1 ELSE 0) ELSE 0]

\* A tool result names watches.  Those judged before are not asked about; with
\* no listing nothing is asked; what is followed already is only recorded.
NameWatches(a, found, listed) ==
    /\ a \notin DOMAIN following
    /\ found # {} /\ Cardinality(found) <= MaxCandidates
    /\ Once("calls", MaxCalls)
    /\ LET fresh == found \ JudgedOf(a)
           already == {w \in fresh : <<a, w>> \in monitors}
           record == Remembering(a, already)
       IN  IF fresh = {} \/ ~listed
           THEN UNCHANGED <<judged, following, made>>
           ELSE /\ judged' = record
                /\ made' = CreatesKept(record, {})
                /\ following' = IF fresh = already THEN following
                                ELSE Entered(following, a, fresh \ already)
    /\ UNCHANGED <<monitors, slow, event>>

Over(a) == [b \in DOMAIN following \ {a} |-> following[b]]

\* The answers are in: all that was asked is on record, and a monitor is
\* created for what is confirmed.  A create may be refused, or time out.
Follow(a, confirmed, arrived, late) ==
    /\ a \in DOMAIN following /\ confirmed \subseteq following[a]
    /\ arrived \subseteq confirmed /\ late \subseteq confirmed \ arrived
    /\ LET record == Remembering(a, following[a])
       IN  /\ judged' = record
           /\ made' = CreatesKept(record, {a} \X confirmed)
    /\ monitors' = monitors \cup ({a} \X arrived)
    /\ slow' = slow \cup ({a} \X late)
    /\ following' = Over(a)
    /\ UNCHANGED <<event, spent>>

\* No judge, or the host left: to be judged at the next call that names it.
FollowFails(a) ==
    /\ a \in DOMAIN following /\ following' = Over(a)
    /\ UNCHANGED <<judged, slow, made, monitors, event, spent>>

-----------------------------------------------------------------------------
(* The integration.                                                          *)

CarriedOut(p) ==
    /\ p \in slow /\ slow' = slow \ {p}
    /\ monitors' = monitors \cup {p}
    /\ UNCHANGED <<judged, following, made, event, spent>>

Meddle(p) ==
    /\ Once("meddling", MaxMeddling)
    /\ monitors' = IF p \in monitors THEN monitors \ {p} ELSE monitors \cup {p}
    /\ UNCHANGED <<followVars, event>>

\* An event of a monitor, or of none we know of: the gate asks, unless its body
\* says there is nothing to show.
EventArrives(body) ==
    /\ event.stage \in {"none", "decided"} /\ Once("events", MaxEvents)
    /\ event' = IF body = "empty"
                THEN [stage |-> "answered", body |-> body, verdict |-> "none",
                      deliver |-> FALSE]
                ELSE [stage |-> "asked", body |-> body, verdict |-> "none",
                      deliver |-> TRUE]
    /\ UNCHANGED <<followVars, monitors>>

\* Only a confident no withholds it; no answer is none.
GateJudged(verdict) ==
    /\ event.stage = "asked"
    /\ event' = [event EXCEPT !.stage = "answered", !.verdict = verdict,
                              !.deliver = verdict # "no"]
    /\ UNCHANGED <<followVars, monitors, spent>>

\* The host has its reply in time, or delivers.
GateReplies(in_time) ==
    /\ event.stage \in {"answered", "asked"}
    /\ in_time => event.stage = "answered"
    /\ event' = [event EXCEPT !.stage = "decided",
                              !.deliver = in_time => event.deliver]
    /\ UNCHANGED <<followVars, monitors, spent>>

MonitorsNext ==
    \/ \E a \in Followers :
          \/ \E found \in SUBSET Watches, listed \in BOOLEAN :
                NameWatches(a, found, listed)
          \/ \E confirmed, arrived, late \in SUBSET Watches :
                Follow(a, confirmed, arrived, late)
          \/ FollowFails(a)
    \/ \E p \in Pairs : CarriedOut(p) \/ Meddle(p)
    \/ \E body \in {"empty", "text"} : EventArrives(body)
    \/ \E verdict \in {"yes", "no", "unsure", "none"} : GateJudged(verdict)
    \/ \E in_time \in BOOLEAN : GateReplies(in_time)

MonitorsSpec == MonitorsInit /\ [][MonitorsNext]_monitorVars

-----------------------------------------------------------------------------
(* Properties.                                                               *)

\* While a watch is on record as judged, one create at most was sent for it:
\* though its reply was lost, it is carried out late, or the user removed the
\* monitor since (monitors/lib.rs, record before follow).
FollowedOnce == \A p \in Pairs : made[p] <= 1

\* An event is withheld only because its body is empty or a judge was sure and
\* in time; every failure delivers it.
WithheldKnowingly ==
    event.stage = "decided" /\ ~event.deliver =>
        event.body = "empty" \/ event.verdict = "no"

MonitorsKept == FollowedOnce /\ WithheldKnowingly
=============================================================================
