-------------------------------- MODULE Ingest --------------------------------
(***************************************************************************)
(* What the daemon promises of EngineHandle::ingest, with no threads,      *)
(* queues or workers: signals are refused or line up, each agent's are     *)
(* judged one at a time in the order they lined up, a model error is       *)
(* judged alone, effects reach the host only for a signal that was judged, *)
(* at most once, and only while the host waits.  Module Scheduler          *)
(* implements it.                                                          *)
(***************************************************************************)
EXTENDS Sequences, SequencesExt

CONSTANTS Jobs, AgentOf, KindOf

VARIABLES
    status,    \* each signal's place: see States
    line,      \* accepted signals not being judged yet, in order
    judging    \* signals being judged

vars == <<status, line, judging>>

States == {"new", "refused", "asking", "effects", "error", "gone"}

Init ==
    /\ status = [j \in Jobs |-> "new"]
    /\ line = <<>>
    /\ judging = {}

Become(j, state) == status' = [status EXCEPT ![j] = state]

Refuse(j) ==
    /\ status[j] = "new"
    /\ Become(j, "refused")
    /\ UNCHANGED <<line, judging>>

Accept(j) ==
    /\ status[j] = "new"
    /\ Become(j, "asking")
    /\ line' = Append(line, j)
    /\ UNCHANGED judging

\* The host stops waiting.
GiveUp(j) ==
    /\ status[j] = "asking"
    /\ Become(j, "gone")
    /\ UNCHANGED <<line, judging>>

\* line[i]'s turn: nothing of its agent is before it.
Turn(i) ==
    LET j == line[i]
    IN  /\ \A k \in judging : AgentOf[k] # AgentOf[j]
        /\ \A e \in 1..(i - 1) : AgentOf[line[e]] # AgentOf[j]
        /\ \A k \in judging : KindOf[k] # "model_error"
        /\ KindOf[j] = "model_error" => judging = {}

Start(i) ==
    /\ Turn(i)
    /\ judging' = judging \cup {line[i]}
    /\ line' = RemoveAt(line, i)
    /\ UNCHANGED status

\* A host that still waits gets the result; one that left gets nothing.
Reply(j, result) ==
    IF status[j] = "asking" THEN Become(j, result) ELSE UNCHANGED status

\* A signal settled in its turn without any judge.
SettleAtOnce(i) ==
    /\ Turn(i)
    /\ \E result \in {"effects", "error"} : Reply(line[i], result)
    /\ line' = RemoveAt(line, i)
    /\ UNCHANGED judging

\* A judged signal settles with effects, always.
Settle(j) ==
    /\ j \in judging
    /\ Reply(j, "effects")
    /\ judging' = judging \ {j}
    /\ UNCHANGED line

\* A signal leaves the line unjudged: its host left, or its time is up.
Drop(i) ==
    /\ Reply(line[i], "error")
    /\ line' = RemoveAt(line, i)
    /\ UNCHANGED judging

Next ==
    \/ \E j \in Jobs : Refuse(j) \/ Accept(j) \/ GiveUp(j) \/ Settle(j)
    \/ \E i \in DOMAIN line : Start(i) \/ SettleAtOnce(i) \/ Drop(i)

Spec == Init /\ [][Next]_vars
===============================================================================
