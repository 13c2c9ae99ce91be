--------------------------- MODULE CapabilityProofs --------------------------
(* Proofs about the parts of a host and a capability that a catalog or a      *)
(* process is kept by: nothing on record is followed twice and no event is   *)
(* withheld by a failure (Monitors), one daemon serves the newest plugin      *)
(* (Startup), and what agents see is what was last decided (Exposure), for    *)
(* any agents, watches, releases, plugins, tools, skills and bounds.         *)
EXTENDS Monitors, Startup, Exposure, Rules, FiniteSetTheorems, SequenceTheorems,
        WellFoundedInduction, NaturalsInduction, TLAPS

-----------------------------------------------------------------------------
(* Types.                                                                    *)

Events == [stage : {"none", "asked", "answered", "decided"},
           body : {"none", "empty", "text"},
           verdict : {"none", "yes", "no", "unsure"},
           deliver : BOOLEAN]

MonitorsTypeOK ==
    /\ DOMAIN judged \subseteq Followers
    /\ \A a \in DOMAIN judged : judged[a] \subseteq Watches
    /\ DOMAIN following \subseteq Followers
    /\ \A a \in DOMAIN following : following[a] \subseteq Watches
    /\ made \in [Pairs -> Nat]
    /\ event \in Events

-----------------------------------------------------------------------------
(* The inductive invariant.                                                  *)

OnRecord(p) == p[1] \in DOMAIN judged /\ p[2] \in judged[p[1]]

\* What is not on record was not followed, as far as it counts.
UnrecordedInv == \A p \in Pairs : ~OnRecord(p) => made[p] = 0

\* What is being judged of an agent is not on its record: though the record is
\* written when the answers are in, nothing else writes it meanwhile.
FollowingInv ==
    \A a \in DOMAIN following : following[a] \cap JudgedOf(a) = {}

\* An event is withheld only for its body or a judge's no, at every stage.
GateInv ==
    ~event.deliver =>
        /\ event.stage \in {"answered", "decided"}
        /\ event.body = "empty" \/ event.verdict = "no"

MonitorsInv ==
    /\ MonitorsTypeOK /\ UnrecordedInv /\ FollowedOnce /\ FollowingInv /\ GateInv

-----------------------------------------------------------------------------
(* The record.                                                               *)

\* A record has the new watches, of the others at most what was there.
LEMMA RememberingIs ==
    ASSUME NEW a \in Followers, NEW watches \in SUBSET Watches
    PROVE  LET record == Remembering(a, watches)
           IN  /\ a \in DOMAIN record
               /\ watches \subseteq record[a]
               /\ record[a] \subseteq JudgedOf(a) \cup watches
               /\ \A b \in DOMAIN record : b # a => b \in DOMAIN judged
               /\ \A b \in DOMAIN record : b # a => record[b] = judged[b]
<1> DEFINE kept == IF a \notin DOMAIN judged
                      /\ Cardinality(DOMAIN judged) >= MaxFollowers
                   THEN << >> ELSE judged
           mine == IF a \in DOMAIN kept THEN kept[a] ELSE {}
           room == Cardinality(mine) + Cardinality(watches) <= MaxJudged
           new == (IF room THEN mine ELSE {}) \cup watches
<1>1. Remembering(a, watches) = Entered(kept, a, new)
  BY DEF Remembering
<1>2. \A b \in DOMAIN kept : b \in DOMAIN judged /\ kept[b] = judged[b]
  OBVIOUS
<1>3. mine \subseteq JudgedOf(a)
  BY <1>2 DEF JudgedOf
<1>4. new \subseteq JudgedOf(a) \cup watches /\ watches \subseteq new
  BY <1>3
<1> HIDE DEF new, mine, room, kept
<1>5. /\ DOMAIN Remembering(a, watches) = DOMAIN kept \cup {a}
      /\ Remembering(a, watches)[a] = new
      /\ \A b \in DOMAIN kept : b # a => Remembering(a, watches)[b] = kept[b]
  BY <1>1 DEF Entered
<1>6. QED
  BY <1>2, <1>4, <1>5

\* The counts after a record: what is off it starts again.
LEMMA CreatesKeptIs ==
    ASSUME MonitorsTypeOK, NEW record, NEW sent \in SUBSET Pairs
    PROVE  /\ CreatesKept(record, sent) \in [Pairs -> Nat]
           /\ \A p \in Pairs :
                CreatesKept(record, sent)[p] =
                  IF p[1] \in DOMAIN record /\ p[2] \in record[p[1]]
                  THEN made[p] + (IF p \in sent THEN 1 ELSE 0) ELSE 0
  BY DEF CreatesKept, MonitorsTypeOK

\* Recording what an agent's call named keeps the invariant, as long as no
\* create is sent for what is on record.
LEMMA RecordKeeps ==
    ASSUME MonitorsInv, NEW a \in Followers, NEW watches \in SUBSET Watches,
           NEW sent \in SUBSET Watches, sent \cap JudgedOf(a) = {},
           judged' = Remembering(a, watches),
           made' = CreatesKept(Remembering(a, watches), {a} \X sent)
    PROVE  /\ DOMAIN judged' \subseteq Followers
           /\ \A b \in DOMAIN judged' : judged'[b] \subseteq Watches
           /\ made' \in [Pairs -> Nat]
           /\ UnrecordedInv' /\ FollowedOnce'
           /\ JudgedOf(a)' \subseteq JudgedOf(a) \cup watches
           /\ \A b \in Followers : b # a => JudgedOf(b)' \subseteq JudgedOf(b)
<1> DEFINE record == Remembering(a, watches)
<1>1. /\ a \in DOMAIN record
      /\ record[a] \subseteq JudgedOf(a) \cup watches
      /\ \A b \in DOMAIN record : b # a => b \in DOMAIN judged /\ record[b] = judged[b]
  BY RememberingIs
<1>2. /\ made' \in [Pairs -> Nat]
      /\ \A p \in Pairs :
           made'[p] = IF p[1] \in DOMAIN record /\ p[2] \in record[p[1]]
                      THEN made[p] + (IF p \in {a} \X sent THEN 1 ELSE 0) ELSE 0
  <2>1. {a} \X sent \in SUBSET Pairs
    BY DEF Pairs
  <2>2. QED
    BY <2>1, CreatesKeptIs DEF MonitorsInv
<1> HIDE DEF record
<1>3. judged' = record
  BY DEF record
<1>4. JudgedOf(a) \subseteq Watches
  BY DEF MonitorsInv, MonitorsTypeOK, JudgedOf
<1>5. DOMAIN judged' \subseteq Followers
  BY <1>1, <1>3 DEF MonitorsInv, MonitorsTypeOK
<1>6. \A b \in DOMAIN judged' : judged'[b] \subseteq Watches
  BY <1>1, <1>3, <1>4 DEF MonitorsInv, MonitorsTypeOK
<1>7. UnrecordedInv'
  BY <1>2, <1>3 DEF UnrecordedInv, OnRecord
<1>8. FollowedOnce'
  <2> SUFFICES ASSUME NEW p \in Pairs PROVE made'[p] <= 1
    BY DEF FollowedOnce
  <2>1. made[p] \in Nat /\ made[p] <= 1
    BY DEF MonitorsInv, MonitorsTypeOK, FollowedOnce
  <2> DEFINE sends == IF p \in {a} \X sent THEN 1 ELSE 0
  <2>2. sends \in {0, 1}
    OBVIOUS
  <2>3. made'[p] = made[p] + sends \/ made'[p] = 0
    BY <1>2
  <2>4. p \notin {a} \X sent => sends = 0
    OBVIOUS
  <2> HIDE DEF sends
  <2>5. CASE p \in {a} \X sent
    <3>1. p[1] = a /\ p[2] \notin JudgedOf(a)
      BY <2>5
    <3>2. ~OnRecord(p)
      BY <3>1 DEF OnRecord, JudgedOf
    <3>3. made[p] = 0
      BY <3>2 DEF MonitorsInv, UnrecordedInv
    <3>4. QED
      BY <2>2, <2>3, <3>3
  <2>6. CASE p \notin {a} \X sent
    BY <2>1, <2>6, <2>3, <2>4
  <2>7. QED
    BY <2>5, <2>6
<1>9. JudgedOf(a)' \subseteq JudgedOf(a) \cup watches
  BY <1>1, <1>3 DEF JudgedOf
<1>10. \A b \in Followers : b # a => JudgedOf(b)' \subseteq JudgedOf(b)
  BY <1>1, <1>3 DEF JudgedOf
<1>11. QED
  BY <1>2, <1>5, <1>6, <1>7, <1>8, <1>9, <1>10

-----------------------------------------------------------------------------
(* One step per action.                                                      *)

LEMMA MonitorsStart == MonitorsInit => MonitorsInv
<1> SUFFICES ASSUME MonitorsInit PROVE MonitorsInv
  OBVIOUS
<1>1. DOMAIN judged = {} /\ DOMAIN following = {}
  BY DEF MonitorsInit
<1>2. made \in [Pairs -> Nat] /\ \A p \in Pairs : made[p] = 0
  BY DEF MonitorsInit
<1>3. event \in Events /\ event.deliver
  BY DEF MonitorsInit, NoEvent, Events
<1>4. QED
  BY <1>1, <1>2, <1>3 DEF MonitorsInv, MonitorsTypeOK, UnrecordedInv, FollowedOnce,
                          FollowingInv, GateInv

LEMMA NameWatchesKeeps ==
    ASSUME MonitorsInv, NEW a \in Followers, NEW found \in SUBSET Watches,
           NEW listed \in BOOLEAN, NameWatches(a, found, listed)
    PROVE  MonitorsInv'
<1> DEFINE fresh == found \ JudgedOf(a)
           already == {w \in fresh : <<a, w>> \in monitors}
           record == Remembering(a, already)
<1>1. event' = event
  BY DEF NameWatches
<1>2. CASE fresh = {} \/ ~listed
  <2>1. UNCHANGED <<judged, following, made>>
    BY <1>2 DEF NameWatches
  <2>2. QED
    BY <1>1, <2>1 DEF MonitorsInv, MonitorsTypeOK, UnrecordedInv, OnRecord, FollowedOnce,
                      FollowingInv, JudgedOf, GateInv
<1>3. CASE ~(fresh = {} \/ ~listed)
  <2>1. /\ judged' = record
        /\ made' = CreatesKept(record, {})
        /\ following' = IF fresh = already THEN following
                        ELSE Entered(following, a, fresh \ already)
        /\ a \notin DOMAIN following
    BY <1>3 DEF NameWatches
  <2>2. {a} \X {} = {}
    OBVIOUS
  <2>3. already \in SUBSET Watches /\ fresh \ already \in SUBSET Watches
    OBVIOUS
  <2>4. /\ DOMAIN judged' \subseteq Followers
        /\ \A b \in DOMAIN judged' : judged'[b] \subseteq Watches
        /\ made' \in [Pairs -> Nat]
        /\ UnrecordedInv' /\ FollowedOnce'
        /\ JudgedOf(a)' \subseteq JudgedOf(a) \cup already
        /\ \A b \in Followers : b # a => JudgedOf(b)' \subseteq JudgedOf(b)
    <3> DEFINE none == {}
    <3>1. made' = CreatesKept(record, {a} \X none) /\ none \in SUBSET Watches
          /\ none \cap JudgedOf(a) = {}
      BY <2>1, <2>2
    <3> HIDE DEF none, already
    <3>2. QED
      BY <2>1, <2>3, <3>1, RecordKeeps DEF already
  <2>5. (fresh \ already) \cap JudgedOf(a)' = {}
    BY <2>4
  <2> HIDE DEF fresh, already, record
  <2>6. /\ DOMAIN following' \subseteq DOMAIN following \cup {a}
        /\ \A b \in DOMAIN following : following'[b] = following[b]
        /\ a \in DOMAIN following' => following'[a] = fresh \ already
    BY <2>1 DEF Entered
  <2>7. /\ DOMAIN following' \subseteq Followers
        /\ \A b \in DOMAIN following' : following'[b] \subseteq Watches
    BY <2>3, <2>6 DEF MonitorsInv, MonitorsTypeOK
  <2>8. FollowingInv'
    <3> SUFFICES ASSUME NEW b \in DOMAIN following'
                 PROVE  following'[b] \cap JudgedOf(b)' = {}
      BY DEF FollowingInv
    <3>1. CASE b = a
      BY <2>5, <2>6, <3>1
    <3>2. CASE b # a
      <4>1. b \in DOMAIN following /\ b \in Followers /\ following'[b] = following[b]
        BY <2>6, <2>7, <3>2
      <4>2. following[b] \cap JudgedOf(b) = {}
        BY <4>1 DEF MonitorsInv, FollowingInv
      <4>3. QED
        BY <2>4, <3>2, <4>1, <4>2
    <3>3. QED
      BY <3>1, <3>2
  <2>9. QED
    BY <1>1, <2>4, <2>7, <2>8 DEF MonitorsInv, MonitorsTypeOK, GateInv
<1>4. QED
  BY <1>2, <1>3

LEMMA FollowKeeps ==
    ASSUME MonitorsInv, NEW a \in Followers, NEW confirmed \in SUBSET Watches,
           NEW arrived \in SUBSET Watches, NEW late \in SUBSET Watches,
           Follow(a, confirmed, arrived, late)
    PROVE  MonitorsInv'
<1>1. /\ a \in DOMAIN following /\ confirmed \subseteq following[a]
      /\ judged' = Remembering(a, following[a])
      /\ made' = CreatesKept(Remembering(a, following[a]), {a} \X confirmed)
      /\ following' = [b \in DOMAIN following \ {a} |-> following[b]]
      /\ event' = event
  BY DEF Follow, Over
<1>2. following[a] \in SUBSET Watches /\ confirmed \cap JudgedOf(a) = {}
  BY <1>1 DEF MonitorsInv, MonitorsTypeOK, FollowingInv
<1>3. /\ DOMAIN judged' \subseteq Followers
      /\ \A b \in DOMAIN judged' : judged'[b] \subseteq Watches
      /\ made' \in [Pairs -> Nat]
      /\ UnrecordedInv' /\ FollowedOnce'
      /\ \A b \in Followers : b # a => JudgedOf(b)' \subseteq JudgedOf(b)
  <2> DEFINE watches == following[a]
  <2>1. /\ watches \in SUBSET Watches
        /\ judged' = Remembering(a, watches)
        /\ made' = CreatesKept(Remembering(a, watches), {a} \X confirmed)
    BY <1>1, <1>2
  <2> HIDE DEF watches
  <2>2. QED
    BY <1>2, <2>1, RecordKeeps
<1>4. /\ DOMAIN following' \subseteq Followers
      /\ \A b \in DOMAIN following' : following'[b] \subseteq Watches
  BY <1>1 DEF MonitorsInv, MonitorsTypeOK
<1>5. FollowingInv'
  <2> SUFFICES ASSUME NEW b \in DOMAIN following'
               PROVE  following'[b] \cap JudgedOf(b)' = {}
    BY DEF FollowingInv
  <2>1. b \in DOMAIN following /\ b # a /\ b \in Followers /\ following'[b] = following[b]
    BY <1>1, <1>4
  <2>2. following[b] \cap JudgedOf(b) = {}
    BY <2>1 DEF MonitorsInv, FollowingInv
  <2>3. QED
    BY <1>3, <2>1, <2>2
<1>6. QED
  BY <1>1, <1>3, <1>4, <1>5 DEF MonitorsInv, MonitorsTypeOK, GateInv

LEMMA FollowFailsKeeps ==
    ASSUME MonitorsInv, NEW a \in Followers, FollowFails(a)
    PROVE  MonitorsInv'
<1>1. /\ following' = [b \in DOMAIN following \ {a} |-> following[b]]
      /\ UNCHANGED <<judged, made, event>>
  BY DEF FollowFails, Over
<1>2. FollowingInv'
  BY <1>1 DEF MonitorsInv, FollowingInv, JudgedOf
<1>3. QED
  BY <1>1, <1>2 DEF MonitorsInv, MonitorsTypeOK, UnrecordedInv, OnRecord, FollowedOnce,
                    GateInv

\* What keeps the tables, and what is withheld, keeps the invariant.
LEMMA TablesUnchanged ==
    ASSUME MonitorsInv, UNCHANGED <<judged, following, made>>,
           event' \in Events, GateInv'
    PROVE  MonitorsInv'
  BY DEF MonitorsInv, MonitorsTypeOK, UnrecordedInv, OnRecord, FollowedOnce,
         FollowingInv, JudgedOf

LEMMA GateKeeps ==
    ASSUME MonitorsInv,
           \/ \E body \in {"empty", "text"} : EventArrives(body)
           \/ \E verdict \in {"yes", "no", "unsure", "none"} : GateJudged(verdict)
           \/ \E in_time \in BOOLEAN : GateReplies(in_time)
    PROVE  MonitorsInv'
<1>1. event \in Events /\ GateInv
  BY DEF MonitorsInv, MonitorsTypeOK
<1>2. ASSUME NEW body \in {"empty", "text"}, EventArrives(body)
      PROVE  MonitorsInv'
  <2>1. UNCHANGED <<judged, following, made>>
    BY <1>2 DEF EventArrives, followVars
  <2>2. event' \in Events /\ GateInv'
    BY <1>2 DEF EventArrives, Events, GateInv
  <2>3. QED
    BY <2>1, <2>2, TablesUnchanged
<1>3. ASSUME NEW verdict \in {"yes", "no", "unsure", "none"}, GateJudged(verdict)
      PROVE  MonitorsInv'
  <2>1. UNCHANGED <<judged, following, made>>
    BY <1>3 DEF GateJudged, followVars
  <2>2. event' \in Events /\ GateInv'
    BY <1>1, <1>3 DEF GateJudged, Events, GateInv
  <2>3. QED
    BY <2>1, <2>2, TablesUnchanged
<1>4. ASSUME NEW in_time \in BOOLEAN, GateReplies(in_time)
      PROVE  MonitorsInv'
  <2>1. UNCHANGED <<judged, following, made>>
    BY <1>4 DEF GateReplies, followVars
  <2>2. event' \in Events /\ GateInv'
    <3>1. CASE in_time
      BY <1>1, <1>4, <3>1 DEF GateReplies, Events, GateInv
    <3>2. CASE ~in_time
      BY <1>1, <1>4, <3>2 DEF GateReplies, Events, GateInv
    <3>3. QED
      BY <3>1, <3>2
  <2>3. QED
    BY <2>1, <2>2, TablesUnchanged
<1>5. QED
  BY <1>2, <1>3, <1>4

LEMMA MonitorsStep == MonitorsInv /\ [MonitorsNext]_monitorVars => MonitorsInv'
<1> SUFFICES ASSUME MonitorsInv, [MonitorsNext]_monitorVars PROVE MonitorsInv'
  OBVIOUS
<1>1. ASSUME NEW a \in Followers, NEW found \in SUBSET Watches, NEW listed \in BOOLEAN,
             NameWatches(a, found, listed)
      PROVE  MonitorsInv'
  BY <1>1, NameWatchesKeeps
<1>2. ASSUME NEW a \in Followers, NEW confirmed \in SUBSET Watches,
             NEW arrived \in SUBSET Watches, NEW late \in SUBSET Watches,
             Follow(a, confirmed, arrived, late)
      PROVE  MonitorsInv'
  BY <1>2, FollowKeeps
<1>3. ASSUME NEW a \in Followers, FollowFails(a) PROVE MonitorsInv'
  BY <1>3, FollowFailsKeeps
<1>4. ASSUME NEW p \in Pairs, CarriedOut(p) \/ Meddle(p) PROVE MonitorsInv'
  <2>1. UNCHANGED <<judged, following, made, event>>
    BY <1>4 DEF CarriedOut, Meddle, followVars
  <2>2. event' \in Events /\ GateInv'
    BY <2>1 DEF MonitorsInv, MonitorsTypeOK, GateInv
  <2>3. QED
    BY <2>1, <2>2, TablesUnchanged
<1>5. CASE UNCHANGED monitorVars
  <2>1. UNCHANGED <<judged, following, made, event>>
    BY <1>5 DEF monitorVars, followVars
  <2>2. event' \in Events /\ GateInv'
    BY <2>1 DEF MonitorsInv, MonitorsTypeOK, GateInv
  <2>3. QED
    BY <2>1, <2>2, TablesUnchanged
<1>6. QED
  BY <1>1, <1>2, <1>3, <1>4, <1>5, GateKeeps DEF MonitorsNext

-----------------------------------------------------------------------------
(* The theorems.                                                             *)

\* In every reachable state the tables are of agents and watches, the counts of
\* creates are numbers, and an event is where the gate can have it.
THEOREM MonitorsTypeCorrect == MonitorsSpec => []MonitorsTypeOK
<1>1. MonitorsInv => MonitorsTypeOK
  BY DEF MonitorsInv
<1>2. QED
  BY <1>1, MonitorsStart, MonitorsStep, PTL DEF MonitorsSpec

\* However creates are lost or late, tables are cleared at their limits and the
\* user adds and removes monitors, one create at most is sent for a watch while
\* it is on record; and whatever fails, an event is withheld only for an empty
\* body or a judge's no (FollowWork::record before follow, EventGate, gate.ts).
THEOREM FollowedAndGated == MonitorsSpec => []MonitorsKept
<1>1. MonitorsInv => MonitorsKept
  <2> SUFFICES ASSUME MonitorsInv PROVE MonitorsKept
    OBVIOUS
  <2>1. FollowedOnce
    BY DEF MonitorsInv
  <2>2. WithheldKnowingly
    BY DEF MonitorsInv, GateInv, WithheldKnowingly
  <2>3. QED
    BY <2>1, <2>2 DEF MonitorsKept
<1>2. QED
  BY <1>1, MonitorsStart, MonitorsStep, PTL DEF MonitorsSpec

-----------------------------------------------------------------------------
(* Types.                                                                    *)

SignalIds == Plugins \X Nat

PluginStates ==
    [stage : {"new", "settled", "replace", "waiting", "start", "starting"},
     configured : BOOLEAN, seen : Nat, left : Nat,
     signal : {"none", "dated", "plain", "judged"}, sent : Nat]

Processes ==
    [stage : {"booting", "loaded", "serving", "closing", "gone"},
     version : Releases, token : {NoToken} \cup {TokenOf[p] : p \in Plugins},
     managed : BOOLEAN, told : BOOLEAN,
     memory : SUBSET SignalIds, requests : SUBSET SignalIds]

StartupTypeOK ==
    /\ daemons \in Seq(Processes)
    /\ plugins \in [Plugins -> PluginStates]
    /\ \A p \in Plugins : plugins[p].stage = "starting" => plugins[p].left > 0
    /\ state_file \subseteq SignalIds /\ answered \subseteq SignalIds
    /\ faults \in [late : Nat, lost : Nat, crashes : Nat, restarts : Nat]

-----------------------------------------------------------------------------
(* The inductive invariant.                                                  *)

\* One daemon has the port; one that closes was told to, one that has not come
\* to the port was not.
PortInv ==
    /\ \A d, e \in DOMAIN daemons :
         daemons[d].stage = "serving" /\ daemons[e].stage = "serving" => d = e
    /\ \A d \in DOMAIN daemons :
         /\ daemons[d].stage = "closing" => daemons[d].told
         /\ daemons[d].stage \in {"booting", "loaded"} => ~daemons[d].told

WaitsFor(p, d) ==
    /\ plugins[p].stage = "waiting" /\ plugins[p].left > 0
    /\ daemons[d].token \in {NoToken, TokenOf[p]}

\* Whoever told the daemon at the port to stop is still waiting for it.
StopInv ==
    faults.lost = 0 =>
        \A d \in DOMAIN daemons :
          daemons[d].stage = "serving" /\ daemons[d].told =>
            \E p \in Plugins : WaitsFor(p, d)

\* What a plugin replaces is what it found, of another version.
ReplaceInv ==
    \A p \in Plugins :
      plugins[p].stage \in {"replace", "waiting"} =>
        LET seen == plugins[p].seen
        IN  /\ seen \in DOMAIN daemons /\ ~plugins[p].configured
            /\ ~daemons[seen].managed /\ daemons[seen].version # VersionOf[p]

Coming(d) == Listens(d) \/ daemons[d].stage \in {"booting", "loaded"}

\* Once a plugin of its own has looked, there is a daemon to come, or a plugin
\* that will start one.
ComingInv ==
    /\ faults.crashes = 0 /\ faults.lost = 0
    /\ \E p \in Plugins : plugins[p].stage # "new" /\ ~plugins[p].configured
    => \/ \E d \in DOMAIN daemons : Coming(d)
       \/ \E p \in Plugins : plugins[p].stage \in {"waiting", "start"}

\* The one at the port has all that was answered: before the first came to
\* the port there was nothing.
KeptInv ==
    faults.crashes = 0 /\ (\A d \in DOMAIN daemons : ~daemons[d].told) =>
        /\ answered \subseteq state_file
        /\ \A d \in DOMAIN daemons :
             daemons[d].stage = "serving" => answered \subseteq daemons[d].memory
        /\ (\A d \in DOMAIN daemons : daemons[d].stage # "serving") =>
             answered = {}

StartupInv ==
    /\ StartupTypeOK /\ PortInv /\ StopInv /\ ReplaceInv /\ ComingInv /\ KeptInv

-----------------------------------------------------------------------------

\* What is made of each daemon is again a list of as many.
LEMMA Remade ==
    ASSUME daemons \in Seq(Processes), NEW remade \in [DOMAIN daemons -> Processes]
    PROVE  remade \in Seq(Processes) /\ DOMAIN remade = DOMAIN daemons
<1>1. DOMAIN daemons = 1..Len(daemons) /\ Len(daemons) \in Nat
  OBVIOUS
<1>2. QED
  BY <1>1, SeqDef

LEMMA StartupStart == StartupInit => StartupInv
<1> SUFFICES ASSUME StartupInit PROVE StartupInv
  OBVIOUS
<1> USE DEF StartupInit, NewPlugin
<1>1. StartupTypeOK
  BY DEF StartupTypeOK, PluginStates, SignalIds
<1>2. PortInv /\ StopInv /\ ReplaceInv /\ ComingInv /\ KeptInv
  BY DEF PortInv, StopInv, ReplaceInv, ComingInv, KeptInv
<1>3. QED
  BY <1>1, <1>2 DEF StartupInv

\* What p finds is the one at the port, or nothing that it knows.
LEMMA HealthIs ==
    ASSUME StartupTypeOK, NEW p \in Plugins
    PROVE  /\ Answering(p) = {} => Health(p) = Unanswered
           /\ Answering(p) # {} =>
                LET d == CHOOSE d \in Answering(p) : TRUE
                IN  /\ d \in Answering(p) /\ d \in DOMAIN daemons
                    /\ daemons[d].stage = "serving" /\ d \in Nat
                    /\ Health(p) = [version |-> daemons[d].version,
                                    managed |-> daemons[d].managed]
<1>1. Answering(p) = {} => Health(p) = Unanswered
  BY DEF Health
<1>2. ASSUME Answering(p) # {}
      PROVE  LET d == CHOOSE d \in Answering(p) : TRUE
             IN  /\ d \in Answering(p) /\ d \in DOMAIN daemons
                 /\ daemons[d].stage = "serving" /\ d \in Nat
                 /\ Health(p) = [version |-> daemons[d].version,
                                 managed |-> daemons[d].managed]
  <2>1. PICK e : e = CHOOSE d \in Answering(p) : TRUE
    OBVIOUS
  <2>2. e \in Answering(p)
    BY <1>2, <2>1
  <2>3. e \in DOMAIN daemons /\ daemons[e].stage = "serving" /\ e \in Nat
    BY <2>2 DEF Answering, On, StartupTypeOK
  <2>4. Health(p) = [version |-> daemons[e].version, managed |-> daemons[e].managed]
    BY <1>2, <2>1 DEF Health
  <2>5. QED
    BY <2>1, <2>2, <2>3, <2>4
<1>3. QED
  BY <1>1, <1>2

\* A plugin decides to replace only what it found, and settles without
\* starting one only where it found one.
LEMMA DecidesKeeps ==
    ASSUME StartupInv, NEW p \in Plugins, NEW found, NEW seen \in Nat,
           plugins[p].stage = "new", Decides(p, found, seen),
           UNCHANGED <<daemons, state_file, answered>>,
           faults' \in [late : Nat, lost : Nat, crashes : Nat, restarts : Nat],
           faults'.crashes = faults.crashes, faults'.lost = faults.lost,
           \/ found = Unanswered
           \/ /\ seen \in DOMAIN daemons /\ daemons[seen].stage = "serving"
              /\ found = [version |-> daemons[seen].version,
                          managed |-> daemons[seen].managed]
    PROVE  StartupInv'
<1> DEFINE step == StartupStep(p, found)
           stage == IF step \in {"start", "replace"} THEN step ELSE "settled"
<1>1. /\ plugins' = [plugins EXCEPT ![p].stage = stage, ![p].seen = seen]
      /\ plugins \in [Plugins -> PluginStates]
  BY DEF Decides, StartupInv, StartupTypeOK
<1>2. stage \in {"start", "replace", "settled"}
  OBVIOUS
<1>3. /\ found = Unanswered /\ ~plugins[p].configured => stage = "start"
      /\ stage = "replace" =>
           /\ found # Unanswered /\ found.version # VersionOf[p]
           /\ ~found.managed /\ ~plugins[p].configured
  BY DEF StartupStep
<1> HIDE DEF stage
<1>4. /\ plugins' \in [Plugins -> PluginStates]
      /\ plugins'[p].stage = stage /\ plugins'[p].seen = seen
      /\ plugins'[p].configured = plugins[p].configured
      /\ \A q \in Plugins : q # p => plugins'[q] = plugins[q]
  <2>1. [plugins[p] EXCEPT !.stage = stage, !.seen = seen] \in PluginStates
    BY <1>1, <1>2 DEF PluginStates
  <2>2. plugins' \in [Plugins -> PluginStates]
    BY <1>1, <2>1
  <2>3. /\ plugins'[p].stage = stage /\ plugins'[p].seen = seen
        /\ plugins'[p].configured = plugins[p].configured
    BY <1>1 DEF PluginStates
  <2>4. QED
    BY <1>1, <2>2, <2>3
<1>5. StartupTypeOK'
  <2>1. \A q \in Plugins : plugins'[q].stage = "starting" => plugins'[q].left > 0
    <3> SUFFICES ASSUME NEW q \in Plugins, plugins'[q].stage = "starting"
                 PROVE  plugins'[q].left > 0
      OBVIOUS
    <3>1. q # p
      BY <1>2, <1>4
    <3>2. QED
      BY <3>1, <1>4 DEF StartupInv, StartupTypeOK
  <2>2. QED
    BY <2>1, <1>4 DEF StartupInv, StartupTypeOK
<1>6. PortInv'
  BY DEF StartupInv, PortInv
<1>7. StopInv'
  BY <1>4 DEF StartupInv, StopInv, WaitsFor
<1>8. ReplaceInv'
  <2> SUFFICES ASSUME NEW q \in Plugins, plugins'[q].stage \in {"replace", "waiting"}
               PROVE  LET s == plugins'[q].seen
                      IN  /\ s \in DOMAIN daemons /\ ~plugins'[q].configured
                          /\ ~daemons[s].managed
                          /\ daemons[s].version # VersionOf[q]
    BY DEF ReplaceInv
  <2>1. CASE q = p
    BY <2>1, <1>2, <1>3, <1>4
  <2>2. CASE q # p
    BY <2>2, <1>4 DEF StartupInv, ReplaceInv
  <2>3. QED
    BY <2>1, <2>2
<1>9. ComingInv'
  <2> SUFFICES ASSUME faults.crashes = 0, faults.lost = 0, NEW q \in Plugins,
                      plugins'[q].stage # "new", ~plugins'[q].configured
               PROVE  \/ \E d \in DOMAIN daemons : Coming(d)
                      \/ \E r \in Plugins : plugins'[r].stage \in {"waiting", "start"}
    BY DEF ComingInv, Coming, Listens
  <2>1. CASE q # p
    <3>1. \/ \E d \in DOMAIN daemons : Coming(d)
          \/ \E r \in Plugins : plugins[r].stage \in {"waiting", "start"}
      BY <2>1, <1>4 DEF StartupInv, ComingInv
    <3>2. QED
      BY <3>1, <1>4
  <2>2. CASE q = p /\ found = Unanswered
    BY <2>2, <1>3, <1>4
  <2>3. CASE q = p /\ found # Unanswered
    <3>1. daemons[seen].stage = "serving" /\ seen \in DOMAIN daemons
      BY <2>3
    <3>2. CASE ~daemons[seen].told
      BY <3>1, <3>2 DEF Coming, Listens
    <3>3. CASE daemons[seen].told
      <4>1. PICK r \in Plugins : WaitsFor(r, seen)
        BY <3>1, <3>3 DEF StartupInv, StopInv
      <4>2. r # p
        BY <4>1 DEF WaitsFor
      <4>3. QED
        BY <4>1, <4>2, <1>4 DEF WaitsFor
    <3>4. QED
      BY <3>2, <3>3 DEF StartupInv, StartupTypeOK, Processes
  <2>4. QED
    BY <2>1, <2>2, <2>3
<1>10. KeptInv'
  BY DEF StartupInv, KeptInv
<1>11. QED
  BY <1>5, <1>6, <1>7, <1>8, <1>9, <1>10 DEF StartupInv

LEMMA LooksKeeps ==
    ASSUME StartupInv, NEW p \in Plugins, Looks(p)
    PROVE  StartupInv'
<1> DEFINE d == CHOOSE d \in Answering(p) : TRUE
<1>1. PICK seen : seen = IF Answering(p) = {} THEN 0 ELSE d
  OBVIOUS
<1>2. Decides(p, Health(p), seen) /\ plugins[p].stage = "new"
  BY <1>1 DEF Looks
<1>3. UNCHANGED <<daemons, state_file, answered, faults>>
  BY DEF Looks
<1>4. /\ seen \in Nat
      /\ \/ Health(p) = Unanswered
         \/ /\ seen \in DOMAIN daemons /\ daemons[seen].stage = "serving"
            /\ Health(p) = [version |-> daemons[seen].version,
                            managed |-> daemons[seen].managed]
  BY <1>1, HealthIs DEF StartupInv
<1>5. faults' \in [late : Nat, lost : Nat, crashes : Nat, restarts : Nat]
  BY <1>3 DEF StartupInv, StartupTypeOK
<1>6. QED
  BY <1>2, <1>3, <1>4, <1>5, DecidesKeeps

LEMMA LooksInVainKeeps ==
    ASSUME StartupInv, NEW p \in Plugins, LooksInVain(p)
    PROVE  StartupInv'
<1>1. /\ Decides(p, Unanswered, 0) /\ plugins[p].stage = "new"
      /\ UNCHANGED <<daemons, state_file, answered>>
      /\ faults' = [faults EXCEPT !.late = @ + 1]
  BY DEF LooksInVain
<1>2. /\ faults' \in [late : Nat, lost : Nat, crashes : Nat, restarts : Nat]
      /\ faults'.crashes = faults.crashes /\ faults'.lost = faults.lost
  BY <1>1 DEF StartupInv, StartupTypeOK
<1>3. QED
  BY <1>1, <1>2, DecidesKeeps

\* What of a daemon others go by.
SameDaemons ==
    /\ daemons' \in Seq(Processes) /\ DOMAIN daemons' = DOMAIN daemons
    /\ \A d \in DOMAIN daemons :
         /\ daemons'[d].stage = daemons[d].stage
         /\ daemons'[d].told = daemons[d].told
         /\ daemons'[d].version = daemons[d].version
         /\ daemons'[d].token = daemons[d].token
         /\ daemons'[d].managed = daemons[d].managed
         /\ daemons'[d].memory = daemons[d].memory

\* A plugin that goes on, and does not stop waiting for a daemon it told.
LEMMA GoesOnKeeps ==
    ASSUME StartupInv, NEW p \in Plugins, NEW new \in PluginStates,
           plugins' = [plugins EXCEPT ![p] = new],
           SameDaemons, UNCHANGED <<state_file, answered>>,
           faults' \in [late : Nat, lost : Nat, crashes : Nat, restarts : Nat],
           faults'.crashes = faults.crashes, faults'.lost = faults.lost,
           new.stage = "starting" => new.left > 0,
           new.stage \in {"replace", "waiting"} =>
             /\ plugins[p].stage \in {"replace", "waiting"}
             /\ new.seen = plugins[p].seen
             /\ new.configured = plugins[p].configured,
           \A d \in DOMAIN daemons :
             daemons[d].stage = "serving" /\ daemons[d].told /\ WaitsFor(p, d)
               => new.stage = "waiting" /\ new.left > 0,
           plugins[p].stage \in {"waiting", "start"} =>
             new.stage \in {"waiting", "start"},
           new.stage # "new" /\ ~new.configured =>
             plugins[p].stage # "new" /\ ~plugins[p].configured
    PROVE  StartupInv'
<1>1. /\ plugins \in [Plugins -> PluginStates] /\ plugins' \in [Plugins -> PluginStates]
      /\ plugins'[p] = new
      /\ \A q \in Plugins : q # p => plugins'[q] = plugins[q]
  BY DEF StartupInv, StartupTypeOK
<1>2. StartupTypeOK'
  BY <1>1 DEF StartupInv, StartupTypeOK, SameDaemons
<1>3. PortInv'
  BY DEF StartupInv, PortInv, SameDaemons
<1>4. StopInv'
  <2> SUFFICES ASSUME faults.lost = 0, NEW d \in DOMAIN daemons,
                      daemons[d].stage = "serving", daemons[d].told
               PROVE  \E q \in Plugins : WaitsFor(q, d)'
    BY DEF StopInv, SameDaemons
  <2>1. PICK q \in Plugins : WaitsFor(q, d)
    BY DEF StartupInv, StopInv
  <2>2. CASE q = p
    BY <2>1, <2>2, <1>1 DEF WaitsFor, SameDaemons
  <2>3. CASE q # p
    BY <2>1, <2>3, <1>1 DEF WaitsFor, SameDaemons
  <2>4. QED
    BY <2>2, <2>3
<1>5. ReplaceInv'
  <2> SUFFICES ASSUME NEW q \in Plugins, plugins'[q].stage \in {"replace", "waiting"}
               PROVE  LET s == plugins'[q].seen
                      IN  /\ s \in DOMAIN daemons' /\ ~plugins'[q].configured
                          /\ ~daemons'[s].managed
                          /\ daemons'[s].version # VersionOf[q]
    BY DEF ReplaceInv
  <2>1. /\ plugins[q].stage \in {"replace", "waiting"}
        /\ plugins'[q].seen = plugins[q].seen
        /\ plugins'[q].configured = plugins[q].configured
    BY <1>1
  <2>2. /\ plugins[q].seen \in DOMAIN daemons /\ ~plugins[q].configured
        /\ ~daemons[plugins[q].seen].managed
        /\ daemons[plugins[q].seen].version # VersionOf[q]
    BY <2>1 DEF StartupInv, ReplaceInv
  <2>3. QED
    BY <2>1, <2>2 DEF SameDaemons
<1>6. ComingInv'
  <2> SUFFICES ASSUME faults.crashes = 0, faults.lost = 0, NEW q \in Plugins,
                      plugins'[q].stage # "new", ~plugins'[q].configured
               PROVE  \/ \E d \in DOMAIN daemons' : Coming(d)'
                      \/ \E r \in Plugins : plugins'[r].stage \in {"waiting", "start"}
    BY DEF ComingInv
  <2>1. plugins[q].stage # "new" /\ ~plugins[q].configured
    BY <1>1
  <2>2. CASE \E d \in DOMAIN daemons : Coming(d)
    BY <2>2 DEF Coming, Listens, SameDaemons
  <2>3. CASE \E r \in Plugins : plugins[r].stage \in {"waiting", "start"}
    BY <2>3, <1>1
  <2>4. QED
    BY <2>1, <2>2, <2>3 DEF StartupInv, ComingInv
<1>7. KeptInv'
  BY DEF StartupInv, KeptInv, SameDaemons
<1>8. QED
  BY <1>2, <1>3, <1>4, <1>5, <1>6, <1>7 DEF StartupInv

LEMMA Unmoved ==
    ASSUME StartupInv, UNCHANGED daemons
    PROVE  SameDaemons
  BY DEF StartupInv, StartupTypeOK, SameDaemons

\* A plugin stops waiting only when what it told is gone from the port.
LEMMA WaitsForPortKeeps ==
    ASSUME StartupInv, NEW p \in Plugins, WaitsForPort(p)
    PROVE  StartupInv'
<1>1. /\ plugins[p].stage = "waiting" /\ plugins \in [Plugins -> PluginStates]
      /\ UNCHANGED <<daemons, state_file, answered, faults>>
      /\ faults \in [late : Nat, lost : Nat, crashes : Nat, restarts : Nat]
  BY DEF WaitsForPort, StartupInv, StartupTypeOK
<1>2. plugins[p] \in PluginStates
  BY <1>1
<1>3. SameDaemons
  BY <1>1, Unmoved
<1>4. \A d \in DOMAIN daemons :
        daemons[d].stage = "serving" /\ WaitsFor(p, d) => d \in Answering(p)
  BY DEF Answering, On, WaitsFor
<1>5. CASE Answering(p) = {} \/ plugins[p].left = 0
  <2> DEFINE new == [plugins[p] EXCEPT !.stage = "start", !.left = 0]
  <2>1. plugins' = [plugins EXCEPT ![p] = new]
    BY <1>5, <1>1 DEF WaitsForPort, At
  <2>2. new \in PluginStates /\ new.stage = "start" /\ new.configured = plugins[p].configured
    BY <1>2 DEF PluginStates
  <2>3. \A d \in DOMAIN daemons :
          ~(daemons[d].stage = "serving" /\ WaitsFor(p, d))
    BY <1>4, <1>5, <1>2 DEF WaitsFor, PluginStates
  <2> HIDE DEF new
  <2>4. QED
    BY <1>1, <1>3, <2>1, <2>2, <2>3, GoesOnKeeps
<1>6. CASE ~(Answering(p) = {} \/ plugins[p].left = 0)
  <2> DEFINE new == [plugins[p] EXCEPT !.stage = "waiting", !.left = plugins[p].left - 1]
  <2>1. /\ plugins' = [plugins EXCEPT ![p] = new]
        /\ plugins[p].left > 1 \/ \A d \in Answering(p) : ~daemons[d].told
    BY <1>6, <1>1 DEF WaitsForPort, At
  <2>a. plugins[p].left - 1 \in Nat
    BY <1>2, <1>6 DEF PluginStates
  <2>2. /\ new \in PluginStates /\ new.stage = "waiting"
        /\ new.left = plugins[p].left - 1 /\ new.seen = plugins[p].seen
        /\ new.configured = plugins[p].configured
    BY <1>2, <2>a DEF PluginStates
  <2>3. \A d \in DOMAIN daemons :
          daemons[d].stage = "serving" /\ daemons[d].told /\ WaitsFor(p, d)
            => new.left > 0
    BY <1>2, <1>4, <2>1, <2>2 DEF PluginStates
  <2> HIDE DEF new
  <2>4. QED
    BY <1>1, <1>3, <2>1, <2>2, <2>3, GoesOnKeeps
<1>7. QED
  BY <1>5, <1>6

LEMMA ChecksStartKeeps ==
    ASSUME StartupInv, NEW p \in Plugins, ChecksStart(p)
    PROVE  StartupInv'
<1>1. /\ plugins[p].stage = "starting" /\ plugins \in [Plugins -> PluginStates]
      /\ UNCHANGED <<daemons, state_file, answered, faults>>
      /\ faults \in [late : Nat, lost : Nat, crashes : Nat, restarts : Nat]
  BY DEF ChecksStart, StartupInv, StartupTypeOK
<1>2. plugins[p] \in PluginStates
  BY <1>1
<1>3. SameDaemons
  BY <1>1, Unmoved
<1>4. CASE Answering(p) # {} \/ plugins[p].left = 1
  <2> DEFINE new == [plugins[p] EXCEPT !.stage = "settled", !.left = 0]
  <2>1. plugins' = [plugins EXCEPT ![p] = new]
    BY <1>4, <1>1 DEF ChecksStart, At
  <2>2. /\ new \in PluginStates /\ new.stage = "settled"
        /\ new.configured = plugins[p].configured
    BY <1>2 DEF PluginStates
  <2>3. \A d : ~WaitsFor(p, d)
    BY <1>1 DEF WaitsFor
  <2> HIDE DEF new
  <2>4. QED
    BY <1>1, <1>3, <2>1, <2>2, <2>3, GoesOnKeeps
<1>5. CASE ~(Answering(p) # {} \/ plugins[p].left = 1)
  <2> DEFINE new == [plugins[p] EXCEPT !.stage = "starting", !.left = plugins[p].left - 1]
  <2>1. plugins' = [plugins EXCEPT ![p] = new]
    BY <1>5, <1>1 DEF ChecksStart, At
  <2>2. plugins[p].left - 1 \in Nat /\ plugins[p].left - 1 > 0
    BY <1>1, <1>2, <1>5 DEF PluginStates, StartupInv, StartupTypeOK
  <2>3. /\ new \in PluginStates /\ new.stage = "starting" /\ new.left > 0
        /\ new.configured = plugins[p].configured
    BY <1>2, <2>2 DEF PluginStates
  <2>4. \A d : ~WaitsFor(p, d)
    BY <1>1 DEF WaitsFor
  <2> HIDE DEF new
  <2>5. QED
    BY <1>1, <1>3, <2>1, <2>3, <2>4, GoesOnKeeps
<1>6. QED
  BY <1>4, <1>5

LEMMA ReopensKeeps ==
    ASSUME StartupInv, NEW p \in Plugins, Reopens(p)
    PROVE  StartupInv'
<1>1. PICK configured \in {(FALSE), (p \in Configurable)} :
        plugins' = [plugins EXCEPT ![p] =
          [NewPlugin EXCEPT !.configured = configured, !.sent = plugins[p].sent]]
  BY Zenon DEF Reopens
<1>a. configured \in BOOLEAN
  <2>1. (p \in Configurable) \in BOOLEAN
    <3>1. CASE p \in Configurable
      <4>1. (p \in Configurable) = TRUE
        BY <3>1
      <4>2. QED
        BY <4>1
    <3>2. CASE p \notin Configurable
      <4>1. (p \in Configurable) = FALSE
        BY <3>2
      <4>2. QED
        BY <4>1
    <3>3. QED
      BY <3>1, <3>2
  <2>2. configured = FALSE \/ configured = (p \in Configurable)
    OBVIOUS
  <2>3. CASE configured = FALSE
    BY <2>3
  <2>4. CASE configured = (p \in Configurable)
    BY <2>1, <2>4
  <2>5. QED
    BY <2>2, <2>3, <2>4
<1> DEFINE new == [NewPlugin EXCEPT !.configured = configured, !.sent = plugins[p].sent]
<1>2. /\ plugins \in [Plugins -> PluginStates] /\ plugins[p].stage = "settled"
      /\ UNCHANGED <<daemons, state_file, answered>>
      /\ faults' = [faults EXCEPT !.restarts = @ + 1]
      /\ faults \in [late : Nat, lost : Nat, crashes : Nat, restarts : Nat]
  BY DEF Reopens, Settled, StartupInv, StartupTypeOK
<1>3. SameDaemons
  BY <1>2, Unmoved
<1>4. new \in PluginStates /\ new.stage = "new"
  BY <1>2, <1>a DEF PluginStates, NewPlugin
<1>5. /\ faults' \in [late : Nat, lost : Nat, crashes : Nat, restarts : Nat]
      /\ faults'.crashes = faults.crashes /\ faults'.lost = faults.lost
  BY <1>2
<1>6. \A d : ~WaitsFor(p, d)
  BY <1>2 DEF WaitsFor
<1>7. plugins' = [plugins EXCEPT ![p] = new]
  BY <1>1
<1> HIDE DEF new
<1>8. QED
  BY <1>2, <1>3, <1>4, <1>5, <1>6, <1>7, GoesOnKeeps

\* A plugin whose signal goes on is where it was.
LEMMA SignalMovesKeeps ==
    ASSUME StartupInv, NEW p \in Plugins, NEW new \in PluginStates,
           plugins' = [plugins EXCEPT ![p] = new],
           new.stage = plugins[p].stage, new.left = plugins[p].left,
           new.seen = plugins[p].seen, new.configured = plugins[p].configured,
           SameDaemons, UNCHANGED <<state_file, answered, faults>>
    PROVE  StartupInv'
<1>1. /\ faults \in [late : Nat, lost : Nat, crashes : Nat, restarts : Nat]
      /\ new.stage = "starting" => new.left > 0
  BY DEF StartupInv, StartupTypeOK
<1>2. \A d \in DOMAIN daemons :
        daemons[d].stage = "serving" /\ daemons[d].told /\ WaitsFor(p, d)
          => new.stage = "waiting" /\ new.left > 0
  BY DEF WaitsFor
<1>3. faults'.crashes = faults.crashes /\ faults'.lost = faults.lost
      /\ faults' \in [late : Nat, lost : Nat, crashes : Nat, restarts : Nat]
  BY <1>1
<1>4. QED
  BY <1>1, <1>2, <1>3, GoesOnKeeps

LEMMA SendsKeeps ==
    ASSUME StartupInv, NEW p \in Plugins, Sends(p) \/ TimesOut(p)
    PROVE  StartupInv'
<1>1. plugins \in [Plugins -> PluginStates] /\ plugins[p] \in PluginStates
  BY DEF StartupInv, StartupTypeOK
<1>2. UNCHANGED <<daemons, state_file, answered, faults>> /\ SameDaemons
  BY Unmoved DEF Sends, TimesOut
<1>3. CASE Sends(p)
  <2> DEFINE new == [plugins[p] EXCEPT !.signal = "dated", !.sent = plugins[p].sent + 1]
  <2>1. plugins' = [plugins EXCEPT ![p] = new]
    BY <1>1, <1>3 DEF Sends
  <2>a. plugins[p].sent + 1 \in Nat
    BY <1>1 DEF PluginStates
  <2>2. /\ new \in PluginStates /\ new.stage = plugins[p].stage
        /\ new.left = plugins[p].left /\ new.seen = plugins[p].seen
        /\ new.configured = plugins[p].configured
    BY <1>1, <2>a DEF PluginStates
  <2> HIDE DEF new
  <2>3. QED
    BY <1>2, <2>1, <2>2, SignalMovesKeeps
<1>4. CASE TimesOut(p)
  <2> DEFINE new == [plugins[p] EXCEPT !.signal = "none"]
  <2>1. plugins' = [plugins EXCEPT ![p] = new]
    BY <1>1, <1>4 DEF TimesOut
  <2>2. /\ new \in PluginStates /\ new.stage = plugins[p].stage
        /\ new.left = plugins[p].left /\ new.seen = plugins[p].seen
        /\ new.configured = plugins[p].configured
    BY <1>1 DEF PluginStates
  <2> HIDE DEF new
  <2>3. QED
    BY <1>2, <2>1, <2>2, SignalMovesKeeps
<1>5. QED
  BY <1>3, <1>4

LEMMA ReachesKeeps ==
    ASSUME StartupInv, NEW p \in Plugins, Reaches(p)
    PROVE  StartupInv'
<1>1. /\ plugins \in [Plugins -> PluginStates] /\ plugins[p] \in PluginStates
      /\ UNCHANGED <<state_file, answered, faults>>
  BY DEF Reaches, StartupInv, StartupTypeOK
<1>2. CASE Answering(p) = {}
  <2> DEFINE new == [plugins[p] EXCEPT !.signal = "none"]
  <2>1. plugins' = [plugins EXCEPT ![p] = new] /\ SameDaemons
    BY <1>1, <1>2, Unmoved DEF Reaches
  <2>2. /\ new \in PluginStates /\ new.stage = plugins[p].stage
        /\ new.left = plugins[p].left /\ new.seen = plugins[p].seen
        /\ new.configured = plugins[p].configured
    BY <1>1 DEF PluginStates
  <2> HIDE DEF new
  <2>3. QED
    BY <1>1, <2>1, <2>2, SignalMovesKeeps
<1>3. CASE Answering(p) # {}
  <2> DEFINE refuses(d) == plugins[p].signal = "dated" /\ daemons[d].version \in Undated
  <2>1. PICK d \in Answering(p) :
          /\ plugins' = [plugins EXCEPT ![p].signal =
                           IF refuses(d) THEN "plain" ELSE "judged"]
          /\ daemons' = [daemons EXCEPT ![d].requests =
                           IF refuses(d) THEN @ ELSE @ \cup {<<p, plugins[p].sent>>}]
    BY <1>3 DEF Reaches
  <2>2. PICK signal \in {"plain", "judged"} :
          signal = IF refuses(d) THEN "plain" ELSE "judged"
    OBVIOUS
  <2>3. PICK requests : requests = IF refuses(d) THEN daemons[d].requests
                                   ELSE daemons[d].requests \cup {<<p, plugins[p].sent>>}
    OBVIOUS
  <2>4. /\ daemons \in Seq(Processes) /\ d \in DOMAIN daemons
        /\ daemons[d] \in Processes
    BY DEF Answering, On, StartupInv, StartupTypeOK
  <2>5. requests \in SUBSET SignalIds
    BY <2>3, <2>4, <1>1 DEF Processes, SignalIds, PluginStates
  <2> DEFINE told == [daemons[d] EXCEPT !.requests = requests]
             new == [plugins[p] EXCEPT !.signal = signal]
  <2>6. /\ told \in Processes /\ told.stage = daemons[d].stage
        /\ told.told = daemons[d].told /\ told.version = daemons[d].version
        /\ told.token = daemons[d].token /\ told.managed = daemons[d].managed
        /\ told.memory = daemons[d].memory
    BY <2>4, <2>5 DEF Processes
  <2>7. plugins' = [plugins EXCEPT ![p] = new]
    BY <1>1, <2>1, <2>2
  <2>8. daemons' = [daemons EXCEPT ![d] = told]
    BY <2>1, <2>3, <2>4
  <2>9. /\ new \in PluginStates /\ new.stage = plugins[p].stage
        /\ new.left = plugins[p].left /\ new.seen = plugins[p].seen
        /\ new.configured = plugins[p].configured
    BY <1>1, <2>2 DEF PluginStates
  <2> HIDE DEF new, told, refuses
  <2>10. SameDaemons
    BY <2>4, <2>6, <2>8, Remade DEF SameDaemons
  <2>11. QED
    BY <1>1, <2>7, <2>9, <2>10, SignalMovesKeeps
<1>4. QED
  BY <1>2, <1>3

\* A plugin tells those at the port to stop, and waits unless it hears nothing.
LEMMA TellsKeeps ==
    ASSUME StartupInv, NEW p \in Plugins, NEW new \in PluginStates,
           plugins[p].stage = "replace",
           plugins' = [plugins EXCEPT ![p] = new],
           new.stage \in {"waiting", "settled"},
           new.seen = plugins[p].seen, new.configured = plugins[p].configured,
           daemons' \in Seq(Processes), DOMAIN daemons' = DOMAIN daemons,
           \A d \in DOMAIN daemons :
             /\ daemons'[d].stage = daemons[d].stage
             /\ daemons'[d].version = daemons[d].version
             /\ daemons'[d].token = daemons[d].token
             /\ daemons'[d].managed = daemons[d].managed
             /\ daemons'[d].memory = daemons[d].memory
             /\ daemons'[d].told <=> (daemons[d].told \/ d \in Answering(p)),
           UNCHANGED <<state_file, answered>>,
           faults' \in [late : Nat, lost : Nat, crashes : Nat, restarts : Nat],
           faults'.crashes = faults.crashes,
           faults'.lost = 0 =>
             faults.lost = 0 /\ new.stage = "waiting" /\ new.left > 0
    PROVE  StartupInv'
<1>1. /\ plugins \in [Plugins -> PluginStates] /\ plugins' \in [Plugins -> PluginStates]
      /\ plugins'[p] = new
      /\ \A q \in Plugins : q # p => plugins'[q] = plugins[q]
  BY DEF StartupInv, StartupTypeOK
<1>2. StartupTypeOK'
  BY <1>1 DEF StartupInv, StartupTypeOK
<1>3. \A d \in Answering(p) :
        /\ d \in DOMAIN daemons /\ daemons[d].stage = "serving"
        /\ daemons[d].token \in {NoToken, TokenOf[p]}
  BY DEF Answering, On
<1>4. PortInv'
  BY <1>3, SMTT(20) DEF StartupInv, PortInv
<1>5. StopInv'
  <2> SUFFICES ASSUME faults'.lost = 0, NEW d \in DOMAIN daemons,
                      daemons[d].stage = "serving", daemons'[d].told
               PROVE  \E q \in Plugins : WaitsFor(q, d)'
    BY DEF StopInv
  <2>1. CASE d \in Answering(p)
    <3>1. WaitsFor(p, d)'
      BY <2>1, <1>1, <1>3 DEF WaitsFor
    <3>2. QED
      BY <3>1
  <2>2. CASE daemons[d].told
    <3>1. PICK q \in Plugins : WaitsFor(q, d)
      BY <2>2 DEF StartupInv, StopInv
    <3>2. q # p
      BY <3>1 DEF WaitsFor
    <3>3. WaitsFor(q, d)'
      BY <3>1, <3>2, <1>1 DEF WaitsFor
    <3>4. QED
      BY <3>3
  <2>3. QED
    BY <2>1, <2>2
<1>6. ReplaceInv'
  <2> SUFFICES ASSUME NEW q \in Plugins, plugins'[q].stage \in {"replace", "waiting"}
               PROVE  LET s == plugins'[q].seen
                      IN  /\ s \in DOMAIN daemons /\ ~plugins'[q].configured
                          /\ ~daemons'[s].managed
                          /\ daemons'[s].version # VersionOf[q]
    BY DEF ReplaceInv
  <2>1. /\ plugins[q].stage \in {"replace", "waiting"}
        /\ plugins'[q].seen = plugins[q].seen
        /\ plugins'[q].configured = plugins[q].configured
    BY <1>1
  <2>2. /\ plugins[q].seen \in DOMAIN daemons /\ ~plugins[q].configured
        /\ ~daemons[plugins[q].seen].managed
        /\ daemons[plugins[q].seen].version # VersionOf[q]
    BY <2>1 DEF StartupInv, ReplaceInv
  <2>3. QED
    BY <2>1, <2>2
<1>7. ComingInv'
  BY <1>1 DEF ComingInv
<1>8. KeptInv'
  <2> SUFFICES ASSUME faults.crashes = 0, \A d \in DOMAIN daemons : ~daemons'[d].told
               PROVE  /\ answered \subseteq state_file
                      /\ \A d \in DOMAIN daemons :
                           daemons'[d].stage = "serving" => answered \subseteq daemons'[d].memory
                      /\ (\A d \in DOMAIN daemons : daemons'[d].stage # "serving") =>
                           answered = {}
    BY DEF KeptInv
  <2>1. \A d \in DOMAIN daemons : ~daemons[d].told
    OBVIOUS
  <2>2. QED
    BY <2>1 DEF StartupInv, KeptInv
<1>9. QED
  BY <1>2, <1>4, <1>5, <1>6, <1>7, <1>8 DEF StartupInv

LEMMA ShutsKeeps ==
    ASSUME StartupInv, NEW p \in Plugins, Shuts(p)
    PROVE  StartupInv'
<1>1. /\ plugins \in [Plugins -> PluginStates] /\ plugins[p] \in PluginStates
      /\ plugins[p].stage = "replace"
      /\ UNCHANGED <<state_file, answered, faults>>
      /\ faults \in [late : Nat, lost : Nat, crashes : Nat, restarts : Nat]
  BY DEF Shuts, StartupInv, StartupTypeOK
<1>2. CASE Answering(p) = {}
  <2> DEFINE new == [plugins[p] EXCEPT !.stage = "settled", !.left = 0]
  <2>1. plugins' = [plugins EXCEPT ![p] = new] /\ SameDaemons
    BY <1>1, <1>2, Unmoved DEF Shuts, At
  <2>2. /\ new \in PluginStates /\ new.stage = "settled"
        /\ new.configured = plugins[p].configured
    BY <1>1 DEF PluginStates
  <2>3. \A d : ~WaitsFor(p, d)
    BY <1>1 DEF WaitsFor
  <2> HIDE DEF new
  <2>4. QED
    BY <1>1, <2>1, <2>2, <2>3, GoesOnKeeps
<1>3. CASE Answering(p) # {}
  <2> DEFINE new == [plugins[p] EXCEPT !.stage = "waiting", !.left = StopAttempts]
  <2>1. /\ plugins' = [plugins EXCEPT ![p] = new]
        /\ daemons' = [d \in DOMAIN daemons |->
             IF d \in Answering(p) THEN [daemons[d] EXCEPT !.told = TRUE] ELSE daemons[d]]
    BY <1>1, <1>3 DEF Shuts, At, AfterShutdown
  <2>2. StopAttempts \in Nat /\ StopAttempts > 0
    BY StartupAssumption DEF StartupAssumption
  <2>3. /\ new \in PluginStates /\ new.stage = "waiting" /\ new.left > 0
        /\ new.seen = plugins[p].seen /\ new.configured = plugins[p].configured
    BY <1>1, <2>2 DEF PluginStates
  <2>4. \A d \in DOMAIN daemons : daemons[d] \in Processes
    BY DEF StartupInv, StartupTypeOK
  <2>5. /\ \A d \in DOMAIN daemons : daemons'[d] \in Processes
        /\ daemons' \in [DOMAIN daemons -> Processes]
    BY <2>1, <2>4, ZenonT(20) DEF Processes
  <2>6. daemons' \in Seq(Processes) /\ DOMAIN daemons' = DOMAIN daemons
    BY <2>5, Remade DEF StartupInv, StartupTypeOK
  <2>7. \A d \in DOMAIN daemons :
          /\ daemons'[d].stage = daemons[d].stage
          /\ daemons'[d].version = daemons[d].version
          /\ daemons'[d].token = daemons[d].token
          /\ daemons'[d].managed = daemons[d].managed
          /\ daemons'[d].memory = daemons[d].memory
          /\ daemons'[d].told <=> (daemons[d].told \/ d \in Answering(p))
    BY <2>1, <2>4 DEF Processes
  <2> HIDE DEF new
  <2>8. QED
    BY <1>1, <2>1, <2>3, <2>6, <2>7, TellsKeeps
<1>4. QED
  BY <1>2, <1>3

LEMMA ShutsUnheardKeeps ==
    ASSUME StartupInv, NEW p \in Plugins, ShutsUnheard(p)
    PROVE  StartupInv'
<1>1. /\ plugins \in [Plugins -> PluginStates] /\ plugins[p] \in PluginStates
      /\ plugins[p].stage = "replace"
      /\ UNCHANGED <<state_file, answered>>
      /\ faults \in [late : Nat, lost : Nat, crashes : Nat, restarts : Nat]
      /\ faults' = [faults EXCEPT !.lost = @ + 1]
  BY DEF ShutsUnheard, StartupInv, StartupTypeOK
<1> DEFINE new == [plugins[p] EXCEPT !.stage = "settled", !.left = 0]
<1>2. plugins' = [plugins EXCEPT ![p] = new] /\ ToldToStop(Answering(p))
  BY <1>1 DEF ShutsUnheard, At
<1>3. /\ new \in PluginStates /\ new.stage = "settled"
      /\ new.seen = plugins[p].seen /\ new.configured = plugins[p].configured
  BY <1>1 DEF PluginStates
<1>4. /\ faults' \in [late : Nat, lost : Nat, crashes : Nat, restarts : Nat]
      /\ faults'.crashes = faults.crashes /\ faults'.lost # 0
  BY <1>1
<1>5. \A d \in DOMAIN daemons : daemons[d] \in Processes
  BY DEF StartupInv, StartupTypeOK
<1>6. \A d \in DOMAIN daemons :
        (daemons[d].told \/ d \in Answering(p)) \in BOOLEAN
  BY <1>5 DEF Processes
<1>7. daemons' = [d \in DOMAIN daemons |->
         [daemons[d] EXCEPT !.told = daemons[d].told \/ d \in Answering(p)]]
  BY <1>2, <1>5 DEF ToldToStop, Processes
<1>8. \A d \in DOMAIN daemons :
        /\ daemons'[d] \in Processes
        /\ daemons'[d].stage = daemons[d].stage
        /\ daemons'[d].version = daemons[d].version
        /\ daemons'[d].token = daemons[d].token
        /\ daemons'[d].managed = daemons[d].managed
        /\ daemons'[d].memory = daemons[d].memory
        /\ daemons'[d].told <=> (daemons[d].told \/ d \in Answering(p))
  BY <1>5, <1>6, <1>7 DEF Processes
<1>9. daemons' \in [DOMAIN daemons -> Processes]
  BY <1>7, <1>8
<1>10. daemons' \in Seq(Processes) /\ DOMAIN daemons' = DOMAIN daemons
  BY <1>9, Remade DEF StartupInv, StartupTypeOK
<1> HIDE DEF new
<1>11. QED
  BY <1>1, <1>2, <1>3, <1>4, <1>8, <1>10, TellsKeeps

-----------------------------------------------------------------------------
(* Daemons.                                                                  *)

LEMMA ProcessIs ==
    ASSUME NEW version \in Releases, NEW managed \in BOOLEAN,
           NEW token \in {NoToken} \cup {TokenOf[p] : p \in Plugins}
    PROVE  LET new == Process(version, token, managed)
           IN  new \in Processes /\ new.stage = "booting" /\ ~new.told
  BY DEF Process, Processes

\* One daemon more, that has not read anything.
LEMMA ArrivesKeeps ==
    ASSUME StartupInv, NEW new \in Processes,
           new.stage = "booting", ~new.told,
           daemons' = Append(daemons, new),
           plugins' \in [Plugins -> PluginStates],
           \A q \in Plugins :
             \/ plugins'[q] = plugins[q]
             \/ /\ plugins[q].stage = "start" /\ plugins'[q].stage = "starting"
                /\ plugins'[q].left > 0,
           UNCHANGED <<state_file, answered, faults>>
    PROVE  StartupInv'
<1>1. PICK last : last = Len(daemons) + 1
  OBVIOUS
<1>2. /\ daemons \in Seq(Processes) /\ daemons' \in Seq(Processes)
      /\ DOMAIN daemons' = DOMAIN daemons \cup {last} /\ last \notin DOMAIN daemons
      /\ daemons'[last] = new
      /\ \A d \in DOMAIN daemons : daemons'[d] = daemons[d]
  BY <1>1, AppendProperties DEF StartupInv, StartupTypeOK
<1>3. StartupTypeOK'
  <2>1. \A q \in Plugins : plugins'[q].stage = "starting" => plugins'[q].left > 0
    BY DEF StartupInv, StartupTypeOK
  <2>2. QED
    BY <1>2, <2>1 DEF StartupInv, StartupTypeOK
<1>4. PortInv'
  BY <1>2 DEF StartupInv, PortInv
<1>5. StopInv'
  <2> SUFFICES ASSUME faults.lost = 0, NEW d \in DOMAIN daemons',
                      daemons'[d].stage = "serving", daemons'[d].told
               PROVE  \E q \in Plugins : WaitsFor(q, d)'
    BY DEF StopInv
  <2>1. d \in DOMAIN daemons /\ daemons'[d] = daemons[d]
    BY <1>2
  <2>2. PICK q \in Plugins : WaitsFor(q, d)
    BY <2>1 DEF StartupInv, StopInv
  <2>3. WaitsFor(q, d)'
    BY <2>1, <2>2 DEF WaitsFor
  <2>4. QED
    BY <2>3
<1>6. ReplaceInv'
  BY <1>2 DEF StartupInv, ReplaceInv
<1>7. ComingInv'
  BY <1>2 DEF ComingInv, Coming
<1>8. KeptInv'
  BY <1>2 DEF StartupInv, KeptInv
<1>9. QED
  BY <1>3, <1>4, <1>5, <1>6, <1>7, <1>8 DEF StartupInv

LEMMA StartsKeeps ==
    ASSUME StartupInv, NEW p \in Plugins, Starts(p)
    PROVE  StartupInv'
<1> DEFINE new == Process(VersionOf[p], TokenOf[p], FALSE)
<1>1. /\ plugins \in [Plugins -> PluginStates] /\ plugins[p] \in PluginStates
      /\ plugins[p].stage = "start" /\ daemons' = Append(daemons, new)
      /\ plugins' = [plugins EXCEPT ![p] =
                       [plugins[p] EXCEPT !.stage = "starting", !.left = StartAttempts]]
      /\ UNCHANGED <<state_file, answered, faults>>
  BY DEF Starts, At, StartupInv, StartupTypeOK
<1>2. /\ StartAttempts \in Nat /\ StartAttempts > 0 /\ VersionOf[p] \in Releases
  BY StartupAssumption DEF StartupAssumption
<1>3. new \in Processes /\ new.stage = "booting" /\ ~new.told
  BY <1>2, ProcessIs
<1>4. /\ plugins' \in [Plugins -> PluginStates]
      /\ plugins'[p].stage = "starting" /\ plugins'[p].left > 0
      /\ \A q \in Plugins : q # p => plugins'[q] = plugins[q]
  BY <1>1, <1>2 DEF PluginStates
<1> HIDE DEF new
<1>5. QED
  BY <1>1, <1>3, <1>4, ArrivesKeeps

LEMMA ManagerStartsKeeps ==
    ASSUME StartupInv, NEW version \in Releases, ManagerStarts(version)
    PROVE  StartupInv'
<1> DEFINE new == Process(version, NoToken, TRUE)
<1>1. /\ daemons' = Append(daemons, new) /\ plugins' \in [Plugins -> PluginStates]
      /\ UNCHANGED <<plugins, state_file, answered, faults>>
  BY DEF ManagerStarts, StartupInv, StartupTypeOK
<1>2. new \in Processes /\ new.stage = "booting" /\ ~new.told
  BY ProcessIs
<1> HIDE DEF new
<1>3. QED
  BY <1>1, <1>2, ArrivesKeeps

\* A daemon that goes on: it does not come to a port that is taken, and where
\* one that would serve gives up another serves, or will.
LEMMA MovesKeeps ==
    ASSUME StartupInv, NEW d \in DOMAIN daemons, NEW new \in Processes,
           daemons' = [daemons EXCEPT ![d] = new],
           new.version = daemons[d].version, new.token = daemons[d].token,
           new.managed = daemons[d].managed, new.told = daemons[d].told,
           new.stage = "serving" =>
             \/ daemons[d].stage = "serving"
             \/ \A e \in DOMAIN daemons : daemons[e].stage # "serving"
                                          /\ ~new.told,
           new.stage = "closing" => new.told,
           new.stage \in {"booting", "loaded"} =>
             daemons[d].stage \in {"booting", "loaded"},
           plugins' \in [Plugins -> PluginStates],
           \A q \in Plugins :
             /\ plugins'[q].stage = plugins[q].stage
             /\ plugins'[q].left = plugins[q].left
             /\ plugins'[q].seen = plugins[q].seen
             /\ plugins'[q].configured = plugins[q].configured,
           state_file' \subseteq SignalIds, answered' \subseteq SignalIds,
           faults' \in [late : Nat, lost : Nat, crashes : Nat, restarts : Nat],
           faults'.lost = faults.lost,
           faults'.crashes = 0 => faults.crashes = 0,
           faults'.crashes = 0 /\ Coming(d) =>
             \/ new.stage \in {"booting", "loaded"}
             \/ new.stage = "serving" /\ ~new.told
             \/ \E e \in DOMAIN daemons : e # d /\ daemons[e].stage = "serving",
           KeptInv'
    PROVE  StartupInv'
<1>1. /\ daemons \in Seq(Processes) /\ daemons' \in Seq(Processes)
      /\ DOMAIN daemons' = DOMAIN daemons /\ daemons'[d] = new
      /\ \A e \in DOMAIN daemons : e # d => daemons'[e] = daemons[e]
  <2>1. daemons \in Seq(Processes)
    BY DEF StartupInv, StartupTypeOK
  <2>2. \A e \in DOMAIN daemons : daemons[e] \in Processes
    BY <2>1
  <2>3. daemons' \in [DOMAIN daemons -> Processes]
    BY <2>2
  <2>4. QED
    BY <2>1, <2>3, Remade
<1>2. StartupTypeOK'
  BY <1>1 DEF StartupInv, StartupTypeOK
<1>3. PortInv'
  <2>1. \A e \in DOMAIN daemons : daemons'[e].stage = "serving" =>
          \/ daemons[e].stage = "serving"
          \/ e = d /\ \A c \in DOMAIN daemons : daemons[c].stage # "serving"
    BY <1>1
  <2>2. \A b, c \in DOMAIN daemons :
          daemons'[b].stage = "serving" /\ daemons'[c].stage = "serving" => b = c
    BY <2>1 DEF StartupInv, PortInv
  <2>3. \A e \in DOMAIN daemons :
          /\ daemons'[e].stage = "closing" => daemons'[e].told
          /\ daemons'[e].stage \in {"booting", "loaded"} => ~daemons'[e].told
    BY <1>1 DEF StartupInv, PortInv
  <2>4. QED
    BY <1>1, <2>2, <2>3 DEF PortInv
<1>4. StopInv'
  <2> SUFFICES ASSUME faults.lost = 0, NEW e \in DOMAIN daemons,
                      daemons'[e].stage = "serving", daemons'[e].told
               PROVE  \E q \in Plugins : WaitsFor(q, e)'
    BY <1>1 DEF StopInv
  <2>1. daemons[e].stage = "serving" /\ daemons[e].told
    BY <1>1
  <2>2. PICK q \in Plugins : WaitsFor(q, e)
    BY <2>1 DEF StartupInv, StopInv
  <2>3. WaitsFor(q, e)'
    BY <2>2, <1>1 DEF WaitsFor
  <2>4. QED
    BY <2>3
<1>5. ReplaceInv'
  <2> SUFFICES ASSUME NEW q \in Plugins, plugins'[q].stage \in {"replace", "waiting"}
               PROVE  LET s == plugins'[q].seen
                      IN  /\ s \in DOMAIN daemons' /\ ~plugins'[q].configured
                          /\ ~daemons'[s].managed
                          /\ daemons'[s].version # VersionOf[q]
    BY DEF ReplaceInv
  <2>1. /\ plugins[q].seen \in DOMAIN daemons /\ ~plugins[q].configured
        /\ ~daemons[plugins[q].seen].managed
        /\ daemons[plugins[q].seen].version # VersionOf[q]
    BY DEF StartupInv, ReplaceInv
  <2>2. QED
    BY <2>1, <1>1
<1>6. ComingInv'
  <2> SUFFICES ASSUME faults'.crashes = 0, faults.lost = 0, NEW q \in Plugins,
                      plugins'[q].stage # "new", ~plugins'[q].configured
               PROVE  \/ \E e \in DOMAIN daemons : Coming(e)'
                      \/ \E r \in Plugins : plugins'[r].stage \in {"waiting", "start"}
    BY <1>1 DEF ComingInv
  <2>1. \/ \E e \in DOMAIN daemons : Coming(e)
        \/ \E r \in Plugins : plugins[r].stage \in {"waiting", "start"}
    BY DEF StartupInv, ComingInv
  <2>2. CASE \E r \in Plugins : plugins[r].stage \in {"waiting", "start"}
    BY <2>2
  <2>3. ASSUME NEW e \in DOMAIN daemons, e # d, Coming(e) \/ daemons[e].stage = "serving"
        PROVE  \/ Coming(e)'
               \/ \E r \in Plugins : plugins'[r].stage \in {"waiting", "start"}
    <3>1. CASE Coming(e)
      BY <2>3, <3>1, <1>1 DEF Coming, Listens
    <3>2. CASE ~Coming(e)
      <4>1. daemons[e].stage = "serving" /\ daemons[e].told
        BY <2>3, <3>2 DEF Coming, Listens
      <4>2. PICK r \in Plugins : WaitsFor(r, e)
        BY <4>1 DEF StartupInv, StopInv
      <4>3. QED
        BY <4>2 DEF WaitsFor
    <3>3. QED
      BY <3>1, <3>2
  <2>4. CASE Coming(d)
    <3>1. CASE \/ new.stage \in {"booting", "loaded"}
               \/ new.stage = "serving" /\ ~new.told
      BY <3>1, <1>1 DEF Coming, Listens
    <3>2. CASE \E e \in DOMAIN daemons : e # d /\ daemons[e].stage = "serving"
      BY <3>2, <2>3
    <3>3. QED
      BY <2>4, <3>1, <3>2
  <2>5. QED
    BY <2>1, <2>2, <2>3, <2>4
<1>7. QED
  BY <1>2, <1>3, <1>4, <1>5, <1>6 DEF StartupInv

LEMMA SamePlugins ==
    ASSUME StartupInv, UNCHANGED plugins
    PROVE  /\ plugins' \in [Plugins -> PluginStates]
           /\ \A q \in Plugins :
                /\ plugins'[q].stage = plugins[q].stage
                /\ plugins'[q].left = plugins[q].left
                /\ plugins'[q].seen = plugins[q].seen
                /\ plugins'[q].configured = plugins[q].configured
  BY DEF StartupInv, StartupTypeOK

\* A daemon that goes from one stage to another, as `Becomes` has it.
LEMMA BecomesIs ==
    ASSUME StartupInv, NEW d \in DOMAIN daemons,
           NEW stage \in {"booting", "loaded", "serving", "closing", "gone"},
           NEW new, new = [daemons[d] EXCEPT !.stage = stage]
    PROVE  /\ new \in Processes /\ new.stage = stage
           /\ new.version = daemons[d].version /\ new.token = daemons[d].token
           /\ new.managed = daemons[d].managed /\ new.told = daemons[d].told
           /\ new.memory = daemons[d].memory
<1>1. daemons[d] \in Processes
  BY DEF StartupInv, StartupTypeOK
<1>2. QED
  BY <1>1 DEF Processes

\* What is true of a told daemon is true after it goes on.
LEMMA ToldKept ==
    ASSUME StartupInv, NEW d \in DOMAIN daemons, NEW new,
           daemons' = [daemons EXCEPT ![d] = new], new.told = daemons[d].told,
           faults'.crashes = 0 => daemons[d].told
    PROVE  KeptInv'
<1>1. daemons'[d] = new /\ d \in DOMAIN daemons'
  BY DEF StartupInv, StartupTypeOK
<1>2. QED
  BY <1>1 DEF KeptInv

LEMMA LoadsKeeps ==
    ASSUME StartupInv, NEW d \in DOMAIN daemons, Loads(d)
    PROVE  StartupInv'
<1> DEFINE new == [daemons[d] EXCEPT !.stage = "loaded", !.memory = state_file]
<1>1. /\ daemons \in Seq(Processes) /\ daemons[d] \in Processes
      /\ state_file \subseteq SignalIds /\ answered \subseteq SignalIds
      /\ faults \in [late : Nat, lost : Nat, crashes : Nat, restarts : Nat]
      /\ daemons[d].stage = "booting"
      /\ UNCHANGED <<plugins, state_file, answered, faults>>
  BY DEF Loads, StartupInv, StartupTypeOK
<1>2. daemons' = [daemons EXCEPT ![d] = new]
  BY <1>1 DEF Loads
<1>3. /\ new \in Processes /\ new.stage = "loaded"
      /\ new.version = daemons[d].version /\ new.token = daemons[d].token
      /\ new.managed = daemons[d].managed /\ new.told = daemons[d].told
  BY <1>1 DEF Processes
<1> HIDE DEF new
<1>4. KeptInv'
  <2>1. /\ DOMAIN daemons' = DOMAIN daemons /\ daemons'[d] = new
        /\ \A e \in DOMAIN daemons : e # d => daemons'[e] = daemons[e]
    BY <1>1, <1>2
  <2>2. \A e \in DOMAIN daemons : /\ daemons'[e].told = daemons[e].told
                                  /\ daemons'[e].stage = "serving" <=> daemons[e].stage = "serving"
                                  /\ daemons[e].stage = "serving" => daemons'[e] = daemons[e]
    BY <1>1, <1>3, <2>1
  <2>3. QED
    BY <1>1, <2>1, <2>2 DEF StartupInv, KeptInv
<1>5. QED
  BY <1>1, <1>2, <1>3, <1>4, SamePlugins, MovesKeeps

LEMMA BindsKeeps ==
    ASSUME StartupInv, NEW d \in DOMAIN daemons, Binds(d)
    PROVE  StartupInv'
<1>1. PICK stage : stage = BindsOr(d)
  OBVIOUS
<1> DEFINE new == [daemons[d] EXCEPT !.stage = stage]
<1>2. /\ daemons \in Seq(Processes) /\ daemons[d] \in Processes
      /\ state_file \subseteq SignalIds /\ answered \subseteq SignalIds
      /\ faults \in [late : Nat, lost : Nat, crashes : Nat, restarts : Nat]
      /\ daemons[d].stage = "loaded" /\ ~daemons[d].told
      /\ UNCHANGED <<plugins, state_file, answered, faults>>
  BY DEF Binds, StartupInv, StartupTypeOK, PortInv
<1>3. /\ stage \in {"serving", "gone"}
      /\ stage = "serving" => \A e \in DOMAIN daemons : daemons[e].stage # "serving"
      /\ stage = "gone" => \E e \in DOMAIN daemons : daemons[e].stage = "serving"
  BY <1>1 DEF BindsOr, On
<1>4. daemons' = [daemons EXCEPT ![d] = new]
  BY <1>1, <1>2 DEF Binds, Becomes
<1>5. /\ new \in Processes /\ new.stage = stage
      /\ new.version = daemons[d].version /\ new.token = daemons[d].token
      /\ new.managed = daemons[d].managed /\ new.told = daemons[d].told
  BY <1>3, BecomesIs
<1> HIDE DEF new
<1>6. KeptInv'
  <2>1. /\ DOMAIN daemons' = DOMAIN daemons /\ daemons'[d] = new
        /\ \A e \in DOMAIN daemons : e # d => daemons'[e] = daemons[e]
    BY <1>2, <1>4
  <2>2. \A e \in DOMAIN daemons : daemons'[e].told = daemons[e].told
    BY <1>5, <2>1
  <2>3. CASE stage = "serving"
    <3>1. \A e \in DOMAIN daemons : daemons[e].stage # "serving"
      BY <1>3, <2>3
    <3>2. QED
      BY <1>2, <1>5, <2>1, <2>2, <2>3, <3>1 DEF StartupInv, KeptInv
  <2>4. CASE stage = "gone"
    <3>1. \A e \in DOMAIN daemons :
            /\ daemons'[e].stage = "serving" <=> daemons[e].stage = "serving"
            /\ daemons[e].stage = "serving" => daemons'[e] = daemons[e]
      BY <1>2, <1>5, <2>1, <2>4
    <3>2. QED
      BY <1>2, <2>1, <2>2, <3>1 DEF StartupInv, KeptInv
  <2>5. QED
    BY <1>3, <2>3, <2>4
<1>7. faults'.crashes = 0 /\ Coming(d) =>
        \/ new.stage = "serving" /\ ~new.told
        \/ \E e \in DOMAIN daemons : e # d /\ daemons[e].stage = "serving"
  BY <1>2, <1>3, <1>5
<1>8. new.stage \notin {"closing", "booting", "loaded"}
  BY <1>3, <1>5
<1>9. new.stage = "serving" =>
        \A e \in DOMAIN daemons : daemons[e].stage # "serving" /\ ~new.told
  BY <1>2, <1>3, <1>5
<1>10. QED
  BY <1>2, <1>4, <1>5, <1>6, <1>7, <1>8, <1>9, SamePlugins, MovesKeeps

LEMMA ClosesKeeps ==
    ASSUME StartupInv, NEW d \in DOMAIN daemons, Closes(d) \/ Finishes(d)
    PROVE  StartupInv'
<1>1. PICK stage \in {"closing", "gone"} : Becomes(d, stage)
  BY DEF Closes, Finishes
<1> DEFINE new == [daemons[d] EXCEPT !.stage = stage]
<1>2. /\ daemons \in Seq(Processes) /\ daemons[d] \in Processes
      /\ state_file \subseteq SignalIds /\ answered \subseteq SignalIds
      /\ faults \in [late : Nat, lost : Nat, crashes : Nat, restarts : Nat]
      /\ daemons[d].stage \in {"serving", "closing"} /\ daemons[d].told
      /\ UNCHANGED <<plugins, state_file, answered, faults>>
  BY DEF Closes, Finishes, StartupInv, StartupTypeOK, PortInv
<1>3. daemons' = [daemons EXCEPT ![d] = new]
  BY <1>1, <1>2 DEF Becomes
<1>4. /\ new \in Processes /\ new.stage = stage
      /\ new.version = daemons[d].version /\ new.token = daemons[d].token
      /\ new.managed = daemons[d].managed /\ new.told = daemons[d].told
  BY BecomesIs
<1> HIDE DEF new
<1>5. KeptInv'
  BY <1>2, <1>3, <1>4, ToldKept
<1>6. ~Coming(d)
  BY <1>2 DEF Coming, Listens
<1>7. QED
  BY <1>2, <1>3, <1>4, <1>5, <1>6, SamePlugins, MovesKeeps

\* Only the one at the port answers, and what it saves has all it answered.
LEMMA RepliesKeeps ==
    ASSUME StartupInv, NEW d \in DOMAIN daemons, NEW s \in daemons[d].requests,
           Replies(d, s)
    PROVE  StartupInv'
<1> DEFINE memory == daemons[d].memory \cup {s}
           new == [daemons[d] EXCEPT !.requests = daemons[d].requests \ {s},
                                     !.memory = memory]
<1>1. /\ daemons \in Seq(Processes) /\ daemons[d] \in Processes
      /\ plugins \in [Plugins -> PluginStates]
      /\ state_file \subseteq SignalIds /\ answered \subseteq SignalIds
      /\ faults \in [late : Nat, lost : Nat, crashes : Nat, restarts : Nat]
      /\ daemons[d].stage \in {"serving", "closing"}
      /\ UNCHANGED faults
  BY DEF Replies, StartupInv, StartupTypeOK
<1>2. s \in SignalIds /\ memory \subseteq SignalIds /\ s[1] \in Plugins
  BY <1>1 DEF Processes, SignalIds
<1>3. daemons' = [daemons EXCEPT ![d] = new]
  BY <1>1 DEF Replies
<1>4. /\ new \in Processes /\ new.stage = daemons[d].stage /\ new.memory = memory
      /\ new.version = daemons[d].version /\ new.token = daemons[d].token
      /\ new.managed = daemons[d].managed /\ new.told = daemons[d].told
  <2>1. daemons[d].requests \ {s} \in SUBSET SignalIds /\ memory \in SUBSET SignalIds
    BY <1>1, <1>2 DEF Processes
  <2> HIDE DEF memory
  <2>2. QED
    BY <1>1, <2>1 DEF Processes
<1> HIDE DEF new
<1>5. /\ DOMAIN daemons' = DOMAIN daemons /\ daemons'[d] = new
      /\ \A e \in DOMAIN daemons : e # d => daemons'[e] = daemons[e]
  BY <1>1, <1>3
<1>6. state_file' = memory /\ answered' = answered \cup {s}
  BY <1>4, <1>5 DEF Replies
<1>7. KeptInv'
  <2> SUFFICES ASSUME faults.crashes = 0, \A e \in DOMAIN daemons : ~daemons'[e].told
               PROVE  /\ answered' \subseteq state_file'
                      /\ \A e \in DOMAIN daemons :
                           daemons'[e].stage = "serving" => answered' \subseteq daemons'[e].memory
                      /\ (\A e \in DOMAIN daemons : daemons'[e].stage # "serving") =>
                           answered' = {}
    BY <1>1, <1>5 DEF KeptInv
  <2>1. \A e \in DOMAIN daemons : ~daemons[e].told
    BY <1>4, <1>5
  <2>2. daemons[d].stage = "serving"
    BY <1>1, <2>1 DEF StartupInv, PortInv
  <2>3. answered \subseteq daemons[d].memory
    BY <2>1, <2>2 DEF StartupInv, KeptInv
  <2>4. answered' \subseteq memory
    BY <1>6, <2>3
  <2>5. \A e \in DOMAIN daemons : daemons'[e].stage = "serving" => e = d
    BY <1>5, <2>2 DEF StartupInv, PortInv
  <2> HIDE DEF memory
  <2>6. QED
    BY <1>4, <1>5, <1>6, <2>2, <2>4, <2>5
<1>8. \A q \in Plugins :
        /\ plugins'[q] \in PluginStates
        /\ plugins'[q].stage = plugins[q].stage
        /\ plugins'[q].left = plugins[q].left
        /\ plugins'[q].seen = plugins[q].seen
        /\ plugins'[q].configured = plugins[q].configured
  <2>1. PICK signal : signal = IF plugins[s[1]].sent = s[2] THEN "none"
                               ELSE plugins[s[1]].signal
    OBVIOUS
  <2>2. plugins' = [plugins EXCEPT ![s[1]] = [plugins[s[1]] EXCEPT !.signal = signal]]
    BY <1>1, <1>2, <2>1 DEF Replies
  <2>3. signal \in {"none", "dated", "plain", "judged"}
    BY <1>1, <1>2, <2>1 DEF PluginStates
  <2>4. [plugins[s[1]] EXCEPT !.signal = signal] \in PluginStates
    <3>1. plugins[s[1]] \in PluginStates
      BY <1>1, <1>2
    <3>2. QED
      BY <2>3, <3>1 DEF PluginStates
  <2>5. plugins' \in [Plugins -> PluginStates]
    BY <1>1, <2>2, <2>4
  <2>6. /\ plugins'[s[1]].stage = plugins[s[1]].stage
        /\ plugins'[s[1]].left = plugins[s[1]].left
        /\ plugins'[s[1]].seen = plugins[s[1]].seen
        /\ plugins'[s[1]].configured = plugins[s[1]].configured
    BY <1>1, <1>2, <2>2 DEF PluginStates
  <2>7. QED
    BY <1>1, <2>2, <2>5, <2>6
<1>9. plugins' \in [Plugins -> PluginStates]
  BY <1>1, <1>8 DEF Replies
<1>10. state_file' \subseteq SignalIds /\ answered' \subseteq SignalIds
  BY <1>1, <1>2, <1>6
<1>11. new.stage = "closing" => new.told
  BY <1>4 DEF StartupInv, PortInv
<1>12. Coming(d) => new.stage = "serving" /\ ~new.told
  BY <1>1, <1>4 DEF Coming, Listens
<1> HIDE DEF memory
<1>13. QED
  BY <1>1, <1>3, <1>4, <1>7, <1>8, <1>9, <1>10, <1>11, <1>12, MovesKeeps

LEMMA CrashesKeeps ==
    ASSUME StartupInv, NEW d \in DOMAIN daemons, Crashes(d)
    PROVE  StartupInv'
<1> DEFINE new == [daemons[d] EXCEPT !.stage = "gone", !.requests = {}]
<1>1. /\ daemons \in Seq(Processes) /\ daemons[d] \in Processes
      /\ plugins \in [Plugins -> PluginStates]
      /\ state_file \subseteq SignalIds /\ answered \subseteq SignalIds
      /\ faults \in [late : Nat, lost : Nat, crashes : Nat, restarts : Nat]
      /\ faults' = [faults EXCEPT !.crashes = @ + 1]
      /\ UNCHANGED <<state_file, answered>>
  BY DEF Crashes, StartupInv, StartupTypeOK
<1>2. daemons' = [daemons EXCEPT ![d] = new]
  BY <1>1 DEF Crashes
<1>3. /\ new \in Processes /\ new.stage = "gone"
      /\ new.version = daemons[d].version /\ new.token = daemons[d].token
      /\ new.managed = daemons[d].managed /\ new.told = daemons[d].told
  BY <1>1 DEF Processes
<1>4. /\ faults' \in [late : Nat, lost : Nat, crashes : Nat, restarts : Nat]
      /\ faults'.crashes # 0 /\ faults'.lost = faults.lost
  BY <1>1
<1>5. \A q \in Plugins :
        /\ plugins'[q] \in PluginStates
        /\ plugins'[q].stage = plugins[q].stage
        /\ plugins'[q].left = plugins[q].left
        /\ plugins'[q].seen = plugins[q].seen
        /\ plugins'[q].configured = plugins[q].configured
  <2> SUFFICES ASSUME NEW q \in Plugins
               PROVE  /\ plugins'[q] \in PluginStates
                      /\ plugins'[q].stage = plugins[q].stage
                      /\ plugins'[q].left = plugins[q].left
                      /\ plugins'[q].seen = plugins[q].seen
                      /\ plugins'[q].configured = plugins[q].configured
    OBVIOUS
  <2>1. \/ plugins'[q] = plugins[q]
        \/ plugins'[q] = [plugins[q] EXCEPT !.signal = "none"]
    BY DEF Crashes
  <2>2. plugins[q] \in PluginStates
    BY <1>1
  <2>3. QED
    BY <2>1, <2>2 DEF PluginStates
<1>6. plugins' \in [Plugins -> PluginStates]
  BY <1>5 DEF Crashes
<1> HIDE DEF new
<1>7. KeptInv'
  BY <1>2, <1>3, <1>4, ToldKept
<1>8. QED
  BY <1>1, <1>2, <1>3, <1>4, <1>5, <1>6, <1>7, MovesKeeps

-----------------------------------------------------------------------------

LEMMA StartupUnchanged == StartupInv /\ UNCHANGED startupVars => StartupInv'
  BY DEF startupVars, StartupInv, StartupTypeOK, PortInv, StopInv, WaitsFor,
         ReplaceInv, ComingInv, Coming, Listens, KeptInv

LEMMA StartupStepKeeps == StartupInv /\ [StartupNext]_startupVars => StartupInv'
<1> SUFFICES ASSUME StartupInv, [StartupNext]_startupVars
             PROVE  StartupInv'
  OBVIOUS
<1>1. ASSUME NEW p \in Plugins,
             \/ Looks(p) \/ LooksInVain(p) \/ Shuts(p) \/ ShutsUnheard(p)
             \/ WaitsForPort(p) \/ Starts(p) \/ ChecksStart(p) \/ Reopens(p)
             \/ Sends(p) \/ Reaches(p) \/ TimesOut(p)
      PROVE  StartupInv'
  BY <1>1, LooksKeeps, LooksInVainKeeps, ShutsKeeps, ShutsUnheardKeeps,
     WaitsForPortKeeps, StartsKeeps, ChecksStartKeeps, ReopensKeeps,
     SendsKeeps, ReachesKeeps
<1>2. ASSUME NEW d \in DOMAIN daemons,
             \/ Loads(d) \/ Binds(d) \/ Closes(d) \/ Finishes(d) \/ Crashes(d)
             \/ \E s \in daemons[d].requests : Replies(d, s)
      PROVE  StartupInv'
  BY <1>2, LoadsKeeps, BindsKeeps, ClosesKeeps, CrashesKeeps, RepliesKeeps
<1>3. ASSUME NEW version \in Releases, ManagerStarts(version)
      PROVE  StartupInv'
  BY <1>3, ManagerStartsKeeps
<1>4. CASE UNCHANGED startupVars
  BY <1>4, StartupUnchanged
<1>5. QED
  BY <1>1, <1>2, <1>3, <1>4 DEF StartupNext

\* What holds of every reachable state serves every plugin: at most one daemon
\* has the port, so the set of those is of at most one.
LEMMA StartupServes == StartupInv => DaemonServed
<1> SUFFICES ASSUME StartupInv PROVE DaemonServed
  OBVIOUS
<1>1. Served
  <2> SUFFICES ASSUME \A p \in Plugins : Settled(p), faults.crashes = 0,
                      faults.lost = 0, NEW q \in Plugins, ~plugins[q].configured
               PROVE  \E d \in DOMAIN daemons :
                         Listens(d) \/ daemons[d].stage \in {"booting", "loaded"}
    BY DEF Served, StartupInv, StartupTypeOK, PluginStates
  <2>1. \A p \in Plugins : plugins[p].stage = "settled"
    BY DEF Settled
  <2>2. QED
    BY <2>1 DEF StartupInv, ComingInv, Coming
<1>2. Cardinality(On("serving")) <= 1
  <2>1. CASE On("serving") = {}
    BY <2>1, FS_EmptySet
  <2>2. ASSUME NEW d \in On("serving") PROVE Cardinality(On("serving")) <= 1
    <3>1. On("serving") = {d}
      BY <2>2 DEF On, StartupInv, PortInv
    <3>2. QED
      BY <3>1, FS_Singleton
  <2>3. QED
    BY <2>1, <2>2
<1>3. OthersLeft
  BY <1>2 DEF OthersLeft, StartupInv, ReplaceInv
<1>4. MemoryKept
  BY DEF MemoryKept, StartupInv, KeptInv
<1>5. QED
  BY <1>1, <1>3, <1>4 DEF DaemonServed

-----------------------------------------------------------------------------

\* Every reachable state is well typed: attempts are counted down to none, and
\* requests are of signals that were sent.
THEOREM StartupTypeCorrect == StartupSpec => []StartupTypeOK
<1>1. StartupInv => StartupTypeOK
  BY DEF StartupInv
<1>2. QED
  BY <1>1, StartupStart, StartupStepKeeps, PTL DEF StartupSpec

\* Whichever plugins look for, stop and start daemons beside each other, for
\* any number of them, of releases, tokens and attempts: unless a daemon dies
\* or a request to stop is unheard, a daemon is there or coming when all have
\* settled; only one of another version, that nobody manages, is replaced;
\* and the one at the port has what was answered so far.
THEOREM OneDaemonServes == StartupSpec => []DaemonServed
<1>1. QED
  BY StartupStart, StartupStepKeeps, StartupServes, PTL DEF StartupSpec

-----------------------------------------------------------------------------
(* Types.                                                                    *)

ToolSets == SUBSET Exposed

FiberStages == {"none", "read", "sent", "judging", "replied", "hide", "store",
                "say", "list", "remember", "deliver", "attach"}

FiberStates ==
    [stage : FiberStages, kind : {"none", "prompt", "tool", "ask"},
     first : BOOLEAN, tools : ToolSets, hide : ToolSets, reveal : ToolSets,
     skills : SUBSET Skills, present : SUBSET Skills, set : ToolSets]

Maybes == {Unknown} \cup {Known(t) : t \in ToolSets}

ExposureTypeOK ==
    /\ cache \in Maybes /\ storage \in Maybes /\ recorded \in Maybes
    /\ inherits \in {Unknown} \cup {Known(h) : h \in ParentHides}
    /\ in_context \in [Skills -> Nat] /\ begun \in BOOLEAN
    /\ fibers \in [Fibers -> FiberStates]
    /\ agent \in [skills : SUBSET Skills, attached : SUBSET Skills]
    /\ used \in [prompts : Nat, calls : Nat, compactions : Nat, restarts : Nat]
    /\ doubted \in ToolSets /\ back \in ToolSets /\ excused \in BOOLEAN

-----------------------------------------------------------------------------
(* The inductive invariant.                                                  *)

Doubted(tools) ==
    tools \subseteq doubted /\ tools \cap Base \subseteq UNION ParentHides

\* What is or will be hidden was judged, at every stage of a change.
ShownInv ==
    /\ \A maybe \in {cache, storage, recorded, inherits} : Doubted(TheSet(maybe))
    /\ \A f \in Fibers :
         /\ Doubted(fibers[f].set)
         /\ fibers[f].hide \subseteq doubted /\ fibers[f].hide \cap Base = {}

\* Until the first prompt is admitted nothing is stored, and nothing happens.
BegunInv ==
    /\ storage = Unknown =>
         back = {} /\ ~begun /\ \A f \in Fibers : fibers[f].stage = "none"
    /\ inherits # Unknown => storage = Unknown

\* Only a prompt that starts a context hides, and it brings nothing back.
FirstInv ==
    LET fiber == fibers["prompt"]
    IN  /\ fiber.hide # {} => fiber.first
        /\ fiber.first => fiber.reveal = {}
        /\ ~excused /\ fiber.stage # "none" /\ fiber.first => back = {}

AloneInv == ~excused => \E f \in Fibers : fibers[f].stage = "none"

\* What was brought back is hidden nowhere, except in a storage that is about
\* to be written, from a cache that is known.
BackInv ==
    ~excused =>
      LET prompt == fibers["prompt"]
          call == fibers["call"]
      IN  /\ TheSet(cache) \cap back = {}
          /\ prompt.stage # "store" => TheSet(storage) \cap back = {}
          /\ prompt.stage = "store" => cache = Known(prompt.set)
          /\ prompt.stage \in {"hide", "store"} => prompt.set \cap back = {}
          /\ call.stage \in {"say", "list", "remember"} => call.set \cap back = {}
          /\ call.stage = "remember" => storage = Known(call.set \ call.reveal)

\* A change goes by the skills that are in the context.
SkillInv ==
    ~excused =>
      /\ \A s \in Skills : in_context[s] <= 1
      /\ \A f \in Fibers : fibers[f].stage # "none" => fibers[f].present = InContext

ExposureInv ==
    /\ ExposureTypeOK /\ ShownInv /\ BegunInv /\ FirstInv /\ AloneInv
    /\ BackInv /\ SkillInv

-----------------------------------------------------------------------------
(* Helpers.                                                                  *)

\* A set that is known is that set.
LEMMA KnownIs ==
    ASSUME NEW tools
    PROVE  TheSet(Known(tools)) = tools /\ Known(tools) # Unknown
  BY DEF TheSet, Known, Unknown

LEMMA UnknownIs == TheSet(Unknown) = {}
  BY DEF TheSet, Unknown

\* What is hidden now is of the host's tools, doubted, and not brought back.
LEMMA CurrentIs ==
    ASSUME ExposureInv
    PROVE  /\ Current \in ToolSets /\ Doubted(Current)
           /\ ~excused => Current \cap back = {}
<1>1. \A maybe \in Maybes : TheSet(maybe) \in ToolSets
  BY KnownIs, UnknownIs DEF Maybes, ToolSets
<1>2. Current \in {TheSet(cache), TheSet(storage), TheSet(recorded)}
  BY DEF Current
<1>3. Current \in ToolSets /\ Doubted(Current)
  BY <1>1, <1>2 DEF ExposureInv, ExposureTypeOK, ShownInv
<1>4. ASSUME ~excused PROVE Current \cap back = {}
  <2>1. CASE cache # Unknown
    BY <2>1, <1>4 DEF Current, ExposureInv, BackInv
  <2>2. CASE cache = Unknown /\ storage # Unknown
    <3>1. fibers["prompt"].stage # "store"
      BY <2>2, <1>4, KnownIs DEF ExposureInv, BackInv
    <3>2. QED
      BY <2>2, <3>1, <1>4 DEF Current, ExposureInv, BackInv
  <2>3. CASE storage = Unknown
    BY <2>3 DEF ExposureInv, BegunInv
  <2>4. QED
    BY <2>1, <2>2, <2>3
<1>5. QED
  BY <1>3, <1>4

LEMMA PutIs ==
    ASSUME ExposureInv, NEW f \in Fibers, NEW new \in FiberStates, Put(f, new)
    PROVE  /\ fibers' \in [Fibers -> FiberStates] /\ fibers'[f] = new
           /\ \A g \in Fibers : g # f => fibers'[g] = fibers[g]
  BY DEF Put, ExposureInv, ExposureTypeOK

LEMMA FiberNames == Fibers = {"prompt", "call"}
  BY DEF Fibers

\* A step that reads what is hidden, or nothing, and writes only to its fiber
\* and the cache.
LEMMA ReadsKeeps ==
    ASSUME ExposureInv, NEW f \in Fibers, NEW new \in FiberStates, Put(f, new),
           cache' = cache \/ cache' = Known(Current),
           UNCHANGED <<storage, recorded, in_context, begun, inherits, back>>,
           doubted' \in ToolSets, doubted \subseteq doubted',
           agent' \in [skills : SUBSET Skills, attached : SUBSET Skills],
           used' \in [prompts : Nat, calls : Nat, compactions : Nat, restarts : Nat],
           excused' \in BOOLEAN, excused => excused',
           ~excused' => \E g \in Fibers : fibers'[g].stage = "none",
           new.set \subseteq doubted', new.set \cap Base \subseteq UNION ParentHides,
           new.hide \subseteq doubted', new.hide \cap Base = {},
           f = "prompt" => (new.hide # {} => new.first) /\ (new.first => new.reveal = {}),
           f = "prompt" /\ ~excused' /\ new.stage # "none" /\ new.first => back = {},
           ~excused' /\ fibers["prompt"].stage = "store" =>
             f # "prompt" /\ cache' = cache,
           f = "prompt" => new.stage # "store",
           f = "call" => new.stage \notin {"list", "remember"},
           ~excused' /\ new.stage \in {"hide", "say"} => new.set \cap back = {},
           ~excused' /\ new.stage # "none" => new.present = InContext,
           new.stage # "none" => storage # Unknown
    PROVE  ExposureInv'
<1>1. /\ fibers' \in [Fibers -> FiberStates] /\ fibers'[f] = new
      /\ \A g \in Fibers : g # f => fibers'[g] = fibers[g]
  BY PutIs
<1>2. ExposureTypeOK'
  BY <1>1, CurrentIs DEF ExposureInv, ExposureTypeOK, Maybes
<1>3. ShownInv'
  <2>1. TheSet(cache') \subseteq doubted' /\ TheSet(cache') \cap Base \subseteq UNION ParentHides
    BY CurrentIs, KnownIs DEF ExposureInv, ShownInv, Doubted
  <2>2. \A maybe \in {storage, recorded, inherits} :
          TheSet(maybe) \subseteq doubted' /\ TheSet(maybe) \cap Base \subseteq UNION ParentHides
    BY DEF ExposureInv, ShownInv, Doubted
  <2>3. \A g \in Fibers :
          /\ fibers'[g].set \subseteq doubted' /\ fibers'[g].set \cap Base \subseteq UNION ParentHides
          /\ fibers'[g].hide \subseteq doubted' /\ fibers'[g].hide \cap Base = {}
    BY <1>1 DEF ExposureInv, ShownInv, Doubted
  <2>4. \A maybe \in {cache', storage', recorded', inherits'} :
          TheSet(maybe) \subseteq doubted' /\ TheSet(maybe) \cap Base \subseteq UNION ParentHides
    BY <2>1, <2>2
  <2>5. QED
    BY <2>3, <2>4 DEF ShownInv, Doubted, TheSet
<1>4. BegunInv'
  BY <1>1 DEF ExposureInv, BegunInv
<1>5. FirstInv'
  BY <1>1, FiberNames DEF ExposureInv, FirstInv
<1>6. AloneInv'
  BY DEF AloneInv
<1>7. BackInv'
  <2> SUFFICES ASSUME ~excused'
               PROVE  LET prompt == fibers'["prompt"]
                          call == fibers'["call"]
                      IN  /\ TheSet(cache') \cap back = {}
                          /\ prompt.stage # "store" => TheSet(storage) \cap back = {}
                          /\ prompt.stage = "store" => cache' = Known(prompt.set)
                          /\ prompt.stage \in {"hide", "store"} => prompt.set \cap back = {}
                          /\ call.stage \in {"say", "list", "remember"} => call.set \cap back = {}
                          /\ call.stage = "remember" => storage = Known(call.set \ call.reveal)
    BY DEF BackInv, TheSet, Known
  <2>1. TheSet(cache') \cap back = {}
    BY CurrentIs, KnownIs DEF ExposureInv, BackInv
  <2>2. CASE f = "prompt"
    BY <2>1, <2>2, <1>1, FiberNames DEF ExposureInv, BackInv
  <2>3. CASE f = "call"
    BY <2>1, <2>3, <1>1, FiberNames DEF ExposureInv, BackInv
  <2>4. QED
    BY <2>2, <2>3, FiberNames
<1>8. SkillInv'
  BY <1>1 DEF ExposureInv, SkillInv, InContext
<1>9. QED
  BY <1>2, <1>3, <1>4, <1>5, <1>6, <1>7, <1>8 DEF ExposureInv

-----------------------------------------------------------------------------

LEMMA ExposureStart == ExposureInit => ExposureInv
<1> SUFFICES ASSUME ExposureInit PROVE ExposureInv
  OBVIOUS
<1> USE DEF ExposureInit
<1>1. /\ Idle \in FiberStates /\ fibers = [f \in Fibers |-> Idle]
      /\ Idle.stage = "none" /\ Idle.set = {} /\ Idle.hide = {} /\ Idle.reveal = {}
      /\ ~Idle.first
  BY DEF Idle, FiberStates, FiberStages, ToolSets
<1>2. NeverExposed \in ToolSets /\ NeverExposed \cap Base = {} /\ ParentHides \subseteq ToolSets
  BY ExposureAssumption DEF ExposureAssumption, ToolSets
<1>3. TheSet(inherits) \in {{}} \cup ParentHides
  BY KnownIs, UnknownIs
<1>4. ExposureTypeOK
  <2>1. doubted \in ToolSets
    BY <1>2, <1>3 DEF ToolSets
  <2>2. QED
    BY <2>1, <1>1 DEF ExposureTypeOK, Maybes, ToolSets
<1>5. ShownInv
  BY <1>1, <1>2, <1>3, UnknownIs DEF ShownInv, Doubted
<1>6. BegunInv
  BY <1>1 DEF BegunInv
<1>7. FirstInv /\ AloneInv
  BY <1>1, FiberNames DEF FirstInv, AloneInv
<1>8. BackInv
  BY <1>1, UnknownIs, FiberNames DEF BackInv
<1>9. SkillInv
  BY <1>1 DEF SkillInv
<1>10. QED
  BY <1>4, <1>5, <1>6, <1>7, <1>8, <1>9 DEF ExposureInv

-----------------------------------------------------------------------------
(* Steps that read.                                                          *)

\* What is known of a fiber before it goes on.
LEMMA FiberIs ==
    ASSUME ExposureInv, NEW f \in Fibers
    PROVE  /\ fibers[f] \in FiberStates
           /\ Doubted(fibers[f].set)
           /\ fibers[f].hide \subseteq doubted /\ fibers[f].hide \cap Base = {}
           /\ fibers[f].stage # "none" => storage # Unknown
           /\ ~excused /\ fibers[f].stage # "none" => fibers[f].present = InContext
           /\ ~excused /\ fibers[f].stage # "none" =>
                \A g \in Fibers : g # f => fibers[g].stage = "none"
<1>1. fibers[f] \in FiberStates
  BY DEF ExposureInv, ExposureTypeOK
<1>2. ~excused /\ fibers[f].stage # "none" =>
                \A g \in Fibers : g # f => fibers[g].stage = "none"
  BY FiberNames DEF ExposureInv, AloneInv
<1>3. QED
  BY <1>1, <1>2 DEF ExposureInv, ShownInv, BegunInv, SkillInv

LEMMA TypesKept ==
    ASSUME ExposureInv
    PROVE  /\ agent \in [skills : SUBSET Skills, attached : SUBSET Skills]
           /\ used \in [prompts : Nat, calls : Nat, compactions : Nat, restarts : Nat]
           /\ doubted \in ToolSets /\ back \in ToolSets /\ excused \in BOOLEAN
           /\ InContext \subseteq Skills
  BY DEF ExposureInv, ExposureTypeOK, InContext

LEMMA OfferKeeps == ASSUME ExposureInv, Offer PROVE ExposureInv'
<1>1. PICK tools : tools = IF fibers["prompt"].first THEN Exposed
                           ELSE Current \cap Exposed
  OBVIOUS
<1> DEFINE new == [fibers["prompt"] EXCEPT !.stage = "sent", !.tools = tools]
<1>2. /\ fibers["prompt"].stage = "read" /\ Put("prompt", new)
      /\ cache' = cache \/ cache' = Known(Current)
      /\ UNCHANGED <<storage, recorded, in_context, begun, inherits, agent,
                     used, doubted, back, excused>>
  BY <1>1 DEF Offer
<1>3. tools \in ToolSets
  BY <1>1 DEF ToolSets
<1>4. "prompt" \in Fibers
  BY DEF Fibers
<1>5. /\ new \in FiberStates /\ new.stage = "sent"
      /\ new.set = fibers["prompt"].set /\ new.hide = fibers["prompt"].hide
      /\ new.first = fibers["prompt"].first /\ new.reveal = fibers["prompt"].reveal
      /\ new.present = fibers["prompt"].present
  <2>1. fibers["prompt"] \in FiberStates
    BY FiberIs, FiberNames
  <2>2. QED
    BY <1>3, <1>4, <2>1 DEF FiberStates, FiberStages
<1> HIDE DEF new
<1>6. /\ new.hide # {} => new.first
      /\ new.first => new.reveal = {}
      /\ ~excused /\ new.first => back = {}
  BY <1>2, <1>5 DEF ExposureInv, FirstInv
<1>7. ~excused => \E g \in Fibers : fibers'[g].stage = "none"
  BY <1>2, <1>4, <1>5, FiberIs, PutIs, FiberNames
<1>8. QED
  BY <1>2, <1>4, <1>5, <1>6, <1>7, FiberIs, TypesKept, ReadsKeeps DEF Doubted

LEMMA CallKeeps ==
    ASSUME ExposureInv, NEW kind \in {"tool", "ask"},
           NEW candidates \in SUBSET Exposed, Call(kind, candidates)
    PROVE  ExposureInv'
<1> DEFINE new == [Idle EXCEPT !.stage = "sent", !.kind = kind,
                               !.tools = candidates, !.present = InContext]
<1>1. /\ fibers["call"].stage = "none" /\ begun /\ Put("call", new)
      /\ cache' = Known(Current)
      /\ excused' = (excused \/ Overlaps)
      /\ used' = [used EXCEPT !["calls"] = @ + 1]
      /\ UNCHANGED <<storage, recorded, in_context, begun, inherits, agent,
                     doubted, back>>
  BY DEF Call, Use
<1>2. "call" \in Fibers
  BY DEF Fibers
<1>3. /\ new \in FiberStates /\ new.stage = "sent" /\ new.set = {}
      /\ new.hide = {} /\ ~new.first /\ new.present = InContext
  BY TypesKept DEF Idle, FiberStates, FiberStages, ToolSets
<1> HIDE DEF new
<1>4. storage # Unknown
  BY <1>1 DEF ExposureInv, BegunInv
<1>5. /\ excused' \in BOOLEAN /\ excused => excused'
      /\ ~excused' => \E g \in Fibers : fibers'[g].stage = "none"
  <2>1. Overlaps \in BOOLEAN
    BY DEF Overlaps
  <2>2. QED
    BY <1>1, <2>1, TypesKept DEF Overlaps
<1>6. used' \in [prompts : Nat, calls : Nat, compactions : Nat, restarts : Nat]
  BY <1>1, TypesKept
<1>7. ~excused' => fibers["prompt"].stage = "none"
  <2>1. fibers'["call"] = new /\ fibers'["prompt"] = fibers["prompt"]
    BY <1>1, <1>2, <1>3, PutIs DEF Fibers
  <2>2. QED
    BY <1>3, <1>5, <2>1, FiberNames
<1>8. QED
  BY <1>1, <1>2, <1>3, <1>4, <1>5, <1>6, <1>7, TypesKept, ReadsKeeps

LEMMA BeginsKeeps ==
    ASSUME ExposureInv, NEW f \in Fibers, Begins(f)
    PROVE  ExposureInv'
<1> DEFINE new == [fibers[f] EXCEPT !.stage = "judging"]
<1>1. /\ fibers[f].stage = "sent" /\ Put(f, new)
      /\ UNCHANGED <<hostVars, used, doubted, back, excused>>
  BY DEF Begins
<1>2. agent' \in [skills : SUBSET Skills, attached : SUBSET Skills]
  BY TypesKept, FiberIs DEF Begins, FiberStates
<1>3. /\ new \in FiberStates /\ new.stage = "judging"
      /\ new.set = fibers[f].set /\ new.hide = fibers[f].hide
      /\ new.first = fibers[f].first /\ new.reveal = fibers[f].reveal
      /\ new.present = fibers[f].present
  <2>1. fibers[f] \in FiberStates
    BY FiberIs, FiberNames
  <2>2. QED
    BY <2>1 DEF FiberStates, FiberStages
<1> HIDE DEF new
<1>4. f = "prompt" => /\ new.hide # {} => new.first
                      /\ new.first => new.reveal = {}
                      /\ ~excused /\ new.first => back = {}
  BY <1>1, <1>3 DEF ExposureInv, FirstInv
<1>5. /\ ~excused => \E g \in Fibers : fibers'[g].stage = "none"
      /\ ~excused /\ fibers["prompt"].stage = "store" => f # "prompt"
  BY <1>1, <1>3, FiberIs, PutIs, FiberNames
<1>6. QED
  BY <1>1, <1>2, <1>3, <1>4, <1>5, FiberIs, TypesKept, ReadsKeeps DEF Doubted, hostVars

\* What the engine says to hide it judged, or is never exposed; what it brings
\* back is of what it was asked.
LEMMA ActsSay ==
    ASSUME ExposureInv, NEW f \in Fibers, NEW yes \in BOOLEAN, NEW groups
    PROVE  /\ Hides(f, yes, groups) \in ToolSets
           /\ Hides(f, yes, groups) \cap Base = {}
           /\ Reveals(f, yes, groups) \in ToolSets
           /\ Hides(f, yes, groups) # {} => fibers[f].first
           /\ fibers[f].first => Reveals(f, yes, groups) = {}
<1>1. NeverExposed \subseteq Exposed /\ NeverExposed \cap Base = {}
  BY ExposureAssumption DEF ExposureAssumption
<1>2. fibers[f].tools \subseteq Exposed
  BY FiberIs DEF FiberStates, ToolSets
<1>3. QED
  BY <1>1, <1>2 DEF Hides, Reveals, InGroups, Judgeable, ToolSets

LEMMA ActsKeeps ==
    ASSUME ExposureInv, NEW f \in Fibers, NEW yes \in BOOLEAN,
           NEW groups \in SUBSET Groups, NEW picked \in SUBSET Skills,
           Acts(f, yes, groups, picked)
    PROVE  ExposureInv'
<1>1. PICK hide : hide = Hides(f, yes, groups)
  OBVIOUS
<1>2. PICK reveal : reveal = Reveals(f, yes, groups)
  OBVIOUS
<1> DEFINE new == [fibers[f] EXCEPT !.stage = "replied", !.tools = {},
                      !.hide = hide, !.reveal = reveal, !.skills = picked]
<1>3. /\ fibers[f].stage = "judging" /\ Put(f, new)
      /\ agent' = [agent EXCEPT !.attached = @ \cup picked]
      /\ doubted' = doubted \cup hide
      /\ UNCHANGED <<hostVars, used, back, excused>>
  BY <1>1, <1>2 DEF Acts
<1>4. /\ hide \in ToolSets /\ hide \cap Base = {} /\ reveal \in ToolSets
      /\ hide # {} => fibers[f].first
      /\ fibers[f].first => reveal = {}
  BY <1>1, <1>2, ActsSay
<1>5. agent' \in [skills : SUBSET Skills, attached : SUBSET Skills]
  BY <1>3, TypesKept
<1>6. {} \in ToolSets
  BY DEF ToolSets
<1>7. /\ new \in FiberStates /\ new.stage = "replied"
      /\ new.set = fibers[f].set /\ new.hide = hide
      /\ new.first = fibers[f].first /\ new.reveal = reveal
      /\ new.present = fibers[f].present
  <2>1. fibers[f] \in FiberStates
    BY FiberIs, FiberNames
  <2>2. QED
    BY <1>4, <1>6, <2>1 DEF FiberStates, FiberStages
<1> HIDE DEF new
<1>8. f = "prompt" /\ ~excused /\ new.first => back = {}
  BY <1>3, <1>7 DEF ExposureInv, FirstInv
<1>9. /\ ~excused => \E g \in Fibers : fibers'[g].stage = "none"
      /\ ~excused /\ fibers["prompt"].stage = "store" => f # "prompt"
  BY <1>3, <1>7, FiberIs, PutIs, FiberNames
<1>10. doubted' \in ToolSets /\ doubted \subseteq doubted'
  BY <1>3, <1>4, TypesKept DEF ToolSets
<1>11. /\ new.set \subseteq doubted' /\ new.set \cap Base \subseteq UNION ParentHides
       /\ new.hide \subseteq doubted' /\ new.hide \cap Base = {}
  BY <1>3, <1>4, <1>7, FiberIs DEF Doubted
<1>12. QED
  BY <1>3, <1>4, <1>5, <1>7, <1>8, <1>9, <1>10, <1>11, FiberIs, TypesKept,
     ReadsKeeps DEF hostVars

LEMMA GiveUpWaitingKeeps ==
    ASSUME ExposureInv, NEW f \in Fibers, GiveUpWaiting(f)
    PROVE  ExposureInv'
<1> DEFINE new == IF f = "prompt"
                  THEN [fibers[f] EXCEPT !.stage = "attach", !.skills = {}]
                  ELSE Idle
<1>1. /\ fibers[f].stage \in {"sent", "judging"} /\ Put(f, new)
      /\ UNCHANGED <<hostVars, used, doubted, back, excused>>
  BY DEF GiveUpWaiting
<1>2. agent' \in [skills : SUBSET Skills, attached : SUBSET Skills]
  BY TypesKept DEF GiveUpWaiting
<1>3. CASE f = "prompt"
  <2>1. /\ new \in FiberStates /\ new.stage = "attach"
        /\ new.set = fibers[f].set /\ new.hide = fibers[f].hide
        /\ new.first = fibers[f].first /\ new.reveal = fibers[f].reveal
        /\ new.present = fibers[f].present
    <3>1. fibers[f] \in FiberStates
      BY FiberIs, FiberNames
    <3>2. QED
      BY <1>3, <3>1 DEF FiberStates, FiberStages
  <2> HIDE DEF new
  <2>2. /\ new.hide # {} => new.first
        /\ new.first => new.reveal = {}
        /\ ~excused /\ new.first => back = {}
    BY <1>1, <1>3, <2>1 DEF ExposureInv, FirstInv
  <2>3. /\ ~excused => \E g \in Fibers : fibers'[g].stage = "none"
        /\ ~excused => fibers["prompt"].stage # "store"
    BY <1>1, <1>3, <2>1, FiberIs, PutIs, FiberNames
  <2>4. QED
    BY <1>1, <1>2, <1>3, <2>1, <2>2, <2>3, FiberIs, TypesKept, ReadsKeeps DEF Doubted, hostVars
<1>4. CASE f = "call"
  <2>1. /\ new \in FiberStates /\ new.stage = "none" /\ new.set = {}
        /\ new.hide = {} /\ ~new.first
    BY <1>4 DEF Idle, FiberStates, FiberStages, ToolSets
  <2> HIDE DEF new
  <2>2. \E g \in Fibers : fibers'[g].stage = "none"
    BY <1>1, <2>1, PutIs
  <2>3. ~excused => fibers["prompt"].stage # "store"
    BY <1>1, <1>4, FiberIs, FiberNames
  <2>4. QED
    BY <1>1, <1>2, <1>4, <2>1, <2>2, <2>3, TypesKept, ReadsKeeps DEF hostVars
<1>5. QED
  BY <1>3, <1>4, FiberNames

LEMMA RepliedKeeps == ASSUME ExposureInv, Replied PROVE ExposureInv'
<1>1. PICK stage \in {"attach", "hide"} :
        stage = IF fibers["prompt"].hide \cup fibers["prompt"].reveal = {} THEN "attach"
                ELSE "hide"
  OBVIOUS
<1> DEFINE new == [fibers["prompt"] EXCEPT !.set = TheSet(cache), !.stage = stage]
<1>2. /\ fibers["prompt"].stage = "replied" /\ Put("prompt", new)
      /\ UNCHANGED <<hostVars, agent, used, doubted, back, excused>>
  BY <1>1 DEF Replied
<1>3. "prompt" \in Fibers
  BY DEF Fibers
<1>4. TheSet(cache) \in ToolSets /\ Doubted(TheSet(cache))
  BY KnownIs, UnknownIs DEF ExposureInv, ExposureTypeOK, ShownInv, Maybes, ToolSets
<1>5. /\ new \in FiberStates /\ new.stage = stage
      /\ new.set = TheSet(cache) /\ new.hide = fibers["prompt"].hide
      /\ new.first = fibers["prompt"].first /\ new.reveal = fibers["prompt"].reveal
      /\ new.present = fibers["prompt"].present
  <2>1. fibers["prompt"] \in FiberStates
    BY FiberIs, FiberNames
  <2>2. QED
    BY <1>3, <1>4, <2>1 DEF FiberStates, FiberStages
<1> HIDE DEF new
<1>6. /\ new.hide # {} => new.first
      /\ new.first => new.reveal = {}
      /\ ~excused /\ new.first => back = {}
      /\ ~excused => new.set \cap back = {}
  BY <1>2, <1>5 DEF ExposureInv, FirstInv, BackInv
<1>7. ~excused => \E g \in Fibers : fibers'[g].stage = "none"
  BY <1>2, <1>3, <1>5, FiberIs, PutIs, FiberNames
<1>8. QED
  BY <1>2, <1>3, <1>4, <1>5, <1>6, <1>7, FiberIs, TypesKept, ReadsKeeps DEF Doubted, hostVars

LEMMA ReadHiddenKeeps == ASSUME ExposureInv, ReadHidden PROVE ExposureInv'
<1>1. PICK stage \in {"say", "deliver"} :
        stage = IF fibers["call"].reveal # {} /\ fibers["call"].reveal \subseteq Current
                THEN "say" ELSE "deliver"
  OBVIOUS
<1> DEFINE new == [fibers["call"] EXCEPT !.set = Current, !.stage = stage]
<1>2. /\ fibers["call"].stage = "replied" /\ Put("call", new)
      /\ cache' = Known(Current)
      /\ UNCHANGED <<storage, recorded, in_context, begun, inherits, agent,
                     used, doubted, back, excused>>
  BY <1>1 DEF ReadHidden
<1>3. "call" \in Fibers
  BY DEF Fibers
<1>4. /\ new \in FiberStates /\ new.stage = stage
      /\ new.set = Current /\ new.hide = fibers["call"].hide
      /\ new.present = fibers["call"].present
  <2>1. fibers["call"] \in FiberStates
    BY FiberIs, FiberNames
  <2>2. QED
    BY <1>3, CurrentIs, <2>1 DEF FiberStates, FiberStages
<1> HIDE DEF new
<1>5. ~excused => new.set \cap back = {}
  BY <1>4, CurrentIs
<1>6. /\ ~excused => \E g \in Fibers : fibers'[g].stage = "none"
      /\ ~excused => fibers["prompt"].stage # "store"
  BY <1>2, <1>3, <1>4, FiberIs, PutIs, FiberNames
<1>7. QED
  BY <1>2, <1>3, <1>4, <1>5, <1>6, CurrentIs, FiberIs, TypesKept, ReadsKeeps DEF Doubted

LEMMA DeliverKeeps == ASSUME ExposureInv, Deliver PROVE ExposureInv'
<1>1. PICK present : present = IF fibers["call"].kind = "ask"
                               THEN fibers["call"].present ELSE InContext
  OBVIOUS
<1> DEFINE new == [fibers["call"] EXCEPT !.stage = "attach", !.present = present]
<1>2. /\ fibers["call"].stage = "deliver" /\ Put("call", new)
      /\ UNCHANGED <<hostVars, agent, used, doubted, back, excused>>
  BY <1>1 DEF Deliver
<1>3. "call" \in Fibers
  BY DEF Fibers
<1>4. /\ present \subseteq Skills
      /\ ~excused => present = InContext
  BY <1>1, <1>2, <1>3, FiberIs, TypesKept DEF FiberStates
<1>5. /\ new \in FiberStates /\ new.stage = "attach"
      /\ new.set = fibers["call"].set /\ new.hide = fibers["call"].hide
      /\ new.present = present
  <2>1. fibers["call"] \in FiberStates
    BY FiberIs, FiberNames
  <2>2. QED
    BY <1>3, <1>4, <2>1 DEF FiberStates, FiberStages
<1> HIDE DEF new
<1>6. /\ ~excused => \E g \in Fibers : fibers'[g].stage = "none"
      /\ ~excused => fibers["prompt"].stage # "store"
  BY <1>2, <1>3, <1>5, FiberIs, PutIs, FiberNames
<1>7. QED
  BY <1>2, <1>3, <1>4, <1>5, <1>6, FiberIs, TypesKept, ReadsKeeps DEF Doubted, hostVars

-----------------------------------------------------------------------------
(* Steps that write.                                                         *)

\* Where hidden tools are kept, only what may be hidden is put.
LEMMA ShownKept ==
    ASSUME ExposureInv, doubted' = doubted, NEW tools \in ToolSets, Doubted(tools),
           cache' \in {cache, Unknown, Known(tools)},
           storage' \in {storage, Known(tools)},
           recorded' \in {recorded, Unknown, Known(tools)},
           inherits' \in {inherits, Unknown},
           fibers' \in [Fibers -> FiberStates],
           \A f \in Fibers :
             /\ fibers'[f].set = fibers[f].set \/ fibers'[f].set = {}
                \/ fibers'[f].set = tools
             /\ fibers'[f].hide = fibers[f].hide \/ fibers'[f].hide = {}
    PROVE  /\ ShownInv'
           /\ cache' \in Maybes /\ storage' \in Maybes /\ recorded' \in Maybes
           /\ inherits' \in {Unknown} \cup {Known(h) : h \in ParentHides}
<1>1. \A maybe \in {cache', storage', recorded', inherits'} :
        \/ maybe \in {cache, storage, recorded, inherits}
        \/ maybe = Unknown \/ maybe = Known(tools)
  OBVIOUS
<1>2. \A maybe \in {cache', storage', recorded', inherits'} : Doubted(TheSet(maybe))
  BY <1>1, KnownIs, UnknownIs DEF ExposureInv, ShownInv, Doubted
<1>3. \A f \in Fibers :
        /\ Doubted(fibers'[f].set)
        /\ fibers'[f].hide \subseteq doubted /\ fibers'[f].hide \cap Base = {}
  BY DEF ExposureInv, ShownInv, Doubted
<1>4. ShownInv'
  BY <1>2, <1>3 DEF ShownInv, Doubted, TheSet
<1>5. QED
  BY <1>4 DEF ExposureInv, ExposureTypeOK, Maybes

LEMMA EmptyIs == {} \in ToolSets /\ Doubted({})
  BY DEF ToolSets, Doubted

\* A context starts with nothing brought back; a subagent's first has not
\* brought back anything either.
LEMMA AdmitKeeps == ASSUME ExposureInv, Admit PROVE ExposureInv'
<1>1. PICK first \in BOOLEAN : first = (~begun /\ inherits = Unknown)
  BY DEF ExposureInv, ExposureTypeOK
<1> DEFINE new == [Idle EXCEPT !.stage = "read", !.kind = "prompt", !.first = first,
                               !.present = InContext, !.skills = Skills \ InContext]
           tools == TheSet(inherits)
<1>2. /\ fibers["prompt"].stage = "none" /\ Put("prompt", new)
      /\ used' = [used EXCEPT !["prompts"] = @ + 1]
      /\ back' = IF first THEN {} ELSE back
      /\ excused' = (excused \/ Overlaps)
      /\ UNCHANGED <<recorded, in_context, begun, agent, doubted>>
  BY <1>1, Zenon DEF Admit, Use
<1>3. /\ ~begun => /\ cache' = Known(tools) /\ storage' = Known(tools)
                   /\ inherits' = Unknown
      /\ begun => UNCHANGED <<cache, storage, inherits>>
  BY DEF Admit
<1>4. "prompt" \in Fibers
  BY DEF Fibers
<1>5. /\ new \in FiberStates /\ new.stage = "read" /\ new.set = {}
      /\ new.hide = {} /\ new.reveal = {} /\ new.first = first
      /\ new.present = InContext
  BY TypesKept DEF Idle, FiberStates, FiberStages, ToolSets
<1>6. tools \in ToolSets /\ Doubted(tools) /\ (inherits = Unknown => tools = {})
  BY KnownIs, UnknownIs, ExposureAssumption
  DEF ExposureInv, ExposureTypeOK, ShownInv, ToolSets, ExposureAssumption
<1> HIDE DEF new, tools
<1>7. /\ fibers' \in [Fibers -> FiberStates] /\ fibers'["prompt"] = new
      /\ fibers'["call"] = fibers["call"]
  BY <1>2, <1>4, <1>5, PutIs DEF Fibers
<1>8. /\ excused' \in BOOLEAN /\ excused => excused'
      /\ ~excused' => fibers["call"].stage = "none"
  <2>1. Overlaps \in BOOLEAN
    BY DEF Overlaps
  <2>2. QED
    BY <1>2, <1>5, <1>7, <2>1, TypesKept, FiberNames DEF Overlaps
<1>9. inherits # Unknown => back = {}
  BY DEF ExposureInv, BegunInv
<1>10. ~begun => back' = {}
  BY <1>1, <1>2, <1>9
<1>11. begun => storage # Unknown
  BY DEF ExposureInv, BegunInv
<1>12. /\ ShownInv'
       /\ cache' \in Maybes /\ storage' \in Maybes /\ recorded' \in Maybes
       /\ inherits' \in {Unknown} \cup {Known(h) : h \in ParentHides}
  BY <1>2, <1>3, <1>5, <1>6, <1>7, ShownKept, FiberNames
<1>13. ExposureTypeOK'
  BY <1>2, <1>7, <1>8, <1>12, TypesKept, EmptyIs DEF ExposureInv, ExposureTypeOK
<1>14. BegunInv'
  BY <1>3, <1>11, KnownIs DEF BegunInv, ExposureInv
<1>15. FirstInv'
  BY <1>2, <1>5, <1>7 DEF FirstInv
<1>16. AloneInv'
  BY <1>4, <1>7, <1>8 DEF AloneInv, Fibers
<1>17. BackInv'
  <2> SUFFICES ASSUME ~excused'
               PROVE  /\ TheSet(cache') \cap back' = {}
                      /\ TheSet(storage') \cap back' = {}
    BY <1>5, <1>7, <1>8 DEF BackInv, TheSet, Known
  <2>1. CASE ~begun
    BY <2>1, <1>10
  <2>2. CASE begun
    BY <2>2, <1>1, <1>2, <1>3, <1>8 DEF ExposureInv, BackInv
  <2>3. QED
    BY <2>1, <2>2
<1>18. SkillInv'
  BY <1>2, <1>5, <1>7, <1>8, FiberNames DEF ExposureInv, SkillInv, InContext
<1>19. QED
  BY <1>12, <1>13, <1>14, <1>15, <1>16, <1>17, <1>18 DEF ExposureInv

\* What a prompt hides and brings back is in the cache at once.
LEMMA HideToolsKeeps == ASSUME ExposureInv, HideTools PROVE ExposureInv'
<1> DEFINE fiber == fibers["prompt"]
           hidden == (fiber.set \cup fiber.hide) \ fiber.reveal
           new == [fiber EXCEPT !.stage = "store", !.set = hidden]
<1>1. /\ fiber.stage = "hide" /\ Put("prompt", new)
      /\ cache' = Known(hidden) /\ back' = back \cup fiber.reveal
      /\ UNCHANGED <<storage, recorded, in_context, begun, inherits, agent,
                     used, doubted, excused>>
  BY DEF HideTools
<1>2. "prompt" \in Fibers /\ fiber \in FiberStates
  BY FiberIs DEF Fibers
<1>3. hidden \in ToolSets /\ Doubted(hidden)
  BY <1>2, FiberIs DEF FiberStates, ToolSets, Doubted
<1>4. ~excused => hidden \cap back' = {}
  <2>1. fiber.hide # {} => fiber.first
    BY DEF ExposureInv, FirstInv
  <2>2. fiber.first => fiber.reveal = {} /\ (~excused => back = {})
    BY <1>1 DEF ExposureInv, FirstInv
  <2>3. ~excused => fiber.set \cap back = {}
    BY <1>1 DEF ExposureInv, BackInv
  <2>4. QED
    BY <1>1, <2>1, <2>2, <2>3
<1> HIDE DEF hidden
<1>5. /\ new \in FiberStates /\ new.stage = "store" /\ new.set = hidden
      /\ new.hide = fiber.hide /\ new.reveal = fiber.reveal
      /\ new.first = fiber.first /\ new.present = fiber.present
  BY <1>2, <1>3 DEF FiberStates, FiberStages
<1> HIDE DEF new
<1>6. /\ fibers' \in [Fibers -> FiberStates] /\ fibers'["prompt"] = new
      /\ fibers'["call"] = fibers["call"]
  BY <1>1, <1>2, <1>5, PutIs DEF Fibers
<1>7. ~excused => fibers["call"].stage = "none"
  BY <1>1, <1>2, FiberIs DEF Fibers
<1>8. /\ ShownInv'
      /\ cache' \in Maybes /\ storage' \in Maybes /\ recorded' \in Maybes
      /\ inherits' \in {Unknown} \cup {Known(h) : h \in ParentHides}
  BY <1>1, <1>3, <1>5, <1>6, ShownKept, FiberNames
<1>9. back' \in ToolSets
  BY <1>1, <1>2, TypesKept DEF ToolSets, FiberStates
<1>10. ExposureTypeOK'
  BY <1>1, <1>6, <1>8, <1>9, TypesKept DEF ExposureInv, ExposureTypeOK
<1>11. BegunInv'
  BY <1>1, <1>2, FiberIs DEF BegunInv, ExposureInv
<1>12. FirstInv'
  BY <1>1, <1>5, <1>6 DEF ExposureInv, FirstInv
<1>13. AloneInv'
  BY <1>1, <1>6, <1>7, FiberNames DEF AloneInv
<1>14. BackInv'
  BY <1>1, <1>4, <1>5, <1>6, <1>7, KnownIs DEF BackInv, TheSet, Known
<1>15. SkillInv'
  BY <1>1, <1>5, <1>6, <1>7, FiberNames DEF ExposureInv, SkillInv, InContext
<1>16. QED
  BY <1>8, <1>10, <1>11, <1>12, <1>13, <1>14, <1>15 DEF ExposureInv

LEMMA StoreHiddenKeeps == ASSUME ExposureInv, StoreHidden PROVE ExposureInv'
<1> DEFINE fiber == fibers["prompt"]
           new == [fiber EXCEPT !.stage = "attach"]
<1>1. /\ fiber.stage = "store" /\ Put("prompt", new)
      /\ storage' = Known(fiber.set)
      /\ UNCHANGED <<cache, recorded, in_context, begun, inherits, agent,
                     used, doubted, back, excused>>
  BY DEF StoreHidden
<1>2. "prompt" \in Fibers /\ fiber \in FiberStates
  BY FiberIs DEF Fibers
<1>3. fiber.set \in ToolSets /\ Doubted(fiber.set)
  BY <1>2, FiberIs DEF FiberStates
<1>4. /\ new \in FiberStates /\ new.stage = "attach" /\ new.set = fiber.set
      /\ new.hide = fiber.hide /\ new.reveal = fiber.reveal
      /\ new.first = fiber.first /\ new.present = fiber.present
  BY <1>2 DEF FiberStates, FiberStages
<1> HIDE DEF new
<1>5. /\ fibers' \in [Fibers -> FiberStates] /\ fibers'["prompt"] = new
      /\ fibers'["call"] = fibers["call"]
  BY <1>1, <1>2, <1>4, PutIs DEF Fibers
<1>6. ~excused => fibers["call"].stage = "none"
  BY <1>1, <1>2, FiberIs DEF Fibers
<1>7. /\ ShownInv'
      /\ cache' \in Maybes /\ storage' \in Maybes /\ recorded' \in Maybes
      /\ inherits' \in {Unknown} \cup {Known(h) : h \in ParentHides}
  BY <1>1, <1>3, <1>4, <1>5, ShownKept, FiberNames
<1>8. ExposureTypeOK'
  BY <1>1, <1>5, <1>7 DEF ExposureInv, ExposureTypeOK
<1>9. BegunInv'
  BY <1>1, <1>2, FiberIs, KnownIs DEF BegunInv, ExposureInv
<1>10. FirstInv'
  BY <1>1, <1>4, <1>5 DEF ExposureInv, FirstInv
<1>11. AloneInv'
  BY <1>1, <1>5, <1>6, FiberNames DEF AloneInv
<1>12. BackInv'
  BY <1>1, <1>4, <1>5, <1>6, KnownIs DEF ExposureInv, BackInv, TheSet, Known
<1>13. SkillInv'
  BY <1>1, <1>4, <1>5, <1>6, FiberNames DEF ExposureInv, SkillInv, InContext
<1>14. QED
  BY <1>7, <1>8, <1>9, <1>10, <1>11, <1>12, <1>13 DEF ExposureInv

\* A skill that arrives was not there.
LEMMA ArriveOnce ==
    ASSUME ExposureInv, NEW skills \in SUBSET Skills, NEW present,
           Arrive(skills \ present)
    PROVE  /\ in_context' \in [Skills -> Nat]
           /\ ~excused /\ present = InContext =>
                \A s \in Skills : in_context'[s] <= 1
<1>1. in_context \in [Skills -> Nat]
  BY DEF ExposureInv, ExposureTypeOK
<1>2. \A s \in Skills : in_context'[s] = in_context[s] + (IF s \in skills \ present THEN 1 ELSE 0)
  BY DEF Arrive
<1>3. in_context' \in [Skills -> Nat]
  BY <1>1, <1>2 DEF Arrive
<1>4. ASSUME ~excused, present = InContext, NEW s \in Skills
      PROVE  in_context'[s] <= 1
  <2>1. in_context[s] <= 1 /\ in_context[s] \in Nat
    BY <1>1, <1>4 DEF ExposureInv, SkillInv
  <2>2. CASE s \in skills \ present
    <3>1. in_context[s] = 0
      BY <1>4, <2>1, <2>2 DEF InContext
    <3>2. QED
      BY <1>2, <2>2, <3>1
  <2>3. CASE s \notin skills \ present
    BY <1>2, <2>1, <2>3
  <2>4. QED
    BY <2>2, <2>3
<1>5. QED
  BY <1>3, <1>4

LEMMA IdleIs ==
    /\ Idle \in FiberStates /\ Idle.stage = "none" /\ Idle.set = {}
    /\ Idle.hide = {} /\ Idle.reveal = {} /\ ~Idle.first
  BY DEF Idle, FiberStates, FiberStages, ToolSets

LEMMA AdmitPromptKeeps == ASSUME ExposureInv, AdmitPrompt PROVE ExposureInv'
<1> DEFINE fiber == fibers["prompt"]
<1>1. /\ fiber.stage = "attach" /\ Put("prompt", Idle)
      /\ Arrive(fiber.skills \ fiber.present)
      /\ recorded' \in {recorded, Known(fiber.set)} /\ begun' = TRUE
      /\ UNCHANGED <<cache, storage, inherits, agent, used, doubted, back, excused>>
  BY DEF AdmitPrompt
<1>2. "prompt" \in Fibers /\ fiber \in FiberStates /\ storage # Unknown
  BY <1>1, FiberIs DEF Fibers
<1>3. fiber.set \in ToolSets /\ Doubted(fiber.set) /\ fiber.skills \in SUBSET Skills
  BY <1>2, FiberIs DEF FiberStates
<1>4. /\ fibers' \in [Fibers -> FiberStates] /\ fibers'["prompt"] = Idle
      /\ fibers'["call"] = fibers["call"]
  BY <1>1, <1>2, IdleIs, PutIs DEF Fibers
<1>5. ~excused => fibers["call"].stage = "none" /\ fiber.present = InContext
  BY <1>1, <1>2, FiberIs DEF Fibers
<1>6. /\ ShownInv'
      /\ cache' \in Maybes /\ storage' \in Maybes /\ recorded' \in Maybes
      /\ inherits' \in {Unknown} \cup {Known(h) : h \in ParentHides}
  BY <1>1, <1>3, <1>4, IdleIs, ShownKept, FiberNames
<1>7. in_context' \in [Skills -> Nat]
      /\ (~excused => \A s \in Skills : in_context'[s] <= 1)
  BY <1>1, <1>3, <1>5, ArriveOnce
<1>8. ExposureTypeOK'
  BY <1>1, <1>4, <1>6, <1>7 DEF ExposureInv, ExposureTypeOK
<1>9. BegunInv'
  BY <1>1, <1>2 DEF BegunInv, ExposureInv
<1>10. FirstInv' /\ AloneInv'
  BY <1>2, <1>4, IdleIs DEF FirstInv, AloneInv
<1>11. BackInv'
  BY <1>1, <1>4, <1>5, IdleIs DEF ExposureInv, BackInv, TheSet, Known
<1>12. SkillInv'
  BY <1>1, <1>4, <1>5, <1>7, IdleIs, FiberNames DEF SkillInv
<1>13. QED
  BY <1>6, <1>8, <1>9, <1>10, <1>11, <1>12 DEF ExposureInv

LEMMA CallEndsKeeps == ASSUME ExposureInv, CallEnds PROVE ExposureInv'
<1> DEFINE fiber == fibers["call"]
<1>1. /\ fiber.stage = "attach" /\ Put("call", Idle)
      /\ Arrive(fiber.skills \ fiber.present)
      /\ UNCHANGED <<cache, storage, recorded, begun, inherits, agent, used,
                     doubted, back, excused>>
  BY DEF CallEnds
<1>2. "call" \in Fibers /\ fiber \in FiberStates
  BY FiberIs DEF Fibers
<1>3. fiber.skills \in SUBSET Skills
  BY <1>2 DEF FiberStates
<1>4. /\ fibers' \in [Fibers -> FiberStates] /\ fibers'["call"] = Idle
      /\ fibers'["prompt"] = fibers["prompt"]
  BY <1>1, <1>2, IdleIs, PutIs DEF Fibers
<1>5. ~excused => fibers["prompt"].stage = "none" /\ fiber.present = InContext
  BY <1>1, <1>2, FiberIs DEF Fibers
<1>6. /\ ShownInv'
      /\ cache' \in Maybes /\ storage' \in Maybes /\ recorded' \in Maybes
      /\ inherits' \in {Unknown} \cup {Known(h) : h \in ParentHides}
  BY <1>1, <1>4, IdleIs, EmptyIs, ShownKept, FiberNames
<1>7. in_context' \in [Skills -> Nat]
      /\ (~excused => \A s \in Skills : in_context'[s] <= 1)
  BY <1>1, <1>3, <1>5, ArriveOnce
<1>8. ExposureTypeOK'
  BY <1>1, <1>4, <1>6, <1>7 DEF ExposureInv, ExposureTypeOK
<1>9. BegunInv'
  BY <1>1, <1>4, IdleIs, FiberNames DEF BegunInv, ExposureInv
<1>10. FirstInv' /\ AloneInv'
  BY <1>1, <1>2, <1>4, IdleIs DEF ExposureInv, FirstInv, AloneInv
<1>11. BackInv'
  BY <1>1, <1>4, <1>5, IdleIs DEF ExposureInv, BackInv, TheSet, Known
<1>12. SkillInv'
  BY <1>1, <1>4, <1>5, <1>7, IdleIs, FiberNames DEF SkillInv
<1>13. QED
  BY <1>6, <1>8, <1>9, <1>10, <1>11, <1>12 DEF ExposureInv

\* The agent's call brings tools back in the session, then in storage, then in
\* the cache: none of them hides what is back yet.
LEMMA CallWrites ==
    ASSUME ExposureInv, NEW new, fibers["call"].stage \in {"say", "list", "remember"},
           NEW stage \in {"list", "remember", "deliver"},
           new = [fibers["call"] EXCEPT !.stage = stage], Put("call", new),
           cache' \in {cache, Known(Remaining)},
           storage' \in {storage, Known(Remaining)},
           recorded' \in {recorded, Known(Remaining)},
           back' \in {back, back \cup fibers["call"].reveal},
           UNCHANGED <<in_context, begun, inherits, agent, used, doubted, excused>>,
           stage = "remember" => storage' = Known(Remaining),
           back' # back => /\ cache' = Known(Remaining) /\ stage = "deliver"
                           /\ ~excused => storage' = Known(Remaining)
    PROVE  ExposureInv'
<1> DEFINE fiber == fibers["call"]
<1>1. "call" \in Fibers /\ fiber \in FiberStates /\ storage # Unknown
  BY FiberIs DEF Fibers
<1>2. Remaining \in ToolSets /\ Doubted(Remaining)
  BY <1>1, FiberIs DEF FiberStates, ToolSets, Doubted, Remaining
<1>3. /\ new \in FiberStates /\ new.stage = stage /\ new.set = fiber.set
      /\ new.hide = fiber.hide /\ new.reveal = fiber.reveal
      /\ new.present = fiber.present
  BY <1>1 DEF FiberStates, FiberStages
<1>4. /\ fibers' \in [Fibers -> FiberStates] /\ fibers'["call"] = new
      /\ fibers'["prompt"] = fibers["prompt"]
  BY <1>1, <1>3, PutIs DEF Fibers
<1>5. ~excused => /\ fibers["prompt"].stage = "none" /\ fiber.present = InContext
                  /\ fiber.set \cap back = {}
  BY <1>1, FiberIs DEF Fibers, ExposureInv, BackInv
<1>6. /\ ShownInv'
      /\ cache' \in Maybes /\ storage' \in Maybes /\ recorded' \in Maybes
      /\ inherits' \in {Unknown} \cup {Known(h) : h \in ParentHides}
  BY <1>2, <1>3, <1>4, ShownKept, FiberNames
<1>7. back' \in ToolSets
  BY <1>1, TypesKept DEF ToolSets, FiberStates
<1>8. ExposureTypeOK'
  BY <1>4, <1>6, <1>7 DEF ExposureInv, ExposureTypeOK
<1>9. BegunInv'
  BY <1>1, KnownIs DEF BegunInv, ExposureInv
<1>10. FirstInv'
  BY <1>4, <1>5 DEF ExposureInv, FirstInv
<1>11. AloneInv'
  BY <1>4, <1>5, FiberNames DEF AloneInv
<1>12. BackInv'
  <2> SUFFICES ASSUME ~excused
               PROVE  /\ TheSet(cache') \cap back' = {}
                      /\ TheSet(storage') \cap back' = {}
                      /\ stage \in {"list", "remember"} => fiber.set \cap back' = {}
                      /\ stage = "remember" => storage' = Known(fiber.set \ fiber.reveal)
    BY <1>3, <1>4, <1>5 DEF BackInv, TheSet, Known
  <2>1. TheSet(cache) \cap back = {} /\ TheSet(storage) \cap back = {}
    BY <1>5 DEF ExposureInv, BackInv
  <2>2. Remaining \cap (back \cup fiber.reveal) = {}
    BY <1>5 DEF Remaining
  <2>3. CASE back' = back
    BY <1>5, <2>1, <2>2, <2>3, KnownIs DEF Remaining
  <2>4. CASE back' # back
    BY <2>2, <2>4, KnownIs
  <2>5. QED
    BY <2>3, <2>4
<1>13. SkillInv'
  BY <1>3, <1>4, <1>5, FiberNames DEF ExposureInv, SkillInv, InContext
<1>14. QED
  BY <1>6, <1>8, <1>9, <1>10, <1>11, <1>12, <1>13 DEF ExposureInv

LEMMA SayKeeps ==
    ASSUME ExposureInv, Say \/ StoreRemaining \/ Remember
    PROVE  ExposureInv'
<1>1. CASE Say
  BY <1>1, CallWrites DEF Say
<1>2. CASE StoreRemaining
  BY <1>2, CallWrites DEF StoreRemaining
<1>3. CASE Remember
  <2>1. ~excused => storage = Known(Remaining)
    BY <1>3 DEF Remember, ExposureInv, BackInv, Remaining
  <2>2. QED
    BY <1>3, <2>1, CallWrites DEF Remember
<1>4. QED
  BY <1>1, <1>2, <1>3

LEMMA CompactKeeps == ASSUME ExposureInv, Compact PROVE ExposureInv'
<1>1. /\ begun' = FALSE /\ recorded' = Unknown
      /\ in_context' = [s \in Skills |-> 0]
      /\ used' = [used EXCEPT !["compactions"] = @ + 1]
      /\ excused' = (excused \/ \E f \in Fibers : fibers[f].stage # "none")
      /\ UNCHANGED <<cache, storage, inherits, fibers, agent, doubted, back>>
  BY DEF Compact, Use
<1>2. /\ excused' \in BOOLEAN /\ excused => excused'
      /\ ~excused' => \A f \in Fibers : fibers[f].stage = "none"
  <2>1. (\E f \in Fibers : fibers[f].stage # "none") \in BOOLEAN
    OBVIOUS
  <2>2. QED
    BY <1>1, <2>1, TypesKept
<1>3. fibers \in [Fibers -> FiberStates]
  BY DEF ExposureInv, ExposureTypeOK
<1>4. /\ ShownInv'
      /\ cache' \in Maybes /\ storage' \in Maybes /\ recorded' \in Maybes
      /\ inherits' \in {Unknown} \cup {Known(h) : h \in ParentHides}
  BY <1>1, <1>3, EmptyIs, ShownKept
<1>5. ExposureTypeOK'
  <2>1. used' \in [prompts : Nat, calls : Nat, compactions : Nat, restarts : Nat]
    BY <1>1, TypesKept
  <2>2. in_context' \in [Skills -> Nat] /\ begun' \in BOOLEAN
    BY <1>1 DEF ExposureInv, ExposureTypeOK
  <2>3. /\ agent' \in [skills : SUBSET Skills, attached : SUBSET Skills]
        /\ doubted' \in ToolSets /\ back' \in ToolSets
    BY <1>1, TypesKept
  <2>4. fibers' \in [Fibers -> FiberStates] /\ excused' \in BOOLEAN
    BY <1>1, <1>2, <1>3
  <2>5. QED
    BY <2>1, <2>2, <2>3, <2>4, <1>4 DEF ExposureTypeOK
<1>6. BegunInv'
  BY <1>1 DEF ExposureInv, BegunInv
<1>7. FirstInv' /\ AloneInv'
  BY <1>1, <1>2 DEF ExposureInv, FirstInv, AloneInv, Fibers
<1>8. BackInv'
  BY <1>1, <1>2 DEF ExposureInv, BackInv
<1>9. SkillInv'
  BY <1>1, <1>2 DEF SkillInv
<1>10. QED
  BY <1>4, <1>5, <1>6, <1>7, <1>8, <1>9 DEF ExposureInv

LEMMA RestartHostKeeps == ASSUME ExposureInv, RestartHost PROVE ExposureInv'
<1>1. /\ cache' = Unknown /\ fibers' = [f \in Fibers |-> Idle]
      /\ used' = [used EXCEPT !["restarts"] = @ + 1]
      /\ excused' = (excused \/ \E f \in Fibers : fibers[f].stage # "none")
      /\ UNCHANGED <<storage, recorded, in_context, begun, inherits, agent,
                     doubted, back>>
  BY DEF RestartHost, Use
<1>2. /\ excused' \in BOOLEAN /\ excused => excused'
      /\ ~excused' => \A f \in Fibers : fibers[f].stage = "none"
  <2>1. (\E f \in Fibers : fibers[f].stage # "none") \in BOOLEAN
    OBVIOUS
  <2>2. QED
    BY <1>1, <2>1, TypesKept
<1>3. /\ fibers' \in [Fibers -> FiberStates]
      /\ \A f \in Fibers : fibers'[f] = Idle
  BY <1>1, IdleIs
<1>4. /\ ShownInv'
      /\ cache' \in Maybes /\ storage' \in Maybes /\ recorded' \in Maybes
      /\ inherits' \in {Unknown} \cup {Known(h) : h \in ParentHides}
  BY <1>1, <1>3, IdleIs, EmptyIs, ShownKept
<1>5. ExposureTypeOK'
  <2>1. used' \in [prompts : Nat, calls : Nat, compactions : Nat, restarts : Nat]
    BY <1>1, TypesKept
  <2>2. in_context' \in [Skills -> Nat] /\ begun' \in BOOLEAN
    BY <1>1 DEF ExposureInv, ExposureTypeOK
  <2>3. /\ agent' \in [skills : SUBSET Skills, attached : SUBSET Skills]
        /\ doubted' \in ToolSets /\ back' \in ToolSets
    BY <1>1, TypesKept
  <2>4. fibers' \in [Fibers -> FiberStates] /\ excused' \in BOOLEAN
    BY <1>1, <1>2, <1>3
  <2>5. QED
    BY <2>1, <2>2, <2>3, <2>4, <1>4 DEF ExposureTypeOK
<1>6. BegunInv'
  BY <1>1, <1>3, IdleIs DEF ExposureInv, BegunInv
<1>7. FirstInv' /\ AloneInv'
  BY <1>3, IdleIs DEF FirstInv, AloneInv, Fibers
<1>8. BackInv'
  BY <1>1, <1>2, <1>3, IdleIs, UnknownIs DEF ExposureInv, BackInv, Fibers, TheSet, Unknown
<1>9. SkillInv'
  BY <1>1, <1>2, <1>3, IdleIs DEF ExposureInv, SkillInv
<1>10. QED
  BY <1>4, <1>5, <1>6, <1>7, <1>8, <1>9 DEF ExposureInv

-----------------------------------------------------------------------------

LEMMA ExposureUnchanged == ExposureInv /\ UNCHANGED exposureVars => ExposureInv'
  BY DEF exposureVars, hostVars, ExposureInv, ExposureTypeOK, ShownInv, Doubted,
         BegunInv, FirstInv, AloneInv, BackInv, SkillInv, InContext, TheSet, Known

LEMMA ExposureStepKeeps == ExposureInv /\ [ExposureNext]_exposureVars => ExposureInv'
<1> SUFFICES ASSUME ExposureInv, [ExposureNext]_exposureVars PROVE ExposureInv'
  OBVIOUS
<1>1. CASE Admit \/ Offer \/ Replied \/ HideTools \/ StoreHidden \/ AdmitPrompt
  BY <1>1, AdmitKeeps, OfferKeeps, RepliedKeeps, HideToolsKeeps,
     StoreHiddenKeeps, AdmitPromptKeeps
<1>2. CASE \/ ReadHidden \/ Say \/ StoreRemaining \/ Remember \/ Deliver \/ CallEnds
           \/ Compact \/ RestartHost
  BY <1>2, ReadHiddenKeeps, SayKeeps, DeliverKeeps, CallEndsKeeps, CompactKeeps,
     RestartHostKeeps
<1>3. ASSUME NEW kind \in {"tool", "ask"}, NEW candidates \in SUBSET Exposed,
             Call(kind, candidates)
      PROVE  ExposureInv'
  BY <1>3, CallKeeps
<1>4. ASSUME NEW f \in Fibers, Begins(f) \/ GiveUpWaiting(f)
      PROVE  ExposureInv'
  BY <1>4, BeginsKeeps, GiveUpWaitingKeeps
<1>5. ASSUME NEW f \in Fibers, NEW yes \in BOOLEAN, NEW groups \in SUBSET Groups,
             NEW picked \in SUBSET Skills, Acts(f, yes, groups, picked)
      PROVE  ExposureInv'
  BY <1>5, ActsKeeps
<1>6. CASE UNCHANGED exposureVars
  BY <1>6, ExposureUnchanged
<1>7. QED
  BY <1>1, <1>2, <1>3, <1>4, <1>5, <1>6 DEF ExposureNext

LEMMA ExposureKeeps == ExposureInv => ExposureKept
<1> SUFFICES ASSUME ExposureInv PROVE ExposureKept
  OBVIOUS
<1>1. UnjudgedShown
  BY DEF UnjudgedShown, ExposureInv, ShownInv, Doubted
<1>2. BroughtBack
  BY CurrentIs DEF BroughtBack
<1>3. SkillOnce
  BY DEF SkillOnce, ExposureInv, SkillInv
<1>4. QED
  BY <1>1, <1>2, <1>3 DEF ExposureKept

\* Every reachable state is well typed: only tools of the host are hidden,
\* wherever they are read back from.
THEOREM ExposureTypeCorrect == ExposureSpec => []ExposureTypeOK
<1>1. ExposureInv => ExposureTypeOK
  BY DEF ExposureInv
<1>2. QED
  BY <1>1, ExposureStart, ExposureStepKeeps, PTL DEF ExposureSpec

\* For any tools, groups, skills, parents, prompts, calls, compactions and
\* restarts: no tool is hidden that no judge doubted and no parent hid; and
\* while no two changes overlap and none is cut short, what was brought back
\* stays for the context and a skill comes to it once.
THEOREM UnjudgedStayShown == ExposureSpec => []ExposureKept
<1>1. QED
  BY ExposureStart, ExposureStepKeeps, ExposureKeeps, PTL DEF ExposureSpec

-----------------------------------------------------------------------------
(* Rules.                                                                    *)

\* No rule of another book, and none of no book, is named as if it were a
\* book's.  The rules and books that are shipped are named so; nothing in the
\* code compares the ids of different books.
IdsApart ==
    \A b \in Books :
        /\ \A r \in Shipped \cup Project : ~IsStrictPrefix(b, r.id)
        /\ \A c \in Books : \A r \in Shelf[c].rules :
              IsStrictPrefix(b, r.id) => Len(b) <= Len(c)

-----------------------------------------------------------------------------
(* The inductive invariants: of types, and of each agent.                    *)

RunningOK(books) ==
    /\ books \in [DOMAIN books -> RunningBook]
    /\ DOMAIN books \subseteq Books
    /\ IsFiniteSet(DOMAIN books) /\ Cardinality(DOMAIN books) <= MaxRunning

SessionsInv ==
    /\ DOMAIN sessions \subseteq Agents
    /\ IsFiniteSet(DOMAIN sessions) /\ Cardinality(DOMAIN sessions) <= MaxSessions
    /\ \A a \in DOMAIN sessions : RunningOK(sessions[a])

HeardInv ==
    /\ said \in [Agents -> SUBSET Context]
    /\ heard \in [Agents -> [Books -> Nat]] /\ pokes \in [Agents -> [Books -> Nat]]
    /\ working \in SUBSET Agents /\ readable \in BOOLEAN
    /\ DOMAIN asked \subseteq Agents
    /\ \A a \in DOMAIN asked : asked[a].rules \subseteq AllRules

\* The books of a turn end may speak, and keep on until it is acted on.
TurnInv(a) ==
    a \in DOMAIN asked =>
        /\ asked[a].turn \subseteq Books
        /\ \A b \in asked[a].turn \cap DOMAIN RunningOf(a) :
              ~RunningOf(a)[b].paused /\ RunningOf(a)[b].worked

VoiceInv(a) == \A c, d \in said[a] : c.book # NoBook /\ c.book = d.book => c = d

BudgetInv(a) ==
    \A b \in Books :
        /\ heard[a][b] <= Shelf[b].budget
        /\ b \in DOMAIN RunningOf(a) => heard[a][b] <= RunningOf(a)[b].deliveries

AgentInv(a) == TurnInv(a) /\ VoiceInv(a) /\ BudgetInv(a)

RulesInv == SessionsInv /\ HeardInv /\ \A a \in Agents : AgentInv(a)

\* With ids apart: what is asked of a running book is asked while it may
\* speak, and one that has woken the agent waits until it worked.
OwnInv(a) ==
    a \in DOMAIN asked => \A r \in asked[a].rules :
        Owner(a, r) # NoBook =>
            /\ ~RunningOf(a)[Owner(a, r)].paused
            /\ RunningOf(a)[Owner(a, r)].worked

IdleInv(a) ==
    \A b \in Books :
        /\ pokes[a][b] <= 1
        /\ b \in DOMAIN RunningOf(a) /\ RunningOf(a)[b].worked => pokes[a][b] = 0

HoldInv == \A a \in Agents : OwnInv(a) /\ IdleInv(a)

-----------------------------------------------------------------------------
(* Operators.                                                                *)

LEMMA RulesConstants ==
    /\ Books \subseteq Seq(STRING) /\ NoBook \notin Books /\ AllRules \subseteq Rule
    /\ \A b \in Books : Shelf[b].budget \in Nat \ {0} /\ Shelf[b].rules \subseteq AllRules
    /\ \A b \in Books : \A r \in Shelf[b].rules : IsStrictPrefix(b, r.id)
    /\ Shipped \cup Project \subseteq AllRules
    /\ MaxRunning \in Nat \ {0} /\ MaxSessions \in Nat \ {0}
<1>1. Books \subseteq Seq(STRING) /\ NoBook \notin Books /\ AllRules \subseteq Rule
  BY RulesAssumption DEF RulesAssumption
<1>2. \A b \in Books : Shelf[b].budget \in Nat \ {0}
  BY RulesAssumption DEF RulesAssumption, ValidBook
<1>3. \A b \in Books : \A r \in Shelf[b].rules : IsStrictPrefix(b, r.id)
  BY RulesAssumption DEF RulesAssumption, ValidBook
<1>4. Shipped \cup Project \subseteq AllRules /\ \A b \in Books : Shelf[b].rules \subseteq AllRules
  BY DEF AllRules
<1>5. MaxRunning \in Nat \ {0} /\ MaxSessions \in Nat \ {0}
  BY RulesAssumption DEF RulesAssumption
<1>6. QED
  BY <1>1, <1>2, <1>3, <1>4, <1>5

LEMMA RunningOfOK ==
    ASSUME SessionsInv, NEW a
    PROVE  RunningOK(RunningOf(a))
<1>1. CASE a \in DOMAIN sessions
  BY <1>1 DEF SessionsInv, RunningOf
<1>2. CASE a \notin DOMAIN sessions
  <2>1. RunningOf(a) = << >> /\ DOMAIN RunningOf(a) = {}
    BY <1>2 DEF RunningOf
  <2>2. RunningOf(a) \in [DOMAIN RunningOf(a) -> RunningBook]
    BY <2>1
  <2>3. IsFiniteSet({}) /\ Cardinality({}) = 0
    BY FS_EmptySet
  <2>4. QED
    BY <2>1, <2>2, <2>3, RulesConstants DEF RunningOK
<1>3. QED
  BY <1>1, <1>2

\* Of some books whose ids a rule's id continues, one's is the longest.
LEMMA LongestFits ==
    ASSUME NEW r \in Rule, NEW fits \in SUBSET Books, fits # {},
           \A b \in fits : IsStrictPrefix(b, r.id)
    PROVE  \E b \in fits : \A c \in fits : Len(c) <= Len(b)
<1> DEFINE R == OpToRel(<, Nat)
           left == {Len(r.id) - Len(b) : b \in fits}
<1>1. r.id \in Seq(STRING)
  BY DEF Rule
<1>2. \A b \in fits : Len(b) \in Nat /\ Len(b) <= Len(r.id)
  BY <1>1, RulesConstants DEF IsStrictPrefix, IsPrefix
<1>3. left \in SUBSET Nat /\ left # {}
  BY <1>1, <1>2
<1>4. IsWellFoundedOn(R, Nat)
  BY NatLessThanWellFounded
<1>5. \A x, y \in Nat : x < y => <<x, y>> \in R
  BY DEF OpToRel
<1>6. PICK i \in left : \A j \in left : ~ (<<j, i>> \in R)
  <2> HIDE DEF R, left
  <2>1. QED
    BY <1>3, <1>4, WFMin
<1>7. \A j \in left : i <= j
  <2> HIDE DEF R, left
  <2>1. i \in Nat /\ \A j \in left : j \in Nat
    BY <1>3
  <2>2. \A j \in left : ~ (j < i)
    BY <1>5, <1>6, <2>1
  <2>3. QED
    BY <2>1, <2>2
<1>8. PICK b \in fits : i = Len(r.id) - Len(b)
  OBVIOUS
<1>9. ASSUME NEW c \in fits PROVE Len(c) <= Len(b)
  <2>1. Len(r.id) - Len(c) \in left
    OBVIOUS
  <2>2. Len(r.id) - Len(b) <= Len(r.id) - Len(c)
    BY <1>7, <1>8, <2>1
  <2>3. Len(r.id) \in Nat /\ Len(b) \in Nat /\ Len(c) \in Nat
    BY <1>1, <1>2
  <2>4. QED
    BY <2>2, <2>3
<1>10. QED
  BY <1>9

\* The owner of a rule is a running book, the longest that fits.
LEMMA OwnerIs ==
    ASSUME NEW a, RunningOK(RunningOf(a)), NEW r \in AllRules
    PROVE  LET b == Owner(a, r)
           IN  \/ b = NoBook
                  /\ \A c \in DOMAIN RunningOf(a) : ~IsStrictPrefix(c, r.id)
               \/ /\ b # NoBook /\ b \in DOMAIN RunningOf(a) /\ b \in Books
                  /\ IsStrictPrefix(b, r.id)
                  /\ \A c \in DOMAIN RunningOf(a) : IsStrictPrefix(c, r.id) => Len(c) <= Len(b)
<1> DEFINE fits == {b \in DOMAIN RunningOf(a) : IsStrictPrefix(b, r.id)}
<1>1. r \in Rule /\ fits \subseteq Books /\ NoBook \notin Books
  BY RulesConstants DEF RunningOK
<1>2. CASE fits = {}
  BY <1>2 DEF Owner
<1>3. CASE fits # {}
  <2>1. \E b \in fits : \A c \in fits : Len(c) <= Len(b)
    BY <1>1, <1>3, LongestFits
  <2>2. Owner(a, r) = CHOOSE b \in fits : \A c \in fits : Len(c) <= Len(b)
    BY <1>3 DEF Owner
  <2>3. Owner(a, r) \in fits /\ \A c \in fits : Len(c) <= Len(Owner(a, r))
    <3> HIDE DEF fits
    <3>1. QED
      BY <2>1, <2>2
  <2>4. QED
    BY <1>1, <2>3
<1>4. QED
  BY <1>2, <1>3

\* Of two rules of one book, one is ahead: the book speaks with one of them.
LEMMA ChosenOnce ==
    ASSUME NEW a, NEW held \in SUBSET AllRules,
           NEW r \in Chosen(a, held), NEW s \in Chosen(a, held),
           Owner(a, r) = Owner(a, s), Owner(a, r) # NoBook
    PROVE  r = s
<1>1. /\ r \in held /\ s \in held
      /\ ~Ahead(r, s) /\ ~Ahead(s, r)
  BY DEF Chosen
<1>2. r \in AllRules /\ s \in AllRules /\ r \in Rule /\ s \in Rule
  BY <1>1, RulesConstants
<1>3. /\ r.priority \in Nat /\ s.priority \in Nat /\ r.steps \in Nat /\ s.steps \in Nat
      /\ r.place \in Nat /\ s.place \in Nat
  BY <1>2 DEF Rule
<1>4. r.priority = s.priority /\ r.steps = s.steps /\ r.place = s.place
  BY <1>1, <1>3 DEF Ahead
<1>5. QED
  BY <1>2, <1>4, RulesAssumption DEF RulesAssumption

LEMMA ChosenHeld ==
    ASSUME NEW a, NEW held
    PROVE  Chosen(a, held) \subseteq held
BY DEF Chosen

-----------------------------------------------------------------------------
(* What an act delivers.                                                     *)

\* The three ways a context comes to be.
ByRule(a, held, c, r) ==
    /\ r \in Chosen(a, held) /\ c.book = Owner(a, r)
    /\ c = IF c.book # NoBook /\ Spent(a, c.book)
           THEN Voice(c.book, NoBook, "budget", "resume", Holding(a, held, c.book))
           ELSE Voice(c.book, r.id, "rule", r.delivery, TRUE)

BySpent(a, held, turn, c) ==
    /\ c.book \in Quiet(a, Chosen(a, held), turn) /\ Spent(a, c.book)
    /\ c = Voice(c.book, NoBook, "budget", "resume", Holding(a, held, c.book))

ByOtherwise(a, held, turn, c) ==
    /\ c.book \in Quiet(a, Chosen(a, held), turn) /\ ~Spent(a, c.book)
    /\ ~RunningOf(a)[c.book].paused
    /\ c = Voice(c.book, NoBook, "otherwise", "resume", Holding(a, held, c.book))

LEMMA ContextsAre ==
    ASSUME NEW a, NEW held, NEW turn, NEW c \in Contexts(a, held, Chosen(a, held), turn)
    PROVE  \/ \E r \in Chosen(a, held) : ByRule(a, held, c, r)
           \/ BySpent(a, held, turn, c)
           \/ ByOtherwise(a, held, turn, c)
<1> PICK chosen : chosen = Chosen(a, held)
  OBVIOUS
<1>1. CASE \E r \in chosen :
             c = LET b == Owner(a, r)
                 IN  IF b # NoBook /\ Spent(a, b)
                     THEN Voice(b, NoBook, "budget", "resume", Holding(a, held, b))
                     ELSE Voice(b, r.id, "rule", r.delivery, TRUE)
  <2>1. PICK r \in chosen :
             c = LET b == Owner(a, r)
                 IN  IF b # NoBook /\ Spent(a, b)
                     THEN Voice(b, NoBook, "budget", "resume", Holding(a, held, b))
                     ELSE Voice(b, r.id, "rule", r.delivery, TRUE)
    BY <1>1
  <2>2. c.book = Owner(a, r)
    BY <2>1 DEF Voice
  <2>3. ByRule(a, held, c, r)
    BY <2>1, <2>2 DEF ByRule
  <2>4. QED
    BY <2>3
<1>2. CASE \E b \in Quiet(a, chosen, turn) :
             Spent(a, b) /\ c = Voice(b, NoBook, "budget", "resume", Holding(a, held, b))
  BY <1>2 DEF BySpent, Voice
<1>3. CASE \E b \in Quiet(a, chosen, turn) :
             /\ ~Spent(a, b) /\ ~RunningOf(a)[b].paused
             /\ c = Voice(b, NoBook, "otherwise", "resume", Holding(a, held, b))
  BY <1>3 DEF ByOtherwise, Voice
<1>4. QED
  BY <1>1, <1>2, <1>3 DEF Contexts

\* Its contexts are contexts, of running books or of none.
LEMMA ContextsType ==
    ASSUME NEW a, RunningOK(RunningOf(a)), NEW held \in SUBSET AllRules, NEW turn,
           NEW c \in Contexts(a, held, Chosen(a, held), turn)
    PROVE  /\ c \in Context /\ c.kind \in {"rule", "otherwise", "budget"}
           /\ c.book = NoBook => c.kind = "rule"
           /\ c.book # NoBook => c.book \in DOMAIN RunningOf(a) /\ c.book \in Books
<1>1. \A b : Holding(a, held, b) \in BOOLEAN
  BY DEF Holding
<1>2. NoBook \in Seq(STRING)
  BY DEF NoBook
<1>3. NoBook \notin Books /\ DOMAIN RunningOf(a) \subseteq Books
  BY RulesConstants DEF RunningOK
<1>4. CASE BySpent(a, held, turn, c) \/ ByOtherwise(a, held, turn, c)
  <2>1. c.book \in DOMAIN RunningOf(a) /\ c.book \in Books
    BY <1>3, <1>4 DEF BySpent, ByOtherwise, Quiet
  <2>2. QED
    BY <1>1, <1>2, <1>3, <1>4, <2>1 DEF BySpent, ByOtherwise, Voice, Context
<1>5. ASSUME NEW r \in Chosen(a, held), ByRule(a, held, c, r)
      PROVE  /\ c \in Context /\ c.kind \in {"rule", "otherwise", "budget"}
             /\ c.book = NoBook => c.kind = "rule"
             /\ c.book # NoBook => c.book \in DOMAIN RunningOf(a) /\ c.book \in Books
  <2>1. r \in AllRules /\ r \in Rule
    BY ChosenHeld, RulesConstants
  <2>2. r.id \in Seq(STRING) /\ r.delivery \in {"steer", "resume", "wait"}
    BY <2>1 DEF Rule
  <2>3. c.book # NoBook => c.book \in DOMAIN RunningOf(a) /\ c.book \in Books
    BY <1>5, <2>1, OwnerIs DEF ByRule
  <2>4. c.book \in Books \cup {NoBook}
    BY <2>3
  <2>5. CASE c.book # NoBook /\ Spent(a, c.book)
    <3>1. c = Voice(c.book, NoBook, "budget", "resume", Holding(a, held, c.book))
      BY <1>5, <2>5 DEF ByRule
    <3>2. QED
      BY <1>1, <1>2, <2>3, <2>5, <3>1 DEF Voice, Context
  <2>6. CASE ~(c.book # NoBook /\ Spent(a, c.book))
    <3>1. c = Voice(c.book, r.id, "rule", r.delivery, TRUE)
      BY <1>5, <2>6 DEF ByRule
    <3>2. PICK b : b = c.book
      OBVIOUS
    <3>3. c = [book |-> b, rule |-> r.id, kind |-> "rule", delivery |-> r.delivery,
               held |-> TRUE]
      BY <3>1, <3>2 DEF Voice
    <3>4. b \in Books \cup {NoBook}
      BY <2>4, <3>2
    <3>5. c \in Context
      BY <2>2, <3>3, <3>4 DEF Context
    <3>6. QED
      BY <2>3, <3>3, <3>5
  <2>7. QED
    BY <2>5, <2>6
<1>6. QED
  BY <1>4, <1>5, ContextsAre

\* One context of each book.
LEMMA OneContext ==
    ASSUME NEW a, NEW held \in SUBSET AllRules, NEW turn,
           NEW c \in Contexts(a, held, Chosen(a, held), turn),
           NEW d \in Contexts(a, held, Chosen(a, held), turn),
           c.book # NoBook, c.book = d.book
    PROVE  c = d
<1>1. ASSUME NEW r \in Chosen(a, held), ByRule(a, held, c, r) PROVE c = d
  <2>1. c.book \notin Quiet(a, Chosen(a, held), turn)
    BY <1>1 DEF ByRule, Quiet
  <2>2. PICK s \in Chosen(a, held) : ByRule(a, held, d, s)
    BY <2>1, ContextsAre DEF BySpent, ByOtherwise
  <2>3. r = s
    BY <1>1, <2>2, ChosenOnce DEF ByRule
  <2>4. QED
    BY <1>1, <2>2, <2>3 DEF ByRule
<1>2. ASSUME NEW s \in Chosen(a, held), ByRule(a, held, d, s) PROVE c = d
  <2>1. c.book \notin Quiet(a, Chosen(a, held), turn)
    BY <1>2 DEF ByRule, Quiet
  <2>2. \E r \in Chosen(a, held) : ByRule(a, held, c, r)
    BY <2>1, ContextsAre DEF BySpent, ByOtherwise
  <2>3. QED
    BY <1>1, <2>2
<1>3. CASE /\ BySpent(a, held, turn, c) \/ ByOtherwise(a, held, turn, c)
           /\ BySpent(a, held, turn, d) \/ ByOtherwise(a, held, turn, d)
  BY <1>3 DEF BySpent, ByOtherwise
<1>4. QED
  BY <1>1, <1>2, <1>3, ContextsAre

\* What an act leaves of a book that goes on.
AfterAct(a, contexts, b, after) ==
    /\ after \in RunningBook
    /\ after.deliveries >= RunningOf(a)[b].deliveries
    /\ b \in Counted(contexts) => after.deliveries = RunningOf(a)[b].deliveries + 1
    /\ b \in Waking(contexts) => ~after.worked
    /\ after.worked => RunningOf(a)[b].worked

LEMMA BooksAfterAct ==
    ASSUME NEW a, RunningOK(RunningOf(a)), NEW held \in SUBSET AllRules, NEW turn,
           NEW contexts, contexts = Contexts(a, held, Chosen(a, held), turn)
    PROVE  LET after == BooksAfter(a, Chosen(a, held), contexts)
           IN  /\ RunningOK(after) /\ DOMAIN after \subseteq DOMAIN RunningOf(a)
               /\ \A b \in DOMAIN after : AfterAct(a, contexts, b, after[b])
<1> PICK chosen : chosen = Chosen(a, held)
  OBVIOUS
<1> DEFINE after == BooksAfter(a, chosen, contexts)
           going == DOMAIN RunningOf(a) \ Ended(a, chosen, contexts)
<1>1. after = [b \in going |->
          IF \E c \in contexts : c.book = b /\ c.kind = "otherwise"
          THEN [RunningOf(a)[b] EXCEPT !.deliveries = @ + 1, !.worked = FALSE]
          ELSE IF \E r \in chosen : Owner(a, r) = b
               THEN Delivered(RunningOf(a)[b], CHOOSE r \in chosen : Owner(a, r) = b)
               ELSE RunningOf(a)[b]]
  BY DEF BooksAfter
<1>2. DOMAIN after = going
  BY <1>1
<1>3. ASSUME NEW b \in going PROVE AfterAct(a, contexts, b, after[b])
  <2> PICK running : running = RunningOf(a)[b]
    OBVIOUS
  <2>7. after[b] =
          IF \E c \in contexts : c.book = b /\ c.kind = "otherwise"
          THEN [running EXCEPT !.deliveries = @ + 1, !.worked = FALSE]
          ELSE IF \E r \in chosen : Owner(a, r) = b
               THEN Delivered(running, CHOOSE r \in chosen : Owner(a, r) = b)
               ELSE running
    BY <1>1
  <2>1. /\ RunningOf(a)[b] \in RunningBook /\ b \in Books /\ b # NoBook
        /\ RunningOf(a)[b].deliveries \in Nat
    BY RulesConstants DEF RunningOK, RunningBook
  <2>8. running \in RunningBook /\ running.deliveries + 1 \in Nat
    BY <2>1
  <2>2. \A c \in contexts : c.book = b => c.kind # "budget"
    BY DEF Ended
  <2>3. CASE \E c \in contexts : c.book = b /\ c.kind = "otherwise"
    <3> HIDE DEF after
    <3>1. after[b] = [running EXCEPT !.deliveries = running.deliveries + 1, !.worked = FALSE]
      BY <2>3, <2>7
    <3>2. /\ after[b].deliveries = running.deliveries + 1
          /\ after[b].worked = FALSE /\ after[b] \in RunningBook
      BY <2>8, <3>1 DEF RunningBook
    <3>3. QED
      BY <2>1, <3>2 DEF AfterAct
  <2>4. ASSUME ~\E c \in contexts : c.book = b /\ c.kind = "otherwise",
               NEW r \in chosen, Owner(a, r) = b
        PROVE  AfterAct(a, contexts, b, after[b])
    <3>1. \A s \in chosen : Owner(a, s) = b => s = r
      BY <2>1, <2>4, ChosenOnce
    <3>2. (CHOOSE s \in chosen : Owner(a, s) = b) = r
      BY <2>4, <3>1
    <3> HIDE DEF after
    <3>3. after[b] = Delivered(running, r)
      BY <2>4, <2>7, <3>2
    <3>4. /\ after[b].deliveries = running.deliveries + 1
          /\ after[b].worked = (running.worked /\ r.delivery # "resume")
          /\ after[b] \in RunningBook
      BY <2>8, <3>3 DEF Delivered, RunningBook
    <3>5. ASSUME NEW c \in contexts, c.book = b, c.delivery = "resume"
          PROVE  r.delivery = "resume"
      <4>1. b \notin Quiet(a, chosen, turn)
        BY <2>4 DEF Quiet
      <4>2. PICK s \in chosen : ByRule(a, held, c, s)
        BY <3>5, <4>1, ContextsAre DEF BySpent, ByOtherwise
      <4>3. s = r
        BY <3>1, <3>5, <4>2 DEF ByRule
      <4>4. c = Voice(c.book, NoBook, "budget", "resume", Holding(a, held, c.book))
              \/ c = Voice(c.book, r.id, "rule", r.delivery, TRUE)
        BY <4>2, <4>3 DEF ByRule
      <4>5. QED
        BY <2>2, <3>5, <4>4 DEF Voice
    <3>6. b \in Waking(contexts) => r.delivery = "resume"
      BY <3>5 DEF Waking
    <3>7. after[b].deliveries = RunningOf(a)[b].deliveries + 1
      BY <3>4
    <3>8. after[b].deliveries >= RunningOf(a)[b].deliveries
      BY <2>1, <3>7
    <3>9. after[b].worked => running.worked /\ r.delivery # "resume"
      BY <3>4
    <3>10. QED
      BY <3>4, <3>6, <3>7, <3>8, <3>9 DEF AfterAct
  <2>5. CASE /\ ~\E c \in contexts : c.book = b /\ c.kind = "otherwise"
             /\ ~\E r \in chosen : Owner(a, r) = b
    <3> HIDE DEF after
    <3>1. after[b] = RunningOf(a)[b]
      BY <2>5, <2>7
    <3>2. ASSUME NEW c \in contexts, c.book = b PROVE FALSE
      <4>1. ~\E s \in Chosen(a, held) : ByRule(a, held, c, s)
        BY <2>5, <3>2 DEF ByRule
      <4>2. c.kind \in {"budget", "otherwise"}
        BY <4>1, ContextsAre DEF BySpent, ByOtherwise, Voice
      <4>3. QED
        BY <2>2, <2>5, <3>2, <4>2
    <3>3. b \notin Counted(contexts) /\ b \notin Waking(contexts)
      BY <3>2 DEF Counted, Waking
    <3>4. after[b] \in RunningBook /\ after[b].deliveries >= RunningOf(a)[b].deliveries
      BY <2>1, <3>1
    <3>5. after[b].worked => RunningOf(a)[b].worked
      BY <3>1
    <3>6. QED
      BY <3>3, <3>4, <3>5 DEF AfterAct
  <2>6. QED
    BY <2>3, <2>4, <2>5
<1>4. RunningOK(after)
  <2>1. after \in [DOMAIN after -> RunningBook]
    BY <1>1, <1>2, <1>3 DEF AfterAct
  <2>2. /\ going \subseteq DOMAIN RunningOf(a) /\ IsFiniteSet(DOMAIN RunningOf(a))
        /\ Cardinality(DOMAIN RunningOf(a)) <= MaxRunning
    BY DEF RunningOK
  <2>3. /\ IsFiniteSet(going) /\ Cardinality(going) <= Cardinality(DOMAIN RunningOf(a))
        /\ Cardinality(going) \in Nat /\ Cardinality(DOMAIN RunningOf(a)) \in Nat
    BY <2>2, FS_Subset, FS_CardinalityType
  <2>4. Cardinality(going) <= MaxRunning
    BY <2>2, <2>3, RulesConstants
  <2>5. QED
    BY <1>2, <2>1, <2>2, <2>3, <2>4 DEF RunningOK
<1>5. QED
  BY <1>2, <1>3, <1>4

-----------------------------------------------------------------------------
(* Steps that leave an agent alone, and steps on one agent's books.          *)

SameOf(c) ==
    /\ RunningOf(c)' = RunningOf(c) \/ RunningOf(c)' = << >>
    /\ heard'[c] = heard[c] /\ pokes'[c] = pokes[c] /\ said'[c] = said[c]
    /\ c \in DOMAIN asked' => c \in DOMAIN asked /\ asked'[c] = asked[c]

LEMMA OthersKept ==
    ASSUME NEW c \in Agents, SameOf(c)
    PROVE  /\ AgentInv(c) => AgentInv(c)'
           /\ OwnInv(c) /\ IdleInv(c) => OwnInv(c)' /\ IdleInv(c)'
<1>1. CASE RunningOf(c)' = RunningOf(c)
  <2>1. AgentInv(c) => AgentInv(c)'
    BY <1>1 DEF SameOf, AgentInv, TurnInv, VoiceInv, BudgetInv
  <2>2. \A r : Owner(c, r)' = Owner(c, r)
    BY <1>1 DEF Owner
  <2>3. OwnInv(c) => OwnInv(c)'
    BY <1>1, <2>2 DEF SameOf, OwnInv
  <2>4. IdleInv(c) => IdleInv(c)'
    BY <1>1 DEF SameOf, IdleInv
  <2>5. QED
    BY <2>1, <2>3, <2>4
<1>2. CASE RunningOf(c)' = << >>
  <2>1. DOMAIN RunningOf(c)' = {}
    BY <1>2
  <2>2. AgentInv(c) => AgentInv(c)'
    BY <2>1 DEF SameOf, AgentInv, TurnInv, VoiceInv, BudgetInv
  <2>3. \A r : Owner(c, r)' = NoBook
    BY <2>1 DEF Owner
  <2>4. OwnInv(c)'
    BY <2>3 DEF OwnInv
  <2>5. IdleInv(c) => IdleInv(c)'
    BY <2>1 DEF SameOf, IdleInv
  <2>6. QED
    BY <2>2, <2>4, <2>5
<1>3. QED
  BY <1>1, <1>2 DEF SameOf

\* An agent's books are replaced.
LEMMA BooksReplaced ==
    ASSUME SessionsInv, NEW a \in DOMAIN sessions, NEW books, RunningOK(books),
           sessions' = [sessions EXCEPT ![a] = books]
    PROVE  /\ SessionsInv' /\ RunningOf(a)' = books
           /\ \A c : c # a => RunningOf(c)' = RunningOf(c)
<1>1. DOMAIN sessions' = DOMAIN sessions /\ sessions'[a] = books
  OBVIOUS
<1>2. \A c \in DOMAIN sessions : c # a => sessions'[c] = sessions[c]
  OBVIOUS
<1>3. SessionsInv'
  <2>1. ASSUME NEW c \in DOMAIN sessions PROVE RunningOK(sessions'[c])
    BY <1>1, <1>2 DEF SessionsInv
  <2>2. QED
    BY <1>1, <2>1 DEF SessionsInv, RunningOK
<1>4. QED
  BY <1>1, <1>2, <1>3 DEF RunningOf

LEMMA SessionsSame ==
    ASSUME SessionsInv, UNCHANGED sessions
    PROVE  SessionsInv' /\ \A c : RunningOf(c)' = RunningOf(c)
BY DEF SessionsInv, RunningOK, RunningOf

\* Books that worked.
LEMMA WorkedIs ==
    ASSUME SessionsInv, NEW a, sessions' = Worked(a)
    PROVE  /\ SessionsInv' /\ DOMAIN RunningOf(a)' = DOMAIN RunningOf(a)
           /\ \A b \in DOMAIN RunningOf(a) :
                 /\ RunningOf(a)'[b].deliveries = RunningOf(a)[b].deliveries
                 /\ RunningOf(a)'[b].paused = RunningOf(a)[b].paused
                 /\ RunningOf(a)'[b].worked
           /\ \A c : c # a => RunningOf(c)' = RunningOf(c)
<1>1. CASE a \notin DOMAIN sessions
  <2>1. UNCHANGED sessions
    BY <1>1 DEF Worked
  <2>2. DOMAIN RunningOf(a) = {}
    BY <1>1 DEF RunningOf
  <2>3. QED
    BY <2>1, <2>2, SessionsSame
<1>2. CASE a \in DOMAIN sessions
  <2> DEFINE books == [b \in DOMAIN sessions[a] |-> [sessions[a][b] EXCEPT !.worked = TRUE]]
  <2>1. sessions' = [sessions EXCEPT ![a] = books] /\ RunningOf(a) = sessions[a]
    BY <1>2 DEF Worked, RunningOf
  <2>2. RunningOK(sessions[a])
    BY <1>2 DEF SessionsInv
  <2>3. ASSUME NEW b \in DOMAIN sessions[a]
        PROVE  /\ books[b] \in RunningBook /\ books[b].deliveries = sessions[a][b].deliveries
               /\ books[b].paused = sessions[a][b].paused /\ books[b].worked
    <3>1. sessions[a][b] \in RunningBook
      BY <2>2 DEF RunningOK
    <3>2. QED
      BY <3>1 DEF RunningBook
  <2>4. RunningOK(books)
    BY <2>2, <2>3 DEF RunningOK
  <2>5. DOMAIN books = DOMAIN sessions[a]
    OBVIOUS
  <2> HIDE DEF books
  <2>6. QED
    BY <1>2, <2>1, <2>3, <2>4, <2>5, BooksReplaced
<1>3. QED
  BY <1>1, <1>2

\* A book is started; a session too many clears every other's.
LEMMA StartedIs ==
    ASSUME SessionsInv, NEW a \in Agents, NEW b \in Books, NEW kept,
           ~(Cardinality(DOMAIN RunningOf(a) \ {b}) >= MaxRunning),
           kept = IF a \notin DOMAIN sessions /\ Cardinality(DOMAIN sessions) >= MaxSessions
                  THEN << >> ELSE sessions,
           sessions' = Updated(kept, a, Updated(RunningOf(a), b, Fresh))
    PROVE  /\ SessionsInv' /\ RunningOf(a)' = Updated(RunningOf(a), b, Fresh)
           /\ \A c : c # a => RunningOf(c)' \in {RunningOf(c), << >>}
<1> DEFINE books == Updated(RunningOf(a), b, Fresh)
           others == DOMAIN RunningOf(a) \ {b}
<1>1. RunningOK(RunningOf(a))
  BY RunningOfOK
<1>2. RunningOK(books)
  <2>1. DOMAIN books = others \cup {b}
    BY DEF Updated
  <2>2. IsFiniteSet(others) /\ Cardinality(others) \in Nat /\ b \notin others
    BY <1>1, FS_Subset, FS_CardinalityType DEF RunningOK
  <2>3. /\ IsFiniteSet(others \cup {b})
        /\ Cardinality(others \cup {b}) = Cardinality(others) + 1
    BY <2>2, FS_AddElement
  <2>4. Cardinality(others) + 1 <= MaxRunning
    BY <2>2, RulesConstants
  <2>5. Fresh \in RunningBook
    BY DEF Fresh, RunningBook
  <2>6. \A x \in DOMAIN books : books[x] \in RunningBook
    BY <1>1, <2>5 DEF Updated, RunningOK
  <2>7. books \in [DOMAIN books -> RunningBook]
    BY <2>6 DEF Updated
  <2>8. DOMAIN books \subseteq Books
    BY <1>1, <2>1 DEF RunningOK
  <2> HIDE DEF books
  <2>9. QED
    BY <2>1, <2>3, <2>4, <2>7, <2>8 DEF RunningOK
<1> HIDE DEF books
<1>3. /\ DOMAIN sessions' = DOMAIN kept \cup {a} /\ sessions'[a] = books
      /\ \A c \in DOMAIN kept : c # a => sessions'[c] = kept[c]
  BY DEF Updated, books
<1>4. /\ IsFiniteSet(DOMAIN kept) /\ Cardinality(DOMAIN kept) \in Nat
      /\ a \in DOMAIN kept => Cardinality(DOMAIN kept) <= MaxSessions
      /\ a \notin DOMAIN kept => Cardinality(DOMAIN kept) < MaxSessions
      /\ DOMAIN kept \subseteq DOMAIN sessions
      /\ \A c \in DOMAIN kept : kept[c] = sessions[c]
  <2>1. /\ IsFiniteSet(DOMAIN sessions) /\ Cardinality(DOMAIN sessions) \in Nat
        /\ Cardinality(DOMAIN sessions) <= MaxSessions
    BY FS_CardinalityType DEF SessionsInv
  <2>2. CASE a \in DOMAIN sessions \/ ~(Cardinality(DOMAIN sessions) >= MaxSessions)
    <3>1. kept = sessions
      BY <2>2
    <3>2. QED
      BY <2>1, <2>2, <3>1, RulesConstants
  <2>3. CASE a \notin DOMAIN sessions /\ Cardinality(DOMAIN sessions) >= MaxSessions
    <3>1. DOMAIN kept = {}
      BY <2>3
    <3>2. IsFiniteSet(DOMAIN kept) /\ Cardinality(DOMAIN kept) = 0
      BY <3>1, FS_EmptySet
    <3>3. QED
      BY <3>1, <3>2, RulesConstants
  <2>4. QED
    BY <2>2, <2>3
<1>5. SessionsInv'
  <2>1. ASSUME NEW c \in DOMAIN sessions' PROVE RunningOK(sessions'[c])
    BY <1>2, <1>3, <1>4 DEF SessionsInv
  <2>2. /\ IsFiniteSet(DOMAIN sessions') /\ Cardinality(DOMAIN sessions') <= MaxSessions
    <3>1. CASE a \in DOMAIN kept
      <4>1. DOMAIN sessions' = DOMAIN kept
        BY <1>3, <3>1
      <4>2. QED
        BY <1>4, <3>1, <4>1
    <3>2. CASE a \notin DOMAIN kept
      <4>1. /\ IsFiniteSet(DOMAIN kept \cup {a})
            /\ Cardinality(DOMAIN kept \cup {a}) = Cardinality(DOMAIN kept) + 1
        BY <1>4, <3>2, FS_AddElement
      <4>2. QED
        BY <1>3, <1>4, <3>2, <4>1, RulesConstants
    <3>3. QED
      BY <3>1, <3>2
  <2>3. DOMAIN sessions' \subseteq Agents
    BY <1>3, <1>4 DEF SessionsInv
  <2>4. QED
    BY <2>1, <2>2, <2>3 DEF SessionsInv, RunningOK
<1>6. RunningOf(a)' = books
  BY <1>3 DEF RunningOf
<1>7. ASSUME NEW c, c # a PROVE RunningOf(c)' \in {RunningOf(c), << >>}
  BY <1>3, <1>4, <1>7 DEF RunningOf
<1>8. QED
  BY <1>5, <1>6, <1>7 DEF books

-----------------------------------------------------------------------------
(* The steps.                                                                *)

LEMMA RulesInitKeeps ==
    ASSUME RulesInit
    PROVE  RulesInv /\ HoldInv
<1>1. DOMAIN sessions = {} /\ DOMAIN asked = {}
  BY DEF RulesInit
<1>2. SessionsInv
  BY <1>1, FS_EmptySet, RulesConstants DEF SessionsInv
<1>3. HeardInv
  BY <1>1 DEF RulesInit, HeardInv
<1>4. \A a \in Agents : DOMAIN RunningOf(a) = {}
  BY <1>1 DEF RunningOf
<1>5. \A a \in Agents : AgentInv(a)
  BY <1>1, <1>4, RulesConstants DEF RulesInit, AgentInv, TurnInv, VoiceInv, BudgetInv
<1>6. HoldInv
  BY <1>1, <1>4 DEF RulesInit, HoldInv, OwnInv, IdleInv
<1>7. QED
  BY <1>2, <1>3, <1>5, <1>6 DEF RulesInv

\* One act: its agent's books, and what it counts.
LEMMA ActIs ==
    ASSUME RulesInv, NEW a \in Agents, NEW held, NEW arrives, Act(a, held, arrives)
    PROVE  LET contexts == Contexts(a, held, Chosen(a, held), asked[a].turn)
           IN  /\ SessionsInv' /\ held \in SUBSET AllRules /\ contexts \in SUBSET Context
               /\ said' = [said EXCEPT ![a] = contexts]
               /\ DOMAIN RunningOf(a)' \subseteq DOMAIN RunningOf(a)
               /\ \A b \in DOMAIN RunningOf(a)' : AfterAct(a, contexts, b, RunningOf(a)'[b])
               /\ \A c : c # a => RunningOf(c)' = RunningOf(c)
               /\ \E shown \in {contexts, {}} : \A b \in Books :
                     /\ heard'[a][b] = heard[a][b] + (IF b \in Counted(shown) THEN 1 ELSE 0)
                     /\ pokes'[a][b] = pokes[a][b] + (IF b \in Waking(shown) THEN 1 ELSE 0)
<1> DEFINE contexts == Contexts(a, held, Chosen(a, held), asked[a].turn)
           after == BooksAfter(a, Chosen(a, held), contexts)
           shown == IF arrives THEN contexts ELSE {}
<1>1. /\ sessions' = IF a \in DOMAIN sessions
                     THEN [sessions EXCEPT ![a] = after] ELSE sessions
      /\ said' = [said EXCEPT ![a] = contexts]
      /\ heard' = [heard EXCEPT ![a] = [b \in Books |->
             heard[a][b] + (IF b \in Counted(shown) THEN 1 ELSE 0)]]
      /\ pokes' = [pokes EXCEPT ![a] = [b \in Books |->
             pokes[a][b] + (IF b \in Waking(shown) THEN 1 ELSE 0)]]
      /\ held \subseteq asked[a].rules /\ a \in DOMAIN asked
  BY DEF Act, RulesInv, HeardInv
<1>2. held \in SUBSET AllRules /\ SessionsInv /\ heard \in [Agents -> [Books -> Nat]]
      /\ pokes \in [Agents -> [Books -> Nat]]
  BY <1>1 DEF RulesInv, HeardInv
<1>3. RunningOK(RunningOf(a))
  BY <1>2, RunningOfOK
<1>4. contexts \in SUBSET Context
  BY <1>2, <1>3, ContextsType
<1>5. /\ RunningOK(after) /\ DOMAIN after \subseteq DOMAIN RunningOf(a)
      /\ \A b \in DOMAIN after : AfterAct(a, contexts, b, after[b])
  BY <1>2, <1>3, BooksAfterAct
<1>6. \A b \in Books :
          /\ heard'[a][b] = heard[a][b] + (IF b \in Counted(shown) THEN 1 ELSE 0)
          /\ pokes'[a][b] = pokes[a][b] + (IF b \in Waking(shown) THEN 1 ELSE 0)
  <2> HIDE DEF contexts, shown
  <2>1. QED
    BY <1>1, <1>2
<1>7. shown \in {contexts, {}}
  OBVIOUS
<1> HIDE DEF contexts, after, shown
<1>8. /\ SessionsInv' /\ DOMAIN RunningOf(a)' \subseteq DOMAIN RunningOf(a)
      /\ \A b \in DOMAIN RunningOf(a)' : AfterAct(a, contexts, b, RunningOf(a)'[b])
      /\ \A c : c # a => RunningOf(c)' = RunningOf(c)
  <2>1. CASE a \in DOMAIN sessions
    <3>1. SessionsInv' /\ RunningOf(a)' = after
          /\ \A c : c # a => RunningOf(c)' = RunningOf(c)
      BY <1>1, <1>2, <1>5, <2>1, BooksReplaced
    <3>2. QED
      BY <1>5, <3>1
  <2>2. CASE a \notin DOMAIN sessions
    <3>1. SessionsInv' /\ \A c : RunningOf(c)' = RunningOf(c)
      BY <1>1, <1>2, <2>2, SessionsSame
    <3>2. DOMAIN RunningOf(a) = {}
      BY <2>2 DEF RunningOf
    <3>3. QED
      BY <3>1, <3>2
  <2>3. QED
    BY <2>1, <2>2
<1>9. QED
  BY <1>1, <1>2, <1>4, <1>6, <1>7, <1>8 DEF contexts

LEMMA AskedNo ==
    ASSUME NEW a, NEW held, NEW arrives, Act(a, held, arrives) \/ Abandon(a)
    PROVE  /\ DOMAIN asked' = DOMAIN asked \ {a}
           /\ \A c \in DOMAIN asked' : asked'[c] = asked[c]
BY DEF Act, Abandon, Restrict

LEMMA ActTypes ==
    ASSUME RulesInv, NEW a \in Agents, NEW held, NEW arrives, Act(a, held, arrives)
    PROVE  HeardInv' /\ \A c \in Agents : c # a => SameOf(c)
<1> DEFINE contexts == Contexts(a, held, Chosen(a, held), asked[a].turn)
           shown == IF arrives THEN contexts ELSE {}
           counts == [b \in Books |-> heard[a][b] + (IF b \in Counted(shown) THEN 1 ELSE 0)]
           wakes == [b \in Books |-> pokes[a][b] + (IF b \in Waking(shown) THEN 1 ELSE 0)]
<1>1. HeardInv
  BY DEF RulesInv
<1>2. /\ said' = [said EXCEPT ![a] = contexts] /\ contexts \in SUBSET Context
      /\ \A c : c # a => RunningOf(c)' = RunningOf(c)
  BY ActIs
<1>3. /\ heard' = [heard EXCEPT ![a] = counts] /\ pokes' = [pokes EXCEPT ![a] = wakes]
      /\ working' = working \/ working' = working \cup {a}
      /\ readable' = readable
  BY <1>1 DEF Act, HeardInv
<1>4. counts \in [Books -> Nat] /\ wakes \in [Books -> Nat]
  <2> HIDE DEF shown
  <2>1. heard[a] \in [Books -> Nat] /\ pokes[a] \in [Books -> Nat]
    BY <1>1 DEF HeardInv
  <2>2. \A n \in Nat : n + 1 \in Nat /\ n + 0 \in Nat
    OBVIOUS
  <2>3. QED
    BY <2>1, <2>2
<1> HIDE DEF contexts, shown, counts, wakes
<1>5. /\ DOMAIN asked' = DOMAIN asked \ {a}
      /\ \A c \in DOMAIN asked' : asked'[c] = asked[c]
  BY AskedNo
<1>6. HeardInv'
  <2>1. said' \in [Agents -> SUBSET Context]
    BY <1>1, <1>2 DEF HeardInv
  <2>2. heard' \in [Agents -> [Books -> Nat]] /\ pokes' \in [Agents -> [Books -> Nat]]
    BY <1>1, <1>3, <1>4 DEF HeardInv
  <2>3. QED
    BY <1>1, <1>3, <1>5, <2>1, <2>2 DEF HeardInv
<1>7. ASSUME NEW c \in Agents, c # a PROVE SameOf(c)
  BY <1>1, <1>2, <1>3, <1>5, <1>7 DEF SameOf, HeardInv
<1>8. QED
  BY <1>6, <1>7

LEMMA ActBudget ==
    ASSUME RulesInv, NEW a \in Agents, NEW held, NEW arrives, Act(a, held, arrives)
    PROVE  BudgetInv(a)'
<1> PICK contexts : contexts = Contexts(a, held, Chosen(a, held), asked[a].turn)
  OBVIOUS
<1>1. PICK shown \in {contexts, {}} : \A b \in Books :
          heard'[a][b] = heard[a][b] + (IF b \in Counted(shown) THEN 1 ELSE 0)
  BY ActIs
<1>2. /\ held \in SUBSET AllRules
      /\ DOMAIN RunningOf(a)' \subseteq DOMAIN RunningOf(a)
      /\ \A b \in DOMAIN RunningOf(a)' : AfterAct(a, contexts, b, RunningOf(a)'[b])
  BY ActIs
<1>3. BudgetInv(a) /\ RunningOK(RunningOf(a)) /\ heard[a] \in [Books -> Nat]
  BY RunningOfOK DEF RulesInv, AgentInv, HeardInv
<1>4. ASSUME NEW b \in Books
      PROVE  /\ heard'[a][b] <= Shelf[b].budget
             /\ b \in DOMAIN RunningOf(a)' => heard'[a][b] <= RunningOf(a)'[b].deliveries
  <2>1. heard[a][b] \in Nat /\ Shelf[b].budget \in Nat /\ heard[a][b] <= Shelf[b].budget
    BY <1>3, RulesConstants DEF BudgetInv
  <2>2. ASSUME NEW x \in DOMAIN RunningOf(a) PROVE RunningOf(a)[x].deliveries \in Nat
    BY <1>3 DEF RunningOK, RunningBook
  <2>3. ASSUME b \in DOMAIN RunningOf(a)'
        PROVE  /\ RunningOf(a)'[b].deliveries \in Nat /\ b \in DOMAIN RunningOf(a)
               /\ RunningOf(a)'[b].deliveries >= RunningOf(a)[b].deliveries
               /\ b \in Counted(contexts) =>
                    RunningOf(a)'[b].deliveries = RunningOf(a)[b].deliveries + 1
               /\ heard[a][b] <= RunningOf(a)[b].deliveries
    BY <1>2, <1>3, <2>3 DEF AfterAct, RunningBook, BudgetInv
  <2>4. CASE b \notin Counted(shown)
    <3>1. heard'[a][b] = heard[a][b]
      BY <1>1, <2>1, <2>4
    <3>2. QED
      BY <2>1, <2>2, <2>3, <3>1
  <2>5. CASE b \in Counted(shown)
    <3>1. PICK c \in contexts : c.book = b /\ c.kind # "budget"
      BY <2>5 DEF Counted
    <3>2. b # NoBook /\ b \in DOMAIN RunningOf(a)
      BY <1>2, <1>3, <3>1, RulesConstants, ContextsType
    <3>3. ~Spent(a, b)
      <4>1. ASSUME NEW r \in Chosen(a, held), ByRule(a, held, c, r) PROVE ~Spent(a, b)
        BY <3>1, <3>2, <4>1 DEF ByRule, Voice
      <4>2. ASSUME BySpent(a, held, asked[a].turn, c) PROVE FALSE
        BY <3>1, <4>2 DEF BySpent, Voice
      <4>3. QED
        BY <3>1, <4>1, <4>2, ContextsAre DEF ByOtherwise
    <3>4. RunningOf(a)[b].deliveries + 1 <= Shelf[b].budget
      BY <2>1, <2>2, <3>2, <3>3 DEF Spent
    <3>5. heard'[a][b] = heard[a][b] + 1
      BY <1>1, <2>5
    <3>6. b \in Counted(contexts) /\ heard[a][b] <= RunningOf(a)[b].deliveries
      BY <1>3, <2>5, <3>2 DEF Counted, BudgetInv
    <3>7. QED
      BY <2>1, <2>2, <2>3, <3>2, <3>4, <3>5, <3>6
  <2>6. QED
    BY <2>4, <2>5
<1>5. QED
  BY <1>4 DEF BudgetInv

LEMMA ActKeeps ==
    ASSUME RulesInv, NEW a \in Agents, NEW held, NEW arrives, Act(a, held, arrives)
    PROVE  RulesInv'
<1> PICK contexts : contexts = Contexts(a, held, Chosen(a, held), asked[a].turn)
  OBVIOUS
<1>1. /\ SessionsInv' /\ held \in SUBSET AllRules /\ said'[a] = contexts
  BY ActIs DEF RulesInv, HeardInv
<1>2. HeardInv' /\ \A c \in Agents : c # a => SameOf(c)
  BY ActTypes
<1>3. VoiceInv(a)'
  BY <1>1, OneContext DEF VoiceInv
<1>4. TurnInv(a)'
  BY AskedNo DEF TurnInv
<1>5. AgentInv(a)'
  BY <1>3, <1>4, ActBudget DEF AgentInv
<1>6. \A c \in Agents : c # a => AgentInv(c)'
  BY <1>2, OthersKept DEF RulesInv
<1>7. QED
  BY <1>1, <1>2, <1>5, <1>6 DEF RulesInv

\* What wakes an agent comes of a book that worked and is not paused.
LEMMA SpeaksAwake ==
    ASSUME RulesInv, HoldInv, NEW a \in Agents, NEW held, NEW arrives, Act(a, held, arrives),
           NEW c \in Contexts(a, held, Chosen(a, held), asked[a].turn), c.book # NoBook
    PROVE  /\ c.book \in DOMAIN RunningOf(a) /\ c.book \in Books
           /\ ~RunningOf(a)[c.book].paused /\ RunningOf(a)[c.book].worked
<1>1. /\ held \in SUBSET AllRules /\ held \subseteq asked[a].rules /\ a \in DOMAIN asked
      /\ RunningOK(RunningOf(a))
  <2>1. held \in SUBSET AllRules
    BY ActIs
  <2>2. held \subseteq asked[a].rules /\ a \in DOMAIN asked
    BY DEF Act
  <2>3. RunningOK(RunningOf(a))
    BY RunningOfOK DEF RulesInv
  <2>4. QED
    BY <2>1, <2>2, <2>3
<1>2. c.book \in DOMAIN RunningOf(a) /\ c.book \in Books
  BY <1>1, ContextsType
<1>3. ASSUME NEW r \in Chosen(a, held), ByRule(a, held, c, r)
      PROVE  ~RunningOf(a)[c.book].paused /\ RunningOf(a)[c.book].worked
  <2>1. r \in asked[a].rules /\ Owner(a, r) = c.book
    BY <1>1, <1>3, ChosenHeld DEF ByRule
  <2>2. QED
    BY <1>1, <2>1 DEF HoldInv, OwnInv
<1>4. CASE c.book \in Quiet(a, Chosen(a, held), asked[a].turn)
  <2>1. c.book \in asked[a].turn
    BY <1>4 DEF Quiet
  <2>2. QED
    BY <1>1, <1>2, <2>1 DEF RulesInv, AgentInv, TurnInv
<1>5. QED
  BY <1>2, <1>3, <1>4, ContextsAre DEF BySpent, ByOtherwise

LEMMA ActHolds ==
    ASSUME RulesInv, HoldInv, NEW a \in Agents, NEW held, NEW arrives, Act(a, held, arrives)
    PROVE  HoldInv'
<1> PICK contexts : contexts = Contexts(a, held, Chosen(a, held), asked[a].turn)
  OBVIOUS
<1>1. PICK shown \in {contexts, {}} : \A b \in Books :
          pokes'[a][b] = pokes[a][b] + (IF b \in Waking(shown) THEN 1 ELSE 0)
  BY ActIs
<1>2. /\ DOMAIN RunningOf(a)' \subseteq DOMAIN RunningOf(a)
      /\ \A b \in DOMAIN RunningOf(a)' : AfterAct(a, contexts, b, RunningOf(a)'[b])
  BY ActIs
<1>3. IdleInv(a) /\ pokes[a] \in [Books -> Nat]
  BY DEF HoldInv, RulesInv, HeardInv
<1>4. ASSUME NEW b \in Books
      PROVE  /\ pokes'[a][b] <= 1
             /\ b \in DOMAIN RunningOf(a)' /\ RunningOf(a)'[b].worked => pokes'[a][b] = 0
  <2>1. /\ pokes[a][b] \in Nat /\ pokes[a][b] <= 1
        /\ b \in DOMAIN RunningOf(a) /\ RunningOf(a)[b].worked => pokes[a][b] = 0
    BY <1>3 DEF IdleInv
  <2>2. CASE b \notin Waking(shown)
    <3>1. pokes'[a][b] = pokes[a][b]
      BY <1>1, <2>1, <2>2
    <3>2. b \in DOMAIN RunningOf(a)' /\ RunningOf(a)'[b].worked =>
            b \in DOMAIN RunningOf(a) /\ RunningOf(a)[b].worked
      BY <1>2 DEF AfterAct
    <3>3. QED
      BY <2>1, <3>1, <3>2
  <2>3. CASE b \in Waking(shown)
    <3>1. PICK c \in contexts : c.book = b
      BY <2>3 DEF Waking
    <3>2. b # NoBook
      BY RulesConstants
    <3>3. b \in DOMAIN RunningOf(a) /\ RunningOf(a)[b].worked
      BY <3>1, <3>2, SpeaksAwake
    <3>4. pokes'[a][b] = pokes[a][b] + 1
      BY <1>1, <2>3
    <3>5. b \in Waking(contexts)
      BY <2>3 DEF Waking
    <3>6. b \in DOMAIN RunningOf(a)' => ~RunningOf(a)'[b].worked
      BY <1>2, <3>5 DEF AfterAct
    <3>7. QED
      BY <2>1, <3>3, <3>4, <3>6
  <2>4. QED
    BY <2>2, <2>3
<1>5. IdleInv(a)'
  BY <1>4 DEF IdleInv
<1>6. OwnInv(a)'
  BY AskedNo DEF OwnInv
<1>7. \A c \in Agents : c # a => OwnInv(c)' /\ IdleInv(c)'
  BY ActTypes, OthersKept DEF HoldInv
<1>8. QED
  BY <1>5, <1>6, <1>7 DEF HoldInv

\* What is asked are rules, and of a running book while it may speak.
LEMMA AskedAre ==
    ASSUME NEW a, RunningOK(RunningOf(a)), NEW trigger, NEW tool, NEW calls, NEW todos
    PROVE  Asked(a, trigger, tool, calls, todos) \subseteq AllRules
<1>1. RulesFor \subseteq AllRules
  BY RulesConstants DEF RulesFor
<1>2. BookRules(a, trigger) \subseteq AllRules
  BY RulesConstants DEF BookRules, RunningOK
<1>3. QED
  BY <1>1, <1>2 DEF Asked

LEMMA AskedAwake ==
    ASSUME IdsApart, NEW a, RunningOK(RunningOf(a)),
           NEW trigger, NEW tool, NEW calls, NEW todos,
           NEW r \in Asked(a, trigger, tool, calls, todos), Owner(a, r) # NoBook
    PROVE  /\ Owner(a, r) \in DOMAIN RunningOf(a)
           /\ ~RunningOf(a)[Owner(a, r)].paused
           /\ trigger = "turn_end" => RunningOf(a)[Owner(a, r)].worked
<1> PICK b : b = Owner(a, r)
  OBVIOUS
<1>1. r \in AllRules /\ r.id \in Seq(STRING)
  BY AskedAre, RulesConstants DEF Rule
<1>2. /\ b \in DOMAIN RunningOf(a) /\ b \in Books /\ IsStrictPrefix(b, r.id)
      /\ \A c \in DOMAIN RunningOf(a) : IsStrictPrefix(c, r.id) => Len(c) <= Len(b)
  BY <1>1, OwnerIs
<1>3. r \notin RulesFor
  BY <1>2 DEF RulesFor, IdsApart
<1>4. PICK c \in DOMAIN RunningOf(a) :
          /\ r \in Shelf[c].rules /\ ~RunningOf(a)[c].paused
          /\ trigger = "turn_end" => ChecksTurn(RunningOf(a)[c])
  BY <1>3 DEF Asked, BookRules
<1>5. c \in Books /\ IsStrictPrefix(c, r.id)
  BY <1>4, RulesConstants DEF RunningOK
<1>6. Len(b) <= Len(c) /\ Len(c) <= Len(b)
  BY <1>2, <1>4, <1>5 DEF IdsApart
<1>7. b \in Seq(STRING) /\ c \in Seq(STRING)
  BY <1>2, <1>5, RulesConstants
<1>8. Len(b) = Len(c)
  BY <1>6, <1>7
<1>9. b = SubSeq(b, 1, Len(b)) /\ c = SubSeq(c, 1, Len(c))
  BY <1>7
<1>10. b = c
  BY <1>2, <1>5, <1>8, <1>9 DEF IsStrictPrefix, IsPrefix
<1>11. QED
  BY <1>4, <1>10, <1>2 DEF ChecksTurn

\* Steps that touch nobody's books and no judgment.
LEMMA QuietKeeps ==
    ASSUME RulesInv, UNCHANGED <<sessions, heard, pokes, said>>,
           working' \in SUBSET Agents, readable' \in BOOLEAN,
           DOMAIN asked' \subseteq DOMAIN asked,
           \A c \in DOMAIN asked' : asked'[c] = asked[c]
    PROVE  RulesInv' /\ (HoldInv => HoldInv')
<1>1. SessionsInv' /\ \A c : RunningOf(c)' = RunningOf(c)
  BY SessionsSame DEF RulesInv
<1>2. HeardInv'
  BY DEF RulesInv, HeardInv
<1>3. \A c \in Agents : SameOf(c)
  BY <1>1 DEF SameOf
<1>4. QED
  BY <1>1, <1>2, <1>3, OthersKept DEF RulesInv, HoldInv

\* A step of one agent's, of which the others notice nothing, or that their
\* books are gone.
LEMMA OneAgentKeeps ==
    ASSUME RulesInv, NEW a \in Agents, SessionsInv', HeardInv', AgentInv(a)',
           \A c \in Agents : c # a => SameOf(c)
    PROVE  RulesInv' /\ (HoldInv /\ OwnInv(a)' /\ IdleInv(a)' => HoldInv')
BY OthersKept DEF RulesInv, HoldInv

\* The agent worked: its books take notice, and nothing is pending of them.
LEMMA WorkedKeeps ==
    ASSUME RulesInv, NEW a \in Agents, sessions' = Worked(a), pokes' = NoPokes(a),
           said' = [said EXCEPT ![a] = {}], UNCHANGED heard
    PROVE  /\ SessionsInv' /\ DOMAIN RunningOf(a)' = DOMAIN RunningOf(a)
           /\ \A b \in DOMAIN RunningOf(a) :
                 /\ RunningOf(a)'[b].paused = RunningOf(a)[b].paused
                 /\ RunningOf(a)'[b].worked
           /\ said' \in [Agents -> SUBSET Context] /\ pokes' \in [Agents -> [Books -> Nat]]
           /\ heard' \in [Agents -> [Books -> Nat]]
           /\ VoiceInv(a)' /\ BudgetInv(a)' /\ IdleInv(a)'
           /\ \A c \in Agents : c # a =>
                 /\ RunningOf(c)' = RunningOf(c) /\ heard'[c] = heard[c]
                 /\ pokes'[c] = pokes[c] /\ said'[c] = said[c]
<1>1. /\ SessionsInv' /\ DOMAIN RunningOf(a)' = DOMAIN RunningOf(a)
      /\ \A b \in DOMAIN RunningOf(a) :
            /\ RunningOf(a)'[b].deliveries = RunningOf(a)[b].deliveries
            /\ RunningOf(a)'[b].paused = RunningOf(a)[b].paused
            /\ RunningOf(a)'[b].worked
      /\ \A c : c # a => RunningOf(c)' = RunningOf(c)
  BY WorkedIs DEF RulesInv
<1>2. HeardInv /\ AgentInv(a)
  BY DEF RulesInv
<1>3. pokes' = [pokes EXCEPT ![a] = [b \in Books |-> 0]]
  BY DEF NoPokes
<1>4. /\ said' \in [Agents -> SUBSET Context] /\ pokes' \in [Agents -> [Books -> Nat]]
      /\ heard' \in [Agents -> [Books -> Nat]]
  BY <1>2, <1>3 DEF HeardInv
<1>5. VoiceInv(a)'
  BY <1>2 DEF VoiceInv, HeardInv
<1>6. BudgetInv(a)'
  BY <1>1, <1>2 DEF AgentInv, BudgetInv
<1>7. IdleInv(a)'
  BY <1>2, <1>3 DEF IdleInv, HeardInv
<1>8. QED
  BY <1>1, <1>2, <1>3, <1>4, <1>5, <1>6, <1>7 DEF HeardInv

LEMMA UserMessageKeeps ==
    ASSUME RulesInv, NEW a \in Agents, UserMessage(a)
    PROVE  RulesInv' /\ (HoldInv => HoldInv')
<1>1. /\ SessionsInv'
      /\ said' \in [Agents -> SUBSET Context] /\ pokes' \in [Agents -> [Books -> Nat]]
      /\ heard' \in [Agents -> [Books -> Nat]]
      /\ VoiceInv(a)' /\ BudgetInv(a)' /\ IdleInv(a)'
      /\ \A c \in Agents : c # a =>
            /\ RunningOf(c)' = RunningOf(c) /\ heard'[c] = heard[c]
            /\ pokes'[c] = pokes[c] /\ said'[c] = said[c]
  BY WorkedKeeps DEF UserMessage
<1>2. /\ a \notin DOMAIN asked' /\ UNCHANGED <<asked, readable>>
      /\ working' = working \cup {a}
  BY DEF UserMessage, Ready
<1>3. HeardInv'
  BY <1>1, <1>2 DEF RulesInv, HeardInv
<1>4. AgentInv(a)' /\ OwnInv(a)'
  BY <1>1, <1>2 DEF AgentInv, TurnInv, OwnInv
<1>5. \A c \in Agents : c # a => SameOf(c)
  BY <1>1, <1>2 DEF SameOf
<1>6. QED
  BY <1>1, <1>3, <1>4, <1>5, OneAgentKeeps

LEMMA ToolResultKeeps ==
    ASSUME RulesInv, NEW a \in Agents, NEW tool, ToolResult(a, tool)
    PROVE  RulesInv' /\ (IdsApart /\ HoldInv => HoldInv')
<1>1. /\ SessionsInv' /\ DOMAIN RunningOf(a)' = DOMAIN RunningOf(a)
      /\ \A b \in DOMAIN RunningOf(a) :
            /\ RunningOf(a)'[b].paused = RunningOf(a)[b].paused
            /\ RunningOf(a)'[b].worked
      /\ said' \in [Agents -> SUBSET Context] /\ pokes' \in [Agents -> [Books -> Nat]]
      /\ heard' \in [Agents -> [Books -> Nat]]
      /\ VoiceInv(a)' /\ BudgetInv(a)' /\ IdleInv(a)'
      /\ \A c \in Agents : c # a =>
            /\ RunningOf(c)' = RunningOf(c) /\ heard'[c] = heard[c]
            /\ pokes'[c] = pokes[c] /\ said'[c] = said[c]
  BY WorkedKeeps DEF ToolResult
<1>2. PICK calls : asked' = Updated(asked, a,
          [rules |-> Asked(a, "tool_result", tool, calls, "none"), turn |-> {}])
  BY DEF ToolResult
<1>3. /\ DOMAIN asked' = DOMAIN asked \cup {a} /\ asked'[a].turn = {}
      /\ asked'[a].rules = Asked(a, "tool_result", tool, calls, "none")
      /\ \A c \in DOMAIN asked : c # a => asked'[c] = asked[c]
  BY <1>2 DEF Updated
<1>4. RunningOK(RunningOf(a)) /\ UNCHANGED <<working, readable>>
  BY RunningOfOK DEF ToolResult, RulesInv
<1>5. asked'[a].rules \subseteq AllRules
  BY <1>3, <1>4, AskedAre
<1>6. HeardInv'
  BY <1>1, <1>3, <1>4, <1>5 DEF RulesInv, HeardInv
<1>7. AgentInv(a)'
  BY <1>1, <1>3 DEF AgentInv, TurnInv
<1>8. \A c \in Agents : c # a => SameOf(c)
  BY <1>1, <1>3 DEF SameOf
<1>9. ASSUME IdsApart PROVE OwnInv(a)'
  <2> SUFFICES ASSUME NEW r \in asked'[a].rules, Owner(a, r)' # NoBook
               PROVE  /\ ~RunningOf(a)'[Owner(a, r)'].paused
                      /\ RunningOf(a)'[Owner(a, r)'].worked
    BY DEF OwnInv
  <2>1. Owner(a, r)' = Owner(a, r)
    BY <1>1 DEF Owner
  <2>2. Owner(a, r) \in DOMAIN RunningOf(a) /\ ~RunningOf(a)[Owner(a, r)].paused
    BY <1>3, <1>4, <1>9, <2>1, AskedAwake
  <2>3. QED
    BY <1>1, <2>1, <2>2
<1>10. QED
  BY <1>1, <1>6, <1>7, <1>8, <1>9, OneAgentKeeps

LEMMA TurnEndKeeps ==
    ASSUME RulesInv, NEW a \in Agents, NEW todos, TurnEnd(a, todos)
    PROVE  RulesInv' /\ (IdsApart /\ HoldInv => HoldInv')
<1>1. /\ UNCHANGED <<sessions, heard, pokes, readable>> /\ working' = working \ {a}
      /\ said' = [said EXCEPT ![a] = {}]
      /\ asked' = Updated(asked, a,
             [rules |-> Asked(a, "turn_end", "none", history[a], todos), turn |-> TurnBooks(a)])
  BY DEF TurnEnd, bookVars
<1>2. SessionsInv' /\ \A c : RunningOf(c)' = RunningOf(c)
  BY <1>1, SessionsSame DEF RulesInv
<1>3. /\ DOMAIN asked' = DOMAIN asked \cup {a} /\ asked'[a].turn = TurnBooks(a)
      /\ asked'[a].rules = Asked(a, "turn_end", "none", history[a], todos)
      /\ \A c \in DOMAIN asked : c # a => asked'[c] = asked[c]
  BY <1>1 DEF Updated
<1>4. RunningOK(RunningOf(a)) /\ HeardInv /\ AgentInv(a)
  BY RunningOfOK DEF RulesInv
<1>5. asked'[a].rules \subseteq AllRules
  BY <1>3, <1>4, AskedAre
<1>6. HeardInv'
  BY <1>1, <1>3, <1>4, <1>5 DEF HeardInv
<1>7. AgentInv(a)'
  <2>1. TurnInv(a)'
    BY <1>2, <1>3, <1>4 DEF TurnInv, TurnBooks, ChecksTurn, RunningOK
  <2>2. VoiceInv(a)'
    BY <1>1, <1>4 DEF VoiceInv, HeardInv
  <2>3. BudgetInv(a)'
    BY <1>1, <1>2, <1>4 DEF AgentInv, BudgetInv
  <2>4. QED
    BY <2>1, <2>2, <2>3 DEF AgentInv
<1>8. \A c \in Agents : c # a => SameOf(c)
  BY <1>1, <1>2, <1>3, <1>4 DEF SameOf, HeardInv
<1>9. ASSUME IdsApart PROVE OwnInv(a)'
  <2> SUFFICES ASSUME NEW r \in asked'[a].rules, Owner(a, r)' # NoBook
               PROVE  /\ ~RunningOf(a)'[Owner(a, r)'].paused
                      /\ RunningOf(a)'[Owner(a, r)'].worked
    BY DEF OwnInv
  <2>1. Owner(a, r)' = Owner(a, r)
    <3>1. RunningOf(a)' = RunningOf(a)
      BY <1>2
    <3>2. QED
      BY <3>1 DEF Owner
  <2>2. /\ ~RunningOf(a)[Owner(a, r)].paused
        /\ RunningOf(a)[Owner(a, r)].worked
    BY <1>3, <1>4, <1>9, <2>1, AskedAwake
  <2>3. QED
    BY <1>2, <2>1, <2>2
<1>10. HoldInv => IdleInv(a)'
  BY <1>1, <1>2 DEF HoldInv, IdleInv
<1>11. QED
  BY <1>2, <1>6, <1>7, <1>8, <1>9, <1>10, OneAgentKeeps

\* A command answers with one context.
LEMMA AnswerIs ==
    ASSUME RulesInv, NEW a \in Agents, NEW b \in Books \cup {NoBook},
           NEW kind \in {"start", "answer"}, NEW delivery \in {"resume", "wait"},
           Answer(a, b, kind, delivery), Command(a)
    PROVE  /\ said' \in [Agents -> SUBSET Context] /\ working' \in SUBSET Agents
           /\ VoiceInv(a)' /\ TurnInv(a)' /\ OwnInv(a)'
           /\ \A c \in Agents : c # a => said'[c] = said[c]
           /\ UNCHANGED <<asked, readable>> /\ a \notin DOMAIN asked
<1>1. HeardInv
  BY DEF RulesInv
<1>2. NoBook \in Seq(STRING)
  BY DEF NoBook
<1>3. Voice(b, NoBook, kind, delivery, FALSE) \in Context
  BY <1>2 DEF Voice, Context
<1>4. /\ said' = [said EXCEPT ![a] = {Voice(b, NoBook, kind, delivery, FALSE)}]
      /\ working' \in {working, working \cup {a}}
      /\ UNCHANGED <<asked, readable>> /\ a \notin DOMAIN asked
  BY DEF Answer, Command, Ready
<1>5. said' \in [Agents -> SUBSET Context] /\ working' \in SUBSET Agents
  BY <1>1, <1>3, <1>4 DEF HeardInv
<1>6. VoiceInv(a)' /\ \A c \in Agents : c # a => said'[c] = said[c]
  BY <1>1, <1>4 DEF HeardInv, VoiceInv
<1>7. TurnInv(a)' /\ OwnInv(a)'
  BY <1>4 DEF TurnInv, OwnInv
<1>8. QED
  BY <1>4, <1>5, <1>6, <1>7

LEMMA StartBookKeeps ==
    ASSUME RulesInv, NEW a \in Agents, NEW b \in Books, NEW args, StartBook(a, b, args)
    PROVE  RulesInv' /\ (HoldInv => HoldInv')
<1>1. HeardInv /\ AgentInv(a) /\ SessionsInv /\ Command(a)
  BY DEF RulesInv, StartBook
<1>2. CASE StartRefused(a, b, args)
  <2>1. Answer(a, NoBook, "answer", "wait") /\ UNCHANGED <<sessions, heard, pokes>>
    BY <1>2 DEF StartBook, bookVars
  <2>2. /\ said' \in [Agents -> SUBSET Context] /\ working' \in SUBSET Agents
        /\ VoiceInv(a)' /\ TurnInv(a)' /\ OwnInv(a)'
        /\ \A c \in Agents : c # a => said'[c] = said[c]
        /\ UNCHANGED <<asked, readable>> /\ a \notin DOMAIN asked
    BY <1>1, <2>1, AnswerIs
  <2>3. SessionsInv' /\ \A c : RunningOf(c)' = RunningOf(c)
    BY <1>1, <2>1, SessionsSame
  <2>4. HeardInv'
    BY <1>1, <2>1, <2>2 DEF HeardInv
  <2>5. BudgetInv(a)' /\ (HoldInv => IdleInv(a)')
    BY <1>1, <2>1, <2>3 DEF AgentInv, BudgetInv, HoldInv, IdleInv
  <2>6. AgentInv(a)'
    BY <2>2, <2>5 DEF AgentInv
  <2>7. \A c \in Agents : c # a => SameOf(c)
    BY <2>1, <2>2, <2>3 DEF SameOf
  <2>8. QED
    BY <2>2, <2>3, <2>4, <2>5, <2>6, <2>7, OneAgentKeeps
<1>3. CASE ~StartRefused(a, b, args)
  <2>1. PICK kept :
          /\ kept = IF a \notin DOMAIN sessions /\ Cardinality(DOMAIN sessions) >= MaxSessions
                    THEN << >> ELSE sessions
          /\ sessions' = Updated(kept, a, Updated(RunningOf(a), b, Fresh))
    BY <1>3 DEF StartBook
  <2>2. /\ heard' = [heard EXCEPT ![a][b] = 0] /\ pokes' = [pokes EXCEPT ![a][b] = 0]
        /\ Answer(a, b, "start", "resume")
    BY <1>3 DEF StartBook
  <2>3. /\ said' \in [Agents -> SUBSET Context] /\ working' \in SUBSET Agents
        /\ VoiceInv(a)' /\ TurnInv(a)' /\ OwnInv(a)'
        /\ \A c \in Agents : c # a => said'[c] = said[c]
        /\ UNCHANGED <<asked, readable>> /\ a \notin DOMAIN asked
    BY <1>1, <2>2, AnswerIs
  <2>4. ~(Cardinality(DOMAIN RunningOf(a) \ {b}) >= MaxRunning)
    BY <1>3 DEF StartRefused
  <2>5. /\ SessionsInv' /\ RunningOf(a)' = Updated(RunningOf(a), b, Fresh)
        /\ \A c : c # a => RunningOf(c)' \in {RunningOf(c), << >>}
    BY <1>1, <2>1, <2>4, StartedIs
  <2>6. /\ heard' \in [Agents -> [Books -> Nat]] /\ pokes' \in [Agents -> [Books -> Nat]]
        /\ heard'[a][b] = 0 /\ pokes'[a][b] = 0
        /\ \A x \in Books : x # b => heard'[a][x] = heard[a][x] /\ pokes'[a][x] = pokes[a][x]
        /\ \A c \in Agents : c # a => heard'[c] = heard[c] /\ pokes'[c] = pokes[c]
    BY <1>1, <2>2 DEF HeardInv
  <2>7. HeardInv'
    BY <1>1, <2>3, <2>6 DEF HeardInv
  <2>8. /\ DOMAIN RunningOf(a)' = DOMAIN RunningOf(a) \cup {b}
        /\ RunningOf(a)'[b] = Fresh
        /\ \A x \in DOMAIN RunningOf(a) : x # b => RunningOf(a)'[x] = RunningOf(a)[x]
    BY <2>5 DEF Updated
  <2>9. BudgetInv(a)'
    <3> SUFFICES ASSUME NEW x \in Books
                 PROVE  /\ heard'[a][x] <= Shelf[x].budget
                        /\ x \in DOMAIN RunningOf(a)' => heard'[a][x] <= RunningOf(a)'[x].deliveries
      BY DEF BudgetInv
    <3>1. CASE x = b
      BY <2>6, <2>8, <3>1, RulesConstants DEF Fresh
    <3>2. CASE x # b
      BY <1>1, <2>6, <2>8, <3>2 DEF AgentInv, BudgetInv
    <3>3. QED
      BY <3>1, <3>2
  <2>10. HoldInv => IdleInv(a)'
    BY <2>6, <2>8 DEF HoldInv, IdleInv
  <2>11. AgentInv(a)'
    BY <2>3, <2>9 DEF AgentInv
  <2>12. \A c \in Agents : c # a => SameOf(c)
    BY <2>3, <2>5, <2>6 DEF SameOf
  <2>13. QED
    BY <2>3, <2>5, <2>7, <2>10, <2>11, <2>12, OneAgentKeeps
<1>4. QED
  BY <1>2, <1>3

\* The user pauses, resumes or clears a book: the session's other books stay,
\* and no book gains.
LEMMA BookCommandKeeps ==
    ASSUME RulesInv, NEW a \in DOMAIN sessions, Command(a), NEW books, RunningOK(books),
           sessions' = [sessions EXCEPT ![a] = books], UNCHANGED heard,
           DOMAIN books \subseteq DOMAIN RunningOf(a),
           \A x \in DOMAIN books : books[x].deliveries = RunningOf(a)[x].deliveries,
           \/ UNCHANGED pokes /\ \A x \in DOMAIN books : books[x].worked => RunningOf(a)[x].worked
           \/ \E b \in DOMAIN RunningOf(a) :
                 /\ pokes' = [pokes EXCEPT ![a][b] = 0]
                 /\ \A x \in DOMAIN books : x # b /\ books[x].worked => RunningOf(a)[x].worked,
           NEW b \in Books, NEW kind \in {"start", "answer"}, NEW delivery \in {"resume", "wait"},
           Answer(a, b, kind, delivery)
    PROVE  RulesInv' /\ (HoldInv => HoldInv')
<1>1. HeardInv /\ a \in Agents /\ AgentInv(a) /\ SessionsInv /\ RunningOK(RunningOf(a))
  BY RunningOfOK DEF RulesInv, SessionsInv
<1>2. /\ said' \in [Agents -> SUBSET Context] /\ working' \in SUBSET Agents
      /\ VoiceInv(a)' /\ TurnInv(a)' /\ OwnInv(a)'
      /\ \A c \in Agents : c # a => said'[c] = said[c]
      /\ UNCHANGED <<asked, readable>> /\ a \notin DOMAIN asked
  BY <1>1, AnswerIs
<1>3. /\ SessionsInv' /\ RunningOf(a)' = books
      /\ \A c : c # a => RunningOf(c)' = RunningOf(c)
  BY <1>1, BooksReplaced
<1>4. /\ pokes' \in [Agents -> [Books -> Nat]]
      /\ \A c \in Agents : c # a => pokes'[c] = pokes[c]
      /\ HoldInv => IdleInv(a)'
  <2>1. CASE UNCHANGED pokes /\ \A x \in DOMAIN books : books[x].worked => RunningOf(a)[x].worked
    BY <1>1, <1>3, <2>1 DEF HeardInv, HoldInv, IdleInv
  <2>2. ASSUME NEW y \in DOMAIN RunningOf(a), pokes' = [pokes EXCEPT ![a][y] = 0],
               \A x \in DOMAIN books : x # y /\ books[x].worked => RunningOf(a)[x].worked
        PROVE  /\ pokes' \in [Agents -> [Books -> Nat]]
               /\ \A c \in Agents : c # a => pokes'[c] = pokes[c]
               /\ HoldInv => IdleInv(a)'
    <3>1. y \in Books
      BY <1>1 DEF RunningOK
    <3>2. /\ pokes' \in [Agents -> [Books -> Nat]]
          /\ \A c \in Agents : c # a => pokes'[c] = pokes[c]
          /\ pokes'[a][y] = 0 /\ \A x \in Books : x # y => pokes'[a][x] = pokes[a][x]
      BY <1>1, <2>2, <3>1 DEF HeardInv
    <3>3. HoldInv => IdleInv(a)'
      BY <1>1, <1>3, <2>2, <3>2 DEF HoldInv, IdleInv
    <3>4. QED
      BY <3>2, <3>3
  <2>3. QED
    BY <2>1, <2>2
<1>5. HeardInv'
  BY <1>1, <1>2, <1>4 DEF HeardInv
<1>6. BudgetInv(a)'
  BY <1>1, <1>3 DEF AgentInv, BudgetInv
<1>7. AgentInv(a)'
  BY <1>2, <1>6 DEF AgentInv
<1>8. \A c \in Agents : c # a => SameOf(c)
  BY <1>2, <1>3, <1>4 DEF SameOf
<1>9. QED
  BY <1>1, <1>2, <1>3, <1>4, <1>5, <1>7, <1>8, OneAgentKeeps

LEMMA HasBooks ==
    ASSUME NEW a, NEW b \in DOMAIN RunningOf(a)
    PROVE  a \in DOMAIN sessions /\ RunningOf(a) = sessions[a]
BY DEF RunningOf

LEMMA PauseBookKeeps ==
    ASSUME RulesInv, NEW a \in Agents, NEW b \in Books, PauseBook(a, b)
    PROVE  RulesInv' /\ (HoldInv => HoldInv')
<1> PICK running : running = RunningOf(a)
  OBVIOUS
<1> DEFINE books == [running EXCEPT ![b].paused = TRUE]
<1>1. /\ b \in DOMAIN running /\ a \in DOMAIN sessions /\ running = sessions[a]
      /\ RunningOK(running) /\ Command(a) /\ UNCHANGED <<heard, pokes>>
      /\ Answer(a, b, "answer", "wait")
  BY RunningOfOK, HasBooks DEF PauseBook, RulesInv
<1>2. sessions' = [sessions EXCEPT ![a] = books]
  BY <1>1 DEF PauseBook
<1>3. \A x \in DOMAIN running : running[x] \in RunningBook
  BY <1>1 DEF RunningOK
<1>4. /\ books \in [DOMAIN running -> RunningBook] /\ DOMAIN books = DOMAIN running
      /\ \A x \in DOMAIN books : books[x].deliveries = running[x].deliveries
      /\ \A x \in DOMAIN books : books[x].worked => running[x].worked
  BY <1>1, <1>3 DEF RunningBook, RunningOK
<1>5. RunningOK(books)
  BY <1>1, <1>4 DEF RunningOK
<1> HIDE DEF books
<1>6. QED
  BY <1>1, <1>2, <1>4, <1>5, BookCommandKeeps

LEMMA ResumeBookKeeps ==
    ASSUME RulesInv, NEW a \in Agents, NEW b \in Books, ResumeBook(a, b)
    PROVE  RulesInv' /\ (HoldInv => HoldInv')
<1> PICK running : running = RunningOf(a)
  OBVIOUS
<1> DEFINE books == [running EXCEPT ![b].paused = FALSE, ![b].worked = TRUE]
<1>1. /\ b \in DOMAIN running /\ a \in DOMAIN sessions /\ running = sessions[a]
      /\ RunningOK(running) /\ Command(a) /\ UNCHANGED heard
      /\ Answer(a, b, "start", "resume") /\ pokes' = [pokes EXCEPT ![a][b] = 0]
  BY RunningOfOK, HasBooks DEF ResumeBook, RulesInv
<1>2. sessions' = [sessions EXCEPT ![a] = books]
  BY <1>1 DEF ResumeBook
<1>3. \A x \in DOMAIN running : running[x] \in RunningBook
  BY <1>1 DEF RunningOK
<1>4. /\ books \in [DOMAIN running -> RunningBook] /\ DOMAIN books = DOMAIN running
      /\ \A x \in DOMAIN books : books[x].deliveries = running[x].deliveries
      /\ \A x \in DOMAIN books : x # b /\ books[x].worked => running[x].worked
  BY <1>1, <1>3 DEF RunningBook, RunningOK
<1>5. RunningOK(books)
  BY <1>1, <1>4 DEF RunningOK
<1> HIDE DEF books
<1>6. QED
  BY <1>1, <1>2, <1>4, <1>5, BookCommandKeeps

LEMMA ClearBookKeeps ==
    ASSUME RulesInv, NEW a \in Agents, NEW b \in Books, ClearBook(a, b)
    PROVE  RulesInv' /\ (HoldInv => HoldInv')
<1> PICK running : running = RunningOf(a)
  OBVIOUS
<1> DEFINE books == [c \in DOMAIN running \ {b} |-> running[c]]
<1>1. /\ b \in DOMAIN running /\ a \in DOMAIN sessions /\ running = sessions[a]
      /\ RunningOK(running) /\ Command(a) /\ UNCHANGED <<heard, pokes>>
      /\ Answer(a, b, "answer", "wait")
  BY RunningOfOK, HasBooks DEF ClearBook, RulesInv
<1>2. sessions' = [sessions EXCEPT ![a] = books]
  BY <1>1 DEF ClearBook
<1>3. /\ DOMAIN books = DOMAIN running \ {b}
      /\ \A x \in DOMAIN books : books[x] = running[x]
      /\ books \in [DOMAIN books -> RunningBook]
  BY <1>1 DEF RunningOK
<1>4. /\ IsFiniteSet(DOMAIN books) /\ Cardinality(DOMAIN books) <= Cardinality(DOMAIN running)
      /\ Cardinality(DOMAIN books) \in Nat /\ Cardinality(DOMAIN running) \in Nat
      /\ Cardinality(DOMAIN running) <= MaxRunning
  BY <1>1, <1>3, FS_Subset, FS_CardinalityType DEF RunningOK
<1> HIDE DEF books
<1>5. RunningOK(books)
  BY <1>1, <1>3, <1>4, RulesConstants DEF RunningOK
<1>6. QED
  BY <1>1, <1>2, <1>3, <1>5, BookCommandKeeps

\* Every step keeps what is always so, and with ids apart what holds books back.
LEMMA RulesStep ==
    ASSUME RulesInv, [RulesNext]_rulesVars
    PROVE  RulesInv' /\ (IdsApart /\ HoldInv => HoldInv')
<1>0. HeardInv /\ working \in SUBSET Agents /\ readable \in BOOLEAN
  BY DEF RulesInv, HeardInv
<1>1. CASE UNCHANGED rulesVars
  BY <1>0, <1>1, QuietKeeps DEF rulesVars, bookVars, signalVars
<1>2. ASSUME NEW a \in Agents, UserMessage(a)
      PROVE  RulesInv' /\ (IdsApart /\ HoldInv => HoldInv')
  BY <1>2, UserMessageKeeps
<1>3. ASSUME NEW a \in Agents, NEW tool \in Tools, ToolResult(a, tool)
      PROVE  RulesInv' /\ (IdsApart /\ HoldInv => HoldInv')
  BY <1>3, ToolResultKeeps
<1>4. ASSUME NEW a \in Agents, NEW todos \in Todos, TurnEnd(a, todos)
      PROVE  RulesInv' /\ (IdsApart /\ HoldInv => HoldInv')
  BY <1>4, TurnEndKeeps
<1>5. ASSUME NEW a \in Agents, NEW b \in Books,
             \/ \E args \in BOOLEAN : StartBook(a, b, args)
             \/ PauseBook(a, b) \/ ResumeBook(a, b) \/ ClearBook(a, b)
      PROVE  RulesInv' /\ (IdsApart /\ HoldInv => HoldInv')
  BY <1>5, StartBookKeeps, PauseBookKeeps, ResumeBookKeeps, ClearBookKeeps
<1>6. ASSUME NEW a \in Agents, NEW held, NEW arrives, Act(a, held, arrives)
      PROVE  RulesInv' /\ (IdsApart /\ HoldInv => HoldInv')
  BY <1>6, ActKeeps, ActHolds
<1>7. ASSUME NEW a \in Agents, Abandon(a)
      PROVE  RulesInv' /\ (IdsApart /\ HoldInv => HoldInv')
  <2>1. /\ DOMAIN asked' \subseteq DOMAIN asked
        /\ \A c \in DOMAIN asked' : asked'[c] = asked[c]
    BY <1>7, AskedNo
  <2>2. UNCHANGED <<sessions, heard, pokes, said, working, readable>>
    BY <1>7 DEF Abandon, bookVars
  <2>3. QED
    BY <1>0, <2>1, <2>2, QuietKeeps
<1>8. CASE EditProject \/ RulesTick
  <2>1. /\ UNCHANGED <<sessions, heard, pokes, said, asked, working>>
        /\ readable' \in BOOLEAN
    BY <1>0, <1>8 DEF EditProject, RulesTick, bookVars, signalVars
  <2>2. QED
    BY <1>0, <2>1, QuietKeeps
<1>9. QED
  BY <1>1, <1>2, <1>3, <1>4, <1>5, <1>6, <1>7, <1>8 DEF RulesNext

LEMMA RulesTyped ==
    ASSUME RulesInv
    PROVE  RulesTypeOK
<1>1. /\ DOMAIN sessions \subseteq Agents /\ Cardinality(DOMAIN sessions) <= MaxSessions
      /\ \A a \in DOMAIN sessions :
            /\ sessions[a] \in [DOMAIN sessions[a] -> RunningBook]
            /\ DOMAIN sessions[a] \subseteq Books
            /\ Cardinality(DOMAIN sessions[a]) <= MaxRunning
  BY DEF RulesInv, SessionsInv, RunningOK
<1>2. \A a \in Agents : /\ \A c \in said[a] : c \in Context
                        /\ a \in DOMAIN asked => asked[a].turn \subseteq Books
  BY DEF RulesInv, HeardInv, AgentInv, TurnInv
<1>3. working \subseteq Agents /\ readable \in BOOLEAN
  BY DEF RulesInv, HeardInv
<1>4. QED
  BY <1>1, <1>2, <1>3 DEF RulesTypeOK

\* A running book delivers one context for a signal, and a start of it no more
\* than its budget: `Rules::act` takes one rule of each book, and
\* `Books::deliver` counts what the budget is compared with.
THEOREM BudgetsHold == RulesSpec => [](RulesTypeOK /\ OneVoice /\ WithinBudget)
<1>1. RulesInit => RulesInv
  BY RulesInitKeeps
<1>2. RulesInv /\ [RulesNext]_rulesVars => RulesInv'
  BY RulesStep
<1>3. RulesInv => RulesTypeOK /\ OneVoice /\ WithinBudget
  BY RulesTyped DEF RulesInv, AgentInv, VoiceInv, BudgetInv, OneVoice, WithinBudget
<1>4. QED
  BY <1>1, <1>2, <1>3, PTL DEF RulesSpec

\* With ids apart, a book moreover wakes an agent no second time before it
\* worked: `worked` is taken back when a book resumes it, and its turn-end
\* rules wait for it.
THEOREM BooksHoldBack ==
    ASSUME IdsApart
    PROVE  RulesSpec => []BooksRestrained
<1>1. RulesInit => RulesInv /\ HoldInv
  BY RulesInitKeeps
<1>2. RulesInv /\ HoldInv /\ [RulesNext]_rulesVars => RulesInv' /\ HoldInv'
  BY RulesStep
<1>3. RulesInv /\ HoldInv => BooksRestrained
  <2>1. RulesInv => RulesTypeOK
    BY RulesTyped
  <2>2. RulesInv => OneVoice /\ WithinBudget
    BY DEF RulesInv, AgentInv, VoiceInv, BudgetInv, OneVoice, WithinBudget
  <2>3. HoldInv => NoIdleWaking
    BY DEF HoldInv, IdleInv, NoIdleWaking
  <2>4. QED
    BY <2>1, <2>2, <2>3 DEF BooksRestrained
<1>4. QED
  BY <1>1, <1>2, <1>3, PTL DEF RulesSpec

\* An agent whose signal is judged hears nothing but what the judgment's act
\* says.
LEMMA OnlyActSpeaks ==
    ASSUME RulesInv, [RulesNext]_rulesVars, NEW a \in Agents, a \in DOMAIN asked,
           said'[a] # said[a]
    PROVE  \E held, arrives : Act(a, held, arrives)
<1>1. said \in [Agents -> SUBSET Context]
  BY DEF RulesInv, HeardInv
<1>2. ASSUME NEW c \in Agents, c \notin DOMAIN asked, NEW new, said' = [said EXCEPT ![c] = new]
      PROVE  FALSE
  BY <1>1, <1>2
<1>3. ~UNCHANGED said
  OBVIOUS
<1>4. ASSUME NEW c \in Agents, UserMessage(c) PROVE FALSE
  BY <1>2, <1>4 DEF UserMessage, Ready
<1>5. ASSUME NEW c \in Agents, NEW tool, ToolResult(c, tool) PROVE FALSE
  BY <1>2, <1>5 DEF ToolResult, Ready
<1>6. ASSUME NEW c \in Agents, NEW todos, TurnEnd(c, todos) PROVE FALSE
  BY <1>2, <1>6 DEF TurnEnd, Ready
<1>7. ASSUME NEW c \in Agents, NEW b, NEW kind, NEW delivery,
             Command(c), Answer(c, b, kind, delivery)
      PROVE  FALSE
  BY <1>2, <1>7 DEF Command, Answer, Ready
<1>8. ASSUME NEW c \in Agents, NEW b \in Books,
             \/ \E args \in BOOLEAN : StartBook(c, b, args)
             \/ PauseBook(c, b) \/ ResumeBook(c, b) \/ ClearBook(c, b)
      PROVE  FALSE
  BY <1>7, <1>8 DEF StartBook, PauseBook, ResumeBook, ClearBook
<1>9. ASSUME NEW c \in Agents, Abandon(c) PROVE FALSE
  BY <1>3, <1>9 DEF Abandon
<1>10. ~EditProject /\ ~RulesTick
  BY <1>3 DEF EditProject, RulesTick, signalVars
<1>11. ASSUME NEW c \in Agents, NEW held, NEW arrives, Act(c, held, arrives) PROVE c = a
  <2>1. PICK new : said' = [said EXCEPT ![c] = new]
    BY <1>11 DEF Act
  <2>2. QED
    BY <1>1, <2>1
<1>12. ~UNCHANGED rulesVars
  BY <1>3 DEF rulesVars, signalVars
<1>13. QED
  BY <1>4, <1>5, <1>6, <1>8, <1>9, <1>10, <1>11, <1>12 DEF RulesNext

\* A book that a turn end asked says something when the end is acted on.
LEMMA TurnIsAnswered ==
    ASSUME RulesInv, NEW a \in Agents, NEW held, NEW arrives, Act(a, held, arrives),
           NEW b \in asked[a].turn \cap DOMAIN RunningOf(a), Shelf[b].otherwise
    PROVE  b \in Speaking(said'[a])
<1> PICK chosen, contexts :
        chosen = Chosen(a, held) /\ contexts = Contexts(a, held, chosen, asked[a].turn)
  OBVIOUS
<1>1. said'[a] = contexts
  BY ActIs DEF RulesInv, HeardInv
<1>2. b \in Books /\ b # NoBook /\ ~RunningOf(a)[b].paused
  <2>1. RunningOK(RunningOf(a)) /\ TurnInv(a) /\ a \in DOMAIN asked
    BY RunningOfOK DEF Act, RulesInv, AgentInv
  <2>2. QED
    BY <2>1, RulesConstants DEF RunningOK, TurnInv
<1>3. ASSUME NEW r \in chosen, Owner(a, r) = b PROVE \E c \in contexts : c.book = b
  <2> DEFINE c == IF b # NoBook /\ Spent(a, b)
                  THEN Voice(b, NoBook, "budget", "resume", Holding(a, held, b))
                  ELSE Voice(b, r.id, "rule", r.delivery, TRUE)
  <2>1. c \in contexts
    BY <1>3 DEF Contexts
  <2>2. c.book = b
    BY DEF Voice
  <2>3. QED
    BY <2>1, <2>2
<1>4. CASE b \in Quiet(a, chosen, asked[a].turn) /\ Spent(a, b)
  <2>1. Voice(b, NoBook, "budget", "resume", Holding(a, held, b)) \in contexts
    BY <1>4 DEF Contexts
  <2>2. QED
    BY <1>1, <1>2, <2>1 DEF Speaking, Voice
<1>5. CASE b \in Quiet(a, chosen, asked[a].turn) /\ ~Spent(a, b)
  <2>1. Voice(b, NoBook, "otherwise", "resume", Holding(a, held, b)) \in contexts
    BY <1>2, <1>5 DEF Contexts
  <2>2. QED
    BY <1>1, <1>2, <2>1 DEF Speaking, Voice
<1>6. CASE b \notin Quiet(a, chosen, asked[a].turn)
  <2>1. \E c \in contexts : c.book = b
    BY <1>3, <1>6 DEF Quiet
  <2>2. QED
    BY <1>1, <1>2, <2>1 DEF Speaking
<1>7. QED
  BY <1>4, <1>5, <1>6

\* With ids apart, a book that is paused or over is silent, and one that a
\* turn end asked is not: what `Books::turn_books` keeps for `Rules::act`.
THEOREM BooksAnswer ==
    ASSUME IdsApart
    PROVE  RulesSpec => BooksSpeak
<1>1. RulesInit => RulesInv /\ HoldInv
  BY RulesInitKeeps
<1>2. RulesInv /\ HoldInv /\ [RulesNext]_rulesVars => RulesInv' /\ HoldInv'
  BY RulesStep
<1>3. RulesInv /\ HoldInv /\ [RulesNext]_rulesVars =>
          \A a \in Agents : PausedSilent(a) /\ KeepsGoing(a)
  <2> SUFFICES ASSUME RulesInv, HoldInv, [RulesNext]_rulesVars, NEW a \in Agents
               PROVE  PausedSilent(a) /\ KeepsGoing(a)
    OBVIOUS
  <2>1. PausedSilent(a)
    <3> SUFFICES ASSUME a \in DOMAIN asked, said'[a] # said[a], NEW b \in Speaking(said'[a])
                 PROVE  b \in DOMAIN RunningOf(a) /\ ~RunningOf(a)[b].paused
      BY DEF PausedSilent
    <3>1. PICK held, arrives : Act(a, held, arrives)
      BY OnlyActSpeaks
    <3>2. said'[a] = Contexts(a, held, Chosen(a, held), asked[a].turn)
      BY <3>1, ActIs DEF RulesInv, HeardInv
    <3>3. PICK c \in Contexts(a, held, Chosen(a, held), asked[a].turn) :
              c.book = b /\ c.book # NoBook
      BY <3>2 DEF Speaking
    <3>4. QED
      BY <3>1, <3>3, SpeaksAwake
  <2>2. KeepsGoing(a)
    BY TurnIsAnswered DEF KeepsGoing
  <2>3. QED
    BY <2>1, <2>2
<1>4. QED
  BY <1>1, <1>2, <1>3, PTL DEF RulesSpec, BooksSpeak
=============================================================================
