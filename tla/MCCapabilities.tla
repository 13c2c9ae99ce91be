--------------------------- MODULE MCCapabilities ---------------------------
(* Capabilities, the daemon's skill worker, and what plugins do by themselves, *)
(* each in scopes of its own.                                                *)
EXTENDS Rules, SkillSources, Approval, Monitors, Exposure, Startup,
        Renewal

CONSTANTS a1, a2, w1, w2, s1, u1, u2, n1, n2, none,
          Scopes   \* what this run looks at

VARIABLE scope

vars == <<rulesVars, skillVars, approvalVars, monitorVars, exposureVars,
          startupVars, renewalVars, scope>>

-----------------------------------------------------------------------------
(* Rules: a book of four rules, a smaller one beside it whose id is longer,  *)
(* a rule of our own and two of the project's, one of which reuses its id.   *)

Plain ==
    [id |-> <<"plain">>, on |-> "turn_end", tools |-> {}, called |-> {},
     todos |-> {}, window |-> "turn", once |-> FALSE, cooldown |-> 0,
     steps |-> 1, reviewed |-> FALSE, holds_on |-> "none", priority |-> 3,
     place |-> 0, delivery |-> "wait", end |-> "none"]

Goal ==
    {[Plain EXCEPT !.id = <<"goal", "done">>, !.todos = {"none", "done"},
                   !.reviewed = TRUE, !.holds_on = "complete",
                   !.end = "complete"],
     [Plain EXCEPT !.id = <<"goal", "blocked">>, !.priority = 2,
                   !.end = "pause"]}

Ticket ==
    {[Plain EXCEPT !.id = <<"goal", "ticket", "steer">>, !.priority = 0,
                   !.on = "tool_result", !.tools = {"t"}, !.called = {"t"},
                   !.delivery = "steer"],
     [Plain EXCEPT !.id = <<"goal", "ticket", "on">>, !.priority = 2,
                   !.place = 1, !.window = "session", !.delivery = "resume"]}

TwoBooks ==
    <<"goal">> :> [budget |-> 2, otherwise |-> TRUE, needs_args |-> TRUE,
                   rules |-> Goal]
 @@ <<"goal", "ticket">> :> [budget |-> 1, otherwise |-> FALSE,
                             needs_args |-> FALSE, rules |-> Ticket]

OwnRules == {[Plain EXCEPT !.steps = 2, !.cooldown = 1]}
ProjectRules == {[Plain EXCEPT !.id = <<"own">>, !.place = 2, !.once = TRUE],
                 [Plain EXCEPT !.priority = 9]}

-----------------------------------------------------------------------------
(* Skills: with versions that change and are accepted and records that       *)
(* cannot be written, or with sources that are edited and reviews that die.  *)

OneSlot == <<s1>>

Within(changes, configs, accepts, crashes, deaths) ==
    /\ bounds.changes <= changes /\ bounds.configs <= configs
    /\ bounds.accepts <= accepts /\ bounds.crashes <= crashes
    /\ bounds.deaths <= deaths

-----------------------------------------------------------------------------
(* Approval: one skill, two side by side of which one is not all text, two    *)
(* without a common folder of which one has no commit, one that is a whole    *)
(* repository, and two of different repositories; all but those are named r.  *)

Repo == <<"o", "r">>
Other == <<"p", "r">>
FolderA == <<"s", "a">>
FolderB == <<"s", "b">>

Skill(key, dir, asks, files) ==
    [key |-> key, dir |-> dir, asks |-> asks, sound |-> TRUE, commit |-> TRUE,
     main |-> 1, files |-> files]

File(size, runs, text) == [size |-> size, listed |-> 1, runs |-> runs, text |-> text]

FiveSelections ==
    "one"   :> <<Skill(Repo, FolderA, {}, <<File(1, TRUE, TRUE)>>)>>
 @@ "two"   :> <<Skill(Repo, FolderA, {"root"}, << >>),
                 Skill(Repo, FolderB, {}, <<File(1, FALSE, FALSE), File(2, TRUE, TRUE)>>)>>
 @@ "apart" :> <<Skill(Repo, <<"s">>, {}, << >>),
                 [Skill(Repo, <<"t">>, {}, << >>) EXCEPT !.commit = FALSE]>>
 @@ "all"   :> <<Skill(Other, << >>, {}, << >>)>>
 @@ "mixed" :> <<Skill(Repo, FolderA, {}, << >>), Skill(Other, FolderA, {}, << >>)>>

GitSource(id, key, paths) == [id |-> id, kind |-> "git", key |-> key, paths |-> paths]

ThreeFiles ==
    {<< >>,
     <<GitSource(<<"r">>, Repo, {FolderA, <<"t">>})>>,
     <<[GitSource(<<"r">>, Other, {}) EXCEPT !.kind = "http"], GitSource(<<"p", "r">>, Repo, {FolderB})>>}

OwnSource == {GitSource(<<"own">>, Repo, {<<"t">>})}

SixFolders == {<< >>, <<"s">>, <<"t">>, FolderA, FolderB, <<"t", "a">>}

TwoConsents == {[allow |-> {}, risk |-> FALSE, unvetted |-> TRUE],
                [allow |-> {"root"}, risk |-> TRUE, unvetted |-> FALSE]}

-----------------------------------------------------------------------------
(* Exposure: two tools of one group, one that is always shown and one that    *)
(* never is, and a parent that hides a tool of the group.                     *)

FourTools == "skill" :> "host" @@ "mcp_a" :> "mcp" @@ "mcp_b" :> "mcp"
               @@ "never" :> "never"
HiddenByParents == {{"mcp_a", "never"}}

-----------------------------------------------------------------------------
(* Startup: plugins of two releases; one signal, one new session, or one thing  *)
(* that goes wrong.                                                          *)

OldAndNew == a1 :> 1 @@ a2 :> 2
OneToken == [p \in Plugins |-> "t"]

OneThing ==
    faults.late + faults.lost + faults.crashes + faults.restarts
        + plugins[a1].sent + plugins[a2].sent <= 1

-----------------------------------------------------------------------------
(* Renewal: of one long session, warmed twice at most.  In one scope another  *)
(* session ends a turn beside it, and no prompt comes.                        *)

ReadsPayTwice == [read |-> 1, write |-> 4, input |-> 2]

Warming ==
    /\ \A s \in Sessions : resumes[s] = NoneYet /\ compactions[s] = NoneYet
    /\ memo.trials = 0 /\ exhausted = {} /\ contexts[a2].turns <= 1

-----------------------------------------------------------------------------

Init ==
    /\ scope \in Scopes
    /\ RulesInit /\ SkillInit /\ ApprovalInit /\ MonitorsInit /\ ExposureInit
    /\ StartupInit /\ RenewalInit
    /\ scope \notin {"versions", "sources"} =>
         sources = [s \in Slots |-> u1] /\ disk[s1].listing = NoListing
    /\ scope # "approval" => followed.sources = << >>
    /\ scope # "exposure" => inherits = Unknown

Next ==
    /\ UNCHANGED scope
    /\ \/ /\ scope = "rules" /\ RulesNext
          /\ UNCHANGED <<skillVars, approvalVars, monitorVars, exposureVars,
                         startupVars, renewalVars>>
       \/ /\ scope \in {"versions", "sources"} /\ SkillNext
          /\ scope = "versions" =>
               Within(2, 0, 1, 1, 0)' /\ lost' + bounds'.changes <= 2
          /\ scope = "sources" => Within(1, 1, 0, 1, 1)' /\ lost' = 0
          /\ UNCHANGED <<rulesVars, approvalVars, monitorVars, exposureVars,
                         startupVars, renewalVars>>
       \/ /\ scope = "approval" /\ ApprovalNext
          /\ UNCHANGED <<rulesVars, skillVars, monitorVars, exposureVars,
                         startupVars, renewalVars>>
       \/ /\ scope \in {"monitors", "gate"} /\ MonitorsNext
          /\ scope = "monitors" => spent'.events = 0
          /\ scope = "gate" => spent'.calls = 0 /\ spent'.meddling = 0
          /\ UNCHANGED <<rulesVars, skillVars, approvalVars, exposureVars,
                         startupVars, renewalVars>>
       \/ /\ scope = "exposure" /\ ExposureNext
          /\ UNCHANGED <<rulesVars, skillVars, approvalVars, monitorVars,
                         startupVars, renewalVars>>
       \/ /\ scope = "startup" /\ StartupNext /\ OneThing'
          /\ UNCHANGED <<rulesVars, skillVars, approvalVars, monitorVars,
                         exposureVars, renewalVars>>
       \/ /\ scope = "warming" /\ RenewalNext /\ Warming'
          /\ UNCHANGED <<rulesVars, skillVars, approvalVars, monitorVars,
                         exposureVars, startupVars>>
       \/ /\ scope = "renewal" /\ RenewalNext /\ contexts'[a2].turns = 0
          /\ compactions'[a2] = NoneYet
          /\ UNCHANGED <<rulesVars, skillVars, approvalVars, monitorVars,
                         exposureVars, startupVars>>

Spec == Init /\ [][Next]_vars
=============================================================================
