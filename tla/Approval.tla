------------------------------ MODULE Approval ------------------------------
(* `chauffeur skill approve`: what Skilld knows of the selected skills       *)
(* (skilld.rs), their review by the daemon's judges (discover.rs, review.rs, *)
(* skill-review), and the change to skill-sources.json (approve.rs,          *)
(* model.rs).                                                                *)
(*                                                                           *)
(* Each run of the command is a process.  It reads the file first and writes *)
(* it last; the user and other runs go on in between.  A repository is an    *)
(* owner and a name, a folder the sequence of its parts, `.` the empty one.  *)
EXTENDS Integers, FiniteSets, Sequences

CONSTANTS
    Approvers,      \* runs of the command
    Selectors,      \* what they may name
    Registry,       \* the skills Skilld lists of each selector, in order
    Consents,       \* what the user may allow: behaviors, risk, no verdict
    FirstSources,   \* what the file may hold at first
    OwnSources,     \* sources the user adds by hand
    Folders,        \* folders of repositories
    ScreenChars,    \* skill-review: how much System One reads
    MaxFile, MaxFilesBytes, MaxPaths, MaxSources, MaxRepositorySkills,
    Escalates,      \* skill-review: which of unsure and failed System Two reviews
    MaxByHand       \* bound: edits by the user

ASSUME ApprovalAssumption ==
    /\ DOMAIN Registry = Selectors
    /\ {ScreenChars, MaxFile, MaxFilesBytes, MaxPaths, MaxSources,
        MaxRepositorySkills, MaxByHand} \subseteq Nat
    /\ Escalates \subseteq {"unsure", "failed"}

FileSources == UNION {{sources[i] : i \in DOMAIN sources} : sources \in FirstSources}

ASSUME SourcesAssumption ==
    /\ FirstSources \subseteq Seq(FileSources)
    /\ \A s \in FileSources \cup OwnSources :
         s \in [id : {s.id}, kind : {"git", "http"}, key : {s.key}, paths : SUBSET Folders]

\* A folder's parents are folders.
ASSUME FoldersAssumption ==
    /\ << >> \in Folders /\ Folders \subseteq Seq(STRING)
    /\ \A f \in Folders : \A n \in 0 .. Len(f) : SubSeq(f, 1, n) \in Folders

ASSUME RegistryAssumption ==
    \A s \in Selectors :
        /\ Registry[s] \in Seq({Registry[s][i] : i \in DOMAIN Registry[s]})
        /\ \A i \in DOMAIN Registry[s] :
             LET skill == Registry[s][i]
             IN  /\ skill.dir \in Folders
                 /\ skill.files \in Seq({skill.files[j] : j \in DOMAIN skill.files})

VARIABLES
    followed,   \* skill-sources.json, what it holds and whether it can be read
    run,        \* each run's place, and what it knows
    byHand      \* edits by the user so far

approvalVars == <<followed, run, byHand>>

NotRun == [at |-> "start"]

ApprovalInit ==
    /\ followed \in {[sources |-> s, settings |-> 0, readable |-> TRUE] : s \in FirstSources}
    /\ run = [p \in Approvers |-> NotRun]
    /\ byHand = 0

-----------------------------------------------------------------------------
(* The change to the file.                                                   *)

IsUnder(folder, path) ==
    Len(folder) <= Len(path) /\ SubSeq(path, 1, Len(folder)) = folder

\* covers
Covers(path, dir) == IsUnder(path, dir)

\* common_dir
CommonDir(left, right) ==
    LET shared == {n \in 0 .. Len(left) : n <= Len(right) /\ SubSeq(left, 1, n) = SubSeq(right, 1, n)}
    IN  SubSeq(left, 1, CHOOSE n \in shared : \A m \in shared : m <= n)

CommonDirs(skills) ==
    LET common[i \in DOMAIN skills] ==
          IF i = 1 THEN skills[1].dir ELSE CommonDir(common[i - 1], skills[i].dir)
    IN  common[Len(skills)]

Ids(config) == {config.sources[i].id : i \in DOMAIN config.sources}

\* new_id: the repository's name, the owner's before it, or numbered.
NewId(config, key) ==
    LET named == <<key[2]>>
        owned == <<key[1], key[2]>>
        numbered == {n \in 2 .. MaxSources + 2 : Append(owned, n) \notin Ids(config)}
    IN  IF named \notin Ids(config) THEN named
        ELSE IF owned \notin Ids(config) THEN owned
        ELSE Append(owned, CHOOSE n \in numbered : \A m \in numbered : n <= m)

GitSources(config, key) ==
    {i \in DOMAIN config.sources : config.sources[i].kind = "git" /\ config.sources[i].key = key}

RetainedNone(paths, dir) == {}

\* Paths a new one does not already stand for.
Retained(paths, dir) == {path \in paths : ~Covers(dir, path)}

\* merge: the first source that follows the repository gains the folder, or a
\* new source follows it.
Merge(config, key, dir) ==
    LET found == GitSources(config, key)
        first == CHOOSE i \in found : \A j \in found : i <= j
        paths == config.sources[first].paths
        extended == Retained(paths, dir) \cup {dir}
    IN  CASE found = {} /\ Len(config.sources) >= MaxSources ->
               [change |-> "invalid", config |-> config]
          [] found = {} /\ Len(config.sources) < MaxSources ->
               [change |-> "added",
                config |-> [config EXCEPT !.sources =
                    Append(@, [id |-> NewId(config, key), kind |-> "git", key |-> key,
                               paths |-> {dir}])]]
          [] found # {} /\ (\E path \in paths : Covers(path, dir)) ->
               [change |-> "covered", config |-> config]
          [] OTHER ->
               [change |-> IF Cardinality(extended) > MaxPaths THEN "invalid"
                           ELSE "extended",
                config |-> [config EXCEPT !.sources[first].paths = extended]]

\* SourcesConfig::check
Valid(config) ==
    /\ Len(config.sources) <= MaxSources
    /\ Cardinality(Ids(config)) = Len(config.sources)
    /\ \A i \in DOMAIN config.sources :
         config.sources[i].kind = "git" =>
            Cardinality(config.sources[i].paths) \in 1 .. MaxPaths

-----------------------------------------------------------------------------
(* A review.                                                                 *)

\* What runs is read first.
ReadingOrder(files) ==
    LET Runs(file) == file.runs
        Rests(file) == ~file.runs
    IN  SelectSeq(files, Runs) \o SelectSeq(files, Rests)

\* chosen and shown: which files fit, by the size a registry gives, then by
\* their own.
Fits(sizes) ==
    LET take[i \in 0 .. Len(sizes)] ==
          IF i = 0 THEN [used |-> 0, taken |-> {}]
          ELSE LET before == take[i - 1]
               IN  IF sizes[i] <= MaxFile /\ before.used + sizes[i] <= MaxFilesBytes
                   THEN [used |-> before.used + sizes[i], taken |-> before.taken \cup {i}]
                   ELSE before
    IN  take[Len(sizes)].taken

ShownFiles(files) ==
    LET order == ReadingOrder(files)
        chosen == Fits([i \in DOMAIN files |-> order[i].listed])
        Size(i) == IF i \in chosen /\ order[i].text THEN order[i].size ELSE MaxFile + 1
        shown == Fits([i \in DOMAIN files |-> Size(i)])
    IN  {order[i] : i \in shown}

\* Skill::render: the whole skill fits what System One reads.
Whole(skill) ==
    LET shown == ShownFiles(skill.files)
        used[i \in 0 .. Len(skill.files)] ==
          IF i = 0 THEN skill.main
          ELSE used[i - 1] + IF skill.files[i] \in shown THEN skill.files[i].size ELSE 0
    IN  /\ \A i \in DOMAIN skill.files : skill.files[i] \in shown
        /\ used[Len(skill.files)] <= ScreenChars

Review(safety, judge) == [safety |-> safety, judge |-> judge]
Undetermined == Review("undetermined", "none")

\* SkillReview::judge and read_review: System One's screening, and System Two's
\* verdict, which must give a reason, or cite a concern.
Reviews(skill) ==
    LET screened == {"no", "unsure", "failed"} \cup IF Whole(skill) THEN {"yes"} ELSE {}
        read(two, backed) ==
          IF two \in {"safe", "unsafe"} /\ backed THEN Review(two, "two") ELSE Undetermined
        settled(one) ==
          CASE one = "yes" -> Review("safe", "one")
            [] one = "no"  -> Review("unsafe", "one")
            [] OTHER       -> Undetermined
    IN  {settled(one) : one \in screened \ Escalates} \cup
        {read(two, backed) :
            two \in IF screened \cap Escalates = {} THEN {}
                    ELSE {"safe", "unsafe", "insufficient_evidence", "failed"},
            backed \in BOOLEAN}

\* gather: its files cannot be read without a commit, or SKILL.md.
Gathered(skill) == skill.commit /\ skill.main > 0

-----------------------------------------------------------------------------
(* A run of the command.                                                     *)

\* read_config: a file it cannot understand ends the run.
ReadFile(p, selector, consent) ==
    /\ run[p] = NotRun
    /\ run' = [run EXCEPT ![p] =
          IF followed.readable
          THEN [at |-> "fetch", selector |-> selector, consent |-> consent,
                config |-> followed]
          ELSE [at |-> "failed"]]
    /\ UNCHANGED <<followed, byHand>>

\* Candidate::from_answer: of a repository on GitHub, in a folder that can be
\* followed.
Followable(skill) == skill.sound

\* SkilldClient::candidates: all that are listed, or none is approved.
Candidates(selector) ==
    IF /\ Len(Registry[selector]) \in 1 .. MaxRepositorySkills
       /\ \A i \in DOMAIN Registry[selector] : Followable(Registry[selector][i])
    THEN {Registry[selector]} ELSE {}

Planned(skills, config) ==
    LET change == Merge(config, skills[1].key, CommonDirs(skills))
    IN  IF \/ \E i \in DOMAIN skills : skills[i].key # skills[1].key
           \/ ~Valid(change.config)
        THEN [change EXCEPT !.change = "invalid"] ELSE change

Judged(reviews, safety) == \E i \in DOMAIN reviews : reviews[i].safety = safety

\* `ask` behaviors not allowed.
Blocked(skills, consent) ==
    (UNION {skills[i].asks : i \in DOMAIN skills}) \ consent.allow

Refused(reviews, consent) ==
    \/ Judged(reviews, "unsafe") /\ ~consent.risk
    \/ Judged(reviews, "undetermined") /\ ~consent.unvetted

\* review_all: at the end every skill has a review, in order; without a daemon,
\* with files that cannot be gathered or a call that fails it has no verdict.
ReviewsOf(skills) ==
    {reviews \in [DOMAIN skills -> UNION {Reviews(skills[i]) : i \in DOMAIN skills}
                                      \cup {Undetermined}] :
        \A i \in DOMAIN skills :
            \/ reviews[i] = Undetermined
            \/ Gathered(skills[i]) /\ reviews[i] \in Reviews(skills[i])}

\* What Skilld answers decides the change; one already covered needs no review,
\* any other waits for all of them.  Nothing of it is shared with anyone.
Decide(p) ==
    /\ run[p].at = "fetch"
    /\ \/ run' = [run EXCEPT ![p] = [at |-> "failed"]]
       \/ \E skills \in Candidates(run[p].selector) :
            LET r == run[p]
                plan == Planned(skills, r.config)
            IN  \/ plan.change = "invalid" /\ run' = [run EXCEPT ![p] = [at |-> "failed"]]
                \/ plan.change = "covered" /\ run' = [run EXCEPT ![p].at = "covered"]
                \/ /\ plan.change \in {"added", "extended"}
                   /\ \E reviews \in ReviewsOf(skills) :
                        run' = [run EXCEPT ![p] =
                          IF Blocked(skills, r.consent) = {} /\ ~Refused(reviews, r.consent)
                          THEN [at |-> "write", consent |-> r.consent, config |-> r.config,
                                skills |-> skills, reviews |-> reviews]
                          ELSE [at |-> "stopped"]]
    /\ UNCHANGED <<followed, byHand>>

\* write_config: over whatever is there by now.
WriteFile(p) ==
    /\ run[p].at = "write"
    /\ followed' = Planned(run[p].skills, run[p].config).config
    /\ run' = [run EXCEPT ![p] = [at |-> "written"]]
    /\ UNCHANGED byHand

WriteFileFails(p) ==
    /\ run[p].at = "write"
    /\ run' = [run EXCEPT ![p] = [at |-> "failed"]]
    /\ UNCHANGED <<followed, byHand>>

\* The user adds a source, changes a setting, or saves something unreadable.
EditByHand ==
    /\ byHand < MaxByHand /\ byHand' = byHand + 1
    /\ \/ \E source \in OwnSources :
            LET edited == [followed EXCEPT !.sources = Append(@, source)]
            IN  Valid(edited) /\ followed' = edited
       \/ followed' = [followed EXCEPT !.settings = 1 - @]
       \/ followed' = [followed EXCEPT !.readable = ~@]
    /\ UNCHANGED run

ApprovalNext ==
    \/ \E p \in Approvers :
         \/ \E selector \in Selectors, consent \in Consents : ReadFile(p, selector, consent)
         \/ Decide(p) \/ WriteFile(p) \/ WriteFileFails(p)
    \/ EditByHand

ApprovalSpec == ApprovalInit /\ [][ApprovalNext]_approvalVars

-----------------------------------------------------------------------------
(* Properties.                                                               *)

\* What a file has the daemon look at: folders of repositories.
Follows(config) ==
    {f \in {config.sources[i].key : i \in DOMAIN config.sources} \X Folders :
        \E i \in GitSources(config, f[1]) :
            \E path \in config.sources[i].paths : IsUnder(path, f[2])}

\* The folders below the deepest one that holds all the skills.
Granted(skills) ==
    LET holding == {d \in Folders : \A i \in DOMAIN skills : IsUnder(d, skills[i].dir)}
        deepest == CHOOSE d \in holding : \A e \in holding : Len(e) <= Len(d)
    IN  {<<skills[1].key, d>> : d \in {e \in Folders : IsUnder(deepest, e)}}

\* Whoever agreed to it.
Agreed(r) ==
    \A i \in DOMAIN r.skills :
        /\ r.skills[i].asks \subseteq r.consent.allow
        /\ \/ r.reviews[i].safety = "safe"
           \/ r.reviews[i].safety = "unsafe" /\ r.consent.risk
           \/ r.reviews[i].safety = "undetermined" /\ r.consent.unvetted
        /\ r.reviews[i] = Review("safe", "one") =>
             \A j \in DOMAIN r.skills[i].files : r.skills[i].files[j].text

\* A run that writes adds the folder of its approved skills and nothing else,
\* keeps all that was followed and every setting, and leaves a file that can be
\* read; every skill was judged safe, by System One only when it saw it whole,
\* or the user accepted what stood against it.  A file that changed since the
\* run read it is overwritten.  A run that finds a skill covered is right
\* (approve.rs; docs/remote-skills.md, Find skills with Skilld).
ApprovalsSound ==
    [][\A p \in Approvers :
        /\ run[p].at = "write" /\ run'[p].at = "written" =>
             /\ Agreed(run[p]) /\ Valid(followed') /\ followed'.readable
             /\ followed'.settings = run[p].config.settings
             /\ Follows(followed') = Follows(run[p].config) \cup Granted(run[p].skills)
        /\ run'[p].at = "covered" =>
             Granted(Registry[run'[p].selector]) \subseteq Follows(run'[p].config)]_approvalVars
=============================================================================
