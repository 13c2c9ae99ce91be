---------------------------- MODULE SkillSources ----------------------------
(* Remote skills: the daemon's skill worker (skills.rs), the catalog it owns *)
(* (sources/store.rs) and which version of a skill agents may see            *)
(* (sources/vetting.rs).                                                     *)
(*                                                                           *)
(* The worker is one task: it reads the configuration, checks what is due,   *)
(* starts reviews, and then waits for one of a review's end, the user's      *)
(* acceptance, an attached skill, or a pause.  Upstream, the user and the    *)
(* reviews go on at every await.  Only this process writes the cache.        *)
(* A revision is an upstream and the number of its change; what a skill says *)
(* at it is a version.  The files of a version are its version's number.     *)
EXTENDS Integers, FiniteSets, Sequences

CONSTANTS
    Slots,         \* ids of sources, each with a folder of the cache
    Order,         \* the order they are configured in: a sequence of Slots
    Urls,          \* upstreams a source may name
    Http,          \* those that are HTTP catalogs, the others Git
    Names,         \* names of skills
    Versions,      \* what a skill may say
    Unconfigured,  \* of a slot no source uses
    ConcurrentReviews, MaxRevisions,
    MaxChanges,    \* bound: changes of an upstream
    MaxConfigs,    \* bound: edits of the sources
    MaxAccepts,    \* bound: acceptances by the user
    MaxCrashes,    \* bound: crashes of the daemon
    MaxDeaths,     \* bound: review tasks that die
    MaxLost        \* bound: records that cannot be written

ASSUME SkillAssumption ==
    /\ Slots # {} /\ Order \in Seq(Slots) /\ Slots = {Order[i] : i \in DOMAIN Order}
    /\ Http \subseteq Urls /\ Unconfigured \notin Urls
    /\ Versions \subseteq Nat \ {0}
    /\ {ConcurrentReviews, MaxRevisions} \subseteq Nat \ {0}
    /\ {MaxChanges, MaxConfigs, MaxAccepts, MaxCrashes, MaxDeaths, MaxLost} \subseteq Nat

VARIABLES
    upstream,   \* each URL's revision and versions; version 0: not listed
    sources,    \* skill-sources.json: each slot's URL
    disk,       \* each slot's listing.json and reviews.json
    folders,    \* fetched skill folders: what their files say
    at,         \* what the worker does: see Phases
    todo,       \* slots, or jobs, still to go through in this phase
    config,     \* SourceStore.config: the sources as last read
    entries,    \* SourceStore.entries: each slot's listing and reviews
    stale,      \* slots whose check is due
    reviews,    \* jobs under review
    busy,       \* slots and names of reviews in flight
    shown,      \* the published catalog: each name's slot, revision and version
    bounds,     \* changes, edits, acceptances, crashes and deaths so far
    lost,       \* records that could not be written so far
    vouched,    \* history: slots, names and digests that were judged safe,
                \* accepted, or in use before versions were reviewed
    unrecorded  \* history: slots whose first record could not be written

worldVars == <<upstream, sources>>
memoryVars == <<config, entries, reviews, busy>>
skillVars == <<worldVars, disk, folders, at, todo, memoryVars, stale, shown,
               bounds, lost, vouched, unrecorded>>

Phases == {"start", "restore", "config", "check", "review", "wait"}

Revision(url, n) == <<url, n>>
NoRevision == Revision(Unconfigured, 0)

NoListing == [url |-> Unconfigured, rev |-> NoRevision, says |-> [n \in Names |-> 0]]

\* What a record holds of a skill: the digest, revision and version approved,
\* and the digest last judged, without approval, and when that is tried again.
NoApproval == [digest |-> << >>, rev |-> NoRevision, version |-> 0]
NoVerdict == [digest |-> << >>, retry |-> "never"]
NoRecord(url) ==
    [url |-> url, approved |-> [n \in Names |-> NoApproval],
     latest |-> [n \in Names |-> NoVerdict]]

\* Of a slot without reviews.json.
Missing == NoRecord(Unconfigured)

NoEntry == [url |-> Unconfigured, listing |-> NoListing, record |-> Missing]

NothingShown == [slot |-> Unconfigured, rev |-> NoRevision, version |-> 0]

\* A skill as agents would read it.  Git names its files by their blobs; for
\* HTTP the revision stands in.
Digest(url, rev, version) ==
    IF url \in Http THEN <<version, rev>> ELSE <<version>>

SkillInit ==
    /\ upstream = [u \in Urls |->
         [url |-> u, rev |-> Revision(u, 1), says |-> [n \in Names |-> 1]]]
    /\ \E u \in Urls : sources = [s \in Slots |-> u]
    \* New sources, or ones cached before reviews existed.
    /\ \E old \in BOOLEAN :
         /\ disk = [s \in Slots |->
              [listing |-> IF old THEN upstream[sources[s]]
                           ELSE NoListing,
               record |-> Missing]]
         /\ vouched = IF old
              THEN {<<s, n, Digest(sources[s], Revision(sources[s], 1), 1)>> :
                      s \in Slots, n \in Names}
              ELSE {}
    /\ folders = << >> /\ at = "start" /\ todo = {}
    /\ config = [s \in Slots |-> Unconfigured]
    /\ entries = [s \in Slots |-> NoEntry]
    /\ stale = Slots /\ reviews = {} /\ busy = {}
    /\ shown = [n \in Names |-> NothingShown]
    /\ bounds = [changes |-> 0, configs |-> 0, accepts |-> 0, crashes |-> 0,
                 deaths |-> 0]
    /\ lost = 0 /\ unrecorded = {}

Spend(bound, limit) ==
    /\ bounds[bound] < limit
    /\ bounds' = [bounds EXCEPT ![bound] = @ + 1]

-----------------------------------------------------------------------------
(* Which version agents may see.                                             *)

ListedDigest(s, n) ==
    Digest(entries[s].url, entries[s].listing.rev, entries[s].listing.says[n])

IsListed(e, n) == e.listing # NoListing /\ e.listing.says[n] # 0

ApprovedIn(e, n) == e.record.approved[n]

IsCurrent(e, n) ==
    ApprovedIn(e, n).digest = Digest(e.url, e.listing.rev, e.listing.says[n])

\* An HTTP catalog serves only its latest version: an earlier one must be on
\* disk.
Servable(s, e, n) ==
    /\ ApprovedIn(e, n) # NoApproval
    /\ e.url \in Http => <<s, ApprovedIn(e, n).rev, n>> \in DOMAIN folders

VisibleLatest(s, e, n) ==
    IF IsListed(e, n) /\ IsCurrent(e, n)
    THEN [slot |-> s, rev |-> e.listing.rev, version |-> e.listing.says[n]]
    ELSE NothingShown

\* What agents see of a listed skill: its latest version, an earlier approved
\* one, or nothing.
Visible(s, e, n) ==
    IF IsListed(e, n) /\ ~IsCurrent(e, n) /\ Servable(s, e, n)
    THEN [slot |-> s, rev |-> ApprovedIn(e, n).rev, version |-> ApprovedIn(e, n).version]
    ELSE VisibleLatest(s, e, n)

\* The first source that shows a name has it.
FirstVisible(es, n) ==
    LET fits == {i \in DOMAIN Order : Visible(Order[i], es[Order[i]], n) # NothingShown}
    IN  IF fits = {} THEN NothingShown
        ELSE LET i == CHOOSE j \in fits : \A k \in fits : j <= k
             IN  Visible(Order[i], es[Order[i]], n)

Catalog(es) == [n \in Names |-> FirstVisible(es, n)]

\* Needs the judges: not approved, and not judged or to be tried again.
NeedsReview(s, n) ==
    LET e == entries[s]
    IN  /\ IsListed(e, n) /\ ~IsCurrent(e, n)
        /\ \/ e.record.latest[n].digest # ListedDigest(s, n)
           \/ e.record.latest[n].retry = "now"

Job(s, n) == [slot |-> s, name |-> n, rev |-> entries[s].listing.rev,
              digest |-> ListedDigest(s, n)]

StillListedByName(job) == IsListed(entries[job.slot], job.name)

\* Upstream still lists the version a job names.
StillListed(job) ==
    /\ IsListed(entries[job.slot], job.name)
    /\ entries[job.slot].listing.rev = job.rev
    /\ ListedDigest(job.slot, job.name) = job.digest

-----------------------------------------------------------------------------
(* The record, in memory and then on disk.                                   *)

Approved(job) ==
    [digest |-> job.digest, rev |-> job.rev,
     version |-> entries[job.slot].listing.says[job.name]]

\* save_reviews.
Write(s, record) ==
    \/ disk' = [disk EXCEPT ![s].record = record] /\ UNCHANGED lost
    \/ lost < MaxLost /\ lost' = lost + 1 /\ UNCHANGED disk

\* A slot's record is another, in memory and, unless it cannot be written, on
\* disk.  What is published follows.
Save(s, record) ==
    /\ entries' = [entries EXCEPT ![s].record = record]
    /\ Write(s, record)
    /\ shown' = Catalog(entries')

Approve(job) ==
    /\ Save(job.slot,
            [entries[job.slot].record EXCEPT !.approved[job.name] = Approved(job),
                                             !.latest[job.name] = NoVerdict])
    /\ vouched' = vouched \cup {<<job.slot, job.name, job.digest>>}

\* SourceStore::record.  A judge's verdict stands until upstream changes; with
\* none the review is tried again later.
Record(job, verdict) ==
    IF ~StillListed(job)
    THEN shown' = Catalog(entries) /\ UNCHANGED <<entries, disk, lost, vouched>>
    ELSE IF verdict = "safe" THEN Approve(job)
    ELSE /\ Save(job.slot,
              [entries[job.slot].record EXCEPT !.latest[job.name] =
                 [digest |-> job.digest,
                  retry |-> IF verdict = "unjudged" THEN "later" ELSE "never"]])
         /\ UNCHANGED vouched

\* Worker::finish.
Finish(job, verdict) ==
    /\ busy' = busy \ {<<job.slot, job.name>>}
    /\ Record(job, verdict)
    /\ UNCHANGED unrecorded

-----------------------------------------------------------------------------
(* The worker's loop.                                                        *)

\* SourceStore::configuration: what is no longer configured as it was is
\* forgotten.
ReadConfig ==
    /\ config' = sources
    /\ entries' = [s \in Slots |->
          IF entries[s].url = sources[s] THEN entries[s] ELSE NoEntry]

StartSkills ==
    /\ at = "start" /\ at' = "restore"
    /\ ReadConfig
    /\ UNCHANGED <<worldVars, disk, folders, todo, stale, reviews, busy, shown,
                   bounds, lost, vouched, unrecorded>>

ReadSources ==
    /\ at = "config" /\ at' = "check"
    /\ ReadConfig
    /\ todo' = {s \in Slots : sources[s] # Unconfigured}
    /\ UNCHANGED <<worldVars, disk, folders, stale, reviews, busy, shown,
                   bounds, lost, vouched, unrecorded>>

Startable ==
    {Job(i[1], i[2]) : i \in {p \in Slots \X Names :
                                NeedsReview(p[1], p[2]) /\ p \notin busy}}

\* What start_reviews goes through: jobs that are due, as far as there is room.
ReviewRound ==
    LET room == ConcurrentReviews - Cardinality(reviews)
    IN  {jobs \in SUBSET Startable :
            /\ Cardinality(jobs) <= room
            /\ Cardinality(jobs) = room \/ jobs = Startable}

\* A file that cannot be read, or is not valid, changes nothing: what there is
\* is published.
SourcesUnreadable ==
    /\ at \in {"start", "config"}
    /\ at' = IF at = "start" THEN "config" ELSE "review"
    /\ todo' \in IF at = "start" THEN {{}} ELSE ReviewRound
    /\ shown' = Catalog(entries)
    /\ UNCHANGED <<worldVars, disk, folders, memoryVars, stale, bounds,
                   lost, vouched, unrecorded>>

\* The listing on disk, if it is of this very source.
CachedListing(s, url) ==
    IF disk[s].listing.url = url THEN disk[s].listing ELSE NoListing

Baseline(s, url, listing) ==
    [NoRecord(url) EXCEPT !.approved =
        [n \in Names |-> IF listing = NoListing \/ listing.says[n] = 0
                         THEN NoApproval
                         ELSE [digest |-> Digest(url, listing.rev, listing.says[n]),
                               rev |-> listing.rev, version |-> listing.says[n]]]]

\* SourceStore::restore: a slot read back from its folder.  Without a record,
\* what it already lists is approved; a record of another URL is not used.
Restored(s) ==
    LET url == config[s]
        listing == CachedListing(s, url)
        record == IF disk[s].record = Missing THEN Baseline(s, url, listing)
                  ELSE IF disk[s].record.url = url THEN disk[s].record
                  ELSE NoRecord(url)
    IN  [url |-> url, listing |-> listing, record |-> record]

Absent(s) == config[s] # Unconfigured /\ entries[s] = NoEntry

RestoreSource(s) ==
    /\ at \in {"restore", "check"} /\ Absent(s)
    /\ entries' = [entries EXCEPT ![s] = Restored(s)]
    /\ IF disk[s].record = Missing
       THEN Write(s, Restored(s).record) ELSE UNCHANGED <<disk, lost>>
    /\ unrecorded' = IF lost' # lost THEN unrecorded \cup {s} ELSE unrecorded
    /\ UNCHANGED <<worldVars, folders, at, todo, config, stale, reviews, busy,
                   shown, bounds, vouched>>

\* What was restored is published before anything is checked, unless a catalog
\* of configured sources is still empty.
PublishRestored ==
    /\ at = "restore" /\ \A s \in Slots : ~Absent(s)
    /\ at' = "config"
    /\ shown' = Catalog(entries)
    /\ UNCHANGED <<worldVars, disk, folders, todo, memoryVars, stale, bounds,
                   lost, vouched, unrecorded>>

\* SourceStore::update: a new listing is written, then used.  A check that
\* fails, or that the cycle has no time for, keeps the last good listing.
CheckSource(s) ==
    /\ at = "check" /\ s \in todo /\ \A r \in Slots : ~Absent(r)
    /\ todo' = todo \ {s}
    /\ \/ /\ s \in stale /\ stale' = stale \ {s}
          /\ entries' = [entries EXCEPT ![s].listing = upstream[config[s]]]
          /\ disk' = [disk EXCEPT ![s].listing = upstream[config[s]]]
       \/ /\ stale' = stale \ {s} /\ UNCHANGED <<entries, disk>>
       \/ UNCHANGED <<stale, entries, disk>>
    /\ UNCHANGED <<worldVars, folders, at, config, reviews, busy, shown,
                   bounds, lost, vouched, unrecorded>>

\* Every source was gone through: the catalog is published, and reviews start.
Publish ==
    /\ at = "check" /\ todo = {} /\ \A s \in Slots : ~Absent(s)
    /\ at' = "review" /\ todo' \in ReviewRound /\ shown' = Catalog(entries)
    /\ UNCHANGED <<worldVars, disk, folders, memoryVars, stale, bounds,
                   lost, vouched, unrecorded>>

RevisionsOf(s) == {f[2] : f \in {g \in DOMAIN folders : g[1] = s}}

\* SourceStore::fetch_skill: Git files are of the listed version; an HTTP
\* catalog sends what it has by now.
CanFetch(s, rev) ==
    rev \in RevisionsOf(s) \/ Cardinality(RevisionsOf(s)) < MaxRevisions

Files(s, n, version) ==
    IF entries[s].url \in Http THEN upstream[entries[s].url].says[n] ELSE version

WithFolder(s, rev, n, version) ==
    IF <<s, rev, n>> \in DOMAIN folders THEN folders
    ELSE [f \in DOMAIN folders \cup {<<s, rev, n>>} |->
            IF f = <<s, rev, n>> THEN Files(s, n, version) ELSE folders[f]]

\* Worker::start_reviews: the files are fetched and read, and the review runs
\* beside the worker.
StartReview(job) ==
    /\ at = "review" /\ job \in todo /\ todo' = todo \ {job}
    /\ CanFetch(job.slot, job.rev)
    /\ folders' = WithFolder(job.slot, job.rev, job.name,
                             entries[job.slot].listing.says[job.name])
    /\ reviews' = reviews \cup {job}
    /\ busy' = busy \cup {<<job.slot, job.name>>}
    /\ UNCHANGED <<worldVars, disk, at, config, entries, stale, shown, bounds,
                   lost, vouched, unrecorded>>

\* They cannot be fetched, or not in time.
ReviewUnread(job) ==
    /\ at = "review" /\ job \in todo /\ todo' = todo \ {job}
    /\ Finish(job, "unjudged")
    /\ UNCHANGED <<worldVars, folders, at, config, stale, reviews, bounds>>

Pauses ==
    /\ at = "review" /\ todo = {} /\ at' = "wait"
    /\ UNCHANGED <<worldVars, disk, folders, todo, memoryVars, stale, shown,
                   bounds, lost, vouched, unrecorded>>

\* One of the select's branches, and around again.
ReviewEnds(job, verdict) ==
    /\ at = "wait" /\ job \in reviews /\ at' = "config"
    /\ reviews' = reviews \ {job}
    /\ Finish(job, verdict)
    /\ UNCHANGED <<worldVars, folders, todo, config, stale, bounds>>

\* A task that dies names no job.
ReviewDies(job) ==
    /\ at = "wait" /\ job \in reviews /\ at' = "config"
    /\ Spend("deaths", MaxDeaths)
    /\ reviews' = reviews \ {job}
    /\ busy' = IF reviews' = {} THEN {} ELSE busy
    /\ UNCHANGED <<worldVars, disk, folders, todo, config, entries, stale,
                   shown, lost, vouched, unrecorded>>

\* SourceStore::accept: the latest version of the first source that lists it.
Accept(n) ==
    LET fits == {i \in DOMAIN Order : IsListed(entries[Order[i]], n)}
        s == Order[CHOOSE j \in fits : \A k \in fits : j <= k]
    IN  /\ at = "wait" /\ at' = "config"
        /\ Spend("accepts", MaxAccepts)
        /\ IF fits # {} /\ ~IsCurrent(entries[s], n)
           THEN Approve(Job(s, n))
           ELSE /\ shown' = Catalog(entries)
                /\ UNCHANGED <<entries, disk, lost, vouched>>
        /\ UNCHANGED <<worldVars, folders, todo, config, stale, reviews, busy,
                       unrecorded>>

\* SourceStore::materialize, of an attached skill.
Materialize(n) ==
    /\ at = "wait" /\ at' = "config"
    /\ LET v == FirstVisible(entries, n)
       IN  folders' = IF v # NothingShown /\ CanFetch(v.slot, v.rev)
                      THEN WithFolder(v.slot, v.rev, n, v.version) ELSE folders
    /\ UNCHANGED <<worldVars, disk, todo, memoryVars, stale, shown, bounds,
                   lost, vouched, unrecorded>>

Sleeps ==
    /\ at = "wait" /\ at' = "config"
    /\ UNCHANGED <<worldVars, disk, folders, todo, memoryVars, stale, shown,
                   bounds, lost, vouched, unrecorded>>

-----------------------------------------------------------------------------
(* Around it.                                                                *)

Change(u, n, version) ==
    /\ Spend("changes", MaxChanges)
    /\ version # upstream[u].says[n]
    /\ upstream' = [upstream EXCEPT ![u].rev = Revision(u, @[2] + 1),
                                      ![u].says[n] = version]
    /\ UNCHANGED <<sources, disk, folders, at, todo, memoryVars, stale, shown,
                   lost, vouched, unrecorded>>

EditSources(s, url) ==
    /\ Spend("configs", MaxConfigs)
    /\ sources' = [sources EXCEPT ![s] = url]
    /\ UNCHANGED <<upstream, disk, folders, at, todo, memoryVars, stale, shown,
                   lost, vouched, unrecorded>>

\* A check is due again, and so is a review that reached no judge.
TimePasses ==
    \/ /\ \E s \in Slots \ stale : stale' = stale \cup {s}
       /\ UNCHANGED <<disk, entries>>
    \/ /\ \E s \in Slots, n \in Names :
            /\ entries[s].record.latest[n].retry = "later"
            /\ entries' = [entries EXCEPT ![s].record.latest[n].retry = "now"]
            /\ disk' = IF disk[s].record.latest[n] = entries[s].record.latest[n]
                       THEN [disk EXCEPT ![s].record.latest[n].retry = "now"]
                       ELSE disk
       /\ UNCHANGED stale

Waits ==
    /\ TimePasses
    /\ UNCHANGED <<worldVars, folders, at, todo, config, reviews, busy, shown,
                   bounds, lost, vouched, unrecorded>>

\* The daemon dies, and starts again with what is on disk.
CrashSkills ==
    /\ Spend("crashes", MaxCrashes)
    /\ at' = "start" /\ todo' = {} /\ reviews' = {} /\ busy' = {}
    /\ config' = [s \in Slots |-> Unconfigured]
    /\ entries' = [s \in Slots |-> NoEntry]
    /\ stale' = Slots /\ shown' = [n \in Names |-> NothingShown]
    /\ UNCHANGED <<worldVars, disk, folders, lost, vouched, unrecorded>>

Verdicts == {"safe", "unsafe", "unjudged"}

SkillNext ==
    \/ StartSkills \/ ReadSources \/ SourcesUnreadable
    \/ PublishRestored \/ Publish \/ Pauses \/ Sleeps
    \/ \E s \in Slots : RestoreSource(s) \/ CheckSource(s)
    \/ \E job \in todo : StartReview(job) \/ ReviewUnread(job)
    \/ \E job \in reviews : \/ \E verdict \in Verdicts : ReviewEnds(job, verdict)
                            \/ ReviewDies(job)
    \/ \E n \in Names : Accept(n) \/ Materialize(n)
    \/ \E u \in Urls, n \in Names, version \in Versions \cup {0} : Change(u, n, version)
    \/ \E s \in Slots, url \in Urls \cup {Unconfigured} : EditSources(s, url)
    \/ Waits \/ CrashSkills

SkillSpec == SkillInit /\ [][SkillNext]_skillVars

-----------------------------------------------------------------------------
(* Properties.                                                               *)

Vouched(v, n) ==
    \E url \in Urls : <<v.slot, n, Digest(url, v.rev, v.version)>> \in vouched

\* Agents see only versions that the judges found safe, the user accepted, or
\* that were in use before versions were reviewed: whatever upstream changes
\* during a review, whichever source the cache was of, whenever the daemon
\* dies, and whichever records cannot be written, as long as the first one of
\* the source was (vetting.rs, store.rs record).
OnlyVouched ==
    \A n \in Names :
        shown[n] # NothingShown /\ shown[n].slot \notin unrecorded
            => Vouched(shown[n], n)

\* A newly added source is reviewed before its skills appear, even if its first
\* record could not be written (docs/remote-skills.md; store.rs reviews).
ReviewedFirst ==
    \A n \in Names : shown[n] # NothingShown => Vouched(shown[n], n)

\* A Git skill with a version the record approves stays available while its
\* source is followed and lists it: a change of it, however judged, takes
\* nothing away (vetting.rs: until then the last approved version stays).
ApprovedStays ==
    at \in {"wait", "review"} => \A s \in Slots, n \in Names :
        (/\ entries[s].url \in Urls \ Http /\ disk[s].record.url = entries[s].url
         /\ disk[s].record.approved[n] # NoApproval /\ IsListed(entries[s], n))
        => shown[n] # NothingShown
=============================================================================
