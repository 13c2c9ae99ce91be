---------------------------- MODULE SkillProofs -----------------------------
(* Proofs about SkillSources: agents see only versions that were judged safe, *)
(* accepted, or in use before versions were reviewed, for any sources, names, *)
(* upstreams and bounds.  And about Approval: what a run of `chauffeur skill *)
(* approve` writes to the file is what was agreed to.                        *)
EXTENDS SkillSources, Approval, WellFoundedInduction, TLAPS

-----------------------------------------------------------------------------
(* Types.                                                                    *)

AllUrls == Urls \cup {Unconfigured}
Revs == AllUrls \X Nat
Digests == {<< >>} \cup {<<v>> : v \in Nat} \cup (Nat \X Revs)

Listings == [url : AllUrls, rev : Revs, says : [Names -> Nat]]
Approvals == [digest : Digests, rev : Revs, version : Nat]
LastVerdicts == [digest : Digests, retry : {"never", "later", "now"}]
Records == [url : AllUrls, approved : [Names -> Approvals],
            latest : [Names -> LastVerdicts]]
Entries == [url : AllUrls, listing : Listings, record : Records]
Jobs == [slot : Slots, name : Names, rev : Revs, digest : Digests]

SkillTypeOK ==
    /\ upstream \in [Urls -> Listings] /\ sources \in [Slots -> AllUrls]
    /\ disk \in [Slots -> [listing : Listings, record : Records]]
    /\ config \in [Slots -> AllUrls] /\ entries \in [Slots -> Entries]
    /\ at \in Phases /\ reviews \subseteq Jobs
    /\ at = "check" => todo \subseteq {s \in Slots : config[s] # Unconfigured}
    /\ at = "review" => todo \subseteq Jobs
    /\ unrecorded \subseteq Slots /\ lost \in Nat

-----------------------------------------------------------------------------
(* The inductive invariant.                                                  *)

\* What a record approves was vouched for, and is what it says it is.
Good(s, record, known) ==
    \A n \in Names : record.approved[n] # NoApproval =>
        /\ record.approved[n].digest =
             Digest(record.url, record.approved[n].rev, record.approved[n].version)
        /\ <<s, n, record.approved[n].digest>> \in known

\* A slot in memory is of the source it is configured with, and so is its
\* record.
EntryInv ==
    \A s \in Slots : entries[s] # NoEntry =>
        config[s] \in Urls /\ entries[s].url = config[s] /\ entries[s].record.url = config[s]

\* A slot without a record on disk is not in memory yet, and its listing is
\* from before versions were reviewed: so it may be approved as it is.
FirstRecordInv ==
    \A s \in Slots \ unrecorded : disk[s].record = Missing =>
        /\ entries[s] = NoEntry
        /\ \A n \in Names : disk[s].listing.says[n] # 0 =>
             <<s, n, Digest(disk[s].listing.url, disk[s].listing.rev,
                            disk[s].listing.says[n])>> \in vouched

RecordsInv ==
    \A s \in Slots \ unrecorded :
        Good(s, entries[s].record, vouched) /\ Good(s, disk[s].record, vouched)

SkillInv == SkillTypeOK /\ EntryInv /\ FirstRecordInv /\ RecordsInv /\ OnlyVouched

-----------------------------------------------------------------------------
(* What is published.                                                        *)

LEMMA Least ==
    ASSUME NEW T \in SUBSET Nat, T # {}
    PROVE  \E i \in T : \A j \in T : i <= j
<1> DEFINE R == OpToRel(<, Nat)
<1>1. IsWellFoundedOn(R, Nat)
  BY NatLessThanWellFounded
<1>2. \A x, y \in Nat : x < y => <<x, y>> \in R
  BY DEF OpToRel
<1> HIDE DEF R
<1>3. PICK i \in T : \A j \in T : ~ (<<j, i>> \in R)
  BY <1>1, WFMin
<1>4. \A j \in T : ~ (j < i)
  BY <1>2, <1>3
<1>5. QED
  BY <1>4

LEMMA DigestIs ==
    ASSUME NEW url, NEW rev, NEW version
    PROVE  Digest(url, rev, version) # << >>
  BY DEF Digest

\* The catalog shows of each name what one of the slots shows of it.
LEMMA CatalogIs ==
    ASSUME NEW es, NEW n \in Names, Catalog(es)[n] # NothingShown
    PROVE  \E s \in Slots : Catalog(es)[n] = Visible(s, es[s], n)
<1> DEFINE fits == {i \in DOMAIN Order : Visible(Order[i], es[Order[i]], n) # NothingShown}
           i == CHOOSE j \in fits : \A k \in fits : j <= k
<1>1. Catalog(es)[n] = IF fits = {} THEN NothingShown ELSE Visible(Order[i], es[Order[i]], n)
  BY DEF Catalog, FirstVisible
<1>2. fits # {}
  BY <1>1
<1>3. DOMAIN Order \subseteq Nat /\ \A j \in DOMAIN Order : Order[j] \in Slots
  BY SkillAssumption
<1>4. fits \in SUBSET Nat
  BY <1>3
<1>5. \E j \in fits : \A k \in fits : j <= k
  <2> HIDE DEF fits
  <2>1. QED
    BY <1>2, <1>4, Least
<1>6. i \in fits
  <2> HIDE DEF fits
  <2>1. QED
    BY <1>5
<1>7. Order[i] \in Slots
  BY <1>3, <1>6
<1>8. Catalog(es)[n] = Visible(Order[i], es[Order[i]], n)
  BY <1>1, <1>2
<1> HIDE DEF i
<1>9. QED
  BY <1>7, <1>8

\* Entries with good records show only what was vouched for.
LEMMA CatalogVouched ==
    ASSUME NEW es \in [Slots -> Entries], NEW known, NEW excused,
           \A s \in Slots : es[s] # NoEntry =>
               es[s].url \in Urls /\ es[s].record.url = es[s].url,
           \A s \in Slots \ excused : Good(s, es[s].record, known),
           NEW n \in Names,
           Catalog(es)[n] # NothingShown, Catalog(es)[n].slot \notin excused
    PROVE  \E url \in Urls :
             <<Catalog(es)[n].slot, n,
               Digest(url, Catalog(es)[n].rev, Catalog(es)[n].version)>> \in known
<1>1. PICK s \in Slots : Catalog(es)[n] = Visible(s, es[s], n)
  BY CatalogIs
<1> DEFINE v == Catalog(es)[n]
           e == es[s]
           approved == e.record.approved[n]
<1>2. v = Visible(s, e, n) /\ v # NothingShown
  BY <1>1
<1>3. IsListed(e, n)
  BY <1>2 DEF Visible, VisibleLatest
<1>4. e # NoEntry
  BY <1>3 DEF IsListed, NoEntry
<1>5. e.url \in Urls /\ e.record.url = e.url
  BY <1>4
<1>6. CASE IsCurrent(e, n)
  <2>1. v = [slot |-> s, rev |-> e.listing.rev, version |-> e.listing.says[n]]
    BY <1>2, <1>6 DEF Visible, VisibleLatest
  <2>2. approved.digest = Digest(e.url, e.listing.rev, e.listing.says[n])
    BY <1>6 DEF IsCurrent, ApprovedIn
  <2>3. approved # NoApproval
    BY <2>2, DigestIs DEF NoApproval
  <2>4. s \notin excused
    BY <2>1
  <2>5. <<s, n, approved.digest>> \in known
    BY <2>3, <2>4 DEF Good
  <2>6. QED
    BY <1>5, <2>1, <2>2, <2>5
<1>7. CASE ~IsCurrent(e, n)
  <2>1. /\ v = [slot |-> s, rev |-> approved.rev, version |-> approved.version]
        /\ approved # NoApproval
    BY <1>2, <1>7 DEF Visible, VisibleLatest, Servable, ApprovedIn
  <2>2. s \notin excused
    BY <2>1
  <2>3. /\ <<s, n, approved.digest>> \in known
        /\ approved.digest = Digest(e.record.url, approved.rev, approved.version)
    BY <2>1, <2>2 DEF Good
  <2>4. QED
    BY <1>5, <2>1, <2>3
<1>8. QED
  BY <1>6, <1>7

LEMMA ShownAgain ==
    ASSUME SkillTypeOK', EntryInv', RecordsInv', shown' = Catalog(entries')
    PROVE  OnlyVouched'
<1> SUFFICES ASSUME NEW n \in Names, shown'[n] # NothingShown,
                    shown'[n].slot \notin unrecorded'
             PROVE  Vouched(shown[n], n)'
  BY DEF OnlyVouched
<1>1. entries' \in [Slots -> Entries]
  BY DEF SkillTypeOK
<1>2. \A s \in Slots : entries'[s] # NoEntry =>
          entries'[s].url \in Urls /\ entries'[s].record.url = entries'[s].url
  BY DEF EntryInv
<1>3. \A s \in Slots \ unrecorded' : Good(s, entries'[s].record, vouched')
  BY DEF RecordsInv
<1>4. \E url \in Urls :
         <<shown'[n].slot, n, Digest(url, shown'[n].rev, shown'[n].version)>> \in vouched'
  <2> DEFINE known == vouched'
             excused == unrecorded'
             es == entries'
  <2>1. /\ es \in [Slots -> Entries]
        /\ \A s \in Slots : es[s] # NoEntry => es[s].url \in Urls /\ es[s].record.url = es[s].url
        /\ \A s \in Slots \ excused : Good(s, es[s].record, known)
        /\ shown' = Catalog(es)
        /\ Catalog(es)[n] # NothingShown /\ Catalog(es)[n].slot \notin excused
    BY <1>1, <1>2, <1>3
  <2> HIDE DEF es, excused
  <2> SUFFICES \E url \in Urls :
                  <<Catalog(es)[n].slot, n,
                    Digest(url, Catalog(es)[n].rev, Catalog(es)[n].version)>> \in known
    BY <2>1
  <2> HIDE DEF known
  <2>2. QED
    BY <2>1, CatalogVouched
<1>5. QED
  BY <1>4 DEF Vouched

LEMMA ShownStill ==
    ASSUME OnlyVouched, shown' = shown, vouched \subseteq vouched',
           unrecorded \subseteq unrecorded'
    PROVE  OnlyVouched'
<1>1. \A n \in Names : Vouched(shown[n], n) => Vouched(shown[n], n)'
  BY DEF Vouched
<1>2. QED
  BY <1>1 DEF OnlyVouched

\* Steps that leave the memory and the disk as they are.
LEMMA Quiet ==
    ASSUME SkillInv, SkillTypeOK',
           UNCHANGED <<disk, entries, config, vouched, unrecorded>>,
           shown' = shown \/ shown' = Catalog(entries)
    PROVE  SkillInv'
<1>1. EntryInv' /\ FirstRecordInv' /\ RecordsInv'
  BY DEF SkillInv, EntryInv, FirstRecordInv, RecordsInv
<1>2. OnlyVouched'
  BY <1>1, ShownAgain, ShownStill DEF SkillInv
<1>3. QED
  BY <1>1, <1>2 DEF SkillInv

\* A good record of a source in memory replaces another.
LEMMA SaveKeeps ==
    ASSUME SkillInv, NEW s \in Slots, NEW record \in Records, entries[s] # NoEntry,
           record.url = entries[s].url, vouched \subseteq vouched',
           s \notin unrecorded => Good(s, record, vouched'),
           Save(s, record), UNCHANGED <<config, unrecorded>>
    PROVE  /\ entries' \in [Slots -> Entries]
           /\ disk' \in [Slots -> [listing : Listings, record : Records]]
           /\ EntryInv' /\ FirstRecordInv' /\ RecordsInv'
<1>1. SkillTypeOK /\ EntryInv /\ FirstRecordInv /\ RecordsInv
  BY DEF SkillInv
<1>2. /\ entries' = [entries EXCEPT ![s].record = record]
      /\ disk' = [disk EXCEPT ![s].record = record] \/ disk' = disk
  BY DEF Save, Write
<1>3. /\ entries' \in [Slots -> Entries]
      /\ entries'[s].url = entries[s].url /\ entries'[s].listing = entries[s].listing
      /\ entries'[s].record = record
      /\ \A r \in Slots : r # s => entries'[r] = entries[r]
  BY <1>1, <1>2 DEF SkillTypeOK, Entries
<1>4. /\ disk' \in [Slots -> [listing : Listings, record : Records]]
      /\ disk'[s].listing = disk[s].listing /\ disk'[s].record \in {disk[s].record, record}
      /\ \A r \in Slots : r # s => disk'[r] = disk[r]
  <2>1. CASE disk' = disk
    BY <1>1, <2>1 DEF SkillTypeOK
  <2>2. CASE disk' = [disk EXCEPT ![s].record = record]
    BY <1>1, <2>2 DEF SkillTypeOK
  <2>3. QED
    BY <1>2, <2>1, <2>2
<1>5. config[s] \in Urls /\ record.url = config[s]
  BY <1>1 DEF EntryInv
<1>6. EntryInv'
  BY <1>1, <1>3, <1>5 DEF EntryInv
<1>7. record # Missing
  BY <1>5, SkillAssumption DEF Missing, NoRecord
<1>8. FirstRecordInv'
  BY <1>1, <1>3, <1>4, <1>7 DEF FirstRecordInv
<1>9. RecordsInv'
  <2>2. \A r \in Slots, old \in Records :
           Good(r, old, vouched) => Good(r, old, vouched')
    BY DEF Good
  <2>3. /\ \A r \in Slots : entries[r].record \in Records /\ disk[r].record \in Records
    BY <1>1 DEF SkillTypeOK, Entries
  <2>4. SUFFICES ASSUME NEW r \in Slots \ unrecorded
                 PROVE  Good(r, entries'[r].record, vouched') /\ Good(r, disk'[r].record, vouched')
    BY DEF RecordsInv
  <2>5. Good(r, entries[r].record, vouched') /\ Good(r, disk[r].record, vouched')
    BY <1>1, <2>2, <2>3 DEF RecordsInv
  <2>6. CASE r = s
    BY <1>3, <1>4, <2>5, <2>6
  <2>7. CASE r # s
    BY <1>3, <1>4, <2>5, <2>7
  <2>8. QED
    BY <2>6, <2>7
<1>10. QED
  BY <1>3, <1>4, <1>6, <1>8, <1>9

-----------------------------------------------------------------------------
(* One lemma per kind of action.                                             *)

LEMMA DigestType ==
    ASSUME NEW url, NEW rev \in Revs, NEW version \in Nat
    PROVE  Digest(url, rev, version) \in Digests
  BY DEF Digest, Digests

LEMMA JobType ==
    ASSUME SkillTypeOK, NEW s \in Slots, NEW n \in Names
    PROVE  /\ Job(s, n) \in Jobs /\ Job(s, n).slot = s /\ Job(s, n).name = n
           /\ entries[s].listing.rev \in Revs /\ entries[s].listing.says[n] \in Nat
           /\ ListedDigest(s, n) \in Digests /\ entries[s].record \in Records
<1>1. /\ entries[s].listing.rev \in Revs /\ entries[s].listing.says[n] \in Nat
      /\ entries[s].record \in Records
  BY DEF SkillTypeOK, Entries, Listings
<1>2. ListedDigest(s, n) \in Digests
  BY <1>1, DigestType DEF ListedDigest
<1>3. QED
  BY <1>1, <1>2 DEF Job, Jobs

LEMMA RoundType ==
    ASSUME SkillTypeOK, NEW jobs \in ReviewRound
    PROVE  jobs \subseteq Jobs
<1>1. \A p \in Slots \X Names : Job(p[1], p[2]) \in Jobs
  BY JobType
<1>2. QED
  BY <1>1 DEF ReviewRound, Startable

\* What no entry is known of.
LEMMA Nothing ==
    /\ NoEntry \in Entries /\ \A s, known : Good(s, NoEntry.record, known)
    /\ NoListing \in Listings /\ Missing \in Records /\ NoEntry.listing = NoListing
    /\ \A n \in Names : NoEntry.record.latest[n].retry = "never"
<1>1. NoRevision \in Revs
  BY DEF NoRevision, Revision, Revs, AllUrls
<1>2. NoListing \in Listings
  BY <1>1 DEF NoListing, Listings, AllUrls
<1>3. NoApproval \in Approvals /\ NoVerdict \in LastVerdicts
  BY <1>1 DEF NoApproval, Approvals, NoVerdict, LastVerdicts, Digests
<1>4. /\ Missing \in Records /\ \A n \in Names : Missing.approved[n] = NoApproval
      /\ \A n \in Names : Missing.latest[n].retry = "never"
  BY <1>3 DEF Missing, NoRecord, Records, AllUrls, NoVerdict
<1>5. NoEntry \in Entries /\ NoEntry.record = Missing /\ NoEntry.listing = NoListing
  BY <1>2, <1>4 DEF NoEntry, Entries, AllUrls
<1>6. QED
  BY <1>2, <1>4, <1>5 DEF Good

LEMMA SkillStart == SkillInit => SkillInv
<1> SUFFICES ASSUME SkillInit PROVE SkillInv
  OBVIOUS
<1>1. \A u \in Urls : Revision(u, 1) \in Revs
  BY DEF Revision, Revs, AllUrls
<1>2. /\ upstream \in [Urls -> Listings]
      /\ \A u \in Urls : /\ upstream[u].rev = Revision(u, 1) /\ upstream[u].url = u
                         /\ \A n \in Names : upstream[u].says[n] = 1
  BY <1>1 DEF SkillInit, Listings, AllUrls
<1>3. sources \in [Slots -> AllUrls] /\ \A s \in Slots : sources[s] \in Urls
  BY DEF SkillInit, AllUrls
<1>4. PICK old \in BOOLEAN :
        /\ disk = [s \in Slots |->
             [listing |-> IF old THEN upstream[sources[s]] ELSE NoListing,
              record |-> Missing]]
        /\ vouched = IF old
             THEN {<<s, n, Digest(sources[s], Revision(sources[s], 1), 1)>> :
                     s \in Slots, n \in Names}
             ELSE {}
  BY DEF SkillInit
<1>5. /\ disk \in [Slots -> [listing : Listings, record : Records]]
      /\ \A s \in Slots : disk[s].record = Missing
      /\ \A s \in Slots : disk[s].listing = IF old THEN upstream[sources[s]] ELSE NoListing
  BY <1>2, <1>3, <1>4, Nothing
<1>6. /\ entries \in [Slots -> Entries] /\ config \in [Slots -> AllUrls]
      /\ \A s \in Slots : entries[s] = NoEntry
  BY Nothing DEF SkillInit, AllUrls
<1>7. SkillTypeOK
  BY <1>2, <1>3, <1>5, <1>6 DEF SkillTypeOK, SkillInit, Phases
<1>8. RecordsInv
  BY <1>5, <1>6, Nothing DEF RecordsInv, NoEntry
<1>9. FirstRecordInv
  <2> SUFFICES ASSUME NEW s \in Slots, NEW n \in Names, disk[s].listing.says[n] # 0
               PROVE  <<s, n, Digest(disk[s].listing.url, disk[s].listing.rev,
                                     disk[s].listing.says[n])>> \in vouched
    BY <1>6 DEF FirstRecordInv
  <2>1. CASE old
    BY <1>2, <1>3, <1>4, <1>5, <2>1
  <2>2. CASE ~old
    BY <1>5, <2>2 DEF NoListing
  <2>3. QED
    BY <2>1, <2>2
<1>10. EntryInv /\ OnlyVouched
  BY <1>6 DEF EntryInv, OnlyVouched, SkillInit
<1>11. QED
  BY <1>7, <1>8, <1>9, <1>10 DEF SkillInv

\* Whatever the worker and the world do between two changes of the cache.
LEMMA WorkerKeeps ==
    ASSUME SkillInv,
           \/ SourcesUnreadable \/ PublishRestored \/ Publish \/ Pauses \/ Sleeps
           \/ \E job \in todo : StartReview(job)
           \/ \E job \in reviews : ReviewDies(job)
           \/ \E n \in Names : Materialize(n)
           \/ \E s \in Slots, url \in Urls \cup {Unconfigured} : EditSources(s, url)
    PROVE  SkillInv'
<1>1. SkillTypeOK
  BY DEF SkillInv
<1>2. /\ UNCHANGED <<upstream, disk, entries, config, vouched, unrecorded, lost>>
      /\ shown' = shown \/ shown' = Catalog(entries)
  BY DEF SourcesUnreadable, PublishRestored, Publish, Pauses, Sleeps, StartReview,
         ReviewDies, Materialize, EditSources, worldVars, memoryVars
<1>3. at' \in Phases /\ reviews' \subseteq Jobs /\ sources' \in [Slots -> AllUrls]
  BY <1>1 DEF SkillTypeOK, Phases, SourcesUnreadable, PublishRestored, Publish,
              Pauses, Sleeps, StartReview, ReviewDies, Materialize, EditSources,
              worldVars, memoryVars, AllUrls
<1>4. /\ at' = "check" => at = "check" /\ todo' = todo
      /\ at' = "review" =>
           \/ todo' \in ReviewRound
           \/ at = "review" /\ todo' \subseteq todo
  BY DEF SourcesUnreadable, PublishRestored, Publish, Pauses, Sleeps, StartReview,
         ReviewDies, Materialize, EditSources, worldVars, memoryVars
<1>5. SkillTypeOK'
  BY <1>1, <1>2, <1>3, <1>4, RoundType DEF SkillTypeOK
<1>6. QED
  BY <1>2, <1>5, Quiet

LEMMA ReadsKeep ==
    ASSUME SkillInv, StartSkills \/ ReadSources PROVE SkillInv'
<1>1. SkillTypeOK /\ EntryInv /\ FirstRecordInv /\ RecordsInv
  BY DEF SkillInv
<1>2. /\ config' = sources
      /\ entries' = [s \in Slots |-> IF entries[s].url = sources[s] THEN entries[s]
                                     ELSE NoEntry]
      /\ UNCHANGED <<upstream, sources, disk, reviews, shown, vouched, unrecorded, lost>>
      /\ at' \in {"restore", "check"}
      /\ at' = "check" => todo' = {s \in Slots : sources[s] # Unconfigured}
  BY DEF StartSkills, ReadSources, ReadConfig, worldVars
<1>3. /\ entries' \in [Slots -> Entries]
      /\ \A s \in Slots : entries'[s] # NoEntry =>
           entries'[s] = entries[s] /\ entries[s].url = sources[s]
  BY <1>1, <1>2, Nothing DEF SkillTypeOK
<1>4. SkillTypeOK'
  BY <1>1, <1>2, <1>3 DEF SkillTypeOK, Phases
<1>5. EntryInv' /\ FirstRecordInv'
  BY <1>1, <1>2, <1>3 DEF EntryInv, FirstRecordInv
<1>6. RecordsInv'
  BY <1>1, <1>2, <1>3, Nothing DEF RecordsInv
<1>7. OnlyVouched'
  BY <1>2, ShownStill DEF SkillInv
<1>8. QED
  BY <1>4, <1>5, <1>6, <1>7 DEF SkillInv

LEMMA CrashKeeps ==
    ASSUME SkillInv, CrashSkills PROVE SkillInv'
<1>1. SkillTypeOK /\ FirstRecordInv /\ RecordsInv
  BY DEF SkillInv
<1>2. /\ at' = "start" /\ reviews' = {} /\ config' = [s \in Slots |-> Unconfigured]
      /\ entries' = [s \in Slots |-> NoEntry]
      /\ shown' = [n \in Names |-> NothingShown]
      /\ UNCHANGED <<upstream, sources, disk, vouched, unrecorded, lost>>
  BY DEF CrashSkills, worldVars
<1>3. SkillTypeOK'
  BY <1>1, <1>2, Nothing DEF SkillTypeOK, Phases, AllUrls
<1>4. EntryInv' /\ FirstRecordInv' /\ RecordsInv' /\ OnlyVouched'
  BY <1>1, <1>2, Nothing DEF EntryInv, FirstRecordInv, RecordsInv, OnlyVouched
<1>5. QED
  BY <1>3, <1>4 DEF SkillInv

LEMMA ChangeKeeps ==
    ASSUME SkillInv, NEW u \in Urls, NEW n \in Names, NEW version \in Versions \cup {0},
           Change(u, n, version)
    PROVE  SkillInv'
<1>1. SkillTypeOK
  BY DEF SkillInv
<1>2. /\ upstream' = [upstream EXCEPT ![u].rev = Revision(u, upstream[u].rev[2] + 1),
                                        ![u].says[n] = version]
      /\ UNCHANGED <<sources, disk, at, todo, config, entries, reviews, shown, vouched,
                     unrecorded, lost>>
  BY DEF Change, memoryVars
<1>3. Revision(u, upstream[u].rev[2] + 1) \in Revs /\ version \in Nat
  <2>1. upstream[u].rev \in AllUrls \X Nat
    BY <1>1 DEF SkillTypeOK, Listings, Revs
  <2>2. upstream[u].rev[2] + 1 \in Nat /\ u \in AllUrls
    BY <2>1 DEF AllUrls
  <2>3. QED
    BY <2>2, SkillAssumption, SMTT(20) DEF Revs, Revision
<1>4. upstream' \in [Urls -> Listings]
  BY <1>1, <1>2, <1>3, ZenonT(20) DEF SkillTypeOK, Listings
<1>5. SkillTypeOK'
  BY <1>1, <1>2, <1>4 DEF SkillTypeOK
<1>6. QED
  BY <1>2, <1>5, Quiet

LEMMA RestoreKeeps ==
    ASSUME SkillInv, NEW s \in Slots, RestoreSource(s) PROVE SkillInv'
<1>1. SkillTypeOK /\ EntryInv /\ FirstRecordInv /\ RecordsInv
  BY DEF SkillInv
<1> DEFINE url == config[s]
           listing == CachedListing(s, url)
           record == Restored(s).record
<1>2. /\ url \in Urls /\ entries[s] = NoEntry
      /\ entries' = [entries EXCEPT ![s] = Restored(s)]
      /\ UNCHANGED <<upstream, sources, at, todo, config, reviews, shown, vouched>>
  BY <1>1 DEF RestoreSource, Absent, worldVars, SkillTypeOK, AllUrls
<1>3. disk[s].listing \in Listings /\ disk[s].record \in Records
  BY <1>1 DEF SkillTypeOK
<1>4. listing \in Listings /\ (listing # NoListing => listing = disk[s].listing /\ listing.url = url)
  BY <1>3, Nothing DEF CachedListing
<1>5. Restored(s) = [url |-> url, listing |-> listing, record |-> record]
  BY DEF Restored
<1>6. NoRecord(url) \in Records /\ NoRecord(url).url = url
      /\ \A n \in Names : NoRecord(url).approved[n] = NoApproval
  <2>1. NoApproval \in Approvals /\ NoVerdict \in LastVerdicts
    BY DEF NoApproval, Approvals, NoVerdict, LastVerdicts, Digests, NoRevision, Revision,
           Revs, AllUrls
  <2>2. QED
    BY <1>2, <2>1 DEF NoRecord, Records, AllUrls
<1>7. /\ record \in Records /\ record.url = url
      /\ s \notin unrecorded => Good(s, record, vouched)
  <2>1. CASE disk[s].record = Missing
    <3> DEFINE approved ==
          [n \in Names |-> IF listing = NoListing \/ listing.says[n] = 0 THEN NoApproval
                           ELSE [digest |-> Digest(url, listing.rev, listing.says[n]),
                                 rev |-> listing.rev, version |-> listing.says[n]]]
    <3>1. record = [NoRecord(url) EXCEPT !.approved = approved]
      BY <2>1 DEF Restored, Baseline
    <3>2. approved \in [Names -> Approvals]
      <4> SUFFICES ASSUME NEW n \in Names PROVE approved[n] \in Approvals
        OBVIOUS
      <4>1. listing.rev \in Revs /\ listing.says[n] \in Nat
        BY <1>4 DEF Listings
      <4>2. Digest(url, listing.rev, listing.says[n]) \in Digests
        BY <4>1, DigestType
      <4>3. NoApproval \in Approvals
        BY <1>6 DEF Records
      <4> HIDE DEF listing, url
      <4>4. QED
        BY <4>1, <4>2, <4>3 DEF Approvals
    <3>3. \A n \in Names : approved[n] # NoApproval =>
             /\ approved[n].digest = Digest(url, approved[n].rev, approved[n].version)
             /\ listing # NoListing /\ listing.says[n] # 0
             /\ approved[n].digest = Digest(url, listing.rev, listing.says[n])
      <4> HIDE DEF listing, url
      <4>1. QED
        OBVIOUS
    <3> HIDE DEF approved
    <3>4. record \in Records /\ record.url = url /\ record.approved = approved
      BY <1>6, <3>1, <3>2 DEF Records
    <3>5. ASSUME s \notin unrecorded PROVE Good(s, record, vouched)
      <4> SUFFICES ASSUME NEW n \in Names, approved[n] # NoApproval
                   PROVE  <<s, n, approved[n].digest>> \in vouched
        BY <3>3, <3>4 DEF Good
      <4>1. /\ listing = disk[s].listing /\ listing.url = url /\ listing.says[n] # 0
            /\ approved[n].digest = Digest(url, listing.rev, listing.says[n])
        BY <1>4, <3>3
      <4> HIDE DEF listing, url
      <4>2. QED
        BY <1>1, <2>1, <3>5, <4>1 DEF FirstRecordInv
    <3>6. QED
      BY <3>4, <3>5
  <2>2. CASE disk[s].record # Missing /\ disk[s].record.url = url
    <3>1. record = disk[s].record
      BY <2>2 DEF Restored
    <3>2. QED
      BY <1>1, <1>3, <2>2, <3>1 DEF RecordsInv
  <2>3. CASE disk[s].record # Missing /\ disk[s].record.url # url
    <3>1. record = NoRecord(url)
      BY <2>3 DEF Restored
    <3>2. QED
      BY <1>6, <3>1 DEF Good
  <2>4. QED
    BY <2>1, <2>2, <2>3
<1>8. Restored(s) \in Entries /\ Restored(s).url = url
  BY <1>2, <1>4, <1>5, <1>7 DEF Entries, AllUrls
<1>9. entries'[s].record = record /\ entries'[s].url = url
      /\ entries' \in [Slots -> Entries]
      /\ \A r \in Slots : r # s => entries'[r] = entries[r]
  BY <1>1, <1>2, <1>5, <1>8 DEF SkillTypeOK
<1>10. record # Missing
  BY <1>2, <1>7, SkillAssumption DEF Missing, NoRecord
<1>11. /\ disk' \in [Slots -> [listing : Listings, record : Records]]
       /\ disk'[s].record \in {disk[s].record, record}
       /\ disk'[s].listing = disk[s].listing
       /\ \A r \in Slots : r # s => disk'[r] = disk[r]
       /\ unrecorded' \in {unrecorded, unrecorded \cup {s}} /\ lost' \in Nat
       /\ s \notin unrecorded' => disk'[s].record # Missing
  <2> HIDE DEF record, url, listing
  <2>1. lost \in Nat /\ disk \in [Slots -> [listing : Listings, record : Records]]
    BY <1>1 DEF SkillTypeOK
  <2>2. CASE disk[s].record # Missing
    BY <2>1, <2>2 DEF RestoreSource
  <2>3. CASE disk[s].record = Missing
    <3>1. Write(s, record)
      BY <2>3 DEF RestoreSource, record
    <3>2. unrecorded' = IF lost' # lost THEN unrecorded \cup {s} ELSE unrecorded
      BY DEF RestoreSource
    <3>3. CASE disk' = [disk EXCEPT ![s].record = record] /\ UNCHANGED lost
      BY <1>7, <1>10, <2>1, <3>2, <3>3
    <3>4. CASE lost' = lost + 1 /\ UNCHANGED disk
      BY <2>1, <3>2, <3>4
    <3>5. QED
      BY <3>1, <3>3, <3>4 DEF Write
  <2>4. QED
    BY <2>2, <2>3
<1>12. SkillTypeOK'
  BY <1>1, <1>2, <1>9, <1>11 DEF SkillTypeOK
<1> HIDE DEF record, listing
<1>13. EntryInv'
  BY <1>1, <1>2, <1>7, <1>9 DEF EntryInv
<1>14. FirstRecordInv'
  BY <1>1, <1>2, <1>9, <1>11 DEF FirstRecordInv
<1>15. RecordsInv'
  <2> SUFFICES ASSUME NEW r \in Slots \ unrecorded'
               PROVE  Good(r, entries'[r].record, vouched) /\ Good(r, disk'[r].record, vouched)
    BY <1>2 DEF RecordsInv
  <2>1. Good(r, entries[r].record, vouched) /\ Good(r, disk[r].record, vouched)
    BY <1>1, <1>11 DEF RecordsInv
  <2>2. CASE r = s
    BY <1>7, <1>9, <1>11, <2>1, <2>2
  <2>3. CASE r # s
    BY <1>9, <1>11, <2>1, <2>3
  <2>4. QED
    BY <2>2, <2>3
<1>16. OnlyVouched'
  BY <1>2, <1>11, ShownStill DEF SkillInv
<1>17. QED
  BY <1>12, <1>13, <1>14, <1>15, <1>16 DEF SkillInv

LEMMA CheckKeeps ==
    ASSUME SkillInv, NEW s \in Slots, CheckSource(s) PROVE SkillInv'
<1>1. SkillTypeOK /\ EntryInv /\ FirstRecordInv /\ RecordsInv
  BY DEF SkillInv
<1>2. /\ at = "check" /\ s \in todo /\ (config[s] # Unconfigured => entries[s] # NoEntry)
      /\ todo' = todo \ {s}
      /\ UNCHANGED <<upstream, sources, at, config, reviews, shown, vouched, unrecorded,
                     lost>>
      /\ \/ /\ entries' = [entries EXCEPT ![s].listing = upstream[config[s]]]
            /\ disk' = [disk EXCEPT ![s].listing = upstream[config[s]]]
         \/ UNCHANGED <<entries, disk>>
  BY DEF CheckSource, Absent, worldVars
<1>3. config[s] \in Urls /\ entries[s] # NoEntry
  BY <1>1, <1>2 DEF SkillTypeOK, AllUrls
<1>4. CASE UNCHANGED <<entries, disk>>
  <2>1. SkillTypeOK'
    BY <1>1, <1>2, <1>4 DEF SkillTypeOK
  <2>2. QED
    BY <1>2, <1>4, <2>1, Quiet
<1>5. CASE /\ entries' = [entries EXCEPT ![s].listing = upstream[config[s]]]
           /\ disk' = [disk EXCEPT ![s].listing = upstream[config[s]]]
  <2>1. upstream[config[s]] \in Listings
    BY <1>1, <1>3 DEF SkillTypeOK
  <2>2. /\ entries' \in [Slots -> Entries]
        /\ entries'[s].url = entries[s].url /\ entries'[s].record = entries[s].record
        /\ \A r \in Slots : r # s => entries'[r] = entries[r]
    BY <1>1, <1>5, <2>1 DEF SkillTypeOK, Entries
  <2>3. /\ disk' \in [Slots -> [listing : Listings, record : Records]]
        /\ disk'[s].record = disk[s].record
        /\ \A r \in Slots : r # s => disk'[r] = disk[r]
    BY <1>1, <1>5, <2>1 DEF SkillTypeOK
  <2>4. SkillTypeOK'
    BY <1>1, <1>2, <2>2, <2>3 DEF SkillTypeOK
  <2>5. EntryInv'
    BY <1>1, <1>2, <1>3, <2>2 DEF EntryInv
  <2>6. FirstRecordInv'
    BY <1>1, <1>2, <1>3, <2>2, <2>3 DEF FirstRecordInv
  <2>7. RecordsInv'
    <3> SUFFICES ASSUME NEW r \in Slots \ unrecorded
                 PROVE  Good(r, entries'[r].record, vouched) /\ Good(r, disk'[r].record, vouched)
      BY <1>2 DEF RecordsInv
    <3>1. Good(r, entries[r].record, vouched) /\ Good(r, disk[r].record, vouched)
      BY <1>1 DEF RecordsInv
    <3>2. entries'[r].record = entries[r].record /\ disk'[r].record = disk[r].record
      BY <2>2, <2>3
    <3>3. QED
      BY <3>1, <3>2
  <2>8. OnlyVouched'
    BY <1>2, ShownStill DEF SkillInv
  <2>9. QED
    BY <2>4, <2>5, <2>6, <2>7, <2>8 DEF SkillInv
<1>6. QED
  BY <1>2, <1>4, <1>5

LEMMA SavedCount ==
    ASSUME SkillTypeOK, NEW s, NEW record, Save(s, record)
    PROVE  lost' \in Nat
  BY DEF Save, Write, SkillTypeOK

\* An approval of what is listed.
LEMMA ApproveKeeps ==
    ASSUME SkillInv, NEW job \in Jobs, Approve(job), entries[job.slot] # NoEntry,
           entries[job.slot].listing.rev = job.rev,
           ListedDigest(job.slot, job.name) = job.digest,
           UNCHANGED <<config, unrecorded>>
    PROVE  /\ entries' \in [Slots -> Entries]
           /\ disk' \in [Slots -> [listing : Listings, record : Records]]
           /\ lost' \in Nat /\ EntryInv' /\ FirstRecordInv' /\ RecordsInv'
           /\ shown' = Catalog(entries')
<1>1. SkillTypeOK /\ EntryInv /\ RecordsInv
  BY DEF SkillInv
<1> PICK s, n : s = job.slot /\ n = job.name
  OBVIOUS
<1>2. s \in Slots /\ n \in Names /\ job.rev \in Revs /\ job.digest \in Digests
  BY DEF Jobs
<1>3. entries[s].record \in Records /\ entries[s].listing.says[n] \in Nat
  BY <1>1, <1>2, JobType
<1> DEFINE record == [entries[s].record EXCEPT !.approved[n] = Approved(job),
                                               !.latest[n] = NoVerdict]
<1>4. Approved(job) = [digest |-> job.digest, rev |-> job.rev,
                       version |-> entries[s].listing.says[n]]
  BY DEF Approved
<1>5. Approved(job) \in Approvals
  BY <1>2, <1>3, <1>4 DEF Approvals
<1>6. NoVerdict \in LastVerdicts
  BY DEF NoVerdict, LastVerdicts, Digests
<1>7. /\ record \in Records /\ record.url = entries[s].record.url
      /\ record.approved = [entries[s].record.approved EXCEPT ![n] = Approved(job)]
      /\ entries[s].record.approved \in [Names -> Approvals]
  BY <1>2, <1>3, <1>5, <1>6 DEF Records
<1>8. /\ Save(s, record) /\ vouched' = vouched \cup {<<s, n, job.digest>>}
  BY DEF Approve
<1>9. entries[s].record.url = entries[s].url
  BY <1>1, <1>2 DEF EntryInv
<1>10. job.digest = Digest(entries[s].url, job.rev, entries[s].listing.says[n])
  BY DEF ListedDigest
<1> HIDE DEF record
<1>11. ASSUME s \notin unrecorded PROVE Good(s, record, vouched')
  <2>1. Good(s, entries[s].record, vouched)
    BY <1>1, <1>2, <1>11 DEF RecordsInv
  <2> SUFFICES ASSUME NEW m \in Names, record.approved[m] # NoApproval
               PROVE  /\ record.approved[m].digest =
                           Digest(record.url, record.approved[m].rev,
                                  record.approved[m].version)
                      /\ <<s, m, record.approved[m].digest>> \in vouched'
    BY DEF Good
  <2>2. CASE m = n
    <3>1. record.approved[m] = Approved(job)
      BY <1>2, <1>7, <2>2
    <3>2. <<s, n, job.digest>> \in vouched'
      BY <1>8
    <3>3. /\ Approved(job).digest = job.digest /\ Approved(job).rev = job.rev
          /\ Approved(job).version = entries[s].listing.says[n]
      BY <1>4
    <3>4. QED
      BY <1>7, <1>9, <1>10, <2>2, <3>1, <3>2, <3>3
  <2>3. CASE m # n
    <3>1. record.approved[m] = entries[s].record.approved[m]
      BY <1>7, <2>3
    <3>2. QED
      BY <1>7, <1>8, <2>1, <3>1 DEF Good
  <2>4. QED
    BY <2>2, <2>3
<1>12. /\ entries' \in [Slots -> Entries]
       /\ disk' \in [Slots -> [listing : Listings, record : Records]]
       /\ EntryInv' /\ FirstRecordInv' /\ RecordsInv'
  BY <1>2, <1>7, <1>8, <1>9, <1>11, SaveKeeps
<1>13. lost' \in Nat /\ shown' = Catalog(entries')
  BY <1>1, <1>8, SavedCount DEF Save
<1>14. QED
  BY <1>12, <1>13

LEMMA RecordKeeps ==
    ASSUME SkillInv, NEW job \in Jobs, NEW verdict \in Verdicts, Record(job, verdict),
           UNCHANGED <<config, unrecorded>>
    PROVE  /\ entries' \in [Slots -> Entries]
           /\ disk' \in [Slots -> [listing : Listings, record : Records]]
           /\ lost' \in Nat /\ EntryInv' /\ FirstRecordInv' /\ RecordsInv'
           /\ shown' = Catalog(entries')
<1>1. SkillTypeOK /\ EntryInv /\ FirstRecordInv /\ RecordsInv
  BY DEF SkillInv
<1>2. CASE ~StillListed(job)
  <2>1. shown' = Catalog(entries) /\ UNCHANGED <<entries, disk, lost, vouched>>
    BY <1>2 DEF Record
  <2>2. QED
    BY <1>1, <2>1 DEF SkillTypeOK, EntryInv, FirstRecordInv, RecordsInv
<1>3. CASE StillListed(job)
  <2>1. /\ entries[job.slot] # NoEntry /\ entries[job.slot].listing.rev = job.rev
        /\ ListedDigest(job.slot, job.name) = job.digest
    BY <1>3 DEF StillListed, IsListed, NoEntry
  <2>2. CASE verdict = "safe"
    <3>1. Approve(job)
      BY <1>3, <2>2 DEF Record
    <3>2. QED
      BY <2>1, <3>1, ApproveKeeps
  <2>3. CASE verdict # "safe"
    <3> PICK s, n : s = job.slot /\ n = job.name
      OBVIOUS
    <3> PICK retry : retry = IF verdict = "unjudged" THEN "later" ELSE "never"
      OBVIOUS
    <3> DEFINE last == [digest |-> job.digest, retry |-> retry]
               record == [entries[s].record EXCEPT !.latest[n] = last]
    <3>1. Save(s, record) /\ vouched' = vouched
      BY <1>3, <2>3 DEF Record
    <3>2. s \in Slots /\ n \in Names /\ job.digest \in Digests
      BY DEF Jobs
    <3>3. last \in LastVerdicts
      BY <3>2 DEF LastVerdicts
    <3>4. entries[s].record \in Records
      BY <1>1, <3>2, JobType
    <3> HIDE DEF last
    <3>5. /\ record \in Records /\ record.url = entries[s].record.url
          /\ record.approved = entries[s].record.approved
      BY <3>2, <3>3, <3>4 DEF Records
    <3> HIDE DEF record
    <3>6. entries[s].record.url = entries[s].url
      BY <1>1, <2>1, <3>2 DEF EntryInv
    <3>7. s \notin unrecorded => Good(s, record, vouched')
      BY <1>1, <3>1, <3>2, <3>5 DEF RecordsInv, Good
    <3>8. /\ entries' \in [Slots -> Entries]
          /\ disk' \in [Slots -> [listing : Listings, record : Records]]
          /\ EntryInv' /\ FirstRecordInv' /\ RecordsInv'
      BY <2>1, <3>1, <3>2, <3>5, <3>6, <3>7, SaveKeeps
    <3>9. lost' \in Nat /\ shown' = Catalog(entries')
      BY <1>1, <3>1, SavedCount DEF Save
    <3>10. QED
      BY <3>8, <3>9
  <2>4. QED
    BY <2>2, <2>3
<1>4. QED
  BY <1>2, <1>3

\* A review ends, or could not start.
LEMMA ReviewKeeps ==
    ASSUME SkillInv, NEW job \in Jobs, NEW verdict \in Verdicts, Finish(job, verdict),
           UNCHANGED <<upstream, sources, config>>,
           reviews' \subseteq reviews,
           \/ at' = "config"
           \/ at = "review" /\ at' = "review" /\ todo' \subseteq todo
    PROVE  SkillInv'
<1>1. Record(job, verdict) /\ UNCHANGED unrecorded
  BY DEF Finish
<1>2. /\ entries' \in [Slots -> Entries]
      /\ disk' \in [Slots -> [listing : Listings, record : Records]]
      /\ lost' \in Nat /\ EntryInv' /\ FirstRecordInv' /\ RecordsInv'
      /\ shown' = Catalog(entries')
  BY <1>1, RecordKeeps
<1>3. SkillTypeOK'
  BY <1>1, <1>2 DEF SkillInv, SkillTypeOK, Phases
<1>4. OnlyVouched'
  BY <1>2, <1>3, ShownAgain
<1>5. QED
  BY <1>2, <1>3, <1>4 DEF SkillInv

LEMMA UnreadKeeps ==
    ASSUME SkillInv, NEW job \in todo, ReviewUnread(job) PROVE SkillInv'
<1>1. /\ Finish(job, "unjudged") /\ UNCHANGED <<upstream, sources, config, reviews>>
      /\ at = "review" /\ at' = "review" /\ todo' \subseteq todo
  BY DEF ReviewUnread, worldVars
<1>2. job \in Jobs
  BY <1>1 DEF SkillInv, SkillTypeOK
<1>3. "unjudged" \in Verdicts
  BY DEF Verdicts
<1>4. QED
  BY <1>1, <1>2, <1>3, ReviewKeeps

LEMMA EndKeeps ==
    ASSUME SkillInv, NEW job \in reviews, NEW verdict \in Verdicts, ReviewEnds(job, verdict)
    PROVE  SkillInv'
<1>1. /\ Finish(job, verdict) /\ UNCHANGED <<upstream, sources, config>>
      /\ at' = "config" /\ reviews' \subseteq reviews
  BY DEF ReviewEnds, worldVars
<1>2. job \in Jobs
  BY DEF SkillInv, SkillTypeOK
<1>3. QED
  BY <1>1, <1>2, ReviewKeeps

LEMMA AcceptKeeps ==
    ASSUME SkillInv, NEW n \in Names, Accept(n) PROVE SkillInv'
<1>1. SkillTypeOK /\ EntryInv /\ FirstRecordInv /\ RecordsInv
  BY DEF SkillInv
<1> DEFINE fits == {i \in DOMAIN Order : IsListed(entries[Order[i]], n)}
           i == CHOOSE j \in fits : \A k \in fits : j <= k
<1>2. /\ at' = "config" /\ UNCHANGED <<upstream, sources, config, reviews, unrecorded>>
      /\ IF fits # {} /\ ~IsCurrent(entries[Order[i]], n)
         THEN Approve(Job(Order[i], n))
         ELSE shown' = Catalog(entries) /\ UNCHANGED <<entries, disk, lost, vouched>>
  BY DEF Accept, worldVars
<1>3. CASE shown' = Catalog(entries) /\ UNCHANGED <<entries, disk, lost, vouched>>
  <2>1. SkillTypeOK'
    BY <1>1, <1>2, <1>3 DEF SkillTypeOK, Phases
  <2>2. QED
    BY <1>2, <1>3, <2>1, Quiet
<1>4. CASE fits # {} /\ Approve(Job(Order[i], n))
  <2>1. DOMAIN Order \subseteq Nat /\ \A j \in DOMAIN Order : Order[j] \in Slots
    BY SkillAssumption
  <2>2. fits \in SUBSET Nat
    BY <2>1
  <2>3. \E j \in fits : \A k \in fits : j <= k
    <3>1. fits # {}
      BY <1>4
    <3> HIDE DEF fits
    <3>2. QED
      BY <2>2, <3>1, Least
  <2>4. i \in fits
    <3> HIDE DEF fits
    <3>1. QED
      BY <2>3
  <2>5. Order[i] \in Slots /\ IsListed(entries[Order[i]], n)
    BY <2>1, <2>4
  <2> PICK s : s = Order[i]
    OBVIOUS
  <2>6. s \in Slots /\ IsListed(entries[s], n) /\ Approve(Job(s, n))
    BY <1>4, <2>5
  <2> PICK job : job = Job(s, n)
    OBVIOUS
  <2>7. /\ job \in Jobs /\ job.slot = s /\ job.name = n
        /\ job.rev = entries[s].listing.rev /\ job.digest = ListedDigest(s, n)
    BY <1>1, <2>6, JobType DEF Job
  <2>8. entries[s] # NoEntry
    BY <2>6, Nothing DEF IsListed
  <2>9. Approve(job)
    BY <2>6
  <2>10. /\ entries' \in [Slots -> Entries]
         /\ disk' \in [Slots -> [listing : Listings, record : Records]]
         /\ lost' \in Nat /\ EntryInv' /\ FirstRecordInv' /\ RecordsInv'
         /\ shown' = Catalog(entries')
    BY <1>2, <2>7, <2>8, <2>9, ApproveKeeps
  <2>11. SkillTypeOK'
    BY <1>1, <1>2, <2>10 DEF SkillTypeOK, Phases
  <2>12. QED
    BY <2>10, <2>11, ShownAgain DEF SkillInv
<1>5. QED
  BY <1>2, <1>3, <1>4

LEMMA RetryNow ==
    ASSUME NEW record \in Records, NEW n \in Names
    PROVE  LET next == [record EXCEPT !.latest[n].retry = "now"]
           IN  /\ next \in Records /\ next.url = record.url
               /\ next.approved = record.approved /\ next.latest[n].retry = "now"
<1> DEFINE last == [record.latest[n] EXCEPT !.retry = "now"]
<1>1. last \in LastVerdicts /\ last.retry = "now"
  BY DEF Records, LastVerdicts
<1>2. [record EXCEPT !.latest[n].retry = "now"] = [record EXCEPT !.latest[n] = last]
  OBVIOUS
<1> HIDE DEF last
<1>3. QED
  BY <1>1, <1>2 DEF Records

LEMMA WaitKeeps ==
    ASSUME SkillInv, Waits PROVE SkillInv'
<1>1. SkillTypeOK /\ EntryInv /\ FirstRecordInv /\ RecordsInv
  BY DEF SkillInv
<1>2. UNCHANGED <<upstream, sources, at, todo, config, reviews, shown, lost, vouched,
                  unrecorded>>
  BY DEF Waits, worldVars
<1>3. CASE UNCHANGED <<disk, entries>>
  <2>1. SkillTypeOK'
    BY <1>1, <1>2, <1>3 DEF SkillTypeOK
  <2>2. QED
    BY <1>2, <1>3, <2>1, Quiet
<1>4. ASSUME NEW s \in Slots, NEW n \in Names,
             entries[s].record.latest[n].retry = "later",
             entries' = [entries EXCEPT ![s].record.latest[n].retry = "now"],
             disk' = IF disk[s].record.latest[n] = entries[s].record.latest[n]
                     THEN [disk EXCEPT ![s].record.latest[n].retry = "now"]
                     ELSE disk
      PROVE  SkillInv'
  <2>1. entries[s] # NoEntry
    BY <1>4, Nothing
  <2>2. /\ entries' \in [Slots -> Entries]
        /\ entries'[s].url = entries[s].url /\ entries'[s].listing = entries[s].listing
        /\ entries'[s].record.url = entries[s].record.url
        /\ entries'[s].record.approved = entries[s].record.approved
        /\ \A r \in Slots : r # s => entries'[r] = entries[r]
    <3> PICK record : record = entries[s].record
      OBVIOUS
    <3> DEFINE next == [record EXCEPT !.latest[n].retry = "now"]
    <3>1. record \in Records
      BY <1>1 DEF SkillTypeOK, Entries
    <3>2. next \in Records /\ next.url = record.url /\ next.approved = record.approved
      BY <3>1, RetryNow
    <3>3. entries' = [entries EXCEPT ![s].record = next]
      BY <1>4
    <3> HIDE DEF next
    <3>4. QED
      BY <1>1, <3>2, <3>3 DEF SkillTypeOK, Entries
  <2>3. /\ disk' \in [Slots -> [listing : Listings, record : Records]]
        /\ disk'[s].listing = disk[s].listing
        /\ disk'[s].record.url = disk[s].record.url
        /\ disk'[s].record.approved = disk[s].record.approved
        /\ \/ disk'[s].record = disk[s].record
           \/ disk'[s].record.latest[n].retry = "now"
        /\ \A r \in Slots : r # s => disk'[r] = disk[r]
    <3>1. CASE disk' = disk
      BY <1>1, <3>1 DEF SkillTypeOK
    <3>2. CASE disk' = [disk EXCEPT ![s].record.latest[n].retry = "now"]
      <4> PICK record : record = disk[s].record
        OBVIOUS
      <4> DEFINE next == [record EXCEPT !.latest[n].retry = "now"]
      <4>1. record \in Records
        BY <1>1 DEF SkillTypeOK
      <4>2. /\ next \in Records /\ next.url = record.url /\ next.approved = record.approved
            /\ next.latest[n].retry = "now"
        BY <4>1, RetryNow
      <4>3. disk' = [disk EXCEPT ![s].record = next]
        BY <3>2
      <4> HIDE DEF next
      <4>4. QED
        BY <1>1, <4>2, <4>3 DEF SkillTypeOK
    <3>3. QED
      BY <1>4, <3>1, <3>2
  <2>4. SkillTypeOK'
    BY <1>1, <1>2, <2>2, <2>3 DEF SkillTypeOK
  <2>5. EntryInv'
    BY <1>1, <1>2, <2>1, <2>2 DEF EntryInv
  <2>6. Missing.latest[n].retry = "never"
    BY Nothing DEF NoEntry
  <2>7. FirstRecordInv'
    <3> SUFFICES ASSUME NEW r \in Slots \ unrecorded, disk'[r].record = Missing
                 PROVE  /\ entries'[r] = NoEntry
                        /\ \A m \in Names : disk'[r].listing.says[m] # 0 =>
                             <<r, m, Digest(disk'[r].listing.url, disk'[r].listing.rev,
                                            disk'[r].listing.says[m])>> \in vouched
      BY <1>2 DEF FirstRecordInv
    <3>1. disk[r].record = Missing
      BY <2>3, <2>6
    <3>2. r # s
      BY <1>1, <2>1, <3>1 DEF FirstRecordInv
    <3>3. QED
      BY <1>1, <2>2, <2>3, <3>1, <3>2 DEF FirstRecordInv
  <2>8. RecordsInv'
    <3> SUFFICES ASSUME NEW r \in Slots \ unrecorded
                 PROVE  Good(r, entries'[r].record, vouched) /\ Good(r, disk'[r].record, vouched)
      BY <1>2 DEF RecordsInv
    <3>1. Good(r, entries[r].record, vouched) /\ Good(r, disk[r].record, vouched)
      BY <1>1 DEF RecordsInv
    <3>2. CASE r = s
      <4>1. Good(s, entries'[s].record, vouched)
        BY <2>2, <3>1, <3>2 DEF Good
      <4>2. Good(s, disk'[s].record, vouched)
        BY <2>3, <3>1, <3>2 DEF Good
      <4>3. QED
        BY <3>2, <4>1, <4>2
    <3>3. CASE r # s
      BY <2>2, <2>3, <3>1, <3>3
    <3>4. QED
      BY <3>2, <3>3
  <2>9. OnlyVouched'
    BY <1>2, ShownStill DEF SkillInv
  <2>10. QED
    BY <2>4, <2>5, <2>7, <2>8, <2>9 DEF SkillInv
<1>5. QED
  BY <1>3, <1>4 DEF Waits, TimePasses

-----------------------------------------------------------------------------
(* Every step, and the theorems.                                             *)

LEMMA SkillStep ==
    ASSUME SkillInv, [SkillNext]_skillVars PROVE SkillInv'
<1>1. CASE UNCHANGED skillVars
  <2>1. UNCHANGED <<upstream, sources, disk, at, todo, config, entries, reviews, shown,
                    lost, vouched, unrecorded>>
    BY <1>1 DEF skillVars, worldVars, memoryVars
  <2>2. SkillTypeOK'
    BY <2>1 DEF SkillInv, SkillTypeOK
  <2>3. QED
    BY <2>1, <2>2, Quiet
<1>2. CASE StartSkills \/ ReadSources
  BY <1>2, ReadsKeep
<1>3. CASE \/ SourcesUnreadable \/ PublishRestored \/ Publish \/ Pauses \/ Sleeps
           \/ \E job \in todo : StartReview(job)
           \/ \E job \in reviews : ReviewDies(job)
           \/ \E n \in Names : Materialize(n)
           \/ \E s \in Slots, url \in Urls \cup {Unconfigured} : EditSources(s, url)
  BY <1>3, WorkerKeeps
<1>4. CASE \E s \in Slots : RestoreSource(s)
  BY <1>4, RestoreKeeps
<1>5. CASE \E s \in Slots : CheckSource(s)
  BY <1>5, CheckKeeps
<1>6. CASE \E job \in todo : ReviewUnread(job)
  BY <1>6, UnreadKeeps
<1>7. CASE \E job \in reviews, verdict \in Verdicts : ReviewEnds(job, verdict)
  BY <1>7, EndKeeps
<1>8. CASE \E n \in Names : Accept(n)
  BY <1>8, AcceptKeeps
<1>9. CASE \E u \in Urls, n \in Names, version \in Versions \cup {0} : Change(u, n, version)
  BY <1>9, ChangeKeeps
<1>10. CASE Waits
  BY <1>10, WaitKeeps
<1>11. CASE CrashSkills
  BY <1>11, CrashKeeps
<1>12. QED
  BY <1>1, <1>2, <1>3, <1>4, <1>5, <1>6, <1>7, <1>8, <1>9, <1>10, <1>11 DEF SkillNext

LEMMA SkillInvariant == SkillSpec => []SkillInv
<1>1. SkillInit => SkillInv
  BY SkillStart
<1>2. SkillInv /\ [SkillNext]_skillVars => SkillInv'
  BY SkillStep
<1>3. QED
  BY <1>1, <1>2, PTL DEF SkillSpec

\* Sources, listings, records and reviews have their types, in memory and on
\* disk, whatever upstream, the user and the judges do (sources/store.rs).
THEOREM SkillTypeCorrect == SkillSpec => []SkillTypeOK
<1>1. SkillInv => SkillTypeOK
  BY DEF SkillInv
<1>2. QED
  BY <1>1, SkillInvariant, PTL

\* Agents see only versions that the judges found safe, the user accepted, or
\* that were in use before versions were reviewed, for any number of sources,
\* names, versions, changes, crashes and records that cannot be written
\* (vetting.rs, store.rs record).
THEOREM NothingUnvouched == SkillSpec => []OnlyVouched
<1>1. SkillInv => OnlyVouched
  BY DEF SkillInv
<1>2. QED
  BY <1>1, SkillInvariant, PTL

-----------------------------------------------------------------------------
(* What is approved stays: the invariant.                                    *)

\* An approval names a version there is.
Real(record) ==
    \A n \in Names : record.approved[n] # NoApproval => record.approved[n].version # 0

RealInv == \A s \in Slots : Real(entries[s].record) /\ Real(disk[s].record)

\* Every skill that old approves of, record does too.
Extends(record, old) ==
    \A n \in Names : old.approved[n] # NoApproval => record.approved[n] # NoApproval

\* Memory has every approval of its source that is on disk.
HeldInv ==
    \A s \in Slots :
        entries[s].url \in Urls /\ disk[s].record.url = entries[s].url
            => Extends(entries[s].record, disk[s].record)

\* A Git skill that is listed and has an approval is shown once published.
FreshInv ==
    at \in {"wait", "review"} => \A s \in Slots, n \in Names :
        (/\ entries[s].url \in Urls \ Http /\ IsListed(entries[s], n)
         /\ ApprovedIn(entries[s], n) # NoApproval)
        => shown[n] # NothingShown

StayInv == RealInv /\ HeldInv /\ FreshInv

\* The catalog leaves out no such skill: the current version is shown, or the
\* approved one.
LEMMA PublishedShows ==
    ASSUME NEW es, NEW s \in Slots, NEW n \in Names, Real(es[s].record),
           es[s].url \notin Http, IsListed(es[s], n), ApprovedIn(es[s], n) # NoApproval
    PROVE  Catalog(es)[n] # NothingShown
<1> DEFINE fits == {i \in DOMAIN Order : Visible(Order[i], es[Order[i]], n) # NothingShown}
           i == CHOOSE j \in fits : \A k \in fits : j <= k
<1>1. Visible(s, es[s], n) # NothingShown
  <2>1. CASE IsCurrent(es[s], n)
    BY <2>1 DEF Visible, VisibleLatest, IsListed, NothingShown
  <2>2. CASE ~IsCurrent(es[s], n)
    <3>1. Servable(s, es[s], n)
      BY DEF Servable
    <3>2. Visible(s, es[s], n).version = ApprovedIn(es[s], n).version
      BY <2>2, <3>1 DEF Visible
    <3>3. QED
      BY <3>2 DEF Real, ApprovedIn, NothingShown
  <2>3. QED
    BY <2>1, <2>2
<1>2. PICK j \in DOMAIN Order : Order[j] = s
  BY SkillAssumption
<1>3. j \in fits
  BY <1>1, <1>2
<1>4. DOMAIN Order \subseteq Nat
  BY SkillAssumption, SMTT(20)
<1>5. fits \in SUBSET Nat
  BY <1>4
<1>6. \E l \in fits : \A k \in fits : l <= k
  <2> HIDE DEF fits
  <2>1. QED
    BY <1>3, <1>5, Least
<1>7. i \in fits
  <2> HIDE DEF fits
  <2>1. QED
    BY <1>6
<1>8. Catalog(es)[n] = Visible(Order[i], es[Order[i]], n)
  BY <1>3 DEF Catalog, FirstVisible
<1>9. QED
  BY <1>7, <1>8

LEMMA FreshAgain ==
    ASSUME RealInv', shown' = Catalog(entries')
    PROVE  FreshInv'
<1> SUFFICES ASSUME NEW s \in Slots, NEW n \in Names, entries'[s].url \in Urls \ Http,
                    IsListed(entries'[s], n), ApprovedIn(entries'[s], n) # NoApproval
             PROVE  shown'[n] # NothingShown
  BY DEF FreshInv
<1> PICK es : es = entries'
  OBVIOUS
<1>1. Real(es[s].record)
  BY DEF RealInv
<1>2. Catalog(es)[n] # NothingShown
  BY <1>1, PublishedShows
<1>3. QED
  BY <1>2

\* Steps that leave the memory and the disk as they are.
LEMMA QuietStays ==
    ASSUME StayInv, UNCHANGED <<disk, entries>>,
           \/ shown' = Catalog(entries)
           \/ at' \notin {"wait", "review"}
           \/ shown' = shown /\ at \in {"wait", "review"}
    PROVE  StayInv'
<1>1. RealInv' /\ HeldInv'
  BY DEF StayInv, RealInv, HeldInv
<1>2. FreshInv'
  <2>1. CASE shown' = Catalog(entries)
    BY <1>1, <2>1, FreshAgain
  <2>2. CASE at' \notin {"wait", "review"}
    BY <2>2 DEF FreshInv
  <2>3. CASE shown' = shown /\ at \in {"wait", "review"}
    BY <2>3 DEF StayInv, FreshInv
  <2>4. QED
    BY <2>1, <2>2, <2>3
<1>3. QED
  BY <1>1, <1>2 DEF StayInv

\* A record replaces one it extends.
LEMMA SaveStays ==
    ASSUME SkillTypeOK, StayInv, NEW s \in Slots, NEW record, Save(s, record),
           Real(record), Extends(record, entries[s].record)
    PROVE  StayInv'
<1>1. /\ entries' = [entries EXCEPT ![s].record = record]
      /\ disk' = [disk EXCEPT ![s].record = record] \/ disk' = disk
      /\ shown' = Catalog(entries')
  BY DEF Save, Write
<1>2. /\ entries'[s].url = entries[s].url /\ entries'[s].record = record
      /\ \A r \in Slots : r # s => entries'[r] = entries[r]
  BY <1>1 DEF SkillTypeOK, Entries
<1>3. /\ disk'[s].record \in {disk[s].record, record}
      /\ \A r \in Slots : r # s => disk'[r] = disk[r]
  BY <1>1 DEF SkillTypeOK
<1>4. RealInv'
  BY <1>2, <1>3 DEF StayInv, RealInv
<1>5. HeldInv'
  <2> SUFFICES ASSUME NEW r \in Slots, entries'[r].url \in Urls,
                      disk'[r].record.url = entries'[r].url
               PROVE  Extends(entries'[r].record, disk'[r].record)
    BY DEF HeldInv
  <2>1. CASE r # s
    BY <1>2, <1>3, <2>1 DEF StayInv, HeldInv
  <2>2. CASE r = s /\ disk'[s].record = record
    BY <1>2, <2>2 DEF Extends
  <2>3. CASE r = s /\ disk'[s].record = disk[s].record
    <3>1. Extends(entries[s].record, disk[s].record)
      BY <1>2, <2>3 DEF StayInv, HeldInv
    <3>2. QED
      BY <1>2, <2>3, <3>1 DEF Extends
  <2>4. QED
    BY <1>3, <2>1, <2>2, <2>3
<1>6. FreshInv'
  BY <1>1, <1>4, FreshAgain
<1>7. QED
  BY <1>4, <1>5, <1>6 DEF StayInv

-----------------------------------------------------------------------------
(* What is approved stays: one lemma per kind of action.                     *)

\* No slot without an entry approves of anything.
LEMMA NothingApproved ==
    /\ \A n \in Names : Missing.approved[n] = NoApproval
    /\ Real(Missing) /\ Missing.url = Unconfigured
    /\ NoEntry.record = Missing /\ NoEntry.url = Unconfigured /\ Unconfigured \notin Urls
  BY SkillAssumption DEF Missing, NoRecord, NoEntry, Real

LEMMA StayStart == SkillInit => StayInv
<1> SUFFICES ASSUME SkillInit PROVE StayInv
  OBVIOUS
<1>1. \A s \in Slots : entries[s] = NoEntry /\ disk[s].record = Missing
  BY DEF SkillInit
<1>2. at \notin {"wait", "review"}
  BY DEF SkillInit
<1>3. QED
  BY <1>1, <1>2, NothingApproved DEF StayInv, RealInv, HeldInv, FreshInv

LEMMA WorkerStays ==
    ASSUME StayInv,
           \/ SourcesUnreadable \/ PublishRestored \/ Publish \/ Pauses \/ Sleeps
           \/ \E job \in todo : StartReview(job)
           \/ \E job \in reviews : ReviewDies(job)
           \/ \E n \in Names : Materialize(n)
           \/ \E s \in Slots, url \in Urls \cup {Unconfigured} : EditSources(s, url)
           \/ \E u \in Urls, n \in Names, version \in Versions \cup {0} :
                  Change(u, n, version)
    PROVE  StayInv'
<1>1. UNCHANGED <<disk, entries>>
  BY DEF SourcesUnreadable, PublishRestored, Publish, Pauses, Sleeps, StartReview,
         ReviewDies, Materialize, EditSources, Change, memoryVars
<1>2. \/ shown' = Catalog(entries)
      \/ at' \notin {"wait", "review"}
      \/ shown' = shown /\ at \in {"wait", "review"}
  BY DEF SourcesUnreadable, PublishRestored, Publish, Pauses, Sleeps, StartReview,
         ReviewDies, Materialize, EditSources, Change
<1>3. QED
  BY <1>1, <1>2, QuietStays

\* What is forgotten of a source approves of nothing in memory.
LEMMA ForgetsStays ==
    ASSUME StayInv, disk' = disk, at' \notin {"wait", "review"},
           \A s \in Slots : entries'[s] \in {entries[s], NoEntry}
    PROVE  StayInv'
<1>1. RealInv'
  BY NothingApproved DEF StayInv, RealInv
<1>2. HeldInv'
  BY NothingApproved DEF StayInv, HeldInv
<1>3. QED
  BY <1>1, <1>2 DEF StayInv, FreshInv

LEMMA ReadsStay ==
    ASSUME SkillTypeOK, StayInv, StartSkills \/ ReadSources \/ CrashSkills
    PROVE  StayInv'
<1>1. disk' = disk /\ at' \notin {"wait", "review"}
  BY DEF StartSkills, ReadSources, CrashSkills
<1>2. \A s \in Slots : entries'[s] \in {entries[s], NoEntry}
  BY DEF StartSkills, ReadSources, CrashSkills, ReadConfig
<1>3. QED
  BY <1>1, <1>2, ForgetsStays

LEMMA RestoreStays ==
    ASSUME SkillInv, StayInv, NEW s \in Slots, RestoreSource(s) PROVE StayInv'
<1>1. SkillTypeOK
  BY DEF SkillInv
<1> DEFINE url == config[s]
           listing == CachedListing(s, url)
           record == Restored(s).record
<1>2. /\ url \in Urls /\ at' \notin {"wait", "review"}
      /\ entries' = [entries EXCEPT ![s] = Restored(s)]
      /\ IF disk[s].record = Missing THEN Write(s, record) ELSE disk' = disk
  BY <1>1 DEF RestoreSource, Absent, SkillTypeOK, AllUrls
<1>3. Restored(s).url = url /\ Restored(s).record = record
  BY DEF Restored
<1>4. Real(record)
  <2>1. CASE disk[s].record = Missing
    <3>1. record = Baseline(s, url, listing)
      BY <2>1 DEF Restored
    <3>2. \A n \in Names : record.approved[n] # NoApproval =>
             record.approved[n].version = listing.says[n] /\ listing.says[n] # 0
      BY <3>1 DEF Baseline, NoRecord
    <3>3. QED
      BY <3>2 DEF Real
  <2>2. CASE disk[s].record # Missing /\ disk[s].record.url = url
    BY <2>2 DEF Restored, StayInv, RealInv
  <2>3. CASE disk[s].record # Missing /\ disk[s].record.url # url
    BY <2>3 DEF Restored, NoRecord, Real
  <2>4. QED
    BY <2>1, <2>2, <2>3
<1>5. /\ disk'[s].record \in {disk[s].record, record}
      /\ \A r \in Slots : r # s => disk'[r] = disk[r]
  BY <1>1, <1>2 DEF Write, SkillTypeOK
<1>6. \/ disk'[s].record = record
      \/ disk'[s].record.url # url
  <2>1. CASE disk[s].record = Missing
    BY <1>2, <1>5, <2>1, NothingApproved
  <2>2. CASE disk[s].record # Missing
    BY <1>2, <2>2 DEF Restored
  <2>3. QED
    BY <2>1, <2>2
<1>7. /\ entries'[s].url = url /\ entries'[s].record = record
      /\ \A r \in Slots : r # s => entries'[r] = entries[r]
  BY <1>1, <1>2, <1>3 DEF SkillTypeOK
<1> HIDE DEF record, url, listing
<1>8. RealInv'
  BY <1>4, <1>5, <1>7 DEF StayInv, RealInv
<1>9. HeldInv'
  BY <1>5, <1>6, <1>7 DEF StayInv, HeldInv, Extends
<1>10. QED
  BY <1>2, <1>8, <1>9 DEF StayInv, FreshInv

LEMMA CheckStays ==
    ASSUME SkillTypeOK, StayInv, NEW s \in Slots, CheckSource(s) PROVE StayInv'
<1>1. at' = "check"
  BY DEF CheckSource
<1>2. \A r \in Slots : /\ entries'[r].url = entries[r].url
                       /\ entries'[r].record = entries[r].record
                       /\ disk'[r].record = disk[r].record
  <2>1. CASE UNCHANGED <<entries, disk>>
    BY <2>1
  <2>2. CASE /\ entries' = [entries EXCEPT ![s].listing = upstream[config[s]]]
             /\ disk' = [disk EXCEPT ![s].listing = upstream[config[s]]]
    BY <2>2 DEF SkillTypeOK, Entries
  <2>3. QED
    BY <2>1, <2>2 DEF CheckSource
<1>3. QED
  BY <1>1, <1>2 DEF StayInv, RealInv, HeldInv, FreshInv

\* An approval of what is listed extends the record.
LEMMA ApproveStays ==
    ASSUME SkillTypeOK, StayInv, NEW job \in Jobs, Approve(job),
           IsListed(entries[job.slot], job.name)
    PROVE  StayInv'
<1> PICK s, n : s = job.slot /\ n = job.name
  OBVIOUS
<1>1. s \in Slots /\ n \in Names /\ job.rev \in Revs /\ job.digest \in Digests
  BY DEF Jobs
<1>2. entries[s].record \in Records
  BY <1>1, JobType
<1> DEFINE record == [entries[s].record EXCEPT !.approved[n] = Approved(job),
                                               !.latest[n] = NoVerdict]
<1>3. Save(s, record)
  BY DEF Approve
<1>4. Approved(job).version = entries[s].listing.says[n] /\ entries[s].listing.says[n] # 0
  BY DEF Approved, IsListed
<1>5. record.approved = [entries[s].record.approved EXCEPT ![n] = Approved(job)]
      /\ entries[s].record.approved \in [Names -> Approvals]
  BY <1>1, <1>2 DEF Records
<1>6. Approved(job) # NoApproval
  BY <1>4 DEF NoApproval
<1> HIDE DEF record
<1>7. Real(record)
  <2>1. Real(entries[s].record)
    BY <1>1 DEF StayInv, RealInv
  <2>2. QED
    BY <1>1, <1>4, <1>5, <2>1 DEF Real
<1>8. Extends(record, entries[s].record)
  BY <1>1, <1>5, <1>6 DEF Extends
<1>9. QED
  BY <1>1, <1>3, <1>7, <1>8, SaveStays

LEMMA RecordStays ==
    ASSUME SkillTypeOK, StayInv, NEW job \in Jobs, NEW verdict \in Verdicts,
           Record(job, verdict)
    PROVE  StayInv'
<1>1. CASE ~StillListed(job)
  <2>1. shown' = Catalog(entries) /\ UNCHANGED <<entries, disk>>
    BY <1>1 DEF Record
  <2>2. QED
    BY <2>1, QuietStays
<1>2. CASE StillListed(job) /\ verdict = "safe"
  <2>1. Approve(job) /\ IsListed(entries[job.slot], job.name)
    BY <1>2 DEF Record, StillListed
  <2>2. QED
    BY <2>1, ApproveStays
<1>3. CASE StillListed(job) /\ verdict # "safe"
  <2> PICK s, n : s = job.slot /\ n = job.name
    OBVIOUS
  <2> PICK last : last = [digest |-> job.digest,
                          retry |-> IF verdict = "unjudged" THEN "later" ELSE "never"]
    OBVIOUS
  <2> DEFINE record == [entries[s].record EXCEPT !.latest[n] = last]
  <2>1. Save(s, record)
    BY <1>3 DEF Record
  <2>2. s \in Slots /\ n \in Names
    BY DEF Jobs
  <2>3. entries[s].record \in Records
    BY <2>2, JobType
  <2>4. record.approved = entries[s].record.approved
    BY <2>3 DEF Records
  <2> HIDE DEF record
  <2>5. Real(record) /\ Extends(record, entries[s].record)
    BY <2>2, <2>4 DEF StayInv, RealInv, Real, Extends
  <2>6. QED
    BY <2>1, <2>2, <2>5, SaveStays
<1>4. QED
  BY <1>1, <1>2, <1>3

LEMMA ReviewsStay ==
    ASSUME SkillTypeOK, StayInv,
           \/ \E job \in todo : ReviewUnread(job)
           \/ \E job \in reviews, verdict \in Verdicts : ReviewEnds(job, verdict)
    PROVE  StayInv'
<1>1. \E job \in Jobs, verdict \in Verdicts : Record(job, verdict)
  <2>1. CASE \E job \in todo : ReviewUnread(job)
    <3>1. PICK job \in todo : ReviewUnread(job)
      BY <2>1
    <3>2. Record(job, "unjudged") /\ job \in Jobs /\ "unjudged" \in Verdicts
      BY <3>1 DEF ReviewUnread, Finish, SkillTypeOK, Verdicts
    <3>3. QED
      BY <3>2
  <2>2. CASE \E job \in reviews, verdict \in Verdicts : ReviewEnds(job, verdict)
    <3>1. PICK job \in reviews, verdict \in Verdicts : ReviewEnds(job, verdict)
      BY <2>2
    <3>2. Record(job, verdict) /\ job \in Jobs
      BY <3>1 DEF ReviewEnds, Finish, SkillTypeOK
    <3>3. QED
      BY <3>2
  <2>3. QED
    BY <2>1, <2>2
<1>2. QED
  BY <1>1, RecordStays

LEMMA AcceptStays ==
    ASSUME SkillTypeOK, StayInv, NEW n \in Names, Accept(n) PROVE StayInv'
<1> DEFINE fits == {i \in DOMAIN Order : IsListed(entries[Order[i]], n)}
           i == CHOOSE j \in fits : \A k \in fits : j <= k
<1>1. IF fits # {} /\ ~IsCurrent(entries[Order[i]], n)
      THEN Approve(Job(Order[i], n))
      ELSE shown' = Catalog(entries) /\ UNCHANGED <<entries, disk>>
  BY DEF Accept
<1>2. CASE shown' = Catalog(entries) /\ UNCHANGED <<entries, disk>>
  BY <1>2, QuietStays
<1>3. CASE fits # {} /\ Approve(Job(Order[i], n))
  <2>1. DOMAIN Order \subseteq Nat /\ \A j \in DOMAIN Order : Order[j] \in Slots
    BY SkillAssumption
  <2>2. fits \in SUBSET Nat
    BY <2>1
  <2>3. \E j \in fits : \A k \in fits : j <= k
    <3>1. fits # {}
      BY <1>3
    <3> HIDE DEF fits
    <3>2. QED
      BY <2>2, <3>1, Least
  <2>4. i \in fits
    <3> HIDE DEF fits
    <3>1. QED
      BY <2>3
  <2>5. Order[i] \in Slots /\ IsListed(entries[Order[i]], n)
    BY <2>1, <2>4
  <2> PICK s : s = Order[i]
    OBVIOUS
  <2> PICK job : job = Job(s, n)
    OBVIOUS
  <2>6. s \in Slots /\ IsListed(entries[s], n) /\ Approve(job)
    BY <1>3, <2>5
  <2>7. job \in Jobs /\ job.slot = s /\ job.name = n
    BY <2>6, JobType
  <2>8. QED
    BY <2>6, <2>7, ApproveStays
<1>4. QED
  BY <1>1, <1>2, <1>3

LEMMA WaitStays ==
    ASSUME SkillTypeOK, StayInv, Waits PROVE StayInv'
<1>1. shown' = shown /\ at' = at
  BY DEF Waits
<1>2. \A r \in Slots :
         /\ entries'[r].url = entries[r].url /\ entries'[r].listing = entries[r].listing
         /\ entries'[r].record.approved = entries[r].record.approved
         /\ disk'[r].record.url = disk[r].record.url
         /\ disk'[r].record.approved = disk[r].record.approved
  <2>1. CASE UNCHANGED <<disk, entries>>
    BY <2>1
  <2>2. ASSUME NEW s \in Slots, NEW n \in Names,
               entries' = [entries EXCEPT ![s].record.latest[n].retry = "now"],
               disk' = IF disk[s].record.latest[n] = entries[s].record.latest[n]
                       THEN [disk EXCEPT ![s].record.latest[n].retry = "now"]
                       ELSE disk
        PROVE  \A r \in Slots :
                 /\ entries'[r].url = entries[r].url
                 /\ entries'[r].listing = entries[r].listing
                 /\ entries'[r].record.approved = entries[r].record.approved
                 /\ disk'[r].record.url = disk[r].record.url
                 /\ disk'[r].record.approved = disk[r].record.approved
    <3> PICK old, saved : old = entries[s].record /\ saved = disk[s].record
      OBVIOUS
    <3> DEFINE next == [old EXCEPT !.latest[n].retry = "now"]
               then == [saved EXCEPT !.latest[n].retry = "now"]
    <3>1. old \in Records /\ saved \in Records
      BY DEF SkillTypeOK, Entries
    <3>2. next.approved = old.approved
      BY <3>1, RetryNow
    <3>3. then.url = saved.url /\ then.approved = saved.approved
      BY <3>1, RetryNow
    <3>4. /\ entries' = [entries EXCEPT ![s].record = next]
          /\ disk' = disk \/ disk' = [disk EXCEPT ![s].record = then]
      BY <2>2
    <3> HIDE DEF next, then
    <3>5. \A r \in Slots :
             /\ entries'[r].url = entries[r].url
             /\ entries'[r].listing = entries[r].listing
             /\ entries'[r].record.approved = entries[r].record.approved
      BY <3>2, <3>4 DEF SkillTypeOK, Entries
    <3>6. \A r \in Slots :
             /\ disk'[r].record.url = disk[r].record.url
             /\ disk'[r].record.approved = disk[r].record.approved
      BY <3>3, <3>4 DEF SkillTypeOK
    <3>7. QED
      BY <3>5, <3>6
  <2>3. QED
    BY <2>1, <2>2 DEF Waits, TimePasses
<1>3. RealInv' /\ HeldInv'
  BY <1>2 DEF StayInv, RealInv, Real, HeldInv, Extends
<1>4. FreshInv'
  BY <1>1, <1>2 DEF StayInv, FreshInv, IsListed, ApprovedIn
<1>5. QED
  BY <1>3, <1>4 DEF StayInv

LEMMA StayStep ==
    ASSUME SkillInv, StayInv, [SkillNext]_skillVars PROVE StayInv'
<1> SkillTypeOK
  BY DEF SkillInv
<1>1. CASE UNCHANGED skillVars
  <2>1. UNCHANGED <<disk, entries, shown, at>>
    BY <1>1 DEF skillVars, memoryVars
  <2>2. QED
    BY <2>1, QuietStays
<1>2. CASE StartSkills \/ ReadSources \/ CrashSkills
  BY <1>2, ReadsStay
<1>3. CASE \/ SourcesUnreadable \/ PublishRestored \/ Publish \/ Pauses \/ Sleeps
           \/ \E job \in todo : StartReview(job)
           \/ \E job \in reviews : ReviewDies(job)
           \/ \E n \in Names : Materialize(n)
           \/ \E s \in Slots, url \in Urls \cup {Unconfigured} : EditSources(s, url)
           \/ \E u \in Urls, n \in Names, version \in Versions \cup {0} :
                  Change(u, n, version)
  BY <1>3, WorkerStays
<1>4. CASE \E s \in Slots : RestoreSource(s)
  BY <1>4, RestoreStays
<1>5. CASE \E s \in Slots : CheckSource(s)
  BY <1>5, CheckStays
<1>6. CASE \/ \E job \in todo : ReviewUnread(job)
           \/ \E job \in reviews, verdict \in Verdicts : ReviewEnds(job, verdict)
  BY <1>6, ReviewsStay
<1>7. CASE \E n \in Names : Accept(n)
  BY <1>7, AcceptStays
<1>8. CASE Waits
  BY <1>8, WaitStays
<1>9. QED
  BY <1>1, <1>2, <1>3, <1>4, <1>5, <1>6, <1>7, <1>8 DEF SkillNext

\* A Git skill with a version the record on disk approves stays in the catalog
\* while its source is followed and lists it, for any sources, changes of
\* upstream, reviews, acceptances, crashes and records that cannot be written
\* (vetting.rs: until then the last approved version stays).
THEOREM ApprovedVersionsStay == SkillSpec => []ApprovedStays
<1>1. SkillInit => StayInv
  BY StayStart
<1>2. SkillInv /\ StayInv /\ [SkillNext]_skillVars => StayInv'
  BY StayStep
<1>3. StayInv => ApprovedStays
  BY DEF StayInv, HeldInv, FreshInv, ApprovedStays, Extends, ApprovedIn
<1>4. QED
  BY <1>1, <1>2, <1>3, SkillInvariant, PTL DEF SkillSpec

-----------------------------------------------------------------------------
(* Folders.                                                                  *)

Path == Seq(STRING)

\* A folder is under another when it begins with its parts.
LEMMA UnderIs ==
    ASSUME NEW p \in Path, NEW q \in Path
    PROVE  IsUnder(p, q) <=> Len(p) <= Len(q) /\ \A k \in 1 .. Len(p) : q[k] = p[k]
<1>1. CASE Len(p) <= Len(q)
  <2>1. /\ SubSeq(q, 1, Len(p)) \in Path /\ Len(SubSeq(q, 1, Len(p))) = Len(p)
        /\ \A k \in 1 .. Len(p) : SubSeq(q, 1, Len(p))[k] = q[k]
    BY <1>1 DEF Path
  <2>2. SubSeq(q, 1, Len(p)) = p <=> \A k \in 1 .. Len(p) : q[k] = p[k]
    BY <2>1 DEF Path
  <2>3. QED
    BY <1>1, <2>2 DEF IsUnder
<1>2. QED
  BY <1>1 DEF IsUnder

LEMMA UnderSelf ==
    ASSUME NEW p \in Path
    PROVE  IsUnder(p, p)
BY UnderIs DEF Path

LEMMA UnderUnder ==
    ASSUME NEW p \in Path, NEW q \in Path, NEW r \in Path, IsUnder(p, q), IsUnder(q, r)
    PROVE  IsUnder(p, r)
<1>1. /\ Len(p) <= Len(q) /\ \A k \in 1 .. Len(p) : q[k] = p[k]
      /\ Len(q) <= Len(r) /\ \A k \in 1 .. Len(q) : r[k] = q[k]
  BY UnderIs
<1>2. Len(p) \in Nat /\ Len(q) \in Nat /\ Len(r) \in Nat
  BY DEF Path
<1>3. QED
  BY <1>1, <1>2, UnderIs

\* Of two folders above one, the shorter is above the other.
LEMMA UnderBoth ==
    ASSUME NEW p \in Path, NEW q \in Path, NEW r \in Path,
           IsUnder(p, r), IsUnder(q, r), Len(p) <= Len(q)
    PROVE  IsUnder(p, q)
<1>1. /\ \A k \in 1 .. Len(p) : r[k] = p[k]
      /\ \A k \in 1 .. Len(q) : r[k] = q[k]
  BY UnderIs
<1>2. Len(p) \in Nat /\ Len(q) \in Nat
  BY DEF Path
<1>3. QED
  BY <1>1, <1>2, UnderIs

LEMMA UnderEqual ==
    ASSUME NEW p \in Path, NEW q \in Path, IsUnder(p, q), Len(q) <= Len(p)
    PROVE  p = q
<1>1. Len(p) <= Len(q) /\ \A k \in 1 .. Len(p) : q[k] = p[k]
  BY UnderIs
<1>2. Len(p) = Len(q)
  BY <1>1 DEF Path
<1>3. QED
  BY <1>1, <1>2 DEF Path

\* The least of some numbers.
LEMMA LeastOf ==
    ASSUME NEW T \in SUBSET Nat, T # {}
    PROVE  \E i \in T : \A k \in T : i <= k
<1> DEFINE R == OpToRel(<, Nat)
<1>1. IsWellFoundedOn(R, Nat)
  BY NatLessThanWellFounded
<1>2. \A x, y \in Nat : x < y => <<x, y>> \in R
  BY DEF OpToRel
<1> HIDE DEF R
<1>3. PICK i \in T : \A k \in T : ~ (<<k, i>> \in R)
  BY <1>1, WFMin
<1>4. \A k \in T : ~ (k < i)
  BY <1>2, <1>3
<1>5. QED
  BY <1>4

\* The greatest of some that have a bound.
LEMMA GreatestOf ==
    ASSUME NEW n \in Nat, NEW T \in SUBSET (0 .. n), T # {}
    PROVE  \E i \in T : \A k \in T : k <= i
<1> DEFINE S == {n - k : k \in T}
<1>1. \A k \in T : k \in 0 .. n /\ n - k \in Nat
  OBVIOUS
<1>2. S \in SUBSET Nat /\ S # {}
  BY <1>1
<1>3. \A k \in T : n - k \in S
  OBVIOUS
<1>4. \E j \in S : \A k \in S : j <= k
  <2> HIDE DEF S
  <2>1. QED
    BY <1>2, LeastOf
<1>5. PICK i \in T : \A k \in S : n - i <= k
  BY <1>4
<1>6. \A k \in T : n - i <= n - k
  BY <1>3, <1>5
<1>7. QED
  BY <1>1, <1>6

\* What is above the common folder of two is above both.
LEMMA CommonDirIs ==
    ASSUME NEW p \in Path, NEW q \in Path
    PROVE  /\ \E n \in 0 .. Len(p) : CommonDir(p, q) = SubSeq(p, 1, n)
           /\ CommonDir(p, q) \in Path
           /\ \A d \in Path : IsUnder(d, CommonDir(p, q)) <=> IsUnder(d, p) /\ IsUnder(d, q)
<1> DEFINE shared == {n \in 0 .. Len(p) : n <= Len(q) /\ SubSeq(p, 1, n) = SubSeq(q, 1, n)}
<1>1. Len(p) \in Nat /\ Len(q) \in Nat
  BY DEF Path
<1>2. shared \in SUBSET (0 .. Len(p)) /\ 0 \in shared
  BY <1>1 DEF Path
<1>11. PICK m : m = (CHOOSE n \in shared : \A k \in shared : k <= n)
  OBVIOUS
<1>3. CommonDir(p, q) = SubSeq(p, 1, m)
  BY <1>11 DEF CommonDir
<1>4. m \in shared /\ \A k \in shared : k <= m
  <2> HIDE DEF shared
  <2>1. \E n \in shared : \A k \in shared : k <= n
    BY <1>1, <1>2, GreatestOf
  <2>2. QED
    BY <1>11, <2>1
<1>10. m \in Nat /\ m <= Len(p) /\ m <= Len(q) /\ SubSeq(p, 1, m) = SubSeq(q, 1, m)
  <2>1. m \in shared
    BY <1>4
  <2>2. m \in 0 .. Len(p) /\ m <= Len(q) /\ SubSeq(p, 1, m) = SubSeq(q, 1, m)
    BY <2>1
  <2>3. QED
    BY <1>1, <2>2
<1> HIDE DEF shared
<1>12. PICK c : c = SubSeq(p, 1, m)
  OBVIOUS
<1>5. /\ c \in Path /\ Len(c) = m
      /\ \A k \in 1 .. m : c[k] = p[k] /\ c[k] = q[k]
  <2>1. c = SubSeq(q, 1, m) /\ m <= Len(p) /\ m <= Len(q) /\ m \in Nat
    BY <1>10, <1>12
  <2>2. \A k \in 1 .. m : SubSeq(p, 1, m)[k] = p[k] /\ SubSeq(q, 1, m)[k] = q[k]
    BY <2>1 DEF Path
  <2>3. SubSeq(p, 1, m) \in Path /\ Len(SubSeq(p, 1, m)) = m
    BY <1>1, <2>1 DEF Path
  <2>4. QED
    BY <1>12, <2>1, <2>2, <2>3
<1>6. IsUnder(c, p) /\ IsUnder(c, q)
  BY <1>1, <1>10, <1>5, UnderIs
<1>7. ASSUME NEW d \in Path, IsUnder(d, p), IsUnder(d, q)
      PROVE  IsUnder(d, c)
  <2>1. /\ Len(d) \in Nat /\ Len(d) <= Len(p) /\ Len(d) <= Len(q)
        /\ \A k \in 1 .. Len(d) : p[k] = d[k] /\ q[k] = d[k]
    BY <1>7, UnderIs DEF Path
  <2>2. SubSeq(p, 1, Len(d)) = SubSeq(q, 1, Len(d))
    BY <1>7 DEF IsUnder
  <2>3. Len(d) \in shared
    BY <2>1, <2>2 DEF shared
  <2>4. QED
    BY <1>4, <1>5, <1>6, <1>7, <2>3, UnderBoth
<1>8. \A d \in Path : IsUnder(d, c) => IsUnder(d, p) /\ IsUnder(d, q)
  BY <1>5, <1>6, UnderUnder
<1>9. m \in 0 .. Len(p) /\ CommonDir(p, q) = c
  BY <1>1, <1>3, <1>10, <1>12
<1>13. QED
  BY <1>3, <1>5, <1>7, <1>8, <1>9

-----------------------------------------------------------------------------
(* The folder all the skills are in.                                         *)

LEMMA FoldersArePaths == Folders \subseteq Path
BY FoldersAssumption DEF Path

\* The folder the first i skills are in, given those of fewer.
CommonAt(skills, f, i) ==
    IF i = 1 THEN skills[1].dir ELSE CommonDir(f[i - 1], skills[i].dir)

LEMMA CommonExists ==
    ASSUME NEW skills, NEW n \in Nat
    PROVE  \E f : f = [i \in 1 .. n |-> CommonAt(skills, f, i)]
<1> DEFINE Bad == {m \in Nat : ~ \E f : f = [i \in 1 .. m |-> CommonAt(skills, f, i)]}
<1>1. SUFFICES ASSUME Bad # {} PROVE FALSE
  OBVIOUS
<1>2. PICK m \in Bad : \A k \in Bad : m <= k
  <2>1. Bad \in SUBSET Nat
    OBVIOUS
  <2> HIDE DEF Bad
  <2>2. QED
    BY <1>1, <2>1, LeastOf
<1>3. m \in Nat
  OBVIOUS
<1>4. CASE m = 0
  <2>1. << >> = [i \in 1 .. 0 |-> CommonAt(skills, << >>, i)]
    OBVIOUS
  <2>2. QED
    BY <1>4, <2>1
<1>5. CASE m # 0
  <2>1. m - 1 \in Nat /\ m - 1 \notin Bad
    <3>1. m - 1 \in Nat /\ ~ (m <= m - 1)
      BY <1>3, <1>5
    <3> HIDE DEF Bad
    <3>2. QED
      BY <1>2, <3>1
  <2>2. PICK f : f = [i \in 1 .. m - 1 |-> CommonAt(skills, f, i)]
    BY <2>1
  <2> DEFINE last == IF m = 1 THEN skills[1].dir ELSE CommonDir(f[m - 1], skills[m].dir)
             g == [i \in 1 .. m |-> IF i = m THEN last ELSE f[i]]
  <2>3. \A i \in 1 .. m - 1 : i \in 1 .. m /\ g[i] = f[i] /\ f[i] = CommonAt(skills, f, i)
    BY <1>3, <2>2
  <2>4. m \in 1 .. m /\ g[m] = last
    BY <1>3, <1>5
  <2>5. g = [i \in 1 .. m |-> g[i]]
    OBVIOUS
  <2> HIDE DEF g
  <2>6. \A i \in 1 .. m : g[i] = CommonAt(skills, g, i)
    <3> SUFFICES ASSUME NEW i \in 1 .. m PROVE g[i] = CommonAt(skills, g, i)
      OBVIOUS
    <3>1. CASE i = m
      <4>1. m # 1 => m - 1 \in 1 .. m - 1
        BY <1>3, <1>5
      <4>2. m # 1 => g[m - 1] = f[m - 1]
        BY <4>1, <2>3
      <4>3. QED
        BY <3>1, <4>2, <2>4 DEF CommonAt
    <3>2. CASE i # m
      <4>1. i \in 1 .. m - 1 /\ (i # 1 => i - 1 \in 1 .. m - 1)
        BY <1>3, <3>2
      <4>2. g[i] = CommonAt(skills, f, i) /\ (i # 1 => g[i - 1] = f[i - 1])
        BY <4>1, <2>3
      <4>3. QED
        BY <4>2 DEF CommonAt
    <3>3. QED
      BY <3>1, <3>2
  <2>7. g = [i \in 1 .. m |-> CommonAt(skills, g, i)]
    BY <2>5, <2>6
  <2>8. QED
    BY <2>7
<1>6. QED
  BY <1>4, <1>5

\* The folder above the skills is the one all folders above them are above.
LEMMA CommonDirsIs ==
    ASSUME NEW skills, NEW n \in Nat \ {0}, DOMAIN skills = 1 .. n, Len(skills) = n,
           \A i \in 1 .. n : skills[i].dir \in Folders
    PROVE  /\ CommonDirs(skills) \in Folders
           /\ \A d \in Path : IsUnder(d, CommonDirs(skills)) <=>
                                 \A i \in 1 .. n : IsUnder(d, skills[i].dir)
<1> DEFINE body(f) == [i \in DOMAIN skills |->
                         IF i = 1 THEN skills[1].dir
                         ELSE CommonDir(f[i - 1], skills[i].dir)]
           h == CHOOSE f : f = body(f)
           Holds(i) == /\ h[i] \in Folders
                      /\ \A d \in Path : IsUnder(d, h[i]) <=>
                                           \A j \in 1 .. i : IsUnder(d, skills[j].dir)
           Bad == {i \in 1 .. n : ~Holds(i)}
<1>1. \E f : f = body(f)
  <2>1. PICK f : f = [i \in 1 .. n |-> CommonAt(skills, f, i)]
    BY CommonExists
  <2>2. f = body(f)
    BY <2>1 DEF CommonAt
  <2>3. QED
    BY <2>2
<1>2. h = body(h)
  BY <1>1
<1>3. CommonDirs(skills) = h[n]
  BY DEF CommonDirs
<1>4. /\ 1 \in 1 .. n /\ h[1] = skills[1].dir
      /\ \A i \in 2 .. n : i - 1 \in 1 .. n /\ h[i] = CommonDir(h[i - 1], skills[i].dir)
  <2> HIDE DEF h
  <2>1. \A i \in 2 .. n : i \in 1 .. n /\ i # 1 /\ i - 1 \in 1 .. n
    OBVIOUS
  <2>2. 1 \in 1 .. n
    OBVIOUS
  <2>3. QED
    BY <1>2, <2>1, <2>2
<1> HIDE DEF h
<1>5. Holds(1)
  <2>1. \A j \in 1 .. 1 : j = 1
    OBVIOUS
  <2>2. 1 \in 1 .. 1
    OBVIOUS
  <2>3. QED
    BY <1>4, <2>1, <2>2
<1>6. ASSUME NEW i \in 2 .. n, Holds(i - 1)
      PROVE  Holds(i)
  <2>1. skills[i].dir \in Folders /\ i - 1 \in 1 .. n /\ i \in Nat
    OBVIOUS
  <2>2. h[i - 1] \in Path /\ skills[i].dir \in Path
    BY <1>6, <2>1, FoldersArePaths
  <2>3. h[i] = CommonDir(h[i - 1], skills[i].dir)
    BY <1>4
  <2>4. h[i] \in Folders
    <3>1. PICK m \in 0 .. Len(h[i - 1]) : h[i] = SubSeq(h[i - 1], 1, m)
      BY <2>2, <2>3, CommonDirIs
    <3>2. QED
      BY <1>6, <3>1, FoldersAssumption
  <2>5. ASSUME NEW d \in Path
        PROVE  IsUnder(d, h[i]) <=> \A j \in 1 .. i : IsUnder(d, skills[j].dir)
    <3>1. IsUnder(d, h[i]) <=> IsUnder(d, h[i - 1]) /\ IsUnder(d, skills[i].dir)
      BY <2>2, <2>3, CommonDirIs
    <3>2. IsUnder(d, h[i - 1]) <=> \A j \in 1 .. i - 1 : IsUnder(d, skills[j].dir)
      BY <1>6
    <3>3. \A j : j \in 1 .. i <=> j \in 1 .. i - 1 \/ j = i
      BY <2>1
    <3>4. QED
      BY <3>1, <3>2, <3>3
  <2>6. QED
    BY <2>4, <2>5
<1>7. Bad = {}
  <2>1. SUFFICES ASSUME Bad # {} PROVE FALSE
    OBVIOUS
  <2>2. Bad \in SUBSET Nat
    OBVIOUS
  <2>3. PICK m \in Bad : \A k \in Bad : m <= k
    <3> HIDE DEF Bad
    <3>1. QED
      BY <2>1, <2>2, LeastOf
  <2>4. m \in 1 .. n /\ ~Holds(m)
    BY <2>3
  <2> HIDE DEF Holds
  <2>5. m \in 2 .. n /\ m - 1 \in 1 .. n /\ ~(m <= m - 1)
    BY <1>5, <2>4
  <2>6. Holds(m - 1)
    BY <2>3, <2>5
  <2>7. QED
    BY <1>6, <2>4, <2>5, <2>6
<1>8. Holds(n)
  <2> HIDE DEF Holds
  <2>1. n \in 1 .. n
    OBVIOUS
  <2>2. QED
    BY <1>7, <2>1
<1>9. QED
  BY <1>3, <1>8

\* What is granted is what the change to the file adds.
LEMMA GrantedIs ==
    ASSUME NEW skills, NEW n \in Nat \ {0}, DOMAIN skills = 1 .. n, Len(skills) = n,
           \A i \in 1 .. n : skills[i].dir \in Folders
    PROVE  Granted(skills) =
             {<<skills[1].key, d>> : d \in {e \in Folders : IsUnder(CommonDirs(skills), e)}}
<1> PICK c : c = CommonDirs(skills)
  OBVIOUS
<1>1. /\ c \in Folders /\ c \in Path
      /\ \A d \in Path : IsUnder(d, c) <=> \A i \in 1 .. n : IsUnder(d, skills[i].dir)
  BY CommonDirsIs, FoldersArePaths
<1> DEFINE holding == {d \in Folders : \A i \in DOMAIN skills : IsUnder(d, skills[i].dir)}
           deepest == CHOOSE d \in holding : \A e \in holding : Len(e) <= Len(d)
<1>2. \A d \in holding : d \in Path /\ IsUnder(d, c)
  BY <1>1, FoldersArePaths
<1>3. c \in holding
  BY <1>1, UnderSelf
<1>4. \A d \in holding : Len(d) <= Len(c)
  BY <1>2 DEF IsUnder
<1>5. deepest \in holding /\ \A e \in holding : Len(e) <= Len(deepest)
  <2> HIDE DEF holding
  <2>1. QED
    BY <1>3, <1>4
<1>6. deepest = c
  <2> HIDE DEF deepest, holding
  <2>1. QED
    BY <1>1, <1>2, <1>3, <1>5, UnderEqual
<1>7. Granted(skills) = {<<skills[1].key, d>> : d \in {e \in Folders : IsUnder(deepest, e)}}
  BY DEF Granted
<1>8. QED
  BY <1>6, <1>7

-----------------------------------------------------------------------------
(* The change to the file.                                                   *)

IsSource(s) ==
    /\ s = [id |-> s.id, kind |-> s.kind, key |-> s.key, paths |-> s.paths]
    /\ s.paths \subseteq Folders

\* What the file may hold.
IsFile(conf) ==
    /\ conf = [sources |-> conf.sources, settings |-> conf.settings,
                 readable |-> conf.readable]
    /\ \E S : conf.sources \in Seq(S)
    /\ \A i \in DOMAIN conf.sources : IsSource(conf.sources[i])

\* Only its sources change.
Resourced(conf, srcs) ==
    [sources |-> srcs, settings |-> conf.settings, readable |-> conf.readable]

Added(conf, source) == Resourced(conf, Append(conf.sources, source))

Gained(conf, i, dir) ==
    Resourced(conf, [conf.sources EXCEPT ![i].paths =
                         Retained(conf.sources[i].paths, dir) \cup {dir}])

LEMMA ResourcedIs ==
    ASSUME NEW conf, IsFile(conf)
    PROVE  /\ \A source : [conf EXCEPT !.sources = Append(@, source)] = Added(conf, source)
           /\ \A i, dir :
                [conf EXCEPT !.sources[i].paths =
                    Retained(conf.sources[i].paths, dir) \cup {dir}]
                  = Gained(conf, i, dir)
<1>1. PICK s, t, r : conf = [sources |-> s, settings |-> t, readable |-> r]
  BY DEF IsFile
<1>2. ASSUME NEW u
      PROVE  [conf EXCEPT !.sources = u] = Resourced(conf, u)
  BY <1>1 DEF Resourced
<1>3. ASSUME NEW source
      PROVE  [conf EXCEPT !.sources = Append(@, source)] = Added(conf, source)
  <2>1. [conf EXCEPT !.sources = Append(@, source)]
          = [conf EXCEPT !.sources = Append(conf.sources, source)]
    BY <1>1
  <2>2. QED
    BY <1>2, <2>1 DEF Added
<1>4. ASSUME NEW i, NEW dir
      PROVE  [conf EXCEPT !.sources[i].paths =
                    Retained(conf.sources[i].paths, dir) \cup {dir}]
               = Gained(conf, i, dir)
  <2>1. PICK paths : paths = Retained(conf.sources[i].paths, dir) \cup {dir}
    OBVIOUS
  <2>2. [conf EXCEPT !.sources[i].paths = paths]
          = [conf EXCEPT !.sources = [conf.sources EXCEPT ![i].paths = paths]]
    BY <1>1
  <2>3. QED
    BY <1>2, <2>1, <2>2 DEF Gained
<1>5. QED
  BY <1>3, <1>4

\* A source follows a folder of its repository.
HasFolder(srcs, k, d) ==
    \E i \in DOMAIN srcs :
        /\ srcs[i].kind = "git" /\ srcs[i].key = k
        /\ \E path \in srcs[i].paths : IsUnder(path, d)

LEMMA FollowsIs ==
    ASSUME NEW conf
    PROVE  /\ \A k, d : <<k, d>> \in Follows(conf) <=>
                           d \in Folders /\ HasFolder(conf.sources, k, d)
           /\ \A f \in Follows(conf) : \E k, d : f = <<k, d>>
BY DEF Follows, HasFolder, GitSources

LEMMA AppendedFile ==
    ASSUME NEW conf, IsFile(conf), NEW source, IsSource(source)
    PROVE  /\ IsFile(Added(conf, source))
           /\ Added(conf, source).settings = conf.settings
           /\ Added(conf, source).readable = conf.readable
           /\ \A k, d : HasFolder(Added(conf, source).sources, k, d) <=>
                \/ HasFolder(conf.sources, k, d)
                \/ /\ source.kind = "git" /\ source.key = k
                   /\ \E path \in source.paths : IsUnder(path, d)
<1> PICK changed : changed = Added(conf, source)
  OBVIOUS
<1> PICK s : s = conf.sources
  OBVIOUS
<1> PICK t : t = Append(s, source)
  OBVIOUS
<1>1. /\ changed.sources = t /\ changed.settings = conf.settings
      /\ changed.readable = conf.readable
      /\ changed = [sources |-> changed.sources, settings |-> changed.settings,
                    readable |-> changed.readable]
  BY DEF Resourced, Added
<1> PICK n : n = Len(s)
  OBVIOUS
<1> PICK S : s \in Seq(S)
  BY DEF IsFile
<1>2. /\ n \in Nat /\ DOMAIN s = 1 .. n
      /\ \A i \in 1 .. n : IsSource(s[i])
  BY DEF IsFile
<1>3. DOMAIN t = 1 .. n + 1 /\ t[n + 1] = source /\ \A i \in 1 .. n : t[i] = s[i]
  BY <1>2
<1>4. s \in Seq(S \cup {source}) /\ t \in Seq(S \cup {source})
  OBVIOUS
<1>5. \A i \in 1 .. n + 1 : i \in 1 .. n \/ i = n + 1
  BY <1>2
<1>8. \A i \in DOMAIN t : IsSource(t[i])
  BY <1>2, <1>3, <1>5
<1>9. IsFile(changed)
  BY <1>1, <1>4, <1>8 DEF IsFile
<1>10. n + 1 \in 1 .. n + 1 /\ \A i \in 1 .. n : i \in 1 .. n + 1
  BY <1>2
<1>11. ASSUME NEW k, NEW d
       PROVE  HasFolder(t, k, d) <=>
                \/ HasFolder(s, k, d)
                \/ /\ source.kind = "git" /\ source.key = k
                   /\ \E path \in source.paths : IsUnder(path, d)
  BY <1>2, <1>3, <1>5, <1>10 DEF HasFolder
<1>12. QED
  BY <1>1, <1>9, <1>11

\* A source that gains a folder follows what is in it too.
LEMMA ExtendedFile ==
    ASSUME NEW conf, IsFile(conf), NEW dir \in Folders,
           NEW first \in DOMAIN conf.sources, conf.sources[first].kind = "git"
    PROVE  /\ IsFile(Gained(conf, first, dir))
           /\ Gained(conf, first, dir).settings = conf.settings
           /\ Gained(conf, first, dir).readable = conf.readable
           /\ \A k : \A d \in Folders : HasFolder(Gained(conf, first, dir).sources, k, d) <=>
                \/ HasFolder(conf.sources, k, d)
                \/ conf.sources[first].key = k /\ IsUnder(dir, d)
<1>20. PICK s : s = conf.sources
  OBVIOUS
<1>25. PICK changed : changed = Gained(conf, first, dir)
  OBVIOUS
<1>21. PICK old : old = s[first]
  OBVIOUS
<1>26. PICK paths : paths = Retained(old.paths, dir) \cup {dir}
  OBVIOUS
<1>22. PICK new : new = [old EXCEPT !.paths = paths]
  OBVIOUS
<1>23. PICK t : t = [s EXCEPT ![first] = new]
  OBVIOUS
<1>1. /\ changed.sources = t /\ changed.settings = conf.settings
      /\ changed.readable = conf.readable
      /\ changed = [sources |-> changed.sources, settings |-> changed.settings,
                    readable |-> changed.readable]
  <2>1. t = [conf.sources EXCEPT ![first].paths =
               Retained(conf.sources[first].paths, dir) \cup {dir}]
    BY <1>20, <1>21, <1>22, <1>23, <1>26
  <2>2. QED
    BY <1>25, <2>1 DEF Resourced, Gained
<1>24. PICK S : s \in Seq(S)
  BY <1>20 DEF IsFile
<1>2. /\ first \in DOMAIN s
      /\ \A i \in DOMAIN s : IsSource(s[i])
  BY <1>20 DEF IsFile
<1>3. /\ old = [id |-> old.id, kind |-> old.kind, key |-> old.key, paths |-> old.paths]
      /\ old.paths \subseteq Folders
  BY <1>2, <1>21 DEF IsSource
<1>4. /\ new.kind = old.kind /\ new.key = old.key /\ new.paths = paths
      /\ new = [id |-> new.id, kind |-> new.kind, key |-> new.key, paths |-> new.paths]
  BY <1>3, <1>22
<1>5. paths \subseteq Folders /\ IsSource(new)
  BY <1>3, <1>4, <1>26 DEF Retained, IsSource
<1>6. DOMAIN t = DOMAIN s /\ t[first] = new /\ \A i \in DOMAIN s : i # first => t[i] = s[i]
  BY <1>2, <1>23, <1>24
<1>7. IsFile(changed)
  <2>1. \A i \in DOMAIN t : IsSource(t[i])
    BY <1>2, <1>5, <1>6
  <2>2. s \in Seq(S \cup {new})
    BY <1>24
  <2>4. t \in Seq(S \cup {new})
    BY <1>2, <1>23, <2>2
  <2>5. \E X : changed.sources \in Seq(X)
    BY <1>1, <2>4
  <2>6. \A i \in DOMAIN changed.sources : IsSource(changed.sources[i])
    BY <1>1, <2>1
  <2>7. QED
    BY <1>1, <2>5, <2>6 DEF IsFile
<1>8. ASSUME NEW d \in Folders
      PROVE  (\E path \in paths : IsUnder(path, d)) <=>
                (\E path \in old.paths : IsUnder(path, d)) \/ IsUnder(dir, d)
  <2>1. \A path \in old.paths : path \in paths \/ IsUnder(dir, path)
    BY <1>26 DEF Retained, Covers
  <2>2. \A path \in old.paths : IsUnder(dir, path) /\ IsUnder(path, d) => IsUnder(dir, d)
    BY <1>3, UnderUnder, FoldersArePaths
  <2>3. paths \subseteq old.paths \cup {dir} /\ dir \in paths
    BY <1>26 DEF Retained
  <2>4. QED
    BY <2>1, <2>2, <2>3
<1>9. ASSUME NEW k, NEW d \in Folders
      PROVE  HasFolder(t, k, d) <=> HasFolder(s, k, d) \/ (old.key = k /\ IsUnder(dir, d))
  <2> DEFINE Has(i) == /\ s[i].kind = "git" /\ s[i].key = k
                       /\ \E path \in s[i].paths : IsUnder(path, d)
             HasNow(i) == /\ t[i].kind = "git" /\ t[i].key = k
                          /\ \E path \in t[i].paths : IsUnder(path, d)
  <2>1. \A i \in DOMAIN s : i # first => (HasNow(i) <=> Has(i))
    BY <1>6
  <2>2. HasNow(first) <=> Has(first) \/ (old.key = k /\ IsUnder(dir, d))
    BY <1>4, <1>6, <1>8, <1>20, <1>21
  <2>3. (HasFolder(t, k, d) <=> \E i \in DOMAIN s : HasNow(i))
        /\ (HasFolder(s, k, d) <=> \E i \in DOMAIN s : Has(i))
    BY <1>6 DEF HasFolder
  <2> HIDE DEF Has, HasNow
  <2>4. QED
    BY <1>2, <2>1, <2>2, <2>3
<1>10. \A k : \A d \in Folders : HasFolder(changed.sources, k, d) <=>
           \/ HasFolder(conf.sources, k, d)
           \/ conf.sources[first].key = k /\ IsUnder(dir, d)
  BY <1>1, <1>9, <1>20, <1>21
<1>11. QED
  BY <1>1, <1>7, <1>10, <1>25

\* The first source that follows a repository.
LEMMA FirstGitSource ==
    ASSUME NEW conf, IsFile(conf), NEW key, GitSources(conf, key) # {},
           NEW first, first = CHOOSE i \in GitSources(conf, key) :
                                \A j \in GitSources(conf, key) : i <= j
    PROVE  /\ first \in DOMAIN conf.sources
           /\ conf.sources[first].kind = "git" /\ conf.sources[first].key = key
<1> PICK found : found = GitSources(conf, key)
  OBVIOUS
<1> PICK S : conf.sources \in Seq(S)
  BY DEF IsFile
<1>1. found \in SUBSET Nat /\ found # {}
  BY DEF GitSources
<1>2. \E i \in found : \A j \in found : i <= j
  BY <1>1, LeastOf
<1>3. first \in found
  BY <1>2
<1>4. QED
  BY <1>3 DEF GitSources

\* What the change adds to what is followed.
Adds(key, dir) == {<<key, d>> : d \in {e \in Folders : IsUnder(dir, e)}}

LEMMA MergeIs ==
    ASSUME NEW conf, IsFile(conf), NEW key, NEW dir \in Folders,
           NEW change, change = Merge(conf, key, dir)
    PROVE  /\ change.change = "covered" =>
                change.config = conf /\ Adds(key, dir) \subseteq Follows(conf)
           /\ change.change \in {"added", "extended"} =>
                /\ IsFile(change.config)
                /\ change.config.settings = conf.settings
                /\ change.config.readable = conf.readable
                /\ Follows(change.config) = Follows(conf) \cup Adds(key, dir)
<1>20. PICK found : found = GitSources(conf, key)
  OBVIOUS
<1>21. PICK first : first = CHOOSE i \in found : \A j \in found : i <= j
  OBVIOUS
<1>22. PICK paths : paths = conf.sources[first].paths
  OBVIOUS
<1>23. PICK extended : extended = Retained(paths, dir) \cup {dir}
  OBVIOUS
<1>1. \A d : <<key, d>> \in Adds(key, dir) <=> d \in Folders /\ IsUnder(dir, d)
  BY DEF Adds
<1>2. \A f \in Adds(key, dir) : \E d : f = <<key, d>>
  BY DEF Adds
<1>3. ASSUME NEW changed,
             \A k : \A d \in Folders : HasFolder(changed.sources, k, d) <=>
                HasFolder(conf.sources, k, d) \/ (key = k /\ IsUnder(dir, d))
      PROVE  Follows(changed) = Follows(conf) \cup Adds(key, dir)
  <2>1. ASSUME NEW k, NEW d
        PROVE  <<k, d>> \in Follows(changed) <=>
                 <<k, d>> \in Follows(conf) \/ <<k, d>> \in Adds(key, dir)
    <3>1. <<k, d>> \in Adds(key, dir) <=> k = key /\ d \in Folders /\ IsUnder(dir, d)
      BY DEF Adds
    <3>2. QED
      BY <1>3, <3>1, FollowsIs
  <2>2. \A f \in Follows(changed) : \E k, d : f = <<k, d>>
    BY FollowsIs
  <2>3. \A f \in Follows(conf) : \E k, d : f = <<k, d>>
    BY FollowsIs
  <2>4. QED
    BY <1>2, <2>1, <2>2, <2>3
<1>4. CASE found = {} /\ Len(conf.sources) >= MaxSources
  <2>1. Len(conf.sources) \in Nat /\ MaxSources \in Nat
    BY ApprovalAssumption DEF IsFile
  <2>2. change = [change |-> "invalid", config |-> conf]
    BY <1>4, <1>20, <2>1 DEF Merge
  <2>3. QED
    BY <2>2
<1>5. CASE found = {} /\ Len(conf.sources) < MaxSources
  <2>1. Len(conf.sources) \in Nat /\ MaxSources \in Nat
    BY ApprovalAssumption DEF IsFile
  <2>2. PICK source : source = [id |-> NewId(conf, key), kind |-> "git", key |-> key,
                                paths |-> {dir}]
    OBVIOUS
  <2>3. IsSource(source) /\ source.kind = "git" /\ source.key = key /\ source.paths = {dir}
    BY <2>2 DEF IsSource
  <2>4. PICK changed : changed = Added(conf, source)
    OBVIOUS
  <2>5. change = [change |-> "added", config |-> changed]
    <3>1. change = [change |-> "added",
                    config |-> [conf EXCEPT !.sources = Append(@, source)]]
      BY <1>5, <1>20, <2>1, <2>2 DEF Merge
    <3>2. QED
      BY <2>4, <3>1, ResourcedIs
  <2>6. /\ IsFile(changed)
        /\ changed.settings = conf.settings /\ changed.readable = conf.readable
        /\ \A k, d : HasFolder(changed.sources, k, d) <=>
             \/ HasFolder(conf.sources, k, d)
             \/ key = k /\ IsUnder(dir, d)
    BY <2>3, <2>4, AppendedFile
  <2>7. QED
    BY <1>3, <2>5, <2>6
<1>6. CASE found # {} /\ \E path \in paths : Covers(path, dir)
  <2>1. change = [change |-> "covered", config |-> conf]
    BY <1>6, <1>20, <1>21, <1>22 DEF Merge
  <2>2. /\ first \in DOMAIN conf.sources /\ conf.sources[first].kind = "git"
        /\ conf.sources[first].key = key /\ paths \subseteq Folders
    BY <1>6, <1>20, <1>21, <1>22, FirstGitSource DEF IsFile, IsSource
  <2>3. PICK path \in paths : IsUnder(path, dir)
    BY <1>6 DEF Covers
  <2>4. \A d \in Folders : IsUnder(dir, d) => IsUnder(path, d)
    BY <2>2, <2>3, UnderUnder, FoldersArePaths
  <2>5. \A d \in Folders : IsUnder(dir, d) => HasFolder(conf.sources, key, d)
    BY <2>2, <2>3, <2>4, <1>22 DEF HasFolder
  <2>6. Adds(key, dir) \subseteq Follows(conf)
    BY <1>1, <1>2, <2>5, FollowsIs
  <2>7. QED
    BY <2>1, <2>6
<1>7. CASE found # {} /\ ~ \E path \in paths : Covers(path, dir)
  <2>1. PICK changed : changed = Gained(conf, first, dir)
    OBVIOUS
  <2>2. /\ change.config = changed
        /\ change.change = IF Cardinality(extended) > MaxPaths THEN "invalid" ELSE "extended"
    <3>1. /\ change.config = [conf EXCEPT !.sources[first].paths =
                                Retained(conf.sources[first].paths, dir) \cup {dir}]
          /\ change.change = IF Cardinality(extended) > MaxPaths THEN "invalid"
                             ELSE "extended"
      BY <1>7, <1>20, <1>21, <1>22, <1>23 DEF Merge
    <3>2. QED
      BY <2>1, <3>1, ResourcedIs
  <2>3. /\ first \in DOMAIN conf.sources /\ conf.sources[first].kind = "git"
        /\ conf.sources[first].key = key
    BY <1>7, <1>20, <1>21, FirstGitSource
  <2>4. /\ IsFile(changed)
        /\ changed.settings = conf.settings /\ changed.readable = conf.readable
        /\ \A k : \A d \in Folders : HasFolder(changed.sources, k, d) <=>
             HasFolder(conf.sources, k, d) \/ (key = k /\ IsUnder(dir, d))
    <3>1. \A k : \A d \in Folders : HasFolder(changed.sources, k, d) <=>
             \/ HasFolder(conf.sources, k, d)
             \/ conf.sources[first].key = k /\ IsUnder(dir, d)
      BY <2>1, <2>3, ExtendedFile
    <3>2. /\ IsFile(changed)
          /\ changed.settings = conf.settings /\ changed.readable = conf.readable
      BY <2>1, <2>3, ExtendedFile
    <3>3. QED
      BY <2>3, <3>1, <3>2
  <2>5. QED
    BY <1>3, <2>2, <2>4
<1>8. QED
  <2>1. Len(conf.sources) \in Nat /\ MaxSources \in Nat
    BY ApprovalAssumption DEF IsFile
  <2>2. QED
    BY <1>4, <1>5, <1>6, <1>7, <2>1

\* Merge answers with a record.
LEMMA MergeAnswers ==
    ASSUME NEW conf, NEW key, NEW dir, NEW change, change = Merge(conf, key, dir),
           Len(conf.sources) \in Nat
    PROVE  change = [change |-> change.change, config |-> change.config]
<1>1. MaxSources \in Nat
  BY ApprovalAssumption
<1>2. Len(conf.sources) >= MaxSources \/ Len(conf.sources) < MaxSources
  BY <1>1
<1>3. QED
  BY <1>1, <1>2 DEF Merge

\* A plan that is not invalid is of one repository, and leaves a valid file.
LEMMA PlannedIs ==
    ASSUME NEW skills, NEW n \in Nat \ {0}, DOMAIN skills = 1 .. n, Len(skills) = n,
           \A i \in 1 .. n : skills[i].dir \in Folders,
           NEW conf, IsFile(conf),
           NEW plan, plan = Planned(skills, conf)
    PROVE  /\ plan.change = "covered" => Granted(skills) \subseteq Follows(conf)
           /\ plan.change \in {"added", "extended"} =>
                /\ IsFile(plan.config) /\ Valid(plan.config)
                /\ plan.config.settings = conf.settings
                /\ plan.config.readable = conf.readable
                /\ Follows(plan.config) = Follows(conf) \cup Granted(skills)
<1>1. PICK change : change = Merge(conf, skills[1].key, CommonDirs(skills))
  OBVIOUS
<1>2. CommonDirs(skills) \in Folders
  BY CommonDirsIs
<1>3. Granted(skills) = Adds(skills[1].key, CommonDirs(skills))
  BY GrantedIs DEF Adds
<1>4. change = [change |-> change.change, config |-> change.config]
  BY <1>1, MergeAnswers DEF IsFile
<1>5. CASE \/ \E i \in DOMAIN skills : skills[i].key # skills[1].key
           \/ ~Valid(change.config)
  <2>1. plan = [change EXCEPT !.change = "invalid"]
    BY <1>1, <1>5 DEF Planned
  <2>2. plan.change = "invalid"
    BY <1>4, <2>1
  <2>3. QED
    BY <2>2
<1>6. CASE ~(\/ \E i \in DOMAIN skills : skills[i].key # skills[1].key
             \/ ~Valid(change.config))
  <2>1. plan = change
    BY <1>1, <1>6 DEF Planned
  <2>2. QED
    BY <1>1, <1>2, <1>3, <1>6, <2>1, MergeIs
<1>7. QED
  BY <1>5, <1>6

-----------------------------------------------------------------------------
(* What System One reads.                                                    *)

TakeAt(sizes, f, i) ==
    IF i = 0 THEN [used |-> 0, taken |-> {}]
    ELSE LET before == f[i - 1]
         IN  IF sizes[i] <= MaxFile /\ before.used + sizes[i] <= MaxFilesBytes
             THEN [used |-> before.used + sizes[i], taken |-> before.taken \cup {i}]
             ELSE before

LEMMA TakeExists ==
    ASSUME NEW sizes, NEW n \in Nat
    PROVE  \E f : f = [i \in 0 .. n |-> TakeAt(sizes, f, i)]
<1> DEFINE Bad == {m \in Nat : ~ \E f : f = [i \in 0 .. m |-> TakeAt(sizes, f, i)]}
<1>1. SUFFICES ASSUME Bad # {} PROVE FALSE
  OBVIOUS
<1>2. PICK m \in Bad : \A k \in Bad : m <= k
  <2>1. Bad \in SUBSET Nat
    OBVIOUS
  <2> HIDE DEF Bad
  <2>2. QED
    BY <1>1, <2>1, LeastOf
<1>3. m \in Nat
  OBVIOUS
<1>4. CASE m = 0
  <2>1. PICK f : f = [i \in 0 .. 0 |-> [used |-> 0, taken |-> {}]]
    OBVIOUS
  <2>2. \A i \in 0 .. 0 : i = 0
    OBVIOUS
  <2>3. f = [i \in 0 .. 0 |-> TakeAt(sizes, f, i)]
    BY <2>1, <2>2 DEF TakeAt
  <2>4. QED
    BY <1>4, <2>3
<1>5. CASE m # 0
  <2>1. m - 1 \in Nat /\ m - 1 \notin Bad
    <3>1. m - 1 \in Nat /\ ~ (m <= m - 1)
      BY <1>3, <1>5
    <3> HIDE DEF Bad
    <3>2. QED
      BY <1>2, <3>1
  <2>2. PICK f : f = [i \in 0 .. m - 1 |-> TakeAt(sizes, f, i)]
    BY <2>1
  <2> DEFINE g == [i \in 0 .. m |-> IF i = m THEN TakeAt(sizes, f, m) ELSE f[i]]
  <2>3. \A i \in 0 .. m - 1 : i \in 0 .. m /\ g[i] = f[i] /\ f[i] = TakeAt(sizes, f, i)
    BY <1>3, <2>2
  <2>4. m \in 0 .. m /\ g[m] = TakeAt(sizes, f, m)
    BY <1>3
  <2>5. g = [i \in 0 .. m |-> g[i]]
    OBVIOUS
  <2> HIDE DEF g
  <2>6. \A i \in 0 .. m : g[i] = TakeAt(sizes, g, i)
    <3> SUFFICES ASSUME NEW i \in 0 .. m PROVE g[i] = TakeAt(sizes, g, i)
      OBVIOUS
    <3>1. i # 0 => i - 1 \in 0 .. m - 1
      BY <1>3
    <3>2. i # 0 => g[i - 1] = f[i - 1]
      BY <2>3, <3>1
    <3>3. g[i] = TakeAt(sizes, f, i)
      <4>1. i = m \/ i \in 0 .. m - 1
        BY <1>3
      <4>2. QED
        BY <2>3, <2>4, <4>1
    <3>4. QED
      BY <3>2, <3>3 DEF TakeAt
  <2>7. g = [i \in 0 .. m |-> TakeAt(sizes, g, i)]
    BY <2>5, <2>6
  <2>8. QED
    BY <2>7
<1>6. QED
  BY <1>4, <1>5

\* What fits is in the list, and none of it is larger than a file may be.
LEMMA FitsAre ==
    ASSUME NEW sizes, NEW n \in Nat, Len(sizes) = n
    PROVE  \A i \in Fits(sizes) : i \in 1 .. n /\ sizes[i] <= MaxFile
<1> DEFINE body(f) ==
             [i \in 0 .. Len(sizes) |->
                IF i = 0 THEN [used |-> 0, taken |-> {}]
                ELSE LET before == f[i - 1]
                     IN  IF sizes[i] <= MaxFile /\ before.used + sizes[i] <= MaxFilesBytes
                         THEN [used |-> before.used + sizes[i],
                               taken |-> before.taken \cup {i}]
                         ELSE before]
           h == CHOOSE f : f = body(f)
           Holds(i) == \A j \in h[i].taken : j \in 1 .. n /\ sizes[j] <= MaxFile
           Bad == {i \in 0 .. n : ~Holds(i)}
<1>1. \E f : f = body(f)
  <2>1. PICK f : f = [i \in 0 .. n |-> TakeAt(sizes, f, i)]
    BY TakeExists
  <2>2. f = body(f)
    BY <2>1 DEF TakeAt
  <2>3. QED
    BY <2>2
<1>2. h = body(h)
  BY <1>1
<1>3. Fits(sizes) = h[n].taken
  BY DEF Fits
<1>4. \A i \in 0 .. n : h[i] = TakeAt(sizes, h, i)
  <2> HIDE DEF h
  <2>1. SUFFICES ASSUME NEW i \in 0 .. n PROVE body(h)[i] = TakeAt(sizes, h, i)
    BY <1>2
  <2>2. QED
    BY DEF TakeAt
<1> HIDE DEF h
<1>5. Holds(0)
  <2>1. h[0] = TakeAt(sizes, h, 0)
    BY <1>4
  <2>2. h[0].taken = {}
    BY <2>1 DEF TakeAt
  <2>3. QED
    BY <2>2
<1>6. ASSUME NEW i \in 1 .. n, Holds(i - 1)
      PROVE  Holds(i)
  <2>1. h[i] = TakeAt(sizes, h, i) /\ i # 0
    BY <1>4
  <2>2. \/ h[i].taken = h[i - 1].taken
        \/ sizes[i] <= MaxFile /\ h[i].taken = h[i - 1].taken \cup {i}
    BY <2>1 DEF TakeAt
  <2>3. QED
    BY <1>6, <2>2
<1>7. Bad = {}
  <2>1. SUFFICES ASSUME Bad # {} PROVE FALSE
    OBVIOUS
  <2>2. Bad \in SUBSET Nat
    OBVIOUS
  <2>3. PICK m \in Bad : \A k \in Bad : m <= k
    <3> HIDE DEF Bad
    <3>1. QED
      BY <2>1, <2>2, LeastOf
  <2>4. m \in 0 .. n /\ ~Holds(m)
    BY <2>3
  <2> HIDE DEF Holds
  <2>5. m \in 1 .. n /\ m - 1 \in 0 .. n /\ ~(m <= m - 1)
    BY <1>5, <2>4
  <2>6. Holds(m - 1)
    BY <2>3, <2>5
  <2>7. QED
    BY <1>6, <2>4, <2>5, <2>6
<1>8. Holds(n)
  <2> HIDE DEF Holds
  <2>1. n \in 0 .. n
    OBVIOUS
  <2>2. QED
    BY <1>7, <2>1
<1>9. QED
  BY <1>3, <1>8

\* What is shown of a skill is text.
LEMMA ShownAreText ==
    ASSUME NEW files, NEW S, files \in Seq(S), NEW file \in ShownFiles(files)
    PROVE  file.text
<1>1. PICK order : order = ReadingOrder(files)
  OBVIOUS
<1>2. PICK chosen : chosen = Fits([i \in DOMAIN files |-> order[i].listed])
  OBVIOUS
<1>3. PICK sizes : sizes = [i \in DOMAIN files |->
          IF i \in chosen /\ order[i].text THEN order[i].size ELSE MaxFile + 1]
  OBVIOUS
<1>4. PICK i \in Fits(sizes) : file = order[i]
  BY <1>1, <1>2, <1>3 DEF ShownFiles
<1>5. PICK n : n = Len(files)
  OBVIOUS
<1>6. n \in Nat /\ DOMAIN files = 1 .. n
  BY <1>5
<1>7. Len(sizes) = n
  BY <1>3, <1>6
<1>8. i \in 1 .. n /\ sizes[i] <= MaxFile
  BY <1>6, <1>7, FitsAre
<1>9. MaxFile \in Nat /\ ~(MaxFile + 1 <= MaxFile)
  BY ApprovalAssumption
<1>10. i \in chosen /\ order[i].text
  BY <1>3, <1>6, <1>8, <1>9
<1>11. QED
  BY <1>4, <1>10

\* What a review says; System One says `safe` of what it saw whole.
LEMMA ReviewsAre ==
    ASSUME NEW skill, NEW review \in Reviews(skill)
    PROVE  /\ review.safety \in {"safe", "unsafe", "undetermined"}
           /\ review = Review("safe", "one") => Whole(skill)
<1>1. "one" # "two" /\ "one" # "none"
  OBVIOUS
<1>2. QED
  BY <1>1 DEF Reviews, Review, Undetermined

-----------------------------------------------------------------------------
(* The runs.                                                                 *)

\* What Skilld lists of a selector.
LEMMA RegistryIs ==
    ASSUME NEW selector \in Selectors, NEW skills \in Candidates(selector)
    PROVE  /\ skills = Registry[selector]
           /\ Len(skills) \in Nat \ {0} /\ DOMAIN skills = 1 .. Len(skills)
           /\ \A i \in DOMAIN skills :
                skills[i].dir \in Folders /\ \E S : skills[i].files \in Seq(S)
<1>1. skills = Registry[selector] /\ Len(skills) \in 1 .. MaxRepositorySkills
  BY DEF Candidates
<1>2. MaxRepositorySkills \in Nat
  BY ApprovalAssumption
<1>3. \E S : skills \in Seq(S)
  BY <1>1, RegistryAssumption
<1>4. \A i \in DOMAIN skills :
        skills[i].dir \in Folders /\ \E S : skills[i].files \in Seq(S)
  BY <1>1, RegistryAssumption
<1>5. QED
  BY <1>1, <1>2, <1>3, <1>4

Fetching(r) ==
    \E selector \in Selectors : \E consent, conf :
        /\ r = [at |-> "fetch", selector |-> selector, consent |-> consent, config |-> conf]
        /\ IsFile(conf) /\ conf.readable

Writing(r) ==
    /\ r.at = "write" /\ Agreed(r)
    /\ IsFile(r.config) /\ r.config.readable
    /\ Planned(r.skills, r.config).change \in {"added", "extended"}
    /\ \E selector \in Selectors : r.skills \in Candidates(selector)

\* What a run that is under way knows.
Sound(r) ==
    \/ r = NotRun
    \/ Fetching(r)
    \/ Writing(r)
    \/ r.at = "covered" /\ Granted(Registry[r.selector]) \subseteq Follows(r.config)
    \/ r.at \in {"failed", "stopped", "written"}

ApprovalInv ==
    /\ IsFile(followed)
    /\ run = [p \in Approvers |-> run[p]]
    /\ \A p \in Approvers : Sound(run[p])

LEMMA SourceIs ==
    ASSUME NEW s \in FileSources \cup OwnSources
    PROVE  IsSource(s)
BY SourcesAssumption DEF IsSource

LEMMA ApprovalStarts == ApprovalInit => ApprovalInv
<1> SUFFICES ASSUME ApprovalInit PROVE ApprovalInv
  OBVIOUS
<1>1. PICK s \in FirstSources : followed = [sources |-> s, settings |-> 0, readable |-> TRUE]
  BY DEF ApprovalInit
<1>2. s \in Seq(FileSources)
  BY SourcesAssumption
<1>3. \A i \in DOMAIN s : IsSource(s[i])
  BY <1>2, SourceIs
<1>4. IsFile(followed)
  BY <1>1, <1>2, <1>3 DEF IsFile
<1>5. run = [p \in Approvers |-> NotRun]
  BY DEF ApprovalInit
<1>6. QED
  BY <1>4, <1>5 DEF ApprovalInv, Sound

\* A run that ends: the others are ended they were.
LEMMA RunMoves ==
    ASSUME ApprovalInv, NEW p \in Approvers, NEW r, run' = [run EXCEPT ![p] = r],
           Sound(r), IsFile(followed')
    PROVE  ApprovalInv' /\ run'[p] = r /\ \A q \in Approvers \ {p} : run'[q] = run[q]
<1>1. run = [q \in Approvers |-> run[q]]
  BY DEF ApprovalInv
<1>2. run' = [q \in Approvers |-> IF q = p THEN r ELSE run[q]]
  BY <1>1
<1>3. run' = [q \in Approvers |-> run'[q]]
  BY <1>2
<1>4. run'[p] = r /\ \A q \in Approvers \ {p} : run'[q] = run[q]
  BY <1>2
<1>5. \A q \in Approvers : Sound(run'[q])
  BY <1>4 DEF ApprovalInv
<1>6. (\A q \in Approvers : Sound(run[q]))'
  BY <1>5 DEF Sound, Fetching, Writing
<1>7. QED
  BY <1>3, <1>4, <1>6 DEF ApprovalInv

\* Once nothing stands against it, whoever had to agree did.
LEMMA SettledAgreed ==
    ASSUME NEW skills, NEW n \in Nat, DOMAIN skills = 1 .. n,
           \A i \in 1 .. n : \E S : skills[i].files \in Seq(S),
           NEW consent, NEW given \in ReviewsOf(skills),
           Blocked(skills, consent) = {}, ~Refused(given, consent),
           NEW r, r.skills = skills, r.reviews = given, r.consent = consent
    PROVE  Agreed(r)
<1> SUFFICES ASSUME NEW i \in 1 .. n
             PROVE  /\ skills[i].asks \subseteq consent.allow
                    /\ \/ given[i].safety = "safe"
                       \/ given[i].safety = "unsafe" /\ consent.risk
                       \/ given[i].safety = "undetermined" /\ consent.unvetted
                    /\ given[i] = Review("safe", "one") =>
                         \A j \in DOMAIN skills[i].files : skills[i].files[j].text
  BY DEF Agreed
<1>1. skills[i].asks \subseteq consent.allow
  <2>1. skills[i].asks \in {skills[j].asks : j \in DOMAIN skills}
    OBVIOUS
  <2>2. QED
    BY <2>1 DEF Blocked
<1>2. /\ DOMAIN given = 1 .. n
      /\ given[i] = Undetermined \/ given[i] \in Reviews(skills[i])
  BY DEF ReviewsOf
<1>3. /\ given[i].safety \in {"safe", "unsafe", "undetermined"}
      /\ given[i] = Review("safe", "one") => Whole(skills[i])
  <2>1. CASE given[i] = Undetermined
    BY <2>1 DEF Undetermined, Review
  <2>2. CASE given[i] \in Reviews(skills[i])
    BY <2>2, ReviewsAre
  <2>3. QED
    BY <1>2, <2>1, <2>2
<1>4. \/ given[i].safety = "safe"
      \/ given[i].safety = "unsafe" /\ consent.risk
      \/ given[i].safety = "undetermined" /\ consent.unvetted
  BY <1>2, <1>3 DEF Refused, Judged
<1>5. ASSUME Whole(skills[i])
      PROVE  \A j \in DOMAIN skills[i].files : skills[i].files[j].text
  <2>1. \A j \in DOMAIN skills[i].files :
          skills[i].files[j] \in ShownFiles(skills[i].files)
    BY <1>5 DEF Whole
  <2>2. PICK S : skills[i].files \in Seq(S)
    OBVIOUS
  <2>3. QED
    BY <2>1, <2>2, ShownAreText
<1>6. QED
  BY <1>1, <1>3, <1>4, <1>5

\* What a run writes, and what one finds covered.
RunSound(p) ==
    /\ run[p].at = "write" /\ run'[p].at = "written" =>
         /\ Agreed(run[p]) /\ Valid(followed') /\ followed'.readable
         /\ followed'.settings = run[p].config.settings
         /\ Follows(followed') = Follows(run[p].config) \cup Granted(run[p].skills)
    /\ run'[p].at = "covered" =>
         Granted(Registry[run'[p].selector]) \subseteq Follows(run'[p].config)

LEMMA CoveredIs ==
    ASSUME NEW r, Sound(r), r.at = "covered"
    PROVE  Granted(Registry[r.selector]) \subseteq Follows(r.config)
BY DEF Sound, NotRun, Fetching, Writing

\* A run that does not write is sound wherever it goes.
LEMMA OthersSound ==
    ASSUME ApprovalInv, NEW p \in Approvers, NEW r, run' = [run EXCEPT ![p] = r],
           Sound(r), IsFile(followed'), r.at # "written" \/ run[p].at # "write"
    PROVE  ApprovalInv' /\ \A q \in Approvers : RunSound(q)
<1>1. ApprovalInv' /\ run'[p] = r /\ \A q \in Approvers \ {p} : run'[q] = run[q]
  BY RunMoves
<1>2. ASSUME NEW q \in Approvers
      PROVE  /\ ~(run[q].at = "write" /\ run'[q].at = "written")
             /\ run'[q].at = "covered" =>
                  Granted(Registry[run'[q].selector]) \subseteq Follows(run'[q].config)
  <2>1. CASE q = p
    BY <1>1, <2>1, CoveredIs
  <2>2. CASE q # p
    <3>1. run'[q] = run[q] /\ Sound(run[q])
      BY <1>1, <2>2 DEF ApprovalInv
    <3>2. QED
      BY <3>1, CoveredIs
  <2>3. QED
    BY <2>1, <2>2
<1>3. QED
  BY <1>1, <1>2 DEF RunSound

LEMMA ReadFileSound ==
    ASSUME ApprovalInv, NEW p \in Approvers, NEW selector \in Selectors,
           NEW consent \in Consents, ReadFile(p, selector, consent)
    PROVE  ApprovalInv' /\ \A q \in Approvers : RunSound(q)
<1>1. IsFile(followed') /\ IsFile(followed)
  BY DEF ReadFile, ApprovalInv
<1>2. run[p].at # "write"
  BY DEF ReadFile, NotRun
<1>3. CASE followed.readable
  <2>1. PICK r : r = [at |-> "fetch", selector |-> selector, consent |-> consent,
                      config |-> followed]
    OBVIOUS
  <2>2. Sound(r)
    BY <1>1, <1>3, <2>1 DEF Sound, Fetching
  <2>3. run' = [run EXCEPT ![p] = r]
    BY <1>3, <2>1 DEF ReadFile
  <2>4. QED
    BY <1>1, <1>2, <2>2, <2>3, OthersSound
<1>4. CASE ~followed.readable
  <2>1. PICK r : r = [at |-> "failed"]
    OBVIOUS
  <2>2. Sound(r)
    BY <2>1 DEF Sound
  <2>3. run' = [run EXCEPT ![p] = r]
    BY <1>4, <2>1 DEF ReadFile
  <2>4. QED
    BY <1>1, <1>2, <2>2, <2>3, OthersSound
<1>5. QED
  BY <1>3, <1>4

LEMMA DecideSound ==
    ASSUME ApprovalInv, NEW p \in Approvers, Decide(p)
    PROVE  ApprovalInv' /\ \A q \in Approvers : RunSound(q)
<1>1. IsFile(followed')
  BY DEF Decide, ApprovalInv
<1>2. run[p].at = "fetch" /\ Sound(run[p])
  BY DEF Decide, ApprovalInv
<1>3. PICK selector, consent, conf :
        /\ selector \in Selectors
        /\ run[p] = [at |-> "fetch", selector |-> selector, consent |-> consent,
                     config |-> conf]
        /\ IsFile(conf) /\ conf.readable
  <2>1. NotRun.at = "start"
    BY DEF NotRun
  <2>2. Fetching(run[p])
    BY <1>2, <2>1 DEF Sound, Writing
  <2>3. QED
    BY <2>2 DEF Fetching
<1>4. ASSUME NEW ended \in {"failed", "stopped"}, run' = [run EXCEPT ![p] = [at |-> ended]]
      PROVE  ApprovalInv' /\ \A q \in Approvers : RunSound(q)
  <2>1. PICK r : r = [at |-> ended]
    OBVIOUS
  <2>2. Sound(r) /\ r.at # "written"
    BY <2>1 DEF Sound
  <2>3. QED
    BY <1>1, <1>4, <2>1, <2>2, OthersSound
<1>5. ASSUME NEW skills \in Candidates(selector), NEW plan,
             plan = Planned(skills, conf),
             plan.change = "covered" /\ run' = [run EXCEPT ![p].at = "covered"]
      PROVE  ApprovalInv' /\ \A q \in Approvers : RunSound(q)
  <2>1. PICK r : r = [at |-> "covered", selector |-> selector, consent |-> consent,
                      config |-> conf]
    OBVIOUS
  <2>2. Granted(skills) \subseteq Follows(conf)
    <3>1. PICK n : n = Len(skills)
      OBVIOUS
    <3>2. /\ n \in Nat \ {0} /\ DOMAIN skills = 1 .. n
          /\ \A i \in 1 .. n : skills[i].dir \in Folders
      BY <1>3, <3>1, RegistryIs
    <3>3. QED
      BY <1>3, <1>5, <3>1, <3>2, PlannedIs
  <2>3. skills = Registry[selector]
    BY <1>3, RegistryIs
  <2>4. Sound(r)
    BY <2>1, <2>2, <2>3 DEF Sound
  <2>5. [run[p] EXCEPT !.at = "covered"] = r
    BY <1>3, <2>1
  <2>6. run' = [run EXCEPT ![p] = r]
    BY <1>5, <2>5 DEF ApprovalInv
  <2>7. QED
    BY <1>1, <2>1, <2>4, <2>6, OthersSound
<1>6. ASSUME NEW skills \in Candidates(selector), NEW plan,
             plan = Planned(skills, conf), plan.change \in {"added", "extended"},
             NEW given \in ReviewsOf(skills),
             Blocked(skills, consent) = {}, ~Refused(given, consent),
             run' = [run EXCEPT ![p] = [at |-> "write", consent |-> consent,
                        config |-> conf, skills |-> skills, reviews |-> given]]
      PROVE  ApprovalInv' /\ \A q \in Approvers : RunSound(q)
  <2>1. PICK r : r = [at |-> "write", consent |-> consent, config |-> conf,
                      skills |-> skills, reviews |-> given]
    OBVIOUS
  <2>2. /\ r.skills = skills /\ r.reviews = given /\ r.consent = consent
        /\ r.config = conf /\ r.at = "write"
    BY <2>1
  <2>3. PICK n : n = Len(skills)
    OBVIOUS
  <2>4. /\ n \in Nat /\ DOMAIN skills = 1 .. n
        /\ \A i \in 1 .. n : \E S : skills[i].files \in Seq(S)
    BY <1>3, <2>3, RegistryIs
  <2>5. Agreed(r)
    BY <1>6, <2>2, <2>4, SettledAgreed
  <2>6. Sound(r)
    BY <1>3, <1>6, <2>2, <2>5 DEF Sound, Writing
  <2>7. QED
    BY <1>1, <1>6, <2>1, <2>2, <2>6, OthersSound
<1>7. CASE run' = [run EXCEPT ![p] = [at |-> "failed"]]
  BY <1>4, <1>7
<1>8. CASE \E skills \in Candidates(selector) :
             LET plan == Planned(skills, conf)
             IN  \/ plan.change = "invalid" /\ run' = [run EXCEPT ![p] = [at |-> "failed"]]
                 \/ plan.change = "covered" /\ run' = [run EXCEPT ![p].at = "covered"]
                 \/ /\ plan.change \in {"added", "extended"}
                    /\ \E given \in ReviewsOf(skills) :
                         run' = [run EXCEPT ![p] =
                           IF Blocked(skills, consent) = {} /\ ~Refused(given, consent)
                           THEN [at |-> "write", consent |-> consent, config |-> conf,
                                 skills |-> skills, reviews |-> given]
                           ELSE [at |-> "stopped"]]
  <2>1. PICK skills, plan :
          /\ skills \in Candidates(selector)
          /\ plan = Planned(skills, conf)
          /\ \/ plan.change = "invalid" /\ run' = [run EXCEPT ![p] = [at |-> "failed"]]
             \/ plan.change = "covered" /\ run' = [run EXCEPT ![p].at = "covered"]
             \/ /\ plan.change \in {"added", "extended"}
                /\ \E given \in ReviewsOf(skills) :
                     run' = [run EXCEPT ![p] =
                       IF Blocked(skills, consent) = {} /\ ~Refused(given, consent)
                       THEN [at |-> "write", consent |-> consent, config |-> conf,
                             skills |-> skills, reviews |-> given]
                       ELSE [at |-> "stopped"]]
    BY <1>8
  <2>2. CASE plan.change = "invalid" /\ run' = [run EXCEPT ![p] = [at |-> "failed"]]
    BY <1>4, <2>2
  <2>3. CASE plan.change = "covered" /\ run' = [run EXCEPT ![p].at = "covered"]
    BY <1>5, <2>1, <2>3
  <2>4. ASSUME plan.change \in {"added", "extended"}, NEW given \in ReviewsOf(skills),
               run' = [run EXCEPT ![p] =
                         IF Blocked(skills, consent) = {} /\ ~Refused(given, consent)
                         THEN [at |-> "write", consent |-> consent, config |-> conf,
                               skills |-> skills, reviews |-> given]
                         ELSE [at |-> "stopped"]]
        PROVE  ApprovalInv' /\ \A q \in Approvers : RunSound(q)
    <3>1. CASE Blocked(skills, consent) = {} /\ ~Refused(given, consent)
      BY <1>6, <2>1, <2>4, <3>1
    <3>2. CASE ~(Blocked(skills, consent) = {} /\ ~Refused(given, consent))
      <4>1. run' = [run EXCEPT ![p] = [at |-> "stopped"]]
        BY <2>4, <3>2
      <4>2. QED
        BY <1>4, <4>1
    <3>3. QED
      BY <3>1, <3>2
  <2>5. QED
    BY <2>1, <2>2, <2>3, <2>4
<1>9. QED
  BY <1>3, <1>7, <1>8 DEF Decide

LEMMA WriteFileSound ==
    ASSUME ApprovalInv, NEW p \in Approvers, WriteFile(p)
    PROVE  ApprovalInv' /\ \A q \in Approvers : RunSound(q)
<1>1. PICK r : r = [at |-> "written"]
  OBVIOUS
<1>2. run' = [run EXCEPT ![p] = r] /\ r.at = "written"
  BY <1>1 DEF WriteFile
<1>3. Writing(run[p])
  <2>1. NotRun.at = "start"
    BY DEF NotRun
  <2>2. QED
    BY <2>1 DEF WriteFile, ApprovalInv, Sound, Fetching
<1>4. PICK skills, conf, plan :
        /\ skills = run[p].skills /\ conf = run[p].config
        /\ plan = Planned(skills, conf)
  OBVIOUS
<1>5. PICK selector \in Selectors : skills \in Candidates(selector)
  BY <1>3, <1>4 DEF Writing
<1>6. followed' = plan.config /\ plan.change \in {"added", "extended"}
  BY <1>3, <1>4 DEF Writing, WriteFile
<1>7. IsFile(conf) /\ conf.readable
  BY <1>3, <1>4 DEF Writing
<1>8. /\ IsFile(followed') /\ Valid(followed')
      /\ followed'.settings = conf.settings /\ followed'.readable = conf.readable
      /\ Follows(followed') = Follows(conf) \cup Granted(skills)
  <2>1. PICK n : n = Len(skills)
    OBVIOUS
  <2>2. /\ n \in Nat \ {0} /\ DOMAIN skills = 1 .. n
        /\ \A i \in 1 .. n : skills[i].dir \in Folders
    BY <1>5, <2>1, RegistryIs
  <2>3. /\ IsFile(plan.config) /\ Valid(plan.config)
        /\ plan.config.settings = conf.settings
        /\ plan.config.readable = conf.readable
        /\ Follows(plan.config) = Follows(conf) \cup Granted(skills)
    <3>1. IsFile(conf) /\ plan = Planned(skills, conf) /\ Len(skills) = n
      BY <1>4, <1>7, <2>1
    <3>2. plan.change \in {"added", "extended"} =>
             /\ IsFile(plan.config) /\ Valid(plan.config)
             /\ plan.config.settings = conf.settings
             /\ plan.config.readable = conf.readable
             /\ Follows(plan.config) = Follows(conf) \cup Granted(skills)
      BY <2>2, <3>1, PlannedIs
    <3>3. QED
      BY <1>6, <3>2
  <2>4. QED
    BY <1>6, <2>3
<1>9. ApprovalInv' /\ run'[p] = r /\ \A q \in Approvers \ {p} : run'[q] = run[q]
  <2>1. Sound(r)
    BY <1>2 DEF Sound
  <2>2. QED
    BY <1>2, <1>8, <2>1, RunMoves
<1>10. RunSound(p)
  BY <1>2, <1>3, <1>4, <1>7, <1>8, <1>9 DEF RunSound, Writing
<1>11. ASSUME NEW q \in Approvers \ {p}
       PROVE  RunSound(q)
  <2>1. run'[q] = run[q] /\ Sound(run[q])
    BY <1>9 DEF ApprovalInv
  <2>2. QED
    BY <2>1, CoveredIs DEF RunSound
<1>12. QED
  BY <1>9, <1>10, <1>11

LEMMA WriteFileFailsSound ==
    ASSUME ApprovalInv, NEW p \in Approvers, WriteFileFails(p)
    PROVE  ApprovalInv' /\ \A q \in Approvers : RunSound(q)
<1>1. PICK r : r = [at |-> "failed"]
  OBVIOUS
<1>2. run' = [run EXCEPT ![p] = r] /\ r.at = "failed" /\ Sound(r)
  BY <1>1 DEF WriteFileFails, Sound
<1>3. IsFile(followed')
  BY DEF WriteFileFails, ApprovalInv
<1>4. QED
  BY <1>2, <1>3, OthersSound

\* The runs stay ended they are.
LEMMA RunsStay ==
    ASSUME ApprovalInv, run' = run, IsFile(followed')
    PROVE  ApprovalInv' /\ \A q \in Approvers : RunSound(q)
<1>1. ApprovalInv'
  BY DEF ApprovalInv, Sound, Fetching, Writing
<1>2. ASSUME NEW q \in Approvers
      PROVE  RunSound(q)
  <2>1. run'[q] = run[q] /\ Sound(run[q])
    BY DEF ApprovalInv
  <2>2. QED
    BY <2>1, CoveredIs DEF RunSound
<1>3. QED
  BY <1>1, <1>2

LEMMA EditByHandSound ==
    ASSUME ApprovalInv, EditByHand
    PROVE  ApprovalInv' /\ \A q \in Approvers : RunSound(q)
<1>1. IsFile(followed)
  BY DEF ApprovalInv
<1>2. ASSUME NEW source \in OwnSources,
             followed' = [followed EXCEPT !.sources = Append(@, source)]
      PROVE  IsFile(followed')
  <2>1. IsSource(source)
    BY SourceIs
  <2>2. followed' = Added(followed, source)
    BY <1>1, <1>2, ResourcedIs
  <2>3. QED
    BY <1>1, <2>1, <2>2, AppendedFile
<1>3. ASSUME NEW settings, NEW readable,
             followed' = [sources |-> followed.sources, settings |-> settings,
                          readable |-> readable]
      PROVE  IsFile(followed')
  BY <1>1, <1>3 DEF IsFile
<1>4. PICK s, t, r : followed = [sources |-> s, settings |-> t, readable |-> r]
  BY <1>1 DEF IsFile
<1>5. ASSUME followed' = [followed EXCEPT !.settings = 1 - @]
      PROVE  IsFile(followed')
  <2>1. followed' = [sources |-> followed.sources, settings |-> 1 - t,
                     readable |-> followed.readable]
    BY <1>4, <1>5
  <2>2. QED
    BY <1>3, <2>1
<1>6. ASSUME followed' = [followed EXCEPT !.readable = ~@]
      PROVE  IsFile(followed')
  <2>1. followed' = [sources |-> followed.sources, settings |-> followed.settings,
                     readable |-> ~r]
    BY <1>4, <1>6
  <2>2. QED
    BY <1>3, <2>1
<1>7. run' = run
  BY DEF EditByHand
<1>8. \/ \E source \in OwnSources : followed' = [followed EXCEPT !.sources = Append(@, source)]
      \/ followed' = [followed EXCEPT !.settings = 1 - @]
      \/ followed' = [followed EXCEPT !.readable = ~@]
  BY DEF EditByHand
<1>9. IsFile(followed')
  BY <1>2, <1>5, <1>6, <1>8
<1>10. QED
  BY <1>7, <1>9, RunsStay

LEMMA ApprovalStep ==
    ASSUME ApprovalInv, [ApprovalNext]_approvalVars
    PROVE  ApprovalInv' /\ \A q \in Approvers : RunSound(q)
<1>1. CASE ApprovalNext
  BY <1>1, ReadFileSound, DecideSound, WriteFileSound, WriteFileFailsSound, EditByHandSound
     DEF ApprovalNext
<1>2. CASE UNCHANGED approvalVars
  BY <1>2, RunsStay DEF approvalVars, ApprovalInv
<1>3. QED
  BY <1>1, <1>2

\* A run of `chauffeur skill approve` follows the folder of the skills it was
\* asked for and nothing else, keeps everything else the file said when the
\* run read it, leaves a file the daemon can read, and only does so when every
\* skill was judged safe, by System One only after it saw the whole of it, or
\* the user accepted what stood against it; a skill it reports as covered is
\* covered.  For any registry, folders, sources, bounds, runs and edits by hand
\* (approve.rs, model.rs, review.rs).
THEOREM ApprovedIsFollowed == ApprovalSpec => ApprovalsSound
<1>1. ApprovalInit => ApprovalInv
  BY ApprovalStarts
<1>2. ApprovalInv /\ [ApprovalNext]_approvalVars => ApprovalInv'
  BY ApprovalStep
<1>3. ApprovalInv /\ [ApprovalNext]_approvalVars =>
        [\A p \in Approvers :
            /\ run[p].at = "write" /\ run'[p].at = "written" =>
                 /\ Agreed(run[p]) /\ Valid(followed') /\ followed'.readable
                 /\ followed'.settings = run[p].config.settings
                 /\ Follows(followed') = Follows(run[p].config) \cup Granted(run[p].skills)
            /\ run'[p].at = "covered" =>
                 Granted(Registry[run'[p].selector]) \subseteq Follows(run'[p].config)]_approvalVars
  BY ApprovalStep DEF RunSound
<1>4. QED
  BY <1>1, <1>2, <1>3, PTL DEF ApprovalSpec, ApprovalsSound
=============================================================================
