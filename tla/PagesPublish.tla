---------------------------- MODULE PagesPublish ----------------------------
(***************************************************************************)
(* The package site: pages/build-site.sh, run by pages-repo.yml on the     *)
(* promotion record and the releases as they are by then, while releases   *)
(* are built and the record changes.                                       *)
(*                                                                         *)
(* A release is its number in the order of publication and stands for its  *)
(* RPM, whose file name is its own: the RPM's Release carries the run      *)
(* number of the build.  A record is immutable, so a run may keep a copy.  *)
(***************************************************************************)
EXTENDS Integers, FiniteSets

CONSTANTS
  Runs,        \* runs of the workflow that may exist at once
  Releases,    \* bound: how many releases are built
  Generations, \* bound: how often the record changes
  Days,        \* bound on the calendar
  Keep,        \* KEEP_CANDIDATES
  Page,        \* the releases the API lists at once, 100
  Retention    \* for how long the record keeps what it replaces

ASSUME Bounds ==
  /\ {Releases, Generations, Days, Keep, Page, Retention} \subseteq Nat
  /\ Generations >= 1  \* the record there is at first

VARIABLES
  released, prereleases,  \* the releases there are, and those marked as candidates
  record,                 \* stable.json on the promotions branch
  now,
  queued,                 \* the run that waits for its turn: GitHub keeps one at most
  run,                    \* what each run has read and built
  site,                   \* what is deployed
  cached,                 \* history: what stable metadata has ever listed
  owed,                   \* history: has the record changed, or a run failed, since a trigger?
  lost                    \* history: has a run been cancelled for one that does nothing?

history == <<owed, lost>>
vars == <<released, prereleases, record, now, queued, run, site, cached, history>>

Tags == 1 .. Releases
Statuses == {"none", "stable", "superseded", "retired", "withdrawn"}

Nothing == [generation |-> 0, files |-> {}, listed |-> {}, testing |-> {}]

FirstRecord == [generation |-> 1, status |-> [t \in Tags |-> "none"],
                until |-> [t \in Tags |-> 0]]

NoRun == [stage |-> "none", record |-> FirstRecord, tree |-> Nothing]

Init ==
  /\ released = 0 /\ prereleases = {}
  /\ record = FirstRecord
  /\ now = 0
  /\ queued = "none"
  /\ run = [r \in Runs |-> NoRun]
  /\ site = Nothing /\ cached = {} /\ owed = FALSE /\ lost = FALSE

-----------------------------------------------------------------------------
(* build-site.sh                                                           *)

\* gh_api asks for one page, newest first.
Listed == {t \in 1 .. released : t > released - Page}

WithStatus(rec, status) == {t \in Tags : rec.status[t] = status}

Retained(rec, status) == {t \in WithStatus(rec, status) : rec.until[t] > now}

Stable(rec) == WithStatus(rec, "stable") \cup Retained(rec, "retired")

SupersededDropped(rec) == {}  \* mutant: what is unlisted is not fetched either

Superseded(rec) == Retained(rec, "superseded")

NewestOffByOne(S) == {t \in S : Cardinality({u \in S : u > t}) <= Keep}  \* mutant

Newest(S) == {t \in S : Cardinality({u \in S : u > t}) < Keep}

TestingUnfiltered(rec) == Newest(prereleases \cap Listed)  \* mutant: $w is not looked at

Testing(rec) == Newest((prereleases \cap Listed) \ WithStatus(rec, "withdrawn"))

Tree(rec) ==
  [generation |-> rec.generation, listed |-> Stable(rec),
   files |-> Stable(rec) \cup Superseded(rec), testing |-> Testing(rec)]

\* Any missing part fails the run, and so does a record with nothing to serve.
Buildable(rec) == Stable(rec) # {} /\ Stable(rec) \cup Superseded(rec) \subseteq Listed

-----------------------------------------------------------------------------
(* pages-repo.yml                                                          *)

\* A build has ended well, prod/promote or somebody else dispatches.  A run that was
\* waiting is cancelled in favour of this one.
Trigger ==
  /\ queued' = "work" /\ owed' = FALSE /\ lost' = FALSE
  /\ UNCHANGED <<released, prereleases, record, now, run, site, cached>>

\* A build has failed: `if` will skip the jobs, but only once it is this run's turn.
TriggerSkipped ==
  /\ queued' = "skip"
  /\ lost' = (lost \/ queued = "work")
  /\ UNCHANGED <<released, prereleases, record, now, run, site, cached, owed>>

Skip ==
  /\ queued = "skip" /\ \A q \in Runs : run[q].stage = "none"
  /\ queued' = "none"
  /\ UNCHANGED <<released, prereleases, record, now, run, site, cached, history>>

BeginConcurrently(r) ==  \* mutant: no concurrency group
  /\ queued = "work" /\ run[r].stage = "none"
  /\ queued' = "none"
  /\ run' = [run EXCEPT ![r].stage = "read", ![r].record = record]
  /\ UNCHANGED <<released, prereleases, record, now, site, cached, history>>

\* The concurrency group lets one run in; it reads the record then.
Begin(r) ==
  /\ queued = "work" /\ \A q \in Runs : run[q].stage = "none"
  /\ queued' = "none"
  /\ run' = [run EXCEPT ![r].stage = "read", ![r].record = record]
  /\ UNCHANGED <<released, prereleases, record, now, site, cached, history>>

Build(r) ==
  /\ run[r].stage = "read" /\ Buildable(run[r].record)
  /\ run' = [run EXCEPT ![r].stage = "built", ![r].tree = Tree(run[r].record)]
  /\ UNCHANGED <<released, prereleases, record, now, queued, site, cached, history>>

\* At any step: an asset is missing or altered, a service is down.
Fail(r) ==
  /\ run[r].stage # "none"
  /\ run' = [run EXCEPT ![r] = NoRun]
  /\ owed' = TRUE
  /\ UNCHANGED <<released, prereleases, record, now, queued, site, cached, lost>>

Deploy(r) ==
  /\ run[r].stage = "built"
  /\ run' = [run EXCEPT ![r] = NoRun]
  /\ site' = run[r].tree
  /\ cached' = cached \cup site'.listed
  /\ UNCHANGED <<released, prereleases, record, now, queued, history>>

-----------------------------------------------------------------------------
(* The world.                                                              *)

\* xoa-proxy.yml: every build is published as a pre-release.
Publish ==
  /\ released < Releases
  /\ released' = released + 1 /\ prereleases' = prereleases \cup {released + 1}
  /\ UNCHANGED <<record, now, queued, run, site, cached, history>>

\* What the record says of a release, and for how long; it only moves forward.
Successors(status) ==
  CASE status = "none" -> {"stable", "withdrawn"}
    [] status = "stable" -> {"superseded", "retired", "withdrawn"}
    [] status \in {"superseded", "retired"} -> {"withdrawn"}
    [] status = "withdrawn" -> {}

\* The record is changed, one release or several at a time, and the promoted
\* releases may lose their pre-release mark.
Promote ==
  /\ record.generation < Generations
  /\ \E status \in [Tags -> Statuses] :
       /\ \A t \in Tags : status[t] # record.status[t] =>
            t <= released /\ status[t] \in Successors(record.status[t])
       /\ record' =
            [generation |-> record.generation + 1, status |-> status,
             until |-> [t \in Tags |-> IF status[t] # record.status[t]
                                       THEN now + Retention ELSE record.until[t]]]
  /\ prereleases' \in {prereleases, prereleases \ WithStatus(record', "stable")}
  /\ owed' = TRUE
  /\ UNCHANGED <<released, now, queued, run, site, cached, lost>>

Tick ==
  /\ now < Days
  /\ now' = now + 1
  /\ UNCHANGED <<released, prereleases, record, queued, run, site, cached, history>>

Next ==
  \/ Trigger \/ TriggerSkipped \/ Skip \/ Publish \/ Promote \/ Tick
  \/ \E r \in Runs : Begin(r) \/ Build(r) \/ Fail(r) \/ Deploy(r)

Spec == Init /\ [][Next]_vars

-----------------------------------------------------------------------------
Records == [generation : 1 .. Generations, status : [Tags -> Statuses],
            until : [Tags -> 0 .. Days + Retention]]

Trees == [generation : 0 .. Generations, files : SUBSET Tags, listed : SUBSET Tags,
          testing : {T \in SUBSET Tags : Cardinality(T) <= Keep}]

TypeOK ==
  /\ released \in 0 .. Releases /\ prereleases \subseteq 1 .. released
  /\ record \in Records
  /\ now \in 0 .. Days
  /\ queued \in {"none", "work", "skip"} /\ {owed, lost} \subseteq BOOLEAN
  /\ run \in [Runs -> [stage : {"none", "read", "built"}, record : Records, tree : Trees]]
  /\ site \in Trees
  /\ cached \subseteq Tags

\* "a queued run never publishes an older set" (pages-repo.yml:61): whatever was
\* triggered when, the site moves forward through the promotion records.
SiteNeverGoesBack == [][site'.generation >= site.generation]_vars

\* "the file stays downloadable until retain_until, so cached metadata never 404s"
\* (build-site.sh:37): what any metadata ever listed is there until the record
\* withdraws it or its time is up, through failed runs and late ones.
CachedIsDownloadable ==
  \A t \in cached :
    \/ record.status[t] = "stable"
    \/ record.status[t] \in {"superseded", "retired"} /\ record.until[t] > now
    => t \in site.files

Quiet == queued # "work" /\ \A r \in Runs : run[r].stage = "none"

SiteIsTheRecord ==
  /\ site.generation = record.generation
  /\ WithStatus(record, "stable") \subseteq site.listed
  /\ WithStatus(record, "withdrawn") \cap (site.files \cup site.testing) = {}

\* Once a run that was triggered after the last change has ended well, the site is
\* that record's, and serves nothing it withdrew; unless that run was cancelled.
SettledSiteIsTheRecord ==
  Quiet /\ ~owed /\ ~lost /\ site # Nothing => SiteIsTheRecord

=============================================================================
