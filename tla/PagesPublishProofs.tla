------------------------- MODULE PagesPublishProofs -------------------------
(***************************************************************************)
(* The theorems about the package site.                                    *)
(***************************************************************************)
EXTENDS PagesPublish, FiniteSetTheorems, WellFoundedInduction, TLAPS

RecordTypes == [generation : Nat, status : [Tags -> Statuses], until : [Tags -> Nat]]

TreeTypes == [generation : Nat, files : SUBSET Tags, listed : SUBSET Tags,
              testing : SUBSET Tags]

RunTypes == [stage : {"none", "read", "built"}, record : RecordTypes, tree : TreeTypes]

Types ==
  /\ released \in 0 .. Releases
  /\ record \in RecordTypes /\ now \in Nat
  /\ owed \in BOOLEAN /\ lost \in BOOLEAN
  /\ run \in [Runs -> RunTypes]
  /\ site \in TreeTypes /\ cached \subseteq Tags

Known(rec) == {t \in Tags : rec.status[t] # "none"}

Live(rec, t) ==
  \/ rec.status[t] = "stable"
  \/ rec.status[t] \in {"superseded", "retired"} /\ rec.until[t] > now

\* What can have become of an older record.
Follows(new, old) ==
  \A t \in Known(old) :
    \/ new.status[t] = old.status[t] /\ new.until[t] = old.until[t]
    \/ old.status[t] = "stable" /\ new.status[t] # "none"
    \/ new.status[t] = "withdrawn"

\* What a run that has read a record owes to it, to the site and to the past.
ReadWell(r) ==
  /\ Follows(record, run[r].record)
  /\ site.generation <= run[r].record.generation
  /\ run[r].record.generation <= record.generation
  /\ cached \subseteq Known(run[r].record)

Serves(tree, rec) ==
  /\ tree.generation = rec.generation
  /\ \A t \in Tags : Live(rec, t) => t \in tree.files
  /\ tree.listed \subseteq tree.files \cap Known(rec)
  /\ WithStatus(rec, "stable") \subseteq tree.listed
  /\ WithStatus(rec, "withdrawn") \cap (tree.files \cup tree.testing) = {}

RunsInv ==
  /\ \A r \in Runs : run[r].stage # "none" => ReadWell(r)
  /\ \A r \in Runs : run[r].stage = "built" => Serves(run[r].tree, run[r].record)
  /\ \A q, r \in Runs : run[q].stage # "none" /\ run[r].stage # "none" => q = r
  /\ ~owed /\ ~lost /\ queued # "work" =>
       \A r \in Runs : run[r].stage # "none" => run[r].record = record

SiteInv ==
  /\ site.generation <= record.generation
  /\ cached \subseteq Known(record)
  /\ CachedIsDownloadable
  /\ SettledSiteIsTheRecord

Inv == Types /\ RunsInv /\ SiteInv

-----------------------------------------------------------------------------
\* What is live now was live in every older record that knew it.
LEMMA LiveWasLive ==
  ASSUME NEW new, NEW old, Follows(new, old), NEW t \in Known(old), Live(new, t)
  PROVE  Live(old, t)
BY DEF Follows, Live

LEMMA KnownStays ==
  ASSUME NEW new \in RecordTypes, NEW old \in RecordTypes, Follows(new, old)
  PROVE  Known(old) \subseteq Known(new)
BY DEF Follows, Known

LEMMA FollowsItself == \A rec : Follows(rec, rec)
BY DEF Follows

LEMMA FollowsOn ==
  ASSUME NEW a \in RecordTypes, NEW b \in RecordTypes, NEW c \in RecordTypes,
         Follows(b, a), Follows(c, b)
  PROVE  Follows(c, a)
BY DEF Follows, Known

\* A change of the record moves it forward.
LEMMA PromoteFollows ==
  ASSUME Types, Promote
  PROVE  /\ record' \in RecordTypes
         /\ record'.generation = record.generation + 1
         /\ Follows(record', record)
<1>1. PICK status \in [Tags -> Statuses] :
        /\ \A t \in Tags : status[t] # record.status[t] =>
             t <= released /\ status[t] \in Successors(record.status[t])
        /\ record' =
             [generation |-> record.generation + 1, status |-> status,
              until |-> [t \in Tags |-> IF status[t] # record.status[t]
                                        THEN now + Retention ELSE record.until[t]]]
  BY DEF Promote
<1>2. now + Retention \in Nat
  BY Bounds DEF Types
<1>3. record' \in RecordTypes /\ record'.generation = record.generation + 1
  BY <1>1, <1>2 DEF RecordTypes, Types
<1>4. ASSUME NEW t \in Known(record), status[t] = record.status[t]
      PROVE  record'.status[t] = record.status[t] /\ record'.until[t] = record.until[t]
  BY <1>1, <1>4 DEF Known
<1>5. ASSUME NEW t \in Known(record), status[t] # record.status[t]
      PROVE  \/ record.status[t] = "stable" /\ record'.status[t] # "none"
             \/ record'.status[t] = "withdrawn"
  <2>1. record'.status[t] = status[t] /\ t \in Tags /\ record.status[t] # "none"
    BY <1>1 DEF Known
  <2>2. status[t] \in Successors(record.status[t]) /\ record.status[t] \in Statuses
    BY <1>1, <1>5, <2>1 DEF Types, RecordTypes
  <2>q. QED BY <2>1, <2>2 DEF Successors, Statuses
<1>q. QED BY <1>3, <1>4, <1>5 DEF Follows

\* What build-site.sh makes of a record serves that record.
LEMMA TreeServes ==
  ASSUME Types, NEW rec \in RecordTypes
  PROVE  Tree(rec) \in TreeTypes /\ Serves(Tree(rec), rec)
<1>1. Listed \subseteq Tags
  BY Bounds DEF Listed, Types, Tags
<1>2. Testing(rec) \subseteq Tags \ WithStatus(rec, "withdrawn")
  BY <1>1 DEF Testing, Newest
<1>3. Stable(rec) \cup Superseded(rec) \subseteq Tags
  BY DEF Stable, Superseded, Retained, WithStatus
<1>4. Tree(rec) \in TreeTypes
  BY <1>2, <1>3 DEF Tree, TreeTypes, RecordTypes
<1>5. \A t \in Tags : Live(rec, t) => t \in Stable(rec) \cup Superseded(rec)
  BY DEF Live, Stable, Superseded, Retained, WithStatus
<1>6. Stable(rec) \subseteq Known(rec) /\ WithStatus(rec, "stable") \subseteq Stable(rec)
  BY DEF Stable, Retained, WithStatus, Known
<1>7. WithStatus(rec, "withdrawn") \cap (Stable(rec) \cup Superseded(rec)) = {}
  BY DEF Stable, Superseded, Retained, WithStatus
<1>q. QED BY <1>2, <1>4, <1>5, <1>6, <1>7 DEF Serves, Tree

-----------------------------------------------------------------------------
LEMMA InvInit == Init => Inv
<1>1. FirstRecord \in RecordTypes /\ Nothing \in TreeTypes
  BY DEF FirstRecord, Nothing, RecordTypes, TreeTypes, Statuses
<1>2. NoRun \in RunTypes
  BY <1>1 DEF NoRun, RunTypes
<1>3. Init => Types
  <2> SUFFICES ASSUME Init PROVE Types
    OBVIOUS
  <2>1. released \in 0 .. Releases /\ now \in Nat /\ cached \subseteq Tags
    BY Bounds DEF Init
  <2>2. run \in [Runs -> RunTypes]
    BY <1>2 DEF Init
  <2>3. record \in RecordTypes /\ site \in TreeTypes
    BY <1>1 DEF Init
  <2>4. owed \in BOOLEAN /\ lost \in BOOLEAN
    BY DEF Init
  <2>q. QED BY <2>1, <2>2, <2>3, <2>4 DEF Types
<1>4. Init => RunsInv
  BY DEF Init, RunsInv, NoRun
<1>5. Init => SiteInv
  BY DEF Init, SiteInv, FirstRecord, Nothing, CachedIsDownloadable,
         SettledSiteIsTheRecord, Quiet, SiteIsTheRecord
<1>q. QED BY <1>3, <1>4, <1>5 DEF Inv

LEMMA TriggerInv == Inv /\ Trigger => Inv'
<1> SUFFICES ASSUME Inv, Trigger PROVE Inv'
  OBVIOUS
<1>1. Types'
  BY DEF Inv, Trigger, Types
<1>2. RunsInv'
  BY DEF Inv, Trigger, RunsInv, ReadWell, Serves, Live
<1>3. SiteInv'
  BY DEF Inv, Trigger, SiteInv, CachedIsDownloadable, SettledSiteIsTheRecord, Quiet,
         SiteIsTheRecord
<1>q. QED BY <1>1, <1>2, <1>3 DEF Inv

LEMMA TriggerSkippedInv == Inv /\ TriggerSkipped => Inv'
<1> SUFFICES ASSUME Inv, TriggerSkipped PROVE Inv'
  OBVIOUS
<1>1. Types'
  BY DEF Inv, TriggerSkipped, Types
<1>2. ~owed' /\ ~lost' => ~owed /\ ~lost /\ queued # "work"
  BY DEF TriggerSkipped
<1>3. RunsInv'
  BY <1>2 DEF Inv, TriggerSkipped, RunsInv, ReadWell, Serves, Live
<1>4. SiteInv'
  BY <1>2 DEF Inv, TriggerSkipped, SiteInv, CachedIsDownloadable, SettledSiteIsTheRecord,
              Quiet, SiteIsTheRecord
<1>q. QED BY <1>1, <1>3, <1>4 DEF Inv

LEMMA SkipInv == Inv /\ Skip => Inv'
<1> SUFFICES ASSUME Inv, Skip PROVE Inv'
  OBVIOUS
<1>1. Types'
  BY DEF Inv, Skip, Types, history
<1>2. RunsInv'
  BY DEF Inv, Skip, RunsInv, ReadWell, Serves, Live, history
<1>3. SiteInv'
  BY DEF Inv, Skip, SiteInv, CachedIsDownloadable, SettledSiteIsTheRecord, Quiet,
         SiteIsTheRecord, history
<1>q. QED BY <1>1, <1>2, <1>3 DEF Inv

LEMMA PublishInv == Inv /\ Publish => Inv'
<1> SUFFICES ASSUME Inv, Publish PROVE Inv'
  OBVIOUS
<1>1. Types'
  BY Bounds DEF Inv, Publish, history, Types
<1>2. RunsInv'
  BY DEF Inv, Publish, history, RunsInv, ReadWell, Serves, Live
<1>3. SiteInv'
  BY DEF Inv, Publish, history, SiteInv, CachedIsDownloadable, SettledSiteIsTheRecord,
         Quiet, SiteIsTheRecord
<1>q. QED BY <1>1, <1>2, <1>3 DEF Inv

\* Nothing becomes live as time goes by.
LEMMA TickInv == Inv /\ Tick => Inv'
<1> SUFFICES ASSUME Inv, Tick PROVE Inv'
  OBVIOUS
<1>1. Types' /\ now' = now + 1 /\ now \in Nat
  BY Bounds DEF Inv, Tick, history, Types
<1>2. ASSUME NEW rec \in RecordTypes, NEW t \in Tags, Live(rec, t)' PROVE Live(rec, t)
  BY <1>1, <1>2 DEF Live, RecordTypes
<1>3. RunsInv'
  BY <1>2 DEF Inv, Tick, history, RunsInv, ReadWell, Serves, Types, RunTypes
<1>4. SiteInv'
  <2>1. CachedIsDownloadable'
    <3> SUFFICES ASSUME NEW t \in cached', Live(record, t)' PROVE t \in site'.files
      BY DEF CachedIsDownloadable, Live
    <3>1. record' = record /\ site' = site /\ cached' = cached
      BY DEF Tick, history
    <3>2. record \in RecordTypes /\ t \in Tags
      BY <3>1 DEF Inv, Types
    <3>3. Live(record, t)
      BY <1>1, <3>1, <3>2 DEF Live, RecordTypes
    <3>q. QED BY <3>1, <3>3 DEF Inv, SiteInv, CachedIsDownloadable, Live
  <2>q. QED BY <2>1 DEF Inv, Tick, history, SiteInv, SettledSiteIsTheRecord, Quiet,
                        SiteIsTheRecord
<1>q. QED BY <1>1, <1>3, <1>4 DEF Inv

LEMMA PromoteInv == Inv /\ Promote => Inv'
<1> SUFFICES ASSUME Inv, Promote PROVE Inv'
  OBVIOUS
<1>1. /\ record' \in RecordTypes /\ record'.generation = record.generation + 1
      /\ Follows(record', record)
  BY PromoteFollows DEF Inv
<1>2. Types
  BY DEF Inv
<1>3. Types'
  BY <1>1, <1>2 DEF Promote, Types
<1>4. RunsInv'
  <2>1. ASSUME NEW r \in Runs, run[r].stage # "none"
        PROVE  ReadWell(r)'
    <3>1. ReadWell(r) /\ run[r].record \in RecordTypes
      BY <1>2, <2>1 DEF Inv, RunsInv, Types, RunTypes
    <3>2. Follows(record', run[r].record)
      BY <1>1, <1>2, <3>1, FollowsOn DEF ReadWell, Types
    <3>3. run[r].record.generation <= record'.generation
      BY <1>1, <1>2, <3>1 DEF ReadWell, Types, RecordTypes
    <3>q. QED BY <3>1, <3>2, <3>3 DEF ReadWell, Known, Promote
  <2>q. QED BY <2>1 DEF Inv, RunsInv, Serves, Live, Promote
<1>5. SiteInv'
  <2>1. site'.generation <= record'.generation
    BY <1>1, <1>2 DEF Inv, SiteInv, Promote, Types, RecordTypes, TreeTypes
  <2>2. cached' \subseteq Known(record')
    BY <1>1, <1>2, KnownStays DEF Inv, SiteInv, Promote, Types
  <2>3. CachedIsDownloadable'
    <3> SUFFICES ASSUME NEW t \in cached, Live(record', t) PROVE t \in site.files
      BY DEF CachedIsDownloadable, Live, Promote
    <3>1. t \in Known(record)
      BY DEF Inv, SiteInv
    <3>2. Live(record, t)
      BY <1>1, <3>1, LiveWasLive
    <3>q. QED BY <3>2 DEF Inv, SiteInv, CachedIsDownloadable, Live
  <2>q. QED BY <2>1, <2>2, <2>3 DEF SiteInv, SettledSiteIsTheRecord, Quiet,
            SiteIsTheRecord, Promote, Known
<1>q. QED BY <1>3, <1>4, <1>5 DEF Inv

LEMMA BeginInv == ASSUME NEW r \in Runs PROVE Inv /\ Begin(r) => Inv'
<1> SUFFICES ASSUME Inv, Begin(r) PROVE Inv'
  OBVIOUS
<1>1. run \in [Runs -> RunTypes] /\ record \in RecordTypes
  BY DEF Inv, Types
<1>2. /\ run' \in [Runs -> RunTypes]
      /\ run'[r].stage = "read" /\ run'[r].record = record
      /\ \A q \in Runs \ {r} : run'[q].stage = "none"
  BY <1>1 DEF Begin, history, RunTypes
<1>3. Types'
  BY <1>2 DEF Inv, Types, Begin, history
<1>4. ReadWell(r)'
  BY <1>1, <1>2, FollowsItself DEF Inv, SiteInv, ReadWell, Begin, history, Known,
            RecordTypes
<1>5. RunsInv'
  BY <1>2, <1>4 DEF RunsInv, Begin, history
<1>6. SiteInv'
  BY <1>2 DEF Inv, SiteInv, CachedIsDownloadable, SettledSiteIsTheRecord, Quiet,
              SiteIsTheRecord, Begin, history, Known
<1>q. QED BY <1>3, <1>5, <1>6 DEF Inv

LEMMA BuildInv == ASSUME NEW r \in Runs PROVE Inv /\ Build(r) => Inv'
<1> SUFFICES ASSUME Inv, Build(r) PROVE Inv'
  OBVIOUS
<1>1. Types /\ run \in [Runs -> RunTypes] /\ run[r].record \in RecordTypes
  BY DEF Inv, Types, RunTypes
<1>2. Tree(run[r].record) \in TreeTypes /\ Serves(Tree(run[r].record), run[r].record)
  BY <1>1, TreeServes
<1>3. /\ run' \in [Runs -> RunTypes]
      /\ run[r].stage # "none"
      /\ run'[r].record = run[r].record /\ run'[r].tree = Tree(run[r].record)
      /\ \A q \in Runs : run'[q].stage # "none" => run[q].stage # "none"
      /\ \A q \in Runs \ {r} : run'[q] = run[q]
  BY <1>1, <1>2 DEF Build, history, RunTypes
<1>4. Types'
  BY <1>1, <1>3 DEF Types, Build, history
<1>5. \A q \in Runs : run'[q].record = run[q].record
  BY <1>3
<1>6. \A q \in Runs : run'[q].stage # "none" => ReadWell(q)'
  BY <1>3, <1>5 DEF Inv, RunsInv, ReadWell, Build, history
<1>7. \A q \in Runs : run'[q].stage = "built" => Serves(run[q].tree, run[q].record)'
  <2>1. Serves(run[r].tree, run[r].record)'
    BY <1>2, <1>3 DEF Serves, Live, Build, history
  <2>2. ASSUME NEW q \in Runs \ {r}, run'[q].stage = "built"
        PROVE  Serves(run[q].tree, run[q].record)'
    BY <1>3, <2>2 DEF Inv, RunsInv, Serves, Live, Build, history
  <2>q. QED BY <2>1, <2>2
<1>8. RunsInv'
  BY <1>3, <1>5, <1>6, <1>7 DEF Inv, RunsInv, Build, history
<1>9. SiteInv'
  BY <1>3 DEF Inv, SiteInv, CachedIsDownloadable, SettledSiteIsTheRecord, Quiet,
              SiteIsTheRecord, Build, history, Known
<1>q. QED BY <1>4, <1>8, <1>9 DEF Inv

LEMMA FailInv == ASSUME NEW r \in Runs PROVE Inv /\ Fail(r) => Inv'
<1> SUFFICES ASSUME Inv, Fail(r) PROVE Inv'
  OBVIOUS
<1>1. NoRun \in RunTypes /\ NoRun.stage = "none"
  BY DEF NoRun, RunTypes, FirstRecord, Nothing, RecordTypes, TreeTypes, Statuses
<1>2. /\ run' \in [Runs -> RunTypes] /\ run'[r].stage = "none"
      /\ \A q \in Runs : run'[q].stage # "none" => run'[q] = run[q]
  BY <1>1 DEF Inv, Types, Fail
<1>3. Types'
  BY <1>2 DEF Inv, Types, Fail
<1>4. RunsInv'
  BY <1>2 DEF Inv, RunsInv, ReadWell, Serves, Live, Fail
<1>5. SiteInv'
  BY DEF Inv, SiteInv, CachedIsDownloadable, SettledSiteIsTheRecord, Quiet,
         SiteIsTheRecord, Fail, Known
<1>q. QED BY <1>3, <1>4, <1>5 DEF Inv

\* Only one run is under way, so no other holds an older record when the site is
\* replaced; what the tree lacks has been withdrawn or has expired since.
LEMMA DeployInv == ASSUME NEW r \in Runs PROVE Inv /\ Deploy(r) => Inv'
<1> SUFFICES ASSUME Inv, Deploy(r) PROVE Inv'
  OBVIOUS
<1> DEFINE rec == run[r].record
           tree == run[r].tree
<1>1. NoRun \in RunTypes /\ NoRun.stage = "none"
  BY DEF NoRun, RunTypes, FirstRecord, Nothing, RecordTypes, TreeTypes, Statuses
<1>2. /\ run[r].stage = "built"
      /\ record \in RecordTypes /\ rec \in RecordTypes /\ tree \in TreeTypes
  BY DEF Inv, Types, RunTypes, Deploy, history
<1>3. ReadWell(r) /\ Serves(tree, rec)
  BY <1>2 DEF Inv, RunsInv
<1>4. run' \in [Runs -> RunTypes] /\ \A q \in Runs : run'[q].stage = "none"
  BY <1>1, <1>2 DEF Inv, Types, Deploy, history, RunsInv
<1>5. site' = tree /\ cached' = cached \cup tree.listed
  BY DEF Deploy, history
<1>6. Types'
  BY <1>2, <1>4, <1>5 DEF Inv, Types, Deploy, history, TreeTypes
<1>7. RunsInv'
  BY <1>4 DEF RunsInv
<1>8. cached' \subseteq Known(rec)
  BY <1>3, <1>5 DEF ReadWell, Serves
<1>9. site'.generation <= record.generation /\ cached' \subseteq Known(record)
  BY <1>2, <1>3, <1>5, <1>8, KnownStays DEF ReadWell, Serves
<1>10. CachedIsDownloadable'
  <2> SUFFICES ASSUME NEW t \in cached', Live(record, t) PROVE t \in site'.files
    BY DEF CachedIsDownloadable, Live, Deploy, history
  <2>1. Live(rec, t)
    BY <1>3, <1>8, LiveWasLive DEF ReadWell
  <2>2. t \in Tags
    BY <1>8 DEF Known
  <2>q. QED BY <1>3, <1>5, <2>1, <2>2 DEF Serves
<1>11. SettledSiteIsTheRecord'
  <2> SUFFICES ASSUME ~owed, ~lost, queued # "work"
               PROVE  /\ site'.generation = record.generation
                      /\ WithStatus(record, "stable") \subseteq site'.listed
                      /\ WithStatus(record, "withdrawn") \cap (site'.files \cup site'.testing) = {}
    BY DEF SettledSiteIsTheRecord, Quiet, SiteIsTheRecord, Deploy, history, WithStatus
  <2>1. rec = record
    BY <1>2 DEF Inv, RunsInv
  <2>q. QED BY <1>3, <1>5, <2>1 DEF Serves
<1>12. SiteInv'
  BY <1>9, <1>10, <1>11 DEF SiteInv, Deploy, history, Known
<1>q. QED BY <1>6, <1>7, <1>12 DEF Inv

LEMMA InvStep == Inv /\ [Next]_vars => Inv'
<1> SUFFICES ASSUME Inv, [Next]_vars PROVE Inv'
  OBVIOUS
<1>1. CASE UNCHANGED vars
  BY <1>1 DEF vars, history, Inv, Types, RunsInv, ReadWell, Serves, Live, SiteInv,
              CachedIsDownloadable, SettledSiteIsTheRecord, Quiet, SiteIsTheRecord,
              Known
<1>2. CASE Trigger \/ TriggerSkipped \/ Skip \/ Publish \/ Promote \/ Tick
  BY <1>2, TriggerInv, TriggerSkippedInv, SkipInv, PublishInv, PromoteInv, TickInv
<1>3. CASE \E r \in Runs : Begin(r) \/ Build(r) \/ Fail(r) \/ Deploy(r)
  BY <1>3, BeginInv, BuildInv, FailInv, DeployInv
<1>q. QED BY <1>1, <1>2, <1>3 DEF Next

THEOREM InvHolds == Spec => []Inv
BY InvInit, InvStep, PTL DEF Spec

-----------------------------------------------------------------------------
\* The site moves forward through the promotion records, with any number of runs
\* triggered at any time.
THEOREM NeverGoesBack == Spec => SiteNeverGoesBack
<1>1. Inv /\ [Next]_vars => [site'.generation >= site.generation]_vars
  <2> SUFFICES ASSUME Inv, [Next]_vars
               PROVE  site'.generation >= site.generation
    OBVIOUS
  <2>1. CASE site' = site
    <3>1. site.generation \in Nat
      BY DEF Inv, Types, TreeTypes
    <3>q. QED BY <2>1, <3>1
  <2>2. CASE site' # site
    <3>1. PICK r \in Runs : Deploy(r)
      BY <2>2 DEF Next, vars, Trigger, TriggerSkipped, Skip, Publish, history, Promote,
                  Tick, Begin, Build, Fail
    <3>2. ReadWell(r) /\ Serves(run[r].tree, run[r].record)
      BY <3>1 DEF Inv, RunsInv, Deploy, history
    <3>3. run[r].record.generation \in Nat /\ site.generation \in Nat
      BY DEF Inv, Types, RunTypes, RecordTypes, TreeTypes
    <3>q. QED BY <3>1, <3>2, <3>3 DEF ReadWell, Serves, Deploy, history
  <2>q. QED BY <2>1, <2>2
<1>q. QED BY <1>1, InvHolds, PTL DEF Spec, SiteNeverGoesBack

\* What any metadata listed stays there for as long as the record keeps it.
THEOREM CacheHolds == Spec => []CachedIsDownloadable
<1>1. Inv => CachedIsDownloadable
  BY DEF Inv, SiteInv
<1>q. QED BY <1>1, InvHolds, PTL

\* Once everything triggered has ended well, the site is the record's.
THEOREM SettledHolds == Spec => []SettledSiteIsTheRecord
<1>1. Inv => SettledSiteIsTheRecord
  BY DEF Inv, SiteInv
<1>q. QED BY <1>1, InvHolds, PTL

-----------------------------------------------------------------------------
\* A set of naturals that is not empty has a least member.
LEMMA LeastMember ==
  ASSUME NEW S \in SUBSET Nat, S # {}
  PROVE  \E m \in S : \A u \in S : m <= u
<1> DEFINE R == OpToRel(<, Nat)
<1>1. IsWellFoundedOn(R, Nat)
  BY NatLessThanWellFounded
<1>2. \A x, y \in Nat : <<y, x>> \in R <=> y < x
  BY DEF OpToRel
<1> HIDE DEF R
<1>3. PICK m \in S : \A u \in S : ~ (<<u, m>> \in R)
  BY <1>1, WFMin
<1>4. SUFFICES ASSUME NEW u \in S PROVE m <= u
  OBVIOUS
<1>5. m \in Nat /\ u \in Nat /\ ~ (u < m)
  BY <1>2, <1>3
<1>q. QED BY <1>5

\* head -n "$KEEP_CANDIDATES" keeps that many: all but the oldest of the newest are
\* newer than that one, and fewer than Keep are.
LEMMA NewestIsBounded ==
  ASSUME NEW S \in SUBSET Tags
  PROVE  Cardinality(Newest(S)) <= Keep
<1> DEFINE N == Newest(S)
<1>1. IsFiniteSet(Tags) /\ Tags \subseteq Nat /\ Keep \in Nat
  <2>1. 1 \in Int /\ Releases \in Int /\ Keep \in Nat
    BY Bounds
  <2>2. IsFiniteSet(1 .. Releases)
    BY <2>1, FS_Interval
  <2>3. 1 .. Releases \subseteq Nat
    BY <2>1
  <2>q. QED BY <2>1, <2>2, <2>3 DEF Tags
<1>2. IsFiniteSet(S) /\ N \subseteq S /\ IsFiniteSet(N)
  BY <1>1, FS_Subset DEF Newest
<1>3. CASE N = {}
  BY <1>1, <1>3, FS_EmptySet
<1>4. CASE N # {}
  <2>1. PICK m \in N : \A u \in N : m <= u
    BY <1>1, <1>2, <1>4, LeastMember
  <2> DEFINE newer == {u \in S : u > m}
  <2>2. m \in N /\ Cardinality(newer) < Keep
    BY <2>1 DEF Newest
  <2>3. newer \in SUBSET S /\ N \ {m} \in SUBSET newer
    <3>1. ASSUME NEW u \in N, u # m PROVE u \in newer
      <4>1. u \in Nat /\ m \in Nat /\ m <= u /\ u \in S
        BY <1>1, <1>2, <2>1
      <4>2. u > m
        BY <3>1, <4>1
      <4>q. QED BY <4>1, <4>2
    <3> HIDE DEF N
    <3>q. QED BY <3>1
  <2>4. IsFiniteSet(newer) /\ Cardinality(newer) \in Nat
    BY <1>2, <2>3, FS_Subset, FS_CardinalityType
  <2>5. Cardinality(N \ {m}) <= Cardinality(newer)
    BY <2>3, <2>4, FS_Subset
  <2>6. Cardinality(N \ {m}) = Cardinality(N) - 1 /\ Cardinality(N) \in Nat
    BY <1>2, <2>2, FS_RemoveElement, FS_CardinalityType
  <2>7. Keep \in Nat
    BY <1>1
  <2>8. ASSUME NEW n \in Nat, NEW k \in Nat, n - 1 <= k, k < Keep PROVE n <= Keep
    BY <2>7, <2>8
  <2> HIDE DEF N, newer
  <2>9. Cardinality(N) <= Keep
    BY <2>2, <2>4, <2>5, <2>6, <2>8
  <2>q. QED BY <2>9 DEF N
<1>q. QED BY <1>3, <1>4

LEMMA TypeInit == Init => TypeOK
<1> SUFFICES ASSUME Init PROVE TypeOK
  OBVIOUS
<1>1. FirstRecord \in Records
  BY Bounds DEF FirstRecord, Records, Statuses
<1>2. Nothing \in Trees
  BY Bounds, FS_EmptySet DEF Nothing, Trees
<1>3. run \in [Runs -> [stage : {"none", "read", "built"}, record : Records, tree : Trees]]
  BY <1>1, <1>2 DEF Init, NoRun
<1>4. released \in 0 .. Releases /\ now \in 0 .. Days
  BY Bounds DEF Init
<1>q. QED BY <1>1, <1>2, <1>3, <1>4 DEF Init, TypeOK

LEMMA TypeStep == TypeOK /\ [Next]_vars => TypeOK'
<1> SUFFICES ASSUME TypeOK, [Next]_vars PROVE TypeOK'
  OBVIOUS
<1> USE DEF TypeOK
<1> DEFINE RunsOK == [stage : {"none", "read", "built"}, record : Records, tree : Trees]
<1>1. CASE Trigger \/ TriggerSkipped
  BY <1>1 DEF Trigger, TriggerSkipped
<1>2. CASE Skip
  BY <1>2 DEF Skip, history
<1>3. CASE Publish
  BY <1>3, Bounds DEF Publish, history
<1>4. CASE Promote
  <2>1. record' \in Records
    <3>1. PICK status \in [Tags -> Statuses] :
            record' = [generation |-> record.generation + 1, status |-> status,
                       until |-> [t \in Tags |-> IF status[t] # record.status[t]
                                                 THEN now + Retention ELSE record.until[t]]]
      BY <1>4 DEF Promote
    <3>2. record.generation + 1 \in 1 .. Generations
      BY <1>4, Bounds DEF Promote, Records
    <3>3. now + Retention \in 0 .. Days + Retention
      BY Bounds
    <3>q. QED BY <3>1, <3>2, <3>3 DEF Records
  <2>q. QED BY <1>4, <2>1 DEF Promote
<1>5. CASE Tick
  BY <1>5, Bounds DEF Tick, history
<1>6. ASSUME NEW r \in Runs, Begin(r) PROVE TypeOK'
  <2>1. run' \in [Runs -> RunsOK]
    BY <1>6 DEF Begin
  <2>q. QED BY <1>6, <2>1 DEF Begin, history
<1>7. ASSUME NEW r \in Runs, Build(r) PROVE TypeOK'
  <2>1. run[r].record \in Records
    OBVIOUS
  <2>2. Tree(run[r].record) \in Trees
    <3> DEFINE rec == run[r].record
    <3>1. Stable(rec) \subseteq Tags /\ Superseded(rec) \subseteq Tags
      BY DEF Stable, Superseded, Retained, WithStatus
    <3>2. prereleases \cap Listed \subseteq Tags
      <4>1. Releases \in Nat /\ released \in 0 .. Releases /\ prereleases \subseteq 1 .. released
        BY Bounds
      <4>2. 1 .. released \subseteq 1 .. Releases
        BY <4>1
      <4>q. QED BY <4>1, <4>2 DEF Tags
    <3>3. Testing(rec) \subseteq Tags /\ Cardinality(Testing(rec)) <= Keep
      BY <3>2, NewestIsBounded DEF Testing, Newest
    <3>4. rec.generation \in 0 .. Generations
      BY <2>1 DEF Records
    <3> HIDE DEF rec
    <3>5. Tree(rec) \in Trees
      BY <3>1, <3>3, <3>4 DEF Tree, Trees
    <3>q. QED BY <3>5 DEF rec
  <2>3. run' \in [Runs -> RunsOK]
    BY <1>7, <2>2 DEF Build
  <2>q. QED BY <1>7, <2>3 DEF Build, history
<1>8. NoRun \in RunsOK
  <2>1. FirstRecord \in Records
    BY Bounds DEF FirstRecord, Records, Statuses
  <2>2. Nothing \in Trees
    BY Bounds, FS_EmptySet DEF Nothing, Trees
  <2>q. QED BY <2>1, <2>2 DEF NoRun
<1>9. ASSUME NEW r \in Runs, Fail(r) PROVE TypeOK'
  BY <1>8, <1>9 DEF Fail
<1>10. ASSUME NEW r \in Runs, Deploy(r) PROVE TypeOK'
  <2>1. site' \in Trees /\ site'.listed \subseteq Tags
    BY <1>10 DEF Deploy, Trees
  <2>2. cached' \subseteq Tags
    BY <1>10, <2>1 DEF Deploy
  <2>3. run' \in [Runs -> RunsOK]
    BY <1>8, <1>10 DEF Deploy
  <2>q. QED BY <1>10, <2>1, <2>2, <2>3 DEF Deploy, history
<1>11. CASE UNCHANGED vars
  BY <1>11 DEF vars, history
<1>q. QED BY <1>1, <1>2, <1>3, <1>4, <1>5, <1>6, <1>7, <1>9, <1>10, <1>11 DEF Next

\* The variables keep their types; the metadata for testing never lists more than
\* KEEP_CANDIDATES releases.
THEOREM TypeCorrect == Spec => []TypeOK
BY TypeInit, TypeStep, PTL DEF Spec

=============================================================================
