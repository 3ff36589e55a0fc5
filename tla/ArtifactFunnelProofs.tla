------------------------ MODULE ArtifactFunnelProofs ------------------------
(***************************************************************************)
(* Theorems about ArtifactFunnel, for any artifacts, slugs and bounds: its *)
(* typing, that a published artifact has content, that nothing waits for a *)
(* repair nobody plans, that what is published or given up stays so but    *)
(* for the weekly requeue, and that it implements Publication.             *)
(***************************************************************************)
EXTENDS ArtifactFunnel, SequenceTheorems, TLAPS

-----------------------------------------------------------------------------
(* Writes *)

\* What a write is follows from its name.
LEMMA WriteShapes ==
  ASSUME NEW w \in Writes
  PROVE  /\ w.do = "put" => w \in Puts
         /\ w.do \in {"file", "close"} => w.plan \in Plan
         /\ w.do = "score" => w.verdict \in Verdicts
         /\ w.do = "heal" => w.gap \in Gaps
         /\ w.do = "repairs" => w.plans \in SUBSET Plan
BY DEF Writes, Puts

\* The writes the handlers make are writes.
LEMMA WriteTypes ==
  /\ \A s \in Statuses : Put(s) \in Writes
  /\ \A d \in Diagnoses : Hold(d) \in Writes
  /\ Reset \in Writes /\ Retry \in Writes
  /\ \A s \in Slugs : Mark(s) \in Writes
  /\ \A k \in PlanKinds, a \in Artifacts : File(k, a) \in Writes
  /\ \A a \in Artifacts : FileForHost(a) \in Writes
  /\ \A v \in Verdicts : Score(v) \in Writes
  /\ \A g \in Gaps : Heal(g) \in Writes
  /\ \A p \in Plan : Close(p) \in Writes
  /\ \A S \in SUBSET Plan : Repairs(S) \in Writes
  /\ {Diagnose, Spend, Refund, Verify, Release, DropEvidence, Forget, Recheck,
      Shut} \subseteq Writes
<1>1. /\ \A s \in Statuses : Put(s) \in Puts
      /\ \A d \in Diagnoses : Hold(d) \in Puts
      /\ Reset \in Puts /\ Retry \in Puts
      /\ \A s \in Slugs : Mark(s) \in Puts
  BY DEF Puts, Put, Hold, Reset, Retry, Mark, Statuses, Diagnoses, None
<1>2. Puts \subseteq Writes
  BY DEF Writes
<1>3. /\ \A k \in PlanKinds, a \in Artifacts : File(k, a) \in Writes
      /\ \A a \in Artifacts : FileForHost(a) \in Writes
      /\ \A p \in Plan : Close(p) \in Writes
  BY DEF Writes, File, FileForHost, Close, Plan, PlanKinds
<1>4. /\ \A v \in Verdicts : Score(v) \in Writes
      /\ \A g \in Gaps : Heal(g) \in Writes
      /\ \A S \in SUBSET Plan : Repairs(S) \in Writes
  BY DEF Writes, Score, Heal, Repairs
<1>5. {Diagnose, Spend, Refund, Verify, Release, DropEvidence, Forget, Recheck,
       Shut} \subseteq Writes
  BY DEF Writes, Diagnose, Spend, Refund, Verify, Release, DropEvidence, Forget,
         Recheck, Shut
<1> QED
  BY <1>1, <1>2, <1>3, <1>4, <1>5

\* The writes that neither publish nor mark as published.
Calm == {w \in Writes : /\ w.do # "release"
                        /\ w.do = "put" => w.status # "PUBLISHED"}

\* Every write of the handlers but Release and Mark is calm.
LEMMA CalmWrites ==
  /\ \A s \in Statuses \ {"PUBLISHED"} : Put(s) \in Calm
  /\ \A d \in Diagnoses : Hold(d) \in Calm
  /\ Reset \in Calm /\ Retry \in Calm
  /\ \A k \in PlanKinds, a \in Artifacts : File(k, a) \in Calm
  /\ \A a \in Artifacts : FileForHost(a) \in Calm
  /\ \A v \in Verdicts : Score(v) \in Calm
  /\ \A g \in Gaps : Heal(g) \in Calm
  /\ \A p \in Plan : Close(p) \in Calm
  /\ \A S \in SUBSET Plan : Repairs(S) \in Calm
  /\ Diagnose \in Calm /\ Spend \in Calm /\ Refund \in Calm /\ Verify \in Calm
  /\ DropEvidence \in Calm /\ Forget \in Calm /\ Recheck \in Calm /\ Shut \in Calm
<1>1. /\ \A s \in Statuses \ {"PUBLISHED"} : Put(s) \in Calm
      /\ \A d \in Diagnoses : Hold(d) \in Calm
      /\ Reset \in Calm /\ Retry \in Calm
  BY WriteTypes DEF Calm, Put, Hold, Reset, Retry
<1>2. /\ \A k \in PlanKinds, a \in Artifacts : File(k, a) \in Calm
      /\ \A a \in Artifacts : FileForHost(a) \in Calm
      /\ \A p \in Plan : Close(p) \in Calm
      /\ \A S \in SUBSET Plan : Repairs(S) \in Calm
  BY WriteTypes DEF Calm, File, FileForHost, Close, Repairs
<1>3. /\ \A v \in Verdicts : Score(v) \in Calm
      /\ \A g \in Gaps : Heal(g) \in Calm
  BY WriteTypes DEF Calm, Score, Heal
<1>4. /\ Diagnose \in Calm /\ Spend \in Calm /\ Refund \in Calm /\ Verify \in Calm
      /\ DropEvidence \in Calm /\ Forget \in Calm /\ Recheck \in Calm /\ Shut \in Calm
  BY WriteTypes DEF Calm, Diagnose, Spend, Refund, Verify, DropEvidence, Forget,
                    Recheck, Shut
<1> QED
  BY <1>1, <1>2, <1>3, <1>4

\* Three writes and fewer make a sequence, and what follows the first.
LEMMA ShortSequences ==
  ASSUME NEW S
  PROVE  /\ <<>> \in Seq(S)
         /\ \A x \in S : <<x>> \in Seq(S) /\ <<x>> # <<>>
         /\ \A x, y \in S : <<x, y>> \in Seq(S) /\ <<x, y>> # <<>>
         /\ \A x, y, z \in S : <<x, y, z>> \in Seq(S) /\ <<x, y, z>> # <<>>
OBVIOUS

\* The tails of the lists a handler leaves.
LEMMA ShortTails ==
  \A x, y : Tail(<<x>>) = <<>> /\ Tail(<<x, y>>) = <<y>>
BY SMT

\* A sequence of calm writes goes on as one, and is one of writes.
LEMMA CalmSequences ==
  ASSUME NEW t \in Seq(Calm)
  PROVE  /\ t \in Seq(Writes)
         /\ t # <<>> => t[1] \in Calm /\ Tail(t) \in Seq(Calm)
<1>1. Calm \subseteq Writes
  BY DEF Calm
<1>2. t \in Seq(Writes)
  BY <1>1
<1>3. t # <<>> => t[1] \in Calm /\ Tail(t) \in Seq(Calm)
  BY HeadTailProperties
<1> QED
  BY <1>2, <1>3

-----------------------------------------------------------------------------
(* What the handlers may do to an artifact *)

\* A handler that publishes has found the artifact fit: it passed strict QA,
\* and a doctrinal one is confirmed.
LEMMA RoutesCalm ==
  ASSUME NEW a \in Artifacts, NEW todo \in Routes(a)
  PROVE  todo \in Seq(Calm) \/ (todo = <<Release>> /\ ~ Sensitive(a))
<1>1. /\ Put("NEEDS_REPAIR") \in Calm /\ Put("REJECTED") \in Calm
      /\ Put("NEEDS_REVIEW") \in Calm /\ Hold("hold") \in Calm
      /\ Spend \in Calm /\ Retry \in Calm
  BY CalmWrites DEF Statuses, Diagnoses
<1>2. \A k \in PlanKinds : File(k, a) \in Calm
  BY CalmWrites
<1>3. Refusals \subseteq Seq(Calm)
  BY <1>1, ShortSequences DEF Refusals
<1>4. /\ \A k \in PlanKinds : /\ <<Put("NEEDS_REPAIR"), File(k, a)>> \in Seq(Calm)
                              /\ <<File(k, a), Put("NEEDS_REPAIR")>> \in Seq(Calm)
                              /\ <<Spend, File(k, a), Put("NEEDS_REPAIR")>> \in Seq(Calm)
      /\ <<Spend, Put("NEEDS_REVIEW")>> \in Seq(Calm)
  BY <1>1, <1>2, ShortSequences
<1>5. \/ todo \in Refusals
      \/ \E k \in PlanKinds : \/ todo = <<Put("NEEDS_REPAIR"), File(k, a)>>
                              \/ todo = <<File(k, a), Put("NEEDS_REPAIR")>>
                              \/ todo = <<Spend, File(k, a), Put("NEEDS_REPAIR")>>
      \/ todo = <<Spend, Put("NEEDS_REVIEW")>>
      \/ todo = <<Release>> /\ ~ Sensitive(a)
  <2>1. /\ "EXTRACT_FAILED" \in PlanKinds /\ "QUALITY_SCORE_FAILED" \in PlanKinds
        /\ "VALIDATION_EVIDENCE_MISSING" \in PlanKinds
    BY DEF PlanKinds
  <2>2. CASE art[a].gap = "schema"
    BY <2>1, <2>2, Zenon DEF Routes
  <2>3. CASE art[a].gap # "schema" /\ Sensitive(a)
    BY <2>1, <2>3, Zenon DEF Routes
  <2>4. CASE art[a].gap # "schema" /\ ~ Sensitive(a)
    BY <2>1, <2>4, Zenon DEF Routes
  <2> QED
    BY <2>2, <2>3, <2>4
<1> QED
  BY <1>3, <1>4, <1>5

\* Triage and the refusal of an unjudged artifact publish nothing.
LEMMA TriageCalm ==
  ASSUME NEW a \in Artifacts
  PROVE  /\ \A todo \in Unjudged(a) : todo \in Seq(Calm)
         /\ \A todo \in Routing(a) : todo \in Seq(Calm)
<1>1. /\ Put("NEEDS_REPAIR") \in Calm /\ Put("REJECTED") \in Calm
      /\ Put("BUILD_READY") \in Calm
  BY CalmWrites DEF Statuses
<1>2. \A k \in PlanKinds : File(k, a) \in Calm
  BY CalmWrites
<1>3. /\ <<Put("NEEDS_REPAIR")>> \in Seq(Calm) /\ <<Put("REJECTED")>> \in Seq(Calm)
      /\ <<Put("BUILD_READY")>> \in Seq(Calm) /\ <<>> \in Seq(Calm)
      /\ \A k \in PlanKinds : <<File(k, a), Put("NEEDS_REPAIR")>> \in Seq(Calm)
  BY <1>1, <1>2, ShortSequences
<1>4. \A todo \in Unjudged(a) : todo \in Seq(Calm)
  BY <1>3, Zenon DEF Unjudged
<1>5. ASSUME NEW todo \in Routing(a)
      PROVE  \/ todo = <<>> \/ todo = <<Put("REJECTED")>>
             \/ \E k \in PlanKinds : todo = <<File(k, a), Put("NEEDS_REPAIR")>>
  <2>1. "EXTRACT_FAILED" \in PlanKinds /\ "VALIDATION_EVIDENCE_MISSING" \in PlanKinds
    BY DEF PlanKinds
  <2> QED
    BY <1>5, <2>1, Zenon DEF Routing
<1> QED
  BY <1>3, <1>4, <1>5, Zenon

\* Neither does a repair.
LEMMA RemediesCalm ==
  ASSUME NEW p \in Plan, NEW todo \in Remedies(p)
  PROVE  todo \in Seq(Calm) /\ todo # <<>>
<1>1. /\ Close(p) \in Calm /\ Reset \in Calm /\ DropEvidence \in Calm
      /\ Shut \in Calm /\ \A g \in Gaps : Heal(g) \in Calm
  BY CalmWrites
<1>2. \/ todo = <<Close(p)>> \/ todo = <<DropEvidence, Close(p)>>
      \/ todo = <<DropEvidence, Reset, Close(p)>> \/ todo = <<Shut, Close(p)>>
      \/ \E g \in Gaps : todo = <<Heal(g), Close(p)>>
  <2>1. "none" \in Gaps /\ "schema" \in Gaps
    BY DEF Gaps
  <2> QED
    BY <2>1, Zenon DEF Remedies
<1> QED
  BY <1>1, <1>2, ShortSequences

-----------------------------------------------------------------------------
(* The inductive invariant *)

Jobs == [by: {"nobody", "stage", "drain"}, art: Artifacts \cup {Host},
         todo: Seq(Writes)]

\* A handler is at an artifact, unless it is about to take the next plan.
Placed == \/ job.todo = <<>> \/ job.art \in Artifacts
          \/ job.todo[1].do = "repairs"

\* What is released stands judged, and what is marked has been released.
Released(s) == {<<Mark(s)>>, <<Mark(s), Refund>>}
Guarded ==
  \/ job.todo \in Seq(Calm)
  \/ job.todo = <<Release>> /\ job.art \in Artifacts /\ Judged(job.art)
  \/ \E s \in Slugs : /\ job.todo \in Released(s) /\ job.art \in Artifacts
                      /\ public[s] # "none"

\* Judgements are out of date only until the next write of the heal.
Fresh ==
  \/ crashed \/ stale = {}
  \/ /\ job.todo # <<>> /\ job.todo[1].do = "forget"
     /\ stale \subseteq {"qa", "evidence"} \X {job.art}

IInv == TypeOK /\ PublishedHasContent /\ Placed /\ Guarded /\ Fresh

\* A job made of calm writes satisfies what the invariant says of a job.
LEMMA JobOfCalm ==
  ASSUME NEW by \in {"nobody", "stage", "drain"}, NEW a \in Artifacts \cup {Host},
         NEW t \in Seq(Calm), job' = JobOf(by, a, t),
         a \in Artifacts \/ t = <<>> \/ t[1].do = "repairs"
  PROVE  job' \in Jobs /\ Placed' /\ Guarded' /\ job'.todo = t
                       /\ (t # <<>> => job'.art = a)
<1>1. CASE t = <<>>
  <2>1. job' = NoJob
    BY <1>1 DEF JobOf
  <2>2. NoJob \in Jobs
    BY DEF NoJob, Jobs
  <2>3. job'.todo = <<>>
    BY <2>1 DEF NoJob
  <2>4. Placed' /\ Guarded'
    BY <2>3 DEF Placed, Guarded
  <2> QED
    BY <1>1, <2>1, <2>2, <2>3, <2>4
<1>2. CASE t # <<>>
  <2>1. job' = [by |-> by, art |-> a, todo |-> t]
    BY <1>2 DEF JobOf
  <2>2. t \in Seq(Writes)
    BY CalmSequences
  <2>3. job'.by = by /\ job'.art = a /\ job'.todo = t
    BY <2>1
  <2>4. job' \in Jobs
    BY <2>1, <2>2 DEF Jobs
  <2>5. Placed' /\ Guarded'
    BY <1>2, <2>3 DEF Placed, Guarded
  <2> QED
    BY <2>3, <2>4, <2>5
<1> QED
  BY <1>1, <1>2

\* The job after a write that neither releases nor takes a plan.
LEMMA OnwardJob ==
  ASSUME IInv, job.todo # <<>>, Op # Release, Op.do # "repairs", Onward
  PROVE  /\ job' \in Jobs /\ Placed' /\ Guarded'
         /\ Op \in Writes /\ job.art \in Artifacts
         /\ Op \in Calm \/ \E s \in Slugs : Op = Mark(s) /\ public[s] # "none"
<1>1. job \in Jobs
  BY DEF IInv, TypeOK, Jobs
<1>2. job.art \in Artifacts
  BY DEF IInv, Placed, Op
<1>3. /\ Tail(job.todo) \in Seq(Calm)
      /\ Op \in Calm \/ \E s \in Slugs : Op = Mark(s) /\ public[s] # "none"
  <2>1. CASE job.todo \in Seq(Calm)
    BY <2>1, CalmSequences DEF Op
  <2>2. CASE job.todo = <<Release>>
    BY <2>2 DEF Op
  <2>3. ASSUME NEW s \in Slugs, job.todo \in Released(s), public[s] # "none"
        PROVE  /\ Tail(job.todo) \in Seq(Calm)
               /\ Op \in Calm \/ \E q \in Slugs : Op = Mark(q) /\ public[q] # "none"
    <3>1. Refund \in Calm
      BY CalmWrites
    <3>2. Op = Mark(s)
      BY <2>3 DEF Released, Op
    <3>3. Tail(job.todo) = <<>> \/ Tail(job.todo) = <<Refund>>
      BY <2>3, ShortTails DEF Released
    <3> QED
      BY <2>3, <3>1, <3>2, <3>3, ShortSequences
  <2> QED
    BY <2>1, <2>2, <2>3 DEF IInv, Guarded
<1>4. Op \in Writes
  BY <1>1, HeadTailProperties DEF Jobs, Op
<1>5. job' \in Jobs /\ Placed' /\ Guarded'
  <2>1. job.by \in {"nobody", "stage", "drain"}
    BY <1>1 DEF Jobs
  <2>2. job' = JobOf(job.by, job.art, Tail(job.todo))
    BY DEF Onward, Go, A
  <2> QED
    BY <1>2, <1>3, <2>1, <2>2, JobOfCalm
<1> QED
  BY <1>2, <1>3, <1>4, <1>5

-----------------------------------------------------------------------------
(* Each write keeps the invariant *)

\* The fields of a row, read or unread.
AnyRow == [status: Statuses \cup {"UNREAD"}, gap: Gaps, diag: Diagnoses,
           retry: BOOLEAN, row: Slugs \cup {None}]
\* A row moved to another status is a row.
LEMMA RowTypes ==
  ASSUME NEW r \in Row \cup {Unread}
  PROVE  r \in AnyRow /\ r.diag \in Diagnoses /\ r.row \in Slugs \cup {None}
<1>1. Row \subseteq AnyRow
  BY DEF Row, AnyRow
<1>2. Unread \in AnyRow
  BY DEF Unread, AnyRow, Gaps, Diagnoses
<1>3. r \in AnyRow
  BY <1>1, <1>2
<1> QED
  BY <1>3 DEF AnyRow

\* A row that is written is a row.
LEMMA RowMoved ==
  ASSUME NEW r \in Row \cup {Unread}, NEW s \in Statuses, NEW d \in Diagnoses
  PROVE  /\ Moved(r, s, d) \in Row /\ Moved(r, s, d).status = s
<1>1. r \in AnyRow
  BY RowTypes
<1> QED
  BY <1>1 DEF Row, Moved, AnyRow

\* A row whose diagnosis is opened stays what it is.
LEMMA RowDiagnosed ==
  ASSUME NEW r \in Row \cup {Unread}
  PROVE  /\ [r EXCEPT !.diag = "open"] \in Row \cup {Unread}
         /\ [r EXCEPT !.diag = "open"].status = r.status
         /\ [r EXCEPT !.diag = "open"].row = r.row
<1>1. CASE r \in Row
  BY <1>1 DEF Row, Diagnoses
<1>2. [Unread EXCEPT !.diag = "open"] = Unread
  BY SMTT(30) DEF Unread, None
<1>3. CASE r = Unread
  BY <1>2, <1>3
<1> QED
  BY <1>1, <1>3

\* At every write but the one that forgets them, no judgement is out of date.
LEMMA FreshWrites ==
  ASSUME IInv, job.todo # <<>>, Op.do # "forget", stale' \subseteq stale,
         crashed' = crashed
  PROVE  Fresh'
BY DEF IInv, Fresh, Op

\* One row is written and nothing else, to a status the invariant allows.
LEMMA RowStep ==
  ASSUME IInv, NEW row, Row1(row), Onward, ArtOnly,
         job.todo # <<>>, Op # Release, Op.do \notin {"repairs", "forget"},
         row \in Row \cup {Unread},
         row.status = "PUBLISHED" => \/ Is(A, "PUBLISHED") /\ row.row = art[A].row
                                     \/ Backed(row.row)
  PROVE  IInv'
<1>1. job' \in Jobs /\ Placed' /\ Guarded' /\ job.art \in Artifacts
  BY OnwardJob
<1>2. TypeOK
  BY DEF IInv
<1>3. art' \in [Artifacts -> Row \cup {Unread}]
  BY <1>2 DEF TypeOK, Row1
<1>4. TypeOK'
  BY <1>1, <1>2, <1>3 DEF TypeOK, Jobs, ArtOnly, Row1
<1>5. PublishedHasContent'
  BY <1>1, <1>2 DEF IInv, TypeOK, PublishedHasContent, Backed, Is, ArtOnly, Row1, A
<1>6. Fresh'
  BY FreshWrites DEF ArtOnly
<1> QED
  BY <1>1, <1>4, <1>5, <1>6 DEF IInv

\* Something besides the artifacts' rows and the public ones is written.
LEMMA OtherStep ==
  ASSUME IInv, TypeOK', Placed', Guarded', Fresh',
         UNCHANGED <<art, public>>
  PROVE  IInv'
BY DEF IInv, PublishedHasContent, Backed, Is

\* A status written keeps the invariant: only the steps before it judge.
LEMMA PutStep == ASSUME IInv, DoPut PROVE IInv'
<1>1. job.todo # <<>> /\ Op.do = "put" /\ Onward /\ ArtOnly
  BY DEF DoPut, Doing
<1>2. Op # Release /\ Op.do \notin {"repairs", "forget"}
  BY <1>1 DEF Release
<1>3. /\ Op \in Puts /\ A \in Artifacts
      /\ Op.status = "PUBLISHED" => Backed(Op.row)
  BY <1>1, <1>2, OnwardJob, WriteShapes DEF Calm, A, Mark, Put, Backed
<1> DEFINE d == IF Op.diag = None THEN art[A].diag ELSE Op.diag
           w == IF Op.status = "PUBLISHED" THEN Op.row ELSE art[A].row
           row == [art[A] EXCEPT !.status = Op.status, !.retry = Op.retry,
                                 !.diag = d, !.row = w]
<1>4. Row1(row)
  BY DEF DoPut
<1>5. art[A] \in Row \cup {Unread}
  BY <1>3 DEF IInv, TypeOK
<1>6. /\ Op.status \in Statuses /\ Op.retry \in BOOLEAN /\ d \in Diagnoses
      /\ w \in Slugs \cup {None}
  BY <1>3, <1>5, RowTypes DEF Puts
<1>7. row \in Row /\ row.status = Op.status /\ row.row = w
  <2>1. art[A] \in AnyRow
    BY <1>5, RowTypes
  <2> HIDE DEF d, w
  <2> QED
    BY <1>6, <2>1 DEF Row, AnyRow
<1> HIDE DEF row
<1> QED
  BY <1>1, <1>2, <1>3, <1>4, <1>7, RowStep

\* A diagnosis written keeps the invariant.
LEMMA DiagnoseStep == ASSUME IInv, DoDiagnose PROVE IInv'
<1>1. job.todo # <<>> /\ Op.do = "diagnose" /\ Onward /\ ArtOnly
  BY DEF DoDiagnose, Doing
<1>2. Op # Release /\ Op.do \notin {"repairs", "forget"} /\ A \in Artifacts
  BY <1>1, OnwardJob DEF Release, A
<1>3. art[A] \in Row \cup {Unread}
  BY <1>2 DEF IInv, TypeOK
<1> DEFINE row == [art[A] EXCEPT !.diag = "open"]
<1>4. Row1(row)
  BY DEF DoDiagnose
<1>5. /\ row \in Row \cup {Unread} /\ row.status = art[A].status
      /\ row.row = art[A].row
  BY <1>3, RowDiagnosed
<1>6. row.status = "PUBLISHED" => Is(A, "PUBLISHED")
  BY <1>5 DEF Is
<1> HIDE DEF row
<1> QED
  BY <1>1, <1>2, <1>4, <1>5, <1>6, RowStep

\* Recheck and shut write one row, or none.
LEMMA MoveStep ==
  ASSUME IInv, Onward, ArtOnly, job.todo # <<>>, Op # Release,
         Op.do \notin {"repairs", "forget"},
         NEW s \in Statuses \ {"PUBLISHED"},
         \/ \E d \in Diagnoses : Row1(Moved(art[A], s, d))
         \/ UNCHANGED <<art, aged>>
  PROVE  IInv'
<1>1. A \in Artifacts /\ job' \in Jobs /\ Placed' /\ Guarded'
  BY OnwardJob DEF A
<1>2. art[A] \in Row \cup {Unread}
  BY <1>1 DEF IInv, TypeOK
<1>3. CASE \E d \in Diagnoses : Row1(Moved(art[A], s, d))
  <2>1. PICK d \in Diagnoses : Row1(Moved(art[A], s, d))
    BY <1>3
  <2>2. Moved(art[A], s, d) \in Row /\ Moved(art[A], s, d).status = s
    BY <1>2, RowMoved
  <2> QED
    BY <2>1, <2>2, RowStep
<1>4. CASE UNCHANGED <<art, aged>>
  <2>1. Fresh'
    BY FreshWrites DEF ArtOnly
  <2>2. TypeOK'
    BY <1>1, <1>4 DEF IInv, TypeOK, Jobs, ArtOnly
  <2> QED
    BY <1>1, <1>4, <2>1, <2>2, OtherStep DEF ArtOnly
<1> QED
  BY <1>3, <1>4

\* A hold that is due, or no hold any more, keeps the invariant.
LEMMA RecheckStep == ASSUME IInv, DoRecheck PROVE IInv'
<1>1. job.todo # <<>> /\ Op.do = "recheck" /\ Onward /\ ArtOnly
  BY DEF DoRecheck, Doing
<1>2. \/ Row1(Moved(art[A], "BUILD_READY", "open"))
      \/ UNCHANGED <<art, aged>>
  BY DEF DoRecheck
<1> QED
  BY <1>1, <1>2, MoveStep DEF Statuses, Diagnoses, Release

\* Giving a stuck artifact up keeps the invariant.
LEMMA ShutStep == ASSUME IInv, DoShut PROVE IInv'
<1>1. job.todo # <<>> /\ Op.do = "shut" /\ Onward /\ ArtOnly
  BY DEF DoShut, Doing
<1>2. Op # Release /\ Op.do \notin {"repairs", "forget"} /\ A \in Artifacts
  BY <1>1, OnwardJob DEF Release, A
<1>3. art[A].diag \in Diagnoses
  BY <1>2, RowTypes DEF IInv, TypeOK
<1>4. \/ Row1(Moved(art[A], "REJECTED", art[A].diag))
      \/ UNCHANGED <<art, aged>>
  BY DEF DoShut
<1> QED
  BY <1>1, <1>2, <1>3, <1>4, MoveStep DEF Statuses

\* A write of a named kind that is no release leaves the rest of a calm job.
LEMMA WriteAt ==
  ASSUME IInv, job.todo # <<>>, Op.do \notin {"put", "release", "repairs"}
  PROVE  /\ job.todo \in Seq(Calm) /\ Op \in Calm /\ A \in Artifacts
         /\ job.by \in {"nobody", "stage", "drain"}
<1>1. job \in Jobs
  BY DEF IInv, TypeOK, Jobs
<1>2. Op # Release /\ \A s : Op # Mark(s)
  BY DEF Release, Mark, Put
<1>3. job.todo \in Seq(Calm)
  BY <1>2 DEF IInv, Guarded, Released, Op
<1>4. Op \in Calm
  BY <1>3, CalmSequences DEF Op
<1>5. A \in Artifacts
  BY DEF IInv, Placed, Op, A
<1> QED
  BY <1>1, <1>3, <1>4, <1>5 DEF Jobs

\* Such a job goes on as a calm one.
LEMMA GoCalm ==
  ASSUME IInv, job.todo # <<>>, Op.do \notin {"put", "release", "repairs"},
         NEW t \in Seq(Calm), Go(t)
  PROVE  job' \in Jobs /\ Placed' /\ Guarded' /\ job'.todo = t
                       /\ (t # <<>> => job'.art = A)
BY WriteAt, JobOfCalm DEF Go

\* New fields outdate the judgements until the next write, which drops them.
LEMMA HealStep == ASSUME IInv, DoHeal PROVE IInv'
<1>1. job.todo # <<>> /\ Op.do = "heal"
  BY DEF DoHeal, Doing
<1>2. job.todo \in Seq(Calm) /\ Op \in Calm /\ A \in Artifacts
  BY <1>1, WriteAt
<1>3. Tail(job.todo) \in Seq(Calm)
  BY <1>1, <1>2, CalmSequences
<1>4. art[A] \in Row \cup {Unread} /\ TypeOK
  BY <1>2 DEF IInv, TypeOK
<1>5. CASE UNCHANGED <<art, aged, stale>> /\ Onward
  <2>1. job' \in Jobs /\ Placed' /\ Guarded'
    BY <1>1, <1>3, <1>5, GoCalm DEF Onward
  <2>2. Fresh'
    BY <1>1, <1>5, FreshWrites DEF DoHeal
  <2>3. TypeOK'
    BY <1>4, <1>5, <2>1 DEF TypeOK, Jobs, DoHeal
  <2> QED
    BY <1>5, <2>1, <2>2, <2>3, OtherStep DEF DoHeal
<1>6. CASE /\ Row1([Moved(art[A], "CHECKLIST_READY", "open") EXCEPT !.gap = Op.gap])
           /\ stale' = stale \cup Outdated(A)
           /\ Go(<<Forget>> \o Tail(job.todo))
  <2> DEFINE row == [Moved(art[A], "CHECKLIST_READY", "open") EXCEPT !.gap = Op.gap]
             t == <<Forget>> \o Tail(job.todo)
  <2>1. row \in Row /\ row.status = "CHECKLIST_READY"
    <3>1. Op.gap \in Gaps
      BY <1>1, <1>2, WriteShapes DEF Calm
    <3>2. "CHECKLIST_READY" \in Statuses /\ "open" \in Diagnoses
      BY DEF Statuses, Diagnoses
    <3>3. /\ Moved(art[A], "CHECKLIST_READY", "open") \in Row
          /\ Moved(art[A], "CHECKLIST_READY", "open").status = "CHECKLIST_READY"
      BY <1>4, <3>2, RowMoved
    <3> QED
      BY <3>1, <3>3 DEF Row
  <2>2. t \in Seq(Calm) /\ t # <<>> /\ t[1] = Forget
    <3>1. Forget \in Calm
      BY CalmWrites
    <3>2. <<Forget>> \in Seq(Calm) /\ Len(<<Forget>>) = 1 /\ <<Forget>>[1] = Forget
      BY <3>1
    <3>3. t \in Seq(Calm)
      BY <1>3, <3>2, ConcatProperties
    <3>4. Len(t) = 1 + Len(Tail(job.todo)) /\ t[1] = Forget
      BY <1>3, <3>2, ConcatProperties, LenProperties
    <3> QED
      BY <1>3, <3>3, <3>4, LenProperties
  <2> HIDE DEF row, t
  <2>3. job' \in Jobs /\ Placed' /\ Guarded' /\ job'.todo = t /\ job'.art = A
    <3>1. Go(t)
      BY <1>6 DEF t
    <3> QED
      BY <1>1, <2>2, <3>1, GoCalm
  <2>4. Outdated(A) \subseteq {"qa", "evidence"} \X {A}
    BY DEF Outdated
  <2>5. Row1(row)
    BY <1>6 DEF row
  <2>6. TypeOK'
    <3>1. art' \in [Artifacts -> Row \cup {Unread}] /\ aged' \subseteq Artifacts
      BY <1>4, <2>1, <2>5 DEF TypeOK, Row1
    <3>2. stale' \subseteq {"qa", "evidence"} \X Artifacts
      BY <1>2, <1>4, <1>6, <2>4 DEF TypeOK
    <3> QED
      BY <1>4, <2>3, <3>1, <3>2 DEF TypeOK, Jobs, DoHeal
  <2>7. PublishedHasContent'
    BY <1>4, <2>1, <2>5 DEF IInv, TypeOK, PublishedHasContent, Backed, Is, DoHeal, Row1
  <2>8. Fresh'
    <3>1. stale = {} \/ crashed
      BY <1>1 DEF IInv, Fresh, Op
    <3>2. job'.todo # <<>> /\ job'.todo[1].do = "forget"
      BY <2>2, <2>3 DEF Forget
    <3> QED
      BY <1>6, <2>3, <2>4, <3>1, <3>2 DEF Fresh, DoHeal
  <2> QED
    BY <2>3, <2>6, <2>7, <2>8 DEF IInv
<1> QED
  BY <1>5, <1>6 DEF DoHeal

\* A write that leaves the artifacts' rows and the public ones alone, and goes
\* on with calm writes.
LEMMA QuietStep ==
  ASSUME IInv, job.todo # <<>>, Op.do \notin {"put", "release", "repairs"},
         NEW t \in Seq(Calm), Go(t),
         UNCHANGED <<art, public, found, aged, reads, upsets, crashed>>,
         stale' \subseteq stale, Op.do # "forget" \/ stale' = {} \/ crashed,
         qa' \in [Artifacts -> Verdicts \cup {"none"}],
         evid' \in [Artifacts -> Evidence], plans' \subseteq Plan,
         rounds' \in [Artifacts -> 0 .. MaxRounds],
         spent' \in [Artifacts -> 0 .. Budget + 1]
  PROVE  IInv'
<1>1. job' \in Jobs /\ Placed' /\ Guarded'
  BY GoCalm
<1>2. TypeOK'
  BY <1>1 DEF IInv, TypeOK, Jobs
<1>3. Fresh'
  BY FreshWrites DEF Fresh
<1> QED
  BY <1>1, <1>2, <1>3, OtherStep

\* In particular one that goes on with what was left.
LEMMA QuietOnward ==
  ASSUME IInv, job.todo # <<>>, Op.do \notin {"put", "release", "repairs"}, Onward
  PROVE  Tail(job.todo) \in Seq(Calm) /\ Go(Tail(job.todo)) /\ A \in Artifacts
BY WriteAt, CalmSequences DEF Onward

\* Evidence recorded, or judged as stored, keeps the invariant.
LEMMA VerifyStep == ASSUME IInv, DoVerify PROVE IInv'
<1>1. job.todo # <<>> /\ Op.do = "verify"
  BY DEF DoVerify, Doing
<1>2. A \in Artifacts /\ TypeOK
  BY <1>1, WriteAt DEF IInv
<1>3. evid' \in [Artifacts -> Evidence]
  BY <1>2 DEF DoVerify, TypeOK
<1>4. \E t \in Seq(Calm) : Go(t)
  <2>1. /\ Put("VERIFICATION_READY") \in Calm /\ Hold("exhausted") \in Calm
        /\ Put("NEEDS_REPAIR") \in Calm
    BY CalmWrites DEF Statuses, Diagnoses
  <2>2. File("VALIDATION_EVIDENCE_MISSING", A) \in Calm
    BY <1>2, CalmWrites DEF PlanKinds
  <2>3. /\ <<Put("VERIFICATION_READY")>> \in Seq(Calm)
        /\ <<Hold("exhausted")>> \in Seq(Calm)
        /\ <<File("VALIDATION_EVIDENCE_MISSING", A), Put("NEEDS_REPAIR")>> \in Seq(Calm)
    BY <2>1, <2>2, ShortSequences
  <2>4. \/ Go(<<Put("VERIFICATION_READY")>>) \/ Go(<<Hold("exhausted")>>)
        \/ Go(<<File("VALIDATION_EVIDENCE_MISSING", A), Put("NEEDS_REPAIR")>>)
    BY Zenon DEF DoVerify
  <2> QED
    BY <2>3, <2>4
<1>5. PICK t \in Seq(Calm) : Go(t)
  BY <1>4
<1> QED
  BY <1>1, <1>2, <1>3, <1>5, QuietStep DEF TypeOK, DoVerify

\* Filing a plan keeps the invariant.
LEMMA FileStep == ASSUME IInv, DoFile PROVE IInv'
<1>1. job.todo # <<>> /\ Op.do = "file" /\ Onward
  BY DEF DoFile, Doing
<1>2. Op.plan \in Plan /\ TypeOK
  BY <1>1, WriteAt, WriteShapes DEF Calm, IInv
<1>3. Tail(job.todo) \in Seq(Calm) /\ Go(Tail(job.todo)) /\ A \in Artifacts
  BY <1>1, QuietOnward
<1>4. plans' \subseteq Plan
  BY <1>2 DEF DoFile, TypeOK
<1>5. rounds' \in [Artifacts -> 0 .. MaxRounds]
  BY <1>2, <1>3, FunnelAssumption DEF DoFile, TypeOK, FunnelAssumption
<1> QED
  BY <1>1, <1>2, <1>3, <1>4, <1>5, QuietStep DEF TypeOK, DoFile

\* The retry budget takes no part in the invariant.
LEMMA BudgetStep == ASSUME IInv, DoBudget PROVE IInv'
<1>1. job.todo # <<>> /\ Op.do \in {"spend", "refund"} /\ Onward /\ TypeOK
  BY DEF DoBudget, Doing, IInv
<1>2. Tail(job.todo) \in Seq(Calm) /\ Go(Tail(job.todo)) /\ A \in Artifacts
  BY <1>1, QuietOnward
<1>3. spent' \in [Artifacts -> 0 .. Budget + 1]
  <2>1. /\ spent \in [Artifacts -> 0 .. Budget + 1] /\ Budget \in Nat
        /\ spent[A] \in 0 .. Budget + 1
    BY <1>1, <1>2, FunnelAssumption DEF TypeOK, FunnelAssumption
  <2>2. \/ spent' = [spent EXCEPT ![A] = 0]
        \/ spent[A] > Budget /\ spent' = [spent EXCEPT ![A] = spent[A]]
        \/ ~ (spent[A] > Budget) /\ spent' = [spent EXCEPT ![A] = spent[A] + 1]
    BY DEF DoBudget
  <2> QED
    BY <2>1, <2>2
<1> QED
  BY <1>1, <1>2, <1>3, QuietStep DEF TypeOK, DoBudget

\* A verdict is about the present fields.
LEMMA ScoreStep == ASSUME IInv, DoScore PROVE IInv'
<1>1. job.todo # <<>> /\ Op.do = "score" /\ Onward /\ TypeOK
  BY DEF DoScore, Doing, IInv
<1>2. Tail(job.todo) \in Seq(Calm) /\ Go(Tail(job.todo)) /\ A \in Artifacts
  BY <1>1, QuietOnward
<1>3. Op.verdict \in Verdicts
  BY <1>1, WriteAt, WriteShapes DEF Calm
<1>4. qa' \in [Artifacts -> Verdicts \cup {"none"}] /\ stale' \subseteq stale
  BY <1>1, <1>2, <1>3 DEF DoScore, TypeOK
<1> QED
  BY <1>1, <1>2, <1>4, QuietStep DEF TypeOK, DoScore

\* Dropping the evidence keeps the invariant: nothing is being released.
LEMMA DropStep == ASSUME IInv, DoDrop PROVE IInv'
<1>1. job.todo # <<>> /\ Op.do = "drop" /\ Onward /\ TypeOK
  BY DEF DoDrop, Doing, Without, IInv
<1>2. Tail(job.todo) \in Seq(Calm) /\ Go(Tail(job.todo)) /\ A \in Artifacts
  BY <1>1, QuietOnward
<1>3. evid' \in [Artifacts -> Evidence] /\ qa' = qa /\ stale' \subseteq stale
  BY <1>1, <1>2 DEF DoDrop, Without, TypeOK, Evidence
<1> QED
  BY <1>1, <1>2, <1>3, QuietStep DEF TypeOK, DoDrop, Without

\* Dropping both judgements ends what a heal left out of date.
LEMMA ForgetStep == ASSUME IInv, DoForget PROVE IInv'
<1>1. job.todo # <<>> /\ Op.do = "forget" /\ Onward /\ TypeOK
  BY DEF DoForget, Doing, Without, IInv
<1>2. Tail(job.todo) \in Seq(Calm) /\ Go(Tail(job.todo)) /\ A \in Artifacts
  BY <1>1, QuietOnward
<1>3. /\ evid' \in [Artifacts -> Evidence]
      /\ qa' \in [Artifacts -> Verdicts \cup {"none"}]
  BY <1>1, <1>2 DEF DoForget, Without, TypeOK, Evidence
<1>4. stale' \subseteq stale /\ (stale' = {} \/ crashed)
  BY DEF DoForget, Without, IInv, Fresh, A
<1> QED
  BY <1>1, <1>2, <1>3, <1>4, QuietStep DEF TypeOK, DoForget, Without

\* Closing a plan keeps the invariant.
LEMMA CloseStep == ASSUME IInv, DoClose PROVE IInv'
<1>1. job.todo # <<>> /\ Op.do = "close" /\ Onward /\ TypeOK
  BY DEF DoClose, Doing, IInv
<1>2. Tail(job.todo) \in Seq(Calm) /\ Go(Tail(job.todo)) /\ A \in Artifacts
  BY <1>1, QuietOnward
<1>3. plans' \subseteq Plan
  BY <1>1 DEF DoClose, TypeOK
<1> QED
  BY <1>1, <1>2, <1>3, QuietStep DEF TypeOK, DoClose

\* What is released stands judged, and is marked only after its row is live.
LEMMA ReleaseStep == ASSUME IInv, DoRelease PROVE IInv' /\ Judged(A) /\ A \in Artifacts
<1>1. job.todo # <<>> /\ Op.do = "release" /\ TypeOK
  BY DEF DoRelease, Doing, IInv
<1>2. A \in Artifacts /\ Judged(A)
  <2>1. job.todo \notin Seq(Calm)
    BY <1>1, CalmSequences DEF Calm, Op
  <2>2. \A s \in Slugs : job.todo \notin Released(s)
    BY <1>1 DEF Released, Mark, Put, Op
  <2> QED
    BY <2>1, <2>2 DEF IInv, Guarded, A
<1>3. SlugOf[A] \in Slugs
  BY <1>2, FunnelAssumption DEF FunnelAssumption
<1>4. /\ public' \in [Slugs -> {"none", "live", "hidden"}]
      /\ \A s \in Slugs : public[s] # "none" => public'[s] # "none"
  BY <1>1, <1>3 DEF DoRelease, TypeOK
<1>4a. PICK s \in Slugs : public'[s] # "none" /\ \E t \in Released(s) : Go(t)
  <2>1. CASE \E s \in Slugs \ {SlugOf[A]} :
               public[s] = "live" /\ Go(<<Mark(s)>>) /\ UNCHANGED public
    BY <2>1 DEF Released
  <2>2. CASE /\ public' = [public EXCEPT ![SlugOf[A]] = "live"]
             /\ Go(IF public[SlugOf[A]] = "live" THEN <<Mark(SlugOf[A])>>
                   ELSE <<Mark(SlugOf[A]), Refund>>)
    <3>1. public'[SlugOf[A]] = "live"
      BY <1>1, <1>3, <2>2 DEF TypeOK
    <3>2. \E t \in Released(SlugOf[A]) : Go(t)
      BY <2>2 DEF Released
    <3> QED
      BY <1>3, <3>1, <3>2
  <2> QED
    BY <2>1, <2>2 DEF DoRelease
<1>5. /\ job' \in Jobs /\ job'.art = A /\ job'.todo \in Released(s)
  <2>1. Mark(s) \in Writes /\ Refund \in Writes
    BY WriteTypes
  <2>2. PICK t \in Released(s) : Go(t)
    BY <1>4a
  <2>3. t \in Seq(Writes) /\ t # <<>>
    BY <2>1, <2>2, ShortSequences DEF Released
  <2>4. job' = [by |-> job.by, art |-> A, todo |-> t]
    BY <2>2, <2>3 DEF Go, JobOf
  <2>5. job.by \in {"nobody", "stage", "drain"}
    BY <1>1 DEF TypeOK
  <2> QED
    BY <1>2, <2>2, <2>3, <2>4, <2>5 DEF Jobs
<1>6. Placed' /\ Guarded'
  BY <1>2, <1>4a, <1>5 DEF Placed, Guarded
<1>7. TypeOK'
  BY <1>1, <1>4, <1>5 DEF TypeOK, Jobs, DoRelease
<1>8. PublishedHasContent'
  BY <1>4 DEF IInv, PublishedHasContent, Backed, Is, DoRelease
<1>9. Fresh'
  BY <1>1, FreshWrites DEF DoRelease
<1> QED
  BY <1>2, <1>6, <1>7, <1>8, <1>9 DEF IInv

\* Taking up the next plan of the batch keeps the invariant.
LEMMA RepairsStep == ASSUME IInv, DoRepairs PROVE IInv'
<1>1. job.todo # <<>> /\ Op.do = "repairs" /\ TypeOK
  BY DEF DoRepairs, Doing, IInv
<1>2. job.todo \in Seq(Calm)
  BY <1>1 DEF IInv, Guarded, Released, Release, Mark, Put, Op
<1>3. Op.plans \in SUBSET Plan
  BY <1>1, <1>2, CalmSequences, WriteShapes DEF Calm, Op
<1>4. PICK p \in Op.plans : \E todo \in Remedies(p) :
        job' = JobOf(job.by, p.of,
                     todo \o (IF Op.plans \ {p} = {} THEN <<>>
                              ELSE <<Repairs(Op.plans \ {p})>>))
  BY DEF DoRepairs
<1>4a. PICK todo \in Remedies(p) :
        job' = JobOf(job.by, p.of,
                     todo \o (IF Op.plans \ {p} = {} THEN <<>>
                              ELSE <<Repairs(Op.plans \ {p})>>))
  BY <1>4
<1> DEFINE rest == IF Op.plans \ {p} = {} THEN <<>> ELSE <<Repairs(Op.plans \ {p})>>
           t == todo \o rest
<1>5. p \in Plan /\ p.of \in Artifacts
  BY <1>3, <1>4 DEF Plan
<1>6. todo \in Seq(Calm)
  BY <1>4a, <1>5, RemediesCalm
<1>7. rest \in Seq(Calm)
  <2>1. Repairs(Op.plans \ {p}) \in Calm
    BY <1>3, CalmWrites
  <2> QED
    BY <2>1, ShortSequences
<1> HIDE DEF rest
<1>8. t \in Seq(Calm)
  BY <1>6, <1>7, ConcatProperties
<1>9. job' \in Jobs /\ Placed' /\ Guarded'
  <2>1. job' = JobOf(job.by, p.of, t) /\ job.by \in {"nobody", "stage", "drain"}
    BY <1>1, <1>4a DEF rest, TypeOK
  <2> HIDE DEF t
  <2> QED
    BY <1>5, <1>8, <2>1, JobOfCalm
<1>10. Fresh'
  BY <1>1, FreshWrites DEF DoRepairs, rows
<1>11. TypeOK'
  BY <1>1, <1>9 DEF TypeOK, Jobs, DoRepairs, rows
<1> QED
  BY <1>9, <1>10, <1>11, OtherStep DEF DoRepairs, rows

\* Every write keeps the invariant.
LEMMA WriteStep == ASSUME IInv, Write PROVE IInv'
BY PutStep, DiagnoseStep, RecheckStep, ShutStep, HealStep, VerifyStep, FileStep,
   BudgetStep, ScoreStep, ReleaseStep, DropStep, ForgetStep, CloseStep, RepairsStep
   DEF Write

-----------------------------------------------------------------------------
(* So does every handler's start, and what comes between its writes *)

\* A handler that starts finds no judgement out of date.
LEMMA FreshStart ==
  ASSUME IInv, ~ Busy
  PROVE  crashed \/ stale = {}
BY DEF IInv, Fresh, Busy, NoJob

\* A handler that has only read.
LEMMA ActStep ==
  ASSUME IInv, NEW by \in {"stage", "drain"}, NEW a \in Artifacts, NEW todo,
         Act(by, a, todo),
         todo \in Seq(Calm) \/ (todo = <<Release>> /\ Judged(a))
  PROVE  IInv'
<1>1. ~ Busy /\ job' = JobOf(by, a, todo) /\ TypeOK
  BY DEF Act, Start, MayStart, IInv
<1>2. job' \in Jobs /\ Placed' /\ Guarded'
  <2>1. CASE todo \in Seq(Calm)
    BY <1>1, <2>1, JobOfCalm
  <2>2. CASE todo = <<Release>> /\ Judged(a)
    <3>1. Release \in Writes
      BY WriteTypes
    <3>2. todo \in Seq(Writes) /\ todo # <<>>
      BY <2>2, <3>1, ShortSequences
    <3>3. job' = [by |-> by, art |-> a, todo |-> todo]
      BY <1>1, <3>2 DEF JobOf
    <3>4. job' \in Jobs /\ job'.art = a /\ job'.todo = <<Release>>
      BY <2>2, <3>2, <3>3 DEF Jobs
    <3>5. Judged(a)'
      BY <2>2 DEF Judged, Act, rows
    <3> QED
      BY <3>4, <3>5 DEF Placed, Guarded
  <2> QED
    BY <2>1, <2>2
<1>3. TypeOK'
  BY <1>1, <1>2 DEF TypeOK, Jobs, Act, rows
<1>4. Fresh'
  BY <1>1, FreshStart DEF Fresh, Act, rows
<1> QED
  BY <1>2, <1>3, <1>4, OtherStep DEF Act, rows

\* A handler of the drive phase starts in the invariant.
LEMMA DriveStep ==
  ASSUME IInv, NEW a \in Artifacts, Drive(a)
  PROVE  IInv'
<1>1. CASE Bridge(a)
  <2>1. PICK s \in {"EXTRACTED", "REJECTED", "BUILD_READY"} : Act("drain", a, <<Put(s)>>)
    BY <1>1 DEF Bridge
  <2>2. Put(s) \in Calm
    BY CalmWrites DEF Statuses
  <2>3. <<Put(s)>> \in Seq(Calm)
    BY <2>2, ShortSequences
  <2> QED
    BY <2>1, <2>3, ActStep
<1>2. CASE VerifyStart(a)
  <2>1. <<Verify>> \in Seq(Calm)
    BY CalmWrites, ShortSequences
  <2> QED
    BY <1>2, <2>1, ActStep DEF VerifyStart
<1>3. CASE StrictQA(a)
  <2>1. /\ Put("QA_PASSED") \in Calm /\ Put("REJECTED") \in Calm
        /\ Hold("band") \in Calm /\ File("STRICT_QA_FAILED", a) \in Calm
        /\ \A v \in Verdicts : Score(v) \in Calm
    BY CalmWrites DEF Statuses, Diagnoses, PlanKinds
  <2>2. Score("passed") \in Calm /\ Score("band") \in Calm /\ Score("failed") \in Calm
    BY <2>1 DEF Verdicts
  <2>3. /\ <<Put("QA_PASSED")>> \in Seq(Calm)
        /\ <<Score("passed"), Put("QA_PASSED")>> \in Seq(Calm)
        /\ <<Score("band"), Hold("band")>> \in Seq(Calm)
        /\ <<Score("failed"), Put("REJECTED"), File("STRICT_QA_FAILED", a)>> \in Seq(Calm)
    BY <2>1, <2>2, ShortSequences
  <2>4. \E todo \in Seq(Calm) : Act("drain", a, todo)
    BY <1>3, <2>3 DEF StrictQA
  <2> QED
    BY <2>4, ActStep
<1>4. CASE Publish(a)
  <2>1. PICK todo \in IF qa[a] = "passed" THEN Routes(a) ELSE Unjudged(a) :
          Act("drain", a, todo)
    BY <1>4 DEF Publish
  <2>2. CASE qa[a] = "passed" /\ todo = <<Release>> /\ ~ Sensitive(a)
    <3>1. crashed \/ stale = {}
      BY <2>1, FreshStart DEF Act, Start, MayStart
    <3>2. Judged(a)
      BY <2>2, <3>1 DEF Judged, Sensitive
    <3> QED
      BY <2>1, <2>2, <3>2, ActStep
  <2>3. CASE todo \in Seq(Calm)
    BY <2>1, <2>3, ActStep
  <2> QED
    BY <2>1, <2>2, <2>3, RoutesCalm, TriageCalm
<1> QED
  BY <1>1, <1>2, <1>3, <1>4 DEF Drive

\* The drain's triage, recovery and recheck start in the invariant.
LEMMA TriageStep ==
  ASSUME IInv, NEW a \in Artifacts,
         Triage(a) \/ Recover(a) \/ RecheckHold(a)
  PROVE  IInv'
<1>1. CASE Triage(a)
  <2>1. PICK todo \in Routing(a) : Act("drain", a, <<Diagnose>> \o todo)
    BY <1>1 DEF Triage
  <2>2. todo \in Seq(Calm) /\ <<Diagnose>> \in Seq(Calm)
    BY TriageCalm, CalmWrites, ShortSequences
  <2>3. <<Diagnose>> \o todo \in Seq(Calm)
    BY <2>2, ConcatProperties
  <2> QED
    BY <2>1, <2>3, ActStep
<1>2. CASE Recover(a)
  <2>1. <<Put("QA_PASSED")>> \in Seq(Calm)
    BY CalmWrites, ShortSequences DEF Statuses
  <2> QED
    BY <1>2, <2>1, ActStep DEF Recover
<1>3. CASE RecheckHold(a)
  <2>1. <<DropEvidence, Recheck>> \in Seq(Calm)
    BY CalmWrites, ShortSequences
  <2> QED
    BY <1>3, <2>1, ActStep DEF RecheckHold
<1> QED
  BY <1>1, <1>2, <1>3

\* A first page leaves a fresh artifact in the invariant.
LEMMA ExtractNewStep ==
  ASSUME IInv, NEW a \in Artifacts, ExtractNew(a)
  PROVE  IInv'
<1>1. PICK s \in {"REJECTED", "EXTRACTED", "CHECKLIST_READY"} :
        /\ art' = [art EXCEPT ![a] =
                     [Unread EXCEPT !.status = s,
                        !.gap = IF s = "CHECKLIST_READY" THEN "none" ELSE "schema"]]
        /\ \E todo \in {<<FileForHost(a)>>, <<File("EXTRACT_FAILED", a)>>} :
             Start("stage", a, IF s = "EXTRACTED" THEN todo ELSE <<>>)
  BY DEF ExtractNew
<1>2. TypeOK /\ ~ Busy
  BY <1>1 DEF IInv, Start, MayStart
<1>3. job' \in Jobs /\ Placed' /\ Guarded'
  <2>1. FileForHost(a) \in Calm /\ File("EXTRACT_FAILED", a) \in Calm
    BY CalmWrites DEF PlanKinds
  <2>2. /\ <<FileForHost(a)>> \in Seq(Calm) /\ <<>> \in Seq(Calm)
        /\ <<File("EXTRACT_FAILED", a)>> \in Seq(Calm)
    BY <2>1, ShortSequences
  <2>3. PICK t \in Seq(Calm) : job' = JobOf("stage", a, t)
    BY <1>1, <2>2 DEF Start
  <2> QED
    BY <2>3, JobOfCalm
<1>4. art' \in [Artifacts -> Row \cup {Unread}] /\ art'[a].status # "PUBLISHED"
  <2> DEFINE row == [Unread EXCEPT !.status = s,
                       !.gap = IF s = "CHECKLIST_READY" THEN "none" ELSE "schema"]
  <2>1. row \in Row /\ row.status = s
    <3>1. Unread \in AnyRow
      BY RowTypes
    <3>2. (IF s = "CHECKLIST_READY" THEN "none" ELSE "schema") \in Gaps /\ s \in Statuses
      BY DEF Gaps, Statuses
    <3> QED
      BY <3>1, <3>2 DEF AnyRow, Row
  <2>2. art' = [art EXCEPT ![a] = row]
    BY <1>1
  <2> HIDE DEF row
  <2> QED
    BY <1>2, <2>1, <2>2 DEF TypeOK
<1>5. TypeOK'
  <2>1. reads' \in 0 .. MaxReads
    BY <1>2, FunnelAssumption DEF TypeOK, ExtractNew, FunnelAssumption
  <2> QED
    BY <1>2, <1>3, <1>4, <2>1 DEF TypeOK, Jobs, ExtractNew
<1>6. PublishedHasContent'
  BY <1>1, <1>2, <1>4 DEF IInv, TypeOK, PublishedHasContent, Backed, Is, ExtractNew
<1>7. Fresh'
  BY <1>2, FreshStart DEF Fresh, ExtractNew
<1> QED
  BY <1>3, <1>5, <1>6, <1>7 DEF IInv

\* A second page outdates the judgements, and drops them next.
LEMMA ExtractAgainStep ==
  ASSUME IInv, NEW a \in Artifacts, ExtractAgain(a)
  PROVE  IInv'
<1> DEFINE row == [Moved(art[a], "CHECKLIST_READY", "open") EXCEPT !.gap = "none"]
<1>1. /\ art' = [art EXCEPT ![a] = row] /\ aged' = aged \ {a}
      /\ stale' = stale \cup Outdated(a)
      /\ ~ Busy /\ job' = JobOf("stage", a, <<Forget>>) /\ TypeOK
  BY DEF ExtractAgain, Start, MayStart, IInv
<1>2. row \in Row /\ row.status = "CHECKLIST_READY"
  <2>1. art[a] \in Row \cup {Unread}
    BY <1>1 DEF TypeOK
  <2>2. /\ Moved(art[a], "CHECKLIST_READY", "open") \in Row
        /\ Moved(art[a], "CHECKLIST_READY", "open").status = "CHECKLIST_READY"
    BY <2>1, RowMoved DEF Statuses, Diagnoses
  <2> QED
    BY <2>2 DEF Row, Gaps
<1> HIDE DEF row
<1>3. /\ job' \in Jobs /\ Placed' /\ Guarded'
      /\ job'.art = a /\ job'.todo # <<>> /\ job'.todo[1].do = "forget"
  <2>1. <<Forget>> \in Seq(Calm) /\ <<Forget>> # <<>> /\ <<Forget>>[1] = Forget
    BY CalmWrites, ShortSequences
  <2>2. /\ job' \in Jobs /\ Placed' /\ Guarded'
        /\ job'.todo = <<Forget>> /\ job'.art = a
    BY <1>1, <2>1, JobOfCalm
  <2>3. Forget.do = "forget"
    BY DEF Forget
  <2> QED
    BY <2>1, <2>2, <2>3
<1>4. Outdated(a) \subseteq {"qa", "evidence"} \X {a}
  BY DEF Outdated
<1>5. TypeOK'
  <2>1. stale' \subseteq {"qa", "evidence"} \X Artifacts
    BY <1>1, <1>4 DEF TypeOK
  <2>2. art' \in [Artifacts -> Row \cup {Unread}]
    BY <1>1, <1>2 DEF TypeOK
  <2>3. reads' \in 0 .. MaxReads
    BY <1>1, FunnelAssumption DEF TypeOK, ExtractAgain, FunnelAssumption
  <2> QED
    BY <1>1, <1>3, <2>1, <2>2, <2>3 DEF TypeOK, Jobs, ExtractAgain
<1>6. PublishedHasContent'
  BY <1>1, <1>2 DEF IInv, TypeOK, PublishedHasContent, Backed, Is, ExtractAgain
<1>7. Fresh'
  BY <1>1, <1>3, <1>4, FreshStart DEF Fresh, ExtractAgain
<1> QED
  BY <1>3, <1>5, <1>6, <1>7 DEF IInv

\* Taking up the plans keeps the invariant.
LEMMA RepairStep == ASSUME IInv, Repair PROVE IInv'
<1>1. ~ Busy /\ TypeOK
  BY DEF Repair, MayStart, IInv
<1>2. PICK t \in {<<>>, <<Repairs(plans \ Moot)>>} : job' = JobOf("stage", Host, t)
  BY DEF Repair
<1>3. job' \in Jobs /\ Placed' /\ Guarded'
  <2>1. Repairs(plans \ Moot) \in Calm
    BY <1>1, CalmWrites DEF TypeOK
  <2>2. t \in Seq(Calm)
    BY <2>1, ShortSequences
  <2>3. t = <<>> \/ t[1].do = "repairs"
    BY DEF Repairs
  <2> QED
    BY <1>2, <2>2, <2>3, JobOfCalm
<1>4. TypeOK'
  BY <1>1, <1>3 DEF TypeOK, Jobs, Repair
<1>5. Fresh'
  BY <1>1, FreshStart DEF Fresh, Repair
<1> QED
  BY <1>3, <1>4, <1>5, OtherStep DEF Repair

\* A page taken down keeps its row.
LEMMA HideStep == ASSUME IInv, NEW s \in Slugs, Hide(s) PROVE IInv'
<1>1. TypeOK /\ ~ Busy
  BY DEF Hide, MayStart, IInv
<1>2. /\ public' \in [Slugs -> {"none", "live", "hidden"}]
      /\ \A r \in Slugs : public[r] # "none" => public'[r] # "none"
  BY <1>1 DEF Hide, TypeOK
<1>3. job'.todo = <<>> /\ <<>> \in Seq(Calm)
  BY <1>1 DEF Hide, Busy, NoJob
<1>4. Placed' /\ Guarded'
  BY <1>3 DEF Placed, Guarded
<1>5. PublishedHasContent'
  BY <1>2 DEF IInv, PublishedHasContent, Backed, Is, Hide
<1>6. TypeOK'
  <2>1. upsets' \in 0 .. MaxUpsets
    BY <1>1, FunnelAssumption DEF Hide, TypeOK, FunnelAssumption
  <2> QED
    BY <1>1, <1>2, <2>1 DEF TypeOK, Hide
<1>7. Fresh'
  BY <1>1, FreshStart DEF Fresh, Hide
<1> QED
  BY <1>4, <1>5, <1>6, <1>7 DEF IInv

\* Self-maintenance, a week, and the end of the process.
LEMMA OtherActions ==
  ASSUME IInv, MaintFind \/ MaintRequeue \/ Week \/ Crash
  PROVE  IInv'
<1>1. TypeOK
  BY DEF IInv
<1>2. ASSUME UNCHANGED <<job, qa, evid, stale, public, crashed>>
      PROVE  Placed' /\ Guarded' /\ Fresh'
  BY <1>2 DEF IInv, Placed, Guarded, Fresh, Judged
<1>3. CASE MaintFind
  <2>1. TypeOK'
    BY <1>1, <1>3 DEF MaintFind, TypeOK, rows, Requeueable
  <2> QED
    BY <1>2, <1>3, <2>1, OtherStep DEF MaintFind, rows
<1>4. CASE MaintRequeue
  <2>1. \A a \in Artifacts : /\ Moved(art[a], "BUILD_READY", "requeued") \in Row
                             /\ Moved(art[a], "BUILD_READY", "requeued").status
                                = "BUILD_READY"
    <3>1. "BUILD_READY" \in Statuses /\ "requeued" \in Diagnoses
      BY DEF Statuses, Diagnoses
    <3> QED
      BY <1>1, <3>1, RowMoved DEF TypeOK
  <2>2. /\ art' \in [Artifacts -> Row \cup {Unread}]
        /\ \A a \in Artifacts : art'[a].status = "PUBLISHED" => art'[a] = art[a]
    BY <1>1, <1>4, <2>1 DEF MaintRequeue, TypeOK
  <2>3. TypeOK'
    BY <1>1, <1>4, <2>2 DEF MaintRequeue, TypeOK
  <2>4. PublishedHasContent'
    BY <1>4, <2>2 DEF IInv, PublishedHasContent, Backed, Is, MaintRequeue
  <2> QED
    BY <1>2, <1>4, <2>3, <2>4 DEF IInv, MaintRequeue
<1>5. CASE Week
  <2>1. upsets' \in 0 .. MaxUpsets
    BY <1>1, <1>5, FunnelAssumption DEF TypeOK, Week, FunnelAssumption
  <2>2. TypeOK'
    BY <1>1, <1>5, <2>1 DEF Week, TypeOK, rows, Parked
  <2> QED
    BY <1>2, <1>5, <2>2, OtherStep DEF Week, rows
<1>6. CASE Crash
  <2>1. job' = NoJob /\ NoJob.todo = <<>> /\ <<>> \in Seq(Calm) /\ NoJob \in Jobs
    BY <1>6, ShortSequences DEF Crash, NoJob, Jobs
  <2>2. Placed' /\ Guarded' /\ Fresh'
    BY <1>6, <2>1 DEF Placed, Guarded, Fresh, Crash
  <2>3. upsets' \in 0 .. MaxUpsets
    BY <1>1, <1>6, FunnelAssumption DEF TypeOK, Crash, FunnelAssumption
  <2>4. TypeOK'
    BY <1>1, <1>6, <2>1, <2>3 DEF Crash, TypeOK, Jobs, rows
  <2> QED
    BY <1>6, <2>2, <2>4, OtherStep DEF Crash, rows
<1> QED
  BY <1>3, <1>4, <1>5, <1>6

-----------------------------------------------------------------------------
(* The theorems *)

\* The empty funnel satisfies the invariant.
LEMMA InitInvariant == Init => IInv
<1> SUFFICES ASSUME Init PROVE IInv
  OBVIOUS
<1>1. job = NoJob /\ job.todo = <<>>
  BY DEF Init, NoJob
<1>2. <<>> \in Seq(Writes) /\ <<>> \in Seq(Calm) /\ NoJob \in Jobs
  BY ShortSequences DEF NoJob, Jobs
<1>3. Placed /\ Guarded /\ Fresh
  BY <1>1, <1>2 DEF Placed, Guarded, Fresh, Init
<1>4. TypeOK
  <2>1. art \in [Artifacts -> Row \cup {Unread}]
    BY DEF Init
  <2>2. /\ rounds \in [Artifacts -> 0 .. MaxRounds]
        /\ spent \in [Artifacts -> 0 .. Budget + 1]
        /\ reads \in 0 .. MaxReads /\ upsets \in 0 .. MaxUpsets
    BY FunnelAssumption DEF Init, FunnelAssumption
  <2>3. /\ qa \in [Artifacts -> Verdicts \cup {"none"}]
        /\ evid \in [Artifacts -> Evidence]
        /\ public \in [Slugs -> {"none", "live", "hidden"}]
        /\ crashed \in BOOLEAN
    BY DEF Init, Evidence
  <2> QED
    BY <1>1, <1>2, <2>1, <2>2, <2>3 DEF Init, TypeOK, Jobs
<1>5. PublishedHasContent
  BY DEF Init, PublishedHasContent, Backed, Is, Unread
<1> QED
  BY <1>3, <1>4, <1>5 DEF IInv

\* Every step keeps the invariant.
LEMMA NextInvariant == IInv /\ [Next]_vars => IInv'
<1> SUFFICES ASSUME IInv, [Next]_vars PROVE IInv'
  OBVIOUS
<1>1. CASE UNCHANGED vars
  BY <1>1 DEF vars, rows, IInv, TypeOK, PublishedHasContent, Backed, Is, Placed, Guarded,
              Fresh, Judged
<1>2. CASE Next
  BY <1>2, ExtractNewStep, ExtractAgainStep, DriveStep, TriageStep, HideStep,
     RepairStep, WriteStep, OtherActions DEF Next
<1> QED
  BY <1>1, <1>2

\* The inductive invariant of the funnel holds throughout.
THEOREM Invariance == Spec => []IInv
BY InitInvariant, NextInvariant, PTL DEF Spec

\* Every row, plan and job of the funnel keeps its type.
THEOREM Typing == Spec => []TypeOK
<1>1. IInv => TypeOK
  BY DEF IInv
<1> QED
  BY <1>1, Invariance, PTL

\* A published artifact stands for a row of content, its own or another's.
THEOREM ContentBehindPublished == Spec => []PublishedHasContent
<1>1. IInv => PublishedHasContent
  BY DEF IInv
<1> QED
  BY <1>1, Invariance, PTL

-----------------------------------------------------------------------------
(* What a handler still has to write, and what it has found *)

\* The plans the handlers file: about one artifact, or about the host of a page
\* that could not be extracted.
Filed(p) == IF p.key = Host THEN p.kind = "EXTRACT_FAILED" ELSE p.key = p.of

\* Public, or given up for a person to look at.
Settled(a) == Is(a, "PUBLISHED") \/ art[a].diag = "exhausted"

\* The writes with nothing to be said of what comes before or after them.
Plain(a) ==
  {w \in Writes :
     /\ w.do \in {"put", "file", "spend", "refund", "verify", "diagnose", "drop", "recheck"}
     /\ w.do = "put" => /\ w.status \notin {"NEEDS_REPAIR", "QA_PASSED", "PUBLISHED"}
                        /\ w.diag # "exhausted"
     /\ w.do = "file" => w.plan.of = a /\ Filed(w.plan)}

\* The plans still to be run, none of which resets a public artifact ...
Runnable == {S \in SUBSET Plan : \A p \in S :
               p.kind = "VALIDATION_EVIDENCE_MISSING" => ~ Is(p.of, "PUBLISHED")}
Batched(r) == \/ r = <<>>
              \/ r[1].do = "repairs" /\ r[1].plans \in Runnable /\ Tail(r) = <<>>
\* ... behind the end of the plan about a.
Closing(a, r) ==
  r # <<>> /\ r[1].do = "close" /\ r[1].plan.of = a /\ Batched(Tail(r))

\* Artifact a before the write w, with the writes r after it.
Coming(a, w, r) ==
  \/ w.do = "repairs" /\ w.plans \in Runnable /\ r = <<>>
  \/ /\ ~ Settled(a)
     /\ \/ w \in Plain(a) /\ r \in Seq(Plain(a))
        \/ w = Put("NEEDS_REPAIR") /\ r = <<>> /\ Planned(a)
        \/ w = Put("NEEDS_REPAIR") /\ r = <<File("EXTRACT_FAILED", a)>>
        \/ \E k \in PlanKinds : w = File(k, a) /\ r = <<Put("NEEDS_REPAIR")>>
        \/ \E k \in PlanKinds : /\ w \in {Spend, Diagnose}
                                /\ r = <<File(k, a), Put("NEEDS_REPAIR")>>
        \/ w = Put("QA_PASSED") /\ r = <<>> /\ qa[a] = "passed"
        \/ w = Score("passed") /\ r = <<Put("QA_PASSED")>> /\ ~ Is(a, "QA_PASSED")
        \/ w.do = "score" /\ r \in Seq(Plain(a)) /\ ~ Is(a, "QA_PASSED")
        \/ w = Hold("exhausted") /\ r = <<>>
        \/ w = Release /\ r = <<>>
        \/ (\E s \in Slugs : w = Mark(s)) /\ r \in {<<>>, <<Refund>>}
        \/ w = Reset /\ Closing(a, r)
        \/ w = DropEvidence /\ r # <<>> /\ r[1] = Reset /\ Closing(a, Tail(r))
  \/ w = Refund /\ r = <<>>
  \/ /\ w = Forget /\ ~ Is(a, "QA_PASSED")
     /\ r = <<>> \/ (~ Is(a, "NEEDS_REPAIR") /\ Closing(a, r))
  \/ w = DropEvidence /\ ~ Is(a, "NEEDS_REPAIR") /\ Closing(a, r)
  \/ w.do \in {"shut", "heal"} /\ Closing(a, r)
  \/ w.do = "close" /\ w.plan.of = a /\ ~ Is(a, "NEEDS_REPAIR") /\ Batched(r)

\* What is to come suits the artifact as it is now, whatever self-maintenance
\* has done to it since it was read.
Suits == job.todo = <<>> \/ Coming(job.art, job.todo[1], Tail(job.todo))

\* The plans are of the kinds that are filed, only a verdict that passed makes
\* an artifact QA_PASSED, and only review holds what was given up.
Sound ==
  /\ \A p \in plans : Filed(p)
  /\ \A a \in Artifacts : Is(a, "QA_PASSED") => qa[a] = "passed"
  /\ \A a \in Artifacts : art[a].diag = "exhausted" => Is(a, "NEEDS_REVIEW") /\ ~ art[a].retry

\* An artifact waiting for repair has its plan, or is about to be given one.
Owed(a) == job.art = a /\ job.todo = <<File("EXTRACT_FAILED", a)>>
Mended ==
  crashed \/ \A a \in Artifacts : Is(a, "NEEDS_REPAIR") => Planned(a) \/ Owed(a)

Orderly == Sound /\ Suits /\ Mended

\* The writes by name.
LEMMA WriteNames ==
  /\ \A s : Put(s).do = "put" /\ Put(s).status = s /\ Put(s).diag = None /\ ~ Put(s).retry
  /\ \A d : /\ Hold(d).do = "put" /\ Hold(d).status = "NEEDS_REVIEW"
            /\ Hold(d).diag = d /\ ~ Hold(d).retry
  /\ Reset = Put("BUILD_READY")
  /\ Retry.do = "put" /\ Retry.status = "NEEDS_REVIEW" /\ Retry.diag = None
  /\ \A s : /\ Mark(s).do = "put" /\ Mark(s).status = "PUBLISHED"
            /\ Mark(s).diag = None /\ ~ Mark(s).retry
  /\ \A k, a : /\ File(k, a).do = "file" /\ File(k, a).plan.kind = k
               /\ File(k, a).plan.key = a /\ File(k, a).plan.of = a
  /\ \A a : /\ FileForHost(a).do = "file" /\ FileForHost(a).plan.kind = "EXTRACT_FAILED"
            /\ FileForHost(a).plan.key = Host /\ FileForHost(a).plan.of = a
  /\ \A v : Score(v).do = "score" /\ Score(v).verdict = v
  /\ \A g : Heal(g).do = "heal"
  /\ \A p : Close(p).do = "close" /\ Close(p).plan = p
  /\ \A S : Repairs(S).do = "repairs" /\ Repairs(S).plans = S
  /\ Spend.do = "spend" /\ Refund.do = "refund" /\ Verify.do = "verify"
  /\ Diagnose.do = "diagnose" /\ DropEvidence.do = "drop" /\ Forget.do = "forget"
  /\ Recheck.do = "recheck" /\ Shut.do = "shut" /\ Release.do = "release"
BY DEF Put, Hold, Reset, Retry, Mark, File, FileForHost, Score, Heal, Close, Repairs, Spend,
       Refund, Verify, Diagnose, DropEvidence, Forget, Recheck, Shut, Release

\* The plain writes among them.
LEMMA PlainWrites ==
  ASSUME NEW a \in Artifacts
  PROVE  /\ \A s \in Statuses \ {"NEEDS_REPAIR", "QA_PASSED", "PUBLISHED"} : Put(s) \in Plain(a)
         /\ \A d \in Diagnoses \ {"exhausted"} : Hold(d) \in Plain(a)
         /\ Retry \in Plain(a)
         /\ \A k \in PlanKinds : File(k, a) \in Plain(a)
         /\ FileForHost(a) \in Plain(a)
         /\ {Spend, Refund, Verify, Diagnose, DropEvidence, Recheck} \subseteq Plain(a)
<1>1. a # Host
  BY FunnelAssumption DEF FunnelAssumption
<1>2. /\ \A s \in Statuses \ {"NEEDS_REPAIR", "QA_PASSED", "PUBLISHED"} : Put(s) \in Plain(a)
      /\ \A d \in Diagnoses \ {"exhausted"} : Hold(d) \in Plain(a)
      /\ Retry \in Plain(a)
  BY WriteTypes, WriteNames DEF Plain, None, Statuses
<1>3. \A k \in PlanKinds : File(k, a) \in Plain(a)
  BY <1>1, WriteTypes, WriteNames DEF Plain, Filed
<1>4. FileForHost(a) \in Plain(a)
  BY WriteTypes, WriteNames DEF Plain, Filed
<1>5. {Spend, Refund, Verify, Diagnose, DropEvidence, Recheck} \subseteq Plain(a)
  BY WriteTypes, WriteNames DEF Plain
<1> QED
  BY <1>2, <1>3, <1>4, <1>5

\* Short lists, from the front.
LEMMA FirstAndRest ==
  /\ \A x : <<x>> # <<>> /\ <<x>>[1] = x /\ Tail(<<x>>) = <<>>
  /\ \A x, y : <<x, y>> # <<>> /\ <<x, y>>[1] = x /\ Tail(<<x, y>>) = <<y>>
  /\ \A x, y, z : <<x, y, z>> # <<>> /\ <<x, y, z>>[1] = x /\ Tail(<<x, y, z>>) = <<y, z>>
BY SMT

\* A list of plain writes begins with one and goes on with others.
LEMMA PlainList ==
  ASSUME NEW a, NEW t \in Seq(Plain(a)), t # <<>>
  PROVE  t[1] \in Plain(a) /\ Tail(t) \in Seq(Plain(a))
BY HeadTailProperties

\* What may come for an artifact as it will be: plain writes ...
LEMMA PlainComes ==
  ASSUME NEW a, NEW t \in Seq(Plain(a)), ~ Settled(a)'
  PROVE  t = <<>> \/ Coming(a, t[1], Tail(t))'
BY PlainList DEF Coming

\* ... the end of a plan about it ...
LEMMA ClosingComes ==
  ASSUME NEW a, NEW t, Closing(a, t)', ~ Is(a, "NEEDS_REPAIR")'
  PROVE  Coming(a, t[1], Tail(t))'
BY DEF Coming, Closing

\* ... or the next plan.
LEMMA BatchComes ==
  ASSUME NEW a, NEW t, Batched(t)'
  PROVE  t = <<>> \/ Coming(a, t[1], Tail(t))'
BY DEF Coming, Batched

\* The write at hand, at its artifact.
LEMMA AtHand ==
  ASSUME IInv, Orderly, job.todo # <<>>, Op.do # "repairs"
  PROVE  \E a \in Artifacts, w \in Writes, r \in Seq(Writes) :
           a = A /\ w = Op /\ r = Tail(job.todo) /\ Coming(a, w, r)
<1>1. A \in Artifacts
  BY DEF IInv, Placed, Op, A
<1>2. Op \in Writes /\ Tail(job.todo) \in Seq(Writes)
  BY HeadTailProperties DEF IInv, TypeOK, Op
<1>3. Coming(A, Op, Tail(job.todo))
  BY DEF Orderly, Suits, Op, A
<1> QED
  BY <1>1, <1>2, <1>3

\* A job suits its artifact when the first of its writes does; and it owes a
\* plan only if that is all there is to do.
LEMMA JobSuits ==
  ASSUME NEW by, NEW a, NEW t, job' = JobOf(by, a, t),
         t = <<>> \/ Coming(a, t[1], Tail(t))'
  PROVE  Suits' /\ (t = <<File("EXTRACT_FAILED", a)>> => Owed(a)')
<1>1. CASE t = <<>>
  <2>1. job'.todo = <<>>
    BY <1>1 DEF JobOf, NoJob
  <2> QED
    BY <1>1, <2>1 DEF Suits
<1>2. CASE t # <<>>
  <2>1. job'.todo = t /\ job'.art = a
    BY <1>2 DEF JobOf
  <2>2. Coming(a, t[1], Tail(t))'
    BY <1>2
  <2>3. Coming(job.art, job.todo[1], Tail(job.todo))'
    BY <2>1, <2>2
  <2> QED
    BY <2>1, <2>3 DEF Suits, Owed
<1> QED
  BY <1>1, <1>2

\* A step that writes the row of one artifact, and goes on with t.
LEMMA RowOrderly ==
  ASSUME TypeOK, Orderly, NEW a \in Artifacts, NEW row, NEW by, NEW t,
         art' = [art EXCEPT ![a] = row], job' = JobOf(by, a, t),
         UNCHANGED <<qa, plans, crashed>>,
         t = <<>> \/ Coming(a, t[1], Tail(t))',
         row.status = "QA_PASSED" => qa[a] = "passed",
         row.diag = "exhausted" => row.status = "NEEDS_REVIEW" /\ ~ row.retry,
         row.status = "NEEDS_REPAIR" => \/ Planned(a) \/ crashed
                                        \/ t = <<File("EXTRACT_FAILED", a)>>,
         job.todo = <<>> \/ job.todo[1].do # "file"
  PROVE  Orderly'
<1>1. \A b \in Artifacts : art'[b] = IF b = a THEN row ELSE art[b]
  BY DEF TypeOK
<1>2. Suits' /\ (t = <<File("EXTRACT_FAILED", a)>> => Owed(a)')
  BY JobSuits
<1>3. \A b \in Artifacts : ~ Owed(b)
  <2>1. \A b : File("EXTRACT_FAILED", b).do = "file"
    BY WriteNames
  <2> QED
    BY <2>1, FirstAndRest DEF Owed
<1>4. Sound'
  BY <1>1 DEF Orderly, Sound, Is
<1>5. Mended'
  BY <1>1, <1>2, <1>3 DEF Orderly, Mended, Is, Planned
<1> QED
  BY <1>2, <1>4, <1>5 DEF Orderly

\* A step that leaves the rows alone and takes back no plan.
LEMMA QuietOrderly ==
  ASSUME Orderly, NEW by, NEW a, NEW t, job' = JobOf(by, a, t),
         t = <<>> \/ Coming(a, t[1], Tail(t))',
         UNCHANGED <<art, crashed>>,
         plans \subseteq plans', \A p \in plans' : Filed(p),
         \A b \in Artifacts : Is(b, "QA_PASSED") => qa'[b] = "passed",
         \A b \in Artifacts : Owed(b) => Planned(b)'
  PROVE  Orderly'
<1>1. Suits'
  BY JobSuits
<1>2. Sound'
  BY DEF Orderly, Sound, Is
<1>3. Mended'
  BY DEF Orderly, Mended, Is, Planned
<1> QED
  BY <1>1, <1>2, <1>3 DEF Orderly

\* What suits an artifact suits it still when neither its row nor its verdict
\* has changed.
LEMMA StillComing ==
  ASSUME NEW a, NEW w, NEW r, Coming(a, w, r), UNCHANGED <<art, qa>>, plans \subseteq plans'
  PROVE  Coming(a, w, r)'
<1>1. /\ Settled(a)' <=> Settled(a)
      /\ \A s : Is(a, s)' <=> Is(a, s)
      /\ Planned(a) => Planned(a)'
  BY DEF Settled, Is, Planned
<1>2. Runnable' = Runnable
  BY DEF Runnable, Is
<1>3. \A t : Closing(a, t)' <=> Closing(a, t)
  BY <1>2 DEF Closing, Batched
<1>4. Batched(r)' <=> Batched(r)
  BY <1>2 DEF Batched
<1> QED
  BY <1>1, <1>2, <1>3, <1>4 DEF Coming

\* A write that is not of a plan leaves nothing owed.
LEMMA NothingOwed ==
  ASSUME job.todo = <<>> \/ job.todo[1].do # "file"
  PROVE  \A a : ~ Owed(a)
<1> SUFFICES ASSUME NEW a, Owed(a) PROVE FALSE
  OBVIOUS
<1>1. job.todo # <<>> /\ job.todo[1] = File("EXTRACT_FAILED", a)
  BY FirstAndRest DEF Owed
<1> QED
  BY <1>1, WriteNames

\* A batch stays one that may be run as long as nothing is published.
LEMMA BatchKept ==
  ASSUME \A b \in Artifacts : Is(b, "PUBLISHED")' => Is(b, "PUBLISHED")
  PROVE  /\ \A t : Batched(t) => Batched(t)'
         /\ \A a, t : Closing(a, t) => Closing(a, t)'
<1>1. Runnable \subseteq Runnable'
  BY DEF Runnable, Plan
<1> QED
  BY <1>1 DEF Batched, Closing

\* The status of the row is written.
LEMMA PutOrderly == ASSUME IInv, Orderly, DoPut PROVE Orderly'
<1>1. /\ job.todo # <<>> /\ Op.do = "put" /\ TypeOK
      /\ UNCHANGED <<qa, plans, crashed>>
  BY DEF DoPut, Doing, ArtOnly, IInv
<1>2. PICK a \in Artifacts, w \in Writes, r \in Seq(Writes) :
        a = A /\ w = Op /\ r = Tail(job.todo) /\ Coming(a, w, r)
  BY <1>1, AtHand
<1> DEFINE d == IF w.diag = None THEN art[a].diag ELSE w.diag
           own == IF w.status = "PUBLISHED" THEN w.row ELSE art[a].row
           row == [art[a] EXCEPT !.status = w.status, !.retry = w.retry,
                                 !.diag = d, !.row = own]
<1>3. art' = [art EXCEPT ![a] = row] /\ job' = JobOf(job.by, a, r)
  BY <1>2 DEF DoPut, Row1, Onward, Go
<1>4. row.status = w.status /\ row.retry = w.retry /\ row.diag = d
  <2>1. art[a] \in AnyRow
    BY <1>1, RowTypes DEF TypeOK
  <2> HIDE DEF d, own
  <2> QED
    BY <2>1 DEF AnyRow
<1> HIDE DEF row
<1>5. /\ art'[a] = row
      /\ \A b \in Artifacts \ {a} : art'[b] = art[b]
  BY <1>1, <1>3 DEF TypeOK
<1>6. /\ Settled(a)' <=> w.status = "PUBLISHED" \/ d = "exhausted"
      /\ \A s : Is(a, s)' <=> w.status = s
  BY <1>4, <1>5 DEF Settled, Is
<1>7. job.todo[1].do # "file"
  BY <1>1 DEF Op
<1>8. ~ Settled(a) /\ art[a].diag # "exhausted"
  BY <1>1, <1>2, WriteNames DEF Coming, Settled
<1>9. CASE w \in Plain(a) /\ r \in Seq(Plain(a))
  <2>1. /\ w.status \notin {"NEEDS_REPAIR", "QA_PASSED", "PUBLISHED"} /\ w.diag # "exhausted"
    BY <1>1, <1>2, <1>9 DEF Plain
  <2>2. ~ Settled(a)'
    BY <1>6, <1>8, <2>1
  <2>3. r = <<>> \/ Coming(a, r[1], Tail(r))'
    BY <1>9, <2>2, PlainComes
  <2> QED
    BY <1>1, <1>3, <1>4, <1>7, <1>8, <2>1, <2>3, RowOrderly
<1>10. CASE w = Put("NEEDS_REPAIR") /\ r = <<>> /\ Planned(a)
  <2>1. w.status = "NEEDS_REPAIR" /\ d # "exhausted"
    BY <1>8, <1>10, WriteNames
  <2> QED
    BY <1>1, <1>3, <1>4, <1>7, <1>10, <2>1, RowOrderly
<1>11. CASE w = Put("NEEDS_REPAIR") /\ r = <<File("EXTRACT_FAILED", a)>>
  <2>1. w.status = "NEEDS_REPAIR" /\ d # "exhausted"
    BY <1>8, <1>11, WriteNames
  <2>2. r \in Seq(Plain(a))
    BY <1>11, PlainWrites, ShortSequences DEF PlanKinds
  <2>3. ~ Settled(a)'
    BY <1>6, <2>1
  <2>4. r = <<>> \/ Coming(a, r[1], Tail(r))'
    BY <2>2, <2>3, PlainComes
  <2> QED
    BY <1>1, <1>3, <1>4, <1>7, <1>11, <2>1, <2>4, RowOrderly
<1>12. CASE w = Put("QA_PASSED") /\ r = <<>> /\ qa[a] = "passed"
  <2>1. w.status = "QA_PASSED" /\ d # "exhausted"
    BY <1>8, <1>12, WriteNames
  <2> QED
    BY <1>1, <1>3, <1>4, <1>7, <1>12, <2>1, RowOrderly
<1>13. CASE w = Hold("exhausted") /\ r = <<>>
  <2>1. w.status = "NEEDS_REVIEW" /\ ~ w.retry
    BY <1>13, WriteNames
  <2> QED
    BY <1>1, <1>3, <1>4, <1>7, <1>13, <2>1, RowOrderly
<1>14. CASE (\E s \in Slugs : w = Mark(s)) /\ r \in {<<>>, <<Refund>>}
  <2>1. w.status = "PUBLISHED" /\ d # "exhausted"
    BY <1>8, <1>14, WriteNames
  <2>2. r = <<>> \/ Coming(a, r[1], Tail(r))'
    BY <1>14, FirstAndRest DEF Coming
  <2> QED
    BY <1>1, <1>3, <1>4, <1>7, <2>1, <2>2, RowOrderly
<1>15. CASE w = Reset /\ Closing(a, r)
  <2>1. w.status = "BUILD_READY" /\ d # "exhausted"
    BY <1>8, <1>15, WriteNames
  <2>2. Closing(a, r)' /\ ~ Is(a, "NEEDS_REPAIR")'
    <3>1. \A b \in Artifacts : Is(b, "PUBLISHED")' => Is(b, "PUBLISHED")
      BY <1>4, <1>5, <2>1 DEF Is
    <3> QED
      BY <1>6, <1>15, <2>1, <3>1, BatchKept
  <2>3. Coming(a, r[1], Tail(r))'
    BY <2>2, ClosingComes
  <2> QED
    BY <1>1, <1>3, <1>4, <1>7, <2>1, <2>3, RowOrderly
<1> QED
  BY <1>1, <1>2, <1>9, <1>10, <1>11, <1>12, <1>13, <1>14, <1>15, WriteNames DEF Coming

\* The diagnosis of the gate is written.
LEMMA DiagnoseOrderly == ASSUME IInv, Orderly, DoDiagnose PROVE Orderly'
<1>1. /\ job.todo # <<>> /\ Op.do = "diagnose" /\ TypeOK
      /\ UNCHANGED <<qa, plans, crashed>>
  BY DEF DoDiagnose, Doing, ArtOnly, IInv
<1>2. PICK a \in Artifacts, w \in Writes, r \in Seq(Writes) :
        a = A /\ w = Op /\ r = Tail(job.todo) /\ Coming(a, w, r)
  BY <1>1, AtHand
<1>3. /\ ~ Settled(a)
      /\ \/ r \in Seq(Plain(a))
         \/ \E k \in PlanKinds : r = <<File(k, a), Put("NEEDS_REPAIR")>>
  BY <1>1, <1>2, WriteNames DEF Coming
<1> DEFINE row == [art[a] EXCEPT !.diag = "open"]
<1>4. art' = [art EXCEPT ![a] = row] /\ job' = JobOf(job.by, a, r)
  BY <1>2 DEF DoDiagnose, Row1, Onward, Go
<1>5. row.status = art[a].status /\ row.diag = "open"
  <2>1. art[a] \in AnyRow
    BY <1>1, RowTypes DEF TypeOK
  <2> QED
    BY <2>1 DEF AnyRow
<1> HIDE DEF row
<1>6. ~ Settled(a)'
  BY <1>1, <1>3, <1>4, <1>5 DEF TypeOK, Settled, Is
<1>7. r = <<>> \/ Coming(a, r[1], Tail(r))'
  <2>1. CASE r \in Seq(Plain(a))
    BY <1>6, <2>1, PlainComes
  <2>2. CASE \E k \in PlanKinds : r = <<File(k, a), Put("NEEDS_REPAIR")>>
    BY <1>6, <2>2, FirstAndRest DEF Coming
  <2> QED
    BY <1>3, <2>1, <2>2
<1>8. job.todo[1].do # "file"
  BY <1>1 DEF Op
<1>9. /\ row.status = "QA_PASSED" => qa[a] = "passed"
      /\ row.status = "NEEDS_REPAIR" => Planned(a) \/ crashed
  BY <1>5, <1>8, NothingOwed DEF Orderly, Sound, Mended, Is
<1> QED
  BY <1>1, <1>4, <1>5, <1>7, <1>8, <1>9, RowOrderly

\* A hold that is due goes back.
LEMMA RecheckOrderly == ASSUME IInv, Orderly, DoRecheck PROVE Orderly'
<1>1. /\ job.todo # <<>> /\ Op.do = "recheck" /\ TypeOK
      /\ UNCHANGED <<qa, plans, crashed>>
  BY DEF DoRecheck, Doing, ArtOnly, IInv
<1>2. PICK a \in Artifacts, w \in Writes, r \in Seq(Writes) :
        a = A /\ w = Op /\ r = Tail(job.todo) /\ Coming(a, w, r)
  BY <1>1, AtHand
<1>3. ~ Settled(a) /\ r \in Seq(Plain(a)) /\ job' = JobOf(job.by, a, r)
  BY <1>1, <1>2, WriteNames DEF Coming, DoRecheck, Onward, Go
<1>4. job.todo[1].do # "file"
  BY <1>1 DEF Op
<1>5. CASE Row1(Moved(art[A], "BUILD_READY", "open"))
  <2> DEFINE row == Moved(art[a], "BUILD_READY", "open")
  <2>1. row.status = "BUILD_READY" /\ row.diag = "open"
    <3>1. art[a] \in AnyRow
      BY <1>1, RowTypes DEF TypeOK
    <3> QED
      BY <3>1 DEF Moved, AnyRow
  <2>2. art' = [art EXCEPT ![a] = row]
    BY <1>2, <1>5 DEF Row1
  <2> HIDE DEF row
  <2>3. ~ Settled(a)'
    BY <1>1, <2>1, <2>2 DEF TypeOK, Settled, Is
  <2>4. r = <<>> \/ Coming(a, r[1], Tail(r))'
    BY <1>3, <2>3, PlainComes
  <2> QED
    BY <1>1, <1>3, <1>4, <2>1, <2>2, <2>4, RowOrderly
<1>6. CASE UNCHANGED art
  <2>1. ~ Settled(a)'
    BY <1>3, <1>6 DEF Settled, Is
  <2>2. r = <<>> \/ Coming(a, r[1], Tail(r))'
    BY <1>3, <2>1, PlainComes
  <2>3. /\ \A p \in plans' : Filed(p)
        /\ \A b \in Artifacts : Is(b, "QA_PASSED") => qa'[b] = "passed"
    BY <1>1 DEF Orderly, Sound
  <2> QED
    BY <1>1, <1>3, <1>4, <1>6, <2>2, <2>3, NothingOwed, QuietOrderly
<1> QED
  BY <1>5, <1>6 DEF DoRecheck

\* A stuck artifact is given up.
LEMMA ShutOrderly == ASSUME IInv, Orderly, DoShut PROVE Orderly'
<1>1. /\ job.todo # <<>> /\ Op.do = "shut" /\ TypeOK
      /\ UNCHANGED <<qa, plans, crashed>>
  BY DEF DoShut, Doing, ArtOnly, IInv
<1>2. PICK a \in Artifacts, w \in Writes, r \in Seq(Writes) :
        a = A /\ w = Op /\ r = Tail(job.todo) /\ Coming(a, w, r)
  BY <1>1, AtHand
<1>3. w.do = "shut" /\ w \notin Plain(a)
  BY <1>1, <1>2 DEF Plain
<1>4. Closing(a, r) /\ job' = JobOf(job.by, a, r)
  BY <1>2, <1>3, WriteNames DEF Coming, DoShut, Onward, Go
<1>5. job.todo[1].do # "file"
  BY <1>1 DEF Op
<1>6. CASE /\ art[A].status \in {"EXTRACTED", "NEEDS_REPAIR"}
           /\ Row1(Moved(art[A], "REJECTED", art[A].diag))
  <2> DEFINE row == Moved(art[a], "REJECTED", art[a].diag)
  <2>1. row.status = "REJECTED" /\ row.diag = art[a].diag
    <3>1. art[a] \in AnyRow
      BY <1>1, RowTypes DEF TypeOK
    <3> QED
      BY <3>1 DEF Moved, AnyRow
  <2>2. art' = [art EXCEPT ![a] = row]
    BY <1>2, <1>6 DEF Row1
  <2> HIDE DEF row
  <2>3. art[a].diag # "exhausted"
    BY <1>2, <1>6 DEF Orderly, Sound, Is
  <2>4. /\ \A b \in Artifacts : Is(b, "PUBLISHED")' => Is(b, "PUBLISHED")
        /\ ~ Is(a, "NEEDS_REPAIR")'
    BY <1>1, <2>1, <2>2 DEF TypeOK, Is
  <2>5. Closing(a, r)'
    BY <1>4, <2>4, BatchKept
  <2>6. Coming(a, r[1], Tail(r))'
    BY <2>4, <2>5, ClosingComes
  <2> QED
    BY <1>1, <1>4, <1>5, <2>1, <2>2, <2>3, <2>6, RowOrderly
<1>7. CASE UNCHANGED art /\ art[A].status \notin {"EXTRACTED", "NEEDS_REPAIR"}
  <2>1. /\ \A b \in Artifacts : Is(b, "PUBLISHED")' => Is(b, "PUBLISHED")
        /\ ~ Is(a, "NEEDS_REPAIR")'
    BY <1>2, <1>7 DEF Is
  <2>2. Closing(a, r)'
    BY <1>4, <2>1, BatchKept
  <2>3. Coming(a, r[1], Tail(r))'
    BY <2>1, <2>2, ClosingComes
  <2>4. /\ \A p \in plans' : Filed(p)
        /\ \A b \in Artifacts : Is(b, "QA_PASSED") => qa'[b] = "passed"
    BY <1>1 DEF Orderly, Sound
  <2> QED
    BY <1>1, <1>4, <1>5, <1>7, <2>3, <2>4, NothingOwed, QuietOrderly
<1> QED
  BY <1>6, <1>7 DEF DoShut

\* A stored page is extracted again.
LEMMA HealOrderly == ASSUME IInv, Orderly, DoHeal PROVE Orderly'
<1>1. /\ job.todo # <<>> /\ Op.do = "heal" /\ TypeOK
      /\ UNCHANGED <<qa, plans, crashed>>
  BY DEF DoHeal, Doing, IInv
<1>2. PICK a \in Artifacts, w \in Writes, r \in Seq(Writes) :
        a = A /\ w = Op /\ r = Tail(job.todo) /\ Coming(a, w, r)
  BY <1>1, AtHand
<1>3. w.do = "heal" /\ w \notin Plain(a)
  BY <1>1, <1>2 DEF Plain
<1>4. Closing(a, r)
  BY <1>2, <1>3, WriteNames DEF Coming
<1>5. job.todo[1].do # "file"
  BY <1>1 DEF Op
<1>6. CASE /\ Row1([Moved(art[A], "CHECKLIST_READY", "open") EXCEPT !.gap = Op.gap])
           /\ Go(<<Forget>> \o Tail(job.todo))
  <2> DEFINE row == [Moved(art[a], "CHECKLIST_READY", "open") EXCEPT !.gap = w.gap]
  <2>1. row.status = "CHECKLIST_READY" /\ row.diag = "open"
    <3>1. art[a] \in AnyRow
      BY <1>1, RowTypes DEF TypeOK
    <3> QED
      BY <3>1 DEF Moved, AnyRow
  <2>2. art' = [art EXCEPT ![a] = row]
    BY <1>2, <1>6 DEF Row1
  <2> HIDE DEF row
  <2>3. /\ \A b \in Artifacts : Is(b, "PUBLISHED")' => Is(b, "PUBLISHED")
        /\ ~ Is(a, "NEEDS_REPAIR")' /\ ~ Is(a, "QA_PASSED")'
    BY <1>1, <2>1, <2>2 DEF TypeOK, Is
  <2>4. Closing(a, r)'
    BY <1>4, <2>3, BatchKept
  <2>5. PICK t : t = <<Forget>> \o r
    OBVIOUS
  <2>6. t # <<>> /\ t[1] = Forget /\ Tail(t) = r
    BY <2>5
  <2>7. Coming(a, t[1], Tail(t))'
    BY <2>3, <2>4, <2>6 DEF Coming
  <2>8. job' = JobOf(job.by, a, t)
    BY <1>2, <1>6, <2>5 DEF Go
  <2> QED
    BY <1>1, <1>5, <2>1, <2>2, <2>7, <2>8, RowOrderly
<1>7. CASE /\ UNCHANGED art /\ Onward
           /\ art[A].status \notin {"EXTRACTED", "NEEDS_REPAIR", "REJECTED"}
  <2>1. /\ \A b \in Artifacts : Is(b, "PUBLISHED")' => Is(b, "PUBLISHED")
        /\ ~ Is(a, "NEEDS_REPAIR")'
    BY <1>2, <1>7 DEF Is
  <2>2. Closing(a, r)'
    BY <1>4, <2>1, BatchKept
  <2>3. Coming(a, r[1], Tail(r))' /\ job' = JobOf(job.by, a, r)
    BY <1>2, <1>7, <2>1, <2>2, ClosingComes DEF Onward, Go
  <2>4. /\ \A p \in plans' : Filed(p)
        /\ \A b \in Artifacts : Is(b, "QA_PASSED") => qa'[b] = "passed"
    BY <1>1 DEF Orderly, Sound
  <2> QED
    BY <1>1, <1>5, <1>7, <2>3, <2>4, NothingOwed, QuietOrderly
<1> QED
  BY <1>6, <1>7 DEF DoHeal

\* An artifact that no write touches, with its verdict, keeps what the invariant
\* says of the plans and the verdicts.
LEMMA SoundPlans ==
  ASSUME Orderly, UNCHANGED <<qa, plans>>
  PROVE  /\ \A p \in plans' : Filed(p)
         /\ \A b \in Artifacts : Is(b, "QA_PASSED") => qa'[b] = "passed"
BY DEF Orderly, Sound

\* The evidence is recorded, or judged as stored.
LEMMA VerifyOrderly == ASSUME IInv, Orderly, DoVerify PROVE Orderly'
<1>1. /\ job.todo # <<>> /\ Op.do = "verify"
      /\ UNCHANGED <<art, qa, plans, crashed>>
  BY DEF DoVerify, Doing
<1>2. PICK a \in Artifacts, w \in Writes, r \in Seq(Writes) :
        a = A /\ w = Op /\ r = Tail(job.todo) /\ Coming(a, w, r)
  BY <1>1, AtHand
<1>3. ~ Settled(a)'
  BY <1>1, <1>2, WriteNames DEF Coming, Settled, Is
<1>4. PICK t \in {<<Put("VERIFICATION_READY")>>, <<Hold("exhausted")>>,
                  <<File("VALIDATION_EVIDENCE_MISSING", a), Put("NEEDS_REPAIR")>>} :
        job' = JobOf(job.by, a, t)
  <2>1. \/ Go(<<Put("VERIFICATION_READY")>>) \/ Go(<<Hold("exhausted")>>)
        \/ Go(<<File("VALIDATION_EVIDENCE_MISSING", A), Put("NEEDS_REPAIR")>>)
    BY Zenon DEF DoVerify
  <2> QED
    BY <1>2, <2>1 DEF Go
<1>5. t = <<>> \/ Coming(a, t[1], Tail(t))'
  <2>1. CASE t = <<Put("VERIFICATION_READY")>>
    <3>1. t \in Seq(Plain(a))
      BY <2>1, PlainWrites, ShortSequences DEF Statuses
    <3> QED
      BY <1>3, <3>1, PlainComes
  <2>2. CASE t = <<Hold("exhausted")>>
    BY <1>3, <2>2, FirstAndRest DEF Coming
  <2>3. CASE t = <<File("VALIDATION_EVIDENCE_MISSING", a), Put("NEEDS_REPAIR")>>
    BY <1>3, <2>3, FirstAndRest DEF Coming, PlanKinds
  <2> QED
    BY <2>1, <2>2, <2>3
<1>6. job.todo[1].do # "file"
  BY <1>1 DEF Op
<1> QED
  BY <1>1, <1>4, <1>5, <1>6, SoundPlans, NothingOwed, QuietOrderly

\* A plan is filed, or an open one is kept.
LEMMA FileOrderly == ASSUME IInv, Orderly, DoFile PROVE Orderly'
<1>1. /\ job.todo # <<>> /\ Op.do = "file"
      /\ UNCHANGED <<art, qa, crashed>>
  BY DEF DoFile, Doing
<1>2. PICK a \in Artifacts, w \in Writes, r \in Seq(Writes) :
        a = A /\ w = Op /\ r = Tail(job.todo) /\ Coming(a, w, r)
  BY <1>1, AtHand
<1>3. a # Host
  BY FunnelAssumption DEF FunnelAssumption
<1>4. /\ ~ Settled(a) /\ Filed(w.plan) /\ w.plan.of = a
      /\ \/ r \in Seq(Plain(a))
         \/ (\E k \in PlanKinds : w = File(k, a)) /\ r = <<Put("NEEDS_REPAIR")>>
  <2>1. CASE w \in Plain(a) /\ r \in Seq(Plain(a)) /\ ~ Settled(a)
    BY <1>1, <1>2, <2>1 DEF Plain
  <2>2. CASE (\E k \in PlanKinds : w = File(k, a)) /\ r = <<Put("NEEDS_REPAIR")>> /\ ~ Settled(a)
    BY <1>3, <2>2, WriteNames DEF Filed
  <2> QED
    BY <1>1, <1>2, <2>1, <2>2, WriteNames DEF Coming
<1>5. /\ plans \subseteq plans' /\ plans' \subseteq plans \cup {w.plan}
      /\ w.plan \in plans' \/ \E q \in plans : q.kind = w.plan.kind /\ q.key = w.plan.key
  BY <1>2 DEF DoFile
<1>6. \A p \in plans' : Filed(p)
  BY <1>4, <1>5 DEF Orderly, Sound
<1>7. ASSUME NEW k, w = File(k, a) PROVE Planned(a)'
  <2>1. w.plan.key = a
    BY <1>7, WriteNames
  <2>2. CASE w.plan \in plans'
    BY <1>4, <2>2 DEF Planned
  <2>3. CASE \E q \in plans : q.key = w.plan.key
    BY <1>3, <1>5, <2>1, <2>3 DEF Planned, Orderly, Sound, Filed
  <2> QED
    BY <1>5, <2>2, <2>3
<1>8. ~ Settled(a)'
  BY <1>1, <1>4 DEF Settled, Is
<1>9. r = <<>> \/ Coming(a, r[1], Tail(r))'
  <2>1. CASE r \in Seq(Plain(a))
    BY <1>8, <2>1, PlainComes
  <2>2. CASE (\E k \in PlanKinds : w = File(k, a)) /\ r = <<Put("NEEDS_REPAIR")>>
    <3>1. Planned(a)'
      BY <1>7, <2>2
    <3>2. r[1] = Put("NEEDS_REPAIR") /\ Tail(r) = <<>>
      BY <2>2, FirstAndRest
    <3> QED
      BY <1>8, <3>1, <3>2 DEF Coming
  <2> QED
    BY <1>4, <2>1, <2>2
<1>10. ASSUME NEW b \in Artifacts, Owed(b) PROVE Planned(b)'
  <2>1. w = File("EXTRACT_FAILED", b) /\ b = a
    BY <1>2, <1>10, FirstAndRest DEF Owed, Op, A
  <2> QED
    BY <1>7, <2>1
<1>11. job' = JobOf(job.by, a, r)
  BY <1>2 DEF DoFile, Onward, Go
<1>12. \A b \in Artifacts : Is(b, "QA_PASSED") => qa'[b] = "passed"
  BY <1>1 DEF Orderly, Sound
<1> QED
  BY <1>1, <1>5, <1>6, <1>9, <1>10, <1>11, <1>12, QuietOrderly

\* The retry budget is counted.
LEMMA BudgetOrderly == ASSUME IInv, Orderly, DoBudget PROVE Orderly'
<1>1. /\ job.todo # <<>> /\ Op.do \in {"spend", "refund"}
      /\ UNCHANGED <<art, qa, plans, crashed>>
  BY DEF DoBudget, Doing
<1>2. PICK a \in Artifacts, w \in Writes, r \in Seq(Writes) :
        a = A /\ w = Op /\ r = Tail(job.todo) /\ Coming(a, w, r)
  BY <1>1, AtHand
<1>3. \/ r = <<>>
      \/ ~ Settled(a) /\ r \in Seq(Plain(a))
      \/ ~ Settled(a) /\ \E k \in PlanKinds : r = <<File(k, a), Put("NEEDS_REPAIR")>>
  BY <1>1, <1>2, WriteNames DEF Coming
<1>4. r = <<>> \/ Coming(a, r[1], Tail(r))'
  <2>1. CASE ~ Settled(a) /\ r \in Seq(Plain(a))
    BY <1>1, <2>1, PlainComes DEF Settled, Is
  <2>2. CASE ~ Settled(a) /\ \E k \in PlanKinds : r = <<File(k, a), Put("NEEDS_REPAIR")>>
    <3>1. ~ Settled(a)'
      BY <1>1, <2>2 DEF Settled, Is
    <3> QED
      BY <2>2, <3>1, FirstAndRest DEF Coming
  <2> QED
    BY <1>3, <2>1, <2>2
<1>5. job' = JobOf(job.by, a, r) /\ job.todo[1].do # "file"
  BY <1>1, <1>2 DEF DoBudget, Onward, Go, Op
<1> QED
  BY <1>1, <1>4, <1>5, SoundPlans, NothingOwed, QuietOrderly

\* The verdict of strict QA is written.
LEMMA ScoreOrderly == ASSUME IInv, Orderly, DoScore PROVE Orderly'
<1>1. /\ job.todo # <<>> /\ Op.do = "score" /\ TypeOK
      /\ UNCHANGED <<art, plans, crashed>>
  BY DEF DoScore, Doing, IInv
<1>2. PICK a \in Artifacts, w \in Writes, r \in Seq(Writes) :
        a = A /\ w = Op /\ r = Tail(job.todo) /\ Coming(a, w, r)
  BY <1>1, AtHand
<1>3. /\ ~ Settled(a) /\ ~ Is(a, "QA_PASSED")
      /\ \/ w = Score("passed") /\ r = <<Put("QA_PASSED")>>
         \/ r \in Seq(Plain(a))
  <2>1. w \notin Plain(a)
    BY <1>1, <1>2 DEF Plain
  <2> QED
    BY <1>1, <1>2, <2>1, WriteNames DEF Coming
<1>4. \A b \in Artifacts : qa'[b] = IF b = a THEN w.verdict ELSE qa[b]
  BY <1>1, <1>2 DEF TypeOK, DoScore
<1>5. ~ Settled(a)'
  BY <1>1, <1>3 DEF Settled, Is
<1>6. r = <<>> \/ Coming(a, r[1], Tail(r))'
  <2>1. CASE w = Score("passed") /\ r = <<Put("QA_PASSED")>>
    <3>1. qa'[a] = "passed" /\ r[1] = Put("QA_PASSED") /\ Tail(r) = <<>>
      BY <1>4, <2>1, WriteNames, FirstAndRest
    <3> QED
      BY <1>5, <3>1 DEF Coming
  <2>2. CASE r \in Seq(Plain(a))
    BY <1>5, <2>2, PlainComes
  <2> QED
    BY <1>3, <2>1, <2>2
<1>7. job' = JobOf(job.by, a, r) /\ job.todo[1].do # "file"
  BY <1>1, <1>2 DEF DoScore, Onward, Go, Op
<1>8. /\ \A p \in plans' : Filed(p)
      /\ \A b \in Artifacts : Is(b, "QA_PASSED") => qa'[b] = "passed"
  BY <1>1, <1>3, <1>4 DEF Orderly, Sound
<1> QED
  BY <1>1, <1>6, <1>7, <1>8, NothingOwed, QuietOrderly

\* A page is made public; the mark follows.
LEMMA ReleaseOrderly == ASSUME IInv, Orderly, DoRelease PROVE Orderly'
<1>1. /\ job.todo # <<>> /\ Op.do = "release"
      /\ UNCHANGED <<art, qa, plans, crashed>>
  BY DEF DoRelease, Doing
<1>2. PICK a \in Artifacts, w \in Writes, r \in Seq(Writes) :
        a = A /\ w = Op /\ r = Tail(job.todo) /\ Coming(a, w, r)
  BY <1>1, AtHand
<1>3. ~ Settled(a)'
  BY <1>1, <1>2, WriteNames DEF Coming, Settled, Is
<1>3a. SlugOf[a] \in Slugs
  BY FunnelAssumption DEF FunnelAssumption
<1>4. PICK s \in Slugs : \/ job' = JobOf(job.by, a, <<Mark(s)>>)
                      \/ job' = JobOf(job.by, a, <<Mark(s), Refund>>)
  BY <1>2, <1>3a DEF DoRelease, Go
<1>4a. PICK t \in {<<Mark(s)>>, <<Mark(s), Refund>>} : job' = JobOf(job.by, a, t)
  BY <1>4
<1>5. t[1] = Mark(s) /\ Tail(t) \in {<<>>, <<Refund>>}
  BY FirstAndRest
<1>6. Coming(a, t[1], Tail(t))'
  BY <1>3, <1>5 DEF Coming
<1>7. job.todo[1].do # "file"
  BY <1>1 DEF Op
<1> QED
  BY <1>1, <1>4a, <1>6, <1>7, SoundPlans, NothingOwed, QuietOrderly

\* The evidence is dropped.
LEMMA DropOrderly == ASSUME IInv, Orderly, DoDrop PROVE Orderly'
<1>1. /\ job.todo # <<>> /\ Op.do = "drop"
      /\ UNCHANGED <<art, qa, plans, crashed>>
  BY DEF DoDrop, Doing, Without
<1>2. PICK a \in Artifacts, w \in Writes, r \in Seq(Writes) :
        a = A /\ w = Op /\ r = Tail(job.todo) /\ Coming(a, w, r)
  BY <1>1, AtHand
<1>3. \/ ~ Settled(a) /\ r \in Seq(Plain(a))
      \/ ~ Settled(a) /\ r # <<>> /\ r[1] = Reset /\ Closing(a, Tail(r))
      \/ ~ Is(a, "NEEDS_REPAIR") /\ Closing(a, r)
  BY <1>1, <1>2, WriteNames DEF Coming
<1>4. r = <<>> \/ Coming(a, r[1], Tail(r))
  <2>1. CASE ~ Settled(a) /\ r \in Seq(Plain(a))
    BY <2>1, PlainList DEF Coming
  <2>2. CASE ~ Settled(a) /\ r # <<>> /\ r[1] = Reset /\ Closing(a, Tail(r))
    BY <2>2 DEF Coming
  <2>3. CASE ~ Is(a, "NEEDS_REPAIR") /\ Closing(a, r)
    BY <2>3 DEF Coming, Closing
  <2> QED
    BY <1>3, <2>1, <2>2, <2>3
<1>5. r = <<>> \/ Coming(a, r[1], Tail(r))'
  BY <1>1, <1>4, StillComing
<1>6. job' = JobOf(job.by, a, r) /\ job.todo[1].do # "file"
  BY <1>1, <1>2 DEF DoDrop, Without, Onward, Go, Op
<1> QED
  BY <1>1, <1>5, <1>6, SoundPlans, NothingOwed, QuietOrderly

\* The judgements of fields that were replaced are dropped.
LEMMA ForgetOrderly == ASSUME IInv, Orderly, DoForget PROVE Orderly'
<1>1. /\ job.todo # <<>> /\ Op.do = "forget" /\ TypeOK
      /\ UNCHANGED <<art, plans, crashed>>
  BY DEF DoForget, Doing, Without, IInv
<1>2. PICK a \in Artifacts, w \in Writes, r \in Seq(Writes) :
        a = A /\ w = Op /\ r = Tail(job.todo) /\ Coming(a, w, r)
  BY <1>1, AtHand
<1>3. ~ Is(a, "QA_PASSED") /\ (r = <<>> \/ (~ Is(a, "NEEDS_REPAIR") /\ Closing(a, r)))
  <2>1. w \notin Plain(a)
    BY <1>1, <1>2 DEF Plain
  <2> QED
    BY <1>1, <1>2, <2>1, WriteNames DEF Coming
<1>4. \A b \in Artifacts : b # a => qa'[b] = qa[b]
  BY <1>1, <1>2 DEF TypeOK, DoForget, Without
<1>5. r = <<>> \/ Coming(a, r[1], Tail(r))'
  <2>1. \A b \in Artifacts : Is(b, "PUBLISHED")' => Is(b, "PUBLISHED")
    BY <1>1 DEF Is
  <2>2. CASE ~ Is(a, "NEEDS_REPAIR") /\ Closing(a, r)
    <3>1. ~ Is(a, "NEEDS_REPAIR")' /\ Closing(a, r)'
      BY <1>1, <2>1, <2>2, BatchKept DEF Is
    <3> QED
      BY <3>1, ClosingComes
  <2> QED
    BY <1>3, <2>2
<1>6. job' = JobOf(job.by, a, r) /\ job.todo[1].do # "file"
  BY <1>1, <1>2 DEF DoForget, Without, Onward, Go, Op
<1>7. /\ \A p \in plans' : Filed(p)
      /\ \A b \in Artifacts : Is(b, "QA_PASSED") => qa'[b] = "passed"
  BY <1>1, <1>3, <1>4 DEF Orderly, Sound
<1> QED
  BY <1>1, <1>5, <1>6, <1>7, NothingOwed, QuietOrderly

\* A plan is closed: its artifact no longer waits for repair.
LEMMA CloseOrderly == ASSUME IInv, Orderly, DoClose PROVE Orderly'
<1>1. /\ job.todo # <<>> /\ Op.do = "close"
      /\ UNCHANGED <<art, qa, crashed>>
  BY DEF DoClose, Doing
<1>2. PICK a \in Artifacts, w \in Writes, r \in Seq(Writes) :
        a = A /\ w = Op /\ r = Tail(job.todo) /\ Coming(a, w, r)
  BY <1>1, AtHand
<1>3. w.plan.of = a /\ ~ Is(a, "NEEDS_REPAIR") /\ Batched(r)
  <2>1. w \notin Plain(a)
    BY <1>1, <1>2 DEF Plain
  <2> QED
    BY <1>1, <1>2, <2>1, WriteNames DEF Coming
<1>4. plans' = plans \ {w.plan} /\ job' = JobOf(job.by, a, r)
  BY <1>2 DEF DoClose, Onward, Go
<1>5. r = <<>> \/ Coming(a, r[1], Tail(r))'
  <2>1. Batched(r)'
    BY <1>1, <1>3, BatchKept DEF Is
  <2> QED
    BY <2>1, BatchComes
<1>6. Suits'
  BY <1>4, <1>5, JobSuits
<1>7. Sound'
  BY <1>1, <1>4 DEF Orderly, Sound, Is
<1>8. Mended'
  <2>1. \A b : ~ Owed(b)
    BY <1>1, NothingOwed DEF Op
  <2>2. \A b \in Artifacts : Is(b, "NEEDS_REPAIR") /\ Planned(b) => Planned(b)'
    BY <1>3, <1>4 DEF Planned
  <2> QED
    BY <1>1, <2>1, <2>2 DEF Orderly, Mended, Is
<1> QED
  BY <1>6, <1>7, <1>8 DEF Orderly

\* One element before a list.
LEMMA Before ==
  ASSUME NEW S, NEW x \in S, NEW t \in Seq(S)
  PROVE  /\ <<x>> \o t \in Seq(S) /\ <<x>> \o t # <<>>
         /\ (<<x>> \o t)[1] = x /\ Tail(<<x>> \o t) = t
<1>1. <<x>> \in Seq(S) /\ Len(<<x>>) = 1 /\ <<x>>[1] = x
  OBVIOUS
<1>2. <<x>> \o t \in Seq(S)
  BY <1>1, ConcatProperties
<1>3. <<x>> \o t # <<>> /\ (<<x>> \o t)[1] = x /\ Tail(<<x>> \o t) = t
  OBVIOUS
<1> QED
  BY <1>2, <1>3

\* What a repair does suits the artifact its plan is about.
LEMMA RemedySuits ==
  ASSUME Sound, NEW p \in Plan, NEW todo \in Remedies(p), NEW rest \in Seq(Writes),
         Batched(rest),
         p.kind = "VALIDATION_EVIDENCE_MISSING" => ~ Is(p.of, "PUBLISHED")
  PROVE  \E t : /\ t = todo \o rest /\ t # <<>>
                /\ Coming(p.of, t[1], Tail(t))
<1>1. p.of \in Artifacts
  BY DEF Plan
<1>2. /\ Close(p) \in Writes /\ DropEvidence \in Writes /\ Reset \in Writes
      /\ Shut \in Writes /\ \A g \in Gaps : Heal(g) \in Writes
  BY WriteTypes
<1>3. PICK z \in Writes : z = Close(p)
  BY <1>2
<1>4. PICK c : c = <<z>> \o rest
  OBVIOUS
<1>c. c # <<>> /\ c[1] = z /\ Tail(c) = rest
  BY <1>4, Before
<1>b. z.do = "close" /\ z.plan = p
  BY <1>3, WriteNames
<1>d. Closing(p.of, c)
  BY <1>b, <1>c DEF Closing
<1>5. CASE todo = <<z>> /\ ~ Is(p.of, "NEEDS_REPAIR")
  <2>1. Coming(p.of, z, rest)
    BY <1>5, <1>b DEF Coming
  <2> QED
    BY <1>4, <1>5, <1>c, <2>1
<1>6. CASE todo = <<DropEvidence, z>> /\ ~ Is(p.of, "NEEDS_REPAIR")
  <2>1. PICK t : t = <<DropEvidence, z>> \o rest
    OBVIOUS
  <2>2. t # <<>> /\ t[1] = DropEvidence /\ Tail(t) = c
    <3>1. Tail(<<DropEvidence, z>> \o rest) = <<z>> \o rest
      BY <1>2
    <3> QED
      BY <1>2, <1>4, <2>1, <3>1
  <2>3. Coming(p.of, DropEvidence, c)
    BY <1>6, <1>d DEF Coming
  <2> QED
    BY <1>6, <2>1, <2>2, <2>3
<1>7. CASE todo = <<DropEvidence, Reset, z>> /\ ~ Settled(p.of)
  <2>1. PICK u : u = <<Reset, z>> \o rest
    OBVIOUS
  <2>2. u # <<>> /\ u[1] = Reset /\ Tail(u) = c
    <3>1. Tail(<<Reset, z>> \o rest) = <<z>> \o rest
      BY <1>2
    <3> QED
      BY <1>2, <1>4, <2>1, <3>1
  <2>3. PICK t : t = <<DropEvidence, Reset, z>> \o rest
    OBVIOUS
  <2>4. t # <<>> /\ t[1] = DropEvidence /\ Tail(t) = u
    <3>1. Tail(<<DropEvidence, Reset, z>> \o rest) = <<Reset, z>> \o rest
      BY <1>2
    <3> QED
      BY <1>2, <2>1, <2>3, <3>1
  <2>5. Coming(p.of, DropEvidence, u)
    BY <1>7, <1>d, <2>2 DEF Coming
  <2> QED
    BY <1>7, <2>3, <2>4, <2>5
<1>e. ASSUME NEW w \in Writes, w.do \in {"shut", "heal"}, todo = <<w, z>>
      PROVE  \E t : t = todo \o rest /\ t # <<>> /\ Coming(p.of, t[1], Tail(t))
  <2>1. PICK t : t = <<w, z>> \o rest
    OBVIOUS
  <2>2. t # <<>> /\ t[1] = w /\ Tail(t) = c
    <3>1. Tail(<<w, z>> \o rest) = <<z>> \o rest
      OBVIOUS
    <3> QED
      BY <1>4, <2>1, <3>1
  <2>3. Coming(p.of, w, c)
    BY <1>d, <1>e DEF Coming
  <2> QED
    BY <1>e, <2>1, <2>2, <2>3
<1>8. CASE p.kind = "VALIDATION_EVIDENCE_MISSING"
  <2>1. ~ Is(p.of, "PUBLISHED")
    BY <1>8
  <2>2. CASE Is(p.of, "NEEDS_REVIEW") /\ art[p.of].diag = "exhausted"
    <3>1. todo = <<z>> /\ ~ Is(p.of, "NEEDS_REPAIR")
      BY <1>3, <1>8, <2>2 DEF Remedies, Is
    <3> QED
      BY <1>5, <3>1
  <2>3. CASE Is(p.of, "BUILD_READY")
    <3>1. todo = <<DropEvidence, z>> /\ ~ Is(p.of, "NEEDS_REPAIR")
      BY <1>3, <1>8, <2>3 DEF Remedies, Is
    <3> QED
      BY <1>6, <3>1
  <2>4. CASE ~ (Is(p.of, "NEEDS_REVIEW") /\ art[p.of].diag = "exhausted")
             /\ ~ Is(p.of, "BUILD_READY")
    <3>1. todo = <<DropEvidence, Reset, z>>
      BY <1>3, <1>8, <2>4 DEF Remedies
    <3>2. ~ Settled(p.of)
      BY <1>1, <2>1, <2>4 DEF Settled, Sound
    <3> QED
      BY <1>7, <3>1, <3>2
  <2> QED
    BY <2>2, <2>3, <2>4
<1>9. CASE p.kind # "VALIDATION_EVIDENCE_MISSING"
  <2>1. todo = <<Shut, z>> \/ \E g \in Gaps : todo = <<Heal(g), z>>
    BY <1>3, <1>9 DEF Remedies, Gaps
  <2>2. CASE todo = <<Shut, z>>
    <3>1. Shut.do = "shut"
      BY WriteNames
    <3> QED
      BY <1>2, <1>e, <2>2, <3>1
  <2>3. ASSUME NEW g \in Gaps, todo = <<Heal(g), z>>
        PROVE  \E t : t = todo \o rest /\ t # <<>> /\ Coming(p.of, t[1], Tail(t))
    <3>1. PICK w \in Writes : w = Heal(g)
      BY <1>2
    <3>2. w.do = "heal"
      BY <3>1, WriteNames
    <3> QED
      BY <1>e, <2>3, <3>1, <3>2
  <2> QED
    BY <2>1, <2>2, <2>3
<1> QED
  BY <1>8, <1>9

\* The next plan of the batch is taken up.
LEMMA RepairsOrderly == ASSUME IInv, Orderly, DoRepairs PROVE Orderly'
<1>1. /\ job.todo # <<>> /\ Op.do = "repairs"
      /\ UNCHANGED <<art, qa, plans, crashed>>
  BY DEF DoRepairs, Doing, rows
<1>2. Op.plans \in Runnable
  <2>1. PICK w : w = Op
    OBVIOUS
  <2>2. Coming(job.art, w, Tail(job.todo))
    BY <1>1, <2>1 DEF Orderly, Suits, Op
  <2>3. \A a : w \notin Plain(a)
    BY <1>1, <2>1 DEF Plain
  <2> QED
    BY <1>1, <2>1, <2>2, <2>3, WriteNames DEF Coming
<1>3. PICK p \in Op.plans : \E todo \in Remedies(p) :
        job' = JobOf(job.by, p.of,
                     todo \o (IF Op.plans \ {p} = {} THEN <<>>
                              ELSE <<Repairs(Op.plans \ {p})>>))
  BY DEF DoRepairs
<1>4. PICK rest : rest = IF Op.plans \ {p} = {} THEN <<>> ELSE <<Repairs(Op.plans \ {p})>>
  OBVIOUS
<1>5. PICK todo \in Remedies(p) : job' = JobOf(job.by, p.of, todo \o rest)
  BY <1>3, <1>4
<1>6. /\ p \in Plan /\ Op.plans \ {p} \in Runnable
      /\ p.kind = "VALIDATION_EVIDENCE_MISSING" => ~ Is(p.of, "PUBLISHED")
  BY <1>2 DEF Runnable
<1>7. rest \in Seq(Writes) /\ Batched(rest)
  <2>1. CASE Op.plans \ {p} = {}
    BY <1>4, <2>1, ShortSequences DEF Batched
  <2>2. CASE Op.plans \ {p} # {}
    <3>1. Repairs(Op.plans \ {p}) \in Writes
      BY <1>6, WriteTypes DEF Runnable
    <3>2. rest = <<Repairs(Op.plans \ {p})>>
      BY <1>4, <2>2
    <3>3. rest[1] = Repairs(Op.plans \ {p}) /\ Tail(rest) = <<>>
      BY <3>2, FirstAndRest
    <3> QED
      BY <1>6, <3>1, <3>2, <3>3, ShortSequences, WriteNames DEF Batched
  <2> QED
    BY <2>1, <2>2
<1>8. PICK t : t = todo \o rest /\ t # <<>> /\ Coming(p.of, t[1], Tail(t))
  BY <1>6, <1>7, RemedySuits DEF Orderly
<1>9. Coming(p.of, t[1], Tail(t))'
  BY <1>1, <1>8, StillComing
<1> QED
  BY <1>1, <1>5, <1>8, <1>9, SoundPlans, NothingOwed, QuietOrderly DEF Op

\* Every write leaves the funnel in order.
LEMMA WriteOrderly == ASSUME IInv, Orderly, Write PROVE Orderly'
BY PutOrderly, DiagnoseOrderly, RecheckOrderly, ShutOrderly, HealOrderly, VerifyOrderly,
   FileOrderly, BudgetOrderly, ScoreOrderly, ReleaseOrderly, DropOrderly, ForgetOrderly,
   CloseOrderly, RepairsOrderly DEF Write

-----------------------------------------------------------------------------
(* What each handler leaves to write suits its artifact *)

\* An artifact neither public nor up for review is not settled.
LEMMA Unsettled ==
  ASSUME Orderly, NEW a \in Artifacts, art[a].status \notin {"PUBLISHED", "NEEDS_REVIEW"}
  PROVE  ~ Settled(a)
BY DEF Orderly, Sound, Settled, Is

\* A handler that has only read.
LEMMA ActOrderly ==
  ASSUME Orderly, NEW by, NEW a, NEW todo, Act(by, a, todo),
         todo = <<>> \/ Coming(a, todo[1], Tail(todo))
  PROVE  Orderly'
<1>1. /\ job.todo = <<>> /\ job' = JobOf(by, a, todo)
      /\ UNCHANGED <<art, qa, plans, crashed>>
  BY DEF Act, Start, MayStart, Busy, NoJob, rows
<1>2. todo = <<>> \/ Coming(a, todo[1], Tail(todo))'
  BY <1>1, StillComing
<1> QED
  BY <1>1, <1>2, SoundPlans, NothingOwed, QuietOrderly

\* Plain writes suit an artifact that is not settled.
LEMMA PlainSuits ==
  ASSUME NEW a, NEW t \in Seq(Plain(a)), ~ Settled(a)
  PROVE  t = <<>> \/ Coming(a, t[1], Tail(t))
BY PlainList DEF Coming

\* So does what follows strict QA.
LEMMA PublishSuits ==
  ASSUME NEW a \in Artifacts, ~ Settled(a), NEW todo \in Routes(a)
  PROVE  Coming(a, todo[1], Tail(todo))
<1>1. CASE todo \in Refusals \cup {<<Spend, Put("NEEDS_REVIEW")>>}
  <2>1. {Put("REJECTED"), Put("NEEDS_REVIEW"), Hold("hold"), Retry, Spend} \subseteq Plain(a)
    BY PlainWrites DEF Statuses, Diagnoses
  <2>2. todo \in Seq(Plain(a)) /\ todo # <<>>
    BY <1>1, <2>1, ShortSequences DEF Refusals
  <2> QED
    BY <2>2, PlainSuits
<1>2. CASE todo = <<Put("NEEDS_REPAIR"), File("EXTRACT_FAILED", a)>>
  BY <1>2, FirstAndRest DEF Coming
<1>3. ASSUME NEW k \in PlanKinds, todo = <<File(k, a), Put("NEEDS_REPAIR")>>
      PROVE  Coming(a, todo[1], Tail(todo))
  BY <1>3, FirstAndRest DEF Coming
<1>4. ASSUME NEW k \in PlanKinds, todo = <<Spend, File(k, a), Put("NEEDS_REPAIR")>>
      PROVE  Coming(a, todo[1], Tail(todo))
  BY <1>4, FirstAndRest DEF Coming
<1>5. CASE todo = <<Release>>
  BY <1>5, FirstAndRest DEF Coming
<1> QED
  BY <1>1, <1>2, <1>3, <1>4, <1>5 DEF Routes, PlanKinds

\* The handlers of the drive phase.
LEMMA DriveOrderly ==
  ASSUME Orderly, NEW a \in Artifacts, Drive(a)
  PROVE  Orderly'
<1>1. CASE Bridge(a)
  <2>1. PICK s \in {"EXTRACTED", "REJECTED", "BUILD_READY"} : Act("drain", a, <<Put(s)>>)
    BY <1>1 DEF Bridge
  <2>2. ~ Settled(a)
    BY <1>1, Unsettled DEF Bridge, Is
  <2>3. Put(s) \in Plain(a)
    BY PlainWrites DEF Statuses
  <2> QED
    BY <2>1, <2>2, <2>3, ShortSequences, PlainSuits, ActOrderly
<1>2. CASE VerifyStart(a)
  <2>1. Act("drain", a, <<Verify>>) /\ ~ Settled(a)
    BY <1>2, Unsettled DEF VerifyStart, Is
  <2>2. Verify \in Plain(a)
    BY PlainWrites
  <2> QED
    BY <2>1, <2>2, ShortSequences, PlainSuits, ActOrderly
<1>3. CASE StrictQA(a)
  <2>1. ~ Settled(a) /\ ~ Is(a, "QA_PASSED")
    BY <1>3, Unsettled DEF StrictQA, Is
  <2>2. CASE qa[a] = "passed" /\ Act("drain", a, <<Put("QA_PASSED")>>)
    <3>1. Coming(a, Put("QA_PASSED"), <<>>)
      BY <2>1, <2>2 DEF Coming
    <3> QED
      BY <2>2, <3>1, FirstAndRest, ActOrderly
  <2>3. CASE Act("drain", a, <<Score("passed"), Put("QA_PASSED")>>)
    <3>1. Coming(a, Score("passed"), <<Put("QA_PASSED")>>)
      BY <2>1 DEF Coming
    <3> QED
      BY <2>3, <3>1, FirstAndRest, ActOrderly
  <2>4. CASE Act("drain", a, <<Score("band"), Hold("band")>>)
    <3>1. <<Hold("band")>> \in Seq(Plain(a))
      BY PlainWrites, ShortSequences DEF Diagnoses
    <3>2. Coming(a, Score("band"), <<Hold("band")>>)
      BY <2>1, <3>1, WriteNames DEF Coming
    <3> QED
      BY <2>4, <3>2, FirstAndRest, ActOrderly
  <2>5. CASE Act("drain", a, <<Score("failed"), Put("REJECTED"), File("STRICT_QA_FAILED", a)>>)
    <3>1. Put("REJECTED") \in Plain(a) /\ File("STRICT_QA_FAILED", a) \in Plain(a)
      BY PlainWrites DEF Statuses, PlanKinds
    <3>2. <<Put("REJECTED"), File("STRICT_QA_FAILED", a)>> \in Seq(Plain(a))
      BY <3>1, ShortSequences
    <3>3. Coming(a, Score("failed"), <<Put("REJECTED"), File("STRICT_QA_FAILED", a)>>)
      BY <2>1, <3>2, WriteNames DEF Coming
    <3>4. PICK t : t = <<Score("failed"), Put("REJECTED"), File("STRICT_QA_FAILED", a)>>
      OBVIOUS
    <3>5. t[1] = Score("failed") /\ Tail(t) = <<Put("REJECTED"), File("STRICT_QA_FAILED", a)>>
      BY <3>4, FirstAndRest
    <3>6. Coming(a, t[1], Tail(t))
      BY <3>3, <3>5
    <3> QED
      BY <2>5, <3>4, <3>6, ActOrderly
  <2>6. \/ qa[a] = "passed" /\ Act("drain", a, <<Put("QA_PASSED")>>)
        \/ Act("drain", a, <<Score("passed"), Put("QA_PASSED")>>)
        \/ Act("drain", a, <<Score("band"), Hold("band")>>)
        \/ Act("drain", a, <<Score("failed"), Put("REJECTED"), File("STRICT_QA_FAILED", a)>>)
    BY <1>3, Zenon DEF StrictQA
  <2> QED
    BY <2>2, <2>3, <2>4, <2>5, <2>6, Zenon
<1>4. CASE Publish(a)
  <2>1. qa[a] = "passed" /\ ~ Settled(a)
    BY <1>4, Unsettled DEF Publish, Orderly, Sound, Is
  <2>2. PICK todo \in Routes(a) : Act("drain", a, todo)
    BY <1>4, <2>1 DEF Publish
  <2> QED
    BY <2>1, <2>2, PublishSuits, ActOrderly
<1> QED
  BY <1>1, <1>2, <1>3, <1>4 DEF Drive

\* The drain's triage, recovery and recheck.
LEMMA TriageOrderly ==
  ASSUME Orderly, NEW a \in Artifacts, Triage(a) \/ Recover(a) \/ RecheckHold(a)
  PROVE  Orderly'
<1>1. CASE Triage(a)
  <2>1. PICK todo \in Routing(a) : Act("drain", a, <<Diagnose>> \o todo)
    BY <1>1 DEF Triage
  <2>2. ~ Settled(a)
    BY <1>1, Unsettled DEF Triage
  <2>3. PICK t : t = <<Diagnose>> \o todo
    OBVIOUS
  <2>4. t[1] = Diagnose /\ Tail(t) = todo
    <3>1. todo \in Seq(Writes) /\ Diagnose \in Writes
      BY TriageCalm, CalmSequences, WriteTypes
    <3> QED
      BY <2>3, <3>1, Before
  <2>5. CASE todo \in Seq(Plain(a))
    <3>1. Coming(a, Diagnose, todo)
      BY <2>2, <2>5, PlainWrites DEF Coming
    <3> QED
      BY <2>1, <2>3, <2>4, <3>1, ActOrderly
  <2>6. ASSUME NEW k \in PlanKinds, todo = <<File(k, a), Put("NEEDS_REPAIR")>>
        PROVE  Orderly'
    <3>1. Coming(a, Diagnose, todo)
      BY <2>2, <2>6 DEF Coming
    <3> QED
      BY <2>1, <2>3, <2>4, <3>1, ActOrderly
  <2>7. <<>> \in Seq(Plain(a)) /\ <<Put("REJECTED")>> \in Seq(Plain(a))
    BY PlainWrites, ShortSequences DEF Statuses
  <2> QED
    BY <2>5, <2>6, <2>7 DEF Routing, PlanKinds
<1>2. CASE Recover(a)
  <2>1. ~ Settled(a) /\ qa[a] = "passed"
    BY <1>2 DEF Recover, Recoverable, Orderly, Sound, Settled, Is
  <2>2. Coming(a, Put("QA_PASSED"), <<>>) /\ Act("drain", a, <<Put("QA_PASSED")>>)
    BY <1>2, <2>1 DEF Coming, Recover
  <2> QED
    BY <2>2, FirstAndRest, ActOrderly
<1>3. CASE RecheckHold(a)
  <2>1. ~ Settled(a) /\ Act("drain", a, <<DropEvidence, Recheck>>)
    BY <1>3 DEF RecheckHold, Settled, Is
  <2>2. DropEvidence \in Plain(a) /\ Recheck \in Plain(a)
    BY PlainWrites
  <2>3. <<DropEvidence, Recheck>> \in Seq(Plain(a))
    BY <2>2, ShortSequences
  <2> QED
    BY <2>1, <2>3, PlainSuits, ActOrderly
<1> QED
  BY <1>1, <1>2, <1>3

\* The extraction of a page.
LEMMA ExtractOrderly ==
  ASSUME IInv, Orderly, NEW a \in Artifacts, ExtractNew(a) \/ ExtractAgain(a)
  PROVE  Orderly'
<1>1. CASE ExtractNew(a)
  <2>1. PICK s \in {"REJECTED", "EXTRACTED", "CHECKLIST_READY"} :
          /\ art' = [art EXCEPT ![a] =
                       [Unread EXCEPT !.status = s,
                          !.gap = IF s = "CHECKLIST_READY" THEN "none" ELSE "schema"]]
          /\ \E todo \in {<<FileForHost(a)>>, <<File("EXTRACT_FAILED", a)>>} :
               Start("stage", a, IF s = "EXTRACTED" THEN todo ELSE <<>>)
    BY <1>1 DEF ExtractNew
  <2> DEFINE row == [Unread EXCEPT !.status = s,
                       !.gap = IF s = "CHECKLIST_READY" THEN "none" ELSE "schema"]
  <2>2. row.status = s /\ row.diag = "open"
    BY DEF Unread
  <2>3. art' = [art EXCEPT ![a] = row]
    BY <2>1
  <2> HIDE DEF row
  <2>4. /\ TypeOK /\ job.todo = <<>> /\ UNCHANGED <<qa, plans, crashed>>
    BY <1>1, <2>1 DEF IInv, ExtractNew, Start, MayStart, Busy, NoJob
  <2>5. PICK t \in {<<>>, <<FileForHost(a)>>, <<File("EXTRACT_FAILED", a)>>} :
          job' = JobOf("stage", a, t)
    BY <2>1 DEF Start
  <2>6. ~ Settled(a)'
    BY <2>2, <2>3, <2>4 DEF TypeOK, Settled, Is
  <2>7. t \in Seq(Plain(a))
    <3>1. FileForHost(a) \in Plain(a) /\ File("EXTRACT_FAILED", a) \in Plain(a)
      BY PlainWrites DEF PlanKinds
    <3> QED
      BY <3>1, ShortSequences
  <2>8. t = <<>> \/ Coming(a, t[1], Tail(t))'
    BY <2>6, <2>7, PlainComes
  <2> QED
    BY <2>2, <2>3, <2>4, <2>5, <2>8, RowOrderly
<1>2. CASE ExtractAgain(a)
  <2> DEFINE row == [Moved(art[a], "CHECKLIST_READY", "open") EXCEPT !.gap = "none"]
  <2>1. /\ TypeOK /\ job.todo = <<>> /\ UNCHANGED <<qa, plans, crashed>>
        /\ job' = JobOf("stage", a, <<Forget>>) /\ art' = [art EXCEPT ![a] = row]
    BY <1>2 DEF IInv, ExtractAgain, Start, MayStart, Busy, NoJob
  <2>2. row.status = "CHECKLIST_READY" /\ row.diag = "open"
    <3>1. art[a] \in AnyRow
      BY <2>1, RowTypes DEF TypeOK
    <3> QED
      BY <3>1 DEF Moved, AnyRow
  <2> HIDE DEF row
  <2>3. ~ Is(a, "QA_PASSED")'
    BY <2>1, <2>2 DEF TypeOK, Is
  <2>4. PICK t : t = <<Forget>>
    OBVIOUS
  <2>5. t[1] = Forget /\ Tail(t) = <<>>
    BY <2>4, FirstAndRest
  <2>6. Coming(a, t[1], Tail(t))'
    BY <2>3, <2>5 DEF Coming
  <2> QED
    BY <2>1, <2>2, <2>4, <2>6, RowOrderly
<1> QED
  BY <1>1, <1>2

\* The plans are taken up, but for those that are obsolete.
LEMMA RepairOrderly == ASSUME IInv, Orderly, Repair PROVE Orderly'
<1>1. /\ TypeOK /\ job.todo = <<>> /\ UNCHANGED <<art, qa, crashed>>
      /\ plans' = plans \ Moot
  BY DEF IInv, Repair, MayStart, Busy, NoJob
<1>2. PICK t \in {<<>>, <<Repairs(plans \ Moot)>>} : job' = JobOf("stage", Host, t)
  BY DEF Repair
<1>3. plans \ Moot \in Runnable'
  <2>1. ASSUME NEW p \in plans \ Moot, p.kind = "VALIDATION_EVIDENCE_MISSING"
        PROVE  ~ Is(p.of, "PUBLISHED")'
    <3>1. p.key # Host
      BY <2>1 DEF Orderly, Sound, Filed
    <3> QED
      BY <1>1, <2>1, <3>1 DEF Moot, Healthy, Is
  <2> QED
    BY <1>1, <2>1 DEF TypeOK, Runnable
<1>4. t = <<>> \/ Coming(Host, t[1], Tail(t))'
  <2>1. PICK w : w = Repairs(plans \ Moot)
    OBVIOUS
  <2>2. Coming(Host, w, <<>>)'
    BY <1>3, <2>1, WriteNames DEF Coming
  <2> QED
    BY <1>2, <2>1, <2>2, FirstAndRest
<1>5. Suits'
  BY <1>2, <1>4, JobSuits
<1>6. Sound'
  BY <1>1 DEF Orderly, Sound, Is
<1>7. Mended'
  <2>1. \A b : ~ Owed(b)
    BY <1>1, NothingOwed
  <2>2. ASSUME NEW b \in Artifacts, Is(b, "NEEDS_REPAIR"), Planned(b)
        PROVE  Planned(b)'
    BY <1>1, <2>2 DEF Planned, Moot, Healthy, Is
  <2> QED
    BY <1>1, <2>1, <2>2 DEF Orderly, Mended, Is
<1> QED
  BY <1>5, <1>6, <1>7 DEF Orderly

\* What leaves the rows, the verdicts, the plans and the handler alone.
LEMMA RestOrderly ==
  ASSUME Orderly, UNCHANGED <<art, qa, plans, crashed, job>>
  PROVE  Orderly'
<1>1. Suits'
  BY StillComing DEF Orderly, Suits
<1> QED
  BY <1>1 DEF Orderly, Sound, Mended, Is, Planned, Owed

\* What suits an artifact suits it when self-maintenance has moved it back.
LEMMA MovedComing ==
  ASSUME NEW a, NEW w, NEW r, Coming(a, w, r), UNCHANGED <<qa, plans>>,
         Settled(a)' => Settled(a),
         \A s \in {"QA_PASSED", "NEEDS_REPAIR"} : Is(a, s)' => Is(a, s),
         \A b \in Artifacts : Is(b, "PUBLISHED")' => Is(b, "PUBLISHED")
  PROVE  Coming(a, w, r)'
<1>1. Runnable \subseteq Runnable'
  BY DEF Runnable, Plan
<1>2. \A t : /\ Batched(t) => Batched(t)'
             /\ Closing(a, t) => Closing(a, t)'
  BY BatchKept
<1>3. Planned(a)' <=> Planned(a)
  BY DEF Planned
<1> QED
  BY <1>1, <1>2, <1>3 DEF Coming

\* Self-maintenance moves back what it has read.
LEMMA RequeueOrderly == ASSUME IInv, Orderly, MaintRequeue PROVE Orderly'
<1>1. UNCHANGED <<qa, plans, crashed, job>> /\ TypeOK
  BY DEF MaintRequeue, IInv
<1>2. \A b \in Artifacts : \/ art'[b] = art[b]
                           \/ /\ art'[b].status = "BUILD_READY"
                              /\ art'[b].diag = "requeued"
  <2>1. \A b \in Artifacts : /\ Moved(art[b], "BUILD_READY", "requeued").status = "BUILD_READY"
                             /\ Moved(art[b], "BUILD_READY", "requeued").diag = "requeued"
    <3>1. \A b \in Artifacts : art[b] \in AnyRow
      BY <1>1, RowTypes DEF TypeOK
    <3> QED
      BY <3>1 DEF Moved, AnyRow
  <2> QED
    BY <2>1 DEF MaintRequeue
<1>3. /\ \A b \in Artifacts : Settled(b)' => Settled(b)
      /\ \A b \in Artifacts : \A s \in {"QA_PASSED", "NEEDS_REPAIR", "PUBLISHED"} :
           Is(b, s)' => Is(b, s)
  BY <1>2 DEF Settled, Is
<1>4. Suits'
  <2>1. CASE job.todo = <<>>
    BY <1>1, <2>1 DEF Suits
  <2>2. CASE job.todo # <<>> /\ job.art \in Artifacts
    <3>1. Coming(job.art, job.todo[1], Tail(job.todo))
      BY <2>2 DEF Orderly, Suits
    <3>2. Coming(job.art, job.todo[1], Tail(job.todo))'
      <4>1. PICK a, w, r : a = job.art /\ w = job.todo[1] /\ r = Tail(job.todo)
        OBVIOUS
      <4>2. Coming(a, w, r)'
        BY <1>1, <1>3, <2>2, <3>1, <4>1, MovedComing
      <4> QED
        BY <1>1, <4>1, <4>2
    <3> QED
      BY <3>2 DEF Suits
  <2>3. CASE job.todo # <<>> /\ job.todo[1].do = "repairs"
    <3>1. PICK a, w, r : a = job.art /\ w = job.todo[1] /\ r = Tail(job.todo)
      OBVIOUS
    <3>2. w \notin Plain(a)
      BY <2>3, <3>1 DEF Plain
    <3>3. w.plans \in Runnable /\ r = <<>>
      BY <2>3, <3>1, <3>2, WriteNames DEF Orderly, Suits, Coming
    <3>4. Runnable \subseteq Runnable'
      BY <1>3 DEF Runnable, Plan
    <3>5. Coming(a, w, r)'
      BY <2>3, <3>1, <3>3, <3>4 DEF Coming
    <3> QED
      BY <1>1, <3>1, <3>5 DEF Suits
  <2> QED
    BY <2>1, <2>2, <2>3 DEF IInv, Placed
<1>5. Sound'
  BY <1>1, <1>2 DEF Orderly, Sound, Is
<1>6. Mended'
  BY <1>1, <1>3 DEF Orderly, Mended, Planned, Owed
<1> QED
  BY <1>4, <1>5, <1>6 DEF Orderly

\* The end of the process leaves what it was at.
LEMMA CrashOrderly == ASSUME Orderly, Crash PROVE Orderly'
<1>1. job' = NoJob /\ crashed' /\ UNCHANGED <<art, qa, plans>>
  BY DEF Crash, rows
<1>2. Suits'
  BY <1>1 DEF Suits, NoJob
<1> QED
  BY <1>1, <1>2 DEF Orderly, Sound, Mended, Is

\* The funnel is in order to begin with ...
LEMMA InitOrderly == Init => Orderly
BY DEF Init, Orderly, Sound, Suits, Mended, Unread, NoJob, Is

\* ... and after every step.
LEMMA NextOrderly == IInv /\ Orderly /\ [Next]_vars => Orderly'
<1> SUFFICES ASSUME IInv, Orderly, [Next]_vars PROVE Orderly'
  OBVIOUS
<1>1. CASE UNCHANGED vars
  BY <1>1, RestOrderly DEF vars, rows
<1>2. CASE MaintFind \/ Week \/ \E s \in Slugs : Hide(s)
  BY <1>2, RestOrderly DEF MaintFind, Week, Hide, rows
<1>3. CASE Next
  BY <1>2, <1>3, ExtractOrderly, DriveOrderly, TriageOrderly, RepairOrderly,
     WriteOrderly, RequeueOrderly, CrashOrderly DEF Next
<1> QED
  BY <1>1, <1>3

\* What a handler has still to write suits its artifact throughout, whatever the
\* other lane has done since the handler read it.
THEOREM OrderlyThroughout == Spec => []Orderly
BY InitOrderly, NextOrderly, Invariance, PTL DEF Spec

\* Unless the process ended in mid-handler, an artifact waits for repair only
\* while a plan about it is open, or while the handler at it goes on.
THEOREM NothingOrphaned == Spec => []NoOrphanRepair
<1>1. Orderly => NoOrphanRepair
  BY DEF Orderly, Mended, NoOrphanRepair, Owed
<1> QED
  BY <1>1, OrderlyThroughout, PTL

\* A write leaves the row of a settled artifact alone: what was to be written
\* to it when it was read suits it no more.
LEMMA WriteSettled ==
  ASSUME IInv, Orderly, Write, NEW a \in Artifacts, Settled(a)
  PROVE  art'[a] = art[a]
<1>1. TypeOK
  BY DEF IInv
<1>2. CASE DoPut \/ DoDiagnose \/ DoRecheck
  <2>1. job.todo # <<>> /\ Op.do \in {"put", "diagnose", "recheck"}
    BY <1>2 DEF DoPut, DoDiagnose, DoRecheck, Doing
  <2>2. PICK b \in Artifacts, w \in Writes, r \in Seq(Writes) :
          b = A /\ w = Op /\ r = Tail(job.todo) /\ Coming(b, w, r)
    BY <2>1, AtHand
  <2>3. ~ Settled(b)
    BY <2>1, <2>2, WriteNames DEF Coming
  <2>4. a # A
    BY <2>2, <2>3
  <2>5. UNCHANGED art \/ \E row : art' = [art EXCEPT ![A] = row]
    BY <1>2, Zenon DEF DoPut, DoDiagnose, DoRecheck, Row1
  <2> QED
    BY <1>1, <2>2, <2>4, <2>5 DEF TypeOK
<1>3. CASE DoShut \/ DoHeal
  <2>1. CASE art[A].status \in {"EXTRACTED", "NEEDS_REPAIR", "REJECTED"}
    <3>1. a # A
      BY <2>1 DEF Orderly, Sound, Settled, Is
    <3>2. UNCHANGED art \/ \E row : art' = [art EXCEPT ![A] = row]
      BY <1>3, Zenon DEF DoShut, DoHeal, Row1
    <3> QED
      BY <1>1, <3>1, <3>2 DEF TypeOK
  <2>2. CASE art[A].status \notin {"EXTRACTED", "NEEDS_REPAIR", "REJECTED"}
    BY <1>3, <2>2 DEF DoShut, DoHeal
  <2> QED
    BY <2>1, <2>2
<1>4. CASE DoVerify \/ DoFile \/ DoBudget \/ DoScore \/ DoRelease \/ DoDrop
           \/ DoForget \/ DoClose \/ DoRepairs
  BY <1>4 DEF DoVerify, DoFile, DoBudget, DoScore, DoRelease, DoDrop, DoForget,
              Without, DoClose, DoRepairs, rows
<1> QED
  BY <1>2, <1>3, <1>4 DEF Write

\* So does every other step, but for the weekly requeue.
LEMMA SettledStays ==
  ASSUME IInv, Orderly, Next, NEW a \in Artifacts, Settled(a), a \notin found
  PROVE  art'[a] = art[a]
<1>1. TypeOK
  BY DEF IInv
<1>2. ASSUME NEW b \in Artifacts, ExtractNew(b) \/ ExtractAgain(b)
      PROVE  art'[a] = art[a]
  <2>1. a # b
    BY <1>2 DEF ExtractNew, ExtractAgain, Healable, Orderly, Sound, Settled, Is
  <2>2. \E row : art' = [art EXCEPT ![b] = row]
    BY <1>2, Zenon DEF ExtractNew, ExtractAgain
  <2> QED
    BY <1>1, <2>1, <2>2 DEF TypeOK
<1>3. ASSUME NEW b \in Artifacts,
             Drive(b) \/ Triage(b) \/ Recover(b) \/ RecheckHold(b)
      PROVE  art'[a] = art[a]
  <2>1. \E by, todo : Act(by, b, todo)
    BY <1>3 DEF Drive, Bridge, VerifyStart, StrictQA, Publish, Triage, Recover, RecheckHold
  <2> QED
    BY <2>1 DEF Act, rows
<1>4. CASE Repair \/ MaintFind \/ Week \/ Crash \/ \E s \in Slugs : Hide(s)
  BY <1>4 DEF Repair, MaintFind, Week, Crash, Hide, rows
<1>5. CASE MaintRequeue
  BY <1>5 DEF MaintRequeue
<1> QED
  BY <1>2, <1>3, <1>4, <1>5, WriteSettled DEF Next

\* A published artifact stays published, but for the rows self-maintenance has
\* read before they were published and requeues by id after.
THEOREM PublishedStays == Spec => PublishedKept
<1>1. IInv /\ Orderly /\ [Next]_vars =>
        [\A a \in Artifacts : Is(a, "PUBLISHED") /\ ~ Is(a, "PUBLISHED")'
                              => a \in found]_vars
  BY SettledStays DEF Settled, Is
<1> QED
  BY <1>1, Invariance, OrderlyThroughout, PTL DEF Spec, PublishedKept

\* A package that spent its verification rounds stays with a person, but for the
\* weekly requeue.
THEOREM GivenUpStays == Spec => ExhaustedWaits
<1>1. IInv /\ Orderly /\ [Next]_vars =>
        [\A a \in Artifacts : Waits(a, "exhausted") /\ ~ Waits(a, "exhausted")'
                              => a \in found]_vars
  BY SettledStays DEF Settled, Waits, Is
<1> QED
  BY <1>1, Invariance, OrderlyThroughout, PTL DEF Spec, ExhaustedWaits

-----------------------------------------------------------------------------
(* The funnel implements Publication *)

JudgedSet == {a \in Artifacts : Judged(a)}
Shown == [s \in Slugs |-> public[s] = "live"]

\* The funnel starts where the promise starts.
LEMMA PromiseInit == Init => Promise!Init
<1> SUFFICES ASSUME Init PROVE Promise!Init
  OBVIOUS
<1>1. JudgedSet = {}
  BY DEF JudgedSet, Judged, Init
<1>2. Shown = [s \in Slugs |-> \A a \in Artifacts : SlugOf[a] # s]
  BY DEF Shown, Init, Own
<1> QED
  BY <1>1, <1>2 DEF Promise!Init, JudgedSet, Shown

\* Only the end of a publication and a rollback write a public row.
LEMMA PublicKept ==
  ASSUME Next, ~ DoRelease, \A s \in Slugs : ~ Hide(s)
  PROVE  public' = public
<1>1. CASE \E a \in Artifacts : ExtractNew(a) \/ ExtractAgain(a)
  BY <1>1 DEF ExtractNew, ExtractAgain
<1>2. CASE \E a \in Artifacts : Drive(a)
  BY <1>2 DEF Drive, Bridge, VerifyStart, StrictQA, Publish, Act, rows
<1>3. CASE \E a \in Artifacts : Triage(a) \/ Recover(a) \/ RecheckHold(a)
  BY <1>3 DEF Triage, Recover, RecheckHold, Act, rows
<1>4. CASE Write
  <2>1. CASE DoPut \/ DoDiagnose \/ DoRecheck \/ DoShut
    BY <2>1 DEF DoPut, DoDiagnose, DoRecheck, DoShut, ArtOnly
  <2>2. CASE DoHeal \/ DoVerify \/ DoFile \/ DoBudget \/ DoScore
    BY <2>2 DEF DoHeal, DoVerify, DoFile, DoBudget, DoScore
  <2>3. CASE DoDrop \/ DoForget \/ DoClose \/ DoRepairs
    BY <2>3 DEF DoDrop, DoForget, Without, DoClose, DoRepairs, rows
  <2> QED
    BY <1>4, <2>1, <2>2, <2>3 DEF Write
<1>5. CASE Repair \/ MaintFind \/ MaintRequeue \/ Week \/ Crash
  BY <1>5 DEF Repair, MaintFind, MaintRequeue, Week, Crash, rows
<1> QED
  BY <1>1, <1>2, <1>3, <1>4, <1>5 DEF Next

\* Every step of the funnel is a step of the promise, or none.
LEMMA PromiseStep ==
  ASSUME IInv, [Next]_vars
  PROVE  [Promise!Next]_(Promise!pub)
<1>1. CASE public' = public
  <2>1. Shown' = Shown
    BY <1>1 DEF Shown
  <2>2. JudgedSet' \in SUBSET Artifacts
    BY DEF JudgedSet
  <2> QED
    BY <2>1, <2>2 DEF Promise!Next, Promise!Judge, Promise!pub, JudgedSet, Shown
<1>2. ASSUME NEW s \in Slugs, Hide(s)
      PROVE  Promise!Hide(s)
  <2>1. JudgedSet' = JudgedSet
    BY <1>2 DEF Hide, JudgedSet, Judged
  <2>2. public' = [public EXCEPT ![s] = "hidden"] /\ public \in [Slugs -> {"none", "live", "hidden"}]
    BY <1>2 DEF Hide, IInv, TypeOK
  <2>3. Shown' = [Shown EXCEPT ![s] = FALSE]
    BY <2>2 DEF Shown
  <2> QED
    BY <2>1, <2>3 DEF Promise!Hide, JudgedSet, Shown
<1>3. ASSUME DoRelease, public' = [public EXCEPT ![SlugOf[A]] = "live"]
      PROVE  \E a \in Artifacts : Promise!Show(a)
  <2>1. PICK a \in Artifacts : a = A /\ Judged(a)
    BY <1>3, ReleaseStep
  <2>2. JudgedSet' = JudgedSet /\ a \in JudgedSet
    BY <1>3, <2>1 DEF DoRelease, JudgedSet, Judged
  <2>3. /\ public' = [public EXCEPT ![SlugOf[a]] = "live"]
        /\ public \in [Slugs -> {"none", "live", "hidden"}]
    BY <1>3, <2>1 DEF IInv, TypeOK
  <2>4. Shown' = [Shown EXCEPT ![SlugOf[a]] = TRUE]
    BY <2>3 DEF Shown
  <2>5. Promise!Show(a)
    BY <2>2, <2>4 DEF Promise!Show, JudgedSet, Shown
  <2> QED
    BY <2>5
<1>4. CASE UNCHANGED vars
  BY <1>1, <1>4 DEF vars, rows
<1>5. CASE \E s \in Slugs : Hide(s)
  BY <1>2, <1>5 DEF Promise!Next
<1>6. CASE DoRelease
  <2>1. public' = public \/ public' = [public EXCEPT ![SlugOf[A]] = "live"]
    BY <1>6 DEF DoRelease
  <2> QED
    BY <1>1, <1>3, <1>6, <2>1 DEF Promise!Next
<1>7. CASE Next /\ ~ DoRelease /\ \A s \in Slugs : ~ Hide(s)
  BY <1>1, <1>7, PublicKept
<1> QED
  BY <1>4, <1>5, <1>6, <1>7

\* The funnel implements Publication: a page comes to be shown only for an
\* artifact whose present fields strict QA passed and, if it is doctrinal,
\* evidence confirmed.
THEOREM Implementation == Spec => PublishesTheJudged
<1>1. Init => Promise!Init
  BY PromiseInit
<1>2. IInv /\ [Next]_vars => [Promise!Next]_(Promise!pub)
  BY PromiseStep
<1> QED
  BY <1>1, <1>2, Invariance, PTL DEF Spec, PublishesTheJudged, Promise!Spec

=============================================================================
