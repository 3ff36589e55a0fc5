--------------------------- MODULE ArtifactFunnel ---------------------------
(***************************************************************************)
(* The publishing funnel of the admin worker: what becomes of a package    *)
(* artifact between the page it was extracted from and the public row it   *)
(* ends as, or the state it waits in (src/lib/admin-worker/dispatcher.ts,  *)
(* build-ready-drain.ts, publish-orchestrator.ts, repair-orchestrator.ts,  *)
(* checklist-citation-orchestrator.ts, repair-plans.ts, research-holds.ts, *)
(* human-review.ts, self-maintenance.ts).                                  *)
(*                                                                         *)
(* A pass of the worker dispatches one stage and then runs its lanes side  *)
(* by side; two of the lanes, the drain and self-maintenance, move         *)
(* artifacts.  A handler reads, awaits, and then writes one row at a time, *)
(* so it is modelled as a read that leaves a list of writes (job.todo);    *)
(* the other lane, or the end of the process, may come between any two.    *)
(*                                                                         *)
(* Left out: a stage that outlives its ten-minute watchdog, failed writes  *)
(* (the code swallows them), plans given up after five throws, a row moved *)
(* to another slug (a public one only when asked, a hidden one of the same *)
(* checklist item), rows that other pipelines add meanwhile, human-review  *)
(* mode, artifacts of older versions (built without the needs of their     *)
(* type, reset to EXTRACTED by a score), and the refusals of the           *)
(* publish-safety patterns that are repaired.                              *)
(***************************************************************************)
EXTENDS Integers, Sequences, FiniteSets

CONSTANTS
  Artifacts,   \* package artifacts: one per (type, slug, title) extracted
  Slugs,       \* publish identities: (catalog type, slug)
  SlugOf,      \* SlugOf[a]: where a publishes
  Needy,       \* artifacts whose type carries validation needs
  Doctrinal,   \* artifacts of a doctrinally sensitive type
  Host,        \* the host every page comes from, as a plan's failedEntity
  MaxRounds,   \* MAX_VERIFICATION_ROUNDS
  Budget,      \* REVIEW_RETRY_BUDGET
  MaxReads,    \* bound: source reads extracted
  MaxUpsets    \* bound: weeks the worker is off, its ends in mid-handler, and
               \* public pages taken down

ASSUME FunnelAssumption ==
  /\ SlugOf \in [Artifacts -> Slugs]
  /\ Doctrinal \subseteq Needy /\ Needy \subseteq Artifacts
  /\ Host \notin Artifacts
  /\ MaxRounds \in Nat /\ Budget \in Nat
  /\ MaxReads \in Nat /\ MaxUpsets \in Nat

VARIABLES
  art,     \* art[a]: the AdminWorkerPackageArtifact row
  qa,      \* qa[a]: the verdict of its AdminWorkerStrictQAResult row
  evid,    \* evid[a]: its AdminWorkerCrossSourceVerification rows
  stale,   \* history: the judgements of fields that were replaced since
  plans,   \* AdminWorkerRepairPlan rows that are PENDING or RUNNING
  rounds,  \* rounds[a]: its VALIDATION_EVIDENCE_MISSING plans, ever filed
  spent,   \* spent[a]: attempts taken from its "review" retry budget
  public,  \* public[s]: the PublishedContent row
  job,     \* the handler under way in the stage or in the drain
  found,   \* the artifacts self-maintenance has read and not yet written
  aged,    \* parked artifacts not written for seven days
  reads, upsets,  \* what is left of the bounds
  crashed  \* history: the worker has ended between two writes

rows == <<art, qa, evid, stale, plans, rounds, spent, public>>
vars == <<rows, job, found, aged, reads, upsets, crashed>>

-----------------------------------------------------------------------------
(* Rows *)

Statuses == {"EXTRACTED", "CHECKLIST_READY", "BUILD_READY",
             "VERIFICATION_READY", "QA_PASSED", "PUBLISHED", "NEEDS_REPAIR",
             "NEEDS_REVIEW", "REJECTED"}

\* The gate diagnoses some guard tells from the rest ("open").
Diagnoses == {"open", "hold", "band", "exhausted", "requeued"}

\* "schema": a required field is missing or refused by the type's schema.
\* (A package without one has provenance and clears the drain's floor.)
Gaps == {"none", "schema"}

None == "none"

\* retry: the reason the artifact waits for review matches a "retry" rule.
\* row: publishedContentId, the public row the artifact stands for.
Row == [status: Statuses, gap: Gaps, diag: Diagnoses, retry: BOOLEAN,
        row: Slugs \cup {None}]
Unread == [status |-> "UNREAD", gap |-> "none", diag |-> "open",
           retry |-> FALSE, row |-> None]

Verdicts == {"passed", "band", "failed"}

\* "short": rows are there, and some need is not confirmed by them.
Evidence == {"none", "short", "match"}

PlanKinds == {"EXTRACT_FAILED", "VALIDATION_EVIDENCE_MISSING",
              "QUALITY_SCORE_FAILED", "STRICT_QA_FAILED"}

\* key is failedEntity; of is the artifact the plan's read or id leads to.
Plan == [kind: PlanKinds, key: Artifacts \cup {Host}, of: Artifacts]

Parked == {a \in Artifacts : art[a].status \in {"NEEDS_REVIEW", "NEEDS_REPAIR"}}
Is(a, s) == art[a].status = s

\* Status and gate of a row whose reason no retry rule matches.
Moved(row, s, d) == [row EXCEPT !.status = s, !.diag = d, !.retry = FALSE]

-----------------------------------------------------------------------------
(* The writes of a handler *)

Put(s) == [do |-> "put", status |-> s, diag |-> None, retry |-> FALSE, row |-> None]
Hold(d) == [Put("NEEDS_REVIEW") EXCEPT !.diag = d]
\* As a slip would have it: a status no stage reads.
ResetToUnverified == Put("UNVERIFIED")
Reset == Put("BUILD_READY")
Retry == [Put("NEEDS_REVIEW") EXCEPT !.retry = TRUE]
\* PUBLISHED, and the row it stands for.
Mark(s) == [Put("PUBLISHED") EXCEPT !.row = s]
Diagnose == [do |-> "diagnose"]
File(k, a) == [do |-> "file", plan |-> [kind |-> k, key |-> a, of |-> a]]
FileForHost(a) ==
  [do |-> "file", plan |-> [kind |-> "EXTRACT_FAILED", key |-> Host, of |-> a]]
Spend == [do |-> "spend"]
Refund == [do |-> "refund"]
Verify == [do |-> "verify"]
Score(v) == [do |-> "score", verdict |-> v]
Release == [do |-> "release"]
DropEvidence == [do |-> "drop"]
Forget == [do |-> "forget"]
Recheck == [do |-> "recheck"]
Heal(g) == [do |-> "heal", gap |-> g]
Shut == [do |-> "shut"]
Close(p) == [do |-> "close", plan |-> p]
Repairs(S) == [do |-> "repairs", plans |-> S]

Puts == [do: {"put"}, status: Statuses, diag: Diagnoses \cup {None},
         retry: BOOLEAN, row: Slugs \cup {None}]
Writes ==
  Puts \cup [do: {"file", "close"}, plan: Plan]
  \cup [do: {"score"}, verdict: Verdicts] \cup [do: {"heal"}, gap: Gaps]
  \cup [do: {"repairs"}, plans: SUBSET Plan]
  \cup [do: {"diagnose", "spend", "refund", "verify", "release", "drop",
             "forget", "recheck", "shut"}]

\* by: whether the dispatched stage or the drain runs the handler.  art: the
\* row it writes (Host when it is at none).
NoJob == [by |-> "nobody", art |-> Host, todo |-> <<>>]
Busy == job # NoJob
JobOf(by, a, todo) ==
  IF todo = <<>> THEN NoJob ELSE [by |-> by, art |-> a, todo |-> todo]

\* The stage runs before the lanes; the drain runs beside self-maintenance.
MayStart(by) == ~ Busy /\ (by = "stage" => found = {})
Start(by, a, todo) == MayStart(by) /\ job' = JobOf(by, a, todo)

TypeOK ==
  /\ art \in [Artifacts -> Row \cup {Unread}]
  /\ qa \in [Artifacts -> Verdicts \cup {"none"}]
  /\ evid \in [Artifacts -> Evidence]
  /\ stale \subseteq {"qa", "evidence"} \X Artifacts
  /\ plans \subseteq Plan
  /\ rounds \in [Artifacts -> 0 .. MaxRounds]
  /\ spent \in [Artifacts -> 0 .. Budget + 1]
  /\ public \in [Slugs -> {"none", "live", "hidden"}]
  /\ job \in [by: {"nobody", "stage", "drain"}, art: Artifacts \cup {Host},
             todo: Seq(Writes)]
  /\ found \subseteq Artifacts /\ aged \subseteq Artifacts
  /\ reads \in 0 .. MaxReads /\ upsets \in 0 .. MaxUpsets
  /\ crashed \in BOOLEAN

\* The slugs of the artifacts; the others are of rows that are public already.
Own(s) == \E a \in Artifacts : SlugOf[a] = s

Init ==
  /\ art = [a \in Artifacts |-> Unread]
  /\ qa = [a \in Artifacts |-> "none"]
  /\ evid = [a \in Artifacts |-> "none"]
  /\ stale = {} /\ plans = {} /\ aged = {} /\ found = {}
  /\ rounds = [a \in Artifacts |-> 0]
  /\ spent = [a \in Artifacts |-> 0]
  /\ public = [s \in Slugs |-> IF Own(s) THEN "none" ELSE "live"]
  /\ job = NoJob
  /\ reads = MaxReads /\ upsets = MaxUpsets /\ crashed = FALSE

-----------------------------------------------------------------------------
(* Handlers: what is read, and the writes it leads to *)

Act(by, a, todo) ==
  Start(by, a, todo) /\ UNCHANGED <<rows, found, aged, reads, upsets, crashed>>

Healable(a) ==
  \/ art[a].status \in {"EXTRACTED", "NEEDS_REPAIR", "REJECTED"}
  \/ Is(a, "NEEDS_REVIEW") /\ art[a].diag = "band"

\* runExtraction of a page nobody has an artifact for.
ExtractNew(a) ==
  /\ Is(a, "UNREAD") /\ reads > 0
  /\ \E s \in {"REJECTED", "EXTRACTED", "CHECKLIST_READY"} :
       /\ art' = [art EXCEPT ![a] =
                    [Unread EXCEPT !.status = s,
                       !.gap = IF s = "CHECKLIST_READY" THEN "none" ELSE "schema"]]
       /\ \E todo \in {<<FileForHost(a)>>, <<File("EXTRACT_FAILED", a)>>} :
            Start("stage", a, IF s = "EXTRACTED" THEN todo ELSE <<>>)
  /\ reads' = reads - 1
  /\ UNCHANGED <<qa, evid, stale, plans, rounds, spent, public, found, aged,
                 upsets, crashed>>

\* The judgements of a whose fields are being replaced.
Outdated(a) == {<<k, a>> : k \in (IF qa[a] = "none" THEN {} ELSE {"qa"})
                             \cup (IF evid[a] = "none" THEN {} ELSE {"evidence"})}

\* runExtraction of a second page of an entity: fresh, complete fields replace
\* those of a broken artifact, and the judgements of the old ones are dropped.
ExtractAgain(a) ==
  /\ Healable(a) /\ reads > 0
  /\ art' = [art EXCEPT ![a] =
               [Moved(@, "CHECKLIST_READY", "open") EXCEPT !.gap = "none"]]
  /\ aged' = aged \ {a}
  /\ stale' = stale \cup Outdated(a)
  /\ Start("stage", a, <<Forget>>)
  /\ reads' = reads - 1
  /\ UNCHANGED <<qa, evid, plans, rounds, spent, public, found, upsets, crashed>>

\* runChecklistAndCitationOrchestrator: no provenance, no catalog type, or on.
Bridge(a) ==
  /\ Is(a, "CHECKLIST_READY")
  /\ \E s \in {"EXTRACTED", "REJECTED", "BUILD_READY"} : Act("drain", a, <<Put(s)>>)

\* runCrossSourceVerification: the oldest artifact with needs.
VerifyStart(a) ==
  a \in Needy /\ Is(a, "BUILD_READY") /\ Act("drain", a, <<Verify>>)

\* runStrictQA.  A need without a match and a taken slug each score zero.
StrictQA(a) ==
  /\ Is(a, "VERIFICATION_READY") \/ (Is(a, "BUILD_READY") /\ a \notin Needy)
  /\ \/ qa[a] = "passed" /\ Act("drain", a, <<Put("QA_PASSED")>>)
     \/ /\ qa[a] # "passed"
        /\ public[SlugOf[a]] = "none" /\ (a \in Needy => evid[a] # "none")
        /\ \/ Act("drain", a, <<Score("passed"), Put("QA_PASSED")>>)
           \/ Act("drain", a, <<Score("band"), Hold("band")>>)
     \/ /\ qa[a] # "passed"
        /\ Act("drain", a, <<Score("failed"), Put("REJECTED"),
                             File("STRICT_QA_FAILED", a)>>)

\* consumeRetryBudget answers allowed.
Allowed(a) == spent[a] < Budget

\* What refuseWebPayload, the gates of runPublishOrchestrator and
\* routeReviewOutcome after them may make of an artifact strict QA passed.
Sensitive(a) == a \in Doctrinal /\ evid[a] # "match"
Refusals == {<<Put("REJECTED")>>, <<Put("NEEDS_REVIEW")>>, <<Hold("hold")>>,
             <<Spend, Retry>>}
Routes(a) ==
  IF art[a].gap = "schema"
  THEN {<<Put("NEEDS_REPAIR"), File("EXTRACT_FAILED", a)>>}
  ELSE Refusals \cup
       (IF Sensitive(a)
        THEN {<<File("VALIDATION_EVIDENCE_MISSING", a), Put("NEEDS_REPAIR")>>}
        ELSE {<<File("QUALITY_SCORE_FAILED", a), Put("NEEDS_REPAIR")>>,
              IF Allowed(a)
              THEN <<Spend, File("QUALITY_SCORE_FAILED", a), Put("NEEDS_REPAIR")>>
              ELSE <<Spend, Put("NEEDS_REVIEW")>>,
              <<Release>>})

\* runPublishOrchestrator without a verdict that passed.
Unjudged(a) ==
  IF qa[a] = "none" THEN {<<Put("BUILD_READY")>>}
  ELSE IF qa[a] = "band" THEN {<<Put("NEEDS_REPAIR")>>} ELSE {<<Put("REJECTED")>>}

\* runPersistAndPublish, up to the decision.
Publish(a) ==
  /\ Is(a, "QA_PASSED")
  /\ \E todo \in IF qa[a] = "passed" THEN Routes(a) ELSE Unjudged(a) :
       Act("drain", a, todo)

\* The drain's triage: diagnoseArtifactGate and the route it leads to.  Rows
\* that confirm some need, but not all, are "short" too and are left to be
\* verified again.
Routing(a) ==
  IF Is(a, "QA_PASSED") THEN {<<>>}
  ELSE IF public[SlugOf[a]] = "live" THEN {<<Put("REJECTED")>>}
  ELSE IF art[a].gap # "none"
       THEN {<<File("EXTRACT_FAILED", a), Put("NEEDS_REPAIR")>>}
  ELSE {<<>>} \cup
       (IF a \in Needy /\ Is(a, "BUILD_READY") /\ evid[a] = "short"
        THEN {<<File("VALIDATION_EVIDENCE_MISSING", a), Put("NEEDS_REPAIR")>>}
        ELSE {})

Triage(a) ==
  /\ art[a].status \in {"BUILD_READY", "VERIFICATION_READY", "QA_PASSED"}
  /\ \E todo \in Routing(a) :
       /\ todo = <<>> => art[a].diag # "open"
       /\ Act("drain", a, <<Diagnose>> \o todo)

\* recoverRetryableReviews: the ten minutes and more of backoff may have passed.
Recoverable(a) ==
  /\ Is(a, "NEEDS_REVIEW") /\ art[a].retry /\ art[a].diag # "hold"
  /\ qa[a] = "passed" /\ spent[a] <= Budget
Recover(a) == Recoverable(a) /\ Act("drain", a, <<Put("QA_PASSED")>>)

\* requeueDueResearchHolds: a hold is due after a week or more.
RecheckHold(a) ==
  /\ Is(a, "NEEDS_REVIEW") /\ art[a].diag = "hold" /\ a \in aged
  /\ Act("drain", a, <<DropEvidence, Recheck>>)

\* reconcileObsoletePlans: plans about one artifact that is in the funnel again.
Healthy == {"CHECKLIST_READY", "BUILD_READY", "VERIFICATION_READY",
            "QA_PASSED", "PUBLISHED"}
Moot == {p \in plans : /\ p.kind \in {"EXTRACT_FAILED",
                                     "VALIDATION_EVIDENCE_MISSING"}
                       /\ p.key # Host /\ art[p.of].status \in Healthy}

\* runRepairOrchestrator: the obsolete plans go, and the others are run in turn.
Repair ==
  /\ plans # {} /\ MayStart("stage")
  /\ plans' = plans \ Moot
  /\ job' = JobOf("stage", Host,
                  IF plans = Moot THEN <<>> ELSE <<Repairs(plans \ Moot)>>)
  /\ UNCHANGED <<art, qa, evid, stale, rounds, spent, public, found, aged,
                 reads, upsets, crashed>>

\* As a slip would have it: a verification plan resets what was given up.
RemediesUnguarded(p) ==
  IF p.kind = "VALIDATION_EVIDENCE_MISSING"
  THEN {<<DropEvidence, Reset, Close(p)>>}
  ELSE {<<Heal("none"), Close(p)>>, <<Shut, Close(p)>>}

\* As a slip would have it: a score's plan is closed, its artifact left.
RemediesClosing(p) ==
  IF p.kind = "VALIDATION_EVIDENCE_MISSING"
  THEN {<<DropEvidence, Reset, Close(p)>>} ELSE {<<Close(p)>>}

\* executePlan, up to what it reads of the artifact.
Remedies(p) ==
  IF p.kind = "VALIDATION_EVIDENCE_MISSING"
  THEN IF Is(p.of, "NEEDS_REVIEW") /\ art[p.of].diag = "exhausted"
       THEN {<<Close(p)>>}
       ELSE IF Is(p.of, "BUILD_READY") THEN {<<DropEvidence, Close(p)>>}
       ELSE {<<DropEvidence, Reset, Close(p)>>}
  ELSE {<<Shut, Close(p)>>} \cup
       (IF p.kind = "EXTRACT_FAILED" THEN {<<Heal("none"), Close(p)>>} ELSE {})
       \cup
       (IF p.kind = "EXTRACT_FAILED" /\ p.key = Host
        THEN {<<Heal("schema"), Close(p)>>} ELSE {})

\* decideAndExecuteRollback: the public page fails its check and is taken down.
Hide(s) ==
  /\ public[s] = "live" /\ upsets > 0 /\ MayStart("stage")
  /\ public' = [public EXCEPT ![s] = "hidden"] /\ upsets' = upsets - 1
  /\ UNCHANGED <<art, qa, evid, stale, plans, rounds, spent, job, found, aged,
                 reads, crashed>>

-----------------------------------------------------------------------------
(* The writes, one at a time *)

Op == job.todo[1]
A == job.art
Go(todo) == job' = JobOf(job.by, A, todo)
Doing(what) == job.todo # <<>> /\ Op.do = what
Onward == Go(Tail(job.todo))

ArtOnly == UNCHANGED <<qa, evid, stale, plans, rounds, spent, public, found,
                       reads, upsets, crashed>>
Row1(row) == art' = [art EXCEPT ![A] = row] /\ aged' = aged \ {A}

DoPut ==
  /\ Doing("put")
  /\ Row1([art[A] EXCEPT !.status = Op.status, !.retry = Op.retry,
                         !.diag = IF Op.diag = None THEN @ ELSE Op.diag,
                         !.row = IF Op.status = "PUBLISHED" THEN Op.row ELSE @])
  /\ Onward /\ ArtOnly

DoDiagnose ==
  Doing("diagnose") /\ Row1([art[A] EXCEPT !.diag = "open"]) /\ Onward /\ ArtOnly

DoRecheck ==
  /\ Doing("recheck")
  /\ IF Is(A, "NEEDS_REVIEW") /\ art[A].diag = "hold"
     THEN Row1(Moved(art[A], "BUILD_READY", "open")) ELSE UNCHANGED <<art, aged>>
  /\ Onward /\ ArtOnly

\* As a slip would have it: whatever has become of the artifact since.
DoShutAny ==
  /\ Doing("shut")
  /\ Row1(Moved(art[A], "REJECTED", art[A].diag))
  /\ Onward /\ ArtOnly

\* terminalizeStuckArtifacts, and the end of a deterministic score.
DoShut ==
  /\ Doing("shut")
  /\ IF art[A].status \in {"EXTRACTED", "NEEDS_REPAIR"}
     THEN Row1(Moved(art[A], "REJECTED", art[A].diag)) ELSE UNCHANGED <<art, aged>>
  /\ Onward /\ ArtOnly

\* The stored page extracted again, complete this time.
DoHeal ==
  /\ Doing("heal")
  /\ IF art[A].status \in {"EXTRACTED", "NEEDS_REPAIR", "REJECTED"}
     THEN /\ Row1([Moved(art[A], "CHECKLIST_READY", "open") EXCEPT !.gap = Op.gap])
          /\ stale' = stale \cup Outdated(A)
          /\ Go(<<Forget>> \o Tail(job.todo))
     ELSE UNCHANGED <<art, aged, stale>> /\ Onward
  /\ UNCHANGED <<qa, evid, plans, rounds, spent, public, found, reads, upsets,
                 crashed>>

\* As a slip would have it: no bound on the rounds.
DoVerifyForever ==
  /\ Doing("verify")
  /\ \E e \in Evidence :
       /\ evid' = [evid EXCEPT ![A] = e]
       /\ Go(IF e = "match" THEN <<Put("VERIFICATION_READY")>>
             ELSE <<File("VALIDATION_EVIDENCE_MISSING", A), Put("NEEDS_REPAIR")>>)
  /\ UNCHANGED <<art, qa, stale, plans, rounds, spent, public, found, aged,
                 reads, upsets, crashed>>

\* The first time: fetched, compared and recorded.  Then: judged as stored.
\* A field that is no need of the artifact may block it the first time too.
DoVerify ==
  /\ Doing("verify")
  /\ \E e \in IF evid[A] = "none" THEN Evidence ELSE {evid[A]} :
       /\ evid' = [evid EXCEPT ![A] = e]
       /\ \/ e = "match" /\ Go(<<Put("VERIFICATION_READY")>>)
          \/ /\ e = "match" => evid[A] = "none"
             /\ Go(IF rounds[A] >= MaxRounds THEN <<Hold("exhausted")>>
                   ELSE <<File("VALIDATION_EVIDENCE_MISSING", A),
                          Put("NEEDS_REPAIR")>>)
  /\ UNCHANGED <<art, qa, stale, plans, rounds, spent, public, found, aged,
                 reads, upsets, crashed>>

\* filePlan: an open plan of the same kind and entity is kept instead.
DoFile ==
  /\ Doing("file")
  /\ LET p == Op.plan
         open == \E q \in plans : q.kind = p.kind /\ q.key = p.key
     IN /\ plans' = IF open THEN plans ELSE plans \cup {p}
        /\ rounds' = IF open \/ p.kind # "VALIDATION_EVIDENCE_MISSING"
                        \/ rounds[A] = MaxRounds
                     THEN rounds ELSE [rounds EXCEPT ![A] = @ + 1]
  /\ Onward
  /\ UNCHANGED <<art, qa, evid, stale, spent, public, found, aged, reads, upsets,
                 crashed>>

\* consumeRetryBudget and clearRetryBudget.
DoBudget ==
  /\ \/ /\ Doing("spend")
        /\ spent' = [spent EXCEPT ![A] = IF @ > Budget THEN @ ELSE @ + 1]
     \/ Doing("refund") /\ spent' = [spent EXCEPT ![A] = 0]
  /\ Onward
  /\ UNCHANGED <<art, qa, evid, stale, plans, rounds, public, found, aged, reads,
                 upsets, crashed>>

DoScore ==
  /\ Doing("score")
  /\ qa' = [qa EXCEPT ![A] = Op.verdict] /\ stale' = stale \ {<<"qa", A>>}
  /\ Onward
  /\ UNCHANGED <<art, evid, plans, rounds, spent, public, found, aged, reads,
                 upsets, crashed>>

\* As a slip would have it: a duplicate is marked with the row of its own slug.
DoReleaseAsOwn ==
  /\ Doing("release")
  /\ \/ /\ \E s \in Slugs \ {SlugOf[A]} : public[s] = "live"
        /\ Go(<<Mark(SlugOf[A])>>) /\ UNCHANGED public
     \/ /\ public' = [public EXCEPT ![SlugOf[A]] = "live"]
        /\ Go(<<Mark(SlugOf[A]), Refund>>)
  /\ UNCHANGED <<art, qa, evid, stale, plans, rounds, spent, found, aged, reads,
                 upsets, crashed>>

\* The end of runPublishOrchestrator: the page is taken for a duplicate of one
\* shown under another slug, or its own row is found shown, republished or
\* created.
DoRelease ==
  /\ Doing("release")
  /\ \/ \E s \in Slugs \ {SlugOf[A]} :
          public[s] = "live" /\ Go(<<Mark(s)>>) /\ UNCHANGED public
     \/ /\ public' = [public EXCEPT ![SlugOf[A]] = "live"]
        /\ Go(IF public[SlugOf[A]] = "live" THEN <<Mark(SlugOf[A])>>
              ELSE <<Mark(SlugOf[A]), Refund>>)
  /\ UNCHANGED <<art, qa, evid, stale, plans, rounds, spent, found, aged, reads,
                 upsets, crashed>>

\* deleteMany of the evidence; clearJudgementsFor drops the verdict with it.
Without(what) ==
  /\ evid' = [evid EXCEPT ![A] = "none"]
  /\ qa' = IF "qa" \in what THEN [qa EXCEPT ![A] = "none"] ELSE qa
  /\ stale' = stale \ (what \X {A})
  /\ Onward
  /\ UNCHANGED <<art, plans, rounds, spent, public, found, aged, reads, upsets,
                 crashed>>
DoDrop == Doing("drop") /\ Without({"evidence"})
\* As a slip would have it: the verdict on the old fields is kept.
DoForgetEvidence == Doing("forget") /\ Without({"evidence"})
DoForget == Doing("forget") /\ Without({"qa", "evidence"})

DoClose ==
  /\ Doing("close")
  /\ plans' = plans \ {Op.plan}
  /\ Onward
  /\ UNCHANGED <<art, qa, evid, stale, rounds, spent, public, found, aged, reads,
                 upsets, crashed>>

\* The next plan of the batch, in some order, with the rest behind it.
DoRepairs ==
  /\ Doing("repairs")
  /\ \E p \in Op.plans : \E todo \in Remedies(p) :
       LET rest == Op.plans \ {p}
       IN job' = JobOf(job.by, p.of, todo \o (IF rest = {} THEN <<>>
                                              ELSE <<Repairs(rest)>>))
  /\ UNCHANGED <<rows, found, aged, reads, upsets, crashed>>

-----------------------------------------------------------------------------
(* The other lane, time, and the end of the process *)

\* repairParkedArtifacts, the read: parked for a week, and not excluded by
\* parkedRequeueEligible.
Requeueable == {a \in aged \cap Parked :
                  art[a].diag \notin {"requeued", "hold", "band"}}
MaintFind ==
  /\ job.by # "stage" /\ found = {} /\ Requeueable # {}
  /\ found' = Requeueable
  /\ UNCHANGED <<rows, job, aged, reads, upsets, crashed>>

\* Its updateMany, by id.
MaintRequeue ==
  /\ found # {}
  /\ art' = [a \in Artifacts |-> IF a \in found
                                 THEN Moved(art[a], "BUILD_READY", "requeued")
                                 ELSE art[a]]
  /\ aged' = aged \ found /\ found' = {}
  /\ UNCHANGED <<qa, evid, stale, plans, rounds, spent, public, job, reads,
                 upsets, crashed>>

\* The worker is off for a week (or a parked row is left alone for one).
Week ==
  /\ upsets > 0 /\ ~ Busy /\ found = {} /\ aged # Parked
  /\ aged' = Parked /\ upsets' = upsets - 1
  /\ UNCHANGED <<rows, job, found, reads, crashed>>

\* The worker process ends.
Crash ==
  /\ upsets > 0 /\ (Busy \/ found # {})
  /\ job' = NoJob /\ found' = {} /\ crashed' = TRUE /\ upsets' = upsets - 1
  /\ UNCHANGED <<rows, aged, reads>>

\* The drive phase of the drain at one artifact.
Drive(a) == Bridge(a) \/ VerifyStart(a) \/ StrictQA(a) \/ Publish(a)
Write == \/ DoPut \/ DoDiagnose \/ DoRecheck \/ DoShut \/ DoHeal \/ DoVerify
         \/ DoFile \/ DoBudget \/ DoScore \/ DoRelease \/ DoDrop \/ DoForget
         \/ DoClose \/ DoRepairs

Next ==
  \/ \E a \in Artifacts : \/ ExtractNew(a) \/ ExtractAgain(a) \/ Drive(a)
                          \/ Triage(a) \/ Recover(a) \/ RecheckHold(a)
  \/ \E s \in Slugs : Hide(s)
  \/ Repair \/ Write \/ MaintFind \/ MaintRequeue \/ Week \/ Crash

Spec == Init /\ [][Next]_vars

\* A handler under way goes on; the drain runs in every pass and drives some
\* artifact of the funnel, and a pass that finds plans repairs them.
Fairness ==
  /\ WF_vars(Write) /\ WF_vars(MaintRequeue) /\ SF_vars(Repair)
  /\ SF_vars(\E a \in Artifacts : Drive(a))
FairSpec == Spec /\ Fairness

-----------------------------------------------------------------------------
(* Properties *)

\* An artifact marked PUBLISHED stands for a row of public content, shown or
\* taken down since, whichever artifact brought it there: its own, one of the
\* same slug, or the one it was taken for a duplicate of.
Backed(s) == s \in Slugs /\ public[s] # "none"
PublishedHasContent ==
  \A a \in Artifacts : Is(a, "PUBLISHED") => Backed(art[a].row)

\* "Already public under this (contentType, slug)", as runPersistAndPublish says
\* of the duplicates it marks: what is PUBLISHED has a row under its own slug.  The
\* code does not keep this: a duplicate may be of another slug's page.
PublishedUnderItsSlug ==
  \A a \in Artifacts : Is(a, "PUBLISHED") => public[SlugOf[a]] # "none"

\* Judged fit to publish: strict QA passed it, and a doctrinal one is confirmed
\* by evidence for every need; for the fields it has now, as long as no end of
\* the process came between a heal and clearJudgementsFor.
Judged(a) ==
  /\ qa[a] = "passed"
  /\ a \in Doctrinal => evid[a] = "match"
  /\ crashed \/ \A k \in {"qa", "evidence"} : <<k, a>> \notin stale

\* The funnel implements Publication: through every handler, lane, repair and
\* heal, what becomes public does so for an artifact that is judged right then.
Promise == INSTANCE Publication
  WITH judged <- {a \in Artifacts : Judged(a)},
       shown <- [s \in Slugs |-> public[s] = "live"]
PublishesTheJudged == Promise!Spec

\* Unless the process ended in mid-handler, an artifact waits for repair only
\* while a plan about it is open, or while the handler at it goes on.
Planned(a) == \E p \in plans : p.of = a
NoOrphanRepair ==
  \A a \in Artifacts : Is(a, "NEEDS_REPAIR") => \/ Planned(a) \/ crashed
                                                \/ job.art = a

\* A package that spent its verification rounds stays with a person: only the
\* weekly requeue takes it out of review, never a repair plan left open.
Waits(a, d) == Is(a, "NEEDS_REVIEW") /\ art[a].diag = d
ExhaustedWaits ==
  [][\A a \in Artifacts : Waits(a, "exhausted") /\ ~ Waits(a, "exhausted")'
                          => a \in found]_vars

\* A published artifact stays published, but for the rows self-maintenance has
\* read before they were published and requeues by id after.
PublishedKept ==
  [][\A a \in Artifacts : Is(a, "PUBLISHED") /\ ~ Is(a, "PUBLISHED")'
                          => a \in found]_vars

\* "Lanes touch DISJOINT work domains [...], so they don't fight over rows", as
\* lanes.ts says: what is published stays so, whatever both lanes are at.  The code
\* does not keep this: self-maintenance requeues by id (repairParkedArtifacts).
PublishedForGood ==
  [][\A a \in Artifacts : Is(a, "PUBLISHED") => Is(a, "PUBLISHED")']_vars

\* Again and again the funnel is empty: whatever is in it, or is to be repaired
\* by an open plan, is public, refused, put up for review or back before the
\* funnel in the end; no round of repair and retry goes on for ever.
InFunnel(a) ==
  \/ art[a].status \in Healthy \ {"PUBLISHED"}
  \/ Is(a, "NEEDS_REPAIR") /\ Planned(a)
FunnelDrains == []<>(\A a \in Artifacts : ~ InFunnel(a))

=============================================================================
