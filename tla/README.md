# Verification of the Admin Worker

Via Fidei is a Next.js site whose content is gathered, checked and published by
an autonomous "Admin Worker". The worker does not run in the cloud: it runs on
the operator's Mac, under a small supervisor, and Postgres is the only truth it
shares with the web service and the iPhone remote. Two things are hard in this
system. One is who may compute at all: one executor at a time, OFF means OFF from
any of three places, an outage decides nothing, and a shared single-request Python
process serves many callers. The other is what becomes public: a package artifact
passes through stages, repairs and retries that each write one row at a time, run
beside each other, are given up by watchdogs and die in the middle, and a walk over
Wikidata's corpora that goes on for weeks must neither miss an entity nor get stuck.
These modules model both.

## Inventory

| component | source | state | operations | hard behaviour | what makes it correct |
|---|---|---|---|---|---|
| execution lease | `admin-worker/execution-host.ts` | one `AdminWorkerMemory` row: holder and stamp | claim, renew, release | read and write are separate round trips of several runtimes; failed calls; a holder that dies | a claim takes over only an expired lease, nothing unwritten is reported as acquired, an abandoned lease is reclaimed |
| master switch | same file, `switch/route.ts` | one row | read, write | written by the host, the phone and late writes; unreadable in an outage | OFF ends every worker, ON gets one running |
| local worker host | `scripts/local-worker-host.ts` | `HostState`, timers, pending OFF | boot resume, switch poll, lease tick, watchdog, `POST /api/switch`, start and stop of the child, exit event, shutdown | asynchronous tasks that interleave at every `await`; stops that overlap; late exit events; a spawn that fails; a host that quits or is killed | no worker is lost but to a late exit event, run state and child agree, no automatic start against an OFF, nobody left behind on the way out |
| restart lifecycle | `restart-lifecycle.ts`, `worker-exit.ts`, `switch-poll.ts` | an armed timer, tickets | crash, refusal and resume decisions | timers against operator requests; edges read once | as above; a parked worker is parked for the stated reason |
| worker child | `scripts/run-worker.ts`, `loop.ts` | phase | authority check, loop check, cleanup | shares the runtime id with its host; reads the switch on its own | stops on OFF, its exit code says why |
| Python brain bridge | `intelligence/client.ts`, `single-flight.ts` | turn, waiters, pending, held turns, process, status | call, answer, timeout, exit, shutdown | late answers, recycling, two processes at once | one owner of the turn, no lost process, recovery |
| lanes and passes | `loop.ts`, `lanes.ts`, `worker-lanes.ts`, `passes.ts` | the pass row, the lane-state table, the runs in flight | open, dispatch a stage, run two batches of lanes, close, reap | no run can be cancelled: a watchdog gives it up and it goes on; a lost lane-state write; a reaper against a pass that lives | a lane is not run beside its own abandoned run, a closed pass stays closed, every pass ends, every lane comes back |
| publishing | `dispatcher.ts`, `build-ready-drain.ts`, `publish-orchestrator.ts`, `repair-orchestrator.ts`, `repair-plans.ts`, `checklist-citation-orchestrator.ts`, `research-holds.ts`, `human-review.ts`, `self-maintenance.ts`, `post-publish-rollback.ts` | artifact, verdict, evidence, plan, budget and public rows | extract, bridge, verify, score, publish, drain, repair, heal, retry, requeue, unpublish | two lanes on the same rows; a crash between any two writes; a heal that outdates a verdict; plans filed, closed and obsolete | only what is judged becomes public, PUBLISHED stands for a row that exists, retries end, nothing is stranded |
| structured ingest | `structured/ingest.ts`, `source-page.ts`, `map-row.ts`, `reject-memory.ts`, `source-cooldown.ts`, `sweep.ts`, `lease.ts`; `isStaleCursor` and its repair in `self-maintenance.ts` | a cursor per ingestor and holder, rejection memos, a source cool-down, a lease row per ingestor | a pass over a page, an operator's sweep, a rewind | a page is held, skipped, cut short or unanswered; the cursor is read at the start of a pass and written minutes later; every read fails open; somebody else rewinds the cursor | nothing is stepped over, a memo says what is true of its entity, every fit entity is published in the end |
| admin sessions, second factor, email tokens | `lib/auth/*` | session, challenge and token rows | issue, attempt, consume, promote | concurrent requests on one row | not modelled yet |
| rate limits, counters, caches, advisory lock | `lib/security/*`, `lib/cache/*`, `lib/concurrency/*` | rows and per-process maps | hit, reset, revalidate | several instances | not modelled yet |
| discovery and extraction, Python package, web UI, iPhone app, schema | the rest | – | – | text processing, I/O, rendering | out of scope |

The parts meet in six places. The host calls the lease functions from four
tasks (boot, poll, tick, request) and its child calls them under the same runtime
id. The switch row is written by the host's requests, by the phone and by retried
writes, and is read by the poll, by restart decisions and by the child. The brain
bridge is a resident process of the worker child and of the host, and is shut
down by every switch-OFF. The child's loop runs the passes, whose stage and lanes
are the handlers of the publishing funnel; that a lane does not run beside itself
(`LanesApart`) is what lets the funnel speak of *the* drain. One of those lanes runs
the structured ingest, and steps aside for an operator's sweep of the same corpus. And funnel and ingest meet the public site in
one row per slug.

## Modules

**`ExecutionLease`** is the lease row and the tasks that call the lease functions
(`Agents`, mapped to runtime ids by `IdOf`; a host and its child share one).
Every round trip is an action: `ClaimRead`, `ClaimCas` (the take-over, an update
conditional on `updatedAt`), `ClaimReread` after a lost race, `ClaimCreate` (the
upsert when no row was read), `RenewRead`/`RenewWrite`,
`ReleaseRead`/`ReleaseDelete`. A call may fail, and a failed write may or may not
have landed. The stamp is the client's clock when the write is sent, so it lies
between the read and the moment the write lands. `working` is the set of runtimes
that believe they may execute.

**`LocalHost`** is the host process with its child. The host is single threaded,
so the code between two awaits is one action and its tasks (`"poll"`, `"tick"`,
`"quit"`, `Requests`, `Decisions`) interleave at the awaits. `task[t]` is where a
task waits and what it has read; `host` holds the fields of `HostState` that decide
something; `proc` holds worker processes, at first tracked by `host.child`,
later perhaps forgotten. A stop that runs out of grace kills its child and clears the
handle without waiting for the exit event, so the next child may be spawned first; the
exit event then clears whatever handle is there, and a worker that loses its handle
like that is marked `lost`. `switch`, `seen` (the poll's last reading), `lease` (who
holds a live lease) and `late` (writes given up on that may still land) are the
database. `Stop`, `Spawn` and `ExitEvent` are the three places where the run
state, the child handle and the waiting stops change together. `Spawn` may throw,
and a child may report an error without ever having a pid (`SpawnFails`): both
lead to a crash decision. `QuitBegin`, `QuitRelease`, `QuitGo` are the host's
shutdown, `HostKilled` its death at any point; `HostGone` forgets everything the
process knew, turns its lease into one of a dead id (`"old"`) and its child into
an orphan, and `Relaunch` boots the next host beside what is left.

**`BrainBridge`** is the bridge to the Python process. One step is one event of
the Node process (a call, a timer, a line of output, an exit) with every promise
continuation it settles; `HandOn` is what the release of a turn sets off: the next
waiter finds the bridge available and writes, spawning a process if need be, or
every waiter gives up. `pipe` is what the process has been sent and not answered.
`overdue` and `misses` are history variables for two of the properties.

**`Turns`** is what the queue before the brain promises (`single-flight.ts`): a caller
arrives, leaves, has the turn when it is the first in the queue and the turn before it
has ended, or is turned away with all the others. `BrainBridge` implements it: its
`waiters` are the queue, and who has the turn is the call that is `pending` or `held`,
so a turn outlives the call that timed out.

**`WorkerPass`** is one worker process and its loop. A pass opens its row,
dispatches one stage under a watchdog, runs the content lanes, closes its row, and
runs the ops lanes, at most `Concurrency` at once. A run that its watchdog gives up
becomes a ghost that goes on (`GiveUp`, `GhostEnds`); the only thing that keeps
the lane from starting again beside it is the error and the time in its
lane-state row. There is no clock: runs, ghosts, errors and open rows carry ages,
which `Tick` advances. The escalation lane and a booting worker reap rows left
RUNNING; a stop closes the current pass; a crash leaves it.

**`ArtifactFunnel`** follows a package artifact from the read that created it to
the public row, the refusal or the review it ends in. A handler reads, awaits and
then writes one row at a time, so it is a step that leaves a list of writes in
`job.todo`, and one action per kind of write (`DoPut`, `DoHeal`, `DoVerify`,
`DoScore`, `DoRelease`, `DoFile`, ...) carries out its head; self-maintenance (which
reads, and later writes by id: `MaintFind`, `MaintRequeue`) and `Crash` may come
between any two. `DoRelease` is the end of the publish orchestrator: it shows the row
under the artifact's own slug, or answers that the page is a duplicate of one shown
under another slug, and either way the artifact is marked PUBLISHED with the row it
stands for (`art[a].row`, `publishedContentId`). A slug that no artifact has is one
where some other pipeline's page is public from the start. `Triage` and `Drive` are the drain's two halves, `Repair` takes the
oldest plan, `Routes`, `Refusals` and `Publish` are the publish stage, `Hide` is a
rollback's unpublish. `stale` and `crashed` are history variables: the judgements
that were made of fields replaced since, and whether the process died between two
writes.

**`Publication`** is what the funnel promises, whatever its stages: pages become
visible only for artifacts that are judged at that moment. `ArtifactFunnel`
implements it under the mapping `judged <- {a : Judged(a)}`,
`shown <- public[s] = "live"`; TLC checks the implementation
(`PublishesTheJudged`) and it is proved.

**`StructuredIngest`** is one ingestor's corpus, its cursors and who moves them. A
pass (`PassStep`) is split at the points where others may come between: the checks
at its start (`WorkerBegin`, `SweepBegin`), the read of cursor and live index
(`Load`), each page (`Fetch`, or `SourceFails`), the row loop (`MapPage`), the
rejection memory (`Record`) and the cursor (`Save`). `pass[p]` is what it has in
memory. `Take` to `Released` is the operator's sweep with its lease, on a cursor of
its own; `Sense`, `RepairRead`, `RepairWrite` are self-maintenance. Rows are fit
(to be published), unfit (rejected for what they are, and remembered) or dead (rejected
and not remembered: a 404, a mapper that throws). `memo[r]` is the code a rejection is
remembered by: `"entity"`, or `"publish_rejected"` for what the publish orchestrator
refused. The publish of a fit row may succeed, throw, or come back refused, since the
orchestrator answers a database error with a blocked publish. Which source reads and
publishes go wrong, how far the budget reaches and what the hydrating query leaves out
is free, as far as `MaxFaults` goes. A lease may run out at any moment, its sweep at
work or not (`LeaseExpires`). `reached` is a history variable: the rows a cursor's passes have
looked at.

**`MC*`** modules give the small instances. In each module, a definition that sits
just above another and is named for a mistake (`NotKilled` above `Killed`) is a
mutant of it, used to confirm that a property can fail.

## Runs

| run | shows | bounds |
|---|---|---|
| `lease` | `ClaimSparesLiveLease`: the row a take-over overwrites has expired; `NoInventedClaim`: a runtime starts to execute only when the row names it; `StaleExecutorStops`, `AbandonedLeaseIsReclaimed` under fairness | 2 runtimes, TTL 2, clock to 4, 1 failed call |
| `lease_one_winner` | *violated*: with no row, two claims both succeed | no fault needed |
| `host` | `UntrackedOnlyByLateExit`: a worker runs on untracked only if the end of a killed predecessor cleared its handle; `RunStateTracksChild`, `AutoStartsRespectOff`, `QuitLeavesNobody`; `OffMeansOff`, `OffIsRecorded`, `TakenLeaseStopsWorker`, `OnIsHonoured` under fairness | 2 requests, 2 decisions, 2 processes, 2 events |
| `host_late_exit` | *violated*: the late exit event of a killed child untracks the new one | the same |
| `host_failed_parking` | *violated*: parked as "lease held elsewhere" with nobody else about | 1 process, 2 events |
| `brain` | `OneTurn`, `NeverBehindAbandoned`, `NoOrphanBrain`; `TakesTurns`, the refinement of `Turns`; `BrainRecovers` under fairness | 3 calls, 3 processes, 2 restarts a window, 3 faults |
| `brain_recycle` | *violated*: a fresh process is recycled for its predecessor's timeout | 2 events |
| `funnel` | `PublishedHasContent`: what is PUBLISHED stands for a row that was made; `NoOrphanRepair`, `ExhaustedWaits`, `PublishedKept`; `PublishesTheJudged`, the refinement; `FunnelDrains` under fairness | 2 artifacts of one slug, one of them doctrinal, a public page under another slug, 2 reads, 1 verification round, retry budget 1, 1 upset |
| `lanes` | `LanesApart`: an abandoned run is alone until its watchdog limit has passed again; `ClosedStays`; `PassEnds`, `LanesComeBack`, `OrphansReaped` under fairness | a stage, 3 lanes, one tick = 5 min, 1 lane in flight, 1 abandoned run, 1 fault |
| `ingest` | `NothingSteppedOver`, `SweptIsReached`, `MemosAreTrue`: what a memo says of an entity is true of it | 4 rows (2 fit, 1 unfit, 1 dead) in 2 pages and an empty third, 1 publish or 1 budgeted row a pass, 1 lane pass and 1 sweep, 2 skips, 2 failures to unusable, 2 faults |
| `ingest_live` | `NothingSteppedOver` of two overlapping passes of the lane; `EveryFitIsPublished`, `RejectionsAreRetested` under fairness | the same rows, 2 lane passes, no sweep, 3 faults |
| `ingest_dead_rows` | *violated*: a dead row in front of a fit one holds the page for ever | the same rows in another order, no fault |

*Why the bounds are enough.* Two runtimes race for the lease over two
lifetimes of it; two tasks of one runtime (a host and its child) add a race of a
renewal with an own claim, which the proofs cover: the types and both claim
properties are proved for any agents. An event of `LocalHost` is something from outside (an
operator's request, a write from the phone, an outage, a crash, a hang, a lost
lease, a write given up on, a spawn that fails, the host quitting or being killed);
every interleaving of the host's own tasks is free.
The races found need two or three events, and a third request or decision only
repeats a role the two already play. Two process slots are a killed child not yet
reaped and its successor, or the present child and the orphan of a dead host. The
four safety properties are proved for any number of events, and were checked with
three as well. In `BrainBridge` two faults reach the throttle and the down latch,
three give a fault on the way back; three calls give an overdue request, one in
flight and one waiting. In `lanes` a tick stands for five minutes: the
watchdogs of the stage and the drain are two ticks (ten minutes), discovery's eight
minutes are rounded to two, the reapers look at two and three ticks (ten and fifteen
minutes), and ages saturate once every limit is behind them. One fault and one ghost
are the shortest way to each property's edge; an instance with two lanes in flight,
two ghosts and three faults (5.4 million states) was checked for `TypeOK`,
`LanesApart` and `ClosedStays` as well, and the liveness properties with two faults.
In `funnel` two artifacts compete for one slug and one host-keyed plan, and either may be
taken for a duplicate of the page under the other slug; one round and
one budget unit reach the limit and the attempt after it; two reads give a first
extraction and a heal (or two artifacts), one upset a week of silence, a crash or a page
taken down. The invariants and action properties are proved for any number of each, and
two artifacts of slugs of their own, with takedowns unbounded, were checked too.
In `ingest` a page is two rows, so each page has one that is mapped and one that
holds it; the budget covers one row, the least that moves at all; the dead row is
second on its page (see `BudgetReaches` below). Four rows end on a page boundary,
which makes the last page empty, the case self-maintenance looks for. Two faults in a
row make the source unusable, one more than it takes to lose a write, to fail a publish
or to skip a hydrated row. The liveness properties are checked without a sweep, whose
cursor is its own; beside a sweep, both were checked with one fault and one failure to
unusable (240 thousand states). The safety invariants are proved for
any number of passes, sweeps and faults.

*Deadlock* is checked in every run but `funnel`, whose cfg says `CHECK_DEADLOCK
FALSE`: with the reads and upsets of its bounds spent and every artifact published,
refused or waiting for a person, that system really has nothing left to do.

### Findings

Claims of the repository that a run refutes:

1. `lease_one_winner`: "two runtimes racing for the lease cannot both win"
   (`execution-host.ts:279`) holds for a take-over. The create path is an upsert
   that overwrites, so two runtimes that read no row both win; the loser finds out
   at its next renewal.
2. `host_failed_parking`: a child that refuses because the switch was OFF for a
   moment exits with the code of a lease held elsewhere. If the switch is ON
   again when the decision reads it, the host reports another runtime and parks.
   The poll may have consumed the OFF-to-ON edge meanwhile, and nothing ends it.
3. `host_late_exit`: "There is exactly one active executor" (`execution-host.ts:23`).
   A child that outlives its grace is killed and its handle cleared at once
   (`local-worker-host.ts:632`), the next child is spawned, and the exit handler
   (`:541`) clears the new child's handle when the killed one's event comes. The new
   worker runs on beyond stop, watchdog and tick; it still obeys the switch
   (`OffMeansOff`).
4. `brain_recycle`: `_consecutiveTimeouts` outlives the process it counts for.
5. `ingest_dead_rows`: "the next pass finishes it [...] so nothing is fetched twice"
   (`ingest.ts:102`). A rejection that is not remembered (a dead article, a mapper that
   throws) is mapped again in every pass, so enough of them in front of a publishable
   row use up the budget and hold the page for good.

The modules state some more claims that TLC refutes; each has its comment in the
module, and is seen by giving it to TLC in place of the properties of a `.cfg`:

* `RenewalSparesLiveLease` (`ExecutionLease`, instance of `lease_one_winner`): the
  renewal writes the row without comparing it (`execution-host.ts:408`), over the live
  lease of a runtime that took it in between.
* `UnrecordedOffHolds` (`LocalHost`, instance of `host_failed_parking`, `Spec`):
  `HostState.offNotRecorded` says nothing restarts the worker while it is set; an ON
  request past its switch write does not look (`local-worker-host.ts:1599`).
* `OnlyStandingOffIsRetried` (the same, 3 events): `writeDurableOff` takes its request
  number after waiting for the child to stop, when a newer ON may already have come
  (`local-worker-host.ts:785`), and the OFF is recorded against the ON.
* `PublishedForGood` (`ArtifactFunnel`, instance of `funnel`, `Spec`): self-maintenance
  requeues by id what it read earlier (`self-maintenance.ts:1262`), and takes a fresh
  PUBLISHED back to BUILD_READY, although `lanes.ts:11` calls the lanes disjoint.
  `PublishedKept` says that nothing else does.
* `PublishedUnderItsSlug` (the same): `dispatcher.ts:3000` calls a duplicate "already
  public under this (contentType, slug)", but the semantic gate and the checklist item's
  row answer it of another slug's page (`publish-orchestrator.ts:375`, `:785`).
* `OutageDefersNobody` (`StructuredIngest`, instance of `ingest`): "Codes that say nothing
  about the entity are NOT remembered" (`reject-memory.ts:25`). A publish that a database
  error stopped comes back blocked, not thrown (`publish-orchestrator.ts:587`, `:758`,
  `:906`); it becomes `publish_rejected`, which is remembered, and a fit entity waits for a
  day and more. `EveryFitIsPublished` says that this is a delay, not a loss.
* `SweepWorksAlone` (`StructuredIngest`, the same): `sweep.ts:13`
  says the lease makes the worker step aside while the sweep runs. Its TTL is the page
  budget and ten minutes, it is renewed only between pages, and a wait for the source may
  last 15 or 30 minutes (`sweep.ts:203`, `:256`, `:296`): it may run out, and the lane
  then walks beside the sweep. `NothingSteppedOver` and `EveryFitIsPublished` hold
  nonetheless, since each has a cursor of its own.

## Fairness

`ExecutionLease`: the clock runs, a call that has started completes (each database
call has a time limit), the lease tick renews while its worker runs. Only
`Persistent` agents are assumed to claim again; in `lease` the runtime that
leaves a lease behind is not one of them. `LocalHost`: the intervals (poll, tick,
watchdog, blocked-until, armed restart) fire, a database call is answered or given
up on, a killed process is reaped, the loop checks its authority before a pass,
a worker that is well notices within seconds that its host is gone, a lease nobody
renews runs out, and the database comes back; no fairness for operators, the phone,
the relaunch or faults.
`BrainBridge`: timers fire, a process that is well answers, exit events are
delivered, the worker keeps calling. `WorkerPass`: the clock runs, the loop proceeds
when what it awaits has ended or was given up, a process that is down or leaving
ends and is started again, and the escalation lane's run is done infinitely often
if it is started infinitely often; no other run is ever assumed to settle, which is
what the watchdogs are for. `ArtifactFunnel`: the writes of a handler that has begun
follow each other, self-maintenance writes what it has read, repair plans are taken
up (the governor forces REPAIR, `governor.ts:412`, `brain-candidates.ts:71`), and
the drain, which runs in every pass, drives some artifact of the funnel
(`build-ready-drain.ts:623`). Both of the last are strong, since the lane is
busy with other work in between. No fairness for reads, retries, rollbacks, upsets or
a week passing. `StructuredIngest`: the lane comes back to the ingestor (the
maintenance floor of `pickIngestor`, `ingest.ts:551`), a pass and a sweep that run go
on, rests, cool-downs and leases run out, and a memo's backoff (a day to a week) ends
during some rest of the cursor (six hours in each sweep). No fairness for starting
sweeps, for self-maintenance or for faults. In all six, faults and outside events are
bounded, so a liveness property speaks of what follows the last one.

`OffIsRecorded` lets the OFF end with the host: what only the process knew is gone
with it, and the next host resumes a row that still says ON. `OnIsHonoured` asks for a
host that is up. `OffMeansOff` and `OnIsHonoured` are of the form "if the switch stays as it is for
ever then ...", since neither holds while an operator keeps changing it.
`OnIsHonoured` allows the host to say `failed`; that this need not be true is
finding 2.

## Proofs

`ExecutionLeaseProofs` proves, for any agents, runtimes, TTL and bounds:

* `Typing`: `Spec => []TypeOK`. The type invariant is inductive by itself; one
  lemma per group of actions.
* `TakeOverSparesLiveLease`: `ClaimSparesLiveLease`. The row is compared by its
  stamp, not by its holder, so the argument needs that what was read was expired
  when it was read and stays so: `SeenExpired` (an agent in `claim_cas` that read
  another runtime's lease read one that is expired now) is inductive because the
  clock never runs back, and an equal stamp is just as old.
* `AcquiredIsWritten`: `NoInventedClaim`, an action property that needs only the
  types.

They use the assumptions of `LeaseAssumption` alone: `IdOf` is a function into
`Runtimes`, `TTL` is positive, `NoRow` is not a lease.

`BrainBridgeProofs` proves, for any number of calls, processes, restarts and
faults:

* `BridgeTyping` (`TypeOK`), `TurnHasOneOwner` (`OneTurn`), `NoBrainIsLost`
  (`NoOrphanBrain`), from the one inductive invariant `BridgeInv`, their
  conjunction: `OneTurn` is what tells a step that the request it ends was the
  only one, and the other two go along. The argument goes through two lemmas about
  `HandOn`, the step that all events share: `HandOnEffect` (what it leaves
  behind) and `HandOnKeeps` (it keeps the invariant whenever the event has ended
  every other request). They use `BridgeAssumption`: the bounds are naturals.
* `NothingWaitsBehindAbandoned` (`NeverBehindAbandoned`), by a second invariant
  `PipeInv` on top of the first. What stands ahead of a request in a pipe is known
  only if every pipe is known: `OrderedPipes` says that all of a pipe is overdue but
  for a last request, which may be the one in flight or held; `FreshQueue`, that who
  waits for the turn waits once and has nothing in a pipe; `LivePipes`, that a process
  that does not run has an empty pipe. The write of the caller just given the turn
  (`HandOn`) is where the three meet.
* `TurnsInArrivalOrder` (`TakesTurns`), the refinement, from `BridgeInv`: every event
  that releases the turn ends the one request there is (`OneTurn` again), so that what
  `HandOn` leaves is the head of the queue and nobody else (`TurnPasses`); and a turn
  released with nobody to have it, as a shutdown does, found nobody waiting.

`LocalHostProofs` proves, for any requests, decisions, processes and events:

* `HostTyping` (`TypeOK`), `RunStateFollowsChild` (`RunStateTracksChild`),
  `UntrackedWorkersWereLost` (`UntrackedOnlyByLateExit`) and `QuitLeavesOnlyOrphans`
  (`QuitLeavesNobody`), from
  `HostInv == TypeOK /\ RunInv /\ QuitInv /\ UntrackedOnlyByLateExit`. `RunInv` adds to
  `RunStateTracksChild` that a host on its way out has no fresh ticket and no child but
  one that it is stopping; `QuitInv`, that the shutdown goes on to its release only
  once the child is gone. Nothing is assumed of when a killed child is reaped.
* `AutomaticStartsRespectOff` (`AutoStartsRespectOff`), an action property. Of every
  step that starts the worker the proof finds the decision behind it: a poll and a
  restart ask `MayStart` or `MayRestart` in the same step, and what is left is an
  operator's own ON. `host.offNotRecorded` refuses the first two.

`WorkerPassProofs` proves, for any lanes, limits, watchdogs and bounds:

* `Typing` (`TypeOK`): the lanes in flight belong to the batch the phase is in and
  never exceed `Concurrency`, which needs cardinalities of finite sets only.
* `RunsApart` (`LanesApart`), by the inductive part `Kept`: of every ghost, either
  its lane's row was lost, or the watchdog limit has passed once more, or its lane
  rests and the row still carries the watchdog's error, with a time the ghost's age
  accounts for.
* `ClosedForGood` (`ClosedStays`), by the inductive part `Honest`: as long as the
  loop may still write its pass, the row is open, or the reaper or a stop was there
  first.

`ArtifactFunnelProofs` proves, for any artifacts, slugs, rounds and budgets:

* `Typing` (`TypeOK`), which says of every list of writes that it is one the
  handlers make.
* `ContentBehindPublished` (`PublishedHasContent`) and `Implementation`
  (`PublishesTheJudged`), from the inductive invariant
  `IInv == TypeOK /\ PublishedHasContent /\ Placed /\ Guarded /\ Fresh`. `Placed`:
  a handler with writes left is at an artifact, unless it is about to take the next
  plan. `Guarded`: while a release is still to be written its artifact stands
  judged, and PUBLISHED is marked only after the release, with a row that exists: the
  artifact's own, or that of the page it repeats. `Fresh`: judgements are
  out of date only between a heal and the write that clears them, unless the
  process ended there. The refinement step then needs only that `DoRelease` is the
  one write that shows a page.
* `OrderlyThroughout`, and from it `NothingOrphaned` (`NoOrphanRepair`),
  `PublishedStays` (`PublishedKept`) and `GivenUpStays` (`ExhaustedWaits`). What a
  handler has still to write was decided on a row that self-maintenance may have moved
  since, so the properties need to know which writes may come, in which order, for a
  row in which state. `Orderly` says that in three parts. `Suits`: the next write and
  those after it are one of the shapes in `Coming`, where every shape that may touch a
  row needs the artifact not `Settled` (public, or given up), QA_PASSED is written only
  beside a verdict that passed, and a plan is closed only once its artifact waits for
  repair no longer. `Sound`: plans are of the kinds that are filed, and what was given
  up is in review and not to be retried. `Mended`: what waits for repair has a plan, or
  the handler at it is about to file one. It is stable because the requeue only ever
  takes an artifact out of the states the shapes forbid (`MovedComing`).
  `PublishedStays` and `GivenUpStays` are one lemma, `SettledStays`: no step but
  the requeue touches the row of a settled artifact.

`StructuredIngestProofs` proves, for any corpus, page size, limits, passes, sweeps
and faults:

* `IngestTyped` (`TypeOK`), `CursorStepsOverNothing` (`NothingSteppedOver`),
  `SweptWasReached` (`SweptIsReached`), `MemosTellTheTruth` (`MemosAreTrue`),
  from the inductive invariant `IngestInv`: these four with `PassKnows` and
  `RepairKnows`. A cursor is written from what a pass has in memory, which may be
  minutes old, so the cursor alone is not inductive: `PassKnows` says that what a
  pass remembers of its start and its page is still true of `reached` and `live`,
  which only grow, and that what it is about to remember as judged is unfit, as
  refused, fit; `RepairKnows`, that self-maintenance writes back no
  rest. `PageShape` is the arithmetic of a page; `CursorSteps` covers every step
  that at most ends a pass and rewrites one cursor.

Every invariant and every action property of the passing runs is proved. Liveness
is model-checked only, since it needs fairness and ENABLED, beyond the prover:
`StaleExecutorStops`, `AbandonedLeaseIsReclaimed`, the last four properties of `host`,
`BrainRecovers`, `PassEnds`, `LanesComeBack`, `OrphansReaped`, `FunnelDrains`,
`EveryFitIsPublished` and `RejectionsAreRetested`. So are the violations: a
counterexample needs no proof.

## Abstractions to keep in mind

* The release of a lease deletes the row without comparing; another runtime's lease can
  be lost that way. The model has it; no property forbids it since nothing in the
  repository promises otherwise.
* `LocalHost` has no clock: the lease is held by "me", "other" or nobody, an
  expired own lease is one that "other" may claim. Backoff delays, the degraded
  flag, failure texts, audit rows, configuration blocks and the 20 s limit of a
  shutdown are left out. An orphan that hangs is beyond anybody's reach:
  `Working` does not count it. The ids of several dead hosts are one id.
* What `LocalHost` says of a worker that was `lost` to a late exit event is only that it
  ends after an OFF: `TakenLeaseStopsWorker` is about the worker the host tracks.
* `BrainBridge` leaves out the memo cache, the probe process, the forced call at
  boot and a `spawn` that throws at once.
* `WorkerPass` has one process. The database calls between two runs may take
  several ticks; the ghost of a dispatched stage is not followed; a paused pass and
  the growth, campaign and active-only gates are a free choice (`Gated`); the reset
  of a wedged lane by self-maintenance is left out; PARTIAL counts as SUCCEEDED.
  `LanesApart` excuses a lane whose row, or the reading of it, was lost: there two
  runs of it do go side by side. `ClosedStays` excuses a stop, which closes the pass
  once more, and the completion of a pass that was reaped while it lived.
* `ArtifactFunnel` has one drain at a time, which `LanesApart` justifies, and takes
  the stage's own Bridge, Verify, QA and Publish as steps of the same handler. Not
  in it: a stage that outlives its watchdog, failed writes (the code swallows them),
  plans abandoned after five throws, the rename of a row to another slug, human-review
  mode, artifacts of older versions, publish-safety refusals that are repaired, the
  curated and structured publishers of the same slug (other pipelines' pages are there
  from the start, not added later), plan pruning, and the drain's
  low-confidence routes.
* What the funnel's properties except is worth knowing. A crash between a heal and
  the write after it leaves a verdict of replaced fields, which may be published
  (`PublishesTheJudged`); a crash between the parking of an artifact and the filing of its plan strands
  NEEDS_REPAIR (`NoOrphanRepair`); self-maintenance requeues by id what it read
  earlier, a fresh PUBLISHED included (`PublishedKept`, and `PublishedForGood` above),
  or an exhausted artifact out of review (`ExhaustedWaits`).
* Met while modelling, and no property's subject: a verification plan that is still
  open lifts a research hold; a row taken down by a rollback can be published again
  through the existing-row path (`publish-orchestrator.ts:672`), although
  `post-publish-rollback.ts:132` says that never happens by itself; and a second
  artifact of a host coalesces into the first one's host-keyed plan, which repairs
  only the first.
* `StructuredIngest` has one ingestor and no clock: a rest, a backoff, a cool-down
  and a lease hold until a step ends them. So a lease may run out however short the
  sweep's work was, which the code's TTL (40 minutes by default) makes rare but, beside
  waits of up to 30 minutes and a page budget the operator sets, not impossible. The
  choice among ingestors, the escalation, the sweep's waits and stop limits (`Loop` may
  end it at any time) are left out, and so are the refusals of a fit entity for its text
  (the publish gate is in `ArtifactFunnel`); an entity that is unpublished again is not
  followed.
* The instance of `ingest` has one sweep. Two that race for the lease, a read and
  an upsert, may both be told that they hold it, and one may delete the other's
  (`lease.ts:117`); both then walk the same cursor, and what is proved holds of
  that too.
* `BudgetReaches`. The two liveness properties assume that a pass's budget gets past
  the dead rows of a page. The code does not ensure it: `ingest_dead_rows` is the
  instance that drops the assumption (`NeverStalls`), with the dead row first on its
  page, although the streak limit was made to avoid just that (`ingest.ts:117`).
* A cursor's `lastPageSize` survives a source failure (`ingest.ts:958`), which may
  move the offset on (pages skipped before the failure) while it still says 0 of a
  past end; self-maintenance then rewinds a cursor that is mid-corpus. That costs a
  walk, not an entity: the run has it, and `EveryFitIsPublished` holds.

## Not modelled

Most of the repository's lines are content: the knowledge files under
`checklist/knowledge/` and `content-shared/` (prayers, novenas, church history) are
data without state, and no definition could stand for them. The same goes for
extraction and discovery (text processing of web pages), the Python package (pure
scoring behind a line protocol), the site's rendering and the Swift and schema
files. What has state and is left for later: the second-factor challenge
(`auth/admin-2fa.ts`), email and reset tokens (`auth/tokens.ts`), rate-limit and
failure counters, and the memo caches. In the host: a configuration error, which
parks the runtime, and presence.

## Plan

1. *Row races*: one small module each for the second-factor challenge and the email
   token; the question is the same, what two concurrent
   requests may both be told.
2. *Ingest, further*: what two sweeps that race for the lease may still not do.
3. *Abstract specification* of the lease (at most one unexpired holder once a row is
   there), with a refinement proof like the funnel's and the bridge's.
4. *Publishing, further*: the curated and structured publishers of the same slug, and
   whether a page that was taken down stays down.
5. *Composition*: the funnel under `WorkerPass` with a stage that outlives its
   watchdog, instead of the assumption that one handler runs at a time.
