------------------------------ MODULE LocalHost ------------------------------
(***************************************************************************)
(* The local worker host: one Node process on the operator's Mac that      *)
(* supervises the Admin Worker child (scripts/local-worker-host.ts,        *)
(* src/lib/admin-worker/restart-lifecycle.ts, switch-poll.ts,              *)
(* worker-exit.ts) and the child's own boot, loop and exit                 *)
(* (scripts/run-worker.ts, src/lib/admin-worker/loop.ts).                  *)
(*                                                                         *)
(* The host is single threaded, so the code between two awaits is one      *)
(* step, and its asynchronous activities interleave at the awaits.  Each   *)
(* is a task:                                                              *)
(*   "poll"       the boot resume, then the switch poll (never overlapping)*)
(*   "tick"       the lease tick                                           *)
(*   Requests     POST /api/switch calls                                   *)
(*   Decisions    crash, refusal and resume decisions, and the hung-worker *)
(*                stop that turns into a crash decision                    *)
(*   "quit"       the host's shutdown                                      *)
(* A database call takes effect in one step and its answer is acted on in  *)
(* a later one.  The lease is abstracted to who holds a live one; its row  *)
(* and its races are the module ExecutionLease.                            *)
(*                                                                         *)
(* The host itself ends, in order or not, and is started again under a new *)
(* runtime id; a child it leaves behind is an orphan of the old id.  The   *)
(* ids of several hosts that are gone are not told apart.                  *)
(*                                                                         *)
(* Left out: backoff delays and the degraded flag (they delay a restart    *)
(* and never prevent one), failure texts, audit rows, configuration        *)
(* blocks, and the 20 s limit on a shutdown (its parts have shorter ones). *)
(***************************************************************************)
EXTENDS Integers, FiniteSets

CONSTANTS
  Requests,   \* concurrent POST /api/switch calls
  Decisions,  \* restart decisions under way at once (bound)
  MaxProcs,   \* worker processes that exist at once (bound)
  MaxEvents   \* bound: environment events in a behaviour

Procs == 1 .. MaxProcs
None == 0
Tasks == {"poll", "tick", "quit"} \cup Requests \cup Decisions

ASSUME HostAssumption ==
  /\ MaxProcs \in Nat \ {0}
  /\ MaxEvents \in Nat
  /\ {"poll", "tick", "quit"} \cap (Requests \cup Decisions) = {}
  /\ Requests \cap Decisions = {}

VARIABLES
  switch,   \* the durable master switch is ON
  seen,     \* what the poll last read of it, and whether it was rewritten since
  lease,    \* who holds a live execution lease: this runtime id, one of a
            \* host that is gone ("old"), or another computer
  dbUp,     \* the database answers this host and its child
  late,     \* database writes given up on that may still land: an OFF, or
            \* the release of the lease of a runtime id
  host,     \* the HostState fields and timers that decide something
  task,     \* task[t]: where task t waits
  proc,     \* proc[p]: the worker process in slot p
  budget    \* environment events left

vars == <<switch, seen, lease, dbUp, late, host, task, proc, budget>>
dbVars == <<switch, seen, lease, dbUp, late>>

-----------------------------------------------------------------------------
(* State *)

\* HostRunState; "starting" outlives its step only when the spawn fails.
RunStates == {"off", "starting", "running", "stopping", "crashed", "failed"}
Phases == {"none", "boot", "claim", "work", "hung", "exiting", "exited"}
Codes == {"none", "clean", "refused", "outage", "crash", "killed"}

\* A process that still exists and may compute.
Live(p) == proc[p].phase \in {"boot", "claim", "work", "hung", "exiting"}

Pcs == {"idle", "boot_read", "boot_go", "boot_claim", "boot_claimed",
        "decide", "probe", "claim", "claimed", "give_back",
        "stopping", "release", "lost", "write_on", "written_on",
        "write_off", "release_off", "read", "go", "quit_release", "quit_go"}

\* got: what the last database call answered.  why: what a decision or a stop
\* is for.  fresh: no stop since the task took its ticket.  latest: no operator
\* request since its durable OFF began.  victim: the child a stop waits for.
Idle == [pc |-> "idle", got |-> "none", why |-> "none", fresh |-> FALSE,
         latest |-> FALSE, victim |-> None]

At(pc) == [Idle EXCEPT !.pc = pc]
Ticketed(pc) == [Idle EXCEPT !.pc = pc, !.fresh = TRUE]

\* life: "leaving" once shuttingDown is set, "down" when the process is gone.
NewHost(life) ==
  [life |-> life, runState |-> "off", child |-> None, armed |-> FALSE,
   offNotRecorded |-> FALSE, pendingDurableOff |-> FALSE, blocked |-> FALSE]
NewTasks(poll) == [t \in Tasks |-> IF t = "poll" THEN poll ELSE Idle]

\* orphan: its host is gone.  lost: the end of a child killed before it was
\* spawned has cleared the handle the host had on it (a mark of the model's).
NoProc == [phase |-> "none", code |-> "none", orphan |-> FALSE, lost |-> FALSE]
Orphan(p) == proc[p].orphan
Lost(p) == proc[p].lost

TypeOK ==
  /\ switch \in BOOLEAN
  /\ seen \in {"none", "off", "on", "rewritten"}
  /\ lease \in {"none", "me", "old", "other"}
  /\ dbUp \in BOOLEAN
  /\ late \subseteq {"off", "me", "old"}
  /\ host \in [life: {"up", "leaving", "down"}, runState: RunStates, child: Procs \cup {None},
               armed: BOOLEAN, offNotRecorded: BOOLEAN, pendingDurableOff: BOOLEAN,
               blocked: BOOLEAN]
  /\ task \in [Tasks -> [pc: Pcs,
                         got: {"none", "unknown", "off", "on", "rearmed", "acquired",
                               "held", "unreachable", "wrote", "failed"},
                         why: {"none", "crash", "refusal", "resume",
                               "switch_off", "unrecorded"},
                         fresh: BOOLEAN, latest: BOOLEAN, victim: Procs \cup {None}]]
  /\ proc \in [Procs -> [phase: Phases, code: Codes, orphan: BOOLEAN,
                         lost: BOOLEAN]]
  /\ budget \in 0 .. MaxEvents

Init ==
  /\ switch \in BOOLEAN
  /\ seen = "none"
  /\ lease \in {"none", "other"}
  /\ dbUp = TRUE
  /\ late = {}
  /\ host = NewHost("up")
  /\ task = NewTasks(Ticketed("boot_read"))
  /\ proc = [p \in Procs |-> NoProc]
  /\ budget = MaxEvents

\* An environment event: the phone writes the switch, the database goes down,
\* the operator uses this Mac, the child crashes, hangs or cannot be spawned,
\* another runtime takes the lease, a write is given up on and lands later, the
\* host quits or is killed.
Spend == budget > 0 /\ budget' = budget - 1
Return(t) == task' = [task EXCEPT ![t] = Idle]
Goto(t, pc) == task' = [task EXCEPT ![t].pc = pc]

\* Ticks and timers run once the boot resume has returned.
Booted == task["poll"].pc \notin {"boot_read", "boot_go", "boot_claim", "boot_claimed"}

-----------------------------------------------------------------------------
(* Database calls *)

\* setMasterSwitch: the row changes, and so does its changedAt.
WriteSwitch(on) ==
  /\ switch' = on
  /\ seen' = IF seen = "on" THEN "rewritten" ELSE seen

\* readMasterSwitch, its answer only.  (Mutants of the definition below them
\* are named for the mistake they make.)
AnswerDefaultsOn == IF ~ dbUp THEN "unknown" ELSE "on"
SwitchAnswer == IF ~ dbUp THEN "unknown" ELSE IF switch THEN "on" ELSE "off"

\* acquireExecutionLease by a runtime id: the answer, and the row it leaves.
AnswerTo(id) ==
  IF ~ dbUp THEN "unreachable"
  ELSE IF lease \notin {"none", id} THEN "held" ELSE "acquired"
ClaimLease(id) == lease' = IF AnswerTo(id) = "acquired" THEN id ELSE lease
ClaimAnswer == AnswerTo("me")

\* releaseExecutionLease swallows every error: nothing to answer.
ReleaseOf(id) == lease' = IF dbUp /\ lease = id THEN "none" ELSE lease
ReleaseLease == ReleaseOf("me")

-----------------------------------------------------------------------------
(* startWorkerChild, stopWorkerChild, and what a task does after its stop *)

FreeDecisions == {d \in Decisions : task[d].pc = "idle"}
SomeDecision == CHOOSE d \in FreeDecisions : TRUE
CrashDecision == [Ticketed("read") EXCEPT !.why = "crash"]

\* As a slip would have it: a start still in flight when the host shuts down.
SpawnsLeaving == host.child = None
Spawns == host.child = None /\ host.life = "up"

\* startWorkerChild, the last step of task t, on top of the fields it has set
\* in h: nothing if a child is tracked or the host is on its way out; else a
\* new process, or a spawn() that throws, which counts as a crash.
Spawn(t, h) ==
  \/ ~ Spawns /\ host' = h /\ Return(t) /\ UNCHANGED <<proc, budget>>
  \/ /\ Spawns
     /\ \E p \in Procs :
          /\ proc[p].phase = "none"
          /\ \A q \in 1 .. p - 1 : proc[q].phase # "none"
          /\ host' = [h EXCEPT !.child = p, !.runState = "running"]
          /\ proc' = [proc EXCEPT ![p] = [NoProc EXCEPT !.phase = "boot"]]
     /\ Return(t) /\ UNCHANGED budget
  \/ /\ Spawns /\ Spend /\ FreeDecisions # {}
     /\ host' = [h EXCEPT !.runState = "starting"]
     /\ task' = [task EXCEPT ![t] = Idle, ![SomeDecision] = CrashDecision]
     /\ UNCHANGED proc

\* The error event of a child that never got a pid (onSpawnFailure): the run
\* state is left to the decision.
SpawnFails(p) ==
  /\ host.child = p /\ proc[p].phase = "boot"
  /\ Spend /\ FreeDecisions # {}
  /\ host' = [host EXCEPT !.child = None]
  /\ proc' = [proc EXCEPT ![p] = NoProc]
  /\ task' = [task EXCEPT ![SomeDecision] = CrashDecision]
  /\ UNCHANGED dbVars

\* RestartLifecycle.mayStart.
MayStart(t) ==
  task[t].fresh /\ host.child = None /\ ~ host.offNotRecorded /\ host.life = "up"

\* What task t goes on to do once the child it stopped is gone: the poll
\* releases the lease, a request records its OFF (writeDurableOff notes the
\* newest request only now), a hung-worker stop decides about a restart, the
\* host's shutdown releases the lease and exits.
Resumed(t, r) ==
  CASE t \in Requests                    -> [At("write_off") EXCEPT !.latest = TRUE]
    [] t = "poll" /\ r.why = "switch_off" -> At("release")
    [] t \in Decisions                   -> [r EXCEPT !.pc = "read", !.victim = None]
    [] t = "quit"                        -> At("quit_release")
    [] OTHER                             -> Idle

\* ... and the state it leaves: "failed" for the lease tick (a lost lease).
StaysStopping(ts) == "stopping"
StoppedState(ts) == IF "tick" \in ts THEN "failed" ELSE "off"

\* autoRestart.noteStop spoils every ticket; a request's OFF also supersedes
\* every durable OFF under way (switchRequests).
Spoiled(u, t) ==
  [task[u] EXCEPT !.fresh = FALSE, !.latest = @ /\ t \notin Requests]

\* stopWorkerChild by task t, whose record is r while it waits; h holds what
\* the caller set first.  Without a child it returns at once; otherwise SIGTERM
\* and a wait.  A hung worker may be deaf to SIGTERM.
Stop(t, r, h) ==
  \/ /\ host.child = None
     /\ host' = [h EXCEPT !.armed = FALSE, !.runState = StoppedState({t})]
     /\ task' = [u \in Tasks |-> IF u = t THEN Resumed(t, r) ELSE Spoiled(u, t)]
     /\ UNCHANGED proc
  \/ /\ host.child # None
     /\ host' = [h EXCEPT !.armed = FALSE, !.runState = "stopping"]
     /\ task' = [u \in Tasks |->
          IF u = t THEN [r EXCEPT !.pc = "stopping", !.victim = host.child] ELSE Spoiled(u, t)]
     /\ \/ /\ proc[host.child].phase \in {"boot", "claim", "work", "hung"}
           /\ proc' = [proc EXCEPT ![host.child] =
                         [NoProc EXCEPT !.phase = "exiting", !.code = "clean"]]
        \/ /\ proc[host.child].phase \in {"hung", "exiting", "exited"}
           /\ UNCHANGED proc

\* SIGKILL to the child's process group.
NotKilled(p) == proc
Dead == [NoProc EXCEPT !.phase = "exited", !.code = "killed"]
Killed(p) == [proc EXCEPT ![p] = Dead]

\* What a stop or an exit event does at its end is done to host.child whichever
\* child that is: one spawned after p was killed is lost.
Loses(ps, p) ==
  [q \in Procs |-> IF q = host.child /\ q # p THEN [ps[q] EXCEPT !.lost = TRUE] ELSE ps[q]]

\* The 5 s grace is over: SIGKILL, and the stop returns without its exit event.
StopTimeout(t) ==
  /\ task[t].pc = "stopping"
  /\ LET p == task[t].victim IN
       /\ proc[p].phase = "hung" \/ proc[p] = Dead
       /\ proc' = Loses(Killed(p), p)
  /\ host' = [host EXCEPT !.child = None, !.runState = StoppedState({t})]
  /\ task' = [task EXCEPT ![t] = Resumed(t, task[t])]
  /\ UNCHANGED <<dbVars, budget>>

-----------------------------------------------------------------------------
(* The child's exit event *)

Waiting(p) == {t \in Tasks : task[t].pc = "stopping" /\ task[t].victim = p}

\* interpretWorkerExit: the provisional run state of an exit code.
ExitState(code) ==
  IF host.runState = "stopping" \/ code = "clean" THEN "off"
  ELSE IF code = "refused" THEN "failed" ELSE "crashed"

\* Which decision follows an exit the host did not ask for, if any.
Asked == host.runState = "stopping" \/ host.life = "leaving"
EveryExitDecides(code) == IF Asked THEN "none" ELSE code
Why(code) ==
  IF Asked \/ code \in {"clean", "outage"} THEN "none"
  ELSE IF code = "refused" THEN "refusal" ELSE "crash"

\* The handler, then, before anything else runs, every stop waiting for it.
ExitEvent(p) ==
  /\ proc[p].phase = "exited" /\ ~ Orphan(p)
  /\ proc' = Loses([proc EXCEPT ![p] = NoProc], p)
  /\ LET code == proc[p].code
         outage == code = "outage" /\ ~ Asked
         state == IF outage /\ host.offNotRecorded THEN "off" ELSE ExitState(code)
         waiters == Waiting(p)
     IN /\ host' = [host EXCEPT
             !.child = None,
             !.armed = IF outage THEN ~ host.offNotRecorded ELSE @,
             !.runState = IF waiters = {} THEN state ELSE StoppedState(waiters)]
        /\ IF Why(code) = "none"
           THEN task' = [t \in Tasks |-> IF t \in waiters THEN Resumed(t, task[t]) ELSE task[t]]
           ELSE /\ FreeDecisions # {}
                /\ task' = [t \in Tasks |->
                     IF t \in waiters THEN Resumed(t, task[t])
                     ELSE IF t = SomeDecision THEN [Ticketed("read") EXCEPT !.why = Why(code)]
                     ELSE task[t]]
  /\ UNCHANGED <<dbVars, budget>>

-----------------------------------------------------------------------------
(* The automatic restart lifecycle (restart-lifecycle.ts) *)

\* An armed restart fires (schedule): it decides afresh, unless a child runs.
Fire ==
  /\ host.armed
  /\ host' = [host EXCEPT !.armed = FALSE]
  /\ \/ ~ Spawns /\ UNCHANGED task
     \/ /\ Spawns
        /\ FreeDecisions # {}
        /\ task' = [task EXCEPT ![SomeDecision] = [Ticketed("read") EXCEPT !.why = "resume"]]
  /\ UNCHANGED <<dbVars, proc, budget>>

\* readSwitchForRestart.
DecisionRead(d) ==
  /\ task[d].pc = "read"
  /\ task' = [task EXCEPT ![d].pc = "go", ![d].got = SwitchAnswer]
  /\ UNCHANGED <<dbVars, host, proc, budget>>

\* planAutoRestart.
StandsDown(d) == ~ Spawns \/ ~ task[d].fresh
StaysOff(d) == ~ StandsDown(d) /\ (host.offNotRecorded \/ task[d].got = "off")
Waits(d) == ~ StandsDown(d) /\ ~ host.offNotRecorded /\ task[d].got = "unknown"
MayRestartOnRow(d) == ~ StandsDown(d) /\ task[d].got = "on"
MayRestart(d) == ~ StandsDown(d) /\ ~ host.offNotRecorded /\ task[d].got = "on"

\* afterCrash, afterRefusal, resumeIfSwitchOn, once the switch has been read.
DecisionGo(d) ==
  /\ task[d].pc = "go"
  /\ \/ /\ MayRestart(d) /\ task[d].why = "resume"
        /\ Spawn(d, host)
     \/ /\ UNCHANGED <<proc, budget>> /\ Return(d)
        /\ \/ StandsDown(d) /\ UNCHANGED host
           \/ StaysOff(d) /\ host' = [host EXCEPT !.runState = "off"]
           \/ /\ Waits(d)
              /\ host' = [host EXCEPT !.armed = TRUE,
                   !.runState = IF task[d].why = "resume" THEN @ ELSE "crashed"]
           \/ /\ MayRestart(d) /\ task[d].why = "crash"
              /\ host' = [host EXCEPT !.armed = TRUE, !.runState = "crashed"]
           \/ /\ MayRestart(d) /\ task[d].why = "refusal"
              /\ host' = [host EXCEPT !.runState = "failed"]
  /\ UNCHANGED dbVars

\* checkWorkerProgress: no beacon for too long.  The stop is followed by a
\* crash decision whose ticket was taken just after the stop was noted.
HungRestart(d) ==
  /\ Booted /\ host.life = "up"
  /\ host.child # None /\ host.runState = "running"
  /\ proc[host.child].phase = "hung"
  /\ d \in FreeDecisions
  /\ \A e \in Decisions : task[e].pc # "stopping"
  /\ Stop(d, [Ticketed("stopping") EXCEPT !.why = "crash"], host)
  /\ UNCHANGED <<dbVars, budget>>

-----------------------------------------------------------------------------
(* Boot resume and switch poll: the task "poll" *)

poll == task["poll"]

\* readMasterSwitch at boot; it seeds the poll's edge detection.
BootRead ==
  /\ poll.pc = "boot_read"
  /\ task' = [task EXCEPT !["poll"].pc = "boot_go", !["poll"].got = SwitchAnswer]
  /\ seen' = IF ~ dbUp THEN seen ELSE IF switch THEN "on" ELSE "off"
  /\ UNCHANGED <<switch, lease, dbUp, late, host, proc, budget>>

\* planBootResume: claim, or leave it to the poll (OFF, stopped meanwhile, or a
\* database that did not answer the probe made at launch).
BootGo ==
  /\ poll.pc = "boot_go"
  /\ \/ /\ poll.got = "on" /\ MayStart("poll")
        /\ task' = [task EXCEPT !["poll"].pc = "boot_claim", !["poll"].got = "none"]
     \/ Return("poll")
  /\ UNCHANGED <<dbVars, host, proc, budget>>

PollClaim(from, to) ==
  /\ poll.pc = from
  /\ ClaimLease("me")
  /\ task' = [task EXCEPT !["poll"].pc = to, !["poll"].got = ClaimAnswer]
  /\ UNCHANGED <<switch, seen, dbUp, late, host, proc, budget>>

\* The claim has answered.  Start, give the lease back if a stop came in
\* meanwhile, or put starts on a cooldown (the poll's refusal only).
PollClaimed(from) ==
  /\ poll.pc = from
  /\ \/ /\ poll.got # "acquired"
        /\ host' = [host EXCEPT !.blocked = @ \/ from = "claimed"]
        /\ Return("poll") /\ UNCHANGED <<proc, budget>>
     \/ /\ poll.got = "acquired" /\ ~ MayStart("poll")
        /\ task' = [task EXCEPT !["poll"] = At("give_back")]
        /\ UNCHANGED <<host, proc, budget>>
     \/ /\ poll.got = "acquired" /\ MayStart("poll")
        /\ Spawn("poll", [host EXCEPT !.blocked = IF from = "claimed" THEN FALSE ELSE @])
  /\ UNCHANGED dbVars

\* releaseExecutionLease, after a stop or for a claim nothing will run under.
PollRelease ==
  /\ poll.pc \in {"give_back", "release"}
  /\ ReleaseLease
  /\ Return("poll")
  /\ UNCHANGED <<switch, seen, dbUp, late, host, proc, budget>>

\* readExecutionStatusCached: the value, and whether it was switched on since
\* the previous read (a crossing, or changedAt moved while it stayed ON).
PollRead ==
  /\ poll.pc = "idle" /\ host.life = "up"
  /\ LET rearmed == dbUp /\ switch /\ seen \in {"off", "rewritten"}
     IN task' = [task EXCEPT !["poll"] =
                   [At("decide") EXCEPT !.got = IF rearmed THEN "rearmed" ELSE SwitchAnswer]]
  /\ seen' = IF ~ dbUp THEN seen ELSE IF switch THEN "on" ELSE "off"
  /\ UNCHANGED <<switch, lease, dbUp, late, host, proc, budget>>

\* planSwitchPoll, which plans nothing for a host on its way out.
Enforces ==
  /\ host.offNotRecorded /\ host.life = "up"
  /\ host.armed \/ (host.child # None /\ host.runState # "stopping")
PendingStart == host.armed \/ \E d \in Decisions : task[d].pc # "idle"
MayPlanStart ==
  /\ Spawns /\ ~ host.offNotRecorded /\ ~ PendingStart
  /\ host.runState \notin {"starting", "stopping"}
PollStartsOnEdge == MayPlanStart /\ poll.got = "rearmed"
PollStarts ==
  /\ MayPlanStart
  /\ poll.got \in {"on", "rearmed"}
  /\ (host.runState = "failed" \/ host.blocked) => poll.got = "rearmed"
PollStops ==
  /\ ~ host.offNotRecorded /\ host.life = "up"
  /\ poll.got = "off"
  /\ host.child # None \/ host.armed \/ host.runState \in {"starting", "running"}

PollDecide ==
  /\ poll.pc = "decide"
  /\ \/ /\ ~ Enforces /\ ~ PollStarts /\ ~ PollStops
        /\ Return("poll") /\ UNCHANGED <<host, proc>>
     \/ /\ PollStarts
        /\ task' = [task EXCEPT !["poll"] = Ticketed("probe")]
        /\ UNCHANGED <<host, proc>>
     \/ Enforces /\ Stop("poll", [Idle EXCEPT !.why = "unrecorded"], host)
     \/ PollStops /\ Stop("poll", [Idle EXCEPT !.why = "switch_off"], host)
  /\ UNCHANGED <<dbVars, budget>>

\* probeDatabase, then the ticket again.
Probe ==
  /\ poll.pc = "probe"
  /\ \/ /\ ~ dbUp
        /\ host' = [host EXCEPT !.blocked = TRUE]
        /\ Return("poll")
     \/ dbUp /\ ~ MayStart("poll") /\ Return("poll") /\ UNCHANGED host
     \/ dbUp /\ MayStart("poll") /\ Goto("poll", "claim") /\ UNCHANGED host
  /\ UNCHANGED <<dbVars, proc, budget>>

Poll ==
  \/ BootRead \/ BootGo \/ PollRead \/ PollDecide \/ Probe \/ PollRelease
  \/ PollClaim("boot_claim", "boot_claimed") \/ PollClaimed("boot_claimed")
  \/ PollClaim("claim", "claimed") \/ PollClaimed("claimed")

\* startBlockedUntil passes.
Unblock ==
  /\ host.blocked
  /\ host' = [host EXCEPT !.blocked = FALSE]
  /\ UNCHANGED <<dbVars, task, proc, budget>>

-----------------------------------------------------------------------------
(* writeDurableOff, by a request's OFF or by the lease tick that retries one *)

\* setMasterSwitch(OFF) within 3 s.  Given up on, it may still land.
WriteOff(t) ==
  /\ task[t].pc = "write_off"
  /\ \/ /\ dbUp
        /\ WriteSwitch(FALSE)
        /\ task' = [task EXCEPT ![t].pc = "release_off", ![t].got = "wrote"]
        /\ UNCHANGED <<late, budget>>
     \/ /\ ~ dbUp
        /\ task' = [task EXCEPT ![t].pc = "release_off", ![t].got = "failed"]
        /\ UNCHANGED <<switch, seen, late, budget>>
     \/ /\ Spend
        /\ late' = late \cup {"off"}
        /\ task' = [task EXCEPT ![t].pc = "release_off", ![t].got = "failed"]
        /\ UNCHANGED <<switch, seen>>
  /\ UNCHANGED <<lease, dbUp, host, proc>>

\* releaseExecutionLease within 3 s, then the flags, unless a newer request
\* has taken them over.
ReleaseOff(t) ==
  /\ task[t].pc = "release_off"
  /\ \E released \in BOOLEAN :
       /\ \/ dbUp /\ released /\ ReleaseLease /\ UNCHANGED <<late, budget>>
          \/ ~ dbUp /\ UNCHANGED <<lease, late, budget>>
          \/ /\ ~ released /\ Spend
             /\ late' = late \cup {"me"} /\ UNCHANGED lease
       /\ LET done == task[t].got = "wrote" /\ released
          IN host' = IF ~ task[t].latest THEN host
                     ELSE [host EXCEPT !.pendingDurableOff = ~ done,
                                       !.offNotRecorded = @ /\ ~ done]
  /\ Return(t)
  /\ UNCHANGED <<switch, seen, dbUp, proc>>

\* A write that was given up on lands after all.
LateOff ==
  /\ "off" \in late
  /\ WriteSwitch(FALSE)
  /\ late' = late \ {"off"}
  /\ UNCHANGED <<lease, dbUp, host, task, proc, budget>>

LateRelease(id) ==
  /\ id \in late
  /\ lease' = IF lease = id THEN "none" ELSE lease
  /\ late' = late \ {id}
  /\ UNCHANGED <<switch, seen, dbUp, host, task, proc, budget>>

-----------------------------------------------------------------------------
(* The lease tick *)

RetryDueWhileRunning ==
  host.pendingDurableOff /\ host.child = None /\ host.runState = "running"
RetryDue == host.pendingDurableOff /\ host.child = None

TickRetriesOff ==
  /\ Booted /\ host.life = "up"
  /\ task["tick"].pc = "idle"
  /\ RetryDue
  /\ task' = [task EXCEPT !["tick"] = [At("write_off") EXCEPT !.latest = TRUE]]
  /\ UNCHANGED <<dbVars, host, proc, budget>>

\* renewExecutionLease answers "lost"; "renewed" and "unknown" change nothing.
LostOnlyIfGone == dbUp /\ lease = "none"
LeaseLost == dbUp /\ lease # "me"

TickFindsLost ==
  /\ Booted /\ host.life = "up"
  /\ task["tick"].pc = "idle"
  /\ ~ RetryDue
  /\ host.runState = "running"
  /\ LeaseLost
  /\ task' = [task EXCEPT !["tick"] = At("lost")]
  /\ UNCHANGED <<dbVars, host, proc, budget>>

TickStops ==
  /\ task["tick"].pc = "lost"
  /\ Stop("tick", Idle, host)
  /\ UNCHANGED <<dbVars, budget>>

-----------------------------------------------------------------------------
(* POST /api/switch *)

\* A newer request supersedes every durable OFF under way (switchRequests).
Superseded(u) == [task[u] EXCEPT !.latest = FALSE]

\* ON, after its probe found the database reachable.
OnBegin(r) ==
  /\ task[r].pc = "idle" /\ host.life # "down" /\ dbUp /\ Spend
  /\ host' = [host EXCEPT !.pendingDurableOff = FALSE, !.offNotRecorded = FALSE]
  /\ task' = [u \in Tasks |-> IF u = r THEN At("claim") ELSE Superseded(u)]
  /\ UNCHANGED <<dbVars, proc>>

\* The lease first; a refusal leaves the switch as it was.
OnClaim(r) ==
  /\ task[r].pc = "claim"
  /\ ClaimLease("me")
  /\ IF ClaimAnswer = "acquired" THEN Goto(r, "write_on") ELSE Return(r)
  /\ UNCHANGED <<switch, seen, dbUp, late, host, proc, budget>>

OnWrite(r) ==
  /\ task[r].pc = "write_on"
  /\ \/ dbUp /\ WriteSwitch(TRUE) /\ Goto(r, "written_on")
     \/ ~ dbUp /\ Return(r) /\ UNCHANGED <<switch, seen>>
  /\ UNCHANGED <<lease, dbUp, late, host, proc, budget>>

OnStart(r) ==
  /\ task[r].pc = "written_on"
  /\ Spawn(r, [host EXCEPT !.armed = FALSE])
  /\ UNCHANGED dbVars

\* OFF: the guard and the stop at once; the durable write once it is stopped.
OffBegin(r) ==
  /\ task[r].pc = "idle" /\ host.life # "down" /\ Spend
  /\ Stop(r, Idle, [host EXCEPT !.offNotRecorded = TRUE])
  /\ UNCHANGED dbVars

-----------------------------------------------------------------------------
(* The end of the host, and the next one *)

\* shutdown: a signal, an exception nobody caught, or the application gone.
QuitBegin ==
  /\ host.life = "up" /\ Spend
  /\ Stop("quit", Idle, [host EXCEPT !.life = "leaving"])
  /\ UNCHANGED dbVars

\* releaseExecutionLease within 3 s.
QuitRelease ==
  /\ task["quit"].pc = "quit_release"
  /\ \/ ReleaseLease /\ UNCHANGED <<late, budget>>
     \/ Spend /\ late' = late \cup {"me"} /\ UNCHANGED lease
  /\ Goto("quit", "quit_go")
  /\ UNCHANGED <<switch, seen, dbUp, host, proc>>

\* What the host knew ends with it, an OFF it had not recorded included; its
\* lease and its worker stay behind, under an id no host has any more.
HostGone ==
  /\ host' = NewHost("down")
  /\ task' = NewTasks(Idle)
  /\ seen' = "none"
  /\ lease' = IF lease = "me" THEN "old" ELSE lease
  /\ late' = {IF id = "me" THEN "old" ELSE id : id \in late}
  /\ proc' = [p \in Procs |-> IF Live(p) THEN [proc[p] EXCEPT !.orphan = TRUE] ELSE NoProc]
  /\ UNCHANGED <<switch, dbUp>>

QuitGo == task["quit"].pc = "quit_go" /\ HostGone /\ UNCHANGED budget
HostKilled == host.life # "down" /\ Spend /\ HostGone

\* The application is launched again.
Relaunch ==
  /\ host.life = "down"
  /\ host' = NewHost("up")
  /\ task' = NewTasks(Ticketed("boot_read"))
  /\ UNCHANGED <<dbVars, proc, budget>>

Quit == QuitBegin \/ QuitRelease \/ QuitGo \/ HostKilled \/ Relaunch

-----------------------------------------------------------------------------
(* The worker child (run-worker.ts under the host; loop.ts) *)

Become(p, phase, code) ==
  proc' = [proc EXCEPT ![p].phase = phase, ![p].code = code]

\* The runtime id it was given (--worker-id).
Id(p) == IF Orphan(p) THEN "old" ELSE "me"

\* claimExecutionAuthority: the switch first ...
ChildReadsSwitch(p) ==
  /\ proc[p].phase = "boot"
  /\ CASE SwitchAnswer = "unknown" -> Become(p, "exited", "outage")
       [] SwitchAnswer = "off"     -> Become(p, "exited", "refused")
       [] OTHER                    -> Become(p, "claim", "none")
  /\ UNCHANGED <<dbVars, host, task, budget>>

\* ... then the lease, unless this runtime id already holds it.
ChildClaims(p) ==
  /\ proc[p].phase = "claim"
  /\ ClaimLease(Id(p))
  /\ CASE AnswerTo(Id(p)) = "unreachable" -> Become(p, "exited", "outage")
       [] AnswerTo(Id(p)) = "held"        -> Become(p, "exited", "refused")
       [] OTHER                           -> Become(p, "work", "none")
  /\ UNCHANGED <<switch, seen, dbUp, late, host, task, budget>>

\* checkLoopAuthority under a host: only the switch stops the loop.
ChildSeesOff(p) ==
  /\ proc[p].phase = "work"
  /\ SwitchAnswer = "off"
  /\ Become(p, "exiting", "clean")
  /\ UNCHANGED <<dbVars, host, task, budget>>

\* It dies at once, or fails and leaves through its finally block.
ChildFails(p) ==
  /\ proc[p].phase \in {"boot", "claim", "work"}
  /\ Spend
  /\ \E phase \in {"exited", "exiting"} : Become(p, phase, "crash")
  /\ UNCHANGED <<dbVars, host, task>>

ChildHangs(p) ==
  /\ proc[p].phase = "work"
  /\ Spend
  /\ Become(p, "hung", "none")
  /\ UNCHANGED <<dbVars, host, task>>

\* Its bounded cleanup releases the lease under the id it shares with the host,
\* or runs out of time, and the process is gone.
ChildExits(p) ==
  /\ proc[p].phase = "exiting"
  /\ ReleaseOf(Id(p)) \/ UNCHANGED lease
  /\ Become(p, "exited", proc[p].code)
  /\ UNCHANGED <<switch, seen, dbUp, late, host, task, budget>>

\* watchSupervisingHost: the host's pid is gone.  The event loop of a hung
\* worker may be too busy to notice.
ChildLosesHost(p) ==
  /\ Orphan(p) /\ proc[p].phase \in {"boot", "claim", "work", "hung"}
  /\ Become(p, "exiting", "clean")
  /\ UNCHANGED <<dbVars, host, task, budget>>

\* Nobody waits for an orphan: its slot is free once it has exited.
OrphanReaped(p) ==
  /\ Orphan(p) /\ proc[p].phase = "exited"
  /\ proc' = [proc EXCEPT ![p] = NoProc]
  /\ UNCHANGED <<dbVars, host, task, budget>>

-----------------------------------------------------------------------------
(* The environment *)

PhoneWrites == Spend /\ \E on \in BOOLEAN : WriteSwitch(on)
Outage == dbUp /\ Spend /\ dbUp' = FALSE
Recover == ~ dbUp /\ dbUp' = TRUE

\* The Mac slept, or was cut off, past the TTL; or nobody held the lease.
OtherClaims == lease # "other" /\ Spend /\ lease' = "other"
\* Nobody renews the lease of a host that is gone.
OtherLeaves == lease \in {"other", "old"} /\ lease' = "none"

Environment ==
  \/ PhoneWrites /\ UNCHANGED <<lease, dbUp, late, host, task, proc>>
  \/ Outage /\ UNCHANGED <<switch, seen, lease, late, host, task, proc>>
  \/ Recover /\ UNCHANGED <<switch, seen, lease, late, host, task, proc, budget>>
  \/ OtherClaims /\ UNCHANGED <<switch, seen, dbUp, late, host, task, proc>>
  \/ OtherLeaves /\ UNCHANGED <<switch, seen, dbUp, late, host, task, proc, budget>>

Request(r) == OnBegin(r) \/ OnClaim(r) \/ OnWrite(r) \/ OnStart(r) \/ OffBegin(r)
DurableOff(t) == WriteOff(t) \/ ReleaseOff(t)
Tick == TickRetriesOff \/ TickFindsLost \/ TickStops
Decision(d) == DecisionRead(d) \/ DecisionGo(d)
Child(p) ==
  \/ ChildReadsSwitch(p) \/ ChildClaims(p) \/ ChildSeesOff(p)
  \/ ChildFails(p) \/ ChildHangs(p) \/ ChildExits(p)
  \/ ChildLosesHost(p) \/ OrphanReaped(p)

Next ==
  \/ Poll \/ Unblock \/ Tick \/ Fire \/ LateOff \/ Quit
  \/ \E id \in {"me", "old"} : LateRelease(id)
  \/ \E r \in Requests : Request(r)
  \/ \E d \in Decisions : Decision(d) \/ HungRestart(d)
  \/ \E t \in Tasks : DurableOff(t) \/ StopTimeout(t)
  \/ \E p \in Procs : Child(p) \/ ExitEvent(p) \/ SpawnFails(p)
  \/ Environment

Spec == Init /\ [][Next]_vars

(***************************************************************************)
(* Fairness: timers fire, a call under way is answered, the loop checks    *)
(* its authority before each pass, a worker that is well notices that its  *)
(* host is gone, a killed process is reaped, a lease nobody renews runs    *)
(* out, and the database comes back.                                       *)
(***************************************************************************)
Fairness ==
  /\ WF_vars(Poll) /\ WF_vars(Unblock) /\ WF_vars(Tick) /\ WF_vars(Fire)
  /\ WF_vars(Recover /\ Environment)
  /\ WF_vars(QuitRelease \/ QuitGo) /\ WF_vars(lease = "old" /\ Environment /\ OtherLeaves)
  /\ \A r \in Requests : WF_vars(OnClaim(r) \/ OnWrite(r) \/ OnStart(r))
  /\ \A d \in Decisions : WF_vars(Decision(d)) /\ WF_vars(HungRestart(d))
  /\ \A t \in Tasks : WF_vars(DurableOff(t)) /\ WF_vars(StopTimeout(t))
  /\ \A p \in Procs :
       /\ WF_vars(ChildReadsSwitch(p) \/ ChildClaims(p) \/ ChildSeesOff(p) \/ ChildExits(p))
       /\ WF_vars(proc[p].phase # "hung" /\ ChildLosesHost(p))
       /\ WF_vars(ExitEvent(p) \/ OrphanReaped(p))

FairSpec == Spec /\ Fairness

-----------------------------------------------------------------------------
(* Safety *)

\* Every process that may compute is the one the host tracks, or an orphan of a
\* host that is gone: none runs on beside the child that stopWorkerChild, the
\* watchdog and the poll act on ("There is exactly one active executor",
\* execution-host.ts; startWorkerChild, host.child).
OnlyTrackedWorker == \A p \in Procs : Live(p) => host.child = p \/ Orphan(p)

\* What is left of it: a worker of this host runs on untracked only if the end of
\* an earlier child, killed but not yet reaped when it was spawned, cleared its
\* handle (the exit handler, or a second stop still waiting for that child); no
\* other overlap of stops, starts, crashes and shutdowns drops one.
UntrackedOnlyByLateExit ==
  \A p \in Procs : Live(p) => host.child = p \/ Orphan(p) \/ Lost(p)

\* The run state every decision reads agrees with the child: planSwitchPoll,
\* checkWorkerProgress and the exit handler each read one for the other.  Only
\* a spawn that failed is told apart later, by the decision that follows it.
SpawnFailed ==
  \E d \in Decisions : task[d].pc \in {"read", "go"} /\ task[d].why = "crash" /\ task[d].fresh
RunStateTracksChild ==
  /\ host.child # None => host.runState \in {"running", "stopping"}
  /\ host.child = None /\ host.runState \in {"starting", "running", "stopping"}
       => host.runState # "stopping" /\ SpawnFailed

\* A host that quits in order leaves no worker of its own behind, whatever boot
\* resume, request or restart was under way ("never start a worker on the way
\* out", startWorkerChild; shutdown), but for one it has lost to a late exit.
QuitLeavesNobody ==
  [][QuitGo => \A p \in Procs : Live(p) => Orphan(p) \/ Lost(p)]_vars

\* Whatever starts the worker on its own (boot resume, switch poll, restart
\* lifecycle) never does so against an OFF given here that the database has
\* not recorded; only an operator's own ON may.
Starts == host.child = None /\ host'.child # None
AutoStartsRespectOff ==
  [][Starts /\ host.offNotRecorded => \E r \in Requests : OnStart(r)]_vars

\* The OFF that is retried until the database accepts it is the OFF that still
\* stands: an older OFF "leaves that request's state alone" once a newer request,
\* an ON, has come in (switchRequests, writeDurableOff).  The code does not keep
\* this: the OFF counts as the newest request when its stop is over, not before.
OnlyStandingOffIsRetried == host.pendingDurableOff => host.offNotRecorded

\* "While set nothing on this host (re)starts the worker" (HostState).  The code
\* does not keep this: an ON past its switch write does not look (POST /api/switch).
UnrecordedOffHolds == [][Starts => ~ host.offNotRecorded]_vars

-----------------------------------------------------------------------------
(* Liveness *)

\* Nobody can stop an orphan, or a worker the host has lost, whose event loop is
\* blocked.
OutOfReach(p) == (Orphan(p) \/ Lost(p)) /\ proc[p].phase = "hung"
Working == \E p \in Procs : Live(p) /\ ~ OutOfReach(p)

\* OFF means OFF: once the switch stays OFF, every worker process ends, a lost
\* one too, and none is started again (execution-host.ts, spec section 4).
OffMeansOff == <>[](~ switch) => <>[](~ Working)

\* An OFF given here reaches the database, or a newer request replaces it, or it
\* ends with the host (pendingDurableOff, leaseTick).
OffIsRecorded == host.offNotRecorded ~> ~ host.offNotRecorded

\* A worker whose lease another runtime has taken does not keep running
\* (leaseTick: the child itself does not check the lease), unless the host has
\* lost it.
Tended == \E p \in Procs : Live(p) /\ ~ OutOfReach(p) /\ ~ Lost(p)
TakenLeaseStopsWorker == (Tended /\ lease = "other") ~> ~ (Tended /\ lease = "other")

\* Switched ON for good, with the host up, the database answering and no other
\* runtime about, the worker runs or the host says it failed.
OnIsHonoured ==
  <>[](switch /\ dbUp /\ lease # "other" /\ ~ host.offNotRecorded /\ host.life = "up")
    => <>[](Working \/ host.runState = "failed")

\* The worker stays parked as "failed" only because "ANOTHER runtime holds the
\* execution lease" (HostState.leaseHeldElsewhere, planSwitchPoll): while no
\* other runtime ever holds it, the host does not stay failed.
FailedMeansHeldElsewhere ==
  [](lease # "other") => []<>(host.runState # "failed")
=============================================================================
