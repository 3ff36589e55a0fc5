------------------------------ MODULE WorkerPass ------------------------------
(***************************************************************************)
(* One worker process and the passes of its loop (loop.ts), with the lanes *)
(* a pass runs beside each other (lanes.ts, worker-lanes.ts) and the rows  *)
(* of AdminWorkerPass (passes.ts).                                         *)
(*                                                                         *)
(* A pass opens its row, dispatches one stage under a watchdog, runs the   *)
(* content lanes, closes its row and runs the ops lanes.  No run can be    *)
(* cancelled: a watchdog gives a run up, and the run goes on as a ghost.   *)
(* What keeps the next run of that lane from starting beside it is an      *)
(* error and its time in the lane's row of AdminWorkerLaneState, written   *)
(* best effort.                                                            *)
(*                                                                         *)
(* There is no clock: a run, a ghost, an error and an open row each carry  *)
(* an age in ticks, which stops growing at Sat (an error's once the lane   *)
(* has rested).                                                            *)
(***************************************************************************)
EXTENDS Integers, FiniteSets

CONSTANTS
  ContentLanes,   \* the lanes run before the pass is closed (CONTENT_LANES)
  OpsLanes,       \* the lanes run after it (OPS_LANES)
  Place,          \* the place of a lane in its list
  Gated,          \* lanes a batch may leave out: active only, growth, discovery
  Stage,          \* the dispatched stage
  Escalation,     \* the lane that reaps rows left RUNNING
  Watchdog,       \* ticks after which a lane, or the stage, is given up
  Cooldown,       \* ticks a lane rests after an error
  Concurrency,    \* lanes in flight at once
  Reap,           \* age past which the escalation lane reaps a RUNNING row
  BootReap,       \* age past which a booting worker does
  Sat,            \* bound: ages grow no further
  MaxGhosts,      \* bound: abandoned runs alive at once
  MaxFaults       \* bound: failed database calls, signals and crashes

Lanes == ContentLanes \cup OpsLanes
Later(x, y) == IF x > y THEN x ELSE y

(* From the start of a run that was given up to the next start of its lane. *)
Gap(l) == Watchdog[l] + Later(Cooldown, Watchdog[l])

ASSUME PassAssumption ==
  /\ Escalation \in OpsLanes
  /\ Stage \notin Lanes
  /\ IsFiniteSet(Lanes)
  /\ Place \in [Lanes -> Nat]
  /\ Watchdog \in [Lanes \cup {Stage} -> Nat \ {0}]
  /\ {Cooldown, Concurrency, Reap, BootReap, Sat, MaxGhosts, MaxFaults} \subseteq Nat
  /\ Concurrency > 0 /\ Reap < Sat /\ BootReap < Sat
  /\ Watchdog[Stage] <= Sat
  /\ \A l \in Lanes : Gap(l) <= Sat

VARIABLES
  phase,      \* where the loop is
  run,        \* age of the awaited run of a lane or of the stage, or Off
  todo,       \* lanes of the current batch not started yet
  ghosts,     \* runs given up and still going on: <<lane, age>>
  lane,       \* AdminWorkerLaneState: lastError, and the age of lastFinishedAt
  row,        \* AdminWorkerPass: the row of the current, or last, pass
  orphans,    \* ages of the RUNNING rows of earlier passes
  completed,  \* the local of runOnePass: a terminal status was written
  current,    \* _currentPassId is set
  stopping,   \* SIGTERM was handled, the process is about to exit
  faults,     \* failed calls, signals and crashes so far
  excused     \* lanes with a ghost whose cooldown was lost (for LanesApart)

loop == <<phase, completed, current>>
table == <<row, orphans>>
work == <<run, todo, ghosts, lane, excused>>
vars == <<loop, table, work, stopping, faults>>

Off == -1
Ages == 0 .. Sat
Phases == {"rest", "stage", "staged", "content", "recorded", "catch", "finally",
           "closed", "ops", "down"}
Statuses == {"none", "RUNNING", "SUCCEEDED", "FAILED"}
Runners == Lanes \cup {Stage}

Rows == [status : Statuses, age : Ages, by : {"loop", "reaper", "abandon"}]

Closed(status, by) == [status |-> status, age |-> 0, by |-> by]
NoRow == Closed("none", "loop")

Init ==
  /\ phase = "rest"
  /\ run = [l \in Runners |-> Off]
  /\ todo = {}
  /\ ghosts = {}
  /\ lane = [l \in Lanes |-> [err |-> "none", since |-> 0]]
  /\ row = NoRow
  /\ orphans = {}
  /\ completed = FALSE
  /\ current = FALSE
  /\ stopping = FALSE
  /\ faults = 0
  /\ excused = {}

Running == {l \in Lanes : run[l] # Off}
Haunted == {g[1] : g \in ghosts}

Fault == faults < MaxFaults /\ faults' = faults + 1

-----------------------------------------------------------------------------
(* The pass and its row.                                                   *)

(* A row still RUNNING when its pass is over, or its process gone.         *)
Abandoned == IF row.status = "RUNNING" THEN orphans \cup {row.age} ELSE orphans

StartPass ==
  /\ phase = "rest"
  /\ phase' = "stage"
  /\ row' = [status |-> "RUNNING", age |-> 0, by |-> "loop"]
  /\ orphans' = Abandoned
  /\ current' = TRUE
  /\ completed' = FALSE
  /\ run' = [run EXCEPT ![Stage] = 0]
  /\ UNCHANGED <<todo, ghosts, lane, excused, stopping, faults>>

LeaveStage(to) ==
  /\ phase = "stage"
  /\ phase' = to
  /\ run' = [run EXCEPT ![Stage] = Off]
  /\ UNCHANGED <<completed, current, table, todo, ghosts, lane, excused, stopping, faults>>

StageDone == LeaveStage("staged")
StageThrows == LeaveStage("catch")

(* As a slip would have it: the dispatch is awaited without a watchdog.    *)
StageWaited == FALSE

(* The stage may still finish in the background; nothing waits for it.     *)
StageExpires == run[Stage] >= Watchdog[Stage] /\ LeaveStage("staged")

(* As a slip would have it: the batch is over once its last lane started.  *)
BatchStarted == todo = {}

BatchDone == todo = {} /\ Running = {}

(* completePass succeeds, or throws into the handler.                      *)
Complete ==
  /\ phase = "content" /\ BatchDone
  /\ \/ /\ row' = Closed("SUCCEEDED", "loop")
        /\ completed' = TRUE
        /\ phase' = "recorded"
        /\ UNCHANGED faults
     \/ Fault /\ phase' = "catch" /\ UNCHANGED <<row, completed>>
  /\ UNCHANGED <<current, orphans, work, stopping>>

RecordSuccess ==
  /\ phase = "recorded"
  /\ \/ phase' = "finally" /\ UNCHANGED faults
     \/ phase' = "catch" /\ Fault
  /\ UNCHANGED <<completed, current, table, work, stopping>>

(* The row is written FAILED, or the write is lost.                        *)
CloseFailed ==
  \/ row' = Closed("FAILED", "loop") /\ completed' = TRUE /\ UNCHANGED faults
  \/ Fault /\ UNCHANGED <<row, completed>>

(* As a slip would have it: whatever was thrown, the pass is FAILED.       *)
CatchAll ==
  /\ phase = "catch"
  /\ CloseFailed
  /\ phase' = "finally"
  /\ UNCHANGED <<current, orphans, work, stopping>>

(* The handler closes the row unless a terminal status was written.        *)
Catch ==
  /\ phase = "catch"
  /\ \/ completed /\ UNCHANGED <<row, completed, faults>>
     \/ ~completed /\ CloseFailed
  /\ phase' = "finally"
  /\ UNCHANGED <<current, orphans, work, stopping>>

Finally ==
  /\ phase = "finally"
  /\ \/ completed /\ UNCHANGED <<row, completed, faults>>
     \/ ~completed /\ CloseFailed
  /\ current' = FALSE
  /\ phase' = "closed"
  /\ UNCHANGED <<orphans, work, stopping>>

EndPass ==
  /\ phase = "ops" /\ BatchDone
  /\ phase' = "rest"
  /\ UNCHANGED <<completed, current, table, work, stopping, faults>>

-----------------------------------------------------------------------------
(* The lanes.                                                              *)

(* As a slip would have it: a lane given up rests no longer than another.  *)
WaitShort(l) == Cooldown

Wait(l) ==
  IF lane[l].err = "watchdog" THEN Later(Cooldown, Watchdog[l]) ELSE Cooldown

(* As a slip would have it: a lane with an error is skipped.               *)
CoolingForever(l) == lane[l].err # "none"

Cooling(l) == lane[l].err # "none" /\ lane[l].since < Wait(l)

(* A batch is filtered by one read of the lane table; a failed read counts *)
(* as an empty table, in which no lane is cooling.                         *)
OpenBatch(from, lanes, to) ==
  /\ phase = from
  /\ phase' = to
  /\ \E skipped \in SUBSET (lanes \cap Gated) :
       \/ /\ todo' = {l \in lanes \ skipped : ~Cooling(l)}
          /\ UNCHANGED <<faults, excused>>
       \/ /\ Fault
          /\ todo' = lanes \ skipped
          /\ excused' = excused \cup Haunted
  /\ UNCHANGED <<completed, current, table, run, ghosts, lane, stopping>>

OpenContent == OpenBatch("staged", ContentLanes, "content")
OpenOps == OpenBatch("closed", OpsLanes, "ops")

(* recordLaneState swallows its errors.                                    *)
Record(l, err) ==
  \/ lane' = [lane EXCEPT ![l] = [err |-> err, since |-> 0]] /\ UNCHANGED faults
  \/ Fault /\ UNCHANGED lane

(* Lanes start in the order of their list, Concurrency of them at once.    *)
StartLane(l) ==
  /\ l \in todo
  /\ \A k \in todo : Place[l] <= Place[k]
  /\ Cardinality(Running) < Concurrency
  /\ todo' = todo \ {l}
  /\ run' = [run EXCEPT ![l] = 0]
  /\ Record(l, "none")
  /\ UNCHANGED <<loop, table, ghosts, excused, stopping>>

Settles(l) == run[l] # Off /\ run' = [run EXCEPT ![l] = Off]

(* A lane that is done writes its finish and leaves lastError as it stands. *)
LaneDone(l) ==
  /\ l # Escalation
  /\ Settles(l)
  /\ Record(l, lane[l].err)
  /\ UNCHANGED <<loop, table, todo, ghosts, excused, stopping>>

LaneFails(l) ==
  /\ Settles(l)
  /\ Record(l, "error")
  /\ UNCHANGED <<loop, table, todo, ghosts, excused, stopping>>

(* The run goes on as a ghost, unless MaxGhosts are about.                 *)
LaneExpires(l) ==
  /\ run[l] >= Watchdog[l]
  /\ Settles(l)
  /\ ghosts' = IF Cardinality(ghosts) < MaxGhosts
                 THEN ghosts \cup {<<l, run[l]>>} ELSE ghosts
  /\ \/ /\ lane' = [lane EXCEPT ![l] = [err |-> "watchdog", since |-> 0]]
        /\ UNCHANGED <<faults, excused>>
     \/ Fault /\ excused' = excused \cup {l} /\ UNCHANGED lane
  /\ UNCHANGED <<loop, table, todo, stopping>>

(* As a slip would have it: the escalation lane leaves the rows alone.     *)
SweepNothing(age) == UNCHANGED table

(* reapStaleRunningPasses: every RUNNING row past the cutoff is FAILED,    *)
(* whichever pass it is of.                                                *)
Sweep(age) ==
  /\ orphans' = {o \in orphans : o <= age}
  /\ row' = IF row.status = "RUNNING" /\ row.age > age
              THEN Closed("FAILED", "reaper") ELSE row

EscalationDone ==
  /\ Settles(Escalation)
  /\ Sweep(Reap)
  /\ Record(Escalation, lane[Escalation].err)
  /\ UNCHANGED <<loop, todo, ghosts, excused, stopping>>

(* What an abandoned run does when it ends is recorded nowhere; that of    *)
(* the escalation lane may sweep first.                                    *)
GhostEnds(g) ==
  /\ g \in ghosts
  /\ ghosts' = ghosts \ {g}
  /\ excused' = {l \in excused : \E h \in ghosts' : h[1] = l}
  /\ \/ UNCHANGED table
     \/ g[1] = Escalation /\ Sweep(Reap)
  /\ UNCHANGED <<loop, run, todo, lane, stopping, faults>>

-----------------------------------------------------------------------------
(* The process.                                                            *)

Gone ==
  /\ phase' = "down"
  /\ run' = [l \in Runners |-> Off]
  /\ todo' = {}
  /\ ghosts' = {}
  /\ excused' = {}
  /\ row' = NoRow
  /\ orphans' = Abandoned
  /\ completed' = FALSE
  /\ current' = FALSE
  /\ stopping' = FALSE
  /\ UNCHANGED lane

Crash == phase # "down" /\ Fault /\ Gone

(* The handler closes the current pass and exits within seconds, while the *)
(* loop runs on.                                                           *)
Sigterm ==
  /\ phase # "down" /\ ~stopping /\ Fault
  /\ stopping' = TRUE
  /\ current' = FALSE
  /\ \/ current /\ row' = Closed("FAILED", "abandon")
     \/ UNCHANGED row
  /\ UNCHANGED <<phase, completed, orphans, work>>

Exit == stopping /\ Gone /\ UNCHANGED faults

Restart ==
  /\ phase = "down"
  /\ phase' = "rest"
  /\ Sweep(BootReap)
  /\ UNCHANGED <<completed, current, work, stopping, faults>>

-----------------------------------------------------------------------------
Older(n) == IF n < Sat THEN n + 1 ELSE n

(* A tick of the unit the limits are given in.  A timer fires when it is   *)
(* due, and a stopping process is gone before the next tick.               *)
Tick ==
  /\ ~stopping
  /\ \A l \in Runners : run[l] < Watchdog[l]
  /\ run' = [l \in Runners |-> IF run[l] = Off THEN Off ELSE run[l] + 1]
  /\ ghosts' = {<<g[1], Older(g[2])>> : g \in ghosts}
  /\ lane' = [l \in Lanes |-> [lane[l] EXCEPT !.since = IF Cooling(l) THEN Older(@) ELSE @]]
  /\ row' = [row EXCEPT !.age = IF row.status = "RUNNING" THEN Older(@) ELSE 0]
  /\ orphans' = {Older(o) : o \in orphans}
  /\ UNCHANGED <<loop, todo, excused, stopping, faults>>

Next ==
  \/ StartPass \/ StageDone \/ StageThrows \/ StageExpires
  \/ OpenContent \/ Complete \/ RecordSuccess \/ Catch \/ Finally \/ OpenOps \/ EndPass
  \/ \E l \in Lanes : StartLane(l) \/ LaneDone(l) \/ LaneFails(l) \/ LaneExpires(l)
  \/ EscalationDone
  \/ \E g \in ghosts : GhostEnds(g)
  \/ Crash \/ Sigterm \/ Exit \/ Restart
  \/ Tick

Spec == Init /\ [][Next]_vars

(* What the loop does by itself: its steps, the starts and the timers.     *)
Proceeds ==
  \/ StartPass \/ StageExpires \/ OpenContent \/ Complete \/ RecordSuccess
  \/ Catch \/ Finally \/ OpenOps \/ EndPass
  \/ \E l \in Lanes : StartLane(l) \/ LaneExpires(l)

(* The loop proceeds and time passes; no run need ever settle, except that *)
(* the escalation lane, run again and again, sometimes is done.  A process *)
(* that was told to stop exits, and the host starts the worker again.      *)
FairSpec ==
  /\ Spec
  /\ WF_vars(Tick)
  /\ WF_vars(Proceeds)
  /\ SF_vars(EscalationDone)
  /\ WF_vars(Exit \/ Restart)

-----------------------------------------------------------------------------
Types ==
  /\ phase \in Phases
  /\ run \in [Runners -> Ages \cup {Off}]
  /\ todo \subseteq Lanes
  /\ ghosts \subseteq Lanes \X Ages
  /\ lane \in [Lanes -> [err : {"none", "error", "watchdog"}, since : Ages]]
  /\ row \in Rows
  /\ orphans \subseteq Ages
  /\ completed \in BOOLEAN /\ current \in BOOLEAN /\ stopping \in BOOLEAN
  /\ faults \in 0 .. MaxFaults
  /\ excused \subseteq Lanes

Stations ==
  /\ phase \notin {"content", "ops"} => todo = {} /\ Running = {}
  /\ \A l \in todo : run[l] = Off
  /\ run[Stage] # Off <=> phase = "stage"
  /\ phase = "down" => row.status = "none" /\ ~current

(* Types, and where things run: lanes only in the two batches, no more     *)
(* than Concurrency at once, the stage only when dispatched, and a process *)
(* that is down runs nothing and holds no pass (lanes.ts, loop.ts).        *)
TypeOK == Types /\ Stations /\ Cardinality(Running) <= Concurrency

(* A lane whose run was given up is not started again before the watchdog  *)
(* limit of that run has passed once more (lanes.ts: "the next run cannot  *)
(* start while the previous one may still be working the same items"),     *)
(* unless the row that says so was lost.                                   *)
LanesApart ==
  \A g \in ghosts :
    g[1] \in excused \/ run[g[1]] = Off \/ g[2] >= Sat \/ g[2] >= run[g[1]] + Gap(g[1])

(* A pass that was closed keeps its status: a blip after completePass does *)
(* not turn it FAILED.  Two exceptions the code makes: a stop closes the   *)
(* pass once more, and what the reaper failed may be completed after all.  *)
ClosedStays ==
  [][row.status \in {"SUCCEEDED", "FAILED"} =>
       \/ row'.status = row.status
       \/ row'.status \in {"none", "RUNNING"}
       \/ stopping'
       \/ row.by = "reaper"]_vars

(* Whatever a stage and its lanes do, or never do, their pass ends.        *)
PassEnds == phase = "stage" ~> phase \in {"rest", "down"}

(* Failing, hanging and cooling down, a lane that no switch leaves out is  *)
(* run again and again.                                                    *)
LanesComeBack == \A l \in Lanes \ Gated : []<>(run[l] # Off)

(* A row left RUNNING by a process that went, or by writes that failed, is *)
(* closed by the reaper (passes.ts: it was orphaned as RUNNING forever).   *)
OrphansReaped == orphans # {} ~> orphans = {}

=============================================================================
