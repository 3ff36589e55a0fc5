--------------------------- MODULE WorkerPassProofs ---------------------------
(***************************************************************************)
(* What TLAPS proves of WorkerPass for all lanes, limits and bounds: its   *)
(* types and the cap on lanes in flight, that the runs of a lane stay      *)
(* apart, and that a closed pass stays closed.                             *)
(***************************************************************************)
EXTENDS WorkerPass, FiniteSetTheorems, TLAPS

(* The limits are small enough for the ages to tell them apart.            *)
LEMMA Limits ==
  /\ Cooldown \in Nat /\ Concurrency \in Nat /\ Reap \in Nat /\ BootReap \in Nat
  /\ Sat \in Nat /\ MaxFaults \in Nat /\ Concurrency > 0
  /\ Stage \notin Lanes /\ Escalation \in Lanes
  /\ \A l \in Runners : Watchdog[l] \in Nat /\ 0 < Watchdog[l] /\ Watchdog[l] <= Sat
  /\ \A l \in Lanes : Gap(l) \in Nat /\ Gap(l) <= Sat /\ Gap(l) >= Watchdog[l]
<1>1. \A l \in Runners : Watchdog[l] \in Nat /\ 0 < Watchdog[l]
  BY PassAssumption DEF Runners
<1>2. \A l \in Lanes : Gap(l) \in Nat /\ Gap(l) <= Sat /\ Gap(l) >= Watchdog[l]
  BY <1>1, PassAssumption, SMT DEF Gap, Later, Runners
<1>3. \A l \in Runners : Watchdog[l] <= Sat
  BY <1>1, <1>2, PassAssumption, SMT DEF Runners
<1> QED BY <1>1, <1>2, <1>3, PassAssumption DEF Lanes

(* A row just opened or closed is a row.                                   *)
LEMMA RowTypes ==
  /\ 0 \in Ages
  /\ [status |-> "RUNNING", age |-> 0, by |-> "loop"] \in Rows
  /\ \A s \in Statuses, b \in {"loop", "reaper", "abandon"} :
       /\ Closed(s, b) \in Rows
       /\ Closed(s, b).status = s
       /\ Closed(s, b).by = b
<1>1. 0 \in Ages
  BY Limits DEF Ages
<1> QED BY <1>1 DEF Rows, Closed, Statuses

(* A reaped row is a row, and fewer orphans are orphans.                   *)
LEMMA SweepTypes ==
  ASSUME Types, NEW age \in Nat, Sweep(age)
  PROVE  /\ row' \in Rows
         /\ orphans' \subseteq Ages
         /\ row.status = "none" => row'.status = "none"
         /\ row' = row \/ (row.status = "RUNNING" /\ row'.by = "reaper")
BY RowTypes DEF Types, Sweep, Statuses

LaneRows == [err : {"none", "error", "watchdog"}, since : Ages]

(* A fault is counted within its bound.                                    *)
LEMMA FaultTypes ==
  ASSUME Types, Fault
  PROVE  faults' \in 0 .. MaxFaults
BY Limits, SMT DEF Types, Fault

(* Recording an outcome, or losing it, keeps the lane rows well typed.     *)
LEMMA RecordTypes ==
  ASSUME Types, NEW l \in Lanes, NEW err \in {"none", "error", "watchdog"}, Record(l, err)
  PROVE  lane' \in [Lanes -> LaneRows] /\ faults' \in 0 .. MaxFaults
<1>1. [err |-> err, since |-> 0] \in LaneRows
  BY RowTypes DEF LaneRows
<1>2. lane \in [Lanes -> LaneRows] /\ faults \in 0 .. MaxFaults
  BY DEF Types, LaneRows
<1>3. lane' \in [Lanes -> LaneRows]
  BY <1>1, <1>2 DEF Record
<1>4. faults' \in 0 .. MaxFaults
  BY <1>2, FaultTypes DEF Record
<1> QED BY <1>3, <1>4

(* An abandoned row is one more orphan.                                    *)
LEMMA AbandonedTypes ==
  ASSUME Types
  PROVE  Abandoned \subseteq Ages
BY DEF Types, Abandoned, Rows

(* Ages stay ages.                                                         *)
LEMMA OlderAge == \A n \in Ages : Older(n) \in Ages /\ Older(n) >= n
BY Limits, SMT DEF Ages, Older

(* Every step keeps the types.                                             *)
LEMMA TypesStep ==
  ASSUME Types, Stations, [Next]_vars
  PROVE  Types'
<1> USE DEF loop, table, work
<1>a. CASE StartPass
  BY <1>a, RowTypes, AbandonedTypes DEF Types, StartPass, Phases, Runners
<1>b. CASE StageDone \/ StageThrows \/ StageExpires
  BY <1>b, Limits, SMT DEF Types, StageDone, StageThrows, StageExpires, LeaveStage, Phases,
     Runners, Off
<1>c. CASE Complete \/ RecordSuccess
  BY <1>c, RowTypes, FaultTypes DEF Types, Complete, RecordSuccess, Phases, Statuses
<1>d. CASE Catch \/ Finally
  BY <1>d, RowTypes, FaultTypes DEF Types, Catch, Finally, CloseFailed, Phases, Statuses
<1>e. CASE OpenContent \/ OpenOps
  <2>1. Haunted \subseteq Lanes
    BY DEF Types, Haunted
  <2> QED BY <1>e, <2>1, Limits, SMT DEF Types, OpenContent, OpenOps, OpenBatch, Fault, Phases, Lanes
<1>f. CASE EndPass
  BY <1>f DEF Types, EndPass, Phases
<1>g. ASSUME NEW l \in Lanes, StartLane(l) \/ LaneDone(l) \/ LaneFails(l)
      PROVE  Types'
  <2>1. lane[l].err \in {"none", "error", "watchdog"}
    BY DEF Types
  <2>2. lane' \in [Lanes -> LaneRows] /\ faults' \in 0 .. MaxFaults
    BY <1>g, <2>1, RecordTypes DEF StartLane, LaneDone, LaneFails
  <2>3. run' \in [Runners -> Ages \cup {Off}]
    BY <1>g, RowTypes DEF Types, StartLane, LaneDone, LaneFails, Settles
  <2> QED BY <1>g, <2>2, <2>3 DEF Types, LaneRows, StartLane, LaneDone, LaneFails
<1>h. ASSUME NEW l \in Lanes, LaneExpires(l)
      PROVE  Types'
  <2>1. run[l] \in Ages
    BY <1>h, SMT DEF Types, LaneExpires, Settles, Runners
  <2>2. ghosts' \subseteq Lanes \X Ages
    BY <1>h, <2>1 DEF Types, LaneExpires
  <2>3. run' \in [Runners -> Ages \cup {Off}]
    BY <1>h DEF Types, LaneExpires, Settles
  <2>4. /\ lane' \in [Lanes -> [err : {"none", "error", "watchdog"}, since : Ages]]
        /\ faults' \in 0 .. MaxFaults /\ excused' \subseteq Lanes
    BY <1>h, Limits, SMT DEF Types, LaneExpires, Fault, Ages
  <2> QED BY <1>h, <2>2, <2>3, <2>4 DEF Types, LaneExpires
<1>i. CASE EscalationDone
  <2>1. lane[Escalation].err \in {"none", "error", "watchdog"}
    BY Limits DEF Types
  <2>2. lane' \in [Lanes -> LaneRows] /\ faults' \in 0 .. MaxFaults
    BY <1>i, <2>1, RecordTypes, Limits DEF EscalationDone
  <2>3. run' \in [Runners -> Ages \cup {Off}]
    BY <1>i DEF Types, EscalationDone, Settles
  <2>4. row' \in Rows /\ orphans' \subseteq Ages
    BY <1>i, SweepTypes, Limits DEF EscalationDone
  <2> QED BY <1>i, <2>2, <2>3, <2>4 DEF Types, LaneRows, EscalationDone
<1>j. ASSUME NEW g \in ghosts, GhostEnds(g)
      PROVE  Types'
  <2>1. Types => ghosts' \subseteq ghosts /\ excused' \subseteq excused
    BY <1>j DEF GhostEnds
  <2>2. CASE UNCHANGED table
    BY <1>j, <2>1, <2>2 DEF Types, GhostEnds
  <2>3. CASE Sweep(Reap)
    BY <1>j, <2>1, <2>3, SweepTypes, Limits DEF Types, GhostEnds
  <2> QED BY <1>j, <2>2, <2>3 DEF GhostEnds
<1>k. CASE Crash \/ Exit
  <2>1. faults' \in 0 .. MaxFaults
    BY <1>k, FaultTypes DEF Types, Crash, Exit
  <2>2. NoRow \in Rows
    BY RowTypes DEF NoRow, Statuses
  <2> QED BY <1>k, <2>1, <2>2, AbandonedTypes DEF Types, Crash, Exit, Gone, Phases
<1>l. CASE Sigterm
  <2>1. row' \in Rows
    BY <1>l, RowTypes DEF Types, Sigterm, Statuses
  <2> QED BY <1>l, <2>1, FaultTypes DEF Types, Sigterm
<1>m. CASE Restart
  BY <1>m, SweepTypes, Limits DEF Types, Restart, Phases
<1>n. CASE Tick
  <2>1. run' \in [Runners -> Ages \cup {Off}]
    BY <1>n, Limits, SMT DEF Types, Tick, Ages, Off
  <2>2. ghosts' \subseteq Lanes \X Ages
    BY <1>n, OlderAge DEF Types, Tick
  <2>3. lane' \in [Lanes -> [err : {"none", "error", "watchdog"}, since : Ages]]
    BY <1>n, OlderAge, SMT DEF Types, Tick
  <2>4. /\ row' \in Rows
        /\ orphans' \subseteq Ages
    BY <1>n, OlderAge, RowTypes DEF Types, Tick, Rows
  <2> QED BY <1>n, <2>1, <2>2, <2>3, <2>4 DEF Types, Tick
<1>o. CASE UNCHANGED vars
  BY <1>o DEF Types, vars
<1> QED BY <1>a, <1>b, <1>c, <1>d, <1>e, <1>f, <1>g, <1>h, <1>i, <1>j, <1>k, <1>l, <1>m, <1>n,
           <1>o DEF Next

(* A lane in flight is in one of the two batches.                          *)
LEMMA InBatch ==
  ASSUME Stations, NEW l \in Lanes, run[l] # Off \/ l \in todo
  PROVE  phase \in {"content", "ops"}
BY DEF Stations, Running

(* Every step keeps lanes, stage and process where they belong.            *)
LEMMA StationsStep ==
  ASSUME Types, Stations, [Next]_vars
  PROVE  Stations'
<1> USE DEF loop, table, work
<1>1. Stage \notin Lanes /\ Escalation \in Lanes /\ Stage \in Runners /\ Lanes \subseteq Runners
  BY Limits DEF Runners
<1>2. run \in [Runners -> Ages \cup {Off}] /\ 0 # Off
  BY DEF Types, Off
<1>a. CASE StartPass \/ StageDone \/ StageThrows \/ StageExpires
  BY <1>a, <1>1, <1>2 DEF Stations, Running, StartPass, StageDone, StageThrows, StageExpires, LeaveStage
<1>b. CASE Complete \/ RecordSuccess \/ Catch \/ Finally \/ EndPass
  BY <1>b, <1>1, <1>2 DEF Stations, Running, Complete, RecordSuccess, Catch, Finally, EndPass, BatchDone
<1>c. CASE OpenContent \/ OpenOps
  BY <1>c, <1>1, <1>2 DEF Stations, Running, OpenContent, OpenOps, OpenBatch, Lanes
<1>d. ASSUME NEW l \in Lanes, StartLane(l) \/ LaneDone(l) \/ LaneFails(l) \/ LaneExpires(l)
      PROVE  Stations'
  <2>1. phase \in {"content", "ops"}
    BY <1>d, InBatch DEF StartLane, LaneDone, LaneFails, LaneExpires, Settles
  <2>2. \E n \in {0, Off} : run' = [run EXCEPT ![l] = n]
    BY <1>d DEF StartLane, LaneDone, LaneFails, LaneExpires, Settles
  <2>3. run'[Stage] = run[Stage]
    BY <1>1, <1>2, <2>2
  <2>4. UNCHANGED <<phase, current, row>>
    BY <1>d DEF StartLane, LaneDone, LaneFails, LaneExpires
  <2>5. \A k \in todo' : run'[k] = Off
    <3>1. CASE StartLane(l)
      BY <3>1, <1>1, <1>2 DEF Types, Stations, StartLane
    <3>2. CASE LaneDone(l) \/ LaneFails(l) \/ LaneExpires(l)
      BY <3>2, <1>1, <1>2 DEF Types, Stations, LaneDone, LaneFails, LaneExpires, Settles
    <3> QED BY <1>d, <3>1, <3>2
  <2> QED BY <2>1, <2>3, <2>4, <2>5 DEF Stations
<1>e. CASE EscalationDone
  <2>1. phase \in {"content", "ops"}
    BY <1>e, <1>1, InBatch DEF EscalationDone, Settles
  <2> QED BY <1>e, <1>1, <1>2, <2>1 DEF Stations, EscalationDone, Settles
<1>f. ASSUME NEW g \in ghosts, GhostEnds(g)
      PROVE  Stations'
  <2>1. row.status = "none" => row'.status = "none"
    BY <1>f, SweepTypes, Limits DEF GhostEnds
  <2> QED BY <1>f, <2>1 DEF Stations, Running, GhostEnds
<1>g. CASE Crash \/ Exit
  BY <1>g, <1>1, RowTypes DEF Stations, Running, Crash, Exit, Gone, NoRow, Statuses
<1>h. CASE Sigterm
  BY <1>h DEF Stations, Running, Sigterm
<1>i. CASE Restart
  BY <1>i, <1>1, <1>2 DEF Stations, Running, Restart
<1>j. CASE Tick
  <2>1. \A l \in Runners : run'[l] = Off <=> run[l] = Off
    BY <1>j, <1>2, Limits, SMT DEF Tick, Off, Ages
  <2>2. row'.status = row.status
    BY <1>j DEF Types, Rows, Tick
  <2> QED BY <1>j, <1>1, <2>1, <2>2 DEF Types, Stations, Running, Tick
<1>k. CASE UNCHANGED vars
  BY <1>k DEF Stations, Running, vars
<1> QED BY <1>a, <1>b, <1>c, <1>d, <1>e, <1>f, <1>g, <1>h, <1>i, <1>j, <1>k DEF Next

(* A step lets one lane start, while there is room, or leaves no more in   *)
(* flight than there were.                                                 *)
LEMMA FlightStep ==
  ASSUME Types, Stations, [Next]_vars
  PROVE  \/ Running' \subseteq Running
         \/ \E l \in Lanes : Running' = Running \cup {l} /\ Cardinality(Running) < Concurrency
<1> USE DEF loop, table, work
<1>1. Stage \notin Lanes /\ Escalation \in Lanes /\ Lanes \subseteq Runners
  BY Limits DEF Runners
<1>2. run \in [Runners -> Ages \cup {Off}] /\ 0 # Off
  BY DEF Types, Off
<1>a. CASE StartPass \/ StageDone \/ StageThrows \/ StageExpires
  BY <1>a, <1>1, <1>2 DEF Running, StartPass, StageDone, StageThrows, StageExpires, LeaveStage
<1>b. CASE \/ Complete \/ RecordSuccess \/ Catch \/ Finally \/ EndPass \/ OpenContent \/ OpenOps
           \/ Sigterm \/ Restart \/ (\E g \in ghosts : GhostEnds(g)) \/ UNCHANGED vars
  BY <1>b DEF Running, Complete, RecordSuccess, Catch, Finally, EndPass, OpenContent, OpenOps,
     OpenBatch, Sigterm, Restart, GhostEnds, vars
<1>c. ASSUME NEW l \in Lanes, StartLane(l)
      PROVE  Running' = Running \cup {l} /\ Cardinality(Running) < Concurrency
  BY <1>c, <1>1, <1>2 DEF Running, StartLane
<1>d. ASSUME NEW l \in Lanes, LaneDone(l) \/ LaneFails(l) \/ LaneExpires(l) \/ EscalationDone
      PROVE  Running' \subseteq Running
  BY <1>d, <1>1, <1>2 DEF Running, LaneDone, LaneFails, LaneExpires, EscalationDone, Settles
<1>e. CASE Crash \/ Exit
  BY <1>e, <1>1 DEF Running, Crash, Exit, Gone
<1>f. CASE Tick
  BY <1>f, <1>1, <1>2 DEF Running, Tick
<1> QED BY <1>1, <1>a, <1>b, <1>c, <1>d, <1>e, <1>f DEF Next

(* The cap on lanes in flight is kept.                                     *)
LEMMA CapStep ==
  ASSUME Types, Stations, Cardinality(Running) <= Concurrency, [Next]_vars
  PROVE  Cardinality(Running)' <= Concurrency
<1>1. IsFiniteSet(Running) /\ Running \subseteq Lanes
  BY PassAssumption, FS_Subset DEF Running
<1>2. CASE Running' \subseteq Running
  <2>1. Cardinality(Running') <= Cardinality(Running) /\ IsFiniteSet(Running')
    BY <1>1, <1>2, FS_Subset
  <2>2. Cardinality(Running) \in Nat /\ Cardinality(Running') \in Nat
    BY <1>1, <2>1, FS_CardinalityType
  <2> QED BY <2>1, <2>2, Limits
<1>3. CASE \E l \in Lanes : Running' = Running \cup {l} /\ Cardinality(Running) < Concurrency
  <2>1. PICK l \in Lanes : Running' = Running \cup {l} /\ Cardinality(Running) < Concurrency
    BY <1>3
  <2>2. /\ Cardinality(Running) \in Nat
        /\ Cardinality(Running') \in {Cardinality(Running), Cardinality(Running) + 1}
    BY <1>1, <2>1, FS_AddElement, FS_CardinalityType
  <2> QED BY <2>1, <2>2, Limits
<1> QED BY <1>2, <1>3, FlightStep

(* The types, the places and the cap hold throughout.                      *)
THEOREM Typing == Spec => []TypeOK
<1>1. Init => TypeOK
  <2> SUFFICES ASSUME Init PROVE TypeOK
    OBVIOUS
  <2>1. Running = {} /\ Stage \in Runners
    BY DEF Init, Running, Runners
  <2>2. Cardinality(Running) = 0
    BY <2>1, FS_EmptySet
  <2>3. Types
    <3>1. /\ run \in [Runners -> Ages \cup {Off}]
          /\ lane \in [Lanes -> [err : {"none", "error", "watchdog"}, since : Ages]]
      BY RowTypes DEF Init
    <3>2. row \in Rows
      BY RowTypes DEF Init, NoRow, Statuses
    <3>3. faults \in 0 .. MaxFaults
      BY Limits, SMT DEF Init
    <3> QED BY <3>1, <3>2, <3>3 DEF Init, Types, Phases
  <2>4. Stations
    BY <2>1, RowTypes, Limits DEF Init, Stations, NoRow, Statuses, Runners
  <2> QED BY <2>2, <2>3, <2>4, Limits DEF TypeOK
<1>2. TypeOK /\ [Next]_vars => TypeOK'
  BY TypesStep, StationsStep, CapStep DEF TypeOK
<1> QED BY <1>1, <1>2, PTL DEF Spec

-----------------------------------------------------------------------------
(* A ghost that is not excused either has outlived the gap, or its lane    *)
(* still carries the error of its watchdog, no older than the ghost allows. *)
Outlived(g) == g[2] >= Gap(g[1])

Marked(g) ==
  /\ run[g[1]] = Off /\ g[1] \notin todo
  /\ lane[g[1]].err = "watchdog"
  /\ g[2] >= Watchdog[g[1]] + lane[g[1]].since

Kept == \A g \in ghosts : g[1] \in excused \/ Outlived(g) \/ Marked(g)

(* What a ghost is made of.                                                *)
LEMMA GhostParts ==
  ASSUME Types, NEW g \in ghosts
  PROVE  g[1] \in Lanes /\ g[1] \in Runners /\ g[2] \in Ages /\ g = <<g[1], g[2]>>
BY DEF Types, Runners

(* A lane that is not cooling has no mark that still counts.               *)
LEMMA Thawed ==
  ASSUME Types, NEW g \in ghosts, Marked(g), ~Cooling(g[1])
  PROVE  Outlived(g)
<1>1. /\ g[1] \in Lanes /\ g[2] \in Nat /\ lane[g[1]].since \in Nat
      /\ Watchdog[g[1]] \in Nat /\ Cooldown \in Nat
  BY GhostParts, Limits, SMT DEF Types, Ages
<1>2. lane[g[1]].since >= Later(Cooldown, Watchdog[g[1]])
  <2>1. ~(lane[g[1]].since < Wait(g[1]))
    BY DEF Marked, Cooling
  <2>2. Wait(g[1]) = Later(Cooldown, Watchdog[g[1]])
    BY DEF Marked, Wait
  <2> QED BY <1>1, <2>1, <2>2, SMT DEF Later
<1>3. Later(Cooldown, Watchdog[g[1]]) \in Nat
  BY <1>1, SMT DEF Later
<1>4. g[2] >= Watchdog[g[1]] + lane[g[1]].since
  BY DEF Marked
<1> QED BY <1>1, <1>2, <1>3, <1>4, SMT DEF Outlived, Gap

(* Time passes for ghosts, runs and errors alike.                          *)
LEMMA TickAges ==
  ASSUME Types, Tick, NEW g \in ghosts
  PROVE  LET h == <<g[1], Older(g[2])>> IN
         /\ Outlived(g) => Outlived(h)
         /\ Marked(g) => Outlived(h) \/ Marked(h)'
<1>1. /\ g[1] \in Lanes /\ g[1] \in Runners /\ g[2] \in Nat /\ g[2] <= Sat
      /\ lane[g[1]].since \in Nat /\ Watchdog[g[1]] \in Nat /\ Sat \in Nat
      /\ Gap(g[1]) \in Nat /\ Gap(g[1]) <= Sat
  BY GhostParts, Limits, SMT DEF Types, Ages
<1>2. Outlived(g) => Outlived(<<g[1], Older(g[2])>>)
  BY <1>1, SMT DEF Outlived, Older
<1>3. ASSUME Marked(g)
      PROVE  Outlived(<<g[1], Older(g[2])>>) \/ Marked(<<g[1], Older(g[2])>>)'
  <2>1. CASE g[2] = Sat
    BY <1>1, <2>1, SMT DEF Outlived, Older
  <2>2. CASE g[2] < Sat
    <3>1. run'[g[1]] = Off /\ g[1] \notin todo'
      BY <1>1, <1>3 DEF Marked, Tick, work
    <3>2. /\ lane'[g[1]].err = lane[g[1]].err
          /\ lane'[g[1]].since \in {lane[g[1]].since, Older(lane[g[1]].since)}
      BY <1>1 DEF Types, Tick
    <3>3. Older(lane[g[1]].since) <= lane[g[1]].since + 1 /\ Older(lane[g[1]].since) \in Nat
      BY <1>1, SMT DEF Older
    <3>4. Older(g[2]) = g[2] + 1
      BY <1>1, <2>2, SMT DEF Older
    <3>5. g[2] >= Watchdog[g[1]] + lane[g[1]].since /\ lane[g[1]].err = "watchdog"
      BY <1>3 DEF Marked
    <3>6. Older(g[2]) >= Watchdog[g[1]] + lane'[g[1]].since
      BY <1>1, <3>2, <3>3, <3>4, <3>5, SMT
    <3> QED BY <3>1, <3>2, <3>5, <3>6 DEF Marked
  <2> QED BY <1>1, <2>1, <2>2, SMT
<1> QED BY <1>2, <1>3

(* Steps that leave the ghosts, their lanes and their marks alone.         *)
LEMMA KeptSame ==
  ASSUME Kept, UNCHANGED <<ghosts, lane, todo>>, excused \subseteq excused',
         \A l \in Haunted : run'[l] = run[l]
  PROVE  Kept'
BY DEF Kept, Outlived, Marked, Haunted

(* Every step keeps the marks.                                             *)
LEMMA KeptStep ==
  ASSUME Types, Stations, Kept, [Next]_vars
  PROVE  Kept'
<1> USE DEF loop, table, work
<1>1. Stage \notin Lanes /\ Escalation \in Lanes /\ Lanes \subseteq Runners /\ Haunted \subseteq Lanes
  BY Limits DEF Runners, Types, Haunted
<1>2. run \in [Runners -> Ages \cup {Off}]
  BY DEF Types
<1>a. CASE StartPass \/ StageDone \/ StageThrows \/ StageExpires
  BY <1>a, <1>1, <1>2, KeptSame DEF StartPass, StageDone, StageThrows, StageExpires, LeaveStage
<1>b. CASE Complete \/ RecordSuccess \/ Catch \/ Finally \/ EndPass \/ Sigterm \/ Restart
  BY <1>b, KeptSame DEF Complete, RecordSuccess, Catch, Finally, EndPass, Sigterm, Restart
<1>c. CASE OpenContent \/ OpenOps
  <2>1. PICK from, lanes, to : OpenBatch(from, lanes, to)
    BY <1>c DEF OpenContent, OpenOps
  <2>2. CASE \A l \in todo' : ~Cooling(l)
    <3> SUFFICES ASSUME NEW g \in ghosts
                 PROVE  g[1] \in excused' \/ Outlived(g) \/ Marked(g)'
      BY <2>1 DEF OpenBatch, Kept, Outlived
    <3>1. excused \subseteq excused' /\ UNCHANGED <<run, ghosts, lane>>
      BY <2>1 DEF OpenBatch
    <3>2. CASE g[1] \in todo'
      BY <2>2, <3>1, <3>2, Thawed DEF Kept
    <3>3. CASE g[1] \notin todo'
      BY <3>1, <3>3 DEF Kept, Marked
    <3> QED BY <3>2, <3>3
  <2>3. CASE Haunted \subseteq excused'
    BY <2>1, <2>3 DEF OpenBatch, Kept, Haunted
  <2> QED BY <2>1, <2>2, <2>3 DEF OpenBatch
<1>d. ASSUME NEW l \in Lanes, StartLane(l) \/ LaneDone(l) \/ LaneFails(l) \/ (l = Escalation /\ EscalationDone)
      PROVE  Kept'
  <2>1. /\ UNCHANGED <<ghosts, excused>> /\ todo' \subseteq todo
        /\ l \in todo \/ run[l] # Off
        /\ \A k \in Lanes : k # l => run'[k] = run[k]
    BY <1>d, <1>1, <1>2 DEF StartLane, LaneDone, LaneFails, EscalationDone, Settles
  <2>2. \A k \in Lanes : k # l => lane'[k] = lane[k]
    BY <1>d DEF Types, StartLane, LaneDone, LaneFails, EscalationDone, Record
  <2> SUFFICES ASSUME NEW g \in ghosts
               PROVE  g[1] \in excused' \/ Outlived(g) \/ Marked(g)'
    BY <2>1 DEF Kept, Outlived
  <2>3. CASE g[1] = l
    BY <2>1, <2>3 DEF Kept, Marked
  <2>4. CASE g[1] # l
    BY <2>1, <2>2, <2>4, GhostParts DEF Kept, Marked
  <2> QED BY <2>3, <2>4
<1>e. ASSUME NEW l \in Lanes, LaneExpires(l)
      PROVE  Kept'
  <2>1. /\ UNCHANGED todo /\ l \notin todo /\ excused \subseteq excused'
        /\ run[l] # Off /\ run'[l] = Off /\ run[l] \in Ages /\ run[l] >= Watchdog[l]
        /\ \A k \in Lanes : k # l => run'[k] = run[k] /\ lane'[k] = lane[k]
        /\ ghosts' \subseteq ghosts \cup {<<l, run[l]>>}
    BY <1>e, <1>1, <1>2 DEF Types, Stations, LaneExpires, Settles
  <2>2. l \in excused' \/ lane'[l] = [err |-> "watchdog", since |-> 0]
    BY <1>e DEF Types, LaneExpires
  <2> SUFFICES ASSUME NEW g \in ghosts'
               PROVE  g[1] \in excused' \/ Outlived(g) \/ Marked(g)'
    BY DEF Kept, Outlived
  <2>3. CASE g = <<l, run[l]>>
    <3>1. g[1] = l /\ g[2] = run[l]
      BY <2>3
    <3>2. Watchdog[l] + 0 = Watchdog[l]
      BY <1>1, Limits, SMT
    <3> QED BY <2>1, <2>2, <3>1, <3>2 DEF Marked
  <2>4. CASE g \in ghosts /\ g[1] = l
    BY <2>1, <2>4 DEF Kept, Marked
  <2>5. CASE g \in ghosts /\ g[1] # l
    BY <2>1, <2>5, GhostParts DEF Kept, Marked
  <2> QED BY <2>1, <2>3, <2>4, <2>5
<1>f. ASSUME NEW e \in ghosts, GhostEnds(e)
      PROVE  Kept'
  BY <1>f DEF GhostEnds, Kept, Outlived, Marked
<1>g. CASE Crash \/ Exit
  BY <1>g DEF Crash, Exit, Gone, Kept
<1>h. CASE Tick
  <2> SUFFICES ASSUME NEW g \in ghosts
               PROVE  LET h == <<g[1], Older(g[2])>> IN
                      g[1] \in excused' \/ Outlived(h) \/ Marked(h)'
    BY <1>h DEF Tick, Kept, Outlived
  <2> QED BY <1>h, TickAges DEF Kept, Tick
<1>i. CASE UNCHANGED vars
  BY <1>i, KeptSame DEF vars
<1> QED BY <1>1, <1>a, <1>b, <1>c, <1>d, <1>e, <1>f, <1>g, <1>h, <1>i DEF Next

(* Every step keeps the runs of a lane apart.                              *)
LEMMA ApartStep ==
  ASSUME Types, Stations, Kept, LanesApart, [Next]_vars
  PROVE  LanesApart'
<1> USE DEF loop, table, work
<1>1. Stage \notin Lanes /\ Escalation \in Lanes /\ Lanes \subseteq Runners
  BY Limits DEF Runners
<1>2. run \in [Runners -> Ages \cup {Off}]
  BY DEF Types
<1>3. ASSUME ghosts' \subseteq ghosts, \A l \in excused : l \in excused' \/ \A g \in ghosts' : g[1] # l,
             \A l \in Lanes : run'[l] \in {run[l], Off}
      PROVE  LanesApart'
  BY <1>3, GhostParts DEF LanesApart
<1>a. CASE StartPass \/ StageDone \/ StageThrows \/ StageExpires
  BY <1>a, <1>1, <1>2, <1>3 DEF StartPass, StageDone, StageThrows, StageExpires, LeaveStage
<1>b. CASE Complete \/ RecordSuccess \/ Catch \/ Finally \/ EndPass \/ Sigterm \/ Restart
  BY <1>b, <1>3 DEF Complete, RecordSuccess, Catch, Finally, EndPass, Sigterm, Restart
<1>c. CASE OpenContent \/ OpenOps
  BY <1>c, <1>3 DEF OpenContent, OpenOps, OpenBatch
<1>d. ASSUME NEW l \in Lanes, LaneDone(l) \/ LaneFails(l) \/ (l = Escalation /\ EscalationDone)
      PROVE  LanesApart'
  BY <1>d, <1>1, <1>2, <1>3 DEF LaneDone, LaneFails, EscalationDone, Settles
<1>e. ASSUME NEW l \in Lanes, StartLane(l)
      PROVE  LanesApart'
  <2>1. /\ UNCHANGED <<ghosts, excused>> /\ l \in todo /\ run'[l] = 0
        /\ \A k \in Lanes : k # l => run'[k] = run[k]
    BY <1>e, <1>1, <1>2 DEF StartLane
  <2>2. ASSUME NEW g \in ghosts, g[1] = l, g[1] \notin excused
        PROVE  g[2] >= 0 + Gap(l)
    <3>1. Outlived(g)
      BY <2>1, <2>2 DEF Kept, Marked
    <3> QED BY <2>2, <3>1, Limits, SMT DEF Outlived
  <2> QED BY <2>1, <2>2, GhostParts DEF LanesApart
<1>f. ASSUME NEW l \in Lanes, LaneExpires(l)
      PROVE  LanesApart'
  <2>1. /\ run'[l] = Off /\ excused \subseteq excused'
        /\ \A k \in Lanes : k # l => run'[k] = run[k]
        /\ ghosts' \subseteq ghosts \cup {<<l, run[l]>>}
    BY <1>f, <1>1, <1>2 DEF LaneExpires, Settles
  <2> SUFFICES ASSUME NEW g \in ghosts', g[1] \notin excused', run'[g[1]] # Off
               PROVE  g[2] >= Sat \/ g[2] >= run'[g[1]] + Gap(g[1])
    BY DEF LanesApart
  <2>2. g \in ghosts /\ g[1] # l
    BY <2>1
  <2> QED BY <2>1, <2>2, GhostParts DEF LanesApart
<1>g. ASSUME NEW e \in ghosts, GhostEnds(e)
      PROVE  LanesApart'
  BY <1>g, <1>3 DEF GhostEnds
<1>h. CASE Crash \/ Exit
  BY <1>h DEF Crash, Exit, Gone, LanesApart
<1>i. CASE Tick
  <2> SUFFICES ASSUME NEW g \in ghosts, g[1] \notin excused, run'[g[1]] # Off
               PROVE  Older(g[2]) >= Sat \/ Older(g[2]) >= run'[g[1]] + Gap(g[1])
    BY <1>i DEF Tick, LanesApart
  <2>1. /\ g[1] \in Lanes /\ g[2] \in Nat /\ g[2] <= Sat /\ Sat \in Nat /\ Gap(g[1]) \in Nat
        /\ run[g[1]] \in Ages \cup {Off}
    BY <1>1, <1>2, GhostParts, Limits, SMT DEF Ages
  <2>2. run[g[1]] # Off /\ run'[g[1]] = run[g[1]] + 1
    BY <1>1, <1>i, <2>1 DEF Tick
  <2>3. run[g[1]] \in Nat
    BY <2>1, <2>2, Limits, SMT DEF Ages
  <2>4. g[2] >= Sat \/ g[2] >= run[g[1]] + Gap(g[1])
    BY <2>2 DEF LanesApart
  <2> QED BY <2>1, <2>2, <2>3, <2>4, SMT DEF Older
<1>j. CASE UNCHANGED vars
  BY <1>j, <1>3 DEF vars
<1> QED BY <1>1, <1>a, <1>b, <1>c, <1>d, <1>e, <1>f, <1>g, <1>h, <1>i, <1>j DEF Next

(* No run of a lane is started within the gap of one given up before it.   *)
THEOREM RunsApart == Spec => []LanesApart
<1>1. Init => Kept /\ LanesApart
  BY DEF Init, Kept, LanesApart
<1>2. TypeOK /\ Kept /\ LanesApart /\ [Next]_vars => (Kept /\ LanesApart)'
  BY KeptStep, ApartStep DEF TypeOK
<1> QED BY <1>1, <1>2, Typing, PTL DEF Spec

-----------------------------------------------------------------------------
(* A pass that may still be written holds an open row, unless the reaper   *)
(* or a stop was there first; once it was recorded the loop knows.         *)
Honest ==
  /\ \/ phase \in {"stage", "staged", "content"}
     \/ phase \in {"catch", "finally"} /\ ~completed
     => row.status = "RUNNING" \/ row.by = "reaper" \/ stopping
  /\ phase = "recorded" => completed

(* Sweeping leaves an honest row honest.                                   *)
LEMMA SweptHonest ==
  ASSUME Types, Honest, NEW age \in Nat, Sweep(age), UNCHANGED <<loop, stopping>>
  PROVE  Honest'
BY SweepTypes DEF Honest, loop

(* Every step keeps the loop's view of its row.                            *)
LEMMA HonestStep ==
  ASSUME Types, Stations, Honest, [Next]_vars
  PROVE  Honest'
<1> USE DEF loop, table, work
<1>1. Stage \notin Lanes /\ Escalation \in Lanes
  BY Limits
<1>a. CASE StartPass \/ StageDone \/ StageThrows \/ StageExpires
  BY <1>a DEF Honest, StartPass, StageDone, StageThrows, StageExpires, LeaveStage
<1>b. CASE Complete \/ RecordSuccess \/ Catch \/ Finally \/ EndPass
  BY <1>b DEF Honest, Complete, RecordSuccess, Catch, Finally, CloseFailed, EndPass
<1>c. CASE OpenContent \/ OpenOps
  BY <1>c DEF Honest, OpenContent, OpenOps, OpenBatch
<1>d. ASSUME NEW l \in Lanes, StartLane(l) \/ LaneDone(l) \/ LaneFails(l) \/ LaneExpires(l)
      PROVE  Honest'
  BY <1>d DEF Honest, StartLane, LaneDone, LaneFails, LaneExpires
<1>e. CASE EscalationDone
  BY <1>e, SweptHonest, Limits DEF EscalationDone
<1>f. ASSUME NEW g \in ghosts, GhostEnds(g)
      PROVE  Honest'
  <2>1. CASE UNCHANGED table
    BY <1>f, <2>1 DEF Honest, GhostEnds
  <2>2. CASE Sweep(Reap)
    BY <1>f, <2>2, SweptHonest, Limits DEF GhostEnds
  <2> QED BY <1>f, <2>1, <2>2 DEF GhostEnds
<1>g. CASE Crash \/ Exit \/ Restart
  BY <1>g DEF Honest, Crash, Exit, Gone, Restart
<1>h. CASE Sigterm
  BY <1>h DEF Honest, Sigterm
<1>i. CASE Tick
  <2>1. row'.status = row.status /\ row'.by = row.by
    BY <1>i DEF Types, Rows, Tick
  <2> QED BY <1>i, <2>1 DEF Honest, Tick
<1>j. CASE UNCHANGED vars
  BY <1>j DEF Honest, vars
<1> QED BY <1>a, <1>b, <1>c, <1>d, <1>e, <1>f, <1>g, <1>h, <1>i, <1>j DEF Next

(* A step that changes the status of a closed row opens the next pass, ends *)
(* the process, belongs to a stop, or answers the reaper.                  *)
LEMMA ClosedStep ==
  ASSUME Types, Stations, Honest, [Next]_vars, row.status \in {"SUCCEEDED", "FAILED"}
  PROVE  \/ row'.status = row.status
         \/ row'.status \in {"none", "RUNNING"}
         \/ stopping'
         \/ row.by = "reaper"
<1> USE DEF loop, table, work
<1>a. CASE StartPass \/ StageDone \/ StageThrows \/ StageExpires
  BY <1>a DEF StartPass, StageDone, StageThrows, StageExpires, LeaveStage
<1>b. CASE Complete \/ RecordSuccess \/ Catch \/ Finally \/ EndPass
  BY <1>b DEF Honest, Complete, RecordSuccess, Catch, Finally, CloseFailed, EndPass
<1>c. CASE OpenContent \/ OpenOps
  BY <1>c DEF OpenContent, OpenOps, OpenBatch
<1>d. CASE \E l \in Lanes : StartLane(l) \/ LaneDone(l) \/ LaneFails(l) \/ LaneExpires(l)
  BY <1>d DEF StartLane, LaneDone, LaneFails, LaneExpires
<1>e. CASE EscalationDone \/ Restart \/ \E g \in ghosts : GhostEnds(g)
  BY <1>e DEF EscalationDone, Restart, GhostEnds, Sweep
<1>f. CASE Crash \/ Exit
  BY <1>f, RowTypes DEF Crash, Exit, Gone, NoRow, Statuses
<1>g. CASE Sigterm
  BY <1>g DEF Sigterm
<1>h. CASE Tick
  BY <1>h DEF Types, Rows, Tick
<1>i. CASE UNCHANGED vars
  BY <1>i DEF vars
<1> QED BY <1>a, <1>b, <1>c, <1>d, <1>e, <1>f, <1>g, <1>h, <1>i DEF Next

(* A closed pass keeps its status.                                         *)
THEOREM ClosedForGood == Spec => ClosedStays
<1>1. Init => Honest
  BY DEF Init, Honest
<1>2. TypeOK /\ Honest /\ [Next]_vars => Honest'
  BY HonestStep DEF TypeOK
<1>3. TypeOK /\ Honest /\ [Next]_vars =>
        [row.status \in {"SUCCEEDED", "FAILED"} =>
           \/ row'.status = row.status
           \/ row'.status \in {"none", "RUNNING"}
           \/ stopping'
           \/ row.by = "reaper"]_vars
  BY ClosedStep DEF TypeOK
<1> QED BY <1>1, <1>2, <1>3, Typing, PTL DEF Spec, ClosedStays

=============================================================================
