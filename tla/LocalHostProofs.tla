--------------------------- MODULE LocalHostProofs ---------------------------
\* Theorems about the local worker host, for any number of requests, restart
\* decisions, worker processes and environment events.
EXTENDS LocalHost, TLAPS

-----------------------------------------------------------------------------
\* The parts of the type invariant, and the pieces states are made of.

Hosts == [life: {"up", "leaving", "down"}, runState: RunStates, child: Procs \cup {None},
          armed: BOOLEAN, offNotRecorded: BOOLEAN, pendingDurableOff: BOOLEAN,
          blocked: BOOLEAN]
Gots == {"none", "unknown", "off", "on", "rearmed", "acquired", "held", "unreachable",
         "wrote", "failed"}
Whys == {"none", "crash", "refusal", "resume", "switch_off", "unrecorded"}
Records == [pc: Pcs, got: Gots, why: Whys, fresh: BOOLEAN, latest: BOOLEAN,
            victim: Procs \cup {None}]
Processes == [phase: Phases, code: Codes, orphan: BOOLEAN, lost: BOOLEAN]

DbTyped ==
  /\ switch \in BOOLEAN
  /\ seen \in {"none", "off", "on", "rewritten"}
  /\ lease \in {"none", "me", "old", "other"}
  /\ dbUp \in BOOLEAN
  /\ late \subseteq {"off", "me", "old"}
  /\ budget \in 0 .. MaxEvents

\* The type invariant, in parts.
LEMMA TypeParts ==
  TypeOK <=> /\ DbTyped
             /\ host \in Hosts
             /\ task \in [Tasks -> Records]
             /\ proc \in [Procs -> Processes]
BY DEF TypeOK, DbTyped, Hosts, Records, Gots, Whys, Processes

\* The same of the next state.
LEMMA TypePartsNext ==
  ASSUME DbTyped', host' \in Hosts, task' \in [Tasks -> Records], proc' \in [Procs -> Processes]
  PROVE  TypeOK'
BY DEF TypeOK, DbTyped, Hosts, Records, Gots, Whys, Processes

\* No process slot is number None, and the tasks are of five kinds.
LEMMA Kinds ==
  /\ None \notin Procs
  /\ "poll" \in Tasks /\ "tick" \in Tasks /\ "quit" \in Tasks
  /\ Requests \subseteq Tasks /\ Decisions \subseteq Tasks
  /\ "poll" \notin Decisions /\ "tick" \notin Decisions /\ "quit" \notin Decisions
  /\ "poll" \notin Requests /\ "tick" \notin Requests /\ "quit" \notin Requests
  /\ Requests \cap Decisions = {}
BY HostAssumption DEF None, Procs, Tasks

\* The records a task starts from.
LEMMA RecordsTyped ==
  /\ Idle \in Records
  /\ \A pc \in Pcs : At(pc) \in Records /\ Ticketed(pc) \in Records
  /\ \A pc \in Pcs : At(pc) = [Idle EXCEPT !.pc = pc]
  /\ \A pc \in Pcs : At(pc).pc = pc /\ ~ At(pc).fresh
  /\ \A pc \in Pcs : Ticketed(pc).pc = pc /\ Ticketed(pc).fresh
  /\ CrashDecision \in Records
  /\ CrashDecision.pc = "read" /\ CrashDecision.why = "crash" /\ CrashDecision.fresh
<1>1. Idle \in Records
  BY DEF Idle, Records, Pcs, Gots, Whys
<1>2. \A pc \in Pcs : /\ At(pc) \in Records /\ At(pc).pc = pc /\ ~ At(pc).fresh
                      /\ Ticketed(pc) \in Records /\ Ticketed(pc).pc = pc /\ Ticketed(pc).fresh
  BY DEF At, Ticketed, Idle, Records, Gots, Whys
<1>3. "read" \in Pcs
  BY DEF Pcs
<1>4. /\ CrashDecision \in Records
      /\ CrashDecision.pc = "read" /\ CrashDecision.why = "crash" /\ CrashDecision.fresh
  <2> DEFINE t == Ticketed("read")
  <2>1. t \in Records /\ t.pc = "read" /\ t.fresh
    BY <1>2, <1>3
  <2> HIDE DEF t
  <2>2. [t EXCEPT !.why = "crash"] \in Records
        /\ [t EXCEPT !.why = "crash"].pc = "read" /\ [t EXCEPT !.why = "crash"].why = "crash"
        /\ [t EXCEPT !.why = "crash"].fresh
    BY <2>1 DEF Records, Whys
  <2> QED
    BY <2>2 DEF CrashDecision, t
<1> QED
  BY <1>1, <1>2, <1>4 DEF At

\* A free decision is a decision, and none that is under way.
LEMMA FreeOne ==
  ASSUME FreeDecisions # {}
  PROVE  /\ SomeDecision \in Decisions /\ SomeDecision \in Tasks
         /\ task[SomeDecision].pc = "idle"
BY Kinds DEF FreeDecisions, SomeDecision

\* What a task goes on to do after its stop keeps its ticket at most, and only
\* the shutdown's is the release of the lease.
LEMMA ResumedTyped ==
  ASSUME NEW t \in Tasks, NEW r \in Records
  PROVE  /\ Resumed(t, r) \in Records
         /\ Resumed(t, r).pc # "stopping"
         /\ Resumed(t, r).fresh => r.fresh
         /\ Resumed(t, r).pc \in {"quit_release", "quit_go"} => t = "quit"
<1>1. "write_off" \in Pcs /\ "release" \in Pcs /\ "quit_release" \in Pcs
  BY DEF Pcs
<1>2. CASE t \in Requests
  <2> DEFINE a == At("write_off")
  <2>1. a \in Records /\ a.pc = "write_off" /\ ~ a.fresh
    BY <1>1, RecordsTyped
  <2>2. Resumed(t, r) = [a EXCEPT !.latest = TRUE]
    BY <1>2, Kinds DEF Resumed
  <2> HIDE DEF a
  <2> QED
    BY <2>1, <2>2 DEF Records
<1>3. CASE t = "poll"
  <2>1. Resumed(t, r) = IF r.why = "switch_off" THEN At("release") ELSE Idle
    BY <1>3, Kinds DEF Resumed
  <2> QED
    BY <1>1, <2>1, RecordsTyped DEF Idle
<1>4. CASE t \in Decisions
  <2>1. Resumed(t, r) = [r EXCEPT !.pc = "read", !.victim = None]
    BY <1>4, Kinds DEF Resumed
  <2> DEFINE m == [r EXCEPT !.pc = "read"]
  <2>2. m \in Records /\ m.pc = "read" /\ m.fresh = r.fresh
    BY DEF Records, Pcs
  <2>3. Resumed(t, r) = [m EXCEPT !.victim = None]
    BY <2>1
  <2> HIDE DEF m
  <2>4. [m EXCEPT !.victim = None] \in Records /\ [m EXCEPT !.victim = None].pc = m.pc
        /\ [m EXCEPT !.victim = None].fresh = m.fresh
    BY <2>2 DEF Records
  <2> QED
    BY <2>2, <2>3, <2>4
<1>5. CASE t = "quit"
  <2>1. Resumed(t, r) = At("quit_release")
    BY <1>5, Kinds DEF Resumed
  <2> QED
    BY <1>1, <1>5, <2>1, RecordsTyped
<1>6. CASE t = "tick"
  <2>1. Resumed(t, r) = Idle
    BY <1>6, Kinds DEF Resumed
  <2> QED
    BY <2>1, RecordsTyped DEF Idle
<1> QED
  BY <1>2, <1>3, <1>4, <1>5, <1>6 DEF Tasks

-----------------------------------------------------------------------------
\* The database's part of the type invariant: every step, one clause at a time.

LEMMA DatabaseTyped ==
  ASSUME TypeOK, Next
  PROVE  DbTyped'
<1>1. DbTyped
  BY TypeParts
<1>2. UNCHANGED dbVars /\ UNCHANGED budget => DbTyped'
  BY <1>1 DEF dbVars, DbTyped
<1>3. Spend \/ UNCHANGED budget => budget' \in 0 .. MaxEvents
  BY <1>1, HostAssumption DEF DbTyped, Spend
<1>4. UNCHANGED dbVars /\ (Spend \/ UNCHANGED budget) => DbTyped'
  BY <1>1, <1>3 DEF dbVars, DbTyped
<1>5. \A on \in BOOLEAN : WriteSwitch(on) => 
        switch' \in BOOLEAN /\ seen' \in {"none", "off", "on", "rewritten"}
  BY <1>1 DEF WriteSwitch, DbTyped
<1>6. \A id \in {"me", "old"} :
        ClaimLease(id) \/ ReleaseOf(id) => lease' \in {"none", "me", "old", "other"}
  BY <1>1 DEF ClaimLease, ReleaseOf, DbTyped
<1>7. ASSUME Poll PROVE DbTyped'
  <2>1. BootGo \/ PollDecide \/ Probe => UNCHANGED dbVars /\ UNCHANGED budget
    BY DEF BootGo, PollDecide, Probe
  <2>2. ASSUME NEW pc, PollClaimed(pc) PROVE DbTyped'
    BY <2>2, <1>4 DEF PollClaimed, Spawn
  <2>3. ASSUME NEW a, NEW b, PollClaim(a, b) PROVE DbTyped'
    BY <2>3, <1>1, <1>6 DEF PollClaim, DbTyped
  <2>4. BootRead \/ PollRead \/ PollRelease => DbTyped'
    BY <1>1, <1>6 DEF BootRead, PollRead, PollRelease, ReleaseLease, DbTyped
  <2> QED
    BY <1>2, <1>7, <2>1, <2>2, <2>3, <2>4 DEF Poll
<1>8. ASSUME Unblock \/ Tick \/ Fire PROVE DbTyped'
  BY <1>2, <1>8 DEF Unblock, Tick, TickRetriesOff, TickFindsLost, TickStops, Fire
<1>9. ASSUME Quit PROVE DbTyped'
  <2>1. QuitBegin \/ Relaunch => UNCHANGED dbVars /\ (Spend \/ UNCHANGED budget)
    BY DEF QuitBegin, Relaunch
  <2>2. QuitRelease => DbTyped'
    BY <1>1, <1>3, <1>6 DEF QuitRelease, ReleaseLease, DbTyped
  <2>3. HostGone /\ (Spend \/ UNCHANGED budget) => DbTyped'
    BY <1>1, <1>3 DEF HostGone, DbTyped
  <2> QED
    BY <1>4, <1>9, <2>1, <2>2, <2>3 DEF Quit, QuitGo, HostKilled
<1>10. ASSUME LateOff \/ \E id \in {"me", "old"} : LateRelease(id) PROVE DbTyped'
  BY <1>1, <1>5, <1>10 DEF LateOff, LateRelease, DbTyped
<1>11. ASSUME NEW r \in Requests, Request(r) PROVE DbTyped'
  <2>1. OnBegin(r) \/ OffBegin(r) => UNCHANGED dbVars /\ Spend
    BY DEF OnBegin, OffBegin
  <2>2. OnStart(r) => UNCHANGED dbVars /\ (Spend \/ UNCHANGED budget)
    BY DEF OnStart, Spawn
  <2>3. OnClaim(r) => DbTyped'
    BY <1>1, <1>6 DEF OnClaim, DbTyped
  <2>4. OnWrite(r) => DbTyped'
    BY <1>1, <1>5 DEF OnWrite, DbTyped
  <2> QED
    BY <1>4, <1>11, <2>1, <2>2, <2>3, <2>4 DEF Request
<1>12. ASSUME NEW d \in Decisions, Decision(d) \/ HungRestart(d) PROVE DbTyped'
  BY <1>4, <1>12 DEF Decision, DecisionRead, DecisionGo, HungRestart, Spawn
<1>13. ASSUME NEW t \in Tasks, DurableOff(t) \/ StopTimeout(t) PROVE DbTyped'
  <2>1. WriteOff(t) => DbTyped'
    BY <1>1, <1>3, <1>5 DEF WriteOff, DbTyped
  <2>2. ReleaseOff(t) => DbTyped'
    BY <1>1, <1>3, <1>6 DEF ReleaseOff, ReleaseLease, DbTyped
  <2> QED
    BY <1>2, <1>13, <2>1, <2>2 DEF DurableOff, StopTimeout
<1>14. ASSUME NEW p \in Procs, Child(p) \/ ExitEvent(p) \/ SpawnFails(p) PROVE DbTyped'
  <2>1. Id(p) \in {"me", "old"}
    BY DEF Id
  <2>2. ChildClaims(p) \/ ChildExits(p) => DbTyped'
    BY <1>1, <1>6, <2>1 DEF ChildClaims, ChildExits, DbTyped
  <2>3. ChildReadsSwitch(p) \/ ChildSeesOff(p) \/ ChildFails(p) \/ ChildHangs(p)
        \/ ChildLosesHost(p) \/ OrphanReaped(p) \/ ExitEvent(p) \/ SpawnFails(p)
          => UNCHANGED dbVars /\ (Spend \/ UNCHANGED budget)
    BY DEF ChildReadsSwitch, ChildSeesOff, ChildFails, ChildHangs, ChildLosesHost,
           OrphanReaped, ExitEvent, SpawnFails
  <2> QED
    BY <1>4, <1>14, <2>2, <2>3 DEF Child
<1>15. ASSUME Environment PROVE DbTyped'
  BY <1>1, <1>3, <1>5, <1>15 DEF Environment, PhoneWrites, Outage, Recover, OtherClaims,
     OtherLeaves, DbTyped
<1> QED
  BY <1>7, <1>8, <1>9, <1>10, <1>11, <1>12, <1>13, <1>14, <1>15 DEF Next

-----------------------------------------------------------------------------
\* The inductive invariant.

\* The run state is set along with the child, and a host on its way out has no
\* ticket that still counts and at most a child that it is stopping.
RunInv ==
  /\ RunStateTracksChild
  /\ host.life # "up" => \A t \in Tasks : ~ task[t].fresh
  /\ host.life # "up" /\ host.child # None => host.runState = "stopping"
  /\ host.child # None /\ host.runState = "stopping" => proc[host.child].phase # "boot"

\* The shutdown releases the lease and ends only once the child is gone, and a
\* host that is gone has left nothing behind but orphans.
QuitInv ==
  /\ task["quit"].pc \in {"stopping", "quit_release", "quit_go"} => host.life = "leaving"
  /\ task["quit"].pc \in {"quit_release", "quit_go"} => host.child = None
  /\ host.life = "down" =>
       /\ host.child = None
       /\ \A t \in Tasks : task[t].pc # "stopping"
       /\ \A p \in Procs : proc[p].phase = "none" \/ Orphan(p)

HostInv == TypeOK /\ RunInv /\ QuitInv /\ UntrackedOnlyByLateExit

\* A restart decision that follows a crash and that no stop has overtaken.
Asks(r) == r.pc \in {"read", "go"} /\ r.why = "crash" /\ r.fresh

\* Task record a may become b in a step that does not touch the child.
Follows(a, b) ==
  /\ b.fresh => a.fresh \/ host.life = "up"
  /\ b.pc = "stopping" => a.pc = "stopping"
  /\ b.pc \in {"quit_release", "quit_go"} => a.pc \in {"quit_release", "quit_go"}

\* Worker process a may become b by itself.
LivePhases == {"boot", "claim", "work", "hung", "exiting"}
Advances(a, b) ==
  \/ a.orphan /\ b = NoProc
  \/ /\ b.orphan = a.orphan
     /\ b.lost = a.lost
     /\ b.phase \in LivePhases => a.phase \in LivePhases
     /\ b.phase = "boot" => a.phase = "boot"
     /\ a.phase = "none" => b.phase = "none"

\* The run state stays, with the decision that explains it, or is settled while
\* there is no child.
Settles ==
  \/ /\ host'.runState = host.runState
     /\ host.child # None \/ \A d \in Decisions : Asks(task[d]) => Asks(task'[d])
  \/ host.child = None /\ host'.runState \in {"off", "crashed", "failed"}

\* A step that leaves the child and the life of the host alone, whatever else
\* it does, keeps the invariant.
LEMMA QuietKeeps ==
  ASSUME HostInv, DbTyped',
         host' \in Hosts, host'.life = host.life, host'.child = host.child, Settles,
         task' \in [Tasks -> Records], \A t \in Tasks : Follows(task[t], task'[t]),
         proc' \in [Procs -> Processes], \A p \in Procs : Advances(proc[p], proc'[p])
  PROVE  HostInv'
<1>1. TypeOK' /\ host \in Hosts
  BY TypePartsNext, TypeParts DEF HostInv
<1>2. SpawnFailed <=> \E d \in Decisions : Asks(task[d])
  BY DEF SpawnFailed, Asks
<1>3. SpawnFailed' <=> \E d \in Decisions : Asks(task'[d])
  BY DEF SpawnFailed, Asks
<1>4. RunStateTracksChild'
  <2>1. RunStateTracksChild
    BY DEF HostInv, RunInv
  <2> QED
    BY <1>2, <1>3, <2>1 DEF RunStateTracksChild, Settles
<1>5. host'.life # "up" => \A t \in Tasks : ~ task'[t].fresh
  BY DEF HostInv, RunInv, Follows
<1>6. /\ host'.life # "up" /\ host'.child # None => host'.runState = "stopping"
      /\ host'.child # None /\ host'.runState = "stopping" => proc'[host'.child].phase # "boot"
  <2>1. host.child # None => host'.runState = host.runState
    BY DEF Settles
  <2>2. host.child # None => host.child \in Procs
    BY <1>1 DEF Hosts
  <2> QED
    BY <2>1, <2>2 DEF HostInv, RunInv, Advances, NoProc
<1>7. RunInv'
  BY <1>4, <1>5, <1>6 DEF RunInv
<1>8. QuitInv'
  <2>1. \A p \in Procs : proc[p].phase = "none" \/ proc[p].orphan
                        => proc'[p].phase = "none" \/ proc'[p].orphan
    BY DEF Advances, NoProc
  <2> QED
    BY <2>1, Kinds DEF HostInv, QuitInv, Follows, Orphan
<1>9. UntrackedOnlyByLateExit'
  BY DEF HostInv, UntrackedOnlyByLateExit, Live, Orphan, Lost, Advances, LivePhases, NoProc
<1> QED
  BY <1>1, <1>7, <1>8, <1>9 DEF HostInv

\* The same when one task moves on and the processes stay as they are.
LEMMA OneTaskKeeps ==
  ASSUME HostInv, DbTyped', NEW t \in Tasks, NEW r \in Records,
         host' \in Hosts, host'.life = host.life, host'.child = host.child,
         \/ host'.runState = host.runState /\ (host.child # None \/ t \notin Decisions
                                               \/ ~ Asks(task[t]) \/ Asks(r))
         \/ host.child = None /\ host'.runState \in {"off", "crashed", "failed"},
         task' = [task EXCEPT ![t] = r], Follows(task[t], r),
         UNCHANGED proc
  PROVE  HostInv'
<1>1. task \in [Tasks -> Records] /\ proc \in [Procs -> Processes]
  BY TypeParts DEF HostInv
<1>2. task' \in [Tasks -> Records] /\ \A u \in Tasks : task'[u] = IF u = t THEN r ELSE task[u]
  BY <1>1
<1>3. \A u \in Tasks : Follows(task[u], task'[u])
  BY <1>2 DEF Follows
<1>4. Settles
  BY <1>2, Kinds DEF Settles
<1>5. \A p \in Procs : Advances(proc[p], proc'[p])
  BY DEF Advances
<1> QED
  BY <1>1, <1>2, <1>3, <1>4, <1>5, QuietKeeps

\* The same when nothing of the host's moves but one process.
LEMMA OneChildKeeps ==
  ASSUME HostInv, DbTyped', NEW p \in Procs, NEW b \in Processes,
         proc' = [proc EXCEPT ![p] = b], Advances(proc[p], b),
         UNCHANGED <<host, task>>
  PROVE  HostInv'
<1>1. /\ task \in [Tasks -> Records] /\ proc \in [Procs -> Processes] /\ host \in Hosts
      /\ task' = task /\ host' = host
  BY TypeParts DEF HostInv
<1>2. proc' \in [Procs -> Processes] /\ \A q \in Procs : proc'[q] = IF q = p THEN b ELSE proc[q]
  BY <1>1
<1>3. \A q \in Procs : Advances(proc[q], proc'[q])
  BY <1>2 DEF Advances
<1>4. Settles /\ \A u \in Tasks : Follows(task[u], task'[u])
  BY <1>1 DEF Settles, Follows
<1> QED
  BY <1>1, <1>2, <1>3, <1>4, QuietKeeps

\* The same when only the database's part, or the rest of the host record,
\* changes.
LEMMA NothingMovesKeeps ==
  ASSUME HostInv, DbTyped', UNCHANGED <<task, proc>>,
         host' \in Hosts, host'.life = host.life, host'.child = host.child,
         host'.runState = host.runState
  PROVE  HostInv'
<1>1. /\ task \in [Tasks -> Records] /\ proc \in [Procs -> Processes]
      /\ task' = task /\ proc' = proc
  BY TypeParts DEF HostInv
<1>2. Settles /\ \A u \in Tasks : Follows(task[u], task'[u])
  BY <1>1 DEF Settles, Follows
<1>3. \A p \in Procs : Advances(proc[p], proc'[p])
  BY <1>1 DEF Advances
<1> QED
  BY <1>1, <1>2, <1>3, QuietKeeps

-----------------------------------------------------------------------------
\* The steps that do touch the child.

\* A start gives the host its only child, and only while it is up
\* (startWorkerChild).
LEMMA SpawnKeeps ==
  ASSUME HostInv, DbTyped', NEW t \in Tasks, NEW h \in Hosts, Spawn(t, h),
         h.life = host.life, h.child = host.child, h.runState = host.runState,
         t \in Decisions => ~ Asks(task[t])
  PROVE  HostInv'
<1>1. /\ TypeOK /\ task \in [Tasks -> Records] /\ proc \in [Procs -> Processes]
      /\ host \in Hosts
  BY TypeParts DEF HostInv
<1>2. Idle \in Records /\ ~ Idle.fresh /\ Idle.pc = "idle"
  BY RecordsTyped DEF Idle
<1>3. CASE ~ Spawns /\ host' = h /\ Return(t) /\ UNCHANGED <<proc, budget>>
  <2>1. task' = [task EXCEPT ![t] = Idle] /\ Follows(task[t], Idle)
    BY <1>2, <1>3 DEF Return, Follows
  <2> QED
    BY <1>2, <1>3, <2>1, OneTaskKeeps
<1>4. CASE /\ Spawns
           /\ \E p \in Procs :
                /\ proc[p].phase = "none"
                /\ host' = [h EXCEPT !.child = p, !.runState = "running"]
                /\ proc' = [proc EXCEPT ![p] = [NoProc EXCEPT !.phase = "boot"]]
           /\ Return(t)
  <2>1. PICK p \in Procs :
          /\ proc[p].phase = "none"
          /\ host' = [h EXCEPT !.child = p, !.runState = "running"]
          /\ proc' = [proc EXCEPT ![p] = [NoProc EXCEPT !.phase = "boot"]]
    BY <1>4
  <2>2. host.child = None /\ host.life = "up" /\ p # None
    BY <1>4, Kinds DEF Spawns
  <2>3. host' \in Hosts /\ host'.child = p /\ host'.runState = "running" /\ host'.life = "up"
    BY <2>1, <2>2 DEF Hosts, RunStates
  <2>4. /\ proc' \in [Procs -> Processes]
        /\ proc'[p].phase = "boot" /\ ~ proc'[p].orphan
        /\ \A q \in Procs \ {p} : proc'[q] = proc[q]
    BY <1>1, <2>1 DEF NoProc, Processes, Phases, Codes
  <2>5. task' \in [Tasks -> Records] /\ \A u \in Tasks : task'[u] = IF u = t THEN Idle ELSE task[u]
    BY <1>1, <1>2, <1>4 DEF Return
  <2>6. TypeOK'
    BY <2>3, <2>4, <2>5, TypePartsNext
  <2>7. RunInv'
    BY <2>2, <2>3 DEF RunInv, RunStateTracksChild
  <2>8. QuitInv'
    BY <1>2, <2>2, <2>3, <2>5, Kinds DEF HostInv, QuitInv
  <2>9. UntrackedOnlyByLateExit'
    <3>1. \A q \in Procs : Live(q) => Orphan(q) \/ Lost(q)
      BY <2>2, Kinds DEF HostInv, UntrackedOnlyByLateExit
    <3> QED
      BY <2>3, <2>4, <3>1 DEF UntrackedOnlyByLateExit, Live, Orphan, Lost
  <2> QED
    BY <2>6, <2>7, <2>8, <2>9 DEF HostInv
<1>5. CASE /\ Spawns /\ FreeDecisions # {}
           /\ host' = [h EXCEPT !.runState = "starting"]
           /\ task' = [task EXCEPT ![t] = Idle, ![SomeDecision] = CrashDecision]
           /\ UNCHANGED proc
  <2>1. host.child = None /\ host.life = "up"
    BY <1>5 DEF Spawns
  <2>2. host' \in Hosts /\ host'.child = None /\ host'.runState = "starting" /\ host'.life = "up"
    BY <1>5, <2>1 DEF Hosts, RunStates
  <2>3. SomeDecision \in Decisions /\ SomeDecision \in Tasks
    BY <1>5, FreeOne
  <2>4. /\ task' \in [Tasks -> Records]
        /\ task'[SomeDecision] = CrashDecision
        /\ \A u \in Tasks \ {SomeDecision} : task'[u] = task[u] \/ task'[u] = Idle
    <3> DEFINE m == [task EXCEPT ![t] = Idle]
    <3>1. m \in [Tasks -> Records] /\ \A u \in Tasks : m[u] = task[u] \/ m[u] = Idle
      BY <1>1, <1>2
    <3>2. task' = [m EXCEPT ![SomeDecision] = CrashDecision]
      BY <1>5
    <3> HIDE DEF m
    <3> QED
      BY <2>3, <3>1, <3>2, RecordsTyped
  <2>5. TypeOK'
    BY <1>1, <1>5, <2>2, <2>4, TypePartsNext
  <2>6. RunInv'
    <3>1. SpawnFailed'
      BY <2>3, <2>4, RecordsTyped DEF SpawnFailed
    <3> QED
      BY <2>2, <3>1 DEF RunInv, RunStateTracksChild
  <2>7. QuitInv'
    BY <1>2, <2>1, <2>2, <2>3, <2>4, Kinds DEF HostInv, QuitInv
  <2>8. UntrackedOnlyByLateExit'
    BY <1>5, <2>1, <2>2 DEF HostInv, UntrackedOnlyByLateExit, Live, Orphan, Lost
  <2> QED
    BY <2>5, <2>6, <2>7, <2>8 DEF HostInv
<1> QED
  BY <1>3, <1>4, <1>5 DEF Spawn

\* A stop spoils every ticket and waits for the child, if there is one
\* (stopWorkerChild, noteStop).
LEMMA StopKeeps ==
  ASSUME HostInv, DbTyped', NEW t \in Tasks, NEW r \in Records, NEW h \in Hosts,
         Stop(t, r, h), h.child = host.child,
         h.life = IF t = "quit" THEN "leaving" ELSE host.life,
         t = "quit" => host.life # "down",
         r.fresh => h.life = "up"
  PROVE  HostInv'
<1>1. /\ TypeOK /\ task \in [Tasks -> Records] /\ proc \in [Procs -> Processes]
      /\ host \in Hosts
  BY TypeParts DEF HostInv
<1>2. \A u \in Tasks : /\ Spoiled(u, t) \in Records /\ ~ Spoiled(u, t).fresh
                       /\ Spoiled(u, t).pc = task[u].pc /\ Spoiled(u, t).victim = task[u].victim
  <2> SUFFICES ASSUME NEW u \in Tasks
               PROVE  /\ Spoiled(u, t) \in Records /\ ~ Spoiled(u, t).fresh
                      /\ Spoiled(u, t).pc = task[u].pc
                      /\ Spoiled(u, t).victim = task[u].victim
    OBVIOUS
  <2> DEFINE m == [task[u] EXCEPT !.fresh = FALSE]
             kept == task[u].latest /\ t \notin Requests
  <2>1. /\ m \in Records /\ ~ m.fresh /\ m.pc = task[u].pc /\ m.victim = task[u].victim
        /\ m.latest = task[u].latest
    BY <1>1 DEF Records
  <2>2. Spoiled(u, t) = [m EXCEPT !.latest = kept]
    BY DEF Spoiled
  <2>3. kept \in BOOLEAN
    OBVIOUS
  <2> HIDE DEF m, kept
  <2> QED
    BY <2>1, <2>2, <2>3 DEF Records
<1>3. CASE /\ host.child = None
           /\ host' = [h EXCEPT !.armed = FALSE, !.runState = StoppedState({t})]
           /\ task' = [u \in Tasks |-> IF u = t THEN Resumed(t, r) ELSE Spoiled(u, t)]
           /\ UNCHANGED proc
  <2>1. /\ host' \in Hosts /\ host'.child = None /\ host'.life = h.life
        /\ host'.runState \in {"off", "failed"}
    <3> DEFINE m == [h EXCEPT !.armed = FALSE]
    <3>1. m \in Hosts /\ m.child = None /\ m.life = h.life
      BY <1>3 DEF Hosts
    <3>2. StoppedState({t}) \in {"off", "failed"}
      BY DEF StoppedState
    <3>3. host' = [m EXCEPT !.runState = StoppedState({t})]
      BY <1>3
    <3> HIDE DEF m
    <3> QED
      BY <3>1, <3>2, <3>3 DEF Hosts, RunStates
  <2>2. /\ task' \in [Tasks -> Records]
        /\ \A u \in Tasks : task'[u] = IF u = t THEN Resumed(t, r) ELSE Spoiled(u, t)
    BY <1>2, <1>3, ResumedTyped
  <2>3. TypeOK'
    BY <1>1, <1>3, <2>1, <2>2, TypePartsNext
  <2>4. RunInv'
    BY <1>2, <2>1, <2>2, ResumedTyped DEF RunInv, RunStateTracksChild
  <2>5. QuitInv'
    BY <1>2, <1>3, <2>1, <2>2, ResumedTyped, Kinds DEF HostInv, QuitInv, Orphan
  <2>6. UntrackedOnlyByLateExit'
    BY <1>3, <2>1 DEF HostInv, UntrackedOnlyByLateExit, Live, Orphan, Lost
  <2> QED
    BY <2>3, <2>4, <2>5, <2>6 DEF HostInv
<1>4. CASE /\ host.child # None
           /\ host' = [h EXCEPT !.armed = FALSE, !.runState = "stopping"]
           /\ task' = [u \in Tasks |->
                IF u = t THEN [r EXCEPT !.pc = "stopping", !.victim = host.child]
                ELSE Spoiled(u, t)]
           /\ \/ /\ proc[host.child].phase \in {"boot", "claim", "work", "hung"}
                 /\ proc' = [proc EXCEPT ![host.child] =
                               [NoProc EXCEPT !.phase = "exiting", !.code = "clean"]]
              \/ /\ proc[host.child].phase \in {"hung", "exiting", "exited"}
                 /\ UNCHANGED proc
  <2> DEFINE c == host.child
             w == [r EXCEPT !.pc = "stopping", !.victim = c]
  <2>1. c \in Procs /\ c # None
    BY <1>1, <1>4 DEF Hosts
  <2>2. /\ host' \in Hosts /\ host'.child = c /\ host'.life = h.life
        /\ host'.runState = "stopping"
    <3> DEFINE m == [h EXCEPT !.armed = FALSE]
    <3>1. m \in Hosts /\ m.child = c /\ m.life = h.life
      BY DEF Hosts
    <3>2. host' = [m EXCEPT !.runState = "stopping"]
      BY <1>4
    <3> HIDE DEF m
    <3> QED
      BY <3>1, <3>2 DEF Hosts, RunStates
  <2>3. w \in Records /\ w.pc = "stopping" /\ w.victim = c /\ w.fresh = r.fresh
    <3> DEFINE m == [r EXCEPT !.pc = "stopping"]
    <3>1. m \in Records /\ m.pc = "stopping" /\ m.fresh = r.fresh
      BY DEF Records, Pcs
    <3>2. w = [m EXCEPT !.victim = c]
      OBVIOUS
    <3> HIDE DEF m, w, c
    <3> QED
      BY <2>1, <3>1, <3>2 DEF Records
  <2> HIDE DEF w
  <2>4. /\ task' \in [Tasks -> Records]
        /\ \A u \in Tasks : task'[u] = IF u = t THEN w ELSE Spoiled(u, t)
    BY <1>2, <1>4, <2>3 DEF w
  <2>5. /\ proc' \in [Procs -> Processes] /\ proc'[c].phase \in {"hung", "exiting", "exited"}
        /\ \A q \in Procs \ {c} : proc'[q] = proc[q]
        /\ \/ proc'[c] = proc[c]
           \/ proc[c].phase \in LivePhases /\ proc'[c].phase = "exiting" /\ ~ proc'[c].orphan
    <3> DEFINE e == [NoProc EXCEPT !.phase = "exiting"]
               dying == [e EXCEPT !.code = "clean"]
    <3>1. e \in Processes /\ e.phase = "exiting" /\ ~ e.orphan
      BY DEF NoProc, Processes, Phases, Codes
    <3>2. [NoProc EXCEPT !.phase = "exiting", !.code = "clean"] = dying
      OBVIOUS
    <3> HIDE DEF e
    <3>3. dying \in Processes /\ dying.phase = "exiting" /\ ~ dying.orphan
      BY <3>1 DEF Processes, Codes
    <3> HIDE DEF dying
    <3>4. CASE /\ proc[c].phase \in {"boot", "claim", "work", "hung"}
               /\ proc' = [proc EXCEPT ![c] = dying]
      BY <1>1, <2>1, <3>3, <3>4 DEF LivePhases
    <3>5. CASE proc[c].phase \in {"hung", "exiting", "exited"} /\ UNCHANGED proc
      BY <1>1, <2>1, <3>5
    <3> QED
      BY <1>4, <3>2, <3>4, <3>5
  <2> HIDE DEF c
  <2>6. TypeOK'
    BY <2>2, <2>4, <2>5, TypePartsNext
  <2>7. RunInv'
    BY <1>2, <2>1, <2>2, <2>3, <2>4, <2>5 DEF RunInv, RunStateTracksChild
  <2>8. QuitInv'
    BY <1>2, <2>1, <2>2, <2>3, <2>4, Kinds DEF HostInv, QuitInv, c
  <2>9. UntrackedOnlyByLateExit'
    BY <2>2, <2>5 DEF HostInv, UntrackedOnlyByLateExit, Live, Orphan, Lost, c
  <2> QED
    BY <2>6, <2>7, <2>8, <2>9 DEF HostInv
<1> QED
  BY <1>3, <1>4 DEF Stop

\* The end of one child marks another the host has by then, and nothing else.
LEMMA LosesOne ==
  ASSUME host \in Hosts, proc \in [Procs -> Processes], NEW p, NEW r \in Processes,
         proc' = Loses([proc EXCEPT ![p] = r], p)
  PROVE  /\ proc' \in [Procs -> Processes]
         /\ p \in Procs => proc'[p] = r
         /\ \A q \in Procs \ {p} : /\ proc'[q].orphan = proc[q].orphan
                                   /\ proc'[q].phase = proc[q].phase
                                   /\ (proc[q].lost \/ q = host.child) => proc'[q].lost
<1> DEFINE m(q) == [proc[q] EXCEPT !.lost = TRUE]
<1>1. \A q \in Procs : /\ m(q) \in Processes /\ m(q).lost
                       /\ m(q).orphan = proc[q].orphan /\ m(q).phase = proc[q].phase
  BY DEF Processes
<1>2. proc' = [q \in Procs |-> IF q = host.child /\ q # p THEN [[proc EXCEPT ![p] = r][q] EXCEPT !.lost = TRUE]
                              ELSE [proc EXCEPT ![p] = r][q]]
  BY DEF Loses
<1>3. \A q \in Procs : proc'[q] = IF q = p THEN r ELSE IF q = host.child THEN m(q) ELSE proc[q]
  BY <1>2
<1> HIDE DEF m
<1>4. \A q \in Procs : proc'[q] \in Processes
  BY <1>1, <1>3
<1>5. proc' \in [Procs -> Processes]
  BY <1>2, <1>4
<1> QED
  BY <1>1, <1>3, <1>5

\* A stop that runs out of patience kills its child and returns without the exit
\* event (stopWorkerChild).
LEMMA StopTimeoutKeeps ==
  ASSUME HostInv, DbTyped', NEW t \in Tasks, StopTimeout(t)
  PROVE  HostInv'
<1> DEFINE v == task[t].victim
<1>1. /\ TypeOK /\ task \in [Tasks -> Records] /\ proc \in [Procs -> Processes]
      /\ host \in Hosts
  BY TypeParts DEF HostInv
<1>2. Dead \in Processes /\ Dead.phase = "exited" /\ ~ Dead.orphan
  <2> DEFINE e == [NoProc EXCEPT !.phase = "exited"]
  <2>1. e \in Processes /\ e.phase = "exited" /\ ~ e.orphan
    BY DEF NoProc, Processes, Phases, Codes
  <2>2. Dead = [e EXCEPT !.code = "killed"]
    BY DEF Dead
  <2> HIDE DEF e
  <2> QED
    BY <2>1, <2>2 DEF Processes, Codes
<1>3. /\ task[t].pc = "stopping" /\ (proc[v].phase = "hung" \/ proc[v] = Dead)
      /\ proc' = Loses([proc EXCEPT ![v] = Dead], v)
      /\ host' = [host EXCEPT !.child = None, !.runState = StoppedState({t})]
      /\ task' = [task EXCEPT ![t] = Resumed(t, task[t])]
  BY DEF StopTimeout, Killed
<1>4. /\ host' \in Hosts /\ host'.child = None /\ host'.life = host.life
      /\ host'.runState \in {"off", "failed"}
  <2> DEFINE m == [host EXCEPT !.child = None]
  <2>1. m \in Hosts /\ m.child = None /\ m.life = host.life
    BY <1>1 DEF Hosts
  <2>2. StoppedState({t}) \in {"off", "failed"}
    BY DEF StoppedState
  <2>3. host' = [m EXCEPT !.runState = StoppedState({t})]
    BY <1>3
  <2> HIDE DEF m
  <2> QED
    BY <2>1, <2>2, <2>3 DEF Hosts, RunStates
<1>5. /\ Resumed(t, task[t]) \in Records
      /\ task' \in [Tasks -> Records]
      /\ \A u \in Tasks : task'[u] = IF u = t THEN Resumed(t, task[t]) ELSE task[u]
  BY <1>1, <1>3, ResumedTyped
<1>6. /\ proc' \in [Procs -> Processes]
      /\ v \in Procs => proc'[v] = Dead
      /\ \A q \in Procs \ {v} : /\ proc'[q].orphan = proc[q].orphan
                                /\ proc'[q].phase = proc[q].phase
                                /\ (proc[q].lost \/ q = host.child) => proc'[q].lost
  BY <1>1, <1>2, <1>3, LosesOne
<1>7. TypeOK'
  BY <1>4, <1>5, <1>6, TypePartsNext
<1>8. RunInv'
  BY <1>1, <1>4, <1>5, ResumedTyped DEF HostInv, RunInv, RunStateTracksChild
<1>9. QuitInv'
  BY <1>1, <1>3, <1>4, <1>5, ResumedTyped, Kinds DEF HostInv, QuitInv
<1> HIDE DEF v
<1>10. UntrackedOnlyByLateExit'
  BY <1>2, <1>4, <1>6, Kinds DEF HostInv, UntrackedOnlyByLateExit, Live, Orphan, Lost
<1> QED
  BY <1>7, <1>8, <1>9, <1>10 DEF HostInv

\* The exit event lets go of the child and resumes every stop that waits for it
\* (the exit handler of startWorkerChild).
LEMMA ExitEventKeeps ==
  ASSUME HostInv, DbTyped', NEW p \in Procs, ExitEvent(p)
  PROVE  HostInv'
<1> DEFINE code == proc[p].code
           outage == code = "outage" /\ ~ Asked
           state == IF outage /\ host.offNotRecorded THEN "off" ELSE ExitState(code)
           left == IF Waiting(p) = {} THEN state ELSE StoppedState(Waiting(p))
           rearm == IF outage THEN ~ host.offNotRecorded ELSE host.armed
           asking == [Ticketed("read") EXCEPT !.why = Why(code)]
<1>1. /\ TypeOK /\ task \in [Tasks -> Records] /\ proc \in [Procs -> Processes]
      /\ host \in Hosts
  BY TypeParts DEF HostInv
<1>2. /\ proc[p].phase = "exited" /\ ~ Orphan(p)
      /\ proc' = Loses([proc EXCEPT ![p] = NoProc], p)
      /\ host' = [host EXCEPT !.child = None, !.armed = rearm, !.runState = left]
      /\ \/ /\ Why(code) = "none"
            /\ task' = [t \in Tasks |-> IF t \in Waiting(p) THEN Resumed(t, task[t]) ELSE task[t]]
         \/ /\ Why(code) # "none" /\ FreeDecisions # {}
            /\ task' = [t \in Tasks |->
                 IF t \in Waiting(p) THEN Resumed(t, task[t])
                 ELSE IF t = SomeDecision THEN asking ELSE task[t]]
  BY DEF ExitEvent
<1>3. left \in {"off", "failed", "crashed"}
  BY DEF StoppedState, ExitState
<1>4. rearm \in BOOLEAN
  BY <1>1 DEF Hosts
<1> HIDE DEF left, rearm
<1>5. /\ host' \in Hosts /\ host'.child = None /\ host'.life = host.life
      /\ host'.runState = left
  <2> DEFINE m == [host EXCEPT !.child = None]
             n == [m EXCEPT !.armed = rearm]
  <2>1. m \in Hosts /\ m.child = None /\ m.life = host.life
    BY <1>1 DEF Hosts
  <2> HIDE DEF m
  <2>2. n \in Hosts /\ n.child = None /\ n.life = host.life
    BY <1>4, <2>1 DEF Hosts
  <2>3. host' = [n EXCEPT !.runState = left]
    BY <1>2 DEF m
  <2> HIDE DEF n
  <2> QED
    BY <1>3, <2>2, <2>3 DEF Hosts, RunStates
<1>6. /\ asking \in Records /\ asking.pc = "read"
      /\ Why(code) # "none" => host.life = "up"
  <2> DEFINE k == Ticketed("read")
  <2>1. k \in Records /\ k.pc = "read"
    BY RecordsTyped DEF Pcs
  <2>2. Why(code) \in {"none", "refusal", "crash"}
    BY DEF Why
  <2> HIDE DEF k
  <2>3. [k EXCEPT !.why = Why(code)] \in Records /\ [k EXCEPT !.why = Why(code)].pc = "read"
    BY <2>1, <2>2 DEF Records, Whys
  <2>4. Why(code) # "none" => host.life = "up"
    <3>1. host.life # "down"
      BY <1>2 DEF HostInv, QuitInv
    <3>2. Asked => Why(code) = "none"
      BY DEF Why
    <3> QED
      BY <1>1, <3>1, <3>2 DEF Asked, Hosts
  <2> QED
    BY <2>3, <2>4 DEF k
<1> HIDE DEF asking
<1>7. /\ task' \in [Tasks -> Records]
      /\ \A t \in Waiting(p) : task'[t] = Resumed(t, task[t])
      /\ \A t \in Tasks \ Waiting(p) :
           \/ task'[t] = task[t]
           \/ t \in Decisions /\ Why(code) # "none" /\ task'[t] = asking
  <2>1. \A t \in Tasks : Resumed(t, task[t]) \in Records
    BY <1>1, ResumedTyped
  <2>2. Waiting(p) \subseteq Tasks
    BY DEF Waiting
  <2> QED
    BY <1>1, <1>2, <1>6, <2>1, <2>2, FreeOne
<1>8. NoProc \in Processes /\ NoProc.phase = "none"
  BY DEF NoProc, Processes, Phases, Codes
<1>9. /\ proc' \in [Procs -> Processes] /\ proc'[p] = NoProc
      /\ \A q \in Procs \ {p} : /\ proc'[q].orphan = proc[q].orphan
                                /\ proc'[q].phase = proc[q].phase
                                /\ (proc[q].lost \/ q = host.child) => proc'[q].lost
  BY <1>1, <1>2, <1>8, LosesOne
<1>10. TypeOK'
  BY <1>5, <1>7, <1>9, TypePartsNext
<1>11. \A t \in Waiting(p) : t \in Tasks /\ task[t].pc = "stopping" /\ task[t].victim = p
  BY DEF Waiting
<1>14. RunInv'
  <2>1. RunStateTracksChild'
    BY <1>3, <1>5 DEF RunStateTracksChild
  <2>2. host'.life # "up" => \A t \in Tasks : ~ task'[t].fresh
    BY <1>1, <1>5, <1>6, <1>7, <1>11, ResumedTyped DEF HostInv, RunInv, Hosts
  <2> QED
    BY <1>5, <2>1, <2>2 DEF RunInv
<1>15. QuitInv'
  <2>1. host'.life # "down"
    BY <1>2, <1>5 DEF HostInv, QuitInv
  <2>2. task'["quit"].pc \in {"stopping", "quit_release", "quit_go"} => host'.life = "leaving"
    <3>1. CASE "quit" \in Waiting(p)
      BY <1>5, <1>11, <3>1 DEF HostInv, QuitInv
    <3>2. CASE "quit" \notin Waiting(p)
      BY <1>5, <1>7, <3>2, Kinds DEF HostInv, QuitInv
    <3> QED
      BY <3>1, <3>2
  <2> QED
    BY <1>5, <2>1, <2>2 DEF QuitInv
<1>16. UntrackedOnlyByLateExit'
  BY <1>5, <1>8, <1>9, Kinds DEF HostInv, UntrackedOnlyByLateExit, Live, Orphan, Lost
<1> QED
  BY <1>10, <1>14, <1>15, <1>16 DEF HostInv

\* A child that never came to life leaves a crash decision behind
\* (onSpawnFailure).
LEMMA SpawnFailsKeeps ==
  ASSUME HostInv, DbTyped', NEW p \in Procs, SpawnFails(p)
  PROVE  HostInv'
<1>1. /\ TypeOK /\ task \in [Tasks -> Records] /\ proc \in [Procs -> Processes]
      /\ host \in Hosts
  BY TypeParts DEF HostInv
<1>2. /\ host.child = p /\ proc[p].phase = "boot" /\ FreeDecisions # {}
      /\ host' = [host EXCEPT !.child = None]
      /\ proc' = [proc EXCEPT ![p] = NoProc]
      /\ task' = [task EXCEPT ![SomeDecision] = CrashDecision]
  BY DEF SpawnFails
<1>3. host.child # None /\ host.life = "up" /\ host.runState = "running"
  BY <1>2, Kinds DEF HostInv, RunInv, RunStateTracksChild
<1>4. host' \in Hosts /\ host'.child = None /\ host'.life = "up" /\ host'.runState = "running"
  BY <1>1, <1>2, <1>3 DEF Hosts
<1>5. SomeDecision \in Decisions /\ SomeDecision \in Tasks
  BY <1>2, FreeOne
<1>6. /\ task' \in [Tasks -> Records] /\ task'[SomeDecision] = CrashDecision
      /\ \A t \in Tasks \ {SomeDecision} : task'[t] = task[t]
  BY <1>1, <1>2, <1>5, RecordsTyped
<1>7. NoProc \in Processes /\ NoProc.phase = "none"
  BY DEF NoProc, Processes, Phases, Codes
<1>8. proc' \in [Procs -> Processes] /\ \A q \in Procs : proc'[q] = IF q = p THEN NoProc ELSE proc[q]
  BY <1>1, <1>2, <1>7
<1>9. TypeOK'
  BY <1>4, <1>6, <1>8, TypePartsNext
<1>10. RunInv'
  <2>1. SpawnFailed'
    BY <1>5, <1>6, RecordsTyped DEF SpawnFailed
  <2> QED
    BY <1>4, <2>1 DEF RunInv, RunStateTracksChild
<1>11. QuitInv'
  BY <1>3, <1>4, <1>5, <1>6, Kinds DEF HostInv, QuitInv
<1>12. UntrackedOnlyByLateExit'
  BY <1>2, <1>4, <1>7, <1>8 DEF HostInv, UntrackedOnlyByLateExit, Live, Orphan, Lost
<1> QED
  BY <1>9, <1>10, <1>11, <1>12 DEF HostInv

\* What a host starts with, and what one that is gone leaves.
LEMMA NewHostTyped ==
  /\ \A life \in {"up", "down"} :
       /\ NewHost(life) \in Hosts /\ NewHost(life).life = life
       /\ NewHost(life).child = None /\ NewHost(life).runState = "off"
  /\ \A r \in Records : /\ NewTasks(r) \in [Tasks -> Records]
                        /\ \A t \in Tasks : NewTasks(r)[t] = IF t = "poll" THEN r ELSE Idle
BY RecordsTyped DEF NewHost, NewTasks, Hosts, RunStates

\* The end of the host, in order or not, turns what is left of its worker into
\* an orphan (shutdown, a kill).
LEMMA HostGoneKeeps ==
  ASSUME HostInv, DbTyped', HostGone
  PROVE  HostInv'
<1>1. proc \in [Procs -> Processes]
  BY TypeParts DEF HostInv
<1>2. Idle \in Records /\ ~ Idle.fresh /\ Idle.pc = "idle"
  BY RecordsTyped DEF Idle
<1>3. /\ host' \in Hosts /\ host'.life = "down" /\ host'.child = None /\ host'.runState = "off"
  BY NewHostTyped DEF HostGone
<1>4. task' \in [Tasks -> Records] /\ \A t \in Tasks : task'[t] = Idle
  BY <1>2, NewHostTyped DEF HostGone
<1>5. /\ proc' \in [Procs -> Processes]
      /\ \A p \in Procs : proc'[p].phase = "none" \/ proc'[p].orphan
  <2>1. NoProc \in Processes /\ NoProc.phase = "none"
    BY DEF NoProc, Processes, Phases, Codes
  <2>2. \A p \in Procs : /\ [proc[p] EXCEPT !.orphan = TRUE] \in Processes
                         /\ [proc[p] EXCEPT !.orphan = TRUE].orphan
    BY <1>1 DEF Processes
  <2>3. proc' = [p \in Procs |-> IF Live(p) THEN [proc[p] EXCEPT !.orphan = TRUE] ELSE NoProc]
    BY DEF HostGone
  <2> QED
    BY <2>1, <2>2, <2>3
<1>6. TypeOK'
  BY <1>3, <1>4, <1>5, TypePartsNext
<1>7. RunInv'
  BY <1>2, <1>3, <1>4 DEF RunInv, RunStateTracksChild
<1>8. QuitInv'
  BY <1>2, <1>3, <1>4, <1>5, Kinds DEF QuitInv, Orphan
<1>9. UntrackedOnlyByLateExit'
  BY <1>5 DEF UntrackedOnlyByLateExit, Live, Orphan
<1> QED
  BY <1>6, <1>7, <1>8, <1>9 DEF HostInv

\* The next host starts beside those orphans only (main).
LEMMA RelaunchKeeps ==
  ASSUME HostInv, DbTyped', Relaunch
  PROVE  HostInv'
<1>1. proc \in [Procs -> Processes] /\ proc' = proc
  BY TypeParts DEF HostInv, Relaunch
<1>2. \A p \in Procs : proc[p].phase = "none" \/ proc[p].orphan
  BY DEF Relaunch, HostInv, QuitInv, Orphan
<1>3. host' \in Hosts /\ host'.life = "up" /\ host'.child = None /\ host'.runState = "off"
  BY NewHostTyped DEF Relaunch
<1>4. task' \in [Tasks -> Records] /\ \A t \in Tasks : task'[t].pc \in {"idle", "boot_read"}
  <2>1. Ticketed("boot_read") \in Records /\ Ticketed("boot_read").pc = "boot_read"
    BY RecordsTyped DEF Pcs
  <2> QED
    BY <2>1, NewHostTyped DEF Relaunch, Idle
<1>5. TypeOK'
  BY <1>1, <1>3, <1>4, TypePartsNext
<1>6. RunInv'
  BY <1>3 DEF RunInv, RunStateTracksChild
<1>7. QuitInv'
  BY <1>3, <1>4, Kinds DEF QuitInv
<1>8. UntrackedOnlyByLateExit'
  BY <1>1, <1>2 DEF UntrackedOnlyByLateExit, Live, Orphan
<1> QED
  BY <1>5, <1>6, <1>7, <1>8 DEF HostInv

-----------------------------------------------------------------------------
\* The steps that move one task.

\* A task record that moves on, with or without an answer, keeps the rest.
MovedTo(a, pc) == [a EXCEPT !.pc = pc]
AnsweredAt(a, pc, got) == [a EXCEPT !.pc = pc, !.got = got]

LEMMA MovedTyped ==
  ASSUME NEW a \in Records, NEW pc \in Pcs, NEW got \in Gots
  PROVE  /\ MovedTo(a, pc) \in Records /\ MovedTo(a, pc).pc = pc
         /\ MovedTo(a, pc).fresh = a.fresh /\ MovedTo(a, pc).why = a.why
         /\ AnsweredAt(a, pc, got) \in Records /\ AnsweredAt(a, pc, got).pc = pc
         /\ AnsweredAt(a, pc, got).fresh = a.fresh /\ AnsweredAt(a, pc, got).why = a.why
<1> DEFINE m == MovedTo(a, pc)
<1>1. m \in Records /\ m.pc = pc /\ m.fresh = a.fresh /\ m.why = a.why
  BY DEF MovedTo, Records
<1>2. AnsweredAt(a, pc, got) = [m EXCEPT !.got = got]
  BY DEF AnsweredAt, MovedTo
<1> HIDE DEF m
<1>3. /\ [m EXCEPT !.got = got] \in Records /\ [m EXCEPT !.got = got].pc = m.pc
      /\ [m EXCEPT !.got = got].fresh = m.fresh /\ [m EXCEPT !.got = got].why = m.why
  BY <1>1 DEF Records
<1> QED
  BY <1>1, <1>2, <1>3 DEF m

\* A task that goes to another place, with or without an answer.
LEMMA MoveKeeps ==
  ASSUME HostInv, DbTyped', NEW t \in Tasks, NEW pc \in Pcs, NEW got \in Gots,
         pc # "stopping",
         pc \in {"quit_release", "quit_go"} => task[t].pc \in {"quit_release", "quit_go"},
         t \in Decisions => pc \in {"read", "go"} \/ ~ Asks(task[t]),
         UNCHANGED <<host, proc>>,
         \/ task' = [task EXCEPT ![t].pc = pc]
         \/ task' = [task EXCEPT ![t].pc = pc, ![t].got = got]
  PROVE  HostInv'
<1>1. task \in [Tasks -> Records] /\ host \in Hosts
  BY TypeParts DEF HostInv
<1>2. PICK a \in Records : a = task[t]
  BY <1>1
<1> DEFINE x == MovedTo(a, pc)
           y == AnsweredAt(a, pc, got)
<1>3. task' = [task EXCEPT ![t] = x] \/ task' = [task EXCEPT ![t] = y]
  BY <1>2 DEF MovedTo, AnsweredAt
<1>4. /\ x \in Records /\ x.pc = pc /\ x.fresh = a.fresh /\ x.why = a.why
      /\ y \in Records /\ y.pc = pc /\ y.fresh = a.fresh /\ y.why = a.why
  BY MovedTyped
<1> HIDE DEF x, y
<1>5. PICK r \in {x, y} : task' = [task EXCEPT ![t] = r]
  BY <1>3
<1>6. r \in Records /\ Follows(task[t], r)
  BY <1>2, <1>4, <1>5 DEF Follows
<1>7. t \notin Decisions \/ ~ Asks(task[t]) \/ Asks(r)
  BY <1>2, <1>4, <1>5 DEF Asks
<1> QED
  BY <1>1, <1>5, <1>6, <1>7, OneTaskKeeps

\* A task that takes on a new record, no stop and no end of the shutdown.
LEMMA SetKeeps ==
  ASSUME HostInv, DbTyped', NEW t \in Tasks, NEW r \in Records,
         r.pc \notin {"stopping", "quit_release", "quit_go"},
         r.fresh => host.life = "up",
         t \in Decisions => ~ Asks(task[t]),
         host' \in Hosts, host'.life = host.life, host'.child = host.child,
         host'.runState = host.runState,
         UNCHANGED proc,
         task' = [task EXCEPT ![t] = r]
  PROVE  HostInv'
<1>1. Follows(task[t], r)
  BY DEF Follows
<1> QED
  BY <1>1, OneTaskKeeps

\* A task that is done.
LEMMA ReturnKeeps ==
  ASSUME HostInv, DbTyped', NEW t \in Tasks, Return(t),
         t \in Decisions => ~ Asks(task[t]),
         host' \in Hosts, host'.life = host.life, host'.child = host.child,
         host'.runState = host.runState,
         UNCHANGED proc
  PROVE  HostInv'
<1>1. Idle \in Records /\ ~ Idle.fresh /\ Idle.pc = "idle"
  BY RecordsTyped DEF Idle
<1>2. task' = [task EXCEPT ![t] = Idle]
  BY DEF Return
<1> QED
  BY <1>1, <1>2, SetKeeps

\* The answers of the database.
LEMMA AnswersTyped ==
  ASSUME TypeOK
  PROVE  SwitchAnswer \in Gots /\ ClaimAnswer \in Gots
BY DEF SwitchAnswer, ClaimAnswer, AnswerTo, Gots

\* The boot resume and the switch poll (resumeAtBoot, reconcileSwitchOnce).
LEMMA PollKeeps ==
  ASSUME HostInv, DbTyped', Poll
  PROVE  HostInv'
<1>1. /\ TypeOK /\ host \in Hosts /\ SwitchAnswer \in Gots /\ ClaimAnswer \in Gots
  BY TypeParts, AnswersTyped DEF HostInv
<1>2. "poll" \in Tasks /\ "poll" \notin Decisions /\ "poll" # "quit"
  BY Kinds
<1>3. /\ {"boot_go", "boot_claim", "boot_claimed", "claim", "claimed", "give_back",
          "decide", "probe"} \subseteq Pcs
      /\ "none" \in Gots /\ "rearmed" \in Gots
  BY DEF Pcs, Gots
<1>4. ASSUME BootRead PROVE HostInv'
  BY <1>1, <1>2, <1>3, <1>4, MoveKeeps DEF BootRead
<1>5. ASSUME BootGo PROVE HostInv'
  <2>1. UNCHANGED <<host, proc>>
    BY <1>5 DEF BootGo
  <2>2. CASE task' = [task EXCEPT !["poll"].pc = "boot_claim", !["poll"].got = "none"]
    BY <1>2, <1>3, <2>1, <2>2, MoveKeeps
  <2>3. CASE Return("poll")
    BY <1>1, <1>2, <2>1, <2>3, ReturnKeeps
  <2> QED
    BY <1>5, <2>2, <2>3 DEF BootGo
<1>6. ASSUME NEW from, NEW to \in {"boot_claimed", "claimed"}, PollClaim(from, to) PROVE HostInv'
  BY <1>1, <1>2, <1>3, <1>6, MoveKeeps DEF PollClaim
<1>7. ASSUME NEW from, PollClaimed(from) PROVE HostInv'
  <2>1. CASE /\ host' = [host EXCEPT !.blocked = @ \/ from = "claimed"]
             /\ Return("poll") /\ UNCHANGED <<proc, budget>>
    <3> DEFINE b == host.blocked \/ from = "claimed"
    <3>1. b \in BOOLEAN /\ host' = [host EXCEPT !.blocked = b]
      BY <2>1
    <3> HIDE DEF b
    <3>2. /\ host' \in Hosts /\ host'.life = host.life /\ host'.child = host.child
          /\ host'.runState = host.runState
      BY <1>1, <3>1 DEF Hosts
    <3> QED
      BY <1>2, <2>1, <3>2, ReturnKeeps
  <2>2. CASE task' = [task EXCEPT !["poll"] = At("give_back")] /\ UNCHANGED <<host, proc, budget>>
    BY <1>1, <1>2, <1>3, <2>2, RecordsTyped, SetKeeps
  <2>3. CASE Spawn("poll", [host EXCEPT !.blocked = IF from = "claimed" THEN FALSE ELSE @])
    <3> DEFINE b == IF from = "claimed" THEN FALSE ELSE host.blocked
               h == [host EXCEPT !.blocked = b]
    <3>1. b \in BOOLEAN
      BY <1>1 DEF Hosts
    <3>2. h \in Hosts /\ h.life = host.life /\ h.child = host.child /\ h.runState = host.runState
      BY <1>1, <3>1 DEF Hosts
    <3>3. Spawn("poll", h)
      BY <2>3
    <3> HIDE DEF h
    <3> QED
      BY <1>2, <3>2, <3>3, SpawnKeeps
  <2> QED
    BY <1>7, <2>1, <2>2, <2>3 DEF PollClaimed
<1>8. ASSUME PollRelease PROVE HostInv'
  BY <1>1, <1>2, <1>8, ReturnKeeps DEF PollRelease
<1>9. ASSUME PollRead PROVE HostInv'
  <2> DEFINE got == IF dbUp /\ switch /\ seen \in {"off", "rewritten"}
                    THEN "rearmed" ELSE SwitchAnswer
             r == [At("decide") EXCEPT !.got = got]
  <2>1. got \in Gots /\ task' = [task EXCEPT !["poll"] = r] /\ UNCHANGED <<host, proc>>
    BY <1>1, <1>3, <1>9 DEF PollRead
  <2> HIDE DEF got
  <2>2. r \in Records /\ r.pc = "decide" /\ ~ r.fresh
    BY <1>3, <2>1, RecordsTyped DEF Records
  <2> HIDE DEF r
  <2> QED
    BY <1>1, <1>2, <2>1, <2>2, SetKeeps
<1>10. ASSUME PollDecide PROVE HostInv'
  <2>1. CASE Return("poll") /\ UNCHANGED <<host, proc>>
    BY <1>1, <1>2, <2>1, ReturnKeeps
  <2>2. CASE PollStarts /\ task' = [task EXCEPT !["poll"] = Ticketed("probe")]
             /\ UNCHANGED <<host, proc>>
    BY <1>1, <1>2, <1>3, <2>2, RecordsTyped, SetKeeps DEF PollStarts, MayPlanStart, Spawns
  <2>3. CASE \E why \in {"unrecorded", "switch_off"} :
               Stop("poll", [Idle EXCEPT !.why = why], host)
    <3>1. PICK why \in {"unrecorded", "switch_off"} :
            Stop("poll", [Idle EXCEPT !.why = why], host)
      BY <2>3
    <3>2. [Idle EXCEPT !.why = why] \in Records /\ ~ [Idle EXCEPT !.why = why].fresh
      BY RecordsTyped DEF Idle, Records, Whys
    <3> QED
      BY <1>1, <1>2, <3>1, <3>2, StopKeeps
  <2> QED
    BY <1>10, <2>1, <2>2, <2>3 DEF PollDecide
<1>11. ASSUME Probe PROVE HostInv'
  <2>1. CASE host' = [host EXCEPT !.blocked = TRUE] /\ Return("poll")
    <3>1. /\ host' \in Hosts /\ host'.life = host.life /\ host'.child = host.child
          /\ host'.runState = host.runState /\ UNCHANGED proc
      BY <1>1, <1>11, <2>1 DEF Hosts, Probe
    <3> QED
      BY <1>2, <2>1, <3>1, ReturnKeeps
  <2>2. CASE Return("poll") /\ UNCHANGED host
    BY <1>1, <1>2, <1>11, <2>2, ReturnKeeps DEF Probe
  <2>3. CASE Goto("poll", "claim") /\ UNCHANGED host
    BY <1>2, <1>3, <1>11, <2>3, MoveKeeps DEF Probe, Goto
  <2> QED
    BY <1>11, <2>1, <2>2, <2>3 DEF Probe
<1> QED
  BY <1>4, <1>5, <1>6, <1>7, <1>8, <1>9, <1>10, <1>11 DEF Poll

\* The lease tick, the restart timer and the cooldown (leaseTick,
\* RestartLifecycle.schedule).
LEMMA TimersKeep ==
  ASSUME HostInv, DbTyped', Tick \/ Fire \/ Unblock
  PROVE  HostInv'
<1>1. TypeOK /\ host \in Hosts
  BY TypeParts DEF HostInv
<1>2. "tick" \in Tasks /\ "tick" \notin Decisions /\ "tick" # "quit"
  BY Kinds
<1>3. {"write_off", "lost", "read"} \subseteq Pcs
  BY DEF Pcs
<1>4. ASSUME TickRetriesOff PROVE HostInv'
  <2> DEFINE a == At("write_off")
             r == [a EXCEPT !.latest = TRUE]
  <2>1. a \in Records /\ a.pc = "write_off" /\ ~ a.fresh
    BY <1>3, RecordsTyped
  <2> HIDE DEF a
  <2>2. r \in Records /\ r.pc = "write_off" /\ ~ r.fresh
    BY <2>1 DEF Records
  <2>3. task' = [task EXCEPT !["tick"] = r] /\ UNCHANGED <<host, proc>>
    BY <1>4 DEF TickRetriesOff, a
  <2> HIDE DEF r
  <2> QED
    BY <1>1, <1>2, <2>2, <2>3, SetKeeps
<1>5. ASSUME TickFindsLost PROVE HostInv'
  BY <1>1, <1>2, <1>3, <1>5, RecordsTyped, SetKeeps DEF TickFindsLost
<1>6. ASSUME TickStops PROVE HostInv'
  <2>1. Idle \in Records /\ ~ Idle.fresh
    BY RecordsTyped DEF Idle
  <2> QED
    BY <1>1, <1>2, <1>6, <2>1, StopKeeps DEF TickStops
<1>7. ASSUME Fire PROVE HostInv'
  <2>1. /\ host' \in Hosts /\ host'.life = host.life /\ host'.child = host.child
        /\ host'.runState = host.runState /\ UNCHANGED proc
    BY <1>1, <1>7 DEF Fire, Hosts
  <2>2. CASE UNCHANGED task
    BY <2>1, <2>2, NothingMovesKeeps
  <2>3. CASE /\ Spawns /\ FreeDecisions # {}
             /\ task' = [task EXCEPT ![SomeDecision] = [Ticketed("read") EXCEPT !.why = "resume"]]
    <3> DEFINE a == Ticketed("read")
               r == [a EXCEPT !.why = "resume"]
    <3>1. a \in Records /\ a.pc = "read"
      BY <1>3, RecordsTyped
    <3> HIDE DEF a
    <3>2. r \in Records /\ r.pc = "read"
      BY <3>1 DEF Records, Whys
    <3>3. task' = [task EXCEPT ![SomeDecision] = r]
      BY <2>3 DEF a
    <3> HIDE DEF r
    <3>4. SomeDecision \in Tasks /\ ~ Asks(task[SomeDecision]) /\ host.life = "up"
      BY <2>3, FreeOne DEF Asks, Spawns
    <3> QED
      BY <2>1, <3>2, <3>3, <3>4, SetKeeps
  <2> QED
    BY <1>7, <2>2, <2>3 DEF Fire
<1>8. ASSUME Unblock PROVE HostInv'
  <2>1. /\ host' \in Hosts /\ host'.life = host.life /\ host'.child = host.child
        /\ host'.runState = host.runState /\ UNCHANGED <<task, proc>>
    BY <1>1, <1>8 DEF Unblock, Hosts
  <2> QED
    BY <2>1, NothingMovesKeeps
<1> QED
  BY <1>4, <1>5, <1>6, <1>7, <1>8 DEF Tick

\* The shutdown, a kill and the next launch (shutdown).
LEMMA QuitKeeps ==
  ASSUME HostInv, DbTyped', Quit
  PROVE  HostInv'
<1>1. TypeOK /\ host \in Hosts
  BY TypeParts DEF HostInv
<1>2. ASSUME QuitBegin PROVE HostInv'
  <2> DEFINE h == [host EXCEPT !.life = "leaving"]
  <2>1. h \in Hosts /\ h.child = host.child /\ h.life = "leaving"
    BY <1>1 DEF Hosts
  <2>2. Stop("quit", Idle, h) /\ host.life = "up"
    BY <1>2 DEF QuitBegin
  <2>3. Idle \in Records /\ ~ Idle.fresh
    BY RecordsTyped DEF Idle
  <2> HIDE DEF h
  <2> QED
    BY <2>1, <2>2, <2>3, Kinds, StopKeeps
<1>3. ASSUME QuitRelease PROVE HostInv'
  <2>1. "quit_go" \in Pcs /\ "none" \in Gots
    BY DEF Pcs, Gots
  <2>2. /\ task["quit"].pc = "quit_release" /\ UNCHANGED <<host, proc>>
        /\ task' = [task EXCEPT !["quit"].pc = "quit_go"]
    BY <1>3 DEF QuitRelease, Goto
  <2> QED
    BY <2>1, <2>2, Kinds, MoveKeeps
<1> QED
  BY <1>2, <1>3, HostGoneKeeps, RelaunchKeeps DEF Quit, QuitGo, HostKilled

\* POST /api/switch.
LEMMA RequestKeeps ==
  ASSUME HostInv, DbTyped', NEW r \in Requests, Request(r)
  PROVE  HostInv'
<1>1. /\ TypeOK /\ host \in Hosts
      /\ task \in [Tasks -> Records] /\ proc \in [Procs -> Processes]
  BY TypeParts DEF HostInv
<1>2. r \in Tasks /\ r \notin Decisions /\ r # "quit"
  BY Kinds
<1>3. {"claim", "write_on", "written_on"} \subseteq Pcs /\ "none" \in Gots
  BY DEF Pcs, Gots
<1>4. ASSUME OnBegin(r) PROVE HostInv'
  <2>1. /\ host' = [host EXCEPT !.pendingDurableOff = FALSE, !.offNotRecorded = FALSE]
        /\ task' = [u \in Tasks |-> IF u = r THEN At("claim") ELSE Superseded(u)]
        /\ UNCHANGED proc
    BY <1>4 DEF OnBegin
  <2>2. /\ host' \in Hosts /\ host'.life = host.life /\ host'.child = host.child
        /\ host'.runState = host.runState
    <3> DEFINE m == [host EXCEPT !.pendingDurableOff = FALSE]
    <3>1. m \in Hosts /\ m.life = host.life /\ m.child = host.child /\ m.runState = host.runState
      BY <1>1 DEF Hosts
    <3>2. host' = [m EXCEPT !.offNotRecorded = FALSE]
      BY <2>1
    <3> HIDE DEF m
    <3> QED
      BY <3>1, <3>2 DEF Hosts
  <2>3. At("claim") \in Records /\ At("claim").pc = "claim" /\ ~ At("claim").fresh
    BY <1>3, RecordsTyped
  <2>4. \A u \in Tasks : /\ Superseded(u) \in Records /\ Follows(task[u], Superseded(u))
                         /\ Asks(task[u]) => Asks(Superseded(u))
    BY <1>1 DEF Superseded, Records, Follows, Asks
  <2>5. /\ task' \in [Tasks -> Records]
        /\ \A u \in Tasks : task'[u] = IF u = r THEN At("claim") ELSE Superseded(u)
    BY <2>1, <2>3, <2>4
  <2>6. \A u \in Tasks : Follows(task[u], task'[u])
    BY <2>3, <2>4, <2>5 DEF Follows
  <2>7. Settles
    BY <1>2, <2>2, <2>4, <2>5, Kinds DEF Settles
  <2>8. \A p \in Procs : Advances(proc[p], proc'[p])
    BY <2>1 DEF Advances
  <2> QED
    BY <1>1, <2>1, <2>2, <2>5, <2>6, <2>7, <2>8, QuietKeeps
<1>5. ASSUME OnClaim(r) PROVE HostInv'
  <2>1. UNCHANGED <<host, proc>>
    BY <1>5 DEF OnClaim
  <2>2. CASE Goto(r, "write_on")
    BY <1>2, <1>3, <2>1, <2>2, MoveKeeps DEF Goto
  <2>3. CASE Return(r)
    BY <1>1, <1>2, <2>1, <2>3, ReturnKeeps
  <2> QED
    BY <1>5, <2>2, <2>3 DEF OnClaim
<1>6. ASSUME OnWrite(r) PROVE HostInv'
  <2>1. UNCHANGED <<host, proc>>
    BY <1>6 DEF OnWrite
  <2>2. CASE Goto(r, "written_on")
    BY <1>2, <1>3, <2>1, <2>2, MoveKeeps DEF Goto
  <2>3. CASE Return(r)
    BY <1>1, <1>2, <2>1, <2>3, ReturnKeeps
  <2> QED
    BY <1>6, <2>2, <2>3 DEF OnWrite
<1>7. ASSUME OnStart(r) PROVE HostInv'
  <2> DEFINE h == [host EXCEPT !.armed = FALSE]
  <2>1. h \in Hosts /\ h.life = host.life /\ h.child = host.child /\ h.runState = host.runState
    BY <1>1 DEF Hosts
  <2>2. Spawn(r, h)
    BY <1>7 DEF OnStart
  <2> HIDE DEF h
  <2> QED
    BY <1>2, <2>1, <2>2, SpawnKeeps
<1>8. ASSUME OffBegin(r) PROVE HostInv'
  <2> DEFINE h == [host EXCEPT !.offNotRecorded = TRUE]
  <2>1. h \in Hosts /\ h.child = host.child /\ h.life = host.life
    BY <1>1 DEF Hosts
  <2>2. Stop(r, Idle, h)
    BY <1>8 DEF OffBegin
  <2>3. Idle \in Records /\ ~ Idle.fresh
    BY RecordsTyped DEF Idle
  <2> HIDE DEF h
  <2> QED
    BY <1>2, <2>1, <2>2, <2>3, StopKeeps
<1> QED
  BY <1>4, <1>5, <1>6, <1>7, <1>8 DEF Request

\* A durable OFF, by a request or by the lease tick (writeDurableOff).
LEMMA DurableOffKeeps ==
  ASSUME HostInv, DbTyped', NEW t \in Tasks, DurableOff(t)
  PROVE  HostInv'
<1>1. TypeOK /\ host \in Hosts
  BY TypeParts DEF HostInv
<1>2. ASSUME WriteOff(t) PROVE HostInv'
  <2>1. "release_off" \in Pcs /\ "wrote" \in Gots /\ "failed" \in Gots
    BY DEF Pcs, Gots
  <2>2. PICK got \in {"wrote", "failed"} :
          task' = [task EXCEPT ![t].pc = "release_off", ![t].got = got]
    BY <1>2 DEF WriteOff
  <2>3. ~ Asks(task[t]) /\ UNCHANGED <<host, proc>>
    BY <1>2 DEF WriteOff, Asks
  <2> QED
    BY <2>1, <2>2, <2>3, MoveKeeps
<1>3. ASSUME ReleaseOff(t) PROVE HostInv'
  <2>1. PICK released \in BOOLEAN :
          LET done == task[t].got = "wrote" /\ released
          IN host' = IF ~ task[t].latest THEN host
                     ELSE [host EXCEPT !.pendingDurableOff = ~ done,
                                       !.offNotRecorded = @ /\ ~ done]
    BY <1>3 DEF ReleaseOff
  <2> DEFINE done == task[t].got = "wrote" /\ released
             off == host.offNotRecorded /\ ~ done
             m == [host EXCEPT !.pendingDurableOff = ~ done]
             n == [m EXCEPT !.offNotRecorded = off]
  <2>2. host' = host \/ host' = n
    BY <2>1
  <2>3. (~ done) \in BOOLEAN /\ off \in BOOLEAN
    OBVIOUS
  <2> HIDE DEF done, off
  <2>4. m \in Hosts /\ m.life = host.life /\ m.child = host.child /\ m.runState = host.runState
    BY <1>1, <2>3 DEF Hosts
  <2> HIDE DEF m
  <2>5. n \in Hosts /\ n.life = m.life /\ n.child = m.child /\ n.runState = m.runState
    BY <2>3, <2>4 DEF Hosts
  <2> HIDE DEF n
  <2>6. ~ Asks(task[t]) /\ Return(t) /\ UNCHANGED proc
    BY <1>3 DEF ReleaseOff, Asks
  <2> QED
    BY <1>1, <2>2, <2>4, <2>5, <2>6, ReturnKeeps
<1> QED
  BY <1>2, <1>3 DEF DurableOff

\* Restart decisions and the watchdog of a hung worker (RestartLifecycle,
\* checkWorkerProgress).  A decision that stands down did so because there is a
\* child again.
LEMMA DecisionKeeps ==
  ASSUME HostInv, DbTyped', NEW d \in Decisions, Decision(d) \/ HungRestart(d)
  PROVE  HostInv'
<1>1. /\ TypeOK /\ host \in Hosts /\ SwitchAnswer \in Gots
  BY TypeParts, AnswersTyped DEF HostInv
<1>2. d \in Tasks /\ d # "quit"
  BY Kinds
<1>3. ASSUME DecisionRead(d) PROVE HostInv'
  <2>1. "go" \in Pcs
    BY DEF Pcs
  <2> QED
    BY <1>1, <1>2, <1>3, <2>1, MoveKeeps DEF DecisionRead
<1>4. ASSUME DecisionGo(d) PROVE HostInv'
  <2>1. CASE task[d].why = "resume" /\ Spawn(d, host)
    <3>1. ~ Asks(task[d])
      BY <2>1 DEF Asks
    <3> QED
      BY <1>1, <1>2, <2>1, <3>1, SpawnKeeps
  <2>2. ASSUME UNCHANGED proc, Return(d), NEW h \in Hosts, host' = h,
               h.life = host.life, h.child = host.child,
               \/ h.runState = host.runState /\ (host.child # None \/ ~ Asks(task[d]))
               \/ host.child = None /\ h.runState \in {"off", "crashed", "failed"}
        PROVE  HostInv'
    <3>1. Idle \in Records /\ Follows(task[d], Idle)
      BY RecordsTyped DEF Idle, Follows
    <3>2. task' = [task EXCEPT ![d] = Idle]
      BY <2>2 DEF Return
    <3> QED
      BY <1>2, <2>2, <3>1, <3>2, OneTaskKeeps
  <2>3. CASE /\ UNCHANGED <<proc, budget>> /\ Return(d)
             /\ StandsDown(d) /\ UNCHANGED host
    <3>1. host.child # None \/ ~ Asks(task[d])
      BY <1>2, <2>3 DEF StandsDown, Spawns, Asks, HostInv, RunInv
    <3> QED
      BY <1>1, <2>2, <2>3, <3>1
  <2>4. ~ StandsDown(d) => host.child = None
    BY DEF StandsDown, Spawns
  <2>5. CASE /\ UNCHANGED <<proc, budget>> /\ Return(d) /\ ~ StandsDown(d)
             /\ \/ host' = [host EXCEPT !.runState = "off"]
                \/ host' = [host EXCEPT !.runState = "failed"]
    <3>1. /\ host' \in Hosts /\ host'.life = host.life /\ host'.child = host.child
          /\ host'.runState \in {"off", "failed"}
      BY <1>1, <2>5 DEF Hosts, RunStates
    <3> QED
      BY <2>2, <2>4, <2>5, <3>1
  <2>6. CASE /\ UNCHANGED <<proc, budget>> /\ Return(d) /\ ~ StandsDown(d)
             /\ \/ host' = [host EXCEPT !.armed = TRUE, !.runState = "crashed"]
                \/ /\ task[d].why = "resume"
                   /\ host' = [host EXCEPT !.armed = TRUE, !.runState = @]
    <3> DEFINE m == [host EXCEPT !.armed = TRUE]
    <3>1. m \in Hosts /\ m.life = host.life /\ m.child = host.child /\ m.runState = host.runState
      BY <1>1 DEF Hosts
    <3>2. \/ host' = [m EXCEPT !.runState = "crashed"]
          \/ task[d].why = "resume" /\ host' = [m EXCEPT !.runState = m.runState]
      BY <1>1, <2>6, <3>1
    <3> HIDE DEF m
    <3>3. /\ host' \in Hosts /\ host'.life = host.life /\ host'.child = host.child
          /\ \/ host'.runState = "crashed"
             \/ task[d].why = "resume" /\ host'.runState = host.runState
      BY <3>1, <3>2 DEF Hosts, RunStates
    <3>4. task[d].why = "resume" => ~ Asks(task[d])
      BY DEF Asks
    <3> QED
      BY <2>2, <2>4, <2>6, <3>3, <3>4
  <2> QED
    BY <1>4, <2>1, <2>3, <2>5, <2>6 DEF DecisionGo, StaysOff, Waits, MayRestart
<1>5. ASSUME HungRestart(d) PROVE HostInv'
  <2> DEFINE a == Ticketed("stopping")
             r == [a EXCEPT !.why = "crash"]
  <2>1. a \in Records
    BY RecordsTyped DEF Pcs
  <2> HIDE DEF a
  <2>2. r \in Records
    BY <2>1 DEF Records, Whys
  <2>3. Stop(d, r, host) /\ host.life = "up"
    BY <1>5 DEF HungRestart, a
  <2> HIDE DEF r
  <2> QED
    BY <1>1, <1>2, <2>2, <2>3, StopKeeps
<1> QED
  BY <1>3, <1>4, <1>5 DEF Decision

\* The worker child and its end (run-worker.ts, loop.ts).
LEMMA ChildKeeps ==
  ASSUME HostInv, DbTyped', NEW p \in Procs, Child(p)
  PROVE  HostInv'
<1>1. TypeOK /\ host \in Hosts /\ proc \in [Procs -> Processes]
  BY TypeParts DEF HostInv
<1>2. NoProc \in Processes
  BY DEF NoProc, Processes, Phases, Codes
<1>3. PICK a \in Processes : a = proc[p]
  BY <1>1
<1>4. UNCHANGED <<host, task>>
  BY DEF Child, ChildReadsSwitch, ChildClaims, ChildSeesOff, ChildFails, ChildHangs,
         ChildExits, ChildLosesHost, OrphanReaped
<1>5. ASSUME NEW phase \in Phases, NEW code \in Codes, Become(p, phase, code),
             \/ /\ a.phase \in {"boot", "claim", "work"}
                /\ phase \in {"claim", "work", "hung", "exiting", "exited"}
             \/ a.phase = "exiting" /\ phase = "exited"
             \/ a.phase = "hung" /\ phase = "exiting"
      PROVE  HostInv'
  <2> DEFINE m == [a EXCEPT !.phase = phase]
             b == [m EXCEPT !.code = code]
  <2>1. m \in Processes /\ m.phase = phase /\ m.orphan = a.orphan /\ m.lost = a.lost
    BY DEF Processes
  <2>2. proc' = [proc EXCEPT ![p] = b]
    BY <1>1, <1>3, <1>5 DEF Become
  <2> HIDE DEF m
  <2>3. b \in Processes /\ b.phase = phase /\ b.orphan = a.orphan /\ b.lost = a.lost
    BY <2>1 DEF Processes
  <2> HIDE DEF b
  <2>4. Advances(proc[p], b)
    BY <1>3, <1>5, <2>3 DEF Advances, LivePhases
  <2> QED
    BY <1>4, <2>2, <2>3, <2>4, OneChildKeeps
<1>6. {"claim", "work", "hung", "exiting", "exited"} \subseteq Phases
      /\ {"none", "clean", "refused", "outage", "crash"} \subseteq Codes /\ a.code \in Codes
  BY DEF Phases, Codes, Processes
<1>7. ASSUME ChildReadsSwitch(p) PROVE HostInv'
  BY <1>3, <1>5, <1>6, <1>7 DEF ChildReadsSwitch
<1>8. ASSUME ChildClaims(p) PROVE HostInv'
  BY <1>3, <1>5, <1>6, <1>8 DEF ChildClaims
<1>9. ASSUME ChildSeesOff(p) PROVE HostInv'
  BY <1>3, <1>5, <1>6, <1>9 DEF ChildSeesOff
<1>10. ASSUME ChildFails(p) PROVE HostInv'
  BY <1>3, <1>5, <1>6, <1>10 DEF ChildFails
<1>11. ASSUME ChildHangs(p) PROVE HostInv'
  BY <1>3, <1>5, <1>6, <1>11 DEF ChildHangs
<1>12. ASSUME ChildExits(p) PROVE HostInv'
  BY <1>3, <1>5, <1>6, <1>12 DEF ChildExits
<1>13. ASSUME ChildLosesHost(p) PROVE HostInv'
  BY <1>3, <1>5, <1>6, <1>13 DEF ChildLosesHost
<1>14. ASSUME OrphanReaped(p) PROVE HostInv'
  <2>1. Advances(proc[p], NoProc) /\ proc' = [proc EXCEPT ![p] = NoProc]
    BY <1>14 DEF OrphanReaped, Orphan, Advances
  <2> QED
    BY <1>2, <1>4, <2>1, OneChildKeeps
<1> QED
  BY <1>7, <1>8, <1>9, <1>10, <1>11, <1>12, <1>13, <1>14 DEF Child

\* The database and the rest of the world.
LEMMA EnvironmentKeeps ==
  ASSUME HostInv, DbTyped',
         Environment \/ LateOff \/ \E id \in {"me", "old"} : LateRelease(id)
  PROVE  HostInv'
<1>1. UNCHANGED <<host, task, proc>>
  BY DEF Environment, LateOff, LateRelease
<1>2. host \in Hosts
  BY TypeParts DEF HostInv
<1> QED
  BY <1>1, <1>2, NothingMovesKeeps

\* Every step keeps the invariant.
LEMMA NextKeeps ==
  ASSUME HostInv, Next
  PROVE  HostInv'
<1>1. DbTyped'
  BY DatabaseTyped DEF HostInv
<1> QED
  BY <1>1, PollKeeps, TimersKeep, QuitKeeps, RequestKeeps, DurableOffKeeps, DecisionKeeps,
     ChildKeeps, EnvironmentKeeps, StopTimeoutKeeps, ExitEventKeeps, SpawnFailsKeeps DEF Next

\* So does a step that changes nothing.
LEMMA StutteringKeeps ==
  ASSUME HostInv, UNCHANGED vars
  PROVE  HostInv'
<1>1. UNCHANGED <<host, task, proc>> /\ DbTyped'
  BY TypeParts DEF HostInv, vars, DbTyped
<1>2. host \in Hosts
  BY TypeParts DEF HostInv
<1> QED
  BY <1>1, <1>2, NothingMovesKeeps

\* The first host starts beside nobody.
LEMMA InitHolds ==
  ASSUME Init
  PROVE  HostInv
<1>1. /\ host \in Hosts /\ host.life = "up" /\ host.child = None /\ host.runState = "off"
  BY NewHostTyped DEF Init
<1>2. task \in [Tasks -> Records] /\ \A t \in Tasks : task[t].pc \in {"idle", "boot_read"}
  <2>1. Ticketed("boot_read") \in Records /\ Ticketed("boot_read").pc = "boot_read"
    BY RecordsTyped DEF Pcs
  <2> QED
    BY <2>1, NewHostTyped DEF Init, Idle
<1>3. proc \in [Procs -> Processes] /\ \A p \in Procs : proc[p].phase = "none"
  BY DEF Init, NoProc, Processes, Phases, Codes
<1>4. DbTyped
  BY HostAssumption DEF Init, DbTyped
<1>5. TypeOK
  BY <1>1, <1>2, <1>3, <1>4, TypeParts
<1>6. RunInv /\ QuitInv
  BY <1>1, <1>2, Kinds DEF RunInv, RunStateTracksChild, QuitInv
<1>7. UntrackedOnlyByLateExit
  BY <1>3 DEF UntrackedOnlyByLateExit, Live
<1> QED
  BY <1>5, <1>6, <1>7 DEF HostInv

-----------------------------------------------------------------------------
\* The theorems.

\* The inductive invariant of the host holds throughout.
LEMMA HostInvariance == Spec => []HostInv
<1>1. Init => HostInv
  BY InitHolds
<1>2. HostInv /\ [Next]_vars => HostInv'
  BY NextKeeps, StutteringKeeps
<1> QED
  BY <1>1, <1>2, PTL DEF Spec

\* Type correctness of the host, its tasks and its worker processes.
THEOREM HostTyping == Spec => []TypeOK
BY HostInvariance, PTL DEF HostInv

\* The run state every decision reads agrees with the child, whatever stop, exit
\* event, spawn failure or restart decision overtakes which (planSwitchPoll,
\* checkWorkerProgress, the exit handler); late exit events included.
THEOREM RunStateFollowsChild == Spec => []RunStateTracksChild
<1>1. HostInv => RunStateTracksChild
  BY DEF HostInv, RunInv
<1> QED
  BY <1>1, HostInvariance, PTL

\* No stop, exit, failed spawn, crash or shutdown leaves a worker of this host
\* running untracked, unless the end of a child killed before it was spawned has
\* cleared its handle (startWorkerChild, stopWorkerChild, the exit handler).
THEOREM UntrackedWorkersWereLost == Spec => []UntrackedOnlyByLateExit
<1>1. HostInv => UntrackedOnlyByLateExit
  BY DEF HostInv
<1> QED
  BY <1>1, HostInvariance, PTL

-----------------------------------------------------------------------------
\* Who starts the worker.

\* A stop gives the host no child.
LEMMA StopStartsNobody ==
  ASSUME NEW t, NEW r, NEW h \in Hosts, h.child = host.child, Stop(t, r, h)
  PROVE  ~ Starts
<1>1. PICK s : host' = [h EXCEPT !.armed = FALSE, !.runState = s]
  BY DEF Stop
<1>2. host'.child = h.child
  BY <1>1 DEF Hosts
<1> QED
  BY <1>2 DEF Starts

\* Boot resume and switch poll start the worker only where the claim has
\* answered and their ticket still counts.
LEMMA PollStartsWith ==
  ASSUME host \in Hosts, Poll, Starts
  PROVE  MayStart("poll")
<1>1. \E from : PollClaimed(from)
  <2>1. ~ (BootRead \/ BootGo \/ PollRead \/ PollRelease)
    BY DEF BootRead, BootGo, PollRead, PollRelease, Starts
  <2>2. ~ \E from, to : PollClaim(from, to)
    BY DEF PollClaim, Starts
  <2>3. ~ Probe
    BY DEF Probe, Starts, Hosts
  <2>4. ~ PollDecide
    <3>1. ~ \E r : Stop("poll", r, host)
      BY StopStartsNobody
    <3> QED
      BY <3>1 DEF PollDecide, Starts
  <2> QED
    BY <2>1, <2>2, <2>3, <2>4 DEF Poll
<1>2. PICK from : PollClaimed(from)
  BY <1>1
<1>3. ~ (host' = [host EXCEPT !.blocked = @ \/ from = "claimed"]) /\ host' # host
  BY DEF Starts, Hosts
<1> QED
  BY <1>2, <1>3 DEF PollClaimed

\* Of a request's steps only the last one of an ON starts it.
LEMMA RequestStartsWith ==
  ASSUME host \in Hosts, NEW r \in Requests, Request(r), Starts
  PROVE  OnStart(r)
<1>1. ~ (OnClaim(r) \/ OnWrite(r))
  BY DEF OnClaim, OnWrite, Starts
<1>2. ~ OnBegin(r)
  BY DEF OnBegin, Starts, Hosts
<1>3. ~ OffBegin(r)
  <2> DEFINE h == [host EXCEPT !.offNotRecorded = TRUE]
  <2>1. h \in Hosts /\ h.child = host.child
    BY DEF Hosts
  <2> HIDE DEF h
  <2>2. ~ Stop(r, Idle, h)
    BY <2>1, StopStartsNobody
  <2> QED
    BY <2>2 DEF OffBegin, h
<1> QED
  BY <1>1, <1>2, <1>3 DEF Request

\* Of a restart decision's steps, only the one that has found the switch ON.
LEMMA DecisionStartsWith ==
  ASSUME host \in Hosts, NEW d \in Decisions, Decision(d) \/ HungRestart(d), Starts
  PROVE  MayRestart(d)
<1>1. ~ DecisionRead(d)
  BY DEF DecisionRead, Starts
<1>2. ~ HungRestart(d)
  BY StopStartsNobody DEF HungRestart
<1>3. DecisionGo(d)
  BY <1>1, <1>2 DEF Decision
<1>4. CASE MayRestart(d)
  BY <1>4
<1>5. CASE ~ MayRestart(d)
  <2>1. PICK a, s : \/ host' = host
                    \/ host' = [host EXCEPT !.runState = s]
                    \/ host' = [host EXCEPT !.armed = a, !.runState = s]
    BY <1>3, <1>5 DEF DecisionGo
  <2>2. host'.child = host.child
    BY <2>1 DEF Hosts
  <2> QED
    BY <2>2 DEF Starts
<1> QED
  BY <1>4, <1>5

\* The rest of the host starts nobody.
LEMMA OthersStartNobody ==
  ASSUME host \in Hosts,
         \/ Unblock \/ Tick \/ Fire \/ LateOff \/ Quit \/ Environment
         \/ \E id \in {"me", "old"} : LateRelease(id)
         \/ \E t \in Tasks : DurableOff(t) \/ StopTimeout(t)
         \/ \E p \in Procs : Child(p) \/ ExitEvent(p) \/ SpawnFails(p)
  PROVE  ~ Starts
<1>1. CASE Unblock \/ Fire
  BY <1>1 DEF Unblock, Fire, Starts, Hosts
<1>2. CASE LateOff \/ Environment \/ \E id \in {"me", "old"} : LateRelease(id)
  BY <1>2 DEF LateOff, Environment, LateRelease, Starts
<1>3. CASE Tick
  BY <1>3, StopStartsNobody DEF Tick, TickRetriesOff, TickFindsLost, TickStops, Starts
<1>4. CASE Quit
  <2> DEFINE h == [host EXCEPT !.life = "leaving"]
  <2>1. h \in Hosts /\ h.child = host.child
    BY DEF Hosts
  <2> HIDE DEF h
  <2>2. \A t, r : Stop(t, r, h) => ~ Starts
    BY <2>1, StopStartsNobody
  <2>3. QuitBegin => ~ Starts
    BY <2>2 DEF QuitBegin, h
  <2>4. \A life : NewHost(life).child = None
    BY DEF NewHost
  <2> QED
    BY <1>4, <2>3, <2>4 DEF Quit, QuitRelease, QuitGo, HostKilled, HostGone, Relaunch, Starts
<1>5. CASE \E t \in Tasks : DurableOff(t)
  BY <1>5 DEF DurableOff, WriteOff, ReleaseOff, Starts, Hosts
<1>6. CASE \E t \in Tasks : StopTimeout(t)
  BY <1>6 DEF StopTimeout, Starts, Hosts
<1>7. CASE \E p \in Procs : Child(p)
  BY <1>7 DEF Child, ChildReadsSwitch, ChildClaims, ChildSeesOff, ChildFails, ChildHangs,
       ChildExits, ChildLosesHost, OrphanReaped, Starts
<1>8. CASE \E p \in Procs : ExitEvent(p)
  <2>1. PICK p \in Procs : ExitEvent(p)
    BY <1>8
  <2> DEFINE code == proc[p].code
             outage == code = "outage" /\ ~ Asked
             state == IF outage /\ host.offNotRecorded THEN "off" ELSE ExitState(code)
             armed == IF outage THEN ~ host.offNotRecorded ELSE host.armed
             runState == IF Waiting(p) = {} THEN state ELSE StoppedState(Waiting(p))
  <2>2. host' = [host EXCEPT !.child = None, !.armed = armed, !.runState = runState]
    BY <2>1 DEF ExitEvent
  <2> HIDE DEF armed, runState
  <2> QED
    BY <2>2 DEF Starts, Hosts
<1>9. CASE \E p \in Procs : SpawnFails(p)
  BY <1>9 DEF SpawnFails, Starts, Hosts
<1> QED
  BY <1>1, <1>2, <1>3, <1>4, <1>5, <1>6, <1>7, <1>8, <1>9

\* Whatever starts the worker on its own never does so against an OFF given here
\* that the database has not recorded (RestartLifecycle.mayStart, planAutoRestart,
\* planSwitchPoll, planBootResume); only an operator's own ON may.
THEOREM AutomaticStartsRespectOff == Spec => AutoStartsRespectOff
<1>1. ASSUME HostInv, Next, Starts, host.offNotRecorded
      PROVE  \E r \in Requests : OnStart(r)
  <2>1. host \in Hosts
    BY <1>1, TypeParts DEF HostInv
  <2>2. ~ MayStart("poll") /\ ~ \E d \in Decisions : MayRestart(d)
    BY <1>1 DEF MayStart, MayRestart
  <2>3. ~ Poll /\ ~ \E d \in Decisions : Decision(d) \/ HungRestart(d)
    BY <1>1, <2>1, <2>2, PollStartsWith, DecisionStartsWith
  <2>4. \E r \in Requests : Request(r)
    BY <1>1, <2>1, <2>3, OthersStartNobody DEF Next
  <2> QED
    BY <1>1, <2>1, <2>4, RequestStartsWith
<1>2. HostInv /\ [Next]_vars
        => [Starts /\ host.offNotRecorded => \E r \in Requests : OnStart(r)]_vars
  BY <1>1
<1> QED
  BY <1>2, HostInvariance, PTL DEF Spec, AutoStartsRespectOff

\* A host that quits in order leaves no worker of its own behind, whatever boot
\* resume, request or restart was under way (shutdown, startWorkerChild), but for
\* one that a late exit event took from it.
THEOREM QuitLeavesOnlyOrphans == Spec => QuitLeavesNobody
<1>1. HostInv => (QuitGo => \A p \in Procs : Live(p) => Orphan(p) \/ Lost(p))
  BY Kinds DEF HostInv, QuitInv, UntrackedOnlyByLateExit, QuitGo
<1>2. HostInv /\ [Next]_vars
        => [QuitGo => \A p \in Procs : Live(p) => Orphan(p) \/ Lost(p)]_vars
  BY <1>1
<1> QED
  BY <1>2, HostInvariance, PTL DEF Spec, QuitLeavesNobody
=============================================================================
