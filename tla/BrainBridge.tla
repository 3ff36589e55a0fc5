----------------------------- MODULE BrainBridge -----------------------------
(***************************************************************************)
(* The bridge to the Python brain (src/lib/admin-worker/intelligence/      *)
(* client.ts, single-flight.ts): many callers share one child process that *)
(* reads its pipe a line at a time, so a caller waits for a turn, writes   *)
(* one request, and a request that times out keeps the turn until its late *)
(* answer, one more window, or the end of the process.                     *)
(*                                                                         *)
(* The code runs on one thread.  A timer, a chunk of the brain's output or *)
(* an exit event runs to its end together with the promise continuations   *)
(* it settles, so it is one step, and that step includes the next caller's *)
(* turn (HandOn).  A call's id is a fresh UUID; here a call is identified  *)
(* by a member of Calls that starts again once nothing refers to it.       *)
(*                                                                         *)
(* Left out: the memo cache, the one-shot probe process, the "force" calls *)
(* of the boot check, and answers of a process that is no longer resident  *)
(* (they are ignored, and their ids are forgotten by then).                *)
(***************************************************************************)
EXTENDS Integers, Sequences, SequencesExt

CONSTANTS
  Calls,        \* calls of callBrain that exist at once (bound)
  MaxProcs,     \* brain processes that exist at once (bound)
  MaxRestarts,  \* MAX_RESTARTS_PER_MIN
  MaxEvents     \* bound: faults of the brain, and shutdowns

Procs == 1 .. MaxProcs
None == 0

ASSUME BridgeAssumption ==
  MaxProcs \in Nat \ {0} /\ MaxRestarts \in Nat \ {0} /\ MaxEvents \in Nat

VARIABLES
  busy,     \* SingleFlight.busy: the turn is taken
  waiters,  \* SingleFlight.waiters
  pending,  \* _pending: the calls whose request is written and unanswered
  held,     \* _abandoned: timed-out calls that keep the turn
  overdue,  \* history: timed-out calls whose extra window has passed
  link,     \* _proc, _status and the counters
  brain,    \* brain[p]: the process in slot p
  budget    \* faults left

vars == <<busy, waiters, pending, held, overdue, link, brain, budget>>

-----------------------------------------------------------------------------
(* State *)

\* "new": has not answered yet.  "absent": the spawn failed, its error event is
\* to come.  "dead" and "killed": gone, the exit event is to come.
BrainStates == {"none", "new", "up", "hung", "absent", "dead", "killed"}

\* misses is history: the timeouts of this process since it last answered.
NoBrain == [state |-> "none", pipe |-> <<>>, misses |-> 0]

InPipe(c) == \E p \in Procs : Contains(brain[p].pipe, c)
Idle(c) == ~ Contains(waiters, c) /\ c \notin pending \cup held /\ ~ InPipe(c)

Links == [proc: Procs \cup {None}, status: {"unknown", "up", "down"},
          cooled: BOOLEAN, restarts: 0 .. MaxRestarts, timeouts: {0, 1}]
Brains == [state: BrainStates, pipe: Seq(Calls), misses: Nat]

TypeOK ==
  /\ busy \in BOOLEAN
  /\ waiters \in Seq(Calls)
  /\ pending \subseteq Calls /\ held \subseteq Calls /\ overdue \subseteq Calls
  /\ link \in Links
  /\ brain \in [Procs -> Brains]
  /\ budget \in 0 .. MaxEvents

Init ==
  /\ busy = FALSE
  /\ waiters = <<>>
  /\ pending = {} /\ held = {} /\ overdue = {}
  /\ link = [proc |-> None, status |-> "unknown", cooled |-> FALSE,
             restarts |-> 0, timeouts |-> 0]
  /\ brain = [p \in Procs |-> NoBrain]
  /\ budget = MaxEvents

\* A fault, or a shutdown.
Spend == budget > 0 /\ budget' = budget - 1

Down(l) == [l EXCEPT !.status = "down", !.cooled = FALSE]

\* availableNow re-arms the bridge once the cooldown has passed.  (Mutants of the
\* definition below them are named for the mistake they make.)
StaysDown(l) == l
Rearmed(l) ==
  IF l.status = "down" /\ l.cooled
  THEN [l EXCEPT !.status = "unknown", !.restarts = 0] ELSE l

\* ensureProc's restart throttle.
OneTooMany(l) == l.restarts <= MaxRestarts
MayStart(l) == l.restarts < MaxRestarts

-----------------------------------------------------------------------------
(* Turns *)

\* The request of call c goes to process p, over the bridge l and processes b.
Write(c, p, rest, l, b) ==
  /\ pending' = rest \cup {c}
  /\ link' = l
  /\ brain' = [b EXCEPT ![p].pipe = Append(@, c)]

\* Every caller of a bridge that is down, or that may not start another process,
\* gives its turn up at once, the last one to nobody.
NobodyNext(rest, l, b) ==
  /\ busy' = FALSE /\ waiters' = <<>>
  /\ pending' = rest /\ link' = l /\ brain' = b

\* SingleFlight.release, and what the callers it wakes do before anything else
\* runs: the first of queue q that finds the bridge available writes its
\* request (ensureProc spawns the process if there is none).
HandOn(q, rest, l, b) ==
  LET r == Rearmed(l) IN
  \/ q = <<>> /\ NobodyNext(rest, l, b)
  \/ q # <<>> /\ r.status = "down" /\ NobodyNext(rest, l, b)
  \/ /\ q # <<>> /\ r.status # "down" /\ r.proc # None
     /\ busy' = TRUE /\ waiters' = Tail(q)
     /\ Write(Head(q), r.proc, rest, r, b)
  \/ /\ q # <<>> /\ r.status # "down" /\ r.proc = None /\ MayStart(r)
     /\ busy' = TRUE /\ waiters' = Tail(q)
     /\ \E p \in Procs :
          /\ b[p].state = "none"
          /\ \A o \in 1 .. p - 1 : b[o].state # "none"
          /\ Write(Head(q), p, rest,
                   [r EXCEPT !.proc = p, !.restarts = @ + 1],
                   [b EXCEPT ![p] = [NoBrain EXCEPT !.state = "new"]])
  \/ /\ q # <<>> /\ r.status # "down" /\ r.proc = None /\ ~ MayStart(r)
     /\ NobodyNext(rest, Down(r), b)

\* SingleFlight.acquire: whoever comes last waits longest.
AtTheFront(c) == <<c>> \o waiters
InLine(c) == Append(waiters, c)

\* callBrain: a call takes a free turn, or waits for one.
Call(c) ==
  /\ Idle(c)
  /\ Rearmed(link).status # "down"
  /\ \/ ~ busy /\ HandOn(<<c>> \o waiters, pending, link, brain)
     \/ /\ busy
        /\ waiters' = InLine(c)
        /\ link' = Rearmed(link)
        /\ UNCHANGED <<busy, pending, brain>>
  /\ overdue' = overdue \ {c}
  /\ UNCHANGED <<held, budget>>

\* The wait budget runs out: "busy".
WaitExpires(c) ==
  /\ \E i \in 1 .. Len(waiters) : waiters[i] = c /\ waiters' = RemoveAt(waiters, i)
  /\ UNCHANGED <<busy, pending, held, overdue, link, brain, budget>>

-----------------------------------------------------------------------------
(* What comes back from the resident process *)

Well(p) == brain[p].state \in {"new", "up"}

\* A valid envelope ends the call; an invalid one or another protocol version
\* fails it, and the latter marks the bridge down.
Settled(kind) ==
  CASE kind = "valid"   -> [link EXCEPT !.status = "up", !.timeouts = 0]
    [] kind = "invalid" -> link
    [] kind = "skewed"  -> Down(link)

\* The end of a held turn is noted, or it would end a second time.
StillHeld(c) == UNCHANGED held
Ends(c) == held' = held \ {c}

\* One line of the brain's output: the answer to the head of its pipe.
Answer(p) ==
  /\ p = link.proc /\ Well(p) /\ brain[p].pipe # <<>>
  /\ LET c == Head(brain[p].pipe)
         b == [brain EXCEPT ![p] = [state |-> "up", pipe |-> Tail(@.pipe), misses |-> 0]]
     IN \/ /\ c \in pending
           /\ \E kind \in {"valid", "invalid", "skewed"} :
                /\ IF kind = "valid" THEN UNCHANGED budget ELSE Spend
                /\ HandOn(waiters, pending \ {c}, Settled(kind), b)
           /\ UNCHANGED held
        \/ /\ c \in held
           /\ Ends(c)
           /\ HandOn(waiters, pending, [link EXCEPT !.timeouts = 0], b)
           /\ UNCHANGED budget
        \/ /\ c \notin pending \cup held
           /\ brain' = b
           /\ UNCHANGED <<busy, waiters, pending, held, link, budget>>
  /\ UNCHANGED overdue

\* A time limit may pass for a brain that is well, only slow, as a fault.
TooLate(p) == IF Well(p) THEN Spend ELSE UNCHANGED budget

\* noteTimeout, below TIMEOUTS_BEFORE_RECYCLE: the call keeps its turn.
Missed(p) == [brain EXCEPT ![p].misses = @ + 1]
GivesTurnUp(c) ==
  /\ HandOn(waiters, pending \ {c}, [link EXCEPT !.timeouts = 1], Missed(link.proc))
  /\ UNCHANGED held
KeepsTurn(c) ==
  /\ pending' = pending \ {c}
  /\ held' = held \cup {c}
  /\ link' = [link EXCEPT !.timeouts = 1]
  /\ brain' = Missed(link.proc)
  /\ UNCHANGED <<busy, waiters>>

\* The process is detached and killed; what it was asked is forgotten.
Detached(b, p) ==
  IF p = None THEN b ELSE [b EXCEPT ![p].state = "killed", ![p].pipe = <<>>]

\* A second timeout recycles the process.
Timeout(c) ==
  /\ c \in pending
  /\ TooLate(link.proc)
  /\ \/ link.timeouts = 0 /\ KeepsTurn(c)
     \/ /\ link.timeouts = 1
        /\ HandOn(waiters, {}, [link EXCEPT !.proc = None, !.timeouts = 0],
                  Detached(brain, link.proc))
        /\ UNCHANGED held
  /\ UNCHANGED overdue

\* One more window has passed without a late answer.
HoldEnds(c) ==
  /\ c \in held
  /\ TooLate(link.proc)
  /\ Ends(c)
  /\ overdue' = overdue \cup {c}
  /\ HandOn(waiters, pending, link, brain)

\* handleGone, after an exit or a failed spawn.
StaleToo(p) == TRUE
Resident(p) == p = link.proc
Gone(p) ==
  /\ brain[p].state \in {"dead", "absent", "killed"}
  /\ LET b == [brain EXCEPT ![p] = NoBrain]
         failed == IF brain[p].state = "absent" THEN Down(link) ELSE link
         l == [failed EXCEPT !.proc = None]
     IN IF ~ Resident(p)
        THEN brain' = b /\ UNCHANGED <<busy, waiters, pending, held, link>>
        ELSE /\ held' = {}
             /\ IF pending \cup held # {} THEN HandOn(waiters, {}, l, b)
                ELSE brain' = b /\ link' = l /\ UNCHANGED <<busy, waiters, pending>>
  /\ UNCHANGED <<overdue, budget>>

\* shutdownBrain turns the waiters away first, then ends every turn.
Shutdown ==
  /\ Spend
  /\ HandOn(<<>>, {}, [link EXCEPT !.proc = None], Detached(brain, link.proc))
  /\ held' = {}
  /\ UNCHANGED overdue

-----------------------------------------------------------------------------
(* Time and faults *)

\* DOWN_RETRY_COOLDOWN_MS have passed since the bridge was marked down.
Cooldown ==
  /\ link.status = "down" /\ ~ link.cooled
  /\ link' = [link EXCEPT !.cooled = TRUE]
  /\ UNCHANGED <<busy, waiters, pending, held, overdue, brain, budget>>

\* The restart window of 60 s is over.
WindowEnds ==
  /\ link.restarts > 0
  /\ link' = [link EXCEPT !.restarts = 0]
  /\ UNCHANGED <<busy, waiters, pending, held, overdue, brain, budget>>

\* The process stops answering or dies, or it could not be started.
Breaks(p) ==
  /\ Well(p) /\ Spend
  /\ \E state \in {"hung", "dead", "absent"} :
       /\ state = "absent" => brain[p].state = "new"
       /\ brain' = [brain EXCEPT ![p].state = state]
  /\ UNCHANGED <<busy, waiters, pending, held, overdue, link>>

Next ==
  \/ \E c \in Calls : Call(c) \/ WaitExpires(c) \/ Timeout(c) \/ HoldEnds(c)
  \/ \E p \in Procs : Answer(p) \/ Gone(p) \/ Breaks(p)
  \/ Shutdown \/ Cooldown \/ WindowEnds

Spec == Init /\ [][Next]_vars

(***************************************************************************)
(* Fairness: timers fire, a process that is well answers, exit events are  *)
(* delivered, and the worker keeps calling.                                *)
(***************************************************************************)
Fairness ==
  /\ WF_vars(\E c \in Calls : Call(c))
  /\ \A c \in Calls : WF_vars(WaitExpires(c)) /\ WF_vars(Timeout(c)) /\ WF_vars(HoldEnds(c))
  /\ \A p \in Procs : WF_vars(Answer(p)) /\ WF_vars(Gone(p))
  /\ WF_vars(Cooldown)

FairSpec == Spec /\ Fairness

-----------------------------------------------------------------------------
(* Safety *)

\* The turn is taken exactly while one request is in flight or held: it is
\* released once for every call, however a timeout, a late answer, the end of
\* the process and a shutdown race for it, and nobody waits for a free turn
\* (SingleFlight, holdTurnForLateAnswer).
OneTurn ==
  /\ busy => \E c \in Calls : {pending, held} = {{c}, {}}
  /\ ~ busy => pending = {} /\ held = {} /\ waiters = <<>>

\* "The next request is never queued in the pipe behind abandoned work": ahead
\* of a request in the pipe there are only requests whose extra window has
\* passed as well (callBrain).
NeverBehindAbandoned ==
  \A p \in Procs :
    LET pipe == brain[p].pipe
    IN \A i \in 1 .. Len(pipe), j \in 1 .. Len(pipe) :
         i < j /\ pipe[j] \in pending => pipe[i] \in overdue

\* Every brain process that was not killed is the one the bridge talks to: a
\* late exit of an older process never lets go of the present one (handleGone).
NoOrphanBrain ==
  \A p \in Procs : brain[p].state \notin {"none", "killed"} => p = link.proc

\* The bridge implements Turns: "a turn is granted to one caller at a time, in
\* arrival order", although a turn outlives its call when that times out and may
\* end in a late answer, an exit or a shutdown (SingleFlight).
Turn == INSTANCE Turns WITH queue <- waiters, serving <- pending \cup held
TakesTurns == Turn!Spec

\* A process is recycled only for its own two timeouts: the first "late answer
\* arrived" or "a full extra window passed without it" (noteTimeout).
RecycledForItsOwn ==
  [][\A p \in Procs : \A c \in Calls :
       Timeout(c) /\ brain[p].state # "killed" /\ brain'[p].state = "killed"
         => brain[p].misses >= 1]_vars

-----------------------------------------------------------------------------
(* Liveness *)

\* "A transient failure can't disable the brain forever": after the last fault
\* the brain answers again (availableNow, noteTimeout, ensureProc).
BrainRecovers ==
  []<>(link.status = "up" /\ link.proc # None /\ brain[link.proc].state = "up")
=============================================================================
