-------------------------- MODULE BrainBridgeProofs --------------------------
\* Theorems about the bridge, for any number of calls and processes.
EXTENDS BrainBridge, SequenceTheorems, TLAPS

-----------------------------------------------------------------------------
\* Type correctness.

\* A process slot holds one of the records Brains, whatever is written to it.
LEMMA NoBrainTyped == NoBrain \in Brains
BY EmptySeq DEF NoBrain, Brains, BrainStates

\* availableNow and markDown leave a bridge of the same shape.
LEMMA RearmedTyped ==
  ASSUME NEW l \in Links
  PROVE  Rearmed(l) \in Links /\ Down(l) \in Links /\ Rearmed(l).proc = l.proc
<1> DEFINE unknown == [l EXCEPT !.status = "unknown"]
           down == [l EXCEPT !.status = "down"]
<1>1. unknown \in Links /\ unknown.proc = l.proc /\ down \in Links
  BY DEF Links
<1>2. 0 \in 0 .. MaxRestarts
  BY BridgeAssumption
<1> HIDE DEF unknown, down
<1>3. /\ [unknown EXCEPT !.restarts = 0] \in Links
      /\ [unknown EXCEPT !.restarts = 0].proc = unknown.proc
      /\ [down EXCEPT !.cooled = FALSE] \in Links
  BY <1>1, <1>2 DEF Links
<1> QED
  BY <1>1, <1>3 DEF Rearmed, Down, unknown, down

\* ensureProc counts a started process within MAX_RESTARTS_PER_MIN.
LEMMA StartedTyped ==
  ASSUME NEW r \in Links, MayStart(r), NEW p \in Procs
  PROVE  /\ [r EXCEPT !.proc = p, !.restarts = @ + 1] \in Links
         /\ [r EXCEPT !.proc = p, !.restarts = @ + 1].proc = p
<1> DEFINE m == [r EXCEPT !.proc = p]
<1>1. m \in Links /\ m.proc = p /\ m.restarts = r.restarts
  BY DEF Links
<1>2. r.restarts + 1 \in 0 .. MaxRestarts
  BY BridgeAssumption DEF Links, MayStart
<1>3. [r EXCEPT !.proc = p, !.restarts = @ + 1] = [m EXCEPT !.restarts = r.restarts + 1]
  OBVIOUS
<1> HIDE DEF m
<1>4. [m EXCEPT !.restarts = r.restarts + 1] \in Links
      /\ [m EXCEPT !.restarts = r.restarts + 1].proc = m.proc
  BY <1>1, <1>2 DEF Links
<1> QED
  BY <1>1, <1>3, <1>4

\* Writing a request changes the pipe of one process only (callBrain).
LEMMA WriteTyped ==
  ASSUME NEW c \in Calls, NEW p \in Procs, NEW rest \in SUBSET Calls,
         NEW l \in Links, NEW b \in [Procs -> Brains], Write(c, p, rest, l, b)
  PROVE  /\ pending' = rest \cup {c}
         /\ link' = l
         /\ brain' \in [Procs -> Brains]
         /\ \A o \in Procs : brain'[o].state = b[o].state
<1>1. b[p].pipe \in Seq(Calls)
  BY DEF Brains
<1>2. Append(b[p].pipe, c) \in Seq(Calls)
  BY <1>1, AppendProperties
<1>3. brain' = [b EXCEPT ![p].pipe = Append(@, c)]
  BY DEF Write
<1>4. [b[p] EXCEPT !.pipe = Append(b[p].pipe, c)] \in Brains
  BY <1>2 DEF Brains
<1>5. brain' = [b EXCEPT ![p] = [b[p] EXCEPT !.pipe = Append(b[p].pipe, c)]]
  BY <1>3
<1> QED
  BY <1>4, <1>5 DEF Write, Brains

\* What a released turn leaves behind (SingleFlight.release, ensureProc): it is
\* taken by one call whose request is the only new one, or free with nobody
\* waiting; and no process but the resident one is started.
LEMMA HandOnEffect ==
  ASSUME NEW q \in Seq(Calls), NEW rest \in SUBSET Calls,
         NEW l \in Links, NEW b \in [Procs -> Brains], HandOn(q, rest, l, b)
  PROVE  /\ busy' \in BOOLEAN
         /\ waiters' \in Seq(Calls)
         /\ link' \in Links
         /\ brain' \in [Procs -> Brains]
         /\ \/ ~ busy' /\ waiters' = <<>> /\ pending' = rest
            \/ busy' /\ \E c \in Calls : pending' = rest \cup {c}
         /\ \/ link'.proc = l.proc /\ \A o \in Procs : brain'[o].state = b[o].state
            \/ /\ l.proc = None
               /\ \A o \in Procs \ {link'.proc} : brain'[o].state = b[o].state
<1> DEFINE r == Rearmed(l)
<1>1. r \in Links /\ Down(r) \in Links /\ r.proc = l.proc
  BY RearmedTyped
<1>2. <<>> \in Seq(Calls)
  BY EmptySeq
<1>3. CASE NobodyNext(rest, l, b)
  BY <1>2, <1>3 DEF NobodyNext
<1>4. CASE NobodyNext(rest, Down(r), b)
  <2>1. Down(r).proc = l.proc
    BY <1>1 DEF Down, Links
  <2> QED
    BY <1>1, <1>2, <1>4, <2>1 DEF NobodyNext
<1>5. CASE /\ q # <<>> /\ r.proc # None /\ busy' = TRUE /\ waiters' = Tail(q)
           /\ Write(Head(q), r.proc, rest, r, b)
  <2>1. Head(q) \in Calls /\ Tail(q) \in Seq(Calls)
    BY <1>5, HeadTailProperties
  <2>2. r.proc \in Procs
    BY <1>1, <1>5 DEF Links
  <2>3. /\ pending' = rest \cup {Head(q)} /\ link' = r
        /\ brain' \in [Procs -> Brains]
        /\ \A o \in Procs : brain'[o].state = b[o].state
    BY <1>1, <1>5, <2>1, <2>2, WriteTyped
  <2> QED
    BY <1>1, <1>5, <2>1, <2>3
<1>6. CASE /\ q # <<>> /\ r.proc = None /\ MayStart(r)
           /\ busy' = TRUE /\ waiters' = Tail(q)
           /\ \E p \in Procs :
                Write(Head(q), p, rest, [r EXCEPT !.proc = p, !.restarts = @ + 1],
                      [b EXCEPT ![p] = [NoBrain EXCEPT !.state = "new"]])
  <2>1. Head(q) \in Calls /\ Tail(q) \in Seq(Calls)
    BY <1>6, HeadTailProperties
  <2> DEFINE l2(p) == [r EXCEPT !.proc = p, !.restarts = @ + 1]
             b2(p) == [b EXCEPT ![p] = [NoBrain EXCEPT !.state = "new"]]
  <2>2. PICK p \in Procs : Write(Head(q), p, rest, l2(p), b2(p))
    BY <1>6
  <2>3. l2(p) \in Links /\ l2(p).proc = p
    BY <1>1, <1>6, StartedTyped
  <2>4. b2(p) \in [Procs -> Brains] /\ \A o \in Procs \ {p} : b2(p)[o] = b[o]
    BY NoBrainTyped DEF Brains, BrainStates
  <2> HIDE DEF l2, b2, r
  <2>5. /\ pending' = rest \cup {Head(q)} /\ link' = l2(p)
        /\ brain' \in [Procs -> Brains]
        /\ \A o \in Procs : brain'[o].state = b2(p)[o].state
    BY <2>1, <2>2, <2>3, <2>4, WriteTyped
  <2> QED
    BY <1>1, <1>6, <2>1, <2>3, <2>4, <2>5
<1> QED
  BY <1>3, <1>4, <1>5, <1>6 DEF HandOn

\* The states an action computes before it hands the turn on: the settled call,
\* the killed process and the counted timeout (noteTimeout, callBrain).
LEMMA PiecesTyped ==
  ASSUME TypeOK, NEW p \in Procs \cup {None}
  PROVE  /\ \A kind \in {"valid", "invalid", "skewed"} :
              Settled(kind) \in Links /\ Settled(kind).proc = link.proc
         /\ Detached(brain, p) \in [Procs -> Brains]
         /\ \A o \in Procs : Detached(brain, p)[o].state =
                               IF o = p THEN "killed" ELSE brain[o].state
         /\ Missed(p) \in [Procs -> Brains]
         /\ \A o \in Procs : Missed(p)[o].state = brain[o].state
<1>1. link \in Links /\ brain \in [Procs -> Brains]
  BY DEF TypeOK
<1>2. None \notin Procs
  BY BridgeAssumption DEF None, Procs
<1>3. \A kind \in {"valid", "invalid", "skewed"} :
        Settled(kind) \in Links /\ Settled(kind).proc = link.proc
  <2> DEFINE up == [link EXCEPT !.status = "up"]
  <2>1. up \in Links /\ up.proc = link.proc
    BY <1>1 DEF Links
  <2> HIDE DEF up
  <2>2. [up EXCEPT !.timeouts = 0] \in Links /\ [up EXCEPT !.timeouts = 0].proc = up.proc
    BY <2>1 DEF Links
  <2>3. Down(link) \in Links
    BY <1>1, RearmedTyped
  <2>4. Down(link).proc = link.proc
    BY <1>1 DEF Down, Links
  <2>5. Settled("valid") = [up EXCEPT !.timeouts = 0]
    BY DEF Settled, up
  <2>6. Settled("invalid") = link /\ Settled("skewed") = Down(link)
    BY DEF Settled
  <2> QED
    BY <1>1, <2>1, <2>2, <2>3, <2>4, <2>5, <2>6
<1>4. /\ Detached(brain, p) \in [Procs -> Brains]
      /\ \A o \in Procs : Detached(brain, p)[o].state =
                            IF o = p THEN "killed" ELSE brain[o].state
  <2> DEFINE k == [brain EXCEPT ![p].state = "killed"]
  <2>1. CASE p = None
    BY <1>1, <1>2, <2>1 DEF Detached
  <2>2. CASE p \in Procs
    <3>1. k \in [Procs -> Brains] /\ k[p].state = "killed"
          /\ \A o \in Procs \ {p} : k[o] = brain[o]
      BY <1>1, <2>2 DEF Brains, BrainStates
    <3>2. Detached(brain, p) = [k EXCEPT ![p].pipe = <<>>]
      BY <1>2, <2>2 DEF Detached
    <3> HIDE DEF k
    <3>3. /\ [k EXCEPT ![p].pipe = <<>>] \in [Procs -> Brains]
          /\ \A o \in Procs : [k EXCEPT ![p].pipe = <<>>][o].state = k[o].state
      BY <2>2, <3>1, EmptySeq DEF Brains
    <3> QED
      BY <2>2, <3>1, <3>2, <3>3
  <2> QED
    BY <2>1, <2>2
<1>5. /\ Missed(p) \in [Procs -> Brains]
      /\ \A o \in Procs : Missed(p)[o].state = brain[o].state
  <2>1. CASE p = None
    BY <1>1, <1>2, <2>1 DEF Missed
  <2>2. CASE p \in Procs
    BY <1>1, <2>2 DEF Missed, Brains
  <2> QED
    BY <2>1, <2>2
<1> QED
  BY <1>3, <1>4, <1>5

-----------------------------------------------------------------------------
\* The inductive invariant: types, one owner of the turn, one live process.

BridgeInv == TypeOK /\ OneTurn /\ NoOrphanBrain

\* Spending a fault keeps the budget in its bounds.
LEMMA SpendTyped ==
  ASSUME TypeOK, Spend \/ UNCHANGED budget
  PROVE  budget' \in 0 .. MaxEvents
BY BridgeAssumption DEF TypeOK, Spend

\* Whoever has the turn is the only one (SingleFlight.busy).
LEMMA OnlyHolder ==
  ASSUME OneTurn, NEW c
  PROVE  /\ c \in pending => pending \ {c} = {} /\ held = {} /\ busy
         /\ c \in held => held \ {c} = {} /\ pending = {} /\ busy
BY DEF OneTurn

\* A step that ends every request and hands the turn on keeps the invariant,
\* whatever queue, bridge and processes it starts from (SingleFlight.release,
\* ensureProc).
LEMMA HandOnKeeps ==
  ASSUME NEW q \in Seq(Calls), NEW l \in Links, NEW b \in [Procs -> Brains],
         HandOn(q, {}, l, b), held' = {},
         overdue' \subseteq Calls, budget' \in 0 .. MaxEvents,
         \A o \in Procs : b[o].state \notin {"none", "killed"} => o = l.proc
  PROVE  BridgeInv'
<1>1. /\ busy' \in BOOLEAN /\ waiters' \in Seq(Calls)
      /\ link' \in Links /\ brain' \in [Procs -> Brains]
      /\ \/ ~ busy' /\ waiters' = <<>> /\ pending' = {}
         \/ busy' /\ \E c \in Calls : pending' = {} \cup {c}
      /\ \/ link'.proc = l.proc /\ \A o \in Procs : brain'[o].state = b[o].state
         \/ /\ l.proc = None
            /\ \A o \in Procs \ {link'.proc} : brain'[o].state = b[o].state
  BY HandOnEffect
<1>2. OneTurn'
  <2>1. CASE ~ busy' /\ waiters' = <<>> /\ pending' = {}
    BY <2>1 DEF OneTurn
  <2>2. CASE busy' /\ \E c \in Calls : pending' = {} \cup {c}
    <3>1. PICK c \in Calls : pending' = {c}
      BY <2>2
    <3> QED
      BY <2>2, <3>1 DEF OneTurn
  <2> QED
    BY <1>1, <2>1, <2>2
<1>3. TypeOK'
  BY <1>1 DEF TypeOK
<1>4. NoOrphanBrain'
  <2>1. None \notin Procs
    BY BridgeAssumption DEF None, Procs
  <2> QED
    BY <1>1, <2>1 DEF NoOrphanBrain
<1> QED
  BY <1>2, <1>3, <1>4 DEF BridgeInv

\* A call that is written, queued or refused keeps the invariant.
LEMMA CallStep ==
  ASSUME BridgeInv, NEW c \in Calls, Call(c)
  PROVE  BridgeInv'
<1>1. TypeOK /\ OneTurn /\ NoOrphanBrain
  BY DEF BridgeInv
<1>2. overdue' \subseteq Calls /\ budget' \in 0 .. MaxEvents
  BY <1>1 DEF Call, TypeOK
<1>3. CASE ~ busy /\ HandOn(<<c>> \o waiters, pending, link, brain)
  <2>1. pending = {} /\ held' = {}
    BY <1>1, <1>3 DEF OneTurn, Call
  <2>2. <<c>> \o waiters \in Seq(Calls)
    BY <1>1, ConcatProperties DEF TypeOK
  <2> QED
    BY <1>1, <1>2, <1>3, <2>1, <2>2, HandOnKeeps DEF TypeOK, NoOrphanBrain
<1>4. CASE /\ busy /\ waiters' = InLine(c) /\ link' = Rearmed(link)
           /\ UNCHANGED <<busy, pending, brain>>
  <2>1. waiters' \in Seq(Calls)
    BY <1>1, <1>4, AppendProperties DEF TypeOK, InLine
  <2>2. link' \in Links /\ link'.proc = link.proc
    BY <1>1, <1>4, RearmedTyped DEF TypeOK
  <2>3. held' = held
    BY DEF Call
  <2>4. TypeOK'
    BY <1>1, <1>2, <1>4, <2>1, <2>2, <2>3 DEF TypeOK
  <2>5. OneTurn'
    BY <1>1, <1>4, <2>3 DEF OneTurn
  <2>6. NoOrphanBrain'
    BY <1>1, <1>4, <2>2 DEF NoOrphanBrain
  <2> QED
    BY <2>4, <2>5, <2>6 DEF BridgeInv
<1> QED
  BY <1>3, <1>4 DEF Call

\* A waiter that gives up keeps the invariant.
LEMMA WaitExpiresStep ==
  ASSUME BridgeInv, NEW c \in Calls, WaitExpires(c)
  PROVE  BridgeInv'
<1>1. PICK i \in 1 .. Len(waiters) : waiters' = RemoveAt(waiters, i)
  BY DEF WaitExpires
<1>2. TypeOK /\ OneTurn /\ NoOrphanBrain /\ waiters \in Seq(Calls)
  BY DEF BridgeInv, TypeOK
<1>3. waiters' \in Seq(Calls)
  <2>1. SubSeq(waiters, 1, i - 1) \in Seq(Calls) /\ SubSeq(waiters, i + 1, Len(waiters)) \in Seq(Calls)
    BY <1>2, LenProperties, SubSeqProperties
  <2> QED
    BY <1>1, <2>1, ConcatProperties DEF RemoveAt
<1>4. waiters # <<>>
  BY <1>1, <1>2
<1>5. UNCHANGED <<busy, pending, held, overdue, link, brain, budget>>
  BY DEF WaitExpires
<1>6. TypeOK'
  BY <1>2, <1>3, <1>5 DEF TypeOK
<1>7. OneTurn'
  BY <1>2, <1>4, <1>5 DEF OneTurn
<1>8. NoOrphanBrain'
  BY <1>2, <1>5 DEF NoOrphanBrain
<1> QED
  BY <1>6, <1>7, <1>8 DEF BridgeInv

\* An answer, in time, late or unknown, keeps the invariant.
LEMMA AnswerStep ==
  ASSUME BridgeInv, NEW p \in Procs, Answer(p)
  PROVE  BridgeInv'
<1> DEFINE c == Head(brain[p].pipe)
           b == [brain EXCEPT ![p] = [state |-> "up", pipe |-> Tail(@.pipe), misses |-> 0]]
<1>1. TypeOK /\ OneTurn /\ NoOrphanBrain
  BY DEF BridgeInv
<1>2. brain \in [Procs -> Brains] /\ link \in Links /\ waiters \in Seq(Calls) /\ p = link.proc
  BY <1>1 DEF TypeOK, Answer
<1>3. /\ b \in [Procs -> Brains]
      /\ \A o \in Procs : b[o].state \notin {"none", "killed"} => o = link.proc
  <2>1. brain[p].pipe \in Seq(Calls) /\ brain[p].pipe # <<>>
    BY <1>2 DEF Answer, Brains
  <2>2. Tail(brain[p].pipe) \in Seq(Calls)
    BY <2>1, HeadTailProperties
  <2>3. [state |-> "up", pipe |-> Tail(brain[p].pipe), misses |-> 0] \in Brains
    BY <2>2 DEF Brains, BrainStates
  <2> QED
    BY <1>1, <1>2, <2>3 DEF NoOrphanBrain
<1>4. overdue' \subseteq Calls /\ UNCHANGED overdue
  BY <1>1 DEF Answer, TypeOK
<1>5. Spend \/ UNCHANGED budget
  BY DEF Answer
<1>6. budget' \in 0 .. MaxEvents
  BY <1>1, <1>5, SpendTyped
<1> HIDE DEF b
<1>7. CASE /\ c \in pending /\ UNCHANGED held
           /\ \E kind \in {"valid", "invalid", "skewed"} :
                HandOn(waiters, pending \ {c}, Settled(kind), b)
  <2>1. pending \ {c} = {} /\ held = {}
    BY <1>1, <1>7, OnlyHolder
  <2>2. PICK kind \in {"valid", "invalid", "skewed"} : HandOn(waiters, {}, Settled(kind), b)
    BY <1>7, <2>1
  <2>3. Settled(kind) \in Links /\ Settled(kind).proc = link.proc
    BY <1>1, PiecesTyped
  <2> QED
    BY <1>2, <1>3, <1>4, <1>6, <1>7, <2>1, <2>2, <2>3, HandOnKeeps
<1>8. CASE /\ c \in held /\ Ends(c)
           /\ HandOn(waiters, pending, [link EXCEPT !.timeouts = 0], b)
  <2>1. pending = {} /\ held' = {}
    BY <1>1, <1>8, OnlyHolder DEF Ends
  <2>2. [link EXCEPT !.timeouts = 0] \in Links /\ [link EXCEPT !.timeouts = 0].proc = link.proc
    BY <1>2 DEF Links
  <2> QED
    BY <1>2, <1>3, <1>4, <1>6, <1>8, <2>1, <2>2, HandOnKeeps
<1>9. CASE brain' = b /\ UNCHANGED <<busy, waiters, pending, held, link, budget>>
  <2>1. TypeOK'
    BY <1>1, <1>3, <1>4, <1>9 DEF TypeOK
  <2>2. OneTurn'
    BY <1>1, <1>9 DEF OneTurn
  <2>3. NoOrphanBrain'
    BY <1>3, <1>9 DEF NoOrphanBrain
  <2> QED
    BY <2>1, <2>2, <2>3 DEF BridgeInv
<1> QED
  BY <1>7, <1>8, <1>9 DEF Answer, b

\* A timeout, recycling or not, keeps the invariant.
LEMMA TimeoutStep ==
  ASSUME BridgeInv, NEW c \in Calls, Timeout(c)
  PROVE  BridgeInv'
<1>1. TypeOK /\ OneTurn /\ NoOrphanBrain
  BY DEF BridgeInv
<1>2. brain \in [Procs -> Brains] /\ link \in Links /\ waiters \in Seq(Calls)
  BY <1>1 DEF TypeOK
<1>3. link.proc \in Procs \cup {None}
  BY <1>2 DEF Links
<1>4. overdue' \subseteq Calls /\ UNCHANGED overdue
  BY <1>1 DEF Timeout, TypeOK
<1>5. budget' \in 0 .. MaxEvents
  BY <1>1, SpendTyped DEF Timeout, TooLate
<1>6. pending \ {c} = {} /\ held = {} /\ busy
  BY <1>1, OnlyHolder DEF Timeout
<1>7. CASE KeepsTurn(c)
  <2>1. pending' = {} /\ held' = {c} /\ UNCHANGED <<busy, waiters>>
    BY <1>6, <1>7 DEF KeepsTurn
  <2>2. link' \in Links /\ link'.proc = link.proc
    BY <1>2, <1>7 DEF KeepsTurn, Links
  <2>3. brain' \in [Procs -> Brains] /\ \A o \in Procs : brain'[o].state = brain[o].state
    BY <1>1, <1>3, <1>7, PiecesTyped DEF KeepsTurn
  <2>4. TypeOK'
    BY <1>1, <1>4, <1>5, <2>1, <2>2, <2>3 DEF TypeOK
  <2>5. OneTurn'
    BY <1>6, <2>1 DEF OneTurn
  <2>6. NoOrphanBrain'
    BY <1>1, <2>2, <2>3 DEF NoOrphanBrain
  <2> QED
    BY <2>4, <2>5, <2>6 DEF BridgeInv
<1>8. CASE /\ HandOn(waiters, {}, [link EXCEPT !.proc = None, !.timeouts = 0],
                     Detached(brain, link.proc))
           /\ UNCHANGED held
  <2> DEFINE l0 == [link EXCEPT !.proc = None]
             l == [l0 EXCEPT !.timeouts = 0]
  <2>1. l0 \in Links /\ l0.proc = None
    BY <1>2 DEF Links
  <2> HIDE DEF l0
  <2>2. l \in Links /\ l.proc = None
    BY <2>1 DEF Links
  <2>3. HandOn(waiters, {}, l, Detached(brain, link.proc))
    BY <1>8 DEF l0
  <2> HIDE DEF l
  <2>4. /\ Detached(brain, link.proc) \in [Procs -> Brains]
        /\ \A o \in Procs : Detached(brain, link.proc)[o].state =
                              IF o = link.proc THEN "killed" ELSE brain[o].state
    BY <1>1, <1>3, PiecesTyped
  <2>5. \A o \in Procs :
          Detached(brain, link.proc)[o].state \notin {"none", "killed"} => o = l.proc
    BY <1>1, <2>4 DEF NoOrphanBrain
  <2>6. held' = {}
    BY <1>6, <1>8
  <2> QED
    BY <1>2, <1>4, <1>5, <2>2, <2>3, <2>4, <2>5, <2>6, HandOnKeeps
<1> QED
  BY <1>7, <1>8 DEF Timeout

\* The end of a held turn keeps the invariant.
LEMMA HoldEndsStep ==
  ASSUME BridgeInv, NEW c \in Calls, HoldEnds(c)
  PROVE  BridgeInv'
<1>1. TypeOK /\ OneTurn /\ NoOrphanBrain
  BY DEF BridgeInv
<1>2. budget' \in 0 .. MaxEvents
  BY <1>1, SpendTyped DEF HoldEnds, TooLate
<1>3. pending = {} /\ held' = {}
  BY <1>1, OnlyHolder DEF HoldEnds, Ends
<1>4. HandOn(waiters, {}, link, brain) /\ overdue' \subseteq Calls
  BY <1>1, <1>3 DEF HoldEnds, TypeOK
<1> QED
  BY <1>1, <1>2, <1>3, <1>4, HandOnKeeps DEF TypeOK, NoOrphanBrain

\* The exit of a process, current or not, keeps the invariant.
LEMMA GoneStep ==
  ASSUME BridgeInv, NEW p \in Procs, Gone(p)
  PROVE  BridgeInv'
<1> DEFINE b == [brain EXCEPT ![p] = NoBrain]
           failed == IF brain[p].state = "absent" THEN Down(link) ELSE link
           l == [failed EXCEPT !.proc = None]
<1>1. TypeOK /\ OneTurn /\ NoOrphanBrain
  BY DEF BridgeInv
<1>2. brain \in [Procs -> Brains] /\ link \in Links /\ waiters \in Seq(Calls)
  BY <1>1 DEF TypeOK
<1>3. b \in [Procs -> Brains] /\ b[p].state = "none"
      /\ \A o \in Procs \ {p} : b[o] = brain[o]
  BY <1>2, NoBrainTyped DEF NoBrain
<1>4. l \in Links /\ l.proc = None
  <2>1. failed \in Links
    BY <1>2, RearmedTyped
  <2> HIDE DEF failed
  <2> QED
    BY <2>1 DEF Links
<1>5. UNCHANGED <<overdue, budget>> /\ overdue' \subseteq Calls /\ budget' \in 0 .. MaxEvents
  BY <1>1 DEF Gone, TypeOK
<1>6. \/ ~ Resident(p) /\ brain' = b /\ UNCHANGED <<busy, waiters, pending, held, link>>
      \/ /\ Resident(p) /\ held' = {} /\ pending \cup held # {}
         /\ HandOn(waiters, {}, l, b)
      \/ /\ Resident(p) /\ held' = {} /\ pending \cup held = {}
         /\ brain' = b /\ link' = l /\ UNCHANGED <<busy, waiters, pending>>
  BY DEF Gone
<1> HIDE DEF b, l
<1>7. CASE ~ Resident(p) /\ brain' = b /\ UNCHANGED <<busy, waiters, pending, held, link>>
  <2>1. TypeOK'
    BY <1>1, <1>3, <1>5, <1>7 DEF TypeOK
  <2>2. OneTurn'
    BY <1>1, <1>7 DEF OneTurn
  <2>3. NoOrphanBrain'
    BY <1>1, <1>3, <1>7 DEF NoOrphanBrain
  <2> QED
    BY <2>1, <2>2, <2>3 DEF BridgeInv
<1>8. \A o \in Procs : Resident(p) /\ b[o].state \notin {"none", "killed"} => o = l.proc
  BY <1>1, <1>3 DEF NoOrphanBrain, Resident
<1>9. CASE Resident(p) /\ held' = {} /\ HandOn(waiters, {}, l, b)
  BY <1>2, <1>3, <1>4, <1>5, <1>8, <1>9, HandOnKeeps
<1>10. CASE /\ Resident(p) /\ held' = {} /\ pending \cup held = {}
            /\ brain' = b /\ link' = l /\ UNCHANGED <<busy, waiters, pending>>
  <2>1. TypeOK'
    BY <1>1, <1>3, <1>4, <1>5, <1>10 DEF TypeOK
  <2>2. OneTurn'
    BY <1>1, <1>10 DEF OneTurn
  <2>3. NoOrphanBrain'
    BY <1>8, <1>10 DEF NoOrphanBrain
  <2> QED
    BY <2>1, <2>2, <2>3 DEF BridgeInv
<1> QED
  BY <1>6, <1>7, <1>9, <1>10

\* A shutdown keeps the invariant.
LEMMA ShutdownStep ==
  ASSUME BridgeInv, Shutdown
  PROVE  BridgeInv'
<1> DEFINE l == [link EXCEPT !.proc = None]
<1>1. TypeOK /\ NoOrphanBrain
  BY DEF BridgeInv
<1>2. link.proc \in Procs \cup {None} /\ l \in Links /\ l.proc = None
  BY <1>1 DEF TypeOK, Links
<1>3. HandOn(<<>>, {}, l, Detached(brain, link.proc)) /\ held' = {}
  BY DEF Shutdown
<1>4. overdue' \subseteq Calls /\ budget' \in 0 .. MaxEvents
  BY <1>1, SpendTyped DEF Shutdown, TypeOK
<1> HIDE DEF l
<1>5. /\ Detached(brain, link.proc) \in [Procs -> Brains]
      /\ \A o \in Procs : Detached(brain, link.proc)[o].state =
                            IF o = link.proc THEN "killed" ELSE brain[o].state
  BY <1>1, <1>2, PiecesTyped
<1>6. \A o \in Procs :
        Detached(brain, link.proc)[o].state \notin {"none", "killed"} => o = l.proc
  BY <1>1, <1>5 DEF NoOrphanBrain
<1>7. <<>> \in Seq(Calls)
  BY EmptySeq
<1> QED
  BY <1>2, <1>3, <1>4, <1>5, <1>6, <1>7, HandOnKeeps

\* Time that passes and faults of the process (downRetryCooldownMs, the restart
\* window, a process that breaks).
LEMMA EnvironmentStep ==
  ASSUME BridgeInv, Cooldown \/ WindowEnds \/ \E p \in Procs : Breaks(p)
  PROVE  BridgeInv'
<1>1. TypeOK /\ OneTurn /\ NoOrphanBrain
  BY DEF BridgeInv
<1>2. UNCHANGED <<busy, waiters, pending, held, overdue>>
  BY DEF Cooldown, WindowEnds, Breaks
<1>3. link' \in Links /\ link'.proc = link.proc
  <2>1. link \in Links /\ 0 \in 0 .. MaxRestarts
    BY <1>1, BridgeAssumption DEF TypeOK
  <2>2. \/ link' = link
        \/ link' = [link EXCEPT !.cooled = TRUE]
        \/ link' = [link EXCEPT !.restarts = 0]
    BY DEF Cooldown, WindowEnds, Breaks
  <2> QED
    BY <2>1, <2>2 DEF Links
<1>4. /\ brain' \in [Procs -> Brains]
      /\ \A o \in Procs : brain'[o].state \in {"none", "killed"}
                              <=> brain[o].state \in {"none", "killed"}
  <2>1. CASE UNCHANGED brain
    BY <1>1, <2>1 DEF TypeOK
  <2>2. CASE \E p \in Procs : Breaks(p)
    BY <1>1, <2>2 DEF Breaks, Well, TypeOK, Brains, BrainStates
  <2> QED
    BY <2>1, <2>2 DEF Cooldown, WindowEnds
<1>5. budget' \in 0 .. MaxEvents
  BY <1>1, SpendTyped DEF Cooldown, WindowEnds, Breaks
<1>6. TypeOK'
  BY <1>1, <1>2, <1>3, <1>4, <1>5 DEF TypeOK
<1>7. OneTurn'
  BY <1>1, <1>2 DEF OneTurn
<1>8. NoOrphanBrain'
  BY <1>1, <1>3, <1>4 DEF NoOrphanBrain
<1> QED
  BY <1>6, <1>7, <1>8 DEF BridgeInv

-----------------------------------------------------------------------------
\* Abandoned work: an invariant of its own, on top of the one above.

\* The callers in queue q wait once each, are none of those in past, and have
\* no request in a pipe of the processes b (callBrain enters a call once).
FreshQueue(q, b, past) ==
  /\ \A i, j \in 1 .. Len(q) : q[i] = q[j] => i = j
  /\ \A i \in 1 .. Len(q) : q[i] \notin past
  /\ \A i \in 1 .. Len(q), p \in Procs : ~ Contains(b[p].pipe, q[i])

\* Every request in the pipes of b is one of past, but for a last one, which may
\* be one of present.
OrderedPipes(b, past, present) ==
  \A p \in Procs : \A i \in 1 .. Len(b[p].pipe) :
    \/ b[p].pipe[i] \in past
    \/ i = Len(b[p].pipe) /\ b[p].pipe[i] \in present

\* The bridge l talks to a process that runs, and nothing is in the pipe of one
\* that does not (handleGone, noteTimeout, shutdownBrain).
LivePipes(l, b) ==
  /\ l.proc # None => b[l.proc].state \notin {"none", "killed"}
  /\ \A p \in Procs : b[p].state \in {"none", "killed"} => b[p].pipe = <<>>

\* What keeps abandoned work ahead of nobody.
PipeInv ==
  /\ FreshQueue(waiters, brain, pending \cup held \cup overdue)
  /\ OrderedPipes(brain, overdue, pending \cup held)
  /\ (pending \cup held) \cap overdue = {}
  /\ LivePipes(link, brain)

\* The caller that has just been given the turn writes behind requests that
\* have all timed out for good, and those who wait still have nothing in a pipe
\* (SingleFlight.release, callBrain).
LEMMA WriteOrders ==
  ASSUME NEW q \in Seq(Calls), q # <<>>, NEW p \in Procs,
         NEW l \in Links, NEW b \in [Procs -> Brains],
         Write(Head(q), p, {}, l, b), waiters' = Tail(q), held' = {},
         FreshQueue(q, b, overdue'), OrderedPipes(b, overdue', {}),
         LivePipes(l, b), b[p].state \notin {"none", "killed"}
  PROVE  PipeInv'
<1> DEFINE c == Head(q)
           s == b[p].pipe
<1>1. s \in Seq(Calls)
  BY DEF Brains
<1>2. /\ c = q[1] /\ c \in Calls /\ 1 \in 1 .. Len(q)
      /\ Tail(q) \in Seq(Calls)
      /\ \A i \in 1 .. Len(Tail(q)) : /\ Tail(q)[i] = q[i + 1]
                                      /\ i + 1 \in 1 .. Len(q) /\ i + 1 # 1
  BY HeadTailProperties
<1>3. /\ Len(Append(s, c)) = Len(s) + 1 /\ Len(s) \in Nat
      /\ \A i \in 1 .. Len(s) : Append(s, c)[i] = s[i]
      /\ Append(s, c)[Len(s) + 1] = c
  BY <1>1, <1>2, AppendProperties
<1>4. pending' = {c} /\ link' = l /\ brain' = [b EXCEPT ![p].pipe = Append(s, c)]
  BY DEF Write
<1>5. /\ brain'[p].pipe = Append(s, c)
      /\ \A o \in Procs : brain'[o].state = b[o].state
      /\ \A o \in Procs \ {p} : brain'[o] = b[o]
  BY <1>4 DEF Brains
<1>6. c \notin overdue'
  BY <1>2 DEF FreshQueue
<1>7. FreshQueue(Tail(q), brain', {c} \cup overdue')
  <2>1. \A i, j \in 1 .. Len(Tail(q)) : Tail(q)[i] = Tail(q)[j] => i = j
    <3> SUFFICES ASSUME NEW i \in 1 .. Len(Tail(q)), NEW j \in 1 .. Len(Tail(q)),
                        Tail(q)[i] = Tail(q)[j]
                 PROVE  i = j
      OBVIOUS
    <3>1. i + 1 = j + 1
      BY <1>2 DEF FreshQueue
    <3> QED
      BY <3>1, <1>2
  <2>2. \A i \in 1 .. Len(Tail(q)) : Tail(q)[i] \notin {c} \cup overdue'
    BY <1>2 DEF FreshQueue
  <2>3. \A i \in 1 .. Len(Tail(q)), o \in Procs : ~ Contains(brain'[o].pipe, Tail(q)[i])
    <3> SUFFICES ASSUME NEW i \in 1 .. Len(Tail(q)), NEW o \in Procs
                 PROVE  ~ Contains(brain'[o].pipe, Tail(q)[i])
      OBVIOUS
    <3>1. ~ Contains(b[o].pipe, Tail(q)[i]) /\ Tail(q)[i] # c
      BY <1>2, <2>2 DEF FreshQueue
    <3>2. CASE o # p
      BY <3>1, <3>2, <1>5
    <3>3. CASE o = p
      <4> SUFFICES ASSUME NEW k \in 1 .. Len(Append(s, c)) PROVE Append(s, c)[k] # Tail(q)[i]
        BY <3>3, <1>5 DEF Contains
      <4>1. k \in 1 .. Len(s) \/ k = Len(s) + 1
        BY <1>3
      <4>2. CASE k \in 1 .. Len(s)
        BY <4>2, <3>1, <3>3, <1>3 DEF Contains
      <4> QED
        BY <4>1, <4>2, <3>1, <1>3
    <3> QED
      BY <3>2, <3>3
  <2> QED
    BY <2>1, <2>2, <2>3 DEF FreshQueue
<1>8. OrderedPipes(brain', overdue', {c})
  <2> SUFFICES ASSUME NEW o \in Procs, NEW i \in 1 .. Len(brain'[o].pipe)
               PROVE  \/ brain'[o].pipe[i] \in overdue'
                      \/ i = Len(brain'[o].pipe) /\ brain'[o].pipe[i] \in {c}
    BY DEF OrderedPipes
  <2>1. CASE o # p
    BY <2>1, <1>5 DEF OrderedPipes
  <2>2. CASE o = p
    <3>1. i \in 1 .. Len(s) \/ i = Len(s) + 1
      BY <2>2, <1>3, <1>5
    <3>2. CASE i \in 1 .. Len(s)
      BY <2>2, <3>2, <1>3, <1>5 DEF OrderedPipes
    <3>3. CASE i = Len(s) + 1
      BY <2>2, <3>3, <1>3, <1>5
    <3> QED
      BY <3>1, <3>2, <3>3
  <2> QED
    BY <2>1, <2>2
<1>9. LivePipes(link', brain')
  BY <1>4, <1>5 DEF LivePipes
<1>10. {c} \cap overdue' = {}
  BY <1>6
<1>11. (pending \cup held)' = {c} /\ (pending \cup held \cup overdue)' = {c} \cup overdue'
  BY <1>4
<1> QED
  BY <1>7, <1>8, <1>9, <1>10, <1>11 DEF PipeInv

\* A released turn keeps the invariant, if nothing in the pipes may still be
\* answered in time: whoever gets the turn writes behind abandoned work only
\* when that work is given up for good (SingleFlight.release, ensureProc).
LEMMA HandOnOrders ==
  ASSUME NEW q \in Seq(Calls), NEW l \in Links, NEW b \in [Procs -> Brains],
         HandOn(q, {}, l, b), held' = {},
         FreshQueue(q, b, overdue'), OrderedPipes(b, overdue', {}), LivePipes(l, b)
  PROVE  PipeInv'
<1> DEFINE r == Rearmed(l)
<1>1. r \in Links /\ Down(r) \in Links /\ r.proc = l.proc
  BY RearmedTyped
<1>2. ASSUME NEW m \in Links, m.proc = l.proc, NobodyNext({}, m, b)
      PROVE  PipeInv'
  <2>1. /\ waiters' = <<>> /\ pending' = {} /\ brain' = b /\ link' = m
        /\ (pending \cup held)' = {}
    BY <1>2 DEF NobodyNext
  <2>2. LivePipes(m, b)
    BY <1>2 DEF LivePipes
  <2>3. FreshQueue(<<>>, b, overdue')
    BY DEF FreshQueue
  <2> QED
    BY <2>1, <2>2, <2>3 DEF PipeInv
<1>3. Down(r).proc = l.proc
  BY <1>1 DEF Down, Links
<1>4. CASE NobodyNext({}, l, b) \/ NobodyNext({}, r, b) \/ NobodyNext({}, Down(r), b)
  BY <1>1, <1>2, <1>3, <1>4
<1>5. CASE /\ q # <<>> /\ r.proc # None /\ waiters' = Tail(q)
           /\ Write(Head(q), r.proc, {}, r, b)
  <2>1. r.proc \in Procs /\ LivePipes(r, b) /\ b[r.proc].state \notin {"none", "killed"}
    BY <1>1, <1>5 DEF Links, LivePipes
  <2> HIDE DEF r
  <2> QED
    BY <1>1, <1>5, <2>1, WriteOrders
<1>6. CASE /\ q # <<>> /\ r.proc = None /\ MayStart(r) /\ waiters' = Tail(q)
           /\ \E p \in Procs :
                /\ b[p].state = "none"
                /\ Write(Head(q), p, {}, [r EXCEPT !.proc = p, !.restarts = @ + 1],
                         [b EXCEPT ![p] = [NoBrain EXCEPT !.state = "new"]])
  <2> DEFINE m(p) == [r EXCEPT !.proc = p, !.restarts = @ + 1]
             d(p) == [b EXCEPT ![p] = [NoBrain EXCEPT !.state = "new"]]
  <2>1. PICK p \in Procs : b[p].state = "none" /\ Write(Head(q), p, {}, m(p), d(p))
    BY <1>6
  <2>2. m(p) \in Links /\ m(p).proc = p
    BY <1>1, <1>6, StartedTyped
  <2>3. /\ d(p) \in [Procs -> Brains] /\ d(p)[p].state = "new" /\ d(p)[p].pipe = <<>>
        /\ \A o \in Procs \ {p} : d(p)[o] = b[o]
    BY NoBrainTyped DEF NoBrain, Brains, BrainStates
  <2> HIDE DEF m, d, r
  <2>4. \A o \in Procs : d(p)[o].pipe = b[o].pipe
    BY <2>1, <2>3 DEF LivePipes
  <2>5. FreshQueue(q, d(p), overdue') /\ OrderedPipes(d(p), overdue', {})
    BY <2>4 DEF FreshQueue, OrderedPipes
  <2>6. LivePipes(m(p), d(p)) /\ d(p)[p].state \notin {"none", "killed"}
    BY <2>2, <2>3 DEF LivePipes
  <2> QED
    BY <1>6, <2>1, <2>2, <2>3, <2>5, <2>6, WriteOrders
<1> QED
  BY <1>4, <1>5, <1>6 DEF HandOn

\* Only the process the bridge talks to has anything in its pipe (handleGone).
LEMMA OthersAreEmpty ==
  ASSUME TypeOK, NoOrphanBrain, PipeInv
  PROVE  \A o \in Procs : o # link.proc => brain[o].pipe = <<>>
BY DEF NoOrphanBrain, PipeInv, LivePipes

\* With nothing in any pipe and no process to talk to, every queue of callers
\* that wait is fit to be handed the turn.
LEMMA EmptyPipes ==
  ASSUME NEW b \in [Procs -> Brains], NEW l, l.proc = None, NEW q \in Seq(Calls),
         PipeInv, q = waiters \/ q = <<>>, \A o \in Procs : b[o].pipe = <<>>
  PROVE  FreshQueue(q, b, overdue) /\ OrderedPipes(b, overdue, {}) /\ LivePipes(l, b)
<1>1. Len(<<>>) = 0
  OBVIOUS
<1>2. OrderedPipes(b, overdue, {}) /\ LivePipes(l, b)
  BY <1>1 DEF OrderedPipes, LivePipes
<1>3. \A o \in Procs : \A c : ~ Contains(b[o].pipe, c)
  BY <1>1 DEF Contains
<1>4. CASE q = <<>>
  BY <1>1, <1>2, <1>4 DEF FreshQueue
<1>5. CASE q = waiters
  BY <1>2, <1>3, <1>5 DEF PipeInv, FreshQueue
<1> QED
  BY <1>4, <1>5

\* A detached process is killed and what it was asked is forgotten
\* (noteTimeout, shutdownBrain).
LEMMA DetachedIsEmpty ==
  ASSUME TypeOK, NoOrphanBrain, PipeInv
  PROVE  \A o \in Procs : Detached(brain, link.proc)[o].pipe = <<>>
<1>1. brain \in [Procs -> Brains] /\ link.proc \in Procs \cup {None} /\ None \notin Procs
  BY BridgeAssumption DEF TypeOK, Links, None, Procs
<1>2. CASE link.proc = None
  BY <1>1, <1>2, OthersAreEmpty DEF Detached
<1>3. CASE link.proc \in Procs
  <2> DEFINE k == [brain EXCEPT ![link.proc].state = "killed"]
  <2>1. k \in [Procs -> Brains] /\ \A o \in Procs \ {link.proc} : k[o] = brain[o]
    BY <1>1, <1>3 DEF Brains, BrainStates
  <2>2. Detached(brain, link.proc) = [k EXCEPT ![link.proc].pipe = <<>>]
    BY <1>1, <1>3 DEF Detached
  <2> HIDE DEF k
  <2> QED
    BY <1>3, <2>1, <2>2, OthersAreEmpty DEF Brains
<1> QED
  BY <1>1, <1>2, <1>3

\* A call that enters starts afresh: nothing refers to it (callBrain).
LEMMA CallOrders ==
  ASSUME BridgeInv, PipeInv, NEW c \in Calls, Call(c)
  PROVE  PipeInv'
<1>1. TypeOK /\ OneTurn
  BY DEF BridgeInv
<1>2. brain \in [Procs -> Brains] /\ link \in Links /\ waiters \in Seq(Calls)
  BY <1>1 DEF TypeOK
<1>3. /\ \A i \in 1 .. Len(waiters) : waiters[i] # c
      /\ c \notin pending \cup held
      /\ \A p \in Procs : ~ Contains(brain[p].pipe, c)
  BY DEF Call, Idle, InPipe, Contains
<1>4. overdue' = overdue \ {c} /\ held' = held
  BY DEF Call
<1>5. ASSUME NEW present, OrderedPipes(brain, overdue, present)
      PROVE  OrderedPipes(brain, overdue', present)
  BY <1>3, <1>4, <1>5 DEF OrderedPipes, Contains
<1>6. CASE ~ busy /\ HandOn(<<c>> \o waiters, pending, link, brain)
  <2>1. pending = {} /\ held = {} /\ waiters = <<>>
    BY <1>1, <1>6 DEF OneTurn
  <2>2. <<c>> \o waiters = <<c>> /\ <<c>> \in Seq(Calls)
    BY <2>1, ConcatEmptySeq
  <2>3. FreshQueue(<<c>>, brain, overdue')
    BY <1>3, <1>4 DEF FreshQueue
  <2>4. OrderedPipes(brain, overdue', {}) /\ LivePipes(link, brain)
    BY <1>5, <2>1 DEF PipeInv
  <2>5. HandOn(<<c>>, {}, link, brain) /\ held' = {}
    BY <1>4, <1>6, <2>1, <2>2
  <2> QED
    BY <1>2, <2>2, <2>3, <2>4, <2>5, HandOnOrders
<1>7. CASE /\ busy /\ waiters' = InLine(c) /\ link' = Rearmed(link)
           /\ UNCHANGED <<busy, pending, brain>>
  <2>1. /\ Len(waiters') = Len(waiters) + 1 /\ Len(waiters) \in Nat
        /\ \A i \in 1 .. Len(waiters) : waiters'[i] = waiters[i]
        /\ waiters'[Len(waiters) + 1] = c
    BY <1>2, <1>7, AppendProperties DEF InLine
  <2>2. \A i \in 1 .. Len(waiters') : i \in 1 .. Len(waiters) \/ i = Len(waiters) + 1
    BY <2>1
  <2>3. \A i, j \in 1 .. Len(waiters') : waiters'[i] = waiters'[j] => i = j
    BY <1>3, <2>1, <2>2 DEF PipeInv, FreshQueue
  <2>4. \A i \in 1 .. Len(waiters') : waiters'[i] \notin (pending \cup held \cup overdue)'
    <3>1. (pending \cup held \cup overdue)' \subseteq (pending \cup held \cup overdue)
          /\ c \notin (pending \cup held \cup overdue)'
      BY <1>3, <1>4, <1>7
    <3> QED
      BY <2>1, <2>2, <3>1 DEF PipeInv, FreshQueue
  <2>5. \A i \in 1 .. Len(waiters'), p \in Procs : ~ Contains(brain'[p].pipe, waiters'[i])
    <3>1. brain' = brain
      BY <1>7
    <3> QED
      BY <1>3, <2>1, <2>2, <3>1 DEF PipeInv, FreshQueue
  <2>6. LivePipes(link', brain')
    BY <1>2, <1>7, RearmedTyped DEF PipeInv, LivePipes
  <2>7. OrderedPipes(brain', overdue', (pending \cup held)')
    BY <1>4, <1>5, <1>7 DEF PipeInv
  <2>8. (pending \cup held)' \cap overdue' = {}
    BY <1>4, <1>7 DEF PipeInv
  <2>9. FreshQueue(waiters', brain', (pending \cup held \cup overdue)')
    BY <2>3, <2>4, <2>5 DEF FreshQueue
  <2> QED
    BY <2>6, <2>7, <2>8, <2>9 DEF PipeInv
<1> QED
  BY <1>6, <1>7 DEF Call

\* A waiter that gives up leaves the others in their order
\* (SingleFlight.acquire).
LEMMA WaitExpiresOrders ==
  ASSUME BridgeInv, PipeInv, NEW c \in Calls, WaitExpires(c)
  PROVE  PipeInv'
<1>1. PICK i \in 1 .. Len(waiters) : waiters' = RemoveAt(waiters, i)
  BY DEF WaitExpires
<1>2. waiters \in Seq(Calls) /\ Len(waiters) \in Nat
  BY LenProperties DEF BridgeInv, TypeOK
<1>3. UNCHANGED <<busy, pending, held, overdue, link, brain, budget>>
  BY DEF WaitExpires
<1> DEFINE Old(k) == IF k < i THEN k ELSE k + 1
<1>4. \A k \in 1 .. Len(waiters') : Old(k) \in 1 .. Len(waiters) /\ waiters'[k] = waiters[Old(k)]
  <2> DEFINE a == SubSeq(waiters, 1, i - 1)
             z == SubSeq(waiters, i + 1, Len(waiters))
  <2>1. /\ a \in Seq(Calls) /\ Len(a) = i - 1
        /\ \A k \in 1 .. i - 1 : a[k] = waiters[k]
    BY <1>2, SubSeqProperties
  <2>2. /\ z \in Seq(Calls) /\ Len(z) = Len(waiters) - i
        /\ \A k \in 1 .. Len(waiters) - i : z[k] = waiters[i + k]
    BY <1>2, SubSeqProperties
  <2> HIDE DEF a, z
  <2>3. /\ Len(a \o z) = Len(a) + Len(z)
        /\ \A k \in 1 .. Len(a) + Len(z) :
             (a \o z)[k] = IF k <= Len(a) THEN a[k] ELSE z[k - Len(a)]
    BY <2>1, <2>2, ConcatProperties
  <2>4. waiters' = a \o z
    BY <1>1 DEF RemoveAt, a, z
  <2> SUFFICES ASSUME NEW k \in 1 .. Len(waiters')
               PROVE  Old(k) \in 1 .. Len(waiters) /\ waiters'[k] = waiters[Old(k)]
    OBVIOUS
  <2>5. k \in 1 .. Len(waiters) - 1
    BY <1>2, <2>1, <2>2, <2>3, <2>4
  <2>6. CASE k < i
    BY <1>2, <2>1, <2>2, <2>3, <2>4, <2>5, <2>6
  <2>7. CASE ~ (k < i)
    <3>1. k - Len(a) \in 1 .. Len(waiters) - i /\ ~ (k <= Len(a)) /\ i + (k - Len(a)) = k + 1
          /\ k \in 1 .. Len(a) + Len(z)
      BY <1>2, <2>1, <2>2, <2>5, <2>7
    <3>2. waiters'[k] = z[k - Len(a)]
      BY <2>3, <2>4, <3>1
    <3> QED
      BY <2>2, <2>5, <2>7, <3>1, <3>2
  <2> QED
    BY <2>6, <2>7
<1>5. \A k, j \in 1 .. Len(waiters') : Old(k) = Old(j) => k = j
  OBVIOUS
<1> HIDE DEF Old
<1>6. FreshQueue(waiters', brain, pending \cup held \cup overdue)
  BY <1>4, <1>5 DEF PipeInv, FreshQueue
<1> QED
  BY <1>3, <1>6 DEF PipeInv

\* The head of the pipe is answered: a request that was still wanted was the
\* only one in the pipe (settle, handleLine).
LEMMA AnswerOrders ==
  ASSUME BridgeInv, PipeInv, NEW p \in Procs, Answer(p)
  PROVE  PipeInv'
<1> DEFINE s == brain[p].pipe
           c == Head(s)
           b == [brain EXCEPT ![p] = [state |-> "up", pipe |-> Tail(@.pipe), misses |-> 0]]
<1>1. TypeOK /\ OneTurn /\ NoOrphanBrain
  BY DEF BridgeInv
<1>2. brain \in [Procs -> Brains] /\ link \in Links /\ waiters \in Seq(Calls) /\ p = link.proc
  BY <1>1 DEF TypeOK, Answer
<1>3. s \in Seq(Calls) /\ s # <<>>
  BY <1>2 DEF Answer, Brains
<1>4. /\ c = s[1] /\ 1 \in 1 .. Len(s) /\ Len(s) \in Nat
      /\ Tail(s) \in Seq(Calls) /\ Len(Tail(s)) = Len(s) - 1
      /\ \A i \in 1 .. Len(Tail(s)) : i + 1 \in 1 .. Len(s) /\ Tail(s)[i] = s[i + 1]
      /\ \A i \in 1 .. Len(Tail(s)) : i + 1 = Len(s) => i = Len(Tail(s))
  BY <1>3, HeadTailProperties
<1>5. b \in [Procs -> Brains] /\ b[p].pipe = Tail(s) /\ b[p].state = "up"
      /\ \A o \in Procs \ {p} : b[o] = brain[o]
  BY <1>2, <1>4 DEF Brains, BrainStates
<1>6. overdue' = overdue
  BY DEF Answer
<1> HIDE DEF b
<1>8. ASSUME NEW x, NEW o \in Procs, Contains(b[o].pipe, x)
      PROVE  Contains(brain[o].pipe, x)
  <2>1. CASE o # p
    BY <1>5, <1>8, <2>1
  <2>2. CASE o = p
    <3>1. PICK i \in 1 .. Len(Tail(s)) : Tail(s)[i] = x
      BY <1>5, <1>8, <2>2 DEF Contains
    <3>2. i + 1 \in 1 .. Len(s) /\ s[i + 1] = x
      BY <1>4, <3>1
    <3> QED
      BY <2>2, <3>2 DEF Contains
  <2> QED
    BY <2>1, <2>2
<1>9. FreshQueue(waiters, b, pending \cup held \cup overdue) /\ FreshQueue(waiters, b, overdue)
  BY <1>8 DEF PipeInv, FreshQueue
<1>10. OrderedPipes(b, overdue, pending \cup held)
  <2> SUFFICES ASSUME NEW o \in Procs, NEW i \in 1 .. Len(b[o].pipe)
               PROVE  \/ b[o].pipe[i] \in overdue
                      \/ i = Len(b[o].pipe) /\ b[o].pipe[i] \in pending \cup held
    BY DEF OrderedPipes
  <2>1. CASE o # p
    BY <2>1, <1>5 DEF PipeInv, OrderedPipes
  <2>2. CASE o = p
    BY <2>2, <1>4, <1>5 DEF PipeInv, OrderedPipes
  <2> QED
    BY <2>1, <2>2
<1>11. ASSUME c \in pending \cup held PROVE OrderedPipes(b, overdue, {})
  <2>1. c \notin overdue
    BY <1>11 DEF PipeInv
  <2>2. Len(Tail(s)) = 0
    <3>1. s[1] \in overdue \/ 1 = Len(s)
      BY <1>4 DEF PipeInv, OrderedPipes
    <3> QED
      BY <1>4, <2>1, <3>1
  <2>3. \A o \in Procs : o # p => Len(b[o].pipe) = 0
    BY <1>1, <1>2, <1>5, OthersAreEmpty
  <2>4. \A o \in Procs : Len(b[o].pipe) = 0
    BY <1>5, <2>2, <2>3
  <2> QED
    BY <2>4 DEF OrderedPipes
<1>12. ASSUME NEW l \in Links, l.proc = link.proc PROVE LivePipes(l, b)
  BY <1>2, <1>5, <1>12 DEF PipeInv, LivePipes
<1>13. CASE /\ c \in pending /\ UNCHANGED held
            /\ \E kind \in {"valid", "invalid", "skewed"} :
                 HandOn(waiters, pending \ {c}, Settled(kind), b)
  <2>1. pending \ {c} = {} /\ held' = {}
    BY <1>1, <1>13, OnlyHolder
  <2>2. PICK kind \in {"valid", "invalid", "skewed"} : HandOn(waiters, {}, Settled(kind), b)
    BY <1>13, <2>1
  <2>3. Settled(kind) \in Links /\ Settled(kind).proc = link.proc
    BY <1>1, PiecesTyped
  <2> QED
    BY <1>2, <1>5, <1>6, <1>9, <1>11, <1>12, <1>13, <2>1, <2>2, <2>3, HandOnOrders
<1>14. CASE /\ c \in held /\ Ends(c)
            /\ HandOn(waiters, pending, [link EXCEPT !.timeouts = 0], b)
  <2>1. pending = {} /\ held' = {}
    BY <1>1, <1>14, OnlyHolder DEF Ends
  <2>2. [link EXCEPT !.timeouts = 0] \in Links /\ [link EXCEPT !.timeouts = 0].proc = link.proc
    BY <1>2 DEF Links
  <2>3. HandOn(waiters, {}, [link EXCEPT !.timeouts = 0], b)
    BY <1>14, <2>1
  <2> QED
    BY <1>2, <1>5, <1>6, <1>9, <1>11, <1>12, <1>14, <2>1, <2>2, <2>3, HandOnOrders
<1>15. CASE brain' = b /\ UNCHANGED <<busy, waiters, pending, held, link, budget>>
  BY <1>2, <1>6, <1>9, <1>10, <1>12, <1>15 DEF PipeInv
<1> QED
  BY <1>13, <1>14, <1>15 DEF Answer, b

\* A first timeout keeps the turn and changes no pipe; a second one empties
\* them all (noteTimeout).
LEMMA TimeoutOrders ==
  ASSUME BridgeInv, PipeInv, NEW c \in Calls, Timeout(c)
  PROVE  PipeInv'
<1>1. TypeOK /\ OneTurn /\ NoOrphanBrain
  BY DEF BridgeInv
<1>2. brain \in [Procs -> Brains] /\ link \in Links /\ waiters \in Seq(Calls)
  BY <1>1 DEF TypeOK
<1>3. link.proc \in Procs \cup {None} /\ None \notin Procs
  BY <1>2, BridgeAssumption DEF Links, None, Procs
<1>4. c \in pending /\ pending \ {c} = {} /\ held = {} /\ overdue' = overdue
  BY <1>1, OnlyHolder DEF Timeout
<1>5. CASE KeepsTurn(c)
  <2>1. /\ (pending \cup held)' = pending \cup held
        /\ (pending \cup held \cup overdue)' = pending \cup held \cup overdue
        /\ waiters' = waiters
    BY <1>4, <1>5 DEF KeepsTurn
  <2>2. link'.proc = link.proc
    BY <1>2, <1>5 DEF KeepsTurn, Links
  <2>3. \A o \in Procs : brain'[o].pipe = brain[o].pipe /\ brain'[o].state = brain[o].state
    BY <1>2, <1>3, <1>5 DEF KeepsTurn, Missed, Brains
  <2>4. FreshQueue(waiters', brain', (pending \cup held \cup overdue)')
    BY <2>1, <2>3 DEF PipeInv, FreshQueue
  <2>5. OrderedPipes(brain', overdue', (pending \cup held)')
    BY <1>4, <2>1, <2>3 DEF PipeInv, OrderedPipes
  <2>6. LivePipes(link', brain')
    BY <1>3, <2>2, <2>3 DEF PipeInv, LivePipes
  <2> QED
    BY <1>4, <2>1, <2>4, <2>5, <2>6 DEF PipeInv
<1>6. CASE /\ HandOn(waiters, {}, [link EXCEPT !.proc = None, !.timeouts = 0],
                     Detached(brain, link.proc))
           /\ UNCHANGED held
  <2> DEFINE l0 == [link EXCEPT !.proc = None]
             l == [l0 EXCEPT !.timeouts = 0]
             b == Detached(brain, link.proc)
  <2>1. l0 \in Links /\ l0.proc = None
    BY <1>2 DEF Links
  <2> HIDE DEF l0
  <2>2. l \in Links /\ l.proc = None
    BY <2>1 DEF Links
  <2>3. HandOn(waiters, {}, l, b)
    BY <1>6 DEF l0
  <2> HIDE DEF l
  <2>4. b \in [Procs -> Brains] /\ \A o \in Procs : b[o].pipe = <<>>
    BY <1>1, <1>3, PiecesTyped, DetachedIsEmpty
  <2> HIDE DEF b
  <2>5. held' = {}
    BY <1>4, <1>6
  <2>6. FreshQueue(waiters, b, overdue) /\ OrderedPipes(b, overdue, {}) /\ LivePipes(l, b)
    BY <1>2, <2>2, <2>4, EmptyPipes
  <2> QED
    BY <1>2, <1>4, <2>2, <2>3, <2>4, <2>5, <2>6, HandOnOrders
<1> QED
  BY <1>5, <1>6 DEF Timeout

\* A turn whose extra window is over passes on, and its request is abandoned for
\* good (holdTurnForLateAnswer).
LEMMA HoldEndsOrders ==
  ASSUME BridgeInv, PipeInv, NEW c \in Calls, HoldEnds(c)
  PROVE  PipeInv'
<1>1. TypeOK /\ OneTurn
  BY DEF BridgeInv
<1>2. c \in held /\ held = {c} /\ pending = {} /\ held' = {}
  BY <1>1, OnlyHolder DEF HoldEnds, Ends
<1>3. overdue' = overdue \cup {c} /\ HandOn(waiters, {}, link, brain)
  BY <1>2 DEF HoldEnds
<1>4. FreshQueue(waiters, brain, overdue') /\ OrderedPipes(brain, overdue', {})
  BY <1>2, <1>3 DEF PipeInv, FreshQueue, OrderedPipes
<1> QED
  BY <1>1, <1>2, <1>3, <1>4, HandOnOrders DEF PipeInv, TypeOK

\* The end of a process takes its pipe along (handleGone).
LEMMA GoneOrders ==
  ASSUME BridgeInv, PipeInv, NEW p \in Procs, Gone(p)
  PROVE  PipeInv'
<1> DEFINE b == [brain EXCEPT ![p] = NoBrain]
           failed == IF brain[p].state = "absent" THEN Down(link) ELSE link
           l == [failed EXCEPT !.proc = None]
<1>1. TypeOK /\ OneTurn /\ NoOrphanBrain
  BY DEF BridgeInv
<1>2. brain \in [Procs -> Brains] /\ link \in Links /\ waiters \in Seq(Calls)
  BY <1>1 DEF TypeOK
<1>3. b \in [Procs -> Brains] /\ b[p].state = "none" /\ b[p].pipe = <<>>
      /\ \A o \in Procs \ {p} : b[o] = brain[o]
  BY <1>2, NoBrainTyped DEF NoBrain
<1>4. l \in Links /\ l.proc = None
  <2>1. failed \in Links
    BY <1>2, RearmedTyped
  <2> HIDE DEF failed
  <2> QED
    BY <2>1 DEF Links
<1>5. overdue' = overdue
  BY DEF Gone
<1>6. \/ ~ Resident(p) /\ brain' = b /\ UNCHANGED <<busy, waiters, pending, held, link>>
      \/ /\ Resident(p) /\ held' = {}
         /\ HandOn(waiters, {}, l, b)
      \/ /\ Resident(p) /\ held' = {} /\ pending \cup held = {}
         /\ brain' = b /\ link' = l /\ UNCHANGED <<busy, waiters, pending>>
  BY DEF Gone
<1> HIDE DEF b, l
<1>7. CASE ~ Resident(p) /\ brain' = b /\ UNCHANGED <<busy, waiters, pending, held, link>>
  <2>1. \A o \in Procs : b[o].pipe = brain[o].pipe
    BY <1>1, <1>3, <1>7, OthersAreEmpty DEF Resident
  <2>2. LivePipes(link, b)
    <3>1. link.proc # None => b[link.proc] = brain[link.proc]
      BY <1>2, <1>3, <1>7 DEF Resident, Links
    <3>2. \A o \in Procs : b[o].state \in {"none", "killed"} => b[o].pipe = <<>>
      BY <1>3 DEF PipeInv, LivePipes
    <3> QED
      BY <3>1, <3>2 DEF PipeInv, LivePipes
  <2>3. FreshQueue(waiters, b, pending \cup held \cup overdue)
    BY <2>1 DEF PipeInv, FreshQueue
  <2>4. OrderedPipes(b, overdue, pending \cup held)
    BY <2>1 DEF PipeInv, OrderedPipes
  <2> QED
    BY <1>5, <1>7, <2>2, <2>3, <2>4 DEF PipeInv
<1>8. ASSUME Resident(p)
      PROVE  FreshQueue(waiters, b, overdue) /\ OrderedPipes(b, overdue, {}) /\ LivePipes(l, b)
  <2>1. \A o \in Procs : b[o].pipe = <<>>
    BY <1>1, <1>3, <1>8, OthersAreEmpty DEF Resident
  <2> QED
    BY <1>2, <1>3, <1>4, <2>1, EmptyPipes
<1>9. CASE Resident(p) /\ held' = {} /\ HandOn(waiters, {}, l, b)
  BY <1>2, <1>3, <1>4, <1>5, <1>8, <1>9, HandOnOrders
<1>10. CASE /\ Resident(p) /\ held' = {} /\ pending \cup held = {}
            /\ brain' = b /\ link' = l /\ UNCHANGED <<busy, waiters, pending>>
  <2>1. (pending \cup held)' = {} /\ (pending \cup held \cup overdue)' = overdue
    BY <1>5, <1>10
  <2> QED
    BY <1>5, <1>8, <1>10, <2>1 DEF PipeInv
<1> QED
  BY <1>6, <1>7, <1>9, <1>10

\* A shutdown forgets every request (shutdownBrain).
LEMMA ShutdownOrders ==
  ASSUME BridgeInv, PipeInv, Shutdown
  PROVE  PipeInv'
<1> DEFINE l == [link EXCEPT !.proc = None]
           b == Detached(brain, link.proc)
<1>1. TypeOK /\ NoOrphanBrain
  BY DEF BridgeInv
<1>2. link.proc \in Procs \cup {None} /\ l \in Links /\ l.proc = None
  BY <1>1 DEF TypeOK, Links
<1>3. HandOn(<<>>, {}, l, b) /\ held' = {} /\ overdue' = overdue
  BY DEF Shutdown
<1> HIDE DEF l
<1>4. b \in [Procs -> Brains] /\ \A o \in Procs : b[o].pipe = <<>>
  BY <1>1, <1>2, PiecesTyped, DetachedIsEmpty
<1> HIDE DEF b
<1>5. <<>> \in Seq(Calls)
  BY EmptySeq
<1>6. FreshQueue(<<>>, b, overdue) /\ OrderedPipes(b, overdue, {}) /\ LivePipes(l, b)
  BY <1>2, <1>4, <1>5, EmptyPipes
<1> QED
  BY <1>2, <1>3, <1>4, <1>5, <1>6, HandOnOrders

\* Time and faults touch no pipe.
LEMMA EnvironmentOrders ==
  ASSUME BridgeInv, PipeInv, Cooldown \/ WindowEnds \/ \E p \in Procs : Breaks(p)
  PROVE  PipeInv'
<1>1. brain \in [Procs -> Brains] /\ link \in Links
  BY DEF BridgeInv, TypeOK
<1>2. UNCHANGED <<waiters, pending, held, overdue>>
  BY DEF Cooldown, WindowEnds, Breaks
<1>3. link'.proc = link.proc
  BY <1>1 DEF Cooldown, WindowEnds, Breaks, Links
<1>4. \A o \in Procs : /\ brain'[o].pipe = brain[o].pipe
                       /\ brain'[o].state \in {"none", "killed"}
                            <=> brain[o].state \in {"none", "killed"}
  <2>1. CASE UNCHANGED brain
    BY <2>1
  <2>2. CASE \E p \in Procs : Breaks(p)
    BY <1>1, <2>2 DEF Breaks, Well, Brains
  <2> QED
    BY <2>1, <2>2 DEF Cooldown, WindowEnds
<1>5. link.proc # None => link.proc \in Procs
  BY <1>1 DEF Links
<1>6. FreshQueue(waiters, brain', pending \cup held \cup overdue)
  BY <1>4 DEF PipeInv, FreshQueue
<1>7. OrderedPipes(brain', overdue, pending \cup held)
  BY <1>4 DEF PipeInv, OrderedPipes
<1>8. LivePipes(link', brain')
  BY <1>3, <1>4, <1>5 DEF PipeInv, LivePipes
<1> QED
  BY <1>2, <1>6, <1>7, <1>8 DEF PipeInv

-----------------------------------------------------------------------------
\* The theorems.

\* The inductive invariant of the bridge holds throughout.
LEMMA BridgeInvariance == Spec => []BridgeInv
<1>1. Init => BridgeInv
  <2> SUFFICES ASSUME Init PROVE BridgeInv
    OBVIOUS
  <2>1. link \in Links
    BY BridgeAssumption DEF Init, Links
  <2>2. brain \in [Procs -> Brains] /\ \A p \in Procs : brain[p].state = "none"
    BY NoBrainTyped DEF Init, NoBrain
  <2>3. waiters \in Seq(Calls)
    BY EmptySeq DEF Init
  <2>4. busy \in BOOLEAN /\ pending = {} /\ held = {} /\ overdue = {}
        /\ budget \in 0 .. MaxEvents
    <3>1. busy = FALSE /\ pending = {} /\ held = {} /\ overdue = {} /\ budget = MaxEvents
      BY DEF Init
    <3>2. MaxEvents \in 0 .. MaxEvents
      BY BridgeAssumption
    <3> QED
      BY <3>1, <3>2
  <2>5. TypeOK
    BY <2>1, <2>2, <2>3, <2>4 DEF TypeOK
  <2>6. OneTurn /\ NoOrphanBrain
    BY <2>2 DEF Init, OneTurn, NoOrphanBrain
  <2> QED
    BY <2>5, <2>6 DEF BridgeInv
<1>2. BridgeInv /\ [Next]_vars => BridgeInv'
  <2> SUFFICES ASSUME BridgeInv, [Next]_vars PROVE BridgeInv'
    OBVIOUS
  <2>1. CASE UNCHANGED vars
    BY <2>1 DEF vars, BridgeInv, TypeOK, OneTurn, NoOrphanBrain
  <2>2. CASE Next
    BY <2>2, CallStep, WaitExpiresStep, TimeoutStep, HoldEndsStep, AnswerStep,
       GoneStep, ShutdownStep, EnvironmentStep DEF Next
  <2> QED
    BY <2>1, <2>2
<1> QED
  BY <1>1, <1>2, PTL DEF Spec

\* Type correctness: the restart counter stays within MAX_RESTARTS_PER_MIN
\* (ensureProc) and at most one timeout is remembered (noteTimeout).
THEOREM BridgeTyping == Spec => []TypeOK
BY BridgeInvariance, PTL DEF BridgeInv

\* The turn has exactly one owner, however many callers there are: it is
\* released once for every call and nobody waits for a free turn (SingleFlight,
\* callBrain, holdTurnForLateAnswer).
THEOREM TurnHasOneOwner == Spec => []OneTurn
BY BridgeInvariance, PTL DEF BridgeInv

\* No brain process runs on unknown to the bridge, whenever the exits of killed
\* ones arrive (handleGone, noteTimeout, shutdownBrain).
THEOREM NoBrainIsLost == Spec => []NoOrphanBrain
BY BridgeInvariance, PTL DEF BridgeInv
\* The invariant of the pipes holds throughout.
LEMMA PipeInvariance == Spec => []PipeInv
<1>1. Init => PipeInv
  <2> SUFFICES ASSUME Init PROVE PipeInv
    OBVIOUS
  <2>1. /\ waiters = <<>> /\ pending = {} /\ held = {} /\ overdue = {} /\ link.proc = None
        /\ \A p \in Procs : brain[p].state = "none" /\ brain[p].pipe = <<>>
    BY DEF Init, NoBrain
  <2> QED
    BY <2>1 DEF PipeInv, FreshQueue, OrderedPipes, LivePipes
<1>2. BridgeInv /\ PipeInv /\ [Next]_vars => PipeInv'
  <2> SUFFICES ASSUME BridgeInv, PipeInv, [Next]_vars PROVE PipeInv'
    OBVIOUS
  <2>1. CASE UNCHANGED vars
    BY <2>1 DEF vars, PipeInv, FreshQueue, OrderedPipes, LivePipes
  <2>2. CASE Next
    BY <2>2, CallOrders, WaitExpiresOrders, TimeoutOrders, HoldEndsOrders, AnswerOrders,
       GoneOrders, ShutdownOrders, EnvironmentOrders DEF Next
  <2> QED
    BY <2>1, <2>2
<1> QED
  BY <1>1, <1>2, BridgeInvariance, PTL DEF Spec

\* "The next request is never queued in the pipe behind abandoned work": whoever
\* races whom for the turn, ahead of a request in a pipe there are only requests
\* that have timed out and whose extra window has passed as well (callBrain,
\* holdTurnForLateAnswer).
THEOREM NothingWaitsBehindAbandoned == Spec => []NeverBehindAbandoned
<1>1. PipeInv => NeverBehindAbandoned
  <2> SUFFICES ASSUME PipeInv, NEW p \in Procs,
                      NEW i \in 1 .. Len(brain[p].pipe), NEW j \in 1 .. Len(brain[p].pipe),
                      i < j
               PROVE  brain[p].pipe[i] \in overdue
    BY DEF NeverBehindAbandoned
  <2>1. i # Len(brain[p].pipe)
    OBVIOUS
  <2> QED
    BY <2>1 DEF PipeInv, OrderedPipes
<1> QED
  BY <1>1, PipeInvariance, PTL
-----------------------------------------------------------------------------
\* The bridge implements Turns.

\* Releasing a turn gives it to the first in the queue or turns all of them away
\* (SingleFlight.release).
LEMMA HandOnTurns ==
  ASSUME NEW q, NEW rest, NEW l, NEW b, HandOn(q, rest, l, b)
  PROVE  \/ pending' = rest /\ waiters' = <<>>
         \/ q # <<>> /\ pending' = rest \cup {Head(q)} /\ waiters' = Tail(q)
BY DEF HandOn, NobodyNext, Write

\* A step that ends every request, and so the turn, passes the turn on or leaves
\* nobody waiting.
LEMMA TurnPasses ==
  ASSUME pending \cup held # {}, held' = {},
         NEW l, NEW b, HandOn(waiters, {}, l, b)
  PROVE  Turn!Next
<1>1. CASE pending' = {} /\ waiters' = <<>>
  BY <1>1 DEF Turn!Next, Turn!Disperse
<1>2. CASE waiters # <<>> /\ pending' = {} \cup {Head(waiters)} /\ waiters' = Tail(waiters)
  <2>1. pending' \cup held' = {Head(waiters)}
    BY <1>2
  <2> QED
    BY <1>2, <2>1 DEF Turn!Next, Turn!Advance
<1> QED
  BY <1>1, <1>2, HandOnTurns

\* A call that enters takes a free turn, queues up behind the others, or leaves
\* things as they were when it may not start a process (callBrain).
LEMMA CallTurns ==
  ASSUME BridgeInv, NEW c \in Calls, Call(c)
  PROVE  Turn!Next \/ UNCHANGED Turn!turns
<1>1. OneTurn /\ held' = held
  BY DEF BridgeInv, Call
<1>2. c \notin pending \cup held /\ ~ Contains(waiters, c)
  BY DEF Call, Idle
<1>3. CASE ~ busy /\ HandOn(<<c>> \o waiters, pending, link, brain)
  <2>1. pending = {} /\ held = {} /\ waiters = <<>>
    BY <1>1, <1>3 DEF OneTurn
  <2>2. <<c>> \o waiters = <<c>>
    BY <2>1, ConcatEmptySeq
  <2>3. \/ pending' = {} /\ waiters' = <<>>
        \/ pending' = {} \cup {Head(<<c>>)} /\ waiters' = Tail(<<c>>)
    BY <1>3, <2>1, <2>2, HandOnTurns
  <2>4. CASE pending' = {} /\ waiters' = <<>>
    BY <1>1, <2>1, <2>4 DEF Turn!turns
  <2>5. CASE pending' = {} \cup {Head(<<c>>)} /\ waiters' = Tail(<<c>>)
    <3>1. pending' \cup held' = {c} /\ waiters' = waiters
      BY <1>1, <2>1, <2>5
    <3>2. Turn!Arrive(c)
      BY <1>2, <2>1, <3>1 DEF Turn!Arrive, Turn!Contains, Contains
    <3> QED
      BY <3>2 DEF Turn!Next
  <2> QED
    BY <2>3, <2>4, <2>5
<1>4. CASE busy /\ waiters' = InLine(c) /\ UNCHANGED pending
  <2>1. pending \cup held # {}
    BY <1>1, <1>4 DEF OneTurn
  <2>2. Turn!Arrive(c)
    BY <1>1, <1>2, <1>4, <2>1 DEF Turn!Arrive, Turn!Contains, Contains, InLine
  <2> QED
    BY <2>2 DEF Turn!Next
<1> QED
  BY <1>3, <1>4 DEF Call

\* An answer, a timeout, the end of the extra window, an exit and a shutdown end
\* the turn of the one call that has it, or nobody's (noteTimeout, handleGone).
LEMMA EndTurns ==
  ASSUME BridgeInv,
         \/ \E c \in Calls : Timeout(c) \/ HoldEnds(c)
         \/ \E p \in Procs : Answer(p) \/ Gone(p)
         \/ Shutdown
  PROVE  Turn!Next \/ UNCHANGED Turn!turns
<1>1. OneTurn
  BY DEF BridgeInv
<1>2. CASE \E c \in Calls : Timeout(c)
  <2>1. PICK c \in Calls : Timeout(c)
    BY <1>2
  <2>2. c \in pending /\ pending \ {c} = {} /\ held = {}
    BY <1>1, <2>1, OnlyHolder DEF Timeout
  <2>3. CASE KeepsTurn(c)
    <3>1. pending' \cup held' = pending \cup held /\ waiters' = waiters
      BY <2>2, <2>3 DEF KeepsTurn
    <3> QED
      BY <3>1 DEF Turn!turns
  <2>4. CASE /\ UNCHANGED held
             /\ HandOn(waiters, {}, [link EXCEPT !.proc = None, !.timeouts = 0],
                       Detached(brain, link.proc))
    BY <2>2, <2>4, TurnPasses
  <2> QED
    BY <2>1, <2>3, <2>4 DEF Timeout
<1>3. CASE \E c \in Calls : HoldEnds(c)
  <2>1. PICK c \in Calls : HoldEnds(c)
    BY <1>3
  <2>2. c \in held /\ held' = {} /\ pending = {}
    BY <1>1, <2>1, OnlyHolder DEF HoldEnds, Ends
  <2> QED
    BY <2>1, <2>2, TurnPasses DEF HoldEnds
<1>4. CASE \E p \in Procs : Answer(p)
  <2>1. PICK p \in Procs : Answer(p)
    BY <1>4
  <2> DEFINE c == Head(brain[p].pipe)
             b == [brain EXCEPT ![p] = [state |-> "up", pipe |-> Tail(@.pipe), misses |-> 0]]
  <2>2. CASE c \in pending /\ UNCHANGED held /\ \E l : HandOn(waiters, pending \ {c}, l, b)
    <3>1. pending \ {c} = {} /\ held' = {}
      BY <1>1, <2>2, OnlyHolder
    <3> HIDE DEF b
    <3> QED
      BY <2>2, <3>1, TurnPasses
  <2>3. CASE c \in held /\ Ends(c) /\ \E l : HandOn(waiters, pending, l, b)
    <3>1. pending = {} /\ held' = {}
      BY <1>1, <2>3, OnlyHolder DEF Ends
    <3> HIDE DEF b
    <3> QED
      BY <2>3, <3>1, TurnPasses
  <2>4. CASE UNCHANGED <<waiters, pending, held>>
    BY <2>4 DEF Turn!turns
  <2> QED
    BY <2>1, <2>2, <2>3, <2>4 DEF Answer
<1>5. CASE \E p \in Procs : Gone(p)
  <2>1. PICK p \in Procs : Gone(p)
    BY <1>5
  <2>2. \/ UNCHANGED <<waiters, pending, held>>
        \/ /\ held' = {} /\ pending \cup held # {}
           /\ \E l, b : HandOn(waiters, {}, l, b)
        \/ held' = {} /\ pending \cup held = {} /\ UNCHANGED <<waiters, pending>>
    BY <2>1 DEF Gone
  <2>3. CASE UNCHANGED <<waiters, pending, held>>
    BY <2>3 DEF Turn!turns
  <2>4. CASE /\ held' = {} /\ pending \cup held # {}
             /\ \E l, b : HandOn(waiters, {}, l, b)
    BY <2>4, TurnPasses
  <2>5. CASE held' = {} /\ pending \cup held = {} /\ UNCHANGED <<waiters, pending>>
    BY <2>5 DEF Turn!turns
  <2> QED
    BY <2>2, <2>3, <2>4, <2>5
<1>6. CASE Shutdown
  <2>1. held' = {} /\ pending' = {} /\ waiters' = <<>>
    BY <1>6, HandOnTurns DEF Shutdown
  <2>2. CASE pending \cup held = {}
    <3>1. waiters = <<>>
      BY <1>1, <2>2 DEF OneTurn
    <3> QED
      BY <2>1, <2>2, <3>1 DEF Turn!turns
  <2>3. CASE pending \cup held # {}
    BY <2>1, <2>3 DEF Turn!Next, Turn!Disperse
  <2> QED
    BY <2>2, <2>3
<1> QED
  BY <1>2, <1>3, <1>4, <1>5, <1>6

\* The bridge implements Turns: one caller at a time has the turn, in the order
\* in which they came, however the turn before it ended (SingleFlight).
THEOREM TurnsInArrivalOrder == Spec => TakesTurns
<1>1. Init => Turn!Init
  BY DEF Init, Turn!Init
<1>2. BridgeInv /\ [Next]_vars => [Turn!Next]_(Turn!turns)
  <2> SUFFICES ASSUME BridgeInv, [Next]_vars
               PROVE  Turn!Next \/ UNCHANGED Turn!turns
    OBVIOUS
  <2>1. CASE UNCHANGED <<waiters, pending, held>>
    BY <2>1 DEF Turn!turns
  <2>2. CASE \E c \in Calls : WaitExpires(c)
    <3>1. /\ \E i \in 1 .. Len(waiters) : waiters' = RemoveAt(waiters, i)
          /\ UNCHANGED <<pending, held>>
      BY <2>2 DEF WaitExpires
    <3> QED
      BY <3>1 DEF Turn!Next, Turn!Leave, Turn!RemoveAt, RemoveAt
  <2>3. UNCHANGED vars \/ Cooldown \/ WindowEnds \/ (\E p \in Procs : Breaks(p))
          => UNCHANGED <<waiters, pending, held>>
    BY DEF vars, Cooldown, WindowEnds, Breaks
  <2> QED
    BY <2>1, <2>2, <2>3, CallTurns, EndTurns DEF Next
<1> QED
  BY <1>1, <1>2, BridgeInvariance, PTL DEF Spec, TakesTurns, Turn!Spec
=============================================================================
