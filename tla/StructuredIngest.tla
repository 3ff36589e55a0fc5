-------------------------- MODULE StructuredIngest --------------------------
(***************************************************************************)
(* Structured ingest (src/src/lib/admin-worker/structured/): passes walk a *)
(* corpus page by page on a cursor kept in AdminWorkerMemory and publish   *)
(* its entities.  The worker's lane runs passes on the cursor "worker"; an *)
(* operator's sweep runs them on "booster" under a lease; self-maintenance *)
(* rewinds cursors it takes to be past the end.                            *)
(*                                                                         *)
(* A row stands for an entity: a fit one publishes unless the database     *)
(* fails, an unfit one is rejected for what it is and remembered, a dead   *)
(* one (a 404, a mapper that throws) is rejected and not remembered.       *)
(* Times are abstract: a rest, a backoff, a cool-down and a lease hold     *)
(* until a step ends them, which a lease's does at any moment.             *)
(***************************************************************************)
EXTENDS Naturals, FiniteSets

CONSTANTS
  Workers,      \* passes of the worker's lane (a second one runs beside a
                \* first that the lane's watchdog gave up on)
  Sweeps,       \* operator sweeps (runStructuredSweep)
  NoLease,
  Corpus,       \* entities the enumeration lists
  Fit, Unfit,   \* those that publish, and those rejected for what they are
  Batch,        \* structuredBatchFor
  Limit,        \* DEFAULT_STRUCTURED_LIMIT
  BudgetRows,   \* rows that DEFAULT_STRUCTURED_BUDGET_MS is enough for
  StreakLimit,  \* WIKIPEDIA_FAILURE_STREAK_LIMIT
  MaxSkip,      \* MAX_SKIP_PAGES_PER_PASS
  MaxFailures,  \* MAX_CONSECUTIVE_SOURCE_FAILURES
  MaxSweeps,    \* bound: sweeps the operator starts
  MaxFaults     \* bound: outages, crashes, throws, lost reads and writes

Rows == 1 .. Corpus
Page(start) == {r \in Rows : start < r /\ r <= start + Batch}
Dead == Rows \ (Fit \cup Unfit)
Codes == {"entity", "publish_rejected"}   \* of a memo: a verdict on the entity,
                                          \* or on its publish
Passes == Workers \cup Sweeps
Cursors == {"worker", "booster"}
CursorOf(p) == IF p \in Sweeps THEN "booster" ELSE "worker"

ASSUME SizesAreNat ==
  /\ Corpus \in Nat
  /\ {Batch, Limit, BudgetRows, StreakLimit, MaxSkip, MaxFailures} \subseteq Nat \ {0}
  /\ {MaxSweeps, MaxFaults} \subseteq Nat
ASSUME RowsAreDisjoint == Fit \subseteq Rows /\ Unfit \subseteq Rows \ Fit
ASSUME PassesAreDisjoint == Workers \cap Sweeps = {} /\ NoLease \notin Sweeps

VARIABLES
  live,      \* published entities
  memo,      \* code of the rejection an entity waits out (reject-memory.ts)
  cursor,    \* CursorState, per cursor
  cooling,   \* the persisted cool-down of the source (source-cooldown.ts)
  lease,     \* holder of the unexpired ingestor lease (lease.ts)
  pass,      \* what each pass has in memory
  sweep,     \* where each operator sweep stands
  repair,    \* what self-maintenance has in memory, per cursor
  reached,   \* history: rows a pass on this cursor has looked at
  sweepsLeft, faults

vars == <<live, memo, cursor, cooling, lease, pass, sweep, repair, reached,
          sweepsLeft, faults>>
NotRead == Batch + 1   \* lastPageSize before the first page: null

Fresh == [offset |-> 0, resting |-> FALSE, failures |-> 0, lastPage |-> NotRead]
Idle == [pc |-> "idle", at |-> Fresh, known |-> {}, start |-> 0, size |-> 0, due |-> {},
         rejected |-> {}, refused |-> {}, held |-> FALSE, skips |-> 0]
NoRepair == [pc |-> "idle", seen |-> Fresh]

CursorState ==
  [offset : 0 .. Corpus, resting : BOOLEAN, failures : 0 .. MaxFailures,
   lastPage : 0 .. Batch + 1]
PassState ==
  [pc : {"idle", "load", "fetch", "map", "record", "save"}, at : CursorState,
   known : SUBSET Rows, start : 0 .. Corpus, size : 0 .. Batch,
   due : SUBSET Rows, rejected : SUBSET Rows, refused : SUBSET Rows, held : BOOLEAN,
   skips : 0 .. MaxSkip - 1]

TypeOK ==
  /\ live \subseteq Rows
  /\ memo \in [Rows -> Codes \cup {"none"}]
  /\ cursor \in [Cursors -> CursorState]
  /\ cooling \in BOOLEAN
  /\ lease \in Sweeps \cup {NoLease}
  /\ pass \in [Passes -> PassState]
  /\ sweep \in [Sweeps -> {"off", "taking", "looping", "renewing", "ready",
                           "paging", "ending", "releasing"}]
  /\ repair \in [Cursors -> [pc : {"idle", "sensed", "write"}, seen : CursorState]]
  /\ reached \in [Cursors -> SUBSET Rows]
  /\ sweepsLeft \in 0 .. MaxSweeps
  /\ faults \in 0 .. MaxFaults

Init ==
  /\ live = {} /\ memo = [r \in Rows |-> "none"]
  /\ cursor = [c \in Cursors |-> Fresh]
  /\ cooling = FALSE
  /\ lease = NoLease
  /\ pass = [p \in Passes |-> Idle]
  /\ sweep = [b \in Sweeps |-> "off"]
  /\ repair = [c \in Cursors |-> NoRepair]
  /\ reached = [c \in Cursors |-> {}]
  /\ sweepsLeft = MaxSweeps
  /\ faults = MaxFaults

Fault == faults > 0 /\ faults' = faults - 1
Running(p) == pass[p].pc # "idle"

\* A lease that cannot be read counts as none (readIngestorLease).
Free(b) == lease \in {NoLease, b}
ReadsFree(b) == IF Free(b) THEN UNCHANGED faults ELSE Fault

\* A pass of a sweep is over: where its loop goes on.
Returns(p, to) == sweep' = IF p \in Sweeps THEN [sweep EXCEPT ![p] = to] ELSE sweep

-----------------------------------------------------------------------------
(* One pass (runStructuredIngest). *)

\* The cool-down and the lease are looked at first.  The lane starts a second
\* pass only when its watchdog has given up on the first.
WorkerBegin(w) ==
  /\ ~ Running(w)
  /\ ~ cooling
  /\ IF lease = NoLease /\ \A v \in Workers : ~ Running(v)
     THEN UNCHANGED faults ELSE Fault
  /\ pass' = [pass EXCEPT ![w].pc = "load"]
  /\ UNCHANGED <<live, memo, cursor, cooling, lease, sweep, repair, reached,
                 sweepsLeft>>

SweepBegin(b) ==
  /\ sweep[b] = "ready"
  /\ \/ cooling /\ Returns(b, "looping") /\ UNCHANGED <<pass, faults>>
     \/ ~ cooling /\ ~ Free(b) /\ Returns(b, "ending") /\ UNCHANGED <<pass, faults>>
     \/ /\ ~ cooling /\ ReadsFree(b) /\ Returns(b, "paging")
        /\ pass' = [pass EXCEPT ![b].pc = "load"]
  /\ UNCHANGED <<live, memo, cursor, cooling, lease, repair, reached, sweepsLeft>>

\* readCursor and loadLiveIndex, either of which reads as nothing when it fails;
\* a resting cursor ends the pass.
Load(p) ==
  /\ pass[p].pc = "load"
  /\ \E c \in {cursor[CursorOf(p)], Fresh}, known \in {live, {}} :
       /\ IF c = cursor[CursorOf(p)] /\ known = live THEN UNCHANGED faults ELSE Fault
       /\ IF c.resting
          THEN pass' = [pass EXCEPT ![p] = Idle] /\ Returns(p, "ending")
          ELSE /\ pass' = [pass EXCEPT ![p] =
                             [Idle EXCEPT !.pc = "fetch", !.at = c, !.known = known,
                                          !.start = c.offset]]
               /\ UNCHANGED sweep
  /\ UNCHANGED <<live, memo, cursor, cooling, lease, repair, reached, sweepsLeft>>

\* What is left to map of the rows a page came back with.
Waiting == {r \in Rows : memo[r] # "none"}
Due(rows, known, waiting) == rows \ (known \cup waiting)
\* The page's size: what the enumeration listed, whatever was hydrated.
HydratedSize(page, rows) == Cardinality(rows)
PageSize(page, rows) == Cardinality(page)

\* The page at start: stepped past when nothing on it is due, up to MaxSkip
\* pages.  The second query of a two-phase ingestor may leave rows out; memos
\* that cannot be read defer nobody.
Fetch(p) ==
  LET s == pass[p]
      page == Page(s.start)
  IN
  /\ s.pc = "fetch"
  /\ \E rows \in {page} \cup {page \ {r} : r \in page}, waiting \in {Waiting, {}} :
       LET due == Due(rows, s.known, waiting)
           size == PageSize(page, rows)
           nothing == due = {} /\ size = Batch
           last == s.skips + 1 = MaxSkip
       IN
       /\ IF rows = page /\ waiting = Waiting THEN UNCHANGED faults ELSE Fault
       /\ pass' = [pass EXCEPT ![p] =
            IF nothing /\ ~ last
            THEN [s EXCEPT !.start = s.start + size, !.skips = s.skips + 1]
            ELSE [Idle EXCEPT !.pc = IF nothing THEN "record" ELSE "map",
                              !.start = s.start, !.size = size, !.due = due]]
       /\ reached' = [reached EXCEPT ![CursorOf(p)] = @ \cup (page \ due)]
  /\ UNCHANGED <<live, memo, cursor, cooling, lease, sweep, repair, sweepsLeft>>

\* The source does not answer: the cursor is left where the last page put it,
\* and after MaxFailures such passes in a row the ingestor is left alone.
SourceFails(p) ==
  LET s == pass[p]
      n == IF s.at.failures < MaxFailures THEN s.at.failures + 1 ELSE MaxFailures
  IN
  /\ s.pc = "fetch"
  /\ Fault
  /\ cursor' \in
       {cursor,   \* the write fails too
        [cursor EXCEPT ![CursorOf(p)] =
           [s.at EXCEPT !.offset = s.start, !.failures = n,
                        !.resting = n = MaxFailures]]}
  /\ cooling' \in {cooling, TRUE}
  /\ pass' = [pass EXCEPT ![p] = Idle]
  /\ Returns(p, "looping")
  /\ UNCHANGED <<live, memo, lease, repair, reached, sweepsLeft>>

\* A fit row whose sources were read is handed to the publish orchestrator.  It
\* is refused as a duplicate when it is live, and when the database fails:
\* the orchestrator answers that, too, as a blocked publish, or throws.
Offered(done, unread) == (done \cap Fit) \ unread
Publishes(done, unread, failed) == Offered(done, unread) \ (live \cup failed)
Refused(done, unread, failed, thrown) ==
  (Offered(done, unread) \cap (live \cup failed)) \ thrown

\* The rejections that describe the entity; one that rests on an unanswered read
\* is source_read_failed, which is not remembered.
RemembersUnread(done, unread) == done \cap (Unfit \cup unread)
Remembered(done, unread) == (done \cap Unfit) \ unread

\* The row loop stops before a row once it has published its limit (a sweep's is
\* the page) or StreakLimit rows in a row were rejected with a source read unanswered.
Below(S, r) == {q \in S : q < r}
Above(S, r) == {q \in S : q > r}
LimitOf(p) == IF p \in Sweeps THEN Batch ELSE Limit
Full(p, done, unread, failed) ==
  Cardinality(Publishes(done, unread, failed)) >= LimitOf(p)
Outage(done, unread) ==
  \E r \in done : LET tail == {r} \cup Above(done, r)
                  IN Cardinality(tail) = StreakLimit /\ tail \subseteq unread
Stops(p, done, unread, failed) == Full(p, done, unread, failed) \/ Outage(done, unread)

\* Maps and publishes the due rows in order until the loop stops, or the
\* budget does; what is left then holds the page.
MapPage(p) ==
  LET s == pass[p] IN
  /\ s.pc = "map"
  /\ \E done \in {s.due} \cup {Below(s.due, r) : r \in s.due} :
     \E unread \in SUBSET done :
     \E failed \in SUBSET Offered(done, unread) :
     \E thrown \in SUBSET failed :
       /\ IF unread \cup failed = {} THEN UNCHANGED faults ELSE Fault
       /\ \A r \in done : ~ Stops(p, Below(done, r), unread, failed)
       /\ \/ done = s.due
          \/ Stops(p, done, unread, failed)
          \/ Cardinality(done) >= BudgetRows
       /\ live' = live \cup Publishes(done, unread, failed)
       /\ pass' = [pass EXCEPT ![p].pc = "record", ![p].held = done # s.due,
                               ![p].rejected = Remembered(done, unread),
                               ![p].refused = Refused(done, unread, failed, thrown)]
       /\ reached' = [reached EXCEPT ![CursorOf(p)] = @ \cup done]
  /\ UNCHANGED <<memo, cursor, cooling, lease, sweep, repair, sweepsLeft>>

\* recordRejectionOutcomes, the publish_rejected among them (it is no transient
\* code); a failed write is swallowed.
Record(p) ==
  LET s == pass[p] IN
  /\ s.pc = "record"
  /\ \/ /\ memo' = [r \in Rows |-> IF r \in s.rejected THEN "entity"
                                 ELSE IF r \in s.refused THEN "publish_rejected"
                                 ELSE memo[r]]
        /\ UNCHANGED faults
     \/ s.rejected \cup s.refused # {} /\ Fault /\ UNCHANGED memo
  /\ pass' = [pass EXCEPT ![p].pc = "save", ![p].rejected = {}, ![p].refused = {},
                          ![p].due = {}]
  /\ UNCHANGED <<live, cursor, cooling, lease, sweep, repair, reached, sweepsLeft>>

\* Where the cursor goes: a held page is kept, a short page is the end.
EndOfCorpus(s) == ~ s.held /\ s.size < Batch
StepsOverHeld(s) == IF s.size < Batch THEN 0 ELSE s.start + s.size
AddsBatch(s) == IF s.held THEN s.start ELSE s.start + Batch
StaysAtEnd(s) == IF s.held \/ s.size < Batch THEN s.start ELSE s.start + s.size
NextOffset(s) == IF s.held THEN s.start
                 ELSE IF s.size < Batch THEN 0 ELSE s.start + s.size
Save(p) ==
  LET s == pass[p] IN
  /\ s.pc = "save"
  /\ \/ /\ cursor' = [cursor EXCEPT ![CursorOf(p)] =
                        [offset |-> NextOffset(s), resting |-> EndOfCorpus(s),
                         failures |-> 0, lastPage |-> s.size]]
        /\ UNCHANGED faults
     \/ Fault /\ UNCHANGED cursor
  /\ pass' = [pass EXCEPT ![p] = Idle]
  /\ Returns(p, IF EndOfCorpus(s) THEN "ending" ELSE "looping")
  /\ UNCHANGED <<live, memo, cooling, lease, repair, reached, sweepsLeft>>

PassStep(p) ==
  Load(p) \/ Fetch(p) \/ SourceFails(p) \/ MapPage(p) \/ Record(p) \/ Save(p)

-----------------------------------------------------------------------------
(* The operator's sweep (runStructuredSweep) and its lease (lease.ts): a     *)
(* read, then an upsert; renewed before every page, released at the end.     *)

Take(b) ==
  /\ sweep[b] = "off" /\ sweepsLeft > 0
  /\ ReadsFree(b)
  /\ sweep' = [sweep EXCEPT ![b] = "taking"]
  /\ sweepsLeft' = sweepsLeft - 1
  /\ UNCHANGED <<live, memo, cursor, cooling, lease, pass, repair, reached>>

\* The lease is written, and the cursor rewound (--restart) or woken (--wake);
\* one step, as nobody else acts on that cursor but self-maintenance.
Taken(b) ==
  /\ sweep[b] = "taking"
  /\ lease' = b
  /\ cursor' \in
       {cursor,
        [cursor EXCEPT !["booster"] = Fresh],
        [cursor EXCEPT !["booster"].resting = FALSE, !["booster"].failures = 0]}
  /\ sweep' = [sweep EXCEPT ![b] = "looping"]
  /\ UNCHANGED <<live, memo, cooling, pass, repair, reached, sweepsLeft, faults>>

\* Between pages: the operator may stop it, and a lost lease does.
Loop(b) ==
  /\ sweep[b] = "looping"
  /\ \/ ReadsFree(b) /\ sweep' = [sweep EXCEPT ![b] = "renewing"]
     \/ sweep' = [sweep EXCEPT ![b] = "ending"] /\ UNCHANGED faults
  /\ UNCHANGED <<live, memo, cursor, cooling, lease, pass, repair, reached, sweepsLeft>>

Renewed(b) ==
  /\ sweep[b] = "renewing"
  /\ lease' = b
  /\ sweep' = [sweep EXCEPT ![b] = "ready"]
  /\ UNCHANGED <<live, memo, cursor, cooling, pass, repair, reached,
                 sweepsLeft, faults>>

\* releaseIngestorLease: another's lease is left alone.
End(b) ==
  /\ sweep[b] = "ending"
  /\ \/ ReadsFree(b) /\ sweep' = [sweep EXCEPT ![b] = "releasing"]
     \/ ~ Free(b) /\ sweep' = [sweep EXCEPT ![b] = "off"] /\ UNCHANGED faults
  /\ UNCHANGED <<live, memo, cursor, cooling, lease, pass, repair, reached, sweepsLeft>>

Released(b) ==
  /\ sweep[b] = "releasing"
  /\ lease' = NoLease
  /\ sweep' = [sweep EXCEPT ![b] = "off"]
  /\ UNCHANGED <<live, memo, cursor, cooling, pass, repair, reached,
                 sweepsLeft, faults>>

SweepStep(b) ==
  Taken(b) \/ Loop(b) \/ Renewed(b) \/ SweepBegin(b) \/ End(b) \/ Released(b)

-----------------------------------------------------------------------------
(* Self-maintenance: sense, then later read again and rewind. *)

AnyOffset(c) == ~ c.resting /\ c.offset > 0
StaleCursor(c) == ~ c.resting /\ c.offset > 0 /\ c.lastPage = 0

Sense(c) ==
  /\ repair[c].pc = "idle"
  /\ StaleCursor(cursor[c])
  /\ repair' = [repair EXCEPT ![c].pc = "sensed"]
  /\ UNCHANGED <<live, memo, cursor, cooling, lease, pass, sweep, reached,
                 sweepsLeft, faults>>

\* A cursor that cannot be read reads as an empty one.
RepairRead(c) ==
  /\ repair[c].pc = "sensed"
  /\ \E seen \in {cursor[c], Fresh} :
       /\ IF seen = cursor[c] THEN UNCHANGED faults ELSE Fault
       /\ repair' = [repair EXCEPT ![c] =
            IF seen.resting THEN NoRepair ELSE [pc |-> "write", seen |-> seen]]
  /\ UNCHANGED <<live, memo, cursor, cooling, lease, pass, sweep, reached, sweepsLeft>>

RepairWrite(c) ==
  /\ repair[c].pc = "write"
  /\ cursor' = [cursor EXCEPT ![c] = [repair[c].seen EXCEPT !.offset = 0]]
  /\ repair' = [repair EXCEPT ![c] = NoRepair]
  /\ UNCHANGED <<live, memo, cooling, lease, pass, sweep, reached,
                 sweepsLeft, faults>>

-----------------------------------------------------------------------------
(* Time and failures. *)

RestEnds(c) ==
  /\ cursor[c].resting
  /\ cursor' = [cursor EXCEPT ![c].resting = FALSE]
  /\ UNCHANGED <<live, memo, cooling, lease, pass, sweep, repair, reached,
                 sweepsLeft, faults>>

\* A backoff (a day and more) outlasts the passes over one page: it is taken
\* to end in a rest.
BackoffEnds(r) ==
  /\ r \in Waiting
  /\ cursor["worker"].resting
  /\ memo' = [memo EXCEPT ![r] = "none"]
  /\ UNCHANGED <<live, cursor, cooling, lease, pass, sweep, repair, reached,
                 sweepsLeft, faults>>

CoolDownEnds ==
  /\ cooling
  /\ cooling' = FALSE
  /\ UNCHANGED <<live, memo, cursor, lease, pass, sweep, repair, reached,
                 sweepsLeft, faults>>

\* A lease is good until its time (pageBudgetMs + LEASE_MARGIN_MS), whoever is
\* still at work: it is renewed at the top of the loop only (Loop, Renewed), and
\* a page, or the wait for a source that follows it, may take longer.
LeaseExpires ==
  /\ lease # NoLease
  /\ lease' = NoLease
  /\ UNCHANGED <<live, memo, cursor, cooling, pass, sweep, repair, reached,
                 sweepsLeft, faults>>

\* The process ends, or the pass throws; a sweep that throws lets go of its
\* lease.
Breaks(p) ==
  /\ Fault
  /\ IF p \in Sweeps THEN sweep[p] # "off" ELSE Running(p)
  /\ pass' = [pass EXCEPT ![p] = Idle]
  /\ \/ Returns(p, "off")
     \/ p \in Sweeps /\ sweep[p] \in {"renewing", "paging"} /\ Returns(p, "ending")
  /\ UNCHANGED <<live, memo, cursor, cooling, lease, repair, reached, sweepsLeft>>

Next ==
  \/ \E p \in Passes : PassStep(p) \/ Breaks(p)
  \/ \E w \in Workers : WorkerBegin(w)
  \/ \E b \in Sweeps : Take(b) \/ SweepStep(b)
  \/ \E c \in Cursors : Sense(c) \/ RepairRead(c) \/ RepairWrite(c) \/ RestEnds(c)
  \/ \E r \in Rows : BackoffEnds(r)
  \/ CoolDownEnds \/ LeaseExpires

Spec == Init /\ [][Next]_vars

(***************************************************************************)
(* Fairness: the lane comes back to every ingestor (the maintenance floor  *)
(* of pickIngestor), a pass and a sweep that run go on, times run out.     *)
(* Sweeps started, crashes and outages are left to chance and are finite.  *)
(***************************************************************************)
Fairness ==
  /\ \A w \in Workers : WF_vars(WorkerBegin(w) /\ faults' = faults)
  /\ \A p \in Passes : WF_vars(PassStep(p))
  /\ \A b \in Sweeps : WF_vars(SweepStep(b))
  /\ \A c \in Cursors : WF_vars(RestEnds(c))
  /\ \A r \in Rows : SF_vars(BackoffEnds(r))
  /\ WF_vars(CoolDownEnds) /\ WF_vars(LeaseExpires)

FairSpec == Spec /\ Fairness

-----------------------------------------------------------------------------
(* Safety *)

\* No entity falls between two pages: every row before a cursor's offset has
\* been looked at by a pass on that cursor (it was live, waiting out a backoff,
\* left out by the source itself, or mapped), whatever page was held, skipped
\* or failed, and whoever rewound the cursor meanwhile (runStructuredIngest).
NothingSteppedOver ==
  \A c \in Cursors : 1 .. cursor[c].offset \subseteq reached[c]

\* A cursor goes to rest as swept (not as unusable) only when the whole corpus
\* has been looked at: a page cut short by its second query is no end.
SweptIsReached ==
  \A c \in Cursors :
    cursor[c].resting /\ cursor[c].failures = 0 => reached[c] = Rows

\* A source outage is not held against an entity: what a memo says of one is
\* true of it, through the page, the memory and the next sweep.  An entity judged
\* for what it is is unfit, whatever reads went unanswered, and one whose publish
\* was refused had all it takes to be published (mapSourceRowDetailed,
\* recordRejectionOutcomes).
MemosAreTrue ==
  \A r \in Rows : /\ memo[r] = "entity" => r \in Unfit
                  /\ memo[r] = "publish_rejected" => r \in Fit

\* An outage, of a source or of the database, defers nobody: only an entity that
\* is rejected for what it is, or is published already, waits out a backoff
\* ("codes that say nothing about the entity are NOT remembered",
\* reject-memory.ts).  The code does not keep this: a publish that the database
\* failed is remembered like a verdict (publishStructuredEntry).
OutageDefersNobody == Waiting \subseteq Unfit \cup live

\* While a sweep is at work, from its lease to its release, the worker's lane
\* begins no pass on the corpus but by failing to read the lease ("a lease-aware
\* worker step[s] aside while the sweep runs", sweep.ts).  The code does not keep
\* this: a lease may run out under a sweep that goes on (runStructuredSweep).
SweepWorksAlone ==
  [][\A w \in Workers, b \in Sweeps :
       WorkerBegin(w) => sweep[b] \in {"off", "taking"} \/ lease # NoLease]_vars

-----------------------------------------------------------------------------
(* Liveness *)

\* The worker "never stalls": every fit entity is published in the end.  The code
\* does not keep this by itself: dead rows, which no memory defers, are mapped
\* again in every pass, and may use up its budget before it gets to a fit one.
NeverStalls == \A r \in Fit : <>(r \in live)

\* A budget that gets past the dead rows of every page.
BudgetReaches ==
  \A k \in 0 .. Corpus : \A r \in Page(k * Batch) \ Dead :
    Cardinality(Page(k * Batch) \cap Dead \cap Below(Rows, r)) < BudgetRows

\* With such a budget every fit entity is published in the end, in spite of held
\* pages, outages, refused publishes, an unusable source, a crashed sweep's lease
\* and a self-maintenance that rewinds cursors (runStructuredIngest).
EveryFitIsPublished == BudgetReaches => NeverStalls

\* A rejection is never for good: a remembered entity is mapped again and again
\* ("a shipped fix must reach every remembered entity", reject-memory.ts).
RejectionsAreRetested ==
  BudgetReaches =>
    \A r \in Unfit : []<>(\E p \in Passes : pass[p].pc = "map" /\ r \in pass[p].due)
=============================================================================
