----------------------- MODULE StructuredIngestProofs -----------------------
(***************************************************************************)
(* What TLAPS proves of StructuredIngest for every corpus, page size,      *)
(* limit and number of passes and sweeps: its types, that no cursor steps  *)
(* over a row, that a cursor rests as swept only once the whole corpus has *)
(* been looked at, and that a memo says what is true of its entity.        *)
(***************************************************************************)
EXTENDS StructuredIngest, FiniteSetTheorems, TLAPS

(* The sizes, one by one.                                                  *)
LEMMA Sizes ==
  /\ Corpus \in Nat /\ Batch \in Nat \ {0} /\ MaxSkip \in Nat \ {0}
  /\ MaxFailures \in Nat \ {0} /\ MaxSweeps \in Nat /\ MaxFaults \in Nat
BY SizesAreNat

(* A page starts behind the start it is asked for, is full unless the      *)
(* corpus ends, and ends it when it is short.                              *)
LEMMA PageShape ==
  ASSUME NEW start \in 0 .. Corpus
  PROVE  /\ Page(start) \subseteq Rows
         /\ Cardinality(Page(start)) \in 0 .. Batch
         /\ start + Cardinality(Page(start)) \in 0 .. Corpus
         /\ 1 .. start + Cardinality(Page(start)) = (1 .. start) \cup Page(start)
         /\ Cardinality(Page(start)) < Batch => Rows = (1 .. start) \cup Page(start)
<1> DEFINE end == IF start + Batch <= Corpus THEN start + Batch ELSE Corpus
<1>1. /\ start \in Nat /\ start <= Corpus /\ end \in Nat /\ start <= end
      /\ end <= Corpus /\ end <= start + Batch
      /\ end < start + Batch => end = Corpus
  BY Sizes
<1>2. Page(start) = (start + 1) .. end
  BY <1>1, Sizes DEF Page, Rows
<1>3. Cardinality(Page(start)) = end - start
  <2>1. start + 1 \in Int /\ end \in Int
    BY <1>1
  <2>2. Cardinality((start + 1) .. end) =
          IF start + 1 > end THEN 0 ELSE end - (start + 1) + 1
    BY <2>1, FS_Interval
  <2> HIDE DEF end
  <2> QED BY <1>1, <1>2, <2>2
<1> HIDE DEF end
<1>4. Page(start) \subseteq Rows /\ 1 .. end = (1 .. start) \cup Page(start)
  BY <1>1, <1>2, Sizes DEF Rows
<1>5. end - start < Batch => Rows = (1 .. start) \cup Page(start)
  BY <1>1, <1>4, Sizes DEF Rows
<1>6. start + (end - start) = end /\ end - start \in 0 .. Batch /\ end \in 0 .. Corpus
  BY <1>1, Sizes
<1> QED BY <1>3, <1>4, <1>5, <1>6

(***************************************************************************)
(* What a pass has in memory is true of what has been looked at.           *)
(***************************************************************************)
Judged(p) == reached[CursorOf(p)]

PassKnows(p) ==
  LET s == pass[p] IN
  /\ s.rejected \subseteq Unfit /\ s.refused \subseteq Fit
  /\ s.pc \in {"fetch", "map", "record", "save"} => 1 .. s.start \subseteq Judged(p)
  /\ s.pc = "map" => Page(s.start) \subseteq Judged(p) \cup s.due
  /\ s.pc \in {"map", "record", "save"} => s.size = Cardinality(Page(s.start))
  /\ s.pc \in {"record", "save"} /\ ~ s.held => Page(s.start) \subseteq Judged(p)

RepairKnows(c) == repair[c].pc = "write" => ~ repair[c].seen.resting

IngestInv ==
  /\ TypeOK
  /\ NothingSteppedOver
  /\ SweptIsReached
  /\ MemosAreTrue
  /\ \A p \in Passes : PassKnows(p)
  /\ \A c \in Cursors : RepairKnows(c)

LEMMA InitInv == Init => IngestInv
<1> SUFFICES ASSUME Init PROVE IngestInv
  OBVIOUS
<1>1. Fresh \in CursorState /\ Idle \in PassState
  BY Sizes DEF Fresh, Idle, CursorState, PassState, NotRead
<1>2. TypeOK
  <2>1. NoRepair \in [pc : {"idle", "sensed", "write"}, seen : CursorState]
    BY <1>1 DEF NoRepair
  <2>2. /\ cursor \in [Cursors -> CursorState] /\ pass \in [Passes -> PassState]
        /\ repair \in [Cursors -> [pc : {"idle", "sensed", "write"}, seen : CursorState]]
    BY <1>1, <2>1 DEF Init
  <2>3. /\ live \subseteq Rows /\ memo \in [Rows -> Codes \cup {"none"}]
        /\ cooling \in BOOLEAN /\ lease \in Sweeps \cup {NoLease}
    BY DEF Init
  <2>6. sweepsLeft \in 0 .. MaxSweeps /\ faults \in 0 .. MaxFaults
    <3>1. sweepsLeft = MaxSweeps /\ faults = MaxFaults
      BY DEF Init
    <3> QED BY <3>1, Sizes
  <2>5. reached \in [Cursors -> SUBSET Rows]
    BY DEF Init
  <2>4. sweep \in [Sweeps -> {"off", "taking", "looping", "renewing", "ready",
                             "paging", "ending", "releasing"}]
    BY DEF Init
  <2> QED BY <2>2, <2>3, <2>4, <2>5, <2>6 DEF TypeOK
<1>3. NothingSteppedOver /\ SweptIsReached /\ MemosAreTrue
  BY DEF Init, NothingSteppedOver, SweptIsReached, MemosAreTrue, Fresh
<1>4. \A p \in Passes : PassKnows(p)
  BY DEF Init, PassKnows, Idle
<1>5. \A c \in Cursors : RepairKnows(c)
  BY DEF Init, RepairKnows, NoRepair
<1> QED BY <1>2, <1>3, <1>4, <1>5 DEF IngestInv

(***************************************************************************)
(* One step.  A fault stays within its bound, a sweep keeps its type, and  *)
(* the passes and cursors that a step leaves alone keep what they know,    *)
(* because no step forgets a row that has been looked at.                  *)
(***************************************************************************)
Stages == {"off", "taking", "looping", "renewing", "ready", "paging", "ending", "releasing"}

LEMMA FaultTypes ==
  ASSUME TypeOK, Fault
  PROVE  faults' \in 0 .. MaxFaults
BY Sizes DEF TypeOK, Fault

LEMMA ReturnsTypes ==
  ASSUME TypeOK, NEW p, NEW to \in Stages, Returns(p, to)
  PROVE  sweep' \in [Sweeps -> Stages]
BY DEF TypeOK, Returns, Stages

Monotone == \A c \in Cursors : reached[c] \subseteq reached'[c]

LEMMA CursorOfTypes == \A p : CursorOf(p) \in Cursors
BY DEF CursorOf, Cursors

LEMMA OthersKnow ==
  ASSUME TypeOK, NEW p \in Passes, NEW v, pass' = [pass EXCEPT ![p] = v], Monotone,
         NEW q \in Passes, q # p, PassKnows(q)
  PROVE  PassKnows(q)'
<1>1. pass'[q] = pass[q]
  BY DEF TypeOK
<1>2. Judged(q) \subseteq Judged(q)'
  BY CursorOfTypes DEF Judged, Monotone
<1> QED BY <1>1, <1>2 DEF PassKnows

LEMMA IdleKnows ==
  ASSUME NEW p \in Passes, pass'[p] = Idle
  PROVE  PassKnows(p)'
BY DEF PassKnows, Idle

(* A step that only rewrites one cursor, to a state that is itself right.  *)
Right(c, v) ==
  /\ v \in CursorState
  /\ 1 .. v.offset \subseteq reached[c]
  /\ v.resting /\ v.failures = 0 => reached[c] = Rows

LEMMA CursorsRight ==
  ASSUME TypeOK, NothingSteppedOver, SweptIsReached, UNCHANGED reached,
         NEW c \in Cursors, NEW v, Right(c, v), cursor' = [cursor EXCEPT ![c] = v]
  PROVE  cursor' \in [Cursors -> CursorState] /\ NothingSteppedOver' /\ SweptIsReached'
<1>1. cursor' \in [Cursors -> CursorState]
  BY DEF TypeOK, Right
<1>2. \A d \in Cursors : cursor'[d] = IF d = c THEN v ELSE cursor[d]
  BY DEF TypeOK
<1>3. NothingSteppedOver'
  BY <1>2 DEF NothingSteppedOver, Right
<1>4. SweptIsReached'
  BY <1>2 DEF SweptIsReached, Right
<1> QED BY <1>1, <1>3, <1>4

(* Cursors nobody touches stay right.                                      *)
LEMMA CursorsKept ==
  ASSUME TypeOK, TypeOK', NothingSteppedOver, SweptIsReached, UNCHANGED cursor, Monotone
  PROVE  NothingSteppedOver' /\ SweptIsReached'
<1>1. \A c \in Cursors : reached'[c] \subseteq Rows
  BY DEF TypeOK
<1>2. NothingSteppedOver'
  BY DEF NothingSteppedOver, Monotone
<1>3. SweptIsReached'
  BY <1>1 DEF SweptIsReached, Monotone
<1> QED BY <1>2, <1>3

LEMMA Starts ==
  ASSUME IngestInv, NEW p \in Passes, WorkerBegin(p) \/ SweepBegin(p) \/ Load(p)
  PROVE  IngestInv'
<1>0. TypeOK /\ Monotone
  BY DEF IngestInv, WorkerBegin, SweepBegin, Load, Monotone
<1>1. pass[p] \in PassState /\ cursor[CursorOf(p)] \in CursorState
  BY <1>0, CursorOfTypes DEF TypeOK
<1>2. CASE UNCHANGED pass /\ SweepBegin(p)
  <2>1. sweep' \in [Sweeps -> Stages]
    BY <1>0, <1>2, ReturnsTypes DEF SweepBegin, Stages
  <2>2. TypeOK'
    BY <1>0, <1>2, <2>1, FaultTypes DEF TypeOK, Stages, SweepBegin, ReadsFree
  <2>3. NothingSteppedOver' /\ SweptIsReached' /\ MemosAreTrue'
    BY <1>0, <1>2, <2>2, CursorsKept DEF IngestInv, SweepBegin, MemosAreTrue
  <2>4. \A q \in Passes : PassKnows(q)'
    BY <1>2 DEF IngestInv, SweepBegin, PassKnows, Judged
  <2>5. \A c \in Cursors : RepairKnows(c)'
    BY <1>2 DEF IngestInv, SweepBegin, RepairKnows
  <2> QED BY <2>2, <2>3, <2>4, <2>5 DEF IngestInv
<1>3. ASSUME NEW v \in PassState, pass' = [pass EXCEPT ![p] = v],
             v.rejected \subseteq Unfit, v.refused \subseteq Fit,
             v.pc \in {"idle", "load"}
                \/ (v.pc = "fetch" /\ v.start \in {0, cursor[CursorOf(p)].offset})
      PROVE  IngestInv'
  <2>1. sweep' \in [Sweeps -> Stages]
    BY <1>0, ReturnsTypes DEF WorkerBegin, SweepBegin, Load, TypeOK, Stages
  <2>2. TypeOK'
    <3>1. pass' \in [Passes -> PassState]
      BY <1>0, <1>3 DEF TypeOK
    <3>2. faults' \in 0 .. MaxFaults
      BY <1>0, FaultTypes DEF TypeOK, WorkerBegin, SweepBegin, Load, ReadsFree
    <3> QED BY <1>0, <2>1, <3>1, <3>2 DEF TypeOK, Stages, WorkerBegin, SweepBegin, Load
  <2>3. NothingSteppedOver' /\ SweptIsReached' /\ MemosAreTrue'
    BY <1>0, <2>2, CursorsKept
       DEF IngestInv, WorkerBegin, SweepBegin, Load, MemosAreTrue
  <2>4. PassKnows(p)'
    <3>1. pass'[p] = v
      BY <1>0, <1>3 DEF TypeOK
    <3>2. 1 .. cursor[CursorOf(p)].offset \subseteq Judged(p)' /\ 1 .. 0 = {}
      BY <1>0, CursorOfTypes DEF IngestInv, NothingSteppedOver, Monotone, Judged
    <3> QED BY <1>3, <3>1, <3>2 DEF PassKnows
  <2>5. \A q \in Passes : PassKnows(q)'
    BY <1>0, <1>3, <2>4, OthersKnow DEF IngestInv
  <2>6. \A c \in Cursors : RepairKnows(c)'
    BY DEF IngestInv, WorkerBegin, SweepBegin, Load, RepairKnows
  <2> QED BY <2>2, <2>3, <2>5, <2>6 DEF IngestInv
<1>4. CASE WorkerBegin(p) \/ (SweepBegin(p) /\ ~ UNCHANGED pass)
  <2> DEFINE v == [pass[p] EXCEPT !.pc = "load"]
  <2>1. pass' = [pass EXCEPT ![p] = v]
    BY <1>4 DEF WorkerBegin, SweepBegin
  <2>2. /\ v \in PassState /\ v.pc = "load" /\ v.rejected = pass[p].rejected
        /\ v.refused = pass[p].refused
    BY <1>1 DEF PassState
  <2> HIDE DEF v
  <2> QED BY <1>3, <2>1, <2>2 DEF IngestInv, PassKnows
<1>5. CASE Load(p)
  <2>1. Idle \in PassState /\ Idle.pc = "idle" /\ Idle.rejected = {} /\ Idle.refused = {}
    BY Sizes DEF Idle, Fresh, CursorState, PassState, NotRead
  <2>2. Fresh \in CursorState /\ Fresh.offset = 0
    BY Sizes DEF Fresh, CursorState, NotRead
  <2> PICK c \in {cursor[CursorOf(p)], Fresh}, known \in {live, {}} :
        \/ pass' = [pass EXCEPT ![p] = Idle]
        \/ pass' = [pass EXCEPT ![p] = [Idle EXCEPT !.pc = "fetch", !.at = c,
                                         !.known = known, !.start = c.offset]]
    BY <1>5 DEF Load
  <2> DEFINE v == [Idle EXCEPT !.pc = "fetch", !.at = c, !.known = known, !.start = c.offset]
  <2>3. c \in CursorState /\ known \subseteq Rows
    BY <1>0, <1>1, <2>2 DEF TypeOK
  <2>4. /\ v \in PassState /\ v.pc = "fetch" /\ v.rejected = {} /\ v.refused = {}
        /\ v.start = c.offset
    BY <2>1, <2>3 DEF PassState, CursorState, Idle
  <2>5. c.offset \in {0, cursor[CursorOf(p)].offset}
    BY <2>2
  <2>6. pass' = [pass EXCEPT ![p] = Idle] \/ pass' = [pass EXCEPT ![p] = v]
    OBVIOUS
  <2> HIDE DEF v
  <2>7. CASE pass' = [pass EXCEPT ![p] = Idle]
    BY <1>3, <2>1, <2>7
  <2>8. CASE pass' = [pass EXCEPT ![p] = v]
    BY <1>3, <2>4, <2>5, <2>8
  <2> QED BY <2>6, <2>7, <2>8
<1> QED BY <1>2, <1>4, <1>5

LEMMA Fetches ==
  ASSUME IngestInv, NEW p \in Passes, Fetch(p)
  PROVE  IngestInv'
<1> DEFINE s == pass[p]
           page == Page(s.start)
<1>0. TypeOK /\ s \in PassState /\ s.pc = "fetch" /\ CursorOf(p) \in Cursors
  BY CursorOfTypes DEF IngestInv, TypeOK, Fetch
<1>1. s.start \in 0 .. Corpus /\ s.skips \in 0 .. MaxSkip - 1
  BY <1>0 DEF PassState
<1> PICK rows \in {page} \cup {page \ {r} : r \in page}, waiting \in {Waiting, {}} :
      LET due == Due(rows, s.known, waiting)
          size == PageSize(page, rows)
          nothing == due = {} /\ size = Batch
          last == s.skips + 1 = MaxSkip
      IN
      /\ IF rows = page /\ waiting = Waiting THEN UNCHANGED faults ELSE Fault
      /\ pass' = [pass EXCEPT ![p] =
           IF nothing /\ ~ last
           THEN [s EXCEPT !.start = s.start + size, !.skips = s.skips + 1]
           ELSE [Idle EXCEPT !.pc = IF nothing THEN "record" ELSE "map",
                             !.start = s.start, !.size = size, !.due = due]]
      /\ reached' = [reached EXCEPT ![CursorOf(p)] = @ \cup (page \ due)]
  BY DEF Fetch
<1> DEFINE due == Due(rows, s.known, waiting)
           size == Cardinality(page)
           skip == [s EXCEPT !.start = s.start + size, !.skips = s.skips + 1]
           stop == [Idle EXCEPT !.pc = "record", !.start = s.start, !.size = size, !.due = due]
           map == [Idle EXCEPT !.pc = "map", !.start = s.start, !.size = size, !.due = due]
<1>2. /\ page \subseteq Rows /\ size \in 0 .. Batch /\ s.start + size \in 0 .. Corpus
      /\ 1 .. s.start + size = (1 .. s.start) \cup page
  BY <1>1, PageShape
<1>3. rows \subseteq page /\ due \subseteq page
  BY DEF Due
<1>4. \/ pass' = [pass EXCEPT ![p] = skip] /\ due = {} /\ s.skips + 1 # MaxSkip
      \/ pass' = [pass EXCEPT ![p] = stop] /\ due = {}
      \/ pass' = [pass EXCEPT ![p] = map]
  BY DEF PageSize
<1>5. reached' = [reached EXCEPT ![CursorOf(p)] = @ \cup (page \ due)]
  OBVIOUS
<1>6. faults' \in 0 .. MaxFaults
  BY <1>0, FaultTypes DEF TypeOK
<1>7. UNCHANGED <<live, memo, cursor, cooling, lease, sweep, repair, sweepsLeft>>
  BY DEF Fetch
<1>8. /\ skip \in PassState \/ s.skips + 1 = MaxSkip
      /\ stop \in PassState /\ map \in PassState
  <2>1. s.skips + 1 \in 0 .. MaxSkip - 1 \/ s.skips + 1 = MaxSkip
    BY <1>1, Sizes
  <2>2. due \subseteq Rows
    BY <1>2, <1>3
  <2>3. Idle \in PassState
    BY Sizes DEF Idle, Fresh, CursorState, PassState, NotRead
  <2> QED BY <1>0, <1>1, <1>2, <2>1, <2>2, <2>3 DEF PassState
<1>9. Monotone /\ Judged(p)' = Judged(p) \cup (page \ due)
  BY <1>0, <1>5, <1>7 DEF Monotone, Judged, TypeOK
<1>10. /\ s.rejected \subseteq Unfit /\ s.refused \subseteq Fit
       /\ 1 .. s.start \subseteq Judged(p)
  BY <1>0, <1>7 DEF IngestInv, PassKnows
<1> HIDE DEF skip, stop, map, due, size, page
<1>11. reached' \in [Cursors -> SUBSET Rows]
  BY <1>0, <1>2, <1>5 DEF TypeOK
<1>12. TypeOK'
  <2>1. pass' \in [Passes -> PassState]
    BY <1>0, <1>4, <1>8 DEF TypeOK
  <2> QED BY <1>0, <1>6, <1>7, <1>11, <2>1 DEF TypeOK
<1>13. NothingSteppedOver' /\ SweptIsReached' /\ MemosAreTrue'
  BY <1>0, <1>7, <1>9, <1>12, CursorsKept DEF IngestInv, MemosAreTrue
<1>14. PassKnows(p)'
  <2>1. pass'[p] \in {skip, stop, map}
    BY <1>0, <1>4 DEF TypeOK
  <2>2. CASE pass'[p] = skip /\ due = {}
    <3>1. /\ skip.rejected = s.rejected /\ skip.refused = s.refused /\ skip.pc = "fetch"
          /\ skip.start = s.start + size
      BY <1>0 DEF skip, PassState
    <3>2. 1 .. skip.start \subseteq Judged(p)'
      BY <1>2, <1>9, <1>10, <2>2, <3>1
    <3> QED BY <1>10, <2>2, <3>1, <3>2 DEF PassKnows
  <2>3. CASE pass'[p] = stop /\ due = {}
    <3>1. /\ stop.rejected = {} /\ stop.refused = {} /\ stop.pc = "record"
          /\ stop.start = s.start /\ stop.size = size
      BY DEF stop, Idle
    <3>2. 1 .. stop.start \subseteq Judged(p)' /\ page \subseteq Judged(p)'
      BY <1>9, <1>10, <2>3, <3>1
    <3> QED BY <1>10, <2>3, <3>1, <3>2 DEF PassKnows, size, page
  <2>4. CASE pass'[p] = map
    <3>1. /\ map.rejected = {} /\ map.refused = {} /\ map.pc = "map" /\ map.due = due
          /\ map.start = s.start /\ map.size = size
      BY DEF map, Idle
    <3>2. 1 .. map.start \subseteq Judged(p)' /\ page \subseteq Judged(p)' \cup due
      BY <1>9, <1>10, <3>1
    <3> QED BY <1>10, <2>4, <3>1, <3>2 DEF PassKnows, size, page
  <2>5. \/ pass'[p] = skip /\ due = {}
        \/ pass'[p] = stop /\ due = {}
        \/ pass'[p] = map
    BY <1>0, <1>4 DEF TypeOK
  <2> QED BY <2>2, <2>3, <2>4, <2>5
<1>15. \A q \in Passes : PassKnows(q)'
  BY <1>0, <1>4, <1>9, <1>14, OthersKnow DEF IngestInv
<1>16. \A c \in Cursors : RepairKnows(c)'
  BY <1>7 DEF IngestInv, RepairKnows
<1> QED BY <1>12, <1>13, <1>15, <1>16 DEF IngestInv

LEMMA Maps ==
  ASSUME IngestInv, NEW p \in Passes, MapPage(p)
  PROVE  IngestInv'
<1> DEFINE s == pass[p]
<1>0. TypeOK /\ s \in PassState /\ s.pc = "map" /\ CursorOf(p) \in Cursors
  BY CursorOfTypes DEF IngestInv, TypeOK, MapPage
<1> DEFINE Mapped(done, unread, failed, thrown) ==
             /\ IF unread \cup failed = {} THEN UNCHANGED faults ELSE Fault
             /\ live' = live \cup Publishes(done, unread, failed)
             /\ pass' = [pass EXCEPT ![p].pc = "record", ![p].held = done # s.due,
                           ![p].rejected = Remembered(done, unread),
                           ![p].refused = Refused(done, unread, failed, thrown)]
             /\ reached' = [reached EXCEPT ![CursorOf(p)] = @ \cup done]
<1> PICK done \in {s.due} \cup {Below(s.due, r) : r \in s.due} :
      \E unread \in SUBSET done : \E failed \in SUBSET Offered(done, unread) :
      \E thrown \in SUBSET failed : Mapped(done, unread, failed, thrown)
  BY DEF MapPage
<1> PICK unread \in SUBSET done :
      \E failed \in SUBSET Offered(done, unread) :
      \E thrown \in SUBSET failed : Mapped(done, unread, failed, thrown)
  OBVIOUS
<1> PICK failed \in SUBSET Offered(done, unread) :
      \E thrown \in SUBSET failed : Mapped(done, unread, failed, thrown)
  OBVIOUS
<1> PICK thrown \in SUBSET failed : Mapped(done, unread, failed, thrown)
  OBVIOUS
<1> DEFINE rejected == Remembered(done, unread)
           refused == Refused(done, unread, failed, thrown)
           v == [s EXCEPT !.pc = "record", !.held = done # s.due,
                          !.rejected = rejected, !.refused = refused]
<1>1. pass' = [pass EXCEPT ![p] = v]
  BY <1>0 DEF TypeOK
<1>2. /\ done \subseteq s.due /\ s.due \subseteq Rows
      /\ rejected \subseteq Unfit /\ rejected \subseteq Rows
      /\ refused \subseteq Fit /\ refused \subseteq Rows
  BY <1>0 DEF PassState, Below, Remembered, Refused, Offered
<1>3. UNCHANGED <<memo, cursor, cooling, lease, sweep, repair, sweepsLeft>>
  BY DEF MapPage
<1>4. faults' \in 0 .. MaxFaults
  BY <1>0, FaultTypes DEF TypeOK
<1>5. Monotone /\ Judged(p)' = Judged(p) \cup done
  BY <1>0 DEF Monotone, Judged, TypeOK
<1>6. /\ v \in PassState /\ v.pc = "record" /\ v.start = s.start /\ v.size = s.size
      /\ v.rejected \subseteq Unfit /\ v.refused \subseteq Fit
      /\ ~ v.held => done = s.due
  <2>1. (done # s.due) \in BOOLEAN
    OBVIOUS
  <2> HIDE DEF rejected, refused
  <2> QED BY <1>0, <1>2, <2>1 DEF PassState
<1>12. live' \subseteq Rows /\ reached' \in [Cursors -> SUBSET Rows]
  BY <1>0, <1>2 DEF TypeOK, Publishes, Offered
<1> HIDE DEF v, Mapped
<1>7. TypeOK'
  <2>1. pass' \in [Passes -> PassState]
    BY <1>0, <1>1, <1>6 DEF TypeOK
  <2> QED BY <1>0, <1>3, <1>4, <1>12, <2>1 DEF TypeOK
<1>8. NothingSteppedOver' /\ SweptIsReached' /\ MemosAreTrue'
  BY <1>0, <1>3, <1>5, <1>7, CursorsKept DEF IngestInv, MemosAreTrue
<1>9. PassKnows(p)'
  <2>1. /\ 1 .. s.start \subseteq Judged(p) /\ Page(s.start) \subseteq Judged(p) \cup s.due
        /\ s.size = Cardinality(Page(s.start))
    BY <1>0 DEF IngestInv, PassKnows
  <2>2. pass'[p] = v
    BY <1>0, <1>1 DEF TypeOK
  <2>3. 1 .. v.start \subseteq Judged(p)'
    BY <1>5, <1>6, <2>1
  <2>4. ASSUME ~ v.held PROVE Page(v.start) \subseteq Judged(p)'
    <3>1. done = s.due /\ Page(v.start) = Page(s.start)
      BY <1>6, <2>4
    <3>2. Page(s.start) \subseteq Judged(p) \cup done
      BY <2>1, <3>1
    <3> QED BY <1>5, <3>1, <3>2
  <2>5. v.size = Cardinality(Page(v.start))
    BY <1>6, <2>1
  <2> QED BY <1>6, <2>2, <2>3, <2>4, <2>5 DEF PassKnows
<1>10. \A q \in Passes : PassKnows(q)'
  BY <1>0, <1>1, <1>5, <1>9, OthersKnow DEF IngestInv
<1>11. \A c \in Cursors : RepairKnows(c)'
  BY <1>3 DEF IngestInv, RepairKnows
<1> QED BY <1>7, <1>8, <1>10, <1>11 DEF IngestInv

LEMMA Records ==
  ASSUME IngestInv, NEW p \in Passes, Record(p)
  PROVE  IngestInv'
<1> DEFINE s == pass[p]
           v == [s EXCEPT !.pc = "save", !.rejected = {}, !.refused = {}, !.due = {}]
<1>0. TypeOK /\ s \in PassState /\ s.pc = "record"
  BY DEF IngestInv, TypeOK, Record
<1>1. pass' = [pass EXCEPT ![p] = v] /\ Monotone
  BY <1>0 DEF TypeOK, Record, Monotone
<1>2. /\ v \in PassState /\ v.pc = "save" /\ v.start = s.start /\ v.size = s.size
      /\ v.rejected = {} /\ v.refused = {} /\ v.held = s.held
  BY <1>0 DEF PassState
<1>3. UNCHANGED <<live, cursor, cooling, lease, sweep, repair, reached, sweepsLeft>>
  BY DEF Record
<1>4. s.rejected \subseteq Unfit /\ s.refused \subseteq Fit
  BY DEF IngestInv, PassKnows
<1>5. memo' \in [Rows -> Codes \cup {"none"}] /\ MemosAreTrue' /\ faults' \in 0 .. MaxFaults
  <2>1. faults' \in 0 .. MaxFaults
    BY <1>0, FaultTypes DEF TypeOK, Record
  <2>2. \/ memo' = memo
        \/ memo' = [r \in Rows |-> IF r \in s.rejected THEN "entity"
                                  ELSE IF r \in s.refused THEN "publish_rejected"
                                  ELSE memo[r]]
    BY DEF Record
  <2> QED BY <1>0, <1>4, <2>1, <2>2 DEF IngestInv, TypeOK, MemosAreTrue, Codes
<1> HIDE DEF v
<1>6. TypeOK'
  <2>1. pass' \in [Passes -> PassState]
    BY <1>0, <1>1, <1>2 DEF TypeOK
  <2> QED BY <1>0, <1>3, <1>5, <2>1 DEF TypeOK
<1>7. NothingSteppedOver' /\ SweptIsReached'
  BY <1>0, <1>1, <1>3, <1>6, CursorsKept DEF IngestInv
<1>8. PassKnows(p)'
  <2>1. pass'[p] = v /\ Judged(p)' = Judged(p)
    BY <1>0, <1>1, <1>3 DEF TypeOK, Judged
  <2>2. PassKnows(p)
    BY DEF IngestInv
  <2> QED BY <1>0, <1>2, <2>1, <2>2 DEF PassKnows
<1>9. \A q \in Passes : PassKnows(q)'
  BY <1>0, <1>1, <1>8, OthersKnow DEF IngestInv
<1>10. \A c \in Cursors : RepairKnows(c)'
  BY <1>3 DEF IngestInv, RepairKnows
<1> QED BY <1>5, <1>6, <1>7, <1>9, <1>10 DEF IngestInv
(* A step that at most ends one pass and rewrites one cursor rightly.      *)
CursorStep ==
  /\ live' = live /\ reached' = reached
  /\ memo' = memo \/ \E r \in Rows : memo' = [memo EXCEPT ![r] = "none"]
  /\ cooling' \in BOOLEAN /\ lease' \in Sweeps \cup {NoLease}
  /\ sweep' \in [Sweeps -> Stages]
  /\ sweepsLeft' \in 0 .. MaxSweeps /\ faults' \in 0 .. MaxFaults
  /\ pass' = pass \/ \E p \in Passes : pass' = [pass EXCEPT ![p] = Idle]
  /\ \/ cursor' = cursor
     \/ \E c \in Cursors, v \in CursorState :
          Right(c, v) /\ cursor' = [cursor EXCEPT ![c] = v]
  /\ repair' \in [Cursors -> [pc : {"idle", "sensed", "write"}, seen : CursorState]]
  /\ \A c \in Cursors : RepairKnows(c)'

LEMMA CursorSteps ==
  ASSUME IngestInv, CursorStep
  PROVE  IngestInv'
<1>0. TypeOK /\ NothingSteppedOver /\ SweptIsReached
  BY DEF IngestInv
<1>1. Idle \in PassState
  BY Sizes DEF Idle, Fresh, CursorState, PassState, NotRead
<1>2. cursor' \in [Cursors -> CursorState] /\ NothingSteppedOver' /\ SweptIsReached'
  <2>1. CASE cursor' = cursor
    BY <1>0, <2>1 DEF CursorStep, TypeOK, NothingSteppedOver, SweptIsReached
  <2>2. CASE \E c \in Cursors, v \in CursorState :
               Right(c, v) /\ cursor' = [cursor EXCEPT ![c] = v]
    BY <1>0, <2>2, CursorsRight DEF CursorStep
  <2> QED BY <2>1, <2>2 DEF CursorStep
<1>3. TypeOK'
  <2>1. pass' \in [Passes -> PassState]
    BY <1>0, <1>1 DEF TypeOK, CursorStep
  <2> QED BY <1>0, <1>2, <2>1 DEF TypeOK, CursorStep, Stages
<1>4. MemosAreTrue'
  BY <1>0 DEF IngestInv, TypeOK, MemosAreTrue, CursorStep
<1>5. \A q \in Passes : PassKnows(q)'
  <2>1. Monotone
    BY DEF Monotone, CursorStep
  <2>2. CASE pass' = pass
    BY <2>2 DEF IngestInv, CursorStep, PassKnows, Judged
  <2>3. ASSUME NEW p \in Passes, pass' = [pass EXCEPT ![p] = Idle]
        PROVE  \A q \in Passes : PassKnows(q)'
    <3>1. pass'[p] = Idle
      BY <1>0, <2>3 DEF TypeOK
    <3>2. PassKnows(p)'
      BY <3>1, IdleKnows
    <3> QED BY <1>0, <2>1, <2>3, <3>2, OthersKnow DEF IngestInv
  <2> QED BY <2>2, <2>3 DEF CursorStep
<1> QED BY <1>2, <1>3, <1>4, <1>5 DEF IngestInv, CursorStep

LEMMA Fails ==
  ASSUME IngestInv, NEW p \in Passes, SourceFails(p)
  PROVE  IngestInv'
<1> DEFINE s == pass[p]
           n == IF s.at.failures < MaxFailures THEN s.at.failures + 1 ELSE MaxFailures
           v == [s.at EXCEPT !.offset = s.start, !.failures = n, !.resting = n = MaxFailures]
<1>0. TypeOK /\ s \in PassState /\ s.pc = "fetch" /\ CursorOf(p) \in Cursors
  BY CursorOfTypes DEF IngestInv, TypeOK, SourceFails
<1>1. n \in 1 .. MaxFailures
  BY <1>0, Sizes DEF PassState, CursorState
<1>2. v \in CursorState /\ v.offset = s.start /\ v.failures = n
  <2>1. s.at \in CursorState /\ s.start \in 0 .. Corpus
    BY <1>0 DEF PassState
  <2>2. n \in 0 .. MaxFailures /\ (n = MaxFailures) \in BOOLEAN
    BY <1>1, Sizes
  <2> HIDE DEF n, s
  <2> QED BY <2>1, <2>2 DEF CursorState
<1>3. 1 .. s.start \subseteq reached[CursorOf(p)]
  BY <1>0 DEF IngestInv, PassKnows, Judged
<1>4. cursor' = cursor \/ cursor' = [cursor EXCEPT ![CursorOf(p)] = v]
  BY DEF SourceFails
<1> HIDE DEF v, n
<1>5. Right(CursorOf(p), v)
  BY <1>1, <1>2, <1>3 DEF Right
<1>6. sweep' \in [Sweeps -> Stages] /\ faults' \in 0 .. MaxFaults
  BY <1>0, ReturnsTypes, FaultTypes DEF SourceFails, Stages
<1>7. cooling' \in BOOLEAN
  BY <1>0 DEF SourceFails, TypeOK
<1>8. CursorStep
  BY <1>0, <1>2, <1>4, <1>5, <1>6, <1>7
     DEF IngestInv, CursorStep, SourceFails, TypeOK, RepairKnows
<1> QED BY <1>8, CursorSteps

LEMMA Saves ==
  ASSUME IngestInv, NEW p \in Passes, Save(p)
  PROVE  IngestInv'
<1> DEFINE s == pass[p]
           v == [offset |-> NextOffset(s), resting |-> EndOfCorpus(s),
                 failures |-> 0, lastPage |-> s.size]
<1>0. TypeOK /\ s \in PassState /\ s.pc = "save" /\ CursorOf(p) \in Cursors
  BY CursorOfTypes DEF IngestInv, TypeOK, Save
<1>1. s.start \in 0 .. Corpus /\ s.size \in 0 .. Batch /\ s.held \in BOOLEAN
  BY <1>0 DEF PassState
<1>2. /\ 1 .. s.start \subseteq Judged(p)
      /\ s.size = Cardinality(Page(s.start))
      /\ ~ s.held => Page(s.start) \subseteq Judged(p)
  BY <1>0 DEF IngestInv, PassKnows
<1>3. /\ s.start + s.size \in 0 .. Corpus
      /\ 1 .. s.start + s.size = (1 .. s.start) \cup Page(s.start)
      /\ s.size < Batch => Rows = (1 .. s.start) \cup Page(s.start)
  BY <1>1, <1>2, PageShape
<1>4. Judged(p) \subseteq Rows
  BY <1>0 DEF TypeOK, Judged
<1>5. NextOffset(s) \in 0 .. Corpus /\ EndOfCorpus(s) \in BOOLEAN
  BY <1>1, <1>3, Sizes DEF NextOffset, EndOfCorpus
<1>6. v \in CursorState
  BY <1>1, <1>5, Sizes DEF CursorState
<1>7. 1 .. NextOffset(s) \subseteq Judged(p)
  BY <1>2, <1>3 DEF NextOffset
<1>8. EndOfCorpus(s) => Judged(p) = Rows
  BY <1>2, <1>3, <1>4 DEF EndOfCorpus
<1>9. Right(CursorOf(p), v)
  BY <1>6, <1>7, <1>8 DEF Right, Judged
<1>10. cursor' = cursor \/ cursor' = [cursor EXCEPT ![CursorOf(p)] = v]
  BY DEF Save
<1> HIDE DEF v
<1>11. sweep' \in [Sweeps -> Stages] /\ faults' \in 0 .. MaxFaults
  BY <1>0, ReturnsTypes, FaultTypes DEF Save, Stages, TypeOK
<1>12. CursorStep
  BY <1>0, <1>6, <1>9, <1>10, <1>11 DEF IngestInv, CursorStep, Save, TypeOK, RepairKnows
<1> QED BY <1>12, CursorSteps

LEMMA FreshRight == \A c \in Cursors : Right(c, Fresh)
BY Sizes DEF Right, Fresh, CursorState, NotRead

LEMMA SweepMoves ==
  ASSUME IngestInv, NEW b \in Sweeps,
         \/ Take(b) \/ Taken(b) \/ Loop(b) \/ Renewed(b) \/ End(b) \/ Released(b)
         \/ Breaks(b)
  PROVE  IngestInv'
<1>0. TypeOK /\ b \in Passes
  BY DEF IngestInv, Passes
<1>1. sweep' \in [Sweeps -> Stages]
  BY <1>0, ReturnsTypes
     DEF TypeOK, Stages, Take, Taken, Loop, Renewed, End, Released, Breaks
<1>2. sweepsLeft' \in 0 .. MaxSweeps
  BY <1>0, Sizes DEF TypeOK, Take, Taken, Loop, Renewed, End, Released, Breaks
<1>3. faults' \in 0 .. MaxFaults
  BY <1>0, FaultTypes DEF TypeOK, Take, Taken, Loop, Renewed, End, Released, Breaks, ReadsFree
<1>4. lease' \in Sweeps \cup {NoLease}
  BY <1>0 DEF TypeOK, Take, Taken, Loop, Renewed, End, Released, Breaks
<1>5. \/ cursor' = cursor
      \/ \E c \in Cursors, v \in CursorState :
           Right(c, v) /\ cursor' = [cursor EXCEPT ![c] = v]
  <2> DEFINE c == cursor["booster"]
             v == [c EXCEPT !.resting = FALSE, !.failures = 0]
  <2>1. "booster" \in Cursors
    BY DEF Cursors
  <2>2. c \in CursorState /\ 1 .. c.offset \subseteq reached["booster"]
    BY <2>1 DEF IngestInv, TypeOK, NothingSteppedOver
  <2>3. v \in CursorState /\ v.offset = c.offset /\ v.resting = FALSE
    <3>1. 0 \in 0 .. MaxFailures
      BY Sizes
    <3> HIDE DEF c
    <3> QED BY <2>2, <3>1 DEF CursorState
  <2>4. \/ cursor' = cursor \/ cursor' = [cursor EXCEPT !["booster"] = Fresh]
        \/ cursor' = [cursor EXCEPT !["booster"] = v]
    BY <1>0, <2>1 DEF TypeOK, Take, Taken, Loop, Renewed, End, Released, Breaks
  <2> HIDE DEF v, c
  <2>5. Right("booster", v) /\ Right("booster", Fresh)
    BY <2>1, <2>2, <2>3, FreshRight DEF Right
  <2> QED BY <2>1, <2>3, <2>4, <2>5 DEF Right
<1>6. pass' = pass \/ \E p \in Passes : pass' = [pass EXCEPT ![p] = Idle]
  BY <1>0 DEF Take, Taken, Loop, Renewed, End, Released, Breaks
<1>7. UNCHANGED <<live, memo, cooling, reached, repair>>
  BY DEF Take, Taken, Loop, Renewed, End, Released, Breaks
<1>8. CursorStep
  BY <1>0, <1>1, <1>2, <1>3, <1>4, <1>5, <1>6, <1>7
     DEF CursorStep, TypeOK, IngestInv, RepairKnows
<1> QED BY <1>8, CursorSteps

LEMMA WorkerBreaks ==
  ASSUME IngestInv, NEW w \in Workers, Breaks(w)
  PROVE  IngestInv'
<1>0. TypeOK /\ w \in Passes
  BY DEF IngestInv, Passes
<1>1. sweep' \in [Sweeps -> Stages] /\ faults' \in 0 .. MaxFaults
  BY <1>0, ReturnsTypes, FaultTypes DEF Breaks, Stages
<1>2. CursorStep
  BY <1>0, <1>1 DEF CursorStep, Breaks, TypeOK, IngestInv, RepairKnows
<1> QED BY <1>2, CursorSteps

(* What self-maintenance writes back was read awake, at offset 0.          *)
LEMMA RepairMoves ==
  ASSUME IngestInv, NEW c \in Cursors,
         Sense(c) \/ RepairRead(c) \/ RepairWrite(c) \/ RestEnds(c)
  PROVE  IngestInv'
<1> DEFINE seen == repair[c].seen
           rewound == [seen EXCEPT !.offset = 0]
           awake == [cursor[c] EXCEPT !.resting = FALSE]
<1>0. /\ TypeOK /\ cursor[c] \in CursorState /\ seen \in CursorState
      /\ repair[c] \in [pc : {"idle", "sensed", "write"}, seen : CursorState]
      /\ 1 .. cursor[c].offset \subseteq reached[c]
      /\ RepairKnows(c)
  BY DEF IngestInv, TypeOK, NothingSteppedOver
<1>1. /\ awake \in CursorState /\ awake.offset = cursor[c].offset
      /\ awake.resting = FALSE
  BY <1>0 DEF CursorState
<1>2. /\ rewound \in CursorState /\ rewound.offset = 0
      /\ rewound.resting = seen.resting
  BY <1>0, Sizes DEF CursorState
<1>3. \/ cursor' = cursor
      \/ RepairWrite(c) /\ cursor' = [cursor EXCEPT ![c] = rewound]
      \/ cursor' = [cursor EXCEPT ![c] = awake]
  BY <1>0 DEF TypeOK, Sense, RepairRead, RepairWrite, RestEnds
<1>4. NoRepair \in [pc : {"idle", "sensed", "write"}, seen : CursorState]
  BY Sizes DEF NoRepair, Fresh, CursorState, NotRead
<1>5. /\ repair' \in [Cursors -> [pc : {"idle", "sensed", "write"}, seen : CursorState]]
      /\ \A d \in Cursors : RepairKnows(d)'
  <2>1. \E r \in [pc : {"idle", "sensed", "write"}, seen : CursorState] :
          /\ repair' = [repair EXCEPT ![c] = r]
          /\ r.pc = "write" => ~ r.seen.resting
    <3>1. CASE Sense(c)
      <4> DEFINE r == [repair[c] EXCEPT !.pc = "sensed"]
      <4>1. repair' = [repair EXCEPT ![c] = r]
        BY <1>0, <3>1 DEF Sense, TypeOK
      <4>2. r \in [pc : {"idle", "sensed", "write"}, seen : CursorState] /\ r.pc = "sensed"
        BY <1>0
      <4> HIDE DEF r
      <4> QED BY <4>1, <4>2
    <3>2. CASE RepairRead(c)
      <4>0. Fresh \in CursorState
        BY Sizes DEF Fresh, CursorState, NotRead
      <4> PICK read \in {cursor[c], Fresh} :
            repair' = [repair EXCEPT ![c] =
              IF read.resting THEN NoRepair ELSE [pc |-> "write", seen |-> read]]
        BY <3>2 DEF RepairRead
      <4> DEFINE r == IF read.resting THEN NoRepair ELSE [pc |-> "write", seen |-> read]
      <4>1. repair' = [repair EXCEPT ![c] = r]
        OBVIOUS
      <4>2. r \in [pc : {"idle", "sensed", "write"}, seen : CursorState]
        BY <1>0, <1>4, <4>0
      <4>3. r.pc = "write" => ~ r.seen.resting
        BY DEF NoRepair
      <4> HIDE DEF r
      <4> QED BY <4>1, <4>2, <4>3
    <3>3. CASE RepairWrite(c)
      BY <1>4, <3>3 DEF RepairWrite, NoRepair
    <3>4. CASE RestEnds(c)
      <4>1. repair' = [repair EXCEPT ![c] = repair[c]]
        BY <1>0, <3>4 DEF RestEnds, TypeOK
      <4> QED BY <1>0, <4>1 DEF RepairKnows
    <3> QED BY <3>1, <3>2, <3>3, <3>4
  <2> PICK r \in [pc : {"idle", "sensed", "write"}, seen : CursorState] :
        /\ repair' = [repair EXCEPT ![c] = r]
        /\ r.pc = "write" => ~ r.seen.resting
    BY <2>1
  <2>2. repair' \in [Cursors -> [pc : {"idle", "sensed", "write"}, seen : CursorState]]
    BY <1>0 DEF TypeOK
  <2>3. \A d \in Cursors : repair'[d] = IF d = c THEN r ELSE repair[d]
    BY <1>0 DEF TypeOK
  <2>4. \A d \in Cursors : RepairKnows(d)'
    BY <2>3 DEF RepairKnows, IngestInv
  <2> QED BY <2>2, <2>4
<1>6. Right(c, awake)
  BY <1>0, <1>1 DEF Right
<1>7. RepairWrite(c) => Right(c, rewound)
  BY <1>0, <1>2 DEF Right, RepairWrite, RepairKnows
<1> HIDE DEF rewound, awake, seen
<1>8. \/ cursor' = cursor
      \/ \E d \in Cursors, v \in CursorState :
           Right(d, v) /\ cursor' = [cursor EXCEPT ![d] = v]
  BY <1>1, <1>2, <1>3, <1>6, <1>7
<1>9. /\ UNCHANGED <<live, memo, cooling, lease, pass, sweep, reached, sweepsLeft>>
      /\ faults' \in 0 .. MaxFaults
  BY <1>0, FaultTypes DEF TypeOK, Sense, RepairRead, RepairWrite, RestEnds
<1>10. CursorStep
  BY <1>0, <1>5, <1>8, <1>9 DEF CursorStep, TypeOK, Stages
<1> QED BY <1>10, CursorSteps

LEMMA TimePasses ==
  ASSUME IngestInv,
         (\E r \in Rows : BackoffEnds(r)) \/ CoolDownEnds \/ LeaseExpires \/ UNCHANGED vars
  PROVE  IngestInv'
<1>1. UNCHANGED <<live, cursor, pass, sweep, repair, reached, sweepsLeft, faults>>
  BY DEF BackoffEnds, CoolDownEnds, LeaseExpires, vars
<1>2. /\ memo' = memo \/ \E r \in Rows : memo' = [memo EXCEPT ![r] = "none"]
      /\ cooling' \in BOOLEAN
      /\ lease' \in Sweeps \cup {NoLease}
  BY DEF IngestInv, TypeOK, BackoffEnds, CoolDownEnds, LeaseExpires, vars
<1>3. CursorStep
  BY <1>1, <1>2 DEF CursorStep, IngestInv, TypeOK, Stages, RepairKnows
<1> QED BY <1>3, CursorSteps

LEMMA StepInv == IngestInv /\ [Next]_vars => IngestInv'
<1> SUFFICES ASSUME IngestInv, [Next]_vars PROVE IngestInv'
  OBVIOUS
<1>1. ASSUME NEW p \in Passes, PassStep(p) \/ Breaks(p) PROVE IngestInv'
  BY <1>1, Starts, Fetches, Fails, Maps, Records, Saves, SweepMoves, WorkerBreaks
     DEF PassStep, Passes
<1>2. ASSUME NEW w \in Workers, WorkerBegin(w) PROVE IngestInv'
  BY <1>2, Starts DEF Passes
<1>3. ASSUME NEW b \in Sweeps, Take(b) \/ SweepStep(b) PROVE IngestInv'
  BY <1>3, Starts, SweepMoves DEF SweepStep, Passes
<1>4. ASSUME NEW c \in Cursors, Sense(c) \/ RepairRead(c) \/ RepairWrite(c) \/ RestEnds(c)
      PROVE  IngestInv'
  BY <1>4, RepairMoves
<1>5. CASE (\E r \in Rows : BackoffEnds(r)) \/ CoolDownEnds \/ LeaseExpires \/ UNCHANGED vars
  BY <1>5, TimePasses
<1> QED BY <1>1, <1>2, <1>3, <1>4, <1>5 DEF Next

LEMMA Invariant == Spec => []IngestInv
BY InitInv, StepInv, PTL DEF Spec

-----------------------------------------------------------------------------

(* Every pass, cursor, sweep and repair keeps its type, whatever is        *)
(* interleaved: no offset leaves the corpus.                               *)
THEOREM IngestTyped == Spec => []TypeOK
<1>1. IngestInv => TypeOK
  BY DEF IngestInv
<1> QED BY <1>1, Invariant, PTL

(* No row before a cursor's offset has been missed, whoever saved, lost,   *)
(* rewound or overwrote the cursor, with any number of passes at once.     *)
THEOREM CursorStepsOverNothing == Spec => []NothingSteppedOver
<1>1. IngestInv => NothingSteppedOver
  BY DEF IngestInv
<1> QED BY <1>1, Invariant, PTL

(* A cursor that rests as swept has had the whole corpus looked at.        *)
THEOREM SweptWasReached == Spec => []SweptIsReached
<1>1. IngestInv => SweptIsReached
  BY DEF IngestInv
<1> QED BY <1>1, Invariant, PTL

(* A memo that judges its entity is an unfit one's, and one of a refused   *)
(* publish that of an entity fit to be published, whichever source reads   *)
(* and database writes failed.                                             *)
THEOREM MemosTellTheTruth == Spec => []MemosAreTrue
<1>1. IngestInv => MemosAreTrue
  BY DEF IngestInv
<1> QED BY <1>1, Invariant, PTL
=============================================================================
