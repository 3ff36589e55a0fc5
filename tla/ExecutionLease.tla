--------------------------- MODULE ExecutionLease ---------------------------
(***************************************************************************)
(* The execution lease of the Admin Worker: one AdminWorkerMemory row that *)
(* says which runtime may execute the worker                               *)
(* (src/lib/admin-worker/execution-host.ts).                               *)
(*                                                                         *)
(* An agent is one asynchronous task that calls the lease functions: the   *)
(* host's lease tick, its switch poll, its worker child, a worker started  *)
(* from the command line.  IdOf gives the runtime id it acts under; a host *)
(* and its child share one.  Every database round trip is one step, so the *)
(* steps of two calls interleave wherever the code awaits.  A call may     *)
(* also fail, and a failed write may or may not have reached the row.      *)
(*                                                                         *)
(* renewedAt (inside the value) and updatedAt (the column the optimistic   *)
(* take-over compares) are stamped by the same client for the same write;  *)
(* both are the field "at".  The stamp is taken when the write is sent,    *)
(* some time between the read before it and the moment the write lands.    *)
(***************************************************************************)
EXTENDS Integers, FiniteSets

CONSTANTS
  Agents,     \* tasks that call the lease functions
  Runtimes,   \* runtime ids
  IdOf,       \* IdOf[a]: the runtime id agent a acts under
  Persistent, \* agents that keep claiming; the others may stay away for good
  NoRow,      \* stands for "the lease row does not exist"
  TTL,        \* LEASE_TTL_MS, in clock ticks
  MaxClock,   \* bound: the clock stops here
  MaxFaults   \* bound: number of database calls that fail

Lease == [holder: Runtimes, at: Nat]

ASSUME LeaseAssumption ==
  /\ IdOf \in [Agents -> Runtimes]
  /\ Persistent \subseteq Agents
  /\ TTL \in Nat \ {0}
  /\ MaxClock \in Nat
  /\ MaxFaults \in Nat
  /\ NoRow \notin Lease

VARIABLES
  now,      \* wall clock
  row,      \* the lease row: a Lease, or NoRow
  op,       \* op[a]: the call agent a is in
  working,  \* runtimes that execute worker computation
  faults    \* database calls that have failed so far

vars == <<now, row, op, working, faults>>

-----------------------------------------------------------------------------
(* What an agent keeps between two round trips of one call. *)

Pcs == {"idle", "claim_cas", "claim_create", "claim_reread", "claim_again",
        "renew_write", "release_delete"}

At(pc, since, retries) ==
  [pc |-> pc, seen |-> NoRow, since |-> since, retries |-> retries]

Idle == At("idle", 0, 0)

TypeOK ==
  /\ now \in 0 .. MaxClock
  /\ row \in Lease \cup {NoRow}
  /\ op \in [Agents -> [pc: Pcs, seen: Lease \cup {NoRow},
                        since: Nat, retries: {0, 1}]]
  /\ working \subseteq Runtimes
  /\ faults \in 0 .. MaxFaults

Init ==
  /\ now = 0
  /\ row = NoRow
  /\ op = [a \in Agents |-> Idle]
  /\ working = {}
  /\ faults = 0

\* Mutants of the definition below them are named for the mistake they make.
AnyRowNames(r) == row # NoRow
Names(r) == row # NoRow /\ row.holder = r

\* leaseAge(lease) >= LEASE_TTL_MS: an abandoned lease.
ExpiredOneLate(lease) == now - lease.at > TTL
Expired(lease) == now - lease.at >= TTL

\* The call returns: the runtime executes, or it does not.
Return(a) == op' = [op EXCEPT ![a] = Idle]
Executes(a) == working' = working \cup {IdOf[a]}
WorksOn(a) == UNCHANGED working
Stands(a) == working' = working \ {IdOf[a]}

\* A write of a's lease lands, stamped between its read and now.
Stamped(a) ==
  \E t \in op[a].since .. now : row' = [holder |-> IdOf[a], at |-> t]

\* One database call fails.
Fault == faults < MaxFaults /\ faults' = faults + 1

-----------------------------------------------------------------------------
(* acquireExecutionLease / claimLease *)

\* The row says another runtime is executing: refused, held_elsewhere.
HeldElsewhere(a) ==
  /\ row # NoRow
  /\ row.holder # IdOf[a]
  /\ ~ Expired(row)

ClaimRead(a) ==
  /\ op[a].pc \in {"idle", "claim_again"}
  /\ LET retries == IF op[a].pc = "idle" THEN 1 ELSE op[a].retries
         Go(pc) == op' = [op EXCEPT ![a] =
                     [pc |-> pc, seen |-> row, since |-> now, retries |-> retries]]
     IN \/ Fault /\ Return(a) /\ Stands(a)
        \/ HeldElsewhere(a) /\ Return(a) /\ Stands(a) /\ UNCHANGED faults
        \/ /\ row # NoRow /\ ~ HeldElsewhere(a)
           /\ Go("claim_cas") /\ UNCHANGED <<working, faults>>
        \/ row = NoRow /\ Go("claim_create") /\ UNCHANGED <<working, faults>>
  /\ UNCHANGED <<now, row>>

\* updateMany ... where updatedAt is still the one read.
RowExists(a) == row # NoRow
Unwritten(a) == row # NoRow /\ row.at = op[a].seen.at

ClaimCas(a) ==
  /\ op[a].pc = "claim_cas"
  /\ \/ Unwritten(a) /\ Stamped(a) /\ Return(a) /\ Executes(a) /\ UNCHANGED faults
     \/ /\ ~ Unwritten(a)
        /\ op' = [op EXCEPT ![a] = At("claim_reread", 0, op[a].retries)]
        /\ UNCHANGED <<row, working, faults>>
     \/ /\ Fault /\ Return(a) /\ Stands(a)
        /\ (Unwritten(a) /\ Stamped(a)) \/ UNCHANGED row
  /\ UNCHANGED now

\* The claim starts over at most once.
RetriesForEver(a) == TRUE
MayRetry(a) == op[a].retries > 0

\* Nothing was written; only a fresh read says who holds the lease now.
ClaimReread(a) ==
  /\ op[a].pc = "claim_reread"
  /\ \/ Fault /\ Return(a) /\ Stands(a)
     \/ Names(IdOf[a]) /\ Return(a) /\ Executes(a) /\ UNCHANGED faults
     \/ /\ \/ row # NoRow /\ ~ Names(IdOf[a])
           \/ row = NoRow /\ ~ MayRetry(a)
        /\ Return(a) /\ Stands(a) /\ UNCHANGED faults
     \/ /\ row = NoRow /\ MayRetry(a)
        /\ op' = [op EXCEPT ![a].pc = "claim_again", ![a].retries = @ - 1]
        /\ UNCHANGED <<working, faults>>
  /\ UNCHANGED <<now, row>>

\* No row when it was read: writeRow, an upsert, whatever is there by now.
ClaimCreate(a) ==
  /\ op[a].pc = "claim_create"
  /\ \/ Stamped(a) /\ Return(a) /\ Executes(a) /\ UNCHANGED faults
     \/ Fault /\ Return(a) /\ Stands(a) /\ (Stamped(a) \/ UNCHANGED row)
  /\ UNCHANGED now

-----------------------------------------------------------------------------
(* renewExecutionLease: "lost" stops the worker, "unknown" does not. *)

RenewRead(a) ==
  /\ op[a].pc = "idle"
  /\ IdOf[a] \in working
  /\ \/ Fault /\ UNCHANGED <<op, working>>
     \/ ~ Names(IdOf[a]) /\ Stands(a) /\ UNCHANGED <<op, faults>>
     \/ /\ Names(IdOf[a])
        /\ op' = [op EXCEPT ![a] = At("renew_write", now, 0)]
        /\ UNCHANGED <<working, faults>>
  /\ UNCHANGED <<now, row>>

RenewWrite(a) ==
  /\ op[a].pc = "renew_write"
  /\ \/ Stamped(a) /\ UNCHANGED faults
     \/ Fault /\ (Stamped(a) \/ UNCHANGED row)
  /\ Return(a)
  /\ UNCHANGED <<now, working>>

-----------------------------------------------------------------------------
(* releaseExecutionLease: called once the runtime's worker has stopped. *)

ReleaseRead(a) ==
  /\ op[a].pc = "idle"
  /\ Stands(a)
  /\ \/ Fault /\ UNCHANGED op
     \/ ~ Names(IdOf[a]) /\ UNCHANGED <<op, faults>>
     \/ /\ Names(IdOf[a])
        /\ op' = [op EXCEPT ![a] = At("release_delete", 0, 0)]
        /\ UNCHANGED faults
  /\ UNCHANGED <<now, row>>

\* Deletes by key; deleting an absent row throws and is swallowed.
ReleaseDelete(a) ==
  /\ op[a].pc = "release_delete"
  /\ \/ row' = NoRow /\ UNCHANGED faults
     \/ Fault /\ (row' = NoRow \/ UNCHANGED row)
  /\ Return(a)
  /\ UNCHANGED <<now, working>>

-----------------------------------------------------------------------------
(* The environment: time, and a runtime that dies with its calls. *)

Tick ==
  /\ now < MaxClock
  /\ now' = now + 1
  /\ UNCHANGED <<row, op, working, faults>>

Crash(r) ==
  /\ r \in working
  /\ working' = working \ {r}
  /\ op' = [a \in Agents |-> IF IdOf[a] = r THEN Idle ELSE op[a]]
  /\ UNCHANGED <<now, row, faults>>

Claim(a) == ClaimRead(a) \/ ClaimCas(a) \/ ClaimReread(a) \/ ClaimCreate(a)
Renew(a) == RenewRead(a) \/ RenewWrite(a)
Release(a) == ReleaseRead(a) \/ ReleaseDelete(a)

Next ==
  \/ \E a \in Agents : Claim(a) \/ Renew(a) \/ Release(a)
  \/ \E r \in Runtimes : Crash(r)
  \/ Tick

Spec == Init /\ [][Next]_vars

(***************************************************************************)
(* Fairness: time passes, a call that has started completes, the lease     *)
(* tick keeps renewing while its worker runs, and a persistent agent tries *)
(* a refused start again (the switch poll's cooldown, the restart backoff).*)
(***************************************************************************)
Fairness ==
  /\ WF_vars(Tick)
  /\ \A a \in Agents : WF_vars(op[a] # Idle /\ Claim(a))
  /\ \A a \in Agents : WF_vars(Renew(a)) /\ WF_vars(ReleaseDelete(a))
  /\ \A a \in Persistent : WF_vars(Claim(a))

FairSpec == Spec /\ Fairness

-----------------------------------------------------------------------------
(* Safety *)

\* A take-over replaces only an abandoned lease: when a claim that read
\* another runtime's lease overwrites the row, what it overwrites has expired,
\* whoever wrote it and whatever happened since that read (claimLease).
TakeOver(a) == ClaimCas(a) /\ op[a].seen.holder # IdOf[a]

ClaimSparesLiveLease ==
  [][\A a \in Agents : TakeOver(a) /\ row' # row => Expired(row)]_vars

\* A runtime begins to execute only in a step at which the row names it:
\* no failed or lost write is ever reported as an acquired lease (claimLease,
\* whose failed re-read once fell through to "acquired").
NoInventedClaim ==
  [][\A r \in working' \ working : row' # NoRow /\ row'.holder = r]_vars

\* A renewal never overwrites another runtime's live lease: the one who took the
\* lease while it had run out keeps it ("a second runtime cannot claim it while it
\* is live").  The code does not keep this: the row that is written over is not
\* compared with the one that was read (renewExecutionLease).
RenewalSparesLiveLease ==
  [][\A a \in Agents : RenewWrite(a) /\ row' # row => ~ HeldElsewhere(a)]_vars

\* "Two runtimes racing for the lease cannot both win" (acquireExecutionLease).
OneWinner == Cardinality(working) <= 1

-----------------------------------------------------------------------------
(* Liveness *)

\* A runtime that executes although the row does not name it finds out: it
\* stops, or has the lease again (renewExecutionLease, leaseTick).
StaleExecutorStops ==
  \A r \in Runtimes :
    (r \in working /\ ~ Names(r)) ~> (r \notin working \/ Names(r))

\* A lease left behind by a runtime that no longer executes does not block
\* the others for ever: it expires, and another that keeps claiming gets it
\* (LEASE_TTL_MS).  Leases too close to the end of the clock are left out.
Abandoned(r) == Names(r) /\ r \notin working /\ row.at + TTL <= MaxClock
AbandonedLeaseIsReclaimed ==
  \A r \in Runtimes : Abandoned(r) ~> ~ Abandoned(r)
=============================================================================
