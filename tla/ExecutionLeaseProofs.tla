------------------------ MODULE ExecutionLeaseProofs ------------------------
\* Theorems about the execution lease, for any agents, runtimes and TTL.
EXTENDS ExecutionLease, TLAPS

\* A stamped write leaves a's own lease in the row (writeRow, the lease
\* value claimLease and renewExecutionLease build).
LEMMA StampedIsLease ==
  ASSUME TypeOK, NEW a \in Agents, Stamped(a)
  PROVE  row' \in Lease /\ row' # NoRow /\ row'.holder = IdOf[a]
<1>1. PICK t \in op[a].since .. now : row' = [holder |-> IdOf[a], at |-> t]
  BY DEF Stamped
<1>2. op[a].since \in Nat /\ now \in Int
  BY LeaseAssumption DEF TypeOK
<1>3. t \in Nat
  BY <1>1, <1>2
<1>4. IdOf[a] \in Runtimes
  BY LeaseAssumption
<1> QED
  BY <1>1, <1>3, <1>4, LeaseAssumption DEF Lease

\* Idle and what ClaimRead and its follow-ups store are well typed.
LEMMA IdleTyped ==
  Idle \in [pc: Pcs, seen: Lease \cup {NoRow}, since: Nat, retries: {0, 1}]
BY DEF Idle, At, Pcs

-----------------------------------------------------------------------------
\* Type correctness.

\* A step of a claim keeps the types.
LEMMA ClaimTyped ==
  ASSUME TypeOK, NEW a \in Agents, Claim(a)
  PROVE  TypeOK'
<1> USE LeaseAssumption
<1>1. IdOf[a] \in Runtimes
  OBVIOUS
<1>2. CASE ClaimRead(a)
  <2>1. UNCHANGED <<now, row>> /\ faults' \in 0 .. MaxFaults /\ working' \subseteq Runtimes
    BY <1>1, <1>2 DEF ClaimRead, TypeOK, Fault, Stands
  <2>2. op' \in [Agents -> [pc: Pcs, seen: Lease \cup {NoRow}, since: Nat, retries: {0, 1}]]
    BY <1>2, IdleTyped DEF ClaimRead, TypeOK, Return, Pcs
  <2> QED
    BY <2>1, <2>2 DEF TypeOK
<1>3. CASE ClaimCas(a)
  <2>1. now' = now /\ faults' \in 0 .. MaxFaults /\ working' \subseteq Runtimes
    BY <1>1, <1>3 DEF ClaimCas, TypeOK, Fault, Stands, Executes
  <2>2. row' \in Lease \cup {NoRow}
    BY <1>3, StampedIsLease DEF ClaimCas, TypeOK
  <2>3. op' \in [Agents -> [pc: Pcs, seen: Lease \cup {NoRow}, since: Nat, retries: {0, 1}]]
    BY <1>3, IdleTyped DEF ClaimCas, TypeOK, Return, Pcs, Idle, At
  <2> QED
    BY <2>1, <2>2, <2>3 DEF TypeOK
<1>4. CASE ClaimReread(a)
  <2>1. UNCHANGED <<now, row>> /\ faults' \in 0 .. MaxFaults /\ working' \subseteq Runtimes
    BY <1>1, <1>4 DEF ClaimReread, TypeOK, Fault, Stands, Executes
  <2>2. op' \in [Agents -> [pc: Pcs, seen: Lease \cup {NoRow}, since: Nat, retries: {0, 1}]]
    BY <1>4, IdleTyped DEF ClaimReread, MayRetry, TypeOK, Return, Pcs
  <2> QED
    BY <2>1, <2>2 DEF TypeOK
<1>5. CASE ClaimCreate(a)
  <2>1. now' = now /\ faults' \in 0 .. MaxFaults /\ working' \subseteq Runtimes
    BY <1>1, <1>5 DEF ClaimCreate, TypeOK, Fault, Stands, Executes
  <2>2. row' \in Lease \cup {NoRow}
    BY <1>5, StampedIsLease DEF ClaimCreate, TypeOK
  <2>3. op' \in [Agents -> [pc: Pcs, seen: Lease \cup {NoRow}, since: Nat, retries: {0, 1}]]
    BY <1>5, IdleTyped DEF ClaimCreate, TypeOK, Return
  <2> QED
    BY <2>1, <2>2, <2>3 DEF TypeOK
<1> QED
  BY <1>2, <1>3, <1>4, <1>5 DEF Claim

\* A step of a renewal keeps the types.
LEMMA RenewTyped ==
  ASSUME TypeOK, NEW a \in Agents, Renew(a)
  PROVE  TypeOK'
<1> USE LeaseAssumption
<1>1. now' = now /\ faults' \in 0 .. MaxFaults /\ working' \subseteq Runtimes
  BY DEF Renew, RenewRead, RenewWrite, TypeOK, Fault, Stands
<1>2. row' \in Lease \cup {NoRow}
  BY StampedIsLease DEF Renew, RenewRead, RenewWrite, TypeOK
<1>3. op' \in [Agents -> [pc: Pcs, seen: Lease \cup {NoRow}, since: Nat, retries: {0, 1}]]
  BY IdleTyped DEF Renew, RenewRead, RenewWrite, TypeOK, Return, Pcs, Idle, At
<1> QED
  BY <1>1, <1>2, <1>3 DEF TypeOK

\* A step of a release keeps the types.
LEMMA ReleaseTyped ==
  ASSUME TypeOK, NEW a \in Agents, Release(a)
  PROVE  TypeOK'
<1> USE LeaseAssumption
<1>1. now' = now /\ faults' \in 0 .. MaxFaults /\ working' \subseteq Runtimes
  BY DEF Release, ReleaseRead, ReleaseDelete, TypeOK, Fault, Stands
<1>2. row' \in Lease \cup {NoRow}
  BY DEF Release, ReleaseRead, ReleaseDelete, TypeOK
<1>3. op' \in [Agents -> [pc: Pcs, seen: Lease \cup {NoRow}, since: Nat, retries: {0, 1}]]
  BY IdleTyped DEF Release, ReleaseRead, ReleaseDelete, TypeOK, Return, Pcs, At
<1> QED
  BY <1>1, <1>2, <1>3 DEF TypeOK

\* Every reachable state of the lease protocol is well typed.
THEOREM Typing == Spec => []TypeOK
<1>1. Init => TypeOK
  BY LeaseAssumption, IdleTyped DEF Init, TypeOK
<1>2. TypeOK /\ [Next]_vars => TypeOK'
  <2> SUFFICES ASSUME TypeOK, [Next]_vars
               PROVE  TypeOK'
    OBVIOUS
  <2>1. ASSUME NEW a \in Agents, Claim(a) \/ Renew(a) \/ Release(a)
        PROVE  TypeOK'
    BY <2>1, ClaimTyped, RenewTyped, ReleaseTyped
  <2>2. ASSUME NEW r \in Runtimes, Crash(r)
        PROVE  TypeOK'
    BY <2>2, IdleTyped DEF Crash, TypeOK
  <2>3. CASE Tick
    BY <2>3, LeaseAssumption DEF Tick, TypeOK
  <2>4. CASE UNCHANGED vars
    BY <2>4 DEF vars, TypeOK
  <2> QED
    BY <2>1, <2>2, <2>3, <2>4 DEF Next
<1> QED
  BY <1>1, <1>2, PTL DEF Spec

-----------------------------------------------------------------------------
\* A take-over spares a live lease.

\* What a claim knows while its conditional write is under way: the lease it
\* read had already expired, unless it was the runtime's own.  Time cannot
\* make an expired lease live again, so this survives every step of the others.
SeenExpired ==
  \A a \in Agents :
    op[a].pc = "claim_cas" =>
      /\ op[a].seen \in Lease
      /\ op[a].seen.holder # IdOf[a] => op[a].seen.at + TTL <= now

LeaseInv == TypeOK /\ SeenExpired

\* What a claim has read as expired stays expired.
LEMMA SeenExpiredStep ==
  ASSUME LeaseInv, [Next]_vars
  PROVE  SeenExpired'
<1> USE LeaseAssumption DEF LeaseInv
<1> SUFFICES ASSUME NEW b \in Agents, op'[b].pc = "claim_cas"
             PROVE  /\ op'[b].seen \in Lease
                    /\ op'[b].seen.holder # IdOf[b] => op'[b].seen.at + TTL <= now'
  BY DEF SeenExpired
<1>1. now' \in Int /\ now \in Int /\ now <= now'
  <2>1. now \in Int
    BY DEF TypeOK
  <2>2. now' = now \/ now' = now + 1
    BY DEF Next, Claim, ClaimRead, ClaimCas, ClaimReread, ClaimCreate, Renew,
           RenewRead, RenewWrite, Release, ReleaseRead, ReleaseDelete, Crash,
           Tick, vars
  <2> QED
    BY <2>1, <2>2
<1>2. CASE op'[b] = op[b]
  <2>1. /\ op[b].seen \in Lease
        /\ op[b].seen.holder # IdOf[b] => op[b].seen.at + TTL <= now
    BY <1>2 DEF SeenExpired
  <2>2. op[b].seen.at \in Nat
    BY <2>1 DEF Lease
  <2> QED
    BY <1>1, <1>2, <2>1, <2>2
<1>3. CASE op'[b] # op[b]
  <2>1. ASSUME NEW a \in Agents, ClaimRead(a)
        PROVE  /\ op'[b].seen \in Lease
               /\ op'[b].seen.holder # IdOf[b] => op'[b].seen.at + TTL <= now'
    <3>1. a = b
      BY <2>1, <1>3 DEF ClaimRead, Return, TypeOK
    <3>2. row # NoRow /\ ~ HeldElsewhere(a) /\ op'[b].seen = row
      BY <2>1, <3>1 DEF ClaimRead, Return, Idle, At, TypeOK
    <3>3. row \in Lease /\ row.at \in Nat
      BY <3>2 DEF TypeOK, Lease
    <3> QED
      BY <2>1, <3>1, <3>2, <3>3, <1>1 DEF HeldElsewhere, Expired, ClaimRead
  <2>2. ASSUME NEW a \in Agents,
               ClaimCas(a) \/ ClaimReread(a) \/ ClaimCreate(a) \/ Renew(a) \/ Release(a)
        PROVE  FALSE
    <3>1. a = b
      BY <2>2, <1>3 DEF ClaimCas, ClaimReread, ClaimCreate, Renew, RenewRead, RenewWrite,
                        Release, ReleaseRead, ReleaseDelete, Return, TypeOK
    <3>2. op'[b].pc # "claim_cas"
      BY <2>2, <3>1, <1>3 DEF ClaimCas, ClaimReread, ClaimCreate, Renew, RenewRead,
                        RenewWrite, Release, ReleaseRead, ReleaseDelete, Return,
                        Idle, At, TypeOK
    <3> QED
      BY <3>2
  <2>3. ASSUME NEW r \in Runtimes, Crash(r)
        PROVE  FALSE
    BY <2>3, <1>3 DEF Crash, Idle, At
  <2>4. CASE Tick \/ UNCHANGED vars
    BY <2>4, <1>3 DEF Tick, vars
  <2> QED
    BY <2>1, <2>2, <2>3, <2>4 DEF Next, Claim
<1> QED
  BY <1>2, <1>3

\* The inductive invariant of the lease holds throughout.
LEMMA LeaseInvariance == Spec => []LeaseInv
<1>1. Init => SeenExpired
  BY DEF Init, SeenExpired, Idle, At
<1>2. LeaseInv /\ [Next]_vars => SeenExpired'
  BY SeenExpiredStep
<1> QED
  BY <1>1, <1>2, Typing, PTL DEF Spec, LeaseInv

\* Whatever fails or interleaves, a claim that read another runtime's lease
\* overwrites the row only when what it overwrites has expired (claimLease).
THEOREM TakeOverSparesLiveLease == Spec => ClaimSparesLiveLease
<1>1. LeaseInv /\ [Next]_vars
        => [\A a \in Agents : TakeOver(a) /\ row' # row => Expired(row)]_vars
  <2> SUFFICES ASSUME LeaseInv, NEW a \in Agents, TakeOver(a), row' # row
               PROVE  Expired(row)
    OBVIOUS
  <2>1. Unwritten(a)
    BY DEF TakeOver, ClaimCas
  <2>2. op[a].seen \in Lease /\ op[a].seen.at + TTL <= now
    BY DEF LeaseInv, SeenExpired, TakeOver, ClaimCas
  <2>3. op[a].seen.at \in Nat /\ now \in Int
    BY <2>2 DEF Lease, LeaseInv, TypeOK
  <2> QED
    BY <2>1, <2>2, <2>3, LeaseAssumption DEF Unwritten, Expired
<1> QED
  BY <1>1, LeaseInvariance, PTL DEF Spec, ClaimSparesLiveLease

-----------------------------------------------------------------------------
\* No runtime executes on a claim nobody wrote.

\* A runtime starts to execute only in a step that leaves its name in the row,
\* whichever branch of claimLease answered "acquired".
THEOREM AcquiredIsWritten == Spec => NoInventedClaim
<1>1. TypeOK /\ [Next]_vars
        => [\A r \in working' \ working : row' # NoRow /\ row'.holder = r]_vars
  <2> SUFFICES ASSUME TypeOK, Next, NEW r \in working' \ working
               PROVE  row' # NoRow /\ row'.holder = r
    OBVIOUS
  <2>1. PICK a \in Agents : Claim(a) /\ Executes(a)
    BY DEF Next, Claim, ClaimRead, ClaimCas, ClaimReread, ClaimCreate, Renew,
           RenewRead, RenewWrite, Release, ReleaseRead, ReleaseDelete, Crash,
           Tick, Stands
  <2>2. r = IdOf[a]
    BY <2>1 DEF Executes
  <2>3. CASE ClaimReread(a)
    BY <2>2, <2>3 DEF ClaimReread, Names, Stands
  <2>4. CASE ClaimCas(a)
    BY <2>2, <2>4, StampedIsLease DEF ClaimCas, Stands
  <2>5. CASE ClaimCreate(a)
    BY <2>2, <2>5, StampedIsLease DEF ClaimCreate, Stands
  <2>6. CASE ClaimRead(a)
    BY <2>6 DEF ClaimRead, Stands
  <2> QED
    BY <2>1, <2>3, <2>4, <2>5, <2>6 DEF Claim
<1> QED
  BY <1>1, Typing, PTL DEF Spec, NoInventedClaim
=============================================================================
