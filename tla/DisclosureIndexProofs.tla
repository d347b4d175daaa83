----------------------- MODULE DisclosureIndexProofs -----------------------
(***************************************************************************)
(* What holds of the disclosure indexer for any number of workers,         *)
(* filings, signatures, versions and attempts.                             *)
(*                                                                         *)
(* The inductive invariant adds to the checked invariants what a worker    *)
(* remembers (JobInv) and that only documents with text become ready       *)
(* (ReadyHasChunks): without the former a completion could concern no row, *)
(* without the latter an empty replacement could silence a ready peer.     *)
(***************************************************************************)
EXTENDS DisclosureIndex, TLAPS

Busy == {"picked", "embed", "failing"}

\* A worker past its candidate query remembers the row it picked.
JobInv == \A w \in Workers : pc[w] \in Busy => job[w] \in Index

ReadyHasChunks == \A i \in Index : status[i] = "ready" => HasChunks(i)

IInv ==
    /\ TypeOK
    /\ JobInv
    /\ OwnershipFollowsClaims
    /\ ReadyVectorsAreOfLastClaim
    /\ ReadyHasChunks
    /\ OneActiveIndex
    /\ DeadLettersAreExhausted

-----------------------------------------------------------------------------
\* Peers is symmetric, and peers have chunks together: chunking depends on
\* the filing and the backend only.
LEMMA PeersSymmetric ==
    ASSUME NEW i \in Index, NEW j \in Index, j \in Peers(i)
    PROVE  /\ i \in Peers(j) /\ i # j
           /\ HasChunks(i) <=> HasChunks(j)
<1>1. Dimensions(Signature(i)) = Dimensions(Signature(j))
  BY DEF Peers
<1>2. Signature(i) \in Modal <=> Signature(j) \in Modal
  BY <1>1 DEF Dimensions
<1>3. QED
  BY <1>1, <1>2 DEF Peers, HasChunks

\* The active flags after SetActive: at most one per group, as before it.
LEMMA SetActiveKeepsOne ==
    ASSUME TypeOK, NEW i \in Index, NEW value \in BOOLEAN, SetActive(i, value),
           \A k \in Index : active[k] => \A j \in Peers(k) : ~active[j]
    PROVE  /\ active' \in [Index -> BOOLEAN]
           /\ \A k \in Index : active'[k] => \A j \in Peers(k) : ~active'[j]
<1>1. active' \in [Index -> BOOLEAN]
  BY DEF SetActive, TypeOK
<1>2. ASSUME NEW k \in Index, active'[k], NEW j \in Peers(k)
      PROVE  ~active'[j]
  <2>1. j \in Index /\ j # k /\ k \in Peers(j)
    BY <1>2, PeersSymmetric DEF Peers
  <2>2. CASE k = i
    BY <2>1, <2>2 DEF SetActive
  <2>3. CASE k # i /\ j = i
    BY <1>2, <2>1, <2>3 DEF SetActive
  <2>4. CASE k # i /\ j # i
    BY <1>2, <2>1, <2>4 DEF SetActive
  <2>5. QED
    BY <2>2, <2>3, <2>4
<1>3. QED
  BY <1>1, <1>2

-----------------------------------------------------------------------------
\* The empty table satisfies the invariant.
LEMMA InitInv == Init => IInv
<1> SUFFICES ASSUME Init PROVE IInv
  OBVIOUS
<1>2. TypeOK
  BY IndexAssumption DEF Init, TypeOK, Status, Stage
<1>3. QED
  BY <1>2 DEF Init, IInv, JobInv, Busy, OwnershipFollowsClaims,
     ReadyVectorsAreOfLastClaim, ReadyHasChunks, OneActiveIndex,
     DeadLettersAreExhausted

\* Setting a flag keeps the flags Boolean.
LEMMA SetActiveType ==
    ASSUME NEW i, NEW value \in BOOLEAN, SetActive(i, value), active \in [Index -> BOOLEAN]
    PROVE  active' \in [Index -> BOOLEAN]
BY DEF SetActive

\* Every step keeps the types, and a busy worker keeps its row: Pick is the
\* only way into the busy stages and only leaving them clears the job.
LEMMA TypeStep == TypeOK /\ JobInv /\ [Next]_vars => TypeOK' /\ JobInv'
<1> SUFFICES ASSUME TypeOK, JobInv, [Next]_vars PROVE TypeOK' /\ JobInv'
  OBVIOUS
<1> USE IndexAssumption DEF TypeOK, JobInv, Busy, Stage, Status
<1>1. ASSUME NEW r \in Receipts, Collect(r) \/ Reparse(r) PROVE TypeOK' /\ JobInv'
  BY <1>1 DEF Collect, Reparse, row, locals
<1>2. ASSUME NEW i \in Index, LeaseExpires(i) PROVE TypeOK' /\ JobInv'
  BY <1>2 DEF LeaseExpires, locals
<1>3. ASSUME NEW w \in Workers, NEW s \in Signatures, NEW receipts \in RetrySets,
             Start(w, s, receipts)
      PROVE TypeOK' /\ JobInv'
  BY <1>3 DEF Start, row, locals
<1>4. ASSUME NEW w \in Workers, Enroll(w) PROVE TypeOK' /\ JobInv'
  BY <1>4 DEF Enroll, locals
<1>5. ASSUME NEW w \in Workers, Requeue(w) PROVE TypeOK' /\ JobInv'
  BY <1>5 DEF Requeue, locals
<1>6. ASSUME NEW w \in Workers, Sweep(w) PROVE TypeOK' /\ JobInv'
  BY <1>6 DEF Sweep, locals
<1>7. ASSUME NEW w \in Workers, Pick(w) PROVE TypeOK' /\ JobInv'
  BY <1>7 DEF Pick, Candidates, row, locals
<1>8. ASSUME NEW w \in Workers, EndRun(w) \/ Crash(w) PROVE TypeOK' /\ JobInv'
  BY <1>8 DEF EndRun, Crash, Forget, row, locals
<1>9. ASSUME NEW w \in Workers, GiveUp(w) \/ Reactivate(w) PROVE TypeOK' /\ JobInv'
  <2>1. CASE GiveUp(w)
    BY <2>1 DEF GiveUp, row
  <2>2. CASE Reactivate(w)
    <3>1. active' \in [Index -> BOOLEAN]
      BY <2>2, SetActiveType DEF Reactivate
    <3>2. QED
      BY <2>2, <3>1 DEF Reactivate
  <2>3. QED
    BY <1>9, <2>1, <2>2
<1>10. ASSUME NEW w \in Workers, Claim(w) PROVE TypeOK' /\ JobInv'
  BY <1>10 DEF Claim, Claimable, LeaseOver, Spent
<1>11. ASSUME NEW w \in Workers, EmbedBatch(w) PROVE TypeOK' /\ JobInv'
  BY <1>11 DEF EmbedBatch
<1>12. ASSUME NEW w \in Workers, EmbedFails(w) \/ LoseLease(w) PROVE TypeOK' /\ JobInv'
  BY <1>12 DEF EmbedFails, LoseLease, row, locals
<1>13. ASSUME NEW w \in Workers, Complete(w) PROVE TypeOK' /\ JobInv'
  <2>1. SetActive(job[w], HasChunks(job[w])) /\ HasChunks(job[w]) \in BOOLEAN
    BY <1>13 DEF Complete, HasChunks
  <2>2. active' \in [Index -> BOOLEAN]
    BY <2>1, SetActiveType
  <2>3. /\ chunks' \in [Index -> Workers \cup {None}]
        /\ status' \in [Index -> Status]
    BY <1>13 DEF Complete
  <2>4. /\ attempts' \in [Index -> 0..MaxAttempts]
        /\ owner' \in [Index -> Workers \cup {None}]
        /\ lease' \in [Index -> {"none", "held", "expired"}]
    BY <1>13 DEF Complete
  <2>5. /\ pc' \in [Workers -> Stage] /\ job' \in [Workers -> Index \cup {None}]
        /\ JobInv'
    BY <1>13 DEF Complete
  <2>6. QED
    BY <1>13, <2>2, <2>3, <2>4, <2>5 DEF Complete
<1>14. ASSUME NEW w \in Workers, Fail(w) PROVE TypeOK' /\ JobInv'
  BY <1>14 DEF Fail
<1>15. CASE UNCHANGED vars
  BY <1>15 DEF vars
<1>16. QED
  BY <1>1, <1>2, <1>3, <1>4, <1>5, <1>6, <1>7, <1>8, <1>9, <1>10, <1>11,
     <1>12, <1>13, <1>14, <1>15 DEF Next, Work

RowInv ==
    /\ OwnershipFollowsClaims
    /\ ReadyVectorsAreOfLastClaim
    /\ ReadyHasChunks
    /\ OneActiveIndex
    /\ DeadLettersAreExhausted

\* Every step leaves the table alone or is one of the eight that write it.
LEMMA RowActions ==
    ASSUME [Next]_vars
    PROVE  \/ UNCHANGED row
           \/ \E i \in Index : LeaseExpires(i)
           \/ \E w \in Workers : \/ Enroll(w) \/ Requeue(w) \/ Sweep(w)
                                 \/ Reactivate(w) \/ Claim(w) \/ EmbedBatch(w)
                                 \/ Complete(w) \/ Fail(w)
BY DEF Next, Work, vars, row, Collect, Reparse, Start, Pick, EndRun, GiveUp,
       EmbedFails, LoseLease, Crash

\* The part of the invariant that speaks of the table survives every step.
LEMMA RowStep == TypeOK /\ JobInv /\ RowInv /\ [Next]_vars => RowInv'
<1> SUFFICES ASSUME TypeOK, JobInv, RowInv, [Next]_vars PROVE RowInv'
  OBVIOUS
<1> USE IndexAssumption DEF RowInv, OwnershipFollowsClaims,
        ReadyVectorsAreOfLastClaim, ReadyHasChunks, DeadLettersAreExhausted
<1>1. CASE UNCHANGED row
  BY <1>1 DEF row, OneActiveIndex, HasChunks, Peers
<1>2. ASSUME NEW i \in Index, LeaseExpires(i) PROVE RowInv'
  BY <1>2 DEF LeaseExpires, TypeOK, OneActiveIndex, HasChunks, Peers
<1>3. ASSUME NEW w \in Workers, Enroll(w) PROVE RowInv'
  BY <1>3 DEF Enroll, TypeOK, OneActiveIndex, HasChunks, Peers
<1>4. ASSUME NEW w \in Workers, Requeue(w) PROVE RowInv'
  BY <1>4 DEF Requeue, Revivable, TypeOK, OneActiveIndex, HasChunks, Peers
<1>5. ASSUME NEW w \in Workers, Sweep(w) PROVE RowInv'
  BY <1>5 DEF Sweep, Exhausted, LeaseOver, Spent, TypeOK, OneActiveIndex, HasChunks, Peers
<1>6. ASSUME NEW w \in Workers, Reactivate(w) PROVE RowInv'
  <2>1. job[w] \in Index /\ status[job[w]] = "ready" /\ SetActive(job[w], TRUE)
    BY <1>6 DEF Reactivate, JobInv, Busy
  <2>2. \A k \in Index : active[k] => \A j \in Peers(k) : ~active[j]
    BY DEF OneActiveIndex
  <2>3. \A k \in Index : active'[k] => \A j \in Peers(k) : ~active'[j]
    BY <2>1, <2>2, SetActiveKeepsOne
  <2>4. \A k \in Index : active'[k] => status[k] = "ready"
    BY <2>1 DEF SetActive, OneActiveIndex
  <2>5. UNCHANGED <<status, attempts, owner, lease, chunks, lastClaim>>
    BY <1>6 DEF Reactivate
  <2>6. OneActiveIndex'
    BY <2>3, <2>4, <2>5 DEF OneActiveIndex, Peers
  <2>7. QED
    BY <2>5, <2>6 DEF HasChunks
<1>7. ASSUME NEW w \in Workers, Claim(w) PROVE RowInv'
  <2>1. job[w] \in Index /\ status[job[w]] \notin {"ready", "dead_letter", "empty"}
    BY <1>7 DEF Claim, Claimable, LeaseOver, Spent, JobInv, Busy
  <2>2. OneActiveIndex'
    BY <1>7, <2>1 DEF Claim, TypeOK, OneActiveIndex, Peers
  <2>3. QED
    BY <1>7, <2>1, <2>2 DEF Claim, TypeOK, HasChunks
<1>8. ASSUME NEW w \in Workers, EmbedBatch(w) PROVE RowInv'
  BY <1>8 DEF EmbedBatch, Owned, JobInv, Busy, TypeOK, OneActiveIndex, HasChunks, Peers
<1>9. ASSUME NEW w \in Workers, Complete(w) PROVE RowInv'
  <2> DEFINE i == job[w]
  <2>1. i \in Index /\ owner[i] = w /\ status[i] = "processing"
    BY <1>9 DEF Complete, Completable, Owned, JobInv, Busy
  <2>2. lastClaim[i] = w /\ ~active[i] /\ chunks[i] = None
    BY <2>1 DEF TypeOK, OneActiveIndex
  <2>3. SetActive(i, HasChunks(i)) /\ HasChunks(i) \in BOOLEAN
    BY <1>9 DEF Complete, HasChunks
  <2>4. \A k \in Index : active[k] => \A j \in Peers(k) : ~active[j]
    BY DEF OneActiveIndex
  <2>5. \A k \in Index : active'[k] => \A j \in Peers(k) : ~active'[j]
    BY <2>1, <2>3, <2>4, SetActiveKeepsOne
  <2>6. \A k \in Index : status'[k] = IF k = i THEN IF HasChunks(i) THEN "ready" ELSE "empty"
                                      ELSE status[k]
    BY <1>9, <2>1 DEF Complete, TypeOK
  <2>7. \A k \in Index : active'[k] => status'[k] = "ready"
    BY <2>1, <2>3, <2>6 DEF SetActive, OneActiveIndex
  <2>8. OneActiveIndex'
    BY <2>5, <2>7 DEF OneActiveIndex, Peers
  <2>9. OwnershipFollowsClaims' /\ DeadLettersAreExhausted'
    BY <1>9, <2>1, <2>6 DEF Complete, TypeOK
  <2>10. ReadyVectorsAreOfLastClaim' /\ ReadyHasChunks'
    BY <1>9, <2>1, <2>2, <2>6 DEF Complete, TypeOK, HasChunks
  <2>11. QED
    BY <2>8, <2>9, <2>10
<1>10. ASSUME NEW w \in Workers, Fail(w) PROVE RowInv'
  BY <1>10 DEF Fail, Spent, JobInv, Busy, TypeOK, OneActiveIndex, HasChunks, Peers
<1>11. QED
  BY <1>1, <1>2, <1>3, <1>4, <1>5, <1>6, <1>7, <1>8, <1>9, <1>10, RowActions

\* The inductive invariant holds in every reachable state.
LEMMA Inductive == Spec => []IInv
<1>1. IInv <=> TypeOK /\ JobInv /\ RowInv
  BY DEF IInv, RowInv
<1>2. IInv /\ [Next]_vars => IInv'
  <2>1. RowInv' /\ TypeOK' /\ JobInv' => IInv'
    BY DEF IInv, RowInv
  <2>2. QED
    BY <1>1, <2>1, TypeStep, RowStep
<1>3. QED
  BY InitInv, <1>2, PTL DEF Spec

-----------------------------------------------------------------------------
\* Every variable keeps its type; in particular no row is ever claimed more
\* often than max_attempts since its last result or explicit retry.
THEOREM TypeCorrect == Spec => []TypeOK
<1>1. IInv => TypeOK
  BY DEF IInv
<1>2. QED
  BY <1>1, Inductive, PTL

\* Ownership of a row always means the latest claim of it.
THEOREM OwnershipCorrect == Spec => []OwnershipFollowsClaims
<1>1. IInv => OwnershipFollowsClaims
  BY DEF IInv
<1>2. QED
  BY <1>1, Inductive, PTL

\* No result of a lost lease is ever stored as a ready index.
THEOREM VectorsCorrect == Spec => []ReadyVectorsAreOfLastClaim
<1>1. IInv => ReadyVectorsAreOfLastClaim
  BY DEF IInv
<1>2. QED
  BY <1>1, Inductive, PTL

\* The unique index on active rows and the active check are never violated.
THEOREM ActiveCorrect == Spec => []OneActiveIndex
<1>1. IInv => OneActiveIndex
  BY DEF IInv
<1>2. QED
  BY <1>1, Inductive, PTL

\* Nothing is buried before its budget is spent.
THEOREM DeadLettersCorrect == Spec => []DeadLettersAreExhausted
<1>1. IInv => DeadLettersAreExhausted
  BY DEF IInv
<1>2. QED
  BY <1>1, Inductive, PTL

\* Search never reads an index of another signature, of an older document or
\* without its vectors.
THEOREM SearchCorrect == Spec => []SearchReadsWholeIndex
<1>1. IInv => SearchReadsWholeIndex
  <2> SUFFICES ASSUME IInv, NEW r \in Receipts, NEW s \in Signatures,
                      SearchState(r, s) = "ready"
               PROVE  LET i == <<r, versions[r], s>>
                      IN  i \in Index /\ HasChunks(i) /\ chunks[i] # None
    BY DEF SearchReadsWholeIndex
  <2> DEFINE own == {i \in {i \in Index : Receipt(i) = r /\ Visible(i, s)} : Signature(i) = s}
  <2>1. own # {} /\ \A i \in own : status[i] # "empty"
    BY DEF SearchState
  <2>2. PICK i \in own : TRUE
    BY <2>1
  <2>3. i \in Index /\ Receipt(i) = r /\ Signature(i) = s /\ Latest(i) /\ status[i] = "ready"
    BY <2>1, <2>2 DEF Visible
  <2>4. i = <<r, versions[r], s>>
    BY <2>3 DEF Index, Receipt, Version, Signature, Latest
  <2>5. QED
    BY <2>3, <2>4 DEF IInv, ReadyHasChunks, ReadyVectorsAreOfLastClaim
<1>2. QED
  BY <1>1, Inductive, PTL

\* A held lease is released by its owner's own run only.
THEOREM LeaseCorrect == Spec => HeldLeaseIsRespected
<1> DEFINE A == \A i \in Index : lease[i] = "held" /\ owner'[i] # owner[i] =>
                    \E w \in Workers : /\ owner[i] = w /\ job[w] = i /\ job'[w] = None
                                       /\ pc[w] \in {"embed", "failing"}
<1>1. IInv /\ [Next]_vars => A
  <2> SUFFICES ASSUME IInv, [Next]_vars, NEW i \in Index, lease[i] = "held",
                      owner'[i] # owner[i]
               PROVE  \E w \in Workers : /\ owner[i] = w /\ job[w] = i /\ job'[w] = None
                                         /\ pc[w] \in {"embed", "failing"}
    OBVIOUS
  <2> USE IndexAssumption DEF IInv, TypeOK, OwnershipFollowsClaims
  <2>1. status[i] = "processing"
    OBVIOUS
  <2>2. ~UNCHANGED row
    BY DEF row
  <2>3. PICK w \in Workers : \/ Requeue(w) \/ Sweep(w) \/ Claim(w)
                             \/ Complete(w) \/ Fail(w)
    BY <2>2, RowActions DEF LeaseExpires, Enroll, Reactivate, EmbedBatch
  <2>4. ~Requeue(w) /\ ~Sweep(w)
    BY <2>1 DEF Requeue, Revivable, Sweep, Exhausted, LeaseOver, Spent
  <2>5. ~Claim(w)
    BY <2>1 DEF Claim, Claimable, LeaseOver, Spent, JobInv, Busy
  <2>6. CASE Complete(w)
    BY <2>6 DEF Complete, Completable, Owned, JobInv, Busy
  <2>7. CASE Fail(w)
    BY <2>7 DEF Fail, Spent, JobInv, Busy
  <2>8. QED
    BY <2>3, <2>4, <2>5, <2>6, <2>7
<1>2. QED
  BY <1>1, Inductive, PTL DEF Spec, HeldLeaseIsRespected

\* Stored results are never taken back or rewritten.
THEOREM ResultsCorrect == Spec => ResultsAreFinal
<1> DEFINE A == \A i \in Index : status[i] \in {"ready", "empty"} =>
                    status'[i] = status[i] /\ chunks'[i] = chunks[i]
<1>1. IInv /\ [Next]_vars => A
  <2> SUFFICES ASSUME IInv, [Next]_vars, NEW i \in Index, status[i] \in {"ready", "empty"}
               PROVE  status'[i] = status[i] /\ chunks'[i] = chunks[i]
    OBVIOUS
  <2> USE IndexAssumption DEF IInv, TypeOK, OwnershipFollowsClaims
  <2>1. CASE UNCHANGED <<status, chunks>>
    BY <2>1
  <2>2. ASSUME NEW w \in Workers,
               Enroll(w) \/ Requeue(w) \/ Sweep(w) \/ Claim(w) \/ Complete(w) \/ Fail(w)
        PROVE  status'[i] = status[i] /\ chunks'[i] = chunks[i]
    <3>1. CASE Enroll(w) \/ Requeue(w) \/ Sweep(w)
      BY <3>1 DEF Enroll, Requeue, Revivable, Sweep, Exhausted, LeaseOver, Spent
    <3>2. CASE Claim(w)
      BY <3>2 DEF Claim, Claimable, LeaseOver, Spent, JobInv, Busy
    <3>3. CASE Complete(w)
      BY <3>3 DEF Complete, Completable, Owned, JobInv, Busy
    <3>4. CASE Fail(w)
      BY <3>4 DEF Fail, Spent, JobInv, Busy
    <3>5. QED
      BY <2>2, <3>1, <3>2, <3>3, <3>4
  <2>3. QED
    BY <2>1, <2>2, RowActions DEF row, LeaseExpires, Reactivate, EmbedBatch
<1>2. QED
  BY <1>1, Inductive, PTL DEF Spec, ResultsAreFinal

\* A document that can be searched stays searchable in that dimension.
THEOREM SearchableCorrect == Spec => SearchableStays
<1> DEFINE A == \A i \in Index : active[i] => active'[i] \/ \E j \in Peers(i) : active'[j]
<1>1. IInv /\ [Next]_vars => A
  <2> SUFFICES ASSUME IInv, [Next]_vars, NEW i \in Index, active[i], ~active'[i]
               PROVE  \E j \in Peers(i) : active'[j]
    OBVIOUS
  <2> USE DEF IInv
  <2>1. PICK w \in Workers : Reactivate(w) \/ Complete(w)
    BY RowActions DEF row, LeaseExpires, Enroll, Requeue, Sweep, Claim, EmbedBatch, Fail
  <2> DEFINE k == job[w]
  <2>2. /\ k \in Index
        /\ \E value \in BOOLEAN : SetActive(k, value) /\ (value = HasChunks(k) \/ value = TRUE)
    <3>1. CASE Reactivate(w)
      BY <3>1 DEF Reactivate, JobInv, Busy
    <3>2. CASE Complete(w)
      <4>1. k \in Index /\ SetActive(k, HasChunks(k))
        BY <3>2 DEF Complete, JobInv, Busy
      <4>2. HasChunks(k) \in BOOLEAN
        BY DEF HasChunks
      <4>3. QED
        BY <4>1, <4>2
    <3>3. QED
      BY <2>1, <3>1, <3>2
  <2>3. PICK value \in BOOLEAN : SetActive(k, value) /\ (value = HasChunks(k) \/ value = TRUE)
    BY <2>2
  <2>4. HasChunks(i) /\ status[i] = "ready"
    BY DEF OneActiveIndex, ReadyHasChunks
  <2>5. i = k \/ i \in Peers(k)
    BY <2>3 DEF SetActive
  <2>6. CASE i = k
    BY <2>2, <2>3, <2>4, <2>6 DEF SetActive
  <2>7. CASE i \in Peers(k)
    <3>1. k \in Peers(i) /\ HasChunks(k)
      BY <2>2, <2>4, <2>7, PeersSymmetric
    <3>2. active'[k]
      BY <2>2, <2>3, <3>1 DEF SetActive
    <3>3. QED
      BY <3>1, <3>2
  <2>8. QED
    BY <2>5, <2>6, <2>7
<1>2. QED
  BY <1>1, Inductive, PTL DEF Spec, SearchableStays

\* Only an explicit retry brings a dead letter back.
THEOREM RetryCorrect == Spec => DeadLetterNeedsRetry
<1> DEFINE A == \A i \in Index : status[i] = "dead_letter" /\ status'[i] # "dead_letter" =>
                    \E w \in Workers : pc[w] = "requeue" /\ Receipt(i) \in retry[w]
<1>1. IInv /\ [Next]_vars => A
  <2> SUFFICES ASSUME IInv, [Next]_vars, NEW i \in Index, status[i] = "dead_letter",
                      status'[i] # "dead_letter"
               PROVE  \E w \in Workers : pc[w] = "requeue" /\ Receipt(i) \in retry[w]
    OBVIOUS
  <2> USE IndexAssumption DEF IInv, TypeOK, OwnershipFollowsClaims
  <2>1. PICK w \in Workers : \/ Enroll(w) \/ Requeue(w) \/ Sweep(w) \/ Claim(w)
                             \/ Complete(w) \/ Fail(w)
    BY RowActions DEF row, LeaseExpires, Reactivate, EmbedBatch
  <2>2. ~Enroll(w) /\ ~Sweep(w)
    BY DEF Enroll, Sweep, Exhausted, LeaseOver, Spent
  <2>3. ~Claim(w)
    BY DEF Claim, Claimable, LeaseOver, Spent, JobInv, Busy
  <2>4. ~Complete(w) /\ ~Fail(w)
    BY DEF Complete, Completable, Owned, Fail, Spent, JobInv, Busy
  <2>5. Requeue(w)
    BY <2>1, <2>2, <2>3, <2>4
  <2>6. QED
    BY <2>5 DEF Requeue, Revivable
<1>2. QED
  BY <1>1, Inductive, PTL DEF Spec, DeadLetterNeedsRetry

-----------------------------------------------------------------------------
(* What the runs check is put together of the theorems above.              *)

\* A row is in the state its claims have brought it to.
THEOREM RowsCorrect == Spec => []RowsFollowClaims
<1>1. TypeOK /\ OwnershipFollowsClaims /\ DeadLettersAreExhausted => RowsFollowClaims
  BY DEF RowsFollowClaims
<1>2. QED
  BY <1>1, TypeCorrect, OwnershipCorrect, DeadLettersCorrect, PTL

\* Leases, results and dead letters are safe from the other runs.
THEOREM WorkCorrect == Spec => WorkIsKept
  BY LeaseCorrect, ResultsCorrect, RetryCorrect DEF WorkIsKept

\* A document with an active index has one, and exactly one, through every step.
THEOREM ActiveStaysCorrect == Spec => OneStaysActive
  BY ActiveCorrect, SearchableCorrect DEF OneStaysActive

=============================================================================
