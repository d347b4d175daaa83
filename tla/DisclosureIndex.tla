--------------------------- MODULE DisclosureIndex ---------------------------
(***************************************************************************)
(* The disclosure indexer: processes of services/disclosure-indexer that   *)
(* share the table disclosure_indexes.  A row is one (document, signature) *)
(* pair; a run enrols the missing rows, optionally requeues dead letters,  *)
(* buries exhausted rows and then claims rows one by one under a lease,    *)
(* embeds their chunks outside any transaction and stores the vectors in a *)
(* final transaction.  Every action is one database transaction, or the    *)
(* local step between two of them.                                         *)
(*                                                                         *)
(* Time is abstracted to the only thing the queries compare: a lease is    *)
(* held until LeaseExpires turns it into an expired one, at any moment.    *)
(***************************************************************************)
EXTENDS Naturals, FiniteSets

CONSTANTS
    Workers,      \* processes that may run the indexer at the same time
    Receipts,     \* filings whose extraction is ready, once collected
    Signatures,   \* embedding configurations a run may be started with
    Modal,        \* the signatures of the contextual (1024-dimension) backend
    Narrative,    \* filings with narrative text, what the Modal backend embeds
    Text,         \* filings with any text, what the other backend embeds
    MaxVersions,  \* bound: documents stored for one filing
    MaxAttempts,  \* settings.max_attempts
    Batches,      \* bound: embedding calls one document needs
    Limit,        \* settings.document_limit
    RetrySets,    \* the --retry-receipt arguments a run may be started with
    None          \* SQL NULL

ASSUME IndexAssumption ==
    /\ Modal \subseteq Signatures
    /\ Narrative \subseteq Text /\ Text \subseteq Receipts
    /\ MaxVersions \in Nat \ {0} /\ MaxAttempts \in 1..5
    /\ Batches \in Nat \ {0} /\ Limit \in Nat \ {0}
    /\ RetrySets \subseteq SUBSET Receipts
    /\ None \notin Workers /\ None \notin Signatures

Index == Receipts \X (1..MaxVersions) \X Signatures

ASSUME NoneIsNoIndex == None \notin Index

Status == {"absent", "pending", "processing", "ready", "empty", "failed",
           "dead_letter"}
Stage == {"idle", "enroll", "requeue", "sweep", "claim", "picked", "embed",
          "failing"}

VARIABLES
    versions,   \* filing -> number of its stored documents; the newest counts
    status,     \* the columns of disclosure_indexes
    attempts,
    active,
    owner,
    lease,
    chunks,     \* index -> the worker whose vectors are stored, or None
    lastClaim,  \* history: index -> the worker that claimed it last, or None
    pc,         \* worker -> where its run stands
    \* the locals of its run:
    sig,        \* worker -> settings.index_signature
    retry,      \* worker -> retry_receipts
    attempted,  \* worker -> rows tried by this run
    job,        \* worker -> the row at hand, or None
    left        \* worker -> batches still to embed

row == <<status, attempts, active, owner, lease, chunks, lastClaim>>
locals == <<sig, retry, attempted, job, left>>
vars == <<versions, status, attempts, active, owner, lease, chunks, lastClaim,
          pc, sig, retry, attempted, job, left>>

-----------------------------------------------------------------------------
(* What the queries compare.                                               *)

Receipt(i) == i[1]
Version(i) == i[2]
Signature(i) == i[3]

Dimensions(s) == IF s \in Modal THEN 1024 ELSE 2000

\* d.id = (SELECT max(v.id) ... ) and r.status = 'ready'
Latest(i) == Version(i) = versions[Receipt(i)]

\* The rows a completed or restored index takes the active flag from.
Peers(i) == {j \in Index : /\ j # i
                           /\ Receipt(j) = Receipt(i)
                           /\ Version(j) = Version(i)
                           /\ Dimensions(Signature(j)) = Dimensions(Signature(i))}

\* lease_until < now()
LeaseIgnored(i) == lease[i] # "none"      \* faulty: any processing row
LeaseNeverOver(i) == FALSE                \* faulty: no processing row
LeaseOver(i) == lease[i] = "expired"

\* The attempt budget of a row.
SpentLate(i) == attempts[i] > MaxAttempts         \* faulty: one attempt more
SpentEarly(i) == attempts[i] >= MaxAttempts - 1   \* faulty: one attempt less
Spent(i) == attempts[i] >= MaxAttempts

Claimable(i) ==
    /\ Latest(i)
    /\ ~Spent(i)
    /\ \/ status[i] \in {"pending", "failed"}
       \/ status[i] = "ready" /\ ~active[i]
       \/ status[i] = "processing" /\ LeaseOver(i)

\* An empty argument list selects every filing.
Selected(i, receipts) == receipts = {} \/ Receipt(i) \in receipts

HasChunks(i) == Receipt(i) \in (IF Signature(i) \in Modal THEN Narrative ELSE Text)

\* FOR UPDATE on the filing row: held by a worker between its candidate query
\* and the commit of its claim.
FilingLocked(r, w) ==
    \E v \in Workers \ {w} : pc[v] = "picked" /\ Receipt(job[v]) = r

OwnerUnchecked(i, w) == i \in Index /\ w \in Workers   \* faulty: no owner in the WHERE
Owned(i, w) == owner[i] = w /\ status[i] = "processing"

\* The locals of index_documents at the end of a run.
Forget(w) ==
    /\ sig' = [sig EXCEPT ![w] = None]
    /\ retry' = [retry EXCEPT ![w] = {}]
    /\ attempted' = [attempted EXCEPT ![w] = {}]
    /\ job' = [job EXCEPT ![w] = None]
    /\ left' = [left EXCEPT ![w] = 0]

-----------------------------------------------------------------------------
Init ==
    /\ versions = [r \in Receipts |-> 0]
    /\ status = [i \in Index |-> "absent"]
    /\ attempts = [i \in Index |-> 0]
    /\ active = [i \in Index |-> FALSE]
    /\ owner = [i \in Index |-> None]
    /\ lease = [i \in Index |-> "none"]
    /\ chunks = [i \in Index |-> None]
    /\ lastClaim = [i \in Index |-> None]
    /\ pc = [w \in Workers |-> "idle"]
    /\ sig = [w \in Workers |-> None]
    /\ retry = [w \in Workers |-> {}]
    /\ attempted = [w \in Workers |-> {}]
    /\ job = [w \in Workers |-> None]
    /\ left = [w \in Workers |-> 0]

\* The collector stores the first document of a filing.
Collect(r) ==
    /\ versions[r] = 0
    /\ versions' = [versions EXCEPT ![r] = 1]
    /\ UNCHANGED <<row, pc, locals>>

\* A document row of another parser version.  The collector of this commit
\* never adds one, the schema and the queries allow it.  Its foreign key waits
\* for the filing lock.
Reparse(r) ==
    /\ versions[r] \in 1..(MaxVersions - 1)
    /\ ~FilingLocked(r, None)
    /\ versions' = [versions EXCEPT ![r] = @ + 1]
    /\ UNCHANGED <<row, pc, locals>>

\* The clock passes lease_until.
LeaseExpires(i) ==
    /\ lease[i] = "held"
    /\ lease' = [lease EXCEPT ![i] = "expired"]
    /\ UNCHANGED <<versions, status, attempts, active, owner, chunks, lastClaim, pc, locals>>

-----------------------------------------------------------------------------
(* One run.                                                                *)

Start(w, s, receipts) ==
    /\ pc[w] = "idle"
    /\ pc' = [pc EXCEPT ![w] = "enroll"]
    /\ sig' = [sig EXCEPT ![w] = s]
    /\ retry' = [retry EXCEPT ![w] = receipts]
    /\ UNCHANGED <<versions, row, attempted, job, left>>

\* INSERT ... ON CONFLICT DO NOTHING for the newest document of each filing.
Enroll(w) ==
    /\ pc[w] = "enroll"
    /\ status' = [i \in Index |->
            IF status[i] = "absent" /\ Latest(i) /\ Signature(i) = sig[w]
            THEN "pending" ELSE status[i]]
    /\ pc' = [pc EXCEPT ![w] = IF retry[w] = {} THEN "sweep" ELSE "requeue"]
    /\ UNCHANGED <<versions, attempts, active, owner, lease, chunks, lastClaim, locals>>

Revivable(i, w) ==
    /\ status[i] = "dead_letter" /\ Latest(i)
    /\ Signature(i) = sig[w] /\ Receipt(i) \in retry[w]

Requeue(w) ==
    /\ pc[w] = "requeue"
    /\ status' = [i \in Index |-> IF Revivable(i, w) THEN "pending" ELSE status[i]]
    /\ attempts' = [i \in Index |-> IF Revivable(i, w) THEN 0 ELSE attempts[i]]
    /\ owner' = [i \in Index |-> IF Revivable(i, w) THEN None ELSE owner[i]]
    /\ lease' = [i \in Index |-> IF Revivable(i, w) THEN "none" ELSE lease[i]]
    /\ pc' = [pc EXCEPT ![w] = "sweep"]
    /\ UNCHANGED <<versions, active, chunks, lastClaim, locals>>

\* Rows whose budget is spent and that nobody is working on.
Exhausted(i, w) ==
    /\ Signature(i) = sig[w] /\ Selected(i, retry[w])
    /\ Spent(i)
    /\ \/ status[i] \in {"pending", "failed"}
       \/ status[i] = "processing" /\ LeaseOver(i)

Sweep(w) ==
    /\ pc[w] = "sweep"
    /\ status' = [i \in Index |-> IF Exhausted(i, w) THEN "dead_letter" ELSE status[i]]
    /\ owner' = [i \in Index |-> IF Exhausted(i, w) THEN None ELSE owner[i]]
    /\ lease' = [i \in Index |-> IF Exhausted(i, w) THEN "none" ELSE lease[i]]
    /\ pc' = [pc EXCEPT ![w] = "claim"]
    /\ UNCHANGED <<versions, attempts, active, chunks, lastClaim, locals>>

\* The candidate query: no lock on the index row, FOR UPDATE OF the filing
\* with SKIP LOCKED.
Candidates(w) ==
    {i \in Index : /\ Claimable(i)
                   /\ Signature(i) = sig[w]
                   /\ Selected(i, retry[w])
                   /\ i \notin attempted[w]
                   /\ ~FilingLocked(Receipt(i), w)}

Pick(w) ==
    /\ pc[w] = "claim"
    /\ Cardinality(attempted[w]) < Limit
    /\ \E i \in Candidates(w) :
        /\ job' = [job EXCEPT ![w] = i]
        /\ attempted' = [attempted EXCEPT ![w] = @ \cup {i}]
    /\ pc' = [pc EXCEPT ![w] = "picked"]
    /\ UNCHANGED <<versions, row, sig, retry, left>>

EndRun(w) ==
    /\ pc[w] = "claim"
    /\ Cardinality(attempted[w]) >= Limit \/ Candidates(w) = {}
    /\ pc' = [pc EXCEPT ![w] = "idle"]
    /\ Forget(w)
    /\ UNCHANGED <<versions, row>>

\* Faulty: the peers are cleared by one transaction, i is set by a later one.
ClearFirst(i, value) ==
    active' = [j \in Index |->
        IF j = i THEN value /\ \A k \in Peers(i) : ~active[k]
        ELSE active[j] /\ j \notin Peers(i)]

\* Faulty: the peers keep their flag.
SetActiveOnly(i, value) == active' = [active EXCEPT ![i] = value]

\* Only the flag moves: Peers lose it, i gets the value given.
SetActive(i, value) ==
    active' = [j \in Index |-> IF j = i THEN value
                               ELSE active[j] /\ j \notin Peers(i)]

\* The fresh check under the filing lock, then one of three outcomes.
GiveUp(w) ==
    /\ pc[w] = "picked" /\ ~Claimable(job[w])
    /\ pc' = [pc EXCEPT ![w] = "claim"]
    /\ job' = [job EXCEPT ![w] = None]
    /\ UNCHANGED <<versions, row, sig, retry, attempted, left>>

Reactivate(w) ==
    LET i == job[w] IN
    /\ pc[w] = "picked" /\ Claimable(i) /\ status[i] = "ready"
    /\ SetActive(i, TRUE)
    /\ pc' = [pc EXCEPT ![w] = "claim"]
    /\ job' = [job EXCEPT ![w] = None]
    /\ UNCHANGED <<versions, status, attempts, owner, lease, chunks, lastClaim,
                   sig, retry, attempted, left>>

Claim(w) ==
    LET i == job[w] IN
    /\ pc[w] = "picked" /\ Claimable(i) /\ status[i] # "ready"
    /\ status' = [status EXCEPT ![i] = "processing"]
    /\ attempts' = [attempts EXCEPT ![i] = @ + 1]
    /\ owner' = [owner EXCEPT ![i] = w]
    /\ lease' = [lease EXCEPT ![i] = "held"]
    /\ lastClaim' = [lastClaim EXCEPT ![i] = w]
    \* "no searchable text" is an error of the legacy backend only
    /\ pc' = [pc EXCEPT ![w] = IF HasChunks(i) \/ Signature(i) \in Modal
                               THEN "embed" ELSE "failing"]
    /\ left' = [left EXCEPT ![w] = IF HasChunks(i) THEN Batches ELSE 0]
    /\ UNCHANGED <<versions, active, chunks, sig, retry, attempted, job>>

\* The lease is renewed before each embedding call, and only by its owner.
EmbedBatch(w) ==
    LET i == job[w] IN
    /\ pc[w] = "embed" /\ left[w] > 0
    /\ IF Owned(i, w)
       THEN /\ lease' = [lease EXCEPT ![i] = "held"]
            /\ left' = [left EXCEPT ![w] = @ - 1]
            /\ pc' = pc
       ELSE /\ pc' = [pc EXCEPT ![w] = "failing"]
            /\ UNCHANGED <<lease, left>>
    /\ UNCHANGED <<versions, status, attempts, active, owner, chunks, lastClaim,
                   sig, retry, attempted, job>>

\* Any exception of chunking, of the inference call or of the database.
EmbedFails(w) ==
    /\ pc[w] = "embed"
    /\ pc' = [pc EXCEPT ![w] = "failing"]
    /\ UNCHANGED <<versions, row, locals>>

\* The final transaction: filing lock, ownership of the newest document, new
\* vectors, the active flag and the row.
LatestOnly(i, w) == Latest(i) /\ w \in Workers   \* faulty: a lost lease goes unnoticed
Completable(i, w) == Owned(i, w) /\ Latest(i)

Complete(w) ==
    LET i == job[w] IN
    /\ pc[w] = "embed" /\ left[w] = 0
    /\ ~FilingLocked(Receipt(i), w)
    /\ Completable(i, w)
    /\ chunks' = [chunks EXCEPT ![i] = IF HasChunks(i) THEN w ELSE None]
    /\ SetActive(i, HasChunks(i))
    /\ status' = [status EXCEPT ![i] = IF HasChunks(i) THEN "ready" ELSE "empty"]
    /\ attempts' = [attempts EXCEPT ![i] = 0]
    /\ owner' = [owner EXCEPT ![i] = None]
    /\ lease' = [lease EXCEPT ![i] = "none"]
    /\ pc' = [pc EXCEPT ![w] = "claim"]
    /\ job' = [job EXCEPT ![w] = None]
    /\ UNCHANGED <<versions, lastClaim, sig, retry, attempted, left>>

\* "index lease lost"
LoseLease(w) ==
    LET i == job[w] IN
    /\ pc[w] = "embed" /\ left[w] = 0
    /\ ~FilingLocked(Receipt(i), w)
    /\ ~Completable(i, w)
    /\ pc' = [pc EXCEPT ![w] = "failing"]
    /\ UNCHANGED <<versions, row, locals>>

\* The exception handler: a row that has changed hands is left alone.
Fail(w) ==
    LET i == job[w] IN
    /\ pc[w] = "failing"
    /\ IF owner[i] = w
       THEN /\ status' = [status EXCEPT ![i] = IF Spent(i)
                                               THEN "dead_letter" ELSE "failed"]
            /\ owner' = [owner EXCEPT ![i] = None]
            /\ lease' = [lease EXCEPT ![i] = "none"]
       ELSE UNCHANGED <<status, owner, lease>>
    /\ pc' = [pc EXCEPT ![w] = "claim"]
    /\ job' = [job EXCEPT ![w] = None]
    /\ left' = [left EXCEPT ![w] = 0]
    /\ UNCHANGED <<versions, attempts, active, chunks, lastClaim,
                   sig, retry, attempted>>

\* OOM, SIGKILL or the unit's 50 minute timeout: locks go, the row stays.
Crash(w) ==
    /\ pc[w] # "idle"
    /\ pc' = [pc EXCEPT ![w] = "idle"]
    /\ Forget(w)
    /\ UNCHANGED <<versions, row>>

Work(w) ==
    \/ Enroll(w) \/ Requeue(w) \/ Sweep(w)
    \/ Pick(w) \/ EndRun(w)
    \/ GiveUp(w) \/ Reactivate(w) \/ Claim(w)
    \/ EmbedBatch(w) \/ EmbedFails(w)
    \/ Complete(w) \/ LoseLease(w) \/ Fail(w)

Next ==
    \/ \E r \in Receipts : Collect(r) \/ Reparse(r)
    \/ \E i \in Index : LeaseExpires(i)
    \/ \E w \in Workers :
        \/ \E s \in Signatures, receipts \in RetrySets : Start(w, s, receipts)
        \/ Work(w)
        \/ Crash(w)

Spec == Init /\ [][Next]_vars

-----------------------------------------------------------------------------
(* What disclosure-retrieval reads: the index it would use for a filing    *)
(* under signature s, and the index_state column it derives.               *)

\* Faulty: without the newest-document condition.
VisibleAnyVersion(i, s) ==
    \/ active[i] /\ status[i] = "ready"
    \/ status[i] = "empty" /\ Signature(i) = s

Visible(i, s) ==
    /\ Latest(i)
    /\ \/ active[i] /\ status[i] = "ready"
       \/ status[i] = "empty" /\ Signature(i) = s

SearchState(r, s) ==
    LET seen == {i \in Index : Receipt(i) = r /\ Visible(i, s)}
        own == {i \in seen : Signature(i) = s}
    IN  CASE seen = {} -> "pending"
          [] seen # {} /\ own = {} -> "other_space"
          [] own # {} /\ \E i \in own : status[i] = "empty" -> "empty"
          [] OTHER -> "ready"

-----------------------------------------------------------------------------
(* Properties.                                                             *)

TypeOK ==
    /\ versions \in [Receipts -> 0..MaxVersions]
    /\ status \in [Index -> Status]
    /\ attempts \in [Index -> 0..MaxAttempts]
    /\ active \in [Index -> BOOLEAN]
    /\ owner \in [Index -> Workers \cup {None}]
    /\ lease \in [Index -> {"none", "held", "expired"}]
    /\ chunks \in [Index -> Workers \cup {None}]
    /\ lastClaim \in [Index -> Workers \cup {None}]
    /\ pc \in [Workers -> Stage]
    /\ sig \in [Workers -> Signatures \cup {None}]
    /\ retry \in [Workers -> SUBSET Receipts]
    /\ attempted \in [Workers -> SUBSET Index]
    /\ job \in [Workers -> Index \cup {None}]
    /\ left \in [Workers -> 0..Batches]

\* A row has an owner and a lease exactly while it is processing, and the
\* owner is the worker whose claim came last: a worker that lost its lease
\* finds a foreign or an empty owner whatever the others did since.
OwnershipFollowsClaims ==
    \A i \in Index :
        /\ owner[i] # None <=> status[i] = "processing"
        /\ lease[i] # "none" <=> status[i] = "processing"
        /\ owner[i] # None => owner[i] = lastClaim[i]

\* An index is ready exactly when vectors are stored for it, and they are
\* the vectors of the claim that came last: a result computed under a lease
\* that was lost meanwhile never lands.
ReadyVectorsAreOfLastClaim ==
    \A i \in Index :
        /\ status[i] = "ready" <=> chunks[i] # None
        /\ status[i] = "ready" => chunks[i] = lastClaim[i]

\* At most one active index per document and dimension, and it is ready.
\* The schema enforces both; a violation would surface as a failed attempt.
OneActiveIndex ==
    \A i \in Index : active[i] => /\ status[i] = "ready"
                                  /\ \A j \in Peers(i) : ~active[j]

\* A row is buried only after every allowed attempt was claimed for it,
\* whether the attempts failed or their processes died.
DeadLettersAreExhausted ==
    \A i \in Index : status[i] = "dead_letter" => attempts[i] = MaxAttempts

\* Every row is in the state its claims have brought it to: owned by the last
\* of them as long as it is worked on, buried after all of them.
RowsFollowClaims == TypeOK /\ OwnershipFollowsClaims /\ DeadLettersAreExhausted

\* Search under signature s reports "ready" only for an index of that very
\* signature, of the newest document and with its vectors in place.
SearchReadsWholeIndex ==
    \A r \in Receipts, s \in Signatures :
        SearchState(r, s) = "ready" =>
            LET i == <<r, versions[r], s>> IN i \in Index /\ HasChunks(i) /\ chunks[i] # None

\* While a lease is held only the run that owns it may release the row, at
\* the end of its job: no claim, sweep or explicit retry takes it over.
HeldLeaseIsRespected ==
    [][\A i \in Index : lease[i] = "held" /\ owner'[i] # owner[i] =>
          \E w \in Workers : /\ owner[i] = w /\ job[w] = i /\ job'[w] = None
                             /\ pc[w] \in {"embed", "failing"}]_vars

\* Stored results are final: no step takes a ready or empty index back to
\* work or rewrites its vectors, so inference is never paid for twice.
ResultsAreFinal ==
    [][\A i \in Index : status[i] \in {"ready", "empty"} =>
          status'[i] = status[i] /\ chunks'[i] = chunks[i]]_vars

\* A failed, interrupted or empty replacement never leaves a document that
\* had an active index of some dimension without one.
SearchableStays ==
    [][\A i \in Index : active[i] => active'[i] \/ \E j \in Peers(i) : active'[j]]_vars

\* A dead letter leaves its state only by an explicit retry of its filing.
DeadLetterNeedsRetry ==
    [][\A i \in Index : status[i] = "dead_letter" /\ status'[i] # "dead_letter" =>
          \E w \in Workers : pc[w] = "requeue" /\ Receipt(i) \in retry[w]]_vars

\* A run takes nothing from the others: no lease that is held, no result, and
\* no dead letter that nobody asked to be tried again.
WorkIsKept == HeldLeaseIsRespected /\ ResultsAreFinal /\ DeadLetterNeedsRetry

\* The two statements that move the active flag of a document leave it with one
\* active index, and never with none.
OneStaysActive == []OneActiveIndex /\ SearchableStays

-----------------------------------------------------------------------------
(* Liveness.  The timer starts a plain run again and again, and although   *)
(* a run may die anywhere it does not always die before it reaches the     *)
(* same step: strong fairness for the steps a crash can preempt.           *)

Fairness ==
    /\ \A i \in Index : WF_vars(LeaseExpires(i))
    /\ \A w \in Workers :
        /\ \A s \in Signatures : WF_vars(Start(w, s, {}))
        /\ SF_vars(Enroll(w)) /\ SF_vars(Sweep(w)) /\ SF_vars(Pick(w))
        /\ SF_vars(GiveUp(w) \/ Reactivate(w) \/ Claim(w))
        /\ WF_vars(Work(w))

FairSpec == Spec /\ Fairness

\* Whatever fails or dies, an enrolled row of the newest document ends with
\* a stored result or as a dead letter, unless a newer document arrives.
RowsSettle ==
    \A i \in Index :
        status[i] \in {"pending", "failed", "processing"} /\ Latest(i)
            ~> status[i] \in {"ready", "empty", "dead_letter"} \/ ~Latest(i)

=============================================================================
