------------------------------ MODULE Lifecycle ------------------------------
(***************************************************************************)
(* The document lifecycle of PDF Bridge: the catalog transactions of the   *)
(* API (services/intake.py), the two worker slots that execute durable     *)
(* operations (managers/worker.py), the Qdrant points they write and the   *)
(* files they keep.  A worker step is one catalog transaction or one       *)
(* external call, so a crash, a lapsed lease or the other slot may come    *)
(* between any two of them.  The write of a phase and the call after it    *)
(* are one step: the call does not read the operation row.                 *)
(*                                                                         *)
(* Abstractions: all documents belong to one logical collection; a point   *)
(* is its revision, chunk and visibility; a failure code is its class; a   *)
(* revision is its status and whether its vectors are complete.            *)
(***************************************************************************)
EXTENDS Naturals, Sequences, FiniteSets

CONSTANTS
    Documents,         \* document identities that may be admitted
    Chunks,            \* chunks of one prepared revision
    Slots,             \* execution slots of the worker process
    None,              \* the null of every optional column
    MaxRequests,       \* bound: API mutations accepted
    MaxFaults,         \* bound: provider, storage or database errors
    MaxInterruptions   \* bound: process crashes and lapses of a live lease

ASSUME NoneAssumption == None \notin Documents
ASSUME ChunksAssumption == IsFiniteSet(Chunks) /\ Chunks # {}
ASSUME BoundsAssumption ==
    MaxRequests \in Nat /\ MaxFaults \in Nat /\ MaxInterruptions \in Nat

VARIABLES
    doc,        \* Document rows
    revisions,  \* PreparedRevision.status, per document in revision order
    vectors,    \* revision numbers whose vector_complete is set
    content,    \* content-bearing rows (pages, chunks, artifacts) exist
    pub,        \* PublicationRecord
    del,        \* DeletionProgress
    ops,        \* WorkOperation rows in creation order
    active,     \* points in the active Qdrant collection
    screening,  \* points in the private screening collection
    files,      \* objects in UUID storage
    slot,       \* what each execution slot is doing
    requests, faults, interruptions

prepVars == <<revisions, vectors, content>>
index    == <<active, screening>>
bounds   == <<requests, faults, interruptions>>
vars     == <<doc, prepVars, pub, del, ops, index, files, slot, bounds>>

-----------------------------------------------------------------------------
(* Catalog vocabulary. *)

InProgress  == {"PREFLIGHTING", "PUBLISHING", "DELETING"}
Failed      == {"PREFLIGHT_FAILED", "PUBLISH_FAILED", "DELETE_FAILED"}
Disposition == {"REJECTED", "CANCELLED", "DELETED"}
DocumentState ==
    InProgress \cup Failed \cup Disposition \cup {"REVIEW_REQUIRED", "READY"}

OperationType == {"PREFLIGHT", "PUBLISH", "DELETE"}
OpenState     == {"QUEUED", "RUNNING"}

DeletionPhase ==
    {"DELETE_ACTIVE_POINTS", "VERIFY_ACTIVE_ZERO", "DELETE_SCREENING_POINTS",
     "VERIFY_SCREENING_ZERO", "PURGE_STORAGE", "COMMIT_TOMBSTONE"}
ASSUME NullAssumption == None \notin DeletionPhase
PublishPhase ==
    {"UPSERT_ACTIVE_POINTS", "VERIFY_ACTIVE_POINTS",
     "REMOVE_SCREENING_POINTS", "VERIFY_SCREENING_REMOVAL"}
\* CHECKING_ELIGIBILITY .. EMBEDDING_SPARSE are reported inside one step and
\* stay at EXTRACTING here: no guard tells them apart.
PreflightPhase ==
    {"EXTRACTING", "UPSERTING_SCREENING_POINTS", "DISCOVERING_CANDIDATES",
     "CLASSIFYING_CANDIDATES", "SEALING_REVISION"}
FinalPhase     == {"AWAITING_DECISION", "COMPLETE"}
OperationPhase ==
    {"QUEUED"} \cup PreflightPhase \cup PublishPhase \cup DeletionPhase \cup FinalPhase

\* The four timestamps of DeletionProgress, as the set of those that are set.
Proof == {"active_zero", "screening_zero", "storage_purged", "tombstoned"}

\* Program counters of _run_preflight, _run_publish and _run_deletion_phases.
PreflightSteps ==
    {"source", "begin", "prepare", "reject", "bind", "write_artifact",
     "clear_screening", "upsert_screening", "verify_screening", "discover",
     "classify", "seal", "finish_preflight"}
PublishSteps ==
    {"check_publication", "stage", "verify_staged", "activate", "verify_active",
     "record_upserted", "remove_screening", "verify_removal",
     "finish_publication"}
DeletionSteps ==
    {"deletion_checkpoint", "delete_active", "verify_active_zero",
     "record_active_zero", "delete_screening", "verify_screening_zero",
     "record_screening_zero", "purge_phase", "purge_source",
     "purge_artifacts", "purge_commit", "commit_tombstone"}
Steps == {"snapshot"} \cup PreflightSteps \cup PublishSteps \cup DeletionSteps

\* The body of the try statement of _run_preflight: an exception here marks
\* the revision FAILED before it reaches _execute.
TryBlock ==
    {"write_artifact", "clear_screening", "upsert_screening",
     "verify_screening", "discover", "classify", "seal", "finish_preflight"}

Absent ==
    [state |-> "ABSENT", key |-> FALSE, disposition |-> None,
     failure |-> "none", retryable |-> FALSE, replacedBy |-> None]
NoPublication == [status |-> "NONE", rev |-> 0]
NoProgress    == [phase |-> None, proofs |-> {}]
Idle ==
    [op |-> 0, pc |-> "idle", rev |-> 0, matches |-> {},
     seen |-> {}, purging |-> FALSE, retryable |-> FALSE]

DocumentRow ==
    [state : DocumentState \cup {"ABSENT"}, key : BOOLEAN,
     disposition : Disposition \cup {None},
     failure : {"none", "rejection", "fault"}, retryable : BOOLEAN,
     replacedBy : Documents \cup {None}]
Publication ==
    [status : {"NONE", "PENDING", "UPSERTED", "VERIFIED", "FAILED"}, rev : Nat]
Progress  == [phase : DeletionPhase \cup {None}, proofs : SUBSET Proof]
Operation ==
    [type : OperationType, doc : Documents, target : Documents \cup {None},
     rev : Nat, state : {"QUEUED", "RUNNING", "SUCCEEDED", "FAILED"},
     phase : OperationPhase, retryable : BOOLEAN]
Slot ==
    [op : Nat, pc : Steps \cup {"idle", "failing"}, rev : Nat,
     matches : SUBSET Documents, seen : SUBSET Proof, purging : BOOLEAN,
     retryable : BOOLEAN]
ActivePoint    == [rev : Nat, chunk : Chunks, published : BOOLEAN]
ScreeningPoint == [rev : Nat, chunk : Chunks]

TypeOK ==
    /\ doc \in [Documents -> DocumentRow]
    /\ revisions \in [Documents -> Seq({"PREPARING", "SEALED", "FAILED"})]
    /\ vectors \in [Documents -> SUBSET Nat]
    /\ content \in [Documents -> BOOLEAN]
    /\ pub \in [Documents -> Publication]
    /\ del \in [Documents -> Progress]
    /\ ops \in Seq(Operation)
    /\ active \in [Documents -> SUBSET ActivePoint]
    /\ screening \in [Documents -> SUBSET ScreeningPoint]
    /\ files \in [Documents -> SUBSET {"source", "artifact"}]
    /\ slot \in [Slots -> Slot]
    /\ requests \in Nat /\ faults \in Nat /\ interruptions \in Nat

Init ==
    /\ doc = [d \in Documents |-> Absent]
    /\ revisions = [d \in Documents |-> <<>>]
    /\ vectors = [d \in Documents |-> {}]
    /\ content = [d \in Documents |-> FALSE]
    /\ pub = [d \in Documents |-> NoPublication]
    /\ del = [d \in Documents |-> NoProgress]
    /\ ops = <<>>
    /\ active = [d \in Documents |-> {}]
    /\ screening = [d \in Documents |-> {}]
    /\ files = [d \in Documents |-> {}]
    /\ slot = [s \in Slots |-> Idle]
    /\ requests = 0 /\ faults = 0 /\ interruptions = 0

-----------------------------------------------------------------------------
(* Queries on the operation queue and the revisions. *)

Locked(o) == {o.doc, o.target} \ {None}

Touches(o, d) == o.state \in OpenState /\ d \in Locked(o)

\* latest_operation: attempts of one document and type grow in row order.
IsLatest(i, d, type) ==
    /\ ops[i].doc = d /\ ops[i].type = type
    /\ \A j \in DOMAIN ops : ops[j].doc = d /\ ops[j].type = type => j <= i

\* Variant: the first sealed revision instead of the last.
IsLatestSealed_First(r, d) ==
    /\ r \in DOMAIN revisions[d] /\ revisions[d][r] = "SEALED"
    /\ \A q \in DOMAIN revisions[d] : revisions[d][q] = "SEALED" => r <= q

IsLatestSealed(r, d) ==
    /\ r \in DOMAIN revisions[d] /\ revisions[d][r] = "SEALED"
    /\ \A q \in DOMAIN revisions[d] : revisions[d][q] = "SEALED" => q <= r

Sealed(d, r) == r \in DOMAIN revisions[d] /\ revisions[d][r] = "SEALED"

QueuedOperation(type, d, target, r, phase) ==
    [type |-> type, doc |-> d, target |-> target, rev |-> r,
     state |-> "QUEUED", phase |-> phase, retryable |-> FALSE]

Enqueue(o) == ops' = Append(ops, o)

\* The fields every accepted transition resets.
Cleared(row, state) ==
    [row EXCEPT !.state = state, !.failure = "none", !.retryable = FALSE]

\* Variant: the disposition is not recorded.
Condemned_Undecided(row, disposition) == Cleared(row, "DELETING")

\* Variant: the disposition is shown before the purge.
Condemned_AtOnce(row, disposition) ==
    [Cleared(row, disposition) EXCEPT !.disposition = disposition]

Condemned(row, disposition) ==
    [Cleared(row, "DELETING") EXCEPT !.disposition = disposition]

\* _ensure_publication_record
MayPublish(d, r) ==
    /\ Sealed(d, r)
    /\ pub[d] \in {NoPublication, [status |-> "PENDING", rev |-> r]}
EnsurePublication(d, r) == pub' = [pub EXCEPT ![d] = [status |-> "PENDING", rev |-> r]]

StartDeletion(d) == del' = [del EXCEPT ![d] = [phase |-> "DELETE_ACTIVE_POINTS", proofs |-> {}]]

-----------------------------------------------------------------------------
(* API mutations: each one transaction under the process transition lock. *)

Request ==
    /\ requests < MaxRequests
    /\ requests' = requests + 1
    /\ UNCHANGED <<faults, interruptions>>

Upload(d) ==
    /\ Request
    /\ doc[d].state = "ABSENT"
    /\ doc' = [doc EXCEPT ![d].state = "PREFLIGHTING", ![d].key = TRUE]
    /\ files' = [files EXCEPT ![d] = {"source"}]
    /\ Enqueue(QueuedOperation("PREFLIGHT", d, None, 0, "QUEUED"))
    /\ UNCHANGED <<prepVars, pub, del, index, slot>>

Keep(d) ==
    /\ Request
    /\ doc[d].state = "REVIEW_REQUIRED"
    /\ \E r \in DOMAIN revisions[d] :
        /\ IsLatestSealed(r, d)
        /\ MayPublish(d, r)
        /\ EnsurePublication(d, r)
        /\ Enqueue(QueuedOperation("PUBLISH", d, None, r, "QUEUED"))
    /\ doc' = [doc EXCEPT ![d].state = "PUBLISHING"]
    /\ UNCHANGED <<prepVars, del, index, files, slot>>

\* _validate_replacement_target with _verified_ready_binding
Replaceable(t) ==
    /\ doc[t].state = "READY"
    /\ doc[t].replacedBy = None
    /\ \A i \in DOMAIN ops : ~Touches(ops[i], t)
    /\ pub[t].status = "VERIFIED" /\ Sealed(t, pub[t].rev)
    /\ del[t] = NoProgress

Replace(d, t) ==
    /\ Request
    /\ d # t
    /\ doc[d].state = "REVIEW_REQUIRED"
    /\ Replaceable(t)
    /\ \E r \in DOMAIN revisions[d] :
        /\ IsLatestSealed(r, d)
        /\ MayPublish(d, r)
        /\ EnsurePublication(d, r)
        /\ Enqueue(QueuedOperation("PUBLISH", d, t, r, "QUEUED"))
    /\ StartDeletion(t)
    /\ doc' = [doc EXCEPT ![d] = Cleared(@, "PUBLISHING"),
                          ![t] = [Condemned(@, "DELETED") EXCEPT !.replacedBy = d]]
    /\ UNCHANGED <<prepVars, index, files, slot>>

\* begin_deletion for a document without a deletion checkpoint
BeginDeletion(d, disposition, r) ==
    /\ del[d] = NoProgress
    /\ StartDeletion(d)
    /\ doc' = [doc EXCEPT ![d] = Condemned(@, disposition)]
    /\ Enqueue(QueuedOperation("DELETE", d, None, r, "QUEUED"))

Cancel(d) ==
    /\ Request
    /\ doc[d].state = "REVIEW_REQUIRED"
    /\ \E r \in DOMAIN revisions[d] :
        IsLatestSealed(r, d) /\ BeginDeletion(d, "CANCELLED", r)
    /\ UNCHANGED <<prepVars, pub, index, files, slot>>

\* Variant: a publication may be deleted while it runs.
DeletionTarget_WhilePublishing(d, r) ==
    /\ doc[d].state \in {"PUBLISHING", "PUBLISH_FAILED", "READY"}
    /\ pub[d].rev = r

\* _deletion_target_for_state: the revision a deletion is bound to
DeletionTarget(d, r) ==
    \/ /\ doc[d].state = "READY"
       /\ pub[d].status = "VERIFIED" /\ Sealed(d, pub[d].rev) /\ r = pub[d].rev
    \/ /\ doc[d].state = "REVIEW_REQUIRED"
       /\ IsLatestSealed(r, d)
    \/ /\ doc[d].state = "PUBLISH_FAILED"
       /\ pub[d].status \notin {"NONE", "VERIFIED"}
       /\ Sealed(d, pub[d].rev) /\ r = pub[d].rev
    \/ /\ doc[d].state = "PREFLIGHT_FAILED"
       /\ r = Len(revisions[d])

\* A repeated request in DELETING, DELETE_FAILED or DELETED returns the
\* existing operation and changes nothing.
Delete(d) ==
    /\ Request
    /\ \E r \in 0 .. Len(revisions[d]) :
        DeletionTarget(d, r) /\ BeginDeletion(d, "DELETED", r)
    /\ UNCHANGED <<prepVars, pub, index, files, slot>>

\* The document whose failed operation a retry of d resumes.
RetryOwner(d) ==
    IF doc[d].state = "DELETE_FAILED" /\ doc[d].replacedBy # None
    THEN doc[d].replacedBy ELSE d

RetryType(d) ==
    CASE doc[d].state = "PREFLIGHT_FAILED" -> "PREFLIGHT"
      [] doc[d].state = "PUBLISH_FAILED"   -> "PUBLISH"
      [] OTHER                             -> "DELETE"

\* Every check of request_retry, for the failed operation i of document e.
Retryable(d, e, i) ==
    /\ doc[d].retryable
    /\ e # d => /\ doc[e].state = "PUBLISH_FAILED" /\ doc[e].retryable
                /\ ops[i].target = d
    /\ doc[e].state \in Failed
    /\ IsLatest(i, e, RetryType(e))
    /\ ops[i].state = "FAILED" /\ ops[i].retryable
    /\ ops[i].phase \notin {"QUEUED"} \cup FinalPhase
    /\ CASE ops[i].type = "PREFLIGHT" -> ops[i].target = None
         [] ops[i].type = "PUBLISH" ->
              /\ pub[e].rev = ops[i].rev /\ pub[e].status # "VERIFIED"
              /\ Sealed(e, ops[i].rev)
              /\ ops[i].target # None => del[ops[i].target] # NoProgress
         [] OTHER -> del[e] # NoProgress /\ ops[i].target = None

ResumePhase(i) ==
    IF ops[i].type = "DELETE" THEN del[ops[i].doc].phase ELSE ops[i].phase

InProgressState(type) ==
    CASE type = "PREFLIGHT" -> "PREFLIGHTING"
      [] type = "PUBLISH"   -> "PUBLISHING"
      [] OTHER              -> "DELETING"

Retry(d) ==
    /\ Request
    /\ LET e == RetryOwner(d) IN \E i \in DOMAIN ops :
        /\ Retryable(d, e, i)
        /\ pub' = IF ops[i].type = "PUBLISH"
                  THEN [pub EXCEPT ![e].status = "PENDING"] ELSE pub
        /\ doc' = [x \in Documents |->
                    IF x = e THEN Cleared(doc[x], InProgressState(ops[i].type))
                    ELSE IF x = ops[i].target /\ doc[x].state = "DELETE_FAILED"
                    THEN Cleared(doc[x], "DELETING")
                    ELSE doc[x]]
        /\ Enqueue(QueuedOperation(ops[i].type, e, ops[i].target, ops[i].rev,
                                   ResumePhase(i)))
    /\ UNCHANGED <<prepVars, del, index, files, slot>>

Api ==
    \E d \in Documents :
        \/ Upload(d) \/ Keep(d) \/ Cancel(d) \/ Delete(d) \/ Retry(d)
        \/ \E t \in Documents : Replace(d, t)
-----------------------------------------------------------------------------
(* Slots, leases and claims. *)

Op(s)      == ops[slot[s].op]
Doc(s)     == Op(s).doc

\* The document whose deletion phases slot s runs.
Subject(s) == IF Op(s).target = None THEN Op(s).doc ELSE Op(s).target

\* worker_id names the process, so the ownership test of every durable step
\* (RUNNING and worker_id = self) is a test of the state alone.
Holds(s) == Op(s).state = "RUNNING"

At(s, l) == slot[s].pc = l

Goto(s, l)  == slot' = [slot EXCEPT ![s].pc = l]
Release(s)  == slot' = [slot EXCEPT ![s] = Idle]
Raise(s, r) == slot' = [slot EXCEPT ![s].pc = "failing", ![s].retryable = r]

\* Variant: a sealed revision is marked failed too.
AbandonRevision_Sealed(s) ==
    revisions' = IF slot[s].pc \in TryBlock
                 THEN [revisions EXCEPT ![Doc(s)][slot[s].rev] = "FAILED"]
                 ELSE revisions

\* fail_preparation, as the except clause of _run_preflight calls it.
AbandonRevision(s) ==
    revisions' =
        IF /\ slot[s].pc \in TryBlock
           /\ revisions[Doc(s)][slot[s].rev] = "PREPARING"
        THEN [revisions EXCEPT ![Doc(s)][slot[s].rev] = "FAILED"]
        ELSE revisions

\* How a step ends: the next statement, or an exception.
Proceed(s, next) == Goto(s, next) /\ UNCHANGED revisions
Abort(s, r)      == Raise(s, r) /\ AbandonRevision(s)
Check(s, ok, next) == IF ok THEN Proceed(s, next) ELSE Abort(s, TRUE)

SetPhase(s, phase) == ops' = [ops EXCEPT ![slot[s].op].phase = phase]

Succeed(row, phase) ==
    [row EXCEPT !.state = "SUCCEEDED", !.phase = phase, !.retryable = FALSE]

\* A Qdrant mutation, of which only part took effect when it fails.  It may
\* fail by raising or, unnoticed, after it was acknowledged: the reason why
\* every mutation in the code is followed by a verification.
Attempt(s, part, whole, next) ==
    \/ part = whole /\ Proceed(s, next) /\ UNCHANGED faults
    \/ /\ faults < MaxFaults /\ faults' = faults + 1
       /\ \/ Abort(s, TRUE)
          \/ part # whole /\ Proceed(s, next)

Busy == UNION {Locked(Op(s)) : s \in {t \in Slots : slot[t].op # 0}}

\* priority_for_operation
Priority(o) ==
    CASE o.type = "DELETE"                       -> 0
      [] o.type = "PUBLISH" /\ o.target # None   -> 10
      [] o.type = "PUBLISH" /\ o.target = None   -> 20
      [] OTHER                                   -> 30

\* Variant: the process-local exclusion set is not consulted.
Claimable_Unlocked(i) == ops[i].state = "QUEUED"

Claimable(i) == ops[i].state = "QUEUED" /\ Locked(ops[i]) \cap Busy = {}

\* _claim_next: priority, then creation order.
Claim(s) ==
    /\ At(s, "idle")
    /\ \E i \in DOMAIN ops :
        /\ Claimable(i)
        /\ \A j \in DOMAIN ops : Claimable(j) =>
            \/ Priority(ops[i]) < Priority(ops[j])
            \/ Priority(ops[i]) = Priority(ops[j]) /\ i <= j
        /\ ops' = [ops EXCEPT ![i].state = "RUNNING"]
        /\ slot' = [slot EXCEPT ![s] = [Idle EXCEPT
                !.op = i,
                !.pc = IF ops[i].type = "PREFLIGHT" THEN "source" ELSE "snapshot"]]
    /\ UNCHANGED <<doc, prepVars, pub, del, index, files, bounds>>

HeldBySlot(i) == \E s \in Slots : slot[s].op = i

\* Variant: an operation that never left its first phase is not recovered.
RecoverLease_Started(i) ==
    /\ ops[i].state = "RUNNING" /\ ops[i].phase # "QUEUED"
    /\ ~HeldBySlot(i)
    /\ ops' = [ops EXCEPT ![i].state = "QUEUED"]
    /\ UNCHANGED <<doc, prepVars, pub, del, index, files, slot, bounds>>

\* recover_leases after the process that held the lease is gone.
RecoverLease(i) ==
    /\ ops[i].state = "RUNNING"
    /\ ~HeldBySlot(i)
    /\ ops' = [ops EXCEPT ![i].state = "QUEUED"]
    /\ UNCHANGED <<doc, prepVars, pub, del, index, files, slot, bounds>>

\* recover_leases while the thread still runs: the operation outlived
\* worker_max_operation_seconds or the heartbeat missed its lease.
LapseLease(i) ==
    /\ ops[i].state = "RUNNING"
    /\ HeldBySlot(i)
    /\ interruptions < MaxInterruptions
    /\ interruptions' = interruptions + 1
    /\ ops' = [ops EXCEPT ![i].state = "QUEUED"]
    /\ UNCHANGED <<doc, prepVars, pub, del, index, files, slot, requests, faults>>

\* The process dies: threads, claims and worker_id are gone, leases remain.
Crash ==
    /\ interruptions < MaxInterruptions
    /\ interruptions' = interruptions + 1
    /\ \E s \in Slots : slot[s] # Idle
    /\ slot' = [s \in Slots |-> Idle]
    /\ UNCHANGED <<doc, prepVars, pub, del, ops, index, files, requests, faults>>

\* Steps that raise LeaseLostError when the operation is no longer RUNNING.
LeaseChecked ==
    {"snapshot", "source", "prepare", "reject", "bind", "clear_screening",
     "discover", "classify", "seal", "finish_preflight", "stage",
     "verify_staged", "record_upserted", "remove_screening", "verify_removal",
     "delete_active", "verify_active_zero", "record_active_zero",
     "delete_screening", "verify_screening_zero", "record_screening_zero",
     "purge_phase", "purge_commit", "commit_tombstone"}

LoseLease(s) ==
    /\ slot[s].pc \in LeaseChecked
    /\ ~Holds(s)
    /\ AbandonRevision(s)
    /\ Release(s)
    /\ UNCHANGED <<doc, vectors, content, pub, del, ops, index, files, bounds>>

\* Steps that raise a non-retryable WorkerExecutionError instead.
OwnershipChecked ==
    {"check_publication", "finish_publication", "deletion_checkpoint", "purge_source"}

LoseOwnership(s) ==
    /\ slot[s].pc \in OwnershipChecked
    /\ ~Holds(s)
    /\ Raise(s, FALSE)
    /\ UNCHANGED <<doc, prepVars, pub, del, ops, index, files, bounds>>

\* A provider, storage or database error before a step has any effect.
Fault(s) ==
    /\ slot[s].pc \in Steps \ {"prepare"}
    /\ faults < MaxFaults /\ faults' = faults + 1
    /\ Abort(s, TRUE)
    /\ UNCHANGED <<doc, vectors, content, pub, del, ops, index, files,
                   requests, interruptions>>

\* _collection_definition, _pipeline_identity and the _required_* lookups.
Configured == {"source", "reject", "clear_screening", "discover", "classify",
               "check_publication", "stage", "deletion_checkpoint"}

Misconfigured(s) ==
    /\ slot[s].pc \in Configured
    /\ faults < MaxFaults /\ faults' = faults + 1
    /\ Abort(s, FALSE)
    /\ UNCHANGED <<doc, vectors, content, pub, del, ops, index, files,
                   requests, interruptions>>

\* _fail_operation, then the release of the claim.
FailureState(type) ==
    CASE type = "PREFLIGHT" -> "PREFLIGHT_FAILED"
      [] type = "PUBLISH"   -> "PUBLISH_FAILED"
      [] OTHER              -> "DELETE_FAILED"

Broken(row, state, r) ==
    [row EXCEPT !.state = state, !.failure = "fault", !.retryable = r]

\* Variant: the old document of a replacement is not failed with it.
FailureRow_OwnerOnly(x, o, r) ==
    IF x = o.doc THEN Broken(doc[x], FailureState(o.type), r) ELSE doc[x]

FailureRow(x, o, r) ==
    IF x = o.doc
    THEN Broken(doc[x], IF o.type = "PREFLIGHT" /\ doc[x].state = "DELETING"
                        THEN "DELETING" ELSE FailureState(o.type), r)
    ELSE IF x = o.target /\ doc[x].state = "DELETING"
    THEN Broken(doc[x], "DELETE_FAILED", r)
    ELSE doc[x]

FailOperation(s) ==
    LET o == Op(s)
        r == slot[s].retryable
    IN
    /\ At(s, "failing")
    /\ Release(s)
    /\ IF ~Holds(s) THEN UNCHANGED <<doc, pub, ops>>
       ELSE
        /\ ops' = [ops EXCEPT ![slot[s].op].state = "FAILED",
                              ![slot[s].op].retryable = r]
        /\ doc' = [x \in Documents |-> FailureRow(x, o, r)]
        /\ pub' = IF /\ o.type = "PUBLISH" /\ pub[o.doc].rev = o.rev
                     /\ pub[o.doc].status # "VERIFIED"
                  THEN [pub EXCEPT ![o.doc].status = "FAILED"] ELSE pub
    /\ UNCHANGED <<prepVars, del, index, files, bounds>>

Lease ==
    \/ \E i \in DOMAIN ops : RecoverLease(i) \/ LapseLease(i)
    \/ Crash

-----------------------------------------------------------------------------
(* _run_preflight *)

PreflightSource(s) ==
    /\ At(s, "source") /\ Holds(s)
    /\ IF /\ doc[Doc(s)].state = "PREFLIGHTING" /\ doc[Doc(s)].key
          /\ "source" \in files[Doc(s)]
       THEN SetPhase(s, "EXTRACTING") /\ Goto(s, "begin")
       ELSE Raise(s, FALSE) /\ UNCHANGED ops
    /\ UNCHANGED <<doc, prepVars, pub, del, index, files, bounds>>

BeginPreparation(s) ==
    /\ At(s, "begin")
    /\ IF doc[Doc(s)].state = "PREFLIGHTING"
       THEN /\ revisions' = [revisions EXCEPT ![Doc(s)] = Append(@, "PREPARING")]
            /\ slot' = [slot EXCEPT ![s].pc = "prepare",
                                    ![s].rev = Len(revisions[Doc(s)]) + 1]
       ELSE Raise(s, TRUE) /\ UNCHANGED revisions
    /\ UNCHANGED <<doc, vectors, content, pub, del, ops, index, files, bounds>>

\* Extraction, formatting, chunking and embedding through record_chunk_vectors.
PrepareContent(s) ==
    /\ At(s, "prepare") /\ Holds(s)
    /\ vectors' = [vectors EXCEPT ![Doc(s)] = @ \cup {slot[s].rev}]
    /\ content' = [content EXCEPT ![Doc(s)] = TRUE]
    /\ Goto(s, "bind")
    /\ UNCHANGED <<doc, revisions, pub, del, ops, index, files, bounds>>

\* The source fails the extraction policy before any page is recorded.
RejectSource(s) ==
    /\ At(s, "prepare") /\ Holds(s)
    /\ revisions' = [revisions EXCEPT ![Doc(s)][slot[s].rev] = "FAILED"]
    /\ Goto(s, "reject")
    /\ UNCHANGED <<doc, vectors, content, pub, del, ops, index, files, bounds>>

\* A provider fails inside prepare_revision_content: pages already recorded
\* stay, and the captured formatter exchanges are kept as artifacts.
FailPreparation(s) ==
    /\ At(s, "prepare")
    /\ faults < MaxFaults /\ faults' = faults + 1
    /\ revisions' = [revisions EXCEPT ![Doc(s)][slot[s].rev] = "FAILED"]
    /\ \/ UNCHANGED <<content, files>>
       \/ /\ content' = [content EXCEPT ![Doc(s)] = TRUE]
          /\ \E kept \in SUBSET {"artifact"} :
                files' = [files EXCEPT ![Doc(s)] = @ \cup kept]
    /\ Raise(s, TRUE)
    /\ UNCHANGED <<doc, vectors, pub, del, ops, index, requests, interruptions>>

\* _accept_rejection with queue_rejection_cleanup
AcceptRejection(s) ==
    LET d == Doc(s)
        r == Len(revisions[d])
    IN
    /\ At(s, "reject") /\ Holds(s)
    /\ doc[d].state = "PREFLIGHTING"
    /\ del[d] = NoProgress
    /\ StartDeletion(d)
    /\ doc' = [doc EXCEPT ![d] =
            [Condemned(@, "REJECTED") EXCEPT !.failure = "rejection"]]
    /\ ops' = Append([ops EXCEPT ![slot[s].op] = [Succeed(@, "COMPLETE") EXCEPT !.rev = r]],
                     QueuedOperation("DELETE", d, None, r, "QUEUED"))
    /\ Release(s)
    /\ UNCHANGED <<prepVars, pub, index, files, bounds>>

\* Variant: the operation is not bound to the revision it prepared.
BindRevision_Unbound(s) ==
    /\ At(s, "bind") /\ Holds(s)
    /\ Goto(s, "write_artifact")
    /\ UNCHANGED <<doc, prepVars, pub, del, ops, index, files, bounds>>

BindRevision(s) ==
    /\ At(s, "bind") /\ Holds(s)
    /\ ops' = [ops EXCEPT ![slot[s].op].rev = slot[s].rev]
    /\ Goto(s, "write_artifact")
    /\ UNCHANGED <<doc, prepVars, pub, del, index, files, bounds>>

\* _persist_revision_artifact: the file precedes its catalog row, and the
\* directory is what deletion removes.
PersistRevisionArtifact(s) ==
    /\ At(s, "write_artifact")
    /\ files' = [files EXCEPT ![Doc(s)] = @ \cup {"artifact"}]
    /\ Goto(s, "clear_screening")
    /\ UNCHANGED <<doc, prepVars, pub, del, ops, index, bounds>>

ScreeningPoints(r) == [rev : {r}, chunk : Chunks]

ClearScreening(s) ==
    /\ At(s, "clear_screening") /\ Holds(s)
    /\ SetPhase(s, "UPSERTING_SCREENING_POINTS")
    /\ \E left \in SUBSET screening[Doc(s)] :
        /\ screening' = [screening EXCEPT ![Doc(s)] = left]
        /\ Attempt(s, left, {}, "upsert_screening")
    /\ UNCHANGED <<doc, vectors, content, pub, del, active, files, requests,
                   interruptions>>

\* The screening count must be zero before the new revision is written.
UpsertScreening(s) ==
    LET d == Doc(s) IN
    /\ At(s, "upsert_screening")
    /\ IF screening[d] # {} THEN Abort(s, TRUE) /\ UNCHANGED <<screening, faults>>
       ELSE \E part \in SUBSET ScreeningPoints(slot[s].rev) :
            /\ screening' = [screening EXCEPT ![d] = part]
            /\ Attempt(s, part, ScreeningPoints(slot[s].rev), "verify_screening")
    /\ UNCHANGED <<doc, vectors, content, pub, del, ops, active, files, requests,
                   interruptions>>

VerifyScreening(s) ==
    /\ At(s, "verify_screening")
    /\ Check(s, screening[Doc(s)] = ScreeningPoints(slot[s].rev), "discover")
    /\ UNCHANGED <<doc, vectors, content, pub, del, ops, index, files, bounds>>

\* _catalog_candidate_context
ScreeningStates == {"PREFLIGHTING", "REVIEW_REQUIRED", "PUBLISHING", "PUBLISH_FAILED"}

Visible(e) == {p \in active[e] : p.published}

\* A Qdrant hit on e that its catalog row does not account for.
Misplaced(e) ==
    \/ Visible(e) # {} /\ doc[e].state # "READY"
    \/ screening[e] # {} /\ doc[e].state \notin ScreeningStates
    \/ Visible(e) # {} /\ screening[e] # {}
    \/ \E p \in Visible(e) \cup screening[e] : p.rev \notin vectors[e]

\* Similar points, a filename family or identical text make e a candidate.
MayMatch(e) == doc[e].state \in ScreeningStates \cup {"READY"} /\ vectors[e] # {}

DiscoverCandidates(s) ==
    LET others == Documents \ {Doc(s)} IN
    /\ At(s, "discover") /\ Holds(s)
    /\ SetPhase(s, "DISCOVERING_CANDIDATES")
    /\ \/ /\ \E e \in others : Misplaced(e)
          /\ Abort(s, TRUE)
       \/ /\ \E m \in SUBSET {e \in others : MayMatch(e)} :
                slot' = [slot EXCEPT ![s].pc = "classify", ![s].matches = m]
          /\ UNCHANGED revisions
    /\ UNCHANGED <<doc, vectors, content, pub, del, index, files, bounds>>

\* Excerpts of every candidate are read again from the catalog.
ClassifyCandidates(s) ==
    /\ At(s, "classify") /\ Holds(s)
    /\ SetPhase(s, "CLASSIFYING_CANDIDATES")
    /\ IF \A e \in slot[s].matches : content[e]
       THEN Proceed(s, "seal") ELSE Abort(s, FALSE)
    /\ UNCHANGED <<doc, vectors, content, pub, del, index, files, bounds>>

SealRevision(s) ==
    /\ At(s, "seal") /\ Holds(s)
    /\ SetPhase(s, "SEALING_REVISION")
    /\ IF /\ revisions[Doc(s)][slot[s].rev] = "PREPARING"
          /\ slot[s].rev \in vectors[Doc(s)]
       THEN /\ revisions' = [revisions EXCEPT ![Doc(s)][slot[s].rev] = "SEALED"]
            /\ Goto(s, "finish_preflight")
       ELSE Abort(s, TRUE)
    /\ UNCHANGED <<doc, vectors, content, pub, del, index, files, bounds>>

\* Nothing was discovered, so no advisory check was due: publish unreviewed.
ClearForPublication(s) == slot[s].matches = {}

FinishPreflight(s) ==
    LET d == Doc(s)
        r == slot[s].rev
    IN
    /\ At(s, "finish_preflight") /\ Holds(s)
    /\ doc[d].state = "PREFLIGHTING"
    /\ Op(s).rev = r /\ Sealed(d, r)
    /\ IF ClearForPublication(s)
       THEN /\ MayPublish(d, r)
            /\ EnsurePublication(d, r)
            /\ doc' = [doc EXCEPT ![d] = Cleared(@, "PUBLISHING")]
            /\ ops' = Append([ops EXCEPT ![slot[s].op] = Succeed(@, "COMPLETE")],
                             QueuedOperation("PUBLISH", d, None, r, "QUEUED"))
       ELSE /\ doc' = [doc EXCEPT ![d] = Cleared(@, "REVIEW_REQUIRED")]
            /\ ops' = [ops EXCEPT ![slot[s].op] = Succeed(@, "AWAITING_DECISION")]
            /\ UNCHANGED pub
    /\ Release(s)
    /\ UNCHANGED <<prepVars, del, index, files, bounds>>

Preflight(s) ==
    \/ PreflightSource(s) \/ BeginPreparation(s) \/ PrepareContent(s)
    \/ RejectSource(s) \/ AcceptRejection(s) \/ BindRevision(s)
    \/ PersistRevisionArtifact(s) \/ ClearScreening(s) \/ UpsertScreening(s)
    \/ VerifyScreening(s) \/ DiscoverCandidates(s) \/ ClassifyCandidates(s)
    \/ SealRevision(s) \/ FinishPreflight(s)

-----------------------------------------------------------------------------
(* _run_publish *)

\* Variant: a replacement publishes without deleting the old document first.
OperationSnapshot_PublishFirst(s) ==
    /\ At(s, "snapshot") /\ Holds(s)
    /\ Goto(s, IF Op(s).type = "DELETE" THEN "deletion_checkpoint" ELSE "check_publication")
    /\ UNCHANGED <<doc, prepVars, pub, del, ops, index, files, bounds>>

OperationSnapshot(s) ==
    /\ At(s, "snapshot") /\ Holds(s)
    /\ Goto(s, IF Op(s).type = "DELETE" \/ Op(s).target # None
               THEN "deletion_checkpoint" ELSE "check_publication")
    /\ UNCHANGED <<doc, prepVars, pub, del, ops, index, files, bounds>>

\* The operation still publishes the sealed revision its approval named.
PublicationBound(s) ==
    LET d == Doc(s)
        r == Op(s).rev
    IN
    /\ doc[d].state = "PUBLISHING"
    /\ Sealed(d, r) /\ r \in vectors[d] /\ content[d]
    /\ pub[d].rev = r /\ pub[d].status \notin {"NONE", "VERIFIED"}

CheckPublication(s) ==
    /\ At(s, "check_publication") /\ Holds(s)
    /\ IF PublicationBound(s) THEN Goto(s, "stage") ELSE Raise(s, FALSE)
    /\ UNCHANGED <<doc, prepVars, pub, del, ops, index, files, bounds>>

ActivePoints(r, chunks, published) ==
    [rev : {r}, chunk : chunks, published : {published}]

\* An upsert: point identities are deterministic, so a point that an earlier
\* attempt made visible is hidden again.
StageActivePoints(s) ==
    LET d == Doc(s)
        r == Op(s).rev
    IN
    /\ At(s, "stage") /\ Holds(s)
    /\ SetPhase(s, "UPSERT_ACTIVE_POINTS")
    /\ \E part \in SUBSET Chunks :
        /\ active' = [active EXCEPT ![d] =
                (@ \ ActivePoints(r, part, TRUE)) \cup ActivePoints(r, part, FALSE)]
        /\ Attempt(s, part, Chunks, "verify_staged")
    /\ UNCHANGED <<doc, vectors, content, pub, del, screening, files, requests,
                   interruptions>>

VerifyStagedPoints(s) ==
    /\ At(s, "verify_staged") /\ Holds(s)
    /\ SetPhase(s, "VERIFY_ACTIVE_POINTS")
    /\ Check(s, active[Doc(s)] = ActivePoints(Op(s).rev, Chunks, FALSE), "activate")
    /\ UNCHANGED <<doc, vectors, content, pub, del, index, files, bounds>>

ActivatePoints(s) ==
    LET d == Doc(s)
        r == Op(s).rev
        hidden == {p \in active[d] : p.rev = r /\ ~p.published}
    IN
    /\ At(s, "activate")
    /\ \E part \in SUBSET hidden :
        /\ active' = [active EXCEPT ![d] =
                (@ \ part) \cup {[p EXCEPT !.published = TRUE] : p \in part}]
        /\ Attempt(s, part, hidden, "verify_active")
    /\ UNCHANGED <<doc, vectors, content, pub, del, ops, screening, files, requests,
                   interruptions>>

\* Variant: the opened visibility gate is not verified.
VerifyActivePoints_Trusting(s) ==
    /\ At(s, "verify_active")
    /\ Proceed(s, "record_upserted")
    /\ UNCHANGED <<doc, vectors, content, pub, del, ops, index, files, bounds>>

VerifyActivePoints(s) ==
    /\ At(s, "verify_active")
    /\ Check(s, active[Doc(s)] = ActivePoints(Op(s).rev, Chunks, TRUE), "record_upserted")
    /\ UNCHANGED <<doc, vectors, content, pub, del, ops, index, files, bounds>>

\* Variant: the publication is verified before its screening points are gone.
RecordUpserted_Verified(s) ==
    /\ At(s, "record_upserted") /\ Holds(s)
    /\ pub' = [pub EXCEPT ![Doc(s)].status = "VERIFIED"]
    /\ Goto(s, "remove_screening")
    /\ UNCHANGED <<doc, prepVars, del, ops, index, files, bounds>>

RecordUpserted(s) ==
    /\ At(s, "record_upserted") /\ Holds(s)
    /\ pub[Doc(s)].status # "VERIFIED"
    /\ pub' = [pub EXCEPT ![Doc(s)].status = "UPSERTED"]
    /\ Goto(s, "remove_screening")
    /\ UNCHANGED <<doc, prepVars, del, ops, index, files, bounds>>

RemoveScreening(s) ==
    /\ At(s, "remove_screening") /\ Holds(s)
    /\ SetPhase(s, "REMOVE_SCREENING_POINTS")
    /\ \E left \in SUBSET screening[Doc(s)] :
        /\ screening' = [screening EXCEPT ![Doc(s)] = left]
        /\ Attempt(s, left, {}, "verify_removal")
    /\ UNCHANGED <<doc, vectors, content, pub, del, active, files, requests,
                   interruptions>>

VerifyScreeningRemoval(s) ==
    /\ At(s, "verify_removal") /\ Holds(s)
    /\ SetPhase(s, "VERIFY_SCREENING_REMOVAL")
    /\ Check(s, screening[Doc(s)] = {}, "finish_publication")
    /\ UNCHANGED <<doc, vectors, content, pub, del, index, files, bounds>>

\* _finish_publication
PublicationComplete(s) ==
    LET o == Op(s) IN
    /\ doc[o.doc].state = "PUBLISHING"
    /\ Sealed(o.doc, o.rev)
    /\ pub[o.doc] = [status |-> "UPSERTED", rev |-> o.rev]
    /\ o.target # None => /\ doc[o.target].state = "DELETED"
                          /\ "tombstoned" \in del[o.target].proofs

FinishPublication(s) ==
    LET d == Doc(s) IN
    /\ At(s, "finish_publication") /\ Holds(s)
    /\ IF PublicationComplete(s)
       THEN /\ pub' = [pub EXCEPT ![d].status = "VERIFIED"]
            /\ doc' = [doc EXCEPT ![d] = Cleared(@, "READY")]
            /\ ops' = [ops EXCEPT ![slot[s].op] = Succeed(@, "COMPLETE")]
            /\ Release(s)
       ELSE Raise(s, FALSE) /\ UNCHANGED <<pub, doc, ops>>
    /\ UNCHANGED <<prepVars, del, index, files, bounds>>

Publish(s) ==
    \/ OperationSnapshot(s) \/ CheckPublication(s) \/ StageActivePoints(s)
    \/ VerifyStagedPoints(s) \/ ActivatePoints(s) \/ VerifyActivePoints(s)
    \/ RecordUpserted(s) \/ RemoveScreening(s) \/ VerifyScreeningRemoval(s)
    \/ FinishPublication(s)

-----------------------------------------------------------------------------
(* _run_deletion_phases, for a DELETE operation and for the old document of *)
(* a replacement. *)

\* The first phase whose proof was missing when the checkpoint was read.
\* Only a replacement can find its subject tombstoned: a DELETE operation
\* succeeds in the transaction that commits the tombstone.
NextPhase(proofs) ==
    IF "active_zero" \notin proofs THEN "delete_active"
    ELSE IF "screening_zero" \notin proofs THEN "delete_screening"
    ELSE IF "storage_purged" \notin proofs THEN "purge_phase"
    ELSE IF "tombstoned" \notin proofs THEN "commit_tombstone"
    ELSE "check_publication"

Advance(s, proof) ==
    slot' = [slot EXCEPT ![s].seen = @ \cup {proof},
                         ![s].pc = NextPhase(slot[s].seen \cup {proof})]

DeletionCheckpoint(s) ==
    LET d == Subject(s) IN
    /\ At(s, "deletion_checkpoint") /\ Holds(s)
    /\ IF del[d] = NoProgress THEN Raise(s, FALSE)
       ELSE slot' = [slot EXCEPT ![s].seen = del[d].proofs,
                                 ![s].purging = (del[d].phase = "PURGE_STORAGE"),
                                 ![s].pc = NextPhase(del[d].proofs)]
    /\ UNCHANGED <<doc, prepVars, pub, del, ops, index, files, bounds>>

\* _set_deletion_phase
SetDeletionPhase(s, phase) ==
    /\ SetPhase(s, phase)
    /\ del' = [del EXCEPT ![Subject(s)].phase = phase]

DeleteActivePoints(s) ==
    /\ At(s, "delete_active") /\ Holds(s)
    /\ SetDeletionPhase(s, "DELETE_ACTIVE_POINTS")
    /\ \E left \in SUBSET active[Subject(s)] :
        /\ active' = [active EXCEPT ![Subject(s)] = left]
        /\ Attempt(s, left, {}, "verify_active_zero")
    /\ UNCHANGED <<doc, vectors, content, pub, screening, files, requests, interruptions>>

\* Variant: the acknowledged deletion is taken for the zero proof.
VerifyActiveZero_Trusting(s) ==
    /\ At(s, "verify_active_zero") /\ Holds(s)
    /\ SetDeletionPhase(s, "VERIFY_ACTIVE_ZERO")
    /\ Proceed(s, "record_active_zero")
    /\ UNCHANGED <<doc, vectors, content, pub, index, files, bounds>>

VerifyActiveZero(s) ==
    /\ At(s, "verify_active_zero") /\ Holds(s)
    /\ SetDeletionPhase(s, "VERIFY_ACTIVE_ZERO")
    /\ Check(s, active[Subject(s)] = {}, "record_active_zero")
    /\ UNCHANGED <<doc, vectors, content, pub, index, files, bounds>>

\* _record_zero_verification and the end of _purge_document_content: a proof,
\* with the phase that follows it, in one transaction.
RecordProof(s, proof, phase) ==
    /\ SetPhase(s, phase)
    /\ del' = [del EXCEPT ![Subject(s)] =
                [phase |-> phase, proofs |-> @.proofs \cup {proof}]]
    /\ Advance(s, proof)

RecordActiveZero(s) ==
    /\ At(s, "record_active_zero") /\ Holds(s)
    /\ RecordProof(s, "active_zero", "DELETE_SCREENING_POINTS")
    /\ UNCHANGED <<doc, prepVars, pub, index, files, bounds>>

DeleteScreeningPoints(s) ==
    /\ At(s, "delete_screening") /\ Holds(s)
    /\ SetDeletionPhase(s, "DELETE_SCREENING_POINTS")
    /\ \E left \in SUBSET screening[Subject(s)] :
        /\ screening' = [screening EXCEPT ![Subject(s)] = left]
        /\ Attempt(s, left, {}, "verify_screening_zero")
    /\ UNCHANGED <<doc, vectors, content, pub, active, files, requests, interruptions>>

VerifyScreeningZero(s) ==
    /\ At(s, "verify_screening_zero") /\ Holds(s)
    /\ SetDeletionPhase(s, "VERIFY_SCREENING_ZERO")
    /\ Check(s, screening[Subject(s)] = {}, "record_screening_zero")
    /\ UNCHANGED <<doc, vectors, content, pub, index, files, bounds>>

RecordScreeningZero(s) ==
    /\ At(s, "record_screening_zero") /\ Holds(s)
    /\ IF "active_zero" \in del[Subject(s)].proofs
       THEN RecordProof(s, "screening_zero", "VERIFY_SCREENING_ZERO")
       ELSE Raise(s, FALSE) /\ UNCHANGED <<del, ops>>
    /\ UNCHANGED <<doc, prepVars, pub, index, files, bounds>>

\* Variant: a checkpointed purge is taken to have removed the files.
PurgePhase_Resumed(s) ==
    /\ At(s, "purge_phase") /\ Holds(s)
    /\ SetDeletionPhase(s, "PURGE_STORAGE")
    /\ Goto(s, IF slot[s].purging THEN "purge_commit" ELSE "purge_source")
    /\ UNCHANGED <<doc, prepVars, pub, index, files, bounds>>

PurgePhase(s) ==
    /\ At(s, "purge_phase") /\ Holds(s)
    /\ SetDeletionPhase(s, "PURGE_STORAGE")
    /\ Goto(s, "purge_source")
    /\ UNCHANGED <<doc, prepVars, pub, index, files, bounds>>

\* A source missing before the first purge attempt is an error; a purge that
\* was already checkpointed may find it gone.
PurgeSource(s) ==
    LET d == Subject(s) IN
    /\ At(s, "purge_source") /\ Holds(s)
    /\ IF /\ {"active_zero", "screening_zero"} \subseteq del[d].proofs
          /\ doc[d].key
          /\ "source" \in files[d] \/ slot[s].purging
       THEN /\ files' = [files EXCEPT ![d] = @ \ {"source"}]
            /\ Goto(s, "purge_artifacts")
       ELSE Raise(s, FALSE) /\ UNCHANGED files
    /\ UNCHANGED <<doc, prepVars, pub, del, ops, index, bounds>>

PurgeArtifacts(s) ==
    /\ At(s, "purge_artifacts")
    /\ files' = [files EXCEPT ![Subject(s)] = @ \ {"artifact"}]
    /\ Goto(s, "purge_commit")
    /\ UNCHANGED <<doc, prepVars, pub, del, ops, index, bounds>>

PurgeCommit(s) ==
    LET d == Subject(s) IN
    /\ At(s, "purge_commit") /\ Holds(s)
    /\ content' = [content EXCEPT ![d] = FALSE]
    /\ doc' = [doc EXCEPT ![d].key = FALSE]
    /\ RecordProof(s, "storage_purged", "COMMIT_TOMBSTONE")
    /\ UNCHANGED <<revisions, vectors, pub, index, files, bounds>>

\* Variant: the reason is cleared with the rest.
Tombstoned_Reasonless(row) ==
    [row EXCEPT !.state = row.disposition, !.retryable = FALSE, !.failure = "none"]

\* commit_tombstone: a rejection keeps the reason its document row carries.
Tombstoned(row) ==
    [row EXCEPT !.state = row.disposition, !.retryable = FALSE,
                !.failure = IF row.disposition = "REJECTED" THEN @ ELSE "none"]

MayTombstone(d) ==
    /\ doc[d].state \in {"DELETING", "DELETE_FAILED"}
    /\ del[d].proofs = {"active_zero", "screening_zero", "storage_purged"}
    /\ ~doc[d].key /\ ~content[d]

CommitDeletion(s) ==
    LET d == Subject(s) IN
    /\ At(s, "commit_tombstone") /\ Holds(s)
    /\ MayTombstone(d)
    /\ doc' = [doc EXCEPT ![d] = Tombstoned(@)]
    /\ del' = [del EXCEPT ![d] =
                [phase |-> "COMMIT_TOMBSTONE", proofs |-> @.proofs \cup {"tombstoned"}]]
    /\ IF Op(s).type = "DELETE"
       THEN /\ ops' = [ops EXCEPT ![slot[s].op] = Succeed(@, "COMPLETE")]
            /\ Release(s)
       ELSE /\ SetPhase(s, "COMMIT_TOMBSTONE")
            /\ Advance(s, "tombstoned")
    /\ UNCHANGED <<prepVars, pub, index, files, bounds>>

Deletion(s) ==
    \/ DeletionCheckpoint(s) \/ DeleteActivePoints(s) \/ VerifyActiveZero(s)
    \/ RecordActiveZero(s) \/ DeleteScreeningPoints(s) \/ VerifyScreeningZero(s)
    \/ RecordScreeningZero(s) \/ PurgePhase(s) \/ PurgeSource(s)
    \/ PurgeArtifacts(s) \/ PurgeCommit(s) \/ CommitDeletion(s)

-----------------------------------------------------------------------------
\* What a slot does once it holds an operation, errors apart.
Work(s) == Preflight(s) \/ Publish(s) \/ Deletion(s) \/ FailOperation(s)

Trouble(s) ==
    \/ FailPreparation(s) \/ LoseLease(s) \/ LoseOwnership(s)
    \/ Fault(s) \/ Misconfigured(s)

Next ==
    \/ Api \/ Lease
    \/ \E s \in Slots : Claim(s) \/ Work(s) \/ Trouble(s)

Spec == Init /\ [][Next]_vars

(* Fairness: the slot threads run, idle slots poll the queue and expired     *)
(* leases are recovered by every poll.  Nothing is assumed of operators,     *)
(* and errors, lapses and crashes are only bounded in number.                *)
Fairness ==
    /\ \A s \in Slots : WF_vars(Work(s) \/ LoseLease(s) \/ LoseOwnership(s))
    /\ WF_vars(\E s \in Slots : Claim(s))
    /\ WF_vars(\E i \in DOMAIN ops : RecoverLease(i))

FairSpec == Spec /\ Fairness

-----------------------------------------------------------------------------
(* Safety. *)

\* No document is touched, as owner or as replacement target, by two queued
\* or running operations (enqueue_operation, the transition lock and the state
\* guards of every accepted request together).
OneOpenOperation ==
    \A i, j \in DOMAIN ops :
        i # j /\ ops[i].state \in OpenState /\ ops[j].state \in OpenState
            => Locked(ops[i]) \cap Locked(ops[j]) = {}

\* Two slots never work on the same document, not even when a lease lapsed and
\* its operation is queued again under a thread that has not noticed yet
\* (_busy_documents against recover_leases).
SlotsDisjoint ==
    \A s, t \in Slots :
        s # t /\ slot[s].op # 0 /\ slot[t].op # 0
            => Locked(Op(s)) \cap Locked(Op(t)) = {}

\* A document shown as in progress has an open operation that will move it on,
\* and every open operation finds its document in the state it works on.
WorkIsOwned ==
    /\ \A d \in Documents : doc[d].state \in InProgress =>
        \E i \in DOMAIN ops :
            /\ ops[i].state \in OpenState
            /\ \/ ops[i].doc = d /\ InProgressState(ops[i].type) = doc[d].state
               \/ ops[i].target = d /\ doc[d].state = "DELETING"
    /\ \A i \in DOMAIN ops : ops[i].state \in OpenState =>
        doc[ops[i].doc].state = InProgressState(ops[i].type)

\* READY means that search sees exactly the approved sealed revision: every
\* chunk of it, nothing of another revision, nothing left in screening.
ReadyExact ==
    \A d \in Documents : doc[d].state = "READY" =>
        /\ pub[d].status = "VERIFIED" /\ Sealed(d, pub[d].rev)
        /\ active[d] = ActivePoints(pub[d].rev, Chunks, TRUE)
        /\ screening[d] = {}

\* A publication names the newest revision of its document, also when a crash
\* after sealing made the preflight prepare and seal a second one.
NewestRevisionPublished ==
    \A d \in Documents : pub[d].status # "NONE" => pub[d].rev = Len(revisions[d])

\* A recorded deletion proof never goes stale: no later step of any operation
\* writes points, files or content of the document again.
ProofsHold ==
    \A d \in Documents :
        /\ "active_zero" \in del[d].proofs => active[d] = {}
        /\ "screening_zero" \in del[d].proofs => screening[d] = {}
        /\ "storage_purged" \in del[d].proofs =>
            files[d] = {} /\ ~content[d] /\ ~doc[d].key

\* REJECTED, CANCELLED and DELETED are content-free: no point, no file, no
\* content row, whatever crashed or was retried on the way.
TerminalPurged ==
    \A d \in Documents : doc[d].state \in Disposition =>
        /\ active[d] = {} /\ screening[d] = {} /\ files[d] = {}
        /\ ~content[d] /\ ~doc[d].key

\* Old and new points of a replacement never overlap: the incoming document
\* has points in the active collection only after the old one is tombstoned.
NoReplacementOverlap ==
    \A t \in Documents : doc[t].replacedBy # None /\ active[doc[t].replacedBy] # {} =>
        doc[t].state = "DELETED" /\ active[t] = {}

\* A retryable failure past its first phase, of a document that was not
\* replaced, can be retried: no error path spoils the checkpoint it needs.
RetryAccepted ==
    \A d \in Documents :
        /\ doc[d].state \in Failed /\ doc[d].retryable /\ doc[d].replacedBy = None
        /\ \E i \in DOMAIN ops : IsLatest(i, d, RetryType(d)) /\ ops[i].phase # "QUEUED"
        => \E i \in DOMAIN ops : Retryable(d, d, i)

\* The consistency checks of _accept_rejection, _finish_preflight, _run_publish
\* and commit_tombstone never fail for a slot that holds its lease, after any
\* crash, error or retry: their exceptions are dead code, and the actions
\* state the checks as guards.
ChecksPass ==
    \A s \in Slots : slot[s].op # 0 /\ Holds(s) =>
        /\ At(s, "reject") =>
            doc[Doc(s)].state = "PREFLIGHTING" /\ del[Doc(s)] = NoProgress
        /\ At(s, "finish_preflight") =>
            /\ doc[Doc(s)].state = "PREFLIGHTING"
            /\ Op(s).rev = slot[s].rev /\ Sealed(Doc(s), slot[s].rev)
            /\ ClearForPublication(s) => MayPublish(Doc(s), slot[s].rev)
        /\ At(s, "record_upserted") => pub[Doc(s)].status # "VERIFIED"
        /\ At(s, "commit_tombstone") => MayTombstone(Subject(s))

\* No step unseals a revision, rebinds a publication to another revision or
\* withdraws a deletion proof.
CheckpointsPermanent ==
    [][\A d \in Documents :
        /\ \A r \in DOMAIN revisions[d] :
            revisions[d][r] = "SEALED" => revisions'[d][r] = "SEALED"
        /\ pub[d].status # "NONE" => pub'[d].rev = pub[d].rev
        /\ del[d].proofs \subseteq del'[d].proofs]_vars

\* Every step of the service is a step of the client's view of a document.
Contract == INSTANCE DocumentContract WITH
    state      <- [d \in Documents |-> doc[d].state],
    searchable <- [d \in Documents |-> Visible(d) # {}],
    stored     <- [d \in Documents |-> doc[d].key \/ content[d] \/ files[d] # {}]

\* The service implements the documented lifecycle: it follows the diagram, is
\* found only through a publication and is terminal only when purged.
ContractRespected == Contract!Spec

(* Liveness. *)

\* Every document leaves every in-progress state: work that was accepted is
\* finished or fails visibly, also across crashes and lapsed leases.
WorkSettles ==
    \A d \in Documents :
        doc[d].state \in InProgress ~> doc[d].state \notin InProgress

\* queue_rejection_cleanup has the worker carry the rejection reason into the
\* tombstone; only a cleanup that failed once loses it (_commit_deletion).
RejectionReasonKept ==
    \A d \in Documents : doc[d].state = "REJECTED" /\ doc[d].failure # "rejection" =>
        \E i \in DOMAIN ops : ops[i].doc = d /\ ops[i].type = "DELETE" /\ ops[i].state = "FAILED"
=============================================================================
