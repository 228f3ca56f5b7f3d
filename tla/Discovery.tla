------------------------------ MODULE Discovery ------------------------------
(***************************************************************************)
(* The search for duplicates in a preflight, query by query, beside the    *)
(* preflights, publications and deletions of its neighbours:               *)
(* _discover_candidates, _catalog_candidate_context, _classify_candidates  *)
(* and _finish_preflight of managers/worker.py, evaluate_candidates of     *)
(* services/candidates.py, and the recording and sealing of the evidence   *)
(* in services/preparation.py.  Lifecycle has discovery as one step.       *)
(*                                                                         *)
(* All documents resemble each other, chunk by chunk as Similarity says,   *)
(* and are in one logical collection.  Their names and whole texts differ. *)
(***************************************************************************)
EXTENDS Naturals, FiniteSets, Sequences

CONSTANTS
    Documents,
    None,
    Similarity,     \* of each chunk: "strong", "moderate" or "weak" (dense cosine)
    Slots,          \* worker_execution_slots
    Budget,         \* MAX_CLASSIFIED_CANDIDATES
    MaxRevisions,   \* bound: preparations of a document
    MaxRequests     \* bound: decisions, deletions and retries

ASSUME NoneAssumption == None \notin Documents
ASSUME SimilarityAssumption == Similarity \in Seq({"strong", "moderate", "weak"})
ASSUME LimitsAssumption ==
    /\ Slots \in Nat /\ Budget \in Nat
    /\ MaxRevisions \in Nat /\ MaxRequests \in Nat

VARIABLES
    state,      \* Document.state
    retryable,  \* Document.failure_retryable
    revision,   \* the newest vector-complete revision of a document
    content,    \* documents whose chunks are retained
    screening,  \* revision of the points in the screening collection
    late,       \* revision of an upsert that timed out and that Qdrant has not applied yet
    active,     \* revision of the visible points in the active collection
    named,      \* candidates in the evidence of the sealed revision
    run,        \* the thread working on a document
    requests

vars == <<state, retryable, revision, content, screening, late, active, named, run, requests>>
catalog == <<state, retryable, content, named, requests>>

Chunks == DOMAIN Similarity
Roles  == {"CLASSIFIER", "VERIFIER"}
Reasons == {"advisory_candidate_budget", "advisory_incomplete"}
Hit    == [source : {"active", "screening"}, revision : 1 .. MaxRevisions]
States == {"ABSENT", "PREFLIGHTING", "PREFLIGHT_FAILED", "REVIEW_REQUIRED",
           "PUBLISHING", "READY", "DELETING", "DELETED"}
Step   == {"idle", "prepare", "clear", "upsert", "query", "catalog", "record", "classify",
           "seal", "finish", "activate", "unscreen", "publish",
           "delete_active", "delete_screening", "purge"}

ASSUME HitAssumption == \A hit \in Hit : hit # None

\* The locals of a thread: the next query, the hits by document, the chunks with
\* dense and with sparse hits, the candidates and the evidence gathered on them.
Fresh ==
    [pc |-> "idle", next |-> 0,
     seen |-> [e \in Documents |-> None],
     dense |-> [e \in Documents |-> {}], sparse |-> [e \in Documents |-> {}],
     found |-> {}, judged |-> {}, valid |-> {}, reasons |-> {}]

TypeOK ==
    /\ state \in [Documents -> States]
    /\ retryable \in [Documents -> BOOLEAN]
    /\ revision \in [Documents -> 0 .. MaxRevisions]
    /\ content \subseteq Documents
    /\ screening \in [Documents -> 0 .. MaxRevisions]
    /\ late \in [Documents -> 0 .. MaxRevisions]
    /\ active \in [Documents -> 0 .. MaxRevisions]
    /\ named \in [Documents -> SUBSET Documents]
    /\ run \in [Documents ->
            [pc : Step, next : 0 .. 4 * Len(Similarity),
             seen : [Documents -> Hit \cup {None}],
             dense : [Documents -> SUBSET Chunks], sparse : [Documents -> SUBSET Chunks],
             found : SUBSET Documents, judged : SUBSET Documents,
             valid : SUBSET (Documents \X Roles), reasons : SUBSET Reasons]]
    /\ requests \in 0 .. MaxRequests

Init ==
    /\ state = [d \in Documents |-> "ABSENT"]
    /\ retryable = [d \in Documents |-> FALSE]
    /\ revision = [d \in Documents |-> 0]
    /\ content = {}
    /\ screening = [d \in Documents |-> 0]
    /\ late = [d \in Documents |-> 0]
    /\ active = [d \in Documents |-> 0]
    /\ named = [d \in Documents |-> {}]
    /\ run = [d \in Documents |-> Fresh]
    /\ requests = 0

-----------------------------------------------------------------------------
At(d, pc)   == run[d].pc = pc
Goto(d, pc) == run' = [run EXCEPT ![d].pc = pc]
End(d)      == run' = [run EXCEPT ![d] = Fresh]

\* _fail_operation for a preflight
Fail(d, again) ==
    /\ state' = [state EXCEPT ![d] = "PREFLIGHT_FAILED"]
    /\ retryable' = [retryable EXCEPT ![d] = again]
    /\ End(d)
    /\ UNCHANGED <<content, named, requests>>

-----------------------------------------------------------------------------
(* Requests *)

Upload(d) ==
    /\ state[d] = "ABSENT"
    /\ state' = [state EXCEPT ![d] = "PREFLIGHTING"]
    /\ UNCHANGED <<retryable, revision, content, screening, late, active, named, run, requests>>

Request(d, from, to) ==
    /\ requests < MaxRequests /\ requests' = requests + 1
    /\ state[d] \in from
    /\ state' = [state EXCEPT ![d] = to]
    /\ retryable' = [retryable EXCEPT ![d] = FALSE]
    /\ UNCHANGED <<revision, content, screening, late, active, named, run>>

Keep(d)   == Request(d, {"REVIEW_REQUIRED"}, "PUBLISHING")
Delete(d) == Request(d, {"READY", "REVIEW_REQUIRED", "PREFLIGHT_FAILED"}, "DELETING")
Retry(d)  ==
    /\ retryable[d] /\ revision[d] < MaxRevisions
    /\ Request(d, {"PREFLIGHT_FAILED"}, "PREFLIGHTING")

-----------------------------------------------------------------------------
(* The worker takes an operation from its first step, also after a crash. *)

First == [PREFLIGHTING |-> "prepare", PUBLISHING |-> "activate", DELETING |-> "delete_active"]

Start(d) ==
    /\ At(d, "idle") /\ state[d] \in DOMAIN First
    /\ Cardinality({e \in Documents : ~At(e, "idle")}) < Slots
    /\ Goto(d, First[state[d]])
    /\ UNCHANGED <<catalog, revision, screening, late, active>>

\* A crash or a lost lease.
Interrupt(d) ==
    /\ ~At(d, "idle")
    /\ requests < MaxRequests /\ requests' = requests + 1
    /\ End(d)
    /\ UNCHANGED <<state, retryable, revision, content, screening, late, active, named>>

\* prepare_revision_content
Prepare(d) ==
    /\ At(d, "prepare") /\ revision[d] < MaxRevisions
    /\ revision' = [revision EXCEPT ![d] = @ + 1]
    /\ content' = content \cup {d}
    /\ Goto(d, "clear")
    /\ UNCHANGED <<state, retryable, screening, late, active, named, requests>>

\* Qdrant (external) applies the updates of a collection in the order it took them:
\* one that is waited for comes after all that timed out before it.
ScreeningUpdate(d, r) ==
    /\ screening' = [e \in Documents |->
            IF e = d THEN r ELSE IF late[e] # 0 THEN late[e] ELSE screening[e]]
    /\ late' = [e \in Documents |-> 0]

ApplyLate(d) ==
    /\ late[d] # 0
    /\ screening' = [screening EXCEPT ![d] = late[d]]
    /\ late' = [late EXCEPT ![d] = 0]
    /\ UNCHANGED <<catalog, revision, active, run>>

\* _write_screening_points: the points of an earlier revision go first.
ClearScreening(d) ==
    /\ At(d, "clear")
    /\ ScreeningUpdate(d, 0)
    /\ Goto(d, "upsert")
    /\ UNCHANGED <<catalog, revision, active>>

UpsertScreening(d) ==
    /\ At(d, "upsert")
    /\ ScreeningUpdate(d, revision[d])
    /\ Goto(d, "query")
    /\ UNCHANGED <<catalog, revision, active>>

\* The call times out at the client; Qdrant has taken the update all the same.
UpsertTimesOut(d) ==
    /\ At(d, "upsert")
    /\ requests < MaxRequests /\ requests' = requests + 1
    /\ late' = [late EXCEPT ![d] = revision[d]]
    /\ state' = [state EXCEPT ![d] = "PREFLIGHT_FAILED"]
    /\ retryable' = [retryable EXCEPT ![d] = TRUE]
    /\ End(d)
    /\ UNCHANGED <<revision, content, screening, active, named>>

-----------------------------------------------------------------------------
(* _discover_candidates: for every chunk dense hits in the active, then in   *)
(* the screening collection, then sparse hits in both.                       *)

Chunk(q)  == (q \div 4) + 1
Source(q) == IF q % 2 = 0 THEN "active" ELSE "screening"
Dense(q)  == q % 4 < 2

\* Variant: the screening collection is not searched.
Hits_ActiveOnly(d, q) ==
    [e \in {e \in Documents \ {d} : Source(q) = "active" /\ active[e] # 0}
        |-> [source |-> "active", revision |-> active[e]]]

\* query_candidates: the filters exclude the revision's own points; sparse hits
\* need words in common, dense hits are the nearest points however far.
Hits(d, q) ==
    LET points == IF Source(q) = "active" THEN active ELSE screening IN
    [e \in {e \in Documents \ {d} : points[e] # 0 /\ (Dense(q) \/ Similarity[Chunk(q)] # "weak")}
        |-> [source |-> Source(q), revision |-> points[e]]]

\* convert: a document has one source and one revision throughout.  The code
\* converts the hits of a chunk after its four queries; here each is converted
\* at once, and a conflict ends the search up to three queries earlier.
Conflict(d, hits) ==
    \E e \in DOMAIN hits : run[d].seen[e] \notin {None, hits[e]}

Query(d) ==
    LET q    == run[d].next
        hits == Hits(d, q)
        new  == DOMAIN hits
    IN
    /\ At(d, "query") /\ q < 4 * Len(Similarity)
    /\ IF Conflict(d, hits)
       THEN Fail(d, TRUE)
       ELSE /\ run' = [run EXCEPT
                    ![d].next = q + 1,
                    ![d].pc = IF q + 1 = 4 * Len(Similarity) THEN "catalog" ELSE "query",
                    ![d].seen = [e \in Documents |-> IF e \in new THEN hits[e] ELSE @[e]],
                    ![d].dense = [e \in Documents |->
                        IF e \in new /\ Dense(q) THEN @[e] \cup {Chunk(q)} ELSE @[e]],
                    ![d].sparse = [e \in Documents |->
                        IF e \in new /\ ~Dense(q) THEN @[e] \cup {Chunk(q)} ELSE @[e]]]
            /\ UNCHANGED catalog
    /\ UNCHANGED <<revision, screening, late, active>>

\* evaluate_candidates: one strong chunk, two that are at least moderate, or a
\* leading sparse place for three chunks.
Qualified(d, e) ==
    LET strong   == {k \in run[d].dense[e] : Similarity[k] = "strong"}
        moderate == {k \in run[d].dense[e] : Similarity[k] = "moderate"}
    IN \/ strong # {}
       \/ moderate # {} /\ Cardinality(strong \cup moderate) >= 2
       \/ Cardinality(run[d].sparse[e]) >= 3

\* allowed_screening_states, without the failed publications that only Lifecycle has.
Screened == {"PREFLIGHTING", "REVIEW_REQUIRED", "PUBLISHING"}

\* _catalog_candidate_context: a hit must be what the catalog says of it.
Confirmed(e, hit) ==
    /\ e \in content /\ hit.revision <= revision[e]
    /\ hit.source = "active" => state[e] = "READY"
    /\ hit.source = "screening" => state[e] \in Screened

\* Variant: a hit the catalog does not confirm is taken for a broken catalog.
CatalogContext_Permanent(d) ==
    LET hits == {e \in Documents : run[d].seen[e] # None} IN
    /\ At(d, "catalog")
    /\ IF \A e \in hits : Confirmed(e, run[d].seen[e])
       THEN /\ run' = [run EXCEPT ![d].pc = "record",
                                  ![d].found = {e \in hits : Qualified(d, e)}]
            /\ UNCHANGED catalog
       ELSE Fail(d, FALSE)
    /\ UNCHANGED <<revision, screening, late, active>>

CatalogContext(d) ==
    LET hits == {e \in Documents : run[d].seen[e] # None} IN
    /\ At(d, "catalog")
    /\ IF \A e \in hits : Confirmed(e, run[d].seen[e])
       THEN /\ run' = [run EXCEPT ![d].pc = "record",
                                  ![d].found = {e \in hits : Qualified(d, e)}]
            /\ UNCHANGED catalog
       ELSE Fail(d, TRUE)
    /\ UNCHANGED <<revision, screening, late, active>>

\* record_preflight_candidates, in a transaction of its own.
Recordable(d, e) ==
    IF run[d].seen[e].source = "active" THEN state[e] = "READY" ELSE state[e] # "DELETED"

RecordCandidates(d) ==
    /\ At(d, "record")
    /\ IF \A e \in run[d].found : Recordable(d, e)
       THEN Goto(d, "classify") /\ UNCHANGED catalog
       ELSE Fail(d, TRUE)
    /\ UNCHANGED <<revision, screening, late, active>>

-----------------------------------------------------------------------------
(* _classify_candidates, append_advisory_evidence and the seal. *)

\* The chunks of the candidate are read again and the two models judge them, each
\* validly or not; a candidate beyond the budget is judged by neither.
Judge(d, e, roles, reason) ==
    run' = [run EXCEPT ![d].judged = @ \cup {e},
                       ![d].valid = @ \cup ({e} \X roles),
                       ![d].reasons = IF roles = Roles THEN @ ELSE @ \cup {reason}]

Classify(d) ==
    /\ At(d, "classify")
    /\ \E e \in run[d].found \ run[d].judged :
        CASE Cardinality(run[d].judged) >= Budget ->
                /\ Judge(d, e, {}, "advisory_candidate_budget")
                /\ UNCHANGED catalog
          [] Cardinality(run[d].judged) < Budget /\ e \notin content ->
                Fail(d, FALSE)
          [] OTHER ->
                /\ \E roles \in SUBSET Roles : Judge(d, e, roles, "advisory_incomplete")
                /\ UNCHANGED catalog
    /\ UNCHANGED <<revision, screening, late, active>>

\* The evidence rows of a candidate, and those that are valid.
ValidEvidence(d, e) == {"DETERMINISTIC"} \cup {role \in Roles : <<e, role>> \in run[d].valid}
Evidence(d, e) ==
    {"DETERMINISTIC"} \cup Roles \cup
        (IF Roles \subseteq ValidEvidence(d, e) THEN {} ELSE {"INCOMPLETE"})

\* Variant: one valid answer on each candidate completes the review.
AdvisoryComplete_Either(d) ==
    \A e \in run[d].found : \E role \in Roles : <<e, role>> \in run[d].valid

\* all_valid
AdvisoryComplete(d) == run[d].valid = run[d].found \X Roles

\* clear
Clear(d) == run[d].found = {} /\ AdvisoryComplete(d)

\* _evidence_manifest, with candidate_discovery_complete true.
Sealable(d) ==
    /\ Clear(d) <=> AdvisoryComplete(d) /\ run[d].found = {} /\ run[d].reasons = {}
    /\ AdvisoryComplete(d) <=> run[d].reasons = {}
    /\ \A e \in run[d].found :
        /\ "DETERMINISTIC" \in ValidEvidence(d, e)
        /\ AdvisoryComplete(d) =>
            Roles \subseteq ValidEvidence(d, e) /\ "INCOMPLETE" \notin Evidence(d, e)

\* append_advisory_evidence: a valid answer may cite chunks of the candidate, or none, and a
\* cited chunk must still be retained.
AppendEvidence(d) ==
    /\ At(d, "classify") /\ run[d].judged = run[d].found
    /\ \/ Goto(d, "seal") /\ UNCHANGED catalog
       \/ (\E answer \in run[d].valid : answer[1] \notin content) /\ Fail(d, TRUE)
    /\ UNCHANGED <<revision, screening, late, active>>

Seal(d) ==
    /\ At(d, "seal")
    /\ IF Sealable(d)
       THEN /\ named' = [named EXCEPT ![d] = run[d].found]
            /\ Goto(d, "finish")
            /\ UNCHANGED <<state, retryable, content, requests>>
       ELSE Fail(d, TRUE)
    /\ UNCHANGED <<revision, screening, late, active>>

\* _finish_preflight: clear for publication, or for review.
FinishPreflight(d) ==
    /\ At(d, "finish")
    /\ state' = [state EXCEPT ![d] =
            IF Clear(d) THEN "PUBLISHING" ELSE "REVIEW_REQUIRED"]
    /\ End(d)
    /\ UNCHANGED <<retryable, revision, content, screening, late, active, named, requests>>

-----------------------------------------------------------------------------
(* What the neighbours do (in full in Lifecycle). *)

Activate(d) ==
    /\ At(d, "activate")
    /\ active' = [active EXCEPT ![d] = revision[d]]
    /\ Goto(d, "unscreen")
    /\ UNCHANGED <<catalog, revision, screening, late>>

RemoveScreening(d) ==
    /\ At(d, "unscreen")
    /\ ScreeningUpdate(d, 0)
    /\ Goto(d, "publish")
    /\ UNCHANGED <<catalog, revision, active>>

FinishPublication(d) ==
    /\ At(d, "publish")
    /\ state' = [state EXCEPT ![d] = "READY"]
    /\ End(d)
    /\ UNCHANGED <<retryable, revision, content, screening, late, active, named, requests>>

DeleteActive(d) ==
    /\ At(d, "delete_active")
    /\ active' = [active EXCEPT ![d] = 0]
    /\ Goto(d, "delete_screening")
    /\ UNCHANGED <<catalog, revision, screening, late>>

\* Variant: points that are not there need no deletion.
DeleteScreening_WhenFound(d) ==
    /\ At(d, "delete_screening")
    /\ IF screening[d] = 0 THEN UNCHANGED <<screening, late>> ELSE ScreeningUpdate(d, 0)
    /\ Goto(d, "purge")
    /\ UNCHANGED <<catalog, revision, active>>

DeleteScreening(d) ==
    /\ At(d, "delete_screening")
    /\ ScreeningUpdate(d, 0)
    /\ Goto(d, "purge")
    /\ UNCHANGED <<catalog, revision, active>>

Purge(d) ==
    /\ At(d, "purge")
    /\ content' = content \ {d}
    /\ state' = [state EXCEPT ![d] = "DELETED"]
    /\ End(d)
    /\ UNCHANGED <<retryable, revision, screening, late, active, named, requests>>

Work(d) ==
    \/ Start(d) \/ Interrupt(d)
    \/ Prepare(d) \/ ClearScreening(d) \/ UpsertScreening(d)
    \/ UpsertTimesOut(d) \/ ApplyLate(d)
    \/ Query(d) \/ CatalogContext(d) \/ RecordCandidates(d)
    \/ Classify(d) \/ AppendEvidence(d) \/ Seal(d) \/ FinishPreflight(d)
    \/ Activate(d) \/ RemoveScreening(d) \/ FinishPublication(d)
    \/ DeleteActive(d) \/ DeleteScreening(d) \/ Purge(d)

Next == \E d \in Documents : Upload(d) \/ Keep(d) \/ Delete(d) \/ Retry(d) \/ Work(d)

Spec == Init /\ [][Next]_vars

-----------------------------------------------------------------------------
\* Two documents that resemble each other are never both searchable unless one
\* of them was shown to a reviewer as a candidate of the other, however their
\* preflights and publications overlap (docs/architecture.md: the screening
\* collection exists "so concurrent uploads can be compared").
DuplicatesMeet ==
    \A d, e \in Documents :
        d # e /\ {state[d], state[e]} = {"READY"} => d \in named[e] \/ e \in named[d]

\* What the worker concludes from the models' answers is always accepted by the
\* exhaustive validation of seal_prepared_revision.
SealAccepted == \A d \in Documents : At(d, "seal") => Sealable(d)

\* With no operation open, a point that a search can hit, now or once Qdrant has
\* caught up, and that the catalog does not confirm ("candidate point did not match
\* catalog visibility", managers/worker.py) was left behind by a failed preflight of
\* its document; above all, a deleted document has none on its way.
PointsMatchCatalog ==
    (\A d \in Documents : At(d, "idle") /\ state[d] \notin DOMAIN First) =>
        \A e \in Documents :
            \/ state[e] = "PREFLIGHT_FAILED"
            \/ /\ \A r \in {screening[e], late[e]} \ {0} :
                    Confirmed(e, [source |-> "screening", revision |-> r])
               /\ active[e] # 0 => Confirmed(e, [source |-> "active", revision |-> active[e]])

\* A preflight fails for good only because a document it resembles was purged
\* meanwhile (candidate_content_missing of _classification_excerpts).
PreflightFailureRetryable ==
    \A d \in Documents : state[d] = "PREFLIGHT_FAILED" /\ ~retryable[d] =>
        \E e \in Documents \ {d} : e \notin content
=============================================================================
