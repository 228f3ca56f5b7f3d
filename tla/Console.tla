------------------------------- MODULE Console -------------------------------
(***************************************************************************)
(* An operator at the Streamlit console while the service moves on: the    *)
(* cursor-paged lists (services/catalog.py and managers/catalog.py on the  *)
(* service's side, cursor_for and render_cursor_controls on the console's),*)
(* and the page of one document, which is put together from two separate   *)
(* reads and whose buttons act on what those reads said.                   *)
(*                                                                         *)
(* A document is its place in the order (created_at, id).  Nothing is      *)
(* assumed of the clock: documents may be admitted in any order.  The      *)
(* selected document goes through its whole lifecycle; of the others only  *)
(* the edges of DocumentContract that lists tell apart are taken.          *)
(* A behaviour follows one screen: reading a list changes nothing at the   *)
(* service, so what is true of each screen is true of all of them at once. *)
(***************************************************************************)
EXTENDS Naturals, Sequences, FiniteSets, SequencesExt, FiniteSetsExt

CONSTANTS
    Count,          \* documents, 1 .. Count
    Selected,       \* the document on the operator's page
    Limit,          \* rows on a page
    Candidates,     \* candidates in each sealed revision of Selected
    None,
    MaxOperations,  \* bound: operations of Selected
    MaxMoves        \* bound: steps of the documents other than Selected

ASSUME DocumentsAssumption == Count \in Nat /\ Selected \in 1 .. Count /\ Limit \in Nat \ {0}
ASSUME CandidatesAssumption == Candidates \in Seq(Nat)
ASSUME NoneAssumption == None \notin Nat
ASSUME NullAssumption ==
    \A v \in DOMAIN Candidates : \A start, end \in 0 .. Candidates[v] :
        None # {[revision |-> v, rank |-> k] : k \in start + 1 .. end}
ASSUME BoundsAssumption == MaxOperations \in Nat /\ MaxMoves \in Nat

VARIABLES
    state,      \* Document.state
    history,    \* the tombstones, oldest first
    revision,   \* newest sealed revision of Selected
    sealed,     \* the open preflight of Selected has sealed it
    retryable,  \* Document.failure_retryable of Selected
    operation,  \* newest operation of Selected
    used,       \* retry keys that an accepted request has completed
    late,       \* retry requests that timed out at the console and are still on their way
    screen,     \* what the operator is at: a list, or the selected document
    list,       \* session_state of the list, and its pages
    page,       \* the document page as last read
    evidence,   \* session_state of the candidate list, and its page
    problem,    \* what the page shows in place of the evidence
    steady,     \* ghost: rows that were in the list ever since its first page was read
    moves

service == <<state, history, revision, sealed, retryable, operation, used, late, moves>>
vars == <<service, screen, list, page, evidence, problem, steady>>

Documents  == 1 .. Count
Working    == {"PREFLIGHTING", "PUBLISHING", "DELETING"}
FailedFrom == [PREFLIGHTING |-> "PREFLIGHT_FAILED", PUBLISHING |-> "PUBLISH_FAILED",
               DELETING |-> "DELETE_FAILED"]
Failed     == {FailedFrom[s] : s \in Working}
Decisions  == {"KEEP", "REPLACE", "CANCEL"}
Lists      == {"documents", "history"}
Scopes     == [documents |-> {"", "REVIEW_REQUIRED"}, history |-> {""}]

\* cursor_for: a new stack starts on the first page.
FirstPage(scope) == [scope |-> scope, stack |-> <<None>>, pages |-> <<>>, next |-> None]
NoPage     == [state |-> "ABSENT", retryable |-> FALSE, revision |-> 0, operation |-> 0, read |-> FALSE]
NoEvidence == [scope |-> 0, stack |-> <<None>>, pages |-> <<>>, next |-> None]

Init ==
    /\ state = [d \in Documents |-> IF d = Selected THEN "PREFLIGHTING" ELSE "ABSENT"]
    /\ history = <<>>
    /\ revision = 0 /\ sealed = FALSE /\ retryable = FALSE /\ operation = 1
    /\ used = {} /\ late = {}
    /\ screen \in Lists \cup {"document"}
    /\ list = FirstPage("")
    /\ page = NoPage
    /\ evidence = NoEvidence /\ problem = "none"
    /\ steady = {}
    /\ moves = 0

-----------------------------------------------------------------------------
(* What the service answers. *)

\* The rows a list is filtered to: Document rows, or Tombstone rows by age.
Rows(scope) ==
    IF screen = "history"
    THEN DOMAIN history
    ELSE {d \in Documents : /\ state[d] \notin {"ABSENT", "DELETED"}
                            /\ scope = "" \/ state[d] = scope}

\* Keyset condition of list_documents, list_events and list_history.
After(rows, cursor) == {r \in rows : cursor = None \/ r < cursor}

\* order_by ... desc, limit: the newest rows after the cursor.
Newest(rows) == {r \in rows : Cardinality({s \in rows : s > r}) < Limit}

\* Variant: the cursor is the newest row that was left out.
NextCursor_LeftOut(rows) ==
    IF Cardinality(rows) > Limit THEN Max(rows \ Newest(rows)) ELSE None

NextCursor(rows) == IF Cardinality(rows) > Limit THEN Min(Newest(rows)) ELSE None

\* Variant: the place in the list is found again by rank alone.
CandidateStart_ByRank(cursor) ==
    IF cursor = None THEN 0
    ELSE IF cursor.rank > Candidates[revision] THEN None ELSE cursor.rank

\* _candidate_page_start: None is invalid_cursor.  A candidate row belongs to one revision.
CandidateStart(cursor) ==
    IF cursor = None THEN 0 ELSE IF cursor.revision # revision THEN None ELSE cursor.rank

\* preflight_revision: 0 is content_purged or artifact_not_ready.
PreflightRevision ==
    IF state[Selected] \in {"DELETING", "DELETE_FAILED", "DELETED"} THEN 0 ELSE revision

\* content_purged, artifact_not_ready, invalid_cursor
Refused(cursor) == PreflightRevision = 0 \/ CandidateStart(cursor) = None

\* get_preflight
Preflight(cursor) ==
    LET start == CandidateStart(cursor)
        end   == Min({start + Limit, Candidates[revision]})
    IN [items |-> {[revision |-> revision, rank |-> k] : k \in start + 1 .. end},
        next  |-> IF end < Candidates[revision] /\ start < end
                  THEN [revision |-> revision, rank |-> end] ELSE None]

\* allowed_actions
AllowedActions(view) ==
    CASE view.state = "REVIEW_REQUIRED" -> {"KEEP", "REPLACE", "CANCEL", "DELETE"}
      [] view.state \in Failed -> {"DELETE"} \cup (IF view.retryable THEN {"RETRY"} ELSE {})
      [] view.state = "READY" -> {"DELETE"}
      [] OTHER -> {}

-----------------------------------------------------------------------------
(* The service moves: other operators and the worker. *)

\* The state of d changes; a row that leaves the list is no longer steady in it.
Become(d, s) ==
    /\ UNCHANGED <<screen, list, page, evidence, problem>>
    /\ state' = [state EXCEPT ![d] = s]
    /\ history' = IF s = "DELETED" THEN Append(history, d) ELSE history
    /\ steady' = steady \cap Rows(list.scope)'

\* Edges of DocumentContract.
Move(d, s) ==
    /\ moves < MaxMoves /\ moves' = moves + 1
    /\ d # Selected /\ screen \in Lists
    /\ <<state[d], s>> \in {<<"ABSENT", "PREFLIGHTING">>, <<"PREFLIGHTING", "REVIEW_REQUIRED">>,
                            <<"REVIEW_REQUIRED", "DELETED">>, <<"PREFLIGHTING", "DELETED">>}
    /\ Become(d, s)
    /\ UNCHANGED <<revision, sealed, retryable, operation, used, late>>

\* seal_prepared_revision; an operation that is run again after a crash seals again.
Seal ==
    /\ state[Selected] = "PREFLIGHTING" /\ revision < Len(Candidates)
    /\ revision' = revision + 1 /\ sealed' = TRUE
    /\ UNCHANGED <<state, history, retryable, operation, used, late, moves, screen, list,
                   page, evidence, problem, steady>>

\* _finish_preflight for review, _publish_worker's and _delete_worker's last steps
Finish ==
    /\ state[Selected] \in Working /\ (state[Selected] = "PREFLIGHTING" => sealed)
    /\ Become(Selected, CASE state[Selected] = "PREFLIGHTING" -> "REVIEW_REQUIRED"
                           [] state[Selected] = "PUBLISHING"   -> "READY"
                           [] state[Selected] = "DELETING"     -> "DELETED")
    /\ UNCHANGED <<revision, sealed, retryable, operation, used, late, moves>>

\* _fail_operation, of a preflight before or after the seal
Fail ==
    /\ state[Selected] \in Working
    /\ retryable' \in BOOLEAN
    /\ Become(Selected, FailedFrom[state[Selected]])
    /\ UNCHANGED <<revision, sealed, operation, used, late, moves>>

\* enqueue_operation, for an accepted request that moves the document to state s
Accept(s) ==
    /\ operation < MaxOperations
    /\ operation' = operation + 1
    /\ Become(Selected, s)
    /\ UNCHANGED <<revision, moves>>

\* A clear document is approved without review, an ineligible one is purged.
FinishPreflight(s) ==
    /\ state[Selected] = "PREFLIGHTING" /\ (s = "PUBLISHING" => sealed)
    /\ Accept(s)
    /\ UNCHANGED <<sealed, retryable, used, late>>

\* request_deletion queues nothing for a document whose deletion has begun.
RequestDeletion ==
    /\ state[Selected] \in {"REVIEW_REQUIRED", "READY", "PREFLIGHT_FAILED", "PUBLISH_FAILED"}
    /\ Accept("DELETING")
    /\ retryable' = FALSE
    /\ UNCHANGED <<sealed, used, late>>

\* record_decision, of a document in review
RecordDecision(action) ==
    /\ Accept(IF action = "CANCEL" THEN "DELETING" ELSE "PUBLISHING")
    /\ UNCHANGED <<sealed, retryable, used, late>>

\* Other operators, at pages of their own.
OtherOperator ==
    \/ RequestDeletion
    \/ state[Selected] = "REVIEW_REQUIRED" /\ \E action \in Decisions : RecordDecision(action)

Ignore ==
    UNCHANGED <<state, history, revision, sealed, retryable, operation, moves, screen, list,
                page, evidence, problem, steady>>

\* request_retry: the failed operation gives way to a new one.
Retried ==
    /\ Accept(CHOOSE s \in Working : FailedFrom[s] = state[Selected])
    /\ sealed' = FALSE /\ retryable' = FALSE

\* _run_mutation around request_retry: a completed key is replayed, a refusal is rolled back.
HandleRetry(key) ==
    IF state[Selected] \in Failed /\ retryable /\ key \notin used
    THEN used' = used \cup {key} /\ Retried
    ELSE used' = used /\ Ignore

\* Someone else retries the document, under a key of their own.
OtherRetry ==
    /\ state[Selected] \in Failed /\ retryable
    /\ Retried
    /\ UNCHANGED <<used, late>>

DeliverLate ==
    \E key \in late : late' = late \ {key} /\ HandleRetry(key)

-----------------------------------------------------------------------------
(* The lists of the console.  A script run reads the page under the top of   *)
(* the stack; Next and Previous move the stack and run the script again.     *)

Reading == Len(list.pages) < Len(list.stack)

\* _render_catalog, _render_queue, _render_history
ReadList ==
    LET rows == Rows(list.scope)
        rest == After(rows, Last(list.stack))
    IN /\ screen \in Lists /\ Reading
       /\ list' = [list EXCEPT !.pages = Append(@, Newest(rest)), !.next = NextCursor(rest)]
       /\ steady' = IF Len(list.stack) = 1 THEN rows ELSE steady
       /\ UNCHANGED <<service, screen, page, evidence, problem>>

\* Any interaction runs the script again; the stack is kept.
Rerun ==
    /\ screen \in Lists /\ ~Reading
    /\ list' = [list EXCEPT !.pages = Front(@), !.next = None]
    /\ UNCHANGED <<service, screen, page, evidence, problem, steady>>

\* render_cursor_controls, which an empty page does not reach
NextPage ==
    /\ screen \in Lists /\ ~Reading /\ Last(list.pages) # {} /\ list.next # None
    /\ list' = [list EXCEPT !.stack = Append(@, list.next), !.next = None]
    /\ UNCHANGED <<service, screen, page, evidence, problem, steady>>

PreviousPage ==
    /\ screen \in Lists /\ ~Reading /\ Last(list.pages) # {} /\ Len(list.stack) > 1
    /\ list' = [list EXCEPT !.stack = Front(@), !.pages = Front(Front(@)), !.next = None]
    /\ UNCHANGED <<service, screen, page, evidence, problem, steady>>

ChangeScope ==
    /\ screen \in Lists /\ ~Reading
    /\ \E scope \in Scopes[screen] \ {list.scope} : list' = FirstPage(scope)
    /\ steady' = {}
    /\ UNCHANGED <<service, screen, page, evidence, problem>>

-----------------------------------------------------------------------------
(* The page of the selected document: first the document, then its evidence. *)

\* get_document; cursor_for with (document_id, revision_id)
ReadDocument ==
    /\ screen = "document" /\ ~page.read
    /\ page' = [state |-> state[Selected], retryable |-> retryable, revision |-> revision,
                operation |-> operation, read |-> TRUE]
    /\ evidence' = IF evidence.scope = revision THEN evidence
                   ELSE [NoEvidence EXCEPT !.scope = revision]
    /\ problem' = "none"
    /\ UNCHANGED <<service, screen, list, steady>>

Shown == page.read /\ Len(evidence.pages) = Len(evidence.stack)

\* _render_candidates and guarded: after a refusal, or when the service is not reached or has
\* an error of its own, the page has neither candidates nor controls.
ReadEvidence ==
    LET cursor == Last(evidence.stack) IN
    /\ page.read /\ page.revision > 0 /\ ~Shown
    /\ \/ /\ ~Refused(cursor)
          /\ evidence' = [evidence EXCEPT !.pages = Append(@, Preflight(cursor).items),
                                          !.next = Preflight(cursor).next]
          /\ problem' = "none"
       \/ /\ evidence' = [evidence EXCEPT !.pages = Append(@, None), !.next = None]
          /\ \/ Refused(cursor) /\ problem' = "refused"
             \/ problem' = "unreachable"
    /\ UNCHANGED <<service, screen, list, page, steady>>

\* The script runs again, with another top of the stack or the same.
Reopen(stack, pages) ==
    /\ page' = [page EXCEPT !.read = FALSE]
    /\ evidence' = [evidence EXCEPT !.stack = stack, !.pages = pages, !.next = None]

\* The candidate pages that were answered with evidence.
Answered == {i \in DOMAIN evidence.pages : evidence.pages[i] # None}

Complete == page.read /\ (Shown \/ page.revision = 0)

Refresh ==
    /\ Complete
    /\ Reopen(evidence.stack, IF Shown THEN Front(evidence.pages) ELSE evidence.pages)
    /\ UNCHANGED <<service, screen, list, problem, steady>>

NextCandidates ==
    /\ Shown /\ evidence.next # None
    /\ Reopen(Append(evidence.stack, evidence.next), evidence.pages)
    /\ UNCHANGED <<service, screen, list, problem, steady>>

PreviousCandidates ==
    /\ Shown /\ Len(evidence.stack) > 1 /\ Last(evidence.pages) # None
    /\ Reopen(Front(evidence.stack), Front(Front(evidence.pages)))
    /\ UNCHANGED <<service, screen, list, problem, steady>>

\* Variant: only the revision is compared.
DecisionTaken_AnyState == page.revision = revision

\* _require_current_review_revision: a decision is taken only for the revision it was made on.
DecisionTaken == state[Selected] = "REVIEW_REQUIRED" /\ page.revision = revision

\* _submit_decision and record_decision: the buttons follow the document read alone.  A
\* replacement needs a candidate on the page; that it is eligible is left to Lifecycle.
Decide(action) ==
    /\ Complete /\ page.revision > 0 /\ action \in AllowedActions(page)
    /\ action = "REPLACE" => Last(evidence.pages) \notin {None, {}}
    /\ DecisionTaken
    /\ RecordDecision(action)

\* _delete
Delete == Complete /\ "DELETE" \in AllowedActions(page) /\ RequestDeletion

\* Variant: one key for all retries of the document.
RetryKey_Document(view) == 0

\* idempotency_key("retry", document, current operation, attempt)
RetryKey(view) == view.operation

\* _retry: the request is answered or its answer lost, or it is late.
Retry ==
    /\ Complete /\ "RETRY" \in AllowedActions(page)
    /\ HandleRetry(RetryKey(page)) /\ late' = late

RetryTimesOut ==
    /\ Complete /\ "RETRY" \in AllowedActions(page)
    /\ late' = late \cup {RetryKey(page)} /\ used' = used
    /\ Ignore

-----------------------------------------------------------------------------
Browse == ReadList \/ Rerun \/ NextPage \/ PreviousPage \/ ChangeScope

Inspect ==
    \/ ReadDocument \/ ReadEvidence \/ Refresh \/ NextCandidates \/ PreviousCandidates
    \/ \E action \in Decisions : Decide(action)
    \/ Delete \/ Retry \/ RetryTimesOut

Serve ==
    \/ \E d \in Documents, s \in {"PREFLIGHTING", "REVIEW_REQUIRED", "DELETED"} : Move(d, s)
    \/ \E s \in {"PUBLISHING", "DELETING"} : FinishPreflight(s)
    \/ Seal \/ Finish \/ Fail \/ OtherRetry \/ OtherOperator \/ DeliverLate

Next == Serve \/ Inspect \/ Browse

Spec == Init /\ [][Next]_vars

-----------------------------------------------------------------------------
\* Walking forward through a list shows every row that was in it ever since its first
\* page was read exactly once and in order, however many rows join or leave the list
\* between the pages: what was not shown yet is still to come after this page.  A
\* page that turns out empty (the console then says that no document matches) is the
\* end of what is left (the opaque cursors of list_documents and list_history).
WalkExact ==
    /\ \A i, j \in DOMAIN list.pages :
        i < j => \A r \in list.pages[i], s \in list.pages[j] : r > s
    /\ screen \in Lists /\ ~Reading =>
        \A r \in steady :
            \/ \E i \in DOMAIN list.pages : r \in list.pages[i]
            \/ list.next # None /\ r < list.next

\* The candidate pages the operator has gone through are of one revision and
\* leave no rank out, although each script run reads the document again and
\* a retried preflight may have sealed another revision.
EvidenceOfOneRevision ==
    LET seen == UNION {evidence.pages[i] : i \in Answered} IN
    /\ \A c, e \in seen : c.revision = e.revision
    /\ \A c \in seen : \A k \in 1 .. c.rank : [c EXCEPT !.rank = k] \in seen

\* The page is put together from two reads with the worker and other operators between
\* them, and its buttons follow the first (_render_detail).  Whatever candidates stand beside
\* an offered decision are of the revision it binds to; and where the service refused them,
\* because a deletion began or the cursor is of another revision, it refuses the decision
\* too.  Only a read that failed for another reason (the service was not reached, or had an
\* error of its own) leaves the buttons alive without evidence.
DecisionSeesEvidence ==
    Complete /\ "KEEP" \in AllowedActions(page) =>
        /\ \A i \in Answered : \A c \in evidence.pages[i] : c.revision = page.revision
        /\ problem = "refused" => ~DecisionTaken

\* A retry that the page offers and that is still possible is never swallowed: the
\* service has not completed a request under its key, whatever was lost, late or
\* retried by someone else before.
RetryNotSwallowed ==
    /\ "RETRY" \in AllowedActions(page) /\ page.operation = operation
    /\ state[Selected] \in Failed
    => RetryKey(page) \notin used
=============================================================================
