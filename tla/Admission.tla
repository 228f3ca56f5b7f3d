------------------------------ MODULE Admission ------------------------------
(***************************************************************************)
(* The admission of uploads and the idempotency of mutations:              *)
(* managers/document.py (upload_document, _run_mutation), prepare_admission *)
(* and register_admission of services/document.py, the storage calls they  *)
(* make, and reserve_idempotency and complete_idempotency of               *)
(* services/intake.py.  Calls are HTTP requests on threads of their own;   *)
(* they stream and scan concurrently and run one short transaction each    *)
(* under the transition lock.  Catalog and files share no transaction.     *)
(*                                                                         *)
(* A document is named by the call that admits it (a fresh UUID).  The     *)
(* mutation beside the upload is the deletion; decisions and retries go    *)
(* through the same _run_mutation.                                         *)
(***************************************************************************)
EXTENDS Naturals, FiniteSets

CONSTANTS
    Calls,          \* HTTP requests, and the documents they admit
    Keys,           \* Idempotency-Key values
    Contents,       \* PDF bytes, by digest
    None,
    MaxErrors,      \* bound: failed registrations and commits
    MaxCrashes      \* bound: deaths of the process

ASSUME NoneAssumption == None \notin Calls \cup Keys \cup Contents
ASSUME LimitsAssumption == MaxErrors \in Nat /\ MaxCrashes \in Nat

VARIABLES
    docs,       \* Document rows: digest and state
    idem,       \* IdempotencyRecord rows: request and resource
    objects,    \* files under objects/
    staged,     \* files under quarantine/, by call
    call,       \* the requests
    lock,       \* transition_lock
    errors, crashes

vars == <<docs, idem, objects, staged, call, lock, errors, crashes>>

\* canonical_request_sha256: action, material and (compared beside it) actor.
Work ==
    [action : {"upload"}, of : Contents] \cup [action : {"delete"}, of : Calls]

Bound   == {"accepted", "replay", "duplicate"}
Unbound == {"none", "conflict", "refused", "error"}
Answer  == [kind : Bound, doc : Calls] \cup [kind : Unbound, doc : {None}]
Nothing == [kind |-> "none", doc |-> None]

\* In progress; at rest; condemned; purged.
State == {"working", "stable", "deleting", "deleted"}

\* A missing row is no row.
ASSUME NullAssumption ==
    None \notin [digest : Contents, state : State] \cup [work : Work, doc : Calls]

\* The statements a call stands before.
Transaction == {"admitted", "promoted", "mutated", "undo"}
InFlight    == Transaction \cup {"streaming", "scanning", "ready", "closing"}

TypeOK ==
    /\ docs \in [Calls -> [digest : Contents, state : State] \cup {None}]
    /\ idem \in [Keys -> [work : Work, doc : Calls] \cup {None}]
    /\ objects \subseteq Calls
    /\ staged \subseteq Calls
    /\ call \in [Calls -> [pc : InFlight \cup {"new", "done", "dead"},
                           key : Keys \cup {None}, work : Work \cup {None},
                           answer : Answer]]
    /\ lock \in Calls \cup {None}
    /\ errors \in 0 .. MaxErrors /\ crashes \in 0 .. MaxCrashes

Init ==
    /\ docs = [c \in Calls |-> None]
    /\ idem = [k \in Keys |-> None]
    /\ objects = {} /\ staged = {}
    /\ call = [c \in Calls |->
            [pc |-> "new", key |-> None, work |-> None, answer |-> Nothing]]
    /\ lock = None
    /\ errors = 0 /\ crashes = 0

-----------------------------------------------------------------------------
Goto(c, pc) == call' = [call EXCEPT ![c].pc = pc]

\* What is left to do is the finally clause of upload_document.
Reply(c, kind, d) ==
    call' = [call EXCEPT ![c].pc = "closing",
                         ![c].answer = [kind |-> kind, doc |-> d]]

Error ==
    errors < MaxErrors /\ errors' = errors + 1

\* A request comes in: any key, for any work, repeated or not.
Arrive(c) ==
    /\ call[c].pc = "new"
    /\ \E k \in Keys, w \in Work :
        call' = [call EXCEPT ![c].pc = IF w.action = "upload" THEN "streaming" ELSE "ready",
                             ![c].key = k, ![c].work = w]
    /\ UNCHANGED <<docs, idem, objects, staged, lock, errors, crashes>>

-----------------------------------------------------------------------------
(* prepare_admission, outside the lock and the transaction. *)

\* stream_upload removes what it wrote when the upload is too large or no PDF.
StreamUpload(c) ==
    /\ call[c].pc = "streaming"
    /\ \/ staged' = staged \cup {c} /\ Goto(c, "scanning")
       \/ staged' = staged /\ Reply(c, "refused", None)
    /\ UNCHANGED <<docs, idem, objects, lock, errors, crashes>>

Scan(c) ==
    /\ call[c].pc = "scanning"
    /\ \/ staged' = staged /\ Goto(c, "ready")
       \/ staged' = staged \ {c} /\ Reply(c, "refused", None)
    /\ UNCHANGED <<docs, idem, objects, lock, errors, crashes>>

-----------------------------------------------------------------------------
(* The transaction, under transition_lock. *)

\* Variant: the key alone is compared.
Recorded_AnyRequest(c) == idem[call[c].key] # None

\* reserve_idempotency: the key was used for this very request.
Recorded(c) ==
    /\ idem[call[c].key] # None
    /\ idem[call[c].key].work = call[c].work

\* The key is free, and is reserved.
Unused(c) == idem[call[c].key] = None

\* Variant: documents in progress are not looked at.
Retained_AtRest(d) == docs[d] # None /\ docs[d].state = "stable"

\* A document that is not terminal.
Retained(d) == docs[d] # None /\ docs[d].state # "deleted"

\* _find_exact_duplicate
Duplicates(c) ==
    {d \in Calls : Retained(d) /\ call[c].work = [action |-> "upload", of |-> docs[d].digest]}

\* request_deletion accepts documents at rest, and again those it condemned.
Deletable(d) == docs[d] # None /\ docs[d].state # "working"

\* The lock is taken and the key reserved.  A replay, a conflict, a duplicate
\* or a request the lifecycle refuses rolls back; the others go on with the
\* reservation, still uncommitted.
Begin(c) ==
    /\ call[c].pc = "ready"
    /\ lock = None
    /\ \/ /\ Recorded(c)
          /\ Reply(c, "replay", idem[call[c].key].doc)
          /\ UNCHANGED lock
       \/ /\ idem[call[c].key] # None /\ ~Recorded(c)
          /\ Reply(c, "conflict", None)
          /\ UNCHANGED lock
       \/ /\ Unused(c)
          /\ \E d \in Duplicates(c) : Reply(c, "duplicate", d)
          /\ UNCHANGED lock
       \/ /\ Unused(c)
          /\ call[c].work.action = "delete" /\ ~Deletable(call[c].work.of)
          /\ Reply(c, "refused", None)
          /\ UNCHANGED lock
       \/ /\ Unused(c)
          /\ call[c].work.action = "upload" /\ Duplicates(c) = {}
          /\ Goto(c, "admitted") /\ lock' = c
       \/ /\ Unused(c)
          /\ call[c].work.action = "delete" /\ Deletable(call[c].work.of)
          /\ Goto(c, "mutated") /\ lock' = c
    /\ UNCHANGED <<docs, idem, objects, staged, errors, crashes>>

\* promote_staged_file renames; a failure before it leaves the staged file to
\* the finally clause.
Promote(c) ==
    /\ call[c].pc = "admitted"
    /\ objects' = objects \cup {c}
    /\ staged' = staged \ {c}
    /\ Goto(c, "promoted")
    /\ UNCHANGED <<docs, idem, lock, errors, crashes>>

\* An exception in register_admission removes the promoted file, one in a
\* mutation has only the rollback to do.
RegisterFails(c) ==
    /\ call[c].pc \in {"admitted", "promoted", "mutated"}
    /\ Error
    /\ objects' = objects \ {c}
    /\ lock' = None
    /\ Reply(c, "error", None)
    /\ UNCHANGED <<docs, idem, staged, crashes>>

\* The document of the response that complete_idempotency stores.
Resource(c) == IF call[c].work.action = "upload" THEN c ELSE call[c].work.of

\* Variant: the rows do not wait for the file.
Commit_Unpromoted(c) ==
    /\ call[c].pc \in {"admitted", "promoted"}
    /\ docs' = [docs EXCEPT ![c] = [digest |-> call[c].work.of, state |-> "working"]]
    /\ idem' = [idem EXCEPT ![call[c].key] = [work |-> call[c].work, doc |-> Resource(c)]]
    /\ lock' = None
    /\ Reply(c, "accepted", Resource(c))
    /\ UNCHANGED <<objects, staged, errors, crashes>>

\* Document, operation, response and reservation become durable together.
Commit(c) ==
    /\ \/ /\ call[c].pc = "promoted"
          /\ docs' = [docs EXCEPT ![c] = [digest |-> call[c].work.of, state |-> "working"]]
       \/ /\ call[c].pc = "mutated"
          /\ docs' = [docs EXCEPT ![call[c].work.of].state =
                            IF @ = "stable" THEN "deleting" ELSE @]
    /\ idem' = [idem EXCEPT ![call[c].key] = [work |-> call[c].work, doc |-> Resource(c)]]
    /\ lock' = None
    /\ Reply(c, "accepted", Resource(c))
    /\ UNCHANGED <<objects, staged, errors, crashes>>

CommitFails(c) ==
    /\ Error
    /\ \/ call[c].pc = "promoted" /\ Goto(c, "undo") /\ UNCHANGED lock
       \/ call[c].pc = "mutated" /\ Reply(c, "error", None) /\ lock' = None
    /\ UNCHANGED <<docs, idem, objects, staged, crashes>>

\* Variant: the promoted file stays.
Compensate_Nothing(c) ==
    /\ call[c].pc = "undo"
    /\ lock' = None
    /\ Reply(c, "error", None)
    /\ UNCHANGED <<docs, idem, objects, staged, errors, crashes>>

\* compensate_failed_commit, still under the lock.
Compensate(c) ==
    /\ call[c].pc = "undo"
    /\ objects' = objects \ {c}
    /\ lock' = None
    /\ Reply(c, "error", None)
    /\ UNCHANGED <<docs, idem, staged, errors, crashes>>

\* discard_prepared_admission, and the response.
Close(c) ==
    /\ call[c].pc = "closing"
    /\ staged' = staged \ {c}
    /\ Goto(c, "done")
    /\ UNCHANGED <<docs, idem, objects, lock, errors, crashes>>

-----------------------------------------------------------------------------
(* The worker, which Lifecycle has in full: an open write transaction keeps  *)
(* it out of the catalog. *)

Settle(d) ==
    /\ lock = None
    /\ docs[d] # None /\ docs[d].state = "working"
    /\ docs' = [docs EXCEPT ![d].state = "stable"]
    /\ UNCHANGED <<idem, objects, staged, call, lock, errors, crashes>>

Purge(d) ==
    /\ lock = None
    /\ docs[d] # None /\ docs[d].state = "deleting"
    /\ docs' = [docs EXCEPT ![d].state = "deleted"]
    /\ objects' = objects \ {d}
    /\ UNCHANGED <<idem, staged, call, lock, errors, crashes>>

\* Every call ends without an answer, transactions roll back, files stay.
Crash ==
    /\ crashes < MaxCrashes /\ crashes' = crashes + 1
    /\ call' = [c \in Calls |->
            IF call[c].pc \in InFlight THEN [call[c] EXCEPT !.pc = "dead"] ELSE call[c]]
    /\ lock' = None
    /\ UNCHANGED <<docs, idem, objects, staged, errors>>

Proceed(c) ==
    \/ StreamUpload(c) \/ Scan(c) \/ Begin(c) \/ Promote(c) \/ Commit(c)
    \/ Compensate(c) \/ Close(c)

Next ==
    \/ \E c \in Calls :
        \/ Arrive(c) \/ Proceed(c) \/ RegisterFails(c) \/ CommitFails(c)
        \/ Settle(c) \/ Purge(c)
    \/ Crash

Spec == Init /\ [][Next]_vars

-----------------------------------------------------------------------------
\* A document that may be worked on or served has its source file, whatever
\* failed or crashed between the rename and the commit (register_admission,
\* compensate_failed_commit).
SourceStored ==
    \A d \in Calls : docs[d] # None /\ docs[d].state \in {"working", "stable"} =>
        d \in objects

\* The same bytes are never retained twice, however uploads race
\* (_find_exact_duplicate inside the transition lock).
NoDuplicates ==
    LET live == {d \in Calls : docs[d] # None /\ docs[d].state # "deleted"} IN
    \A d, e \in live : docs[d].digest = docs[e].digest => d = e

\* A key stands for one effect: all requests accepted under it, at once or by
\* replay after a lost answer, were the same request and name the same
\* document, and it admitted no other (reserve_idempotency).
OneEffectPerKey ==
    /\ \A c, e \in Calls :
        /\ call[c].key = call[e].key
        /\ {call[c].answer.kind, call[e].answer.kind} \subseteq {"accepted", "replay"}
        => call[c].work = call[e].work /\ call[c].answer.doc = call[e].answer.doc
    /\ \A d, e \in Calls :
        docs[d] # None /\ docs[e] # None /\ call[d].key = call[e].key => d = e

\* A failed call leaves nothing behind.  Files that no row names are left by
\* crashes only: at most one promoted file for each, because promotion happens
\* under the lock, and the staged files of the calls that died.  The transition
\* lock is held exactly while a call is inside its transaction, on every error
\* path (upload_document, _run_mutation).
LeftoversExplained ==
    /\ Cardinality({d \in objects : docs[d] = None /\ call[d].pc \notin Transaction})
        <= crashes
    /\ \A c \in staged : call[c].pc \in InFlight \cup {"dead"}
    /\ \A c \in Calls : lock = c <=> call[c].pc \in Transaction
=============================================================================
