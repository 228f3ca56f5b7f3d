----------------------------- MODULE Reingestion -----------------------------
(***************************************************************************)
(* The resumable re-ingestion client (apply_manifest of                    *)
(* services/reingestion.py, run by the operator command                    *)
(* reingest-manifest) against the service: uploads whose answer is lost,   *)
(* requests that arrive after the client gave up, crashes between an       *)
(* acceptance and the state file, uploads the service will not take, and   *)
(* any number of reruns of the same manifest.  The service is the API: an  *)
(* idempotency record for each entry (reserve_idempotency), what it would  *)
(* refuse, and the life of its document in outline.                        *)
(*                                                                         *)
(* An entry is its index, which also names its key and its document.  The  *)
(* manifest and the collections are valid, so validate_manifest and        *)
(* bootstrap succeed.                                                      *)
(***************************************************************************)
EXTENDS Integers, FiniteSets, FiniteSetsExt

CONSTANTS
    N,              \* entries of the manifest
    MaxOutstanding, \* max_outstanding
    AuthModes,      \* values of auth_mode
    None,
    MaxErrors       \* bound: lost and failed calls, crashes and entries that come to be barred

ASSUME CountsAssumption ==
    /\ N \in Nat \ {0} /\ MaxOutstanding \in Nat \ {0} /\ MaxErrors \in Nat
ASSUME AuthAssumption == AuthModes \subseteq {"anonymous-poc", "trusted-header"}
ASSUME NoneAssumption == None \notin {"OPEN", "READY", "DELETING", "GONE", "self", "other",
                                      "content", "duplicate"}

VARIABLES
    auth,       \* auth_mode, fixed by the deployment
    doc,        \* the document of an entry, in the catalog
    key,        \* the actor of the idempotency record of an entry
    barred,     \* why the service does not take the bytes of an entry now
    late,       \* entries with a request the client gave up, still on its way
    file,       \* the state file: the recorded state of accepted entries
    accepted,   \* the same in the memory of the client
    todo,       \* entries the client has still to poll
    pc,         \* the client; "off" between runs
    errors

vars == <<auth, doc, key, barred, late, file, accepted, todo, pc, errors>>
service == <<auth, doc, key, barred, late>>

Entries == 1 .. N

\* In progress or failed; published; being deleted after that; terminal.
State    == {"OPEN", "READY", "DELETING", "GONE"}
Terminal == {"READY", "GONE"}

TypeOK ==
    /\ auth \in AuthModes
    /\ doc \in [Entries -> State \cup {None}]
    /\ key \in [Entries -> {None, "self", "other"}]
    /\ barred \in [Entries -> {None, "content", "duplicate"}]
    /\ late \subseteq Entries
    /\ file \in [Entries -> State \cup {None}]
    /\ accepted \in [Entries -> State \cup {None}]
    /\ todo \subseteq Entries
    /\ pc \in {"off", "poll", "upload", "wait", "save"}
    /\ errors \in 0 .. MaxErrors

Init ==
    /\ auth \in AuthModes
    /\ doc = [e \in Entries |-> None]
    /\ key = [e \in Entries |-> None]
    /\ barred = [e \in Entries |-> None]
    /\ late = {}
    /\ file = [e \in Entries |-> None] /\ accepted = file
    /\ todo = {}
    /\ pc = "off"
    /\ errors = 0

-----------------------------------------------------------------------------
(* The client *)

Outstanding == {e \in Entries : accepted[e] \notin Terminal \cup {None}}
Pending     == {e \in Entries : accepted[e] = None}

\* pending.pop(0)
Current == Min(Pending)

\* The state file tells that all is done.
Finished == \A e \in Entries : file[e] \in Terminal

\* load_state
Loaded == file

\* Variant: the states in the file are trusted.
Unsettled_Trusted(known) == {}

\* The entries to ask the service about.
Unsettled(known) == {e \in Entries : known[e] \notin Terminal \cup {None}}

\* get_actor: without a trusted identity every run is an actor of its own.
Start ==
    /\ pc = "off" /\ ~Finished
    /\ accepted' = Loaded
    /\ todo' = Unsettled(Loaded)
    /\ pc' = "poll"
    /\ key' = IF auth = "anonymous-poc"
              THEN [e \in Entries |-> IF key[e] = "self" THEN "other" ELSE key[e]]
              ELSE key
    /\ UNCHANGED <<auth, doc, barred, late, file, errors>>

Poll(e) ==
    /\ pc = "poll" /\ e \in todo
    /\ accepted' = [accepted EXCEPT ![e] = doc[e]]
    /\ todo' = todo \ {e}
    /\ UNCHANGED <<service, file, pc, errors>>

\* save_state replaces the file in one step.
SavePolled ==
    /\ pc = "poll" /\ todo = {}
    /\ file' = accepted
    /\ pc' = "upload"
    /\ UNCHANGED <<service, accepted, todo, errors>>

\* Variant: the limit is met, not kept.
Room_Beyond == Cardinality(Outstanding) <= MaxOutstanding

Room == Cardinality(Outstanding) < MaxOutstanding

Upload ==
    /\ pc = "upload" /\ Pending # {} /\ Room
    /\ pc' = "wait"
    /\ UNCHANGED <<service, file, accepted, todo, errors>>

\* The answer of a new or of a repeated request names the state at admission.
Answered(e) ==
    /\ accepted' = [accepted EXCEPT ![e] = "OPEN"]
    /\ pc' = "save"

\* Variant: acceptances are saved with the next poll.
SaveAccepted_Later ==
    /\ pc = "save"
    /\ pc' = "upload"
    /\ UNCHANGED <<service, file, accepted, todo, errors>>

SaveAccepted ==
    /\ pc = "save"
    /\ file' = accepted
    /\ pc' = "upload"
    /\ UNCHANGED <<service, accepted, todo, errors>>

\* The run returns at its deadline, at once without waiting, or polls again.
EndOfRound ==
    /\ pc = "upload" /\ ~(Pending # {} /\ Room)
    /\ \/ pc' = "off" /\ UNCHANGED todo
       \/ Pending \cup Outstanding # {} /\ pc' = "poll" /\ todo' = Outstanding
    /\ UNCHANGED <<service, file, accepted, errors>>

-----------------------------------------------------------------------------
(* The service *)

\* Every upload is screened first (prepare_admission); the key of another actor is a
\* conflict (reserve_idempotency); a key without a record does not get past a retained
\* document with the same bytes (_find_exact_duplicate).
Refuses(e) ==
    \/ barred[e] = "content"
    \/ key[e] = "other"
    \/ key[e] = None /\ barred[e] = "duplicate"

\* upload_document for the client that waits: a refusal ends the run, an entry that is
\* known is replayed, any other is admitted.
Admit ==
    /\ pc = "wait"
    /\ \/ /\ Refuses(Current)
          /\ pc' = "off"
          /\ UNCHANGED <<doc, key, accepted>>
       \/ /\ ~Refuses(Current) /\ key[Current] = None
          /\ key' = [key EXCEPT ![Current] = "self"]
          /\ doc' = [doc EXCEPT ![Current] = "OPEN"]
          /\ Answered(Current)
       \/ /\ ~Refuses(Current) /\ key[Current] = "self"
          /\ Answered(Current)
          /\ UNCHANGED <<doc, key>>
    /\ UNCHANGED <<auth, barred, late, file, todo, errors>>

\* A request that outlived its run.
AdmitLate(e) ==
    /\ e \in late
    /\ late' = late \ {e}
    /\ IF key[e] = None /\ ~Refuses(e)
       THEN /\ key' = [key EXCEPT ![e] = IF auth = "anonymous-poc" THEN "other" ELSE "self"]
            /\ doc' = [doc EXCEPT ![e] = "OPEN"]
       ELSE UNCHANGED <<key, doc>>
    /\ UNCHANGED <<auth, barred, file, accepted, todo, pc, errors>>

\* The scanner finds malware in the bytes of an entry, they exceed a lowered limit, or
\* someone else uploads them first.  An accepted entry's own bytes are no duplicate of it.
Bar(e) ==
    /\ barred[e] = None
    /\ errors < MaxErrors /\ errors' = errors + 1
    /\ \E why \in {"content"} \cup {w \in {"duplicate"} : doc[e] = None} :
           barred' = [barred EXCEPT ![e] = why]
    /\ UNCHANGED <<auth, doc, key, late, file, accepted, todo, pc>>

\* A false positive is corrected, the limit is raised, the other document is deleted.
Unbar(e) ==
    /\ barred[e] # None
    /\ barred' = [barred EXCEPT ![e] = None]
    /\ UNCHANGED <<auth, doc, key, late, file, accepted, todo, pc, errors>>

\* An error of any call, a timeout or the death of the client ends the run; a
\* request may still be on its way.
Interrupt ==
    /\ pc # "off" /\ pc' = "off"
    /\ errors < MaxErrors /\ errors' = errors + 1
    /\ IF pc = "wait" THEN late' \in {late, late \cup {Current}} ELSE late' = late
    /\ UNCHANGED <<auth, doc, key, barred, file, accepted, todo>>

\* The worker and the operators move the documents on.
Settle(e) ==
    /\ doc[e] \in {"OPEN", "DELETING"}
    /\ \E s \in IF doc[e] = "OPEN" THEN Terminal ELSE {"GONE"} : doc' = [doc EXCEPT ![e] = s]
    /\ UNCHANGED <<auth, key, barred, late, file, accepted, todo, pc, errors>>

Delete(e) ==
    /\ doc[e] = "READY"
    /\ doc' = [doc EXCEPT ![e] = "DELETING"]
    /\ UNCHANGED <<auth, key, barred, late, file, accepted, todo, pc, errors>>

Client ==
    \/ Start \/ (\E e \in Entries : Poll(e)) \/ SavePolled
    \/ Upload \/ Admit \/ SaveAccepted \/ EndOfRound

Next ==
    \/ Client \/ Interrupt
    \/ \E e \in Entries : AdmitLate(e) \/ Bar(e) \/ Unbar(e) \/ Settle(e) \/ Delete(e)

Spec == Init /\ [][Next]_vars

(* Fairness: an unfinished manifest is run again, a run goes on until it     *)
(* ends, and documents in progress are settled by worker and operators.      *)
(* Nothing is assumed of what bars an entry: it may stay for ever.           *)
FairSpec == Spec /\ WF_vars(Client) /\ \A e \in Entries : WF_vars(Settle(e))

-----------------------------------------------------------------------------
\* "Resume acceptance while never exceeding the bounded outstanding set"
\* (apply_manifest): documents of the manifest that have not ended, the ones
\* whose acceptance the client does not know of included.
OutstandingBounded ==
    Cardinality({e \in Entries : doc[e] = "OPEN"}) <= MaxOutstanding

\* At any moment at most one acceptance is unknown to the state file, whatever
\* was lost, delayed or interrupted before (save_state after every upload).
OneUnknown == Cardinality({e \in Entries : doc[e] # None /\ file[e] = None}) <= 1

\* "A failed apply is resumed with the unchanged manifest and idempotency keys"
\* (docs/migration/historical-import.md): reruns end with an entry recorded as ended,
\* whatever was lost or late, if from some time on neither it nor one before it is barred.
\* A barred entry holds up those behind it (pending.pop(0)), never those before it.  The
\* exception is a request whose acceptance is unknown and that was another actor's, which
\* only happens without a trusted identity (get_actor).
ManifestCompletes ==
    \A e \in Entries :
        (\A f \in 1 .. e : <>[](barred[f] = None))
        => <>(\/ file[e] \in Terminal
              \/ auth = "anonymous-poc" /\ \E f \in 1 .. e : file[f] = None /\ key[f] = "other")
=============================================================================
