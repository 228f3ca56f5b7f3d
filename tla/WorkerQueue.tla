----------------------------- MODULE WorkerQueue -----------------------------
(***************************************************************************)
(* The executor of managers/worker.py below the operations it runs: durable *)
(* leases with a clock, the process-local busy set and claim times, the    *)
(* slot threads, the heartbeat thread with its runtime cap, and a process  *)
(* that stops, dies and starts again.  What an operation does is left out: *)
(* it ends, raises, or takes for ever.                                     *)
(*                                                                         *)
(* Time is relative: a lease counts down to zero, the age of a claim counts *)
(* up to the cap, and a tick may come between any two steps.               *)
(***************************************************************************)
EXTENDS Naturals, FiniteSets

CONSTANTS
    Operations,     \* rows, numbered in the order of priority, created_at, id
    Documents,
    Locks,          \* the document of each operation and its replacement target
    Slots,
    None,
    Lease,          \* worker_lease_seconds, in ticks
    Cap,            \* worker_max_operation_seconds, in ticks
    MaxFailures,    \* bound: failures of _fail_operation itself
    MaxExits        \* bound: stops and crashes of the process

ASSUME OperationsAssumption == Operations \subseteq Nat
ASSUME NoneAssumption == None \notin Operations \cup Nat
ASSUME LocksAssumption == Locks \in [Operations -> (SUBSET Documents) \ {{}}]
ASSUME ClockAssumption == Lease \in Nat \ {0} /\ Cap \in Nat /\ Cap > Lease
ASSUME LimitsAssumption == MaxFailures \in Nat /\ MaxExits \in Nat

VARIABLES
    rows,       \* WorkOperation: state, owned by this worker_id, lease left
    busy,       \* _busy_documents
    age,        \* _claim_times, as the age of each claim
    thread,     \* the slot threads
    beat,       \* the heartbeat thread between its two steps
    stopping,   \* _stop
    failures, exits

vars == <<rows, busy, age, thread, beat, stopping, failures, exits>>

NoThread == [pc |-> "idle", op |-> None, raised |-> FALSE]
Waiting  == [pc |-> "wait", capped |-> {}]

TypeOK ==
    /\ rows \in [Operations -> [state : {"ABSENT", "QUEUED", "RUNNING", "CLOSED"},
                                own : BOOLEAN, lease : 0 .. Lease]]
    /\ busy \subseteq Documents
    /\ age \in [Operations -> (0 .. Cap) \cup {None}]
    /\ thread \in [Slots -> [pc : {"idle", "selecting", "selected", "running",
                                   "failing", "releasing", "released"},
                             op : Operations \cup {None}, raised : BOOLEAN]]
    /\ beat \in [pc : {"wait", "renew"}, capped : SUBSET Operations]
    /\ stopping \in BOOLEAN
    /\ failures \in 0 .. MaxFailures /\ exits \in 0 .. MaxExits

Init ==
    /\ rows = [o \in Operations |-> [state |-> "ABSENT", own |-> FALSE, lease |-> 0]]
    /\ busy = {}
    /\ age = [o \in Operations |-> None]
    /\ thread = [s \in Slots |-> NoThread]
    /\ beat = Waiting
    /\ stopping = FALSE
    /\ failures = 0 /\ exits = 0

-----------------------------------------------------------------------------
\* The API queues an operation when no open one touches its documents
\* (Lifecycle!OneOpenOperation).
Enqueue(o) ==
    /\ rows[o].state = "ABSENT"
    /\ \A p \in Operations : rows[p].state \in {"QUEUED", "RUNNING"} =>
        Locks[p] \cap Locks[o] = {}
    /\ rows' = [rows EXCEPT ![o].state = "QUEUED"]
    /\ UNCHANGED <<busy, age, thread, beat, stopping, failures, exits>>

\* Time passes for every lease and every claim.
Tick ==
    /\ rows' = [o \in Operations |->
            [rows[o] EXCEPT !.lease = IF @ = 0 THEN 0 ELSE @ - 1]]
    /\ age' = [o \in Operations |->
            IF age[o] = None \/ age[o] = Cap THEN age[o] ELSE age[o] + 1]
    /\ <<rows, age>>' # <<rows, age>>
    /\ UNCHANGED <<busy, thread, beat, stopping, failures, exits>>

\* recover_leases: worker_id and lease are cleared with the state.
Recovered(row) ==
    IF row.state = "RUNNING" /\ row.lease = 0
    THEN [state |-> "QUEUED", own |-> FALSE, lease |-> 0] ELSE row

-----------------------------------------------------------------------------
(* _claim_next, under _claim_lock: recover, select, register. *)

Claiming(s) == thread[s].pc \in {"selecting", "selected"}

BeginClaim(s) ==
    /\ thread[s].pc = "idle"
    /\ ~stopping
    /\ \A t \in Slots : ~Claiming(t)
    /\ rows' = [o \in Operations |-> Recovered(rows[o])]
    /\ thread' = [thread EXCEPT ![s].pc = "selecting"]
    /\ UNCHANGED <<busy, age, beat, stopping, failures, exits>>

\* Variant: the replacement target is not looked up in the busy set.
Eligible_OwnerOnly(o) ==
    /\ rows[o].state = "QUEUED"
    /\ \E d \in Locks[o] : d \notin busy

Eligible(o) == rows[o].state = "QUEUED" /\ Locks[o] \cap busy = {}

Select(s) ==
    /\ thread[s].pc = "selecting"
    /\ IF \A o \in Operations : ~Eligible(o)
       THEN /\ thread' = [thread EXCEPT ![s] = NoThread]
            /\ UNCHANGED rows
       ELSE \E o \in Operations :
            /\ Eligible(o)
            /\ \A p \in Operations : Eligible(p) => o <= p
            /\ rows' = [rows EXCEPT ![o] =
                    [state |-> "RUNNING", own |-> TRUE, lease |-> Lease]]
            /\ thread' = [thread EXCEPT ![s].pc = "selected", ![s].op = o]
    /\ UNCHANGED <<busy, age, beat, stopping, failures, exits>>

Register(s) ==
    LET o == thread[s].op IN
    /\ thread[s].pc = "selected"
    /\ IF Locks[o] \cap busy = {}
       THEN /\ busy' = busy \cup Locks[o]
            /\ age' = [age EXCEPT ![o] = 0]
            /\ thread' = [thread EXCEPT ![s].pc = "running"]
       ELSE /\ thread' = [thread EXCEPT ![s] = NoThread]
            /\ UNCHANGED <<busy, age>>
    /\ UNCHANGED <<rows, beat, stopping, failures, exits>>

-----------------------------------------------------------------------------
(* _execute *)

\* Every durable step asks whether the row is RUNNING under this worker_id:
\* the last one closes it, and a lost lease ends the thread's work silently.
Complete(s) ==
    LET o == thread[s].op IN
    /\ thread[s].pc = "running"
    /\ rows' = IF rows[o].state = "RUNNING" /\ rows[o].own
               THEN [rows EXCEPT ![o] = [state |-> "CLOSED", own |-> FALSE, lease |-> 0]]
               ELSE rows
    /\ thread' = [thread EXCEPT ![s].pc = "releasing"]
    /\ UNCHANGED <<busy, age, beat, stopping, failures, exits>>

RaiseError(s) ==
    /\ thread[s].pc = "running"
    /\ thread' = [thread EXCEPT ![s].pc = "failing"]
    /\ UNCHANGED <<rows, busy, age, beat, stopping, failures, exits>>

\* _fail_operation asks for RUNNING only.
FailOperation(s) ==
    LET o == thread[s].op IN
    /\ thread[s].pc = "failing"
    /\ rows' = IF rows[o].state = "RUNNING"
               THEN [rows EXCEPT ![o] = [state |-> "CLOSED", own |-> FALSE, lease |-> 0]]
               ELSE rows
    /\ thread' = [thread EXCEPT ![s].pc = "releasing"]
    /\ UNCHANGED <<busy, age, beat, stopping, failures, exits>>

\* Its transaction fails: the exception leaves _execute through the finally
\* clause and reaches the handler of _slot_loop.
FailureNotRecorded(s) ==
    /\ thread[s].pc = "failing"
    /\ failures < MaxFailures /\ failures' = failures + 1
    /\ thread' = [thread EXCEPT ![s].pc = "releasing", ![s].raised = TRUE]
    /\ UNCHANGED <<rows, busy, age, beat, stopping, exits>>

\* Variant: the claim time outlives the claim.
Unclaim_TimeKept(o) ==
    /\ busy' = busy \ Locks[o]
    /\ UNCHANGED age

\* _release_claim
Unclaim(o) ==
    /\ busy' = busy \ Locks[o]
    /\ age' = [age EXCEPT ![o] = None]

\* The finally clause of _execute.
ReleaseClaim(s) ==
    /\ thread[s].pc = "releasing"
    /\ Unclaim(thread[s].op)
    /\ thread' = IF thread[s].raised THEN [thread EXCEPT ![s].pc = "released"]
                 ELSE [thread EXCEPT ![s] = NoThread]
    /\ UNCHANGED <<rows, beat, stopping, failures, exits>>

\* The handler of _slot_loop releases the same claim again.
ReleaseAgain(s) ==
    /\ thread[s].pc = "released"
    /\ Unclaim(thread[s].op)
    /\ thread' = [thread EXCEPT ![s] = NoThread]
    /\ UNCHANGED <<rows, beat, stopping, failures, exits>>

-----------------------------------------------------------------------------
(* renew_leases: the claims past the cap are read under _busy_lock, the rows *)
(* are renewed in a transaction after it. *)

ReadCapped ==
    /\ beat.pc = "wait" /\ ~stopping
    /\ beat' = [pc |-> "renew",
                capped |-> {o \in Operations : age[o] # None /\ age[o] = Cap}]
    /\ UNCHANGED <<rows, busy, age, thread, stopping, failures, exits>>

\* Variant: the rows of another worker are renewed too.
Renewable_Any(o) == rows[o].state = "RUNNING" /\ o \notin beat.capped

Renewable(o) == rows[o].state = "RUNNING" /\ rows[o].own /\ o \notin beat.capped

Renew ==
    /\ beat.pc = "renew"
    /\ rows' = [o \in Operations |->
            IF Renewable(o) THEN [rows[o] EXCEPT !.lease = Lease] ELSE rows[o]]
    /\ beat' = Waiting
    /\ UNCHANGED <<busy, age, thread, stopping, failures, exits>>

-----------------------------------------------------------------------------
(* The process. *)

\* A new process has a new worker_id and empty tables, and start() recovers
\* the leases that have expired.
Boot ==
    /\ rows' = [o \in Operations |-> Recovered([rows[o] EXCEPT !.own = FALSE])]
    /\ busy' = {}
    /\ age' = [o \in Operations |-> None]
    /\ thread' = [s \in Slots |-> NoThread]
    /\ beat' = Waiting
    /\ stopping' = FALSE

Crash ==
    /\ exits < MaxExits /\ exits' = exits + 1
    /\ Boot
    /\ UNCHANGED failures

\* stop(): the heartbeat ends at once, the slots after their operation.  A slot
\* that read _stop just before may still claim; that is the order in which it
\* claims first, since only Restart needs _stop set and it waits for every thread.
Stop ==
    /\ exits < MaxExits /\ exits' = exits + 1
    /\ ~stopping
    /\ stopping' = TRUE
    /\ UNCHANGED <<rows, busy, age, thread, beat, failures>>

Restart ==
    /\ stopping
    /\ \A s \in Slots : thread[s].pc = "idle"
    /\ beat.pc = "wait"
    /\ Boot
    /\ UNCHANGED <<failures, exits>>

Claim(s)   == BeginClaim(s) \/ Select(s) \/ Register(s)
Execute(s) ==
    Complete(s) \/ RaiseError(s) \/ FailOperation(s) \/ ReleaseClaim(s) \/ ReleaseAgain(s)
Heartbeat  == ReadCapped \/ Renew

Next ==
    \/ \E o \in Operations : Enqueue(o)
    \/ \E s \in Slots : Claim(s) \/ Execute(s) \/ FailureNotRecorded(s)
    \/ Heartbeat \/ Tick \/ Crash \/ Stop \/ Restart

Spec == Init /\ [][Next]_vars

(* Fairness: the clock runs, the threads run (provider calls are bounded),   *)
(* and a stopped service is started again.                                   *)
FairSpec ==
    /\ Spec
    /\ \A s \in Slots : WF_vars(Claim(s)) /\ WF_vars(Execute(s))
    /\ WF_vars(Heartbeat) /\ WF_vars(Tick) /\ WF_vars(Restart)

-----------------------------------------------------------------------------
InWork(s) == thread[s].pc \in {"running", "failing"}

\* No two slots are inside operations on one document (_busy_documents against
\* recover_leases and the runtime cap).
OneThreadPerDocument ==
    \A s, t \in Slots : s # t /\ InWork(s) /\ InWork(t) =>
        Locks[thread[s].op] \cap Locks[thread[t].op] = {}

\* A slot between the registration of its claim and its release.
Holder(s) == thread[s].pc \in {"running", "failing", "releasing"}

\* As long as every failure can be recorded, the busy set and the claim times
\* are exactly those of the slots between registration and release, through
\* lapses, requeues and restarts; so no two slots meet on a document.
ClaimsExact ==
    failures = 0 =>
        /\ \A d \in Documents :
            d \in busy <=> \E s \in Slots : Holder(s) /\ d \in Locks[thread[s].op]
        /\ \A o \in Operations :
            age[o] # None <=> \E s \in Slots : Holder(s) /\ thread[s].op = o
        /\ OneThreadPerDocument

\* "document work exclusion changed while claiming" is never raised: what was
\* free when the row was selected is free when the claim is registered.
ClaimUncontested ==
    \A s \in Slots : thread[s].pc = "selected" => Locks[thread[s].op] \cap busy = {}

\* A row RUNNING that no thread works on.
Abandoned(o) ==
    /\ rows[o].state = "RUNNING"
    /\ \A s \in Slots : thread[s].op = o => thread[s].pc = "released"

\* As long as every failure can be recorded, the lease of an abandoned row
\* expires and recover_leases requeues it: no heartbeat renews it for ever.
LeasesRecover ==
    \A o \in Operations : Abandoned(o) ~> ~Abandoned(o) \/ failures > 0

\* docs/runbook.md: abandoned operations recover from durable leases.
AbandonedRecovered ==
    \A o \in Operations : Abandoned(o) ~> ~Abandoned(o)
=============================================================================
