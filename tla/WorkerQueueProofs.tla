-------------------------- MODULE WorkerQueueProofs --------------------------
(***************************************************************************)
(* The claim table of the worker, for any operations, documents, slots,    *)
(* lease, cap and bounds: claims are never contested, and while failures   *)
(* can be recorded the busy set is exactly what the slots hold.            *)
(***************************************************************************)
EXTENDS WorkerQueue, TLAPS

\* From selection on, a thread names an operation.
ThreadsBound ==
    \A s \in Slots : thread[s].pc \notin {"idle", "selecting"} => thread[s].op \in Operations

\* _claim_lock: one thread at a time is inside _claim_next.
OneClaimer == \A s, t \in Slots : Claiming(s) /\ Claiming(t) => s = t

\* Only a failure that could not be recorded releases a claim twice.
SecondReleaseCounted ==
    \A s \in Slots : thread[s].raised \/ thread[s].pc = "released" => failures # 0

\* Slots between registration and release hold different documents.
HoldersDisjoint ==
    \A s, t \in Slots : s # t /\ Holder(s) /\ Holder(t) =>
        Locks[thread[s].op] \cap Locks[thread[t].op] = {}

\* The claim table is exact.
TableExact ==
    /\ \A d \in Documents :
        d \in busy <=> \E s \in Slots : Holder(s) /\ d \in Locks[thread[s].op]
    /\ \A o \in Operations :
        age[o] # None <=> \E s \in Slots : Holder(s) /\ thread[s].op = o

QueueInv ==
    /\ TypeOK
    /\ ThreadsBound
    /\ OneClaimer
    /\ SecondReleaseCounted
    /\ ClaimUncontested
    /\ failures = 0 => HoldersDisjoint /\ TableExact

\* The rows of the table and the threads have their types.
Row == [state : {"ABSENT", "QUEUED", "RUNNING", "CLOSED"}, own : BOOLEAN, lease : 0 .. Lease]
Thread ==
    [pc : {"idle", "selecting", "selected", "running", "failing", "releasing", "released"},
     op : Operations \cup {None}, raised : BOOLEAN]

-----------------------------------------------------------------------------
\* recover_leases writes well-typed rows.
LEMMA RecoveredType == ASSUME NEW r \in Row PROVE Recovered(r) \in Row
  BY ClockAssumption DEF Recovered, Row

\* The claim table starts empty.
LEMMA QueueInit == Init => QueueInv
  <1> SUFFICES ASSUME Init PROVE QueueInv
    OBVIOUS
  <1>0. 0 \in 0 .. Lease /\ 0 \in 0 .. MaxFailures /\ 0 \in 0 .. MaxExits
    BY ClockAssumption, LimitsAssumption
  <1>1. TypeOK
    BY <1>0 DEF Init, TypeOK, NoThread, Waiting
  <1>2. \A s \in Slots : thread[s].pc = "idle" /\ ~thread[s].raised
    BY DEF Init, NoThread
  <1>3. ThreadsBound /\ OneClaimer /\ SecondReleaseCounted /\ ClaimUncontested
    BY <1>2 DEF ThreadsBound, OneClaimer, SecondReleaseCounted, ClaimUncontested, Claiming
  <1>4. HoldersDisjoint /\ TableExact
    BY <1>2 DEF Init, HoldersDisjoint, TableExact, Holder
  <1> QED
    BY <1>1, <1>3, <1>4 DEF QueueInv

\* A step that leaves threads, busy set and claim ages alone keeps the table.
LEMMA QueueQuiet ==
    ASSUME QueueInv, TypeOK', UNCHANGED <<thread, busy, failures>>,
           \A o \in Operations : age'[o] = None <=> age[o] = None
    PROVE  QueueInv'
  <1>1. (ThreadsBound /\ OneClaimer /\ SecondReleaseCounted /\ ClaimUncontested)'
    BY DEF QueueInv, ThreadsBound, OneClaimer, SecondReleaseCounted, ClaimUncontested, Claiming
  <1>2. failures' = 0 => HoldersDisjoint' /\ TableExact'
    BY DEF QueueInv, HoldersDisjoint, TableExact, Holder
  <1> QED
    BY <1>1, <1>2 DEF QueueInv

\* A thread that moves without registering or releasing keeps the table.
LEMMA ThreadMoves ==
    ASSUME QueueInv, NEW s \in Slots, NEW v \in Thread, thread' = [thread EXCEPT ![s] = v],
           rows' \in [Operations -> Row], UNCHANGED <<busy, age, beat, stopping, exits>>,
           failures' \in 0 .. MaxFailures, failures' = 0 => failures = 0,
           failures # 0 => failures' # 0,
           v.pc \notin {"idle", "selecting"} => v.op \in Operations,
           v.pc \in {"selecting", "selected"} =>
                Claiming(s) \/ \A t \in Slots : ~Claiming(t),
           v.raised \/ v.pc = "released" => failures' # 0,
           v.pc = "selected" => Locks[v.op] \cap busy = {},
           Holder(s) <=> v.pc \in {"running", "failing", "releasing"},
           Holder(s) => v.op = thread[s].op
    PROVE  QueueInv'
  <1>0. /\ thread \in [Slots -> Thread] /\ TypeOK
        /\ \A t \in Slots : thread'[t] = IF t = s THEN v ELSE thread[t]
    BY DEF QueueInv, TypeOK, Thread
  <1>1. TypeOK'
    BY <1>0 DEF TypeOK, Thread, Row
  <1>2. ThreadsBound' /\ SecondReleaseCounted' /\ ClaimUncontested'
    BY <1>0 DEF QueueInv, ThreadsBound, SecondReleaseCounted, ClaimUncontested
  <1>3. OneClaimer'
    BY <1>0 DEF QueueInv, OneClaimer, Claiming
  <1>4. \A t \in Slots : /\ Holder(t)' <=> Holder(t)
                         /\ Holder(t) => thread'[t].op = thread[t].op
    BY <1>0 DEF Holder
  <1>5. failures' = 0 => HoldersDisjoint' /\ TableExact'
    <2> SUFFICES ASSUME failures' = 0 PROVE HoldersDisjoint' /\ TableExact'
      OBVIOUS
    <2>1. HoldersDisjoint /\ TableExact
      BY DEF QueueInv
    <2>2. HoldersDisjoint'
      BY <2>1, <1>4 DEF HoldersDisjoint
    <2>3. TableExact'
      BY <2>1, <1>4 DEF TableExact
    <2> QED
      BY <2>2, <2>3
  <1> QED
    BY <1>1, <1>2, <1>3, <1>5 DEF QueueInv

-----------------------------------------------------------------------------
\* _claim_next keeps the table exact: it registers only what is free.
LEMMA ClaimKeeps ==
    ASSUME QueueInv, NEW s \in Slots, Claim(s)
    PROVE  QueueInv'
  <1>0. /\ thread \in [Slots -> Thread] /\ rows \in [Operations -> Row] /\ TypeOK
        /\ thread[s] \in Thread /\ NoThread \in Thread
    BY DEF QueueInv, TypeOK, Thread, Row, NoThread
  <1>1. CASE BeginClaim(s)
    <2> DEFINE v == [thread[s] EXCEPT !.pc = "selecting"]
    <2>1. v \in Thread /\ v.pc = "selecting" /\ v.raised = thread[s].raised
      BY <1>0 DEF Thread
    <2>2. rows' \in [Operations -> Row]
      BY <1>0, <1>1, RecoveredType DEF BeginClaim
    <2>3. ~Holder(s) /\ thread[s].pc = "idle"
      BY <1>1 DEF BeginClaim, Holder
    <2>4. thread' = [thread EXCEPT ![s] = v] /\ \A t \in Slots : ~Claiming(t)
      BY <1>1 DEF BeginClaim
    <2>5. v.raised => failures # 0
      BY <2>1 DEF QueueInv, SecondReleaseCounted
    <2>6. UNCHANGED <<busy, age, beat, stopping, failures, exits>> /\ failures \in 0 .. MaxFailures
      BY <1>0, <1>1 DEF BeginClaim, TypeOK
    <2> HIDE DEF v
    <2> QED
      BY <2>1, <2>2, <2>3, <2>4, <2>5, <2>6, ThreadMoves
  <1>2. CASE Select(s)
    <2>1. thread[s].pc = "selecting" /\ Claiming(s) /\ ~Holder(s)
      BY <1>2 DEF Select, Claiming, Holder
    <2>2. UNCHANGED <<busy, age, beat, stopping, failures, exits>> /\ failures \in 0 .. MaxFailures
      BY <1>0, <1>2 DEF Select, TypeOK
    <2>3. CASE \A o \in Operations : ~Eligible(o)
      <3>1. thread' = [thread EXCEPT ![s] = NoThread] /\ rows' \in [Operations -> Row]
        BY <1>0, <1>2, <2>3 DEF Select
      <3>2. NoThread.pc = "idle" /\ ~NoThread.raised
        BY DEF NoThread
      <3> QED
        BY <1>0, <2>1, <2>2, <3>1, <3>2, ThreadMoves
    <2>4. CASE ~\A o \in Operations : ~Eligible(o)
      <3>1. PICK o \in Operations :
                /\ Eligible(o)
                /\ rows' = [rows EXCEPT ![o] =
                        [state |-> "RUNNING", own |-> TRUE, lease |-> Lease]]
                /\ thread' = [thread EXCEPT ![s].pc = "selected", ![s].op = o]
        BY <1>2, <2>4 DEF Select
      <3> DEFINE v == [thread[s] EXCEPT !.pc = "selected", !.op = o]
      <3>2. /\ v \in Thread /\ v.pc = "selected" /\ v.op = o /\ v.raised = thread[s].raised
            /\ thread' = [thread EXCEPT ![s] = v]
        BY <1>0, <3>1 DEF Thread
      <3>3. rows' \in [Operations -> Row]
        <4>1. [state |-> "RUNNING", own |-> TRUE, lease |-> Lease] \in Row
          BY ClockAssumption DEF Row
        <4> QED
          BY <1>0, <3>1, <4>1
      <3>4. Locks[o] \cap busy = {} /\ (v.raised => failures # 0)
        BY <3>1, <3>2 DEF Eligible, QueueInv, SecondReleaseCounted
      <3> HIDE DEF v
      <3> QED
        BY <2>1, <2>2, <3>2, <3>3, <3>4, ThreadMoves
    <2> QED
      BY <2>3, <2>4
  <1>3. CASE Register(s)
    <2> DEFINE o == thread[s].op
    <2>1. thread[s].pc = "selected" /\ o \in Operations /\ Locks[o] \cap busy = {}
      BY <1>3 DEF Register, QueueInv, ThreadsBound, ClaimUncontested
    <2>2. /\ busy' = busy \cup Locks[o] /\ age' = [age EXCEPT ![o] = 0]
          /\ thread' = [thread EXCEPT ![s].pc = "running"]
          /\ UNCHANGED <<rows, beat, stopping, failures, exits>>
      BY <1>3, <2>1 DEF Register
    <2> DEFINE v == [thread[s] EXCEPT !.pc = "running"]
    <2>3. /\ v \in Thread /\ v.pc = "running" /\ v.op = o /\ v.raised = thread[s].raised
          /\ \A t \in Slots : thread'[t] = IF t = s THEN v ELSE thread[t]
          /\ thread' \in [Slots -> Thread]
      BY <1>0, <2>2 DEF Thread
    <2>4. Locks[o] \subseteq Documents /\ 0 \in 0 .. Cap
      BY <2>1, LocksAssumption, ClockAssumption
    <2>5. TypeOK'
      BY <1>0, <2>1, <2>2, <2>3, <2>4 DEF TypeOK, Thread
    <2>6. ThreadsBound' /\ SecondReleaseCounted'
      BY <2>1, <2>2, <2>3 DEF QueueInv, ThreadsBound, SecondReleaseCounted
    <2>7. \A t \in Slots : ~Claiming(t)'
      BY <2>1, <2>3 DEF QueueInv, OneClaimer, Claiming
    <2>8. OneClaimer' /\ ClaimUncontested'
      BY <2>7 DEF OneClaimer, ClaimUncontested, Claiming
    <2>9. ASSUME failures' = 0 PROVE HoldersDisjoint' /\ TableExact'
      <3>1. HoldersDisjoint /\ TableExact
        BY <2>2, <2>9 DEF QueueInv
      <3>2. \A t \in Slots : /\ Holder(t)' <=> Holder(t) \/ t = s
                             /\ thread'[t].op = thread[t].op
        BY <2>3 DEF Holder
      <3>3. ~Holder(s)
        BY <2>1 DEF Holder
      <3>4. \A t \in Slots : Holder(t) => Locks[thread[t].op] \cap Locks[o] = {}
        <4> SUFFICES ASSUME NEW t \in Slots, Holder(t), NEW d \in Locks[thread[t].op], d \in Locks[o]
                     PROVE FALSE
          OBVIOUS
        <4>1. d \in busy
          BY <3>1, <2>4 DEF TableExact
        <4> QED
          BY <4>1, <2>1
      <3>5. HoldersDisjoint'
        BY <3>1, <3>2, <3>3, <3>4 DEF HoldersDisjoint
      <3>6. \A d \in Documents :
                d \in busy' <=> \E t \in Slots : Holder(t)' /\ d \in Locks[thread'[t].op]
        BY <3>1, <3>2, <2>2 DEF TableExact
      <3>7. \A p \in Operations :
                age'[p] # None <=> \E t \in Slots : Holder(t)' /\ thread'[t].op = p
        <4>1. /\ age \in [Operations -> (0 .. Cap) \cup {None}]
              /\ \A p \in Operations : age'[p] = IF p = o THEN 0 ELSE age[p]
          BY <1>0, <2>2 DEF TypeOK
        <4> QED
          BY <3>1, <3>2, <4>1, NoneAssumption DEF TableExact
      <3> QED
        BY <3>5, <3>6, <3>7 DEF TableExact
    <2> QED
      BY <2>5, <2>6, <2>8, <2>9 DEF QueueInv
  <1> QED
    BY <1>1, <1>2, <1>3 DEF Claim

\* Releasing a claim that is exact takes out what this slot held, no more.
LEMMA ReleaseKeeps ==
    ASSUME QueueInv, NEW s \in Slots, ReleaseClaim(s) \/ ReleaseAgain(s)
    PROVE  QueueInv'
  <1> DEFINE o == thread[s].op
             v == IF thread[s].pc = "releasing" /\ thread[s].raised
                  THEN [thread[s] EXCEPT !.pc = "released"] ELSE NoThread
  <1>0. /\ thread \in [Slots -> Thread] /\ TypeOK /\ thread[s] \in Thread
    BY DEF QueueInv, TypeOK, Thread
  <1>1. /\ thread[s].pc \in {"releasing", "released"} /\ o \in Operations
        /\ busy' = busy \ Locks[o] /\ age' = [age EXCEPT ![o] = None]
        /\ UNCHANGED <<rows, beat, stopping, failures, exits>>
    BY DEF ReleaseClaim, ReleaseAgain, Unclaim, QueueInv, ThreadsBound
  <1>2. thread' = [thread EXCEPT ![s] = v]
    BY DEF ReleaseClaim, ReleaseAgain
  <1>3. /\ v \in Thread /\ v.pc \in {"idle", "released"}
        /\ v.pc = "released" => v.op = o /\ thread[s].raised
        /\ v.raised => thread[s].raised
    BY <1>0 DEF Thread, NoThread
  <1> HIDE DEF v
  <1>4. /\ thread' \in [Slots -> Thread]
        /\ \A t \in Slots : thread'[t] = IF t = s THEN v ELSE thread[t]
    BY <1>0, <1>2, <1>3
  <1>5. TypeOK'
    BY <1>0, <1>1, <1>4 DEF TypeOK, Thread
  <1>6. ThreadsBound' /\ SecondReleaseCounted' /\ ClaimUncontested'
    BY <1>1, <1>3, <1>4 DEF QueueInv, ThreadsBound, SecondReleaseCounted, ClaimUncontested
  <1>7. OneClaimer'
    BY <1>3, <1>4 DEF QueueInv, OneClaimer, Claiming
  <1>8. ASSUME failures' = 0 PROVE HoldersDisjoint' /\ TableExact'
    <2>1. HoldersDisjoint /\ TableExact /\ thread[s].pc = "releasing" /\ Holder(s)
      BY <1>1, <1>8 DEF QueueInv, SecondReleaseCounted, Holder
    <2>2. \A t \in Slots : /\ Holder(t)' <=> Holder(t) /\ t # s
                           /\ t # s => thread'[t] = thread[t]
      BY <1>3, <1>4 DEF Holder
    <2>3. HoldersDisjoint'
      BY <2>1, <2>2 DEF HoldersDisjoint
    <2>4. \A t \in Slots : t # s /\ Holder(t) =>
            Locks[thread[t].op] \cap Locks[o] = {} /\ thread[t].op \in Operations
      BY <2>1 DEF HoldersDisjoint, Holder, QueueInv, ThreadsBound
    <2>5. \A d \in Documents :
            d \in busy' <=> \E t \in Slots : Holder(t)' /\ d \in Locks[thread'[t].op]
      BY <1>1, <2>1, <2>2, <2>4 DEF TableExact
    <2>6. \A t \in Slots : t # s /\ Holder(t) => thread[t].op # o
      BY <1>1, <2>4, LocksAssumption
    <2>7. \A p \in Operations :
            age'[p] # None <=> \E t \in Slots : Holder(t)' /\ thread'[t].op = p
      <3>1. \A p \in Operations : age'[p] = IF p = o THEN None ELSE age[p]
        BY <1>0, <1>1 DEF TypeOK
      <3> QED
        BY <2>1, <2>2, <2>6, <3>1 DEF TableExact
    <2> QED
      BY <2>3, <2>5, <2>7 DEF TableExact
  <1> QED
    BY <1>5, <1>6, <1>7, <1>8 DEF QueueInv

\* Completing, raising and failing leave the claim where it is.
LEMMA ExecuteKeeps ==
    ASSUME QueueInv, NEW s \in Slots, Execute(s) \/ FailureNotRecorded(s)
    PROVE  QueueInv'
  <1>1. CASE ReleaseClaim(s) \/ ReleaseAgain(s)
    BY <1>1, ReleaseKeeps
  <1>2. CASE Complete(s) \/ RaiseError(s) \/ FailOperation(s) \/ FailureNotRecorded(s)
    <2> DEFINE o == thread[s].op
    <2>0. /\ thread \in [Slots -> Thread] /\ rows \in [Operations -> Row] /\ TypeOK
          /\ thread[s] \in Thread
      BY DEF QueueInv, TypeOK, Thread, Row
    <2>1. thread[s].pc \in {"running", "failing"} /\ Holder(s) /\ o \in Operations
      BY <1>2 DEF Complete, RaiseError, FailOperation, FailureNotRecorded, Holder,
                  QueueInv, ThreadsBound
    <2>2. rows' \in [Operations -> Row]
      <3>1. [state |-> "CLOSED", own |-> FALSE, lease |-> 0] \in Row
        BY ClockAssumption DEF Row
      <3>2. rows' = rows \/ rows' = [rows EXCEPT ![o] =
                        [state |-> "CLOSED", own |-> FALSE, lease |-> 0]]
        BY <1>2 DEF Complete, RaiseError, FailOperation, FailureNotRecorded
      <3> QED
        BY <2>0, <3>1, <3>2
    <2>3. PICK v \in Thread :
            /\ thread' = [thread EXCEPT ![s] = v]
            /\ v.pc \in {"failing", "releasing"} /\ v.op = o
            /\ \/ v.raised = thread[s].raised /\ failures' = failures
               \/ failures < MaxFailures /\ failures' = failures + 1
      <3> DEFINE f == [thread[s] EXCEPT !.pc = "failing"]
                 r == [thread[s] EXCEPT !.pc = "releasing"]
                 u == [thread[s] EXCEPT !.pc = "releasing", !.raised = TRUE]
      <3>1. /\ f \in Thread /\ f.pc = "failing" /\ f.op = o /\ f.raised = thread[s].raised
            /\ r \in Thread /\ r.pc = "releasing" /\ r.op = o /\ r.raised = thread[s].raised
            /\ u \in Thread /\ u.pc = "releasing" /\ u.op = o
        BY <2>0 DEF Thread
      <3>2. \/ thread' = [thread EXCEPT ![s] = f] /\ failures' = failures
            \/ thread' = [thread EXCEPT ![s] = r] /\ failures' = failures
            \/ thread' = [thread EXCEPT ![s] = u] /\ failures < MaxFailures /\ failures' = failures + 1
        BY <1>2 DEF Complete, RaiseError, FailOperation, FailureNotRecorded
      <3> HIDE DEF f, r, u
      <3>3. CASE thread' = [thread EXCEPT ![s] = f] /\ failures' = failures
        BY <3>1, <3>3
      <3>4. CASE thread' = [thread EXCEPT ![s] = r] /\ failures' = failures
        BY <3>1, <3>4
      <3>5. CASE thread' = [thread EXCEPT ![s] = u] /\ failures < MaxFailures /\ failures' = failures + 1
        BY <3>1, <3>5
      <3> QED
        BY <3>2, <3>3, <3>4, <3>5
    <2>5. /\ failures' \in 0 .. MaxFailures /\ (failures' = 0 => failures = 0)
          /\ (failures # 0 => failures' # 0) /\ (v.raised => failures' # 0)
      <3>1. failures \in 0 .. MaxFailures /\ (thread[s].raised => failures # 0)
        BY <2>0 DEF TypeOK, QueueInv, SecondReleaseCounted
      <3> QED
        BY <2>3, <3>1, LimitsAssumption
    <2>6. UNCHANGED <<busy, age, beat, stopping, exits>>
      BY <1>2 DEF Complete, RaiseError, FailOperation, FailureNotRecorded
    <2> QED
      BY <2>1, <2>2, <2>3, <2>5, <2>6, ThreadMoves
  <1> QED
    BY <1>1, <1>2 DEF Execute

\* Time, the heartbeat, the API and a stop do not touch the claim table.
LEMMA ClockKeeps ==
    ASSUME QueueInv, (\E o \in Operations : Enqueue(o)) \/ Heartbeat \/ Tick \/ Stop
    PROVE  QueueInv'
  <1>0. TypeOK /\ rows \in [Operations -> Row]
    BY DEF QueueInv, TypeOK, Row
  <1>1. CASE \E o \in Operations : Enqueue(o)
    <2>1. PICK o \in Operations : Enqueue(o)
      BY <1>1
    <2>2. rows' \in [Operations -> Row]
      BY <1>0, <2>1 DEF Enqueue, Row
    <2>3. TypeOK'
      BY <1>0, <2>1, <2>2 DEF Enqueue, TypeOK, Row
    <2> QED
      BY <2>1, <2>3, QueueQuiet DEF Enqueue
  <1>2. CASE ReadCapped
    <2>1. beat' \in [pc : {"wait", "renew"}, capped : SUBSET Operations]
      BY <1>2 DEF ReadCapped
    <2>2. TypeOK'
      BY <1>0, <1>2, <2>1 DEF ReadCapped, TypeOK
    <2> QED
      BY <1>2, <2>2, QueueQuiet DEF ReadCapped
  <1>3. CASE Renew
    <2>1. \A o \in Operations : [rows[o] EXCEPT !.lease = Lease] \in Row
      BY <1>0, ClockAssumption DEF Row
    <2>2. rows' \in [Operations -> Row] /\ Waiting \in [pc : {"wait", "renew"}, capped : SUBSET Operations]
      BY <1>0, <1>3, <2>1 DEF Renew, Waiting
    <2>3. TypeOK'
      BY <1>0, <1>3, <2>2 DEF Renew, TypeOK, Row
    <2> QED
      BY <1>3, <2>3, QueueQuiet DEF Renew
  <1>4. CASE Tick
    <2>1. \A o \in Operations : [rows[o] EXCEPT !.lease = IF @ = 0 THEN 0 ELSE @ - 1] \in Row
      BY <1>0, ClockAssumption DEF Row
    <2>2. rows' \in [Operations -> Row]
      BY <1>4, <2>1 DEF Tick
    <2>3. \A o \in Operations : /\ age'[o] \in (0 .. Cap) \cup {None}
                                /\ age'[o] = None <=> age[o] = None
      <3> SUFFICES ASSUME NEW o \in Operations
                   PROVE  age'[o] \in (0 .. Cap) \cup {None} /\ (age'[o] = None <=> age[o] = None)
        OBVIOUS
      <3>1. age[o] = None \/ age[o] \in 0 .. Cap
        BY <1>0 DEF TypeOK
      <3>2. age'[o] = IF age[o] = None \/ age[o] = Cap THEN age[o] ELSE age[o] + 1
        BY <1>4 DEF Tick
      <3>3. CASE age[o] = None
        BY <3>2, <3>3
      <3>4. CASE age[o] # None
        <4>1. age'[o] \in 0 .. Cap
          BY <3>1, <3>2, <3>4, ClockAssumption
        <4>2. age'[o] \in Nat
          BY <4>1, ClockAssumption
        <4> QED
          BY <3>4, <4>1, <4>2, NoneAssumption
      <3> QED
        BY <3>3, <3>4
    <2>4. age' \in [Operations -> (0 .. Cap) \cup {None}]
      BY <1>4, <2>3 DEF Tick
    <2>5. TypeOK'
      BY <1>0, <1>4, <2>2, <2>4 DEF Tick, TypeOK, Row
    <2> QED
      BY <1>4, <2>3, <2>5, QueueQuiet DEF Tick
  <1>5. CASE Stop
    <2>1. TypeOK'
      BY <1>0, <1>5, LimitsAssumption DEF Stop, TypeOK
    <2> QED
      BY <1>5, <2>1, QueueQuiet DEF Stop
  <1> QED
    BY <1>1, <1>2, <1>3, <1>4, <1>5 DEF Heartbeat

\* A new process starts with an empty claim table.
LEMMA BootKeeps ==
    ASSUME QueueInv, Crash \/ Restart
    PROVE  QueueInv'
  <1>0. TypeOK /\ rows \in [Operations -> Row] /\ Boot
    BY DEF QueueInv, TypeOK, Row, Crash, Restart
  <1>1. \A o \in Operations : Recovered([rows[o] EXCEPT !.own = FALSE]) \in Row
    <2>1. \A o \in Operations : [rows[o] EXCEPT !.own = FALSE] \in Row
      BY <1>0 DEF Row
    <2> QED
      BY <2>1, RecoveredType
  <1>2. rows' \in [Operations -> Row]
    BY <1>0, <1>1 DEF Boot
  <1>3. exits' \in 0 .. MaxExits /\ failures' = failures
    BY <1>0, LimitsAssumption DEF Crash, Restart, TypeOK
  <1>4. /\ NoThread \in Thread /\ NoThread.pc = "idle" /\ ~NoThread.raised
        /\ Waiting \in [pc : {"wait", "renew"}, capped : SUBSET Operations]
    BY DEF NoThread, Thread, Waiting
  <1>5. TypeOK'
    BY <1>0, <1>2, <1>3, <1>4 DEF Boot, TypeOK, Row, Thread
  <1>6. \A s \in Slots : thread'[s].pc = "idle" /\ ~thread'[s].raised
    BY <1>0, <1>4 DEF Boot
  <1>7. (ThreadsBound /\ OneClaimer /\ SecondReleaseCounted /\ ClaimUncontested)'
    BY <1>6 DEF ThreadsBound, OneClaimer, SecondReleaseCounted, ClaimUncontested, Claiming
  <1>8. HoldersDisjoint' /\ TableExact'
    BY <1>0, <1>6 DEF Boot, HoldersDisjoint, TableExact, Holder
  <1> QED
    BY <1>5, <1>7, <1>8 DEF QueueInv

\* Every step keeps the claim table.
LEMMA QueueStep ==
    ASSUME QueueInv, [Next]_vars
    PROVE  QueueInv'
  <1>1. CASE Next
    BY <1>1, ClaimKeeps, ExecuteKeeps, ClockKeeps, BootKeeps DEF Next
  <1>2. CASE UNCHANGED vars
    <2>1. TypeOK'
      BY <1>2 DEF QueueInv, TypeOK, vars
    <2> QED
      BY <1>2, <2>1, QueueQuiet DEF vars
  <1> QED
    BY <1>1, <1>2

\* _claim_next never meets a document it believed free: the RuntimeError
\* "document work exclusion changed while claiming" cannot be raised, for any
\* number of slots and whatever fails.
THEOREM ClaimsUncontested == Spec => []ClaimUncontested
  <1>1. QueueInv => ClaimUncontested
    BY DEF QueueInv
  <1> QED
    BY <1>1, QueueInit, QueueStep, PTL DEF Spec

\* While every failure is recorded, _busy_documents and _claim_times are exactly
\* the claims of the slots, and no document has two threads.
THEOREM ClaimTableExact == Spec => []ClaimsExact
  <1>1. ASSUME QueueInv PROVE ClaimsExact
    <2> SUFFICES ASSUME failures = 0
                 PROVE  TableExact /\ OneThreadPerDocument
      BY DEF ClaimsExact, TableExact
    <2>1. HoldersDisjoint /\ TableExact
      BY <1>1 DEF QueueInv
    <2> QED
      BY <2>1 DEF HoldersDisjoint, OneThreadPerDocument, InWork, Holder
  <1> QED
    BY <1>1, QueueInit, QueueStep, PTL DEF Spec
=============================================================================
