--------------------------- MODULE LifecycleProofs ---------------------------
(***************************************************************************)
(* Types and mutual exclusion of Lifecycle, for every set of documents,    *)
(* chunks and slots and every bound. TypeOK is not inductive: a step of a  *)
(* slot reads the operation the slot holds, a retry copies a deletion      *)
(* phase and a tombstone copies a disposition, so the invariant proved is  *)
(* TypeInv. One lemma per action follows the groups of Next. On it rests   *)
(* Ownership: no two slots work on one document, no two open operations    *)
(* touch one document, and every document in progress has the operation    *)
(* that will move it on. Last, what each step of a slot writes, for        *)
(* DocumentProofs.                                                         *)
(***************************************************************************)
EXTENDS Lifecycle, SequenceTheorems, TLAPS

-----------------------------------------------------------------------------
(* The invariant that makes the type invariant inductive. *)

\* A slot that is not idle works on an operation that exists.
SlotsBound == \A s \in Slots : slot[s] = Idle \/ slot[s].op \in DOMAIN ops

\* A deletion checkpoint always names a phase.
PhasesRecorded == \A d \in Documents : del[d] = NoProgress \/ del[d].phase \in DeletionPhase

\* A document that is or was being deleted has its disposition.
DispositionsRecorded ==
    /\ \A d \in Documents : doc[d].state \in {"DELETING", "DELETE_FAILED"} =>
        doc[d].disposition \in Disposition
    /\ \A i \in DOMAIN ops : ops[i].type = "DELETE" =>
        doc[ops[i].doc].disposition \in Disposition

TypeInv == TypeOK /\ SlotsBound /\ PhasesRecorded /\ DispositionsRecorded

(* What every step does to the slots and to the operation queue. *)

\* Slot s changes in anything but the operation it holds, or drops it.
SlotStep(s) ==
    \E v \in Slot : slot' = [slot EXCEPT ![s] = v] /\ (v = Idle \/ v.op = slot[s].op)

\* No operation is removed, and none changes what it is about.
HistoryKept ==
    /\ DOMAIN ops \subseteq DOMAIN ops'
    /\ \A i \in DOMAIN ops : /\ ops'[i].type = ops[i].type
                             /\ ops'[i].doc = ops[i].doc
                             /\ ops'[i].target = ops[i].target

RevisionStatus == {"PREPARING", "SEALED", "FAILED"}

-----------------------------------------------------------------------------
(* The queue. *)

\* The operation rows of _claim_next and enqueue_operation are numbered from 1.
LEMMA OpsLength ==
    ASSUME ops \in Seq(Operation)
    PROVE  /\ Len(ops) \in Nat /\ DOMAIN ops = 1 .. Len(ops)
           /\ \A i \in DOMAIN ops : ops[i] \in Operation
  BY LenProperties, ElementOfSeq

\* Rewriting one row of the queue keeps it a queue.
LEMMA RowRewritten ==
    ASSUME ops \in Seq(Operation), NEW k \in DOMAIN ops, NEW row \in Operation
    PROVE  /\ [ops EXCEPT ![k] = row] \in Seq(Operation)
           /\ Len([ops EXCEPT ![k] = row]) = Len(ops)
           /\ DOMAIN [ops EXCEPT ![k] = row] = DOMAIN ops
           /\ \A i \in DOMAIN ops :
                [ops EXCEPT ![k] = row][i] = IF i = k THEN row ELSE ops[i]
  BY OpsLength, ExceptSeq

\* So does adding one at its end.
LEMMA RowAppended ==
    ASSUME NEW q \in Seq(Operation), NEW row \in Operation
    PROVE  /\ Append(q, row) \in Seq(Operation)
           /\ DOMAIN Append(q, row) = DOMAIN q \cup {Len(q) + 1}
           /\ Append(q, row)[Len(q) + 1] = row
           /\ \A i \in DOMAIN q : Append(q, row)[i] = q[i]
           /\ Len(q) \in Nat /\ DOMAIN q = 1 .. Len(q)
  BY LenProperties, AppendProperties

\* A phase write touches the phase of one row.
LEMMA PhaseWritten ==
    ASSUME ops \in Seq(Operation), NEW s \in Slots, slot[s].op \in DOMAIN ops,
           NEW phase \in OperationPhase, SetPhase(s, phase)
    PROVE  /\ ops' \in Seq(Operation) /\ DOMAIN ops' = DOMAIN ops /\ HistoryKept
           /\ \A i \in DOMAIN ops : ops'[i].state = ops[i].state
  <1> DEFINE k == slot[s].op
             row == [ops[k] EXCEPT !.phase = phase]
  <1>1. ops[k] \in Operation
    BY OpsLength
  <1>2. row \in Operation
    BY <1>1 DEF Operation
  <1>3. ops' = [ops EXCEPT ![k] = row]
    BY DEF SetPhase
  <1> QED
    BY <1>1, <1>2, <1>3, RowRewritten DEF HistoryKept, Operation

\* An accepted operation is added to the queue.
LEMMA Enqueued ==
    ASSUME ops \in Seq(Operation), NEW row \in Operation, Enqueue(row)
    PROVE  /\ ops' \in Seq(Operation) /\ HistoryKept
           /\ DOMAIN ops' = DOMAIN ops \cup {Len(ops) + 1}
           /\ ops'[Len(ops) + 1] = row
           /\ \A i \in DOMAIN ops : ops'[i] = ops[i]
  BY RowAppended DEF Enqueue, HistoryKept

\* enqueue_operation writes a well-typed row.
LEMMA QueuedType ==
    ASSUME NEW type \in OperationType, NEW d \in Documents,
           NEW t \in Documents \cup {None}, NEW r \in Nat, NEW p \in OperationPhase
    PROVE  QueuedOperation(type, d, t, r, p) \in Operation
  BY DEF QueuedOperation, Operation

-----------------------------------------------------------------------------
(* The slots. *)

\* What a slot at work refers to.
LEMMA AtWork ==
    ASSUME TypeInv, NEW s \in Slots, slot[s].pc # "idle"
    PROVE  /\ slot[s].op \in DOMAIN ops /\ Op(s) \in Operation
           /\ Doc(s) \in Documents /\ Subject(s) \in Documents
           /\ slot[s] \in Slot
  <1>1. slot[s].op \in DOMAIN ops /\ slot[s] \in Slot
    BY DEF TypeInv, TypeOK, SlotsBound, Idle
  <1>2. Op(s) \in Operation
    BY <1>1, OpsLength DEF TypeInv, TypeOK, Op
  <1> QED
    BY <1>1, <1>2 DEF Doc, Subject, Operation

\* Moving to the next statement keeps the operation of the slot.
LEMMA GotoStep ==
    ASSUME NEW s \in Slots, slot[s] \in Slot, NEW l \in Steps, Goto(s, l)
    PROVE  SlotStep(s)
  <1> DEFINE v == [slot[s] EXCEPT !.pc = l]
  <1>1. v \in Slot /\ v.op = slot[s].op
    BY DEF Slot
  <1>2. slot' = [slot EXCEPT ![s] = v]
    BY DEF Goto
  <1> QED
    BY <1>1, <1>2 DEF SlotStep

\* Raising an exception keeps the operation of the slot.
LEMMA RaiseStep ==
    ASSUME NEW s \in Slots, slot[s] \in Slot, NEW r \in BOOLEAN, Raise(s, r)
    PROVE  SlotStep(s)
  <1> DEFINE v == [slot[s] EXCEPT !.pc = "failing", !.retryable = r]
  <1>1. v \in Slot /\ v.op = slot[s].op
    BY DEF Slot
  <1>2. slot' = [slot EXCEPT ![s] = v]
    BY DEF Raise
  <1> QED
    BY <1>1, <1>2 DEF SlotStep

\* An idle slot is well typed.
LEMMA IdleType == Idle \in Slot
  BY DEF Idle, Slot

\* Releasing the claim makes the slot idle.
LEMMA ReleaseStep ==
    ASSUME NEW s \in Slots, Release(s)
    PROVE  SlotStep(s)
  BY IdleType DEF Release, SlotStep

\* Going on to the next deletion phase keeps the operation of the slot.
LEMMA AdvanceStep ==
    ASSUME NEW s \in Slots, slot[s] \in Slot, NEW p \in Proof, Advance(s, p)
    PROVE  SlotStep(s)
  <1> DEFINE l == NextPhase(slot[s].seen \cup {p})
             v == [slot[s] EXCEPT !.seen = slot[s].seen \cup {p}, !.pc = l]
  <1>1. l \in Steps
    BY DEF NextPhase, Steps, DeletionSteps, PublishSteps
  <1>2. v \in Slot /\ v.op = slot[s].op
    BY <1>1 DEF Slot
  <1>3. slot' = [slot EXCEPT ![s] = v]
    BY DEF Advance
  <1> QED
    BY <1>2, <1>3 DEF SlotStep

\* A slot step keeps the slots typed and bound.
LEMMA SlotStepType ==
    ASSUME TypeInv, NEW s \in Slots, slot[s].op \in DOMAIN ops, SlotStep(s), HistoryKept
    PROVE  slot' \in [Slots -> Slot] /\ SlotsBound'
  <1> PICK v \in Slot : slot' = [slot EXCEPT ![s] = v] /\ (v = Idle \/ v.op = slot[s].op)
    BY DEF SlotStep
  <1>1. slot' \in [Slots -> Slot]
    BY DEF TypeInv, TypeOK
  <1>2. ASSUME NEW t \in Slots PROVE slot'[t] = Idle \/ slot'[t].op \in DOMAIN ops'
    <2>1. slot[t] = Idle \/ slot[t].op \in DOMAIN ops
      BY DEF TypeInv, SlotsBound
    <2>2. slot'[t] = IF t = s THEN v ELSE slot[t]
      BY DEF TypeInv, TypeOK
    <2> QED
      BY <2>1, <2>2 DEF HistoryKept
  <1> QED
    BY <1>1, <1>2 DEF SlotsBound

-----------------------------------------------------------------------------
(* How a worker step ends. *)

Typed == revisions' \in [Documents -> Seq(RevisionStatus)]

\* Rewriting the status of one revision keeps the revisions typed.
LEMMA StatusRewritten ==
    ASSUME revisions \in [Documents -> Seq(RevisionStatus)], NEW d \in Documents, NEW r,
           NEW status \in RevisionStatus,
           revisions' = [revisions EXCEPT ![d][r] = status]
    PROVE  Typed
  <1> DEFINE q == [revisions[d] EXCEPT ![r] = status]
  <1>1. revisions[d] \in Seq(RevisionStatus)
    OBVIOUS
  <1>2. q \in Seq(RevisionStatus)
    <2>1. CASE r \in DOMAIN revisions[d]
      BY <1>1, <2>1, ExceptSeq, LenProperties
    <2>2. CASE r \notin DOMAIN revisions[d]
      <3>1. /\ Len(revisions[d]) \in Nat
            /\ revisions[d] \in [1 .. Len(revisions[d]) -> RevisionStatus]
        BY <1>1, LenProperties
      <3>2. q = revisions[d]
        BY <2>2, <3>1
      <3> QED
        BY <1>1, <3>2
    <2> QED
      BY <2>1, <2>2
  <1>3. revisions' = [revisions EXCEPT ![d] = q]
    OBVIOUS
  <1> QED
    BY <1>2, <1>3 DEF Typed

\* fail_preparation keeps every revision status in its set.
LEMMA AbandonType ==
    ASSUME TypeInv, NEW s \in Slots, slot[s].pc # "idle", AbandonRevision(s)
    PROVE  Typed
  <1>1. revisions \in [Documents -> Seq(RevisionStatus)] /\ Doc(s) \in Documents
    BY AtWork DEF TypeInv, TypeOK, RevisionStatus
  <1>2. \/ revisions' = revisions
        \/ revisions' = [revisions EXCEPT ![Doc(s)][slot[s].rev] = "FAILED"]
    BY DEF AbandonRevision
  <1>3. "FAILED" \in RevisionStatus
    BY DEF RevisionStatus
  <1> QED
    BY <1>1, <1>2, <1>3, StatusRewritten DEF Typed

\* A step that ends normally keeps slot and revisions well typed.
LEMMA ProceedStep ==
    ASSUME TypeInv, NEW s \in Slots, slot[s].pc # "idle", NEW l \in Steps, Proceed(s, l)
    PROVE  SlotStep(s) /\ Typed
  BY AtWork, GotoStep DEF Proceed, Typed, TypeInv, TypeOK, RevisionStatus

\* A step that ends with an exception keeps them well typed too.
LEMMA AbortStep ==
    ASSUME TypeInv, NEW s \in Slots, slot[s].pc # "idle", NEW r \in BOOLEAN, Abort(s, r)
    PROVE  SlotStep(s) /\ Typed
  BY AtWork, RaiseStep, AbandonType DEF Abort

\* So does a verification, whichever way it ends.
LEMMA CheckStep ==
    ASSUME TypeInv, NEW s \in Slots, slot[s].pc # "idle", NEW l \in Steps,
           NEW ok \in BOOLEAN, Check(s, ok, l)
    PROVE  SlotStep(s) /\ Typed
  BY ProceedStep, AbortStep DEF Check

\* So does a Qdrant mutation, which also may count an error.
LEMMA AttemptStep ==
    ASSUME TypeInv, NEW s \in Slots, slot[s].pc # "idle", NEW l \in Steps,
           NEW part, NEW whole, Attempt(s, part, whole, l)
    PROVE  SlotStep(s) /\ Typed /\ faults' \in Nat
  <1>1. faults' \in Nat
    <2>1. faults \in Nat
      BY DEF TypeInv, TypeOK
    <2>2. faults' = faults \/ faults' = faults + 1
      BY DEF Attempt
    <2> QED
      BY <2>1, <2>2
  <1>2. SlotStep(s) /\ Typed
    BY ProceedStep, AbortStep DEF Attempt
  <1> QED
    BY <1>1, <1>2

\* Deletion phases and proofs.
LEMMA DeletionPhaseWritten ==
    ASSUME TypeInv, NEW s \in Slots, slot[s].pc # "idle", NEW phase \in DeletionPhase,
           SetDeletionPhase(s, phase)
    PROVE  /\ ops' \in Seq(Operation) /\ DOMAIN ops' = DOMAIN ops /\ HistoryKept
           /\ \A i \in DOMAIN ops : ops'[i].state = ops[i].state
           /\ del' \in [Documents -> Progress] /\ PhasesRecorded'
  <1>1. slot[s].op \in DOMAIN ops /\ Subject(s) \in Documents
    BY AtWork
  <1>2. phase \in OperationPhase
    BY DEF OperationPhase
  <1>3. /\ ops' \in Seq(Operation) /\ DOMAIN ops' = DOMAIN ops /\ HistoryKept
        /\ \A i \in DOMAIN ops : ops'[i].state = ops[i].state
    BY <1>1, <1>2, PhaseWritten DEF SetDeletionPhase, TypeInv, TypeOK
  <1>4. del' = [del EXCEPT ![Subject(s)].phase = phase]
    BY DEF SetDeletionPhase
  <1>5. del' \in [Documents -> Progress]
    BY <1>1, <1>4 DEF TypeInv, TypeOK, Progress
  <1>6. PhasesRecorded'
    BY <1>1, <1>4 DEF TypeInv, TypeOK, Progress, PhasesRecorded
  <1> QED
    BY <1>3, <1>5, <1>6

\* _record_zero_verification and the purge commit keep the queue and the checkpoint well typed.
LEMMA ProofRecorded ==
    ASSUME TypeInv, NEW s \in Slots, slot[s].pc # "idle", NEW p \in Proof,
           NEW phase \in DeletionPhase, RecordProof(s, p, phase)
    PROVE  /\ ops' \in Seq(Operation) /\ DOMAIN ops' = DOMAIN ops /\ HistoryKept
           /\ \A i \in DOMAIN ops : ops'[i].state = ops[i].state
           /\ del' \in [Documents -> Progress] /\ PhasesRecorded'
           /\ SlotStep(s)
  <1>1. slot[s].op \in DOMAIN ops /\ Subject(s) \in Documents /\ slot[s] \in Slot
    BY AtWork
  <1>2. phase \in OperationPhase
    BY DEF OperationPhase
  <1>3. /\ ops' \in Seq(Operation) /\ DOMAIN ops' = DOMAIN ops /\ HistoryKept
        /\ \A i \in DOMAIN ops : ops'[i].state = ops[i].state
    BY <1>1, <1>2, PhaseWritten DEF RecordProof, TypeInv, TypeOK
  <1> DEFINE row == [phase |-> phase, proofs |-> del[Subject(s)].proofs \cup {p}]
  <1>4. del' = [del EXCEPT ![Subject(s)] = row]
    BY DEF RecordProof
  <1>5. row \in Progress
    BY <1>1 DEF TypeInv, TypeOK, Progress
  <1>6. del' \in [Documents -> Progress]
    BY <1>4, <1>5 DEF TypeInv, TypeOK
  <1>7. PhasesRecorded'
    BY <1>1, <1>4 DEF TypeInv, TypeOK, PhasesRecorded
  <1>8. SlotStep(s)
    BY <1>1, AdvanceStep DEF RecordProof
  <1> QED
    BY <1>3, <1>6, <1>7, <1>8
-----------------------------------------------------------------------------
(* Steps that change no document row and close no operation. *)

QueueKept == ops' \in Seq(Operation) /\ DOMAIN ops' = DOMAIN ops /\ HistoryKept

QueueQuiet ==
    /\ ops' \in Seq(Operation) /\ DOMAIN ops' = DOMAIN ops /\ HistoryKept
    /\ \A i \in DOMAIN ops : ops'[i].state = ops[i].state

ProgressKept == del' \in [Documents -> Progress] /\ PhasesRecorded'

DataKept ==
    /\ vectors' \in [Documents -> SUBSET Nat]
    /\ content' \in [Documents -> BOOLEAN]
    /\ pub' \in [Documents -> Publication]
    /\ active' \in [Documents -> SUBSET ActivePoint]
    /\ screening' \in [Documents -> SUBSET ScreeningPoint]
    /\ files' \in [Documents -> SUBSET {"source", "artifact"}]
    /\ requests' \in Nat /\ faults' \in Nat /\ interruptions' \in Nat

\* A step that leaves the queue alone keeps it quiet.
LEMMA QueueUnchanged ==
    ASSUME TypeInv, UNCHANGED ops
    PROVE  QueueKept /\ QueueQuiet
  BY DEF TypeInv, TypeOK, QueueKept, QueueQuiet, HistoryKept

\* _set_phase changes no operation in anything but its phase.
LEMMA QueuePhase ==
    ASSUME TypeInv, NEW s \in Slots, slot[s].pc # "idle", NEW phase \in OperationPhase,
           SetPhase(s, phase)
    PROVE  QueueKept /\ QueueQuiet
  BY AtWork, PhaseWritten DEF TypeInv, TypeOK, QueueKept, QueueQuiet

\* A step that leaves the checkpoints alone keeps them well typed.
LEMMA ProgressUnchanged ==
    ASSUME TypeInv, UNCHANGED del
    PROVE  ProgressKept
  BY DEF TypeInv, TypeOK, ProgressKept, PhasesRecorded

\* A step of slot s that keeps the types and, apart from phases and revision
\* bindings, every operation and document row.
Quiet(s) == TypeInv' /\ SlotStep(s) /\ QueueQuiet /\ doc' = doc

\* A quiet step preserves the type invariant.
LEMMA QuietStep ==
    ASSUME TypeInv, NEW s \in Slots, slot[s].pc # "idle", SlotStep(s), Typed,
           QueueQuiet, ProgressKept, DataKept, doc' = doc
    PROVE  Quiet(s)
  <1>1. slot' \in [Slots -> Slot] /\ SlotsBound'
    BY AtWork, SlotStepType DEF QueueQuiet
  <1>2. TypeOK'
    BY <1>1 DEF TypeInv, TypeOK, Typed, RevisionStatus, QueueQuiet, ProgressKept, DataKept
  <1>3. DispositionsRecorded'
    BY DEF TypeInv, DispositionsRecorded, QueueQuiet, HistoryKept
  <1> QED
    BY <1>1, <1>2, <1>3 DEF Quiet, TypeInv, ProgressKept

(* One lemma per group of quiet actions, one step per action. *)

\* Every step of _run_preflight but the completing ones is quiet.
LEMMA PreflightQuiet ==
    ASSUME TypeInv, NEW s \in Slots,
           \/ PreflightSource(s) \/ BeginPreparation(s) \/ PrepareContent(s)
           \/ RejectSource(s) \/ BindRevision(s) \/ PersistRevisionArtifact(s)
           \/ ClearScreening(s) \/ UpsertScreening(s) \/ VerifyScreening(s)
           \/ DiscoverCandidates(s) \/ ClassifyCandidates(s) \/ SealRevision(s)
           \/ FailPreparation(s)
    PROVE  Quiet(s)
  <1>0. /\ slot[s].pc # "idle" /\ doc' = doc /\ UNCHANGED del
    BY DEF PreflightSource, BeginPreparation, PrepareContent, RejectSource, BindRevision,
           PersistRevisionArtifact, ClearScreening, UpsertScreening, VerifyScreening,
           DiscoverCandidates, ClassifyCandidates, SealRevision, FailPreparation, At
  <1>w. /\ slot[s].op \in DOMAIN ops /\ Op(s) \in Operation /\ Doc(s) \in Documents
        /\ slot[s] \in Slot /\ slot[s].rev \in Nat
    BY <1>0, AtWork DEF Slot
  <1>d. ProgressKept
    BY <1>0, ProgressUnchanged
  <1>t. TypeOK /\ revisions \in [Documents -> Seq(RevisionStatus)]
    BY DEF TypeInv, TypeOK, RevisionStatus
  <1>p. {"begin", "prepare", "bind", "reject", "write_artifact", "clear_screening",
         "upsert_screening", "verify_screening", "discover", "classify", "seal",
         "finish_preflight"} \subseteq Steps
    BY DEF Steps, PreflightSteps
  <1>h. PreflightPhase \subseteq OperationPhase
    BY DEF OperationPhase
  <1>1. CASE PreflightSource(s)
    <2>1. SlotStep(s)
      BY <1>1, <1>w, <1>p, GotoStep, RaiseStep DEF PreflightSource
    <2>2. QueueQuiet
      BY <1>1, <1>0, <1>h, QueuePhase, QueueUnchanged DEF PreflightSource, PreflightPhase
    <2>3. Typed /\ DataKept
      BY <1>1, <1>t DEF PreflightSource, Typed, DataKept, TypeOK, prepVars, index, bounds
    <2> QED
      BY <1>0, <1>d, <2>1, <2>2, <2>3, QuietStep
  <1>2. CASE BeginPreparation(s)
    <2> DEFINE d == Doc(s)
               v == [slot[s] EXCEPT !.pc = "prepare", !.rev = Len(revisions[d]) + 1]
    <2>0. revisions[d] \in Seq(RevisionStatus) /\ Len(revisions[d]) + 1 \in Nat
      BY <1>t, <1>w, LenProperties
    <2>1. SlotStep(s)
      <3>1. v \in Slot /\ v.op = slot[s].op
        BY <2>0, <1>w, <1>p DEF Slot
      <3>2. Raise(s, TRUE) \/ slot' = [slot EXCEPT ![s] = v]
        BY <1>2 DEF BeginPreparation
      <3> QED
        BY <3>1, <3>2, <1>w, RaiseStep DEF SlotStep
    <2>2. QueueQuiet
      BY <1>2, QueueUnchanged DEF BeginPreparation
    <2>3. DataKept
      BY <1>2, <1>t DEF BeginPreparation, DataKept, TypeOK, index, bounds
    <2>4. Typed
      <3>1. Append(revisions[d], "PREPARING") \in Seq(RevisionStatus)
        BY <2>0, AppendProperties DEF RevisionStatus
      <3>2. \/ revisions' = revisions
            \/ revisions' = [revisions EXCEPT ![d] = Append(revisions[d], "PREPARING")]
        BY <1>2 DEF BeginPreparation
      <3> QED
        BY <3>1, <3>2, <1>t, <1>w DEF Typed
    <2> QED
      BY <1>0, <1>d, <2>1, <2>2, <2>3, <2>4, QuietStep
  <1>3. CASE PrepareContent(s)
    <2>1. SlotStep(s)
      BY <1>3, <1>w, <1>p, GotoStep DEF PrepareContent
    <2>2. QueueQuiet
      BY <1>3, QueueUnchanged DEF PrepareContent
    <2>3. Typed /\ DataKept
      BY <1>3, <1>t, <1>w DEF PrepareContent, Typed, DataKept, TypeOK, prepVars, index, bounds
    <2> QED
      BY <1>0, <1>d, <2>1, <2>2, <2>3, QuietStep
  <1>4. CASE RejectSource(s)
    <2>1. SlotStep(s)
      BY <1>4, <1>w, <1>p, GotoStep DEF RejectSource
    <2>2. QueueQuiet
      BY <1>4, QueueUnchanged DEF RejectSource
    <2>3. DataKept
      BY <1>4, <1>t DEF RejectSource, DataKept, TypeOK, index, bounds
    <2>4. Typed
      BY <1>4, <1>t, <1>w, StatusRewritten DEF RejectSource, RevisionStatus
    <2> QED
      BY <1>0, <1>d, <2>1, <2>2, <2>3, <2>4, QuietStep
  <1>5. CASE BindRevision(s)
    <2>1. SlotStep(s)
      BY <1>5, <1>w, <1>p, GotoStep DEF BindRevision
    <2>2. QueueQuiet
      <3> DEFINE row == [ops[slot[s].op] EXCEPT !.rev = slot[s].rev]
      <3>1. ops[slot[s].op] \in Operation
        BY <1>w DEF Op
      <3>2. row \in Operation
        BY <3>1, <1>w DEF Operation
      <3>3. ops' = [ops EXCEPT ![slot[s].op] = row]
        BY <1>5 DEF BindRevision
      <3> QED
        BY <3>1, <3>2, <3>3, <1>t, <1>w, RowRewritten
        DEF QueueQuiet, HistoryKept, Operation, TypeOK
    <2>3. Typed /\ DataKept
      BY <1>5, <1>t DEF BindRevision, Typed, DataKept, TypeOK, prepVars, index, bounds
    <2> QED
      BY <1>0, <1>d, <2>1, <2>2, <2>3, QuietStep
  <1>6. CASE PersistRevisionArtifact(s)
    <2>1. SlotStep(s)
      BY <1>6, <1>w, <1>p, GotoStep DEF PersistRevisionArtifact
    <2>2. QueueQuiet
      BY <1>6, QueueUnchanged DEF PersistRevisionArtifact
    <2>3. Typed /\ DataKept
      BY <1>6, <1>t, <1>w DEF PersistRevisionArtifact, Typed, DataKept, TypeOK, prepVars, index, bounds
    <2> QED
      BY <1>0, <1>d, <2>1, <2>2, <2>3, QuietStep
  <1>7. CASE ClearScreening(s)
    <2>0. PICK left \in SUBSET screening[Doc(s)] :
            /\ screening' = [screening EXCEPT ![Doc(s)] = left]
            /\ Attempt(s, left, {}, "upsert_screening")
      BY <1>7 DEF ClearScreening
    <2>1. SlotStep(s) /\ Typed /\ faults' \in Nat
      BY <2>0, <1>0, <1>p, AttemptStep
    <2>2. QueueQuiet
      BY <1>7, <1>0, <1>h, QueuePhase DEF ClearScreening, PreflightPhase
    <2>3. screening' \in [Documents -> SUBSET ScreeningPoint]
      BY <2>0, <1>t, <1>w DEF TypeOK
    <2>4. DataKept
      BY <1>7, <1>t, <2>1, <2>3 DEF ClearScreening, DataKept, TypeOK
    <2> QED
      BY <1>0, <1>d, <2>1, <2>2, <2>4, QuietStep
  <1>8. CASE UpsertScreening(s)
    <2>0. ScreeningPoints(slot[s].rev) \subseteq ScreeningPoint
      BY <1>w DEF ScreeningPoints, ScreeningPoint
    <2>1. /\ SlotStep(s) /\ Typed /\ faults' \in Nat
          /\ screening' \in [Documents -> SUBSET ScreeningPoint]
      <3>1. CASE screening[Doc(s)] # {}
        <4>1. Abort(s, TRUE) /\ UNCHANGED <<screening, faults>>
          BY <1>8, <3>1 DEF UpsertScreening
        <4> QED
          BY <4>1, <1>0, <1>t, AbortStep DEF TypeOK
      <3>2. CASE screening[Doc(s)] = {}
        <4>1. PICK part \in SUBSET ScreeningPoints(slot[s].rev) :
                /\ screening' = [screening EXCEPT ![Doc(s)] = part]
                /\ Attempt(s, part, ScreeningPoints(slot[s].rev), "verify_screening")
          BY <1>8, <3>2 DEF UpsertScreening
        <4>2. SlotStep(s) /\ Typed /\ faults' \in Nat
          BY <4>1, <1>0, <1>p, AttemptStep
        <4>3. part \subseteq ScreeningPoint
          BY <4>1, <2>0
        <4> QED
          BY <4>1, <4>2, <4>3, <1>t DEF TypeOK
      <3> QED
        BY <3>1, <3>2
    <2>2. QueueQuiet
      BY <1>8, QueueUnchanged DEF UpsertScreening
    <2>3. DataKept
      BY <1>8, <1>t, <2>1 DEF UpsertScreening, DataKept, TypeOK
    <2> QED
      BY <1>0, <1>d, <2>1, <2>2, <2>3, QuietStep
  <1>9. CASE VerifyScreening(s)
    <2>1. SlotStep(s) /\ Typed
      BY <1>9, <1>0, <1>p, CheckStep DEF VerifyScreening
    <2>2. QueueQuiet
      BY <1>9, QueueUnchanged DEF VerifyScreening
    <2>3. DataKept
      BY <1>9, <1>t DEF VerifyScreening, DataKept, TypeOK, index, bounds
    <2> QED
      BY <1>0, <1>d, <2>1, <2>2, <2>3, QuietStep
  <1>10. CASE DiscoverCandidates(s)
    <2>1. SlotStep(s) /\ Typed
      <3>1. CASE Abort(s, TRUE)
        BY <3>1, <1>0, AbortStep
      <3>2. CASE ~Abort(s, TRUE)
        <4>1. UNCHANGED revisions /\ \E m \in SUBSET Documents :
                slot' = [slot EXCEPT ![s].pc = "classify", ![s].matches = m]
          BY <1>10, <3>2 DEF DiscoverCandidates
        <4>2. PICK m \in SUBSET Documents :
                slot' = [slot EXCEPT ![s].pc = "classify", ![s].matches = m]
          BY <4>1
        <4> DEFINE v == [slot[s] EXCEPT !.pc = "classify", !.matches = m]
        <4>3. v \in Slot /\ v.op = slot[s].op
          BY <1>w, <1>p DEF Slot
        <4>4. slot' = [slot EXCEPT ![s] = v]
          BY <4>2
        <4> QED
          BY <4>1, <4>3, <4>4, <1>t DEF SlotStep, Typed
      <3> QED
        BY <3>1, <3>2
    <2>2. QueueQuiet
      BY <1>10, <1>0, <1>h, QueuePhase DEF DiscoverCandidates, PreflightPhase
    <2>3. DataKept
      BY <1>10, <1>t DEF DiscoverCandidates, DataKept, TypeOK, index, bounds
    <2> QED
      BY <1>0, <1>d, <2>1, <2>2, <2>3, QuietStep
  <1>11. CASE ClassifyCandidates(s)
    <2>1. SlotStep(s) /\ Typed
      BY <1>11, <1>0, <1>p, ProceedStep, AbortStep DEF ClassifyCandidates
    <2>2. QueueQuiet
      BY <1>11, <1>0, <1>h, QueuePhase DEF ClassifyCandidates, PreflightPhase
    <2>3. DataKept
      BY <1>11, <1>t DEF ClassifyCandidates, DataKept, TypeOK, index, bounds
    <2> QED
      BY <1>0, <1>d, <2>1, <2>2, <2>3, QuietStep
  <1>12. CASE SealRevision(s)
    <2>1. \/ Abort(s, TRUE)
          \/ /\ revisions' = [revisions EXCEPT ![Doc(s)][slot[s].rev] = "SEALED"]
             /\ Goto(s, "finish_preflight")
      BY <1>12 DEF SealRevision
    <2>2. "SEALED" \in RevisionStatus
      BY DEF RevisionStatus
    <2>3. SlotStep(s) /\ Typed
      BY <2>1, <2>2, <1>0, <1>p, <1>t, <1>w, AbortStep, GotoStep, StatusRewritten
    <2>4. QueueQuiet
      BY <1>12, <1>0, <1>h, QueuePhase DEF SealRevision, PreflightPhase
    <2>5. DataKept
      BY <1>12, <1>t DEF SealRevision, DataKept, TypeOK, index, bounds
    <2> QED
      BY <1>0, <1>d, <2>3, <2>4, <2>5, QuietStep
  <1>13. CASE FailPreparation(s)
    <2>1. SlotStep(s)
      BY <1>13, <1>w, RaiseStep DEF FailPreparation
    <2>2. QueueQuiet
      BY <1>13, QueueUnchanged DEF FailPreparation
    <2>3. Typed
      BY <1>13, <1>t, <1>w, StatusRewritten DEF FailPreparation, RevisionStatus
    <2>4. DataKept
      <3>1. content' \in [Documents -> BOOLEAN]
        BY <1>13, <1>t, <1>w DEF FailPreparation, TypeOK
      <3>2. files' \in [Documents -> SUBSET {"source", "artifact"}]
        <4>1. \/ files' = files
              \/ \E kept \in SUBSET {"artifact"} :
                    files' = [files EXCEPT ![Doc(s)] = @ \cup kept]
          BY <1>13 DEF FailPreparation
        <4> QED
          BY <4>1, <1>t, <1>w DEF TypeOK
      <3>3. faults' \in Nat
        BY <1>13, <1>t DEF FailPreparation, TypeOK
      <3> QED
        BY <1>13, <1>t, <3>1, <3>2, <3>3 DEF FailPreparation, DataKept, TypeOK, index
    <2> QED
      BY <1>0, <1>d, <2>1, <2>2, <2>3, <2>4, QuietStep
  <1> QED
    BY <1>1, <1>2, <1>3, <1>4, <1>5, <1>6, <1>7, <1>8, <1>9, <1>10, <1>11, <1>12, <1>13

\* Every step of _run_publish but _finish_publication is quiet.
LEMMA PublishQuiet ==
    ASSUME TypeInv, NEW s \in Slots,
           \/ OperationSnapshot(s) \/ CheckPublication(s) \/ StageActivePoints(s)
           \/ VerifyStagedPoints(s) \/ ActivatePoints(s) \/ VerifyActivePoints(s)
           \/ RecordUpserted(s) \/ RemoveScreening(s) \/ VerifyScreeningRemoval(s)
    PROVE  Quiet(s)
  <1>0. /\ slot[s].pc # "idle" /\ doc' = doc /\ UNCHANGED del
    BY DEF OperationSnapshot, CheckPublication, StageActivePoints, VerifyStagedPoints,
           ActivatePoints, VerifyActivePoints, RecordUpserted, RemoveScreening,
           VerifyScreeningRemoval, At
  <1>w. /\ slot[s].op \in DOMAIN ops /\ Op(s) \in Operation /\ Doc(s) \in Documents
        /\ slot[s] \in Slot /\ Op(s).rev \in Nat
    BY <1>0, AtWork DEF Operation
  <1>d. ProgressKept
    BY <1>0, ProgressUnchanged
  <1>t. TypeOK /\ revisions \in [Documents -> Seq(RevisionStatus)]
    BY DEF TypeInv, TypeOK, RevisionStatus
  <1>p. {"deletion_checkpoint", "check_publication", "stage", "verify_staged", "activate",
         "verify_active", "record_upserted", "remove_screening", "verify_removal",
         "finish_publication"} \subseteq Steps
    BY DEF Steps, PublishSteps, DeletionSteps
  <1>h. PublishPhase \subseteq OperationPhase
    BY DEF OperationPhase
  <1>1. CASE OperationSnapshot(s)
    <2>1. SlotStep(s)
      BY <1>1, <1>w, <1>p, GotoStep DEF OperationSnapshot
    <2>2. QueueQuiet
      BY <1>1, QueueUnchanged DEF OperationSnapshot
    <2>3. Typed /\ DataKept
      BY <1>1, <1>t DEF OperationSnapshot, Typed, DataKept, TypeOK, prepVars, index, bounds
    <2> QED
      BY <1>0, <1>d, <2>1, <2>2, <2>3, QuietStep
  <1>2. CASE CheckPublication(s)
    <2>1. SlotStep(s)
      BY <1>2, <1>w, <1>p, GotoStep, RaiseStep DEF CheckPublication
    <2>2. QueueQuiet
      BY <1>2, QueueUnchanged DEF CheckPublication
    <2>3. Typed /\ DataKept
      BY <1>2, <1>t DEF CheckPublication, Typed, DataKept, TypeOK, prepVars, index, bounds
    <2> QED
      BY <1>0, <1>d, <2>1, <2>2, <2>3, QuietStep
  <1>3. CASE StageActivePoints(s)
    <2>0. PICK part \in SUBSET Chunks :
            /\ active' = [active EXCEPT ![Doc(s)] =
                    (@ \ ActivePoints(Op(s).rev, part, TRUE))
                        \cup ActivePoints(Op(s).rev, part, FALSE)]
            /\ Attempt(s, part, Chunks, "verify_staged")
      BY <1>3 DEF StageActivePoints
    <2>1. SlotStep(s) /\ Typed /\ faults' \in Nat
      BY <2>0, <1>0, <1>p, AttemptStep
    <2>2. QueueQuiet
      BY <1>3, <1>0, <1>h, QueuePhase DEF StageActivePoints, PublishPhase
    <2>3. ActivePoints(Op(s).rev, part, FALSE) \subseteq ActivePoint
      BY <1>w DEF ActivePoints, ActivePoint
    <2>4. active' \in [Documents -> SUBSET ActivePoint]
      BY <2>0, <2>3, <1>t, <1>w DEF TypeOK
    <2>5. DataKept
      BY <1>3, <1>t, <2>1, <2>4 DEF StageActivePoints, DataKept, TypeOK
    <2> QED
      BY <1>0, <1>d, <2>1, <2>2, <2>5, QuietStep
  <1>4. CASE VerifyStagedPoints(s)
    <2>1. SlotStep(s) /\ Typed
      BY <1>4, <1>0, <1>p, CheckStep DEF VerifyStagedPoints
    <2>2. QueueQuiet
      BY <1>4, <1>0, <1>h, QueuePhase DEF VerifyStagedPoints, PublishPhase
    <2>3. DataKept
      BY <1>4, <1>t DEF VerifyStagedPoints, DataKept, TypeOK, index, bounds
    <2> QED
      BY <1>0, <1>d, <2>1, <2>2, <2>3, QuietStep
  <1>5. CASE ActivatePoints(s)
    <2> DEFINE hidden == {p \in active[Doc(s)] : p.rev = Op(s).rev /\ ~p.published}
    <2>0. PICK part \in SUBSET hidden :
            /\ active' = [active EXCEPT ![Doc(s)] =
                    (@ \ part) \cup {[p EXCEPT !.published = TRUE] : p \in part}]
            /\ Attempt(s, part, hidden, "verify_active")
      BY <1>5 DEF ActivatePoints
    <2>1. SlotStep(s) /\ Typed /\ faults' \in Nat
      BY <2>0, <1>0, <1>p, AttemptStep
    <2>2. QueueQuiet
      BY <1>5, QueueUnchanged DEF ActivatePoints
    <2>3. {[p EXCEPT !.published = TRUE] : p \in part} \subseteq ActivePoint
      <3>1. \A p \in ActivePoint : [p EXCEPT !.published = TRUE] \in ActivePoint
        BY DEF ActivePoint
      <3>2. \A p \in part : p \in ActivePoint
        BY <2>0, <1>t, <1>w DEF TypeOK
      <3> QED
        BY <3>1, <3>2
    <2>4. active' \in [Documents -> SUBSET ActivePoint]
      BY <2>0, <2>3, <1>t, <1>w DEF TypeOK
    <2>5. DataKept
      BY <1>5, <1>t, <2>1, <2>4 DEF ActivatePoints, DataKept, TypeOK
    <2> QED
      BY <1>0, <1>d, <2>1, <2>2, <2>5, QuietStep
  <1>6. CASE VerifyActivePoints(s)
    <2>1. SlotStep(s) /\ Typed
      BY <1>6, <1>0, <1>p, CheckStep DEF VerifyActivePoints
    <2>2. QueueQuiet
      BY <1>6, QueueUnchanged DEF VerifyActivePoints
    <2>3. DataKept
      BY <1>6, <1>t DEF VerifyActivePoints, DataKept, TypeOK, index, bounds
    <2> QED
      BY <1>0, <1>d, <2>1, <2>2, <2>3, QuietStep
  <1>7. CASE RecordUpserted(s)
    <2>1. SlotStep(s)
      BY <1>7, <1>w, <1>p, GotoStep DEF RecordUpserted
    <2>2. QueueQuiet
      BY <1>7, QueueUnchanged DEF RecordUpserted
    <2>3. pub' \in [Documents -> Publication]
      BY <1>7, <1>t, <1>w DEF RecordUpserted, TypeOK, Publication
    <2>4. Typed /\ DataKept
      BY <1>7, <1>t, <2>3 DEF RecordUpserted, Typed, DataKept, TypeOK, prepVars, index, bounds
    <2> QED
      BY <1>0, <1>d, <2>1, <2>2, <2>4, QuietStep
  <1>8. CASE RemoveScreening(s)
    <2>0. PICK left \in SUBSET screening[Doc(s)] :
            /\ screening' = [screening EXCEPT ![Doc(s)] = left]
            /\ Attempt(s, left, {}, "verify_removal")
      BY <1>8 DEF RemoveScreening
    <2>1. SlotStep(s) /\ Typed /\ faults' \in Nat
      BY <2>0, <1>0, <1>p, AttemptStep
    <2>2. QueueQuiet
      BY <1>8, <1>0, <1>h, QueuePhase DEF RemoveScreening, PublishPhase
    <2>3. screening' \in [Documents -> SUBSET ScreeningPoint]
      BY <2>0, <1>t, <1>w DEF TypeOK
    <2>4. DataKept
      BY <1>8, <1>t, <2>1, <2>3 DEF RemoveScreening, DataKept, TypeOK
    <2> QED
      BY <1>0, <1>d, <2>1, <2>2, <2>4, QuietStep
  <1>9. CASE VerifyScreeningRemoval(s)
    <2>1. SlotStep(s) /\ Typed
      BY <1>9, <1>0, <1>p, CheckStep DEF VerifyScreeningRemoval
    <2>2. QueueQuiet
      BY <1>9, <1>0, <1>h, QueuePhase DEF VerifyScreeningRemoval, PublishPhase
    <2>3. DataKept
      BY <1>9, <1>t DEF VerifyScreeningRemoval, DataKept, TypeOK, index, bounds
    <2> QED
      BY <1>0, <1>d, <2>1, <2>2, <2>3, QuietStep
  <1> QED
    BY <1>1, <1>2, <1>3, <1>4, <1>5, <1>6, <1>7, <1>8, <1>9

\* Every step of _run_deletion_phases up to the purge commit is quiet.
LEMMA DeletionQuiet ==
    ASSUME TypeInv, NEW s \in Slots,
           \/ DeletionCheckpoint(s) \/ DeleteActivePoints(s) \/ VerifyActiveZero(s)
           \/ RecordActiveZero(s) \/ DeleteScreeningPoints(s) \/ VerifyScreeningZero(s)
           \/ RecordScreeningZero(s) \/ PurgePhase(s) \/ PurgeSource(s)
           \/ PurgeArtifacts(s)
    PROVE  Quiet(s)
  <1>0. slot[s].pc # "idle" /\ doc' = doc
    BY DEF DeletionCheckpoint, DeleteActivePoints, VerifyActiveZero, RecordActiveZero,
           DeleteScreeningPoints, VerifyScreeningZero, RecordScreeningZero, PurgePhase,
           PurgeSource, PurgeArtifacts, At
  <1>w. /\ slot[s].op \in DOMAIN ops /\ Subject(s) \in Documents /\ slot[s] \in Slot
    BY <1>0, AtWork
  <1>t. TypeOK /\ revisions \in [Documents -> Seq(RevisionStatus)]
    BY DEF TypeInv, TypeOK, RevisionStatus
  <1>p. {"verify_active_zero", "record_active_zero", "verify_screening_zero",
         "record_screening_zero", "purge_source", "purge_artifacts", "purge_commit"}
            \subseteq Steps
    BY DEF Steps, DeletionSteps
  <1>h. /\ "DELETE_ACTIVE_POINTS" \in DeletionPhase /\ "VERIFY_ACTIVE_ZERO" \in DeletionPhase
        /\ "DELETE_SCREENING_POINTS" \in DeletionPhase
        /\ "VERIFY_SCREENING_ZERO" \in DeletionPhase /\ "PURGE_STORAGE" \in DeletionPhase
        /\ "active_zero" \in Proof /\ "screening_zero" \in Proof
    BY DEF DeletionPhase, Proof
  <1>1. CASE DeletionCheckpoint(s)
    <2> DEFINE e == Subject(s)
               v == [slot[s] EXCEPT !.seen = del[e].proofs,
                                    !.purging = (del[e].phase = "PURGE_STORAGE"),
                                    !.pc = NextPhase(del[e].proofs)]
    <2>1. SlotStep(s)
      <3>1. NextPhase(del[e].proofs) \in Steps
        BY DEF NextPhase, Steps, DeletionSteps, PublishSteps
      <3>2. del[e].proofs \in SUBSET Proof
        BY <1>t, <1>w DEF TypeOK, Progress
      <3>3. v \in Slot /\ v.op = slot[s].op
        BY <3>1, <3>2, <1>w DEF Slot
      <3>4. Raise(s, FALSE) \/ slot' = [slot EXCEPT ![s] = v]
        BY <1>1 DEF DeletionCheckpoint
      <3> QED
        BY <3>3, <3>4, <1>w, RaiseStep DEF SlotStep
    <2>2. QueueQuiet /\ ProgressKept
      BY <1>1, QueueUnchanged, ProgressUnchanged DEF DeletionCheckpoint
    <2>3. Typed /\ DataKept
      BY <1>1, <1>t DEF DeletionCheckpoint, Typed, DataKept, TypeOK, prepVars, index, bounds
    <2> QED
      BY <1>0, <2>1, <2>2, <2>3, QuietStep
  <1>2. CASE DeleteActivePoints(s)
    <2>0. PICK left \in SUBSET active[Subject(s)] :
            /\ active' = [active EXCEPT ![Subject(s)] = left]
            /\ Attempt(s, left, {}, "verify_active_zero")
      BY <1>2 DEF DeleteActivePoints
    <2>1. SlotStep(s) /\ Typed /\ faults' \in Nat
      BY <2>0, <1>0, <1>p, AttemptStep
    <2>2. QueueQuiet /\ ProgressKept
      BY <1>2, <1>0, <1>h, DeletionPhaseWritten DEF DeleteActivePoints, QueueQuiet, ProgressKept
    <2>3. active' \in [Documents -> SUBSET ActivePoint]
      BY <2>0, <1>t, <1>w DEF TypeOK
    <2>4. DataKept
      BY <1>2, <1>t, <2>1, <2>3 DEF DeleteActivePoints, DataKept, TypeOK
    <2> QED
      BY <1>0, <2>1, <2>2, <2>4, QuietStep
  <1>3. CASE VerifyActiveZero(s)
    <2>1. SlotStep(s) /\ Typed
      BY <1>3, <1>0, <1>p, CheckStep DEF VerifyActiveZero
    <2>2. QueueQuiet /\ ProgressKept
      BY <1>3, <1>0, <1>h, DeletionPhaseWritten DEF VerifyActiveZero, QueueQuiet, ProgressKept
    <2>3. DataKept
      BY <1>3, <1>t DEF VerifyActiveZero, DataKept, TypeOK, index, bounds
    <2> QED
      BY <1>0, <2>1, <2>2, <2>3, QuietStep
  <1>4. CASE RecordActiveZero(s)
    <2>1. SlotStep(s) /\ QueueQuiet /\ ProgressKept
      BY <1>4, <1>0, <1>h, ProofRecorded DEF RecordActiveZero, QueueQuiet, ProgressKept
    <2>2. Typed /\ DataKept
      BY <1>4, <1>t DEF RecordActiveZero, Typed, DataKept, TypeOK, prepVars, index, bounds
    <2> QED
      BY <1>0, <2>1, <2>2, QuietStep
  <1>5. CASE DeleteScreeningPoints(s)
    <2>0. PICK left \in SUBSET screening[Subject(s)] :
            /\ screening' = [screening EXCEPT ![Subject(s)] = left]
            /\ Attempt(s, left, {}, "verify_screening_zero")
      BY <1>5 DEF DeleteScreeningPoints
    <2>1. SlotStep(s) /\ Typed /\ faults' \in Nat
      BY <2>0, <1>0, <1>p, AttemptStep
    <2>2. QueueQuiet /\ ProgressKept
      BY <1>5, <1>0, <1>h, DeletionPhaseWritten DEF DeleteScreeningPoints, QueueQuiet, ProgressKept
    <2>3. screening' \in [Documents -> SUBSET ScreeningPoint]
      BY <2>0, <1>t, <1>w DEF TypeOK
    <2>4. DataKept
      BY <1>5, <1>t, <2>1, <2>3 DEF DeleteScreeningPoints, DataKept, TypeOK
    <2> QED
      BY <1>0, <2>1, <2>2, <2>4, QuietStep
  <1>6. CASE VerifyScreeningZero(s)
    <2>1. SlotStep(s) /\ Typed
      BY <1>6, <1>0, <1>p, CheckStep DEF VerifyScreeningZero
    <2>2. QueueQuiet /\ ProgressKept
      BY <1>6, <1>0, <1>h, DeletionPhaseWritten DEF VerifyScreeningZero, QueueQuiet, ProgressKept
    <2>3. DataKept
      BY <1>6, <1>t DEF VerifyScreeningZero, DataKept, TypeOK, index, bounds
    <2> QED
      BY <1>0, <2>1, <2>2, <2>3, QuietStep
  <1>7. CASE RecordScreeningZero(s)
    <2>1. SlotStep(s) /\ QueueQuiet /\ ProgressKept
      <3>1. CASE RecordProof(s, "screening_zero", "VERIFY_SCREENING_ZERO")
        BY <3>1, <1>0, <1>h, ProofRecorded DEF QueueQuiet, ProgressKept
      <3>2. CASE Raise(s, FALSE) /\ UNCHANGED <<del, ops>>
        BY <3>2, <1>w, RaiseStep, QueueUnchanged, ProgressUnchanged
      <3> QED
        BY <1>7, <3>1, <3>2 DEF RecordScreeningZero
    <2>2. Typed /\ DataKept
      BY <1>7, <1>t DEF RecordScreeningZero, Typed, DataKept, TypeOK, prepVars, index, bounds
    <2> QED
      BY <1>0, <2>1, <2>2, QuietStep
  <1>8. CASE PurgePhase(s)
    <2>1. SlotStep(s)
      BY <1>8, <1>w, <1>p, GotoStep DEF PurgePhase
    <2>2. QueueQuiet /\ ProgressKept
      BY <1>8, <1>0, <1>h, DeletionPhaseWritten DEF PurgePhase, QueueQuiet, ProgressKept
    <2>3. Typed /\ DataKept
      BY <1>8, <1>t DEF PurgePhase, Typed, DataKept, TypeOK, prepVars, index, bounds
    <2> QED
      BY <1>0, <2>1, <2>2, <2>3, QuietStep
  <1>9. CASE PurgeSource(s)
    <2>1. SlotStep(s)
      BY <1>9, <1>w, <1>p, GotoStep, RaiseStep DEF PurgeSource
    <2>2. QueueQuiet /\ ProgressKept
      BY <1>9, QueueUnchanged, ProgressUnchanged DEF PurgeSource
    <2>3. Typed /\ DataKept
      BY <1>9, <1>t, <1>w DEF PurgeSource, Typed, DataKept, TypeOK, prepVars, index, bounds
    <2> QED
      BY <1>0, <2>1, <2>2, <2>3, QuietStep
  <1>10. CASE PurgeArtifacts(s)
    <2>1. SlotStep(s)
      BY <1>10, <1>w, <1>p, GotoStep DEF PurgeArtifacts
    <2>2. QueueQuiet /\ ProgressKept
      BY <1>10, QueueUnchanged, ProgressUnchanged DEF PurgeArtifacts
    <2>3. Typed /\ DataKept
      BY <1>10, <1>t, <1>w DEF PurgeArtifacts, Typed, DataKept, TypeOK, prepVars, index, bounds
    <2> QED
      BY <1>0, <2>1, <2>2, <2>3, QuietStep
  <1> QED
    BY <1>1, <1>2, <1>3, <1>4, <1>5, <1>6, <1>7, <1>8, <1>9, <1>10

\* Every error of a slot is quiet: only _fail_operation writes document rows.
LEMMA TroubleQuiet ==
    ASSUME TypeInv, NEW s \in Slots,
           LoseLease(s) \/ LoseOwnership(s) \/ Fault(s) \/ Misconfigured(s)
    PROVE  Quiet(s)
  <1>0. /\ doc' = doc /\ UNCHANGED del /\ UNCHANGED ops
    BY DEF LoseLease, LoseOwnership, Fault, Misconfigured
  <1>i. slot[s].pc # "idle"
    BY DEF LoseLease, LoseOwnership, Fault, Misconfigured, LeaseChecked, OwnershipChecked,
           Configured, Steps, PreflightSteps, PublishSteps, DeletionSteps
  <1>t. TypeOK /\ revisions \in [Documents -> Seq(RevisionStatus)] /\ slot[s] \in Slot
    BY <1>i, AtWork DEF TypeInv, TypeOK, RevisionStatus
  <1>1. SlotStep(s) /\ Typed
    <2>1. CASE LoseLease(s)
      BY <2>1, <1>i, ReleaseStep, AbandonType DEF LoseLease
    <2>2. CASE LoseOwnership(s)
      BY <2>2, <1>t, RaiseStep DEF LoseOwnership, prepVars, Typed
    <2>3. CASE Fault(s)
      BY <2>3, <1>i, AbortStep DEF Fault
    <2>4. CASE Misconfigured(s)
      BY <2>4, <1>i, AbortStep DEF Misconfigured
    <2> QED
      BY <2>1, <2>2, <2>3, <2>4
  <1>2. faults' \in Nat
    <2>1. faults \in Nat
      BY <1>t DEF TypeOK
    <2>2. faults' = faults \/ faults' = faults + 1
      BY DEF LoseLease, LoseOwnership, Fault, Misconfigured, bounds
    <2> QED
      BY <2>1, <2>2
  <1>3. DataKept
    BY <1>2, <1>t DEF LoseLease, LoseOwnership, Fault, Misconfigured, bounds, index, prepVars,
                      TypeOK, DataKept
  <1> QED
    BY <1>0, <1>i, <1>1, <1>3, QueueUnchanged, ProgressUnchanged, QuietStep

-----------------------------------------------------------------------------
(* Steps that change document rows. *)

DispositionKept ==
    \A d \in Documents : doc[d].disposition \in Disposition =>
        doc'[d].disposition \in Disposition

\* The rows that accepted transitions and tombstones write are well typed.
LEMMA RowTypes ==
    ASSUME NEW row \in DocumentRow
    PROVE  /\ \A state \in DocumentState : /\ Cleared(row, state) \in DocumentRow
                                          /\ Cleared(row, state).state = state
                                          /\ Cleared(row, state).disposition = row.disposition
                                          /\ Cleared(row, state).replacedBy = row.replacedBy
           /\ \A c \in Disposition : /\ Condemned(row, c) \in DocumentRow
                                     /\ Condemned(row, c).state = "DELETING"
                                     /\ Condemned(row, c).disposition = c
                                     /\ Condemned(row, c).replacedBy = row.replacedBy
           /\ \A state \in DocumentState, r \in BOOLEAN :
                /\ Broken(row, state, r) \in DocumentRow
                /\ Broken(row, state, r).state = state
                /\ Broken(row, state, r).disposition = row.disposition
                /\ Broken(row, state, r).replacedBy = row.replacedBy
           /\ row.disposition \in Disposition =>
                /\ Tombstoned(row) \in DocumentRow
                /\ Tombstoned(row).state = row.disposition
                /\ Tombstoned(row).disposition = row.disposition
                /\ Tombstoned(row).replacedBy = row.replacedBy
  <1>1. "DELETING" \in DocumentState /\ Disposition \subseteq DocumentState
    BY DEF DocumentState, InProgress
  <1>2. ASSUME NEW state \in DocumentState
        PROVE  /\ Cleared(row, state) \in DocumentRow
               /\ Cleared(row, state).state = state
               /\ Cleared(row, state).disposition = row.disposition
               /\ Cleared(row, state).replacedBy = row.replacedBy
    BY DEF Cleared, DocumentRow
  <1>3. ASSUME NEW c \in Disposition
        PROVE  /\ Condemned(row, c) \in DocumentRow
               /\ Condemned(row, c).state = "DELETING"
               /\ Condemned(row, c).disposition = c
               /\ Condemned(row, c).replacedBy = row.replacedBy
    BY <1>1, <1>2 DEF Condemned, DocumentRow
  <1>4. ASSUME NEW state \in DocumentState, NEW r \in BOOLEAN
        PROVE  /\ Broken(row, state, r) \in DocumentRow
               /\ Broken(row, state, r).state = state
               /\ Broken(row, state, r).disposition = row.disposition
               /\ Broken(row, state, r).replacedBy = row.replacedBy
    BY DEF Broken, DocumentRow
  <1>5. ASSUME row.disposition \in Disposition
        PROVE  /\ Tombstoned(row) \in DocumentRow
               /\ Tombstoned(row).state = row.disposition
               /\ Tombstoned(row).disposition = row.disposition
               /\ Tombstoned(row).replacedBy = row.replacedBy
    BY <1>1, <1>5 DEF Tombstoned, DocumentRow
  <1> QED
    BY <1>2, <1>3, <1>4, <1>5

\* So are the rows _fail_operation writes.
LEMMA BrokenType ==
    ASSUME NEW row \in DocumentRow, NEW state \in DocumentState, NEW r \in BOOLEAN
    PROVE  /\ Broken(row, state, r) \in DocumentRow
           /\ Broken(row, state, r).state = state
           /\ Broken(row, state, r).disposition = row.disposition
           /\ Broken(row, state, r).replacedBy = row.replacedBy
  BY DEF Broken, DocumentRow

\* So are the operation rows that completing steps write.
LEMMA SucceedType ==
    ASSUME NEW row \in Operation, NEW phase \in OperationPhase
    PROVE  /\ Succeed(row, phase) \in Operation
           /\ Succeed(row, phase).type = row.type /\ Succeed(row, phase).doc = row.doc
           /\ Succeed(row, phase).target = row.target
           /\ Succeed(row, phase).state = "SUCCEEDED"
  BY DEF Succeed, Operation

\* A step that writes document rows preserves the invariant if it keeps dispositions.
LEMMA LoudStep ==
    ASSUME TypeInv, ops' \in Seq(Operation), HistoryKept,
           doc' \in [Documents -> DocumentRow], DispositionKept,
           \A d \in Documents : doc'[d].state \in {"DELETING", "DELETE_FAILED"} =>
                doc'[d].disposition \in Disposition,
           \A i \in DOMAIN ops' \ DOMAIN ops : ops'[i].type = "DELETE" =>
                doc'[ops'[i].doc].disposition \in Disposition,
           slot' \in [Slots -> Slot], SlotsBound', Typed, ProgressKept, DataKept
    PROVE  TypeInv'
  <1>1. TypeOK'
    BY DEF TypeOK, Typed, RevisionStatus, ProgressKept, DataKept
  <1>2. ASSUME NEW i \in DOMAIN ops', ops'[i].type = "DELETE"
        PROVE  doc'[ops'[i].doc].disposition \in Disposition
    <2>1. CASE i \in DOMAIN ops
      <3>1. ops[i].doc \in Documents
        BY <2>1, OpsLength DEF TypeInv, TypeOK, Operation
      <3>2. ops[i].type = "DELETE" /\ ops'[i].doc = ops[i].doc
        BY <1>2, <2>1 DEF HistoryKept
      <3> QED
        BY <2>1, <3>1, <3>2 DEF TypeInv, DispositionsRecorded, DispositionKept
    <2>2. CASE i \notin DOMAIN ops
      BY <1>2, <2>2
    <2> QED
      BY <2>1, <2>2
  <1>3. DispositionsRecorded'
    BY <1>2 DEF DispositionsRecorded
  <1> QED
    BY <1>1, <1>3 DEF TypeInv, ProgressKept

\* The operation of slot s succeeds, with or without a successor in the queue.
LEMMA OperationSucceeded ==
    ASSUME TypeInv, NEW s \in Slots, slot[s].pc # "idle", NEW row \in Operation,
           row.type = Op(s).type, row.doc = Op(s).doc, row.target = Op(s).target,
           NEW new \in Operation,
           \/ ops' = [ops EXCEPT ![slot[s].op] = row]
           \/ ops' = Append([ops EXCEPT ![slot[s].op] = row], new)
    PROVE  /\ ops' \in Seq(Operation) /\ HistoryKept
           /\ ops'[slot[s].op] = row
           /\ \A i \in DOMAIN ops : i # slot[s].op => ops'[i] = ops[i]
           /\ \/ DOMAIN ops' = DOMAIN ops
                 /\ ops' = [ops EXCEPT ![slot[s].op] = row]
              \/ /\ ops' = Append([ops EXCEPT ![slot[s].op] = row], new)
                 /\ DOMAIN ops' = DOMAIN ops \cup {Len(ops) + 1}
                 /\ ops'[Len(ops) + 1] = new
                 /\ Len(ops) + 1 \notin DOMAIN ops
  <1> DEFINE k == slot[s].op
             q == [ops EXCEPT ![k] = row]
  <1>1. k \in DOMAIN ops /\ ops \in Seq(Operation) /\ ops[k] = Op(s)
    BY AtWork DEF TypeInv, TypeOK, Op
  <1>2. /\ q \in Seq(Operation) /\ Len(q) = Len(ops) /\ DOMAIN q = DOMAIN ops
        /\ \A i \in DOMAIN ops : q[i] = IF i = k THEN row ELSE ops[i]
    BY <1>1, RowRewritten
  <1>3. /\ Append(q, new) \in Seq(Operation)
        /\ DOMAIN Append(q, new) = DOMAIN ops \cup {Len(ops) + 1}
        /\ Append(q, new)[Len(ops) + 1] = new
        /\ \A i \in DOMAIN ops : Append(q, new)[i] = q[i]
    BY <1>2, RowAppended
  <1>4. Len(ops) + 1 \notin DOMAIN ops
    BY <1>1, OpsLength
  <1>5. \A i \in DOMAIN ops : ops'[i] = IF i = k THEN row ELSE ops[i]
    BY <1>2, <1>3
  <1>6. DOMAIN ops \subseteq DOMAIN ops' /\ ops' \in Seq(Operation)
    BY <1>2, <1>3
  <1>7. HistoryKept
    BY <1>1, <1>5, <1>6 DEF HistoryKept
  <1> QED
    BY <1>1, <1>2, <1>3, <1>4, <1>5, <1>6, <1>7

\* The completing transactions of the worker preserve the type invariant.
LEMMA CompletionTypes ==
    ASSUME TypeInv, NEW s \in Slots,
           \/ AcceptRejection(s) \/ FinishPreflight(s) \/ FinishPublication(s)
           \/ PurgeCommit(s) \/ CommitDeletion(s)
    PROVE  TypeInv' /\ SlotStep(s) /\ HistoryKept
  <1>0. slot[s].pc # "idle"
    BY DEF AcceptRejection, FinishPreflight, FinishPublication, PurgeCommit, CommitDeletion, At
  <1>w. /\ slot[s].op \in DOMAIN ops /\ Op(s) \in Operation /\ Doc(s) \in Documents
        /\ Subject(s) \in Documents /\ slot[s] \in Slot /\ slot[s].rev \in Nat
        /\ ops[slot[s].op] = Op(s)
    BY <1>0, AtWork DEF Slot, Op
  <1>t. TypeOK /\ revisions \in [Documents -> Seq(RevisionStatus)]
    BY DEF TypeInv, TypeOK, RevisionStatus
  <1>r. /\ doc[Doc(s)] \in DocumentRow /\ doc[Subject(s)] \in DocumentRow
        /\ Len(revisions[Doc(s)]) \in Nat
    BY <1>t, <1>w, LenProperties DEF TypeOK
  <1>h. /\ "QUEUED" \in OperationPhase /\ "COMPLETE" \in OperationPhase
        /\ "AWAITING_DECISION" \in OperationPhase /\ "COMMIT_TOMBSTONE" \in OperationPhase
        /\ "COMMIT_TOMBSTONE" \in DeletionPhase /\ "DELETE_ACTIVE_POINTS" \in DeletionPhase
        /\ "storage_purged" \in Proof /\ "tombstoned" \in Proof
        /\ "REJECTED" \in Disposition
        /\ {"PUBLISHING", "READY", "REVIEW_REQUIRED"} \subseteq DocumentState
        /\ {"PREFLIGHT", "PUBLISH", "DELETE"} = OperationType
    BY DEF OperationPhase, FinalPhase, DeletionPhase, Proof, Disposition, DocumentState,
           InProgress, OperationType
  <1>1. CASE AcceptRejection(s)
    <2> DEFINE d == Doc(s)
               row == [Succeed(Op(s), "COMPLETE") EXCEPT !.rev = Len(revisions[d])]
               new == QueuedOperation("DELETE", d, None, Len(revisions[d]), "QUEUED")
               condemned == [Condemned(doc[d], "REJECTED") EXCEPT !.failure = "rejection"]
    <2>1. /\ row \in Operation /\ row.type = Op(s).type /\ row.doc = Op(s).doc
          /\ row.target = Op(s).target
      BY <1>w, <1>r, <1>h, SucceedType DEF Operation
    <2>2. new \in Operation /\ new.doc = d
      BY <1>w, <1>r, <1>h, QueuedType DEF QueuedOperation
    <2>3. ops' = Append([ops EXCEPT ![slot[s].op] = row], new)
      BY <1>1, <1>w DEF AcceptRejection
    <2>4. /\ ops' \in Seq(Operation) /\ HistoryKept
          /\ \A i \in DOMAIN ops' \ DOMAIN ops : ops'[i].doc = d
      <3> HIDE DEF row, new, d
      <3> QED
        BY <2>1, <2>2, <2>3, <1>0, OperationSucceeded
    <2>5. /\ condemned \in DocumentRow /\ condemned.disposition \in Disposition
      <3>1. /\ Condemned(doc[d], "REJECTED") \in DocumentRow
            /\ Condemned(doc[d], "REJECTED").disposition = "REJECTED"
        <4>1. doc[d] \in DocumentRow /\ "REJECTED" \in Disposition
          BY <1>r, <1>h
        <4> HIDE DEF d
        <4> QED
          BY <4>1, RowTypes
      <3> QED
        BY <3>1, <1>h DEF DocumentRow
    <2>6. doc' = [doc EXCEPT ![d] = condemned]
      BY <1>1 DEF AcceptRejection
    <2>7. doc' \in [Documents -> DocumentRow]
      BY <2>5, <2>6, <1>t DEF TypeOK
    <2>8. DispositionKept
      BY <2>5, <2>6, <1>t, <1>w DEF DispositionKept, TypeOK
    <2>9. \A x \in Documents : doc'[x].state \in {"DELETING", "DELETE_FAILED"} =>
            doc'[x].disposition \in Disposition
      BY <2>5, <2>6, <1>t, <1>w DEF TypeInv, DispositionsRecorded, TypeOK
    <2>10. doc'[d].disposition \in Disposition
      BY <2>5, <2>6, <1>t, <1>w DEF TypeOK
    <2>11. slot' \in [Slots -> Slot] /\ SlotsBound' /\ SlotStep(s)
      BY <1>1, <1>w, <2>4, ReleaseStep, SlotStepType DEF AcceptRejection
    <2>12. ProgressKept
      <3>1. del' = [del EXCEPT ![d] = [phase |-> "DELETE_ACTIVE_POINTS", proofs |-> {}]]
        BY <1>1 DEF AcceptRejection, StartDeletion
      <3>2. [phase |-> "DELETE_ACTIVE_POINTS", proofs |-> {}] \in Progress
        BY <1>h DEF Progress
      <3> QED
        BY <3>1, <3>2, <1>h, <1>t, <1>w DEF TypeInv, TypeOK, ProgressKept, PhasesRecorded
    <2>13. Typed /\ DataKept
      BY <1>1, <1>t DEF AcceptRejection, Typed, DataKept, TypeOK, prepVars, index, bounds
    <2> QED
      BY <2>4, <2>7, <2>8, <2>9, <2>10, <2>11, <2>12, <2>13, LoudStep
  <1>2. CASE FinishPreflight(s)
    <2> DEFINE d == Doc(s)
               row(p) == Succeed(Op(s), p)
               new == QueuedOperation("PUBLISH", d, None, slot[s].rev, "QUEUED")
    <2>1. \A p \in {"COMPLETE", "AWAITING_DECISION"} :
            /\ row(p) \in Operation /\ row(p).type = Op(s).type /\ row(p).doc = Op(s).doc
            /\ row(p).target = Op(s).target
      BY <1>w, <1>h, SucceedType
    <2>2. new \in Operation /\ new.type = "PUBLISH"
      BY <1>w, <1>h, QueuedType DEF QueuedOperation
    <2>3. \/ ops' = [ops EXCEPT ![slot[s].op] = row("AWAITING_DECISION")]
          \/ ops' = Append([ops EXCEPT ![slot[s].op] = row("COMPLETE")], new)
      BY <1>2, <1>w DEF FinishPreflight
    <2>4. /\ ops' \in Seq(Operation) /\ HistoryKept
          /\ \A i \in DOMAIN ops' \ DOMAIN ops : ops'[i].type = "PUBLISH"
      <3> HIDE DEF row, new, d
      <3> QED
        BY <2>1, <2>2, <2>3, <1>0, OperationSucceeded
    <2>5. PICK state \in {"PUBLISHING", "REVIEW_REQUIRED"} :
            doc' = [doc EXCEPT ![d] = Cleared(doc[d], state)]
      BY <1>2 DEF FinishPreflight
    <2>6. /\ Cleared(doc[d], state) \in DocumentRow
          /\ Cleared(doc[d], state).state = state
          /\ Cleared(doc[d], state).disposition = doc[d].disposition
      <3>1. state \in DocumentState
        BY <1>h, <2>5
      <3> QED
        BY <1>r, <3>1, RowTypes
    <2>7. doc' \in [Documents -> DocumentRow]
      BY <2>5, <2>6, <1>t DEF TypeOK
    <2>8. DispositionKept
      BY <2>5, <2>6, <1>t, <1>w DEF DispositionKept, TypeOK
    <2>9. \A x \in Documents : doc'[x].state \in {"DELETING", "DELETE_FAILED"} =>
            doc'[x].disposition \in Disposition
      BY <2>5, <2>6, <1>t, <1>w DEF TypeInv, DispositionsRecorded, TypeOK
    <2>11. slot' \in [Slots -> Slot] /\ SlotsBound' /\ SlotStep(s)
      BY <1>2, <1>w, <2>4, ReleaseStep, SlotStepType DEF FinishPreflight
    <2>12. ProgressKept
      BY <1>2, ProgressUnchanged DEF FinishPreflight
    <2>13. pub' \in [Documents -> Publication]
      <3> DEFINE p == [status |-> "PENDING", rev |-> slot[s].rev]
      <3>1. pub' = pub \/ pub' = [pub EXCEPT ![d] = p]
        BY <1>2 DEF FinishPreflight, EnsurePublication
      <3>2. p \in Publication
        BY <1>w DEF Publication
      <3> QED
        BY <3>1, <3>2, <1>t, <1>w DEF TypeOK
    <2>14. Typed /\ DataKept
      BY <1>2, <1>t, <2>13 DEF FinishPreflight, Typed, DataKept, TypeOK, prepVars, index, bounds
    <2> QED
      BY <2>4, <2>7, <2>8, <2>9, <2>11, <2>12, <2>14, LoudStep
  <1>3. CASE FinishPublication(s)
    <2> DEFINE d == Doc(s)
               row == Succeed(Op(s), "COMPLETE")
    <2>1. CASE Raise(s, FALSE) /\ UNCHANGED <<pub, doc, ops>>
      <3>1. SlotStep(s) /\ QueueQuiet /\ ProgressKept
        BY <2>1, <1>3, <1>w, RaiseStep, QueueUnchanged, ProgressUnchanged DEF FinishPublication
      <3>2. Typed /\ DataKept
        BY <1>3, <2>1, <1>t DEF FinishPublication, Typed, DataKept, TypeOK, prepVars, index, bounds
      <3> QED
        BY <2>1, <3>1, <3>2, <1>0, QuietStep DEF Quiet, QueueQuiet
    <2>2. CASE /\ pub' = [pub EXCEPT ![d].status = "VERIFIED"]
               /\ doc' = [doc EXCEPT ![d] = Cleared(doc[d], "READY")]
               /\ ops' = [ops EXCEPT ![slot[s].op] = row]
               /\ Release(s)
      <3>1. /\ row \in Operation /\ row.type = Op(s).type /\ row.doc = Op(s).doc
            /\ row.target = Op(s).target
        BY <1>w, <1>h, SucceedType
      <3>2. QueueKept
        BY <3>1, <2>2, <1>w, <1>t, RowRewritten DEF QueueKept, HistoryKept, TypeOK
      <3>3. /\ Cleared(doc[d], "READY") \in DocumentRow
            /\ Cleared(doc[d], "READY").state = "READY"
            /\ Cleared(doc[d], "READY").disposition = doc[d].disposition
        BY <1>r, <1>h, RowTypes
      <3>4. doc' \in [Documents -> DocumentRow] /\ DispositionKept
        BY <2>2, <3>3, <1>t, <1>w DEF DispositionKept, TypeOK
      <3>5. \A x \in Documents : doc'[x].state \in {"DELETING", "DELETE_FAILED"} =>
              doc'[x].disposition \in Disposition
        BY <2>2, <3>3, <1>t, <1>w DEF TypeInv, DispositionsRecorded, TypeOK
      <3>6. slot' \in [Slots -> Slot] /\ SlotsBound' /\ SlotStep(s)
        BY <2>2, <1>w, <3>2, ReleaseStep, SlotStepType DEF QueueKept
      <3>7. ProgressKept
        BY <1>3, ProgressUnchanged DEF FinishPublication
      <3>8. pub' \in [Documents -> Publication]
        BY <2>2, <1>t, <1>w DEF TypeOK, Publication
      <3>9. Typed /\ DataKept
        BY <1>3, <1>t, <3>8 DEF FinishPublication, Typed, DataKept, TypeOK, prepVars, index, bounds
      <3> QED
        BY <3>2, <3>4, <3>5, <3>6, <3>7, <3>9, LoudStep DEF QueueKept
    <2> QED
      BY <1>3, <1>w, <2>1, <2>2 DEF FinishPublication
  <1>4. CASE PurgeCommit(s)
    <2> DEFINE d == Subject(s)
    <2>1. SlotStep(s) /\ QueueKept /\ ProgressKept
      BY <1>4, <1>0, <1>h, ProofRecorded DEF PurgeCommit, QueueKept, ProgressKept
    <2>2. doc' = [doc EXCEPT ![d].key = FALSE]
      BY <1>4 DEF PurgeCommit
    <2> DEFINE purged == [doc[d] EXCEPT !.key = FALSE]
    <2>a. /\ purged \in DocumentRow /\ purged.state = doc[d].state
          /\ purged.disposition = doc[d].disposition
      BY <1>r DEF DocumentRow
    <2>b. doc' = [doc EXCEPT ![d] = purged]
      BY <2>2
    <2> HIDE DEF purged
    <2>3. doc' \in [Documents -> DocumentRow]
      BY <2>a, <2>b, <1>t, <1>w DEF TypeOK
    <2>4. \A x \in Documents : /\ doc'[x].state = doc[x].state
                                /\ doc'[x].disposition = doc[x].disposition
      BY <2>a, <2>b, <1>t, <1>w DEF TypeOK
    <2>5. DispositionKept /\ \A x \in Documents :
            doc'[x].state \in {"DELETING", "DELETE_FAILED"} => doc'[x].disposition \in Disposition
      BY <2>4 DEF DispositionKept, TypeInv, DispositionsRecorded
    <2>6. slot' \in [Slots -> Slot] /\ SlotsBound'
      BY <2>1, <1>w, SlotStepType DEF QueueKept
    <2>7. Typed /\ DataKept
      BY <1>4, <1>t, <1>w DEF PurgeCommit, Typed, DataKept, TypeOK, index, bounds
    <2> QED
      BY <2>1, <2>3, <2>5, <2>6, <2>7, LoudStep DEF QueueKept
  <1>5. CASE CommitDeletion(s)
    <2> DEFINE d == Subject(s)
               row == Succeed(Op(s), "COMPLETE")
    <2>1. SlotStep(s) /\ QueueKept
      <3>1. CASE Op(s).type = "DELETE"
        <4>1. ops' = [ops EXCEPT ![slot[s].op] = row] /\ Release(s)
          BY <1>5, <3>1, <1>w DEF CommitDeletion
        <4>2. /\ row \in Operation /\ row.type = Op(s).type /\ row.doc = Op(s).doc
              /\ row.target = Op(s).target
          BY <1>w, <1>h, SucceedType
        <4> QED
          BY <4>1, <4>2, <1>w, <1>t, RowRewritten, ReleaseStep
          DEF QueueKept, HistoryKept, TypeOK
      <3>2. CASE Op(s).type # "DELETE"
        <4>1. SetPhase(s, "COMMIT_TOMBSTONE") /\ Advance(s, "tombstoned")
          BY <1>5, <3>2 DEF CommitDeletion
        <4> QED
          BY <4>1, <1>0, <1>w, <1>h, QueuePhase, AdvanceStep
      <3> QED
        BY <3>1, <3>2
    <2>2. doc' = [doc EXCEPT ![d] = Tombstoned(doc[d])]
      BY <1>5 DEF CommitDeletion
    <2>3. doc[d].disposition \in Disposition
      BY <1>5, <1>w DEF CommitDeletion, MayTombstone, TypeInv, DispositionsRecorded
    <2>4. /\ Tombstoned(doc[d]) \in DocumentRow
          /\ Tombstoned(doc[d]).disposition = doc[d].disposition
      BY <2>3, <1>r, RowTypes
    <2>5. doc' \in [Documents -> DocumentRow] /\ DispositionKept
      BY <2>2, <2>4, <1>t, <1>w DEF TypeOK, DispositionKept
    <2>6. \A x \in Documents : doc'[x].state \in {"DELETING", "DELETE_FAILED"} =>
            doc'[x].disposition \in Disposition
      BY <2>2, <2>3, <2>4, <1>t, <1>w DEF TypeOK, TypeInv, DispositionsRecorded
    <2>7. ProgressKept
      <3> DEFINE p == [phase |-> "COMMIT_TOMBSTONE", proofs |-> del[d].proofs \cup {"tombstoned"}]
      <3>1. del' = [del EXCEPT ![d] = p]
        BY <1>5 DEF CommitDeletion
      <3>2. p \in Progress
        BY <1>h, <1>t, <1>w DEF Progress, TypeOK
      <3> QED
        BY <3>1, <3>2, <1>h, <1>t, <1>w DEF TypeInv, TypeOK, ProgressKept, PhasesRecorded
    <2>8. slot' \in [Slots -> Slot] /\ SlotsBound'
      BY <2>1, <1>w, SlotStepType DEF QueueKept
    <2>9. Typed /\ DataKept
      BY <1>5, <1>t DEF CommitDeletion, Typed, DataKept, TypeOK, prepVars, index, bounds
    <2> QED
      BY <2>1, <2>5, <2>6, <2>7, <2>8, <2>9, LoudStep DEF QueueKept
  <1> QED
    BY <1>1, <1>2, <1>3, <1>4, <1>5

\* _fail_operation preserves it.
LEMMA FailureTypes ==
    ASSUME TypeInv, NEW s \in Slots, FailOperation(s)
    PROVE  TypeInv' /\ SlotStep(s) /\ HistoryKept
  <1> DEFINE k == slot[s].op
             o == Op(s)
             r == slot[s].retryable
             row == [ops[k] EXCEPT !.state = "FAILED", !.retryable = r]
  <1>0. slot[s].pc # "idle"
    BY DEF FailOperation, At
  <1>w. /\ k \in DOMAIN ops /\ o \in Operation /\ ops[k] = o /\ slot[s] \in Slot
        /\ r \in BOOLEAN /\ o.doc \in Documents
    BY <1>0, AtWork DEF Slot, Op, Operation
  <1>t. TypeOK /\ revisions \in [Documents -> Seq(RevisionStatus)]
    BY DEF TypeInv, TypeOK, RevisionStatus
  <1>s. SlotStep(s)
    BY ReleaseStep DEF FailOperation
  <1>d. ProgressKept
    BY ProgressUnchanged DEF FailOperation
  <1>1. CASE ~Holds(s)
    <2>1. UNCHANGED <<doc, pub, ops>>
      BY <1>1 DEF FailOperation
    <2>2. Typed /\ DataKept
      BY <2>1, <1>t DEF FailOperation, Typed, DataKept, TypeOK, prepVars, index, bounds
    <2> QED
      BY <2>1, <2>2, <1>0, <1>s, <1>d, QueueUnchanged, QuietStep DEF Quiet, QueueQuiet
  <1>2. CASE Holds(s)
    <2>1. /\ row \in Operation /\ row.type = o.type /\ row.doc = o.doc /\ row.target = o.target
      BY <1>w DEF Operation
    <2>2. ops' = [ops EXCEPT ![k] = row]
      BY <1>2 DEF FailOperation
    <2>3. QueueKept
      <3> HIDE DEF row
      <3> QED
        BY <2>1, <2>2, <1>w, <1>t, RowRewritten DEF QueueKept, HistoryKept, TypeOK
    <2>4. ASSUME NEW x \in Documents
          PROVE  /\ FailureRow(x, o, r) \in DocumentRow
                 /\ FailureRow(x, o, r).disposition = doc[x].disposition
                 /\ FailureRow(x, o, r).state \in {"DELETING", "DELETE_FAILED"} =>
                      doc[x].disposition \in Disposition
      <3> HIDE DEF o, r
      <3>1. doc[x] \in DocumentRow
        BY <1>t DEF TypeOK
      <3>2. doc[x].state \in {"DELETING", "DELETE_FAILED"} => doc[x].disposition \in Disposition
        BY DEF TypeInv, DispositionsRecorded
      <3>3. CASE x = o.doc
        <4> DEFINE v == IF o.type = "PREFLIGHT" /\ doc[x].state = "DELETING"
                        THEN "DELETING" ELSE FailureState(o.type)
        <4>1. v \in DocumentState
          BY DEF FailureState, DocumentState, InProgress, Failed
        <4>2. v \in {"DELETING", "DELETE_FAILED"} => doc[x].disposition \in Disposition
          <5>1. o.type = "DELETE" => doc[x].disposition \in Disposition
            BY <3>3, <1>w DEF TypeInv, DispositionsRecorded
          <5>2. v = "DELETING" => doc[x].state = "DELETING"
            BY DEF FailureState
          <5>3. v = "DELETE_FAILED" => o.type = "DELETE"
            BY <1>w DEF FailureState, Operation, OperationType
          <5> QED
            BY <5>1, <5>2, <5>3, <3>2
        <4>3. FailureRow(x, o, r) = Broken(doc[x], v, r)
          BY <3>3 DEF FailureRow
        <4> HIDE DEF v
        <4> QED
          BY <4>1, <4>2, <4>3, <3>1, <1>w, RowTypes
      <3>4. CASE x # o.doc /\ x = o.target /\ doc[x].state = "DELETING"
        <4>1. FailureRow(x, o, r) = Broken(doc[x], "DELETE_FAILED", r)
          BY <3>4 DEF FailureRow
        <4>2. "DELETE_FAILED" \in DocumentState
          BY DEF DocumentState, Failed
        <4> QED
          BY <4>1, <4>2, <3>1, <3>2, <3>4, <1>w, RowTypes
      <3>5. CASE x # o.doc /\ ~(x = o.target /\ doc[x].state = "DELETING")
        BY <3>1, <3>2, <3>5 DEF FailureRow
      <3> QED
        BY <3>3, <3>4, <3>5
    <2>5. doc' = [x \in Documents |-> FailureRow(x, o, r)]
      BY <1>2 DEF FailOperation
    <2>6. /\ doc' \in [Documents -> DocumentRow] /\ DispositionKept
          /\ \A x \in Documents : doc'[x].state \in {"DELETING", "DELETE_FAILED"} =>
                doc'[x].disposition \in Disposition
      <3> HIDE DEF o, r
      <3> QED
        BY <2>4, <2>5 DEF DispositionKept
    <2>7. slot' \in [Slots -> Slot] /\ SlotsBound'
      BY <1>s, <1>w, <2>3, SlotStepType DEF QueueKept
    <2>8. pub' \in [Documents -> Publication]
      <3> DEFINE p == [pub[o.doc] EXCEPT !.status = "FAILED"]
      <3>1. p \in Publication
        BY <1>t, <1>w DEF TypeOK, Publication
      <3>2. pub' = pub \/ pub' = [pub EXCEPT ![o.doc] = p]
        BY <1>2 DEF FailOperation
      <3> HIDE DEF p, o
      <3> QED
        BY <3>1, <3>2, <1>t, <1>w DEF TypeOK
    <2>9. Typed /\ DataKept
      BY <2>8, <1>t DEF FailOperation, Typed, DataKept, TypeOK, prepVars, index, bounds
    <2> QED
      BY <2>3, <2>6, <2>7, <2>9, <1>s, <1>d, LoudStep DEF QueueKept
  <1> QED
    BY <1>1, <1>2

-----------------------------------------------------------------------------
(* Claims, leases and crashes. *)

\* Claims, lease recovery and crashes preserve it.
LEMMA LeaseTypes ==
    ASSUME TypeInv, Lease \/ \E s \in Slots : Claim(s)
    PROVE  TypeInv' /\ HistoryKept
  <1>t. TypeOK /\ revisions \in [Documents -> Seq(RevisionStatus)]
    BY DEF TypeInv, TypeOK, RevisionStatus
  <1>0. doc' = doc /\ UNCHANGED del /\ UNCHANGED prepVars
    BY DEF Lease, Claim, RecoverLease, LapseLease, Crash
  <1>1. interruptions' \in Nat
    <2>1. interruptions \in Nat
      BY <1>t DEF TypeOK
    <2>2. interruptions' = interruptions \/ interruptions' = interruptions + 1
      BY DEF Lease, Claim, RecoverLease, LapseLease, Crash, bounds
    <2> QED
      BY <2>1, <2>2
  <1>2. Typed /\ DataKept
    BY <1>t, <1>0, <1>1 DEF Lease, Claim, RecoverLease, LapseLease, Crash, bounds, index,
                            prepVars, Typed, DataKept, TypeOK
  <1>3. ASSUME NEW i \in DOMAIN ops, NEW state \in {"QUEUED", "RUNNING"},
               ops' = [ops EXCEPT ![i].state = state]
        PROVE  QueueKept
    <2> DEFINE row == [ops[i] EXCEPT !.state = state]
    <2>1. ops[i] \in Operation
      BY <1>t, OpsLength DEF TypeOK
    <2>2. /\ row \in Operation /\ row.type = ops[i].type /\ row.doc = ops[i].doc
          /\ row.target = ops[i].target
      BY <2>1 DEF Operation
    <2>3. ops' = [ops EXCEPT ![i] = row]
      BY <1>3
    <2> HIDE DEF row
    <2> QED
      BY <2>2, <2>3, <1>t, RowRewritten DEF QueueKept, HistoryKept, TypeOK
  <1>4. ASSUME QueueKept, slot' \in [Slots -> Slot], SlotsBound'
        PROVE  TypeInv' /\ HistoryKept
    <2>1. DispositionsRecorded' /\ ProgressKept
      BY <1>0, <1>4, ProgressUnchanged
      DEF TypeInv, DispositionsRecorded, QueueKept, HistoryKept
    <2>2. TypeOK'
      BY <1>0, <1>2, <1>4, <1>t, <2>1
      DEF TypeOK, Typed, DataKept, QueueKept, ProgressKept, RevisionStatus
    <2> QED
      BY <1>4, <2>1, <2>2 DEF TypeInv, ProgressKept, QueueKept
  <1>5. ASSUME NEW i \in DOMAIN ops, RecoverLease(i) \/ LapseLease(i)
        PROVE  TypeInv' /\ HistoryKept
    <2>1. ops' = [ops EXCEPT ![i].state = "QUEUED"] /\ slot' = slot
      BY <1>5 DEF RecoverLease, LapseLease
    <2>2. QueueKept
      BY <2>1, <1>3
    <2> QED
      BY <2>1, <2>2, <1>4, <1>t DEF TypeInv, SlotsBound, QueueKept, TypeOK
  <1>6. CASE Crash
    <2>1. slot' = [s \in Slots |-> Idle] /\ UNCHANGED ops
      BY <1>6 DEF Crash
    <2>2. slot' \in [Slots -> Slot] /\ SlotsBound'
      BY <2>1, IdleType DEF SlotsBound
    <2> QED
      BY <2>1, <2>2, <1>4, QueueUnchanged
  <1>7. ASSUME NEW s \in Slots, Claim(s)
        PROVE  TypeInv' /\ HistoryKept
    <2>1. PICK i \in DOMAIN ops :
            /\ ops' = [ops EXCEPT ![i].state = "RUNNING"]
            /\ slot' = [slot EXCEPT ![s] = [Idle EXCEPT
                    !.op = i,
                    !.pc = IF ops[i].type = "PREFLIGHT" THEN "source" ELSE "snapshot"]]
      BY <1>7 DEF Claim
    <2> DEFINE l == IF ops[i].type = "PREFLIGHT" THEN "source" ELSE "snapshot"
               v == [Idle EXCEPT !.op = i, !.pc = l]
    <2>2. v \in Slot /\ v.op = i
      <3>1. i \in Nat /\ l \in Steps
        BY <1>t, OpsLength DEF TypeOK, Steps, PreflightSteps
      <3> QED
        BY <3>1, IdleType DEF Slot
    <2>3. QueueKept
      BY <2>1, <1>3
    <2>4. slot' = [slot EXCEPT ![s] = v]
      BY <2>1
    <2> HIDE DEF v
    <2>5. slot' \in [Slots -> Slot]
      BY <2>2, <2>4, <1>t DEF TypeOK
    <2>6. SlotsBound'
      BY <2>2, <2>3, <2>4, <1>t DEF TypeInv, TypeOK, SlotsBound, QueueKept
    <2> QED
      BY <2>3, <2>5, <2>6, <1>4
  <1> QED
    BY <1>5, <1>6, <1>7 DEF Lease

-----------------------------------------------------------------------------
(* API mutations. *)

\* What an accepted request leaves alone, whatever it is.
LEMMA RequestFrame ==
    ASSUME TypeInv, Request, UNCHANGED <<prepVars, index, slot>>,
           pub' \in [Documents -> Publication],
           files' \in [Documents -> SUBSET {"source", "artifact"}],
           NEW row \in Operation, Enqueue(row), ProgressKept,
           doc' \in [Documents -> DocumentRow], DispositionKept,
           \A d \in Documents : doc'[d].state \in {"DELETING", "DELETE_FAILED"} =>
                doc'[d].disposition \in Disposition,
           row.type = "DELETE" => doc'[row.doc].disposition \in Disposition
    PROVE  TypeInv' /\ HistoryKept
  <1>t. TypeOK /\ revisions \in [Documents -> Seq(RevisionStatus)]
    BY DEF TypeInv, TypeOK, RevisionStatus
  <1>1. /\ ops' \in Seq(Operation) /\ HistoryKept
        /\ DOMAIN ops' = DOMAIN ops \cup {Len(ops) + 1} /\ ops'[Len(ops) + 1] = row
    BY <1>t, Enqueued DEF TypeOK
  <1>2. slot' \in [Slots -> Slot] /\ SlotsBound'
    BY <1>t, <1>1 DEF TypeInv, TypeOK, SlotsBound, HistoryKept
  <1>3. requests' \in Nat /\ faults' \in Nat /\ interruptions' \in Nat
    <2>1. requests \in Nat /\ faults \in Nat /\ interruptions \in Nat
      BY <1>t DEF TypeOK
    <2> QED
      BY <2>1 DEF Request
  <1>4. Typed /\ DataKept
    BY <1>t, <1>3 DEF Typed, DataKept, TypeOK, prepVars, index
  <1> QED
    BY <1>1, <1>2, <1>4, LoudStep

\* A new DeletionProgress row is well typed.
LEMMA DeletionStarted ==
    ASSUME TypeInv, NEW d \in Documents, StartDeletion(d)
    PROVE  ProgressKept
  <1> DEFINE p == [phase |-> "DELETE_ACTIVE_POINTS", proofs |-> {}]
  <1>1. p \in Progress /\ p.phase \in DeletionPhase
    BY DEF Progress, DeletionPhase
  <1>2. del' = [del EXCEPT ![d] = p]
    BY DEF StartDeletion
  <1> HIDE DEF p
  <1> QED
    BY <1>1, <1>2 DEF TypeInv, TypeOK, ProgressKept, PhasesRecorded

\* _ensure_publication_record writes a well-typed record.
LEMMA PublicationQueued ==
    ASSUME TypeInv, NEW d \in Documents, NEW r \in Nat, EnsurePublication(d, r)
    PROVE  pub' \in [Documents -> Publication]
  <1> DEFINE p == [status |-> "PENDING", rev |-> r]
  <1>1. p \in Publication
    BY DEF Publication
  <1>2. pub' = [pub EXCEPT ![d] = p]
    BY DEF EnsurePublication
  <1> HIDE DEF p
  <1> QED
    BY <1>1, <1>2 DEF TypeInv, TypeOK

\* One document row is rewritten.
LEMMA DocumentRewritten ==
    ASSUME TypeInv, NEW d \in Documents, NEW row \in DocumentRow,
           doc' = [doc EXCEPT ![d] = row],
           doc[d].disposition \in Disposition => row.disposition \in Disposition,
           row.state \in {"DELETING", "DELETE_FAILED"} => row.disposition \in Disposition
    PROVE  /\ doc' \in [Documents -> DocumentRow] /\ DispositionKept
           /\ \A x \in Documents : doc'[x].state \in {"DELETING", "DELETE_FAILED"} =>
                doc'[x].disposition \in Disposition
           /\ doc'[d] = row
  BY DEF TypeInv, TypeOK, DispositionsRecorded, DispositionKept

\* begin_deletion preserves the type invariant.
LEMMA DeletionRequestTypes ==
    ASSUME TypeInv, NEW d \in Documents, NEW c \in Disposition, NEW r \in Nat, Request,
           BeginDeletion(d, c, r), UNCHANGED <<prepVars, pub, index, files, slot>>
    PROVE  TypeInv' /\ HistoryKept
  <1> DEFINE row == QueuedOperation("DELETE", d, None, r, "QUEUED")
             condemned == Condemned(doc[d], c)
  <1>1. row \in Operation /\ row.doc = d
    <2>1. "DELETE" \in OperationType /\ "QUEUED" \in OperationPhase
      BY DEF OperationType, OperationPhase
    <2> QED
      BY <2>1, QueuedType DEF QueuedOperation
  <1>2. Enqueue(row) /\ doc' = [doc EXCEPT ![d] = condemned] /\ StartDeletion(d)
    BY DEF BeginDeletion
  <1>3. condemned \in DocumentRow /\ condemned.disposition = c
    <2>1. doc[d] \in DocumentRow
      BY DEF TypeInv, TypeOK
    <2> QED
      BY <2>1, RowTypes
  <1> HIDE DEF row, condemned
  <1>4. /\ doc' \in [Documents -> DocumentRow] /\ DispositionKept
        /\ \A x \in Documents : doc'[x].state \in {"DELETING", "DELETE_FAILED"} =>
              doc'[x].disposition \in Disposition
        /\ doc'[d] = condemned
    BY <1>2, <1>3, DocumentRewritten
  <1>5. ProgressKept
    BY <1>2, DeletionStarted
  <1>6. /\ pub' \in [Documents -> Publication]
        /\ files' \in [Documents -> SUBSET {"source", "artifact"}]
    BY DEF TypeInv, TypeOK
  <1>7. doc'[row.doc].disposition \in Disposition
    BY <1>1, <1>3, <1>4
  <1> QED
    BY <1>1, <1>2, <1>4, <1>5, <1>6, <1>7, RequestFrame

\* Revision numbers are naturals.
LEMMA RevisionNumbers ==
    ASSUME TypeInv, NEW d \in Documents
    PROVE  /\ DOMAIN revisions[d] \subseteq Nat /\ Len(revisions[d]) \in Nat
           /\ 0 .. Len(revisions[d]) \subseteq Nat
  BY LenProperties DEF TypeInv, TypeOK

\* Every accepted API mutation preserves the type invariant.
LEMMA ApiTypes ==
    ASSUME TypeInv, Api
    PROVE  TypeInv' /\ HistoryKept
  <1>t. TypeOK /\ \A x \in Documents : doc[x] \in DocumentRow
    BY DEF TypeInv, TypeOK
  <1>h. /\ OperationType = {"PREFLIGHT", "PUBLISH", "DELETE"} /\ "QUEUED" \in OperationPhase
        /\ {"PREFLIGHTING", "PUBLISHING", "DELETING"} \subseteq DocumentState
        /\ {"CANCELLED", "DELETED"} \subseteq Disposition
    BY DEF OperationType, OperationPhase, DocumentState, InProgress, Disposition
  <1>1. ASSUME NEW d \in Documents, Upload(d) PROVE TypeInv' /\ HistoryKept
    <2> DEFINE row == QueuedOperation("PREFLIGHT", d, None, 0, "QUEUED")
               new == [doc[d] EXCEPT !.state = "PREFLIGHTING", !.key = TRUE]
    <2>1. row \in Operation /\ row.type = "PREFLIGHT"
      BY <1>h, QueuedType DEF QueuedOperation
    <2>2. /\ new \in DocumentRow /\ new.disposition = doc[d].disposition
          /\ new.state = "PREFLIGHTING"
      BY <1>t, <1>h DEF DocumentRow
    <2>3. /\ doc' = [doc EXCEPT ![d] = new] /\ Enqueue(row) /\ Request
          /\ UNCHANGED <<prepVars, index, slot>> /\ UNCHANGED del
      BY <1>1 DEF Upload
    <2> HIDE DEF row, new
    <2>4. /\ doc' \in [Documents -> DocumentRow] /\ DispositionKept
          /\ \A x \in Documents : doc'[x].state \in {"DELETING", "DELETE_FAILED"} =>
                doc'[x].disposition \in Disposition
      BY <2>2, <2>3, DocumentRewritten
    <2>5. /\ pub' \in [Documents -> Publication]
          /\ files' \in [Documents -> SUBSET {"source", "artifact"}]
      BY <1>1, <1>t DEF Upload, TypeOK
    <2> QED
      BY <2>1, <2>3, <2>4, <2>5, ProgressUnchanged, RequestFrame
  <1>2. ASSUME NEW d \in Documents, Keep(d) PROVE TypeInv' /\ HistoryKept
    <2>1. PICK r \in DOMAIN revisions[d] :
            /\ EnsurePublication(d, r)
            /\ Enqueue(QueuedOperation("PUBLISH", d, None, r, "QUEUED"))
      BY <1>2 DEF Keep
    <2> DEFINE row == QueuedOperation("PUBLISH", d, None, r, "QUEUED")
               new == [doc[d] EXCEPT !.state = "PUBLISHING"]
    <2>n. r \in Nat
      BY <2>1, RevisionNumbers
    <2>2. row \in Operation /\ row.type = "PUBLISH"
      BY <2>n, <1>h, QueuedType DEF QueuedOperation
    <2>3. /\ new \in DocumentRow /\ new.disposition = doc[d].disposition
          /\ new.state = "PUBLISHING"
      BY <1>t, <1>h DEF DocumentRow
    <2>4. /\ doc' = [doc EXCEPT ![d] = new] /\ Enqueue(row) /\ Request
          /\ UNCHANGED <<prepVars, index, slot>> /\ UNCHANGED del /\ UNCHANGED files
      BY <1>2, <2>1 DEF Keep
    <2> HIDE DEF row, new
    <2>5. /\ doc' \in [Documents -> DocumentRow] /\ DispositionKept
          /\ \A x \in Documents : doc'[x].state \in {"DELETING", "DELETE_FAILED"} =>
                doc'[x].disposition \in Disposition
      BY <2>3, <2>4, DocumentRewritten
    <2>6. /\ pub' \in [Documents -> Publication]
          /\ files' \in [Documents -> SUBSET {"source", "artifact"}]
      BY <2>1, <2>n, <2>4, <1>t, PublicationQueued DEF TypeOK
    <2> QED
      BY <2>2, <2>4, <2>5, <2>6, ProgressUnchanged, RequestFrame
  <1>3. ASSUME NEW d \in Documents, NEW t \in Documents, Replace(d, t) PROVE TypeInv' /\ HistoryKept
    <2>1. PICK r \in DOMAIN revisions[d] :
            /\ EnsurePublication(d, r)
            /\ Enqueue(QueuedOperation("PUBLISH", d, t, r, "QUEUED"))
      BY <1>3 DEF Replace
    <2> DEFINE row == QueuedOperation("PUBLISH", d, t, r, "QUEUED")
               new == Cleared(doc[d], "PUBLISHING")
               old == [Condemned(doc[t], "DELETED") EXCEPT !.replacedBy = d]
    <2>n. r \in Nat
      BY <2>1, RevisionNumbers
    <2>2. row \in Operation /\ row.type = "PUBLISH"
      BY <2>n, <1>h, QueuedType DEF QueuedOperation
    <2>3. /\ new \in DocumentRow /\ new.disposition = doc[d].disposition
          /\ new.state = "PUBLISHING"
      BY <1>t, <1>h, RowTypes
    <2>4. old \in DocumentRow /\ old.disposition = "DELETED"
      <3>1. /\ Condemned(doc[t], "DELETED") \in DocumentRow
            /\ Condemned(doc[t], "DELETED").disposition = "DELETED"
        <4>1. doc[t] \in DocumentRow /\ "DELETED" \in Disposition
          BY <1>t, <1>h
        <4> QED
          BY <4>1, RowTypes
      <3> QED
        BY <3>1 DEF DocumentRow
    <2>5. /\ doc' = [doc EXCEPT ![d] = new, ![t] = old] /\ Enqueue(row) /\ Request /\ d # t
          /\ UNCHANGED <<prepVars, index, slot>> /\ StartDeletion(t) /\ UNCHANGED files
      BY <1>3, <2>1 DEF Replace
    <2> HIDE DEF row, new, old
    <2>6. \A x \in Documents : doc'[x] = IF x = t THEN old ELSE IF x = d THEN new ELSE doc[x]
      BY <2>5, <1>t DEF TypeOK
    <2>7. /\ doc' \in [Documents -> DocumentRow] /\ DispositionKept
          /\ \A x \in Documents : doc'[x].state \in {"DELETING", "DELETE_FAILED"} =>
                doc'[x].disposition \in Disposition
      BY <2>3, <2>4, <2>5, <2>6, <1>t, <1>h
      DEF TypeOK, TypeInv, DispositionsRecorded, DispositionKept
    <2>8. /\ pub' \in [Documents -> Publication]
          /\ files' \in [Documents -> SUBSET {"source", "artifact"}]
      BY <2>1, <2>n, <2>5, <1>t, PublicationQueued DEF TypeOK
    <2> QED
      BY <2>2, <2>5, <2>7, <2>8, DeletionStarted, RequestFrame
  <1>4. ASSUME NEW d \in Documents, Cancel(d) PROVE TypeInv' /\ HistoryKept
    BY <1>4, <1>h, RevisionNumbers, DeletionRequestTypes DEF Cancel
  <1>5. ASSUME NEW d \in Documents, Delete(d) PROVE TypeInv' /\ HistoryKept
    BY <1>5, <1>h, RevisionNumbers, DeletionRequestTypes DEF Delete
  <1>6. ASSUME NEW d \in Documents, Retry(d) PROVE TypeInv' /\ HistoryKept
    <2> DEFINE e == RetryOwner(d)
    <2>1. PICK i \in DOMAIN ops :
        /\ Retryable(d, e, i)
        /\ pub' = IF ops[i].type = "PUBLISH"
                  THEN [pub EXCEPT ![e].status = "PENDING"] ELSE pub
        /\ doc' = [x \in Documents |->
                    IF x = e THEN Cleared(doc[x], InProgressState(ops[i].type))
                    ELSE IF x = ops[i].target /\ doc[x].state = "DELETE_FAILED"
                    THEN Cleared(doc[x], "DELETING")
                    ELSE doc[x]]
        /\ Enqueue(QueuedOperation(ops[i].type, e, ops[i].target, ops[i].rev, ResumePhase(i)))
      BY <1>6 DEF Retry
    <2>2. /\ ops[i] \in Operation /\ ops[i].type \in OperationType /\ ops[i].doc = e
          /\ ops[i].target \in Documents \cup {None} /\ ops[i].rev \in Nat
          /\ ops[i].phase \in OperationPhase /\ e \in Documents
      <3>1. ops[i] \in Operation /\ ops[i].doc = e
        BY <2>1, <1>t, OpsLength DEF TypeOK, Retryable, IsLatest
      <3> QED
        BY <3>1 DEF Operation
    <2>3. ResumePhase(i) \in OperationPhase
      <3>1. CASE ops[i].type = "DELETE"
        <4>1. del[e] # NoProgress
          BY <2>1, <3>1 DEF Retryable
        <4>2. del[e].phase \in DeletionPhase
          BY <4>1, <2>2 DEF TypeInv, PhasesRecorded
        <4> QED
          BY <4>2, <3>1, <2>2 DEF ResumePhase, OperationPhase
      <3>2. CASE ops[i].type # "DELETE"
        BY <3>2, <2>2 DEF ResumePhase
      <3> QED
        BY <3>1, <3>2
    <2> DEFINE row == QueuedOperation(ops[i].type, e, ops[i].target, ops[i].rev, ResumePhase(i))
               v == InProgressState(ops[i].type)
    <2>4. row \in Operation /\ row.type = ops[i].type /\ row.doc = e
      BY <2>2, <2>3, QueuedType DEF QueuedOperation
    <2>5. v \in DocumentState /\ (v \in {"DELETING", "DELETE_FAILED"} => ops[i].type = "DELETE")
      BY <2>2, <1>h DEF InProgressState
    <2>6. ops[i].type = "DELETE" => doc[e].disposition \in Disposition
      BY <2>2 DEF TypeInv, DispositionsRecorded
    <2>7. ASSUME NEW x \in Documents
          PROVE  /\ doc'[x] \in DocumentRow /\ doc'[x].disposition = doc[x].disposition
                 /\ doc'[x].state \in {"DELETING", "DELETE_FAILED"} =>
                      doc[x].disposition \in Disposition
      <3> HIDE DEF e, v
      <3>1. doc[x].state \in {"DELETING", "DELETE_FAILED"} => doc[x].disposition \in Disposition
        BY DEF TypeInv, DispositionsRecorded
      <3>2. CASE x = e
        <4>1. doc'[x] = Cleared(doc[x], v)
          BY <2>1, <3>2 DEF v
        <4> QED
          BY <4>1, <3>2, <2>5, <2>6, <1>t, RowTypes
      <3>3. CASE x # e /\ x = ops[i].target /\ doc[x].state = "DELETE_FAILED"
        <4>1. doc'[x] = Cleared(doc[x], "DELETING")
          BY <2>1, <3>3
        <4> QED
          BY <4>1, <3>1, <3>3, <1>h, <1>t, RowTypes
      <3>4. CASE x # e /\ ~(x = ops[i].target /\ doc[x].state = "DELETE_FAILED")
        <4>1. doc'[x] = doc[x]
          BY <2>1, <3>4
        <4> QED
          BY <4>1, <3>1, <1>t
      <3> QED
        BY <3>2, <3>3, <3>4
    <2>8. /\ doc' \in [Documents -> DocumentRow] /\ DispositionKept
          /\ \A x \in Documents : doc'[x].state \in {"DELETING", "DELETE_FAILED"} =>
                doc'[x].disposition \in Disposition
      <3>1. \E f : doc' = [x \in Documents |-> f[x]]
        <4>1. doc' = [x \in Documents |-> doc'[x]]
          BY <2>1
        <4> QED
          BY <4>1
      <3> QED
        BY <2>7, <3>1 DEF DispositionKept
    <2>9. row.type = "DELETE" => doc'[row.doc].disposition \in Disposition
      BY <2>2, <2>4, <2>6, <2>7
    <2>10. pub' \in [Documents -> Publication]
      <3> DEFINE p == [pub[e] EXCEPT !.status = "PENDING"]
      <3>1. p \in Publication
        <4>1. pub[e] \in Publication
          BY <1>t, <2>2 DEF TypeOK
        <4> HIDE DEF e
        <4> QED
          BY <4>1 DEF Publication
      <3>2. pub' = pub \/ pub' = [pub EXCEPT ![e] = p]
        BY <2>1
      <3> HIDE DEF p, e
      <3> QED
        BY <3>1, <3>2, <2>2, <1>t DEF TypeOK
    <2>11. /\ Request /\ UNCHANGED <<prepVars, index, slot>> /\ UNCHANGED del
           /\ files' \in [Documents -> SUBSET {"source", "artifact"}]
      BY <1>6, <1>t DEF Retry, TypeOK
    <2>12. Enqueue(row)
      BY <2>1
    <2> HIDE DEF row
    <2> QED
      BY <2>4, <2>8, <2>9, <2>10, <2>11, <2>12, ProgressUnchanged, RequestFrame
  <1> QED
    BY <1>1, <1>2, <1>3, <1>4, <1>5, <1>6 DEF Api

-----------------------------------------------------------------------------
(* Type correctness. *)

\* An empty catalog satisfies the type invariant.
LEMMA TypeInvInit == Init => TypeInv
  <1> SUFFICES ASSUME Init PROVE TypeInv
    OBVIOUS
  <1>1. Absent \in DocumentRow /\ NoPublication \in Publication /\ NoProgress \in Progress
    BY DEF Absent, DocumentRow, NoPublication, Publication, NoProgress, Progress
  <1>2. << >> \in Seq(RevisionStatus) /\ << >> \in Seq(Operation)
    OBVIOUS
  <1>3. TypeOK
    BY <1>1, <1>2, IdleType DEF Init, TypeOK, RevisionStatus
  <1>4. SlotsBound /\ PhasesRecorded
    BY DEF Init, SlotsBound, PhasesRecorded
  <1>5. DispositionsRecorded
    BY DEF Init, DispositionsRecorded, Absent
  <1> QED
    BY <1>3, <1>4, <1>5 DEF TypeInv

\* Every step of a slot preserves the type invariant.
LEMMA WorkTypes ==
    ASSUME TypeInv, NEW s \in Slots, Work(s) \/ Trouble(s)
    PROVE  TypeInv' /\ SlotStep(s) /\ HistoryKept
  <1>1. CASE Preflight(s)
    BY <1>1, PreflightQuiet, CompletionTypes DEF Preflight, Quiet, QueueQuiet
  <1>2. CASE Publish(s)
    BY <1>2, PublishQuiet, CompletionTypes DEF Publish, Quiet, QueueQuiet
  <1>3. CASE Deletion(s)
    BY <1>3, DeletionQuiet, CompletionTypes DEF Deletion, Quiet, QueueQuiet
  <1>4. CASE FailOperation(s)
    BY <1>4, FailureTypes
  <1>5. CASE Trouble(s)
    BY <1>5, PreflightQuiet, TroubleQuiet DEF Trouble, Quiet, QueueQuiet
  <1> QED
    BY <1>1, <1>2, <1>3, <1>4, <1>5 DEF Work

\* A step keeps the types and the history of the queue; the operation of a slot
\* changes only by a claim.
LEMMA TypeInvStep ==
    ASSUME TypeInv, [Next]_vars
    PROVE  /\ TypeInv' /\ HistoryKept
           /\ \/ \E s \in Slots : SlotStep(s) \/ Claim(s)
              \/ slot' = slot
              \/ Crash
  <1>1. CASE Api
    BY <1>1, ApiTypes DEF Api, Upload, Keep, Replace, Cancel, Delete, Retry
  <1>2. CASE Lease
    BY <1>2, LeaseTypes DEF Lease, RecoverLease, LapseLease
  <1>3. ASSUME NEW s \in Slots, Claim(s)
        PROVE  TypeInv' /\ HistoryKept
    BY <1>3, LeaseTypes
  <1>4. ASSUME NEW s \in Slots, Work(s) \/ Trouble(s)
        PROVE  TypeInv' /\ HistoryKept /\ SlotStep(s)
    BY <1>4, WorkTypes
  <1>5. CASE UNCHANGED vars
    BY <1>5 DEF vars, prepVars, index, bounds, TypeInv, TypeOK, SlotsBound, PhasesRecorded,
                DispositionsRecorded, HistoryKept
  <1> QED
    BY <1>1, <1>2, <1>3, <1>4, <1>5 DEF Next

\* Every reachable state is typed, for any set of documents, chunks and slots
\* and any bounds; in particular a terminal state is always a disposition that
\* was recorded when the deletion began (commit_tombstone, begin_deletion).
THEOREM TypeCorrect == Spec => []TypeOK
  <1>1. TypeInv => TypeOK
    BY DEF TypeInv
  <1>2. TypeInv /\ [Next]_vars => TypeInv'
    BY TypeInvStep
  <1> QED
    BY TypeInvInit, <1>1, <1>2, PTL DEF Spec

-----------------------------------------------------------------------------
(* Mutual exclusion. *)

\* States from which a document never returns to use.
Dying == {"DELETING", "DELETE_FAILED"} \cup Disposition

\* The target of a publication was replaced by the document it publishes.
TargetsReplaced ==
    \A i \in DOMAIN ops : ops[i].target # None =>
        /\ ops[i].type = "PUBLISH" /\ ops[i].target # ops[i].doc
        /\ doc[ops[i].target].replacedBy = ops[i].doc

\* A replaced document is dying, by the replacement alone.
ReplacedDying ==
    \A d \in Documents : doc[d].replacedBy # None =>
        /\ doc[d].state \in Dying
        /\ \A i \in DOMAIN ops : ops[i].doc = d => ops[i].type # "DELETE"

\* So is a document with a deletion of its own.
DeletedDying ==
    \A i \in DOMAIN ops : ops[i].type = "DELETE" => doc[ops[i].doc].state \in Dying

Ownership ==
    /\ OneOpenOperation /\ WorkIsOwned
    /\ TargetsReplaced /\ ReplacedDying /\ DeletedDying

-----------------------------------------------------------------------------
(* Two slots never share a document. *)

\* What operation i locks is fixed when it is created.
LEMMA LocksFixed ==
    ASSUME HistoryKept, NEW i \in DOMAIN ops
    PROVE  Locked(ops'[i]) = Locked(ops[i])
  BY DEF HistoryKept, Locked

\* Operation numbers start at 1, so 0 marks a slot without one.
LEMMA SlotHolds ==
    ASSUME TypeInv, NEW s \in Slots, slot[s].op # 0
    PROVE  slot[s].op \in DOMAIN ops
  BY DEF TypeInv, SlotsBound, Idle

\* Idle slots are disjoint.
LEMMA SlotsDisjointInit == Init => SlotsDisjoint
  BY DEF Init, SlotsDisjoint, Idle

\* Only _claim_next gives a slot an operation, and it avoids the busy documents.
LEMMA SlotsDisjointStep ==
    ASSUME TypeInv, SlotsDisjoint, [Next]_vars
    PROVE  SlotsDisjoint'
  <1>h. TypeInv' /\ HistoryKept
    BY TypeInvStep
  <1>t. slot \in [Slots -> Slot] /\ slot' \in [Slots -> Slot]
    BY <1>h DEF TypeInv, TypeOK
  \* Slots that keep or drop their operation stay disjoint.
  <1>1. ASSUME \A s \in Slots : slot'[s].op = 0 \/ slot'[s].op = slot[s].op
        PROVE  SlotsDisjoint'
    <2> SUFFICES ASSUME NEW s \in Slots, NEW t \in Slots, s # t,
                        slot'[s].op # 0, slot'[t].op # 0
                 PROVE  Locked(ops'[slot'[s].op]) \cap Locked(ops'[slot'[t].op]) = {}
      BY DEF SlotsDisjoint, Op
    <2>1. slot'[s].op = slot[s].op /\ slot'[t].op = slot[t].op
      BY <1>1
    <2>2. slot[s].op \in DOMAIN ops /\ slot[t].op \in DOMAIN ops
      BY <2>1, SlotHolds
    <2>3. Locked(ops[slot[s].op]) \cap Locked(ops[slot[t].op]) = {}
      BY <2>1 DEF SlotsDisjoint, Op
    <2> QED
      BY <2>1, <2>2, <2>3, <1>h, LocksFixed
  <1>2. ASSUME NEW s \in Slots, SlotStep(s)
        PROVE  SlotsDisjoint'
    <2>1. PICK v \in Slot : slot' = [slot EXCEPT ![s] = v] /\ (v = Idle \/ v.op = slot[s].op)
      BY <1>2 DEF SlotStep
    <2>2. v.op = 0 \/ v.op = slot[s].op
      BY <2>1 DEF Idle
    <2> QED
      BY <2>1, <2>2, <1>1, <1>t
  \* A claim takes an operation that locks nothing a slot works on.
  <1>3. ASSUME NEW s \in Slots, Claim(s)
        PROVE  SlotsDisjoint'
    <2>1. PICK i \in DOMAIN ops :
            /\ Claimable(i)
            /\ slot' = [slot EXCEPT ![s] = [Idle EXCEPT
                    !.op = i,
                    !.pc = IF ops[i].type = "PREFLIGHT" THEN "source" ELSE "snapshot"]]
      BY <1>3 DEF Claim
    <2>2. slot'[s].op = i /\ \A t \in Slots \ {s} : slot'[t] = slot[t]
      BY <2>1, <1>t DEF Idle
    <2>3. ASSUME NEW t \in Slots \ {s}, slot[t].op # 0
          PROVE  Locked(ops'[slot[t].op]) \cap Locked(ops'[i]) = {}
      <3>1. slot[t].op \in DOMAIN ops
        BY <2>3, SlotHolds
      <3>2. Locked(ops[slot[t].op]) \subseteq Busy
        BY <2>3 DEF Busy, Op
      <3>3. Locked(ops[i]) \cap Busy = {}
        BY <2>1 DEF Claimable
      <3> QED
        BY <3>1, <3>2, <3>3, <2>1, <1>h, LocksFixed
    <2> SUFFICES ASSUME NEW x \in Slots, NEW y \in Slots, x # y,
                        slot'[x].op # 0, slot'[y].op # 0
                 PROVE  Locked(ops'[slot'[x].op]) \cap Locked(ops'[slot'[y].op]) = {}
      BY DEF SlotsDisjoint, Op
    <2>4. CASE x = s
      BY <2>2, <2>3, <2>4
    <2>5. CASE y = s
      BY <2>2, <2>3, <2>5
    <2>6. CASE x # s /\ y # s
      <3>1. slot'[x] = slot[x] /\ slot'[y] = slot[y]
        BY <2>2, <2>6
      <3>2. slot[x].op \in DOMAIN ops /\ slot[y].op \in DOMAIN ops
        BY <3>1, SlotHolds
      <3>3. Locked(ops[slot[x].op]) \cap Locked(ops[slot[y].op]) = {}
        BY <3>1 DEF SlotsDisjoint, Op
      <3> QED
        BY <3>1, <3>2, <3>3, <1>h, LocksFixed
    <2> QED
      BY <2>4, <2>5, <2>6
  <1>4. CASE slot' = slot
    BY <1>4, <1>1
  <1>5. CASE Crash
    <2>1. \A s \in Slots : slot'[s].op = 0
      BY <1>5 DEF Crash, Idle
    <2> QED
      BY <2>1, <1>1
  <1> QED
    BY <1>2, <1>3, <1>4, <1>5, TypeInvStep

\* Two execution slots never work on the same document, as owner or as the old
\* document of a replacement, for any number of slots: _claim_next honours
\* _busy_documents even for an operation whose lease lapsed under its thread.
THEOREM SlotsExclusive == Spec => []SlotsDisjoint
  <1>1. TypeInv /\ SlotsDisjoint /\ [Next]_vars => TypeInv' /\ SlotsDisjoint'
    BY SlotsDisjointStep, TypeInvStep
  <1> QED
    BY TypeInvInit, SlotsDisjointInit, <1>1, PTL DEF Spec

-----------------------------------------------------------------------------
(* Every document has at most one open operation, and one while in progress. *)

NewOps == DOMAIN ops' \ DOMAIN ops

\* The columns of an operation row, before a step.
LEMMA OpsTyped ==
    ASSUME TypeInv, NEW i \in DOMAIN ops
    PROVE  /\ ops[i] \in Operation /\ ops[i].doc \in Documents
           /\ ops[i].target \in Documents \cup {None}
           /\ ops[i].type \in OperationType
  BY OpsLength DEF TypeInv, TypeOK, Operation

\* The columns of an operation row, after a step.
LEMMA OpsTypedNext ==
    ASSUME TypeInv', NEW i \in DOMAIN ops'
    PROVE  /\ ops'[i].doc \in Documents /\ ops'[i].target \in Documents \cup {None}
           /\ ops'[i].type \in OperationType
  <1>1. ops' \in Seq(Operation)
    BY DEF TypeInv, TypeOK
  <1>2. ops'[i] \in Operation
    BY <1>1, ElementOfSeq, LenProperties
  <1> QED
    BY <1>2 DEF Operation

\* In-progress states by the type of the operation that works on them.
LEMMA StateOfType ==
    ASSUME NEW type \in OperationType
    PROVE  /\ InProgressState(type) \in InProgress
           /\ InProgressState(type) \in Dying <=> type = "DELETE"
           /\ InProgressState(type) = "DELETING" <=> type = "DELETE"
           /\ InProgressState(type) = "PUBLISHING" <=> type = "PUBLISH"
           /\ InProgressState(type) = "PREFLIGHTING" <=> type = "PREFLIGHT"
  BY DEF InProgressState, InProgress, Dying, Disposition, OperationType

\* The replacement and deletion history survives a step under which dying
\* documents stay dying.
LEMMA StructureKept ==
    ASSUME TypeInv, TypeInv', TargetsReplaced, ReplacedDying, DeletedDying, HistoryKept,
           \A d \in Documents : doc[d].state \in Dying => doc'[d].state \in Dying,
           \A d \in Documents :
              \/ doc'[d].replacedBy = doc[d].replacedBy
              \/ /\ doc[d].replacedBy = None /\ doc[d].state \notin Dying
                 /\ doc'[d].state \in Dying
                 /\ \A i \in NewOps : ops'[i].type # "DELETE",
           \A i \in NewOps :
              /\ ops'[i].type = "DELETE" =>
                    /\ doc'[ops'[i].doc].state \in Dying
                    /\ doc[ops'[i].doc].replacedBy = None
              /\ ops'[i].target # None =>
                    /\ ops'[i].type = "PUBLISH" /\ ops'[i].target # ops'[i].doc
                    /\ doc'[ops'[i].target].replacedBy = ops'[i].doc
    PROVE  TargetsReplaced' /\ ReplacedDying' /\ DeletedDying'
  <1>1. TargetsReplaced'
    <2> SUFFICES ASSUME NEW i \in DOMAIN ops', ops'[i].target # None
                 PROVE  /\ ops'[i].type = "PUBLISH" /\ ops'[i].target # ops'[i].doc
                        /\ doc'[ops'[i].target].replacedBy = ops'[i].doc
      BY DEF TargetsReplaced
    <2>1. CASE i \in DOMAIN ops
      <3>1. /\ ops[i].type = "PUBLISH" /\ ops[i].target # ops[i].doc
            /\ doc[ops[i].target].replacedBy = ops[i].doc
            /\ ops'[i].type = ops[i].type /\ ops'[i].doc = ops[i].doc
            /\ ops'[i].target = ops[i].target
        BY <2>1 DEF TargetsReplaced, HistoryKept
      <3>2. ops[i].target \in Documents /\ ops[i].doc # None
        BY <2>1, <3>1, OpsTyped, NoneAssumption
      <3>3. doc'[ops[i].target].replacedBy = doc[ops[i].target].replacedBy
        BY <3>1, <3>2
      <3> QED
        BY <3>1, <3>3
    <2>2. CASE i \notin DOMAIN ops
      BY <2>2 DEF NewOps
    <2> QED
      BY <2>1, <2>2
  <1>2. ReplacedDying'
    <2> SUFFICES ASSUME NEW d \in Documents, doc'[d].replacedBy # None
                 PROVE  /\ doc'[d].state \in Dying
                        /\ \A i \in DOMAIN ops' : ops'[i].doc = d => ops'[i].type # "DELETE"
      BY DEF ReplacedDying
    <2>1. CASE doc'[d].replacedBy = doc[d].replacedBy
      <3>1. /\ doc[d].state \in Dying
            /\ \A i \in DOMAIN ops : ops[i].doc = d => ops[i].type # "DELETE"
        BY <2>1 DEF ReplacedDying
      <3>2. ASSUME NEW i \in DOMAIN ops', ops'[i].doc = d, ops'[i].type = "DELETE"
            PROVE  FALSE
        <4>1. CASE i \in DOMAIN ops
          BY <3>1, <3>2, <4>1 DEF HistoryKept
        <4>2. CASE i \notin DOMAIN ops
          BY <2>1, <3>2, <4>2 DEF NewOps
        <4> QED
          BY <4>1, <4>2
      <3> QED
        BY <3>1, <3>2
    <2>2. CASE doc'[d].replacedBy # doc[d].replacedBy
      <3>1. /\ doc[d].state \notin Dying /\ doc'[d].state \in Dying
            /\ \A i \in NewOps : ops'[i].type # "DELETE"
        BY <2>2
      <3>2. ASSUME NEW i \in DOMAIN ops', ops'[i].doc = d, ops'[i].type = "DELETE"
            PROVE  FALSE
        <4>1. i \in DOMAIN ops
          BY <3>1, <3>2 DEF NewOps
        <4>2. ops[i].doc = d /\ ops[i].type = "DELETE"
          BY <3>2, <4>1 DEF HistoryKept
        <4> QED
          BY <3>1, <4>1, <4>2 DEF DeletedDying
      <3> QED
        BY <3>1, <3>2
    <2> QED
      BY <2>1, <2>2
  <1>3. DeletedDying'
    <2> SUFFICES ASSUME NEW i \in DOMAIN ops', ops'[i].type = "DELETE"
                 PROVE  doc'[ops'[i].doc].state \in Dying
      BY DEF DeletedDying
    <2>1. CASE i \in DOMAIN ops
      <3>1. ops[i].type = "DELETE" /\ ops'[i].doc = ops[i].doc /\ ops[i].doc \in Documents
        BY <2>1, OpsTyped DEF HistoryKept
      <3> QED
        BY <2>1, <3>1 DEF DeletedDying
    <2>2. CASE i \notin DOMAIN ops
      BY <2>2 DEF NewOps
    <2> QED
      BY <2>1, <2>2
  <1> QED
    BY <1>1, <1>2, <1>3

\* Exclusion survives a step that moves the documents of L only, closes every
\* open operation on them and opens at most one new operation n.
LEMMA ExclusionKept ==
    ASSUME TypeInv, TypeInv', OneOpenOperation, WorkIsOwned, HistoryKept,
           NEW L \in SUBSET Documents, NEW n, DOMAIN ops' \subseteq DOMAIN ops \cup {n},
           \A i \in DOMAIN ops : ops'[i].state \in OpenState <=>
              ops[i].state \in OpenState /\ Locked(ops[i]) \cap L = {},
           \A i \in DOMAIN ops : ops[i].state \in OpenState =>
              Locked(ops[i]) \subseteq L \/ Locked(ops[i]) \cap L = {},
           \A i \in NewOps : /\ Locked(ops'[i]) \subseteq L
                             /\ doc'[ops'[i].doc].state = InProgressState(ops'[i].type),
           \A d \in Documents \ L : doc'[d].state = doc[d].state,
           \A d \in L : doc'[d].state \in InProgress =>
              \E i \in NewOps :
                /\ ops'[i].state \in OpenState
                /\ \/ ops'[i].doc = d
                   \/ ops'[i].target = d /\ doc'[d].state = "DELETING"
    PROVE  OneOpenOperation' /\ WorkIsOwned'
  <1>1. OneOpenOperation'
    <2> SUFFICES ASSUME NEW i \in DOMAIN ops', NEW j \in DOMAIN ops', i # j,
                        ops'[i].state \in OpenState, ops'[j].state \in OpenState
                 PROVE  Locked(ops'[i]) \cap Locked(ops'[j]) = {}
      BY DEF OneOpenOperation
    <2>1. CASE i \in DOMAIN ops /\ j \in DOMAIN ops
      <3>1. Locked(ops[i]) \cap Locked(ops[j]) = {}
        BY <2>1 DEF OneOpenOperation
      <3> QED
        BY <2>1, <3>1, LocksFixed
    <2>2. CASE i \in DOMAIN ops /\ j \notin DOMAIN ops
      <3>1. Locked(ops[i]) \cap L = {} /\ Locked(ops'[j]) \subseteq L
        BY <2>2 DEF NewOps
      <3> QED
        BY <2>2, <3>1, LocksFixed
    <2>3. CASE j \in DOMAIN ops /\ i \notin DOMAIN ops
      <3>1. Locked(ops[j]) \cap L = {} /\ Locked(ops'[i]) \subseteq L
        BY <2>3 DEF NewOps
      <3> QED
        BY <2>3, <3>1, LocksFixed
    <2>4. CASE i \notin DOMAIN ops /\ j \notin DOMAIN ops
      BY <2>4
    <2> QED
      BY <2>1, <2>2, <2>3, <2>4
  <1>2. ASSUME NEW d \in Documents, doc'[d].state \in InProgress
        PROVE  \E i \in DOMAIN ops' :
                 /\ ops'[i].state \in OpenState
                 /\ \/ ops'[i].doc = d /\ InProgressState(ops'[i].type) = doc'[d].state
                    \/ ops'[i].target = d /\ doc'[d].state = "DELETING"
    <2>1. CASE d \in L
      <3>1. PICK i \in NewOps :
              /\ ops'[i].state \in OpenState
              /\ \/ ops'[i].doc = d
                 \/ ops'[i].target = d /\ doc'[d].state = "DELETING"
        BY <1>2, <2>1
      <3>2. doc'[ops'[i].doc].state = InProgressState(ops'[i].type)
        OBVIOUS
      <3> QED
        BY <3>1, <3>2 DEF NewOps
    <2>2. CASE d \notin L
      <3>1. doc'[d].state = doc[d].state
        BY <2>2
      <3>2. PICK i \in DOMAIN ops :
              /\ ops[i].state \in OpenState
              /\ \/ ops[i].doc = d /\ InProgressState(ops[i].type) = doc[d].state
                 \/ ops[i].target = d /\ doc[d].state = "DELETING"
        BY <1>2, <3>1 DEF WorkIsOwned
      <3>3. d \in Locked(ops[i])
        BY <3>2, NoneAssumption DEF Locked
      <3>4. ops'[i].state \in OpenState
        <4>1. CASE Locked(ops[i]) \cap L = {}
          BY <4>1, <3>2
        <4>2. CASE Locked(ops[i]) \cap L # {}
          BY <4>2, <3>2, <3>3, <2>2
        <4> QED
          BY <4>1, <4>2
      <3> QED
        BY <3>1, <3>2, <3>4 DEF HistoryKept
    <2> QED
      BY <2>1, <2>2
  <1>3. ASSUME NEW i \in DOMAIN ops', ops'[i].state \in OpenState
        PROVE  doc'[ops'[i].doc].state = InProgressState(ops'[i].type)
    <2>1. CASE i \in DOMAIN ops
      <3>1. /\ ops'[i].doc = ops[i].doc /\ ops'[i].type = ops[i].type
            /\ ops[i].doc \in Documents
        BY <2>1, OpsTyped DEF HistoryKept
      <3>2. ops[i].state \in OpenState /\ Locked(ops[i]) \cap L = {}
        BY <1>3, <2>1
      <3>3. ops[i].doc \notin L
        BY <3>1, <3>2, NoneAssumption DEF Locked
      <3>4. doc[ops[i].doc].state = InProgressState(ops[i].type)
        BY <2>1, <3>2 DEF WorkIsOwned
      <3> QED
        BY <3>1, <3>3, <3>4
    <2>2. CASE i \notin DOMAIN ops
      BY <2>2 DEF NewOps
    <2> QED
      BY <2>1, <2>2
  <1> QED
    BY <1>1, <1>2, <1>3 DEF WorkIsOwned

\* Steps that move no document and open or close no operation.
LEMMA OwnershipFrame ==
    ASSUME TypeInv, TypeInv', Ownership, HistoryKept, DOMAIN ops' = DOMAIN ops,
           \A i \in DOMAIN ops : ops'[i].state \in OpenState <=> ops[i].state \in OpenState,
           \A d \in Documents : /\ doc'[d].state = doc[d].state
                                /\ doc'[d].replacedBy = doc[d].replacedBy
    PROVE  Ownership'
  <1>1. NewOps = {}
    BY DEF NewOps
  <1>2. TargetsReplaced' /\ ReplacedDying' /\ DeletedDying'
    BY <1>1, StructureKept DEF Ownership
  <1>3. OneOpenOperation' /\ WorkIsOwned'
    <2>1. /\ \A i \in DOMAIN ops : ops'[i].state \in OpenState <=>
                ops[i].state \in OpenState /\ Locked(ops[i]) \cap {} = {}
          /\ \A i \in DOMAIN ops : ops[i].state \in OpenState =>
                Locked(ops[i]) \subseteq {} \/ Locked(ops[i]) \cap {} = {}
          /\ \A d \in Documents \ {} : doc'[d].state = doc[d].state
          /\ DOMAIN ops' \subseteq DOMAIN ops \cup {0}
          /\ {} \in SUBSET Documents
      OBVIOUS
    <2> QED
      BY <1>1, <2>1, ExclusionKept DEF Ownership
  <1> QED
    BY <1>2, <1>3 DEF Ownership

\* No open operation touches a document that is neither in progress nor dying.
LEMMA FreeDocument ==
    ASSUME TypeInv, Ownership, NEW d \in Documents,
           doc[d].state \notin InProgress, doc[d].state \notin Dying,
           NEW i \in DOMAIN ops, ops[i].state \in OpenState
    PROVE  d \notin Locked(ops[i])
  <1>1. ops[i].doc \in Documents /\ ops[i].type \in OperationType
    BY OpsTyped
  <1>2. ops[i].doc # d
    <2>1. doc[ops[i].doc].state = InProgressState(ops[i].type)
      BY DEF Ownership, WorkIsOwned
    <2> QED
      BY <2>1, <1>1, StateOfType
  <1>3. ops[i].target # d
    <2> SUFFICES ASSUME ops[i].target = d PROVE FALSE
      OBVIOUS
    <2>1. doc[d].replacedBy = ops[i].doc
      BY NoneAssumption DEF Ownership, TargetsReplaced
    <2> QED
      BY <2>1, <1>1, NoneAssumption DEF Ownership, ReplacedDying
  <1> QED
    BY <1>2, <1>3 DEF Locked

\* A request that opens one operation on documents no open operation touches.
LEMMA OwnershipOpened ==
    ASSUME TypeInv, TypeInv', Ownership, NEW row \in Operation, row.state = "QUEUED",
           Enqueue(row),
           \A i \in DOMAIN ops : ops[i].state \in OpenState =>
                Locked(ops[i]) \cap Locked(row) = {},
           doc'[row.doc].state = InProgressState(row.type),
           row.target # None => doc'[row.target].state \in Dying,
           \A d \in Documents \ Locked(row) : doc'[d].state = doc[d].state,
           \A d \in Documents : doc[d].state \in Dying => doc'[d].state \in Dying,
           \A d \in Documents :
              \/ doc'[d].replacedBy = doc[d].replacedBy
              \/ /\ doc[d].replacedBy = None /\ doc[d].state \notin Dying
                 /\ doc'[d].state \in Dying /\ row.type # "DELETE",
           row.type = "DELETE" => doc[row.doc].replacedBy = None,
           row.target # None =>
              /\ row.type = "PUBLISH" /\ row.target # row.doc
              /\ doc'[row.target].replacedBy = row.doc
    PROVE  Ownership'
  <1> DEFINE n == Len(ops) + 1
             L == Locked(row)
  <1>0. /\ row.doc \in Documents /\ row.target \in Documents \cup {None}
        /\ row.type \in OperationType
    BY DEF Operation
  <1>1. /\ HistoryKept /\ DOMAIN ops' = DOMAIN ops \cup {n} /\ ops'[n] = row
        /\ \A i \in DOMAIN ops : ops'[i] = ops[i]
    BY Enqueued DEF TypeInv, TypeOK
  <1>2. n \notin DOMAIN ops
    BY OpsLength DEF TypeInv, TypeOK
  <1>3. NewOps = {n}
    BY <1>1, <1>2 DEF NewOps
  <1>4. InProgressState(row.type) \in InProgress /\
        (row.type = "DELETE" => InProgressState(row.type) \in Dying)
    BY <1>0, StateOfType
  <1>5. TargetsReplaced' /\ ReplacedDying' /\ DeletedDying'
    <2> HIDE DEF n
    <2> QED
      BY <1>0, <1>1, <1>3, <1>4, StructureKept DEF Ownership
  <1>6. OneOpenOperation' /\ WorkIsOwned'
    <2>1. L \in SUBSET Documents /\ row.state \in OpenState
      BY <1>0 DEF Locked, OpenState
    <2>2. \A i \in DOMAIN ops : ops'[i].state \in OpenState <=>
             ops[i].state \in OpenState /\ Locked(ops[i]) \cap L = {}
      BY <1>1
    <2>3. \A d \in L : doc'[d].state \in InProgress =>
             row.doc = d \/ (row.target = d /\ doc'[d].state = "DELETING")
      BY DEF Locked, InProgress, Dying, Disposition
    <2>4. \A d \in L : doc'[d].state \in InProgress =>
             \E i \in NewOps :
                /\ ops'[i].state \in OpenState
                /\ \/ ops'[i].doc = d
                   \/ ops'[i].target = d /\ doc'[d].state = "DELETING"
      BY <1>1, <1>3, <2>1, <2>3
    <2>5. \A i \in NewOps : /\ Locked(ops'[i]) \subseteq L
                            /\ doc'[ops'[i].doc].state = InProgressState(ops'[i].type)
      BY <1>1, <1>3
    <2>6. /\ \A i \in DOMAIN ops : ops[i].state \in OpenState =>
                Locked(ops[i]) \subseteq L \/ Locked(ops[i]) \cap L = {}
          /\ \A d \in Documents \ L : doc'[d].state = doc[d].state
          /\ DOMAIN ops' \subseteq DOMAIN ops \cup {n}
      BY <1>1
    <2> HIDE DEF n, L
    <2> QED
      BY <1>1, <2>1, <2>2, <2>4, <2>5, <2>6, ExclusionKept DEF Ownership
  <1> QED
    BY <1>5, <1>6 DEF Ownership

\* A step that closes operation k and moves its documents out of progress, or
\* on to the successor operation it queues.
LEMMA OwnershipClosed ==
    ASSUME TypeInv, TypeInv', Ownership, HistoryKept, NEW k \in DOMAIN ops,
           ops[k].state \in OpenState, ops'[k].state \notin OpenState,
           \A i \in DOMAIN ops : i # k => ops'[i] = ops[i],
           NEW n, DOMAIN ops' \subseteq DOMAIN ops \cup {n},
           \A i \in NewOps :
              /\ ops'[i].state \in OpenState /\ ops'[i].doc = ops[k].doc /\ ops'[i].target = None
              /\ doc'[ops'[i].doc].state = InProgressState(ops'[i].type)
              /\ ops'[i].type = "DELETE" => doc[ops[k].doc].replacedBy = None,
           \A d \in Documents \ Locked(ops[k]) : doc'[d].state = doc[d].state,
           \A d \in Locked(ops[k]) : doc'[d].state \in InProgress =>
              NewOps # {} /\ d = ops[k].doc,
           \A d \in Documents : doc[d].state \in Dying => doc'[d].state \in Dying,
           \A d \in Documents : doc'[d].replacedBy = doc[d].replacedBy
    PROVE  Ownership'
  <1> DEFINE L == Locked(ops[k])
  <1>0. ops[k].doc \in Documents /\ ops[k].target \in Documents \cup {None}
    BY OpsTyped
  <1>1. TargetsReplaced' /\ ReplacedDying' /\ DeletedDying'
    <2>1. ASSUME NEW i \in NewOps
          PROVE  /\ ops'[i].type = "DELETE" =>
                      /\ doc'[ops'[i].doc].state \in Dying
                      /\ doc[ops'[i].doc].replacedBy = None
                 /\ ops'[i].target = None
      <3>1. ops'[i].type \in OperationType
        BY OpsTypedNext DEF NewOps
      <3> QED
        BY <3>1, StateOfType
    <2> QED
      BY <2>1, StructureKept DEF Ownership
  <1>2. OneOpenOperation' /\ WorkIsOwned'
    <2>1. L \in SUBSET Documents
      BY <1>0 DEF Locked
    <2>2. ASSUME NEW i \in DOMAIN ops, ops[i].state \in OpenState, i # k
          PROVE  Locked(ops[i]) \cap L = {}
      BY <2>2 DEF Ownership, OneOpenOperation
    <2>3. ops[k].doc \in L
      BY <1>0, NoneAssumption DEF Locked
    <2>4. \A i \in DOMAIN ops : ops'[i].state \in OpenState <=>
             ops[i].state \in OpenState /\ Locked(ops[i]) \cap L = {}
      BY <2>2, <2>3
    <2>5. \A i \in DOMAIN ops : ops[i].state \in OpenState =>
             Locked(ops[i]) \subseteq L \/ Locked(ops[i]) \cap L = {}
      BY <2>2
    <2>6. \A i \in NewOps : /\ Locked(ops'[i]) \subseteq L
                            /\ doc'[ops'[i].doc].state = InProgressState(ops'[i].type)
      BY <2>3 DEF Locked
    <2>7. \A d \in L : doc'[d].state \in InProgress =>
             \E i \in NewOps :
                /\ ops'[i].state \in OpenState
                /\ \/ ops'[i].doc = d
                   \/ ops'[i].target = d /\ doc'[d].state = "DELETING"
      OBVIOUS
    <2>8. \A d \in Documents \ L : doc'[d].state = doc[d].state
      OBVIOUS
    <2> HIDE DEF L
    <2> QED
      BY <2>1, <2>4, <2>5, <2>6, <2>7, <2>8, ExclusionKept DEF Ownership
  <1> QED
    BY <1>1, <1>2 DEF Ownership

-----------------------------------------------------------------------------
(* API mutations. *)

\* begin_deletion on a document that nothing works on preserves ownership.
LEMMA DeletionRequestOwned ==
    ASSUME TypeInv, TypeInv', Ownership, NEW d \in Documents, NEW c \in Disposition, NEW r \in Nat,
           doc[d].state \notin InProgress, doc[d].state \notin Dying, BeginDeletion(d, c, r)
    PROVE  Ownership'
  <1> DEFINE row == QueuedOperation("DELETE", d, None, r, "QUEUED")
             condemned == Condemned(doc[d], c)
  <1>1. /\ row \in Operation /\ row.doc = d /\ row.type = "DELETE" /\ row.target = None
        /\ row.state = "QUEUED"
    <2>1. "DELETE" \in OperationType /\ "QUEUED" \in OperationPhase
      BY DEF OperationType, OperationPhase
    <2> QED
      BY <2>1, QueuedType DEF QueuedOperation
  <1>2. /\ condemned.state = "DELETING" /\ condemned.replacedBy = doc[d].replacedBy
    <2>1. doc[d] \in DocumentRow
      BY DEF TypeInv, TypeOK
    <2> QED
      BY <2>1, RowTypes
  <1>3. Enqueue(row) /\ doc' = [doc EXCEPT ![d] = condemned]
    BY DEF BeginDeletion
  <1> HIDE DEF row, condemned
  <1>4. \A x \in Documents : doc'[x] = IF x = d THEN condemned ELSE doc[x]
    BY <1>3 DEF TypeInv, TypeOK
  <1>5. Locked(row) = {d}
    BY <1>1, NoneAssumption DEF Locked
  <1>6. doc[d].replacedBy = None
    BY DEF Ownership, ReplacedDying
  <1>7. InProgressState(row.type) = "DELETING" /\ "DELETING" \in Dying
    BY <1>1 DEF InProgressState, Dying
  <1>8. \A i \in DOMAIN ops : ops[i].state \in OpenState => Locked(ops[i]) \cap Locked(row) = {}
    BY <1>5, FreeDocument
  <1> QED
    BY <1>1, <1>2, <1>3, <1>4, <1>5, <1>6, <1>7, <1>8, OwnershipOpened

\* Every accepted API mutation preserves ownership.
LEMMA ApiOwned ==
    ASSUME TypeInv, TypeInv', Ownership, Api
    PROVE  Ownership'
  <1>t. doc \in [Documents -> DocumentRow]
    BY DEF TypeInv, TypeOK
  <1>h. /\ OperationType = {"PREFLIGHT", "PUBLISH", "DELETE"} /\ "QUEUED" \in OperationPhase
        /\ {"CANCELLED", "DELETED"} \subseteq Disposition /\ "DELETING" \in Dying
        /\ {"PUBLISHING", "DELETING"} \subseteq DocumentState
        /\ InProgressState("PREFLIGHT") = "PREFLIGHTING"
        /\ InProgressState("PUBLISH") = "PUBLISHING"
    BY DEF OperationType, OperationPhase, Disposition, Dying, InProgressState, DocumentState,
           InProgress
  <1>f. \A state \in {"ABSENT", "REVIEW_REQUIRED", "READY", "PUBLISH_FAILED", "PREFLIGHT_FAILED"} :
            state \notin InProgress /\ state \notin Dying
    BY DEF InProgress, Dying, Disposition
  <1>1. ASSUME NEW d \in Documents, Upload(d) PROVE Ownership'
    <2> DEFINE row == QueuedOperation("PREFLIGHT", d, None, 0, "QUEUED")
               new == [doc[d] EXCEPT !.state = "PREFLIGHTING", !.key = TRUE]
    <2>1. /\ row \in Operation /\ row.type = "PREFLIGHT" /\ row.doc = d /\ row.target = None
          /\ row.state = "QUEUED"
      BY <1>h, QueuedType DEF QueuedOperation
    <2>2. new.state = "PREFLIGHTING" /\ new.replacedBy = doc[d].replacedBy
      BY <1>t DEF DocumentRow
    <2>3. doc' = [doc EXCEPT ![d] = new] /\ Enqueue(row) /\ doc[d].state = "ABSENT"
      BY <1>1 DEF Upload
    <2> HIDE DEF row, new
    <2>4. \A x \in Documents : doc'[x] = IF x = d THEN new ELSE doc[x]
      BY <2>3, <1>t
    <2>5. Locked(row) = {d}
      BY <2>1, NoneAssumption DEF Locked
    <2>6. \A i \in DOMAIN ops : ops[i].state \in OpenState => Locked(ops[i]) \cap Locked(row) = {}
      BY <2>3, <2>5, <1>f, FreeDocument
    <2> QED
      BY <2>1, <2>2, <2>3, <2>4, <2>5, <2>6, <1>f, <1>h, OwnershipOpened
  <1>2. ASSUME NEW d \in Documents, Keep(d) PROVE Ownership'
    <2>1. PICK r \in DOMAIN revisions[d] :
            Enqueue(QueuedOperation("PUBLISH", d, None, r, "QUEUED"))
      BY <1>2 DEF Keep
    <2> DEFINE row == QueuedOperation("PUBLISH", d, None, r, "QUEUED")
               new == [doc[d] EXCEPT !.state = "PUBLISHING"]
    <2>n. r \in Nat
      BY <2>1, RevisionNumbers
    <2>2. /\ row \in Operation /\ row.type = "PUBLISH" /\ row.doc = d /\ row.target = None
          /\ row.state = "QUEUED"
      BY <2>n, <1>h, QueuedType DEF QueuedOperation
    <2>3. new.state = "PUBLISHING" /\ new.replacedBy = doc[d].replacedBy
      BY <1>t DEF DocumentRow
    <2>4. doc' = [doc EXCEPT ![d] = new] /\ Enqueue(row) /\ doc[d].state = "REVIEW_REQUIRED"
      BY <1>2, <2>1 DEF Keep
    <2> HIDE DEF row, new
    <2>5. \A x \in Documents : doc'[x] = IF x = d THEN new ELSE doc[x]
      BY <2>4, <1>t
    <2>6. Locked(row) = {d}
      BY <2>2, NoneAssumption DEF Locked
    <2>7. \A i \in DOMAIN ops : ops[i].state \in OpenState => Locked(ops[i]) \cap Locked(row) = {}
      BY <2>4, <2>6, <1>f, FreeDocument
    <2> QED
      BY <2>2, <2>3, <2>4, <2>5, <2>6, <2>7, <1>f, <1>h, OwnershipOpened
  <1>3. ASSUME NEW d \in Documents, NEW t \in Documents, Replace(d, t) PROVE Ownership'
    <2>1. PICK r \in DOMAIN revisions[d] :
            Enqueue(QueuedOperation("PUBLISH", d, t, r, "QUEUED"))
      BY <1>3 DEF Replace
    <2> DEFINE row == QueuedOperation("PUBLISH", d, t, r, "QUEUED")
               new == Cleared(doc[d], "PUBLISHING")
               old == [Condemned(doc[t], "DELETED") EXCEPT !.replacedBy = d]
    <2>n. r \in Nat
      BY <2>1, RevisionNumbers
    <2>2. /\ row \in Operation /\ row.type = "PUBLISH" /\ row.doc = d /\ row.target = t
          /\ row.state = "QUEUED"
      BY <2>n, <1>h, QueuedType DEF QueuedOperation
    <2>3. new.state = "PUBLISHING" /\ new.replacedBy = doc[d].replacedBy
      <3>1. doc[d] \in DocumentRow /\ "PUBLISHING" \in DocumentState
        BY <1>t, <1>h
      <3> QED
        BY <3>1, RowTypes
    <2>4. old.state = "DELETING" /\ old.replacedBy = d
      <3>1. /\ Condemned(doc[t], "DELETED") \in DocumentRow
            /\ Condemned(doc[t], "DELETED").state = "DELETING"
        <4>1. doc[t] \in DocumentRow /\ "DELETED" \in Disposition
          BY <1>t, <1>h
        <4> QED
          BY <4>1, RowTypes
      <3> QED
        BY <3>1 DEF DocumentRow
    <2>5. /\ doc' = [doc EXCEPT ![d] = new, ![t] = old] /\ Enqueue(row) /\ d # t
          /\ doc[d].state = "REVIEW_REQUIRED" /\ doc[t].state = "READY"
          /\ doc[t].replacedBy = None
      BY <1>3, <2>1 DEF Replace, Replaceable
    <2> HIDE DEF row, new, old
    <2>6. \A x \in Documents : doc'[x] = IF x = t THEN old ELSE IF x = d THEN new ELSE doc[x]
      BY <2>5, <1>t
    <2>7. Locked(row) = {d, t}
      BY <2>2, NoneAssumption DEF Locked
    <2>8. \A i \in DOMAIN ops : ops[i].state \in OpenState => Locked(ops[i]) \cap Locked(row) = {}
      BY <2>5, <2>7, <1>f, FreeDocument
    <2>9. /\ doc'[row.doc].state = InProgressState(row.type)
          /\ doc'[row.target].state \in Dying /\ doc'[row.target].replacedBy = row.doc
          /\ row.target # row.doc /\ row.type # "DELETE"
      <3>1. doc'[d] = new /\ doc'[t] = old
        BY <2>5, <2>6
      <3>2. new.state = InProgressState("PUBLISH") /\ old.state \in Dying
        BY <2>3, <2>4, <1>h
      <3> QED
        BY <3>1, <3>2, <2>2, <2>4, <2>5
    <2>10. \A x \in Documents \ Locked(row) : doc'[x].state = doc[x].state
      BY <2>6, <2>7
    <2>11. \A x \in Documents : doc[x].state \in Dying => doc'[x].state \in Dying
      BY <2>4, <2>5, <2>6, <1>f, <1>h
    <2>12. \A x \in Documents :
              \/ doc'[x].replacedBy = doc[x].replacedBy
              \/ /\ doc[x].replacedBy = None /\ doc[x].state \notin Dying
                 /\ doc'[x].state \in Dying /\ row.type # "DELETE"
      <3>1. doc[t].replacedBy = None /\ doc[t].state \notin Dying
        BY <2>5, <1>f
      <3>2. doc'[t].state \in Dying /\ row.type # "DELETE"
        BY <2>2, <2>9
      <3>3. \A x \in Documents \ {t} : doc'[x].replacedBy = doc[x].replacedBy
        BY <2>3, <2>6
      <3> QED
        BY <3>1, <3>2, <3>3
    <2> QED
      BY <2>2, <2>5, <2>8, <2>9, <2>10, <2>11, <2>12, OwnershipOpened
  <1>4. ASSUME NEW d \in Documents, Cancel(d) PROVE Ownership'
    BY <1>4, <1>h, <1>f, RevisionNumbers, DeletionRequestOwned DEF Cancel
  <1>5. ASSUME NEW d \in Documents, Delete(d) PROVE Ownership'
    <2>1. doc[d].state \notin InProgress /\ doc[d].state \notin Dying
      BY <1>5, <1>f DEF Delete, DeletionTarget
    <2> QED
      BY <2>1, <1>5, <1>h, RevisionNumbers, DeletionRequestOwned DEF Delete
  <1>6. ASSUME NEW d \in Documents, Retry(d) PROVE Ownership'
    <2> DEFINE e == RetryOwner(d)
    <2>1. PICK i \in DOMAIN ops :
        /\ Retryable(d, e, i)
        /\ doc' = [x \in Documents |->
                    IF x = e THEN Cleared(doc[x], InProgressState(ops[i].type))
                    ELSE IF x = ops[i].target /\ doc[x].state = "DELETE_FAILED"
                    THEN Cleared(doc[x], "DELETING")
                    ELSE doc[x]]
        /\ Enqueue(QueuedOperation(ops[i].type, e, ops[i].target, ops[i].rev, ResumePhase(i)))
      BY <1>6 DEF Retry
    <2> DEFINE t == ops[i].target
               row == QueuedOperation(ops[i].type, e, t, ops[i].rev, ResumePhase(i))
               v == InProgressState(ops[i].type)
    <2>2. /\ ops[i] \in Operation /\ ops[i].type \in OperationType
          /\ t \in Documents \cup {None} /\ ops[i].doc \in Documents
          /\ ops[i].rev \in Nat /\ ops[i].phase \in OperationPhase
      BY OpsTyped DEF Operation
    <2>3. /\ ops[i].doc = e /\ e \in Documents /\ doc[e].state \in Failed
          /\ ops[i].type = RetryType(e)
      BY <2>1, <2>2 DEF Retryable, IsLatest
    <2>4. /\ row.type = ops[i].type /\ row.doc = e /\ row.target = t /\ row.state = "QUEUED"
      BY DEF QueuedOperation
    <2>5. row \in Operation
      <3>1. ResumePhase(i) \in OperationPhase
        <4>1. CASE ops[i].type = "DELETE"
          <5>1. del[e].phase \in DeletionPhase
            BY <4>1, <2>1, <2>3 DEF Retryable, TypeInv, PhasesRecorded
          <5> QED
            BY <5>1, <4>1, <2>3 DEF ResumePhase, OperationPhase
        <4>2. CASE ops[i].type # "DELETE"
          BY <4>2, <2>2 DEF ResumePhase
        <4> QED
          BY <4>1, <4>2
      <3> QED
        BY <3>1, <2>2, <2>3, QueuedType
    <2>6. Enqueue(row)
      BY <2>1
    <2> HIDE DEF e, t, row, v
    <2>7. /\ doc[e].state \notin InProgress
          /\ doc[e].state \in Dying <=> ops[i].type = "DELETE"
      BY <2>2, <2>3 DEF Failed, InProgress, Dying, Disposition, RetryType
    <2>8. t # None => /\ t # e /\ t \in Documents /\ ops[i].type = "PUBLISH"
                      /\ doc[t].replacedBy = e
      BY <2>2, <2>3 DEF t, Ownership, TargetsReplaced
    <2>9. t # None => /\ doc[t].state \in Dying
                      /\ \A j \in DOMAIN ops : ops[j].doc = t => ops[j].type # "DELETE"
      BY <2>3, <2>8, NoneAssumption DEF Ownership, ReplacedDying
    <2>10. ops[i].type = "DELETE" => doc[e].replacedBy = None
      BY <2>3 DEF Ownership, ReplacedDying
    <2>11. ASSUME NEW j \in DOMAIN ops, ops[j].state \in OpenState
           PROVE  e \notin Locked(ops[j]) /\ (t # None => t \notin Locked(ops[j]))
      <3>1. /\ doc[ops[j].doc].state = InProgressState(ops[j].type)
            /\ ops[j].doc \in Documents /\ ops[j].type \in OperationType
            /\ InProgressState(ops[j].type) \in InProgress
        BY <2>11, OpsTyped, StateOfType DEF Ownership, WorkIsOwned
      <3>2. ops[j].doc # e
        BY <3>1, <2>7
      <3>3. ops[j].target # e
        <4>1. CASE ops[i].type = "DELETE"
          BY <4>1, <2>3, <2>10, <3>1, NoneAssumption DEF Ownership, TargetsReplaced
        <4>2. CASE ops[i].type # "DELETE"
          BY <4>2, <2>3, <2>7, <2>11, FreeDocument, NoneAssumption DEF Locked
        <4> QED
          BY <4>1, <4>2
      <3>4. t # None => ops[j].doc # t
        BY <2>9, <3>1, StateOfType
      <3>5. t # None => ops[j].target # t
        BY <2>8, <3>2 DEF Ownership, TargetsReplaced
      <3> QED
        BY <3>2, <3>3, <3>4, <3>5 DEF Locked
    <2>12. Locked(row) = {e} \cup ({t} \ {None})
      BY <2>3, <2>4, NoneAssumption DEF Locked
    <2>13. \A j \in DOMAIN ops : ops[j].state \in OpenState => Locked(ops[j]) \cap Locked(row) = {}
      BY <2>11, <2>12
    <2>14. v \in DocumentState /\ (v \in Dying <=> ops[i].type = "DELETE")
      BY <2>2, StateOfType DEF v, DocumentState
    <2>15. /\ doc'[e].state = v /\ doc'[e].replacedBy = doc[e].replacedBy
           /\ v = InProgressState(row.type)
      <3>1. doc'[e] = Cleared(doc[e], v)
        BY <2>1, <2>3 DEF v
      <3>2. doc[e] \in DocumentRow
        BY <2>3, <1>t
      <3> QED
        BY <3>1, <3>2, <2>4, <2>14, RowTypes DEF v
    <2>16. ASSUME NEW x \in Documents, x # e
           PROVE  /\ x # t => doc'[x].state = doc[x].state
                  /\ doc'[x].replacedBy = doc[x].replacedBy
                  /\ doc[x].state \in Dying => doc'[x].state \in Dying
      <3>1. CASE x = t /\ doc[x].state = "DELETE_FAILED"
        <4>1. doc'[x] = Cleared(doc[x], "DELETING")
          BY <3>1, <2>1, <2>16 DEF t
        <4>2. doc[x] \in DocumentRow /\ "DELETING" \in DocumentState
          BY <1>t, <1>h
        <4>3. /\ Cleared(doc[x], "DELETING").state = "DELETING"
              /\ Cleared(doc[x], "DELETING").replacedBy = doc[x].replacedBy
          BY <4>2, RowTypes
        <4> QED
          BY <4>1, <4>3, <3>1, <1>h
      <3>2. CASE ~(x = t /\ doc[x].state = "DELETE_FAILED")
        <4>1. doc'[x] = doc[x]
          BY <3>2, <2>1, <2>16 DEF t
        <4> QED
          BY <4>1
      <3> QED
        BY <3>1, <3>2
    <2>17. \A x \in Documents : /\ doc'[x].replacedBy = doc[x].replacedBy
                                /\ doc[x].state \in Dying => doc'[x].state \in Dying
      BY <2>7, <2>14, <2>15, <2>16
    <2>18. \A x \in Documents \ Locked(row) : doc'[x].state = doc[x].state
      BY <2>12, <2>16, NoneAssumption
    <2>19. row.target # None => /\ doc'[row.target].state \in Dying
                                /\ row.type = "PUBLISH" /\ row.target # row.doc
                                /\ doc'[row.target].replacedBy = row.doc
      BY <2>4, <2>8, <2>9, <2>17
    <2>20. row.type = "DELETE" => doc[row.doc].replacedBy = None
      BY <2>4, <2>10
    <2>21. doc'[row.doc].state = InProgressState(row.type)
      BY <2>4, <2>15
    <2> QED
      BY <2>4, <2>5, <2>6, <2>13, <2>17, <2>18, <2>19, <2>20, <2>21, OwnershipOpened
  <1> QED
    BY <1>1, <1>2, <1>3, <1>4, <1>5, <1>6 DEF Api

-----------------------------------------------------------------------------
(* Worker steps. *)

\* The operation of a slot that passed its ownership test.
LEMMA Holding ==
    ASSUME TypeInv, Ownership, NEW s \in Slots, slot[s].pc # "idle", Holds(s)
    PROVE  /\ slot[s].op \in DOMAIN ops /\ ops[slot[s].op].state \in OpenState
           /\ ops[slot[s].op] = Op(s) /\ Op(s) \in Operation /\ Doc(s) = Op(s).doc
           /\ Op(s).type \in OperationType /\ Op(s).doc \in Documents
           /\ Op(s).target \in Documents \cup {None}
           /\ doc[Op(s).doc].state = InProgressState(Op(s).type)
           /\ Op(s).target # None => Op(s).type = "PUBLISH" /\ Op(s).target # Op(s).doc
           /\ doc[Doc(s)] \in DocumentRow
  <1>1. slot[s].op \in DOMAIN ops /\ Op(s) \in Operation /\ Doc(s) \in Documents
    BY AtWork
  <1>2. ops[slot[s].op] = Op(s) /\ ops[slot[s].op].state \in OpenState /\ Doc(s) = Op(s).doc
    BY DEF Op, Holds, OpenState, Doc
  <1>3. doc[Op(s).doc].state = InProgressState(Op(s).type)
    BY <1>1, <1>2 DEF Ownership, WorkIsOwned
  <1>4. Op(s).target # None => Op(s).type = "PUBLISH" /\ Op(s).target # Op(s).doc
    BY <1>1, <1>2 DEF Ownership, TargetsReplaced
  <1>5. doc[Doc(s)] \in DocumentRow
    BY <1>1 DEF TypeInv, TypeOK
  <1> QED
    BY <1>1, <1>2, <1>3, <1>4, <1>5, OpsTyped

\* _accept_rejection hands the document from the preflight to its cleanup.
LEMMA RejectionOwned ==
    ASSUME TypeInv, TypeInv', Ownership, NEW s \in Slots, AcceptRejection(s)
    PROVE  Ownership'
  <1> DEFINE k == slot[s].op
             d == Doc(s)
             row == [Succeed(Op(s), "COMPLETE") EXCEPT !.rev = Len(revisions[d])]
             new == QueuedOperation("DELETE", d, None, Len(revisions[d]), "QUEUED")
             condemned == [Condemned(doc[d], "REJECTED") EXCEPT !.failure = "rejection"]
             n == Len(ops) + 1
  <1>0. slot[s].pc # "idle" /\ Holds(s) /\ doc[d].state = "PREFLIGHTING"
    BY DEF AcceptRejection, At
  <1>w. /\ k \in DOMAIN ops /\ ops[k].state \in OpenState /\ ops[k] = Op(s) /\ Op(s) \in Operation
        /\ Op(s).type \in OperationType /\ Op(s).doc \in Documents /\ d = Op(s).doc
        /\ doc[d].state = InProgressState(Op(s).type) /\ doc[d] \in DocumentRow
        /\ Op(s).target # None => Op(s).type = "PUBLISH"
    BY <1>0, Holding
  <1>h. /\ "DELETE" \in OperationType /\ {"QUEUED", "COMPLETE"} \subseteq OperationPhase
        /\ "REJECTED" \in Disposition /\ Len(revisions[d]) \in Nat
        /\ InProgressState("DELETE") = "DELETING" /\ "QUEUED" \in OpenState
        /\ "DELETING" \in Dying /\ "SUCCEEDED" \notin OpenState
        /\ "PREFLIGHTING" \notin Dying
    BY <1>w, RevisionNumbers
    DEF OperationType, OperationPhase, FinalPhase, Disposition, InProgressState, OpenState, Dying
  <1>1. Op(s).target = None
    BY <1>0, <1>w, StateOfType
  <1>2. /\ row \in Operation /\ row.type = Op(s).type /\ row.doc = Op(s).doc
        /\ row.target = Op(s).target /\ row.state = "SUCCEEDED"
    <2>1. /\ Succeed(Op(s), "COMPLETE") \in Operation
          /\ Succeed(Op(s), "COMPLETE").type = Op(s).type
          /\ Succeed(Op(s), "COMPLETE").doc = Op(s).doc
          /\ Succeed(Op(s), "COMPLETE").target = Op(s).target
          /\ Succeed(Op(s), "COMPLETE").state = "SUCCEEDED"
      BY <1>w, <1>h, SucceedType
    <2> QED
      BY <2>1, <1>h DEF Operation
  <1>3. /\ new \in Operation /\ new.doc = d /\ new.target = None /\ new.type = "DELETE"
        /\ new.state = "QUEUED"
    BY <1>w, <1>h, QueuedType DEF QueuedOperation
  <1>4. condemned.state = "DELETING" /\ condemned.replacedBy = doc[d].replacedBy
    <2>1. /\ Condemned(doc[d], "REJECTED") \in DocumentRow
          /\ Condemned(doc[d], "REJECTED").state = "DELETING"
          /\ Condemned(doc[d], "REJECTED").replacedBy = doc[d].replacedBy
      <3>1. doc[d] \in DocumentRow /\ "REJECTED" \in Disposition
        BY <1>w, <1>h
      <3> HIDE DEF d
      <3> QED
        BY <3>1, RowTypes
    <2> QED
      BY <2>1 DEF DocumentRow
  <1>5. /\ ops' = Append([ops EXCEPT ![k] = row], new)
        /\ doc' = [doc EXCEPT ![d] = condemned]
    BY <1>w DEF AcceptRejection
  <1> HIDE DEF row, new, condemned, d
  <1>6. \A x \in Documents : doc'[x] = IF x = d THEN condemned ELSE doc[x]
    BY <1>5 DEF TypeInv, TypeOK
  <1>7. /\ HistoryKept /\ ops'[k] = row /\ \A i \in DOMAIN ops : i # k => ops'[i] = ops[i]
        /\ DOMAIN ops' \subseteq DOMAIN ops \cup {n}
        /\ \A i \in NewOps : ops'[i] = new
    <2>1. ops' = Append([ops EXCEPT ![slot[s].op] = row], new)
      BY <1>5
    <2>2. /\ HistoryKept /\ ops'[k] = row /\ \A i \in DOMAIN ops : i # k => ops'[i] = ops[i]
          /\ \/ DOMAIN ops' = DOMAIN ops
             \/ DOMAIN ops' = DOMAIN ops \cup {n} /\ ops'[n] = new
      BY <2>1, <1>0, <1>2, <1>3, OperationSucceeded
    <2> QED
      BY <2>2 DEF NewOps
  <1>8. doc[d].replacedBy = None
    BY <1>0, <1>w, <1>h DEF Ownership, ReplacedDying
  <1>9. Locked(ops[k]) = {d}
    BY <1>w, <1>1, NoneAssumption DEF Locked
  <1>10. NewOps # {}
    BY <1>5, <1>w, <1>2, <1>3, <1>0, RowRewritten, RowAppended, OpsLength
    DEF NewOps, TypeInv, TypeOK
  <1>11. \A i \in NewOps :
              /\ ops'[i].state \in OpenState /\ ops'[i].doc = ops[k].doc /\ ops'[i].target = None
              /\ doc'[ops'[i].doc].state = InProgressState(ops'[i].type)
              /\ ops'[i].type = "DELETE" => doc[ops[k].doc].replacedBy = None
    BY <1>3, <1>4, <1>6, <1>7, <1>8, <1>h, <1>w
  <1>12. \A x \in Documents : /\ doc[x].state \in Dying => doc'[x].state \in Dying
                              /\ doc'[x].replacedBy = doc[x].replacedBy
    BY <1>4, <1>6, <1>h
  <1>13. /\ \A x \in Documents \ Locked(ops[k]) : doc'[x].state = doc[x].state
         /\ \A x \in Locked(ops[k]) : x = ops[k].doc
    BY <1>6, <1>9, <1>w
  <1>14. ops'[k].state \notin OpenState
    BY <1>2, <1>7, <1>h
  <1> QED
    BY <1>7, <1>10, <1>11, <1>12, <1>13, <1>14, <1>w, OwnershipClosed

\* _finish_preflight hands the document to its publication or to review.
LEMMA PreflightFinishOwned ==
    ASSUME TypeInv, TypeInv', Ownership, NEW s \in Slots, FinishPreflight(s)
    PROVE  Ownership'
  <1> DEFINE k == slot[s].op
             d == Doc(s)
             new == QueuedOperation("PUBLISH", d, None, slot[s].rev, "QUEUED")
             n == Len(ops) + 1
  <1>0. slot[s].pc # "idle" /\ Holds(s) /\ doc[d].state = "PREFLIGHTING"
    BY DEF FinishPreflight, At
  <1>w. /\ k \in DOMAIN ops /\ ops[k].state \in OpenState /\ ops[k] = Op(s) /\ Op(s) \in Operation
        /\ Op(s).type \in OperationType /\ Op(s).doc \in Documents /\ d = Op(s).doc
        /\ doc[d].state = InProgressState(Op(s).type) /\ doc[d] \in DocumentRow
        /\ Op(s).target # None => Op(s).type = "PUBLISH"
    BY <1>0, Holding
  <1>h. /\ "PUBLISH" \in OperationType
        /\ {"QUEUED", "COMPLETE", "AWAITING_DECISION"} \subseteq OperationPhase
        /\ slot[s].rev \in Nat /\ {"PUBLISHING", "REVIEW_REQUIRED"} \subseteq DocumentState
        /\ InProgressState("PUBLISH") = "PUBLISHING" /\ "QUEUED" \in OpenState
        /\ "SUCCEEDED" \notin OpenState /\ "REVIEW_REQUIRED" \notin InProgress
        /\ "PREFLIGHTING" \notin Dying
    BY <1>0, AtWork
    DEF Slot, OperationType, OperationPhase, FinalPhase, InProgressState, OpenState, DocumentState,
        InProgress, Dying, Disposition
  <1>1. Op(s).target = None
    BY <1>0, <1>w, StateOfType
  <1>2. ASSUME NEW p \in {"COMPLETE", "AWAITING_DECISION"}
        PROVE  /\ Succeed(Op(s), p) \in Operation /\ Succeed(Op(s), p).type = Op(s).type
               /\ Succeed(Op(s), p).doc = Op(s).doc /\ Succeed(Op(s), p).target = Op(s).target
               /\ Succeed(Op(s), p).state = "SUCCEEDED"
    BY <1>w, <1>h, SucceedType
  <1>3. /\ new \in Operation /\ new.doc = d /\ new.target = None /\ new.type = "PUBLISH"
        /\ new.state = "QUEUED"
    BY <1>w, <1>h, QueuedType DEF QueuedOperation
  <1>4. ASSUME NEW v \in {"PUBLISHING", "REVIEW_REQUIRED"}
        PROVE  Cleared(doc[d], v).state = v /\ Cleared(doc[d], v).replacedBy = doc[d].replacedBy
    <2>1. v \in DocumentState /\ doc[d] \in DocumentRow
      BY <1>h, <1>w
    <2> HIDE DEF d
    <2> QED
      BY <2>1, RowTypes
  <1>5. PICK v \in {"PUBLISHING", "REVIEW_REQUIRED"}, p \in {"COMPLETE", "AWAITING_DECISION"} :
            /\ doc' = [doc EXCEPT ![d] = Cleared(doc[d], v)]
            /\ \/ v = "REVIEW_REQUIRED" /\ ops' = [ops EXCEPT ![k] = Succeed(Op(s), p)]
               \/ v = "PUBLISHING" /\ ops' = Append([ops EXCEPT ![k] = Succeed(Op(s), p)], new)
    <2>1. \/ /\ doc' = [doc EXCEPT ![d] = Cleared(doc[d], "REVIEW_REQUIRED")]
             /\ ops' = [ops EXCEPT ![k] = Succeed(Op(s), "AWAITING_DECISION")]
          \/ /\ doc' = [doc EXCEPT ![d] = Cleared(doc[d], "PUBLISHING")]
             /\ ops' = Append([ops EXCEPT ![k] = Succeed(Op(s), "COMPLETE")], new)
      BY <1>w DEF FinishPreflight
    <2> HIDE DEF k, d, new
    <2> QED
      BY <2>1
  <1> DEFINE row == Succeed(Op(s), p)
             cleared == Cleared(doc[d], v)
  <1>6. /\ row \in Operation /\ row.type = Op(s).type /\ row.doc = Op(s).doc
        /\ row.target = Op(s).target /\ row.state = "SUCCEEDED"
    BY <1>2
  <1>7. cleared.state = v /\ cleared.replacedBy = doc[d].replacedBy
    BY <1>4
  <1> HIDE DEF row, new, cleared, d
  <1>8. \A x \in Documents : doc'[x] = IF x = d THEN cleared ELSE doc[x]
    BY <1>5 DEF TypeInv, TypeOK, cleared
  <1>9. /\ HistoryKept /\ ops'[k] = row /\ \A i \in DOMAIN ops : i # k => ops'[i] = ops[i]
        /\ DOMAIN ops' \subseteq DOMAIN ops \cup {n}
        /\ \A i \in NewOps : ops'[i] = new
    <2>1. \/ ops' = [ops EXCEPT ![slot[s].op] = row]
          \/ ops' = Append([ops EXCEPT ![slot[s].op] = row], new)
      BY <1>5 DEF row
    <2>2. /\ HistoryKept /\ ops'[k] = row /\ \A i \in DOMAIN ops : i # k => ops'[i] = ops[i]
          /\ \/ DOMAIN ops' = DOMAIN ops
             \/ DOMAIN ops' = DOMAIN ops \cup {n} /\ ops'[n] = new
      BY <2>1, <1>0, <1>6, <1>3, OperationSucceeded
    <2> QED
      BY <2>2 DEF NewOps
  <1>10. v = "PUBLISHING" <=> NewOps # {}
    <2>1. CASE v = "REVIEW_REQUIRED"
      <3>1. DOMAIN ops' = DOMAIN ops
        BY <2>1, <1>5
      <3> QED
        BY <2>1, <3>1 DEF NewOps
    <2>2. CASE v = "PUBLISHING"
      <3>1. ops' = Append([ops EXCEPT ![k] = row], new)
        BY <2>2, <1>5 DEF row
      <3> QED
        BY <3>1, <2>2, <1>w, <1>6, <1>3, RowRewritten, RowAppended, OpsLength
        DEF NewOps, TypeInv, TypeOK
    <2> QED
      BY <2>1, <2>2
  <1>11. Locked(ops[k]) = {d}
    BY <1>w, <1>1, NoneAssumption DEF Locked
  <1>12. \A i \in NewOps :
              /\ ops'[i].state \in OpenState /\ ops'[i].doc = ops[k].doc /\ ops'[i].target = None
              /\ doc'[ops'[i].doc].state = InProgressState(ops'[i].type)
              /\ ops'[i].type # "DELETE"
    BY <1>3, <1>7, <1>8, <1>9, <1>10, <1>h, <1>w
  <1>13. \A x \in Documents : /\ doc[x].state \in Dying => doc'[x].state \in Dying
                              /\ doc'[x].replacedBy = doc[x].replacedBy
    BY <1>0, <1>7, <1>8, <1>h DEF d
  <1>14. /\ \A x \in Documents \ Locked(ops[k]) : doc'[x].state = doc[x].state
         /\ \A x \in Locked(ops[k]) : doc'[x].state \in InProgress =>
                NewOps # {} /\ x = ops[k].doc
    BY <1>7, <1>8, <1>10, <1>11, <1>w, <1>h
  <1>15. ops'[k].state \notin OpenState
    BY <1>6, <1>9, <1>h
  <1> QED
    BY <1>9, <1>12, <1>13, <1>14, <1>15, <1>w, OwnershipClosed

\* An operation ends without a successor and leaves its documents at rest.
LEMMA OwnershipEnded ==
    ASSUME TypeInv, TypeInv', Ownership, NEW k \in DOMAIN ops, NEW row \in Operation,
           ops[k].state \in OpenState, row.state \notin OpenState,
           row.type = ops[k].type, row.doc = ops[k].doc, row.target = ops[k].target,
           ops' = [ops EXCEPT ![k] = row],
           \A d \in Documents \ Locked(ops[k]) : doc'[d].state = doc[d].state,
           \A d \in Locked(ops[k]) : doc'[d].state \notin InProgress,
           \A d \in Documents : doc[d].state \in Dying => doc'[d].state \in Dying,
           \A d \in Documents : doc'[d].replacedBy = doc[d].replacedBy
    PROVE  Ownership'
  <1>1. /\ DOMAIN ops' = DOMAIN ops
        /\ \A i \in DOMAIN ops : ops'[i] = IF i = k THEN row ELSE ops[i]
    BY RowRewritten DEF TypeInv, TypeOK
  <1>2. HistoryKept /\ NewOps = {} /\ DOMAIN ops' \subseteq DOMAIN ops \cup {0}
    BY <1>1 DEF HistoryKept, NewOps
  <1>3. ops'[k].state \notin OpenState /\ \A i \in DOMAIN ops : i # k => ops'[i] = ops[i]
    BY <1>1
  <1> QED
    BY <1>2, <1>3, OwnershipClosed

\* _finish_publication releases the incoming document; the old one is gone.
LEMMA PublicationFinishOwned ==
    ASSUME TypeInv, TypeInv', Ownership, NEW s \in Slots, FinishPublication(s)
    PROVE  Ownership'
  <1> DEFINE k == slot[s].op
             d == Doc(s)
             row == Succeed(Op(s), "COMPLETE")
             cleared == Cleared(doc[d], "READY")
  <1>0. slot[s].pc # "idle" /\ Holds(s)
    BY DEF FinishPublication, At
  <1>w. /\ k \in DOMAIN ops /\ ops[k].state \in OpenState /\ ops[k] = Op(s) /\ Op(s) \in Operation
        /\ Op(s).doc \in Documents /\ d = Op(s).doc /\ doc[d] \in DocumentRow
    BY <1>0, Holding
  <1>h. /\ "COMPLETE" \in OperationPhase /\ "READY" \in DocumentState
        /\ "SUCCEEDED" \notin OpenState /\ "READY" \notin InProgress
        /\ "DELETED" \notin InProgress /\ "PUBLISHING" \notin Dying
    BY DEF OperationPhase, FinalPhase, OpenState, DocumentState, InProgress, Dying, Disposition
  <1>1. CASE PublicationComplete(s)
    <2>1. /\ doc' = [doc EXCEPT ![d] = cleared] /\ ops' = [ops EXCEPT ![k] = row]
          /\ doc[d].state = "PUBLISHING"
          /\ Op(s).target # None => doc[Op(s).target].state = "DELETED"
      BY <1>1, <1>w DEF FinishPublication, PublicationComplete, Doc
    <2>2. /\ row \in Operation /\ row.type = Op(s).type /\ row.doc = Op(s).doc
          /\ row.target = Op(s).target /\ row.state = "SUCCEEDED"
      BY <1>w, <1>h, SucceedType
    <2>3. cleared.state = "READY" /\ cleared.replacedBy = doc[d].replacedBy
      <3>1. doc[d] \in DocumentRow /\ "READY" \in DocumentState
        BY <1>w, <1>h
      <3> HIDE DEF d
      <3> QED
        BY <3>1, RowTypes
    <2> HIDE DEF row, cleared, d
    <2>4. \A x \in Documents : doc'[x] = IF x = d THEN cleared ELSE doc[x]
      BY <2>1 DEF TypeInv, TypeOK
    <2>5. Locked(ops[k]) = {d, Op(s).target} \ {None}
      BY <1>w DEF Locked
    <2>t. Locked(ops[k]) \subseteq Documents
      BY <1>w, OpsTyped DEF Locked
    <2>6. \A x \in Documents \ Locked(ops[k]) : doc'[x].state = doc[x].state
      BY <2>4, <2>5, NoneAssumption
    <2>7. \A x \in Locked(ops[k]) : doc'[x].state \notin InProgress
      BY <2>1, <2>3, <2>4, <2>5, <2>t, <1>h
    <2>8. \A x \in Documents : /\ doc[x].state \in Dying => doc'[x].state \in Dying
                               /\ doc'[x].replacedBy = doc[x].replacedBy
      BY <2>1, <2>3, <2>4, <1>h
    <2> QED
      <3>1. /\ row.state \notin OpenState /\ row.type = ops[k].type
            /\ row.doc = ops[k].doc /\ row.target = ops[k].target
        BY <2>2, <1>w, <1>h
      <3> HIDE DEF k
      <3> QED
        BY <2>1, <2>2, <2>6, <2>7, <2>8, <3>1, <1>w, OwnershipEnded
  <1>2. CASE ~PublicationComplete(s)
    <2>1. doc' = doc /\ ops' = ops
      BY <1>2 DEF FinishPublication
    <2> QED
      BY <2>1, OwnershipFrame DEF HistoryKept
  <1> QED
    BY <1>1, <1>2

\* _commit_deletion releases its document, or leaves the replacement its owner.
LEMMA TombstoneOwned ==
    ASSUME TypeInv, TypeInv', Ownership, NEW s \in Slots, CommitDeletion(s)
    PROVE  Ownership'
  <1> DEFINE k == slot[s].op
             o == Op(s)
             d == Subject(s)
             tomb == Tombstoned(doc[d])
  <1>0. /\ slot[s].pc # "idle" /\ Holds(s) /\ doc[d].state \in {"DELETING", "DELETE_FAILED"}
        /\ doc' = [doc EXCEPT ![d] = tomb]
    BY DEF CommitDeletion, MayTombstone, At
  <1>w. /\ k \in DOMAIN ops /\ ops[k].state \in OpenState /\ ops[k] = o /\ o \in Operation
        /\ o.type \in OperationType /\ o.doc \in Documents /\ o.target \in Documents \cup {None}
        /\ doc[o.doc].state = InProgressState(o.type)
        /\ o.target # None => o.type = "PUBLISH" /\ o.target # o.doc
        /\ d \in Documents
    BY <1>0, Holding, AtWork
  <1>h. /\ {"COMPLETE", "COMMIT_TOMBSTONE"} \subseteq OperationPhase /\ "SUCCEEDED" \notin OpenState
        /\ Disposition \cap InProgress = {} /\ Disposition \subseteq Dying
    BY DEF OperationPhase, DeletionPhase, FinalPhase, OpenState, InProgress, Dying, Disposition
  <1>1. tomb.state \in Disposition /\ tomb.replacedBy = doc[d].replacedBy
    <2>1. doc[d] \in DocumentRow /\ doc[d].disposition \in Disposition
      BY <1>0, <1>w DEF TypeInv, TypeOK, DispositionsRecorded
    <2> HIDE DEF d
    <2> QED
      BY <2>1, RowTypes
  <1>2. d = IF o.target = None THEN o.doc ELSE o.target
    BY DEF Subject
  <1> HIDE DEF tomb, d
  <1>3. \A x \in Documents : doc'[x] = IF x = d THEN tomb ELSE doc[x]
    BY <1>0 DEF TypeInv, TypeOK
  <1>4. \A x \in Documents : /\ doc[x].state \in Dying => doc'[x].state \in Dying
                             /\ doc'[x].replacedBy = doc[x].replacedBy
    BY <1>1, <1>3, <1>h
  <1>5. CASE o.type = "DELETE"
    <2> DEFINE row == Succeed(o, "COMPLETE")
    <2>1. /\ row \in Operation /\ row.type = o.type /\ row.doc = o.doc
          /\ row.target = o.target /\ row.state = "SUCCEEDED"
      BY <1>w, <1>h, SucceedType
    <2>2. ops' = [ops EXCEPT ![k] = row]
      BY <1>5, <1>w DEF CommitDeletion
    <2> HIDE DEF row
    <2>3. Locked(ops[k]) = {d}
      BY <1>2, <1>5, <1>w, NoneAssumption DEF Locked
    <2>4. /\ \A x \in Documents \ Locked(ops[k]) : doc'[x].state = doc[x].state
          /\ \A x \in Locked(ops[k]) : doc'[x].state \notin InProgress
      BY <2>3, <1>1, <1>3, <1>h, <1>w
    <2> QED
      <3>1. /\ row.state \notin OpenState /\ row.type = ops[k].type
            /\ row.doc = ops[k].doc /\ row.target = ops[k].target
        BY <2>1, <1>w, <1>h
      <3> HIDE DEF k, o
      <3> QED
        BY <2>1, <2>2, <2>4, <3>1, <1>4, <1>w, OwnershipEnded
  <1>6. CASE o.type # "DELETE"
    <2>1. d = o.target /\ d # o.doc
      BY <1>0, <1>2, <1>6, <1>w DEF InProgressState, OperationType
    <2>2. SetPhase(s, "COMMIT_TOMBSTONE")
      BY <1>6 DEF CommitDeletion
    <2>3. /\ DOMAIN ops' = DOMAIN ops /\ HistoryKept
          /\ \A i \in DOMAIN ops : ops'[i].state = ops[i].state
      BY <2>2, <1>h, <1>w, PhaseWritten DEF TypeInv, TypeOK
    <2>4. NewOps = {}
      BY <2>3 DEF NewOps
    <2>5. TargetsReplaced' /\ ReplacedDying' /\ DeletedDying'
      BY <2>3, <2>4, <1>4, StructureKept DEF Ownership
    <2>6. OneOpenOperation'
      BY <2>3, LocksFixed DEF Ownership, OneOpenOperation
    <2>7. ASSUME NEW x \in Documents, doc'[x].state \in InProgress
          PROVE  \E i \in DOMAIN ops' :
                   /\ ops'[i].state \in OpenState
                   /\ \/ ops'[i].doc = x /\ InProgressState(ops'[i].type) = doc'[x].state
                      \/ ops'[i].target = x /\ doc'[x].state = "DELETING"
      <3>1. doc'[x] = doc[x]
        BY <2>7, <1>1, <1>3, <1>h
      <3>2. PICK i \in DOMAIN ops :
              /\ ops[i].state \in OpenState
              /\ \/ ops[i].doc = x /\ InProgressState(ops[i].type) = doc[x].state
                 \/ ops[i].target = x /\ doc[x].state = "DELETING"
        BY <2>7, <3>1 DEF Ownership, WorkIsOwned
      <3> QED
        BY <3>1, <3>2, <2>3 DEF HistoryKept
    <2>8. ASSUME NEW i \in DOMAIN ops', ops'[i].state \in OpenState
          PROVE  doc'[ops'[i].doc].state = InProgressState(ops'[i].type)
      <3>1. /\ i \in DOMAIN ops /\ ops[i].state \in OpenState /\ ops[i].doc \in Documents
            /\ ops'[i].doc = ops[i].doc /\ ops'[i].type = ops[i].type
        BY <2>3, <2>8, OpsTyped DEF HistoryKept
      <3>2. ops[i].doc # d
        <4>1. CASE i = k
          BY <4>1, <2>1, <1>w
        <4>2. CASE i # k
          <5>1. Locked(ops[i]) \cap Locked(ops[k]) = {}
            BY <4>2, <3>1, <1>w DEF Ownership, OneOpenOperation
          <5>2. d \in Locked(ops[k])
            BY <2>1, <1>w, NoneAssumption DEF Locked
          <5>3. ops[i].doc \in Locked(ops[i])
            BY <3>1, NoneAssumption DEF Locked
          <5> QED
            BY <5>1, <5>2, <5>3
        <4> QED
          BY <4>1, <4>2
      <3> QED
        BY <3>1, <3>2, <1>3 DEF Ownership, WorkIsOwned
    <2>9. WorkIsOwned'
      BY <2>7, <2>8 DEF WorkIsOwned
    <2> QED
      BY <2>5, <2>6, <2>9 DEF Ownership
  <1> QED
    BY <1>5, <1>6

\* _fail_operation leaves neither document of the operation in progress.
LEMMA FailureOwned ==
    ASSUME TypeInv, TypeInv', Ownership, NEW s \in Slots, FailOperation(s)
    PROVE  Ownership'
  <1> DEFINE k == slot[s].op
             o == Op(s)
             r == slot[s].retryable
             row == [ops[k] EXCEPT !.state = "FAILED", !.retryable = r]
  <1>0. slot[s].pc # "idle"
    BY DEF FailOperation, At
  <1>1. CASE ~Holds(s)
    <2>1. doc' = doc /\ ops' = ops
      BY <1>1 DEF FailOperation
    <2> QED
      BY <2>1, OwnershipFrame DEF HistoryKept
  <1>2. CASE Holds(s)
    <2>w. /\ k \in DOMAIN ops /\ ops[k].state \in OpenState /\ ops[k] = o /\ o \in Operation
          /\ o.type \in OperationType /\ o.doc \in Documents /\ o.target \in Documents \cup {None}
          /\ doc[o.doc].state = InProgressState(o.type)
          /\ o.target # None => o.type = "PUBLISH" /\ o.target # o.doc
      BY <1>0, <1>2, Holding
    <2>r. r \in BOOLEAN
      BY <1>0, AtWork DEF Slot
    <2>h. /\ "FAILED" \notin OpenState /\ Failed \cap InProgress = {} /\ Failed \subseteq DocumentState
          /\ "DELETE_FAILED" \in Failed /\ "DELETE_FAILED" \in Dying
      BY DEF OpenState, Failed, InProgress, DocumentState, Dying
    <2>1. /\ row \in Operation /\ row.type = ops[k].type /\ row.doc = ops[k].doc
          /\ row.target = ops[k].target /\ row.state = "FAILED"
      BY <2>w, <2>r DEF Operation
    <2>2. /\ ops' = [ops EXCEPT ![k] = row]
          /\ doc' = [x \in Documents |-> FailureRow(x, o, r)]
      BY <1>2 DEF FailOperation
    <2> HIDE DEF row, o, r
    <2>3. /\ FailureState(o.type) \in Failed
          /\ doc[o.doc].state \in Dying => FailureState(o.type) \in Dying
      BY <2>w, StateOfType DEF FailureState, Failed, Dying, OperationType
    <2>4. /\ doc'[o.doc].state = FailureState(o.type)
          /\ doc'[o.doc].replacedBy = doc[o.doc].replacedBy
      <3>1. ~(o.type = "PREFLIGHT" /\ doc[o.doc].state = "DELETING")
        BY <2>w DEF InProgressState
      <3>2. doc'[o.doc] = Broken(doc[o.doc], FailureState(o.type), r)
        BY <3>1, <2>2, <2>w DEF FailureRow
      <3>3. doc[o.doc] \in DocumentRow /\ FailureState(o.type) \in DocumentState
        BY <2>w, <2>h, <2>3 DEF TypeInv, TypeOK
      <3> QED
        BY <3>2, <3>3, <2>r, BrokenType
    <2>5. ASSUME NEW x \in Documents, x # o.doc
          PROVE  /\ doc'[x].replacedBy = doc[x].replacedBy
                 /\ x # o.target => doc'[x].state = doc[x].state
                 /\ doc[x].state \in Dying => doc'[x].state \in Dying
                 /\ x = o.target => doc'[x].state # "DELETING"
                 /\ doc'[x].state = doc[x].state \/ doc'[x].state = "DELETE_FAILED"
      <3>1. CASE x = o.target /\ doc[x].state = "DELETING"
        <4>1. doc'[x] = Broken(doc[x], "DELETE_FAILED", r)
          BY <3>1, <2>2, <2>5 DEF FailureRow
        <4>2. doc[x] \in DocumentRow /\ "DELETE_FAILED" \in DocumentState
          BY <2>h DEF TypeInv, TypeOK
        <4>3. /\ Broken(doc[x], "DELETE_FAILED", r).state = "DELETE_FAILED"
              /\ Broken(doc[x], "DELETE_FAILED", r).replacedBy = doc[x].replacedBy
          BY <4>2, <2>r, BrokenType
        <4> QED
          BY <4>1, <4>3, <3>1, <2>h
      <3>2. CASE ~(x = o.target /\ doc[x].state = "DELETING")
        <4>1. doc'[x] = doc[x]
          BY <3>2, <2>2, <2>5 DEF FailureRow
        <4> QED
          BY <4>1, <3>2
      <3> QED
        BY <3>1, <3>2
    <2>6. \A x \in Documents : /\ doc[x].state \in Dying => doc'[x].state \in Dying
                               /\ doc'[x].replacedBy = doc[x].replacedBy
      BY <2>3, <2>4, <2>5
    <2>7. Locked(ops[k]) = {o.doc, o.target} \ {None}
      BY <2>w DEF Locked
    <2>8. \A x \in Documents \ Locked(ops[k]) : doc'[x].state = doc[x].state
      BY <2>5, <2>7, NoneAssumption
    <2>9. ASSUME NEW x \in Locked(ops[k])
          PROVE  doc'[x].state \notin InProgress
      <3>1. CASE x = o.doc
        BY <3>1, <2>3, <2>4, <2>h
      <3>2. CASE x # o.doc
        <4>1. x = o.target /\ x \in Documents /\ x # None
          BY <3>2, <2>7, <2>w
        <4>2. doc[x].state \in Dying
          <5>1. doc[x].replacedBy = o.doc
            BY <4>1, <2>w DEF Ownership, TargetsReplaced
          <5> QED
            BY <4>1, <5>1, <2>w, NoneAssumption DEF Ownership, ReplacedDying
        <4>3. doc'[x].state \in Dying /\ doc'[x].state # "DELETING"
          BY <4>1, <4>2, <3>2, <2>5
        <4> QED
          BY <4>3 DEF Dying, Disposition, InProgress
      <3> QED
        BY <3>1, <3>2
    <2> QED
      BY <2>1, <2>2, <2>6, <2>8, <2>9, <2>w, <2>h, OwnershipEnded
  <1> QED
    BY <1>1, <1>2

-----------------------------------------------------------------------------
(* The theorems. *)

\* An empty catalog satisfies ownership.
LEMMA OwnershipInit == Init => Ownership
  BY DEF Init, Ownership, OneOpenOperation, WorkIsOwned, TargetsReplaced, ReplacedDying,
         DeletedDying, Absent, InProgress

\* Claims, lease recovery and crashes keep every open operation open.
LEMMA LeaseOwned ==
    ASSUME TypeInv, TypeInv', Ownership, HistoryKept, Lease \/ \E s \in Slots : Claim(s)
    PROVE  Ownership'
  <1>0. doc' = doc
    BY DEF Lease, Claim, RecoverLease, LapseLease, Crash
  <1>1. ASSUME NEW i \in DOMAIN ops, NEW state \in {"QUEUED", "RUNNING"},
               ops[i].state \in {"QUEUED", "RUNNING"}, ops' = [ops EXCEPT ![i].state = state]
        PROVE  Ownership'
    <2> DEFINE row == [ops[i] EXCEPT !.state = state]
    <2>1. row \in Operation /\ row.state = state
      BY OpsTyped DEF Operation
    <2>2. ops' = [ops EXCEPT ![i] = row]
      BY <1>1
    <2> HIDE DEF row
    <2>3. /\ DOMAIN ops' = DOMAIN ops
          /\ \A j \in DOMAIN ops : ops'[j] = IF j = i THEN row ELSE ops[j]
      BY <2>1, <2>2, RowRewritten DEF TypeInv, TypeOK
    <2>4. \A j \in DOMAIN ops : ops'[j].state \in OpenState <=> ops[j].state \in OpenState
      BY <1>1, <2>1, <2>3 DEF OpenState
    <2> QED
      BY <2>3, <2>4, <1>0, OwnershipFrame
  <1>2. CASE Crash
    <2>1. ops' = ops
      BY <1>2 DEF Crash
    <2> QED
      BY <2>1, <1>0, OwnershipFrame
  <1>3. CASE \E i \in DOMAIN ops : RecoverLease(i) \/ LapseLease(i)
    BY <1>3, <1>1 DEF RecoverLease, LapseLease
  <1>4. CASE \E s \in Slots : Claim(s)
    BY <1>4, <1>1 DEF Claim, Claimable
  <1> QED
    BY <1>2, <1>3, <1>4 DEF Lease

\* Every step preserves ownership.
LEMMA OwnershipStep ==
    ASSUME TypeInv, Ownership, [Next]_vars
    PROVE  Ownership'
  <1>0. TypeInv' /\ HistoryKept
    BY TypeInvStep
  <1>1. CASE Api
    BY <1>0, <1>1, ApiOwned
  <1>2. CASE Lease \/ \E s \in Slots : Claim(s)
    BY <1>0, <1>2, LeaseOwned
  <1>3. ASSUME NEW s \in Slots, Quiet(s)
        PROVE  Ownership'
    BY <1>0, <1>3, OwnershipFrame DEF Quiet, QueueQuiet
  <1>4. ASSUME NEW s \in Slots, PurgeCommit(s)
        PROVE  Ownership'
    <2>1. slot[s].pc # "idle" /\ "storage_purged" \in Proof /\ "COMMIT_TOMBSTONE" \in DeletionPhase
      BY <1>4 DEF PurgeCommit, At, Proof, DeletionPhase
    <2>2. /\ DOMAIN ops' = DOMAIN ops /\ \A i \in DOMAIN ops : ops'[i].state = ops[i].state
      BY <1>4, <2>1, ProofRecorded DEF PurgeCommit
    <2>3. \A d \in Documents : /\ doc'[d].state = doc[d].state
                               /\ doc'[d].replacedBy = doc[d].replacedBy
      <3> DEFINE d == Subject(s)
                 purged == [doc[d] EXCEPT !.key = FALSE]
      <3>1. doc[d] \in DocumentRow
        BY <2>1, AtWork DEF TypeInv, TypeOK
      <3>2. purged.state = doc[d].state /\ purged.replacedBy = doc[d].replacedBy
        BY <3>1 DEF DocumentRow
      <3>3. doc' = [doc EXCEPT ![d] = purged]
        BY <1>4 DEF PurgeCommit
      <3> HIDE DEF purged, d
      <3> QED
        BY <3>2, <3>3 DEF TypeInv, TypeOK
    <2> QED
      BY <1>0, <2>2, <2>3, OwnershipFrame
  <1>5. ASSUME NEW s \in Slots, Preflight(s)
        PROVE  Ownership'
    BY <1>0, <1>3, <1>5, PreflightQuiet, RejectionOwned, PreflightFinishOwned DEF Preflight
  <1>6. ASSUME NEW s \in Slots, Publish(s)
        PROVE  Ownership'
    BY <1>0, <1>3, <1>6, PublishQuiet, PublicationFinishOwned DEF Publish
  <1>7. ASSUME NEW s \in Slots, Deletion(s)
        PROVE  Ownership'
    BY <1>0, <1>3, <1>4, <1>7, DeletionQuiet, TombstoneOwned DEF Deletion
  <1>8. ASSUME NEW s \in Slots, FailOperation(s)
        PROVE  Ownership'
    BY <1>0, <1>8, FailureOwned
  <1>9. ASSUME NEW s \in Slots, Trouble(s)
        PROVE  Ownership'
    BY <1>3, <1>9, PreflightQuiet, TroubleQuiet DEF Trouble
  <1>10. CASE UNCHANGED vars
    <2>1. doc' = doc /\ ops' = ops
      BY <1>10 DEF vars
    <2> QED
      BY <2>1, <1>0, OwnershipFrame
  <1> QED
    BY <1>1, <1>2, <1>5, <1>6, <1>7, <1>8, <1>9, <1>10 DEF Next, Work

\* In every run, for any sets of documents and slots, two open operations never
\* touch the same document (enqueue_operation and the guards of every request).
THEOREM OperationsExclusive == Spec => []OneOpenOperation
  <1>1. TypeInv /\ Ownership /\ [Next]_vars => TypeInv' /\ Ownership'
    BY OwnershipStep, TypeInvStep
  <1>2. Ownership => OneOpenOperation
    BY DEF Ownership
  <1> QED
    BY TypeInvInit, OwnershipInit, <1>1, <1>2, PTL DEF Spec

\* No document is stranded in progress: an open operation, queued or running,
\* is always there to finish or to fail it, replacement targets included.
THEOREM InProgressOwned == Spec => []WorkIsOwned
  <1>1. TypeInv /\ Ownership /\ [Next]_vars => TypeInv' /\ Ownership'
    BY OwnershipStep, TypeInvStep
  <1>2. Ownership => WorkIsOwned
    BY DEF Ownership
  <1> QED
    BY TypeInvInit, OwnershipInit, <1>1, <1>2, PTL DEF Spec

-----------------------------------------------------------------------------
(* What a step of a slot does, in terms of the columns the invariant reads. *)

\* Nothing the invariant reads of document d changes.
Untouched(d) ==
    /\ doc'[d] = doc[d] /\ revisions'[d] = revisions[d] /\ content'[d] = content[d]
    /\ pub'[d] = pub[d] /\ del'[d] = del[d] /\ active'[d] = active[d]
    /\ screening'[d] = screening[d] /\ files'[d] = files[d]

\* Of the operations only the phase of the one slot s holds is written.
RowKept(s) ==
    /\ \A i \in DOMAIN ops : i # slot[s].op => ops'[i] = ops[i]
    /\ ops'[slot[s].op].rev = ops[slot[s].op].rev
    /\ ops'[slot[s].op].retryable = ops[slot[s].op].retryable
    /\ \/ ops'[slot[s].op].phase = ops[slot[s].op].phase
       \/ ops'[slot[s].op].phase \notin FinalPhase

\* The slot goes on to statement l.
Moved(s, l) ==
    /\ slot'[s].pc = l /\ slot'[s].rev = slot[s].rev /\ slot'[s].seen = slot[s].seen
    /\ slot'[s].matches = slot[s].matches

\* The slot leaves its statement by an exception.
Left(s) == slot'[s].pc = "idle" \/ slot'[s].pc = "failing"

\* An exception in the try block of _run_preflight fails the revision in hand.
Abandoned(s) ==
    \/ revisions' = revisions
    \/ /\ slot[s].pc \in TryBlock
       /\ revisions[Doc(s)][slot[s].rev] = "PREPARING"
       /\ revisions' = [revisions EXCEPT ![Doc(s)][slot[s].rev] = "FAILED"]

\* _set_phase writes the phase of one operation, and never a final one.
LEMMA PhaseRow ==
    ASSUME TypeInv, NEW s \in Slots, slot[s].pc # "idle",
           NEW phase \in OperationPhase \ FinalPhase, SetPhase(s, phase)
    PROVE  RowKept(s)
  <1> DEFINE k == slot[s].op
             row == [ops[k] EXCEPT !.phase = phase]
  <1>1. k \in DOMAIN ops /\ ops \in Seq(Operation) /\ ops[k] \in Operation
    BY AtWork, OpsLength DEF TypeInv, TypeOK
  <1>2. /\ row \in Operation /\ row.phase = phase /\ row.rev = ops[k].rev
        /\ row.retryable = ops[k].retryable
    BY <1>1 DEF Operation
  <1>3. ops' = [ops EXCEPT ![k] = row]
    BY DEF SetPhase
  <1> HIDE DEF row
  <1>4. \A i \in DOMAIN ops : ops'[i] = IF i = k THEN row ELSE ops[i]
    BY <1>1, <1>2, <1>3, RowRewritten
  <1> QED
    BY <1>1, <1>2, <1>4 DEF RowKept

\* A step that leaves the queue alone keeps its rows.
LEMMA RowsSame == ASSUME NEW s, UNCHANGED ops PROVE RowKept(s)
  BY DEF RowKept

\* The next statement keeps what the slot has in hand.
LEMMA GotoMoves ==
    ASSUME NEW s \in Slots, slot \in [Slots -> Slot], NEW l, Goto(s, l)
    PROVE  Moved(s, l)
  <1>1. slot[s] \in Slot /\ slot'[s] = [slot[s] EXCEPT !.pc = l]
    BY DEF Goto
  <1>2. /\ [slot[s] EXCEPT !.pc = l].pc = l /\ [slot[s] EXCEPT !.pc = l].rev = slot[s].rev
        /\ [slot[s] EXCEPT !.pc = l].seen = slot[s].seen
        /\ [slot[s] EXCEPT !.pc = l].matches = slot[s].matches
    BY <1>1 DEF Slot
  <1> QED
    BY <1>1, <1>2 DEF Moved

\* An exception leaves the statement.
LEMMA RaiseLeaves ==
    ASSUME NEW s \in Slots, slot \in [Slots -> Slot], NEW r, Raise(s, r)
    PROVE  Left(s)
  <1>1. slot[s] \in Slot /\ slot'[s] = [slot[s] EXCEPT !.pc = "failing", !.retryable = r]
    BY DEF Raise
  <1>2. [slot[s] EXCEPT !.pc = "failing", !.retryable = r].pc = "failing"
    BY <1>1 DEF Slot
  <1> QED
    BY <1>1, <1>2 DEF Left

\* A released claim leaves it too.
LEMMA ReleaseLeaves ==
    ASSUME NEW s \in Slots, slot \in [Slots -> Slot], Release(s)
    PROVE  Left(s) /\ slot'[s].pc = "idle"
  BY DEF Release, Left, Idle

\* fail_preparation fails a revision that is still being prepared.
LEMMA Abandons == ASSUME NEW s, AbandonRevision(s) PROVE Abandoned(s)
  BY DEF AbandonRevision, Abandoned

\* The two ways a statement ends.
LEMMA Ends ==
    ASSUME NEW s \in Slots, slot \in [Slots -> Slot]
    PROVE  /\ \A l : Proceed(s, l) => Moved(s, l) /\ revisions' = revisions
           /\ \A r : Abort(s, r) => Left(s) /\ Abandoned(s)
           /\ \A l, ok : Check(s, ok, l) =>
                \/ ok /\ Moved(s, l) /\ revisions' = revisions
                \/ Left(s) /\ Abandoned(s)
           /\ \A l, part, whole : Attempt(s, part, whole, l) =>
                \/ Moved(s, l) /\ revisions' = revisions
                \/ Left(s) /\ Abandoned(s)
  <1>1. ASSUME NEW l, Proceed(s, l) PROVE Moved(s, l) /\ revisions' = revisions
    BY <1>1, GotoMoves DEF Proceed
  <1>2. ASSUME NEW r, Abort(s, r) PROVE Left(s) /\ Abandoned(s)
    BY <1>2, RaiseLeaves, Abandons DEF Abort
  <1>3. \A l, ok : Check(s, ok, l) =>
                \/ ok /\ Moved(s, l) /\ revisions' = revisions
                \/ Left(s) /\ Abandoned(s)
    BY <1>1, <1>2 DEF Check
  <1>4. \A l, part, whole : Attempt(s, part, whole, l) =>
                \/ Moved(s, l) /\ revisions' = revisions
                \/ Left(s) /\ Abandoned(s)
    BY <1>1, <1>2 DEF Attempt
  <1> QED
    BY <1>1, <1>2, <1>3, <1>4

\* Outside the try block an exception leaves the revisions alone.
LEMMA NothingAbandoned ==
    ASSUME NEW s, Abandoned(s), slot[s].pc \notin TryBlock
    PROVE  revisions' = revisions
  BY DEF Abandoned

\* What a statement of _run_preflight that does not complete it does: the
\* slot stays in the preflight, and only the last revision is written.
PreflightMove(s) ==
    \/ Left(s) /\ Abandoned(s)
    \/ /\ Left(s) /\ slot[s].pc = "prepare"
       /\ revisions' = [revisions EXCEPT ![Doc(s)][slot[s].rev] = "FAILED"]
    \/ slot'[s].pc = "begin" /\ revisions' = revisions
    \/ /\ slot'[s].pc = "prepare" /\ slot'[s].rev = Len(revisions[Doc(s)]) + 1
       /\ revisions' = [revisions EXCEPT ![Doc(s)] = Append(revisions[Doc(s)], "PREPARING")]
    \/ /\ slot'[s].pc = "reject" /\ slot[s].pc = "prepare"
       /\ revisions' = [revisions EXCEPT ![Doc(s)][slot[s].rev] = "FAILED"]
    \/ slot[s].pc = "prepare" /\ Moved(s, "bind") /\ revisions' = revisions
    \/ /\ slot[s].pc = "bind" /\ Moved(s, "write_artifact") /\ revisions' = revisions
       /\ ops'[slot[s].op].rev = slot[s].rev
    \/ /\ slot[s].pc \in TryBlock \ {"seal", "finish_preflight"} /\ revisions' = revisions
       /\ slot'[s].rev = slot[s].rev /\ slot'[s].pc \in TryBlock \ {"finish_preflight"}
    \/ /\ slot[s].pc = "seal" /\ Moved(s, "finish_preflight")
       /\ revisions[Doc(s)][slot[s].rev] = "PREPARING"
       /\ revisions' = [revisions EXCEPT ![Doc(s)][slot[s].rev] = "SEALED"]

\* Binding the revision writes the column rev of the operation as well.
RowBound(s) ==
    /\ \A i \in DOMAIN ops : i # slot[s].op => ops'[i] = ops[i]
    /\ slot[s].pc # "bind" => ops'[slot[s].op].rev = ops[slot[s].op].rev
    /\ ops'[slot[s].op].retryable = ops[slot[s].op].retryable
    /\ \/ ops'[slot[s].op].phase = ops[slot[s].op].phase
       \/ ops'[slot[s].op].phase \notin FinalPhase

PreflightEffect(s) ==
    /\ slot[s].pc \in PreflightSteps
    /\ RowBound(s) /\ PreflightMove(s)
    /\ doc' = doc /\ pub' = pub /\ del' = del /\ active' = active
    /\ \A d \in Documents \ {Doc(s)} : Untouched(d)

\* The statements of _run_preflight that do not complete it.
LEMMA PreflightEffects ==
    ASSUME TypeInv, NEW s \in Slots,
           \/ PreflightSource(s) \/ BeginPreparation(s) \/ PrepareContent(s)
           \/ RejectSource(s) \/ BindRevision(s) \/ PersistRevisionArtifact(s)
           \/ ClearScreening(s) \/ UpsertScreening(s) \/ VerifyScreening(s)
           \/ DiscoverCandidates(s) \/ ClassifyCandidates(s) \/ SealRevision(s)
           \/ FailPreparation(s)
    PROVE  PreflightEffect(s)
  <1>0. slot[s].pc \in PreflightSteps /\ slot[s].pc # "idle"
    BY DEF PreflightSource, BeginPreparation, PrepareContent, RejectSource, BindRevision,
           PersistRevisionArtifact, ClearScreening, UpsertScreening, VerifyScreening,
           DiscoverCandidates, ClassifyCandidates, SealRevision, FailPreparation, At,
           PreflightSteps
  <1>d. doc' = doc /\ pub' = pub /\ del' = del /\ active' = active
    BY DEF PreflightSource, BeginPreparation, PrepareContent, RejectSource, BindRevision,
           PersistRevisionArtifact, ClearScreening, UpsertScreening, VerifyScreening,
           DiscoverCandidates, ClassifyCandidates, SealRevision, FailPreparation, index
  <1>t. /\ slot \in [Slots -> Slot] /\ TypeOK
        /\ revisions \in [Documents -> Seq(RevisionStatus)] /\ Doc(s) \in Documents
    BY <1>0, AtWork DEF TypeInv, TypeOK, RevisionStatus
  <1>r. RowKept(s) => RowBound(s)
    BY DEF RowKept, RowBound
  <1>h. PreflightPhase \subseteq OperationPhase \ FinalPhase
    BY DEF OperationPhase, PreflightPhase, FinalPhase
  <1>a. ASSUME Abandoned(s) PROVE \A d \in Documents \ {Doc(s)} : revisions'[d] = revisions[d]
    BY <1>a, <1>t DEF Abandoned
  <1>1. CASE PreflightSource(s)
    <2>1. RowBound(s)
      BY <1>1, <1>0, <1>r, <1>h, PhaseRow, RowsSame DEF PreflightSource, PreflightPhase
    <2>2. PreflightMove(s)
      BY <1>1, <1>t, GotoMoves, RaiseLeaves
      DEF PreflightSource, PreflightMove, Moved, Abandoned, prepVars
    <2>3. \A d \in Documents : Untouched(d)
      BY <1>1 DEF PreflightSource, Untouched, prepVars, index
    <2> QED
      BY <2>1, <2>2, <2>3, <1>0, <1>d DEF PreflightEffect
  <1>2. CASE BeginPreparation(s)
    <2>1. RowBound(s)
      BY <1>2, <1>r, RowsSame DEF BeginPreparation
    <2>2. PreflightMove(s)
      <3>1. CASE doc[Doc(s)].state = "PREFLIGHTING"
        <4> DEFINE v == [slot[s] EXCEPT !.pc = "prepare", !.rev = Len(revisions[Doc(s)]) + 1]
        <4>1. v.pc = "prepare" /\ v.rev = Len(revisions[Doc(s)]) + 1
          BY <1>t DEF Slot
        <4>2. /\ slot' = [slot EXCEPT ![s] = v]
              /\ revisions' = [revisions EXCEPT ![Doc(s)] = Append(revisions[Doc(s)], "PREPARING")]
          BY <1>2, <3>1 DEF BeginPreparation
        <4> HIDE DEF v
        <4> QED
          BY <4>1, <4>2, <1>t DEF PreflightMove
      <3>2. CASE doc[Doc(s)].state # "PREFLIGHTING"
        BY <1>2, <3>2, <1>t, RaiseLeaves DEF BeginPreparation, PreflightMove, Abandoned
      <3> QED
        BY <3>1, <3>2
    <2>3. \A d \in Documents \ {Doc(s)} : Untouched(d)
      <3>1. \A d \in Documents \ {Doc(s)} : revisions'[d] = revisions[d]
        BY <1>2, <1>t DEF BeginPreparation
      <3> QED
        BY <1>2, <3>1 DEF BeginPreparation, Untouched, index
    <2> QED
      BY <2>1, <2>2, <2>3, <1>0, <1>d DEF PreflightEffect
  <1>3. CASE PrepareContent(s)
    <2>1. RowBound(s)
      BY <1>3, <1>r, RowsSame DEF PrepareContent
    <2>2. PreflightMove(s)
      BY <1>3, <1>t, GotoMoves DEF PrepareContent, PreflightMove, At
    <2>3. \A d \in Documents \ {Doc(s)} : Untouched(d)
      BY <1>3, <1>t DEF PrepareContent, Untouched, index, TypeOK
    <2> QED
      BY <2>1, <2>2, <2>3, <1>0, <1>d DEF PreflightEffect
  <1>4. CASE RejectSource(s)
    <2>1. RowBound(s)
      BY <1>4, <1>r, RowsSame DEF RejectSource
    <2>2. PreflightMove(s)
      BY <1>4, <1>t, GotoMoves DEF RejectSource, PreflightMove, Moved, At
    <2>3. \A d \in Documents \ {Doc(s)} : Untouched(d)
      BY <1>4, <1>t DEF RejectSource, Untouched, index
    <2> QED
      BY <2>1, <2>2, <2>3, <1>0, <1>d DEF PreflightEffect
  <1>5. CASE BindRevision(s)
    <2> DEFINE k == slot[s].op
               row == [ops[k] EXCEPT !.rev = slot[s].rev]
    <2>0. /\ k \in DOMAIN ops /\ ops \in Seq(Operation) /\ ops[k] \in Operation
          /\ slot[s].rev \in Nat
      BY <1>0, AtWork, OpsLength DEF TypeInv, TypeOK, Slot
    <2>1. /\ row \in Operation /\ row.phase = ops[k].phase /\ row.rev = slot[s].rev
          /\ row.retryable = ops[k].retryable
      BY <2>0 DEF Operation
    <2>2. ops' = [ops EXCEPT ![k] = row]
      BY <1>5 DEF BindRevision
    <2> HIDE DEF row
    <2>3. \A i \in DOMAIN ops : ops'[i] = IF i = k THEN row ELSE ops[i]
      BY <2>0, <2>1, <2>2, RowRewritten
    <2>4. RowBound(s) /\ ops'[k].rev = slot[s].rev
      BY <2>0, <2>1, <2>3, <1>5 DEF RowBound, BindRevision, At
    <2>5. PreflightMove(s)
      BY <1>5, <2>4, <1>t, GotoMoves DEF BindRevision, PreflightMove, At, prepVars
    <2>6. \A d \in Documents : Untouched(d)
      BY <1>5 DEF BindRevision, Untouched, prepVars, index
    <2> QED
      BY <2>4, <2>5, <2>6, <1>0, <1>d DEF PreflightEffect
  <1>6. CASE PersistRevisionArtifact(s)
    <2>1. RowBound(s)
      BY <1>6, <1>r, RowsSame DEF PersistRevisionArtifact
    <2>2. PreflightMove(s)
      BY <1>6, <1>t, GotoMoves
      DEF PersistRevisionArtifact, PreflightMove, Moved, At, TryBlock, prepVars
    <2>3. \A d \in Documents \ {Doc(s)} : Untouched(d)
      BY <1>6, <1>t DEF PersistRevisionArtifact, Untouched, prepVars, index, TypeOK
    <2> QED
      BY <2>1, <2>2, <2>3, <1>0, <1>d DEF PreflightEffect
  \* A statement of the try block ends by the next one or by an exception.
  <1>e. ASSUME NEW l \in TryBlock \ {"finish_preflight"},
               slot[s].pc \in TryBlock \ {"seal", "finish_preflight"},
               \/ Moved(s, l) /\ revisions' = revisions
               \/ Left(s) /\ Abandoned(s)
        PROVE  PreflightMove(s)
    BY <1>e DEF PreflightMove, Moved
  <1>7. CASE ClearScreening(s)
    <2>0. PICK left \in SUBSET screening[Doc(s)] :
            /\ screening' = [screening EXCEPT ![Doc(s)] = left]
            /\ Attempt(s, left, {}, "upsert_screening")
      BY <1>7 DEF ClearScreening
    <2>1. RowBound(s)
      BY <1>7, <1>0, <1>r, <1>h, PhaseRow DEF ClearScreening, PreflightPhase
    <2>2. \/ Moved(s, "upsert_screening") /\ revisions' = revisions
          \/ Left(s) /\ Abandoned(s)
      BY <2>0, <1>t, Ends
    <2>3. PreflightMove(s)
      BY <2>2, <1>e, <1>7 DEF ClearScreening, At, TryBlock
    <2>4. \A d \in Documents \ {Doc(s)} : Untouched(d)
      <3>1. \A d \in Documents \ {Doc(s)} : revisions'[d] = revisions[d]
        BY <2>2, <1>a
      <3> QED
        BY <1>7, <2>0, <3>1, <1>t DEF ClearScreening, Untouched, TypeOK
    <2> QED
      BY <2>1, <2>3, <2>4, <1>0, <1>d DEF PreflightEffect
  <1>8. CASE UpsertScreening(s)
    <2>1. RowBound(s)
      BY <1>8, <1>r, RowsSame DEF UpsertScreening
    <2>2. /\ \/ Moved(s, "verify_screening") /\ revisions' = revisions
             \/ Left(s) /\ Abandoned(s)
          /\ \A d \in Documents \ {Doc(s)} : screening'[d] = screening[d]
      <3>1. CASE screening[Doc(s)] # {}
        BY <1>8, <3>1, <1>t, Ends DEF UpsertScreening
      <3>2. CASE screening[Doc(s)] = {}
        <4>1. PICK part \in SUBSET ScreeningPoints(slot[s].rev) :
                /\ screening' = [screening EXCEPT ![Doc(s)] = part]
                /\ Attempt(s, part, ScreeningPoints(slot[s].rev), "verify_screening")
          BY <1>8, <3>2 DEF UpsertScreening
        <4> QED
          BY <4>1, <1>t, Ends DEF TypeOK
      <3> QED
        BY <3>1, <3>2
    <2>3. PreflightMove(s)
      BY <2>2, <1>e, <1>8 DEF UpsertScreening, At, TryBlock
    <2>4. \A d \in Documents \ {Doc(s)} : Untouched(d)
      <3>1. \A d \in Documents \ {Doc(s)} : revisions'[d] = revisions[d]
        BY <2>2, <1>a
      <3> QED
        BY <1>8, <2>2, <3>1 DEF UpsertScreening, Untouched
    <2> QED
      BY <2>1, <2>3, <2>4, <1>0, <1>d DEF PreflightEffect
  <1>9. CASE VerifyScreening(s)
    <2>1. RowBound(s)
      BY <1>9, <1>r, RowsSame DEF VerifyScreening
    <2>2. \/ Moved(s, "discover") /\ revisions' = revisions
          \/ Left(s) /\ Abandoned(s)
      BY <1>9, <1>t, Ends DEF VerifyScreening
    <2>3. PreflightMove(s)
      BY <2>2, <1>e, <1>9 DEF VerifyScreening, At, TryBlock
    <2>4. \A d \in Documents \ {Doc(s)} : Untouched(d)
      <3>1. \A d \in Documents \ {Doc(s)} : revisions'[d] = revisions[d]
        BY <2>2, <1>a
      <3> QED
        BY <1>9, <3>1 DEF VerifyScreening, Untouched, index
    <2> QED
      BY <2>1, <2>3, <2>4, <1>0, <1>d DEF PreflightEffect
  <1>10. CASE DiscoverCandidates(s)
    <2>1. RowBound(s)
      BY <1>10, <1>0, <1>r, <1>h, PhaseRow DEF DiscoverCandidates, PreflightPhase
    <2>2. \/ /\ slot'[s].pc = "classify" /\ slot'[s].rev = slot[s].rev
             /\ revisions' = revisions
          \/ Left(s) /\ Abandoned(s)
      <3>1. ASSUME NEW m, slot' = [slot EXCEPT ![s].pc = "classify", ![s].matches = m]
            PROVE  slot'[s].pc = "classify" /\ slot'[s].rev = slot[s].rev
        <4> DEFINE v == [slot[s] EXCEPT !.pc = "classify", !.matches = m]
        <4>1. v.pc = "classify" /\ v.rev = slot[s].rev
          BY <1>t DEF Slot
        <4>2. slot' = [slot EXCEPT ![s] = v]
          BY <3>1
        <4> HIDE DEF v
        <4> QED
          BY <4>1, <4>2, <1>t
      <3> QED
        BY <1>10, <3>1, <1>t, Ends DEF DiscoverCandidates
    <2>3. PreflightMove(s)
      BY <2>2, <1>10 DEF DiscoverCandidates, At, TryBlock, PreflightMove
    <2>4. \A d \in Documents \ {Doc(s)} : Untouched(d)
      <3>1. \A d \in Documents \ {Doc(s)} : revisions'[d] = revisions[d]
        BY <2>2, <1>a
      <3> QED
        BY <1>10, <3>1 DEF DiscoverCandidates, Untouched, index
    <2> QED
      BY <2>1, <2>3, <2>4, <1>0, <1>d DEF PreflightEffect
  <1>11. CASE ClassifyCandidates(s)
    <2>1. RowBound(s)
      BY <1>11, <1>0, <1>r, <1>h, PhaseRow DEF ClassifyCandidates, PreflightPhase
    <2>2. \/ Moved(s, "seal") /\ revisions' = revisions
          \/ Left(s) /\ Abandoned(s)
      BY <1>11, <1>t, Ends DEF ClassifyCandidates
    <2>3. PreflightMove(s)
      BY <2>2, <1>e, <1>11 DEF ClassifyCandidates, At, TryBlock
    <2>4. \A d \in Documents \ {Doc(s)} : Untouched(d)
      <3>1. \A d \in Documents \ {Doc(s)} : revisions'[d] = revisions[d]
        BY <2>2, <1>a
      <3> QED
        BY <1>11, <3>1 DEF ClassifyCandidates, Untouched, index
    <2> QED
      BY <2>1, <2>3, <2>4, <1>0, <1>d DEF PreflightEffect
  <1>12. CASE SealRevision(s)
    <2>1. RowBound(s)
      BY <1>12, <1>0, <1>r, <1>h, PhaseRow DEF SealRevision, PreflightPhase
    <2>2. \/ /\ Moved(s, "finish_preflight") /\ revisions[Doc(s)][slot[s].rev] = "PREPARING"
             /\ revisions' = [revisions EXCEPT ![Doc(s)][slot[s].rev] = "SEALED"]
          \/ Left(s) /\ Abandoned(s)
      BY <1>12, <1>t, Ends, GotoMoves DEF SealRevision
    <2>3. PreflightMove(s)
      BY <2>2, <1>12 DEF SealRevision, At, PreflightMove
    <2>4. \A d \in Documents \ {Doc(s)} : Untouched(d)
      <3>1. \A d \in Documents \ {Doc(s)} : revisions'[d] = revisions[d]
        BY <2>2, <1>a, <1>t
      <3> QED
        BY <1>12, <3>1 DEF SealRevision, Untouched, index
    <2> QED
      BY <2>1, <2>3, <2>4, <1>0, <1>d DEF PreflightEffect
  <1>13. CASE FailPreparation(s)
    <2>1. RowBound(s)
      BY <1>13, <1>r, RowsSame DEF FailPreparation
    <2>2. PreflightMove(s)
      BY <1>13, <1>t, RaiseLeaves DEF FailPreparation, PreflightMove, At
    <2>3. \A d \in Documents \ {Doc(s)} :
            content'[d] = content[d] /\ files'[d] = files[d] /\ revisions'[d] = revisions[d]
      BY <1>13, <1>t DEF FailPreparation, TypeOK
    <2>4. \A d \in Documents \ {Doc(s)} : Untouched(d)
      BY <1>13, <2>3 DEF FailPreparation, Untouched, index
    <2> QED
      BY <2>1, <2>2, <2>4, <1>0, <1>d DEF PreflightEffect
  <1> QED
    BY <1>1, <1>2, <1>3, <1>4, <1>5, <1>6, <1>7, <1>8, <1>9, <1>10, <1>11, <1>12, <1>13

\* What a statement of _run_publish that does not complete it does: points and
\* the status of the publication of its document.
PublishMove(s) ==
    \/ Left(s) /\ pub' = pub
    \/ /\ slot[s].pc = "snapshot" /\ Op(s).type # "DELETE" /\ Op(s).target = None
       /\ slot'[s].pc = "check_publication" /\ pub' = pub
    \/ /\ slot[s].pc = "snapshot" /\ (Op(s).type = "DELETE" \/ Op(s).target # None)
       /\ slot'[s].pc = "deletion_checkpoint" /\ pub' = pub
    \/ /\ slot[s].pc \in {"check_publication", "stage", "verify_staged", "activate"}
       /\ slot'[s].pc \in {"stage", "verify_staged", "activate", "verify_active"} /\ pub' = pub
    \/ /\ slot[s].pc = "verify_active" /\ slot'[s].pc = "record_upserted"
       /\ active[Doc(s)] = ActivePoints(Op(s).rev, Chunks, TRUE) /\ UNCHANGED <<pub, index>>
    \/ /\ slot[s].pc = "record_upserted" /\ slot'[s].pc = "remove_screening"
       /\ pub' = [pub EXCEPT ![Doc(s)].status = "UPSERTED"] /\ UNCHANGED index
    \/ /\ slot[s].pc = "remove_screening" /\ slot'[s].pc = "verify_removal"
       /\ UNCHANGED <<pub, active>>
    \/ /\ slot[s].pc = "verify_removal" /\ slot'[s].pc = "finish_publication"
       /\ screening[Doc(s)] = {} /\ UNCHANGED <<pub, index>>

PublishEffect(s) ==
    /\ slot[s].pc \in PublishSteps \cup {"snapshot"}
    /\ slot[s].pc = "snapshot" => active' = active /\ screening' = screening
    /\ RowKept(s) /\ PublishMove(s)
    /\ doc' = doc /\ del' = del /\ revisions' = revisions /\ content' = content
    /\ files' = files
    /\ \A d \in Documents \ {Doc(s)} : Untouched(d)

\* The statements of _run_publish that do not complete it.
LEMMA PublishEffects ==
    ASSUME TypeInv, NEW s \in Slots,
           \/ OperationSnapshot(s) \/ CheckPublication(s) \/ StageActivePoints(s)
           \/ VerifyStagedPoints(s) \/ ActivatePoints(s) \/ VerifyActivePoints(s)
           \/ RecordUpserted(s) \/ RemoveScreening(s) \/ VerifyScreeningRemoval(s)
    PROVE  PublishEffect(s)
  <1>0. /\ slot[s].pc \in PublishSteps \cup {"snapshot"} /\ slot[s].pc # "idle"
        /\ slot[s].pc \notin TryBlock
    BY DEF OperationSnapshot, CheckPublication, StageActivePoints, VerifyStagedPoints,
           ActivatePoints, VerifyActivePoints, RecordUpserted, RemoveScreening,
           VerifyScreeningRemoval, At, PublishSteps, TryBlock
  <1>d. doc' = doc /\ del' = del /\ content' = content /\ files' = files
    BY DEF OperationSnapshot, CheckPublication, StageActivePoints, VerifyStagedPoints,
           ActivatePoints, VerifyActivePoints, RecordUpserted, RemoveScreening,
           VerifyScreeningRemoval, prepVars
  <1>t. /\ slot \in [Slots -> Slot] /\ TypeOK /\ Doc(s) \in Documents
    BY <1>0, AtWork DEF TypeInv, TypeOK
  <1>h. PublishPhase \subseteq OperationPhase \ FinalPhase
    BY DEF OperationPhase, PublishPhase, FinalPhase
  \* An external call touches only the points of the document.
  <1>u. ASSUME pub' = pub, revisions' = revisions,
               \A d \in Documents \ {Doc(s)} :
                  active'[d] = active[d] /\ screening'[d] = screening[d]
        PROVE  \A d \in Documents \ {Doc(s)} : Untouched(d)
    BY <1>u, <1>d DEF Untouched
  <1>1. CASE OperationSnapshot(s)
    <2>1. RowKept(s) /\ revisions' = revisions /\ pub' = pub /\ active' = active
          /\ screening' = screening
      BY <1>1, RowsSame DEF OperationSnapshot, prepVars, index
    <2>2. PublishMove(s)
      BY <1>1, <1>t, <2>1, GotoMoves DEF OperationSnapshot, PublishMove, Moved, At
    <2> QED
      BY <2>1, <2>2, <1>0, <1>d, <1>u DEF PublishEffect
  <1>2. CASE CheckPublication(s)
    <2>1. RowKept(s) /\ revisions' = revisions /\ pub' = pub /\ active' = active
          /\ screening' = screening
      BY <1>2, RowsSame DEF CheckPublication, prepVars, index
    <2>2. PublishMove(s)
      BY <1>2, <1>t, <2>1, GotoMoves, RaiseLeaves DEF CheckPublication, PublishMove, Moved, At
    <2> QED
      BY <2>1, <2>2, <1>0, <1>d, <1>u DEF PublishEffect
  <1>3. CASE StageActivePoints(s)
    <2>0. PICK part \in SUBSET Chunks :
            /\ active' = [active EXCEPT ![Doc(s)] =
                    (@ \ ActivePoints(Op(s).rev, part, TRUE))
                        \cup ActivePoints(Op(s).rev, part, FALSE)]
            /\ Attempt(s, part, Chunks, "verify_staged")
      BY <1>3 DEF StageActivePoints
    <2>1. /\ RowKept(s) /\ pub' = pub /\ slot[s].pc = "stage"
          /\ \A d \in Documents \ {Doc(s)} :
                active'[d] = active[d] /\ screening'[d] = screening[d]
      BY <1>3, <2>0, <1>0, <1>h, <1>t, PhaseRow
      DEF StageActivePoints, PublishPhase, At, TypeOK
    <2>2. revisions' = revisions /\ (Moved(s, "verify_staged") \/ Left(s))
      BY <2>0, <1>0, <1>t, Ends, NothingAbandoned
    <2>3. PublishMove(s)
      BY <2>1, <2>2 DEF PublishMove, Moved
    <2> QED
      BY <2>1, <2>2, <2>3, <1>0, <1>d, <1>u DEF PublishEffect
  <1>4. CASE VerifyStagedPoints(s)
    <2>1. /\ RowKept(s) /\ pub' = pub /\ slot[s].pc = "verify_staged"
          /\ active' = active /\ screening' = screening
      BY <1>4, <1>0, <1>h, PhaseRow DEF VerifyStagedPoints, PublishPhase, At, index
    <2>2. revisions' = revisions /\ (Moved(s, "activate") \/ Left(s))
      BY <1>4, <1>0, <1>t, Ends, NothingAbandoned DEF VerifyStagedPoints
    <2>3. PublishMove(s)
      BY <2>1, <2>2 DEF PublishMove, Moved
    <2> QED
      BY <2>1, <2>2, <2>3, <1>0, <1>d, <1>u DEF PublishEffect
  <1>5. CASE ActivatePoints(s)
    <2> DEFINE hidden == {p \in active[Doc(s)] : p.rev = Op(s).rev /\ ~p.published}
    <2>0. PICK part \in SUBSET hidden :
            /\ active' = [active EXCEPT ![Doc(s)] =
                    (@ \ part) \cup {[p EXCEPT !.published = TRUE] : p \in part}]
            /\ Attempt(s, part, hidden, "verify_active")
      BY <1>5 DEF ActivatePoints
    <2>1. /\ RowKept(s) /\ pub' = pub /\ slot[s].pc = "activate"
          /\ \A d \in Documents \ {Doc(s)} :
                active'[d] = active[d] /\ screening'[d] = screening[d]
      BY <1>5, <2>0, <1>t, RowsSame DEF ActivatePoints, At, TypeOK
    <2> HIDE DEF hidden
    <2>2. revisions' = revisions /\ (Moved(s, "verify_active") \/ Left(s))
      BY <2>0, <1>0, <1>t, Ends, NothingAbandoned
    <2>3. PublishMove(s)
      BY <2>1, <2>2 DEF PublishMove, Moved
    <2> QED
      BY <2>1, <2>2, <2>3, <1>0, <1>d, <1>u DEF PublishEffect
  <1>6. CASE VerifyActivePoints(s)
    <2>1. /\ RowKept(s) /\ pub' = pub /\ slot[s].pc = "verify_active"
          /\ active' = active /\ screening' = screening
      BY <1>6, RowsSame DEF VerifyActivePoints, At, index
    <2>2. /\ revisions' = revisions
          /\ \/ /\ Moved(s, "record_upserted")
                /\ active[Doc(s)] = ActivePoints(Op(s).rev, Chunks, TRUE)
             \/ Left(s)
      BY <1>6, <1>0, <1>t, Ends, NothingAbandoned DEF VerifyActivePoints
    <2>3. PublishMove(s)
      BY <2>1, <2>2 DEF PublishMove, Moved, index
    <2> QED
      BY <2>1, <2>2, <2>3, <1>0, <1>d, <1>u DEF PublishEffect
  <1>7. CASE RecordUpserted(s)
    <2>1. /\ RowKept(s) /\ revisions' = revisions /\ slot[s].pc = "record_upserted"
          /\ UNCHANGED index /\ pub' = [pub EXCEPT ![Doc(s)].status = "UPSERTED"]
      BY <1>7, RowsSame DEF RecordUpserted, At, prepVars
    <2>2. Moved(s, "remove_screening")
      BY <1>7, <1>t, GotoMoves DEF RecordUpserted
    <2>3. PublishMove(s)
      BY <2>1, <2>2 DEF PublishMove, Moved
    <2>4. \A d \in Documents \ {Doc(s)} : Untouched(d)
      BY <2>1, <1>d, <1>t DEF Untouched, index, TypeOK
    <2> QED
      BY <2>1, <2>3, <2>4, <1>0, <1>d DEF PublishEffect
  <1>8. CASE RemoveScreening(s)
    <2>0. PICK left \in SUBSET screening[Doc(s)] :
            /\ screening' = [screening EXCEPT ![Doc(s)] = left]
            /\ Attempt(s, left, {}, "verify_removal")
      BY <1>8 DEF RemoveScreening
    <2>1. /\ RowKept(s) /\ pub' = pub /\ slot[s].pc = "remove_screening" /\ active' = active
          /\ \A d \in Documents \ {Doc(s)} : screening'[d] = screening[d]
      BY <1>8, <2>0, <1>0, <1>h, <1>t, PhaseRow
      DEF RemoveScreening, PublishPhase, At, TypeOK
    <2>2. revisions' = revisions /\ (Moved(s, "verify_removal") \/ Left(s))
      BY <2>0, <1>0, <1>t, Ends, NothingAbandoned
    <2>3. PublishMove(s)
      BY <2>1, <2>2 DEF PublishMove, Moved
    <2> QED
      BY <2>1, <2>2, <2>3, <1>0, <1>d, <1>u DEF PublishEffect
  <1>9. CASE VerifyScreeningRemoval(s)
    <2>1. /\ RowKept(s) /\ pub' = pub /\ slot[s].pc = "verify_removal"
          /\ active' = active /\ screening' = screening
      BY <1>9, <1>0, <1>h, PhaseRow DEF VerifyScreeningRemoval, PublishPhase, At, index
    <2>2. /\ revisions' = revisions
          /\ \/ Moved(s, "finish_publication") /\ screening[Doc(s)] = {}
             \/ Left(s)
      BY <1>9, <1>0, <1>t, Ends, NothingAbandoned DEF VerifyScreeningRemoval
    <2>3. PublishMove(s)
      BY <2>1, <2>2 DEF PublishMove, Moved, index
    <2> QED
      BY <2>1, <2>2, <2>3, <1>0, <1>d, <1>u DEF PublishEffect
  <1> QED
    BY <1>1, <1>2, <1>3, <1>4, <1>5, <1>6, <1>7, <1>8, <1>9

\* What a phase of _run_deletion_phases does to the document being deleted: it
\* only removes, and it records a proof for what it has seen to be gone.
DeletionMove(s) ==
    LET x == Subject(s) IN
    \/ Left(s) /\ del'[x].proofs = del[x].proofs
    \/ /\ slot[s].pc = "deletion_checkpoint" /\ del[x] # NoProgress
       /\ slot'[s].seen = del[x].proofs /\ slot'[s].pc = NextPhase(del[x].proofs)
       /\ UNCHANGED <<del, index, files>>
    \/ /\ slot[s].pc = "delete_active" /\ Moved(s, "verify_active_zero")
       /\ del'[x].proofs = del[x].proofs
    \/ /\ slot[s].pc = "verify_active_zero" /\ Moved(s, "record_active_zero")
       /\ del'[x].proofs = del[x].proofs /\ active[x] = {}
    \/ /\ slot[s].pc = "record_active_zero"
       /\ slot'[s].seen = slot[s].seen \cup {"active_zero"}
       /\ slot'[s].pc = NextPhase(slot[s].seen \cup {"active_zero"})
       /\ del'[x].proofs = del[x].proofs \cup {"active_zero"}
    \/ /\ slot[s].pc = "delete_screening" /\ Moved(s, "verify_screening_zero")
       /\ del'[x].proofs = del[x].proofs
    \/ /\ slot[s].pc = "verify_screening_zero" /\ Moved(s, "record_screening_zero")
       /\ del'[x].proofs = del[x].proofs /\ screening[x] = {}
    \/ /\ slot[s].pc = "record_screening_zero" /\ "active_zero" \in del[x].proofs
       /\ slot'[s].seen = slot[s].seen \cup {"screening_zero"}
       /\ slot'[s].pc = NextPhase(slot[s].seen \cup {"screening_zero"})
       /\ del'[x].proofs = del[x].proofs \cup {"screening_zero"}
    \/ /\ slot[s].pc = "purge_phase" /\ Moved(s, "purge_source")
       /\ del'[x].proofs = del[x].proofs
    \/ /\ slot[s].pc = "purge_source" /\ Moved(s, "purge_artifacts")
       /\ del'[x].proofs = del[x].proofs /\ files'[x] = files[x] \ {"source"}
    \/ /\ slot[s].pc = "purge_artifacts" /\ Moved(s, "purge_commit")
       /\ del'[x].proofs = del[x].proofs /\ files'[x] = files[x] \ {"artifact"}

DeletionEffect(s) ==
    LET x == Subject(s) IN
    /\ slot[s].pc \in DeletionSteps
    /\ RowKept(s) /\ DeletionMove(s)
    /\ doc' = doc /\ pub' = pub /\ revisions' = revisions /\ content' = content
    /\ del'[x] = NoProgress => del[x] = NoProgress
    /\ active'[x] \subseteq active[x] /\ screening'[x] \subseteq screening[x]
    /\ files'[x] \subseteq files[x]
    /\ \A d \in Documents \ {x} : Untouched(d)

\* _set_deletion_phase keeps the proofs, and a checkpoint stays one.
LEMMA PhaseKeepsProofs ==
    ASSUME TypeInv, NEW s \in Slots, slot[s].pc # "idle", NEW phase \in DeletionPhase,
           SetDeletionPhase(s, phase)
    PROVE  /\ RowKept(s)
           /\ del'[Subject(s)].proofs = del[Subject(s)].proofs
           /\ del'[Subject(s)] # NoProgress
           /\ \A d \in Documents \ {Subject(s)} : del'[d] = del[d]
  <1> DEFINE x == Subject(s)
             p == [del[x] EXCEPT !.phase = phase]
  <1>1. x \in Documents /\ del \in [Documents -> Progress] /\ phase \in OperationPhase \ FinalPhase
    BY AtWork DEF TypeInv, TypeOK, OperationPhase, FinalPhase, DeletionPhase
  <1>2. RowKept(s)
    BY <1>1, PhaseRow DEF SetDeletionPhase
  <1>3. p.proofs = del[x].proofs /\ p.phase = phase
    BY <1>1 DEF Progress
  <1>4. del' = [del EXCEPT ![x] = p]
    BY DEF SetDeletionPhase
  <1>5. phase # None /\ NoProgress.phase = None
    BY NullAssumption DEF NoProgress
  <1> HIDE DEF p, x
  <1>6. del'[x] = p /\ \A d \in Documents \ {x} : del'[d] = del[d]
    BY <1>1, <1>4
  <1>7. p # NoProgress
    BY <1>3, <1>5
  <1> QED
    BY <1>2, <1>3, <1>6, <1>7 DEF x

\* A recorded proof is added to the others, and the slot reads on from it.
LEMMA ProofAdded ==
    ASSUME TypeInv, NEW s \in Slots, slot[s].pc # "idle", NEW proof \in Proof,
           NEW phase \in DeletionPhase, RecordProof(s, proof, phase)
    PROVE  /\ RowKept(s)
           /\ del'[Subject(s)].proofs = del[Subject(s)].proofs \cup {proof}
           /\ del'[Subject(s)] # NoProgress
           /\ \A d \in Documents \ {Subject(s)} : del'[d] = del[d]
           /\ slot'[s].seen = slot[s].seen \cup {proof}
           /\ slot'[s].pc = NextPhase(slot[s].seen \cup {proof})
           /\ slot'[s].op = slot[s].op
  <1> DEFINE x == Subject(s)
             p == [phase |-> phase, proofs |-> del[x].proofs \cup {proof}]
             v == [slot[s] EXCEPT !.seen = slot[s].seen \cup {proof},
                                  !.pc = NextPhase(slot[s].seen \cup {proof})]
  <1>1. /\ x \in Documents /\ del \in [Documents -> Progress] /\ slot \in [Slots -> Slot]
        /\ phase \in OperationPhase \ FinalPhase
    BY AtWork DEF TypeInv, TypeOK, OperationPhase, FinalPhase, DeletionPhase
  <1>2. RowKept(s)
    BY <1>1, PhaseRow DEF RecordProof
  <1>3. del' = [del EXCEPT ![x] = p] /\ slot' = [slot EXCEPT ![s] = v]
    BY DEF RecordProof, Advance
  <1>4. p.proofs = del[x].proofs \cup {proof} /\ p # NoProgress
    <2>1. p.phase = phase /\ p.proofs = del[x].proofs \cup {proof}
      OBVIOUS
    <2>2. phase # None /\ NoProgress.phase = None
      BY NullAssumption DEF NoProgress
    <2> HIDE DEF p
    <2> QED
      BY <2>1, <2>2
  <1>5. /\ v.seen = slot[s].seen \cup {proof} /\ v.op = slot[s].op
        /\ v.pc = NextPhase(slot[s].seen \cup {proof})
    BY <1>1 DEF Slot
  <1> HIDE DEF p, v, x
  <1>6. del'[x] = p /\ slot'[s] = v /\ \A d \in Documents \ {x} : del'[d] = del[d]
    BY <1>1, <1>3
  <1> QED
    BY <1>2, <1>4, <1>5, <1>6 DEF x

\* The deletion phases but the purge commit and the tombstone.
LEMMA DeletionEffects ==
    ASSUME TypeInv, NEW s \in Slots,
           \/ DeletionCheckpoint(s) \/ DeleteActivePoints(s) \/ VerifyActiveZero(s)
           \/ RecordActiveZero(s) \/ DeleteScreeningPoints(s) \/ VerifyScreeningZero(s)
           \/ RecordScreeningZero(s) \/ PurgePhase(s) \/ PurgeSource(s)
           \/ PurgeArtifacts(s)
    PROVE  DeletionEffect(s)
  <1> DEFINE x == Subject(s)
  <1>0. /\ slot[s].pc \in DeletionSteps /\ slot[s].pc # "idle"
        /\ slot[s].pc \notin TryBlock
    BY DEF DeletionCheckpoint, DeleteActivePoints, VerifyActiveZero, RecordActiveZero,
           DeleteScreeningPoints, VerifyScreeningZero, RecordScreeningZero, PurgePhase,
           PurgeSource, PurgeArtifacts, At, DeletionSteps, TryBlock
  <1>d. doc' = doc /\ pub' = pub /\ content' = content
    BY DEF DeletionCheckpoint, DeleteActivePoints, VerifyActiveZero, RecordActiveZero,
           DeleteScreeningPoints, VerifyScreeningZero, RecordScreeningZero, PurgePhase,
           PurgeSource, PurgeArtifacts, prepVars
  <1>t. /\ slot \in [Slots -> Slot] /\ TypeOK /\ x \in Documents
    BY <1>0, AtWork DEF TypeInv, TypeOK
  <1>h. /\ DeletionPhase = {"DELETE_ACTIVE_POINTS", "VERIFY_ACTIVE_ZERO",
              "DELETE_SCREENING_POINTS", "VERIFY_SCREENING_ZERO", "PURGE_STORAGE",
              "COMMIT_TOMBSTONE"}
        /\ {"active_zero", "screening_zero"} \subseteq Proof
    BY DEF DeletionPhase, Proof
  \* What remains to be shown once the queue and the move are known.
  <1>u. ASSUME RowKept(s), DeletionMove(s), revisions' = revisions,
               del'[x] = NoProgress => del[x] = NoProgress,
               active'[x] \subseteq active[x], screening'[x] \subseteq screening[x],
               files'[x] \subseteq files[x],
               \A d \in Documents \ {x} :
                  /\ del'[d] = del[d] /\ active'[d] = active[d]
                  /\ screening'[d] = screening[d] /\ files'[d] = files[d]
        PROVE  DeletionEffect(s)
    <2>1. \A d \in Documents \ {x} : Untouched(d)
      BY <1>u, <1>d DEF Untouched
    <2> QED
      BY <2>1, <1>u, <1>d, <1>0 DEF DeletionEffect
  <1>1. CASE DeletionCheckpoint(s)
    <2>1. RowKept(s) /\ revisions' = revisions /\ UNCHANGED <<del, index, files>>
      BY <1>1, RowsSame DEF DeletionCheckpoint, prepVars
    <2>2. DeletionMove(s)
      <3>1. CASE del[x] = NoProgress
        BY <3>1, <1>1, <1>t, <2>1, RaiseLeaves DEF DeletionCheckpoint, DeletionMove
      <3>2. CASE del[x] # NoProgress
        <4> DEFINE v == [slot[s] EXCEPT !.seen = del[x].proofs,
                                        !.purging = (del[x].phase = "PURGE_STORAGE"),
                                        !.pc = NextPhase(del[x].proofs)]
        <4>1. v.seen = del[x].proofs /\ v.pc = NextPhase(del[x].proofs)
          BY <1>t DEF Slot
        <4>2. slot' = [slot EXCEPT ![s] = v] /\ slot[s].pc = "deletion_checkpoint"
          BY <1>1, <3>2 DEF DeletionCheckpoint, At
        <4> HIDE DEF v
        <4>3. slot'[s] = v
          BY <4>2, <1>t
        <4> QED
          BY <4>1, <4>2, <4>3, <3>2, <2>1 DEF DeletionMove
      <3> QED
        BY <3>1, <3>2
    <2> QED
      BY <2>1, <2>2, <1>u DEF index
  <1>2. CASE DeleteActivePoints(s)
    <2>0. PICK left \in SUBSET active[x] :
            /\ active' = [active EXCEPT ![x] = left]
            /\ Attempt(s, left, {}, "verify_active_zero")
      BY <1>2 DEF DeleteActivePoints
    <2>1. /\ RowKept(s) /\ slot[s].pc = "delete_active" /\ UNCHANGED <<screening, files>>
          /\ del'[x].proofs = del[x].proofs /\ del'[x] # NoProgress
          /\ \A d \in Documents \ {x} : del'[d] = del[d]
      BY <1>2, <1>0, <1>h, PhaseKeepsProofs DEF DeleteActivePoints, At
    <2>2. revisions' = revisions /\ (Moved(s, "verify_active_zero") \/ Left(s))
      BY <2>0, <1>0, <1>t, Ends, NothingAbandoned
    <2>3. active'[x] = left /\ \A d \in Documents \ {x} : active'[d] = active[d]
      BY <2>0, <1>t DEF TypeOK
    <2>4. DeletionMove(s)
      BY <2>1, <2>2 DEF DeletionMove
    <2> HIDE DEF x
    <2> QED
      BY <2>1, <2>2, <2>3, <2>4, <1>u
  <1>3. CASE VerifyActiveZero(s)
    <2>1. /\ RowKept(s) /\ slot[s].pc = "verify_active_zero" /\ UNCHANGED <<index, files>>
          /\ del'[x].proofs = del[x].proofs /\ del'[x] # NoProgress
          /\ \A d \in Documents \ {x} : del'[d] = del[d]
      BY <1>3, <1>0, <1>h, PhaseKeepsProofs DEF VerifyActiveZero, At
    <2>2. /\ revisions' = revisions
          /\ \/ Moved(s, "record_active_zero") /\ active[x] = {}
             \/ Left(s)
      BY <1>3, <1>0, <1>t, Ends, NothingAbandoned DEF VerifyActiveZero
    <2>4. DeletionMove(s)
      BY <2>1, <2>2 DEF DeletionMove
    <2> HIDE DEF x
    <2> QED
      BY <2>1, <2>2, <2>4, <1>u DEF index
  <1>4. CASE RecordActiveZero(s)
    <2>1. slot[s].pc = "record_active_zero" /\ UNCHANGED <<index, files, revisions>>
      BY <1>4 DEF RecordActiveZero, At, prepVars
    <2>2. RecordProof(s, "active_zero", "DELETE_SCREENING_POINTS")
      BY <1>4 DEF RecordActiveZero
    <2>3. /\ RowKept(s)
          /\ del'[x].proofs = del[x].proofs \cup {"active_zero"} /\ del'[x] # NoProgress
          /\ \A d \in Documents \ {x} : del'[d] = del[d]
          /\ slot'[s].seen = slot[s].seen \cup {"active_zero"}
          /\ slot'[s].pc = NextPhase(slot[s].seen \cup {"active_zero"})
      BY <2>2, <1>0, <1>h, ProofAdded
    <2>4. DeletionMove(s)
      BY <2>1, <2>3 DEF DeletionMove
    <2> HIDE DEF x
    <2> QED
      BY <2>1, <2>3, <2>4, <1>u DEF index
  <1>5. CASE DeleteScreeningPoints(s)
    <2>0. PICK left \in SUBSET screening[x] :
            /\ screening' = [screening EXCEPT ![x] = left]
            /\ Attempt(s, left, {}, "verify_screening_zero")
      BY <1>5 DEF DeleteScreeningPoints
    <2>1. /\ RowKept(s) /\ slot[s].pc = "delete_screening" /\ UNCHANGED <<active, files>>
          /\ del'[x].proofs = del[x].proofs /\ del'[x] # NoProgress
          /\ \A d \in Documents \ {x} : del'[d] = del[d]
      BY <1>5, <1>0, <1>h, PhaseKeepsProofs DEF DeleteScreeningPoints, At
    <2>2. revisions' = revisions /\ (Moved(s, "verify_screening_zero") \/ Left(s))
      BY <2>0, <1>0, <1>t, Ends, NothingAbandoned
    <2>3. screening'[x] = left /\ \A d \in Documents \ {x} : screening'[d] = screening[d]
      BY <2>0, <1>t DEF TypeOK
    <2>4. DeletionMove(s)
      BY <2>1, <2>2 DEF DeletionMove
    <2> HIDE DEF x
    <2> QED
      BY <2>1, <2>2, <2>3, <2>4, <1>u
  <1>6. CASE VerifyScreeningZero(s)
    <2>1. /\ RowKept(s) /\ slot[s].pc = "verify_screening_zero" /\ UNCHANGED <<index, files>>
          /\ del'[x].proofs = del[x].proofs /\ del'[x] # NoProgress
          /\ \A d \in Documents \ {x} : del'[d] = del[d]
      BY <1>6, <1>0, <1>h, PhaseKeepsProofs DEF VerifyScreeningZero, At
    <2>2. /\ revisions' = revisions
          /\ \/ Moved(s, "record_screening_zero") /\ screening[x] = {}
             \/ Left(s)
      BY <1>6, <1>0, <1>t, Ends, NothingAbandoned DEF VerifyScreeningZero
    <2>4. DeletionMove(s)
      BY <2>1, <2>2 DEF DeletionMove
    <2> HIDE DEF x
    <2> QED
      BY <2>1, <2>2, <2>4, <1>u DEF index
  <1>7. CASE RecordScreeningZero(s)
    <2>1. slot[s].pc = "record_screening_zero" /\ UNCHANGED <<index, files, revisions>>
      BY <1>7 DEF RecordScreeningZero, At, prepVars
    <2>2. CASE "active_zero" \in del[x].proofs
      <3>2. RecordProof(s, "screening_zero", "VERIFY_SCREENING_ZERO")
        BY <1>7, <2>2 DEF RecordScreeningZero
      <3>3. /\ RowKept(s)
            /\ del'[x].proofs = del[x].proofs \cup {"screening_zero"} /\ del'[x] # NoProgress
            /\ \A d \in Documents \ {x} : del'[d] = del[d]
            /\ slot'[s].seen = slot[s].seen \cup {"screening_zero"}
            /\ slot'[s].pc = NextPhase(slot[s].seen \cup {"screening_zero"})
        BY <3>2, <1>0, <1>h, ProofAdded
      <3>4. DeletionMove(s)
        BY <2>1, <2>2, <3>3 DEF DeletionMove
      <3> HIDE DEF x
      <3> QED
        BY <2>1, <3>3, <3>4, <1>u DEF index
    <2>3. CASE "active_zero" \notin del[x].proofs
      <3>1. Left(s) /\ UNCHANGED <<del, ops>>
        BY <1>7, <2>3, <1>t, RaiseLeaves DEF RecordScreeningZero
      <3>2. DeletionMove(s)
        BY <3>1 DEF DeletionMove
      <3> QED
        BY <3>1, <3>2, <2>1, <1>u, RowsSame DEF index
    <2> QED
      BY <2>2, <2>3
  <1>8. CASE PurgePhase(s)
    <2>1. /\ RowKept(s) /\ slot[s].pc = "purge_phase" /\ UNCHANGED <<index, files, revisions>>
          /\ del'[x].proofs = del[x].proofs /\ del'[x] # NoProgress
          /\ \A d \in Documents \ {x} : del'[d] = del[d]
      BY <1>8, <1>0, <1>h, PhaseKeepsProofs DEF PurgePhase, At, prepVars
    <2>2. Moved(s, "purge_source")
      BY <1>8, <1>t, GotoMoves DEF PurgePhase
    <2>4. DeletionMove(s)
      BY <2>1, <2>2 DEF DeletionMove
    <2> HIDE DEF x
    <2> QED
      BY <2>1, <2>4, <1>u DEF index
  <1>9. CASE PurgeSource(s)
    <2>1. /\ RowKept(s) /\ slot[s].pc = "purge_source" /\ UNCHANGED <<index, del, revisions>>
      BY <1>9, RowsSame DEF PurgeSource, At, prepVars
    <2>2. \/ Left(s) /\ files' = files
          \/ Moved(s, "purge_artifacts") /\ files' = [files EXCEPT ![x] = @ \ {"source"}]
      BY <1>9, <1>t, GotoMoves, RaiseLeaves DEF PurgeSource
    <2>3. /\ files'[x] \subseteq files[x] /\ \A d \in Documents \ {x} : files'[d] = files[d]
          /\ \/ Left(s)
             \/ Moved(s, "purge_artifacts") /\ files'[x] = files[x] \ {"source"}
      BY <2>2, <1>t DEF TypeOK
    <2>4. DeletionMove(s)
      BY <2>1, <2>3 DEF DeletionMove
    <2> HIDE DEF x
    <2> QED
      BY <2>1, <2>3, <2>4, <1>u DEF index
  <1>10. CASE PurgeArtifacts(s)
    <2>1. /\ RowKept(s) /\ slot[s].pc = "purge_artifacts" /\ UNCHANGED <<index, del, revisions>>
      BY <1>10, RowsSame DEF PurgeArtifacts, At, prepVars
    <2>2. Moved(s, "purge_commit") /\ files' = [files EXCEPT ![x] = @ \ {"artifact"}]
      BY <1>10, <1>t, GotoMoves DEF PurgeArtifacts
    <2>3. /\ files'[x] = files[x] \ {"artifact"}
          /\ \A d \in Documents \ {x} : files'[d] = files[d]
      BY <2>2, <1>t DEF TypeOK
    <2>4. DeletionMove(s)
      BY <2>1, <2>2, <2>3 DEF DeletionMove
    <2> HIDE DEF x
    <2> QED
      BY <2>1, <2>3, <2>4, <1>u DEF index
  <1> QED
    BY <1>1, <1>2, <1>3, <1>4, <1>5, <1>6, <1>7, <1>8, <1>9, <1>10

\* What a slot does that leaves its statement without any other effect.
TroubleEffect(s) ==
    /\ slot[s].pc # "idle" /\ Left(s) /\ Abandoned(s) /\ RowKept(s)
    /\ UNCHANGED <<doc, content, pub, del, active, screening, files>>
    /\ \A d \in Documents \ {Doc(s)} : Untouched(d)

\* Lost leases, lost ownership, errors and missing configuration.
LEMMA TroubleEffects ==
    ASSUME TypeInv, NEW s \in Slots,
           LoseLease(s) \/ LoseOwnership(s) \/ Fault(s) \/ Misconfigured(s)
    PROVE  TroubleEffect(s)
  <1>1. slot[s].pc \in Steps /\ slot[s].pc # "idle"
    BY DEF LoseLease, LoseOwnership, Fault, Misconfigured, LeaseChecked, OwnershipChecked,
           Configured, Steps, PreflightSteps, PublishSteps, DeletionSteps
  <1>t. /\ slot \in [Slots -> Slot] /\ TypeOK /\ Doc(s) \in Documents
        /\ revisions \in [Documents -> Seq(RevisionStatus)]
    BY <1>1, AtWork DEF TypeInv, TypeOK, RevisionStatus
  <1>2. UNCHANGED <<doc, content, pub, del, active, screening, files>> /\ RowKept(s)
    BY RowsSame DEF LoseLease, LoseOwnership, Fault, Misconfigured, prepVars, index
  <1>3. Left(s) /\ Abandoned(s)
    <2>1. CASE LoseLease(s)
      BY <2>1, <1>t, ReleaseLeaves, Abandons DEF LoseLease
    <2>2. CASE LoseOwnership(s)
      BY <2>2, <1>t, RaiseLeaves DEF LoseOwnership, Abandoned, prepVars
    <2>3. CASE Fault(s) \/ Misconfigured(s)
      BY <2>3, <1>t, Ends DEF Fault, Misconfigured
    <2> QED
      BY <2>1, <2>2, <2>3
  <1>4. \A d \in Documents \ {Doc(s)} : revisions'[d] = revisions[d]
    BY <1>3, <1>t DEF Abandoned
  <1> QED
    BY <1>1, <1>2, <1>3, <1>4 DEF TroubleEffect, Untouched
==============================================================================
