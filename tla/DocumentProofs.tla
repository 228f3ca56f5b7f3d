--------------------------- MODULE DocumentProofs ---------------------------
(***************************************************************************)
(* What the lifecycle promises of every document, for any documents,       *)
(* chunks, slots and bounds.  The invariant has three parts: what the rows *)
(* of one document say together (RowsAgree), what a slot knows at each     *)
(* statement (SlotInformed), and what the operations say of their          *)
(* documents (PublicationsBound, ReplacementBound).  A step touches only   *)
(* the documents its operation locks, so every action is looked at for     *)
(* those alone.                                                            *)
(***************************************************************************)
EXTENDS LifecycleProofs

-----------------------------------------------------------------------------
(* The rows of one document. *)

\* States of a document that was never approved.
Fresh == {"ABSENT", "PREFLIGHTING", "PREFLIGHT_FAILED", "REVIEW_REQUIRED"}

\* A deletion checkpoint is that of a dying document, and is complete exactly
\* when the document is terminal.
CheckpointFits(d) ==
    /\ del[d] # NoProgress <=> doc[d].state \in Dying
    /\ "tombstoned" \in del[d].proofs <=> doc[d].state \in Disposition
    /\ doc[d].state \in Disposition => del[d].proofs = Proof
    /\ doc[d].key <=> doc[d].state # "ABSENT" /\ "storage_purged" \notin del[d].proofs

\* What is proved gone is gone.
ProofsTrue(d) ==
    /\ "active_zero" \in del[d].proofs => active[d] = {}
    /\ "screening_zero" \in del[d].proofs => screening[d] = {}
    /\ "storage_purged" \in del[d].proofs => files[d] = {} /\ ~content[d]

\* A publication is that of an approved document and names its last revision,
\* which is sealed.
PublicationFits(d) ==
    /\ pub[d].status = "NONE" => pub[d] = NoPublication
    /\ pub[d].status # "NONE" =>
        /\ doc[d].state \notin Fresh
        /\ Sealed(d, pub[d].rev) /\ pub[d].rev = Len(revisions[d])
    /\ doc[d].state \in {"PUBLISHING", "PUBLISH_FAILED"} => pub[d].status \notin {"NONE", "VERIFIED"}
    /\ doc[d].state = "REVIEW_REQUIRED" => Sealed(d, Len(revisions[d]))
    /\ active[d] # {} => doc[d].state \notin Fresh

ReadyShown(d) ==
    doc[d].state = "READY" =>
        /\ pub[d].status = "VERIFIED"
        /\ active[d] = ActivePoints(pub[d].rev, Chunks, TRUE) /\ screening[d] = {}

ReplacedDeleted(d) ==
    doc[d].replacedBy # None =>
        /\ doc[d].state \in Disposition => doc[d].state = "DELETED"
        /\ doc[d].disposition = "DELETED"

RowsAgree(d) ==
    CheckpointFits(d) /\ ProofsTrue(d) /\ PublicationFits(d) /\ ReadyShown(d) /\ ReplacedDeleted(d)

-----------------------------------------------------------------------------
(* What a slot knows at each statement. *)

\* The statement belongs to the type of the operation, which is open.
StepFits(s) ==
    /\ Op(s).state \in OpenState
    /\ slot[s].pc \in PreflightSteps => Op(s).type = "PREFLIGHT"
    /\ slot[s].pc \in PublishSteps => Op(s).type = "PUBLISH"
    /\ slot[s].pc \in DeletionSteps => Op(s).type = "DELETE" \/ Op(s).target # None
    /\ slot[s].pc = "snapshot" => Op(s).type # "PREFLIGHT"

\* The statements at which the revision in hand exists.
Preparing == PreflightSteps \ {"source", "begin", "reject"}

\* The revision in hand is the last one of the document.
RevisionInHand(s) ==
    /\ slot[s].pc \in Preparing =>
        /\ slot[s].rev \in DOMAIN revisions[Doc(s)]
        /\ slot[s].rev = Len(revisions[Doc(s)])
        /\ revisions[Doc(s)][slot[s].rev] =
            IF slot[s].pc = "finish_preflight" THEN "SEALED" ELSE "PREPARING"
    /\ slot[s].pc \in TryBlock => Op(s).rev = slot[s].rev

\* Points were verified, and an old document is gone before.
PointsInHand(s) ==
    /\ slot[s].pc \in {"record_upserted", "remove_screening", "verify_removal", "finish_publication"} =>
        active[Doc(s)] = ActivePoints(Op(s).rev, Chunks, TRUE)
    /\ slot[s].pc = "finish_publication" => screening[Doc(s)] = {}
    /\ slot[s].pc \in PublishSteps /\ Op(s).target # None => doc[Op(s).target].state \in Disposition

PurgeSteps == {"purge_phase", "purge_source", "purge_artifacts", "purge_commit"}

\* The proofs read from the checkpoint are up to date, and zero was seen.
ProofsInHand(s) ==
    LET x == Subject(s) IN
    /\ slot[s].pc \in DeletionSteps \ {"deletion_checkpoint"} => slot[s].seen = del[x].proofs
    /\ slot[s].pc \in PurgeSteps =>
        {"active_zero", "screening_zero"} \subseteq slot[s].seen /\ "storage_purged" \notin slot[s].seen
    /\ slot[s].pc = "commit_tombstone" =>
        slot[s].seen = {"active_zero", "screening_zero", "storage_purged"}
    /\ slot[s].pc = "record_active_zero" => active[x] = {}
    /\ slot[s].pc = "record_screening_zero" => screening[x] = {}
    /\ slot[s].pc = "purge_artifacts" => "source" \notin files[x]
    /\ slot[s].pc = "purge_commit" => files[x] = {}

SlotInformed(s) ==
    slot[s].pc # "idle" => StepFits(s) /\ RevisionInHand(s) /\ PointsInHand(s) /\ ProofsInHand(s)

-----------------------------------------------------------------------------
(* What the operations say of their documents. *)

\* A publication operation publishes what was approved, and an open one with
\* a target has not failed to delete it.
PublicationsBound ==
    \A i \in DOMAIN ops :
        /\ ops[i].type = "PUBLISH" =>
            pub[ops[i].doc].status # "NONE" /\ ops[i].rev = pub[ops[i].doc].rev
        /\ ops[i].state \in OpenState /\ ops[i].target # None =>
            doc[ops[i].target].state \in {"DELETING"} \cup Disposition

\* A replacement is bound to its old document for ever, and shows nothing
\* before that is terminal.
ReplacementBound ==
    \A t \in Documents : doc[t].replacedBy # None =>
        /\ doc[doc[t].replacedBy].state \notin Fresh
        /\ \A i \in DOMAIN ops :
            ops[i].type = "PUBLISH" /\ ops[i].doc = doc[t].replacedBy => ops[i].target = t
        /\ active[doc[t].replacedBy] # {} => doc[t].state \in Disposition

AllRowsAgree == \A d \in Documents : RowsAgree(d)
AllInformed == \A s \in Slots : SlotInformed(s)

-----------------------------------------------------------------------------
(* The invariant, and what frames a step. *)

DocumentInv ==
    /\ TypeInv /\ Ownership /\ SlotsDisjoint
    /\ AllRowsAgree /\ AllInformed /\ PublicationsBound /\ ReplacementBound

\* The rows of a document that no one touches go on agreeing.
LEMMA UntouchedAgrees ==
    ASSUME NEW d \in Documents, RowsAgree(d), Untouched(d)
    PROVE  RowsAgree(d)'
  BY DEF RowsAgree, Untouched, CheckpointFits, ProofsTrue, PublicationFits, ReadyShown,
         ReplacedDeleted, Sealed

\* What a slot knows stays true while its documents are left alone.
LEMMA InformedKept ==
    ASSUME NEW t \in Slots, SlotInformed(t), slot'[t] = slot[t],
           slot[t].pc # "idle" =>
              /\ ops'[slot[t].op].state \in OpenState
              /\ ops'[slot[t].op].type = Op(t).type /\ ops'[slot[t].op].doc = Op(t).doc
              /\ ops'[slot[t].op].target = Op(t).target /\ ops'[slot[t].op].rev = Op(t).rev
              /\ Untouched(Doc(t)) /\ Untouched(Subject(t))
              /\ Op(t).target # None => doc'[Op(t).target] = doc[Op(t).target]
    PROVE  SlotInformed(t)'
  <1> SUFFICES ASSUME slot[t].pc # "idle"
               PROVE  (StepFits(t) /\ RevisionInHand(t) /\ PointsInHand(t) /\ ProofsInHand(t))'
    BY DEF SlotInformed
  <1>0. StepFits(t) /\ RevisionInHand(t) /\ PointsInHand(t) /\ ProofsInHand(t)
    BY DEF SlotInformed
  <1>1. /\ Doc(t)' = Doc(t) /\ Subject(t)' = Subject(t)
        /\ Op(t)'.state \in OpenState /\ Op(t)'.type = Op(t).type
        /\ Op(t)'.target = Op(t).target /\ Op(t)'.rev = Op(t).rev
    BY DEF Doc, Subject, Op
  <1>2. StepFits(t)'
    BY <1>0, <1>1 DEF StepFits
  <1>3. RevisionInHand(t)'
    BY <1>0, <1>1 DEF RevisionInHand, Untouched
  <1>4. PointsInHand(t)'
    BY <1>0, <1>1 DEF PointsInHand, Untouched
  <1>5. ProofsInHand(t)'
    BY <1>0, <1>1 DEF ProofsInHand, Untouched
  <1> QED
    BY <1>2, <1>3, <1>4, <1>5

\* What a slot at work relies on.
LEMMA Engaged ==
    ASSUME DocumentInv, NEW s \in Slots, slot[s].pc # "idle"
    PROVE  /\ slot[s].op \in DOMAIN ops /\ slot[s].op # 0 /\ ops[slot[s].op] = Op(s)
           /\ Op(s) \in Operation /\ Op(s).state \in OpenState /\ Op(s).type \in OperationType
           /\ Doc(s) = Op(s).doc /\ Doc(s) \in Documents /\ Subject(s) \in Documents
           /\ Op(s).target \in Documents \cup {None}
           /\ doc[Doc(s)].state = InProgressState(Op(s).type)
           /\ Doc(s) \in Locked(Op(s)) /\ Subject(s) \in Locked(Op(s))
           /\ Locked(Op(s)) = {Doc(s), Subject(s)}
           /\ Op(s).target # None =>
                /\ Op(s).type = "PUBLISH" /\ Op(s).target # Doc(s) /\ Subject(s) = Op(s).target
                /\ doc[Op(s).target].replacedBy = Doc(s)
                /\ doc[Op(s).target].state \in {"DELETING"} \cup Disposition
           /\ Op(s).target = None => Subject(s) = Doc(s)
           /\ SlotInformed(s) /\ RowsAgree(Doc(s)) /\ RowsAgree(Subject(s))
           /\ StepFits(s) /\ RevisionInHand(s) /\ PointsInHand(s) /\ ProofsInHand(s)
  <1>1. /\ slot[s].op \in DOMAIN ops /\ Op(s) \in Operation
        /\ Doc(s) \in Documents /\ Subject(s) \in Documents
    BY AtWork DEF DocumentInv
  <1>2. slot[s].op # 0
    BY <1>1, OpsLength DEF DocumentInv, TypeInv, TypeOK
  <1>3. ops[slot[s].op] = Op(s) /\ Doc(s) = Op(s).doc
    BY DEF Op, Doc
  <1>4. /\ SlotInformed(s) /\ StepFits(s) /\ RevisionInHand(s) /\ PointsInHand(s)
        /\ ProofsInHand(s) /\ Op(s).state \in OpenState
    BY DEF DocumentInv, AllInformed, SlotInformed, StepFits
  <1>5. /\ Op(s).type \in OperationType /\ Op(s).target \in Documents \cup {None}
    BY <1>1 DEF Operation
  <1>6. doc[Doc(s)].state = InProgressState(Op(s).type)
    BY <1>1, <1>3, <1>4 DEF DocumentInv, Ownership, WorkIsOwned
  <1>7. Op(s).target # None =>
          /\ Op(s).type = "PUBLISH" /\ Op(s).target # Doc(s) /\ Subject(s) = Op(s).target
          /\ doc[Op(s).target].replacedBy = Doc(s)
          /\ doc[Op(s).target].state \in {"DELETING"} \cup Disposition
    BY <1>1, <1>3, <1>4 DEF DocumentInv, Ownership, TargetsReplaced, PublicationsBound, Subject
  <1>8. Op(s).target = None => Subject(s) = Doc(s)
    BY <1>3 DEF Subject
  <1>9. Locked(Op(s)) = {Doc(s), Subject(s)}
    BY <1>1, <1>3, <1>7, <1>8, NoneAssumption DEF Locked
  <1>10. RowsAgree(Doc(s)) /\ RowsAgree(Subject(s))
    BY <1>1 DEF DocumentInv, AllRowsAgree
  <1> QED
    BY <1>1, <1>2, <1>3, <1>4, <1>5, <1>6, <1>7, <1>8, <1>9, <1>10

\* A step of slot s is looked at for the documents X of its operation, and for
\* the slot itself: no other slot works on them.
LEMMA WorkerFrame ==
    ASSUME DocumentInv, NEW s \in Slots, slot[s].pc # "idle", SlotStep(s), HistoryKept,
           \A i \in DOMAIN ops : i # slot[s].op => ops'[i] = ops[i],
           NEW X \in SUBSET Locked(Op(s)),
           \A d \in Documents \ X : Untouched(d),
           \A d \in X : RowsAgree(d)',
           SlotInformed(s)'
    PROVE  AllRowsAgree' /\ AllInformed'
  <1>1. AllRowsAgree'
    <2> SUFFICES ASSUME NEW d \in Documents PROVE RowsAgree(d)'
      BY DEF AllRowsAgree
    <2>1. RowsAgree(d)
      BY DEF DocumentInv, AllRowsAgree
    <2>2. CASE d \in X
      BY <2>2
    <2>3. CASE d \notin X
      BY <2>1, <2>3, UntouchedAgrees
    <2> QED
      BY <2>2, <2>3
  <1>2. AllInformed'
    <2> SUFFICES ASSUME NEW t \in Slots PROVE SlotInformed(t)'
      BY DEF AllInformed
    <2>1. CASE t = s
      BY <2>1
    <2>2. CASE t # s
      <3>1. slot'[t] = slot[t] /\ SlotInformed(t)
        BY <2>2 DEF DocumentInv, TypeInv, TypeOK, AllInformed, SlotStep
      <3>2. ASSUME slot[t].pc # "idle"
            PROVE  /\ ops'[slot[t].op].state \in OpenState
                   /\ ops'[slot[t].op].type = Op(t).type /\ ops'[slot[t].op].doc = Op(t).doc
                   /\ ops'[slot[t].op].target = Op(t).target
                   /\ ops'[slot[t].op].rev = Op(t).rev
                   /\ Untouched(Doc(t)) /\ Untouched(Subject(t))
                   /\ Op(t).target # None => doc'[Op(t).target] = doc[Op(t).target]
        <4>1. /\ slot[t].op \in DOMAIN ops /\ slot[t].op # 0 /\ ops[slot[t].op] = Op(t)
              /\ Op(t).state \in OpenState /\ Doc(t) \in Documents /\ Subject(t) \in Documents
              /\ Locked(Op(t)) = {Doc(t), Subject(t)}
              /\ Op(t).target # None => Subject(t) = Op(t).target
          BY <3>2, Engaged
        <4>2. slot[s].op # 0 /\ Doc(s) \in Locked(Op(s)) /\ ops[slot[s].op] = Op(s)
          BY Engaged
        <4>3. Locked(Op(s)) \cap Locked(Op(t)) = {}
          BY <2>2, <4>1, <4>2 DEF DocumentInv, SlotsDisjoint
        <4>4. slot[t].op # slot[s].op
          BY <4>1, <4>2, <4>3
        <4>5. ops'[slot[t].op] = Op(t)
          BY <4>1, <4>4
        <4>6. Untouched(Doc(t)) /\ Untouched(Subject(t))
          BY <4>1, <4>3
        <4> QED
          BY <4>1, <4>5, <4>6 DEF Untouched
      <3> QED
        BY <3>1, <3>2, InformedKept
    <2> QED
      BY <2>1, <2>2
  <1> QED
    BY <1>1, <1>2

\* A slot that left its statement knows nothing but its operation.
LEMMA LeftInformed ==
    ASSUME DocumentInv, NEW s \in Slots, slot[s].pc # "idle", SlotStep(s), Left(s),
           slot'[s].pc # "idle" => ops'[slot[s].op].state \in OpenState
    PROVE  SlotInformed(s)'
  <1>1. CASE slot'[s].pc = "idle"
    BY <1>1 DEF SlotInformed
  <1>2. CASE slot'[s].pc # "idle"
    <2>1. slot'[s].pc = "failing" /\ slot'[s].op = slot[s].op
      BY <1>2 DEF Left, SlotStep, Idle, DocumentInv, TypeInv, TypeOK
    <2>2. ops'[slot'[s].op].state \in OpenState
      BY <1>2, <2>1
    <2> QED
      BY <2>1, <2>2 DEF SlotInformed, StepFits, RevisionInHand, PointsInHand, ProofsInHand, Op,
             PreflightSteps, PublishSteps, DeletionSteps, Preparing, PurgeSteps, TryBlock
  <1> QED
    BY <1>1, <1>2

\* A quiet step keeps what operations say of their documents, if it keeps the
\* approvals and adds points only after the old document is terminal.
LEMMA QuietBound ==
    ASSUME DocumentInv, NEW s \in Slots, slot[s].pc # "idle", QueueQuiet, doc' = doc,
           \A i \in DOMAIN ops : i # slot[s].op => ops'[i] = ops[i],
           Op(s).type = "PUBLISH" => ops'[slot[s].op].rev = Op(s).rev,
           \A d \in Documents : pub[d].status # "NONE" =>
              pub'[d].status # "NONE" /\ pub'[d].rev = pub[d].rev,
           \A d \in Documents :
              \/ active'[d] \subseteq active[d]
              \/ d = Doc(s) /\ slot[s].pc \in PublishSteps
    PROVE  PublicationsBound' /\ ReplacementBound'
  <1>0. /\ slot[s].op \in DOMAIN ops /\ ops[slot[s].op] = Op(s)
        /\ DOMAIN ops' = DOMAIN ops
    BY Engaged DEF QueueQuiet
  <1>1. \A i \in DOMAIN ops :
          /\ ops'[i].type = ops[i].type /\ ops'[i].doc = ops[i].doc
          /\ ops'[i].target = ops[i].target /\ ops'[i].state = ops[i].state
          /\ ops[i].doc \in Documents
          /\ ops[i].type = "PUBLISH" => ops'[i].rev = ops[i].rev
    BY <1>0, OpsTyped DEF QueueQuiet, HistoryKept, DocumentInv
  <1>2. PublicationsBound'
    BY <1>0, <1>1 DEF DocumentInv, PublicationsBound
  <1>3. ReplacementBound'
    <2> SUFFICES ASSUME NEW t \in Documents, doc[t].replacedBy # None
                 PROVE  /\ doc[doc[t].replacedBy].state \notin Fresh
                        /\ \A i \in DOMAIN ops :
                            ops'[i].type = "PUBLISH" /\ ops'[i].doc = doc[t].replacedBy
                                => ops'[i].target = t
                        /\ active'[doc[t].replacedBy] # {} => doc[t].state \in Disposition
      BY <1>0 DEF ReplacementBound
    <2> DEFINE d == doc[t].replacedBy
    <2>1. /\ doc[d].state \notin Fresh
          /\ \A i \in DOMAIN ops : ops[i].type = "PUBLISH" /\ ops[i].doc = d => ops[i].target = t
          /\ active[d] # {} => doc[t].state \in Disposition
      BY DEF DocumentInv, ReplacementBound
    <2>2. d \in Documents
      BY DEF DocumentInv, TypeInv, TypeOK, DocumentRow
    <2>3. ASSUME active'[d] # {} PROVE doc[t].state \in Disposition
      <3>1. CASE active'[d] \subseteq active[d]
        BY <2>1, <2>3, <3>1
      <3>2. CASE d = Doc(s) /\ slot[s].pc \in PublishSteps
        <4>1. Op(s).type = "PUBLISH" /\ Op(s).doc = d /\ PointsInHand(s)
          BY <3>2, Engaged DEF StepFits
        <4>2. Op(s).target = t /\ t # None
          BY <4>1, <2>1, <1>0, NoneAssumption
        <4> QED
          BY <4>1, <4>2, <3>2 DEF PointsInHand
      <3> QED
        BY <2>2, <3>1, <3>2
    <2> QED
      BY <2>1, <2>3, <1>1
  <1> QED
    BY <1>2, <1>3

-----------------------------------------------------------------------------
(* The quiet steps of a slot. *)

\* A quiet step keeps the invariant if it informs its own slot and keeps the
\* rows of the one document it writes, x.
LEMMA QuietInv ==
    ASSUME DocumentInv, NEW s \in Slots, slot[s].pc # "idle", Quiet(s),
           NEW x \in Locked(Op(s)), \A d \in Documents \ {x} : Untouched(d),
           RowsAgree(x)', SlotInformed(s)',
           \A i \in DOMAIN ops : i # slot[s].op => ops'[i] = ops[i],
           Op(s).type = "PUBLISH" => ops'[slot[s].op].rev = Op(s).rev,
           pub[x].status # "NONE" => pub'[x].status # "NONE" /\ pub'[x].rev = pub[x].rev,
           \/ active'[x] \subseteq active[x]
           \/ x = Doc(s) /\ slot[s].pc \in PublishSteps
    PROVE  AllRowsAgree' /\ AllInformed' /\ PublicationsBound' /\ ReplacementBound'
  <1>1. SlotStep(s) /\ HistoryKept /\ QueueQuiet /\ doc' = doc
    BY DEF Quiet, QueueQuiet
  <1>2. AllRowsAgree' /\ AllInformed'
    <2> DEFINE X == {x}
    <2>1. /\ X \in SUBSET Locked(Op(s)) /\ \A d \in Documents \ X : Untouched(d)
          /\ \A d \in X : RowsAgree(d)'
      OBVIOUS
    <2> HIDE DEF X
    <2> QED
      BY <1>1, <2>1, WorkerFrame
  <1>3. \A d \in Documents :
          /\ pub[d].status # "NONE" => pub'[d].status # "NONE" /\ pub'[d].rev = pub[d].rev
          /\ \/ active'[d] \subseteq active[d]
             \/ d = Doc(s) /\ slot[s].pc \in PublishSteps
    BY DEF Untouched
  <1>4. PublicationsBound' /\ ReplacementBound'
    BY <1>1, <1>3, QuietBound
  <1> QED
    BY <1>2, <1>4

\* The rows of a document in preflight: nothing was approved, no deletion began.
LEMMA PreflightRows ==
    ASSUME NEW d \in Documents, RowsAgree(d), doc[d].state = "PREFLIGHTING",
           doc'[d] = doc[d], pub'[d] = pub[d], del'[d] = del[d], active'[d] = active[d]
    PROVE  RowsAgree(d)'
  <1>1. /\ "PREFLIGHTING" \in Fresh /\ "PREFLIGHTING" \notin Dying
        /\ "PREFLIGHTING" \notin Disposition
    BY DEF Fresh, Dying, Disposition
  <1>2. del[d] = NoProgress /\ pub[d].status = "NONE" /\ pub[d] = NoPublication
    BY <1>1 DEF RowsAgree, CheckpointFits, PublicationFits
  <1>3. del'[d].proofs = {} /\ NoProgress.proofs = {}
    BY <1>2 DEF NoProgress
  <1>4. CheckpointFits(d)' /\ ReplacedDeleted(d)'
    BY DEF RowsAgree, CheckpointFits, ReplacedDeleted
  <1>5. ProofsTrue(d)' /\ ReadyShown(d)'
    BY <1>3 DEF ProofsTrue, ReadyShown
  <1>6. PublicationFits(d)'
    BY <1>2 DEF RowsAgree, PublicationFits
  <1> QED
    BY <1>4, <1>5, <1>6 DEF RowsAgree

\* A preflight slot knows its revision.
LEMMA PreflightInformed ==
    ASSUME DocumentInv, NEW s \in Slots, PreflightEffect(s), Quiet(s)
    PROVE  SlotInformed(s)'
  <1> DEFINE k == slot[s].op
             d == Doc(s)
             r == slot[s].rev
  <1>0. slot[s].pc # "idle" /\ slot[s].pc \in PreflightSteps
    BY DEF PreflightEffect, PreflightSteps
  <1>e. /\ k \in DOMAIN ops /\ ops[k] = Op(s) /\ Op(s).state \in OpenState
        /\ d = Op(s).doc /\ d \in Documents /\ StepFits(s) /\ RevisionInHand(s)
        /\ Op(s).type = "PREFLIGHT"
    BY <1>0, Engaged DEF StepFits
  <1>q. /\ ops'[k].state \in OpenState /\ ops'[k].type = "PREFLIGHT" /\ ops'[k].doc = d
        /\ ops'[k].target = Op(s).target
        /\ slot[s].pc # "bind" => ops'[k].rev = Op(s).rev
    BY <1>e DEF Quiet, QueueQuiet, HistoryKept, PreflightEffect, RowBound
  <1>1. CASE Left(s)
    BY <1>1, <1>0, <1>q, LeftInformed DEF Quiet
  <1>2. CASE ~Left(s)
    <2>1. slot'[s].pc # "idle" /\ slot'[s].pc # "failing" /\ slot'[s].op = k
      BY <1>2, <1>0 DEF Left, Quiet, SlotStep, Idle, DocumentInv, TypeInv, TypeOK
    <2>2. /\ Op(s)' = ops'[k] /\ Doc(s)' = d
      BY <2>1, <1>q DEF Op, Doc
    <2>t. /\ revisions \in [Documents -> Seq(RevisionStatus)]
          /\ revisions[d] \in Seq(RevisionStatus) /\ Len(revisions[d]) \in Nat
          /\ DOMAIN revisions[d] = 1 .. Len(revisions[d])
      BY <1>e, LenProperties DEF DocumentInv, TypeInv, TypeOK, RevisionStatus
    <2>3. slot'[s].pc \in PreflightSteps
      BY <2>1 DEF PreflightEffect, PreflightMove, Left, Moved, PreflightSteps, TryBlock
    <2>4. StepFits(s)'
      BY <2>2, <2>3, <1>q
      DEF StepFits, PreflightSteps, PublishSteps, DeletionSteps
    <2>5. PointsInHand(s)' /\ ProofsInHand(s)'
      BY <2>3 DEF PointsInHand, ProofsInHand, PreflightSteps, PublishSteps, DeletionSteps,
             PurgeSteps
    \* What is in hand at the next statement.
    <2>h. SUFFICES
            /\ slot'[s].pc \in Preparing =>
                /\ slot'[s].rev \in DOMAIN revisions'[d]
                /\ slot'[s].rev = Len(revisions'[d])
                /\ revisions'[d][slot'[s].rev] =
                    IF slot'[s].pc = "finish_preflight" THEN "SEALED" ELSE "PREPARING"
            /\ slot'[s].pc \in TryBlock => ops'[k].rev = slot'[s].rev
      BY <2>2, <2>4, <2>5 DEF SlotInformed, RevisionInHand
    <2>6. CASE slot'[s].pc \in {"begin", "reject"}
      BY <2>6 DEF Preparing, TryBlock
    <2>7. CASE /\ slot'[s].pc = "prepare" /\ slot'[s].rev = Len(revisions[d]) + 1
               /\ revisions' = [revisions EXCEPT ![d] = Append(revisions[d], "PREPARING")]
      <3>1. revisions'[d] = Append(revisions[d], "PREPARING")
        BY <2>7, <2>t, <1>e
      <3>2. /\ Len(revisions'[d]) = Len(revisions[d]) + 1
            /\ DOMAIN revisions'[d] = 1 .. Len(revisions[d]) + 1
            /\ revisions'[d][Len(revisions[d]) + 1] = "PREPARING"
        BY <3>1, <2>t, AppendProperties, LenProperties DEF RevisionStatus
      <3> QED
        BY <2>7, <3>2, <2>t DEF TryBlock
    \* The revision in hand before the step.
    <2>8. slot[s].pc \in Preparing =>
            /\ r \in DOMAIN revisions[d] /\ r = Len(revisions[d])
            /\ slot[s].pc # "finish_preflight" => revisions[d][r] = "PREPARING"
      BY <1>e DEF RevisionInHand
    <2>9. CASE slot[s].pc = "prepare" /\ Moved(s, "bind") /\ revisions' = revisions
      <3>1. slot[s].pc \in Preparing
        BY <2>9 DEF Preparing, PreflightSteps
      <3> QED
        BY <2>9, <3>1, <2>8 DEF Moved, TryBlock
    <2>10. CASE /\ slot[s].pc = "bind" /\ Moved(s, "write_artifact") /\ revisions' = revisions
                /\ ops'[k].rev = r
      <3>1. slot[s].pc \in Preparing
        BY <2>10 DEF Preparing, PreflightSteps
      <3> QED
        BY <2>10, <3>1, <2>8 DEF Moved
    <2>11. CASE /\ slot[s].pc \in TryBlock \ {"seal", "finish_preflight"} /\ revisions' = revisions
                /\ slot'[s].rev = r /\ slot'[s].pc \in TryBlock \ {"finish_preflight"}
      <3>1. slot[s].pc \in Preparing /\ slot[s].pc # "finish_preflight" /\ slot[s].pc # "bind"
        BY <2>11 DEF Preparing, PreflightSteps, TryBlock
      <3>2. ops'[k].rev = r
        BY <2>11, <3>1, <1>e, <1>q DEF RevisionInHand
      <3> QED
        BY <2>11, <3>1, <3>2, <2>8
    <2>12. CASE /\ slot[s].pc = "seal" /\ Moved(s, "finish_preflight")
                /\ revisions[d][r] = "PREPARING"
                /\ revisions' = [revisions EXCEPT ![d][r] = "SEALED"]
      <3>1. slot[s].pc \in Preparing /\ slot[s].pc \in TryBlock
        BY <2>12 DEF Preparing, PreflightSteps, TryBlock
      <3>2. revisions'[d] = [revisions[d] EXCEPT ![r] = "SEALED"]
        BY <2>12, <2>t, <1>e
      <3>3. /\ Len(revisions'[d]) = Len(revisions[d])
            /\ DOMAIN revisions'[d] = DOMAIN revisions[d]
            /\ revisions'[d][r] = "SEALED"
        BY <3>1, <3>2, <2>8, <2>t, ExceptSeq DEF RevisionStatus
      <3>4. ops'[k].rev = r
        BY <2>12, <3>1, <1>e, <1>q DEF RevisionInHand
      <3> QED
        BY <2>12, <3>1, <3>3, <3>4, <2>8 DEF Moved
    <2> QED
      BY <1>2, <2>6, <2>7, <2>9, <2>10, <2>11, <2>12 DEF PreflightEffect, PreflightMove
  <1> QED
    BY <1>1, <1>2

\* The preflight steps that do not complete it preserve the invariant.
LEMMA PreflightInv ==
    ASSUME DocumentInv, NEW s \in Slots, PreflightEffect(s), Quiet(s)
    PROVE  AllRowsAgree' /\ AllInformed' /\ PublicationsBound' /\ ReplacementBound'
  <1>0. slot[s].pc # "idle" /\ slot[s].pc \in PreflightSteps
    BY DEF PreflightEffect, PreflightSteps
  <1>1. /\ Doc(s) \in Documents /\ Doc(s) \in Locked(Op(s)) /\ RowsAgree(Doc(s))
        /\ Op(s).type = "PREFLIGHT" /\ doc[Doc(s)].state = "PREFLIGHTING"
    BY <1>0, Engaged DEF StepFits, InProgressState
  <1>2. PICK x \in Documents : x = Doc(s)
    BY <1>1
  <1>3. RowsAgree(x)'
    BY <1>1, <1>2, PreflightRows DEF PreflightEffect
  <1>4. /\ x \in Locked(Op(s)) /\ \A d \in Documents \ {x} : Untouched(d)
        /\ \A i \in DOMAIN ops : i # slot[s].op => ops'[i] = ops[i]
        /\ active'[x] \subseteq active[x] /\ pub'[x] = pub[x]
    BY <1>1, <1>2 DEF PreflightEffect, RowBound
  <1> QED
    BY <1>0, <1>1, <1>3, <1>4, PreflightInformed, QuietInv

\* The rows of a document being published: only points and the status change.
LEMMA PublishRows ==
    ASSUME NEW d \in Documents, RowsAgree(d), doc[d].state = "PUBLISHING",
           doc'[d] = doc[d], del'[d] = del[d], revisions'[d] = revisions[d],
           pub'[d].rev = pub[d].rev, pub'[d].status \notin {"NONE", "VERIFIED"}
    PROVE  RowsAgree(d)'
  <1>1. /\ "PUBLISHING" \notin Fresh /\ "PUBLISHING" \notin Dying
        /\ "PUBLISHING" \notin Disposition
    BY DEF Fresh, Dying, Disposition
  <1>2. del[d] = NoProgress /\ pub[d].status # "NONE"
    BY <1>1 DEF RowsAgree, CheckpointFits, PublicationFits
  <1>3. del'[d].proofs = {}
    BY <1>2 DEF NoProgress
  <1>4. CheckpointFits(d)' /\ ReplacedDeleted(d)'
    BY DEF RowsAgree, CheckpointFits, ReplacedDeleted
  <1>5. ProofsTrue(d)' /\ ReadyShown(d)'
    BY <1>3 DEF ProofsTrue, ReadyShown
  <1>6. PublicationFits(d)'
    BY <1>1, <1>2 DEF RowsAgree, PublicationFits, Sealed
  <1> QED
    BY <1>4, <1>5, <1>6 DEF RowsAgree

\* The approval of the document a publication works on.
LEMMA Approved ==
    ASSUME DocumentInv, NEW s \in Slots, slot[s].pc \in PublishSteps
    PROVE  /\ slot[s].pc # "idle" /\ Op(s).type = "PUBLISH"
           /\ doc[Doc(s)].state = "PUBLISHING"
           /\ pub[Doc(s)].status \notin {"NONE", "VERIFIED"}
           /\ pub[Doc(s)].rev = Op(s).rev /\ Sealed(Doc(s), Op(s).rev)
           /\ del[Doc(s)] = NoProgress
  <1>0. slot[s].pc # "idle"
    BY DEF PublishSteps
  <1>1. /\ Op(s).type = "PUBLISH" /\ doc[Doc(s)].state = "PUBLISHING" /\ RowsAgree(Doc(s))
        /\ slot[s].op \in DOMAIN ops /\ ops[slot[s].op] = Op(s) /\ Doc(s) = Op(s).doc
    BY <1>0, Engaged DEF StepFits, InProgressState
  <1>2. pub[Doc(s)].status \notin {"NONE", "VERIFIED"} /\ Sealed(Doc(s), pub[Doc(s)].rev)
    BY <1>1 DEF RowsAgree, PublicationFits
  <1>3. pub[Doc(s)].rev = Op(s).rev
    BY <1>1 DEF DocumentInv, PublicationsBound
  <1>4. del[Doc(s)] = NoProgress
    BY <1>1 DEF RowsAgree, CheckpointFits, Dying, Disposition
  <1> QED
    BY <1>0, <1>1, <1>2, <1>3, <1>4

\* A publishing slot knows that its points were verified.
LEMMA PublishInformed ==
    ASSUME DocumentInv, NEW s \in Slots, PublishEffect(s), Quiet(s)
    PROVE  SlotInformed(s)'
  <1> DEFINE k == slot[s].op
             d == Doc(s)
  <1>0. slot[s].pc # "idle" /\ slot[s].pc \in PublishSteps \cup {"snapshot"}
    BY DEF PublishEffect, PublishSteps
  <1>e. /\ k \in DOMAIN ops /\ ops[k] = Op(s) /\ Op(s).state \in OpenState
        /\ d = Op(s).doc /\ d \in Documents /\ StepFits(s) /\ PointsInHand(s)
        /\ Op(s).type \in OperationType
    BY <1>0, Engaged
  <1>q. /\ ops'[k].state \in OpenState /\ ops'[k].type = Op(s).type /\ ops'[k].doc = d
        /\ ops'[k].target = Op(s).target /\ ops'[k].rev = Op(s).rev
    BY <1>e DEF Quiet, QueueQuiet, HistoryKept, PublishEffect, RowKept
  <1>1. CASE Left(s)
    BY <1>1, <1>0, <1>q, LeftInformed DEF Quiet
  <1>2. CASE ~Left(s)
    <2>1. slot'[s].pc # "idle" /\ slot'[s].pc # "failing" /\ slot'[s].op = k
      BY <1>2, <1>0 DEF Left, Quiet, SlotStep, Idle, DocumentInv, TypeInv, TypeOK
    <2>2. /\ Op(s)' = ops'[k] /\ Doc(s)' = d
      BY <2>1, <1>q DEF Op, Doc
    <2>3. /\ PublishMove(s) /\ doc' = doc
      BY DEF PublishEffect
    <2>4. \/ slot'[s].pc \in PublishSteps /\ Op(s).type = "PUBLISH"
          \/ /\ slot'[s].pc = "deletion_checkpoint" /\ slot[s].pc = "snapshot"
             /\ Op(s).type = "DELETE" \/ Op(s).target # None
      BY <2>3, <1>2, <1>0, <1>e DEF PublishMove, StepFits, PublishSteps, OperationType
    <2>5. StepFits(s)'
      BY <2>2, <2>4, <1>q
      DEF StepFits, PreflightSteps, PublishSteps, DeletionSteps
    <2>6. RevisionInHand(s)' /\ ProofsInHand(s)'
      BY <2>4 DEF RevisionInHand, ProofsInHand, Preparing, PreflightSteps, PublishSteps,
             DeletionSteps, PurgeSteps, TryBlock
    <2>7. slot'[s].pc \in PublishSteps /\ Op(s).target # None =>
            doc'[Op(s).target].state \in Disposition
      BY <2>3, <1>2, <1>0, <1>e DEF PublishMove, PointsInHand, PublishSteps
    <2>8. /\ slot'[s].pc \in {"record_upserted", "remove_screening", "verify_removal",
                              "finish_publication"} =>
                active'[d] = ActivePoints(Op(s).rev, Chunks, TRUE)
          /\ slot'[s].pc = "finish_publication" => screening'[d] = {}
      BY <2>3, <1>2, <1>e DEF PublishMove, PointsInHand, index
    <2>9. PointsInHand(s)'
      BY <2>2, <2>7, <2>8, <1>q DEF PointsInHand, ActivePoints
    <2> QED
      BY <2>5, <2>6, <2>9 DEF SlotInformed
  <1> QED
    BY <1>1, <1>2

\* The publication steps that do not complete it preserve the invariant.
LEMMA PublishInv ==
    ASSUME DocumentInv, NEW s \in Slots, PublishEffect(s), Quiet(s)
    PROVE  AllRowsAgree' /\ AllInformed' /\ PublicationsBound' /\ ReplacementBound'
  <1>0. slot[s].pc # "idle" /\ slot[s].pc \in PublishSteps \cup {"snapshot"}
    BY DEF PublishEffect, PublishSteps
  <1>1. /\ Doc(s) \in Documents /\ Doc(s) \in Locked(Op(s)) /\ RowsAgree(Doc(s))
        /\ ops[slot[s].op] = Op(s)
    BY <1>0, Engaged
  <1>2. PICK x \in Documents : x = Doc(s)
    BY <1>1
  <1>3. /\ doc' = doc /\ del' = del /\ revisions' = revisions /\ content' = content
        /\ files' = files /\ PublishMove(s) /\ RowKept(s)
        /\ \A d \in Documents \ {x} : Untouched(d)
    BY <1>2 DEF PublishEffect
  <1>4. /\ pub'[x].rev = pub[x].rev
        /\ pub'[x].status = pub[x].status \/ pub'[x].status = "UPSERTED"
    <2>1. ASSUME pub' = [pub EXCEPT ![x].status = "UPSERTED"]
          PROVE  pub'[x].rev = pub[x].rev /\ pub'[x].status = "UPSERTED"
      <3>1. pub \in [Documents -> Publication] /\ pub[x] \in Publication
        BY DEF DocumentInv, TypeInv, TypeOK
      <3>2. /\ [pub[x] EXCEPT !.status = "UPSERTED"].rev = pub[x].rev
            /\ [pub[x] EXCEPT !.status = "UPSERTED"].status = "UPSERTED"
        BY <3>1 DEF Publication
      <3>3. pub'[x] = [pub[x] EXCEPT !.status = "UPSERTED"]
        BY <2>1, <3>1
      <3> QED
        BY <3>2, <3>3
    <2>2. pub' = pub \/ pub' = [pub EXCEPT ![x].status = "UPSERTED"]
      BY <1>2, <1>3 DEF PublishMove
    <2> QED
      BY <2>1, <2>2
  <1>5. /\ RowsAgree(x)'
        /\ active'[x] \subseteq active[x] \/ (x = Doc(s) /\ slot[s].pc \in PublishSteps)
        /\ pub[x].status # "NONE" => pub'[x].status # "NONE"
    <2>1. CASE slot[s].pc = "snapshot"
      <3>1. pub' = pub /\ active' = active /\ screening' = screening
        BY <2>1, <1>3 DEF PublishEffect, PublishMove
      <3>2. Untouched(x)
        BY <3>1, <1>3 DEF Untouched
      <3> QED
        BY <3>1, <3>2, <1>1, <1>2, UntouchedAgrees
    <2>2. CASE slot[s].pc \in PublishSteps
      <3>1. doc[x].state = "PUBLISHING" /\ pub[x].status \notin {"NONE", "VERIFIED"}
        BY <2>2, <1>2, Approved
      <3>2. RowsAgree(x)'
        BY <3>1, <1>1, <1>2, <1>3, <1>4, PublishRows
      <3> QED
        BY <3>1, <3>2, <2>2, <1>2, <1>4
    <2> QED
      BY <2>1, <2>2, <1>0
  <1>6. /\ x \in Locked(Op(s)) /\ ops'[slot[s].op].rev = Op(s).rev
        /\ \A i \in DOMAIN ops : i # slot[s].op => ops'[i] = ops[i]
    BY <1>1, <1>2, <1>3 DEF RowKept
  <1>7. SlotInformed(s)'
    BY PublishInformed
  <1> QED
    BY <1>0, <1>3, <1>4, <1>5, <1>6, <1>7, QuietInv

\* The rows of a document being deleted: things are removed, and a proof is
\* recorded for what is gone.
LEMMA DeletionRows ==
    ASSUME NEW x \in Documents, RowsAgree(x), doc[x].state \in {"DELETING"} \cup Disposition,
           del[x].proofs \in SUBSET Proof,
           doc'[x] = doc[x], pub'[x] = pub[x], revisions'[x] = revisions[x],
           content'[x] = content[x], del'[x] = NoProgress => del[x] = NoProgress,
           active'[x] \subseteq active[x], screening'[x] \subseteq screening[x],
           files'[x] \subseteq files[x],
           \/ del'[x].proofs = del[x].proofs
           \/ del'[x].proofs = del[x].proofs \cup {"active_zero"} /\ active[x] = {}
           \/ del'[x].proofs = del[x].proofs \cup {"screening_zero"} /\ screening[x] = {}
    PROVE  RowsAgree(x)'
  <1>1. /\ doc[x].state \in Dying
        /\ doc[x].state \notin {"READY", "REVIEW_REQUIRED", "PUBLISHING", "PUBLISH_FAILED"}
        /\ {"active_zero", "screening_zero"} \subseteq Proof
    BY DEF Dying, Disposition, Proof
  <1>2. /\ CheckpointFits(x) /\ ProofsTrue(x) /\ PublicationFits(x) /\ ReplacedDeleted(x)
    BY DEF RowsAgree
  <1>3. del[x] # NoProgress /\ del'[x] # NoProgress
    BY <1>1, <1>2 DEF CheckpointFits
  <1>4. CheckpointFits(x)'
    <2>1. /\ "tombstoned" \in del'[x].proofs <=> "tombstoned" \in del[x].proofs
          /\ "storage_purged" \in del'[x].proofs <=> "storage_purged" \in del[x].proofs
          /\ del[x].proofs = Proof => del'[x].proofs = Proof
      BY <1>1
    <2> QED
      BY <2>1, <1>1, <1>2, <1>3 DEF CheckpointFits
  <1>5. ProofsTrue(x)'
    BY <1>2 DEF ProofsTrue
  <1>6. PublicationFits(x)'
    BY <1>1, <1>2 DEF PublicationFits, Sealed
  <1>7. ReadyShown(x)' /\ ReplacedDeleted(x)'
    BY <1>1, <1>2 DEF ReadyShown, ReplacedDeleted
  <1> QED
    BY <1>4, <1>5, <1>6, <1>7 DEF RowsAgree

\* The document a deletion works on.
LEMMA Condemning ==
    ASSUME DocumentInv, NEW s \in Slots, slot[s].pc \in DeletionSteps
    PROVE  /\ slot[s].pc # "idle"
           /\ Op(s).type = "DELETE" \/ Op(s).target # None
           /\ doc[Subject(s)].state \in {"DELETING"} \cup Disposition
           /\ Op(s).target = None => doc[Subject(s)].state = "DELETING" /\ Op(s).type = "DELETE"
           /\ Op(s).target # None => Op(s).type = "PUBLISH" /\ Subject(s) = Op(s).target
           /\ del[Subject(s)] # NoProgress
           /\ del[Subject(s)].proofs \in SUBSET Proof
           /\ "tombstoned" \in del[Subject(s)].proofs =>
                /\ Op(s).target # None /\ Op(s).type = "PUBLISH" /\ Subject(s) = Op(s).target
                /\ doc[Op(s).target].state \in Disposition
  <1>0. slot[s].pc # "idle"
    BY DEF DeletionSteps
  <1>1. /\ Op(s).type = "DELETE" \/ Op(s).target # None
        /\ Op(s).target # None => /\ Op(s).type = "PUBLISH" /\ Subject(s) = Op(s).target
                                  /\ doc[Op(s).target].state \in {"DELETING"} \cup Disposition
        /\ Op(s).target = None => Subject(s) = Doc(s)
        /\ doc[Doc(s)].state = InProgressState(Op(s).type)
        /\ RowsAgree(Subject(s)) /\ Subject(s) \in Documents
    BY <1>0, Engaged DEF StepFits
  <1>2. Op(s).target = None => doc[Subject(s)].state = "DELETING" /\ Op(s).type = "DELETE"
    BY <1>1 DEF InProgressState
  <1>3. doc[Subject(s)].state \in {"DELETING"} \cup Disposition
    BY <1>1, <1>2
  <1>4. CheckpointFits(Subject(s))
    BY <1>1 DEF RowsAgree
  <1>5. del[Subject(s)] # NoProgress
    BY <1>3, <1>4 DEF CheckpointFits, Dying
  <1>6. del[Subject(s)].proofs \in SUBSET Proof
    BY <1>1 DEF DocumentInv, TypeInv, TypeOK, Progress
  <1>7. "DELETING" \notin Disposition
    BY DEF Disposition
  <1> QED
    BY <1>0, <1>1, <1>2, <1>3, <1>4, <1>5, <1>6, <1>7 DEF CheckpointFits

\* A slot that reads on from the proofs p knows what they say.
LEMMA ReadOn ==
    ASSUME DocumentInv, NEW s \in Slots, slot[s].pc \in DeletionSteps,
           slot'[s].op = slot[s].op,
           ops'[slot[s].op].state \in OpenState,
           ops'[slot[s].op].type = Op(s).type, ops'[slot[s].op].doc = Op(s).doc,
           ops'[slot[s].op].target = Op(s).target,
           NEW p \in SUBSET Proof, slot'[s].seen = p, slot'[s].pc = NextPhase(p),
           del'[Subject(s)].proofs = p,
           "tombstoned" \in p =>
              Op(s).target # None /\ doc'[Op(s).target].state \in Disposition
    PROVE  SlotInformed(s)'
  <1>1. /\ Op(s).type = "DELETE" \/ Op(s).target # None
        /\ Op(s).target # None => Op(s).type = "PUBLISH"
    BY Condemning
  <1>2. Op(s)' = ops'[slot[s].op] /\ Doc(s)' = Doc(s) /\ Subject(s)' = Subject(s)
    BY DEF Op, Doc, Subject
  <1>3. \/ slot'[s].pc \in {"delete_active", "delete_screening"}
        \/ /\ slot'[s].pc = "purge_phase"
           /\ {"active_zero", "screening_zero"} \subseteq p /\ "storage_purged" \notin p
        \/ /\ slot'[s].pc = "commit_tombstone"
           /\ p = {"active_zero", "screening_zero", "storage_purged"}
        \/ slot'[s].pc = "check_publication" /\ "tombstoned" \in p
    BY DEF NextPhase, Proof
  <1>4. StepFits(s)'
    BY <1>1, <1>2, <1>3 DEF StepFits, PreflightSteps, PublishSteps, DeletionSteps
  <1>5. RevisionInHand(s)'
    BY <1>3 DEF RevisionInHand, Preparing, PreflightSteps, TryBlock
  <1>6. PointsInHand(s)'
    BY <1>2, <1>3 DEF PointsInHand, PublishSteps
  <1>7. ProofsInHand(s)'
    BY <1>2, <1>3 DEF ProofsInHand, PurgeSteps, DeletionSteps
  <1> QED
    BY <1>4, <1>5, <1>6, <1>7 DEF SlotInformed

\* A deleting slot knows what was proved gone.
LEMMA DeletionInformed ==
    ASSUME DocumentInv, NEW s \in Slots, DeletionEffect(s), Quiet(s)
    PROVE  SlotInformed(s)'
  <1> DEFINE k == slot[s].op
             x == Subject(s)
  <1>0. slot[s].pc # "idle" /\ slot[s].pc \in DeletionSteps
    BY DEF DeletionEffect, DeletionSteps
  <1>e. /\ k \in DOMAIN ops /\ ops[k] = Op(s) /\ Op(s).state \in OpenState
        /\ x \in Documents /\ ProofsInHand(s) /\ Doc(s) = Op(s).doc
    BY <1>0, Engaged
  <1>q. /\ ops'[k].state \in OpenState /\ ops'[k].type = Op(s).type /\ ops'[k].doc = Op(s).doc
        /\ ops'[k].target = Op(s).target
    BY <1>e DEF Quiet, QueueQuiet, HistoryKept
  <1>c. /\ del[x].proofs \in SUBSET Proof
        /\ "tombstoned" \in del[x].proofs =>
              Op(s).target # None /\ doc'[Op(s).target].state \in Disposition
        /\ Op(s).type = "DELETE" \/ Op(s).target # None
    BY <1>0, Condemning DEF DeletionEffect
  <1>s. slot[s].pc # "deletion_checkpoint" => slot[s].seen = del[x].proofs
    BY <1>0, <1>e DEF ProofsInHand
  <1>1. CASE Left(s)
    BY <1>1, <1>0, <1>q, LeftInformed DEF Quiet
  <1>2. CASE ~Left(s)
    <2>1. slot'[s].pc # "idle" /\ slot'[s].pc # "failing" /\ slot'[s].op = k
      BY <1>2, <1>0 DEF Left, Quiet, SlotStep, Idle, DocumentInv, TypeInv, TypeOK
    <2>2. Op(s)' = ops'[k] /\ Doc(s)' = Doc(s) /\ Subject(s)' = x
      BY <2>1, <1>q DEF Op, Doc, Subject
    <2>m. DeletionMove(s)
      BY DEF DeletionEffect
    <2>z. {"active_zero", "screening_zero", "storage_purged", "tombstoned"} = Proof
      BY DEF Proof
    \* The slot reads on from a checkpoint.
    <2>3. ASSUME NEW p \in SUBSET Proof, slot'[s].seen = p, slot'[s].pc = NextPhase(p),
                 del'[x].proofs = p, "tombstoned" \in p => "tombstoned" \in del[x].proofs
          PROVE  SlotInformed(s)'
      BY <2>3, <1>0, <1>q, <1>c, <2>1, ReadOn
    <2>4. CASE /\ slot[s].pc = "deletion_checkpoint"
               /\ slot'[s].seen = del[x].proofs /\ slot'[s].pc = NextPhase(del[x].proofs)
               /\ del' = del
      BY <2>4, <2>3, <1>c
    <2>5. CASE /\ slot[s].pc = "record_active_zero"
               /\ slot'[s].seen = slot[s].seen \cup {"active_zero"}
               /\ slot'[s].pc = NextPhase(slot[s].seen \cup {"active_zero"})
               /\ del'[x].proofs = del[x].proofs \cup {"active_zero"}
      <3> DEFINE p == del[x].proofs \cup {"active_zero"}
      <3>1. /\ p \in SUBSET Proof
            /\ "tombstoned" \in p => "tombstoned" \in del[x].proofs
            /\ slot[s].seen \cup {"active_zero"} = p
        BY <2>5, <1>c, <1>s, <2>z
      <3> HIDE DEF p
      <3> QED
        BY <2>5, <2>3, <3>1 DEF p
    <2>6. CASE /\ slot[s].pc = "record_screening_zero"
               /\ slot'[s].seen = slot[s].seen \cup {"screening_zero"}
               /\ slot'[s].pc = NextPhase(slot[s].seen \cup {"screening_zero"})
               /\ del'[x].proofs = del[x].proofs \cup {"screening_zero"}
      <3> DEFINE p == del[x].proofs \cup {"screening_zero"}
      <3>1. /\ p \in SUBSET Proof
            /\ "tombstoned" \in p => "tombstoned" \in del[x].proofs
            /\ slot[s].seen \cup {"screening_zero"} = p
        BY <2>6, <1>c, <1>s, <2>z
      <3> HIDE DEF p
      <3> QED
        BY <2>6, <2>3, <3>1 DEF p
    \* The slot goes on inside a phase.
    <2>7. ASSUME NEW l \in DeletionSteps \ {"deletion_checkpoint", "commit_tombstone"},
                 Moved(s, l), slot[s].pc # "deletion_checkpoint",
                 del'[x].proofs = del[x].proofs,
                 l \in PurgeSteps => slot[s].pc \in PurgeSteps,
                 l = "record_active_zero" => active'[x] = {},
                 l = "record_screening_zero" => screening'[x] = {},
                 l = "purge_artifacts" => "source" \notin files'[x],
                 l = "purge_commit" => files'[x] = {}
          PROVE  SlotInformed(s)'
      <3>1. StepFits(s)'
        BY <2>2, <2>7, <1>q, <1>c
        DEF StepFits, Moved, PreflightSteps, PublishSteps, DeletionSteps
      <3>2. RevisionInHand(s)' /\ PointsInHand(s)'
        BY <2>7 DEF RevisionInHand, PointsInHand, Moved, Preparing, PreflightSteps,
               PublishSteps, DeletionSteps, TryBlock
      <3>3. ProofsInHand(s)'
        BY <2>2, <2>7, <1>s, <1>e DEF ProofsInHand, Moved, DeletionSteps
      <3> QED
        BY <3>1, <3>2, <3>3 DEF SlotInformed
    <2>8. active'[x] \subseteq active[x] /\ screening'[x] \subseteq screening[x]
      BY DEF DeletionEffect
    <2>9. CASE /\ slot[s].pc \in {"delete_active", "delete_screening"}
               /\ Moved(s, "verify_active_zero") \/ Moved(s, "verify_screening_zero")
               /\ del'[x].proofs = del[x].proofs
      BY <2>9, <2>7 DEF DeletionSteps, PurgeSteps
    <2>10. CASE /\ slot[s].pc = "verify_active_zero" /\ Moved(s, "record_active_zero")
                /\ del'[x].proofs = del[x].proofs /\ active[x] = {}
      BY <2>10, <2>7, <2>8 DEF DeletionSteps, PurgeSteps
    <2>11. CASE /\ slot[s].pc = "verify_screening_zero" /\ Moved(s, "record_screening_zero")
                /\ del'[x].proofs = del[x].proofs /\ screening[x] = {}
      BY <2>11, <2>7, <2>8 DEF DeletionSteps, PurgeSteps
    <2>12. CASE /\ slot[s].pc = "purge_phase" /\ Moved(s, "purge_source")
                /\ del'[x].proofs = del[x].proofs
      BY <2>12, <2>7 DEF DeletionSteps, PurgeSteps
    <2>13. CASE /\ slot[s].pc = "purge_source" /\ Moved(s, "purge_artifacts")
                /\ del'[x].proofs = del[x].proofs /\ files'[x] = files[x] \ {"source"}
      BY <2>13, <2>7 DEF DeletionSteps, PurgeSteps
    <2>14. CASE /\ slot[s].pc = "purge_artifacts" /\ Moved(s, "purge_commit")
                /\ del'[x].proofs = del[x].proofs /\ files'[x] = files[x] \ {"artifact"}
      <3>1. files[x] \subseteq {"source", "artifact"} /\ "source" \notin files[x]
        BY <2>14, <1>e DEF ProofsInHand, DocumentInv, TypeInv, TypeOK
      <3> QED
        BY <2>14, <2>7, <3>1 DEF DeletionSteps, PurgeSteps
    <2> QED
      BY <2>m, <1>2, <2>4, <2>5, <2>6, <2>9, <2>10, <2>11, <2>12, <2>13, <2>14 DEF DeletionMove
  <1> QED
    BY <1>1, <1>2

\* The deletion phases that change no document row preserve the invariant.
LEMMA DeletionInv ==
    ASSUME DocumentInv, NEW s \in Slots, DeletionEffect(s), Quiet(s)
    PROVE  AllRowsAgree' /\ AllInformed' /\ PublicationsBound' /\ ReplacementBound'
  <1>0. slot[s].pc # "idle" /\ slot[s].pc \in DeletionSteps
    BY DEF DeletionEffect, DeletionSteps
  <1>1. /\ Subject(s) \in Documents /\ Subject(s) \in Locked(Op(s)) /\ RowsAgree(Subject(s))
        /\ ops[slot[s].op] = Op(s) /\ ProofsInHand(s)
    BY <1>0, Engaged
  <1>2. PICK x \in Documents : x = Subject(s)
    BY <1>1
  <1>3. /\ doc'[x] = doc[x] /\ pub'[x] = pub[x] /\ revisions'[x] = revisions[x]
        /\ content'[x] = content[x]
        /\ del'[x] = NoProgress => del[x] = NoProgress
        /\ active'[x] \subseteq active[x] /\ screening'[x] \subseteq screening[x]
        /\ files'[x] \subseteq files[x]
        /\ \A d \in Documents \ {x} : Untouched(d)
        /\ RowKept(s)
    BY <1>2 DEF DeletionEffect
  <1>4. \/ del'[x].proofs = del[x].proofs
        \/ del'[x].proofs = del[x].proofs \cup {"active_zero"} /\ active[x] = {}
        \/ del'[x].proofs = del[x].proofs \cup {"screening_zero"} /\ screening[x] = {}
    BY <1>1, <1>2 DEF DeletionEffect, DeletionMove, ProofsInHand
  <1>5. doc[x].state \in {"DELETING"} \cup Disposition /\ del[x].proofs \in SUBSET Proof
    BY <1>0, <1>2, Condemning
  <1>6. RowsAgree(x)'
    BY <1>1, <1>2, <1>3, <1>4, <1>5, DeletionRows
  <1>7. /\ ops'[slot[s].op].rev = Op(s).rev
        /\ \A i \in DOMAIN ops : i # slot[s].op => ops'[i] = ops[i]
    BY <1>1, <1>3 DEF RowKept
  <1>8. SlotInformed(s)'
    BY DeletionInformed
  <1> QED
    BY <1>0, <1>1, <1>2, <1>3, <1>6, <1>7, <1>8, QuietInv

\* So do the exceptions of a slot.
LEMMA TroubleInv ==
    ASSUME DocumentInv, NEW s \in Slots, TroubleEffect(s), Quiet(s)
    PROVE  AllRowsAgree' /\ AllInformed' /\ PublicationsBound' /\ ReplacementBound'
  <1>0. slot[s].pc # "idle"
    BY DEF TroubleEffect
  <1>1. /\ Doc(s) \in Documents /\ Doc(s) \in Locked(Op(s)) /\ RowsAgree(Doc(s))
        /\ ops[slot[s].op] = Op(s) /\ Op(s).state \in OpenState /\ slot[s].op \in DOMAIN ops
        /\ StepFits(s) /\ doc[Doc(s)].state = InProgressState(Op(s).type)
    BY <1>0, Engaged
  <1>2. PICK x \in Documents : x = Doc(s)
    BY <1>1
  <1>3. RowsAgree(x)'
    <2>1. CASE slot[s].pc \in TryBlock
      <3>1. doc[x].state = "PREFLIGHTING"
        BY <2>1, <1>1, <1>2 DEF StepFits, TryBlock, PreflightSteps, InProgressState
      <3> QED
        BY <3>1, <1>1, <1>2, PreflightRows DEF TroubleEffect
    <2>2. CASE slot[s].pc \notin TryBlock
      <3>1. Untouched(x)
        BY <2>2, NothingAbandoned DEF TroubleEffect, Untouched
      <3> QED
        BY <3>1, <1>1, <1>2, UntouchedAgrees
    <2> QED
      BY <2>1, <2>2
  <1>4. /\ ops'[slot[s].op].rev = Op(s).rev /\ active'[x] \subseteq active[x] /\ pub'[x] = pub[x]
        /\ \A i \in DOMAIN ops : i # slot[s].op => ops'[i] = ops[i]
        /\ \A d \in Documents \ {x} : Untouched(d)
        /\ x \in Locked(Op(s))
    BY <1>1, <1>2 DEF TroubleEffect, RowKept
  <1>5. SlotInformed(s)'
    <2>1. ops'[slot[s].op].state \in OpenState
      BY <1>1 DEF Quiet, QueueQuiet
    <2> QED
      BY <1>0, <2>1, LeftInformed DEF TroubleEffect, Quiet
  <1> QED
    BY <1>0, <1>1, <1>2, <1>3, <1>4, <1>5, QuietInv

-----------------------------------------------------------------------------
(* Steps that write document rows. *)

\* The columns that accepted transitions, failures and tombstones leave alone.
LEMMA RowColumns ==
    ASSUME NEW row \in DocumentRow
    PROVE  /\ \A state : /\ Cleared(row, state).state = state
                         /\ Cleared(row, state).key = row.key
                         /\ Cleared(row, state).disposition = row.disposition
                         /\ Cleared(row, state).replacedBy = row.replacedBy
                         /\ Cleared(row, state).failure = "none"
           /\ \A c : /\ Condemned(row, c).state = "DELETING"
                     /\ Condemned(row, c).key = row.key
                     /\ Condemned(row, c).disposition = c
                     /\ Condemned(row, c).replacedBy = row.replacedBy
           /\ \A state, r : /\ Broken(row, state, r).state = state
                            /\ Broken(row, state, r).key = row.key
                            /\ Broken(row, state, r).disposition = row.disposition
                            /\ Broken(row, state, r).replacedBy = row.replacedBy
                            /\ Broken(row, state, r).retryable = r
           /\ Tombstoned(row).state = row.disposition
           /\ Tombstoned(row).key = row.key
           /\ Tombstoned(row).disposition = row.disposition
           /\ Tombstoned(row).replacedBy = row.replacedBy
           /\ row.disposition = "REJECTED" => Tombstoned(row).failure = row.failure
  <1>1. ASSUME NEW state
        PROVE  /\ Cleared(row, state).state = state /\ Cleared(row, state).key = row.key
               /\ Cleared(row, state).disposition = row.disposition
               /\ Cleared(row, state).replacedBy = row.replacedBy
               /\ Cleared(row, state).failure = "none"
    BY DEF Cleared, DocumentRow
  <1>2. ASSUME NEW c
        PROVE  /\ Condemned(row, c).state = "DELETING" /\ Condemned(row, c).key = row.key
               /\ Condemned(row, c).disposition = c
               /\ Condemned(row, c).replacedBy = row.replacedBy
    BY DEF Condemned, Cleared, DocumentRow
  <1>3. ASSUME NEW state, NEW r
        PROVE  /\ Broken(row, state, r).state = state /\ Broken(row, state, r).key = row.key
               /\ Broken(row, state, r).disposition = row.disposition
               /\ Broken(row, state, r).replacedBy = row.replacedBy
               /\ Broken(row, state, r).retryable = r
    BY DEF Broken, DocumentRow
  <1>4. /\ Tombstoned(row).state = row.disposition /\ Tombstoned(row).key = row.key
        /\ Tombstoned(row).disposition = row.disposition
        /\ Tombstoned(row).replacedBy = row.replacedBy
        /\ row.disposition = "REJECTED" => Tombstoned(row).failure = row.failure
    BY DEF Tombstoned, DocumentRow
  <1> QED
    BY <1>1, <1>2, <1>3, <1>4

\* A loud step keeps what operations say of their documents.
LEMMA LoudBound ==
    ASSUME DocumentInv, TypeInv', HistoryKept, active' = active,
           \A i \in DOMAIN ops : ops[i].type = "PUBLISH" => ops'[i].rev = ops[i].rev,
           \A i \in DOMAIN ops : ops'[i].state \in OpenState /\ ops[i].target # None =>
              doc'[ops[i].target].state \in {"DELETING"} \cup Disposition,
           \A d \in Documents : pub[d].status # "NONE" =>
              pub'[d].status # "NONE" /\ pub'[d].rev = pub[d].rev,
           \A d \in Documents :
              /\ doc'[d].state \in Fresh => doc[d].state \in Fresh
              /\ doc[d].state \in Disposition => doc'[d].state \in Disposition,
           \A i \in NewOps :
              /\ ops'[i].type = "PUBLISH" =>
                  /\ pub'[ops'[i].doc].status # "NONE" /\ ops'[i].rev = pub'[ops'[i].doc].rev
                  /\ \A t \in Documents : doc'[t].replacedBy = ops'[i].doc => ops'[i].target = t
              /\ ops'[i].target # None =>
                  doc'[ops'[i].target].state \in {"DELETING"} \cup Disposition,
           \A t \in Documents : doc'[t].replacedBy # doc[t].replacedBy =>
              /\ doc'[doc'[t].replacedBy].state \notin Fresh
              /\ doc[doc'[t].replacedBy].state \in Fresh
    PROVE  PublicationsBound' /\ ReplacementBound'
  <1>1. \A i \in DOMAIN ops :
          /\ ops'[i].type = ops[i].type /\ ops'[i].doc = ops[i].doc
          /\ ops'[i].target = ops[i].target /\ ops[i].doc \in Documents
    BY OpsTyped DEF HistoryKept, DocumentInv
  <1>2. PublicationsBound'
    <2> SUFFICES ASSUME NEW i \in DOMAIN ops'
                 PROVE  /\ ops'[i].type = "PUBLISH" =>
                            /\ pub'[ops'[i].doc].status # "NONE"
                            /\ ops'[i].rev = pub'[ops'[i].doc].rev
                        /\ ops'[i].state \in OpenState /\ ops'[i].target # None =>
                            doc'[ops'[i].target].state \in {"DELETING"} \cup Disposition
      BY DEF PublicationsBound
    <2>1. CASE i \in DOMAIN ops
      BY <2>1, <1>1 DEF DocumentInv, PublicationsBound
    <2>2. CASE i \notin DOMAIN ops
      BY <2>2 DEF NewOps
    <2> QED
      BY <2>1, <2>2
  <1>3. ReplacementBound'
    <2> SUFFICES ASSUME NEW t \in Documents, doc'[t].replacedBy # None
                 PROVE  /\ doc'[doc'[t].replacedBy].state \notin Fresh
                        /\ \A i \in DOMAIN ops' :
                            ops'[i].type = "PUBLISH" /\ ops'[i].doc = doc'[t].replacedBy
                                => ops'[i].target = t
                        /\ active'[doc'[t].replacedBy] # {} => doc'[t].state \in Disposition
      BY DEF ReplacementBound
    <2> DEFINE d == doc'[t].replacedBy
    <2>1. d \in Documents
      BY DEF TypeInv, TypeOK, DocumentRow
    <2>2. ASSUME NEW i \in NewOps, ops'[i].type = "PUBLISH", ops'[i].doc = d
          PROVE  ops'[i].target = t
      BY <2>2
    <2>3. CASE doc'[t].replacedBy = doc[t].replacedBy
      <3>1. /\ doc[d].state \notin Fresh
            /\ \A i \in DOMAIN ops : ops[i].type = "PUBLISH" /\ ops[i].doc = d => ops[i].target = t
            /\ active[d] # {} => doc[t].state \in Disposition
        BY <2>3 DEF DocumentInv, ReplacementBound
      <3>2. \A i \in DOMAIN ops' : ops'[i].type = "PUBLISH" /\ ops'[i].doc = d => ops'[i].target = t
        BY <3>1, <2>2, <1>1 DEF NewOps
      <3> QED
        BY <3>1, <3>2, <2>1
    <2>4. CASE doc'[t].replacedBy # doc[t].replacedBy
      <3>1. doc'[d].state \notin Fresh /\ doc[d].state \in Fresh
        BY <2>4
      <3>2. pub[d].status = "NONE" /\ active[d] = {}
        BY <2>1, <3>1 DEF DocumentInv, AllRowsAgree, RowsAgree, PublicationFits
      <3>3. \A i \in DOMAIN ops : ~(ops[i].type = "PUBLISH" /\ ops[i].doc = d)
        BY <3>2 DEF DocumentInv, PublicationsBound
      <3>4. \A i \in DOMAIN ops' : ops'[i].type = "PUBLISH" /\ ops'[i].doc = d => ops'[i].target = t
        BY <3>3, <2>2, <1>1 DEF NewOps
      <3> QED
        BY <3>1, <3>2, <3>4
    <2> QED
      BY <2>3, <2>4
  <1> QED
    BY <1>2, <1>3

\* The rows of a document that goes from one living state to another, or
\* between a deletion and its failure.
LEMMA MovedRows ==
    ASSUME NEW d \in Documents, RowsAgree(d), revisions'[d] = revisions[d],
           del'[d] = del[d], active'[d] = active[d],
           screening'[d] = screening[d], files'[d] = files[d], content'[d] = content[d],
           doc'[d].key = doc[d].key, doc'[d].disposition = doc[d].disposition,
           doc'[d].replacedBy = doc[d].replacedBy,
           doc[d].state # "ABSENT", doc'[d].state \notin {"ABSENT", "READY"},
           doc[d].state \notin Disposition, doc'[d].state \notin Disposition,
           doc[d].state \in Dying <=> doc'[d].state \in Dying,
           doc'[d].state \in Fresh => doc[d].state \in Fresh,
           doc'[d].state = "REVIEW_REQUIRED" => Sealed(d, Len(revisions[d])),
           doc'[d].state \in {"PUBLISHING", "PUBLISH_FAILED"} =>
              pub'[d].status \notin {"NONE", "VERIFIED"},
           \/ pub'[d] = pub[d]
           \/ pub'[d].rev = pub[d].rev /\ pub[d].status # "NONE" /\ pub'[d].status # "NONE"
           \/ /\ doc'[d].state \notin Fresh /\ pub'[d].status # "NONE"
              /\ pub'[d].rev = Len(revisions[d]) /\ Sealed(d, Len(revisions[d]))
    PROVE  RowsAgree(d)'
  <1>1. /\ CheckpointFits(d) /\ ProofsTrue(d) /\ PublicationFits(d) /\ ReplacedDeleted(d)
    BY DEF RowsAgree
  <1>2. CheckpointFits(d)' /\ ProofsTrue(d)'
    BY <1>1 DEF CheckpointFits, ProofsTrue
  <1>3. PublicationFits(d)'
    BY <1>1 DEF PublicationFits, Sealed
  <1>4. ReadyShown(d)' /\ ReplacedDeleted(d)'
    BY <1>1 DEF ReadyShown, ReplacedDeleted
  <1> QED
    BY <1>2, <1>3, <1>4 DEF RowsAgree

\* The rows of a document whose deletion begins.
LEMMA CondemnedRows ==
    ASSUME NEW d \in Documents, RowsAgree(d), revisions'[d] = revisions[d],
           pub'[d] = pub[d], active'[d] = active[d],
           doc[d].state \notin Dying, doc[d].state # "ABSENT", doc'[d].state = "DELETING",
           doc'[d].key = doc[d].key,
           doc'[d].replacedBy # None => doc'[d].disposition = "DELETED",
           del'[d] = [phase |-> "DELETE_ACTIVE_POINTS", proofs |-> {}]
    PROVE  RowsAgree(d)'
  <1>1. CheckpointFits(d) /\ PublicationFits(d)
    BY DEF RowsAgree
  <1>2. /\ del'[d].proofs = {} /\ del'[d].phase = "DELETE_ACTIVE_POINTS"
        /\ NoProgress.phase = None /\ NoProgress.proofs = {} /\ "DELETE_ACTIVE_POINTS" # None
    BY NullAssumption DEF NoProgress, DeletionPhase
  <1>3. del'[d] # NoProgress
    BY <1>2
  <1>4. del[d].proofs = {}
    <2>1. del[d] = NoProgress
      BY <1>1 DEF CheckpointFits
    <2> QED
      BY <2>1, <1>2
  <1>5. CheckpointFits(d)'
    BY <1>1, <1>2, <1>3, <1>4 DEF CheckpointFits, Dying, Disposition
  <1>6. ProofsTrue(d)'
    BY <1>2 DEF ProofsTrue
  <1>7. PublicationFits(d)'
    BY <1>1 DEF PublicationFits, Sealed, Fresh
  <1>8. ReadyShown(d)' /\ ReplacedDeleted(d)'
    BY DEF ReadyShown, ReplacedDeleted, Disposition
  <1> QED
    BY <1>5, <1>6, <1>7, <1>8 DEF RowsAgree

-----------------------------------------------------------------------------
(* The steps of a slot that write document rows. *)

\* Such a step is looked at for the documents of its operation alone.
LEMMA LoudInv ==
    ASSUME DocumentInv, NEW s \in Slots, slot[s].pc # "idle",
           TypeInv', SlotStep(s), HistoryKept, active' = active,
           \A i \in DOMAIN ops : i # slot[s].op => ops'[i] = ops[i],
           Op(s).type = "PUBLISH" => ops'[slot[s].op].rev = Op(s).rev,
           ops'[slot[s].op].state \in OpenState /\ Op(s).target # None =>
              doc'[Op(s).target].state \in {"DELETING"} \cup Disposition,
           NEW X \in SUBSET Locked(Op(s)),
           \A d \in Documents \ X : Untouched(d),
           \A d \in X : RowsAgree(d)',
           \A d \in X :
              /\ pub[d].status # "NONE" => pub'[d].status # "NONE" /\ pub'[d].rev = pub[d].rev
              /\ doc'[d].state \in Fresh => doc[d].state \in Fresh
              /\ doc[d].state \in Disposition => doc'[d].state \in Disposition
              /\ doc'[d].replacedBy = doc[d].replacedBy,
           \A i \in NewOps :
              /\ ops'[i].target = None /\ ops'[i].doc = Doc(s)
              /\ ops'[i].type = "PUBLISH" =>
                  /\ pub'[ops'[i].doc].status # "NONE" /\ ops'[i].rev = pub'[ops'[i].doc].rev
                  /\ doc[Doc(s)].state \in Fresh,
           SlotInformed(s)'
    PROVE  AllRowsAgree' /\ AllInformed' /\ PublicationsBound' /\ ReplacementBound'
  <1> DEFINE k == slot[s].op
  <1>e. /\ k \in DOMAIN ops /\ ops[k] = Op(s) /\ Op(s).state \in OpenState
        /\ Doc(s) \in Documents
    BY Engaged
  <1>1. AllRowsAgree' /\ AllInformed'
    BY WorkerFrame
  <1>2. \A d \in Documents :
          /\ pub[d].status # "NONE" => pub'[d].status # "NONE" /\ pub'[d].rev = pub[d].rev
          /\ doc'[d].state \in Fresh => doc[d].state \in Fresh
          /\ doc[d].state \in Disposition => doc'[d].state \in Disposition
          /\ doc'[d].replacedBy = doc[d].replacedBy
    BY DEF Untouched
  <1>3. \A i \in DOMAIN ops : ops[i].type = "PUBLISH" => ops'[i].rev = ops[i].rev
    BY <1>e
  <1>4. ASSUME NEW i \in DOMAIN ops, ops'[i].state \in OpenState, ops[i].target # None
        PROVE  doc'[ops[i].target].state \in {"DELETING"} \cup Disposition
    <2>1. CASE i = k
      BY <1>4, <1>e, <2>1
    <2>2. CASE i # k
      <3>1. ops[i].state \in OpenState
        BY <1>4, <2>2
      <3>2. Locked(ops[i]) \cap Locked(Op(s)) = {}
        BY <3>1, <2>2, <1>e DEF DocumentInv, Ownership, OneOpenOperation
      <3>3. ops[i].target \in Documents /\ ops[i].target \in Locked(ops[i])
        BY <1>4, OpsTyped DEF DocumentInv, Locked
      <3>4. doc'[ops[i].target] = doc[ops[i].target]
        BY <3>2, <3>3 DEF Untouched
      <3> QED
        BY <3>1, <3>4, <1>4 DEF DocumentInv, PublicationsBound
    <2> QED
      BY <2>1, <2>2
  <1>5. \A t \in Documents : doc[Doc(s)].state \in Fresh => doc'[t].replacedBy # Doc(s)
    <2> SUFFICES ASSUME NEW t \in Documents, doc[Doc(s)].state \in Fresh, doc[t].replacedBy = Doc(s)
                 PROVE  FALSE
      BY <1>2
    <2>1. doc[t].replacedBy # None
      BY <1>e, NoneAssumption
    <2> QED
      BY <2>1 DEF DocumentInv, ReplacementBound
  <1>6. \A i \in NewOps :
              /\ ops'[i].type = "PUBLISH" =>
                  /\ pub'[ops'[i].doc].status # "NONE" /\ ops'[i].rev = pub'[ops'[i].doc].rev
                  /\ \A t \in Documents : doc'[t].replacedBy = ops'[i].doc => ops'[i].target = t
              /\ ops'[i].target # None =>
                  doc'[ops'[i].target].state \in {"DELETING"} \cup Disposition
    BY <1>5
  <1>7. PublicationsBound' /\ ReplacementBound'
    BY <1>2, <1>3, <1>4, <1>6, LoudBound
  <1> QED
    BY <1>1, <1>7

\* _accept_rejection condemns the document under preflight.
LEMMA RejectionInv ==
    ASSUME DocumentInv, NEW s \in Slots, AcceptRejection(s)
    PROVE  AllRowsAgree' /\ AllInformed' /\ PublicationsBound' /\ ReplacementBound'
  <1> DEFINE k == slot[s].op
             row == [Succeed(Op(s), "COMPLETE") EXCEPT !.rev = Len(revisions[Doc(s)])]
             new == QueuedOperation("DELETE", Doc(s), None, Len(revisions[Doc(s)]), "QUEUED")
             condemned == [Condemned(doc[Doc(s)], "REJECTED") EXCEPT !.failure = "rejection"]
  <1>t. TypeInv' /\ SlotStep(s) /\ HistoryKept
    BY CompletionTypes DEF DocumentInv
  <1>0. /\ slot[s].pc # "idle" /\ slot[s].pc = "reject" /\ doc[Doc(s)].state = "PREFLIGHTING"
        /\ Release(s)
        /\ UNCHANGED <<revisions, content, pub, active, screening, files>>
        /\ del' = [del EXCEPT ![Doc(s)] = [phase |-> "DELETE_ACTIVE_POINTS", proofs |-> {}]]
    BY DEF AcceptRejection, At, StartDeletion, prepVars, index
  <1>e. /\ k \in DOMAIN ops /\ ops[k] = Op(s) /\ Op(s) \in Operation /\ Doc(s) \in Documents
        /\ Doc(s) \in Locked(Op(s)) /\ Doc(s) = Op(s).doc /\ RowsAgree(Doc(s)) /\ StepFits(s)
    BY <1>0, Engaged
  <1>1. Op(s).type = "PREFLIGHT"
    BY <1>0, <1>e DEF StepFits, PreflightSteps
  <1>2. doc \in [Documents -> DocumentRow] /\ del \in [Documents -> Progress]
    BY DEF DocumentInv, TypeInv, TypeOK
  <1>3. /\ row \in Operation /\ row.type = Op(s).type /\ row.doc = Op(s).doc
        /\ row.target = Op(s).target /\ row.state = "SUCCEEDED"
    <2>1. "COMPLETE" \in OperationPhase /\ Len(revisions[Doc(s)]) \in Nat
      BY <1>e, RevisionNumbers DEF DocumentInv, OperationPhase, FinalPhase
    <2>2. /\ Succeed(Op(s), "COMPLETE") \in Operation
          /\ Succeed(Op(s), "COMPLETE").type = Op(s).type
          /\ Succeed(Op(s), "COMPLETE").doc = Op(s).doc
          /\ Succeed(Op(s), "COMPLETE").target = Op(s).target
          /\ Succeed(Op(s), "COMPLETE").state = "SUCCEEDED"
      BY <1>e, <2>1, SucceedType
    <2> QED
      BY <2>1, <2>2 DEF Operation
  <1>4. /\ new \in Operation /\ new.type = "DELETE" /\ new.target = None /\ new.doc = Doc(s)
    <2>1. /\ "DELETE" \in OperationType /\ "QUEUED" \in OperationPhase
          /\ Len(revisions[Doc(s)]) \in Nat
      BY <1>e, RevisionNumbers DEF DocumentInv, OperationType, OperationPhase
    <2> QED
      BY <2>1, <1>e, QueuedType DEF QueuedOperation
  <1>5. /\ condemned.state = "DELETING" /\ condemned.key = doc[Doc(s)].key
        /\ condemned.replacedBy = doc[Doc(s)].replacedBy
    <2>1. PICK old \in DocumentRow : old = doc[Doc(s)]
      BY <1>2, <1>e
    <2>2. "REJECTED" \in Disposition
      BY DEF Disposition
    <2>3. /\ Condemned(old, "REJECTED") \in DocumentRow
          /\ Condemned(old, "REJECTED").state = "DELETING"
          /\ Condemned(old, "REJECTED").key = old.key
          /\ Condemned(old, "REJECTED").replacedBy = old.replacedBy
      BY <2>2, RowTypes, RowColumns
    <2> QED
      BY <2>1, <2>3 DEF DocumentRow
  <1>6. /\ ops' = Append([ops EXCEPT ![slot[s].op] = row], new)
        /\ doc' = [doc EXCEPT ![Doc(s)] = condemned]
    BY <1>e DEF AcceptRejection
  <1> HIDE DEF row, new, condemned
  <1>7. /\ ops'[k] = row /\ \A i \in DOMAIN ops : i # k => ops'[i] = ops[i]
        /\ \A i \in NewOps : ops'[i] = new
    BY <1>0, <1>3, <1>4, <1>6, OperationSucceeded DEF DocumentInv, NewOps
  <1>8. PICK x \in Documents : x = Doc(s)
    BY <1>e
  <1>9. /\ doc'[x] = condemned /\ del'[x] = [phase |-> "DELETE_ACTIVE_POINTS", proofs |-> {}]
        /\ \A d \in Documents \ {x} : Untouched(d)
    BY <1>0, <1>2, <1>6, <1>8 DEF Untouched
  <1>10. doc[x].replacedBy = None
    BY <1>0, <1>8 DEF DocumentInv, Ownership, ReplacedDying, Dying, Disposition
  <1>11. RowsAgree(x)'
    BY <1>0, <1>e, <1>5, <1>8, <1>9, <1>10, CondemnedRows DEF Dying, Disposition
  <1>12. SlotInformed(s)'
    BY <1>0, ReleaseLeaves DEF SlotInformed, DocumentInv, TypeInv, TypeOK
  <1>13. /\ {x} \in SUBSET Locked(Op(s)) /\ "DELETING" \notin Fresh
         /\ "PREFLIGHTING" \notin Disposition /\ row.state \notin OpenState
         /\ "DELETE" # "PUBLISH" /\ "PREFLIGHT" # "PUBLISH"
    BY <1>e, <1>8, <1>3 DEF Fresh, Disposition, OpenState
  <1>14. \A d \in {x} :
              /\ pub[d].status # "NONE" => pub'[d].status # "NONE" /\ pub'[d].rev = pub[d].rev
              /\ doc'[d].state \in Fresh => doc[d].state \in Fresh
              /\ doc[d].state \in Disposition => doc'[d].state \in Disposition
              /\ doc'[d].replacedBy = doc[d].replacedBy
    BY <1>0, <1>5, <1>8, <1>9, <1>13
  <1>15. \A i \in NewOps : ops'[i].target = None /\ ops'[i].doc = Doc(s) /\ ops'[i].type # "PUBLISH"
    BY <1>4, <1>7, <1>13
  <1> QED
    BY <1>t, <1>0, <1>1, <1>7, <1>9, <1>11, <1>12, <1>13, <1>14, <1>15, LoudInv

\* _finish_preflight hands the document over to review or to its publication.
LEMMA PreflightFinishInv ==
    ASSUME DocumentInv, NEW s \in Slots, FinishPreflight(s)
    PROVE  AllRowsAgree' /\ AllInformed' /\ PublicationsBound' /\ ReplacementBound'
  <1> DEFINE k == slot[s].op
             r == slot[s].rev
             new == QueuedOperation("PUBLISH", Doc(s), None, r, "QUEUED")
             fresh == [status |-> "PENDING", rev |-> r]
  <1>t. TypeInv' /\ SlotStep(s) /\ HistoryKept
    BY CompletionTypes DEF DocumentInv
  <1>0. /\ slot[s].pc # "idle" /\ slot[s].pc = "finish_preflight"
        /\ doc[Doc(s)].state = "PREFLIGHTING" /\ Release(s) /\ Sealed(Doc(s), r)
        /\ UNCHANGED <<revisions, content, del, active, screening, files>>
    BY DEF FinishPreflight, At, prepVars, index
  <1>e. /\ k \in DOMAIN ops /\ ops[k] = Op(s) /\ Op(s) \in Operation /\ Doc(s) \in Documents
        /\ Doc(s) \in Locked(Op(s)) /\ Doc(s) = Op(s).doc /\ RowsAgree(Doc(s)) /\ StepFits(s)
        /\ RevisionInHand(s)
    BY <1>0, Engaged
  <1>1. Op(s).type = "PREFLIGHT" /\ r = Len(revisions[Doc(s)])
    BY <1>0, <1>e DEF StepFits, RevisionInHand, PreflightSteps, Preparing
  <1>2. /\ doc \in [Documents -> DocumentRow] /\ pub \in [Documents -> Publication]
        /\ r \in Nat
    BY <1>0, AtWork DEF DocumentInv, TypeInv, TypeOK, Slot
  <1>3. ASSUME NEW p \in {"COMPLETE", "AWAITING_DECISION"}
        PROVE  /\ Succeed(Op(s), p) \in Operation /\ Succeed(Op(s), p).type = Op(s).type
               /\ Succeed(Op(s), p).doc = Op(s).doc /\ Succeed(Op(s), p).target = Op(s).target
               /\ Succeed(Op(s), p).state = "SUCCEEDED"
    BY <1>e, SucceedType DEF OperationPhase, FinalPhase
  <1>4. /\ new \in Operation /\ new.type = "PUBLISH" /\ new.target = None /\ new.doc = Doc(s)
        /\ new.rev = r /\ fresh.rev = r /\ fresh.status = "PENDING"
    <2>1. "PUBLISH" \in OperationType /\ "QUEUED" \in OperationPhase
      BY DEF OperationType, OperationPhase
    <2> QED
      BY <2>1, <1>e, <1>2, QueuedType DEF QueuedOperation
  <1>5. PICK v \in {"PUBLISHING", "REVIEW_REQUIRED"}, p \in {"COMPLETE", "AWAITING_DECISION"} :
            /\ doc' = [doc EXCEPT ![Doc(s)] = Cleared(doc[Doc(s)], v)]
            /\ \/ /\ v = "REVIEW_REQUIRED" /\ pub' = pub
                  /\ ops' = [ops EXCEPT ![k] = Succeed(Op(s), p)]
               \/ /\ v = "PUBLISHING" /\ pub' = [pub EXCEPT ![Doc(s)] = fresh]
                  /\ ops' = Append([ops EXCEPT ![k] = Succeed(Op(s), p)], new)
    <2>1. \/ /\ doc' = [doc EXCEPT ![Doc(s)] = Cleared(doc[Doc(s)], "REVIEW_REQUIRED")]
             /\ ops' = [ops EXCEPT ![k] = Succeed(Op(s), "AWAITING_DECISION")]
             /\ pub' = pub
          \/ /\ doc' = [doc EXCEPT ![Doc(s)] = Cleared(doc[Doc(s)], "PUBLISHING")]
             /\ ops' = Append([ops EXCEPT ![k] = Succeed(Op(s), "COMPLETE")], new)
             /\ pub' = [pub EXCEPT ![Doc(s)] = fresh]
      BY <1>e DEF FinishPreflight, EnsurePublication
    <2> HIDE DEF k, new, fresh
    <2> QED
      BY <2>1
  <1> DEFINE row == Succeed(Op(s), p)
             cleared == Cleared(doc[Doc(s)], v)
  <1>6. /\ row \in Operation /\ row.type = Op(s).type /\ row.doc = Op(s).doc
        /\ row.target = Op(s).target /\ row.state = "SUCCEEDED"
    BY <1>3
  <1>7. /\ cleared.state = v /\ cleared.key = doc[Doc(s)].key
        /\ cleared.disposition = doc[Doc(s)].disposition
        /\ cleared.replacedBy = doc[Doc(s)].replacedBy
    <2>1. PICK old \in DocumentRow : old = doc[Doc(s)]
      BY <1>2, <1>e
    <2> QED
      BY <2>1, RowColumns
  <1>8. /\ doc' = [doc EXCEPT ![Doc(s)] = cleared]
        /\ \/ /\ v = "REVIEW_REQUIRED" /\ pub' = pub
              /\ ops' = [ops EXCEPT ![slot[s].op] = row]
           \/ /\ v = "PUBLISHING" /\ pub' = [pub EXCEPT ![Doc(s)] = fresh]
              /\ ops' = Append([ops EXCEPT ![slot[s].op] = row], new)
    BY <1>5
  <1> HIDE DEF row, new, cleared, fresh
  <1>9. /\ ops'[k] = row /\ \A i \in DOMAIN ops : i # k => ops'[i] = ops[i]
        /\ \A i \in NewOps : ops'[i] = new
    <2>1. \/ ops' = [ops EXCEPT ![slot[s].op] = row]
          \/ ops' = Append([ops EXCEPT ![slot[s].op] = row], new)
      BY <1>8
    <2>2. /\ ops'[k] = row /\ \A i \in DOMAIN ops : i # k => ops'[i] = ops[i]
          /\ \/ DOMAIN ops' = DOMAIN ops
             \/ DOMAIN ops' = DOMAIN ops \cup {Len(ops) + 1} /\ ops'[Len(ops) + 1] = new
      BY <2>1, <1>0, <1>6, <1>4, OperationSucceeded DEF DocumentInv
    <2> QED
      BY <2>2 DEF NewOps
  <1>n. NewOps # {} => v = "PUBLISHING"
    BY <1>8 DEF NewOps
  <1>10. PICK x \in Documents : x = Doc(s)
    BY <1>e
  <1>11. /\ doc'[x] = cleared /\ \A d \in Documents \ {x} : Untouched(d)
         /\ v = "REVIEW_REQUIRED" => pub'[x] = pub[x]
         /\ v = "PUBLISHING" => pub'[x] = fresh
    BY <1>0, <1>2, <1>8, <1>10 DEF Untouched
  <1>12. pub[x].status = "NONE" /\ "PREFLIGHTING" \in Fresh
    BY <1>0, <1>e, <1>10 DEF RowsAgree, PublicationFits, Fresh
  <1>13. RowsAgree(x)'
    <2>1. /\ Sealed(x, Len(revisions[x])) /\ doc[x].state = "PREFLIGHTING"
          /\ doc'[x].state = v /\ doc'[x].key = doc[x].key
          /\ doc'[x].disposition = doc[x].disposition /\ doc'[x].replacedBy = doc[x].replacedBy
      BY <1>0, <1>1, <1>7, <1>10, <1>11
    <2>2. /\ {"PREFLIGHTING", "PUBLISHING", "REVIEW_REQUIRED"} \cap Dying = {}
          /\ {"PREFLIGHTING", "PUBLISHING", "REVIEW_REQUIRED"} \cap Disposition = {}
          /\ "PUBLISHING" \notin Fresh
      BY DEF Dying, Disposition, Fresh
    <2>3. CASE v = "REVIEW_REQUIRED"
      BY <2>1, <2>2, <2>3, <1>0, <1>e, <1>10, <1>11, <1>12, MovedRows
    <2>4. CASE v = "PUBLISHING"
      <3>1. /\ pub'[x].status \notin {"NONE", "VERIFIED"} /\ pub'[x].status # "NONE"
            /\ pub'[x].rev = Len(revisions[x])
        BY <2>4, <1>1, <1>4, <1>10, <1>11
      <3> QED
        BY <2>1, <2>2, <2>4, <3>1, <1>0, <1>e, <1>10, <1>11, <1>12, MovedRows
    <2> QED
      BY <2>3, <2>4
  <1>14. SlotInformed(s)'
    BY <1>0, ReleaseLeaves DEF SlotInformed, DocumentInv, TypeInv, TypeOK
  <1>15. /\ {x} \in SUBSET Locked(Op(s)) /\ "PREFLIGHTING" \notin Disposition
         /\ row.state \notin OpenState /\ "PREFLIGHT" # "PUBLISH"
    BY <1>e, <1>10, <1>6 DEF Disposition, OpenState
  <1>16. \A d \in {x} :
              /\ pub[d].status # "NONE" => pub'[d].status # "NONE" /\ pub'[d].rev = pub[d].rev
              /\ doc'[d].state \in Fresh => doc[d].state \in Fresh
              /\ doc[d].state \in Disposition => doc'[d].state \in Disposition
              /\ doc'[d].replacedBy = doc[d].replacedBy
    BY <1>0, <1>7, <1>10, <1>11, <1>12, <1>15
  <1>17. \A i \in NewOps :
              /\ ops'[i].target = None /\ ops'[i].doc = Doc(s)
              /\ ops'[i].type = "PUBLISH" =>
                  /\ pub'[ops'[i].doc].status # "NONE" /\ ops'[i].rev = pub'[ops'[i].doc].rev
                  /\ doc[Doc(s)].state \in Fresh
    BY <1>0, <1>4, <1>9, <1>n, <1>10, <1>11, <1>12
  <1> QED
    BY <1>t, <1>0, <1>1, <1>9, <1>11, <1>13, <1>14, <1>15, <1>16, <1>17, LoudInv

\* _finish_publication shows the document, or fails without an effect.
LEMMA PublicationFinishInv ==
    ASSUME DocumentInv, NEW s \in Slots, FinishPublication(s)
    PROVE  AllRowsAgree' /\ AllInformed' /\ PublicationsBound' /\ ReplacementBound'
  <1> DEFINE k == slot[s].op
             row == Succeed(Op(s), "COMPLETE")
             cleared == Cleared(doc[Doc(s)], "READY")
             verified == [pub[Doc(s)] EXCEPT !.status = "VERIFIED"]
  <1>t. TypeInv' /\ SlotStep(s) /\ HistoryKept
    BY CompletionTypes DEF DocumentInv
  <1>0. /\ slot[s].pc # "idle" /\ slot[s].pc = "finish_publication"
        /\ slot[s].pc \in PublishSteps
        /\ UNCHANGED <<revisions, content, del, active, screening, files>>
    BY DEF FinishPublication, At, prepVars, index, PublishSteps
  <1>e. /\ k \in DOMAIN ops /\ ops[k] = Op(s) /\ Op(s) \in Operation /\ Doc(s) \in Documents
        /\ Doc(s) \in Locked(Op(s)) /\ Doc(s) = Op(s).doc /\ RowsAgree(Doc(s)) /\ PointsInHand(s)
    BY <1>0, Engaged
  <1>2. /\ doc \in [Documents -> DocumentRow] /\ pub \in [Documents -> Publication]
        /\ slot \in [Slots -> Slot]
    BY DEF DocumentInv, TypeInv, TypeOK
  <1>3. CASE ~PublicationComplete(s)
    <2>1. Raise(s, FALSE) /\ UNCHANGED <<pub, doc, ops>>
      BY <1>3 DEF FinishPublication
    <2>2. Quiet(s)
      BY <2>1, <1>t, QueueUnchanged DEF Quiet, DocumentInv
    <2>3. TroubleEffect(s)
      BY <2>1, <1>0, <1>2, RaiseLeaves, RowsSame DEF TroubleEffect, Abandoned, Untouched
    <2> QED
      BY <2>2, <2>3, TroubleInv
  <1>4. CASE PublicationComplete(s)
    <2>1. /\ doc' = [doc EXCEPT ![Doc(s)] = cleared] /\ ops' = [ops EXCEPT ![slot[s].op] = row]
          /\ pub' = [pub EXCEPT ![Doc(s)] = verified] /\ Release(s)
      BY <1>4, <1>e DEF FinishPublication
    <2>2. /\ row \in Operation /\ row.type = Op(s).type /\ row.doc = Op(s).doc
          /\ row.target = Op(s).target /\ row.state = "SUCCEEDED" /\ row.rev = Op(s).rev
      <3>1. "COMPLETE" \in OperationPhase
        BY DEF OperationPhase, FinalPhase
      <3> QED
        BY <1>e, <3>1, SucceedType DEF Succeed, Operation
    <2>3. /\ cleared.state = "READY" /\ cleared.key = doc[Doc(s)].key
          /\ cleared.disposition = doc[Doc(s)].disposition
          /\ cleared.replacedBy = doc[Doc(s)].replacedBy
      <3>1. PICK old \in DocumentRow : old = doc[Doc(s)]
        BY <1>2, <1>e
      <3> QED
        BY <3>1, RowColumns
    <2>4. verified.status = "VERIFIED" /\ verified.rev = pub[Doc(s)].rev
      BY <1>2, <1>e DEF Publication
    <2> HIDE DEF row, cleared, verified
    <2>5. /\ ops'[k] = row /\ \A i \in DOMAIN ops : i # k => ops'[i] = ops[i]
          /\ NewOps = {}
      <3>1. /\ ops \in Seq(Operation) /\ slot[s].op \in DOMAIN ops
        BY <1>e DEF DocumentInv, TypeInv, TypeOK
      <3> QED
        BY <3>1, <2>1, <2>2, RowRewritten DEF NewOps
    <2>6. PICK x \in Documents : x = Doc(s)
      BY <1>e
    <2>7. /\ doc'[x] = cleared /\ pub'[x] = verified
          /\ \A d \in Documents \ {x} : Untouched(d)
      BY <1>0, <1>2, <2>1, <2>6 DEF Untouched
    <2>8. /\ doc[x].state = "PUBLISHING" /\ pub[x].status # "NONE"
          /\ pub[x].rev = Op(s).rev /\ Sealed(x, pub[x].rev) /\ del[x] = NoProgress
          /\ pub[x].rev = Len(revisions[x])
      BY <1>0, <1>e, <2>6, Approved DEF RowsAgree, PublicationFits
    <2>9. /\ "READY" \notin Dying /\ "READY" \notin Disposition /\ "READY" \notin Fresh
          /\ "PUBLISHING" \notin Disposition /\ NoProgress.proofs = {}
          /\ row.state \notin OpenState
      BY <2>2 DEF Dying, Disposition, Fresh, NoProgress, OpenState
    <2>10. RowsAgree(x)'
      <3>1. CheckpointFits(x) /\ ProofsTrue(x) /\ ReplacedDeleted(x)
        BY <1>e, <2>6 DEF RowsAgree
      <3>2. CheckpointFits(x)' /\ ProofsTrue(x)' /\ ReplacedDeleted(x)'
        BY <3>1, <1>0, <2>3, <2>6, <2>7, <2>8, <2>9
        DEF CheckpointFits, ProofsTrue, ReplacedDeleted
      <3>3. PublicationFits(x)'
        BY <1>0, <2>3, <2>4, <2>6, <2>7, <2>8, <2>9 DEF PublicationFits, Sealed
      <3>4. ReadyShown(x)'
        BY <1>0, <1>e, <2>4, <2>6, <2>7, <2>8 DEF ReadyShown, PointsInHand
      <3> QED
        BY <3>2, <3>3, <3>4 DEF RowsAgree
    <2>11. SlotInformed(s)'
      BY <2>1, <1>2, ReleaseLeaves DEF SlotInformed
    <2>12. \A d \in {x} :
              /\ pub[d].status # "NONE" => pub'[d].status # "NONE" /\ pub'[d].rev = pub[d].rev
              /\ doc'[d].state \in Fresh => doc[d].state \in Fresh
              /\ doc[d].state \in Disposition => doc'[d].state \in Disposition
              /\ doc'[d].replacedBy = doc[d].replacedBy
      BY <2>3, <2>4, <2>6, <2>7, <2>8, <2>9
    <2>13. /\ {x} \in SUBSET Locked(Op(s)) /\ ops'[slot[s].op].rev = Op(s).rev
           /\ ops'[slot[s].op].state \notin OpenState
      BY <1>e, <2>2, <2>5, <2>6, <2>9
    <2> QED
      BY <1>t, <1>0, <2>5, <2>7, <2>10, <2>11, <2>12, <2>13, LoudInv
  <1> QED
    BY <1>3, <1>4

\* The end of _purge_document_content records what was removed before.
LEMMA PurgeInv ==
    ASSUME DocumentInv, NEW s \in Slots, PurgeCommit(s)
    PROVE  AllRowsAgree' /\ AllInformed' /\ PublicationsBound' /\ ReplacementBound'
  <1> DEFINE k == slot[s].op
             purged == [doc[Subject(s)] EXCEPT !.key = FALSE]
             p == slot[s].seen \cup {"storage_purged"}
  <1>t. TypeInv' /\ SlotStep(s) /\ HistoryKept
    BY CompletionTypes DEF DocumentInv
  <1>0. /\ slot[s].pc # "idle" /\ slot[s].pc = "purge_commit" /\ slot[s].pc \in DeletionSteps
        /\ UNCHANGED <<revisions, pub, active, screening, files>>
        /\ content' = [content EXCEPT ![Subject(s)] = FALSE]
        /\ doc' = [doc EXCEPT ![Subject(s)] = purged]
        /\ RecordProof(s, "storage_purged", "COMMIT_TOMBSTONE")
    BY DEF PurgeCommit, At, index, DeletionSteps
  <1>e. /\ k \in DOMAIN ops /\ ops[k] = Op(s) /\ Op(s) \in Operation /\ Subject(s) \in Documents
        /\ Subject(s) \in Locked(Op(s)) /\ RowsAgree(Subject(s)) /\ ProofsInHand(s)
        /\ Op(s).state \in OpenState /\ Op(s).doc = Doc(s)
        /\ Op(s).target # None => doc[Op(s).target].state \in {"DELETING"} \cup Disposition
        /\ Op(s).target # None => Subject(s) = Op(s).target
    BY <1>0, Engaged
  <1>2. /\ doc \in [Documents -> DocumentRow] /\ content \in [Documents -> BOOLEAN]
        /\ ops \in Seq(Operation)
    BY DEF DocumentInv, TypeInv, TypeOK
  <1>3. /\ RowKept(s)
        /\ del'[Subject(s)].proofs = del[Subject(s)].proofs \cup {"storage_purged"}
        /\ del'[Subject(s)] # NoProgress
        /\ \A d \in Documents \ {Subject(s)} : del'[d] = del[d]
        /\ slot'[s].seen = p /\ slot'[s].pc = NextPhase(p) /\ slot'[s].op = slot[s].op
    <2>1. "storage_purged" \in Proof /\ "COMMIT_TOMBSTONE" \in DeletionPhase
      BY DEF Proof, DeletionPhase
    <2> QED
      BY <2>1, <1>0, ProofAdded DEF DocumentInv
  <1>4. DOMAIN ops' = DOMAIN ops /\ \A i \in DOMAIN ops : ops'[i].state = ops[i].state
    <2>1. "storage_purged" \in Proof /\ "COMMIT_TOMBSTONE" \in DeletionPhase
      BY DEF Proof, DeletionPhase
    <2> QED
      BY <2>1, <1>0, ProofRecorded DEF DocumentInv
  <1>5. /\ purged.state = doc[Subject(s)].state /\ purged.key = FALSE
        /\ purged.disposition = doc[Subject(s)].disposition
        /\ purged.replacedBy = doc[Subject(s)].replacedBy
    BY <1>2, <1>e DEF DocumentRow
  <1> HIDE DEF purged
  <1>6. PICK x \in Documents : x = Subject(s)
    BY <1>e
  <1>7. /\ doc'[x] = purged /\ content'[x] = FALSE /\ \A d \in Documents \ {x} : Untouched(d)
    BY <1>0, <1>2, <1>3, <1>6 DEF Untouched
  <1>8. /\ slot[s].seen = del[x].proofs /\ "storage_purged" \notin del[x].proofs
        /\ files[x] = {}
    BY <1>0, <1>e, <1>6 DEF ProofsInHand, DeletionSteps, PurgeSteps
  <1>9. /\ doc[x].state = "DELETING" /\ "tombstoned" \notin del[x].proofs
        /\ del[x].proofs \in SUBSET Proof
    <2>1. /\ doc[x].state \in {"DELETING"} \cup Disposition /\ del[x].proofs \in SUBSET Proof
      BY <1>0, <1>6, Condemning
    <2>2. doc[x].state \notin Disposition
      BY <1>8, <1>e, <1>6 DEF RowsAgree, CheckpointFits, Proof
    <2> QED
      BY <2>1, <2>2, <1>e, <1>6 DEF RowsAgree, CheckpointFits
  <1>10. RowsAgree(x)'
    <2>1. /\ CheckpointFits(x) /\ ProofsTrue(x) /\ PublicationFits(x) /\ ReplacedDeleted(x)
      BY <1>e, <1>6 DEF RowsAgree
    <2>2. /\ doc'[x].state = "DELETING" /\ "DELETING" \in Dying /\ "DELETING" \notin Disposition
          /\ "DELETING" \notin Fresh /\ doc'[x].replacedBy = doc[x].replacedBy
          /\ doc'[x].disposition = doc[x].disposition /\ ~doc'[x].key
          /\ del'[x].proofs = del[x].proofs \cup {"storage_purged"} /\ del'[x] # NoProgress
      BY <1>3, <1>5, <1>6, <1>7, <1>9 DEF Dying, Disposition, Fresh
    <2>3. CheckpointFits(x)'
      BY <2>1, <2>2, <1>9 DEF CheckpointFits
    <2>4. ProofsTrue(x)'
      BY <2>1, <2>2, <1>0, <1>7, <1>8 DEF ProofsTrue
    <2>5. PublicationFits(x)' /\ ReadyShown(x)' /\ ReplacedDeleted(x)'
      BY <2>1, <2>2, <1>0, <1>9 DEF PublicationFits, Sealed, ReadyShown, ReplacedDeleted
    <2> QED
      BY <2>3, <2>4, <2>5 DEF RowsAgree
  <1>11. SlotInformed(s)'
    <2>1. p \in SUBSET Proof /\ "tombstoned" \notin p /\ del'[Subject(s)].proofs = p
      BY <1>3, <1>6, <1>8, <1>9 DEF Proof
    <2>2. /\ ops'[k].state \in OpenState /\ ops'[k].type = Op(s).type /\ ops'[k].doc = Op(s).doc
          /\ ops'[k].target = Op(s).target
      BY <1>t, <1>e, <1>4 DEF HistoryKept
    <2> HIDE DEF p
    <2> QED
      BY <2>1, <2>2, <1>0, <1>3, ReadOn
  <1>12. /\ \A i \in DOMAIN ops : i # slot[s].op => ops'[i] = ops[i]
         /\ ops'[slot[s].op].rev = Op(s).rev /\ NewOps = {}
         /\ {x} \in SUBSET Locked(Op(s))
         /\ Op(s).target # None => doc'[Op(s).target].state \in {"DELETING"} \cup Disposition
    BY <1>3, <1>4, <1>5, <1>e, <1>6, <1>7 DEF RowKept, NewOps
  <1>13. \A d \in {x} :
              /\ pub[d].status # "NONE" => pub'[d].status # "NONE" /\ pub'[d].rev = pub[d].rev
              /\ doc'[d].state \in Fresh => doc[d].state \in Fresh
              /\ doc[d].state \in Disposition => doc'[d].state \in Disposition
              /\ doc'[d].replacedBy = doc[d].replacedBy
    BY <1>0, <1>5, <1>6, <1>7
  <1> QED
    BY <1>t, <1>0, <1>7, <1>10, <1>11, <1>12, <1>13, LoudInv

\* _commit_deletion makes the document terminal.
LEMMA TombstoneInv ==
    ASSUME DocumentInv, NEW s \in Slots, CommitDeletion(s)
    PROVE  AllRowsAgree' /\ AllInformed' /\ PublicationsBound' /\ ReplacementBound'
  <1> DEFINE k == slot[s].op
             tomb == Tombstoned(doc[Subject(s)])
             last == [phase |-> "COMMIT_TOMBSTONE",
                      proofs |-> del[Subject(s)].proofs \cup {"tombstoned"}]
  <1>t. TypeInv' /\ SlotStep(s) /\ HistoryKept
    BY CompletionTypes DEF DocumentInv
  <1>0. /\ slot[s].pc # "idle" /\ slot[s].pc = "commit_tombstone" /\ slot[s].pc \in DeletionSteps
        /\ UNCHANGED <<revisions, content, pub, active, screening, files>>
        /\ doc' = [doc EXCEPT ![Subject(s)] = tomb]
        /\ del' = [del EXCEPT ![Subject(s)] = last]
        /\ MayTombstone(Subject(s))
    BY DEF CommitDeletion, At, index, prepVars, DeletionSteps
  <1>e. /\ k \in DOMAIN ops /\ ops[k] = Op(s) /\ Op(s) \in Operation /\ Subject(s) \in Documents
        /\ Subject(s) \in Locked(Op(s)) /\ RowsAgree(Subject(s)) /\ ProofsInHand(s)
        /\ Op(s).state \in OpenState /\ Op(s).doc = Doc(s)
        /\ Op(s).target # None => Subject(s) = Op(s).target
    BY <1>0, Engaged
  <1>2. /\ doc \in [Documents -> DocumentRow] /\ del \in [Documents -> Progress]
        /\ ops \in Seq(Operation) /\ slot \in [Slots -> Slot]
    BY DEF DocumentInv, TypeInv, TypeOK
  <1>3. /\ tomb.state = doc[Subject(s)].disposition /\ tomb.key = doc[Subject(s)].key
        /\ tomb.disposition = doc[Subject(s)].disposition
        /\ tomb.replacedBy = doc[Subject(s)].replacedBy
    <2>1. PICK old \in DocumentRow : old = doc[Subject(s)]
      BY <1>2, <1>e
    <2> QED
      BY <2>1, RowColumns
  <1>4. last.proofs = del[Subject(s)].proofs \cup {"tombstoned"} /\ last # NoProgress
    <2>1. /\ last.phase = "COMMIT_TOMBSTONE" /\ NoProgress.phase = None
          /\ "COMMIT_TOMBSTONE" # None
      BY NullAssumption DEF NoProgress, DeletionPhase
    <2> QED
      BY <2>1
  <1> HIDE DEF tomb, last
  <1>6. PICK x \in Documents : x = Subject(s)
    BY <1>e
  <1>7. /\ doc'[x] = tomb /\ del'[x] = last /\ \A d \in Documents \ {x} : Untouched(d)
    BY <1>0, <1>2, <1>6 DEF Untouched
  <1>8. /\ slot[s].seen = del[x].proofs
        /\ del[x].proofs = {"active_zero", "screening_zero", "storage_purged"}
        /\ ~doc[x].key /\ ~content[x] /\ doc[x].state \in {"DELETING", "DELETE_FAILED"}
    BY <1>0, <1>e, <1>6 DEF ProofsInHand, DeletionSteps, MayTombstone
  <1>9. doc'[x].state \in Disposition /\ doc'[x].state = doc[x].disposition
    BY <1>3, <1>6, <1>7, <1>8 DEF DocumentInv, TypeInv, DispositionsRecorded
  <1>10. /\ del'[x].proofs = Proof /\ del'[x] # NoProgress
    BY <1>4, <1>6, <1>7, <1>8 DEF Proof
  <1>11. RowsAgree(x)'
    <2>1. /\ CheckpointFits(x) /\ ProofsTrue(x) /\ PublicationFits(x) /\ ReplacedDeleted(x)
      BY <1>e, <1>6 DEF RowsAgree
    <2>2. /\ doc'[x].state \in Dying /\ doc'[x].state \notin Fresh
          /\ doc'[x].state \notin {"READY", "PUBLISHING", "PUBLISH_FAILED", "REVIEW_REQUIRED", "ABSENT"}
          /\ doc'[x].replacedBy = doc[x].replacedBy
          /\ doc'[x].disposition = doc[x].disposition /\ ~doc'[x].key
          /\ {"active_zero", "screening_zero", "storage_purged", "tombstoned"} \subseteq del'[x].proofs
      BY <1>3, <1>6, <1>7, <1>8, <1>9, <1>10 DEF Dying, Disposition, Fresh, Proof
    <2>3. CheckpointFits(x)'
      BY <2>2, <1>9, <1>10 DEF CheckpointFits
    <2>4. ProofsTrue(x)'
      BY <2>1, <1>0, <1>8 DEF ProofsTrue
    <2>5. PublicationFits(x)' /\ ReadyShown(x)'
      BY <2>1, <2>2, <1>0 DEF PublicationFits, Sealed, ReadyShown
    <2>6. ReplacedDeleted(x)'
      BY <2>1, <2>2, <1>9 DEF ReplacedDeleted
    <2> QED
      BY <2>3, <2>4, <2>5, <2>6 DEF RowsAgree
  <1>12. \A d \in {x} :
              /\ pub[d].status # "NONE" => pub'[d].status # "NONE" /\ pub'[d].rev = pub[d].rev
              /\ doc'[d].state \in Fresh => doc[d].state \in Fresh
              /\ doc[d].state \in Disposition => doc'[d].state \in Disposition
              /\ doc'[d].replacedBy = doc[d].replacedBy
    <2>1. doc'[x].state \notin Fresh
      BY <1>9 DEF Fresh, Disposition
    <2> QED
      BY <2>1, <1>0, <1>3, <1>6, <1>7, <1>9
  <1>13. {x} \in SUBSET Locked(Op(s))
    BY <1>e, <1>6
  <1>14. CASE Op(s).type = "DELETE"
    <2> DEFINE row == Succeed(Op(s), "COMPLETE")
    <2>1. ops' = [ops EXCEPT ![slot[s].op] = row] /\ Release(s)
      BY <1>14, <1>e DEF CommitDeletion
    <2>2. row \in Operation /\ row.state = "SUCCEEDED" /\ row.state \notin OpenState
      BY <1>e, SucceedType DEF OperationPhase, FinalPhase, OpenState
    <2> HIDE DEF row
    <2>3. /\ ops'[k] = row /\ \A i \in DOMAIN ops : i # slot[s].op => ops'[i] = ops[i]
          /\ NewOps = {}
      BY <1>2, <1>e, <2>1, <2>2, RowRewritten DEF NewOps
    <2>4. SlotInformed(s)'
      BY <2>1, <1>2, ReleaseLeaves DEF SlotInformed
    <2>5. Op(s).type # "PUBLISH" /\ ops'[slot[s].op].state \notin OpenState
      BY <1>14, <2>2, <2>3
    <2> QED
      BY <1>t, <1>0, <1>7, <1>11, <1>12, <1>13, <2>3, <2>4, <2>5, LoudInv
  <1>15. CASE Op(s).type # "DELETE"
    <2>0. "tombstoned" \in Proof /\ "COMMIT_TOMBSTONE" \in DeletionPhase
      BY DEF Proof, DeletionPhase
    <2>1. RecordProof(s, "tombstoned", "COMMIT_TOMBSTONE")
      BY <1>15 DEF CommitDeletion, RecordProof
    <2>2. /\ RowKept(s) /\ slot'[s].seen = slot[s].seen \cup {"tombstoned"}
          /\ slot'[s].pc = NextPhase(slot[s].seen \cup {"tombstoned"})
          /\ slot'[s].op = slot[s].op
      BY <2>0, <2>1, <1>0, ProofAdded DEF DocumentInv
    <2>3. DOMAIN ops' = DOMAIN ops /\ \A i \in DOMAIN ops : ops'[i].state = ops[i].state
      BY <2>0, <2>1, <1>0, ProofRecorded DEF DocumentInv
    <2>4. Op(s).target # None /\ x = Op(s).target
      BY <1>0, <1>15, <1>e, <1>6, Condemning
    <2>5. /\ ops'[k].state \in OpenState /\ ops'[k].type = Op(s).type /\ ops'[k].doc = Op(s).doc
          /\ ops'[k].target = Op(s).target
      BY <1>t, <1>e, <2>3 DEF HistoryKept
    <2>6. slot[s].seen \cup {"tombstoned"} = Proof
      BY <1>8 DEF Proof
    <2>7. SlotInformed(s)'
      <3>1. Proof \in SUBSET Proof /\ del'[Subject(s)].proofs = Proof
        BY <1>6, <1>10
      <3> QED
        BY <2>2, <2>4, <2>5, <2>6, <3>1, <1>0, <1>9, ReadOn
    <2>8. /\ \A i \in DOMAIN ops : i # slot[s].op => ops'[i] = ops[i]
          /\ ops'[slot[s].op].rev = Op(s).rev /\ NewOps = {}
          /\ doc'[Op(s).target].state \in {"DELETING"} \cup Disposition
      BY <2>2, <2>3, <2>4, <1>e, <1>9 DEF RowKept, NewOps
    <2> QED
      BY <1>t, <1>0, <1>7, <1>11, <1>12, <1>13, <2>7, <2>8, LoudInv
  <1> QED
    BY <1>14, <1>15

\* _fail_operation fails the document and a target that is still deleting.
LEMMA FailureInv ==
    ASSUME DocumentInv, NEW s \in Slots, FailOperation(s)
    PROVE  AllRowsAgree' /\ AllInformed' /\ PublicationsBound' /\ ReplacementBound'
  <1> DEFINE k == slot[s].op
             o == Op(s)
             r == slot[s].retryable
             row == [ops[k] EXCEPT !.state = "FAILED", !.retryable = r]
             failed == [pub[o.doc] EXCEPT !.status = "FAILED"]
  <1>t. TypeInv' /\ SlotStep(s) /\ HistoryKept
    BY FailureTypes DEF DocumentInv
  <1>0. /\ slot[s].pc # "idle" /\ slot[s].pc = "failing" /\ Release(s)
        /\ UNCHANGED <<revisions, content, del, active, screening, files>>
    BY DEF FailOperation, At, prepVars, index
  <1>e. /\ k \in DOMAIN ops /\ ops[k] = o /\ o \in Operation /\ o.doc = Doc(s)
        /\ o.doc \in Documents /\ o.doc \in Locked(o) /\ o.state \in OpenState
        /\ o.target \in Documents \cup {None} /\ o.type \in OperationType
        /\ doc[o.doc].state = InProgressState(o.type) /\ RowsAgree(o.doc)
        /\ Locked(o) = {Doc(s), Subject(s)}
        /\ o.target # None => o.type = "PUBLISH" /\ o.target # o.doc /\ Subject(s) = o.target
        /\ o.target = None => Subject(s) = Doc(s)
    BY <1>0, Engaged
  <1>2. /\ doc \in [Documents -> DocumentRow] /\ pub \in [Documents -> Publication]
        /\ ops \in Seq(Operation) /\ slot \in [Slots -> Slot] /\ r \in BOOLEAN
    BY <1>0, AtWork DEF DocumentInv, TypeInv, TypeOK, Slot
  <1>3. CASE ~Holds(s)
    <2>1. UNCHANGED <<pub, doc, ops>>
      BY <1>3 DEF FailOperation
    <2>2. Quiet(s)
      BY <2>1, <1>t, QueueUnchanged DEF Quiet, DocumentInv
    <2>3. TroubleEffect(s)
      BY <2>1, <1>0, <1>2, ReleaseLeaves, RowsSame DEF TroubleEffect, Abandoned, Untouched
    <2> QED
      BY <2>2, <2>3, TroubleInv
  <1>4. CASE Holds(s)
    <2>1. /\ row \in Operation /\ row.state = "FAILED" /\ row.state \notin OpenState
          /\ row.rev = o.rev
      BY <1>e, <1>2 DEF Operation, OpenState
    <2>2. failed.status = "FAILED" /\ failed.rev = pub[o.doc].rev
      BY <1>e, <1>2 DEF Publication
    <2>3. /\ ops' = [ops EXCEPT ![slot[s].op] = row]
          /\ doc' = [x \in Documents |-> FailureRow(x, o, r)]
          /\ \/ pub' = pub
             \/ o.type = "PUBLISH" /\ pub' = [pub EXCEPT ![o.doc] = failed]
      BY <1>4 DEF FailOperation
    <2> HIDE DEF row, failed, o, r
    <2>4. /\ ops'[k] = row /\ \A i \in DOMAIN ops : i # slot[s].op => ops'[i] = ops[i]
          /\ NewOps = {}
      BY <1>2, <1>e, <2>1, <2>3, RowRewritten DEF NewOps
    <2>5. PICK x \in Documents : x = o.doc
      BY <1>e
    <2>6. /\ doc'[x].state = FailureState(o.type) /\ doc'[x].key = doc[x].key
          /\ doc'[x].disposition = doc[x].disposition /\ doc'[x].replacedBy = doc[x].replacedBy
      <3>1. ~(o.type = "PREFLIGHT" /\ doc[x].state = "DELETING")
        BY <1>e, <2>5 DEF InProgressState
      <3>2. doc'[x] = Broken(doc[x], FailureState(o.type), r)
        BY <3>1, <2>3, <2>5 DEF FailureRow
      <3>3. doc[x] \in DocumentRow
        BY <1>2
      <3> QED
        BY <3>2, <3>3, RowColumns
    <2>7. ASSUME NEW y \in Documents, y # x
          PROVE  /\ pub'[y] = pub[y]
                 /\ \/ Untouched(y)
                    \/ /\ y = o.target /\ doc[y].state = "DELETING"
                       /\ doc'[y].state = "DELETE_FAILED" /\ doc'[y].key = doc[y].key
                       /\ doc'[y].disposition = doc[y].disposition
                       /\ doc'[y].replacedBy = doc[y].replacedBy
      <3>0. pub'[y] = pub[y]
        BY <2>3, <2>5, <2>7, <1>2
      <3>1. CASE y = o.target /\ doc[y].state = "DELETING"
        <4>1. doc'[y] = Broken(doc[y], "DELETE_FAILED", r)
          BY <3>1, <2>3, <2>5, <2>7 DEF FailureRow
        <4>2. doc[y] \in DocumentRow
          BY <1>2
        <4> QED
          BY <4>1, <4>2, <3>0, <3>1, RowColumns
      <3>2. CASE ~(y = o.target /\ doc[y].state = "DELETING")
        <4>1. doc'[y] = doc[y]
          BY <3>2, <2>3, <2>5, <2>7 DEF FailureRow
        <4> QED
          BY <4>1, <3>0, <1>0 DEF Untouched
      <3> QED
        BY <3>1, <3>2
    <2>8. RowsAgree(x)'
      <3>1. RowsAgree(x) /\ doc[x].state = InProgressState(o.type)
        BY <1>e, <2>5
      <3>2. CASE o.type = "PREFLIGHT"
        <4>1. doc[x].state = "PREFLIGHTING" /\ doc'[x].state = "PREFLIGHT_FAILED" /\ pub'[x] = pub[x]
          BY <3>1, <3>2, <2>3, <2>6 DEF InProgressState, FailureState
        <4>2. /\ "PREFLIGHTING" \in Fresh
              /\ {"PREFLIGHTING", "PREFLIGHT_FAILED"} \cap Dying = {}
              /\ {"PREFLIGHTING", "PREFLIGHT_FAILED"} \cap Disposition = {}
          BY DEF Fresh, Dying, Disposition
        <4> QED
          BY <4>1, <4>2, <3>1, <2>6, <1>0, MovedRows
      <3>3. CASE o.type = "PUBLISH"
        <4>1. doc[x].state = "PUBLISHING" /\ doc'[x].state = "PUBLISH_FAILED"
          BY <3>1, <3>3, <2>6 DEF InProgressState, FailureState
        <4>2. /\ {"PUBLISHING", "PUBLISH_FAILED"} \cap Dying = {} /\ "PUBLISH_FAILED" \notin Fresh
              /\ {"PUBLISHING", "PUBLISH_FAILED"} \cap Disposition = {}
          BY DEF Fresh, Dying, Disposition
        <4>3. /\ pub[x].status \notin {"NONE", "VERIFIED"}
              /\ pub'[x].rev = pub[x].rev /\ pub'[x].status \notin {"NONE", "VERIFIED"}
          BY <4>1, <3>1, <2>2, <2>3, <2>5, <1>2 DEF RowsAgree, PublicationFits
        <4> QED
          BY <4>1, <4>2, <4>3, <3>1, <2>6, <1>0, MovedRows
      <3>4. CASE o.type = "DELETE"
        <4>1. doc[x].state = "DELETING" /\ doc'[x].state = "DELETE_FAILED" /\ pub'[x] = pub[x]
          BY <3>1, <3>4, <2>3, <2>6 DEF InProgressState, FailureState
        <4>2. /\ {"DELETING", "DELETE_FAILED"} \subseteq Dying /\ "DELETE_FAILED" \notin Fresh
              /\ {"DELETING", "DELETE_FAILED"} \cap Disposition = {}
          BY DEF Fresh, Dying, Disposition
        <4> QED
          BY <4>1, <4>2, <3>1, <2>6, <1>0, MovedRows
      <3> QED
        BY <3>2, <3>3, <3>4, <1>e DEF OperationType
    <2>9. ASSUME NEW y \in Documents, y # x, ~Untouched(y)
          PROVE  y \in Locked(Op(s)) /\ RowsAgree(y)'
      <3>1. /\ y = o.target /\ doc[y].state = "DELETING" /\ doc'[y].state = "DELETE_FAILED"
            /\ doc'[y].key = doc[y].key /\ doc'[y].disposition = doc[y].disposition
            /\ doc'[y].replacedBy = doc[y].replacedBy /\ pub'[y] = pub[y]
        BY <2>7, <2>9
      <3>2. RowsAgree(y)
        BY DEF DocumentInv, AllRowsAgree
      <3>3. /\ {"DELETING", "DELETE_FAILED"} \subseteq Dying /\ "DELETE_FAILED" \notin Fresh
            /\ {"DELETING", "DELETE_FAILED"} \cap Disposition = {}
        BY DEF Fresh, Dying, Disposition
      <3>4. RowsAgree(y)'
        BY <3>1, <3>2, <3>3, <1>0, MovedRows
      <3> QED
        BY <3>1, <3>4, <1>e, NoneAssumption DEF o
    <2> DEFINE X == {d \in Locked(Op(s)) : d = x \/ ~Untouched(d)}
    <2>10. X \in SUBSET Locked(Op(s)) /\ X \subseteq Documents
      <3>1. Locked(Op(s)) \subseteq Documents
        BY <1>0, Engaged
      <3> QED
        BY <3>1
    <2>11. \A d \in Documents \ X : Untouched(d)
      BY <2>9, <2>5, <1>e DEF o
    <2>12. \A d \in X : RowsAgree(d)'
      BY <2>8, <2>9, <2>10
    <2>13. \A d \in X :
              /\ pub[d].status # "NONE" => pub'[d].status # "NONE" /\ pub'[d].rev = pub[d].rev
              /\ doc'[d].state \in Fresh => doc[d].state \in Fresh
              /\ doc[d].state \in Disposition => doc'[d].state \in Disposition
              /\ doc'[d].replacedBy = doc[d].replacedBy
      <3> SUFFICES ASSUME NEW d \in X
                   PROVE  /\ pub[d].status # "NONE" =>
                              pub'[d].status # "NONE" /\ pub'[d].rev = pub[d].rev
                          /\ doc'[d].state \in Fresh => doc[d].state \in Fresh
                          /\ doc[d].state \in Disposition => doc'[d].state \in Disposition
                          /\ doc'[d].replacedBy = doc[d].replacedBy
        OBVIOUS
      <3>1. CASE d = x
        <4>1. pub[d].status # "NONE" => pub'[d].status # "NONE" /\ pub'[d].rev = pub[d].rev
          BY <3>1, <2>2, <2>3, <2>5, <1>2
        <4>2. /\ doc[d].state = InProgressState(o.type) /\ doc'[d].state = FailureState(o.type)
          BY <3>1, <2>5, <2>6, <1>e
        <4>3. /\ doc'[d].state \in Fresh => doc[d].state \in Fresh
              /\ doc[d].state \notin Disposition
          BY <4>2, <1>e DEF InProgressState, FailureState, OperationType, Fresh, Disposition
        <4> QED
          BY <4>1, <4>3, <3>1, <2>6
      <3>2. CASE d # x
        <4>1. d \in Documents /\ ~Untouched(d)
          BY <3>2, <2>10
        <4> QED
          BY <4>1, <3>2, <2>7 DEF Fresh, Disposition
      <3> QED
        BY <3>1, <3>2
    <2>14. SlotInformed(s)'
      BY <1>0, <1>2, ReleaseLeaves DEF SlotInformed
    <2>15. ops'[slot[s].op].rev = Op(s).rev /\ ops'[slot[s].op].state \notin OpenState
      BY <2>1, <2>4 DEF o
    <2> HIDE DEF X
    <2> QED
      BY <1>t, <1>0, <2>4, <2>10, <2>11, <2>12, <2>13, <2>14, <2>15, LoudInv
  <1> QED
    BY <1>3, <1>4

\* No step of a slot breaks the invariant.
LEMMA WorkInv ==
    ASSUME DocumentInv, NEW s \in Slots, Work(s) \/ Trouble(s)
    PROVE  AllRowsAgree' /\ AllInformed' /\ PublicationsBound' /\ ReplacementBound'
  <1>t. TypeInv
    BY DEF DocumentInv
  <1>1. CASE Preflight(s) \/ FailPreparation(s)
    BY <1>1, <1>t, PreflightQuiet, PreflightEffects, PreflightInv, RejectionInv, PreflightFinishInv
    DEF Preflight
  <1>2. CASE Publish(s)
    BY <1>2, <1>t, PublishQuiet, PublishEffects, PublishInv, PublicationFinishInv DEF Publish
  <1>3. CASE Deletion(s)
    BY <1>3, <1>t, DeletionQuiet, DeletionEffects, DeletionInv, PurgeInv, TombstoneInv DEF Deletion
  <1>4. CASE FailOperation(s)
    BY <1>4, FailureInv
  <1>5. CASE LoseLease(s) \/ LoseOwnership(s) \/ Fault(s) \/ Misconfigured(s)
    BY <1>5, <1>t, TroubleQuiet, TroubleEffects, TroubleInv
  <1> QED
    BY <1>1, <1>2, <1>3, <1>4, <1>5 DEF Work, Trouble

-----------------------------------------------------------------------------
(* Claims, leases and crashes. *)

\* They write no column of an operation but its state, which stays open.
LEMMA LeaseRows ==
    ASSUME TypeInv, Lease \/ \E s \in Slots : Claim(s)
    PROVE  /\ DOMAIN ops' = DOMAIN ops
           /\ \A i \in DOMAIN ops :
                /\ ops'[i].type = ops[i].type /\ ops'[i].doc = ops[i].doc
                /\ ops'[i].target = ops[i].target /\ ops'[i].rev = ops[i].rev
                /\ ops'[i].state \in OpenState <=> ops[i].state \in OpenState
                /\ ops'[i].phase = ops[i].phase
                /\ ops[i].state \notin OpenState => ops'[i] = ops[i]
           /\ UNCHANGED <<doc, revisions, content, pub, del, active, screening, files>>
  <1>0. UNCHANGED <<doc, revisions, content, pub, del, active, screening, files>>
    BY DEF Lease, Claim, RecoverLease, LapseLease, Crash, prepVars, index
  <1>1. ASSUME NEW i \in DOMAIN ops, NEW state \in {"QUEUED", "RUNNING"},
               ops[i].state \in {"QUEUED", "RUNNING"}, ops' = [ops EXCEPT ![i].state = state]
        PROVE  /\ DOMAIN ops' = DOMAIN ops
               /\ \A j \in DOMAIN ops :
                    /\ ops'[j].type = ops[j].type /\ ops'[j].doc = ops[j].doc
                    /\ ops'[j].target = ops[j].target /\ ops'[j].rev = ops[j].rev
                    /\ ops'[j].state \in OpenState <=> ops[j].state \in OpenState
                    /\ ops'[j].phase = ops[j].phase
                    /\ ops[j].state \notin OpenState => ops'[j] = ops[j]
    <2> DEFINE row == [ops[i] EXCEPT !.state = state]
    <2>1. /\ row \in Operation /\ row.state = state /\ row.type = ops[i].type
          /\ row.doc = ops[i].doc /\ row.target = ops[i].target /\ row.rev = ops[i].rev
          /\ row.phase = ops[i].phase
      BY OpsTyped DEF Operation
    <2>2. ops' = [ops EXCEPT ![i] = row]
      BY <1>1
    <2> HIDE DEF row
    <2>3. /\ DOMAIN ops' = DOMAIN ops
          /\ \A j \in DOMAIN ops : ops'[j] = IF j = i THEN row ELSE ops[j]
      BY <2>1, <2>2, RowRewritten DEF TypeInv, TypeOK
    <2> QED
      BY <1>1, <2>1, <2>3 DEF OpenState
  <1>2. CASE Crash
    <2>1. ops' = ops
      BY <1>2 DEF Crash
    <2> QED
      BY <2>1, <1>0
  <1>3. CASE \E i \in DOMAIN ops : RecoverLease(i) \/ LapseLease(i)
    BY <1>0, <1>3, <1>1 DEF RecoverLease, LapseLease
  <1>4. CASE \E s \in Slots : Claim(s)
    BY <1>0, <1>4, <1>1 DEF Claim, Claimable
  <1> QED
    BY <1>2, <1>3, <1>4 DEF Lease

\* What a slot knows survives the claims and leases of others, and a slot that
\* just claimed an operation knows its type.
LEMMA LeaseInv ==
    ASSUME DocumentInv, Lease \/ \E s \in Slots : Claim(s)
    PROVE  AllRowsAgree' /\ AllInformed' /\ PublicationsBound' /\ ReplacementBound'
  <1>t. TypeInv /\ slot \in [Slots -> Slot]
    BY DEF DocumentInv, TypeInv, TypeOK
  <1>1. /\ DOMAIN ops' = DOMAIN ops
        /\ \A i \in DOMAIN ops :
                /\ ops'[i].type = ops[i].type /\ ops'[i].doc = ops[i].doc
                /\ ops'[i].target = ops[i].target /\ ops'[i].rev = ops[i].rev
                /\ ops'[i].state \in OpenState <=> ops[i].state \in OpenState
        /\ UNCHANGED <<doc, revisions, content, pub, del, active, screening, files>>
    BY <1>t, LeaseRows
  <1>2. \A d \in Documents : Untouched(d)
    BY <1>1 DEF Untouched
  <1>3. AllRowsAgree'
    BY <1>2, UntouchedAgrees DEF DocumentInv, AllRowsAgree
  <1>4. PublicationsBound' /\ ReplacementBound'
    BY <1>1 DEF DocumentInv, PublicationsBound, ReplacementBound
  <1>5. ASSUME NEW t \in Slots, slot'[t] = slot[t] PROVE SlotInformed(t)'
    <2>1. SlotInformed(t)
      BY DEF DocumentInv, AllInformed
    <2>2. ASSUME slot[t].pc # "idle"
          PROVE  /\ ops'[slot[t].op].state \in OpenState
                 /\ ops'[slot[t].op].type = Op(t).type /\ ops'[slot[t].op].doc = Op(t).doc
                 /\ ops'[slot[t].op].target = Op(t).target /\ ops'[slot[t].op].rev = Op(t).rev
                 /\ Untouched(Doc(t)) /\ Untouched(Subject(t))
                 /\ Op(t).target # None => doc'[Op(t).target] = doc[Op(t).target]
      <3>1. /\ slot[t].op \in DOMAIN ops /\ ops[slot[t].op] = Op(t) /\ Op(t).state \in OpenState
            /\ Doc(t) \in Documents /\ Subject(t) \in Documents
        BY <2>2, Engaged
      <3> QED
        BY <3>1, <1>1, <1>2
    <2> QED
      BY <1>5, <2>1, <2>2, InformedKept
  <1>6. CASE Crash
    <2>1. \A t \in Slots : slot'[t] = Idle
      BY <1>6 DEF Crash
    <2>2. AllInformed'
      BY <2>1 DEF AllInformed, SlotInformed, Idle
    <2> QED
      BY <1>3, <1>4, <2>2
  <1>7. CASE \E i \in DOMAIN ops : RecoverLease(i) \/ LapseLease(i)
    <2>1. slot' = slot
      BY <1>7 DEF RecoverLease, LapseLease
    <2> QED
      BY <1>3, <1>4, <1>5, <2>1 DEF AllInformed
  <1>8. ASSUME NEW s \in Slots, Claim(s)
        PROVE  AllRowsAgree' /\ AllInformed' /\ PublicationsBound' /\ ReplacementBound'
    <2>1. PICK i \in DOMAIN ops :
              /\ ops[i].state = "QUEUED"
              /\ slot' = [slot EXCEPT ![s] = [Idle EXCEPT
                    !.op = i,
                    !.pc = IF ops[i].type = "PREFLIGHT" THEN "source" ELSE "snapshot"]]
      BY <1>8 DEF Claim, Claimable
    <2> DEFINE v == [Idle EXCEPT !.op = i,
                        !.pc = IF ops[i].type = "PREFLIGHT" THEN "source" ELSE "snapshot"]
    <2>2. v.op = i /\ v.pc = IF ops[i].type = "PREFLIGHT" THEN "source" ELSE "snapshot"
      BY DEF Idle
    <2>3. slot' = [slot EXCEPT ![s] = v]
      BY <2>1
    <2> HIDE DEF v
    <2>4. slot'[s] = v /\ \A t \in Slots \ {s} : slot'[t] = slot[t]
      BY <2>3, <1>t
    <2>5. /\ Op(s)' = ops'[i] /\ ops'[i].state \in OpenState /\ ops'[i].type = ops[i].type
      BY <1>1, <2>1, <2>2, <2>4 DEF Op, OpenState
    <2>6. SlotInformed(s)'
      <3>1. slot'[s].pc = IF ops[i].type = "PREFLIGHT" THEN "source" ELSE "snapshot"
        BY <2>2, <2>4
      <3>2. StepFits(s)'
        BY <3>1, <2>5 DEF StepFits, PreflightSteps, PublishSteps, DeletionSteps
      <3>3. RevisionInHand(s)' /\ PointsInHand(s)' /\ ProofsInHand(s)'
        BY <3>1 DEF RevisionInHand, PointsInHand, ProofsInHand, Preparing, PreflightSteps,
                    PublishSteps, DeletionSteps, PurgeSteps, TryBlock
      <3> QED
        BY <3>2, <3>3 DEF SlotInformed
    <2> QED
      BY <1>3, <1>4, <1>5, <2>4, <2>6 DEF AllInformed
  <1> QED
    BY <1>6, <1>7, <1>8 DEF Lease

-----------------------------------------------------------------------------
(* Requests. *)

\* No open operation locks a document that is neither in progress nor terminal.
LEMMA SettledFree ==
    ASSUME DocumentInv, NEW d \in Documents,
           doc[d].state \notin InProgress, doc[d].state \notin Disposition,
           NEW i \in DOMAIN ops, ops[i].state \in OpenState
    PROVE  d \notin Locked(ops[i])
  <1>1. ops[i].doc \in Documents /\ ops[i].type \in OperationType
    BY OpsTyped DEF DocumentInv
  <1>2. ops[i].doc # d
    BY <1>1, StateOfType DEF DocumentInv, Ownership, WorkIsOwned
  <1>3. ops[i].target # d
    <2> SUFFICES ASSUME ops[i].target = d PROVE FALSE
      OBVIOUS
    <2>1. ops[i].target # None
      BY NoneAssumption
    <2> QED
      BY <2>1 DEF DocumentInv, PublicationsBound, InProgress
  <1> QED
    BY <1>2, <1>3 DEF Locked

\* A request is looked at for the documents it writes, which no slot works on.
LEMMA RequestInv ==
    ASSUME DocumentInv, TypeInv', slot' = slot, active' = active,
           NEW row \in Operation, Enqueue(row),
           NEW X \in SUBSET Documents,
           \A i \in DOMAIN ops : ops[i].state \in OpenState => Locked(ops[i]) \cap X = {},
           \A d \in Documents \ X : Untouched(d),
           \A d \in X : RowsAgree(d)',
           \A d \in X :
              /\ pub[d].status # "NONE" => pub'[d].status # "NONE" /\ pub'[d].rev = pub[d].rev
              /\ doc'[d].state \in Fresh => doc[d].state \in Fresh
              /\ doc[d].state \in Disposition => doc'[d].state \in Disposition
              /\ doc'[d].replacedBy # doc[d].replacedBy =>
                  /\ doc'[doc'[d].replacedBy].state \notin Fresh
                  /\ doc[doc'[d].replacedBy].state \in Fresh,
           row.type = "PUBLISH" =>
              /\ pub'[row.doc].status # "NONE" /\ row.rev = pub'[row.doc].rev
              /\ \A t \in Documents : doc'[t].replacedBy = row.doc => row.target = t,
           row.target # None => doc'[row.target].state \in {"DELETING"} \cup Disposition
    PROVE  AllRowsAgree' /\ AllInformed' /\ PublicationsBound' /\ ReplacementBound'
  <1>1. /\ HistoryKept /\ \A i \in DOMAIN ops : ops'[i] = ops[i]
        /\ \A i \in NewOps : ops'[i] = row
    BY Enqueued DEF DocumentInv, TypeInv, TypeOK, NewOps
  <1>2. AllRowsAgree'
    <2> SUFFICES ASSUME NEW d \in Documents PROVE RowsAgree(d)'
      BY DEF AllRowsAgree
    <2>1. CASE d \in X
      BY <2>1
    <2>2. CASE d \notin X
      BY <2>2, UntouchedAgrees DEF DocumentInv, AllRowsAgree
    <2> QED
      BY <2>1, <2>2
  <1>3. AllInformed'
    <2> SUFFICES ASSUME NEW t \in Slots PROVE SlotInformed(t)'
      BY DEF AllInformed
    <2>1. SlotInformed(t)
      BY DEF DocumentInv, AllInformed
    <2>2. ASSUME slot[t].pc # "idle"
          PROVE  /\ ops'[slot[t].op].state \in OpenState
                 /\ ops'[slot[t].op].type = Op(t).type /\ ops'[slot[t].op].doc = Op(t).doc
                 /\ ops'[slot[t].op].target = Op(t).target /\ ops'[slot[t].op].rev = Op(t).rev
                 /\ Untouched(Doc(t)) /\ Untouched(Subject(t))
                 /\ Op(t).target # None => doc'[Op(t).target] = doc[Op(t).target]
      <3>1. /\ slot[t].op \in DOMAIN ops /\ ops[slot[t].op] = Op(t) /\ Op(t).state \in OpenState
            /\ Doc(t) \in Documents /\ Subject(t) \in Documents
            /\ Locked(Op(t)) = {Doc(t), Subject(t)}
            /\ Op(t).target # None => Subject(t) = Op(t).target
        BY <2>2, Engaged
      <3>2. Locked(Op(t)) \cap X = {}
        BY <3>1
      <3>3. Untouched(Doc(t)) /\ Untouched(Subject(t))
        BY <3>1, <3>2
      <3> QED
        BY <3>1, <3>3, <1>1 DEF Untouched
    <2> QED
      BY <2>1, <2>2, InformedKept
  <1>4. \A d \in Documents :
              /\ pub[d].status # "NONE" => pub'[d].status # "NONE" /\ pub'[d].rev = pub[d].rev
              /\ doc'[d].state \in Fresh => doc[d].state \in Fresh
              /\ doc[d].state \in Disposition => doc'[d].state \in Disposition
              /\ doc'[d].replacedBy # doc[d].replacedBy =>
                  /\ doc'[doc'[d].replacedBy].state \notin Fresh
                  /\ doc[doc'[d].replacedBy].state \in Fresh
    BY DEF Untouched
  <1>5. ASSUME NEW i \in DOMAIN ops, ops'[i].state \in OpenState, ops[i].target # None
        PROVE  doc'[ops[i].target].state \in {"DELETING"} \cup Disposition
    <2>1. ops[i].state \in OpenState
      BY <1>1, <1>5
    <2>2. ops[i].target \in Documents /\ ops[i].target \in Locked(ops[i])
      BY <1>5, OpsTyped DEF DocumentInv, Locked
    <2>3. doc'[ops[i].target] = doc[ops[i].target]
      BY <2>1, <2>2 DEF Untouched
    <2> QED
      BY <2>1, <2>3, <1>5 DEF DocumentInv, PublicationsBound
  <1>6. PublicationsBound' /\ ReplacementBound'
    BY <1>1, <1>4, <1>5, LoudBound
  <1> QED
    BY <1>2, <1>3, <1>6

\* An admitted document starts with its source.
LEMMA UploadInv ==
    ASSUME DocumentInv, TypeInv', NEW d \in Documents, Upload(d)
    PROVE  AllRowsAgree' /\ AllInformed' /\ PublicationsBound' /\ ReplacementBound'
  <1> DEFINE row == QueuedOperation("PREFLIGHT", d, None, 0, "QUEUED")
             new == [doc[d] EXCEPT !.state = "PREFLIGHTING", !.key = TRUE]
  <1>1. /\ doc[d].state = "ABSENT" /\ Enqueue(row) /\ doc' = [doc EXCEPT ![d] = new]
        /\ files' = [files EXCEPT ![d] = {"source"}]
        /\ UNCHANGED <<revisions, content, pub, del, active, screening, slot>>
    BY DEF Upload, prepVars, index
  <1>2. /\ row \in Operation /\ row.type = "PREFLIGHT" /\ row.target = None
    <2>1. "PREFLIGHT" \in OperationType /\ "QUEUED" \in OperationPhase
      BY DEF OperationType, OperationPhase
    <2> QED
      BY <2>1, QueuedType DEF QueuedOperation
  <1>3. /\ doc \in [Documents -> DocumentRow]
        /\ files \in [Documents -> SUBSET {"source", "artifact"}]
    BY DEF DocumentInv, TypeInv, TypeOK
  <1>4. /\ new.state = "PREFLIGHTING" /\ new.key = TRUE
        /\ new.disposition = doc[d].disposition /\ new.replacedBy = doc[d].replacedBy
    BY <1>3 DEF DocumentRow
  <1> HIDE DEF row, new
  <1>5. doc'[d] = new /\ \A x \in Documents \ {d} : Untouched(x)
    BY <1>1, <1>3 DEF Untouched
  <1>6. /\ {"ABSENT", "PREFLIGHTING"} \subseteq Fresh
        /\ {"ABSENT", "PREFLIGHTING"} \cap Dying = {}
        /\ {"ABSENT", "PREFLIGHTING"} \cap Disposition = {}
        /\ "ABSENT" \notin InProgress /\ NoProgress.proofs = {}
    BY DEF Fresh, Dying, Disposition, InProgress, NoProgress
  <1>7. RowsAgree(d)'
    <2>1. CheckpointFits(d) /\ PublicationFits(d) /\ ReplacedDeleted(d)
      BY DEF DocumentInv, AllRowsAgree, RowsAgree
    <2>2. del'[d] = NoProgress /\ del'[d].proofs = {} /\ del[d].proofs = {}
      BY <2>1, <1>1, <1>6 DEF CheckpointFits
    <2>3. CheckpointFits(d)'
      BY <2>2, <1>4, <1>5, <1>6 DEF CheckpointFits
    <2>4. ProofsTrue(d)'
      BY <2>2 DEF ProofsTrue
    <2>5. PublicationFits(d)' /\ ReadyShown(d)'
      BY <2>1, <1>1, <1>4, <1>5, <1>6 DEF PublicationFits, ReadyShown, Sealed
    <2>6. ReplacedDeleted(d)'
      BY <2>1, <1>4, <1>5, <1>6 DEF ReplacedDeleted
    <2> QED
      BY <2>3, <2>4, <2>5, <2>6 DEF RowsAgree
  <1>8. \A i \in DOMAIN ops : ops[i].state \in OpenState => Locked(ops[i]) \cap {d} = {}
    BY <1>1, <1>6, SettledFree
  <1>9. \A x \in {d} :
              /\ pub[x].status # "NONE" => pub'[x].status # "NONE" /\ pub'[x].rev = pub[x].rev
              /\ doc'[x].state \in Fresh => doc[x].state \in Fresh
              /\ doc[x].state \in Disposition => doc'[x].state \in Disposition
              /\ doc'[x].replacedBy = doc[x].replacedBy
    BY <1>1, <1>4, <1>5, <1>6
  <1> QED
    BY <1>1, <1>2, <1>5, <1>7, <1>8, <1>9, RequestInv

\* The revision an approval names is the last one.
LEMMA LastApproved ==
    ASSUME DocumentInv, NEW d \in Documents, doc[d].state = "REVIEW_REQUIRED",
           NEW r \in DOMAIN revisions[d], IsLatestSealed(r, d)
    PROVE  r = Len(revisions[d]) /\ r \in Nat /\ Sealed(d, r)
  <1>1. /\ revisions[d] \in Seq({"PREPARING", "SEALED", "FAILED"})
        /\ Sealed(d, Len(revisions[d]))
    BY DEF DocumentInv, TypeInv, TypeOK, AllRowsAgree, RowsAgree, PublicationFits
  <1>2. DOMAIN revisions[d] = 1 .. Len(revisions[d]) /\ Len(revisions[d]) \in Nat
    BY <1>1
  <1>3. Len(revisions[d]) <= r
    BY <1>1 DEF IsLatestSealed, Sealed
  <1> QED
    BY <1>2, <1>3 DEF IsLatestSealed, Sealed

\* The rows of an approved document.
LEMMA ApprovedRows ==
    ASSUME DocumentInv, NEW d \in Documents, doc[d].state = "REVIEW_REQUIRED",
           NEW r \in DOMAIN revisions[d], IsLatestSealed(r, d), EnsurePublication(d, r),
           doc'[d].state = "PUBLISHING", doc'[d].key = doc[d].key,
           doc'[d].disposition = doc[d].disposition, doc'[d].replacedBy = doc[d].replacedBy,
           UNCHANGED <<revisions, content, active, screening, files>>, del'[d] = del[d]
    PROVE  /\ RowsAgree(d)' /\ pub'[d].rev = r /\ pub'[d].status # "NONE"
           /\ pub[d].status = "NONE" /\ \A x \in Documents \ {d} : pub'[x] = pub[x]
           /\ \A t \in Documents : doc[t].replacedBy # d
  <1> DEFINE p == [status |-> "PENDING", rev |-> r]
  <1>1. /\ pub \in [Documents -> Publication] /\ pub' = [pub EXCEPT ![d] = p]
        /\ p.status = "PENDING" /\ p.rev = r
    BY DEF DocumentInv, TypeInv, TypeOK, EnsurePublication
  <1> HIDE DEF p
  <1>2. pub'[d] = p /\ \A x \in Documents \ {d} : pub'[x] = pub[x]
    BY <1>1
  <1>3. r = Len(revisions[d]) /\ Sealed(d, r) /\ RowsAgree(d)
    BY LastApproved DEF DocumentInv, AllRowsAgree
  <1>4. /\ "REVIEW_REQUIRED" \in Fresh /\ "PUBLISHING" \notin Fresh
        /\ {"REVIEW_REQUIRED", "PUBLISHING"} \cap Dying = {}
        /\ {"REVIEW_REQUIRED", "PUBLISHING"} \cap Disposition = {}
    BY DEF Fresh, Dying, Disposition
  <1>5. RowsAgree(d)'
    BY <1>1, <1>2, <1>3, <1>4, MovedRows
  <1>6. pub[d].status = "NONE"
    BY <1>3, <1>4 DEF RowsAgree, PublicationFits
  <1>7. \A t \in Documents : doc[t].replacedBy # d
    <2> SUFFICES ASSUME NEW t \in Documents, doc[t].replacedBy = d PROVE FALSE
      OBVIOUS
    <2>1. doc[t].replacedBy # None
      BY NoneAssumption
    <2> QED
      BY <2>1, <1>4 DEF DocumentInv, ReplacementBound
  <1> QED
    BY <1>1, <1>2, <1>5, <1>6, <1>7

\* An approval sends the reviewed revision to its publication.
LEMMA KeepInv ==
    ASSUME DocumentInv, TypeInv', NEW d \in Documents, Keep(d)
    PROVE  AllRowsAgree' /\ AllInformed' /\ PublicationsBound' /\ ReplacementBound'
  <1>1. PICK r \in DOMAIN revisions[d] :
          /\ IsLatestSealed(r, d) /\ EnsurePublication(d, r)
          /\ Enqueue(QueuedOperation("PUBLISH", d, None, r, "QUEUED"))
    BY DEF Keep
  <1> DEFINE row == QueuedOperation("PUBLISH", d, None, r, "QUEUED")
             new == [doc[d] EXCEPT !.state = "PUBLISHING"]
  <1>2. /\ doc[d].state = "REVIEW_REQUIRED" /\ Enqueue(row) /\ doc' = [doc EXCEPT ![d] = new]
        /\ UNCHANGED <<revisions, content, del, active, screening, files, slot>>
    BY <1>1 DEF Keep, prepVars, index
  <1>3. r \in Nat
    BY <1>1, <1>2, LastApproved
  <1>4. row \in Operation /\ row.type = "PUBLISH" /\ row.target = None /\ row.doc = d /\ row.rev = r
    <2>1. "PUBLISH" \in OperationType /\ "QUEUED" \in OperationPhase
      BY DEF OperationType, OperationPhase
    <2> QED
      BY <2>1, <1>3, QueuedType DEF QueuedOperation
  <1>5. doc \in [Documents -> DocumentRow]
    BY DEF DocumentInv, TypeInv, TypeOK
  <1>6. /\ new.state = "PUBLISHING" /\ new.key = doc[d].key
        /\ new.disposition = doc[d].disposition /\ new.replacedBy = doc[d].replacedBy
    BY <1>5 DEF DocumentRow
  <1> HIDE DEF row, new
  <1>7. doc'[d] = new /\ \A x \in Documents \ {d} : doc'[x] = doc[x]
    BY <1>2, <1>5
  <1>8. /\ RowsAgree(d)' /\ pub'[d].rev = r /\ pub'[d].status # "NONE"
        /\ pub[d].status = "NONE" /\ \A x \in Documents \ {d} : pub'[x] = pub[x]
        /\ \A t \in Documents : doc[t].replacedBy # d
    BY <1>1, <1>2, <1>6, <1>7, ApprovedRows
  <1>9. \A x \in Documents \ {d} : Untouched(x)
    BY <1>2, <1>7, <1>8 DEF Untouched
  <1>10. \A i \in DOMAIN ops : ops[i].state \in OpenState => Locked(ops[i]) \cap {d} = {}
    BY <1>2, SettledFree DEF InProgress, Disposition
  <1>11. \A x \in {d} :
              /\ pub[x].status # "NONE" => pub'[x].status # "NONE" /\ pub'[x].rev = pub[x].rev
              /\ doc'[x].state \in Fresh => doc[x].state \in Fresh
              /\ doc[x].state \in Disposition => doc'[x].state \in Disposition
              /\ doc'[x].replacedBy = doc[x].replacedBy
    BY <1>2, <1>6, <1>7, <1>8 DEF Fresh, Disposition
  <1>12. \A t \in Documents : doc'[t].replacedBy # d
    BY <1>6, <1>7, <1>8
  <1> QED
    BY <1>2, <1>4, <1>8, <1>9, <1>10, <1>11, <1>12, RequestInv

\* A replacement approves one document and condemns the other.
LEMMA ReplaceInv ==
    ASSUME DocumentInv, TypeInv', NEW d \in Documents, NEW t \in Documents, Replace(d, t)
    PROVE  AllRowsAgree' /\ AllInformed' /\ PublicationsBound' /\ ReplacementBound'
  <1>1. PICK r \in DOMAIN revisions[d] :
          /\ IsLatestSealed(r, d) /\ EnsurePublication(d, r)
          /\ Enqueue(QueuedOperation("PUBLISH", d, t, r, "QUEUED"))
    BY DEF Replace
  <1> DEFINE row == QueuedOperation("PUBLISH", d, t, r, "QUEUED")
             new == Cleared(doc[d], "PUBLISHING")
             old == [Condemned(doc[t], "DELETED") EXCEPT !.replacedBy = d]
  <1>2. /\ d # t /\ doc[d].state = "REVIEW_REQUIRED" /\ Enqueue(row)
        /\ doc' = [doc EXCEPT ![d] = new, ![t] = old]
        /\ del' = [del EXCEPT ![t] = [phase |-> "DELETE_ACTIVE_POINTS", proofs |-> {}]]
        /\ doc[t].state = "READY"
        /\ UNCHANGED <<revisions, content, active, screening, files, slot>>
    BY <1>1 DEF Replace, Replaceable, StartDeletion, prepVars, index
  <1>3. r \in Nat
    BY <1>1, <1>2, LastApproved
  <1>4. row \in Operation /\ row.type = "PUBLISH" /\ row.target = t /\ row.doc = d /\ row.rev = r
    <2>1. "PUBLISH" \in OperationType /\ "QUEUED" \in OperationPhase
      BY DEF OperationType, OperationPhase
    <2> QED
      BY <2>1, <1>3, QueuedType DEF QueuedOperation
  <1>5. doc \in [Documents -> DocumentRow] /\ del \in [Documents -> Progress]
    BY DEF DocumentInv, TypeInv, TypeOK
  <1>6. /\ new.state = "PUBLISHING" /\ new.key = doc[d].key
        /\ new.disposition = doc[d].disposition /\ new.replacedBy = doc[d].replacedBy
    BY <1>5, RowColumns
  <1>7. /\ old.state = "DELETING" /\ old.key = doc[t].key
        /\ old.disposition = "DELETED" /\ old.replacedBy = d
    <2>1. /\ Condemned(doc[t], "DELETED") \in DocumentRow
          /\ Condemned(doc[t], "DELETED").state = "DELETING"
          /\ Condemned(doc[t], "DELETED").key = doc[t].key
          /\ Condemned(doc[t], "DELETED").disposition = "DELETED"
      BY <1>5, RowTypes, RowColumns DEF Disposition
    <2> QED
      BY <2>1 DEF DocumentRow
  <1> HIDE DEF row, new, old
  <1>8. /\ doc'[d] = new /\ doc'[t] = old /\ \A x \in Documents \ {d, t} : doc'[x] = doc[x]
        /\ del'[t] = [phase |-> "DELETE_ACTIVE_POINTS", proofs |-> {}]
        /\ \A x \in Documents \ {t} : del'[x] = del[x]
    BY <1>2, <1>5
  <1>9. /\ RowsAgree(d)' /\ pub'[d].rev = r /\ pub'[d].status # "NONE"
        /\ pub[d].status = "NONE" /\ \A x \in Documents \ {d} : pub'[x] = pub[x]
        /\ \A u \in Documents : doc[u].replacedBy # d
    BY <1>1, <1>2, <1>6, <1>8, ApprovedRows
  <1>10. RowsAgree(t)'
    <2>1. RowsAgree(t) /\ "READY" \notin Dying
      BY DEF DocumentInv, AllRowsAgree, Dying, Disposition
    <2> QED
      BY <2>1, <1>2, <1>7, <1>8, <1>9, CondemnedRows
  <1>11. \A x \in Documents \ {d, t} : Untouched(x)
    BY <1>2, <1>8, <1>9 DEF Untouched
  <1>12. \A i \in DOMAIN ops : ops[i].state \in OpenState => Locked(ops[i]) \cap {d, t} = {}
    BY <1>2, SettledFree DEF InProgress, Disposition
  <1>13. /\ "REVIEW_REQUIRED" \in Fresh
         /\ {"PUBLISHING", "DELETING", "READY"} \cap Fresh = {}
         /\ {"REVIEW_REQUIRED", "READY"} \cap Disposition = {}
    BY DEF Fresh, Disposition
  <1>14. \A x \in {d, t} :
              /\ pub[x].status # "NONE" => pub'[x].status # "NONE" /\ pub'[x].rev = pub[x].rev
              /\ doc'[x].state \in Fresh => doc[x].state \in Fresh
              /\ doc[x].state \in Disposition => doc'[x].state \in Disposition
              /\ doc'[x].replacedBy # doc[x].replacedBy =>
                  /\ doc'[doc'[x].replacedBy].state \notin Fresh
                  /\ doc[doc'[x].replacedBy].state \in Fresh
    BY <1>2, <1>6, <1>7, <1>8, <1>9, <1>13
  <1>15. \A u \in Documents : doc'[u].replacedBy = d => t = u
    BY <1>6, <1>8, <1>9
  <1>16. doc'[t].state \in {"DELETING"} \cup Disposition /\ {d, t} \in SUBSET Documents
    BY <1>7, <1>8
  <1>17. \A x \in {d, t} : RowsAgree(x)'
    BY <1>9, <1>10
  <1> QED
    BY <1>2, <1>4, <1>9, <1>11, <1>12, <1>14, <1>15, <1>16, <1>17, RequestInv

\* begin_deletion condemns a document at rest.
LEMMA DeletionRequestInv ==
    ASSUME DocumentInv, TypeInv', NEW d \in Documents, NEW c \in Disposition, NEW r \in Nat,
           doc[d].state \in {"READY", "REVIEW_REQUIRED", "PUBLISH_FAILED", "PREFLIGHT_FAILED"},
           BeginDeletion(d, c, r), UNCHANGED <<prepVars, pub, index, files, slot>>
    PROVE  AllRowsAgree' /\ AllInformed' /\ PublicationsBound' /\ ReplacementBound'
  <1> DEFINE row == QueuedOperation("DELETE", d, None, r, "QUEUED")
             condemned == Condemned(doc[d], c)
  <1>1. /\ Enqueue(row) /\ doc' = [doc EXCEPT ![d] = condemned]
        /\ del' = [del EXCEPT ![d] = [phase |-> "DELETE_ACTIVE_POINTS", proofs |-> {}]]
        /\ UNCHANGED <<revisions, content, pub, active, screening, files, slot>>
    BY DEF BeginDeletion, StartDeletion, prepVars, index
  <1>2. row \in Operation /\ row.type = "DELETE" /\ row.target = None
    <2>1. "DELETE" \in OperationType /\ "QUEUED" \in OperationPhase
      BY DEF OperationType, OperationPhase
    <2> QED
      BY <2>1, QueuedType DEF QueuedOperation
  <1>3. doc \in [Documents -> DocumentRow] /\ del \in [Documents -> Progress]
    BY DEF DocumentInv, TypeInv, TypeOK
  <1>4. /\ condemned.state = "DELETING" /\ condemned.key = doc[d].key
        /\ condemned.replacedBy = doc[d].replacedBy
    BY <1>3, RowColumns
  <1> HIDE DEF row, condemned
  <1>5. /\ doc'[d] = condemned /\ del'[d] = [phase |-> "DELETE_ACTIVE_POINTS", proofs |-> {}]
        /\ \A x \in Documents \ {d} : Untouched(x)
    BY <1>1, <1>3 DEF Untouched
  <1>6. doc[d].state \notin Dying /\ doc[d].state \notin Disposition
        /\ doc[d].state \notin InProgress /\ doc[d].state # "ABSENT"
    BY DEF Dying, Disposition, InProgress
  <1>7. doc[d].replacedBy = None
    BY <1>6 DEF DocumentInv, Ownership, ReplacedDying
  <1>8. RowsAgree(d)'
    <2>1. RowsAgree(d)
      BY DEF DocumentInv, AllRowsAgree
    <2> QED
      BY <2>1, <1>1, <1>4, <1>5, <1>6, <1>7, CondemnedRows
  <1>9. \A i \in DOMAIN ops : ops[i].state \in OpenState => Locked(ops[i]) \cap {d} = {}
    BY <1>6, SettledFree
  <1>10. \A x \in {d} :
              /\ pub[x].status # "NONE" => pub'[x].status # "NONE" /\ pub'[x].rev = pub[x].rev
              /\ doc'[x].state \in Fresh => doc[x].state \in Fresh
              /\ doc[x].state \in Disposition => doc'[x].state \in Disposition
              /\ doc'[x].replacedBy = doc[x].replacedBy
    BY <1>1, <1>4, <1>5, <1>6 DEF Fresh
  <1> QED
    BY <1>1, <1>2, <1>5, <1>8, <1>9, <1>10, RequestInv

\* request_retry resumes a failed document, and a failed target with it.
LEMMA RetryInv ==
    ASSUME DocumentInv, TypeInv', NEW d \in Documents, Retry(d)
    PROVE  AllRowsAgree' /\ AllInformed' /\ PublicationsBound' /\ ReplacementBound'
  <1>1. PICK i \in DOMAIN ops :
        /\ Retryable(d, RetryOwner(d), i)
        /\ pub' = IF ops[i].type = "PUBLISH"
                  THEN [pub EXCEPT ![RetryOwner(d)].status = "PENDING"] ELSE pub
        /\ doc' = [x \in Documents |->
                    IF x = RetryOwner(d) THEN Cleared(doc[x], InProgressState(ops[i].type))
                    ELSE IF x = ops[i].target /\ doc[x].state = "DELETE_FAILED"
                    THEN Cleared(doc[x], "DELETING")
                    ELSE doc[x]]
        /\ Enqueue(QueuedOperation(ops[i].type, RetryOwner(d), ops[i].target, ops[i].rev,
                                   ResumePhase(i)))
    BY DEF Retry
  <1>u. UNCHANGED <<revisions, content, del, active, screening, files, slot>>
    BY DEF Retry, prepVars, index
  <1>2. /\ ops[i] \in Operation /\ ops[i].type \in OperationType
        /\ ops[i].target \in Documents \cup {None} /\ ops[i].doc \in Documents
        /\ ops[i].rev \in Nat /\ ops[i].phase \in OperationPhase
    BY OpsTyped DEF Operation, DocumentInv
  <1>3. PICK e \in Documents : e = RetryOwner(d) /\ e = ops[i].doc
    BY <1>1, <1>2 DEF Retryable, IsLatest
  <1>4. /\ doc[e].state \in Failed /\ ops[i].type = RetryType(e)
    BY <1>1, <1>3 DEF Retryable, IsLatest
  <1> DEFINE t == ops[i].target
             row == QueuedOperation(ops[i].type, e, t, ops[i].rev, ResumePhase(i))
             v == InProgressState(ops[i].type)
             pending == [pub[e] EXCEPT !.status = "PENDING"]
  <1>5. /\ row.type = ops[i].type /\ row.doc = e /\ row.target = t /\ row.rev = ops[i].rev
        /\ Enqueue(row)
    BY <1>1, <1>3 DEF QueuedOperation
  <1>6. row \in Operation
    <2>1. ResumePhase(i) \in OperationPhase
      <3>1. CASE ops[i].type = "DELETE"
        <4>1. del[e].phase \in DeletionPhase
          BY <3>1, <1>1, <1>3 DEF Retryable, DocumentInv, TypeInv, PhasesRecorded
        <4> QED
          BY <4>1, <3>1, <1>3 DEF ResumePhase, OperationPhase
      <3>2. CASE ops[i].type # "DELETE"
        BY <3>2, <1>2 DEF ResumePhase
      <3> QED
        BY <3>1, <3>2
    <2> QED
      BY <2>1, <1>2, QueuedType
  <1>7. /\ doc \in [Documents -> DocumentRow] /\ pub \in [Documents -> Publication]
    BY DEF DocumentInv, TypeInv, TypeOK
  <1>8. pending.status = "PENDING" /\ pending.rev = pub[e].rev
    BY <1>7 DEF Publication
  <1>9. /\ ops[i].type = "PUBLISH" => pub' = [pub EXCEPT ![e] = pending]
        /\ ops[i].type # "PUBLISH" => pub' = pub
    BY <1>1, <1>3
  <1> HIDE DEF row, pending
  <1>10. /\ doc'[e].state = v /\ doc'[e].key = doc[e].key
         /\ doc'[e].disposition = doc[e].disposition /\ doc'[e].replacedBy = doc[e].replacedBy
    <2>1. doc'[e] = Cleared(doc[e], v) /\ doc[e] \in DocumentRow
      BY <1>1, <1>3, <1>7
    <2> QED
      BY <2>1, RowColumns
  <1>11. ASSUME NEW y \in Documents, y # e
         PROVE  /\ pub'[y] = pub[y]
                /\ \/ Untouched(y) /\ (y = t => doc[y].state # "DELETE_FAILED")
                   \/ /\ y = t /\ doc[y].state = "DELETE_FAILED"
                      /\ doc'[y].state = "DELETING" /\ doc'[y].key = doc[y].key
                      /\ doc'[y].disposition = doc[y].disposition
                      /\ doc'[y].replacedBy = doc[y].replacedBy
    <2>0. pub'[y] = pub[y]
      BY <1>7, <1>9, <1>11
    <2>1. CASE y = t /\ doc[y].state = "DELETE_FAILED"
      <3>1. doc'[y] = Cleared(doc[y], "DELETING") /\ doc[y] \in DocumentRow
        BY <2>1, <1>1, <1>3, <1>7, <1>11
      <3> QED
        BY <3>1, <2>0, <2>1, RowColumns
    <2>2. CASE ~(y = t /\ doc[y].state = "DELETE_FAILED")
      <3>1. doc'[y] = doc[y]
        BY <2>2, <1>1, <1>3, <1>11
      <3> QED
        BY <3>1, <2>0, <2>2, <1>u DEF Untouched
    <2> QED
      BY <2>1, <2>2
  <1>12. /\ Failed \cap InProgress = {} /\ Failed \cap Disposition = {}
         /\ "DELETE_FAILED" \in Failed
    BY DEF Failed, InProgress, Disposition
  <1>13. t # None => /\ t # e /\ t \in Documents /\ ops[i].type = "PUBLISH"
                     /\ doc[t].state \in Dying
    <2>1. t # None => /\ t # e /\ t \in Documents /\ ops[i].type = "PUBLISH"
                      /\ doc[t].replacedBy = e
      BY <1>2, <1>3 DEF DocumentInv, Ownership, TargetsReplaced
    <2> QED
      BY <2>1, NoneAssumption DEF DocumentInv, Ownership, ReplacedDying
  <1> DEFINE X == {y \in Documents : y = e \/ (y = t /\ doc[y].state = "DELETE_FAILED")}
  <1>14. X \in SUBSET Documents
    OBVIOUS
  <1>15. \A j \in DOMAIN ops : ops[j].state \in OpenState => Locked(ops[j]) \cap X = {}
    BY <1>4, <1>12, SettledFree
  <1>16. \A y \in Documents \ X : Untouched(y)
    BY <1>11
  <1>17. RowsAgree(e)'
    <2>1. RowsAgree(e)
      BY DEF DocumentInv, AllRowsAgree
    <2>2. CASE ops[i].type = "PREFLIGHT"
      <3>1. doc[e].state = "PREFLIGHT_FAILED" /\ doc'[e].state = "PREFLIGHTING" /\ pub'[e] = pub[e]
        BY <2>2, <1>4, <1>9, <1>10 DEF RetryType, Failed, InProgressState
      <3>2. /\ "PREFLIGHT_FAILED" \in Fresh
            /\ {"PREFLIGHTING", "PREFLIGHT_FAILED"} \cap Dying = {}
            /\ {"PREFLIGHTING", "PREFLIGHT_FAILED"} \cap Disposition = {}
        BY DEF Fresh, Dying, Disposition
      <3> QED
        BY <3>1, <3>2, <2>1, <1>10, <1>u, MovedRows
    <2>3. CASE ops[i].type = "PUBLISH"
      <3>1. doc[e].state = "PUBLISH_FAILED" /\ doc'[e].state = "PUBLISHING" /\ pub'[e] = pending
        BY <2>3, <1>4, <1>7, <1>9, <1>10 DEF RetryType, Failed, InProgressState
      <3>2. /\ {"PUBLISHING", "PUBLISH_FAILED"} \cap Dying = {} /\ "PUBLISHING" \notin Fresh
            /\ {"PUBLISHING", "PUBLISH_FAILED"} \cap Disposition = {}
        BY DEF Fresh, Dying, Disposition
      <3>3. /\ pub[e].status # "NONE" /\ pub'[e].rev = pub[e].rev
            /\ pub'[e].status \notin {"NONE", "VERIFIED"}
        BY <3>1, <2>1, <1>8 DEF RowsAgree, PublicationFits
      <3> QED
        BY <3>1, <3>2, <3>3, <2>1, <1>10, <1>u, MovedRows
    <2>4. CASE ops[i].type = "DELETE"
      <3>1. doc[e].state = "DELETE_FAILED" /\ doc'[e].state = "DELETING" /\ pub'[e] = pub[e]
        BY <2>4, <1>4, <1>9, <1>10 DEF RetryType, Failed, InProgressState
      <3>2. /\ {"DELETING", "DELETE_FAILED"} \subseteq Dying /\ "DELETING" \notin Fresh
            /\ {"DELETING", "DELETE_FAILED"} \cap Disposition = {}
        BY DEF Fresh, Dying, Disposition
      <3> QED
        BY <3>1, <3>2, <2>1, <1>10, <1>u, MovedRows
    <2> QED
      BY <2>2, <2>3, <2>4, <1>2 DEF OperationType
  <1>18. ASSUME NEW y \in X, y # e
         PROVE  RowsAgree(y)' /\ doc'[y].state = "DELETING" /\ doc[y].state = "DELETE_FAILED"
                /\ pub'[y] = pub[y] /\ doc'[y].replacedBy = doc[y].replacedBy
    <2>1. /\ y \in Documents /\ doc[y].state = "DELETE_FAILED" /\ doc'[y].state = "DELETING"
          /\ doc'[y].key = doc[y].key /\ doc'[y].disposition = doc[y].disposition
          /\ doc'[y].replacedBy = doc[y].replacedBy /\ pub'[y] = pub[y] /\ RowsAgree(y)
      BY <1>11, <1>18 DEF DocumentInv, AllRowsAgree
    <2>2. /\ {"DELETING", "DELETE_FAILED"} \subseteq Dying /\ "DELETING" \notin Fresh
          /\ {"DELETING", "DELETE_FAILED"} \cap Disposition = {}
      BY DEF Fresh, Dying, Disposition
    <2> QED
      BY <2>1, <2>2, <1>u, MovedRows
  <1>19. \A y \in X :
              /\ pub[y].status # "NONE" => pub'[y].status # "NONE" /\ pub'[y].rev = pub[y].rev
              /\ doc'[y].state \in Fresh => doc[y].state \in Fresh
              /\ doc[y].state \in Disposition => doc'[y].state \in Disposition
              /\ doc'[y].replacedBy = doc[y].replacedBy
    <2>1. /\ pub[e].status # "NONE" => pub'[e].status # "NONE" /\ pub'[e].rev = pub[e].rev
          /\ doc'[e].state \in Fresh => doc[e].state \in Fresh
          /\ doc[e].state \notin Disposition
      <3>1. pub[e].status # "NONE" => pub'[e].status # "NONE" /\ pub'[e].rev = pub[e].rev
        BY <1>7, <1>8, <1>9
      <3>2. doc'[e].state \in Fresh => doc[e].state \in Fresh
        BY <1>2, <1>4, <1>10 DEF RetryType, Failed, InProgressState, OperationType, Fresh
      <3> QED
        BY <3>1, <3>2, <1>4, <1>12
    <2>2. "DELETING" \notin Fresh /\ "DELETE_FAILED" \notin Disposition
      BY DEF Fresh, Disposition
    <2> QED
      BY <2>1, <2>2, <1>10, <1>18
  <1>20. row.type = "PUBLISH" =>
              /\ pub'[row.doc].status # "NONE" /\ row.rev = pub'[row.doc].rev
              /\ \A u \in Documents : doc'[u].replacedBy = row.doc => row.target = u
    <2> SUFFICES ASSUME ops[i].type = "PUBLISH"
                 PROVE  /\ pub'[e].status # "NONE" /\ ops[i].rev = pub'[e].rev
                        /\ \A u \in Documents : doc'[u].replacedBy = e => t = u
      BY <1>5
    <2>1. ops[i].rev = pub[e].rev
      BY <1>3 DEF DocumentInv, PublicationsBound
    <2>2. \A u \in Documents : doc'[u].replacedBy = doc[u].replacedBy
      BY <1>16, <1>19 DEF Untouched
    <2>3. \A u \in Documents : doc[u].replacedBy = e => t = u
      BY <1>3, NoneAssumption DEF DocumentInv, ReplacementBound
    <2> QED
      BY <2>1, <2>2, <2>3, <1>7, <1>8, <1>9
  <1>21. row.target # None => doc'[row.target].state \in {"DELETING"} \cup Disposition
    <2> SUFFICES ASSUME t # None PROVE doc'[t].state \in {"DELETING"} \cup Disposition
      BY <1>5
    <2>1. t # e /\ t \in Documents /\ doc[t].state \in Dying
      BY <1>13
    <2> QED
      BY <2>1, <1>11 DEF Untouched, Dying
  <1>22. \A y \in X : RowsAgree(y)'
    <2> SUFFICES ASSUME NEW y \in X PROVE RowsAgree(y)'
      OBVIOUS
    <2>1. CASE y = e
      BY <2>1, <1>17
    <2>2. CASE y # e
      BY <2>2, <1>18
    <2> QED
      BY <2>1, <2>2
  <1> HIDE DEF X
  <1> QED
    BY <1>u, <1>5, <1>6, <1>14, <1>15, <1>16, <1>19, <1>20, <1>21, <1>22, RequestInv

\* No request breaks the invariant.
LEMMA ApiInv ==
    ASSUME DocumentInv, TypeInv', Api
    PROVE  AllRowsAgree' /\ AllInformed' /\ PublicationsBound' /\ ReplacementBound'
  <1>t. TypeInv /\ {"CANCELLED", "DELETED"} \subseteq Disposition
    BY DEF DocumentInv, Disposition
  <1>1. ASSUME NEW d \in Documents, Cancel(d)
        PROVE  AllRowsAgree' /\ AllInformed' /\ PublicationsBound' /\ ReplacementBound'
    <2>1. PICK r \in DOMAIN revisions[d] : BeginDeletion(d, "CANCELLED", r)
      BY <1>1 DEF Cancel
    <2> QED
      BY <1>1, <1>t, <2>1, RevisionNumbers, DeletionRequestInv DEF Cancel
  <1>2. ASSUME NEW d \in Documents, Delete(d)
        PROVE  AllRowsAgree' /\ AllInformed' /\ PublicationsBound' /\ ReplacementBound'
    <2>1. PICK r \in 0 .. Len(revisions[d]) : DeletionTarget(d, r) /\ BeginDeletion(d, "DELETED", r)
      BY <1>2 DEF Delete
    <2>2. doc[d].state \in {"READY", "REVIEW_REQUIRED", "PUBLISH_FAILED", "PREFLIGHT_FAILED"}
      BY <2>1 DEF DeletionTarget
    <2> QED
      BY <1>2, <1>t, <2>1, <2>2, RevisionNumbers, DeletionRequestInv DEF Delete
  <1> QED
    BY <1>1, <1>2, UploadInv, KeepInv, ReplaceInv, RetryInv DEF Api

-----------------------------------------------------------------------------
(* The theorems. *)

\* Nothing was admitted and nothing runs.
LEMMA DocumentInvInit == Init => DocumentInv
  <1> SUFFICES ASSUME Init PROVE DocumentInv
    OBVIOUS
  <1>1. TypeInv /\ Ownership /\ SlotsDisjoint
    BY TypeInvInit, OwnershipInit, SlotsDisjointInit
  <1>2. /\ \A d \in Documents :
              /\ doc[d] = Absent /\ del[d] = NoProgress /\ pub[d] = NoPublication
              /\ active[d] = {}
        /\ \A s \in Slots : slot[s] = Idle
        /\ DOMAIN ops = {}
    BY DEF Init
  <1>3. /\ Absent.state = "ABSENT" /\ Absent.key = FALSE /\ Absent.replacedBy = None
        /\ NoProgress.proofs = {} /\ NoPublication.status = "NONE" /\ Idle.pc = "idle"
        /\ "ABSENT" \in Fresh /\ "ABSENT" \notin Dying /\ "ABSENT" \notin Disposition
    BY DEF Absent, NoProgress, NoPublication, Idle, Fresh, Dying, Disposition
  <1>4. AllRowsAgree
    <2> SUFFICES ASSUME NEW d \in Documents PROVE RowsAgree(d)
      BY DEF AllRowsAgree
    <2>1. /\ doc[d].state = "ABSENT" /\ ~doc[d].key /\ doc[d].replacedBy = None
          /\ del[d] = NoProgress /\ del[d].proofs = {} /\ pub[d] = NoPublication
          /\ pub[d].status = "NONE" /\ active[d] = {}
      BY <1>2, <1>3
    <2>2. CheckpointFits(d) /\ ProofsTrue(d)
      BY <2>1, <1>3 DEF CheckpointFits, ProofsTrue
    <2>3. PublicationFits(d) /\ ReadyShown(d) /\ ReplacedDeleted(d)
      BY <2>1 DEF PublicationFits, ReadyShown, ReplacedDeleted
    <2> QED
      BY <2>2, <2>3 DEF RowsAgree
  <1>5. AllInformed
    BY <1>2, <1>3 DEF AllInformed, SlotInformed
  <1>6. PublicationsBound /\ ReplacementBound
    BY <1>2, <1>3 DEF PublicationsBound, ReplacementBound
  <1> QED
    BY <1>1, <1>4, <1>5, <1>6 DEF DocumentInv

\* Every step preserves the invariant.
LEMMA DocumentInvStep ==
    ASSUME DocumentInv, [Next]_vars
    PROVE  DocumentInv'
  <1>1. TypeInv' /\ Ownership' /\ SlotsDisjoint'
    BY TypeInvStep, OwnershipStep, SlotsDisjointStep DEF DocumentInv
  <1>2. CASE Api
    BY <1>1, <1>2, ApiInv DEF DocumentInv
  <1>3. CASE Lease \/ \E s \in Slots : Claim(s)
    BY <1>1, <1>3, LeaseInv DEF DocumentInv
  <1>4. CASE \E s \in Slots : Work(s) \/ Trouble(s)
    BY <1>1, <1>4, WorkInv DEF DocumentInv
  <1>5. CASE UNCHANGED vars
    <2>1. UNCHANGED <<doc, revisions, content, pub, del, active, screening, files, ops, slot>>
      BY <1>5 DEF vars, prepVars, index
    <2>2. AllRowsAgree'
      BY <2>1, UntouchedAgrees DEF DocumentInv, AllRowsAgree, Untouched
    <2>3. AllInformed'
      <3> SUFFICES ASSUME NEW t \in Slots PROVE SlotInformed(t)'
        BY DEF AllInformed
      <3>1. SlotInformed(t) /\ slot'[t] = slot[t]
        BY <2>1 DEF DocumentInv, AllInformed
      <3>2. slot[t].pc # "idle" => Op(t).state \in OpenState
        BY Engaged
      <3> QED
        BY <2>1, <3>1, <3>2, InformedKept DEF Untouched, Op
    <2>4. PublicationsBound' /\ ReplacementBound'
      BY <2>1 DEF DocumentInv, PublicationsBound, ReplacementBound
    <2> QED
      BY <1>1, <2>2, <2>3, <2>4 DEF DocumentInv
  <1> QED
    BY <1>2, <1>3, <1>4, <1>5 DEF Next

\* The rows of every document agree in every run.
THEOREM DocumentsConsistent == Spec => []DocumentInv
  <1>1. DocumentInv /\ [Next]_vars => DocumentInv'
    BY DocumentInvStep
  <1> QED
    BY DocumentInvInit, <1>1, PTL DEF Spec

\* A deletion proof that _record_zero_verification or _purge_document_content
\* recorded holds for ever: nothing writes the document again.
THEOREM ProofsStayTrue == Spec => []ProofsHold
  <1>1. DocumentInv => ProofsHold
    <2> SUFFICES ASSUME DocumentInv, NEW d \in Documents
                 PROVE  /\ "active_zero" \in del[d].proofs => active[d] = {}
                        /\ "screening_zero" \in del[d].proofs => screening[d] = {}
                        /\ "storage_purged" \in del[d].proofs =>
                            files[d] = {} /\ ~content[d] /\ ~doc[d].key
      BY DEF ProofsHold
    <2> QED
      BY DEF DocumentInv, AllRowsAgree, RowsAgree, CheckpointFits, ProofsTrue
  <1> QED
    BY <1>1, DocumentsConsistent, PTL

\* A terminal document has no point, file, content row or storage key left,
\* whatever crashed or was retried before commit_tombstone.
THEOREM TerminalContentFree == Spec => []TerminalPurged
  <1>1. DocumentInv => TerminalPurged
    <2> SUFFICES ASSUME DocumentInv, NEW d \in Documents, doc[d].state \in Disposition
                 PROVE  /\ active[d] = {} /\ screening[d] = {} /\ files[d] = {}
                        /\ ~content[d] /\ ~doc[d].key
      BY DEF TerminalPurged
    <2>1. CheckpointFits(d) /\ ProofsTrue(d)
      BY DEF DocumentInv, AllRowsAgree, RowsAgree
    <2> QED
      BY <2>1 DEF CheckpointFits, ProofsTrue, Proof
  <1> QED
    BY <1>1, DocumentsConsistent, PTL

\* A READY document is searched by exactly the chunks of its verified revision,
\* for any chunks and any partial Qdrant writes before.
THEOREM ReadyIsExact == Spec => []ReadyExact
  <1>1. DocumentInv => ReadyExact
    <2> SUFFICES ASSUME DocumentInv, NEW d \in Documents, doc[d].state = "READY"
                 PROVE  /\ pub[d].status = "VERIFIED" /\ Sealed(d, pub[d].rev)
                        /\ active[d] = ActivePoints(pub[d].rev, Chunks, TRUE)
                        /\ screening[d] = {}
      BY DEF ReadyExact
    <2>1. PublicationFits(d) /\ ReadyShown(d)
      BY DEF DocumentInv, AllRowsAgree, RowsAgree
    <2> QED
      BY <2>1 DEF PublicationFits, ReadyShown
  <1> QED
    BY <1>1, DocumentsConsistent, PTL

\* A publication names the last revision of its document, however often its
\* preflight was repeated.
THEOREM NewestPublished == Spec => []NewestRevisionPublished
  <1>1. DocumentInv => NewestRevisionPublished
    BY DEF DocumentInv, AllRowsAgree, RowsAgree, PublicationFits, NewestRevisionPublished
  <1> QED
    BY <1>1, DocumentsConsistent, PTL

\* The points of a replacement appear only after its old document is DELETED
\* and has none.
THEOREM ReplacementOrdered == Spec => []NoReplacementOverlap
  <1>1. DocumentInv => NoReplacementOverlap
    <2> SUFFICES ASSUME DocumentInv, NEW t \in Documents, doc[t].replacedBy # None,
                        active[doc[t].replacedBy] # {}
                 PROVE  doc[t].state = "DELETED" /\ active[t] = {}
      BY DEF NoReplacementOverlap
    <2>1. doc[t].state \in Disposition
      BY DEF DocumentInv, ReplacementBound
    <2>2. CheckpointFits(t) /\ ProofsTrue(t) /\ ReplacedDeleted(t)
      BY DEF DocumentInv, AllRowsAgree, RowsAgree
    <2> QED
      BY <2>1, <2>2 DEF CheckpointFits, ProofsTrue, ReplacedDeleted, Proof
  <1> QED
    BY <1>1, DocumentsConsistent, PTL

\* The consistency checks of _accept_rejection, _finish_preflight, _run_publish
\* and commit_tombstone never fail for a slot that holds its lease.
THEOREM ChecksNeverFail == Spec => []ChecksPass
  <1>1. DocumentInv => ChecksPass
    <2> SUFFICES ASSUME DocumentInv, NEW s \in Slots, slot[s].op # 0
                 PROVE  /\ At(s, "reject") =>
                            doc[Doc(s)].state = "PREFLIGHTING" /\ del[Doc(s)] = NoProgress
                        /\ At(s, "finish_preflight") =>
                            /\ doc[Doc(s)].state = "PREFLIGHTING"
                            /\ Op(s).rev = slot[s].rev /\ Sealed(Doc(s), slot[s].rev)
                            /\ ClearForPublication(s) => MayPublish(Doc(s), slot[s].rev)
                        /\ At(s, "record_upserted") => pub[Doc(s)].status # "VERIFIED"
                        /\ At(s, "commit_tombstone") => MayTombstone(Subject(s))
      BY DEF ChecksPass
    <2>1. ASSUME slot[s].pc \in {"reject", "finish_preflight"}
          PROVE  /\ doc[Doc(s)].state = "PREFLIGHTING" /\ del[Doc(s)] = NoProgress
                 /\ pub[Doc(s)] = NoPublication /\ RevisionInHand(s)
      <3>1. /\ Doc(s) \in Documents /\ doc[Doc(s)].state = "PREFLIGHTING"
            /\ RowsAgree(Doc(s)) /\ RevisionInHand(s)
        BY <2>1, Engaged DEF StepFits, PreflightSteps, InProgressState
      <3>2. "PREFLIGHTING" \in Fresh /\ "PREFLIGHTING" \notin Dying
        BY DEF Fresh, Dying, Disposition
      <3> QED
        BY <3>1, <3>2 DEF RowsAgree, CheckpointFits, PublicationFits
    <2>2. ASSUME At(s, "finish_preflight")
          PROVE  /\ Op(s).rev = slot[s].rev /\ Sealed(Doc(s), slot[s].rev)
                 /\ MayPublish(Doc(s), slot[s].rev)
      <3>1. Op(s).rev = slot[s].rev /\ Sealed(Doc(s), slot[s].rev)
        BY <2>1, <2>2 DEF At, RevisionInHand, Preparing, PreflightSteps, TryBlock, Sealed
      <3> QED
        BY <3>1, <2>1, <2>2 DEF At, MayPublish
    <2>3. At(s, "record_upserted") => pub[Doc(s)].status # "VERIFIED"
      BY Approved DEF At, PublishSteps
    <2>4. ASSUME At(s, "commit_tombstone") PROVE MayTombstone(Subject(s))
      <3>1. /\ Subject(s) \in Documents /\ RowsAgree(Subject(s)) /\ ProofsInHand(s)
            /\ doc[Subject(s)].state \in {"DELETING"} \cup Disposition
        BY <2>4, Engaged, Condemning DEF At, DeletionSteps
      <3>2. del[Subject(s)].proofs = {"active_zero", "screening_zero", "storage_purged"}
        BY <3>1, <2>4 DEF At, ProofsInHand, DeletionSteps
      <3>3. /\ doc[Subject(s)].state \notin Disposition
            /\ ~doc[Subject(s)].key /\ ~content[Subject(s)]
        BY <3>1, <3>2 DEF RowsAgree, CheckpointFits, ProofsTrue
      <3> QED
        BY <3>1, <3>2, <3>3 DEF MayTombstone
    <2> QED
      BY <2>1, <2>2, <2>3, <2>4 DEF At
  <1> QED
    BY <1>1, DocumentsConsistent, PTL

-----------------------------------------------------------------------------
(* What a client and an operator may rely on from one state to the next:     *)
(* what was checkpointed is not taken back, and every step of the service is *)
(* a step of the document lifecycle of DocumentContract.  Both are read off  *)
(* the consistent rows before and after the step, document by document.  A   *)
(* second invariant says which operation a failure is recorded in: with it   *)
(* failures can be retried, and rejections keep their reason.                *)

-----------------------------------------------------------------------------
(* The step of one document. *)

\* What was checkpointed of document d is kept.
Kept(d) ==
    /\ \A r \in DOMAIN revisions[d] :
        revisions[d][r] = "SEALED" => revisions'[d][r] = "SEALED"
    /\ pub[d].status # "NONE" => pub'[d].rev = pub[d].rev
    /\ del[d].proofs \subseteq del'[d].proofs

\* The step is one of the lifecycle of d and keeps its checkpoints.
Follows(d) == Kept(d) /\ Contract!DocumentStep(d)

\* A document that no one touches stays where it is.
LEMMA UntouchedFollows ==
    ASSUME NEW d \in Documents, Untouched(d)
    PROVE  Follows(d)
  <1>1. Kept(d)
    BY DEF Untouched, Kept
  <1>2. Contract!Same(d)
    BY DEF Untouched, Contract!Same, Visible
  <1> QED
    BY <1>1, <1>2 DEF Follows, Contract!DocumentStep

\* Something of an admitted document is stored as long as its row has a key.
LEMMA StoredByKey ==
    ASSUME NEW d \in Documents, RowsAgree(d), RowsAgree(d)',
           doc[d].state # "ABSENT", doc'[d].state # "ABSENT", doc'[d].key = doc[d].key
    PROVE  (doc'[d].key \/ content'[d] \/ files'[d] # {})
              <=> (doc[d].key \/ content[d] \/ files[d] # {})
  <1>1. ~doc[d].key => files[d] = {} /\ ~content[d]
    BY DEF RowsAgree, CheckpointFits, ProofsTrue
  <1>2. ~doc'[d].key => files'[d] = {} /\ ~content'[d]
    BY DEF RowsAgree, CheckpointFits, ProofsTrue
  <1> QED
    BY <1>1, <1>2

\* A document that keeps its state changes at most in what search sees of it:
\* while it is published, or, for good, while it is deleted.
LEMMA StayFollows ==
    ASSUME NEW d \in Documents, RowsAgree(d), RowsAgree(d)', Kept(d), doc[d].state # "ABSENT",
           doc'[d].state = doc[d].state, doc'[d].key = doc[d].key,
           \/ active'[d] = active[d]
           \/ doc[d].state = "PUBLISHING"
           \/ doc[d].state = "DELETING" /\ active'[d] \subseteq active[d]
    PROVE  Follows(d)
  <1>1. (doc'[d].key \/ content'[d] \/ files'[d] # {})
              <=> (doc[d].key \/ content[d] \/ files[d] # {})
    BY StoredByKey
  <1>2. CASE (Visible(d)' # {}) <=> (Visible(d) # {})
    <2>1. Contract!Same(d)
      BY <1>1, <1>2 DEF Contract!Same
    <2> QED
      BY <2>1 DEF Follows, Contract!DocumentStep
  <1>3. CASE ~((Visible(d)' # {}) <=> (Visible(d) # {})) /\ doc[d].state = "PUBLISHING"
    <2>1. Contract!Gate(d)
      BY <1>1, <1>3 DEF Contract!Gate
    <2> QED
      BY <2>1 DEF Follows, Contract!DocumentStep
  <1>4. CASE /\ ~((Visible(d)' # {}) <=> (Visible(d) # {}))
             /\ doc[d].state = "DELETING" /\ active'[d] \subseteq active[d]
    <2>1. Visible(d)' \subseteq Visible(d)
      BY <1>4 DEF Visible
    <2>2. Visible(d)' = {} /\ Visible(d) # {}
      BY <1>4, <2>1
    <2>3. Contract!Hide(d)
      BY <1>1, <1>4, <2>2 DEF Contract!Hide
    <2> QED
      BY <2>3 DEF Follows, Contract!DocumentStep
  <1>5. active'[d] = active[d] => ((Visible(d)' # {}) <=> (Visible(d) # {}))
    BY DEF Visible
  <1> QED
    BY <1>2, <1>3, <1>4, <1>5

\* A document that moves along the diagram, with the same points.
LEMMA MoveFollows ==
    ASSUME NEW d \in Documents, RowsAgree(d), RowsAgree(d)', Kept(d),
           <<doc[d].state, doc'[d].state>> \in Contract!Edge,
           doc[d].state # "ABSENT", doc'[d].state # "ABSENT",
           doc'[d].key = doc[d].key, active'[d] = active[d]
    PROVE  Follows(d)
  <1>1. (doc'[d].key \/ content'[d] \/ files'[d] # {})
              <=> (doc[d].key \/ content[d] \/ files[d] # {})
    BY StoredByKey
  <1>2. Visible(d)' = Visible(d)
    BY DEF Visible
  <1>3. Contract!Move(d)
    BY <1>1, <1>2 DEF Contract!Move
  <1> QED
    BY <1>3 DEF Follows, Contract!DocumentStep

\* A sealed revision survives new revisions and what befalls an unsealed one.
LEMMA SealsKept ==
    ASSUME TypeInv, NEW d \in Documents,
           \/ revisions'[d] = revisions[d]
           \/ revisions'[d] = Append(revisions[d], "PREPARING")
           \/ \E r \in DOMAIN revisions[d], status \in RevisionStatus :
                /\ revisions[d][r] = "PREPARING"
                /\ revisions'[d] = [revisions[d] EXCEPT ![r] = status]
    PROVE  \A r \in DOMAIN revisions[d] :
              revisions[d][r] = "SEALED" => revisions'[d][r] = "SEALED"
  <1>1. revisions[d] \in Seq(RevisionStatus)
    BY DEF TypeInv, TypeOK, RevisionStatus
  <1>2. CASE revisions'[d] = revisions[d]
    BY <1>2
  <1>3. CASE revisions'[d] = Append(revisions[d], "PREPARING")
    <2>1. "PREPARING" \in RevisionStatus
      BY DEF RevisionStatus
    <2> QED
      BY <1>1, <1>3, <2>1
  <1>4. ASSUME NEW r \in DOMAIN revisions[d], NEW status \in RevisionStatus,
               revisions[d][r] = "PREPARING", revisions'[d] = [revisions[d] EXCEPT ![r] = status]
        PROVE  \A q \in DOMAIN revisions[d] :
                  revisions[d][q] = "SEALED" => revisions'[d][q] = "SEALED"
    BY <1>1, <1>4
  <1> QED
    BY <1>2, <1>3, <1>4

-----------------------------------------------------------------------------
(* The quiet steps of a slot. *)

\* Preflight writes only a revision that is still being prepared.
LEMMA PreflightFollows ==
    ASSUME DocumentInv, DocumentInv', NEW s \in Slots, PreflightEffect(s)
    PROVE  \A d \in Documents : Follows(d)
  <1>0. slot[s].pc # "idle" /\ slot[s].pc \in PreflightSteps
    BY DEF PreflightEffect, PreflightSteps
  <1>1. /\ Doc(s) \in Documents /\ RevisionInHand(s) /\ doc[Doc(s)].state = "PREFLIGHTING"
    BY <1>0, Engaged DEF StepFits, InProgressState
  <1>2. PICK x \in Documents : x = Doc(s)
    BY <1>1
  <1>3. /\ RowsAgree(x) /\ RowsAgree(x)' /\ TypeInv
        /\ revisions \in [Documents -> Seq(RevisionStatus)]
    BY DEF DocumentInv, AllRowsAgree, TypeInv, TypeOK, RevisionStatus
  <1>4. /\ doc' = doc /\ pub' = pub /\ del' = del /\ active' = active
        /\ \A d \in Documents \ {x} : Untouched(d)
    BY <1>2 DEF PreflightEffect
  <1>5. \A r \in DOMAIN revisions[x] :
          revisions[x][r] = "SEALED" => revisions'[x][r] = "SEALED"
    <2>1. /\ slot[s].pc \in Preparing => slot[s].rev \in DOMAIN revisions[x]
          /\ slot[s].pc \in Preparing \ {"finish_preflight"} =>
              revisions[x][slot[s].rev] = "PREPARING"
      BY <1>1, <1>2 DEF RevisionInHand
    <2>2. /\ {"FAILED", "SEALED"} \subseteq RevisionStatus
          /\ TryBlock \cup {"prepare"} \subseteq Preparing /\ "seal" \in TryBlock
      BY DEF RevisionStatus, TryBlock, Preparing, PreflightSteps
    <2>3. \/ revisions'[x] = revisions[x]
          \/ revisions'[x] = Append(revisions[x], "PREPARING")
          \/ \E r \in DOMAIN revisions[x], status \in RevisionStatus :
                /\ revisions[x][r] = "PREPARING"
                /\ revisions'[x] = [revisions[x] EXCEPT ![r] = status]
      <3>1. CASE Abandoned(s)
        <4>1. CASE revisions' = revisions
          BY <4>1
        <4>2. CASE /\ slot[s].pc \in TryBlock /\ revisions[Doc(s)][slot[s].rev] = "PREPARING"
                   /\ revisions' = [revisions EXCEPT ![Doc(s)][slot[s].rev] = "FAILED"]
          <5>1. revisions'[x] = [revisions[x] EXCEPT ![slot[s].rev] = "FAILED"]
            BY <4>2, <1>2, <1>3
          <5> QED
            BY <4>2, <5>1, <2>1, <2>2, <1>2
        <4> QED
          BY <3>1, <4>1, <4>2 DEF Abandoned
      <3>2. CASE /\ slot[s].pc = "prepare"
                 /\ revisions' = [revisions EXCEPT ![Doc(s)][slot[s].rev] = "FAILED"]
        <4>1. revisions'[x] = [revisions[x] EXCEPT ![slot[s].rev] = "FAILED"]
          BY <3>2, <1>2, <1>3
        <4>2. /\ slot[s].rev \in DOMAIN revisions[x] /\ revisions[x][slot[s].rev] = "PREPARING"
          BY <3>2, <2>1, <2>2
        <4> QED
          BY <4>1, <4>2, <2>2
      <3>3. CASE revisions' = [revisions EXCEPT ![Doc(s)] = Append(revisions[Doc(s)], "PREPARING")]
        BY <3>3, <1>2, <1>3
      <3>4. CASE /\ slot[s].pc = "seal"
                 /\ revisions' = [revisions EXCEPT ![Doc(s)][slot[s].rev] = "SEALED"]
        <4>1. revisions'[x] = [revisions[x] EXCEPT ![slot[s].rev] = "SEALED"]
          BY <3>4, <1>2, <1>3
        <4>2. /\ slot[s].rev \in DOMAIN revisions[x] /\ revisions[x][slot[s].rev] = "PREPARING"
          BY <3>4, <2>1, <2>2
        <4> QED
          BY <4>1, <4>2, <2>2
      <3> QED
        BY <3>1, <3>2, <3>3, <3>4 DEF PreflightEffect, PreflightMove
    <2> QED
      BY <2>3, <1>3, SealsKept
  <1>6. Kept(x)
    BY <1>4, <1>5 DEF Kept
  <1>7. Follows(x)
    BY <1>1, <1>2, <1>3, <1>4, <1>6, StayFollows
  <1> QED
    BY <1>4, <1>7, UntouchedFollows

\* Publication opens and closes the gate of its own document.
LEMMA PublishFollows ==
    ASSUME DocumentInv, DocumentInv', NEW s \in Slots, PublishEffect(s)
    PROVE  \A d \in Documents : Follows(d)
  <1>0. slot[s].pc # "idle" /\ slot[s].pc \in PublishSteps \cup {"snapshot"}
    BY DEF PublishEffect, PublishSteps
  <1>1. Doc(s) \in Documents /\ doc[Doc(s)].state = InProgressState(Op(s).type)
    BY <1>0, Engaged
  <1>2. PICK x \in Documents : x = Doc(s)
    BY <1>1
  <1>3. RowsAgree(x) /\ RowsAgree(x)' /\ pub \in [Documents -> Publication]
    BY DEF DocumentInv, AllRowsAgree, TypeInv, TypeOK
  <1>4. /\ doc' = doc /\ del' = del /\ revisions' = revisions
        /\ slot[s].pc = "snapshot" => active' = active
        /\ \A d \in Documents \ {x} : Untouched(d)
    BY <1>2 DEF PublishEffect
  <1>5. pub'[x].rev = pub[x].rev
    <2>1. \/ pub' = pub
          \/ pub' = [pub EXCEPT ![Doc(s)].status = "UPSERTED"]
      BY DEF PublishEffect, PublishMove
    <2>2. [pub[x] EXCEPT !.status = "UPSERTED"].rev = pub[x].rev
      BY <1>3 DEF Publication
    <2> QED
      BY <2>1, <2>2, <1>2, <1>3
  <1>6. Kept(x)
    BY <1>4, <1>5 DEF Kept
  <1>7. doc[x].state # "ABSENT"
    BY <1>1, <1>2 DEF InProgressState
  <1>8. slot[s].pc # "snapshot" => doc[x].state = "PUBLISHING"
    BY <1>0, <1>2, Approved
  <1>9. Follows(x)
    BY <1>3, <1>4, <1>6, <1>7, <1>8, StayFollows
  <1> QED
    BY <1>4, <1>9, UntouchedFollows

\* The deletion phases hide a document and add to its proofs.
LEMMA DeletionFollows ==
    ASSUME DocumentInv, DocumentInv', NEW s \in Slots, DeletionEffect(s)
    PROVE  \A d \in Documents : Follows(d)
  <1>0. slot[s].pc # "idle" /\ slot[s].pc \in DeletionSteps
    BY DEF DeletionEffect, DeletionSteps
  <1>1. Subject(s) \in Documents
    BY <1>0, Engaged
  <1>2. PICK x \in Documents : x = Subject(s)
    BY <1>1
  <1>3. RowsAgree(x) /\ RowsAgree(x)' /\ doc[x].state \in {"DELETING"} \cup Disposition
    BY <1>0, <1>2, Condemning DEF DocumentInv, AllRowsAgree
  <1>4. /\ doc' = doc /\ pub' = pub /\ revisions' = revisions
        /\ active'[x] \subseteq active[x]
        /\ \A d \in Documents \ {x} : Untouched(d)
    BY <1>2 DEF DeletionEffect
  <1>5. del[x].proofs \subseteq del'[x].proofs
    BY <1>2 DEF DeletionEffect, DeletionMove
  <1>6. Kept(x)
    BY <1>4, <1>5 DEF Kept
  <1>7. doc[x].state \in Disposition => active[x] = {}
    BY <1>3 DEF RowsAgree, CheckpointFits, ProofsTrue, Proof
  <1>8. doc[x].state # "ABSENT"
    BY <1>3 DEF Disposition
  <1>9. \/ active'[x] = active[x]
        \/ doc[x].state = "DELETING" /\ active'[x] \subseteq active[x]
    BY <1>3, <1>4, <1>7
  <1>10. Follows(x)
    BY <1>3, <1>4, <1>6, <1>8, <1>9, StayFollows
  <1> QED
    BY <1>4, <1>10, UntouchedFollows

\* An exception fails at most the revision in hand.
LEMMA TroubleFollows ==
    ASSUME DocumentInv, DocumentInv', NEW s \in Slots, TroubleEffect(s)
    PROVE  \A d \in Documents : Follows(d)
  <1>0. slot[s].pc # "idle"
    BY DEF TroubleEffect
  <1>1. /\ Doc(s) \in Documents /\ RevisionInHand(s)
        /\ doc[Doc(s)].state = InProgressState(Op(s).type)
    BY <1>0, Engaged
  <1>2. PICK x \in Documents : x = Doc(s)
    BY <1>1
  <1>3. /\ RowsAgree(x) /\ RowsAgree(x)' /\ TypeInv
        /\ revisions \in [Documents -> Seq(RevisionStatus)]
    BY DEF DocumentInv, AllRowsAgree, TypeInv, TypeOK, RevisionStatus
  <1>4. /\ doc' = doc /\ pub' = pub /\ del' = del /\ active' = active
        /\ \A d \in Documents \ {x} : Untouched(d)
    BY <1>2 DEF TroubleEffect
  <1>5. \/ revisions'[x] = revisions[x]
        \/ \E r \in DOMAIN revisions[x], status \in RevisionStatus :
                /\ revisions[x][r] = "PREPARING"
                /\ revisions'[x] = [revisions[x] EXCEPT ![r] = status]
    <2>1. CASE revisions' = revisions
      BY <2>1
    <2>2. CASE /\ slot[s].pc \in TryBlock /\ revisions[Doc(s)][slot[s].rev] = "PREPARING"
               /\ revisions' = [revisions EXCEPT ![Doc(s)][slot[s].rev] = "FAILED"]
      <3>1. slot[s].rev \in DOMAIN revisions[x] /\ "FAILED" \in RevisionStatus
        BY <2>2, <1>1, <1>2
        DEF RevisionInHand, Preparing, PreflightSteps, TryBlock, RevisionStatus
      <3>2. revisions'[x] = [revisions[x] EXCEPT ![slot[s].rev] = "FAILED"]
        BY <2>2, <1>2, <1>3
      <3> QED
        BY <2>2, <3>1, <3>2, <1>2
    <2> QED
      BY <2>1, <2>2 DEF TroubleEffect, Abandoned
  <1>6. \A r \in DOMAIN revisions[x] :
          revisions[x][r] = "SEALED" => revisions'[x][r] = "SEALED"
    BY <1>3, <1>5, SealsKept
  <1>7. Kept(x)
    BY <1>4, <1>6 DEF Kept
  <1>8. doc[x].state # "ABSENT"
    BY <1>1, <1>2 DEF InProgressState
  <1>9. Follows(x)
    BY <1>3, <1>4, <1>7, <1>8, StayFollows
  <1> QED
    BY <1>4, <1>9, UntouchedFollows

-----------------------------------------------------------------------------
(* The steps of a slot that write document rows. *)

\* The edges of the diagram that the service takes.
LEMMA Edges ==
    /\ {<<"PREFLIGHTING", "PREFLIGHT_FAILED">>, <<"PREFLIGHT_FAILED", "PREFLIGHTING">>,
        <<"PREFLIGHTING", "REVIEW_REQUIRED">>, <<"PREFLIGHTING", "PUBLISHING">>,
        <<"REVIEW_REQUIRED", "PUBLISHING">>, <<"PUBLISHING", "PUBLISH_FAILED">>,
        <<"PUBLISH_FAILED", "PUBLISHING">>, <<"DELETING", "DELETE_FAILED">>,
        <<"DELETE_FAILED", "DELETING">>} \subseteq Contract!Edge
    /\ \A state \in {"PREFLIGHTING", "REVIEW_REQUIRED", "PREFLIGHT_FAILED",
                     "PUBLISH_FAILED", "READY"} : <<state, "DELETING">> \in Contract!Edge
  BY DEF Contract!Edge

\* A rejected source condemns its document.
LEMMA RejectionFollows ==
    ASSUME DocumentInv, DocumentInv', NEW s \in Slots, AcceptRejection(s)
    PROVE  \A d \in Documents : Follows(d)
  <1> DEFINE condemned == [Condemned(doc[Doc(s)], "REJECTED") EXCEPT !.failure = "rejection"]
  <1>0. /\ slot[s].pc # "idle" /\ doc[Doc(s)].state = "PREFLIGHTING" /\ del[Doc(s)] = NoProgress
        /\ UNCHANGED <<revisions, content, pub, active, screening, files>>
        /\ del' = [del EXCEPT ![Doc(s)] = [phase |-> "DELETE_ACTIVE_POINTS", proofs |-> {}]]
        /\ doc' = [doc EXCEPT ![Doc(s)] = condemned]
    BY DEF AcceptRejection, At, StartDeletion, prepVars, index
  <1>1. Doc(s) \in Documents
    BY <1>0, Engaged
  <1>2. /\ doc \in [Documents -> DocumentRow] /\ del \in [Documents -> Progress]
    BY DEF DocumentInv, TypeInv, TypeOK
  <1>3. condemned.state = "DELETING" /\ condemned.key = doc[Doc(s)].key
    <2>1. PICK old \in DocumentRow : old = doc[Doc(s)]
      BY <1>1, <1>2
    <2>2. "REJECTED" \in Disposition
      BY DEF Disposition
    <2>3. /\ Condemned(old, "REJECTED") \in DocumentRow
          /\ Condemned(old, "REJECTED").state = "DELETING"
          /\ Condemned(old, "REJECTED").key = old.key
      BY <2>2, RowTypes, RowColumns
    <2> QED
      BY <2>1, <2>3 DEF DocumentRow
  <1> HIDE DEF condemned
  <1>4. PICK x \in Documents : x = Doc(s)
    BY <1>1
  <1>5. /\ doc'[x] = condemned /\ \A d \in Documents \ {x} : Untouched(d)
    BY <1>0, <1>2, <1>4 DEF Untouched
  <1>6. RowsAgree(x) /\ RowsAgree(x)' /\ del[x].proofs = {}
    BY <1>0, <1>4 DEF DocumentInv, AllRowsAgree, NoProgress
  <1>7. Kept(x)
    BY <1>0, <1>6 DEF Kept
  <1>8. Follows(x)
    BY <1>0, <1>3, <1>4, <1>5, <1>6, <1>7, Edges, MoveFollows
  <1> QED
    BY <1>5, <1>8, UntouchedFollows

\* A finished preflight goes to review or to its publication.
LEMMA PreflightFinishFollows ==
    ASSUME DocumentInv, DocumentInv', NEW s \in Slots, FinishPreflight(s)
    PROVE  \A d \in Documents : Follows(d)
  <1>0. /\ slot[s].pc # "idle" /\ doc[Doc(s)].state = "PREFLIGHTING"
        /\ UNCHANGED <<revisions, content, del, active, screening, files>>
        /\ \E state \in {"PUBLISHING", "REVIEW_REQUIRED"} :
              doc' = [doc EXCEPT ![Doc(s)] = Cleared(doc[Doc(s)], state)]
        /\ \/ pub' = pub
           \/ pub' = [pub EXCEPT ![Doc(s)] = [status |-> "PENDING", rev |-> slot[s].rev]]
    BY DEF FinishPreflight, At, EnsurePublication, prepVars, index
  <1>1. Doc(s) \in Documents
    BY <1>0, Engaged
  <1>2. /\ doc \in [Documents -> DocumentRow] /\ pub \in [Documents -> Publication]
    BY DEF DocumentInv, TypeInv, TypeOK
  <1>3. PICK x \in Documents : x = Doc(s)
    BY <1>1
  <1>4. PICK state \in {"PUBLISHING", "REVIEW_REQUIRED"} :
          doc' = [doc EXCEPT ![x] = Cleared(doc[x], state)]
    BY <1>0, <1>3
  <1>5. doc'[x] = Cleared(doc[x], state) /\ \A d \in Documents \ {x} : Untouched(d)
    BY <1>0, <1>2, <1>3, <1>4 DEF Untouched
  <1>6. doc'[x].state = state /\ doc'[x].key = doc[x].key
    BY <1>2, <1>5, RowColumns
  <1>7. RowsAgree(x) /\ RowsAgree(x)'
    BY DEF DocumentInv, AllRowsAgree
  <1>8. pub[x].status = "NONE"
    BY <1>0, <1>3, <1>7 DEF RowsAgree, PublicationFits, Fresh
  <1>9. Kept(x)
    BY <1>0, <1>8 DEF Kept
  <1>10. Follows(x)
    BY <1>0, <1>3, <1>6, <1>7, <1>9, Edges, MoveFollows
  <1> QED
    BY <1>5, <1>10, UntouchedFollows

\* A verified publication is shown and stored when the document gets ready.
LEMMA PublicationFinishFollows ==
    ASSUME DocumentInv, DocumentInv', NEW s \in Slots, FinishPublication(s)
    PROVE  \A d \in Documents : Follows(d)
  <1>0. /\ slot[s].pc # "idle" /\ slot[s].pc \in PublishSteps
        /\ slot[s].pc = "finish_publication"
        /\ UNCHANGED <<revisions, content, del, active, screening, files>>
        /\ \/ UNCHANGED <<pub, doc>>
           \/ /\ pub' = [pub EXCEPT ![Doc(s)].status = "VERIFIED"]
              /\ doc' = [doc EXCEPT ![Doc(s)] = Cleared(doc[Doc(s)], "READY")]
    BY DEF FinishPublication, At, prepVars, index, PublishSteps
  <1>1. CASE UNCHANGED <<pub, doc>>
    BY <1>0, <1>1, UntouchedFollows DEF Untouched
  <1>2. CASE /\ pub' = [pub EXCEPT ![Doc(s)].status = "VERIFIED"]
             /\ doc' = [doc EXCEPT ![Doc(s)] = Cleared(doc[Doc(s)], "READY")]
    <2>1. Doc(s) \in Documents /\ PointsInHand(s)
      BY <1>0, Engaged
    <2>2. /\ doc \in [Documents -> DocumentRow] /\ pub \in [Documents -> Publication]
      BY DEF DocumentInv, TypeInv, TypeOK
    <2>3. PICK x \in Documents : x = Doc(s)
      BY <2>1
    <2>4. /\ doc[x].state = "PUBLISHING" /\ del[x] = NoProgress
          /\ active[x] = ActivePoints(Op(s).rev, Chunks, TRUE)
      BY <1>0, <2>1, <2>3, Approved DEF PointsInHand
    <2>5. /\ doc'[x] = Cleared(doc[x], "READY")
          /\ pub'[x] = [pub[x] EXCEPT !.status = "VERIFIED"]
          /\ \A d \in Documents \ {x} : Untouched(d)
      BY <1>0, <1>2, <2>2, <2>3 DEF Untouched
    <2>6. doc'[x].state = "READY" /\ doc'[x].key = doc[x].key
      BY <2>2, <2>5, RowColumns
    <2>7. pub'[x].rev = pub[x].rev
      BY <2>2, <2>5 DEF Publication
    <2>8. Kept(x)
      BY <1>0, <2>7 DEF Kept
    <2>9. doc[x].key
      BY <2>4 DEF DocumentInv, AllRowsAgree, RowsAgree, CheckpointFits, NoProgress
    <2>10. Visible(x) # {} /\ Visible(x)' # {}
      <3>1. PICK c \in Chunks : TRUE
        BY ChunksAssumption
      <3> DEFINE p == [rev |-> Op(s).rev, chunk |-> c, published |-> TRUE]
      <3>2. p \in active[x] /\ p.published
        BY <2>4 DEF ActivePoints
      <3> HIDE DEF p
      <3> QED
        BY <1>0, <3>2 DEF Visible
    <2>11. Contract!Finish(x)
      BY <2>4, <2>6, <2>9, <2>10 DEF Contract!Finish
    <2>12. Follows(x)
      BY <2>8, <2>11 DEF Follows, Contract!DocumentStep
    <2> QED
      BY <2>5, <2>12, UntouchedFollows
  <1> QED
    BY <1>0, <1>1, <1>2

\* The purge commit comes when nothing of the document is shown any more, and
\* nothing is stored after it.
LEMMA PurgeFollows ==
    ASSUME DocumentInv, DocumentInv', NEW s \in Slots, PurgeCommit(s)
    PROVE  \A d \in Documents : Follows(d)
  <1>0. /\ slot[s].pc # "idle" /\ slot[s].pc = "purge_commit" /\ slot[s].pc \in DeletionSteps
        /\ UNCHANGED <<revisions, pub, active, screening, files>>
        /\ content' = [content EXCEPT ![Subject(s)] = FALSE]
        /\ doc' = [doc EXCEPT ![Subject(s)].key = FALSE]
        /\ RecordProof(s, "storage_purged", "COMMIT_TOMBSTONE")
    BY DEF PurgeCommit, At, index, DeletionSteps
  <1>1. Subject(s) \in Documents /\ ProofsInHand(s)
    BY <1>0, Engaged
  <1>2. /\ doc \in [Documents -> DocumentRow] /\ content \in [Documents -> BOOLEAN]
    BY DEF DocumentInv, TypeInv, TypeOK
  <1>3. /\ del'[Subject(s)].proofs = del[Subject(s)].proofs \cup {"storage_purged"}
        /\ \A d \in Documents \ {Subject(s)} : del'[d] = del[d]
    <2>1. "storage_purged" \in Proof /\ "COMMIT_TOMBSTONE" \in DeletionPhase
      BY DEF Proof, DeletionPhase
    <2> QED
      BY <2>1, <1>0, ProofAdded DEF DocumentInv
  <1>4. PICK x \in Documents : x = Subject(s)
    BY <1>1
  <1>5. /\ doc'[x] = [doc[x] EXCEPT !.key = FALSE] /\ content'[x] = FALSE
        /\ \A d \in Documents \ {x} : Untouched(d)
    BY <1>0, <1>2, <1>3, <1>4 DEF Untouched
  <1>6. doc'[x].state = doc[x].state /\ doc'[x].key = FALSE
    BY <1>2, <1>5 DEF DocumentRow
  <1>7. /\ {"active_zero", "screening_zero"} \subseteq del[x].proofs
        /\ "storage_purged" \notin del[x].proofs /\ files[x] = {}
    BY <1>0, <1>1, <1>4 DEF ProofsInHand, DeletionSteps, PurgeSteps
  <1>8. /\ RowsAgree(x) /\ doc[x].state \in {"DELETING"} \cup Disposition
    BY <1>0, <1>4, Condemning DEF DocumentInv, AllRowsAgree
  <1>9. doc[x].state = "DELETING" /\ doc[x].key /\ active[x] = {}
    BY <1>7, <1>8 DEF RowsAgree, CheckpointFits, ProofsTrue, Proof, Disposition
  <1>10. Visible(x) = {} /\ Visible(x)' = {}
    BY <1>0, <1>9 DEF Visible
  <1>11. Contract!Purge(x)
    BY <1>0, <1>5, <1>6, <1>7, <1>9, <1>10 DEF Contract!Purge
  <1>12. Kept(x)
    BY <1>0, <1>3, <1>4 DEF Kept
  <1>13. Follows(x)
    BY <1>11, <1>12 DEF Follows, Contract!DocumentStep
  <1> QED
    BY <1>5, <1>13, UntouchedFollows

\* A document is called gone when it is: nothing shown, nothing stored.
LEMMA TombstoneFollows ==
    ASSUME DocumentInv, DocumentInv', NEW s \in Slots, CommitDeletion(s)
    PROVE  \A d \in Documents : Follows(d)
  <1>0. /\ slot[s].pc # "idle" /\ slot[s].pc = "commit_tombstone" /\ slot[s].pc \in DeletionSteps
        /\ UNCHANGED <<revisions, content, pub, active, screening, files>>
        /\ doc' = [doc EXCEPT ![Subject(s)] = Tombstoned(doc[Subject(s)])]
        /\ del' = [del EXCEPT ![Subject(s)] =
              [phase |-> "COMMIT_TOMBSTONE", proofs |-> del[Subject(s)].proofs \cup {"tombstoned"}]]
        /\ MayTombstone(Subject(s))
    BY DEF CommitDeletion, At, index, prepVars, DeletionSteps
  <1>1. Subject(s) \in Documents
    BY <1>0, Engaged
  <1>2. doc \in [Documents -> DocumentRow] /\ del \in [Documents -> Progress]
    BY DEF DocumentInv, TypeInv, TypeOK
  <1>3. PICK x \in Documents : x = Subject(s)
    BY <1>1
  <1>4. /\ doc'[x] = Tombstoned(doc[x]) /\ del'[x].proofs = del[x].proofs \cup {"tombstoned"}
        /\ \A d \in Documents \ {x} : Untouched(d)
    BY <1>0, <1>2, <1>3 DEF Untouched
  <1>5. doc'[x].state = doc[x].disposition /\ doc'[x].key = doc[x].key
    BY <1>2, <1>4, RowColumns
  <1>6. /\ doc[x].state \in {"DELETING", "DELETE_FAILED"} /\ ~doc[x].key /\ ~content[x]
        /\ del[x].proofs = {"active_zero", "screening_zero", "storage_purged"}
    BY <1>0, <1>3 DEF MayTombstone
  <1>7. doc[x].state = "DELETING"
    BY <1>0, <1>3, <1>6, Condemning DEF Disposition
  <1>8. doc[x].disposition \in Disposition
    BY <1>7 DEF DocumentInv, TypeInv, DispositionsRecorded
  <1>9. active[x] = {} /\ files[x] = {}
    BY <1>6 DEF DocumentInv, AllRowsAgree, RowsAgree, ProofsTrue
  <1>10. Visible(x) = {} /\ Visible(x)' = {}
    BY <1>0, <1>9 DEF Visible
  <1>11. Contract!Tombstone(x)
    BY <1>0, <1>5, <1>6, <1>7, <1>8, <1>9, <1>10
    DEF Contract!Tombstone, Contract!Terminal, Disposition
  <1>12. Kept(x)
    BY <1>0, <1>4 DEF Kept
  <1>13. Follows(x)
    BY <1>11, <1>12 DEF Follows, Contract!DocumentStep
  <1> QED
    BY <1>4, <1>13, UntouchedFollows

\* _fail_operation moves its document, and the old one of a replacement, to
\* the failure of what they were in.
LEMMA FailureFollows ==
    ASSUME DocumentInv, DocumentInv', NEW s \in Slots, FailOperation(s)
    PROVE  \A d \in Documents : Follows(d)
  <1> DEFINE o == Op(s)
             r == slot[s].retryable
  <1>0. /\ slot[s].pc # "idle"
        /\ UNCHANGED <<revisions, content, del, active, screening, files>>
        /\ \/ UNCHANGED <<doc, pub>>
           \/ /\ doc' = [x \in Documents |-> FailureRow(x, o, r)]
              /\ pub' = pub \/ pub' = [pub EXCEPT ![o.doc].status = "FAILED"]
    BY DEF FailOperation, At, prepVars, index
  <1>1. CASE UNCHANGED <<doc, pub>>
    BY <1>0, <1>1, UntouchedFollows DEF Untouched
  <1>2. CASE /\ doc' = [x \in Documents |-> FailureRow(x, o, r)]
             /\ pub' = pub \/ pub' = [pub EXCEPT ![o.doc].status = "FAILED"]
    <2> SUFFICES ASSUME NEW d \in Documents PROVE Follows(d)
      OBVIOUS
    <2>1. /\ o.doc \in Documents /\ o.type \in OperationType
          /\ doc[o.doc].state = InProgressState(o.type)
      BY <1>0, Engaged
    <2> HIDE DEF o, r
    <2>2. /\ doc \in [Documents -> DocumentRow] /\ pub \in [Documents -> Publication]
          /\ RowsAgree(d) /\ RowsAgree(d)'
      BY DEF DocumentInv, TypeInv, TypeOK, AllRowsAgree
    <2>3. pub'[d].rev = pub[d].rev
      <3>1. [pub[d] EXCEPT !.status = "FAILED"].rev = pub[d].rev
        BY <2>2 DEF Publication
      <3> QED
        BY <1>2, <2>1, <2>2, <3>1
    <2>4. Kept(d)
      BY <1>0, <2>3 DEF Kept
    <2>5. doc'[d] = FailureRow(d, o, r)
      BY <1>2
    <2>6. CASE d = o.doc
      <3>1. ~(o.type = "PREFLIGHT" /\ doc[d].state = "DELETING")
        BY <2>1, <2>6 DEF InProgressState
      <3>2. doc'[d] = Broken(doc[d], FailureState(o.type), r)
        BY <3>1, <2>5, <2>6 DEF FailureRow
      <3>3. doc'[d].state = FailureState(o.type) /\ doc'[d].key = doc[d].key
        BY <3>2, <2>2, RowColumns
      <3>4. /\ <<doc[d].state, doc'[d].state>> \in
                {<<"PREFLIGHTING", "PREFLIGHT_FAILED">>, <<"PUBLISHING", "PUBLISH_FAILED">>,
                 <<"DELETING", "DELETE_FAILED">>}
            /\ doc[d].state # "ABSENT" /\ doc'[d].state # "ABSENT"
        BY <3>3, <2>1, <2>6 DEF InProgressState, FailureState, OperationType
      <3>5. <<doc[d].state, doc'[d].state>> \in Contract!Edge
        BY <3>4, Edges
      <3> QED
        BY <3>3, <3>4, <3>5, <1>0, <2>2, <2>4, MoveFollows
    <2>7. CASE d # o.doc /\ d = o.target /\ doc[d].state = "DELETING"
      <3>1. doc'[d] = Broken(doc[d], "DELETE_FAILED", r)
        BY <2>5, <2>7 DEF FailureRow
      <3>2. doc'[d].state = "DELETE_FAILED" /\ doc'[d].key = doc[d].key
        BY <3>1, <2>2, RowColumns
      <3> QED
        BY <3>2, <1>0, <2>2, <2>4, <2>7, Edges, MoveFollows
    <2>8. CASE d # o.doc /\ ~(d = o.target /\ doc[d].state = "DELETING")
      <3>1. doc'[d] = doc[d]
        BY <2>5, <2>8 DEF FailureRow
      <3>2. pub'[d] = pub[d]
        BY <1>2, <2>1, <2>2, <2>8
      <3> QED
        BY <3>1, <3>2, <1>0, UntouchedFollows DEF Untouched
    <2> QED
      BY <2>6, <2>7, <2>8
  <1> QED
    BY <1>0, <1>1, <1>2

\* Every step of a slot.
LEMMA WorkFollows ==
    ASSUME DocumentInv, DocumentInv', NEW s \in Slots, Work(s) \/ Trouble(s)
    PROVE  \A d \in Documents : Follows(d)
  <1>t. TypeInv
    BY DEF DocumentInv
  <1>1. CASE Preflight(s) \/ FailPreparation(s)
    BY <1>1, <1>t, PreflightEffects, PreflightFollows, RejectionFollows, PreflightFinishFollows
    DEF Preflight
  <1>2. CASE Publish(s)
    BY <1>2, <1>t, PublishEffects, PublishFollows, PublicationFinishFollows DEF Publish
  <1>3. CASE Deletion(s)
    BY <1>3, <1>t, DeletionEffects, DeletionFollows, PurgeFollows, TombstoneFollows DEF Deletion
  <1>4. CASE FailOperation(s)
    BY <1>4, FailureFollows
  <1>5. CASE LoseLease(s) \/ LoseOwnership(s) \/ Fault(s) \/ Misconfigured(s)
    BY <1>5, <1>t, TroubleEffects, TroubleFollows
  <1> QED
    BY <1>1, <1>2, <1>3, <1>4, <1>5 DEF Work, Trouble

-----------------------------------------------------------------------------
(* Requests. *)

\* An admitted document is stored and not shown.
LEMMA UploadFollows ==
    ASSUME DocumentInv, NEW d \in Documents, Upload(d)
    PROVE  \A x \in Documents : Follows(x)
  <1>1. /\ doc[d].state = "ABSENT"
        /\ doc' = [doc EXCEPT ![d] = [doc[d] EXCEPT !.state = "PREFLIGHTING", !.key = TRUE]]
        /\ files' = [files EXCEPT ![d] = {"source"}]
        /\ UNCHANGED <<revisions, content, pub, del, active, screening>>
    BY DEF Upload, prepVars, index
  <1>2. /\ doc \in [Documents -> DocumentRow] /\ RowsAgree(d)
        /\ files \in [Documents -> SUBSET {"source", "artifact"}]
    BY DEF DocumentInv, TypeInv, TypeOK, AllRowsAgree
  <1>3. /\ doc'[d] = [doc[d] EXCEPT !.state = "PREFLIGHTING", !.key = TRUE]
        /\ \A x \in Documents \ {d} : Untouched(x)
    BY <1>1, <1>2 DEF Untouched
  <1>4. doc'[d].state = "PREFLIGHTING" /\ doc'[d].key = TRUE
    BY <1>2, <1>3 DEF DocumentRow
  <1>5. Visible(d)' = {}
    BY <1>1, <1>2 DEF RowsAgree, PublicationFits, Fresh, Visible
  <1>6. Contract!Admit(d)
    BY <1>1, <1>4, <1>5 DEF Contract!Admit
  <1>7. Kept(d)
    BY <1>1 DEF Kept
  <1>8. Follows(d)
    BY <1>6, <1>7 DEF Follows, Contract!DocumentStep
  <1> QED
    BY <1>3, <1>8, UntouchedFollows

\* An approval is given once: no publication exists before it.
LEMMA ApprovalFollows ==
    ASSUME DocumentInv, DocumentInv', NEW d \in Documents, doc[d].state = "REVIEW_REQUIRED",
           doc'[d].state = "PUBLISHING", doc'[d].key = doc[d].key,
           revisions'[d] = revisions[d], del'[d] = del[d], active'[d] = active[d]
    PROVE  Follows(d)
  <1>1. RowsAgree(d) /\ RowsAgree(d)'
    BY DEF DocumentInv, AllRowsAgree
  <1>2. pub[d].status = "NONE"
    BY <1>1 DEF RowsAgree, PublicationFits, Fresh
  <1>3. Kept(d)
    BY <1>2 DEF Kept
  <1> QED
    BY <1>1, <1>3, Edges, MoveFollows

\* A deletion begins once: no proof exists before it.
LEMMA CondemnationFollows ==
    ASSUME DocumentInv, DocumentInv', NEW d \in Documents,
           doc[d].state \in {"READY", "REVIEW_REQUIRED", "PUBLISH_FAILED", "PREFLIGHT_FAILED"},
           doc'[d].state = "DELETING", doc'[d].key = doc[d].key,
           revisions'[d] = revisions[d], pub'[d] = pub[d], active'[d] = active[d]
    PROVE  Follows(d)
  <1>1. RowsAgree(d) /\ RowsAgree(d)'
    BY DEF DocumentInv, AllRowsAgree
  <1>2. del[d].proofs = {}
    BY <1>1 DEF RowsAgree, CheckpointFits, Dying, Disposition, NoProgress
  <1>3. Kept(d)
    BY <1>2 DEF Kept
  <1>4. <<doc[d].state, doc'[d].state>> \in Contract!Edge
    BY Edges
  <1> QED
    BY <1>1, <1>3, <1>4, MoveFollows

\* The two ways to approve a document.
LEMMA DecisionFollows ==
    ASSUME DocumentInv, DocumentInv', NEW d \in Documents,
           Keep(d) \/ \E t \in Documents : Replace(d, t)
    PROVE  \A x \in Documents : Follows(x)
  <1>t. /\ doc \in [Documents -> DocumentRow] /\ del \in [Documents -> Progress]
        /\ pub \in [Documents -> Publication]
    BY DEF DocumentInv, TypeInv, TypeOK
  <1>1. ASSUME Keep(d) PROVE \A x \in Documents : Follows(x)
    <2>1. /\ doc[d].state = "REVIEW_REQUIRED"
          /\ doc' = [doc EXCEPT ![d] = [doc[d] EXCEPT !.state = "PUBLISHING"]]
          /\ \E r : pub' = [pub EXCEPT ![d] = [status |-> "PENDING", rev |-> r]]
          /\ UNCHANGED <<revisions, content, del, active, screening, files>>
      BY <1>1 DEF Keep, EnsurePublication, prepVars, index
    <2>2. /\ doc'[d] = [doc[d] EXCEPT !.state = "PUBLISHING"]
          /\ \A x \in Documents \ {d} : Untouched(x)
      BY <1>t, <2>1 DEF Untouched
    <2>3. doc'[d].state = "PUBLISHING" /\ doc'[d].key = doc[d].key
      BY <1>t, <2>2 DEF DocumentRow
    <2>4. Follows(d)
      BY <2>1, <2>3, ApprovalFollows
    <2> QED
      BY <2>2, <2>4, UntouchedFollows
  <1>2. ASSUME NEW t \in Documents, Replace(d, t) PROVE \A x \in Documents : Follows(x)
    <2> DEFINE old == [Condemned(doc[t], "DELETED") EXCEPT !.replacedBy = d]
    <2>1. /\ d # t /\ doc[d].state = "REVIEW_REQUIRED" /\ doc[t].state = "READY"
          /\ doc' = [doc EXCEPT ![d] = Cleared(doc[d], "PUBLISHING"), ![t] = old]
          /\ del' = [del EXCEPT ![t] = [phase |-> "DELETE_ACTIVE_POINTS", proofs |-> {}]]
          /\ \E r : pub' = [pub EXCEPT ![d] = [status |-> "PENDING", rev |-> r]]
          /\ UNCHANGED <<revisions, content, active, screening, files>>
      BY <1>2 DEF Replace, Replaceable, EnsurePublication, StartDeletion, prepVars, index
    <2>2. old.state = "DELETING" /\ old.key = doc[t].key
      <3>1. "DELETED" \in Disposition
        BY DEF Disposition
      <3>2. /\ Condemned(doc[t], "DELETED") \in DocumentRow
            /\ Condemned(doc[t], "DELETED").state = "DELETING"
            /\ Condemned(doc[t], "DELETED").key = doc[t].key
        BY <3>1, <1>t, RowTypes, RowColumns
      <3> QED
        BY <3>2 DEF DocumentRow
    <2> HIDE DEF old
    <2>3. /\ doc'[d] = Cleared(doc[d], "PUBLISHING") /\ doc'[t] = old
          /\ del'[d] = del[d] /\ pub'[t] = pub[t]
          /\ \A x \in Documents \ {d, t} : Untouched(x)
      BY <1>t, <2>1 DEF Untouched
    <2>4. doc'[d].state = "PUBLISHING" /\ doc'[d].key = doc[d].key
      BY <1>t, <2>3, RowColumns
    <2>5. Follows(d)
      BY <2>1, <2>3, <2>4, ApprovalFollows
    <2>6. Follows(t)
      BY <2>1, <2>2, <2>3, CondemnationFollows
    <2> QED
      BY <2>3, <2>5, <2>6, UntouchedFollows
  <1> QED
    BY <1>1, <1>2

\* begin_deletion, for a cancellation and for a deletion.
LEMMA DeletionRequestFollows ==
    ASSUME DocumentInv, DocumentInv', NEW d \in Documents, Cancel(d) \/ Delete(d)
    PROVE  \A x \in Documents : Follows(x)
  <1>1. /\ doc[d].state \in {"READY", "REVIEW_REQUIRED", "PUBLISH_FAILED", "PREFLIGHT_FAILED"}
        /\ \E c \in Disposition : doc' = [doc EXCEPT ![d] = Condemned(doc[d], c)]
        /\ del' = [del EXCEPT ![d] = [phase |-> "DELETE_ACTIVE_POINTS", proofs |-> {}]]
        /\ UNCHANGED <<revisions, content, pub, active, screening, files>>
    BY DEF Cancel, Delete, DeletionTarget, BeginDeletion, StartDeletion, prepVars, index,
           Disposition
  <1>2. doc \in [Documents -> DocumentRow] /\ del \in [Documents -> Progress]
    BY DEF DocumentInv, TypeInv, TypeOK
  <1>3. PICK c \in Disposition : doc' = [doc EXCEPT ![d] = Condemned(doc[d], c)]
    BY <1>1
  <1>4. doc'[d] = Condemned(doc[d], c) /\ \A x \in Documents \ {d} : Untouched(x)
    BY <1>1, <1>2, <1>3 DEF Untouched
  <1>5. doc'[d].state = "DELETING" /\ doc'[d].key = doc[d].key
    BY <1>2, <1>4, RowColumns
  <1>6. Follows(d)
    BY <1>1, <1>5, CondemnationFollows
  <1> QED
    BY <1>4, <1>6, UntouchedFollows

\* A retry resumes what failed, and a failed target with it.
LEMMA RetryFollows ==
    ASSUME DocumentInv, DocumentInv', NEW d \in Documents, Retry(d)
    PROVE  \A x \in Documents : Follows(x)
  <1>1. PICK i \in DOMAIN ops :
        /\ Retryable(d, RetryOwner(d), i)
        /\ pub' = IF ops[i].type = "PUBLISH"
                  THEN [pub EXCEPT ![RetryOwner(d)].status = "PENDING"] ELSE pub
        /\ doc' = [x \in Documents |->
                    IF x = RetryOwner(d) THEN Cleared(doc[x], InProgressState(ops[i].type))
                    ELSE IF x = ops[i].target /\ doc[x].state = "DELETE_FAILED"
                    THEN Cleared(doc[x], "DELETING")
                    ELSE doc[x]]
    BY DEF Retry
  <1>2. UNCHANGED <<revisions, content, del, active, screening, files>>
    BY DEF Retry, prepVars, index
  <1>3. ops[i].type \in OperationType /\ ops[i].doc \in Documents
    BY OpsTyped DEF DocumentInv
  <1>4. PICK e \in Documents : e = RetryOwner(d) /\ e = ops[i].doc
    BY <1>1, <1>3 DEF Retryable, IsLatest
  <1>5. doc[e].state \in Failed /\ ops[i].type = RetryType(e)
    BY <1>1, <1>4 DEF Retryable, IsLatest
  <1> SUFFICES ASSUME NEW x \in Documents PROVE Follows(x)
    OBVIOUS
  <1>6. /\ doc \in [Documents -> DocumentRow] /\ pub \in [Documents -> Publication]
        /\ RowsAgree(x) /\ RowsAgree(x)'
    BY DEF DocumentInv, TypeInv, TypeOK, AllRowsAgree
  <1>7. pub'[x].rev = pub[x].rev /\ (x # e => pub'[x] = pub[x])
    <2>1. [pub[x] EXCEPT !.status = "PENDING"].rev = pub[x].rev
      BY <1>6 DEF Publication
    <2>2. pub' = pub \/ pub' = [pub EXCEPT ![e].status = "PENDING"]
      BY <1>1, <1>4
    <2> QED
      BY <1>6, <2>1, <2>2
  <1>8. Kept(x)
    BY <1>2, <1>7 DEF Kept
  <1>9. CASE x = e
    <2>1. doc'[x] = Cleared(doc[x], InProgressState(ops[i].type))
      BY <1>1, <1>4, <1>9
    <2>2. doc'[x].state = InProgressState(ops[i].type) /\ doc'[x].key = doc[x].key
      BY <1>6, <2>1, RowColumns
    <2>3. /\ <<doc[x].state, doc'[x].state>> \in
                {<<"PREFLIGHT_FAILED", "PREFLIGHTING">>, <<"PUBLISH_FAILED", "PUBLISHING">>,
                 <<"DELETE_FAILED", "DELETING">>}
          /\ doc[x].state # "ABSENT" /\ doc'[x].state # "ABSENT"
      BY <1>3, <1>5, <1>9, <2>2 DEF RetryType, Failed, InProgressState, OperationType
    <2>4. <<doc[x].state, doc'[x].state>> \in Contract!Edge
      BY <2>3, Edges
    <2> QED
      BY <1>2, <1>6, <1>8, <2>2, <2>3, <2>4, MoveFollows
  <1>10. CASE x # e /\ x = ops[i].target /\ doc[x].state = "DELETE_FAILED"
    <2>1. doc'[x] = Cleared(doc[x], "DELETING")
      BY <1>1, <1>4, <1>10
    <2>2. doc'[x].state = "DELETING" /\ doc'[x].key = doc[x].key
      BY <1>6, <2>1, RowColumns
    <2> QED
      BY <1>2, <1>6, <1>8, <1>10, <2>2, Edges, MoveFollows
  <1>11. CASE x # e /\ ~(x = ops[i].target /\ doc[x].state = "DELETE_FAILED")
    <2>1. doc'[x] = doc[x]
      BY <1>1, <1>4, <1>11
    <2> QED
      BY <1>2, <1>7, <1>11, <2>1, UntouchedFollows DEF Untouched
  <1> QED
    BY <1>9, <1>10, <1>11

-----------------------------------------------------------------------------
(* The theorems. *)

\* Every step of the service follows the lifecycle of every document.
LEMMA StepFollows ==
    ASSUME DocumentInv, [Next]_vars
    PROVE  \A d \in Documents : Follows(d)
  <1>1. DocumentInv'
    BY DocumentInvStep
  <1>2. CASE Api
    BY <1>1, <1>2, UploadFollows, DecisionFollows, DeletionRequestFollows, RetryFollows DEF Api
  <1>3. CASE Lease \/ \E s \in Slots : Claim(s)
    <2>1. UNCHANGED <<doc, revisions, content, pub, del, active, screening, files>>
      BY <1>3, LeaseRows DEF DocumentInv
    <2> QED
      BY <2>1, UntouchedFollows DEF Untouched
  <1>4. CASE \E s \in Slots : Work(s) \/ Trouble(s)
    BY <1>1, <1>4, WorkFollows
  <1>5. CASE UNCHANGED vars
    <2>1. UNCHANGED <<doc, revisions, content, pub, del, active, screening, files>>
      BY <1>5 DEF vars, prepVars, index
    <2> QED
      BY <2>1, UntouchedFollows DEF Untouched
  <1> QED
    BY <1>2, <1>3, <1>4, <1>5 DEF Next

\* No step takes back a sealed revision, the revision a publication was
\* approved for or a deletion proof: neither an exception in the try block of
\* _run_preflight, nor a retry, nor a slot that goes on after a lapsed lease.
THEOREM CheckpointsKept == Spec => CheckpointsPermanent
  <1> DEFINE A == \A d \in Documents :
        /\ \A r \in DOMAIN revisions[d] :
            revisions[d][r] = "SEALED" => revisions'[d][r] = "SEALED"
        /\ pub[d].status # "NONE" => pub'[d].rev = pub[d].rev
        /\ del[d].proofs \subseteq del'[d].proofs
  <1>1. DocumentInv /\ [Next]_vars => A
    BY StepFollows DEF Follows, Kept
  <1>2. CheckpointsPermanent <=> [][A]_vars
    BY DEF CheckpointsPermanent
  <1> HIDE DEF A
  <1> QED
    BY DocumentsConsistent, <1>1, <1>2, PTL DEF Spec

\* The service implements the documented lifecycle of a document: every
\* behaviour of API, worker, storage and vector index, crashes and lapsed
\* leases included, is one of DocumentContract.
THEOREM ContractImplemented == Spec => ContractRespected
  <1>1. Init => Contract!Init
    <2> SUFFICES ASSUME Init PROVE Contract!Init
      OBVIOUS
    <2>1. \A d \in Documents :
            /\ doc[d].state = "ABSENT" /\ ~doc[d].key /\ ~content[d]
            /\ files[d] = {} /\ Visible(d) = {}
      BY DEF Init, Absent, Visible
    <2> QED
      BY <2>1 DEF Contract!Init
  <1>2. DocumentInv /\ [Next]_vars => Contract!Next
    BY StepFollows DEF Follows, Contract!Next
  <1> QED
    BY <1>1, <1>2, DocumentsConsistent, PTL DEF Spec, ContractRespected, Contract!Spec

-----------------------------------------------------------------------------
(* Failures can be retried, and rejections keep their reason. *)

\* An open operation is the last of its kind; one that did not succeed is at
\* no final phase; the last one of a failed document failed, as retryable.
FailuresBound ==
    /\ \A i \in DOMAIN ops : ops[i].state \in OpenState => IsLatest(i, ops[i].doc, ops[i].type)
    /\ \A i \in DOMAIN ops : ops[i].state # "SUCCEEDED" => ops[i].phase \notin FinalPhase
    /\ \A d \in Documents, i \in DOMAIN ops :
        doc[d].state \in Failed /\ doc[d].replacedBy = None /\ IsLatest(i, d, RetryType(d)) =>
            ops[i].state = "FAILED" /\ ops[i].retryable = doc[d].retryable

\* Document d is or will be rejected, and the reason is lost.
Reasonless(d) ==
    /\ doc[d].failure # "rejection"
    /\ \/ doc[d].state = "REJECTED"
       \/ doc[d].state \in {"DELETING", "DELETE_FAILED"} /\ doc[d].disposition = "REJECTED"

\* That takes a cleanup that failed.
ReasonsBound ==
    \A d \in Documents : Reasonless(d) =>
        \E i \in DOMAIN ops : ops[i].doc = d /\ ops[i].type = "DELETE" /\ ops[i].state = "FAILED"

FailureInvariant == DocumentInv /\ FailuresBound /\ ReasonsBound

\* What a step does to the queue: a failed operation stays as it is, none is
\* opened again or reaches a final phase unless it succeeds, and a new one is
\* queued behind the others.
QueueAdvances ==
    /\ HistoryKept
    /\ \A i \in DOMAIN ops :
        /\ ops[i].state = "FAILED" => ops'[i] = ops[i]
        /\ ops'[i].state \in OpenState => ops[i].state \in OpenState
        /\ \/ ops'[i].state = "SUCCEEDED"
           \/ /\ ops[i].state # "SUCCEEDED"
              /\ ops'[i].phase = ops[i].phase \/ ops'[i].phase \notin FinalPhase
    /\ \A i \in NewOps :
        /\ ops'[i].state = "QUEUED" /\ ops'[i].phase \notin FinalPhase
        /\ \A j \in DOMAIN ops' : j <= i

\* A document is failed by an operation of its own, which fails with it.
FailureNoted(d) ==
    doc'[d].state \in Failed /\ doc'[d].replacedBy = None =>
        \/ /\ doc[d].state = doc'[d].state /\ doc[d].retryable = doc'[d].retryable
           /\ doc[d].replacedBy = None
        \/ \E i \in DOMAIN ops :
            /\ ops[i].state \in OpenState /\ ops[i].doc = d
            /\ FailureState(ops[i].type) = doc'[d].state
            /\ ops'[i].state = "FAILED" /\ ops'[i].retryable = doc'[d].retryable

\* A reason is lost only to a cleanup that failed.
ReasonNoted(d) ==
    Reasonless(d)' =>
        \/ Reasonless(d)
        \/ \E i \in DOMAIN ops :
            ops[i].doc = d /\ ops[i].type = "DELETE" /\ ops'[i].state = "FAILED"

\* Such a step preserves the invariant.
LEMMA FailuresKept ==
    ASSUME FailureInvariant, DocumentInv', QueueAdvances,
           \A d \in Documents : FailureNoted(d) /\ ReasonNoted(d)
    PROVE  FailuresBound' /\ ReasonsBound'
  <1>h. /\ DOMAIN ops \subseteq DOMAIN ops'
        /\ \A i \in DOMAIN ops : /\ ops'[i].type = ops[i].type /\ ops'[i].doc = ops[i].doc
                                 /\ ops'[i].target = ops[i].target
        /\ \A i \in DOMAIN ops' : i \in DOMAIN ops \/ i \in NewOps
    BY DEF QueueAdvances, HistoryKept, NewOps
  <1>o. \A i \in DOMAIN ops' : ops'[i].doc \in Documents /\ ops'[i].type \in OperationType
    <2>1. ops' \in Seq(Operation)
      BY DEF DocumentInv, TypeInv, TypeOK
    <2>2. \A i \in DOMAIN ops' : ops'[i] \in Operation
      BY <2>1
    <2> QED
      BY <2>2 DEF Operation
  <1>q. "QUEUED" \in OpenState /\ "FAILED" \notin OpenState
    BY DEF OpenState
  <1>1. ASSUME NEW i \in DOMAIN ops', ops'[i].state \in OpenState
        PROVE  IsLatest(i, ops[i].doc, ops[i].type)'
    <2> SUFFICES ASSUME NEW j \in DOMAIN ops', ops'[j].doc = ops'[i].doc,
                        ops'[j].type = ops'[i].type
                 PROVE  j <= i
      BY DEF IsLatest
    <2>1. CASE i \in NewOps
      BY <2>1 DEF QueueAdvances
    <2>2. CASE i \in DOMAIN ops /\ j \in DOMAIN ops
      BY <1>1, <1>h, <2>2 DEF FailureInvariant, FailuresBound, QueueAdvances, IsLatest
    <2>3. CASE i \in DOMAIN ops /\ j \in NewOps
      <3>1. i # j /\ ops'[j].state \in OpenState
        BY <1>q, <2>3 DEF QueueAdvances, NewOps
      <3>2. (Locked(ops[i]))' \cap (Locked(ops[j]))' = {}
        BY <1>1, <3>1 DEF DocumentInv, Ownership, OneOpenOperation
      <3>3. ops'[i].doc # None
        BY <1>o, NoneAssumption
      <3> QED
        BY <3>2, <3>3 DEF Locked
    <2> QED
      BY <1>h, <2>1, <2>2, <2>3
  <1>2. ASSUME NEW i \in DOMAIN ops', ops'[i].state # "SUCCEEDED"
        PROVE  ops'[i].phase \notin FinalPhase
    BY <1>2, <1>h DEF FailureInvariant, FailuresBound, QueueAdvances
  <1>3. ASSUME NEW d \in Documents, NEW i \in DOMAIN ops', doc'[d].state \in Failed,
               doc'[d].replacedBy = None, IsLatest(i, d, RetryType(d))'
        PROVE  ops'[i].state = "FAILED" /\ ops'[i].retryable = doc'[d].retryable
    <2>1. ops'[i].doc = d /\ ops'[i].type = RetryType(d)'
      BY <1>3 DEF IsLatest
    <2>2. i \in DOMAIN ops
      <3> SUFFICES ASSUME i \in NewOps PROVE FALSE
        BY <1>h
      <3>1. ops'[i].state \in OpenState
        BY <1>q DEF QueueAdvances
      <3>2. doc'[d].state = InProgressState(ops'[i].type)
        BY <2>1, <3>1 DEF DocumentInv, Ownership, WorkIsOwned
      <3> QED
        BY <1>3, <1>o, <3>2, StateOfType DEF Failed, InProgress
    <2>3. \A j \in DOMAIN ops : ops[j].doc = d /\ ops[j].type = ops[i].type => j <= i
      BY <1>3, <1>h, <2>1, <2>2 DEF IsLatest
    <2>4. CASE /\ doc[d].state = doc'[d].state /\ doc[d].retryable = doc'[d].retryable
               /\ doc[d].replacedBy = None
      <3>1. RetryType(d) = RetryType(d)'
        BY <2>4 DEF RetryType
      <3>2. IsLatest(i, d, RetryType(d))
        BY <1>h, <2>1, <2>2, <2>3, <3>1 DEF IsLatest
      <3>3. ops[i].state = "FAILED" /\ ops[i].retryable = doc[d].retryable
        BY <1>3, <2>2, <2>4, <3>2 DEF FailureInvariant, FailuresBound
      <3> QED
        BY <2>2, <2>4, <3>3 DEF QueueAdvances
    <2>5. ASSUME NEW k \in DOMAIN ops, ops[k].state \in OpenState, ops[k].doc = d,
                 FailureState(ops[k].type) = doc'[d].state,
                 ops'[k].state = "FAILED", ops'[k].retryable = doc'[d].retryable
          PROVE  ops'[i].state = "FAILED" /\ ops'[i].retryable = doc'[d].retryable
      <3>1. ops[k].type = RetryType(d)'
        BY <1>h, <1>o, <2>5 DEF FailureState, RetryType, OperationType
      <3>2. IsLatest(k, d, ops[k].type)
        BY <2>5 DEF FailureInvariant, FailuresBound
      <3>3. i <= k /\ k <= i /\ i \in Nat /\ k \in Nat
        <4>1. DOMAIN ops = 1 .. Len(ops) /\ Len(ops) \in Nat
          BY OpsLength DEF FailureInvariant, DocumentInv, TypeInv, TypeOK
        <4> QED
          BY <1>h, <2>1, <2>2, <2>3, <2>5, <3>1, <3>2, <4>1 DEF IsLatest
      <3> QED
        BY <2>5, <3>3
    <2> QED
      BY <1>3, <2>4, <2>5 DEF FailureNoted
  <1>4. FailuresBound'
    BY <1>1, <1>2, <1>3 DEF FailuresBound
  <1>5. ReasonsBound'
    <2> SUFFICES ASSUME NEW d \in Documents, Reasonless(d)'
                 PROVE  \E i \in DOMAIN ops' : /\ ops'[i].doc = d /\ ops'[i].type = "DELETE"
                                               /\ ops'[i].state = "FAILED"
      BY DEF ReasonsBound
    <2>1. CASE Reasonless(d)
      BY <1>h, <2>1 DEF FailureInvariant, ReasonsBound, QueueAdvances
    <2>2. CASE ~Reasonless(d)
      BY <1>h, <2>2 DEF ReasonNoted
    <2> QED
      BY <2>1, <2>2
  <1> QED
    BY <1>4, <1>5

\* A step of slot s advances the queue if it leaves the other rows alone.
LEMMA SlotAdvances ==
    ASSUME DocumentInv, NEW s \in Slots, slot[s].pc # "idle", HistoryKept,
           \A i \in DOMAIN ops : i # slot[s].op => ops'[i] = ops[i],
           \/ ops'[slot[s].op].state = "SUCCEEDED"
           \/ ops'[slot[s].op].phase = Op(s).phase
           \/ ops'[slot[s].op].phase \notin FinalPhase,
           \A i \in NewOps :
              /\ ops'[i].state = "QUEUED" /\ ops'[i].phase \notin FinalPhase
              /\ \A j \in DOMAIN ops' : j <= i
    PROVE  QueueAdvances
  <1>1. Op(s).state \in OpenState /\ ops[slot[s].op] = Op(s)
    BY Engaged
  <1>2. "FAILED" \notin OpenState /\ "SUCCEEDED" \notin OpenState
    BY DEF OpenState
  <1> QED
    BY <1>1, <1>2 DEF QueueAdvances

\* A quiet step notes nothing.
LEMMA QuietNoted ==
    ASSUME DocumentInv, NEW s \in Slots, slot[s].pc # "idle", Quiet(s), RowKept(s) \/ RowBound(s)
    PROVE  QueueAdvances /\ \A d \in Documents : FailureNoted(d) /\ ReasonNoted(d)
  <1>1. doc' = doc /\ HistoryKept /\ NewOps = {} /\ ops[slot[s].op] = Op(s)
    BY Engaged DEF Quiet, QueueQuiet, NewOps
  <1>2. QueueAdvances
    BY <1>1, SlotAdvances DEF RowKept, RowBound
  <1>3. \A d \in Documents : FailureNoted(d) /\ ReasonNoted(d)
    BY <1>1 DEF FailureNoted, ReasonNoted, Reasonless
  <1> QED
    BY <1>2, <1>3

\* A document that no one touches notes nothing.
LEMMA UntouchedNoted ==
    ASSUME NEW d \in Documents, doc'[d] = doc[d]
    PROVE  FailureNoted(d) /\ ReasonNoted(d)
  BY DEF FailureNoted, ReasonNoted, Reasonless

\* A completed operation, and the one that may follow it, advance the queue.
LEMMA CompletionAdvances ==
    ASSUME DocumentInv, NEW s \in Slots, slot[s].pc # "idle", NEW row \in Operation,
           row.type = Op(s).type, row.doc = Op(s).doc, row.target = Op(s).target,
           row.state = "SUCCEEDED", NEW new \in Operation, new.state = "QUEUED",
           new.phase \notin FinalPhase,
           \/ ops' = [ops EXCEPT ![slot[s].op] = row]
           \/ ops' = Append([ops EXCEPT ![slot[s].op] = row], new)
    PROVE  QueueAdvances
  <1>1. /\ HistoryKept /\ ops'[slot[s].op] = row
        /\ \A i \in DOMAIN ops : i # slot[s].op => ops'[i] = ops[i]
        /\ \/ DOMAIN ops' = DOMAIN ops
           \/ /\ DOMAIN ops' = DOMAIN ops \cup {Len(ops) + 1}
              /\ ops'[Len(ops) + 1] = new
    BY OperationSucceeded DEF DocumentInv
  <1>2. DOMAIN ops = 1 .. Len(ops) /\ Len(ops) \in Nat
    BY OpsLength DEF DocumentInv, TypeInv, TypeOK
  <1>3. \A i \in NewOps :
              /\ ops'[i].state = "QUEUED" /\ ops'[i].phase \notin FinalPhase
              /\ \A j \in DOMAIN ops' : j <= i
    BY <1>1, <1>2 DEF NewOps
  <1> QED
    BY <1>1, <1>3, SlotAdvances

\* The steps that complete an operation or a phase of a deletion.
LEMMA CompletionNoted ==
    ASSUME DocumentInv, DocumentInv', NEW s \in Slots,
           \/ AcceptRejection(s) \/ FinishPreflight(s) \/ FinishPublication(s)
           \/ PurgeCommit(s) \/ CommitDeletion(s)
    PROVE  QueueAdvances /\ \A d \in Documents : FailureNoted(d) /\ ReasonNoted(d)
  <1>0. slot[s].pc # "idle"
    BY DEF AcceptRejection, FinishPreflight, FinishPublication, PurgeCommit, CommitDeletion, At
  <1>e. /\ Op(s) \in Operation /\ Doc(s) \in Documents /\ Subject(s) \in Documents
        /\ slot[s].op \in DOMAIN ops /\ ops[slot[s].op] = Op(s)
    BY <1>0, Engaged
  <1>t. /\ doc \in [Documents -> DocumentRow] /\ ops \in Seq(Operation) /\ HistoryKept
    BY CompletionTypes DEF DocumentInv, TypeInv, TypeOK
  \* Rows that a completion or a new operation writes.
  <1>s. \A p \in FinalPhase :
          /\ Succeed(Op(s), p) \in Operation /\ Succeed(Op(s), p).type = Op(s).type
          /\ Succeed(Op(s), p).doc = Op(s).doc /\ Succeed(Op(s), p).target = Op(s).target
          /\ Succeed(Op(s), p).state = "SUCCEEDED"
    BY <1>e, SucceedType DEF OperationPhase
  <1>n. \A type \in {"DELETE", "PUBLISH"}, r \in Nat :
          LET new == QueuedOperation(type, Doc(s), None, r, "QUEUED")
          IN  new \in Operation /\ new.state = "QUEUED" /\ new.phase \notin FinalPhase
    <2> SUFFICES ASSUME NEW type \in {"DELETE", "PUBLISH"}, NEW r \in Nat
                 PROVE  LET new == QueuedOperation(type, Doc(s), None, r, "QUEUED")
                        IN  /\ new \in Operation /\ new.state = "QUEUED"
                            /\ new.phase \notin FinalPhase
      OBVIOUS
    <2>1. type \in OperationType /\ "QUEUED" \in OperationPhase /\ "QUEUED" \notin FinalPhase
      BY DEF OperationType, OperationPhase, FinalPhase
    <2> QED
      BY <1>e, <2>1, QueuedType DEF QueuedOperation
  <1>f. {"COMPLETE", "AWAITING_DECISION"} \subseteq FinalPhase
    BY DEF FinalPhase
  <1>1. CASE AcceptRejection(s)
    <2> DEFINE r == Len(revisions[Doc(s)])
               row == [Succeed(Op(s), "COMPLETE") EXCEPT !.rev = r]
               new == QueuedOperation("DELETE", Doc(s), None, r, "QUEUED")
               condemned == [Condemned(doc[Doc(s)], "REJECTED") EXCEPT !.failure = "rejection"]
    <2>1. r \in Nat
      BY <1>e, RevisionNumbers DEF DocumentInv
    <2>2. /\ row \in Operation /\ row.type = Op(s).type /\ row.doc = Op(s).doc
          /\ row.target = Op(s).target /\ row.state = "SUCCEEDED"
      BY <1>s, <1>f, <2>1 DEF Operation
    <2>3. new \in Operation /\ new.state = "QUEUED" /\ new.phase \notin FinalPhase
      BY <1>n, <2>1
    <2>4. condemned.state = "DELETING" /\ condemned.failure = "rejection"
      <3>1. PICK old \in DocumentRow : old = doc[Doc(s)]
        BY <1>t, <1>e
      <3>2. "REJECTED" \in Disposition
        BY DEF Disposition
      <3>3. /\ Condemned(old, "REJECTED") \in DocumentRow
            /\ Condemned(old, "REJECTED").state = "DELETING"
        BY <3>2, RowTypes, RowColumns
      <3> QED
        BY <3>1, <3>3 DEF DocumentRow
    <2>5. /\ ops' = Append([ops EXCEPT ![slot[s].op] = row], new)
          /\ doc' = [doc EXCEPT ![Doc(s)] = condemned]
      BY <1>1, <1>e DEF AcceptRejection
    <2> HIDE DEF row, new, condemned, r
    <2>6. QueueAdvances
      BY <1>0, <2>2, <2>3, <2>5, CompletionAdvances
    <2>7. PICK x \in Documents : x = Doc(s)
      BY <1>e
    <2>8. doc'[x] = condemned /\ \A d \in Documents \ {x} : doc'[d] = doc[d]
      BY <1>t, <2>5, <2>7
    <2>9. FailureNoted(x) /\ ReasonNoted(x)
      BY <2>4, <2>8 DEF FailureNoted, ReasonNoted, Reasonless, Failed
    <2> QED
      BY <2>6, <2>8, <2>9, UntouchedNoted
  <1>2. CASE FinishPreflight(s)
    <2> DEFINE new == QueuedOperation("PUBLISH", Doc(s), None, slot[s].rev, "QUEUED")
    <2>1. slot[s].rev \in Nat
      BY <1>0, AtWork DEF DocumentInv, Slot
    <2>2. new \in Operation /\ new.state = "QUEUED" /\ new.phase \notin FinalPhase
      BY <1>n, <2>1
    <2>3. PICK p \in {"COMPLETE", "AWAITING_DECISION"},
               v \in {"PUBLISHING", "REVIEW_REQUIRED"} :
            /\ \/ ops' = [ops EXCEPT ![slot[s].op] = Succeed(Op(s), p)]
               \/ ops' = Append([ops EXCEPT ![slot[s].op] = Succeed(Op(s), p)], new)
            /\ doc' = [doc EXCEPT ![Doc(s)] = Cleared(doc[Doc(s)], v)]
      BY <1>2, <1>e DEF FinishPreflight
    <2> DEFINE row == Succeed(Op(s), p)
    <2>4. /\ row \in Operation /\ row.type = Op(s).type /\ row.doc = Op(s).doc
          /\ row.target = Op(s).target /\ row.state = "SUCCEEDED"
      BY <1>s, <1>f
    <2>5. \/ ops' = [ops EXCEPT ![slot[s].op] = row]
          \/ ops' = Append([ops EXCEPT ![slot[s].op] = row], new)
      BY <2>3
    <2> HIDE DEF row, new
    <2>6. QueueAdvances
      BY <1>0, <2>2, <2>4, <2>5, CompletionAdvances
    <2>7. PICK x \in Documents : x = Doc(s)
      BY <1>e
    <2>8. doc'[x] = Cleared(doc[x], v) /\ \A d \in Documents \ {x} : doc'[d] = doc[d]
      BY <1>t, <2>3, <2>7
    <2>9. doc'[x].state = v
      BY <1>t, <2>8, RowColumns
    <2>10. FailureNoted(x) /\ ReasonNoted(x)
      BY <2>9 DEF FailureNoted, ReasonNoted, Reasonless, Failed, Dying, Disposition
    <2> QED
      BY <2>6, <2>8, <2>10, UntouchedNoted
  <1>3. CASE FinishPublication(s)
    <2>1. CASE ~PublicationComplete(s)
      <3>1. UNCHANGED <<doc, ops>>
        BY <1>3, <2>1 DEF FinishPublication
      <3>2. QueueAdvances
        BY <1>0, <1>t, <1>e, <3>1, SlotAdvances DEF NewOps
      <3> QED
        BY <3>1, <3>2, UntouchedNoted
    <2>2. CASE PublicationComplete(s)
      <3> DEFINE row == Succeed(Op(s), "COMPLETE")
                 new == QueuedOperation("PUBLISH", Doc(s), None, 0, "QUEUED")
      <3>1. /\ ops' = [ops EXCEPT ![slot[s].op] = row]
            /\ doc' = [doc EXCEPT ![Doc(s)] = Cleared(doc[Doc(s)], "READY")]
        BY <1>3, <2>2, <1>e DEF FinishPublication
      <3>2. /\ row \in Operation /\ row.type = Op(s).type /\ row.doc = Op(s).doc
            /\ row.target = Op(s).target /\ row.state = "SUCCEEDED"
        BY <1>s, <1>f
      <3>3. new \in Operation /\ new.state = "QUEUED" /\ new.phase \notin FinalPhase
        BY <1>n
      <3> HIDE DEF row, new
      <3>4. QueueAdvances
        BY <1>0, <3>1, <3>2, <3>3, CompletionAdvances
      <3>5. PICK x \in Documents : x = Doc(s)
        BY <1>e
      <3>6. doc'[x] = Cleared(doc[x], "READY") /\ \A d \in Documents \ {x} : doc'[d] = doc[d]
        BY <1>t, <3>1, <3>5
      <3>7. doc'[x].state = "READY"
        BY <1>t, <3>6, RowColumns
      <3>8. FailureNoted(x) /\ ReasonNoted(x)
        BY <3>7 DEF FailureNoted, ReasonNoted, Reasonless, Failed, Dying, Disposition
      <3> QED
        BY <3>4, <3>6, <3>8, UntouchedNoted
    <2> QED
      BY <2>1, <2>2
  <1>4. CASE PurgeCommit(s)
    <2>1. /\ RecordProof(s, "storage_purged", "COMMIT_TOMBSTONE")
          /\ doc' = [doc EXCEPT ![Subject(s)].key = FALSE]
          /\ "storage_purged" \in Proof /\ "COMMIT_TOMBSTONE" \in DeletionPhase
      BY <1>4 DEF PurgeCommit, Proof, DeletionPhase
    <2>2. RowKept(s) /\ DOMAIN ops' = DOMAIN ops
      BY <1>0, <2>1, ProofAdded, ProofRecorded DEF DocumentInv
    <2>3. QueueAdvances
      BY <1>0, <1>t, <1>e, <2>2, SlotAdvances DEF RowKept, NewOps
    <2>4. \A d \in Documents :
            /\ doc'[d].state = doc[d].state /\ doc'[d].disposition = doc[d].disposition
            /\ doc'[d].failure = doc[d].failure /\ doc'[d].retryable = doc[d].retryable
            /\ doc'[d].replacedBy = doc[d].replacedBy
      <3>1. \A d \in Documents : doc'[d] = doc[d] \/ doc'[d] = [doc[d] EXCEPT !.key = FALSE]
        BY <1>t, <2>1
      <3>2. \A d \in Documents : doc[d] \in DocumentRow
        BY <1>t
      <3> QED
        BY <3>1, <3>2 DEF DocumentRow
    <2> QED
      BY <2>3, <2>4 DEF FailureNoted, ReasonNoted, Reasonless
  <1>5. CASE CommitDeletion(s)
    <2>1. QueueAdvances
      <3>1. CASE Op(s).type = "DELETE"
        <4> DEFINE row == Succeed(Op(s), "COMPLETE")
                   new == QueuedOperation("PUBLISH", Doc(s), None, 0, "QUEUED")
        <4>1. ops' = [ops EXCEPT ![slot[s].op] = row]
          BY <1>5, <3>1, <1>e DEF CommitDeletion
        <4>2. /\ row \in Operation /\ row.type = Op(s).type /\ row.doc = Op(s).doc
              /\ row.target = Op(s).target /\ row.state = "SUCCEEDED"
          BY <1>s, <1>f
        <4>3. new \in Operation /\ new.state = "QUEUED" /\ new.phase \notin FinalPhase
          BY <1>n
        <4> HIDE DEF row, new
        <4> QED
          BY <1>0, <4>1, <4>2, <4>3, CompletionAdvances
      <3>2. CASE Op(s).type # "DELETE"
        <4>1. SetPhase(s, "COMMIT_TOMBSTONE") /\ "COMMIT_TOMBSTONE" \in OperationPhase \ FinalPhase
          BY <1>5, <3>2 DEF CommitDeletion, OperationPhase, DeletionPhase, FinalPhase
        <4>2. RowKept(s) /\ QueueQuiet
          BY <1>0, <4>1, PhaseRow, QueuePhase DEF DocumentInv
        <4> QED
          BY <1>0, <1>t, <1>e, <4>2, SlotAdvances DEF RowKept, QueueQuiet, NewOps
      <3> QED
        BY <3>1, <3>2
    <2>2. /\ doc' = [doc EXCEPT ![Subject(s)] = Tombstoned(doc[Subject(s)])]
          /\ doc[Subject(s)].state \in {"DELETING", "DELETE_FAILED"}
      BY <1>5 DEF CommitDeletion, MayTombstone
    <2>3. PICK x \in Documents : x = Subject(s)
      BY <1>e
    <2>4. doc'[x] = Tombstoned(doc[x]) /\ \A d \in Documents \ {x} : doc'[d] = doc[d]
      BY <1>t, <2>2, <2>3
    <2>5. /\ doc'[x].state = doc[x].disposition /\ doc'[x].disposition = doc[x].disposition
          /\ doc[x].disposition = "REJECTED" => doc'[x].failure = doc[x].failure
      BY <1>t, <2>4, RowColumns
    <2>6. doc[x].disposition \in Disposition
      BY <2>2, <2>3 DEF DocumentInv, TypeInv, DispositionsRecorded
    <2>7. FailureNoted(x) /\ ReasonNoted(x)
      BY <2>2, <2>3, <2>5, <2>6 DEF FailureNoted, ReasonNoted, Reasonless, Failed, Disposition
    <2> QED
      BY <2>1, <2>4, <2>7, UntouchedNoted
  <1> QED
    BY <1>1, <1>2, <1>3, <1>4, <1>5

\* _fail_operation fails the operation with its document.
LEMMA FailureNotedByFailure ==
    ASSUME DocumentInv, DocumentInv', NEW s \in Slots, FailOperation(s)
    PROVE  QueueAdvances /\ \A d \in Documents : FailureNoted(d) /\ ReasonNoted(d)
  <1> DEFINE k == slot[s].op
             o == Op(s)
             r == slot[s].retryable
             row == [ops[k] EXCEPT !.state = "FAILED", !.retryable = r]
  <1>0. slot[s].pc # "idle"
    BY DEF FailOperation, At
  <1>e. /\ k \in DOMAIN ops /\ ops[k] = o /\ o \in Operation /\ o.doc \in Documents
        /\ o.state \in OpenState /\ o.type \in OperationType
        /\ doc[o.doc].state = InProgressState(o.type)
        /\ o.target # None => doc[o.target].replacedBy = o.doc
    BY <1>0, Engaged
  <1>t. /\ doc \in [Documents -> DocumentRow] /\ ops \in Seq(Operation) /\ HistoryKept
        /\ r \in BOOLEAN
    BY <1>0, AtWork, FailureTypes DEF DocumentInv, TypeInv, TypeOK, Slot
  <1>1. CASE ~Holds(s)
    <2>1. UNCHANGED <<doc, ops>>
      BY <1>1 DEF FailOperation
    <2>2. QueueAdvances
      BY <1>0, <1>t, <1>e, <2>1, SlotAdvances DEF NewOps
    <2> QED
      BY <2>1, <2>2, UntouchedNoted
  <1>2. CASE Holds(s)
    <2>1. /\ row \in Operation /\ row.state = "FAILED" /\ row.retryable = r
          /\ row.phase = ops[k].phase
      BY <1>e, <1>t DEF Operation
    <2>2. /\ ops' = [ops EXCEPT ![k] = row]
          /\ doc' = [x \in Documents |-> FailureRow(x, o, r)]
      BY <1>2 DEF FailOperation
    <2> HIDE DEF row
    <2>3. /\ ops'[k] = row /\ \A i \in DOMAIN ops : i # k => ops'[i] = ops[i]
          /\ DOMAIN ops' = DOMAIN ops
      BY <1>e, <1>t, <2>1, <2>2, RowRewritten
    <2>4. QueueAdvances
      BY <1>0, <1>t, <1>e, <2>1, <2>3, SlotAdvances DEF NewOps
    <2> HIDE DEF o, r, k
    <2> SUFFICES ASSUME NEW d \in Documents PROVE FailureNoted(d) /\ ReasonNoted(d)
      BY <2>4
    <2>5. doc'[d] = FailureRow(d, o, r) /\ doc[d] \in DocumentRow
      BY <1>t, <2>2
    <2>6. CASE d = o.doc
      <3>1. ~(o.type = "PREFLIGHT" /\ doc[d].state = "DELETING")
        BY <1>e, <2>6 DEF InProgressState
      <3>2. doc'[d] = Broken(doc[d], FailureState(o.type), r)
        BY <3>1, <2>5, <2>6 DEF FailureRow
      <3>3. doc'[d].state = FailureState(o.type) /\ doc'[d].retryable = r
        BY <2>5, <3>2, RowColumns
      <3>4. FailureNoted(d)
        BY <1>e, <2>1, <2>3, <2>6, <3>3 DEF FailureNoted
      <3>5. doc'[d].state \in Dying => o.type = "DELETE"
        BY <1>e, <3>3 DEF FailureState, OperationType, Dying, Disposition
      <3>6. ReasonNoted(d)
        BY <1>e, <2>1, <2>3, <2>6, <3>5 DEF ReasonNoted, Reasonless, Dying, Disposition
      <3> QED
        BY <3>4, <3>6
    <2>7. CASE d # o.doc /\ d = o.target /\ doc[d].state = "DELETING"
      <3>1. doc'[d] = Broken(doc[d], "DELETE_FAILED", r)
        BY <2>5, <2>7 DEF FailureRow
      <3>2. doc'[d].replacedBy = doc[d].replacedBy /\ doc'[d].disposition = doc[d].disposition
        BY <2>5, <3>1, RowColumns
      <3>3. doc'[d].state # "REJECTED"
        BY <2>5, <3>1, RowColumns
      <3>4. doc[d].replacedBy # None
        BY <1>e, <2>7, NoneAssumption
      <3>5. doc[d].disposition = "DELETED"
        BY <3>4 DEF DocumentInv, AllRowsAgree, RowsAgree, ReplacedDeleted
      <3> QED
        BY <3>2, <3>3, <3>4, <3>5 DEF FailureNoted, ReasonNoted, Reasonless
    <2>8. CASE d # o.doc /\ ~(d = o.target /\ doc[d].state = "DELETING")
      <3>1. doc'[d] = doc[d]
        BY <2>5, <2>8 DEF FailureRow
      <3> QED
        BY <3>1, UntouchedNoted
    <2> QED
      BY <2>6, <2>7, <2>8
  <1> QED
    BY <1>1, <1>2

\* Every step of a slot.
LEMMA WorkNoted ==
    ASSUME DocumentInv, DocumentInv', NEW s \in Slots, Work(s) \/ Trouble(s)
    PROVE  QueueAdvances /\ \A d \in Documents : FailureNoted(d) /\ ReasonNoted(d)
  <1>t. TypeInv
    BY DEF DocumentInv
  <1>p. ASSUME PreflightEffect(s), Quiet(s)
        PROVE  QueueAdvances /\ \A d \in Documents : FailureNoted(d) /\ ReasonNoted(d)
    BY <1>p, QuietNoted DEF PreflightEffect, PreflightSteps
  <1>u. ASSUME PublishEffect(s), Quiet(s)
        PROVE  QueueAdvances /\ \A d \in Documents : FailureNoted(d) /\ ReasonNoted(d)
    BY <1>u, QuietNoted DEF PublishEffect, PublishSteps
  <1>d. ASSUME DeletionEffect(s), Quiet(s)
        PROVE  QueueAdvances /\ \A d \in Documents : FailureNoted(d) /\ ReasonNoted(d)
    BY <1>d, QuietNoted DEF DeletionEffect, DeletionSteps
  <1>1. CASE Preflight(s) \/ FailPreparation(s)
    BY <1>1, <1>t, <1>p, PreflightEffects, PreflightQuiet, CompletionNoted DEF Preflight
  <1>2. CASE Publish(s)
    BY <1>2, <1>t, <1>u, PublishEffects, PublishQuiet, CompletionNoted DEF Publish
  <1>3. CASE Deletion(s)
    BY <1>3, <1>t, <1>d, DeletionEffects, DeletionQuiet, CompletionNoted DEF Deletion
  <1>4. CASE FailOperation(s)
    BY <1>4, FailureNotedByFailure
  <1>5. CASE LoseLease(s) \/ LoseOwnership(s) \/ Fault(s) \/ Misconfigured(s)
    BY <1>5, <1>t, TroubleEffects, TroubleQuiet, QuietNoted DEF TroubleEffect
  <1> QED
    BY <1>1, <1>2, <1>3, <1>4, <1>5 DEF Work, Trouble

\* enqueue_operation puts a new row behind the others.
LEMMA RequestAdvances ==
    ASSUME DocumentInv, DocumentInv', NEW type, NEW d, NEW t, NEW r,
           NEW phase, phase \notin FinalPhase,
           Enqueue(QueuedOperation(type, d, t, r, phase))
    PROVE  QueueAdvances
  <1> DEFINE row == QueuedOperation(type, d, t, r, phase)
  <1>1. ops \in Seq(Operation) /\ ops' \in Seq(Operation) /\ ops' = Append(ops, row)
    BY DEF DocumentInv, TypeInv, TypeOK, Enqueue
  <1>2. row.state = "QUEUED" /\ row.phase = phase
    BY DEF QueuedOperation
  <1> HIDE DEF row
  <1>3. DOMAIN ops = 1 .. Len(ops) /\ Len(ops) \in Nat
    BY <1>1, OpsLength
  <1>4. /\ DOMAIN ops' = 1 .. (Len(ops) + 1) /\ ops'[Len(ops) + 1] = row
        /\ \A i \in DOMAIN ops : ops'[i] = ops[i]
    BY <1>1, <1>3
  <1>5. HistoryKept
    BY <1>3, <1>4 DEF HistoryKept
  <1>6. \A i \in NewOps :
        /\ ops'[i].state = "QUEUED" /\ ops'[i].phase \notin FinalPhase
        /\ \A j \in DOMAIN ops' : j <= i
    <2>1. NewOps = {Len(ops) + 1}
      BY <1>3, <1>4 DEF NewOps
    <2> QED
      BY <1>2, <1>3, <1>4, <2>1
  <1> QED
    BY <1>4, <1>5, <1>6 DEF QueueAdvances

\* A document that is not failed, and is not rejected, notes nothing.
LEMMA SoundNoted ==
    ASSUME NEW d, doc'[d].state \notin Failed, doc'[d].state # "REJECTED",
           doc'[d].state # "DELETING" \/ doc'[d].disposition # "REJECTED"
    PROVE  FailureNoted(d) /\ ReasonNoted(d)
  BY DEF FailureNoted, ReasonNoted, Reasonless, Failed

\* A retry of a failed cleanup clears the reason, and the failure is on record.
LEMMA RetryNoted ==
    ASSUME DocumentInv, DocumentInv', NEW d \in Documents, Retry(d)
    PROVE  QueueAdvances /\ \A x \in Documents : FailureNoted(x) /\ ReasonNoted(x)
  <1>1. PICK i \in DOMAIN ops :
        /\ Retryable(d, RetryOwner(d), i)
        /\ doc' = [x \in Documents |->
                    IF x = RetryOwner(d) THEN Cleared(doc[x], InProgressState(ops[i].type))
                    ELSE IF x = ops[i].target /\ doc[x].state = "DELETE_FAILED"
                    THEN Cleared(doc[x], "DELETING")
                    ELSE doc[x]]
        /\ Enqueue(QueuedOperation(ops[i].type, RetryOwner(d), ops[i].target, ops[i].rev,
                                   ResumePhase(i)))
    BY DEF Retry
  <1>2. ops[i].type \in OperationType /\ ops[i].doc \in Documents
    BY OpsTyped DEF DocumentInv
  <1>3. PICK e \in Documents : e = RetryOwner(d) /\ e = ops[i].doc
    BY <1>1, <1>2 DEF Retryable, IsLatest
  <1>4. ops[i].state = "FAILED" /\ ops[i].phase \notin FinalPhase
    BY <1>1 DEF Retryable
  <1>5. QueueAdvances
    <2>1. ResumePhase(i) \notin FinalPhase
      <3>1. CASE ops[i].type = "DELETE"
        <4>1. del[e].phase \in DeletionPhase
          BY <3>1, <1>1, <1>3 DEF Retryable, DocumentInv, TypeInv, PhasesRecorded
        <4> QED
          BY <4>1, <3>1, <1>3 DEF ResumePhase, DeletionPhase, FinalPhase
      <3>2. CASE ops[i].type # "DELETE"
        BY <3>2, <1>4 DEF ResumePhase
      <3> QED
        BY <3>1, <3>2
    <2> QED
      BY <1>1, <2>1, RequestAdvances
  <1>6. ops'[i] = ops[i]
    BY <1>4, <1>5 DEF QueueAdvances
  <1> SUFFICES ASSUME NEW x \in Documents PROVE FailureNoted(x) /\ ReasonNoted(x)
    BY <1>5
  <1>7. doc[x] \in DocumentRow
    BY DEF DocumentInv, TypeInv, TypeOK
  <1>8. CASE x = e
    <2>1. doc'[x] = Cleared(doc[x], InProgressState(ops[i].type))
      BY <1>1, <1>3, <1>8
    <2>2. doc'[x].state = InProgressState(ops[i].type)
      BY <1>7, <2>1, RowColumns
    <2>3. doc'[x].state \notin Failed /\ (doc'[x].state \in Dying => ops[i].type = "DELETE")
      BY <1>2, <2>2, StateOfType DEF Failed, InProgress
    <2>4. FailureNoted(x)
      BY <2>3 DEF FailureNoted
    <2>5. ReasonNoted(x)
      BY <1>3, <1>4, <1>6, <1>8, <2>3 DEF ReasonNoted, Reasonless, Dying, Disposition
    <2> QED
      BY <2>4, <2>5
  <1>9. CASE x # e /\ x = ops[i].target /\ doc[x].state = "DELETE_FAILED"
    <2>1. doc'[x] = Cleared(doc[x], "DELETING")
      BY <1>1, <1>3, <1>9
    <2>2. doc'[x].state = "DELETING" /\ doc'[x].disposition = doc[x].disposition
      BY <1>7, <2>1, RowColumns
    <2>3. doc[x].replacedBy # None
      BY <1>2, <1>9, NoneAssumption DEF DocumentInv, Ownership, TargetsReplaced
    <2>4. doc[x].disposition = "DELETED"
      BY <2>3 DEF DocumentInv, AllRowsAgree, RowsAgree, ReplacedDeleted
    <2> QED
      BY <2>2, <2>4, SoundNoted DEF Failed
  <1>10. CASE x # e /\ ~(x = ops[i].target /\ doc[x].state = "DELETE_FAILED")
    <2>1. doc'[x] = doc[x]
      BY <1>1, <1>3, <1>10
    <2> QED
      BY <2>1, UntouchedNoted
  <1> QED
    BY <1>8, <1>9, <1>10

\* Every request.
LEMMA ApiNoted ==
    ASSUME DocumentInv, DocumentInv', Api
    PROVE  QueueAdvances /\ \A x \in Documents : FailureNoted(x) /\ ReasonNoted(x)
  <1>t. doc \in [Documents -> DocumentRow] /\ "QUEUED" \notin FinalPhase
    BY DEF DocumentInv, TypeInv, TypeOK, FinalPhase
  <1>1. ASSUME NEW d \in Documents, Upload(d) \/ Keep(d)
        PROVE  QueueAdvances /\ \A x \in Documents : FailureNoted(x) /\ ReasonNoted(x)
    <2>1. QueueAdvances
      BY <1>1, <1>t, RequestAdvances DEF Upload, Keep
    <2>2. PICK state \in {"PREFLIGHTING", "PUBLISHING"} :
            \/ doc' = [doc EXCEPT ![d] = [doc[d] EXCEPT !.state = state, !.key = TRUE]]
            \/ doc' = [doc EXCEPT ![d] = [doc[d] EXCEPT !.state = state]]
      BY <1>1 DEF Upload, Keep
    <2>3. /\ \/ doc'[d] = [doc[d] EXCEPT !.state = state, !.key = TRUE]
             \/ doc'[d] = [doc[d] EXCEPT !.state = state]
          /\ \A x \in Documents \ {d} : doc'[x] = doc[x]
      BY <1>t, <2>2
    <2>4. doc'[d].state = state
      BY <1>t, <2>3 DEF DocumentRow
    <2>5. state \notin Failed /\ state \notin Dying
      BY DEF Failed, Dying, Disposition
    <2> QED
      BY <2>1, <2>3, <2>4, <2>5, SoundNoted, UntouchedNoted
  <1>2. ASSUME NEW d \in Documents, Cancel(d) \/ Delete(d)
        PROVE  QueueAdvances /\ \A x \in Documents : FailureNoted(x) /\ ReasonNoted(x)
    <2>r. PICK r : \E c \in {"CANCELLED", "DELETED"} : BeginDeletion(d, c, r)
      BY <1>2 DEF Cancel, Delete
    <2>1. PICK c \in {"CANCELLED", "DELETED"} : BeginDeletion(d, c, r)
      BY <2>r
    <2>2. QueueAdvances
      BY <1>t, <2>1, RequestAdvances DEF BeginDeletion
    <2>3. doc'[d] = Condemned(doc[d], c) /\ \A x \in Documents \ {d} : doc'[x] = doc[x]
      BY <1>t, <2>1 DEF BeginDeletion
    <2>4. doc'[d].state = "DELETING" /\ doc'[d].disposition = c
      BY <1>t, <2>3, RowColumns
    <2>5. "DELETING" \notin Failed
      BY DEF Failed
    <2> QED
      BY <2>2, <2>3, <2>4, <2>5, SoundNoted, UntouchedNoted
  <1>3. ASSUME NEW d \in Documents, NEW t \in Documents, Replace(d, t)
        PROVE  QueueAdvances /\ \A x \in Documents : FailureNoted(x) /\ ReasonNoted(x)
    <2> DEFINE old == [Condemned(doc[t], "DELETED") EXCEPT !.replacedBy = d]
    <2>1. QueueAdvances
      BY <1>3, <1>t, RequestAdvances DEF Replace
    <2>2. d # t /\ doc' = [doc EXCEPT ![d] = Cleared(doc[d], "PUBLISHING"), ![t] = old]
      BY <1>3 DEF Replace
    <2>3. old.state = "DELETING" /\ old.disposition = "DELETED"
      <3>1. "DELETED" \in Disposition
        BY DEF Disposition
      <3>2. /\ Condemned(doc[t], "DELETED") \in DocumentRow
            /\ Condemned(doc[t], "DELETED").state = "DELETING"
            /\ Condemned(doc[t], "DELETED").disposition = "DELETED"
        BY <3>1, <1>t, RowTypes, RowColumns
      <3> QED
        BY <3>2 DEF DocumentRow
    <2> HIDE DEF old
    <2>4. /\ doc'[d] = Cleared(doc[d], "PUBLISHING") /\ doc'[t] = old
          /\ \A x \in Documents \ {d, t} : doc'[x] = doc[x]
      BY <1>t, <2>2
    <2>5. doc'[d].state = "PUBLISHING"
      BY <1>t, <2>4, RowColumns
    <2>6. {"PUBLISHING", "DELETING"} \cap Failed = {} /\ "PUBLISHING" \notin Dying
      BY DEF Failed, Dying, Disposition
    <2>7. FailureNoted(d) /\ ReasonNoted(d) /\ FailureNoted(t) /\ ReasonNoted(t)
      BY <2>3, <2>4, <2>5, <2>6, SoundNoted
    <2> QED
      BY <2>1, <2>4, <2>7, UntouchedNoted
  <1> QED
    BY <1>1, <1>2, <1>3, RetryNoted DEF Api

\* Every step preserves the invariant.
LEMMA FailureInvariantStep ==
    ASSUME FailureInvariant, [Next]_vars
    PROVE  FailureInvariant'
  <1>1. DocumentInv /\ DocumentInv'
    BY DocumentInvStep DEF FailureInvariant
  <1>2. CASE Api
    BY <1>1, <1>2, ApiNoted, FailuresKept DEF FailureInvariant
  <1>3. CASE \E s \in Slots : Work(s) \/ Trouble(s)
    BY <1>1, <1>3, WorkNoted, FailuresKept DEF FailureInvariant
  <1>4. CASE Lease \/ \E s \in Slots : Claim(s)
    <2>1. /\ DOMAIN ops' = DOMAIN ops
          /\ \A i \in DOMAIN ops :
                /\ ops'[i].type = ops[i].type /\ ops'[i].doc = ops[i].doc
                /\ ops'[i].target = ops[i].target
                /\ ops'[i].state \in OpenState <=> ops[i].state \in OpenState
                /\ ops'[i].phase = ops[i].phase
                /\ ops[i].state \notin OpenState => ops'[i] = ops[i]
          /\ doc' = doc
      BY <1>1, <1>4, LeaseRows DEF DocumentInv
    <2>2. "FAILED" \notin OpenState /\ "SUCCEEDED" \notin OpenState
      BY DEF OpenState
    <2>3. QueueAdvances
      BY <2>1, <2>2 DEF QueueAdvances, HistoryKept, NewOps
    <2> QED
      BY <1>1, <2>1, <2>3, UntouchedNoted, FailuresKept DEF FailureInvariant
  <1>5. CASE UNCHANGED vars
    <2>1. UNCHANGED <<doc, ops>>
      BY <1>5 DEF vars
    <2> QED
      BY <1>1, <2>1
      DEF FailureInvariant, FailuresBound, ReasonsBound, Reasonless, IsLatest, RetryType
  <1> QED
    BY <1>2, <1>3, <1>4, <1>5 DEF Next

\* Failures and reasons are on record in every run.
THEOREM FailuresRecorded == Spec => []FailureInvariant
  <1>1. Init => FailureInvariant
    <2> SUFFICES ASSUME Init PROVE FailureInvariant
      OBVIOUS
    <2>1. DOMAIN ops = {} /\ \A d \in Documents : doc[d].state = "ABSENT"
      BY DEF Init, Absent
    <2> QED
      BY <2>1, DocumentInvInit
      DEF FailureInvariant, FailuresBound, ReasonsBound, Reasonless, Dying, Disposition
  <1>2. FailureInvariant /\ [Next]_vars => FailureInvariant'
    BY FailureInvariantStep
  <1> QED
    BY <1>1, <1>2, PTL DEF Spec

\* request_retry accepts every retryable failure past its first phase of a
\* document that was not replaced: the operation, the publication and the
\* deletion checkpoint that it requires are there, whatever failed before.
THEOREM FailuresRetryable == Spec => []RetryAccepted
  <1>1. FailureInvariant => RetryAccepted
    <2> SUFFICES ASSUME FailureInvariant, NEW d \in Documents, doc[d].state \in Failed,
                        doc[d].retryable, doc[d].replacedBy = None, NEW i \in DOMAIN ops,
                        IsLatest(i, d, RetryType(d)), ops[i].phase # "QUEUED"
                 PROVE  Retryable(d, d, i)
      BY DEF RetryAccepted
    <2>1. /\ DocumentInv /\ ops[i].state = "FAILED" /\ ops[i].retryable = doc[d].retryable
          /\ ops[i].phase \notin FinalPhase /\ ops[i].doc = d /\ ops[i].type = RetryType(d)
      BY DEF FailureInvariant, FailuresBound, IsLatest
    <2>2. /\ ops[i].target # None =>
              /\ ops[i].type = "PUBLISH" /\ ops[i].target \in Documents
              /\ doc[ops[i].target].replacedBy = d
          /\ ops[i].type \in OperationType
      BY <2>1, OpsTyped DEF DocumentInv, Ownership, TargetsReplaced
    <2>3. RowsAgree(d)
      BY <2>1 DEF DocumentInv, AllRowsAgree
    <2>4. ops[i].type = "PUBLISH" =>
            /\ pub[d].rev = ops[i].rev /\ pub[d].status # "VERIFIED" /\ Sealed(d, ops[i].rev)
      <3> SUFFICES ASSUME ops[i].type = "PUBLISH"
                   PROVE  /\ pub[d].rev = ops[i].rev /\ pub[d].status # "VERIFIED"
                          /\ Sealed(d, ops[i].rev)
        OBVIOUS
      <3>1. doc[d].state = "PUBLISH_FAILED"
        BY <2>1 DEF RetryType
      <3>2. ops[i].rev = pub[d].rev
        BY <2>1 DEF DocumentInv, PublicationsBound
      <3> QED
        BY <2>3, <3>1, <3>2 DEF RowsAgree, PublicationFits
    <2>5. ops[i].target # None => del[ops[i].target] # NoProgress
      <3> SUFFICES ASSUME ops[i].target # None PROVE del[ops[i].target] # NoProgress
        OBVIOUS
      <3>1. doc[ops[i].target].state \in Dying
        BY <2>1, <2>2, NoneAssumption DEF DocumentInv, Ownership, ReplacedDying
      <3> QED
        BY <2>1, <2>2, <3>1 DEF DocumentInv, AllRowsAgree, RowsAgree, CheckpointFits
    <2>6. ops[i].type = "DELETE" => del[d] # NoProgress
      <3>1. ops[i].type = "DELETE" => doc[d].state \in Dying
        BY <2>1 DEF RetryType, Failed, Dying
      <3> QED
        BY <2>3, <3>1 DEF RowsAgree, CheckpointFits
    <2> QED
      BY <2>1, <2>2, <2>4, <2>5, <2>6 DEF Retryable, OperationType
  <1> QED
    BY FailuresRecorded, <1>1, PTL

\* The reason of a rejection reaches the tombstone unless a cleanup of the
\* document failed (_commit_deletion after queue_rejection_cleanup).
THEOREM ReasonsReachTombstone == Spec => []RejectionReasonKept
  <1>1. FailureInvariant => RejectionReasonKept
    <2> SUFFICES ASSUME FailureInvariant, NEW d \in Documents, doc[d].state = "REJECTED",
                        doc[d].failure # "rejection"
                 PROVE  \E i \in DOMAIN ops : /\ ops[i].doc = d /\ ops[i].type = "DELETE"
                                              /\ ops[i].state = "FAILED"
      BY DEF RejectionReasonKept
    <2> QED
      BY DEF FailureInvariant, ReasonsBound, Reasonless
  <1> QED
    BY FailuresRecorded, <1>1, PTL
=============================================================================
