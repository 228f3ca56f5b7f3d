---------------------------- MODULE ConsoleProofs ----------------------------
(***************************************************************************)
(* What an operator is shown and what the buttons do, for any documents,   *)
(* page size, candidates and bounds.  An offered retry is never answered   *)
(* with the result of an earlier one.  A walk through a list shows every   *)
(* lasting row once and in order, and a walk through the candidates stays  *)
(* with one revision and leaves no rank out: both rest on what each cursor *)
(* of the stack says of the pages before it.  The candidates beside an     *)
(* offered decision are of the revision it binds to, and where the service *)
(* refused them, it refuses the decision too.                              *)
(***************************************************************************)
EXTENDS Console, FiniteSetTheorems, SequenceTheorems, WellFoundedInduction, TLAPS

States == {"ABSENT", "PREFLIGHTING", "PREFLIGHT_FAILED", "REVIEW_REQUIRED", "PUBLISHING",
           "PUBLISH_FAILED", "READY", "DELETING", "DELETE_FAILED", "DELETED"}

View == [state : States, retryable : BOOLEAN, revision : Nat, operation : Nat,
         read : BOOLEAN]

Session(S) == [scope : Nat, stack : Seq(S), pages : Seq(S), next : S]

\* The parts of the state that the two properties are about have their types.
Typed ==
    /\ state \in [Documents -> States] /\ retryable \in BOOLEAN
    /\ revision \in Nat /\ operation \in Nat
    /\ page \in View
    /\ \E S : evidence \in Session(S)

\* Keys that were completed are of operations that gave way to a newer one.
KeysOld ==
    /\ page.operation <= operation
    /\ \A k \in used : k \in Nat /\ k < operation
    /\ \A k \in late : k \in Nat /\ k <= operation

\* Evidence is as old as the page at most, and as new as the service at most.
EvidenceBetween ==
    /\ evidence.scope = page.revision /\ page.revision <= revision
    /\ \A i \in Answered : \A c \in evidence.pages[i] :
        c.revision \in Nat /\ page.revision <= c.revision /\ c.revision <= revision

\* A revision that was shown for review is never followed by another one.
ReviewFinal ==
    page.state = "REVIEW_REQUIRED" =>
        /\ page.revision = revision
        /\ state[Selected] \notin {"ABSENT", "PREFLIGHTING", "PREFLIGHT_FAILED"}

ConsoleInv == Typed /\ KeysOld /\ EvidenceBetween /\ ReviewFinal

-----------------------------------------------------------------------------
\* Nothing is shown and nothing was sent at the start.
LEMMA ConsoleInit == Init => ConsoleInv
  <1> SUFFICES ASSUME Init PROVE ConsoleInv
    OBVIOUS
  <1>0. /\ page.state = "ABSENT" /\ page.revision = 0 /\ page.operation = 0
        /\ evidence.scope = 0 /\ evidence.pages = <<>>
        /\ revision = 0 /\ operation = 1 /\ used = {} /\ late = {}
    BY Zenon DEF Init, NoPage, NoEvidence
  <1>1. Typed
    <2>1. state \in [Documents -> States] /\ page \in View
      BY DEF Init, States, NoPage, View
    <2>2. <<None>> \in Seq({None}) /\ <<>> \in Seq({None})
      OBVIOUS
    <2>3. evidence \in Session({None})
      BY <2>2 DEF Init, NoEvidence, Session
    <2>4. revision \in Nat /\ operation \in Nat
      BY <1>0
    <2>5. retryable \in BOOLEAN
      BY Zenon DEF Init
    <2> QED
      BY Zenon, <2>1, <2>3, <2>4, <2>5 DEF Typed
  <1>2. KeysOld
    BY <1>0 DEF KeysOld
  <1>3. EvidenceBetween
    <2>1. Answered = {}
      BY <1>0 DEF Answered
    <2> QED
      BY <1>0, <2>1 DEF EvidenceBetween
  <1>4. ReviewFinal
    BY <1>0 DEF ReviewFinal
  <1> QED
    BY <1>1, <1>2, <1>3, <1>4 DEF ConsoleInv

\* A step that leaves the service's rows, the keys and the page alone.
LEMMA ConsoleStutter ==
    ASSUME ConsoleInv, UNCHANGED <<state, retryable, revision, operation, used, late, page, evidence>>
    PROVE  ConsoleInv'
  BY DEF ConsoleInv, Typed, KeysOld, EvidenceBetween, ReviewFinal, Answered

\* A step that moves the selected document, with the page and the revision as they were.
LEMMA ServiceStep ==
    ASSUME ConsoleInv, UNCHANGED <<page, evidence, revision>>,
           state' \in [Documents -> States], retryable' \in BOOLEAN,
           operation' \in Nat, operation <= operation',
           \A k \in used' : k \in Nat /\ k < operation',
           \A k \in late' : k \in Nat /\ k <= operation',
           state'[Selected] \in {"ABSENT", "PREFLIGHTING", "PREFLIGHT_FAILED"} =>
               state[Selected] \in {"ABSENT", "PREFLIGHTING", "PREFLIGHT_FAILED"}
    PROVE  ConsoleInv'
  <1>1. Typed'
    BY DEF ConsoleInv, Typed
  <1>2. KeysOld'
    BY DEF ConsoleInv, Typed, KeysOld, View
  <1>3. EvidenceBetween'
    BY DEF ConsoleInv, EvidenceBetween, Answered
  <1>4. ReviewFinal'
    BY DEF ConsoleInv, ReviewFinal
  <1> QED
    BY <1>1, <1>2, <1>3, <1>4 DEF ConsoleInv

\* Become writes one row.
LEMMA BecomeRow ==
    ASSUME Typed, NEW d \in Documents, NEW s \in States, Become(d, s)
    PROVE  /\ UNCHANGED <<page, evidence>>
           /\ state' \in [Documents -> States] /\ state'[d] = s
           /\ d # Selected => state'[Selected] = state[Selected]
  BY DocumentsAssumption DEF Typed, Become, Documents

-----------------------------------------------------------------------------
\* The other documents, which lists only show.
LEMMA MoveStep ==
    ASSUME ConsoleInv, NEW d \in Documents,
           NEW s \in {"PREFLIGHTING", "REVIEW_REQUIRED", "DELETED"}, Move(d, s)
    PROVE  ConsoleInv'
  <1>1. s \in States /\ Become(d, s) /\ d # Selected
        /\ UNCHANGED <<revision, retryable, operation, used, late>>
    BY DEF Move, States
  <1>2. /\ UNCHANGED <<page, evidence>> /\ state' \in [Documents -> States]
        /\ state'[Selected] = state[Selected]
    BY <1>1, BecomeRow DEF ConsoleInv
  <1> QED
    BY <1>1, <1>2, ServiceStep DEF ConsoleInv, Typed, KeysOld

\* A revision may only be sealed by a preflight, which no page shows for review.
LEMMA SealStep == ASSUME ConsoleInv, Seal PROVE ConsoleInv'
  <1>1. /\ UNCHANGED <<state, retryable, operation, used, late, page, evidence>>
        /\ revision' = revision + 1 /\ state[Selected] = "PREFLIGHTING"
    BY DEF Seal
  <1>2. Typed'
    BY <1>1 DEF ConsoleInv, Typed
  <1>3. KeysOld'
    BY <1>1 DEF ConsoleInv, KeysOld
  <1>4. EvidenceBetween'
    BY <1>1 DEF ConsoleInv, Typed, View, EvidenceBetween, Answered
  <1>5. ReviewFinal'
    BY <1>1 DEF ConsoleInv, ReviewFinal
  <1> QED
    BY <1>2, <1>3, <1>4, <1>5 DEF ConsoleInv

\* The worker ends or fails what it was doing.
LEMMA WorkerStep == ASSUME ConsoleInv, Finish \/ Fail PROVE ConsoleInv'
  <1>0. Selected \in Documents
    BY DocumentsAssumption DEF Documents
  <1>1. CASE Finish
    <2>1. PICK s \in {"REVIEW_REQUIRED", "READY", "DELETED"} : Become(Selected, s)
      BY <1>1 DEF Finish, Working
    <2>2. s \in States /\ UNCHANGED <<revision, retryable, operation, used, late>>
      BY <1>1 DEF Finish, States
    <2>3. UNCHANGED <<page, evidence>> /\ state' \in [Documents -> States] /\ state'[Selected] = s
      BY <1>0, <2>1, <2>2, BecomeRow DEF ConsoleInv
    <2> QED
      BY <2>1, <2>2, <2>3, ServiceStep DEF ConsoleInv, Typed, KeysOld
  <1>2. CASE Fail
    <2> DEFINE s == FailedFrom[state[Selected]]
    <2>1. /\ Become(Selected, s) /\ retryable' \in BOOLEAN
          /\ UNCHANGED <<revision, operation, used, late>>
      BY <1>2 DEF Fail
    <2>2. s \in States /\ (s = "PREFLIGHT_FAILED" => state[Selected] = "PREFLIGHTING")
          /\ s \notin {"ABSENT", "PREFLIGHTING"}
      BY <1>2 DEF Fail, Working, FailedFrom, States
    <2>3. UNCHANGED <<page, evidence>> /\ state' \in [Documents -> States] /\ state'[Selected] = s
      BY <1>0, <2>1, <2>2, BecomeRow DEF ConsoleInv
    <2> QED
      BY <2>1, <2>2, <2>3, ServiceStep DEF ConsoleInv, Typed, KeysOld
  <1> QED
    BY <1>1, <1>2

\* A request that is accepted and does not start a preflight.
LEMMA AcceptStep ==
    ASSUME ConsoleInv, NEW s \in {"PUBLISHING", "DELETING"}, Accept(s),
           retryable' \in BOOLEAN, UNCHANGED <<used, late>>
    PROVE  ConsoleInv'
  <1>1. Become(Selected, s) /\ operation' = operation + 1 /\ revision' = revision
    BY DEF Accept
  <1>2. s \in States /\ Selected \in Documents
    BY DocumentsAssumption DEF States, Documents
  <1>3. UNCHANGED <<page, evidence>> /\ state' \in [Documents -> States] /\ state'[Selected] = s
    BY <1>1, <1>2, BecomeRow DEF ConsoleInv
  <1>4. /\ operation' \in Nat /\ operation <= operation'
        /\ \A k \in used' : k \in Nat /\ k < operation'
        /\ \A k \in late' : k \in Nat /\ k <= operation'
    BY <1>1 DEF ConsoleInv, Typed, KeysOld
  <1> QED
    BY <1>1, <1>3, <1>4, ServiceStep

\* A deletion or a decision, whoever asked for it.
LEMMA RequestStep ==
    ASSUME ConsoleInv, RequestDeletion \/ \E action \in Decisions : RecordDecision(action)
    PROVE  ConsoleInv'
  <1>1. CASE RequestDeletion
    BY <1>1, AcceptStep DEF RequestDeletion
  <1>2. CASE \E action \in Decisions : RecordDecision(action)
    <2>1. PICK s \in {"PUBLISHING", "DELETING"} : Accept(s)
      BY <1>2 DEF RecordDecision
    <2>2. retryable' \in BOOLEAN /\ UNCHANGED <<used, late>>
      BY <1>2 DEF RecordDecision, ConsoleInv, Typed
    <2> QED
      BY <2>1, <2>2, AcceptStep
  <1> QED
    BY <1>1, <1>2

\* A retry that is taken starts a newer operation; a preflight only after a preflight.
LEMMA RetriedStep ==
    ASSUME ConsoleInv, Retried, state[Selected] \in Failed,
           \A k \in used' : k \in Nat /\ k <= operation,
           \A k \in late' : k \in Nat /\ k <= operation
    PROVE  ConsoleInv'
  <1> DEFINE s == CHOOSE s \in Working : FailedFrom[s] = state[Selected]
  <1>1. s \in Working /\ FailedFrom[s] = state[Selected]
    <2>1. \E t \in Working : FailedFrom[t] = state[Selected]
      BY DEF Failed
    <2> QED
      BY <2>1
  <1>2. Accept(s) /\ retryable' = FALSE
    BY DEF Retried
  <1> HIDE DEF s
  <1>3. s \in States /\ Selected \in Documents
        /\ (s = "PREFLIGHTING" => state[Selected] = "PREFLIGHT_FAILED") /\ s # "PREFLIGHT_FAILED"
        /\ s # "ABSENT"
    <2>1. s \in {"PREFLIGHTING", "PUBLISHING", "DELETING"}
      BY <1>1 DEF Working
    <2>2. s = "PREFLIGHTING" => state[Selected] = "PREFLIGHT_FAILED"
      BY <1>1 DEF FailedFrom
    <2> QED
      BY <2>1, <2>2, DocumentsAssumption DEF States, Documents
  <1>4. Become(Selected, s) /\ operation' = operation + 1 /\ revision' = revision
    BY <1>2 DEF Accept
  <1>5. UNCHANGED <<page, evidence>> /\ state' \in [Documents -> States] /\ state'[Selected] = s
    BY <1>3, <1>4, BecomeRow DEF ConsoleInv
  <1>6. /\ operation' \in Nat /\ operation <= operation'
        /\ \A k \in used' : k \in Nat /\ k < operation'
        /\ \A k \in late' : k \in Nat /\ k <= operation'
    BY <1>4 DEF ConsoleInv, Typed
  <1>7. state'[Selected] \in {"ABSENT", "PREFLIGHTING", "PREFLIGHT_FAILED"} =>
            state[Selected] \in {"ABSENT", "PREFLIGHTING", "PREFLIGHT_FAILED"}
    BY <1>3, <1>5
  <1> QED
    BY <1>2, <1>4, <1>5, <1>6, <1>7, ServiceStep

\* A retry request under a key that is not of the future.
LEMMA HandleRetryStep ==
    ASSUME ConsoleInv, NEW key \in Nat, key <= operation, HandleRetry(key),
           \A k \in late' : k \in Nat /\ k <= operation
    PROVE  ConsoleInv'
  <1>1. CASE state[Selected] \in Failed /\ retryable /\ key \notin used
    <2>1. used' = used \cup {key} /\ Retried
      BY <1>1 DEF HandleRetry
    <2>2. \A k \in used' : k \in Nat /\ k <= operation
      BY <2>1 DEF ConsoleInv, Typed, KeysOld
    <2> QED
      BY <1>1, <2>1, <2>2, RetriedStep
  <1>2. CASE ~(state[Selected] \in Failed /\ retryable /\ key \notin used)
    <2>1. /\ used' = used
          /\ UNCHANGED <<state, retryable, revision, operation, page, evidence>>
      BY <1>2 DEF HandleRetry, Ignore
    <2> QED
      BY <2>1, ServiceStep DEF ConsoleInv, Typed, KeysOld
  <1> QED
    BY <1>1, <1>2

\* Other operators and the worker.
LEMMA ServeStep == ASSUME ConsoleInv, Serve PROVE ConsoleInv'
  <1>1. CASE \E d \in Documents, s \in {"PREFLIGHTING", "REVIEW_REQUIRED", "DELETED"} : Move(d, s)
    BY <1>1, MoveStep
  <1>2. CASE \E s \in {"PUBLISHING", "DELETING"} : FinishPreflight(s)
    <2>1. PICK s \in {"PUBLISHING", "DELETING"} : FinishPreflight(s)
      BY <1>2
    <2> QED
      BY <2>1, AcceptStep DEF FinishPreflight, ConsoleInv, Typed
  <1>3. CASE Seal
    BY <1>3, SealStep
  <1>4. CASE Finish \/ Fail
    BY <1>4, WorkerStep
  <1>5. CASE OtherRetry
    BY <1>5, RetriedStep DEF OtherRetry, ConsoleInv, Typed, KeysOld
  <1>6. CASE DeliverLate
    <2>1. PICK key \in late : late' = late \ {key} /\ HandleRetry(key)
      BY <1>6 DEF DeliverLate
    <2> QED
      BY <2>1, HandleRetryStep DEF ConsoleInv, KeysOld
  <1>7. CASE OtherOperator
    BY <1>7, RequestStep DEF OtherOperator
  <1> QED
    BY <1>1, <1>2, <1>3, <1>4, <1>5, <1>6, <1>7 DEF Serve

-----------------------------------------------------------------------------
\* The document is read: the session keeps its evidence only for the same revision.
LEMMA ReadDocumentStep == ASSUME ConsoleInv, ReadDocument PROVE ConsoleInv'
  <1>1. UNCHANGED <<state, retryable, revision, operation, used, late>>
    BY DEF ReadDocument, service
  <1>2. page' = [state |-> state[Selected], retryable |-> retryable, revision |-> revision,
                 operation |-> operation, read |-> TRUE]
    BY DEF ReadDocument
  <1>3. /\ page'.state = state[Selected] /\ page'.revision = revision
        /\ page'.operation = operation
    BY <1>2
  <1>4. state[Selected] \in States
    BY DocumentsAssumption DEF ConsoleInv, Typed, Documents
  <1>5. page' \in View
    BY <1>2, <1>4 DEF ConsoleInv, Typed, View
  <1>6. CASE evidence.scope = revision
    <2>1. evidence' = evidence
      BY <1>6 DEF ReadDocument
    <2>2. Typed'
      BY <1>1, <1>5, <2>1 DEF ConsoleInv, Typed
    <2>3. KeysOld'
      BY <1>1, <1>3 DEF ConsoleInv, Typed, KeysOld
    <2>4. EvidenceBetween'
      BY <1>1, <1>3, <1>6, <2>1 DEF ConsoleInv, Typed, EvidenceBetween, Answered
    <2>5. ReviewFinal'
      BY <1>1, <1>3 DEF ReviewFinal
    <2> QED
      BY <2>2, <2>3, <2>4, <2>5 DEF ConsoleInv
  <1>7. CASE evidence.scope # revision
    <2>1. evidence' = [NoEvidence EXCEPT !.scope = revision]
      BY <1>7 DEF ReadDocument
    <2>2. evidence' = [scope |-> revision, stack |-> <<None>>, pages |-> <<>>, next |-> None]
      BY <2>1 DEF NoEvidence
    <2>3. evidence'.scope = revision /\ evidence'.pages = <<>>
      BY <2>2
    <2>4. evidence' \in Session({None})
      BY <2>2 DEF Session, ConsoleInv, Typed
    <2>5. Typed'
      BY <1>1, <1>5, <2>4 DEF ConsoleInv, Typed
    <2>6. KeysOld'
      BY <1>1, <1>3 DEF ConsoleInv, Typed, KeysOld
    <2>7. EvidenceBetween'
      <3>1. Answered' = {}
        BY <2>3 DEF Answered
      <3> QED
        BY <1>1, <1>3, <2>3, <3>1 DEF ConsoleInv, Typed, EvidenceBetween
    <2>8. ReviewFinal'
      BY <1>1, <1>3 DEF ReviewFinal
    <2> QED
      BY <2>5, <2>6, <2>7, <2>8 DEF ConsoleInv
  <1> QED
    BY <1>6, <1>7

\* A page of evidence is added, or the pages are cut back, for the document as it was read.
LEMMA EvidenceStep ==
    ASSUME ConsoleInv, UNCHANGED <<state, retryable, revision, operation, used, late>>,
           page' \in View, page'.state = page.state, page'.revision = page.revision,
           page'.operation = page.operation,
           NEW S, evidence' \in Session(S), evidence'.scope = evidence.scope,
           \A i \in Answered' : \/ i \in Answered /\ evidence'.pages[i] = evidence.pages[i]
                                \/ \A c \in evidence'.pages[i] : c.revision = revision
    PROVE  ConsoleInv'
  <1>1. Typed'
    BY DEF ConsoleInv, Typed
  <1>2. KeysOld'
    BY DEF ConsoleInv, KeysOld
  <1>3. EvidenceBetween'
    BY DEF ConsoleInv, Typed, View, EvidenceBetween
  <1>4. ReviewFinal'
    BY DEF ConsoleInv, ReviewFinal
  <1> QED
    BY <1>1, <1>2, <1>3, <1>4 DEF ConsoleInv

\* The evidence of a second read is of the service's newest revision.
LEMMA ReadEvidenceStep == ASSUME ConsoleInv, ReadEvidence PROVE ConsoleInv'
  <1> DEFINE cursor == Last(evidence.stack)
  <1>1. UNCHANGED <<state, retryable, revision, operation, used, late, page>>
    BY DEF ReadEvidence, service
  <1>2. PICK S : evidence \in Session(S)
    BY DEF ConsoleInv, Typed
  <1>3. PICK items, next :
            /\ evidence' = [evidence EXCEPT !.pages = Append(@, items), !.next = next]
            /\ items = None \/ items = Preflight(cursor).items
    BY DEF ReadEvidence
  <1>4. items = None \/ \A c \in items : c.revision = revision
    <2> DEFINE start == CandidateStart(cursor)
               end   == Min({start + Limit, Candidates[revision]})
               rows  == {[revision |-> revision, rank |-> k] : k \in start + 1 .. end}
               rest  == IF end < Candidates[revision] /\ start < end
                        THEN [revision |-> revision, rank |-> end] ELSE None
    <2>1. Preflight(cursor) = [items |-> rows, next |-> rest]
      BY Zenon DEF Preflight
    <2>2. \A c \in rows : c.revision = revision
      <3> HIDE DEF end, start
      <3> QED
        OBVIOUS
    <2> HIDE DEF rows, rest, cursor
    <2>3. items = None \/ items = rows
      BY <1>3, <2>1
    <2> QED
      BY <2>2, <2>3
  <1>5. /\ evidence'.pages = Append(evidence.pages, items)
        /\ evidence'.scope = evidence.scope
        /\ evidence' \in Session(S \cup {items, next})
    <2>1. /\ evidence.scope \in Nat /\ evidence.stack \in Seq(S) /\ evidence.pages \in Seq(S)
      BY <1>2 DEF Session
    <2>2. /\ evidence.stack \in Seq(S \cup {items, next})
          /\ Append(evidence.pages, items) \in Seq(S \cup {items, next})
      BY <2>1
    <2>3. evidence' = [scope |-> evidence.scope, stack |-> evidence.stack,
                       pages |-> Append(evidence.pages, items), next |-> next]
      BY <1>2, <1>3 DEF Session
    <2> QED
      BY <2>1, <2>2, <2>3 DEF Session
  <1>6. ASSUME NEW i \in Answered'
        PROVE  \/ i \in Answered /\ evidence'.pages[i] = evidence.pages[i]
               \/ \A c \in evidence'.pages[i] : c.revision = revision
    <2>1. evidence.pages \in Seq(S)
      BY <1>2 DEF Session
    <2>2. i \in 1 .. Len(evidence.pages) + 1 /\ evidence'.pages[i] # None
      BY <1>5, <1>6, <2>1 DEF Answered
    <2> QED
      BY <1>4, <1>5, <2>1, <2>2 DEF Answered
  <1>7. page' \in View
    BY <1>1 DEF ConsoleInv, Typed
  <1> QED
    BY <1>1, <1>5, <1>6, <1>7, EvidenceStep

\* Front cuts the last element off.
LEMMA FrontCut ==
    ASSUME NEW S, NEW s \in Seq(S)
    PROVE  /\ Front(s) \in Seq(S) /\ Len(Front(s)) <= Len(s)
           /\ \A i \in 1 .. Len(Front(s)) : Front(s)[i] = s[i]
  <1>1. CASE s = <<>>
    <2>1. Front(s) = s
      BY <1>1 DEF Front
    <2>2. Len(s) <= Len(s)
      OBVIOUS
    <2> QED
      BY Zenon, <2>1, <2>2
  <1>2. CASE s # <<>>
    BY <1>2 DEF Front
  <1> QED
    BY <1>1, <1>2

\* The script runs again on pages that are left as they are or cut back.
LEMMA ReopenStep ==
    ASSUME ConsoleInv, UNCHANGED <<state, retryable, revision, operation, used, late>>,
           NEW S, evidence \in Session(S), NEW stack \in Seq(S), NEW pages \in Seq(S),
           Len(pages) <= Len(evidence.pages),
           \A i \in 1 .. Len(pages) : pages[i] = evidence.pages[i],
           Reopen(stack, pages)
    PROVE  ConsoleInv'
  <1> DEFINE T == S \cup {None}
  <1>1. evidence.pages \in Seq(S) /\ evidence.scope \in Nat
    BY DEF Session
  <1>2. pages \in Seq(T) /\ stack \in Seq(T)
    OBVIOUS
  <1>3. evidence' = [scope |-> evidence.scope, stack |-> stack, pages |-> pages, next |-> None]
    BY DEF Reopen, Session
  <1>4. evidence'.pages = pages /\ evidence'.scope = evidence.scope
    BY <1>3
  <1>5. evidence' \in Session(T)
    BY <1>1, <1>2, <1>3 DEF Session
  <1>6. page' = [page EXCEPT !.read = FALSE] /\ page \in View
    BY DEF Reopen, ConsoleInv, Typed
  <1>7. /\ page' \in View /\ page'.state = page.state /\ page'.revision = page.revision
        /\ page'.operation = page.operation
    BY <1>6 DEF View
  <1>8. \A i \in Answered' : i \in Answered /\ evidence'.pages[i] = evidence.pages[i]
    BY <1>1, <1>4 DEF Answered
  <1> HIDE DEF T
  <1> QED
    BY <1>4, <1>5, <1>7, <1>8, EvidenceStep

\* The pages of candidates, and a page that is read again.
LEMMA PagingStep ==
    ASSUME ConsoleInv, Refresh \/ NextCandidates \/ PreviousCandidates
    PROVE  ConsoleInv'
  <1>1. UNCHANGED <<state, retryable, revision, operation, used, late>>
    BY DEF Refresh, NextCandidates, PreviousCandidates, service
  <1>2. PICK S : evidence \in Session(S)
    BY DEF ConsoleInv, Typed
  <1>3. evidence.pages \in Seq(S) /\ evidence.stack \in Seq(S) /\ evidence.next \in S
    BY <1>2 DEF Session
  <1>4. /\ Len(evidence.pages) <= Len(evidence.pages)
        /\ \A i \in 1 .. Len(evidence.pages) : evidence.pages[i] = evidence.pages[i]
    BY <1>3
  <1> DEFINE front == Front(evidence.pages)
  <1>5. /\ front \in Seq(S) /\ Len(front) <= Len(evidence.pages)
        /\ \A i \in 1 .. Len(front) : front[i] = evidence.pages[i]
    BY <1>3, FrontCut
  <1>6. CASE Refresh
    <2>1. CASE Shown
      <3>1. Reopen(evidence.stack, front)
        BY <1>6, <2>1 DEF Refresh
      <3> HIDE DEF front
      <3> QED
        BY <1>1, <1>2, <1>3, <1>5, <3>1, ReopenStep
    <2>2. CASE ~Shown
      <3>1. Reopen(evidence.stack, evidence.pages)
        BY <1>6, <2>2 DEF Refresh
      <3> QED
        BY <1>1, <1>2, <1>3, <1>4, <3>1, ReopenStep
    <2> QED
      BY <2>1, <2>2
  <1>7. CASE NextCandidates
    <2>1. Append(evidence.stack, evidence.next) \in Seq(S)
      BY <1>3
    <2>2. Reopen(Append(evidence.stack, evidence.next), evidence.pages)
      BY <1>7 DEF NextCandidates
    <2> QED
      BY <1>1, <1>2, <1>3, <1>4, <2>1, <2>2, ReopenStep
  <1>8. CASE PreviousCandidates
    <2> DEFINE stack == Front(evidence.stack)
               back  == Front(front)
    <2>1. Reopen(stack, back)
      BY <1>8 DEF PreviousCandidates
    <2>2. stack \in Seq(S)
      BY <1>3, FrontCut
    <2>3. /\ back \in Seq(S) /\ Len(back) <= Len(front)
          /\ \A i \in 1 .. Len(back) : back[i] = front[i]
      <3> HIDE DEF front
      <3> QED
        BY <1>5, FrontCut
    <2> HIDE DEF front, back, stack
    <2>4. /\ Len(back) <= Len(evidence.pages)
          /\ \A i \in 1 .. Len(back) : back[i] = evidence.pages[i]
      BY <1>3, <1>5, <2>3
    <2> QED
      BY <1>1, <1>2, <2>1, <2>2, <2>3, <2>4, ReopenStep
  <1> QED
    BY <1>6, <1>7, <1>8

\* The buttons: they carry what the page said, which is not of the future.
LEMMA ButtonStep ==
    ASSUME ConsoleInv,
           \/ \E action \in Decisions : Decide(action)
           \/ Delete \/ Retry \/ RetryTimesOut
    PROVE  ConsoleInv'
  <1>0. RetryKey(page) \in Nat /\ RetryKey(page) <= operation
    BY DEF RetryKey, ConsoleInv, Typed, View, KeysOld
  <1>1. CASE \E action \in Decisions : Decide(action)
    BY <1>1, RequestStep DEF Decide
  <1>2. CASE Delete
    BY <1>2, RequestStep DEF Delete
  <1>3. CASE Retry
    BY <1>0, <1>3, HandleRetryStep DEF Retry, ConsoleInv, KeysOld
  <1>4. CASE RetryTimesOut
    <2>1. /\ UNCHANGED <<state, retryable, revision, operation, used, page, evidence>>
          /\ late' = late \cup {RetryKey(page)}
      BY <1>4 DEF RetryTimesOut, Ignore
    <2>2. \A k \in late' : k \in Nat /\ k <= operation
      BY <1>0, <2>1 DEF ConsoleInv, KeysOld
    <2> QED
      BY <2>1, <2>2, ServiceStep DEF ConsoleInv, Typed, KeysOld
  <1> QED
    BY <1>1, <1>2, <1>3, <1>4

\* Every step of the service and of the session keeps the invariant.
LEMMA ConsoleNext == ASSUME ConsoleInv, [Next]_vars PROVE ConsoleInv'
  <1>1. CASE Serve
    BY <1>1, ServeStep
  <1>2. CASE Inspect
    BY <1>2, ReadDocumentStep, ReadEvidenceStep, PagingStep, ButtonStep DEF Inspect
  <1>3. CASE Browse
    <2>1. UNCHANGED <<service, page, evidence>>
      BY <1>3 DEF Browse, ReadList, Rerun, NextPage, PreviousPage, ChangeScope
    <2> QED
      BY <2>1, ConsoleStutter DEF service
  <1>4. CASE UNCHANGED vars
    BY <1>4, ConsoleStutter DEF vars, service
  <1> QED
    BY <1>1, <1>2, <1>3, <1>4 DEF Next

-----------------------------------------------------------------------------
\* The invariant holds throughout.
LEMMA ConsoleInvariant == Spec => []ConsoleInv
  BY ConsoleInit, ConsoleNext, PTL DEF Spec

\* A retry that is offered and still possible is never answered from an earlier one:
\* a completed key is that of an operation that gave way to a newer one (_retry).
THEOREM RetriesHeard == Spec => []RetryNotSwallowed
  <1>1. ASSUME ConsoleInv PROVE RetryNotSwallowed
    BY <1>1 DEF ConsoleInv, Typed, View, KeysOld, RetryNotSwallowed, RetryKey
  <1> QED
    BY <1>1, ConsoleInvariant, PTL

-----------------------------------------------------------------------------
(* Walking through a list. *)

\* The pages that were read are those under the cursors of the stack, the last
\* one of which may still be to read.
ListTyped ==
    /\ list = [scope |-> list.scope, stack |-> list.stack, pages |-> list.pages, next |-> list.next]
    /\ list.stack \in Seq(Nat \cup {None}) /\ list.pages \in Seq(SUBSET Nat)
    /\ list.next \in Nat \cup {None}
    /\ Len(list.stack) > 0
    /\ Len(list.pages) = Len(list.stack) \/ Len(list.pages) = Len(list.stack) - 1
    /\ history \in Seq(Nat)

\* Cursors descend, and each parts the pages before it from those after it.
Descending ==
    /\ list.stack[1] = None
    /\ \A i \in 2 .. Len(list.stack) : list.stack[i] \in Nat
    /\ \A i, j \in 2 .. Len(list.stack) : i < j => list.stack[j] < list.stack[i]
    /\ \A i \in DOMAIN list.pages : i > 1 => \A r \in list.pages[i] : r < list.stack[i]
    /\ \A i \in DOMAIN list.pages, j \in 2 .. Len(list.stack) :
        i < j => \A r \in list.pages[i] : list.stack[j] <= r
    /\ list.next # None =>
        /\ ~Reading
        /\ \A i \in 2 .. Len(list.stack) : list.next < list.stack[i]
        /\ \A i \in DOMAIN list.pages : \A r \in list.pages[i] : list.next <= r

\* A row that was there all along is on a page before the cursor or comes after it,
\* for every cursor of the stack and for the next one.
StillToCome ==
    /\ steady \subseteq Rows(list.scope)
    /\ \A i \in 2 .. Len(list.stack) : \A r \in steady :
        r < list.stack[i] \/ \E j \in 1 .. i - 1 : r \in list.pages[j]
    /\ ~Reading => \A r \in steady :
        \/ list.next # None /\ r < list.next
        \/ \E j \in DOMAIN list.pages : r \in list.pages[j]

WalkInv == ListTyped /\ Descending /\ StillToCome

\* A set of numbers that is not empty has a least one.
LEMMA LeastMember ==
    ASSUME NEW S \in SUBSET Nat, S # {}
    PROVE  \E x \in S : \A y \in S : x <= y
  <1>1. \E x \in S : \A y \in S : <<y, x>> \notin OpToRel(<, Nat)
    BY NatLessThanWellFounded, WFMin
  <1>2. PICK x \in S : \A y \in S : <<y, x>> \notin OpToRel(<, Nat)
    BY <1>1
  <1>3. \A y \in S : x <= y
    <2> TAKE y \in S
    <2>1. x \in Nat /\ y \in Nat
      OBVIOUS
    <2>2. ~(y < x)
      BY <1>2, <2>1 DEF OpToRel
    <2> QED
      BY <2>1, <2>2
  <1> QED
    BY <1>3

\* The rows above a row of a finite set are fewer than those above a lower one.
LEMMA RowsAbove ==
    ASSUME NEW rows \in SUBSET Nat, IsFiniteSet(rows), NEW r \in rows, NEW t \in rows, t < r
    PROVE  /\ Cardinality({s \in rows : s > r}) < Cardinality({s \in rows : s > t})
           /\ Cardinality({s \in rows : s > t}) < Cardinality(rows)
  <1> DEFINE high == {s \in rows : s > r}
             low  == {s \in rows : s > t}
  <1>1. high \in SUBSET low /\ low \in SUBSET rows
    <2>1. \A s \in rows : s > r => s > t
      OBVIOUS
    <2> QED
      BY <2>1
  <1>2. r \in low /\ r \notin high /\ t \notin low
    <2>1. r \in Nat /\ t \in Nat
      OBVIOUS
    <2> QED
      BY <2>1
  <1>3. IsFiniteSet(low) /\ IsFiniteSet(high)
    BY <1>1, FS_Subset
  <1>4. /\ Cardinality(high) \in Nat /\ Cardinality(low) \in Nat /\ Cardinality(rows) \in Nat
    BY <1>3, FS_CardinalityType
  <1>5. Cardinality(high) <= Cardinality(low) /\ Cardinality(high) # Cardinality(low)
    <2> HIDE DEF high, low
    <2> QED
      BY <1>1, <1>2, <1>3, FS_Subset
  <1>6. Cardinality(low) <= Cardinality(rows) /\ Cardinality(low) # Cardinality(rows)
    <2> HIDE DEF high, low
    <2> QED
      BY <1>1, <1>2, FS_Subset
  <1> QED
    BY <1>4, <1>5, <1>6

\* What list_documents and list_history answer: rows of the rest, a cursor that is
\* their last row, and every other row of the rest after that cursor.
LEMMA KeysetPage ==
    ASSUME NEW n \in Nat, NEW rest \in SUBSET (1 .. n)
    PROVE  /\ Newest(rest) \subseteq rest
           /\ NextCursor(rest) # None =>
                /\ NextCursor(rest) \in Newest(rest)
                /\ \A r \in Newest(rest) : NextCursor(rest) <= r
           /\ \A r \in rest : r \in Newest(rest) \/ (NextCursor(rest) # None /\ r < NextCursor(rest))
  <1> DEFINE above(r) == {s \in rest : s > r}
             newest     == Newest(rest)
  <1>0. rest \in SUBSET Nat /\ IsFiniteSet(rest)
    <2>1. IsFiniteSet(1 .. n)
      BY FS_Interval
    <2>2. IsFiniteSet(rest)
      BY <2>1, FS_Subset
    <2> QED
      BY <2>2
  <1>1. newest \subseteq rest /\ newest \in SUBSET Nat
    BY <1>0 DEF Newest
  <1>2. \A r \in rest : IsFiniteSet(above(r)) /\ Cardinality(above(r)) \in Nat
    <2> TAKE r \in rest
    <2>1. above(r) \in SUBSET rest
      OBVIOUS
    <2> QED
      BY <1>0, <2>1, FS_Subset, FS_CardinalityType
  <1>3. Cardinality(rest) \in Nat
    BY <1>0, FS_CardinalityType
  <1>4. ASSUME NEW r \in rest, r \notin newest
        PROVE  Cardinality(rest) > Limit /\ newest # {} /\ \A t \in newest : r < t
    <2>1. Cardinality(above(r)) >= Limit
      BY <1>2, <1>4, DocumentsAssumption DEF Newest
    <2>2. Cardinality(rest) > Cardinality(above(r))
      <3>1. above(r) \in SUBSET rest /\ r \notin above(r)
        OBVIOUS
      <3> HIDE DEF above
      <3> QED
        BY <1>0, <1>2, <1>3, <3>1, FS_Subset
    <2>3. \A t \in newest : r < t
      <3> TAKE t \in newest
      <3>1. t \in rest /\ t \in Nat /\ r \in Nat /\ t # r
        BY <1>0, <1>1, <1>4
      <3>2. Cardinality(above(t)) < Limit
        BY DEF Newest
      <3>3. CASE t < r
        <4>1. Cardinality(above(r)) < Cardinality(above(t))
          BY <1>0, <3>1, <3>3, RowsAbove
        <4> QED
          BY <1>2, <2>1, <3>1, <3>2, <4>1, DocumentsAssumption
      <3> QED
        BY <3>1, <3>3
    <2>4. newest # {}
      <3>1. PICK m \in rest : \A s \in rest : s <= m
        <4> DEFINE mirror == {n - s : s \in rest}
        <4>2. mirror \in SUBSET Nat /\ mirror # {}
          BY <1>4
        <4>3. PICK x \in mirror : \A y \in mirror : x <= y
          BY <4>2, LeastMember
        <4>4. PICK m \in rest : x = n - m
          BY <4>3
        <4>5. \A s \in rest : n - m <= n - s
          BY <4>3, <4>4
        <4> QED
          BY <4>4, <4>5
      <3>2. above(m) = {}
        <4>1. \A s \in rest : ~(s > m)
          BY <1>0, <3>1
        <4> QED
          BY <4>1
      <3>3. Cardinality(above(m)) = 0
        BY <3>2, FS_EmptySet
      <3> QED
        BY <3>1, <3>3, DocumentsAssumption DEF Newest
    <2> QED
      BY <1>2, <1>3, <2>1, <2>2, <2>3, <2>4, DocumentsAssumption
  <1>5. ASSUME newest # {} PROVE Min(newest) \in newest /\ \A r \in newest : Min(newest) <= r
    <2> HIDE DEF newest
    <2>1. \E x \in newest : \A y \in newest : x <= y
      BY <1>1, <1>5, LeastMember
    <2> QED
      BY <2>1 DEF Min
  <1>6. NextCursor(rest) = IF Cardinality(rest) > Limit THEN Min(newest) ELSE None
    BY DEF NextCursor
  <1>7. ASSUME Cardinality(rest) > Limit PROVE newest # {}
    <2>1. rest # {}
      BY <1>0, <1>3, <1>7, FS_EmptySet, DocumentsAssumption
    <2> QED
      BY <1>4, <2>1
  <1>8. None \notin Nat
    BY NoneAssumption
  <1> HIDE DEF newest, above
  <1>9. /\ newest \subseteq rest
        /\ NextCursor(rest) # None =>
                NextCursor(rest) \in newest /\ \A r \in newest : NextCursor(rest) <= r
        /\ \A r \in rest : r \in newest \/ (NextCursor(rest) # None /\ r < NextCursor(rest))
    <2>1. CASE Cardinality(rest) > Limit
      BY <1>0, <1>1, <1>4, <1>5, <1>6, <1>7, <1>8, <2>1
    <2>2. CASE ~(Cardinality(rest) > Limit)
      BY <1>1, <1>4, <1>6, <2>2
    <2> QED
      BY <2>1, <2>2
  <1> QED
    BY <1>9 DEF newest

\* A list is opened at its first page, with nothing read.
LEMMA FirstPageWalk ==
    ASSUME NEW scope, list' = FirstPage(scope), steady' = {}, history' \in Seq(Nat)
    PROVE  WalkInv'
  <1>1. list' = [scope |-> scope, stack |-> <<None>>, pages |-> <<>>, next |-> None]
    BY DEF FirstPage
  <1>2. list'.stack = <<None>> /\ list'.pages = <<>> /\ list'.next = None /\ list'.scope = scope
    BY <1>1
  <1>3. ListTyped'
    BY <1>1, <1>2 DEF ListTyped
  <1> QED
    BY <1>2, <1>3 DEF WalkInv, Descending, StillToCome, Reading

\* Nothing is listed at the start.
LEMMA WalkInit == Init => WalkInv
  <1> SUFFICES ASSUME Init PROVE WalkInv
    OBVIOUS
  <1>0. PICK scope : list = FirstPage(scope)
    BY Zenon DEF Init
  <1>1. list = [scope |-> scope, stack |-> <<None>>, pages |-> <<>>, next |-> None]
    BY <1>0 DEF FirstPage
  <1>2. steady = {} /\ history = <<>>
    BY Zenon DEF Init
  <1>3. list.stack = <<None>> /\ list.pages = <<>> /\ list.next = None /\ list.scope = scope
    BY <1>1
  <1>4. ListTyped
    BY <1>1, <1>2, <1>3 DEF ListTyped
  <1> QED
    BY <1>2, <1>3, <1>4 DEF WalkInv, Descending, StillToCome, Reading

\* While the list is left alone, rows that leave it only shorten what is to come.
LEMMA ListKept ==
    ASSUME WalkInv, UNCHANGED list, history' \in Seq(Nat),
           steady' \subseteq steady, steady' \subseteq Rows(list.scope)'
    PROVE  WalkInv'
  <1>1. ListTyped' /\ Descending'
    BY DEF WalkInv, ListTyped, Descending, Reading
  <1>2. StillToCome'
    BY DEF WalkInv, StillToCome, Reading
  <1> QED
    BY <1>1, <1>2 DEF WalkInv

\* Whatever the service or the page of the document does, a document moves or none.
LEMMA ServiceMoves ==
    ASSUME Serve \/ Inspect
    PROVE  \/ \E d \in Documents : \E s : Become(d, s)
           \/ UNCHANGED <<state, history, screen, list, steady>>
  <1>0. Selected \in Documents
    BY DocumentsAssumption DEF Documents
  <1>1. ASSUME NEW s, Accept(s) PROVE Become(Selected, s)
    BY <1>1 DEF Accept
  <1>2. ASSUME state[Selected] \in Failed, Retried PROVE \E s : Become(Selected, s)
    BY <1>1, <1>2 DEF Retried
  <1>3. ASSUME NEW key, HandleRetry(key)
        PROVE  \/ \E s : Become(Selected, s)
               \/ UNCHANGED <<state, history, screen, list, steady>>
    BY <1>2, <1>3 DEF HandleRetry, Ignore
  <1>4. CASE Serve
    <2>1. CASE \E d \in Documents, s \in {"PREFLIGHTING", "REVIEW_REQUIRED", "DELETED"} : Move(d, s)
      BY <2>1 DEF Move
    <2>2. CASE \E s \in {"PUBLISHING", "DELETING"} : FinishPreflight(s)
      BY <1>0, <1>1, <2>2 DEF FinishPreflight
    <2>3. CASE Seal
      BY <2>3 DEF Seal
    <2>4. CASE Finish
      BY <1>0, <2>4 DEF Finish
    <2>5. CASE Fail
      BY <1>0, <2>5 DEF Fail
    <2>6. CASE OtherRetry
      BY <1>0, <1>2, <2>6 DEF OtherRetry
    <2>7. CASE DeliverLate
      BY <1>0, <1>3, <2>7 DEF DeliverLate
    <2>8. CASE OtherOperator
      BY <1>0, <1>1, <2>8 DEF OtherOperator, RequestDeletion, RecordDecision
    <2> QED
      BY <1>4, <2>1, <2>2, <2>3, <2>4, <2>5, <2>6, <2>7, <2>8 DEF Serve
  <1>5. CASE Inspect
    <2>1. CASE ReadDocument \/ ReadEvidence \/ Refresh \/ NextCandidates \/ PreviousCandidates
      BY <2>1 DEF ReadDocument, ReadEvidence, Refresh, NextCandidates, PreviousCandidates, service
    <2>2. CASE \E action \in Decisions : Decide(action)
      BY <1>0, <1>1, <2>2 DEF Decide, RecordDecision
    <2>3. CASE Delete
      BY <1>0, <1>1, <2>3 DEF Delete, RequestDeletion
    <2>4. CASE Retry
      BY <1>0, <1>3, <2>4 DEF Retry
    <2>5. CASE RetryTimesOut
      BY <2>5 DEF RetryTimesOut, Ignore
    <2> QED
      BY <1>5, <2>1, <2>2, <2>3, <2>4, <2>5 DEF Inspect
  <1> QED
    BY <1>4, <1>5

\* A document that moves leaves the walk as it is.
LEMMA MovesKeepWalk == ASSUME WalkInv, Serve \/ Inspect PROVE WalkInv'
  <1>1. CASE UNCHANGED <<state, history, screen, list, steady>>
    <2>1. Rows(list.scope)' = Rows(list.scope)
      BY <1>1 DEF Rows
    <2> QED
      BY <1>1, <2>1, ListKept DEF WalkInv, ListTyped, StillToCome
  <1>2. CASE \E d \in Documents : \E s : Become(d, s)
    <2>1. PICK d \in Documents : \E s : Become(d, s)
      BY <1>2
    <2>2. history' \in Seq(Nat)
      BY <2>1 DEF Become, WalkInv, ListTyped, Documents
    <2>3. UNCHANGED list /\ steady' \subseteq steady /\ steady' \subseteq Rows(list.scope)'
      BY <2>1 DEF Become
    <2> QED
      BY <2>2, <2>3, ListKept
  <1> QED
    BY <1>1, <1>2, ServiceMoves

\* The rows of a list are numbers up to some bound.
LEMMA RowsBounded ==
    ASSUME ListTyped, NEW scope
    PROVE  \E n \in Nat : Rows(scope) \in SUBSET (1 .. n)
  <1>1. Len(history) \in Nat /\ DOMAIN history = 1 .. Len(history) /\ Count \in Nat
    BY DocumentsAssumption DEF ListTyped
  <1>2. Rows(scope) \in SUBSET (1 .. Len(history)) \/ Rows(scope) \in SUBSET (1 .. Count)
    BY <1>1 DEF Rows, Documents
  <1> QED
    BY <1>1, <1>2

\* A page is read under the last cursor: it has the next rows, and the cursor after it
\* parts them from what is left.
LEMMA ReadListStep == ASSUME WalkInv, ReadList PROVE WalkInv'
  <1> DEFINE rows == Rows(list.scope)
             rest == After(rows, Last(list.stack))
             got  == Newest(rest)
             next == NextCursor(rest)
             n    == Len(list.stack)
  <1>1. /\ list' = [list EXCEPT !.pages = Append(@, got), !.next = next]
        /\ steady' = IF n = 1 THEN rows ELSE steady
        /\ UNCHANGED <<state, history, screen>> /\ Reading
    BY DEF ReadList, service
  <1>2. /\ n \in Nat /\ n > 0 /\ Len(list.pages) = n - 1
        /\ list.stack \in Seq(Nat \cup {None}) /\ list.pages \in Seq(SUBSET Nat)
        /\ Last(list.stack) = list.stack[n]
    BY <1>1 DEF WalkInv, ListTyped, Reading, Last
  <1>3. PICK m \in Nat : rows \in SUBSET (1 .. m)
    BY RowsBounded DEF WalkInv
  <1>4. rest \in SUBSET (1 .. m) /\ rest \subseteq rows
    BY <1>3 DEF After
  <1>5. /\ got \subseteq rest
        /\ next # None => next \in got /\ \A r \in got : next <= r
        /\ \A r \in rest : r \in got \/ (next # None /\ r < next)
    <2> HIDE DEF rest
    <2> QED
      BY <1>4, KeysetPage
  <1>6. /\ n > 1 => \A r \in rest : r < list.stack[n]
        /\ \A r \in rows : n = 1 \/ r < list.stack[n] => r \in rest
    <2>1. n = 1 => list.stack[n] = None
      BY <1>2 DEF WalkInv, Descending
    <2>2. n > 1 => list.stack[n] \in Nat /\ list.stack[n] # None
      BY <1>2, NoneAssumption DEF WalkInv, Descending
    <2> QED
      BY <1>2, <2>1, <2>2 DEF After
  <1>7. Rows(list.scope)' = rows
    <2>1. list'.scope = list.scope
      BY <1>1 DEF WalkInv, ListTyped
    <2> QED
      BY Zenon, <1>1, <2>1 DEF Rows
  <1> HIDE DEF rows, rest, got, next, n
  <1>8. got \subseteq Nat /\ (next # None => next \in Nat)
    <2>1. \A r \in rest : r \in Nat
      BY <1>4
    <2> QED
      BY <1>5, <2>1
  <1>9. /\ list'.stack = list.stack /\ list'.pages = Append(list.pages, got) /\ list'.next = next
        /\ Len(list'.pages) = n /\ DOMAIN list'.pages = 1 .. n /\ list'.pages[n] = got
        /\ \A i \in 1 .. n - 1 : list'.pages[i] = list.pages[i]
        /\ list'.scope = list.scope
    BY <1>1, <1>2, <1>8 DEF WalkInv, ListTyped
  <1>10. ListTyped'
    <2>1. list'.pages \in Seq(SUBSET Nat)
      BY <1>2, <1>8, <1>9
    <2>2. list' = [scope |-> list.scope, stack |-> list.stack, pages |-> list'.pages, next |-> next]
      BY <1>1, <1>9 DEF WalkInv, ListTyped
    <2>3. Len(list'.stack) > 0 /\ Len(list'.pages) = Len(list'.stack)
      BY <1>2, <1>9 DEF n
    <2> QED
      BY <1>1, <1>2, <1>8, <1>9, <2>1, <2>2, <2>3 DEF WalkInv, ListTyped
  <1>11. DOMAIN list.pages = 1 .. n - 1 /\ Len(list.stack) = n
    BY <1>2 DEF n
  <1>12. Descending'
    <2>a. \A i \in 1 .. n - 1 : i > 1 => \A r \in list.pages[i] : r < list.stack[i]
      BY <1>11 DEF WalkInv, Descending
    <2>b. \A i \in 1 .. n - 1, j \in 2 .. n : i < j => \A r \in list.pages[i] : list.stack[j] <= r
      BY <1>11 DEF WalkInv, Descending
    <2>c. \A i \in 1 .. n - 1 : list.pages[i] \subseteq Nat
      BY <1>2, <1>11
    <2>1. ASSUME NEW i \in 1 .. n, i > 1, NEW r \in list'.pages[i] PROVE r < list.stack[i]
      <3>1. CASE i = n
        BY <1>2, <1>5, <1>6, <1>9, <2>1, <3>1
      <3>2. CASE i # n
        BY <1>2, <1>9, <2>1, <2>a, <3>2
      <3> QED
        BY <3>1, <3>2
    <2>2. ASSUME NEW i \in 1 .. n, NEW j \in 2 .. n, i < j, NEW r \in list'.pages[i]
          PROVE  list.stack[j] <= r
      <3>1. i \in 1 .. n - 1
        BY <1>2, <2>2
      <3> QED
        BY <1>9, <2>2, <2>b, <3>1
    <2>3. next # None =>
            /\ \A i \in 2 .. n : next < list.stack[i]
            /\ \A i \in 1 .. n : \A r \in list'.pages[i] : next <= r
      <3> SUFFICES ASSUME next # None
                   PROVE  /\ \A i \in 2 .. n : next < list.stack[i]
                          /\ \A i \in 1 .. n : \A r \in list'.pages[i] : next <= r
        OBVIOUS
      <3>1. next \in Nat /\ next \in rest /\ (n > 1 => next < list.stack[n] /\ list.stack[n] \in Nat)
        BY <1>2, <1>5, <1>6, <1>8, <1>11 DEF WalkInv, Descending
      <3>2. \A i \in 2 .. n : list.stack[i] \in Nat /\ (i < n => list.stack[n] < list.stack[i])
        BY <1>2, <1>11 DEF WalkInv, Descending
      <3>3. \A i \in 2 .. n : next < list.stack[i]
        BY <1>2, <3>1, <3>2
      <3>4. \A i \in 1 .. n - 1 : \A r \in list.pages[i] : r \in Nat /\ list.stack[n] <= r
        BY <1>2, <2>b, <2>c
      <3>5. ASSUME NEW i \in 1 .. n, NEW r \in list'.pages[i] PROVE next <= r
        <4>1. CASE i = n
          BY <1>5, <1>9, <3>1, <3>5, <4>1
        <4>2. CASE i # n
          <5>1. i \in 1 .. n - 1 /\ n > 1
            BY <1>2, <4>2
          <5>2. r \in Nat /\ list.stack[n] <= r
            BY <1>9, <3>4, <3>5, <5>1
          <5> QED
            BY <3>1, <5>1, <5>2
        <4> QED
          BY <4>1, <4>2
      <3> QED
        BY <3>3, <3>5
    <2>4. ~Reading'
      BY <1>2, <1>9, <1>11 DEF Reading
    <2> QED
      BY <1>9, <1>11, <2>1, <2>2, <2>3, <2>4 DEF WalkInv, Descending
  <1>13. StillToCome'
    <2>1. steady' \subseteq rows
      BY <1>1 DEF WalkInv, StillToCome, rows
    <2>2. ASSUME NEW i \in 2 .. n, NEW r \in steady'
          PROVE  r < list.stack[i] \/ \E j \in 1 .. i - 1 : r \in list'.pages[j]
      <3>1. r \in steady
        BY <1>1, <1>2, <2>2
      <3>2. r < list.stack[i] \/ \E j \in 1 .. i - 1 : r \in list.pages[j]
        BY <1>11, <3>1 DEF WalkInv, StillToCome
      <3> QED
        BY <1>2, <1>9, <3>2
    <2>3. ASSUME NEW r \in steady'
          PROVE  (next # None /\ r < next) \/ \E j \in 1 .. n : r \in list'.pages[j]
      <3>1. CASE r \in rest
        BY <1>2, <1>5, <1>9, <3>1
      <3>2. CASE r \notin rest
        <4>1. n > 1 /\ ~(r < list.stack[n])
          BY <1>2, <1>6, <2>1, <3>2
        <4>2. \E j \in 1 .. n - 1 : r \in list'.pages[j]
          BY <1>2, <2>2, <4>1
        <4> QED
          BY <1>2, <4>2
      <3> QED
        BY <3>1, <3>2
    <2> QED
      BY <1>7, <1>9, <1>11, <2>1, <2>2, <2>3 DEF StillToCome
  <1> QED
    BY <1>10, <1>12, <1>13 DEF WalkInv

\* Front takes one element away.
LEMMA FrontShort ==
    ASSUME NEW S, NEW s \in Seq(S), Len(s) > 0
    PROVE  /\ Front(s) \in Seq(S) /\ Len(Front(s)) = Len(s) - 1
           /\ \A i \in 1 .. Len(s) - 1 : Front(s)[i] = s[i]
  <1>1. Len(s) \in Nat /\ Len(s) - 1 \in Nat /\ s # <<>>
    OBVIOUS
  <1>2. Front(s) = SubSeq(s, 1, Len(s) - 1)
    BY DEF Front
  <1>3. /\ SubSeq(s, 1, Len(s) - 1) \in Seq(S) /\ Len(SubSeq(s, 1, Len(s) - 1)) = Len(s) - 1
        /\ \A i \in 1 .. Len(s) - 1 : SubSeq(s, 1, Len(s) - 1)[i] = s[i]
    <2>1. Len(SubSeq(s, 1, Len(s) - 1)) = Len(s) - 1
      <3>1. \A i \in 1 .. Len(s) - 1 : s[i] \in S
        BY <1>1
      <3>2. Len(SubSeq(s, 1, Len(s) - 1)) = IF 1 <= Len(s) - 1 THEN Len(s) - 1 - 1 + 1 ELSE 0
        BY <1>1, <3>1, SubSeqProperties
      <3> DEFINE length == Len(SubSeq(s, 1, Len(s) - 1))
      <3>3. length = IF 1 <= Len(s) - 1 THEN Len(s) - 1 - 1 + 1 ELSE 0
        BY <3>2
      <3> HIDE DEF length
      <3>4. length = Len(s) - 1
        BY <1>1, <3>3
      <3> QED
        BY <3>4 DEF length
    <2>2. \A i \in 1 .. Len(s) - 1 : SubSeq(s, 1, Len(s) - 1)[i] = s[i]
      BY <1>1
    <2>3. SubSeq(s, 1, Len(s) - 1) \in Seq(S)
      BY <1>1
    <2> QED
      BY <2>1, <2>2, <2>3
  <1> QED
    BY <1>2, <1>3

\* Going back or running the script again cuts the walk short, at a cursor it had.
LEMMA CutBack ==
    ASSUME WalkInv, UNCHANGED <<state, history, screen, steady>>,
           NEW stack \in Seq(Nat \cup {None}), NEW pages \in Seq(SUBSET Nat),
           Len(stack) > 0, Len(stack) <= Len(list.stack), Len(pages) = Len(stack) - 1,
           \A i \in 1 .. Len(stack) : stack[i] = list.stack[i],
           \A i \in 1 .. Len(pages) : pages[i] = list.pages[i],
           list' = [list EXCEPT !.stack = stack, !.pages = pages, !.next = None]
    PROVE  WalkInv'
  <1> DEFINE n == Len(stack)
  <1>1. list' = [scope |-> list.scope, stack |-> stack, pages |-> pages, next |-> None]
    BY DEF WalkInv, ListTyped
  <1>2. /\ list'.stack = stack /\ list'.pages = pages /\ list'.next = None
        /\ list'.scope = list.scope
    BY <1>1
  <1>3. ListTyped'
    BY <1>1, <1>2 DEF WalkInv, ListTyped
  <1>4. /\ n \in Nat /\ n > 0 /\ Len(list.stack) \in Nat /\ n <= Len(list.stack)
        /\ DOMAIN pages = 1 .. n - 1 /\ Reading'
        /\ DOMAIN list.pages = 1 .. Len(list.pages) /\ n - 1 <= Len(list.pages)
    BY <1>2 DEF Reading, WalkInv, ListTyped
  <1>5. /\ \A i \in 1 .. n : i \in DOMAIN list.stack /\ stack[i] = list.stack[i]
        /\ \A i \in 2 .. n : i \in 2 .. Len(list.stack) /\ i \in 1 .. n
        /\ \A i \in 1 .. n - 1 : i \in DOMAIN list.pages /\ pages[i] = list.pages[i] /\ i \in 1 .. n
    BY <1>4 DEF WalkInv, ListTyped
  <1>6. Descending'
    <2>1. stack[1] = None
      BY <1>4, <1>5 DEF WalkInv, Descending
    <2>2. \A i \in 2 .. n : stack[i] \in Nat
      BY <1>5 DEF WalkInv, Descending
    <2>3. \A i, j \in 2 .. n : i < j => stack[j] < stack[i]
      BY <1>5 DEF WalkInv, Descending
    <2>4. \A i \in 1 .. n - 1 : i > 1 => \A r \in pages[i] : r < stack[i]
      BY <1>5 DEF WalkInv, Descending
    <2>5. \A i \in 1 .. n - 1, j \in 2 .. n : i < j => \A r \in pages[i] : stack[j] <= r
      BY <1>5 DEF WalkInv, Descending
    <2> QED
      BY <1>2, <1>4, <2>1, <2>2, <2>3, <2>4, <2>5 DEF Descending
  <1>7. StillToCome'
    <2>1. Rows(list.scope)' = Rows(list.scope)
      BY Zenon, <1>2 DEF Rows
    <2>2. ASSUME NEW i \in 2 .. n, NEW r \in steady
          PROVE  r < stack[i] \/ \E j \in 1 .. i - 1 : r \in pages[j]
      <3>1. r < list.stack[i] \/ \E j \in 1 .. i - 1 : r \in list.pages[j]
        BY <1>5, <2>2 DEF WalkInv, StillToCome
      <3>2. \A j \in 1 .. i - 1 : j \in 1 .. n - 1
        BY <1>4, <2>2
      <3> QED
        BY <1>5, <2>2, <3>1, <3>2
    <2> QED
      BY <1>2, <1>4, <2>1, <2>2 DEF StillToCome, WalkInv
  <1> QED
    BY <1>3, <1>6, <1>7 DEF WalkInv

\* Next puts the cursor on the stack under which the next page will be read.
LEMMA NextPageStep == ASSUME WalkInv, NextPage PROVE WalkInv'
  <1> DEFINE n     == Len(list.stack)
             stack == Append(list.stack, list.next)
  <1>1. /\ list' = [list EXCEPT !.stack = stack, !.next = None]
        /\ UNCHANGED <<state, history, screen, steady>> /\ ~Reading /\ list.next # None
    BY DEF NextPage, service
  <1>2. /\ n \in Nat /\ n > 0 /\ Len(list.pages) = n /\ DOMAIN list.pages = 1 .. n
        /\ list.next \in Nat
    BY <1>1 DEF WalkInv, ListTyped, Reading
  <1>3. /\ stack \in Seq(Nat \cup {None}) /\ Len(stack) = n + 1 /\ stack[n + 1] = list.next
        /\ \A i \in 1 .. n : stack[i] = list.stack[i]
    BY <1>2 DEF WalkInv, ListTyped
  <1>4. list' = [scope |-> list.scope, stack |-> stack, pages |-> list.pages, next |-> None]
    BY <1>1 DEF WalkInv, ListTyped
  <1> HIDE DEF stack
  <1>5. /\ list'.stack = stack /\ list'.pages = list.pages /\ list'.next = None
        /\ list'.scope = list.scope
    BY <1>4
  <1>6. ListTyped'
    <2>1. Len(list'.stack) > 0 /\ Len(list'.pages) = Len(list'.stack) - 1
      BY <1>2, <1>3, <1>5
    <2>2. list'.stack \in Seq(Nat \cup {None})
      BY <1>3, <1>5
    <2> QED
      BY <1>1, <1>4, <1>5, <2>1, <2>2 DEF WalkInv, ListTyped
  <1>7. Descending'
    <2>1. stack[1] = None
      BY <1>2, <1>3 DEF WalkInv, Descending
    <2>2. ASSUME NEW i \in 2 .. n + 1 PROVE stack[i] \in Nat
      <3>1. i = n + 1 \/ i \in 2 .. n
        BY <1>2
      <3> QED
        BY <1>2, <1>3, <3>1 DEF WalkInv, Descending
    <2>3. ASSUME NEW i \in 2 .. n + 1, NEW j \in 2 .. n + 1, i < j PROVE stack[j] < stack[i]
      <3>1. i \in 2 .. n /\ (j = n + 1 \/ j \in 2 .. n)
        BY <1>2, <2>3
      <3> QED
        BY <1>1, <1>2, <1>3, <2>3, <3>1 DEF WalkInv, Descending
    <2>4. ASSUME NEW i \in 1 .. n, i > 1, NEW r \in list.pages[i] PROVE r < stack[i]
      BY <1>2, <1>3, <2>4 DEF WalkInv, Descending
    <2>5. ASSUME NEW i \in 1 .. n, NEW j \in 2 .. n + 1, i < j, NEW r \in list.pages[i]
          PROVE  stack[j] <= r
      <3>1. j = n + 1 \/ j \in 2 .. n
        BY <1>2
      <3> QED
        BY <1>1, <1>2, <1>3, <2>5, <3>1 DEF WalkInv, Descending
    <2> QED
      BY <1>2, <1>3, <1>5, <2>1, <2>2, <2>3, <2>4, <2>5 DEF Descending
  <1>8. StillToCome'
    <2>1. Rows(list.scope)' = Rows(list.scope)
      BY Zenon, <1>1, <1>5 DEF Rows
    <2>2. ASSUME NEW i \in 2 .. n + 1, NEW r \in steady
          PROVE  r < stack[i] \/ \E j \in 1 .. i - 1 : r \in list.pages[j]
      <3>1. CASE i = n + 1
        BY <1>1, <1>2, <1>3, <2>2, <3>1 DEF WalkInv, StillToCome
      <3>2. CASE i \in 2 .. n
        BY <1>2, <1>3, <2>2, <3>2 DEF WalkInv, StillToCome
      <3> QED
        BY <1>2, <3>1, <3>2
    <2>3. Reading'
      BY <1>2, <1>3, <1>5 DEF Reading
    <2> QED
      BY <1>1, <1>3, <1>5, <2>1, <2>2, <2>3 DEF StillToCome, WalkInv
  <1> QED
    BY <1>6, <1>7, <1>8 DEF WalkInv

\* Every script run and click at a list.
LEMMA BrowseStep == ASSUME WalkInv, Browse PROVE WalkInv'
  <1>0. /\ list.stack \in Seq(Nat \cup {None}) /\ list.pages \in Seq(SUBSET Nat)
        /\ Len(list.stack) \in Nat /\ Len(list.stack) > 0 /\ Len(list.pages) \in Nat
    BY DEF WalkInv, ListTyped
  <1>1. CASE ReadList
    BY <1>1, ReadListStep
  <1>2. CASE Rerun
    <2> DEFINE pages == Front(list.pages)
    <2>1. /\ UNCHANGED <<state, history, screen, steady>>
          /\ list' = [list EXCEPT !.pages = pages, !.next = None]
          /\ Len(list.pages) = Len(list.stack)
      BY <1>0, <1>2 DEF Rerun, service, Reading, WalkInv, ListTyped
    <2>2. /\ pages \in Seq(SUBSET Nat) /\ Len(pages) = Len(list.stack) - 1
          /\ \A i \in 1 .. Len(list.stack) - 1 : pages[i] = list.pages[i]
      BY <1>0, <2>1, FrontShort
    <2> HIDE DEF pages
    <2>3. list' = [list EXCEPT !.stack = list.stack, !.pages = pages, !.next = None]
      BY <2>1 DEF WalkInv, ListTyped
    <2>4. /\ Len(list.stack) <= Len(list.stack)
          /\ \A i \in 1 .. Len(list.stack) : list.stack[i] = list.stack[i]
          /\ \A i \in 1 .. Len(pages) : pages[i] = list.pages[i]
      BY <1>0, <2>2
    <2> QED
      BY <1>0, <2>1, <2>2, <2>3, <2>4, CutBack
  <1>3. CASE NextPage
    BY <1>3, NextPageStep
  <1>4. CASE PreviousPage
    <2> DEFINE stack == Front(list.stack)
               front == Front(list.pages)
               pages == Front(front)
               n     == Len(list.stack)
    <2>1. /\ UNCHANGED <<state, history, screen, steady>>
          /\ list' = [list EXCEPT !.stack = stack, !.pages = pages, !.next = None]
          /\ Len(list.pages) = n /\ n > 1
      BY <1>0, <1>4 DEF PreviousPage, service, Reading, WalkInv, ListTyped
    <2>2. /\ stack \in Seq(Nat \cup {None}) /\ Len(stack) = n - 1
          /\ \A i \in 1 .. n - 1 : stack[i] = list.stack[i]
      BY <1>0, <2>1, FrontShort
    <2>3. /\ front \in Seq(SUBSET Nat) /\ Len(front) = n - 1
          /\ \A i \in 1 .. n - 1 : front[i] = list.pages[i]
      BY <1>0, <2>1, FrontShort
    <2> HIDE DEF stack, front
    <2>4. /\ pages \in Seq(SUBSET Nat) /\ Len(pages) = n - 2
          /\ \A i \in 1 .. n - 2 : pages[i] = front[i]
      <3>1. Len(front) > 0 /\ Len(front) - 1 = n - 2
        BY <1>0, <2>1, <2>3
      <3>2. /\ pages \in Seq(SUBSET Nat) /\ Len(pages) = Len(front) - 1
            /\ \A i \in 1 .. Len(front) - 1 : pages[i] = front[i]
        BY <2>3, <3>1, FrontShort
      <3> QED
        BY <3>1, <3>2
    <2> HIDE DEF pages
    <2>5. /\ Len(stack) > 0 /\ Len(stack) <= Len(list.stack) /\ Len(pages) = Len(stack) - 1
          /\ \A i \in 1 .. Len(stack) : stack[i] = list.stack[i]
          /\ \A i \in 1 .. Len(pages) : pages[i] = list.pages[i]
      BY <1>0, <2>1, <2>2, <2>3, <2>4
    <2> QED
      BY <1>0, <2>1, <2>2, <2>4, <2>5, CutBack
  <1>5. CASE ChangeScope
    <2>1. PICK scope : list' = FirstPage(scope)
      BY <1>5 DEF ChangeScope
    <2>2. steady' = {} /\ history' = history
      BY <1>5 DEF ChangeScope, service
    <2> QED
      BY <2>1, <2>2, FirstPageWalk DEF WalkInv, ListTyped
  <1> QED
    BY <1>1, <1>2, <1>3, <1>4, <1>5 DEF Browse

\* The walk is in order throughout.
LEMMA WalkInvariant == Spec => []WalkInv
  <1>1. ASSUME WalkInv, [Next]_vars PROVE WalkInv'
    <2>1. CASE Serve \/ Inspect
      BY <1>1, <2>1, MovesKeepWalk
    <2>2. CASE Browse
      BY <1>1, <2>2, BrowseStep
    <2>3. CASE UNCHANGED vars
      <3>1. UNCHANGED <<state, history, screen, list, steady>>
        BY <2>3 DEF vars, service
      <3>2. Rows(list.scope)' = Rows(list.scope)
        BY Zenon, <3>1 DEF Rows
      <3> QED
        BY <1>1, <3>1, <3>2, ListKept DEF WalkInv, ListTyped, StillToCome
    <2> QED
      BY <1>1, <2>1, <2>2, <2>3 DEF Next
  <1> QED
    BY WalkInit, <1>1, PTL DEF Spec

\* A walk through a list shows every row that was in it all along exactly once and in
\* order, for any page size and any number of rows that join or leave meanwhile
\* (list_documents, list_history, cursor_for).
THEOREM WalksExact == Spec => []WalkExact
  <1>1. ASSUME WalkInv PROVE WalkExact
    <2>1. ASSUME NEW i \in DOMAIN list.pages, NEW j \in DOMAIN list.pages, i < j,
                 NEW r \in list.pages[i], NEW s \in list.pages[j]
          PROVE  r > s
      <3>1. /\ i \in Nat /\ j \in Nat /\ i > 0 /\ j \in 2 .. Len(list.stack)
            /\ r \in Nat /\ s \in Nat
        BY <1>1, <2>1 DEF WalkInv, ListTyped
      <3>2. list.stack[j] \in Nat /\ list.stack[j] <= r /\ s < list.stack[j]
        BY <1>1, <2>1, <3>1 DEF WalkInv, Descending
      <3> QED
        BY <3>1, <3>2
    <2>2. ~Reading => \A r \in steady : \/ \E i \in DOMAIN list.pages : r \in list.pages[i]
                                        \/ list.next # None /\ r < list.next
      BY <1>1 DEF WalkInv, StillToCome
    <2> QED
      BY <2>1, <2>2 DEF WalkExact
  <1> QED
    BY <1>1, WalkInvariant, PTL

-----------------------------------------------------------------------------
(* Walking through the candidates. *)

Ranked == [revision : Nat, rank : Nat]

\* A cursor names a candidate of a sealed revision.
Cursors == {c \in Ranked : /\ c.revision \in DOMAIN Candidates
                           /\ 0 < c.rank /\ c.rank <= Candidates[c.revision]}

EvidenceTyped ==
    /\ evidence = [scope |-> evidence.scope, stack |-> evidence.stack,
                   pages |-> evidence.pages, next |-> evidence.next]
    /\ evidence.stack \in Seq(Cursors \cup {None})
    /\ evidence.pages \in Seq((SUBSET Ranked) \cup {None})
    /\ Len(evidence.stack) > 0
    /\ \/ Len(evidence.pages) = Len(evidence.stack)
       \/ Len(evidence.pages) = Len(evidence.stack) - 1
    /\ revision \in 0 .. Len(Candidates)

\* Every cursor came with an answered page before it.
Stacked ==
    /\ evidence.stack[1] = None
    /\ \A i \in 2 .. Len(evidence.stack) : evidence.stack[i] \in Cursors /\ evidence.stack[i] # None
    /\ \A i \in 1 .. Len(evidence.pages) :
        i < Len(evidence.stack) \/ evidence.next # None => evidence.pages[i] # None
    /\ evidence.next # None =>
        evidence.next \in Cursors /\ Len(evidence.pages) = Len(evidence.stack)

\* What was read, and the cursors, are of revision v.
OfRevision(v) ==
    /\ \A i \in Answered : \A c \in evidence.pages[i] : c.revision = v
    /\ \A i \in 2 .. Len(evidence.stack) : evidence.stack[i].revision = v
    /\ evidence.next # None => evidence.next.revision = v

\* The first n of the pages have every rank up to that of c.
ReadTo(pages, c, n) ==
    \A k \in 1 .. c.rank : \E j \in 1 .. n : [revision |-> c.revision, rank |-> k] \in pages[j]

Gapless ==
    /\ \A i \in Answered : \A c \in evidence.pages[i] : ReadTo(evidence.pages, c, i)
    /\ \A i \in 2 .. Len(evidence.stack) : ReadTo(evidence.pages, evidence.stack[i], i - 1)
    /\ evidence.next # None => ReadTo(evidence.pages, evidence.next, Len(evidence.pages))

EvidenceInv == EvidenceTyped /\ Stacked /\ (\E v : OfRevision(v)) /\ Gapless

\* Pages that stay as they are show what they showed.
LEMMA ReadToKept ==
    ASSUME NEW n \in Nat, NEW pages, NEW others, \A i \in 1 .. n : others[i] = pages[i],
           NEW c, ReadTo(pages, c, n)
    PROVE  ReadTo(others, c, n)
  BY DEF ReadTo

\* A session starts without evidence.
LEMMA EvidenceInit == Init => EvidenceInv
  <1> SUFFICES ASSUME Init PROVE EvidenceInv
    OBVIOUS
  <1>1. evidence = NoEvidence /\ revision = 0
    BY Zenon DEF Init
  <1>2. evidence = [scope |-> 0, stack |-> <<None>>, pages |-> <<>>, next |-> None]
    BY <1>1 DEF NoEvidence
  <1>3. evidence.stack = <<None>> /\ evidence.pages = <<>> /\ evidence.next = None
    BY <1>2
  <1>4. EvidenceTyped
    BY <1>1, <1>2, <1>3, CandidatesAssumption DEF EvidenceTyped
  <1>5. Answered = {}
    BY <1>3 DEF Answered
  <1> QED
    BY <1>3, <1>4, <1>5 DEF EvidenceInv, Stacked, OfRevision, Gapless

\* A document that is sealed, decided on or retried leaves the session as it is.
LEMMA EvidenceKept ==
    ASSUME EvidenceInv, UNCHANGED evidence, revision' \in 0 .. Len(Candidates)
    PROVE  EvidenceInv'
  BY DEF EvidenceInv, EvidenceTyped, Stacked, OfRevision, Gapless, Answered

\* The document is read again: its evidence is kept or dropped as a whole.
LEMMA EvidenceScoped == ASSUME EvidenceInv, ReadDocument PROVE EvidenceInv'
  <1>1. revision' = revision /\ revision \in 0 .. Len(Candidates)
    BY DEF ReadDocument, service, EvidenceInv, EvidenceTyped
  <1>2. CASE evidence' = evidence
    BY <1>1, <1>2, EvidenceKept
  <1>3. CASE evidence' = [NoEvidence EXCEPT !.scope = revision]
    <2>1. evidence' = [scope |-> revision, stack |-> <<None>>, pages |-> <<>>, next |-> None]
      BY <1>3 DEF NoEvidence
    <2>2. evidence'.stack = <<None>> /\ evidence'.pages = <<>> /\ evidence'.next = None
      BY <2>1
    <2>3. EvidenceTyped'
      BY <1>1, <2>1, <2>2 DEF EvidenceTyped
    <2>4. Answered' = {}
      BY <2>2 DEF Answered
    <2> QED
      BY <2>2, <2>3, <2>4 DEF EvidenceInv, Stacked, OfRevision, Gapless
  <1> QED
    BY <1>2, <1>3 DEF ReadDocument

\* The script runs again: with fewer pages, or with the next cursor on the stack.
LEMMA EvidenceReopened ==
    ASSUME EvidenceInv, NEW stack \in Seq(Cursors \cup {None}),
           NEW pages \in Seq((SUBSET Ranked) \cup {None}), Reopen(stack, pages), revision' = revision,
           Len(stack) > 0, Len(pages) = Len(stack) - 1, Len(pages) <= Len(evidence.pages),
           \A i \in 1 .. Len(pages) : pages[i] = evidence.pages[i],
           stack[1] = None,
           \A i \in 2 .. Len(stack) :
              \/ i <= Len(evidence.stack) /\ stack[i] = evidence.stack[i]
              \/ /\ i = Len(evidence.stack) + 1 /\ stack[i] = evidence.next
                 /\ evidence.next # None,
           Len(stack) <= Len(evidence.stack) \/ evidence.next # None
    PROVE  EvidenceInv'
  <1> DEFINE n == Len(stack)
  <1>1. evidence' = [scope |-> evidence.scope, stack |-> stack, pages |-> pages, next |-> None]
    BY DEF Reopen, EvidenceInv, EvidenceTyped
  <1>2. evidence'.stack = stack /\ evidence'.pages = pages /\ evidence'.next = None
    BY <1>1
  <1>3. EvidenceTyped'
    BY <1>1, <1>2 DEF EvidenceInv, EvidenceTyped
  <1>4. /\ n \in Nat /\ n > 0 /\ Len(evidence.stack) \in Nat /\ Len(evidence.pages) \in Nat
        /\ DOMAIN pages = 1 .. n - 1 /\ DOMAIN evidence.pages = 1 .. Len(evidence.pages)
        /\ evidence.next # None => Len(evidence.pages) = Len(evidence.stack)
    BY DEF EvidenceInv, EvidenceTyped, Stacked
  <1>5. \A i \in 1 .. n - 1 : i \in 1 .. Len(evidence.pages) /\ pages[i] = evidence.pages[i]
    BY <1>4
  <1>6. Stacked'
    <2>1. \A i \in 2 .. n : stack[i] \in Cursors /\ stack[i] # None
      BY <1>4 DEF EvidenceInv, Stacked
    <2>2. \A i \in 1 .. n - 1 : pages[i] # None
      BY <1>4, <1>5 DEF EvidenceInv, Stacked
    <2> QED
      BY <1>2, <2>1, <2>2 DEF Stacked
  <1>7. \A i \in Answered' : i \in Answered /\ i \in 1 .. n - 1 /\ pages[i] = evidence.pages[i]
    BY <1>2, <1>4, <1>5 DEF Answered
  <1>8. \E v : OfRevision(v)'
    <2>1. PICK v : OfRevision(v)
      BY DEF EvidenceInv
    <2>2. \A i \in 2 .. n : stack[i].revision = v
      BY <1>4, <2>1 DEF OfRevision
    <2>3. \A i \in Answered' : \A c \in pages[i] : c.revision = v
      BY <1>7, <2>1 DEF OfRevision
    <2> QED
      BY <1>2, <2>2, <2>3 DEF OfRevision
  <1>9. Gapless'
    <2>1. ASSUME NEW i \in Answered', NEW c \in pages[i] PROVE ReadTo(pages, c, i)
      <3>1. i \in Answered /\ i \in 1 .. n - 1 /\ c \in evidence.pages[i]
        BY <1>7, <2>1
      <3>2. ReadTo(evidence.pages, c, i)
        BY <3>1 DEF EvidenceInv, Gapless
      <3>3. i \in Nat /\ \A j \in 1 .. i : j \in 1 .. n - 1
        BY <1>4, <3>1
      <3>4. \A j \in 1 .. i : pages[j] = evidence.pages[j]
        BY <1>5, <3>3
      <3> QED
        BY <3>2, <3>3, <3>4, ReadToKept
    <2>2. ASSUME NEW i \in 2 .. n PROVE ReadTo(pages, stack[i], i - 1)
      <3>1. ReadTo(evidence.pages, stack[i], i - 1)
        BY <1>4, <2>2 DEF EvidenceInv, Gapless
      <3>2. i - 1 \in Nat /\ \A j \in 1 .. i - 1 : j \in 1 .. n - 1
        BY <1>4
      <3>3. \A j \in 1 .. i - 1 : pages[j] = evidence.pages[j]
        BY <1>5, <3>2
      <3> QED
        BY <3>1, <3>2, <3>3, ReadToKept
    <2> QED
      BY <1>2, <2>1, <2>2 DEF Gapless
  <1> QED
    BY <1>3, <1>6, <1>8, <1>9 DEF EvidenceInv

\* What get_preflight answers under the last cursor: the ranks after it up to the end of
\* the page, which is the next cursor if ranks are left.
LEMMA PreflightAnswer ==
    ASSUME EvidenceInv, NEW cursor,
           cursor = None \/ cursor \in Cursors, ~Refused(cursor)
    PROVE  \E start, end \in Nat :
            /\ Preflight(cursor).items = {[revision |-> revision, rank |-> k] : k \in start + 1 .. end}
            /\ Preflight(cursor).items # None
            /\ Preflight(cursor).next # None =>
                /\ Preflight(cursor).next = [revision |-> revision, rank |-> end]
                /\ Preflight(cursor).next \in Cursors
            /\ IF cursor = None THEN start = 0
               ELSE cursor.revision = revision /\ start = cursor.rank
            /\ revision \in Nat
  <1> DEFINE start == CandidateStart(cursor)
             count == Candidates[revision]
             end   == Min({start + Limit, count})
             items == {[revision |-> revision, rank |-> k] : k \in start + 1 .. end}
             next  == IF end < count /\ start < end
                      THEN [revision |-> revision, rank |-> end] ELSE None
  <1>1. PreflightRevision # 0 /\ start # None /\ Preflight(cursor) = [items |-> items, next |-> next]
    BY DEF Preflight, Refused
  <1>2. revision \in DOMAIN Candidates /\ revision \in Nat /\ count \in Nat /\ Limit \in Nat
    <2>1. revision # 0
      BY <1>1 DEF PreflightRevision
    <2> QED
      BY <2>1, CandidatesAssumption, DocumentsAssumption DEF EvidenceInv, EvidenceTyped
  <1>3. IF cursor = None THEN start = 0 ELSE cursor.revision = revision /\ start = cursor.rank
    BY <1>1 DEF CandidateStart
  <1> HIDE DEF start, count
  <1>4. start \in Nat /\ start <= count
    <2>1. cursor # None => cursor \in Cursors
      OBVIOUS
    <2> QED
      BY <1>2, <1>3, <2>1 DEF Cursors, Ranked, count
  <1>5. end \in Nat /\ end <= count
    <2>1. \E x \in {start + Limit, count} : \A y \in {start + Limit, count} : x <= y
      BY <1>2, <1>4
    <2>2. end \in {start + Limit, count} /\ \A y \in {start + Limit, count} : end <= y
      BY <2>1 DEF Min
    <2> QED
      BY <1>2, <1>4, <2>2
  <1> HIDE DEF end
  <1>6. items # None
    <2>1. start \in 0 .. Candidates[revision] /\ end \in 0 .. Candidates[revision]
      BY <1>2, <1>4, <1>5 DEF count
    <2> QED
      BY <1>2, <2>1, NullAssumption
  <1>7. next # None => next = [revision |-> revision, rank |-> end] /\ next \in Cursors
    BY <1>2, <1>4, <1>5 DEF Cursors, Ranked, count
  <1> HIDE DEF items, next
  <1>8. Preflight(cursor).items = items /\ Preflight(cursor).next = next
    BY <1>1
  <1> QED
    BY <1>2, <1>3, <1>4, <1>5, <1>6, <1>7, <1>8 DEF items

\* A page of candidates is read: nothing but a problem, or the ranks that follow.
LEMMA EvidenceRead == ASSUME EvidenceInv, ReadEvidence PROVE EvidenceInv'
  <1> DEFINE n      == Len(evidence.stack)
             cursor == Last(evidence.stack)
             answer == Preflight(cursor)
  <1>1. /\ revision' = revision
        /\ \/ evidence' = [evidence EXCEPT !.pages = Append(@, None), !.next = None]
           \/ /\ ~Refused(cursor)
              /\ evidence' = [evidence EXCEPT !.pages = Append(@, answer.items), !.next = answer.next]
        /\ Len(evidence.pages) # n
    BY DEF ReadEvidence, service, Shown
  <1>2. /\ n \in Nat /\ n > 0 /\ Len(evidence.pages) = n - 1 /\ cursor = evidence.stack[n]
        /\ evidence.stack \in Seq(Cursors \cup {None})
        /\ evidence.pages \in Seq((SUBSET Ranked) \cup {None})
        /\ evidence.next = None /\ DOMAIN evidence.pages = 1 .. n - 1
    BY <1>1 DEF EvidenceInv, EvidenceTyped, Stacked, Last
  <1>3. /\ \A i \in 1 .. n - 1 : evidence.pages[i] # None
        /\ n = 1 => cursor = None
        /\ n > 1 => cursor \in Cursors /\ cursor # None /\ ReadTo(evidence.pages, cursor, n - 1)
    BY <1>2 DEF EvidenceInv, Stacked, Gapless
  <1>4. PICK v : OfRevision(v)
    BY DEF EvidenceInv
  <1> HIDE DEF cursor, answer, n
  <1>5. ASSUME NEW got \in (SUBSET Ranked) \cup {None}, NEW next \in Cursors \cup {None}, NEW w,
               evidence' = [evidence EXCEPT !.pages = Append(@, got), !.next = next],
               n > 1 => w = v,
               got = None => next = None,
               got # None => \A c \in got : c.revision = w /\ ReadTo(Append(evidence.pages, got), c, n),
               next # None => next.revision = w /\ ReadTo(Append(evidence.pages, got), next, n)
        PROVE  EvidenceInv'
    <2> DEFINE pages == Append(evidence.pages, got)
    <2>1. /\ pages \in Seq((SUBSET Ranked) \cup {None}) /\ Len(pages) = n /\ pages[n] = got
          /\ \A i \in 1 .. n - 1 : pages[i] = evidence.pages[i]
          /\ DOMAIN pages = 1 .. n
      BY <1>2
    <2>2. evidence' = [scope |-> evidence.scope, stack |-> evidence.stack, pages |-> pages, next |-> next]
      BY <1>5 DEF EvidenceInv, EvidenceTyped
    <2> HIDE DEF pages
    <2>3. evidence'.stack = evidence.stack /\ evidence'.pages = pages /\ evidence'.next = next
      BY <2>2
    <2>4. Len(evidence.stack) = n
      BY DEF n
    <2>5. EvidenceTyped'
      BY <1>1, <1>2, <2>1, <2>2, <2>3, <2>4 DEF EvidenceInv, EvidenceTyped
    <2>6. Stacked'
      <3>1. ASSUME NEW i \in 1 .. n, i < n \/ next # None PROVE pages[i] # None
        <4>1. CASE i = n
          BY <1>2, <1>5, <2>1, <3>1, <4>1
        <4>2. CASE i # n
          <5>1. i \in 1 .. n - 1
            BY <1>2, <4>2
          <5> QED
            BY <1>3, <2>1, <5>1
        <4> QED
          BY <4>1, <4>2
      <3> QED
        BY <2>1, <2>3, <2>4, <3>1 DEF EvidenceInv, Stacked
    <2>7. \A i \in Answered' : \/ i \in Answered /\ i \in 1 .. n - 1 /\ pages[i] = evidence.pages[i]
                               \/ i = n /\ got # None /\ pages[i] = got
      BY <1>2, <1>3, <2>1, <2>3 DEF Answered
    <2>8. OfRevision(w)'
      <3>1. n = 1 => Answered = {}
        BY <1>2 DEF Answered
      <3>2. \A i \in Answered' : \A c \in pages[i] : c.revision = w
        BY <1>2, <1>4, <1>5, <2>7, <3>1 DEF OfRevision
      <3>3. \A i \in 2 .. n : evidence.stack[i].revision = w
        BY <1>2, <1>4, <1>5, <2>4 DEF OfRevision
      <3> QED
        BY <1>5, <2>3, <2>4, <3>2, <3>3 DEF OfRevision
    <2>9. Gapless'
      <3>1. ASSUME NEW i \in Answered', NEW c \in pages[i] PROVE ReadTo(pages, c, i)
        <4>1. CASE i = n /\ got # None /\ pages[i] = got
          BY <1>5, <3>1, <4>1 DEF pages
        <4>2. CASE i \in Answered /\ i \in 1 .. n - 1 /\ pages[i] = evidence.pages[i]
          <5>1. ReadTo(evidence.pages, c, i)
            BY <3>1, <4>2 DEF EvidenceInv, Gapless
          <5>2. i \in Nat /\ \A j \in 1 .. i : j \in 1 .. n - 1
            BY <1>2, <4>2
          <5>3. \A j \in 1 .. i : pages[j] = evidence.pages[j]
            BY <2>1, <5>2
          <5> QED
            BY <5>1, <5>2, <5>3, ReadToKept
        <4> QED
          BY <2>7, <3>1, <4>1, <4>2
      <3>2. ASSUME NEW i \in 2 .. n PROVE ReadTo(pages, evidence.stack[i], i - 1)
        <4>1. ReadTo(evidence.pages, evidence.stack[i], i - 1)
          BY <2>4, <3>2 DEF EvidenceInv, Gapless
        <4>2. i - 1 \in Nat /\ \A j \in 1 .. i - 1 : j \in 1 .. n - 1
          BY <1>2, <3>2
        <4>3. \A j \in 1 .. i - 1 : pages[j] = evidence.pages[j]
          BY <2>1, <4>2
        <4> QED
          BY <4>1, <4>2, <4>3, ReadToKept
      <3>3. next # None => ReadTo(pages, next, n)
        BY <1>5 DEF pages
      <3> QED
        BY <2>1, <2>3, <2>4, <3>1, <3>2, <3>3 DEF Gapless
    <2> QED
      BY <2>5, <2>6, <2>8, <2>9 DEF EvidenceInv
  <1>6. CASE evidence' = [evidence EXCEPT !.pages = Append(@, None), !.next = None]
    BY <1>5, <1>6
  <1>7. CASE /\ ~Refused(cursor)
             /\ evidence' = [evidence EXCEPT !.pages = Append(@, answer.items), !.next = answer.next]
    <2>1. cursor = None \/ cursor \in Cursors
      BY <1>2, <1>3
    <2>2. PICK start \in Nat, end \in Nat :
            /\ answer.items = {[revision |-> revision, rank |-> k] : k \in start + 1 .. end}
            /\ answer.items # None
            /\ answer.next # None =>
                answer.next = [revision |-> revision, rank |-> end] /\ answer.next \in Cursors
            /\ IF cursor = None THEN start = 0
               ELSE cursor.revision = revision /\ start = cursor.rank
            /\ revision \in Nat
      BY <1>7, <2>1, PreflightAnswer DEF answer
    <2> DEFINE items == answer.items
               pages == Append(evidence.pages, items)
    <2>3. \A k \in start + 1 .. end : [revision |-> revision, rank |-> k] \in items
      BY <2>2
    <2>4. \A c \in items : c.revision = revision /\ c.rank \in start + 1 .. end /\ c \in Ranked
      BY <2>2 DEF Ranked
    <2>5. answer.next # None => answer.next.revision = revision /\ answer.next.rank = end
      BY <2>2
    <2> HIDE DEF items
    <2>6. items \in (SUBSET Ranked) \cup {None} /\ answer.next \in Cursors \cup {None}
      BY <2>2, <2>4
    <2>7. pages[n] = items /\ \A i \in 1 .. n - 1 : pages[i] = evidence.pages[i]
      BY <1>2, <2>6
    <2> HIDE DEF pages
    <2>8. ASSUME NEW k \in 1 .. end
          PROVE  \E j \in 1 .. n : [revision |-> revision, rank |-> k] \in pages[j]
      <3>1. CASE k > start
        <4>1. k \in start + 1 .. end
          BY <2>2, <3>1
        <4> QED
          BY <1>2, <2>3, <2>7, <4>1
      <3>2. CASE k <= start
        <4>1. n > 1 /\ cursor # None /\ cursor.revision = revision /\ start = cursor.rank
          BY <1>2, <1>3, <2>2, <3>2
        <4>2. k \in 1 .. cursor.rank
          BY <2>2, <3>2, <4>1
        <4>3. \E j \in 1 .. n - 1 : [revision |-> revision, rank |-> k] \in evidence.pages[j]
          BY <1>3, <4>1, <4>2 DEF ReadTo
        <4> QED
          BY <1>2, <2>7, <4>3
      <3> QED
        BY <2>2, <3>1, <3>2
    <2>9. ASSUME NEW c, c.revision = revision, c.rank \in Int, c.rank <= end PROVE ReadTo(pages, c, n)
      BY <2>2, <2>8, <2>9 DEF ReadTo
    <2>10. \A c \in items : c.revision = revision /\ ReadTo(pages, c, n)
      BY <2>2, <2>4, <2>9
    <2>11. answer.next # None => answer.next.revision = revision /\ ReadTo(pages, answer.next, n)
      BY <2>2, <2>5, <2>9
    <2>12. n > 1 => revision = v
      <3>1. n > 1 => cursor.revision = v
        BY <1>2, <1>4 DEF OfRevision, n
      <3> QED
        BY <1>3, <2>2, <3>1
    <2>13. items # None
      BY <2>2 DEF items
    <2> QED
      BY <1>5, <1>7, <2>6, <2>10, <2>11, <2>12, <2>13 DEF pages, items
  <1> QED
    BY <1>1, <1>6, <1>7

\* The controls of the candidate list, and a page that is run again.
LEMMA EvidencePaged ==
    ASSUME EvidenceInv, Refresh \/ NextCandidates \/ PreviousCandidates
    PROVE  EvidenceInv'
  <1> DEFINE n == Len(evidence.stack)
  <1>0. /\ n \in Nat /\ n > 0 /\ Len(evidence.pages) \in Nat
        /\ evidence.stack \in Seq(Cursors \cup {None})
        /\ evidence.pages \in Seq((SUBSET Ranked) \cup {None})
        /\ Len(evidence.pages) = n \/ Len(evidence.pages) = n - 1
        /\ evidence.stack[1] = None
    BY DEF EvidenceInv, EvidenceTyped, Stacked
  <1>1. revision' = revision
    BY DEF Refresh, NextCandidates, PreviousCandidates, service
  <1> DEFINE front == Front(evidence.pages)
  <1>2. ASSUME Len(evidence.pages) = n
        PROVE  /\ front \in Seq((SUBSET Ranked) \cup {None}) /\ Len(front) = n - 1
               /\ \A i \in 1 .. n - 1 : front[i] = evidence.pages[i]
    BY <1>0, <1>2, FrontShort
  <1>3. \A i \in 2 .. n : i <= n /\ evidence.stack[i] = evidence.stack[i]
    BY <1>0
  <1>4. CASE Refresh
    <2>1. CASE Shown
      <3>1. Len(evidence.pages) = n /\ Reopen(evidence.stack, front)
        BY <1>4, <2>1 DEF Refresh, Shown
      <3>2. Len(front) = n - 1 /\ Len(front) <= Len(evidence.pages) /\ n <= n
        BY <1>0, <1>2, <3>1
      <3>3. \A i \in 1 .. Len(front) : front[i] = evidence.pages[i]
        BY <1>2, <3>1
      <3>4. front \in Seq((SUBSET Ranked) \cup {None})
        BY <1>2, <3>1
      <3> HIDE DEF front
      <3> QED
        BY <1>0, <1>1, <1>3, <3>1, <3>2, <3>3, <3>4, EvidenceReopened
    <2>2. CASE ~Shown
      <3>1. /\ Len(evidence.pages) = n - 1 /\ Reopen(evidence.stack, evidence.pages)
            /\ Len(evidence.pages) <= Len(evidence.pages) /\ n <= n
            /\ \A i \in 1 .. Len(evidence.pages) : evidence.pages[i] = evidence.pages[i]
        BY <1>0, <1>4, <2>2 DEF Refresh, Complete, Shown
      <3> QED
        BY <1>0, <1>1, <1>3, <3>1, EvidenceReopened
    <2> QED
      BY <2>1, <2>2
  <1>5. CASE NextCandidates
    <2> DEFINE stack == Append(evidence.stack, evidence.next)
    <2>1. Reopen(stack, evidence.pages) /\ evidence.next # None /\ Len(evidence.pages) = n
      BY <1>5 DEF NextCandidates, Shown
    <2>2. evidence.next \in Cursors
      BY <2>1 DEF EvidenceInv, Stacked
    <2>3. /\ stack \in Seq(Cursors \cup {None}) /\ Len(stack) = n + 1 /\ stack[n + 1] = evidence.next
          /\ \A i \in 1 .. n : stack[i] = evidence.stack[i]
      BY <1>0, <2>2
    <2> HIDE DEF stack
    <2>4. /\ Len(stack) > 0 /\ Len(evidence.pages) = Len(stack) - 1 /\ stack[1] = None
          /\ Len(evidence.pages) <= Len(evidence.pages)
          /\ \A i \in 1 .. Len(evidence.pages) : evidence.pages[i] = evidence.pages[i]
      BY <1>0, <2>1, <2>3
    <2>5. ASSUME NEW i \in 2 .. Len(stack)
          PROVE  \/ i <= n /\ stack[i] = evidence.stack[i]
                 \/ i = n + 1 /\ stack[i] = evidence.next /\ evidence.next # None
      <3>1. i = n + 1 \/ i \in 1 .. n
        BY <1>0, <2>3
      <3> QED
        BY <1>0, <2>1, <2>3, <3>1
    <2> QED
      BY <1>0, <1>1, <2>1, <2>3, <2>4, <2>5, EvidenceReopened
  <1>6. CASE PreviousCandidates
    <2> DEFINE stack == Front(evidence.stack)
               back  == Front(front)
    <2>1. Reopen(stack, back) /\ Len(evidence.pages) = n /\ n > 1
      BY <1>6 DEF PreviousCandidates, Shown
    <2>2. /\ stack \in Seq(Cursors \cup {None}) /\ Len(stack) = n - 1
          /\ \A i \in 1 .. n - 1 : stack[i] = evidence.stack[i]
      BY <1>0, FrontShort
    <2>3. /\ front \in Seq((SUBSET Ranked) \cup {None}) /\ Len(front) = n - 1
          /\ \A i \in 1 .. n - 1 : front[i] = evidence.pages[i]
      BY <1>2, <2>1
    <2> HIDE DEF front, stack
    <2>4. /\ back \in Seq((SUBSET Ranked) \cup {None}) /\ Len(back) = Len(front) - 1
          /\ \A i \in 1 .. Len(front) - 1 : back[i] = front[i]
      <3>1. Len(front) > 0
        BY <1>0, <2>1, <2>3
      <3> QED
        BY <2>3, <3>1, FrontShort
    <2> HIDE DEF back
    <2>5. /\ Len(stack) > 0 /\ Len(back) = Len(stack) - 1 /\ Len(back) <= Len(evidence.pages)
          /\ Len(stack) <= n /\ stack[1] = None
      BY <1>0, <2>1, <2>2, <2>3, <2>4
    <2>6. \A i \in 1 .. Len(back) : back[i] = evidence.pages[i]
      BY <1>0, <2>1, <2>3, <2>4
    <2>7. \A i \in 2 .. Len(stack) : i <= n /\ stack[i] = evidence.stack[i]
      BY <1>0, <2>2
    <2> QED
      BY <1>1, <2>1, <2>2, <2>4, <2>5, <2>6, <2>7, EvidenceReopened
  <1> QED
    BY <1>4, <1>5, <1>6

\* A revision is one of those that will be sealed.
LEMMA RevisionSealed ==
    ASSUME EvidenceInv, Serve \/ Inspect \/ Browse
    PROVE  revision' \in 0 .. Len(Candidates)
  <1>1. revision \in 0 .. Len(Candidates) /\ Len(Candidates) \in Nat
    BY CandidatesAssumption DEF EvidenceInv, EvidenceTyped
  <1>2. CASE Seal
    BY <1>1, <1>2 DEF Seal
  <1>3. ASSUME NEW key, HandleRetry(key) PROVE revision' = revision
    BY <1>3 DEF HandleRetry, Retried, Accept, Ignore
  <1>4. CASE Serve /\ ~Seal
    <2>1. revision' = revision
      BY <1>3, <1>4 DEF Serve, Move, FinishPreflight, Accept, Finish, Fail, OtherRetry, Retried,
                        DeliverLate, OtherOperator, RequestDeletion, RecordDecision
    <2> QED
      BY <1>1, <2>1
  <1>5. CASE Inspect
    <2>1. revision' = revision
      BY <1>3, <1>5 DEF Inspect, ReadDocument, ReadEvidence, Refresh, NextCandidates,
                        PreviousCandidates, Decide, Delete, RequestDeletion, RecordDecision, Accept,
                        Retry, RetryTimesOut, Ignore, service
    <2> QED
      BY <1>1, <2>1
  <1>6. CASE Browse
    <2>1. revision' = revision
      BY <1>6 DEF Browse, ReadList, Rerun, NextPage, PreviousPage, ChangeScope, service
    <2> QED
      BY <1>1, <2>1
  <1> QED
    BY <1>2, <1>4, <1>5, <1>6

\* The candidates that were read are of one revision and without gap throughout.
LEMMA EvidenceInvariant == Spec => []EvidenceInv
  <1>1. ASSUME EvidenceInv, [Next]_vars PROVE EvidenceInv'
    <2>1. CASE ReadDocument
      BY <1>1, <2>1, EvidenceScoped
    <2>2. CASE ReadEvidence
      BY <1>1, <2>2, EvidenceRead
    <2>3. CASE Refresh \/ NextCandidates \/ PreviousCandidates
      BY <1>1, <2>3, EvidencePaged
    <2>4. ASSUME NEW key, HandleRetry(key) PROVE evidence' = evidence
      BY <2>4 DEF HandleRetry, Retried, Accept, Become, Ignore
    <2>5. CASE Serve
      <3>1. evidence' = evidence
        BY <2>4, <2>5 DEF Serve, Move, FinishPreflight, Accept, Finish, Fail, OtherRetry, Retried,
                          DeliverLate, OtherOperator, RequestDeletion, RecordDecision, Become, Seal
      <3> QED
        BY <1>1, <2>5, <3>1, EvidenceKept, RevisionSealed
    <2>6. CASE \/ \E action \in Decisions : Decide(action)
               \/ Delete \/ Retry \/ RetryTimesOut
      <3>1. evidence' = evidence
        BY <2>4, <2>6 DEF Decide, Delete, RequestDeletion, RecordDecision, Accept, Become, Retry,
                          RetryTimesOut, Ignore
      <3>2. Inspect
        BY <2>6 DEF Inspect
      <3> QED
        BY <1>1, <3>1, <3>2, EvidenceKept, RevisionSealed
    <2>7. CASE Browse
      <3>1. evidence' = evidence
        BY <2>7 DEF Browse, ReadList, Rerun, NextPage, PreviousPage, ChangeScope
      <3> QED
        BY <1>1, <2>7, <3>1, EvidenceKept, RevisionSealed
    <2>8. CASE UNCHANGED vars
      BY <1>1, <2>8, EvidenceKept DEF vars, service, EvidenceInv, EvidenceTyped
    <2> QED
      BY <1>1, <2>1, <2>2, <2>3, <2>5, <2>6, <2>7, <2>8 DEF Next, Inspect
  <1> QED
    BY EvidenceInit, <1>1, PTL DEF Spec

\* The candidate pages that an operator has gone through are of one revision and leave no
\* rank out, for any number of candidates and however often the preflight is sealed
\* between two script runs (get_preflight, _candidate_page_start, _render_candidates).
THEOREM EvidenceWhole == Spec => []EvidenceOfOneRevision
  <1>1. ASSUME EvidenceInv PROVE EvidenceOfOneRevision
    <2> DEFINE seen == UNION {evidence.pages[i] : i \in Answered}
    <2>1. ASSUME NEW c \in seen, NEW e \in seen PROVE c.revision = e.revision
      BY <1>1, <2>1 DEF EvidenceInv, OfRevision
    <2>2. ASSUME NEW c \in seen, NEW k \in 1 .. c.rank PROVE [c EXCEPT !.rank = k] \in seen
      <3>1. PICK i \in Answered : c \in evidence.pages[i]
        BY <2>2
      <3>2. /\ evidence.pages \in Seq((SUBSET Ranked) \cup {None})
            /\ i \in 1 .. Len(evidence.pages) /\ evidence.pages[i] # None
            /\ Len(evidence.pages) \in Nat
        BY <1>1 DEF EvidenceInv, EvidenceTyped, Answered
      <3>3. c \in Ranked
        BY <3>1, <3>2
      <3>4. [c EXCEPT !.rank = k] = [revision |-> c.revision, rank |-> k]
        BY <3>3 DEF Ranked
      <3>5. PICK j \in 1 .. i : [revision |-> c.revision, rank |-> k] \in evidence.pages[j]
        BY <1>1, <2>2, <3>1 DEF EvidenceInv, Gapless, ReadTo
      <3>6. j \in Answered
        <4>1. CASE j = i
          BY <3>1, <4>1
        <4>2. CASE j # i
          <5>1. j \in 1 .. Len(evidence.pages) /\ j < Len(evidence.stack)
            BY <1>1, <3>2, <4>2 DEF EvidenceInv, EvidenceTyped
          <5>2. evidence.pages[j] # None
            BY <1>1, <5>1 DEF EvidenceInv, Stacked
          <5> QED
            BY <3>2, <5>1, <5>2 DEF Answered
        <4> QED
          BY <4>1, <4>2
      <3> QED
        BY <3>4, <3>5, <3>6
    <2> QED
      BY <2>1, <2>2 DEF EvidenceOfOneRevision
  <1> QED
    BY <1>1, EvidenceInvariant, PTL
-----------------------------------------------------------------------------
(* What a refusal of the evidence means for the decision beside it. *)

Gone == {"DELETING", "DELETE_FAILED", "DELETED"}

\* A page for review that was refused its evidence is of a document that is on its way out.
RefusedGone == problem = "refused" /\ page.state = "REVIEW_REQUIRED" => state[Selected] \in Gone

\* Nothing leads back from a deletion.
LEMMA GoneStays ==
    ASSUME Typed, Serve \/ Inspect, state[Selected] \in Gone
    PROVE  state'[Selected] \in Gone
  <1>0. Selected \in Documents
    BY DocumentsAssumption DEF Documents
  <1>1. ASSUME NEW s \in Gone, Become(Selected, s) PROVE state'[Selected] \in Gone
    <2>1. s \in States
      BY DEF Gone, States
    <2> QED
      BY <1>0, <1>1, <2>1, BecomeRow
  <1>2. ASSUME Retried, state[Selected] \in Failed PROVE state'[Selected] \in Gone
    <2> DEFINE s == CHOOSE s \in Working : FailedFrom[s] = state[Selected]
    <2>1. s \in Working /\ FailedFrom[s] = state[Selected]
      <3>1. \E t \in Working : FailedFrom[t] = state[Selected]
        BY <1>2 DEF Failed
      <3> QED
        BY <3>1
    <2>2. Become(Selected, s)
      BY <1>2 DEF Retried, Accept
    <2> HIDE DEF s
    <2>3. s = "DELETING"
      BY <2>1 DEF Working, FailedFrom, Gone
    <2> QED
      BY <1>1, <2>2, <2>3 DEF Gone
  <1>3. ASSUME NEW key, HandleRetry(key) PROVE state'[Selected] \in Gone
    BY <1>2, <1>3 DEF HandleRetry, Ignore
  <1>4. ASSUME RequestDeletion \/ DecisionTaken \/ state[Selected] = "REVIEW_REQUIRED" PROVE FALSE
    BY <1>4 DEF RequestDeletion, DecisionTaken, Gone
  <1>5. CASE Serve
    <2>1. CASE \E d \in Documents, s \in {"PREFLIGHTING", "REVIEW_REQUIRED", "DELETED"} : Move(d, s)
      <3>1. PICK d \in Documents, s \in {"PREFLIGHTING", "REVIEW_REQUIRED", "DELETED"} : Move(d, s)
        BY <2>1
      <3>2. s \in States /\ Become(d, s) /\ d # Selected
        BY <3>1 DEF Move, States
      <3> QED
        BY <3>2, BecomeRow
    <2>2. CASE \E s \in {"PUBLISHING", "DELETING"} : FinishPreflight(s)
      BY <2>2 DEF FinishPreflight, Gone
    <2>3. CASE Seal
      BY <2>3 DEF Seal
    <2>4. CASE Finish
      <3>1. state[Selected] = "DELETING"
        BY <2>4 DEF Finish, Working, Gone
      <3>2. Become(Selected, "DELETED")
        BY <2>4, <3>1 DEF Finish
      <3> QED
        BY <1>1, <3>2 DEF Gone
    <2>5. CASE Fail
      <3>1. state[Selected] = "DELETING"
        BY <2>5 DEF Fail, Working, Gone
      <3>2. Become(Selected, "DELETE_FAILED")
        BY <2>5, <3>1 DEF Fail, FailedFrom
      <3> QED
        BY <1>1, <3>2 DEF Gone
    <2>6. CASE OtherRetry
      BY <1>2, <2>6 DEF OtherRetry
    <2>7. CASE DeliverLate
      BY <1>3, <2>7 DEF DeliverLate
    <2>8. CASE OtherOperator
      BY <1>4, <2>8 DEF OtherOperator
    <2> QED
      BY <1>5, <2>1, <2>2, <2>3, <2>4, <2>5, <2>6, <2>7, <2>8 DEF Serve
  <1>6. CASE Inspect
    <2>1. CASE ReadDocument \/ ReadEvidence \/ Refresh \/ NextCandidates \/ PreviousCandidates
      BY <2>1 DEF ReadDocument, ReadEvidence, Refresh, NextCandidates, PreviousCandidates, service
    <2>2. CASE (\E action \in Decisions : Decide(action)) \/ Delete
      BY <1>4, <2>2 DEF Decide, Delete
    <2>3. CASE Retry
      BY <1>3, <2>3 DEF Retry
    <2>4. CASE RetryTimesOut
      BY <2>4 DEF RetryTimesOut, Ignore
    <2> QED
      BY <1>6, <2>1, <2>2, <2>3, <2>4 DEF Inspect
  <1> QED
    BY <1>5, <1>6

\* Every cursor came with evidence, and so it is of the revisions that evidence is of.
LEMMA CursorBetween ==
    ASSUME ConsoleInv, EvidenceInv, NEW i \in 2 .. Len(evidence.stack)
    PROVE  /\ evidence.stack[i].revision \in Nat /\ page.revision <= evidence.stack[i].revision
           /\ evidence.stack[i].revision <= revision
  <1> DEFINE cursor == evidence.stack[i]
             n      == Len(evidence.stack)
  <1>1. /\ n \in Nat /\ i \in 2 .. n /\ Len(evidence.pages) \in Nat
        /\ n - 1 <= Len(evidence.pages)
        /\ DOMAIN evidence.pages = 1 .. Len(evidence.pages)
    BY DEF EvidenceInv, EvidenceTyped
  <1>2. cursor \in Cursors /\ ReadTo(evidence.pages, cursor, i - 1)
    BY DEF EvidenceInv, Stacked, Gapless
  <1>3. 1 \in 1 .. cursor.rank
    BY <1>2 DEF Cursors, Ranked
  <1>4. PICK j \in 1 .. i - 1 : [revision |-> cursor.revision, rank |-> 1] \in evidence.pages[j]
    BY <1>2, <1>3 DEF ReadTo
  <1>5. j \in 1 .. Len(evidence.pages) /\ j < n
    BY <1>1
  <1>6. j \in Answered
    BY <1>1, <1>5 DEF Answered, EvidenceInv, Stacked
  <1> HIDE DEF cursor
  <1>7. [revision |-> cursor.revision, rank |-> 1].revision = cursor.revision
    OBVIOUS
  <1> QED
    BY <1>4, <1>6, <1>7 DEF ConsoleInv, EvidenceBetween, cursor

\* The evidence of a page for review is refused only after a deletion began: the cursor is
\* of the revision on the page, which no other one follows.
LEMMA RefusedEvidence ==
    ASSUME ConsoleInv, EvidenceInv, Refused(Last(evidence.stack)),
           page.state = "REVIEW_REQUIRED", page.revision > 0
    PROVE  state[Selected] \in Gone
  <1> DEFINE cursor == Last(evidence.stack)
             n      == Len(evidence.stack)
  <1>1. page.revision = revision /\ revision \in Nat /\ page.revision \in Nat
    BY DEF ConsoleInv, Typed, View, ReviewFinal
  <1>2. n \in Nat /\ n > 0 /\ cursor = evidence.stack[n] /\ evidence.stack[1] = None
    BY DEF EvidenceInv, EvidenceTyped, Stacked, Last
  <1>3. n > 1 => cursor.revision = revision /\ cursor.rank \in Nat
    <2> SUFFICES ASSUME n > 1 PROVE cursor.revision = revision /\ cursor.rank \in Nat
      OBVIOUS
    <2>1. n \in 2 .. n
      BY <1>2
    <2>2. cursor.revision = revision
      BY <1>1, <1>2, <2>1, CursorBetween
    <2>3. cursor.rank \in Nat
      BY <1>2, <2>1 DEF EvidenceInv, Stacked, Cursors, Ranked
    <2> QED
      BY <2>2, <2>3
  <1>4. cursor # None => n > 1
    BY <1>2
  <1> HIDE DEF cursor, n
  <1>5. CandidateStart(cursor) \in Nat
    BY <1>3, <1>4 DEF CandidateStart
  <1>6. PreflightRevision = 0
    BY <1>5, NoneAssumption DEF Refused, cursor
  <1> QED
    BY <1>1, <1>6 DEF PreflightRevision, Gone

\* A refused page stays one of a deleted document until it is read again.
LEMMA RefusedInvariant == Spec => []RefusedGone
  <1>1. Init => RefusedGone
    BY DEF Init, RefusedGone
  <1>2. ASSUME ConsoleInv, EvidenceInv, RefusedGone, [Next]_vars PROVE RefusedGone'
    <2>1. CASE ReadDocument
      BY <2>1 DEF ReadDocument, RefusedGone
    <2>2. CASE ReadEvidence
      <3>1. /\ UNCHANGED <<page, state>> /\ page.revision > 0
            /\ problem' = "refused" => Refused(Last(evidence.stack))
        BY <2>2 DEF ReadEvidence, service
      <3> QED
        BY <1>2, <3>1, RefusedEvidence DEF RefusedGone
    <2>3. CASE Refresh \/ NextCandidates \/ PreviousCandidates
      <3>1. UNCHANGED <<problem, state>> /\ page' = [page EXCEPT !.read = FALSE]
        BY <2>3 DEF Refresh, NextCandidates, PreviousCandidates, Reopen, service
      <3>2. page'.state = page.state
        BY <1>2, <3>1 DEF ConsoleInv, Typed, View
      <3> QED
        BY <1>2, <3>1, <3>2 DEF RefusedGone
    <2>4. ASSUME NEW key, HandleRetry(key) PROVE UNCHANGED <<page, problem>>
      BY <2>4 DEF HandleRetry, Retried, Accept, Become, Ignore
    <2>5. CASE Serve
      <3>1. UNCHANGED <<page, problem>>
        BY <2>4, <2>5 DEF Serve, Move, FinishPreflight, Accept, Finish, Fail, OtherRetry, Retried,
                          DeliverLate, OtherOperator, RequestDeletion, RecordDecision, Become, Seal
      <3> QED
        BY <1>2, <2>5, <3>1, GoneStays DEF RefusedGone, ConsoleInv
    <2>6. CASE \/ \E action \in Decisions : Decide(action)
               \/ Delete \/ Retry \/ RetryTimesOut
      <3>1. UNCHANGED <<page, problem>>
        BY <2>4, <2>6 DEF Decide, Delete, RequestDeletion, RecordDecision, Accept, Become, Retry,
                          RetryTimesOut, Ignore
      <3>2. Inspect
        BY <2>6 DEF Inspect
      <3> QED
        BY <1>2, <3>1, <3>2, GoneStays DEF RefusedGone, ConsoleInv
    <2>7. CASE Browse
      BY <1>2, <2>7 DEF Browse, ReadList, Rerun, NextPage, PreviousPage, ChangeScope, service, RefusedGone
    <2>8. CASE UNCHANGED vars
      BY <1>2, <2>8 DEF vars, service, RefusedGone
    <2> QED
      BY <1>2, <2>1, <2>2, <2>3, <2>5, <2>6, <2>7, <2>8 DEF Next, Inspect
  <1> QED
    BY <1>1, <1>2, ConsoleInvariant, EvidenceInvariant, PTL DEF Spec

\* The candidates beside an offered decision are of the revision it binds to, although the
\* page is put together from two reads with the worker and other operators in between; and a
\* page that was refused them offers a decision that is refused too (_render_detail,
\* get_preflight, _require_current_review_revision).
THEOREM DecisionsInformed == Spec => []DecisionSeesEvidence
  <1>1. ASSUME ConsoleInv, RefusedGone PROVE DecisionSeesEvidence
    <2> SUFFICES ASSUME "KEEP" \in AllowedActions(page)
                 PROVE  /\ \A i \in Answered : \A c \in evidence.pages[i] : c.revision = page.revision
                        /\ problem = "refused" => ~DecisionTaken
      BY DEF DecisionSeesEvidence
    <2>1. page.state = "REVIEW_REQUIRED"
      BY DEF AllowedActions, Failed, Working, FailedFrom
    <2>2. ASSUME NEW i \in Answered, NEW c \in evidence.pages[i] PROVE c.revision = page.revision
      BY <1>1, <2>1 DEF ConsoleInv, Typed, View, EvidenceBetween, ReviewFinal
    <2>3. problem = "refused" => ~DecisionTaken
      BY <1>1, <2>1 DEF RefusedGone, Gone, DecisionTaken
    <2> QED
      BY <2>2, <2>3
  <1> QED
    BY <1>1, ConsoleInvariant, RefusedInvariant, PTL
=============================================================================
