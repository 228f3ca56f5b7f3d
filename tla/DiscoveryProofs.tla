--------------------------- MODULE DiscoveryProofs ---------------------------
(***************************************************************************)
(* The search for duplicates, for any documents, chunks, slots, budget and *)
(* bounds.  An action works on one document d: it moves the thread of d    *)
(* and, by an update of the screening collection, the late points of the   *)
(* others.  Beside says what is left to the other documents, and every     *)
(* part of the invariant is looked at for d and, by Beside, for them.      *)
(***************************************************************************)
EXTENDS Discovery, TLAPS

-----------------------------------------------------------------------------
(* The invariant. *)

\* The steps of the three operations, and those of a search and what follows it.
Preflight   == {"prepare", "clear", "upsert", "query", "catalog", "record", "classify",
                "seal", "finish"}
Publication == {"activate", "unscreen", "publish"}
Deletion    == {"delete_active", "delete_screening", "purge"}
Searching   == {"query", "catalog", "record", "classify", "seal", "finish"}

\* A thread works on the operation that the state of its document names.
ThreadFits(d) ==
    /\ At(d, "idle") => run[d] = Fresh
    /\ run[d].pc \in Preflight => state[d] = "PREFLIGHTING"
    /\ run[d].pc \in Publication => state[d] = "PUBLISHING"
    /\ run[d].pc \in Deletion => state[d] = "DELETING"

\* What a thread has gathered at each step: nothing before its search, hits on
\* others while it searches, candidates once the catalog has confirmed the hits.
SearchFits(d) ==
    /\ run[d].pc \notin Searching => run[d].next = 0
    /\ run[d].seen[d] = None
    /\ \A e \in Documents : run[d].dense[e] # {} => run[d].seen[e] # None
    /\ run[d].pc \in {"prepare", "clear", "upsert", "query", "catalog"} => run[d].found = {}
    /\ \A e \in run[d].found : e # d /\ revision[e] > 0

\* The answers of the models: the reasons that keep a review open are there exactly
\* when some answer on a judged candidate is not valid.
AnswersFit(d) ==
    /\ run[d].judged \subseteq run[d].found
    /\ run[d].valid \subseteq run[d].judged \X Roles
    /\ run[d].reasons = {} <=> run[d].valid = run[d].judged \X Roles
    /\ run[d].pc \in {"seal", "finish"} => run[d].judged = run[d].found

\* The content and the points of a document at each step of its life.
PointsFit(d) ==
    /\ screening[d] <= revision[d] /\ late[d] <= revision[d] /\ active[d] <= revision[d]
    /\ d \in content <=> revision[d] > 0 /\ state[d] # "DELETED"
    /\ \/ run[d].pc \in Preflight \ {"prepare"}
       \/ state[d] \in {"REVIEW_REQUIRED", "PUBLISHING", "READY"}
       => revision[d] > 0
    /\ state[d] = "ABSENT" => revision[d] = 0
    /\ late[d] # 0 =>
        \/ state[d] = "PREFLIGHT_FAILED"
        \/ /\ state[d] \in {"PREFLIGHTING", "DELETING"}
           /\ run[d].pc \in {"idle", "prepare", "clear", "delete_active", "delete_screening"}
    /\ active[d] # 0 =>
        \/ state[d] \in {"PUBLISHING", "READY"}
        \/ state[d] = "DELETING" /\ run[d].pc \in {"idle", "delete_active"}
    /\ run[d].pc \in {"unscreen", "publish"} \/ state[d] = "READY" => active[d] # 0
    /\ run[d].pc \in {"publish", "purge"} \/ state[d] \in {"READY", "DELETED"} => screening[d] = 0

\* A preflight that failed for good met a document that is deleted by now.
FailureFits(d) ==
    state[d] = "PREFLIGHT_FAILED" /\ ~retryable[d] =>
        \E e \in Documents \ {d} : state[e] = "DELETED"

Fits(d) == ThreadFits(d) /\ SearchFits(d) /\ AnswersFit(d) /\ PointsFit(d) /\ FailureFits(d)

Inv == TypeOK /\ \A d \in Documents : Fits(d)

-----------------------------------------------------------------------------
(* Two documents that meet. *)

\* The preflight of a document has made it visible to the searches of others.
Sought(d) ==
    run[d].pc \in Searching \/ state[d] \in {"REVIEW_REQUIRED", "PUBLISHING", "READY"}

SoughtVisible == \A d \in Documents : Sought(d) => screening[d] # 0 \/ active[d] # 0

StrongHit(d, e) == \E c \in run[d].dense[e] : Similarity[c] = "strong"

\* d has found e or is bound to find it: of the two strong chunks j and k, the
\* search of j meets e where it is screened, and if e went to the active
\* collection in the middle of it, the search of k meets e there.
Meets(d, e, j, k) ==
    /\ At(d, "query") =>
        \/ StrongHit(d, e)
        \/ run[d].next <= 4 * (j - 1) + 1
        \/ active[e] # 0 /\ run[d].next <= 4 * (k - 1)
    /\ At(d, "catalog") => StrongHit(d, e)
    /\ run[d].pc \in {"record", "classify", "seal"} => e \in run[d].found
    /\ At(d, "finish") \/ run[d].pc \notin Searching => e \in named[d]

PairsMeet(j, k) ==
    \A d, e \in Documents : d # e /\ Sought(d) /\ Sought(e) =>
        Meets(d, e, j, k) \/ Meets(e, d, j, k)

-----------------------------------------------------------------------------
(* Types. *)

Local ==
    [pc : Step, next : 0 .. 4 * Len(Similarity),
     seen : [Documents -> Hit \cup {None}],
     dense : [Documents -> SUBSET Chunks], sparse : [Documents -> SUBSET Chunks],
     found : SUBSET Documents, judged : SUBSET Documents,
     valid : SUBSET (Documents \X Roles), reasons : SUBSET Reasons]

\* The length of the document's chunks is a number.
LEMMA ChunksTyped == Len(Similarity) \in Nat /\ Chunks = 1 .. Len(Similarity)
  BY SimilarityAssumption DEF Chunks

\* The locals of a thread that has no operation are locals.
LEMMA FreshTyped ==
    /\ Fresh \in Local /\ Fresh.pc = "idle" /\ Fresh.next = 0
    /\ \A e \in Documents : Fresh.seen[e] = None /\ Fresh.dense[e] = {}
    /\ Fresh.found = {} /\ Fresh.judged = {} /\ Fresh.valid = {} /\ Fresh.reasons = {}
  BY ChunksTyped DEF Fresh, Local, Step

\* A thread that goes on to its next step keeps its other locals.
LEMMA GotoKeeps ==
    ASSUME run \in [Documents -> Local], NEW d \in Documents, NEW p \in Step, Goto(d, p)
    PROVE  /\ run' \in [Documents -> Local]
           /\ \A e \in Documents \ {d} : run'[e] = run[e]
           /\ run'[d].pc = p
           /\ run'[d].next = run[d].next /\ run'[d].seen = run[d].seen
           /\ run'[d].dense = run[d].dense /\ run'[d].found = run[d].found
           /\ run'[d].judged = run[d].judged /\ run'[d].valid = run[d].valid
           /\ run'[d].reasons = run[d].reasons
  <1>1. run' = [run EXCEPT ![d] = [run[d] EXCEPT !.pc = p]]
    BY DEF Goto
  <1>2. [run[d] EXCEPT !.pc = p] \in Local
    <2>1. \A l \in Local : [l EXCEPT !.pc = p] \in Local
      BY DEF Local
    <2> QED
      BY <2>1
  <1>3. run' \in [Documents -> Local] /\ run'[d] = [run[d] EXCEPT !.pc = p]
    BY <1>1, <1>2
  <1>4. \A e \in Documents \ {d} : run'[e] = run[e]
    BY <1>1
  <1>5. run[d] \in Local
    OBVIOUS
  <1> QED
    BY <1>3, <1>4, <1>5 DEF Local

\* A thread that ends forgets its locals.
LEMMA EndForgets ==
    ASSUME run \in [Documents -> Local], NEW d \in Documents, End(d)
    PROVE  /\ run' \in [Documents -> Local]
           /\ \A e \in Documents \ {d} : run'[e] = run[e]
           /\ run'[d] = Fresh
  BY FreshTyped DEF End

\* The type invariant, with the locals named.
LEMMA TypeParts ==
    TypeOK <=>
        /\ state \in [Documents -> States]
        /\ retryable \in [Documents -> BOOLEAN]
        /\ revision \in [Documents -> 0 .. MaxRevisions]
        /\ content \subseteq Documents
        /\ screening \in [Documents -> 0 .. MaxRevisions]
        /\ late \in [Documents -> 0 .. MaxRevisions]
        /\ active \in [Documents -> 0 .. MaxRevisions]
        /\ named \in [Documents -> SUBSET Documents]
        /\ run \in [Documents -> Local]
        /\ requests \in 0 .. MaxRequests
  BY DEF TypeOK, Local

\* The same after a step.
LEMMA TypePartsNext ==
    TypeOK' <=>
        /\ state' \in [Documents -> States]
        /\ retryable' \in [Documents -> BOOLEAN]
        /\ revision' \in [Documents -> 0 .. MaxRevisions]
        /\ content' \subseteq Documents
        /\ screening' \in [Documents -> 0 .. MaxRevisions]
        /\ late' \in [Documents -> 0 .. MaxRevisions]
        /\ active' \in [Documents -> 0 .. MaxRevisions]
        /\ named' \in [Documents -> SUBSET Documents]
        /\ run' \in [Documents -> Local]
        /\ requests' \in 0 .. MaxRequests
  BY DEF TypeOK, Local

\* A search that goes on keeps well-typed locals.
LEMMA QueryTyped ==
    ASSUME TypeOK, NEW d \in Documents, Query(d)
    PROVE  run' \in [Documents -> Local]
  <1> DEFINE q == run[d].next
             hits == Hits(d, q)
             new == DOMAIN hits
             n == 4 * Len(Similarity)
  <1>t. run \in [Documents -> Local]
    BY TypeParts
  <1>1. CASE Conflict(d, hits)
    BY <1>1, <1>t, EndForgets DEF Query, Fail
  <1>2. CASE ~Conflict(d, hits)
    <2>1. /\ q \in 0 .. n /\ q < n /\ At(d, "query")
          /\ run' = [run EXCEPT
                    ![d].next = q + 1,
                    ![d].pc = IF q + 1 = 4 * Len(Similarity) THEN "catalog" ELSE "query",
                    ![d].seen = [e \in Documents |-> IF e \in new THEN hits[e] ELSE @[e]],
                    ![d].dense = [e \in Documents |->
                        IF e \in new /\ Dense(q) THEN @[e] \cup {Chunk(q)} ELSE @[e]],
                    ![d].sparse = [e \in Documents |->
                        IF e \in new /\ ~Dense(q) THEN @[e] \cup {Chunk(q)} ELSE @[e]]]
      BY <1>2, <1>t DEF Query, Local
    <2>2. Chunk(q) \in Chunks
      <3>1. \A l \in Nat : \A i \in 0 .. 4 * l : i < 4 * l => (i \div 4) + 1 \in 1 .. l
        OBVIOUS
      <3> QED
        BY <2>1, <3>1, ChunksTyped DEF Chunk
    <2>3. \A e \in new : hits[e] \in Hit
      <3>1. active \in [Documents -> 0 .. MaxRevisions] /\ screening \in [Documents -> 0 .. MaxRevisions]
        BY TypeParts
      <3>2. Source(q) \in {"active", "screening"}
        BY DEF Source
      <3> QED
        BY <3>1, <3>2, LimitsAssumption DEF Hits, Hit
    <2>4. q + 1 \in 0 .. n
      <3>1. n \in Nat
        BY ChunksTyped
      <3>2. q \in 0 .. n /\ q < n
        BY <2>1
      <3> HIDE DEF q, n
      <3> QED
        BY <3>1, <3>2
    <2>5. new \subseteq Documents
      BY DEF Hits
    <2>6. /\ [e \in Documents |-> IF e \in new THEN hits[e] ELSE run[d].seen[e]]
                \in [Documents -> Hit \cup {None}]
          /\ [e \in Documents |->
                IF e \in new /\ Dense(q) THEN run[d].dense[e] \cup {Chunk(q)} ELSE run[d].dense[e]]
                \in [Documents -> SUBSET Chunks]
          /\ [e \in Documents |->
                IF e \in new /\ ~Dense(q) THEN run[d].sparse[e] \cup {Chunk(q)} ELSE run[d].sparse[e]]
                \in [Documents -> SUBSET Chunks]
      <3> HIDE DEF q, hits, new
      <3> QED
        BY <1>t, <2>2, <2>3 DEF Local
    <2> DEFINE seen == [e \in Documents |-> IF e \in new THEN hits[e] ELSE run[d].seen[e]]
               dense == [e \in Documents |->
                IF e \in new /\ Dense(q) THEN run[d].dense[e] \cup {Chunk(q)} ELSE run[d].dense[e]]
               sparse == [e \in Documents |->
                IF e \in new /\ ~Dense(q) THEN run[d].sparse[e] \cup {Chunk(q)} ELSE run[d].sparse[e]]
               pc == IF q + 1 = 4 * Len(Similarity) THEN "catalog" ELSE "query"
               next == [run[d] EXCEPT !.next = q + 1, !.pc = pc, !.seen = seen,
                                      !.dense = dense, !.sparse = sparse]
    <2>7. run' = [run EXCEPT ![d] = next]
      BY <1>t, <2>1
    <2>8. next \in Local
      <3>1. seen \in [Documents -> Hit \cup {None}] /\ dense \in [Documents -> SUBSET Chunks]
            /\ sparse \in [Documents -> SUBSET Chunks] /\ pc \in Step /\ run[d] \in Local
        BY <1>t, <2>6 DEF Step
      <3> HIDE DEF q, hits, new, n, seen, dense, sparse, pc
      <3> QED
        BY <2>4, <3>1 DEF Local, n
    <2> QED
      BY <1>t, <2>7, <2>8
  <1> QED
    BY <1>1, <1>2

-----------------------------------------------------------------------------
(* One step. *)

Action(d) == Upload(d) \/ Keep(d) \/ Delete(d) \/ Retry(d) \/ Work(d)

\* What a step on document d leaves to the others: everything, but that a late
\* upsert of theirs may arrive with it.
Beside(d) ==
    \A e \in Documents \ {d} :
        /\ run'[e] = run[e] /\ state'[e] = state[e] /\ retryable'[e] = retryable[e]
        /\ revision'[e] = revision[e] /\ active'[e] = active[e] /\ named'[e] = named[e]
        /\ e \in content' <=> e \in content
        /\ \/ screening'[e] = screening[e] /\ late'[e] = late[e]
           \/ late[e] # 0 /\ screening'[e] = late[e] /\ late'[e] = 0

\* An update that is waited for sets the points of d; no upsert is late after it.
LEMMA UpdateScreens ==
    ASSUME TypeOK, NEW d \in Documents, NEW r \in 0 .. MaxRevisions, ScreeningUpdate(d, r)
    PROVE  /\ screening' \in [Documents -> 0 .. MaxRevisions]
           /\ late' \in [Documents -> 0 .. MaxRevisions]
           /\ screening'[d] = r /\ late'[d] = 0
           /\ \A e \in Documents \ {d} :
                \/ screening'[e] = screening[e] /\ late'[e] = late[e]
                \/ late[e] # 0 /\ screening'[e] = late[e] /\ late'[e] = 0
  BY TypeParts, LimitsAssumption DEF ScreeningUpdate

\* A preflight that fails ends its thread.
LEMMA FailEnds ==
    ASSUME TypeOK, NEW d \in Documents, NEW again \in BOOLEAN, Fail(d, again)
    PROVE  /\ run' \in [Documents -> Local] /\ run'[d] = Fresh
           /\ \A e \in Documents \ {d} : run'[e] = run[e]
           /\ state' \in [Documents -> States] /\ state' = [state EXCEPT ![d] = "PREFLIGHT_FAILED"]
           /\ retryable' \in [Documents -> BOOLEAN] /\ retryable' = [retryable EXCEPT ![d] = again]
           /\ UNCHANGED <<content, named, requests>>
  BY TypeParts, EndForgets DEF Fail, States

\* The models' answer on a candidate changes what is judged, valid and open.
LEMMA JudgeAdds ==
    ASSUME run \in [Documents -> Local], NEW d \in Documents, NEW e \in Documents,
           NEW roles \in SUBSET Roles, NEW reason \in Reasons, Judge(d, e, roles, reason)
    PROVE  /\ run' \in [Documents -> Local]
           /\ \A x \in Documents \ {d} : run'[x] = run[x]
           /\ run'[d].pc = run[d].pc
           /\ run'[d].next = run[d].next /\ run'[d].seen = run[d].seen
           /\ run'[d].dense = run[d].dense /\ run'[d].found = run[d].found
           /\ run'[d].judged = run[d].judged \cup {e}
           /\ run'[d].valid = run[d].valid \cup ({e} \X roles)
           /\ run'[d].reasons = IF roles = Roles THEN run[d].reasons
                                ELSE run[d].reasons \cup {reason}
  <1> DEFINE judged == run[d].judged \cup {e}
             valid == run[d].valid \cup ({e} \X roles)
             reasons == IF roles = Roles THEN run[d].reasons ELSE run[d].reasons \cup {reason}
             next == [run[d] EXCEPT !.judged = judged, !.valid = valid, !.reasons = reasons]
  <1>1. run' = [run EXCEPT ![d] = next]
    BY DEF Judge
  <1>2. run[d] \in Local
    OBVIOUS
  <1>3. judged \in SUBSET Documents /\ valid \in SUBSET (Documents \X Roles)
        /\ reasons \in SUBSET Reasons
    BY <1>2 DEF Local
  <1> HIDE DEF judged, valid, reasons
  <1>4. /\ next \in Local /\ next.pc = run[d].pc /\ next.next = run[d].next
        /\ next.seen = run[d].seen /\ next.dense = run[d].dense /\ next.found = run[d].found
        /\ next.judged = judged /\ next.valid = valid /\ next.reasons = reasons
    BY <1>2, <1>3 DEF Local
  <1> HIDE DEF next
  <1>5. run' \in [Documents -> Local] /\ run'[d] = next
        /\ \A x \in Documents \ {d} : run'[x] = run[x]
    BY <1>1, <1>4
  <1> QED
    BY <1>4, <1>5 DEF judged, valid, reasons

\* A classification judges one more candidate, or meets one that is purged.
LEMMA ClassifyCases ==
    ASSUME TypeOK, NEW d \in Documents, Classify(d)
    PROVE  /\ At(d, "classify") /\ UNCHANGED <<revision, screening, late, active>>
           /\ \E e \in run[d].found \ run[d].judged :
                \/ /\ \E roles \in SUBSET Roles, reason \in Reasons : Judge(d, e, roles, reason)
                   /\ UNCHANGED catalog
                \/ e \notin content /\ Fail(d, FALSE)
  <1>1. PICK e \in run[d].found \ run[d].judged :
            CASE Cardinality(run[d].judged) >= Budget ->
                    /\ Judge(d, e, {}, "advisory_candidate_budget")
                    /\ UNCHANGED catalog
              [] Cardinality(run[d].judged) < Budget /\ e \notin content ->
                    Fail(d, FALSE)
              [] OTHER ->
                    /\ \E roles \in SUBSET Roles : Judge(d, e, roles, "advisory_incomplete")
                    /\ UNCHANGED catalog
    BY DEF Classify
  <1> DEFINE n == Cardinality(run[d].judged)
             J == \E roles \in SUBSET Roles, reason \in Reasons : Judge(d, e, roles, reason)
  <1>2. Judge(d, e, {}, "advisory_candidate_budget") => J
    BY DEF Reasons
  <1>3. (\E roles \in SUBSET Roles : Judge(d, e, roles, "advisory_incomplete")) => J
    BY DEF Reasons
  <1>4. \/ J /\ UNCHANGED catalog
        \/ e \notin content /\ Fail(d, FALSE)
    <2> HIDE DEF J
    <2>1. CASE n >= Budget /\ Judge(d, e, {}, "advisory_candidate_budget") /\ UNCHANGED catalog
      BY <2>1, <1>2
    <2>2. CASE n < Budget /\ e \notin content /\ Fail(d, FALSE)
      BY <2>2
    <2>3. CASE (\E roles \in SUBSET Roles : Judge(d, e, roles, "advisory_incomplete"))
               /\ UNCHANGED catalog
      BY <2>3, <1>3
    <2> QED
      BY <1>1, <2>1, <2>2, <2>3, Zenon
  <1> QED
    BY <1>1, <1>4 DEF Classify

\* Every step keeps the types and leaves the other documents alone.
LEMMA StepTyped ==
    ASSUME TypeOK, NEW d \in Documents, Action(d)
    PROVE  TypeOK' /\ Beside(d)
  <1>t. run \in [Documents -> Local]
    BY TypeParts
  <1> USE TypeParts, TypePartsNext, LimitsAssumption
  <1>0. ASSUME NEW from, NEW to \in States, Request(d, from, to)
        PROVE  TypeOK' /\ Beside(d)
    BY <1>0 DEF Request, Beside
  <1>1. CASE Upload(d)
    BY <1>1 DEF Upload, Beside, States
  <1>2. CASE Keep(d)
    BY <1>2, <1>0 DEF Keep, States
  <1>3. CASE Delete(d)
    BY <1>3, <1>0 DEF Delete, States
  <1>4. CASE Retry(d)
    BY <1>4, <1>0 DEF Retry, States
  <1>5. CASE Start(d)
    <2>1. First[state[d]] \in Step
      BY <1>5 DEF Start, First, Step
    <2> QED
      BY <1>5, <1>t, <2>1, GotoKeeps DEF Start, Beside, catalog
  <1>6. CASE Interrupt(d)
    BY <1>6, <1>t, EndForgets DEF Interrupt, Beside
  <1>7. CASE Prepare(d)
    <2>1. run' \in [Documents -> Local] /\ \A e \in Documents \ {d} : run'[e] = run[e]
      BY <1>7, <1>t, GotoKeeps DEF Prepare, Step
    <2>2. revision[d] + 1 \in 0 .. MaxRevisions
      BY <1>7 DEF Prepare
    <2>3. revision' \in [Documents -> 0 .. MaxRevisions]
          /\ \A e \in Documents \ {d} : revision'[e] = revision[e]
      BY <1>7, <2>2 DEF Prepare
    <2>4. content' \subseteq Documents /\ \A e \in Documents \ {d} : e \in content' <=> e \in content
      BY <1>7 DEF Prepare
    <2>5. UNCHANGED <<state, retryable, screening, late, active, named, requests>>
      BY <1>7 DEF Prepare
    <2> QED
      BY <2>1, <2>3, <2>4, <2>5 DEF Beside
  <1>8. CASE ClearScreening(d)
    <2>1. run' \in [Documents -> Local] /\ \A e \in Documents \ {d} : run'[e] = run[e]
      BY <1>8, <1>t, GotoKeeps DEF ClearScreening, Step
    <2> QED
      BY <1>8, <2>1, UpdateScreens DEF ClearScreening, Beside, catalog
  <1>9. CASE UpsertScreening(d)
    <2>1. run' \in [Documents -> Local] /\ \A e \in Documents \ {d} : run'[e] = run[e]
      BY <1>9, <1>t, GotoKeeps DEF UpsertScreening, Step
    <2> QED
      BY <1>9, <2>1, UpdateScreens DEF UpsertScreening, Beside, catalog
  <1>10. CASE UpsertTimesOut(d)
    BY <1>10, <1>t, EndForgets DEF UpsertTimesOut, Beside, States
  <1>11. CASE ApplyLate(d)
    BY <1>11, <1>t DEF ApplyLate, Beside, catalog
  <1>f. ASSUME NEW again \in BOOLEAN, Fail(d, again), UNCHANGED <<revision, screening, late, active>>
        PROVE  TypeOK' /\ Beside(d)
    BY <1>f, FailEnds DEF Beside
  <1>12. CASE Query(d)
    <2>1. CASE Conflict(d, Hits(d, run[d].next))
      BY <1>12, <2>1, <1>f DEF Query
    <2>2. CASE ~Conflict(d, Hits(d, run[d].next))
      <3>1. UNCHANGED catalog /\ UNCHANGED <<revision, screening, late, active>>
            /\ \A e \in Documents \ {d} : run'[e] = run[e]
        BY <1>12, <2>2, <1>t DEF Query
      <3>2. run' \in [Documents -> Local]
        BY <1>12, QueryTyped
      <3> QED
        BY <3>1, <3>2 DEF catalog, Beside
    <2> QED
      BY <2>1, <2>2
  <1>13. CASE CatalogContext(d)
    <2> DEFINE hits == {e \in Documents : run[d].seen[e] # None}
    <2>1. CASE \A e \in hits : Confirmed(e, run[d].seen[e])
      <3> DEFINE found == {e \in hits : Qualified(d, e)}
                 next == [run[d] EXCEPT !.pc = "record", !.found = found]
      <3>1. run' = [run EXCEPT ![d] = next] /\ UNCHANGED catalog
            /\ UNCHANGED <<revision, screening, late, active>>
        BY <1>13, <2>1 DEF CatalogContext
      <3>2. next \in Local
        <4>1. found \in SUBSET Documents /\ "record" \in Step /\ run[d] \in Local
          BY <1>t DEF Step
        <4> HIDE DEF found
        <4> QED
          BY <4>1 DEF Local
      <3> HIDE DEF next
      <3> QED
        BY <1>t, <3>1, <3>2 DEF catalog, Beside
    <2>2. CASE ~(\A e \in hits : Confirmed(e, run[d].seen[e]))
      BY <1>13, <2>2, <1>f DEF CatalogContext
    <2> QED
      BY <2>1, <2>2
  <1>14. CASE RecordCandidates(d)
    <2>1. CASE \A e \in run[d].found : Recordable(d, e)
      BY <1>14, <2>1, <1>t, GotoKeeps DEF RecordCandidates, Step, catalog, Beside
    <2>2. CASE ~(\A e \in run[d].found : Recordable(d, e))
      BY <1>14, <2>2, <1>f DEF RecordCandidates
    <2> QED
      BY <2>1, <2>2
  <1>15. CASE Classify(d)
    <2>1. UNCHANGED <<revision, screening, late, active>>
      BY <1>15 DEF Classify
    <2>2. PICK e \in run[d].found \ run[d].judged :
            \/ /\ \E roles \in SUBSET Roles, reason \in Reasons : Judge(d, e, roles, reason)
               /\ UNCHANGED catalog
            \/ e \notin content /\ Fail(d, FALSE)
      BY <1>15, ClassifyCases
    <2>3. e \in Documents
      BY <1>t DEF Local
    <2>4. CASE Fail(d, FALSE)
      BY <2>1, <2>4, <1>f
    <2>5. CASE (\E roles \in SUBSET Roles, reason \in Reasons : Judge(d, e, roles, reason))
               /\ UNCHANGED catalog
      <3>1. run' \in [Documents -> Local] /\ \A x \in Documents \ {d} : run'[x] = run[x]
        BY <2>3, <2>5, <1>t, JudgeAdds
      <3> QED
        BY <2>1, <2>5, <3>1 DEF catalog, Beside
    <2> QED
      BY <2>2, <2>4, <2>5
  <1>16. CASE AppendEvidence(d)
    <2>1. CASE Goto(d, "seal") /\ UNCHANGED catalog
      BY <1>16, <2>1, <1>t, GotoKeeps DEF AppendEvidence, Step, catalog, Beside
    <2>2. CASE Fail(d, TRUE)
      BY <1>16, <2>2, <1>f DEF AppendEvidence
    <2> QED
      BY <1>16, <2>1, <2>2 DEF AppendEvidence
  <1>17. CASE Seal(d)
    <2>1. CASE Sealable(d)
      <3>1. run' \in [Documents -> Local] /\ \A e \in Documents \ {d} : run'[e] = run[e]
        BY <1>17, <2>1, <1>t, GotoKeeps DEF Seal, Step
      <3>2. run[d].found \in SUBSET Documents
        BY <1>t DEF Local
      <3> QED
        BY <1>17, <2>1, <3>1, <3>2 DEF Seal, Beside
    <2>2. CASE ~Sealable(d)
      BY <1>17, <2>2, <1>f DEF Seal
    <2> QED
      BY <2>1, <2>2
  <1>18. CASE FinishPreflight(d)
    BY <1>18, <1>t, EndForgets DEF FinishPreflight, States, Beside
  <1>19. CASE Activate(d)
    BY <1>19, <1>t, GotoKeeps DEF Activate, Step, catalog, Beside
  <1>20. CASE RemoveScreening(d)
    <2>1. run' \in [Documents -> Local] /\ \A e \in Documents \ {d} : run'[e] = run[e]
      BY <1>20, <1>t, GotoKeeps DEF RemoveScreening, Step
    <2> QED
      BY <1>20, <2>1, UpdateScreens DEF RemoveScreening, Beside, catalog
  <1>21. CASE FinishPublication(d)
    BY <1>21, <1>t, EndForgets DEF FinishPublication, States, Beside
  <1>22. CASE DeleteActive(d)
    BY <1>22, <1>t, GotoKeeps DEF DeleteActive, Step, catalog, Beside
  <1>23. CASE DeleteScreening(d)
    <2>1. run' \in [Documents -> Local] /\ \A e \in Documents \ {d} : run'[e] = run[e]
      BY <1>23, <1>t, GotoKeeps DEF DeleteScreening, Step
    <2> QED
      BY <1>23, <2>1, UpdateScreens DEF DeleteScreening, Beside, catalog
  <1>24. CASE Purge(d)
    BY <1>24, <1>t, EndForgets DEF Purge, States, Beside
  <1> QED
    BY <1>1, <1>2, <1>3, <1>4, <1>5, <1>6, <1>7, <1>8, <1>9, <1>10, <1>11, <1>12, <1>13, <1>14,
       <1>15, <1>16, <1>17, <1>18, <1>19, <1>20, <1>21, <1>22, <1>23, <1>24 DEF Action, Work

\* At the start no document is there.
LEMMA TypeInit == Init => TypeOK
  BY TypeParts, FreshTyped, LimitsAssumption DEF Init, States

\* A step is one of some document.
LEMMA NextActs ==
    ASSUME Next
    PROVE  \E d \in Documents : Action(d)
  BY DEF Next, Action

\* Type correctness of every variable of the search.
THEOREM TypeCorrect == Spec => []TypeOK
  <1>1. TypeOK /\ [Next]_vars => TypeOK'
    <2>1. CASE Next
      BY <2>1, NextActs, StepTyped
    <2>2. CASE UNCHANGED vars
      BY <2>2 DEF vars, TypeOK
    <2> QED
      BY <2>1, <2>2
  <1> QED
    BY <1>1, TypeInit, PTL DEF Spec

-----------------------------------------------------------------------------
(* The invariant is kept for the documents beside a step. *)

\* Revisions only grow, and a deleted document stays deleted.
Onward ==
    /\ \A e \in Documents : revision'[e] >= revision[e]
    /\ \A e \in Documents : state[e] = "DELETED" => state'[e] = "DELETED"

\* Only a preparation makes a revision, and nothing works on a deleted document.
LEMMA StepOnward ==
    ASSUME Inv, NEW d \in Documents, Action(d)
    PROVE  Onward
  <1>1. TypeOK /\ ThreadFits(d) /\ TypeOK' /\ Beside(d)
    BY StepTyped DEF Inv, Fits
  <1>2. revision'[d] >= revision[d]
    <2>1. revision[d] \in Nat
      BY <1>1, TypeParts, LimitsAssumption
    <2>2. CASE Prepare(d)
      <3>1. revision'[d] = revision[d] + 1
        BY <1>1, <2>2, TypeParts DEF Prepare
      <3> QED
        BY <2>1, <3>1
    <2>3. CASE ~Prepare(d)
      <3>1. UNCHANGED revision
        BY <2>3 DEF Action, Work, Upload, Keep, Delete, Retry, Request, Start, Interrupt,
           ClearScreening, UpsertScreening, UpsertTimesOut, ApplyLate, Query, CatalogContext,
           RecordCandidates, Classify, AppendEvidence, Seal, FinishPreflight, Activate,
           RemoveScreening, FinishPublication, DeleteActive, DeleteScreening, Purge
      <3> QED
        BY <2>1, <3>1
    <2> QED
      BY <2>2, <2>3
  <1>3. ASSUME state[d] = "DELETED" PROVE state'[d] = "DELETED"
    <2>1. At(d, "idle")
      <3>1. run[d].pc \in Step
        BY <1>1, TypeParts DEF Local
      <3> QED
        BY <1>1, <1>3, <3>1 DEF ThreadFits, Step, Preflight, Publication, Deletion, At
    <2>2. ApplyLate(d)
      BY <1>3, <2>1 DEF Action, Work, Upload, Keep, Delete, Retry, Request, Start, Interrupt, First,
           Prepare, ClearScreening, UpsertScreening, UpsertTimesOut, Query, CatalogContext,
           RecordCandidates, Classify, AppendEvidence, Seal, FinishPreflight, Activate,
           RemoveScreening, FinishPublication, DeleteActive, DeleteScreening, Purge, At
    <2> QED
      BY <1>3, <2>2 DEF ApplyLate, catalog
  <1>4. \A e \in Documents \ {d} : revision'[e] >= revision[e] /\ state'[e] = state[e]
    <2>1. \A e \in Documents : revision[e] \in Nat
      BY <1>1, TypeParts, LimitsAssumption
    <2> QED
      BY <1>1, <2>1 DEF Beside
  <1> QED
    BY <1>2, <1>3, <1>4 DEF Onward

\* A step on d keeps the invariant of every other document.
LEMMA BesideFits ==
    ASSUME Inv, NEW d \in Documents, Beside(d), Onward, TypeOK', NEW e \in Documents \ {d}
    PROVE  Fits(e)'
  <1>1. TypeOK /\ Fits(e)
    BY DEF Inv
  <1>2. run'[e] = run[e] /\ state'[e] = state[e] /\ retryable'[e] = retryable[e]
        /\ revision'[e] = revision[e] /\ active'[e] = active[e]
        /\ (e \in content' <=> e \in content)
    BY DEF Beside
  <1>3. \/ screening'[e] = screening[e] /\ late'[e] = late[e]
        \/ late[e] # 0 /\ screening'[e] = late[e] /\ late'[e] = 0
    BY DEF Beside
  <1>4. ThreadFits(e)'
    BY <1>1, <1>2 DEF Fits, ThreadFits, At
  <1>5. SearchFits(e)'
    <2>1. \A x \in Documents : revision[x] \in Nat /\ revision'[x] \in Nat
      BY <1>1, TypeParts, TypePartsNext, LimitsAssumption
    <2>2. run[e].found \subseteq Documents
      BY <1>1, TypeParts DEF Local
    <2>3. \A x \in run[e].found : x # e /\ revision'[x] > 0
      BY <1>1, <2>1, <2>2 DEF Fits, SearchFits, Onward
    <2> QED
      BY <1>1, <1>2, <2>3 DEF Fits, SearchFits
  <1>6. AnswersFit(e)'
    BY <1>1, <1>2 DEF Fits, AnswersFit
  <1>7. PointsFit(e)'
    <2>1. revision[e] \in Nat /\ screening[e] \in Nat /\ late[e] \in Nat /\ active[e] \in Nat
      BY <1>1, TypeParts, LimitsAssumption
    <2> QED
      BY <1>1, <1>2, <1>3, <2>1 DEF Fits, PointsFit, ThreadFits, Preflight, Publication, Deletion
  <1>8. FailureFits(e)'
    <2>1. FailureFits(e)
      BY <1>1 DEF Fits
    <2> QED
      BY <1>2, <2>1 DEF FailureFits, Onward
  <1> QED
    BY <1>4, <1>5, <1>6, <1>7, <1>8 DEF Fits

-----------------------------------------------------------------------------
(* The invariant is kept for the document of a step. *)

\* A thread without an operation has gathered nothing.
LEMMA FreshFits ==
    ASSUME TypeOK', NEW d \in Documents, run'[d] = Fresh
    PROVE  ThreadFits(d)' /\ SearchFits(d)' /\ AnswersFit(d)'
  <1>1. ThreadFits(d)'
    BY FreshTyped DEF ThreadFits, At, Preflight, Publication, Deletion
  <1>2. SearchFits(d)'
    BY FreshTyped DEF SearchFits, Searching
  <1>3. AnswersFit(d)'
    BY FreshTyped DEF AnswersFit
  <1> QED
    BY <1>1, <1>2, <1>3

\* A thread that goes on keeps what it has gathered.
LEMMA MovedFits ==
    ASSUME Inv, TypeOK', Onward, NEW d \in Documents, NEW p \in Step, Goto(d, p),
           p \notin Searching => run[d].next = 0,
           p \in {"prepare", "clear", "upsert", "query", "catalog"} => run[d].found = {},
           p \in {"seal", "finish"} => run[d].judged = run[d].found
    PROVE  SearchFits(d)' /\ AnswersFit(d)'
  <1>1. TypeOK /\ SearchFits(d) /\ AnswersFit(d)
    BY DEF Inv, Fits
  <1>2. /\ run'[d].pc = p
        /\ run'[d].next = run[d].next /\ run'[d].seen = run[d].seen
        /\ run'[d].dense = run[d].dense /\ run'[d].found = run[d].found
        /\ run'[d].judged = run[d].judged /\ run'[d].valid = run[d].valid
        /\ run'[d].reasons = run[d].reasons
    BY <1>1, TypeParts, GotoKeeps
  <1>3. \A x \in run[d].found : x # d /\ revision'[x] > 0
    <2>1. \A x \in Documents : revision[x] \in Nat /\ revision'[x] \in Nat
      BY <1>1, TypeParts, TypePartsNext, LimitsAssumption
    <2>2. run[d].found \subseteq Documents
      BY <1>1, TypeParts DEF Local
    <2> QED
      BY <1>1, <2>1, <2>2 DEF SearchFits, Onward
  <1> QED
    BY <1>1, <1>2, <1>3 DEF SearchFits, AnswersFit

\* The failure of a preflight fits when it can be retried or its cause is deleted.
LEMMA FailFits ==
    ASSUME Inv, TypeOK', NEW d \in Documents, NEW again \in BOOLEAN, Fail(d, again),
           UNCHANGED <<revision, screening, late, active>>,
           state[d] = "PREFLIGHTING", run[d].pc \in Searching,
           again \/ \E e \in Documents \ {d} : state[e] = "DELETED"
    PROVE  Fits(d)'
  <1>1. TypeOK /\ PointsFit(d)
    BY DEF Inv, Fits
  <1>2. /\ run'[d] = Fresh /\ state'[d] = "PREFLIGHT_FAILED" /\ retryable'[d] = again
        /\ \A e \in Documents \ {d} : state'[e] = state[e]
        /\ content' = content
    BY <1>1, FailEnds, TypeParts
  <1>3. ThreadFits(d)' /\ SearchFits(d)' /\ AnswersFit(d)'
    BY <1>2, FreshFits
  <1>4. PointsFit(d)'
    BY <1>1, <1>2, FreshTyped DEF PointsFit, Preflight, Searching
  <1>5. FailureFits(d)'
    BY <1>2 DEF FailureFits
  <1> QED
    BY <1>3, <1>4, <1>5 DEF Fits

\* A request finds no thread at work and leaves the points alone.
LEMMA RequestFits ==
    ASSUME Inv, TypeOK', Onward, NEW d \in Documents, Upload(d) \/ Keep(d) \/ Delete(d) \/ Retry(d)
    PROVE  Fits(d)'
  <1>1. TypeOK /\ Fits(d)
    BY DEF Inv
  <1>2. /\ \/ state[d] = "ABSENT" /\ state'[d] = "PREFLIGHTING"
           \/ state[d] = "REVIEW_REQUIRED" /\ state'[d] = "PUBLISHING"
           \/ state[d] \in {"READY", "REVIEW_REQUIRED", "PREFLIGHT_FAILED"} /\ state'[d] = "DELETING"
           \/ state[d] = "PREFLIGHT_FAILED" /\ state'[d] = "PREFLIGHTING"
        /\ UNCHANGED <<revision, content, screening, late, active, run>>
    BY <1>1, TypeParts DEF Upload, Keep, Delete, Retry, Request
  <1>3. run[d].pc \in Step
    BY <1>1, TypeParts DEF Local
  <1>4. run[d].pc = "idle"
    BY <1>1, <1>2, <1>3 DEF Fits, ThreadFits, Preflight, Publication, Deletion, Step
  <1>5. run'[d] = Fresh
    BY <1>1, <1>2, <1>4 DEF Fits, ThreadFits, At
  <1>6. ThreadFits(d)' /\ SearchFits(d)' /\ AnswersFit(d)'
    BY <1>5, FreshFits
  <1>7. PointsFit(d)'
    <2>1. PointsFit(d)
      BY <1>1 DEF Fits
    <2>2. revision[d] \in Nat /\ screening[d] \in Nat /\ late[d] \in Nat /\ active[d] \in Nat
      BY <1>1, TypeParts, LimitsAssumption
    <2> QED
      BY <1>2, <1>4, <2>1, <2>2 DEF PointsFit, Preflight
  <1>8. FailureFits(d)'
    BY <1>2 DEF FailureFits
  <1> QED
    BY <1>6, <1>7, <1>8 DEF Fits

\* The start of an operation, and its interruption.
LEMMA StartFits ==
    ASSUME Inv, TypeOK', Onward, NEW d \in Documents, Start(d) \/ Interrupt(d)
    PROVE  Fits(d)'
  <1>1. TypeOK /\ Fits(d)
    BY DEF Inv
  <1>2. PointsFit(d) /\ ThreadFits(d) /\ SearchFits(d)
    BY <1>1 DEF Fits
  <1>t. run \in [Documents -> Local] /\ run[d].pc \in Step
    BY <1>1, TypeParts DEF Local
  <1>3. CASE Start(d)
    <2>1. /\ UNCHANGED <<state, retryable, revision, content, screening, late, active>>
          /\ At(d, "idle") /\ state[d] \in DOMAIN First /\ Goto(d, First[state[d]])
      BY <1>3 DEF Start, catalog
    <2>2. \/ state[d] = "PREFLIGHTING" /\ First[state[d]] = "prepare"
          \/ state[d] = "PUBLISHING" /\ First[state[d]] = "activate"
          \/ state[d] = "DELETING" /\ First[state[d]] = "delete_active"
      BY <2>1 DEF First
    <2>3. First[state[d]] \in Step /\ First[state[d]] \notin Searching
      BY <2>2 DEF Step, Searching
    <2>4. run[d].next = 0 /\ run[d].found = {}
      BY <1>2, <2>1, FreshTyped DEF ThreadFits
    <2>5. run'[d].pc = First[state[d]]
      BY <1>t, <2>1, <2>3, GotoKeeps
    <2>6. SearchFits(d)' /\ AnswersFit(d)'
      BY <2>1, <2>2, <2>3, <2>4, MovedFits
    <2>7. ThreadFits(d)'
      BY <2>1, <2>2, <2>5 DEF ThreadFits, At, Preflight, Publication, Deletion
    <2>8. PointsFit(d)'
      BY <1>2, <2>1, <2>2, <2>5 DEF PointsFit, At, Preflight
    <2>9. FailureFits(d)'
      BY <2>1, <2>2 DEF FailureFits
    <2> QED
      BY <2>6, <2>7, <2>8, <2>9 DEF Fits
  <1>4. CASE Interrupt(d)
    <2>1. run'[d] = Fresh /\ UNCHANGED <<state, retryable, revision, content, screening, late, active>>
          /\ ~At(d, "idle")
      BY <1>4, <1>t, EndForgets DEF Interrupt
    <2>2. state[d] \in {"PREFLIGHTING", "PUBLISHING", "DELETING"}
      BY <1>2, <1>t, <2>1 DEF ThreadFits, At, Step, Preflight, Publication, Deletion
    <2>3. ThreadFits(d)' /\ SearchFits(d)' /\ AnswersFit(d)'
      BY <2>1, FreshFits
    <2>4. PointsFit(d)'
      BY <1>2, <2>1, <2>2, FreshTyped DEF PointsFit, Preflight
    <2>5. FailureFits(d)'
      BY <2>1, <2>2 DEF FailureFits
    <2> QED
      BY <2>3, <2>4, <2>5 DEF Fits
  <1> QED
    BY <1>3, <1>4

\* The preparation and the points of a preflight, and a late upsert.
LEMMA ScreeningFits ==
    ASSUME Inv, TypeOK', Onward, NEW d \in Documents,
           Prepare(d) \/ ClearScreening(d) \/ UpsertScreening(d) \/ UpsertTimesOut(d) \/ ApplyLate(d)
    PROVE  Fits(d)'
  <1>1. TypeOK /\ Fits(d)
    BY DEF Inv
  <1>2. PointsFit(d) /\ ThreadFits(d) /\ SearchFits(d) /\ FailureFits(d)
    BY <1>1 DEF Fits
  <1>t. run \in [Documents -> Local] /\ run[d].pc \in Step
    BY <1>1, TypeParts DEF Local
  <1>n. /\ revision[d] \in 0 .. MaxRevisions /\ revision[d] \in Nat
        /\ screening[d] \in Nat /\ late[d] \in Nat /\ active[d] \in Nat
    BY <1>1, TypeParts, LimitsAssumption
  <1>3. CASE Prepare(d)
    <2>1. /\ UNCHANGED <<state, retryable, screening, late, active>>
          /\ At(d, "prepare") /\ Goto(d, "clear")
          /\ revision'[d] = revision[d] + 1 /\ content' = content \cup {d}
      BY <1>1, <1>3, TypeParts DEF Prepare
    <2>2. state[d] = "PREFLIGHTING" /\ run[d].next = 0 /\ run[d].found = {}
      BY <1>2, <2>1 DEF ThreadFits, SearchFits, At, Preflight, Searching
    <2>3. run'[d].pc = "clear"
      BY <1>t, <2>1, GotoKeeps DEF Step
    <2>4. SearchFits(d)' /\ AnswersFit(d)'
      BY <2>1, <2>2, MovedFits DEF Step, Searching
    <2>5. ThreadFits(d)'
      BY <2>1, <2>2, <2>3 DEF ThreadFits, At, Preflight, Publication, Deletion
    <2>6. PointsFit(d)'
      BY <1>2, <1>n, <2>1, <2>2, <2>3 DEF PointsFit, At, Preflight
    <2>7. FailureFits(d)'
      BY <2>1, <2>2 DEF FailureFits
    <2> QED
      BY <2>4, <2>5, <2>6, <2>7 DEF Fits
  <1>4. CASE ClearScreening(d)
    <2>1. /\ UNCHANGED <<state, retryable, revision, content, active>>
          /\ At(d, "clear") /\ Goto(d, "upsert")
          /\ screening'[d] = 0 /\ late'[d] = 0
      BY <1>1, <1>4, UpdateScreens, LimitsAssumption DEF ClearScreening, catalog
    <2>2. state[d] = "PREFLIGHTING" /\ run[d].next = 0 /\ run[d].found = {}
      BY <1>2, <2>1 DEF ThreadFits, SearchFits, At, Preflight, Searching
    <2>3. run'[d].pc = "upsert"
      BY <1>t, <2>1, GotoKeeps DEF Step
    <2>4. SearchFits(d)' /\ AnswersFit(d)'
      BY <2>1, <2>2, MovedFits DEF Step, Searching
    <2>5. ThreadFits(d)'
      BY <2>1, <2>2, <2>3 DEF ThreadFits, At, Preflight, Publication, Deletion
    <2>6. PointsFit(d)'
      BY <1>2, <1>n, <2>1, <2>2, <2>3 DEF PointsFit, At, Preflight
    <2>7. FailureFits(d)'
      BY <2>1, <2>2 DEF FailureFits
    <2> QED
      BY <2>4, <2>5, <2>6, <2>7 DEF Fits
  <1>5. CASE UpsertScreening(d)
    <2>1. /\ UNCHANGED <<state, retryable, revision, content, active>>
          /\ At(d, "upsert") /\ Goto(d, "query")
          /\ screening'[d] = revision[d] /\ late'[d] = 0
      BY <1>1, <1>5, <1>n, UpdateScreens DEF UpsertScreening, catalog
    <2>2. state[d] = "PREFLIGHTING"
      BY <1>2, <2>1 DEF ThreadFits, At, Preflight
    <2>3. run'[d].pc = "query"
      BY <1>t, <2>1, GotoKeeps DEF Step
    <2>4. run[d].found = {}
      BY <1>2, <2>1 DEF SearchFits, At
    <2>5. SearchFits(d)' /\ AnswersFit(d)'
      BY <2>1, <2>4, MovedFits DEF Step, Searching
    <2>6. ThreadFits(d)'
      BY <2>1, <2>2, <2>3 DEF ThreadFits, At, Preflight, Publication, Deletion
    <2>7. PointsFit(d)'
      BY <1>2, <1>n, <2>1, <2>2, <2>3 DEF PointsFit, At, Preflight
    <2>8. FailureFits(d)'
      BY <2>1, <2>2 DEF FailureFits
    <2> QED
      BY <2>5, <2>6, <2>7, <2>8 DEF Fits
  <1>6. CASE UpsertTimesOut(d)
    <2>1. /\ UNCHANGED <<revision, content, screening, active>>
          /\ At(d, "upsert") /\ late'[d] = revision[d]
          /\ state'[d] = "PREFLIGHT_FAILED" /\ retryable'[d] = TRUE
          /\ run'[d] = Fresh
      BY <1>1, <1>6, <1>t, EndForgets, TypeParts DEF UpsertTimesOut
    <2>2. state[d] = "PREFLIGHTING"
      BY <1>2, <2>1 DEF ThreadFits, At, Preflight
    <2>3. ThreadFits(d)' /\ SearchFits(d)' /\ AnswersFit(d)'
      BY <2>1, FreshFits
    <2>4. PointsFit(d)'
      BY <1>2, <1>n, <2>1, <2>2, FreshTyped DEF PointsFit, At, Preflight
    <2>5. FailureFits(d)'
      BY <2>1 DEF FailureFits
    <2> QED
      BY <2>3, <2>4, <2>5 DEF Fits
  <1>7. CASE ApplyLate(d)
    <2>1. /\ UNCHANGED <<state, retryable, revision, content, active, run>>
          /\ late[d] # 0 /\ screening'[d] = late[d] /\ late'[d] = 0
      BY <1>1, <1>7, TypeParts DEF ApplyLate, catalog
    <2>2. ThreadFits(d)' /\ SearchFits(d)' /\ AnswersFit(d)'
      BY <1>1, <2>1 DEF Fits, ThreadFits, SearchFits, AnswersFit, At
    <2>3. PointsFit(d)'
      BY <1>2, <1>n, <2>1 DEF PointsFit, ThreadFits, Publication, Deletion
    <2>4. FailureFits(d)'
      BY <1>2, <2>1 DEF FailureFits
    <2> QED
      BY <2>2, <2>3, <2>4 DEF Fits
  <1> QED
    BY <1>3, <1>4, <1>5, <1>6, <1>7

\* What a query that meets no conflict adds to the locals.
LEMMA QueryAdds ==
    ASSUME TypeOK, NEW d \in Documents, Query(d), ~Conflict(d, Hits(d, run[d].next))
    PROVE  LET q == run[d].next
               hits == Hits(d, q)
           IN /\ At(d, "query") /\ q \in 0 .. 4 * Len(Similarity) /\ q < 4 * Len(Similarity)
              /\ UNCHANGED <<catalog, revision, screening, late, active>>
              /\ run'[d].next = q + 1
              /\ run'[d].pc = IF q + 1 = 4 * Len(Similarity) THEN "catalog" ELSE "query"
              /\ run'[d].seen = [e \in Documents |->
                    IF e \in DOMAIN hits THEN hits[e] ELSE run[d].seen[e]]
              /\ run'[d].dense = [e \in Documents |->
                    IF e \in DOMAIN hits /\ Dense(q) THEN run[d].dense[e] \cup {Chunk(q)}
                    ELSE run[d].dense[e]]
              /\ run'[d].found = run[d].found /\ run'[d].judged = run[d].judged
              /\ run'[d].valid = run[d].valid /\ run'[d].reasons = run[d].reasons
  <1> DEFINE q == run[d].next
             hits == Hits(d, q)
             new == DOMAIN hits
             seen == [e \in Documents |-> IF e \in new THEN hits[e] ELSE run[d].seen[e]]
             dense == [e \in Documents |->
                IF e \in new /\ Dense(q) THEN run[d].dense[e] \cup {Chunk(q)} ELSE run[d].dense[e]]
             sparse == [e \in Documents |->
                IF e \in new /\ ~Dense(q) THEN run[d].sparse[e] \cup {Chunk(q)} ELSE run[d].sparse[e]]
             pc == IF q + 1 = 4 * Len(Similarity) THEN "catalog" ELSE "query"
             next == [run[d] EXCEPT !.next = q + 1, !.pc = pc, !.seen = seen,
                                    !.dense = dense, !.sparse = sparse]
  <1>1. run \in [Documents -> Local] /\ run[d] \in Local
    BY TypeParts
  <1>2. /\ run' = [run EXCEPT ![d] = next] /\ UNCHANGED catalog
        /\ UNCHANGED <<revision, screening, late, active>>
        /\ At(d, "query") /\ q < 4 * Len(Similarity)
    BY <1>1 DEF Query
  <1>3. q \in 0 .. 4 * Len(Similarity)
    BY <1>1 DEF Local
  <1>4. run'[d] = next
    BY <1>1, <1>2
  <1>5. /\ next.next = q + 1 /\ next.pc = pc /\ next.seen = seen /\ next.dense = dense
        /\ next.found = run[d].found /\ next.judged = run[d].judged
        /\ next.valid = run[d].valid /\ next.reasons = run[d].reasons
    <2> HIDE DEF q, pc, seen, dense, sparse
    <2> QED
      BY <1>1 DEF Local
  <1> HIDE DEF next
  <1> QED
    BY <1>2, <1>3, <1>4, <1>5

\* What a search that the catalog confirms has found.
LEMMA ContextFinds ==
    ASSUME TypeOK, NEW d \in Documents, CatalogContext(d),
           \A e \in {e \in Documents : run[d].seen[e] # None} : Confirmed(e, run[d].seen[e])
    PROVE  /\ At(d, "catalog") /\ UNCHANGED <<catalog, revision, screening, late, active>>
           /\ run'[d].pc = "record"
           /\ run'[d].found = {e \in Documents : run[d].seen[e] # None /\ Qualified(d, e)}
           /\ run'[d].next = run[d].next /\ run'[d].seen = run[d].seen
           /\ run'[d].dense = run[d].dense /\ run'[d].judged = run[d].judged
           /\ run'[d].valid = run[d].valid /\ run'[d].reasons = run[d].reasons
  <1> DEFINE found == {e \in {e \in Documents : run[d].seen[e] # None} : Qualified(d, e)}
             next == [run[d] EXCEPT !.pc = "record", !.found = found]
  <1>1. run \in [Documents -> Local] /\ run[d] \in Local
    BY TypeParts
  <1>2. run' = [run EXCEPT ![d] = next] /\ UNCHANGED catalog
        /\ UNCHANGED <<revision, screening, late, active>> /\ At(d, "catalog")
    BY DEF CatalogContext
  <1>3. run'[d] = next
    BY <1>1, <1>2
  <1>4. /\ next.next = run[d].next /\ next.pc = "record" /\ next.seen = run[d].seen
        /\ next.dense = run[d].dense
        /\ next.found = found /\ next.judged = run[d].judged
        /\ next.valid = run[d].valid /\ next.reasons = run[d].reasons
    <2> HIDE DEF found
    <2> QED
      BY <1>1 DEF Local
  <1>5. found = {e \in Documents : run[d].seen[e] # None /\ Qualified(d, e)}
    OBVIOUS
  <1> HIDE DEF next, found
  <1> QED
    BY <1>2, <1>3, <1>4, <1>5

\* What the worker concludes from complete answers is sealed.
LEMMA SealableWhenJudged ==
    ASSUME NEW d \in Documents, AnswersFit(d), run[d].judged = run[d].found
    PROVE  Sealable(d)
  <1>1. AdvisoryComplete(d) <=> run[d].reasons = {}
    BY DEF AnswersFit, AdvisoryComplete
  <1>2. Clear(d) <=> AdvisoryComplete(d) /\ run[d].found = {} /\ run[d].reasons = {}
    BY <1>1 DEF Clear
  <1>3. ASSUME NEW e \in run[d].found, AdvisoryComplete(d)
        PROVE  Roles \subseteq ValidEvidence(d, e) /\ "INCOMPLETE" \notin Evidence(d, e)
    <2>1. Roles \subseteq ValidEvidence(d, e)
      BY <1>3 DEF AdvisoryComplete, ValidEvidence
    <2> QED
      BY <2>1 DEF Evidence, Roles
  <1>4. \A e \in run[d].found : "DETERMINISTIC" \in ValidEvidence(d, e)
    BY DEF ValidEvidence
  <1> QED
    BY <1>1, <1>2, <1>3, <1>4 DEF Sealable

\* The steps of a search, the models' answers and the seal.
LEMMA SearchingFits ==
    ASSUME Inv, TypeOK', Onward, NEW d \in Documents,
           Query(d) \/ CatalogContext(d) \/ RecordCandidates(d) \/ Classify(d)
             \/ AppendEvidence(d) \/ Seal(d) \/ FinishPreflight(d)
    PROVE  Fits(d)'
  <1>1. TypeOK /\ Fits(d)
    BY DEF Inv
  <1>2. PointsFit(d) /\ ThreadFits(d) /\ SearchFits(d) /\ AnswersFit(d)
    BY <1>1 DEF Fits
  <1>t. run \in [Documents -> Local] /\ run[d].pc \in Step /\ run[d].found \subseteq Documents
    BY <1>1, TypeParts DEF Local
  <1>3. run[d].pc \in Searching
    BY DEF Query, CatalogContext, RecordCandidates, Classify, AppendEvidence, Seal,
           FinishPreflight, At, Searching
  <1>4. state[d] = "PREFLIGHTING"
    BY <1>2, <1>3 DEF ThreadFits, Preflight, Searching
  <1>f. ASSUME Fail(d, TRUE), UNCHANGED <<revision, screening, late, active>>
        PROVE  Fits(d)'
    BY <1>3, <1>4, <1>f, FailFits
  \* A search that goes on leaves the document where it is.
  <1>g. ASSUME UNCHANGED <<state, retryable, content, revision, screening, late, active>>,
               run'[d].pc \in Searching
        PROVE  ThreadFits(d)' /\ PointsFit(d)' /\ FailureFits(d)'
    <2>1. ThreadFits(d)'
      BY <1>g, <1>4 DEF ThreadFits, At, Searching, Preflight, Publication, Deletion
    <2>2. PointsFit(d)'
      BY <1>g, <1>2, <1>3, <1>4 DEF PointsFit, Searching, Preflight
    <2>3. FailureFits(d)'
      BY <1>g, <1>4 DEF FailureFits
    <2> QED
      BY <2>1, <2>2, <2>3
  <1>5. CASE Query(d)
    <2> DEFINE q == run[d].next
               hits == Hits(d, q)
    <2>1. CASE Conflict(d, hits)
      BY <1>5, <2>1, <1>f DEF Query
    <2>2. CASE ~Conflict(d, hits)
      <3>1. /\ At(d, "query")
            /\ UNCHANGED <<catalog, revision, screening, late, active>>
            /\ run'[d].pc = IF q + 1 = 4 * Len(Similarity) THEN "catalog" ELSE "query"
            /\ run'[d].seen = [e \in Documents |->
                  IF e \in DOMAIN hits THEN hits[e] ELSE run[d].seen[e]]
            /\ run'[d].dense = [e \in Documents |->
                  IF e \in DOMAIN hits /\ Dense(q) THEN run[d].dense[e] \cup {Chunk(q)}
                  ELSE run[d].dense[e]]
            /\ run'[d].found = run[d].found /\ run'[d].judged = run[d].judged
            /\ run'[d].valid = run[d].valid /\ run'[d].reasons = run[d].reasons
        BY <1>1, <1>5, <2>2, QueryAdds
      <3>2. run'[d].pc \in {"query", "catalog"}
        BY <3>1
      <3>3. ThreadFits(d)' /\ PointsFit(d)' /\ FailureFits(d)'
        BY <1>g, <3>1, <3>2 DEF catalog, Searching
      <3>4. AnswersFit(d)'
        BY <1>2, <3>1, <3>2 DEF AnswersFit
      <3>5. d \notin DOMAIN hits
        BY DEF Hits
      <3>6. \A e \in DOMAIN hits : hits[e] # None
        <4> TAKE e \in DOMAIN hits
        <4>1. Source(q) \in {"active", "screening"}
          BY DEF Source
        <4>2. hits[e] \in Hit
          BY <1>1, <4>1, TypeParts, LimitsAssumption DEF Hits, Hit
        <4> QED
          BY <4>2, HitAssumption
      <3>7. SearchFits(d)'
        <4>1. run'[d].seen[d] = None
          BY <1>2, <3>1, <3>5 DEF SearchFits
        <4>2. \A e \in Documents : run'[d].dense[e] # {} => run'[d].seen[e] # None
          <5> HIDE DEF hits, q
          <5> QED
            BY <1>2, <3>1, <3>6 DEF SearchFits
        <4>3. run'[d].found = {}
          BY <1>2, <3>1 DEF SearchFits, At
        <4> QED
          BY <3>2, <4>1, <4>2, <4>3 DEF SearchFits, Searching
      <3> QED
        BY <3>3, <3>4, <3>7 DEF Fits
    <2> QED
      BY <2>1, <2>2
  <1>6. CASE CatalogContext(d)
    <2> DEFINE H == {e \in Documents : run[d].seen[e] # None}
    <2>1. CASE ~(\A e \in H : Confirmed(e, run[d].seen[e]))
      BY <1>6, <2>1, <1>f DEF CatalogContext
    <2>2. CASE \A e \in H : Confirmed(e, run[d].seen[e])
      <3>1. /\ At(d, "catalog") /\ UNCHANGED <<catalog, revision, screening, late, active>>
            /\ run'[d].pc = "record"
            /\ run'[d].found = {e \in Documents : run[d].seen[e] # None /\ Qualified(d, e)}
            /\ run'[d].next = run[d].next /\ run'[d].seen = run[d].seen
            /\ run'[d].dense = run[d].dense /\ run'[d].judged = run[d].judged
            /\ run'[d].valid = run[d].valid /\ run'[d].reasons = run[d].reasons
        BY <1>1, <1>6, <2>2, ContextFinds
      <3>2. ThreadFits(d)' /\ PointsFit(d)' /\ FailureFits(d)'
        BY <1>g, <3>1 DEF catalog, Searching
      <3>3. run[d].judged = {}
        BY <1>2, <3>1 DEF SearchFits, AnswersFit, At
      <3>4. AnswersFit(d)'
        BY <1>2, <3>1, <3>3 DEF AnswersFit
      <3>5. \A e \in run'[d].found : e # d /\ revision'[e] > 0
        <4> TAKE e \in run'[d].found
        <4>1. e \in Documents /\ e \in H
          BY <3>1
        <4>2. e # d
          BY <1>2, <4>1 DEF SearchFits
        <4>3. e \in content
          BY <2>2, <4>1 DEF Confirmed
        <4>4. PointsFit(e)
          BY <4>1 DEF Inv, Fits
        <4> QED
          BY <3>1, <4>2, <4>3, <4>4 DEF PointsFit
      <3>6. SearchFits(d)'
        BY <1>2, <3>1, <3>5 DEF SearchFits, Searching
      <3> QED
        BY <3>2, <3>4, <3>6 DEF Fits
    <2> QED
      BY <2>1, <2>2
  <1>7. CASE RecordCandidates(d)
    <2>1. CASE ~(\A e \in run[d].found : Recordable(d, e))
      BY <1>7, <2>1, <1>f DEF RecordCandidates
    <2>2. CASE \A e \in run[d].found : Recordable(d, e)
      <3>1. Goto(d, "classify") /\ UNCHANGED <<catalog, revision, screening, late, active>>
        BY <1>7, <2>2 DEF RecordCandidates
      <3>2. run'[d].pc = "classify"
        BY <1>t, <3>1, GotoKeeps DEF Step
      <3>3. SearchFits(d)' /\ AnswersFit(d)'
        BY <3>1, MovedFits DEF Step, Searching
      <3>4. ThreadFits(d)' /\ PointsFit(d)' /\ FailureFits(d)'
        BY <1>g, <3>1, <3>2 DEF catalog, Searching
      <3> QED
        BY <3>3, <3>4 DEF Fits
    <2> QED
      BY <2>1, <2>2
  <1>8. CASE Classify(d)
    <2>1. At(d, "classify") /\ UNCHANGED <<revision, screening, late, active>>
      BY <1>1, <1>8, ClassifyCases
    <2>2. PICK e \in run[d].found \ run[d].judged :
            \/ /\ \E roles \in SUBSET Roles, reason \in Reasons : Judge(d, e, roles, reason)
               /\ UNCHANGED catalog
            \/ e \notin content /\ Fail(d, FALSE)
      BY <1>1, <1>8, ClassifyCases
    <2>3. e \in Documents /\ e # d /\ revision[e] > 0
      BY <1>2, <1>t DEF SearchFits
    <2>4. CASE e \notin content /\ Fail(d, FALSE)
      <3>1. PointsFit(e)
        BY <2>3 DEF Inv, Fits
      <3>2. state[e] = "DELETED"
        BY <2>3, <2>4, <3>1 DEF PointsFit
      <3> QED
        BY <1>3, <1>4, <2>1, <2>3, <2>4, <3>2, FailFits
    <2>5. CASE (\E roles \in SUBSET Roles, reason \in Reasons : Judge(d, e, roles, reason))
               /\ UNCHANGED catalog
      <3>1. PICK roles \in SUBSET Roles, reason \in Reasons : Judge(d, e, roles, reason)
        BY <2>5
      <3>2. /\ run'[d].pc = run[d].pc
            /\ run'[d].next = run[d].next /\ run'[d].seen = run[d].seen
            /\ run'[d].dense = run[d].dense /\ run'[d].found = run[d].found
            /\ run'[d].judged = run[d].judged \cup {e}
            /\ run'[d].valid = run[d].valid \cup ({e} \X roles)
            /\ run'[d].reasons = IF roles = Roles THEN run[d].reasons
                                 ELSE run[d].reasons \cup {reason}
        BY <1>t, <2>3, <3>1, JudgeAdds
      <3>3. ThreadFits(d)' /\ PointsFit(d)' /\ FailureFits(d)'
        BY <1>3, <1>g, <2>1, <2>5, <3>2 DEF catalog
      <3>4. SearchFits(d)'
        BY <1>2, <2>1, <3>2 DEF SearchFits
      <3>5. /\ run'[d].valid \subseteq run'[d].judged \X Roles
            /\ run'[d].reasons = {} <=> run'[d].valid = run'[d].judged \X Roles
        <4>1. /\ run[d].valid \in SUBSET (run[d].judged \X Roles)
              /\ run[d].reasons = {} <=> run[d].valid = run[d].judged \X Roles
          BY <1>2 DEF AnswersFit
        <4>2. e \notin run[d].judged
          OBVIOUS
        <4> DEFINE judged == run[d].judged
                   valid == run[d].valid
                   reasons == run[d].reasons
        <4> HIDE DEF judged, valid, reasons
        <4>3. /\ e \notin judged /\ valid \in SUBSET (judged \X Roles)
              /\ reasons = {} <=> valid = judged \X Roles
          BY <4>1, <4>2 DEF judged, valid, reasons
        <4>4. /\ valid \cup ({e} \X roles) \subseteq (judged \cup {e}) \X Roles
              /\ (IF roles = Roles THEN reasons ELSE reasons \cup {reason}) = {} <=>
                    valid \cup ({e} \X roles) = (judged \cup {e}) \X Roles
          <5>1. valid \cup ({e} \X roles) \subseteq (judged \cup {e}) \X Roles
            BY <4>3
          <5>2. CASE roles = Roles
            <6>1. valid = judged \X Roles => valid \cup ({e} \X roles) = (judged \cup {e}) \X Roles
              BY <5>2
            <6>2. ASSUME valid \cup ({e} \X roles) = (judged \cup {e}) \X Roles
                  PROVE  valid = judged \X Roles
              BY <4>3, <5>2, <6>2
            <6> QED
              BY <4>3, <5>1, <5>2, <6>1, <6>2
          <5>3. CASE roles # Roles
            <6>1. PICK role \in Roles : role \notin roles
              BY <5>3
            <6>2. <<e, role>> \in (judged \cup {e}) \X Roles
              BY <6>1
            <6>3. <<e, role>> \notin valid \cup ({e} \X roles)
              BY <4>3, <6>1
            <6>4. reasons \cup {reason} # {}
              OBVIOUS
            <6> QED
              BY <5>1, <5>3, <6>2, <6>3, <6>4
          <5> QED
            BY <5>2, <5>3
        <4> QED
          BY <3>2, <4>4 DEF judged, valid, reasons
      <3>6. AnswersFit(d)'
        BY <1>2, <2>1, <3>2, <3>5 DEF AnswersFit, At
      <3> QED
        BY <3>3, <3>4, <3>6 DEF Fits
    <2> QED
      BY <2>2, <2>4, <2>5
  <1>9. CASE AppendEvidence(d)
    <2>1. run[d].judged = run[d].found /\ UNCHANGED <<revision, screening, late, active>>
      BY <1>9 DEF AppendEvidence
    <2>2. CASE Fail(d, TRUE)
      BY <1>f, <2>1, <2>2
    <2>3. CASE Goto(d, "seal") /\ UNCHANGED catalog
      <3>1. run'[d].pc = "seal"
        BY <1>t, <2>3, GotoKeeps DEF Step
      <3>2. SearchFits(d)' /\ AnswersFit(d)'
        BY <2>1, <2>3, MovedFits DEF Step, Searching
      <3>3. ThreadFits(d)' /\ PointsFit(d)' /\ FailureFits(d)'
        BY <1>g, <2>1, <2>3, <3>1 DEF catalog, Searching
      <3> QED
        BY <3>2, <3>3 DEF Fits
    <2> QED
      BY <1>9, <2>2, <2>3 DEF AppendEvidence
  <1>10. CASE Seal(d)
    <2>1. run[d].judged = run[d].found
      BY <1>2, <1>10 DEF AnswersFit, Seal, At
    <2>2. Sealable(d)
      BY <1>2, <2>1, SealableWhenJudged
    <2>3. Goto(d, "finish") /\ UNCHANGED <<state, retryable, content, requests>>
          /\ UNCHANGED <<revision, screening, late, active>>
      BY <1>10, <2>2 DEF Seal
    <2>4. run'[d].pc = "finish"
      BY <1>t, <2>3, GotoKeeps DEF Step
    <2>5. SearchFits(d)' /\ AnswersFit(d)'
      BY <2>1, <2>3, MovedFits DEF Step, Searching
    <2>6. ThreadFits(d)' /\ PointsFit(d)' /\ FailureFits(d)'
      BY <1>g, <2>3, <2>4 DEF Searching
    <2> QED
      BY <2>5, <2>6 DEF Fits
  <1>11. CASE FinishPreflight(d)
    <2>1. /\ run'[d] = Fresh /\ state'[d] \in {"PUBLISHING", "REVIEW_REQUIRED"}
          /\ UNCHANGED <<retryable, revision, content, screening, late, active>>
      BY <1>1, <1>11, <1>t, EndForgets, TypeParts DEF FinishPreflight
    <2>2. ThreadFits(d)' /\ SearchFits(d)' /\ AnswersFit(d)'
      BY <2>1, FreshFits
    <2>3. PointsFit(d)'
      BY <1>2, <1>3, <1>4, <2>1, FreshTyped DEF PointsFit, Searching, Preflight
    <2>4. FailureFits(d)'
      BY <2>1 DEF FailureFits
    <2> QED
      BY <2>2, <2>3, <2>4 DEF Fits
  <1> QED
    BY <1>5, <1>6, <1>7, <1>8, <1>9, <1>10, <1>11

\* The steps of a publication.
LEMMA PublicationFits ==
    ASSUME Inv, TypeOK', Onward, NEW d \in Documents,
           Activate(d) \/ RemoveScreening(d) \/ FinishPublication(d)
    PROVE  Fits(d)'
  <1>1. TypeOK /\ Fits(d)
    BY DEF Inv
  <1>2. PointsFit(d) /\ ThreadFits(d) /\ SearchFits(d)
    BY <1>1 DEF Fits
  <1>t. run \in [Documents -> Local] /\ run[d].pc \in Step
    BY <1>1, TypeParts DEF Local
  <1>n. /\ revision[d] \in Nat /\ screening[d] \in Nat /\ late[d] \in Nat /\ active[d] \in Nat
    BY <1>1, TypeParts, LimitsAssumption
  <1>3. run[d].pc \in Publication
    BY DEF Activate, RemoveScreening, FinishPublication, At, Publication
  <1>4. state[d] = "PUBLISHING" /\ run[d].next = 0
    BY <1>2, <1>3 DEF ThreadFits, SearchFits, Publication, Searching
  <1>5. late[d] = 0
    BY <1>2, <1>4 DEF PointsFit
  <1>6. CASE Activate(d)
    <2>1. /\ Goto(d, "unscreen") /\ UNCHANGED <<state, retryable, revision, content, screening, late>>
          /\ active'[d] = revision[d]
      BY <1>1, <1>6, TypeParts DEF Activate, catalog
    <2>2. run'[d].pc = "unscreen"
      BY <1>t, <2>1, GotoKeeps DEF Step
    <2>3. SearchFits(d)' /\ AnswersFit(d)'
      BY <1>4, <2>1, MovedFits DEF Step, Searching
    <2>4. ThreadFits(d)'
      BY <1>4, <2>1, <2>2 DEF ThreadFits, At, Preflight, Publication, Deletion
    <2>5. PointsFit(d)'
      BY <1>2, <1>n, <1>4, <1>5, <2>1, <2>2 DEF PointsFit, Preflight
    <2>6. FailureFits(d)'
      BY <1>4, <2>1 DEF FailureFits
    <2> QED
      BY <2>3, <2>4, <2>5, <2>6 DEF Fits
  <1>7. CASE RemoveScreening(d)
    <2>1. /\ Goto(d, "publish") /\ UNCHANGED <<state, retryable, revision, content, active>>
          /\ screening'[d] = 0 /\ late'[d] = 0 /\ At(d, "unscreen")
      BY <1>1, <1>7, UpdateScreens, LimitsAssumption DEF RemoveScreening, catalog
    <2>2. run'[d].pc = "publish"
      BY <1>t, <2>1, GotoKeeps DEF Step
    <2>3. SearchFits(d)' /\ AnswersFit(d)'
      BY <1>4, <2>1, MovedFits DEF Step, Searching
    <2>4. ThreadFits(d)'
      BY <1>4, <2>1, <2>2 DEF ThreadFits, At, Preflight, Publication, Deletion
    <2>5. PointsFit(d)'
      BY <1>2, <1>n, <1>4, <2>1, <2>2 DEF PointsFit, Preflight, At
    <2>6. FailureFits(d)'
      BY <1>4, <2>1 DEF FailureFits
    <2> QED
      BY <2>3, <2>4, <2>5, <2>6 DEF Fits
  <1>8. CASE FinishPublication(d)
    <2>1. /\ run'[d] = Fresh /\ state'[d] = "READY" /\ At(d, "publish")
          /\ UNCHANGED <<retryable, revision, content, screening, late, active>>
      BY <1>1, <1>8, <1>t, EndForgets, TypeParts DEF FinishPublication
    <2>2. ThreadFits(d)' /\ SearchFits(d)' /\ AnswersFit(d)'
      BY <2>1, FreshFits
    <2>3. PointsFit(d)'
      BY <1>2, <1>n, <1>4, <1>5, <2>1, FreshTyped DEF PointsFit, Preflight, At
    <2>4. FailureFits(d)'
      BY <2>1 DEF FailureFits
    <2> QED
      BY <2>2, <2>3, <2>4 DEF Fits
  <1> QED
    BY <1>6, <1>7, <1>8

\* The steps of a deletion.
LEMMA DeletionFits ==
    ASSUME Inv, TypeOK', Onward, NEW d \in Documents,
           DeleteActive(d) \/ DeleteScreening(d) \/ Purge(d)
    PROVE  Fits(d)'
  <1>1. TypeOK /\ Fits(d)
    BY DEF Inv
  <1>2. PointsFit(d) /\ ThreadFits(d) /\ SearchFits(d)
    BY <1>1 DEF Fits
  <1>t. run \in [Documents -> Local] /\ run[d].pc \in Step
    BY <1>1, TypeParts DEF Local
  <1>n. /\ revision[d] \in Nat /\ screening[d] \in Nat /\ late[d] \in Nat /\ active[d] \in Nat
    BY <1>1, TypeParts, LimitsAssumption
  <1>3. run[d].pc \in Deletion
    BY DEF DeleteActive, DeleteScreening, Purge, At, Deletion
  <1>4. state[d] = "DELETING" /\ run[d].next = 0
    BY <1>2, <1>3 DEF ThreadFits, SearchFits, Deletion, Searching
  <1>5. CASE DeleteActive(d)
    <2>1. /\ Goto(d, "delete_screening")
          /\ UNCHANGED <<state, retryable, revision, content, screening, late>>
          /\ active'[d] = 0 /\ At(d, "delete_active")
      BY <1>1, <1>5, TypeParts DEF DeleteActive, catalog
    <2>2. run'[d].pc = "delete_screening"
      BY <1>t, <2>1, GotoKeeps DEF Step
    <2>3. SearchFits(d)' /\ AnswersFit(d)'
      BY <1>4, <2>1, MovedFits DEF Step, Searching
    <2>4. ThreadFits(d)'
      BY <1>4, <2>1, <2>2 DEF ThreadFits, At, Preflight, Publication, Deletion
    <2>5. PointsFit(d)'
      BY <1>2, <1>n, <1>4, <2>1, <2>2 DEF PointsFit, Preflight, At
    <2>6. FailureFits(d)'
      BY <1>4, <2>1 DEF FailureFits
    <2> QED
      BY <2>3, <2>4, <2>5, <2>6 DEF Fits
  <1>6. CASE DeleteScreening(d)
    <2>1. /\ Goto(d, "purge") /\ UNCHANGED <<state, retryable, revision, content, active>>
          /\ screening'[d] = 0 /\ late'[d] = 0 /\ At(d, "delete_screening")
      BY <1>1, <1>6, UpdateScreens, LimitsAssumption DEF DeleteScreening, catalog
    <2>2. run'[d].pc = "purge"
      BY <1>t, <2>1, GotoKeeps DEF Step
    <2>3. SearchFits(d)' /\ AnswersFit(d)'
      BY <1>4, <2>1, MovedFits DEF Step, Searching
    <2>4. ThreadFits(d)'
      BY <1>4, <2>1, <2>2 DEF ThreadFits, At, Preflight, Publication, Deletion
    <2>5. PointsFit(d)'
      BY <1>2, <1>n, <1>4, <2>1, <2>2 DEF PointsFit, Preflight, At
    <2>6. FailureFits(d)'
      BY <1>4, <2>1 DEF FailureFits
    <2> QED
      BY <2>3, <2>4, <2>5, <2>6 DEF Fits
  <1>7. CASE Purge(d)
    <2>1. /\ run'[d] = Fresh /\ state'[d] = "DELETED" /\ At(d, "purge")
          /\ content' = content \ {d}
          /\ UNCHANGED <<retryable, revision, screening, late, active>>
      BY <1>1, <1>7, <1>t, EndForgets, TypeParts DEF Purge
    <2>2. ThreadFits(d)' /\ SearchFits(d)' /\ AnswersFit(d)'
      BY <2>1, FreshFits
    <2>3. PointsFit(d)'
      BY <1>2, <1>n, <1>4, <2>1, FreshTyped DEF PointsFit, Preflight, At
    <2>4. FailureFits(d)'
      BY <2>1 DEF FailureFits
    <2> QED
      BY <2>2, <2>3, <2>4 DEF Fits
  <1> QED
    BY <1>5, <1>6, <1>7

-----------------------------------------------------------------------------
(* The invariant is inductive. *)

\* At the start nothing is stored.
LEMMA InvInit == Init => Inv
  <1> SUFFICES ASSUME Init, NEW d \in Documents PROVE Fits(d)
    BY TypeInit DEF Inv
  <1>1. /\ state[d] = "ABSENT" /\ revision[d] = 0 /\ content = {} /\ screening[d] = 0
        /\ late[d] = 0 /\ active[d] = 0 /\ run[d] = Fresh
    BY DEF Init
  <1>2. ThreadFits(d)
    BY <1>1, FreshTyped DEF ThreadFits, At, Preflight, Publication, Deletion
  <1>3. SearchFits(d) /\ AnswersFit(d)
    BY <1>1, FreshTyped DEF SearchFits, AnswersFit, Searching
  <1>4. PointsFit(d) /\ FailureFits(d)
    BY <1>1, FreshTyped DEF PointsFit, FailureFits, Preflight
  <1> QED
    BY <1>2, <1>3, <1>4 DEF Fits

\* A step of document d keeps the invariant.
LEMMA InvAction ==
    ASSUME Inv, NEW d \in Documents, Action(d)
    PROVE  Inv' /\ Beside(d) /\ Onward
  <1>1. TypeOK' /\ Beside(d) /\ Onward
    BY StepTyped, StepOnward DEF Inv
  <1>2. Fits(d)'
    BY <1>1, RequestFits, StartFits, ScreeningFits, SearchingFits, PublicationFits, DeletionFits
       DEF Action, Work
  <1>3. \A e \in Documents \ {d} : Fits(e)'
    BY <1>1, BesideFits
  <1> QED
    BY <1>1, <1>2, <1>3 DEF Inv

\* Every step keeps the invariant.
LEMMA InvStep ==
    ASSUME Inv, [Next]_vars
    PROVE  Inv'
  <1>1. CASE Next
    BY <1>1, NextActs, InvAction
  <1>2. CASE UNCHANGED vars
    <2>1. TypeOK'
      BY <1>2 DEF Inv, TypeOK, vars
    <2>2. \A d \in Documents : Fits(d)'
      BY <1>2 DEF Inv, vars, Fits, ThreadFits, SearchFits, AnswersFit, PointsFit, FailureFits, At
    <2> QED
      BY <2>1, <2>2 DEF Inv
  <1> QED
    BY <1>1, <1>2

\* The invariant of one search and of the points.
LEMMA Invariant == Spec => []Inv
  BY InvInit, InvStep, PTL DEF Spec

\* The evidence that the worker draws from the models' answers is always accepted
\* by the exhaustive validation of seal_prepared_revision: whatever the budget and
\* however many answers are invalid, the reasons for an open review are recorded
\* exactly when an answer is missing.
THEOREM SealAlwaysAccepted == Spec => []SealAccepted
  <1>1. Inv => SealAccepted
    <2> SUFFICES ASSUME Inv, NEW d \in Documents, At(d, "seal") PROVE Sealable(d)
      BY DEF SealAccepted
    <2>1. AnswersFit(d) /\ run[d].judged = run[d].found
      BY DEF Inv, Fits, AnswersFit, At
    <2> QED
      BY <2>1, SealableWhenJudged
  <1> QED
    BY <1>1, Invariant, PTL

\* While no operation is open, every point that a search can hit, now or once
\* Qdrant has caught up, is one the catalog confirms, or a failed preflight left it
\* behind (_write_screening_points, the publication and the deletion together).
THEOREM PointsAlwaysMatch == Spec => []PointsMatchCatalog
  <1>1. Inv => PointsMatchCatalog
    <2> SUFFICES ASSUME Inv, NEW e \in Documents, At(e, "idle"), state[e] \notin DOMAIN First,
                        state[e] # "PREFLIGHT_FAILED"
                 PROVE  /\ \A r \in {screening[e], late[e]} \ {0} :
                            Confirmed(e, [source |-> "screening", revision |-> r])
                        /\ active[e] # 0 =>
                            Confirmed(e, [source |-> "active", revision |-> active[e]])
      BY DEF PointsMatchCatalog
    <2>1. PointsFit(e) /\ TypeOK
      BY DEF Inv, Fits
    <2>2. revision[e] \in Nat /\ screening[e] \in Nat /\ late[e] \in Nat /\ active[e] \in Nat
          /\ state[e] \in States
      BY <2>1, TypeParts, LimitsAssumption
    <2>3. state[e] \in {"ABSENT", "REVIEW_REQUIRED", "READY", "DELETED"}
      BY <2>2 DEF States, First
    <2>4. CASE state[e] \in {"ABSENT", "DELETED"}
      <3>1. screening[e] = 0 /\ late[e] = 0 /\ active[e] = 0
        BY <2>1, <2>2, <2>4 DEF PointsFit
      <3> QED
        BY <3>1
    <2>5. CASE state[e] = "REVIEW_REQUIRED"
      <3>1. active[e] = 0 /\ e \in content /\ screening[e] <= revision[e] /\ late[e] <= revision[e]
        BY <2>1, <2>2, <2>5 DEF PointsFit
      <3> QED
        BY <2>5, <3>1 DEF Confirmed, Screened
    <2>6. CASE state[e] = "READY"
      <3>1. screening[e] = 0 /\ late[e] = 0 /\ e \in content /\ active[e] <= revision[e]
        BY <2>1, <2>2, <2>6 DEF PointsFit
      <3> QED
        BY <2>6, <3>1 DEF Confirmed
    <2> QED
      BY <2>3, <2>4, <2>5, <2>6
  <1> QED
    BY <1>1, Invariant, PTL

\* A preflight fails for good only because a document it resembles was purged
\* between the catalog's confirmation and the reading of its chunks
\* (candidate_content_missing of _classification_excerpts).
THEOREM FailureExplained == Spec => []PreflightFailureRetryable
  <1>1. Inv => PreflightFailureRetryable
    <2> SUFFICES ASSUME Inv, NEW d \in Documents, state[d] = "PREFLIGHT_FAILED", ~retryable[d]
                 PROVE  \E e \in Documents \ {d} : e \notin content
      BY DEF PreflightFailureRetryable
    <2>1. PICK e \in Documents \ {d} : state[e] = "DELETED"
      BY DEF Inv, Fits, FailureFits
    <2>2. e \notin content
      BY <2>1 DEF Inv, Fits, PointsFit
    <2> QED
      BY <2>2
  <1> QED
    BY <1>1, Invariant, PTL

-----------------------------------------------------------------------------
(* Duplicates meet. *)

\* A document that others may look for stays visible: its points leave the
\* screening collection only when they are in the active one.
LEMMA VisibleStep ==
    ASSUME Inv, SoughtVisible, NEW d \in Documents, Action(d)
    PROVE  SoughtVisible'
  <1>1. Inv' /\ Beside(d) /\ Onward /\ TypeOK /\ Fits(d)
    BY InvAction DEF Inv
  <1>n. \A e \in Documents : /\ revision[e] \in Nat /\ screening[e] \in Nat
                             /\ late[e] \in Nat /\ active[e] \in Nat
    BY <1>1, TypeParts, LimitsAssumption
  <1>2. ASSUME NEW e \in Documents \ {d}, Sought(e)'
        PROVE  (screening[e] # 0 \/ active[e] # 0)'
    BY <1>1, <1>2 DEF Beside, Sought, SoughtVisible
  <1>3. ASSUME Sought(d)'
        PROVE  (screening[d] # 0 \/ active[d] # 0)'
    <2>1. PointsFit(d) /\ ThreadFits(d)
      BY <1>1 DEF Fits
    <2>t. run \in [Documents -> Local] /\ run[d].pc \in Step
      BY <1>1, TypeParts DEF Local
    <2>2. CASE UpsertScreening(d)
      <3>1. screening'[d] = revision[d] /\ At(d, "upsert")
        BY <1>1, <2>2, UpdateScreens, TypeParts DEF UpsertScreening
      <3> QED
        BY <2>1, <3>1, <1>n DEF PointsFit, At, Preflight
    <2>3. CASE Activate(d)
      <3>1. active'[d] = revision[d] /\ At(d, "activate")
        BY <1>1, <2>3, TypeParts DEF Activate
      <3>2. state[d] = "PUBLISHING"
        BY <2>1, <3>1 DEF ThreadFits, At, Publication
      <3> QED
        BY <2>1, <3>1, <3>2, <1>n DEF PointsFit
    <2>4. CASE RemoveScreening(d)
      <3>1. active'[d] = active[d] /\ At(d, "unscreen")
        BY <2>4 DEF RemoveScreening
      <3> QED
        BY <2>1, <3>1 DEF PointsFit, At
    <2>5. CASE ApplyLate(d)
      <3>1. late[d] # 0 /\ screening'[d] = late[d]
        BY <1>1, <2>5, TypeParts DEF ApplyLate
      <3> QED
        BY <3>1
    <2>6. CASE Prepare(d) \/ ClearScreening(d) \/ DeleteActive(d) \/ DeleteScreening(d)
      <3>1. run'[d].pc \notin Searching /\ state'[d] = state[d]
            /\ run[d].pc \in {"prepare", "clear", "delete_active", "delete_screening"}
        <4>1. \E p \in Step \ Searching : Goto(d, p)
          BY <2>6 DEF Prepare, ClearScreening, DeleteActive, DeleteScreening, Step, Searching
        <4>2. run'[d].pc \notin Searching
          BY <2>t, <4>1, GotoKeeps
        <4> QED
          BY <2>6, <4>2 DEF Prepare, ClearScreening, DeleteActive, DeleteScreening, At, catalog
      <3> QED
        BY <1>3, <2>1, <3>1 DEF Sought, ThreadFits, Preflight, Deletion
    <2>7. CASE Upload(d) \/ Keep(d) \/ Delete(d) \/ Retry(d) \/ Start(d) \/ Interrupt(d)
               \/ UpsertTimesOut(d) \/ Purge(d) \/ FinishPublication(d)
               \/ Query(d) \/ CatalogContext(d) \/ RecordCandidates(d) \/ Classify(d)
               \/ AppendEvidence(d) \/ Seal(d) \/ FinishPreflight(d)
      <3>1. screening' = screening /\ active' = active
        BY <2>7 DEF Upload, Keep, Delete, Retry, Request, Start, Interrupt, UpsertTimesOut, Purge,
             FinishPublication, Query, CatalogContext, RecordCandidates, Classify,
             AppendEvidence, Seal, FinishPreflight
      <3>2. Sought(d)
        <4>1. CASE Upload(d) \/ Keep(d) \/ Delete(d) \/ Retry(d)
          <5>1. run' = run /\ (state'[d] \in {"PREFLIGHTING", "DELETING"} \/ state[d] = "REVIEW_REQUIRED")
            BY <4>1, <1>1, TypeParts DEF Upload, Keep, Delete, Retry, Request
          <5> QED
            BY <1>3, <5>1 DEF Sought
        <4>2. CASE Start(d)
          <5>1. Goto(d, First[state[d]]) /\ state' = state
            BY <4>2 DEF Start, catalog
          <5>2. First[state[d]] \in Step /\ First[state[d]] \notin Searching
            BY <4>2 DEF Start, First, Step, Searching
          <5>3. run'[d].pc \notin Searching
            BY <2>t, <5>1, <5>2, GotoKeeps
          <5> QED
            BY <1>3, <5>1, <5>3 DEF Sought
        <4>3. CASE Interrupt(d) \/ UpsertTimesOut(d) \/ Purge(d)
          <5>1. run'[d] = Fresh
            BY <4>3, <2>t, EndForgets DEF Interrupt, UpsertTimesOut, Purge
          <5>2. run'[d].pc \notin Searching
            BY <5>1, FreshTyped DEF Searching
          <5>3. state'[d] = state[d] \/ state'[d] \in {"PREFLIGHT_FAILED", "DELETED"}
            BY <4>3, <1>1, TypeParts DEF Interrupt, UpsertTimesOut, Purge
          <5> QED
            BY <1>3, <5>2, <5>3 DEF Sought
        <4>4. CASE FinishPublication(d)
          BY <2>1, <4>4 DEF FinishPublication, Sought, ThreadFits, Publication, At
        <4>5. CASE Query(d) \/ CatalogContext(d) \/ RecordCandidates(d) \/ Classify(d)
                   \/ AppendEvidence(d) \/ Seal(d) \/ FinishPreflight(d)
          BY <4>5 DEF Query, CatalogContext, RecordCandidates, Classify, AppendEvidence, Seal,
               FinishPreflight, Sought, Searching, At
        <4> QED
          BY <2>7, <4>1, <4>2, <4>3, <4>4, <4>5
      <3> QED
        BY <3>1, <3>2 DEF SoughtVisible
    <2> QED
      BY <2>2, <2>3, <2>4, <2>5, <2>6, <2>7 DEF Action, Work
  <1> QED
    BY <1>2, <1>3 DEF SoughtVisible

\* Only the seal names candidates.
LEMMA NamedKept ==
    ASSUME NEW d \in Documents, Action(d), ~Seal(d)
    PROVE  named' = named
  BY DEF Action, Work, Upload, Keep, Delete, Retry, Request, Start, Interrupt, Prepare,
         ClearScreening, UpsertScreening, UpsertTimesOut, ApplyLate, Query, CatalogContext,
         RecordCandidates, Classify, Judge, AppendEvidence, FinishPreflight, Activate,
         RemoveScreening, FinishPublication, DeleteActive, DeleteScreening, Purge, Fail, catalog

\* The active points of a document that may be looked for stay.
LEMMA ActiveKept ==
    ASSUME Inv, NEW d \in Documents, Action(d), Sought(d), active[d] # 0
    PROVE  active'[d] # 0
  <1>1. TypeOK /\ PointsFit(d) /\ ThreadFits(d)
    BY DEF Inv, Fits
  <1>2. CASE Activate(d)
    <2>1. state[d] = "PUBLISHING" /\ active'[d] = revision[d] /\ revision[d] \in Nat
      BY <1>1, <1>2, TypeParts, LimitsAssumption DEF Activate, ThreadFits, At, Publication
    <2> QED
      BY <1>1, <2>1 DEF PointsFit
  <1>3. CASE DeleteActive(d)
    <2>1. state[d] = "DELETING" /\ run[d].pc = "delete_active"
      BY <1>1, <1>3 DEF DeleteActive, ThreadFits, At, Deletion
    <2> QED
      BY <2>1 DEF Sought, Searching
  <1>4. CASE ~Activate(d) /\ ~DeleteActive(d)
    BY <1>4 DEF Action, Work, Upload, Keep, Delete, Retry, Request, Start, Interrupt, Prepare,
         ClearScreening, UpsertScreening, UpsertTimesOut, ApplyLate, Query, CatalogContext,
         RecordCandidates, Classify, AppendEvidence, Seal, FinishPreflight,
         RemoveScreening, FinishPublication, DeleteScreening, Purge
  <1> QED
    BY <1>2, <1>3, <1>4

\* A document becomes one to look for by its upsert alone, at the start of its search.
LEMMA SoughtByUpsert ==
    ASSUME Inv, NEW d \in Documents, Action(d), ~Sought(d), Sought(d)'
    PROVE  run'[d].pc = "query" /\ run'[d].next = 0
  <1>1. TypeOK /\ ThreadFits(d) /\ SearchFits(d) /\ TypeOK'
    BY StepTyped DEF Inv, Fits
  <1>t. run \in [Documents -> Local] /\ run[d].pc \in Step /\ state \in [Documents -> States]
    BY <1>1, TypeParts DEF Local
  <1>2. run[d].pc \notin Searching /\ state[d] \notin {"REVIEW_REQUIRED", "PUBLISHING", "READY"}
    BY DEF Sought
  <1>3. CASE UpsertScreening(d)
    <2>1. Goto(d, "query") /\ At(d, "upsert")
      BY <1>3 DEF UpsertScreening
    <2>2. run[d].next = 0
      BY <1>1, <1>2 DEF SearchFits
    <2> QED
      BY <1>t, <2>1, <2>2, GotoKeeps DEF Step
  <1>4. ASSUME run'[d].pc \notin Searching,
               state'[d] \notin {"REVIEW_REQUIRED", "PUBLISHING", "READY"}
        PROVE  FALSE
    BY <1>4 DEF Sought
  <1>5. CASE Upload(d) \/ Keep(d) \/ Delete(d) \/ Retry(d) \/ ApplyLate(d)
    <2>1. run' = run /\ state'[d] \in {"PREFLIGHTING", "DELETING", state[d]}
      BY <1>2, <1>5, <1>t DEF Upload, Keep, Delete, Retry, Request, ApplyLate, catalog
    <2> QED
      BY <1>2, <1>4, <2>1
  <1>6. CASE Start(d)
    <2>1. Goto(d, First[state[d]]) /\ state' = state
      BY <1>6 DEF Start, catalog
    <2>2. First[state[d]] \in Step /\ First[state[d]] \notin Searching
      BY <1>6 DEF Start, First, Step, Searching
    <2>3. run'[d].pc \notin Searching
      BY <1>t, <2>1, <2>2, GotoKeeps
    <2> QED
      BY <1>2, <1>4, <2>1, <2>3
  <1>7. CASE Interrupt(d) \/ UpsertTimesOut(d) \/ Purge(d)
    <2>1. run'[d] = Fresh
      BY <1>7, <1>t, EndForgets DEF Interrupt, UpsertTimesOut, Purge
    <2>2. run'[d].pc \notin Searching
      BY <2>1, FreshTyped DEF Searching
    <2>3. state'[d] \in {"PREFLIGHT_FAILED", "DELETED", state[d]}
      BY <1>7, <1>t DEF Interrupt, UpsertTimesOut, Purge
    <2> QED
      BY <1>2, <1>4, <2>2, <2>3
  <1>8. CASE Prepare(d) \/ ClearScreening(d) \/ DeleteActive(d) \/ DeleteScreening(d)
    <2>1. \E p \in Step \ Searching : Goto(d, p)
      BY <1>8 DEF Prepare, ClearScreening, DeleteActive, DeleteScreening, Step, Searching
    <2>2. run'[d].pc \notin Searching
      BY <1>t, <2>1, GotoKeeps
    <2>3. state' = state
      BY <1>8 DEF Prepare, ClearScreening, DeleteActive, DeleteScreening, catalog
    <2> QED
      BY <1>2, <1>4, <2>2, <2>3
  <1>9. CASE Query(d) \/ CatalogContext(d) \/ RecordCandidates(d) \/ Classify(d)
             \/ AppendEvidence(d) \/ Seal(d) \/ FinishPreflight(d)
    BY <1>2, <1>9 DEF Query, CatalogContext, RecordCandidates, Classify, AppendEvidence, Seal,
         FinishPreflight, Searching, At
  <1>10. CASE Activate(d) \/ RemoveScreening(d) \/ FinishPublication(d)
    BY <1>1, <1>2, <1>10 DEF Activate, RemoveScreening, FinishPublication, ThreadFits,
         Publication, At
  <1> QED
    BY <1>3, <1>5, <1>6, <1>7, <1>8, <1>9, <1>10 DEF Action, Work

\* A query for chunk c, of those that match strongly.
LEMMA QueryHits ==
    ASSUME TypeOK, NEW d \in Documents, NEW e \in Documents \ {d}, NEW c \in Chunks,
           Similarity[c] = "strong", Query(d), ~Conflict(d, Hits(d, run[d].next)),
           \/ run[d].next = 4 * (c - 1) /\ active[e] # 0
           \/ run[d].next = 4 * (c - 1) + 1 /\ screening[e] # 0
    PROVE  StrongHit(d, e)'
  <1> DEFINE q == run[d].next
             hits == Hits(d, q)
  <1>1. q \in Nat /\ c \in Nat /\ c >= 1
    <2>1. q \in 0 .. 4 * Len(Similarity)
      BY TypeParts DEF Local
    <2> QED
      BY <2>1, ChunksTyped
  <1>2. Chunk(q) = c /\ Dense(q)
    <2> HIDE DEF q
    <2>1. q = 4 * (c - 1) \/ q = 4 * (c - 1) + 1
      BY DEF q
    <2> QED
      BY <1>1, <2>1 DEF Chunk, Dense
  <1>3. \/ Source(q) = "active" /\ active[e] # 0
        \/ Source(q) = "screening" /\ screening[e] # 0
    <2> HIDE DEF q
    <2>1. \/ q = 4 * (c - 1) /\ active[e] # 0
          \/ q = 4 * (c - 1) + 1 /\ screening[e] # 0
      BY DEF q
    <2>2. q = 4 * (c - 1) => q % 2 = 0
      BY <1>1
    <2>3. q = 4 * (c - 1) + 1 => q % 2 = 1
      BY <1>1
    <2> QED
      BY <2>1, <2>2, <2>3 DEF Source
  <1>4. e \in DOMAIN hits
    BY <1>2, <1>3 DEF Hits
  <1>5. run'[d].dense[e] = run[d].dense[e] \cup {c}
    <2>1. run'[d].dense = [x \in Documents |->
                    IF x \in DOMAIN hits /\ Dense(q) THEN run[d].dense[x] \cup {Chunk(q)}
                    ELSE run[d].dense[x]]
      BY QueryAdds
    <2> HIDE DEF hits, q
    <2> QED
      BY <1>2, <1>4, <2>1
  <1> QED
    BY <1>5 DEF StrongHit

\* A query forgets no hit.
LEMMA QueryKeepsHits ==
    ASSUME TypeOK, NEW d \in Documents, NEW e \in Documents, StrongHit(d, e),
           Query(d), ~Conflict(d, Hits(d, run[d].next))
    PROVE  StrongHit(d, e)'
  <1> DEFINE q == run[d].next
             hits == Hits(d, q)
  <1>1. run'[d].dense = [x \in Documents |->
                    IF x \in DOMAIN hits /\ Dense(q) THEN run[d].dense[x] \cup {Chunk(q)}
                    ELSE run[d].dense[x]]
    BY QueryAdds
  <1> HIDE DEF hits, q
  <1>2. run[d].dense[e] \subseteq run'[d].dense[e]
    BY <1>1
  <1> QED
    BY <1>2 DEF StrongHit

\* A search that has met e, or is bound to, keeps to it query by query.
LEMMA QueryMeets ==
    ASSUME Inv, SoughtVisible, NEW d \in Documents, NEW e \in Documents \ {d},
           NEW j \in Chunks, NEW k \in Chunks, j < k,
           Similarity[j] = "strong", Similarity[k] = "strong",
           Query(d), Sought(d)', Sought(e), Meets(d, e, j, k)
    PROVE  Meets(d, e, j, k)'
  <1> DEFINE q == run[d].next
             hits == Hits(d, q)
             n == Len(Similarity)
  <1>1. TypeOK /\ ThreadFits(d) /\ j \in Nat /\ k \in Nat /\ 1 <= j /\ k <= n /\ n \in Nat
    BY ChunksTyped DEF Inv, Fits
  <1>2. ~Conflict(d, hits)
    <2>1. SUFFICES ASSUME Conflict(d, hits) PROVE FALSE
      OBVIOUS
    <2>2. Fail(d, TRUE)
      BY <2>1 DEF Query
    <2>3. run'[d] = Fresh /\ state'[d] = "PREFLIGHT_FAILED"
      BY <1>1, <2>2, FailEnds, TypeParts
    <2> QED
      BY <2>3, FreshTyped DEF Sought, Searching
  <1>3. /\ At(d, "query") /\ q \in Nat /\ q < 4 * n
        /\ active' = active
        /\ run'[d].next = q + 1
        /\ run'[d].pc = IF q + 1 = 4 * n THEN "catalog" ELSE "query"
    <2>1. /\ At(d, "query") /\ q \in 0 .. 4 * n /\ q < 4 * n
          /\ active' = active /\ run'[d].next = q + 1
          /\ run'[d].pc = IF q + 1 = 4 * n THEN "catalog" ELSE "query"
      BY <1>1, <1>2, QueryAdds
    <2> QED
      BY <1>1, <2>1
  <1>4. screening[e] # 0 \/ active[e] # 0
    BY DEF SoughtVisible
  <1>5. \/ StrongHit(d, e)
        \/ q <= 4 * (j - 1) + 1
        \/ active[e] # 0 /\ q <= 4 * (k - 1)
    BY <1>3 DEF Meets
  <1>6. ASSUME StrongHit(d, e)'
        PROVE  Meets(d, e, j, k)'
    BY <1>3, <1>6 DEF Meets, Searching, At
  <1>7. CASE StrongHit(d, e)
    BY <1>1, <1>2, <1>6, <1>7, QueryKeepsHits
  <1>8. CASE \/ q = 4 * (j - 1) /\ active[e] # 0
             \/ q = 4 * (j - 1) + 1 /\ screening[e] # 0
    BY <1>1, <1>2, <1>6, <1>8, QueryHits
  <1>9. CASE q = 4 * (k - 1) /\ active[e] # 0
    BY <1>1, <1>2, <1>6, <1>9, QueryHits
  <1>10. CASE \/ q < 4 * (j - 1) + 1
              \/ active[e] # 0 /\ q < 4 * (k - 1)
    <2> HIDE DEF q, n
    <2>1. q + 1 # 4 * n /\ (q + 1 <= 4 * (j - 1) + 1 \/ (active[e] # 0 /\ q + 1 <= 4 * (k - 1)))
      BY <1>1, <1>3, <1>10
    <2> QED
      BY <1>3, <2>1 DEF Meets, Searching, At
  <1>11. CASE q = 4 * (j - 1) + 1 /\ active[e] # 0
    <2> HIDE DEF q, n
    <2>1. q < 4 * (k - 1)
      BY <1>1, <1>3, <1>11
    <2> QED
      BY <1>10, <1>11, <2>1
  <1> HIDE DEF q
  <1> QED
    BY <1>1, <1>3, <1>4, <1>5, <1>7, <1>8, <1>9, <1>10, <1>11

\* What a document has met it keeps to, up to its publication.
LEMMA FinderMeets ==
    ASSUME Inv, SoughtVisible, NEW d \in Documents, NEW e \in Documents \ {d},
           NEW j \in Chunks, NEW k \in Chunks, j < k,
           Similarity[j] = "strong", Similarity[k] = "strong",
           Action(d), Sought(d), Sought(d)', Sought(e), Meets(d, e, j, k)
    PROVE  Meets(d, e, j, k)'
  <1>1. TypeOK /\ ThreadFits(d) /\ SearchFits(d) /\ AnswersFit(d) /\ TypeOK'
    BY StepTyped DEF Inv, Fits
  <1>t. run \in [Documents -> Local] /\ run[d].pc \in Step /\ state \in [Documents -> States]
    BY <1>1, TypeParts DEF Local
  <1>2. CASE Query(d)
    BY <1>2, QueryMeets
  <1>3. ASSUME NEW again \in BOOLEAN, Fail(d, again)
        PROVE  FALSE
    <2>1. run'[d] = Fresh /\ state'[d] = "PREFLIGHT_FAILED"
      BY <1>1, <1>3, FailEnds, TypeParts
    <2> QED
      BY <2>1, FreshTyped DEF Sought, Searching
  <1>4. CASE CatalogContext(d)
    <2> DEFINE H == {x \in Documents : run[d].seen[x] # None}
    <2>1. \A x \in H : Confirmed(x, run[d].seen[x])
      BY <1>3, <1>4 DEF CatalogContext
    <2>2. /\ At(d, "catalog") /\ run'[d].pc = "record"
          /\ run'[d].found = {x \in Documents : run[d].seen[x] # None /\ Qualified(d, x)}
      BY <1>1, <1>4, <2>1, ContextFinds
    <2>3. StrongHit(d, e)
      BY <2>2 DEF Meets
    <2>4. run[d].seen[e] # None
      BY <1>1, <2>3 DEF StrongHit, SearchFits
    <2>5. Qualified(d, e)
      BY <2>3 DEF StrongHit, Qualified
    <2>6. e \in run'[d].found
      BY <2>2, <2>4, <2>5
    <2> QED
      BY <2>2, <2>6 DEF Meets, Searching, At
  <1>5. CASE RecordCandidates(d) \/ AppendEvidence(d)
    <2>1. \E p \in {"classify", "seal"} : Goto(d, p)
      BY <1>3, <1>5 DEF RecordCandidates, AppendEvidence
    <2>2. run'[d].pc \in {"classify", "seal"} /\ run'[d].found = run[d].found
      BY <1>t, <2>1, GotoKeeps DEF Step
    <2>3. e \in run[d].found
      BY <1>5 DEF Meets, RecordCandidates, AppendEvidence, At
    <2> QED
      BY <2>2, <2>3 DEF Meets, Searching, At
  <1>6. CASE Classify(d)
    <2>1. PICK x \in run[d].found \ run[d].judged :
            \/ /\ \E roles \in SUBSET Roles, reason \in Reasons : Judge(d, x, roles, reason)
               /\ UNCHANGED catalog
            \/ x \notin content /\ Fail(d, FALSE)
      BY <1>1, <1>6, ClassifyCases
    <2>2. PICK roles \in SUBSET Roles, reason \in Reasons : Judge(d, x, roles, reason)
      BY <1>3, <2>1
    <2>3. x \in Documents
      BY <1>t DEF Local
    <2>4. run'[d].pc = run[d].pc /\ run'[d].found = run[d].found
      BY <1>t, <2>2, <2>3, JudgeAdds
    <2>5. At(d, "classify")
      BY <1>6 DEF Classify
    <2>6. e \in run[d].found
      BY <2>5 DEF Meets, At
    <2> QED
      BY <2>4, <2>5, <2>6 DEF Meets, Searching, At
  <1>7. CASE Seal(d)
    <2>1. At(d, "seal") /\ Goto(d, "finish") /\ named'[d] = run[d].found
      BY <1>1, <1>3, <1>7, TypeParts DEF Seal
    <2>2. run'[d].pc = "finish"
      BY <1>t, <2>1, GotoKeeps DEF Step
    <2>3. e \in run[d].found
      BY <2>1 DEF Meets, At
    <2> QED
      BY <2>1, <2>2, <2>3 DEF Meets, Searching, At
  <1>8. CASE ~Seal(d) /\ (At(d, "finish") \/ run[d].pc \notin Searching)
    <2>1. e \in named'[d]
      BY <1>8, NamedKept DEF Meets
    <2>2. run'[d].pc = "finish" \/ run'[d].pc \notin Searching
      <3>1. CASE FinishPreflight(d) \/ FinishPublication(d) \/ Interrupt(d)
                 \/ UpsertTimesOut(d) \/ Purge(d)
        <4>1. run'[d] = Fresh
          BY <3>1, <1>t, EndForgets DEF FinishPreflight, FinishPublication, Interrupt,
               UpsertTimesOut, Purge
        <4> QED
          BY <4>1, FreshTyped DEF Searching
      <3>2. CASE Upload(d) \/ Keep(d) \/ Delete(d) \/ Retry(d) \/ ApplyLate(d)
        BY <1>8, <3>2 DEF Upload, Keep, Delete, Retry, Request, ApplyLate, At
      <3>3. CASE Start(d)
        <4>1. Goto(d, First[state[d]])
          BY <3>3 DEF Start, catalog
        <4>2. First[state[d]] \in Step /\ First[state[d]] \notin Searching
          BY <3>3 DEF Start, First, Step, Searching
        <4> QED
          BY <1>t, <4>1, <4>2, GotoKeeps
      <3>4. CASE Prepare(d) \/ ClearScreening(d) \/ DeleteActive(d) \/ DeleteScreening(d)
                 \/ Activate(d) \/ RemoveScreening(d)
        <4>1. \E p \in Step \ Searching : Goto(d, p)
          BY <3>4 DEF Prepare, ClearScreening, DeleteActive, DeleteScreening, Activate,
               RemoveScreening, Step, Searching
        <4> QED
          BY <1>t, <4>1, GotoKeeps
      <3>5. CASE UpsertScreening(d)
        <4>1. At(d, "upsert")
          BY <3>5 DEF UpsertScreening
        <4> QED
          BY <1>1, <4>1 DEF Sought, ThreadFits, At, Preflight, Searching
      <3>6. CASE Query(d) \/ CatalogContext(d) \/ RecordCandidates(d) \/ Classify(d)
                 \/ AppendEvidence(d)
        BY <1>8, <3>6 DEF Query, CatalogContext, RecordCandidates, Classify, AppendEvidence,
             At, Searching
      <3> QED
        BY <1>8, <3>1, <3>2, <3>3, <3>4, <3>5, <3>6 DEF Action, Work
    <2> QED
      BY <2>1, <2>2 DEF Meets, Searching, At
  <1>9. CASE ~(At(d, "finish") \/ run[d].pc \notin Searching)
             /\ ~(Query(d) \/ CatalogContext(d) \/ RecordCandidates(d) \/ AppendEvidence(d)
                  \/ Classify(d) \/ Seal(d))
    <2>1. run[d].pc \in {"query", "catalog", "record", "classify", "seal"}
      BY <1>9 DEF Searching, At
    <2>2. state[d] = "PREFLIGHTING"
      BY <1>1, <2>1 DEF ThreadFits, Preflight
    <2>3. Interrupt(d) \/ ApplyLate(d)
      BY <1>9, <2>1, <2>2 DEF Action, Work, Upload, Keep, Delete, Retry, Request, Start, Prepare,
           ClearScreening, UpsertScreening, UpsertTimesOut, FinishPreflight, Activate,
           RemoveScreening, FinishPublication, DeleteActive, DeleteScreening, Purge, At
    <2>4. ~Interrupt(d)
      <3> SUFFICES ASSUME Interrupt(d) PROVE FALSE
        OBVIOUS
      <3>1. run'[d] = Fresh /\ state' = state
        BY <1>t, EndForgets DEF Interrupt
      <3> QED
        BY <2>2, <3>1, FreshTyped DEF Sought, Searching
    <2>5. run' = run /\ active' = active /\ named' = named
      BY <2>3, <2>4 DEF ApplyLate, catalog
    <2> QED
      BY <2>5 DEF Meets, StrongHit, At
  <1> QED
    BY <1>2, <1>4, <1>5, <1>6, <1>7, <1>8, <1>9

\* A step of another document, the one that is met among them, leaves a search to it.
LEMMA OthersMeet ==
    ASSUME Inv, NEW x \in Documents, Action(x), NEW d \in Documents \ {x}, NEW e \in Documents,
           NEW j \in Chunks, NEW k \in Chunks, Sought(e), Meets(d, e, j, k)
    PROVE  Meets(d, e, j, k)'
  <1>1. Beside(x)
    BY StepTyped DEF Inv
  <1>2. run'[d] = run[d] /\ named'[d] = named[d]
    BY <1>1 DEF Beside
  <1>3. active[e] # 0 => active'[e] # 0
    <2>1. CASE e = x
      BY <2>1, ActiveKept
    <2>2. CASE e # x
      BY <1>1, <2>2 DEF Beside
    <2> QED
      BY <2>1, <2>2
  <1> QED
    BY <1>2, <1>3 DEF Meets, StrongHit, At

\* Of two documents that may be looked for one meets the other, whoever moves.
LEMMA PairStep ==
    ASSUME Inv, SoughtVisible, NEW x \in Documents, Action(x),
           NEW j \in Chunks, NEW k \in Chunks, j < k,
           Similarity[j] = "strong", Similarity[k] = "strong", PairsMeet(j, k)
    PROVE  PairsMeet(j, k)'
  <1>1. Beside(x)
    BY StepTyped DEF Inv
  <1>2. \A d \in Documents \ {x} : Sought(d)' <=> Sought(d)
    BY <1>1 DEF Beside, Sought
  \* A pair without x, in either order.
  <1>3. ASSUME NEW d \in Documents \ {x}, NEW e \in Documents \ {x}, d # e, Sought(d)', Sought(e)'
        PROVE  Meets(d, e, j, k)' \/ Meets(e, d, j, k)'
    <2>1. Meets(d, e, j, k) \/ Meets(e, d, j, k)
      BY <1>2, <1>3 DEF PairsMeet
    <2> QED
      BY <1>2, <1>3, <2>1, OthersMeet
  \* A pair of x and another.
  <1>4. ASSUME NEW e \in Documents \ {x}, Sought(x)', Sought(e)'
        PROVE  Meets(x, e, j, k)' \/ Meets(e, x, j, k)'
    <2>1. Sought(e)
      BY <1>2, <1>4
    <2>2. CASE Sought(x)
      <3>1. CASE Meets(x, e, j, k)
        BY <1>4, <2>1, <2>2, <3>1, FinderMeets
      <3>2. CASE Meets(e, x, j, k)
        BY <2>2, <3>2, OthersMeet
      <3> QED
        BY <2>1, <2>2, <3>1, <3>2 DEF PairsMeet
    <2>3. CASE ~Sought(x)
      <3>1. run'[x].pc = "query" /\ run'[x].next = 0
        BY <1>4, <2>3, SoughtByUpsert
      <3>2. j \in Nat /\ j >= 1
        BY ChunksTyped
      <3>3. run'[x].next <= 4 * (j - 1) + 1
        BY <3>1, <3>2
      <3> QED
        BY <3>1, <3>3 DEF Meets, Searching, At
    <2> QED
      BY <2>2, <2>3
  <1> QED
    BY <1>3, <1>4 DEF PairsMeet

\* Two chunks that match strongly.
TwoStrongChunks ==
    \E j, k \in Chunks : j < k /\ Similarity[j] = "strong" /\ Similarity[k] = "strong"

\* Two documents that resemble each other strongly in two chunks are never both
\* searchable unless one was shown to a reviewer as a candidate of the other,
\* however their preflights, publications, retries and deletions overlap and
\* whatever arrives late.  Two chunks are needed: with one, a document that moves
\* from the screening to the active collection between the two dense queries of
\* _discover_candidates is missed (run missed_duplicate).
THEOREM DuplicatesAlwaysMeet == TwoStrongChunks /\ Spec => []DuplicatesMeet
  <1>1. SUFFICES ASSUME TwoStrongChunks PROVE Spec => []DuplicatesMeet
    OBVIOUS
  <1>2. PICK j \in Chunks, k \in Chunks :
            j < k /\ Similarity[j] = "strong" /\ Similarity[k] = "strong"
    BY <1>1 DEF TwoStrongChunks
  <1> DEFINE M == Inv /\ SoughtVisible /\ PairsMeet(j, k)
  <1>3. Init => M
    <2>1. Init => \A d \in Documents : ~Sought(d)
      BY FreshTyped DEF Init, Sought, Searching
    <2> QED
      BY <2>1, InvInit DEF SoughtVisible, PairsMeet
  <1>4. M /\ [Next]_vars => M'
    <2> SUFFICES ASSUME M, [Next]_vars PROVE M'
      OBVIOUS
    <2>1. Inv'
      BY InvStep
    <2>2. CASE Next
      <3>1. PICK x \in Documents : Action(x)
        BY <2>2, NextActs
      <3> QED
        BY <1>2, <2>1, <3>1, VisibleStep, PairStep
    <2>3. CASE UNCHANGED vars
      BY <2>1, <2>3 DEF vars, SoughtVisible, PairsMeet, Sought, Meets, StrongHit, At
    <2> QED
      BY <2>2, <2>3
  <1>5. M => DuplicatesMeet
    <2> SUFFICES ASSUME M, NEW d \in Documents, NEW e \in Documents, d # e,
                        {state[d], state[e]} = {"READY"}
                 PROVE  d \in named[e] \/ e \in named[d]
      BY DEF DuplicatesMeet
    <2>1. state[d] = "READY" /\ state[e] = "READY"
      OBVIOUS
    <2>2. \A x \in {d, e} : run[x].pc \notin Searching
      BY <2>1 DEF Inv, Fits, ThreadFits, Preflight, Searching
    <2>3. Meets(d, e, j, k) \/ Meets(e, d, j, k)
      BY <2>1 DEF PairsMeet, Sought
    <2> QED
      BY <2>2, <2>3 DEF Meets
  <1> QED
    BY <1>3, <1>4, <1>5, PTL DEF Spec
=============================================================================
