# PDF Bridge: formal models

PDF Bridge admits PDF files, prepares them (extraction, Markdown, chunks, vectors), screens them
against the documents it already knows, publishes the approved ones as points of a Qdrant
collection, and deletes, replaces, cancels or rejects them with proof that nothing is left. The
catalog (SQL), the object storage and Qdrant share no transaction, and the work is done by two
threads of one process that may die between any two steps. This directory models that lifecycle.

## Inventory

| Component | Source (`pdf_bridge/`) | State | Operations |
|---|---|---|---|
| Admission and decisions | `services/intake.py`, `services/document.py`, `managers/document.py` | `Document`, `PublicationRecord`, `DeletionProgress`, `WorkOperation`, `IdempotencyRecord` rows | upload, keep / replace / cancel decision, delete, retry; each one transaction under the process transition lock, in front of an idempotency reservation |
| Work queue | `managers/worker.py` 529-905 | `WorkOperation` state, phase and lease; in-process `_busy_documents`, `_claim_times` | claim by priority, heartbeat, recover expired leases, release |
| Preflight | `managers/worker.py` 1377-2190, `services/preparation.py` | `PreparedRevision` and its children, artifacts, screening points | begin, prepare, bind, write screening points, discover, classify, seal, finish; or reject |
| Publication | `managers/worker.py` 2194-2422, `services/vector_index.py` | publication status, active points and their visibility | stage hidden, verify, activate, verify, remove screening, verify, finish |
| Deletion | `managers/worker.py` 2426-2795 | `DeletionProgress` proofs and phase, files, tombstone | delete and prove zero in both collections, purge, tombstone |
| Candidates and classification | `services/candidates.py`, `services/classification.py` | none | ranking, qualification, advisory findings |
| Storage | `services/storage.py` | files under UUID keys | stage, promote, remove |
| Re-ingestion | `services/reingestion.py` | a state file | resumable upload of a manifest |
| Reads | `services/catalog.py`, `managers/catalog.py`, `presentation/`, `services/search.py` | none | documents and history by keyset pages, the document with its allowed actions, candidate pages of a revision, search |
| Console | `streamlit_app/` | a session: cursor stacks, idempotency keys | page through lists, inspect a document from two reads, decide, delete, retry |
| Chunking | `services/markdown_chunking.py` | none | parse pages into blocks, split oversized ones, pack with overlap |
| Formatting | `services/markdown_formatter.py`, `services/preparation.py` 562-887, 1757-1891 | `FormatterBatch` and `PreparedPage` rows | slice, pack, request with retries, assemble, record, validate at the seal |
| Content pipeline | `services/extraction*.py`, `local_embeddings.py`, `profiles.py`, `filenames.py`, `scanner.py` | none | pure or external |
| Shell | `app.py`, `controllers/`, `http/`, `contracts/`, `core/`, health | configuration | routing, authentication, validation, probes |
| Migrations, interactive docs | `migrations/`, `interactive-docs/` | none that the service reads | tooling |

How they interact. An API mutation writes document and operation rows in one transaction and wakes
the worker. A slot thread claims the queued operation of highest priority whose documents no other
slot has, writes each phase before the external call it stands for, and re-checks in every durable
step that the row is still RUNNING and its own. A preflight that finds nothing queues the
publication itself; a rejection queues its own cleanup; a replacement is one publication operation
that first deletes the old document. Failures go through `_fail_operation` to a `*_FAILED` state
from which an operator retries or deletes. The console reads pages and documents through the API,
each read a transaction of its own, and acts on what it read last.

What is hard here: two slots and the API over shared rows; a lease that expires under a live thread;
a crash between an external effect and the row that records it; mutations of Qdrant that are partial
or acknowledged and not applied; one operation that owns two documents; retries that resume at a
durable checkpoint; a Qdrant call that times out and takes effect later; an operator who acts on a page
that the worker has overtaken. What makes it correct, component by component:

* queue: one open operation per document, one slot per document, nothing stranded in progress;
* preflight: only complete revisions are sealed, a sealed revision never changes, publication names
  the newest one;
* publication: READY means exactly the approved revision is searchable;
* deletion: a zero proof stays true, files go only after the points, terminal means content-free;
* replacement: old and new are never searchable together, and fail and resume together;
* API: what is offered is accepted; every accepted request ends;
* admission: one effect per idempotency key, no bytes twice, no row without its file, no lock kept;
* discovery: documents alike are not both published unseen, and a failed search can be repeated;
* formatting: it ends, and what was formatted is recorded and sealed;
* chunking: nothing is lost, moved or given the wrong page, and refusals have a cause;
* reads and console: a walk through a list skips and repeats nothing that stays, evidence shown
  together belongs together, and an action offered reaches the service as that action;
* re-ingestion: a bounded number outstanding, one unknown acceptance, a rerun that completes.

The hazards are listed, at their lines, in `PROJECT.json`.

## Modules

`Lifecycle` is the detailed model. Its variables are the catalog rows (`doc`, `revisions`, `vectors`,
`content`, `pub`, `del`, `ops`), the external stores (`active`, `screening`, `files`), the threads
(`slot`: the claimed operation, the next statement and the locals that survive a step) and three
counters that bound requests, errors and interruptions. Its actions:

* *API* (`Upload`, `Keep`, `Replace`, `Cancel`, `Delete`, `Retry`): the transactions of `intake.py`,
  with all checks of `_validate_replacement_target`, `_deletion_target_for_state`, `request_retry`
  as guards. A refused request changes nothing and is not an action.
* *slots*: `Claim`, `FailOperation`, and for each method of the worker one action per catalog
  transaction or external call. A phase write and the call it announces are one step, because the
  call does not read the operation row and a crash between them is the same state as a crash before
  the call with the phase already written; every other pair of statements can be separated.
* *trouble*: `Crash` empties the slots and leaves the rows; `RecoverLease` requeues a row whose
  process is gone; `LapseLease` requeues one whose thread still runs; `LoseLease` and
  `LoseOwnership` are what that thread finds at its next durable step (silent end or, where the code
  raises an ordinary error, `_fail_operation`, which then finds that it owns nothing); `Fault` and
  `FailPreparation` are retryable errors, `Misconfigured` is a non-retryable one; `Attempt` lets a
  Qdrant mutation be applied in part, with or without an exception.

A chunk set per revision, a failure class instead of a code, one logical collection, and a
nondeterministic match instead of similarity are the data abstractions. Four transactions repeat
consistency checks that cannot fail while the slot holds its lease; the actions state them as guards
and `ChecksPass` shows that they never block.

`DocumentContract` is the abstract specification: the lifecycle diagram of a document with what a
client may infer from it (searchable only through publication, hidden before purged, purged before
terminal). `Lifecycle!Contract` instantiates it with the mapping state <- the row's state, searchable
<- some visible point exists, stored <- key, content rows or files exist.

`WorkerQueue` is the executor below the operations: rows with a lease that counts down, the busy set
and the claim times, the statements of `_claim_next` under its two locks, `_execute` with its
finally clause, the handler of `_slot_loop`, the heartbeat in its two steps, and a process that
stops, dies and starts again. An operation ends, raises, or takes its time. It repeats the queue of
`Lifecycle` with what that module abstracts to `LapseLease`: the clock, the runtime cap, and a
failure that cannot be recorded.

`Admission` is what `Lifecycle!Upload` hides: HTTP calls on threads of their own stream and scan
files, then take the transition lock for one transaction that reserves the idempotency key, looks
for the same bytes, promotes the file, inserts the rows and completes the key. Registration and
commit may fail and are compensated; a crash ends all calls and leaves what is on disk. A document is
named by its call; the mutation beside the upload is the deletion.

`Discovery` is what `Lifecycle!DiscoverCandidates` hides: for each chunk the dense and the sparse
query of the active and of the screening collection are steps of their own, followed by the catalog
context, the recording, the reading of excerpts for the two model calls, the evidence and the seal,
beside the publication and deletion of the neighbour. `Similarity` says how alike the documents are,
chunk by chunk; which hits qualify is `evaluate_candidates`. Names and whole texts are taken to
differ, so the exact-match channels do not help. An upsert of screening points may time out at the client
and be applied later; Qdrant is assumed to apply the updates of one collection in the order it took
them, so a later call that is waited for (`wait=true`) flushes it.

`Formatter` is what `Lifecycle!PrepareContent` hides of the formatting. Texts are short sequences of letters,
spaces, newlines and tabs; the tokenizer has tokens of a fixed size, so that the binary searches of
the code return the largest fitting prefix. An answer is valid, or rejected after any number of its
slices were compared. `RecordFormatting` and `RowsValid` are the checks of `record_formatting` and
of the seal on what the earlier steps produced.

`Chunking` is what `PrepareContent` hides of the chunking. A document is a short sequence of lines, each
a kind (heading, prose, fence marker with or without an info string, table row, separator, blank) and a
number of wordpieces; its documents are those that pass the formatter's fence and table checks. Parsing
takes a block a step, packing a block a step; the binary searches over break positions are the largest
fitting piece, because every position is a break position in the code.

`Console` puts an operator's session beside the service: one action per script run or click, one per
move of the service. A document is its place in the order of the lists, a cursor is the row it names.
The list half has any number of documents joining, changing and leaving under a stack of cursors; the
document half has the two reads of the page, the pages of candidates and the buttons. The second read is
answered, refused (`content_purged`, `invalid_cursor`) or fails (`problem`); the buttons are drawn in each
case. Requests carry what the page said, and the service decides by what is true when they arrive; a retry
may arrive late, and other operators delete, decide on and retry the same document.

`Reingestion` is the client: its runs, its state file and its memory, with the service reduced to
one idempotency record, one document state and one reason for refusal per manifest entry (`barred`: by its
content, such as malware or size, at every upload; as a duplicate of other retained bytes, at a first one). A
reason may come at any time, go again or stay for ever. A call may fail before or after it took
effect, and a request given up may still arrive later. In anonymous mode a run is an actor of its own.

`MCLifecycle`, `MCWorkerQueue`, `MCAdmission`, `MCDiscovery`, `MCFormatter`, `MCChunking`, `MCConsole` and
`MCReingestion` add instances and symmetry sets for TLC. Theorems are in
modules of their own: `LifecycleProofs` (types, ownership, what a step writes) and `DocumentProofs`
(documents, the refinement of `DocumentContract`, failures), which extends it, are about `Lifecycle`;
`WorkerQueueProofs`, `AdmissionProofs`, `DiscoveryProofs`, `ChunkingProofs`, `ReingestionProofs` and
`ConsoleProofs` are about the module they are named after.

## Runs

| Run | Instance | Checks |
|---|---|---|
| `replacement` | 2 documents, 1 chunk, 2 slots, 4 requests, 1 error | `TypeOK`, `OneOpenOperation`, `WorkIsOwned`, `NoReplacementOverlap`, `NewestRevisionPublished`, `ContractRespected` |
| `recovery` | 1 document, 2 chunks, 2 slots, 3 requests, 2 errors, 2 interruptions | `ReadyExact`, `ProofsHold`, `TerminalPurged`, `RetryAccepted`, `ChecksPass`, `SlotsDisjoint`, `RejectionReasonKept`, `CheckpointsPermanent` |
| `settle` | 2 documents, 1 chunk, 1 slot, 2 requests, 1 error, 1 interruption, with fairness | `WorkSettles` |
| `queue` | 3 operations on 2 documents (one locks both), 2 slots, lease 1, cap 2, 1 lost failure, 1 exit, with fairness | `ClaimUncontested`, `ClaimsExact`, `LeasesRecover` |
| `admission` | 3 calls, 2 keys, 2 contents, 1 error, 1 crash | `SourceStored`, `NoDuplicates`, `OneEffectPerKey`, `LeftoversExplained` |
| `discovery` | 2 documents alike in 2 chunks, 2 slots, 3 revisions each, 4 requests, interruptions and timeouts together | `DuplicatesMeet`, `SealAccepted`, `PointsMatchCatalog`, `PreflightFailureRetryable` |
| `formatting` | 3 pages of 6 texts, 4 context windows, 2 pages a request, 2 attempts, with fairness | `SealAccepts`, `RefusalsExplained`, `FormattingEnds` |
| `reingest` | 3 entries, 2 outstanding, 2 errors, both modes, with fairness | `OutstandingBounded`, `OneUnknown`, `ManifestCompletes` |
| `chunking` | up to 5 lines of 10 kinds and sizes on up to 2 pages; target 9, overlap 5, maximum 11, 2 special tokens, 5 chunks | `NothingLost`, `RefusedForACause`, `OverlapIsFresh`, `Provenance` |
| `console` | 5 documents, pages of 2, 3 revisions with 3, 5 and 4 candidates, 4 operations, 5 other moves | `WalkExact`, `EvidenceOfOneRevision`, `DecisionSeesEvidence`, `RetryNotSwallowed` |
| `failure_lost` | 1 operation, 2 slots, lease 2, cap 3, 1 lost failure, with fairness; violation | `AbandonedRecovered` |
| `missed_duplicate` | 2 documents alike in 1 chunk, no requests; violation | `DuplicatesMeet` |

Why the bounds are enough for the cases that matter. A replacement needs two uploads and a decision,
and its retry or the deletion of its failed half a fourth request; one error makes any of its steps
fail, and one between the seal and the end of a preflight leaves two sealed revisions for the
decision to choose from. Two chunks make a mutation partial; two errors make the retry fail as well, and two
interruptions put a crash into the recovery from a crash. Two slots and one lapse put a second
thread beside one that has lost its lease. In the queue, a lease of one tick and a cap of two let a
claim expire with and without having reached the cap, before and after a renewal. Three calls are two
that race and one that repeats either; two keys and two contents separate a conflict, a replay and a
duplicate. Two chunks make eight queries, any of which a neighbour's publication can fall between;
three revisions and four requests let it fail or time out, be retried and be deleted meanwhile, with the
late update still on its way. The windows of the formatter are
those in which not even the prompt, only the prompt, only an empty page, and exactly the input budget
fit; with the texts they give whole, line-split, token-split and empty pages, and the page limit is
met before the token budget. Three entries with two outstanding leave one waiting while another's
acceptance is unknown. In `chunking` a row fits beside a header or does not, a block has exactly the
maximum, the overlap fits before the next block or must give way, and five lines make a table with two
pieces, a fence with a body beyond its room, or prose that is cut into pieces which overlap across a page.
In `console` pages of two make walks of three pages over five documents, five moves let rows join and
leave before and behind the cursor, and a later revision has fewer or more candidates than the cursor's.

Deadlock is not checked: an idle service, a finished formatting and a finished manifest are proper
final states, and the counters make such states reachable. `WorkSettles`, `LeasesRecover`,
`FormattingEnds`, `ManifestCompletes`, `LeftoversExplained` and `ChecksPass` cover getting stuck in the
middle.

Fairness. `settle`: weak fairness of each slot's next step, of claiming by some slot, and of
lease recovery. The code justifies them: `_slot_loop` runs until it is stopped, every poll calls
recovery before it claims, every external call has a timeout, and leases expire. No request is
assumed to come, and no fairness is put on errors, lapses or crashes, which the counters make finite. `queue` and
`failure_lost`: the clock ticks, each slot's claim and execution steps and the heartbeat go on, and a
stopped service is started again; failing to record a failure, stopping and crashing are never
forced. `formatting`: the thread goes on, and each provider call ends by its timeout, with a valid
answer or not. `reingest`: the operator runs an unfinished manifest again, a run goes on until it
ends, and documents settle (retried or deleted by operators where they failed), as the migration
guide asks; lost calls are finitely many. Nothing makes the service take an entry that it refuses:
`ManifestCompletes` has as its premise that it does in the end.

### What the violations show

* `AbandonedRecovered` with a lost failure: `_fail_operation` raises, the claim time is gone, the row
  stays RUNNING under the living worker, and every heartbeat renews it. Only a restart frees it.
* `DuplicatesMeet` for one chunk: the active collection is searched before the screening collection,
  and a publication moves its points the other way. Between the two queries it can pass unseen. With
  two similar chunks (`discovery`) a second look finds it in all interleavings of the model.

### Deviations that the passing properties delimit

Some properties hold only up to a case in which the code does less than one would wish. The property
names the case and shows that there is no other.

* `RetryAccepted`: an operation that fails before its first phase is recorded stays at QUEUED;
  `allowed_actions` offers RETRY and `request_retry` answers `retry_checkpoint_missing`. Past the
  first phase every offered retry of a document that was not replaced is taken. A replaced one is the
  second case: when the incoming document of a failed replacement is deleted, the old one stays
  DELETE_FAILED and retryable, `request_retry` (`intake.py` 1071) wants the incoming document in
  PUBLISH_FAILED and answers `replacement_retry_binding_invalid`, and a delete request returns the existing
  operation. `docs/service-contract.md` 86-88 promises a retry for every retryable failure.
* `RejectionReasonKept`: the tombstone of a rejection lacks its reason only if its cleanup failed
  once: the failure overwrote the reason and the retry cleared it.
* `ClaimsExact` and `LeasesRecover` hold until a failure is lost. After that `_execute` and
  `_slot_loop` both release the claim; if the other slot has claimed the requeued operation in
  between, the second release frees its documents. `ClaimUncontested` holds all the same.
* `PreflightFailureRetryable`: with the providers configured (the others are `Misconfigured` of `Lifecycle`), a
  preflight fails for good only when a candidate was purged between its recording and the reading of its
  excerpts. If it is purged after that, `append_advisory_evidence` refuses to cite it and the failure
  is retryable.
* `PointsMatchCatalog`: at rest, the only points that make a search fail are the screening points of
  a failed preflight; any similar document that hits them fails in its turn.
* `RefusalsExplained`: a complete formatting is refused for a dropped character or for a
  line split inside a word, whose slices read as two words when joined; there is no third cause. The
  dropped character is a tab (or a format character) that the extraction keeps and the formatter drops:
  `_formatted_slice_records` (`preparation.py` 574) compares the two texts and refuses, at every retry.
* `PointsMatchCatalog` with late updates: only the deletion that is sent whether or not points are found
  keeps a timed-out upsert from reappearing after a deletion.
* `RefusedForACause`: a document that the formatter accepted is refused for good when a table header, one
  row with its header, or the first and last line of an oversized fence do not fit a chunk, or for its
  number of chunks. What a fence is, is the chunker's own reading: any marker closes its fence, so
  a marker with an info string inside one closes it, and the next bare marker opens one that reaches
  to the end of the page, headings and tables included. `_split_fence` also counts the special tokens
  twice, so a wrapper is refused two tokens early.
* `Provenance` claims no more than the innermost heading. When a level is skipped (`#` A, `###` B, `###` C) the
  path of C is A / B / C: `headings[level - 1 :] = [title]` leaves no gap for the missing level.
* `WalkExact`: a later page whose rows have all left is empty, and the console then says that no document
  matches and draws no controls; what is left of the list is on the pages before it.
* `DecisionSeesEvidence`: the buttons follow the document read alone (`workspace.py` 345), so Keep and Cancel
  are also drawn when the evidence read had no answer. Candidates that are shown are those of the revision the
  decision binds to. If the service refused them (another operator's deletion between the two reads), it
  refuses the decision too. If the read failed for another reason, the decision is taken, without the
  operator having seen the evidence.
* `ManifestCompletes`: an entry that the service refuses for good (`malware_detected`, `exact_duplicate`, a file
  over the limit) stops every rerun at that entry, because `pending.pop(0)` sends it first again, and no
  entry behind it is ever sent; the ones before it complete. So an entry completes if neither it nor one
  before it stays refused. In anonymous mode a rerun is another actor, so the key of a request whose
  acceptance was lost is refused for ever, with the same effect.

### Observed while modelling, without a run

* `allowed_actions` offers DELETE in DELETE_FAILED; `request_deletion` then returns the failed operation and
  queues nothing.
* `docs/contracts/chunks-qdrant.md` prefers paragraph and sentence boundaries and forbids chunks of formatting
  only. `_break_positions` contains every position, so the longest prefix is cut inside words, and
  nothing refuses a chunk that is a lone heading or rule.

## Proofs

Every theorem holds for all values of the constants that satisfy the named assumptions of its module;
none of them bounds documents, chunks, slots, calls, requests, errors or crashes, and TLC evaluates each
assumption on the runs. Four do not come from the configuration of the program: `NoneAssumption`,
`NullAssumption` and `HitAssumption` say that the null of a column is none of the values it stands beside,
`LinesAssumption` which lines of Markdown have no wordpieces.

### The life of a document (`Lifecycle`)

From `NoneAssumption`, `NullAssumption`, `ChunksAssumption` and `BoundsAssumption`:

* `TypeCorrect`: `Spec => []TypeOK`. `TypeOK` is not inductive: a step reads the row its slot points
  to, a retry of a deletion copies the phase of a checkpoint, and a tombstone copies a disposition.
  `TypeInv` adds that a busy slot points to an existing row, that a checkpoint names a phase, and
  that whatever is being deleted, and whatever has a DELETE operation, has its disposition. Steps
  are grouped: *quiet* ones change no document row and no operation but for phase and revision;
  *loud* ones (requests, completions, failures) are proved one by one.
* `SlotsExclusive`: `Spec => []SlotsDisjoint`. Only `Claim` gives a slot an operation, it avoids
  `Busy`, and no step changes what an existing operation is about (`HistoryKept`).
* `OperationsExclusive` and `InProgressOwned`: `Spec => []OneOpenOperation`, `Spec => []WorkIsOwned`.
  The code keeps two operations apart by document states, not by a lock, so the two need each other
  and three more facts (`Ownership`): the target of a publication is replaced by the document it
  publishes, a replaced document is dying and never gets an operation of its own, and a document
  with a DELETE operation is dying. Then a request that starts from a quiet state finds no open
  operation, and a completing step leaves none that it does not account for.
* `DocumentsConsistent`: `Spec => []DocumentInv`. None of the properties below is inductive, because the
  worker keeps rows, points and files in agreement through what a thread remembers from one statement
  to the next. `DocumentInv` adds to types and ownership
  * what the rows of a document say together (`RowsAgree`): a checkpoint exists exactly while the
    document is dying and is complete exactly when it is terminal; what it proves gone is gone; a
    publication is that of an approved document and names its last revision, which is sealed; READY has
    exactly the points of that revision;
  * what a slot knows at each statement (`SlotInformed`): the statement fits the type of an open
    operation, the revision in hand is the last one and has the status the statement expects, points
    that were verified are still there, the proofs in memory are those of the checkpoint;
  * what operations say of documents (`PublicationsBound`, `ReplacementBound`): a PUBLISH has the approved
    revision, a replacement keeps its target for ever and shows nothing before that is terminal.

  A step writes only the documents that its operation locks. So each action is first summed up in the
  columns the invariant reads (`PreflightEffect`, `PublishEffect`, ...), frame lemmas carry the other
  documents and the other slots over (`SlotsDisjoint` and `OneOpenOperation` are what makes that true),
  and only the documents in hand are looked at. From it:
  `ProofsStayTrue` (`ProofsHold`), `TerminalContentFree` (`TerminalPurged`), `ReadyIsExact`
  (`ReadyExact`), `NewestPublished` (`NewestRevisionPublished`), `ReplacementOrdered`
  (`NoReplacementOverlap`), `ChecksNeverFail` (`ChecksPass`).
* `CheckpointsKept`: `Spec => CheckpointsPermanent`, an action property, and `ContractImplemented`:
  `Spec => ContractRespected`, the refinement of `DocumentContract`. Both are proved document by document:
  `Follows(d)` says that a step keeps the checkpoints of `d` and is a `DocumentStep` of the contract, or
  leaves what a client sees of `d` alone. The mapping hides three stores behind `stored`; with
  `RowsAgree` before and after the step, something is stored exactly while the row has its key
  (`StoredByKey`), so a purge shows in the contract only at the commit that clears it. `searchable` changes
  only at the statements that write visible points, and those know the state of their document.
* `FailuresRecorded`: `Spec => []FailureInvariant`. `DocumentInv` does not tell which operation a failure
  is recorded in. `FailuresBound` adds that an open operation is the last of its type for its document, that only a
  succeeded one is at a final phase, and that the last one of a failed document failed with the
  document's retryability; `ReasonsBound` that a rejection lost its reason only through a failed cleanup. From it:
  `FailuresRetryable` (`RetryAccepted`) and `ReasonsReachTombstone` (`RejectionReasonKept`).

### The search for duplicates (`Discovery`)

For any documents, similarity, slots, budget, revisions and requests. `HitAssumption` says of `None` what
`NoneAssumption` says elsewhere.

* `TypeCorrect`, and `SealAlwaysAccepted` (`SealAccepted`), `PointsAlwaysMatch` (`PointsMatchCatalog`) and
  `FailureExplained` (`PreflightFailureRetryable`) from `Inv`. What a search concludes lies many statements
  after what it read, so `Inv` says of each document that its thread works on the operation its state names
  (`ThreadFits`), what the thread has gathered by each statement (`SearchFits`), that the reasons for an open
  review are there exactly when an answer on a judged candidate is missing (`AnswersFit`), and where
  the document has points at each statement of its life, updates that have not arrived included
  (`PointsFit`). A preflight that failed for good met a document that is deleted, and deletion is for ever
  (`FailureFits`). An action belongs to one document; what it can do to the others is `Beside`.
* `DuplicatesAlwaysMeet`: `TwoStrongChunks /\ Spec => []DuplicatesMeet`. Nothing serialises two preflights: each
  puts its points into the screening collection before it searches, so the one that searches last sees
  the other, unless the other moves to the active collection in the middle of the search. `SoughtVisible` says
  that a document past its upsert is always in one of the collections; `PairsMeet` that of two such
  documents one has found the other or is bound to: it has not asked for the first strong chunk yet, or
  the other is already active and it has not asked for the second. The hypothesis is needed: `missed_duplicate`
  is the run in which the documents share one chunk, and the move falls between its two queries.

### Chunking (`Chunking`)

For any document of the formatter's form, any sizes of its lines and any limits that the code's constants are
ordered like (`TokensAssumption`). `LinesAssumption` is about the abstraction of a line: exactly the blank
ones have no wordpieces. A line of nothing but characters that the tokenizer drops is outside it.

What the splitters compute is said of texts of any length, so these proofs need induction. The library's
rules take an operator as a parameter and cannot be used; `Induct` says instead that a *set* of numbers with
zero and every successor is `Nat`, and follows from the well-foundedness of `<`. `FlattenSeq`, `Text`, `Cut`
and `SplitTable` are then each characterised once: which wordpieces they hold, and in which order.

* `OnlyCauses`: `Spec => []RefusedForACause`, from `Fit`: blocks and parts are texts of the lines before `index`
  and within the hard maximum, packing begins after the last line, and there is something to pack. So
  neither of the two checks of `flush` for malformed chunks can fire.
* `RepeatsAreFresh`: `Spec => []OverlapIsFresh`. `Fresh` says of the open parts what the property says of the
  finished chunks; that they always have text of their own is what lets an overlap be replaced.
* `ChunkedWhole`: `Spec => []NothingLost`. `Whole` says that what is in chunks, in the open parts and in blocks is,
  put together, the text up to `index`: every wordpiece, in order unless it occurs more than once, and headings and
  prose strictly in order. Parsing appends to this stream; packing only moves the two seams in it (`WholePack`).
* `PlacedChunks`: `Spec => []Provenance`. `InPlace` says that blocks never go back in pages or in innermost
  headings, and that the open parts begin no earlier than the last chunk did, overlap included.

### The executor, admission and the clients

* `ClaimsUncontested` and `ClaimTableExact`: `Spec => []ClaimUncontested`, `Spec => []ClaimsExact` for
  `WorkerQueue`, for any slots, documents, locks, lease and cap. `QueueInv` adds that only one slot is
  inside `_claim_next`, that a slot past it has an operation, that the holders of claims have
  disjoint documents, and that a second release is only pending after a lost failure: those facts
  hold while no failure was lost, `ClaimUncontested` always.

* `DecisionsInformed` and `RetriesHeard`: `Spec => []DecisionSeesEvidence`, `Spec => []RetryNotSwallowed` for
  `Console`, for any documents, page size, candidates and bounds. `ConsoleInv` says that evidence on the
  screen is never older than the document read it belongs to nor newer than the service
  (`EvidenceBetween`), that a revision once shown for review is the last one (`ReviewFinal`: no way leads
  back to a preflight), and that a completed key is of an operation older than the newest (`KeysOld`).
  Between two equal bounds the evidence is of the page's revision; a page that shows the newest
  operation has an unused key. A refusal is the other half of `DecisionSeesEvidence`: every cursor of the
  stack came with evidence and so lies between the same bounds (`CursorBetween`), so that a page for review
  is refused its evidence only once a deletion began (`RefusedGone`), from which nothing leads back.
* `WalksExact` and `EvidenceWhole`: `Spec => []WalkExact`, `Spec => []EvidenceOfOneRevision` for `Console`, for any
  documents, page size and candidates. Pages are read, read again and cut back, so an invariant about the
  page on the screen is not enough: `WalkInv` says of every cursor of the stack that the pages before it lie
  above it, the pages after it below, and each lasting row on one of the former or below
  (`Descending`, `StillToCome`); cutting the stack back then keeps it by itself. `KeysetPage` is the lemma about a
  query: its rows, a cursor that is the last of them, and all the rest below that cursor. `EvidenceInv` says the
  same of the candidates: all cursors and pages are of one revision, and the pages before a cursor have
  every rank up to it (`Gapless`). The evidence may all be of a newer revision than the page; the next
  reading of the document drops it.

* `SourcesStored`, `BytesUnique`, `KeysExact`, `LeftoversCounted`: `Spec => []SourceStored`, `[]NoDuplicates`,
  `[]OneEffectPerKey`, `[]LeftoversExplained` for `Admission`, for any calls, keys, contents, errors and
  crashes. `AdmissionInv` has at its centre that a call between the reservation and the commit holds the
  lock, that its key is still free, that its bytes have no twin (`Reserved`) and that it has no row yet
  (`RowsEarned`); an acceptance is what the record of its key says (`AnswersRecorded`), so two answers under
  one key are the same. A file without a row is counted against a crash when the crash happens
  (`OrphansCounted`), because compensation removes every other one. `NullAssumption` lists the records that
  `None` must differ from.
* `UnknownIsOne`, `OutstandingWithinLimit`: `Spec => []OneUnknown`, `[]OutstandingBounded` for `Reingestion`, for
  any manifest, limit and number of errors. `ReingestionInv` says that entries are sent in order, each
  after the ones before it are in the state file (`InOrder`), that memory and file know only what was
  accepted (`KnownTrue`), and how far memory may be ahead of the file at each point of a run
  (`MemoryAhead`). The bound is not inductive as `OutstandingBounded` states it: a request that was given
  up may yet arrive. `ExposedBounded` counts it from the moment it is sent.

Each inductive invariant was checked by TLC on the instances of the runs before it was proved (`DocumentInv` and
`FailureInvariant` with the constants of `recovery` and `replacement`, `AdmissionInv` of `admission`,
`WalkInv`, `EvidenceInv` and `RefusedGone` of `console`, `Inv`, `SoughtVisible` and `PairsMeet` of `discovery`, `Fit`, `Finished`,
`Fresh`, `Whole` and `InPlace` of `chunking`,
`ReingestionInv` with a manifest of four). The proofs use only definitions of the modules that the runs
check as they stand.

Only model-checked:

* `WorkSettles`, `LeasesRecover`, `FormattingEnds` and `ManifestCompletes`: the prover supports neither
  fairness nor ENABLED;
* `SealAccepts` and `RefusalsExplained` of `Formatter`: they are about filters and folds over the characters of a
  page, for each of which an induction like those of `ChunkingProofs` would be needed.

## Not modelled, and why

The index outbox and the audit trail (written, and read by no guard of the lifecycle); the effect of
a lost failure on the documents (only on the queue, in `WorkerQueue`); a late Qdrant call outside
`Discovery` (there the screening collection shows the hazard; the other calls have the same form and the
same order of updates); several logical collections; more than one API process; the order of candidates,
extraction, embedding and the links and cell counts among the Markdown structure checks (outcomes of one
step); tokenizers that are not additive, for which `_split_fence` has a retry of its own; the validation of
a manifest's files; a lost lease inside formatting (it is `LoseLease` of `Lifecycle`); the console's
sign-in, CSRF session, upload form, search and overview pages (requests without a memory that a later
request depends on); configuration, HTTP routing, probes and migrations.

Left out of actions that are modelled, each without a property that could tell:

* `Lifecycle!Retryable`: the comparison of the prepared revision when a DELETE is retried (`intake.py` 1184);
  checkpoint and operation have it from the same call of `begin_deletion`;
* `Lifecycle!PurgeArtifacts`: `content_missing_before_purge` for an artifact (`worker.py` 2685-2692); `PurgeSource` has
  it for the source, and only a purge removes either file;
* `Discovery`: missing configuration (it is `Misconfigured` in `Lifecycle`) and the limits `DENSE_TOP_K` and
  `BM25_TOP_K`, which a few similar documents do not reach;
* `Admission!Reserve`: the second attempt after an `IntegrityError` (`managers/document.py` 245-255), which needs a
  writer that does not take the transition lock, that is another process;
* `Chunking!Cut`: whitespace has no wordpieces, so the refusal of a fence body whose leading whitespace alone
  exceeds its room (`markdown_chunking.py` 195-205) is not among the causes.

## Plan

1. `Lifecycle`, `DocumentContract`, their runs, type correctness and ownership: done.
2. `WorkerQueue`, its runs and its claim table theorems: done.
3. `Admission`, `Discovery`, `Formatter` and `Reingestion` with their runs: done.
4. `Chunking` and `Console`, and late Qdrant updates in `Discovery`: done.
5. Proofs of `Lifecycle` with the refinement of `DocumentContract`, of `Admission`, `Discovery`, `Chunking`,
   `Reingestion` and `Console`: done.
6. `Candidates`: reciprocal rank fusion and the filename families as operators against a reference.
