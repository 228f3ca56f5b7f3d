------------------------------ MODULE Formatter ------------------------------
(***************************************************************************)
(* The Markdown formatting of one preparation: the pages are sliced and    *)
(* packed into requests under the token and page budgets                   *)
(* (format_markdown_document), every request is tried a bounded number of  *)
(* times, the result is recorded (record_formatting) and validated once    *)
(* more when the revision is sealed (_validate_formatter_batches).         *)
(*                                                                         *)
(* A text is a sequence of characters of four kinds: "a" a letter, "_" a   *)
(* space, "n" a newline, "t" a tab.  Of the Markdown of a slice the model  *)
(* keeps what the checks compare: that it was accepted, hence has the      *)
(* projection of its source.  Tokens are TokenSize characters long.        *)
(***************************************************************************)
EXTENDS Integers, Sequences, SequencesExt, FiniteSets

CONSTANTS
    Pages,          \* number of pages
    Texts,          \* page texts that extraction may return
    TokenSize, PromptTokens, SliceTokens,
    MaxInputTokens, \* max_input_tokens
    Reserve,        \* max_output_tokens + token_safety_reserve
    Windows,        \* context windows the server may report (max_model_len)
    MaxPages,       \* max_pages_per_request
    MaxAttempts,    \* max_attempts
    None

ASSUME BudgetAssumption ==
    /\ {Pages, TokenSize, MaxInputTokens, MaxPages, MaxAttempts} \subseteq Nat \ {0}
    /\ {PromptTokens, SliceTokens, Reserve} \cup Windows \subseteq Nat

VARIABLES
    text,       \* the extracted pages, as recorded by record_extraction
    window,     \* max_model_len
    pc,
    page,       \* the page being prepared
    rest,       \* remaining, while a page is sliced
    slices, current, batches,
    formatted,  \* formatted_slices
    attempts,
    rows,       \* the formatter batches of the revision in the catalog
    error

vars == <<text, window, pc, page, rest, slices, current, batches, formatted, attempts, rows, error>>
input == <<text, window>>

PageNumbers == 1 .. Pages
Char  == {"a", "_", "n", "t"}
Error == {"provider", "no room", "oversized", "exhausted", "assertion", "correlation", "seal"}

\* normalize_layout_text of the extraction: no empty lines at the ends and no
\* blanks at the end of a line.
Extracted(t) ==
    /\ t # <<>> => Head(t) # "n" /\ Last(t) \notin {"n", "_", "t"}
    /\ \A i \in 1 .. Len(t) - 1 : t[i + 1] = "n" => t[i] \notin {"_", "t"}

ASSUME TextsAssumption == \A t \in Texts : t \in Seq(Char) /\ Extracted(t)

Key(s) == <<s.page, s.index>>
Slice(p, i, t) == [page |-> p, index |-> i, text |-> t]
SliceOf == [page : PageNumbers, index : Nat, text : Seq(Char)]

TypeOK ==
    /\ text \in [PageNumbers -> Texts] /\ window \in Windows
    /\ pc \in {"start", "prepare", "slice", "pack", "format", "record", "seal", "done", "failed"}
    /\ page \in 1 .. Pages + 1
    /\ rest \in Seq(Char)
    /\ slices \in Seq(SliceOf) /\ current \in Seq(SliceOf) /\ formatted \in Seq(SliceOf)
    /\ batches \in Seq(Seq(SliceOf) \ {<<>>})
    /\ attempts \in Seq([batch : Nat, attempt : 1 .. MaxAttempts, valid : BOOLEAN, keys : Seq(PageNumbers \X Nat)])
    /\ \A r \in rows : r.attempt \in 1 .. MaxAttempts /\ r.keys # <<>>
    /\ error \in Error \cup {None} /\ (error # None <=> pc = "failed")

\* A document without letters is rejected before (validate_native_english).
Init ==
    /\ text \in [PageNumbers -> Texts]
    /\ \E p \in PageNumbers : \E i \in DOMAIN text[p] : text[p][i] = "a"
    /\ window \in Windows
    /\ pc = "start"
    /\ page = 1 /\ rest = <<>>
    /\ slices = <<>> /\ current = <<>> /\ batches = <<>> /\ formatted = <<>>
    /\ attempts = <<>> /\ rows = {}
    /\ error = None

-----------------------------------------------------------------------------
(* Texts *)

\* normalize_layout_text of the formatter: of the control characters only the
\* newline is kept.
Source(p) == SelectSeq(text[p], LAMBDA c : c # "t")

\* fidelity_projection: the words, each as its length.
Projection(t) ==
    LET end(acc) == IF acc.word = 0 THEN acc.words ELSE Append(acc.words, acc.word)
        step(acc, c) == IF c = "a" THEN [acc EXCEPT !.word = @ + 1]
                                   ELSE [words |-> end(acc), word |-> 0]
    IN  end(FoldLeft(step, [words |-> <<>>, word |-> 0], t))

OfPage(ss, p) == SelectSeq(ss, LAMBDA s : s.page = p)
Joined(ss) == FlattenSeq([i \in DOMAIN ss |-> ss[i].text])

-----------------------------------------------------------------------------
(* Budgets *)

Tokens(t) == (Len(t) + TokenSize - 1) \div TokenSize

\* The server's count for a request.
TokenCount(ss) == FoldLeft(LAMBDA n, s : n + SliceTokens + Tokens(s.text), PromptTokens, ss)

FitsBudget(ss) ==
    /\ TokenCount(ss) <= MaxInputTokens
    /\ TokenCount(ss) + Reserve <= window

PageCount(ss) == Cardinality({ss[i].page : i \in DOMAIN ss})

FitsRequest(ss) == PageCount(ss) <= MaxPages /\ FitsBudget(ss)

-----------------------------------------------------------------------------
(* Slicing *)

SliceIndex == Len(OfPage(slices, page))
Fitting(n) == FitsBudget(<<Slice(page, SliceIndex, SubSeq(rest, 1, n))>>)

\* Lengths of the prefixes of whole lines.
LineEnds == {n \in DOMAIN rest : rest[n] = "n" \/ n = Len(rest)}

\* Positions where the tokens of the prefix are the first tokens of the whole.
TokenEnds == {n \in DOMAIN rest : n % TokenSize = 0 /\ n < Len(rest)}

\* The largest fitting line prefix, or the largest token boundary.
SplitAt ==
    LET lines == {n \in LineEnds : Fitting(n)}
        ends  == IF lines # {} THEN lines ELSE {n \in TokenEnds : Fitting(n)}
    IN  IF ends = {} THEN 0 ELSE CHOOSE n \in ends : \A k \in ends : k <= n

Fail(e) ==
    /\ pc' = "failed" /\ error' = e
    /\ UNCHANGED <<input, page, rest, slices, current, batches, formatted, attempts, rows>>

Start ==
    /\ pc = "start"
    /\ \/ /\ FitsBudget(<<>>)
          /\ pc' = "prepare"
          /\ UNCHANGED <<input, page, rest, slices, current, batches, formatted, attempts, rows, error>>
       \/ ~FitsBudget(<<>>) /\ Fail("no room")

PreparePage ==
    /\ pc = "prepare" /\ page <= Pages
    /\ LET whole == Slice(page, 0, Source(page)) IN
       \/ /\ FitsBudget(<<whole>>)
          /\ slices' = Append(slices, whole)
          /\ page' = page + 1
          /\ UNCHANGED <<pc, rest>>
       \/ /\ ~FitsBudget(<<whole>>)
          /\ rest' = Source(page)
          /\ pc' = "slice"
          /\ UNCHANGED <<page, slices>>
    /\ UNCHANGED <<input, current, batches, formatted, attempts, rows, error>>

TakeSlice ==
    /\ pc = "slice" /\ rest # <<>> /\ SplitAt > 0
    /\ slices' = Append(slices, Slice(page, SliceIndex, SubSeq(rest, 1, SplitAt)))
    /\ rest' = SubSeq(rest, SplitAt + 1, Len(rest))
    /\ UNCHANGED <<input, pc, page, current, batches, formatted, attempts, rows, error>>

\* Not even one token of the rest, or an empty page, fits in a request.
NothingFits == IF rest = <<>> THEN SliceIndex = 0 ELSE SplitAt = 0

\* Variant: the page is tried again when nothing fits.
SliceFails_Again ==
    /\ pc = "slice" /\ NothingFits
    /\ rest' = Source(page)
    /\ UNCHANGED <<input, pc, page, slices, current, batches, formatted, attempts, rows, error>>

SliceFails ==
    /\ pc = "slice" /\ NothingFits
    /\ Fail("no room")

PageSliced ==
    /\ pc = "slice" /\ rest = <<>> /\ SliceIndex > 0
    /\ IF Joined(OfPage(slices, page)) = Source(page)
       THEN /\ pc' = "prepare" /\ page' = page + 1
            /\ UNCHANGED <<input, rest, slices, current, batches, formatted, attempts, rows, error>>
       ELSE Fail("assertion")

PagesPrepared ==
    /\ pc = "prepare" /\ page > Pages
    /\ pc' = "pack"
    /\ UNCHANGED <<input, page, rest, slices, current, batches, formatted, attempts, rows, error>>

-----------------------------------------------------------------------------
(* Packing *)

NextSlice == slices[Len(FlattenSeq(batches)) + Len(current) + 1]
AllPacked == Len(FlattenSeq(batches)) + Len(current) = Len(slices)

PackSlice ==
    /\ pc = "pack" /\ ~AllPacked
    /\ \/ /\ FitsRequest(Append(current, NextSlice))
          /\ current' = Append(current, NextSlice)
          /\ UNCHANGED <<input, pc, page, rest, slices, batches, formatted, attempts, rows, error>>
       \/ /\ ~FitsRequest(Append(current, NextSlice))
          /\ IF FitsBudget(<<NextSlice>>)
             THEN /\ batches' = IF current = <<>> THEN batches ELSE Append(batches, current)
                  /\ current' = <<NextSlice>>
                  /\ UNCHANGED <<input, pc, page, rest, slices, formatted, attempts, rows, error>>
             ELSE Fail("oversized")

Packed ==
    /\ pc = "pack" /\ AllPacked
    /\ batches' = Append(batches, current)
    /\ current' = <<>>
    /\ pc' = "format"
    /\ UNCHANGED <<input, page, rest, slices, formatted, attempts, rows, error>>

\* A request for token counts fails, or the server reports another window.
TokenizeFails == pc \in {"start", "prepare", "slice", "pack"} /\ Fail("provider")

-----------------------------------------------------------------------------
(* Requests *)

\* Variant: batches are numbered from one.
BatchIndex_FromOne == Len(SelectSeq(attempts, LAMBDA a : a.valid)) + 1

\* The batch at work: every batch before it has its valid attempt.
BatchIndex == Len(SelectSeq(attempts, LAMBDA a : a.valid))

Batch == batches[Len(SelectSeq(attempts, LAMBDA a : a.valid)) + 1]

\* Variant: attempts are numbered through.
AttemptNumber_Through == IF attempts = <<>> THEN 1 ELSE (Last(attempts).attempt % MaxAttempts) + 1

AttemptNumber == Len(SelectSeq(attempts, LAMBDA a : a.batch = BatchIndex)) + 1

Formatting == pc = "format" /\ Len(formatted) < Len(slices)

Tried(valid, checked) ==
    attempts' = Append(attempts,
        [batch |-> BatchIndex, attempt |-> AttemptNumber, valid |-> valid,
         keys |-> [i \in 1 .. checked |-> Key(Batch[i])]])

\* An answer that covers the batch in order, with faithful Markdown.
ValidAnswer ==
    /\ Formatting
    /\ Tried(TRUE, Len(Batch))
    /\ formatted' = formatted \o Batch
    /\ UNCHANGED <<input, pc, page, rest, slices, current, batches, rows, error>>

\* No answer, an invalid one, or one unfaithful at the last slice compared.
RejectedAnswer ==
    /\ Formatting
    /\ \E checked \in 0 .. Len(Batch) : Tried(FALSE, checked)
    /\ IF AttemptNumber = MaxAttempts THEN pc' = "failed" /\ error' = "exhausted"
                                      ELSE UNCHANGED <<pc, error>>
    /\ UNCHANGED <<input, page, rest, slices, current, batches, formatted, rows>>

-----------------------------------------------------------------------------
(* Assembly, recording and seal *)

Assembled(p) ==
    LET ss == OfPage(formatted, p)
    IN  /\ ss # <<>>
        /\ \A i \in DOMAIN ss : ss[i].index = i - 1
        /\ Joined(ss) = Source(p)

AssemblePages ==
    /\ pc = "format" /\ Len(formatted) = Len(slices)
    /\ IF \A p \in PageNumbers : Assembled(p)
       THEN /\ pc' = "record"
            /\ UNCHANGED <<input, page, rest, slices, current, batches, formatted, attempts, rows, error>>
       ELSE Fail("assertion")

\* _formatted_slice_records: the page is the extracted one, and its Markdown,
\* the slices' with blank lines between, has the projection of its source.
PageRecorded(p) ==
    LET ss == OfPage(formatted, p)
    IN  /\ Source(p) = text[p]
        /\ Projection(Source(p)) = FlattenSeq([i \in DOMAIN ss |-> Projection(ss[i].text)])

ValidFor(b) == {i \in DOMAIN attempts : attempts[i].batch = b /\ attempts[i].valid}

\* _formatter_batch_records
AttemptsRecorded ==
    LET known == {Key(formatted[i]) : i \in DOMAIN formatted}
        tried == {attempts[i].batch : i \in DOMAIN attempts}
    IN  /\ tried = 0 .. Cardinality(tried) - 1
        /\ \A b \in tried :
             /\ ValidFor(b) # {}
             /\ \A i \in ValidFor(b) : attempts[i].keys # <<>> /\ ToSet(attempts[i].keys) \subseteq known
             /\ \A i, k \in ValidFor(b) : attempts[i].keys = attempts[k].keys
        /\ \A i \in DOMAIN attempts : IsInjective(attempts[i].keys)
        /\ \A i, k \in DOMAIN attempts :
             /\ attempts[i].batch = attempts[k].batch
             /\ attempts[i].attempt = attempts[k].attempt
             => i = k

\* An attempt is stored with the slices of its batch's valid attempt.
Row(a) == [a EXCEPT !.keys = attempts[CHOOSE i \in ValidFor(a.batch) : TRUE].keys]

RecordFormatting ==
    /\ pc = "record"
    /\ IF AttemptsRecorded /\ \A p \in PageNumbers : PageRecorded(p)
       THEN /\ rows' = {Row(attempts[i]) : i \in DOMAIN attempts}
            /\ pc' = "seal"
            /\ UNCHANGED <<input, page, rest, slices, current, batches, formatted, attempts, error>>
       ELSE Fail("correlation")

\* _validate_formatter_batches: consecutive batches and attempts, one valid
\* attempt each, the last, and together the slices of the pages in order.
RowsValid ==
    LET last(b) == CHOOSE r \in rows : r.batch = b /\ \A q \in rows : q.batch = b => q.attempt <= r.attempt
        count   == Cardinality({r.batch : r \in rows})
    IN  /\ {r.batch : r \in rows} = 0 .. count - 1
        /\ \A b \in 0 .. count - 1 :
             LET of == {r \in rows : r.batch = b}
             IN  /\ {r.attempt : r \in of} = 1 .. Cardinality(of)
                 /\ {r \in of : r.valid} = {last(b)}
                 /\ \A r \in of : r.keys = last(b).keys
        /\ FlattenSeq([i \in 1 .. count |-> last(i - 1).keys])
             = FlattenSeq([p \in PageNumbers |-> LET ss == OfPage(formatted, p)
                                                 IN  [i \in DOMAIN ss |-> Key(ss[i])]])

ValidateFormatterBatches ==
    /\ pc = "seal"
    /\ IF RowsValid
       THEN /\ pc' = "done"
            /\ UNCHANGED <<input, page, rest, slices, current, batches, formatted, attempts, rows, error>>
       ELSE Fail("seal")

Proceed ==
    \/ Start \/ PreparePage \/ TakeSlice \/ SliceFails \/ PageSliced \/ PagesPrepared
    \/ PackSlice \/ Packed
    \/ ValidAnswer \/ RejectedAnswer
    \/ AssemblePages \/ RecordFormatting \/ ValidateFormatterBatches

Next == Proceed \/ TokenizeFails

Spec == Init /\ [][Next]_vars

(* Fairness: the worker's thread goes on; every call ends by its timeout.    *)
FairSpec == Spec /\ WF_vars(Proceed)

-----------------------------------------------------------------------------
\* The checks that repeat what earlier steps established never fail: slices and
\* formatted slices cover every page exactly (the AssertionErrors of _slice_page
\* and _assemble_pages), a prepared slice fits a request (_pack_batches), and
\* whatever retries it took, the attempts that record_formatting accepts are
\* accepted by the seal (_validate_formatter_batches).
SealAccepts == error \notin {"assertion", "oversized", "seal"}

\* record_formatting refuses a complete formatting only for a page with a
\* character the formatter drops, or one that was split inside a word.
RefusalsExplained ==
    error = "correlation" =>
        \E p \in PageNumbers :
            \/ \E i \in DOMAIN text[p] : text[p][i] = "t"
            \/ \E i \in 1 .. Len(slices) - 1 :
                 /\ slices[i].page = p /\ slices[i + 1].page = p
                 /\ Last(slices[i].text) = "a" /\ Head(slices[i + 1].text) = "a"

\* Formatting ends, whatever the texts, the budgets and the answers
\* (_slice_page, _format_batch).
FormattingEnds == <>(pc \in {"done", "failed"})
=============================================================================
