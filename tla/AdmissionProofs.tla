--------------------------- MODULE AdmissionProofs ---------------------------
(***************************************************************************)
(* Admission for any number of calls, keys and contents and any number of  *)
(* errors and crashes: retained documents have their files, no bytes are   *)
(* retained twice, a key stands for one effect, and what is left behind is *)
(* explained.  All four rest on one inductive invariant, whose centre is   *)
(* that a call between Begin and its end holds the lock, has its key still *)
(* free and has no row yet.                                                *)
(***************************************************************************)
EXTENDS Admission, FiniteSetTheorems, TLAPS

-----------------------------------------------------------------------------
(* The invariant. *)

\* Past its arrival a call has its key and its work; each statement belongs
\* to an upload or to a mutation; a mutation under way has what it mutates.
Requested ==
    \A c \in Calls :
        /\ call[c].pc # "new" => call[c].key \in Keys /\ call[c].work \in Work
        /\ call[c].pc \in {"streaming", "scanning", "admitted", "promoted", "undo"} =>
            call[c].work.action = "upload"
        /\ call[c].pc = "mutated" => call[c].work.action = "delete" /\ Deletable(call[c].work.of)

\* The transition lock is held exactly inside a transaction.
LockHeld == \A c \in Calls : lock = c <=> call[c].pc \in Transaction

\* Inside a transaction the key is free, and an upload has no twin.
Reserved ==
    \A c \in Calls :
        /\ call[c].pc \in Transaction => idem[call[c].key] = None
        /\ call[c].pc \in {"admitted", "promoted"} => Duplicates(c) = {}

\* A row is that of an upload that has its key and is past its transaction.
RowsEarned ==
    \A d \in Calls : docs[d] # None =>
        /\ call[d].pc \in {"closing", "done", "dead"}
        /\ call[d].work = [action |-> "upload", of |-> docs[d].digest]
        /\ idem[call[d].key] = [work |-> call[d].work, doc |-> d]

\* An acceptance is what the record of its key says.
AnswersRecorded ==
    \A c \in Calls : call[c].answer.kind \in {"accepted", "replay"} =>
        /\ call[c].pc \in {"closing", "done", "dead"}
        /\ idem[call[c].key] = [work |-> call[c].work, doc |-> call[c].answer.doc]

\* Only uploads have files; one past its promotion has, whatever happens.
FilesExplained ==
    /\ \A c \in objects : call[c].pc # "new" /\ call[c].work.action = "upload"
    /\ \A c \in Calls : call[c].pc \in {"promoted", "undo"} => c \in objects
    /\ \A c \in staged : call[c].pc \in InFlight \cup {"dead"}

\* Files that no row names and no call is about to name.
Orphans == {d \in objects : docs[d] = None /\ call[d].pc \notin Transaction}

OrphansCounted == IsFiniteSet(Orphans) /\ Cardinality(Orphans) <= crashes

AdmissionInv ==
    /\ TypeOK /\ Requested /\ LockHeld /\ Reserved /\ RowsEarned /\ AnswersRecorded
    /\ FilesExplained /\ SourceStored /\ NoDuplicates /\ OrphansCounted

-----------------------------------------------------------------------------
\* A request is an upload of contents or a deletion of a document.
LEMMA WorkCases ==
    ASSUME NEW w \in Work
    PROVE  \/ w.action = "upload" /\ w.of \in Contents /\ w = [action |-> "upload", of |-> w.of]
           \/ w.action = "delete" /\ w.of \in Calls
  BY DEF Work

\* A row that exists has its columns.
LEMMA RowType ==
    ASSUME TypeOK, NEW d \in Calls, docs[d] # None
    PROVE  docs[d] \in [digest : Contents, state : State]
  BY DEF TypeOK

\* Nothing has happened at the start.
LEMMA AdmissionInit == Init => AdmissionInv
  <1> SUFFICES ASSUME Init PROVE AdmissionInv
    OBVIOUS
  <1>1. TypeOK
    BY LimitsAssumption DEF Init, TypeOK, Answer, Nothing, Unbound
  <1>2. Orphans = {}
    BY DEF Init, Orphans
  <1>3. OrphansCounted
    BY <1>2, FS_EmptySet DEF Init, OrphansCounted
  <1> QED
    BY <1>1, <1>3, NoneAssumption DEF AdmissionInv, Init, Requested, LockHeld, Reserved, RowsEarned,
        AnswersRecorded, FilesExplained, SourceStored, NoDuplicates, Transaction, Nothing

\* Fewer orphans are no problem.
LEMMA OrphansFewer ==
    ASSUME AdmissionInv, Orphans' \subseteq Orphans, crashes' = crashes
    PROVE  OrphansCounted'
  <1>1. IsFiniteSet(Orphans') /\ Cardinality(Orphans') <= Cardinality(Orphans)
    BY FS_Subset DEF AdmissionInv, OrphansCounted
  <1> QED
    BY <1>1, FS_CardinalityType DEF AdmissionInv, OrphansCounted, TypeOK

CallRow ==
    [pc : InFlight \cup {"new", "done", "dead"}, key : Keys \cup {None},
     work : Work \cup {None}, answer : Answer]

\* A call that goes on changes in its statement only.
LEMMA GotoEffect ==
    ASSUME call \in [Calls -> CallRow], NEW c \in Calls,
           NEW l \in InFlight \cup {"done"}, Goto(c, l)
    PROVE  /\ call' \in [Calls -> CallRow]
           /\ call'[c].pc = l /\ call'[c].key = call[c].key
           /\ call'[c].work = call[c].work /\ call'[c].answer = call[c].answer
           /\ \A e \in Calls : e # c => call'[e] = call[e]
  BY DEF Goto, CallRow

\* A call that is answered has its finally clause left.
LEMMA ReplyEffect ==
    ASSUME call \in [Calls -> CallRow], NEW c \in Calls, NEW kind, NEW d,
           [kind |-> kind, doc |-> d] \in Answer, Reply(c, kind, d)
    PROVE  /\ call' \in [Calls -> CallRow]
           /\ call'[c].pc = "closing" /\ call'[c].key = call[c].key
           /\ call'[c].work = call[c].work
           /\ call'[c].answer.kind = kind /\ call'[c].answer.doc = d
           /\ \A e \in Calls : e # c => call'[e] = call[e]
  <1> DEFINE row == [call[c] EXCEPT !.pc = "closing", !.answer = [kind |-> kind, doc |-> d]]
  <1>1. row \in CallRow
    BY DEF CallRow, InFlight
  <1>2. row.pc = "closing" /\ row.key = call[c].key /\ row.work = call[c].work
        /\ row.answer = [kind |-> kind, doc |-> d]
    BY DEF CallRow
  <1>4. call' = [call EXCEPT ![c] = row]
    BY DEF Reply
  <1> HIDE DEF row
  <1>5. call'[c] = row /\ \A e \in Calls : e # c => call'[e] = call[e]
    BY <1>4
  <1> QED
    BY <1>1, <1>2, <1>4, <1>5

\* An error or a refusal is an answer that names no document.
LEMMA RefusalType == \A kind \in Unbound : [kind |-> kind, doc |-> None] \in Answer
  BY DEF Answer

\* A call that is answered outside a transaction leaves rows, keys, files and lock alone.
LEMMA AnsweredStep ==
    ASSUME AdmissionInv, NEW c \in Calls, NEW kind, NEW d,
           [kind |-> kind, doc |-> d] \in Answer, Reply(c, kind, d),
           call[c].pc \in {"streaming", "scanning", "ready"}, kind # "accepted",
           kind = "replay" => idem[call[c].key] = [work |-> call[c].work, doc |-> d],
           staged' \in {staged, staged \ {c}},
           UNCHANGED <<docs, idem, objects, lock, errors, crashes>>
    PROVE  AdmissionInv'
  <1>0. /\ TypeOK /\ Requested /\ LockHeld /\ Reserved /\ RowsEarned /\ AnswersRecorded
        /\ FilesExplained /\ SourceStored /\ NoDuplicates
    BY DEF AdmissionInv
  <1>1. call \in [Calls -> CallRow]
    BY <1>0 DEF TypeOK, CallRow
  <1>2. /\ call' \in [Calls -> CallRow]
        /\ call'[c].pc = "closing" /\ call'[c].key = call[c].key
        /\ call'[c].work = call[c].work
        /\ call'[c].answer.kind = kind /\ call'[c].answer.doc = d
        /\ \A e \in Calls : e # c => call'[e] = call[e]
    BY <1>1, ReplyEffect
  <1>3. /\ UNCHANGED <<docs, idem, objects, lock, errors, crashes>>
        /\ staged' \subseteq staged
    OBVIOUS
  <1>11. TypeOK'
    BY <1>0, <1>1, <1>2, <1>3, NoneAssumption DEF TypeOK, CallRow, InFlight, Transaction
  <1>12. Requested'
    BY <1>0, <1>1, <1>2, <1>3, NoneAssumption DEF Requested, TypeOK, LockHeld, Deletable, CallRow, InFlight, Transaction
  <1>13. LockHeld'
    BY <1>0, <1>1, <1>2, <1>3, NoneAssumption DEF LockHeld, TypeOK, CallRow, InFlight, Transaction
  <1>14. Reserved'
    BY <1>0, <1>1, <1>2, <1>3, NoneAssumption DEF Reserved, TypeOK, LockHeld, Requested, Duplicates, Retained, CallRow, InFlight, Transaction
  <1>15. RowsEarned'
    BY <1>0, <1>1, <1>2, <1>3, NoneAssumption DEF RowsEarned, TypeOK, Reserved, Requested, CallRow, InFlight, Transaction
  <1>16. AnswersRecorded'
    BY <1>0, <1>1, <1>2, <1>3, NoneAssumption DEF AnswersRecorded, TypeOK, Reserved, Requested, CallRow, InFlight, Transaction
  <1>17. FilesExplained'
    <2>1. ASSUME NEW e \in objects' PROVE call'[e].pc # "new" /\ call'[e].work.action = "upload"
      BY <1>0, <1>1, <1>2, <1>3 DEF FilesExplained, TypeOK, Requested
    <2>2. ASSUME NEW e \in Calls, call'[e].pc \in {"promoted", "undo"} PROVE e \in objects'
      BY <1>0, <1>1, <2>2, <1>2, <1>3 DEF FilesExplained, TypeOK, Transaction
    <2>3. \A e \in staged' : call'[e].pc \in InFlight \cup {"dead"}
      BY <1>0, <1>1, <1>2, <1>3 DEF FilesExplained, TypeOK, InFlight, Transaction
    <2> QED
      BY <2>1, <2>2, <2>3 DEF FilesExplained
  <1>18. SourceStored'
    BY <1>0, <1>1, <1>2, <1>3, NoneAssumption DEF SourceStored, TypeOK, RowsEarned, CallRow, InFlight, Transaction
  <1>19. NoDuplicates'
    BY <1>0, <1>1, <1>2, <1>3, NoneAssumption DEF NoDuplicates, TypeOK, Reserved, Duplicates, Retained, CallRow, InFlight, Transaction
  <1>20. Orphans' \subseteq Orphans
    BY <1>0, <1>1, <1>2, <1>3, NoneAssumption DEF Orphans, FilesExplained, Requested, RowsEarned, TypeOK, CallRow, InFlight, Transaction
  <1>21. OrphansCounted'
    BY <1>20, <1>2, <1>3, OrphansFewer
  <1> QED
    BY <1>11, <1>12, <1>13, <1>14, <1>15, <1>16, <1>17, <1>18, <1>19, <1>21 DEF AdmissionInv

\* Going on outside a transaction leaves rows, keys, promoted files and lock alone.
LEMMA OutsideStep ==
    ASSUME AdmissionInv, NEW c \in Calls, NEW l, Goto(c, l),
           \/ call[c].pc = "streaming" /\ l = "scanning" /\ staged' = staged \cup {c}
           \/ call[c].pc = "scanning" /\ l = "ready" /\ staged' = staged
           \/ call[c].pc = "closing" /\ l = "done" /\ staged' = staged \ {c},
           UNCHANGED <<docs, idem, objects, lock, errors, crashes>>
    PROVE  AdmissionInv'
  <1>0. /\ TypeOK /\ Requested /\ LockHeld /\ Reserved /\ RowsEarned /\ AnswersRecorded
        /\ FilesExplained /\ SourceStored /\ NoDuplicates
    BY DEF AdmissionInv
  <1>1. call \in [Calls -> CallRow]
    BY <1>0 DEF TypeOK, CallRow
  <1>2. /\ call' \in [Calls -> CallRow]
        /\ call'[c].pc = l /\ call'[c].key = call[c].key
        /\ call'[c].work = call[c].work /\ call'[c].answer = call[c].answer
        /\ \A e \in Calls : e # c => call'[e] = call[e]
    BY <1>1, GotoEffect DEF InFlight
  <1>3. /\ UNCHANGED <<docs, idem, objects, lock, errors, crashes>>
        /\ \/ call[c].pc = "streaming" /\ l = "scanning" /\ staged' = staged \cup {c}
           \/ call[c].pc = "scanning" /\ l = "ready" /\ staged' = staged
           \/ call[c].pc = "closing" /\ l = "done" /\ staged' = staged \ {c}
    OBVIOUS
  <1>11. TypeOK'
    BY <1>0, <1>1, <1>2, <1>3, NoneAssumption DEF TypeOK, CallRow, InFlight, Transaction
  <1>12. Requested'
    BY <1>0, <1>1, <1>2, <1>3, NoneAssumption DEF Requested, TypeOK, LockHeld, Deletable, CallRow, InFlight, Transaction
  <1>13. LockHeld'
    BY <1>0, <1>1, <1>2, <1>3, NoneAssumption DEF LockHeld, TypeOK, CallRow, InFlight, Transaction
  <1>14. Reserved'
    BY <1>0, <1>1, <1>2, <1>3, NoneAssumption DEF Reserved, TypeOK, LockHeld, Requested, Duplicates, Retained, CallRow, InFlight, Transaction
  <1>15. RowsEarned'
    BY <1>0, <1>1, <1>2, <1>3, NoneAssumption DEF RowsEarned, TypeOK, Reserved, Requested, CallRow, InFlight, Transaction
  <1>16. AnswersRecorded'
    BY <1>0, <1>1, <1>2, <1>3, NoneAssumption DEF AnswersRecorded, TypeOK, Reserved, Requested, CallRow, InFlight, Transaction
  <1>17. FilesExplained'
    <2>1. ASSUME NEW e \in objects' PROVE call'[e].pc # "new" /\ call'[e].work.action = "upload"
      BY <1>0, <1>1, <1>2, <1>3 DEF FilesExplained, TypeOK, Requested
    <2>2. ASSUME NEW e \in Calls, call'[e].pc \in {"promoted", "undo"} PROVE e \in objects'
      BY <1>0, <1>1, <2>2, <1>2, <1>3 DEF FilesExplained, TypeOK, Transaction
    <2>3. \A e \in staged' : call'[e].pc \in InFlight \cup {"dead"}
      BY <1>0, <1>1, <1>2, <1>3 DEF FilesExplained, TypeOK, InFlight, Transaction
    <2> QED
      BY <2>1, <2>2, <2>3 DEF FilesExplained
  <1>18. SourceStored'
    BY <1>0, <1>1, <1>2, <1>3, NoneAssumption DEF SourceStored, TypeOK, RowsEarned, CallRow, InFlight, Transaction
  <1>19. NoDuplicates'
    BY <1>0, <1>1, <1>2, <1>3, NoneAssumption DEF NoDuplicates, TypeOK, Reserved, Duplicates, Retained, CallRow, InFlight, Transaction
  <1>20. Orphans' \subseteq Orphans
    BY <1>0, <1>1, <1>2, <1>3, NoneAssumption DEF Orphans, FilesExplained, Requested, RowsEarned, TypeOK, CallRow, InFlight, Transaction
  <1>21. OrphansCounted'
    BY <1>20, <1>2, <1>3, OrphansFewer
  <1> QED
    BY <1>11, <1>12, <1>13, <1>14, <1>15, <1>16, <1>17, <1>18, <1>19, <1>21 DEF AdmissionInv

\* A transaction opens with a free key: an upload that has no twin, or a mutation that
\* has something to mutate.
LEMMA OpenedStep ==
    ASSUME AdmissionInv, NEW c \in Calls, NEW l, Goto(c, l),
           call[c].pc = "ready", lock = None, lock' = c, Unused(c),
           \/ l = "admitted" /\ call[c].work.action = "upload" /\ Duplicates(c) = {}
           \/ l = "mutated" /\ call[c].work.action = "delete" /\ Deletable(call[c].work.of),
           UNCHANGED <<docs, idem, objects, staged, errors, crashes>>
    PROVE  AdmissionInv'
  <1>0. /\ TypeOK /\ Requested /\ LockHeld /\ Reserved /\ RowsEarned /\ AnswersRecorded
        /\ FilesExplained /\ SourceStored /\ NoDuplicates
    BY DEF AdmissionInv
  <1>1. call \in [Calls -> CallRow]
    BY <1>0 DEF TypeOK, CallRow
  <1>2. /\ call' \in [Calls -> CallRow]
        /\ call'[c].pc = l /\ call'[c].key = call[c].key
        /\ call'[c].work = call[c].work /\ call'[c].answer = call[c].answer
        /\ \A e \in Calls : e # c => call'[e] = call[e]
    BY <1>1, GotoEffect DEF InFlight, Transaction
  <1>3. /\ UNCHANGED <<docs, idem, objects, staged, errors, crashes>>
        /\ call[c].pc = "ready" /\ lock = None /\ lock' = c /\ Unused(c)
        /\ \/ l = "admitted" /\ call[c].work.action = "upload" /\ Duplicates(c) = {}
           \/ l = "mutated" /\ call[c].work.action = "delete" /\ Deletable(call[c].work.of)
    OBVIOUS
  <1>11. TypeOK'
    BY <1>0, <1>1, <1>2, <1>3, NoneAssumption DEF TypeOK, CallRow, InFlight, Transaction, Unused
  <1>12. Requested'
    BY <1>0, <1>1, <1>2, <1>3, NoneAssumption DEF Requested, TypeOK, LockHeld, Deletable, CallRow, InFlight, Transaction, Unused
  <1>13. LockHeld'
    BY <1>0, <1>1, <1>2, <1>3, NoneAssumption DEF LockHeld, TypeOK, CallRow, InFlight, Transaction, Unused
  <1>14. Reserved'
    BY <1>0, <1>1, <1>2, <1>3, NoneAssumption DEF Reserved, TypeOK, LockHeld, Requested, Duplicates, Retained, CallRow, InFlight, Transaction, Unused
  <1>15. RowsEarned'
    BY <1>0, <1>1, <1>2, <1>3, NoneAssumption DEF RowsEarned, TypeOK, Reserved, Requested, CallRow, InFlight, Transaction, Unused
  <1>16. AnswersRecorded'
    BY <1>0, <1>1, <1>2, <1>3, NoneAssumption DEF AnswersRecorded, TypeOK, Reserved, Requested, CallRow, InFlight, Transaction, Unused
  <1>17. FilesExplained'
    <2>1. ASSUME NEW e \in objects' PROVE call'[e].pc # "new" /\ call'[e].work.action = "upload"
      BY <1>0, <1>1, <1>2, <1>3 DEF FilesExplained, TypeOK, Requested, Unused
    <2>2. ASSUME NEW e \in Calls, call'[e].pc \in {"promoted", "undo"} PROVE e \in objects'
      BY <1>0, <1>1, <2>2, <1>2, <1>3 DEF FilesExplained, TypeOK, Transaction, Unused
    <2>3. \A e \in staged' : call'[e].pc \in InFlight \cup {"dead"}
      BY <1>0, <1>1, <1>2, <1>3 DEF FilesExplained, TypeOK, InFlight, Transaction, Unused
    <2> QED
      BY <2>1, <2>2, <2>3 DEF FilesExplained
  <1>18. SourceStored'
    BY <1>0, <1>1, <1>2, <1>3, NoneAssumption DEF SourceStored, TypeOK, RowsEarned, CallRow, InFlight, Transaction, Unused
  <1>19. NoDuplicates'
    BY <1>0, <1>1, <1>2, <1>3, NoneAssumption DEF NoDuplicates, TypeOK, Reserved, Duplicates, Retained, CallRow, InFlight, Transaction, Unused
  <1>20. Orphans' \subseteq Orphans
    BY <1>0, <1>1, <1>2, <1>3, NoneAssumption DEF Orphans, FilesExplained, Requested, RowsEarned, TypeOK, CallRow, InFlight, Transaction, Unused
  <1>21. OrphansCounted'
    BY <1>20, <1>2, <1>3, OrphansFewer
  <1> QED
    BY <1>11, <1>12, <1>13, <1>14, <1>15, <1>16, <1>17, <1>18, <1>19, <1>21 DEF AdmissionInv

\* A transaction that fails gives back the lock, and its file if it has one.
LEMMA RolledBackStep ==
    ASSUME AdmissionInv, NEW c \in Calls, call[c].pc \in Transaction,
           Reply(c, "error", None), lock' = None, objects' = objects \ {c},
           errors' \in 0 .. MaxErrors, UNCHANGED <<docs, idem, staged, crashes>>
    PROVE  AdmissionInv'
  <1>0. /\ TypeOK /\ Requested /\ LockHeld /\ Reserved /\ RowsEarned /\ AnswersRecorded
        /\ FilesExplained /\ SourceStored /\ NoDuplicates
    BY DEF AdmissionInv
  <1>1. call \in [Calls -> CallRow]
    BY <1>0 DEF TypeOK, CallRow
  <1>2. /\ call' \in [Calls -> CallRow]
        /\ call'[c].pc = "closing" /\ call'[c].key = call[c].key
        /\ call'[c].work = call[c].work
        /\ call'[c].answer.kind = "error" /\ call'[c].answer.doc = None
        /\ \A e \in Calls : e # c => call'[e] = call[e]
    BY <1>1, ReplyEffect, RefusalType DEF Unbound
  <1>3. /\ UNCHANGED <<docs, idem, staged, crashes>> /\ errors' \in 0 .. MaxErrors
        /\ lock' = None /\ objects' = objects \ {c} /\ call[c].pc \in Transaction
        /\ lock = c
    BY <1>0 DEF LockHeld
  <1>11. TypeOK'
    BY <1>0, <1>1, <1>2, <1>3, NoneAssumption DEF TypeOK, CallRow, InFlight, Transaction
  <1>12. Requested'
    BY <1>0, <1>1, <1>2, <1>3, NoneAssumption DEF Requested, TypeOK, LockHeld, Deletable, CallRow, InFlight, Transaction
  <1>13. LockHeld'
    BY <1>0, <1>1, <1>2, <1>3, NoneAssumption DEF LockHeld, TypeOK, CallRow, InFlight, Transaction
  <1>14. Reserved'
    BY <1>0, <1>1, <1>2, <1>3, NoneAssumption DEF Reserved, TypeOK, LockHeld, Requested, Duplicates, Retained, CallRow, InFlight, Transaction
  <1>15. RowsEarned'
    BY <1>0, <1>1, <1>2, <1>3, NoneAssumption DEF RowsEarned, TypeOK, Reserved, Requested, CallRow, InFlight, Transaction
  <1>16. AnswersRecorded'
    BY <1>0, <1>1, <1>2, <1>3, NoneAssumption DEF AnswersRecorded, TypeOK, Reserved, Requested, CallRow, InFlight, Transaction
  <1>17. FilesExplained'
    <2>1. ASSUME NEW e \in objects' PROVE call'[e].pc # "new" /\ call'[e].work.action = "upload"
      BY <1>0, <1>1, <1>2, <1>3 DEF FilesExplained, TypeOK, Requested
    <2>2. ASSUME NEW e \in Calls, call'[e].pc \in {"promoted", "undo"} PROVE e \in objects'
      BY <1>0, <1>1, <2>2, <1>2, <1>3 DEF FilesExplained, TypeOK, Transaction
    <2>3. \A e \in staged' : call'[e].pc \in InFlight \cup {"dead"}
      BY <1>0, <1>1, <1>2, <1>3 DEF FilesExplained, TypeOK, InFlight, Transaction
    <2> QED
      BY <2>1, <2>2, <2>3 DEF FilesExplained
  <1>18. SourceStored'
    BY <1>0, <1>1, <1>2, <1>3, NoneAssumption DEF SourceStored, TypeOK, RowsEarned, CallRow, InFlight, Transaction
  <1>19. NoDuplicates'
    BY <1>0, <1>1, <1>2, <1>3, NoneAssumption DEF NoDuplicates, TypeOK, Reserved, Duplicates, Retained, CallRow, InFlight, Transaction
  <1>20. Orphans' \subseteq Orphans
    BY <1>0, <1>1, <1>2, <1>3, NoneAssumption DEF Orphans, FilesExplained, Requested, RowsEarned, TypeOK, CallRow, InFlight, Transaction
  <1>21. OrphansCounted'
    BY <1>20, <1>2, <1>3, OrphansFewer
  <1> QED
    BY <1>11, <1>12, <1>13, <1>14, <1>15, <1>16, <1>17, <1>18, <1>19, <1>21 DEF AdmissionInv

\* Inside its transaction an upload gets its file, or prepares to lose it.
LEMMA InsideStep ==
    ASSUME AdmissionInv, NEW c \in Calls, NEW l, Goto(c, l),
           \/ /\ call[c].pc = "admitted" /\ l = "promoted"
              /\ objects' = objects \cup {c} /\ staged' = staged \ {c}
           \/ /\ call[c].pc = "promoted" /\ l = "undo" /\ UNCHANGED <<objects, staged>>,
           errors' \in 0 .. MaxErrors, UNCHANGED <<docs, idem, lock, crashes>>
    PROVE  AdmissionInv'
  <1>0. /\ TypeOK /\ Requested /\ LockHeld /\ Reserved /\ RowsEarned /\ AnswersRecorded
        /\ FilesExplained /\ SourceStored /\ NoDuplicates
    BY DEF AdmissionInv
  <1>1. call \in [Calls -> CallRow]
    BY <1>0 DEF TypeOK, CallRow
  <1>2. /\ call' \in [Calls -> CallRow]
        /\ call'[c].pc = l /\ call'[c].key = call[c].key
        /\ call'[c].work = call[c].work /\ call'[c].answer = call[c].answer
        /\ \A e \in Calls : e # c => call'[e] = call[e]
    BY <1>1, GotoEffect DEF InFlight, Transaction
  <1>3. /\ UNCHANGED <<docs, idem, lock, crashes>> /\ errors' \in 0 .. MaxErrors
        /\ lock = c /\ docs[c] = None /\ staged' \subseteq staged
        /\ \/ /\ call[c].pc = "admitted" /\ l = "promoted" /\ objects' = objects \cup {c}
           \/ /\ call[c].pc = "promoted" /\ l = "undo" /\ objects' = objects
    BY <1>0 DEF LockHeld, RowsEarned, Transaction
  <1>11. TypeOK'
    BY <1>0, <1>1, <1>2, <1>3, NoneAssumption DEF TypeOK, CallRow, InFlight, Transaction
  <1>12. Requested'
    BY <1>0, <1>1, <1>2, <1>3, NoneAssumption DEF Requested, TypeOK, LockHeld, Deletable, CallRow, InFlight, Transaction
  <1>13. LockHeld'
    BY <1>0, <1>1, <1>2, <1>3, NoneAssumption DEF LockHeld, TypeOK, CallRow, InFlight, Transaction
  <1>14. Reserved'
    BY <1>0, <1>1, <1>2, <1>3, NoneAssumption DEF Reserved, TypeOK, LockHeld, Requested, Duplicates, Retained, CallRow, InFlight, Transaction
  <1>15. RowsEarned'
    BY <1>0, <1>1, <1>2, <1>3, NoneAssumption DEF RowsEarned, TypeOK, Reserved, Requested, CallRow, InFlight, Transaction
  <1>16. AnswersRecorded'
    BY <1>0, <1>1, <1>2, <1>3, NoneAssumption DEF AnswersRecorded, TypeOK, Reserved, Requested, CallRow, InFlight, Transaction
  <1>17. FilesExplained'
    <2>1. ASSUME NEW e \in objects' PROVE call'[e].pc # "new" /\ call'[e].work.action = "upload"
      BY <1>0, <1>1, <1>2, <1>3 DEF FilesExplained, TypeOK, Requested
    <2>2. ASSUME NEW e \in Calls, call'[e].pc \in {"promoted", "undo"} PROVE e \in objects'
      BY <1>0, <1>1, <2>2, <1>2, <1>3 DEF FilesExplained, TypeOK, Transaction
    <2>3. \A e \in staged' : call'[e].pc \in InFlight \cup {"dead"}
      BY <1>0, <1>1, <1>2, <1>3 DEF FilesExplained, TypeOK, InFlight, Transaction
    <2> QED
      BY <2>1, <2>2, <2>3 DEF FilesExplained
  <1>18. SourceStored'
    BY <1>0, <1>1, <1>2, <1>3, NoneAssumption DEF SourceStored, TypeOK, RowsEarned, CallRow, InFlight, Transaction
  <1>19. NoDuplicates'
    BY <1>0, <1>1, <1>2, <1>3, NoneAssumption DEF NoDuplicates, TypeOK, Reserved, Duplicates, Retained, CallRow, InFlight, Transaction
  <1>20. Orphans' \subseteq Orphans
    BY <1>0, <1>1, <1>2, <1>3, NoneAssumption DEF Orphans, FilesExplained, Requested, RowsEarned, TypeOK, CallRow, InFlight, Transaction
  <1>21. OrphansCounted'
    BY <1>20, <1>2, <1>3, OrphansFewer
  <1> QED
    BY <1>11, <1>12, <1>13, <1>14, <1>15, <1>16, <1>17, <1>18, <1>19, <1>21 DEF AdmissionInv

\* A record is no missing one.
LEMMA RecordExists ==
    ASSUME NEW w \in Work, NEW d \in Calls
    PROVE  [work |-> w, doc |-> d] # None
  <1>1. [work |-> w, doc |-> d] \in [work : Work, doc : Calls]
    OBVIOUS
  <1> QED
    BY <1>1, NullAssumption

\* A key that was answered for, or has a row, is taken.
LEMMA KeysTaken ==
    ASSUME AdmissionInv, NEW e \in Calls,
           docs[e] # None \/ call[e].answer.kind \in {"accepted", "replay"}
    PROVE  call[e].key \in Keys /\ idem[call[e].key] # None
  <1>1. call[e].key \in Keys /\ call[e].work \in Work
    BY DEF AdmissionInv, RowsEarned, AnswersRecorded, Requested
  <1>2. CASE docs[e] # None
    <2>1. idem[call[e].key] = [work |-> call[e].work, doc |-> e]
      BY <1>2 DEF AdmissionInv, RowsEarned
    <2>2. [work |-> call[e].work, doc |-> e] # None
      BY <1>1, RecordExists
    <2> QED
      BY <1>1, <2>1, <2>2
  <1>3. CASE call[e].answer.kind \in {"accepted", "replay"}
    <2>1. call[e].answer.doc \in Calls
      BY <1>3 DEF AdmissionInv, TypeOK, Answer, Unbound
    <2> QED
      BY <1>1, <1>3, <2>1, RecordExists DEF AdmissionInv, AnswersRecorded
  <1> QED
    BY <1>2, <1>3

\* The commit of an upload: its file is there, its key is free, it has no twin.
LEMMA AdmittedStep ==
    ASSUME AdmissionInv, NEW c \in Calls, call[c].pc = "promoted", Commit(c)
    PROVE  AdmissionInv'
  <1>0. /\ TypeOK /\ Requested /\ LockHeld /\ Reserved /\ RowsEarned /\ AnswersRecorded
        /\ FilesExplained /\ SourceStored /\ NoDuplicates
    BY DEF AdmissionInv
  <1>1. call \in [Calls -> CallRow]
    BY <1>0 DEF TypeOK, CallRow
  <1>2. /\ call' \in [Calls -> CallRow]
        /\ call'[c].pc = "closing" /\ call'[c].key = call[c].key
        /\ call'[c].work = call[c].work
        /\ call'[c].answer.kind = "accepted" /\ call'[c].answer.doc = c
        /\ \A e \in Calls : e # c => call'[e] = call[e]
    <2>1. Resource(c) = c
      BY <1>0 DEF Requested, Resource
    <2>2. [kind |-> "accepted", doc |-> c] \in Answer
      BY DEF Answer, Bound
    <2> QED
      BY <1>1, <2>1, <2>2, ReplyEffect DEF Commit
  <1>3. /\ idem' = [idem EXCEPT ![call[c].key] = [work |-> call[c].work, doc |-> c]]
        /\ idem[call[c].key] = None /\ call[c].key \in Keys /\ call[c].work \in Work
        /\ call[c].pc = "promoted" /\ lock = c /\ lock' = None
        /\ UNCHANGED <<objects, staged, errors, crashes>>
    <2>1. Resource(c) = c
      BY <1>0 DEF Requested, Resource
    <2> QED
      BY <1>0, <2>1 DEF Commit, Requested, Reserved, LockHeld, Transaction
  <1>4. /\ idem' \in [Keys -> [work : Work, doc : Calls] \cup {None}]
        /\ idem'[call[c].key] = [work |-> call[c].work, doc |-> c]
        /\ \A k \in Keys : idem[k] # None => idem'[k] = idem[k]
    BY <1>0, <1>3 DEF TypeOK
  <1>5. /\ call[c].work.of \in Contents /\ docs[c] = None /\ c \in objects /\ Duplicates(c) = {}
        /\ call[c].work = [action |-> "upload", of |-> call[c].work.of]
    BY <1>0, <1>3, WorkCases DEF Requested, RowsEarned, FilesExplained, Reserved
  <1> DEFINE row == [digest |-> call[c].work.of, state |-> "working"]
  <1>6. row \in [digest : Contents, state : State] /\ row # None
    BY <1>5, NullAssumption DEF State
  <1>7. /\ docs' \in [Calls -> [digest : Contents, state : State] \cup {None}]
        /\ docs'[c] = row /\ \A e \in Calls : e # c => docs'[e] = docs[e]
        /\ row.digest = call[c].work.of /\ row.state = "working"
    BY <1>0, <1>3, <1>6 DEF TypeOK, Commit
  <1> HIDE DEF row
  <1>11. TypeOK'
    BY <1>0, <1>1, <1>2, <1>3, <1>4, <1>5, <1>6, <1>7, NoneAssumption DEF TypeOK, CallRow, InFlight, Transaction
  <1>12. Requested'
    BY <1>0, <1>1, <1>2, <1>3, <1>4, <1>5, <1>6, <1>7, NoneAssumption DEF Requested, TypeOK, LockHeld, Deletable, CallRow, InFlight, Transaction
  <1>13. LockHeld'
    BY <1>0, <1>1, <1>2, <1>3, <1>4, <1>5, <1>6, <1>7, NoneAssumption DEF LockHeld, TypeOK, CallRow, InFlight, Transaction
  <1>14. Reserved'
    BY <1>0, <1>1, <1>2, <1>3, <1>4, <1>5, <1>6, <1>7, NoneAssumption DEF Reserved, TypeOK, LockHeld, Requested, Duplicates, Retained, CallRow, InFlight, Transaction
  <1>15. RowsEarned'
    BY <1>0, <1>1, <1>2, <1>3, <1>4, <1>5, <1>6, <1>7, KeysTaken DEF RowsEarned, TypeOK
  <1>16. AnswersRecorded'
    BY <1>0, <1>1, <1>2, <1>3, <1>4, <1>5, <1>6, <1>7, KeysTaken DEF AnswersRecorded, TypeOK
  <1>17. FilesExplained'
    <2>1. ASSUME NEW e \in objects' PROVE call'[e].pc # "new" /\ call'[e].work.action = "upload"
      BY <1>0, <1>1, <1>2, <1>3, <1>4, <1>5, <1>6, <1>7 DEF FilesExplained, TypeOK, Requested
    <2>2. ASSUME NEW e \in Calls, call'[e].pc \in {"promoted", "undo"} PROVE e \in objects'
      BY <1>0, <1>1, <2>2, <1>2, <1>3, <1>4, <1>5, <1>6, <1>7 DEF FilesExplained, TypeOK, Transaction
    <2>3. \A e \in staged' : call'[e].pc \in InFlight \cup {"dead"}
      BY <1>0, <1>1, <1>2, <1>3, <1>4, <1>5, <1>6, <1>7 DEF FilesExplained, TypeOK, InFlight, Transaction
    <2> QED
      BY <2>1, <2>2, <2>3 DEF FilesExplained
  <1>18. SourceStored'
    BY <1>0, <1>1, <1>2, <1>3, <1>4, <1>5, <1>6, <1>7, NoneAssumption DEF SourceStored, TypeOK, RowsEarned, CallRow, InFlight, Transaction
  <1>19. NoDuplicates'
    BY <1>0, <1>1, <1>2, <1>3, <1>4, <1>5, <1>6, <1>7, NoneAssumption DEF NoDuplicates, TypeOK, Reserved, Duplicates, Retained, CallRow, InFlight, Transaction
  <1>20. Orphans' \subseteq Orphans
    BY <1>0, <1>1, <1>2, <1>3, <1>4, <1>5, <1>6, <1>7, NoneAssumption DEF Orphans, FilesExplained, Requested, RowsEarned, TypeOK, CallRow, InFlight, Transaction
  <1>21. OrphansCounted'
    BY <1>20, <1>2, <1>3, <1>4, <1>5, <1>6, <1>7, OrphansFewer
  <1> QED
    BY <1>11, <1>12, <1>13, <1>14, <1>15, <1>16, <1>17, <1>18, <1>19, <1>21 DEF AdmissionInv

\* The commit of a mutation: the document stays what it was but for its state.
LEMMA MutatedStep ==
    ASSUME AdmissionInv, NEW c \in Calls, call[c].pc = "mutated", Commit(c)
    PROVE  AdmissionInv'
  <1>0. /\ TypeOK /\ Requested /\ LockHeld /\ Reserved /\ RowsEarned /\ AnswersRecorded
        /\ FilesExplained /\ SourceStored /\ NoDuplicates
    BY DEF AdmissionInv
  <1>1. call \in [Calls -> CallRow]
    BY <1>0 DEF TypeOK, CallRow
  <1> DEFINE d == call[c].work.of
  <1>a. /\ call[c].work.action = "delete" /\ d \in Calls /\ call[c].work \in Work
        /\ docs[d] # None /\ docs[d].state # "working" /\ Resource(c) = d
    BY <1>0, WorkCases DEF Requested, Deletable, Resource
  <1>2. /\ call' \in [Calls -> CallRow]
        /\ call'[c].pc = "closing" /\ call'[c].key = call[c].key
        /\ call'[c].work = call[c].work
        /\ call'[c].answer.kind = "accepted" /\ call'[c].answer.doc = d
        /\ \A e \in Calls : e # c => call'[e] = call[e]
    <2>1. [kind |-> "accepted", doc |-> d] \in Answer
      BY <1>a DEF Answer, Bound
    <2> QED
      BY <1>1, <1>a, <2>1, ReplyEffect DEF Commit
  <1>3. /\ idem' = [idem EXCEPT ![call[c].key] = [work |-> call[c].work, doc |-> d]]
        /\ idem[call[c].key] = None /\ call[c].key \in Keys /\ call[c].work \in Work
        /\ call[c].pc = "mutated" /\ lock = c /\ lock' = None
        /\ UNCHANGED <<objects, staged, errors, crashes>>
    BY <1>0, <1>a DEF Commit, Requested, Reserved, LockHeld, Transaction
  <1>4. /\ idem' \in [Keys -> [work : Work, doc : Calls] \cup {None}]
        /\ idem'[call[c].key] = [work |-> call[c].work, doc |-> d]
        /\ \A k \in Keys : idem[k] # None => idem'[k] = idem[k]
    BY <1>0, <1>3, <1>a DEF TypeOK
  <1> DEFINE row == [docs[d] EXCEPT !.state = IF docs[d].state = "stable" THEN "deleting"
                                              ELSE docs[d].state]
  <1>5. docs[d] \in [digest : Contents, state : State]
    BY <1>0, <1>a, RowType
  <1>6. /\ row \in [digest : Contents, state : State] /\ row # None
        /\ row.digest = docs[d].digest /\ row.state \in {"deleting", "deleted"}
        /\ row.state = "deleted" <=> docs[d].state = "deleted"
    BY <1>5, <1>a, NullAssumption DEF State
  <1>7. docs' = [docs EXCEPT ![d] = row]
    BY <1>3 DEF Commit
  <1> HIDE DEF row
  <1>8. /\ docs' \in [Calls -> [digest : Contents, state : State] \cup {None}]
        /\ docs'[d] = row /\ \A e \in Calls : e # d => docs'[e] = docs[e]
    BY <1>0, <1>a, <1>6, <1>7 DEF TypeOK
  <1>9. c \notin objects /\ docs[c] = None
    BY <1>0, <1>3, <1>a DEF FilesExplained, RowsEarned
  <1> HIDE DEF d
  <1>11. TypeOK'
    BY <1>0, <1>1, <1>a, <1>2, <1>3, <1>4, <1>6, <1>8, <1>9, NoneAssumption DEF TypeOK, CallRow, InFlight, Transaction
  <1>12. Requested'
    BY <1>0, <1>1, <1>a, <1>2, <1>3, <1>4, <1>6, <1>8, <1>9, NoneAssumption DEF Requested, TypeOK, LockHeld, Deletable, CallRow, InFlight, Transaction
  <1>13. LockHeld'
    BY <1>0, <1>1, <1>a, <1>2, <1>3, <1>4, <1>6, <1>8, <1>9, NoneAssumption DEF LockHeld, TypeOK, CallRow, InFlight, Transaction
  <1>14. Reserved'
    BY <1>0, <1>1, <1>a, <1>2, <1>3, <1>4, <1>6, <1>8, <1>9, NoneAssumption DEF Reserved, TypeOK, LockHeld, Requested, Duplicates, Retained, CallRow, InFlight, Transaction
  <1>15. RowsEarned'
    BY <1>0, <1>1, <1>a, <1>2, <1>3, <1>4, <1>6, <1>8, <1>9, KeysTaken DEF RowsEarned, TypeOK
  <1>16. AnswersRecorded'
    BY <1>0, <1>1, <1>a, <1>2, <1>3, <1>4, <1>6, <1>8, <1>9, KeysTaken DEF AnswersRecorded, TypeOK
  <1>17. FilesExplained'
    <2>1. ASSUME NEW e \in objects' PROVE call'[e].pc # "new" /\ call'[e].work.action = "upload"
      BY <1>0, <1>1, <1>a, <1>2, <1>3, <1>4, <1>6, <1>8, <1>9 DEF FilesExplained, TypeOK, Requested
    <2>2. ASSUME NEW e \in Calls, call'[e].pc \in {"promoted", "undo"} PROVE e \in objects'
      BY <1>0, <1>1, <2>2, <1>a, <1>2, <1>3, <1>4, <1>6, <1>8, <1>9 DEF FilesExplained, TypeOK, Transaction
    <2>3. \A e \in staged' : call'[e].pc \in InFlight \cup {"dead"}
      BY <1>0, <1>1, <1>a, <1>2, <1>3, <1>4, <1>6, <1>8, <1>9 DEF FilesExplained, TypeOK, InFlight, Transaction
    <2> QED
      BY <2>1, <2>2, <2>3 DEF FilesExplained
  <1>18. SourceStored'
    BY <1>0, <1>1, <1>a, <1>2, <1>3, <1>4, <1>6, <1>8, <1>9, NoneAssumption DEF SourceStored, TypeOK, RowsEarned, CallRow, InFlight, Transaction
  <1>19. NoDuplicates'
    BY <1>0, <1>1, <1>a, <1>2, <1>3, <1>4, <1>6, <1>8, <1>9, NoneAssumption DEF NoDuplicates, TypeOK, Reserved, Duplicates, Retained, CallRow, InFlight, Transaction
  <1>20. Orphans' \subseteq Orphans
    BY <1>0, <1>1, <1>a, <1>2, <1>3, <1>4, <1>6, <1>8, <1>9, NoneAssumption DEF Orphans, FilesExplained, Requested, RowsEarned, TypeOK, CallRow, InFlight, Transaction
  <1>21. OrphansCounted'
    BY <1>20, <1>a, <1>2, <1>3, <1>4, <1>6, <1>8, <1>9, OrphansFewer
  <1> QED
    BY <1>11, <1>12, <1>13, <1>14, <1>15, <1>16, <1>17, <1>18, <1>19, <1>21 DEF AdmissionInv

\* The worker moves the state of one document, and purges only what is condemned.
LEMMA WorkerStep ==
    ASSUME AdmissionInv, NEW d \in Calls, Settle(d) \/ Purge(d)
    PROVE  AdmissionInv'
  <1>0. /\ TypeOK /\ Requested /\ LockHeld /\ Reserved /\ RowsEarned /\ AnswersRecorded
        /\ FilesExplained /\ SourceStored /\ NoDuplicates
    BY DEF AdmissionInv
  <1>1. call \in [Calls -> CallRow]
    BY <1>0 DEF TypeOK, CallRow
  <1> DEFINE row == [docs[d] EXCEPT !.state = IF docs[d].state = "working" THEN "stable"
                                              ELSE "deleted"]
  <1>2. /\ docs[d] \in [digest : Contents, state : State] /\ docs[d] # None
        /\ docs[d].state \in {"working", "deleting"}
    BY <1>0, RowType DEF Settle, Purge
  <1>3. /\ row \in [digest : Contents, state : State] /\ row # None
        /\ row.digest = docs[d].digest /\ row.state \in {"stable", "deleted"}
        /\ row.state = "stable" <=> docs[d].state = "working"
    BY <1>2, NullAssumption DEF State
  <1>4. /\ docs' = [docs EXCEPT ![d] = row] /\ lock = None
        /\ UNCHANGED <<idem, staged, call, lock, errors, crashes>>
        /\ objects' = IF docs[d].state = "working" THEN objects ELSE objects \ {d}
    BY <1>2 DEF Settle, Purge
  <1> HIDE DEF row
  <1>5. /\ docs' \in [Calls -> [digest : Contents, state : State] \cup {None}]
        /\ docs'[d] = row /\ \A e \in Calls : e # d => docs'[e] = docs[e]
    BY <1>0, <1>3, <1>4 DEF TypeOK
  <1>6. \A e \in Calls : call[e].pc \notin Transaction
    BY <1>0, <1>4, NoneAssumption DEF LockHeld
  <1>11. TypeOK'
    BY <1>0, <1>1, <1>2, <1>3, <1>4, <1>5, <1>6, NoneAssumption DEF TypeOK, CallRow, InFlight, Transaction
  <1>12. Requested'
    BY <1>0, <1>1, <1>2, <1>3, <1>4, <1>5, <1>6, NoneAssumption DEF Requested, TypeOK, LockHeld, Deletable, CallRow, InFlight, Transaction
  <1>13. LockHeld'
    BY <1>0, <1>1, <1>2, <1>3, <1>4, <1>5, <1>6, NoneAssumption DEF LockHeld, TypeOK, CallRow, InFlight, Transaction
  <1>14. Reserved'
    BY <1>0, <1>1, <1>2, <1>3, <1>4, <1>5, <1>6, NoneAssumption DEF Reserved, TypeOK, LockHeld, Requested, Duplicates, Retained, CallRow, InFlight, Transaction
  <1>15. RowsEarned'
    BY <1>0, <1>1, <1>2, <1>3, <1>4, <1>5, <1>6, NoneAssumption DEF RowsEarned, TypeOK, Reserved, Requested, CallRow, InFlight, Transaction
  <1>16. AnswersRecorded'
    BY <1>0, <1>1, <1>2, <1>3, <1>4, <1>5, <1>6, NoneAssumption DEF AnswersRecorded, TypeOK, Reserved, Requested, CallRow, InFlight, Transaction
  <1>17. FilesExplained'
    <2>1. ASSUME NEW e \in objects' PROVE call'[e].pc # "new" /\ call'[e].work.action = "upload"
      BY <1>0, <1>1, <1>2, <1>3, <1>4, <1>5, <1>6 DEF FilesExplained, TypeOK, Requested
    <2>2. ASSUME NEW e \in Calls, call'[e].pc \in {"promoted", "undo"} PROVE e \in objects'
      BY <1>0, <1>1, <2>2, <1>2, <1>3, <1>4, <1>5, <1>6 DEF FilesExplained, TypeOK, Transaction
    <2>3. \A e \in staged' : call'[e].pc \in InFlight \cup {"dead"}
      BY <1>0, <1>1, <1>2, <1>3, <1>4, <1>5, <1>6 DEF FilesExplained, TypeOK, InFlight, Transaction
    <2> QED
      BY <2>1, <2>2, <2>3 DEF FilesExplained
  <1>18. SourceStored'
    BY <1>0, <1>1, <1>2, <1>3, <1>4, <1>5, <1>6, NoneAssumption DEF SourceStored, TypeOK, RowsEarned, CallRow, InFlight, Transaction
  <1>19. NoDuplicates'
    BY <1>0, <1>1, <1>2, <1>3, <1>4, <1>5, <1>6, NoneAssumption DEF NoDuplicates, TypeOK, Reserved, Duplicates, Retained, CallRow, InFlight, Transaction
  <1>20. Orphans' \subseteq Orphans
    BY <1>0, <1>1, <1>2, <1>3, <1>4, <1>5, <1>6, NoneAssumption DEF Orphans, FilesExplained, Requested, RowsEarned, TypeOK, CallRow, InFlight, Transaction
  <1>21. OrphansCounted'
    BY <1>20, <1>2, <1>3, <1>4, <1>5, <1>6, OrphansFewer
  <1> QED
    BY <1>11, <1>12, <1>13, <1>14, <1>15, <1>16, <1>17, <1>18, <1>19, <1>21 DEF AdmissionInv

\* A request that comes in takes nothing.
LEMMA ArriveStep == ASSUME AdmissionInv, NEW c \in Calls, Arrive(c) PROVE AdmissionInv'
  <1>0. /\ TypeOK /\ Requested /\ LockHeld /\ Reserved /\ RowsEarned /\ AnswersRecorded
        /\ FilesExplained /\ SourceStored /\ NoDuplicates
    BY DEF AdmissionInv
  <1>1. call \in [Calls -> CallRow]
    BY <1>0 DEF TypeOK, CallRow
  <1>p. PICK k \in Keys, w \in Work :
        call' = [call EXCEPT ![c].pc = IF w.action = "upload" THEN "streaming" ELSE "ready",
                             ![c].key = k, ![c].work = w]
    BY DEF Arrive
  <1> DEFINE row == [call[c] EXCEPT !.pc = IF w.action = "upload" THEN "streaming" ELSE "ready",
                                    !.key = k, !.work = w]
  <1>a. call' = [call EXCEPT ![c] = row]
    BY <1>p
  <1>b. /\ row \in CallRow /\ row.key = k /\ row.work = w /\ row.answer = call[c].answer
        /\ row.pc = IF w.action = "upload" THEN "streaming" ELSE "ready"
    BY <1>1 DEF CallRow, InFlight
  <1> HIDE DEF row
  <1>2. /\ call' \in [Calls -> CallRow] /\ call'[c] = row
        /\ \A e \in Calls : e # c => call'[e] = call[e]
    BY <1>1, <1>a, <1>b
  <1>3. /\ UNCHANGED <<docs, idem, objects, staged, lock, errors, crashes>>
        /\ call[c].pc = "new" /\ docs[c] = None /\ c \notin objects /\ c \notin staged
        /\ call[c].answer.kind \notin {"accepted", "replay"}
    BY <1>0 DEF Arrive, RowsEarned, FilesExplained, AnswersRecorded, InFlight, Transaction
  <1>11. TypeOK'
    BY <1>0, <1>1, <1>b, <1>2, <1>3, NoneAssumption DEF TypeOK, CallRow, InFlight, Transaction
  <1>12. Requested'
    BY <1>0, <1>1, <1>b, <1>2, <1>3, NoneAssumption DEF Requested, TypeOK, LockHeld, Deletable, CallRow, InFlight, Transaction
  <1>13. LockHeld'
    BY <1>0, <1>1, <1>b, <1>2, <1>3, NoneAssumption DEF LockHeld, TypeOK, CallRow, InFlight, Transaction
  <1>14. Reserved'
    BY <1>0, <1>1, <1>b, <1>2, <1>3, NoneAssumption DEF Reserved, TypeOK, LockHeld, Requested, Duplicates, Retained, CallRow, InFlight, Transaction
  <1>15. RowsEarned'
    BY <1>0, <1>1, <1>b, <1>2, <1>3, NoneAssumption DEF RowsEarned, TypeOK, Reserved, Requested, CallRow, InFlight, Transaction
  <1>16. AnswersRecorded'
    BY <1>0, <1>1, <1>b, <1>2, <1>3, NoneAssumption DEF AnswersRecorded, TypeOK, Reserved, Requested, CallRow, InFlight, Transaction
  <1>17. FilesExplained'
    <2>1. ASSUME NEW e \in objects' PROVE call'[e].pc # "new" /\ call'[e].work.action = "upload"
      BY <1>0, <1>1, <1>b, <1>2, <1>3 DEF FilesExplained, TypeOK, Requested
    <2>2. ASSUME NEW e \in Calls, call'[e].pc \in {"promoted", "undo"} PROVE e \in objects'
      BY <1>0, <1>1, <2>2, <1>b, <1>2, <1>3 DEF FilesExplained, TypeOK, Transaction
    <2>3. \A e \in staged' : call'[e].pc \in InFlight \cup {"dead"}
      BY <1>0, <1>1, <1>b, <1>2, <1>3 DEF FilesExplained, TypeOK, InFlight, Transaction
    <2> QED
      BY <2>1, <2>2, <2>3 DEF FilesExplained
  <1>18. SourceStored'
    BY <1>0, <1>1, <1>b, <1>2, <1>3, NoneAssumption DEF SourceStored, TypeOK, RowsEarned, CallRow, InFlight, Transaction
  <1>19. NoDuplicates'
    BY <1>0, <1>1, <1>b, <1>2, <1>3, NoneAssumption DEF NoDuplicates, TypeOK, Reserved, Duplicates, Retained, CallRow, InFlight, Transaction
  <1>20. Orphans' \subseteq Orphans
    BY <1>0, <1>1, <1>b, <1>2, <1>3, NoneAssumption DEF Orphans, FilesExplained, Requested, RowsEarned, TypeOK, CallRow, InFlight, Transaction
  <1>21. OrphansCounted'
    BY <1>20, <1>b, <1>2, <1>3, OrphansFewer
  <1> QED
    BY <1>11, <1>12, <1>13, <1>14, <1>15, <1>16, <1>17, <1>18, <1>19, <1>21 DEF AdmissionInv

\* Every call that is in flight dies; at most the one inside a transaction leaves a file.
LEMMA CrashStep == ASSUME AdmissionInv, Crash PROVE AdmissionInv'
  <1>0. /\ TypeOK /\ Requested /\ LockHeld /\ Reserved /\ RowsEarned /\ AnswersRecorded
        /\ FilesExplained /\ SourceStored /\ NoDuplicates
    BY DEF AdmissionInv
  <1>1. call \in [Calls -> CallRow]
    BY <1>0 DEF TypeOK, CallRow
  <1>2. /\ UNCHANGED <<docs, idem, objects, staged, errors>> /\ lock' = None
        /\ crashes \in Nat /\ crashes' = crashes + 1 /\ crashes' \in 0 .. MaxCrashes
    BY <1>0, LimitsAssumption DEF Crash, TypeOK
  <1>3. /\ call' \in [Calls -> CallRow]
        /\ \A c \in Calls :
            /\ call'[c].key = call[c].key /\ call'[c].work = call[c].work
            /\ call'[c].answer = call[c].answer
            /\ call'[c].pc = IF call[c].pc \in InFlight THEN "dead" ELSE call[c].pc
    <2> SUFFICES ASSUME NEW c \in Calls
                 PROVE  /\ call'[c] \in CallRow
                        /\ call'[c].key = call[c].key /\ call'[c].work = call[c].work
                        /\ call'[c].answer = call[c].answer
                        /\ call'[c].pc = IF call[c].pc \in InFlight THEN "dead" ELSE call[c].pc
      BY <1>1 DEF Crash
    <2>1. call'[c] = IF call[c].pc \in InFlight THEN [call[c] EXCEPT !.pc = "dead"] ELSE call[c]
      BY DEF Crash
    <2> QED
      BY <1>1, <2>1 DEF CallRow
  <1>4. \A c \in Calls : call'[c].pc \in {"new", "done", "dead"}
    BY <1>1, <1>3 DEF CallRow
  <1>11. TypeOK'
    BY <1>0, <1>1, <1>2, <1>3, <1>4, NoneAssumption DEF TypeOK, CallRow, InFlight, Transaction
  <1>12. Requested'
    BY <1>0, <1>1, <1>2, <1>3, <1>4, NoneAssumption DEF Requested, TypeOK, LockHeld, Deletable, CallRow, InFlight, Transaction
  <1>13. LockHeld'
    BY <1>0, <1>1, <1>2, <1>3, <1>4, NoneAssumption DEF LockHeld, TypeOK, CallRow, InFlight, Transaction
  <1>14. Reserved'
    BY <1>0, <1>1, <1>2, <1>3, <1>4, NoneAssumption DEF Reserved, TypeOK, LockHeld, Requested, Duplicates, Retained, CallRow, InFlight, Transaction
  <1>15. RowsEarned'
    BY <1>0, <1>1, <1>2, <1>3, <1>4, NoneAssumption DEF RowsEarned, TypeOK, Reserved, Requested, CallRow, InFlight, Transaction
  <1>16. AnswersRecorded'
    BY <1>0, <1>1, <1>2, <1>3, <1>4, NoneAssumption DEF AnswersRecorded, TypeOK, Reserved, Requested, CallRow, InFlight, Transaction
  <1>17. FilesExplained'
    <2>1. ASSUME NEW e \in objects' PROVE call'[e].pc # "new" /\ call'[e].work.action = "upload"
      BY <1>0, <1>1, <1>2, <1>3, <1>4 DEF FilesExplained, TypeOK, Requested
    <2>2. ASSUME NEW e \in Calls, call'[e].pc \in {"promoted", "undo"} PROVE e \in objects'
      BY <1>0, <1>1, <2>2, <1>2, <1>3, <1>4 DEF FilesExplained, TypeOK, Transaction
    <2>3. \A e \in staged' : call'[e].pc \in InFlight \cup {"dead"}
      BY <1>0, <1>1, <1>2, <1>3, <1>4 DEF FilesExplained, TypeOK, InFlight, Transaction
    <2> QED
      BY <2>1, <2>2, <2>3 DEF FilesExplained
  <1>18. SourceStored'
    BY <1>0, <1>1, <1>2, <1>3, <1>4, NoneAssumption DEF SourceStored, TypeOK, RowsEarned, CallRow, InFlight, Transaction
  <1>19. NoDuplicates'
    BY <1>0, <1>1, <1>2, <1>3, <1>4, NoneAssumption DEF NoDuplicates, TypeOK, Reserved, Duplicates, Retained, CallRow, InFlight, Transaction
  <1>20. OrphansCounted'
    <2>1. Orphans' \subseteq Orphans \cup {lock}
      BY <1>0, <1>2 DEF Orphans, LockHeld, TypeOK
    <2>2. /\ IsFiniteSet(Orphans \cup {lock}) /\ Cardinality(Orphans) \in Nat
          /\ Cardinality(Orphans \cup {lock}) <= Cardinality(Orphans) + 1
      BY FS_AddElement, FS_CardinalityType DEF AdmissionInv, OrphansCounted
    <2>3. /\ IsFiniteSet(Orphans') /\ Cardinality(Orphans') \in Nat
          /\ Cardinality(Orphans') <= Cardinality(Orphans \cup {lock})
      BY <2>1, <2>2, FS_Subset, FS_CardinalityType
    <2>4. Cardinality(Orphans \cup {lock}) \in Nat
      BY <2>2, FS_CardinalityType
    <2>5. Cardinality(Orphans) <= crashes
      BY DEF AdmissionInv, OrphansCounted
    <2> QED
      BY <1>2, <2>2, <2>3, <2>4, <2>5 DEF OrphansCounted
  <1> QED
    BY <1>11, <1>12, <1>13, <1>14, <1>15, <1>16, <1>17, <1>18, <1>19, <1>20 DEF AdmissionInv

-----------------------------------------------------------------------------
(* The actions are the steps above. *)

\* Streaming and scanning go on or refuse.
LEMMA PreparationStep ==
    ASSUME AdmissionInv, NEW c \in Calls, StreamUpload(c) \/ Scan(c) PROVE AdmissionInv'
  <1>0. [kind |-> "refused", doc |-> None] \in Answer
    BY RefusalType DEF Unbound
  <1>1. CASE StreamUpload(c)
    <2>1. CASE Goto(c, "scanning") /\ staged' = staged \cup {c}
      BY <1>1, <2>1, OutsideStep DEF StreamUpload
    <2>2. CASE Reply(c, "refused", None) /\ staged' = staged
      BY <1>0, <1>1, <2>2, AnsweredStep DEF StreamUpload
    <2> QED
      BY <1>1, <2>1, <2>2 DEF StreamUpload
  <1>2. CASE Scan(c)
    <2>1. CASE Goto(c, "ready") /\ staged' = staged
      BY <1>2, <2>1, OutsideStep DEF Scan
    <2>2. CASE Reply(c, "refused", None) /\ staged' = staged \ {c}
      BY <1>0, <1>2, <2>2, AnsweredStep DEF Scan
    <2> QED
      BY <1>2, <2>1, <2>2 DEF Scan
  <1> QED
    BY <1>1, <1>2

\* The first statements under the lock answer at once or open the transaction.
LEMMA BeginStep == ASSUME AdmissionInv, NEW c \in Calls, Begin(c) PROVE AdmissionInv'
  <1>0. /\ call[c].pc = "ready" /\ lock = None /\ call[c].key \in Keys
        /\ UNCHANGED <<docs, idem, objects, staged, errors, crashes>>
        /\ idem \in [Keys -> [work : Work, doc : Calls] \cup {None}]
    BY DEF Begin, AdmissionInv, Requested, TypeOK
  <1>1. ASSUME NEW kind, NEW d, [kind |-> kind, doc |-> d] \in Answer, Reply(c, kind, d),
               lock' = lock, kind \in {"duplicate", "conflict", "refused"}
        PROVE  AdmissionInv'
    BY <1>0, <1>1, AnsweredStep
  <1>2. CASE Recorded(c) /\ Reply(c, "replay", idem[call[c].key].doc) /\ UNCHANGED lock
    <2> DEFINE d == idem[call[c].key].doc
    <2>1. d \in Calls /\ idem[call[c].key] = [work |-> call[c].work, doc |-> d]
      BY <1>0, <1>2 DEF Recorded
    <2>2. [kind |-> "replay", doc |-> d] \in Answer
      BY <2>1 DEF Answer, Bound
    <2> QED
      BY <1>0, <1>2, <2>1, <2>2, AnsweredStep
  <1>3. CASE Reply(c, "conflict", None) /\ UNCHANGED lock
    BY <1>1, <1>3, RefusalType DEF Unbound
  <1>4. CASE (\E d \in Duplicates(c) : Reply(c, "duplicate", d)) /\ UNCHANGED lock
    <2>1. PICK d \in Duplicates(c) : Reply(c, "duplicate", d)
      BY <1>4
    <2>2. [kind |-> "duplicate", doc |-> d] \in Answer
      BY DEF Duplicates, Answer, Bound
    <2> QED
      BY <1>1, <1>4, <2>1, <2>2
  <1>5. CASE Reply(c, "refused", None) /\ UNCHANGED lock
    BY <1>1, <1>5, RefusalType DEF Unbound
  <1>6. CASE /\ Unused(c) /\ call[c].work.action = "upload" /\ Duplicates(c) = {}
             /\ Goto(c, "admitted") /\ lock' = c
    BY <1>0, <1>6, OpenedStep
  <1>7. CASE /\ Unused(c) /\ call[c].work.action = "delete" /\ Deletable(call[c].work.of)
             /\ Goto(c, "mutated") /\ lock' = c
    BY <1>0, <1>7, OpenedStep
  <1> QED
    BY <1>2, <1>3, <1>4, <1>5, <1>6, <1>7 DEF Begin

\* Inside the transaction: promotion, commit, and the ways to fail.
LEMMA TransactionStep ==
    ASSUME AdmissionInv, NEW c \in Calls,
           Promote(c) \/ RegisterFails(c) \/ Commit(c) \/ CommitFails(c) \/ Compensate(c)
    PROVE  AdmissionInv'
  <1>0. errors \in 0 .. MaxErrors /\ (Error => errors' \in 0 .. MaxErrors)
    BY LimitsAssumption DEF AdmissionInv, TypeOK, Error
  <1>1. CASE Promote(c)
    BY <1>0, <1>1, InsideStep DEF Promote
  <1>2. CASE RegisterFails(c)
    BY <1>0, <1>2, RolledBackStep DEF RegisterFails, Transaction
  <1>3. CASE Commit(c)
    BY <1>3, AdmittedStep, MutatedStep DEF Commit
  <1>4. CASE CommitFails(c)
    <2>1. CASE call[c].pc = "promoted"
      BY <1>0, <1>4, <2>1, InsideStep DEF CommitFails
    <2>2. CASE call[c].pc = "mutated"
      <3>1. objects' = objects \ {c}
        BY <1>4, <2>2 DEF CommitFails, AdmissionInv, Requested, FilesExplained
      <3> QED
        BY <1>0, <1>4, <2>2, <3>1, RolledBackStep DEF CommitFails, Transaction
    <2> QED
      BY <1>4, <2>1, <2>2 DEF CommitFails
  <1>5. CASE Compensate(c)
    BY <1>0, <1>5, RolledBackStep DEF Compensate, Transaction
  <1> QED
    BY <1>1, <1>2, <1>3, <1>4, <1>5

\* Every step keeps the invariant.
LEMMA AdmissionNext == ASSUME AdmissionInv, [Next]_vars PROVE AdmissionInv'
  <1>1. CASE UNCHANGED vars
    BY <1>1 DEF vars, AdmissionInv, TypeOK, Requested, LockHeld, Reserved, RowsEarned,
        AnswersRecorded, FilesExplained, SourceStored, NoDuplicates, OrphansCounted, Orphans,
        Deletable, Duplicates, Retained
  <1>2. CASE Crash
    BY <1>2, CrashStep
  <1>3. ASSUME NEW c \in Calls,
               \/ Arrive(c) \/ Proceed(c) \/ RegisterFails(c) \/ CommitFails(c)
               \/ Settle(c) \/ Purge(c)
        PROVE  AdmissionInv'
    <2>1. CASE Close(c)
      BY <2>1, OutsideStep DEF Close
    <2> QED
      BY <1>3, <2>1, ArriveStep, PreparationStep, BeginStep, TransactionStep, WorkerStep DEF Proceed
  <1> QED
    BY <1>1, <1>2, <1>3 DEF Next

\* The invariant holds throughout.
LEMMA AdmissionInvariant == Spec => []AdmissionInv
  BY AdmissionInit, AdmissionNext, PTL DEF Spec

-----------------------------------------------------------------------------
\* A document that may be worked on or served has its file, whatever failed between
\* the rename and the commit (register_admission, compensate_failed_commit).
THEOREM SourcesStored == Spec => []SourceStored
  BY AdmissionInvariant, PTL DEF AdmissionInv

\* No two uploads leave the same bytes retained twice, although they stream and scan
\* at the same time (_find_exact_duplicate under the transition lock).
THEOREM BytesUnique == Spec => []NoDuplicates
  BY AdmissionInvariant, PTL DEF AdmissionInv

\* All that was accepted under one key is one request with one document
\* (reserve_idempotency, complete_idempotency): both answers are the key's record.
THEOREM KeysExact == Spec => []OneEffectPerKey
  <1>1. ASSUME AdmissionInv PROVE OneEffectPerKey
    <2>1. ASSUME NEW c \in Calls, NEW e \in Calls, call[c].key = call[e].key,
                 {call[c].answer.kind, call[e].answer.kind} \subseteq {"accepted", "replay"}
          PROVE  call[c].work = call[e].work /\ call[c].answer.doc = call[e].answer.doc
      <3> DEFINE rec(x) == [work |-> call[x].work, doc |-> call[x].answer.doc]
      <3>1. idem[call[c].key] = rec(c) /\ idem[call[e].key] = rec(e)
        BY <1>1, <2>1 DEF AdmissionInv, AnswersRecorded
      <3>2. rec(c).work = rec(e).work /\ rec(c).doc = rec(e).doc
        BY <2>1, <3>1
      <3> QED
        BY <3>2
    <2>2. ASSUME NEW d \in Calls, NEW e \in Calls, docs[d] # None, docs[e] # None,
                 call[d].key = call[e].key
          PROVE  d = e
      <3> DEFINE rec(x) == [work |-> call[x].work, doc |-> x]
      <3>1. idem[call[d].key] = rec(d) /\ idem[call[e].key] = rec(e)
        BY <1>1, <2>2 DEF AdmissionInv, RowsEarned
      <3>2. rec(d).doc = rec(e).doc
        BY <2>2, <3>1
      <3> QED
        BY <3>2
    <2> QED
      BY <2>1, <2>2 DEF OneEffectPerKey
  <1> QED
    BY <1>1, AdmissionInvariant, PTL

\* What a call leaves behind is the work of a crash, and the transition lock is held
\* exactly inside a transaction (upload_document, _run_mutation).
THEOREM LeftoversCounted == Spec => []LeftoversExplained
  <1>1. AdmissionInv => LeftoversExplained
    BY DEF AdmissionInv, OrphansCounted, Orphans, FilesExplained, LockHeld, LeftoversExplained
  <1> QED
    BY <1>1, AdmissionInvariant, PTL
=============================================================================
