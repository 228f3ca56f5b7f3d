-------------------------- MODULE ReingestionProofs --------------------------
(***************************************************************************)
(* The re-ingestion client for any manifest, limit and number of errors:   *)
(* at most one acceptance is unknown to the state file, and the documents  *)
(* in progress stay within the limit.  Both rest on the order in which     *)
(* entries are uploaded: whatever was sent, answered or not, everything    *)
(* before it is in the state file.                                         *)
(***************************************************************************)
EXTENDS Reingestion, FiniteSetTheorems, WellFoundedInduction, TLAPS

-----------------------------------------------------------------------------
(* The invariant. *)

\* A request for the entry was sent, and may have been or may yet be accepted.
Sent(e) == doc[e] # None \/ e \in late

\* Entries are sent in the order of the manifest, each after the ones before
\* it are in the state file.
InOrder == \A e, f \in Entries : Sent(e) /\ f < e => file[f] # None

\* Client and state file know only of what was accepted, and what they know as
\* ended is not in progress any more.
KnownTrue ==
    \A e \in Entries :
        /\ key[e] = None <=> doc[e] = None
        /\ accepted[e] # None => doc[e] # None
        /\ file[e] # None => doc[e] # None
        /\ accepted[e] \in Terminal => doc[e] # "OPEN"
        /\ file[e] \in Terminal => doc[e] # "OPEN"

\* A run knows at least what the file knows, and no more except while it polls
\* and between an acceptance and its saving.
MemoryAhead ==
    /\ pc # "off" => \A e \in Entries : /\ file[e] # None => accepted[e] # None
                                        /\ file[e] \in Terminal => accepted[e] \in Terminal
    /\ pc = "poll" => \A e \in Entries : /\ accepted[e] # None => file[e] # None
                                         /\ e \in todo => accepted[e] \notin Terminal \cup {None}
    /\ pc \in {"upload", "wait"} => accepted = file
    /\ pc = "wait" => Pending # {} /\ Room

\* What may be in progress now, or may come to be without another request.
Exposed == {e \in Entries : Sent(e) /\ file[e] \notin Terminal}

ExposedBounded == Cardinality(Exposed) <= MaxOutstanding

ReingestionInv == TypeOK /\ InOrder /\ KnownTrue /\ MemoryAhead /\ ExposedBounded

-----------------------------------------------------------------------------
(* Facts about sets of entries. *)

\* The entry that pending.pop(0) takes is the first pending one.
LEMMA FirstPending ==
    ASSUME Pending # {}
    PROVE  Current \in Pending /\ \A e \in Pending : Current <= e
  <1>1. Pending \subseteq Nat
    BY CountsAssumption DEF Pending, Entries
  <1>2. \E x \in Pending : \A y \in Pending : <<y, x>> \notin OpToRel(<, Nat)
    BY <1>1, NatLessThanWellFounded, WFMin
  <1>3. PICK x \in Pending : \A y \in Pending : <<y, x>> \notin OpToRel(<, Nat)
    BY <1>2
  <1>4. \A y \in Pending : x <= y
    <2> TAKE y \in Pending
    <2>1. x \in Nat /\ y \in Nat
      BY <1>1
    <2>2. ~(y < x)
      BY <1>3, <2>1 DEF OpToRel
    <2> QED
      BY <2>1, <2>2
  <1> QED
    BY <1>3, <1>4 DEF Current, Min

\* Sets of entries are finite, and a part of one is no larger.
LEMMA EntriesFinite ==
    /\ \A S \in SUBSET Entries : IsFiniteSet(S) /\ Cardinality(S) \in Nat
    /\ \A S \in SUBSET Entries, T \in SUBSET Entries : S \subseteq T => Cardinality(S) <= Cardinality(T)
  <1>1. IsFiniteSet(Entries)
    BY CountsAssumption, FS_Interval DEF Entries
  <1>2. \A S \in SUBSET Entries : IsFiniteSet(S) /\ Cardinality(S) \in Nat
    BY <1>1, FS_Subset, FS_CardinalityType
  <1> QED
    BY <1>2, FS_Subset

\* Fewer exposed entries stay within the limit.
LEMMA ExposedFewer ==
    ASSUME ExposedBounded, Exposed' \subseteq Exposed
    PROVE  ExposedBounded'
  <1>1. Exposed \in SUBSET Entries /\ Exposed' \in SUBSET Entries
    BY DEF Exposed, Entries
  <1>2. /\ Cardinality(Exposed') <= Cardinality(Exposed)
        /\ Cardinality(Exposed') \in Nat /\ Cardinality(Exposed) \in Nat
    BY <1>1, EntriesFinite
  <1> QED
    BY <1>2, CountsAssumption DEF ExposedBounded

\* While a request is under way there is room for its entry, and no other is exposed
\* without being known as outstanding.
LEMMA RoomForCurrent ==
    ASSUME ReingestionInv, pc = "wait", Exposed' \subseteq Exposed \cup {Current}
    PROVE  ExposedBounded'
  <1>1. Current \in Pending /\ \A e \in Pending : Current <= e
    BY FirstPending DEF ReingestionInv, MemoryAhead
  <1>2. accepted = file /\ Room
    BY DEF ReingestionInv, MemoryAhead
  <1>3. ASSUME NEW e \in Exposed, e # Current PROVE e \in Outstanding
    <2>1. e \in Entries /\ Current \in Entries /\ e \in Int /\ Current \in Int
      BY <1>1 DEF Exposed, Pending, Entries
    <2>2. file[Current] = None
      BY <1>1, <1>2 DEF Pending
    <2>3. ~(Current < e)
      BY <1>3, <2>1, <2>2 DEF Exposed, ReingestionInv, InOrder
    <2>4. file[e] # None
      BY <1>1, <1>2, <1>3, <2>1, <2>3 DEF Pending
    <2> QED
      BY <1>2, <1>3, <2>1, <2>4 DEF Exposed, Outstanding
  <1>4. Exposed' \subseteq Outstanding \cup {Current}
    BY <1>3
  <1>5. /\ IsFiniteSet(Outstanding) /\ Cardinality(Outstanding) \in Nat
        /\ Outstanding \cup {Current} \in SUBSET Entries /\ Exposed' \in SUBSET Entries
    BY <1>1, EntriesFinite DEF Outstanding, Pending, Exposed, Entries
  <1>6. Cardinality(Outstanding \cup {Current}) <= Cardinality(Outstanding) + 1
    BY <1>5, FS_AddElement
  <1>7. /\ Cardinality(Exposed') <= Cardinality(Outstanding \cup {Current})
        /\ Cardinality(Exposed') \in Nat /\ Cardinality(Outstanding \cup {Current}) \in Nat
    BY <1>4, <1>5, EntriesFinite
  <1> QED
    BY <1>2, <1>5, <1>6, <1>7, CountsAssumption DEF Room, ExposedBounded

-----------------------------------------------------------------------------
(* The steps. *)

\* Nothing was sent at the start.
LEMMA ReingestionInit == Init => ReingestionInv
  <1> SUFFICES ASSUME Init PROVE ReingestionInv
    OBVIOUS
  <1>1. TypeOK
    BY CountsAssumption DEF Init, TypeOK
  <1>2. InOrder /\ KnownTrue /\ MemoryAhead
    BY NoneAssumption DEF Init, InOrder, Sent, KnownTrue, MemoryAhead, Terminal
  <1>3. Exposed = {}
    BY DEF Init, Exposed, Sent
  <1>4. ExposedBounded
    BY <1>3, FS_EmptySet, CountsAssumption DEF ExposedBounded
  <1> QED
    BY <1>1, <1>2, <1>4 DEF ReingestionInv

\* A run begins with what the state file says.
LEMMA StartStep == ASSUME ReingestionInv, Start PROVE ReingestionInv'
  <1>0. TypeOK /\ InOrder /\ KnownTrue /\ MemoryAhead
    BY DEF ReingestionInv
  <1>1. TypeOK'
    BY <1>0, NoneAssumption, CountsAssumption DEF Start, Loaded, Unsettled, service, TypeOK, State, Terminal, Outstanding
  <1>2. InOrder'
    BY <1>0, NoneAssumption, CountsAssumption DEF Start, Loaded, Unsettled, service, InOrder, Sent, TypeOK, KnownTrue, MemoryAhead, Terminal
  <1>3. KnownTrue'
    BY <1>0, NoneAssumption, CountsAssumption DEF Start, Loaded, Unsettled, service, KnownTrue, TypeOK, State, Terminal, MemoryAhead
  <1>4. MemoryAhead'
    BY <1>0, NoneAssumption, CountsAssumption DEF Start, Loaded, Unsettled, service, MemoryAhead, TypeOK, KnownTrue, Terminal, State, Pending, Room, Outstanding
  <1>5. ExposedBounded'
    <2>1. Exposed' \subseteq Exposed
      BY <1>0, NoneAssumption DEF Start, Loaded, Unsettled, service, Exposed, Sent, KnownTrue, MemoryAhead, InOrder, TypeOK, Terminal, State
    <2> QED
      BY <2>1, ExposedFewer DEF ReingestionInv
  <1> QED
    BY <1>1, <1>2, <1>3, <1>4, <1>5 DEF ReingestionInv

\* A poll learns the state of a document that is not known as ended.
LEMMA PollStep == ASSUME ReingestionInv, NEW e \in Entries, Poll(e) PROVE ReingestionInv'
  <1>0. TypeOK /\ InOrder /\ KnownTrue /\ MemoryAhead
    BY DEF ReingestionInv
  <1>1. TypeOK'
    BY <1>0, NoneAssumption, CountsAssumption DEF Poll, service, TypeOK, State, Terminal, Outstanding
  <1>2. InOrder'
    BY <1>0, NoneAssumption, CountsAssumption DEF Poll, service, InOrder, Sent, TypeOK, KnownTrue, MemoryAhead, Terminal
  <1>3. KnownTrue'
    BY <1>0, NoneAssumption, CountsAssumption DEF Poll, service, KnownTrue, TypeOK, State, Terminal, MemoryAhead
  <1>4. MemoryAhead'
    BY <1>0, NoneAssumption, CountsAssumption DEF Poll, service, MemoryAhead, TypeOK, KnownTrue, Terminal, State, Pending, Room, Outstanding
  <1>5. ExposedBounded'
    <2>1. Exposed' \subseteq Exposed
      BY <1>0, NoneAssumption DEF Poll, service, Exposed, Sent, KnownTrue, MemoryAhead, InOrder, TypeOK, Terminal, State
    <2> QED
      BY <2>1, ExposedFewer DEF ReingestionInv
  <1> QED
    BY <1>1, <1>2, <1>3, <1>4, <1>5 DEF ReingestionInv

\* The state file takes over what the run knows.
LEMMA SaveStep == ASSUME ReingestionInv, SavePolled \/ SaveAccepted PROVE ReingestionInv'
  <1>0. TypeOK /\ InOrder /\ KnownTrue /\ MemoryAhead
    BY DEF ReingestionInv
  <1>1. TypeOK'
    BY <1>0, NoneAssumption, CountsAssumption DEF SavePolled, SaveAccepted, service, TypeOK, State, Terminal, Outstanding
  <1>2. InOrder'
    BY <1>0, NoneAssumption, CountsAssumption DEF SavePolled, SaveAccepted, service, InOrder, Sent, TypeOK, KnownTrue, MemoryAhead, Terminal
  <1>3. KnownTrue'
    BY <1>0, NoneAssumption, CountsAssumption DEF SavePolled, SaveAccepted, service, KnownTrue, TypeOK, State, Terminal, MemoryAhead
  <1>4. MemoryAhead'
    BY <1>0, NoneAssumption, CountsAssumption DEF SavePolled, SaveAccepted, service, MemoryAhead, TypeOK, KnownTrue, Terminal, State, Pending, Room, Outstanding
  <1>5. ExposedBounded'
    <2>1. Exposed' \subseteq Exposed
      BY <1>0, NoneAssumption DEF SavePolled, SaveAccepted, service, Exposed, Sent, KnownTrue, MemoryAhead, InOrder, TypeOK, Terminal, State
    <2> QED
      BY <2>1, ExposedFewer DEF ReingestionInv
  <1> QED
    BY <1>1, <1>2, <1>3, <1>4, <1>5 DEF ReingestionInv

\* A request is begun where there is room, or the round ends.
LEMMA RoundStep == ASSUME ReingestionInv, Upload \/ EndOfRound PROVE ReingestionInv'
  <1>0. TypeOK /\ InOrder /\ KnownTrue /\ MemoryAhead
    BY DEF ReingestionInv
  <1>1. TypeOK'
    BY <1>0, NoneAssumption, CountsAssumption DEF Upload, EndOfRound, service, TypeOK, State, Terminal, Outstanding
  <1>2. InOrder'
    BY <1>0, NoneAssumption, CountsAssumption DEF Upload, EndOfRound, service, InOrder, Sent, TypeOK, KnownTrue, MemoryAhead, Terminal
  <1>3. KnownTrue'
    BY <1>0, NoneAssumption, CountsAssumption DEF Upload, EndOfRound, service, KnownTrue, TypeOK, State, Terminal, MemoryAhead
  <1>4. MemoryAhead'
    BY <1>0, NoneAssumption, CountsAssumption DEF Upload, EndOfRound, service, MemoryAhead, TypeOK, KnownTrue, Terminal, State, Pending, Room, Outstanding
  <1>5. ExposedBounded'
    <2>1. Exposed' \subseteq Exposed
      BY <1>0, NoneAssumption DEF Upload, EndOfRound, service, Exposed, Sent, KnownTrue, MemoryAhead, InOrder, TypeOK, Terminal, State
    <2> QED
      BY <2>1, ExposedFewer DEF ReingestionInv
  <1> QED
    BY <1>1, <1>2, <1>3, <1>4, <1>5 DEF ReingestionInv

\* The service accepts the first pending entry, or knows it.
LEMMA AdmitStep == ASSUME ReingestionInv, Admit PROVE ReingestionInv'
  <1>0. TypeOK /\ InOrder /\ KnownTrue /\ MemoryAhead
    BY DEF ReingestionInv
  <1>a. ASSUME pc = "wait"
        PROVE  /\ Current \in Entries /\ accepted[Current] = None /\ file[Current] = None
               /\ \A f \in Entries : f < Current => file[f] # None
    <2>1. Current \in Pending /\ \A f \in Pending : Current <= f
      BY <1>0, <1>a, FirstPending DEF MemoryAhead
    <2>2. accepted = file
      BY <1>0, <1>a DEF MemoryAhead
    <2>3. Current \in Int /\ \A f \in Entries : f \in Int
      BY <2>1 DEF Pending, Entries
    <2> QED
      BY <2>1, <2>2, <2>3 DEF Pending
  <1>1. TypeOK'
    BY <1>0, <1>a, NoneAssumption, CountsAssumption DEF Admit, Refuses, Answered, service, TypeOK, State, Terminal, Outstanding
  <1>2. InOrder'
    BY <1>0, <1>a, NoneAssumption, CountsAssumption DEF Admit, Refuses, Answered, service, InOrder, Sent, TypeOK, KnownTrue, MemoryAhead, Terminal
  <1>3. KnownTrue'
    BY <1>0, <1>a, NoneAssumption, CountsAssumption DEF Admit, Refuses, Answered, service, KnownTrue, TypeOK, State, Terminal, MemoryAhead
  <1>4. MemoryAhead'
    BY <1>0, <1>a, NoneAssumption, CountsAssumption DEF Admit, Refuses, Answered, service, MemoryAhead, TypeOK, KnownTrue, Terminal, State, Pending, Room, Outstanding
  <1>5. ExposedBounded'
    <2>1. CASE pc = "wait"
      <3>1. Exposed' \subseteq Exposed \cup {Current}
        BY <1>0, <1>a, <2>1 DEF Admit, Refuses, Answered, Exposed, Sent, TypeOK
      <3> QED
        BY <2>1, <3>1, RoomForCurrent
    <2>2. CASE pc # "wait"
      <3>1. Exposed' \subseteq Exposed
        BY <1>0, <2>2 DEF Admit, Refuses, Answered, Exposed, Sent
      <3> QED
        BY <3>1, ExposedFewer DEF ReingestionInv
    <2> QED
      BY <2>1, <2>2
  <1> QED
    BY <1>1, <1>2, <1>3, <1>4, <1>5 DEF ReingestionInv

\* A run that is interrupted may leave the request for that entry on its way.
LEMMA InterruptStep == ASSUME ReingestionInv, Interrupt PROVE ReingestionInv'
  <1>0. TypeOK /\ InOrder /\ KnownTrue /\ MemoryAhead
    BY DEF ReingestionInv
  <1>a. ASSUME pc = "wait"
        PROVE  /\ Current \in Entries /\ accepted[Current] = None /\ file[Current] = None
               /\ \A f \in Entries : f < Current => file[f] # None
    <2>1. Current \in Pending /\ \A f \in Pending : Current <= f
      BY <1>0, <1>a, FirstPending DEF MemoryAhead
    <2>2. accepted = file
      BY <1>0, <1>a DEF MemoryAhead
    <2>3. Current \in Int /\ \A f \in Entries : f \in Int
      BY <2>1 DEF Pending, Entries
    <2> QED
      BY <2>1, <2>2, <2>3 DEF Pending
  <1>1. TypeOK'
    BY <1>0, <1>a, NoneAssumption, CountsAssumption DEF Interrupt, TypeOK, State, Terminal, Outstanding
  <1>2. InOrder'
    BY <1>0, <1>a, NoneAssumption, CountsAssumption DEF Interrupt, InOrder, Sent, TypeOK, KnownTrue, MemoryAhead, Terminal
  <1>3. KnownTrue'
    BY <1>0, <1>a, NoneAssumption, CountsAssumption DEF Interrupt, KnownTrue, TypeOK, State, Terminal, MemoryAhead
  <1>4. MemoryAhead'
    BY <1>0, <1>a, NoneAssumption, CountsAssumption DEF Interrupt, MemoryAhead, TypeOK, KnownTrue, Terminal, State, Pending, Room, Outstanding
  <1>5. ExposedBounded'
    <2>1. CASE pc = "wait"
      <3>1. Exposed' \subseteq Exposed \cup {Current}
        BY <1>0, <1>a, <2>1 DEF Interrupt, Exposed, Sent, TypeOK
      <3> QED
        BY <2>1, <3>1, RoomForCurrent
    <2>2. CASE pc # "wait"
      <3>1. Exposed' \subseteq Exposed
        BY <1>0, <2>2 DEF Interrupt, Exposed, Sent
      <3> QED
        BY <3>1, ExposedFewer DEF ReingestionInv
    <2> QED
      BY <2>1, <2>2
  <1> QED
    BY <1>1, <1>2, <1>3, <1>4, <1>5 DEF ReingestionInv

\* A late request is for an entry already counted; a document never becomes new again.
LEMMA ServiceStep ==
    ASSUME ReingestionInv, NEW e \in Entries,
           AdmitLate(e) \/ Bar(e) \/ Unbar(e) \/ Settle(e) \/ Delete(e)
    PROVE  ReingestionInv'
  <1>0. TypeOK /\ InOrder /\ KnownTrue /\ MemoryAhead
    BY DEF ReingestionInv
  <1>1. TypeOK'
    BY <1>0, NoneAssumption, CountsAssumption DEF AdmitLate, Refuses, Bar, Unbar, Settle, Delete, TypeOK, State, Terminal, Outstanding
  <1>2. InOrder'
    BY <1>0, NoneAssumption, CountsAssumption DEF AdmitLate, Refuses, Bar, Unbar, Settle, Delete, InOrder, Sent, TypeOK, KnownTrue, MemoryAhead, Terminal
  <1>3. KnownTrue'
    BY <1>0, NoneAssumption, CountsAssumption DEF AdmitLate, Refuses, Bar, Unbar, Settle, Delete, KnownTrue, TypeOK, State, Terminal, MemoryAhead
  <1>4. MemoryAhead'
    BY <1>0, NoneAssumption, CountsAssumption DEF AdmitLate, Refuses, Bar, Unbar, Settle, Delete, MemoryAhead, TypeOK, KnownTrue, Terminal, State, Pending, Room, Outstanding
  <1>5. ExposedBounded'
    <2>1. Exposed' \subseteq Exposed
      BY <1>0, NoneAssumption DEF AdmitLate, Refuses, Bar, Unbar, Settle, Delete, Exposed, Sent, KnownTrue, MemoryAhead, InOrder, TypeOK, Terminal, State
    <2> QED
      BY <2>1, ExposedFewer DEF ReingestionInv
  <1> QED
    BY <1>1, <1>2, <1>3, <1>4, <1>5 DEF ReingestionInv

\* Every step keeps the invariant.
LEMMA ReingestionNext == ASSUME ReingestionInv, [Next]_vars PROVE ReingestionInv'
  <1>1. CASE UNCHANGED vars
    BY <1>1 DEF vars, ReingestionInv, TypeOK, InOrder, Sent, KnownTrue, MemoryAhead, Pending, Room,
        Outstanding, ExposedBounded, Exposed
  <1>2. CASE Client
    BY <1>2, StartStep, PollStep, SaveStep, RoundStep, AdmitStep DEF Client
  <1>3. CASE Interrupt
    BY <1>3, InterruptStep
  <1>4. CASE \E e \in Entries : AdmitLate(e) \/ Bar(e) \/ Unbar(e) \/ Settle(e) \/ Delete(e)
    BY <1>4, ServiceStep
  <1> QED
    BY <1>1, <1>2, <1>3, <1>4 DEF Next

\* The invariant holds throughout.
LEMMA ReingestionInvariant == Spec => []ReingestionInv
  BY ReingestionInit, ReingestionNext, PTL DEF Spec

-----------------------------------------------------------------------------
\* At most one acceptance is unknown to the state file (save_state after every upload):
\* of two, the later one was sent after the earlier one was recorded.
THEOREM UnknownIsOne == Spec => []OneUnknown
  <1>1. ASSUME ReingestionInv PROVE OneUnknown
    <2> DEFINE U == {e \in Entries : doc[e] # None /\ file[e] = None}
    <2>1. ASSUME NEW e \in U, NEW f \in U PROVE e = f
      <3>1. e \in Int /\ f \in Int
        BY DEF Entries
      <3>2. ~(e < f) /\ ~(f < e)
        BY <1>1 DEF ReingestionInv, InOrder, Sent
      <3> QED
        BY <3>1, <3>2
    <2>2. CASE U = {}
      BY <2>2, FS_EmptySet DEF OneUnknown
    <2>3. CASE U # {}
      <3>1. PICK e : U = {e}
        BY <2>1, <2>3
      <3>2. Cardinality(U) = 1
        BY <3>1, FS_Singleton
      <3> QED
        BY <3>2 DEF OneUnknown
    <2> QED
      BY <2>2, <2>3
  <1> QED
    BY <1>1, ReingestionInvariant, PTL

\* The documents of a manifest in progress stay within max_outstanding, the ones whose
\* acceptance was lost or delayed included (apply_manifest): they are all exposed.
THEOREM OutstandingWithinLimit == Spec => []OutstandingBounded
  <1>1. ASSUME ReingestionInv PROVE OutstandingBounded
    <2> DEFINE O == {e \in Entries : doc[e] = "OPEN"}
    <2>1. O \subseteq Exposed
      BY <1>1, NoneAssumption DEF ReingestionInv, KnownTrue, Exposed, Sent
    <2>2. O \in SUBSET Entries /\ Exposed \in SUBSET Entries
      BY DEF Exposed
    <2>3. /\ Cardinality(O) <= Cardinality(Exposed)
          /\ Cardinality(O) \in Nat /\ Cardinality(Exposed) \in Nat
      BY <2>1, <2>2, EntriesFinite
    <2> HIDE DEF O
    <2>4. Cardinality(O) <= MaxOutstanding
      BY <1>1, <2>3, CountsAssumption DEF ReingestionInv, ExposedBounded
    <2> QED
      BY <2>4 DEF OutstandingBounded, O
  <1> QED
    BY <1>1, ReingestionInvariant, PTL
=============================================================================
