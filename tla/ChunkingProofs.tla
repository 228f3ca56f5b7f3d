--------------------------- MODULE ChunkingProofs ---------------------------
(***************************************************************************)
(* The four invariants of Chunking, for every document and every limit.    *)
(*                                                                         *)
(* The texts are folds, so the lemmas about them go by induction on a      *)
(* number: Induct derives it from the well-foundedness of <, as a fact     *)
(* about a set of numbers.  FlattenSeq, Text, Cut and SplitTable are then  *)
(* characterised once each: the words they hold, and their order.          *)
(*                                                                         *)
(* The inductive invariants, each resting on the ones before it:           *)
(*   Fit       the document, the blocks and the open parts are in place,   *)
(*             and packing begins after the last line;                     *)
(*   Finished  a chunk is FinishChunk of such parts;                       *)
(*   Fresh     what a chunk repeats is an end of the chunk before it, and  *)
(*             an open chunk that is only a repetition has a source;       *)
(*   Whole     chunks, parts and blocks together say every line up to the  *)
(*             index, in order where nothing repeats, plain text once;     *)
(*   InPlace   blocks come in the order of their pages and headings.       *)
(***************************************************************************)
EXTENDS Chunking, SequenceTheorems, FiniteSetTheorems, WellFoundedInduction, TLAPS

-----------------------------------------------------------------------------
(* Induction, and what FlattenSeq computes. *)

\* A set of numbers that holds zero and every successor holds all numbers.
LEMMA Induct ==
    ASSUME NEW P \in SUBSET Nat, 0 \in P, \A n \in P : n + 1 \in P
    PROVE  P = Nat
  <1> SUFFICES ASSUME Nat \ P # {} PROVE FALSE
    OBVIOUS
  <1>1. \E x \in Nat \ P : \A y \in Nat \ P : <<y, x>> \notin OpToRel(<, Nat)
    BY NatLessThanWellFounded, WFMin
  <1>2. PICK x \in Nat \ P : \A y \in Nat \ P : <<y, x>> \notin OpToRel(<, Nat)
    BY <1>1
  <1>3. x - 1 \in Nat /\ x - 1 \in P
    <2>1. x # 0 /\ x - 1 \in Nat /\ x - 1 < x
      OBVIOUS
    <2>2. <<x - 1, x>> \in OpToRel(<, Nat)
      BY <2>1 DEF OpToRel
    <2> QED
      BY <1>2, <2>1, <2>2
  <1>4. (x - 1) + 1 \in P
    BY <1>3
  <1> QED
    BY <1>3, <1>4

\* The first n texts, joined one by one.
Joins(seqs, n, f) ==
    f = [i \in 1 .. n |-> IF i = 1 THEN seqs[i] ELSE f[i - 1] \o seqs[i]]

\* The joins, place by place.
LEMMA JoinsAt ==
    ASSUME NEW seqs, NEW n \in Nat, NEW f, Joins(seqs, n, f), NEW i \in 1 .. n
    PROVE  f[i] = IF i = 1 THEN seqs[i] ELSE f[i - 1] \o seqs[i]
  <1> DEFINE g == [k \in 1 .. n |-> IF k = 1 THEN seqs[k] ELSE f[k - 1] \o seqs[k]]
  <1>1. f = g
    BY DEF Joins
  <1>2. g[i] = IF i = 1 THEN seqs[i] ELSE f[i - 1] \o seqs[i]
    OBVIOUS
  <1> HIDE DEF g
  <1> QED
    BY <1>1, <1>2

\* The recursion of FlattenSeq has a solution.
LEMMA JoinsExist ==
    ASSUME NEW seqs, NEW m \in Nat
    PROVE  \E f : Joins(seqs, m, f)
  <1> DEFINE P == {n \in Nat : \E f : Joins(seqs, n, f)}
  <1>1. 0 \in P
    <2> DEFINE f == [i \in 1 .. 0 |-> IF i = 1 THEN seqs[i] ELSE <<>>]
    <2>1. Joins(seqs, 0, f)
      BY DEF Joins
    <2> QED
      BY <2>1
  <1>2. ASSUME NEW n \in P PROVE n + 1 \in P
    <2>0. n \in Nat
      OBVIOUS
    <2>1. PICK f : Joins(seqs, n, f)
      OBVIOUS
    <2> DEFINE g == [i \in 1 .. n + 1 |-> IF i = 1 THEN seqs[i] ELSE f[i - 1] \o seqs[i]]
    <2>2. \A i \in 1 .. n : g[i] = f[i]
      <3> TAKE i \in 1 .. n
      <3>1. f[i] = IF i = 1 THEN seqs[i] ELSE f[i - 1] \o seqs[i]
        BY <2>0, <2>1, JoinsAt
      <3>2. i \in 1 .. n + 1
        BY <2>0
      <3>3. g[i] = IF i = 1 THEN seqs[i] ELSE f[i - 1] \o seqs[i]
        BY <3>2
      <3> QED
        BY <3>1, <3>3
    <2>3. g = [i \in 1 .. n + 1 |-> IF i = 1 THEN seqs[i] ELSE g[i - 1] \o seqs[i]]
      <3>1. \A i \in 1 .. n + 1 : i # 1 => i - 1 \in 1 .. n
        BY <2>0
      <3>2. \A i \in 1 .. n + 1 : i # 1 => g[i - 1] = f[i - 1]
        BY <2>2, <3>1
      <3> QED
        BY <3>2
    <2>4. Joins(seqs, n + 1, g)
      BY <2>3 DEF Joins
    <2> HIDE DEF g
    <2>5. \E x : Joins(seqs, n + 1, x)
      BY <2>4
    <2> QED
      BY <2>0, <2>5
  <1>3. P = Nat
    <2>1. P \in SUBSET Nat
      OBVIOUS
    <2> HIDE DEF P
    <2> QED
      BY <1>1, <1>2, <2>1, Induct
  <1> QED
    BY <1>3

\* FlattenSeq is the last of the joins.
LEMMA FlattenJoins ==
    ASSUME NEW S, NEW seqs \in Seq(Seq(S)), seqs # <<>>
    PROVE  \E f : Joins(seqs, Len(seqs), f) /\ FlattenSeq(seqs) = f[Len(seqs)]
  <1> DEFINE f == CHOOSE f : f = [i \in 1 .. Len(seqs) |-> IF i = 1 THEN seqs[i] ELSE f[i - 1] \o seqs[i]]
  <1>1. Joins(seqs, Len(seqs), f)
    <2>0. Len(seqs) \in Nat
      BY LenProperties
    <2>1. \E g : Joins(seqs, Len(seqs), g)
      BY <2>0, JoinsExist
    <2> QED
      BY <2>1 DEF Joins
  <1>2. Len(seqs) # 0
    OBVIOUS
  <1>3. FlattenSeq(seqs) = f[Len(seqs)]
    BY <1>2 DEF FlattenSeq
  <1> QED
    BY <1>1, <1>3

\* Joins of two sequences that agree up to n agree up to n.
LEMMA JoinsAgree ==
    ASSUME NEW s, NEW t, NEW m \in Nat, NEW n \in Nat, NEW f, NEW g, m <= n,
           Joins(s, m, f), Joins(t, n, g), \A i \in 1 .. m : s[i] = t[i]
    PROVE  \A i \in 1 .. m : f[i] = g[i]
  <1> DEFINE P == {i \in Nat : i \in 1 .. m => f[i] = g[i]}
  <1>1. 0 \in P
    OBVIOUS
  <1>2. ASSUME NEW i \in P PROVE i + 1 \in P
    <2> SUFFICES ASSUME i + 1 \in 1 .. m PROVE f[i + 1] = g[i + 1]
      OBVIOUS
    <2>0. i \in Nat /\ i + 1 \in 1 .. n /\ (i + 1) - 1 = i
      OBVIOUS
    <2>1. f[i + 1] = IF i + 1 = 1 THEN s[i + 1] ELSE f[(i + 1) - 1] \o s[i + 1]
      BY JoinsAt
    <2>2. g[i + 1] = IF i + 1 = 1 THEN t[i + 1] ELSE g[(i + 1) - 1] \o t[i + 1]
      BY <2>0, JoinsAt
    <2>3. CASE i = 0
      BY <2>1, <2>2, <2>3
    <2>4. CASE i # 0
      <3>1. f[i] = g[i]
        BY <2>0, <2>4
      <3> QED
        BY <2>0, <2>1, <2>2, <2>4, <3>1
    <2> QED
      BY <2>3, <2>4
  <1>3. P = Nat
    <2>1. P \in SUBSET Nat
      OBVIOUS
    <2> HIDE DEF P
    <2> QED
      BY <1>1, <1>2, <2>1, Induct
  <1> QED
    BY <1>3

\* The joins of sequences over a set are sequences over it.
LEMMA JoinsTyped ==
    ASSUME NEW S, NEW s \in Seq(Seq(S)), NEW f, Joins(s, Len(s), f)
    PROVE  \A i \in 1 .. Len(s) : f[i] \in Seq(S)
  <1> DEFINE P == {i \in Nat : i \in 1 .. Len(s) => f[i] \in Seq(S)}
  <1>1. 0 \in P
    OBVIOUS
  <1>2. ASSUME NEW i \in P PROVE i + 1 \in P
    <2> SUFFICES ASSUME i + 1 \in 1 .. Len(s) PROVE f[i + 1] \in Seq(S)
      OBVIOUS
    <2>0. i \in Nat /\ (i + 1) - 1 = i /\ Len(s) \in Nat
      OBVIOUS
    <2>4. s[i + 1] \in Seq(S)
      BY ElementOfSeq
    <2>1. f[i + 1] = IF i + 1 = 1 THEN s[i + 1] ELSE f[(i + 1) - 1] \o s[i + 1]
      BY <2>0, JoinsAt
    <2>2. CASE i = 0
      <3>1. f[i + 1] = s[i + 1]
        BY <2>1, <2>2
      <3> QED
        BY <2>4, <3>1
    <2>3. CASE i # 0
      <3>1. f[i] \in Seq(S)
        BY <2>0, <2>3
      <3>4. i + 1 # 1
        BY <2>0, <2>3
      <3>2. f[i + 1] = f[i] \o s[i + 1]
        BY <2>0, <2>1, <3>4
      <3>3. f[i] \o s[i + 1] \in Seq(S)
        BY <2>4, <3>1, ConcatProperties
      <3> QED
        BY <3>2, <3>3
    <2> QED
      BY <2>2, <2>3
  <1>3. P = Nat
    <2>1. P \in SUBSET Nat
      OBVIOUS
    <2> HIDE DEF P
    <2> QED
      BY <1>1, <1>2, <2>1, Induct
  <1> QED
    BY <1>3

\* No texts make the empty text.
LEMMA FlattenEmpty == FlattenSeq(<<>>) = <<>>
  BY DEF FlattenSeq

\* Sequences over a set are joined to a sequence over it.
LEMMA FlattenTyped ==
    ASSUME NEW S, NEW s \in Seq(Seq(S))
    PROVE  FlattenSeq(s) \in Seq(S)
  <1>1. CASE s = <<>>
    BY <1>1, FlattenEmpty, EmptySeq
  <1>2. CASE s # <<>>
    <2>1. PICK f : Joins(s, Len(s), f) /\ FlattenSeq(s) = f[Len(s)]
      BY <1>2, FlattenJoins
    <2>2. Len(s) \in 1 .. Len(s)
      BY <1>2
    <2> QED
      BY <2>1, <2>2, JoinsTyped
  <1> QED
    BY <1>1, <1>2

\* One more text comes after the others.
LEMMA FlattenAppend ==
    ASSUME NEW S, NEW s \in Seq(Seq(S)), NEW t \in Seq(S)
    PROVE  FlattenSeq(Append(s, t)) = FlattenSeq(s) \o t
  <1> DEFINE a == Append(s, t)
             n == Len(s)
  <1>1. a \in Seq(Seq(S)) /\ a # <<>> /\ Len(a) = n + 1 /\ a[n + 1] = t /\ n \in Nat
        /\ \A i \in 1 .. n : a[i] = s[i]
    BY AppendProperties, LenProperties
  <1> HIDE DEF a
  <1>2. PICK g : Joins(a, n + 1, g) /\ FlattenSeq(a) = g[n + 1]
    BY <1>1, FlattenJoins
  <1>3. g[n + 1] = IF n + 1 = 1 THEN t ELSE g[(n + 1) - 1] \o t
    BY <1>1, <1>2, JoinsAt
  <1>4. CASE s = <<>>
    <2>1. n = 0
      BY <1>4, EmptySeq
    <2>2. FlattenSeq(a) = t
      BY <1>2, <1>3, <2>1
    <2>3. FlattenSeq(s) \o t = t
      BY <1>4, FlattenEmpty, ConcatEmptySeq
    <2> QED
      BY <2>2, <2>3 DEF a
  <1>5. CASE s # <<>>
    <2>1. n \in Nat /\ n # 0 /\ (n + 1) - 1 = n
      BY <1>5, EmptySeq
    <2>2. PICK f : Joins(s, n, f) /\ FlattenSeq(s) = f[n]
      BY <1>5, FlattenJoins
    <2>3. f[n] = g[n]
      <3> HIDE DEF n
      <3>1. n + 1 \in Nat /\ n <= n + 1 /\ n \in 1 .. n
        BY <2>1
      <3>2. \A i \in 1 .. n : s[i] = a[i]
        BY <1>1
      <3>3. \A i \in 1 .. n : f[i] = g[i]
        <4>1. PICK k \in Nat, m \in Nat : k = n /\ m = n + 1
          BY <2>1, <3>1
        <4>2. k <= m /\ Joins(s, k, f) /\ Joins(a, m, g) /\ \A i \in 1 .. k : s[i] = a[i]
          BY <1>2, <2>2, <3>1, <3>2, <4>1
        <4>3. \A i \in 1 .. k : f[i] = g[i]
          BY ONLY <4>2, JoinsAgree
        <4> QED
          BY <4>1, <4>3
      <3> QED
        BY <3>1, <3>3
    <2>4. n + 1 # 1
      BY <2>1
    <2>5. FlattenSeq(a) = g[n] \o t
      BY <1>2, <1>3, <2>1, <2>4
    <2> QED
      BY <2>2, <2>3, <2>5 DEF a
  <1> QED
    BY <1>4, <1>5
\* A sequence with one more element, place by place.
LEMMA AppendPlaces ==
    ASSUME NEW S, NEW s \in Seq(S), NEW e \in S
    PROVE  /\ Append(s, e) \in Seq(S) /\ Append(s, e) # <<>>
           /\ Len(s) \in Nat /\ DOMAIN s = 1 .. Len(s)
           /\ Len(Append(s, e)) = Len(s) + 1 /\ DOMAIN Append(s, e) = 1 .. Len(s) + 1
           /\ Append(s, e)[Len(s) + 1] = e
           /\ \A k \in 1 .. Len(s) : Append(s, e)[k] = s[k]
  BY AppendProperties, LenProperties

\* Sequences over S after one another, however they are grouped.
AssociativeOn(S) == \A a, b, c \in Seq(S) : (a \o b) \o c = a \o (b \o c)

\* Putting sequences after one another is associative.
LEMMA ConcatRegroups ==
    ASSUME NEW S
    PROVE  AssociativeOn(S)
  <1> SUFFICES ASSUME NEW a \in Seq(S), NEW b \in Seq(S), NEW c \in Seq(S)
               PROVE  (a \o b) \o c = a \o (b \o c)
    BY DEF AssociativeOn
  <1> QED
    BY ConcatAssociative

\* Texts joined, then texts joined, are all of them joined.
LEMMA FlattenConcat ==
    ASSUME NEW S
    PROVE  \A s, u \in Seq(Seq(S)) : FlattenSeq(s \o u) = FlattenSeq(s) \o FlattenSeq(u)
  <1>0. /\ \A a, b, c \in Seq(S) : (a \o b) \o c = a \o (b \o c)
        /\ \A a, b, c \in Seq(Seq(S)) : (a \o b) \o c = a \o (b \o c)
    <2>1. AssociativeOn(S) /\ AssociativeOn(Seq(S))
      BY ONLY ConcatRegroups
    <2> QED
      BY ONLY <2>1 DEF AssociativeOn
  <1> TAKE s, u \in Seq(Seq(S))
  <1> DEFINE P == {n \in Nat : \A t \in Seq(Seq(S)) : Len(t) = n =>
                                FlattenSeq(s \o t) = FlattenSeq(s) \o FlattenSeq(t)}
  <1>1. 0 \in P
    <2> SUFFICES ASSUME NEW t \in Seq(Seq(S)), Len(t) = 0
                 PROVE  FlattenSeq(s \o t) = FlattenSeq(s) \o FlattenSeq(t)
      OBVIOUS
    <2>1. t = <<>>
      BY EmptySeq
    <2>2. s \o t = s /\ FlattenSeq(t) = <<>> /\ FlattenSeq(s) \in Seq(S)
      BY <2>1, ConcatEmptySeq, FlattenEmpty, FlattenTyped
    <2> QED
      BY <2>2, ConcatEmptySeq
  <1>2. ASSUME NEW n \in P PROVE n + 1 \in P
    <2> SUFFICES ASSUME NEW t \in Seq(Seq(S)), Len(t) = n + 1
                 PROVE  FlattenSeq(s \o t) = FlattenSeq(s) \o FlattenSeq(t)
      OBVIOUS
    <2>0. n \in Nat
      OBVIOUS
    <2>1. t # <<>>
      BY <2>0, EmptySeq
    <2>2. PICK v \in Seq(Seq(S)), e \in Seq(S) : t = Append(v, e)
      BY <2>1, SequenceEmptyOrAppend
    <2>3. Len(v) = n
      BY <2>0, <2>2, AppendProperties, LenProperties
    <2>4. FlattenSeq(s \o v) = FlattenSeq(s) \o FlattenSeq(v)
      BY <2>3
    <2>5. s \o t = Append(s \o v, e) /\ s \o v \in Seq(Seq(S))
      <3>1. t = v \o <<e>> /\ <<e>> \in Seq(Seq(S)) /\ s \o v \in Seq(Seq(S))
        BY <2>2, AppendIsConcat, ConcatProperties
      <3>2. s \o t = (s \o v) \o <<e>>
        <4>1. PICK d \in Seq(Seq(S)) : d = <<e>>
          BY <3>1
        <4>2. (s \o v) \o d = s \o (v \o d)
          BY ONLY <1>0
        <4> QED
          BY <3>1, <4>1, <4>2
      <3> QED
        BY <3>1, <3>2, AppendIsConcat
    <2>6. FlattenSeq(s \o t) = (FlattenSeq(s) \o FlattenSeq(v)) \o e
      <3>1. PICK x \in Seq(Seq(S)) : x = s \o v
        BY <2>5
      <3>2. FlattenSeq(Append(x, e)) = FlattenSeq(x) \o e
        BY FlattenAppend
      <3> QED
        BY <2>4, <2>5, <3>1, <3>2
    <2>7. FlattenSeq(t) = FlattenSeq(v) \o e
      BY <2>2, FlattenAppend
    <2>8. FlattenSeq(s) \in Seq(S) /\ FlattenSeq(v) \in Seq(S)
      BY FlattenTyped
    <2>9. (FlattenSeq(s) \o FlattenSeq(v)) \o e = FlattenSeq(s) \o (FlattenSeq(v) \o e)
      <3>1. PICK x \in Seq(S) : x = FlattenSeq(s)
        BY <2>8
      <3>2. PICK y \in Seq(S) : y = FlattenSeq(v)
        BY <2>8
      <3>3. (x \o y) \o e = x \o (y \o e)
        BY ONLY <1>0, Zenon
      <3> QED
        BY <3>1, <3>2, <3>3
    <2> QED
      BY <2>6, <2>7, <2>9
  <1>3. P = Nat
    <2>1. P \in SUBSET Nat
      OBVIOUS
    <2> HIDE DEF P
    <2> QED
      BY <1>1, <1>2, <2>1, Induct
  <1> QED
    BY <1>3, LenProperties

\* One text is itself.
LEMMA FlattenOne ==
    ASSUME NEW S, NEW t \in Seq(S)
    PROVE  FlattenSeq(<<t>>) = t
  <1>1. <<>> \in Seq(Seq(S)) /\ Append(<<>>, t) = <<t>>
    BY EmptySeq
  <1>2. FlattenSeq(<<t>>) = FlattenSeq(<<>>) \o t
    BY <1>1, FlattenAppend
  <1> QED
    BY <1>2, FlattenEmpty, ConcatEmptySeq

\* The first text comes before the others.
LEMMA FlattenFirst ==
    ASSUME NEW S, NEW s \in Seq(Seq(S)), s # <<>>
    PROVE  FlattenSeq(s) = Head(s) \o FlattenSeq(Tail(s))
  <1>1. Head(s) \in Seq(S) /\ Tail(s) \in Seq(Seq(S)) /\ <<Head(s)>> \in Seq(Seq(S))
    BY HeadTailProperties
  <1>2. s = <<Head(s)>> \o Tail(s)
    <2> DEFINE r == <<Head(s)>> \o Tail(s)
    <2>1. r \in Seq(Seq(S)) /\ Len(r) = 1 + Len(Tail(s))
      BY <1>1, ConcatProperties
    <2>2. Len(s) \in Nat \ {0} /\ Len(Tail(s)) = Len(s) - 1 /\ Len(r) = Len(s)
      BY <2>1, EmptySeq, HeadTailProperties
    <2>3. ASSUME NEW i \in 1 .. Len(s) PROVE r[i] = s[i]
      <3>1. r[i] = IF i <= 1 THEN <<Head(s)>>[i] ELSE Tail(s)[i - 1]
        BY <1>1, <2>2, ConcatProperties
      <3>2. CASE i = 1
        BY <3>1, <3>2
      <3>3. CASE i # 1
        <4>1. i - 1 \in 1 .. Len(Tail(s)) /\ (i - 1) + 1 = i /\ ~(i <= 1)
          BY <2>2, <3>3
        <4>2. Tail(s)[i - 1] = s[i]
          BY <4>1, HeadTailProperties
        <4> QED
          BY <3>1, <4>1, <4>2
      <3> QED
        BY <3>2, <3>3
    <2> HIDE DEF r
    <2>4. r = s
      BY <2>1, <2>2, <2>3, SeqEqual
    <2> QED
      BY <2>4 DEF r
  <1>3. FlattenSeq(s) = FlattenSeq(<<Head(s)>>) \o FlattenSeq(Tail(s))
    BY <1>1, <1>2, FlattenConcat
  <1> QED
    BY <1>1, <1>3, FlattenOne

\* What a text is made of.
LEMMA WordsConcat ==
    ASSUME NEW S, NEW s \in Seq(S), NEW t \in Seq(S)
    PROVE  ToSet(s \o t) = ToSet(s) \cup ToSet(t)
  <1>1. \A x \in Seq(S) : ToSet(x) = Range(x)
    BY DEF ToSet, Range
  <1>2. s \o t \in Seq(S)
    BY ConcatProperties
  <1>3. ToSet(s \o t) = Range(s \o t) /\ ToSet(s) = Range(s) /\ ToSet(t) = Range(t)
    BY <1>1, <1>2
  <1> QED
    BY <1>3, RangeConcatenation

-----------------------------------------------------------------------------
(* Lines and texts. *)

Word == Nat \X Nat

\* Concatenation is associative, as a fact about all texts.
LEMMA Associative == \A a, b, c \in Seq(Word) : (a \o b) \o c = a \o (b \o c)
  <1> SUFFICES ASSUME NEW a \in Seq(Word), NEW b \in Seq(Word), NEW c \in Seq(Word)
               PROVE  (a \o b) \o c = a \o (b \o c)
    OBVIOUS
  <1> QED
    BY ConcatAssociative

\* Four texts after one another, however they are grouped.
Regrouped(w, p, h, t) ==
    /\ (w \o (p \o h)) \o t = (w \o p) \o (h \o t)
    /\ ((w \o p) \o h) \o t = (w \o p) \o (h \o t)

\* Putting texts after one another is associative.
LEMMA RegroupFour ==
    ASSUME NEW w \in Seq(Word), NEW p \in Seq(Word), NEW h \in Seq(Word), NEW t \in Seq(Word)
    PROVE  Regrouped(w, p, h, t)
  <1>1. w \o p \in Seq(Word)
    BY ConcatProperties
  <1>2. w \o (p \o h) = (w \o p) \o h
    BY ONLY Associative
  <1>3. ((w \o p) \o h) \o t = (w \o p) \o (h \o t)
    <2>1. PICK v \in Seq(Word) : v = w \o p
      BY <1>1
    <2>2. (v \o h) \o t = v \o (h \o t)
      BY ONLY Associative
    <2> QED
      BY <2>1, <2>2
  <1> QED
    BY <1>2, <1>3 DEF Regrouped

Line == [page : Nat, kind : {l.kind : l \in LineSet}, size : Nat]

\* A document is lines in the order of their pages, and some line has text.
DocFits ==
    /\ doc \in Seq(Line)
    /\ \A i \in DOMAIN doc : doc[i].size = 0 <=> Blank(i)
    /\ \A i, j \in DOMAIN doc : i <= j => doc[i].page <= doc[j].page
    /\ \E i \in DOMAIN doc : ~Blank(i)

\* The wordpieces of lines i .. j.
Words(i, j) == {w \in Word : w[1] \in i .. j /\ w[2] \in 1 .. doc[w[1]].size}

\* One more text, place by place.
LEMMA AppendTexts ==
    ASSUME NEW s \in Seq(Seq(Word)), NEW e \in Seq(Word)
    PROVE  /\ Append(s, e) \in Seq(Seq(Word)) /\ Append(s, e) # <<>>
           /\ Len(s) \in Nat /\ DOMAIN s = 1 .. Len(s)
           /\ Len(Append(s, e)) = Len(s) + 1 /\ DOMAIN Append(s, e) = 1 .. Len(s) + 1
           /\ Append(s, e)[Len(s) + 1] = e
           /\ \A k \in 1 .. Len(s) : Append(s, e)[k] = s[k]
  <1> DEFINE T == Seq(Word)
  <1>1. s \in Seq(T) /\ e \in T
    OBVIOUS
  <1> HIDE DEF T
  <1>2. /\ Append(s, e) \in Seq(T) /\ Append(s, e) # <<>>
        /\ Len(s) \in Nat /\ DOMAIN s = 1 .. Len(s)
        /\ Len(Append(s, e)) = Len(s) + 1 /\ DOMAIN Append(s, e) = 1 .. Len(s) + 1
        /\ Append(s, e)[Len(s) + 1] = e
        /\ \A k \in 1 .. Len(s) : Append(s, e)[k] = s[k]
    BY <1>1, AppendPlaces
  <1> QED
    BY <1>2 DEF T

\* What every proof reads off DocFits.
LEMMA DocTyped ==
    ASSUME DocFits
    PROVE  /\ Len(doc) \in Nat /\ Len(doc) > 0 /\ DOMAIN doc = 1 .. Len(doc)
           /\ \A i \in 1 .. Len(doc) : doc[i].size \in Nat /\ doc[i].page \in Nat
  <1>1. Len(doc) \in Nat /\ DOMAIN doc = 1 .. Len(doc)
    BY LenProperties DEF DocFits
  <1>2. ASSUME NEW i \in 1 .. Len(doc) PROVE doc[i].size \in Nat /\ doc[i].page \in Nat
    <2>1. doc[i] \in Line
      BY ElementOfSeq DEF DocFits
    <2> QED
      BY <2>1 DEF Line
  <1>3. Len(doc) > 0
    BY <1>1 DEF DocFits
  <1> QED
    BY <1>1, <1>2, <1>3

\* The text of a line is its wordpieces, numbered.
LEMMA LineTyped ==
    ASSUME DocFits, NEW i \in 1 .. Len(doc)
    PROVE  /\ LineText(i) \in Seq(Word) /\ Len(LineText(i)) = doc[i].size
           /\ \A k \in 1 .. doc[i].size : LineText(i)[k] = <<i, k>>
           /\ ToSet(LineText(i)) = Words(i, i)
           /\ ~Blank(i) => LineText(i) # <<>>
  <1>1. doc[i].size \in Nat /\ i \in Nat
    BY DocTyped
  <1> DEFINE n == doc[i].size
             f == [k \in 1 .. n |-> <<i, k>>]
  <1>2. f \in [1 .. n -> Word]
    BY <1>1 DEF Word
  <1>3. f \in Seq(Word) /\ Len(f) = n /\ DOMAIN f = 1 .. n
    BY <1>1, <1>2
  <1>4. ToSet(f) = Words(i, i)
    <2>1. ASSUME NEW k \in 1 .. n PROVE f[k] \in Words(i, i)
      <3>1. f[k] = <<i, k>> /\ k \in Nat /\ i \in i .. i
        BY <1>1
      <3>2. <<i, k>> \in Words(i, i)
        BY <1>1, <3>1 DEF Words, Word
      <3> QED
        BY <3>1, <3>2
    <2>3. \A w \in ToSet(f) : w \in Words(i, i)
      BY <1>3, <2>1 DEF ToSet
    <2>2. ASSUME NEW w \in Words(i, i) PROVE w \in ToSet(f)
      <3>1. w \in Nat \X Nat /\ w[1] \in i .. i /\ w[2] \in 1 .. doc[w[1]].size
        BY DEF Words, Word
      <3>2. w[1] = i /\ w[2] \in 1 .. n /\ w = <<w[1], w[2]>>
        BY <1>1, <3>1
      <3>3. f[w[2]] = w
        BY <3>2
      <3> QED
        BY <1>3, <3>2, <3>3 DEF ToSet
    <2> QED
      BY <2>2, <2>3
  <1>5. ~Blank(i) => n # 0
    BY DocTyped DEF DocFits
  <1> HIDE DEF n
  <1>6. \A k \in 1 .. n : f[k] = <<i, k>>
    OBVIOUS
  <1>7. LineText(i) = f
    BY DEF LineText, n
  <1>8. ~Blank(i) => f # <<>>
    BY <1>3, <1>5
  <1> HIDE DEF f
  <1> QED
    BY <1>3, <1>4, <1>6, <1>7, <1>8 DEF n

\* A text grows by its lines.
LEMMA TextLast ==
    ASSUME DocFits, NEW i \in 1 .. Len(doc), NEW j \in i .. Len(doc),
           Text(i, j - 1) \in Seq(Word)
    PROVE  Text(i, j) = Text(i, j - 1) \o LineText(j)
  <1> DEFINE Lines(m) == [k \in 1 .. m - i + 1 |-> LineText(i + k - 1)]
  <1>0. i \in Nat /\ j \in Nat /\ Len(doc) \in Nat /\ (j - 1) - i + 1 = j - i /\ i <= j
    BY DocTyped
  <1>1. ASSUME NEW m \in i - 1 .. Len(doc)
        PROVE  Lines(m) \in Seq(Seq(Word)) /\ Len(Lines(m)) = m - i + 1
    <2>1. \A k \in 1 .. m - i + 1 : i + k - 1 \in 1 .. Len(doc)
      BY <1>0
    <2>2. \A k \in 1 .. m - i + 1 : LineText(i + k - 1) \in Seq(Word)
      BY <2>1, LineTyped
    <2>3. m - i + 1 \in Nat
      BY <1>0
    <2>4. Lines(m) \in [1 .. m - i + 1 -> Seq(Word)]
      BY <2>2
    <2> HIDE DEF Lines
    <2> QED
      BY <2>3, <2>4
  <1>2. Lines(j - 1) \in Seq(Seq(Word)) /\ Len(Lines(j - 1)) = j - i
        /\ Lines(j) \in Seq(Seq(Word)) /\ Len(Lines(j)) = j - i + 1
    <2>1. j - 1 \in i - 1 .. Len(doc) /\ j \in i - 1 .. Len(doc)
      BY <1>0
    <2> HIDE DEF Lines
    <2>2. Lines(j - 1) \in Seq(Seq(Word)) /\ Len(Lines(j - 1)) = (j - 1) - i + 1
      BY <1>1, <2>1
    <2>3. Lines(j) \in Seq(Seq(Word)) /\ Len(Lines(j)) = j - i + 1
      BY <1>1, <2>1
    <2> QED
      BY <1>0, <2>2, <2>3
  <1>3. LineText(j) \in Seq(Word)
    BY <1>0, LineTyped
  <1>4. Lines(j) = Append(Lines(j - 1), LineText(j))
    <2> DEFINE a == Append(Lines(j - 1), LineText(j))
    <2>1. a \in Seq(Seq(Word)) /\ Len(a) = j - i + 1 /\ a[j - i + 1] = LineText(j)
          /\ \A k \in 1 .. j - i : a[k] = Lines(j - 1)[k]
      <3> HIDE DEF Lines
      <3>1. PICK s \in Seq(Seq(Word)) : s = Lines(j - 1)
        BY <1>2
      <3>2. PICK e \in Seq(Word) : e = LineText(j)
        BY <1>3
      <3>3. /\ Append(s, e) \in Seq(Seq(Word)) /\ Len(Append(s, e)) = Len(s) + 1
            /\ Append(s, e)[Len(s) + 1] = e
            /\ \A k \in 1 .. Len(s) : Append(s, e)[k] = s[k]
        BY ONLY AppendTexts
      <3>4. Len(s) = j - i /\ a = Append(s, e)
        BY <1>2, <3>1, <3>2
      <3> HIDE DEF a
      <3> QED
        BY <3>1, <3>2, <3>3, <3>4
    <2>2. ASSUME NEW k \in 1 .. j - i + 1 PROVE Lines(j)[k] = a[k]
      <3>1. CASE k = j - i + 1
        <4>1. Lines(j)[k] = LineText(i + k - 1) /\ i + k - 1 = j
          BY <1>0, <3>1
        <4> HIDE DEF a, Lines
        <4> QED
          BY <2>1, <3>1, <4>1
      <3>2. CASE k # j - i + 1
        <4>1. k \in 1 .. j - i /\ k \in 1 .. (j - 1) - i + 1
          BY <1>0, <3>2
        <4>2. Lines(j)[k] = LineText(i + k - 1) /\ Lines(j - 1)[k] = LineText(i + k - 1)
          BY <4>1
        <4> HIDE DEF a, Lines
        <4> QED
          BY <2>1, <4>1, <4>2
      <3> QED
        BY <3>1, <3>2
    <2> HIDE DEF a, Lines
    <2>3. Lines(j) = a
      BY <1>2, <2>1, <2>2, SeqEqual
    <2> QED
      BY <2>3 DEF a
  <1>5. Text(i, j) = FlattenSeq(Lines(j)) /\ Text(i, j - 1) = FlattenSeq(Lines(j - 1))
    BY DEF Text
  <1> HIDE DEF Lines
  <1> QED
    BY <1>2, <1>3, <1>4, <1>5, FlattenAppend

\* No lines have no text.
LEMMA TextNone ==
    ASSUME NEW i \in Nat
    PROVE  Text(i, i - 1) = <<>>
  <1>1. (i - 1) - i + 1 = 0
    OBVIOUS
  <1>2. [k \in 1 .. 0 |-> LineText(i + k - 1)] = <<>>
    OBVIOUS
  <1> QED
    BY <1>1, <1>2, FlattenEmpty DEF Text

\* The text of lines i .. j, with what it is made of, line by line.
LEMMA TextTyped ==
    ASSUME DocFits, NEW i \in 1 .. Len(doc), NEW j \in i - 1 .. Len(doc)
    PROVE  Text(i, j) \in Seq(Word) /\ ToSet(Text(i, j)) = Words(i, j)
  <1> DEFINE Fine(m) == Text(i, m) \in Seq(Word) /\ ToSet(Text(i, m)) = Words(i, m)
             P == {n \in Nat : i - 1 + n <= Len(doc) => Fine(i - 1 + n)}
  <1>0. i \in Nat /\ i > 0 /\ Len(doc) \in Nat /\ i <= Len(doc)
    BY DocTyped
  <1>1. 0 \in P
    <2>1. i - 1 + 0 = i - 1
      BY <1>0
    <2>2. Text(i, i - 1) = <<>>
      BY <1>0, TextNone
    <2>3. ToSet(<<>>) = {}
      BY DEF ToSet
    <2>4. Words(i, i - 1) = {}
      BY <1>0 DEF Words
    <2>5. Fine(i - 1)
      BY <2>2, <2>3, <2>4, EmptySeq
    <2> HIDE DEF Fine
    <2> QED
      BY <2>1, <2>5
  <1>2. ASSUME NEW n \in P PROVE n + 1 \in P
    <2>0. n \in Nat
      OBVIOUS
    <2> DEFINE m == i + n
    <2>1. i - 1 + (n + 1) = m /\ i - 1 + n = m - 1 /\ m \in Nat
      BY <1>0, <2>0
    <2> SUFFICES ASSUME m <= Len(doc) PROVE Fine(m)
      BY <2>0, <2>1
    <2>2. m \in i .. Len(doc) /\ m \in 1 .. Len(doc) /\ m - 1 <= Len(doc)
      BY <1>0, <2>0
    <2>3. Fine(m - 1)
      <3> HIDE DEF Fine, m
      <3> QED
        BY <2>0, <2>1, <2>2
    <2> HIDE DEF m
    <2>4. Text(i, m) = Text(i, m - 1) \o LineText(m)
      BY <2>2, <2>3, TextLast
    <2>5. LineText(m) \in Seq(Word) /\ ToSet(LineText(m)) = Words(m, m)
      BY <2>2, LineTyped
    <2>6. Words(i, m) = Words(i, m - 1) \cup Words(m, m)
      <3>1. \A x : x \in i .. m <=> x \in i .. m - 1 \/ x \in m .. m
        BY <1>0, <2>2
      <3> QED
        BY <3>1 DEF Words
    <2>7. Text(i, m) \in Seq(Word)
      BY <2>3, <2>4, <2>5, ConcatProperties
    <2>8. ToSet(Text(i, m)) = Words(i, m)
      BY <2>3, <2>4, <2>5, <2>6, WordsConcat
    <2> QED
      BY <2>7, <2>8
  <1>3. P = Nat
    <2>1. P \in SUBSET Nat
      OBVIOUS
    <2> HIDE DEF P
    <2> QED
      BY <1>1, <1>2, <2>1, Induct
  <1>4. j - (i - 1) \in Nat /\ i - 1 + (j - (i - 1)) = j /\ j <= Len(doc)
    BY <1>0
  <1> HIDE DEF Fine
  <1>5. Fine(j)
    BY <1>3, <1>4
  <1> QED
    BY <1>5 DEF Fine

\* The first line of a text comes before the others.
LEMMA TextFirst ==
    ASSUME DocFits, NEW i \in 1 .. Len(doc), NEW j \in i .. Len(doc)
    PROVE  Text(i, j) = LineText(i) \o Text(i + 1, j)
  <1> DEFINE Fine(m) == Text(i, m) = LineText(i) \o Text(i + 1, m)
             P == {n \in Nat : i + n <= Len(doc) => Fine(i + n)}
  <1>0. i \in Nat /\ i > 0 /\ Len(doc) \in Nat /\ i <= Len(doc)
    BY DocTyped
  <1>1. LineText(i) \in Seq(Word)
    BY LineTyped
  <1>2. 0 \in P
    <2>1. i + 0 = i /\ (i + 1) - 1 = i /\ i + 1 \in Nat
      BY <1>0
    <2>2. Text(i, i - 1) = <<>> /\ Text(i + 1, (i + 1) - 1) = <<>>
      BY <1>0, <2>1, TextNone
    <2>3. Text(i, i) = Text(i, i - 1) \o LineText(i)
      <3>1. Text(i, i - 1) \in Seq(Word) /\ i \in i .. Len(doc)
        <4>1. <<>> \in Seq(Word)
          BY EmptySeq
        <4>2. i \in i .. Len(doc)
          BY <1>0
        <4> QED
          BY <2>2, <4>1, <4>2
      <3> QED
        BY <3>1, TextLast
    <2>4. Fine(i)
      BY <1>1, <2>1, <2>2, <2>3, ConcatEmptySeq
    <2> HIDE DEF Fine
    <2> QED
      BY <2>1, <2>4
  <1>3. ASSUME NEW n \in P PROVE n + 1 \in P
    <2>0. n \in Nat
      OBVIOUS
    <2> DEFINE m == i + n + 1
    <2>1. i + (n + 1) = m /\ i + n = m - 1 /\ m \in Nat
      BY <1>0, <2>0
    <2> SUFFICES ASSUME m <= Len(doc) PROVE Fine(m)
      BY <2>0, <2>1
    <2>2. /\ m \in i .. Len(doc) /\ m \in 1 .. Len(doc) /\ m \in i + 1 .. Len(doc)
          /\ m - 1 <= Len(doc) /\ m - 1 \in i - 1 .. Len(doc)
          /\ i + 1 \in 1 .. Len(doc) /\ m - 1 \in (i + 1) - 1 .. Len(doc)
      BY <1>0, <2>0
    <2>3. Fine(m - 1)
      <3> HIDE DEF Fine, m
      <3> QED
        BY <2>0, <2>1, <2>2
    <2> HIDE DEF m
    <2>4. Text(i, m - 1) \in Seq(Word) /\ Text(i + 1, m - 1) \in Seq(Word)
      BY <2>2, TextTyped
    <2>5. LineText(m) \in Seq(Word)
      BY <2>2, LineTyped
    <2>6. Text(i, m) = Text(i, m - 1) \o LineText(m)
      BY <2>2, <2>4, TextLast
    <2>7. Text(i + 1, m) = Text(i + 1, m - 1) \o LineText(m)
      BY <2>2, <2>4, TextLast
    <2>8. (LineText(i) \o Text(i + 1, m - 1)) \o LineText(m)
            = LineText(i) \o (Text(i + 1, m - 1) \o LineText(m))
      BY <1>1, <2>4, <2>5, Associative
    <2> QED
      BY <2>3, <2>6, <2>7, <2>8
  <1>4. P = Nat
    <2>1. P \in SUBSET Nat
      OBVIOUS
    <2> HIDE DEF P
    <2> QED
      BY <1>2, <1>3, <2>1, Induct
  <1>5. j - i \in Nat /\ i + (j - i) = j /\ j <= Len(doc)
    BY <1>0
  <1> HIDE DEF Fine
  <1>6. Fine(j)
    BY <1>4, <1>5
  <1> QED
    BY <1>6 DEF Fine

-----------------------------------------------------------------------------
(* The order of wordpieces. *)

\* The wordpiece at place k of a text is there once more.
Twice(text, k) == \E m \in DOMAIN text : m # k /\ text[m] = text[k]

\* What is in a text once is in order.
Nearly(text) ==
    \A j, k \in DOMAIN text :
        j < k => Before(text[j], text[k]) \/ Twice(text, j) \/ Twice(text, k)

Ordered(text) == \A j, k \in DOMAIN text : j < k => Before(text[j], text[k])

\* The wordpieces of a text, by place.
LEMMA PlaceConcat ==
    ASSUME NEW S, NEW s \in Seq(S), NEW t \in Seq(S)
    PROVE  /\ DOMAIN (s \o t) = 1 .. Len(s) + Len(t)
           /\ Len(s) \in Nat /\ Len(t) \in Nat
           /\ DOMAIN s = 1 .. Len(s) /\ DOMAIN t = 1 .. Len(t)
           /\ \A k \in 1 .. Len(s) : (s \o t)[k] = s[k]
           /\ \A k \in 1 .. Len(t) : (s \o t)[Len(s) + k] = t[k]
  <1>1. Len(s) \in Nat /\ Len(t) \in Nat /\ DOMAIN s = 1 .. Len(s) /\ DOMAIN t = 1 .. Len(t)
    BY LenProperties
  <1>2. DOMAIN (s \o t) = 1 .. Len(s) + Len(t)
    BY ConcatProperties, LenProperties
  <1>3. \A i \in 1 .. Len(s) + Len(t) :
            (s \o t)[i] = IF i <= Len(s) THEN s[i] ELSE t[i - Len(s)]
    BY ConcatProperties
  <1>4. ASSUME NEW k \in 1 .. Len(s) PROVE (s \o t)[k] = s[k]
    <2>1. k \in 1 .. Len(s) + Len(t) /\ k <= Len(s)
      BY <1>1
    <2> QED
      BY <1>3, <2>1
  <1>5. ASSUME NEW k \in 1 .. Len(t) PROVE (s \o t)[Len(s) + k] = t[k]
    <2>1. Len(s) + k \in 1 .. Len(s) + Len(t) /\ ~(Len(s) + k <= Len(s)) /\ Len(s) + k - Len(s) = k
      BY <1>1
    <2> QED
      BY <1>3, <2>1
  <1> QED
    BY <1>1, <1>2, <1>4, <1>5

\* Two texts in order make one in order, but for what is in both.
LEMMA NearlyConcat ==
    ASSUME NEW s \in Seq(Word), NEW t \in Seq(Word), Nearly(s), Nearly(t),
           \A w \in ToSet(s), x \in ToSet(t) :
                Before(w, x) \/ x \in ToSet(s) \/ w \in ToSet(t)
    PROVE  Nearly(s \o t)
  <1> DEFINE r == s \o t
             m == Len(s)
             n == Len(t)
  <1>1. /\ DOMAIN r = 1 .. m + n /\ m \in Nat /\ n \in Nat
        /\ DOMAIN s = 1 .. m /\ DOMAIN t = 1 .. n
        /\ \A k \in 1 .. m : r[k] = s[k]
        /\ \A k \in 1 .. n : r[m + k] = t[k]
    BY PlaceConcat
  <1> HIDE DEF r, m, n
  <1>2. ASSUME NEW k \in 1 .. m, Twice(s, k) PROVE Twice(r, k)
    <2>1. PICK l \in 1 .. m : l # k /\ s[l] = s[k]
      BY <1>1, <1>2 DEF Twice
    <2>2. l \in DOMAIN r /\ r[l] = r[k]
      BY <1>1, <2>1
    <2> QED
      BY <2>1, <2>2 DEF Twice
  <1>3. ASSUME NEW k \in 1 .. n, Twice(t, k) PROVE Twice(r, m + k)
    <2>1. PICK l \in 1 .. n : l # k /\ t[l] = t[k]
      BY <1>1, <1>3 DEF Twice
    <2>2. m + l \in DOMAIN r /\ r[m + l] = r[m + k] /\ m + l # m + k
      BY <1>1, <2>1
    <2> QED
      BY <2>2 DEF Twice
  <1>4. ASSUME NEW j \in DOMAIN r, NEW k \in DOMAIN r, j < k
        PROVE  Before(r[j], r[k]) \/ Twice(r, j) \/ Twice(r, k)
    <2>1. CASE k \in 1 .. m
      <3>1. j \in 1 .. m
        BY <1>1, <1>4, <2>1
      <3>2. Before(s[j], s[k]) \/ Twice(s, j) \/ Twice(s, k)
        BY <1>1, <1>4, <2>1, <3>1 DEF Nearly
      <3> QED
        BY <1>1, <1>2, <2>1, <3>1, <3>2
    <2>2. CASE j \notin 1 .. m
      <3>1. PICK a \in 1 .. n, b \in 1 .. n : j = m + a /\ k = m + b
        <4>2. j \in Nat /\ k \in Nat /\ j > m /\ k > m /\ j <= m + n /\ k <= m + n
          BY <1>1, <1>4, <2>2
        <4>1. j - m \in 1 .. n /\ k - m \in 1 .. n /\ j = m + (j - m) /\ k = m + (k - m)
          BY <1>1, <4>2
        <4> QED
          BY <4>1
      <3>2. a < b
        BY <1>1, <1>4, <3>1
      <3>3. Before(t[a], t[b]) \/ Twice(t, a) \/ Twice(t, b)
        BY <1>1, <3>2 DEF Nearly
      <3> QED
        BY <1>1, <1>3, <3>1, <3>3
    <2>3. CASE j \in 1 .. m /\ k \notin 1 .. m
      <3>1. PICK b \in 1 .. n : k = m + b
        <4>1. k - m \in 1 .. n /\ k = m + (k - m)
          BY <1>1, <2>3
        <4> QED
          BY <4>1
      <3>2. r[j] = s[j] /\ r[k] = t[b] /\ s[j] \in ToSet(s) /\ t[b] \in ToSet(t)
        BY <1>1, <2>3, <3>1 DEF ToSet
      <3>3. CASE t[b] \in ToSet(s)
        <4>1. PICK l \in 1 .. m : s[l] = t[b]
          BY <1>1, <3>3 DEF ToSet
        <4>2. l \in DOMAIN r /\ r[l] = r[k] /\ l # k
          BY <1>1, <2>3, <3>2, <4>1
        <4> QED
          BY <4>2 DEF Twice
      <3>4. CASE s[j] \in ToSet(t)
        <4>1. PICK l \in 1 .. n : t[l] = s[j]
          BY <1>1, <3>4 DEF ToSet
        <4>2. m + l \in DOMAIN r /\ r[m + l] = r[j] /\ m + l # j
          BY <1>1, <2>3, <3>2, <4>1
        <4> QED
          BY <4>2 DEF Twice
      <3> QED
        BY <3>2, <3>3, <3>4
    <2> QED
      BY <2>1, <2>2, <2>3
  <1> QED
    BY <1>4 DEF Nearly, r

\* Two texts in order, one before the other, make one in order.
LEMMA OrderedConcat ==
    ASSUME NEW s \in Seq(Word), NEW t \in Seq(Word), Ordered(s), Ordered(t),
           \A w \in ToSet(s), x \in ToSet(t) : Before(w, x)
    PROVE  Ordered(s \o t)
  <1> DEFINE r == s \o t
             m == Len(s)
             n == Len(t)
  <1>1. /\ DOMAIN r = 1 .. m + n /\ m \in Nat /\ n \in Nat
        /\ DOMAIN s = 1 .. m /\ DOMAIN t = 1 .. n
        /\ \A k \in 1 .. m : r[k] = s[k]
        /\ \A k \in 1 .. n : r[m + k] = t[k]
    BY PlaceConcat
  <1> HIDE DEF r, m, n
  <1>4. ASSUME NEW j \in DOMAIN r, NEW k \in DOMAIN r, j < k
        PROVE  Before(r[j], r[k])
    <2>1. CASE k \in 1 .. m
      <3>1. j \in 1 .. m
        BY <1>1, <1>4, <2>1
      <3> QED
        BY <1>1, <1>4, <2>1, <3>1 DEF Ordered
    <2>2. CASE j \notin 1 .. m
      <3>1. PICK a \in 1 .. n, b \in 1 .. n : j = m + a /\ k = m + b
        <4>2. j \in Nat /\ k \in Nat /\ j > m /\ k > m /\ j <= m + n /\ k <= m + n
          BY <1>1, <1>4, <2>2
        <4>1. j - m \in 1 .. n /\ k - m \in 1 .. n /\ j = m + (j - m) /\ k = m + (k - m)
          BY <1>1, <4>2
        <4> QED
          BY <4>1
      <3>2. a < b
        BY <1>1, <1>4, <3>1
      <3> QED
        BY <1>1, <3>1, <3>2 DEF Ordered
    <2>3. CASE j \in 1 .. m /\ k \notin 1 .. m
      <3>1. PICK b \in 1 .. n : k = m + b
        <4>1. k - m \in 1 .. n /\ k = m + (k - m)
          BY <1>1, <2>3
        <4> QED
          BY <4>1
      <3>2. r[j] = s[j] /\ r[k] = t[b] /\ s[j] \in ToSet(s) /\ t[b] \in ToSet(t)
        BY <1>1, <2>3, <3>1 DEF ToSet
      <3> QED
        BY <3>2
    <2> QED
      BY <2>1, <2>2, <2>3
  <1> QED
    BY <1>4 DEF Ordered, r

\* A text in order is nearly in order.
LEMMA OrderedNearly == ASSUME NEW s, Ordered(s) PROVE Nearly(s)
  BY DEF Ordered, Nearly

\* A line comes before the lines below it.
LEMMA WordsBefore ==
    ASSUME NEW i, NEW j \in Nat, NEW k \in Nat, NEW l, j < k,
           NEW w \in Words(i, j), NEW x \in Words(k, l)
    PROVE  Before(w, x)
  <1>1. w[1] \in Nat /\ x[1] \in Nat /\ w[1] \in i .. j /\ x[1] \in k .. l
    BY DEF Words, Word
  <1>2. w[1] <= j /\ k <= x[1]
    BY <1>1
  <1>3. w[1] < x[1]
    BY <1>1, <1>2
  <1> QED
    BY <1>3 DEF Before

\* The text of consecutive lines is in order.
LEMMA TextOrdered ==
    ASSUME DocFits, NEW i \in 1 .. Len(doc), NEW j \in i - 1 .. Len(doc)
    PROVE  Ordered(Text(i, j))
  <1> DEFINE Fine(m) == Ordered(Text(i, m))
             P == {n \in Nat : i - 1 + n <= Len(doc) => Fine(i - 1 + n)}
  <1>0. i \in Nat /\ i > 0 /\ Len(doc) \in Nat /\ i <= Len(doc)
    BY DocTyped
  <1>1. 0 \in P
    <2>1. i - 1 + 0 = i - 1
      BY <1>0
    <2>2. Text(i, i - 1) = <<>>
      BY <1>0, TextNone
    <2>3. Fine(i - 1)
      BY <2>2 DEF Ordered
    <2> HIDE DEF Fine
    <2> QED
      BY <2>1, <2>3
  <1>2. ASSUME NEW n \in P PROVE n + 1 \in P
    <2>0. n \in Nat
      OBVIOUS
    <2> DEFINE m == i + n
    <2>1. i - 1 + (n + 1) = m /\ i - 1 + n = m - 1 /\ m \in Nat
      BY <1>0, <2>0
    <2> SUFFICES ASSUME m <= Len(doc) PROVE Fine(m)
      BY <2>0, <2>1
    <2>2. m \in i .. Len(doc) /\ m \in 1 .. Len(doc) /\ m - 1 \in i - 1 .. Len(doc)
          /\ m - 1 \in Nat /\ m - 1 < m /\ m - 1 <= Len(doc)
      BY <1>0, <2>0
    <2>3. Fine(m - 1)
      <3> HIDE DEF Fine, m
      <3> QED
        BY <2>0, <2>1, <2>2
    <2> HIDE DEF m
    <2>4. Text(i, m - 1) \in Seq(Word) /\ ToSet(Text(i, m - 1)) = Words(i, m - 1)
      BY <2>2, TextTyped
    <2>5. /\ LineText(m) \in Seq(Word) /\ ToSet(LineText(m)) = Words(m, m)
          /\ \A k \in 1 .. doc[m].size : LineText(m)[k] = <<m, k>>
          /\ Len(LineText(m)) = doc[m].size
      BY <2>2, LineTyped
    <2>6. Text(i, m) = Text(i, m - 1) \o LineText(m)
      BY <2>2, <2>4, TextLast
    <2>7. Ordered(LineText(m))
      <3>1. DOMAIN LineText(m) = 1 .. doc[m].size
        BY <2>5, LenProperties
      <3>2. ASSUME NEW a \in 1 .. doc[m].size, NEW b \in 1 .. doc[m].size, a < b
            PROVE  Before(LineText(m)[a], LineText(m)[b])
        <4>1. LineText(m)[a] = <<m, a>> /\ LineText(m)[b] = <<m, b>>
          BY <2>5
        <4> QED
          BY <3>2, <4>1 DEF Before
      <3> QED
        BY <3>1, <3>2 DEF Ordered
    <2>8. \A w \in Words(i, m - 1), x \in Words(m, m) : Before(w, x)
      BY <2>1, <2>2, WordsBefore
    <2> QED
      BY <2>3, <2>4, <2>5, <2>6, <2>7, <2>8, OrderedConcat
  <1>3. P = Nat
    <2>1. P \in SUBSET Nat
      OBVIOUS
    <2> HIDE DEF P
    <2> QED
      BY <1>1, <1>2, <2>1, Induct
  <1>4. j - (i - 1) \in Nat /\ i - 1 + (j - (i - 1)) = j /\ j <= Len(doc)
    BY <1>0
  <1> HIDE DEF Fine
  <1>5. Fine(j)
    BY <1>3, <1>4
  <1> QED
    BY <1>5 DEF Fine

-----------------------------------------------------------------------------
(* Cutting. *)

\* The least of two numbers.
LEMMA MinOfTwo ==
    ASSUME NEW a \in Nat, NEW b \in Nat
    PROVE  Min({a, b}) = IF a <= b THEN a ELSE b
  <1> DEFINE m == IF a <= b THEN a ELSE b
  <1>1. m \in {a, b} /\ \A y \in {a, b} : m =< y
    OBVIOUS
  <1>2. \A x \in {a, b} : (\A y \in {a, b} : x =< y) => x = m
    OBVIOUS
  <1> HIDE DEF m
  <1>3. Min({a, b}) = m
    BY <1>1, <1>2 DEF Min
  <1> QED
    BY <1>3 DEF m

\* Products grow.
LEMMA Products ==
    ASSUME NEW n \in Nat, NEW a \in Nat, NEW b \in Nat, a <= b
    PROVE  a * n \in Nat /\ b * n \in Nat /\ a * n <= b * n /\ (a + 1) * n = a * n + n
  OBVIOUS

\* The number of pieces of n out of len.
LEMMA PieceCount ==
    ASSUME NEW n \in Nat \ {0}, NEW len \in Nat, NEW q, q = (len + n - 1) \div n
    PROVE  /\ q \in Nat /\ len <= q * n
           /\ q # 0 => (q - 1) * n < len
           /\ len # 0 => q # 0
  OBVIOUS

\* Piece k of a text cut at every n.
End(text, n, k) == IF k * n <= Len(text) THEN k * n ELSE Len(text)

\* Cut makes pieces of at most n and at least one wordpiece, that follow each
\* other without a gap (_largest_prefix, until nothing remains).
LEMMA CutPieces ==
    ASSUME NEW text \in Seq(Word), NEW n \in Nat \ {0}
    PROVE  LET q == Len(Cut(text, n)) IN
           /\ Cut(text, n) \in Seq(Seq(Word))
           /\ q \in Nat /\ (text # <<>> => q # 0) /\ End(text, n, q) = Len(text)
           /\ \A k \in 1 .. q :
                /\ Cut(text, n)[k] # <<>> /\ Len(Cut(text, n)[k]) <= n
                /\ End(text, n, k - 1) = (k - 1) * n
                /\ (k - 1) * n < End(text, n, k) /\ End(text, n, k) <= Len(text)
                /\ Cut(text, n)[k] = SubSeq(text, (k - 1) * n + 1, End(text, n, k))
  <1> DEFINE len  == Len(text)
             q    == (len + n - 1) \div n
             e(k) == End(text, n, k)
             c    == [k \in 1 .. q |-> SubSeq(text, (k - 1) * n + 1, e(k))]
  <1>0. len \in Nat /\ n \in Nat
    BY LenProperties
  <1>1. q \in Nat /\ len <= q * n /\ (q # 0 => (q - 1) * n < len) /\ (len # 0 => q # 0)
    <2> HIDE DEF len
    <2> QED
      BY <1>0, PieceCount
  <1> HIDE DEF q
  <1>2. ASSUME NEW k \in 1 .. q
        PROVE  /\ (k - 1) * n \in Nat /\ k * n \in Nat /\ k * n = (k - 1) * n + n
               /\ (k - 1) * n < len
    <2>1. k - 1 \in Nat /\ q - 1 \in Nat /\ k - 1 <= q - 1 /\ k = (k - 1) + 1 /\ q # 0 /\ k \in Nat
      BY <1>1
    <2>2. (k - 1) * n \in Nat /\ (q - 1) * n \in Nat /\ (k - 1) * n <= (q - 1) * n
      BY <1>0, <2>1, Products
    <2>3. ((k - 1) + 1) * n = (k - 1) * n + n
      BY <1>0, <2>1, Products
    <2> QED
      BY <1>0, <1>1, <2>1, <2>2, <2>3
  <1>3. ASSUME NEW k \in 1 .. q
        PROVE  /\ e(k) = Min({k * n, len}) /\ e(k) \in Nat
               /\ e(k - 1) = (k - 1) * n /\ (k - 1) * n < e(k) /\ e(k) <= len
               /\ e(k) - (k - 1) * n <= n
    <2>1. Min({k * n, len}) = IF k * n <= len THEN k * n ELSE len
      <3> HIDE DEF len
      <3> QED
        BY <1>0, <1>2, MinOfTwo
    <2>2. e(k) = (IF k * n <= len THEN k * n ELSE len)
      BY DEF End
    <2>3. e(k - 1) = (IF (k - 1) * n <= len THEN (k - 1) * n ELSE len)
      BY DEF End
    <2> HIDE DEF e, len
    <2>4. (k - 1) * n <= len /\ e(k - 1) = (k - 1) * n
      BY <1>0, <1>2, <2>3
    <2> QED
      BY <1>0, <1>2, <2>1, <2>2, <2>4
  <1>4. Cut(text, n) = c
    <2>1. \A k \in 1 .. q : e(k) = Min({k * n, Len(text)})
      BY <1>3
    <2> HIDE DEF e
    <2> QED
      BY <2>1 DEF Cut, q
  <1>5. ASSUME NEW k \in 1 .. q
        PROVE  /\ c[k] = SubSeq(text, (k - 1) * n + 1, e(k))
               /\ c[k] \in Seq(Word) /\ c[k] # <<>> /\ Len(c[k]) <= n
    <2> DEFINE a == (k - 1) * n
    <2>1. c[k] = SubSeq(text, a + 1, e(k))
      OBVIOUS
    <2>2. a \in Nat /\ e(k) \in Nat /\ a < e(k) /\ e(k) <= len /\ e(k) - a <= n
      BY <1>2, <1>3
    <2> HIDE DEF a, e, c
    <2>3. \A i \in a + 1 .. e(k) : text[i] \in Word
      <3>1. \A i \in a + 1 .. e(k) : i \in 1 .. Len(text)
        BY <1>0, <2>2
      <3> QED
        BY <3>1, ElementOfSeq
    <2>4. SubSeq(text, a + 1, e(k)) \in Seq(Word)
          /\ Len(SubSeq(text, a + 1, e(k))) = (IF a + 1 <= e(k) THEN e(k) - (a + 1) + 1 ELSE 0)
      <3>1. a + 1 \in Int /\ e(k) \in Int
        BY <2>2
      <3> QED
        BY <2>3, <3>1, SubSeqProperties
    <2>5. Len(c[k]) = e(k) - a
      BY <2>1, <2>2, <2>4
    <2>6. Len(c[k]) # 0 /\ Len(c[k]) <= n
      BY <2>2, <2>5
    <2>7. c[k] # <<>>
      BY <2>6, EmptySeq
    <2> QED
      BY <2>1, <2>4, <2>6, <2>7 DEF a
  <1>6. c \in Seq(Seq(Word)) /\ Len(c) = q
    <2>1. \A k \in 1 .. q : c[k] \in Seq(Word)
      BY <1>5
    <2>2. c = [k \in 1 .. q |-> c[k]]
      OBVIOUS
    <2> HIDE DEF c
    <2>3. c \in [1 .. q -> Seq(Word)]
      BY <2>1, <2>2
    <2> QED
      BY <1>1, <2>3
  <1>7. e(q) = len
    BY <1>0, <1>1 DEF End
  <1>8. text # <<>> => len # 0
    OBVIOUS
  <1> HIDE DEF c, e, len
  <1>9. /\ Cut(text, n) \in Seq(Seq(Word)) /\ Len(Cut(text, n)) = q
        /\ \A k \in 1 .. q : Cut(text, n)[k] = c[k]
    BY <1>4, <1>6
  <1>10. /\ (text # <<>> => q # 0) /\ End(text, n, q) = Len(text)
         /\ \A k \in 1 .. q :
                /\ Cut(text, n)[k] # <<>> /\ Len(Cut(text, n)[k]) <= n
                /\ End(text, n, k - 1) = (k - 1) * n
                /\ (k - 1) * n < End(text, n, k) /\ End(text, n, k) <= Len(text)
                /\ Cut(text, n)[k] = SubSeq(text, (k - 1) * n + 1, End(text, n, k))
    BY <1>1, <1>3, <1>5, <1>7, <1>8, <1>9 DEF e, len
  <1> QED
    BY <1>1, <1>9, <1>10

\* A stretch of a text.
LEMMA Stretch ==
    ASSUME NEW text \in Seq(Word), NEW a \in Nat, NEW b \in Nat, a <= b, b <= Len(text)
    PROVE  /\ SubSeq(text, a + 1, b) \in Seq(Word)
           /\ Len(SubSeq(text, a + 1, b)) = b - a
           /\ ToSet(SubSeq(text, a + 1, b)) = {text[p] : p \in a + 1 .. b}
           /\ Ordered(text) => Ordered(SubSeq(text, a + 1, b))
  <1> DEFINE s == SubSeq(text, a + 1, b)
  <1>0. Len(text) \in Nat /\ DOMAIN text = 1 .. Len(text)
    BY LenProperties
  <1>1. \A i \in a + 1 .. b : i \in 1 .. Len(text)
    BY <1>0
  <1>2. \A i \in a + 1 .. b : text[i] \in Word
    BY <1>1, ElementOfSeq
  <1>3. a + 1 \in Int /\ b \in Int
    OBVIOUS
  <1>4. /\ s \in Seq(Word) /\ Len(s) = (IF a + 1 <= b THEN b - (a + 1) + 1 ELSE 0)
        /\ \A i \in 1 .. b - (a + 1) + 1 : s[i] = text[(a + 1) + i - 1]
    BY <1>2, <1>3, SubSeqProperties
  <1>5. Len(s) = b - a /\ \A i \in 1 .. b - a : s[i] = text[a + i]
    <2> HIDE DEF s
    <2>1. Len(s) = b - a /\ b - (a + 1) + 1 = b - a
      BY <1>4
    <2>2. \A i \in 1 .. b - a : (a + 1) + i - 1 = a + i
      OBVIOUS
    <2> QED
      BY <1>4, <2>1, <2>2
  <1>6. DOMAIN s = 1 .. b - a
    BY <1>4, <1>5, LenProperties
  <1> HIDE DEF s
  <1>7. ToSet(s) = {text[p] : p \in a + 1 .. b}
    <2>1. \A i \in 1 .. b - a : a + i \in a + 1 .. b
      OBVIOUS
    <2>2. \A p \in a + 1 .. b : p - a \in 1 .. b - a /\ a + (p - a) = p
      OBVIOUS
    <2>3. \A x \in ToSet(s) : x \in {text[p] : p \in a + 1 .. b}
      BY <1>5, <1>6, <2>1 DEF ToSet
    <2>4. ASSUME NEW p \in a + 1 .. b PROVE text[p] \in ToSet(s)
      <3>1. p - a \in DOMAIN s /\ s[p - a] = text[p]
        BY <1>5, <1>6, <2>2
      <3> QED
        BY <3>1 DEF ToSet
    <2> QED
      BY <2>3, <2>4
  <1>8. ASSUME Ordered(text) PROVE Ordered(s)
    <2> SUFFICES ASSUME NEW j \in 1 .. b - a, NEW k \in 1 .. b - a, j < k
                 PROVE  Before(s[j], s[k])
      BY <1>6 DEF Ordered
    <2>1. s[j] = text[a + j] /\ s[k] = text[a + k]
      BY <1>5
    <2>2. a + j \in 1 .. Len(text) /\ a + k \in 1 .. Len(text) /\ a + j < a + k
      BY <1>0
    <2> QED
      BY <1>0, <1>8, <2>1, <2>2 DEF Ordered
  <1> QED
    BY <1>4, <1>5, <1>7, <1>8 DEF s

\* Every piece between the same two lines.
Wrap(a, c, z) == [k \in DOMAIN c |-> (a \o c[k]) \o z]

\* A text that is cut, each piece between a and z, is there whole, and in order but
\* for what is repeated (_split_prose, where a and z are empty, and _split_fence).
LEMMA WrapWhole ==
    ASSUME NEW a \in Seq(Word), NEW text \in Seq(Word), NEW z \in Seq(Word), NEW n \in Nat \ {0},
           text # <<>>, Ordered(a), Ordered(text), Ordered(z),
           \A w \in ToSet(a), x \in ToSet(text) \cup ToSet(z) : Before(w, x),
           \A w \in ToSet(text), x \in ToSet(z) : Before(w, x)
    PROVE  LET pieces == Wrap(a, Cut(text, n), z) IN
           /\ pieces \in Seq(Seq(Word)) /\ pieces # <<>>
           /\ \A k \in DOMAIN pieces :
                /\ pieces[k] # <<>> /\ Len(pieces[k]) <= Len(a) + n + Len(z)
                /\ ToSet(pieces[k]) \subseteq ToSet(a) \cup ToSet(text) \cup ToSet(z)
           /\ ToSet(FlattenSeq(pieces)) = ToSet(a) \cup ToSet(text) \cup ToSet(z)
           /\ Nearly(FlattenSeq(pieces))
           /\ ToSet(a) \cup ToSet(z) = {} => Ordered(FlattenSeq(pieces))
  <1> DEFINE c == Cut(text, n)
             q == Len(c)
             e(k) == End(text, n, k)
             u(k) == (a \o c[k]) \o z
             pieces == Wrap(a, c, z)
  <1>1. /\ c \in Seq(Seq(Word)) /\ q \in Nat /\ q # 0 /\ e(q) = Len(text)
        /\ \A k \in 1 .. q :
            /\ c[k] # <<>> /\ Len(c[k]) <= n
            /\ e(k - 1) = (k - 1) * n /\ (k - 1) * n < e(k) /\ e(k) <= Len(text)
            /\ c[k] = SubSeq(text, (k - 1) * n + 1, e(k))
    BY CutPieces
  <1>2. DOMAIN c = 1 .. q
    BY <1>1, LenProperties
  <1>3. pieces = [k \in 1 .. q |-> u(k)]
    BY <1>2 DEF Wrap
  <1> HIDE DEF c, q, pieces, e
  <1>0. Len(text) \in Nat /\ Len(a) \in Nat /\ Len(z) \in Nat /\ n \in Nat
        /\ DOMAIN text = 1 .. Len(text)
    BY LenProperties
  <1>4. ASSUME NEW k \in 1 .. q
        PROVE  /\ c[k] \in Seq(Word) /\ Ordered(c[k])
               /\ ToSet(c[k]) = {text[p] : p \in e(k - 1) + 1 .. e(k)}
               /\ e(k - 1) \in Nat /\ e(k) \in Nat /\ e(k - 1) < e(k) /\ e(k) <= Len(text)
    <2>6. e(k - 1) = (k - 1) * n /\ (k - 1) * n < e(k) /\ e(k) <= Len(text)
      BY <1>1
    <2>1. k - 1 \in Nat
      BY <1>1
    <2>2. (k - 1) * n \in Nat
      BY <1>0, <2>1, Products
    <2>3. e(k) \in Nat
      <3>1. k \in Nat /\ k * n \in Nat
        BY <1>0, <1>1, Products
      <3> QED
        BY <1>0, <3>1 DEF e, End
    <2> DEFINE b == e(k - 1)
               d == e(k)
    <2>4. b \in Nat /\ d \in Nat /\ b < d /\ b <= d /\ d <= Len(text)
      <3>1. b \in Nat /\ b < d
        BY <2>2, <2>6
      <3> HIDE DEF b, d
      <3> QED
        BY <2>3, <2>6, <3>1 DEF d
    <2>5. c[k] = SubSeq(text, b + 1, d)
      <3>1. c[k] = SubSeq(text, (k - 1) * n + 1, d)
        BY <1>1
      <3> QED
        BY <2>6, <3>1
    <2> HIDE DEF b, d
    <2>7. c[k] \in Seq(Word) /\ Ordered(c[k]) /\ ToSet(c[k]) = {text[p] : p \in b + 1 .. d}
      <3> DEFINE x == SubSeq(text, b + 1, d)
      <3>1. x \in Seq(Word) /\ ToSet(x) = {text[p] : p \in b + 1 .. d} /\ (Ordered(text) => Ordered(x))
        BY <2>4, Stretch
      <3> QED
        BY <2>5, <3>1
    <2> QED
      BY <2>4, <2>7 DEF b, d
  <1>5. ASSUME NEW k \in 1 .. q PROVE ToSet(c[k]) \subseteq ToSet(text)
    <2>1. \A p \in e(k - 1) + 1 .. e(k) : p \in 1 .. Len(text)
      BY <1>0, <1>4
    <2>2. \A p \in e(k - 1) + 1 .. e(k) : text[p] \in ToSet(text)
      BY <1>0, <2>1 DEF ToSet
    <2>3. ToSet(c[k]) = {text[p] : p \in e(k - 1) + 1 .. e(k)}
      BY <1>4
    <2> QED
      BY <2>2, <2>3
  <1>6. ASSUME NEW k \in 1 .. q
        PROVE  /\ u(k) \in Seq(Word) /\ Ordered(u(k)) /\ u(k) # <<>>
               /\ Len(u(k)) <= Len(a) + n + Len(z)
               /\ ToSet(u(k)) = ToSet(a) \cup ToSet(c[k]) \cup ToSet(z)
    <2>1. c[k] \in Seq(Word) /\ Ordered(c[k]) /\ Len(c[k]) \in Nat
      BY <1>4, LenProperties
    <2>2. a \o c[k] \in Seq(Word) /\ Len(a \o c[k]) = Len(a) + Len(c[k])
      BY <2>1, ConcatProperties
    <2>3. ToSet(a \o c[k]) = ToSet(a) \cup ToSet(c[k])
      BY <2>1, WordsConcat
    <2>4. Ordered(a \o c[k])
      BY <1>5, <2>1, OrderedConcat
    <2>5. u(k) \in Seq(Word) /\ Len(u(k)) = Len(a \o c[k]) + Len(z)
      BY <2>2, ConcatProperties
    <2>6. ToSet(u(k)) = ToSet(a) \cup ToSet(c[k]) \cup ToSet(z)
      <3> DEFINE b == a \o c[k]
      <3>2. b \in Seq(Word) /\ u(k) = b \o z
        BY <2>2
      <3> HIDE DEF b, u
      <3>3. ToSet(b \o z) = ToSet(b) \cup ToSet(z)
        BY <3>2, WordsConcat
      <3>1. ToSet(u(k)) = ToSet(a \o c[k]) \cup ToSet(z)
        BY <3>2, <3>3 DEF b
      <3> QED
        BY <2>3, <3>1
    <2>7. Ordered(u(k))
      BY <1>5, <2>2, <2>3, <2>4, OrderedConcat
    <2>8. Len(c[k]) # 0 /\ Len(c[k]) <= n
      BY <1>1, <2>1, EmptySeq
    <2> HIDE DEF u
    <2>9. Len(u(k)) <= Len(a) + n + Len(z) /\ Len(u(k)) # 0
      BY <1>0, <2>1, <2>2, <2>5, <2>8
    <2>10. u(k) # <<>>
      BY <2>9, EmptySeq
    <2> QED
      BY <2>5, <2>6, <2>7, <2>9, <2>10
  <1>7. pieces \in Seq(Seq(Word)) /\ Len(pieces) = q /\ pieces # <<>> /\ DOMAIN pieces = 1 .. q
        /\ \A k \in 1 .. q : pieces[k] = u(k)
    <2>1. pieces \in [1 .. q -> Seq(Word)]
      BY <1>3, <1>6
    <2>3. q \in Nat
      BY <1>1
    <2>2. pieces \in Seq(Seq(Word)) /\ Len(pieces) = q
      BY <2>1, <2>3
    <2> QED
      BY <1>1, <1>3, <2>2, EmptySeq
  <1> DEFINE F(m) == FlattenSeq(SubSeq(pieces, 1, m))
             Upto(m) == {text[p] : p \in 1 .. e(m)}
             Fine(m) == /\ F(m) \in Seq(Word) /\ Nearly(F(m))
                        /\ ToSet(F(m)) = ToSet(a) \cup Upto(m) \cup ToSet(z)
                        /\ ToSet(a) \cup ToSet(z) = {} => Ordered(F(m))
             P == {m \in Nat : m \in 1 .. q => Fine(m)}
  <1> HIDE DEF u
  <1>8. ASSUME NEW m \in 1 .. q
        PROVE  /\ SubSeq(pieces, 1, m) = SubSeq(pieces, 1, m - 1) \o <<u(m)>>
               /\ SubSeq(pieces, 1, m - 1) \in Seq(Seq(Word))
               /\ <<u(m)>> \in Seq(Seq(Word))
    <2>1. 1 \in 1 .. Len(pieces) /\ m \in 1 .. Len(pieces)
      BY <1>1, <1>7
    <2>2. SubSeq(pieces, 1, m) = SubSeq(pieces, 1, m - 1) \o <<pieces[m]>>
      BY <1>7, <2>1, SubSeqRecursiveSecond
    <2>3. \A i \in 1 .. m - 1 : pieces[i] \in Seq(Word)
      BY <1>1, <1>6, <1>7
    <2>4. SubSeq(pieces, 1, m - 1) \in Seq(Seq(Word))
      <3>1. 1 \in Int /\ m - 1 \in Int
        BY <1>1
      <3> QED
        BY <2>3, <3>1, SubSeqProperties
    <2> QED
      BY <1>6, <1>7, <2>2, <2>4
  <1>9. ASSUME NEW m \in 1 .. q PROVE F(m) = F(m - 1) \o u(m) /\ F(m - 1) \in Seq(Word)
    <2>1. F(m) = F(m - 1) \o FlattenSeq(<<u(m)>>)
      BY <1>8, FlattenConcat
    <2>2. FlattenSeq(<<u(m)>>) = u(m)
      BY <1>6, FlattenOne
    <2> QED
      BY <1>8, <2>1, <2>2, FlattenTyped
  <1>10. ASSUME NEW m \in P PROVE m + 1 \in P
    <2>0. m \in Nat
      OBVIOUS
    <2> SUFFICES ASSUME m + 1 \in 1 .. q PROVE Fine(m + 1)
      BY <2>0
    <2>1. (m + 1) - 1 = m
      BY <2>0
    <2>2. F(m + 1) = F(m) \o u(m + 1) /\ F(m) \in Seq(Word)
      <3> HIDE DEF F
      <3> QED
        BY <1>9, <2>1
    <2> DEFINE v == u(m + 1)
    <2>3. v \in Seq(Word) /\ Ordered(v) /\ ToSet(v) = ToSet(a) \cup ToSet(c[m + 1]) \cup ToSet(z)
      BY <1>6
    <2>4. ToSet(c[m + 1]) = {text[p] : p \in e(m) + 1 .. e(m + 1)}
          /\ e(m) \in Nat /\ e(m + 1) \in Nat /\ e(m) < e(m + 1) /\ e(m + 1) <= Len(text)
      BY <1>1, <1>4, <2>1
    <2>5. Upto(m + 1) = Upto(m) \cup ToSet(c[m + 1])
      <3>1. \A p : p \in 1 .. e(m + 1) <=> p \in 1 .. e(m) \/ p \in e(m) + 1 .. e(m + 1)
        BY <2>4
      <3> QED
        BY <2>4, <3>1
    <2> HIDE DEF F, v
    <2>6. CASE m = 0
      <3>1. F(m) = <<>>
        <4>1. SubSeq(pieces, 1, 0) = <<>>
          BY SubSeqEmpty
        <4> QED
          BY <2>6, <4>1, FlattenEmpty DEF F
      <3>2. F(m + 1) = v
        BY <2>2, <2>3, <3>1, ConcatEmptySeq DEF v
      <3>3. Upto(m) = {}
        <4>1. e((m + 1) - 1) = ((m + 1) - 1) * n
          BY <1>1
        <4>3. e(m) = m * n
          BY <2>1, <4>1
        <4>2. e(m) = 0
          BY <1>0, <2>6, <4>3
        <4> QED
          BY <4>2
      <3> HIDE DEF Upto
      <3> QED
        BY <2>3, <2>5, <3>2, <3>3, OrderedNearly
    <2>7. CASE m # 0
      <3>1. Fine(m)
        <4>1. m \in 1 .. q
          BY <1>1, <2>0, <2>7
        <4> QED
          BY <4>1
      <3>2. \A w \in Upto(m), x \in ToSet(c[m + 1]) : Before(w, x)
        <4> SUFFICES ASSUME NEW p \in 1 .. e(m), NEW r \in e(m) + 1 .. e(m + 1)
                     PROVE  Before(text[p], text[r])
          BY <2>4
        <4>1. p \in 1 .. Len(text) /\ r \in 1 .. Len(text) /\ p < r
          BY <1>0, <2>4
        <4> QED
          BY <1>0, <4>1 DEF Ordered
      <3> HIDE DEF Upto
      <3>3. \A w \in ToSet(F(m)), x \in ToSet(v) : Before(w, x) \/ x \in ToSet(F(m)) \/ w \in ToSet(v)
        BY <2>3, <3>1, <3>2
      <3>4. Nearly(F(m) \o v)
        BY <2>2, <2>3, <3>1, <3>3, NearlyConcat, OrderedNearly
      <3>5. F(m) \o v \in Seq(Word) /\ ToSet(F(m) \o v) = ToSet(F(m)) \cup ToSet(v)
        BY <2>2, <2>3, ConcatProperties, WordsConcat
      <3>6. ASSUME ToSet(a) \cup ToSet(z) = {} PROVE Ordered(F(m) \o v)
        <4>1. \A w \in ToSet(F(m)), x \in ToSet(v) : Before(w, x)
          BY <2>3, <3>1, <3>2, <3>6
        <4> QED
          BY <2>2, <2>3, <3>1, <3>6, <4>1, OrderedConcat
      <3> QED
        BY <2>2, <2>3, <2>5, <3>1, <3>4, <3>5, <3>6 DEF v
    <2> QED
      BY <2>6, <2>7
  <1>11. P = Nat
    <2>1. P \in SUBSET Nat /\ 0 \in P
      OBVIOUS
    <2> HIDE DEF P
    <2> QED
      BY <1>10, <2>1, Induct
  <1>12. Fine(q)
    <2>1. q \in 1 .. q
      BY <1>1
    <2> HIDE DEF Fine
    <2> QED
      BY <1>1, <1>11, <2>1
  <1>13. SubSeq(pieces, 1, q) = pieces
    BY <1>7, SubSeqFull
  <1>14. Upto(q) = ToSet(text)
    BY <1>0, <1>1 DEF ToSet
  <1> HIDE DEF Upto
  <1>15. /\ ToSet(FlattenSeq(pieces)) = ToSet(a) \cup ToSet(text) \cup ToSet(z)
         /\ Nearly(FlattenSeq(pieces))
         /\ ToSet(a) \cup ToSet(z) = {} => Ordered(FlattenSeq(pieces))
    BY <1>12, <1>13, <1>14
  <1>16. \A k \in DOMAIN pieces :
            /\ pieces[k] # <<>> /\ Len(pieces[k]) <= Len(a) + n + Len(z)
            /\ ToSet(pieces[k]) \subseteq ToSet(a) \cup ToSet(text) \cup ToSet(z)
    BY <1>5, <1>6, <1>7
  <1> QED
    BY <1>7, <1>15, <1>16 DEF pieces, c

-----------------------------------------------------------------------------
(* Splitting. *)

\* A piece of lines i .. j has text, and fits the model.
PieceFits(text, i, j) ==
    /\ text # <<>> /\ CountTokens(text) <= HardMaxTokens
    /\ ToSet(text) \subseteq Words(i, j)

Causes == {"table row", "table header", "unterminated fence", "fence wrapper"}

\* A split of lines i .. j: pieces that fit, and, unless it is refused, the whole of
\* the lines in order but for what is repeated.
SplitFits(split, i, j) ==
    /\ split \in [texts : Seq(Seq(Word)), refused : {"none"} \cup Causes]
    /\ \A k \in DOMAIN split.texts : PieceFits(split.texts[k], i, j)
    /\ split.refused = "none" =>
        /\ split.texts # <<>>
        /\ ToSet(FlattenSeq(split.texts)) = Words(i, j)
        /\ Nearly(FlattenSeq(split.texts))

\* A text with a line that is not blank is not empty.
LEMMA TextSome ==
    ASSUME DocFits, NEW i \in 1 .. Len(doc), NEW j \in i .. Len(doc), ~Blank(i)
    PROVE  Text(i, j) # <<>> /\ Text(i, j) \in Seq(Word) /\ ToSet(Text(i, j)) = Words(i, j)
           /\ <<i, 1>> \in Words(i, j)
  <1>0. i \in Nat /\ j \in Nat /\ doc[i].size \in Nat /\ j \in i - 1 .. Len(doc) /\ i \in i .. j
    BY DocTyped
  <1>1. Text(i, j) \in Seq(Word) /\ ToSet(Text(i, j)) = Words(i, j)
    BY <1>0, TextTyped
  <1>2. doc[i].size # 0
    BY DocTyped DEF DocFits
  <1>3. <<i, 1>> \in Words(i, j)
    <2>1. <<i, 1>> \in Word /\ <<i, 1>>[1] = i /\ <<i, 1>>[2] = 1 /\ 1 \in 1 .. doc[i].size
      BY <1>0, <1>2 DEF Word
    <2> QED
      BY <1>0, <2>1 DEF Words
  <1>4. ToSet(<<>>) = {}
    BY DEF ToSet
  <1> QED
    BY <1>1, <1>3, <1>4

\* More lines have more wordpieces.
LEMMA WordsGrow ==
    ASSUME NEW i \in Nat, NEW j \in Nat, NEW k \in Nat, j <= k
    PROVE  Words(i, j) \subseteq Words(i, k)
  <1>1. i .. j \subseteq i .. k
    OBVIOUS
  <1> QED
    BY <1>1 DEF Words

\* The rows that are added one by one.
Rows(i, j, f) ==
    f = [row \in i + 1 .. j |->
            IF row = i + 1 THEN [texts |-> <<Text(i, i + 1)>>, refused |-> "none"]
            ELSE AddRow(f[row - 1], Text(i, i + 1), row)]

\* The rows, one by one.
LEMMA RowsAt ==
    ASSUME NEW i \in Nat, NEW j \in Nat, NEW f, Rows(i, j, f), NEW row \in i + 1 .. j
    PROVE  f[row] = IF row = i + 1 THEN [texts |-> <<Text(i, i + 1)>>, refused |-> "none"]
                    ELSE AddRow(f[row - 1], Text(i, i + 1), row)
  <1> DEFINE first == [texts |-> <<Text(i, i + 1)>>, refused |-> "none"]
             g == [r \in i + 1 .. j |-> IF r = i + 1 THEN first
                                        ELSE AddRow(f[r - 1], Text(i, i + 1), r)]
  <1>1. f = g
    BY DEF Rows
  <1> HIDE DEF first
  <1>2. g[row] = IF row = i + 1 THEN first ELSE AddRow(f[row - 1], Text(i, i + 1), row)
    OBVIOUS
  <1> HIDE DEF g
  <1> QED
    BY <1>1, <1>2 DEF first

\* Every row but the first is added to the ones before it.
RowByRow(i, j, f) ==
    \A row \in i + 1 .. j : row # i + 1 => f[row] = AddRow(f[row - 1], Text(i, i + 1), row)

\* The rows are added one by one.
LEMMA RowsNext ==
    ASSUME NEW i \in Nat, NEW j \in Nat, NEW f, Rows(i, j, f)
    PROVE  RowByRow(i, j, f)
  <1> SUFFICES ASSUME NEW row \in i + 1 .. j, row # i + 1
               PROVE  f[row] = AddRow(f[row - 1], Text(i, i + 1), row)
    BY DEF RowByRow
  <1> QED
    BY RowsAt

\* The recursion over the rows has a solution.
LEMMA RowsExist ==
    ASSUME NEW i \in Nat, NEW j \in Nat, i <= j
    PROVE  \E f : Rows(i, j, f)
  <1> DEFINE first == [texts |-> <<Text(i, i + 1)>>, refused |-> "none"]
             header == Text(i, i + 1)
             P == {n \in Nat : \E f : Rows(i, i + n, f)}
  <1>1. 0 \in P
    <2> DEFINE f == [row \in i + 1 .. i |-> first]
    <2>1. i + 0 = i /\ i + 1 .. i = {}
      OBVIOUS
    <2>2. Rows(i, i, f)
      BY <2>1 DEF Rows
    <2> HIDE DEF f
    <2> QED
      BY <2>1, <2>2
  <1>2. ASSUME NEW n \in P PROVE n + 1 \in P
    <2>0. n \in Nat /\ i + n \in Nat /\ i + (n + 1) = (i + n) + 1
      OBVIOUS
    <2>1. PICK f : Rows(i, i + n, f)
      OBVIOUS
    <2> DEFINE m == i + n
               g == [row \in i + 1 .. m + 1 |-> IF row = i + 1 THEN first
                                                ELSE AddRow(f[row - 1], header, row)]
    <2>4. \A r \in i + 1 .. m + 1 : r # i + 1 => r - 1 \in i + 1 .. m
      BY <2>0
    <2>5. \A r \in i + 1 .. m : r \in i + 1 .. m + 1
      BY <2>0
    <2>6. m \in Nat /\ Rows(i, m, f)
      BY <2>0, <2>1
    <2> HIDE DEF m
    <2>2. ASSUME NEW r \in i + 1 .. m PROVE g[r] = f[r]
      <3>1. f[r] = IF r = i + 1 THEN first ELSE AddRow(f[r - 1], header, r)
        BY <2>6, RowsAt
      <3> HIDE DEF first, header
      <3>2. g[r] = IF r = i + 1 THEN first ELSE AddRow(f[r - 1], header, r)
        BY <2>5
      <3> QED
        BY <3>1, <3>2
    <2>3. g = [row \in i + 1 .. m + 1 |-> IF row = i + 1 THEN first
                                          ELSE AddRow(g[row - 1], header, row)]
      <3>1. \A r \in i + 1 .. m + 1 : r # i + 1 => g[r - 1] = f[r - 1]
        BY <2>2, <2>4
      <3> HIDE DEF first, header
      <3> QED
        BY <3>1
    <2> HIDE DEF g
    <2>7. Rows(i, m + 1, g)
      BY <2>3 DEF Rows, first, header
    <2>8. \E x : Rows(i, m + 1, x)
      BY <2>7
    <2> QED
      BY <2>0, <2>8 DEF m
  <1>3. P = Nat
    <2>1. P \in SUBSET Nat
      OBVIOUS
    <2> HIDE DEF P
    <2> QED
      BY <1>1, <1>2, <2>1, Induct
  <1>4. j - i \in Nat /\ i + (j - i) = j
    OBVIOUS
  <1> QED
    BY <1>3, <1>4

\* A table is split by adding its rows one by one.
LEMMA SplitTableRows ==
    ASSUME NEW i \in Nat, NEW j \in Nat, i <= j
    PROVE  \E f : /\ Rows(i, j, f)
                  /\ SplitTable(i, j) = IF CountTokens(Text(i, i + 1)) > HardMaxTokens
                                        THEN [texts |-> <<>>, refused |-> "table header"]
                                        ELSE f[j]
  <1> DEFINE f == CHOOSE f : f = [row \in i + 1 .. j |->
                    IF row = i + 1 THEN [texts |-> <<Text(i, i + 1)>>, refused |-> "none"]
                    ELSE AddRow(f[row - 1], Text(i, i + 1), row)]
  <1>1. Rows(i, j, f)
    <2>1. \E g : Rows(i, j, g)
      BY RowsExist
    <2> QED
      BY <2>1 DEF Rows
  <1>2. SplitTable(i, j) = IF CountTokens(Text(i, i + 1)) > HardMaxTokens
                           THEN [texts |-> <<>>, refused |-> "table header"]
                           ELSE f[j]
    BY DEF SplitTable
  <1> HIDE DEF f
  <1> QED
    BY <1>1, <1>2

\* Front and Last take a sequence apart.
LEMMA FrontLast ==
    ASSUME NEW S, NEW s \in Seq(S), NEW e \in S
    PROVE  Front(Append(s, e)) = s /\ Last(Append(s, e)) = e
  <1> DEFINE a == Append(s, e)
  <1>1. Len(a) = Len(s) + 1 /\ Len(s) \in Nat /\ a[Len(s) + 1] = e
        /\ \A k \in 1 .. Len(s) : a[k] = s[k]
    BY AppendProperties, LenProperties
  <1> HIDE DEF a
  <1>2. Last(a) = e
    BY <1>1 DEF Last
  <1>3. Front(a) = s
    <2>1. Front(a) = SubSeq(a, 1, Len(s))
      BY <1>1 DEF Front
    <2>2. \A k \in 1 .. Len(s) : a[k] \in S
      BY <1>1, ElementOfSeq
    <2>3. /\ SubSeq(a, 1, Len(s)) \in Seq(S)
          /\ Len(SubSeq(a, 1, Len(s))) = (IF 1 <= Len(s) THEN Len(s) - 1 + 1 ELSE 0)
          /\ \A k \in 1 .. Len(s) - 1 + 1 : SubSeq(a, 1, Len(s))[k] = a[1 + k - 1]
      <3>1. 1 \in Int /\ Len(s) \in Int
        BY <1>1
      <3> QED
        BY <2>2, <3>1, SubSeqProperties
    <2>4. Len(SubSeq(a, 1, Len(s))) = Len(s) /\ Len(s) - 1 + 1 = Len(s)
      BY <1>1, <2>3
    <2>5. \A k \in 1 .. Len(s) : SubSeq(a, 1, Len(s))[k] = s[k]
      <3>1. \A k \in 1 .. Len(s) : 1 + k - 1 = k
        OBVIOUS
      <3> QED
        BY <1>1, <2>3, <2>4, <3>1
    <2>6. SubSeq(a, 1, Len(s)) = s
      BY <2>3, <2>4, <2>5, SeqEqual
    <2> QED
      BY <2>1, <2>6
  <1> QED
    BY <1>2, <1>3 DEF a

\* The wordpieces of a line are in order.
LEMMA LineOrdered ==
    ASSUME DocFits, NEW i \in 1 .. Len(doc)
    PROVE  Ordered(LineText(i))
  <1>0. i \in Nat /\ Len(doc) \in Nat /\ i \in i .. Len(doc) /\ i \in i - 1 .. Len(doc)
    BY DocTyped
  <1>1. Text(i, i - 1) = <<>> /\ <<>> \in Seq(Word)
    BY <1>0, TextNone, EmptySeq
  <1>2. Text(i, i) = Text(i, i - 1) \o LineText(i)
    BY <1>0, <1>1, TextLast
  <1>3. LineText(i) \in Seq(Word)
    BY LineTyped
  <1>4. Text(i, i) = LineText(i)
    BY <1>1, <1>2, <1>3, ConcatEmptySeq
  <1>5. Ordered(Text(i, i))
    BY <1>0, TextOrdered
  <1> QED
    BY <1>4, <1>5

\* A piece of fewer lines is a piece of more lines.
LEMMA PieceGrows ==
    ASSUME NEW text, NEW i \in Nat, NEW j \in Nat, NEW k \in Nat, j <= k, PieceFits(text, i, j)
    PROVE  PieceFits(text, i, k)
  BY WordsGrow DEF PieceFits

\* One more row of a table keeps the split whole.
LEMMA RowAdded ==
    ASSUME DocFits, NEW i \in 1 .. Len(doc), NEW row \in i + 2 .. Len(doc), ~Blank(i),
           NEW done, SplitFits(done, i, row - 1), done.texts # <<>>
    PROVE  /\ SplitFits(AddRow(done, Text(i, i + 1), row), i, row)
           /\ AddRow(done, Text(i, i + 1), row).texts # <<>>
  <1> DEFINE h == Text(i, i + 1)
             l == LineText(row)
             next == AddRow(done, h, row)
  <1>0. /\ i \in Nat /\ row \in Nat /\ row - 1 \in Nat /\ Len(doc) \in Nat /\ row - 1 < row
        /\ i + 1 \in i .. Len(doc) /\ i + 1 \in Nat /\ i + 1 <= row - 1 /\ row \in 1 .. Len(doc)
        /\ i + 1 \in i - 1 .. Len(doc) /\ row - 1 <= row /\ i + 1 < row
    BY DocTyped
  <1>1. h # <<>> /\ h \in Seq(Word) /\ ToSet(h) = Words(i, i + 1) /\ Ordered(h)
    BY <1>0, TextSome, TextOrdered
  <1>2. l \in Seq(Word) /\ ToSet(l) = Words(row, row)
    BY <1>0, LineTyped
  <1>3. Ordered(l)
    BY <1>0, LineOrdered
  <1>4. Words(i, row) = Words(i, row - 1) \cup Words(row, row)
        /\ Words(i, i + 1) \subseteq Words(i, row - 1)
    <2>1. \A x : x \in i .. row <=> x \in i .. row - 1 \/ x \in row .. row
      BY <1>0
    <2> QED
      BY <1>0, <2>1, WordsGrow DEF Words
  <1>5. \A w \in Words(i, row - 1), x \in Words(row, row) : Before(w, x)
    BY <1>0, WordsBefore
  <1>6. /\ done \in [texts : Seq(Seq(Word)), refused : {"none"} \cup Causes]
        /\ done.texts \in Seq(Seq(Word)) /\ DOMAIN done.texts = 1 .. Len(done.texts)
        /\ Len(done.texts) \in Nat
        /\ \A k \in DOMAIN done.texts : PieceFits(done.texts[k], i, row - 1)
    BY LenProperties DEF SplitFits
  <1>7. \A k \in DOMAIN done.texts : PieceFits(done.texts[k], i, row)
    BY <1>0, <1>6, PieceGrows
  <1> HIDE DEF h, l
  <1>8. CASE done.refused # "none"
    <2>1. next = done
      BY <1>8 DEF AddRow
    <2> HIDE DEF next
    <2>2. SplitFits(next, i, row)
      BY <1>6, <1>7, <1>8, <2>1 DEF SplitFits
    <2> QED
      BY <2>1, <2>2 DEF next, h
  <1>9. CASE done.refused = "none"
    <2>0. ToSet(FlattenSeq(done.texts)) = Words(i, row - 1) /\ Nearly(FlattenSeq(done.texts))
          /\ FlattenSeq(done.texts) \in Seq(Word)
      BY <1>6, <1>9, FlattenTyped DEF SplitFits
    <2>1. PICK v \in Seq(Seq(Word)), e \in Seq(Word) : done.texts = Append(v, e)
      BY <1>6, SequenceEmptyOrAppend
    <2>2. Front(done.texts) = v /\ Last(done.texts) = e
      BY <2>1, FrontLast
    <2>3. e \o l \in Seq(Word) /\ h \o l \in Seq(Word)
          /\ ToSet(e \o l) = ToSet(e) \cup ToSet(l) /\ ToSet(h \o l) = ToSet(h) \cup ToSet(l)
      BY <1>1, <1>2, ConcatProperties, WordsConcat
    <2>4. Len(done.texts) = Len(v) + 1 /\ Len(v) \in Nat /\ done.texts[Len(v) + 1] = e
          /\ \A k \in 1 .. Len(v) : done.texts[k] = v[k]
      BY <2>1, AppendProperties, LenProperties
    <2>5. PieceFits(e, i, row) /\ \A k \in 1 .. Len(v) : PieceFits(v[k], i, row)
      <3>1. Len(v) + 1 \in DOMAIN done.texts /\ \A k \in 1 .. Len(v) : k \in DOMAIN done.texts
        BY <1>6, <2>4
      <3> QED
        BY <1>7, <2>4, <3>1
    <2>6. CASE CountTokens(e \o l) <= HardMaxTokens
      <3>1. next = [done EXCEPT !.texts = Append(v, e \o l)]
        BY <1>9, <2>2, <2>6 DEF AddRow, l
      <3> DEFINE a == Append(v, e \o l)
      <3>2. a \in Seq(Seq(Word)) /\ Len(a) = Len(v) + 1 /\ a[Len(v) + 1] = e \o l /\ a # <<>>
            /\ (\A k \in 1 .. Len(v) : a[k] = v[k]) /\ DOMAIN a = 1 .. Len(v) + 1
        <4> DEFINE b == e \o l
        <4>1. b \in Seq(Word) /\ a = Append(v, b)
          BY <2>3
        <4> HIDE DEF b, a
        <4>2. /\ Append(v, b) \in Seq(Seq(Word)) /\ Append(v, b) # <<>>
              /\ Len(Append(v, b)) = Len(v) + 1 /\ DOMAIN Append(v, b) = 1 .. Len(v) + 1
              /\ Append(v, b)[Len(v) + 1] = b
              /\ \A k \in 1 .. Len(v) : Append(v, b)[k] = v[k]
          BY <4>1, AppendTexts
        <4> QED
          BY <4>1, <4>2 DEF b
      <3>3. FlattenSeq(a) = FlattenSeq(done.texts) \o l
        <4>1. FlattenSeq(a) = FlattenSeq(v) \o (e \o l)
          BY <2>3, FlattenAppend
        <4>2. FlattenSeq(done.texts) = FlattenSeq(v) \o e
          BY <2>1, FlattenAppend
        <4>3. FlattenSeq(v) \in Seq(Word)
          BY FlattenTyped
        <4>4. (FlattenSeq(v) \o e) \o l = FlattenSeq(v) \o (e \o l)
          BY <1>2, <4>3, Associative
        <4> QED
          BY <4>1, <4>2, <4>4
      <3> HIDE DEF next, a
      <3>4. next.texts = a /\ next.refused = "none"
            /\ next \in [texts : Seq(Seq(Word)), refused : {"none"} \cup Causes]
        BY <1>6, <1>9, <3>1, <3>2 DEF a
      <3>5. PieceFits(e \o l, i, row)
        <4>1. e \o l # <<>>
          BY <1>2, <2>5, ConcatEqualIffEmpty DEF PieceFits
        <4> QED
          BY <1>2, <1>4, <2>3, <2>5, <2>6, <4>1 DEF PieceFits
      <3>6. \A k \in DOMAIN a : PieceFits(a[k], i, row)
        <4> TAKE k \in DOMAIN a
        <4>1. CASE k = Len(v) + 1
          BY <3>2, <3>5, <4>1
        <4>2. CASE k # Len(v) + 1
          <5>1. k \in 1 .. Len(v)
            BY <2>4, <3>2, <4>2
          <5> QED
            BY <2>5, <3>2, <5>1
        <4> QED
          BY <4>1, <4>2
      <3>7. ToSet(FlattenSeq(a)) = Words(i, row)
        BY <1>2, <1>4, <2>0, <3>3, WordsConcat
      <3>8. Nearly(FlattenSeq(a))
        BY <1>2, <1>3, <1>5, <2>0, <3>3, NearlyConcat, OrderedNearly
      <3>9. SplitFits(next, i, row)
        BY <3>2, <3>4, <3>6, <3>7, <3>8 DEF SplitFits
      <3> QED
        BY <3>2, <3>4, <3>9 DEF next, h
    <2>7. CASE ~(CountTokens(e \o l) <= HardMaxTokens) /\ CountTokens(h \o l) > HardMaxTokens
      <3>1. next = [done EXCEPT !.refused = "table row"]
        BY <1>9, <2>2, <2>7 DEF AddRow, l
      <3> HIDE DEF next
      <3>2. next.texts = done.texts /\ next.refused = "table row"
            /\ next \in [texts : Seq(Seq(Word)), refused : {"none"} \cup Causes]
        BY <1>6, <3>1 DEF Causes
      <3>3. SplitFits(next, i, row)
        BY <1>7, <3>2 DEF SplitFits
      <3> QED
        BY <3>2, <3>3 DEF next, h
    <2>8. CASE ~(CountTokens(e \o l) <= HardMaxTokens) /\ ~(CountTokens(h \o l) > HardMaxTokens)
      <3>1. next = [done EXCEPT !.texts = Append(done.texts, h \o l)]
        BY <1>9, <2>2, <2>8 DEF AddRow, l
      <3> DEFINE a == Append(done.texts, h \o l)
                 m == Len(done.texts)
      <3>2. a \in Seq(Seq(Word)) /\ Len(a) = m + 1 /\ a[m + 1] = h \o l /\ a # <<>> /\ m \in Nat
            /\ (\A k \in 1 .. m : a[k] = done.texts[k]) /\ DOMAIN a = 1 .. m + 1
        <4> DEFINE b == h \o l
                   t == done.texts
        <4>1. b \in Seq(Word) /\ t \in Seq(Seq(Word)) /\ a = Append(t, b) /\ m = Len(t)
          BY <1>6, <2>3
        <4> HIDE DEF b, a, t, m
        <4>2. /\ Append(t, b) \in Seq(Seq(Word)) /\ Append(t, b) # <<>> /\ Len(t) \in Nat
              /\ Len(Append(t, b)) = Len(t) + 1 /\ DOMAIN Append(t, b) = 1 .. Len(t) + 1
              /\ Append(t, b)[Len(t) + 1] = b
              /\ \A k \in 1 .. Len(t) : Append(t, b)[k] = t[k]
          BY <4>1, AppendTexts
        <4> QED
          BY <4>1, <4>2 DEF b, t
      <3>3. FlattenSeq(a) = FlattenSeq(done.texts) \o (h \o l)
        BY <1>6, <2>3, FlattenAppend
      <3> HIDE DEF next, a, m
      <3>4. next.texts = a /\ next.refused = "none"
            /\ next \in [texts : Seq(Seq(Word)), refused : {"none"} \cup Causes]
        BY <1>6, <1>9, <3>1, <3>2 DEF a
      <3>5. PieceFits(h \o l, i, row)
        <4>1. h \o l # <<>>
          BY <1>1, <1>2, ConcatEqualIffEmpty
        <4>2. CountTokens(h \o l) <= HardMaxTokens
          <5>1. Len(h \o l) \in Nat
            BY <2>3, LenProperties
          <5>2. CountTokens(h \o l) \in Nat /\ HardMaxTokens \in Nat
            BY <5>1, TokensAssumption DEF CountTokens
          <5> QED
            BY <2>8, <5>2
        <4> QED
          BY <1>1, <1>2, <1>4, <2>3, <4>1, <4>2 DEF PieceFits
      <3>6. \A k \in DOMAIN a : PieceFits(a[k], i, row)
        <4> TAKE k \in DOMAIN a
        <4>1. CASE k = m + 1
          BY <3>2, <3>5, <4>1
        <4>2. CASE k # m + 1
          <5>1. k \in 1 .. m
            BY <3>2, <4>2
          <5> QED
            BY <1>6, <1>7, <3>2, <5>1 DEF m
        <4> QED
          BY <4>1, <4>2
      <3>7. ToSet(FlattenSeq(a)) = Words(i, row)
        <4> DEFINE b == FlattenSeq(done.texts)
                   c == h \o l
        <4>2. b \in Seq(Word) /\ c \in Seq(Word) /\ FlattenSeq(a) = b \o c
          BY <2>0, <2>3, <3>3
        <4> HIDE DEF b, c
        <4>3. ToSet(b \o c) = ToSet(b) \cup ToSet(c)
          BY <4>2, WordsConcat
        <4>1. ToSet(FlattenSeq(a)) = ToSet(FlattenSeq(done.texts)) \cup ToSet(h \o l)
          BY <4>2, <4>3 DEF b, c
        <4> QED
          BY <1>1, <1>2, <1>4, <2>0, <2>3, <4>1
      <3>8. Nearly(FlattenSeq(a))
        <4>1. Ordered(h \o l)
          BY <1>1, <1>2, <1>3, <1>4, <1>5, OrderedConcat
        <4>2. \A w \in ToSet(FlattenSeq(done.texts)), x \in ToSet(h \o l) :
                Before(w, x) \/ x \in ToSet(FlattenSeq(done.texts)) \/ w \in ToSet(h \o l)
          BY <1>1, <1>2, <1>4, <1>5, <2>0, <2>3
        <4> QED
          BY <2>0, <2>3, <3>3, <4>1, <4>2, NearlyConcat, OrderedNearly
      <3>9. SplitFits(next, i, row)
        BY <3>2, <3>4, <3>6, <3>7, <3>8 DEF SplitFits
      <3> QED
        BY <3>2, <3>4, <3>9 DEF next, h
    <2> QED
      BY <2>6, <2>7, <2>8
  <1> QED
    BY <1>8, <1>9

\* _split_table keeps every row, with the header in front of every piece.
LEMMA TableSplit ==
    ASSUME DocFits, NEW i \in 1 .. Len(doc), NEW j \in i + 1 .. Len(doc), ~Blank(i)
    PROVE  SplitFits(SplitTable(i, j), i, j)
  <1> DEFINE h == Text(i, i + 1)
             first == [texts |-> <<h>>, refused |-> "none"]
  <1>0. /\ i \in Nat /\ j \in Nat /\ Len(doc) \in Nat /\ i <= j /\ i + 1 \in Nat /\ i + 1 <= j
        /\ i + 1 \in i .. Len(doc) /\ i + 1 \in i - 1 .. Len(doc) /\ j <= Len(doc)
    BY DocTyped
  <1>1. PICK f : /\ Rows(i, j, f)
                 /\ SplitTable(i, j) = IF CountTokens(h) > HardMaxTokens
                                       THEN [texts |-> <<>>, refused |-> "table header"]
                                       ELSE f[j]
    BY <1>0, SplitTableRows
  <1>2. h # <<>> /\ h \in Seq(Word) /\ ToSet(h) = Words(i, i + 1) /\ Ordered(h)
    BY <1>0, TextSome, TextOrdered
  <1>5. \A row \in i + 1 .. j : row # i + 1 => f[row] = AddRow(f[row - 1], h, row)
    <2>1. i \in Nat /\ j \in Nat /\ Rows(i, j, f)
      BY <1>0, <1>1
    <2>2. RowByRow(i, j, f)
      BY ONLY <2>1, RowsNext
    <2> QED
      BY ONLY <2>2 DEF RowByRow
  <1> HIDE DEF h
  <1>3. CASE CountTokens(h) > HardMaxTokens
    <2> DEFINE s == [texts |-> <<>>, refused |-> "table header"]
    <2>1. s \in [texts : Seq(Seq(Word)), refused : {"none"} \cup Causes]
      <3>1. <<>> \in Seq(Seq(Word)) /\ "table header" \in Causes
        BY EmptySeq DEF Causes
      <3> QED
        BY <3>1
    <2>3. s.texts = <<>> /\ s.refused # "none" /\ DOMAIN <<>> = {}
      OBVIOUS
    <2> HIDE DEF s
    <2>2. SplitFits(s, i, j)
      BY <2>1, <2>3 DEF SplitFits
    <2> QED
      BY <1>1, <1>3, <2>2 DEF s
  <1>4. CASE ~(CountTokens(h) > HardMaxTokens)
    <2> DEFINE Fine(r) == SplitFits(f[r], i, r) /\ f[r].texts # <<>>
               P == {n \in Nat : i + 1 + n <= j => Fine(i + 1 + n)}
    <2>1. CountTokens(h) <= HardMaxTokens
      <3>1. Len(h) \in Nat
        BY <1>2, LenProperties
      <3> QED
        BY <1>4, <3>1, TokensAssumption DEF CountTokens
    <2>2. Fine(i + 1)
      <3>1. f[i + 1] = first
        <4>1. i + 1 \in i + 1 .. j
          BY <1>0
        <4> QED
          BY <1>0, <1>1, <4>1, RowsAt DEF h
      <3>2. <<h>> \in Seq(Seq(Word)) /\ <<h>> # <<>> /\ DOMAIN <<h>> = {1} /\ <<h>>[1] = h
        BY <1>2
      <3>3. FlattenSeq(<<h>>) = h
        BY <1>2, FlattenOne
      <3>4. Nearly(h) /\ PieceFits(h, i, i + 1)
        BY <1>2, <2>1, OrderedNearly DEF PieceFits
      <3>5. first \in [texts : Seq(Seq(Word)), refused : {"none"} \cup Causes]
            /\ first.texts = <<h>> /\ first.refused = "none"
        BY <3>2
      <3> HIDE DEF first
      <3>6. SplitFits(first, i, i + 1)
        BY <1>2, <3>2, <3>3, <3>4, <3>5 DEF SplitFits
      <3> QED
        BY <3>1, <3>2, <3>5, <3>6
    <2> HIDE DEF first
    <2>3. 0 \in P
      <3>1. i + 1 + 0 = i + 1
        BY <1>0
      <3> HIDE DEF Fine
      <3> QED
        BY <2>2, <3>1
    <2>4. ASSUME NEW n \in P PROVE n + 1 \in P
      <3>0. n \in Nat
        OBVIOUS
      <3> DEFINE r == i + 1 + (n + 1)
      <3>1. r - 1 = i + 1 + n /\ r \in Nat /\ r # i + 1
        BY <1>0, <3>0
      <3> SUFFICES ASSUME r <= j PROVE Fine(r)
        BY <3>0
      <3>2. r \in i + 1 .. j /\ r \in i + 2 .. Len(doc) /\ r - 1 <= j
        BY <1>0, <3>0
      <3>3. Fine(r - 1)
        <4> HIDE DEF Fine
        <4> QED
          BY <3>0, <3>1, <3>2
      <3> HIDE DEF r
      <3>4. f[r] = AddRow(f[r - 1], h, r)
        <4>1. PICK row \in i + 1 .. j : row = r /\ row # i + 1
          BY <3>1, <3>2
        <4>2. f[row] = AddRow(f[row - 1], h, row)
          BY ONLY <1>5, <4>1
        <4> QED
          BY ONLY <4>1, <4>2
      <3> QED
        BY <3>2, <3>3, <3>4, RowAdded DEF h
    <2>5. P = Nat
      <3>1. P \in SUBSET Nat
        OBVIOUS
      <3> HIDE DEF P
      <3> QED
        BY <2>3, <2>4, <3>1, Induct
    <2>6. j - (i + 1) \in Nat /\ i + 1 + (j - (i + 1)) = j
      BY <1>0
    <2> HIDE DEF Fine
    <2>7. Fine(j)
      <3> DEFINE n == j - (i + 1)
      <3>1. n \in P /\ i + 1 + n = j
        <4> HIDE DEF P
        <4> QED
          BY <2>5, <2>6
      <3> HIDE DEF n
      <3> QED
        BY <1>0, <3>1
    <2> QED
      BY <1>1, <1>4, <2>7 DEF Fine
  <1> QED
    BY <1>3, <1>4

\* _split_prose keeps all of its text, in order.
LEMMA ProseSplit ==
    ASSUME DocFits, NEW i \in 1 .. Len(doc), NEW j \in i .. Len(doc), ~Blank(i)
    PROVE  SplitFits(SplitProse(i, j), i, j) /\ Ordered(FlattenSeq(SplitProse(i, j).texts))
  <1> DEFINE t == Text(i, j)
             n == HardMaxTokens - Special
             c == Cut(t, n)
             e == <<>>
  <1>0. i \in Nat /\ j \in Nat /\ Len(doc) \in Nat /\ j \in i - 1 .. Len(doc)
    BY DocTyped
  <1>1. t # <<>> /\ t \in Seq(Word) /\ ToSet(t) = Words(i, j) /\ Ordered(t)
    BY <1>0, TextSome, TextOrdered
  <1>2. n \in Nat \ {0} /\ Special \in Nat /\ HardMaxTokens \in Nat /\ n + Special = HardMaxTokens
    BY TokensAssumption
  <1>3. e \in Seq(Word) /\ ToSet(e) = {} /\ Ordered(e) /\ Len(e) = 0
        /\ ToSet(e) \cup ToSet(e) = {}
    BY EmptySeq DEF ToSet, Ordered
  <1> HIDE DEF t, n, e
  <1> DEFINE p == Wrap(e, c, e)
  <1>4. /\ p \in Seq(Seq(Word)) /\ p # <<>>
        /\ \A k \in DOMAIN p : /\ p[k] # <<>> /\ Len(p[k]) <= Len(e) + n + Len(e)
                               /\ ToSet(p[k]) \subseteq ToSet(e) \cup ToSet(t) \cup ToSet(e)
        /\ ToSet(FlattenSeq(p)) = ToSet(e) \cup ToSet(t) \cup ToSet(e)
        /\ Nearly(FlattenSeq(p)) /\ Ordered(FlattenSeq(p))
    <2>1. /\ \A w \in ToSet(e), x \in ToSet(t) \cup ToSet(e) : Before(w, x)
          /\ \A w \in ToSet(t), x \in ToSet(e) : Before(w, x)
      BY <1>3
    <2>2. /\ p \in Seq(Seq(Word)) /\ p # <<>>
          /\ \A k \in DOMAIN p : /\ p[k] # <<>> /\ Len(p[k]) <= Len(e) + n + Len(e)
                                 /\ ToSet(p[k]) \subseteq ToSet(e) \cup ToSet(t) \cup ToSet(e)
          /\ ToSet(FlattenSeq(p)) = ToSet(e) \cup ToSet(t) \cup ToSet(e)
          /\ Nearly(FlattenSeq(p))
          /\ ToSet(e) \cup ToSet(e) = {} => Ordered(FlattenSeq(p))
      BY <1>1, <1>2, <1>3, <2>1, WrapWhole
    <2> HIDE DEF p
    <2> QED
      BY <1>3, <2>2
  <1>5. c \in Seq(Seq(Word))
    BY <1>1, <1>2, CutPieces
  <1> HIDE DEF c
  <1>6. p = c
    <2>1. \A k \in DOMAIN c : c[k] \in Seq(Word)
      BY <1>5
    <2>2. \A x \in Seq(Word) : (e \o x) \o e = x
      BY ConcatEmptySeq DEF e
    <2>3. \A k \in DOMAIN c : (e \o c[k]) \o e = c[k]
      BY <2>1, <2>2
    <2>4. p = [k \in DOMAIN c |-> c[k]]
      BY <2>3 DEF Wrap
    <2>5. c = [k \in DOMAIN c |-> c[k]]
      BY <1>5
    <2> QED
      BY <2>4, <2>5
  <1> HIDE DEF p
  <1>7. \A k \in DOMAIN c : PieceFits(c[k], i, j)
    <2> TAKE k \in DOMAIN c
    <2>1. c[k] \in Seq(Word) /\ Len(c[k]) \in Nat
      BY <1>5
    <2>2. Len(c[k]) <= n
      BY <1>2, <1>3, <1>4, <1>6, <2>1
    <2>3. CountTokens(c[k]) <= HardMaxTokens
      BY <1>2, <2>1, <2>2 DEF CountTokens
    <2> QED
      BY <1>1, <1>3, <1>4, <1>6, <2>3 DEF PieceFits
  <1>8. SplitProse(i, j) = [texts |-> c, refused |-> "none"]
    BY DEF SplitProse, c, t, n
  <1>9. /\ SplitProse(i, j).texts = c /\ SplitProse(i, j).refused = "none"
        /\ SplitProse(i, j) \in [texts : Seq(Seq(Word)), refused : {"none"} \cup Causes]
    BY <1>5, <1>8
  <1> QED
    BY <1>1, <1>3, <1>4, <1>6, <1>7, <1>9 DEF SplitFits

\* _split_fence keeps all of its body, between the first and the last line.
LEMMA FenceSplit ==
    ASSUME DocFits, NEW i \in 1 .. Len(doc), NEW j \in i .. Len(doc), ~Blank(i),
           CountTokens(Text(i, j)) > HardMaxTokens
    PROVE  SplitFits(SplitFence(i, j), i, j)
  <1> DEFINE a == LineText(i)
             z == LineText(j)
             t == Text(i + 1, j - 1)
             wrapper == CountTokens(a \o z)
             n == HardMaxTokens - wrapper - Special
             Refusal(why) == [texts |-> <<>>, refused |-> why]
             p == Wrap(a, Cut(t, n), z)
  <1>0. i \in Nat /\ j \in Nat /\ Len(doc) \in Nat /\ i <= j /\ j \in 1 .. Len(doc)
    BY DocTyped
  <1>1. SplitFence(i, j) = IF i = j THEN Refusal("unterminated fence")
                           ELSE IF wrapper + Special >= HardMaxTokens THEN Refusal("fence wrapper")
                           ELSE [texts |-> p, refused |-> "none"]
    BY DEF SplitFence, Wrap
  <1>2. ASSUME NEW why \in Causes PROVE SplitFits(Refusal(why), i, j)
    <2> DEFINE s == Refusal(why)
    <2>4. why # "none"
      BY DEF Causes
    <2>1. s.texts = <<>> /\ s.refused # "none" /\ DOMAIN <<>> = {}
      BY <2>4
    <2>2. s \in [texts : Seq(Seq(Word)), refused : {"none"} \cup Causes]
      <3>1. <<>> \in Seq(Seq(Word))
        BY EmptySeq
      <3> QED
        BY <3>1
    <2> HIDE DEF s
    <2>3. SplitFits(s, i, j)
      BY <2>1, <2>2 DEF SplitFits
    <2> QED
      BY <2>3 DEF s
  <1>3. "unterminated fence" \in Causes /\ "fence wrapper" \in Causes
    BY DEF Causes
  <1> HIDE DEF Refusal
  <1>4. CASE i = j \/ wrapper + Special >= HardMaxTokens
    <2> HIDE DEF p, wrapper
    <2> QED
      BY <1>1, <1>2, <1>3, <1>4
  <1>5. CASE i # j /\ ~(wrapper + Special >= HardMaxTokens)
    <2>0. /\ i + 1 \in 1 .. Len(doc) /\ j \in i + 1 .. Len(doc) /\ i + 1 \in Nat /\ j - 1 \in Nat
          /\ j - 1 \in (i + 1) - 1 .. Len(doc) /\ i < j /\ i < i + 1 /\ j - 1 < j
      BY <1>0, <1>5
    <2>1. /\ a \in Seq(Word) /\ ToSet(a) = Words(i, i) /\ a # <<>> /\ Len(a) \in Nat
          /\ z \in Seq(Word) /\ ToSet(z) = Words(j, j) /\ Len(z) \in Nat
      BY <1>0, LineTyped, LenProperties
    <2>2. t \in Seq(Word) /\ ToSet(t) = Words(i + 1, j - 1) /\ Ordered(t) /\ Len(t) \in Nat
      BY <2>0, TextTyped, TextOrdered, LenProperties
    <2>3. Ordered(a) /\ Ordered(z)
      BY <1>0, LineOrdered
    <2>4. Text(i, j) = a \o (t \o z)
      <3>1. Text(i, j) = a \o Text(i + 1, j)
        BY TextFirst
      <3>2. Text(i + 1, j) = t \o z
        BY <2>0, <2>2, TextLast
      <3> QED
        BY <3>1, <3>2
    <2> HIDE DEF a, z, t
    <2>5. Len(Text(i, j)) = Len(a) + (Len(t) + Len(z)) /\ Len(a \o z) = Len(a) + Len(z)
      <3>1. t \o z \in Seq(Word) /\ Len(t \o z) = Len(t) + Len(z)
        BY <2>1, <2>2, ConcatProperties
      <3>2. Len(a \o (t \o z)) = Len(a) + Len(t \o z)
        BY <2>1, <3>1, ConcatProperties
      <3>3. Len(a \o z) = Len(a) + Len(z)
        BY <2>1, ConcatProperties
      <3> QED
        BY <2>4, <3>1, <3>2, <3>3
    <2>6. Special \in Nat /\ HardMaxTokens \in Nat
      BY TokensAssumption
    <2>7. wrapper = Special + (Len(a) + Len(z))
      BY <2>5 DEF CountTokens
    <2>8. Special + (Len(a) + (Len(t) + Len(z))) > HardMaxTokens
      BY <2>5 DEF CountTokens
    <2> HIDE DEF wrapper
    <2>9. Len(t) # 0 /\ n \in Nat \ {0} /\ Special + (Len(a) + n + Len(z)) <= HardMaxTokens
      BY <1>5, <2>1, <2>2, <2>6, <2>7, <2>8
    <2>10. t # <<>>
      BY <2>9, EmptySeq
    <2>11. /\ \A w \in ToSet(a), x \in ToSet(t) \cup ToSet(z) : Before(w, x)
           /\ \A w \in ToSet(t), x \in ToSet(z) : Before(w, x)
      BY <1>0, <2>0, <2>1, <2>2, WordsBefore
    <2>12. Words(i, j) = ToSet(a) \cup ToSet(t) \cup ToSet(z)
      <3>1. \A x : x \in i .. j <=> x \in i .. i \/ x \in i + 1 .. j - 1 \/ x \in j .. j
        BY <1>0, <2>0
      <3> QED
        BY <2>1, <2>2, <3>1 DEF Words
    <2> HIDE DEF n
    <2>13. /\ p \in Seq(Seq(Word)) /\ p # <<>>
           /\ \A k \in DOMAIN p : /\ p[k] # <<>> /\ Len(p[k]) <= Len(a) + n + Len(z)
                                  /\ ToSet(p[k]) \subseteq ToSet(a) \cup ToSet(t) \cup ToSet(z)
           /\ ToSet(FlattenSeq(p)) = ToSet(a) \cup ToSet(t) \cup ToSet(z)
           /\ Nearly(FlattenSeq(p))
           /\ ToSet(a) \cup ToSet(z) = {} => Ordered(FlattenSeq(p))
      BY <2>1, <2>2, <2>3, <2>9, <2>10, <2>11, WrapWhole
    <2> HIDE DEF p
    <2>14. \A k \in DOMAIN p : PieceFits(p[k], i, j)
      <3> TAKE k \in DOMAIN p
      <3>1. p[k] \in Seq(Word) /\ Len(p[k]) \in Nat
        BY <2>13
      <3>2. Len(p[k]) <= Len(a) + n + Len(z)
        BY <2>13
      <3>3. Special + Len(p[k]) <= HardMaxTokens
        BY <2>1, <2>6, <2>9, <3>1, <3>2
      <3> QED
        BY <2>12, <2>13, <3>3 DEF PieceFits, CountTokens
    <2>15. SplitFence(i, j) = [texts |-> p, refused |-> "none"]
      BY <1>1, <1>5
    <2>16. /\ SplitFence(i, j).texts = p /\ SplitFence(i, j).refused = "none"
           /\ SplitFence(i, j) \in [texts : Seq(Seq(Word)), refused : {"none"} \cup Causes]
      BY <2>13, <2>15
    <2> QED
      BY <2>12, <2>13, <2>14, <2>16 DEF SplitFits
  <1> QED
    BY <1>4, <1>5

\* _bounded_blocks: a block is kept or split, and either way fits.
LEMMA BoundedFits ==
    ASSUME DocFits, NEW i \in 1 .. Len(doc), NEW j \in i .. Len(doc), ~Blank(i),
           NEW kind \in Own, kind = "table" => i < j
    PROVE  /\ SplitFits(Bounded(kind, i, j), i, j)
           /\ kind \in Plain => Ordered(FlattenSeq(Bounded(kind, i, j).texts))
  <1> DEFINE t == Text(i, j)
             whole == [texts |-> <<t>>, refused |-> "none"]
  <1>0. i \in Nat /\ j \in Nat /\ Len(doc) \in Nat /\ j \in i - 1 .. Len(doc)
    BY DocTyped
  <1>1. t # <<>> /\ t \in Seq(Word) /\ ToSet(t) = Words(i, j) /\ Ordered(t) /\ Len(t) \in Nat
    BY <1>0, TextSome, TextOrdered, LenProperties
  <1>2. CASE CountTokens(t) <= HardMaxTokens
    <2>1. Bounded(kind, i, j) = whole
      BY <1>2 DEF Bounded
    <2> HIDE DEF t
    <2>2. <<t>> \in Seq(Seq(Word)) /\ <<t>> # <<>> /\ DOMAIN <<t>> = {1} /\ <<t>>[1] = t
      BY <1>1
    <2>3. FlattenSeq(<<t>>) = t
      BY <1>1, FlattenOne
    <2>4. Nearly(t) /\ PieceFits(t, i, j)
      BY <1>1, <1>2, OrderedNearly DEF PieceFits
    <2>5. whole \in [texts : Seq(Seq(Word)), refused : {"none"} \cup Causes]
          /\ whole.texts = <<t>> /\ whole.refused = "none"
      BY <2>2
    <2> HIDE DEF whole
    <2>6. SplitFits(whole, i, j)
      BY <1>1, <2>2, <2>3, <2>4, <2>5 DEF SplitFits
    <2> QED
      BY <1>1, <2>1, <2>3, <2>5, <2>6
  <1>3. CASE ~(CountTokens(t) <= HardMaxTokens)
    <2>1. Bounded(kind, i, j) = CASE kind = "table" -> SplitTable(i, j)
                                  [] kind = "fence" -> SplitFence(i, j)
                                  [] OTHER          -> SplitProse(i, j)
      BY <1>3 DEF Bounded
    <2>2. CASE kind = "table"
      <3>1. j \in i + 1 .. Len(doc)
        BY <1>0, <2>2
      <3> QED
        BY <2>1, <2>2, <3>1, TableSplit DEF Plain
    <2>3. CASE kind = "fence"
      <3>1. CountTokens(t) > HardMaxTokens
        <4> HIDE DEF t
        <4> QED
          BY <1>1, <1>3, TokensAssumption DEF CountTokens
      <3> QED
        BY <2>1, <2>3, <3>1, FenceSplit DEF Plain
    <2>4. CASE kind # "table" /\ kind # "fence"
      BY <2>1, <2>4, ProseSplit
    <2> QED
      BY <2>2, <2>3, <2>4
  <1> QED
    BY <1>2, <1>3

-----------------------------------------------------------------------------
(* Parsing. *)

\* A set of numbers has a least one.
LEMMA Least ==
    ASSUME NEW S \in SUBSET Nat, S # {}
    PROVE  Min(S) \in S /\ \A y \in S : Min(S) <= y
  <1>1. \E x \in S : \A y \in S : <<y, x>> \notin OpToRel(<, Nat)
    BY NatLessThanWellFounded, WFMin
  <1>2. PICK x \in S : \A y \in S : <<y, x>> \notin OpToRel(<, Nat)
    BY <1>1
  <1>3. \A y \in S : x <= y
    <2> TAKE y \in S
    <2>1. y < x => <<y, x>> \in OpToRel(<, Nat)
      BY DEF OpToRel
    <2>2. ~(y < x)
      BY <1>2, <2>1
    <2>3. x \in Nat /\ y \in Nat
      OBVIOUS
    <2> QED
      BY <2>2, <2>3
  <1> QED
    BY <1>3 DEF Min

\* A bounded set of numbers has a greatest one.
LEMMA Greatest ==
    ASSUME NEW S \in SUBSET Nat, S # {}, NEW n \in Nat, \A x \in S : x <= n
    PROVE  Max(S) \in S /\ \A y \in S : y <= Max(S)
  <1> DEFINE T == {k \in Nat : \E x \in S : x + k = n}
  <1>1. T \in SUBSET Nat /\ T # {}
    <2>1. PICK x \in S : TRUE
      OBVIOUS
    <2>2. n - x \in Nat /\ x + (n - x) = n
      BY <2>1
    <2> QED
      BY <2>1, <2>2
  <1>2. Min(T) \in T /\ \A y \in T : Min(T) <= y
    <2> HIDE DEF T
    <2> QED
      BY <1>1, Least
  <1>3. PICK x \in S : x + Min(T) = n
    BY <1>2
  <1>4. ASSUME NEW y \in S PROVE y <= x
    <2>1. n - y \in Nat /\ y + (n - y) = n
      OBVIOUS
    <2>2. n - y \in T
      BY <2>1
    <2>3. Min(T) <= n - y /\ Min(T) \in Nat
      BY <1>2, <2>2
    <2> HIDE DEF T
    <2> QED
      BY <1>3, <2>1, <2>3
  <1>5. \A y \in S : x >= y
    BY <1>4
  <1>6. \E m \in S : \A y \in S : m >= y
    BY <1>5
  <1>7. Max(S) \in S /\ \A y \in S : Max(S) >= y
    BY <1>6 DEF Max
  <1> QED
    BY <1>7

\* Lines are taken while they are on the page and of the kind.
LEMMA StopFits ==
    ASSUME DocFits, NEW i \in 2 .. Len(doc) + 1, NEW lines
    PROVE  /\ Stop(i, lines) \in i .. Len(doc) + 1
           /\ \A k \in i .. Stop(i, lines) - 1 : doc[k].page = doc[i - 1].page
  <1> DEFINE S == {j \in i .. Len(doc) + 1 :
                        j > Len(doc) \/ doc[j].page # doc[i - 1].page \/ j \notin lines}
  <1>0. Len(doc) \in Nat /\ i \in Nat
    BY DocTyped
  <1>1. S \in SUBSET Nat /\ Len(doc) + 1 \in S
    BY <1>0
  <1>2. Stop(i, lines) = Min(S)
    BY DEF Stop
  <1>3. Min(S) \in S /\ \A y \in S : Min(S) <= y
    <2> HIDE DEF S
    <2> QED
      BY <1>1, Least
  <1>4. ASSUME NEW k \in i .. Min(S) - 1 PROVE doc[k].page = doc[i - 1].page
    <2>1. Min(S) \in Nat /\ Min(S) <= Len(doc) + 1
      BY <1>0, <1>3
    <2>2. k \in i .. Len(doc) + 1 /\ ~(Min(S) <= k)
      BY <1>0, <2>1
    <2>3. k \notin S
      BY <1>3, <2>2
    <2> QED
      BY <2>2, <2>3
  <1> QED
    BY <1>2, <1>3, <1>4

\* Lines i .. j are lines of one page.
OnePage(i, j) == j \in i .. Len(doc) /\ \A k \in i .. j : doc[k].page = doc[i].page

\* Where the blocks end.
LEMMA EndsFit ==
    ASSUME DocFits, NEW i \in 1 .. Len(doc)
    PROVE  /\ OnePage(i, i) /\ OnePage(i, FenceEnd(i)) /\ OnePage(i, ProseEnd(i))
           /\ TableStart(i) => OnePage(i, TableEnd(i)) /\ i < TableEnd(i)
  <1>0. Len(doc) \in Nat /\ i \in Nat /\ i + 1 \in 2 .. Len(doc) + 1 /\ (i + 1) - 1 = i
        /\ i <= Len(doc)
    BY DocTyped
  <1>1. ASSUME NEW lines
        PROVE  /\ Stop(i + 1, lines) \in i + 1 .. Len(doc) + 1
               /\ \A k \in i + 1 .. Stop(i + 1, lines) - 1 : doc[k].page = doc[i].page
    <2>1. /\ Stop(i + 1, lines) \in i + 1 .. Len(doc) + 1
          /\ \A k \in i + 1 .. Stop(i + 1, lines) - 1 : doc[k].page = doc[(i + 1) - 1].page
      BY <1>0, StopFits
    <2> QED
      BY <1>0, <2>1
  <1>2. OnePage(i, i)
    BY <1>0 DEF OnePage
  <1>3. ASSUME NEW lines PROVE OnePage(i, Stop(i + 1, lines) - 1)
    <2> DEFINE s == Stop(i + 1, lines)
    <2>1. s \in i + 1 .. Len(doc) + 1 /\ \A k \in i + 1 .. s - 1 : doc[k].page = doc[i].page
      BY <1>1
    <2> HIDE DEF s
    <2>2. s - 1 \in i .. Len(doc) /\ \A k \in i .. s - 1 : k = i \/ k \in i + 1 .. s - 1
      BY <1>0, <2>1
    <2> QED
      BY <2>1, <2>2 DEF OnePage, s
  <1>4. OnePage(i, ProseEnd(i))
    BY <1>3 DEF ProseEnd
  <1>5. OnePage(i, FenceEnd(i))
    <2> DEFINE lines == {k \in DOMAIN doc : ~Fence(k)}
               s == Stop(i + 1, lines)
    <2>1. s \in i + 1 .. Len(doc) + 1 /\ OnePage(i, s - 1)
      BY <1>1, <1>3
    <2>2. FenceEnd(i) = IF s <= Len(doc) /\ doc[s].page = doc[i].page THEN s ELSE s - 1
      BY DEF FenceEnd
    <2> HIDE DEF s
    <2>3. CASE s <= Len(doc) /\ doc[s].page = doc[i].page
      <3>1. s \in i .. Len(doc) /\ \A k \in i .. s : k = s \/ k \in i .. s - 1
        BY <1>0, <2>1, <2>3
      <3>2. OnePage(i, s)
        BY <2>1, <2>3, <3>1 DEF OnePage
      <3> QED
        BY <2>2, <2>3, <3>2
    <2>4. CASE ~(s <= Len(doc) /\ doc[s].page = doc[i].page)
      BY <2>1, <2>2, <2>4
    <2> QED
      BY <2>3, <2>4
  <1>6. ASSUME TableStart(i) PROVE OnePage(i, TableEnd(i)) /\ i < TableEnd(i)
    <2> DEFINE lines == {j \in DOMAIN doc : Pipe(j)}
               s == Stop(i + 2, lines)
    <2>1. i < Len(doc) /\ doc[i + 1].page = doc[i].page
      BY <1>6 DEF TableStart
    <2>2. i + 2 \in 2 .. Len(doc) + 1 /\ (i + 2) - 1 = i + 1
      BY <1>0, <2>1
    <2>3. s \in i + 2 .. Len(doc) + 1 /\ \A k \in i + 2 .. s - 1 : doc[k].page = doc[(i + 2) - 1].page
      BY <2>2, StopFits
    <2>4. TableEnd(i) = s - 1
      BY DEF TableEnd
    <2> HIDE DEF s
    <2>5. s - 1 \in i .. Len(doc) /\ i < s - 1
          /\ \A k \in i .. s - 1 : k = i \/ k = i + 1 \/ k \in i + 2 .. s - 1
      BY <1>0, <2>3
    <2>6. OnePage(i, s - 1)
      BY <2>1, <2>2, <2>3, <2>5 DEF OnePage
    <2> QED
      BY <2>4, <2>5, <2>6
  <1> QED
    BY <1>2, <1>4, <1>5, <1>6

\* A step of the parser takes the lines of one block.
LEMMA ParseTakes ==
    ASSUME DocFits, index \in 1 .. Len(doc) + 1, ParseBlock
    PROVE  /\ status = "parsing" /\ index \in 1 .. Len(doc) /\ ~Blank(index)
           /\ \E kind \in Own, j \in index .. Len(doc) :
                /\ Take(kind, j) /\ OnePage(index, j)
                /\ kind = "table" => index < j
                /\ kind = "heading" => Heading(index) /\ j = index
                /\ Heading(index) => kind = "heading"
  <1>0. status = "parsing" /\ index \in 1 .. Len(doc) /\ ~Blank(index)
    BY DocTyped DEF ParseBlock
  <1>1. Own = {"heading", "fence", "table", "prose"}
    BY DEF Own
  <1>2. ASSUME NEW j, OnePage(index, j) PROVE j \in index .. Len(doc)
    BY <1>2 DEF OnePage
  <1>3. CASE Heading(index)
    <2>1. Take("heading", index) /\ OnePage(index, index)
      BY <1>0, <1>3, EndsFit DEF ParseBlock
    <2> QED
      BY <1>0, <1>1, <1>2, <1>3, <2>1
  <1>4. CASE ~Heading(index) /\ Fence(index)
    <2>1. Take("fence", FenceEnd(index)) /\ OnePage(index, FenceEnd(index))
      BY <1>0, <1>4, EndsFit DEF ParseBlock
    <2> QED
      BY <1>0, <1>1, <1>2, <1>4, <2>1
  <1>5. CASE ~Heading(index) /\ ~Fence(index) /\ TableStart(index)
    <2>1. Take("table", TableEnd(index)) /\ OnePage(index, TableEnd(index)) /\ index < TableEnd(index)
      BY <1>0, <1>5, EndsFit DEF ParseBlock
    <2> QED
      BY <1>0, <1>1, <1>2, <1>5, <2>1
  <1>6. CASE ~Heading(index) /\ ~Fence(index) /\ ~TableStart(index)
    <2>1. Take("prose", ProseEnd(index)) /\ OnePage(index, ProseEnd(index))
      BY <1>0, <1>6, EndsFit DEF ParseBlock
    <2> QED
      BY <1>0, <1>1, <1>2, <1>6, <2>1
  <1> QED
    BY <1>0, <1>3, <1>4, <1>5, <1>6

-----------------------------------------------------------------------------
(* Blocks, parts and chunks. *)

BlockType == [kind : Own \cup {"overlap"}, page : Nat, path : Seq(Nat), text : Seq(Word)]

\* A block has text, fits the model, and is from the page it names.
Placed(b) ==
    /\ b \in BlockType /\ PieceFits(b.text, 1, Len(doc))
    /\ \A w \in ToSet(b.text) : doc[w[1]].page = b.page

\* What parts of some kinds say, part by part.
LEMMA PartsAppend ==
    ASSUME NEW ps \in Seq(BlockType), NEW b \in BlockType, NEW kinds
    PROVE  /\ PartsText(Append(ps, b), kinds) =
                PartsText(ps, kinds) \o (IF b.kind \in kinds THEN b.text ELSE <<>>)
           /\ PartsText(ps, kinds) \in Seq(Word)
           /\ PartsText(<<>>, kinds) = <<>>
  <1> DEFINE T(x) == IF x.kind \in kinds THEN x.text ELSE <<>>
             F(s) == [k \in DOMAIN s |-> T(s[k])]
             a == Append(ps, b)
             n == Len(ps)
  <1>1. \A x \in BlockType : T(x) \in Seq(Word)
    <2>1. <<>> \in Seq(Word)
      BY EmptySeq
    <2> QED
      BY <2>1 DEF BlockType
  <1>2. /\ a \in Seq(BlockType) /\ n \in Nat /\ DOMAIN ps = 1 .. n /\ DOMAIN a = 1 .. n + 1
        /\ a[n + 1] = b /\ \A k \in 1 .. n : a[k] = ps[k]
    BY AppendPlaces
  <1> HIDE DEF T, a, n
  <1>3. /\ F(ps) \in Seq(Seq(Word)) /\ Len(F(ps)) = n
        /\ F(a) \in Seq(Seq(Word)) /\ Len(F(a)) = n + 1
    <2>1. \A k \in 1 .. n : ps[k] \in BlockType
      BY <1>2
    <2>2. \A k \in 1 .. n + 1 : a[k] \in BlockType
      BY <1>2
    <2>3. F(ps) \in [1 .. n -> Seq(Word)] /\ F(a) \in [1 .. n + 1 -> Seq(Word)]
      BY <1>1, <1>2, <2>1, <2>2
    <2>4. n \in Nat /\ n + 1 \in Nat
      BY <1>2
    <2> HIDE DEF F
    <2> QED
      BY <2>3, <2>4
  <1>4. T(b) \in Seq(Word)
    BY <1>1
  <1>5. F(a) = Append(F(ps), T(b))
    <2> DEFINE c == Append(F(ps), T(b))
    <2>1. c \in Seq(Seq(Word)) /\ Len(c) = n + 1 /\ c[n + 1] = T(b)
          /\ \A k \in 1 .. n : c[k] = F(ps)[k]
      <3> HIDE DEF F
      <3> QED
        BY <1>3, <1>4, AppendTexts
    <2>2. \A k \in 1 .. n : F(ps)[k] = T(ps[k])
      BY <1>2
    <2>3. \A k \in 1 .. n + 1 : F(a)[k] = T(a[k])
      BY <1>2
    <2> HIDE DEF F, c
    <2>4. ASSUME NEW k \in 1 .. n + 1 PROVE F(a)[k] = c[k]
      <3>1. CASE k = n + 1
        BY <1>2, <2>1, <2>3, <3>1
      <3>2. CASE k # n + 1
        <4>1. k \in 1 .. n
          BY <1>2, <3>2
        <4> QED
          BY <1>2, <2>1, <2>2, <2>3, <4>1
      <3> QED
        BY <3>1, <3>2
    <2>5. F(a) = c
      BY <1>3, <2>1, <2>4, SeqEqual
    <2> QED
      BY <2>5 DEF c
  <1>6. PartsText(ps, kinds) = FlattenSeq(F(ps)) /\ PartsText(a, kinds) = FlattenSeq(F(a))
    BY DEF PartsText, T
  <1>7. PartsText(<<>>, kinds) = <<>>
    <2>1. [k \in DOMAIN <<>> |-> T(<<>>[k])] = <<>>
      OBVIOUS
    <2> QED
      BY <2>1, FlattenEmpty DEF PartsText, T
  <1> HIDE DEF F
  <1>8. FlattenSeq(F(a)) = FlattenSeq(F(ps)) \o T(b)
    BY <1>3, <1>4, <1>5, FlattenAppend
  <1> QED
    BY <1>3, <1>6, <1>7, <1>8, FlattenTyped DEF T, a

\* The tokens of parts, part by part.
LEMMA Totals ==
    ASSUME NEW ps \in Seq(BlockType), NEW b \in BlockType
    PROVE  /\ Total(Append(ps, b)) = Total(ps) + Len(b.text)
           /\ Total(ps) \in Nat /\ Total(ps) >= Special
           /\ Total(<<>>) = Special /\ Len(b.text) \in Nat
  <1> DEFINE all == Own \cup {"overlap"}
  <1>1. ASSUME NEW s \in Seq(BlockType) PROVE Total(s) = CountTokens(PartsText(s, all))
    <2>1. \A k \in DOMAIN s : s[k].kind \in all
      <3>1. \A k \in DOMAIN s : s[k] \in BlockType
        OBVIOUS
      <3> QED
        BY <3>1 DEF BlockType
    <2>2. [k \in DOMAIN s |-> s[k].text]
            = [k \in DOMAIN s |-> IF s[k].kind \in all THEN s[k].text ELSE <<>>]
      BY <2>1
    <2> QED
      BY <2>2 DEF Total, PartsText
  <1>2. Append(ps, b) \in Seq(BlockType) /\ <<>> \in Seq(BlockType)
    BY AppendPlaces, EmptySeq
  <1>3. b.kind \in all /\ b.text \in Seq(Word)
    BY DEF BlockType
  <1> HIDE DEF all
  <1>4. PartsText(Append(ps, b), all) = PartsText(ps, all) \o b.text
        /\ PartsText(ps, all) \in Seq(Word) /\ PartsText(<<>>, all) = <<>>
    BY <1>3, PartsAppend
  <1>5. Len(PartsText(ps, all) \o b.text) = Len(PartsText(ps, all)) + Len(b.text)
        /\ Len(PartsText(ps, all)) \in Nat /\ Len(b.text) \in Nat /\ Len(<<>>) = 0
    BY <1>3, <1>4, ConcatProperties, LenProperties
  <1>6. Special \in Nat
    BY TokensAssumption
  <1>7. /\ Total(Append(ps, b)) = Special + (Len(PartsText(ps, all)) + Len(b.text))
        /\ Total(ps) = Special + Len(PartsText(ps, all)) /\ Total(<<>>) = Special + 0
    BY <1>1, <1>2, <1>4, <1>5 DEF CountTokens
  <1> DEFINE x == Len(PartsText(ps, all))
             y == Len(b.text)
  <1>8. /\ Total(Append(ps, b)) = Special + (x + y) /\ Total(ps) = Special + x
        /\ x \in Nat /\ y \in Nat /\ Total(<<>>) = Special + 0
    BY <1>5, <1>7
  <1> HIDE DEF x, y
  <1>9. Total(Append(ps, b)) = Total(ps) + y
    BY <1>6, <1>8
  <1>10. Total(ps) \in Nat /\ Total(ps) >= Special /\ Total(<<>>) = Special
    BY <1>6, <1>8
  <1> QED
    BY <1>8, <1>9, <1>10 DEF y

\* Parts with text have more than the special tokens.
LEMMA TotalSome ==
    ASSUME NEW ps \in Seq(BlockType), ps # <<>>, \A k \in DOMAIN ps : ps[k].text # <<>>
    PROVE  Total(ps) > Special
  <1>1. PICK s \in Seq(BlockType), b \in BlockType : ps = Append(s, b)
    BY SequenceEmptyOrAppend
  <1>2. Len(s) + 1 \in DOMAIN ps /\ ps[Len(s) + 1] = b
    BY <1>1, AppendPlaces
  <1>3. b.text # <<>> /\ b.text \in Seq(Word)
    BY <1>2 DEF BlockType
  <1>4. Len(b.text) # 0
    BY <1>3, EmptySeq
  <1>5. Total(ps) = Total(s) + Len(b.text) /\ Total(s) \in Nat /\ Total(s) >= Special /\ Len(b.text) \in Nat
    BY <1>1, Totals
  <1> QED
    BY <1>4, <1>5, TokensAssumption

\* What a chunk repeats of the parts of the chunk before.
Repeats(o, ps) ==
    /\ Placed(o) /\ o.kind = "overlap" /\ CountTokens(o.text) <= OverlapTokens
    /\ \E k \in DOMAIN ps :
        /\ ps[k].kind = "prose" /\ o.page = ps[k].page /\ o.path = ps[k].path
        /\ IsSuffix(o.text, ps[k].text)

\* The end of a text is a suffix of it.
LEMMA EndIsSuffix ==
    ASSUME NEW text \in Seq(Word), NEW n \in Nat, n <= Len(text)
    PROVE  LET s == SubSeq(text, Len(text) - n + 1, Len(text)) IN
           /\ s \in Seq(Word) /\ Len(s) = n /\ ToSet(s) \subseteq ToSet(text)
           /\ IsSuffix(s, text)
  <1> DEFINE len == Len(text)
             a == len - n
             s == SubSeq(text, a + 1, len)
  <1>0. len \in Nat /\ a \in Nat /\ a <= len /\ len - a = n /\ DOMAIN text = 1 .. len
    BY LenProperties
  <1>1. /\ s \in Seq(Word) /\ Len(s) = len - a
        /\ ToSet(s) = {text[p] : p \in a + 1 .. len}
    <2>1. len <= Len(text) /\ a \in Nat /\ len \in Nat /\ a <= len
      BY <1>0
    <2> HIDE DEF len, a
    <2> QED
      BY <2>1, Stretch
  <1>2. \A i \in 1 .. n : s[i] = text[a + i]
    <2>1. \A i \in a + 1 .. len : text[i] \in Word
      <3>1. \A i \in a + 1 .. len : i \in 1 .. Len(text)
        BY <1>0
      <3> QED
        BY <3>1, ElementOfSeq
    <2>2. a + 1 \in Int /\ len \in Int /\ len - (a + 1) + 1 = n
      BY <1>0
    <2>3. \A i \in 1 .. len - (a + 1) + 1 : s[i] = text[(a + 1) + i - 1]
      BY <2>1, <2>2, SubSeqProperties
    <2>4. \A i \in 1 .. n : (a + 1) + i - 1 = a + i
      BY <1>0
    <2> HIDE DEF s, a, len
    <2> QED
      BY <2>2, <2>3, <2>4
  <1>3. \A p \in a + 1 .. len : p \in DOMAIN text
    BY <1>0
  <1>4. ToSet(s) \subseteq ToSet(text)
    BY <1>1, <1>3 DEF ToSet
  <1> HIDE DEF s
  <1>5. IsSuffix(s, text)
    <2> DEFINE r == Reverse(s)
               t == Reverse(text)
    <2>1. r = [i \in 1 .. n |-> s[(n - i) + 1]] /\ t = [i \in 1 .. len |-> text[(len - i) + 1]]
      BY <1>0, <1>1 DEF Reverse
    <2>2. \A i \in 1 .. n : /\ (n - i) + 1 \in 1 .. n /\ a + ((n - i) + 1) = (len - i) + 1
                            /\ i \in 1 .. len /\ (len - i) + 1 \in 1 .. len
      BY <1>0
    <2>3. \A i \in 1 .. n : r[i] = t[i] /\ t[i] = text[(len - i) + 1]
      BY <1>2, <2>1, <2>2
    <2>4. \A i \in 1 .. n : r[i] \in Word /\ t[i] \in Word
      BY <2>2, <2>3, ElementOfSeq
    <2>5. Len(r) = n /\ Len(t) = len
      BY <1>0, <2>1
    <2> HIDE DEF r, t
    <2>6. SubSeq(r, 1, n) = SubSeq(t, 1, n)
      <3>1. 1 \in Int /\ n \in Int
        OBVIOUS
      <3>2. /\ SubSeq(r, 1, n) \in Seq(Word)
            /\ Len(SubSeq(r, 1, n)) = (IF 1 <= n THEN n - 1 + 1 ELSE 0)
            /\ \A i \in 1 .. n - 1 + 1 : SubSeq(r, 1, n)[i] = r[1 + i - 1]
        BY <2>4, <3>1, SubSeqProperties
      <3>3. /\ SubSeq(t, 1, n) \in Seq(Word)
            /\ Len(SubSeq(t, 1, n)) = (IF 1 <= n THEN n - 1 + 1 ELSE 0)
            /\ \A i \in 1 .. n - 1 + 1 : SubSeq(t, 1, n)[i] = t[1 + i - 1]
        BY <2>4, <3>1, SubSeqProperties
      <3>4. n - 1 + 1 = n /\ (IF 1 <= n THEN n - 1 + 1 ELSE 0) = n /\ \A i \in 1 .. n : 1 + i - 1 = i
        OBVIOUS
      <3>5. Len(SubSeq(r, 1, n)) = Len(SubSeq(t, 1, n)) /\ Len(SubSeq(r, 1, n)) = n
            /\ \A i \in 1 .. n : SubSeq(r, 1, n)[i] = SubSeq(t, 1, n)[i]
        BY <2>3, <3>2, <3>3, <3>4
      <3> QED
        BY <3>2, <3>3, <3>5, SeqEqual
    <2>7. IsPrefix(r, t)
      BY <1>0, <2>5, <2>6 DEF IsPrefix
    <2> QED
      BY <2>7 DEF IsSuffix, r, t
  <1> QED
    BY <1>0, <1>1, <1>4, <1>5 DEF s, a, len

\* _overlap repeats the end of the last prose, or nothing.
LEMMA OverlapFits ==
    ASSUME NEW ps \in Seq(BlockType), \A k \in DOMAIN ps : Placed(ps[k])
    PROVE  Overlap(ps) = <<>> \/ \E o : Overlap(ps) = <<o>> /\ Repeats(o, ps)
  <1> DEFINE prose == {k \in DOMAIN ps : ps[k].kind = "prose"}
             last == ps[Max(prose)]
             n == Min({Len(last.text), OverlapTokens - Special})
             o == [last EXCEPT !.kind = "overlap",
                               !.text = SubSeq(@, Len(@) - n + 1, Len(@))]
  <1>1. CASE prose = {}
    BY <1>1 DEF Overlap
  <1>2. CASE prose # {}
    <2>1. Overlap(ps) = <<o>>
      BY <1>2 DEF Overlap
    <2>2. Len(ps) \in Nat /\ DOMAIN ps = 1 .. Len(ps)
      BY LenProperties
    <2>3. Max(prose) \in prose
      <3>1. prose \in SUBSET Nat /\ \A x \in prose : x <= Len(ps)
        BY <2>2
      <3> HIDE DEF prose
      <3> QED
        BY <1>2, <2>2, <3>1, Greatest
    <2>4. Max(prose) \in DOMAIN ps /\ last.kind = "prose" /\ Placed(last)
      BY <2>3
    <2> DEFINE m == Max(prose)
    <2> HIDE DEF prose
    <2>5. last \in BlockType /\ last.text \in Seq(Word) /\ last.text # <<>> /\ Len(last.text) \in Nat
          /\ Len(last.text) # 0
      <3>1. last \in BlockType /\ last.text # <<>>
        BY <2>4 DEF Placed, PieceFits
      <3>2. last.text \in Seq(Word)
        BY <3>1 DEF BlockType
      <3> HIDE DEF last
      <3> QED
        BY <3>1, <3>2, EmptySeq, LenProperties
    <2>6. OverlapTokens - Special \in Nat /\ OverlapTokens - Special # 0 /\ Special \in Nat
          /\ OverlapTokens \in Nat
      BY TokensAssumption
    <2>7. n \in Nat /\ n # 0 /\ n <= Len(last.text) /\ n + Special <= OverlapTokens
      <3> HIDE DEF last
      <3>1. n = IF Len(last.text) <= OverlapTokens - Special THEN Len(last.text)
                ELSE OverlapTokens - Special
        BY <2>5, <2>6, MinOfTwo
      <3> QED
        BY <2>5, <2>6, <3>1
    <2> DEFINE t == SubSeq(last.text, Len(last.text) - n + 1, Len(last.text))
    <2>8. t \in Seq(Word) /\ Len(t) = n /\ ToSet(t) \subseteq ToSet(last.text) /\ IsSuffix(t, last.text)
      <3> HIDE DEF last, n
      <3> QED
        BY <2>5, <2>7, EndIsSuffix
    <2>9. /\ o \in BlockType /\ o.kind = "overlap" /\ o.page = last.page /\ o.path = last.path
          /\ o.text = t
      <3>1. o = [last EXCEPT !.kind = "overlap", !.text = t]
        OBVIOUS
      <3> HIDE DEF last, t
      <3> QED
        BY <2>5, <2>8, <3>1 DEF BlockType
    <2> HIDE DEF o, t, n, last
    <2>10. CountTokens(o.text) <= OverlapTokens /\ CountTokens(o.text) <= HardMaxTokens /\ o.text # <<>>
      <3>1. CountTokens(o.text) = Special + n
        BY <2>8, <2>9 DEF CountTokens
      <3>2. OverlapTokens < HardMaxTokens /\ HardMaxTokens \in Nat
        BY TokensAssumption
      <3>3. o.text # <<>>
        BY <2>7, <2>8, <2>9, EmptySeq
      <3> QED
        BY <2>6, <2>7, <3>1, <3>2, <3>3
    <2>11. Placed(o)
      BY <2>4, <2>8, <2>9, <2>10 DEF Placed, PieceFits
    <2>12. Repeats(o, ps)
      BY <2>4, <2>8, <2>9, <2>10, <2>11 DEF Repeats, last
    <2> QED
      BY <2>1, <2>12
  <1> QED
    BY <1>1, <1>2

-----------------------------------------------------------------------------
(* What a step does. *)

\* An interval from 1 has one end.
LEMMA SameLength ==
    ASSUME NEW m \in Nat, NEW n \in Nat, 1 .. m = 1 .. n
    PROVE  m = n
  <1>1. m # 0 => m \in 1 .. n
    <2>1. m # 0 => m \in 1 .. m
      OBVIOUS
    <2> QED
      BY <2>1
  <1>2. n # 0 => n \in 1 .. m
    <2>1. n # 0 => n \in 1 .. n
      OBVIOUS
    <2> QED
      BY <2>1
  <1> QED
    BY <1>1, <1>2

\* What the parser adds for lines i .. j.
Added(bs, i, j, path) ==
    /\ bs \in Seq(BlockType)
    /\ \A k \in DOMAIN bs :
        /\ Placed(bs[k]) /\ bs[k].kind \in Own
        /\ bs[k].page = doc[i].page /\ bs[k].path = path
        /\ ToSet(bs[k].text) \subseteq Words(i, j)
        /\ bs[k].kind = "heading" => Heading(i) /\ j = i

\* Blocks made of texts say what the texts say.
LEMMA MadeOfTexts ==
    ASSUME NEW texts \in Seq(Seq(Word)), NEW kind \in Own, NEW page \in Nat, NEW path \in Seq(Nat),
           NEW bs, bs = [k \in DOMAIN texts |-> Block(kind, page, path, texts[k])]
    PROVE  /\ bs \in Seq(BlockType) /\ DOMAIN bs = DOMAIN texts
           /\ \A k \in DOMAIN texts :
                /\ bs[k] \in BlockType /\ bs[k].kind = kind /\ bs[k].page = page
                /\ bs[k].path = path /\ bs[k].text = texts[k]
           /\ PartsText(bs, Own) = FlattenSeq(texts)
  <1>1. Len(texts) \in Nat /\ DOMAIN texts = 1 .. Len(texts)
    BY LenProperties
  <1>2. ASSUME NEW k \in DOMAIN texts
        PROVE  /\ Block(kind, page, path, texts[k]) \in BlockType
               /\ Block(kind, page, path, texts[k]).kind = kind
               /\ Block(kind, page, path, texts[k]).page = page
               /\ Block(kind, page, path, texts[k]).path = path
               /\ Block(kind, page, path, texts[k]).text = texts[k]
    <2>1. texts[k] \in Seq(Word)
      OBVIOUS
    <2> QED
      BY <2>1 DEF Block, BlockType
  <1>3. bs \in [1 .. Len(texts) -> BlockType]
    BY <1>1, <1>2
  <1>4. bs \in Seq(BlockType)
    <2> DEFINE n == Len(texts)
    <2>1. n \in Nat /\ bs \in [1 .. n -> BlockType]
      BY <1>1, <1>3
    <2> HIDE DEF n
    <2> QED
      BY <2>1
  <1>5. \A k \in DOMAIN texts : bs[k].kind \in Own /\ bs[k].text = texts[k]
    BY <1>2
  <1>6. [k \in DOMAIN bs |-> IF bs[k].kind \in Own THEN bs[k].text ELSE <<>>]
        = [k \in DOMAIN texts |-> texts[k]]
    <2>1. DOMAIN bs = DOMAIN texts
      OBVIOUS
    <2> QED
      BY <1>5, <2>1
  <1>7. texts = [k \in DOMAIN texts |-> texts[k]]
    OBVIOUS
  <1>8. PartsText(bs, Own) = FlattenSeq(texts)
    BY <1>6, <1>7 DEF PartsText
  <1> QED
    BY <1>2, <1>4, <1>8

\* The path of a block is of lines.
LEMMA PathTyped ==
    ASSUME headings \in Seq(Nat), NEW i \in Nat
    PROVE  Path(i) \in Seq(Nat)
  <1> DEFINE n == Min({Level(i) - 1, Len(headings)})
             s == SubSeq(headings, 1, n)
  <1>1. Len(headings) \in Nat /\ Level(i) - 1 \in Nat
    BY LenProperties DEF Level
  <1>2. n \in Nat /\ n <= Len(headings)
    <2> HIDE DEF n
    <2>1. n = IF Level(i) - 1 <= Len(headings) THEN Level(i) - 1 ELSE Len(headings)
      BY <1>1, MinOfTwo DEF n
    <2> QED
      BY <1>1, <2>1
  <1> HIDE DEF n
  <1>3. s \in Seq(Nat)
    <2>1. \A k \in 1 .. n : headings[k] \in Nat
      BY <1>1, <1>2, ElementOfSeq
    <2>2. 1 \in Int /\ n \in Int
      BY <1>2
    <2> QED
      BY <2>1, <2>2, SubSeqProperties
  <1>4. Path(i) = IF Heading(i) THEN Append(s, i) ELSE headings
    BY DEF Path, n
  <1> HIDE DEF s
  <1>5. Append(s, i) \in Seq(Nat)
    BY <1>3, AppendProperties
  <1> QED
    BY <1>4, <1>5

\* ParseBlock: one block, or the pieces of one, in place of its lines.
LEMMA ParseStep ==
    ASSUME DocFits, index \in 1 .. Len(doc) + 1, headings \in Seq(Nat), ParseBlock
    PROVE  /\ status = "parsing" /\ index \in 1 .. Len(doc) /\ ~Blank(index)
           /\ headings' = Path(index) /\ headings' \in Seq(Nat)
           /\ UNCHANGED <<doc, parts, chunks>>
           /\ \E j \in index .. Len(doc), bs \in Seq(BlockType) :
                /\ index' = j + 1 /\ blocks' = blocks \o bs /\ Added(bs, index, j, headings')
                /\ OnePage(index, j) /\ (Heading(index) => j = index)
                /\ \/ /\ status' = "parsing" /\ bs # <<>>
                      /\ ToSet(PartsText(bs, Own)) = Words(index, j) /\ Nearly(PartsText(bs, Own))
                      /\ \/ \A k \in DOMAIN bs : bs[k].kind \notin Plain
                         \/ /\ \A k \in DOMAIN bs : bs[k].kind \in Plain
                            /\ Ordered(PartsText(bs, Own))
                   \/ status' \in Causes
  <1>1. status = "parsing" /\ index \in 1 .. Len(doc) /\ ~Blank(index)
    BY ParseTakes
  <1>2. PICK kind \in Own, j \in index .. Len(doc) :
                /\ Take(kind, j) /\ OnePage(index, j)
                /\ kind = "table" => index < j
                /\ kind = "heading" => Heading(index) /\ j = index
                /\ Heading(index) => kind = "heading"
    BY ParseTakes
  <1>3. index \in Nat /\ j \in Nat /\ Len(doc) \in Nat /\ j <= Len(doc) /\ 1 <= index
        /\ doc[index].page \in Nat
    BY <1>1, DocTyped
  <1> DEFINE pieces == Bounded(kind, index, j)
             texts == pieces.texts
             split == IF kind = "heading" /\ Len(texts) > 1 THEN "prose" ELSE kind
             path == Path(index)
             page == doc[index].page
             bs == [k \in DOMAIN texts |-> Block(split, page, path, texts[k])]
  <1>4. SplitFits(pieces, index, j) /\ (kind \in Plain => Ordered(FlattenSeq(texts)))
    <2>1. kind = "table" => index < j
      BY <1>2
    <2> QED
      BY <1>1, <2>1, BoundedFits
  <1>5. path \in Seq(Nat)
    BY <1>3, PathTyped
  <1>6. /\ index' = j + 1 /\ headings' = path /\ blocks' = blocks \o bs
        /\ status' = IF pieces.refused = "none" THEN status ELSE pieces.refused
        /\ UNCHANGED <<doc, parts, chunks>>
    BY <1>2 DEF Take
  <1>7. split \in Own /\ (split = "heading" => kind = "heading") /\ (split \in Plain <=> kind \in Plain)
    BY DEF Own, Plain
  <1>8. texts \in Seq(Seq(Word)) /\ pieces.refused \in {"none"} \cup Causes
        /\ \A k \in DOMAIN texts : PieceFits(texts[k], index, j)
    BY <1>4 DEF SplitFits
  <1>9. /\ pieces.refused = "none" =>
            /\ texts # <<>>
            /\ ToSet(FlattenSeq(texts)) = Words(index, j)
            /\ Nearly(FlattenSeq(texts))
    BY <1>4 DEF SplitFits
  <1> HIDE DEF pieces, split, path
  <1>10. page \in Nat
    BY <1>3
  <1> HIDE DEF page
  <1>11. /\ bs \in Seq(BlockType) /\ DOMAIN bs = DOMAIN texts
         /\ \A k \in DOMAIN texts :
                /\ bs[k] \in BlockType /\ bs[k].kind = split /\ bs[k].page = page
                /\ bs[k].path = path /\ bs[k].text = texts[k]
         /\ PartsText(bs, Own) = FlattenSeq(texts)
    <2>1. split \in Own /\ texts \in Seq(Seq(Word))
          /\ bs = [k \in DOMAIN texts |-> Block(split, page, path, texts[k])]
      BY <1>7, <1>8
    <2> HIDE DEF bs, texts
    <2> QED
      BY ONLY <1>5, <1>10, <2>1, MadeOfTexts
  <1> HIDE DEF bs, texts
  <1>12. ASSUME NEW k \in DOMAIN bs PROVE
            /\ Placed(bs[k]) /\ bs[k].kind \in Own
            /\ bs[k].page = page /\ bs[k].path = path
            /\ ToSet(bs[k].text) \subseteq Words(index, j)
            /\ bs[k].kind = "heading" => Heading(index) /\ j = index
    <2>1. /\ bs[k] \in BlockType /\ bs[k].kind = split /\ bs[k].page = page
          /\ bs[k].path = path /\ bs[k].text = texts[k] /\ PieceFits(texts[k], index, j)
      BY <1>8, <1>11
    <2>2. ToSet(bs[k].text) \subseteq Words(index, j)
      BY <2>1 DEF PieceFits
    <2>3. Words(index, j) \subseteq Words(1, Len(doc))
      BY <1>3 DEF Words
    <2>4. \A w \in Words(index, j) : doc[w[1]].page = page
      BY <1>2 DEF OnePage, Words, page
    <2>5. Placed(bs[k])
      BY <2>1, <2>2, <2>3, <2>4 DEF Placed, PieceFits
    <2> QED
      BY <1>2, <1>7, <2>1, <2>2, <2>5
  <1>13. Added(bs, index, j, headings')
    BY <1>6, <1>11, <1>12 DEF Added, page
  <1>14. bs # <<>> <=> texts # <<>>
    <2>1. DOMAIN bs = DOMAIN texts /\ bs \in Seq(BlockType) /\ texts \in Seq(Seq(Word))
      BY <1>8, <1>11
    <2>2. DOMAIN bs = 1 .. Len(bs) /\ DOMAIN texts = 1 .. Len(texts) /\ Len(bs) \in Nat /\ Len(texts) \in Nat
      BY <2>1, LenProperties
    <2>3. Len(bs) = Len(texts)
      BY <2>1, <2>2, SameLength
    <2>4. (bs = <<>> <=> Len(bs) = 0) /\ (texts = <<>> <=> Len(texts) = 0)
      BY <2>1, EmptySeq
    <2> QED
      BY <2>3, <2>4
  <1>15. \/ /\ status' = "parsing" /\ bs # <<>>
            /\ ToSet(PartsText(bs, Own)) = Words(index, j) /\ Nearly(PartsText(bs, Own))
            /\ \/ \A k \in DOMAIN bs : bs[k].kind \notin Plain
               \/ /\ \A k \in DOMAIN bs : bs[k].kind \in Plain
                  /\ Ordered(PartsText(bs, Own))
         \/ status' \in Causes
    <2>1. CASE pieces.refused = "none"
      <3>1. \A k \in DOMAIN bs : bs[k].kind = split
        BY <1>11
      <3>2. \/ \A k \in DOMAIN bs : bs[k].kind \notin Plain
            \/ (\A k \in DOMAIN bs : bs[k].kind \in Plain) /\ Ordered(PartsText(bs, Own))
        BY <1>4, <1>7, <1>11, <3>1
      <3> QED
        BY <1>1, <1>6, <1>9, <1>11, <1>14, <2>1, <3>2
    <2>2. CASE pieces.refused # "none"
      BY <1>6, <1>8, <2>2
    <2> QED
      BY <2>1, <2>2
  <1>16. OnePage(index, j) /\ (Heading(index) => j = index)
    BY <1>2
  <1>17. headings' = Path(index) /\ headings' \in Seq(Nat)
    BY <1>5, <1>6 DEF path
  <1>18. bs \in Seq(BlockType) /\ index' = j + 1 /\ blocks' = blocks \o bs
    BY <1>6, <1>11
  <1> QED
    BY <1>1, <1>6, <1>13, <1>15, <1>16, <1>17, <1>18
\* A sequence is its head and its tail.
LEMMA HeadPlaces ==
    ASSUME NEW S, NEW s \in Seq(S), s # <<>>
    PROVE  /\ Head(s) = s[1] /\ Head(s) \in S /\ 1 \in DOMAIN s
           /\ Tail(s) \in Seq(S) /\ DOMAIN Tail(s) = 1 .. Len(s) - 1
           /\ Len(s) \in Nat /\ DOMAIN s = 1 .. Len(s)
           /\ \A k \in DOMAIN Tail(s) : Tail(s)[k] = s[k + 1] /\ k + 1 \in DOMAIN s
  <1>1. Len(s) \in Nat /\ Len(s) # 0 /\ DOMAIN s = 1 .. Len(s)
    BY EmptySeq, LenProperties
  <1>2. 1 \in DOMAIN s
    BY <1>1
  <1>3. Head(s) = s[1]
    OBVIOUS
  <1>4. Tail(s) \in Seq(S) /\ Len(Tail(s)) = Len(s) - 1
        /\ \A k \in 1 .. Len(Tail(s)) : Tail(s)[k] = s[k + 1]
    BY HeadTailProperties
  <1>5. DOMAIN Tail(s) = 1 .. Len(s) - 1
    BY <1>4, LenProperties
  <1> QED
    BY <1>1, <1>2, <1>3, <1>4, <1>5

\* Two elements.
LEMMA AppendOne ==
    ASSUME NEW S, NEW a \in S, NEW b \in S
    PROVE  Append(<<a>>, b) = <<a, b>> /\ Append(<<>>, b) = <<b>>
  <1>1. <<a>> \in Seq(S) /\ Len(<<a>>) = 1 /\ <<a>>[1] = a
    OBVIOUS
  <1> DEFINE s == Append(<<a>>, b)
             t == <<a, b>>
  <1>2. s \in Seq(S) /\ Len(s) = 2 /\ s[2] = b /\ s[1] = a
    <2> DEFINE r == <<a>>
    <2>1. r \in Seq(S) /\ Len(r) = 1 /\ r[1] = a
      BY <1>1
    <2> HIDE DEF r
    <2>2. /\ Append(r, b) \in Seq(S) /\ Len(Append(r, b)) = Len(r) + 1
          /\ Append(r, b)[Len(r) + 1] = b /\ \A k \in 1 .. Len(r) : Append(r, b)[k] = r[k]
      <3>1. r \in Seq(S)
        BY <2>1
      <3> QED
        BY ONLY <3>1, b \in S, AppendPlaces
    <2> QED
      BY <2>1, <2>2 DEF r
  <1>3. t \in Seq(S) /\ Len(t) = 2 /\ t[1] = a /\ t[2] = b
    OBVIOUS
  <1>4. Append(<<>>, b) = <<b>>
    OBVIOUS
  <1> HIDE DEF s, t
  <1>5. \A k \in 1 .. Len(s) : s[k] = t[k]
    BY <1>2, <1>3
  <1>6. s = t
    BY <1>2, <1>3, <1>5, SeqEqual
  <1> QED
    BY <1>4, <1>6 DEF s, t

\* flush: parts that have been packed are refused for the number of chunks alone.
LEMMA FlushFits ==
    ASSUME NEW ps \in Seq(BlockType), ps # <<>>, \A k \in DOMAIN ps : Placed(ps[k]),
           Total(ps) <= HardMaxTokens
    PROVE  FlushProblem(ps) \in {"none", "chunk limit"}
  <1>1. \A k \in DOMAIN ps : ps[k].text # <<>>
    BY DEF Placed, PieceFits
  <1>2. Total(ps) > Special
    BY <1>1, TotalSome
  <1>3. PICK s \in Seq(BlockType), b \in BlockType : ps = Append(s, b)
    BY SequenceEmptyOrAppend
  <1>4. Total(ps) \in Nat /\ Special \in Nat /\ HardMaxTokens \in Nat
    BY Totals, <1>3, TokensAssumption
  <1>5. Total(ps) # Special /\ ~(Total(ps) > HardMaxTokens)
    BY <1>2, <1>4
  <1> QED
    BY <1>5 DEF FlushProblem

\* Pack: the block goes to the parts, or to what a full chunk leaves for the next.
LEMMA PackStep ==
    ASSUME blocks \in Seq(BlockType), parts \in Seq(BlockType),
           \A k \in DOMAIN blocks : Placed(blocks[k]), \A k \in DOMAIN parts : Placed(parts[k]),
           Total(parts) <= HardMaxTokens, Pack
    PROVE  /\ status = "packing" /\ blocks # <<>> /\ blocks' = Tail(blocks)
           /\ UNCHANGED <<doc, index, headings>>
           /\ status' \in {"packing", "chunk limit"} /\ Total(parts') <= HardMaxTokens
           /\ \/ chunks' = chunks /\ parts' = Append(parts, Head(blocks))
              \/ /\ parts # <<>> /\ chunks' = Append(chunks, FinishChunk(parts))
                 /\ \/ parts' = <<Head(blocks)>>
                    \/ \E o : Repeats(o, parts) /\ parts' = <<o, Head(blocks)>>
  <1> DEFINE block == Head(blocks)
             full == parts # <<>> /\ Total(Append(parts, block)) > TargetTokens
             kept == IF full THEN Overlap(parts) ELSE parts
             next == Append(Room(kept, block), block)
  <1>1. /\ status = "packing" /\ blocks # <<>> /\ blocks' = Tail(blocks)
        /\ UNCHANGED <<doc, index, headings>>
        /\ chunks' = IF full THEN Append(chunks, FinishChunk(parts)) ELSE chunks
        /\ parts' = next
        /\ status' = IF full /\ FlushProblem(parts) # "none" THEN FlushProblem(parts)
                     ELSE IF Total(next) > HardMaxTokens THEN "block beyond the maximum"
                     ELSE status
    BY DEF Pack
  <1>2. block \in BlockType /\ Placed(block)
    <2>1. block = blocks[1] /\ 1 \in DOMAIN blocks
      BY <1>1, HeadPlaces
    <2> QED
      BY <2>1 DEF Placed
  <1> HIDE DEF block
  <1>3. /\ Special \in Nat /\ HardMaxTokens \in Nat /\ TargetTokens \in Nat
        /\ TargetTokens < HardMaxTokens
    BY TokensAssumption
  <1>4. ASSUME NEW ps \in Seq(BlockType) PROVE Total(Append(ps, block)) \in Nat
    <2>1. Append(ps, block) \in Seq(BlockType)
      BY <1>2, AppendPlaces
    <2> QED
      BY <1>2, <2>1, Totals
  <1>5. <<>> \in Seq(BlockType) /\ Total(Append(<<>>, block)) <= HardMaxTokens
    <2>0. <<>> \in Seq(BlockType)
      BY EmptySeq
    <2>1. Total(Append(<<>>, block)) = Total(<<>>) + Len(block.text) /\ Total(<<>>) = Special
          /\ Len(block.text) \in Nat
      BY <1>2, <2>0, Totals
    <2>2. Special + Len(block.text) <= HardMaxTokens
      BY <1>2 DEF Placed, PieceFits, CountTokens
    <2> QED
      BY <2>0, <2>1, <2>2
  <1>6. Append(<<>>, block) = <<block>>
    OBVIOUS
  <1>7. ASSUME NEW ps \in Seq(BlockType)
        PROVE  /\ Room(ps, block) \in {<<>>, ps}
               /\ Total(Append(Room(ps, block), block)) <= HardMaxTokens
               /\ Total(Append(ps, block)) <= HardMaxTokens => Room(ps, block) = ps
    <2>1. CASE Total(Append(ps, block)) > HardMaxTokens
      <3>1. Room(ps, block) = <<>>
        BY <2>1 DEF Room
      <3> QED
        BY <1>3, <1>4, <1>5, <2>1, <3>1
    <2>2. CASE ~(Total(Append(ps, block)) > HardMaxTokens)
      <3>1. Room(ps, block) = ps
        BY <2>2 DEF Room
      <3> QED
        BY <1>3, <1>4, <2>2, <3>1
    <2> QED
      BY <2>1, <2>2
  <1>8. CASE ~full
    <2>1. kept = parts /\ chunks' = chunks
      BY <1>1, <1>8
    <2>2. Total(Append(parts, block)) <= HardMaxTokens
      <3>1. CASE parts = <<>>
        BY <1>5, <3>1
      <3>2. CASE parts # <<>>
        <4>1. ~(Total(Append(parts, block)) > TargetTokens)
          BY <1>8, <3>2
        <4> QED
          BY <1>3, <1>4, <4>1
      <3> QED
        BY <3>1, <3>2
    <2>3. next = Append(parts, block)
      BY <1>7, <2>1, <2>2
    <2> HIDE DEF next, full
    <2>4. status' = "packing"
      <3>1. ~(Total(next) > HardMaxTokens)
        BY <1>3, <1>4, <2>2, <2>3
      <3> QED
        BY <1>1, <1>8, <3>1
    <2> QED
      BY <1>1, <2>1, <2>2, <2>3, <2>4 DEF block
  <1>9. CASE full
    <2>1. kept = Overlap(parts) /\ chunks' = Append(chunks, FinishChunk(parts)) /\ parts # <<>>
      BY <1>1, <1>9
    <2>2. FlushProblem(parts) \in {"none", "chunk limit"}
      BY <2>1, FlushFits
    <2>3. PICK o : kept = <<>> \/ (kept = <<o>> /\ Repeats(o, parts))
      BY <2>1, OverlapFits
    <2>4. kept \in Seq(BlockType)
      <3>1. CASE kept = <<>>
        BY <1>5, <3>1
      <3>2. CASE kept = <<o>> /\ Repeats(o, parts)
        <4>1. o \in BlockType
          BY <3>2 DEF Repeats, Placed
        <4> HIDE DEF kept
        <4> QED
          BY <3>2, <4>1
      <3> HIDE DEF kept
      <3> QED
        BY <2>3, <3>1, <3>2
    <2> HIDE DEF kept, full
    <2>5. Total(next) <= HardMaxTokens /\ (next = Append(<<>>, block) \/ next = Append(kept, block))
      BY <1>7, <2>4
    <2>6. next = <<block>> \/ (Repeats(o, parts) /\ next = <<o, block>>)
      <3>1. Repeats(o, parts) => o \in BlockType
        BY DEF Repeats, Placed
      <3>2. Repeats(o, parts) => Append(<<o>>, block) = <<o, block>>
        BY <1>2, <3>1, AppendOne
      <3> HIDE DEF next
      <3> QED
        BY <1>6, <2>3, <2>5, <3>2
    <2>7. Total(next) \in Nat
      BY <1>4, <1>5, <2>4, <2>5
    <2> HIDE DEF next
    <2>8. status' \in {"packing", "chunk limit"}
      <3>1. ~(Total(next) > HardMaxTokens)
        BY <1>3, <2>5, <2>7
      <3> QED
        BY <1>1, <2>2, <3>1
    <2> QED
      BY <1>1, <2>1, <2>5, <2>6, <2>8 DEF block
  <1> HIDE DEF full
  <1> QED
    BY <1>8, <1>9

\* PackEnds: the parts that are left become the last chunk.
LEMMA PackEndsStep ==
    ASSUME parts \in Seq(BlockType), parts # <<>>, \A k \in DOMAIN parts : Placed(parts[k]),
           Total(parts) <= HardMaxTokens, PackEnds
    PROVE  /\ status = "packing" /\ blocks = <<>> /\ UNCHANGED <<doc, index, headings, blocks>>
           /\ status' \in {"done", "chunk limit"}
           /\ chunks' = Append(chunks, FinishChunk(parts))
           /\ parts' = <<>> \/ \E o : Repeats(o, parts) /\ parts' = <<o>>
  <1>1. FlushProblem(parts) \in {"none", "chunk limit"}
    BY FlushFits
  <1>2. Overlap(parts) = <<>> \/ \E o : Overlap(parts) = <<o>> /\ Repeats(o, parts)
    BY OverlapFits
  <1> QED
    BY <1>1, <1>2 DEF PackEnds
-----------------------------------------------------------------------------
(* The inductive invariant. *)

Active == status \in {"parsing", "packing"}

\* The document is as the formatter leaves it, what is made of it is placed in it,
\* nothing is packed before all is parsed, and a line with text leaves a block.
Fit ==
    /\ DocFits /\ RefusedForACause
    /\ index \in 1 .. Len(doc) + 1 /\ headings \in Seq(Nat)
    /\ blocks \in Seq(BlockType) /\ parts \in Seq(BlockType)
    /\ \A b \in ToSet(blocks) : Placed(b) /\ b.kind \in Own
    /\ \A b \in ToSet(parts) : Placed(b)
    /\ status = "parsing" =>
        /\ parts = <<>> /\ chunks = <<>>
        /\ \A i \in 1 .. index - 1 : ~Blank(i) => blocks # <<>>
    /\ status = "packing" =>
        /\ index = Len(doc) + 1 /\ (blocks # <<>> \/ parts # <<>>)
        /\ Total(parts) <= HardMaxTokens

\* What is said of the document stays while it does.
LEMMA DocSame ==
    ASSUME doc' = doc
    PROVE  /\ DocFits <=> DocFits'
           /\ \A b : Placed(b)' <=> Placed(b)
           /\ \A i, j : Words(i, j)' = Words(i, j)
           /\ \A i : Blank(i)' <=> Blank(i)
           /\ \A o, ps : Repeats(o, ps)' <=> Repeats(o, ps)
  <1>1. \A i : Blank(i)' <=> Blank(i)
    BY DEF Blank
  <1>2. DocFits <=> DocFits'
    BY <1>1 DEF DocFits
  <1>3. \A i, j : Words(i, j)' = Words(i, j)
    BY DEF Words
  <1>4. \A b : Placed(b)' <=> Placed(b)
    BY <1>3 DEF Placed, PieceFits, CountTokens
  <1>5. \A o, ps : Repeats(o, ps)' <=> Repeats(o, ps)
    BY <1>4 DEF Repeats, CountTokens
  <1> QED
    BY <1>1, <1>2, <1>3, <1>4, <1>5

\* The pages of a document are numbered from its start.
LEMMA NumberedFits ==
    ASSUME NEW n \in Nat, n > 0, NEW lines \in [1 .. n -> LineSet], NEW starts \in SUBSET (2 .. n),
           doc = Numbered(lines, starts), Formatted(doc)
    PROVE  DocFits
  <1> DEFINE Before2(i) == {b \in starts : b <= i}
  <1>1. ASSUME NEW i \in 1 .. n, NEW j \in 1 .. n, i <= j
        PROVE  Cardinality(Before2(i)) \in Nat /\ Cardinality(Before2(i)) <= Cardinality(Before2(j))
    <2>1. IsFiniteSet(2 .. n)
      BY FS_Interval
    <2>2. Before2(j) \in SUBSET (2 .. n) /\ Before2(i) \in SUBSET Before2(j)
      <3>1. \A b \in 2 .. n : b <= i => b <= j
        BY <1>1
      <3> QED
        BY <3>1
    <2> HIDE DEF Before2
    <2>3. IsFiniteSet(Before2(j))
      BY <2>1, <2>2, FS_Subset
    <2>4. IsFiniteSet(Before2(i)) /\ Cardinality(Before2(i)) <= Cardinality(Before2(j))
      BY <2>2, <2>3, FS_Subset
    <2> QED
      BY <2>4, FS_CardinalityType
  <1> DEFINE page(i) == 1 + Cardinality(Before2(i))
  <1>2. doc = [i \in 1 .. n |-> [page |-> page(i), kind |-> lines[i].kind, size |-> lines[i].size]]
    BY DEF Numbered
  <1> HIDE DEF Before2
  <1>3. ASSUME NEW i \in 1 .. n
        PROVE  /\ page(i) \in Nat /\ lines[i] \in LineSet /\ lines[i].size \in Nat
               /\ lines[i].size = 0 <=> lines[i].kind = "blank"
    <2>1. i <= i
      OBVIOUS
    <2>2. Cardinality(Before2(i)) \in Nat
      BY <1>1, <2>1
    <2>3. lines[i] \in LineSet
      OBVIOUS
    <2> QED
      BY <2>2, <2>3, LinesAssumption
  <1>4. \A i, j \in 1 .. n : i <= j => page(i) <= page(j)
    <2> TAKE i \in 1 .. n, j \in 1 .. n
    <2> HAVE i <= j
    <2>1. Cardinality(Before2(i)) \in Nat /\ Cardinality(Before2(i)) <= Cardinality(Before2(j))
      BY <1>1
    <2>2. Cardinality(Before2(j)) \in Nat
      <3>1. j <= j
        OBVIOUS
      <3> QED
        BY <1>1, <3>1
    <2> QED
      BY <2>1, <2>2
  <1> HIDE DEF page
  <1>5. /\ DOMAIN doc = 1 .. n
        /\ \A i \in 1 .. n : /\ doc[i].page = page(i) /\ doc[i].kind = lines[i].kind
                             /\ doc[i].size = lines[i].size
    BY <1>2
  <1>6. doc \in Seq(Line)
    <2>1. doc \in [1 .. n -> Line]
      <3>1. \A i \in 1 .. n : [page |-> page(i), kind |-> lines[i].kind, size |-> lines[i].size] \in Line
        BY <1>3 DEF Line
      <3> QED
        BY <1>2, <3>1
    <2> QED
      BY <2>1
  <1>7. \A i \in DOMAIN doc : doc[i].size = 0 <=> Blank(i)
    BY <1>3, <1>5 DEF Blank
  <1>8. \A i, j \in DOMAIN doc : i <= j => doc[i].page <= doc[j].page
    BY <1>4, <1>5
  <1>9. \E i \in DOMAIN doc : ~Blank(i)
    <2> DEFINE p == doc[1].page
    <2>1. 1 \in DOMAIN doc
      BY <1>5
    <2>2. p \in {doc[i].page : i \in DOMAIN doc}
      BY <2>1
    <2>3. \E i \in {i \in DOMAIN doc : doc[i].page = p} : doc[i].kind # "blank"
      BY <2>2 DEF Formatted
    <2> QED
      BY <2>3 DEF Blank
  <1> QED
    BY <1>6, <1>7, <1>8, <1>9 DEF DocFits

\* The invariant holds at the start.
LEMMA FitInit == Init => Fit
  <1> SUFFICES ASSUME Init PROVE Fit
    OBVIOUS
  <1>1. DocFits
    <2>1. PICK n \in 1 .. MaxLines : \E lines \in [1 .. n -> LineSet], starts \in SUBSET (2 .. n) :
            doc \in {d \in {Numbered(lines, starts)} : Formatted(d)}
      BY DEF Init
    <2>2. PICK lines \in [1 .. n -> LineSet], starts \in SUBSET (2 .. n) :
            doc = Numbered(lines, starts) /\ Formatted(doc)
      BY <2>1
    <2>3. n \in Nat /\ n > 0
      BY BoundsAssumption
    <2> QED
      BY <2>2, <2>3, NumberedFits
  <1>2. /\ index = 1 /\ headings = <<>> /\ blocks = <<>> /\ parts = <<>> /\ chunks = <<>>
        /\ status = "parsing"
    BY DEF Init
  <1>3. <<>> \in Seq(Nat) /\ <<>> \in Seq(BlockType) /\ ToSet(<<>>) = {}
    BY EmptySeq DEF ToSet
  <1>4. 1 \in 1 .. Len(doc) + 1 /\ 1 .. 1 - 1 = {}
    BY <1>1, DocTyped
  <1>5. RefusedForACause
    BY <1>2 DEF RefusedForACause
  <1> QED
    BY <1>1, <1>2, <1>3, <1>4, <1>5 DEF Fit

\* Elements of the sequences that the steps make.
LEMMA ElementsOf ==
    ASSUME NEW S, NEW s \in Seq(S)
    PROVE  /\ \A t \in Seq(S) : s \o t \in Seq(S) /\ ToSet(s \o t) = ToSet(s) \cup ToSet(t)
           /\ \A e \in S : Append(s, e) \in Seq(S) /\ ToSet(Append(s, e)) = ToSet(s) \cup {e}
           /\ s # <<>> => ToSet(s) = {Head(s)} \cup ToSet(Tail(s)) /\ Tail(s) \in Seq(S) /\ Head(s) \in S
           /\ ToSet(s) \subseteq S /\ (s # <<>> <=> ToSet(s) # {})
  <1>1. \A t \in Seq(S) : s \o t \in Seq(S) /\ ToSet(s \o t) = ToSet(s) \cup ToSet(t)
    BY WordsConcat, ConcatProperties
  <1>2. ASSUME NEW e \in S PROVE Append(s, e) \in Seq(S) /\ ToSet(Append(s, e)) = ToSet(s) \cup {e}
    <2> DEFINE a == Append(s, e)
               n == Len(s)
    <2>1. /\ a \in Seq(S) /\ n \in Nat /\ DOMAIN s = 1 .. n /\ DOMAIN a = 1 .. n + 1
          /\ a[n + 1] = e /\ \A k \in 1 .. n : a[k] = s[k]
      BY AppendPlaces
    <2> HIDE DEF a, n
    <2>2. \A k \in 1 .. n + 1 : k = n + 1 \/ k \in 1 .. n
      BY <2>1
    <2>3. n + 1 \in 1 .. n + 1 /\ \A k \in 1 .. n : k \in 1 .. n + 1
      BY <2>1
    <2>4. ToSet(a) = ToSet(s) \cup {e}
      BY <2>1, <2>2, <2>3 DEF ToSet
    <2> QED
      BY <2>1, <2>4 DEF a
  <1>3. ASSUME s # <<>>
        PROVE  ToSet(s) = {Head(s)} \cup ToSet(Tail(s)) /\ Tail(s) \in Seq(S) /\ Head(s) \in S
    <2> DEFINE t == Tail(s)
               n == Len(s)
    <2>1. /\ Head(s) = s[1] /\ Head(s) \in S /\ 1 \in DOMAIN s
          /\ t \in Seq(S) /\ DOMAIN t = 1 .. n - 1
          /\ n \in Nat /\ DOMAIN s = 1 .. n
          /\ \A k \in DOMAIN t : t[k] = s[k + 1] /\ k + 1 \in DOMAIN s
      BY <1>3, HeadPlaces
    <2> HIDE DEF t, n
    <2>2. \A k \in 1 .. n : k = 1 \/ (k - 1 \in 1 .. n - 1 /\ (k - 1) + 1 = k)
      BY <2>1
    <2>3. \A k \in DOMAIN s : k = 1 \/ (k - 1 \in DOMAIN t /\ t[k - 1] = s[k])
      BY <2>1, <2>2
    <2>4. ToSet(s) \subseteq {Head(s)} \cup ToSet(t)
      BY <2>1, <2>3 DEF ToSet
    <2>5. {Head(s)} \cup ToSet(t) \subseteq ToSet(s)
      BY <2>1 DEF ToSet
    <2> QED
      BY <2>1, <2>4, <2>5 DEF t
  <1>4. ToSet(s) \subseteq S
    BY DEF ToSet
  <1>5. s # <<>> <=> ToSet(s) # {}
    <2>1. s = <<>> => ToSet(s) = {}
      BY DEF ToSet
    <2>2. s # <<>> => ToSet(s) # {}
      BY <1>3
    <2> QED
      BY <2>1, <2>2
  <1> QED
    BY <1>1, <1>2, <1>3, <1>4, <1>5

\* Sequences of one and of two blocks.
LEMMA OneTwo ==
    ASSUME NEW a \in BlockType, NEW b \in BlockType
    PROVE  /\ <<a>> \in Seq(BlockType) /\ <<a>> # <<>> /\ ToSet(<<a>>) = {a} /\ Last(<<a>>) = a
           /\ <<a, b>> \in Seq(BlockType) /\ <<a, b>> # <<>> /\ ToSet(<<a, b>>) = {a, b} /\ Last(<<a, b>>) = b
  <1>1. <<a>> \in Seq(BlockType) /\ <<a>> # <<>> /\ DOMAIN <<a>> = {1} /\ <<a>>[1] = a /\ Len(<<a>>) = 1
    OBVIOUS
  <1>2. /\ <<a, b>> \in Seq(BlockType) /\ <<a, b>> # <<>> /\ DOMAIN <<a, b>> = {1, 2} /\ <<a, b>>[1] = a
        /\ <<a, b>>[2] = b /\ Len(<<a, b>>) = 2
    OBVIOUS
  <1> QED
    BY <1>1, <1>2 DEF ToSet, Last

\* The invariant after a step, of the document before it.
LEMMA FitFrom ==
    ASSUME doc' = doc, DocFits, RefusedForACause',
           index' \in 1 .. Len(doc) + 1, headings' \in Seq(Nat),
           blocks' \in Seq(BlockType), parts' \in Seq(BlockType),
           \A b \in ToSet(blocks') : Placed(b) /\ b.kind \in Own,
           \A b \in ToSet(parts') : Placed(b),
           status' = "parsing" =>
            /\ parts' = <<>> /\ chunks' = <<>>
            /\ \A i \in 1 .. index' - 1 : ~Blank(i) => blocks' # <<>>,
           status' = "packing" =>
            /\ index' = Len(doc) + 1 /\ (blocks' # <<>> \/ parts' # <<>>)
            /\ Total(parts') <= HardMaxTokens
    PROVE  Fit'
  <1>1. DocFits'
    BY DocSame
  <1>2. \A b : Placed(b)' <=> Placed(b)
    BY DocSame
  <1>3. (\A b \in ToSet(blocks) : Placed(b) /\ b.kind \in Own)' /\ (\A b \in ToSet(parts) : Placed(b))'
    BY <1>2
  <1>4. Total(parts)' = Total(parts')
    BY DEF Total, CountTokens
  <1>5. \A i : Blank(i)' <=> Blank(i)
    BY DocSame
  <1> QED
    BY <1>1, <1>3, <1>4, <1>5 DEF Fit

\* The parser keeps the invariant.
LEMMA FitParse ==
    ASSUME Fit, SkipBlank \/ ParseBlock \/ ParseEnds
    PROVE  Fit'
  <1>0. DocFits /\ Len(doc) \in Nat /\ index \in 1 .. Len(doc) + 1 /\ index \in Nat
    BY DocTyped DEF Fit
  <1>1. /\ headings \in Seq(Nat) /\ blocks \in Seq(BlockType) /\ parts \in Seq(BlockType)
        /\ \A b \in ToSet(blocks) : Placed(b) /\ b.kind \in Own
        /\ \A b \in ToSet(parts) : Placed(b)
    BY DEF Fit
  <1>2. /\ status = "parsing" /\ \A i \in 1 .. index - 1 : ~Blank(i) => blocks # <<>>
        /\ parts = <<>> /\ chunks = <<>>
    BY DEF Fit, SkipBlank, ParseBlock, ParseEnds
  <1>3. doc' = doc /\ parts' = parts /\ chunks' = chunks
    <2>1. ASSUME NEW j, NEW kind, Take(kind, j) PROVE doc' = doc /\ parts' = parts /\ chunks' = chunks
      BY <2>1 DEF Take
    <2> QED
      BY <2>1 DEF SkipBlank, ParseBlock, ParseEnds
  <1>4. CASE SkipBlank
    <2>1. /\ index' = index + 1 /\ index <= Len(doc) /\ Blank(index) /\ headings' = headings
          /\ blocks' = blocks /\ status' = status
      BY <1>4 DEF SkipBlank
    <2>2. index' \in 1 .. Len(doc) + 1 /\ \A i \in 1 .. index' - 1 : i = index \/ i \in 1 .. index - 1
      BY <1>0, <2>1
    <2>3. RefusedForACause'
      BY <1>2, <2>1 DEF RefusedForACause
    <2>4. \A i \in 1 .. index' - 1 : ~Blank(i) => blocks' # <<>>
      BY <1>2, <2>1, <2>2
    <2>5. status' = "parsing" /\ status' # "packing"
      BY <1>2, <2>1
    <2> QED
      BY <1>0, <1>1, <1>2, <1>3, <2>1, <2>2, <2>3, <2>4, <2>5, FitFrom
  <1>5. CASE ParseBlock
    <2>1. PICK j \in index .. Len(doc), bs \in Seq(BlockType) :
                /\ index' = j + 1 /\ blocks' = blocks \o bs /\ Added(bs, index, j, headings')
                /\ \/ status' = "parsing" /\ bs # <<>>
                   \/ status' \in Causes
      BY <1>0, <1>1, <1>5, ParseStep
    <2>2. headings' \in Seq(Nat)
      BY <1>0, <1>1, <1>5, ParseStep
    <2>3. blocks' \in Seq(BlockType) /\ ToSet(blocks') = ToSet(blocks) \cup ToSet(bs)
      BY <1>1, <2>1, ElementsOf
    <2>4. \A b \in ToSet(bs) : Placed(b) /\ b.kind \in Own
      BY <2>1 DEF Added, ToSet
    <2>5. \A b \in ToSet(blocks') : Placed(b) /\ b.kind \in Own
      BY <1>1, <2>3, <2>4
    <2>7. index' \in 1 .. Len(doc) + 1
      BY <1>0, <2>1
    <2>8. status' = "parsing" => blocks' # <<>>
      <3>1. "parsing" \notin Causes
        BY DEF Causes
      <3>2. status' = "parsing" => ToSet(blocks') # {}
        BY <2>1, <2>3, <3>1, ElementsOf
      <3> QED
        BY <2>3, <3>2, ElementsOf
    <2>9. status' # "packing" /\ RefusedForACause'
      BY <2>1 DEF RefusedForACause, Causes
    <2> QED
      BY <1>0, <1>1, <1>2, <1>3, <2>2, <2>3, <2>5, <2>7, <2>8, <2>9, FitFrom
  <1>6. CASE ParseEnds
    <2>1. /\ index > Len(doc) /\ index' = index /\ headings' = headings /\ blocks' = blocks
          /\ status' = IF blocks = <<>> THEN "no content" ELSE "packing"
      BY <1>6 DEF ParseEnds
    <2>2. index = Len(doc) + 1
      <3>1. index > Len(doc)
        BY <2>1
      <3> QED
        BY <1>0, <3>1
    <2>3. blocks # <<>>
      <3>1. PICK i \in DOMAIN doc : ~Blank(i)
        BY <1>0 DEF DocFits
      <3>2. i \in 1 .. index - 1
        BY <1>0, <2>2, <3>1, DocTyped
      <3> QED
        BY <1>2, <3>1, <3>2
    <2>4. Total(parts) <= HardMaxTokens
      <3>1. Head(blocks) \in BlockType
        BY <1>1, <2>3, HeadPlaces
      <3>2. <<>> \in Seq(BlockType)
        BY EmptySeq
      <3>3. Total(<<>>) = Special
        BY <3>1, <3>2, Totals
      <3>4. Special <= HardMaxTokens
        BY TokensAssumption
      <3> QED
        BY <1>2, <3>3, <3>4
    <2>5. status' = "packing" /\ RefusedForACause'
      BY <2>1, <2>3 DEF RefusedForACause
    <2> QED
      BY <1>0, <1>1, <1>3, <2>1, <2>2, <2>3, <2>4, <2>5, FitFrom
  <1> QED
    BY <1>4, <1>5, <1>6

\* The invariant while blocks are packed, as the steps need it.
LEMMA FitPacking ==
    ASSUME Fit, status = "packing"
    PROVE  /\ DocFits /\ Len(doc) \in Nat /\ index = Len(doc) + 1
           /\ headings \in Seq(Nat) /\ blocks \in Seq(BlockType) /\ parts \in Seq(BlockType)
           /\ \A b \in ToSet(blocks) : Placed(b) /\ b.kind \in Own
           /\ \A b \in ToSet(parts) : Placed(b)
           /\ \A k \in DOMAIN blocks : Placed(blocks[k])
           /\ \A k \in DOMAIN parts : Placed(parts[k])
           /\ (blocks # <<>> \/ parts # <<>>) /\ Total(parts) <= HardMaxTokens
  BY DocTyped DEF Fit, ToSet

\* What a packed block leaves open.
LEMMA PackedParts ==
    ASSUME Fit, status = "packing", blocks # <<>>,
           \/ parts' = Append(parts, Head(blocks))
           \/ parts' = <<Head(blocks)>>
           \/ \E o : Repeats(o, parts) /\ parts' = <<o, Head(blocks)>>
    PROVE  /\ parts' \in Seq(BlockType) /\ parts' # <<>>
           /\ Head(blocks) \in ToSet(parts') /\ Last(parts') = Head(blocks)
           /\ \A b \in ToSet(parts') : Placed(b)
  <1> DEFINE h == Head(blocks)
  <1>1. blocks \in Seq(BlockType) /\ parts \in Seq(BlockType)
        /\ (\A b \in ToSet(blocks) : Placed(b)) /\ \A b \in ToSet(parts) : Placed(b)
    BY FitPacking
  <1>2. h \in BlockType /\ h \in ToSet(blocks)
    BY <1>1, ElementsOf
  <1>3. Placed(h)
    BY <1>1, <1>2
  <1> HIDE DEF h
  <1>4. CASE parts' = Append(parts, h)
    <2>1. parts' \in Seq(BlockType) /\ ToSet(parts') = ToSet(parts) \cup {h}
      BY <1>1, <1>2, <1>4, ElementsOf
    <2>2. parts' # <<>> /\ Last(parts') = h
      BY <1>1, <1>2, <1>4, AppendPlaces, FrontLast
    <2> QED
      BY <1>1, <1>3, <2>1, <2>2 DEF h
  <1>5. CASE parts' = <<h>>
    <2>1. <<h>> \in Seq(BlockType) /\ <<h>> # <<>> /\ ToSet(<<h>>) = {h} /\ Last(<<h>>) = h
      BY <1>2, OneTwo
    <2>2. parts' \in Seq(BlockType) /\ parts' # <<>> /\ ToSet(parts') = {h} /\ Last(parts') = h
      BY <1>5, <2>1
    <2> QED
      BY <1>3, <2>2 DEF h
  <1>6. ASSUME NEW o, Repeats(o, parts), parts' = <<o, h>>
        PROVE  /\ parts' \in Seq(BlockType) /\ parts' # <<>>
               /\ h \in ToSet(parts') /\ Last(parts') = h
               /\ \A b \in ToSet(parts') : Placed(b)
    <2>1. o \in BlockType /\ Placed(o)
      BY <1>6 DEF Repeats, Placed
    <2>2. <<o, h>> \in Seq(BlockType) /\ <<o, h>> # <<>> /\ ToSet(<<o, h>>) = {o, h} /\ Last(<<o, h>>) = h
      BY <1>2, <2>1, OneTwo
    <2> QED
      BY <1>3, <1>6, <2>1, <2>2
  <1> QED
    BY <1>4, <1>5, <1>6 DEF h

\* The packer keeps the invariant.
LEMMA FitPack ==
    ASSUME Fit, Pack \/ PackEnds
    PROVE  Fit'
  <1>0. status = "packing"
    BY DEF Pack, PackEnds
  <1>1. /\ DocFits /\ Len(doc) \in Nat /\ index = Len(doc) + 1 /\ headings \in Seq(Nat)
        /\ blocks \in Seq(BlockType) /\ parts \in Seq(BlockType)
        /\ (\A k \in DOMAIN blocks : Placed(blocks[k]))
        /\ (\A k \in DOMAIN parts : Placed(parts[k]))
        /\ Total(parts) <= HardMaxTokens /\ (blocks # <<>> \/ parts # <<>>)
    BY <1>0, FitPacking
  <1>2. \A b \in ToSet(blocks) : Placed(b) /\ b.kind \in Own
    BY <1>0, FitPacking
  <1>3. doc' = doc /\ index' = index /\ headings' = headings
    BY DEF Pack, PackEnds
  <1>4. index' \in 1 .. Len(doc) + 1 /\ index' = Len(doc) + 1
    BY <1>1, <1>3
  <1>7. CASE Pack
    <2>1. /\ blocks # <<>> /\ blocks' = Tail(blocks)
          /\ status' \in {"packing", "chunk limit"} /\ Total(parts') <= HardMaxTokens
          /\ \/ parts' = Append(parts, Head(blocks))
             \/ parts' = <<Head(blocks)>>
             \/ \E o : Repeats(o, parts) /\ parts' = <<o, Head(blocks)>>
      BY <1>1, <1>7, PackStep
    <2>2. blocks' \in Seq(BlockType) /\ ToSet(blocks') \subseteq ToSet(blocks)
      <3>1. blocks \in Seq(BlockType) /\ blocks # <<>>
        BY <1>1, <2>1
      <3>2. ToSet(blocks) = {Head(blocks)} \cup ToSet(Tail(blocks)) /\ Tail(blocks) \in Seq(BlockType)
        BY <3>1, ElementsOf
      <3> QED
        BY <2>1, <3>2
    <2>3. parts' \in Seq(BlockType) /\ parts' # <<>> /\ \A b \in ToSet(parts') : Placed(b)
      BY <1>0, <2>1, PackedParts
    <2>4. RefusedForACause' /\ status' # "parsing"
      BY <2>1 DEF RefusedForACause
    <2>5. \A b \in ToSet(blocks') : Placed(b) /\ b.kind \in Own
      BY <1>2, <2>2
    <2>6. Total(parts') <= HardMaxTokens
      BY <2>1
    <2> QED
      BY <1>1, <1>3, <1>4, <2>2, <2>3, <2>4, <2>5, <2>6, FitFrom
  <1>8. CASE PackEnds
    <2>0. blocks = <<>> /\ parts # <<>>
      BY <1>1, <1>8 DEF PackEnds
    <2>1. /\ blocks' = blocks /\ status' \in {"done", "chunk limit"}
          /\ (parts' = <<>> \/ \E o : Repeats(o, parts) /\ parts' = <<o>>)
      BY <1>1, <1>8, <2>0, PackEndsStep
    <2>2. parts' \in Seq(BlockType) /\ \A b \in ToSet(parts') : Placed(b)
      <3>1. CASE parts' = <<>>
        BY <3>1, EmptySeq DEF ToSet
      <3>2. ASSUME NEW o, Repeats(o, parts), parts' = <<o>>
            PROVE  parts' \in Seq(BlockType) /\ \A b \in ToSet(parts') : Placed(b)
        <4>1. o \in BlockType /\ Placed(o)
          BY <3>2 DEF Repeats, Placed
        <4>2. <<o>> \in Seq(BlockType) /\ ToSet(<<o>>) = {o}
          BY <4>1, OneTwo
        <4> QED
          BY <3>2, <4>1, <4>2
      <3> QED
        BY <2>1, <3>1, <3>2
    <2>3. RefusedForACause' /\ status' # "parsing" /\ status' # "packing"
      BY <2>1 DEF RefusedForACause
    <2> QED
      BY <1>1, <1>2, <1>3, <1>4, <2>1, <2>2, <2>3, FitFrom
  <1> QED
    BY <1>7, <1>8

\* Every step keeps the invariant.
LEMMA FitStep == Fit /\ [Next]_vars => Fit'
  <1> SUFFICES ASSUME Fit, [Next]_vars PROVE Fit'
    OBVIOUS
  <1>1. CASE SkipBlank \/ ParseBlock \/ ParseEnds
    BY <1>1, FitParse
  <1>2. CASE Pack \/ PackEnds
    BY <1>2, FitPack
  <1>3. CASE UNCHANGED vars
    <2>1. /\ doc' = doc /\ index' = index /\ headings' = headings /\ blocks' = blocks
          /\ parts' = parts /\ chunks' = chunks /\ status' = status
      BY <1>3 DEF vars
    <2>2. RefusedForACause'
      BY <2>1 DEF Fit, RefusedForACause
    <2> QED
      BY <2>1, <2>2, FitFrom DEF Fit
  <1> QED
    BY <1>1, <1>2, <1>3 DEF Next

\* A document is refused only for a table or a fence that cannot be split or for its
\* number of chunks: the checks of _bounded_blocks' callers for a block or a chunk
\* beyond the maximum and for an empty chunk never fire, for every document.
THEOREM OnlyCauses == Spec => []RefusedForACause
  <1>1. Spec => []Fit
    BY FitInit, FitStep, PTL DEF Spec
  <1>2. Fit => RefusedForACause
    BY DEF Fit
  <1> QED
    BY <1>1, <1>2, PTL

-----------------------------------------------------------------------------
(* Chunks. *)

ChunkType == [parts : Seq(BlockType), first : Nat, last : Nat, path : Seq(Nat)]

\* _finish_chunk, of parts that are placed.
LEMMA FinishFits ==
    ASSUME DocFits, NEW ps \in Seq(BlockType), ps # <<>>, \A b \in ToSet(ps) : Placed(b)
    PROVE  /\ FinishChunk(ps) \in ChunkType /\ FinishChunk(ps).parts = ps
           /\ FinishChunk(ps).path = Last(ps).path /\ Last(ps) \in ToSet(ps)
           /\ FinishChunk(ps).first = Min({ps[k].page : k \in DOMAIN ps})
           /\ FinishChunk(ps).last = Max({ps[k].page : k \in DOMAIN ps})
           /\ \A b \in ToSet(ps) : FinishChunk(ps).first <= b.page
           /\ \E b \in ToSet(ps) : FinishChunk(ps).first = b.page
  <1> DEFINE pages == {ps[k].page : k \in DOMAIN ps}
             n == doc[Len(doc)].page
  <1>1. pages = {b.page : b \in ToSet(ps)}
    BY DEF ToSet
  <1>2. ASSUME NEW b \in ToSet(ps) PROVE b \in BlockType /\ b.page \in Nat /\ b.page <= n
    <2>1. Placed(b)
      OBVIOUS
    <2>2. b \in BlockType /\ b.text # <<>> /\ b.text \in Seq(Word) /\ ToSet(b.text) \subseteq Words(1, Len(doc))
      BY <2>1 DEF Placed, PieceFits, BlockType
    <2>3. PICK w \in ToSet(b.text) : TRUE
      BY <2>2, ElementsOf
    <2>4. w[1] \in 1 .. Len(doc) /\ doc[w[1]].page = b.page
      BY <2>1, <2>2, <2>3 DEF Placed, Words
    <2>5. Len(doc) \in Nat /\ Len(doc) > 0 /\ DOMAIN doc = 1 .. Len(doc)
      BY DocTyped
    <2>6. w[1] <= Len(doc) /\ Len(doc) \in DOMAIN doc /\ w[1] \in DOMAIN doc
      BY <2>4, <2>5
    <2>7. doc[w[1]].page <= n
      BY <2>6 DEF DocFits
    <2>8. b.page \in Nat
      BY <2>2 DEF BlockType
    <2> QED
      BY <2>2, <2>4, <2>7, <2>8
  <1>3. n \in Nat
    <2>1. Len(doc) \in 1 .. Len(doc)
      BY DocTyped
    <2> QED
      BY <2>1, DocTyped
  <1>4. pages \in SUBSET Nat /\ \A x \in pages : x <= n
    BY <1>1, <1>2
  <1>5. ToSet(ps) # {}
    BY ElementsOf
  <1>6. pages # {}
    BY <1>1, <1>5
  <1>7. Last(ps) \in ToSet(ps)
    <2>1. Len(ps) \in Nat /\ Len(ps) # 0 /\ DOMAIN ps = 1 .. Len(ps)
      BY EmptySeq, LenProperties
    <2>2. Len(ps) \in DOMAIN ps
      BY <2>1
    <2> QED
      BY <2>2 DEF Last, ToSet
  <1>8. Last(ps).path \in Seq(Nat)
    BY <1>2, <1>7 DEF BlockType
  <1>9. FinishChunk(ps) = [parts |-> ps, first |-> Min(pages), last |-> Max(pages), path |-> Last(ps).path]
    BY DEF FinishChunk
  <1> HIDE DEF pages, n
  <1>10. Min(pages) \in pages /\ \A y \in pages : Min(pages) <= y
    BY <1>4, <1>6, Least
  <1>11. Max(pages) \in pages
    BY <1>3, <1>4, <1>6, Greatest
  <1>12. Min(pages) \in Nat /\ Max(pages) \in Nat
    BY <1>4, <1>10, <1>11
  <1>13. FinishChunk(ps) \in ChunkType
    BY <1>8, <1>9, <1>12 DEF ChunkType
  <1>14. /\ FinishChunk(ps).parts = ps /\ FinishChunk(ps).first = Min(pages)
         /\ FinishChunk(ps).last = Max(pages) /\ FinishChunk(ps).path = Last(ps).path
    BY <1>9
  <1>15. \A b \in ToSet(ps) : Min(pages) <= b.page
    BY <1>1, <1>10
  <1>16. \E b \in ToSet(ps) : Min(pages) = b.page
    BY <1>1, <1>10
  <1> QED
    BY <1>7, <1>13, <1>14, <1>15, <1>16 DEF pages

\* A chunk of placed parts.
IsChunk(c) ==
    /\ c \in ChunkType /\ c.parts # <<>> /\ c = FinishChunk(c.parts)
    /\ \A b \in ToSet(c.parts) : Placed(b)

\* A step leaves the chunks alone or finishes the open one.
LEMMA ChunkSteps ==
    ASSUME Fit, [Next]_vars
    PROVE  /\ doc' = doc
           /\ \/ chunks' = chunks
              \/ /\ status = "packing" /\ parts # <<>> /\ IsChunk(FinishChunk(parts))
                 /\ chunks' = Append(chunks, FinishChunk(parts))
                 /\ FinishChunk(parts).parts = parts
  <1>1. ASSUME status = "packing", parts # <<>>
        PROVE  IsChunk(FinishChunk(parts)) /\ FinishChunk(parts).parts = parts
    <2>1. DocFits /\ parts \in Seq(BlockType) /\ \A b \in ToSet(parts) : Placed(b)
      BY <1>1, FitPacking
    <2>2. FinishChunk(parts) \in ChunkType /\ FinishChunk(parts).parts = parts
      BY <1>1, <2>1, FinishFits
    <2> QED
      BY <1>1, <2>1, <2>2 DEF IsChunk
  <1>2. CASE SkipBlank \/ ParseEnds \/ UNCHANGED vars
    BY <1>2 DEF SkipBlank, ParseEnds, vars
  <1>3. CASE ParseBlock
    <2>1. ASSUME NEW j, NEW kind, Take(kind, j) PROVE doc' = doc /\ chunks' = chunks
      BY <2>1 DEF Take
    <2> QED
      BY <1>3, <2>1 DEF ParseBlock
  <1>4. CASE Pack
    <2>1. doc' = doc /\ status = "packing"
      BY <1>4 DEF Pack
    <2>2. chunks' = chunks \/ (parts # <<>> /\ chunks' = Append(chunks, FinishChunk(parts)))
      BY <1>4 DEF Pack
    <2> QED
      BY <1>1, <2>1, <2>2
  <1>5. CASE PackEnds
    <2>1. doc' = doc /\ status = "packing" /\ blocks = <<>> /\ chunks' = Append(chunks, FinishChunk(parts))
      BY <1>5 DEF PackEnds
    <2>2. parts # <<>>
      BY <2>1, FitPacking
    <2> QED
      BY <1>1, <2>1, <2>2
  <1> QED
    BY <1>2, <1>3, <1>4, <1>5 DEF Next

\* The chunks after another one.
LEMMA ChunkAdded ==
    ASSUME NEW cs \in Seq(ChunkType), NEW f \in ChunkType
    PROVE  /\ Append(cs, f) \in Seq(ChunkType) /\ Append(cs, f) # <<>> /\ Last(Append(cs, f)) = f
           /\ Len(cs) \in Nat /\ DOMAIN cs = 1 .. Len(cs) /\ DOMAIN Append(cs, f) = 1 .. Len(cs) + 1
           /\ Append(cs, f)[Len(cs) + 1] = f
           /\ \A c \in 1 .. Len(cs) : Append(cs, f)[c] = cs[c]
           /\ \A c \in DOMAIN Append(cs, f) : c \in DOMAIN cs \/ c = Len(cs) + 1
  <1>1. /\ Append(cs, f) \in Seq(ChunkType) /\ Append(cs, f) # <<>>
        /\ Len(cs) \in Nat /\ DOMAIN cs = 1 .. Len(cs) /\ DOMAIN Append(cs, f) = 1 .. Len(cs) + 1
        /\ Append(cs, f)[Len(cs) + 1] = f
        /\ \A c \in 1 .. Len(cs) : Append(cs, f)[c] = cs[c]
    BY AppendPlaces
  <1>2. Last(Append(cs, f)) = f
    BY FrontLast
  <1>3. \A c \in 1 .. Len(cs) + 1 : c \in 1 .. Len(cs) \/ c = Len(cs) + 1
    BY <1>1
  <1> QED
    BY <1>1, <1>2, <1>3

\* Chunks are what _finish_chunk makes of placed parts.
Finished == chunks \in Seq(ChunkType) /\ \A c \in DOMAIN chunks : IsChunk(chunks[c])

\* The chunks stay what _finish_chunk made them.
LEMMA FinishedStep == Fit /\ Finished /\ [Next]_vars => Finished'
  <1> SUFFICES ASSUME Fit, Finished, [Next]_vars PROVE Finished'
    OBVIOUS
  <1> DEFINE f == FinishChunk(parts)
  <1>1. /\ doc' = doc
        /\ chunks' = chunks \/ (IsChunk(f) /\ chunks' = Append(chunks, f))
    BY ChunkSteps
  <1>2. chunks \in Seq(ChunkType) /\ \A c \in DOMAIN chunks : IsChunk(chunks[c])
    BY DEF Finished
  <1> HIDE DEF f
  <1>3. chunks' \in Seq(ChunkType) /\ \A c \in DOMAIN chunks' : IsChunk(chunks'[c])
    <2>1. CASE chunks' = chunks
      BY <1>2, <2>1
    <2>2. CASE IsChunk(f) /\ chunks' = Append(chunks, f)
      <3>1. f \in ChunkType
        BY <2>2 DEF IsChunk
      <3>2. /\ chunks' \in Seq(ChunkType) /\ DOMAIN chunks = 1 .. Len(chunks)
            /\ chunks'[Len(chunks) + 1] = f
            /\ \A c \in 1 .. Len(chunks) : chunks'[c] = chunks[c]
            /\ \A c \in DOMAIN chunks' : c \in DOMAIN chunks \/ c = Len(chunks) + 1
        BY <1>2, <2>2, <3>1, ChunkAdded
      <3>3. ASSUME NEW c \in DOMAIN chunks' PROVE IsChunk(chunks'[c])
        <4>1. CASE c \in DOMAIN chunks
          BY <1>2, <3>2, <4>1
        <4>2. CASE c = Len(chunks) + 1
          BY <2>2, <3>2, <4>2
        <4> QED
          BY <3>2, <4>1, <4>2
      <3> QED
        BY <3>2, <3>3
    <2> QED
      BY <1>1, <2>1, <2>2
  <1>4. \A c : IsChunk(c)' <=> IsChunk(c)
    <2>1. \A b : Placed(b)' <=> Placed(b)
      BY <1>1, DocSame
    <2> QED
      BY <2>1 DEF IsChunk
  <1> QED
    BY <1>3, <1>4 DEF Finished

-----------------------------------------------------------------------------
(* Repetition. *)

\* OverlapIsFresh, of one chunk of some.
FreshAt(cs, c) ==
    LET repeated == ChunkText(cs[c], {"overlap"}) IN
    /\ ChunkText(cs[c], Own) # <<>>
    /\ repeated # <<>> =>
        /\ CountTokens(repeated) <= OverlapTokens
        /\ c > 1 /\ \E k \in DOMAIN cs[c - 1].parts :
            /\ cs[c - 1].parts[k].kind = "prose"
            /\ IsSuffix(repeated, cs[c - 1].parts[k].text)

\* Parts say something of their own, and repeat the last of some chunks or nothing.
OpenFresh(ps, cs) ==
    ps # <<>> =>
        /\ PartsText(ps, Own) # <<>>
        /\ \/ PartsText(ps, {"overlap"}) = <<>>
           \/ /\ cs # <<>>
              /\ \E o : Repeats(o, Last(cs).parts) /\ PartsText(ps, {"overlap"}) = o.text

\* What the open chunk repeats is from the chunk before.
Fresh ==
    /\ \A c \in DOMAIN chunks : FreshAt(chunks, c)
    /\ Active => OpenFresh(parts, chunks)

\* Texts that are not empty stay so.
LEMMA SomeText ==
    ASSUME NEW s \in Seq(Word), NEW t \in Seq(Word), t # <<>>
    PROVE  s \o t \in Seq(Word) /\ s \o t # <<>> /\ s \o <<>> = s
  <1>1. s \o t \in Seq(Word) /\ ToSet(s \o t) = ToSet(s) \cup ToSet(t)
    BY ElementsOf
  <1>2. ToSet(t) # {}
    BY ElementsOf
  <1>3. ToSet(s \o t) # {}
    BY <1>1, <1>2
  <1>4. s \o t # <<>>
    BY <1>1, <1>3, ElementsOf
  <1>5. s \o <<>> = s
    BY ConcatEmptySeq
  <1> QED
    BY <1>1, <1>4, <1>5

\* What a block adds to what parts say.
LEMMA BlockAdds ==
    ASSUME NEW ps \in Seq(BlockType), NEW b, Placed(b), b.kind \in Own
    PROVE  /\ PartsText(Append(ps, b), Own) = PartsText(ps, Own) \o b.text
           /\ PartsText(Append(ps, b), Own) # <<>>
           /\ PartsText(Append(ps, b), {"overlap"}) = PartsText(ps, {"overlap"})
  <1>1. b \in BlockType /\ b.text \in Seq(Word) /\ b.text # <<>>
    BY DEF Placed, PieceFits, BlockType
  <1>2. "overlap" \notin Own
    BY DEF Own
  <1>3. b.kind \notin {"overlap"}
    BY <1>2
  <1>4. PartsText(Append(ps, b), Own) = PartsText(ps, Own) \o b.text /\ PartsText(ps, Own) \in Seq(Word)
    BY <1>1, PartsAppend
  <1>5. PartsText(Append(ps, b), {"overlap"}) = PartsText(ps, {"overlap"}) \o <<>>
        /\ PartsText(ps, {"overlap"}) \in Seq(Word)
    BY <1>1, <1>3, PartsAppend
  <1> QED
    BY <1>1, <1>4, <1>5, SomeText

\* What short sequences of parts say.
LEMMA FewParts ==
    ASSUME NEW b, Placed(b), b.kind \in Own
    PROVE  /\ PartsText(<<b>>, Own) = b.text /\ PartsText(<<b>>, {"overlap"}) = <<>>
           /\ \A o : Placed(o) /\ o.kind = "overlap" =>
                /\ PartsText(<<o, b>>, Own) = b.text
                /\ PartsText(<<o, b>>, {"overlap"}) = o.text
           /\ b.text # <<>> /\ b.text \in Seq(Word)
  <1>0. <<>> \in Seq(BlockType) /\ <<>> \in Seq(Word)
    BY EmptySeq
  <1>1. b \in BlockType /\ b.text \in Seq(Word) /\ b.text # <<>>
    BY DEF Placed, PieceFits, BlockType
  <1>2. PartsText(<<>>, Own) = <<>> /\ PartsText(<<>>, {"overlap"}) = <<>>
    BY <1>0, <1>1, PartsAppend
  <1>3. \A t \in Seq(Word) : <<>> \o t = t
    BY ConcatEmptySeq
  <1>4. Append(<<>>, b) = <<b>>
    BY <1>1, AppendOne
  <1>5. PartsText(<<b>>, Own) = b.text /\ PartsText(<<b>>, {"overlap"}) = <<>>
    <2> DEFINE e == <<>>
    <2>1. e \in Seq(BlockType) /\ Append(e, b) = <<b>> /\ PartsText(e, Own) = <<>>
          /\ PartsText(e, {"overlap"}) = <<>>
      BY <1>0, <1>2, <1>4
    <2> HIDE DEF e
    <2>2. /\ PartsText(Append(e, b), Own) = PartsText(e, Own) \o b.text
          /\ PartsText(Append(e, b), {"overlap"}) = PartsText(e, {"overlap"})
      BY <2>1, BlockAdds
    <2> QED
      BY <1>1, <1>3, <2>1, <2>2
  <1>6. ASSUME NEW o, Placed(o), o.kind = "overlap"
        PROVE  PartsText(<<o, b>>, Own) = b.text /\ PartsText(<<o, b>>, {"overlap"}) = o.text
    <2>1. o \in BlockType /\ o.text \in Seq(Word)
      BY <1>6 DEF Placed, PieceFits, BlockType
    <2>2. Append(<<>>, o) = <<o>> /\ Append(<<o>>, b) = <<o, b>> /\ <<o>> \in Seq(BlockType)
      BY <1>1, <2>1, AppendOne, OneTwo
    <2>3. o.kind \notin Own /\ o.kind \in {"overlap"}
      BY <1>6 DEF Own
    <2>4. PartsText(<<o>>, Own) = <<>>
      <3>1. PartsText(Append(<<>>, o), Own) = PartsText(<<>>, Own) \o <<>>
        BY <1>0, <2>1, <2>3, PartsAppend
      <3> QED
        BY <1>0, <1>2, <1>3, <2>2, <3>1
    <2>5. PartsText(<<o>>, {"overlap"}) = o.text
      <3>1. PartsText(Append(<<>>, o), {"overlap"}) = PartsText(<<>>, {"overlap"}) \o o.text
        BY <1>0, <2>1, <2>3, PartsAppend
      <3> QED
        BY <1>2, <1>3, <2>1, <2>2, <3>1
    <2> DEFINE s == <<o>>
    <2>6. s \in Seq(BlockType) /\ Append(s, b) = <<o, b>> /\ PartsText(s, Own) = <<>>
          /\ PartsText(s, {"overlap"}) = o.text
      BY <2>2, <2>4, <2>5
    <2> HIDE DEF s
    <2>7. /\ PartsText(Append(s, b), Own) = PartsText(s, Own) \o b.text
          /\ PartsText(Append(s, b), {"overlap"}) = PartsText(s, {"overlap"})
      BY <2>6, BlockAdds
    <2> QED
      BY <1>1, <1>3, <2>6, <2>7
  <1> QED
    BY <1>1, <1>5, <1>6

\* A finished chunk is as fresh as the parts it is made of.
LEMMA FreshAdded ==
    ASSUME NEW cs \in Seq(ChunkType), NEW f \in ChunkType, f.parts # <<>>,
           \A c \in DOMAIN cs : FreshAt(cs, c), OpenFresh(f.parts, cs)
    PROVE  \A c \in DOMAIN Append(cs, f) : FreshAt(Append(cs, f), c)
  <1> DEFINE a == Append(cs, f)
             n == Len(cs)
  <1>1. /\ n \in Nat /\ DOMAIN cs = 1 .. n /\ DOMAIN a = 1 .. n + 1 /\ a[n + 1] = f
        /\ \A c \in 1 .. n : a[c] = cs[c]
        /\ \A c \in DOMAIN a : c \in DOMAIN cs \/ c = n + 1
    BY ChunkAdded
  <1>0. cs # <<>> => n # 0 /\ Last(cs) = cs[n]
    BY EmptySeq DEF Last
  <1> HIDE DEF a, n
  <1>2. ASSUME NEW c \in DOMAIN cs PROVE FreshAt(a, c)
    <2>1. FreshAt(cs, c) /\ a[c] = cs[c]
      BY <1>1
    <2>2. c > 1 => a[c - 1] = cs[c - 1]
      <3>1. c > 1 => c - 1 \in 1 .. n
        BY <1>1
      <3> QED
        BY <1>1, <3>1
    <2> QED
      BY <2>1, <2>2 DEF FreshAt
  <1>3. FreshAt(a, n + 1)
    <2> DEFINE repeated == PartsText(f.parts, {"overlap"})
    <2>1. ChunkText(a[n + 1], {"overlap"}) = repeated /\ ChunkText(a[n + 1], Own) = PartsText(f.parts, Own)
      BY <1>1 DEF ChunkText
    <2>2. PartsText(f.parts, Own) # <<>>
      BY DEF OpenFresh
    <2>3. ASSUME repeated # <<>>
          PROVE  /\ CountTokens(repeated) <= OverlapTokens
                 /\ n + 1 > 1 /\ \E k \in DOMAIN a[(n + 1) - 1].parts :
                    /\ a[(n + 1) - 1].parts[k].kind = "prose"
                    /\ IsSuffix(repeated, a[(n + 1) - 1].parts[k].text)
      <3>1. PICK o : cs # <<>> /\ Repeats(o, Last(cs).parts) /\ repeated = o.text
        BY <2>3 DEF OpenFresh
      <3>2. n # 0 /\ Last(cs) = cs[n]
        BY <1>0, <3>1
      <3>3. n \in 1 .. n /\ (n + 1) - 1 = n /\ n + 1 > 1
        BY <1>1, <3>2
      <3>4. a[(n + 1) - 1] = Last(cs)
        BY <1>1, <3>2, <3>3
      <3> HIDE DEF repeated
      <3>5. CountTokens(repeated) <= OverlapTokens
        BY <3>1 DEF Repeats
      <3>6. \E k \in DOMAIN Last(cs).parts :
                Last(cs).parts[k].kind = "prose" /\ IsSuffix(repeated, Last(cs).parts[k].text)
        BY <3>1 DEF Repeats
      <3> QED
        BY <3>3, <3>4, <3>5, <3>6
    <2> QED
      BY <2>1, <2>2, <2>3 DEF FreshAt
  <1> QED
    BY <1>1, <1>2, <1>3 DEF a

\* What the packer leaves open is fresh.
LEMMA OpenStep ==
    ASSUME Fit, Finished, Active => OpenFresh(parts, chunks), Pack
    PROVE  OpenFresh(parts', chunks')
  <1>0. status = "packing" /\ blocks # <<>>
    BY DEF Pack
  <1>1. /\ blocks \in Seq(BlockType) /\ parts \in Seq(BlockType)
        /\ (\A k \in DOMAIN blocks : Placed(blocks[k])) /\ (\A k \in DOMAIN parts : Placed(parts[k]))
        /\ Total(parts) <= HardMaxTokens /\ \A b \in ToSet(blocks) : Placed(b) /\ b.kind \in Own
    BY <1>0, FitPacking
  <1> DEFINE h == Head(blocks)
             f == FinishChunk(parts)
  <1>2. h \in ToSet(blocks)
    BY <1>0, <1>1, ElementsOf
  <1>3. Placed(h) /\ h.kind \in Own
    BY <1>1, <1>2
  <1>4. \/ chunks' = chunks /\ parts' = Append(parts, h)
        \/ /\ parts # <<>> /\ chunks' = Append(chunks, f)
           /\ \/ parts' = <<h>>
              \/ \E o : Repeats(o, parts) /\ parts' = <<o, h>>
    BY <1>1, PackStep
  <1>5. OpenFresh(parts, chunks)
    BY <1>0 DEF Active
  <1>6. chunks \in Seq(ChunkType)
    BY DEF Finished
  <1>7. parts # <<>> => f \in ChunkType /\ f.parts = parts
    <2>1. DocFits /\ \A b \in ToSet(parts) : Placed(b)
      BY <1>0, FitPacking
    <2> QED
      BY <1>1, <2>1, FinishFits
  <1> HIDE DEF h, f
  <1>8. CASE chunks' = chunks /\ parts' = Append(parts, h)
    <2>1. PartsText(parts', Own) # <<>> /\ PartsText(parts', {"overlap"}) = PartsText(parts, {"overlap"})
      BY <1>1, <1>3, <1>8, BlockAdds
    <2>2. CASE parts = <<>>
      <3>1. PartsText(parts, {"overlap"}) = <<>>
        <4>1. h \in BlockType
          BY <1>3 DEF Placed
        <4> QED
          BY <1>1, <2>2, <4>1, PartsAppend
      <3> QED
        BY <2>1, <3>1 DEF OpenFresh
    <2>3. CASE parts # <<>>
      BY <1>5, <1>8, <2>1, <2>3 DEF OpenFresh
    <2> QED
      BY <2>2, <2>3
  <1>9. ASSUME parts # <<>>, chunks' = Append(chunks, f), parts' = <<h>>
        PROVE  OpenFresh(parts', chunks')
    BY <1>3, <1>9, FewParts DEF OpenFresh
  <1>10. ASSUME parts # <<>>, chunks' = Append(chunks, f), NEW o, Repeats(o, parts), parts' = <<o, h>>
         PROVE  OpenFresh(parts', chunks')
    <2>1. Placed(o) /\ o.kind = "overlap"
      BY <1>10 DEF Repeats
    <2>2. PartsText(parts', Own) # <<>> /\ PartsText(parts', {"overlap"}) = o.text
      BY <1>3, <1>10, <2>1, FewParts
    <2>3. chunks' # <<>> /\ Last(chunks') = f
      BY <1>6, <1>7, <1>10, ChunkAdded
    <2>4. Repeats(o, Last(chunks').parts)
      BY <1>7, <1>10, <2>3
    <2> QED
      BY <2>2, <2>3, <2>4 DEF OpenFresh
  <1> QED
    BY <1>4, <1>8, <1>9, <1>10

\* Every step keeps what is repeated fresh.
LEMMA FreshStep == Fit /\ Finished /\ Fresh /\ [Next]_vars => Fresh'
  <1> SUFFICES ASSUME Fit, Finished, Fresh, [Next]_vars PROVE Fresh'
    OBVIOUS
  <1>1. /\ doc' = doc
        /\ \/ chunks' = chunks
           \/ /\ status = "packing" /\ parts # <<>> /\ IsChunk(FinishChunk(parts))
              /\ chunks' = Append(chunks, FinishChunk(parts))
              /\ FinishChunk(parts).parts = parts
    BY ChunkSteps
  <1>2. (\A c \in DOMAIN chunks : FreshAt(chunks, c)) /\ (Active => OpenFresh(parts, chunks))
    BY DEF Fresh
  <1>3. \A c \in DOMAIN chunks' : FreshAt(chunks', c)
    <2>1. CASE chunks' = chunks
      BY <1>2, <2>1
    <2>2. CASE /\ status = "packing" /\ parts # <<>> /\ IsChunk(FinishChunk(parts))
               /\ chunks' = Append(chunks, FinishChunk(parts))
               /\ FinishChunk(parts).parts = parts
      <3> DEFINE f == FinishChunk(parts)
      <3>1. f \in ChunkType /\ f.parts = parts /\ chunks' = Append(chunks, f)
        BY <2>2 DEF IsChunk
      <3>2. OpenFresh(parts, chunks)
        BY <1>2, <2>2 DEF Active
      <3>3. chunks \in Seq(ChunkType)
        BY DEF Finished
      <3> HIDE DEF f
      <3> QED
        BY <1>2, <2>2, <3>1, <3>2, <3>3, FreshAdded
    <2> QED
      BY <1>1, <2>1, <2>2
  <1>4. Active' => OpenFresh(parts', chunks')
    <2>1. CASE SkipBlank \/ ParseBlock \/ ParseEnds
      <3>1. parts' = <<>>
        <4>1. status = "parsing" /\ parts = <<>>
          BY <2>1 DEF SkipBlank, ParseBlock, ParseEnds, Fit
        <4>2. ASSUME NEW j, NEW kind, Take(kind, j) PROVE parts' = parts
          BY <4>2 DEF Take
        <4>3. parts' = parts
          BY <2>1, <4>2 DEF SkipBlank, ParseBlock, ParseEnds
        <4> QED
          BY <4>1, <4>3
      <3> QED
        BY <3>1 DEF OpenFresh
    <2>2. CASE Pack
      BY <1>2, <2>2, OpenStep
    <2>3. CASE PackEnds
      <3>1. status = "packing" /\ parts # <<>>
        BY <2>3, FitPacking DEF PackEnds
      <3>2. /\ parts \in Seq(BlockType) /\ (\A k \in DOMAIN parts : Placed(parts[k]))
            /\ Total(parts) <= HardMaxTokens
        BY <3>1, FitPacking
      <3>3. status' \in {"done", "chunk limit"}
        BY <2>3, <3>1, <3>2, PackEndsStep
      <3> QED
        BY <3>3 DEF Active
    <2>4. CASE UNCHANGED vars
      BY <1>2, <2>4 DEF vars, Active
    <2> QED
      BY <2>1, <2>2, <2>3, <2>4 DEF Next
  <1>5. OpenFresh(parts', chunks') => OpenFresh(parts, chunks)'
    <2>1. \A o, ps : Repeats(o, ps)' <=> Repeats(o, ps)
      BY <1>1, DocSame
    <2> QED
      BY <2>1 DEF OpenFresh
  <1>6. (\A c \in DOMAIN chunks : FreshAt(chunks, c))'
    BY <1>3
  <1> QED
    BY <1>4, <1>5, <1>6 DEF Fresh

\* What a chunk repeats is the end of prose that the chunk before it holds as its
\* own, within the overlap bound, and no chunk consists of a repetition alone, for
\* every document and every token bound (_overlap and the loop of chunk_markdown).
THEOREM RepeatsAreFresh == Spec => []OverlapIsFresh
  <1>1. Init => Finished /\ Fresh
    <2> SUFFICES ASSUME Init PROVE Finished /\ Fresh
      OBVIOUS
    <2>1. parts = <<>> /\ chunks = <<>> /\ DOMAIN <<>> = {} /\ <<>> \in Seq(ChunkType)
      BY EmptySeq DEF Init
    <2> QED
      BY <2>1 DEF Finished, Fresh, OpenFresh
  <1>2. Spec => [](Fit /\ Finished /\ Fresh)
    BY FitInit, FitStep, <1>1, FinishedStep, FreshStep, PTL DEF Spec
  <1>3. Fresh => OverlapIsFresh
    BY DEF Fresh, FreshAt, OverlapIsFresh
  <1> QED
    BY <1>2, <1>3, PTL

-----------------------------------------------------------------------------
(* Completeness. *)

\* What the parts of two sequences say.
LEMMA PartsConcat ==
    ASSUME NEW s \in Seq(BlockType), NEW t \in Seq(BlockType), NEW kinds
    PROVE  PartsText(s \o t, kinds) = PartsText(s, kinds) \o PartsText(t, kinds)
  <1> DEFINE T(x) == IF x.kind \in kinds THEN x.text ELSE <<>>
             F(r) == [k \in DOMAIN r |-> T(r[k])]
             a == s \o t
             m == Len(s)
             n == Len(t)
  <1>1. \A x \in BlockType : T(x) \in Seq(Word)
    <2>1. <<>> \in Seq(Word)
      BY EmptySeq
    <2> QED
      BY <2>1 DEF BlockType
  <1>2. /\ DOMAIN a = 1 .. m + n /\ m \in Nat /\ n \in Nat
        /\ DOMAIN s = 1 .. m /\ DOMAIN t = 1 .. n
        /\ \A k \in 1 .. m : a[k] = s[k]
        /\ \A k \in 1 .. n : a[m + k] = t[k]
    BY PlaceConcat
  <1>3. a \in Seq(BlockType)
    BY ConcatProperties
  <1> HIDE DEF T, a, m, n
  <1>4. ASSUME NEW r \in Seq(BlockType), NEW l \in Nat, DOMAIN r = 1 .. l
        PROVE  F(r) \in Seq(Seq(Word)) /\ Len(F(r)) = l
    <2>1. \A k \in 1 .. l : r[k] \in BlockType
      BY <1>4
    <2>2. F(r) \in [1 .. l -> Seq(Word)]
      BY <1>1, <1>4, <2>1
    <2> HIDE DEF F
    <2> QED
      BY <2>2
  <1>5. /\ F(s) \in Seq(Seq(Word)) /\ Len(F(s)) = m
        /\ F(t) \in Seq(Seq(Word)) /\ Len(F(t)) = n
        /\ F(a) \in Seq(Seq(Word)) /\ Len(F(a)) = m + n
    <2>1. m + n \in Nat
      BY <1>2
    <2> HIDE DEF F
    <2> QED
      BY <1>2, <1>3, <1>4, <2>1
  <1>6. F(a) = F(s) \o F(t)
    <2> DEFINE W == Seq(Word)
               p == F(s)
               q == F(t)
               c == p \o q
    <2>1. p \in Seq(W) /\ q \in Seq(W) /\ Len(p) = m /\ Len(q) = n
      BY <1>5
    <2>2. F(a) \in Seq(W) /\ Len(F(a)) = m + n
      BY <1>5
    <2>3. /\ \A k \in 1 .. m : p[k] = T(s[k])
          /\ \A k \in 1 .. n : q[k] = T(t[k])
          /\ \A k \in 1 .. m + n : F(a)[k] = T(a[k])
      BY <1>2
    <2> HIDE DEF W, p, q, F
    <2>4. /\ c \in Seq(W) /\ Len(c) = m + n
          /\ \A k \in 1 .. m : c[k] = p[k]
          /\ \A k \in 1 .. n : c[m + k] = q[k]
      <3>1. p \in Seq(W) /\ q \in Seq(W)
        BY <2>1
      <3>2. c \in Seq(W) /\ Len(c) = Len(p) + Len(q)
        BY ONLY <3>1, ConcatProperties
      <3>3. /\ \A k \in 1 .. Len(p) : c[k] = p[k]
            /\ \A k \in 1 .. Len(q) : c[Len(p) + k] = q[k]
        BY ONLY <3>1, PlaceConcat
      <3> HIDE DEF c
      <3> QED
        BY <2>1, <3>2, <3>3
    <2> HIDE DEF c
    <2>5. ASSUME NEW k \in 1 .. m + n PROVE F(a)[k] = c[k]
      <3>1. CASE k \in 1 .. m
        BY <1>2, <2>3, <2>4, <3>1
      <3>2. CASE k \notin 1 .. m
        <4>1. k - m \in 1 .. n /\ m + (k - m) = k
          BY <1>2, <3>2
        <4> DEFINE l == k - m
        <4>2. l \in 1 .. n /\ m + l = k
          BY <4>1
        <4> HIDE DEF l
        <4>3. a[m + l] = t[l] /\ c[m + l] = q[l] /\ q[l] = T(t[l])
          BY <1>2, <2>3, <2>4, <4>2
        <4> QED
          BY <2>3, <4>2, <4>3
      <3> QED
        BY <3>1, <3>2
    <2>6. F(a) = c
      BY <2>2, <2>4, <2>5, SeqEqual
    <2> QED
      BY <2>6 DEF c, p, q
  <1>7. PartsText(s, kinds) = FlattenSeq(F(s)) /\ PartsText(t, kinds) = FlattenSeq(F(t))
        /\ PartsText(a, kinds) = FlattenSeq(F(a))
    BY DEF PartsText, T
  <1> HIDE DEF F
  <1>8. FlattenSeq(F(s) \o F(t)) = FlattenSeq(F(s)) \o FlattenSeq(F(t))
    BY <1>5, FlattenConcat
  <1> QED
    BY <1>6, <1>7, <1>8 DEF a

\* What parts say is a text, and no parts say nothing.
LEMMA PartsTyped ==
    ASSUME NEW ps \in Seq(BlockType), NEW kinds
    PROVE  PartsText(ps, kinds) \in Seq(Word) /\ PartsText(<<>>, kinds) = <<>>
  <1> DEFINE F(r) == [k \in DOMAIN r |-> IF r[k].kind \in kinds THEN r[k].text ELSE <<>>]
             n == Len(ps)
  <1>1. n \in Nat /\ DOMAIN ps = 1 .. n /\ <<>> \in Seq(Word)
    BY LenProperties, EmptySeq
  <1> HIDE DEF n
  <1>2. \A k \in 1 .. n : ps[k] \in BlockType
    BY <1>1
  <1>3. \A x \in BlockType : x.text \in Seq(Word)
    BY DEF BlockType
  <1>4. F(ps) \in [1 .. n -> Seq(Word)]
    BY <1>1, <1>2, <1>3
  <1>5. F(<<>>) = <<>>
    OBVIOUS
  <1>6. PartsText(ps, kinds) = FlattenSeq(F(ps)) /\ PartsText(<<>>, kinds) = FlattenSeq(F(<<>>))
    BY DEF PartsText
  <1> HIDE DEF F
  <1>7. F(ps) \in Seq(Seq(Word))
    BY <1>1, <1>4
  <1> QED
    BY <1>5, <1>6, <1>7, FlattenTyped, FlattenEmpty

\* The wordpieces of what parts say are those of the parts of these kinds.
LEMMA PartsWords ==
    ASSUME NEW kinds
    PROVE  \A ps \in Seq(BlockType) :
            ToSet(PartsText(ps, kinds)) = UNION {ToSet(b.text) : b \in {x \in ToSet(ps) : x.kind \in kinds}}
  <1> DEFINE W(ps) == UNION {ToSet(b.text) : b \in {x \in ToSet(ps) : x.kind \in kinds}}
             Q(ps) == ToSet(PartsText(ps, kinds)) = W(ps)
             P == {n \in Nat : \A ps \in Seq(BlockType) : Len(ps) = n => Q(ps)}
  <1>1. 0 \in P
    <2> SUFFICES ASSUME NEW ps \in Seq(BlockType), Len(ps) = 0 PROVE Q(ps)
      OBVIOUS
    <2>1. ps = <<>> /\ ToSet(<<>>) = {}
      BY EmptySeq DEF ToSet
    <2>2. PartsText(<<>>, kinds) = <<>>
      BY PartsTyped
    <2> QED
      BY <2>1, <2>2
  <1>2. ASSUME NEW n \in P PROVE n + 1 \in P
    <2>0. n \in Nat
      OBVIOUS
    <2> SUFFICES ASSUME NEW ps \in Seq(BlockType), Len(ps) = n + 1 PROVE Q(ps)
      BY <2>0
    <2>1. ps # <<>>
      BY <2>0, EmptySeq
    <2>2. PICK s \in Seq(BlockType), b \in BlockType : ps = Append(s, b)
      BY <2>1, SequenceEmptyOrAppend
    <2>3. Len(s) = n
      <3>1. Len(ps) = Len(s) + 1 /\ Len(s) \in Nat
        BY <2>2, AppendPlaces
      <3> QED
        BY <2>0, <3>1
    <2>4. Q(s)
      BY <2>3
    <2> DEFINE x == PartsText(s, kinds)
               y == IF b.kind \in kinds THEN b.text ELSE <<>>
    <2>5. x \in Seq(Word) /\ y \in Seq(Word) /\ PartsText(ps, kinds) = x \o y
      BY <2>2, PartsAppend, EmptySeq DEF BlockType
    <2>6. ToSet(y) = IF b.kind \in kinds THEN ToSet(b.text) ELSE {}
      BY DEF ToSet
    <2> HIDE DEF x, y
    <2>7. ToSet(PartsText(ps, kinds)) = ToSet(x) \cup ToSet(y)
      <3>1. ToSet(x \o y) = ToSet(x) \cup ToSet(y)
        BY ONLY <2>5, WordsConcat
      <3> QED
        BY <2>5, <3>1
    <2>8. ToSet(ps) = ToSet(s) \cup {b}
      BY <2>2, ElementsOf
    <2>9. W(ps) = W(s) \cup ToSet(y)
      <3>1. CASE b.kind \in kinds
        BY <2>6, <2>8, <3>1
      <3>2. CASE b.kind \notin kinds
        BY <2>6, <2>8, <3>2
      <3> QED
        BY <3>1, <3>2
    <2> HIDE DEF W
    <2> QED
      BY <2>4, <2>7, <2>9 DEF x
  <1>3. P = Nat
    <2>1. P \in SUBSET Nat
      OBVIOUS
    <2> HIDE DEF P
    <2> QED
      BY <1>1, <1>2, <2>1, Induct
  <1> SUFFICES ASSUME NEW ps \in Seq(BlockType) PROVE Q(ps)
    OBVIOUS
  <1>4. Len(ps) \in P
    BY <1>3, LenProperties
  <1> QED
    BY <1>4

\* What one block says, if it is of these kinds.
Said(b, kinds) == IF b.kind \in kinds THEN b.text ELSE <<>>

\* What a block adds, and what short sequences of parts say.
LEMMA PartsSaid ==
    ASSUME NEW b, Placed(b), NEW kinds \in SUBSET Own
    PROVE  /\ \A ps \in Seq(BlockType) :
                PartsText(Append(ps, b), kinds) = PartsText(ps, kinds) \o Said(b, kinds)
           /\ PartsText(<<b>>, kinds) = Said(b, kinds)
           /\ \A o : Placed(o) /\ o.kind = "overlap" => PartsText(<<o, b>>, kinds) = Said(b, kinds)
           /\ Said(b, kinds) \in Seq(Word) /\ b \in BlockType
  <1>0. <<>> \in Seq(BlockType) /\ <<>> \in Seq(Word)
    BY EmptySeq
  <1>1. b \in BlockType /\ b.text \in Seq(Word)
    BY DEF Placed, BlockType
  <1>2. \A ps \in Seq(BlockType) :
            PartsText(Append(ps, b), kinds) = PartsText(ps, kinds) \o Said(b, kinds)
    BY <1>1, PartsAppend DEF Said
  <1>3. Said(b, kinds) \in Seq(Word)
    BY <1>0, <1>1 DEF Said
  <1>4. PartsText(<<>>, kinds) = <<>> /\ \A t \in Seq(Word) : <<>> \o t = t
    BY <1>0, PartsTyped, ConcatEmptySeq
  <1>5. PartsText(<<b>>, kinds) = Said(b, kinds)
    <2> DEFINE e == <<>>
    <2>1. e \in Seq(BlockType) /\ Append(e, b) = <<b>> /\ PartsText(e, kinds) = <<>>
      BY <1>0, <1>1, <1>4, AppendOne
    <2> HIDE DEF e
    <2>2. PartsText(Append(e, b), kinds) = PartsText(e, kinds) \o Said(b, kinds)
      BY <1>2, <2>1
    <2> QED
      BY <1>3, <1>4, <2>1, <2>2
  <1>6. ASSUME NEW o, Placed(o), o.kind = "overlap"
        PROVE  PartsText(<<o, b>>, kinds) = Said(b, kinds)
    <2>1. o \in BlockType /\ o.kind \notin kinds
      BY <1>6 DEF Placed, BlockType, Own
    <2>2. Append(<<>>, o) = <<o>> /\ Append(<<o>>, b) = <<o, b>> /\ <<o>> \in Seq(BlockType)
      BY <1>1, <2>1, AppendOne, OneTwo
    <2>3. PartsText(<<o>>, kinds) = <<>>
      <3> DEFINE e == <<>>
      <3>1. e \in Seq(BlockType) /\ Append(e, o) = <<o>> /\ PartsText(e, kinds) = <<>>
        BY <1>0, <1>4, <2>2
      <3> HIDE DEF e
      <3>2. PartsText(Append(e, o), kinds)
                = PartsText(e, kinds) \o (IF o.kind \in kinds THEN o.text ELSE <<>>)
        <4>1. e \in Seq(BlockType) /\ o \in BlockType
          BY <2>1, <3>1
        <4> QED
          BY ONLY <4>1, PartsAppend
      <3> QED
        BY <1>0, <1>4, <2>1, <3>1, <3>2
    <2> DEFINE s == <<o>>
    <2>4. s \in Seq(BlockType) /\ Append(s, b) = <<o, b>> /\ PartsText(s, kinds) = <<>>
      BY <2>2, <2>3
    <2> HIDE DEF s
    <2>5. PartsText(Append(s, b), kinds) = PartsText(s, kinds) \o Said(b, kinds)
      BY <1>2, <2>4
    <2> QED
      BY <1>3, <1>4, <2>4, <2>5
  <1> QED
    BY <1>1, <1>2, <1>3, <1>5, <1>6

\* A first block comes first.
LEMMA PartsFirst ==
    ASSUME NEW ps \in Seq(BlockType), ps # <<>>, Placed(Head(ps)), NEW kinds \in SUBSET Own
    PROVE  PartsText(ps, kinds) = Said(Head(ps), kinds) \o PartsText(Tail(ps), kinds)
  <1> DEFINE h == Head(ps)
             t == Tail(ps)
             s == <<h>>
  <1>1. h \in BlockType /\ t \in Seq(BlockType)
    BY ElementsOf
  <1>2. ps = s \o t
    BY HeadTailProperties
  <1>3. s \in Seq(BlockType) /\ PartsText(s, kinds) = Said(h, kinds)
    BY <1>1, OneTwo, PartsSaid
  <1> HIDE DEF s, t, h
  <1>4. PartsText(s \o t, kinds) = PartsText(s, kinds) \o PartsText(t, kinds)
    BY <1>1, <1>3, PartsConcat
  <1> QED
    BY <1>2, <1>3, <1>4 DEF t, h

\* The text of chunks grows by their parts.
LEMMA WrittenAdded ==
    ASSUME NEW cs \in Seq(ChunkType), NEW f \in ChunkType, NEW kinds
    PROVE  /\ Written(Append(cs, f), kinds) = Written(cs, kinds) \o PartsText(f.parts, kinds)
           /\ Written(cs, kinds) \in Seq(Word) /\ PartsText(f.parts, kinds) \in Seq(Word)
  <1> DEFINE T(x) == ChunkText(x, kinds)
             F(s) == [c \in DOMAIN s |-> T(s[c])]
             a == Append(cs, f)
             n == Len(cs)
  <1>1. \A x \in ChunkType : T(x) \in Seq(Word)
    <2>1. \A x \in ChunkType : x.parts \in Seq(BlockType)
      BY DEF ChunkType
    <2>2. \A x \in ChunkType : PartsText(x.parts, kinds) \in Seq(Word)
      BY <2>1, PartsTyped
    <2> QED
      BY <2>2 DEF ChunkText
  <1>2. /\ a \in Seq(ChunkType) /\ n \in Nat /\ DOMAIN cs = 1 .. n /\ DOMAIN a = 1 .. n + 1
        /\ a[n + 1] = f /\ \A k \in 1 .. n : a[k] = cs[k]
    BY ChunkAdded
  <1> HIDE DEF T, a, n
  <1>3. /\ F(cs) \in Seq(Seq(Word)) /\ Len(F(cs)) = n
        /\ F(a) \in Seq(Seq(Word)) /\ Len(F(a)) = n + 1
    <2>1. \A k \in 1 .. n : cs[k] \in ChunkType
      BY <1>2
    <2>2. \A k \in 1 .. n + 1 : a[k] \in ChunkType
      BY <1>2
    <2>3. F(cs) \in [1 .. n -> Seq(Word)] /\ F(a) \in [1 .. n + 1 -> Seq(Word)]
      BY <1>1, <1>2, <2>1, <2>2
    <2>4. n \in Nat /\ n + 1 \in Nat
      BY <1>2
    <2> HIDE DEF F
    <2> QED
      BY <2>3, <2>4
  <1>4. T(f) \in Seq(Word)
    BY <1>1
  <1>5. F(a) = Append(F(cs), T(f))
    <2> DEFINE c == Append(F(cs), T(f))
    <2>1. c \in Seq(Seq(Word)) /\ Len(c) = n + 1 /\ c[n + 1] = T(f)
          /\ \A k \in 1 .. n : c[k] = F(cs)[k]
      <3> HIDE DEF F
      <3> QED
        BY <1>3, <1>4, AppendTexts
    <2>2. \A k \in 1 .. n : F(cs)[k] = T(cs[k])
      BY <1>2
    <2>3. \A k \in 1 .. n + 1 : F(a)[k] = T(a[k])
      BY <1>2
    <2> HIDE DEF F, c
    <2>4. ASSUME NEW k \in 1 .. n + 1 PROVE F(a)[k] = c[k]
      <3>1. CASE k = n + 1
        BY <1>2, <2>1, <2>3, <3>1
      <3>2. CASE k # n + 1
        <4>1. k \in 1 .. n
          BY <1>2, <3>2
        <4> QED
          BY <1>2, <2>1, <2>2, <2>3, <4>1
      <3> QED
        BY <3>1, <3>2
    <2>5. F(a) = c
      BY <1>3, <2>1, <2>4, SeqEqual
    <2> QED
      BY <2>5 DEF c
  <1>6. Written(cs, kinds) = FlattenSeq(F(cs)) /\ Written(a, kinds) = FlattenSeq(F(a))
    BY DEF Written, T
  <1>7. T(f) = PartsText(f.parts, kinds)
    BY DEF T, ChunkText
  <1> HIDE DEF F
  <1>8. FlattenSeq(F(a)) = FlattenSeq(F(cs)) \o T(f)
    BY <1>3, <1>4, <1>5, FlattenAppend
  <1> QED
    BY <1>3, <1>4, <1>6, <1>7, <1>8, FlattenTyped DEF a

\* Nothing is written yet.
LEMMA WrittenNone == \A kinds : Written(<<>>, kinds) = <<>>
  <1> TAKE kinds
  <1>1. [c \in DOMAIN <<>> |-> ChunkText(<<>>[c], kinds)] = <<>>
    OBVIOUS
  <1> QED
    BY <1>1, FlattenEmpty DEF Written

\* What is in chunks, and what is on its way there.
Stream(cs, ps, bs, kinds) ==
    (Written(cs, kinds) \o PartsText(ps, kinds)) \o PartsText(bs, kinds)

\* A text is all of the first n lines, a plain text is some of it, each wordpiece once.
Covers(text, plain, n) ==
    /\ ToSet(text) = Words(1, n) /\ Nearly(text)
    /\ ToSet(plain) \subseteq Words(1, n) /\ Ordered(plain)

\* What is in chunks and on its way there is the text up to index; at the end it is
\* all in chunks.
Whole ==
    /\ Active => Covers(Stream(chunks, parts, blocks, Own), Stream(chunks, parts, blocks, Plain),
                        index - 1)
    /\ status = "done" => Covers(Written(chunks, Own), Written(chunks, Plain), Len(doc))

\* Before anything is packed all is in blocks.
LEMMA StreamParsing ==
    ASSUME NEW bs \in Seq(BlockType), NEW kinds
    PROVE  Stream(<<>>, <<>>, bs, kinds) = PartsText(bs, kinds) /\ PartsText(bs, kinds) \in Seq(Word)
  <1> DEFINE t == PartsText(bs, kinds)
  <1>1. PartsText(<<>>, kinds) = <<>> /\ t \in Seq(Word) /\ Written(<<>>, kinds) = <<>>
    BY PartsTyped, WrittenNone
  <1> HIDE DEF t
  <1>2. <<>> \o <<>> = <<>> /\ <<>> \o t = t
    <2>1. <<>> \in Seq(Word)
      BY EmptySeq
    <2> QED
      BY <1>1, <2>1, ConcatEmptySeq
  <1> QED
    BY <1>1, <1>2 DEF Stream, t

\* Words, cut at a line.
LEMMA WordsCut ==
    ASSUME NEW i \in Nat, NEW j \in Nat, NEW k \in Nat, i <= j, j <= k + 1
    PROVE  Words(i, k) = Words(i, j - 1) \cup Words(j, k)
  <1>1. \A x : x \in i .. k <=> x \in i .. j - 1 \/ x \in j .. k
    OBVIOUS
  <1> QED
    BY <1>1 DEF Words

\* What new blocks say, plain text only.
LEMMA PlainParsed ==
    ASSUME NEW bs \in Seq(BlockType), NEW i, NEW j, NEW path, Added(bs, i, j, path),
           \/ \A k \in DOMAIN bs : bs[k].kind \notin Plain
           \/ (\A k \in DOMAIN bs : bs[k].kind \in Plain) /\ Ordered(PartsText(bs, Own))
    PROVE  ToSet(PartsText(bs, Plain)) \subseteq Words(i, j) /\ Ordered(PartsText(bs, Plain))
  <1> DEFINE t == PartsText(bs, Plain)
  <1>1. ToSet(t) = UNION {ToSet(b.text) : b \in {x \in ToSet(bs) : x.kind \in Plain}}
    BY PartsWords
  <1>2. \A b \in ToSet(bs) : ToSet(b.text) \subseteq Words(i, j)
    BY DEF Added, ToSet
  <1>3. ToSet(t) \subseteq Words(i, j)
    BY <1>1, <1>2
  <1>4. CASE \A k \in DOMAIN bs : bs[k].kind \notin Plain
    <2>1. \A b \in ToSet(bs) : b.kind \notin Plain
      BY <1>4 DEF ToSet
    <2>2. {x \in ToSet(bs) : x.kind \in Plain} = {}
      BY <2>1
    <2>3. ToSet(t) = {}
      BY <1>1, <2>2
    <2> HIDE DEF t
    <2>4. DOMAIN t = {}
      BY <2>3 DEF ToSet
    <2> QED
      BY <1>3, <2>4 DEF Ordered, t
  <1>5. CASE (\A k \in DOMAIN bs : bs[k].kind \in Plain) /\ Ordered(PartsText(bs, Own))
    <2>1. \A k \in DOMAIN bs : bs[k].kind \in Plain /\ bs[k].kind \in Own
      BY <1>5 DEF Plain, Own
    <2>2. PartsText(bs, Plain) = PartsText(bs, Own)
      BY <2>1 DEF PartsText
    <2> QED
      BY <1>3, <1>5, <2>2
  <1> QED
    BY <1>4, <1>5

\* A block of the parser is added to the text.
LEMMA WholeParse ==
    ASSUME Fit, Whole, ParseBlock, status' = "parsing"
    PROVE  Covers(Stream(chunks', parts', blocks', Own), Stream(chunks', parts', blocks', Plain),
                  index' - 1)
  <1>0. DocFits /\ Len(doc) \in Nat /\ index \in 1 .. Len(doc) + 1 /\ headings \in Seq(Nat)
        /\ blocks \in Seq(BlockType) /\ index \in Nat
    BY DocTyped DEF Fit
  <1>1. /\ status = "parsing" /\ parts' = parts /\ chunks' = chunks
    BY <1>0, ParseStep
  <1>2. parts = <<>> /\ chunks = <<>>
    BY <1>1 DEF Fit
  <1>3. "parsing" \notin Causes
    BY DEF Causes
  <1>4. PICK j \in index .. Len(doc), bs \in Seq(BlockType) :
            /\ index' = j + 1 /\ blocks' = blocks \o bs /\ Added(bs, index, j, headings')
            /\ ToSet(PartsText(bs, Own)) = Words(index, j) /\ Nearly(PartsText(bs, Own))
            /\ \/ \A k \in DOMAIN bs : bs[k].kind \notin Plain
               \/ (\A k \in DOMAIN bs : bs[k].kind \in Plain) /\ Ordered(PartsText(bs, Own))
    BY <1>0, <1>3, ParseStep
  <1> DEFINE s(kinds) == PartsText(blocks, kinds)
             t(kinds) == PartsText(bs, kinds)
  <1>5. \A kinds : Stream(chunks, parts, blocks, kinds) = s(kinds) /\ s(kinds) \in Seq(Word)
    BY <1>0, <1>2, StreamParsing
  <1>6. Covers(s(Own), s(Plain), index - 1)
    BY <1>1, <1>5 DEF Whole, Active
  <1>7. blocks' \in Seq(BlockType)
    BY <1>0, <1>4, ElementsOf
  <1>8. \A kinds : Stream(chunks', parts', blocks', kinds) = PartsText(blocks', kinds)
    BY <1>1, <1>2, <1>7, StreamParsing
  <1>9. \A kinds : PartsText(blocks', kinds) = s(kinds) \o t(kinds) /\ t(kinds) \in Seq(Word)
    BY <1>0, <1>4, PartsConcat, PartsTyped
  <1>10. /\ ToSet(t(Own)) = Words(index, j) /\ Nearly(t(Own))
         /\ ToSet(t(Plain)) \subseteq Words(index, j) /\ Ordered(t(Plain))
         /\ j \in Nat /\ 1 <= index /\ index <= j
    <2>1. ToSet(t(Plain)) \subseteq Words(index, j) /\ Ordered(t(Plain))
      BY <1>4, PlainParsed
    <2> QED
      BY <1>0, <1>4, <2>1
  <1> HIDE DEF s, t
  <1>11. \A w \in Words(1, index - 1), x \in Words(index, j) : Before(w, x)
    <2>1. index - 1 \in Nat /\ index - 1 < index
      BY <1>0
    <2> QED
      BY <1>0, <1>10, <2>1, WordsBefore
  <1>12. Words(1, (j + 1) - 1) = Words(1, index - 1) \cup Words(index, j)
    <2>1. 1 \in Nat /\ index <= j + 1 /\ (j + 1) - 1 = j
      BY <1>0, <1>10
    <2> QED
      BY <1>0, <1>10, <2>1, WordsCut
  <1>13. \A kinds : ToSet(s(kinds) \o t(kinds)) = ToSet(s(kinds)) \cup ToSet(t(kinds))
    <2> TAKE kinds
    <2>1. s(kinds) \in Seq(Word) /\ t(kinds) \in Seq(Word)
      BY <1>5, <1>9
    <2> QED
      BY ONLY <2>1, WordsConcat
  <1>14. Nearly(s(Own) \o t(Own))
    <2>1. s(Own) \in Seq(Word) /\ t(Own) \in Seq(Word) /\ Nearly(s(Own)) /\ Nearly(t(Own))
      BY <1>5, <1>6, <1>9, <1>10 DEF Covers
    <2>2. \A w \in ToSet(s(Own)), x \in ToSet(t(Own)) : Before(w, x)
      BY <1>6, <1>10, <1>11 DEF Covers
    <2> QED
      BY <2>1, <2>2, NearlyConcat
  <1>15. Ordered(s(Plain) \o t(Plain))
    <2>1. s(Plain) \in Seq(Word) /\ t(Plain) \in Seq(Word) /\ Ordered(s(Plain)) /\ Ordered(t(Plain))
      BY <1>5, <1>6, <1>9, <1>10 DEF Covers
    <2>2. \A w \in ToSet(s(Plain)), x \in ToSet(t(Plain)) : Before(w, x)
      BY <1>6, <1>10, <1>11 DEF Covers
    <2> QED
      BY <2>1, <2>2, OrderedConcat
  <1>16. Covers(s(Own) \o t(Own), s(Plain) \o t(Plain), (j + 1) - 1)
    BY <1>6, <1>10, <1>12, <1>13, <1>14, <1>15 DEF Covers
  <1> QED
    BY <1>4, <1>8, <1>9, <1>16

\* Packing moves text and changes none of it.
LEMMA WholePack ==
    ASSUME Fit, Finished, Pack, NEW kinds \in SUBSET Own
    PROVE  Stream(chunks', parts', blocks', kinds) = Stream(chunks, parts, blocks, kinds)
  <1>0. status = "packing" /\ blocks # <<>>
    BY DEF Pack
  <1>1. /\ blocks \in Seq(BlockType) /\ parts \in Seq(BlockType)
        /\ (\A k \in DOMAIN blocks : Placed(blocks[k])) /\ (\A k \in DOMAIN parts : Placed(parts[k]))
        /\ Total(parts) <= HardMaxTokens /\ \A b \in ToSet(blocks) : Placed(b) /\ b.kind \in Own
    BY <1>0, FitPacking
  <1> DEFINE b == Head(blocks)
             f == FinishChunk(parts)
             w == Written(chunks, kinds)
             p == PartsText(parts, kinds)
             t == PartsText(Tail(blocks), kinds)
  <1>2. b \in ToSet(blocks) /\ Tail(blocks) \in Seq(BlockType)
    BY <1>0, <1>1, ElementsOf
  <1>3. Placed(b) /\ b.kind \in Own
    BY <1>1, <1>2
  <1>4. \/ chunks' = chunks /\ parts' = Append(parts, b)
        \/ /\ parts # <<>> /\ chunks' = Append(chunks, f)
           /\ \/ parts' = <<b>>
              \/ \E o : Repeats(o, parts) /\ parts' = <<o, b>>
    BY <1>1, PackStep
  <1>5. blocks' = Tail(blocks)
    BY DEF Pack
  <1>6. PartsText(blocks, kinds) = Said(b, kinds) \o t
    BY <1>0, <1>1, <1>3, PartsFirst
  <1>7. parts # <<>> => f \in ChunkType /\ f.parts = parts
    <2>1. DocFits /\ \A x \in ToSet(parts) : Placed(x)
      BY <1>0, FitPacking
    <2> QED
      BY <1>1, <2>1, FinishFits
  <1>8. Said(b, kinds) \in Seq(Word) /\ p \in Seq(Word) /\ t \in Seq(Word)
    BY <1>1, <1>2, <1>3, PartsSaid, PartsTyped
  <1>9. chunks \in Seq(ChunkType)
    BY DEF Finished
  <1>10. w \in Seq(Word)
    <2>1. CASE chunks = <<>>
      BY <2>1, WrittenNone, EmptySeq
    <2>2. CASE chunks # <<>>
      <3>1. Head(chunks) \in ChunkType
        BY <1>9, <2>2, ElementsOf
      <3> QED
        BY <1>9, <3>1, WrittenAdded
    <2> QED
      BY <2>1, <2>2
  <1>11. Stream(chunks, parts, blocks, kinds) = (w \o p) \o (Said(b, kinds) \o t)
    BY <1>6 DEF Stream
  <1>12. Stream(chunks', parts', blocks', kinds) = (Written(chunks', kinds) \o PartsText(parts', kinds)) \o t
    BY <1>5 DEF Stream
  <1>13. parts' = <<b>> \/ (\E o : Repeats(o, parts) /\ parts' = <<o, b>>) => PartsText(parts', kinds) = Said(b, kinds)
    <2>1. \A o : Repeats(o, parts) => Placed(o) /\ o.kind = "overlap"
      BY DEF Repeats
    <2> HIDE DEF b
    <2> QED
      BY <1>3, <2>1, PartsSaid
  <1>14. parts' = Append(parts, b) => PartsText(parts', kinds) = p \o Said(b, kinds)
    <2> HIDE DEF b
    <2> QED
      BY <1>1, <1>3, PartsSaid
  <1>15. parts # <<>> /\ chunks' = Append(chunks, f) => Written(chunks', kinds) = w \o p
    <2> HIDE DEF f
    <2> QED
      BY <1>7, <1>9, WrittenAdded
  <1> HIDE DEF b, f, w, p, t
  <1> DEFINE h == Said(b, kinds)
  <1>16. /\ (w \o (p \o h)) \o t = (w \o p) \o (h \o t)
         /\ ((w \o p) \o h) \o t = (w \o p) \o (h \o t)
    <2>1. w \in Seq(Word) /\ p \in Seq(Word) /\ h \in Seq(Word) /\ t \in Seq(Word)
      BY <1>8, <1>10
    <2> HIDE DEF h
    <2>2. Regrouped(w, p, h, t)
      BY ONLY <2>1, RegroupFour
    <2> QED
      BY ONLY <2>2 DEF Regrouped
  <1>17. CASE chunks' = chunks /\ parts' = Append(parts, b)
    <2>1. Written(chunks', kinds) = w /\ PartsText(parts', kinds) = p \o Said(b, kinds)
      BY <1>14, <1>17 DEF w
    <2> QED
      BY <1>11, <1>12, <1>16, <2>1
  <1>18. CASE /\ parts # <<>> /\ chunks' = Append(chunks, f)
              /\ \/ parts' = <<b>>
                 \/ \E o : Repeats(o, parts) /\ parts' = <<o, b>>
    <2>1. Written(chunks', kinds) = w \o p /\ PartsText(parts', kinds) = Said(b, kinds)
      BY <1>13, <1>15, <1>18
    <2> QED
      BY <1>11, <1>12, <1>16, <2>1
  <1> QED
    BY <1>4, <1>17, <1>18

\* The text stays whole.
LEMMA WholeStep == Fit /\ Finished /\ Whole /\ [Next]_vars => Whole'
  <1> SUFFICES ASSUME Fit, Finished, Whole, [Next]_vars PROVE Whole'
    OBVIOUS
  <1>1. doc' = doc
    BY ChunkSteps
  <1>2. \A i, j : Words(i, j)' = Words(i, j)
    BY <1>1, DocSame
  <1> DEFINE s(kinds) == Stream(chunks, parts, blocks, kinds)
             t(kinds) == Stream(chunks', parts', blocks', kinds)
             w(kinds) == Written(chunks', kinds)
  <1>3. SUFFICES /\ Active' => Covers(t(Own), t(Plain), index' - 1)
                 /\ status' = "done" => Covers(w(Own), w(Plain), Len(doc))
    BY <1>1, <1>2 DEF Whole, Covers
  <1>4. Active => Covers(s(Own), s(Plain), index - 1)
    BY DEF Whole
  <1>0. Own \in SUBSET Own /\ Plain \in SUBSET Own
    BY DEF Own, Plain
  <1>5. CASE SkipBlank
    <2>1. status = "parsing" /\ status' = "parsing" /\ Blank(index) /\ index <= Len(doc)
      BY <1>5 DEF SkipBlank
    <2>2. (\A kinds : t(kinds) = s(kinds)) /\ index' = index + 1
      BY <1>5 DEF SkipBlank
    <2>3. DocFits /\ index \in Nat /\ index \in 1 .. Len(doc) /\ 1 <= index /\ Len(doc) \in Nat
      BY <2>1, DocTyped DEF Fit
    <2>4. Words(1, index) = Words(1, index - 1) \cup Words(index, index)
      <3>1. 1 \in Nat /\ index <= index + 1
        BY <2>3
      <3> QED
        BY <2>3, <3>1, WordsCut
    <2>5. Words(index, index) = {}
      <3>1. doc[index].size = 0
        BY <2>1, <2>3, DocTyped DEF DocFits
      <3>2. \A x \in index .. index : x = index
        BY <2>3
      <3> QED
        BY <3>1, <3>2 DEF Words
    <2>6. (index + 1) - 1 = index
      BY <2>3
    <2> HIDE DEF s, t
    <2> QED
      BY <1>4, <2>1, <2>2, <2>4, <2>5, <2>6 DEF Active, Covers
  <1>6. CASE ParseBlock
    <2>0. DocFits /\ index \in 1 .. Len(doc) + 1 /\ headings \in Seq(Nat)
      BY DEF Fit
    <2>1. status' = "parsing" \/ status' \in Causes
      BY <1>6, <2>0, ParseStep
    <2>2. status' # "done" /\ status' # "packing"
      BY <2>1 DEF Causes
    <2>3. status' = "parsing" => Covers(t(Own), t(Plain), index' - 1)
      BY <1>6, WholeParse
    <2> HIDE DEF t
    <2> QED
      BY <2>2, <2>3 DEF Active
  <1>7. CASE ParseEnds
    <2>1. /\ \A kinds : t(kinds) = s(kinds)
          /\ index' = index /\ status = "parsing" /\ status' # "done"
      BY <1>7 DEF ParseEnds
    <2> HIDE DEF s, t
    <2> QED
      BY <1>4, <2>1 DEF Active
  <1>8. CASE Pack
    <2>1. t(Own) = s(Own) /\ t(Plain) = s(Plain)
      BY <1>0, <1>8, WholePack
    <2>2. status = "packing" /\ index' = index
      BY <1>8 DEF Pack
    <2>3. status' # "done"
      <3>1. /\ blocks \in Seq(BlockType) /\ parts \in Seq(BlockType)
            /\ (\A k \in DOMAIN blocks : Placed(blocks[k])) /\ (\A k \in DOMAIN parts : Placed(parts[k]))
            /\ Total(parts) <= HardMaxTokens
        BY <2>2, FitPacking
      <3>2. status' \in {"packing", "chunk limit"}
        BY <1>8, <3>1, PackStep
      <3> QED
        BY <3>2
    <2> HIDE DEF s, t
    <2> QED
      BY <1>4, <2>1, <2>2, <2>3 DEF Active
  <1>9. CASE PackEnds
    <2>1. status = "packing" /\ blocks = <<>>
      BY <1>9 DEF PackEnds
    <2>2. /\ DocFits /\ parts \in Seq(BlockType) /\ (\A k \in DOMAIN parts : Placed(parts[k]))
          /\ Total(parts) <= HardMaxTokens /\ parts # <<>> /\ index = Len(doc) + 1 /\ Len(doc) \in Nat
          /\ \A b \in ToSet(parts) : Placed(b)
      BY <2>1, FitPacking
    <2>3. status' \in {"done", "chunk limit"} /\ chunks' = Append(chunks, FinishChunk(parts))
      BY <1>9, <2>2, PackEndsStep
    <2> DEFINE f == FinishChunk(parts)
    <2>4. f \in ChunkType /\ f.parts = parts
      BY <2>2, FinishFits
    <2>5. chunks \in Seq(ChunkType)
      BY DEF Finished
    <2>6. \A kinds : s(kinds) = w(kinds)
      <3> TAKE kinds
      <3> DEFINE x == Written(chunks, kinds)
                 p == PartsText(parts, kinds)
      <3> HIDE DEF f
      <3>1. w(kinds) = x \o p /\ x \in Seq(Word) /\ p \in Seq(Word)
        BY <2>3, <2>4, <2>5, WrittenAdded DEF f
      <3>2. s(kinds) = (x \o p) \o <<>>
        BY <2>1, <2>2, PartsTyped DEF Stream
      <3> HIDE DEF x, p, s, w
      <3>3. x \o p \in Seq(Word)
        BY <3>1, ConcatProperties
      <3> QED
        BY <3>1, <3>2, <3>3, ConcatEmptySeq
    <2> HIDE DEF w, s, t
    <2>7. Covers(s(Own), s(Plain), Len(doc))
      <3>1. index - 1 = Len(doc)
        BY <2>2
      <3> QED
        BY <1>4, <2>1, <3>1 DEF Active
    <2>8. ~Active'
      BY <2>3 DEF Active
    <2> QED
      BY <2>6, <2>7, <2>8
  <1>10. CASE UNCHANGED vars
    <2>1. /\ \A kinds : t(kinds) = s(kinds) /\ w(kinds) = Written(chunks, kinds)
          /\ index' = index /\ status' = status
      BY <1>10 DEF vars
    <2>2. status = "done" => Covers(Written(chunks, Own), Written(chunks, Plain), Len(doc))
      BY DEF Whole
    <2> HIDE DEF s, t, w
    <2> QED
      BY <1>4, <2>1, <2>2 DEF Active
  <1> QED
    BY <1>5, <1>6, <1>7, <1>8, <1>9, <1>10 DEF Next

\* What is in a text once is not there twice.
LEMMA OnceNotTwice ==
    ASSUME NEW text \in Seq(Word), NEW k \in DOMAIN text,
           Cardinality({j \in DOMAIN text : text[j] = text[k]}) = 1
    PROVE  ~Twice(text, k)
  <1> DEFINE S == {j \in DOMAIN text : text[j] = text[k]}
  <1>1. Len(text) \in Nat /\ DOMAIN text = 1 .. Len(text)
    BY LenProperties
  <1>2. IsFiniteSet(1 .. Len(text))
    BY <1>1, FS_Interval
  <1>3. S \in SUBSET (1 .. Len(text))
    BY <1>1
  <1>4. k \in S /\ Cardinality(S) = 1
    OBVIOUS
  <1>5. Twice(text, k) => \E m \in S : m # k
    BY DEF Twice
  <1> HIDE DEF S
  <1>6. IsFiniteSet(S)
    BY <1>2, <1>3, FS_Subset
  <1>7. PICK x : S = {x}
    BY <1>4, <1>6, FS_Singleton
  <1> QED
    BY <1>4, <1>5, <1>7

\* The words of a document, line by line.
LEMMA WordsOfLines ==
    ASSUME DocFits
    PROVE  Words(1, Len(doc)) = UNION {ToSet(LineText(i)) : i \in DOMAIN doc}
  <1>1. DOMAIN doc = 1 .. Len(doc) /\ Len(doc) \in Nat
    BY DocTyped
  <1>2. \A i \in DOMAIN doc : ToSet(LineText(i)) = Words(i, i)
    BY <1>1, LineTyped
  <1>3. Words(1, Len(doc)) = UNION {Words(i, i) : i \in DOMAIN doc}
    <2>1. ASSUME NEW w \in Words(1, Len(doc)) PROVE \E i \in DOMAIN doc : w \in Words(i, i)
      <3>1. w[1] \in DOMAIN doc /\ w[1] \in w[1] .. w[1]
        BY <1>1 DEF Words
      <3> QED
        BY <3>1 DEF Words
    <2>2. ASSUME NEW i \in DOMAIN doc, NEW w \in Words(i, i) PROVE w \in Words(1, Len(doc))
      <3>1. \A x \in i .. i : x \in 1 .. Len(doc)
        BY <1>1
      <3> QED
        BY <3>1 DEF Words
    <2> QED
      BY <2>1, <2>2
  <1> QED
    BY <1>2, <1>3

\* A document that is chunked is chunked whole: every wordpiece of it is in some
\* chunk, what is there once comes in the order of the document, and headings and
\* prose are there once, for every document and every token bound (_parse_blocks,
\* the three splitters and the loop of chunk_markdown together).
THEOREM ChunkedWhole == Spec => []NothingLost
  <1>1. Init => Finished /\ Whole
    <2> SUFFICES ASSUME Init PROVE Finished /\ Whole
      OBVIOUS
    <2>1. /\ parts = <<>> /\ chunks = <<>> /\ blocks = <<>> /\ index = 1 /\ status = "parsing"
          /\ DOMAIN <<>> = {} /\ <<>> \in Seq(ChunkType) /\ <<>> \in Seq(BlockType)
      BY EmptySeq DEF Init
    <2>2. \A kinds : Stream(chunks, parts, blocks, kinds) = <<>>
      BY <2>1, StreamParsing, PartsTyped
    <2>3. ToSet(<<>>) = {} /\ Nearly(<<>>) /\ Ordered(<<>>)
      BY <2>1 DEF ToSet, Nearly, Ordered
    <2>4. Words(1, 1 - 1) = {}
      BY DEF Words
    <2> QED
      BY <2>1, <2>2, <2>3, <2>4 DEF Finished, Whole, Covers
  <1>2. Spec => [](Fit /\ Finished /\ Whole)
    BY FitInit, FitStep, <1>1, FinishedStep, WholeStep, PTL DEF Spec
  <1>3. Fit /\ Finished /\ Whole => NothingLost
    <2> SUFFICES ASSUME Fit, Finished, Whole, status = "done" PROVE NothingLost
      BY DEF NothingLost
    <2> DEFINE text == Written(chunks, Own)
               plain == Written(chunks, Plain)
               once == {k \in DOMAIN text : Cardinality({j \in DOMAIN text : text[j] = text[k]}) = 1}
    <2>1. ToSet(text) = Words(1, Len(doc)) /\ Nearly(text) /\ Ordered(plain)
      BY DEF Whole, Covers
    <2>2. DocFits
      BY DEF Fit
    <2>3. text \in Seq(Word)
      <3>1. chunks \in Seq(ChunkType)
        BY DEF Finished
      <3>2. CASE chunks = <<>>
        BY <3>2, WrittenNone, EmptySeq
      <3>3. CASE chunks # <<>>
        <4>1. Head(chunks) \in ChunkType
          BY <3>1, <3>3, ElementsOf
        <4> QED
          BY <3>1, <4>1, WrittenAdded
      <3> QED
        BY <3>2, <3>3
    <2> HIDE DEF text, plain
    <2>4. ToSet(text) = UNION {ToSet(LineText(i)) : i \in DOMAIN doc}
      BY <2>1, <2>2, WordsOfLines
    <2>5. ASSUME NEW j \in once, NEW k \in once, j < k PROVE Before(text[j], text[k])
      <3>1. ~Twice(text, j) /\ ~Twice(text, k)
        BY <2>3, <2>5, OnceNotTwice
      <3> QED
        BY <2>1, <2>5, <3>1 DEF Nearly
    <2>6. \A j, k \in DOMAIN plain : j < k => Before(plain[j], plain[k])
      BY <2>1 DEF Ordered
    <2> QED
      BY <2>4, <2>5, <2>6 DEF NothingLost, text, plain
  <1> QED
    BY <1>2, <1>3, PTL

-----------------------------------------------------------------------------
(* Provenance. *)

\* The innermost heading of a path, or 0.
Innermost(path) == IF path = <<>> THEN 0 ELSE Last(path)

\* Block b is not above block a.
Le(a, b) == a.page <= b.page /\ Innermost(a.path) <= Innermost(b.path)

InOrder(bs) == \A j, k \in DOMAIN bs : j < k => Le(bs[j], bs[k])

\* A heading that is a block of its own is the innermost one of its path.
HeadingFits(b) ==
    b.kind = "heading" => b.path # <<>> /\ \A w \in ToSet(b.text) : w[1] = Last(b.path)

\* The parts of chunks, and of the open one.
Done(cs, ps) == (UNION {ToSet(cs[c].parts) : c \in DOMAIN cs}) \cup ToSet(ps)

\* Nothing is above what came before it.
Sorted ==
    /\ \A b \in ToSet(parts) \cup ToSet(blocks) : HeadingFits(b)
    /\ InOrder(blocks) /\ Innermost(headings) < index
    /\ status = "parsing" =>
        \A b \in ToSet(blocks) :
            /\ Innermost(b.path) <= Innermost(headings)
            /\ \A i \in index .. Len(doc) : b.page <= doc[i].page
    /\ \A a \in Done(chunks, parts), b \in ToSet(blocks) : Le(a, b)
    /\ parts # <<>> => \A a \in Done(chunks, parts) : Le(a, Last(parts))
    /\ chunks # <<>> => parts # <<>> /\ \A a \in ToSet(parts) : Last(chunks).first <= a.page

\* Chunk c of some lies below the ones before it.
BelowAt(cs, c) ==
    /\ c > 1 => cs[c - 1].first <= cs[c].first
    /\ \A b \in 1 .. c : \A a \in ToSet(cs[b].parts) :
        HeadingFits(a) /\ Innermost(a.path) <= Innermost(cs[c].path)

InPlace ==
    /\ \A c \in DOMAIN chunks : BelowAt(chunks, c)
    /\ Active => Sorted

\* Paths end in a line or are empty.
LEMMA InnermostTyped ==
    ASSUME NEW path \in Seq(Nat)
    PROVE  Innermost(path) \in Nat
  <1>1. CASE path = <<>>
    BY <1>1 DEF Innermost
  <1>2. CASE path # <<>>
    <2>1. Len(path) \in Nat /\ Len(path) # 0
      BY <1>2, EmptySeq, LenProperties
    <2>2. Len(path) \in 1 .. Len(path)
      BY <2>1
    <2>3. path[Len(path)] \in Nat
      BY <2>2, ElementOfSeq
    <2> QED
      BY <1>2, <2>3 DEF Innermost, Last
  <1> QED
    BY <1>1, <1>2

\* Le is an order.
LEMMA LeOrder ==
    ASSUME NEW a \in BlockType, NEW b \in BlockType, NEW c \in BlockType
    PROVE  Le(a, a) /\ (Le(a, b) /\ Le(b, c) => Le(a, c))
  <1>1. a.page \in Nat /\ b.page \in Nat /\ c.page \in Nat
    BY DEF BlockType
  <1>2. a.path \in Seq(Nat) /\ b.path \in Seq(Nat) /\ c.path \in Seq(Nat)
    BY DEF BlockType
  <1>3. Innermost(a.path) \in Nat /\ Innermost(b.path) \in Nat /\ Innermost(c.path) \in Nat
    BY <1>2, InnermostTyped
  <1> QED
    BY <1>1, <1>3 DEF Le

\* The tail of blocks in order is in order, below the head.
LEMMA TailInOrder ==
    ASSUME NEW bs \in Seq(BlockType), bs # <<>>, InOrder(bs)
    PROVE  InOrder(Tail(bs)) /\ \A b \in ToSet(Tail(bs)) : Le(Head(bs), b)
  <1> DEFINE t == Tail(bs)
             n == Len(bs)
  <1>1. /\ Head(bs) = bs[1] /\ 1 \in DOMAIN bs /\ DOMAIN t = 1 .. n - 1 /\ n \in Nat
        /\ \A k \in DOMAIN t : t[k] = bs[k + 1] /\ k + 1 \in DOMAIN bs
    BY HeadPlaces
  <1> HIDE DEF t, n
  <1>2. ASSUME NEW j \in DOMAIN t, NEW k \in DOMAIN t, j < k PROVE Le(t[j], t[k])
    <2>1. j + 1 < k + 1
      BY <1>1, <1>2
    <2> QED
      BY <1>1, <2>1 DEF InOrder
  <1>3. ASSUME NEW k \in DOMAIN t PROVE Le(bs[1], t[k])
    <2>1. 1 < k + 1
      BY <1>1
    <2> QED
      BY <1>1, <2>1 DEF InOrder
  <1> QED
    BY <1>1, <1>2, <1>3 DEF InOrder, ToSet, t

\* Blocks in order, and others below them.
LEMMA ConcatInOrder ==
    ASSUME NEW s \in Seq(BlockType), NEW t \in Seq(BlockType), InOrder(s), InOrder(t),
           \A a \in ToSet(s), b \in ToSet(t) : Le(a, b)
    PROVE  InOrder(s \o t)
  <1> DEFINE r == s \o t
             m == Len(s)
             n == Len(t)
  <1>1. /\ DOMAIN r = 1 .. m + n /\ m \in Nat /\ n \in Nat
        /\ DOMAIN s = 1 .. m /\ DOMAIN t = 1 .. n
        /\ \A k \in 1 .. m : r[k] = s[k]
        /\ \A k \in 1 .. n : r[m + k] = t[k]
    BY PlaceConcat
  <1> HIDE DEF r, m, n
  <1>2. ASSUME NEW k \in DOMAIN r, k \notin 1 .. m
        PROVE  k - m \in 1 .. n /\ r[k] = t[k - m] /\ t[k - m] \in ToSet(t)
    <2> DEFINE l == k - m
    <2>1. l \in 1 .. n /\ m + l = k
      BY <1>1, <1>2
    <2> HIDE DEF l
    <2>2. r[k] = t[l] /\ t[l] \in ToSet(t)
      BY <1>1, <2>1 DEF ToSet
    <2> QED
      BY <2>1, <2>2 DEF l
  <1>3. ASSUME NEW j \in DOMAIN r, NEW k \in DOMAIN r, j < k PROVE Le(r[j], r[k])
    <2>0. j \in Nat /\ k \in Nat
      BY <1>1
    <2>1. CASE k \in 1 .. m
      <3>1. j \in 1 .. m
        BY <1>1, <1>3, <2>0, <2>1
      <3> QED
        BY <1>1, <1>3, <2>1, <3>1 DEF InOrder
    <2>2. CASE k \notin 1 .. m /\ j \in 1 .. m
      <3>1. r[j] \in ToSet(s)
        BY <1>1, <2>2 DEF ToSet
      <3> QED
        BY <1>2, <2>2, <3>1
    <2>3. CASE k \notin 1 .. m /\ j \notin 1 .. m
      <3>1. j - m < k - m
        BY <1>1, <1>3, <2>0
      <3> QED
        BY <1>1, <1>2, <2>3, <3>1 DEF InOrder
    <2> QED
      BY <2>1, <2>2, <2>3
  <1> QED
    BY <1>3 DEF InOrder, r

\* The pages of what placed parts say are the pages of the parts.
LEMMA PartsPages ==
    ASSUME NEW ps \in Seq(BlockType), \A b \in ToSet(ps) : Placed(b)
    PROVE  {doc[w[1]].page : w \in ToSet(PartsText(ps, Own \cup {"overlap"}))}
            = {ps[k].page : k \in DOMAIN ps}
  <1> DEFINE words == ToSet(PartsText(ps, Own \cup {"overlap"}))
  <1>1. words = UNION {ToSet(b.text) : b \in ToSet(ps)}
    <2>1. \A b \in ToSet(ps) : b.kind \in Own \cup {"overlap"}
      BY DEF Placed, BlockType
    <2>2. {b \in ToSet(ps) : b.kind \in Own \cup {"overlap"}} = ToSet(ps)
      BY <2>1
    <2> QED
      BY <2>2, PartsWords
  <1> HIDE DEF words
  <1>2. \A b \in ToSet(ps) : \A w \in ToSet(b.text) : doc[w[1]].page = b.page
    BY DEF Placed
  <1>3. \A b \in ToSet(ps) : \E w \in ToSet(b.text) : TRUE
    <2> TAKE b \in ToSet(ps)
    <2>1. b.text # <<>> /\ b.text \in Seq(Word)
      BY DEF Placed, PieceFits, BlockType
    <2>2. ToSet(b.text) # {}
      BY <2>1, ElementsOf
    <2> QED
      BY <2>2
  <1>4. {doc[w[1]].page : w \in words} = {b.page : b \in ToSet(ps)}
    <2>1. ASSUME NEW w \in words PROVE \E b \in ToSet(ps) : doc[w[1]].page = b.page
      BY <1>1, <1>2
    <2>2. ASSUME NEW b \in ToSet(ps) PROVE \E w \in words : doc[w[1]].page = b.page
      BY <1>1, <1>2, <1>3
    <2> QED
      BY <2>1, <2>2
  <1>5. {b.page : b \in ToSet(ps)} = {ps[k].page : k \in DOMAIN ps}
    BY DEF ToSet
  <1> QED
    BY <1>4, <1>5 DEF words

\* A path ends in the line it is the path of, or in what it ended in before.
LEMMA PathEnds ==
    ASSUME headings \in Seq(Nat), NEW i \in Nat
    PROVE  /\ Heading(i) => Path(i) # <<>> /\ Last(Path(i)) = i
           /\ ~Heading(i) => Path(i) = headings
  <1> DEFINE n == Min({Level(i) - 1, Len(headings)})
             s == SubSeq(headings, 1, n)
  <1>1. Len(headings) \in Nat /\ Level(i) - 1 \in Nat
    BY LenProperties DEF Level
  <1>2. n \in Nat /\ n <= Len(headings)
    <2>1. n = IF Level(i) - 1 <= Len(headings) THEN Level(i) - 1 ELSE Len(headings)
      BY <1>1, MinOfTwo
    <2> HIDE DEF n
    <2> QED
      BY <1>1, <2>1
  <1> HIDE DEF n
  <1>3. s \in Seq(Nat)
    <2>1. \A k \in 1 .. n : headings[k] \in Nat
      BY <1>1, <1>2, ElementOfSeq
    <2>2. 1 \in Int /\ n \in Int
      BY <1>2
    <2> QED
      BY <2>1, <2>2, SubSeqProperties
  <1>4. Path(i) = IF Heading(i) THEN Append(s, i) ELSE headings
    BY DEF Path, n
  <1> HIDE DEF s
  <1>5. Append(s, i) # <<>> /\ Last(Append(s, i)) = i
    BY <1>3, AppendPlaces, FrontLast
  <1> QED
    BY <1>4, <1>5

\* The parser adds blocks below the ones it has.
LEMMA SortedParse ==
    ASSUME Fit, Sorted, ParseBlock
    PROVE  /\ \A b \in ToSet(parts') \cup ToSet(blocks') : HeadingFits(b)
           /\ InOrder(blocks') /\ Innermost(headings') < index'
           /\ \A b \in ToSet(blocks') :
                /\ Innermost(b.path) <= Innermost(headings')
                /\ \A i \in index' .. Len(doc) : b.page <= doc[i].page
  <1>0. DocFits /\ Len(doc) \in Nat /\ index \in 1 .. Len(doc) + 1 /\ headings \in Seq(Nat)
        /\ blocks \in Seq(BlockType) /\ index \in Nat
    BY DocTyped DEF Fit
  <1>1. /\ status = "parsing" /\ index \in 1 .. Len(doc) /\ headings' = Path(index)
        /\ headings' \in Seq(Nat) /\ parts' = parts
    BY <1>0, ParseStep
  <1>2. PICK j \in index .. Len(doc), bs \in Seq(BlockType) :
            /\ index' = j + 1 /\ blocks' = blocks \o bs /\ Added(bs, index, j, headings')
    BY <1>0, ParseStep
  <1>3. /\ (\A b \in ToSet(parts) \cup ToSet(blocks) : HeadingFits(b))
        /\ InOrder(blocks) /\ Innermost(headings) < index
        /\ \A b \in ToSet(blocks) :
            /\ Innermost(b.path) <= Innermost(headings)
            /\ \A i \in index .. Len(doc) : b.page <= doc[i].page
    BY <1>1 DEF Sorted
  <1>4. Heading(index) => headings' # <<>> /\ Last(headings') = index
    BY <1>0, <1>1, PathEnds
  <1>5. Innermost(headings) \in Nat /\ Innermost(headings') \in Nat
        /\ Innermost(headings) <= Innermost(headings') /\ Innermost(headings') <= index
    <2>1. Innermost(headings) \in Nat /\ Innermost(headings') \in Nat
      BY <1>0, <1>1, InnermostTyped
    <2>2. CASE Heading(index)
      <3>1. Innermost(headings') = index
        BY <1>4, <2>2 DEF Innermost
      <3> QED
        BY <1>0, <1>3, <2>1, <3>1
    <2>3. CASE ~Heading(index)
      <3>1. headings' = headings
        BY <1>0, <1>1, <2>3, PathEnds
      <3> QED
        BY <1>0, <1>3, <2>1, <3>1
    <2> QED
      BY <2>2, <2>3
  <1>6. j \in Nat /\ index <= j /\ j <= Len(doc)
    BY <1>0, <1>2
  <1>7. ASSUME NEW b \in ToSet(bs)
        PROVE  /\ HeadingFits(b) /\ b.path = headings' /\ b.page = doc[index].page
    <2>1. /\ b.path = headings' /\ b.page = doc[index].page
          /\ ToSet(b.text) \subseteq Words(index, j)
          /\ b.kind = "heading" => Heading(index) /\ j = index
      BY <1>2 DEF Added, ToSet
    <2>2. ASSUME b.kind = "heading" PROVE b.path # <<>> /\ \A w \in ToSet(b.text) : w[1] = Last(b.path)
      <3>1. Heading(index) /\ j = index
        BY <2>1, <2>2
      <3>2. \A w \in Words(index, index) : w[1] = index
        <4>1. \A x \in index .. index : x = index
          BY <1>0
        <4> QED
          BY <4>1 DEF Words
      <3> QED
        BY <1>4, <2>1, <3>1, <3>2
    <2> QED
      BY <2>1, <2>2 DEF HeadingFits
  <1>8. ToSet(blocks') = ToSet(blocks) \cup ToSet(bs)
    BY <1>0, <1>2, ElementsOf
  <1>9. \A b \in ToSet(parts') \cup ToSet(blocks') : HeadingFits(b)
    BY <1>1, <1>3, <1>7, <1>8
  <1>10. Innermost(headings') < index'
    <2>1. index' = j + 1
      BY <1>2
    <2> QED
      BY <1>0, <1>5, <1>6, <2>1
  <1>11. \A b \in ToSet(blocks) : b \in BlockType /\ b.page \in Nat /\ Innermost(b.path) \in Nat
    <2>1. \A b \in ToSet(blocks) : b \in BlockType
      BY <1>0, ElementsOf
    <2>2. \A b \in ToSet(blocks) : b.page \in Nat /\ b.path \in Seq(Nat)
      BY <2>1 DEF BlockType
    <2> QED
      BY <2>1, <2>2, InnermostTyped
  <1>12. ASSUME NEW a \in ToSet(blocks) PROVE a.page <= doc[index].page /\ Innermost(a.path) <= Innermost(headings')
    <2>1. index \in index .. Len(doc)
      BY <1>0, <1>1
    <2>2. a.page <= doc[index].page /\ Innermost(a.path) <= Innermost(headings)
      BY <1>3, <2>1
    <2>3. Innermost(a.path) \in Nat
      BY <1>11
    <2> QED
      BY <1>5, <2>2, <2>3
  <1>13. InOrder(blocks')
    <2>1. \A a \in ToSet(blocks), b \in ToSet(bs) : Le(a, b)
      BY <1>7, <1>12 DEF Le
    <2>2. InOrder(bs)
      <3>1. doc[index].page <= doc[index].page
        <4>1. doc[index].page \in Nat
          BY <1>0, <1>1, DocTyped
        <4> QED
          BY <4>1
      <3>2. \A k \in DOMAIN bs : bs[k] \in ToSet(bs)
        BY DEF ToSet
      <3>3. \A k \in DOMAIN bs : bs[k].path = headings' /\ bs[k].page = doc[index].page
        BY <1>7, <3>2
      <3>4. Innermost(headings') <= Innermost(headings')
        BY <1>5
      <3> QED
        BY <3>1, <3>3, <3>4 DEF InOrder, Le
    <2>3. InOrder(blocks) /\ blocks' = blocks \o bs
      BY <1>2, <1>3
    <2> QED
      BY <1>0, <2>1, <2>2, <2>3, ConcatInOrder
  <1>14. ASSUME NEW b \in ToSet(blocks'), NEW i \in index' .. Len(doc)
         PROVE  b.page <= doc[i].page
    <2>1. index' = j + 1
      BY <1>2
    <2>2. i \in index .. Len(doc) /\ i \in 1 .. Len(doc) /\ index <= i
      BY <1>0, <1>6, <2>1
    <2>3. doc[index].page <= doc[i].page
      BY <1>0, <1>1, <2>2, DocTyped DEF DocFits
    <2>4. CASE b \in ToSet(blocks)
      BY <1>3, <2>2, <2>4
    <2>5. CASE b \in ToSet(bs)
      BY <1>7, <2>3, <2>5
    <2> QED
      BY <1>8, <2>4, <2>5
  <1>15. \A b \in ToSet(blocks') : Innermost(b.path) <= Innermost(headings')
    <2>1. Innermost(headings') <= Innermost(headings')
      BY <1>5
    <2> QED
      BY <1>7, <1>8, <1>12, <2>1
  <1> QED
    BY <1>9, <1>10, <1>13, <1>14, <1>15

\* Parts that are done are blocks.
LEMMA DoneTyped ==
    ASSUME Finished, parts \in Seq(BlockType)
    PROVE  /\ Done(chunks, parts) \subseteq BlockType
           /\ \A f \in ChunkType : f.parts = parts =>
                UNION {ToSet(Append(chunks, f)[c].parts) : c \in DOMAIN Append(chunks, f)}
                    = Done(chunks, parts)
  <1>1. chunks \in Seq(ChunkType)
    BY DEF Finished
  <1>2. \A c \in DOMAIN chunks : chunks[c] \in ChunkType
    BY <1>1
  <1>3. \A c \in DOMAIN chunks : chunks[c].parts \in Seq(BlockType)
    BY <1>2 DEF ChunkType
  <1>4. \A c \in DOMAIN chunks : ToSet(chunks[c].parts) \subseteq BlockType
    BY <1>3, ElementsOf
  <1>5. ToSet(parts) \subseteq BlockType
    BY ElementsOf
  <1>6. \A x : x \in Done(chunks, parts)
                <=> (\E c \in DOMAIN chunks : x \in ToSet(chunks[c].parts)) \/ x \in ToSet(parts)
    BY DEF Done
  <1>7. Done(chunks, parts) \subseteq BlockType
    BY <1>4, <1>5, <1>6
  <1>8. ASSUME NEW f \in ChunkType, f.parts = parts
        PROVE  UNION {ToSet(Append(chunks, f)[c].parts) : c \in DOMAIN Append(chunks, f)}
                    = Done(chunks, parts)
    <2> DEFINE a == Append(chunks, f)
               n == Len(chunks)
    <2>1. /\ n \in Nat /\ DOMAIN chunks = 1 .. n /\ DOMAIN a = 1 .. n + 1 /\ a[n + 1] = f
          /\ \A c \in 1 .. n : a[c] = chunks[c]
          /\ \A c \in DOMAIN a : c \in DOMAIN chunks \/ c = n + 1
      BY <1>1, ChunkAdded
    <2> HIDE DEF a, n
    <2>2. n + 1 \in DOMAIN a /\ \A c \in 1 .. n : c \in DOMAIN a
      BY <2>1
    <2>3. \A x : (\E c \in DOMAIN a : x \in ToSet(a[c].parts))
                    <=> (\E c \in DOMAIN chunks : x \in ToSet(chunks[c].parts)) \/ x \in ToSet(parts)
      <3> TAKE x
      <3>1. ASSUME NEW c \in DOMAIN a, x \in ToSet(a[c].parts)
            PROVE  (\E d \in DOMAIN chunks : x \in ToSet(chunks[d].parts)) \/ x \in ToSet(parts)
        <4>1. CASE c \in DOMAIN chunks
          BY <2>1, <3>1, <4>1
        <4>2. CASE c = n + 1
          BY <1>8, <2>1, <3>1, <4>2
        <4> QED
          BY <2>1, <4>1, <4>2
      <3>2. ASSUME NEW c \in DOMAIN chunks, x \in ToSet(chunks[c].parts)
            PROVE  \E d \in DOMAIN a : x \in ToSet(a[d].parts)
        BY <2>1, <2>2, <3>2
      <3>3. ASSUME x \in ToSet(parts) PROVE \E d \in DOMAIN a : x \in ToSet(a[d].parts)
        BY <1>8, <2>1, <2>2, <3>3
      <3> QED
        BY <3>1, <3>2, <3>3
    <2>4. UNION {ToSet(a[c].parts) : c \in DOMAIN a} = Done(chunks, parts)
      <3>1. \A x : x \in UNION {ToSet(a[c].parts) : c \in DOMAIN a}
                    <=> \E c \in DOMAIN a : x \in ToSet(a[c].parts)
        OBVIOUS
      <3> QED
        BY <1>6, <2>3, <3>1
    <2> QED
      BY <2>4 DEF a
  <1> QED
    BY <1>8, <1>7

\* The packer takes blocks in their order.
LEMMA SortedPack ==
    ASSUME Fit, Finished, Sorted, Pack
    PROVE  /\ \A b \in ToSet(parts') \cup ToSet(blocks') : HeadingFits(b)
           /\ InOrder(blocks')
           /\ \A a \in Done(chunks', parts'), b \in ToSet(blocks') : Le(a, b)
           /\ \A a \in Done(chunks', parts') : Le(a, Last(parts'))
           /\ parts' # <<>>
           /\ chunks' # <<>> => \A a \in ToSet(parts') : Last(chunks').first <= a.page
  <1>0. status = "packing" /\ blocks # <<>>
    BY DEF Pack
  <1>1. /\ blocks \in Seq(BlockType) /\ parts \in Seq(BlockType)
        /\ (\A k \in DOMAIN blocks : Placed(blocks[k])) /\ (\A k \in DOMAIN parts : Placed(parts[k]))
        /\ Total(parts) <= HardMaxTokens /\ DocFits /\ \A b \in ToSet(parts) : Placed(b)
    BY <1>0, FitPacking
  <1> DEFINE h == Head(blocks)
             f == FinishChunk(parts)
             t == Tail(blocks)
             old == Done(chunks, parts)
  <1>2. h \in BlockType /\ ToSet(blocks) = {h} \cup ToSet(t) /\ t \in Seq(BlockType)
    BY <1>0, <1>1, ElementsOf
  <1>3. \/ chunks' = chunks /\ parts' = Append(parts, h)
        \/ /\ parts # <<>> /\ chunks' = Append(chunks, f)
           /\ \/ parts' = <<h>>
              \/ \E o : Repeats(o, parts) /\ parts' = <<o, h>>
    BY <1>1, PackStep
  <1>4. blocks' = t
    BY DEF Pack
  <1>5. parts' \in Seq(BlockType) /\ parts' # <<>> /\ Last(parts') = h
    BY <1>0, <1>3, PackedParts
  <1>6. InOrder(blocks)
    BY DEF Sorted
  <1>7. InOrder(t) /\ \A b \in ToSet(t) : Le(h, b)
    BY <1>0, <1>1, <1>6, TailInOrder
  <1>8. old \subseteq BlockType
    BY <1>1, DoneTyped
  <1>9. \A a \in old : Le(a, h)
    BY <1>2 DEF Sorted
  <1>10. ToSet(t) \subseteq BlockType
    BY <1>2, ElementsOf
  <1>11. ToSet(parts) \subseteq old
    BY DEF Done
  <1>12. parts # <<>> =>
            /\ f \in ChunkType /\ f.parts = parts /\ \A b \in ToSet(parts) : f.first <= b.page
            /\ f.first \in Nat
    <2>1. parts # <<>> => /\ f \in ChunkType /\ f.parts = parts
                          /\ \A b \in ToSet(parts) : f.first <= b.page
      BY <1>1, FinishFits
    <2> QED
      BY <2>1 DEF ChunkType
  <1>13. chunks \in Seq(ChunkType)
    BY DEF Finished
  <1>14. chunks' = Append(chunks, f) /\ parts # <<>> =>
            UNION {ToSet(chunks'[c].parts) : c \in DOMAIN chunks'} = old
    <2> HIDE DEF f
    <2> QED
      BY <1>1, <1>12, DoneTyped
  <1>15. (\A b \in ToSet(parts) \cup ToSet(blocks) : HeadingFits(b))
         /\ (chunks # <<>> => parts # <<>> /\ \A a \in ToSet(parts) : Last(chunks).first <= a.page)
    BY DEF Sorted
  <1> DEFINE Fine(o) == /\ o \in BlockType /\ Le(o, h) /\ o.kind = "overlap"
                        /\ parts # <<>> => f.first <= o.page
  <1>16. ASSUME NEW o, Repeats(o, parts) PROVE Fine(o)
    <2>1. o \in BlockType /\ o.kind = "overlap"
      BY <1>16 DEF Repeats, Placed
    <2>2. PICK k \in DOMAIN parts : o.page = parts[k].page /\ o.path = parts[k].path
      BY <1>16 DEF Repeats
    <2>3. parts[k] \in ToSet(parts)
      BY DEF ToSet
    <2>4. Le(parts[k], h)
      BY <1>9, <1>11, <2>3
    <2>5. Le(o, h)
      BY <2>2, <2>4 DEF Le
    <2>6. parts # <<>> => f.first <= o.page
      BY <1>12, <2>2, <2>3
    <2> QED
      BY <2>1, <2>5, <2>6
  <1>17. ASSUME parts # <<>> PROVE f.first <= h.page
    <2>1. PICK b \in ToSet(parts) : TRUE
      BY <1>1, <1>17, ElementsOf
    <2>2. f.first <= b.page /\ Le(b, h) /\ b \in BlockType
      BY <1>8, <1>9, <1>11, <1>12, <1>17, <2>1
    <2>3. b.page \in Nat /\ h.page \in Nat /\ f.first \in Nat /\ b.page <= h.page
      BY <1>2, <1>12, <1>17, <2>2 DEF BlockType, Le
    <2> QED
      BY <2>2, <2>3
  <1> HIDE DEF h, f, t, old
  <1>18. /\ \A a \in Done(chunks', parts') : a \in BlockType /\ Le(a, h)
         /\ \A b \in ToSet(parts') : HeadingFits(b)
         /\ chunks' # <<>> => \A a \in ToSet(parts') : Last(chunks').first <= a.page
    <2>0. Le(h, h) /\ HeadingFits(h)
      BY <1>2, <1>15, LeOrder
    <2>1. CASE chunks' = chunks /\ parts' = Append(parts, h)
      <3>1. ToSet(parts') = ToSet(parts) \cup {h}
        BY <1>1, <1>2, <2>1, ElementsOf
      <3>2. Done(chunks', parts') = old \cup {h}
        BY <2>1, <3>1 DEF Done, old
      <3>3. ASSUME chunks # <<>> PROVE Last(chunks).first <= h.page
        <4>1. parts # <<>>
          BY <1>15, <3>3
        <4>2. PICK b \in ToSet(parts) : TRUE
          BY <1>1, <4>1, ElementsOf
        <4>3. Last(chunks).first <= b.page /\ Le(b, h) /\ b \in BlockType
          BY <1>8, <1>9, <1>11, <1>15, <3>3, <4>2
        <4>4. Last(chunks) \in ChunkType
          <5>1. Len(chunks) \in Nat /\ Len(chunks) # 0
            BY <1>13, <3>3, EmptySeq, LenProperties
          <5>2. Len(chunks) \in 1 .. Len(chunks)
            BY <5>1
          <5> QED
            BY <1>13, <5>2, ElementOfSeq DEF Last
        <4>5. b.page \in Nat /\ h.page \in Nat /\ Last(chunks).first \in Nat /\ b.page <= h.page
          BY <1>2, <4>3, <4>4 DEF BlockType, ChunkType, Le
        <4> QED
          BY <4>3, <4>5
      <3> QED
        BY <1>2, <1>8, <1>9, <1>15, <2>0, <2>1, <3>1, <3>2, <3>3
    <2>2. ASSUME parts # <<>>, chunks' = Append(chunks, f), NEW S, ToSet(parts') = S \cup {h},
                 \A o \in S : Fine(o)
          PROVE  /\ \A a \in Done(chunks', parts') : a \in BlockType /\ Le(a, h)
                 /\ \A b \in ToSet(parts') : HeadingFits(b)
                 /\ chunks' # <<>> => \A a \in ToSet(parts') : Last(chunks').first <= a.page
      <3>1. Done(chunks', parts') = old \cup (S \cup {h})
        BY <1>14, <2>2 DEF Done
      <3>2. Last(chunks') = f
        BY <1>12, <1>13, <2>2, ChunkAdded
      <3>3. \A o \in S : HeadingFits(o)
        BY <2>2 DEF HeadingFits
      <3>4. \A a \in old \cup (S \cup {h}) : a \in BlockType /\ Le(a, h)
        BY <1>2, <1>8, <1>9, <2>0, <2>2
      <3>5. \A a \in S \cup {h} : f.first <= a.page
        BY <1>17, <2>2
      <3> QED
        BY <2>0, <2>2, <3>1, <3>2, <3>3, <3>4, <3>5
    <2> HIDE DEF Fine
    <2>3. ASSUME parts # <<>>, chunks' = Append(chunks, f), parts' = <<h>>
          PROVE  ToSet(parts') = {} \cup {h}
      BY <1>2, <2>3, OneTwo
    <2>4. ASSUME NEW o, Repeats(o, parts), parts' = <<o, h>>
          PROVE  ToSet(parts') = {o} \cup {h} /\ \A x \in {o} : Fine(x)
      <3>1. Fine(o)
        BY <1>16, <2>4
      <3>2. o \in BlockType
        BY <3>1 DEF Fine
      <3>3. ToSet(<<o, h>>) = {o, h}
        BY <1>2, <3>2, OneTwo
      <3> QED
        BY <2>4, <3>1, <3>3
    <2> DEFINE Goal == /\ \A a \in Done(chunks', parts') : a \in BlockType /\ Le(a, h)
                       /\ \A b \in ToSet(parts') : HeadingFits(b)
                       /\ chunks' # <<>> => \A a \in ToSet(parts') : Last(chunks').first <= a.page
    <2>5. \A S : parts # <<>> /\ chunks' = Append(chunks, f) /\ ToSet(parts') = S \cup {h}
                    /\ (\A o \in S : Fine(o)) => Goal
      BY <2>2
    <2>6. CASE chunks' = chunks /\ parts' = Append(parts, h)
      BY <2>1, <2>6
    <2> HIDE DEF Goal
    <2>7. ASSUME parts # <<>>, chunks' = Append(chunks, f), parts' = <<h>> PROVE Goal
      <3> DEFINE S == {}
      <3>1. ToSet(parts') = S \cup {h} /\ \A o \in S : Fine(o)
        BY <2>3, <2>7
      <3> HIDE DEF S
      <3> QED
        BY <2>5, <2>7, <3>1
    <2>8. ASSUME parts # <<>>, chunks' = Append(chunks, f), NEW o, Repeats(o, parts), parts' = <<o, h>>
          PROVE  Goal
      <3> DEFINE S == {o}
      <3>1. ToSet(parts') = S \cup {h} /\ \A x \in S : Fine(x)
        BY <2>4, <2>8
      <3> HIDE DEF S
      <3> QED
        BY <2>5, <2>8, <3>1
    <2>9. Goal
      <3>1. CASE chunks' = chunks /\ parts' = Append(parts, h)
        BY <2>6, <3>1 DEF Goal
      <3>2. CASE /\ parts # <<>> /\ chunks' = Append(chunks, f)
                 /\ \/ parts' = <<h>>
                    \/ \E o : Repeats(o, parts) /\ parts' = <<o, h>>
        BY <2>7, <2>8, <3>2
      <3> QED
        BY <1>3, <3>1, <3>2
    <2> QED
      BY <2>9 DEF Goal
  <1>19. \A a \in Done(chunks', parts'), b \in ToSet(blocks') : Le(a, b)
    <2> TAKE a \in Done(chunks', parts'), b \in ToSet(blocks')
    <2>1. a \in BlockType /\ Le(a, h) /\ b \in BlockType /\ Le(h, b)
      BY <1>4, <1>7, <1>10, <1>18
    <2> QED
      BY <1>2, <2>1, LeOrder
  <1>20. \A b \in ToSet(blocks') : HeadingFits(b)
    BY <1>2, <1>4, <1>15
  <1> QED
    BY <1>4, <1>5, <1>7, <1>18, <1>19, <1>20

\* A finished chunk lies below the ones before it.
LEMMA BelowAdded ==
    ASSUME Fit, Finished, InPlace, status = "packing", parts # <<>>
    PROVE  LET cs == Append(chunks, FinishChunk(parts)) IN \A c \in DOMAIN cs : BelowAt(cs, c)
  <1> DEFINE f == FinishChunk(parts)
             a == Append(chunks, f)
             n == Len(chunks)
  <1>1. DocFits /\ parts \in Seq(BlockType) /\ \A b \in ToSet(parts) : Placed(b)
    BY FitPacking
  <1>2. /\ f \in ChunkType /\ f.parts = parts /\ f.path = Last(parts).path
        /\ \E b \in ToSet(parts) : f.first = b.page
    BY <1>1, FinishFits
  <1>3. chunks \in Seq(ChunkType)
    BY DEF Finished
  <1> HIDE DEF f
  <1>4. /\ n \in Nat /\ DOMAIN chunks = 1 .. n /\ DOMAIN a = 1 .. n + 1 /\ a[n + 1] = f
        /\ \A c \in 1 .. n : a[c] = chunks[c]
        /\ \A c \in DOMAIN a : c \in DOMAIN chunks \/ c = n + 1
    BY <1>2, <1>3, ChunkAdded
  <1>5. chunks # <<>> => n # 0 /\ Last(chunks) = chunks[n]
    BY <1>3, EmptySeq DEF Last
  <1>6. n # 0 => chunks # <<>>
    BY <1>3, EmptySeq
  <1> HIDE DEF a, n
  <1>7. /\ \A c \in DOMAIN chunks : BelowAt(chunks, c)
        /\ \A b \in ToSet(parts) : HeadingFits(b)
        /\ \A b \in Done(chunks, parts) : Le(b, Last(parts))
        /\ chunks # <<>> => \A b \in ToSet(parts) : Last(chunks).first <= b.page
    BY DEF InPlace, Active, Sorted
  <1>8. ASSUME NEW c \in DOMAIN chunks PROVE BelowAt(a, c)
    <2>1. BelowAt(chunks, c) /\ a[c] = chunks[c] /\ c \in 1 .. n
      BY <1>4, <1>7
    <2>2. \A b \in 1 .. c : a[b] = chunks[b]
      <3>1. \A b \in 1 .. c : b \in 1 .. n
        BY <1>4, <2>1
      <3> QED
        BY <1>4, <3>1
    <2>3. c > 1 => c - 1 \in 1 .. c
      BY <1>4, <2>1
    <2> QED
      BY <2>1, <2>2, <2>3 DEF BelowAt
  <1>9. BelowAt(a, n + 1)
    <2>1. ASSUME n + 1 > 1 PROVE a[(n + 1) - 1].first <= a[n + 1].first
      <3>1. n # 0 /\ n \in 1 .. n /\ (n + 1) - 1 = n
        BY <1>4, <2>1
      <3>2. chunks # <<>> /\ a[(n + 1) - 1] = Last(chunks)
        BY <1>4, <1>5, <1>6, <3>1
      <3>3. PICK b \in ToSet(parts) : f.first = b.page
        BY <1>2
      <3>4. Last(chunks).first <= b.page
        BY <1>7, <3>2, <3>3
      <3> QED
        BY <1>4, <3>2, <3>3, <3>4
    <2>2. ASSUME NEW b \in 1 .. n + 1, NEW x \in ToSet(a[b].parts)
          PROVE  HeadingFits(x) /\ Innermost(x.path) <= Innermost(a[n + 1].path)
      <3>1. a[n + 1].path = Last(parts).path
        BY <1>2, <1>4
      <3>2. CASE b = n + 1
        <4>1. x \in ToSet(parts)
          BY <1>2, <1>4, <3>2
        <4>2. x \in Done(chunks, parts)
          BY <4>1 DEF Done
        <4> QED
          BY <1>7, <3>1, <4>1, <4>2 DEF Le
      <3>3. CASE b # n + 1
        <4>1. b \in 1 .. n /\ b \in 1 .. b
          BY <1>4, <3>3
        <4>2. x \in ToSet(chunks[b].parts) /\ b \in DOMAIN chunks
          BY <1>4, <4>1
        <4>3. x \in Done(chunks, parts)
          BY <4>2 DEF Done
        <4>4. HeadingFits(x)
          BY <1>7, <4>1, <4>2 DEF BelowAt
        <4>5. Innermost(x.path) <= Innermost(Last(parts).path)
          BY <1>7, <4>3 DEF Le
        <4> QED
          BY <3>1, <4>4, <4>5
      <3> QED
        BY <3>2, <3>3
    <2> QED
      BY <2>1, <2>2 DEF BelowAt
  <1> QED
    BY <1>4, <1>8, <1>9 DEF a, f

\* Every step leaves blocks, parts and chunks in place.
LEMMA InPlaceStep == Fit /\ Finished /\ InPlace /\ [Next]_vars => InPlace'
  <1> SUFFICES ASSUME Fit, Finished, InPlace, [Next]_vars PROVE InPlace'
    OBVIOUS
  <1>1. /\ doc' = doc
        /\ \/ chunks' = chunks
           \/ /\ status = "packing" /\ parts # <<>>
              /\ chunks' = Append(chunks, FinishChunk(parts))
    BY ChunkSteps
  <1>2. (\A c \in DOMAIN chunks : BelowAt(chunks, c)) /\ (Active => Sorted)
    BY DEF InPlace
  <1>3. \A c \in DOMAIN chunks' : BelowAt(chunks', c)
    <2>1. CASE chunks' = chunks
      BY <1>2, <2>1
    <2>2. CASE /\ status = "packing" /\ parts # <<>>
               /\ chunks' = Append(chunks, FinishChunk(parts))
      BY <2>2, BelowAdded
    <2> QED
      BY <1>1, <2>1, <2>2
  <1>4. Active' => Sorted'
    <2>1. CASE SkipBlank
      <3>1. /\ status = "parsing" /\ index' = index + 1 /\ headings' = headings /\ blocks' = blocks
            /\ parts' = parts /\ chunks' = chunks /\ status' = status
        BY <2>1 DEF SkipBlank
      <3>2. Sorted
        BY <1>2, <3>1 DEF Active
      <3>3. index \in Nat /\ Len(doc) \in Nat /\ headings \in Seq(Nat)
        BY DocTyped DEF Fit
      <3>4. Innermost(headings) \in Nat
        BY <3>3, InnermostTyped
      <3>5. Innermost(headings) < index + 1 /\ \A i \in index + 1 .. Len(doc) : i \in index .. Len(doc)
        BY <3>2, <3>3, <3>4 DEF Sorted
      <3> QED
        BY <1>1, <3>1, <3>2, <3>5 DEF Sorted
    <2>2. CASE ParseBlock
      <3>1. status = "parsing"
        BY <2>2 DEF ParseBlock
      <3>2. Sorted /\ parts = <<>> /\ chunks = <<>>
        BY <1>2, <3>1 DEF Active, Fit
      <3>3. /\ \A b \in ToSet(parts') \cup ToSet(blocks') : HeadingFits(b)
            /\ InOrder(blocks') /\ Innermost(headings') < index'
            /\ \A b \in ToSet(blocks') :
                /\ Innermost(b.path) <= Innermost(headings')
                /\ \A i \in index' .. Len(doc) : b.page <= doc[i].page
        BY <2>2, <3>2, SortedParse
      <3>4. parts' = <<>> /\ chunks' = <<>>
        <4>1. DocFits /\ index \in 1 .. Len(doc) + 1 /\ headings \in Seq(Nat)
          BY DEF Fit
        <4> QED
          BY <2>2, <3>2, <4>1, ParseStep
      <3>5. Done(chunks', parts') = {}
        BY <3>4 DEF Done, ToSet
      <3> QED
        BY <1>1, <3>3, <3>4, <3>5 DEF Sorted
    <2>3. CASE ParseEnds
      <3>1. /\ status = "parsing" /\ index' = index /\ headings' = headings /\ blocks' = blocks
            /\ parts' = parts /\ chunks' = chunks /\ status' # "parsing"
        BY <2>3 DEF ParseEnds
      <3>2. Sorted
        BY <1>2, <3>1 DEF Active
      <3> QED
        BY <3>1, <3>2 DEF Sorted
    <2>4. CASE Pack
      <3>1. status = "packing" /\ index' = index /\ headings' = headings
        BY <2>4 DEF Pack
      <3>2. Sorted
        BY <1>2, <3>1 DEF Active
      <3>3. /\ \A b \in ToSet(parts') \cup ToSet(blocks') : HeadingFits(b)
            /\ InOrder(blocks')
            /\ \A a \in Done(chunks', parts'), b \in ToSet(blocks') : Le(a, b)
            /\ \A a \in Done(chunks', parts') : Le(a, Last(parts'))
            /\ parts' # <<>>
            /\ chunks' # <<>> => \A a \in ToSet(parts') : Last(chunks').first <= a.page
        BY <2>4, <3>2, SortedPack
      <3>4. status' # "parsing"
        <4>1. /\ blocks \in Seq(BlockType) /\ parts \in Seq(BlockType)
              /\ (\A k \in DOMAIN blocks : Placed(blocks[k])) /\ (\A k \in DOMAIN parts : Placed(parts[k]))
              /\ Total(parts) <= HardMaxTokens
          BY <3>1, FitPacking
        <4>2. status' \in {"packing", "chunk limit"}
          BY <2>4, <4>1, PackStep
        <4> QED
          BY <4>2
      <3>5. Innermost(headings') < index'
        BY <3>1, <3>2 DEF Sorted
      <3> QED
        BY <3>3, <3>4, <3>5 DEF Sorted
    <2>5. CASE PackEnds
      <3>1. status = "packing" /\ parts # <<>>
        BY <2>5, FitPacking DEF PackEnds
      <3>2. /\ parts \in Seq(BlockType) /\ (\A k \in DOMAIN parts : Placed(parts[k]))
            /\ Total(parts) <= HardMaxTokens
        BY <3>1, FitPacking
      <3>3. status' \in {"done", "chunk limit"}
        BY <2>5, <3>1, <3>2, PackEndsStep
      <3> QED
        BY <3>3 DEF Active
    <2>6. CASE UNCHANGED vars
      <3>1. /\ index' = index /\ headings' = headings /\ blocks' = blocks
            /\ parts' = parts /\ chunks' = chunks /\ status' = status
        BY <2>6 DEF vars
      <3>2. Active' => Sorted
        BY <1>2, <3>1 DEF Active
      <3> QED
        BY <1>1, <3>1, <3>2 DEF Sorted
    <2> QED
      BY <2>1, <2>2, <2>3, <2>4, <2>5, <2>6 DEF Next
  <1>5. (\A c \in DOMAIN chunks : BelowAt(chunks, c))'
    BY <1>3
  <1> QED
    BY <1>4, <1>5 DEF InPlace

\* A heading above a chunk is not below the innermost heading of the chunk.
LEMMA NearestHeading ==
    ASSUME NEW path \in Seq(Nat), NEW S, S # {}, S \subseteq BlockType,
           \A b \in S : /\ Placed(b) /\ b.kind = "heading" /\ HeadingFits(b)
                        /\ Innermost(b.path) <= Innermost(path)
    PROVE  Last(path) >= Max({Head(b.text)[1] : b \in S})
  <1> DEFINE lines == {Head(b.text)[1] : b \in S}
             m == Innermost(path)
  <1>1. m \in Nat
    BY InnermostTyped
  <1>2. ASSUME NEW b \in S
        PROVE  Head(b.text)[1] \in Nat /\ Head(b.text)[1] >= 1 /\ Head(b.text)[1] <= m
    <2>1. b.text \in Seq(Word) /\ b.text # <<>> /\ ToSet(b.text) \subseteq Words(1, Len(doc))
          /\ b.path \in Seq(Nat)
      BY DEF Placed, PieceFits, BlockType
    <2>2. Head(b.text) \in ToSet(b.text)
      BY <2>1, ElementsOf
    <2>3. Head(b.text)[1] \in Nat /\ Head(b.text)[1] >= 1
      <3>1. Head(b.text) \in Words(1, Len(doc))
        BY <2>1, <2>2
      <3>2. \A w \in Words(1, Len(doc)) : w \in Nat \X Nat /\ w[1] \in 1 .. Len(doc)
        BY DEF Words, Word
      <3>3. \A w \in Words(1, Len(doc)) : w[1] \in Nat /\ w[1] >= 1
        BY <3>2
      <3> QED
        BY <3>1, <3>3
    <2>4. Head(b.text)[1] = Innermost(b.path)
      <3>1. b.path # <<>> /\ \A w \in ToSet(b.text) : w[1] = Last(b.path)
        BY DEF HeadingFits
      <3> QED
        BY <2>2, <3>1 DEF Innermost
    <2>5. Innermost(b.path) <= m
      OBVIOUS
    <2> QED
      BY <2>3, <2>4, <2>5
  <1>3. lines \in SUBSET Nat /\ lines # {} /\ \A x \in lines : x <= m
    BY <1>2
  <1>4. path # <<>> /\ Last(path) = m
    <2>1. PICK b \in S : TRUE
      OBVIOUS
    <2>2. m # 0
      BY <1>1, <1>2, <2>1
    <2> QED
      BY <2>2 DEF Innermost
  <1> HIDE DEF lines, m
  <1>5. Max(lines) \in lines
    BY <1>1, <1>3, Greatest
  <1>6. Max(lines) <= m /\ Max(lines) \in Nat
    BY <1>3, <1>5
  <1>7. m >= Max(lines)
    BY <1>1, <1>6
  <1> QED
    BY <1>4, <1>7 DEF lines

\* The page range of a chunk is that of its text, repetitions included, chunks start
\* on pages that never go back, and the innermost heading of a chunk is the nearest
\* one above its last block that is a block itself, for every document and every
\* token bound (_parse_blocks, _overlap and _finish_chunk).
THEOREM PlacedChunks == Spec => []Provenance
  <1>1. Init => Finished /\ InPlace
    <2> SUFFICES ASSUME Init PROVE Finished /\ InPlace
      OBVIOUS
    <2>1. /\ parts = <<>> /\ chunks = <<>> /\ blocks = <<>> /\ headings = <<>> /\ index = 1
          /\ DOMAIN <<>> = {} /\ <<>> \in Seq(ChunkType) /\ ToSet(<<>>) = {}
      BY EmptySeq DEF Init, ToSet
    <2>2. Innermost(headings) < index
      BY <2>1 DEF Innermost
    <2>3. Sorted
      BY <2>1, <2>2 DEF Sorted, InOrder, Done
    <2> QED
      BY <2>1, <2>3 DEF Finished, InPlace
  <1>2. Spec => [](Fit /\ Finished /\ InPlace)
    BY FitInit, FitStep, <1>1, FinishedStep, InPlaceStep, PTL DEF Spec
  <1>3. Fit /\ Finished /\ InPlace => Provenance
    <2> SUFFICES ASSUME Fit, Finished, InPlace, NEW c \in DOMAIN chunks
                 PROVE  LET pages == {doc[w[1]].page :
                                        w \in ToSet(ChunkText(chunks[c], Own \cup {"overlap"}))}
                            above == {ps \in UNION {ToSet(chunks[b].parts) : b \in 1 .. c} :
                                        ps.kind = "heading"}
                        IN /\ chunks[c].first = Min(pages) /\ chunks[c].last = Max(pages)
                           /\ c > 1 => chunks[c - 1].first <= chunks[c].first
                           /\ above # {} => Last(chunks[c].path) >= Max({Head(ps.text)[1] : ps \in above})
      BY DEF Provenance
    <2> DEFINE ps == chunks[c].parts
               pages == {doc[w[1]].page : w \in ToSet(ChunkText(chunks[c], Own \cup {"overlap"}))}
               above == {b \in UNION {ToSet(chunks[d].parts) : d \in 1 .. c} : b.kind = "heading"}
    <2>1. /\ chunks \in Seq(ChunkType) /\ \A d \in DOMAIN chunks : IsChunk(chunks[d])
      BY DEF Finished
    <2>2. DocFits /\ BelowAt(chunks, c)
      BY DEF Fit, InPlace
    <2>3. /\ chunks[c] \in ChunkType /\ ps # <<>> /\ chunks[c] = FinishChunk(ps)
          /\ \A b \in ToSet(ps) : Placed(b)
      BY <2>1 DEF IsChunk
    <2>4. ps \in Seq(BlockType) /\ chunks[c].path \in Seq(Nat)
      BY <2>3 DEF ChunkType
    <2>5. pages = {ps[k].page : k \in DOMAIN ps}
      BY <2>3, <2>4, PartsPages DEF ChunkText
    <2>6. chunks[c].first = Min(pages) /\ chunks[c].last = Max(pages)
      <3> HIDE DEF pages
      <3>1. FinishChunk(ps).first = Min({ps[k].page : k \in DOMAIN ps})
            /\ FinishChunk(ps).last = Max({ps[k].page : k \in DOMAIN ps})
        <4> HIDE DEF ps
        <4> QED
          BY <2>2, <2>3, <2>4, FinishFits
      <3> QED
        BY <2>3, <2>5, <3>1
    <2>7. c > 1 => chunks[c - 1].first <= chunks[c].first
      BY <2>2 DEF BelowAt
    <2>8. Len(chunks) \in Nat /\ DOMAIN chunks = 1 .. Len(chunks)
      BY <2>1, LenProperties
    <2>9. \A d \in 1 .. c : d \in DOMAIN chunks
      BY <2>8
    <2>10. ASSUME NEW b \in above
           PROVE  /\ b \in BlockType /\ Placed(b) /\ b.kind = "heading" /\ HeadingFits(b)
                  /\ Innermost(b.path) <= Innermost(chunks[c].path)
      <3>1. PICK d \in 1 .. c : b \in ToSet(chunks[d].parts)
        OBVIOUS
      <3>2. IsChunk(chunks[d])
        BY <2>1, <2>9
      <3>3. Placed(b)
        BY <3>1, <3>2 DEF IsChunk
      <3>4. HeadingFits(b) /\ Innermost(b.path) <= Innermost(chunks[c].path)
        BY <2>2, <3>1 DEF BelowAt
      <3> QED
        BY <3>3, <3>4 DEF Placed
    <2> HIDE DEF above
    <2>11. above # {} => Last(chunks[c].path) >= Max({Head(b.text)[1] : b \in above})
      <3> DEFINE path == chunks[c].path
      <3>1. path \in Seq(Nat) /\ \A b \in above : Innermost(b.path) <= Innermost(path)
        BY <2>4, <2>10
      <3>2. above \subseteq BlockType /\ \A b \in above : Placed(b) /\ b.kind = "heading" /\ HeadingFits(b)
        BY <2>10
      <3> HIDE DEF path
      <3>3. above # {} => Last(path) >= Max({Head(b.text)[1] : b \in above})
        BY <3>1, <3>2, NearestHeading
      <3> QED
        BY <3>3 DEF path
    <2> QED
      BY <2>6, <2>7, <2>11 DEF above
  <1> QED
    BY <1>2, <1>3, PTL
=============================================================================
