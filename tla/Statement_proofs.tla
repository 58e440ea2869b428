----------------------------- MODULE Statement_proofs -----------------------------
(***************************************************************************)
(* Lemmas about the operators of Statement, for any columns and values.    *)
(***************************************************************************)
EXTENDS Statement, FiniteSetTheorems, SequenceTheorems, WellFoundedInduction, TLAPS

(* A set of numbers that is not empty has a least one.                     *)
LEMMA LeastNumber ==
  ASSUME NEW S, S \subseteq Nat, S # {}
  PROVE  \E i \in S : \A j \in S : i <= j
<1>1. PICK i \in S : \A j \in S : ~(<<j, i>> \in OpToRel(<, Nat))
  BY WFMin, NatLessThanWellFounded
<1>2. ASSUME NEW j \in S PROVE i <= j
  <2>1. i \in Nat /\ j \in Nat
    OBVIOUS
  <2>2. ~(j < i)
    BY <1>1, <2>1, Zenon DEF OpToRel
  <2> QED
    BY <2>1, <2>2
<1> QED
  BY <1>2

(* A function on the first numbers is a list.                              *)
LEMMA FunctionList ==
  ASSUME NEW S, NEW n \in Nat, NEW f \in [1 .. n -> S]
  PROVE  f \in Seq(S) /\ Len(f) = n /\ DOMAIN f = 1 .. n
OBVIOUS

(* Finitely many positions are counted from the first to the last.         *)
LEMMA NthPosition ==
  ASSUME NEW n \in Nat, NEW I, I \subseteq 1 .. n
  PROVE  /\ Cardinality(I) \in Nat
         /\ \A k \in 1 .. Cardinality(I) : Nth(I, k) \in I /\ Cardinality({j \in I : j <= Nth(I, k)}) = k
<1> DEFINE UpTo(i) == {j \in I : j <= i}
<1>0. \A j \in I : j \in Nat /\ j \in 1 .. n /\ j \in 0 .. n /\ 1 <= j
  OBVIOUS
<1>1. IsFiniteSet(I)
  <2>1. IsFiniteSet(1 .. n)
    BY FS_Interval
  <2> QED
    BY <2>1, FS_Subset
<1>2. Cardinality(I) \in Nat
  BY <1>1, FS_CardinalityType
<1>3. \A i : IsFiniteSet(UpTo(i))
  BY <1>1, FS_Subset
<1> DEFINE Lost == {k \in 1 .. Cardinality(I) : \A i \in I : Cardinality(UpTo(i)) # k}
<1>4. Lost = {}
  <2> SUFFICES ASSUME Lost # {} PROVE FALSE
    OBVIOUS
  <2>1. Lost \subseteq Nat
    BY <1>2
  <2>2. PICK k \in Lost : \A l \in Lost : k <= l
    <3> HIDE DEF Lost
    <3> QED
      BY <2>1, LeastNumber
  <2>3. k \in 1 .. Cardinality(I)
    OBVIOUS
  <2>4. \E i \in 0 .. n : Cardinality(UpTo(i)) = k - 1
    <3>1. CASE k = 1
      <4>1. UpTo(0) = {}
        <5>1. \A j \in I : ~(j <= 0)
          BY <1>0
        <5> QED
          BY <5>1, Zenon
      <4>2. Cardinality(UpTo(0)) = 0
        BY <4>1, FS_EmptySet, Zenon
      <4> QED
        BY <3>1, <4>2
    <3>2. CASE k # 1
      <4>1. k - 1 \in 1 .. Cardinality(I) /\ k - 1 \notin Lost
        BY <1>2, <2>1, <2>2, <2>3, <3>2
      <4>2. PICK i \in I : Cardinality(UpTo(i)) = k - 1
        <5> HIDE DEF UpTo
        <5> QED
          BY <4>1
      <4> QED
        BY <1>0, <4>2
    <3> QED
      BY <3>1, <3>2
  <2>5. PICK i \in 0 .. n : Cardinality(UpTo(i)) = k - 1
    BY <2>4
  <2> DEFINE Above == {j \in I : j > i}
  <2>6. Above # {}
    <3>1. ASSUME Above = {} PROVE UpTo(i) = I
      <4>1. \A j \in I : j <= i
        BY <1>0, <3>1
      <4> QED
        BY <4>1, Zenon
    <3> QED
      BY <1>2, <2>3, <2>5, <3>1
  <2>7. PICK m \in Above : \A j \in Above : m <= j
    <3>1. Above \subseteq Nat
      BY <1>0
    <3> HIDE DEF Above
    <3> QED
      BY <2>6, <3>1, LeastNumber
  <2>8. UpTo(m) = UpTo(i) \cup {m} /\ m \notin UpTo(i) /\ m \in I
    <3>1. m \in I /\ m > i /\ m \in Nat /\ i \in Nat
      BY <1>0, <2>7
    <3>2. \A j \in I : j > i => m <= j
      BY <2>7
    <3>3. \A j \in I : j <= m <=> j <= i \/ j = m
      BY <1>0, <3>1, <3>2
    <3>4. \A j : j \in UpTo(m) <=> j \in UpTo(i) \cup {m}
      BY <3>1, <3>3, Zenon
    <3>5. ~(m <= i)
      BY <3>1
    <3> QED
      BY <3>1, <3>4, <3>5, Zenon
  <2>9. Cardinality(UpTo(m)) = k
    <3> HIDE DEF UpTo
    <3>1. Cardinality(UpTo(i) \cup {m}) = Cardinality(UpTo(i)) + 1
      BY <1>3, <2>8, FS_AddElement
    <3> QED
      BY <1>2, <2>3, <2>5, <2>8, <3>1
  <2> QED
    BY <2>8, <2>9
<1>5. \A k \in 1 .. Cardinality(I) : \E i \in I : Cardinality(UpTo(i)) = k
  BY <1>4
<1> QED
  BY <1>2, <1>5 DEF Nth

(* Members of a list, in their order, are a list of members; different     *)
(* positions of it come from different positions.                          *)
LEMMA ThoseAreMembers ==
  ASSUME NEW S, NEW s \in Seq(S), NEW I, I \subseteq DOMAIN s
  PROVE  /\ Cardinality(I) \in Nat /\ DOMAIN Those(s, I) = 1 .. Cardinality(I)
         /\ Those(s, I) \in Seq(S) /\ Len(Those(s, I)) = Cardinality(I)
         /\ \A k \in DOMAIN Those(s, I) : Nth(I, k) \in DOMAIN s /\ Those(s, I)[k] = s[Nth(I, k)]
         /\ \A k, l \in DOMAIN Those(s, I) : Nth(I, k) = Nth(I, l) => k = l
<1>1. Len(s) \in Nat /\ DOMAIN s = 1 .. Len(s) /\ \A i \in 1 .. Len(s) : s[i] \in S
  BY LenProperties, ElementOfSeq
<1>2. /\ Cardinality(I) \in Nat
      /\ \A k \in 1 .. Cardinality(I) : Nth(I, k) \in I /\ Cardinality({j \in I : j <= Nth(I, k)}) = k
  BY <1>1, NthPosition
<1>3. \A k \in 1 .. Cardinality(I) : Nth(I, k) \in DOMAIN s
  BY <1>2
<1>4. \A k, l \in 1 .. Cardinality(I) : Nth(I, k) = Nth(I, l) => k = l
  BY <1>2
<1> DEFINE n == Cardinality(I)
           at(k) == Nth(I, k)
           f == [k \in 1 .. n |-> s[at(k)]]
<1> HIDE DEF n, at
<1>5. n \in Nat /\ \A k \in 1 .. n : at(k) \in 1 .. Len(s)
  BY <1>1, <1>2, <1>3 DEF n, at
<1>6. f \in [1 .. n -> S]
  BY <1>1, <1>5
<1>7. f \in Seq(S) /\ Len(f) = n
  BY <1>5, <1>6
<1>8. Those(s, I) = f
  BY DEF Those, n, at
<1> QED
  BY <1>2, <1>3, <1>4, <1>6, <1>7, <1>8 DEF n, at

(* findColIndex finds a column there is, and none there is not.            *)
LEMMA ColIndexFinds ==
  ASSUME NEW cols \in Seq(Columns), NEW c
  PROVE  /\ c \in ToSet(cols) => ColIndex(cols, c) \in DOMAIN cols /\ cols[ColIndex(cols, c)] = c
         /\ c \notin ToSet(cols) => ColIndex(cols, c) = 0
         /\ 0 \notin DOMAIN cols
<1>1. DOMAIN cols = 1 .. Len(cols) /\ Len(cols) \in Nat
  BY LenProperties
<1>2. ASSUME c \in ToSet(cols)
      PROVE  \E i \in DOMAIN cols : cols[i] = c /\ \A j \in 1 .. (i - 1) : cols[j] # c
  <2> DEFINE at == {i \in DOMAIN cols : cols[i] = c}
  <2>1. at # {} /\ at \subseteq Nat
    BY <1>1, <1>2 DEF ToSet
  <2>2. PICK i \in at : \A j \in at : i <= j
    <3> HIDE DEF at
    <3> QED
      BY <2>1, LeastNumber
  <2>3. \A j \in 1 .. (i - 1) : j \in DOMAIN cols /\ ~(i <= j)
    BY <1>1
  <2> QED
    BY <2>2, <2>3
<1>3. c \in ToSet(cols) => ColIndex(cols, c) \in DOMAIN cols /\ cols[ColIndex(cols, c)] = c
  BY <1>2 DEF ColIndex
<1> QED
  BY <1>1, <1>3 DEF ColIndex

(* A row that INSERT stores has a text for every column.                   *)
LEMMA FullRows ==
  ASSUME NEW cols \in Seq(Columns), NEW r \in Seq(Values)
  PROVE  FullRow(cols, r) \in Seq(Values) /\ Len(FullRow(cols, r)) = Len(cols)
         /\ DOMAIN FullRow(cols, r) = 1 .. Len(cols)
<1>1. Len(cols) \in Nat /\ Len(r) \in Nat /\ \A i \in 1 .. Len(r) : r[i] \in Values
  BY LenProperties, ElementOfSeq
<1> DEFINE n == Len(cols)
           f == [i \in 1 .. n |-> IF i <= Len(r) THEN r[i] ELSE NullText]
<1> HIDE DEF n
<1>2. f \in [1 .. n -> Values] /\ n \in Nat
  BY <1>1, ValuesAssumption DEF n
<1>3. f \in Seq(Values) /\ Len(f) = n
  BY <1>2
<1>4. FullRow(cols, r) = f
  BY DEF FullRow, n
<1> QED
  BY <1>2, <1>3, <1>4 DEF n

(* A table that INSERT creates has columns.                                *)
LEMMA InsertColumnsType ==
  ASSUME NEW st, st.cols \in Seq(Columns), st.rows \in Seq(Seq(Values)),
         st.cols = <<>> /\ st.rows # <<>> => Len(Head(st.rows)) <= Len(Generated)
  PROVE  InsertColumns(st) \in Seq(Columns)
<1>1. /\ st.cols \in Seq(Columns) /\ st.rows \in Seq(Seq(Values))
      /\ st.cols = <<>> /\ st.rows # <<>> => Len(Head(st.rows)) <= Len(Generated)
  OBVIOUS
<1>2. CASE st.cols # <<>> \/ st.rows = <<>>
  <2>1. <<>> \in Seq(Columns)
    OBVIOUS
  <2> QED
    BY <1>1, <1>2, <2>1 DEF InsertColumns
<1>3. CASE st.cols = <<>> /\ st.rows # <<>>
  <2> DEFINE n == Len(Head(st.rows))
  <2>1. Head(st.rows) \in Seq(Values)
    BY <1>1, <1>3
  <2>2. n \in Nat /\ n <= Len(Generated) /\ Len(Generated) \in Nat
    BY <1>1, <1>3, <2>1, GeneratedAssumption, LenProperties
  <2>3. \A i \in 1 .. n : Generated[i] \in Columns
    BY <2>2, GeneratedAssumption, ElementOfSeq
  <2>4. SubSeq(Generated, 1, n) \in Seq(Columns)
    <3> HIDE DEF n
    <3> QED
      BY <2>2, <2>3, SubSeqProperties
  <2> QED
    BY <1>3, <2>4 DEF InsertColumns
<1> QED
  BY <1>2, <1>3
=================================================================================
