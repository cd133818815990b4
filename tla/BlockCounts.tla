----------------------------- MODULE BlockCounts -----------------------------
(***************************************************************************)
(* Lists of blocks and how many blocks they hold: what the proofs about    *)
(* run_forward and run_backward need of sequences and of cardinalities.    *)
(***************************************************************************)
EXTENDS Integers, Sequences, SequenceTheorems, FiniteSetTheorems, TLAPS

\* A list of n entries, whatever they are.
IsList(s, n) == DOMAIN s = 1 .. n /\ s = [p \in DOMAIN s |-> s[p]]

\* Its length is n.
LEMMA ListLength ==
  ASSUME NEW n \in Nat, NEW s, IsList(s, n)
  PROVE  Len(s) = n
<1> DEFINE S == {s[p] : p \in 1 .. n}
<1>1. s \in [1 .. n -> S]
  BY DEF IsList
<1>2. s \in Seq(S)
  BY <1>1
<1>3. QED
  BY <1>2 DEF IsList

\* Appending leaves the entries alone and adds one at n + 1.
LEMMA ListAppend ==
  ASSUME NEW n \in Nat, NEW s, IsList(s, n), NEW x
  PROVE  /\ IsList(Append(s, x), n + 1)
         /\ \A p \in 1 .. n : Append(s, x)[p] = s[p]
         /\ Append(s, x)[n + 1] = x
<1> DEFINE S == {s[p] : p \in 1 .. n} \cup {x}
<1>1. s \in [1 .. n -> S]
  BY DEF IsList
<1>2. s \in Seq(S) /\ Len(s) = n
  BY <1>1
<1>3. DOMAIN s = 1 .. n /\ Append(s, x) \in Seq(S) /\ Len(Append(s, x)) = n + 1
  BY <1>2 DEF IsList
<1>4. IsList(Append(s, x), n + 1)
  <2>1. Append(s, x) \in [1 .. n + 1 -> S]
    BY <1>3, LenProperties
  <2>2. QED
    BY <2>1 DEF IsList
<1>5. \A p \in 1 .. n : Append(s, x)[p] = s[p]
  BY <1>2
<1>6. Append(s, x)[n + 1] = x
  BY <1>2
<1>7. QED
  BY <1>4, <1>5, <1>6

\* Lists of equal length with equal entries are equal.
LEMMA ListEqual ==
  ASSUME NEW n, NEW s, NEW t, IsList(s, n), IsList(t, n), \A p \in 1 .. n : s[p] = t[p]
  PROVE  s = t
  BY DEF IsList

\* A list of n blocks holds at most n different ones.
LEMMA ImageBound ==
  ASSUME NEW s, NEW n \in Nat
  PROVE  /\ IsFiniteSet({s[p] : p \in 1 .. n})
         /\ Cardinality({s[p] : p \in 1 .. n}) \in Nat
         /\ Cardinality({s[p] : p \in 1 .. n}) <= n
<1> DEFINE T == {s[p] : p \in 1 .. n}
           f == [p \in 1 .. n |-> s[p]]
<1>1. f \in Surjection(1 .. n, T)
  BY DEF Surjection
<1>2. ExistsSurjection(1 .. n, T)
  BY <1>1 DEF ExistsSurjection
<1>3. IsFiniteSet(T) /\ Cardinality(T) <= n
  BY <1>2, FS_NatSurjection, FS_SurjCardinalityBound
<1>4. QED
  BY <1>3, FS_CardinalityType

\* One more name holds at most one more block.
LEMMA AddOne ==
  ASSUME NEW S, IsFiniteSet(S), NEW x, NEW b \in Nat, Cardinality(S) <= b
  PROVE  IsFiniteSet(S \cup {x}) /\ Cardinality(S \cup {x}) <= b + 1
<1>1. /\ IsFiniteSet(S \cup {x})
      /\ Cardinality(S \cup {x}) = IF x \in S THEN Cardinality(S) ELSE Cardinality(S) + 1
  BY FS_AddElement
<1>2. Cardinality(S) \in Nat
  BY FS_CardinalityType
<1>3. QED
  BY <1>1, <1>2

\* Two holders together hold at most the sum of what each may hold.
LEMMA UnionBound ==
  ASSUME NEW S, IsFiniteSet(S), NEW T, IsFiniteSet(T), NEW a \in Nat, NEW b \in Nat,
         Cardinality(S) <= a, Cardinality(T) <= b
  PROVE  IsFiniteSet(S \cup T) /\ Cardinality(S \cup T) <= a + b
<1>1. /\ IsFiniteSet(S \cup T) /\ IsFiniteSet(S \cap T)
      /\ Cardinality(S \cup T) = Cardinality(S) + Cardinality(T) - Cardinality(S \cap T)
  BY FS_Union, FS_Subset
<1>2. /\ Cardinality(S) \in Nat /\ Cardinality(T) \in Nat
      /\ Cardinality(S \cap T) \in Nat
  BY <1>1, FS_CardinalityType
<1>3. QED
  BY <1>1, <1>2

\* A list that is empty or has n entries holds at most n blocks.
LEMMA ListBound ==
  ASSUME NEW n \in Nat, NEW s, s = << >> \/ IsList(s, n)
  PROVE  IsFiniteSet({s[p] : p \in DOMAIN s}) /\ Cardinality({s[p] : p \in DOMAIN s}) <= n
<1>1. CASE s = << >>
  <2>1. {s[p] : p \in DOMAIN s} = {}
    BY <1>1
  <2>2. QED
    BY <2>1, FS_EmptySet
<1>2. CASE IsList(s, n)
  <2>1. DOMAIN s = 1 .. n
    BY <1>2 DEF IsList
  <2>2. QED
    BY <2>1, ImageBound
<1>3. QED
  BY <1>1, <1>2

\* A subset holds no more.
LEMMA PartBound ==
  ASSUME NEW S, NEW T, IsFiniteSet(T), S \subseteq T, NEW b \in Nat, Cardinality(T) <= b
  PROVE  Cardinality(S) <= b
<1>1. IsFiniteSet(S) /\ Cardinality(S) <= Cardinality(T)
  BY FS_Subset
<1>2. Cardinality(S) \in Nat /\ Cardinality(T) \in Nat
  BY <1>1, FS_CardinalityType
<1>3. QED
  BY <1>1, <1>2
=============================================================================
