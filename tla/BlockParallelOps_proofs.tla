------------------------ MODULE BlockParallelOps_proofs ------------------------
(***************************************************************************)
(* Lemmas about the geometry of blocks and the ops of jask/linalg, for     *)
(* every number of dimensions, every extent and every page.                *)
(*                                                                         *)
(*   block_grid  lists every block index once: the strides are a mixed-    *)
(*               radix number system, whose digits a position in the grid  *)
(*               determines and is determined by (GridLists).              *)
(*   _slice_for  cuts the array: every cell lies in exactly one block, its *)
(*               Home (HomeCovers).                                        *)
(*   an op       asks, for every output block, for blocks whose            *)
(*               forward_block results make up exactly the terms of the    *)
(*               whole-array definition (AcceptedSound), one lemma per     *)
(*               kind of op.                                               *)
(*   a gradient  is put together by backward_block from exactly the terms  *)
(*               of the derivative of the whole-array definition, each of  *)
(*               them once (GradientPartsCover and the lemmas around it).  *)
(*                                                                         *)
(* The recursion of Strides is used through its equation only (StrideAt),  *)
(* with the least counterexample in place of induction.                    *)
(***************************************************************************)
EXTENDS BlockParallelOps, BlockCounts, WellFoundedInduction

\* The order on numbers that the least of a set is taken in.
Before == {ss \in Nat \X Nat : ss[1] < ss[2]}

\* A set of numbers has a least one.
LEMMA LeastNumber ==
  ASSUME NEW T, T \subseteq Nat, T # {}
  PROVE  \E x \in T : \A y \in T : x <= y
<1>1. IsWellFoundedOn(Before, Nat)
  BY NatLessThanWellFounded DEF OpToRel, Before
<1>2. PICK x \in T : \A y \in T : ~ (<<y, x>> \in Before)
  BY <1>1, WFMin
<1>3. ASSUME NEW y \in T PROVE x <= y
  <2>1. x \in Nat /\ y \in Nat
    OBVIOUS
  <2>2. ~ (<<y, x>> \in Before)
    BY <1>2
  <2>3. QED
    BY <2>1, <2>2 DEF Before
<1>4. QED
  BY <1>3

\* Induction up to a bound, for a set instead of a predicate.
LEMMA UpTo ==
  ASSUME NEW n \in Nat, NEW T, 0 \in T, \A m \in 0 .. n : m < n /\ m \in T => m + 1 \in T
  PROVE  \A m \in 0 .. n : m \in T
<1> DEFINE U == {m \in 0 .. n : m \notin T}
<1>1. ASSUME U # {} PROVE FALSE
  <2>1. U \subseteq Nat
    OBVIOUS
  <2> HIDE DEF U
  <2>2. PICK x \in U : \A y \in U : x <= y
    BY <1>1, <2>1, LeastNumber
  <2> USE DEF U
  <2>3. x # 0 /\ x \in 0 .. n /\ x \notin T
    OBVIOUS
  <2>4. x - 1 \notin U
    BY <2>2, <2>3
  <2>5. x - 1 \in T /\ x - 1 \in 0 .. n /\ x - 1 < n
    BY <2>3, <2>4
  <2>6. (x - 1) + 1 \in T
    BY <2>5
  <2>7. QED
    BY <2>3, <2>6
<1>2. QED
  BY <1>1

\* Quotient and remainder.
LEMMA DivMod ==
  ASSUME NEW m \in Int, NEW n \in Nat \ {0}
  PROVE  /\ m \div n \in Int /\ m % n \in 0 .. n - 1
         /\ m = n * (m \div n) + (m % n)
<1>1. n \in Nat /\ n >= 1
  OBVIOUS
<1>2. m % n = m - n * (m \div n)
  BY <1>1, SMTT(30)
<1>3. QED
  BY <1>2

\* The quotient is the number whose multiple is just below.
LEMMA DivUnique ==
  ASSUME NEW n \in Nat \ {0}, NEW q \in Int, NEW r \in 0 .. n - 1
  PROVE  (n * q + r) \div n = q /\ (n * q + r) % n = r
<1> DEFINE m == n * q + r
           p == m \div n
           t == m % n
<1>1. m \in Int
  OBVIOUS
<1>2. p \in Int /\ t \in 0 .. n - 1 /\ m = n * p + t
  BY <1>1, DivMod
<1> HIDE DEF p, t
<1>3. n * q + r = n * p + t
  BY <1>2
<1>4. p = q
  <2>1. CASE p > q
    <3>1. n * p >= n * (q + 1)
      BY <1>2, <2>1
    <3>2. n * (q + 1) = n * q + n
      OBVIOUS
    <3>3. QED
      BY <1>2, <1>3, <3>1, <3>2
  <2>2. CASE p < q
    <3>1. n * q >= n * (p + 1)
      BY <1>2, <2>2
    <3>2. n * (p + 1) = n * p + n
      BY <1>2
    <3>3. QED
      BY <1>2, <1>3, <3>1, <3>2
  <2>3. QED
    BY <1>2, <2>1, <2>2
<1>5. t = r
  BY <1>2, <1>3, <1>4
<1>6. QED
  BY <1>4, <1>5 DEF p, t

\* Dividing twice is dividing by the product.
LEMMA NestedDiv ==
  ASSUME NEW x \in Int, NEW c \in Nat \ {0}, NEW s \in Nat \ {0}
  PROVE  x \div (c * s) = (x \div s) \div c
<1> DEFINE q == x \div s
           r == x % s
           p == q \div c
           t == q % c
<1>1. q \in Int /\ r \in 0 .. s - 1 /\ x = s * q + r
  BY DivMod
<1>2. p \in Int /\ t \in 0 .. c - 1 /\ q = c * p + t
  BY <1>1, DivMod
<1> HIDE DEF q, r, p, t
<1>3. c * s \in Nat \ {0}
  OBVIOUS
<1>4. s * t + r \in 0 .. c * s - 1
  <2>1. s * t <= s * (c - 1)
    BY <1>2
  <2>2. s * (c - 1) = c * s - s
    OBVIOUS
  <2>3. s * t \in Nat
    BY <1>2
  <2>4. QED
    BY <1>1, <2>1, <2>2, <2>3
<1>5. x = (c * s) * p + (s * t + r)
  <2>1. s * (c * p + t) = (c * s) * p + s * t
    BY <1>2
  <2>2. QED
    BY <1>1, <1>2, <2>1
<1>6. x \div (c * s) = p
  BY <1>2, <1>3, <1>4, <1>5, DivUnique
<1>7. QED
  BY <1>6 DEF p, q

-----------------------------------------------------------------------------
\* The recursive function of Strides exists, so it obeys its equation.
LEMMA StrideEquation ==
  ASSUME NEW count \in Seq(Nat \ {0})
  PROVE  Strides(count) = [d \in 0 .. Len(count) |->
           IF d = Len(count) THEN 1 ELSE count[d + 1] * Strides(count)[d + 1]]
<1> DEFINE n == Len(count)
           Good(m, f) == f = [d \in (n - m) .. n |-> IF d = n THEN 1 ELSE count[d + 1] * f[d + 1]]
           T == {m \in 0 .. n : \E f : Good(m, f)}
<1>1. n \in Nat
  OBVIOUS
<1> HIDE DEF n
<1>2. 0 \in T
  <2> DEFINE f == [d \in n .. n |-> 1]
  <2>1. f = [d \in (n - 0) .. n |-> IF d = n THEN 1 ELSE count[d + 1] * f[d + 1]]
    BY <1>1
  <2> HIDE DEF f
  <2>2. Good(0, f)
    BY <2>1
  <2>3. QED
    BY <1>1, <2>2
<1>3. ASSUME NEW m \in 0 .. n, m < n, m \in T PROVE m + 1 \in T
  <2>1. PICK f : Good(m, f)
    BY <1>3
  <2> DEFINE g == [d \in (n - (m + 1)) .. n |-> IF d = n THEN 1 ELSE count[d + 1] * f[d + 1]]
  <2>2. \A d \in (n - m) .. n : g[d] = f[d]
    <3>1. \A d \in (n - m) .. n : d \in (n - (m + 1)) .. n
      BY <1>1
    <3>2. \A d \in (n - m) .. n : f[d] = IF d = n THEN 1 ELSE count[d + 1] * f[d + 1]
      BY <2>1
    <3>3. QED
      BY <3>1, <3>2
  <2>3. \A d \in (n - (m + 1)) .. n : d # n => d + 1 \in (n - m) .. n
    BY <1>1
  <2>4. g = [d \in (n - (m + 1)) .. n |-> IF d = n THEN 1 ELSE count[d + 1] * g[d + 1]]
    BY <2>2, <2>3
  <2> HIDE DEF g
  <2>5. Good(m + 1, g)
    BY <2>4
  <2>6. m + 1 \in 0 .. n
    BY <1>1, <1>3
  <2>7. QED
    BY <2>5, <2>6
<1> HIDE DEF T
<1>4. n \in T
  <2>1. \A m \in 0 .. n : m \in T
    BY <1>1, <1>2, <1>3, UpTo
  <2>2. QED
    BY <1>1, <2>1
<1>5. PICK f : f = [d \in 0 .. n |-> IF d = n THEN 1 ELSE count[d + 1] * f[d + 1]]
  BY <1>1, <1>4 DEF T
<1> DEFINE P(g) == g = [d \in 0 .. Len(count) |->
                          IF d = Len(count) THEN 1 ELSE count[d + 1] * g[d + 1]]
<1>6. Strides(count) = CHOOSE g : P(g)
  BY DEF Strides
<1>7. P(f)
  BY <1>5 DEF n
<1> HIDE DEF P
<1>8. P(Strides(count))
  BY <1>6, <1>7
<1>9. QED
  BY <1>8 DEF P

\* Strides are positive, and each is the next one times a count.
LEMMA StrideFacts ==
  ASSUME NEW count \in Seq(Nat \ {0}), NEW n \in Nat, n = Len(count), NEW S, S = Strides(count)
  PROVE  /\ \A d \in 0 .. n : S[d] \in Nat \ {0}
         /\ S[n] = 1
         /\ \A d \in 1 .. n : S[d - 1] = count[d] * S[d]
<1>1. S = [d \in 0 .. n |-> IF d = n THEN 1 ELSE count[d + 1] * S[d + 1]]
  BY StrideEquation
<1>2. S[n] = 1
  BY <1>1
<1>3. ASSUME NEW d \in 1 .. n PROVE S[d - 1] = count[d] * S[d]
  <2>1. d - 1 \in 0 .. n /\ d - 1 # n /\ (d - 1) + 1 = d
    OBVIOUS
  <2>2. S[d - 1] = count[(d - 1) + 1] * S[(d - 1) + 1]
    BY <1>1, <2>1
  <2>3. QED
    BY <2>1, <2>2
<1> DEFINE T == {m \in 0 .. n : S[n - m] \in Nat \ {0}}
<1>4. 0 \in T
  BY <1>2
<1>5. ASSUME NEW m \in 0 .. n, m < n, m \in T PROVE m + 1 \in T
  <2>1. n - m \in 1 .. n /\ (n - m) - 1 = n - (m + 1) /\ m + 1 \in 0 .. n
    BY <1>5
  <2>2. S[n - (m + 1)] = count[n - m] * S[n - m]
    BY <1>3, <2>1
  <2>3. count[n - m] \in Nat \ {0} /\ S[n - m] \in Nat \ {0}
    BY <1>5, <2>1
  <2>4. S[n - (m + 1)] \in Nat \ {0}
    BY <2>2, <2>3
  <2>5. QED
    BY <2>1, <2>4
<1> HIDE DEF T
<1>6. \A m \in 0 .. n : m \in T
  BY <1>4, <1>5, UpTo
<1>7. ASSUME NEW d \in 0 .. n PROVE S[d] \in Nat \ {0}
  <2>1. n - d \in 0 .. n /\ n - (n - d) = d
    OBVIOUS
  <2>2. QED
    BY <1>6, <2>1 DEF T
<1>8. QED
  BY <1>2, <1>3, <1>7

\* The same facts at one dimension.
LEMMA StrideAt ==
  ASSUME NEW count \in Seq(Nat \ {0}), NEW d \in 1 .. Len(count)
  PROVE  /\ count[d] \in Nat \ {0} /\ Strides(count)[d] \in Nat \ {0}
         /\ Strides(count)[d - 1] \in Nat \ {0}
         /\ Strides(count)[d - 1] = count[d] * Strides(count)[d]
<1>1. d \in 0 .. Len(count) /\ d - 1 \in 0 .. Len(count) /\ Len(count) \in Nat
  OBVIOUS
<1> DEFINE S == Strides(count)
           n == Len(count)
<1>2. /\ \A i \in 0 .. n : S[i] \in Nat \ {0}
      /\ \A i \in 1 .. n : S[i - 1] = count[i] * S[i]
  BY <1>1, StrideFacts
<1>3. S[d] \in Nat \ {0} /\ S[d - 1] \in Nat \ {0} /\ S[d - 1] = count[d] * S[d]
  BY <1>1, <1>2
<1>4. QED
  BY <1>3

\* The quotient above a dimension is that of the dimension, cut by its count.
LEMMA DigitStep ==
  ASSUME NEW count \in Seq(Nat \ {0}), NEW d \in 1 .. Len(count), NEW x \in Nat
  PROVE  /\ x \div Strides(count)[d] \in Int
         /\ x \div Strides(count)[d - 1] = (x \div Strides(count)[d]) \div count[d]
<1> DEFINE c == count[d]
           s == Strides(count)[d]
           t == Strides(count)[d - 1]
<1>1. c \in Nat \ {0} /\ s \in Nat \ {0} /\ t = c * s
  BY StrideAt
<1> HIDE DEF c, s, t
<1>2. x \in Int
  OBVIOUS
<1>3. x \div (c * s) = (x \div s) \div c /\ x \div s \in Int
  BY <1>1, <1>2, NestedDiv, DivMod
<1>4. QED
  BY <1>1, <1>3 DEF c, s, t

\* Two positions that agree on the digits above one dimension agree above it.
LEMMA HighDigits ==
  ASSUME NEW count \in Seq(Nat \ {0}), NEW x \in Nat, NEW y \in Nat, NEW d \in 0 .. Len(count),
         x \div Strides(count)[d] = y \div Strides(count)[d]
  PROVE  \A e \in 0 .. d : x \div Strides(count)[e] = y \div Strides(count)[e]
<1> DEFINE Agree(e) == x \div Strides(count)[e] = y \div Strides(count)[e]
           T == {m \in 0 .. d : Agree(d - m)}
<1>0. d \in Nat /\ Len(count) \in Nat
  OBVIOUS
<1>1. ASSUME NEW e \in 1 .. d, Agree(e) PROVE Agree(e - 1)
  <2>1. e \in 1 .. Len(count)
    BY <1>0
  <2>2. QED
    BY <1>1, <2>1, DigitStep
<1>2. Agree(d)
  OBVIOUS
<1> HIDE DEF Agree
<1>3. 0 \in T
  BY <1>0, <1>2
<1>4. ASSUME NEW m \in 0 .. d, m < d, m \in T PROVE m + 1 \in T
  <2>1. d - m \in 1 .. d /\ d - (m + 1) = (d - m) - 1 /\ m + 1 \in 0 .. d
    BY <1>0, <1>4
  <2>2. QED
    BY <1>1, <1>4, <2>1
<1> HIDE DEF T
<1>5. \A m \in 0 .. d : m \in T
  BY <1>0, <1>3, <1>4, UpTo
<1>6. ASSUME NEW e \in 0 .. d PROVE Agree(e)
  <2>1. d - e \in 0 .. d /\ d - (d - e) = e
    BY <1>0
  <2>2. QED
    BY <1>5, <2>1 DEF T
<1>7. QED
  BY <1>6 DEF Agree

\* Position m of the grid has this index in dimension d.
Digit(count, m, d) == (m \div Strides(count)[d]) % count[d]

\* Different positions have different digits.
LEMMA DigitsDiffer ==
  ASSUME NEW count \in Seq(Nat \ {0}), NEW x \in 0 .. Strides(count)[0] - 1,
         NEW y \in 0 .. Strides(count)[0] - 1,
         \A d \in 1 .. Len(count) : Digit(count, x, d) = Digit(count, y, d)
  PROVE  x = y
<1> DEFINE n == Len(count)
           Agree(e) == x \div Strides(count)[e] = y \div Strides(count)[e]
           T == {d \in 0 .. n : Agree(d)}
           s == Strides(count)[0]
<1>0. n \in Nat /\ s \in Nat \ {0} /\ Strides(count)[n] = 1 /\ x \in Nat /\ y \in Nat
  <2>1. /\ \A i \in 0 .. n : Strides(count)[i] \in Nat \ {0}
        /\ Strides(count)[n] = 1
    BY StrideFacts
  <2>2. n \in Nat /\ 0 \in 0 .. n
    OBVIOUS
  <2>3. s \in Nat \ {0} /\ x \in 0 .. s - 1 /\ y \in 0 .. s - 1
    BY <2>1, <2>2
  <2> HIDE DEF s
  <2>4. QED
    BY <2>1, <2>2, <2>3
<1>1. Agree(0)
  <2>1. x \in 0 .. s - 1 /\ y \in 0 .. s - 1
    OBVIOUS
  <2> HIDE DEF s
  <2>2. x = s * 0 + x /\ y = s * 0 + y /\ 0 \in Int
    BY <1>0
  <2>3. x \div s = 0 /\ y \div s = 0
    BY <1>0, <2>1, <2>2, DivUnique
  <2>4. QED
    BY <2>3 DEF s
<1>2. ASSUME NEW d \in 1 .. n, Agree(d - 1) PROVE Agree(d)
  <2> DEFINE q == x \div Strides(count)[d]
             r == y \div Strides(count)[d]
             c == count[d]
  <2>1. c \in Nat \ {0}
    OBVIOUS
  <2>2. q \in Int /\ r \in Int /\ q \div c = r \div c
    BY <1>0, <1>2, DigitStep
  <2>3. q % c = r % c
    BY DEF Digit
  <2> HIDE DEF q, r, c
  <2>4. q = c * (q \div c) + (q % c) /\ r = c * (r \div c) + (r % c)
    BY <2>1, <2>2, DivMod
  <2>5. q = r
    BY <2>2, <2>3, <2>4
  <2>6. QED
    BY <2>5 DEF q, r
<1> HIDE DEF Agree, n
<1>3. 0 \in T
  BY <1>0, <1>1
<1>4. ASSUME NEW m \in 0 .. n, m < n, m \in T PROVE m + 1 \in T
  <2>1. m + 1 \in 1 .. n /\ (m + 1) - 1 = m /\ m + 1 \in 0 .. n
    BY <1>0, <1>4
  <2>2. QED
    BY <1>2, <1>4, <2>1
<1> HIDE DEF T
<1>5. \A m \in 0 .. n : m \in T
  BY <1>0, <1>3, <1>4, UpTo
<1>6. x \div 1 = y \div 1
  <2>1. n \in T
    BY <1>0, <1>5
  <2>2. QED
    BY <1>0, <2>1 DEF T, Agree
<1>7. x \div 1 = x /\ y \div 1 = y
  BY <1>0
<1>8. QED
  BY <1>6, <1>7

\* Position b refines position a by digit i of a dimension of c indices.
Refines(b, a, c, s, i) ==
  /\ b * s \in Nat /\ a * (c * s) \in Nat
  /\ (b * s) \div s = b /\ b % c = i
  /\ (b * s) \div (c * s) = (a * (c * s)) \div (c * s)

\* One more digit: the position a, refined by digit i of a dimension of c indices.
LEMMA RefineDigit ==
  ASSUME NEW a \in Nat, NEW c \in Nat \ {0}, NEW s \in Nat \ {0}, NEW i \in 0 .. c - 1,
         NEW top \in Nat, (a + 1) * (c * s) <= top
  PROVE  \E b \in Nat : (b + 1) * s <= top /\ Refines(b, a, c, s, i)
<1> DEFINE b == a * c + i
           p == a * c
<1>1. p \in Nat /\ b \in Nat
  OBVIOUS
<1>2. b * s \in Nat /\ c * s \in Nat \ {0}
  <2> HIDE DEF b
  <2>1. QED
    BY <1>1
<1>3. a * (c * s) \in Nat
  BY <1>2
<1>4. (b + 1) * s <= top
  <2>1. b + 1 <= p + c
    BY <1>1
  <2>2. (b + 1) * s <= (p + c) * s
    <3> HIDE DEF b, p
    <3>1. QED
      BY <1>1, <2>1
  <2>3. (p + c) * s = (a + 1) * (c * s)
    OBVIOUS
  <2> HIDE DEF b, p
  <2>4. (p + c) * s \in Nat /\ (b + 1) * s \in Nat
    BY <1>1
  <2>5. QED
    BY <2>2, <2>3, <2>4
<1>5. (b * s) \div s = b
  <2> HIDE DEF b
  <2>1. b * s = s * b + 0 /\ 0 \in 0 .. s - 1 /\ b \in Int
    BY <1>1
  <2>2. (s * b + 0) \div s = b
    BY <2>1, DivUnique
  <2>3. QED
    BY <2>1, <2>2
<1>6. b % c = i /\ b \div c = a
  <2>1. b = c * a + i /\ a \in Int
    OBVIOUS
  <2>2. (c * a + i) % c = i /\ (c * a + i) \div c = a
    BY <2>1, DivUnique
  <2>3. QED
    BY <2>1, <2>2
<1>7. (b * s) \div (c * s) = a
  <2> HIDE DEF b
  <2>1. b * s \in Int
    BY <1>2
  <2>2. (b * s) \div (c * s) = ((b * s) \div s) \div c
    BY <2>1, NestedDiv
  <2>3. QED
    BY <1>5, <1>6, <2>2
<1>8. (a * (c * s)) \div (c * s) = a
  <2> DEFINE t == c * s
  <2>1. t \in Nat \ {0}
    BY <1>2
  <2> HIDE DEF t
  <2>2. a * t = t * a + 0 /\ 0 \in 0 .. t - 1 /\ a \in Int
    BY <2>1
  <2>3. (t * a + 0) \div t = a
    BY <2>1, <2>2, DivUnique
  <2>4. QED
    BY <2>2, <2>3 DEF t
<1> HIDE DEF b
<1>9. Refines(b, a, c, s, i)
  BY <1>1, <1>2, <1>3, <1>5, <1>6, <1>7, <1>8 DEF Refines
<1>10. QED
  BY <1>1, <1>4, <1>9
\* Every combination of digits occurs.
LEMMA DigitsOccur ==
  ASSUME NEW count \in Seq(Nat \ {0}), NEW idx,
         \A d \in 1 .. Len(count) : idx[d] \in 0 .. count[d] - 1
  PROVE  \E x \in 0 .. Strides(count)[0] - 1 : \A d \in 1 .. Len(count) : Digit(count, x, d) = idx[d]
<1> DEFINE n == Len(count)
           top == Strides(count)[0]
           Place(d, a) == a * Strides(count)[d]
           Fits(d, a) == /\ (a + 1) * Strides(count)[d] <= top
                         /\ Place(d, a) \in Nat
                         /\ \A e \in 1 .. d : Digit(count, Place(d, a), e) = idx[e]
           T == {d \in 0 .. n : \E a \in Nat : Fits(d, a)}
<1>1. n \in Nat /\ Strides(count)[n] = 1 /\ top \in Nat \ {0}
  <2>1. \A i \in 0 .. n : Strides(count)[i] \in Nat \ {0}
    BY StrideFacts
  <2>2. n \in Nat /\ 0 \in 0 .. n
    OBVIOUS
  <2>3. QED
    BY <2>1, <2>2, StrideFacts
<1> HIDE DEF top
<1>2. Fits(0, 0)
  <2>1. Place(0, 0) = 0 /\ (0 + 1) * top = top
    BY <1>1 DEF top
  <2>2. QED
    BY <1>1, <2>1 DEF top
<1>3. ASSUME NEW d \in 1 .. n, NEW a \in Nat, Fits(d - 1, a) PROVE \E b \in Nat : Fits(d, b)
  <2> DEFINE c == count[d]
             s == Strides(count)[d]
             i == idx[d]
  <2>1. c \in Nat \ {0} /\ s \in Nat \ {0} /\ i \in 0 .. c - 1 /\ Strides(count)[d - 1] = c * s
    BY StrideAt
  <2>2. (a + 1) * (c * s) <= top
    BY <1>3, <2>1
  <2> HIDE DEF c, s, i
  <2>3. top \in Nat
    BY <1>1
  <2>4. PICK b \in Nat : (b + 1) * s <= top /\ Refines(b, a, c, s, i)
    BY <2>1, <2>2, <2>3, RefineDigit
  <2>5. Place(d, b) = b * s /\ Place(d - 1, a) = a * (c * s)
    BY <2>1 DEF s
  <2> HIDE DEF Place
  <2>6. Place(d, b) \div Strides(count)[d - 1] = Place(d - 1, a) \div Strides(count)[d - 1]
    BY <2>1, <2>4, <2>5 DEF Refines
  <2>7. d - 1 \in 0 .. Len(count) /\ Place(d, b) \in Nat /\ Place(d - 1, a) \in Nat
    BY <1>1, <2>4, <2>5 DEF Refines
  <2>8. \A e \in 0 .. d - 1 : Place(d, b) \div Strides(count)[e] = Place(d - 1, a) \div Strides(count)[e]
    BY <2>6, <2>7, HighDigits
  <2>9. Digit(count, Place(d, b), d) = idx[d]
    BY <2>4, <2>5 DEF Digit, Refines, s, c, i
  <2>10. ASSUME NEW e \in 1 .. d PROVE Digit(count, Place(d, b), e) = idx[e]
    <3>1. CASE e = d
      BY <2>9, <3>1
    <3>2. CASE e # d
      <4>1. e \in 1 .. d - 1 /\ e \in 0 .. d - 1
        BY <1>1, <3>2
      <4>2. Digit(count, Place(d - 1, a), e) = idx[e]
        BY <1>3, <4>1
      <4>3. QED
        BY <2>8, <4>1, <4>2 DEF Digit
    <3>3. QED
      BY <3>1, <3>2
  <2>11. Fits(d, b)
    BY <2>4, <2>7, <2>10 DEF s
  <2>12. QED
    BY <2>4, <2>11
<1> HIDE DEF Fits
<1>4. 0 \in T
  BY <1>1, <1>2
<1>5. ASSUME NEW m \in 0 .. n, m < n, m \in T PROVE m + 1 \in T
  <2>1. m + 1 \in 1 .. n /\ (m + 1) - 1 = m /\ m + 1 \in 0 .. n
    BY <1>1, <1>5
  <2>2. QED
    BY <1>3, <1>5, <2>1
<1> HIDE DEF T
<1>6. \A m \in 0 .. n : m \in T
  BY <1>1, <1>4, <1>5, UpTo
<1>7. PICK a \in Nat : Fits(n, a)
  <2>1. n \in T
    BY <1>1, <1>6
  <2>2. QED
    BY <2>1 DEF T
<1>8. Place(n, a) = a /\ (a + 1) * Strides(count)[n] = a + 1
  BY <1>1
<1> HIDE DEF Place
<1>9. a + 1 <= top /\ \A e \in 1 .. n : Digit(count, a, e) = idx[e]
  BY <1>7, <1>8 DEF Fits
<1>10. a \in 0 .. top - 1
  BY <1>1, <1>9
<1>11. QED
  BY <1>9, <1>10 DEF top

-----------------------------------------------------------------------------
\* A positive extent per dimension.
Shapes == Seq(Nat \ {0})

\* The indices of the blocks that hold at least one cell.
Inside(shape, page) ==
  {o \in [DOMAIN shape -> Nat] : \A d \in DOMAIN shape : o[d] * page[d] < shape[d]}

\* The block a cell lies in.
Home(x, page) == [d \in DOMAIN x |-> x[d] \div page[d]]

\* CeilDiv counts the multiples of p below s.
LEMMA CeilDivIs ==
  ASSUME NEW s \in Nat \ {0}, NEW p \in Nat \ {0}
  PROVE  CeilDiv(s, p) \in Nat \ {0} /\ \A i \in Nat : i < CeilDiv(s, p) <=> i * p < s
<1> DEFINE q == (-s) \div p
           r == (-s) % p
           c == -q
<1>1. q \in Int /\ r \in 0 .. p - 1 /\ -s = p * q + r
  BY DivMod
<1>2. CeilDiv(s, p) = c
  BY DEF CeilDiv
<1> HIDE DEF q, r
<1>3. c \in Int /\ s = p * c - r
  <2>1. p * q = -(p * c)
    BY <1>1
  <2>2. QED
    BY <1>1, <2>1
<1> HIDE DEF c
<1>4. ASSUME NEW i \in Nat, i < c PROVE i * p < s
  <2>1. p * (i + 1) <= p * c
    BY <1>3, <1>4
  <2>2. p * (i + 1) = i * p + p
    OBVIOUS
  <2>3. QED
    BY <1>1, <1>3, <2>1, <2>2
<1>5. ASSUME NEW i \in Nat, ~ (i < c) PROVE ~ (i * p < s)
  <2>1. p * c <= i * p
    BY <1>3, <1>5
  <2>2. QED
    BY <1>1, <1>3, <2>1
<1>6. c > 0
  <2>1. ASSUME c <= 0 PROVE FALSE
    <3>1. p * c <= 0
      BY <1>3, <2>1
    <3>2. QED
      BY <1>1, <1>3, <3>1
  <2>2. QED
    BY <1>3, <2>1
<1>7. \A i \in Nat : i < c <=> i * p < s
  BY <1>4, <1>5
<1>8. c \in Nat \ {0}
  BY <1>3, <1>6
<1>9. QED
  BY <1>2, <1>7, <1>8

\* The block of a cell and of no other cell but those of its own range.
LEMMA DivBetween ==
  ASSUME NEW x \in Nat, NEW p \in Nat \ {0}, NEW i \in Int
  PROVE  x \div p = i <=> i * p <= x /\ x < (i + 1) * p
<1> DEFINE q == x \div p
           r == x % p
<1>1. q \in Int /\ r \in 0 .. p - 1 /\ x = p * q + r
  BY DivMod
<1> HIDE DEF q, r
<1>2. i * p = p * i /\ (i + 1) * p = p * i + p
  OBVIOUS
<1>3. ASSUME q = i PROVE i * p <= x /\ x < (i + 1) * p
  BY <1>1, <1>2, <1>3
<1>4. ASSUME i * p <= x, x < (i + 1) * p PROVE q = i
  <2>1. x - p * i \in 0 .. p - 1
    BY <1>2, <1>4
  <2>2. x = p * i + (x - p * i)
    OBVIOUS
  <2>3. (p * i + (x - p * i)) \div p = i
    BY <2>1, DivUnique
  <2>4. QED
    BY <2>2, <2>3 DEF q
<1>5. QED
  BY <1>3, <1>4 DEF q

\* The coordinates of an array, without the detour over the largest extent.
LEMMA CellsAre ==
  ASSUME NEW shape \in Seq(Nat)
  PROVE  Cells(shape) = {x \in [DOMAIN shape -> Nat] : \A d \in DOMAIN shape : x[d] < shape[d]}
<1> DEFINE U == UNION {0 .. e - 1 : e \in {shape[d] : d \in DOMAIN shape}}
<1>1. \A d \in DOMAIN shape : shape[d] \in Nat
  OBVIOUS
<1>2. U \subseteq Nat
  BY <1>1
<1>3. \A d \in DOMAIN shape : \A v \in Nat : v < shape[d] => v \in U
  <2> SUFFICES ASSUME NEW d \in DOMAIN shape, NEW v \in Nat, v < shape[d] PROVE v \in U
    OBVIOUS
  <2>1. v \in 0 .. shape[d] - 1
    BY <1>1
  <2>2. QED
    BY <2>1
<1>4. Cells(shape) = {x \in [DOMAIN shape -> U] : \A d \in DOMAIN shape : x[d] < shape[d]}
  BY DEF Cells
<1> HIDE DEF U
<1>5. QED
  BY <1>2, <1>3, <1>4

\* block_grid lists the index of every block that holds a cell, each once.
LEMMA GridLists ==
  ASSUME NEW shape \in Shapes, NEW page \in Shapes, Len(page) = Len(shape)
  PROVE  /\ block_grid(shape, page) \in Seq(Inside(shape, page))
         /\ block_grid(shape, page) # << >>
         /\ \A l, m \in DOMAIN block_grid(shape, page) :
              block_grid(shape, page)[l] = block_grid(shape, page)[m] => l = m
         /\ \A o \in Inside(shape, page) : \E m \in DOMAIN block_grid(shape, page) :
              block_grid(shape, page)[m] = o
<1> DEFINE n == Len(shape)
           count == Counts(shape, page)
           top == Strides(count)[0]
           grid == block_grid(shape, page)
           Idx(m) == [d \in 1 .. n |-> Digit(count, m - 1, d)]
<1>1. /\ n \in Nat /\ DOMAIN shape = 1 .. n /\ DOMAIN page = 1 .. n
      /\ \A d \in 1 .. n : shape[d] \in Nat \ {0} /\ page[d] \in Nat \ {0}
  BY DEF Shapes
<1>2. /\ count = [d \in 1 .. n |-> CeilDiv(shape[d], page[d])]
      /\ \A d \in 1 .. n : count[d] \in Nat \ {0}
  BY <1>1, CeilDivIs DEF Counts
<1> HIDE DEF count
<1>3. count \in Seq(Nat \ {0}) /\ Len(count) = n
  <2>1. count \in [1 .. n -> Nat \ {0}]
    BY <1>2
  <2>2. count \in Seq(Nat \ {0})
    BY <1>1, <2>1
  <2>3. QED
    BY <1>1, <2>1, <2>2
<1>4. top \in Nat \ {0} /\ \A d \in 0 .. n : Strides(count)[d] \in Nat \ {0}
  BY <1>1, <1>3, StrideFacts
<1>5. grid = [m \in 1 .. top |-> Idx(m)]
  BY <1>1 DEF block_grid, Digit, count
<1> HIDE DEF top, grid, n
<1>6. ASSUME NEW m \in 1 .. top, NEW d \in 1 .. n
      PROVE  Digit(count, m - 1, d) \in Nat /\ Digit(count, m - 1, d) < count[d]
  <2> DEFINE q == (m - 1) \div Strides(count)[d]
  <2>1. m - 1 \in Int /\ Strides(count)[d] \in Nat \ {0} /\ count[d] \in Nat \ {0}
    BY <1>1, <1>2, <1>4
  <2>2. q \in Int
    BY <2>1, DivMod
  <2> HIDE DEF q
  <2>3. q % count[d] \in 0 .. count[d] - 1
    BY <2>1, <2>2, DivMod
  <2>4. QED
    BY <2>1, <2>3 DEF Digit, q
<1>7. Inside(shape, page) = {o \in [1 .. n -> Nat] : \A d \in 1 .. n : o[d] < count[d]}
  BY <1>1, <1>2, CeilDivIs DEF Inside
<1>8. \A m \in 1 .. top : Idx(m) \in Inside(shape, page)
  BY <1>6, <1>7
<1>9. grid \in Seq(Inside(shape, page)) /\ grid # << >> /\ DOMAIN grid = 1 .. top
  <2>1. grid \in [1 .. top -> Inside(shape, page)]
    BY <1>5, <1>8
  <2>2. DOMAIN grid = 1 .. top /\ 1 \in 1 .. top /\ top \in Nat
    BY <1>4, <1>5
  <2>3. QED
    BY <2>1, <2>2
<1>10. ASSUME NEW l \in 1 .. top, NEW m \in 1 .. top, grid[l] = grid[m] PROVE l = m
  <2>1. l - 1 \in 0 .. top - 1 /\ m - 1 \in 0 .. top - 1
    BY <1>4
  <2>2. \A d \in 1 .. n : Digit(count, l - 1, d) = Digit(count, m - 1, d)
    <3>1. Idx(l) = Idx(m)
      BY <1>5, <1>10
    <3>2. \A d \in 1 .. n : Idx(l)[d] = Idx(m)[d]
      BY <3>1
    <3>3. QED
      BY <3>2
  <2>3. l - 1 = m - 1
    BY <1>3, <2>1, <2>2, DigitsDiffer DEF top
  <2>4. QED
    BY <1>4, <2>3
<1>11. ASSUME NEW o \in Inside(shape, page) PROVE \E m \in 1 .. top : grid[m] = o
  <2>1. o \in [1 .. n -> Nat] /\ \A d \in 1 .. n : o[d] \in 0 .. count[d] - 1
    BY <1>2, <1>7
  <2>2. PICK x \in 0 .. top - 1 : \A d \in 1 .. n : Digit(count, x, d) = o[d]
    BY <1>3, <2>1, DigitsOccur DEF top
  <2>3. x + 1 \in 1 .. top /\ (x + 1) - 1 = x
    BY <1>4
  <2>4. grid[x + 1] = [d \in 1 .. n |-> Digit(count, x, d)]
    BY <1>5, <2>3
  <2>5. grid[x + 1] = o
    BY <2>1, <2>2, <2>4
  <2>6. QED
    BY <2>3, <2>5
<1>12. QED
  BY <1>9, <1>10, <1>11 DEF grid

\* A cell of a block lies in the array, in the range of the block, and nowhere else.
LEMMA BlockCells ==
  ASSUME NEW shape \in Shapes, NEW page \in Shapes, Len(page) = Len(shape),
         NEW o \in Inside(shape, page)
  PROVE  /\ BlockShape(o, page, shape) = [d \in DOMAIN shape |->
              Smaller(page[d], shape[d] - o[d] * page[d])]
         /\ BlockShape(o, page, shape) \in Shapes
         /\ \A l : l \in Cells(BlockShape(o, page, shape)) <=>
              /\ l \in [DOMAIN shape -> Nat]
              /\ \A d \in DOMAIN shape : l[d] < page[d] /\ o[d] * page[d] + l[d] < shape[d]
<1> DEFINE n == Len(shape)
           B == BlockShape(o, page, shape)
<1>1. /\ n \in Nat /\ DOMAIN shape = 1 .. n /\ DOMAIN page = 1 .. n
      /\ \A d \in 1 .. n : shape[d] \in Nat \ {0} /\ page[d] \in Nat \ {0} /\ o[d] \in Nat
                           /\ o[d] * page[d] < shape[d]
  BY DEF Shapes, Inside
<1>2. ASSUME NEW d \in 1 .. n
      PROVE  /\ B[d] = Smaller(page[d], shape[d] - o[d] * page[d])
             /\ B[d] \in Nat \ {0}
             /\ \A v \in Nat : v < B[d] <=> v < page[d] /\ o[d] * page[d] + v < shape[d]
  <2> DEFINE p == page[d]
             s == shape[d]
             i == o[d]
             b == i * p
  <2>1. p \in Nat \ {0} /\ s \in Nat \ {0} /\ i \in Nat /\ b < s
    BY <1>1
  <2>2. B[d] = Smaller((i + 1) * p, s) - b
    BY <1>1 DEF BlockShape, slice_for
  <2> HIDE DEF p, s, i
  <2>3. b \in Nat /\ (i + 1) * p = b + p
    BY <2>1
  <2> HIDE DEF b
  <2>4. B[d] = Smaller(p, s - b)
    BY <2>1, <2>2, <2>3 DEF Smaller
  <2>5. Smaller(p, s - b) \in Nat \ {0} /\ \A v \in Nat : v < Smaller(p, s - b) <=> v < p /\ b + v < s
    BY <2>1, <2>3 DEF Smaller
  <2>6. QED
    BY <2>4, <2>5 DEF p, s, i, b
<1>3. B = [d \in 1 .. n |-> B[d]]
  BY <1>1 DEF BlockShape
<1> HIDE DEF B
<1>4. B \in Seq(Nat \ {0}) /\ B \in Seq(Nat) /\ DOMAIN B = 1 .. n
  <2>1. B \in [1 .. n -> Nat \ {0}] /\ B \in [1 .. n -> Nat]
    BY <1>2, <1>3
  <2> HIDE DEF n
  <2>2. B \in Seq(Nat \ {0})
    BY <1>1, <2>1
  <2>3. B \in Seq(Nat)
    BY <1>1, <2>1
  <2>4. QED
    BY <2>1, <2>2, <2>3
<1>5. B = [d \in 1 .. n |-> Smaller(page[d], shape[d] - o[d] * page[d])]
  BY <1>2, <1>3
<1>6. Cells(B) = {l \in [1 .. n -> Nat] : \A d \in 1 .. n : l[d] < B[d]}
  BY <1>4, CellsAre
<1>7. \A l : l \in Cells(B) <=>
         /\ l \in [1 .. n -> Nat]
         /\ \A d \in 1 .. n : l[d] < page[d] /\ o[d] * page[d] + l[d] < shape[d]
  BY <1>2, <1>6
<1> HIDE DEF n
<1>8. QED
  BY <1>1, <1>4, <1>5, <1>7 DEF B, Shapes

\* Every cell of the array is covered by its home block and by no other.
LEMMA HomeCovers ==
  ASSUME NEW shape \in Shapes, NEW page \in Shapes, Len(page) = Len(shape),
         NEW x \in Cells(shape)
  PROVE  /\ Home(x, page) \in Inside(shape, page)
         /\ \A o \in Inside(shape, page) : x \in Covered(o, page, shape) <=> o = Home(x, page)
<1> DEFINE n == Len(shape)
           h == Home(x, page)
<1>1. /\ n \in Nat /\ DOMAIN shape = 1 .. n /\ DOMAIN page = 1 .. n
      /\ \A d \in 1 .. n : shape[d] \in Nat \ {0} /\ page[d] \in Nat \ {0}
  BY DEF Shapes
<1>2. x \in [1 .. n -> Nat] /\ \A d \in 1 .. n : x[d] < shape[d]
  <2>1. shape \in Seq(Nat)
    BY DEF Shapes
  <2>2. QED
    BY <1>1, <2>1, CellsAre
<1>3. h = [d \in 1 .. n |-> x[d] \div page[d]]
  BY <1>2 DEF Home
<1> HIDE DEF h, n
<1>4. ASSUME NEW d \in 1 .. n
      PROVE  /\ h[d] \in Nat /\ h[d] * page[d] < shape[d]
             /\ h[d] * page[d] <= x[d] /\ x[d] < (h[d] + 1) * page[d]
  <2> DEFINE p == page[d]
             v == x[d]
             i == v \div p
  <2>1. p \in Nat \ {0} /\ v \in Nat /\ v < shape[d] /\ h[d] = i /\ shape[d] \in Nat
    BY <1>1, <1>2, <1>3
  <2> HIDE DEF p, v
  <2>2. i \in Int
    BY <2>1, DivMod
  <2>3. i * p <= v /\ v < (i + 1) * p
    BY <2>1, <2>2, DivBetween
  <2> HIDE DEF i
  <2>4. i \in Nat
    <3>1. ASSUME i < 0 PROVE FALSE
      <4>1. (i + 1) * p <= 0
        BY <2>1, <2>2, <3>1
      <4>2. (i + 1) * p \in Int
        BY <2>1, <2>2
      <4>3. QED
        BY <2>1, <2>3, <4>1, <4>2
    <3>2. QED
      BY <2>2, <3>1
  <2>5. i * p < shape[d]
    <3>1. i * p \in Int
      BY <2>1, <2>2
    <3>2. QED
      BY <2>1, <2>3, <3>1
  <2>6. QED
    BY <2>1, <2>3, <2>4, <2>5 DEF p, v
<1>5. h \in Inside(shape, page)
  <2>1. h \in [1 .. n -> Nat]
    BY <1>3, <1>4
  <2>2. QED
    BY <1>1, <1>4, <2>1 DEF Inside
<1>6. ASSUME NEW o \in Inside(shape, page), x \in Covered(o, page, shape) PROVE o = h
  <2>1. PICK l \in Cells(BlockShape(o, page, shape)) : x = Global(o, page, l)
    BY <1>6 DEF Covered
  <2>2. l \in [1 .. n -> Nat] /\ \A d \in 1 .. n : l[d] < page[d]
    BY <1>1, BlockCells
  <2>3. o \in [1 .. n -> Nat]
    BY <1>1 DEF Inside
  <2>4. ASSUME NEW d \in 1 .. n PROVE o[d] = h[d]
    <3> DEFINE p == page[d]
               v == l[d]
               i == o[d]
               u == x[d]
    <3>1. p \in Nat \ {0} /\ v \in Nat /\ v < p /\ i \in Nat /\ u \in Nat /\ h[d] = u \div p
      BY <1>1, <1>2, <1>3, <2>2, <2>3
    <3>2. u = i * p + v
      BY <2>1, <2>2 DEF Global
    <3> HIDE DEF p, v, i, u
    <3>3. i * p <= u /\ u < (i + 1) * p
      <4>1. (i + 1) * p = i * p + p /\ i * p \in Int
        BY <3>1
      <4>2. QED
        BY <3>1, <3>2, <4>1
    <3>4. u \div p = i
      BY <3>1, <3>3, DivBetween
    <3>5. QED
      BY <3>1, <3>4 DEF i
  <2>5. QED
    BY <1>3, <2>3, <2>4
<1>7. x \in Covered(h, page, shape)
  <2> DEFINE l == [d \in 1 .. n |-> x[d] - h[d] * page[d]]
  <2>1. ASSUME NEW d \in 1 .. n
        PROVE  /\ l[d] \in Nat /\ l[d] < page[d] /\ h[d] * page[d] + l[d] = x[d]
    <3> DEFINE p == page[d]
               i == h[d]
               u == x[d]
               b == i * p
    <3>1. p \in Nat \ {0} /\ i \in Nat /\ u \in Nat /\ b <= u /\ u < (i + 1) * p /\ l[d] = u - b
      BY <1>1, <1>2, <1>4
    <3> HIDE DEF p, i, u, l
    <3>2. b \in Nat /\ (i + 1) * p = b + p
      BY <3>1
    <3> HIDE DEF b
    <3>3. l[d] \in Nat /\ l[d] < p /\ b + l[d] = u
      BY <3>1, <3>2
    <3>4. QED
      BY <3>3 DEF b, p, i, u
  <2>2. l \in [1 .. n -> Nat] /\ DOMAIN l = 1 .. n
    BY <2>1
  <2> HIDE DEF l
  <2>3. l \in Cells(BlockShape(h, page, shape))
    <3>1. /\ l \in [DOMAIN shape -> Nat]
          /\ \A d \in DOMAIN shape : l[d] < page[d] /\ h[d] * page[d] + l[d] < shape[d]
      BY <1>1, <1>2, <2>1, <2>2
    <3>2. QED
      BY <1>5, <3>1, BlockCells
  <2>4. x = Global(h, page, l)
    BY <1>2, <2>1, <2>2 DEF Global
  <2>5. QED
    BY <2>3, <2>4 DEF Covered
<1>8. QED
  BY <1>5, <1>6, <1>7 DEF h

-----------------------------------------------------------------------------
(***************************************************************************)
(* What the loops compute for output cell e of output block o, whose       *)
(* groups are g: the blocks of every group fit each other and the tile,    *)
(* and their parts make up the terms of the cell, none twice.              *)
(***************************************************************************)
Sound(op, shapes, pages, outPage, o, e) ==
  LET local   == [d \in DOMAIN e |-> e[d] - o[d] * outPage[d]]
      g       == index_map(op, shapes, pages, o)
      Part(m) == forward_block(op, shapes, pages, g[m], local)
  IN  /\ \A m \in DOMAIN g :
           /\ Conform(op, shapes, pages, g[m])
           /\ ResultShape(op, shapes, pages, g[m]) = BlockShape(o, outPage, output_shape(op, shapes))
      /\ UNION {Part(m) : m \in DOMAIN g} = OutputTerms(op, shapes, e)
      /\ \A l, m \in DOMAIN g : l # m => Part(l) \cap Part(m) = {}

\* The definitions of add, sub and mul, taken out of the CASEs over the ops.
LEMMA ElementwiseParts ==
  ASSUME NEW op, op.kind \in Elementwise, NEW shapes, NEW pages
  PROVE  /\ output_shape(op, shapes) = shapes[1]
         /\ \A o : index_map(op, shapes, pages, o) = << <<o, o>> >>
         /\ \A idxs, l : forward_block(op, shapes, pages, idxs, l) =
              Add_forward(Blocks(shapes, pages, idxs)[1], Blocks(shapes, pages, idxs)[2], l)
         /\ \A idxs : Conform(op, shapes, pages, idxs) <=>
              BlockShape(idxs[1], pages[1], shapes[1]) = BlockShape(idxs[2], pages[2], shapes[2])
         /\ \A e : OutputTerms(op, shapes, e) = { << e, e >> }
  BY DEF Elementwise, output_shape, index_map, Add_index_map, forward_block, Conform, OutputTerms

\* The same for square.
LEMMA SquareParts ==
  ASSUME NEW op, op.kind = "square", NEW shapes, NEW pages
  PROVE  /\ output_shape(op, shapes) = shapes[1]
         /\ \A o : index_map(op, shapes, pages, o) = << <<o>> >>
         /\ \A idxs, l : forward_block(op, shapes, pages, idxs, l) =
              Square_forward(Blocks(shapes, pages, idxs)[1], l)
         /\ \A idxs : Conform(op, shapes, pages, idxs)
         /\ \A e : OutputTerms(op, shapes, e) = { << e >> }
  BY DEF Elementwise, output_shape, index_map, Square_index_map, forward_block, Conform, OutputTerms

\* The same for sum.
LEMMA SumParts ==
  ASSUME NEW op, op.kind = "sum", NEW shapes, NEW pages
  PROVE  /\ output_shape(op, shapes) = << >>
         /\ \A o : index_map(op, shapes, pages, o) = Sum_index_map(block_grid(shapes[1], pages[1]))
         /\ \A idxs, l : forward_block(op, shapes, pages, idxs, l) =
              Sum_forward(Blocks(shapes, pages, idxs)[1])
         /\ \A idxs : Conform(op, shapes, pages, idxs)
         /\ \A e : OutputTerms(op, shapes, e) = { << x >> : x \in Cells(shapes[1]) }
  BY DEF Elementwise, output_shape, index_map, forward_block, Conform, OutputTerms

\* The same for transpose.
LEMMA TransposeParts ==
  ASSUME NEW op, op.kind = "transpose", NEW shapes, NEW pages
  PROVE  /\ output_shape(op, shapes) = Permute(shapes[1], op.axes)
         /\ \A o : index_map(op, shapes, pages, o) = << << Unpermute(o, op.axes) >> >>
         /\ \A idxs, l : forward_block(op, shapes, pages, idxs, l) =
              Transpose_forward(Blocks(shapes, pages, idxs)[1], l, op.axes)
         /\ \A idxs : Conform(op, shapes, pages, idxs)
  BY DEF Elementwise, output_shape, index_map, Transpose_index_map, forward_block, Conform

\* The same for the reference definition of transpose, term by term.
LEMMA TransposeTerms ==
  ASSUME NEW op, op.kind = "transpose", NEW shapes, NEW e, NEW t
  PROVE  t \in OutputTerms(op, shapes, e) <=>
           \E x \in Cells(shapes[1]) : Permute(x, op.axes) = e /\ t = << x >>
  BY DEF Elementwise, OutputTerms

\* The same for the shape and the index map of dot.
LEMMA DotParts ==
  ASSUME NEW op, op.kind = "dot", NEW shapes, NEW pages, NEW o
  PROVE  /\ output_shape(op, shapes) = Dot_output_shape(shapes[1], shapes[2])
         /\ index_map(op, shapes, pages, o) = Dot_index_map(k_blocks(shapes, pages), o)
  BY DEF Elementwise, output_shape, index_map

\* The same for forward_block of dot.
LEMMA DotKernel ==
  ASSUME NEW op, op.kind = "dot", NEW shapes, NEW pages, NEW idxs, NEW l
  PROVE  forward_block(op, shapes, pages, idxs, l) =
           Dot_forward(Blocks(shapes, pages, idxs)[1], Blocks(shapes, pages, idxs)[2], l)
  BY DEF Elementwise, forward_block

\* The same for what dot's kernel expects of its blocks.
LEMMA DotConform ==
  ASSUME NEW op, op.kind = "dot", NEW shapes, NEW pages, NEW idxs,
         NEW x, x = BlockShape(idxs[1], pages[1], shapes[1]),
         NEW y, y = BlockShape(idxs[2], pages[2], shapes[2])
  PROVE  Conform(op, shapes, pages, idxs) <=>
           y = Batched(x, x[Len(shapes[1])], y[Len(shapes[1])])
  BY DEF Elementwise, Conform

\* The same for the reference definition of dot, term by term.
LEMMA DotTerms ==
  ASSUME NEW op, op.kind = "dot", NEW shapes, NEW e, NEW t
  PROVE  t \in OutputTerms(op, shapes, e) <=>
           \E h \in 0 .. shapes[1][Len(shapes[1])] - 1 :
             t = << Batched(e, e[Len(shapes[1]) - 1], h), Batched(e, h, e[Len(shapes[1])]) >>
  BY DEF Elementwise, OutputTerms

\* A page has the array's dimensions, and each extent is `side` cut to the array's.
LEMMA PageFacts ==
  ASSUME NEW s \in Shapes, NEW side \in Nat \ {0}
  PROVE  /\ PageOf(side, s) \in Shapes /\ Len(PageOf(side, s)) = Len(s)
         /\ DOMAIN s = 1 .. Len(s) /\ DOMAIN PageOf(side, s) = 1 .. Len(s) /\ Len(s) \in Nat
         /\ \A d \in DOMAIN s : s[d] \in Nat \ {0} /\ PageOf(side, s)[d] = Smaller(side, s[d])
                                /\ PageOf(side, s)[d] \in Nat \ {0}
<1> DEFINE n == Len(s)
           page == PageOf(side, s)
<1>1. n \in Nat /\ DOMAIN s = 1 .. n /\ \A d \in 1 .. n : s[d] \in Nat \ {0}
  BY DEF Shapes
<1>2. page = [d \in 1 .. n |-> Smaller(side, s[d])]
  BY <1>1 DEF PageOf
<1> HIDE DEF n, page
<1>3. \A d \in 1 .. n : page[d] = Smaller(side, s[d]) /\ page[d] \in Nat \ {0}
  BY <1>1, <1>2 DEF Smaller
<1>4. page \in [1 .. n -> Nat \ {0}]
  BY <1>2, <1>3
<1>5. page \in Seq(Nat \ {0}) /\ Len(page) = n /\ DOMAIN page = 1 .. n
  <2>1. page \in Seq(Nat \ {0})
    BY <1>1, <1>4
  <2>2. QED
    BY <1>1, <1>4, <2>1
<1>6. QED
  BY <1>1, <1>3, <1>5 DEF n, page, Shapes

\* The offset of a cell within its block, counted from the block, is the cell.
LEMMA OffsetBack ==
  ASSUME NEW s \in Shapes, NEW page \in Shapes, Len(page) = Len(s), NEW e \in Cells(s),
         NEW o \in Inside(s, page)
  PROVE  /\ DOMAIN e = DOMAIN s
         /\ Global(o, page, [d \in DOMAIN e |-> e[d] - o[d] * page[d]]) = e
<1> DEFINE n == Len(s)
<1>1. /\ DOMAIN s = 1 .. n /\ \A d \in 1 .. n : page[d] \in Nat /\ o[d] \in Nat
  BY DEF Shapes, Inside
<1>2. e \in [1 .. n -> Nat]
  <2>1. s \in Seq(Nat)
    BY DEF Shapes
  <2>2. QED
    BY <1>1, <2>1, CellsAre
<1> HIDE DEF n
<1>3. \A d \in 1 .. n : o[d] * page[d] \in Int /\ e[d] \in Int
  BY <1>1, <1>2
<1>4. \A d \in 1 .. n : o[d] * page[d] + (e[d] - o[d] * page[d]) = e[d]
  BY <1>3
<1>5. QED
  BY <1>1, <1>2, <1>4 DEF Global

-----------------------------------------------------------------------------
\* add, sub and mul: the cells at the same place.
LEMMA ElementwiseSound ==
  ASSUME NEW op, op.kind \in Elementwise, NEW s \in Shapes, NEW side \in Nat \ {0},
         NEW shapes, shapes = << s, s >>, NEW pages, pages = << PageOf(side, s), PageOf(side, s) >>,
         NEW e \in Cells(s), NEW o \in Inside(s, PageOf(side, s))
  PROVE  Sound(op, shapes, pages, PageOf(side, s), o, e)
<1> DEFINE page == PageOf(side, s)
           local == [d \in DOMAIN e |-> e[d] - o[d] * page[d]]
           g == index_map(op, shapes, pages, o)
           Part(m) == forward_block(op, shapes, pages, g[m], local)
<1>1. pages = << page, page >> /\ shapes[1] = s /\ shapes[2] = s /\ DOMAIN shapes = 1 .. 2
  OBVIOUS
<1>2. page \in Shapes /\ Len(page) = Len(s)
  BY PageFacts
<1> HIDE DEF page
<1>3. output_shape(op, shapes) = s /\ g = << << o, o >> >> /\ OutputTerms(op, shapes, e) = { << e, e >> }
  BY <1>1, ElementwiseParts
<1>4. DOMAIN g = {1} /\ g[1] = << o, o >>
  BY <1>3
<1> HIDE DEF g
<1>5. Conform(op, shapes, pages, g[1])
  BY <1>1, <1>4, ElementwiseParts
<1>6. ResultShape(op, shapes, pages, g[1]) = BlockShape(o, page, s)
  <2> DEFINE ext == [p \in DOMAIN shapes |-> BlockShape(g[1][p], pages[p], shapes[p])]
  <2>1. ext[1] = BlockShape(o, page, s)
    BY <1>1, <1>4
  <2>2. ResultShape(op, shapes, pages, g[1]) = output_shape(op, ext)
    BY DEF ResultShape
  <2> HIDE DEF ext
  <2>3. output_shape(op, ext) = ext[1]
    BY ElementwiseParts
  <2>4. QED
    BY <2>1, <2>2, <2>3
<1>7. Part(1) = { << e, e >> }
  <2> DEFINE blk == Blocks(shapes, pages, g[1])
  <2>1. blk[1] = Blk(o, page, s) /\ blk[2] = Blk(o, page, s)
    BY <1>1, <1>4 DEF Blocks
  <2>2. Part(1) = Add_forward(blk[1], blk[2], local)
    BY ElementwiseParts
  <2>3. At(Blk(o, page, s), local) = e
    BY <1>2, OffsetBack DEF At, Blk, page
  <2> HIDE DEF blk
  <2>4. QED
    BY <2>1, <2>2, <2>3 DEF Add_forward
<1> HIDE DEF Part
<1>8. UNION {Part(m) : m \in DOMAIN g} = { << e, e >> }
  BY <1>4, <1>7
<1>9. QED
  BY <1>3, <1>4, <1>5, <1>6, <1>8 DEF Sound, g, Part, page

\* forward_block of square.
LEMMA SquareKernel ==
  ASSUME NEW op, op.kind = "square", NEW shapes, NEW pages, NEW idxs, NEW l
  PROVE  forward_block(op, shapes, pages, idxs, l) =
           Square_forward(Blocks(shapes, pages, idxs)[1], l)
  BY DEF Elementwise, forward_block

\* square: the cell itself.
LEMMA SquareSound ==
  ASSUME NEW op, op.kind = "square", NEW s \in Shapes, NEW side \in Nat \ {0},
         NEW shapes, shapes = << s >>, NEW pages, pages = << PageOf(side, s) >>,
         NEW e \in Cells(s), NEW o \in Inside(s, PageOf(side, s))
  PROVE  Sound(op, shapes, pages, PageOf(side, s), o, e)
<1> DEFINE page == PageOf(side, s)
           local == [d \in DOMAIN e |-> e[d] - o[d] * page[d]]
           g == index_map(op, shapes, pages, o)
           Part(m) == forward_block(op, shapes, pages, g[m], local)
<1>1. pages = << page >> /\ shapes[1] = s /\ DOMAIN shapes = 1 .. 1
  OBVIOUS
<1>2. page \in Shapes /\ Len(page) = Len(s)
  BY PageFacts
<1> HIDE DEF page
<1>3. output_shape(op, shapes) = s /\ g = << << o >> >> /\ OutputTerms(op, shapes, e) = { << e >> }
  BY <1>1, SquareParts, SMTT(30)
<1>4. DOMAIN g = {1} /\ g[1] = << o >>
  BY <1>3
<1> HIDE DEF g
<1>5. Conform(op, shapes, pages, g[1])
  BY SquareParts
<1>6. ResultShape(op, shapes, pages, g[1]) = BlockShape(o, page, s)
  <2> DEFINE ext == [p \in DOMAIN shapes |-> BlockShape(g[1][p], pages[p], shapes[p])]
  <2>1. ext[1] = BlockShape(o, page, s)
    BY <1>1, <1>4
  <2>2. ResultShape(op, shapes, pages, g[1]) = output_shape(op, ext)
    BY DEF ResultShape
  <2> HIDE DEF ext
  <2>3. output_shape(op, ext) = ext[1]
    BY SquareParts
  <2>4. QED
    BY <2>1, <2>2, <2>3
<1>7. Part(1) = { << e >> }
  <2> DEFINE blk == Blocks(shapes, pages, g[1])
  <2>1. blk[1] = Blk(o, page, s)
    <3>1. blk[1] = Blk(g[1][1], pages[1], shapes[1])
      BY <1>1 DEF Blocks
    <3>2. g[1][1] = o /\ pages[1] = page /\ shapes[1] = s
      BY <1>1, <1>4
    <3> HIDE DEF blk
    <3>3. QED
      BY <3>1, <3>2
  <2>2. Part(1) = Square_forward(blk[1], local)
    BY SquareKernel
  <2>3. At(Blk(o, page, s), local) = e
    BY <1>2, OffsetBack DEF At, Blk, page
  <2> HIDE DEF blk
  <2>4. QED
    BY <2>1, <2>2, <2>3 DEF Square_forward
<1> HIDE DEF Part
<1>8. UNION {Part(m) : m \in DOMAIN g} = { << e >> }
  BY <1>4, <1>7
<1>9. QED
  BY <1>3, <1>4, <1>5, <1>6, <1>8 DEF Sound, g, Part, page

\* The cells of a block are cells of the array.
LEMMA CoveredInside ==
  ASSUME NEW s \in Shapes, NEW page \in Shapes, Len(page) = Len(s), NEW o \in Inside(s, page)
  PROVE  Covered(o, page, s) \subseteq Cells(s)
<1> DEFINE n == Len(s)
<1>1. /\ DOMAIN s = 1 .. n /\ \A d \in 1 .. n : page[d] \in Nat /\ o[d] \in Nat
  BY DEF Shapes, Inside
<1> HIDE DEF n
<1>2. ASSUME NEW l \in Cells(BlockShape(o, page, s)) PROVE Global(o, page, l) \in Cells(s)
  <2>1. l \in [1 .. n -> Nat] /\ \A d \in 1 .. n : o[d] * page[d] + l[d] < s[d]
    BY <1>1, BlockCells
  <2>2. \A d \in 1 .. n : o[d] * page[d] \in Nat
    BY <1>1
  <2>3. Global(o, page, l) \in [1 .. n -> Nat] /\ \A d \in 1 .. n : Global(o, page, l)[d] < s[d]
    BY <2>1, <2>2 DEF Global
  <2>4. s \in Seq(Nat)
    BY DEF Shapes
  <2>5. QED
    BY <1>1, <2>3, <2>4, CellsAre
<1>3. QED
  BY <1>2 DEF Covered

\* sum: the cells of all blocks together are the cells of the array, none twice.
LEMMA SumSound ==
  ASSUME NEW op, op.kind = "sum", NEW s \in Shapes, NEW side \in Nat \ {0},
         NEW shapes, shapes = << s >>, NEW pages, pages = << PageOf(side, s) >>,
         NEW e, NEW o, NEW outPage
  PROVE  Sound(op, shapes, pages, outPage, o, e)
<1> DEFINE page == PageOf(side, s)
           grid == block_grid(s, page)
           local == [d \in DOMAIN e |-> e[d] - o[d] * outPage[d]]
           g == index_map(op, shapes, pages, o)
           Part(m) == forward_block(op, shapes, pages, g[m], local)
<1>1. pages = << page >> /\ shapes[1] = s /\ DOMAIN shapes = 1 .. 1
  OBVIOUS
<1>2. page \in Shapes /\ Len(page) = Len(s)
  BY PageFacts
<1> HIDE DEF page
<1>3. output_shape(op, shapes) = << >> /\ OutputTerms(op, shapes, e) = { << x >> : x \in Cells(s) }
  BY <1>1, SumParts
<1>4. g = [m \in DOMAIN grid |-> << grid[m] >>]
  BY <1>1, SumParts DEF Sum_index_map
<1>5. /\ \A m \in DOMAIN grid : grid[m] \in Inside(s, page)
      /\ \A l, m \in DOMAIN grid : grid[l] = grid[m] => l = m
      /\ \A i \in Inside(s, page) : \E m \in DOMAIN grid : grid[m] = i
  BY <1>2, GridLists
<1> HIDE DEF g, grid
<1>6. \A m \in DOMAIN g : Conform(op, shapes, pages, g[m])
  BY SumParts
<1>7. ASSUME NEW m \in DOMAIN g
      PROVE  ResultShape(op, shapes, pages, g[m]) = BlockShape(o, outPage, << >>)
  <2>1. BlockShape(o, outPage, << >>) = << >>
    BY DEF BlockShape, slice_for
  <2>2. \A x : output_shape(op, x) = << >>
    BY SumParts
  <2>3. QED
    BY <2>1, <2>2 DEF ResultShape
<1>8. ASSUME NEW m \in DOMAIN g PROVE Part(m) = { << x >> : x \in Covered(grid[m], page, s) }
  <2> DEFINE blk == Blocks(shapes, pages, g[m])
             b == Blk(grid[m], page, s)
  <2>1. blk[1] = b
    BY <1>1, <1>4 DEF Blocks
  <2>2. Part(m) = Sum_forward(blk[1])
    BY SumParts
  <2> HIDE DEF blk
  <2>3. Part(m) = { << At(b, l) >> : l \in Cells(Extents(b)) }
    BY <2>1, <2>2 DEF Sum_forward
  <2>4. Extents(b) = BlockShape(grid[m], page, s) /\ \A l : At(b, l) = Global(grid[m], page, l)
    BY DEF Extents, At, Blk
  <2> HIDE DEF b, Part
  <2>5. QED
    BY <2>3, <2>4 DEF Covered
<1> HIDE DEF Part
<1>9. UNION {Part(m) : m \in DOMAIN g} = { << x >> : x \in Cells(s) }
  <2>1. ASSUME NEW m \in DOMAIN g, NEW t \in Part(m) PROVE t \in { << x >> : x \in Cells(s) }
    <3>1. grid[m] \in Inside(s, page)
      BY <1>4, <1>5
    <3>2. Covered(grid[m], page, s) \subseteq Cells(s)
      BY <1>2, <3>1, CoveredInside
    <3>3. t \in { << x >> : x \in Covered(grid[m], page, s) }
      BY <1>8, <2>1
    <3>4. QED
      BY <3>2, <3>3
  <2>2. ASSUME NEW x \in Cells(s) PROVE \E m \in DOMAIN g : << x >> \in Part(m)
    <3>1. /\ Home(x, page) \in Inside(s, page)
          /\ x \in Covered(Home(x, page), page, s)
      BY <1>2, HomeCovers
    <3>2. PICK m \in DOMAIN grid : grid[m] = Home(x, page)
      BY <1>5, <3>1
    <3>3. m \in DOMAIN g
      BY <1>4
    <3>4. << x >> \in Part(m)
      BY <1>8, <3>1, <3>2, <3>3
    <3>5. QED
      BY <3>3, <3>4
  <2>3. QED
    BY <2>1, <2>2
<1>10. ASSUME NEW l \in DOMAIN g, NEW m \in DOMAIN g, l # m PROVE Part(l) \cap Part(m) = {}
  <2> SUFFICES ASSUME NEW t, t \in Part(l), t \in Part(m) PROVE FALSE
    OBVIOUS
  <2>1. PICK x \in Covered(grid[l], page, s) : t = << x >>
    BY <1>8
  <2>2. PICK y \in Covered(grid[m], page, s) : t = << y >>
    BY <1>8
  <2>3. x = y
    BY <2>1, <2>2
  <2>4. l \in DOMAIN grid /\ m \in DOMAIN grid
    BY <1>4
  <2>5. grid[l] \in Inside(s, page) /\ grid[m] \in Inside(s, page)
    BY <1>5, <2>4
  <2>6. x \in Cells(s)
    BY <1>2, <2>1, <2>5, CoveredInside
  <2>7. grid[l] = Home(x, page) /\ grid[m] = Home(x, page)
    BY <1>2, <2>1, <2>2, <2>3, <2>5, <2>6, HomeCovers
  <2>8. QED
    BY <1>5, <1>10, <2>4, <2>7
<1>11. QED
  BY <1>3, <1>6, <1>7, <1>9, <1>10 DEF Sound, g, Part

-----------------------------------------------------------------------------
\* Entry i of a transposed sequence comes from entry f[i], and goes back there by g.
Inverses(f, g, n) ==
  /\ f \in [1 .. n -> 1 .. n] /\ g \in [1 .. n -> 1 .. n]
  /\ \A i \in 1 .. n : f[g[i]] = i /\ g[f[i]] = i

Follows(axes, f, g, n) ==
  \A s : DOMAIN s = 1 .. n /\ s \in Seq(Int) =>
    /\ Permute(s, axes) = [i \in 1 .. n |-> s[f[i]]]
    /\ Unpermute(s, axes) = [i \in 1 .. n |-> s[g[i]]]

\* Permute and Unpermute move entries along a permutation and its inverse.
LEMMA PermutationOf ==
  ASSUME NEW n \in Nat, NEW s \in Shapes, Len(s) = n,
         NEW axes, axes = << >> \/ Permutes(axes, s)
  PROVE  \E f, g : Inverses(f, g, n) /\ Follows(axes, f, g, n)
<1>1. DOMAIN s = 1 .. n
  BY DEF Shapes
<1>2. CASE axes = << >>
  <2> DEFINE f == [i \in 1 .. n |-> n + 1 - i]
  <2>1. Inverses(f, f, n)
    BY DEF Inverses
  <2>2. ASSUME NEW x, DOMAIN x = 1 .. n, x \in Seq(Int)
        PROVE  Reversed(x) = [i \in 1 .. n |-> x[f[i]]]
    <3>1. Len(x) = n
      BY <2>2
    <3>2. QED
      BY <2>2, <3>1 DEF Reversed
  <2> HIDE DEF f
  <2>3. Follows(axes, f, f, n)
    BY <1>2, <2>2 DEF Follows, Permute, Unpermute
  <2>4. QED
    BY <2>1, <2>3
<1>3. CASE Permutes(axes, s) /\ axes # << >>
  <2> DEFINE g == [d \in 1 .. n |-> AxisIndex(axes, d)]
  <2>1. /\ axes \in [1 .. n -> 1 .. n] /\ DOMAIN axes = 1 .. n
        /\ \A d \in 1 .. n : \E i \in 1 .. n : axes[i] = d
        /\ \A i, j \in 1 .. n : axes[i] = axes[j] => i = j
    BY <1>1, <1>3 DEF Permutes
  <2>2. ASSUME NEW d \in 1 .. n PROVE g[d] \in 1 .. n /\ axes[g[d]] = d
    <3>1. \E j \in 1 .. n : axes[j] = d
      BY <2>1
    <3>2. g[d] = CHOOSE j \in 1 .. n : axes[j] = d
      BY <2>1 DEF AxisIndex
    <3> HIDE DEF g
    <3>3. QED
      BY <3>1, <3>2
  <2>3. g \in [1 .. n -> 1 .. n] /\ \A i \in 1 .. n : g[axes[i]] = i
    <3> HIDE DEF g
    <3>1. ASSUME NEW i \in 1 .. n PROVE g[axes[i]] = i
      <4>1. axes[i] \in 1 .. n
        BY <2>1
      <4>2. g[axes[i]] \in 1 .. n /\ axes[g[axes[i]]] = axes[i]
        BY <2>2, <4>1
      <4>3. QED
        BY <2>1, <4>2
    <3>2. g \in [1 .. n -> 1 .. n]
      BY <2>2 DEF g
    <3>3. QED
      BY <3>1, <3>2
  <2>4. Inverses(axes, g, n)
    BY <2>1, <2>2, <2>3 DEF Inverses
  <2>5. \A x : DOMAIN x = 1 .. n =>
          /\ Permute(x, axes) = [i \in 1 .. n |-> x[axes[i]]]
          /\ Unpermute(x, axes) = [i \in 1 .. n |-> x[g[i]]]
    BY <1>3 DEF Permute, Unpermute
  <2> HIDE DEF g
  <2>6. Follows(axes, axes, g, n)
    BY <2>5 DEF Follows
  <2>7. QED
    BY <2>4, <2>6
<1>4. QED
  BY <1>2, <1>3

\* transpose: the cell at the permuted place, read from the permuted block.
LEMMA TransposeSound ==
  ASSUME NEW op, op.kind = "transpose", NEW s \in Shapes, NEW side \in Nat \ {0},
         op.axes = << >> \/ Permutes(op.axes, s),
         NEW shapes, DOMAIN shapes = 1 .. 1, shapes[1] = s, NEW pages, pages[1] = PageOf(side, s),
         NEW out, out = Permute(s, op.axes),
         NEW e \in Cells(out), NEW o \in Inside(out, PageOf(side, out))
  PROVE  out \in Shapes /\ Sound(op, shapes, pages, PageOf(side, out), o, e)
<1> DEFINE n == Len(s)
           axes == op.axes
           page == PageOf(side, s)
           outPage == PageOf(side, out)
           local == [d \in DOMAIN e |-> e[d] - o[d] * outPage[d]]
           g == index_map(op, shapes, pages, o)
           Part(m) == forward_block(op, shapes, pages, g[m], local)
<1>1. pages[1] = page /\ shapes[1] = s /\ DOMAIN shapes = 1 .. 1
  OBVIOUS
<1>2. /\ page \in Shapes /\ Len(page) = n /\ DOMAIN s = 1 .. n /\ DOMAIN page = 1 .. n /\ n \in Nat
      /\ \A d \in 1 .. n : s[d] \in Nat \ {0} /\ page[d] = Smaller(side, s[d]) /\ page[d] \in Nat \ {0}
  BY PageFacts
<1>3. PICK f, b : Inverses(f, b, n) /\ Follows(axes, f, b, n)
  BY <1>2, PermutationOf
<1> HIDE DEF n, page
<1>4. \A i \in 1 .. n : f[i] \in 1 .. n /\ b[i] \in 1 .. n /\ f[b[i]] = i /\ b[f[i]] = i
  BY <1>3 DEF Inverses
<1>5. ASSUME NEW x \in [1 .. n -> Int]
      PROVE  /\ Permute(x, axes) = [i \in 1 .. n |-> x[f[i]]]
             /\ Unpermute(x, axes) = [i \in 1 .. n |-> x[b[i]]]
  <2>1. x \in Seq(Int) /\ DOMAIN x = 1 .. n
    BY <1>2
  <2>2. QED
    BY <1>3, <2>1 DEF Follows
<1>6. out = [i \in 1 .. n |-> s[f[i]]] /\ out \in Shapes /\ DOMAIN out = 1 .. n /\ Len(out) = n
  <2>1. s \in [1 .. n -> Int]
    BY <1>2 DEF Shapes
  <2>2. out = [i \in 1 .. n |-> s[f[i]]]
    BY <1>5, <2>1
  <2>3. out \in [1 .. n -> Nat \ {0}]
    BY <1>2, <1>4, <2>2
  <2>4. out \in Seq(Nat \ {0})
    BY <1>2, <2>3
  <2>5. QED
    BY <1>2, <2>2, <2>3, <2>4 DEF Shapes
<1>7. /\ outPage \in Shapes /\ Len(outPage) = n
      /\ \A i \in 1 .. n : outPage[i] = page[f[i]] /\ outPage[i] \in Nat
  <2>1. /\ outPage \in Shapes /\ Len(outPage) = n
        /\ \A i \in 1 .. n : outPage[i] = Smaller(side, out[i])
    <3>1. /\ outPage \in Shapes /\ Len(outPage) = Len(out)
          /\ \A i \in DOMAIN out : outPage[i] = Smaller(side, out[i])
      <4>1. out \in Shapes
        BY <1>6
      <4>2. QED
        BY <4>1, PageFacts
    <3>2. QED
      BY <1>6, <3>1
  <2>2. QED
    BY <1>2, <1>4, <1>6, <2>1
<1> HIDE DEF outPage
<1>8. e \in [1 .. n -> Nat] /\ \A i \in 1 .. n : e[i] < out[i]
  <2>1. out \in Seq(Nat)
    BY <1>6 DEF Shapes
  <2>2. QED
    BY <1>6, <2>1, CellsAre
<1>9. o \in [1 .. n -> Nat]
  BY <1>6, <1>7 DEF Inside, outPage
<1>10. DOMAIN local = 1 .. n /\ \A i \in 1 .. n : o[i] * outPage[i] + local[i] = e[i]
  <2>1. \A i \in 1 .. n : o[i] * outPage[i] \in Int /\ e[i] \in Int
    BY <1>7, <1>8, <1>9
  <2>2. QED
    BY <1>8, <2>1
<1>11. /\ Permute(e, axes) = [i \in 1 .. n |-> e[f[i]]]
       /\ Unpermute(e, axes) = [i \in 1 .. n |-> e[b[i]]]
       /\ Unpermute(o, axes) = [i \in 1 .. n |-> o[b[i]]]
       /\ Unpermute(local, axes) = [i \in 1 .. n |-> local[b[i]]]
  <2>1. \A i \in 1 .. n : local[i] \in Int
    <3>1. \A i \in 1 .. n : o[i] * outPage[i] \in Int /\ e[i] \in Int
      BY <1>7, <1>8, <1>9
    <3>2. QED
      BY <1>8, <3>1
  <2> HIDE DEF local
  <2>2. local \in [1 .. n -> Int]
    <3>1. local = [d \in 1 .. n |-> local[d]]
      BY <1>8 DEF local
    <3>2. QED
      BY <2>1, <3>1
  <2>3. e \in [1 .. n -> Int] /\ o \in [1 .. n -> Int]
    BY <1>8, <1>9
  <2>4. QED
    BY <1>5, <2>2, <2>3
<1> HIDE DEF local, axes
<1> DEFINE i0 == Unpermute(o, axes)
           x0 == Unpermute(e, axes)
<1>12. /\ output_shape(op, shapes) = out /\ g = << << i0 >> >>
       /\ \A t : t \in OutputTerms(op, shapes, e) <=>
            \E x \in Cells(s) : Permute(x, axes) = e /\ t = << x >>
  <2>1. output_shape(op, shapes) = out
    BY <1>1, TransposeParts
  <2>2. index_map(op, shapes, pages, o) = << << Unpermute(o, op.axes) >> >>
    BY TransposeParts
  <2>3. \A t : t \in OutputTerms(op, shapes, e) <=>
            \E x \in Cells(shapes[1]) : Permute(x, op.axes) = e /\ t = << x >>
    BY TransposeTerms
  <2>4. QED
    BY <1>1, <2>1, <2>2, <2>3 DEF axes
<1>13. DOMAIN g = {1} /\ g[1] = << i0 >>
  BY <1>12
<1> HIDE DEF g
<1>14. Conform(op, shapes, pages, g[1])
  BY TransposeParts
<1>15. ResultShape(op, shapes, pages, g[1]) = BlockShape(o, outPage, out)
  <2> DEFINE ext == [p \in DOMAIN shapes |-> BlockShape(g[1][p], pages[p], shapes[p])]
             B == BlockShape(i0, page, s)
             Extent(i, p, v) == Smaller((i + 1) * p, v) - i * p
  <2>1. ext[1] = B
    BY <1>1, <1>13
  <2>2. ResultShape(op, shapes, pages, g[1]) = output_shape(op, ext)
    BY DEF ResultShape
  <2> HIDE DEF ext
  <2>3. output_shape(op, ext) = Permute(B, axes)
    BY <2>1, TransposeParts DEF axes
  <2>4. B = [d \in 1 .. n |-> Extent(i0[d], page[d], s[d])]
    BY <1>2 DEF BlockShape, slice_for
  <2>5. BlockShape(o, outPage, out) = [d \in 1 .. n |-> Extent(o[d], outPage[d], out[d])]
    BY <1>6 DEF BlockShape, slice_for
  <2>6. \A d \in 1 .. n : Extent(i0[f[d]], page[f[d]], s[f[d]]) = Extent(o[d], outPage[d], out[d])
    <3>1. \A d \in 1 .. n : i0[f[d]] = o[d] /\ page[f[d]] = outPage[d] /\ s[f[d]] = out[d]
      BY <1>4, <1>6, <1>7, <1>11
    <3>2. QED
      BY <3>1
  <2>7. B \in [1 .. n -> Int]
    <3>1. ASSUME NEW d \in 1 .. n PROVE Extent(i0[d], page[d], s[d]) \in Int
      <4> DEFINE i == i0[d]
                 p == page[d]
      <4>1. i \in Nat /\ p \in Nat /\ s[d] \in Nat
        BY <1>2, <1>4, <1>9, <1>11
      <4> HIDE DEF i, p
      <4>2. i * p \in Int /\ (i + 1) * p \in Int
        BY <4>1
      <4>3. QED
        BY <4>1, <4>2 DEF Smaller, i, p
    <3> HIDE DEF Extent
    <3>2. QED
      BY <2>4, <3>1
  <2> HIDE DEF Extent, B
  <2>8. Permute(B, axes) = [d \in 1 .. n |-> B[f[d]]]
    BY <1>5, <2>7
  <2>9. \A d \in 1 .. n : B[f[d]] = Extent(o[d], outPage[d], out[d])
    <3>1. \A d \in 1 .. n : B[d] = Extent(i0[d], page[d], s[d])
      BY <2>4
    <3>2. QED
      BY <1>4, <2>6, <3>1
  <2>10. Permute(B, axes) = BlockShape(o, outPage, out)
    BY <2>5, <2>8, <2>9
  <2>11. QED
    BY <2>2, <2>3, <2>10
<1>16. Part(1) = { << x0 >> }
  <2> DEFINE blk == Blocks(shapes, pages, g[1])
             a == Blk(i0, page, s)
  <2>1. blk[1] = a
    BY <1>1, <1>13 DEF Blocks
  <2>2. Part(1) = Transpose_forward(blk[1], local, axes)
    BY TransposeParts DEF axes
  <2>3. At(a, Unpermute(local, axes)) = x0
    <3>1. At(a, Unpermute(local, axes)) = Global(i0, page, Unpermute(local, axes))
      BY DEF At, Blk
    <3>2. \A d \in 1 .. n : page[d] = outPage[b[d]] /\ i0[d] = o[b[d]] /\ x0[d] = e[b[d]]
      BY <1>4, <1>7, <1>11
    <3>3. \A d \in 1 .. n : i0[d] * page[d] + Unpermute(local, axes)[d] = x0[d]
      BY <1>4, <1>10, <1>11, <3>2
    <3>4. DOMAIN Unpermute(local, axes) = 1 .. n /\ x0 = [d \in 1 .. n |-> x0[d]]
      BY <1>11
    <3> HIDE DEF i0, x0
    <3>5. QED
      BY <3>1, <3>3, <3>4 DEF Global
  <2> HIDE DEF blk, a, x0
  <2>4. QED
    BY <2>1, <2>2, <2>3 DEF Transpose_forward
<1>17. \A c : c \in Cells(s) /\ Permute(c, axes) = e <=> c = x0
  <2>1. Cells(s) = {c \in [1 .. n -> Nat] : \A d \in 1 .. n : c[d] < s[d]}
    <3>1. s \in Seq(Nat)
      BY DEF Shapes
    <3>2. QED
      BY <1>2, <3>1, CellsAre
  <2>2. x0 \in Cells(s)
    <3>1. \A d \in 1 .. n : x0[d] \in Nat /\ x0[d] < s[d]
      BY <1>4, <1>6, <1>8, <1>11
    <3>2. x0 \in [1 .. n -> Nat]
      BY <1>11, <3>1
    <3> HIDE DEF x0
    <3>3. QED
      BY <2>1, <3>1, <3>2
  <2>3. Permute(x0, axes) = e
    <3>1. x0 \in [1 .. n -> Int]
      BY <2>1, <2>2
    <3>2. Permute(x0, axes) = [i \in 1 .. n |-> x0[f[i]]]
      BY <1>5, <3>1
    <3>3. \A i \in 1 .. n : x0[f[i]] = e[i]
      BY <1>4, <1>11
    <3> HIDE DEF x0
    <3>4. QED
      BY <1>8, <3>2, <3>3
  <2>4. ASSUME NEW c \in Cells(s), Permute(c, axes) = e PROVE c = x0
    <3>1. c \in [1 .. n -> Nat] /\ c \in [1 .. n -> Int]
      BY <2>1
    <3>2. e = [i \in 1 .. n |-> c[f[i]]]
      BY <1>5, <2>4, <3>1
    <3>3. \A d \in 1 .. n : x0[d] = c[d]
      BY <1>4, <1>11, <3>2
    <3>4. x0 = [d \in 1 .. n |-> x0[d]]
      BY <1>11
    <3> HIDE DEF x0
    <3>5. QED
      BY <3>1, <3>3, <3>4
  <2> HIDE DEF x0
  <2>5. QED
    BY <2>2, <2>3, <2>4
<1> HIDE DEF x0, Part
<1>18. UNION {Part(m) : m \in DOMAIN g} = OutputTerms(op, shapes, e)
  BY <1>12, <1>13, <1>16, <1>17
<1>19. Sound(op, shapes, pages, outPage, o, e)
  BY <1>12, <1>13, <1>14, <1>15, <1>18 DEF Sound, g, Part, local
<1>20. QED
  BY <1>6, <1>19 DEF outPage

-----------------------------------------------------------------------------
\* The entries of the second of two sequences.
LEMMA ConcatAt ==
  ASSUME NEW S, NEW u \in Seq(S), NEW v \in Seq(S), NEW m \in 1 .. Len(v)
  PROVE  (u \o v)[Len(u) + m] = v[m]
<1>1. Len(u) + m \in 1 .. Len(u) + Len(v) /\ ~ (Len(u) + m <= Len(u)) /\ (Len(u) + m) - Len(u) = m
  OBVIOUS
<1>2. QED
  BY <1>1

\* Batched keeps the batch dimensions and replaces the last two entries.
LEMMA BatchedIs ==
  ASSUME NEW n \in Nat, n >= 2, NEW s \in [1 .. n -> Int], NEW i \in Int, NEW j \in Int
  PROVE  Batched(s, i, j) = [d \in 1 .. n |-> IF d = n - 1 THEN i ELSE IF d = n THEN j ELSE s[d]]
<1>1. s \in Seq(Int) /\ Len(s) = n
  OBVIOUS
<1> DEFINE head == SubSeq(s, 1, n - 2)
           tail == << i, j >>
<1>2. head \in Seq(Int) /\ Len(head) = n - 2 /\ \A d \in 1 .. n - 2 : head[d] = s[d]
  BY <1>1
<1>3. Batched(s, i, j) = head \o tail
  BY <1>1 DEF Batched
<1> HIDE DEF head
<1>4. /\ DOMAIN (head \o tail) = 1 .. n
      /\ \A d \in 1 .. n : (head \o tail)[d] = IF d = n - 1 THEN i ELSE IF d = n THEN j ELSE s[d]
      /\ head \o tail = [d \in 1 .. n |-> (head \o tail)[d]]
  <2>1. head \in Seq(Int) /\ tail \in Seq(Int) /\ Len(tail) = 2
    BY <1>2
  <2>2. head \o tail \in Seq(Int) /\ Len(head \o tail) = n
    BY <1>2, <2>1
  <2>3. DOMAIN (head \o tail) = 1 .. n
    BY <2>2
  <2>4. head \o tail = [d \in 1 .. n |-> (head \o tail)[d]]
    BY <2>2, <2>3
  <2>5. ASSUME NEW d \in 1 .. n
        PROVE  (head \o tail)[d] = IF d = n - 1 THEN i ELSE IF d = n THEN j ELSE s[d]
    <3>1. CASE d \in 1 .. n - 2
      <4>1. (head \o tail)[d] = head[d]
        BY <1>2, <2>1, <3>1
      <4>2. QED
        BY <1>2, <3>1, <4>1
    <3>2. CASE d = n - 1
      <4>1. (head \o tail)[Len(head) + 1] = tail[1]
        BY <2>1, ConcatAt
      <4>2. d = Len(head) + 1
        BY <1>2, <3>2
      <4>3. QED
        BY <3>2, <4>1, <4>2
    <3>3. CASE d = n
      <4>1. (head \o tail)[n] = tail[2] /\ n # n - 1
        BY <1>2, <2>1
      <4>2. QED
        BY <3>3, <4>1
    <3>4. d \in 1 .. n - 2 \/ d = n - 1 \/ d = n
      OBVIOUS
    <3>5. QED
      BY <3>1, <3>2, <3>3, <3>4
  <2>6. QED
    BY <2>3, <2>4, <2>5
<1>5. QED
  BY <1>3, <1>4

-----------------------------------------------------------------------------
\* How much of a dimension of s cells block i of p cells covers.
Extent(i, p, s) == Smaller((i + 1) * p, s) - i * p

\* An extent is a number.
LEMMA ExtentType ==
  ASSUME NEW i \in Int, NEW p \in Int, NEW s \in Int
  PROVE  Extent(i, p, s) \in Int
<1>1. i * p \in Int /\ (i + 1) * p \in Int
  OBVIOUS
<1>2. QED
  BY <1>1 DEF Extent, Smaller

\* The blocks of a dimension split it: every place in it is one offset in one block.
LEMMA DimensionSplit ==
  ASSUME NEW s \in Nat \ {0}, NEW p \in Nat \ {0}
  PROVE  /\ \A x \in 0 .. s - 1 : \E k \in 1 .. CeilDiv(s, p) :
              \E h \in 0 .. Extent(k - 1, p, s) - 1 : x = (k - 1) * p + h
         /\ \A k \in 1 .. CeilDiv(s, p) : \A h \in 0 .. Extent(k - 1, p, s) - 1 :
              (k - 1) * p + h \in 0 .. s - 1 /\ ((k - 1) * p + h) \div p = k - 1
<1> DEFINE c == CeilDiv(s, p)
<1>1. c \in Nat \ {0} /\ \A i \in Nat : i < c <=> i * p < s
  BY CeilDivIs
<1> HIDE DEF c
<1>2. ASSUME NEW i \in Nat, i * p < s
      PROVE  \A h \in Nat : h < Extent(i, p, s) <=> h < p /\ i * p + h < s
  <2> DEFINE b == i * p
  <2>1. b \in Nat /\ (i + 1) * p = b + p
    OBVIOUS
  <2>2. Extent(i, p, s) = Smaller(b + p, s) - b
    BY <2>1 DEF Extent
  <2> HIDE DEF b
  <2>3. \A h \in Nat : h < Smaller(b + p, s) - b <=> h < p /\ b + h < s
    BY <2>1 DEF Smaller
  <2>4. QED
    BY <2>2, <2>3 DEF b
<1>3. ASSUME NEW x \in 0 .. s - 1
      PROVE  \E k \in 1 .. c : \E h \in 0 .. Extent(k - 1, p, s) - 1 : x = (k - 1) * p + h
  <2> DEFINE i == x \div p
             h == x % p
             b == p * i
  <2>1. i \in Int /\ h \in 0 .. p - 1 /\ x = p * i + h
    BY DivMod
  <2> HIDE DEF i, h
  <2>2. b \in Int /\ i * p = b
    BY <2>1
  <2>3. i >= 0
    <3>1. ASSUME i <= -1 PROVE FALSE
      <4>1. p * i <= p * (-1)
        BY <2>1, <3>1
      <4>2. QED
        BY <2>1, <4>1
    <3>2. QED
      BY <2>1, <3>1
  <2>4. i \in Nat /\ i * p < s /\ i * p + h < s /\ i * p + h = x
    <3> HIDE DEF b
    <3>1. x = b + h
      BY <2>1 DEF b
    <3>2. QED
      BY <2>1, <2>2, <2>3, <3>1
  <2>5. i < c /\ h < Extent(i, p, s) /\ Extent(i, p, s) \in Int
    BY <1>1, <1>2, <2>1, <2>4, ExtentType
  <2>6. i + 1 \in 1 .. c /\ (i + 1) - 1 = i /\ h \in 0 .. Extent(i, p, s) - 1
    BY <1>1, <2>1, <2>4, <2>5
  <2>7. QED
    BY <2>4, <2>6
<1>4. ASSUME NEW k \in 1 .. c, NEW h \in 0 .. Extent(k - 1, p, s) - 1
      PROVE  (k - 1) * p + h \in 0 .. s - 1 /\ ((k - 1) * p + h) \div p = k - 1
  <2> DEFINE i == k - 1
             b == i * p
  <2>1. i \in Nat /\ i < c
    BY <1>1
  <2>2. h \in 0 .. Extent(i, p, s) - 1
    OBVIOUS
  <2> HIDE DEF i
  <2>3. b < s /\ b \in Nat /\ b = p * i
    BY <1>1, <2>1
  <2>4. Extent(i, p, s) \in Int
    BY <2>1, ExtentType
  <2>5. h \in Nat /\ h < Extent(i, p, s)
    BY <2>2, <2>4
  <2>6. h < p /\ b + h < s
    BY <1>2, <2>1, <2>3, <2>5
  <2>7. (p * i + h) \div p = i
    <3>1. h \in 0 .. p - 1 /\ i \in Int
      BY <2>1, <2>5, <2>6
    <3>2. QED
      BY <3>1, DivUnique
  <2> HIDE DEF b
  <2>8. b + h \in 0 .. s - 1
    BY <2>3, <2>5, <2>6
  <2>9. (b + h) \div p = i
    BY <2>3, <2>7
  <2>10. QED
    BY <2>8, <2>9 DEF i, b
<1>5. QED
  BY <1>3, <1>4 DEF c

\* Every entry of a block's shape is the extent in that dimension.
LEMMA ExtentsOf ==
  ASSUME NEW n \in Nat, NEW s, DOMAIN s = 1 .. n, NEW idx, NEW page,
         \A d \in 1 .. n : s[d] \in Int /\ idx[d] \in Int /\ page[d] \in Int
  PROVE  /\ BlockShape(idx, page, s) = [d \in 1 .. n |-> Extent(idx[d], page[d], s[d])]
         /\ BlockShape(idx, page, s) \in [1 .. n -> Int]
<1>1. BlockShape(idx, page, s) = [d \in 1 .. n |-> Extent(idx[d], page[d], s[d])]
  BY DEF BlockShape, slice_for, Extent
<1>2. \A d \in 1 .. n : Extent(idx[d], page[d], s[d]) \in Int
  BY ExtentType
<1>3. QED
  BY <1>1, <1>2

\* The operands and the result of dot, dimension by dimension.
LEMMA DotShapes ==
  ASSUME NEW a \in Shapes, NEW b \in Shapes, NEW n \in Nat, n >= 2, Len(a) = n, Len(b) = n
  PROVE  /\ Batched(a, a[n], b[n]) =
              [d \in 1 .. n |-> IF d = n - 1 THEN a[n] ELSE IF d = n THEN b[n] ELSE a[d]]
         /\ Dot_output_shape(a, b) = [d \in 1 .. n |-> IF d = n THEN b[n] ELSE a[d]]
<1>1. a \in [1 .. n -> Int] /\ a[n] \in Int /\ b[n] \in Int /\ a[n - 1] \in Int
  BY DEF Shapes
<1>2. Batched(a, a[n - 1], b[n])
        = [d \in 1 .. n |-> IF d = n - 1 THEN a[n - 1] ELSE IF d = n THEN b[n] ELSE a[d]]
  BY <1>1, BatchedIs
<1>3. Dot_output_shape(a, b) = [d \in 1 .. n |-> IF d = n THEN b[n] ELSE a[d]]
  BY <1>2 DEF Dot_output_shape
<1>4. QED
  BY <1>1, <1>3, BatchedIs

\* The index maps and kernels of dot replace one of the last two entries.
LEMMA BatchedEnds ==
  ASSUME NEW n \in Nat, n >= 2, NEW f \in [1 .. n -> Int], NEW x \in Int
  PROVE  /\ Batched(f, f[n - 1], x) = [d \in 1 .. n |-> IF d = n THEN x ELSE f[d]]
         /\ Batched(f, x, f[n]) = [d \in 1 .. n |-> IF d = n - 1 THEN x ELSE f[d]]
<1>1. f[n - 1] \in Int /\ f[n] \in Int
  OBVIOUS
<1>2. Batched(f, f[n - 1], x) = [d \in 1 .. n |-> IF d = n - 1 THEN f[n - 1] ELSE IF d = n THEN x ELSE f[d]]
  BY <1>1, BatchedIs
<1>3. Batched(f, x, f[n]) = [d \in 1 .. n |-> IF d = n - 1 THEN x ELSE IF d = n THEN f[n] ELSE f[d]]
  BY <1>1, BatchedIs
<1>4. QED
  BY <1>2, <1>3

\* The entries of a shape of known length.
LEMMA ShapeEntries ==
  ASSUME NEW s \in Shapes, NEW n \in Nat, Len(s) = n
  PROVE  /\ DOMAIN s = 1 .. n /\ s \in [1 .. n -> Int]
         /\ \A d \in 1 .. n : s[d] \in Nat \ {0}
  BY DEF Shapes

\* Two shapes or indices that differ at most at m.
Agree(f, g, n, m) == \A d \in 1 .. n : d # m => f[d] = g[d]

\* Blocks that agree along the contracted dimension multiply to a block of the tile's shape.
LEMMA DotFits ==
  ASSUME NEW n \in Nat, n >= 2, NEW x \in [1 .. n -> Int], NEW y \in [1 .. n -> Int],
         NEW z \in [1 .. n -> Int], NEW m, m = n - 1, y[m] = x[n],
         Agree(x, z, n, n), Agree(y, z, n, m)
  PROVE  Batched(x, x[n], y[n]) = y /\ Dot_output_shape(x, y) = z
<1>1. x[n] \in Int /\ y[n] \in Int /\ x[n - 1] \in Int /\ Len(x) = n /\ Len(y) = n
  OBVIOUS
<1> USE DEF Agree
<1>2. Batched(x, x[n], y[n]) = y
  <2>1. Batched(x, x[n], y[n]) = [d \in 1 .. n |-> IF d = n - 1 THEN x[n] ELSE IF d = n THEN y[n] ELSE x[d]]
    BY <1>1, BatchedIs, ZenonT(40)
  <2>2. \A d \in 1 .. n : y[d] = IF d = n - 1 THEN x[n] ELSE IF d = n THEN y[n] ELSE x[d]
    OBVIOUS
  <2>3. y = [d \in 1 .. n |-> y[d]]
    OBVIOUS
  <2>4. QED
    BY <2>1, <2>2, <2>3
<1>3. Batched(x, x[n - 1], y[n]) = z
  <2>1. Batched(x, x[n - 1], y[n]) = [d \in 1 .. n |-> IF d = n - 1 THEN x[n - 1] ELSE IF d = n THEN y[n] ELSE x[d]]
    BY <1>1, BatchedIs, ZenonT(40)
  <2>2. \A d \in 1 .. n : z[d] = IF d = n - 1 THEN x[n - 1] ELSE IF d = n THEN y[n] ELSE x[d]
    OBVIOUS
  <2>3. z = [d \in 1 .. n |-> z[d]]
    OBVIOUS
  <2>4. QED
    BY <2>1, <2>2, <2>3
<1>4. QED
  BY <1>1, <1>2, <1>3 DEF Dot_output_shape

\* The terms of a matmul of two blocks.
LEMMA DotForwardIs ==
  ASSUME NEW x, NEW y, NEW l, NEW t
  PROVE  t \in Dot_forward(x, y, l) <=>
           \E h \in 0 .. Extents(x)[Len(l)] - 1 :
             t = << At(x, Batched(l, l[Len(l) - 1], h)), At(y, Batched(l, h, l[Len(l)])) >>
  BY DEF Dot_forward

\* The blocks ia and ib that dot reads for tile o, a step q along the contracted dimension.
DotTile(n, q, a, b, s, pa, pb, pc, ia, ib, o) ==
  /\ q \in Int /\ a \in [1 .. n -> Int] /\ b \in [1 .. n -> Int] /\ s \in [1 .. n -> Int]
  /\ pa \in [1 .. n -> Int] /\ pb \in [1 .. n -> Int] /\ pc \in [1 .. n -> Int]
  /\ ia \in [1 .. n -> Int] /\ ib \in [1 .. n -> Int] /\ o \in [1 .. n -> Int]
  /\ ia[n] = q /\ ib[n - 1] = q /\ b[n - 1] = a[n] /\ pb[n - 1] = pa[n]
  /\ Agree(ia, o, n, n) /\ Agree(a, s, n, n) /\ Agree(pa, pc, n, n)
  /\ Agree(ib, o, n, n - 1) /\ Agree(b, s, n, n - 1) /\ Agree(pb, pc, n, n - 1)

\* The blocks dot reads for a tile, along each dimension: the operand's that the result
\* does not keep is cut at block q, the others as the tile.
LEMMA DotExtents ==
  ASSUME NEW n \in Nat, n >= 2, NEW q, NEW a, NEW b, NEW s, NEW pa, NEW pb, NEW pc,
         NEW ia, NEW ib, NEW o, DotTile(n, q, a, b, s, pa, pb, pc, ia, ib, o)
  PROVE  /\ BlockShape(ia, pa, a)[n] = Extent(q, pa[n], a[n])
         /\ Batched(BlockShape(ia, pa, a), BlockShape(ia, pa, a)[n], BlockShape(ib, pb, b)[n])
              = BlockShape(ib, pb, b)
         /\ Dot_output_shape(BlockShape(ia, pa, a), BlockShape(ib, pb, b)) = BlockShape(o, pc, s)
<1> DEFINE x == BlockShape(ia, pa, a)
           y == BlockShape(ib, pb, b)
           z == BlockShape(o, pc, s)
           m == n - 1
<1>0. /\ q \in Int /\ a \in [1 .. n -> Int] /\ b \in [1 .. n -> Int] /\ s \in [1 .. n -> Int]
      /\ pa \in [1 .. n -> Int] /\ pb \in [1 .. n -> Int] /\ pc \in [1 .. n -> Int]
      /\ ia \in [1 .. n -> Int] /\ ib \in [1 .. n -> Int] /\ o \in [1 .. n -> Int]
      /\ ia[n] = q /\ ib[m] = q /\ b[m] = a[n] /\ pb[m] = pa[n]
      /\ Agree(ia, o, n, n) /\ Agree(a, s, n, n) /\ Agree(pa, pc, n, n)
      /\ Agree(ib, o, n, m) /\ Agree(b, s, n, m) /\ Agree(pb, pc, n, m)
  BY DEF DotTile
<1>1. /\ x = [d \in 1 .. n |-> Extent(ia[d], pa[d], a[d])]
      /\ y = [d \in 1 .. n |-> Extent(ib[d], pb[d], b[d])]
      /\ z = [d \in 1 .. n |-> Extent(o[d], pc[d], s[d])]
  BY <1>0 DEF BlockShape, slice_for, Extent
<1>2. \A d \in 1 .. n : /\ Extent(ia[d], pa[d], a[d]) \in Int
                        /\ Extent(ib[d], pb[d], b[d]) \in Int
                        /\ Extent(o[d], pc[d], s[d]) \in Int
  BY <1>0, ExtentType
<1>3. x \in [1 .. n -> Int] /\ y \in [1 .. n -> Int] /\ z \in [1 .. n -> Int]
  BY <1>1, <1>2
<1> HIDE DEF x, y, z
<1>4. x[n] = Extent(q, pa[n], a[n]) /\ y[m] = x[n]
  BY <1>0, <1>1
<1>5. Agree(x, z, n, n)
  BY <1>0, <1>1 DEF Agree
<1>6. Agree(y, z, n, m)
  BY <1>0, <1>1 DEF Agree
<1>7. Batched(x, x[n], y[n]) = y /\ Dot_output_shape(x, y) = z
  <2>1. m = n - 1
    OBVIOUS
  <2> HIDE DEF m
  <2>2. QED
    BY <1>3, <1>4, <1>5, <1>6, <2>1, DotFits
<1>8. QED
  BY <1>4, <1>7 DEF x, y, z

\* dot: along the contracted dimension, every product once.
LEMMA DotSound ==
  ASSUME NEW op, op.kind = "dot", NEW a \in Shapes, NEW b \in Shapes, NEW n \in Nat, n >= 2,
         Len(a) = n, Len(b) = n, \A d \in 1 .. n - 2 : b[d] = a[d], b[n - 1] = a[n],
         NEW side \in Nat \ {0},
         NEW shapes, DOMAIN shapes = 1 .. 2, shapes[1] = a, shapes[2] = b,
         NEW pages, pages[1] = PageOf(side, a), pages[2] = PageOf(side, b),
         NEW out, output_shape(op, shapes) = out,
         out = [d \in 1 .. n |-> IF d = n THEN b[n] ELSE a[d]],
         NEW e \in Cells(out), NEW o \in Inside(out, PageOf(side, out))
  PROVE  out \in Shapes /\ Sound(op, shapes, pages, PageOf(side, out), o, e)
<1> DEFINE pa == PageOf(side, a)
           pb == PageOf(side, b)
           pc == PageOf(side, out)
           K == a[n]
           P == pa[n]
           local == [d \in DOMAIN e |-> e[d] - o[d] * pc[d]]
           g == index_map(op, shapes, pages, o)
           Part(m) == forward_block(op, shapes, pages, g[m], local)
<1>1. /\ pages[1] = pa /\ pages[2] = pb
      /\ shapes[1] = a /\ shapes[2] = b /\ DOMAIN shapes = 1 .. 2
  OBVIOUS
<1>2. /\ DOMAIN a = 1 .. n /\ DOMAIN b = 1 .. n
      /\ \A d \in 1 .. n : a[d] \in Nat \ {0} /\ b[d] \in Nat \ {0}
      /\ a \in [1 .. n -> Int] /\ b \in [1 .. n -> Int]
  BY ShapeEntries
<1>3. \A d \in 1 .. n : b[d] = IF d = n - 1 THEN a[n] ELSE IF d = n THEN b[n] ELSE a[d]
  <2>1. \A d \in 1 .. n : d \in 1 .. n - 2 \/ d = n - 1 \/ d = n
    OBVIOUS
  <2>2. QED
    BY <2>1
<1>4. out \in Shapes /\ DOMAIN out = 1 .. n /\ Len(out) = n
  <2>1. out \in [1 .. n -> Nat \ {0}]
    BY <1>2
  <2>2. out \in Seq(Nat \ {0})
    BY <2>1
  <2>3. QED
    BY <2>1, <2>2 DEF Shapes
<1>5. /\ DOMAIN pa = 1 .. n /\ DOMAIN pb = 1 .. n /\ DOMAIN pc = 1 .. n /\ Len(pa) = n
      /\ \A d \in 1 .. n : /\ pa[d] = Smaller(side, a[d]) /\ pa[d] \in Nat \ {0}
                           /\ pb[d] = Smaller(side, b[d]) /\ pb[d] \in Nat \ {0}
                           /\ pc[d] = Smaller(side, out[d]) /\ pc[d] \in Nat \ {0}
      /\ pc \in Shapes /\ Len(pc) = n
  <2>1. out \in Shapes /\ Len(out) = n /\ DOMAIN out = 1 .. n
    BY <1>4
  <2> HIDE DEF pa, pb, pc
  <2>2. /\ DOMAIN pa = 1 .. n /\ Len(pa) = n
        /\ \A d \in 1 .. n : pa[d] = Smaller(side, a[d]) /\ pa[d] \in Nat \ {0}
    BY <1>2, PageFacts DEF pa
  <2>3. /\ DOMAIN pb = 1 .. n
        /\ \A d \in 1 .. n : pb[d] = Smaller(side, b[d]) /\ pb[d] \in Nat \ {0}
    BY <1>2, PageFacts DEF pb
  <2>4. /\ DOMAIN pc = 1 .. n /\ pc \in Shapes /\ Len(pc) = n
        /\ \A d \in 1 .. n : pc[d] = Smaller(side, out[d]) /\ pc[d] \in Nat \ {0}
    BY <2>1, PageFacts, ZenonT(40) DEF pc
  <2>5. QED
    BY <2>2, <2>3, <2>4
<1> HIDE DEF pa, pb, pc
<1>6. /\ \A d \in 1 .. n : d # n => out[d] = a[d] /\ pc[d] = pa[d]
      /\ \A d \in 1 .. n : d # n - 1 => out[d] = b[d] /\ pc[d] = pb[d]
      /\ b[n - 1] = K /\ pb[n - 1] = P
      /\ K \in Nat \ {0} /\ P \in Nat \ {0}
  <2>1. \A d \in 1 .. n : d # n => out[d] = a[d] /\ pc[d] = pa[d]
    BY <1>4, <1>5
  <2>2. ASSUME NEW d \in 1 .. n, d # n - 1 PROVE out[d] = b[d]
    BY <1>3, <1>4, <2>2
  <2>3. n \in 1 .. n /\ n - 1 \in 1 .. n
    OBVIOUS
  <2>4. b[n - 1] = K
    BY <1>3, <2>3
  <2>5. pb[n - 1] = P
    BY <1>5, <2>3, <2>4
  <2>6. \A d \in 1 .. n : d # n - 1 => pc[d] = pb[d]
    BY <1>5, <2>2
  <2>7. QED
    BY <1>2, <1>5, <2>1, <2>2, <2>3, <2>4, <2>5, <2>6
<1>7. e \in [1 .. n -> Int] /\ o \in [1 .. n -> Nat] /\ o \in [1 .. n -> Int]
  <2>1. out \in Seq(Nat)
    BY <1>4 DEF Shapes
  <2>2. e \in [1 .. n -> Nat]
    BY <1>4, <2>1, CellsAre
  <2>3. o \in [1 .. n -> Nat]
    BY <1>4 DEF Inside, pc
  <2>4. QED
    BY <2>2, <2>3
<1>8. local \in [1 .. n -> Int] /\ \A d \in 1 .. n : o[d] * pc[d] + local[d] = e[d]
  <2>1. ASSUME NEW d \in 1 .. n PROVE o[d] * pc[d] \in Int /\ e[d] \in Int
    <3>1. o[d] \in Int /\ pc[d] \in Int /\ e[d] \in Int
      BY <1>5, <1>7, SMTT(30)
    <3>2. QED
      BY <3>1
  <2>2. QED
    BY <1>7, <2>1, SMTT(30)
<1> HIDE DEF local, K, P
<1> DEFINE A(x) == [d \in 1 .. n |-> IF d = n THEN x ELSE e[d]]
           B(x) == [d \in 1 .. n |-> IF d = n - 1 THEN x ELSE e[d]]
           Ia(k) == [d \in 1 .. n |-> IF d = n THEN k - 1 ELSE o[d]]
           Ib(k) == [d \in 1 .. n |-> IF d = n - 1 THEN k - 1 ELSE o[d]]
           count == CeilDiv(K, P)
<1>9. ASSUME NEW x \in Int, NEW f \in [1 .. n -> Int]
      PROVE  /\ Batched(f, f[n - 1], x) = [d \in 1 .. n |-> IF d = n THEN x ELSE f[d]]
             /\ Batched(f, x, f[n]) = [d \in 1 .. n |-> IF d = n - 1 THEN x ELSE f[d]]
  BY ONLY n \in Nat, n >= 2, x \in Int, f \in [1 .. n -> Int], BatchedEnds
<1>10. DOMAIN g = 1 .. count /\ \A k \in 1 .. count : g[k] = << Ia(k), Ib(k) >>
  <2>1. k_blocks(shapes, pages) = count
    BY <1>1, <1>5 DEF k_blocks, K, P
  <2>2. g = Dot_index_map(count, o)
    BY <2>1, DotParts
  <2>3. Len(o) = n
    BY <1>7
  <2> HIDE DEF g
  <2>4. ASSUME NEW k \in 1 .. count
        PROVE  Batched(o, o[n - 1], k - 1) = Ia(k) /\ Batched(o, k - 1, o[n]) = Ib(k)
    <3>1. k - 1 \in Int
      BY <1>6, CeilDivIs
    <3>2. QED
      BY <1>7, <1>9, <3>1
  <2> HIDE DEF Ia, Ib, count
  <2>5. QED
    BY <2>2, <2>3, <2>4 DEF Dot_index_map
<1>11. count \in Nat
  BY <1>6, CeilDivIs
<1> HIDE DEF g, count
<1>12. ASSUME NEW k \in 1 .. count, NEW x, x = BlockShape(Ia(k), pa, a),
              NEW y, y = BlockShape(Ib(k), pb, b)
       PROVE  /\ x[n] = Extent(k - 1, P, K)
              /\ Batched(x, x[n], y[n]) = y
              /\ Dot_output_shape(x, y) = BlockShape(o, pc, out)
  <2> DEFINE ia == Ia(k)
             ib == Ib(k)
             q == k - 1
  <2>1. q \in Int /\ Ia(k) \in [1 .. n -> Int] /\ Ib(k) \in [1 .. n -> Int]
    <3>1. k - 1 \in Int
      BY <1>11
    <3>2. \A d \in 1 .. n : o[d] \in Int
      BY <1>7
    <3>3. QED
      BY <3>1, <3>2
  <2>2. Ia(k)[n] = q /\ Ib(k)[n - 1] = q
    OBVIOUS
  <2>3. \A d \in 1 .. n : (d # n => Ia(k)[d] = o[d]) /\ (d # n - 1 => Ib(k)[d] = o[d])
    OBVIOUS
  <2> HIDE DEF Ia, Ib, q
  <2>4. /\ pa \in [1 .. n -> Int] /\ pb \in [1 .. n -> Int] /\ pc \in [1 .. n -> Int]
        /\ out \in [1 .. n -> Int] /\ a \in [1 .. n -> Int] /\ b \in [1 .. n -> Int]
    <3>1. out \in [1 .. n -> Int]
      BY <1>4, ShapeEntries
    <3>2. pc \in [1 .. n -> Int]
      BY <1>5, ShapeEntries
    <3>3. pa \in [1 .. n -> Int] /\ pb \in [1 .. n -> Int]
      BY <1>2, PageFacts, ShapeEntries, SMTT(30) DEF pa, pb
    <3>4. QED
      BY <1>2, <3>1, <3>2, <3>3
  <2> DEFINE m == n - 1
  <2>5. /\ Agree(ia, o, n, n) /\ Agree(a, out, n, n) /\ Agree(pa, pc, n, n)
        /\ Agree(ib, o, n, m) /\ Agree(b, out, n, m) /\ Agree(pb, pc, n, m)
    BY <1>6, <2>3 DEF Agree
  <2>6. b[m] = a[n] /\ pb[m] = pa[n] /\ ia[n] = q /\ ib[m] = q
    BY <1>6, <2>2 DEF P
  <2>7. ia \in [1 .. n -> Int] /\ ib \in [1 .. n -> Int] /\ o \in [1 .. n -> Int]
    BY <1>7, <2>1
  <2>8. x = BlockShape(ia, pa, a) /\ y = BlockShape(ib, pb, b)
    BY <1>12
  <2> HIDE DEF ia, ib
  <2>9. DotTile(n, q, a, b, out, pa, pb, pc, ia, ib, o)
    BY <2>1, <2>4, <2>5, <2>6, <2>7 DEF DotTile
  <2> HIDE DEF q, m
  <2>10. /\ BlockShape(ia, pa, a)[n] = Extent(q, pa[n], a[n])
         /\ Batched(BlockShape(ia, pa, a), BlockShape(ia, pa, a)[n], BlockShape(ib, pb, b)[n])
              = BlockShape(ib, pb, b)
         /\ Dot_output_shape(BlockShape(ia, pa, a), BlockShape(ib, pb, b)) = BlockShape(o, pc, out)
    BY <2>9, DotExtents
  <2>11. QED
    BY <2>8, <2>10 DEF q, P, K
<1>13. ASSUME NEW k \in 1 .. count
       PROVE  /\ Conform(op, shapes, pages, g[k])
              /\ ResultShape(op, shapes, pages, g[k]) = BlockShape(o, pc, out)
  <2> DEFINE x == BlockShape(Ia(k), pa, a)
             y == BlockShape(Ib(k), pb, b)
             ext == [p \in DOMAIN shapes |-> BlockShape(g[k][p], pages[p], shapes[p])]
  <2>1. g[k][1] = Ia(k) /\ g[k][2] = Ib(k)
    <3> HIDE DEF Ia, Ib
    <3>1. g[k] = << Ia(k), Ib(k) >>
      BY <1>10
    <3>2. QED
      BY <3>1
  <2>2. ext[1] = x /\ ext[2] = y
    BY <1>1, <2>1
  <2>3. x = BlockShape(g[k][1], pages[1], shapes[1]) /\ y = BlockShape(g[k][2], pages[2], shapes[2])
    BY <1>1, <2>1
  <2>4. ResultShape(op, shapes, pages, g[k]) = output_shape(op, ext)
    BY DEF ResultShape
  <2>5. Batched(x, x[n], y[n]) = y /\ Dot_output_shape(x, y) = BlockShape(o, pc, out)
    <3> HIDE DEF Ia, Ib
    <3>1. x = BlockShape(Ia(k), pa, a) /\ y = BlockShape(Ib(k), pb, b)
      OBVIOUS
    <3> HIDE DEF x, y
    <3>2. QED
      BY <1>12, <3>1
  <2> HIDE DEF ext, x, y
  <2>6. Conform(op, shapes, pages, g[k]) <=> y = Batched(x, x[Len(shapes[1])], y[Len(shapes[1])])
    BY <2>3, DotConform
  <2>7. output_shape(op, ext) = Dot_output_shape(ext[1], ext[2])
    BY DotParts
  <2>8. QED
    BY <1>1, <2>2, <2>4, <2>5, <2>6, <2>7
<1>14. ASSUME NEW k \in 1 .. count, NEW t
       PROVE  t \in Part(k) <=> \E h \in 0 .. Extent(k - 1, P, K) - 1 :
                                  t = << A((k - 1) * P + h), B((k - 1) * P + h) >>
  <2> DEFINE blk == Blocks(shapes, pages, g[k])
             x == Blk(Ia(k), pa, a)
             y == Blk(Ib(k), pb, b)
             bound == Extent(k - 1, P, K)
  <2>1. g[k][1] = Ia(k) /\ g[k][2] = Ib(k)
    <3> HIDE DEF Ia, Ib
    <3>1. g[k] = << Ia(k), Ib(k) >>
      BY <1>10
    <3>2. QED
      BY <3>1
  <2>2. blk[1] = x /\ blk[2] = y
    BY <1>1, <2>1 DEF Blocks
  <2>3. Part(k) = Dot_forward(blk[1], blk[2], local)
    BY DotKernel
  <2>4. Extents(x)[n] = bound
    BY <1>12 DEF Extents, Blk
  <2>5. Len(local) = n
    BY <1>8
  <2> HIDE DEF blk, Part, x, y, bound, local
  <2> DEFINE terms == Dot_forward(x, y, local)
  <2>5a. Part(k) = terms
    BY <2>2, <2>3
  <2>6. t \in Part(k) <=> \E h \in 0 .. bound - 1 :
          t = << At(x, Batched(local, local[n - 1], h)), At(y, Batched(local, h, local[n])) >>
    <3>1. t \in terms <=> \E h \in 0 .. bound - 1 :
            t = << At(x, Batched(local, local[n - 1], h)), At(y, Batched(local, h, local[n])) >>
      BY <2>4, <2>5, DotForwardIs
    <3> HIDE DEF terms
    <3>2. QED
      BY <2>5a, <3>1
  <2>7. ASSUME NEW h \in 0 .. bound - 1
        PROVE  /\ At(x, Batched(local, local[n - 1], h)) = A((k - 1) * P + h)
               /\ At(y, Batched(local, h, local[n])) = B((k - 1) * P + h)
    <3> USE DEF x, y
    <3> DEFINE u == [d \in 1 .. n |-> IF d = n THEN h ELSE local[d]]
               v == [d \in 1 .. n |-> IF d = n - 1 THEN h ELSE local[d]]
    <3>1. h \in Int
      OBVIOUS
    <3>2. Batched(local, local[n - 1], h) = u /\ Batched(local, h, local[n]) = v
      BY <1>8, <1>9, <3>1
    <3>3. At(x, u) = [d \in 1 .. n |-> Ia(k)[d] * pa[d] + u[d]]
      BY DEF At, Blk, Global
    <3>4. At(y, v) = [d \in 1 .. n |-> Ib(k)[d] * pb[d] + v[d]]
      BY DEF At, Blk, Global
    <3>5. ASSUME NEW d \in 1 .. n PROVE Ia(k)[d] * pa[d] + u[d] = A((k - 1) * P + h)[d]
      <4>1. CASE d = n
        <5>1. Ia(k)[d] = k - 1 /\ u[d] = h /\ pa[d] = P /\ A((k - 1) * P + h)[d] = (k - 1) * P + h
          BY <4>1 DEF P
        <5>2. QED
          BY <5>1
      <4>2. CASE d # n
        <5>1. Ia(k)[d] = o[d] /\ u[d] = local[d] /\ pa[d] = pc[d] /\ A((k - 1) * P + h)[d] = e[d]
          BY <1>6, <4>2
        <5>2. QED
          BY <1>8, <5>1
      <4>3. QED
        BY <4>1, <4>2
    <3>6. ASSUME NEW d \in 1 .. n PROVE Ib(k)[d] * pb[d] + v[d] = B((k - 1) * P + h)[d]
      <4>1. CASE d = n - 1
        <5>1. Ib(k)[d] = k - 1 /\ v[d] = h /\ pb[d] = P /\ B((k - 1) * P + h)[d] = (k - 1) * P + h
          BY <1>6, <4>1
        <5>2. QED
          BY <5>1
      <4>2. CASE d # n - 1
        <5>1. Ib(k)[d] = o[d] /\ v[d] = local[d] /\ pb[d] = pc[d] /\ B((k - 1) * P + h)[d] = e[d]
          BY <1>6, <4>2
        <5>2. QED
          BY <1>8, <5>1
      <4>3. QED
        BY <4>1, <4>2
    <3>7. /\ A((k - 1) * P + h) = [d \in 1 .. n |-> A((k - 1) * P + h)[d]]
          /\ B((k - 1) * P + h) = [d \in 1 .. n |-> B((k - 1) * P + h)[d]]
      OBVIOUS
    <3> HIDE DEF A, B, u, v, Ia, Ib, x, y
    <3>8. QED
      BY <3>2, <3>3, <3>4, <3>5, <3>6, <3>7
  <2> HIDE DEF A, B, x, y
  <2>8. QED
    BY <2>6, <2>7 DEF bound
<1> HIDE DEF Part
<1>15. \A t : t \in OutputTerms(op, shapes, e) <=> \E h \in 0 .. K - 1 : t = << A(h), B(h) >>
  <2>1. \A t : t \in OutputTerms(op, shapes, e) <=>
          \E h \in 0 .. K - 1 : t = << Batched(e, e[n - 1], h), Batched(e, h, e[n]) >>
    BY <1>1, DotTerms DEF K
  <2>2. ASSUME NEW h \in 0 .. K - 1
        PROVE  Batched(e, e[n - 1], h) = A(h) /\ Batched(e, h, e[n]) = B(h)
    <3>1. h \in Int
      OBVIOUS
    <3>2. QED
      BY <1>7, <1>9, <3>1
  <2> HIDE DEF A, B
  <2>3. QED
    BY <2>1, <2>2
<1>16. /\ \A x \in 0 .. K - 1 : \E k \in 1 .. count :
            \E h \in 0 .. Extent(k - 1, P, K) - 1 : x = (k - 1) * P + h
       /\ \A k \in 1 .. count : \A h \in 0 .. Extent(k - 1, P, K) - 1 :
            (k - 1) * P + h \in 0 .. K - 1 /\ ((k - 1) * P + h) \div P = k - 1
  BY <1>6, DimensionSplit, ZenonT(40) DEF count
<1>17. UNION {Part(k) : k \in DOMAIN g} = OutputTerms(op, shapes, e)
  <2> HIDE DEF A, B
  <2>1. ASSUME NEW k \in 1 .. count, NEW t \in Part(k) PROVE t \in OutputTerms(op, shapes, e)
    BY <1>14, <1>15, <1>16
  <2>2. ASSUME NEW t \in OutputTerms(op, shapes, e) PROVE \E k \in 1 .. count : t \in Part(k)
    <3>1. PICK x \in 0 .. K - 1 : t = << A(x), B(x) >>
      BY <1>15
    <3>2. PICK k \in 1 .. count : \E h \in 0 .. Extent(k - 1, P, K) - 1 : x = (k - 1) * P + h
      BY <1>16
    <3>3. t \in Part(k)
      BY <1>14, <3>1, <3>2
    <3>4. QED
      BY <3>3
  <2>3. QED
    BY <1>10, <2>1, <2>2, SMTT(30)
<1>18. ASSUME NEW l \in 1 .. count, NEW k \in 1 .. count, l # k PROVE Part(l) \cap Part(k) = {}
  <2> SUFFICES ASSUME NEW t, t \in Part(l), t \in Part(k) PROVE FALSE
    OBVIOUS
  <2>1. \A v : A(v)[n] = v
    OBVIOUS
  <2> HIDE DEF A, B
  <2>2. PICK h \in 0 .. Extent(l - 1, P, K) - 1 : t = << A((l - 1) * P + h), B((l - 1) * P + h) >>
    BY <1>14
  <2>3. PICK i \in 0 .. Extent(k - 1, P, K) - 1 : t = << A((k - 1) * P + i), B((k - 1) * P + i) >>
    BY <1>14
  <2>4. A((l - 1) * P + h) = A((k - 1) * P + i)
    BY <2>2, <2>3
  <2>5. (l - 1) * P + h = (k - 1) * P + i
    BY <2>1, <2>4
  <2>6. l - 1 = k - 1
    BY <1>16, <2>5
  <2>7. QED
    BY <1>11, <1>18, <2>6
<1>19. Sound(op, shapes, pages, pc, o, e)
  BY <1>10, <1>13, <1>17, <1>18 DEF Sound, g, Part, local
<1>20. QED
  BY <1>4, <1>19 DEF pc

-----------------------------------------------------------------------------
\* A sequence of one entry, and of two.
LEMMA ShortSeq ==
  ASSUME NEW T, NEW s \in Seq(T)
  PROVE  /\ Len(s) = 1 => s = << s[1] >> /\ s[1] \in T
         /\ Len(s) = 2 => s = << s[1], s[2] >> /\ s[1] \in T /\ s[2] \in T
  OBVIOUS

\* The output shape of each kind of op.
LEMMA OutputOf ==
  ASSUME NEW op, NEW shapes
  PROVE  /\ op.kind \in Elementwise \cup {"square"} => output_shape(op, shapes) = shapes[1]
         /\ op.kind = "sum" => output_shape(op, shapes) = << >>
         /\ op.kind = "transpose" => output_shape(op, shapes) = Permute(shapes[1], op.axes)
         /\ op.kind = "dot" => output_shape(op, shapes) = Dot_output_shape(shapes[1], shapes[2])
  BY DEF Elementwise, output_shape

\* The operands an op takes, by kind.
LEMMA AcceptedKinds ==
  ASSUME NEW op, NEW shapes, Accepts(op, shapes)
  PROVE  \/ /\ op.kind \in Elementwise /\ NumInputs(op) = 2
            /\ \E s \in Shapes : shapes = << s, s >>
         \/ op.kind \in {"square", "sum"} /\ NumInputs(op) = 1 /\ \E s \in Shapes : shapes = << s >>
         \/ /\ op.kind = "transpose" /\ NumInputs(op) = 1
            /\ \E s \in Shapes : shapes = << s >> /\ (op.axes = << >> \/ Permutes(op.axes, s))
         \/ /\ op.kind = "dot" /\ NumInputs(op) = 2
            /\ \E a, b \in Shapes : /\ shapes = << a, b >> /\ Len(a) >= 2 /\ Len(b) = Len(a)
                                    /\ b = Batched(a, a[Len(a)], b[Len(a)])
<1>1. shapes \in Seq(Shapes) /\ Len(shapes) = NumInputs(op)
  BY DEF Accepts, Shapes
<1>2. ASSUME Len(shapes) = 2
      PROVE  shapes = << shapes[1], shapes[2] >> /\ shapes[1] \in Shapes /\ shapes[2] \in Shapes
  BY <1>1, <1>2, ShortSeq
<1>3. ASSUME Len(shapes) = 1
      PROVE  shapes = << shapes[1] >> /\ shapes[1] \in Shapes
  BY <1>1, <1>3, ShortSeq
<1>4. CASE op.kind \in Elementwise /\ shapes[1] = shapes[2]
  <2>1. NumInputs(op) = 2
    BY <1>4 DEF NumInputs
  <2>2. QED
    BY <1>1, <1>2, <1>4, <2>1
<1>5. CASE op.kind \in {"square", "sum"}
  <2>1. NumInputs(op) = 1
    BY <1>5 DEF NumInputs, Elementwise
  <2>2. QED
    BY <1>1, <1>3, <1>5, <2>1
<1>6. CASE op.kind = "transpose" /\ (op.axes = << >> \/ Permutes(op.axes, shapes[1]))
  <2>1. NumInputs(op) = 1
    BY <1>6 DEF NumInputs, Elementwise
  <2>2. QED
    BY <1>1, <1>3, <1>6, <2>1
<1>7. CASE /\ op.kind = "dot" /\ Len(shapes[1]) >= 2 /\ Len(shapes[2]) = Len(shapes[1])
           /\ shapes[2] = Batched(shapes[1], shapes[1][Len(shapes[1])], shapes[2][Len(shapes[1])])
  <2>1. NumInputs(op) = 2
    BY <1>7 DEF NumInputs
  <2>2. QED
    BY <1>1, <1>2, <1>7, <2>1
<1>8. QED
  BY <1>4, <1>5, <1>6, <1>7 DEF Accepts

\* What dot asks of its operands.
DotArgs(a, b, n) ==
  /\ n \in Nat /\ n >= 2 /\ Len(a) = n /\ Len(b) = n
  /\ \A d \in 1 .. n - 2 : b[d] = a[d]
  /\ b[n - 1] = a[n]

\* dot, from what it asks of its operands.
LEMMA DotSoundArgs ==
  ASSUME NEW op, op.kind = "dot", NEW a \in Shapes, NEW b \in Shapes, NEW n, DotArgs(a, b, n),
         NEW side \in Nat \ {0},
         NEW shapes, DOMAIN shapes = 1 .. 2, shapes[1] = a, shapes[2] = b,
         NEW pages, pages[1] = PageOf(side, a), pages[2] = PageOf(side, b),
         NEW out, output_shape(op, shapes) = out,
         NEW e \in Cells(out), NEW o \in Inside(out, PageOf(side, out))
  PROVE  Sound(op, shapes, pages, PageOf(side, out), o, e)
<1>1. /\ n \in Nat /\ n >= 2 /\ Len(a) = n /\ Len(b) = n
      /\ (\A d \in 1 .. n - 2 : b[d] = a[d]) /\ b[n - 1] = a[n]
  BY DEF DotArgs
<1>2. out = Dot_output_shape(a, b)
  BY OutputOf
<1>3. out = [d \in 1 .. n |-> IF d = n THEN b[n] ELSE a[d]]
  BY <1>1, <1>2, DotShapes, ZenonT(40)
<1>4. QED
  BY <1>1, <1>3, DotSound

\* The second operand of dot, dimension by dimension.
LEMMA DotOperands ==
  ASSUME NEW a \in Shapes, NEW b \in Shapes, NEW n \in Nat, n >= 2, Len(a) = n, Len(b) = n,
         b = Batched(a, a[n], b[n])
  PROVE  (\A d \in 1 .. n - 2 : b[d] = a[d]) /\ b[n - 1] = a[n]
<1> DEFINE c == [d \in 1 .. n |-> IF d = n - 1 THEN a[n] ELSE IF d = n THEN b[n] ELSE a[d]]
<1>1. b = c
  <2> DEFINE f == Batched(a, a[n], b[n])
  <2>1. f = c
    BY DotShapes
  <2> HIDE DEF c
  <2>2. QED
    BY <2>1
<1>2. n - 1 \in 1 .. n /\ \A d \in 1 .. n - 2 : d \in 1 .. n /\ d # n - 1 /\ d # n
  OBVIOUS
<1>3. c[n - 1] = a[n] /\ \A d \in 1 .. n - 2 : c[d] = a[d]
  BY <1>2
<1> HIDE DEF c
<1>4. QED
  BY <1>1, <1>3

\* The page of one operand.
LEMMA OnePage ==
  ASSUME NEW side, NEW s, NEW shapes, shapes = << s >>
  PROVE  [p \in DOMAIN shapes |-> PageOf(side, shapes[p])] = << PageOf(side, s) >>
<1> DEFINE G(p) == PageOf(side, shapes[p])
           t == PageOf(side, s)
<1>1. DOMAIN shapes = 1 .. 1 /\ G(1) = t
  OBVIOUS
<1> HIDE DEF G, t
<1>2. [p \in DOMAIN shapes |-> G(p)] = << t >>
  BY <1>1
<1>3. QED
  BY <1>2 DEF G, t

\* The pages of two operands.
LEMMA TwoPages ==
  ASSUME NEW side, NEW a, NEW b, NEW shapes, shapes = << a, b >>
  PROVE  [p \in DOMAIN shapes |-> PageOf(side, shapes[p])] = << PageOf(side, a), PageOf(side, b) >>
<1> DEFINE G(p) == PageOf(side, shapes[p])
           t == PageOf(side, a)
           u == PageOf(side, b)
<1>1. DOMAIN shapes = 1 .. 2 /\ G(1) = t /\ G(2) = u
  OBVIOUS
<1> HIDE DEF G, t, u
<1>2. [p \in DOMAIN shapes |-> G(p)] = << t, u >>
  BY <1>1
<1>3. QED
  BY <1>2 DEF G, t, u

\* Whatever an op accepts, every output cell of every output block is sound.
LEMMA AcceptedSound ==
  ASSUME NEW op, NEW shapes, Accepts(op, shapes), NEW side \in Nat \ {0},
         NEW pages, pages = [p \in DOMAIN shapes |-> PageOf(side, shapes[p])],
         NEW out, out = output_shape(op, shapes),
         NEW e \in Cells(out), NEW o \in Inside(out, PageOf(side, out))
  PROVE  Sound(op, shapes, pages, PageOf(side, out), o, e)
<1>1. CASE op.kind \in Elementwise /\ \E s \in Shapes : shapes = << s, s >>
  <2>1. PICK s \in Shapes : shapes = << s, s >>
    BY <1>1
  <2> DEFINE page == PageOf(side, s)
  <2>2. out = s
    <3>1. out = shapes[1]
      BY <1>1, OutputOf
    <3>2. QED
      BY <2>1, <3>1
  <2>3. pages = << page, page >>
    BY <2>1, TwoPages
  <2>4. e \in Cells(s) /\ o \in Inside(s, page)
    BY <2>2
  <2> HIDE DEF page
  <2>5. Sound(op, shapes, pages, page, o, e)
    BY <1>1, <2>1, <2>3, <2>4, ElementwiseSound DEF page
  <2>6. QED
    BY <2>2, <2>5 DEF page
<1>2. CASE op.kind = "square" /\ \E s \in Shapes : shapes = << s >>
  <2>1. PICK s \in Shapes : shapes = << s >>
    BY <1>2
  <2> DEFINE page == PageOf(side, s)
  <2>2. out = s
    <3>1. out = shapes[1]
      BY <1>2, OutputOf
    <3>2. QED
      BY <2>1, <3>1
  <2>3. pages = << page >>
    BY <2>1, OnePage
  <2>4. e \in Cells(s) /\ o \in Inside(s, page)
    BY <2>2
  <2> HIDE DEF page
  <2>5. Sound(op, shapes, pages, page, o, e)
    BY <1>2, <2>1, <2>3, <2>4, SquareSound DEF page
  <2>6. QED
    BY <2>2, <2>5 DEF page
<1>3. CASE op.kind = "sum" /\ \E s \in Shapes : shapes = << s >>
  <2>1. PICK s \in Shapes : shapes = << s >>
    BY <1>3
  <2>2. pages = << PageOf(side, s) >>
    BY <2>1, OnePage
  <2>3. QED
    BY <1>3, <2>1, <2>2, SumSound
<1>4. CASE /\ op.kind = "transpose"
           /\ \E s \in Shapes : shapes = << s >> /\ (op.axes = << >> \/ Permutes(op.axes, s))
  <2>1. PICK s \in Shapes : shapes = << s >> /\ (op.axes = << >> \/ Permutes(op.axes, s))
    BY <1>4
  <2>2. out = Permute(s, op.axes)
    <3>1. output_shape(op, shapes) = Permute(shapes[1], op.axes)
      BY <1>4, OutputOf
    <3>2. QED
      BY <2>1, <3>1
  <2>3. DOMAIN shapes = 1 .. 1 /\ shapes[1] = s /\ pages[1] = PageOf(side, s)
    BY <2>1
  <2>4. QED
    BY <1>4, <2>1, <2>2, <2>3, TransposeSound
<1>5. CASE /\ op.kind = "dot"
           /\ \E a, b \in Shapes : /\ shapes = << a, b >> /\ Len(a) >= 2 /\ Len(b) = Len(a)
                                   /\ b = Batched(a, a[Len(a)], b[Len(a)])
  <2>1. PICK a \in Shapes, b \in Shapes :
          /\ shapes = << a, b >> /\ Len(a) >= 2 /\ Len(b) = Len(a)
          /\ b = Batched(a, a[Len(a)], b[Len(a)])
    BY <1>5
  <2> DEFINE n == Len(a)
  <2>2. n \in Nat /\ n >= 2 /\ Len(a) = n /\ Len(b) = n
    BY <2>1 DEF Shapes
  <2>3. (\A d \in 1 .. n - 2 : b[d] = a[d]) /\ b[n - 1] = a[n]
    <3>1. b = Batched(a, a[n], b[n])
      BY <2>1
    <3> HIDE DEF n
    <3>2. QED
      BY <2>2, <3>1, DotOperands
  <2>4. DOMAIN shapes = 1 .. 2 /\ shapes[1] = a /\ shapes[2] = b
        /\ pages[1] = PageOf(side, a) /\ pages[2] = PageOf(side, b)
    BY <2>1
  <2> HIDE DEF n
  <2>5. DotArgs(a, b, n)
    BY <2>2, <2>3 DEF DotArgs
  <2>6. output_shape(op, shapes) = out
    OBVIOUS
  <2>7. QED
    BY <1>5, <2>4, <2>5, <2>6, DotSoundArgs
<1>6. QED
  BY <1>1, <1>2, <1>3, <1>4, <1>5, AcceptedKinds

\* A transposed array has no empty dimension either.
LEMMA PermutedShape ==
  ASSUME NEW s \in Shapes, NEW axes, axes = << >> \/ Permutes(axes, s)
  PROVE  Permute(s, axes) \in Shapes
<1> DEFINE n == Len(s)
           T == Nat \ {0}
           r == Permute(s, axes)
<1>1. n \in Nat /\ DOMAIN s = 1 .. n /\ s \in [1 .. n -> T]
  BY DEF Shapes
<1>2. r \in [1 .. n -> T]
  <2> HIDE DEF T
  <2>1. CASE axes = << >>
    <3>1. r = [d \in 1 .. n |-> s[n + 1 - d]]
      BY <1>1, <2>1 DEF Permute, Reversed
    <3>2. \A d \in 1 .. n : n + 1 - d \in 1 .. n
      BY <1>1
    <3> HIDE DEF r, n
    <3>3. QED
      BY <1>1, <3>1, <3>2
  <2>2. CASE axes # << >> /\ Permutes(axes, s)
    <3>1. r = [d \in 1 .. n |-> s[axes[d]]]
      BY <1>1, <2>2 DEF Permute
    <3>2. \A d \in 1 .. n : axes[d] \in 1 .. n
      BY <1>1, <2>2 DEF Permutes
    <3> HIDE DEF r, n
    <3>3. QED
      BY <1>1, <3>1, <3>2
  <2>3. QED
    BY <2>1, <2>2
<1>3. r \in Seq(T)
  <2> HIDE DEF r, n, T
  <2>1. QED
    BY <1>1, <1>2
<1>4. QED
  BY <1>3 DEF Shapes

\* A product of matrices is such an array.
LEMMA ProductShape ==
  ASSUME NEW a \in Shapes, NEW b \in Shapes, Len(a) >= 2, Len(b) = Len(a)
  PROVE  Dot_output_shape(a, b) \in Shapes
<1> DEFINE n == Len(a)
           T == Nat \ {0}
           r == Dot_output_shape(a, b)
<1>1. n \in Nat /\ n >= 2 /\ Len(a) = n /\ Len(b) = n /\ a \in [1 .. n -> T] /\ b \in [1 .. n -> T]
  BY DEF Shapes
<1> HIDE DEF n, r
<1>2. r = [d \in 1 .. n |-> IF d = n THEN b[n] ELSE a[d]]
  BY <1>1, DotShapes, ZenonT(40) DEF r
<1>3. r \in [1 .. n -> T]
  <2> HIDE DEF T
  <2>1. QED
    BY <1>1, <1>2
<1>4. r \in Seq(T)
  <2> HIDE DEF T
  <2>1. QED
    BY <1>1, <1>3
<1>5. QED
  BY <1>4 DEF r, Shapes

\* The output of an op is an array with no empty dimension, for all operands it accepts.
LEMMA OutputShapes ==
  ASSUME NEW op, NEW shapes, Accepts(op, shapes)
  PROVE  output_shape(op, shapes) \in Shapes
<1>1. CASE op.kind \in Elementwise /\ \E s \in Shapes : shapes = << s, s >>
  BY <1>1, OutputOf
<1>2. CASE op.kind = "square" /\ \E s \in Shapes : shapes = << s >>
  BY <1>2, OutputOf
<1>3. CASE op.kind = "sum"
  <2>1. output_shape(op, shapes) = << >>
    BY <1>3, OutputOf
  <2>2. << >> \in Seq(Nat \ {0})
    OBVIOUS
  <2>3. QED
    BY <2>1, <2>2 DEF Shapes
<1>4. CASE /\ op.kind = "transpose"
           /\ \E s \in Shapes : shapes = << s >> /\ (op.axes = << >> \/ Permutes(op.axes, s))
  <2>1. PICK s \in Shapes : shapes = << s >> /\ (op.axes = << >> \/ Permutes(op.axes, s))
    BY <1>4
  <2>2. output_shape(op, shapes) = Permute(s, op.axes)
    <3>1. output_shape(op, shapes) = Permute(shapes[1], op.axes)
      BY <1>4, OutputOf
    <3>2. QED
      BY <2>1, <3>1
  <2>3. QED
    BY <2>1, <2>2, PermutedShape
<1>5. CASE /\ op.kind = "dot"
           /\ \E a, b \in Shapes : shapes = << a, b >> /\ Len(a) >= 2 /\ Len(b) = Len(a)
  <2>1. PICK a \in Shapes, b \in Shapes : shapes = << a, b >> /\ Len(a) >= 2 /\ Len(b) = Len(a)
    BY <1>5
  <2>2. output_shape(op, shapes) = Dot_output_shape(a, b)
    <3>1. output_shape(op, shapes) = Dot_output_shape(shapes[1], shapes[2])
      BY <1>5, OutputOf
    <3>2. QED
      BY <2>1, <3>1
  <2>3. QED
    BY <2>1, <2>2, ProductShape
<1>6. QED
  BY <1>1, <1>2, <1>3, <1>4, <1>5, AcceptedKinds

\* A list of lists of operands.
LEMMA ListOf ==
  ASSUME NEW T, NEW c \in Nat, c >= 1, NEW f, f = [m \in 1 .. c |-> f[m]],
         \A m \in 1 .. c : f[m] \in T
  PROVE  f \in Seq(T) /\ f # << >>
<1>1. f \in [1 .. c -> T] /\ DOMAIN f = 1 .. c
  OBVIOUS
<1>2. f \in Seq(T) /\ 1 \in DOMAIN f
  BY <1>1
<1>3. QED
  BY <1>2

\* The operands of one group as a function of the position.
LEMMA OperandTuples ==
  ASSUME NEW S, NEW u \in S, NEW v \in S
  PROVE  << u >> \in [1 .. 1 -> S] /\ << u, v >> \in [1 .. 2 -> S]
  OBVIOUS

\* A list of one group.
LEMMA OneGroup ==
  ASSUME NEW T, NEW t \in T
  PROVE  << t >> \in Seq(T) /\ << t >> # << >>
  OBVIOUS

\* index_map never gives an output block nothing to compute it from, and every group
\* has one block per operand.
LEMMA AcceptedGroups ==
  ASSUME NEW op, NEW shapes, Accepts(op, shapes), NEW side \in Nat \ {0},
         NEW pages, pages = [p \in DOMAIN shapes |-> PageOf(side, shapes[p])], NEW o
  PROVE  \E S : /\ index_map(op, shapes, pages, o) \in Seq([1 .. NumInputs(op) -> S])
               /\ index_map(op, shapes, pages, o) # << >>
<1> DEFINE g == index_map(op, shapes, pages, o)
<1>1. CASE op.kind \in Elementwise /\ NumInputs(op) = 2
  <2>1. g = << << o, o >> >>
    BY <1>1, ElementwiseParts
  <2>2. g \in Seq([1 .. 2 -> {o}]) /\ g # << >>
    BY <2>1, OperandTuples, OneGroup
  <2>3. QED
    BY <1>1, <2>2
<1>2. CASE op.kind = "square" /\ NumInputs(op) = 1
  <2>1. g = << << o >> >>
    BY <1>2, SquareParts
  <2>2. g \in Seq([1 .. 1 -> {o}]) /\ g # << >>
    BY <2>1, OperandTuples, OneGroup
  <2>3. QED
    BY <1>2, <2>2
<1>3. CASE op.kind = "transpose" /\ NumInputs(op) = 1
  <2> DEFINE u == Unpermute(o, op.axes)
  <2>1. g = << << u >> >>
    BY <1>3, TransposeParts
  <2> HIDE DEF u
  <2>2. g \in Seq([1 .. 1 -> {u}]) /\ g # << >>
    BY <2>1, OperandTuples, OneGroup
  <2>3. QED
    BY <1>3, <2>2
<1>4. CASE op.kind = "sum" /\ NumInputs(op) = 1 /\ \E s \in Shapes : shapes = << s >>
  <2>1. PICK s \in Shapes : shapes = << s >>
    BY <1>4
  <2> DEFINE page == PageOf(side, s)
             b == block_grid(s, page)
             S == Inside(s, page)
  <2>2. shapes[1] = s /\ pages[1] = page
    BY <2>1
  <2>3. g = Sum_index_map(b)
    <3>1. g = Sum_index_map(block_grid(shapes[1], pages[1]))
      BY <1>4, SumParts
    <3>2. QED
      BY <2>2, <3>1
  <2>4. b \in Seq(S) /\ b # << >>
    <3>1. page \in Shapes /\ Len(page) = Len(s)
      BY PageFacts
    <3>2. QED
      BY <3>1, GridLists
  <2> HIDE DEF b, S, g
  <2>5. Len(b) \in Nat /\ Len(b) >= 1 /\ DOMAIN b = 1 .. Len(b) /\ \A m \in 1 .. Len(b) : b[m] \in S
    BY <2>4
  <2>6. g = [m \in 1 .. Len(b) |-> g[m]] /\ \A m \in 1 .. Len(b) : g[m] = << b[m] >>
    BY <2>3, <2>5 DEF Sum_index_map
  <2>7. \A m \in 1 .. Len(b) : g[m] \in [1 .. 1 -> S]
    <3>1. \A m \in 1 .. Len(b) : << b[m] >> \in [1 .. 1 -> S]
      BY <2>5, OperandTuples
    <3>2. QED
      BY <2>6, <3>1
  <2> DEFINE T == [1 .. 1 -> S]
  <2> HIDE DEF T
  <2>8. g \in Seq(T) /\ g # << >>
    BY <2>5, <2>6, <2>7, ListOf DEF T
  <2>9. QED
    BY <1>4, <2>8 DEF g, T
<1>5. CASE /\ op.kind = "dot" /\ NumInputs(op) = 2
           /\ \E a, b \in Shapes : shapes = << a, b >> /\ Len(a) >= 2
  <2>1. PICK a \in Shapes, b \in Shapes : shapes = << a, b >> /\ Len(a) >= 2
    BY <1>5
  <2> DEFINE n == Len(a)
             page == PageOf(side, a)
             count == k_blocks(shapes, pages)
             left(i) == Batched(o, o[Len(o) - 1], i - 1)
             right(i) == Batched(o, i - 1, o[Len(o)])
             S == {left(i) : i \in 1 .. count} \cup {right(i) : i \in 1 .. count}
  <2>2. count \in Nat /\ count >= 1
    <3>1. n \in Nat /\ n >= 2 /\ shapes[1] = a /\ pages[1] = page
      BY <2>1 DEF Shapes
    <3>2. Len(page) = n /\ a[n] \in Nat \ {0} /\ page[n] \in Nat \ {0}
      BY <3>1, PageFacts
    <3> HIDE DEF n, page
    <3>3. count = CeilDiv(a[n], page[n])
      BY <3>1, <3>2 DEF k_blocks, n
    <3>4. QED
      BY <3>2, <3>3, CeilDivIs
  <2>3. g = Dot_index_map(count, o)
    BY <1>5, DotParts
  <2> HIDE DEF count, g
  <2>4. g = [i \in 1 .. count |-> << left(i), right(i) >>]
    BY <2>3 DEF Dot_index_map
  <2>5. \A i \in 1 .. count : left(i) \in S /\ right(i) \in S
    OBVIOUS
  <2> HIDE DEF left, right, S
  <2>6. g = [i \in 1 .. count |-> g[i]] /\ \A i \in 1 .. count : g[i] \in [1 .. 2 -> S]
    <3>1. \A i \in 1 .. count : << left(i), right(i) >> \in [1 .. 2 -> S]
      BY <2>5
    <3>2. QED
      BY <2>4, <3>1
  <2> DEFINE T == [1 .. 2 -> S]
  <2> HIDE DEF T
  <2>7. g \in Seq(T) /\ g # << >>
    BY <2>2, <2>6, ListOf DEF T
  <2>8. QED
    BY <1>5, <2>7 DEF g, T
<1>6. QED
  BY <1>1, <1>2, <1>3, <1>4, <1>5, AcceptedKinds

-----------------------------------------------------------------------------
(***************************************************************************)
(* The gradients: backward_block is the derivative of forward_block on     *)
(* every group of blocks (Adjoint), one lemma per kind of op; the groups   *)
(* that index_map gives the output blocks add up to the derivative of the  *)
(* whole-array op (GradientPartsBelong, GradientPartsCover,                *)
(* GradientPartsOnce).                                                     *)
(***************************************************************************)

\* For the block b of operand p and the block d of d_out: every cell that a term of the
\* group's forward_block result takes from operand p lies in b.
Touches(op, shapes, pages, d, idxs, p, b) ==
  \A e \in Cells(Extents(d)) : \A t \in forward_block(op, shapes, pages, idxs, e) :
    \E l \in Cells(Extents(b)) : t[p] = At(b, l)

\* backward_block gives a cell of b the cells of d whose terms it is in, each with what the
\* term multiplies it with.
Adjoint(op, shapes, pages, d, idxs, p, b) ==
  \A l \in Cells(Extents(b)) : \A y :
    y \in backward_block(op, shapes, pages, d, idxs, p, l) <=>
      \E e \in Cells(Extents(d)) : \E t \in forward_block(op, shapes, pages, idxs, e) :
        t[p] = At(b, l) /\ y = << At(d, e), Cofactor(op, t, p) >>

\* Two offsets of one block are different cells.
LEMMA OffsetsDiffer ==
  ASSUME NEW n \in Nat, NEW i, NEW p, NEW l, NEW m,
         \A d \in 1 .. n : i[d] \in Int /\ p[d] \in Int,
         l \in [1 .. n -> Int], m \in [1 .. n -> Int],
         Global(i, p, l) = Global(i, p, m)
  PROVE  l = m
<1>1. ASSUME NEW d \in 1 .. n PROVE l[d] = m[d]
  <2> DEFINE c == i[d] * p[d]
  <2>1. c \in Int
    OBVIOUS
  <2>2. Global(i, p, l)[d] = c + l[d] /\ Global(i, p, m)[d] = c + m[d]
    BY DEF Global
  <2> HIDE DEF c
  <2>3. QED
    BY <2>1, <2>2
<1>2. QED
  BY <1>1

\* The offsets within a block, and what the block is given as.
LEMMA BlockOf ==
  ASSUME NEW s \in Shapes, NEW page \in Shapes, Len(page) = Len(s), NEW i \in Inside(s, page),
         NEW n, n = Len(s)
  PROVE  /\ n \in Nat /\ Extents(Blk(i, page, s)) = BlockShape(i, page, s)
         /\ BlockShape(i, page, s) \in [1 .. n -> Nat \ {0}]
         /\ DOMAIN BlockShape(i, page, s) = 1 .. n
         /\ \A d \in 1 .. n : i[d] \in Nat /\ page[d] \in Nat /\ s[d] \in Nat
         /\ \A l : l \in Cells(BlockShape(i, page, s)) <=>
              l \in [1 .. n -> Nat] /\ \A d \in 1 .. n : l[d] < BlockShape(i, page, s)[d]
         /\ \A l : At(Blk(i, page, s), l) = Global(i, page, l)
<1> DEFINE B == BlockShape(i, page, s)
<1>1. B \in Shapes /\ DOMAIN B = DOMAIN s
  BY BlockCells
<1>2. n \in Nat /\ DOMAIN s = 1 .. n /\ \A d \in 1 .. n : i[d] \in Nat /\ page[d] \in Nat /\ s[d] \in Nat
  <2>1. n \in Nat
    BY DEF Shapes
  <2>2. DOMAIN s = 1 .. n /\ \A d \in 1 .. n : page[d] \in Nat /\ s[d] \in Nat
    BY <2>1, ShapeEntries
  <2>3. i \in [DOMAIN s -> Nat]
    BY DEF Inside
  <2>4. QED
    BY <2>1, <2>2, <2>3
<1> HIDE DEF B
<1>3. B \in [1 .. n -> Nat \ {0}] /\ DOMAIN B = 1 .. n /\ B \in Seq(Nat)
  BY <1>1, <1>2 DEF Shapes
<1>4. Cells(B) = {x \in [DOMAIN B -> Nat] : \A d \in DOMAIN B : x[d] < B[d]}
  BY <1>3, CellsAre
<1>5. Extents(Blk(i, page, s)) = BlockShape(i, page, s)
      /\ \A l : At(Blk(i, page, s), l) = Global(i, page, l)
  BY DEF Extents, Blk, At
<1>6. \A l : l \in Cells(B) <=> l \in [1 .. n -> Nat] /\ \A d \in 1 .. n : l[d] < B[d]
  BY <1>3, <1>4
<1>7. QED
  BY <1>2, <1>3, <1>5, <1>6 DEF B

\* The offsets X of block b are different cells.
Distinct(b, X) == \A l, m \in X : At(b, l) = At(b, m) => l = m

\* A cell of a block comes from one offset.
LEMMA OneOffset ==
  ASSUME NEW s \in Shapes, NEW page \in Shapes, Len(page) = Len(s), NEW i \in Inside(s, page),
         NEW b, b = Blk(i, page, s)
  PROVE  Distinct(b, Cells(Extents(b)))
<1> DEFINE n == Len(s)
           X == BlockShape(i, page, s)
<1> SUFFICES ASSUME NEW l \in Cells(X), NEW m \in Cells(X), Global(i, page, l) = Global(i, page, m)
             PROVE  l = m
  BY BlockOf DEF Distinct
<1>1. /\ n \in Nat /\ \A d \in 1 .. n : i[d] \in Int /\ page[d] \in Int
      /\ l \in [1 .. n -> Nat] /\ m \in [1 .. n -> Nat]
  BY BlockOf
<1> HIDE DEF n
<1>2. l \in [1 .. n -> Int] /\ m \in [1 .. n -> Int]
  BY <1>1
<1>3. QED
  BY <1>1, <1>2, OffsetsDiffer

\* The cofactors of each kind, taken out of the CASE over the ops.
LEMMA Cofactors ==
  ASSUME NEW op, NEW t, NEW p
  PROVE  /\ op.kind \in {"mul", "dot"} => Cofactor(op, t, p) = t[3 - p]
         /\ op.kind = "square" => Cofactor(op, t, p) = t[1]
         /\ op.kind \in {"add", "sum", "transpose"} => Cofactor(op, t, p) = << >>
  BY DEF Cofactor

\* backward_block of each kind, taken out of the CASE over the ops.
LEMMA AddDerivative ==
  ASSUME NEW op, op.kind = "add", NEW shapes, NEW pages, NEW d, NEW idxs, NEW p, NEW l
  PROVE  backward_block(op, shapes, pages, d, idxs, p, l) = { << At(d, l), << >> >> }
  BY DEF backward_block, Add_backward

\* The same for mul.
LEMMA MulDerivative ==
  ASSUME NEW op, op.kind = "mul", NEW shapes, NEW pages, NEW d, NEW idxs, NEW p, NEW l
  PROVE  backward_block(op, shapes, pages, d, idxs, p, l)
           = { << At(d, l), At(Blocks(shapes, pages, idxs)[3 - p], l) >> }
  BY DEF backward_block, Mul_backward

\* The same for square.
LEMMA SquareDerivative ==
  ASSUME NEW op, op.kind = "square", NEW shapes, NEW pages, NEW d, NEW idxs, NEW p, NEW l
  PROVE  backward_block(op, shapes, pages, d, idxs, p, l)
           = { << At(d, l), At(Blocks(shapes, pages, idxs)[1], l) >> }
  BY DEF backward_block, Square_backward

\* The same for sum.
LEMMA SumDerivative ==
  ASSUME NEW op, op.kind = "sum", NEW shapes, NEW pages, NEW d, NEW idxs, NEW p, NEW l
  PROVE  backward_block(op, shapes, pages, d, idxs, p, l) = { << At(d, << >>), << >> >> }
  BY DEF backward_block, Sum_backward

\* The same for transpose.
LEMMA TransposeDerivative ==
  ASSUME NEW op, op.kind = "transpose", NEW shapes, NEW pages, NEW d, NEW idxs, NEW p, NEW l
  PROVE  backward_block(op, shapes, pages, d, idxs, p, l)
           = { << At(d, Unpermute(l, ArgSort(op.axes))), << >> >> }
  BY DEF backward_block, Transpose_backward

\* The same for dot.
LEMMA DotDerivative ==
  ASSUME NEW op, op.kind = "dot", NEW shapes, NEW pages, NEW d, NEW idxs, NEW p, NEW l
  PROVE  backward_block(op, shapes, pages, d, idxs, p, l)
           = Dot_backward(d, Blocks(shapes, pages, idxs)[1], Blocks(shapes, pages, idxs)[2], p, l)
  BY DEF backward_block

\* forward_block of add, sub and mul.
LEMMA ElementwiseForward ==
  ASSUME NEW op, op.kind \in Elementwise, NEW shapes, NEW pages, NEW idxs, NEW e
  PROVE  forward_block(op, shapes, pages, idxs, e)
           = { << At(Blocks(shapes, pages, idxs)[1], e), At(Blocks(shapes, pages, idxs)[2], e) >> }
  BY DEF Elementwise, forward_block, Add_forward

\* What add, sub and mul give a cell of operand p, with the blocks of both.
LEMMA ElementwiseBackward ==
  ASSUME NEW op, op.kind \in Elementwise, NEW shapes, NEW pages, NEW idxs, NEW d, NEW p \in 1 .. 2,
         NEW l, NEW blk, blk = Blocks(shapes, pages, idxs),
         NEW t, t = << At(blk[1], l), At(blk[2], l) >>
  PROVE  backward_block(op, shapes, pages, d, idxs, p, l) = { << At(d, l), Cofactor(op, t, p) >> }
<1> DEFINE Grad == backward_block(op, shapes, pages, d, idxs, p, l)
<1>1. CASE op.kind = "add"
  <2>1. Grad = { << At(d, l), << >> >> }
    BY <1>1, AddDerivative
  <2>2. Cofactor(op, t, p) = << >>
    BY <1>1, Cofactors
  <2> HIDE DEF Grad
  <2>3. QED
    BY <2>1, <2>2 DEF Grad
<1>2. CASE op.kind = "mul"
  <2>1. Grad = { << At(d, l), At(blk[3 - p], l) >> }
    BY <1>2, MulDerivative
  <2>2. Cofactor(op, t, p) = t[3 - p]
    BY <1>2, Cofactors
  <2>3. t[3 - p] = At(blk[3 - p], l)
    <3>1. 3 - p = 1 \/ 3 - p = 2
      OBVIOUS
    <3>2. t[1] = At(blk[1], l) /\ t[2] = At(blk[2], l)
      OBVIOUS
    <3> HIDE DEF Grad
    <3>3. QED
      BY <3>1, <3>2
  <2> HIDE DEF Grad
  <2>4. QED
    BY <2>1, <2>2, <2>3 DEF Grad
<1>3. QED
  BY <1>1, <1>2 DEF Elementwise

\* add, sub and mul: the cell of d_out at the same place.
LEMMA ElementwiseAdjoint ==
  ASSUME NEW op, op.kind \in Elementwise, NEW s \in Shapes, NEW page \in Shapes, Len(page) = Len(s),
         NEW i \in Inside(s, page), NEW d, d = Blk(i, page, s), NEW p \in 1 .. 2,
         NEW shapes, NEW pages, NEW idxs,
         Blocks(shapes, pages, idxs)[1] = d, Blocks(shapes, pages, idxs)[2] = d
  PROVE  Touches(op, shapes, pages, d, idxs, p, d) /\ Adjoint(op, shapes, pages, d, idxs, p, d)
<1> DEFINE X == Cells(Extents(d))
           Out(e) == forward_block(op, shapes, pages, idxs, e)
           Grad(l) == backward_block(op, shapes, pages, d, idxs, p, l)
<1>1. \A e, l \in X : At(d, e) = At(d, l) => e = l
  BY OneOffset DEF Distinct
<1> DEFINE blk == Blocks(shapes, pages, idxs)
           T(e) == << At(d, e), At(d, e) >>
<1>2. \A e : << At(blk[1], e), At(blk[2], e) >> = T(e) /\ T(e)[p] = At(d, e)
  OBVIOUS
<1> HIDE DEF T
<1>3. \A e : Out(e) = { T(e) }
  <2>1. \A e : Out(e) = { << At(blk[1], e), At(blk[2], e) >> }
    BY ElementwiseForward
  <2> HIDE DEF Out, blk
  <2>2. QED
    BY <1>2, <2>1
<1>4. \A l : Grad(l) = { << At(d, l), Cofactor(op, T(l), p) >> }
  <2>1. ASSUME NEW l PROVE Grad(l) = { << At(d, l), Cofactor(op, T(l), p) >> }
    <3>1. T(l) = << At(blk[1], l), At(blk[2], l) >>
      BY <1>2
    <3>2. QED
      BY <3>1, ElementwiseBackward
  <2>2. QED
    BY <2>1
<1> HIDE DEF Out, Grad, X, blk
<1>5. \A e \in X : \A t \in Out(e) : \E l \in X : t[p] = At(d, l)
  BY <1>2, <1>3
<1>6. ASSUME NEW l \in X, NEW y
      PROVE  y \in Grad(l) <=> \E e \in X : \E t \in Out(e) :
                                 t[p] = At(d, l) /\ y = << At(d, e), Cofactor(op, t, p) >>
  BY <1>1, <1>2, <1>3, <1>4
<1>7. QED
  BY <1>5, <1>6 DEF Touches, Adjoint, Out, Grad, X

\* square: the cell of d_out at the same place, with the cell itself.
LEMMA SquareAdjoint ==
  ASSUME NEW op, op.kind = "square", NEW s \in Shapes, NEW page \in Shapes, Len(page) = Len(s),
         NEW i \in Inside(s, page), NEW d, d = Blk(i, page, s),
         NEW shapes, NEW pages, NEW idxs, Blocks(shapes, pages, idxs)[1] = d
  PROVE  Touches(op, shapes, pages, d, idxs, 1, d) /\ Adjoint(op, shapes, pages, d, idxs, 1, d)
<1> DEFINE X == Cells(Extents(d))
           Out(e) == forward_block(op, shapes, pages, idxs, e)
           Grad(l) == backward_block(op, shapes, pages, d, idxs, 1, l)
           T(e) == << At(d, e) >>
           blk == Blocks(shapes, pages, idxs)
<1>1. \A e, l \in X : At(d, e) = At(d, l) => e = l
  BY OneOffset DEF Distinct
<1>2. \A e : T(e)[1] = At(d, e)
  OBVIOUS
<1>3. ASSUME NEW e PROVE Out(e) = { T(e) }
  <2>1. Out(e) = Square_forward(blk[1], e)
    BY SquareKernel
  <2> HIDE DEF Out, blk
  <2>2. QED
    BY <2>1 DEF Square_forward, blk
<1>4. ASSUME NEW l PROVE Grad(l) = { << At(d, l), Cofactor(op, T(l), 1) >> }
  <2>1. Grad(l) = { << At(d, l), At(blk[1], l) >> }
    BY SquareDerivative
  <2>2. Cofactor(op, T(l), 1) = T(l)[1]
    BY Cofactors
  <2> HIDE DEF Grad, T, blk
  <2>3. QED
    BY <1>2, <2>1, <2>2 DEF blk
<1> HIDE DEF Out, Grad, X, T, blk
<1>5. \A e \in X : \A t \in Out(e) : \E l \in X : t[1] = At(d, l)
  BY <1>2, <1>3
<1>6. ASSUME NEW l \in X, NEW y
      PROVE  y \in Grad(l) <=> \E e \in X : \E t \in Out(e) :
                                 t[1] = At(d, l) /\ y = << At(d, e), Cofactor(op, t, 1) >>
  BY <1>1, <1>2, <1>3, <1>4
<1>7. QED
  BY <1>5, <1>6 DEF Touches, Adjoint, Out, Grad, X

\* forward_block of sum.
LEMMA SumForward ==
  ASSUME NEW op, op.kind = "sum", NEW shapes, NEW pages, NEW idxs, NEW l
  PROVE  forward_block(op, shapes, pages, idxs, l) = Sum_forward(Blocks(shapes, pages, idxs)[1])
  BY DEF Elementwise, forward_block

\* A scalar has one cell.
LEMMA ScalarCells == Cells(<< >>) = {<< >>}
<1> DEFINE s == << >>
<1>1. s \in Seq(Nat) /\ DOMAIN s = 1 .. 0 /\ s \in [1 .. 0 -> Nat]
  <2>1. s \in Seq(Nat) /\ Len(s) = 0
    OBVIOUS
  <2> HIDE DEF s
  <2>2. DOMAIN s = 1 .. 0 /\ s \in [1 .. Len(s) -> Nat]
    BY <2>1
  <2>3. QED
    BY <2>1, <2>2
<1>2. ASSUME NEW x \in [1 .. 0 -> Nat] PROVE x = s
  <2>1. x \in Seq(Nat) /\ Len(x) = 0
    OBVIOUS
  <2>2. QED
    BY <2>1
<1> HIDE DEF s
<1>3. Cells(s) = {x \in [1 .. 0 -> Nat] : \A d \in 1 .. 0 : x[d] < s[d]}
  BY <1>1, CellsAre
<1>4. \A x : x \in [1 .. 0 -> Nat] <=> x = s
  BY <1>1, <1>2
<1>5. \A d : d \notin 1 .. 0
  OBVIOUS
<1>6. \A x : x \in Cells(s) <=> x = s
  BY <1>3, <1>4, <1>5
<1>7. QED
  BY <1>6 DEF s

\* sum: the one cell of d_out.
LEMMA SumAdjoint ==
  ASSUME NEW op, op.kind = "sum", NEW s \in Shapes, NEW page \in Shapes, Len(page) = Len(s),
         NEW i \in Inside(s, page), NEW b, b = Blk(i, page, s), NEW d, Extents(d) = << >>,
         NEW shapes, NEW pages, NEW idxs, Blocks(shapes, pages, idxs)[1] = b
  PROVE  Touches(op, shapes, pages, d, idxs, 1, b) /\ Adjoint(op, shapes, pages, d, idxs, 1, b)
<1> DEFINE X == Cells(Extents(b))
           Z == Cells(Extents(d))
           Out(e) == forward_block(op, shapes, pages, idxs, e)
           Grad(l) == backward_block(op, shapes, pages, d, idxs, 1, l)
<1>1. Z = {<< >>}
  BY ScalarCells
<1>2. \A e, t : t \in Out(e) <=> \E m \in X : t = << At(b, m) >>
  <2>1. \A e : Out(e) = Sum_forward(b)
    BY SumForward
  <2> HIDE DEF Out
  <2>2. QED
    BY <2>1 DEF Sum_forward
<1>3. \A m : << At(b, m) >>[1] = At(b, m)
  OBVIOUS
<1>4. \A l : Grad(l) = { << At(d, << >>), << >> >> }
  BY SumDerivative
<1>5. \A t : Cofactor(op, t, 1) = << >>
  BY Cofactors
<1> HIDE DEF Out, Grad, X, Z
<1>6. \A e \in Z : \A t \in Out(e) : \E l \in X : t[1] = At(b, l)
  BY <1>2, <1>3
<1>7. ASSUME NEW l \in X, NEW y
      PROVE  y \in Grad(l) <=> \E e \in Z : \E t \in Out(e) :
                                 t[1] = At(b, l) /\ y = << At(d, e), Cofactor(op, t, 1) >>
  <2>1. << At(b, l) >> \in Out(<< >>) /\ << At(b, l) >>[1] = At(b, l)
    BY <1>2, <1>3
  <2>2. y \in Grad(l) <=> y = << At(d, << >>), << >> >>
    BY <1>4
  <2>3. QED
    BY <1>1, <1>5, <2>1, <2>2
<1>8. QED
  BY <1>6, <1>7 DEF Touches, Adjoint, Out, Grad, X, Z

\* Undoing a permutation by the inverse permutation is permuting.
LEMMA ArgSortInverts ==
  ASSUME NEW n \in Nat, NEW s \in Shapes, Len(s) = n,
         NEW axes, axes = << >> \/ Permutes(axes, s), NEW l, DOMAIN l = 1 .. n
  PROVE  Unpermute(l, ArgSort(axes)) = Permute(l, axes)
<1> DEFINE g == ArgSort(axes)
<1>1. DOMAIN s = 1 .. n
  BY DEF Shapes
<1>2. CASE axes = << >>
  <2>1. g = << >>
    BY <1>2 DEF ArgSort
  <2> HIDE DEF g
  <2>2. QED
    BY <1>2, <2>1 DEF Permute, Unpermute, g
<1>3. CASE Permutes(axes, s) /\ axes # << >>
  <2>1. /\ axes \in [1 .. n -> 1 .. n] /\ DOMAIN axes = 1 .. n
        /\ \A d \in 1 .. n : \E i \in 1 .. n : axes[i] = d
        /\ \A i, j \in 1 .. n : axes[i] = axes[j] => i = j
    BY <1>1, <1>3 DEF Permutes
  <2>2. n # 0
    BY <1>3, <2>1
  <2>3. DOMAIN g = 1 .. n /\ g # << >>
    <3>1. DOMAIN g = 1 .. n
      BY <2>1 DEF ArgSort
    <3>2. 1 \in DOMAIN g
      BY <2>2, <3>1
    <3> HIDE DEF g
    <3>3. QED
      BY <3>1, <3>2
  <2>4. ASSUME NEW d \in 1 .. n PROVE g[d] \in 1 .. n /\ axes[g[d]] = d
    <3>1. \E j \in 1 .. n : axes[j] = d
      BY <2>1
    <3>2. g[d] = CHOOSE j \in 1 .. n : axes[j] = d
      BY <2>1 DEF AxisIndex, ArgSort
    <3> HIDE DEF g
    <3>3. QED
      BY <3>1, <3>2
  <2> HIDE DEF g
  <2>5. ASSUME NEW i \in 1 .. n PROVE AxisIndex(g, i) = axes[i]
    <3>1. axes[i] \in 1 .. n /\ g[axes[i]] = i
      BY <2>1, <2>4
    <3>2. \A j \in 1 .. n : g[j] = i => j = axes[i]
      BY <2>4
    <3>3. AxisIndex(g, i) = CHOOSE j \in 1 .. n : g[j] = i
      BY <2>3 DEF AxisIndex
    <3>4. QED
      BY <3>1, <3>2, <3>3
  <2>6. Unpermute(l, g) = [i \in 1 .. n |-> l[AxisIndex(g, i)]]
    BY <2>3 DEF Unpermute
  <2>7. Permute(l, axes) = [i \in 1 .. n |-> l[axes[i]]]
    BY <1>3 DEF Permute
  <2>8. QED
    BY <2>5, <2>6, <2>7 DEF g
<1>4. QED
  BY <1>2, <1>3

\* forward_block of transpose.
LEMMA TransposeForward ==
  ASSUME NEW op, op.kind = "transpose", NEW shapes, NEW pages, NEW idxs, NEW l
  PROVE  forward_block(op, shapes, pages, idxs, l)
           = { << At(Blocks(shapes, pages, idxs)[1], Unpermute(l, op.axes)) >> }
  BY DEF Elementwise, forward_block, Transpose_forward

\* transpose: the cell of d_out at the permuted place.
LEMMA TransposeAdjoint ==
  ASSUME NEW op, op.kind = "transpose", NEW s \in Shapes, NEW page \in Shapes, Len(page) = Len(s),
         op.axes = << >> \/ Permutes(op.axes, s),
         NEW i \in Inside(s, page), NEW b, b = Blk(i, page, s),
         NEW d, Extents(d) = Permute(Extents(b), op.axes),
         NEW shapes, NEW pages, NEW idxs, Blocks(shapes, pages, idxs)[1] = b
  PROVE  Touches(op, shapes, pages, d, idxs, 1, b) /\ Adjoint(op, shapes, pages, d, idxs, 1, b)
<1> DEFINE n == Len(s)
           axes == op.axes
           B == Extents(b)
           D == Extents(d)
           X == Cells(B)
           Z == Cells(D)
           Out(e) == forward_block(op, shapes, pages, idxs, e)
           Grad(l) == backward_block(op, shapes, pages, d, idxs, 1, l)
           u(e) == Unpermute(e, axes)
           r(l) == Permute(l, axes)
<1>1. /\ n \in Nat /\ B \in [1 .. n -> Nat \ {0}]
      /\ \A l : l \in X <=> l \in [1 .. n -> Nat] /\ \A j \in 1 .. n : l[j] < B[j]
  BY BlockOf
<1>2. \A e, l \in X : At(b, e) = At(b, l) => e = l
  BY OneOffset DEF Distinct
<1>3. PICK f, g : Inverses(f, g, n) /\ Follows(axes, f, g, n)
  BY <1>1, PermutationOf
<1>4. \A e : Out(e) = { << At(b, u(e)) >> }
  BY TransposeForward
<1>5. ASSUME NEW l \in [1 .. n -> Nat]
      PROVE  Grad(l) = { << At(d, r(l)), << >> >> }
  <2>1. Grad(l) = { << At(d, Unpermute(l, ArgSort(op.axes))), << >> >> }
    BY TransposeDerivative
  <2>2. Unpermute(l, ArgSort(axes)) = r(l)
    BY <1>1, ArgSortInverts
  <2> HIDE DEF Grad, r
  <2>3. QED
    BY <2>1, <2>2
<1>6. \A t : Cofactor(op, t, 1) = << >>
  BY Cofactors
<1>7. D = Permute(B, axes)
  OBVIOUS
<1> HIDE DEF n, axes, B, D, Out, Grad
<1>8. ASSUME NEW l \in [1 .. n -> Nat]
      PROVE  r(l) = [j \in 1 .. n |-> l[f[j]]] /\ u(l) = [j \in 1 .. n |-> l[g[j]]]
  <2>1. DOMAIN l = 1 .. n /\ l \in Seq(Int)
    BY <1>1
  <2>2. QED
    BY <1>3, <2>1 DEF Follows
<1>9. B \in [1 .. n -> Nat] /\ D = [j \in 1 .. n |-> B[f[j]]] /\ D \in Seq(Nat) /\ DOMAIN D = 1 .. n
  <2>1. B \in [1 .. n -> Nat]
    BY <1>1
  <2>2. D = [j \in 1 .. n |-> B[f[j]]]
    BY <1>7, <1>8, <2>1
  <2>3. \A j \in 1 .. n : f[j] \in 1 .. n
    BY <1>3 DEF Inverses
  <2>4. D \in [1 .. n -> Nat]
    BY <2>1, <2>2, <2>3
  <2>5. QED
    BY <1>1, <2>1, <2>2, <2>4
<1>10. \A e : e \in Z <=> e \in [1 .. n -> Nat] /\ \A j \in 1 .. n : e[j] < D[j]
  BY <1>9, CellsAre
<1>11. \A j \in 1 .. n : f[j] \in 1 .. n /\ g[j] \in 1 .. n /\ f[g[j]] = j /\ g[f[j]] = j
  BY <1>3 DEF Inverses
<1> HIDE DEF u, r, X, Z
<1>12. ASSUME NEW e \in Z PROVE u(e) \in X
  <2>1. e \in [1 .. n -> Nat] /\ \A j \in 1 .. n : e[j] < D[j]
    BY <1>10
  <2>2. u(e) = [j \in 1 .. n |-> e[g[j]]] /\ \A j \in 1 .. n : e[g[j]] \in Nat /\ e[g[j]] < B[j]
    BY <1>8, <1>9, <1>11, <2>1
  <2>3. u(e) \in [1 .. n -> Nat] /\ \A j \in 1 .. n : u(e)[j] < B[j]
    BY <2>2
  <2>4. QED
    BY <1>1, <2>3
<1>13. ASSUME NEW l \in X PROVE r(l) \in Z
  <2>1. l \in [1 .. n -> Nat] /\ \A j \in 1 .. n : l[j] < B[j]
    BY <1>1
  <2>2. r(l) = [j \in 1 .. n |-> l[f[j]]] /\ \A j \in 1 .. n : l[f[j]] \in Nat /\ l[f[j]] < D[j]
    BY <1>8, <1>9, <1>11, <2>1
  <2>3. r(l) \in [1 .. n -> Nat] /\ \A j \in 1 .. n : r(l)[j] < D[j]
    BY <2>2
  <2>4. QED
    BY <1>10, <2>3
<1>14. ASSUME NEW e \in Z, NEW l \in X PROVE u(e) = l <=> e = r(l)
  <2>1. e \in [1 .. n -> Nat] /\ l \in [1 .. n -> Nat]
    BY <1>1, <1>10
  <2>2. u(e) = [j \in 1 .. n |-> e[g[j]]] /\ r(l) = [j \in 1 .. n |-> l[f[j]]]
    BY <1>8, <2>1
  <2>3. u(e) = l <=> \A j \in 1 .. n : e[g[j]] = l[j]
    BY <2>1, <2>2
  <2>4. e = r(l) <=> \A j \in 1 .. n : e[j] = l[f[j]]
    BY <2>1, <2>2
  <2>5. (\A j \in 1 .. n : e[g[j]] = l[j]) <=> \A j \in 1 .. n : e[j] = l[f[j]]
    BY <1>11
  <2>6. QED
    BY <2>3, <2>4, <2>5
<1>15. \A e \in Z : \A t \in Out(e) : \E l \in X : t[1] = At(b, l)
  BY <1>4, <1>12
<1>16. ASSUME NEW l \in X, NEW y
       PROVE  y \in Grad(l) <=> \E e \in Z : \E t \in Out(e) :
                                 t[1] = At(b, l) /\ y = << At(d, e), Cofactor(op, t, 1) >>
  <2>1. y \in Grad(l) <=> y = << At(d, r(l)), << >> >>
    <3>1. l \in [1 .. n -> Nat]
      BY <1>1
    <3>2. QED
      BY <1>5, <3>1
  <2>2. ASSUME NEW e \in Z, NEW t \in Out(e) PROVE t[1] = At(b, l) <=> e = r(l)
    <3>1. t = << At(b, u(e)) >>
      BY <1>4
    <3>2. t[1] = At(b, u(e))
      BY <3>1
    <3>3. QED
      BY <1>2, <1>12, <1>14, <3>2
  <2>3. \A e : \E t : t \in Out(e)
    BY <1>4
  <2>4. QED
    BY <1>6, <1>13, <2>1, <2>2, <2>3
<1>17. QED
  BY <1>15, <1>16 DEF Touches, Adjoint, Out, Grad, X, Z, B, D

\* A sequence with one entry replaced.
Put(l, m, x) == [l EXCEPT ![m] = x]

\* The offsets within a block of shape X.
Offsets(X, n) == {l \in [1 .. n -> Nat] : \A d \in 1 .. n : l[d] < X[d]}

\* The coordinates of matmul are the free ones with one or both of the last two replaced.
LEMMA BatchedPuts ==
  ASSUME NEW n \in Nat, n >= 2, NEW l \in [1 .. n -> Nat], NEW x \in Nat, NEW y \in Nat
  PROVE  /\ Batched(l, l[n - 1], x) = Put(l, n, x) /\ Batched(l, x, l[n]) = Put(l, n - 1, x)
         /\ Batched(l, x, y) = Put(Put(l, n - 1, x), n, y)
         /\ Batched(l, x, y) = Put(Put(l, n, y), n - 1, x)
<1>1. n - 1 \in 1 .. n /\ n \in 1 .. n /\ l \in [1 .. n -> Int] /\ n - 1 # n /\ x \in Int /\ y \in Int
  OBVIOUS
<1>2. /\ Batched(l, l[n - 1], x) = [d \in 1 .. n |-> IF d = n THEN x ELSE l[d]]
      /\ Batched(l, x, l[n]) = [d \in 1 .. n |-> IF d = n - 1 THEN x ELSE l[d]]
  BY <1>1, BatchedEnds, ZenonT(40)
<1>3. Batched(l, x, y) = [d \in 1 .. n |-> IF d = n - 1 THEN x ELSE IF d = n THEN y ELSE l[d]]
  BY <1>1, BatchedIs
<1>4. /\ Put(l, n, x) = [d \in 1 .. n |-> IF d = n THEN x ELSE l[d]]
      /\ Put(l, n - 1, x) = [d \in 1 .. n |-> IF d = n - 1 THEN x ELSE l[d]]
  BY DEF Put
<1>5. /\ Put(Put(l, n - 1, x), n, y) = [d \in 1 .. n |-> IF d = n - 1 THEN x ELSE IF d = n THEN y ELSE l[d]]
      /\ Put(Put(l, n, y), n - 1, x) = [d \in 1 .. n |-> IF d = n - 1 THEN x ELSE IF d = n THEN y ELSE l[d]]
  BY <1>1 DEF Put
<1>6. QED
  BY <1>2, <1>3, <1>4, <1>5

\* An offset moved from a block to one that differs in dimension m only.
LEMMA PutInside ==
  ASSUME NEW n \in Nat, NEW m \in 1 .. n, NEW X, NEW Y, Agree(X, Y, n, m),
         NEW l \in Offsets(X, n), NEW x \in Nat, x < Y[m]
  PROVE  Put(l, m, x) \in Offsets(Y, n)
<1>1. l \in [1 .. n -> Nat] /\ \A d \in 1 .. n : l[d] < X[d]
  BY DEF Offsets
<1>2. /\ Put(l, m, x) \in [1 .. n -> Nat]
      /\ \A d \in 1 .. n : Put(l, m, x)[d] = IF d = m THEN x ELSE l[d]
  BY <1>1 DEF Put
<1>3. \A d \in 1 .. n : Put(l, m, x)[d] < Y[d]
  BY <1>1, <1>2 DEF Agree
<1>4. QED
  BY <1>2, <1>3 DEF Offsets

\* Replacing an entry, and putting it back.
LEMMA PutBack ==
  ASSUME NEW n \in Nat, NEW m \in 1 .. n, NEW D, NEW O,
         NEW e \in Offsets(D, n), NEW l \in Offsets(O, n), NEW h \in Nat
  PROVE  Put(e, m, h) = l <=> h = l[m] /\ e = Put(l, m, e[m])
<1>0. e \in [1 .. n -> Nat] /\ l \in [1 .. n -> Nat]
  BY DEF Offsets
<1>1. Put(e, m, h) = [d \in 1 .. n |-> IF d = m THEN h ELSE e[d]]
  BY <1>0 DEF Put
<1>2. Put(l, m, e[m]) = [d \in 1 .. n |-> IF d = m THEN e[m] ELSE l[d]]
  BY <1>0 DEF Put
<1>3. Put(e, m, h) = l <=> \A d \in 1 .. n : (IF d = m THEN h ELSE e[d]) = l[d]
  BY <1>0, <1>1
<1>4. e = Put(l, m, e[m]) <=> \A d \in 1 .. n : e[d] = IF d = m THEN e[m] ELSE l[d]
  BY <1>0, <1>2
<1>5. QED
  BY <1>3, <1>4

\* Cell l of block own is in the terms of the cells of d that differ from it along c, and its
\* place along c is the other operand's along q.
Contracted(own, other, d, O, D, n, c, q, l) ==
  \A y :
    (\E e \in Offsets(D, n) : \E h \in 0 .. O[c] - 1 :
       At(own, Put(e, c, h)) = At(own, l) /\ y = << At(d, e), At(other, Put(e, q, h)) >>)
    <=> \E j \in 0 .. D[c] - 1 :
          y = << At(d, Put(l, c, j)), At(other, Put(Put(l, c, j), q, l[c])) >>

\* Two operands are contracted along dimension c of one and q of the other.
LEMMA Contraction ==
  ASSUME NEW n \in Nat, NEW c \in 1 .. n, NEW q \in 1 .. n, NEW own, NEW other, NEW d,
         NEW O \in [1 .. n -> Nat], NEW D \in [1 .. n -> Nat], Agree(O, D, n, c),
         Distinct(own, Offsets(O, n)), NEW l \in Offsets(O, n)
  PROVE  Contracted(own, other, d, O, D, n, c, q, l)
<1> SUFFICES
      ASSUME NEW y
      PROVE  (\E e \in Offsets(D, n) : \E h \in 0 .. O[c] - 1 :
                At(own, Put(e, c, h)) = At(own, l) /\ y = << At(d, e), At(other, Put(e, q, h)) >>)
             <=> \E j \in 0 .. D[c] - 1 :
                   y = << At(d, Put(l, c, j)), At(other, Put(Put(l, c, j), q, l[c])) >>
  BY DEF Contracted
<1>1. l \in [1 .. n -> Nat] /\ l[c] < O[c] /\ l[c] \in 0 .. O[c] - 1
  BY DEF Offsets
<1>2. Agree(D, O, n, c)
  BY DEF Agree
<1>3. ASSUME NEW e \in Offsets(D, n), NEW h \in 0 .. O[c] - 1,
             At(own, Put(e, c, h)) = At(own, l), y = << At(d, e), At(other, Put(e, q, h)) >>
      PROVE  \E j \in 0 .. D[c] - 1 :
               y = << At(d, Put(l, c, j)), At(other, Put(Put(l, c, j), q, l[c])) >>
  <2>1. e \in [1 .. n -> Nat] /\ e[c] \in 0 .. D[c] - 1 /\ h \in Nat /\ h < O[c]
    BY DEF Offsets
  <2>2. Put(e, c, h) \in Offsets(O, n)
    BY <1>2, <2>1, PutInside
  <2>3. Put(e, c, h) = l
    BY <1>3, <2>2 DEF Distinct
  <2>4. Put(e, c, h) = l <=> h = l[c] /\ e = Put(l, c, e[c])
    <3>1. h \in Nat
      BY <2>1
    <3>2. QED
      BY ONLY <3>1, n \in Nat, c \in 1 .. n, e \in Offsets(D, n), l \in Offsets(O, n), PutBack
  <2>5. h = l[c] /\ e = Put(l, c, e[c])
    BY <2>3, <2>4
  <2>6. QED
    BY <1>3, <2>1, <2>5
<1>4. ASSUME NEW j \in 0 .. D[c] - 1,
             y = << At(d, Put(l, c, j)), At(other, Put(Put(l, c, j), q, l[c])) >>
      PROVE  \E e \in Offsets(D, n) : \E h \in 0 .. O[c] - 1 :
               At(own, Put(e, c, h)) = At(own, l) /\ y = << At(d, e), At(other, Put(e, q, h)) >>
  <2> DEFINE e == Put(l, c, j)
  <2>1. j \in Nat /\ j < D[c]
    OBVIOUS
  <2>2. e \in Offsets(D, n)
    BY <2>1, PutInside
  <2>3. Put(e, c, l[c]) = l
    BY <1>1, <2>1 DEF Put
  <2> HIDE DEF e
  <2>4. y = << At(d, e), At(other, Put(e, q, l[c])) >>
    BY <1>4 DEF e
  <2>5. QED
    BY <1>1, <2>2, <2>3, <2>4
<1>5. QED
  BY <1>3, <1>4

\* The shapes of the blocks of a product: A and B share the contracted dimension, and D has
\* the other of each.
Factors(A, B, D, n) ==
  /\ n \in Nat /\ n >= 2
  /\ A \in [1 .. n -> Nat] /\ B \in [1 .. n -> Nat] /\ D \in [1 .. n -> Nat]
  /\ Agree(A, D, n, n) /\ Agree(B, D, n, n - 1) /\ B[n - 1] = A[n]

\* Block b has shape X, and its offsets are different cells.
IsBlock(b, X, n) ==
  Extents(b) = X /\ Cells(X) = Offsets(X, n) /\ Distinct(b, Offsets(X, n))

\* The terms of a cell of d.
LEMMA DotForwardPuts ==
  ASSUME NEW op, op.kind = "dot", NEW n, NEW A, NEW B, NEW D, Factors(A, B, D, n),
         NEW a, NEW b, Extents(a) = A, NEW shapes, NEW pages, NEW idxs,
         Blocks(shapes, pages, idxs)[1] = a, Blocks(shapes, pages, idxs)[2] = b,
         NEW e \in Offsets(D, n), NEW t
  PROVE  t \in forward_block(op, shapes, pages, idxs, e) <=>
           \E h \in 0 .. A[n] - 1 : t = << At(a, Put(e, n, h)), At(b, Put(e, n - 1, h)) >>
<1>1. n \in Nat /\ n >= 2 /\ e \in [1 .. n -> Nat] /\ Len(e) = n /\ A[n] \in Nat
  <2>1. n \in Nat /\ n >= 2 /\ e \in [1 .. n -> Nat] /\ A[n] \in Nat
    BY DEF Factors, Offsets
  <2>2. QED
    BY <2>1
<1>2. t \in forward_block(op, shapes, pages, idxs, e) <=> t \in Dot_forward(a, b, e)
  BY DotKernel
<1>3. t \in Dot_forward(a, b, e) <=>
        \E h \in 0 .. A[n] - 1 :
          t = << At(a, Batched(e, e[n - 1], h)), At(b, Batched(e, h, e[n])) >>
  BY <1>1, DotForwardIs
<1>4. ASSUME NEW h \in 0 .. A[n] - 1
      PROVE  Batched(e, e[n - 1], h) = Put(e, n, h) /\ Batched(e, h, e[n]) = Put(e, n - 1, h)
  <2>1. h \in Nat
    BY <1>1
  <2>2. QED
    BY ONLY <1>1, <2>1, BatchedPuts
<1>5. QED
  BY <1>2, <1>3, <1>4

\* What backward_block gives a cell of the left operand.
LEMMA DotBackwardLeft ==
  ASSUME NEW op, op.kind = "dot", NEW n, NEW A, NEW B, NEW D, Factors(A, B, D, n),
         NEW b, NEW d, Extents(b) = B, NEW shapes, NEW pages, NEW idxs,
         Blocks(shapes, pages, idxs)[2] = b,
         NEW l \in Offsets(A, n), NEW y
  PROVE  y \in backward_block(op, shapes, pages, d, idxs, 1, l) <=>
           \E j \in 0 .. D[n] - 1 :
             y = << At(d, Put(l, n, j)), At(b, Put(Put(l, n, j), n - 1, l[n])) >>
<1>1. /\ n \in Nat /\ n >= 2 /\ l \in [1 .. n -> Nat] /\ Len(l) = n /\ B[n] = D[n] /\ D[n] \in Nat
      /\ l[n] \in Nat
  <2>1. n \in Nat /\ n >= 2 /\ l \in [1 .. n -> Nat] /\ n # n - 1 /\ n \in 1 .. n
    BY DEF Factors, Offsets
  <2>2. B[n] = D[n] /\ D[n] \in Nat
    BY <2>1 DEF Factors, Agree
  <2>3. QED
    BY <2>1, <2>2
<1>2. y \in backward_block(op, shapes, pages, d, idxs, 1, l) <=> y \in Dot_backward(d, Blocks(shapes, pages, idxs)[1], b, 1, l)
  BY DotDerivative
<1>3. y \in Dot_backward(d, Blocks(shapes, pages, idxs)[1], b, 1, l) <=>
        \E j \in 0 .. D[n] - 1 :
          y = << At(d, Batched(l, l[n - 1], j)), At(b, Batched(l, l[n], j)) >>
  BY <1>1 DEF Dot_backward
<1>4. ASSUME NEW j \in 0 .. D[n] - 1
      PROVE  /\ Batched(l, l[n - 1], j) = Put(l, n, j)
             /\ Batched(l, l[n], j) = Put(Put(l, n, j), n - 1, l[n])
  <2>1. j \in Nat
    BY <1>1
  <2>2. QED
    BY ONLY <1>1, <2>1, BatchedPuts
<1>5. QED
  BY <1>2, <1>3, <1>4

\* What backward_block gives a cell of the right operand.
LEMMA DotBackwardRight ==
  ASSUME NEW op, op.kind = "dot", NEW n, NEW A, NEW B, NEW D, Factors(A, B, D, n),
         NEW a, NEW d, Extents(a) = A, NEW shapes, NEW pages, NEW idxs,
         Blocks(shapes, pages, idxs)[1] = a,
         NEW l \in Offsets(B, n), NEW y
  PROVE  y \in backward_block(op, shapes, pages, d, idxs, 2, l) <=>
           \E i \in 0 .. D[n - 1] - 1 :
             y = << At(d, Put(l, n - 1, i)), At(a, Put(Put(l, n - 1, i), n, l[n - 1])) >>
<1>1. /\ n \in Nat /\ n >= 2 /\ l \in [1 .. n -> Nat] /\ Len(l) = n
      /\ A[n - 1] = D[n - 1] /\ D[n - 1] \in Nat /\ l[n - 1] \in Nat
  <2>1. n \in Nat /\ n >= 2 /\ l \in [1 .. n -> Nat] /\ n # n - 1 /\ n - 1 \in 1 .. n
    BY DEF Factors, Offsets
  <2>2. A[n - 1] = D[n - 1] /\ D[n - 1] \in Nat
    BY <2>1 DEF Factors, Agree
  <2>3. QED
    BY <2>1, <2>2
<1>2. y \in backward_block(op, shapes, pages, d, idxs, 2, l) <=> y \in Dot_backward(d, a, Blocks(shapes, pages, idxs)[2], 2, l)
  BY DotDerivative
<1>3. y \in Dot_backward(d, a, Blocks(shapes, pages, idxs)[2], 2, l) <=>
        \E i \in 0 .. D[n - 1] - 1 :
          y = << At(d, Batched(l, i, l[n])), At(a, Batched(l, i, l[n - 1])) >>
  BY <1>1 DEF Dot_backward
<1>4. ASSUME NEW i \in 0 .. D[n - 1] - 1
      PROVE  /\ Batched(l, i, l[n]) = Put(l, n - 1, i)
             /\ Batched(l, i, l[n - 1]) = Put(Put(l, n - 1, i), n, l[n - 1])
  <2>1. i \in Nat
    BY <1>1
  <2>2. QED
    BY ONLY <1>1, <2>1, BatchedPuts
<1>5. QED
  BY <1>2, <1>3, <1>4

\* dot, left operand: the row of d_out against the row of the right operand.
LEMMA DotAdjointLeft ==
  ASSUME NEW op, op.kind = "dot", NEW n, NEW A, NEW B, NEW D, Factors(A, B, D, n),
         NEW a, NEW b, NEW d, IsBlock(a, A, n), Extents(b) = B,
         Extents(d) = D, Cells(D) = Offsets(D, n),
         NEW shapes, NEW pages, NEW idxs,
         Blocks(shapes, pages, idxs)[1] = a, Blocks(shapes, pages, idxs)[2] = b
  PROVE  Touches(op, shapes, pages, d, idxs, 1, a) /\ Adjoint(op, shapes, pages, d, idxs, 1, a)
<1> DEFINE Out(e) == forward_block(op, shapes, pages, idxs, e)
           Grad(l) == backward_block(op, shapes, pages, d, idxs, 1, l)
           T(e, h) == << At(a, Put(e, n, h)), At(b, Put(e, n - 1, h)) >>
<1>1. /\ n \in Nat /\ n >= 2 /\ n \in 1 .. n /\ n - 1 \in 1 .. n
      /\ A \in [1 .. n -> Nat] /\ D \in [1 .. n -> Nat] /\ Agree(A, D, n, n) /\ Agree(D, A, n, n)
      /\ A[n] \in Nat
  BY DEF Factors, Agree
<1>2. Extents(a) = A /\ Cells(A) = Offsets(A, n) /\ Distinct(a, Offsets(A, n))
  BY DEF IsBlock
<1>3. \A e \in Offsets(D, n) : \A t : t \in Out(e) <=> \E h \in 0 .. A[n] - 1 : t = T(e, h)
  BY <1>2, DotForwardPuts
<1>4. \A e, h : T(e, h)[1] = At(a, Put(e, n, h)) /\ Cofactor(op, T(e, h), 1) = At(b, Put(e, n - 1, h))
  <2>1. \A e, h : Cofactor(op, T(e, h), 1) = T(e, h)[3 - 1]
    BY Cofactors
  <2>2. QED
    BY <2>1
<1>5. \A l \in Offsets(A, n) : \A y : y \in Grad(l) <=>
         \E j \in 0 .. D[n] - 1 :
           y = << At(d, Put(l, n, j)), At(b, Put(Put(l, n, j), n - 1, l[n])) >>
  <2> SUFFICES ASSUME NEW l \in Offsets(A, n), NEW y
               PROVE  y \in Grad(l) <=> \E j \in 0 .. D[n] - 1 :
                        y = << At(d, Put(l, n, j)), At(b, Put(Put(l, n, j), n - 1, l[n])) >>
    OBVIOUS
  <2>1. QED
    BY DotBackwardLeft
<1> HIDE DEF Out, Grad, T
<1>6. ASSUME NEW e \in Offsets(D, n), NEW t \in Out(e)
      PROVE  \E l \in Offsets(A, n) : t[1] = At(a, l)
  <2>1. PICK h \in 0 .. A[n] - 1 : t = T(e, h)
    BY <1>3
  <2>2. Put(e, n, h) \in Offsets(A, n)
    <3>1. h \in Nat /\ h < A[n]
      BY <1>1
    <3>2. QED
      BY ONLY <1>1, <3>1, e \in Offsets(D, n), PutInside
  <2>3. QED
    BY <1>4, <2>1, <2>2
<1>7. ASSUME NEW l \in Offsets(A, n), NEW y
      PROVE  y \in Grad(l) <=> \E e \in Offsets(D, n) : \E t \in Out(e) :
               t[1] = At(a, l) /\ y = << At(d, e), Cofactor(op, t, 1) >>
  <2>1. (\E e \in Offsets(D, n) : \E h \in 0 .. A[n] - 1 :
            At(a, Put(e, n, h)) = At(a, l) /\ y = << At(d, e), At(b, Put(e, n - 1, h)) >>)
        <=> \E j \in 0 .. D[n] - 1 :
              y = << At(d, Put(l, n, j)), At(b, Put(Put(l, n, j), n - 1, l[n])) >>
    <3>1. Contracted(a, b, d, A, D, n, n, n - 1, l)
      BY ONLY <1>1, <1>2, l \in Offsets(A, n), Contraction
    <3>2. QED
      BY <3>1 DEF Contracted
  <2>2. (\E e \in Offsets(D, n) : \E t \in Out(e) :
           t[1] = At(a, l) /\ y = << At(d, e), Cofactor(op, t, 1) >>)
        <=> \E e \in Offsets(D, n) : \E h \in 0 .. A[n] - 1 :
            At(a, Put(e, n, h)) = At(a, l) /\ y = << At(d, e), At(b, Put(e, n - 1, h)) >>
    BY <1>3, <1>4
  <2>3. QED
    BY <1>5, <2>1, <2>2
<1>8. QED
  BY <1>2, <1>6, <1>7 DEF Touches, Adjoint, Out, Grad

\* dot, right operand: the column of d_out against the column of the left operand.
LEMMA DotAdjointRight ==
  ASSUME NEW op, op.kind = "dot", NEW n, NEW A, NEW B, NEW D, Factors(A, B, D, n),
         NEW a, NEW b, NEW d, Extents(a) = A, IsBlock(b, B, n),
         Extents(d) = D, Cells(D) = Offsets(D, n),
         NEW shapes, NEW pages, NEW idxs,
         Blocks(shapes, pages, idxs)[1] = a, Blocks(shapes, pages, idxs)[2] = b
  PROVE  Touches(op, shapes, pages, d, idxs, 2, b) /\ Adjoint(op, shapes, pages, d, idxs, 2, b)
<1> DEFINE Out(e) == forward_block(op, shapes, pages, idxs, e)
           Grad(l) == backward_block(op, shapes, pages, d, idxs, 2, l)
           T(e, h) == << At(a, Put(e, n, h)), At(b, Put(e, n - 1, h)) >>
<1>1. /\ n \in Nat /\ n >= 2 /\ n \in 1 .. n /\ n - 1 \in 1 .. n
      /\ B \in [1 .. n -> Nat] /\ D \in [1 .. n -> Nat]
      /\ Agree(B, D, n, n - 1) /\ Agree(D, B, n, n - 1) /\ A[n] \in Nat /\ B[n - 1] = A[n]
  BY DEF Factors, Agree
<1>2. Extents(b) = B /\ Cells(B) = Offsets(B, n) /\ Distinct(b, Offsets(B, n))
  BY DEF IsBlock
<1>3. \A e \in Offsets(D, n) : \A t : t \in Out(e) <=> \E h \in 0 .. A[n] - 1 : t = T(e, h)
  BY DotForwardPuts
<1>4. \A e, h : T(e, h)[2] = At(b, Put(e, n - 1, h)) /\ Cofactor(op, T(e, h), 2) = At(a, Put(e, n, h))
  <2>1. \A e, h : Cofactor(op, T(e, h), 2) = T(e, h)[3 - 2]
    BY Cofactors
  <2>2. QED
    BY <2>1
<1>5. \A l \in Offsets(B, n) : \A y : y \in Grad(l) <=>
         \E i \in 0 .. D[n - 1] - 1 :
           y = << At(d, Put(l, n - 1, i)), At(a, Put(Put(l, n - 1, i), n, l[n - 1])) >>
  <2> SUFFICES ASSUME NEW l \in Offsets(B, n), NEW y
               PROVE  y \in Grad(l) <=> \E i \in 0 .. D[n - 1] - 1 :
                        y = << At(d, Put(l, n - 1, i)), At(a, Put(Put(l, n - 1, i), n, l[n - 1])) >>
    OBVIOUS
  <2>1. QED
    BY DotBackwardRight
<1> HIDE DEF Out, Grad, T
<1>6. ASSUME NEW e \in Offsets(D, n), NEW t \in Out(e)
      PROVE  \E l \in Offsets(B, n) : t[2] = At(b, l)
  <2>1. PICK h \in 0 .. A[n] - 1 : t = T(e, h)
    BY <1>3
  <2>2. Put(e, n - 1, h) \in Offsets(B, n)
    <3>1. h \in Nat /\ h < B[n - 1]
      BY <1>1
    <3>2. QED
      BY ONLY <1>1, <3>1, e \in Offsets(D, n), PutInside
  <2>3. QED
    BY <1>4, <2>1, <2>2
<1>7. ASSUME NEW l \in Offsets(B, n), NEW y
      PROVE  y \in Grad(l) <=> \E e \in Offsets(D, n) : \E t \in Out(e) :
               t[2] = At(b, l) /\ y = << At(d, e), Cofactor(op, t, 2) >>
  <2>1. (\E e \in Offsets(D, n) : \E h \in 0 .. B[n - 1] - 1 :
            At(b, Put(e, n - 1, h)) = At(b, l) /\ y = << At(d, e), At(a, Put(e, n, h)) >>)
        <=> \E j \in 0 .. D[n - 1] - 1 :
              y = << At(d, Put(l, n - 1, j)), At(a, Put(Put(l, n - 1, j), n, l[n - 1])) >>
    <3>1. Contracted(b, a, d, B, D, n, n - 1, n, l)
      BY ONLY <1>1, <1>2, l \in Offsets(B, n), Contraction
    <3>2. QED
      BY <3>1 DEF Contracted
  <2>2. (\E e \in Offsets(D, n) : \E t \in Out(e) :
           t[2] = At(b, l) /\ y = << At(d, e), Cofactor(op, t, 2) >>)
        <=> \E e \in Offsets(D, n) : \E h \in 0 .. B[n - 1] - 1 :
            At(b, Put(e, n - 1, h)) = At(b, l) /\ y = << At(d, e), At(a, Put(e, n, h)) >>
    BY <1>1, <1>3, <1>4
  <2>3. QED
    BY <1>5, <2>1, <2>2
<1>8. QED
  BY <1>2, <1>6, <1>7 DEF Touches, Adjoint, Out, Grad

\* What backward_block must satisfy for output block o: each group takes an operand's block
\* that exists, no block of an operand is in two groups, and the kernel is the derivative of
\* forward_block on the group.
Derived(op, shapes, pages, outPage, o) ==
  LET d == Blk(o, outPage, output_shape(op, shapes))
      g == index_map(op, shapes, pages, o)
      b(m, p) == Blk(g[m][p], pages[p], shapes[p])
  IN  \A p \in 1 .. NumInputs(op) :
        /\ \A m \in DOMAIN g : /\ g[m][p] \in Inside(shapes[p], pages[p])
                               /\ Touches(op, shapes, pages, d, g[m], p, b(m, p))
                               /\ Adjoint(op, shapes, pages, d, g[m], p, b(m, p))
        /\ \A l, m \in DOMAIN g : g[l][p] = g[m][p] => l = m

\* An op whose output block is computed from one group.
LEMMA OneGroupDerived ==
  ASSUME NEW op, NEW shapes, NEW pages, NEW outPage, NEW o, NEW idxs,
         index_map(op, shapes, pages, o) = << idxs >>,
         NEW d, d = Blk(o, outPage, output_shape(op, shapes)),
         \A p \in 1 .. NumInputs(op) :
           /\ idxs[p] \in Inside(shapes[p], pages[p])
           /\ Touches(op, shapes, pages, d, idxs, p, Blk(idxs[p], pages[p], shapes[p]))
           /\ Adjoint(op, shapes, pages, d, idxs, p, Blk(idxs[p], pages[p], shapes[p]))
  PROVE  Derived(op, shapes, pages, outPage, o)
<1> DEFINE g == index_map(op, shapes, pages, o)
<1>1. DOMAIN g = {1} /\ g[1] = idxs
  OBVIOUS
<1> HIDE DEF g
<1>2. QED
  BY <1>1 DEF Derived, g

\* add, sub and mul.
LEMMA ElementwiseDerived ==
  ASSUME NEW op, op.kind \in Elementwise, NumInputs(op) = 2, NEW s \in Shapes,
         NEW page \in Shapes, Len(page) = Len(s),
         NEW shapes, DOMAIN shapes = 1 .. 2, shapes[1] = s, shapes[2] = s,
         NEW pages, pages[1] = page, pages[2] = page, NEW o \in Inside(s, page)
  PROVE  Derived(op, shapes, pages, page, o)
<1> DEFINE d == Blk(o, page, s)
           idxs == << o, o >>
           blk == Blocks(shapes, pages, idxs)
<1>1. output_shape(op, shapes) = s /\ index_map(op, shapes, pages, o) = << idxs >>
  BY ElementwiseParts
<1>2. \A p \in 1 .. 2 : idxs[p] = o /\ shapes[p] = s /\ pages[p] = page
  OBVIOUS
<1>3. blk[1] = d /\ blk[2] = d
  BY <1>2 DEF Blocks
<1> HIDE DEF d, idxs, blk
<1>4. ASSUME NEW p \in 1 .. 2
      PROVE  Touches(op, shapes, pages, d, idxs, p, d) /\ Adjoint(op, shapes, pages, d, idxs, p, d)
  BY <1>3, ElementwiseAdjoint DEF d, blk
<1>5. d = Blk(o, page, output_shape(op, shapes))
  BY <1>1 DEF d
<1>6. \A p \in 1 .. 2 : Blk(idxs[p], pages[p], shapes[p]) = d
  BY <1>2 DEF d
<1>7. QED
  BY <1>1, <1>2, <1>4, <1>5, <1>6, OneGroupDerived

\* square.
LEMMA SquareDerived ==
  ASSUME NEW op, op.kind = "square", NumInputs(op) = 1, NEW s \in Shapes,
         NEW page \in Shapes, Len(page) = Len(s),
         NEW shapes, DOMAIN shapes = 1 .. 1, shapes[1] = s, NEW pages, pages[1] = page,
         NEW o \in Inside(s, page)
  PROVE  Derived(op, shapes, pages, page, o)
<1> DEFINE d == Blk(o, page, s)
           idxs == << o >>
           blk == Blocks(shapes, pages, idxs)
<1>1. output_shape(op, shapes) = s /\ index_map(op, shapes, pages, o) = << idxs >>
  <2>1. output_shape(op, shapes) = shapes[1]
    BY OutputOf
  <2>2. index_map(op, shapes, pages, o) = << << o >> >>
    BY ONLY op.kind = "square", SquareParts
  <2>3. QED
    BY <2>1, <2>2
<1>2. \A p \in 1 .. 1 : p = 1 /\ idxs[p] = o /\ shapes[p] = s /\ pages[p] = page
  OBVIOUS
<1>3. blk[1] = d
  BY <1>2 DEF Blocks
<1> HIDE DEF d, idxs, blk
<1>4. Touches(op, shapes, pages, d, idxs, 1, d) /\ Adjoint(op, shapes, pages, d, idxs, 1, d)
  BY <1>3, SquareAdjoint DEF d, blk
<1>5. d = Blk(o, page, output_shape(op, shapes))
  BY <1>1 DEF d
<1>6. \A p \in 1 .. 1 : Blk(idxs[p], pages[p], shapes[p]) = d
  BY <1>2 DEF d
<1>7. QED
  BY <1>1, <1>2, <1>4, <1>5, <1>6, OneGroupDerived

\* sum: one group per block of the operand.
LEMMA SumDerived ==
  ASSUME NEW op, op.kind = "sum", NumInputs(op) = 1, NEW s \in Shapes,
         NEW page \in Shapes, Len(page) = Len(s),
         NEW shapes, DOMAIN shapes = 1 .. 1, shapes[1] = s, NEW pages, pages[1] = page,
         NEW outPage, NEW o
  PROVE  Derived(op, shapes, pages, outPage, o)
<1> DEFINE out == output_shape(op, shapes)
           d == Blk(o, outPage, out)
           g == index_map(op, shapes, pages, o)
           grid == block_grid(s, page)
<1>1. /\ out = << >> /\ g = Sum_index_map(grid)
      /\ shapes[1] = s /\ pages[1] = page /\ 1 \in DOMAIN shapes
  BY SumParts
<1>2. Extents(d) = << >>
  <2>1. Extents(d) = BlockShape(o, outPage, out)
    BY DEF Extents, Blk
  <2>2. DOMAIN out = {}
    BY <1>1
  <2>3. BlockShape(o, outPage, out) = << >>
    BY <2>2 DEF BlockShape, slice_for
  <2>4. QED
    BY <2>1, <2>3
<1>3. grid \in Seq(Inside(s, page)) /\ \A l, m \in DOMAIN grid : grid[l] = grid[m] => l = m
  BY GridLists
<1> HIDE DEF grid, d, g, out
<1>4. DOMAIN g = DOMAIN grid /\ \A m \in DOMAIN grid : g[m] = << grid[m] >> /\ grid[m] \in Inside(s, page)
  BY <1>1, <1>3 DEF Sum_index_map
<1>5. ASSUME NEW m \in DOMAIN g
      PROVE  /\ g[m][1] \in Inside(s, page)
             /\ Touches(op, shapes, pages, d, g[m], 1, Blk(g[m][1], page, s))
             /\ Adjoint(op, shapes, pages, d, g[m], 1, Blk(g[m][1], page, s))
  <2> DEFINE i == g[m][1]
             b == Blk(i, page, s)
  <2>1. i \in Inside(s, page)
    BY <1>4
  <2>2. Blocks(shapes, pages, g[m])[1] = b
    BY <1>1 DEF Blocks
  <2> HIDE DEF i
  <2>3. Touches(op, shapes, pages, d, g[m], 1, b) /\ Adjoint(op, shapes, pages, d, g[m], 1, b)
    BY <1>2, <2>1, <2>2, SumAdjoint
  <2>4. QED
    BY <2>1, <2>3 DEF i
<1>6. ASSUME NEW l \in DOMAIN g, NEW m \in DOMAIN g, g[l][1] = g[m][1] PROVE l = m
  BY <1>3, <1>4, <1>6
<1>7. \A p \in 1 .. 1 : p = 1
  OBVIOUS
<1>8. QED
  BY <1>1, <1>5, <1>6, <1>7 DEF Derived, d, g, out

\* The block transpose reads for a tile exists.
LEMMA TransposedInside ==
  ASSUME NEW s \in Shapes, NEW side \in Nat \ {0}, NEW axes, axes = << >> \/ Permutes(axes, s),
         NEW out, out = Permute(s, axes), NEW o \in Inside(out, PageOf(side, out))
  PROVE  Unpermute(o, axes) \in Inside(s, PageOf(side, s))
<1> DEFINE n == Len(s)
           page == PageOf(side, s)
           outPage == PageOf(side, out)
           i0 == Unpermute(o, axes)
<1>1. /\ n \in Nat /\ DOMAIN s = 1 .. n /\ s \in [1 .. n -> Int]
      /\ \A d \in 1 .. n : page[d] = Smaller(side, s[d])
  BY PageFacts DEF Shapes
<1>2. PICK f, b : Inverses(f, b, n) /\ Follows(axes, f, b, n)
  BY <1>1, PermutationOf
<1> HIDE DEF n, page
<1>3. \A i \in 1 .. n : f[i] \in 1 .. n /\ b[i] \in 1 .. n /\ f[b[i]] = i
  BY <1>2 DEF Inverses
<1>4. out = [i \in 1 .. n |-> s[f[i]]]
  <2>1. s \in Seq(Int)
    BY <1>1
  <2>2. QED
    BY <1>1, <1>2, <2>1 DEF Follows
<1>5. \A d \in 1 .. n : outPage[d] = Smaller(side, out[d])
  BY <1>4 DEF PageOf
<1>6. o \in [1 .. n -> Nat] /\ \A d \in 1 .. n : o[d] * outPage[d] < out[d]
  BY <1>4 DEF Inside
<1>7. i0 = [i \in 1 .. n |-> o[b[i]]]
  <2>1. o \in Seq(Int) /\ DOMAIN o = 1 .. n
    BY <1>1, <1>6
  <2>2. QED
    BY <1>2, <2>1 DEF Follows
<1> HIDE DEF outPage
<1>8. ASSUME NEW d \in 1 .. n PROVE i0[d] \in Nat /\ i0[d] * page[d] < s[d]
  <2> DEFINE c == b[d]
  <2>1. c \in 1 .. n /\ f[c] = d
    BY <1>3
  <2> HIDE DEF c
  <2>2. i0[d] = o[c] /\ out[c] = s[d] /\ outPage[c] = page[d]
    <3>1. out[c] = s[d]
      BY <1>4, <2>1
    <3>2. outPage[c] = page[d]
      BY <1>1, <1>5, <2>1, <3>1
    <3>3. i0[d] = o[c]
      BY <1>7 DEF c
    <3>4. QED
      BY <3>1, <3>2, <3>3
  <2>3. QED
    BY <1>6, <2>1, <2>2
<1> HIDE DEF i0
<1>9. i0 \in [1 .. n -> Nat]
  BY <1>7, <1>8
<1>10. QED
  BY <1>1, <1>8, <1>9 DEF Inside, i0, page

\* Every array has a cell.
LEMMA SomeCell ==
  ASSUME NEW s \in Shapes
  PROVE  [d \in DOMAIN s |-> 0] \in Cells(s)
<1>1. s \in Seq(Nat) /\ \A d \in DOMAIN s : s[d] \in Nat \ {0}
  BY DEF Shapes
<1>2. QED
  BY <1>1, CellsAre

\* forward_block returns a block of the output block's shape, and its operands conform.
LEMMA GroupShapes ==
  ASSUME NEW op, NEW shapes, Accepts(op, shapes), NEW side \in Nat \ {0},
         NEW pages, pages = [p \in DOMAIN shapes |-> PageOf(side, shapes[p])],
         NEW out, out = output_shape(op, shapes), NEW o \in Inside(out, PageOf(side, out)),
         NEW g, g = index_map(op, shapes, pages, o), NEW m \in DOMAIN g
  PROVE  /\ Conform(op, shapes, pages, g[m])
         /\ ResultShape(op, shapes, pages, g[m]) = BlockShape(o, PageOf(side, out), out)
<1>1. PICK e : e \in Cells(out)
  BY OutputShapes, SomeCell
<1>2. Sound(op, shapes, pages, PageOf(side, out), o, e)
  BY <1>1, AcceptedSound
<1>3. QED
  BY <1>2 DEF Sound

\* transpose.
LEMMA TransposeDerived ==
  ASSUME NEW op, op.kind = "transpose", NumInputs(op) = 1, NEW s \in Shapes,
         op.axes = << >> \/ Permutes(op.axes, s), NEW side \in Nat \ {0},
         NEW shapes, Accepts(op, shapes), DOMAIN shapes = 1 .. 1, shapes[1] = s,
         NEW pages, pages = [p \in DOMAIN shapes |-> PageOf(side, shapes[p])],
         NEW out, out = output_shape(op, shapes), NEW o \in Inside(out, PageOf(side, out))
  PROVE  Derived(op, shapes, pages, PageOf(side, out), o)
<1> DEFINE page == PageOf(side, s)
           outPage == PageOf(side, out)
           i0 == Unpermute(o, op.axes)
           d == Blk(o, outPage, out)
           b == Blk(i0, page, s)
           idxs == << i0 >>
           g == index_map(op, shapes, pages, o)
           blk == Blocks(shapes, pages, idxs)
           ext == [p \in DOMAIN shapes |-> BlockShape(idxs[p], pages[p], shapes[p])]
<1>1. pages[1] = page /\ page \in Shapes /\ Len(page) = Len(s)
  BY PageFacts
<1>2. g = << idxs >>
  BY ONLY op.kind = "transpose", TransposeParts
<1>3. out = Permute(s, op.axes)
  <2>1. output_shape(op, shapes) = Permute(shapes[1], op.axes)
    BY OutputOf
  <2>2. QED
    BY <2>1
<1>4. i0 \in Inside(s, page)
  BY <1>3, TransposedInside
<1>5. blk[1] = b /\ ext[1] = Extents(b)
  BY <1>1 DEF Blocks, Extents, Blk
<1>6. ResultShape(op, shapes, pages, idxs) = BlockShape(o, outPage, out)
  <2>1. 1 \in DOMAIN g /\ g[1] = idxs
    BY <1>2
  <2>2. \A m \in DOMAIN g : ResultShape(op, shapes, pages, g[m]) = BlockShape(o, outPage, out)
    BY GroupShapes
  <2> HIDE DEF g, idxs
  <2>3. QED
    BY <2>1, <2>2
<1>7. Extents(d) = Permute(Extents(b), op.axes)
  <2>1. ResultShape(op, shapes, pages, idxs) = output_shape(op, ext)
    BY DEF ResultShape
  <2>2. Extents(d) = BlockShape(o, outPage, out)
    BY DEF Extents, Blk
  <2> HIDE DEF ext, b, d, idxs, outPage, blk
  <2>3. output_shape(op, ext) = Permute(ext[1], op.axes)
    BY OutputOf
  <2>4. QED
    BY <1>5, <1>6, <2>1, <2>2, <2>3
<1>8. Touches(op, shapes, pages, d, idxs, 1, b) /\ Adjoint(op, shapes, pages, d, idxs, 1, b)
  <2> HIDE DEF i0, page, outPage, d, idxs
  <2>1. QED
    BY <1>1, <1>4, <1>5, <1>7, TransposeAdjoint
<1>9. \A p \in 1 .. 1 : p = 1 /\ idxs[p] = i0 /\ pages[p] = page /\ shapes[p] = s
  BY <1>1
<1>10. d = Blk(o, outPage, output_shape(op, shapes))
  OBVIOUS
<1> HIDE DEF i0, page, outPage, d, idxs
<1>11. QED
  BY <1>2, <1>4, <1>8, <1>9, <1>10, OneGroupDerived DEF outPage

\* The blocks dot reads for a tile exist.
LEMMA DotInside ==
  ASSUME NEW a \in Shapes, NEW b \in Shapes, NEW n \in Nat, DotArgs(a, b, n), NEW side \in Nat \ {0},
         NEW out, out = Dot_output_shape(a, b), NEW o \in Inside(out, PageOf(side, out)),
         NEW k \in 1 .. CeilDiv(a[n], PageOf(side, a)[n])
  PROVE  /\ Batched(o, o[Len(o) - 1], k - 1) \in Inside(a, PageOf(side, a))
         /\ Batched(o, k - 1, o[Len(o)]) \in Inside(b, PageOf(side, b))
         /\ Batched(o, o[Len(o) - 1], k - 1)[n] = k - 1 /\ Batched(o, k - 1, o[Len(o)])[n - 1] = k - 1
<1> DEFINE pa == PageOf(side, a)
           pb == PageOf(side, b)
           pc == PageOf(side, out)
           left == Batched(o, o[Len(o) - 1], k - 1)
           right == Batched(o, k - 1, o[Len(o)])
<1>1. /\ n \in Nat /\ n >= 2 /\ Len(a) = n /\ Len(b) = n /\ b[n - 1] = a[n]
      /\ \A d \in 1 .. n : d # n /\ d # n - 1 => b[d] = a[d]
  <2>1. \A d \in 1 .. n : d # n /\ d # n - 1 => d \in 1 .. n - 2
    BY DEF DotArgs
  <2>2. QED
    BY <2>1 DEF DotArgs
<1>2. out = [d \in 1 .. n |-> IF d = n THEN b[n] ELSE a[d]]
  BY <1>1, DotShapes, ZenonT(40)
<1>3. /\ DOMAIN a = 1 .. n /\ DOMAIN b = 1 .. n /\ a[n] \in Nat \ {0} /\ pa[n] \in Nat \ {0}
      /\ \A d \in 1 .. n : pa[d] = Smaller(side, a[d]) /\ pb[d] = Smaller(side, b[d])
  BY <1>1, PageFacts
<1>4. \A d \in 1 .. n : pc[d] = Smaller(side, out[d])
  BY <1>2 DEF PageOf
<1>5. o \in [1 .. n -> Nat] /\ \A d \in 1 .. n : o[d] * pc[d] < out[d]
  BY <1>2 DEF Inside
<1>6. k - 1 \in Nat /\ (k - 1) * pa[n] < a[n]
  <2> DEFINE c == CeilDiv(a[n], pa[n])
  <2>1. c \in Nat \ {0} /\ \A i \in Nat : i < c <=> i * pa[n] < a[n]
    BY <1>3, CeilDivIs
  <2>2. k \in 1 .. c
    OBVIOUS
  <2> HIDE DEF c, pa
  <2>3. QED
    BY <2>1, <2>2
<1> HIDE DEF pa, pb, pc
<1>7. /\ left = [d \in 1 .. n |-> IF d = n THEN k - 1 ELSE o[d]]
      /\ right = [d \in 1 .. n |-> IF d = n - 1 THEN k - 1 ELSE o[d]]
  <2>1. Len(o) = n /\ o \in [1 .. n -> Int] /\ k - 1 \in Int
    BY <1>1, <1>5, <1>6
  <2> DEFINE q == k - 1
  <2> HIDE DEF q
  <2>2. /\ Batched(o, o[n - 1], q) = [d \in 1 .. n |-> IF d = n THEN q ELSE o[d]]
        /\ Batched(o, q, o[n]) = [d \in 1 .. n |-> IF d = n - 1 THEN q ELSE o[d]]
    <3>1. n \in Nat /\ n >= 2 /\ o \in [1 .. n -> Int] /\ q \in Int
      BY <1>1, <2>1 DEF q
    <3>2. QED
      BY <3>1, BatchedEnds
  <2>3. QED
    BY <2>1, <2>2 DEF q
<1> HIDE DEF left, right
<1>8. ASSUME NEW d \in 1 .. n
      PROVE  left[d] \in Nat /\ left[d] * pa[d] < a[d] /\ right[d] \in Nat /\ right[d] * pb[d] < b[d]
  <2>1. d # n => left[d] = o[d] /\ out[d] = a[d] /\ pc[d] = pa[d]
    <3>1. d # n => left[d] = o[d]
      BY <1>7
    <3>2. d # n => out[d] = a[d]
      BY <1>2
    <3>3. QED
      BY <1>3, <1>4, <3>1, <3>2
  <2>2. d = n => left[d] = k - 1
    BY <1>7
  <2>3. d # n - 1 => right[d] = o[d] /\ out[d] = b[d] /\ pc[d] = pb[d]
    <3>1. d # n - 1 => right[d] = o[d]
      BY <1>7
    <3>2. d # n - 1 => out[d] = b[d]
      BY <1>1, <1>2
    <3>3. QED
      BY <1>3, <1>4, <3>1, <3>2
  <2>4. d = n - 1 => right[d] = k - 1 /\ b[d] = a[n] /\ pb[d] = pa[n]
    <3>1. d = n - 1 => right[d] = k - 1 /\ b[d] = a[n]
      BY <1>1, <1>7
    <3>2. n \in 1 .. n
      BY <1>1
    <3>3. QED
      BY <1>3, <3>1, <3>2
  <2>5. left[d] \in Nat /\ left[d] * pa[d] < a[d]
    BY <1>5, <1>6, <2>1, <2>2
  <2>6. right[d] \in Nat /\ right[d] * pb[d] < b[d]
    BY <1>5, <1>6, <2>3, <2>4
  <2>7. QED
    BY <2>5, <2>6
<1>9. left \in [1 .. n -> Nat] /\ right \in [1 .. n -> Nat]
  BY <1>7, <1>8
<1>10. left[n] = k - 1 /\ right[n - 1] = k - 1
  BY <1>1, <1>7
<1>11. left \in Inside(a, pa) /\ right \in Inside(b, pb)
  BY <1>3, <1>8, <1>9 DEF Inside
<1>12. QED
  BY <1>10, <1>11 DEF left, right, pa, pb

\* The blocks of a dot group, from what the op makes sure of.
LEMMA DotFactors ==
  ASSUME NEW n \in Nat, n >= 2, NEW A \in [1 .. n -> Nat], NEW B \in [1 .. n -> Nat], NEW D,
         B = Batched(A, A[n], B[n]), D = Dot_output_shape(A, B)
  PROVE  Factors(A, B, D, n)
<1>1. /\ A \in [1 .. n -> Int] /\ A[n] \in Nat /\ B[n] \in Nat /\ Len(A) = n /\ Len(B) = n
      /\ n \in 1 .. n /\ n - 1 \in 1 .. n /\ n # n - 1
  OBVIOUS
<1>2. B = [d \in 1 .. n |-> IF d = n - 1 THEN A[n] ELSE IF d = n THEN B[n] ELSE A[d]]
  <2>1. Batched(A, A[n], B[n]) =
          [d \in 1 .. n |-> IF d = n - 1 THEN A[n] ELSE IF d = n THEN B[n] ELSE A[d]]
    <3>1. A[n] \in Int /\ B[n] \in Int
      BY <1>1
    <3>2. QED
      BY ONLY <1>1, <3>1, n \in Nat, n >= 2, BatchedIs
  <2>2. QED
    BY <2>1
<1>3. D = [d \in 1 .. n |-> IF d = n THEN B[n] ELSE A[d]]
  <2>1. Dot_output_shape(A, B) = Batched(A, A[n - 1], B[n])
    BY <1>1 DEF Dot_output_shape
  <2>2. Batched(A, A[n - 1], B[n]) = [d \in 1 .. n |-> IF d = n THEN B[n] ELSE A[d]]
    <3>1. B[n] \in Int
      BY <1>1
    <3>2. QED
      BY ONLY <1>1, <3>1, n \in Nat, n >= 2, BatchedEnds
  <2>3. QED
    BY <2>1, <2>2
<1>4. D \in [1 .. n -> Nat]
  BY <1>1, <1>3
<1>5. Agree(A, D, n, n)
  BY <1>3 DEF Agree
<1>6. B[n - 1] = A[n] /\ \A d \in 1 .. n : d # n - 1 => B[d] = IF d = n THEN B[n] ELSE A[d]
  BY <1>1, <1>2
<1>7. Agree(B, D, n, n - 1)
  BY <1>3, <1>6 DEF Agree
<1>8. QED
  BY <1>4, <1>5, <1>6, <1>7 DEF Factors

\* The block of an operand as the kernels are given it.
LEMMA BlockIs ==
  ASSUME NEW s \in Shapes, NEW page \in Shapes, Len(page) = Len(s), NEW i \in Inside(s, page),
         NEW n, n = Len(s), NEW b, b = Blk(i, page, s), NEW X, X = BlockShape(i, page, s)
  PROVE  IsBlock(b, X, n) /\ X \in [1 .. n -> Nat]
<1>1. /\ Extents(b) = X /\ X \in [1 .. n -> Nat \ {0}] /\ n \in Nat
      /\ \A l : l \in Cells(X) <=> l \in [1 .. n -> Nat] /\ \A d \in 1 .. n : l[d] < X[d]
  BY BlockOf
<1>2. \A l : l \in Cells(X) <=> l \in Offsets(X, n)
  BY <1>1 DEF Offsets
<1>3. Cells(X) = Offsets(X, n)
  BY <1>2
<1>4. Distinct(b, Cells(X))
  <2>1. Distinct(b, Cells(Extents(b)))
    BY OneOffset
  <2>2. QED
    BY <1>1, <2>1
<1>5. X \in [1 .. n -> Nat]
  BY <1>1
<1>6. QED
  BY <1>1, <1>3, <1>4, <1>5 DEF IsBlock

\* What the kernel of dot does on one group.
LEMMA DotGroup ==
  ASSUME NEW op, op.kind = "dot", NEW a \in Shapes, NEW b \in Shapes, NEW out \in Shapes,
         NEW n \in Nat, DotArgs(a, b, n), Len(out) = n,
         NEW pa \in Shapes, NEW pb \in Shapes, NEW pc \in Shapes,
         Len(pa) = n, Len(pb) = n, Len(pc) = n,
         NEW shapes, DOMAIN shapes = 1 .. 2, shapes[1] = a, shapes[2] = b,
         NEW pages, pages[1] = pa, pages[2] = pb,
         NEW idxs, idxs[1] \in Inside(a, pa), idxs[2] \in Inside(b, pb), NEW o \in Inside(out, pc),
         Conform(op, shapes, pages, idxs),
         ResultShape(op, shapes, pages, idxs) = BlockShape(o, pc, out),
         NEW d, d = Blk(o, pc, out)
  PROVE  /\ Touches(op, shapes, pages, d, idxs, 1, Blk(idxs[1], pa, a))
         /\ Adjoint(op, shapes, pages, d, idxs, 1, Blk(idxs[1], pa, a))
         /\ Touches(op, shapes, pages, d, idxs, 2, Blk(idxs[2], pb, b))
         /\ Adjoint(op, shapes, pages, d, idxs, 2, Blk(idxs[2], pb, b))
<1> DEFINE A == BlockShape(idxs[1], pa, a)
           B == BlockShape(idxs[2], pb, b)
           D == BlockShape(o, pc, out)
           left == Blk(idxs[1], pa, a)
           right == Blk(idxs[2], pb, b)
           blk == Blocks(shapes, pages, idxs)
           ext == [p \in DOMAIN shapes |-> BlockShape(idxs[p], pages[p], shapes[p])]
<1>0. n >= 2 /\ Len(a) = n /\ Len(b) = n
  BY DEF DotArgs
<1>1. IsBlock(left, A, n) /\ A \in [1 .. n -> Nat]
  BY <1>0, BlockIs
<1>2. IsBlock(right, B, n) /\ B \in [1 .. n -> Nat]
  <2>1. b \in Shapes /\ pb \in Shapes /\ Len(pb) = Len(b) /\ idxs[2] \in Inside(b, pb) /\ n = Len(b)
    BY <1>0
  <2>2. QED
    BY ONLY <2>1, BlockIs
<1>3. IsBlock(d, D, n) /\ D \in [1 .. n -> Nat]
  BY BlockIs
<1>4. blk[1] = left /\ blk[2] = right /\ ext[1] = A /\ ext[2] = B
  BY DEF Blocks
<1>5. B = Batched(A, A[n], B[n])
  <2>1. A = BlockShape(idxs[1], pages[1], shapes[1]) /\ B = BlockShape(idxs[2], pages[2], shapes[2])
    OBVIOUS
  <2>2. Len(shapes[1]) = n
    BY <1>0
  <2> HIDE DEF A, B
  <2>3. Conform(op, shapes, pages, idxs) <=> B = Batched(A, A[Len(shapes[1])], B[Len(shapes[1])])
    BY <2>1, DotConform
  <2>4. QED
    BY <2>2, <2>3
<1>6. D = Dot_output_shape(A, B)
  <2>1. ResultShape(op, shapes, pages, idxs) = output_shape(op, ext)
    BY DEF ResultShape
  <2> HIDE DEF ext, A, B, D
  <2>2. output_shape(op, ext) = Dot_output_shape(ext[1], ext[2])
    BY OutputOf
  <2>3. QED
    BY <1>4, <2>1, <2>2 DEF D
<1> HIDE DEF A, B, D, left, right, blk, ext
<1>7. Factors(A, B, D, n)
  BY <1>0, <1>1, <1>2, <1>5, <1>6, DotFactors
<1>8. /\ Extents(left) = A /\ Extents(right) = B /\ Extents(d) = D
      /\ Cells(D) = Offsets(D, n)
  BY <1>1, <1>2, <1>3 DEF IsBlock
<1>9. Touches(op, shapes, pages, d, idxs, 1, left) /\ Adjoint(op, shapes, pages, d, idxs, 1, left)
  BY <1>1, <1>4, <1>7, <1>8, DotAdjointLeft DEF blk
<1>10. Touches(op, shapes, pages, d, idxs, 2, right) /\ Adjoint(op, shapes, pages, d, idxs, 2, right)
  BY <1>2, <1>4, <1>7, <1>8, DotAdjointRight DEF blk
<1>11. QED
  BY <1>9, <1>10 DEF left, right

\* dot: one group per block along the contracted dimension.
LEMMA DotDerived ==
  ASSUME NEW op, op.kind = "dot", NumInputs(op) = 2, NEW a \in Shapes, NEW b \in Shapes,
         NEW n \in Nat, DotArgs(a, b, n), NEW side \in Nat \ {0},
         NEW shapes, Accepts(op, shapes), DOMAIN shapes = 1 .. 2, shapes[1] = a, shapes[2] = b,
         NEW pages, pages = [p \in DOMAIN shapes |-> PageOf(side, shapes[p])],
         NEW out, out = output_shape(op, shapes), NEW o \in Inside(out, PageOf(side, out))
  PROVE  Derived(op, shapes, pages, PageOf(side, out), o)
<1> DEFINE pa == PageOf(side, a)
           pb == PageOf(side, b)
           pc == PageOf(side, out)
           d == Blk(o, pc, out)
           count == CeilDiv(a[n], pa[n])
           left(k) == Batched(o, o[Len(o) - 1], k - 1)
           right(k) == Batched(o, k - 1, o[Len(o)])
           g == index_map(op, shapes, pages, o)
<1>1. n >= 2 /\ Len(a) = n /\ Len(b) = n /\ pages[1] = pa /\ pages[2] = pb
  BY DEF DotArgs
<1>2. out = Dot_output_shape(a, b) /\ out \in Shapes /\ Len(out) = n
  <2>1. out = Dot_output_shape(a, b) /\ out \in Shapes
    BY OutputOf, OutputShapes
  <2>2. Dot_output_shape(a, b) = [e \in 1 .. n |-> IF e = n THEN b[n] ELSE a[e]]
    <3>1. n \in Nat /\ n >= 2 /\ Len(a) = n /\ Len(b) = n /\ a \in Shapes /\ b \in Shapes
      BY <1>1
    <3>2. QED
      BY ONLY <3>1, DotShapes, ZenonT(40)
  <2>3. DOMAIN out = 1 .. n
    BY <2>1, <2>2
  <2>4. QED
    BY <2>1, <2>3 DEF Shapes
<1>3. /\ pa \in Shapes /\ pb \in Shapes /\ pc \in Shapes /\ Len(pa) = n /\ Len(pb) = n /\ Len(pc) = n
      /\ a[n] \in Nat \ {0} /\ pa[n] \in Nat \ {0}
  BY <1>1, <1>2, PageFacts
<1>4. count \in Nat
  BY <1>3, CeilDivIs
<1>5. g = [k \in 1 .. count |-> << left(k), right(k) >>]
  <2>1. g = Dot_index_map(k_blocks(shapes, pages), o)
    BY DotParts
  <2>2. k_blocks(shapes, pages) = count
    BY <1>1, <1>3 DEF k_blocks
  <2> HIDE DEF count, g
  <2>3. QED
    BY <2>1, <2>2 DEF Dot_index_map
<1>6. ASSUME NEW k \in 1 .. count
      PROVE  left(k) \in Inside(a, pa) /\ right(k) \in Inside(b, pb) /\ left(k)[n] = k - 1 /\ right(k)[n - 1] = k - 1
  BY <1>2, DotInside
<1> HIDE DEF left, right, count
<1>7. DOMAIN g = 1 .. count /\ \A k \in 1 .. count : g[k][1] = left(k) /\ g[k][2] = right(k)
  <2> HIDE DEF g
  <2>1. DOMAIN g = 1 .. count /\ \A k \in 1 .. count : g[k] = << left(k), right(k) >>
    BY <1>5
  <2>2. QED
    BY <2>1
<1>8. \A k \in DOMAIN g : /\ Conform(op, shapes, pages, g[k])
                          /\ ResultShape(op, shapes, pages, g[k]) = BlockShape(o, pc, out)
  BY GroupShapes
<1> HIDE DEF g, pa, pb, pc, d
<1>9. ASSUME NEW k \in DOMAIN g
      PROVE  /\ g[k][1] \in Inside(a, pa) /\ g[k][2] \in Inside(b, pb)
             /\ Touches(op, shapes, pages, d, g[k], 1, Blk(g[k][1], pa, a))
             /\ Adjoint(op, shapes, pages, d, g[k], 1, Blk(g[k][1], pa, a))
             /\ Touches(op, shapes, pages, d, g[k], 2, Blk(g[k][2], pb, b))
             /\ Adjoint(op, shapes, pages, d, g[k], 2, Blk(g[k][2], pb, b))
  <2> DEFINE idxs == g[k]
  <2>1. idxs[1] \in Inside(a, pa) /\ idxs[2] \in Inside(b, pb)
    BY <1>6, <1>7
  <2>2. Conform(op, shapes, pages, idxs) /\ ResultShape(op, shapes, pages, idxs) = BlockShape(o, pc, out)
    BY <1>8
  <2>3. o \in Inside(out, pc) /\ d = Blk(o, pc, out)
    BY DEF pc, d
  <2> HIDE DEF idxs
  <2>4. /\ Touches(op, shapes, pages, d, idxs, 1, Blk(idxs[1], pa, a))
        /\ Adjoint(op, shapes, pages, d, idxs, 1, Blk(idxs[1], pa, a))
        /\ Touches(op, shapes, pages, d, idxs, 2, Blk(idxs[2], pb, b))
        /\ Adjoint(op, shapes, pages, d, idxs, 2, Blk(idxs[2], pb, b))
    <3>1. /\ op.kind = "dot" /\ a \in Shapes /\ b \in Shapes /\ out \in Shapes /\ n \in Nat
          /\ DotArgs(a, b, n) /\ Len(out) = n
          /\ DOMAIN shapes = 1 .. 2 /\ shapes[1] = a /\ shapes[2] = b
      BY <1>2
    <3>2. QED
      BY ONLY <1>1, <1>3, <2>1, <2>2, <2>3, <3>1, DotGroup
  <2>5. QED
    BY <2>1, <2>4 DEF idxs
<1>10. ASSUME NEW l \in DOMAIN g, NEW m \in DOMAIN g, NEW p \in 1 .. 2, g[l][p] = g[m][p]
       PROVE  l = m
  <2>1. l - 1 = m - 1
    BY <1>6, <1>7, <1>10
  <2>2. QED
    BY <1>4, <1>7, <2>1
<1>11. \A p \in 1 .. 2 : p = 1 \/ p = 2
  OBVIOUS
<1>12. d = Blk(o, pc, output_shape(op, shapes))
  BY DEF d
<1>13. \A p \in 1 .. 2 : \A m \in DOMAIN g :
         /\ g[m][p] \in Inside(shapes[p], pages[p])
         /\ Touches(op, shapes, pages, d, g[m], p, Blk(g[m][p], pages[p], shapes[p]))
         /\ Adjoint(op, shapes, pages, d, g[m], p, Blk(g[m][p], pages[p], shapes[p]))
  BY <1>1, <1>9, <1>11
<1>14. QED
  BY <1>10, <1>12, <1>13 DEF Derived, g, pc

\* What backward_block must satisfy, for every op on all operands it accepts.
LEMMA AcceptedDerived ==
  ASSUME NEW op, NEW shapes, Accepts(op, shapes), NEW side \in Nat \ {0},
         NEW pages, pages = [p \in DOMAIN shapes |-> PageOf(side, shapes[p])],
         NEW out, out = output_shape(op, shapes), NEW o \in Inside(out, PageOf(side, out))
  PROVE  Derived(op, shapes, pages, PageOf(side, out), o)
<1>1. CASE op.kind \in Elementwise /\ NumInputs(op) = 2 /\ \E s \in Shapes : shapes = << s, s >>
  <2>1. PICK s \in Shapes : shapes = << s, s >>
    BY <1>1
  <2> DEFINE page == PageOf(side, s)
  <2>2. out = s
    <3>1. out = shapes[1]
      BY <1>1, OutputOf
    <3>2. QED
      BY <2>1, <3>1
  <2>3. DOMAIN shapes = 1 .. 2 /\ shapes[1] = s /\ shapes[2] = s /\ pages[1] = page /\ pages[2] = page
    BY <2>1
  <2>4. o \in Inside(s, page) /\ page \in Shapes /\ Len(page) = Len(s)
    BY <2>2, PageFacts
  <2> HIDE DEF page
  <2>5. Derived(op, shapes, pages, page, o)
    <3>1. op.kind \in Elementwise /\ NumInputs(op) = 2 /\ s \in Shapes
      BY <1>1
    <3>2. QED
      BY ONLY <2>3, <2>4, <3>1, ElementwiseDerived
  <2>6. QED
    BY <2>2, <2>5 DEF page
<1>2. CASE op.kind = "square" /\ NumInputs(op) = 1 /\ \E s \in Shapes : shapes = << s >>
  <2>1. PICK s \in Shapes : shapes = << s >>
    BY <1>2
  <2> DEFINE page == PageOf(side, s)
  <2>2. out = s
    <3>1. out = shapes[1]
      BY <1>2, OutputOf
    <3>2. QED
      BY <2>1, <3>1
  <2>3. DOMAIN shapes = 1 .. 1 /\ shapes[1] = s /\ pages[1] = page
    BY <2>1
  <2>4. o \in Inside(s, page) /\ page \in Shapes /\ Len(page) = Len(s)
    BY <2>2, PageFacts
  <2> HIDE DEF page
  <2>5. Derived(op, shapes, pages, page, o)
    <3>1. op.kind = "square" /\ NumInputs(op) = 1 /\ s \in Shapes
      BY <1>2
    <3>2. QED
      BY ONLY <2>3, <2>4, <3>1, SquareDerived
  <2>6. QED
    BY <2>2, <2>5 DEF page
<1>3. CASE op.kind = "sum" /\ NumInputs(op) = 1 /\ \E s \in Shapes : shapes = << s >>
  <2>1. PICK s \in Shapes : shapes = << s >>
    BY <1>3
  <2> DEFINE page == PageOf(side, s)
             outPage == PageOf(side, out)
  <2>2. DOMAIN shapes = 1 .. 1 /\ shapes[1] = s /\ pages[1] = page
    BY <2>1
  <2>3. page \in Shapes /\ Len(page) = Len(s)
    BY PageFacts
  <2> HIDE DEF page, outPage
  <2>4. Derived(op, shapes, pages, outPage, o)
    <3>1. op.kind = "sum" /\ NumInputs(op) = 1 /\ s \in Shapes
      BY <1>3
    <3>2. QED
      BY ONLY <2>2, <2>3, <3>1, SumDerived
  <2>5. QED
    BY <2>4 DEF outPage
<1>4. CASE /\ op.kind = "transpose" /\ NumInputs(op) = 1
           /\ \E s \in Shapes : shapes = << s >> /\ (op.axes = << >> \/ Permutes(op.axes, s))
  <2>1. PICK s \in Shapes : shapes = << s >> /\ (op.axes = << >> \/ Permutes(op.axes, s))
    BY <1>4
  <2>2. DOMAIN shapes = 1 .. 1 /\ shapes[1] = s
    BY <2>1
  <2>3. QED
    BY <1>4, <2>1, <2>2, TransposeDerived
<1>5. CASE /\ op.kind = "dot" /\ NumInputs(op) = 2
           /\ \E a, b \in Shapes : /\ shapes = << a, b >> /\ Len(a) >= 2 /\ Len(b) = Len(a)
                                   /\ b = Batched(a, a[Len(a)], b[Len(a)])
  <2>1. PICK a \in Shapes, b \in Shapes :
          /\ shapes = << a, b >> /\ Len(a) >= 2 /\ Len(b) = Len(a)
          /\ b = Batched(a, a[Len(a)], b[Len(a)])
    BY <1>5
  <2> DEFINE n == Len(a)
  <2>2. n \in Nat /\ n >= 2 /\ Len(a) = n /\ Len(b) = n
    BY <2>1 DEF Shapes
  <2>3. (\A d \in 1 .. n - 2 : b[d] = a[d]) /\ b[n - 1] = a[n]
    <3>1. b = Batched(a, a[n], b[n])
      BY <2>1
    <3> HIDE DEF n
    <3>2. QED
      BY <2>2, <3>1, DotOperands
  <2>4. DOMAIN shapes = 1 .. 2 /\ shapes[1] = a /\ shapes[2] = b
    BY <2>1
  <2> HIDE DEF n
  <2>5. DotArgs(a, b, n)
    BY <2>2, <2>3 DEF DotArgs
  <2>6. QED
    BY <1>5, <2>2, <2>4, <2>5, DotDerived
<1>6. QED
  BY <1>1, <1>2, <1>3, <1>4, <1>5, AcceptedKinds

\* The cells of the blocks of an array: each is in the array, in no other block, and its
\* offset can be had back.
LEMMA CellOf ==
  ASSUME NEW s \in Shapes, NEW page \in Shapes, Len(page) = Len(s), NEW i \in Inside(s, page),
         NEW l \in Cells(Extents(Blk(i, page, s))), NEW x, x = At(Blk(i, page, s), l)
  PROVE  /\ x \in Cells(s) /\ x \in Covered(i, page, s) /\ i = Home(x, page)
         /\ l = [d \in DOMAIN x |-> x[d] - i[d] * page[d]]
<1> DEFINE n == Len(s)
<1>1. /\ Extents(Blk(i, page, s)) = BlockShape(i, page, s) /\ n \in Nat /\ x = Global(i, page, l)
      /\ l \in [1 .. n -> Nat] /\ \A d \in 1 .. n : i[d] \in Nat /\ page[d] \in Nat
  BY BlockOf
<1>2. x \in Covered(i, page, s)
  BY <1>1 DEF Covered
<1>3. x \in Cells(s)
  BY <1>2, CoveredInside
<1>4. i = Home(x, page)
  BY <1>2, <1>3, HomeCovers
<1>5. l = [d \in DOMAIN x |-> x[d] - i[d] * page[d]]
  <2> HIDE DEF n
  <2>1. DOMAIN x = 1 .. n /\ \A d \in 1 .. n : x[d] = i[d] * page[d] + l[d]
    BY <1>1 DEF Global
  <2>2. ASSUME NEW d \in 1 .. n PROVE x[d] - i[d] * page[d] = l[d]
    <3> DEFINE c == i[d] * page[d]
    <3>1. c \in Int /\ l[d] \in Int /\ x[d] = c + l[d]
      BY <1>1, <2>1
    <3> HIDE DEF c
    <3>2. x[d] - c = l[d]
      BY <3>1
    <3>3. QED
      BY <3>2 DEF c
  <2>3. QED
    BY <1>1, <2>1, <2>2
<1>6. QED
  BY <1>2, <1>3, <1>4, <1>5

\* The operands of an op that accepts them, cut into pages of one side.
Paged(op, shapes, side, pages, outPage) ==
  /\ Accepts(op, shapes) /\ side \in Nat \ {0}
  /\ pages = [p \in DOMAIN shapes |-> PageOf(side, shapes[p])]
  /\ outPage = PageOf(side, output_shape(op, shapes))

\* Group m of output block o gives block i of operand p a part of its gradient, and what it
\* gives the cell at `local`.
Contributes(op, shapes, pages, outPage, p, i, o, m) ==
  /\ o \in Inside(output_shape(op, shapes), outPage)
  /\ m \in DOMAIN index_map(op, shapes, pages, o) /\ index_map(op, shapes, pages, o)[m][p] = i
GradientPart(op, shapes, pages, outPage, p, o, m, local) ==
  backward_block(op, shapes, pages, Blk(o, outPage, output_shape(op, shapes)),
                 index_map(op, shapes, pages, o)[m], p, local)

\* What is known of the arrays of such a call.
LEMMA PagedFacts ==
  ASSUME NEW op, NEW shapes, NEW side, NEW pages, NEW outPage,
         Paged(op, shapes, side, pages, outPage),
         NEW p \in 1 .. NumInputs(op), NEW out, out = output_shape(op, shapes)
  PROVE  /\ shapes[p] \in Shapes /\ pages[p] \in Shapes /\ Len(pages[p]) = Len(shapes[p])
         /\ out \in Shapes /\ outPage \in Shapes /\ Len(outPage) = Len(out)
<1>1. shapes \in Seq(Shapes) /\ Len(shapes) = NumInputs(op)
  BY DEF Paged, Accepts, Shapes
<1>2. p \in DOMAIN shapes /\ shapes[p] \in Shapes
  BY <1>1
<1>3. pages[p] = PageOf(side, shapes[p]) /\ outPage = PageOf(side, out) /\ side \in Nat \ {0}
  BY <1>2 DEF Paged
<1>4. out \in Shapes
  BY OutputShapes DEF Paged
<1>5. QED
  BY <1>2, <1>3, <1>4, PageFacts

\* What backward_block does for one output block.
LEMMA PagedDerived ==
  ASSUME NEW op, NEW shapes, NEW side, NEW pages, NEW outPage,
         Paged(op, shapes, side, pages, outPage),
         NEW o \in Inside(output_shape(op, shapes), outPage)
  PROVE  Derived(op, shapes, pages, outPage, o)
  BY AcceptedDerived DEF Paged

\* What forward_block does for it.
LEMMA PagedSound ==
  ASSUME NEW op, NEW shapes, NEW side, NEW pages, NEW outPage,
         Paged(op, shapes, side, pages, outPage),
         NEW o \in Inside(output_shape(op, shapes), outPage), NEW e \in Cells(output_shape(op, shapes))
  PROVE  Sound(op, shapes, pages, outPage, o, e)
  BY AcceptedSound DEF Paged

\* A term of a cell of the output block is a term of the whole-array op at that cell.
LEMMA TermOfBlock ==
  ASSUME NEW op, NEW shapes, NEW side, NEW pages, NEW outPage,
         Paged(op, shapes, side, pages, outPage),
         NEW o \in Inside(output_shape(op, shapes), outPage), NEW e \in Cells(output_shape(op, shapes)),
         NEW g, g = index_map(op, shapes, pages, o),
         NEW l, l = [d \in DOMAIN e |-> e[d] - o[d] * outPage[d]], NEW t
  PROVE  t \in OutputTerms(op, shapes, e) <=>
           \E m \in DOMAIN g : t \in forward_block(op, shapes, pages, g[m], l)
<1>1. Sound(op, shapes, pages, outPage, o, e)
  BY PagedSound
<1>2. UNION {forward_block(op, shapes, pages, g[m], l) : m \in DOMAIN g} = OutputTerms(op, shapes, e)
  BY <1>1 DEF Sound
<1>3. QED
  BY <1>2

\* The definition of the reference gradient, term by term.
LEMMA GradientTermsAre ==
  ASSUME NEW op, NEW shapes, NEW p, NEW x, NEW y
  PROVE  y \in GradientTerms(op, shapes, p, x) <=>
           \E e \in Cells(output_shape(op, shapes)) : \E t \in OutputTerms(op, shapes, e) :
             t[p] = x /\ y = << e, Cofactor(op, t, p) >>
  BY DEF GradientTerms

\* What backward_block gives the cell at `local` of block i, from the definition of the
\* kernel as a derivative.
LEMMA PartTerms ==
  ASSUME NEW op, NEW shapes, NEW side, NEW pages, NEW outPage,
         Paged(op, shapes, side, pages, outPage), NEW p \in 1 .. NumInputs(op),
         NEW i, NEW o, NEW m, Contributes(op, shapes, pages, outPage, p, i, o, m),
         NEW d, d = Blk(o, outPage, output_shape(op, shapes)),
         NEW b, b = Blk(i, pages[p], shapes[p]),
         NEW g, g = index_map(op, shapes, pages, o),
         NEW local \in Cells(Extents(b)), NEW y
  PROVE  y \in GradientPart(op, shapes, pages, outPage, p, o, m, local) <=>
           \E l \in Cells(Extents(d)) : \E t \in forward_block(op, shapes, pages, g[m], l) :
             t[p] = At(b, local) /\ y = << At(d, l), Cofactor(op, t, p) >>
<1>1. o \in Inside(output_shape(op, shapes), outPage) /\ m \in DOMAIN g /\ g[m][p] = i
  BY DEF Contributes
<1>2. Derived(op, shapes, pages, outPage, o)
  BY <1>1, PagedDerived
<1>3. Adjoint(op, shapes, pages, d, g[m], p, b)
  BY <1>1, <1>2 DEF Derived
<1>4. GradientPart(op, shapes, pages, outPage, p, o, m, local)
        = backward_block(op, shapes, pages, d, g[m], p, local)
  BY DEF GradientPart
<1>5. QED
  BY <1>3, <1>4 DEF Adjoint

\* What is added to a gradient cell belongs there.
LEMMA GradientPartsBelong ==
  ASSUME NEW op, NEW shapes, NEW side, NEW pages, NEW outPage,
         Paged(op, shapes, side, pages, outPage), NEW p \in 1 .. NumInputs(op),
         NEW i \in Inside(shapes[p], pages[p]),
         NEW o, NEW m, Contributes(op, shapes, pages, outPage, p, i, o, m),
         NEW local \in Cells(BlockShape(i, pages[p], shapes[p])),
         NEW y \in GradientPart(op, shapes, pages, outPage, p, o, m, local)
  PROVE  /\ y \in GradientTerms(op, shapes, p, Global(i, pages[p], local))
         /\ y[1] \in Cells(output_shape(op, shapes)) /\ o = Home(y[1], outPage)
<1> DEFINE out == output_shape(op, shapes)
           d == Blk(o, outPage, out)
           b == Blk(i, pages[p], shapes[p])
           g == index_map(op, shapes, pages, o)
           x == Global(i, pages[p], local)
<1>1. /\ shapes[p] \in Shapes /\ pages[p] \in Shapes /\ Len(pages[p]) = Len(shapes[p])
      /\ out \in Shapes /\ outPage \in Shapes /\ Len(outPage) = Len(out)
  BY PagedFacts
<1>2. o \in Inside(out, outPage) /\ m \in DOMAIN g
  BY DEF Contributes
<1>3. local \in Cells(Extents(b)) /\ At(b, local) = x
  BY <1>1, BlockOf
<1> HIDE DEF out, x, g
<1>4. PICK l \in Cells(Extents(d)) : \E t \in forward_block(op, shapes, pages, g[m], l) :
        t[p] = At(b, local) /\ y = << At(d, l), Cofactor(op, t, p) >>
  <2> HIDE DEF b, d
  <2>1. QED
    BY <1>3, PartTerms DEF b, d, g, out
<1>4a. PICK t \in forward_block(op, shapes, pages, g[m], l) :
        t[p] = At(b, local) /\ y = << At(d, l), Cofactor(op, t, p) >>
  BY <1>4
<1> DEFINE e == At(d, l)
<1>5. e \in Cells(out) /\ o = Home(e, outPage) /\ l = [c \in DOMAIN e |-> e[c] - o[c] * outPage[c]]
  BY <1>1, <1>2, CellOf
<1> HIDE DEF e, d, b
<1>6. t \in OutputTerms(op, shapes, e)
  BY <1>2, <1>4a, <1>5, TermOfBlock DEF out, g
<1>7. y = << e, Cofactor(op, t, p) >> /\ t[p] = x
  BY <1>3, <1>4a DEF e
<1>8. y \in GradientTerms(op, shapes, p, x)
  BY <1>5, <1>6, <1>7, GradientTermsAre DEF out
<1>9. y[1] = e
  BY <1>7
<1>10. QED
  BY <1>5, <1>8, <1>9 DEF x, out

\* Nothing that belongs to a gradient cell is left out.
LEMMA GradientPartsCover ==
  ASSUME NEW op, NEW shapes, NEW side, NEW pages, NEW outPage,
         Paged(op, shapes, side, pages, outPage), NEW p \in 1 .. NumInputs(op),
         NEW i \in Inside(shapes[p], pages[p]),
         NEW local \in Cells(BlockShape(i, pages[p], shapes[p])),
         NEW y \in GradientTerms(op, shapes, p, Global(i, pages[p], local))
  PROVE  \E o, m : /\ Contributes(op, shapes, pages, outPage, p, i, o, m)
                   /\ y \in GradientPart(op, shapes, pages, outPage, p, o, m, local)
<1> DEFINE out == output_shape(op, shapes)
           b == Blk(i, pages[p], shapes[p])
           x == Global(i, pages[p], local)
<1>1. /\ shapes[p] \in Shapes /\ pages[p] \in Shapes /\ Len(pages[p]) = Len(shapes[p])
      /\ out \in Shapes /\ outPage \in Shapes /\ Len(outPage) = Len(out)
  BY PagedFacts
<1>2. local \in Cells(Extents(b)) /\ At(b, local) = x
  BY <1>1, BlockOf
<1>3. i = Home(x, pages[p])
  BY <1>1, <1>2, CellOf
<1> HIDE DEF out, x, b
<1>4a. PICK e \in Cells(out) : \E t \in OutputTerms(op, shapes, e) :
        t[p] = x /\ y = << e, Cofactor(op, t, p) >>
  BY GradientTermsAre DEF out, x
<1>4. PICK t \in OutputTerms(op, shapes, e) : t[p] = x /\ y = << e, Cofactor(op, t, p) >>
  BY <1>4a
<1> DEFINE o == Home(e, outPage)
           d == Blk(o, outPage, out)
           g == index_map(op, shapes, pages, o)
           l == [c \in DOMAIN e |-> e[c] - o[c] * outPage[c]]
<1>5. o \in Inside(out, outPage) /\ e \in Covered(o, outPage, out)
  BY <1>1, HomeCovers
<1> HIDE DEF o
<1>6. l \in Cells(Extents(d)) /\ At(d, l) = e
  <2>1. PICK k \in Cells(BlockShape(o, outPage, out)) : e = Global(o, outPage, k)
    BY <1>5 DEF Covered
  <2>2. k \in Cells(Extents(d)) /\ e = At(d, k)
    BY <1>1, <1>5, <2>1, BlockOf
  <2>3. k = l
    BY <1>1, <1>5, <2>2, CellOf
  <2>4. QED
    BY <2>2, <2>3
<1> HIDE DEF l, d, g
<1>7. PICK m \in DOMAIN g : t \in forward_block(op, shapes, pages, g[m], l)
  BY <1>5, TermOfBlock DEF out, g, l
<1>8. Derived(op, shapes, pages, outPage, o)
  BY <1>5, PagedDerived DEF out
<1> DEFINE h == g[m][p]
           c == Blk(h, pages[p], shapes[p])
<1>9. h \in Inside(shapes[p], pages[p]) /\ Touches(op, shapes, pages, d, g[m], p, c)
  BY <1>8 DEF Derived, g, d, out
<1>10. h = i
  <2> HIDE DEF h, c
  <2>1. PICK k \in Cells(Extents(c)) : t[p] = At(c, k)
    BY <1>6, <1>7, <1>9 DEF Touches
  <2>2. x = At(c, k)
    BY <1>4, <2>1
  <2>3. h = Home(x, pages[p])
    BY <1>1, <1>9, <2>1, <2>2, CellOf DEF c
  <2>4. QED
    BY <1>3, <2>3
<1>11. Contributes(op, shapes, pages, outPage, p, i, o, m)
  BY <1>5, <1>10 DEF Contributes, g, out
<1>12. y \in GradientPart(op, shapes, pages, outPage, p, o, m, local)
  <2>1. t[p] = At(b, local) /\ y = << At(d, l), Cofactor(op, t, p) >>
    BY <1>2, <1>4, <1>6
  <2>2. \E k \in Cells(Extents(d)) : \E u \in forward_block(op, shapes, pages, g[m], k) :
          u[p] = At(b, local) /\ y = << At(d, k), Cofactor(op, u, p) >>
    BY <1>6, <1>7, <2>1
  <2>3. QED
    BY <1>2, <1>11, <2>2, PartTerms DEF b, d, g, out
<1>13. QED
  BY <1>11, <1>12

\* No term is given to a gradient cell twice.
LEMMA GradientPartsOnce ==
  ASSUME NEW op, NEW shapes, NEW side, NEW pages, NEW outPage,
         Paged(op, shapes, side, pages, outPage), NEW p \in 1 .. NumInputs(op),
         NEW i \in Inside(shapes[p], pages[p]),
         NEW local \in Cells(BlockShape(i, pages[p], shapes[p])),
         NEW o, NEW m, Contributes(op, shapes, pages, outPage, p, i, o, m),
         NEW q, NEW k, Contributes(op, shapes, pages, outPage, p, i, q, k),
         NEW y \in GradientPart(op, shapes, pages, outPage, p, o, m, local),
         y \in GradientPart(op, shapes, pages, outPage, p, q, k, local)
  PROVE  o = q /\ m = k
<1>1. o = Home(y[1], outPage) /\ q = Home(y[1], outPage)
  BY GradientPartsBelong
<1>2. Derived(op, shapes, pages, outPage, o)
  BY PagedDerived DEF Contributes
<1>3. m = k
  BY <1>1, <1>2 DEF Derived, Contributes
<1>4. QED
  BY <1>1, <1>3
=============================================================================
