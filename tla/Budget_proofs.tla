---------------------------- MODULE Budget_proofs ----------------------------
(***************************************************************************)
(* Proofs about the configuration and the page shapes, for every budget,   *)
(* every OS page size, every shape of one to three dimensions and every    *)
(* mount table.                                                            *)
(***************************************************************************)
EXTENDS Budget, WellFoundedInduction, TLAPS

\* A configuration is what set_memory_budget made of some budget, and the latest answer
\* is the page derived from the configuration the op found.
ConfigInv ==
  /\ config # None => config \in [max_memory : Nat, scratch_dir : Directories]
  /\ last # None =>
       /\ last.request \in Requests /\ last.max_memory \in Nat
       /\ last.page = derive_page_shape(last.max_memory, last.request.itemsize,
                                        last.request.shape, last.request.num_inputs,
                                        last.request.phase)

IInv == TypeOK /\ ConfigInv

-----------------------------------------------------------------------------
(***************************************************************************)
(* Arithmetic.                                                             *)
(***************************************************************************)
LEMMA Quotient ==
  ASSUME NEW m \in Nat, NEW n \in Nat \ {0}
  PROVE  m \div n \in Nat /\ n * (m \div n) <= m
  OBVIOUS

LEMMA QuotientBound ==
  ASSUME NEW m \in Nat, NEW n \in Nat \ {0}, NEW q \in Nat, m >= n * q
  PROVE  m \div n >= q
  OBVIOUS

LEMMA Remainder ==
  ASSUME NEW m \in Nat, NEW n \in Nat \ {0}
  PROVE  m % n = m - n * (m \div n)
<1>1. m \in Int /\ n \in Nat /\ n >= 1
  OBVIOUS
<1>2. QED
  BY <1>1, SMTT(30)

LEMMA TimesMonotone ==
  ASSUME NEW a \in Int, NEW b \in Int, NEW c \in Nat, a <= b
  PROVE  c * a <= c * b
  OBVIOUS

\* The least number of a set: NatInduction cannot be used, this can.
Before == {ss \in Nat \X Nat : ss[1] < ss[2]}

LEMMA LeastNumber ==
  ASSUME NEW T, T \subseteq Nat, T # {}
  PROVE  \E x \in T : \A y \in T : x <= y
<1>1. IsWellFoundedOn(Before, Nat)
  BY NatLessThanWellFounded DEF OpToRel, Before
<1>2. PICK x \in T : \A y \in T : ~ (<<y, x>> \in Before)
  BY <1>1, WFMin
<1>3. ASSUME NEW y \in T PROVE x <= y
  <2>1. x \in Nat /\ y \in Nat
    OBVIOUS
  <2>2. ~ (<<y, x>> \in Before)
    BY <1>2
  <2>3. QED
    BY <2>1, <2>2 DEF Before
<1>4. QED
  BY <1>3

-----------------------------------------------------------------------------
(***************************************************************************)
(* Pages and blocks.                                                       *)
(***************************************************************************)
\* A page is at least an OS page, and if there is one for every block that may be alive
\* they fit into the budget together.
LEMMA PagesFit ==
  ASSUME NEW max_memory \in Nat, NEW peak \in Nat \ {0}
  PROVE  /\ page_size(max_memory, peak) \in Nat
         /\ page_size(max_memory, peak) >= OS_PAGE_SIZE
         /\ max_memory >= peak * OS_PAGE_SIZE =>
              peak * page_size(max_memory, peak) <= max_memory
<1> DEFINE share == max_memory \div peak
           size == Larger(OS_PAGE_SIZE, share)
           q == size \div OS_PAGE_SIZE
<1>1. OS_PAGE_SIZE \in Nat \ {0}
  BY PageSizeAssumption
<1>2. share \in Nat /\ peak * share <= max_memory
  BY Quotient
<1>3. size \in Nat /\ size >= OS_PAGE_SIZE
  BY <1>1, <1>2 DEF Larger
<1>4. q \in Nat /\ OS_PAGE_SIZE * q <= size
  BY <1>1, <1>3, Quotient
<1>5. q >= 1
  BY <1>1, <1>3, QuotientBound
<1>6. size % OS_PAGE_SIZE = size - OS_PAGE_SIZE * q
  BY <1>1, <1>3, Remainder
<1>7. page_size(max_memory, peak) = OS_PAGE_SIZE * q
  BY <1>1, <1>3, <1>4, <1>6 DEF page_size, align_to_os_page
<1>8. OS_PAGE_SIZE * q \in Nat /\ OS_PAGE_SIZE * q >= OS_PAGE_SIZE
  BY <1>1, <1>4, <1>5
<1>9. ASSUME max_memory >= peak * OS_PAGE_SIZE
      PROVE  peak * page_size(max_memory, peak) <= max_memory
  <2>1. share >= OS_PAGE_SIZE
    BY <1>1, <1>9, QuotientBound
  <2>2. size = share
    BY <1>1, <1>2, <2>1 DEF Larger
  <2>3. page_size(max_memory, peak) <= share
    BY <1>4, <1>7, <2>2
  <2>4. peak * page_size(max_memory, peak) <= peak * share
    BY <1>2, <1>7, <1>8, <2>3, TimesMonotone
  <2>5. QED
    BY <1>2, <1>7, <1>8, <2>4
<1>10. QED
  BY <1>7, <1>8, <1>9

\* The root is rounded to the nearest integer, and there is one to round to.
LEMMA RootOfOne ==
  ASSUME NEW e \in Nat
  PROVE  RoundRoot(e, 1) = e
<1>1. \A r \in 0 .. e : Power(2 * r - 1, 1) <= e * Power(2, 1) /\ e * Power(2, 1) < Power(2 * r + 1, 1)
                          <=> r = e
  BY DEF Power
<1>2. QED
  BY <1>1 DEF RoundRoot

LEMMA RootOfTwo ==
  ASSUME NEW e \in Nat \ {0}
  PROVE  /\ RoundRoot(e, 2) \in Nat
         /\ (2 * RoundRoot(e, 2) - 1) * (2 * RoundRoot(e, 2) - 1) <= e * 4
<1> DEFINE T == {r \in Nat : e * 4 < (2 * r + 1) * (2 * r + 1)}
           Near(r) == /\ (2 * r - 1) * (2 * r - 1) <= e * 4
                      /\ e * 4 < (2 * r + 1) * (2 * r + 1)
<1>1. PICK r \in T : \A y \in T : r <= y
  <2>1. e \in T
    OBVIOUS
  <2>2. T \subseteq Nat /\ T # {}
    BY <2>1
  <2> HIDE DEF T
  <2>3. QED
    BY <2>2, LeastNumber
<1>2. e \in T
  OBVIOUS
<1>3. r \in 0 .. e
  BY <1>1, <1>2
<1>4. r = 0 \/ r - 1 \notin T
  BY <1>1
<1>5. Near(r)
  <2>1. r = 0 \/ ~ (e * 4 < (2 * (r - 1) + 1) * (2 * (r - 1) + 1))
    BY <1>3, <1>4
  <2>2. QED
    BY <1>1, <1>3, <2>1
<1>6. RoundRoot(e, 2) = CHOOSE s \in 0 .. e : Near(s)
  BY DEF RoundRoot, Power
<1> HIDE DEF Near
<1>7. RoundRoot(e, 2) \in 0 .. e /\ Near(RoundRoot(e, 2))
  BY <1>3, <1>5, <1>6
<1>8. QED
  BY <1>7 DEF Near

LEMMA RootOfThree ==
  ASSUME NEW e \in Nat
  PROVE  /\ RoundRoot(e, 3) \in Nat
         /\ (2 * RoundRoot(e, 3) - 1) * (2 * RoundRoot(e, 3) - 1) * (2 * RoundRoot(e, 3) - 1)
              <= e * 8
<1> DEFINE T == {r \in Nat : e * 8 < (2 * r + 1) * (2 * r + 1) * (2 * r + 1)}
           Near(r) == /\ (2 * r - 1) * (2 * r - 1) * (2 * r - 1) <= e * 8
                      /\ e * 8 < (2 * r + 1) * (2 * r + 1) * (2 * r + 1)
<1>1. PICK r \in T : \A y \in T : r <= y
  <2>1. e \in T
    OBVIOUS
  <2>2. T \subseteq Nat /\ T # {}
    BY <2>1
  <2> HIDE DEF T
  <2>3. QED
    BY <2>2, LeastNumber
<1>2. e \in T
  OBVIOUS
<1>3. r \in 0 .. e
  BY <1>1, <1>2
<1>4. r = 0 \/ r - 1 \notin T
  BY <1>1
<1>5. Near(r)
  BY <1>1, <1>4
<1>6. RoundRoot(e, 3) = CHOOSE s \in 0 .. e : Near(s)
  BY DEF RoundRoot, Power
<1> HIDE DEF Near
<1>7. RoundRoot(e, 3) \in 0 .. e /\ Near(RoundRoot(e, 3))
  BY <1>3, <1>5, <1>6
<1>8. QED
  BY <1>7 DEF Near

-----------------------------------------------------------------------------
\* What rounding up can cost: at most one side of a rectangle, two faces of a box.
LEMMA RectangleSlack ==
  ASSUME NEW e \in Nat, NEW s \in Nat, NEW a \in 1 .. s, NEW b \in 1 .. s,
         (2 * s - 1) * (2 * s - 1) <= e * 4
  PROVE  a * b - Larger(a, b) <= e
<1>1. s * s - s <= e
  OBVIOUS
<1>2. ASSUME NEW x \in 1 .. s, NEW y \in 1 .. s, x <= y PROVE x * y - y <= e
  <2>1. (x - 1) * y <= (s - 1) * y
    OBVIOUS
  <2>2. (s - 1) * y <= (s - 1) * s
    OBVIOUS
  <2>3. x * y - y = (x - 1) * y /\ (s - 1) * s = s * s - s
    OBVIOUS
  <2>4. QED
    BY <1>1, <2>1, <2>2, <2>3
<1>3. CASE a < b
  BY <1>2, <1>3 DEF Larger
<1>4. CASE ~ (a < b)
  <2>1. b * a - a <= e
    BY <1>2, <1>4
  <2>2. b * a = a * b
    OBVIOUS
  <2>3. QED
    BY <1>4, <2>1, <2>2 DEF Larger
<1>5. QED
  BY <1>3, <1>4

LEMMA BoxSlack ==
  ASSUME NEW e \in Nat, NEW s \in Nat, NEW a \in 1 .. s, NEW b \in 1 .. s, NEW c \in 1 .. s,
         (2 * s - 1) * (2 * s - 1) * (2 * s - 1) <= e * 8
  PROVE  a * b * c - 2 * (Larger(a, Larger(b, c)) * Larger(a, Larger(b, c))) <= e
<1> DEFINE m == Larger(a, Larger(b, c))
<1>1. m \in 1 .. s /\ a <= m /\ b <= m /\ c <= m
  BY DEF Larger
<1> HIDE DEF m
<1>2. a * b * c <= m * m * m
  <2>1. a * b <= m * b /\ m * b <= m * m
    BY <1>1
  <2>2. (a * b) * c <= (m * m) * c
    BY <1>1, <2>1
  <2>3. (m * m) * c <= (m * m) * m
    BY <1>1
  <2>4. QED
    BY <1>1, <2>2, <2>3
<1>3. m * m * m - 2 * (m * m) = (m * m) * (m - 2)
  BY <1>1
<1>4. (m * m) * (m - 2) <= e
  <2>1. CASE m <= 2
    BY <1>1, <2>1
  <2>2. CASE m > 2
    <3>1. m * m <= s * s
      <4>1. m * m <= m * s /\ m * s <= s * s
        BY <1>1
      <4>2. QED
        BY <1>1, <4>1
    <3>2. (m * m) * (m - 2) <= (s * s) * (m - 2)
      BY <1>1, <2>2, <3>1
    <3>3. (s * s) * (m - 2) <= (s * s) * (s - 2)
      BY <1>1
    <3>4. 8 * ((s * s) * (s - 2)) = (2 * s - 1) * (2 * s - 1) * (2 * s - 1)
                                      - 4 * (s * s) - 6 * s + 1
      OBVIOUS
    <3>5. 8 * ((s * s) * (s - 2)) <= 8 * e
      <4>1. s * s \in Nat /\ s >= 1
        BY <1>1
      <4>2. QED
        BY <3>4, <4>1
    <3>6. QED
      BY <1>1, <3>2, <3>3, <3>5
  <2>3. QED
    BY <1>1, <2>1, <2>2
<1>5. QED
  BY <1>1, <1>2, <1>3, <1>4 DEF m

-----------------------------------------------------------------------------
\* A budget is a number of bytes, whatever its suffix.
LEMMA BudgetIsNat ==
  ASSUME NEW b \in Budgets, Parsable(b), available \in Available
  PROVE  EffectiveBytes(b) \in Nat
<1>1. b.tenths \in Nat /\ available \in Nat
  BY MemoryAssumption
<1>2. _parse_memory(b) \in Nat
  <2>1. CASE b.unit = ""
    <3>1. _parse_memory(b) = b.tenths \div 10
      BY <2>1 DEF _parse_memory
    <3>2. QED
      BY <1>1, <3>1
  <2>2. CASE b.unit # ""
    <3>1. b.unit \in MemorySuffixes
      BY <2>2 DEF Parsable
    <3>2. _UNITS(b.unit) \in Nat
      BY <3>1 DEF MemorySuffixes, _UNITS
    <3>3. _parse_memory(b) = (b.tenths * _UNITS(b.unit)) \div 10
      BY <2>2 DEF _parse_memory
    <3>4. QED
      BY <1>1, <3>2, <3>3, Quotient
  <2>3. QED
    BY <2>1, <2>2
<1>3. (8 * available) \div 10 \in Nat
  BY <1>1
<1>4. QED
  BY <1>2, <1>3 DEF EffectiveBytes, Clamped, Least

\* Nothing is configured when the program starts.
LEMMA InitIInv == Init => IInv
  BY StepsAssumption, MountsAssumption DEF Init, IInv, TypeOK, ConfigInv
\* Each call, and whatever happens around it, keeps the invariant.
LEMMA NextIInv == IInv /\ [Next]_vars => IInv'
<1> SUFFICES ASSUME IInv, [Next]_vars PROVE IInv'
  OBVIOUS
<1> USE DEF IInv
<1>0. Next => steps' \in 0 .. MaxSteps
  BY StepsAssumption DEF Next, TypeOK
<1>1. ASSUME Next, NEW b \in Budgets, NEW d \in Dirs, NEW allow \in BOOLEAN,
             set_memory_budget(b, d, allow)
      PROVE  IInv'
  <2> DEFINE dir == Directory(d)
  <2>1. /\ made' = made \cup {dir} /\ UNCHANGED << available, mounts, last >>
        /\ steps' \in 0 .. MaxSteps
    BY <1>0, <1>1 DEF set_memory_budget
  <2>2. dir \in Directories
    BY DEF Directories
  <2>3. CASE UNCHANGED << config, granted >>
    BY <2>1, <2>2, <2>3 DEF TypeOK, ConfigInv
  <2>4. CASE /\ config' = [max_memory |-> EffectiveBytes(b), scratch_dir |-> dir]
             /\ granted' = Grant(b, d, allow)
    <3>1. EffectiveBytes(b) \in Nat
      BY <1>1, BudgetIsNat DEF set_memory_budget, TypeOK
    <3>2. config' \in [max_memory : Nat, scratch_dir : Directories] /\ config' # None
      BY <2>2, <2>4, <3>1, NoneAssumption
    <3>3. granted' \in Grants /\ granted' # None
      <4>1. InRam(dir) \in BOOLEAN /\ available \in Available
        BY DEF InRam, TypeOK
      <4>2. Grant(b, d, allow) \in Grants
        BY <4>1 DEF Grant, Grants
      <4>3. QED
        BY <2>4, <4>2, NoneAssumption
    <3>4. config'.max_memory \in Nat /\ config'.scratch_dir \in made'
      BY <2>1, <2>4, <3>1
    <3>5. QED
      BY <2>1, <2>2, <3>2, <3>3, <3>4 DEF TypeOK, ConfigInv
  <2>5. QED
    BY <1>1, <2>3, <2>4 DEF set_memory_budget
<1>2. ASSUME Next, NEW r \in Requests, DerivePageShape(r) PROVE IInv'
  <2>1. /\ config # None /\ config.max_memory \in Nat
        /\ last' = [request |-> r, max_memory |-> config.max_memory,
                    page |-> derive_page_shape(config.max_memory, r.itemsize, r.shape,
                                               r.num_inputs, r.phase)]
        /\ UNCHANGED << config, made, available, mounts, granted >>
    BY <1>2 DEF DerivePageShape, TypeOK
  <2>2. TypeOK'
    BY <1>0, <1>2, <2>1 DEF TypeOK
  <2>3. ConfigInv'
    BY <2>1 DEF ConfigInv
  <2>4. QED
    BY <2>2, <2>3
<1>3. ASSUME Next, MemoryChanges PROVE IInv'
  BY <1>0, <1>3 DEF MemoryChanges, TypeOK, ConfigInv
<1>4. ASSUME Next, NEW m \in NewMounts, Mount(m) PROVE IInv'
  <2>1. mounts' \in Seq(Mounts)
    BY <1>4, MountsAssumption DEF Mount, TypeOK
  <2>2. QED
    BY <1>0, <1>4, <2>1 DEF Mount, TypeOK, ConfigInv
<1>5. CASE UNCHANGED vars
  BY <1>5 DEF vars, TypeOK, ConfigInv
<1>6. QED
  BY <1>1, <1>2, <1>3, <1>4, <1>5 DEF Next

\* The configuration and the latest answer are what the calls made them.
LEMMA Invariant == Spec => []IInv
<1>1. QED
  BY InitIInv, NextIInv, PTL DEF Spec

(***************************************************************************)
(* Whenever there is a configuration, its budget is a number of bytes, its *)
(* directory has been made, and some call was not refused.                 *)
(***************************************************************************)
THEOREM TypeCorrect == Spec => []TypeOK
<1>1. IInv => TypeOK
  BY DEF IInv
<1>2. QED
  BY <1>1, Invariant, PTL

\* A call configures everything it was given, or nothing; nothing else configures.
LEMMA ConfiguredStep ==
  ASSUME ConfiguredByOneCall, [Next]_vars
  PROVE  ConfiguredByOneCall'
<1>1. ASSUME NEW b \in Budgets, NEW d \in Dirs, NEW allow \in BOOLEAN,
             set_memory_budget(b, d, allow)
      PROVE  ConfiguredByOneCall'
  <2>1. CASE UNCHANGED << config, granted >>
    BY <2>1 DEF ConfiguredByOneCall
  <2>2. CASE /\ config' = [max_memory |-> EffectiveBytes(b), scratch_dir |-> Directory(d)]
             /\ granted' = Grant(b, d, allow)
    <3>1. /\ granted'.max_memory = b /\ granted'.scratch_dir = d
          /\ granted'.available = available
      BY <2>2 DEF Grant
    <3>2. config'.max_memory = Clamped(b, available) /\ config'.scratch_dir = Directory(d)
      BY <2>2 DEF EffectiveBytes
    <3>3. QED
      BY <3>1, <3>2 DEF ConfiguredByOneCall
  <2>3. QED
    BY <1>1, <2>1, <2>2 DEF set_memory_budget
<1>2. ASSUME UNCHANGED << config, granted >> PROVE ConfiguredByOneCall'
  BY <1>2 DEF ConfiguredByOneCall
<1>3. QED
  BY <1>1, <1>2 DEF Next, DerivePageShape, MemoryChanges, Mount, vars

(***************************************************************************)
(* set_memory_budget replaces the configuration as a whole or leaves it    *)
(* alone: the budget and the directory in force are those of one call, the *)
(* latest that was not refused, clamped to the memory there was then.      *)
(***************************************************************************)
THEOREM ConfigurationIsOfOneCall == Spec => []ConfiguredByOneCall
<1>1. Init => ConfiguredByOneCall
  BY DEF Init, ConfiguredByOneCall
<1>2. ConfiguredByOneCall /\ [Next]_vars => ConfiguredByOneCall'
  BY ConfiguredStep
<1>3. QED
  BY <1>1, <1>2, PTL DEF Spec

(***************************************************************************)
(* Arrays of one call get the same block along an extent they share: the   *)
(* side depends on the call, not on the array.                             *)
(***************************************************************************)
THEOREM OperandsAgree == Spec => []OperandsMeet
<1>1. IInv => OperandsMeet
  BY DEF IInv, ConfigInv, OperandsMeet, derive_page_shape
<1>2. QED
  BY <1>1, Invariant, PTL

\* The elements of a block without what rounding up its side can add.
Excess(page) ==
  CASE Len(page) = 1 -> 0
    [] Len(page) = 2 -> Larger(page[1], page[2])
    [] Len(page) = 3 -> 2 * Power(Larger(page[1], Larger(page[2], page[3])), 2)

LEMMA OfVector ==
  ASSUME NEW page, Len(page) = 1
  PROVE  Elements(page) = page[1] /\ Excess(page) = 0
  BY DEF Elements, Excess

LEMMA OfMatrix ==
  ASSUME NEW page, Len(page) = 2
  PROVE  Elements(page) = page[1] * page[2] /\ Excess(page) = Larger(page[1], page[2])
  BY DEF Elements, Excess

LEMMA OfBox ==
  ASSUME NEW page, Len(page) = 3, NEW m, m = Larger(page[1], Larger(page[2], page[3]))
  PROVE  Elements(page) = page[1] * page[2] * page[3] /\ Excess(page) = 2 * (m * m)
<1>1. Elements(page) = page[1] * page[2] * page[3]
  BY DEF Elements
<1>2. Excess(page) = 2 * Power(m, 2)
  BY DEF Excess
<1>3. Power(m, 2) = m * m
  BY DEF Power
<1>4. QED
  BY <1>1, <1>2, <1>3

\* So is the side, which is at least 1.
LEMMA SideOfTwo ==
  ASSUME NEW e \in Nat \ {0}, NEW s, s = side(e, 2)
  PROVE  s \in Nat \ {0} /\ (2 * s - 1) * (2 * s - 1) <= e * 4
<1> DEFINE r == RoundRoot(e, 2)
<1>1. r \in Nat /\ (2 * r - 1) * (2 * r - 1) <= e * 4
  BY RootOfTwo
<1>2. s = Larger(1, r)
  BY DEF side
<1> HIDE DEF r
<1>3. CASE r < 1
  <2>1. s = 1
    BY <1>1, <1>2, <1>3 DEF Larger
  <2>2. (2 * 1 - 1) * (2 * 1 - 1) <= e * 4
    OBVIOUS
  <2>3. QED
    BY <2>1, <2>2
<1>4. CASE r >= 1
  <2>1. s = r
    BY <1>1, <1>2, <1>4 DEF Larger
  <2>2. QED
    BY <1>1, <1>4, <2>1
<1>5. QED
  BY <1>1, <1>3, <1>4

LEMMA SideOfThree ==
  ASSUME NEW e \in Nat \ {0}, NEW s, s = side(e, 3)
  PROVE  s \in Nat \ {0} /\ (2 * s - 1) * (2 * s - 1) * (2 * s - 1) <= e * 8
<1> DEFINE r == RoundRoot(e, 3)
<1>1. r \in Nat /\ (2 * r - 1) * (2 * r - 1) * (2 * r - 1) <= e * 8
  BY RootOfThree
<1>2. s = Larger(1, r)
  BY DEF side
<1> HIDE DEF r
<1>3. CASE r < 1
  <2>1. s = 1
    BY <1>1, <1>2, <1>3 DEF Larger
  <2>2. (2 * 1 - 1) * (2 * 1 - 1) * (2 * 1 - 1) <= e * 8
    OBVIOUS
  <2>3. QED
    BY <2>1, <2>2
<1>4. CASE r >= 1
  <2>1. s = r
    BY <1>1, <1>2, <1>4 DEF Larger
  <2>2. QED
    BY <1>1, <1>4, <2>1
<1>5. QED
  BY <1>1, <1>3, <1>4

\* A block has no more elements than a page holds, but for the rounding of its side.
LEMMA BlockFitsPage ==
  ASSUME NEW e \in Nat \ {0}, NEW shape \in Seq(Nat \ {0}), Len(shape) \in 1 .. 3,
         NEW s, s = side(e, Len(shape)),
         NEW page, page = [d \in DOMAIN shape |-> Least(s, shape[d])]
  PROVE  /\ Elements(page) \in Int /\ Excess(page) \in Int
         /\ Elements(page) - Excess(page) <= e
<1>1. DOMAIN page = 1 .. Len(shape) /\ Len(page) = Len(shape)
  <2>1. DOMAIN shape = 1 .. Len(shape)
    OBVIOUS
  <2>2. QED
    BY <2>1
<1>2. ASSUME s \in Nat \ {0}, NEW d \in 1 .. Len(shape) PROVE page[d] \in 1 .. s
  BY <1>2 DEF Least
<1>3. CASE Len(shape) = 1
  <2>1. s = e
    BY <1>3, RootOfOne DEF side, Larger
  <2>2. page[1] \in 1 .. e
    BY <1>2, <1>3, <2>1
  <2>3. Elements(page) = page[1] /\ Excess(page) = 0
    BY <1>1, <1>3, OfVector
  <2>4. QED
    BY <2>2, <2>3
<1>4. CASE Len(shape) = 2
  <2> DEFINE a == page[1]
             b == page[2]
  <2>1. s \in Nat \ {0} /\ (2 * s - 1) * (2 * s - 1) <= e * 4
    BY <1>4, SideOfTwo
  <2>2. a \in 1 .. s /\ b \in 1 .. s
    BY <1>2, <1>4, <2>1
  <2>3. Elements(page) = a * b /\ Excess(page) = Larger(a, b)
    BY <1>1, <1>4, OfMatrix
  <2> HIDE DEF a, b
  <2>4. a * b - Larger(a, b) <= e
    BY <2>1, <2>2, RectangleSlack
  <2>5. a * b \in Int /\ Larger(a, b) \in Int
    BY <2>1, <2>2 DEF Larger
  <2>6. QED
    BY <2>3, <2>4, <2>5
<1>5. CASE Len(shape) = 3
  <2> DEFINE a == page[1]
             b == page[2]
             c == page[3]
             m == Larger(a, Larger(b, c))
  <2>1. s \in Nat \ {0} /\ (2 * s - 1) * (2 * s - 1) * (2 * s - 1) <= e * 8
    BY <1>5, SideOfThree
  <2>2. a \in 1 .. s /\ b \in 1 .. s /\ c \in 1 .. s
    BY <1>2, <1>5, <2>1
  <2>3. Elements(page) = a * b * c /\ Excess(page) = 2 * (m * m)
    BY <1>1, <1>5, OfBox
  <2> HIDE DEF a, b, c
  <2>4. a * b * c - 2 * (m * m) <= e
    BY <2>1, <2>2, BoxSlack
  <2>5. m \in Int
    BY <2>1, <2>2 DEF Larger
  <2> HIDE DEF m
  <2>6. a * b * c \in Int /\ 2 * (m * m) \in Int
    BY <2>1, <2>2, <2>5
  <2>7. QED
    BY <2>3, <2>4, <2>6
<1>6. QED
  BY <1>3, <1>4, <1>5

LEMMA BlocksFit == IInv => FitsUpToRounding
<1> DEFINE r == last.request
           peak == Peak
           size == page_size(last.max_memory, peak)
           e == elements_per_page(size, r.itemsize)
           x == Elements(last.page) - Excess(last.page)
<1> SUFFICES ASSUME IInv, last # None, last.max_memory >= peak * OS_PAGE_SIZE
             PROVE  peak * (BlockBytes - Excess(last.page) * r.itemsize) <= last.max_memory
  BY DEF FitsUpToRounding, Excess
<1>1. /\ r \in Requests /\ last.max_memory \in Nat
      /\ last.page = derive_page_shape(last.max_memory, r.itemsize, r.shape, r.num_inputs, r.phase)
  BY DEF IInv, ConfigInv
<1>2. /\ r.shape \in Seq(Nat \ {0}) /\ Len(r.shape) \in 1 .. 3
      /\ r.itemsize \in 1 .. OS_PAGE_SIZE /\ r.num_inputs \in Nat
  BY <1>1, RequestsAssumption
<1>3. OS_PAGE_SIZE \in Nat \ {0}
  BY PageSizeAssumption
<1>4. peak \in Nat \ {0}
  BY <1>2 DEF Peak, _peak_blocks
<1>5. size \in Nat /\ size >= OS_PAGE_SIZE /\ peak * size <= last.max_memory
  BY <1>1, <1>4, PagesFit
<1>6. e \in Nat \ {0} /\ r.itemsize * e <= size
  <2>1. r.itemsize \in Nat \ {0} /\ size >= r.itemsize * 1
    BY <1>2, <1>3, <1>5
  <2>2. size \div r.itemsize \in Nat /\ size \div r.itemsize >= 1
    BY <1>5, <2>1, Quotient, QuotientBound
  <2>3. e = size \div r.itemsize
    BY <2>2 DEF elements_per_page, Larger
  <2>4. QED
    BY <1>5, <2>1, <2>2, <2>3, Quotient
<1>7. last.page = [d \in DOMAIN r.shape |-> Least(side(e, Len(r.shape)), r.shape[d])]
  BY <1>1 DEF derive_page_shape, Peak
<1>8. /\ Elements(last.page) \in Int /\ Excess(last.page) \in Int
      /\ x \in Int /\ x <= e
  <2>1. /\ Elements(last.page) \in Int /\ Excess(last.page) \in Int
        /\ Elements(last.page) - Excess(last.page) <= e
    <3> HIDE DEF e, r
    <3>1. QED
      BY <1>2, <1>6, <1>7, BlockFitsPage
  <2> HIDE DEF e
  <2>2. QED
    BY <2>1
<1>13. r.itemsize \in Nat
  BY <1>2, <1>3
<1> HIDE DEF x, e, size, peak, r
<1>9. r.itemsize * x \in Int /\ r.itemsize * x <= size
  <2>1. r.itemsize * x <= r.itemsize * e
    BY <1>6, <1>8, <1>13, TimesMonotone
  <2>2. r.itemsize * x \in Int /\ r.itemsize * e \in Int
    BY <1>6, <1>8, <1>13
  <2>3. QED
    BY <1>5, <1>6, <2>1, <2>2
<1>10. peak * (r.itemsize * x) <= last.max_memory
  <2>1. peak * (r.itemsize * x) <= peak * size
    BY <1>4, <1>5, <1>9, TimesMonotone
  <2>2. peak * (r.itemsize * x) \in Int /\ peak * size \in Int
    BY <1>4, <1>5, <1>9
  <2>3. QED
    BY <1>1, <1>5, <2>1, <2>2
<1>11. BlockBytes - Excess(last.page) * r.itemsize = r.itemsize * x
  <2>1. ASSUME NEW a \in Int, NEW b \in Int PROVE a * r.itemsize - b * r.itemsize = r.itemsize * (a - b)
    BY <1>13
  <2>2. BlockBytes = Elements(last.page) * r.itemsize
    BY DEF BlockBytes, r
  <2>3. QED
    BY <1>8, <2>1, <2>2 DEF x
<1>12. QED
  BY <1>10, <1>11

(***************************************************************************)
(* For every budget of at least one OS page per block: the blocks budgeted *)
(* for fit into it but for the rounding of their side, which costs nothing *)
(* in one dimension and at most a side per block in two.                   *)
(***************************************************************************)
THEOREM BlocksFitRounded == Spec => []FitsUpToRounding
<1>1. QED
  BY BlocksFit, Invariant, PTL

-----------------------------------------------------------------------------
\* No mount lies over the mountpoint of an earlier one, which would hide it.
NoneHidden ==
  \A i, j \in DOMAIN mounts : i < j => ~IsPrefix(mounts[j].point, mounts[i].point)

\* The names a path is made of; the default directory's is a literal.
Names == STRING \cup {".jask_scratch"}

LEMMA NamesOfPath == \A p \in Seq(STRING) : p \in Seq(Names)
  BY DEF Names

\* Every directory the program can pass is a path of such names.
LEMMA DirectoryIsPath ==
  ASSUME NEW d \in Dirs
  PROVE  Directory(d) \in Seq(Names)
<1>1. CASE d = None
  <2>1. Cwd \in Seq(Names) /\ ".jask_scratch" \in Names
    BY NamesOfPath, PathsAssumption DEF Names
  <2>2. QED
    BY <1>1, <2>1 DEF Directory, _default_scratch_dir
<1>2. CASE d # None
  BY <1>2, NamesOfPath, PathsAssumption DEF Directory
<1>3. QED
  BY <1>1, <1>2

\* Of two prefixes of a path the shorter one is a prefix of the other.
LEMMA PrefixesNest ==
  ASSUME NEW p \in Seq(Names), NEW s \in Seq(Names), NEW t \in Seq(Names),
         IsPrefix(s, p), IsPrefix(t, p), Len(s) <= Len(t)
  PROVE  IsPrefix(s, t)
<1>1. \A i \in 1 .. Len(s) : s[i] = p[i]
  <2>1. SubSeq(s, 1, Len(s)) = SubSeq(p, 1, Len(s)) /\ Len(s) <= Len(p)
    BY DEF IsPrefix
  <2>2. \A i \in 1 .. Len(s) : SubSeq(s, 1, Len(s))[i] = s[i] /\ SubSeq(p, 1, Len(s))[i] = p[i]
    BY <2>1
  <2>3. QED
    BY <2>1, <2>2
<1>2. \A i \in 1 .. Len(t) : t[i] = p[i]
  <2>1. SubSeq(t, 1, Len(t)) = SubSeq(p, 1, Len(t)) /\ Len(t) <= Len(p)
    BY DEF IsPrefix
  <2>2. \A i \in 1 .. Len(t) : SubSeq(t, 1, Len(t))[i] = t[i] /\ SubSeq(p, 1, Len(t))[i] = p[i]
    BY <2>1
  <2>3. QED
    BY <2>1, <2>2
<1>3. \A i \in 1 .. Len(s) : s[i] = t[i]
  BY <1>1, <1>2
<1>4. SubSeq(s, 1, Len(s)) = SubSeq(t, 1, Len(s))
  <2>1. /\ SubSeq(s, 1, Len(s)) = [i \in 1 .. Len(s) |-> s[i]]
        /\ SubSeq(t, 1, Len(s)) = [i \in 1 .. Len(s) |-> t[i]]
    OBVIOUS
  <2>2. QED
    BY <1>3, <2>1
<1>5. QED
  BY <1>4 DEF IsPrefix

\* When no mount hides another, the one in effect over a path, which is the latest, is
\* also the one with the longest mountpoint, which the check looks at.
LEMMA RamIsSeen ==
  ASSUME NEW path \in Seq(Names), DOMAIN Links = {}, mounts \in Seq(Mounts), NoneHidden,
         InRam(path)
  PROVE  _is_ram_backed(path)
<1>1. Resolved(path) = path
  BY DEF Resolved
<1>2. PICK m \in DOMAIN mounts :
        /\ Covers(mounts[m], path)
        /\ mounts[m].fstype \in _RAM_BACKED_FSTYPES
        /\ \A j \in DOMAIN mounts : Covers(mounts[j], path) => j <= m
  BY <1>1 DEF InRam
<1>3. \A j \in DOMAIN mounts : mounts[j].point \in Seq(Names) /\ j \in Nat
  <2>1. ASSUME NEW j \in DOMAIN mounts PROVE mounts[j].point \in Seq(Names) /\ j \in Nat
    <3>1. mounts[j] \in Mounts /\ j \in Nat
      BY <2>1
    <3>2. mounts[j].point \in Seq(STRING)
      BY <3>1 DEF Mounts
    <3>3. QED
      BY <3>1, <3>2, NamesOfPath
  <2>2. QED
    BY <2>1
<1>4. ASSUME NEW j \in DOMAIN mounts, Covers(mounts[j], path)
      PROVE  \/ Len(mounts[j].point) < Len(mounts[m].point)
             \/ Len(mounts[j].point) = Len(mounts[m].point) /\ j >= m
  <2>1. CASE j = m
    BY <1>3, <2>1
  <2>2. CASE j < m
    <3>1. ~IsPrefix(mounts[m].point, mounts[j].point)
      BY <2>2 DEF NoneHidden
    <3>2. ~ (Len(mounts[m].point) <= Len(mounts[j].point))
      BY <1>2, <1>3, <1>4, <3>1, PrefixesNest DEF Covers
    <3>3. QED
      BY <1>3, <3>2
  <2>3. QED
    BY <1>2, <1>3, <1>4, <2>1, <2>2
<1>5. QED
  BY <1>2, <1>4 DEF _is_ram_backed

\* A directory in RAM is configured only by a call that allows it.
LEMMA ScratchStep ==
  ASSUME DOMAIN Links = {}, IInv, NoneHidden, ScratchOnDisk, [Next]_vars
  PROVE  ScratchOnDisk'
<1>1. ASSUME NEW b \in Budgets, NEW d \in Dirs, NEW allow \in BOOLEAN,
             set_memory_budget(b, d, allow)
      PROVE  ScratchOnDisk'
  <2>1. CASE _is_ram_backed(Directory(d)) /\ ~allow
    BY <1>1, <2>1 DEF set_memory_budget, ScratchOnDisk
  <2>2. CASE ~ (_is_ram_backed(Directory(d)) /\ ~allow)
    <3>1. granted'.allowed = allow /\ granted'.in_ram = InRam(Directory(d))
      BY <1>1, <2>2 DEF set_memory_budget, Grant
    <3>2. InRam(Directory(d)) => _is_ram_backed(Directory(d))
      BY DirectoryIsPath, RamIsSeen DEF IInv, TypeOK
    <3>3. QED
      BY <2>2, <3>1, <3>2 DEF ScratchOnDisk
  <2>3. QED
    BY <2>1, <2>2
<1>2. ASSUME UNCHANGED granted PROVE ScratchOnDisk'
  BY <1>2 DEF ScratchOnDisk
<1>3. QED
  BY <1>1, <1>2 DEF Next, DerivePageShape, MemoryChanges, Mount, vars

(***************************************************************************)
(* The check of the scratch directory is right for every machine without   *)
(* symbolic links where no mount ever hides an earlier one, whatever is    *)
(* mounted between the calls: a directory that was in RAM when it was      *)
(* configured was asked for with allow_tmpfs.                              *)
(***************************************************************************)
THEOREM ScratchStaysOnDisk ==
  ASSUME DOMAIN Links = {}
  PROVE  Spec /\ []NoneHidden => []ScratchOnDisk
<1>1. Init => ScratchOnDisk
  BY DEF Init, ScratchOnDisk
<1>2. IInv /\ NoneHidden /\ ScratchOnDisk /\ [Next]_vars => ScratchOnDisk'
  BY ScratchStep
<1>3. QED
  BY <1>1, <1>2, Invariant, PTL DEF Spec
=============================================================================
