------------------------------ MODULE PageShape ------------------------------
(***************************************************************************)
(* How large a block jask takes: align_to_os_page, _peak_blocks and        *)
(* derive_page_shape (src/jask/base/base_page.py:53-59, 220-260).          *)
(***************************************************************************)
EXTENDS Integers, Sequences

CONSTANT OS_PAGE_SIZE       \* bytes in a page of the operating system

ASSUME PageSizeAssumption == OS_PAGE_SIZE \in Nat \ {0}

Larger(a, b) == IF a < b THEN b ELSE a
Least(a, b) == IF a < b THEN a ELSE b

\* Faulty: rounded up to the next page.
align_up(size) == size + ((-size) % OS_PAGE_SIZE)

align_to_os_page(size) == size - (size % OS_PAGE_SIZE)

\* pipelined, the third parameter of the code, is passed by no caller.
_peak_blocks(num_inputs, phase) ==
  IF phase = "forward" THEN num_inputs + 2 ELSE 2 * num_inputs + 2

page_size(max_memory, peak) ==
  align_to_os_page(Larger(OS_PAGE_SIZE, max_memory \div peak))

\* x ^ n, multiplied out for the numbers of dimensions the proofs are about.
Power(x, n) ==
  CASE n = 1 -> x [] n = 2 -> x * x [] n = 3 -> x * x * x [] OTHER -> x ^ n

(***************************************************************************)
(* int(round(e ** (1 / ndim))): the integer nearest to the real root, that *)
(* is the r with (r - 1/2)^ndim <= e < (r + 1/2)^ndim.  No integer e is    *)
(* half way when ndim > 1, and the root is exact when ndim = 1.  Python    *)
(* divides by zero for ndim = 0.                                           *)
(***************************************************************************)
RoundRoot(e, ndim) ==
  CHOOSE r \in 0 .. e : /\ Power(2 * r - 1, ndim) <= e * Power(2, ndim)
                        /\ e * Power(2, ndim) < Power(2 * r + 1, ndim)

elements_per_page(size, itemsize) == Larger(1, size \div itemsize)

side(elements, ndim) == Larger(1, RoundRoot(elements, ndim))

\* Faulty: blocks of whole rows, as many as fit.
derive_rows(max_memory, itemsize, full_shape, num_inputs, phase) ==
  LET size   == page_size(max_memory, _peak_blocks(num_inputs, phase))
      extent == elements_per_page(size, itemsize) \div full_shape[Len(full_shape)]
  IN  [d \in DOMAIN full_shape |-> IF d = 1 THEN Least(Larger(1, extent), full_shape[1])
                                            ELSE full_shape[d]]

derive_page_shape(max_memory, itemsize, full_shape, num_inputs, phase) ==
  LET size   == page_size(max_memory, _peak_blocks(num_inputs, phase))
      extent == side(elements_per_page(size, itemsize), Len(full_shape))
  IN  [d \in DOMAIN full_shape |-> Least(extent, full_shape[d])]
=============================================================================
