---------------------------- MODULE BlockGeometry ----------------------------
(***************************************************************************)
(* How a BlockedArray of jask cuts an N-dimensional array into blocks      *)
(* (src/jask/base/disk_array.py).  A shape, a page shape and a block index *)
(* are sequences with one entry per dimension; block indices and cell      *)
(* coordinates count from 0 as they do in the code, and a scalar has the   *)
(* empty shape.                                                            *)
(***************************************************************************)
EXTENDS Integers, Sequences

Smaller(a, b) == IF a < b THEN a ELSE b

\* -(-s // p): Python's floor division is TLA+'s \div.
CeilDiv(s, p) == -((-s) \div p)

\* The number of blocks along each dimension.
Counts(shape, page) == [d \in DOMAIN shape |-> CeilDiv(shape[d], page[d])]

\* How far apart in the grid two neighbours along dimension d are; at 0, its size.
Strides(count) ==
  LET stride[d \in 0 .. Len(count)] ==
        IF d = Len(count) THEN 1 ELSE count[d + 1] * stride[d + 1]
  IN  stride

(***************************************************************************)
(* The blocks in the order itertools.product yields them: the last         *)
(* dimension varies fastest, and a scalar has the single block <<>>.       *)
(***************************************************************************)
block_grid(shape, page) ==
  LET count  == Counts(shape, page)
      stride == Strides(count)
  IN  [m \in 1 .. stride[0] |->
         [d \in DOMAIN shape |-> ((m - 1) \div stride[d]) % count[d]]]

\* The half-open range a block covers in each dimension, clipped at the edge.
slice_for(idx, page, shape) ==
  [d \in DOMAIN shape |-> [start |-> idx[d] * page[d],
                           stop  |-> Smaller((idx[d] + 1) * page[d], shape[d])]]

\* The shape of the numpy array that a read of the block returns.
BlockShape(idx, page, shape) ==
  LET slice == slice_for(idx, page, shape)
  IN  [d \in DOMAIN shape |-> slice[d].stop - slice[d].start]

\* All coordinates of an array, or of a block counted from its own corner.
Cells(shape) ==
  LET extents == {shape[d] : d \in DOMAIN shape}
  IN  {c \in [DOMAIN shape -> UNION {0 .. e - 1 : e \in extents}] :
         \A d \in DOMAIN shape : c[d] < shape[d]}

\* The cell of the array that lies at `local` within a block.
Global(idx, page, local) == [d \in DOMAIN local |-> idx[d] * page[d] + local[d]]

\* The cells of the array that a read or a write of the block touches.
Covered(idx, page, shape) ==
  {Global(idx, page, local) : local \in Cells(BlockShape(idx, page, shape))}
=============================================================================
