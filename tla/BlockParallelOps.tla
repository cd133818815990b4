--------------------------- MODULE BlockParallelOps ---------------------------
(***************************************************************************)
(* The BlockParallelOp subclasses of jask (src/jask/linalg/) as pure       *)
(* operators: the output shape, the index map, and what forward_block and  *)
(* backward_block compute cell by cell.  Arithmetic is symbolic: a term of *)
(* an output cell is the sequence of input cells (one per operand) whose   *)
(* values it multiplies, adds or copies, and a value is the set of its     *)
(* terms, so that a lost, misplaced or doubled contribution is visible     *)
(* where two numbers could agree by chance.                                *)
(*                                                                         *)
(* `op` is a record [kind, axes]; axes is a permutation of 1..ndim for     *)
(* transpose(a, axes) and <<>> where the code has axes=None.  "add" also   *)
(* stands for sub: signs and numeric factors of a term are not tracked.    *)
(***************************************************************************)
EXTENDS BlockGeometry

Elementwise == {"add", "mul"}
NumInputs(op) == IF op.kind \in Elementwise \cup {"dot"} THEN 2 ELSE 1

Reversed(s) == [d \in DOMAIN s |-> s[Len(s) + 1 - d]]
AxisIndex(axes, i) == CHOOSE j \in DOMAIN axes : axes[j] = i

\* Entry i of the permuted sequence comes from entry axes[i].
Permute(s, axes) == IF axes = <<>> THEN Reversed(s) ELSE [i \in DOMAIN s |-> s[axes[i]]]
\* Entry axes[i] of the result comes from entry i of the permuted sequence.
Unpermute(s, axes) ==
  IF axes = <<>> THEN Reversed(s) ELSE [i \in DOMAIN s |-> s[AxisIndex(axes, i)]]

\* Faulty: the gradient of transpose permuted like the forward pass.
NotInverted(axes) == axes

\* sorted(range(n), key=lambda i: axes[i]), the inverse permutation.
ArgSort(axes) == [i \in DOMAIN axes |-> AxisIndex(axes, i)]

\* The leading batch dimensions of a matmul operand, with the last two replaced.
Batched(s, i, j) == SubSeq(s, 1, Len(s) - 2) \o <<i, j>>

Dot_output_shape(a, b) == Batched(a, a[Len(a) - 1], b[Len(b)])

output_shape(op, shapes) ==
  CASE op.kind = "sum"       -> <<>>
    [] op.kind = "transpose" -> Permute(shapes[1], op.axes)
    [] op.kind = "dot"       -> Dot_output_shape(shapes[1], shapes[2])
    [] OTHER                 -> shapes[1]

\* Faulty: the last, ragged block of the contracted dimension is forgotten.
k_blocks_floor(shapes, pages) ==
  shapes[1][Len(shapes[1])] \div pages[1][Len(pages[1])]

\* Dot.from_inputs: the number of blocks along the contracted dimension.
k_blocks(shapes, pages) ==
  CeilDiv(shapes[1][Len(shapes[1])], pages[1][Len(pages[1])])

(***************************************************************************)
(* index_map(out_idx): the groups of input blocks whose forward_block      *)
(* results are folded into the output block, in order.                     *)
(***************************************************************************)
Add_index_map(o) == << <<o, o>> >>
Square_index_map(o) == << <<o>> >>
Sum_index_map(blocks) == [m \in DOMAIN blocks |-> << blocks[m] >>]
Transpose_index_map(o, axes) == << << Unpermute(o, axes) >> >>
Dot_index_map(count, o) ==
  [k \in 1 .. count |-> << Batched(o, o[Len(o) - 1], k - 1),
                           Batched(o, k - 1, o[Len(o)]) >>]

index_map(op, shapes, pages, o) ==
  CASE op.kind \in Elementwise -> Add_index_map(o)
    [] op.kind = "square"      -> Square_index_map(o)
    [] op.kind = "sum"         -> Sum_index_map(block_grid(shapes[1], pages[1]))
    [] op.kind = "transpose"   -> Transpose_index_map(o, op.axes)
    [] op.kind = "dot"         -> Dot_index_map(k_blocks(shapes, pages), o)

(***************************************************************************)
(* A block as the kernels are given it: they know offsets within it, At    *)
(* says which cell of the array lies there and Extents what shape it has.  *)
(***************************************************************************)
Blk(idx, page, shape) == [idx |-> idx, page |-> page, shape |-> shape]
At(b, local) == Global(b.idx, b.page, local)
Extents(b) == BlockShape(b.idx, b.page, b.shape)

Blocks(shapes, pages, idxs) == [p \in DOMAIN shapes |-> Blk(idxs[p], pages[p], shapes[p])]

(***************************************************************************)
(* The terms that forward_block puts at `local` of its result.             *)
(***************************************************************************)
Add_forward(a, b, local) == { << At(a, local), At(b, local) >> }
Square_forward(a, local) == { << At(a, local) >> }
Sum_forward(a) == { << At(a, l) >> : l \in Cells(Extents(a)) }
Transpose_forward(a, local, axes) == { << At(a, Unpermute(local, axes)) >> }
Dot_forward(a, b, local) ==
  LET Last == Len(local)
  IN  { << At(a, Batched(local, local[Last - 1], h)),
           At(b, Batched(local, h, local[Last])) >> : h \in 0 .. Extents(a)[Last] - 1 }

forward_block(op, shapes, pages, idxs, local) ==
  LET blk == Blocks(shapes, pages, idxs)
  IN  CASE op.kind \in Elementwise -> Add_forward(blk[1], blk[2], local)
        [] op.kind = "square"      -> Square_forward(blk[1], local)
        [] op.kind = "sum"         -> Sum_forward(blk[1])
        [] op.kind = "transpose"   -> Transpose_forward(blk[1], local, op.axes)
        [] op.kind = "dot"         -> Dot_forward(blk[1], blk[2], local)

(***************************************************************************)
(* The shape of forward_block's result.  Numpy broadcasts or fails where   *)
(* it differs from the tile it is written to.                              *)
(***************************************************************************)
ResultShape(op, shapes, pages, idxs) ==
  output_shape(op, [p \in DOMAIN shapes |-> BlockShape(idxs[p], pages[p], shapes[p])])

\* The operands' blocks have the shapes forward_block expects of each other.
Conform(op, shapes, pages, idxs) ==
  LET extents(p) == BlockShape(idxs[p], pages[p], shapes[p])
      Last       == Len(shapes[1])
  IN  CASE op.kind \in Elementwise -> extents(1) = extents(2)
        [] op.kind = "dot"         -> extents(2) = Batched(extents(1), extents(1)[Last],
                                                           extents(2)[Last])
        [] OTHER                   -> TRUE

(***************************************************************************)
(* backward_block: what the gradient of an operand receives at `local` of  *)
(* its block, as pairs <<cell of d_out, cofactor>> where the cofactor is   *)
(* the cell of the other operand it is multiplied with (<<>> when none,    *)
(* the cell itself for square); d is the block of d_out.                   *)
(***************************************************************************)
Add_backward(d, local) == { << At(d, local), <<>> >> }
Mul_backward(d, other, local) == { << At(d, local), At(other, local) >> }
Square_backward(d, a, local) == { << At(d, local), At(a, local) >> }
Sum_backward(d) == { << At(d, <<>>), <<>> >> }
Transpose_backward(d, local, axes) == { << At(d, Unpermute(local, ArgSort(axes))), <<>> >> }
Dot_backward(d, a, b, p, local) ==
  LET Last == Len(local)
      row  == local[Last - 1]
      col  == local[Last]
  IN  IF p = 1
        THEN { << At(d, Batched(local, row, j)), At(b, Batched(local, col, j)) >> :
                 j \in 0 .. Extents(b)[Last] - 1 }
        ELSE { << At(d, Batched(local, i, col)), At(a, Batched(local, i, row)) >> :
                 i \in 0 .. Extents(a)[Last - 1] - 1 }

backward_block(op, shapes, pages, d, idxs, p, local) ==
  LET blk == Blocks(shapes, pages, idxs)
  IN  CASE op.kind = "add"       -> Add_backward(d, local)
        [] op.kind = "mul"       -> Mul_backward(d, blk[3 - p], local)
        [] op.kind = "square"    -> Square_backward(d, blk[1], local)
        [] op.kind = "sum"       -> Sum_backward(d)
        [] op.kind = "transpose" -> Transpose_backward(d, local, op.axes)
        [] op.kind = "dot"       -> Dot_backward(d, blk[1], blk[2], p, local)

(***************************************************************************)
(* Reference definitions, written from what numpy computes on whole        *)
(* arrays and independent of blocks: the terms of output cell e, and the   *)
(* <<output cell, cofactor>> pairs of the gradient of operand p at cell x. *)
(***************************************************************************)
OutputTerms(op, shapes, e) ==
  LET Last == Len(shapes[1])
  IN  CASE op.kind \in Elementwise -> { << e, e >> }
        [] op.kind = "square"      -> { << e >> }
        [] op.kind = "sum"         -> { << x >> : x \in Cells(shapes[1]) }
        [] op.kind = "transpose"   -> { << x >> : x \in {c \in Cells(shapes[1]) :
                                                         Permute(c, op.axes) = e} }
        [] op.kind = "dot"         ->
             { << Batched(e, e[Last - 1], h), Batched(e, h, e[Last]) >> :
                 h \in 0 .. shapes[1][Last] - 1 }

Cofactor(op, t, p) ==
  CASE op.kind \in {"mul", "dot"} -> t[3 - p]
    [] op.kind = "square"         -> t[1]
    [] OTHER                      -> <<>>

GradientTerms(op, shapes, p, x) ==
  UNION { { << e, Cofactor(op, t, p) >> : t \in {u \in OutputTerms(op, shapes, e) : u[p] = x} } :
            e \in Cells(output_shape(op, shapes)) }

(***************************************************************************)
(* The operands an op is documented for: two arrays of one shape, one      *)
(* array with a permutation of its dimensions, or (batch.., M, K) and      *)
(* (batch.., K, N) with equal batch dimensions.  No extent is 0: an empty  *)
(* file cannot be mapped.                                                  *)
(***************************************************************************)
Permutes(axes, s) ==
  /\ axes \in [DOMAIN s -> DOMAIN s]
  /\ \A d \in DOMAIN s : \E i \in DOMAIN s : axes[i] = d
  /\ \A i, j \in DOMAIN s : axes[i] = axes[j] => i = j

Accepts(op, shapes) ==
  /\ shapes \in Seq(Seq(Nat \ {0})) /\ Len(shapes) = NumInputs(op)
  /\ \/ op.kind \in Elementwise /\ shapes[1] = shapes[2]
     \/ op.kind \in {"square", "sum"}
     \/ op.kind = "transpose" /\ (op.axes = << >> \/ Permutes(op.axes, shapes[1]))
     \/ /\ op.kind = "dot" /\ Len(shapes[1]) >= 2 /\ Len(shapes[2]) = Len(shapes[1])
        /\ shapes[2] = Batched(shapes[1], shapes[1][Len(shapes[1])], shapes[2][Len(shapes[1])])

(***************************************************************************)
(* One call of an op, as OOCAlgorithm sees it: how many operands it has,   *)
(* the output blocks in the order they are computed, and for each of them  *)
(* the groups of input blocks.  Each operand and the output get the page   *)
(* derive_page_shape gives them: `side` cut to the array's own extent.     *)
(***************************************************************************)
PageOf(side, shape) == [d \in DOMAIN shape |-> Smaller(side, shape[d])]

Call(op, shapes, side) ==
  LET pages == [p \in DOMAIN shapes |-> PageOf(side, shapes[p])]
      outShape == output_shape(op, shapes)
      outPage == PageOf(side, outShape)
      tiles == block_grid(outShape, outPage)
  IN  [op |-> op, side |-> side, n |-> NumInputs(op), shapes |-> shapes, pages |-> pages,
       outShape |-> outShape, outPage |-> outPage, tiles |-> tiles,
       groups |-> [o \in {tiles[t] : t \in DOMAIN tiles} |->
                     index_map(op, shapes, pages, o)]]
=============================================================================
