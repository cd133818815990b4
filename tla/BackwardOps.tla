------------------------------ MODULE BackwardOps ------------------------------
(***************************************************************************)
(* run_backward (OOCBackward) on the ops of jask/linalg (BlockParallelOps):*)
(* the calls are those of an op on operands it accepts, and what the       *)
(* gradient files hold is compared with the derivative of the whole-array  *)
(* definition of the op, cell by cell.                                     *)
(***************************************************************************)
EXTENDS OOCBackward, BlockParallelOps

Entries(s) == {s[m] : m \in DOMAIN s}

\* A call that from_inputs and derive_page_shape make of operands the op accepts, whose
\* gradients are cut as the operands are; one file holds arrays of one shape.
OpCall(c) ==
  LET call == Call(c.op, c.shapes, c.side)
  IN  /\ c.side \in Nat \ {0} /\ Accepts(c.op, c.shapes)
      /\ \A field \in DOMAIN call : c[field] = call[field]
      /\ \A p \in 1 .. c.n : c.grids[p] = Entries(block_grid(c.shapes[p], c.pages[p]))
      /\ \A p, q \in 1 .. c.n :
           Tangent(c.inputs[p]) = Tangent(c.inputs[q]) => c.shapes[p] = c.shapes[q]

ASSUME OpCallsAssumption == \A c \in Calls : OpCall(c)

(***************************************************************************)
(* When run_backward returns, each cell of each operand's gradient is the  *)
(* sum of the terms of the derivative of the whole-array op at that cell:  *)
(* the pairs <<cell of d_out, cofactor>>, each of them once                *)
(* (backward_block and index_map of jask/linalg).                          *)
(***************************************************************************)
GradientMatchesReference ==
  pc = "returned" =>
    \A p \in 1 .. run.n : \A i \in run.grids[p] :
      \A local \in Cells(BlockShape(i, run.pages[p], run.shapes[p])) :
        LET x == Global(i, run.pages[p], local)
            terms == files[Target(p)][i]
            Part(t) == backward_block(run.op, run.shapes, run.pages,
                                      Blk(t.tile, run.outPage, run.outShape),
                                      t.args, p, local)
        IN  /\ UNION {Part(t) : t \in terms} = GradientTerms(run.op, run.shapes, p, x)
            /\ \A t, u \in terms : t # u => Part(t) \cap Part(u) = {}
=============================================================================
