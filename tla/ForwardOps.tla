------------------------------ MODULE ForwardOps ------------------------------
(***************************************************************************)
(* run_forward (OOCForward) on the ops of jask/linalg (BlockParallelOps):  *)
(* the calls are those of an op on operands it accepts, and what the       *)
(* output file holds is compared with the whole-array definition of the    *)
(* op, cell by cell.                                                       *)
(***************************************************************************)
EXTENDS OOCForward, BlockParallelOps

\* A call that from_inputs and derive_page_shape make of operands the op accepts.
OpCall(c) ==
  /\ c.side \in Nat \ {0} /\ Accepts(c.op, c.shapes)
  /\ c = Call(c.op, c.shapes, c.side)

ASSUME OpCallsAssumption == \A c \in Calls : OpCall(c)

(***************************************************************************)
(* When run_forward returns, the file holds the array numpy would compute: *)
(* every cell lies in one output block, the blocks forward_block was given *)
(* fit each other and the tile, and the terms folded into the cell are     *)
(* those of the whole-array definition, none missing and none twice        *)
(* (the index_map, forward_block and from_inputs of jask/linalg with       *)
(* block_grid and _slice_for, disk_array.py:370-379).                      *)
(***************************************************************************)
ResultMatchesReference ==
  pc = "returned" =>
    \A e \in Cells(call.outShape) :
      \E o \in Tiles(call) :
        LET Idxs(m) == [p \in 1 .. call.n |-> out[o].terms[m][p].idx]
            local == [d \in DOMAIN e |-> e[d] - o[d] * call.outPage[d]]
            Part(m) == forward_block(call.op, call.shapes, call.pages, Idxs(m), local)
            M == DOMAIN out[o].terms
        IN  /\ {q \in Tiles(call) : e \in Covered(q, call.outPage, call.outShape)} = {o}
            /\ \A m \in M :
                 /\ Conform(call.op, call.shapes, call.pages, Idxs(m))
                 /\ ResultShape(call.op, call.shapes, call.pages, Idxs(m))
                      = BlockShape(o, call.outPage, call.outShape)
            /\ UNION {Part(m) : m \in M} = OutputTerms(call.op, call.shapes, e)
            /\ \A l, m \in M : l # m => Part(l) \cap Part(m) = {}
=============================================================================
