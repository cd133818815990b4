---------------------------- MODULE HiPrimitives ----------------------------
(***************************************************************************)
(* What jask's hi-primitives leave behind when JAX traces a function: one  *)
(* io_callback each, known by the values it takes (`in`), the files it     *)
(* reads for them (`reads`, None where only the marker or a scalar is      *)
(* used), and for each result the file it writes (`out`, None for a result *)
(* that is a jax value).  All file names are fixed when the function is    *)
(* traced; from then on callbacks are linked by markers alone.             *)
(*                                                                         *)
(* A compiled function is [args, nodes, returns]: the files of its         *)
(* arguments (None for a scalar), its callbacks, and the values it returns.*)
(***************************************************************************)
EXTENDS DiskArrayType, Naturals, Sequences

CONSTANT None

(***************************************************************************)
(* A traced value: the file its type names, and the marker, that is, which *)
(* result of which callback it is.  Node 0 is the function's caller.       *)
(***************************************************************************)
Arg(path, i) == [path |-> path, node |-> 0, pos |-> i]
Result(nodes, n, i) == [path |-> nodes[n].out[i], node |-> n, pos |-> i]

\* A callback of a given op; `copies` is the operand it copies, 0 if it computes.
Callback(op, in, reads, out, copies) ==
  [op |-> op, in |-> in, reads |-> reads, out |-> out, copies |-> copies]

Paths(xs) == [i \in DOMAIN xs |-> xs[i].path]

\* make_op's forward primitive; out is the file chosen when it is bound, or None.
HiOpGenerated(op, xs, out) == Callback(op, xs, Paths(xs), <<out>>, 0)

(***************************************************************************)
(* Its backward primitive.  The gradients go to the operands' .grad files; *)
(* d_out is read from the .grad file of the forward result, whichever      *)
(* value g is, unless that result was a scalar and g comes as a jax value. *)
(***************************************************************************)
HiOpBackward(op, xs, out, g) ==
  Callback(op, Append(xs, g),
           Append(Paths(xs), IF out = None THEN None ELSE Tangent(out)),
           [i \in DOMAIN xs |-> Tangent(xs[i].path)], 0)

\* scalar * a
HiScalarMul(a, scalar, out) ==
  Callback("scale", <<a, scalar>>, <<a.path, None>>, <<out>>, 0)

\* Its gradients: a file for a, and a scalar that is the callback's own result.
HiScalarMulBackward(a, scalar, g) ==
  Callback("scaleBwd", <<a, scalar, g>>, <<a.path, None, g.path>>,
           <<Tangent(a.path), None>>, 0)

\* self.update_(new): new's contents are copied into self's file.
HiUpdate(self, new) ==
  Callback("update", <<self, new>>, <<None, new.path>>, <<self.path>>, 2)

\* The file of x as a jax value.
HiMaterialize(x) == Callback("materialize", <<x>>, <<x.path>>, <<None>>, 1)

\* g, a jax value, into x's .grad file; x itself is not an operand.
HiMaterializeBackward(x, g) ==
  Callback("materializeBwd", <<g>>, <<None>>, <<Tangent(x.path)>>, 1)

\* mul: an op of two arrays, or of one array and a scalar in either order.
Mul(x, y, out) ==
  IF x.path = None THEN HiScalarMul(y, x, out)
  ELSE IF y.path = None THEN HiScalarMul(x, y, out)
  ELSE HiOpGenerated("mul", <<x, y>>, out)

\* vjp_bwd_retval: the backward primitive of a forward callback, for the cotangent g.
Vjp(node, g) ==
  CASE node.op = "scale" -> HiScalarMulBackward(node.in[1], node.in[2], g)
    [] node.op = "materialize" -> HiMaterializeBackward(node.in[1], g)
    [] OTHER -> HiOpBackward(node.op \o "Bwd", node.in, node.out[1], g)

\* vspace_add: the cotangents of an array used twice, added into a file of its own.
vspace_add(x, y, out) == HiOpGenerated("add", <<x, y>>, out)

\* What XLA computes between callbacks, from jax values only.
Xla(op, xs) == Callback(op, xs, [i \in DOMAIN xs |-> None], <<None>>, 0)
-----------------------------------------------------------------------------
(***************************************************************************)
(* Values are symbolic: the set of the terms added up in it, a term naming *)
(* the op, the result and the operands' values.  A new file has no terms.  *)
(***************************************************************************)
Zeros == {}
Leaf(name) == {[op |-> name, pos |-> 0, of |-> << >>]}

\* The results of a callback on operands with the values vals.
Apply(node, vals) ==
  [i \in DOMAIN node.out |->
     IF node.copies # 0 THEN vals[node.copies]
     ELSE {[op |-> node.op, pos |-> i, of |-> vals]}]

\* The value r stands for, given the caller's arguments and the results so far.
ValueOf(r, args, computed) ==
  IF r.node = 0 THEN args[r.pos] ELSE computed[r.node][r.pos]

Operands(node, args, computed) ==
  [i \in DOMAIN node.in |-> ValueOf(node.in[i], args, computed)]

\* The callbacks whose markers a callback waits for.
Needs(node) == {node.in[i].node : i \in DOMAIN node.in} \ {0}

Outs(node) == {node.out[i] : i \in DOMAIN node.out} \ {None}
-----------------------------------------------------------------------------
(***************************************************************************)
(* Markers put m before n if every set of callbacks that contains n and    *)
(* whatever its members wait for contains m.                               *)
(***************************************************************************)
Closed(f, S) == \A n \in S : Needs(f.nodes[n]) \subseteq S
Precedes(f, m, n) ==
  \A S \in SUBSET DOMAIN f.nodes : n \in S /\ Closed(f, S) => m \in S

\* Every callback but r's own that writes r's file is done when r's is.
WrittenBefore(f, r, path, m) == m = r.node \/ (r.node # 0 /\ Precedes(f, m, r.node))

(***************************************************************************)
(* The files need no order beyond what the markers give: a callback reads  *)
(* the file its operand names, everything else written to that file comes  *)
(* before the operand or after the callback, no callback has two results   *)
(* in one file, and nothing overwrites what is returned.                   *)
(***************************************************************************)
RaceFree(f) ==
  /\ \A n \in DOMAIN f.nodes : \A i, j \in DOMAIN f.nodes[n].out :
       f.nodes[n].out[i] = f.nodes[n].out[j] /\ f.nodes[n].out[i] # None => i = j
  /\ \A n \in DOMAIN f.nodes : \A i \in DOMAIN f.nodes[n].in :
       LET r == f.nodes[n].in[i]
           path == f.nodes[n].reads[i]
       IN  path # None =>
             /\ path = r.path
             /\ \A m \in DOMAIN f.nodes :
                  path \in Outs(f.nodes[m]) =>
                    m # n /\ (WrittenBefore(f, r, path, m) \/ Precedes(f, n, m))
  /\ \A i \in DOMAIN f.returns :
       LET r == f.returns[i]
       IN  r.path # None =>
             \A m \in DOMAIN f.nodes :
               r.path \in Outs(f.nodes[m]) => WrittenBefore(f, r, r.path, m)
=============================================================================
