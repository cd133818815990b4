------------------------------ MODULE MCDataflow ------------------------------
(***************************************************************************)
(* Compiled functions as jask's README, example, tests and docstrings      *)
(* write them: the forward callbacks by hand, the backward ones from       *)
(* jax.grad's backward pass.                                               *)
(***************************************************************************)
EXTENDS JitDataflow, TLC
LOCAL INSTANCE SequencesExt

a == Data("a")
b == Data("b")
c == Data("c")
y == Data("y")
z == Data("z")
d == Data("d")
q == Data("q")
u == Data("u")
v == Data("v")

\* The first result of callback n, which is in the file path.
Ref(path, n) == [path |-> path, node |-> n, pos |-> 1]

(***************************************************************************)
(* jax's backward pass over the callbacks so far, s.nodes: from node n     *)
(* back to the first, each one whose result has a cotangent in s.ct is     *)
(* followed by its backward primitive.  A second cotangent for the same    *)
(* value is added to the first one.                                        *)
(***************************************************************************)
Contribute(s, r, g) ==
  IF r \notin DOMAIN s.ct THEN [s EXCEPT !.ct = (r :> g) @@ @]
  ELSE LET sum == Data("sum" \o ToString(Len(s.nodes)))
           nodes == Append(s.nodes, vspace_add(s.ct[r], g, sum))
       IN  [nodes |-> nodes, ct |-> (r :> Ref(sum, Len(nodes))) @@ s.ct]

Transpose(s, n) ==
  LET r == Result(s.nodes, n, 1)
      nodes == Append(s.nodes, Vjp(s.nodes[n], s.ct[r]))
      Operand(t, i) == Contribute(t, s.nodes[n].in[i], Result(nodes, Len(nodes), i))
  IN  IF r \notin DOMAIN s.ct THEN s
      ELSE FoldLeft(Operand, [s EXCEPT !.nodes = nodes],
                    [i \in DOMAIN nodes[Len(nodes)].out |-> i])

Backward(nodes, n, seed) ==
  FoldLeft(Transpose, [nodes |-> nodes, ct |-> (Result(nodes, n, 1) :> seed)],
           [i \in 1 .. n |-> n + 1 - i])

\* The gradient of node n's result, a scalar: the cotangent is the literal one.
Gradient(nodes, n) ==
  Backward(Append(nodes, Xla("one", << >>)), n, Ref(None, Len(nodes) + 1))

\* a.update_(a + x), for a value x in s.
Descend(s, x) ==
  LET nodes == Append(s.nodes, HiOpGenerated("add", <<Arg(a, 1), x>>, v))
  IN  Append(nodes, HiUpdate(Arg(a, 1), Ref(v, Len(nodes))))
-----------------------------------------------------------------------------
(***************************************************************************)
(* One step of gradient descent in one jit, learning rate lr an argument:  *)
(*   l, (g, h) = value_and_grad(loss, argnums=(0, 1))(a, b)                *)
(*   return l, a.update_(a + lr * g), h                                    *)
(* where loss is lambda a, b: sum(square(dot(a, b))).                      *)
(***************************************************************************)
TrainingStep ==
  LET s == Gradient(<< HiOpGenerated("dot", <<Arg(a, 1), Arg(b, 2)>>, y),
                       HiOpGenerated("square", <<Ref(y, 1)>>, q),
                       HiOpGenerated("sum", <<Ref(q, 2)>>, None) >>, 3)
      scaled == Append(s.nodes, Mul(Arg(None, 3), s.ct[Arg(a, 1)], u))
      nodes == Descend([s EXCEPT !.nodes = scaled], Ref(u, Len(scaled)))
  IN  [args |-> <<a, b, None>>, nodes |-> nodes,
       returns |-> <<Ref(None, 3), Ref(a, Len(nodes)), s.ct[Arg(b, 2)]>>]

\* The example: grad(lambda a, b, c: sum(square(sub(dot(dot(a, b), c), target)))).
ExampleGradients ==
  LET s == Gradient(<< HiOpGenerated("dot", <<Arg(a, 1), Arg(b, 2)>>, y),
                       HiOpGenerated("dot", <<Ref(y, 1), Arg(c, 3)>>, z),
                       HiOpGenerated("sub", <<Ref(z, 2), Arg(d, 4)>>, u),
                       HiOpGenerated("square", <<Ref(u, 3)>>, q),
                       HiOpGenerated("sum", <<Ref(q, 4)>>, None) >>, 5)
  IN  [args |-> <<a, b, c, d>>, nodes |-> s.nodes,
       returns |-> <<s.ct[Arg(a, 1)], s.ct[Arg(b, 2)], s.ct[Arg(c, 3)]>>]

(***************************************************************************)
(* The loss in memory: m = materialize(dot(a, b)), then a jax function of  *)
(* m whose gradient depends on m (`reads`), or does not, as that of        *)
(* jnp.sum.  The gradient for a updates it in place.                       *)
(***************************************************************************)
MaterializedStep(reads) ==
  LET m == <<Ref(None, 2)>>
      s == Backward(<< HiOpGenerated("dot", <<Arg(a, 1), Arg(b, 2)>>, y),
                       HiMaterialize(Ref(y, 1)),
                       Xla("loss", m), Xla("lossGrad", IF reads THEN m ELSE << >>) >>,
                    2, Ref(None, 4))
      nodes == Descend(s, s.ct[Arg(a, 1)])
  IN  [args |-> <<a, b>>, nodes |-> nodes, returns |-> <<Ref(None, 3), Ref(a, Len(nodes))>>]

\* grad(lambda a, s: sum(s * a), argnums=(0, 1))(a, s)
ScaleGradients ==
  LET s == Gradient(<< Mul(Arg(None, 2), Arg(a, 1), u),
                       HiOpGenerated("sum", <<Ref(u, 1)>>, None) >>, 2)
  IN  [args |-> <<a, None>>, nodes |-> s.nodes,
       returns |-> <<s.ct[Arg(a, 1)], s.ct[Arg(None, 2)], Ref(None, 2)>>]

\* a * s, called with one scalar after another.
Scale ==
  [args |-> <<a, None>>, nodes |-> << Mul(Arg(a, 1), Arg(None, 2), u) >>,
   returns |-> <<Ref(u, 1)>>]

(***************************************************************************)
(* grad(lambda a, b: sum(mul(mul(a, b), a))): a is used twice.             *)
(***************************************************************************)
UsedTwice ==
  LET s == Gradient(<< Mul(Arg(a, 1), Arg(b, 2), y),
                       Mul(Ref(y, 1), Arg(a, 1), z),
                       HiOpGenerated("sum", <<Ref(z, 2)>>, None) >>, 3)
  IN  [args |-> <<a, b>>, nodes |-> s.nodes, returns |-> <<s.ct[Arg(a, 1)]>>]

MCFunctions ==
  {TrainingStep, MaterializedStep(TRUE), ScaleGradients, Scale, ExampleGradients}
UnorderedFunctions == {MaterializedStep(FALSE)}
RecalledFunctions == {Scale}

MCScalars == {Leaf("s1"), Leaf("s2")}
MCFiles == [p \in {a, b, c, d} |-> Leaf(p.name)]

\* The markers order the accesses to files in the first functions and not in the others.
ASSUME OrderedByMarkers ==
  /\ \A f \in MCFunctions : RaceFree(f)
  /\ \A f \in UnorderedFunctions \cup {UsedTwice} : ~ RaceFree(f)
=============================================================================
