------------------------------ MODULE MCBackward ------------------------------
(***************************************************************************)
(* run_backward on the ops of jask/linalg: calls that reuse each other's   *)
(* gradient paths, retries after an exception, a chain in which one call's *)
(* gradient is the next one's d_out, and every result checked cell by cell *)
(* against the derivative of the whole-array definition.                   *)
(***************************************************************************)
EXTENDS BackwardOps, TLC

Op(kind) == [kind |-> kind, axes |-> << >>]

\* A backward call of op on the files `inputs`, with d_out in the file `dout`.
BackwardCall(op, shapes, side, inputs, dout) ==
  Call(op, shapes, side) @@
  [inputs |-> inputs, dout |-> dout,
   grids |-> [p \in DOMAIN shapes |->
                Entries(block_grid(shapes[p], PageOf(side, shapes[p])))]]

Square33 == <<3, 3>>

(***************************************************************************)
(* a and b are 3x3 in 2x2 pages, so every matmul block of dA and dB gets   *)
(* two contributions and every edge is ragged; a = transpose(z) makes      *)
(* a.grad the d_out of a second call.  f @ g has one block along K, so its *)
(* second output block reuses f's.                                         *)
(***************************************************************************)
MCCalls ==
  { BackwardCall(Op("dot"), <<Square33, Square33>>, 2, <<Data("a"), Data("b")>>, Grad("y")),
    BackwardCall(Op("mul"), <<Square33, Square33>>, 2, <<Data("a"), Data("b")>>, Grad("y")),
    BackwardCall(Op("sum"), <<Square33>>, 2, <<Data("b")>>, Data("s")),
    BackwardCall(Op("transpose"), <<Square33>>, 2, <<Data("z")>>, Grad("a")),
    BackwardCall([kind |-> "transpose", axes |-> <<3, 1, 2>>], << <<1, 3, 2>> >>, 2,
                 <<Data("u")>>, Grad("v")),
    BackwardCall(Op("dot"), << <<1, 1, 2>>, <<1, 2, 3>> >>, 2,
                 <<Data("f"), Data("g")>>, Grad("h")),
    BackwardCall(Op("add"), << <<1, 3>>, <<1, 3>> >>, 2, <<Data("p"), Data("q")>>, Grad("r")),
    BackwardCall(Op("square"), << <<1, 3>> >>, 2, <<Data("p")>>, Grad("r")) }

\* The hypotheses of the theorems hold of these calls, and not of the next ones.
ASSUME CallsAreApart == \A c \in MCCalls : ReadsApart(c) /\ TargetsApart(c)

(***************************************************************************)
(* Calls whose operand is a gradient file (a momentum buffer kept from an  *)
(* earlier backward pass, say) or is passed twice.                         *)
(***************************************************************************)
AliasingCalls ==
  { BackwardCall(Op("mul"), << <<3>>, <<3>> >>, 2, <<Data("a"), Grad("m")>>, Grad("y")),
    BackwardCall(Op("mul"), << <<3>>, <<3>> >>, 2, <<Data("a"), Data("a")>>, Grad("y")) }

\* The files the calls start from, without the `computed` ones that a call writes first.
FilesOf(calls, computed) ==
  LET Grids(c) == {<<c.inputs[p], c.grids[p]>> : p \in 1 .. c.n}
                    \cup {<<c.dout, Entries(c.tiles)>>}
      start == {pg \in UNION {Grids(c) : c \in calls} : pg[1] \notin computed}
  IN  [path \in {pg[1] : pg \in start} |->
         [i \in (CHOOSE pg \in start : pg[1] = path)[2] |-> {[file |-> path, idx |-> i]}]]

MCFiles == FilesOf(MCCalls, {Grad("a")})
AliasingFiles == FilesOf(AliasingCalls, {})
=============================================================================
