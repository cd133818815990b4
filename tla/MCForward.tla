------------------------------ MODULE MCForward ------------------------------
(***************************************************************************)
(* run_forward on the ops of jask/linalg, over arrays small enough that    *)
(* the reference result can be computed cell by cell.                      *)
(***************************************************************************)
EXTENDS ForwardOps, TLC

Op(kind) == [kind |-> kind, axes |-> << >>]

(***************************************************************************)
(* Ragged edges (an extent the page does not divide), one block per array, *)
(* several blocks along every dimension, a batch dimension, K from 1 to 4, *)
(* and an axes permutation that is not its own inverse.                    *)
(***************************************************************************)
MCCalls ==
  { Call(Op("add"), << <<3, 2>>, <<3, 2>> >>, 2),
    Call(Op("mul"), << <<5>>, <<5>> >>, 2),
    Call(Op("square"), << <<1, 3>> >>, 4),
    Call(Op("sum"), << <<3, 3>> >>, 2),
    Call(Op("transpose"), << <<2, 3>> >>, 2),
    Call([kind |-> "transpose", axes |-> <<3, 1, 2>>], << <<1, 3, 2>> >>, 2),
    Call(Op("dot"), << <<3, 3>>, <<3, 2>> >>, 2),
    Call(Op("dot"), << <<1, 3>>, <<3, 2>> >>, 1),
    Call(Op("dot"), << <<2, 3, 1>>, <<2, 1, 3>> >>, 2) }

=============================================================================
