---------------------------- MODULE NativeValues ----------------------------
(***************************************************************************)
(* What a compiled function promises: the values native JAX would compute. *)
(* A call takes the values of its arguments; every op is evaluated once,   *)
(* in any order in which operands come first, on the values of its         *)
(* operands; the call returns when all are, or gives up with an exception. *)
(* There are no files here, so nothing an op does can affect another one   *)
(* except through its results.                                             *)
(***************************************************************************)
EXTENDS HiPrimitives

CONSTANT Functions      \* the compiled functions considered

VARIABLES
  fn,                   \* the function called last
  status,               \* "idle" before the first call, "running", "returned", "raised"
  args,                 \* the values of that call's arguments
  computed              \* the results of each op evaluated in it, << >> for the others

vars == << fn, status, args, computed >>

Nodes == DOMAIN fn.nodes
Evaluated(n) == computed[n] # << >>

Init ==
  /\ status = "idle"
  /\ fn = [args |-> << >>, nodes |-> << >>, returns |-> << >>]
  /\ args = << >> /\ computed = << >>

\* The caller may pass any values, so args' is not constrained.
Call ==
  /\ status # "running"
  /\ status' = "running"
  /\ fn' \in Functions
  /\ computed' = [n \in DOMAIN fn'.nodes |-> << >>]

Evaluate(n) ==
  /\ status = "running"
  /\ ~ Evaluated(n) /\ \A m \in Needs(fn.nodes[n]) : Evaluated(m)
  /\ computed' = [computed EXCEPT ![n] = Apply(fn.nodes[n],
                                               Operands(fn.nodes[n], args, computed))]
  /\ UNCHANGED << fn, status, args >>

Return ==
  /\ status = "running" /\ \A n \in Nodes : Evaluated(n)
  /\ status' = "returned"
  /\ UNCHANGED << fn, args, computed >>

Raise ==
  /\ status = "running"
  /\ status' = "raised"
  /\ UNCHANGED << fn, args, computed >>

Next == Call \/ (\E n \in Nodes : Evaluate(n)) \/ Return \/ Raise

Spec == Init /\ [][Next]_vars
=============================================================================
