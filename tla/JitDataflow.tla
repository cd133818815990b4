----------------------------- MODULE JitDataflow -----------------------------
(***************************************************************************)
(* A function compiled by jax.jit, as the callbacks of HiPrimitives.  JAX  *)
(* may run a callback as soon as the markers it takes exist (io_callback   *)
(* is used without ordered=True), and several at a time.  A callback opens *)
(* its output files, which truncates them, reads its operands, computes,   *)
(* writes, and returns its marker; the steps of different callbacks        *)
(* interleave.  The call returns when all callbacks have (disk_array.py:   *)
(* 320-322 relies on this), or raises when one of them does.               *)
(*                                                                         *)
(* A file is read in one step and written in one step: an interleaving in  *)
(* which a callback sees half of what another one writes is matched by one *)
(* in which it sees nothing of it.                                         *)
(***************************************************************************)
EXTENDS HiPrimitives, FiniteSets

CONSTANTS
  Functions,        \* the compiled functions the program calls
  Scalars,          \* the values it passes for scalar arguments
  InitialFiles,     \* the files before the first call: path |-> value
  MaxCalls          \* bound on the number of calls in a behaviour

ASSUME MaxCallsAssumption == MaxCalls \in Nat

\* Operands are results of earlier callbacks or arguments, of the file they say.
WellFormedRef(f, r, n) ==
  /\ r.node \in 0 .. n
  /\ r.node = 0 => r.pos \in DOMAIN f.args /\ r.path = f.args[r.pos]
  /\ r.node # 0 => /\ r.pos \in DOMAIN f.nodes[r.node].out
                   /\ r.path = f.nodes[r.node].out[r.pos]

WellFormed(f) ==
  /\ f = [args |-> f.args, nodes |-> f.nodes, returns |-> f.returns]
  /\ f.args \in Seq({f.args[i] : i \in DOMAIN f.args})
  /\ f.nodes \in Seq({f.nodes[n] : n \in DOMAIN f.nodes})
  /\ \A n \in DOMAIN f.nodes :
       /\ DOMAIN f.nodes[n].reads = DOMAIN f.nodes[n].in
       /\ 1 \in DOMAIN f.nodes[n].out
       /\ \A i \in DOMAIN f.nodes[n].in : WellFormedRef(f, f.nodes[n].in[i], n - 1)
  /\ \A i \in DOMAIN f.returns : WellFormedRef(f, f.returns[i], Len(f.nodes))

ASSUME FunctionsAssumption == \A f \in Functions : WellFormed(f)

VARIABLES
  fn, status, args, computed,   \* as in NativeValues
  calls,                        \* how many calls began
  pc,                           \* how far each callback of the call is
  loaded,                       \* the operands it has in memory
  files,                        \* path |-> value
  held                          \* results of earlier calls: [path, value]

callVars == << fn, status, args, calls, held >>
vars == << callVars, computed, pc, loaded, files >>

Nodes == DOMAIN fn.nodes
Done(n) == pc[n] = "done"

Init ==
  /\ status = "idle" /\ calls = 0
  /\ fn = [args |-> << >>, nodes |-> << >>, returns |-> << >>]
  /\ args = << >> /\ computed = << >> /\ pc = << >> /\ loaded = << >>
  /\ files = InitialFiles /\ held = {}

(***************************************************************************)
(* Python calls a compiled function on arrays whose files exist; a scalar  *)
(* argument may have a different value in every call.                      *)
(***************************************************************************)
Call ==
  /\ status # "running" /\ calls < MaxCalls
  /\ \E f \in Functions : \E s \in [DOMAIN f.args -> Scalars] :
       /\ \A i \in DOMAIN f.args : f.args[i] # None => f.args[i] \in DOMAIN files
       /\ fn' = f
       /\ args' = [i \in DOMAIN f.args |->
                     IF f.args[i] = None THEN s[i] ELSE files[f.args[i]]]
       /\ computed' = [n \in DOMAIN f.nodes |-> << >>]
       /\ pc' = [n \in DOMAIN f.nodes |-> "waiting"]
       /\ loaded' = [n \in DOMAIN f.nodes |-> << >>]
  /\ status' = "running" /\ calls' = calls + 1
  /\ UNCHANGED << files, held >>

Truncate(node) ==
  [p \in DOMAIN files \cup Outs(node) |-> IF p \in Outs(node) THEN Zeros ELSE files[p]]

\* Faulty: the last operand's marker is not passed when its value is not used.
StartWithoutLast(n) ==
  /\ status = "running" /\ pc[n] = "waiting"
  /\ \A i \in DOMAIN fn.nodes[n].in :
       LET m == fn.nodes[n].in[i].node
       IN  m # 0 /\ ~ Done(m) => i = Len(fn.nodes[n].in) /\ fn.nodes[n].reads[i] # None
  /\ files' = Truncate(fn.nodes[n])
  /\ pc' = [pc EXCEPT ![n] = "started"]
  /\ UNCHANGED << callVars, computed, loaded >>

\* The markers are there; BlockedArray.create empties every output file.
Start(n) ==
  /\ status = "running" /\ pc[n] = "waiting"
  /\ \A m \in Needs(fn.nodes[n]) : Done(m)
  /\ files' = Truncate(fn.nodes[n])
  /\ pc' = [pc EXCEPT ![n] = "started"]
  /\ UNCHANGED << callVars, computed, loaded >>

\* np.memmap raises for an operand's file that is not there.
FilesExist(node) == {node.reads[i] : i \in DOMAIN node.reads} \ {None} \subseteq DOMAIN files

Contents(node, i) ==
  IF node.reads[i] = None THEN ValueOf(node.in[i], args, computed) ELSE files[node.reads[i]]

\* Faulty: the operands are read over and over.
LoadAgain(n) ==
  /\ status = "running" /\ pc[n] = "started" /\ FilesExist(fn.nodes[n])
  /\ loaded' = [loaded EXCEPT ![n] = [i \in DOMAIN fn.nodes[n].in |->
                                        Contents(fn.nodes[n], i)]]
  /\ UNCHANGED << callVars, computed, pc, files >>

\* An array operand is read from its file; a scalar comes with the call.
Load(n) ==
  /\ status = "running" /\ pc[n] = "started" /\ FilesExist(fn.nodes[n])
  /\ loaded' = [loaded EXCEPT ![n] = [i \in DOMAIN fn.nodes[n].in |->
                                        Contents(fn.nodes[n], i)]]
  /\ pc' = [pc EXCEPT ![n] = "loaded"]
  /\ UNCHANGED << callVars, computed, files >>

\* Faulty: only the first result's file is written.
StoreFirst(n) ==
  /\ status = "running" /\ pc[n] = "loaded"
  /\ LET node == fn.nodes[n]
         results == Apply(node, loaded[n])
     IN  /\ files' = [p \in DOMAIN files |->
                        IF p = node.out[1] THEN results[1] ELSE files[p]]
         /\ computed' = [computed EXCEPT ![n] = results]
  /\ pc' = [pc EXCEPT ![n] = "done"]
  /\ loaded' = [loaded EXCEPT ![n] = << >>]
  /\ UNCHANGED callVars

\* Faulty: the marker is returned and the result is lost.
StoreNothing(n) ==
  /\ status = "running" /\ pc[n] = "loaded"
  /\ pc' = [pc EXCEPT ![n] = "done"]
  /\ loaded' = [loaded EXCEPT ![n] = << >>]
  /\ UNCHANGED << callVars, computed, files >>

\* The results reach their files (added up if two have the same one), then the marker.
Store(n) ==
  /\ status = "running" /\ pc[n] = "loaded"
  /\ LET node == fn.nodes[n]
         results == Apply(node, loaded[n])
     IN  /\ files' = [p \in DOMAIN files |->
                        IF p \in Outs(node)
                        THEN UNION {results[i] : i \in {j \in DOMAIN node.out : node.out[j] = p}}
                        ELSE files[p]]
         /\ computed' = [computed EXCEPT ![n] = results]
  /\ pc' = [pc EXCEPT ![n] = "done"]
  /\ loaded' = [loaded EXCEPT ![n] = << >>]
  /\ UNCHANGED callVars

\* The arrays among the results are held by the caller from now on.
Return ==
  /\ status = "running" /\ \A n \in Nodes : Done(n)
  /\ status' = "returned"
  /\ held' = held \cup {[path |-> fn.returns[i].path, value |-> files[fn.returns[i].path]] :
                          i \in {j \in DOMAIN fn.returns : fn.returns[j].path # None}}
  /\ UNCHANGED << fn, args, calls, computed, pc, loaded, files >>

\* A callback raises: the call does, and leaves the files as they are.
Raise ==
  /\ status = "running" /\ \E n \in Nodes : pc[n] \in {"started", "loaded"}
  /\ status' = "raised"
  /\ UNCHANGED << fn, args, calls, held, computed, pc, loaded, files >>

\* The program makes no further call.
Stopped == status # "running" /\ UNCHANGED vars

Step == (\E n \in Nodes : Start(n) \/ Load(n) \/ Store(n)) \/ Return

Next == Call \/ Step \/ Raise \/ Stopped

\* JAX goes on running callbacks while there are any; calls and exceptions are not promised.
Fairness == WF_vars(Step)

Spec == Init /\ [][Next]_vars /\ Fairness
-----------------------------------------------------------------------------
Stages == {"waiting", "started", "loaded", "done"}

(***************************************************************************)
(* Every variable is in a state a call can be in.                          *)
(***************************************************************************)
TypeOK ==
  /\ (fn \in Functions \/ (status = "idle" /\ Nodes = {}))
  /\ status \in {"idle", "running", "returned", "raised"}
  /\ calls \in 0 .. MaxCalls
  /\ DOMAIN args = DOMAIN fn.args
  /\ pc \in [Nodes -> Stages]
  /\ DOMAIN computed = Nodes /\ \A n \in Nodes : computed[n] # << >> <=> Done(n)
  /\ DOMAIN loaded = Nodes /\ \A n \in Nodes : loaded[n] # << >> => pc[n] = "loaded"

Native == INSTANCE NativeValues WITH
  Functions <- Functions, fn <- fn, status <- status, args <- args, computed <- computed

(***************************************************************************)
(* Whatever order JAX runs the callbacks in, a call computes what native   *)
(* JAX would: each op's results follow from its operands' values, although *)
(* these travel through files that other callbacks write (base_algo.py:    *)
(* 184-197).                                                               *)
(***************************************************************************)
NativeSpec == Native!Spec

(***************************************************************************)
(* The same, as an invariant: a callback that is done has applied its op   *)
(* to the values of its operands.                                          *)
(***************************************************************************)
ComputedAsNative ==
  \A n \in Nodes :
    Done(n) => computed[n] = Apply(fn.nodes[n], Operands(fn.nodes[n], args, computed))

(***************************************************************************)
(* When a call has returned, the file of every array it returns holds that *)
(* array's value: no callback of the call wrote over another one's result, *)
(* a gradient path or an updated parameter (disk_array.py:319-324).        *)
(***************************************************************************)
ReturnedIntact ==
  status = "returned" =>
    \A i \in DOMAIN fn.returns :
      fn.returns[i].path # None =>
        files[fn.returns[i].path] = ValueOf(fn.returns[i], args, computed)

(***************************************************************************)
(* An array returned by an earlier call keeps its value for as long as the *)
(* caller holds it, "exactly like an ordinary `jax.Array` would"           *)
(* (disk_array.py:76).                                                     *)
(***************************************************************************)
EarlierResultsStable ==
  \A h \in held : files[h.path] = h.value

(***************************************************************************)
(* Every call comes to an end: callbacks never wait for each other in a    *)
(* circle, and nothing but markers is waited for.                          *)
(***************************************************************************)
CallCompletes == status = "running" ~> status # "running"
=============================================================================
