-------------------------- MODULE JitDataflow_proofs --------------------------
(***************************************************************************)
(* A compiled function whose accesses to files are ordered by its markers  *)
(* computes what native JAX computes, in whatever order its callbacks run, *)
(* for every set of such functions, every number of calls and every value  *)
(* of the arguments.                                                       *)
(***************************************************************************)
EXTENDS JitDataflow, TLAPS

\* The hypothesis: the markers order every two accesses that need an order.
MarkersOrder == \A f \in Functions : RaceFree(f)

Ref(n, i) == fn.nodes[n].in[i]
Known(r) == r.node = 0 \/ Done(r.node)
Value(r) == ValueOf(r, args, computed)

\* A callback past its start has the markers it waited for, and its files exist.
MarkerInv ==
  \A n \in Nodes :
    pc[n] # "waiting" => /\ \A m \in Needs(fn.nodes[n]) : Done(m)
                         /\ Outs(fn.nodes[n]) \subseteq DOMAIN files

\* From the moment an operand's value is known until it is read, its file has it.
FreshInv ==
  status = "running" =>
    \A n \in Nodes : \A i \in DOMAIN fn.nodes[n].in :
      /\ fn.nodes[n].reads[i] # None
      /\ pc[n] \in {"waiting", "started"}
      /\ Known(Ref(n, i))
      => /\ fn.nodes[n].reads[i] \in DOMAIN files
         /\ files[fn.nodes[n].reads[i]] = Value(Ref(n, i))

LoadedInv ==
  \A n \in Nodes :
    pc[n] = "loaded" => loaded[n] = Operands(fn.nodes[n], args, computed)

\* The same for what the call will return, to its end.
ReturnInv ==
  status \in {"running", "returned"} =>
    \A i \in DOMAIN fn.returns :
      fn.returns[i].path # None /\ Known(fn.returns[i])
        => /\ fn.returns[i].path \in DOMAIN files
           /\ files[fn.returns[i].path] = Value(fn.returns[i])

IInv ==
  TypeOK /\ MarkerInv /\ FreshInv /\ LoadedInv /\ ComputedAsNative /\ ReturnInv
-----------------------------------------------------------------------------
(***************************************************************************)
(* Functions are given as well-formed records (FunctionsAssumption): the   *)
(* callbacks are numbered from 1, and a value is an argument or a result   *)
(* of a callback, in the file that argument or result has.                 *)
(***************************************************************************)
LEMMA Shape ==
  ASSUME NEW f \in Functions
  PROVE  /\ DOMAIN f.nodes = 1 .. Len(f.nodes) /\ Len(f.nodes) \in Nat
         /\ \A n \in DOMAIN f.nodes :
              /\ DOMAIN f.nodes[n].reads = DOMAIN f.nodes[n].in
              /\ 1 \in DOMAIN f.nodes[n].out
              /\ \A i \in DOMAIN f.nodes[n].in :
                   /\ WellFormedRef(f, f.nodes[n].in[i], n - 1)
                   /\ f.nodes[n].in[i].node \in {0} \cup DOMAIN f.nodes
         /\ \A i \in DOMAIN f.returns :
              /\ WellFormedRef(f, f.returns[i], Len(f.nodes))
              /\ f.returns[i].node \in {0} \cup DOMAIN f.nodes
<1>1. WellFormed(f)
  BY FunctionsAssumption
<1>2. DOMAIN f.nodes = 1 .. Len(f.nodes) /\ Len(f.nodes) \in Nat
  BY <1>1 DEF WellFormed
<1>3. ASSUME NEW n \in DOMAIN f.nodes, NEW i \in DOMAIN f.nodes[n].in
      PROVE  /\ WellFormedRef(f, f.nodes[n].in[i], n - 1)
             /\ f.nodes[n].in[i].node \in {0} \cup DOMAIN f.nodes
  <2>1. WellFormedRef(f, f.nodes[n].in[i], n - 1)
    BY <1>1 DEF WellFormed
  <2>2. f.nodes[n].in[i].node \in 0 .. n - 1
    BY <2>1 DEF WellFormedRef
  <2>3. QED
    BY <1>2, <2>1, <2>2
<1>4. ASSUME NEW i \in DOMAIN f.returns
      PROVE  /\ WellFormedRef(f, f.returns[i], Len(f.nodes))
             /\ f.returns[i].node \in {0} \cup DOMAIN f.nodes
  <2>1. WellFormedRef(f, f.returns[i], Len(f.nodes))
    BY <1>1 DEF WellFormed
  <2>2. f.returns[i].node \in 0 .. Len(f.nodes)
    BY <2>1 DEF WellFormedRef
  <2>3. QED
    BY <1>2, <2>1, <2>2
<1>. QED
  BY <1>1, <1>2, <1>3, <1>4 DEF WellFormed

(***************************************************************************)
(* What the type invariant says of the function being run.                 *)
(***************************************************************************)
LEMMA Running ==
  ASSUME TypeOK, status # "idle" \/ Nodes # {}
  PROVE  fn \in Functions /\ 0 \notin Nodes
<1>1. fn \in Functions
  BY DEF TypeOK
<1>. QED
  BY <1>1, Shape DEF Nodes

(***************************************************************************)
(* Markers do put callbacks in order: when a callback has its markers,     *)
(* everything that precedes it is done.                                    *)
(***************************************************************************)
LEMMA Ordered ==
  ASSUME TypeOK, MarkerInv, NEW k \in Nodes, NEW m \in Nodes,
         \A j \in Needs(fn.nodes[k]) : Done(j), Precedes(fn, m, k)
  PROVE  m = k \/ Done(m)
<1>. DEFINE S == {n \in Nodes : Done(n)} \cup {k}
<1>1. fn \in Functions
  BY Running
<1>2. \A n \in Nodes : Needs(fn.nodes[n]) \subseteq Nodes
  BY <1>1, Shape DEF Needs, Nodes
<1>3. Closed(fn, S)
  BY <1>2 DEF Closed, MarkerInv, Done
<1>4. S \in SUBSET DOMAIN fn.nodes
  BY DEF Nodes
<1>. QED
  BY <1>3, <1>4 DEF Precedes

(***************************************************************************)
(* A callback that has its markers and is not done writes no file that     *)
(* holds a known value somebody is still to read, or that will be returned.*)
(***************************************************************************)
LEMMA Undisturbed ==
  ASSUME MarkersOrder, TypeOK, MarkerInv, NEW k \in Nodes, ~ Done(k),
         \A j \in Needs(fn.nodes[k]) : Done(j)
  PROVE  /\ \A n \in Nodes : \A i \in DOMAIN fn.nodes[n].in :
              /\ fn.nodes[n].reads[i] # None
              /\ pc[n] \in {"waiting", "started"}
              /\ Known(Ref(n, i))
              => fn.nodes[n].reads[i] \notin Outs(fn.nodes[k])
         /\ \A i \in DOMAIN fn.returns :
              fn.returns[i].path # None /\ Known(fn.returns[i])
                => fn.returns[i].path \notin Outs(fn.nodes[k])
<1>1. fn \in Functions /\ 0 \notin Nodes
  BY Running
<1>2. RaceFree(fn)
  BY <1>1 DEF MarkersOrder
<1>3. ASSUME NEW r, Known(r), r.node \in {0} \cup Nodes, NEW p, WrittenBefore(fn, r, p, k)
      PROVE  FALSE
  <2>1. r.node # 0 /\ Done(r.node) /\ r.node # k
    BY <1>1, <1>3 DEF Known, WrittenBefore
  <2>2. Precedes(fn, k, r.node)
    BY <1>3, <2>1 DEF WrittenBefore
  <2>3. \A j \in Needs(fn.nodes[r.node]) : Done(j)
    BY <1>3, <2>1 DEF MarkerInv, Done
  <2>. QED
    BY <1>3, <2>1, <2>2, <2>3, Ordered
<1>4. ASSUME NEW n \in Nodes, NEW i \in DOMAIN fn.nodes[n].in,
             fn.nodes[n].reads[i] # None, pc[n] \in {"waiting", "started"},
             Known(Ref(n, i)), fn.nodes[n].reads[i] \in Outs(fn.nodes[k])
      PROVE  FALSE
  <2>1. /\ k # n
        /\ \/ WrittenBefore(fn, Ref(n, i), fn.nodes[n].reads[i], k)
           \/ Precedes(fn, n, k)
    BY <1>2, <1>4 DEF RaceFree, Ref, Nodes
  <2>2. Ref(n, i).node \in {0} \cup Nodes
    BY <1>1, Shape DEF Ref, Nodes
  <2>3. Precedes(fn, n, k)
    BY <1>3, <1>4, <2>1, <2>2
  <2>4. Done(n)
    BY <2>1, <2>3, Ordered
  <2>. QED
    BY <1>4, <2>4 DEF Done
<1>5. ASSUME NEW i \in DOMAIN fn.returns, fn.returns[i].path # None,
             Known(fn.returns[i]), fn.returns[i].path \in Outs(fn.nodes[k])
      PROVE  FALSE
  <2>1. WrittenBefore(fn, fn.returns[i], fn.returns[i].path, k)
    BY <1>2, <1>5 DEF RaceFree, Nodes
  <2>2. fn.returns[i].node \in {0} \cup Nodes
    BY <1>1, Shape DEF Nodes
  <2>. QED
    BY <1>3, <1>5, <2>1, <2>2
<1>. QED
  BY <1>4, <1>5
-----------------------------------------------------------------------------
\* Before the first call there is nothing to be inconsistent.
LEMMA InitType == Init => TypeOK
BY MaxCallsAssumption DEF Init, TypeOK, Nodes, Done, Stages

(***************************************************************************)
(* A callback has at least one result, so << >> tells that it is not done. *)
(***************************************************************************)
LEMMA ResultsExist ==
  ASSUME TypeOK, NEW n \in Nodes, NEW vals
  PROVE  Apply(fn.nodes[n], vals) # << >>
<1>1. 1 \in DOMAIN fn.nodes[n].out
  BY Running, Shape DEF Nodes
<1>2. DOMAIN Apply(fn.nodes[n], vals) = DOMAIN fn.nodes[n].out
  BY DEF Apply
<1>. QED
  BY <1>1, <1>2

(***************************************************************************)
(* Every step keeps the variables of a call in step with each other.       *)
(***************************************************************************)
LEMMA NextType == TypeOK /\ [Next]_vars => TypeOK'
<1>. SUFFICES ASSUME TypeOK, [Next]_vars PROVE TypeOK'
  OBVIOUS
<1>1. CASE Call
  <2>1. PICK f \in Functions : \E s \in [DOMAIN f.args -> Scalars] :
          /\ fn' = f
          /\ args' = [i \in DOMAIN f.args |->
                        IF f.args[i] = None THEN s[i] ELSE files[f.args[i]]]
          /\ computed' = [n \in DOMAIN f.nodes |-> << >>]
          /\ pc' = [n \in DOMAIN f.nodes |-> "waiting"]
          /\ loaded' = [n \in DOMAIN f.nodes |-> << >>]
    BY <1>1 DEF Call
  <2>2. calls' \in 0 .. MaxCalls
    BY <1>1, MaxCallsAssumption DEF Call, TypeOK
  <2>. QED
    BY <1>1, <2>1, <2>2 DEF Call, TypeOK, Nodes, Done, Stages
<1>2. ASSUME NEW n \in Nodes, Start(n) PROVE TypeOK'
  BY <1>2 DEF Start, callVars, TypeOK, Nodes, Done, Stages
<1>3. ASSUME NEW n \in Nodes, Load(n) PROVE TypeOK'
  BY <1>3 DEF Load, callVars, TypeOK, Nodes, Done, Stages
<1>4. ASSUME NEW n \in Nodes, Store(n) PROVE TypeOK'
  <2>1. computed' = [computed EXCEPT ![n] = Apply(fn.nodes[n], loaded[n])]
    BY <1>4 DEF Store
  <2>2. Apply(fn.nodes[n], loaded[n]) # << >>
    BY ResultsExist
  <2>. QED
    BY <1>4, <2>1, <2>2 DEF Store, callVars, TypeOK, Nodes, Done, Stages
<1>5. CASE Return
  BY <1>5 DEF Return, TypeOK, Nodes, Done
<1>6. CASE Raise
  BY <1>6 DEF Raise, TypeOK, Nodes, Done
<1>7. CASE UNCHANGED vars
  BY <1>7 DEF vars, callVars, TypeOK, Nodes, Done
<1>. QED
  BY <1>1, <1>2, <1>3, <1>4, <1>5, <1>6, <1>7 DEF Next, Step, Stopped

(***************************************************************************)
(* The variables of a call agree with each other, whatever the program.    *)
(***************************************************************************)
THEOREM TypeCorrect == Spec => []TypeOK
BY InitType, NextType, PTL DEF Spec
-----------------------------------------------------------------------------
(***************************************************************************)
(* A known value does not change when another callback finishes.           *)
(***************************************************************************)
LEMMA KnownStable ==
  ASSUME TypeOK, NEW k \in Nodes, ~ Done(k), NEW results,
         fn' = fn, args' = args, computed' = [computed EXCEPT ![k] = results],
         NEW r, r.node \in {0} \cup Nodes, Known(r)
  PROVE  Value(r)' = Value(r)
<1>1. 0 \notin Nodes
  BY Running
<1>2. r.node # k
  BY <1>1 DEF Known
<1>. QED
  BY <1>2 DEF Value, ValueOf, TypeOK

(***************************************************************************)
(* Nor do a callback's operands once their markers are there.              *)
(***************************************************************************)
LEMMA OperandsStable ==
  ASSUME TypeOK, NEW k \in Nodes, ~ Done(k), NEW results,
         fn' = fn, args' = args, computed' = [computed EXCEPT ![k] = results],
         NEW n \in Nodes, \A m \in Needs(fn.nodes[n]) : Done(m)
  PROVE  Operands(fn.nodes[n], args, computed)' = Operands(fn.nodes[n], args, computed)
<1>1. fn \in Functions
  BY Running
<1>2. ASSUME NEW i \in DOMAIN fn.nodes[n].in
      PROVE  Value(Ref(n, i))' = Value(Ref(n, i))
  <2>1. Ref(n, i).node \in {0} \cup Nodes
    BY <1>1, Shape DEF Ref, Nodes
  <2>2. Known(Ref(n, i))
    BY DEF Known, Needs, Ref
  <2>3. Ref(n, i)' = Ref(n, i)
    BY DEF Ref
  <2>4. Value(Ref(n, i)) = ValueOf(Ref(n, i), args, computed)
    BY DEF Value
  <2>. QED
    BY <2>1, <2>2, <2>3, KnownStable DEF Value
<1>. QED
  BY <1>2 DEF Operands, Value, Ref

(***************************************************************************)
(* What a callback reads is its operands' values.                          *)
(***************************************************************************)
LEMMA LoadsOperands ==
  ASSUME IInv, status = "running", NEW n \in Nodes, pc[n] = "started"
  PROVE  [i \in DOMAIN fn.nodes[n].in |-> Contents(fn.nodes[n], i)]
           = Operands(fn.nodes[n], args, computed)
<1>1. ASSUME NEW i \in DOMAIN fn.nodes[n].in
      PROVE  Contents(fn.nodes[n], i) = ValueOf(fn.nodes[n].in[i], args, computed)
  <2>1. Known(Ref(n, i))
    BY DEF IInv, MarkerInv, Known, Needs, Ref
  <2>. QED
    BY <2>1 DEF IInv, FreshInv, Contents, Value, Ref
<1>. QED
  BY <1>1 DEF Operands

(***************************************************************************)
(* The result of a callback reaches its file unmixed: no other result of   *)
(* the callback has the same file.                                         *)
(***************************************************************************)
LEMMA StoresResult ==
  ASSUME MarkersOrder, TypeOK, NEW k \in Nodes, NEW p, NEW results,
         NEW i \in DOMAIN fn.nodes[k].out, fn.nodes[k].out[i] = p, p # None
  PROVE  UNION {results[j] : j \in {j \in DOMAIN fn.nodes[k].out : fn.nodes[k].out[j] = p}}
           = results[i]
<1>1. RaceFree(fn)
  BY Running DEF MarkersOrder
<1>2. {j \in DOMAIN fn.nodes[k].out : fn.nodes[k].out[j] = p} = {i}
  BY <1>1 DEF RaceFree, Nodes
<1>3. {results[j] : j \in {i}} = {results[i]}
  OBVIOUS
<1>4. UNION {results[i]} = results[i]
  OBVIOUS
<1>. QED
  BY <1>2, <1>3, <1>4

\* Nor is there a value that a file would have to hold.
LEMMA InitInv == Init => IInv
<1>. SUFFICES ASSUME Init PROVE IInv
  OBVIOUS
<1>1. TypeOK
  BY InitType
<1>2. Nodes = {} /\ status = "idle"
  BY DEF Init, Nodes
<1>. QED
  BY <1>1, <1>2 DEF IInv, MarkerInv, FreshInv, LoadedInv, ComputedAsNative, ReturnInv

\* At a call, the known values are the arguments, just read from their files.
LEMMA CallInv ==
  ASSUME MarkersOrder, IInv, TypeOK', Call
  PROVE  IInv'
<1>1. PICK f \in Functions : \E s \in [DOMAIN f.args -> Scalars] :
        /\ \A i \in DOMAIN f.args : f.args[i] # None => f.args[i] \in DOMAIN files
        /\ fn' = f
        /\ args' = [i \in DOMAIN f.args |->
                      IF f.args[i] = None THEN s[i] ELSE files[f.args[i]]]
        /\ computed' = [n \in DOMAIN f.nodes |-> << >>]
        /\ pc' = [n \in DOMAIN f.nodes |-> "waiting"]
        /\ loaded' = [n \in DOMAIN f.nodes |-> << >>]
  BY DEF Call
<1>2. Nodes' = DOMAIN f.nodes /\ \A n \in DOMAIN f.nodes : pc'[n] = "waiting"
  BY <1>1 DEF Nodes
<1>3. ASSUME NEW r, NEW n \in Nat, WellFormedRef(f, r, n),
             r.node \in {0} \cup DOMAIN f.nodes, Known(r)', r.path # None
      PROVE  /\ r.path \in DOMAIN files'
             /\ files'[r.path] = Value(r)'
  <2>1. r.node = 0
    BY <1>2, <1>3 DEF Known, Done
  <2>2. r.pos \in DOMAIN f.args /\ r.path = f.args[r.pos]
    BY <1>3, <2>1 DEF WellFormedRef
  <2>3. files' = files
    BY DEF Call
  <2>4. args'[r.pos] = files[r.path] /\ r.path \in DOMAIN files
    BY <1>1, <1>3, <2>2
  <2>5. Value(r)' = args'[r.pos]
    BY <2>1 DEF Value, ValueOf
  <2>. QED
    BY <2>3, <2>4, <2>5
<1>4. MarkerInv' /\ LoadedInv' /\ ComputedAsNative'
  BY <1>2 DEF MarkerInv, LoadedInv, ComputedAsNative, Done
<1>5. FreshInv'
  <2>1. ASSUME NEW n \in DOMAIN f.nodes, NEW i \in DOMAIN f.nodes[n].in,
               f.nodes[n].reads[i] # None, Known(f.nodes[n].in[i])'
        PROVE  /\ f.nodes[n].reads[i] \in DOMAIN files'
               /\ files'[f.nodes[n].reads[i]] = Value(f.nodes[n].in[i])'
    <3>1. f.nodes[n].reads[i] = f.nodes[n].in[i].path
      BY <2>1 DEF MarkersOrder, RaceFree
    <3>2. /\ WellFormedRef(f, f.nodes[n].in[i], n - 1)
          /\ f.nodes[n].in[i].node \in {0} \cup DOMAIN f.nodes
          /\ n - 1 \in Nat
      BY Shape
    <3>. QED
      BY <1>3, <2>1, <3>1, <3>2
  <2>. QED
    BY <1>1, <1>2, <2>1 DEF FreshInv, Ref
<1>6. ReturnInv'
  <2>1. ASSUME NEW i \in DOMAIN f.returns, f.returns[i].path # None, Known(f.returns[i])'
        PROVE  /\ f.returns[i].path \in DOMAIN files'
               /\ files'[f.returns[i].path] = Value(f.returns[i])'
    <3>1. /\ WellFormedRef(f, f.returns[i], Len(f.nodes))
          /\ f.returns[i].node \in {0} \cup DOMAIN f.nodes
          /\ Len(f.nodes) \in Nat
      BY Shape
    <3>. QED
      BY <1>3, <2>1, <3>1
  <2>. QED
    BY <1>1, <2>1 DEF ReturnInv
<1>. QED
  BY <1>4, <1>5, <1>6 DEF IInv

\* Opening its files, a callback truncates none that holds a value still needed.
LEMMA StartInv ==
  ASSUME MarkersOrder, IInv, TypeOK', NEW k \in Nodes, Start(k)
  PROVE  IInv'
<1>1. /\ TypeOK /\ MarkerInv /\ ~ Done(k) /\ status = "running"
      /\ \A j \in Needs(fn.nodes[k]) : Done(j)
  BY DEF IInv, Start, Done
<1>2. /\ fn' = fn /\ args' = args /\ computed' = computed /\ status' = status
      /\ loaded' = loaded /\ Nodes' = Nodes
  BY DEF Start, callVars, Nodes
<1>3. /\ \A n \in Nodes : pc'[n] = IF n = k THEN "started" ELSE pc[n]
      /\ \A n \in Nodes : Done(n)' <=> Done(n)
  BY <1>1 DEF Start, TypeOK, Done
<1>4. /\ DOMAIN files' = DOMAIN files \cup Outs(fn.nodes[k])
      /\ \A p \in DOMAIN files : p \notin Outs(fn.nodes[k]) => files'[p] = files[p]
  BY DEF Start, Truncate
<1>5. MarkerInv'
  BY <1>1, <1>2, <1>3, <1>4, Running, Shape DEF MarkerInv, Needs, Nodes
<1>6. FreshInv'
  <2>1. ASSUME NEW n \in Nodes, NEW i \in DOMAIN fn.nodes[n].in,
               fn.nodes[n].reads[i] # None, pc'[n] \in {"waiting", "started"},
               Known(Ref(n, i))
        PROVE  /\ fn.nodes[n].reads[i] \in DOMAIN files'
               /\ files'[fn.nodes[n].reads[i]] = Value(Ref(n, i))
    <3>1. pc[n] \in {"waiting", "started"}
      BY <1>3, <2>1 DEF Start
    <3>2. fn.nodes[n].reads[i] \notin Outs(fn.nodes[k])
      BY <1>1, <2>1, <3>1, Undisturbed
    <3>. QED
      BY <1>1, <1>4, <2>1, <3>1, <3>2 DEF IInv, FreshInv
  <2>2. ASSUME NEW n \in Nodes, NEW i \in DOMAIN fn.nodes[n].in
        PROVE  Ref(n, i)' = Ref(n, i) /\ (Known(Ref(n, i))' <=> Known(Ref(n, i)))
               /\ Value(Ref(n, i))' = Value(Ref(n, i))
    BY <1>1, <1>2, <1>3, Running, Shape DEF Ref, Known, Value, Nodes
  <2>. QED
    BY <1>2, <2>1, <2>2 DEF FreshInv
<1>7. LoadedInv' /\ ComputedAsNative'
  BY <1>2, <1>3 DEF IInv, LoadedInv, ComputedAsNative
<1>8. ReturnInv'
  <2>1. ASSUME NEW i \in DOMAIN fn.returns, fn.returns[i].path # None,
               Known(fn.returns[i])
        PROVE  /\ fn.returns[i].path \in DOMAIN files'
               /\ files'[fn.returns[i].path] = Value(fn.returns[i])
    <3>1. fn.returns[i].path \notin Outs(fn.nodes[k])
      BY <1>1, <2>1, Undisturbed
    <3>. QED
      BY <1>1, <1>4, <2>1, <3>1 DEF IInv, ReturnInv
  <2>2. ASSUME NEW i \in DOMAIN fn.returns
        PROVE  (Known(fn.returns[i])' <=> Known(fn.returns[i]))
               /\ Value(fn.returns[i])' = Value(fn.returns[i])
    BY <1>1, <1>2, <1>3, Running, Shape DEF Known, Value, Nodes
  <2>. QED
    BY <1>2, <2>1, <2>2 DEF ReturnInv
<1>. QED
  BY <1>5, <1>6, <1>7, <1>8 DEF IInv

\* Reading changes no file, and what has been read is what the operands are.
LEMMA LoadInv ==
  ASSUME IInv, TypeOK', NEW k \in Nodes, Load(k)
  PROVE  IInv'
<1>1. TypeOK /\ MarkerInv /\ ~ Done(k) /\ status = "running" /\ pc[k] = "started"
  BY DEF IInv, Load, Done
<1>2. /\ fn' = fn /\ args' = args /\ computed' = computed /\ status' = status
      /\ files' = files /\ Nodes' = Nodes
  BY DEF Load, callVars, Nodes
<1>3. /\ \A n \in Nodes : pc'[n] = IF n = k THEN "loaded" ELSE pc[n]
      /\ \A n \in Nodes : Done(n)' <=> Done(n)
  BY <1>1 DEF Load, TypeOK, Done
<1>4. \A n \in Nodes : loaded'[n] = IF n = k THEN Operands(fn.nodes[k], args, computed)
                                           ELSE loaded[n]
  BY <1>1, LoadsOperands DEF Load, TypeOK
<1>5. MarkerInv'
  BY <1>1, <1>2, <1>3, Running, Shape DEF MarkerInv, Needs, Nodes
<1>6. FreshInv'
  <2>1. ASSUME NEW n \in Nodes, NEW i \in DOMAIN fn.nodes[n].in
        PROVE  Ref(n, i)' = Ref(n, i) /\ (Known(Ref(n, i))' <=> Known(Ref(n, i)))
               /\ Value(Ref(n, i))' = Value(Ref(n, i))
    BY <1>1, <1>2, <1>3, Running, Shape DEF Ref, Known, Value, Nodes
  <2>. QED
    BY <1>2, <1>3, <2>1 DEF IInv, FreshInv
<1>7. LoadedInv' /\ ComputedAsNative'
  BY <1>2, <1>3, <1>4 DEF IInv, LoadedInv, ComputedAsNative
<1>8. ReturnInv'
  <2>1. ASSUME NEW i \in DOMAIN fn.returns
        PROVE  (Known(fn.returns[i])' <=> Known(fn.returns[i]))
               /\ Value(fn.returns[i])' = Value(fn.returns[i])
    BY <1>1, <1>2, <1>3, Running, Shape DEF Known, Value, Nodes
  <2>. QED
    BY <1>2, <2>1 DEF IInv, ReturnInv
<1>. QED
  BY <1>5, <1>6, <1>7, <1>8 DEF IInv

(***************************************************************************)
(* Storing makes the results known; their files hold them, and no other    *)
(* file that matters is written.                                           *)
(***************************************************************************)
LEMMA StoreInv ==
  ASSUME MarkersOrder, IInv, TypeOK', NEW k \in Nodes, Store(k)
  PROVE  IInv'
<1>. DEFINE node == fn.nodes[k]
            results == Apply(node, loaded[k])
<1>1. /\ TypeOK /\ MarkerInv /\ ~ Done(k) /\ status = "running" /\ pc[k] = "loaded"
      /\ \A j \in Needs(node) : Done(j)
      /\ Outs(node) \subseteq DOMAIN files
  BY DEF IInv, MarkerInv, Store, Done
<1>2. /\ fn' = fn /\ args' = args /\ status' = status /\ Nodes' = Nodes
      /\ computed' = [computed EXCEPT ![k] = results]
  BY DEF Store, callVars, Nodes
<1>3. /\ \A n \in Nodes : pc'[n] = IF n = k THEN "done" ELSE pc[n]
      /\ \A n \in Nodes : Done(n)' <=> Done(n) \/ n = k
      /\ \A n \in Nodes : n # k => loaded'[n] = loaded[n]
      /\ computed'[k] = results
  BY <1>1, <1>2 DEF Store, TypeOK, Done
<1>4. /\ DOMAIN files' = DOMAIN files
      /\ \A p \in DOMAIN files : p \notin Outs(node) => files'[p] = files[p]
      /\ \A p \in Outs(node) :
           files'[p] = UNION {results[i] : i \in {j \in DOMAIN node.out : node.out[j] = p}}
  BY <1>1 DEF Store
<1>5. fn \in Functions /\ 0 \notin Nodes
  BY <1>1, Running
<1>6. ASSUME NEW r, NEW n \in Nat, WellFormedRef(fn, r, n), r.node = k, r.path # None
      PROVE  /\ r.path \in DOMAIN files'
             /\ files'[r.path] = Value(r)'
  <2>1. r.pos \in DOMAIN node.out /\ r.path = node.out[r.pos]
    BY <1>5, <1>6 DEF WellFormedRef
  <2>2. r.path \in Outs(node)
    BY <1>6, <2>1 DEF Outs
  <2>3. files'[r.path] = results[r.pos]
    <3>. HIDE DEF results
    <3>1. UNION {results[i] : i \in {j \in DOMAIN node.out : node.out[j] = r.path}}
            = results[r.pos]
      BY <1>1, <1>6, <2>1, StoresResult
    <3>. QED
      BY <1>4, <2>2, <3>1
  <2>4. Value(r)' = results[r.pos]
    BY <1>3, <1>5, <1>6 DEF Value, ValueOf
  <2>. QED
    BY <1>1, <1>4, <2>2, <2>3, <2>4
<1>7. ASSUME NEW r, r.node \in {0} \cup Nodes, r.node # k
      PROVE  (Known(r)' <=> Known(r)) /\ (Known(r) => Value(r)' = Value(r))
  BY <1>1, <1>2, <1>3, <1>7, KnownStable DEF Known
<1>8. MarkerInv'
  BY <1>1, <1>2, <1>3, <1>4, <1>5, Shape DEF MarkerInv, Needs, Nodes
<1>9. FreshInv'
  <2>. SUFFICES ASSUME NEW n \in Nodes, NEW i \in DOMAIN fn.nodes[n].in,
                       fn.nodes[n].reads[i] # None, pc'[n] \in {"waiting", "started"},
                       Known(Ref(n, i))'
                PROVE  /\ fn.nodes[n].reads[i] \in DOMAIN files'
                       /\ files'[fn.nodes[n].reads[i]] = Value(Ref(n, i))'
    BY <1>2 DEF FreshInv, Ref
  <2>1. /\ WellFormedRef(fn, Ref(n, i), n - 1)
        /\ Ref(n, i).node \in {0} \cup Nodes
        /\ n - 1 \in Nat
        /\ Ref(n, i)' = Ref(n, i)
    BY <1>2, <1>5, Shape DEF Ref, Nodes
  <2>2. fn.nodes[n].reads[i] = Ref(n, i).path
    BY <1>5 DEF MarkersOrder, RaceFree, Ref, Nodes
  <2>3. CASE Ref(n, i).node = k
    <3>. DEFINE r == Ref(n, i)
    <3>1. r.path # None /\ r.node = k /\ WellFormedRef(fn, r, n - 1) /\ n - 1 \in Nat
      BY <2>1, <2>2, <2>3
    <3>2. r.path \in DOMAIN files' /\ files'[r.path] = ValueOf(r, args', computed')
      <4>. HIDE DEF r
      <4>. QED
        BY <1>6, <3>1 DEF Value
    <3>. QED
      BY <2>1, <2>2, <3>2 DEF Value
  <2>4. CASE Ref(n, i).node # k
    <3>1. pc[n] \in {"waiting", "started"}
      BY <1>3
    <3>2. Known(Ref(n, i))
      BY <1>3, <2>1, <2>4 DEF Known
    <3>3. fn.nodes[n].reads[i] \notin Outs(node)
      BY <1>1, <3>1, <3>2, Undisturbed
    <3>4. /\ fn.nodes[n].reads[i] \in DOMAIN files
          /\ files[fn.nodes[n].reads[i]] = Value(Ref(n, i))
      BY <1>1, <3>1, <3>2 DEF IInv, FreshInv
    <3>5. Value(Ref(n, i))' = Value(Ref(n, i))
      BY <1>2, <2>1, <2>4 DEF Value, ValueOf
    <3>. QED
      BY <1>4, <3>3, <3>4, <3>5
  <2>. QED
    BY <2>3, <2>4
<1>10. LoadedInv'
  <2>1. ASSUME NEW n \in Nodes, n # k, pc[n] = "loaded"
        PROVE  Operands(fn.nodes[n], args, computed)' = Operands(fn.nodes[n], args, computed)
    BY <1>1, <1>2, <2>1, OperandsStable DEF MarkerInv
  <2>. QED
    BY <1>2, <1>3, <2>1 DEF IInv, LoadedInv
<1>11. ComputedAsNative'
  <2>1. ASSUME NEW n \in Nodes, Done(n) \/ n = k
        PROVE  Operands(fn.nodes[n], args, computed)' = Operands(fn.nodes[n], args, computed)
    <3>1. \A m \in Needs(fn.nodes[n]) : Done(m)
      BY <1>1, <2>1 DEF MarkerInv, Done
    <3>. QED
      BY <1>1, <1>2, <3>1, OperandsStable
  <2>2. results = Apply(node, Operands(node, args, computed))
    BY <1>1 DEF IInv, LoadedInv
  <2>3. \A n \in Nodes : n # k => computed'[n] = computed[n]
    BY <1>2 DEF IInv, TypeOK
  <2>. QED
    BY <1>2, <1>3, <2>1, <2>2, <2>3 DEF IInv, ComputedAsNative
<1>12. ReturnInv'
  <2>. SUFFICES ASSUME NEW i \in DOMAIN fn.returns, fn.returns[i].path # None,
                       Known(fn.returns[i])'
                PROVE  /\ fn.returns[i].path \in DOMAIN files'
                       /\ files'[fn.returns[i].path] = Value(fn.returns[i])'
    BY <1>2 DEF ReturnInv
  <2>1. /\ WellFormedRef(fn, fn.returns[i], Len(fn.nodes))
        /\ fn.returns[i].node \in {0} \cup Nodes
        /\ Len(fn.nodes) \in Nat
    BY <1>5, Shape DEF Nodes
  <2>2. CASE fn.returns[i].node = k
    BY <1>2, <1>6, <2>1, <2>2 DEF Value
  <2>3. CASE fn.returns[i].node # k
    <3>1. Known(fn.returns[i])
      BY <1>2, <1>3, <2>1, <2>3 DEF Known
    <3>2. fn.returns[i].path \notin Outs(node)
      BY <1>1, <3>1, Undisturbed
    <3>3. /\ fn.returns[i].path \in DOMAIN files
          /\ files[fn.returns[i].path] = Value(fn.returns[i])
      BY <1>1, <3>1 DEF IInv, ReturnInv
    <3>4. Value(fn.returns[i])' = Value(fn.returns[i])
      BY <1>2, <2>1, <2>3 DEF Value, ValueOf
    <3>. QED
      BY <1>4, <3>2, <3>3, <3>4
  <2>. QED
    BY <2>2, <2>3
<1>. QED
  BY <1>8, <1>9, <1>10, <1>11, <1>12 DEF IInv

\* The invariant is preserved by every step.
LEMMA NextInv ==
  ASSUME MarkersOrder
  PROVE  IInv /\ [Next]_vars => IInv'
<1>. SUFFICES ASSUME IInv, [Next]_vars PROVE IInv'
  OBVIOUS
<1>1. TypeOK'
  BY NextType DEF IInv
<1>2. CASE Call
  BY <1>1, <1>2, CallInv
<1>3. ASSUME NEW k \in Nodes, Start(k) PROVE IInv'
  BY <1>1, <1>3, StartInv
<1>4. ASSUME NEW k \in Nodes, Load(k) PROVE IInv'
  BY <1>1, <1>4, LoadInv
<1>5. ASSUME NEW k \in Nodes, Store(k) PROVE IInv'
  BY <1>1, <1>5, StoreInv
<1>6. CASE Return \/ Raise \/ UNCHANGED vars
  <2>1. /\ UNCHANGED << fn, args, computed, pc, loaded, files >>
        /\ status' = "running" => status = "running"
        /\ status' = "returned" => status \in {"running", "returned"}
    BY <1>6 DEF Return, Raise, vars, callVars
  <2>2. Nodes' = Nodes /\ (\A n : Done(n)' <=> Done(n))
    BY <2>1 DEF Nodes, Done
  <2>3. MarkerInv' /\ LoadedInv' /\ ComputedAsNative'
    BY <2>1, <2>2 DEF IInv, MarkerInv, LoadedInv, ComputedAsNative
  <2>4. FreshInv'
    BY <2>1, <2>2 DEF IInv, FreshInv, Ref, Known, Value
  <2>5. ReturnInv'
    BY <2>1, <2>2 DEF IInv, ReturnInv, Known, Value
  <2>. QED
    BY <1>1, <2>3, <2>4, <2>5 DEF IInv
<1>. QED
  BY <1>2, <1>3, <1>4, <1>5, <1>6 DEF Next, Step, Stopped

(***************************************************************************)
(* Whatever the order of the callbacks, each one that is done has computed *)
(* its op of its operands' values (base_algo.py:184-197).                  *)
(***************************************************************************)
THEOREM DataflowCorrect ==
  ASSUME MarkersOrder
  PROVE  Spec => []ComputedAsNative
<1>1. Init => IInv
  BY InitInv
<1>2. IInv /\ [Next]_vars => IInv'
  BY NextInv
<1>3. IInv => ComputedAsNative
  BY DEF IInv
<1>. QED
  BY <1>1, <1>2, <1>3, PTL DEF Spec

(***************************************************************************)
(* When the call returns, the files of the arrays it returns hold their    *)
(* values (disk_array.py:319-324).                                         *)
(***************************************************************************)
THEOREM ReturnedCorrect ==
  ASSUME MarkersOrder
  PROVE  Spec => []ReturnedIntact
<1>1. Init => IInv /\ ReturnedIntact
  BY InitInv DEF Init, ReturnedIntact
<1>2. IInv /\ [Next]_vars => IInv'
  BY NextInv
<1>3. ASSUME IInv, ReturnedIntact, [Next]_vars, IInv' PROVE ReturnedIntact'
  <2>1. CASE Return
    <3>1. fn' = fn /\ status' = "returned" /\ (\A n \in Nodes : Done(n)')
      BY <2>1 DEF Return, Done
    <3>2. fn \in Functions
      BY <1>3, <2>1, Running DEF Return, IInv
    <3>3. \A i \in DOMAIN fn.returns : Known(fn.returns[i])'
      BY <3>1, <3>2, Shape DEF Known, Nodes
    <3>. QED
      BY <1>3, <3>1, <3>3 DEF IInv, ReturnInv, ReturnedIntact, Value
  <2>2. CASE \E n \in Nodes : Start(n) \/ Load(n) \/ Store(n)
    BY <2>2 DEF Start, Load, Store, callVars, ReturnedIntact
  <2>3. CASE Call \/ Raise
    BY <2>3 DEF Call, Raise, ReturnedIntact
  <2>4. CASE UNCHANGED vars
    BY <1>3, <2>4 DEF vars, callVars, ReturnedIntact
  <2>. QED
    BY <1>3, <2>1, <2>2, <2>3, <2>4 DEF Next, Step, Stopped
<1>. QED
  BY <1>1, <1>2, <1>3, PTL DEF Spec

(***************************************************************************)
(* The callbacks implement the native evaluation: every step is a step of  *)
(* NativeValues or invisible to it.  Evaluation happens when a callback    *)
(* stores its results, on operands it read earlier.                        *)
(***************************************************************************)
THEOREM ImplementsNative ==
  ASSUME MarkersOrder
  PROVE  Spec => NativeSpec
<1>1. Init => Native!Init
  BY DEF Init, Native!Init
<1>2. Init => IInv
  BY InitInv
<1>3. IInv /\ [Next]_vars => IInv'
  BY NextInv
<1>4. ASSUME IInv, [Next]_vars PROVE [Native!Next]_(Native!vars)
  <2>1. CASE Call
    <3>1. Native!Call
      BY <2>1 DEF Call, Native!Call
    <3>. QED
      BY <3>1 DEF Native!Next
  <2>2. ASSUME NEW n \in Nodes, Start(n) \/ Load(n) PROVE UNCHANGED Native!vars
    BY <2>2 DEF Start, Load, callVars, Native!vars
  <2>3. ASSUME NEW n \in Nodes, Store(n) PROVE Native!Next
    <3>1. /\ \A m \in Needs(fn.nodes[n]) : Done(m)
          /\ loaded[n] = Operands(fn.nodes[n], args, computed)
          /\ ~ Done(n) /\ status = "running"
      BY <1>4, <2>3 DEF IInv, MarkerInv, LoadedInv, Store, Done
    <3>2. Needs(fn.nodes[n]) \subseteq Nodes
      BY <1>4, Running, Shape DEF IInv, Needs, Nodes
    <3>3. \A m \in Nodes : computed[m] # << >> <=> Done(m)
      BY <1>4 DEF IInv, TypeOK
    <3>4. /\ computed' = [computed EXCEPT ![n] = Apply(fn.nodes[n], loaded[n])]
          /\ UNCHANGED << fn, status, args >>
      BY <2>3 DEF Store, callVars
    <3>5. /\ Native!Needs(fn.nodes[n]) = Needs(fn.nodes[n])
          /\ Native!Operands(fn.nodes[n], args, computed) = loaded[n]
          /\ Native!Apply(fn.nodes[n], loaded[n]) = Apply(fn.nodes[n], loaded[n])
      BY <3>1 DEF Native!Needs, Needs, Native!Operands, Operands, Native!ValueOf, ValueOf,
                  Native!Apply, Apply
    <3>6. Native!Evaluate(n)
      BY <3>1, <3>3, <3>4, <3>5, <3>2 DEF Native!Evaluate, Native!Evaluated
    <3>. QED
      BY <3>6 DEF Native!Next, Native!Nodes, Nodes
  <2>4. CASE Return
    <3>1. Native!Return
      BY <1>4, <2>4 DEF Return, Native!Return, Native!Evaluated, Native!Nodes, Nodes,
                        IInv, TypeOK
    <3>. QED
      BY <3>1 DEF Native!Next
  <2>5. CASE Raise
    <3>1. Native!Raise
      BY <2>5 DEF Raise, Native!Raise
    <3>. QED
      BY <3>1 DEF Native!Next
  <2>6. CASE UNCHANGED vars
    BY <2>6 DEF vars, callVars, Native!vars
  <2>. QED
    BY <1>4, <2>1, <2>2, <2>3, <2>4, <2>5, <2>6 DEF Next, Step, Stopped
<1>. QED
  BY <1>1, <1>2, <1>3, <1>4, PTL DEF Spec, NativeSpec, Native!Spec
=============================================================================
