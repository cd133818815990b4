------------------------ MODULE DiskArrayLifecycle_proofs ------------------------
(***************************************************************************)
(* Proofs about the files of disk arrays for any names, wrappers, values,  *)
(* number of blocks and number of calls.                                   *)
(***************************************************************************)
EXTENDS DiskArrayLifecycle, TLAPS

(***************************************************************************)
(* A call's output has no armed finalizer; it is there once it has been    *)
(* truncated, and stays unless the call is going to own it, which it does  *)
(* with new files only, never with a gradient's.                           *)
(***************************************************************************)
CallInv ==
  call # None =>
    /\ \A i \in armed : wrappers[i].path # call.out
    /\ call.at > 0 =>
         call.out \in DOMAIN files /\ (call.kind # "owner" => call.out \in left)
    /\ call.kind = "owner" => call.out \in DOMAIN files \ left /\ ~ call.out.grad

\* A compiled function's result stays, or is the output of the call that traced it.
TracedInv ==
  \A p \in DOMAIN traced :
    \/ traced[p] \in left
    \/ Writing(traced[p]) /\ call.kind = "view" /\ traced[p] \in DOMAIN files

(***************************************************************************)
(* A result of update_ is one of the files that stay.  An owner's file has *)
(* a finalizer, stays, or is being overwritten by the update_ that has     *)
(* cancelled the finalizer.                                                *)
(***************************************************************************)
OwnerInv ==
  \A i \in DOMAIN wrappers :
    /\ wrappers[i].kind = "updated" => wrappers[i].path \in left
    /\ wrappers[i].kind = "owner" =>
         \/ i \in armed
         \/ wrappers[i].path \in left
         \/ Writing(wrappers[i].path) /\ call.kind = "updated"
              /\ wrappers[i].path \in DOMAIN files

\* No finalizer removes a gradient file.
ArmedInv == \A i \in armed : ~ wrappers[i].path.grad

\* Files that are to stay are there.
LeftInv == left \subseteq DOMAIN files

(***************************************************************************)
(* An owner or a result of update_ was made for the array that its name    *)
(* stands for now, and where that array stands for its name, its file is   *)
(* there.                                                                  *)
(***************************************************************************)
ArrayInv ==
  \A i \in DOMAIN wrappers :
    /\ wrappers[i].kind # "view" => wrappers[i].nth = removed[wrappers[i].path]
    /\ wrappers[i].nth = removed[wrappers[i].path] => wrappers[i].path \in DOMAIN files

\* A file that is there, or going to be, has a call of its own, which none of the
\* removed files of that name had.
CountInv ==
  /\ \A p \in DOMAIN files : removed[p] < calls
  /\ call # None => removed[call.out] < calls

IInv ==
  /\ TypeOK /\ OneRemover /\ FilesAccounted
  /\ CallInv /\ TracedInv /\ OwnerInv /\ ArmedInv /\ LeftInv
  /\ ArrayInv /\ CountInv

-----------------------------------------------------------------------------
\* Names that mkstemp may choose are not in use and are no gradient's; tangents are.
LEMMA FreshFacts == \A p \in Fresh : p \in Paths /\ ~ p.grad /\ p \notin DOMAIN files
  BY DEF Fresh, Paths, Data

LEMMA TangentFacts ==
  ASSUME NEW p \in Paths
  PROVE  Tangent(p) \in Paths /\ Tangent(p).grad
<1>1. p.name \in Names
  BY DEF Paths, Data, Grad
<1>2. QED
  BY <1>1 DEF Tangent, Paths, Grad

\* Where there is room for a wrapper, a new object is none of those there are.
LEMMA NewIdFresh ==
  ASSUME DOMAIN wrappers \subseteq Ids, DOMAIN wrappers # Ids
  PROVE  NewId \in Ids \ DOMAIN wrappers
<1>1. \E i \in Ids \ DOMAIN wrappers : TRUE
  OBVIOUS
<1>2. QED
  BY <1>1 DEF NewId

\* What calls write is contents of an array.
LEMMA ContentsFacts ==
  ASSUME TypeOK
  PROVE  /\ Zeros \in Contents
         /\ \A v \in Values : Uniform(v) \in Contents
         /\ \A p : Holds(p) \in Contents
         /\ \A p : \A v \in Values : Computed(p, v) \in Contents
<1>1. Zeros \in Contents /\ \A v \in Values : Uniform(v) \in Contents
  BY DEF Zeros, Uniform, Contents
<1>2. \A p : Holds(p) \in Contents
  BY <1>1 DEF Holds, TypeOK
<1>3. \A p : \A v \in Values : Computed(p, v) \in Contents
  BY DEF Computed, Contents
<1>4. QED
  BY <1>1, <1>2, <1>3

\* What a wrapper was made for is an array.
LEMMA ArrayOfFacts ==
  ASSUME TypeOK, NEW i \in DOMAIN wrappers
  PROVE  ArrayOf(i) \in Arrays
<1>1. wrappers[i].path \in Paths /\ wrappers[i].nth \in 0 .. removed[wrappers[i].path]
  BY DEF TypeOK
<1>2. removed[wrappers[i].path] \in 0 .. calls /\ calls \in 0 .. MaxCalls
  BY <1>1 DEF TypeOK
<1>3. wrappers[i].nth \in 0 .. MaxCalls
  BY <1>1, <1>2, LifecycleAssumption
<1>4. QED
  BY <1>1, <1>3 DEF ArrayOf, Arrays

\* With another call, there is room for another removal of each name.
LEMMA CallCounted ==
  ASSUME TypeOK, calls < MaxCalls, calls' = calls + 1, removed' = removed
  PROVE  /\ calls' \in 0 .. MaxCalls /\ removed' \in [Paths -> 0 .. calls']
         /\ \A p \in Paths : removed'[p] < calls'
<1>1. calls \in 0 .. MaxCalls /\ removed \in [Paths -> 0 .. calls]
  BY DEF TypeOK
<1>2. calls' \in 0 .. MaxCalls
  BY <1>1, LifecycleAssumption
<1>3. ASSUME NEW p \in Paths
      PROVE  removed'[p] \in 0 .. calls' /\ removed'[p] < calls'
  BY <1>1, <1>2, LifecycleAssumption
<1>4. removed' \in [Paths -> 0 .. calls']
  BY <1>1, <1>3
<1>5. QED
  BY <1>2, <1>3, <1>4

\* The record a call begins with is a call, and is not None.
LEMMA EnterFacts ==
  ASSUME NEW kind \in Kinds \cup {None}, NEW src \in Paths \cup {None}, NEW out \in Paths,
         NEW want \in Contents, NEW target \in Arrays \cup {None},
         Enter(kind, src, out, want, target)
  PROVE  /\ call' \in Calls /\ call' # None
         /\ call'.out = out /\ call'.kind = kind /\ call'.at = 0
<1>1. 0 \in 0 .. NumBlocks + 1
  BY LifecycleAssumption
<1>2. QED
  BY <1>1, NoneAssumption DEF Enter, Calls

\* The invariant holds at first.
LEMMA InitIInv == Init => IInv
  BY LifecycleAssumption
  DEF Init, IInv, TypeOK, OneRemover, FilesAccounted, CallInv, TracedInv, OwnerInv,
      ArmedInv, LeftInv, ArrayInv, CountInv

(***************************************************************************)
(* A call that writes a file of its own, with a compiled function for it   *)
(* or without.                                                             *)
(***************************************************************************)
LEMMA EnterFresh ==
  ASSUME IInv, Idle, NEW p \in Fresh, NEW x \in Contents, files' = With(files, p, x),
         call' \in Calls, call' # None,
         call'.out = p, call'.at = 0, call'.kind # "updated",
         UNCHANGED << wrappers, held, armed, active, left, removed >>,
         \/ traced' = traced
         \/ call'.kind = "view" /\ \E src \in Paths : traced' = With(traced, src, p)
  PROVE  IInv'
<1>1. p \in Paths /\ ~ p.grad /\ p \notin DOMAIN files
  BY FreshFacts
<1>2. call = None /\ DOMAIN wrappers # Ids /\ calls < MaxCalls /\ calls' = calls + 1
  BY DEF Idle
<1>3. DOMAIN files' = DOMAIN files \cup {p} /\ \A q \in DOMAIN files' : files'[q] \in Contents
  BY DEF With, IInv, TypeOK
<1>4. \A q : Writing(q)' <=> q = p
  BY DEF Writing
<1>5. TracedInv'
  BY <1>1, <1>2, <1>3, <1>4, ZenonT(40) DEF IInv, TracedInv, With, Writing
<1>6. TypeOK'
  <2>1. /\ DOMAIN traced' \subseteq Paths
        /\ (\A q \in DOMAIN traced : traced[q] \in left \/ Writing(traced[q]))'
    <3>1. DOMAIN traced' \subseteq Paths
      <4>1. CASE traced' = traced
        BY <4>1 DEF IInv, TypeOK
      <4>2. CASE \E src \in Paths : traced' = With(traced, src, p)
        BY <4>2 DEF IInv, TypeOK, With
      <4>3. QED
        BY <4>1, <4>2
    <3>2. QED
      BY <1>5, <3>1 DEF TracedInv
  <2>2. calls' \in 0 .. MaxCalls /\ removed' \in [Paths -> 0 .. calls']
    BY <1>2, CallCounted DEF IInv
  <2>3. QED
    BY <1>1, <1>2, <1>3, <2>1, <2>2 DEF IInv, TypeOK, Writing
<1>7. OneRemover'
  BY <1>3 DEF IInv, OneRemover
<1>8. FilesAccounted'
  BY <1>2, <1>3, <1>4 DEF IInv, FilesAccounted, Writing
<1>9. CallInv'
  BY <1>1, <1>3 DEF IInv, CallInv, OneRemover, LeftInv
<1>10. OwnerInv' /\ ArmedInv' /\ LeftInv'
  BY <1>2, <1>3 DEF IInv, OwnerInv, ArmedInv, LeftInv, Writing
<1>11. ArrayInv'
  BY <1>3 DEF IInv, ArrayInv
<1>12. CountInv'
  BY <1>1, <1>2, <1>3, CallCounted DEF IInv, TypeOK, CountInv
<1>13. QED
  BY <1>5, <1>6, <1>7, <1>8, <1>9, <1>10, <1>11, <1>12 DEF IInv

(***************************************************************************)
(* A call that overwrites a file which no finalizer is going to remove; it *)
(* may leave files behind on the way.                                      *)
(***************************************************************************)
LEMMA EnterExisting ==
  ASSUME IInv, Idle, NEW out \in Paths, \A i \in armed : wrappers[i].path # out,
         call' \in Calls, call' # None,
         call'.out = out, call'.at = 0, call'.kind \notin {"owner", "updated"},
         UNCHANGED << wrappers, held, armed, active, traced, removed >>,
         \/ UNCHANGED << files, left >>
         \/ \E p \in Fresh, x \in Contents :
              files' = With(files, p, x) /\ left' = left \cup {p}
  PROVE  IInv'
<1>1. call = None /\ DOMAIN wrappers # Ids /\ calls < MaxCalls /\ calls' = calls + 1
  BY DEF Idle
<1>2. /\ DOMAIN files \subseteq DOMAIN files' /\ left \subseteq left'
      /\ DOMAIN files' \ left' \subseteq DOMAIN files \ left
      /\ DOMAIN files' \subseteq Paths /\ left' \subseteq Paths
      /\ left' \subseteq DOMAIN files'
      /\ (left' \ left) \cap DOMAIN files = {}
      /\ \A q \in DOMAIN files' : files'[q] \in Contents
  BY FreshFacts DEF With, IInv, TypeOK, LeftInv
<1>3. \A q \in DOMAIN traced : traced[q] \in left
  BY <1>1 DEF IInv, TracedInv, Writing
<1>4. calls' \in 0 .. MaxCalls /\ removed' \in [Paths -> 0 .. calls']
  BY <1>1, CallCounted DEF IInv
<1>5. TypeOK'
  BY <1>1, <1>2, <1>3, <1>4 DEF IInv, TypeOK
<1>6. OneRemover'
  BY <1>2 DEF IInv, OneRemover
<1>7. FilesAccounted'
  BY <1>1, <1>2 DEF IInv, FilesAccounted, Writing
<1>8. CallInv'
  BY DEF CallInv
<1>9. TracedInv' /\ OwnerInv' /\ ArmedInv' /\ LeftInv'
  BY <1>1, <1>2, <1>3 DEF IInv, TracedInv, OwnerInv, ArmedInv, LeftInv, Writing
<1>10. ArrayInv'
  BY <1>2 DEF IInv, ArrayInv
<1>11. CountInv'
  BY <1>1, <1>2, CallCounted DEF IInv, CountInv
<1>12. QED
  BY <1>5, <1>6, <1>7, <1>8, <1>9, <1>10, <1>11 DEF IInv

\* A wrapper is added; the others stay what they are.
LEMMA NewWrapper ==
  ASSUME TypeOK, DOMAIN wrappers # Ids, NEW p \in Paths, NEW kind \in Kinds, NEW n,
         wrappers' = With(wrappers, NewId, [path |-> p, kind |-> kind, nth |-> n])
  PROVE  /\ NewId \in Ids \ DOMAIN wrappers
         /\ DOMAIN wrappers' = DOMAIN wrappers \cup {NewId}
         /\ wrappers'[NewId].path = p /\ wrappers'[NewId].kind = kind
         /\ wrappers'[NewId].nth = n
         /\ \A i \in DOMAIN wrappers : wrappers'[i] = wrappers[i]
         /\ \A i \in armed : wrappers'[i] = wrappers[i]
<1>1. NewId \in Ids \ DOMAIN wrappers
  BY NewIdFresh DEF TypeOK
<1>2. /\ DOMAIN wrappers' = DOMAIN wrappers \cup {NewId}
      /\ wrappers'[NewId] = [path |-> p, kind |-> kind, nth |-> n]
      /\ \A i \in DOMAIN wrappers : i # NewId => wrappers'[i] = wrappers[i]
  BY DEF With
<1>3. QED
  BY <1>1, <1>2 DEF TypeOK

LEMMA VspaceZeroKeepsIInv == ASSUME IInv, VspaceZero PROVE IInv'
<1>1. PICK p \in Fresh : /\ files' = With(files, p, Zeros)
                         /\ wrappers' = With(wrappers, NewId, [path |-> p, kind |-> "owner",
                                                           nth |-> removed[p]])
                         /\ armed' = armed \cup {NewId} /\ active' = With(active, p, NewId)
  BY DEF VspaceZero, Mkstemp, _own_fresh_file
<1>2. /\ call = None /\ call' = None /\ DOMAIN wrappers # Ids
      /\ calls < MaxCalls /\ calls' = calls + 1
      /\ traced' = traced /\ left' = left /\ held' = held \cup {NewId} /\ removed' = removed
  BY DEF VspaceZero, Idle
<1>3. p \in Paths /\ ~ p.grad /\ p \notin DOMAIN files
  BY FreshFacts
<1>4. /\ NewId \in Ids \ DOMAIN wrappers
      /\ DOMAIN wrappers' = DOMAIN wrappers \cup {NewId}
      /\ wrappers'[NewId].path = p /\ wrappers'[NewId].kind = "owner"
      /\ wrappers'[NewId].nth = removed[p]
      /\ \A i \in DOMAIN wrappers : wrappers'[i] = wrappers[i]
      /\ \A i \in armed : wrappers'[i] = wrappers[i]
  BY <1>1, <1>2, <1>3, NewWrapper DEF IInv, Kinds
<1>5. /\ DOMAIN files' = DOMAIN files \cup {p}
      /\ \A q \in DOMAIN files' : files'[q] \in Contents
  BY <1>1, ContentsFacts DEF IInv, TypeOK, With
<1>6. /\ DOMAIN active' = DOMAIN active \cup {p} /\ active'[p] = NewId
      /\ \A q \in DOMAIN active : q # p => active'[q] = active[q]
  BY <1>1 DEF With
<1>7. TypeOK'
  <2>1. calls' \in 0 .. MaxCalls /\ removed' \in [Paths -> 0 .. calls']
    BY <1>2, CallCounted DEF IInv
  <2>2. \A q \in DOMAIN active' : active'[q] \in Ids
    BY <1>4, <1>6 DEF IInv, TypeOK
  <2>3. \A i \in DOMAIN wrappers' :
          /\ wrappers'[i].path \in Paths /\ wrappers'[i].kind \in Kinds
          /\ wrappers'[i].nth \in 0 .. removed'[wrappers'[i].path]
    <3>1. removed[p] \in 0 .. removed[p]
      BY <1>3, LifecycleAssumption DEF IInv, TypeOK
    <3>2. QED
      BY <1>2, <1>3, <1>4, <3>1 DEF IInv, TypeOK, Kinds
  <2>4. QED
    BY <1>1, <1>2, <1>3, <1>4, <1>5, <1>6, <2>1, <2>2, <2>3 DEF IInv, TypeOK, Writing
<1>8. OneRemover'
  BY <1>1, <1>2, <1>3, <1>4, <1>5, <1>6 DEF IInv, OneRemover, TypeOK, LeftInv
<1>9. FilesAccounted'
  BY <1>1, <1>2, <1>4, <1>5 DEF IInv, FilesAccounted, Writing
<1>10. CallInv' /\ TracedInv' /\ LeftInv'
  BY <1>2, <1>5 DEF IInv, CallInv, TracedInv, LeftInv, Writing
<1>11. OwnerInv' /\ ArmedInv'
  BY <1>1, <1>2, <1>3, <1>4, <1>5 DEF IInv, OwnerInv, ArmedInv, Writing
<1>12. ArrayInv'
  BY <1>2, <1>4, <1>5 DEF IInv, ArrayInv
<1>13. CountInv'
  BY <1>2, <1>3, <1>5, CallCounted DEF IInv, TypeOK, CountInv
<1>14. QED
  BY <1>7, <1>8, <1>9, <1>10, <1>11, <1>12, <1>13 DEF IInv

LEMMA EagerOpKeepsIInv ==
  ASSUME IInv, NEW x \in held, NEW v \in Values, NEW kind \in {"owner", None},
         EagerOp(x, v, kind)
  PROVE  IInv'
<1>1. PICK p \in Fresh : /\ files' = With(files, p, Zeros)
                         /\ Enter(kind, wrappers[x].path, p, Computed(wrappers[x].path, v), None)
  BY DEF EagerOp, Mkstemp
<1>2. Computed(wrappers[x].path, v) \in Contents /\ Zeros \in Contents
  BY ContentsFacts DEF IInv
<1>3. p \in Paths /\ wrappers[x].path \in Paths
  BY FreshFacts DEF IInv, TypeOK
<1>4. call' \in Calls /\ call' # None /\ call'.out = p /\ call'.kind = kind /\ call'.at = 0
  BY <1>1, <1>2, <1>3, EnterFacts DEF Kinds
<1>5. kind # "updated"
  BY NoneAssumption DEF Kinds
<1>6. QED
  BY <1>1, <1>2, <1>4, <1>5, EnterFresh DEF EagerOp

LEMMA FromNumpyKeepsIInv == ASSUME IInv, NEW v \in Values, FromNumpy(v) PROVE IInv'
<1>1. PICK p \in Fresh : /\ files' = With(files, p, Zeros)
                         /\ Enter("owner", None, p, Uniform(v), None)
  BY DEF FromNumpy, Mkstemp
<1>2. Uniform(v) \in Contents /\ Zeros \in Contents
  BY ContentsFacts DEF IInv
<1>3. call' \in Calls /\ call' # None /\ call'.out = p /\ call'.kind = "owner" /\ call'.at = 0
  BY <1>1, <1>2, FreshFacts, EnterFacts DEF Kinds
<1>4. QED
  BY <1>1, <1>2, <1>3, EnterFresh DEF FromNumpy

LEMMA JitCallKeepsIInv ==
  ASSUME IInv, NEW x \in held, NEW v \in Values, JitCall(x, v)
  PROVE  IInv'
<1> DEFINE src == wrappers[x].path
<1>1. Computed(src, v) \in Contents /\ Zeros \in Contents /\ src \in Paths
  BY ContentsFacts DEF IInv, TypeOK
<1>2. CASE src \in DOMAIN traced /\ Enter("view", src, traced[src], Computed(src, v), None)
           /\ UNCHANGED << files, traced >>
  <2>1. traced[src] \in left /\ traced[src] \in Paths
    BY <1>2 DEF JitCall, Idle, IInv, TypeOK, Writing
  <2>2. \A i \in armed : wrappers[i].path # traced[src]
    BY <2>1 DEF IInv, OneRemover
  <2>3. /\ call' \in Calls /\ call' # None
        /\ call'.out = traced[src] /\ call'.kind = "view" /\ call'.at = 0
    BY <1>1, <1>2, <2>1, EnterFacts DEF Kinds
  <2>4. QED
    BY <1>2, <2>1, <2>2, <2>3, EnterExisting DEF JitCall
<1>3. CASE \E p \in Fresh : /\ Mkstemp(p)
                            /\ Enter("view", src, p, Computed(src, v), None)
                            /\ traced' = With(traced, src, p)
  <2>1. PICK p \in Fresh : /\ files' = With(files, p, Zeros)
                           /\ Enter("view", src, p, Computed(src, v), None)
                           /\ traced' = With(traced, src, p)
    BY <1>3 DEF Mkstemp
  <2>2. call' \in Calls /\ call' # None /\ call'.out = p /\ call'.kind = "view" /\ call'.at = 0
    BY <1>1, <2>1, FreshFacts, EnterFacts DEF Kinds
  <2>3. QED
    BY <1>1, <2>1, <2>2, EnterFresh DEF JitCall
<1>4. QED
  BY <1>2, <1>3 DEF JitCall

LEMMA EagerBackwardKeepsIInv ==
  ASSUME IInv, NEW x \in held, NEW v \in Values, NEW scalar \in BOOLEAN,
         EagerBackward(x, v, scalar)
  PROVE  IInv'
<1> DEFINE src == wrappers[x].path
<1>1. Computed(src, v) \in Contents /\ Uniform(v) \in Contents /\ src \in Paths
  BY ContentsFacts DEF IInv, TypeOK
<1>2. Tangent(src) \in Paths /\ \A i \in armed : wrappers[i].path # Tangent(src)
  BY <1>1, TangentFacts DEF IInv, ArmedInv
<1>3. /\ call' \in Calls /\ call' # None
      /\ call'.out = Tangent(src) /\ call'.kind = "view" /\ call'.at = 0
  BY <1>1, <1>2, EnterFacts DEF EagerBackward, Kinds
<1>4. \/ UNCHANGED << files, left >>
      \/ \E p \in Fresh, c \in Contents : files' = With(files, p, c) /\ left' = left \cup {p}
  BY <1>1 DEF EagerBackward
<1>5. QED
  BY <1>2, <1>3, <1>4, EnterExisting DEF EagerBackward

LEMMA PassThroughKeepsIInv == ASSUME IInv, NEW x \in held, PassThrough(x) PROVE IInv'
<1>1. /\ wrappers' = With(wrappers, NewId, [path |-> wrappers[x].path, kind |-> "view",
                                            nth |-> wrappers[x].nth])
      /\ held' = held \cup {NewId}
      /\ UNCHANGED << files, armed, active, traced, call, left, removed >>
      /\ call = None /\ DOMAIN wrappers # Ids /\ calls < MaxCalls /\ calls' = calls + 1
  BY DEF PassThrough, Idle
<1>2. wrappers[x].path \in Paths
  BY DEF IInv, TypeOK
<1>3. /\ NewId \in Ids \ DOMAIN wrappers
      /\ DOMAIN wrappers' = DOMAIN wrappers \cup {NewId}
      /\ wrappers'[NewId].path = wrappers[x].path /\ wrappers'[NewId].kind = "view"
      /\ wrappers'[NewId].nth = wrappers[x].nth
      /\ \A i \in DOMAIN wrappers : wrappers'[i] = wrappers[i]
      /\ \A i \in armed : wrappers'[i] = wrappers[i]
  BY <1>1, <1>2, NewWrapper DEF IInv, Kinds
<1>4. TypeOK'
  <2>1. calls' \in 0 .. MaxCalls /\ removed' \in [Paths -> 0 .. calls']
    BY <1>1, CallCounted DEF IInv
  <2>2. \A i \in DOMAIN wrappers' :
          /\ wrappers'[i].path \in Paths /\ wrappers'[i].kind \in Kinds
          /\ wrappers'[i].nth \in 0 .. removed'[wrappers'[i].path]
    BY <1>1, <1>2, <1>3 DEF IInv, TypeOK, Kinds
  <2>3. QED
    BY <1>1, <1>3, <2>1, <2>2 DEF IInv, TypeOK, Writing
<1>5. OneRemover' /\ FilesAccounted'
  BY <1>1, <1>3 DEF IInv, OneRemover, FilesAccounted, Writing
<1>6. CallInv' /\ TracedInv' /\ LeftInv'
  BY <1>1 DEF IInv, CallInv, TracedInv, LeftInv, Writing
<1>7. OwnerInv' /\ ArmedInv'
  BY <1>1, <1>3 DEF IInv, OwnerInv, ArmedInv, Writing
<1>8. ArrayInv'
  BY <1>1, <1>3 DEF IInv, TypeOK, ArrayInv
<1>9. CountInv'
  BY <1>1, CallCounted DEF IInv, TypeOK, CountInv
<1>10. QED
  BY <1>4, <1>5, <1>6, <1>7, <1>8, <1>9 DEF IInv

(***************************************************************************)
(* update_ cancels the only finalizer its target may have.                 *)
(***************************************************************************)
LEMMA UpdateKeepsIInv ==
  ASSUME IInv, NEW self \in held, NEW new \in held, Update(self, new)
  PROVE  IInv'
<1> DEFINE out == wrappers[self].path
<1>1. /\ Enter("updated", wrappers[new].path, out, Holds(wrappers[new].path), ArrayOf(self))
      /\ active' = Without(active, out)
      /\ armed' = {i \in armed : wrappers[i].path = out => out \notin DOMAIN active \/ active[out] # i}
      /\ UNCHANGED << files, wrappers, held, traced, left, removed >>
  BY DEF Update, _adopt_as_persistent
<1>2. call = None /\ DOMAIN wrappers # Ids /\ calls < MaxCalls /\ calls' = calls + 1
  BY DEF Update, Idle
<1>3. out \in Paths /\ wrappers[new].path \in Paths
  BY DEF IInv, TypeOK
<1>4. Holds(wrappers[new].path) \in Contents /\ ArrayOf(self) \in Arrays
  BY ContentsFacts, ArrayOfFacts DEF IInv, TypeOK
<1>5. call' \in Calls /\ call' # None /\ call'.out = out /\ call'.kind = "updated" /\ call'.at = 0
  BY <1>1, <1>3, <1>4, EnterFacts DEF Kinds
<1>6. armed' = {i \in armed : wrappers[i].path # out}
  BY <1>1 DEF IInv, OneRemover
<1>7. /\ DOMAIN active' = DOMAIN active \ {out}
      /\ \A q \in DOMAIN active \ {out} : active'[q] = active[q]
  BY <1>1 DEF Without
<1>8. \A q : Writing(q)' <=> q = out
  BY <1>5 DEF Writing
<1>9. TypeOK'
  <2>1. calls' \in 0 .. MaxCalls /\ removed' \in [Paths -> 0 .. calls']
    BY <1>1, <1>2, CallCounted DEF IInv
  <2>2. \A p \in DOMAIN traced : traced[p] \in left
    BY <1>2 DEF IInv, TypeOK, Writing
  <2>3. QED
    BY <1>1, <1>2, <1>5, <1>6, <1>7, <2>1, <2>2 DEF IInv, TypeOK
<1>10. OneRemover'
  BY <1>1, <1>6, <1>7 DEF IInv, OneRemover
<1>11. FilesAccounted'
  BY <1>1, <1>2, <1>6, <1>8 DEF IInv, FilesAccounted, Writing
<1>12. CallInv'
  BY <1>1, <1>5, <1>6 DEF CallInv
<1>13. TracedInv' /\ LeftInv' /\ ArmedInv'
  BY <1>1, <1>2, <1>6 DEF IInv, TracedInv, LeftInv, ArmedInv, Writing
<1>14. OwnerInv'
  BY <1>1, <1>2, <1>5, <1>6, <1>8 DEF IInv, OwnerInv, OneRemover, Writing
<1>15. ArrayInv'
  BY <1>1 DEF IInv, ArrayInv
<1>16. CountInv'
  BY <1>1, <1>2, <1>3, <1>5, CallCounted DEF IInv, TypeOK, CountInv
<1>17. QED
  BY <1>9, <1>10, <1>11, <1>12, <1>13, <1>14, <1>15, <1>16 DEF IInv

LEMMA CreateKeepsIInv == ASSUME IInv, Create PROVE IInv'
<1>1. /\ call # None /\ call.at = 0 /\ call \in Calls
      /\ files' = With(files, call.out, Zeros)
      /\ call' = [call EXCEPT !.at = 1]
      /\ left' = IF call.kind = "owner" THEN left ELSE left \cup {call.out}
      /\ UNCHANGED << wrappers, held, armed, active, traced, calls, removed >>
  BY DEF Create, IInv, TypeOK
<1>2. /\ call' \in Calls /\ call' # None
      /\ call'.out = call.out /\ call'.kind = call.kind /\ call'.at = 1
  <2>1. 1 \in 0 .. NumBlocks + 1
    BY LifecycleAssumption
  <2>2. QED
    BY <1>1, <2>1, NoneAssumption DEF Calls
<1>3. call.out \in Paths
  BY <1>1 DEF Calls
<1>4. /\ DOMAIN files' = DOMAIN files \cup {call.out}
      /\ \A q \in DOMAIN files' : files'[q] \in Contents
  BY <1>1, ContentsFacts DEF IInv, TypeOK, With
<1>5. \A q : Writing(q)' <=> Writing(q)
  BY <1>1, <1>2 DEF Writing
<1>6. left \subseteq left' /\ left' \subseteq left \cup {call.out}
  BY <1>1
<1>7. TypeOK'
  <2>1. (\A p \in DOMAIN traced : traced[p] \in left \/ Writing(traced[p]))'
    BY <1>1, <1>5, <1>6 DEF IInv, TypeOK
  <2>2. QED
    BY <1>1, <1>2, <1>3, <1>4, <1>6, <2>1 DEF IInv, TypeOK
<1>8. OneRemover'
  BY <1>1, <1>4, <1>6 DEF IInv, OneRemover, CallInv
<1>9. FilesAccounted'
  BY <1>1, <1>2, <1>4, <1>5, <1>6 DEF IInv, FilesAccounted, Writing
<1>10. CallInv'
  BY <1>1, <1>2, <1>4 DEF IInv, CallInv
<1>11. TracedInv' /\ OwnerInv'
  BY <1>1, <1>2, <1>4, <1>5, <1>6 DEF IInv, TracedInv, OwnerInv
<1>12. ArmedInv' /\ LeftInv'
  BY <1>1, <1>4, <1>6 DEF IInv, ArmedInv, LeftInv
<1>13. ArrayInv'
  BY <1>1, <1>4 DEF IInv, ArrayInv
<1>14. CountInv'
  BY <1>1, <1>2, <1>4 DEF IInv, CountInv
<1>15. QED
  BY <1>7, <1>8, <1>9, <1>10, <1>11, <1>12, <1>13, <1>14 DEF IInv

LEMMA WriteBlockKeepsIInv == ASSUME IInv, WriteBlock PROVE IInv'
<1> DEFINE v == IF call.src = call.out THEN Zero ELSE call.want[call.at]
<1>1. /\ call # None /\ call.at \in Block /\ call \in Calls
      /\ files' = [files EXCEPT ![call.out][call.at] = v]
      /\ call' = [call EXCEPT !.at = call.at + 1]
      /\ UNCHANGED << wrappers, held, armed, active, traced, calls, left, removed >>
  BY DEF WriteBlock, IInv, TypeOK
<1>2. /\ call' \in Calls /\ call' # None
      /\ call'.out = call.out /\ call'.kind = call.kind /\ call'.at > 0
  <2>1. call.at + 1 \in 0 .. NumBlocks + 1 /\ call.at + 1 > 0 /\ call.at > 0
    BY <1>1, LifecycleAssumption DEF Block
  <2>2. QED
    BY <1>1, <2>1, NoneAssumption DEF Calls
<1>3. /\ DOMAIN files' = DOMAIN files
      /\ \A q \in DOMAIN files' : files'[q] \in Contents
  <2>1. v \in Values \cup {Zero}
    BY <1>1 DEF Calls, Contents
  <2>2. QED
    BY <1>1, <2>1 DEF IInv, TypeOK, Contents
<1>4. call.at > 0
  BY <1>1, LifecycleAssumption DEF Block
<1>5. \A q : Writing(q)' <=> Writing(q)
  BY <1>1, <1>2 DEF Writing
<1>6. TypeOK'
  <2>1. (\A p \in DOMAIN traced : traced[p] \in left \/ Writing(traced[p]))'
    BY <1>1, <1>5 DEF IInv, TypeOK
  <2>2. QED
    BY <1>1, <1>2, <1>3, <2>1 DEF IInv, TypeOK
<1>7. OneRemover' /\ FilesAccounted'
  BY <1>1, <1>3, <1>5 DEF IInv, OneRemover, FilesAccounted
<1>8. CallInv'
  BY <1>1, <1>2, <1>3, <1>4 DEF IInv, CallInv
<1>9. TracedInv' /\ OwnerInv' /\ ArmedInv' /\ LeftInv'
  BY <1>1, <1>2, <1>3, <1>5 DEF IInv, TracedInv, OwnerInv, ArmedInv, LeftInv
<1>10. ArrayInv' /\ CountInv'
  BY <1>1, <1>2, <1>3 DEF IInv, ArrayInv, CountInv
<1>11. QED
  BY <1>6, <1>7, <1>8, <1>9, <1>10 DEF IInv

(***************************************************************************)
(* The result's file is there; it gets its finalizer now, or is one of     *)
(* those that stay.                                                        *)
(***************************************************************************)
LEMMA FinishKeepsIInv == ASSUME IInv, Finish PROVE IInv'
<1>1. /\ call # None /\ call.at = NumBlocks + 1 /\ call \in Calls /\ call' = None
      /\ UNCHANGED << files, traced, calls, left, removed >>
      /\ call.out \in Paths /\ DOMAIN wrappers # Ids
  BY DEF Finish, IInv, TypeOK, Calls
<1>2. /\ call.out \in DOMAIN files /\ (call.kind # "owner" => call.out \in left)
      /\ \A i \in armed : wrappers[i].path # call.out
      /\ call.kind = "owner" => call.out \notin left
  BY <1>1, LifecycleAssumption DEF IInv, CallInv
<1>3. \A q : ~ Writing(q)'
  BY <1>1 DEF Writing
<1>4. \A p \in DOMAIN traced : traced[p] \in left
  BY <1>1, <1>2 DEF IInv, TracedInv, Writing
<1>5. CallInv' /\ TracedInv' /\ LeftInv' /\ CountInv'
  BY <1>1, <1>4 DEF IInv, CallInv, TracedInv, LeftInv, CountInv
<1>6. CASE call.kind = None
  <2>1. UNCHANGED << wrappers, held, armed, active >>
    BY <1>6, NoneAssumption DEF Finish, Kinds
  <2>2. TypeOK'
    BY <1>1, <1>4, <2>1 DEF IInv, TypeOK
  <2>3. OneRemover' /\ ArmedInv'
    BY <1>1, <2>1 DEF IInv, OneRemover, ArmedInv
  <2>4. FilesAccounted'
    BY <1>1, <1>2, <1>6, <2>1, NoneAssumption DEF IInv, FilesAccounted, Writing, Kinds
  <2>5. OwnerInv'
    BY <1>1, <1>2, <2>1, <1>6, NoneAssumption DEF IInv, OwnerInv, Writing, Kinds
  <2>6. ArrayInv'
    BY <1>1, <2>1 DEF IInv, ArrayInv
  <2>7. QED
    BY <1>5, <2>2, <2>3, <2>4, <2>5, <2>6 DEF IInv
<1>7. CASE call.kind # None
  <2>1. /\ wrappers' = With(wrappers, NewId, [path |-> call.out, kind |-> call.kind,
                                              nth |-> removed[call.out]])
        /\ held' = held \cup {NewId}
        /\ call.kind \in Kinds
    BY <1>1, <1>7 DEF Finish, Calls
  <2>2. /\ NewId \in Ids \ DOMAIN wrappers
        /\ DOMAIN wrappers' = DOMAIN wrappers \cup {NewId}
        /\ wrappers'[NewId].path = call.out /\ wrappers'[NewId].kind = call.kind
        /\ wrappers'[NewId].nth = removed[call.out]
        /\ \A i \in DOMAIN wrappers : wrappers'[i] = wrappers[i]
        /\ \A i \in armed : wrappers'[i] = wrappers[i]
    BY <1>1, <2>1, NewWrapper DEF IInv
  <2>3. \A i \in DOMAIN wrappers' :
          /\ wrappers'[i].path \in Paths /\ wrappers'[i].kind \in Kinds
          /\ wrappers'[i].nth \in 0 .. removed'[wrappers'[i].path]
    <3>1. removed[call.out] \in 0 .. removed[call.out]
      BY <1>1, LifecycleAssumption DEF IInv, TypeOK
    <3>2. QED
      BY <1>1, <2>1, <2>2, <3>1 DEF IInv, TypeOK
  <2>4. ArrayInv'
    BY <1>1, <1>2, <2>2 DEF IInv, ArrayInv
  <2>5. CASE call.kind = "owner"
    <3>1. /\ armed' = armed \cup {NewId}
          /\ DOMAIN active' = DOMAIN active \cup {call.out} /\ active'[call.out] = NewId
          /\ \A q \in DOMAIN active : q # call.out => active'[q] = active[q]
      BY <2>5 DEF Finish, _own_fresh_file, With
    <3>2. TypeOK'
      <4>1. \A q \in DOMAIN active' : active'[q] \in Ids
        BY <2>2, <3>1 DEF IInv, TypeOK
      <4>2. QED
        BY <1>1, <1>4, <2>1, <2>2, <2>3, <3>1, <4>1 DEF IInv, TypeOK
    <3>3. OneRemover'
      BY <1>1, <1>2, <2>2, <2>5, <3>1 DEF IInv, OneRemover, TypeOK
    <3>4. ~ call.out.grad
      BY <1>1, <2>5 DEF IInv, CallInv
    <3>5. ArmedInv'
      BY <2>2, <3>1, <3>4 DEF IInv, ArmedInv
    <3>6. FilesAccounted'
      BY <1>1, <2>2, <3>1 DEF IInv, FilesAccounted, Writing
    <3>7. OwnerInv'
      BY <1>1, <2>2, <2>5, <3>1 DEF IInv, OwnerInv, Writing
    <3>8. QED
      BY <1>5, <2>4, <3>2, <3>3, <3>5, <3>6, <3>7 DEF IInv
  <2>6. CASE call.kind # "owner"
    <3>1. UNCHANGED << armed, active >> /\ call.out \in left
      BY <1>2, <2>6 DEF Finish
    <3>2. TypeOK'
      BY <1>1, <1>4, <2>1, <2>2, <2>3, <3>1 DEF IInv, TypeOK
    <3>3. OneRemover' /\ ArmedInv'
      BY <1>1, <2>2, <3>1 DEF IInv, OneRemover, ArmedInv
    <3>4. FilesAccounted'
      BY <1>1, <2>2, <3>1 DEF IInv, FilesAccounted, Writing
    <3>5. OwnerInv'
      BY <1>1, <2>2, <2>6, <3>1 DEF IInv, OwnerInv, Writing
    <3>6. QED
      BY <1>5, <2>4, <3>2, <3>3, <3>4, <3>5 DEF IInv
  <2>7. QED
    BY <2>5, <2>6
<1>8. QED
  BY <1>6, <1>7

LEMMA RaiseKeepsIInv == ASSUME IInv, Raise PROVE IInv'
<1>1. /\ call # None /\ call' = None /\ call \in Calls
      /\ left' = left \cup ({call.out} \cap DOMAIN files)
      /\ UNCHANGED << files, wrappers, held, armed, active, traced, calls, removed >>
  BY DEF Raise, IInv, TypeOK
<1>2. call.out \in Paths
  BY <1>1 DEF Calls
<1>3. \A p \in DOMAIN traced : traced[p] \in left'
  BY <1>1 DEF IInv, TracedInv, Writing
<1>4. TypeOK'
  BY <1>1, <1>2, <1>3 DEF IInv, TypeOK
<1>5. OneRemover'
  BY <1>1 DEF IInv, OneRemover, CallInv
<1>6. FilesAccounted'
  BY <1>1 DEF IInv, FilesAccounted, Writing
<1>7. CallInv' /\ TracedInv' /\ ArmedInv' /\ LeftInv'
  BY <1>1, <1>3 DEF IInv, CallInv, TracedInv, ArmedInv, LeftInv
<1>8. OwnerInv'
  BY <1>1 DEF IInv, OwnerInv, Writing
<1>9. ArrayInv' /\ CountInv'
  BY <1>1 DEF IInv, ArrayInv, CountInv
<1>10. QED
  BY <1>4, <1>5, <1>6, <1>7, <1>8, <1>9 DEF IInv

LEMMA DropKeepsIInv == ASSUME IInv, NEW i \in Ids, Drop(i) PROVE IInv'
<1>1. /\ held' = held \ {i}
      /\ UNCHANGED << files, wrappers, armed, active, traced, call, calls, left, removed >>
  BY DEF Drop
<1>2. TypeOK'
  BY <1>1 DEF IInv, TypeOK, Writing
<1>3. QED
  BY <1>1, <1>2 DEF IInv, OneRemover, FilesAccounted, CallInv, TracedInv, OwnerInv,
                    ArmedInv, LeftInv, ArrayInv, CountInv, Writing

(***************************************************************************)
(* A finalizer removes a file that is no other wrapper's to remove, is not *)
(* being written and is not one of those that stay.                        *)
(***************************************************************************)
LEMMA CollectKeepsIInv == ASSUME IInv, NEW i \in Ids, Collect(i) PROVE IInv'
<1> DEFINE p == wrappers[i].path
<1>1. /\ i \in DOMAIN wrappers /\ i \notin held
      /\ DOMAIN wrappers' = DOMAIN wrappers \ {i}
      /\ \A j \in DOMAIN wrappers' : wrappers'[j] = wrappers[j]
      /\ armed' = armed \ {i}
      /\ UNCHANGED << held, traced, call, calls, left >>
  BY DEF Collect, Without
<1>2. \A j \in armed' : wrappers'[j] = wrappers[j] /\ j \in armed
  BY <1>1 DEF IInv, TypeOK
<1>3. \A q : Writing(q)' <=> Writing(q)
  BY <1>1 DEF Writing
<1>4. CASE i \in armed
  <2>1. /\ DOMAIN files' = DOMAIN files \ {p}
        /\ \A q \in DOMAIN files' : files'[q] = files[q]
        /\ DOMAIN active' = DOMAIN active \ {p}
        /\ \A q \in DOMAIN active' : active'[q] = active[q]
        /\ removed' = [removed EXCEPT ![p] = @ + 1]
    BY <1>4 DEF Collect, Without
  <2>2. /\ \A j \in armed : j # i => wrappers[j].path # p
        /\ p \notin left /\ (call # None => p # call.out) /\ p \in DOMAIN files
    BY <1>4 DEF IInv, OneRemover, CallInv
  <2>3. /\ p \in Paths /\ removed[p] \in Nat /\ removed[p] < calls /\ calls \in Nat
         /\ \A q \in Paths : removed[q] \in 0 .. calls
    BY <2>2, LifecycleAssumption DEF IInv, TypeOK, CountInv
  <2>4. removed'[p] = removed[p] + 1 /\ \A q \in Paths : q # p => removed'[q] = removed[q]
    BY <2>1, <2>3 DEF IInv, TypeOK
  <2>5. removed' \in [Paths -> 0 .. calls]
    <3>1. removed[p] + 1 \in 0 .. calls
      BY <2>3
    <3>2. QED
      BY <2>1, <2>3, <3>1 DEF IInv, TypeOK
  <2>6. \A j \in DOMAIN wrappers' :
           /\ wrappers'[j].path \in Paths /\ wrappers'[j].kind \in Kinds
           /\ wrappers'[j].nth \in 0 .. removed'[wrappers'[j].path]
    <3> TAKE j \in DOMAIN wrappers'
    <3>1. wrappers'[j] = wrappers[j] /\ j \in DOMAIN wrappers
      BY <1>1
    <3>2. /\ wrappers[j].path \in Paths /\ wrappers[j].kind \in Kinds
          /\ wrappers[j].nth \in 0 .. removed[wrappers[j].path]
      BY <3>1 DEF IInv, TypeOK
    <3>3. wrappers[j].nth \in 0 .. removed'[wrappers[j].path]
      <4>1. CASE wrappers[j].path = p
        BY <2>3, <2>4, <3>2, <4>1
      <4>2. CASE wrappers[j].path # p
        BY <2>4, <3>2, <4>2
      <4>3. QED
        BY <4>1, <4>2
    <3>4. QED
      BY <3>1, <3>2, <3>3
  <2>7. \A j \in DOMAIN wrappers' : wrappers[j].path = p => wrappers[j].kind = "view"
    BY <1>1, <1>4, <2>2 DEF IInv, OwnerInv, TypeOK, Kinds, Writing
  <2>8. ArrayInv'
    <3> SUFFICES ASSUME NEW j \in DOMAIN wrappers'
                 PROVE  LET w == wrappers[j]
                        IN  /\ w.kind # "view" => w.nth = removed'[w.path]
                            /\ w.nth = removed'[w.path] => w.path \in DOMAIN files'
      BY <1>1 DEF ArrayInv
    <3>1. j \in DOMAIN wrappers /\ wrappers[j].path \in Paths
          /\ wrappers[j].nth \in 0 .. removed[wrappers[j].path]
      BY <1>1 DEF IInv, TypeOK
    <3>2. CASE wrappers[j].path = p
      <4>1. wrappers[j].nth # removed[p] + 1
        BY <2>3, <3>1, <3>2
      <4>2. QED
        BY <2>4, <2>7, <3>2, <4>1
    <3>3. CASE wrappers[j].path # p
      BY <2>1, <2>4, <3>1, <3>3 DEF IInv, ArrayInv
    <3>4. QED
      BY <3>2, <3>3
  <2>9. CountInv'
    <3>1. \A q \in DOMAIN files' : q # p /\ q \in DOMAIN files /\ q \in Paths
      BY <2>1 DEF IInv, TypeOK
    <3>2. call # None => call.out \in Paths /\ call.out # p
      BY <2>2 DEF IInv, TypeOK, Calls
    <3>3. QED
      BY <1>1, <2>4, <3>1, <3>2 DEF IInv, CountInv
  <2>10. TypeOK'
    <3>1. (\A q \in DOMAIN traced : traced[q] \in left \/ Writing(traced[q]))'
      BY <1>1, <1>3 DEF IInv, TypeOK
    <3>2. QED
      BY <1>1, <2>1, <2>5, <2>6, <3>1 DEF IInv, TypeOK
  <2>11. OneRemover' /\ ArmedInv'
    BY <1>1, <1>2, <2>1, <2>2 DEF IInv, OneRemover, ArmedInv
  <2>12. FilesAccounted'
    BY <1>1, <1>2, <1>3, <2>1, <2>2 DEF IInv, FilesAccounted
  <2>13. CallInv' /\ TracedInv' /\ LeftInv'
    BY <1>1, <1>2, <1>3, <2>1, <2>2 DEF IInv, CallInv, TracedInv, LeftInv, Writing
  <2>14. OwnerInv'
    BY <1>1, <1>2, <1>3, <2>1, <2>2 DEF IInv, OwnerInv, Writing
  <2>15. QED
    BY <2>8, <2>9, <2>10, <2>11, <2>12, <2>13, <2>14 DEF IInv
<1>5. CASE i \notin armed
  <2>1. UNCHANGED << files, active, removed >> /\ armed' = armed
    BY <1>1, <1>5 DEF Collect
  <2>2. TypeOK'
    <3>1. (\A q \in DOMAIN traced : traced[q] \in left \/ Writing(traced[q]))'
      BY <1>1, <1>3 DEF IInv, TypeOK
    <3>2. QED
      BY <1>1, <1>5, <2>1, <3>1 DEF IInv, TypeOK
  <2>3. OneRemover' /\ ArmedInv' /\ FilesAccounted'
    BY <1>1, <1>2, <1>3, <2>1 DEF IInv, OneRemover, ArmedInv, FilesAccounted
  <2>4. CallInv' /\ TracedInv' /\ LeftInv'
    BY <1>1, <1>2, <1>3, <2>1 DEF IInv, CallInv, TracedInv, LeftInv
  <2>5. OwnerInv'
    BY <1>1, <1>2, <1>3, <2>1 DEF IInv, OwnerInv
  <2>6. ArrayInv' /\ CountInv'
    BY <1>1, <2>1 DEF IInv, ArrayInv, CountInv
  <2>7. QED
    BY <2>2, <2>3, <2>4, <2>5, <2>6 DEF IInv
<1>6. QED
  BY <1>4, <1>5
-----------------------------------------------------------------------------
LEMMA StutterKeepsIInv == ASSUME IInv, UNCHANGED vars PROVE IInv'
  BY DEF vars, IInv, TypeOK, OneRemover, FilesAccounted, CallInv, TracedInv, OwnerInv,
         ArmedInv, LeftInv, ArrayInv, CountInv, Writing

\* Every step of the program and of the collector keeps the invariant.
LEMMA NextKeepsIInv == IInv /\ [Next]_vars => IInv'
<1> SUFFICES ASSUME IInv, [Next]_vars PROVE IInv'
  OBVIOUS
<1>1. CASE Begin
  <2>1. CASE VspaceZero
    BY <2>1, VspaceZeroKeepsIInv
  <2>2. CASE \E v \in Values : FromNumpy(v)
    BY <2>2, FromNumpyKeepsIInv
  <2>3. CASE \E x \in held, v \in Values :
               EagerOp(x, v, "owner") \/ EagerOp(x, v, None) \/ JitCall(x, v)
                 \/ \E scalar \in BOOLEAN : EagerBackward(x, v, scalar)
    BY <2>3, EagerOpKeepsIInv, JitCallKeepsIInv, EagerBackwardKeepsIInv
  <2>4. CASE \E x, y \in held : Update(x, y)
    BY <2>4, UpdateKeepsIInv
  <2>5. CASE \E x \in held : PassThrough(x)
    BY <2>5, PassThroughKeepsIInv
  <2>6. QED
    BY <1>1, <2>1, <2>2, <2>3, <2>4, <2>5 DEF Begin
<1>2. CASE Step
  BY <1>2, CreateKeepsIInv, WriteBlockKeepsIInv, FinishKeepsIInv DEF Step
<1>3. CASE Raise
  BY <1>3, RaiseKeepsIInv
<1>4. CASE \E i \in Ids : Drop(i) \/ Collect(i)
  BY <1>4, DropKeepsIInv, CollectKeepsIInv
<1>5. CASE Stopped \/ UNCHANGED vars
  BY <1>5, StutterKeepsIInv DEF Stopped
<1>6. QED
  BY <1>1, <1>2, <1>3, <1>4, <1>5 DEF Next

LEMMA SpecKeepsIInv == Spec => []IInv
  BY InitIInv, NextKeepsIInv, PTL DEF Spec

(***************************************************************************)
(* The state is always one the program can be in: in particular a compiled *)
(* function's result stays or is being written.                            *)
(***************************************************************************)
THEOREM TypeCorrect == Spec => []TypeOK
<1>1. IInv => TypeOK
  BY DEF IInv
<1>2. QED
  BY <1>1, SpecKeepsIInv, PTL

(***************************************************************************)
(* A file has one armed finalizer at most, the one _active_finalizers      *)
(* names, so that detaching it in update_ is enough.                       *)
(***************************************************************************)
THEOREM FilesHaveOneRemover == Spec => []OneRemover
<1>1. IInv => OneRemover
  BY DEF IInv
<1>2. QED
  BY <1>1, SpecKeepsIInv, PTL

\* The invariant implies that files which are still needed are there.
LEMMA IInvKeepsHeldFiles == IInv => NeverRemovedUnderfoot
<1> SUFFICES ASSUME IInv PROVE NeverRemovedUnderfoot
  OBVIOUS
<1>1. left \subseteq DOMAIN files
  BY DEF IInv, LeftInv
<1>2. ASSUME NEW i \in held, wrappers[i].kind # "view"
      PROVE  wrappers[i].path \in DOMAIN files
  <2>1. i \in DOMAIN wrappers /\ wrappers[i].kind \in {"owner", "updated"}
    BY <1>2 DEF IInv, TypeOK, Kinds
  <2>2. i \in armed => wrappers[i].path \in DOMAIN files
    BY DEF IInv, OneRemover
  <2>3. QED
    BY <1>1, <2>1, <2>2 DEF IInv, OwnerInv
<1>3. QED
  BY <1>1, <1>2 DEF NeverRemovedUnderfoot

(***************************************************************************)
(* An array that owns its file, or came from update_, has the file for as  *)
(* long as the program holds it, whatever is collected, updated, raised or *)
(* named again meanwhile.                                                  *)
(***************************************************************************)
THEOREM HeldFilesStay == Spec => []NeverRemovedUnderfoot
  BY IInvKeepsHeldFiles, SpecKeepsIInv, PTL

(***************************************************************************)
(* No file is forgotten: each is being written, has a finalizer, or is one *)
(* of those that stay.                                                     *)
(***************************************************************************)
THEOREM FilesAreAccountedFor == Spec => []FilesAccounted
<1>1. IInv => FilesAccounted
  BY DEF IInv
<1>2. QED
  BY <1>1, SpecKeepsIInv, PTL
-----------------------------------------------------------------------------
\* update_ copies from another file than its target.
UpdateInv ==
  /\ HoldsNewValue
  /\ call # None /\ call.kind = "updated" => call.src # call.out

\* The calls that are not update_ have nothing to keep.
LEMMA OtherCall ==
  ASSUME NEW kind \in {"owner", "view", None}, NEW src, NEW out, NEW want, NEW target,
         Enter(kind, src, out, want, target)
  PROVE  UpdateInv'
  BY NoneAssumption DEF Enter, UpdateInv, HoldsNewValue, Kinds

\* Nothing a call reads or writes changes between its steps, but files may go.
LEMMA UntouchedCall ==
  ASSUME UpdateInv, call' = call, DOMAIN files' \subseteq DOMAIN files,
         \A p \in DOMAIN files' : files'[p] = files[p],
         call # None => (call.at > 0 => call.out \in DOMAIN files'),
         call # None => call.at \in Nat
  PROVE  UpdateInv'
<1> SUFFICES ASSUME call # None, call.kind = "updated"
             PROVE  /\ \A b \in Block : b < call.at => files'[call.out][b] = call.want[b]
                    /\ call.src \in DOMAIN files' => files'[call.src] = call.want
                    /\ call.src # call.out
  BY DEF UpdateInv, HoldsNewValue
<1>1. ASSUME NEW b \in Block, b < call.at
      PROVE  files'[call.out][b] = call.want[b]
  <2>1. call.at > 0
    BY <1>1, LifecycleAssumption DEF Block
  <2>2. QED
    BY <1>1, <2>1 DEF UpdateInv, HoldsNewValue
<1>2. QED
  BY <1>1 DEF UpdateInv, HoldsNewValue

LEMMA UpdateKeepsUpdateInv ==
  ASSUME ~ SelfUpdate, IInv, NEW self \in held, NEW new \in held, Update(self, new)
  PROVE  UpdateInv'
<1> DEFINE src == wrappers[new].path
           out == wrappers[self].path
<1>1. src # out /\ files' = files /\ Enter("updated", src, out, Holds(src), ArrayOf(self))
  BY DEF Update
<1>2. \A b \in Block : ~ b < 0
  BY LifecycleAssumption DEF Block
<1>3. call'.src = src /\ call'.out = out /\ call'.want = Holds(src) /\ call'.at = 0
  BY <1>1 DEF Enter
<1>4. src \in DOMAIN files => files[src] = Holds(src)
  BY DEF Holds
<1>5. QED
  BY <1>1, <1>2, <1>3, <1>4 DEF UpdateInv, HoldsNewValue

LEMMA CreateKeepsUpdateInv == ASSUME IInv, UpdateInv, Create PROVE UpdateInv'
<1>1. /\ call # None /\ call \in Calls /\ files' = With(files, call.out, Zeros)
      /\ call' = [call EXCEPT !.at = 1]
  BY DEF Create, IInv, TypeOK
<1>2. /\ call'.at = 1 /\ call'.out = call.out /\ call'.src = call.src
      /\ call'.kind = call.kind /\ call'.want = call.want
  BY <1>1 DEF Calls
<1>3. \A b \in Block : ~ b < 1
  BY LifecycleAssumption DEF Block
<1>4. \A p \in DOMAIN files' : p # call.out => p \in DOMAIN files /\ files'[p] = files[p]
  BY <1>1 DEF With
<1>5. QED
  BY <1>1, <1>2, <1>3, <1>4 DEF UpdateInv, HoldsNewValue

LEMMA WriteBlockKeepsUpdateInv == ASSUME IInv, UpdateInv, WriteBlock PROVE UpdateInv'
<1> DEFINE v == IF call.src = call.out THEN Zero ELSE call.want[call.at]
<1>1. /\ call # None /\ call.at \in Block /\ call \in Calls
      /\ files' = [files EXCEPT ![call.out][call.at] = v]
      /\ call' = [call EXCEPT !.at = call.at + 1]
  BY DEF WriteBlock, IInv, TypeOK
<1>2. /\ call'.at = call.at + 1 /\ call'.out = call.out /\ call'.src = call.src
      /\ call'.kind = call.kind /\ call'.want = call.want
  BY <1>1 DEF Calls
<1>3. call.out \in DOMAIN files /\ files[call.out] \in Contents
  BY <1>1, LifecycleAssumption DEF IInv, CallInv, TypeOK, Block
<1>4. /\ DOMAIN files' = DOMAIN files
      /\ \A p \in DOMAIN files : p # call.out => files'[p] = files[p]
      /\ files'[call.out][call.at] = v
      /\ \A b \in Block : b # call.at => files'[call.out][b] = files[call.out][b]
  BY <1>1, <1>3 DEF Contents
<1> SUFFICES ASSUME call.kind = "updated"
             PROVE  /\ \A b \in Block : b < call.at + 1 => files'[call.out][b] = call.want[b]
                    /\ call.src \in DOMAIN files' => files'[call.src] = call.want
                    /\ call.src # call.out
  BY <1>2 DEF UpdateInv, HoldsNewValue
<1>5. call.src # call.out
  BY <1>1 DEF UpdateInv
<1>6. ASSUME NEW b \in Block, b < call.at + 1
      PROVE  files'[call.out][b] = call.want[b]
  <2>1. CASE b = call.at
    BY <1>4, <1>5, <2>1
  <2>2. CASE b # call.at
    <3>1. b < call.at
      BY <1>1, <1>6, <2>2, LifecycleAssumption DEF Block
    <3>2. QED
      BY <1>1, <1>4, <2>2, <3>1 DEF UpdateInv, HoldsNewValue
  <2>3. QED
    BY <2>1, <2>2
<1>7. QED
  BY <1>1, <1>4, <1>5, <1>6 DEF UpdateInv, HoldsNewValue

LEMMA NextKeepsUpdateInv ==
  ASSUME ~ SelfUpdate, IInv, UpdateInv, [Next]_vars
  PROVE  UpdateInv'
<1>1. CASE Begin
  <2>1. CASE VspaceZero \/ \E x \in held : PassThrough(x)
    BY <2>1 DEF VspaceZero, PassThrough, Idle, UpdateInv, HoldsNewValue
  <2>2. CASE \E v \in Values : FromNumpy(v)
    BY <2>2, OtherCall DEF FromNumpy
  <2>3. CASE \E x \in held, v \in Values : EagerOp(x, v, "owner") \/ EagerOp(x, v, None)
    BY <2>3, OtherCall DEF EagerOp
  <2>4. CASE \E x \in held, v \in Values : JitCall(x, v)
    BY <2>4, OtherCall DEF JitCall
  <2>5. CASE \E x \in held, v \in Values, scalar \in BOOLEAN : EagerBackward(x, v, scalar)
    BY <2>5, OtherCall DEF EagerBackward
  <2>6. CASE \E x, y \in held : Update(x, y)
    BY <2>6, UpdateKeepsUpdateInv
  <2>7. QED
    BY <1>1, <2>1, <2>2, <2>3, <2>4, <2>5, <2>6 DEF Begin
<1>2. CASE Create \/ WriteBlock
  BY <1>2, CreateKeepsUpdateInv, WriteBlockKeepsUpdateInv
<1>3. CASE Finish \/ Raise
  BY <1>3 DEF Finish, Raise, UpdateInv, HoldsNewValue
<1>4. call # None => call.at \in Nat
  BY LifecycleAssumption DEF IInv, TypeOK, Calls
<1>5. CASE Stopped \/ UNCHANGED vars \/ \E i \in Ids : Drop(i)
  BY <1>4, <1>5, UntouchedCall DEF Stopped, vars, Drop, IInv, CallInv
<1>6. CASE \E i \in Ids : Collect(i)
  <2>1. PICK i \in Ids : Collect(i)
    BY <1>6
  <2>2. call' = call
    BY <2>1 DEF Collect
  <2>3. /\ DOMAIN files' \subseteq DOMAIN files
        /\ \A p \in DOMAIN files' : files'[p] = files[p]
    BY <2>1 DEF Collect, Without
  <2>4. call # None => (call.at > 0 => call.out \in DOMAIN files')
    BY <2>1, <2>2, CollectKeepsIInv DEF IInv, CallInv
  <2>5. QED
    BY <1>4, <2>2, <2>3, <2>4, UntouchedCall
<1>7. QED
  BY <1>1, <1>2, <1>3, <1>5, <1>6 DEF Next, Step

(***************************************************************************)
(* Unless the program calls a.update_(a), update_ copies what the source   *)
(* held when it was called and leaves the source alone, whatever the       *)
(* collector removes meanwhile.                                            *)
(***************************************************************************)
THEOREM UpdateCopiesTheSource == ASSUME ~ SelfUpdate PROVE Spec => []HoldsNewValue
<1>1. Init => UpdateInv
  BY DEF Init, UpdateInv, HoldsNewValue
<1>2. IInv /\ UpdateInv /\ [Next]_vars => UpdateInv'
  BY NextKeepsUpdateInv
<1>3. UpdateInv => HoldsNewValue
  BY DEF UpdateInv
<1>4. QED
  BY <1>1, <1>2, <1>3, SpecKeepsIInv, PTL DEF Spec
=============================================================================
