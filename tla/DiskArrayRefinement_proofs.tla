--------------------- MODULE DiskArrayRefinement_proofs ---------------------
(***************************************************************************)
(* Proof that the files implement the abstract store of arrays, for any    *)
(* names, wrappers, values, number of blocks and number of calls.          *)
(***************************************************************************)
EXTENDS DiskArrayLifecycle_proofs

(***************************************************************************)
(* A call writes the file of an array that the store holds in update_      *)
(* only, and then the array is the one that update_ was called on.  What   *)
(* is to come back as a wrapper that owns nothing is a gradient or the     *)
(* result of a compiled function.                                          *)
(***************************************************************************)
StoreInv ==
  call # None =>
    /\ \A a \in Kept : a[1] = call.out => call.kind = "updated" /\ call.target = a
    /\ call.kind = "updated" => call.target[1] = call.out
    /\ call.kind = "view" => WrittenAgain(call.out)

\* A wrapper in the store was made for the array that its file now holds.
LEMMA KeeperFacts ==
  ASSUME IInv, NEW i \in Keepers
  PROVE  /\ i \in held /\ i \in DOMAIN wrappers /\ i \in Ids
         /\ wrappers[i].path \in Paths /\ wrappers[i].path \in DOMAIN files
         /\ ~ WrittenAgain(wrappers[i].path)
         /\ ArrayOf(i) = ArrayAt(wrappers[i].path) /\ ArrayOf(i) \in Arrays
<1>1. /\ i \in held /\ i \in DOMAIN wrappers /\ i \in Ids /\ wrappers[i].path \in Paths
      /\ ~ WrittenAgain(wrappers[i].path)
  BY DEF Keepers, IInv, TypeOK
<1>2. wrappers[i].nth = removed[wrappers[i].path]
  BY <1>1 DEF Keepers, Live, ArrayOf, ArrayAt, IInv, ArrayInv
<1>3. wrappers[i].path \in DOMAIN files
  BY <1>1, <1>2 DEF IInv, ArrayInv
<1>4. ArrayOf(i) = ArrayAt(wrappers[i].path)
  BY <1>2 DEF ArrayOf, ArrayAt
<1>5. ArrayOf(i) \in Arrays
  BY <1>1, ArrayOfFacts DEF IInv
<1>6. QED
  BY <1>1, <1>3, <1>4, <1>5

\* An array in the store is the one that its name stands for, and its file holds its value.
LEMMA KeptFacts ==
  ASSUME IInv, NEW a \in Kept
  PROVE  /\ a \in Arrays /\ a[1] \in Paths /\ a = ArrayAt(a[1])
         /\ a[1] \in DOMAIN files /\ ~ WrittenAgain(a[1])
         /\ ValueOf(a) = files[a[1]] /\ ValueOf(a) \in Contents
<1>1. PICK i \in Keepers : a = ArrayOf(i)
  BY DEF Kept
<1>2. a[1] = wrappers[i].path
  BY <1>1 DEF ArrayOf
<1>3. /\ a \in Arrays /\ a[1] \in Paths /\ a = ArrayAt(a[1])
      /\ a[1] \in DOMAIN files /\ ~ WrittenAgain(a[1])
  BY <1>1, <1>2, KeeperFacts
<1>4. ValueOf(a) = files[a[1]]
  BY <1>3 DEF ValueOf
<1>5. files[a[1]] \in Contents
  BY <1>3 DEF IInv, TypeOK
<1>6. QED
  BY <1>3, <1>4, <1>5

\* An array of the store keeps its value if its file and name do.
LEMMA SameValue ==
  ASSUME IInv, NEW a \in Kept, removed'[a[1]] = removed[a[1]],
         a[1] \in DOMAIN files', files'[a[1]] = files[a[1]]
  PROVE  ValueOf(a)' = ValueOf(a)
<1>1. a = << a[1], removed[a[1]] >> /\ a[1] \in DOMAIN files
  BY KeptFacts DEF ArrayAt
<1>2. QED
  BY <1>1 DEF ValueOf, ArrayAt

\* The arrays of the store whose file the call writes are those under update_.
LEMMA UpdatedFacts ==
  ASSUME IInv, StoreInv, call # None
  PROVE  /\ \A a \in Kept : a \in Updated <=> a[1] = call.out
         /\ Updated # {} =>
              call.kind = "updated" /\ Updated = {call.target} /\ call.target \in Kept
  BY DEF Updated, StoreInv

\* What the mapped variables of the store are.
LEMMA StoreFacts ==
  /\ DOMAIN StoreNames = Keepers /\ \A j \in Keepers : StoreNames[j] = ArrayOf(j)
  /\ Store!Named = Kept
  /\ DOMAIN StoreContents = Kept \ Updated
  /\ \A a \in Kept \ Updated : StoreContents[a] = ValueOf(a)
  /\ Updated = {} => StorePending = {} /\ Store!Quiet
<1>1. DOMAIN StoreNames = Keepers /\ \A j \in Keepers : StoreNames[j] = ArrayOf(j)
  BY DEF StoreNames
<1>2. Store!Named = Kept
  BY <1>1 DEF Store!Named, Kept
<1>3. DOMAIN StoreContents = Kept \ Updated /\ \A a \in Kept \ Updated : StoreContents[a] = ValueOf(a)
  BY DEF StoreContents
<1>4. Updated = {} => StorePending = {} /\ Store!Quiet
  BY DEF StorePending, Store!Quiet
<1>5. QED
  BY <1>1, <1>2, <1>3, <1>4
-----------------------------------------------------------------------------
\* What a step of the detailed specification is to be.
StoreStep == Store!Next \/ UNCHANGED << StoreNames, StoreStrong, StoreContents, StorePending >>

\* The names and the strong handles of the store, where wrappers stay what they are.
LEMMA SameNames ==
  ASSUME Keepers' = Keepers, \A j \in Keepers : wrappers'[j] = wrappers[j]
  PROVE  StoreNames' = StoreNames /\ StoreStrong' = StoreStrong /\ Kept' = Kept
<1>1. \A j \in Keepers : ArrayOf(j)' = ArrayOf(j)
  BY DEF ArrayOf
<1>2. StoreNames' = StoreNames
  BY <1>1 DEF StoreNames
<1>3. StoreStrong' = StoreStrong
  BY DEF StoreStrong
<1>4. Kept' = Kept
  BY <1>1 DEF Kept
<1>5. QED
  BY <1>2, <1>3, <1>4

\* Steps that the store does not see.
LEMMA SameStore ==
  ASSUME Keepers' = Keepers, \A j \in Keepers : wrappers'[j] = wrappers[j],
         Updated' = Updated, Updated = {} \/ call'.want = call.want,
         \A a \in Kept \ Updated : ValueOf(a)' = ValueOf(a)
  PROVE  StoreStep
<1>1. StoreNames' = StoreNames /\ StoreStrong' = StoreStrong /\ Kept' = Kept
  BY SameNames
<1>2. StoreContents' = StoreContents
  BY <1>1 DEF StoreContents
<1>3. StorePending' = StorePending
  BY DEF StorePending
<1>4. QED
  BY <1>1, <1>2, <1>3 DEF StoreStep

\* A new wrapper, of an array that the store did not hold.
LEMMA NewInStore ==
  ASSUME NEW i \in Ids, i \notin Keepers, Keepers' = Keepers \cup {i},
         \A j \in Keepers : wrappers'[j] = wrappers[j],
         wrappers'[i].kind # "view", Updated = {}, Updated' = {},
         NEW a \in Arrays, a \notin Kept, ArrayOf(i)' = a, ValueOf(a)' \in Contents,
         \A b \in Kept : ValueOf(b)' = ValueOf(b)
  PROVE  StoreStep
<1>1. \A j \in Keepers : ArrayOf(j)' = ArrayOf(j)
  BY DEF ArrayOf
<1>2. StoreNames' = Store!With(StoreNames, i, a)
  BY <1>1, StoreFacts DEF StoreNames, Store!With
<1>3. StoreStrong' = StoreStrong \cup {i}
  BY DEF StoreStrong
<1>4. Kept' = Kept \cup {a}
  BY <1>1 DEF Kept
<1>5. StoreContents' = Store!With(StoreContents, a, ValueOf(a)')
  BY <1>4, StoreFacts DEF StoreContents, Store!With
<1>6. StorePending' = StorePending
  BY DEF StorePending
<1>7. Store!New(i)
  BY <1>2, <1>3, <1>5, <1>6, StoreFacts DEF Store!New
<1>8. QED
  BY <1>7 DEF StoreStep, Store!Next

\* A new wrapper that keeps nothing, of an array that the store holds.
LEMMA PassThroughInStore ==
  ASSUME NEW i \in Ids, i \notin Keepers, Keepers' = Keepers \cup {i},
         \A j \in Keepers : wrappers'[j] = wrappers[j],
         wrappers'[i].kind = "view", Updated = {}, Updated' = {},
         NEW g \in Keepers, ArrayOf(i)' = ArrayOf(g),
         \A b \in Kept : ValueOf(b)' = ValueOf(b)
  PROVE  StoreStep
<1>1. \A j \in Keepers : ArrayOf(j)' = ArrayOf(j)
  BY DEF ArrayOf
<1>2. StoreNames' = Store!With(StoreNames, i, StoreNames[g])
  BY <1>1, StoreFacts DEF StoreNames, Store!With
<1>3. StoreStrong' = StoreStrong
  BY DEF StoreStrong
<1>4. Kept' = Kept
  BY <1>1 DEF Kept
<1>5. StoreContents' = StoreContents
  BY <1>4 DEF StoreContents
<1>6. StorePending' = StorePending
  BY DEF StorePending
<1>7. Store!PassThrough(g, i)
  BY <1>2, <1>3, <1>5, <1>6, StoreFacts DEF Store!PassThrough
<1>8. QED
  BY <1>7, StoreFacts DEF StoreStep, Store!Next

\* The array of one of the wrappers is to get another value.
LEMMA BeginInStore ==
  ASSUME Keepers' = Keepers, \A j \in Keepers : wrappers'[j] = wrappers[j],
         NEW i \in Keepers, Updated = {}, Updated' = {ArrayOf(i)}, call'.want \in Contents,
         \A b \in Kept : b # ArrayOf(i) => ValueOf(b)' = ValueOf(b)
  PROVE  StoreStep
<1>1. StoreNames' = StoreNames /\ StoreStrong' = StoreStrong /\ Kept' = Kept
  BY SameNames
<1>2. StoreContents' = Store!Without(StoreContents, {ArrayOf(i)})
  BY <1>1, StoreFacts DEF StoreContents, Store!Without
<1>3. StorePending' = {<< ArrayOf(i), call'.want >>}
  BY DEF StorePending
<1>4. Store!Begin(i)
  BY <1>1, <1>2, <1>3, StoreFacts DEF Store!Begin
<1>5. QED
  BY <1>4, StoreFacts DEF StoreStep, Store!Next

\* Another wrapper of the array under update_, with the value it was to get.
LEMMA UpdateInStore ==
  ASSUME NEW i \in Ids, i \notin Keepers, Keepers' = Keepers \cup {i},
         \A j \in Keepers : wrappers'[j] = wrappers[j],
         wrappers'[i].kind # "view", NEW a \in Kept, Updated = {a}, Updated' = {},
         ArrayOf(i)' = a, ValueOf(a)' = call.want,
         \A b \in Kept : b # a => ValueOf(b)' = ValueOf(b)
  PROVE  StoreStep
<1>1. \A j \in Keepers : ArrayOf(j)' = ArrayOf(j)
  BY DEF ArrayOf
<1>2. StoreNames' = Store!With(StoreNames, i, a)
  BY <1>1, StoreFacts DEF StoreNames, Store!With
<1>3. StoreStrong' = StoreStrong \cup {i}
  BY DEF StoreStrong
<1>4. Kept' = Kept
  BY <1>1 DEF Kept
<1>5. StoreContents' = Store!With(StoreContents, a, call.want)
  BY <1>4, StoreFacts DEF StoreContents, Store!With
<1>6. StorePending = {<< a, call.want >>} /\ StorePending' = {}
  BY DEF StorePending
<1>7. Store!Update(i, a, call.want)
  BY <1>2, <1>3, <1>5, <1>6, StoreFacts DEF Store!Update
<1>8. \E p \in StorePending : Store!Update(i, p[1], p[2])
  BY <1>6, <1>7
<1>9. QED
  BY <1>8 DEF StoreStep, Store!Next

\* The array under update_ gets some value or other.
LEMMA SpoilInStore ==
  ASSUME Keepers' = Keepers, \A j \in Keepers : wrappers'[j] = wrappers[j],
         NEW a \in Kept, Updated = {a}, Updated' = {}, ValueOf(a)' \in Contents,
         \A b \in Kept : b # a => ValueOf(b)' = ValueOf(b)
  PROVE  StoreStep
<1>1. StoreNames' = StoreNames /\ StoreStrong' = StoreStrong /\ Kept' = Kept
  BY SameNames
<1>2. StoreContents' = Store!With(StoreContents, a, ValueOf(a)')
  BY <1>1, StoreFacts DEF StoreContents, Store!With
<1>3. StorePending = {<< a, call.want >>} /\ StorePending' = {}
  BY DEF StorePending
<1>4. a \in {p[1] : p \in StorePending}
  BY <1>3
<1>5. Store!Spoil(a)
  BY <1>1, <1>2, <1>3, <1>4 DEF Store!Spoil
<1>6. QED
  BY <1>5, StoreFacts DEF StoreStep, Store!Next

\* One wrapper less.
LEMMA ForgetInStore ==
  ASSUME NEW i \in Keepers, Keepers' = Keepers \ {i},
         \A j \in Keepers : wrappers'[j] = wrappers[j], Updated = {}, Updated' = {},
         \A b \in Kept : ValueOf(b)' = ValueOf(b)
  PROVE  StoreStep
<1>1. \A j \in Keepers : ArrayOf(j)' = ArrayOf(j)
  BY DEF ArrayOf
<1>2. StoreNames' = Store!Without(StoreNames, {i})
  BY <1>1, StoreFacts DEF StoreNames, Store!Without
<1>3. StoreStrong' = StoreStrong \ {i}
  BY DEF StoreStrong
<1>4. Kept' = {StoreNames[g] : g \in DOMAIN StoreNames \ {i}} /\ Kept' \subseteq Kept
  BY <1>1, StoreFacts DEF Kept
<1>5. StoreContents' = [a \in {StoreNames[g] : g \in DOMAIN StoreNames \ {i}} |-> StoreContents[a]]
  BY <1>4, StoreFacts DEF StoreContents
<1>6. StorePending' = StorePending
  BY DEF StorePending
<1>7. Store!Forget(i)
  BY <1>2, <1>3, <1>5, <1>6, StoreFacts DEF Store!Forget
<1>8. QED
  BY <1>7, StoreFacts DEF StoreStep, Store!Next

\* An array goes, and the wrappers of it, which keep nothing.
LEMMA LoseInStore ==
  ASSUME NEW a \in Kept \ Updated, Keepers' = {j \in Keepers : ArrayOf(j) # a},
         \A j \in Keepers' : wrappers'[j] = wrappers[j],
         \A j \in Keepers : ArrayOf(j) = a => wrappers[j].kind = "view",
         Updated' = Updated, Updated = {} \/ call'.want = call.want,
         \A b \in Kept : b # a => ValueOf(b)' = ValueOf(b)
  PROVE  StoreStep
<1>1. \A j \in Keepers' : ArrayOf(j)' = ArrayOf(j)
  BY DEF ArrayOf
<1>2. {h \in DOMAIN StoreNames : StoreNames[h] = a} = {j \in Keepers : ArrayOf(j) = a}
  BY StoreFacts
<1>3. StoreNames' = Store!Without(StoreNames, {h \in DOMAIN StoreNames : StoreNames[h] = a})
  BY <1>1, <1>2, StoreFacts DEF StoreNames, Store!Without
<1>4. StoreStrong' = StoreStrong /\ \A h \in StoreStrong : StoreNames[h] # a
  BY StoreFacts DEF StoreStrong
<1>5. Kept' = Kept \ {a}
  BY <1>1 DEF Kept
<1>6. StoreContents' = Store!Without(StoreContents, {a})
  BY <1>5, StoreFacts DEF StoreContents, Store!Without
<1>7. StorePending' = StorePending
  BY DEF StorePending
<1>8. Store!Lose(a)
  BY <1>3, <1>4, <1>6, <1>7 DEF Store!Lose
<1>9. QED
  BY <1>8, StoreFacts DEF StoreStep, Store!Next
-----------------------------------------------------------------------------
\* Where nothing is written, and nothing goes, the store's wrappers and values stay.
LEMMA SameKeepers ==
  ASSUME UNCHANGED << wrappers, held, traced, removed >>
  PROVE  Keepers' = Keepers /\ \A j \in Keepers : wrappers'[j] = wrappers[j]
<1>1. \A i : Live(i)' = Live(i)
  BY DEF Live, ArrayOf, ArrayAt
<1>2. \A p : WrittenAgain(p)' = WrittenAgain(p)
  BY DEF WrittenAgain
<1>3. QED
  BY <1>1, <1>2 DEF Keepers

\* A call that is no update_ begins; it leaves the store's arrays alone.
LEMMA EnterSame ==
  ASSUME IInv, call = None, call' # None, call'.kind # "updated",
         UNCHANGED << wrappers, held, removed >>, Keepers' = Keepers,
         call'.kind = "view" => WrittenAgain(call.out)',
         \A a \in Kept : /\ a[1] # call'.out
                         /\ a[1] \in DOMAIN files' /\ files'[a[1]] = files[a[1]]
  PROVE  StoreStep /\ StoreInv'
<1>1. \A a \in Kept : ValueOf(a)' = ValueOf(a)
  BY SameValue
<1>2. Updated = {} /\ Updated' = {}
  BY DEF Updated
<1>3. StoreStep
  BY <1>1, <1>2, SameStore
<1>4. Kept' = Kept
  BY SameNames
<1>5. StoreInv'
  BY <1>4 DEF StoreInv
<1>6. QED
  BY <1>3, <1>5

\* A new file is no array's of the store, and changes none of them.
LEMMA FreshIsNew ==
  ASSUME IInv, NEW p \in Fresh, NEW c, files' = With(files, p, c), NEW a \in Kept
  PROVE  a[1] # p /\ a[1] \in DOMAIN files' /\ files'[a[1]] = files[a[1]]
<1>1. a[1] \in DOMAIN files /\ p \notin DOMAIN files
  BY KeptFacts, FreshFacts
<1>2. QED
  BY <1>1 DEF With

LEMMA FromNumpyRefines ==
  ASSUME IInv, NEW v \in Values, FromNumpy(v)
  PROVE  StoreStep /\ StoreInv'
<1>1. PICK p \in Fresh : /\ files' = With(files, p, Zeros)
                         /\ Enter("owner", None, p, Uniform(v), None)
  BY DEF FromNumpy, Mkstemp
<1>2. Uniform(v) \in Contents
  BY ContentsFacts DEF IInv
<1>3. call' # None /\ call'.out = p /\ call'.kind = "owner"
  BY <1>1, <1>2, FreshFacts, EnterFacts DEF Kinds
<1>4. call = None /\ UNCHANGED << wrappers, held, traced, removed >>
  BY DEF FromNumpy, Idle
<1>5. QED
  BY <1>1, <1>3, <1>4, SameKeepers, FreshIsNew, EnterSame

LEMMA EagerOpRefines ==
  ASSUME IInv, NEW x \in held, NEW v \in Values, NEW kind \in {"owner", None},
         EagerOp(x, v, kind)
  PROVE  StoreStep /\ StoreInv'
<1>1. PICK p \in Fresh : /\ files' = With(files, p, Zeros)
                         /\ Enter(kind, wrappers[x].path, p, Computed(wrappers[x].path, v), None)
  BY DEF EagerOp, Mkstemp
<1>2. Computed(wrappers[x].path, v) \in Contents /\ wrappers[x].path \in Paths
  BY ContentsFacts DEF IInv, TypeOK
<1>3. call' # None /\ call'.out = p /\ call'.kind = kind /\ kind \notin {"updated", "view"}
  BY <1>1, <1>2, FreshFacts, EnterFacts, NoneAssumption DEF Kinds
<1>4. call = None /\ UNCHANGED << wrappers, held, traced, removed >>
  BY DEF EagerOp, Idle
<1>5. QED
  BY <1>1, <1>3, <1>4, SameKeepers, FreshIsNew, EnterSame

LEMMA EagerBackwardRefines ==
  ASSUME IInv, NEW x \in held, NEW v \in Values, NEW scalar \in BOOLEAN,
         EagerBackward(x, v, scalar)
  PROVE  StoreStep /\ StoreInv'
<1> DEFINE src == wrappers[x].path
<1>1. Computed(src, v) \in Contents /\ src \in Paths
  BY ContentsFacts DEF IInv, TypeOK
<1>2. Tangent(src) \in Paths /\ Tangent(src).grad
  BY <1>1, TangentFacts
<1>3. call' # None /\ call'.out = Tangent(src) /\ call'.kind = "view"
  BY <1>1, <1>2, EnterFacts DEF EagerBackward, Kinds
<1>4. call = None /\ UNCHANGED << wrappers, held, traced, removed >>
  BY DEF EagerBackward, Idle
<1>5. ASSUME NEW a \in Kept
      PROVE  a[1] # call'.out /\ a[1] \in DOMAIN files' /\ files'[a[1]] = files[a[1]]
  <2>1. a[1] # call'.out /\ a[1] \in DOMAIN files
    BY <1>2, <1>3, KeptFacts DEF WrittenAgain
  <2>2. CASE scalar
    BY <2>1, <2>2, FreshIsNew DEF EagerBackward
  <2>3. CASE ~ scalar
    BY <2>1, <2>3 DEF EagerBackward
  <2>4. QED
    BY <2>2, <2>3
<1>6. WrittenAgain(call.out)'
  BY <1>2, <1>3 DEF WrittenAgain
<1>7. QED
  BY <1>3, <1>4, <1>5, <1>6, SameKeepers, EnterSame

LEMMA JitCallRefines ==
  ASSUME IInv, NEW x \in held, NEW v \in Values, JitCall(x, v)
  PROVE  StoreStep /\ StoreInv'
<1> DEFINE src == wrappers[x].path
<1>1. Computed(src, v) \in Contents /\ src \in Paths
  BY ContentsFacts DEF IInv, TypeOK
<1>2. call = None /\ UNCHANGED << wrappers, held, removed >>
  BY DEF JitCall, Idle
<1>3. CASE src \in DOMAIN traced /\ Enter("view", src, traced[src], Computed(src, v), None)
           /\ UNCHANGED << files, traced >>
  <2>1. traced[src] \in Paths
    BY <1>2, <1>3 DEF IInv, TypeOK, Writing
  <2>2. call' # None /\ call'.out = traced[src] /\ call'.kind = "view"
    BY <1>1, <1>3, <2>1, EnterFacts DEF Kinds
  <2>3. WrittenAgain(traced[src]) /\ WrittenAgain(call.out)'
    BY <1>3, <2>2 DEF WrittenAgain
  <2>4. \A a \in Kept : a[1] # traced[src] /\ a[1] \in DOMAIN files
    BY <2>3, KeptFacts
  <2>5. QED
    BY <1>2, <1>3, <2>2, <2>3, <2>4, SameKeepers, EnterSame
<1>4. CASE src \notin DOMAIN traced /\ \E p \in Fresh : /\ Mkstemp(p)
                            /\ Enter("view", src, p, Computed(src, v), None)
                            /\ traced' = With(traced, src, p)
  <2>1. PICK p \in Fresh : /\ files' = With(files, p, Zeros)
                           /\ Enter("view", src, p, Computed(src, v), None)
                           /\ traced' = With(traced, src, p)
    BY <1>4 DEF Mkstemp
  <2>2. call' # None /\ call'.out = p /\ call'.kind = "view"
    BY <1>1, <2>1, FreshFacts, EnterFacts DEF Kinds
  <2>3. /\ DOMAIN traced' = DOMAIN traced \cup {src} /\ traced'[src] = p
        /\ \A q \in DOMAIN traced : traced'[q] = traced[q]
    BY <1>4, <2>1 DEF With
  <2>4. \A q : WrittenAgain(q)' <=> WrittenAgain(q) \/ q = p
    BY <2>3, FreshFacts DEF WrittenAgain
  <2>5. \A i : Live(i)' = Live(i)
    BY <1>2 DEF Live, ArrayOf, ArrayAt
  <2>6. \A i \in Keepers : wrappers[i].path # p
    BY KeeperFacts, FreshFacts
  <2>7. Keepers' = Keepers
    BY <1>2, <2>4, <2>5, <2>6 DEF Keepers
  <2>8. WrittenAgain(call.out)'
    BY <2>2, <2>4
  <2>9. QED
    BY <1>2, <2>1, <2>2, <2>7, <2>8, FreshIsNew, EnterSame
<1>5. QED
  BY <1>3, <1>4 DEF JitCall

\* A compiled function's result is not a new file.
LEMMA TracedIsThere ==
  ASSUME IInv, call = None, NEW q \in DOMAIN traced
  PROVE  traced[q] \in DOMAIN files
  BY DEF IInv, TracedInv, LeftInv, Writing

LEMMA VspaceZeroRefines == ASSUME IInv, VspaceZero PROVE StoreStep /\ StoreInv'
<1>1. PICK p \in Fresh : /\ files' = With(files, p, Zeros)
                         /\ wrappers' = With(wrappers, NewId, [path |-> p, kind |-> "owner",
                                                               nth |-> removed[p]])
  BY DEF VspaceZero, Mkstemp
<1>2. /\ call = None /\ call' = None /\ DOMAIN wrappers # Ids
      /\ traced' = traced /\ held' = held \cup {NewId} /\ removed' = removed
  BY DEF VspaceZero, Idle
<1>3. p \in Paths /\ ~ p.grad /\ p \notin DOMAIN files
  BY FreshFacts
<1>4. PICK i \in Ids, a \in Arrays :
        /\ i = NewId /\ a = ArrayAt(p)
        /\ i \notin DOMAIN wrappers /\ wrappers'[i].path = p
        /\ wrappers'[i].kind = "owner" /\ wrappers'[i].nth = removed[p]
        /\ \A j \in DOMAIN wrappers : wrappers'[j] = wrappers[j]
  <2>1. /\ NewId \in Ids \ DOMAIN wrappers /\ wrappers'[NewId].path = p
        /\ wrappers'[NewId].kind = "owner" /\ wrappers'[NewId].nth = removed[p]
        /\ \A j \in DOMAIN wrappers : wrappers'[j] = wrappers[j]
    BY <1>1, <1>2, <1>3, NewWrapper DEF IInv, Kinds
  <2>2. removed[p] \in 0 .. MaxCalls
    BY <1>3, LifecycleAssumption DEF IInv, TypeOK
  <2>3. ArrayAt(p) \in Arrays
    BY <1>3, <2>2 DEF Arrays, ArrayAt
  <2>4. QED
    BY <2>1, <2>3
<1>5. i \notin Keepers /\ held \subseteq DOMAIN wrappers
  BY <1>4, KeeperFacts DEF IInv, TypeOK
<1>6. \A q : WrittenAgain(q)' <=> WrittenAgain(q)
  BY <1>2 DEF WrittenAgain
<1>7. ~ WrittenAgain(p)
  BY <1>2, <1>3, TracedIsThere DEF WrittenAgain
<1>8. \A j \in DOMAIN wrappers : Live(j)' = Live(j)
  BY <1>2, <1>4 DEF Live, ArrayOf, ArrayAt
<1>9. Keepers' = Keepers \cup {i}
  BY <1>2, <1>4, <1>5, <1>6, <1>7, <1>8 DEF Keepers
<1>10. ArrayOf(i)' = a
  BY <1>4 DEF ArrayOf, ArrayAt
<1>11. ValueOf(a)' \in Contents
  BY <1>1, <1>2, <1>4, ContentsFacts DEF ValueOf, ArrayAt, With, IInv
<1>12. a \notin Kept
  <2>1. a[1] = p
    BY <1>4 DEF ArrayAt
  <2>2. QED
    BY <1>3, <2>1, KeptFacts
<1>13. \A b \in Kept : ValueOf(b)' = ValueOf(b)
  BY <1>1, <1>2, FreshIsNew, SameValue
<1>14. Updated = {} /\ Updated' = {}
  BY <1>2 DEF Updated
<1>15. \A j \in Keepers : wrappers'[j] = wrappers[j]
  BY <1>4, KeeperFacts
<1>16. StoreStep
  BY <1>4, <1>5, <1>9, <1>10, <1>11, <1>12, <1>13, <1>14, <1>15, NewInStore
<1>17. QED
  BY <1>2, <1>16 DEF StoreInv

LEMMA PassThroughRefines ==
  ASSUME IInv, NEW x \in held, PassThrough(x)
  PROVE  StoreStep /\ StoreInv'
<1>1. /\ wrappers' = With(wrappers, NewId, [path |-> wrappers[x].path, kind |-> "view",
                                            nth |-> wrappers[x].nth])
      /\ held' = held \cup {NewId} /\ UNCHANGED << files, traced, call, removed >>
      /\ call = None /\ DOMAIN wrappers # Ids
  BY DEF PassThrough, Idle
<1>2. wrappers[x].path \in Paths /\ x \in DOMAIN wrappers
  BY DEF IInv, TypeOK
<1>3. PICK i \in Ids :
        /\ i = NewId /\ i \notin DOMAIN wrappers /\ wrappers'[i].kind = "view"
        /\ wrappers'[i].path = wrappers[x].path /\ wrappers'[i].nth = wrappers[x].nth
        /\ \A j \in DOMAIN wrappers : wrappers'[j] = wrappers[j]
  BY <1>1, <1>2, NewWrapper DEF IInv, Kinds
<1>4. i \notin Keepers /\ held \subseteq DOMAIN wrappers
  BY <1>3, KeeperFacts DEF IInv, TypeOK
<1>5. \A q : WrittenAgain(q)' <=> WrittenAgain(q)
  BY <1>1 DEF WrittenAgain
<1>6. \A j \in DOMAIN wrappers : Live(j)' = Live(j)
  BY <1>1, <1>3 DEF Live, ArrayOf, ArrayAt
<1>7. Live(i)' = Live(x) /\ ArrayOf(i)' = ArrayOf(x)
  BY <1>1, <1>3 DEF Live, ArrayOf, ArrayAt
<1>8. x \in Keepers <=> ~ WrittenAgain(wrappers[x].path) /\ Live(x)
  BY <1>2, KeeperFacts DEF Keepers, Live
<1>9. Keepers' = IF x \in Keepers THEN Keepers \cup {i} ELSE Keepers
  BY <1>1, <1>3, <1>4, <1>5, <1>6, <1>7, <1>8 DEF Keepers
<1>10. \A j \in Keepers : wrappers'[j] = wrappers[j]
  BY <1>3, KeeperFacts
<1>11. \A b \in Kept : ValueOf(b)' = ValueOf(b)
  BY <1>1, KeptFacts, SameValue
<1>12. Updated = {} /\ Updated' = {} /\ StoreInv'
  BY <1>1 DEF Updated, StoreInv
<1>13. CASE x \in Keepers
  BY <1>3, <1>4, <1>7, <1>9, <1>10, <1>11, <1>12, <1>13, PassThroughInStore
<1>14. CASE x \notin Keepers
  BY <1>9, <1>10, <1>11, <1>12, <1>14, SameStore
<1>15. QED
  BY <1>13, <1>14

(***************************************************************************)
(* update_ of an array in the store, or of one whose file is gone and      *)
(* whose name is no array's, or of one that is written again anyway.       *)
(***************************************************************************)
LEMMA UpdateRefines ==
  ASSUME ~ StaleUpdate, IInv, NEW self \in held, NEW new \in held, Update(self, new)
  PROVE  StoreStep /\ StoreInv'
<1> DEFINE src == wrappers[new].path
           out == wrappers[self].path
<1>1. /\ Enter("updated", src, out, Holds(src), ArrayOf(self)) /\ call = None
      /\ UNCHANGED << files, wrappers, held, traced, removed >>
      /\ Live(self) \/ out \notin DOMAIN files
  BY DEF Update, Idle
<1>2. /\ src \in Paths /\ out \in Paths /\ Holds(src) \in Contents
      /\ ArrayOf(self) \in Arrays /\ self \in DOMAIN wrappers
  BY ContentsFacts, ArrayOfFacts DEF IInv, TypeOK
<1>3. /\ call' # None /\ call'.out = out /\ call'.kind = "updated"
      /\ call'.target = ArrayOf(self) /\ call'.want = Holds(src)
  BY <1>1, <1>2, EnterFacts DEF Enter, Kinds
<1>4. Keepers' = Keepers /\ \A j \in Keepers : wrappers'[j] = wrappers[j]
  BY <1>1, SameKeepers
<1>5. Kept' = Kept
  BY <1>4, SameNames
<1>6. \A b \in Kept : ValueOf(b)' = ValueOf(b)
  BY <1>1, KeptFacts, SameValue
<1>7. \A a \in Kept : a[1] = out => a = ArrayOf(self)
  <2> SUFFICES ASSUME NEW a \in Kept, a[1] = out PROVE a = ArrayOf(self)
    OBVIOUS
  <2>1. a = ArrayAt(out) /\ out \in DOMAIN files
    BY KeptFacts
  <2>2. QED
    BY <1>1, <2>1 DEF Live
<1>8. ArrayOf(self)[1] = out
  BY DEF ArrayOf
<1>9. StoreInv'
  BY <1>3, <1>5, <1>7, <1>8 DEF StoreInv
<1>10. Updated = {} /\ Updated' = {ArrayOf(self)} \cap Kept
  BY <1>1, <1>3, <1>5 DEF Updated
<1>11. CASE ArrayOf(self) \in Kept
  <2>1. PICK i \in Keepers : ArrayOf(i) = ArrayOf(self)
    BY <1>11 DEF Kept
  <2>2. Updated' = {ArrayOf(i)}
    BY <1>10, <1>11, <2>1
  <2>3. QED
    BY <1>2, <1>3, <1>4, <1>6, <1>9, <1>10, <2>1, <2>2, BeginInStore
<1>12. CASE ArrayOf(self) \notin Kept
  <2>1. Updated' = {}
    BY <1>10, <1>12
  <2>2. QED
    BY <1>4, <1>6, <1>9, <1>10, <2>1, SameStore
<1>13. QED
  BY <1>11, <1>12

\* Steps within a call: only the output changes, which the store does not show yet.
LEMMA WithinCall ==
  ASSUME IInv, StoreInv, call # None, call' # None,
         call'.out = call.out, call'.kind = call.kind,
         call'.target = call.target, call'.want = call.want,
         UNCHANGED << wrappers, held, traced, removed >>,
         DOMAIN files \subseteq DOMAIN files',
         \A p \in DOMAIN files : p # call.out => files'[p] = files[p]
  PROVE  StoreStep /\ StoreInv'
<1>1. Keepers' = Keepers /\ \A j \in Keepers : wrappers'[j] = wrappers[j]
  BY SameKeepers
<1>2. Kept' = Kept
  BY <1>1, SameNames
<1>3. Updated' = Updated
  BY <1>2 DEF Updated
<1>4. \A a \in Kept \ Updated : ValueOf(a)' = ValueOf(a)
  BY UpdatedFacts, KeptFacts, SameValue
<1>5. WrittenAgain(call.out)' = WrittenAgain(call.out)
  BY DEF WrittenAgain
<1>6. StoreInv'
  BY <1>2, <1>5 DEF StoreInv
<1>7. QED
  BY <1>1, <1>3, <1>4, <1>6, SameStore

LEMMA CreateRefines == ASSUME IInv, StoreInv, Create PROVE StoreStep /\ StoreInv'
<1>1. /\ call # None /\ call \in Calls /\ files' = With(files, call.out, Zeros)
      /\ call' = [call EXCEPT !.at = 1] /\ UNCHANGED << wrappers, held, traced, removed >>
  BY DEF Create, IInv, TypeOK
<1>2. call' # None
  <2>1. 1 \in 0 .. NumBlocks + 1
    BY LifecycleAssumption
  <2>2. QED
    BY <1>1, <2>1, NoneAssumption DEF Calls
<1>3. /\ call'.out = call.out /\ call'.kind = call.kind
      /\ call'.target = call.target /\ call'.want = call.want
  BY <1>1 DEF Calls
<1>4. /\ DOMAIN files \subseteq DOMAIN files'
      /\ \A p \in DOMAIN files : p # call.out => files'[p] = files[p]
  BY <1>1 DEF With
<1>5. QED
  BY <1>1, <1>2, <1>3, <1>4, WithinCall

LEMMA WriteBlockRefines == ASSUME IInv, StoreInv, WriteBlock PROVE StoreStep /\ StoreInv'
<1> DEFINE v == IF call.src = call.out THEN Zero ELSE call.want[call.at]
<1>1. /\ call # None /\ call \in Calls /\ call.at \in Block
      /\ files' = [files EXCEPT ![call.out][call.at] = v]
      /\ call' = [call EXCEPT !.at = call.at + 1]
      /\ UNCHANGED << wrappers, held, traced, removed >>
  BY DEF WriteBlock, IInv, TypeOK
<1>2. call' # None
  <2>1. call.at + 1 \in 0 .. NumBlocks + 1
    BY <1>1, LifecycleAssumption DEF Block
  <2>2. QED
    BY <1>1, <2>1, NoneAssumption DEF Calls
<1>3. /\ call'.out = call.out /\ call'.kind = call.kind
      /\ call'.target = call.target /\ call'.want = call.want
  BY <1>1 DEF Calls
<1>4. /\ DOMAIN files \subseteq DOMAIN files'
      /\ \A p \in DOMAIN files : p # call.out => files'[p] = files[p]
  BY <1>1
<1>5. QED
  BY <1>1, <1>2, <1>3, <1>4, WithinCall

\* When all blocks are written, the target of update_ is what it was to be.
LEMMA UpdateIsDone ==
  ASSUME IInv, UpdateInv, call # None, call.kind = "updated", call.at = NumBlocks + 1,
         call.out \in DOMAIN files
  PROVE  files[call.out] = call.want
<1>1. files[call.out] \in Contents /\ call.want \in Contents
  BY DEF IInv, TypeOK, Calls
<1>2. \A b \in Block : b < call.at
  BY LifecycleAssumption DEF Block
<1>3. \A b \in Block : files[call.out][b] = call.want[b]
  BY <1>2 DEF UpdateInv, HoldsNewValue
<1>4. QED
  BY <1>1, <1>3 DEF Contents

(***************************************************************************)
(* A result that is wrapped for good is a new array of the store, or the   *)
(* array that update_ was called on, with its new value.                   *)
(***************************************************************************)
LEMMA FinishRefines == ASSUME IInv, UpdateInv, StoreInv, Finish PROVE StoreStep /\ StoreInv'
<1>1. PICK out \in Paths :
        /\ call # None /\ call.at = NumBlocks + 1 /\ call \in Calls /\ call' = None
        /\ call.out = out /\ DOMAIN wrappers # Ids
        /\ UNCHANGED << files, traced, removed >>
  BY DEF Finish, IInv, TypeOK, Calls
<1>2. out \in DOMAIN files /\ files[out] \in Contents
  BY <1>1, LifecycleAssumption DEF IInv, CallInv, TypeOK
<1>3. StoreInv' /\ Updated' = {}
  BY <1>1 DEF StoreInv, Updated
<1>4. \A b \in Kept : ValueOf(b)' = ValueOf(b)
  BY <1>1, KeptFacts, SameValue
<1>5. CASE call.kind = None
  <2>1. UNCHANGED << wrappers, held >>
    BY <1>5 DEF Finish
  <2>2. Keepers' = Keepers /\ \A j \in Keepers : wrappers'[j] = wrappers[j]
    BY <1>1, <2>1, SameKeepers
  <2>3. Updated = {}
    BY <1>5, NoneAssumption DEF Updated, Kinds
  <2>4. QED
    BY <1>3, <1>4, <2>2, <2>3, SameStore
<1>6. CASE call.kind # None
  <2>1. PICK i \in Ids, a \in Arrays :
          /\ i = NewId /\ a = ArrayAt(out)
          /\ wrappers' = With(wrappers, i, [path |-> out, kind |-> call.kind,
                                            nth |-> removed[out]])
          /\ held' = held \cup {i} /\ call.kind \in Kinds /\ i \notin DOMAIN wrappers
    <3>1. NewId \in Ids \ DOMAIN wrappers
      BY <1>1, NewIdFresh DEF IInv, TypeOK
    <3>2. removed[out] \in 0 .. MaxCalls
      BY LifecycleAssumption DEF IInv, TypeOK
    <3>3. ArrayAt(out) \in Arrays
      BY <3>2 DEF Arrays, ArrayAt
    <3>4. QED
      BY <1>1, <1>6, <3>1, <3>3 DEF Finish, Calls
  <2>2. /\ wrappers'[i].path = out /\ wrappers'[i].kind = call.kind
        /\ wrappers'[i].nth = removed[out]
        /\ \A j \in DOMAIN wrappers : wrappers'[j] = wrappers[j]
    BY <2>1 DEF With
  <2>3. /\ i \notin Keepers /\ i \notin held /\ held \subseteq DOMAIN wrappers
        /\ \A j \in Keepers : wrappers'[j] = wrappers[j]
    BY <2>1, <2>2, KeeperFacts DEF IInv, TypeOK
  <2>4. \A q : WrittenAgain(q)' <=> WrittenAgain(q)
    BY <1>1 DEF WrittenAgain
  <2>5. \A j \in DOMAIN wrappers : Live(j)' = Live(j)
    BY <1>1, <2>2 DEF Live, ArrayOf, ArrayAt
  <2>6. ArrayOf(i)' = a /\ a[1] = out
    BY <2>1, <2>2 DEF ArrayOf, ArrayAt
  <2>7. Live(i)'
    BY <1>1, <2>2 DEF Live, ArrayOf, ArrayAt
  <2>8. Keepers' = IF WrittenAgain(out) THEN Keepers ELSE Keepers \cup {i}
    BY <2>1, <2>2, <2>3, <2>4, <2>5, <2>7 DEF Keepers
  <2>9. ValueOf(a)' = files[out]
    BY <1>1, <1>2, <2>1, <2>6 DEF ValueOf, ArrayAt
  <2>10. CASE WrittenAgain(out)
    <3>1. Updated = {}
      BY <1>1, <2>10, UpdatedFacts, KeptFacts
    <3>2. QED
      BY <1>3, <1>4, <2>3, <2>8, <2>10, <3>1, SameStore
  <2>11. CASE ~ WrittenAgain(out) /\ a \notin Kept
    <3>1. \A b \in Kept : b[1] # out
      BY <2>1, <2>11, KeptFacts
    <3>2. Updated = {} /\ call.kind # "view"
      BY <1>1, <2>11, <3>1, UpdatedFacts DEF StoreInv
    <3>3. QED
      BY <1>2, <1>3, <1>4, <2>2, <2>3, <2>6, <2>8, <2>9, <2>11, <3>2, NewInStore
  <2>12. CASE ~ WrittenAgain(out) /\ a \in Kept
    <3>1. Updated = {a} /\ call.kind = "updated"
      BY <1>1, <2>6, <2>12, UpdatedFacts
    <3>2. files[out] = call.want
      BY <1>1, <1>2, <3>1, UpdateIsDone
    <3>3. QED
      BY <1>3, <1>4, <2>2, <2>3, <2>6, <2>8, <2>9, <2>12, <3>1, <3>2, UpdateInStore
  <2>13. QED
    BY <2>10, <2>11, <2>12
<1>7. QED
  BY <1>5, <1>6

\* An update_ that is broken off may leave anything in its target, and nowhere else.
LEMMA RaiseRefines == ASSUME IInv, StoreInv, Raise PROVE StoreStep /\ StoreInv'
<1>1. /\ call # None /\ call' = None
      /\ UNCHANGED << files, wrappers, held, traced, removed >>
  BY DEF Raise
<1>2. Keepers' = Keepers /\ \A j \in Keepers : wrappers'[j] = wrappers[j]
  BY <1>1, SameKeepers
<1>3. StoreInv' /\ Updated' = {}
  BY <1>1 DEF StoreInv, Updated
<1>4. \A b \in Kept : ValueOf(b)' = ValueOf(b) /\ ValueOf(b) \in Contents
  BY <1>1, KeptFacts, SameValue
<1>5. CASE Updated = {}
  BY <1>2, <1>3, <1>4, <1>5, SameStore
<1>6. CASE Updated # {}
  <2>1. PICK a \in Kept : Updated = {a}
    BY <1>1, <1>6, UpdatedFacts
  <2>2. QED
    BY <1>2, <1>3, <1>4, <2>1, SpoilInStore
<1>7. QED
  BY <1>5, <1>6

LEMMA DropRefines == ASSUME IInv, NEW i \in Ids, Drop(i) PROVE StoreStep /\ StoreInv'
<1>1. /\ call = None /\ held' = held \ {i}
      /\ UNCHANGED << files, wrappers, traced, call, removed >>
  BY DEF Drop
<1>2. \A j : Live(j)' = Live(j)
  BY <1>1 DEF Live, ArrayOf, ArrayAt
<1>3. \A q : WrittenAgain(q)' = WrittenAgain(q)
  BY <1>1 DEF WrittenAgain
<1>4. Keepers' = Keepers \ {i} /\ \A j \in Keepers : wrappers'[j] = wrappers[j]
  BY <1>1, <1>2, <1>3 DEF Keepers
<1>5. \A b \in Kept : ValueOf(b)' = ValueOf(b)
  BY <1>1, KeptFacts, SameValue
<1>6. StoreInv' /\ Updated = {} /\ Updated' = {}
  BY <1>1 DEF StoreInv, Updated
<1>7. CASE i \in Keepers
  BY <1>4, <1>5, <1>6, <1>7, ForgetInStore
<1>8. CASE i \notin Keepers
  <2>1. Keepers' = Keepers
    BY <1>4, <1>8
  <2>2. QED
    BY <1>4, <1>5, <1>6, <2>1, SameStore
<1>9. QED
  BY <1>7, <1>8

(***************************************************************************)
(* When a file goes, the store loses its array, if any wrapper of it is    *)
(* still there; such wrappers keep nothing, and it is not under update_.   *)
(***************************************************************************)
LEMMA CollectRefines ==
  ASSUME IInv, StoreInv, NEW i \in Ids, Collect(i)
  PROVE  StoreStep /\ StoreInv'
<1>1. /\ i \notin held /\ i \in DOMAIN wrappers /\ UNCHANGED << held, traced, call >>
      /\ \A j \in DOMAIN wrappers \ {i} : wrappers'[j] = wrappers[j]
  BY DEF Collect, Without
<1>2. /\ held \subseteq DOMAIN wrappers \ {i} /\ \A j \in held : wrappers'[j] = wrappers[j]
      /\ \A j \in Keepers : wrappers'[j] = wrappers[j]
  BY <1>1, KeeperFacts DEF IInv, TypeOK
<1>3. \A q : WrittenAgain(q)' = WrittenAgain(q)
  BY <1>1 DEF WrittenAgain
<1>4. CASE i \notin armed
  <2>1. UNCHANGED << files, removed >>
    BY <1>4 DEF Collect
  <2>2. \A j \in held : Live(j)' = Live(j)
    BY <1>2, <2>1 DEF Live, ArrayOf, ArrayAt
  <2>3. Keepers' = Keepers
    BY <1>1, <1>2, <1>3, <2>2 DEF Keepers
  <2>4. Kept' = Kept
    BY <1>2, <2>3, SameNames
  <2>5. Updated' = Updated /\ (Updated = {} \/ call'.want = call.want)
    BY <1>1, <2>4 DEF Updated
  <2>6. \A b \in Kept : ValueOf(b)' = ValueOf(b)
    BY <2>1, KeptFacts, SameValue
  <2>7. StoreInv'
    BY <1>1, <1>3, <2>4 DEF StoreInv
  <2>8. QED
    BY <1>2, <2>3, <2>5, <2>6, <2>7, SameStore
<1>5. CASE i \in armed
  <2>1. PICK p \in Paths :
          /\ p = wrappers[i].path /\ files' = Without(files, p)
          /\ removed' = [removed EXCEPT ![p] = @ + 1]
    BY <1>1, <1>5 DEF Collect, IInv, TypeOK
  <2>2. /\ removed[p] \in Nat /\ removed'[p] = removed[p] + 1
        /\ \A q \in Paths : q # p => removed'[q] = removed[q]
    BY <2>1, LifecycleAssumption DEF IInv, TypeOK
  <2>3. removed'[p] # removed[p]
    BY <2>2
  <2>4. call # None => call.out # p
    BY <1>5, <2>1 DEF IInv, CallInv
  <2>5. \A j \in Keepers : wrappers[j].path = p => wrappers[j].kind = "view"
    <3> SUFFICES ASSUME NEW j \in Keepers, wrappers[j].path = p, wrappers[j].kind # "view"
                 PROVE  FALSE
      OBVIOUS
    <3>1. IInv'
      BY CollectKeepsIInv
    <3>2. j \in DOMAIN wrappers' /\ wrappers'[j] = wrappers[j]
      BY <1>1, <1>2, <3>1, KeeperFacts DEF IInv, TypeOK
    <3>3. wrappers[j].nth = removed'[p]
      BY <3>1, <3>2 DEF IInv, ArrayInv
    <3>4. wrappers[j].nth = removed[p]
      BY KeeperFacts DEF ArrayOf, ArrayAt
    <3>5. QED
      BY <2>3, <3>3, <3>4
  <2>6. \A j \in held : wrappers[j].path # p => Live(j)' = Live(j)
    BY <1>2, <2>2 DEF Live, ArrayOf, ArrayAt, IInv, TypeOK
  <2>7. \A j \in Keepers : wrappers[j].path = p => ~ Live(j)'
    BY <1>2, <2>3, KeeperFacts DEF Live, ArrayOf, ArrayAt
  <2>8. \A j \in held : wrappers[j].path = p /\ ~ Live(j) => ~ Live(j)'
    <3> SUFFICES ASSUME NEW j \in held, wrappers[j].path = p
                 PROVE  ~ Live(j)'
      OBVIOUS
    <3>1. wrappers'[j] = wrappers[j] /\ wrappers[j].nth \in 0 .. removed[p]
      BY <1>2 DEF IInv, TypeOK
    <3>2. wrappers[j].nth # removed[p] + 1
      BY <2>2, <3>1
    <3>3. QED
      BY <2>2, <3>1, <3>2 DEF Live, ArrayOf, ArrayAt
  <2>9. Keepers' = {j \in Keepers : wrappers[j].path # p}
    BY <1>1, <1>2, <1>3, <2>5, <2>6, <2>7, <2>8 DEF Keepers
  <2>10. \A b \in Kept : b[1] # p => ValueOf(b)' = ValueOf(b)
    <3> SUFFICES ASSUME NEW b \in Kept, b[1] # p PROVE ValueOf(b)' = ValueOf(b)
      OBVIOUS
    <3>1. b[1] \in DOMAIN files' /\ files'[b[1]] = files[b[1]]
      BY <2>1, KeptFacts DEF Without
    <3>2. removed'[b[1]] = removed[b[1]]
      BY <2>2, KeptFacts
    <3>3. QED
      BY <3>1, <3>2, SameValue
  <2>11. \A j \in Keepers' : wrappers'[j] = wrappers[j] /\ ArrayOf(j)' = ArrayOf(j)
    BY <1>2, <2>9 DEF ArrayOf
  <2>12. Kept' = {b \in Kept : b[1] # p}
    <3>1. \A j \in Keepers : ArrayOf(j)[1] = wrappers[j].path
      BY DEF ArrayOf
    <3>2. QED
      BY <2>9, <2>11, <3>1 DEF Kept
  <2>13. Updated' = Updated /\ (Updated = {} \/ call'.want = call.want)
    BY <1>1, <2>4, <2>12, UpdatedFacts DEF Updated, StoreInv
  <2>14. StoreInv'
    BY <1>1, <1>3, <2>12 DEF StoreInv
  <2>15. CASE \E j \in Keepers : wrappers[j].path = p
    <3>1. PICK a \in Kept : a[1] = p
      <4>1. PICK j \in Keepers : wrappers[j].path = p
        BY <2>15
      <4>2. ArrayOf(j) \in Kept /\ ArrayOf(j)[1] = p
        BY <4>1 DEF Kept, ArrayOf
      <4>3. QED
        BY <4>2
    <3>2. a \notin Updated
      BY <2>4, <3>1, UpdatedFacts DEF Updated
    <3>3. \A b \in Kept : b[1] = p <=> b = a
      BY <3>1, KeptFacts
    <3>4. \A j \in Keepers : wrappers[j].path = p <=> ArrayOf(j) = a
      <4>1. \A j \in Keepers : ArrayOf(j) \in Kept /\ ArrayOf(j)[1] = wrappers[j].path
        BY DEF Kept, ArrayOf
      <4>2. QED
        BY <3>3, <4>1
    <3>5. QED
      BY <2>5, <2>9, <2>10, <2>11, <2>13, <2>14, <3>2, <3>3, <3>4, LoseInStore
  <2>16. CASE \A j \in Keepers : wrappers[j].path # p
    <3>1. Keepers' = Keepers
      BY <2>9, <2>16
    <3>2. \A b \in Kept : b[1] # p
      BY <2>16 DEF Kept, ArrayOf
    <3>3. QED
      BY <1>2, <2>10, <2>13, <2>14, <3>1, <3>2, SameStore
  <2>17. QED
    BY <2>15, <2>16
<1>6. QED
  BY <1>4, <1>5

LEMMA StutterRefines == ASSUME IInv, StoreInv, UNCHANGED vars PROVE StoreStep /\ StoreInv'
<1>1. UNCHANGED << files, wrappers, held, traced, call, removed >>
  BY DEF vars
<1>2. Keepers' = Keepers /\ \A j \in Keepers : wrappers'[j] = wrappers[j]
  BY <1>1, SameKeepers
<1>3. Kept' = Kept
  BY <1>2, SameNames
<1>4. Updated' = Updated /\ (Updated = {} \/ call'.want = call.want)
  BY <1>1, <1>3 DEF Updated
<1>5. \A b \in Kept : ValueOf(b)' = ValueOf(b)
  BY <1>1, KeptFacts, SameValue
<1>6. StoreInv'
  BY <1>1, <1>3 DEF StoreInv, WrittenAgain
<1>7. QED
  BY <1>2, <1>4, <1>5, <1>6, SameStore
-----------------------------------------------------------------------------
\* Every step of the program and of the collector is a step of the store or none.
LEMMA NextRefines ==
  ASSUME ~ StaleUpdate, IInv, UpdateInv, StoreInv, [Next]_vars
  PROVE  StoreStep /\ StoreInv'
<1>1. CASE Begin
  <2>1. CASE VspaceZero
    BY <2>1, VspaceZeroRefines
  <2>2. CASE \E v \in Values : FromNumpy(v)
    BY <2>2, FromNumpyRefines
  <2>3. CASE \E x \in held, v \in Values :
               EagerOp(x, v, "owner") \/ EagerOp(x, v, None) \/ JitCall(x, v)
                 \/ \E scalar \in BOOLEAN : EagerBackward(x, v, scalar)
    BY <2>3, EagerOpRefines, JitCallRefines, EagerBackwardRefines
  <2>4. CASE \E x, y \in held : Update(x, y)
    BY <2>4, UpdateRefines
  <2>5. CASE \E x \in held : PassThrough(x)
    BY <2>5, PassThroughRefines
  <2>6. QED
    BY <1>1, <2>1, <2>2, <2>3, <2>4, <2>5 DEF Begin
<1>2. CASE Step
  BY <1>2, CreateRefines, WriteBlockRefines, FinishRefines DEF Step
<1>3. CASE Raise
  BY <1>3, RaiseRefines
<1>4. CASE \E i \in Ids : Drop(i) \/ Collect(i)
  BY <1>4, DropRefines, CollectRefines
<1>5. CASE Stopped \/ UNCHANGED vars
  BY <1>5, StutterRefines DEF Stopped
<1>6. QED
  BY <1>1, <1>2, <1>3, <1>4, <1>5 DEF Next

(***************************************************************************)
(* The files implement the store: an array keeps its value until update_   *)
(* is called on it, then gets the value it was called with, or any if it   *)
(* raises; no other step changes it, whatever is created, written,         *)
(* dropped, collected, broken off or named again.  The program is not to   *)
(* call a.update_(a), nor update_ of an array that is gone and whose file  *)
(* name another array has by then.                                         *)
(***************************************************************************)
THEOREM FilesImplementStore == ASSUME ~ SelfUpdate, ~ StaleUpdate PROVE Spec => StoreSpec
<1>1. Init => Store!Init /\ StoreInv /\ UpdateInv
  BY DEF Init, Keepers, Kept, Updated, StoreNames, StoreStrong, StoreContents,
         StorePending, Store!Init, StoreInv, UpdateInv, HoldsNewValue
<1>2. IInv /\ UpdateInv /\ [Next]_vars => UpdateInv'
  BY NextKeepsUpdateInv
<1>3. IInv /\ UpdateInv /\ StoreInv /\ [Next]_vars => [Store!Next]_(Store!vars) /\ StoreInv'
  BY NextRefines DEF StoreStep, Store!vars
<1>4. QED
  BY <1>1, <1>2, <1>3, SpecKeepsIInv, PTL DEF Spec, StoreSpec, Store!Spec
=============================================================================
