-------------------------- MODULE DiskArrayLifecycle --------------------------
(***************************************************************************)
(* Who removes a disk array's file, and when.  A DiskArray object is a     *)
(* wrapper around a file name; several wrappers may share one file.  The   *)
(* wrapper an eager op or from_numpy makes owns its new file through a     *)
(* weakref.finalize; wrappers made for traced results, gradients, arrays   *)
(* that pass through a jitted function and update_ own nothing.  update_   *)
(* cancels the finalizer of the file it overwrites.                        *)
(*                                                                         *)
(* The program makes one call at a time and may give up its reference to a *)
(* wrapper between calls.  The garbage collector may come for a wrapper at *)
(* any later moment, also in the middle of a call, and runs its finalizer. *)
(* A call goes through its output block by block and may raise in between. *)
(* Every array has the same shape, and a block is read as a whole.  Of an  *)
(* op's operands one is modelled, the others are read like it.             *)
(***************************************************************************)
EXTENDS DiskArrayType, Naturals

CONSTANTS
  Names,        \* the names mkstemp may choose
  Ids,          \* the wrapper objects there may be at a time
  NumBlocks,    \* the blocks of an array
  Values,       \* what a block of an array may hold
  Zero,         \* what a block of a new file holds
  None,
  SelfUpdate,   \* whether the program calls a.update_(a)
  StaleUpdate,  \* whether it calls update_ of an array that is gone and whose file
                \* name another array has by now
  MaxCalls      \* bound on the number of calls in a behaviour

ASSUME LifecycleAssumption ==
  /\ NumBlocks \in Nat \ {0} /\ Zero \notin Values /\ SelfUpdate \in BOOLEAN
  /\ StaleUpdate \in BOOLEAN /\ MaxCalls \in Nat

VARIABLES
  files,        \* path |-> the contents of its blocks
  wrappers,     \* wrapper |-> [path, kind, nth], collected ones excluded
  held,         \* the wrappers the program refers to
  armed,        \* the wrappers with a live finalizer
  active,       \* _active_finalizers: path |-> the wrapper of its finalizer
  traced,       \* argument's path |-> the result's path in the compiled function
  call,         \* the call in progress, or None
  calls,        \* how many calls began
  left,         \* history: the files that no finalizer is going to remove
  removed       \* history: path |-> how many files of that name were removed

vars == << files, wrappers, held, armed, active, traced, call, calls, left, removed >>

Block == 1 .. NumBlocks
Contents == [Block -> Values \cup {Zero}]
Paths == {Data(n) : n \in Names} \cup {Grad(n) : n \in Names}
Kinds == {"owner", "updated", "view"}

\* A file name stands for different arrays in turn; an array is the n-th of its name.
Arrays == Paths \X (0 .. MaxCalls)
ArrayAt(p) == << p, removed[p] >>
ArrayOf(i) == << wrappers[i].path, wrappers[i].nth >>

(***************************************************************************)
(* A call: the kind of the wrapper it makes (None for a scalar result),    *)
(* the file it reads (None if none) and the one it writes, what it is      *)
(* going to write, the next block (0 before the file is truncated), and    *)
(* for update_ the array it was called on.                                 *)
(***************************************************************************)
Calls ==
  [kind : Kinds \cup {None}, src : Paths \cup {None}, out : Paths, want : Contents,
   at : 0 .. NumBlocks + 1, target : Arrays \cup {None}]

ASSUME NoneAssumption == None \notin Calls \cup Kinds

\* Faulty: a name that may be in use.
AnyName == {Data(n) : n \in Names}

\* What scratch_mkstemp may choose: a name not in use.
Fresh == {Data(n) : n \in Names} \ DOMAIN files

With(f, x, v) == [y \in DOMAIN f \cup {x} |-> IF y = x THEN v ELSE f[y]]
Without(f, x) == [y \in DOMAIN f \ {x} |-> f[y]]
Uniform(v) == [b \in Block |-> v]
Zeros == Uniform(Zero)

Init ==
  /\ files = << >> /\ wrappers = << >> /\ held = {} /\ armed = {}
  /\ active = << >> /\ traced = << >> /\ call = None /\ left = {}
  /\ calls = 0 /\ removed = [p \in Paths |-> 0]
-----------------------------------------------------------------------------
\* Faulty: no finalizer is registered.
OwnNothing(i, p) == UNCHANGED << armed, active >>

\* A finalizer for wrapper i, which removes p.
_own_fresh_file(i, p) == armed' = armed \cup {i} /\ active' = With(active, p, i)

\* Faulty: the finalizer stays.
AdoptNothing(p) == UNCHANGED << armed, active >>

\* Faulty: the finalizer is forgotten and not detached.
AdoptWithoutDetach(p) == active' = Without(active, p) /\ UNCHANGED armed

\* The finalizer registered for p, if any, is detached: p is to stay.
_adopt_as_persistent(p) ==
  /\ active' = Without(active, p)
  /\ armed' = {i \in armed : wrappers[i].path = p => p \notin DOMAIN active \/ active[p] # i}

-----------------------------------------------------------------------------
\* A call begins.
Enter(kind, src, out, want, target) ==
  call' = [kind |-> kind, src |-> src, out |-> out, want |-> want, at |-> 0,
           target |-> target]

\* Another call, when none is in progress and there is room for a wrapper.
Idle ==
  /\ call = None /\ DOMAIN wrappers # Ids
  /\ calls < MaxCalls /\ calls' = calls + 1

\* A new object; which of the ids not in use it gets makes no difference.
NewId == CHOOSE i \in Ids \ DOMAIN wrappers : TRUE

\* scratch_mkstemp leaves an empty file of the name it chose.
Mkstemp(p) == p \in Fresh /\ files' = With(files, p, Zeros)

Holds(p) == IF p \in DOMAIN files THEN files[p] ELSE Zeros

\* v in every block, except those the operand has left empty.
Computed(p, v) == [b \in Block |-> IF Holds(p)[b] = Zero THEN Zero ELSE v]

FromNumpy(v) ==
  /\ Idle
  /\ \E p \in Fresh : Mkstemp(p) /\ Enter("owner", None, p, Uniform(v), None)
  /\ UNCHANGED << wrappers, held, armed, active, traced, left, removed >>

\* A zero cotangent, when JAX needs one outside a trace: a new file, never written.
VspaceZero ==
  /\ Idle
  /\ \E p \in Fresh : /\ Mkstemp(p)
                      /\ wrappers' = With(wrappers, NewId, [path |-> p, kind |-> "owner",
                                                      nth |-> removed[p]])
                      /\ _own_fresh_file(NewId, p)
  /\ held' = held \cup {NewId}
  /\ UNCHANGED << traced, call, left, removed >>

(***************************************************************************)
(* An op outside jit; the file of its result is chosen when the primitive  *)
(* is built.  The result of sum is read back from a file nobody refers to  *)
(* later.                                                                  *)
(***************************************************************************)
EagerOp(x, v, kind) ==
  /\ Idle
  /\ LET src == wrappers[x].path
     IN  \E p \in Fresh : Mkstemp(p) /\ Enter(kind, src, p, Computed(src, v), None)
  /\ UNCHANGED << wrappers, held, armed, active, traced, left, removed >>

(***************************************************************************)
(* A gradient for x goes to the tangent's path.  A cotangent that is a jax *)
(* scalar is written to a file of its own first, which stays.              *)
(***************************************************************************)
EagerBackward(x, v, scalar) ==
  /\ Idle
  /\ IF scalar
     THEN \E p \in Fresh : files' = With(files, p, Uniform(v)) /\ left' = left \cup {p}
     ELSE UNCHANGED << files, left >>
  /\ LET src == wrappers[x].path
     IN  Enter("view", src, Tangent(src), Computed(src, v), None)
  /\ UNCHANGED << wrappers, held, armed, active, traced, removed >>

\* A call of a compiled function; the result's file is chosen by the first one.
JitCall(x, v) ==
  /\ Idle
  /\ LET src == wrappers[x].path
     IN  \/ /\ src \in DOMAIN traced
            /\ Enter("view", src, traced[src], Computed(src, v), None)
            /\ UNCHANGED << files, traced >>
         \/ /\ src \notin DOMAIN traced
            /\ \E p \in Fresh : /\ Mkstemp(p)
                                /\ Enter("view", src, p, Computed(src, v), None)
                                /\ traced' = With(traced, src, p)
  /\ UNCHANGED << wrappers, held, armed, active, left, removed >>

\* An array that a jitted function returns as it came: raise_val wraps its file again.
PassThrough(x) ==
  /\ Idle
  /\ wrappers' = With(wrappers, NewId, [path |-> wrappers[x].path, kind |-> "view",
                                           nth |-> wrappers[x].nth])
  /\ held' = held \cup {NewId}
  /\ UNCHANGED << files, armed, active, traced, call, left, removed >>

\* The array that a wrapper was made for is there, whatever its name stands for now.
Live(i) == ArrayOf(i) = ArrayAt(wrappers[i].path)

\* self.update_(new): what new's file holds now is to be in self's file.
Update(self, new) ==
  /\ Idle
  /\ LET src == wrappers[new].path
         out == wrappers[self].path
     IN  /\ SelfUpdate \/ src # out
         /\ StaleUpdate \/ Live(self) \/ out \notin DOMAIN files
         /\ Enter("updated", src, out, Holds(src), ArrayOf(self))
         /\ _adopt_as_persistent(out)
  /\ UNCHANGED << files, wrappers, held, traced, left, removed >>
-----------------------------------------------------------------------------
\* BlockedArray.create truncates the output, whatever it held.
Create ==
  /\ call # None /\ call.at = 0
  /\ files' = With(files, call.out, Zeros)
  /\ call' = [call EXCEPT !.at = 1]
  /\ left' = IF call.kind = "owner" THEN left ELSE left \cup {call.out}
  /\ UNCHANGED << wrappers, held, armed, active, traced, calls, removed >>

(***************************************************************************)
(* The source is opened when its first block is read, which is after the   *)
(* output has been truncated, and stays readable from then on, also if its *)
(* name is removed.                                                        *)
(***************************************************************************)
Readable == call.at > 1 \/ call.src = None \/ call.src \in DOMAIN files

\* Faulty: the last block is left out.
WriteAllButLast ==
  /\ call # None /\ call.at \in Block /\ Readable
  /\ files' = IF call.at = NumBlocks THEN files
              ELSE [files EXCEPT ![call.out][call.at] = call.want[call.at]]
  /\ call' = [call EXCEPT !.at = call.at + 1]
  /\ UNCHANGED << wrappers, held, armed, active, traced, calls, left, removed >>

\* Faulty: one block more than there are.
WritePastEnd ==
  /\ call # None /\ call.at \in 1 .. NumBlocks + 1 /\ Readable
  /\ files' = [files EXCEPT ![call.out] =
                 [b \in Block |-> IF b = call.at THEN call.want[b] ELSE @[b]]]
  /\ call' = [call EXCEPT !.at = call.at + 1]
  /\ UNCHANGED << wrappers, held, armed, active, traced, calls, left, removed >>

\* _tiled_copy and the loops like it: the next block.
WriteBlock ==
  /\ call # None /\ call.at \in Block /\ Readable
  /\ files' = [files EXCEPT ![call.out][call.at] =
                 IF call.src = call.out THEN Zero ELSE call.want[call.at]]
  /\ call' = [call EXCEPT !.at = call.at + 1]
  /\ UNCHANGED << wrappers, held, armed, active, traced, calls, left, removed >>

\* The result is wrapped; only a file made for this result gets an owner.
Finish ==
  /\ call # None /\ call.at = NumBlocks + 1
  /\ IF call.kind = None THEN UNCHANGED << wrappers, held >>
     ELSE /\ wrappers' = With(wrappers, NewId, [path |-> call.out, kind |-> call.kind,
                                               nth |-> removed[call.out]])
          /\ held' = held \cup {NewId}
  /\ IF call.kind = "owner" THEN _own_fresh_file(NewId, call.out)
     ELSE UNCHANGED << armed, active >>
  /\ call' = None
  /\ UNCHANGED << files, traced, calls, left, removed >>

\* An exception anywhere in a call; its output stays, in whatever state it is.
Raise ==
  /\ call # None
  /\ call' = None
  /\ left' = left \cup ({call.out} \cap DOMAIN files)
  /\ UNCHANGED << files, wrappers, held, armed, active, traced, calls, removed >>
-----------------------------------------------------------------------------
\* The program gives up a reference, between its calls.
Drop(i) ==
  /\ call = None /\ i \in held
  /\ held' = held \ {i}
  /\ UNCHANGED << files, wrappers, armed, active, traced, call, calls, left, removed >>

\* Faulty: the finalizer is gone with the wrapper, and the file stays.
CollectOnly(i) ==
  /\ i \in DOMAIN wrappers \ held
  /\ wrappers' = Without(wrappers, i) /\ armed' = armed \ {i}
  /\ UNCHANGED << files, held, active, traced, call, calls, left, removed >>

(***************************************************************************)
(* A wrapper nobody refers to is collected; _safe_remove ignores a missing *)
(* file.  The dead finalizer's entry in _active_finalizers, which detach   *)
(* would not heed any more, is left out.                                   *)
(***************************************************************************)
Collect(i) ==
  /\ i \in DOMAIN wrappers \ held
  /\ wrappers' = Without(wrappers, i) /\ armed' = armed \ {i}
  /\ IF i \in armed
     THEN /\ files' = Without(files, wrappers[i].path)
          /\ active' = Without(active, wrappers[i].path)
          /\ removed' = [removed EXCEPT ![wrappers[i].path] = @ + 1]
     ELSE UNCHANGED << files, active, removed >>
  /\ UNCHANGED << held, traced, call, calls, left >>

Begin ==
  \/ VspaceZero \/ \E v \in Values : FromNumpy(v)
  \/ \E x \in held, v \in Values :
       EagerOp(x, v, "owner") \/ EagerOp(x, v, None) \/ JitCall(x, v)
         \/ \E scalar \in BOOLEAN : EagerBackward(x, v, scalar)
  \/ \E x, y \in held : Update(x, y)
  \/ \E x \in held : PassThrough(x)

Step == Create \/ WriteBlock \/ Finish

\* The program does nothing more.
Stopped == call = None /\ UNCHANGED vars

Next ==
  \/ Begin \/ Step \/ Raise \/ Stopped
  \/ \E i \in Ids : Drop(i) \/ Collect(i)

(***************************************************************************)
(* Garbage is collected sooner or later, and a call goes on while it can;  *)
(* that the program makes calls or drops references is not promised.       *)
(***************************************************************************)
Spec == Init /\ [][Next]_vars /\ WF_vars(Step) /\ \A i \in Ids : WF_vars(Collect(i))
-----------------------------------------------------------------------------
Writing(p) == call # None /\ call.out = p

(***************************************************************************)
(* Every variable is in a state the program can be in.                     *)
(***************************************************************************)
TypeOK ==
  /\ DOMAIN files \subseteq Paths /\ \A p \in DOMAIN files : files[p] \in Contents
  /\ DOMAIN wrappers \subseteq Ids
  /\ \A i \in DOMAIN wrappers :
       /\ wrappers[i].path \in Paths /\ wrappers[i].kind \in Kinds
       /\ wrappers[i].nth \in 0 .. removed[wrappers[i].path]
  /\ held \subseteq DOMAIN wrappers /\ armed \subseteq DOMAIN wrappers
  /\ DOMAIN active \subseteq Paths /\ \A p \in DOMAIN active : active[p] \in Ids
  /\ DOMAIN traced \subseteq Paths /\ \A p \in DOMAIN traced : traced[p] \in left \/ Writing(traced[p])
  /\ left \subseteq Paths /\ calls \in 0 .. MaxCalls
  /\ removed \in [Paths -> 0 .. calls]
  /\ call # None => call \in Calls /\ DOMAIN wrappers # Ids

(***************************************************************************)
(* No finalizer removes a file that is still needed: a wrapper that owns   *)
(* its file has it for as long as the program holds the wrapper, also when *)
(* update_ has moved on to another wrapper, and a file whose finalizer was *)
(* cancelled stays (test_file_lifecycle.py:50-82, disk_array.py:57-63).    *)
(***************************************************************************)
NeverRemovedUnderfoot ==
  /\ \A i \in held : wrappers[i].kind # "view" => wrappers[i].path \in DOMAIN files
  /\ left \subseteq DOMAIN files

(***************************************************************************)
(* A file has one finalizer at most, and that is the one _active_finalizers*)
(* names, so that update_ can cancel it; files that are to stay have none  *)
(* (disk_array.py:38-54).                                                  *)
(***************************************************************************)
OneRemover ==
  \A i \in armed :
    LET p == wrappers[i].path
    IN  p \in DOMAIN active /\ active[p] = i /\ p \in DOMAIN files \ left

(***************************************************************************)
(* Every file is being written, or will be removed by a finalizer, or is   *)
(* one of those that stay: targets of update_, gradients, results of       *)
(* compiled functions, scalar results, outputs of calls that raised.       *)
(***************************************************************************)
FilesAccounted ==
  \A p \in DOMAIN files : p \in left \/ Writing(p) \/ \E i \in armed : wrappers[i].path = p

(***************************************************************************)
(* update_ leaves in the target what the source held when it was called,   *)
(* "now holding `new_value`'s data" (disk_array.py:213-214), and leaves    *)
(* the source alone.                                                       *)
(***************************************************************************)
HoldsNewValue ==
  call # None /\ call.kind = "updated" =>
    /\ \A b \in Block : b < call.at => files[call.out][b] = call.want[b]
    /\ call.src \in DOMAIN files => files[call.src] = call.want

(***************************************************************************)
(* The handles of the abstract store: what the program holds, gradients    *)
(* and results of compiled functions excepted, which later calls write     *)
(* again.  Owners and results of update_ are strong, and in the store      *)
(* whether their file is there or not; other wrappers are in it until the  *)
(* file they were made for goes.                                           *)
(***************************************************************************)
WrittenAgain(p) == p.grad \/ \E q \in DOMAIN traced : traced[q] = p

Keepers ==
  {i \in held : ~ WrittenAgain(wrappers[i].path) /\ (wrappers[i].kind = "view" => Live(i))}

Kept == {ArrayOf(i) : i \in Keepers}
Updated == IF call # None /\ call.kind = "updated" THEN {call.target} \cap Kept ELSE {}
ValueOf(a) == IF a = ArrayAt(a[1]) /\ a[1] \in DOMAIN files THEN files[a[1]] ELSE None

StoreNames == [i \in Keepers |-> ArrayOf(i)]
StoreStrong == {i \in Keepers : wrappers[i].kind # "view"}
StoreContents == [a \in Kept \ Updated |-> ValueOf(a)]
StorePending == {<< a, call.want >> : a \in Updated}

Store == INSTANCE ArrayStore WITH
  Handles <- Ids, Arrays <- Arrays, Contents <- Contents,
  names <- StoreNames, strong <- StoreStrong, contents <- StoreContents,
  pending <- StorePending

(***************************************************************************)
(* An array keeps its value until an update_ called on it changes it, and  *)
(* then has the new one, through any sequence of calls, collections,       *)
(* exceptions and reused names: files implement the store                  *)
(* (disk_array.py:75-90).                                                  *)
(***************************************************************************)
StoreSpec == Store!Spec

(***************************************************************************)
(* The file of an array whose owner the program has dropped goes, unless   *)
(* update_ has made it permanent meanwhile (disk_array.py:43-49).          *)
(***************************************************************************)
Dropped(p) ==
  /\ p \in DOMAIN files \ left /\ ~ Writing(p)
  /\ \A i \in held : ~ (wrappers[i].kind = "owner" /\ wrappers[i].path = p)

DroppedFilesGo == \A p \in Paths : Dropped(p) ~> (p \notin DOMAIN files \/ p \in left)
=============================================================================
