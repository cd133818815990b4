----------------------------- MODULE ArrayStore -----------------------------
(***************************************************************************)
(* What jask promises of arrays that outlive the call that made them.  A   *)
(* handle names an array for good, and an array has one value, which       *)
(* changes in an update_ through one of its handles and at no other time.  *)
(* A strong handle, the result of an op or of update_, keeps its array;    *)
(* what passes through a compiled function comes back as a weak one, which *)
(* may outlive it.  Arrays have no files here, and names are not used      *)
(* again.  While update_ is under way the program can do nothing else.     *)
(***************************************************************************)
CONSTANTS Handles, Arrays, Contents

VARIABLES
  names,        \* handle |-> the array it names
  strong,       \* the handles that keep their array
  contents,     \* array |-> what it holds, the one under update excepted
  pending       \* {<<array, value>>} while update_ gives it that value, or {}

vars == << names, strong, contents, pending >>

With(f, x, v) == [y \in DOMAIN f \cup {x} |-> IF y = x THEN v ELSE f[y]]
Without(f, X) == [y \in DOMAIN f \ X |-> f[y]]

Named == {names[h] : h \in DOMAIN names}
Quiet == pending = {}

Init == names = << >> /\ strong = {} /\ contents = << >> /\ pending = {}

\* A new array: from_numpy, or the result of an op.
New(h) ==
  /\ Quiet /\ h \notin DOMAIN names
  /\ strong' = strong \cup {h}
  /\ \E a \in Arrays \ Named, c \in Contents :
       names' = With(names, h, a) /\ contents' = With(contents, a, c)
  /\ UNCHANGED pending

\* A compiled function returns an array that it was given.
PassThrough(g, h) ==
  /\ Quiet /\ h \notin DOMAIN names
  /\ names' = With(names, h, names[g])
  /\ UNCHANGED << strong, contents, pending >>

\* update_ is called: the array that h names is to get a value.
Begin(h) ==
  /\ Quiet
  /\ contents' = Without(contents, {names[h]})
  /\ \E c \in Contents : pending' = {<< names[h], c >>}
  /\ UNCHANGED << names, strong >>

\* update_ returns another handle of the array, which now holds what it was to hold.
Update(h, a, c) ==
  /\ << a, c >> \in pending /\ h \notin DOMAIN names
  /\ strong' = strong \cup {h}
  /\ names' = With(names, h, a)
  /\ contents' = With(contents, a, c)
  /\ pending' = {}

\* update_ raises: the array it was to change, and no other, may hold anything.
Spoil(a) ==
  /\ a \in {p[1] : p \in pending}
  /\ pending' = {}
  /\ \E c \in Contents : contents' = With(contents, a, c)
  /\ UNCHANGED << names, strong >>

\* The program gives up a handle; with the last one the array goes.
Forget(h) ==
  /\ Quiet
  /\ strong' = strong \ {h}
  /\ names' = Without(names, {h})
  /\ contents' = [a \in {names[g] : g \in DOMAIN names \ {h}} |-> contents[a]]
  /\ UNCHANGED pending

\* An array that no handle keeps goes, at any time; the weak ones name nothing then.
Lose(a) ==
  /\ \A h \in strong : names[h] # a
  /\ contents' = Without(contents, {a})
  /\ names' = Without(names, {h \in DOMAIN names : names[h] = a})
  /\ UNCHANGED << strong, pending >>

Next ==
  \/ \E h \in Handles :
       \/ New(h)
       \/ \E g \in DOMAIN names : PassThrough(g, h)
       \/ \E p \in pending : Update(h, p[1], p[2])
  \/ \E h \in DOMAIN names : Begin(h) \/ Forget(h)
  \/ \E a \in Named : Spoil(a)
  \/ \E a \in DOMAIN contents : Lose(a)

Spec == Init /\ [][Next]_vars
=============================================================================
