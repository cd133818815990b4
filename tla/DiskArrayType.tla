---------------------------- MODULE DiskArrayType ----------------------------
(***************************************************************************)
(* The file names of disk arrays.  A DiskArrayType carries the name of the *)
(* file, and the type of its tangent names another file, derived from it   *)
(* (disk_array.py:231-275).                                                *)
(***************************************************************************)

\* The file of an array, and the file of the gradient for it.
Data(name) == [name |-> name, grad |-> FALSE]
Grad(name) == [name |-> name, grad |-> TRUE]

\* DiskArrayType.to_tangent_aval: "<file>.grad", and a .grad file stays itself.
Tangent(path) == Grad(path.name)
=============================================================================
