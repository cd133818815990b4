----------------------------- MODULE MCLifecycle -----------------------------
(***************************************************************************)
(* Two file names, so that a name is used again soon after its file went,  *)
(* and four wrappers: an array's owner, a wrapper that passed through a    *)
(* compiled function, the source of an update_ through that, and its       *)
(* result.                                                                 *)
(***************************************************************************)
EXTENDS DiskArrayLifecycle

CONSTANTS v1, v2

MCValues == {v1, v2}
=============================================================================
