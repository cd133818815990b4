-------------------------------- MODULE Budget --------------------------------
(***************************************************************************)
(* The process-wide configuration of jask (src/jask/base/base_page.py):    *)
(* set_memory_budget, get_config, the check for RAM-backed scratch         *)
(* directories, and the page shapes the ops derive from the budget, in an  *)
(* environment whose free memory and mounts change between calls.          *)
(*                                                                         *)
(* A path is the sequence of its components, absolute and without "..".    *)
(* The mount table lists the mounts in the order they were made; a mount   *)
(* covers its mountpoint and everything below it that is not covered by a  *)
(* later mount.  A symbolic link leads from one path to another.           *)
(***************************************************************************)
EXTENDS PageShape, FiniteSets, SequencesExt

CONSTANTS
  None,
  Budgets,          \* values of max_memory the program passes: [tenths, unit], where
                    \* unit is "" for an integer and for a string without a suffix
  Available,        \* amounts of memory psutil may report as available
  Dirs,             \* scratch directories the program passes, None to leave it out
  Cwd,              \* the working directory
  FirstMounts,      \* the mount table when the program starts
  NewMounts,        \* mounts that may be added later: records [point, fstype]
  Links,            \* symbolic links, as a function from path to path
  Requests,         \* calls of ops: [shape, itemsize, num_inputs, phase]
  MaxSteps          \* bound on the number of steps

Mounts == [point : Seq(STRING), fstype : STRING]

\* Negative budgets are left out; whole bytes have no suffix.
ASSUME MemoryAssumption ==
  Available \subseteq Nat /\ \A b \in Budgets : b \in [tenths : Nat, unit : STRING]
ASSUME MountsAssumption == FirstMounts \in Seq(Mounts) /\ NewMounts \subseteq Mounts
\* Arrays of one to three dimensions without empty ones, items smaller than an OS page.
ASSUME RequestsAssumption ==
  \A r \in Requests :
    /\ r.shape \in Seq(Nat \ {0}) /\ Len(r.shape) \in 1 .. 3
    /\ r.itemsize \in 1 .. OS_PAGE_SIZE /\ r.num_inputs \in Nat
ASSUME StepsAssumption == MaxSteps \in Nat
ASSUME PathsAssumption == \A d \in {Cwd} \cup (Dirs \ {None}) : d \in Seq(STRING)

_RAM_BACKED_FSTYPES == {"tmpfs", "ramfs"}

VARIABLES
  config,           \* _config: None or [max_memory, scratch_dir]
  made,             \* the directories makedirs created
  available, mounts,
  granted,          \* history: the latest call that was not refused, or None
  last,             \* the latest answer of derive_page_shape, or None
  steps

vars == << config, made, available, mounts, granted, last, steps >>

Covers(mount, path) == IsPrefix(mount.point, path)

\* Faulty: the first entry that covers the path decides.
first_match(path) ==
  \E m \in DOMAIN mounts :
    /\ Covers(mounts[m], path)
    /\ mounts[m].fstype \in _RAM_BACKED_FSTYPES
    /\ \A j \in DOMAIN mounts : Covers(mounts[j], path) => j >= m

(***************************************************************************)
(* _is_ram_backed: the entry with the longest mountpoint; of two that are  *)
(* equally long the first one in the table stays the best match.           *)
(***************************************************************************)
_is_ram_backed(path) ==
  \E m \in DOMAIN mounts :
    /\ Covers(mounts[m], path)
    /\ mounts[m].fstype \in _RAM_BACKED_FSTYPES
    /\ \A j \in DOMAIN mounts :
         Covers(mounts[j], path) =>
           \/ Len(mounts[j].point) < Len(mounts[m].point)
           \/ Len(mounts[j].point) = Len(mounts[m].point) /\ j >= m

Init ==
  /\ config = None
  /\ made = {}
  /\ available \in Available
  /\ mounts = FirstMounts
  /\ granted = None
  /\ last = None
  /\ steps = 0

\* Where the file system really puts a file of that path: links are followed, and the
\* latest mount over the path is the one in effect.
Resolved(path) ==
  IF \E p \in DOMAIN Links : IsPrefix(p, path)
    THEN LET p == CHOOSE q \in DOMAIN Links : IsPrefix(q, path)
         IN  Links[p] \o SubSeq(path, Len(p) + 1, Len(path))
    ELSE path
InRam(path) ==
  \E m \in DOMAIN mounts :
    /\ Covers(mounts[m], Resolved(path))
    /\ mounts[m].fstype \in _RAM_BACKED_FSTYPES
    /\ \A j \in DOMAIN mounts : Covers(mounts[j], Resolved(path)) => j <= m

_default_scratch_dir == Append(Cwd, ".jask_scratch")

Directory(scratch_dir) == IF scratch_dir = None THEN _default_scratch_dir ELSE scratch_dir
Directories == {Directory(d) : d \in Dirs}

(***************************************************************************)
(* A call as granted remembers it: its arguments, the memory available at  *)
(* the time, and whether the directory was in RAM then.                    *)
(***************************************************************************)
Grants ==
  [max_memory : Budgets, scratch_dir : Dirs, allowed : BOOLEAN,
   available : Available, in_ram : BOOLEAN]
Grant(max_memory, scratch_dir, allow_tmpfs) ==
  [max_memory |-> max_memory, scratch_dir |-> scratch_dir, allowed |-> allow_tmpfs,
   available |-> available, in_ram |-> InRam(Directory(scratch_dir))]

ASSUME NoneAssumption ==
  /\ None \notin Grants
  /\ None \notin [max_memory : Nat, scratch_dir : Directories]

\* The bytes each suffix stands for.
MemorySuffixes == {"B", "KB", "MB", "GB", "TB"}
_UNITS(suffix) ==
  CASE suffix = "B" -> 1
    [] suffix = "KB" -> 1024
    [] suffix = "MB" -> 1024 * 1024
    [] suffix = "GB" -> 1024 * 1024 * 1024
    [] suffix = "TB" -> 1024 * 1024 * 1024 * 1024

\* Otherwise int() or float() raises ValueError, before anything is done.
Parsable(m) == m.unit \in MemorySuffixes \/ (m.unit = "" /\ m.tenths % 10 = 0)

\* The suffix is the longest that fits, "KB" and not "B".
_parse_memory(m) ==
  IF m.unit = "" THEN m.tenths \div 10 ELSE (m.tenths * _UNITS(m.unit)) \div 10

\* max_memory, or 80% of the memory there is.
Clamped(max_memory, memory) == Least(_parse_memory(max_memory), (8 * memory) \div 10)
EffectiveBytes(max_memory) == Clamped(max_memory, available)

\* Faulty: the old configuration is dropped before the directory is checked.
set_memory_budget_dropping(max_memory, scratch_dir, allow_tmpfs) ==
  /\ Parsable(max_memory)
  /\ LET dir == Directory(scratch_dir)
     IN  /\ IF _is_ram_backed(dir) /\ ~allow_tmpfs
              THEN config' = None /\ UNCHANGED granted
              ELSE /\ config' = [max_memory |-> EffectiveBytes(max_memory),
                                 scratch_dir |-> dir]
                   /\ granted' = Grant(max_memory, scratch_dir, allow_tmpfs)
         /\ made' = made \cup {dir}
  /\ UNCHANGED << available, mounts, last >>

\* Faulty: the budget is replaced before the directory is checked.
set_memory_budget_piecewise(max_memory, scratch_dir, allow_tmpfs) ==
  /\ Parsable(max_memory)
  /\ LET dir == Directory(scratch_dir)
     IN  /\ IF _is_ram_backed(dir) /\ ~allow_tmpfs
              THEN /\ UNCHANGED granted
                   /\ config' = IF config = None THEN None
                                ELSE [config EXCEPT !.max_memory = EffectiveBytes(max_memory)]
              ELSE /\ config' = [max_memory |-> EffectiveBytes(max_memory),
                                 scratch_dir |-> dir]
                   /\ granted' = Grant(max_memory, scratch_dir, allow_tmpfs)
         /\ made' = made \cup {dir}
  /\ UNCHANGED << available, mounts, last >>

(***************************************************************************)
(* set_memory_budget: the directory is made, and then the configuration is *)
(* replaced as a whole, or left alone when the directory is refused        *)
(* (RuntimeError).                                                         *)
(***************************************************************************)
set_memory_budget(max_memory, scratch_dir, allow_tmpfs) ==
  /\ Parsable(max_memory)
  /\ LET dir == Directory(scratch_dir)
     IN  /\ IF _is_ram_backed(dir) /\ ~allow_tmpfs
              THEN UNCHANGED << config, granted >>
              ELSE /\ config' = [max_memory |-> EffectiveBytes(max_memory),
                                 scratch_dir |-> dir]
                   /\ granted' = Grant(max_memory, scratch_dir, allow_tmpfs)
         /\ made' = made \cup {dir}
  /\ UNCHANGED << available, mounts, last >>

\* An op derives a page shape; get_config raises when nothing is configured.
DerivePageShape(r) ==
  /\ config # None
  /\ last' = [request |-> r, max_memory |-> config.max_memory,
              page |-> derive_page_shape(config.max_memory, r.itemsize, r.shape,
                                         r.num_inputs, r.phase)]
  /\ UNCHANGED << config, made, available, mounts, granted >>

\* Other programs take or free memory, or mount a file system.
MemoryChanges ==
  /\ available' \in Available \ {available}
  /\ UNCHANGED << config, made, mounts, granted, last >>

Mount(m) ==
  /\ m \notin {mounts[j] : j \in DOMAIN mounts}
  /\ mounts' = Append(mounts, m)
  /\ UNCHANGED << config, made, available, granted, last >>

Next ==
  /\ steps < MaxSteps /\ steps' = steps + 1
  /\ \/ \E b \in Budgets, d \in Dirs, allow \in BOOLEAN : set_memory_budget(b, d, allow)
     \/ \E r \in Requests : DerivePageShape(r)
     \/ MemoryChanges
     \/ \E m \in NewMounts : Mount(m)

Spec == Init /\ [][Next]_vars
-----------------------------------------------------------------------------
(***************************************************************************)
(* Every variable is in its range.                                         *)
(***************************************************************************)
TypeOK ==
  /\ config # None => config.max_memory \in Nat /\ config.scratch_dir \in made
  /\ made \subseteq Directories
  /\ available \in Available
  /\ mounts \in Seq(Mounts)
  /\ granted # None => granted \in Grants
  /\ config = None <=> granted = None
  /\ last # None => last.request \in Requests
  /\ steps \in 0 .. MaxSteps

(***************************************************************************)
(* The configuration is that of one call, the latest that was not refused, *)
(* whatever calls were refused since and however the memory has changed:   *)
(* its directory, and its budget under the clamp "taken at the moment this *)
(* function is called" (base_page.py:140-147, 189).                        *)
(***************************************************************************)
ConfiguredByOneCall ==
  config # None =>
    /\ config.max_memory = Clamped(granted.max_memory, granted.available)
    /\ config.scratch_dir = Directory(granted.scratch_dir)

(***************************************************************************)
(* A directory that was in RAM when it was configured was asked for with   *)
(* allow_tmpfs: "scratch_dir is checked against RAM-backed filesystems and *)
(* rejected by default" (base_page.py:149-153).  The check looks at mount  *)
(* points only, so this is for a table without hidden mounts or links.     *)
(***************************************************************************)
ScratchOnDisk == granted # None /\ granted.in_ram => granted.allowed

Elements(page) ==
  CASE Len(page) = 1 -> page[1]
    [] Len(page) = 2 -> page[1] * page[2]
    [] Len(page) = 3 -> page[1] * page[2] * page[3]

Peak == _peak_blocks(last.request.num_inputs, last.request.phase)
BlockBytes == Elements(last.page) * last.request.itemsize

(***************************************************************************)
(* The blocks budgeted for fit into the budget up to the rounding of the   *)
(* block's side, whenever the budget has at least one OS page per block:   *)
(* exactly for vectors, and with at most `side` elements too many per      *)
(* block for matrices (derive_page_shape, base_page.py:241-260).           *)
(***************************************************************************)
FitsUpToRounding ==
  last # None /\ last.max_memory >= Peak * OS_PAGE_SIZE =>
    LET slack == CASE Len(last.page) = 1 -> 0
                   [] Len(last.page) = 2 -> Larger(last.page[1], last.page[2])
                   [] Len(last.page) = 3 -> 2 * Power(Larger(last.page[1],
                                                 Larger(last.page[2], last.page[3])), 2)
    IN  Peak * (BlockBytes - slack * last.request.itemsize) <= last.max_memory

(***************************************************************************)
(* The docstring (base_page.py:249-250): "a block shape sized so that      *)
(* _peak_blocks blocks of it fit in config.max_memory".                    *)
(***************************************************************************)
FitsBudget ==
  last # None /\ last.max_memory >= Peak * OS_PAGE_SIZE =>
    Peak * BlockBytes <= last.max_memory

(***************************************************************************)
(* Arrays of one call agree where they meet: an extent two of them share   *)
(* is cut into the same blocks, for matmul counts its k_blocks on a's page *)
(* and uses them on b's (matmul.py:45-51), and out_idx names blocks of the *)
(* operands as well as of the output.                                      *)
(***************************************************************************)
OperandsMeet ==
  last # None =>
    \A q \in Requests :
      (/\ Len(q.shape) = Len(last.request.shape)
       /\ q.num_inputs = last.request.num_inputs /\ q.phase = last.request.phase
       /\ q.itemsize = last.request.itemsize) =>
        \A d \in DOMAIN last.page, e \in DOMAIN q.shape :
          last.request.shape[d] = q.shape[e] =>
            last.page[d] = derive_page_shape(last.max_memory, q.itemsize, q.shape,
                                             q.num_inputs, q.phase)[e]
=============================================================================
