# jask in TLA+

jask runs JAX computations on arrays that live in files.  An op reads its
operands block by block, computes with JAX, and writes its result block by
block; `jax.grad` and `jax.jit` work on the arrays through hi-primitives whose
real work happens in `io_callback`s, and Python's garbage collector removes the
files of arrays nobody holds any more.  This directory models that machinery,
checks it with TLC and proves the central part with TLAPS.  Paths below are
relative to the repository root; `base/` and `linalg/` are in `jask/`.

## 1. Inventory

| Component | State | Operations | What makes it correct |
|---|---|---|---|
| Block geometry (`base/disk_array.py` 370-379) | none | `block_grid`, `_slice_for` | the blocks partition the array, also at ragged edges |
| Block storage (`BlockedArray`, 349-397) | the file of an array | `create` (truncates, zeros), `read_block`, `write_block` | a block reads back what was last written to it |
| Block reader (`base/utils.py`), `IOCost` | last index and block per operand; a page tally | `read_one` | a reused block is the one asked for; one page charged per transfer |
| Ops (`linalg/*.py`) | `k_blocks`, `axes`, the block list of `Sum` | `index_map`, `output_shape`, `forward_block`, `combine`, `backward_block` | blockwise results equal the whole-array definition and its derivative |
| Forward loop (`base_algo.py` 51-107) | locals of two frames, output file | `run_forward` | every tile is the fold of its groups; memory does not grow with K |
| Backward loop (109-171, 246-322) | locals, one gradient file per operand at `<file>.grad` | `run_backward` | complete, unduplicated gradients; operands untouched; retry works |
| Page shapes (`base_page.py` 53-59, 220-260) | none | `_peak_blocks`, `derive_page_shape` | the blocks budgeted for fit; operands of a call are cut alike |
| Configuration (`base_page.py` 62-207) | `_config` | `set_memory_budget` (with `_parse_memory`, `_default_scratch_dir`), `get_config` | replaced as a whole or not at all; scratch not in RAM unless asked |
| File ownership (`disk_array.py` 31-63; `base_page.py` 210-217) | `_active_finalizers`, files, the names in use | `scratch_mkstemp`, `from_numpy`, `_own_fresh_file`, `_adopt_as_persistent`, collection | no live array loses its file; unreachable files go; an array keeps its value whatever names are used again |
| In-place update (425-484) | the file of the target | `update_` | same identity, new contents, nobody still reads the old ones |
| JAX integration (231-327; `base_algo.py` 177-461) | types with file names, markers, residuals | `expand` eager and traced, `vjp_*`, `raise_val`, `vspace_*` | callbacks run in an order that gives the values native JAX would give |
| Scalar multiplication (`linalg/mul.py` 55-202) | result and gradient files | two single-pass loops | as the ops; the scalar's gradient is a reduction |
| `materialize` (`linalg/materialize.py`) | gradient file | one read, one write | as the ops |
| `CustomOp` | none | none implemented | an interface nothing implements |

How they interact.  An op call derives page shapes from the configuration,
builds `BlockedArray` views of its operands' files, and runs one loop of
`OOCAlgorithm`; the loop uses a reader of its own, the op's block functions and
the output file.  Eagerly this happens at once; under tracing it happens in a
callback whose only link to other callbacks is a dummy scalar (the marker).
Forward results have fresh paths chosen when the op is traced; gradients have a
path derived from the operand's; `update_` writes into an existing path.  So
files are state shared between calls, and the loops share nothing else.

What is hard: blocks kept alive by Python names while others are loaded;
read-modify-write accumulation over tiles; a reader cache keyed by index alone;
exceptions between any two statements, with files that outlive them; gradient
paths that later calls use again; callbacks without an order of their own;
garbage collection deleting files; rounding in the page arithmetic.  The list,
line by line, is under "hazards" in `PROJECT.json`.

## 2. Modules

    BlockGeometry <- BlockParallelOps <- BlockParallelOps_proofs
                     BlockCounts <- BlockParallelOps_proofs
    BlockReader   <- OOCForward, OOCBackward
                     OOCForward  + BlockParallelOps <- ForwardOps  <- MCForward
                     OOCBackward + BlockParallelOps <- BackwardOps <- MCBackward
                     ForwardOps  + BlockParallelOps_proofs <- OOCForward_proofs
                     BackwardOps + BlockParallelOps_proofs <- OOCBackward_proofs
    PageShape     <- Budget                         <- MCBudget, Budget_proofs
    DiskArrayType <- OOCBackward
    DiskArrayType <- HiPrimitives <- NativeValues
                     HiPrimitives <- JitDataflow (implements NativeValues)
                                     JitDataflow    <- MCDataflow, JitDataflow_proofs
    DiskArrayType <- DiskArrayLifecycle (implements ArrayStore) <- MCLifecycle,
                     DiskArrayLifecycle_proofs <- DiskArrayRefinement_proofs

**BlockGeometry** (pure).  The block grid, slices and cells of an array.

**BlockParallelOps** (pure).  The methods of each op, one operator per method.
Arithmetic is symbolic: a cell's value is the set of its terms, a term the
tuple of input cells it combines.  A missing, misplaced or doubled contribution
changes the set, where two numbers could agree by accident.  Signs and factors
are not tracked, so `add` also stands for `sub`, and the 2 of `square`'s
derivative is outside the model.  `OutputTerms` and `GradientTerms` are the
reference: the same ops on whole arrays, without blocks.

**BlockReader**.  `_ReusingBlockReader.read_one` as two actions, reuse and
fetch, and the charge to `IOCost`.  The two loops extend it.

**OOCForward**.  `run_forward` with `_compute_output_block`.  One call: `pc`,
the tile `cur` and the group `k`; the names of the frames (`building`, the
list comprehension in progress; `blocks_k`, `partial`, `acc`, and
`run_forward`'s own `acc`, called `result`); `temp`, a result that has been
computed and not been bound yet; the output file.  An action is one statement,
or half of an assignment where the right-hand side exists before the old value
of the name is released.  Device arrays are values that say what is in them, so
that `Live` is the set of arrays alive.  A call is any record with tiles and
groups: the module does not depend on the ops.

| Action | `base_algo.py` |
|---|---|
| `AllocateOutput` | 61, 70-83 |
| `ReadReused`, `ReadFetched`, `BindBlocks` | 96-98 with `utils.py` 29-36 |
| `ForwardBlock`, `BindFirst`, `BindPartial` | 99-100 |
| `Combine`, `BindAcc` | 100 |
| `WriteBlock` | 64-66, `write_block` |
| `Raise` | an exception in any of them |

**ForwardOps**.  The two together: calls of an op on operands it accepts
(`OpCall`, with `Accepts` from the docstrings and the `ValueError` of `dot`), and
`ResultMatchesReference`, which compares the file with the reference.

**OOCBackward**.  `run_backward` as `HiOpBackward.expand` calls it.  Here
several calls follow each other, because the files are shared: `files` maps a
path to blocks, a gradient's path is its operand's with the `.grad` mark
(`Tangent`, which leaves a marked path alone as the code does).  `before` is a
history variable: the files as the call found them.  A contribution records the
call, operand, tile and input blocks it was computed from, and whether these
held what `before` says (`faithful`), so that a gradient computed from
overwritten data is told apart from a correct one.

**BackwardOps**.  The two together: calls of an op on operands it accepts
(`OpCall`: gradients are cut as the operands are, and one file holds arrays of one
shape), and `GradientMatchesReference`, which compares the gradient files with the
derivative of the whole-array op.

**PageShape** (pure) and **Budget**.  The page arithmetic (with `round` of the
N-th root as the integer nearest to the real root; `e ** (1 / ndim)` is taken
as exact), and the configuration as a state machine.  The environment changes
the available memory and mounts file systems.  `Resolved` and `InRam` say what
the kernel does, `_is_ram_backed` what the code thinks it does.  A budget is
a number (in tenths) and a unit; one that does not parse raises before anything
is done.

**HiPrimitives** (pure).  What each primitive leaves behind when a function is
traced: one callback, with the values it takes, the files it reads and the files
it writes.  One operator per primitive (`HiOpGenerated`, `HiOpBackward`,
`HiScalarMul`, `HiScalarMulBackward`, `HiUpdate`, `HiMaterialize`,
`HiMaterializeBackward`), and `Mul`, `Vjp` and `vspace_add`, which choose between
them.  A traced value is a file name and a marker, as a
`DiskArray` with its `_lo_tracer` is.  `RaceFree` says when markers are order
enough: every other write to a file a callback reads comes before its operand or
after the callback, and nothing overwrites what is returned.  `Precedes` is the
order the markers give, stated through closed sets so that no recursion is
needed.

**NativeValues**.  The abstract specification: a call evaluates each op once, on
values, operands first.  There are no files.

**JitDataflow**.  The same with files.  A callback goes through `Start` (its
markers are there; `create` truncates the outputs), `Load` (operands read from
files), `Store` (results into files, marker returned); steps of different
callbacks interleave.  `Call` and `Return` are JAX's, `Raise` an exception in a
callback.  `computed` is a history of results, and the refinement maps it to
the variable of that name in `NativeValues`.  The block loops of the other
modules run inside `Load` to `Store`: at this level a file is read and written as
a whole, because an interleaving that shows half a write has a neighbour that
shows none of it.

| Action | Code |
|---|---|
| `Start` | the markers passed to `io_callback` (`base_algo.py` 316-317, 415), `BlockedArray.create` |
| `Load`, `Store` | `run` in `base_algo.py` 286-314, 390-410; `mul.py` 119-128, 178-181; `materialize.py` 45-51, 78-79; `disk_array.py` 469-471 |
| `Return` | `jax.jit` waits for its callbacks (`disk_array.py` 320-322) |
| `Raise` | a callback raises; the others are dropped |

**MCDataflow** writes its compiled functions the way a user does.  The forward
callbacks are listed; the backward ones are made by `Backward`, which goes
through them from the last to the first as `jax.grad` does: a callback whose
result has a cotangent is followed by `Vjp` of it, and a second cotangent for the
same value is added with `vspace_add`.

**ArrayStore**.  The abstract specification of arrays that outlive the call that
made them: handles name arrays, and an array has one value.  `Begin` makes one array
the pending one; it then gets the value it was to get (`Update`) or, if `update_`
raises, any value (`Spoil`); no other step changes any array.  A strong handle keeps its
array.  A weak one does not: its array may go (`Lose`), and the handle then names
nothing.  There are no files, and names are not used again.

**DiskArrayLifecycle**.  The same with files, wrappers (`DiskArray` objects) and
finalizers.  One call runs at a time; it chooses or finds its output file, may be
interrupted by an exception between any two blocks, and at its end makes a wrapper
of one of three kinds: `owner` (it has a finalizer), `updated` (the result of
`update_`) and `view` (gradients, results of compiled functions, arrays passed
through).  Between calls the program may `Drop` references; a wrapper it no longer
refers to may be collected at any later moment, also in the middle of a call.  Names
of removed files are used again.  Two variables are history: `left`, the files that are
to stay, and `removed`, how many files of a name were removed.  An array is not its
file name but the n-th array of that name (`ArrayAt`): a wrapper remembers in `nth`
which one it was made for (`ArrayOf`), a call of `update_` in `target` which one it was
called on.  The code knows only names, so a wrapper whose array is gone reads and writes
whatever has the name.

The refinement maps every owner and result of `update_` the program holds to a strong
handle of `ArrayStore`, whether its file is there or not, and every array passed through
a compiled function to a weak handle until the file goes.  The array an `update_` was
called on is the pending one until the call ends.  Left out of the map are gradients and
results of compiled functions: later calls write them again, which is what
`dataflow_recalled` is about.

Two constants say what the program does not do.  `SelfUpdate = FALSE`: it does not call
`a.update_(a)` (the run `self_update` does).  `StaleUpdate = FALSE`: it does not call
`update_` through a wrapper whose array is gone while another array has the name.  The
code would overwrite that array: with `TRUE` and `MaxCalls = 5` (two arrays of one name,
a passed-through wrapper of the first, a source, the `update_`) TLC finds `StoreSpec`
violated within seconds.  The docs say only that the file goes with the wrapper that owns it
(`disk_array.py:38-49`), so this is a condition of the store and not a run.

| Action | Code |
|---|---|
| `FromNumpy`, `VspaceZero` | `disk_array.py` 122-153, 277-286 |
| `EagerOp`, `EagerBackward` | the branches without tracers, `base_algo.py` 364-385, 255-281 (`mul.py` 103-115, 164-174 alike) |
| `JitCall`, `PassThrough` | a compiled function's result, `base_algo.py` 387-424, and `raise_val`, `disk_array.py` 263-264 |
| `Update` | `HiUpdate`: `_adopt_as_persistent`, then `_tiled_copy`, `disk_array.py` 436-484 |
| `Create`, `WriteBlock`, `Finish` | `BlockedArray.create`, the loops over blocks (`_tiled_copy`, 425-433), the wrapper at the end |
| `Raise` | an exception; the output file stays as it is |
| `Collect` | the finalizer, `_safe_remove`, 31-35 |

**MC modules** give the calls, files, mounts and requests for TLC, and the
properties that compare with the reference definitions.

## 3. Runs

| Run | Shows |
|---|---|
| `forward` | a tile is untouched or the complete in-order fold of its groups, whatever statement raised (`OutputCorrect`); the reader's cache is right (`ReaderCoherent`); at most 2n+3 blocks alive (`ResidentBounded`, reached); the finished file equals the whole-array result cell by cell (`ResultMatchesReference`); the I/O tally is tiles plus index changes (`TallyIsIndexChanges`); the call ends |
| `backward` | after any sequence of returning and raising calls, a returned gradient has exactly its contributions, all of this call and computed from this call's inputs (`GradCorrect`); none is added twice (`AccumulateOnce`); operands and `d_out` are not written (`InputsPreserved`); the cache agrees with the files (`ReaderCoherent`); at most 3n+2 blocks alive; gradients equal the derivative of the whole-array op (`GradientMatchesReference`); every call ends |
| `budget` | the configuration has the directory and the clamped budget of one call, the latest accepted one, whatever was refused or has changed since (`ConfiguredByOneCall`); a RAM-backed directory is in force only if it was allowed (`ScratchOnDisk`); blocks exceed the budget by no more than the rounding of the side (`FitsUpToRounding`); arrays of one call are cut alike where they share an extent (`OperandsMeet`) |
| `dataflow` | every call implements native evaluation, in every order of the callbacks (`NativeSpec`, a refinement); the files of returned arrays are intact (`ReturnedIntact`); calls end (`CallCompletes`) |
| `lifecycle` | the file of an owner or of a result of `update_` is there as long as the program holds it, and files that are to stay stay (`NeverRemovedUnderfoot`); a file has at most one armed finalizer, which `update_` can find (`OneRemover`); no file is unaccounted for (`FilesAccounted`), and dropped ones go (`DroppedFilesGo`); `update_` copies what the source held, block by block (`HoldsNewValue`); an array changes in an `update_` called on it and in no other step, whatever is collected, raised or named again, and an `update_` that raises spoils no other array (`StoreSpec`, a refinement) |
| `self_update` | violated: `update_` leaves the source's data in the target, when both are the same file |
| `dataflow_unordered` | violated: the markers order every real dependency, for `update_` in one jit with a loss whose gradient does not depend on its value |
| `dataflow_recalled` | violated: a result behaves like a `jax.Array`, when the compiled function is called again |
| `forward_peak` | violated: the documented n+2 resident blocks |
| `aliasing` | violated: an operand is not written, when the operand is a `.grad` file |
| `budget_fits` | violated: `_peak_blocks` blocks fit in `max_memory` |
| `scratch_links` | violated: a RAM-backed scratch directory is refused, when it is reached through a link |

The violations are disagreements between the code and what a docstring says of
it; `PROJECT.json` quotes the lines.  Two of them have a passing counterpart
with the bound that does hold (`ResidentBounded`, `FitsUpToRounding`), and
`backward`, `budget` and `lifecycle` check the violated properties of `aliasing`,
`scratch_links` and `self_update` where operands are ordinary arrays, no links
exist and `update_` is given another file.

### Bounds

* `forward`: nine calls, one per op and situation: ragged edges in one and two
  dimensions, a block larger than the array, a batch dimension, K from 1 to 4,
  several tiles per row and column, an axes permutation of order three.  K > 1
  with several tiles is where accumulators and the reader can go wrong; two
  blocks per dimension with a ragged last one exhibit every case of the slice
  arithmetic.  The proofs remove these bounds.
* `backward`: eight calls, `MaxRuns = 2` consecutive ones.  Two suffice for a
  retry, for a second op on the same operand's path and for a chain in which
  one call's gradient is the next call's `d_out` (`transpose` then `mul`/`dot`
  on `a`); a third call meets no state the second did not.  The proofs remove these
  bounds.
* `budget`: `MaxSteps = 4` steps, `OS_PAGE_SIZE = 64`.  The arithmetic is the
  code's with a smaller page; budgets lie below, at and above one page per
  block, with roots rounded up and down and exact.  A counterexample to one of
  the properties needs a mount, a call and a derivation: three steps.  The
  states at the bound are the only ones without a successor, so this run does
  not check for deadlock.
* `lifecycle`: two names, four wrappers, two blocks, two values, four calls.  A
  name is used again after one collection.  Four calls and four wrappers are an
  array, another, the first one passed through a compiled function, and an `update_`
  through that wrapper, with the owner still held or collected at any point.  Four calls
  are also an array, a wrapper that outlives it, the next array of its name, and an op or
  a compiled function called on the stale wrapper.  The proofs remove these bounds.
  Two blocks tell a copy half
  done from one done and one not begun.  Two reductions: a new wrapper takes
  the first free id (ids are interchangeable), and an op reads one operand (the
  others are read alike).
* `dataflow`: two calls of five functions in any order, on four files and two
  scalars: a training step (forward, loss, backward, scaling, addition, update),
  the same with a loss in memory, gradients of a scalar multiplication, a plain
  scaling, the gradients of `src/example.py`.  Two calls let the second find every file the first left, complete or
  abandoned.  The functions have at most eleven callbacks; between them they use
  every primitive.  An `ASSUME` of `MCDataflow` has TLC confirm which functions
  are `RaceFree`, and that `UsedTwice`, a loss that uses an array in two ops, is not:
  both gradients have the same file.  The proofs remove these bounds.

### Fairness

The loops are sequential Python: while a loop has a next statement it executes
it.  `WF_vars(Step)` says no more than that.  `Raise` and, in `OOCBackward`,
`Begin` are in `Next` without fairness: nothing promises an exception or a next
call.  In `JitDataflow`, `WF_vars(Step)` says that JAX runs some callback while one
can run; every callback has three steps, so no stronger fairness is needed.  In
`DiskArrayLifecycle` a call goes on while it can (`WF_vars(Step)`), and a wrapper
nobody refers to is collected sooner or later (`WF_vars(Collect(i))`: CPython
counts references, and `gc` runs for cycles); no call, exception or `Drop` is
promised.  A call that cannot open its source goes on with `Raise` only, and that
it does is not promised either: no liveness property depends on it.
`Stopped` lets a finished call stutter, so that the runs detect real
deadlocks.  `Budget` states no liveness.

## 4. Proofs

`OOCForward_proofs` proves, for every set of well-formed calls (any op, number
of operands n >= 1, tiles without repetition, groups that name one index per
operand; `CallsAssumption`) and any `None` that is none of the blocks
(`NoneAssumption`):

* `TypeCorrect`, `ReaderIsCoherent`, `ForwardCorrect` (`OutputCorrect`),
  `ForwardResident` (`ResidentBounded`), `TallyIsExact` (`TallyIsIndexChanges`).

`OutputCorrect` is not inductive: it says nothing of a tile in progress.
`IInv` adds to it, per program point, what the names hold.  `ListInv`: the
comprehension is a prefix of the group asked for.  `FoldInv`: `acc` is the fold
of the first k-1 groups (k after `Combine`), `partial` and `temp` the current
group's result, and `acc` is `None` at the first group, which is why the `acc is
None` test of the code may decide between binding and combining.  `OutInv`:
exactly the tiles before `cur` are written.  `ReaderCoherent` makes a reused
block as good as a fetched one.  The bound on live blocks needs one more
invariant on top, `HeldInv`: the comprehension repeats the reader's blocks, and
so does `blocks_k` whenever an unbound result exists; then `Live` is covered by
two lots of n blocks and three names or one lot and four, and the bound follows
from cardinalities of images and unions (`BlockCounts`).  The tally needs two:
`LastInv`, the reader remembers what the loops asked for last at every position, and
`TallyInv`, the pages charged are the blocks written and the reads passed so far
whose index changed.

For calls of the ops themselves (`OpCallsAssumption`, which TLC confirms of the
calls it runs; the operands have any number of dimensions, any extents from 1 and
any page side) two more theorems tie the loop to the arrays:

* `OpCallsAreWellFormed`: such a call is `WellFormed`, so what the theorems above
  assume of `block_grid` and `index_map` is what the code delivers;
* `ForwardMatchesReference` (`ResultMatchesReference`): the finished file holds the
  result of the whole-array definition, cell by cell.

They follow from `ForwardCorrect` and three results of `BlockParallelOps_proofs`:

1. `GridLists`: `block_grid` lists every block once.  The strides are a mixed-radix
   number system: `DigitsDiffer` says that a position in the grid is determined by
   its digits, `DigitsOccur` that all digits occur.  The strides are
   defined by recursion over the dimensions, and the proofs use their equation only;
   where induction is called for they take the least counterexample (`LeastNumber`).
2. `HomeCovers`: a cell lies in one block and in no other, the quotient of its
   coordinates by the page (`Home`), also at ragged edges.
3. `AcceptedSound`: for every output cell and the block it lies in, the blocks
   `index_map` lists fit each other and the tile, and the results of `forward_block`
   are disjoint and together the terms of the reference.  One lemma per kind of op:
   for `sum` it is the partition of the input, for `transpose` that the index map
   inverts the permutation, and for `dot` that the blocks of the contracted
   dimension split it (`DimensionSplit`), which is where the rounding up in
   `k_blocks` is needed.

`OOCBackward_proofs` proves, for every set of well-formed calls (as above; the
groups of a tile differ, and operands in one file are cut alike), in any order and
number, each returning or raising anywhere:

* `TypeCorrect`, `BackwardResident` (`ResidentBounded`, 3n + 2 blocks);
* if every call `ReadsApart` (neither an operand nor `d_out` is a gradient file the
  call writes): `InputsStay` (`InputsPreserved`), `ReaderIsCoherent`;
* if every call is also `TargetsApart` (no operand is passed twice):
  `BackwardCorrect` (`GradCorrect`), `AddsOnce` (`AccumulateOnce`).

Both hypotheses are the usual case, and an `ASSUME` of `MCBackward` has TLC confirm
them for the calls of `backward`.  They cannot be dropped: `aliasing` gives calls
without them and finds an operand overwritten.  `StructInv` is the type invariant
with what the lists hold and which gradient files exist; the bound follows from it
as in the forward loop.  `ValueInv` adds that everything read is what the files held
when the call began.  `GradInv`, on top, says of every block of every gradient file
what has been summed into it so far: the terms of all tiles and groups before
the ones in hand, and of the group in hand for the operands already scattered to.
An exception may leave any such half sum in the file; the next call's
`AllocateGrad` truncates it, which is why `GradCorrect` holds after retries.

For calls of the ops themselves (`OpCallsAssumption` of `BackwardOps`, confirmed by
TLC for the calls it runs) it also proves

* `BackwardCallsAreWellFormed`: such a call is `WellFormed`;
* `GradientsMatchReference` (`GradientMatchesReference`), if every call `ReadsApart`
  and is `TargetsApart`: each cell of each returned gradient is the sum of the terms
  of the derivative of the whole-array op, each of them once.

`BackwardCorrect` says which contributions a gradient file holds; what remains is
about `index_map` and `backward_block`, and is in `BlockParallelOps_proofs`:

1. `AcceptedDerived`: on every group of every block of `d_out`, `backward_block`
   is the derivative of `forward_block` (`Adjoint`: it gives a cell of an operand one
   pair of `d_out` cell and cofactor for every term of `forward_block` that contains
   the cell), and no two groups of a block of `d_out` have a block of an operand in
   common.  There is one lemma per kind of op.  `transpose` needs that `ArgSort`
   inverts the permutation (`ArgSortInverts`); for the two sides of `dot`, `Contraction`
   says once what it means that `d_out` and the operand differ in one dimension and
   the other operand supplies it.
2. `GradientPartsBelong`: what is added to a cell is a term of the reference, as the
   tile, the block and the group cover the cells they claim to.
3. `GradientPartsCover`: every term of the reference is added.  The `d_out` cell in it
   lies in a block (`HomeCovers`), one of that block's groups has the term
   (`AcceptedSound`), and `backward_block` of that group gives it to the cell (`Adjoint`).
4. `GradientPartsOnce`: a term determines the tile, since it names the `d_out` cell,
   and the group, since groups share no block of the operand.

`JitDataflow_proofs` proves, for every set of well-formed compiled functions
(`FunctionsAssumption`: operands are arguments or results of earlier callbacks,
in the file they name), any scalars, initial files and number of calls:

* `TypeCorrect`;
* if all functions are `RaceFree`: `DataflowCorrect` (`ComputedAsNative`),
  `ReturnedCorrect` (`ReturnedIntact`) and `ImplementsNative`, the refinement of
  `NativeValues`.

The hypothesis cannot be dropped: `dataflow_unordered` is a function that fails it,
and TLC finds the callback that reads a truncated file.  The invariant says that
from the moment an operand's value is known until the callback has read it, its
file holds it (`FreshInv`; `ReturnInv` for returned arrays, to the end of the
call), that what has been read is what the operands are (`LoadedInv`), and that
a started callback has its markers (`MarkerInv`).  The step of interest is
another callback truncating or writing a file.  Lemma `Ordered` turns the
static order into a dynamic fact: the callbacks that are done, with one that has
its markers, are a closed set, so whatever precedes that one is done.  Lemma
`Undisturbed` concludes that a running callback writes no file whose value is
still needed: its own operand is not known yet, an earlier writer would be done,
a later one would not have its markers.

`DiskArrayLifecycle_proofs` proves, for any names, wrappers, values, number of
blocks and number of calls (`LifecycleAssumption`; `NoneAssumption`: `None` is
neither a call nor a kind of wrapper):

* `TypeCorrect`, `FilesHaveOneRemover` (`OneRemover`), `HeldFilesStay`
  (`NeverRemovedUnderfoot`), `FilesAreAccountedFor` (`FilesAccounted`);
* if the program never calls `a.update_(a)`: `UpdateCopiesTheSource`
  (`HoldsNewValue`); `self_update` shows that the hypothesis is needed.

None of these is inductive alone, because each forgets the call in progress.
`IInv` adds `CallInv` (the output has no armed finalizer: it is a new file, a
gradient's, a compiled function's, or the target whose finalizer `update_` has
cancelled), `ArmedInv` (no finalizer names a gradient file, so a backward pass may
overwrite one), `TracedInv` (results of compiled functions stay, so a call may
overwrite one) and `OwnerInv`: an owner without a finalizer has a file that stays or is
the target of the `update_` in progress.  That last disjunct is where the order in
the code matters: the finalizer is cancelled before the target is truncated, and
the file is one of those that stay only afterwards.  For the refinement it also
carries `ArrayInv` (an owner or a result of `update_` was made for the array its name
stands for now) and `CountInv` (every file has a call of its own, so an array of one name
is one of `0 .. MaxCalls`).

`DiskArrayRefinement_proofs` proves `FilesImplementStore`: the specification implements
`ArrayStore` for the same constants, if neither `SelfUpdate` nor `StaleUpdate` holds.
Both hypotheses are needed: `self_update` is a counterexample to the first, and the
second is explained in section 2.  The abstract arrays have no files, so each step must
be matched: the end of an eager op or of `vspace_zero` is `New`, an array passed
through is `PassThrough`, the beginning of `update_` is `Begin`, its end `Update`, an
exception in it `Spoil`, dropping a reference `Forget`, a collection that removes a file
`Lose`, and everything else stutters.  `StoreInv` says what makes it stutter: the
output of a call is the file of an array in the store only when the call is an
`update_` of that array, which is pending then.  So truncating or writing any
other array's file is no step of the store, and the proof shows that it does not happen.

`Budget_proofs` proves, for any budgets, available memory, mounts, directories
and number of steps:

* `TypeCorrect`, `ConfigurationIsOfOneCall` (`ConfiguredByOneCall`) and
  `OperandsAgree` (`OperandsMeet`);
* `BlocksFitRounded` (`FitsUpToRounding`), for any OS page size, requests of one
  to three dimensions without an empty one, and items no larger than an OS page
  (`RequestsAssumption`; a larger item could be larger than its page, and 0-d arrays
  divide by zero);
* `ScratchStaysOnDisk` (`ScratchOnDisk`), if there are no links and, at every moment,
  `NoneHidden`: no mount lies over the mountpoint of an earlier one.
  `scratch_links` shows that links break it.

`OperandsMeet` and the fit need to know only that the latest answer was derived from
a budget that is a natural number (`ConfigInv`).  `ConfiguredByOneCall` is inductive
beside it: lemma `ConfiguredStep` says that an accepted call replaces both parts of the
configuration by its own, and that every other step leaves both and `granted` alone.  The fit is then arithmetic:
lemma `PagesFit` (the page, aligned down, times the number of blocks is at most the
budget), `RootOfTwo` and `RootOfThree` (a rounded root exists and is at most half
above the real one), and `RectangleSlack` and `BoxSlack` (what half a unit per side
adds to a product).  That a rounded root exists needs induction; the library's
well-foundedness of `<` gives it in the form of `LeastNumber`, a set of numbers
that is not empty has a least one.  `ScratchStaysOnDisk` rests on `PrefixesNest`: of
two mountpoints above one path the shorter is above the longer, so when nothing is
hidden the latest mount, which is in effect, is also the longest, which
`_is_ram_backed` looks at.

Not proved, only checked: liveness (`Terminates`, `CallEnds`, `CallCompletes`,
`DroppedFilesGo`), which is beyond the prover.  Every invariant and every refinement
that a passing run checks is the subject of a theorem.

## 5. Not modelled

* `CustomOp`: no op implements it.
* mmap, flush, madvise, page cache: a block transfer is atomic.  A crash of the
  process loses the Python objects; nothing in jask reads scratch files of an
  earlier process.
* Floating-point arithmetic, dtypes, signs and numeric factors.
* `pipelined=True` (no caller passes it), `SpillFile` gradients (no caller omits
  `target_paths`), `to_jax` beyond reading a scalar back.
* Host copies made by `np.asarray` and inside `device_put`: `Live` counts blocks
  that a name, list or cache entry of jask refers to.
* `vspace_zero` inside a trace, and whether JAX accepts the type of a `vspace_add`
  result as that of a cotangent: not decided by this repository.
* Dead entries of `_active_finalizers`: `detach` of a dead finalizer does nothing,
  and a new file of the same name replaces the entry.
* What the process leaves at exit (`weakref.finalize` runs then too), files that the
  program makes itself and wraps with `DiskArray(...)`, and other processes.
* The block order inside the two loops of scalar multiplication: their results are
  whole files in `JitDataflow` and in `DiskArrayLifecycle`.
* A budget set between tracing and running: `Budget` derives each page from the
  configuration in force.
* Benchmarks, docs, the example's comparison with numpy: no logic of their own.

## 6. Plan

Every module planned is written, and every safety property the runs check is proved.
The components marked partly or not modelled in `PROJECT.json` lack only what section
5 names.  When the code changes, these are the places to look first:

1. a new op: its methods in `BlockParallelOps`, its case in `Accepts`, a call in
   `MCForward` and `MCBackward`, and its case in `AcceptedSound`, `AcceptedGroups` and
   `AcceptedDerived`; the theorems about the loops do not change;
2. `CustomOp`: the first op that implements it brings loops of its own, which need a
   module beside `OOCForward` and `OOCBackward`.
