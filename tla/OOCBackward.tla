----------------------------- MODULE OOCBackward -----------------------------
(***************************************************************************)
(* OOCAlgorithm.run_backward as HiOpBackward calls it (base_algo.py:       *)
(* 109-171, 246-314): for each block of d_out and each group of input      *)
(* blocks, compute the blocks' gradients and add each of them to the block *)
(* of the operand's gradient file at the same index.                       *)
(*                                                                         *)
(* The files outlive a call, so several calls follow each other here, each *)
(* one returning or ended by an exception.  A gradient file's path is      *)
(* derived from the operand's, not allocated, so that a retry or a later   *)
(* call finds what an earlier one left, and an operand that is itself a    *)
(* gradient file is its own target.                                        *)
(***************************************************************************)
EXTENDS BlockReader, DiskArrayType, Sequences, FiniteSets

CONSTANTS
  Calls,            \* the calls considered: n, tiles, groups as in OOCForward, with
                    \* inputs (paths), grids (block indices) and dout (a path)
  InitialFiles,     \* the files before the first call: path |-> block |-> data
  MaxRuns           \* bound on the number of calls in a behaviour

ASSUME MaxRunsAssumption == MaxRuns \in Nat

Tiles(c) == {c.tiles[t] : t \in 1 .. Len(c.tiles)}
Indices(c) == UNION {c.grids[p] : p \in 1 .. c.n}

(***************************************************************************)
(* n operands, the blocks of d_out in block_grid order (no block twice),   *)
(* and per block of d_out its groups: K >= 1 different tuples of one block *)
(* index per operand.  Operands in the same file, or in a file and its     *)
(* gradient file, are cut alike.                                           *)
(***************************************************************************)
WellFormed(c) ==
  /\ c.n \in Nat \ {0}
  /\ c.tiles \in Seq(Tiles(c)) /\ c.tiles # << >>
  /\ \A s, t \in 1 .. Len(c.tiles) : c.tiles[s] = c.tiles[t] => s = t
  /\ \A o \in Tiles(c) :
       /\ c.groups[o] \in Seq([1 .. c.n -> Indices(c)]) /\ c.groups[o] # << >>
       /\ \A l, m \in 1 .. Len(c.groups[o]) : c.groups[o][l] = c.groups[o][m] => l = m
       /\ \A m \in 1 .. Len(c.groups[o]), p \in 1 .. c.n : c.groups[o][m][p] \in c.grids[p]
  /\ \A p, q \in 1 .. c.n :
       Tangent(c.inputs[p]) = Tangent(c.inputs[q]) => c.grids[p] = c.grids[q]

ASSUME CallsAssumption == \A c \in Calls : WellFormed(c)
ASSUME NoneAssumption == None \notin Calls /\ \A c \in Calls : None \notin Indices(c)

(***************************************************************************)
(* No gradient goes to a file the call reads from: no operand is itself a  *)
(* gradient file of an operand, and d_out is none.                         *)
(***************************************************************************)
ReadsApart(c) ==
  \A p \in 1 .. c.n :
    Tangent(c.inputs[p]) \notin {c.inputs[q] : q \in 1 .. c.n} \cup {c.dout}

\* No operand is passed twice.
TargetsApart(c) ==
  \A p, q \in 1 .. c.n : Tangent(c.inputs[p]) = Tangent(c.inputs[q]) => p = q

VARIABLES
  run, runs,        \* the call being run (None before the first), and how many began
  pc, cur, k, w,    \* where its loops are: output block, group, operand
  files,            \* the scratch and data files: path |-> block |-> data
  before,           \* the files as the call found them
  d_out_block,      \* the locals of _accumulate_grad_block ...
  building, blocks_k,
  grad_blocks, existing,
  temp              \* ... and what exists but is not bound to a name yet

frameVars == << d_out_block, building, blocks_k, grad_blocks, existing, temp >>
vars == << run, runs, pc, cur, k, w, files, before, frameVars, readerVars >>

\* Faulty: the gradient in the operand's own file.
TargetInPlace(p) == run.inputs[p]

\* The gradient file of operand p.
Target(p) == Tangent(run.inputs[p])

\* A device array or a host copy: the operand and index it is for, and its data.
Block(p, idx, data) == [pos |-> p, idx |-> idx, data |-> data]

Tile == run.tiles[cur]
Groups == run.groups[Tile]
Pos == Len(building) + 1

NoLocals ==
  /\ d_out_block' = None /\ building' = << >> /\ blocks_k' = << >>
  /\ grad_blocks' = << >> /\ existing' = None /\ temp' = << >>

Init ==
  /\ run = None /\ runs = 0
  /\ pc = "idle" /\ cur = 1 /\ k = 1 /\ w = 1
  /\ files = InitialFiles /\ before = InitialFiles
  /\ d_out_block = None /\ building = << >> /\ blocks_k = << >>
  /\ grad_blocks = << >> /\ existing = None /\ temp = << >>
  /\ lastIdx = Nothing(0) /\ lastBlock = Nothing(0) /\ total_pages = 0

(***************************************************************************)
(* Python calls run_backward, for the first time or after an earlier call  *)
(* returned or raised; the operands and d_out are files that exist.        *)
(***************************************************************************)
Begin ==
  /\ pc \in {"idle", "returned", "raised"}
  /\ runs < MaxRuns
  /\ \E c \in Calls :
       /\ {c.inputs[p] : p \in 1 .. c.n} \cup {c.dout} \subseteq DOMAIN files
       /\ run' = c
       /\ lastIdx' = Nothing(c.n) /\ lastBlock' = Nothing(c.n)
  /\ runs' = runs + 1
  /\ before' = files
  /\ pc' = "allocate" /\ cur' = 1 /\ k' = 1 /\ w' = 1
  /\ total_pages' = 0
  /\ NoLocals
  /\ UNCHANGED files

\* Faulty: a gradient file that is already there is used as it is.
AllocateGradReusing ==
  /\ pc = "allocate"
  /\ files' = [path \in DOMAIN files \cup {Target(w)} |->
                 IF path \in DOMAIN files THEN files[path] ELSE [i \in run.grids[w] |-> {}]]
  /\ IF w < run.n THEN w' = w + 1 /\ pc' = pc
                  ELSE w' = 1 /\ pc' = "tile"
  /\ UNCHANGED << run, runs, cur, k, before, frameVars, readerVars >>

\* _allocate_grads: BlockedArray.create truncates the target and fills it with zeros.
AllocateGrad ==
  /\ pc = "allocate"
  /\ files' = [path \in DOMAIN files \cup {Target(w)} |->
                 IF path = Target(w) THEN [i \in run.grids[w] |-> {}] ELSE files[path]]
  /\ IF w < run.n THEN w' = w + 1 /\ pc' = pc
                  ELSE w' = 1 /\ pc' = "tile"
  /\ UNCHANGED << run, runs, cur, k, before, frameVars, readerVars >>

LoadDout ==
  /\ pc = "tile"
  /\ d_out_block' = Block(0, Tile, files[run.dout][Tile])
  /\ Charge(1)
  /\ pc' = "read"
  /\ UNCHANGED << run, runs, cur, k, w, files, before, building, blocks_k, grad_blocks,
                  existing, temp, lastIdx, lastBlock >>

Reading == pc = "read" /\ Pos <= run.n

ReadReused ==
  /\ Reading
  /\ Reuse(Pos, Groups[k][Pos])
  /\ building' = Append(building, lastBlock[Pos])
  /\ UNCHANGED << run, runs, pc, cur, k, w, files, before, d_out_block, blocks_k,
                  grad_blocks, existing, temp >>

ReadFetched ==
  /\ Reading
  /\ LET idx == Groups[k][Pos]
         block == Block(Pos, idx, files[run.inputs[Pos]][idx])
     IN  Fetch(Pos, idx, block) /\ building' = Append(building, block)
  /\ UNCHANGED << run, runs, pc, cur, k, w, files, before, d_out_block, blocks_k,
                  grad_blocks, existing, temp >>

\* Faulty: the loop starts over with the group it has just read.
BindBlocksAgain ==
  /\ pc = "read" /\ Pos > run.n
  /\ blocks_k' = building /\ building' = << >>
  /\ UNCHANGED << run, runs, pc, cur, k, w, files, before, d_out_block, grad_blocks,
                  existing, temp, readerVars >>

BindBlocks ==
  /\ pc = "read" /\ Pos > run.n
  /\ blocks_k' = building /\ building' = << >>
  /\ pc' = "compute"
  /\ UNCHANGED << run, runs, cur, k, w, files, before, d_out_block, grad_blocks,
                  existing, temp, readerVars >>

\* The blocks in hand hold what the files held when the call began.
Faithful ==
  /\ d_out_block.data = before[run.dout][d_out_block.idx]
  /\ \A p \in 1 .. run.n : blocks_k[p].data = before[run.inputs[p]][blocks_k[p].idx]

(***************************************************************************)
(* backward_block returns one gradient block per operand.  It is known by  *)
(* the call, d_out block and input blocks it was computed from, and by     *)
(* whether these still held the call's inputs.                             *)
(***************************************************************************)
Contribution(p) ==
  [run |-> runs, pos |-> p, tile |-> d_out_block.idx,
   args |-> [q \in 1 .. run.n |-> blocks_k[q].idx], faithful |-> Faithful]

BackwardBlock ==
  /\ pc = "compute"
  /\ temp' = [p \in 1 .. run.n |-> Contribution(p)]
  /\ pc' = "bind"
  /\ UNCHANGED << run, runs, cur, k, w, files, before, d_out_block, building, blocks_k,
                  grad_blocks, existing, readerVars >>

\* Faulty: the gradient blocks of all groups are kept.
BindGradsKeepingAll ==
  /\ pc = "bind"
  /\ grad_blocks' = temp \o grad_blocks /\ temp' = << >>
  /\ w' = 1
  /\ pc' = "existing"
  /\ UNCHANGED << run, runs, cur, k, files, before, d_out_block, building, blocks_k,
                  existing, readerVars >>

BindGrads ==
  /\ pc = "bind"
  /\ grad_blocks' = temp /\ temp' = << >>
  /\ w' = 1
  /\ pc' = "existing"
  /\ UNCHANGED << run, runs, cur, k, files, before, d_out_block, building, blocks_k,
                  existing, readerVars >>

\* The right-hand side of `existing = grad_arr.read_block(idx, ...)`, then the binding.
ReadExisting ==
  /\ pc = "existing"
  /\ LET idx == Groups[k][w]
     IN  temp' = << Block(w, idx, files[Target(w)][idx]) >>
  /\ Charge(1)
  /\ pc' = "rebind"
  /\ UNCHANGED << run, runs, cur, k, w, files, before, d_out_block, building, blocks_k,
                  grad_blocks, existing, lastIdx, lastBlock >>

BindExisting ==
  /\ pc = "rebind"
  /\ existing' = temp[1] /\ temp' = << >>
  /\ pc' = "add"
  /\ UNCHANGED << run, runs, cur, k, w, files, before, d_out_block, building, blocks_k,
                  grad_blocks, readerVars >>

\* existing + np.asarray(grad_block)
AddGrad ==
  /\ pc = "add"
  /\ temp' = << [existing EXCEPT !.data = existing.data \cup {grad_blocks[w]}] >>
  /\ pc' = "write"
  /\ UNCHANGED << run, runs, cur, k, w, files, before, d_out_block, building, blocks_k,
                  grad_blocks, existing, readerVars >>

\* Faulty: one group too many.
AdvancePastEnd ==
  \/ /\ w < run.n
     /\ w' = w + 1 /\ pc' = "existing"
     /\ UNCHANGED << cur, k, d_out_block, building, blocks_k, grad_blocks, existing >>
  \/ /\ w = run.n /\ k <= Len(Groups)
     /\ k' = k + 1 /\ pc' = "read"
     /\ UNCHANGED << cur, w, d_out_block, building, blocks_k, grad_blocks, existing >>

\* Faulty: the scatter loop writes one operand's gradient again.
AdvanceNowhere ==
  /\ pc' = "existing"
  /\ UNCHANGED << cur, k, w, d_out_block, building, blocks_k, grad_blocks, existing >>

\* The scatter loop, the loop over groups and the loop over output blocks move on.
Advance ==
  \/ /\ w < run.n
     /\ w' = w + 1 /\ pc' = "existing"
     /\ UNCHANGED << cur, k, d_out_block, building, blocks_k, grad_blocks, existing >>
  \/ /\ w = run.n /\ k < Len(Groups)
     /\ k' = k + 1 /\ pc' = "read"
     /\ UNCHANGED << cur, w, d_out_block, building, blocks_k, grad_blocks, existing >>
  \/ /\ w = run.n /\ k = Len(Groups)
     /\ k' = 1
     /\ IF cur < Len(run.tiles) THEN cur' = cur + 1 /\ pc' = "tile"
                                ELSE cur' = cur /\ pc' = "returned"
     /\ d_out_block' = None /\ building' = << >> /\ blocks_k' = << >>
     /\ grad_blocks' = << >> /\ existing' = None
     /\ UNCHANGED w

WriteGrad ==
  /\ pc = "write"
  /\ files' = [files EXCEPT ![Target(w)][Groups[k][w]] = temp[1].data]
  /\ temp' = << >>
  /\ Charge(1)
  /\ Advance
  /\ UNCHANGED << run, runs, before, lastIdx, lastBlock >>

\* An exception leaves the files as they are at that moment.
Raise ==
  /\ pc \in {"allocate", "tile", "read", "compute", "existing", "add", "write"}
  /\ pc' = "raised"
  /\ UNCHANGED << run, runs, cur, k, w, files, before, frameVars, readerVars >>

Ended == pc \in {"returned", "raised"}

\* The program makes no further call.
Stopped == Ended /\ UNCHANGED vars

Step ==
  \/ AllocateGrad \/ LoadDout
  \/ ReadReused \/ ReadFetched \/ BindBlocks
  \/ BackwardBlock \/ BindGrads
  \/ ReadExisting \/ BindExisting \/ AddGrad \/ WriteGrad

Next == Begin \/ Step \/ Raise \/ Stopped

\* Sequential code runs on; neither a next call nor an exception is promised.
Fairness == WF_vars(Step)

Spec == Init /\ [][Next]_vars /\ Fairness
-----------------------------------------------------------------------------
(***************************************************************************)
(* Every variable is in a state the loops can be in.                       *)
(***************************************************************************)
TypeOK ==
  /\ run \in Calls \cup {None} /\ runs \in 0 .. MaxRuns
  /\ pc \in {"idle", "allocate", "tile", "read", "compute", "bind", "existing",
             "rebind", "add", "write", "returned", "raised"}
  /\ DOMAIN InitialFiles \subseteq DOMAIN files /\ DOMAIN before \subseteq DOMAIN files
  /\ run = None <=> pc = "idle"
  /\ run # None =>
       /\ cur \in 1 .. Len(run.tiles) /\ k \in 1 .. Len(Groups) /\ w \in 1 .. run.n
       /\ Len(building) <= run.n /\ Len(blocks_k) \in {0, run.n}
       /\ Len(grad_blocks) \in {0, run.n}
       /\ \A p \in 1 .. run.n : lastIdx[p] \in run.grids[p] \cup {None}
       /\ pc \in {"tile", "read", "compute", "bind", "existing", "rebind", "add", "write",
                "returned"}
            => \A p \in 1 .. run.n : DOMAIN files[Target(p)] = run.grids[p]
  /\ total_pages \in Nat

\* The gradient blocks that block i of operand p has to receive in this call.
ExpectedGrad(p, i) ==
  UNION {{[run |-> runs, pos |-> p, tile |-> o, args |-> run.groups[o][m], faithful |-> TRUE] :
            m \in {g \in 1 .. Len(run.groups[o]) : run.groups[o][g][p] = i}} :
           o \in {run.tiles[t] : t \in 1 .. Len(run.tiles)}}

(***************************************************************************)
(* When run_backward returns, every block of every operand's gradient file *)
(* is the sum of exactly the contributions that index_map sends to it,     *)
(* each computed from the values the operands and d_out had when the call  *)
(* began, and none left over from an earlier call that used the same path, *)
(* finished or not (base_algo.py:133-171).                                 *)
(***************************************************************************)
GradCorrect ==
  pc = "returned" =>
    \A p \in 1 .. run.n :
      files[Target(p)] = [i \in run.grids[p] |-> ExpectedGrad(p, i)]

(***************************************************************************)
(* The read-modify-write never adds a contribution the block already has   *)
(* (base_algo.py:164-171).                                                 *)
(***************************************************************************)
AccumulateOnce == pc = "add" => grad_blocks[w] \notin existing.data

(***************************************************************************)
(* A backward call changes no file it reads its operands or d_out from:    *)
(* the tangent lives at "a DISTINCT but DETERMINISTIC location from the    *)
(* primal" (disk_array.py:267) and the inputs are views that never write   *)
(* (base_algo.py:212).                                                     *)
(***************************************************************************)
InputsPreserved ==
  run # None =>
    \A path \in {run.inputs[p] : p \in 1 .. run.n} \cup {run.dout} : files[path] = before[path]

(***************************************************************************)
(* A block the reader would reuse is what the operand's file holds there   *)
(* now: the cache compares indices only (utils.py:31), so this rests on    *)
(* nobody writing the operands during the call.                            *)
(***************************************************************************)
ReaderCoherent ==
  run # None =>
    \A p \in 1 .. run.n :
      lastIdx[p] # None =>
        lastBlock[p] = Block(p, lastIdx[p], files[run.inputs[p]][lastIdx[p]])

\* The blocks some name, list or cache entry still refers to.
Held(s) == {s[p] : p \in DOMAIN s}
Live ==
  (Held(building) \cup Held(blocks_k) \cup Held(lastBlock) \cup Held(grad_blocks)
     \cup Held(temp) \cup {d_out_block, existing}) \ {None}

(***************************************************************************)
(* At most 3n + 2 blocks are alive at once, whatever K is: the two sets of *)
(* n that are replacing each other, the n that stay, d_out_block and       *)
(* existing (base_algo.py:155-171).  _peak_blocks budgets 2n + 2.          *)
(***************************************************************************)
ResidentBounded == run # None => Cardinality(Live) <= 3 * run.n + 2

(***************************************************************************)
(* Every backward call comes to an end.                                    *)
(***************************************************************************)
CallEnds == pc = "allocate" ~> Ended
=============================================================================
