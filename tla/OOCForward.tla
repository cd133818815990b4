------------------------------ MODULE OOCForward ------------------------------
(***************************************************************************)
(* OOCAlgorithm.run_forward for a BlockParallelOp (base_algo.py:51-107):   *)
(* for each output block, read the input blocks of each group of           *)
(* index_map(out_idx), apply forward_block, fold the partial result into   *)
(* the accumulator, and write the finished block.                          *)
(*                                                                         *)
(* The device arrays the Python frames hold are explicit state, because    *)
(* the page shape is chosen from how many of them are alive at once.  A    *)
(* device array is known by what is in it: an input block by its position  *)
(* and index, a result by the output block it is for and the groups of     *)
(* input blocks folded into it, in order.                                  *)
(***************************************************************************)
EXTENDS BlockReader, Sequences, FiniteSets

CONSTANT Calls      \* the calls considered: records with at least n, tiles, groups

Tiles(c) == {c.tiles[t] : t \in 1 .. Len(c.tiles)}

Indices(c) ==
  UNION {UNION {{c.groups[o][m][p] : p \in 1 .. c.n} : m \in 1 .. Len(c.groups[o])} :
           o \in Tiles(c)}

(***************************************************************************)
(* n operands, the output blocks in block_grid order (no block twice), and *)
(* per output block its groups: K >= 1 tuples of n input block indices.    *)
(***************************************************************************)
WellFormed(c) ==
  /\ c.n \in Nat \ {0}
  /\ c.tiles \in Seq(Tiles(c)) /\ c.tiles # << >>
  /\ \A s, t \in 1 .. Len(c.tiles) : c.tiles[s] = c.tiles[t] => s = t
  /\ \A o \in Tiles(c) :
       c.groups[o] \in Seq([1 .. c.n -> Indices(c)]) /\ c.groups[o] # << >>

ASSUME CallsAssumption == \A c \in Calls : WellFormed(c)

(***************************************************************************)
(* The values that can occur: input blocks, lists of one block per         *)
(* operand, and results of forward_block and combine.                      *)
(***************************************************************************)
InputBlocks(c) == [pos : 1 .. c.n, idx : Indices(c)]
Operands(c) == [1 .. c.n -> InputBlocks(c)]
Results(c) == [tile : Tiles(c), terms : Seq(Operands(c))]

ASSUME NoneAssumption ==
  \A c \in Calls : None \notin Indices(c) \cup InputBlocks(c) \cup Results(c)

VARIABLES
  call,             \* the call being run
  pc,               \* where the loops are
  cur, k,           \* the output block (position in tiles) and the group in hand
  building,         \* the list comprehension of blocks_k in progress
  blocks_k,         \* the last list bound to blocks_k, << >> before the first
  temp,             \* a result that exists but is not bound to a name yet
  partial, acc,     \* the locals of _compute_output_block
  result,           \* run_forward's acc: the last finished output block
  out               \* the output file: per block a result, None while it is zeros;
                    \* no block at all in the empty file mkstemp leaves

frameVars == << building, blocks_k, temp, partial, acc, result >>
vars == << call, pc, cur, k, frameVars, out, readerVars >>

Block(p, idx) == [pos |-> p, idx |-> idx]

Tile == call.tiles[cur]
Groups == call.groups[Tile]
Pos == Len(building) + 1

Init ==
  /\ call \in Calls
  /\ pc = "allocate" /\ cur = 1 /\ k = 1
  /\ building = << >> /\ blocks_k = << >>
  /\ temp = None /\ partial = None /\ acc = None /\ result = None
  /\ out = << >>
  /\ lastIdx = Nothing(call.n) /\ lastBlock = Nothing(call.n)
  /\ total_pages = 0

\* _allocate_output: BlockedArray.create makes the file anew, all zeros.
AllocateOutput ==
  /\ pc = "allocate"
  /\ out' = [o \in Tiles(call) |-> None]
  /\ pc' = "read"
  /\ UNCHANGED << call, cur, k, frameVars, readerVars >>

\* The comprehension appends what read_one(pos, arr, idxs[pos]) returns.
Reading == pc = "read" /\ Pos <= call.n

ReadReused ==
  /\ Reading
  /\ Reuse(Pos, Groups[k][Pos])
  /\ building' = Append(building, lastBlock[Pos])
  /\ UNCHANGED << call, pc, cur, k, blocks_k, temp, partial, acc, result, out >>

ReadFetched ==
  /\ Reading
  /\ LET block == Block(Pos, Groups[k][Pos])
     IN  Fetch(Pos, block.idx, block) /\ building' = Append(building, block)
  /\ UNCHANGED << call, pc, cur, k, blocks_k, temp, partial, acc, result, out >>

\* Faulty: the lists of all groups stay in memory, as when a K-sequence is loaded at once.
BindBlocksKeepingAll ==
  /\ pc = "read" /\ Pos > call.n
  /\ blocks_k' = blocks_k \o building /\ building' = << >>
  /\ pc' = "compute"
  /\ UNCHANGED << call, cur, k, temp, partial, acc, result, out, readerVars >>

\* Faulty: the loop starts over with the group it has just read.
BindBlocksAgain ==
  /\ pc = "read" /\ Pos > call.n
  /\ blocks_k' = building /\ building' = << >>
  /\ UNCHANGED << call, pc, cur, k, temp, partial, acc, result, out, readerVars >>

\* The complete list takes the place of the previous group's.
BindBlocks ==
  /\ pc = "read" /\ Pos > call.n
  /\ blocks_k' = building /\ building' = << >>
  /\ pc' = "compute"
  /\ UNCHANGED << call, cur, k, temp, partial, acc, result, out, readerVars >>

\* The right-hand side of `partial = self._jit_forward_block(*blocks_k)`.
ForwardBlock ==
  /\ pc = "compute"
  /\ temp' = [tile |-> Tile, terms |-> << blocks_k >>]
  /\ pc' = "bind"
  /\ UNCHANGED << call, cur, k, building, blocks_k, partial, acc, result, out, readerVars >>

\* Faulty: one group too many.
NextGroupPastEnd(value, part) ==
  IF k <= Len(Groups)
    THEN /\ k' = k + 1
         /\ acc' = value /\ partial' = part
         /\ pc' = "read"
         /\ UNCHANGED << blocks_k, result >>
    ELSE /\ result' = value
         /\ acc' = None /\ partial' = None /\ blocks_k' = << >>
         /\ pc' = "write"
         /\ UNCHANGED k

\* Faulty: the accumulator of one output block is carried over to the next.
NextGroupKeepingAcc(value, part) ==
  IF k < Len(Groups)
    THEN /\ k' = k + 1
         /\ acc' = value /\ partial' = part
         /\ pc' = "read"
         /\ UNCHANGED << blocks_k, result >>
    ELSE /\ result' = value
         /\ acc' = value /\ partial' = None /\ blocks_k' = << >>
         /\ pc' = "write"
         /\ UNCHANGED k

(***************************************************************************)
(* After a group: the next one, or _compute_output_block returns, its      *)
(* locals die and run_forward rebinds its own acc to the returned value.   *)
(***************************************************************************)
NextGroup(value, part) ==
  IF k < Len(Groups)
    THEN /\ k' = k + 1
         /\ acc' = value /\ partial' = part
         /\ pc' = "read"
         /\ UNCHANGED << blocks_k, result >>
    ELSE /\ result' = value
         /\ acc' = None /\ partial' = None /\ blocks_k' = << >>
         /\ pc' = "write"
         /\ UNCHANGED k

\* `partial` is rebound; the first partial of an output block becomes acc as it is.
BindFirst ==
  /\ pc = "bind" /\ acc = None
  /\ temp' = None
  /\ NextGroup(temp, temp)
  /\ UNCHANGED << call, cur, building, out, readerVars >>

BindPartial ==
  /\ pc = "bind" /\ acc # None
  /\ partial' = temp
  /\ temp' = None
  /\ pc' = "combine"
  /\ UNCHANGED << call, cur, k, building, blocks_k, acc, result, out, readerVars >>

\* The right-hand side of `acc = self._op.combine(acc, partial)`.
Combine ==
  /\ pc = "combine"
  /\ temp' = [tile |-> acc.tile, terms |-> acc.terms \o partial.terms]
  /\ pc' = "fold"
  /\ UNCHANGED << call, cur, k, building, blocks_k, partial, acc, result, out, readerVars >>

BindAcc ==
  /\ pc = "fold"
  /\ temp' = None
  /\ NextGroup(temp, partial)
  /\ UNCHANGED << call, cur, building, out, readerVars >>

WriteBlock ==
  /\ pc = "write"
  /\ out' = [out EXCEPT ![Tile] = result]
  /\ Charge(1)
  /\ k' = 1
  /\ IF cur < Len(call.tiles)
       THEN cur' = cur + 1 /\ pc' = "read"
       ELSE cur' = cur /\ pc' = "returned"
  /\ UNCHANGED << call, frameVars, lastIdx, lastBlock >>

(***************************************************************************)
(* An exception (a full disk, a failed map, a kernel error) ends the call  *)
(* where it stands: the file keeps what was written, and the traceback     *)
(* keeps the frames and their device arrays.                               *)
(***************************************************************************)
Raise ==
  /\ pc \in {"allocate", "read", "compute", "combine", "write"}
  /\ pc' = "raised"
  /\ UNCHANGED << call, cur, k, frameVars, out, readerVars >>

Ended == pc \in {"returned", "raised"}

\* The call is over and nothing more happens to it.
Stopped == Ended /\ UNCHANGED vars

Step ==
  \/ AllocateOutput
  \/ ReadReused \/ ReadFetched \/ BindBlocks
  \/ ForwardBlock \/ BindFirst \/ BindPartial
  \/ Combine \/ BindAcc
  \/ WriteBlock

Next == Step \/ Raise \/ Stopped

(***************************************************************************)
(* The loop is ordinary sequential code: while it has a next statement it  *)
(* runs it.  Nothing is assumed about Raise.                               *)
(***************************************************************************)
Fairness == WF_vars(Step)

Spec == Init /\ [][Next]_vars /\ Fairness

-----------------------------------------------------------------------------
(***************************************************************************)
(* Everything is in a state the loops can be in.                           *)
(***************************************************************************)
TypeOK ==
  /\ call \in Calls
  /\ pc \in {"allocate", "read", "compute", "bind", "combine", "fold", "write",
             "returned", "raised"}
  /\ cur \in 1 .. Len(call.tiles)
  /\ k \in 1 .. Len(Groups)
  /\ building \in Seq(InputBlocks(call)) /\ Len(building) <= call.n
  /\ blocks_k \in Operands(call) \cup {<< >>}
  /\ {temp, partial, acc, result} \subseteq Results(call) \cup {None}
  /\ \/ out = << >>
     \/ out \in [Tiles(call) -> Results(call) \cup {None}]
  /\ lastIdx \in [1 .. call.n -> Indices(call) \cup {None}]
  /\ lastBlock \in [1 .. call.n -> InputBlocks(call) \cup {None}]
  /\ total_pages \in Nat

\* The blocks the op asks for in group m of output block o of call c.
Wanted(c, o, m) == [p \in 1 .. c.n |-> Block(p, c.groups[o][m][p])]

\* What output block o of call c has to hold: every group once, in order.
Expected(c, o) ==
  [tile |-> o, terms |-> [m \in 1 .. Len(c.groups[o]) |-> Wanted(c, o, m)]]

(***************************************************************************)
(* A block of the output file is either untouched or the fold of exactly   *)
(* the groups index_map lists for it, each once and in order, whatever the *)
(* reader reused, whichever statement an exception hit; and when           *)
(* run_forward returns no block is left untouched (base_algo.py:51-107).   *)
(***************************************************************************)
OutputCorrect ==
  /\ \A o \in DOMAIN out : out[o] \in {None, Expected(call, o)}
  /\ pc = "returned" =>
       \A o \in Tiles(call) : o \in DOMAIN out /\ out[o] = Expected(call, o)

(***************************************************************************)
(* What the reader would hand back without reading is the block that index *)
(* names (utils.py:29-36): a reused block is never another one's.          *)
(***************************************************************************)
ReaderCoherent ==
  \A p \in 1 .. call.n : lastIdx[p] # None => lastBlock[p] = Block(p, lastIdx[p])

\* The device arrays some name, list or cache entry still refers to.  What read_one is
\* about to replace is in blocks_k as well, or blocks_k is still empty: the instant in
\* which both exist adds nothing to the peak.
Held(s) == {s[p] : p \in 1 .. Len(s)}
Live ==
  (Held(building) \cup Held(blocks_k) \cup {lastBlock[p] : p \in 1 .. call.n}
     \cup {temp, partial, acc, result}) \ {None}

(***************************************************************************)
(* At most 2n + 3 blocks are alive at once, however many groups an output  *)
(* block has: memory use does not grow with K, which is what reading one   *)
(* group at a time is for (base_algo.py:88-91, utils.py:14-18).            *)
(***************************************************************************)
ResidentBounded == Cardinality(Live) <= 2 * call.n + 3

(***************************************************************************)
(* What _peak_blocks says of the same loop (base_page.py:221-225): the     *)
(* reader's block per input, the fresh partial and the accumulator.        *)
(***************************************************************************)
ResidentAsDocumented == Cardinality(Live) <= call.n + 2

\* The reads in question: position p of group m of the t-th output block.
Reads(c) ==
  UNION {{<< t, m, p >> : m \in 1 .. Len(c.groups[c.tiles[t]]), p \in 1 .. c.n} :
           t \in 1 .. Len(c.tiles)}
Asked(c, t, m, p) == c.groups[c.tiles[t]][m][p]

\* What the loops asked for at position p just before that, None at the first group.
AskedBefore(c, t, m, p) ==
  CASE m > 1            -> Asked(c, t, m - 1, p)
    [] m = 1 /\ t > 1  -> Asked(c, t - 1, Len(c.groups[c.tiles[t - 1]]), p)
    [] m = 1 /\ t = 1  -> None

IndexChanges(c) ==
  {r \in Reads(c) : Asked(c, r[1], r[2], r[3]) # AskedBefore(c, r[1], r[2], r[3])}

(***************************************************************************)
(* The I/O tally of a finished call is one page per output block plus one  *)
(* per operand each time its index differs from the one asked for just     *)
(* before: the reader neither reads a block again that it still has nor    *)
(* skips one (utils.py:29-36, read_block and write_block,                  *)
(* disk_array.py:381-397).                                                 *)
(***************************************************************************)
TallyIsIndexChanges ==
  pc = "returned" => total_pages = Len(call.tiles) + Cardinality(IndexChanges(call))

(***************************************************************************)
(* The call comes to an end: its nested loops visit a finite number of     *)
(* groups and each iteration moves on (base_algo.py:64-66, 95-105).        *)
(***************************************************************************)
Terminates == <>Ended

=============================================================================
