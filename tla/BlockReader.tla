----------------------------- MODULE BlockReader -----------------------------
(***************************************************************************)
(* _ReusingBlockReader (src/jask/base/utils.py) with the IOCost it charges: *)
(* per input position, the index and the block of the most recent read.    *)
(* One reader lives for one run_forward or run_backward call; the modules  *)
(* of those loops extend this one and build their read steps from it.      *)
(***************************************************************************)
EXTENDS Integers

CONSTANT None       \* Python's None

VARIABLES
  lastIdx,          \* _last_idx, by input position
  lastBlock,        \* _last_block, by input position
  total_pages       \* IOCost.total_pages of the call's OOCAlgorithm

readerVars == << lastIdx, lastBlock, total_pages >>

\* __init__: nothing remembered at any of the n positions.
Nothing(n) == [p \in 1 .. n |-> None]

\* read_one returns the remembered block: nothing is read and nothing charged.
Reuse(p, idx) ==
  /\ idx = lastIdx[p]
  /\ UNCHANGED readerVars

\* Faulty: the index is remembered without the block.
FetchIndexOnly(p, idx, block) ==
  /\ idx # lastIdx[p]
  /\ lastIdx'     = [lastIdx EXCEPT ![p] = idx]
  /\ total_pages' = total_pages + 1
  /\ UNCHANGED lastBlock

\* read_one reads the block, which read_block charges, and remembers it.
Fetch(p, idx, block) ==
  /\ idx # lastIdx[p]
  /\ lastIdx'     = [lastIdx EXCEPT ![p] = idx]
  /\ lastBlock'   = [lastBlock EXCEPT ![p] = block]
  /\ total_pages' = total_pages + 1

\* Faulty: only the reader counts what it moves.
ChargeNothing(pages) == UNCHANGED total_pages

\* write_block, or a read_block outside read_one, charges one page as well.
Charge(pages) == total_pages' = total_pages + pages
=============================================================================
