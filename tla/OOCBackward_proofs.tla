-------------------------- MODULE OOCBackward_proofs --------------------------
(***************************************************************************)
(* Proofs about run_backward for every op, every shape and every number of *)
(* blocks.  Up to AddsOnce, Calls is any set of well-formed calls, in any  *)
(* order, each one returning or ended by an exception; the last section    *)
(* takes calls of the ops of jask/linalg, shows that they are well-formed, *)
(* and compares their gradients with the derivatives of the whole-array    *)
(* definitions.                                                            *)
(***************************************************************************)
EXTENDS BackwardOps, BlockParallelOps_proofs

\* _accumulate_grad_block has its d_out block; it has a complete group; it scatters.
Loaded == pc \in {"read", "compute", "bind", "existing", "rebind", "add", "write"}
Grouped == pc \in {"compute", "bind", "existing", "rebind", "add", "write"}
Scattering == pc \in {"existing", "rebind", "add", "write"}

\* What the lists of the frame are at each point of the loops.
ListInv ==
  /\ Len(building) \in Nat /\ IsList(building, Len(building))
  /\ (building # << >> => pc \in {"read", "raised"})
  /\ blocks_k = << >> \/ IsList(blocks_k, run.n)
  /\ grad_blocks = << >> \/ IsList(grad_blocks, run.n)
  /\ IsList(lastIdx, run.n) /\ IsList(lastBlock, run.n)
  /\ Scattering => IsList(grad_blocks, run.n)
  /\ CASE pc = "bind" -> IsList(temp, run.n)
       [] pc \in {"rebind", "write"} -> IsList(temp, 1)
       [] pc = "raised" -> temp = << >> \/ IsList(temp, 1)
       [] OTHER -> temp = << >>

\* The comprehension repeats the reader's blocks, and so does the complete group.
HeldInv ==
  /\ \A p \in 1 .. Len(building) : building[p] = lastBlock[p]
  /\ Grouped \/ temp # << >> => blocks_k = lastBlock

\* All gradient files have been made; operand p's has.
Ready == pc = "tile" \/ Loaded \/ pc = "returned"
Allocated(p) == (pc = "allocate" /\ p < w) \/ Ready

\* The gradient files are made one after the other; the rest finds them all.
FilesInv ==
  /\ {run.inputs[p] : p \in 1 .. run.n} \cup {run.dout} \subseteq DOMAIN before
  /\ pc = "allocate" => cur = 1
  /\ pc \in {"allocate", "tile"} => k = 1
  /\ \A p \in 1 .. run.n :
       Allocated(p) =>
         /\ Target(p) \in DOMAIN files
         /\ files[Target(p)] = [i \in run.grids[p] |-> files[Target(p)][i]]

StructInv == TypeOK /\ (run # None => ListInv /\ HeldInv /\ FilesInv)

-----------------------------------------------------------------------------
\* Block i of operand p, as the call found it.
Original(p, i) == Block(p, i, before[run.inputs[p]][i])

\* Whatever has been read is what the files held when the call began.
ReadInv ==
  /\ Loaded => d_out_block = Block(0, Tile, before[run.dout][Tile])
  /\ \A p \in 1 .. Len(building) : pc = "read" => building[p] = Original(p, Groups[k][p])
  /\ Grouped => \A p \in 1 .. run.n : blocks_k[p] = Original(p, Groups[k][p])

ValueInv == InputsPreserved /\ ReaderCoherent /\ (run # None => ReadInv)

-----------------------------------------------------------------------------
\* What group m of the t-th d_out block has to add to operand p's gradient.
Term(p, t, m) ==
  [run |-> runs, pos |-> p, tile |-> run.tiles[t], args |-> run.groups[run.tiles[t]][m],
   faithful |-> TRUE]

\* It has been added.
Added(p, t, m) ==
  \/ pc = "returned" \/ t < cur
  \/ t = cur /\ m < k
  \/ t = cur /\ m = k /\ Scattering /\ p < w

\* What block i of operand p's gradient holds so far.
Sum(p, i) ==
  UNION {{Term(p, t, m) : m \in {g \in 1 .. Len(run.groups[run.tiles[t]]) :
                                   Added(p, t, g) /\ run.groups[run.tiles[t]][g][p] = i}} :
           t \in 1 .. Len(run.tiles)}

SumInv ==
  /\ pc = "bind" => \A p \in 1 .. run.n : temp[p] = Term(p, cur, k)
  /\ Scattering => \A p \in 1 .. run.n : grad_blocks[p] = Term(p, cur, k)
  /\ pc = "rebind" => temp[1] = Block(w, Groups[k][w], files[Target(w)][Groups[k][w]])
  /\ pc = "add" => existing = Block(w, Groups[k][w], files[Target(w)][Groups[k][w]])
  /\ pc = "write" =>
       temp[1] = Block(w, Groups[k][w], files[Target(w)][Groups[k][w]] \cup {Term(w, cur, k)})
  /\ pc = "allocate" =>
       \A p \in 1 .. run.n : p < w => \A i \in run.grids[p] : files[Target(p)][i] = {}
  /\ Ready =>
       \A p \in 1 .. run.n : \A i \in run.grids[p] : files[Target(p)][i] = Sum(p, i)

GradInv == run # None => SumInv

-----------------------------------------------------------------------------
\* The entries and the length of a sequence that is not empty.
LEMMA NonEmptySeq ==
  ASSUME NEW S, NEW s \in Seq(S), s # << >>
  PROVE  Len(s) \in Nat /\ Len(s) >= 1 /\ \A m \in 1 .. Len(s) : s[m] \in S
  OBVIOUS

\* What the assumptions say of one call.
LEMMA CallFacts ==
  ASSUME NEW c \in Calls
  PROVE  /\ c # None /\ c.n \in Nat /\ c.n >= 1
         /\ Len(c.tiles) \in Nat /\ Len(c.tiles) >= 1
         /\ \A t \in 1 .. Len(c.tiles) : c.tiles[t] \in Tiles(c)
         /\ \A s, t \in 1 .. Len(c.tiles) : c.tiles[s] = c.tiles[t] => s = t
         /\ \A o \in Tiles(c) :
              /\ Len(c.groups[o]) \in Nat /\ Len(c.groups[o]) >= 1
              /\ \A l, m \in 1 .. Len(c.groups[o]) : c.groups[o][l] = c.groups[o][m] => l = m
              /\ \A m \in 1 .. Len(c.groups[o]) :
                   /\ c.groups[o][m] = [p \in 1 .. c.n |-> c.groups[o][m][p]]
                   /\ \A p \in 1 .. c.n :
                        c.groups[o][m][p] \in c.grids[p] /\ c.groups[o][m][p] # None
         /\ \A p, q \in 1 .. c.n :
              Tangent(c.inputs[p]) = Tangent(c.inputs[q]) => c.grids[p] = c.grids[q]
<1>1. WellFormed(c)
  BY CallsAssumption
<1>2. c # None /\ None \notin Indices(c)
  BY NoneAssumption
<1>3. c.n \in Nat /\ c.n >= 1 /\ Len(c.tiles) \in Nat /\ Len(c.tiles) >= 1
  BY <1>1 DEF WellFormed
<1>4. \A t \in 1 .. Len(c.tiles) : c.tiles[t] \in Tiles(c)
  BY DEF Tiles
<1>5. ASSUME NEW o \in Tiles(c)
      PROVE  /\ Len(c.groups[o]) \in Nat /\ Len(c.groups[o]) >= 1
             /\ \A m \in 1 .. Len(c.groups[o]) : c.groups[o][m] \in [1 .. c.n -> Indices(c)]
  <2>1. c.groups[o] \in Seq([1 .. c.n -> Indices(c)]) /\ c.groups[o] # << >>
    BY <1>1 DEF WellFormed
  <2>2. QED
    BY <2>1, NonEmptySeq
<1>6. ASSUME NEW o \in Tiles(c), NEW m \in 1 .. Len(c.groups[o])
      PROVE  /\ c.groups[o][m] = [p \in 1 .. c.n |-> c.groups[o][m][p]]
             /\ \A p \in 1 .. c.n :
                  c.groups[o][m][p] \in c.grids[p] /\ c.groups[o][m][p] # None
  <2>1. c.groups[o][m] \in [1 .. c.n -> Indices(c)]
    BY <1>5
  <2>2. \A p \in 1 .. c.n : c.groups[o][m][p] \in c.grids[p]
    BY <1>1 DEF WellFormed
  <2>3. QED
    BY <1>2, <2>1, <2>2
<1>7. QED
  BY <1>1, <1>2, <1>3, <1>4, <1>5, <1>6 DEF WellFormed

\* What TypeOK says of the d_out block, the group and the operand in hand.
LEMMA HandFacts ==
  ASSUME TypeOK, run # None
  PROVE  /\ run \in Calls /\ run.n \in Nat /\ run.n >= 1
         /\ Len(run.tiles) \in Nat /\ cur \in 1 .. Len(run.tiles)
         /\ Tile \in Tiles(run)
         /\ Len(Groups) \in Nat /\ k \in 1 .. Len(Groups) /\ w \in 1 .. run.n
         /\ Groups[k] = [p \in 1 .. run.n |-> Groups[k][p]]
         /\ \A p \in 1 .. run.n : Groups[k][p] \in run.grids[p] /\ Groups[k][p] # None
<1>1. /\ run \in Calls /\ cur \in 1 .. Len(run.tiles) /\ k \in 1 .. Len(Groups)
      /\ w \in 1 .. run.n
  BY DEF TypeOK
<1>2. Tile \in Tiles(run)
  BY <1>1, CallFacts DEF Tile
<1>3. QED
  BY <1>1, <1>2, CallFacts DEF Groups

\* The first call has not begun.
LEMMA InitStruct == Init => StructInv
  BY CallFacts, MaxRunsAssumption DEF Init, StructInv, TypeOK

-----------------------------------------------------------------------------
\* Every statement of run_backward and _accumulate_grad_block preserves StructInv.
LEMMA NextStruct == StructInv /\ [Next]_vars => StructInv'
<1> SUFFICES ASSUME StructInv, [Next]_vars PROVE StructInv'
  OBVIOUS
<1> USE DEF StructInv
<1>0. pc # "idle" => run # None /\ run \in Calls
  BY DEF TypeOK
<1>1. ASSUME Begin PROVE StructInv'
  <2> USE <1>1 DEF Begin, NoLocals, Nothing
  <2>1. PICK c \in Calls :
          /\ {c.inputs[p] : p \in 1 .. c.n} \cup {c.dout} \subseteq DOMAIN files
          /\ run' = c
          /\ lastIdx' = Nothing(c.n) /\ lastBlock' = Nothing(c.n)
    OBVIOUS
  <2>2. /\ run' # None /\ 1 \in 1 .. Len(c.tiles)
        /\ c.tiles[1] \in Tiles(c) /\ 1 \in 1 .. Len(c.groups[c.tiles[1]]) /\ 1 \in 1 .. c.n
    BY <2>1, CallFacts
  <2>3. TypeOK'
    BY <2>1, <2>2, CallFacts, MaxRunsAssumption DEF TypeOK, Tile, Groups
  <2>4. ListInv'
    BY <2>1 DEF ListInv, Scattering, IsList
  <2>5. HeldInv' /\ FilesInv'
    BY <2>1, <2>2 DEF HeldInv, Grouped, FilesInv, Allocated, Ready, Loaded
  <2>6. QED
    BY <2>3, <2>4, <2>5
<1>2. ASSUME AllocateGrad PROVE StructInv'
  <2> USE <1>2 DEF AllocateGrad, frameVars, readerVars
  <2>1. run # None /\ run' = run /\ w \in 1 .. run.n /\ run.n \in Nat /\ cur = 1 /\ k = 1
    BY <1>0, HandFacts DEF FilesInv
  <2>2. /\ Target(w) \in DOMAIN files' /\ DOMAIN files \subseteq DOMAIN files'
        /\ files'[Target(w)] = [i \in run.grids[w] |-> {}]
        /\ \A path \in DOMAIN files : path # Target(w) => files'[path] = files[path]
    OBVIOUS
  <2>3. ASSUME NEW p \in 1 .. run.n, Allocated(p)'
        PROVE  /\ Target(p) \in DOMAIN files'
               /\ files'[Target(p)] = [i \in run.grids[p] |-> files'[Target(p)][i]]
    <3>1. p <= w
      BY <2>1, <2>3 DEF Allocated, Ready, Loaded
    <3>2. CASE Target(p) = Target(w)
      <4>1. run.grids[p] = run.grids[w]
        BY <1>0, <2>1, <3>2, CallFacts DEF Target
      <4>2. QED
        BY <2>2, <3>2, <4>1
    <3>3. CASE Target(p) # Target(w)
      <4>1. Allocated(p)
        BY <2>1, <2>3, <3>1, <3>3 DEF Allocated, Ready, Loaded
      <4>2. /\ Target(p) \in DOMAIN files
            /\ files[Target(p)] = [i \in run.grids[p] |-> files[Target(p)][i]]
        BY <2>1, <4>1 DEF FilesInv
      <4>3. QED
        BY <2>2, <3>3, <4>2
    <3>4. QED
      BY <3>2, <3>3
  <2>4. TypeOK'
    <3>1. pc' = "tile" => \A p \in 1 .. run.n : DOMAIN files'[Target(p)] = run.grids[p]
      BY <2>3 DEF Allocated, Ready
    <3>2. w' \in 1 .. run.n /\ pc' \in {"allocate", "tile"}
      BY <2>1
    <3>3. QED
      BY <2>1, <2>2, <3>1, <3>2 DEF TypeOK, Tile, Groups, Target
  <2>5. ListInv' /\ HeldInv'
    BY <2>1 DEF ListInv, HeldInv, Scattering, Grouped
  <2>6. FilesInv'
    <3>1. \A p \in 1 .. run.n : Target(p)' = Target(p)
      BY <2>1 DEF Target
    <3>2. \A p \in 1 .. run.n :
            Allocated(p)' =>
              /\ Target(p)' \in DOMAIN files'
              /\ files'[Target(p)'] = [i \in run.grids[p] |-> files'[Target(p)'][i]]
      BY <2>3, <3>1
    <3>3. /\ ({run.inputs[p] : p \in 1 .. run.n} \cup {run.dout} \subseteq DOMAIN before)'
          /\ cur' = 1 /\ k' = 1
      BY <2>1 DEF FilesInv
    <3> HIDE <1>2 DEF AllocateGrad
    <3>4. QED
      BY <2>1, <3>2, <3>3 DEF FilesInv
  <2>7. QED
    BY <2>4, <2>5, <2>6
<1>3. ASSUME LoadDout PROVE StructInv'
  <2> USE <1>3 DEF LoadDout, Charge
  <2>1. TypeOK'
    BY DEF TypeOK, Tile, Groups, Target
  <2>2. ListInv' /\ HeldInv' /\ FilesInv'
    BY <1>0 DEF ListInv, Scattering, HeldInv, Grouped, FilesInv, Allocated, Ready, Loaded, Target
  <2>3. QED
    BY <2>1, <2>2
<1>4. ASSUME ReadReused PROVE StructInv'
  <2> USE <1>4 DEF ReadReused, Reading, Reuse, readerVars
  <2> DEFINE n == Len(building)
  <2>1. run # None /\ run' = run /\ n \in Nat /\ Pos = n + 1 /\ Pos <= run.n
    BY <1>0 DEF Pos, ListInv
  <2>2. /\ IsList(building', n + 1) /\ building'[n + 1] = lastBlock[n + 1]
        /\ \A p \in 1 .. n : building'[p] = building[p]
        /\ Len(building') = n + 1
    BY <2>1, ListAppend, ListLength DEF ListInv
  <2>3. TypeOK'
    BY <2>1, <2>2 DEF TypeOK, Tile, Groups, Target
  <2>4. ListInv'
    BY <2>1, <2>2 DEF ListInv, Scattering
  <2>5. HeldInv'
    BY <2>1, <2>2 DEF HeldInv, Grouped, ListInv
  <2>6. FilesInv'
    BY <2>1 DEF FilesInv, Allocated, Ready, Loaded, Target
  <2>7. QED
    BY <2>3, <2>4, <2>5, <2>6
<1>5. ASSUME ReadFetched PROVE StructInv'
  <2> USE <1>5 DEF ReadFetched, Reading, Fetch
  <2> DEFINE n == Len(building)
             idx == Groups[k][Pos]
             block == Block(Pos, idx, files[run.inputs[Pos]][idx])
  <2>1. /\ run # None /\ run' = run /\ n \in Nat /\ Pos = n + 1 /\ Pos \in 1 .. run.n
        /\ idx \in run.grids[Pos]
    BY <1>0, HandFacts DEF Pos, ListInv
  <2>2. /\ IsList(building', n + 1) /\ building'[n + 1] = block
        /\ \A p \in 1 .. n : building'[p] = building[p]
        /\ Len(building') = n + 1
    BY <2>1, ListAppend, ListLength DEF ListInv
  <2>3. /\ IsList(lastIdx', run.n) /\ IsList(lastBlock', run.n)
        /\ lastIdx'[Pos] = idx /\ lastBlock'[Pos] = block
        /\ \A p \in 1 .. run.n : p # Pos => lastIdx'[p] = lastIdx[p] /\ lastBlock'[p] = lastBlock[p]
    BY <2>1 DEF ListInv, IsList
  <2>4. TypeOK'
    <3>1. \A p \in 1 .. run.n : lastIdx'[p] \in run.grids[p] \cup {None}
      BY <2>1, <2>3 DEF TypeOK
    <3>2. Len(building') <= run.n /\ total_pages' \in Nat
      BY <2>1, <2>2, HandFacts DEF TypeOK
    <3>3. QED
      BY <2>1, <3>1, <3>2 DEF TypeOK, Tile, Groups, Target
  <2>5. ListInv'
    <3>1. /\ pc' = "read" /\ temp' = << >>
          /\ blocks_k' = blocks_k /\ (blocks_k = << >> \/ IsList(blocks_k, run.n))
          /\ grad_blocks' = grad_blocks /\ (grad_blocks = << >> \/ IsList(grad_blocks, run.n))
      BY <2>1 DEF ListInv
    <3> HIDE <1>5 DEF ReadFetched, Reading, Fetch
    <3>2. QED
      BY <2>1, <2>2, <2>3, <3>1 DEF ListInv, Scattering
  <2>6. HeldInv'
    <3>1. pc' = "read" /\ temp' = << >> /\ \A p \in 1 .. n : building[p] = lastBlock[p]
      BY <2>1 DEF HeldInv, ListInv
    <3> HIDE <1>5 DEF ReadFetched, Reading, Fetch
    <3>2. ASSUME NEW p \in 1 .. n + 1 PROVE building'[p] = lastBlock'[p]
      <4>1. CASE p = Pos
        BY <2>1, <2>2, <2>3, <4>1
      <4>2. CASE p # Pos
        <5> HIDE DEF n, idx, block
        <5>1. p \in 1 .. n /\ p \in 1 .. run.n
          <6>1. n \in Nat /\ Pos = n + 1 /\ Pos \in 1 .. run.n /\ run.n \in Nat
            BY <2>1, HandFacts
          <6>2. QED
            BY <4>2, <6>1
        <5>2. QED
          BY <2>2, <2>3, <3>1, <4>2, <5>1
      <4>3. QED
        BY <4>1, <4>2
    <3>3. QED
      BY <2>2, <3>1, <3>2 DEF HeldInv, Grouped
  <2>7. FilesInv'
    <3>1. UNCHANGED << run, pc, cur, k, w, files, before >> /\ FilesInv
      BY <2>1
    <3> HIDE <1>5 DEF ReadFetched, Reading, Fetch
    <3>2. QED
      BY <3>1 DEF FilesInv, Allocated, Ready, Loaded, Target
  <2>8. QED
    BY <2>4, <2>5, <2>6, <2>7
<1>6. ASSUME BindBlocks PROVE StructInv'
  <2> USE <1>6 DEF BindBlocks, readerVars
  <2>1. run # None /\ run' = run /\ Len(building) = run.n /\ run.n \in Nat
    BY <1>0, HandFacts DEF Pos, ListInv, TypeOK
  <2>2. building = lastBlock
    BY <2>1, ListEqual DEF ListInv, HeldInv
  <2>3. TypeOK'
    BY <2>1 DEF TypeOK, Tile, Groups, Target
  <2>4. ListInv'
    BY <2>1 DEF ListInv, Scattering, IsList
  <2>5. HeldInv' /\ FilesInv'
    BY <2>1, <2>2 DEF HeldInv, FilesInv, Allocated, Ready, Loaded, Target
  <2>6. QED
    BY <2>3, <2>4, <2>5
<1>7. ASSUME BackwardBlock PROVE StructInv'
  <2> USE <1>7 DEF BackwardBlock, readerVars
  <2>1. TypeOK'
    BY DEF TypeOK, Tile, Groups, Target
  <2>2. ListInv'
    BY <1>0 DEF ListInv, Scattering, IsList
  <2>3. HeldInv' /\ FilesInv'
    BY <1>0 DEF HeldInv, Grouped, FilesInv, Allocated, Ready, Loaded, Target
  <2>4. QED
    BY <2>1, <2>2, <2>3
<1>8. ASSUME BindGrads PROVE StructInv'
  <2> USE <1>8 DEF BindGrads, readerVars
  <2>1. run # None /\ run.n \in Nat /\ run.n >= 1 /\ Len(temp) = run.n
    BY <1>0, HandFacts, ListLength DEF ListInv
  <2>2. TypeOK'
    BY <2>1 DEF TypeOK, Tile, Groups, Target
  <2>3. ListInv'
    BY <2>1 DEF ListInv, Scattering
  <2>4. HeldInv' /\ FilesInv'
    BY <2>1 DEF HeldInv, Grouped, FilesInv, Allocated, Ready, Loaded, Target
  <2>5. QED
    BY <2>2, <2>3, <2>4
<1>9. ASSUME ReadExisting PROVE StructInv'
  <2> USE <1>9 DEF ReadExisting, Charge
  <2>1. TypeOK'
    BY DEF TypeOK, Tile, Groups, Target
  <2>2. ListInv'
    BY <1>0 DEF ListInv, Scattering, IsList
  <2>3. HeldInv' /\ FilesInv'
    BY <1>0 DEF HeldInv, Grouped, FilesInv, Allocated, Ready, Loaded, Target
  <2>4. QED
    BY <2>1, <2>2, <2>3
<1>10. ASSUME BindExisting PROVE StructInv'
  <2> USE <1>10 DEF BindExisting, readerVars
  <2>1. TypeOK'
    BY DEF TypeOK, Tile, Groups, Target
  <2>2. ListInv'
    BY <1>0 DEF ListInv, Scattering
  <2>3. HeldInv' /\ FilesInv'
    BY <1>0 DEF HeldInv, Grouped, FilesInv, Allocated, Ready, Loaded, Target
  <2>4. QED
    BY <2>1, <2>2, <2>3
<1>11. ASSUME AddGrad PROVE StructInv'
  <2> USE <1>11 DEF AddGrad, readerVars
  <2>1. TypeOK'
    BY DEF TypeOK, Tile, Groups, Target
  <2>2. ListInv'
    BY <1>0 DEF ListInv, Scattering, IsList
  <2>3. HeldInv' /\ FilesInv'
    BY <1>0 DEF HeldInv, Grouped, FilesInv, Allocated, Ready, Loaded, Target
  <2>4. QED
    BY <2>1, <2>2, <2>3
<1>12. ASSUME WriteGrad PROVE StructInv'
  <2> USE <1>12 DEF WriteGrad, Charge
  <2>1. /\ run # None /\ run' = run /\ run.n \in Nat /\ w \in 1 .. run.n
        /\ Groups[k][w] \in run.grids[w] /\ temp' = << >>
        /\ cur \in 1 .. Len(run.tiles) /\ k \in 1 .. Len(Groups)
        /\ Len(run.tiles) \in Nat /\ Len(Groups) \in Nat
    BY <1>0, HandFacts
  <2>2. /\ DOMAIN files' = DOMAIN files
        /\ \A p \in 1 .. run.n :
             /\ Target(p) \in DOMAIN files'
             /\ files'[Target(p)] = [i \in run.grids[p] |-> files'[Target(p)][i]]
    <3>1. Target(w) \in DOMAIN files /\ DOMAIN files' = DOMAIN files
      BY <2>1 DEF FilesInv, Allocated, Ready, Loaded
    <3>2. ASSUME NEW p \in 1 .. run.n
          PROVE  /\ Target(p) \in DOMAIN files'
                 /\ files'[Target(p)] = [i \in run.grids[p] |-> files'[Target(p)][i]]
      <4>1. /\ Target(p) \in DOMAIN files
            /\ files[Target(p)] = [i \in run.grids[p] |-> files[Target(p)][i]]
        BY <2>1 DEF FilesInv, Allocated, Ready, Loaded
      <4>2. CASE Target(p) = Target(w)
        BY <3>1, <4>1, <4>2
      <4>3. CASE Target(p) # Target(w)
        BY <3>1, <4>1, <4>3
      <4>4. QED
        BY <4>2, <4>3
    <3>3. QED
      BY <3>1, <3>2
  <2>3. FilesInv'
    BY <2>1, <2>2 DEF FilesInv, Target, Advance
  <2>4. HeldInv'
    BY <2>1 DEF HeldInv, Grouped, Advance
  <2>5. TypeOK' /\ ListInv'
    <3>1. /\ building' = << >> /\ blocks_k' \in {blocks_k, << >>}
          /\ grad_blocks' \in {grad_blocks, << >>}
          /\ pc' = "existing" => grad_blocks' = grad_blocks
          /\ pc' \in {"existing", "read", "tile", "returned"}
      BY <2>1 DEF ListInv, Advance
    <3>2. cur' \in 1 .. Len(run.tiles) /\ k' \in 1 .. Len(Groups') /\ w' \in 1 .. run.n
      <4>1. CASE cur' = cur
        <5>1. Groups' = Groups
          BY <2>1, <4>1 DEF Groups, Tile
        <5>2. QED
          BY <2>1, <4>1, <5>1 DEF Advance
      <4>2. CASE cur' # cur
        <5>1. cur' = cur + 1 /\ cur' \in 1 .. Len(run.tiles) /\ k' = 1 /\ w' = w
          BY <2>1, <4>2 DEF Advance
        <5>2. Groups' = run.groups[run.tiles[cur']]
          BY <2>1 DEF Groups, Tile
        <5>3. QED
          BY <1>0, <2>1, <5>1, <5>2, CallFacts
      <4>3. QED
        BY <4>1, <4>2
    <3>3. TypeOK'
      BY <2>1, <2>2, <3>1, <3>2 DEF TypeOK, Target
    <3>4. ListInv'
      BY <2>1, <3>1 DEF ListInv, Scattering, IsList
    <3>5. QED
      BY <3>3, <3>4
  <2>6. QED
    BY <2>3, <2>4, <2>5
<1>13. ASSUME Raise PROVE StructInv'
  <2> USE <1>13 DEF Raise, frameVars, readerVars
  <2>1. TypeOK'
    BY <1>0 DEF TypeOK, Tile, Groups
  <2>2. ListInv' /\ HeldInv' /\ FilesInv'
    BY <1>0 DEF ListInv, Scattering, HeldInv, Grouped, FilesInv, Allocated, Ready, Loaded, Target
  <2>3. QED
    BY <2>1, <2>2
<1>14. CASE UNCHANGED vars
  <2> USE <1>14 DEF vars, frameVars, readerVars
  <2>1. TypeOK'
    BY DEF TypeOK, Tile, Groups, Target
  <2>2. (ListInv /\ HeldInv /\ FilesInv) => (ListInv /\ HeldInv /\ FilesInv)'
    BY DEF ListInv, Scattering, HeldInv, Grouped, FilesInv, Allocated, Ready, Loaded, Target
  <2>3. QED
    BY <2>1, <2>2
<1>15. QED
  BY <1>1, <1>2, <1>3, <1>4, <1>5, <1>6, <1>7, <1>8, <1>9, <1>10, <1>11, <1>12, <1>13, <1>14
     DEF Next, Step, Stopped

(***************************************************************************)
(* The loops of run_backward never leave the states they are meant to be   *)
(* in, and every operand's gradient file is there, on the operand's grid,  *)
(* from the end of _allocate_grads on.                                     *)
(***************************************************************************)
LEMMA Structure == Spec => []StructInv
<1>1. QED
  BY InitStruct, NextStruct, PTL DEF Spec

(***************************************************************************)
(* run_backward's variables keep their types, for every op and every call  *)
(* history, with or without exceptions.                                    *)
(***************************************************************************)
THEOREM TypeCorrect == Spec => []TypeOK
<1>1. StructInv => TypeOK
  BY DEF StructInv
<1>2. QED
  BY <1>1, Structure, PTL

-----------------------------------------------------------------------------
\* The list under construction repeats the reader's blocks, and so does blocks_k when an
\* unbound result exists: what is left is three lots of n blocks and two names.
LEMMA HeldIsBounded == StructInv => ResidentBounded
<1> SUFFICES ASSUME StructInv, run # None PROVE Cardinality(Live) <= 3 * run.n + 2
  BY DEF ResidentBounded
<1> USE DEF Held
<1> DEFINE n == run.n
           third == IF temp = << >> THEN blocks_k ELSE temp
           A == Held(lastBlock)
           B == Held(third)
           C == Held(grad_blocks)
<1>1. n \in Nat /\ n >= 1
  BY HandFacts DEF StructInv
<1>2. ListInv /\ HeldInv /\ DOMAIN lastBlock = 1 .. n /\ Len(building) <= n
  BY DEF StructInv, TypeOK, ListInv, IsList
<1>3. IsFiniteSet(A) /\ Cardinality(A) <= n
  BY <1>1, <1>2, ListBound DEF ListInv
<1>4. IsFiniteSet(B) /\ Cardinality(B) <= n
  <2>1. third = << >> \/ IsList(third, n) \/ IsList(third, 1)
    BY <1>2 DEF ListInv
  <2>2. CASE IsList(third, 1)
    <3>1. 1 \in Nat
      OBVIOUS
    <3>2. IsFiniteSet(B) /\ Cardinality(B) <= 1
      BY <2>2, <3>1, ListBound
    <3>3. QED
      BY <1>1, <3>2, FS_CardinalityType
  <2>3. QED
    BY <1>1, <2>1, <2>2, ListBound
<1>5. IsFiniteSet(C) /\ Cardinality(C) <= n
  BY <1>1, <1>2, ListBound DEF ListInv
<1>6. Live \subseteq (((A \cup B) \cup C) \cup {d_out_block}) \cup {existing}
  <2>1. Held(building) \subseteq A
    <3>1. DOMAIN building = 1 .. Len(building) /\ Len(building) \in Nat
      BY <1>2 DEF ListInv, IsList
    <3>2. \A p \in DOMAIN building : p \in DOMAIN lastBlock /\ building[p] = lastBlock[p]
      BY <1>1, <1>2, <3>1 DEF HeldInv
    <3>3. QED
      BY <3>2
  <2>2. Held(blocks_k) \cup Held(temp) \subseteq A \cup B
    <3>1. CASE temp = << >>
      BY <3>1
    <3>2. CASE temp # << >>
      <4>1. blocks_k = lastBlock
        BY <1>2, <3>2 DEF HeldInv
      <4>2. Held(blocks_k) = A /\ Held(temp) = B
        BY <3>2, <4>1
      <4>3. QED
        BY <4>2
    <3>3. QED
      BY <3>1, <3>2
  <2>3. QED
    BY <2>1, <2>2 DEF Live
<1> HIDE DEF third, A, B, C
<1>7. IsFiniteSet(A \cup B) /\ Cardinality(A \cup B) <= n + n
  BY <1>1, <1>3, <1>4, UnionBound
<1>8. IsFiniteSet((A \cup B) \cup C) /\ Cardinality((A \cup B) \cup C) <= (n + n) + n
  <2>1. n + n \in Nat
    BY <1>1
  <2>2. QED
    BY <1>1, <1>5, <1>7, <2>1, UnionBound, Zenon
<1>9. /\ IsFiniteSet(((A \cup B) \cup C) \cup {d_out_block})
      /\ Cardinality(((A \cup B) \cup C) \cup {d_out_block}) <= ((n + n) + n) + 1
  <2>1. (n + n) + n \in Nat
    BY <1>1
  <2>2. QED
    BY <1>8, <2>1, AddOne, Zenon
<1>10. /\ IsFiniteSet((((A \cup B) \cup C) \cup {d_out_block}) \cup {existing})
       /\ Cardinality((((A \cup B) \cup C) \cup {d_out_block}) \cup {existing})
            <= (((n + n) + n) + 1) + 1
  <2>1. ((n + n) + n) + 1 \in Nat
    BY <1>1
  <2>2. QED
    BY <1>9, <2>1, AddOne, Zenon
<1>11. (((n + n) + n) + 1) + 1 \in Nat /\ (((n + n) + n) + 1) + 1 = 3 * n + 2
  BY <1>1
<1>12. Cardinality(Live) <= (((n + n) + n) + 1) + 1
  BY <1>6, <1>10, <1>11, PartBound, ZenonT(40)
<1>13. QED
  BY <1>11, <1>12

(***************************************************************************)
(* However many groups there are and whatever calls came before,           *)
(* run_backward never has more than 3n + 2 blocks alive.                   *)
(***************************************************************************)
THEOREM BackwardResident == Spec => []ResidentBounded
<1>1. QED
  BY Structure, HeldIsBounded, PTL
-----------------------------------------------------------------------------
\* The files a call reads from are there, and none of them is a gradient file of the call.
LEMMA ReadsAreSafe ==
  ASSUME \A c \in Calls : ReadsApart(c), StructInv, run # None
  PROVE  /\ run.dout \in DOMAIN files
         /\ \A q \in 1 .. run.n : run.inputs[q] \in DOMAIN files
         /\ \A p \in 1 .. run.n : Target(p) # run.dout
         /\ \A p, q \in 1 .. run.n : Target(p) # run.inputs[q]
<1>1. run \in Calls /\ FilesInv /\ DOMAIN before \subseteq DOMAIN files
  BY DEF StructInv, TypeOK
<1>2. ReadsApart(run)
  BY <1>1
<1>3. QED
  BY <1>1, <1>2 DEF ReadsApart, Target, FilesInv

\* Nothing has been read before the first call.
LEMMA InitValue == Init => ValueInv
  BY DEF Init, ValueInv, InputsPreserved, ReaderCoherent

\* Every statement leaves the operands and d_out alone and reads what the call found there.
LEMMA NextValue ==
  ASSUME \A c \in Calls : ReadsApart(c)
  PROVE  StructInv /\ ValueInv /\ [Next]_vars => ValueInv'
<1> SUFFICES ASSUME StructInv, ValueInv, [Next]_vars PROVE ValueInv'
  OBVIOUS
<1> USE DEF ValueInv
<1>0. /\ pc # "idle" => run # None /\ run \in Calls
      /\ run # None => ListInv /\ HeldInv /\ FilesInv
  BY DEF StructInv, TypeOK
<1>1. ASSUME Begin PROVE ValueInv'
  <2> USE <1>1 DEF Begin, NoLocals, Nothing
  <2>1. InputsPreserved' /\ ReaderCoherent'
    BY DEF InputsPreserved, ReaderCoherent
  <2>2. Len(building') = 0
    OBVIOUS
  <2>3. ReadInv'
    BY <2>2 DEF ReadInv, Loaded, Grouped
  <2>4. QED
    BY <2>1, <2>3
<1>2. ASSUME AllocateGrad PROVE ValueInv'
  <2> USE <1>2 DEF AllocateGrad, frameVars, readerVars
  <2>1. run # None /\ run' = run /\ w \in 1 .. run.n
    BY <1>0, HandFacts DEF StructInv
  <2>2. /\ files'[run.dout] = files[run.dout]
        /\ \A q \in 1 .. run.n : files'[run.inputs[q]] = files[run.inputs[q]]
    BY <2>1, ReadsAreSafe
  <2>3. UNCHANGED << run, before, lastIdx, lastBlock >>
    OBVIOUS
  <2>4. ReadInv'
    BY <2>1 DEF ReadInv, Loaded, Grouped
  <2> HIDE <1>2
  <2>5. InputsPreserved' /\ ReaderCoherent'
    BY <2>1, <2>2, <2>3 DEF InputsPreserved, ReaderCoherent
  <2>6. QED
    BY <2>4, <2>5
<1>3. ASSUME LoadDout PROVE ValueInv'
  <2> USE <1>3 DEF LoadDout, Charge
  <2>1. run # None /\ building = << >>
    BY <1>0 DEF ListInv
  <2>2. InputsPreserved' /\ ReaderCoherent'
    BY DEF InputsPreserved, ReaderCoherent
  <2>3. ReadInv'
    BY <2>1 DEF ReadInv, Loaded, Grouped, InputsPreserved, Tile
  <2>4. QED
    BY <2>2, <2>3
<1>4. ASSUME ReadReused PROVE ValueInv'
  <2> USE <1>4 DEF ReadReused, Reading, Reuse, readerVars
  <2> DEFINE n == Len(building)
  <2>1. /\ run # None /\ run' = run /\ n \in Nat /\ Pos = n + 1 /\ Pos \in 1 .. run.n
        /\ Groups[k][Pos] # None
    BY <1>0, HandFacts DEF Pos, ListInv, StructInv
  <2>2. /\ building'[n + 1] = lastBlock[Pos] /\ Len(building') = n + 1
        /\ \A p \in 1 .. n : building'[p] = building[p]
    BY <1>0, <2>1, ListAppend, ListLength DEF ListInv
  <2>3. lastBlock[Pos] = Original(Pos, Groups[k][Pos])
    BY <2>1 DEF ReaderCoherent, InputsPreserved, Original
  <2>4. InputsPreserved' /\ ReaderCoherent'
    BY DEF InputsPreserved, ReaderCoherent
  <2>5. ReadInv'
    <3>1. \A p \in 1 .. n + 1 : building'[p] = Original(p, Groups[k][p])
      BY <2>1, <2>2, <2>3 DEF ReadInv
    <3>2. /\ Tile' = Tile /\ Groups' = Groups /\ pc' = "read"
          /\ UNCHANGED << before, k, d_out_block >>
      BY DEF Tile, Groups
    <3>3. d_out_block' = Block(0, Tile, before[run.dout][Tile])
      BY <2>1, <3>2 DEF ReadInv, Loaded
    <3> HIDE <1>4
    <3>4. QED
      BY <2>1, <2>2, <3>1, <3>2, <3>3 DEF ReadInv, Loaded, Grouped, Original
  <2>6. QED
    BY <2>4, <2>5
<1>5. ASSUME ReadFetched PROVE ValueInv'
  <2> USE <1>5 DEF ReadFetched, Reading, Fetch
  <2> DEFINE n == Len(building)
             idx == Groups[k][Pos]
             block == Block(Pos, idx, files[run.inputs[Pos]][idx])
  <2>1. /\ run # None /\ run' = run /\ n \in Nat /\ Pos = n + 1 /\ Pos \in 1 .. run.n
    BY <1>0, HandFacts DEF Pos, ListInv, StructInv
  <2>2. /\ building'[n + 1] = block /\ Len(building') = n + 1
        /\ \A p \in 1 .. n : building'[p] = building[p]
    BY <1>0, <2>1, ListAppend, ListLength DEF ListInv
  <2>3. block = Original(Pos, idx)
    BY <2>1 DEF InputsPreserved, Original
  <2>4. InputsPreserved'
    BY DEF InputsPreserved
  <2>5. ReaderCoherent'
    <3>1. /\ lastIdx'[Pos] = idx /\ lastBlock'[Pos] = block
          /\ \A p \in 1 .. run.n : p # Pos => lastIdx'[p] = lastIdx[p] /\ lastBlock'[p] = lastBlock[p]
      BY <1>0, <2>1 DEF ListInv, IsList
    <3>2. QED
      BY <2>1, <3>1 DEF ReaderCoherent
  <2>6. ReadInv'
    <3>1. \A p \in 1 .. n + 1 : building'[p] = Original(p, Groups[k][p])
      BY <2>1, <2>2, <2>3 DEF ReadInv
    <3>2. /\ Tile' = Tile /\ Groups' = Groups /\ pc' = "read"
          /\ UNCHANGED << before, k, d_out_block >>
      BY DEF Tile, Groups
    <3>3. d_out_block' = Block(0, Tile, before[run.dout][Tile])
      BY <2>1, <3>2 DEF ReadInv, Loaded
    <3> HIDE <1>5
    <3>4. QED
      BY <2>1, <2>2, <3>1, <3>2, <3>3 DEF ReadInv, Loaded, Grouped, Original
  <2>7. QED
    BY <2>4, <2>5, <2>6
<1>6. ASSUME BindBlocks PROVE ValueInv'
  <2> USE <1>6 DEF BindBlocks, readerVars
  <2>1. run # None /\ run' = run /\ Len(building) = run.n /\ run.n \in Nat
    BY <1>0, HandFacts DEF Pos, ListInv, StructInv, TypeOK
  <2>2. InputsPreserved' /\ ReaderCoherent'
    BY DEF InputsPreserved, ReaderCoherent
  <2>3. ReadInv'
    BY <2>1 DEF ReadInv, Loaded, Grouped, Tile, Groups, Original
  <2>4. QED
    BY <2>2, <2>3
<1>7. ASSUME BackwardBlock \/ BindGrads \/ ReadExisting \/ BindExisting \/ AddGrad
      PROVE  ValueInv'
  <2> USE <1>7 DEF BackwardBlock, BindGrads, ReadExisting, BindExisting, AddGrad, Charge, readerVars
  <2>1. InputsPreserved' /\ ReaderCoherent'
    BY DEF InputsPreserved, ReaderCoherent
  <2>2. run # None /\ building = << >>
    BY <1>0 DEF ListInv
  <2>3. ReadInv'
    BY <2>2 DEF ReadInv, Loaded, Grouped, Tile, Groups, Original
  <2>4. QED
    BY <2>1, <2>3
<1>8. ASSUME WriteGrad PROVE ValueInv'
  <2> USE <1>8 DEF WriteGrad, Charge
  <2>1. run # None /\ run' = run /\ w \in 1 .. run.n /\ building = << >>
    BY <1>0, HandFacts DEF StructInv, ListInv
  <2>2. /\ files'[run.dout] = files[run.dout]
        /\ \A q \in 1 .. run.n : files'[run.inputs[q]] = files[run.inputs[q]]
    BY <2>1, ReadsAreSafe
  <2>3. InputsPreserved' /\ ReaderCoherent'
    BY <2>1, <2>2 DEF InputsPreserved, ReaderCoherent
  <2>4. ReadInv'
    <3>1. Len(building') = 0
      BY <2>1 DEF Advance
    <3>2. CASE pc' = "existing"
      BY <2>1, <3>1, <3>2 DEF ReadInv, Advance, Loaded, Grouped, Tile, Groups, Original
    <3>3. CASE pc' = "read"
      <4>1. d_out_block' = d_out_block /\ cur' = cur /\ before' = before
        BY <3>3 DEF Advance
      <4>2. d_out_block = Block(0, Tile, before[run.dout][Tile])
        BY <2>1 DEF ReadInv, Loaded
      <4> HIDE <1>8 DEF WriteGrad, Charge
      <4>3. QED
        BY <2>1, <3>1, <3>3, <4>1, <4>2 DEF ReadInv, Grouped, Tile
    <3>4. CASE pc' \in {"tile", "returned"}
      BY <2>1, <3>1, <3>4 DEF ReadInv, Loaded, Grouped
    <3>5. QED
      BY <3>2, <3>3, <3>4 DEF Advance
  <2>5. QED
    BY <2>3, <2>4
<1>9. ASSUME Raise PROVE ValueInv'
  <2> USE <1>9 DEF Raise, frameVars, readerVars
  <2>1. InputsPreserved' /\ ReaderCoherent'
    BY DEF InputsPreserved, ReaderCoherent
  <2>2. ReadInv'
    BY DEF ReadInv, Loaded, Grouped
  <2>3. QED
    BY <2>1, <2>2
<1>10. CASE UNCHANGED vars
  <2> USE <1>10 DEF vars, frameVars, readerVars
  <2>1. InputsPreserved' /\ ReaderCoherent'
    BY DEF InputsPreserved, ReaderCoherent
  <2>2. ReadInv => ReadInv'
    BY DEF ReadInv, Loaded, Grouped, Tile, Groups, Original
  <2>3. QED
    BY <2>1, <2>2
<1>11. QED
  BY <1>1, <1>2, <1>3, <1>4, <1>5, <1>6, <1>7, <1>8, <1>9, <1>10 DEF Next, Step, Stopped

\* What the loops have read is what the call found, in every state.
LEMMA Values ==
  ASSUME \A c \in Calls : ReadsApart(c)
  PROVE  Spec => []ValueInv
<1>1. QED
  BY InitValue, NextValue, Structure, PTL DEF Spec

(***************************************************************************)
(* A backward call whose operands and d_out are not gradient files of its  *)
(* own leaves every file it reads as it found it.                          *)
(***************************************************************************)
THEOREM InputsStay ==
  ASSUME \A c \in Calls : ReadsApart(c)
  PROVE  Spec => []InputsPreserved
<1>1. ValueInv => InputsPreserved
  BY DEF ValueInv
<1>2. QED
  BY <1>1, Values, PTL

(***************************************************************************)
(* Under the same condition a block the reader hands back unread is what   *)
(* the operand's file holds.                                               *)
(***************************************************************************)
THEOREM ReaderIsCoherent ==
  ASSUME \A c \in Calls : ReadsApart(c)
  PROVE  Spec => []ReaderCoherent
<1>1. ValueInv => ReaderCoherent
  BY DEF ValueInv
<1>2. QED
  BY <1>1, Values, PTL
-----------------------------------------------------------------------------
\* As long as no gradient is written, the sums that the files should hold stay the same.
LEMMA SumKept ==
  ASSUME UNCHANGED << run, runs >>, NEW p, NEW i,
         \A t \in 1 .. Len(run.tiles) : \A m \in 1 .. Len(run.groups[run.tiles[t]]) :
           Added(p, t, m)' <=> Added(p, t, m)
  PROVE  Sum(p, i)' = Sum(p, i)
<1> DEFINE G(t) == {g \in 1 .. Len(run.groups[run.tiles[t]]) :
                      Added(p, t, g) /\ run.groups[run.tiles[t]][g][p] = i}
<1>1. \A t \in 1 .. Len(run.tiles) : G(t)' = G(t)
  OBVIOUS
<1>2. \A t, m : Term(p, t, m)' = Term(p, t, m)
  BY DEF Term
<1>3. QED
  BY <1>1, <1>2 DEF Sum

\* What the loops have added, after the gradient of operand w and group k is written.
LEMMA Progress ==
  ASSUME StructInv, WriteGrad, NEW p \in 1 .. run.n, NEW t \in 1 .. Len(run.tiles),
         NEW m \in 1 .. Len(run.groups[run.tiles[t]])
  PROVE  Added(p, t, m)' <=> Added(p, t, m) \/ (p = w /\ t = cur /\ m = k)
<1>1. /\ run # None /\ pc = "write" /\ run.n \in Nat /\ w \in 1 .. run.n
      /\ Len(run.tiles) \in Nat /\ cur \in 1 .. Len(run.tiles)
      /\ Len(Groups) \in Nat /\ k \in 1 .. Len(Groups)
      /\ t = cur => m \in 1 .. Len(Groups)
      /\ t \in Nat /\ m \in Nat
  <2>1. run # None
    BY DEF WriteGrad, StructInv, TypeOK
  <2>2. run \in Calls /\ run.tiles[t] \in Tiles(run)
    BY <2>1, HandFacts, CallFacts DEF StructInv
  <2>3. QED
    BY <2>1, <2>2, HandFacts, CallFacts DEF WriteGrad, StructInv, Tile, Groups
<1>2. Added(p, t, m) <=> t < cur \/ (t = cur /\ m < k) \/ (t = cur /\ m = k /\ p < w)
  BY <1>1 DEF Added, Scattering
<1>3. CASE w < run.n /\ w' = w + 1 /\ pc' = "existing" /\ cur' = cur /\ k' = k
  BY <1>1, <1>2, <1>3 DEF Added, Scattering
<1>4. CASE w = run.n /\ k < Len(Groups) /\ k' = k + 1 /\ pc' = "read" /\ cur' = cur
  BY <1>1, <1>2, <1>4 DEF Added, Scattering
<1>5. CASE /\ w = run.n /\ k = Len(Groups) /\ k' = 1
           /\ cur < Len(run.tiles) /\ cur' = cur + 1 /\ pc' = "tile"
  BY <1>1, <1>2, <1>5 DEF Added, Scattering
<1>6. CASE w = run.n /\ k = Len(Groups) /\ ~ (cur < Len(run.tiles)) /\ pc' = "returned"
  BY <1>1, <1>2, <1>6 DEF Added
<1>7. QED
  BY <1>3, <1>4, <1>5, <1>6 DEF WriteGrad, Advance

\* The write completes the sum of exactly one block.
LEMMA SumGrows ==
  ASSUME StructInv, WriteGrad, NEW p \in 1 .. run.n, NEW i
  PROVE  Sum(p, i)' = IF p = w /\ i = Groups[k][w] THEN Sum(p, i) \cup {Term(p, cur, k)}
                                                  ELSE Sum(p, i)
<1> DEFINE G(t) == {g \in 1 .. Len(run.groups[run.tiles[t]]) :
                      Added(p, t, g) /\ run.groups[run.tiles[t]][g][p] = i}
           H(t) == {g \in 1 .. Len(run.groups[run.tiles[t]]) :
                      Added(p, t, g)' /\ run.groups[run.tiles[t]][g][p] = i}
<1>1. /\ run' = run /\ runs' = runs
      /\ cur \in 1 .. Len(run.tiles) /\ k \in 1 .. Len(run.groups[run.tiles[cur]])
  <2>1. run # None
    BY DEF WriteGrad, StructInv, TypeOK
  <2>2. QED
    BY <2>1, HandFacts DEF WriteGrad, StructInv, Groups, Tile
<1>2. Sum(p, i) = UNION {{Term(p, t, m) : m \in G(t)} : t \in 1 .. Len(run.tiles)}
  BY DEF Sum
<1>3. Sum(p, i)' = UNION {{Term(p, t, m) : m \in H(t)} : t \in 1 .. Len(run.tiles)}
  <2>1. \A t, m : Term(p, t, m)' = Term(p, t, m)
    BY <1>1 DEF Term
  <2>2. QED
    BY <1>1, <2>1, SMTT(30) DEF Sum
<1>4. \A t \in 1 .. Len(run.tiles) :
        H(t) = IF p = w /\ i = Groups[k][w] /\ t = cur THEN G(t) \cup {k} ELSE G(t)
  BY <1>1, Progress DEF Groups, Tile
<1> HIDE DEF G, H
<1>5. CASE p = w /\ i = Groups[k][w]
  <2>1. \A e : e \in Sum(p, i)' <=> e \in Sum(p, i) \/ e = Term(p, cur, k)
    BY <1>1, <1>2, <1>3, <1>4, <1>5
  <2>2. QED
    BY <1>5, <2>1
<1>6. CASE ~ (p = w /\ i = Groups[k][w])
  BY <1>1, <1>2, <1>3, <1>4, <1>6
<1>7. QED
  BY <1>5, <1>6

\* Two operands of a call never add to the same gradient file.
LEMMA TargetsDiffer ==
  ASSUME \A c \in Calls : TargetsApart(c), TypeOK, run # None
  PROVE  \A p, q \in 1 .. run.n : Target(p) = Target(q) => p = q
  BY DEF TypeOK, TargetsApart, Target

\* No gradient has been added before the first call.
LEMMA InitGrad == Init => GradInv
  BY DEF Init, GradInv

\* Every statement keeps the gradient files at the sums of what has been added.
LEMMA NextGrad ==
  ASSUME \A c \in Calls : ReadsApart(c) /\ TargetsApart(c)
  PROVE  StructInv /\ ValueInv /\ GradInv /\ [Next]_vars => GradInv'
<1> SUFFICES ASSUME StructInv, ValueInv, GradInv, [Next]_vars PROVE GradInv'
  OBVIOUS
<1> USE DEF GradInv
<1>0. /\ pc # "idle" => run # None /\ run \in Calls
      /\ run # None => TypeOK /\ ListInv /\ HeldInv /\ FilesInv /\ ReadInv
  BY DEF StructInv, TypeOK, ValueInv
<1>1. ASSUME Begin PROVE GradInv'
  <2>1. pc' = "allocate" /\ w' = 1
    BY <1>1 DEF Begin
  <2>2. QED
    BY <2>1 DEF SumInv, Ready, Loaded, Scattering
<1>2. ASSUME AllocateGrad PROVE GradInv'
  <2> USE <1>2 DEF AllocateGrad, frameVars, readerVars
  <2>1. /\ run # None /\ run' = run /\ runs' = runs /\ run.n \in Nat /\ w \in 1 .. run.n
        /\ cur' = 1 /\ k' = 1 /\ pc = "allocate"
    BY <1>0, HandFacts DEF FilesInv
  <2>2. \A p \in 1 .. run.n : p < w => Target(p) \in DOMAIN files
    BY <1>0, <2>1 DEF FilesInv, Allocated
  <2>3. \A p \in 1 .. run.n : p <= w =>
          \A i \in run.grids[p] : files'[Target(p)][i] = {}
    <3>1. /\ files'[Target(w)] = [i \in run.grids[w] |-> {}]
          /\ \A path \in DOMAIN files : path # Target(w) => files'[path] = files[path]
      OBVIOUS
    <3> HIDE <1>2
    <3>2. ASSUME NEW p \in 1 .. run.n, p <= w, NEW i \in run.grids[p]
          PROVE  files'[Target(p)][i] = {}
      <4>1. CASE p = w
        BY <3>1, <4>1
      <4>2. CASE p < w
        <5>1. Target(p) # Target(w)
          BY <1>0, <2>1, <4>2, TargetsDiffer
        <5>2. files'[Target(p)] = files[Target(p)]
          BY <2>2, <3>1, <4>2, <5>1
        <5>3. files[Target(p)][i] = {}
          BY <2>1, <4>2 DEF SumInv
        <5>4. QED
          BY <5>2, <5>3
      <4>3. QED
        BY <2>1, <3>2, <4>1, <4>2
    <3>3. QED
      BY <3>2
  <2>4. CASE w < run.n
    <3>1. pc' = "allocate" /\ w' = w + 1
      BY <2>4
    <3> HIDE <1>2
    <3>2. QED
      BY <2>1, <2>3, <3>1 DEF SumInv, Ready, Loaded, Scattering, Target
  <2>5. CASE ~ (w < run.n)
    <3>1. pc' = "tile"
      BY <2>5
    <3> HIDE <1>2
    <3>2. \A p \in 1 .. run.n : \A i \in run.grids[p] : files'[Target(p)][i] = {}
      BY <2>1, <2>3, <2>5
    <3>3. \A p, i : Sum(p, i)' = {}
      <4>1. /\ Len(run.tiles) \in Nat
            /\ \A t \in 1 .. Len(run.tiles) : Len(run.groups[run.tiles[t]]) \in Nat
        BY <1>0, <2>1, CallFacts
      <4>2. \A p : \A t \in 1 .. Len(run.tiles) :
              \A m \in 1 .. Len(run.groups[run.tiles[t]]) : ~ Added(p, t, m)'
        BY <2>1, <3>1, <4>1 DEF Added, Scattering
      <4>3. QED
        BY <2>1, <4>2 DEF Sum
    <3>4. QED
      BY <2>1, <3>1, <3>2, <3>3 DEF SumInv, Loaded, Scattering, Target
  <2>6. QED
    BY <2>4, <2>5
<1>3. ASSUME LoadDout \/ ReadReused \/ ReadFetched \/ BindBlocks PROVE GradInv'
  <2> USE <1>3 DEF LoadDout, ReadReused, ReadFetched, BindBlocks, Reading
  <2>1. /\ run # None /\ UNCHANGED << run, runs, cur, k, w, files >>
        /\ pc \in {"tile", "read"} /\ pc' \in {"read", "compute"}
    BY <1>0
  <2> HIDE <1>3
  <2>2. ASSUME NEW p, NEW i PROVE Sum(p, i)' = Sum(p, i)
    BY <2>1, SumKept DEF Added, Scattering
  <2>3. QED
    BY <2>1, <2>2 DEF SumInv, Ready, Loaded, Scattering, Target
<1>4. ASSUME BackwardBlock PROVE GradInv'
  <2> USE <1>4 DEF BackwardBlock, readerVars
  <2>1. run # None /\ UNCHANGED << run, runs, cur, k, w, files >>
    BY <1>0
  <2>2. ASSUME NEW p, NEW i PROVE Sum(p, i)' = Sum(p, i)
    BY <2>1, SumKept DEF Added, Scattering
  <2>3. ASSUME NEW p \in 1 .. run.n PROVE temp'[p] = Term(p, cur, k)
    <3>1. /\ d_out_block = Block(0, Tile, before[run.dout][Tile])
          /\ \A q \in 1 .. run.n : blocks_k[q] = Original(q, Groups[k][q])
      BY <1>0, <2>1 DEF ReadInv, Loaded, Grouped
    <3> HIDE <1>4
    <3>2. ASSUME NEW q \in 1 .. run.n
          PROVE  /\ blocks_k[q].idx = Groups[k][q]
                 /\ blocks_k[q].data = before[run.inputs[q]][Groups[k][q]]
      <4>1. blocks_k[q] = Original(q, Groups[k][q])
        BY <3>1
      <4>2. QED
        BY <4>1 DEF Block, Original
    <3>3. d_out_block.idx = Tile /\ d_out_block.data = before[run.dout][Tile]
      BY <3>1 DEF Block
    <3>4. Faithful
      BY <3>2, <3>3 DEF Faithful
    <3>5. [q \in 1 .. run.n |-> blocks_k[q].idx] = Groups[k]
      BY <1>0, <2>1, <3>2, HandFacts
    <3> USE <1>4
    <3>6. QED
      BY <3>3, <3>4, <3>5 DEF Contribution, Term, Groups, Tile
  <2>4. QED
    BY <2>1, <2>2, <2>3 DEF SumInv, Ready, Loaded, Scattering, Target, Term
<1>5. ASSUME BindGrads PROVE GradInv'
  <2> USE <1>5 DEF BindGrads, readerVars
  <2>1. run # None /\ UNCHANGED << run, runs, cur, k, files >> /\ w' = 1
    BY <1>0
  <2>2. ASSUME NEW p \in 1 .. run.n, NEW i PROVE Sum(p, i)' = Sum(p, i)
    BY <2>1, SumKept DEF Added, Scattering
  <2>3. QED
    BY <2>1, <2>2 DEF SumInv, Ready, Loaded, Scattering, Target, Term
<1>6. ASSUME ReadExisting \/ BindExisting \/ AddGrad PROVE GradInv'
  <2> USE <1>6 DEF ReadExisting, BindExisting, AddGrad
  <2>1. /\ run # None /\ UNCHANGED << run, runs, cur, k, w, files, grad_blocks >>
        /\ pc \in {"existing", "rebind", "add"} /\ pc' \in {"rebind", "add", "write"}
        /\ w \in 1 .. run.n
    BY <1>0, HandFacts
  <2>2. ASSUME NEW p, NEW i PROVE Sum(p, i)' = Sum(p, i)
    BY <2>1, SumKept DEF Added, Scattering
  <2>3. \A p \in 1 .. run.n : (grad_blocks[p] = Term(p, cur, k))'
    BY <2>1 DEF SumInv, Scattering, Term
  <2>4. (Ready => \A p \in 1 .. run.n : \A i \in run.grids[p] : files[Target(p)][i] = Sum(p, i))'
    BY <2>1, <2>2 DEF SumInv, Ready, Loaded, Target
  <2>5. CASE ReadExisting
    BY <2>1, <2>3, <2>4, <2>5 DEF SumInv, Target, Groups, Tile
  <2>6. CASE BindExisting
    BY <2>1, <2>3, <2>4, <2>6 DEF SumInv, Target, Groups, Tile
  <2>7. CASE AddGrad
    <3>1. /\ existing = Block(w, Groups[k][w], files[Target(w)][Groups[k][w]])
          /\ grad_blocks[w] = Term(w, cur, k)
      BY <2>1, <2>7 DEF SumInv, Scattering
    <3>2. temp'[1] = Block(w, Groups[k][w], files[Target(w)][Groups[k][w]] \cup {Term(w, cur, k)})
      BY <2>7, <3>1 DEF Block
    <3>3. QED
      BY <2>1, <2>3, <2>4, <2>7, <3>2 DEF SumInv, Target, Groups, Tile, Term
  <2>8. QED
    BY <2>5, <2>6, <2>7
<1>7. ASSUME WriteGrad PROVE GradInv'
  <2> DEFINE idx == Groups[k][w]
  <2>1. /\ run # None /\ run' = run /\ runs' = runs /\ w \in 1 .. run.n
        /\ idx \in run.grids[w]
        /\ pc = "write" /\ pc' \in {"existing", "read", "tile", "returned"}
        /\ pc' = "existing" => UNCHANGED << cur, k, grad_blocks >>
    BY <1>0, <1>7, HandFacts DEF WriteGrad, Advance
  <2>2. ASSUME NEW p \in 1 .. run.n, NEW i \in run.grids[p]
        PROVE  files'[Target(p)][i] = Sum(p, i)'
    <3>1. /\ files' = [files EXCEPT ![Target(w)][idx] = files[Target(w)][idx] \cup {Term(w, cur, k)}]
      <4>1. temp[1] = Block(w, idx, files[Target(w)][idx] \cup {Term(w, cur, k)})
        BY <2>1 DEF SumInv
      <4>2. temp[1].data = files[Target(w)][idx] \cup {Term(w, cur, k)}
        BY <4>1 DEF Block
      <4>3. QED
        BY <1>7, <4>2 DEF WriteGrad
    <3>2. /\ Target(w) \in DOMAIN files
          /\ files[Target(w)] = [j \in run.grids[w] |-> files[Target(w)][j]]
          /\ files[Target(p)][i] = Sum(p, i)
      BY <1>0, <2>1 DEF FilesInv, SumInv, Allocated, Ready, Loaded
    <3>3. p # w => Target(p) # Target(w)
      BY <1>0, <2>1, TargetsDiffer
    <3>4. files'[Target(p)][i] = IF p = w /\ i = idx THEN Sum(p, i) \cup {Term(p, cur, k)} ELSE Sum(p, i)
      <4>1. CASE p = w
        BY <2>1, <3>1, <3>2, <4>1
      <4>2. CASE p # w
        BY <3>1, <3>2, <3>3, <4>2
      <4>3. QED
        BY <4>1, <4>2
    <3>5. QED
      BY <1>7, <3>4, SumGrows
  <2>3. pc' = "existing" => \A p \in 1 .. run.n : (grad_blocks[p] = Term(p, cur, k))'
    BY <2>1 DEF SumInv, Scattering, Term
  <2>4. QED
    BY <2>1, <2>2, <2>3 DEF SumInv, Scattering, Target
<1>8. ASSUME Raise PROVE GradInv'
  <2>1. pc' = "raised"
    BY <1>8 DEF Raise
  <2>2. QED
    BY <2>1 DEF SumInv, Ready, Loaded, Scattering
<1>9. CASE UNCHANGED vars
  <2> USE <1>9 DEF vars, frameVars, readerVars
  <2>1. ASSUME NEW p, NEW i PROVE Sum(p, i)' = Sum(p, i)
    BY SumKept DEF Added, Scattering
  <2>2. SumInv => SumInv'
    BY <2>1 DEF SumInv, Ready, Loaded, Scattering, Target, Groups, Tile, Term
  <2>3. QED
    BY <2>2
<1>10. QED
  BY <1>1, <1>2, <1>3, <1>4, <1>5, <1>6, <1>7, <1>8, <1>9 DEF Next, Step, Stopped

\* The gradient files hold the sums of what has been added, in every state.
LEMMA Sums ==
  ASSUME \A c \in Calls : ReadsApart(c) /\ TargetsApart(c)
  PROVE  Spec => []GradInv
<1>1. StructInv /\ ValueInv /\ GradInv /\ [Next]_vars => GradInv'
  BY NextGrad
<1>2. Spec => []ValueInv
  BY Values
<1>3. QED
  BY <1>1, <1>2, InitGrad, Structure, PTL DEF Spec

\* When everything has been added, a block's sum is what index_map sends to it.
LEMMA SumComplete == GradInv /\ StructInv => GradCorrect
<1> SUFFICES ASSUME GradInv, StructInv, pc = "returned", NEW p \in 1 .. run.n
             PROVE  files[Target(p)] = [i \in run.grids[p] |-> ExpectedGrad(p, i)]
  BY DEF GradCorrect
<1>1. run # None
  BY DEF StructInv, TypeOK
<1>2. files[Target(p)] = [i \in run.grids[p] |-> files[Target(p)][i]]
  BY <1>1 DEF StructInv, FilesInv, Allocated, Ready
<1>3. \A i \in run.grids[p] : files[Target(p)][i] = Sum(p, i)
  BY <1>1 DEF GradInv, SumInv, Ready
<1>4. ASSUME NEW i PROVE Sum(p, i) = ExpectedGrad(p, i)
  BY DEF Sum, ExpectedGrad, Added, Term
<1>5. QED
  BY <1>2, <1>3, <1>4

\* What is about to be added is not among what has been: the d_out blocks are different,
\* and so are the groups of each.
LEMMA SumIsNew == GradInv /\ StructInv => AccumulateOnce
<1> SUFFICES ASSUME GradInv, StructInv, pc = "add" PROVE grad_blocks[w] \notin existing.data
  BY DEF AccumulateOnce
<1>1. /\ run # None /\ run \in Calls /\ w \in 1 .. run.n /\ Groups[k][w] \in run.grids[w]
      /\ cur \in 1 .. Len(run.tiles) /\ k \in 1 .. Len(Groups) /\ Tile \in Tiles(run)
      /\ run.n \in Nat /\ Len(run.tiles) \in Nat /\ Len(Groups) \in Nat
  <2>1. run # None
    BY DEF StructInv, TypeOK
  <2>2. QED
    BY <2>1, HandFacts DEF StructInv
<1>2. grad_blocks[w] = Term(w, cur, k)
  BY <1>1 DEF GradInv, SumInv, Scattering
<1>3. existing.data = Sum(w, Groups[k][w])
  <2>1. existing = Block(w, Groups[k][w], files[Target(w)][Groups[k][w]])
    BY <1>1 DEF GradInv, SumInv
  <2>2. files[Target(w)][Groups[k][w]] = Sum(w, Groups[k][w])
    BY <1>1 DEF GradInv, SumInv, Ready, Loaded
  <2>3. QED
    BY <2>1, <2>2 DEF Block
<1>4. ASSUME NEW t \in 1 .. Len(run.tiles), NEW m \in 1 .. Len(run.groups[run.tiles[t]]),
             Term(w, t, m) = Term(w, cur, k)
      PROVE  ~ Added(w, t, m)
  <2>1. run.tiles[t] = run.tiles[cur] /\ run.groups[run.tiles[t]][m] = run.groups[run.tiles[cur]][k]
    BY <1>4 DEF Term
  <2>2. t = cur
    BY <1>1, <2>1, CallFacts
  <2>3. m = k
    BY <1>1, <2>1, <2>2, CallFacts DEF Groups, Tile
  <2>4. QED
    BY <1>1, <2>2, <2>3 DEF Added
<1>5. QED
  BY <1>2, <1>3, <1>4 DEF Sum

(***************************************************************************)
(* Whatever the op, its blocks and the calls before it, returned or raised *)
(* halfway: when run_backward returns, every block of every gradient file  *)
(* is the sum of exactly the contributions index_map sends to it, computed *)
(* from the values the call found.  The operands must be different files,  *)
(* none of them nor d_out a gradient file of the call.                     *)
(***************************************************************************)
THEOREM BackwardCorrect ==
  ASSUME \A c \in Calls : ReadsApart(c) /\ TargetsApart(c)
  PROVE  Spec => []GradCorrect
<1>1. Spec => []GradInv
  BY Sums
<1>2. QED
  BY <1>1, SumComplete, Structure, PTL

(***************************************************************************)
(* Under the same conditions the read-modify-write never adds a            *)
(* contribution to a block that has it already.                            *)
(***************************************************************************)
THEOREM AddsOnce ==
  ASSUME \A c \in Calls : ReadsApart(c) /\ TargetsApart(c)
  PROVE  Spec => []AccumulateOnce
<1>1. Spec => []GradInv
  BY Sums
<1>2. QED
  BY <1>1, SumIsNew, Structure, PTL

-----------------------------------------------------------------------------
\* The fields that from_inputs and derive_page_shape give a call.
LEMMA OpCallFields ==
  ASSUME NEW c, OpCall(c), NEW op, op = c.op, NEW shapes, shapes = c.shapes,
         NEW side, side = c.side
  PROVE  /\ c.n = NumInputs(op) /\ c.pages = [p \in DOMAIN shapes |-> PageOf(side, shapes[p])]
         /\ c.outShape = output_shape(op, shapes)
         /\ c.outPage = PageOf(side, output_shape(op, shapes))
         /\ c.tiles = block_grid(c.outShape, c.outPage)
         /\ c.groups = [o \in {c.tiles[t] : t \in DOMAIN c.tiles} |->
                          index_map(op, shapes, c.pages, o)]
<1> DEFINE call == Call(op, shapes, side)
           pages == [p \in DOMAIN shapes |-> PageOf(side, shapes[p])]
           outShape == output_shape(op, shapes)
           outPage == PageOf(side, outShape)
           tiles == block_grid(outShape, outPage)
           groups == [o \in {tiles[t] : t \in DOMAIN tiles} |-> index_map(op, shapes, pages, o)]
           n == NumInputs(op)
<1>1. call = [op |-> op, side |-> side, n |-> n, shapes |-> shapes, pages |-> pages,
              outShape |-> outShape, outPage |-> outPage, tiles |-> tiles, groups |-> groups]
  BY DEF Call
<1>2. \A field \in DOMAIN call : c[field] = call[field]
  BY DEF OpCall
<1> HIDE DEF call, pages, outShape, outPage, tiles, groups, n
<1>3. DOMAIN call = {"op", "side", "n", "shapes", "pages", "outShape", "outPage", "tiles", "groups"}
  BY <1>1
<1>4. /\ "n" \in DOMAIN call /\ "pages" \in DOMAIN call /\ "outShape" \in DOMAIN call
      /\ "outPage" \in DOMAIN call /\ "tiles" \in DOMAIN call /\ "groups" \in DOMAIN call
  BY <1>3
<1>5. /\ c["n"] = call["n"] /\ c["pages"] = call["pages"] /\ c["outShape"] = call["outShape"]
      /\ c["outPage"] = call["outPage"] /\ c["tiles"] = call["tiles"]
      /\ c["groups"] = call["groups"]
  BY <1>2, <1>4
<1>6. /\ call.n = n /\ call.pages = pages /\ call.outShape = outShape /\ call.outPage = outPage
      /\ call.tiles = tiles /\ call.groups = groups
  BY <1>1
<1>7. /\ c.n = n /\ c.pages = pages /\ c.outShape = outShape /\ c.outPage = outPage
      /\ c.tiles = tiles /\ c.groups = groups
  BY <1>5, <1>6
<1>8. QED
  BY <1>7 DEF n, pages, outShape, outPage, tiles, groups

\* The entries of the list of an array's blocks.
LEMMA GridEntries ==
  ASSUME NEW s \in Shapes, NEW page \in Shapes, Len(page) = Len(s),
         NEW b, b = block_grid(s, page)
  PROVE  /\ Len(b) \in Nat /\ DOMAIN b = 1 .. Len(b) /\ b # << >> /\ Entries(b) = Inside(s, page)
         /\ \A l, m \in DOMAIN b : b[l] = b[m] => l = m
<1>1. /\ b \in Seq(Inside(s, page)) /\ b # << >> /\ \A l, m \in DOMAIN b : b[l] = b[m] => l = m
      /\ \A o \in Inside(s, page) : \E m \in DOMAIN b : b[m] = o
  BY GridLists
<1>2. Len(b) \in Nat /\ DOMAIN b = 1 .. Len(b) /\ \A m \in DOMAIN b : b[m] \in Inside(s, page)
  BY <1>1
<1>3. Entries(b) = Inside(s, page)
  BY <1>1, <1>2 DEF Entries
<1>4. QED
  BY <1>1, <1>2, <1>3

\* A call of an op, in the terms of its shapes and pages.
LEMMA OpCallFacts ==
  ASSUME NEW c, OpCall(c), NEW op, op = c.op, NEW shapes, shapes = c.shapes,
         NEW pages, pages = c.pages, NEW out, out = output_shape(op, shapes)
  PROVE  /\ c.n = NumInputs(op) /\ c.outShape = out /\ Paged(op, shapes, c.side, pages, c.outPage)
         /\ Tiles(c) = Inside(out, c.outPage)
         /\ c.tiles = block_grid(out, c.outPage) /\ 1 <= c.n
         /\ \A o \in Tiles(c) : c.groups[o] = index_map(op, shapes, pages, o)
         /\ \A p \in 1 .. c.n : c.grids[p] = Inside(shapes[p], pages[p])
<1>1. /\ c.n = NumInputs(op) /\ pages = [p \in DOMAIN shapes |-> PageOf(c.side, shapes[p])]
      /\ c.outShape = out /\ c.outPage = PageOf(c.side, out)
      /\ c.tiles = block_grid(out, c.outPage)
      /\ c.groups = [o \in {c.tiles[t] : t \in DOMAIN c.tiles} |-> index_map(op, shapes, pages, o)]
  BY OpCallFields
<1>2. Paged(op, shapes, c.side, pages, c.outPage)
  BY <1>1 DEF Paged, OpCall
<1>3. 1 \in 1 .. NumInputs(op)
  BY DEF NumInputs
<1>4. out \in Shapes /\ c.outPage \in Shapes /\ Len(c.outPage) = Len(out)
  BY <1>2, <1>3, PagedFacts
<1>5. DOMAIN c.tiles = 1 .. Len(c.tiles) /\ Entries(c.tiles) = Inside(out, c.outPage)
  BY <1>1, <1>4, GridEntries
<1>6. Tiles(c) = Inside(out, c.outPage) /\ {c.tiles[t] : t \in DOMAIN c.tiles} = Tiles(c)
  BY <1>5 DEF Tiles, Entries
<1>7. ASSUME NEW p \in 1 .. c.n PROVE c.grids[p] = Inside(shapes[p], pages[p])
  <2>1. shapes[p] \in Shapes /\ pages[p] \in Shapes /\ Len(pages[p]) = Len(shapes[p])
    BY <1>1, <1>2, PagedFacts
  <2>2. c.grids[p] = Entries(block_grid(shapes[p], pages[p]))
    BY DEF OpCall
  <2>3. QED
    BY <2>1, <2>2, GridEntries
<1>8. QED
  BY <1>1, <1>2, <1>3, <1>6, <1>7

\* What a group lists for one operand is one of the call's indices.
LEMMA GroupsAreIndices ==
  ASSUME NEW c, NEW o \in Tiles(c), NEW S, c.groups[o] \in Seq([1 .. c.n -> S]),
         \A m \in 1 .. Len(c.groups[o]) : \A p \in 1 .. c.n : c.groups[o][m][p] \in c.grids[p]
  PROVE  c.groups[o] \in Seq([1 .. c.n -> Indices(c)])
<1> DEFINE g == c.groups[o]
           T == [1 .. c.n -> Indices(c)]
<1>1. \A m \in 1 .. Len(g) : g[m] \in [1 .. c.n -> S]
  OBVIOUS
<1>2. ASSUME NEW m \in 1 .. Len(g) PROVE g[m] \in T
  <2>1. \A p \in 1 .. c.n : g[m][p] \in Indices(c)
    BY DEF Indices
  <2>2. QED
    BY <1>1, <2>1
<1>3. g \in [1 .. Len(g) -> T] /\ Len(g) \in Nat
  <2>1. Len(g) \in Nat /\ g = [m \in 1 .. Len(g) |-> g[m]]
    OBVIOUS
  <2> HIDE DEF g, T
  <2>2. QED
    BY <1>2, <2>1
<1> HIDE DEF g, T
<1>4. g \in Seq(T)
  BY <1>3
<1>5. QED
  BY <1>4 DEF g, T

(***************************************************************************)
(* What OOCBackward takes for granted of a call, every op delivers: the    *)
(* blocks of d_out are listed without repetition, no two groups of a block *)
(* are the same, and each group has one existing block per operand (the    *)
(* index_maps of jask/linalg with block_grid, disk_array.py:370-373).      *)
(***************************************************************************)
THEOREM BackwardCallsAreWellFormed == \A c : OpCall(c) => WellFormed(c)
<1> SUFFICES ASSUME NEW c, OpCall(c) PROVE WellFormed(c)
  OBVIOUS
<1> DEFINE op == c.op
           shapes == c.shapes
           pages == c.pages
           out == output_shape(op, shapes)
<1>1. /\ c.n = NumInputs(op) /\ Paged(op, shapes, c.side, pages, c.outPage)
      /\ Tiles(c) = Inside(out, c.outPage) /\ c.tiles = block_grid(out, c.outPage)
      /\ \A o \in Tiles(c) : c.groups[o] = index_map(op, shapes, pages, o)
      /\ \A p \in 1 .. c.n : c.grids[p] = Inside(shapes[p], pages[p])
  BY OpCallFacts
<1>2. c.n \in Nat \ {0} /\ 1 \in 1 .. c.n
  BY <1>1 DEF NumInputs
<1>3. out \in Shapes /\ c.outPage \in Shapes /\ Len(c.outPage) = Len(out)
  BY <1>1, <1>2, PagedFacts
<1>4. /\ c.tiles \in Seq(Tiles(c)) /\ c.tiles # << >> /\ DOMAIN c.tiles = 1 .. Len(c.tiles)
      /\ \A s, t \in DOMAIN c.tiles : c.tiles[s] = c.tiles[t] => s = t
  BY <1>1, <1>3, GridLists
<1>5. Accepts(op, shapes) /\ c.side \in Nat \ {0} /\ Len(shapes) = c.n
      /\ pages = [p \in DOMAIN shapes |-> PageOf(c.side, shapes[p])]
  BY <1>1 DEF Paged, Accepts
<1> HIDE DEF op, shapes, pages, out
<1>6. ASSUME NEW o \in Tiles(c)
      PROVE  /\ c.groups[o] \in Seq([1 .. c.n -> Indices(c)]) /\ c.groups[o] # << >>
             /\ \A l, m \in 1 .. Len(c.groups[o]) : c.groups[o][l] = c.groups[o][m] => l = m
             /\ \A m \in 1 .. Len(c.groups[o]), p \in 1 .. c.n : c.groups[o][m][p] \in c.grids[p]
  <2> DEFINE g == c.groups[o]
  <2>1. PICK S : g \in Seq([1 .. c.n -> S]) /\ g # << >>
    <3>1. PICK S : /\ index_map(op, shapes, pages, o) \in Seq([1 .. NumInputs(op) -> S])
                   /\ index_map(op, shapes, pages, o) # << >>
      BY <1>5, AcceptedGroups
    <3>2. QED
      BY <1>1, <3>1
  <2>2. DOMAIN g = 1 .. Len(g)
    BY <2>1
  <2>3. Derived(op, shapes, pages, c.outPage, o)
    <3>1. o \in Inside(output_shape(op, shapes), c.outPage)
      BY <1>1 DEF out
    <3>2. QED
      BY <1>1, <3>1, PagedDerived
  <2>4. \A m \in DOMAIN g : \A p \in 1 .. c.n : g[m][p] \in c.grids[p]
    BY <1>1, <2>3 DEF Derived
  <2>5. \A l, m \in DOMAIN g : g[l] = g[m] => l = m
    BY <1>1, <1>2, <2>3 DEF Derived
  <2> HIDE DEF g
  <2>6. g \in Seq([1 .. c.n -> Indices(c)])
    BY <2>1, <2>2, <2>4, GroupsAreIndices DEF g
  <2>7. QED
    BY <2>1, <2>2, <2>4, <2>5, <2>6 DEF g
<1>7. ASSUME NEW p \in 1 .. c.n, NEW q \in 1 .. c.n, Tangent(c.inputs[p]) = Tangent(c.inputs[q])
      PROVE  c.grids[p] = c.grids[q]
  <2>1. shapes[p] = shapes[q]
    <3>1. \A r, t \in 1 .. c.n :
            Tangent(c.inputs[r]) = Tangent(c.inputs[t]) => c.shapes[r] = c.shapes[t]
      BY ONLY OpCall(c) DEF OpCall
    <3>2. QED
      BY <1>7, <3>1 DEF shapes
  <2>2. p \in DOMAIN shapes /\ q \in DOMAIN shapes
    BY <1>5 DEF Accepts
  <2>3. pages[p] = pages[q]
    BY <1>5, <2>1, <2>2
  <2>4. QED
    BY <1>1, <2>1, <2>3
<1>8. QED
  BY <1>2, <1>4, <1>6, <1>7 DEF WellFormed

\* What run_backward adds for group m of block o.
Addition(p, o, m) ==
  [run |-> runs, pos |-> p, tile |-> o, args |-> run.groups[o][m], faithful |-> TRUE]

\* The records a gradient block is made of are those of the groups that contribute to it.
LEMMA ExpectedAdditions ==
  ASSUME TypeOK, run # None, NEW p \in 1 .. run.n, NEW i, NEW t
  PROVE  t \in ExpectedGrad(p, i) <=>
           \E o, m : /\ Contributes(run.op, run.shapes, run.pages, run.outPage, p, i, o, m)
                     /\ t = Addition(p, o, m) /\ run.groups[o] = index_map(run.op, run.shapes, run.pages, o)
<1> DEFINE op == run.op
           shapes == run.shapes
           pages == run.pages
           out == output_shape(op, shapes)
<1>1. run \in Calls /\ OpCall(run)
  BY OpCallsAssumption DEF TypeOK
<1>2. /\ Tiles(run) = Inside(out, run.outPage)
      /\ \A o \in Tiles(run) : run.groups[o] = index_map(op, shapes, pages, o)
  BY <1>1, OpCallFacts
<1>3. \A o \in Tiles(run) : DOMAIN run.groups[o] = 1 .. Len(run.groups[o])
  BY <1>1, CallsAssumption DEF WellFormed
<1>4. t \in ExpectedGrad(p, i) <=>
        \E o \in Tiles(run) : \E m \in DOMAIN run.groups[o] :
          run.groups[o][m][p] = i /\ t = Addition(p, o, m)
  BY <1>3 DEF ExpectedGrad, Tiles, Addition
<1> HIDE DEF op, shapes, pages, out
<1>5. \A o, m : Contributes(op, shapes, pages, run.outPage, p, i, o, m) <=>
                  o \in Tiles(run) /\ m \in DOMAIN run.groups[o] /\ run.groups[o][m][p] = i
  BY <1>2 DEF Contributes, out
<1>6. QED
  BY <1>2, <1>4, <1>5 DEF op, shapes, pages

\* What backward_block computed for such a record.
LEMMA AdditionPart ==
  ASSUME NEW p, NEW o, NEW m, NEW local, NEW t, t = Addition(p, o, m),
         run.groups[o] = index_map(run.op, run.shapes, run.pages, o),
         run.outShape = output_shape(run.op, run.shapes)
  PROVE  backward_block(run.op, run.shapes, run.pages,
                        Blk(t.tile, run.outPage, run.outShape), t.args, p, local)
           = GradientPart(run.op, run.shapes, run.pages, run.outPage, p, o, m, local)
<1>1. t.tile = o /\ t.args = run.groups[o][m]
  BY DEF Addition
<1>2. QED
  BY <1>1 DEF GradientPart

\* A gradient file that got all its contributions holds the derivative.
LEMMA ReturnedGradients == TypeOK /\ GradCorrect => GradientMatchesReference
<1> SUFFICES ASSUME TypeOK, GradCorrect, pc = "returned",
                    NEW p \in 1 .. run.n, NEW i \in run.grids[p],
                    NEW local \in Cells(BlockShape(i, run.pages[p], run.shapes[p]))
             PROVE  LET x == Global(i, run.pages[p], local)
                        terms == files[Target(p)][i]
                        Part(t) == backward_block(run.op, run.shapes, run.pages,
                                                  Blk(t.tile, run.outPage, run.outShape),
                                                  t.args, p, local)
                    IN  /\ UNION {Part(t) : t \in terms} = GradientTerms(run.op, run.shapes, p, x)
                        /\ \A t, u \in terms : t # u => Part(t) \cap Part(u) = {}
  BY DEF GradientMatchesReference
<1> DEFINE op == run.op
           shapes == run.shapes
           pages == run.pages
           side == run.side
           outPage == run.outPage
           x == Global(i, pages[p], local)
           terms == files[Target(p)][i]
           Part(t) == backward_block(op, shapes, pages, Blk(t.tile, outPage, run.outShape),
                                     t.args, p, local)
           G(o, m) == GradientPart(op, shapes, pages, outPage, p, o, m, local)
           C(o, m) == Contributes(op, shapes, pages, outPage, p, i, o, m)
<1>1. run # None /\ run \in Calls /\ OpCall(run)
  BY OpCallsAssumption DEF TypeOK
<1>2. /\ run.n = NumInputs(op) /\ run.outShape = output_shape(op, shapes)
      /\ Paged(op, shapes, side, pages, outPage)
      /\ \A q \in 1 .. run.n : run.grids[q] = Inside(shapes[q], pages[q])
  BY <1>1, OpCallFacts
<1>3. p \in 1 .. NumInputs(op) /\ i \in Inside(shapes[p], pages[p])
  BY <1>2
<1>4. terms = ExpectedGrad(p, i)
  BY DEF GradCorrect
<1>5. \A t : t \in terms <=> \E o, m : C(o, m) /\ t = Addition(p, o, m)
                               /\ run.groups[o] = index_map(op, shapes, pages, o)
  BY <1>1, <1>4, ExpectedAdditions
<1>6. ASSUME NEW t \in terms
      PROVE  \E o, m : C(o, m) /\ t = Addition(p, o, m) /\ Part(t) = G(o, m)
  <2>1. PICK o, m : C(o, m) /\ t = Addition(p, o, m) /\ run.groups[o] = index_map(op, shapes, pages, o)
    BY <1>5
  <2>2. Part(t) = G(o, m)
    BY <1>2, <2>1, AdditionPart
  <2>3. QED
    BY <2>1, <2>2
<1>7. ASSUME NEW o, NEW m, C(o, m)
      PROVE  Addition(p, o, m) \in terms /\ Part(Addition(p, o, m)) = G(o, m)
  <2>1. run.groups[o] = index_map(op, shapes, pages, o)
    <3>1. o \in Tiles(run)
      BY <1>1, <1>7, OpCallFacts DEF Contributes
    <3>2. QED
      BY <1>1, <3>1, OpCallFacts
  <2>2. Addition(p, o, m) \in terms
    BY <1>5, <1>7, <2>1
  <2>3. Part(Addition(p, o, m)) = G(o, m)
    BY <1>2, <2>1, AdditionPart
  <2>4. QED
    BY <2>2, <2>3
<1>8. ASSUME NEW o, NEW m, C(o, m), NEW y \in G(o, m) PROVE y \in GradientTerms(op, shapes, p, x)
  BY <1>2, <1>3, <1>8, GradientPartsBelong
<1>9. ASSUME NEW y \in GradientTerms(op, shapes, p, x) PROVE \E o, m : C(o, m) /\ y \in G(o, m)
  BY <1>2, <1>3, GradientPartsCover
<1>10. ASSUME NEW o, NEW m, C(o, m), NEW q, NEW j, C(q, j), NEW y \in G(o, m), y \in G(q, j)
       PROVE  o = q /\ m = j
  BY <1>2, <1>3, <1>10, GradientPartsOnce
<1> HIDE DEF G, C, Part, terms, x, op, shapes, pages, side, outPage
<1>11. UNION {Part(t) : t \in terms} = GradientTerms(op, shapes, p, x)
  <2>1. ASSUME NEW t \in terms, NEW y \in Part(t) PROVE y \in GradientTerms(op, shapes, p, x)
    BY <1>6, <1>8
  <2>2. ASSUME NEW y \in GradientTerms(op, shapes, p, x) PROVE \E t \in terms : y \in Part(t)
    BY <1>7, <1>9
  <2>3. QED
    BY <2>1, <2>2
<1>12. ASSUME NEW t \in terms, NEW u \in terms, t # u PROVE Part(t) \cap Part(u) = {}
  <2> SUFFICES ASSUME NEW y, y \in Part(t), y \in Part(u) PROVE FALSE
    OBVIOUS
  <2>1. PICK o, m : C(o, m) /\ t = Addition(p, o, m) /\ Part(t) = G(o, m)
    BY <1>6
  <2>2. PICK q, j : C(q, j) /\ u = Addition(p, q, j) /\ Part(u) = G(q, j)
    BY <1>6
  <2>3. o = q /\ m = j
    BY <1>10, <2>1, <2>2
  <2>4. QED
    BY <1>12, <2>1, <2>2, <2>3
<1>13. QED
  BY <1>11, <1>12 DEF Part, terms, x, op, shapes, pages, outPage

(***************************************************************************)
(* For every op on all operands it accepts, whatever the page side, the    *)
(* calls before it and the exceptions that ended some of them: when        *)
(* run_backward returns, each cell of each gradient file is the sum of the *)
(* terms of the derivative of the whole-array op at that cell, each of     *)
(* them once.  The operands must be different files, none of them nor      *)
(* d_out a gradient file of the call.                                      *)
(***************************************************************************)
THEOREM GradientsMatchReference ==
  ASSUME \A c \in Calls : ReadsApart(c) /\ TargetsApart(c)
  PROVE  Spec => []GradientMatchesReference
<1>1. Spec => []GradCorrect
  BY BackwardCorrect
<1>2. QED
  BY <1>1, TypeCorrect, ReturnedGradients, PTL
=============================================================================
