--------------------------- MODULE OOCForward_proofs ---------------------------
(***************************************************************************)
(* Proofs about run_forward for every op, every shape and every number of  *)
(* blocks.  Up to TallyIsExact, Calls is any set of well-formed calls; the *)
(* last section takes calls of the ops of jask/linalg, shows that they are *)
(* well-formed, and compares their results with the whole-array            *)
(* definitions.                                                            *)
(***************************************************************************)
EXTENDS ForwardOps, BlockParallelOps_proofs

(***************************************************************************)
(* The accumulator of the output block in hand after m groups.             *)
(***************************************************************************)
Folded(m) == [tile |-> Tile, terms |-> [j \in 1 .. m |-> Wanted(call, Tile, j)]]
Single == [tile |-> Tile, terms |-> << Wanted(call, Tile, k) >>]

\* The comprehension holds the first blocks of the group in hand, then all of them.
ListInv ==
  /\ pc = "read" => \A p \in 1 .. Len(building) : building[p] = Wanted(call, Tile, k)[p]
  /\ pc \notin {"read", "raised"} => building = << >>
  /\ pc = "compute" => blocks_k = Wanted(call, Tile, k)

\* The names of _compute_output_block hold the folds their position promises.
FoldInv ==
  /\ pc = "allocate" => k = 1
  /\ pc \in {"allocate", "read", "compute", "bind"} =>
       acc = IF k = 1 THEN None ELSE Folded(k - 1)
  /\ pc = "bind" => temp = Single
  /\ pc = "combine" => k > 1 /\ acc = Folded(k - 1) /\ partial = Single
  /\ pc = "fold" => temp = Folded(k)
  /\ pc = "write" => result = Expected(call, Tile) /\ acc = None

\* Exactly the output blocks before the one in hand are written.
OutInv ==
  /\ pc = "allocate" => cur = 1
  /\ pc \in {"read", "compute", "bind", "combine", "fold", "write"} =>
       /\ DOMAIN out = Tiles(call)
       /\ \A t \in 1 .. Len(call.tiles) :
            out[call.tiles[t]] = IF t < cur THEN Expected(call, call.tiles[t]) ELSE None

IInv == TypeOK /\ ReaderCoherent /\ ListInv /\ FoldInv /\ OutInv /\ OutputCorrect

-----------------------------------------------------------------------------
\* The entries and the length of a sequence that is not empty.
LEMMA NonEmptySeq ==
  ASSUME NEW S, NEW s \in Seq(S), s # << >>
  PROVE  Len(s) \in Nat /\ Len(s) >= 1 /\ \A m \in 1 .. Len(s) : s[m] \in S
  OBVIOUS

\* What CallsAssumption and NoneAssumption say of one call: its output blocks are numbered
\* without repetition, and every group names one index per operand.
LEMMA CallFacts ==
  ASSUME NEW c \in Calls
  PROVE  /\ c.n \in Nat /\ c.n >= 1
         /\ c.tiles \in Seq(Tiles(c)) /\ Len(c.tiles) \in Nat /\ Len(c.tiles) >= 1
         /\ \A t \in 1 .. Len(c.tiles) : c.tiles[t] \in Tiles(c)
         /\ \A s, t \in 1 .. Len(c.tiles) : c.tiles[s] = c.tiles[t] => s = t
         /\ \A o \in Tiles(c) : \E t \in 1 .. Len(c.tiles) : o = c.tiles[t]
         /\ \A o \in Tiles(c) : Len(c.groups[o]) \in Nat /\ Len(c.groups[o]) >= 1
         /\ \A o \in Tiles(c) : \A m \in 1 .. Len(c.groups[o]) : \A p \in 1 .. c.n :
              c.groups[o][m][p] \in Indices(c)
         /\ None \notin Indices(c) /\ None \notin InputBlocks(c) /\ None \notin Results(c)
<1>1. WellFormed(c)
  BY CallsAssumption
<1>2. None \notin Indices(c) /\ None \notin InputBlocks(c) /\ None \notin Results(c)
  BY NoneAssumption
<1>3. \A t \in 1 .. Len(c.tiles) : c.tiles[t] \in Tiles(c)
  BY DEF Tiles
<1>4. \A o \in Tiles(c) : \E t \in 1 .. Len(c.tiles) : o = c.tiles[t]
  BY DEF Tiles
<1>5. Len(c.tiles) \in Nat /\ Len(c.tiles) >= 1
  BY <1>1 DEF WellFormed
<1>6. ASSUME NEW o \in Tiles(c)
      PROVE  /\ Len(c.groups[o]) \in Nat /\ Len(c.groups[o]) >= 1
             /\ \A m \in 1 .. Len(c.groups[o]) : \A p \in 1 .. c.n :
                  c.groups[o][m][p] \in Indices(c)
  <2>1. c.groups[o] \in Seq([1 .. c.n -> Indices(c)]) /\ c.groups[o] # << >>
    BY <1>1 DEF WellFormed
  <2>2. /\ Len(c.groups[o]) \in Nat /\ Len(c.groups[o]) >= 1
        /\ \A m \in 1 .. Len(c.groups[o]) : c.groups[o][m] \in [1 .. c.n -> Indices(c)]
    BY <2>1, NonEmptySeq
  <2>3. QED
    BY <2>2
<1>7. QED
  BY <1>1, <1>2, <1>3, <1>4, <1>5, <1>6 DEF WellFormed

\* Every group is a list of input blocks, and every finished fold is a result.
LEMMA WantedType ==
  ASSUME NEW c \in Calls, NEW o \in Tiles(c), NEW m \in 1 .. Len(c.groups[o])
  PROVE  /\ Wanted(c, o, m) \in Operands(c)
         /\ [tile |-> o, terms |-> << Wanted(c, o, m) >>] \in Results(c)
<1>1. \A p \in 1 .. c.n : c.groups[o][m][p] \in Indices(c)
  BY CallFacts
<1>2. Wanted(c, o, m) \in Operands(c)
  BY <1>1 DEF Wanted, Operands, InputBlocks, Block
<1>3. << Wanted(c, o, m) >> \in Seq(Operands(c))
  BY <1>2
<1>4. QED
  BY <1>2, <1>3 DEF Results

\* Appending one more group to the fold of the first m.
LEMMA FoldStep ==
  ASSUME NEW c, NEW o, NEW m \in Nat
  PROVE  [j \in 1 .. m |-> Wanted(c, o, j)] \o << Wanted(c, o, m + 1) >>
           = [j \in 1 .. m + 1 |-> Wanted(c, o, j)]
  OBVIOUS

\* The fold of one group is that group's partial.
LEMMA FoldOne ==
  ASSUME NEW c, NEW o
  PROVE  << Wanted(c, o, 1) >> = [j \in 1 .. 1 |-> Wanted(c, o, j)]
  OBVIOUS

(***************************************************************************)
(* What TypeOK says of the output block, the group and the position in hand. *)
(***************************************************************************)
LEMMA HandFacts ==
  ASSUME TypeOK
  PROVE  /\ call \in Calls /\ call.n \in Nat /\ call.n >= 1
         /\ Len(call.tiles) \in Nat /\ cur \in 1 .. Len(call.tiles)
         /\ Tile \in Tiles(call)
         /\ Len(Groups) \in Nat /\ k \in 1 .. Len(Groups)
         /\ Len(building) \in Nat /\ Pos = Len(building) + 1
         /\ \A p \in 1 .. call.n :
              /\ Groups[k][p] \in Indices(call) /\ Groups[k][p] # None
              /\ Wanted(call, Tile, k)[p] = Block(p, Groups[k][p])
              /\ Block(p, Groups[k][p]) \in InputBlocks(call)
         /\ Wanted(call, Tile, k) \in Operands(call)
         /\ Single \in Results(call)
         /\ \A m \in 0 .. Len(Groups) : Folded(m) \in Results(call) /\ Folded(m) # None
<1>1. /\ call \in Calls /\ cur \in 1 .. Len(call.tiles) /\ k \in 1 .. Len(Groups)
      /\ Len(building) \in Nat /\ Pos = Len(building) + 1
  BY DEF TypeOK, Pos
<1>2. /\ call.n \in Nat /\ call.n >= 1 /\ Len(call.tiles) \in Nat
      /\ Tile \in Tiles(call) /\ Len(Groups) \in Nat
      /\ None \notin Indices(call) /\ None \notin Results(call)
  BY <1>1, CallFacts DEF Tile, Groups
<1>3. ASSUME NEW p \in 1 .. call.n
      PROVE  /\ Groups[k][p] \in Indices(call) /\ Groups[k][p] # None
             /\ Wanted(call, Tile, k)[p] = Block(p, Groups[k][p])
             /\ Block(p, Groups[k][p]) \in InputBlocks(call)
  <2>1. Groups[k][p] \in Indices(call)
    BY <1>1, <1>2, CallFacts DEF Groups
  <2>2. QED
    BY <1>2, <2>1 DEF Wanted, Groups, Block, InputBlocks
<1>4. Wanted(call, Tile, k) \in Operands(call) /\ Single \in Results(call)
  BY <1>1, <1>2, WantedType DEF Single, Groups
<1>5. ASSUME NEW m \in 0 .. Len(Groups)
      PROVE  Folded(m) \in Results(call) /\ Folded(m) # None
  <2>1. \A j \in 1 .. m : Wanted(call, Tile, j) \in Operands(call)
    <3>1. \A j \in 1 .. m : j \in 1 .. Len(call.groups[Tile])
      BY <1>2 DEF Groups
    <3>2. QED
      BY <1>1, <1>2, <3>1, WantedType
  <2>2. [j \in 1 .. m |-> Wanted(call, Tile, j)] \in Seq(Operands(call))
    BY <1>2, <2>1
  <2>3. QED
    BY <1>2, <2>2 DEF Folded, Results
<1>6. QED
  BY <1>1, <1>2, <1>3, <1>4, <1>5

\* run_forward starts in a state of the inductive invariant.
LEMMA InitIInv == Init => IInv
<1> SUFFICES ASSUME Init PROVE IInv
  OBVIOUS
<1> USE DEF Init
<1>1. TypeOK
  BY CallFacts DEF TypeOK, Nothing, Groups, Tile
<1>2. ReaderCoherent
  BY DEF ReaderCoherent, Nothing
<1>3. QED
  BY <1>1, <1>2 DEF IInv, ListInv, FoldInv, OutInv, OutputCorrect

-----------------------------------------------------------------------------
\* Every statement of run_forward and _compute_output_block preserves the invariant.
LEMMA NextIInv == IInv /\ [Next]_vars => IInv'
<1> SUFFICES ASSUME IInv, [Next]_vars PROVE IInv'
  OBVIOUS
<1> USE DEF IInv
<1>1. ASSUME AllocateOutput PROVE IInv'
  <2> USE <1>1 DEF AllocateOutput, frameVars, readerVars
  <2>1. TypeOK'
    BY HandFacts DEF TypeOK, Tile, Groups
  <2>2. ReaderCoherent'
    BY DEF ReaderCoherent
  <2>3. ListInv' /\ FoldInv'
    BY HandFacts DEF TypeOK, ListInv, FoldInv, Folded, Tile
  <2>4. OutInv' /\ OutputCorrect'
    BY HandFacts, CallFacts DEF OutInv, OutputCorrect
  <2>5. QED
    BY <2>1, <2>2, <2>3, <2>4
<1>2. ASSUME ReadReused PROVE IInv'
  <2> USE <1>2 DEF ReadReused, Reading, Reuse, readerVars
  <2>1. Pos \in 1 .. call.n
    BY HandFacts
  <2>2. lastBlock[Pos] = Wanted(call, Tile, k)[Pos] /\ lastBlock[Pos] \in InputBlocks(call)
    BY <2>1, HandFacts DEF ReaderCoherent
  <2>3. building' \in Seq(InputBlocks(call)) /\ Len(building') <= call.n
    BY <2>1, <2>2, HandFacts DEF TypeOK
  <2>4. TypeOK'
    BY <2>3 DEF TypeOK, Tile, Groups
  <2>5. ReaderCoherent' /\ FoldInv' /\ OutInv' /\ OutputCorrect'
    BY DEF ReaderCoherent, FoldInv, Folded, Single, Tile, OutInv, OutputCorrect
  <2>6. ListInv'
    BY <2>2, HandFacts DEF ListInv, TypeOK, Tile
  <2>7. QED
    BY <2>4, <2>5, <2>6
<1>3. ASSUME ReadFetched PROVE IInv'
  <2> DEFINE block == Block(Pos, Groups[k][Pos])
  <2> USE <1>3 DEF ReadFetched, Reading, Fetch
  <2>1. /\ block = Wanted(call, Tile, k)[Pos] /\ Pos \in 1 .. call.n
        /\ block \in InputBlocks(call) /\ block.idx \in Indices(call)
        /\ block = Block(Pos, block.idx)
    BY HandFacts DEF Block
  <2>2. TypeOK'
    <3>1. building' \in Seq(InputBlocks(call)) /\ Len(building') <= call.n
      BY <2>1, HandFacts DEF TypeOK
    <3>2. /\ lastIdx' \in [1 .. call.n -> Indices(call) \cup {None}]
          /\ lastBlock' \in [1 .. call.n -> InputBlocks(call) \cup {None}]
      BY <2>1 DEF TypeOK
    <3>3. QED
      BY <3>1, <3>2 DEF TypeOK, Tile, Groups
  <2>3. ReaderCoherent'
    BY <2>1 DEF ReaderCoherent, TypeOK
  <2>4. FoldInv' /\ OutInv' /\ OutputCorrect'
    BY DEF FoldInv, Folded, Single, Tile, OutInv, OutputCorrect
  <2>5. ListInv'
    BY HandFacts, <2>1 DEF ListInv, TypeOK, Tile, Pos
  <2>6. QED
    BY <2>2, <2>3, <2>4, <2>5
<1>4. ASSUME BindBlocks PROVE IInv'
  <2> USE <1>4 DEF BindBlocks, readerVars
  <2>1. building = Wanted(call, Tile, k)
    <3>1. Len(building) = call.n /\ DOMAIN building = 1 .. call.n
      BY HandFacts DEF TypeOK
    <3>2. \A p \in 1 .. call.n : building[p] = Wanted(call, Tile, k)[p]
      BY <3>1 DEF ListInv
    <3>3. building = [p \in 1 .. call.n |-> building[p]]
      BY <3>1 DEF TypeOK
    <3>4. QED
      BY <3>2, <3>3 DEF Wanted
  <2>2. TypeOK'
    BY HandFacts, <2>1 DEF TypeOK, Tile, Groups
  <2>3. ReaderCoherent' /\ FoldInv' /\ OutInv' /\ OutputCorrect'
    BY DEF ReaderCoherent, FoldInv, Folded, Single, Tile, OutInv, OutputCorrect
  <2>4. ListInv'
    BY <2>1 DEF ListInv, Tile
  <2>5. QED
    BY <2>2, <2>3, <2>4
<1>5. ASSUME ForwardBlock PROVE IInv'
  <2> USE <1>5 DEF ForwardBlock, readerVars
  <2>1. temp' = Single
    BY DEF ListInv, Single
  <2>2. TypeOK'
    BY HandFacts, <2>1, WantedType DEF TypeOK, Tile, Groups, Single
  <2>3. ReaderCoherent' /\ OutInv' /\ OutputCorrect' /\ ListInv'
    BY DEF ReaderCoherent, OutInv, OutputCorrect, ListInv, Tile
  <2>4. FoldInv'
    BY <2>1 DEF FoldInv, Folded, Single, Tile
  <2>5. QED
    BY <2>2, <2>3, <2>4
<1>6. ASSUME BindFirst PROVE IInv'
  <2> USE <1>6 DEF BindFirst, NextGroup, readerVars
  <2>1. k = 1
    BY HandFacts DEF FoldInv
  <2>2. temp = Folded(1) /\ temp \in Results(call)
    BY HandFacts, <2>1, FoldOne DEF FoldInv, Single, Folded
  <2>3. TypeOK'
    BY HandFacts, <2>2 DEF TypeOK, Tile, Groups
  <2>4. ReaderCoherent' /\ OutInv' /\ OutputCorrect' /\ ListInv'
    BY DEF ReaderCoherent, OutInv, OutputCorrect, ListInv, Tile
  <2>5. FoldInv'
    <3>1. k = Len(Groups) => Folded(1) = Expected(call, Tile)
      BY <2>1 DEF Folded, Expected, Groups
    <3>2. CASE k < Len(Groups)
      BY <3>2, HandFacts, <2>1, <2>2 DEF FoldInv, Folded, Tile
    <3>3. CASE k = Len(Groups)
      BY <3>1, <3>3, HandFacts, <2>1, <2>2 DEF FoldInv, Tile
    <3>4. QED
      BY <3>2, <3>3, HandFacts
  <2>6. QED
    BY <2>3, <2>4, <2>5
<1>7. ASSUME BindPartial PROVE IInv'
  <2> USE <1>7 DEF BindPartial, readerVars
  <2>1. temp = Single /\ temp \in Results(call)
    BY HandFacts, WantedType DEF FoldInv, Single, Groups
  <2>2. TypeOK'
    BY HandFacts, <2>1 DEF TypeOK, Tile, Groups
  <2>3. ReaderCoherent' /\ OutInv' /\ OutputCorrect' /\ ListInv'
    BY DEF ReaderCoherent, OutInv, OutputCorrect, ListInv, Tile
  <2>4. FoldInv'
    BY HandFacts, <2>1 DEF FoldInv, Folded, Single, Tile
  <2>5. QED
    BY <2>2, <2>3, <2>4
<1>8. ASSUME Combine PROVE IInv'
  <2> USE <1>8 DEF Combine, readerVars
  <2>1. temp' = Folded(k)
    <3>1. k - 1 \in Nat /\ k = (k - 1) + 1
      BY HandFacts DEF FoldInv
    <3>2. [j \in 1 .. k - 1 |-> Wanted(call, Tile, j)] \o << Wanted(call, Tile, k) >>
            = [j \in 1 .. k |-> Wanted(call, Tile, j)]
      BY <3>1, FoldStep
    <3>3. acc = Folded(k - 1) /\ partial = Single
      BY DEF FoldInv
    <3>4. /\ acc.tile = Tile /\ partial.terms = << Wanted(call, Tile, k) >>
          /\ acc.terms = [j \in 1 .. k - 1 |-> Wanted(call, Tile, j)]
      BY <3>3 DEF Single, Folded
    <3>5. QED
      BY <3>2, <3>4 DEF Folded
  <2>2. temp' \in Results(call)
    <3>1. k \in 0 .. Len(Groups)
      BY HandFacts
    <3>2. Folded(k) \in Results(call)
      BY <3>1, HandFacts
    <3>3. QED
      BY <2>1, <3>2
  <2>3. TypeOK'
    BY HandFacts, <2>2 DEF TypeOK, Tile, Groups
  <2>4. ReaderCoherent' /\ OutInv' /\ OutputCorrect' /\ ListInv'
    BY DEF ReaderCoherent, OutInv, OutputCorrect, ListInv, Tile
  <2>5. FoldInv'
    BY HandFacts, <2>1 DEF FoldInv, Folded, Single, Tile
  <2>6. QED
    BY <2>3, <2>4, <2>5
<1>9. ASSUME BindAcc PROVE IInv'
  <2> USE <1>9 DEF BindAcc, NextGroup, readerVars
  <2>1. temp = Folded(k)
    BY DEF FoldInv
  <2>2. TypeOK'
    BY HandFacts DEF TypeOK, Tile, Groups
  <2>3. ReaderCoherent' /\ OutInv' /\ OutputCorrect' /\ ListInv'
    BY DEF ReaderCoherent, OutInv, OutputCorrect, ListInv, Tile
  <2>4. FoldInv'
    <3>1. k = Len(Groups) => Folded(k) = Expected(call, Tile)
      BY DEF Folded, Expected, Groups
    <3>2. CASE k < Len(Groups)
      BY <3>2, HandFacts, <2>1 DEF FoldInv, Folded, Tile
    <3>3. CASE k = Len(Groups)
      BY <3>1, <3>3, HandFacts, <2>1 DEF FoldInv, Tile
    <3>4. QED
      BY <3>2, <3>3, HandFacts
  <2>5. QED
    BY <2>2, <2>3, <2>4
<1>10. ASSUME WriteBlock PROVE IInv'
  <2> USE <1>10 DEF WriteBlock, frameVars, Charge
  <2>1. /\ result = Expected(call, Tile) /\ Tile \in DOMAIN out
        /\ out' = [out EXCEPT ![Tile] = Expected(call, Tile)]
    BY HandFacts DEF FoldInv, OutInv
  <2>2. Expected(call, Tile) \in Results(call)
    BY HandFacts, SMTT(30) DEF Folded, Expected, Groups
  <2>3. CASE cur < Len(call.tiles)
    <3>1. Tile' \in Tiles(call) /\ Len(Groups') \in Nat /\ Len(Groups') >= 1
      <4>1. call' = call /\ cur' = cur + 1 /\ cur' \in 1 .. Len(call.tiles)
        BY <2>3, HandFacts
      <4>2. Tile' = call.tiles[cur'] /\ Groups' = call.groups[Tile']
        BY <4>1 DEF Tile, Groups
      <4>3. QED
        BY <4>1, <4>2, HandFacts, CallFacts
    <3>2. TypeOK'
      BY <2>1, <2>2, <2>3, <3>1, HandFacts DEF TypeOK
    <3>3. ReaderCoherent' /\ ListInv' /\ FoldInv'
      <4>1. pc' = "read" /\ k' = 1 /\ acc = None /\ building = << >>
        BY <2>3 DEF FoldInv, ListInv
      <4>2. QED
        BY <4>1 DEF ReaderCoherent, ListInv, FoldInv
    <3>4. OutInv'
      <4>1. /\ call' = call /\ pc' = "read" /\ cur' = cur + 1
            /\ DOMAIN out = Tiles(call) /\ DOMAIN out' = Tiles(call)
        BY <2>1, <2>3 DEF OutInv
      <4>2. ASSUME NEW t \in 1 .. Len(call.tiles)
            PROVE  out'[call.tiles[t]]
                     = IF t < cur + 1 THEN Expected(call, call.tiles[t]) ELSE None
        <5>1. t = cur \/ call.tiles[t] # Tile
          BY HandFacts, CallFacts DEF Tile
        <5>2. call.tiles[t] \in DOMAIN out
          BY <4>1, HandFacts, CallFacts
        <5>3. out[call.tiles[t]] = IF t < cur THEN Expected(call, call.tiles[t]) ELSE None
          BY DEF OutInv
        <5>4. CASE t = cur
          BY <2>1, <5>4, HandFacts DEF Tile
        <5>5. CASE t # cur
          BY <2>1, <5>1, <5>2, <5>3, <5>5, HandFacts
        <5>6. QED
          BY <5>4, <5>5
      <4>3. QED
        BY <4>1, <4>2 DEF OutInv
    <3>6. OutputCorrect'
      BY <2>1, <2>3 DEF OutputCorrect
    <3>5. QED
      BY <3>2, <3>3, <3>4, <3>6
  <2>4. CASE cur = Len(call.tiles)
    <3>1. TypeOK'
      BY <2>1, <2>2, <2>4, HandFacts DEF TypeOK, Tile, Groups
    <3>2. ReaderCoherent' /\ ListInv' /\ FoldInv' /\ OutInv'
      BY <2>4 DEF ReaderCoherent, ListInv, FoldInv, OutInv
    <3>3. OutputCorrect'
      <4>1. \A o \in DOMAIN out' : out'[o] \in {None, Expected(call, o)}
        BY <2>1 DEF OutputCorrect
      <4>2. ASSUME NEW o \in Tiles(call)
            PROVE  o \in DOMAIN out' /\ out'[o] = Expected(call, o)
        <5>1. PICK t \in 1 .. Len(call.tiles) : o = call.tiles[t]
          BY HandFacts, CallFacts
        <5>2. DOMAIN out = Tiles(call)
          BY DEF OutInv
        <5>3. CASE t = cur
          BY <2>1, <5>1, <5>2, <5>3 DEF Tile
        <5>4. CASE t # cur
          <6>1. out[o] = Expected(call, o)
            BY <2>4, <5>1, <5>4, HandFacts DEF OutInv
          <6>2. QED
            BY <2>1, <5>2, <6>1
        <5>5. QED
          BY <5>3, <5>4
      <4>3. QED
        BY <4>1, <4>2 DEF OutputCorrect
    <3>4. QED
      BY <3>1, <3>2, <3>3
  <2>5. QED
    BY <2>3, <2>4, HandFacts
<1>11. ASSUME Raise PROVE IInv'
  <2> USE <1>11 DEF Raise, frameVars, readerVars
  <2>1. TypeOK' /\ ReaderCoherent' /\ OutputCorrect'
    BY DEF TypeOK, Tile, Groups, ReaderCoherent, OutputCorrect
  <2>2. ListInv' /\ FoldInv' /\ OutInv'
    BY DEF ListInv, FoldInv, OutInv
  <2>3. QED
    BY <2>1, <2>2
<1>12. CASE UNCHANGED vars
  BY <1>12 DEF vars, frameVars, readerVars, TypeOK, Tile, Groups, ReaderCoherent, ListInv,
     FoldInv, Folded, Single, OutInv, OutputCorrect
<1>13. QED
  BY <1>1, <1>2, <1>3, <1>4, <1>5, <1>6, <1>7, <1>8, <1>9, <1>10, <1>11, <1>12
     DEF Next, Step, Stopped

(***************************************************************************)
(* The inductive invariant holds throughout: the names of the two frames,  *)
(* the reader and the file agree on the output block and group in hand.    *)
(***************************************************************************)
THEOREM Invariant == Spec => []IInv
<1>1. QED
  BY InitIInv, NextIInv, PTL DEF Spec

(***************************************************************************)
(* The loops never leave the states they are meant to be in.               *)
(***************************************************************************)
THEOREM TypeCorrect == Spec => []TypeOK
<1>1. IInv => TypeOK
  BY DEF IInv
<1>2. QED
  BY <1>1, Invariant, PTL

(***************************************************************************)
(* The reader never hands back another block than the one asked for.       *)
(***************************************************************************)
THEOREM ReaderIsCoherent == Spec => []ReaderCoherent
<1>1. IInv => ReaderCoherent
  BY DEF IInv
<1>2. QED
  BY <1>1, Invariant, PTL

(***************************************************************************)
(* Whatever the op, its shapes and its blocks: each block run_forward      *)
(* writes is the fold of its groups, each once and in order, and all       *)
(* blocks are written when it returns.                                     *)
(***************************************************************************)
THEOREM ForwardCorrect == Spec => []OutputCorrect
<1>1. IInv => OutputCorrect
  BY DEF IInv
<1>2. QED
  BY <1>1, Invariant, PTL
-----------------------------------------------------------------------------
(***************************************************************************)
(* How many device arrays are alive.  The list under construction repeats  *)
(* the reader's blocks; so does blocks_k whenever an unbound result        *)
(* exists.  What is left is at most two lots of n blocks and three names,  *)
(* or one lot and four.                                                    *)
(***************************************************************************)
HeldInv ==
  /\ \A p \in 1 .. Len(building) : building[p] = lastBlock[p]
  /\ pc \in {"compute", "bind", "combine", "fold"} => blocks_k = lastBlock
  /\ pc \notin {"bind", "fold"} => temp = None

\* Nothing is held when run_forward starts.
LEMMA InitHeldInv == Init => HeldInv
  BY DEF Init, HeldInv

\* Every statement keeps the lists within the reader's blocks as HeldInv says.
LEMMA NextHeldInv == IInv /\ HeldInv /\ [Next]_vars => HeldInv'
<1> SUFFICES ASSUME IInv, HeldInv, [Next]_vars PROVE HeldInv'
  OBVIOUS
<1> USE DEF HeldInv
<1>0. TypeOK /\ ReaderCoherent /\ ListInv
  BY DEF IInv
<1>1. CASE AllocateOutput
  BY <1>1 DEF AllocateOutput, frameVars, readerVars
<1>2. CASE ReadReused
  BY <1>0, <1>2, HandFacts DEF ReadReused, Reading, Reuse, readerVars, TypeOK
<1>3. CASE ReadFetched
  <2> DEFINE block == Block(Pos, Groups[k][Pos])
  <2>1. /\ building' = Append(building, block) /\ pc' = "read" /\ temp' = temp
        /\ lastBlock' = [lastBlock EXCEPT ![Pos] = block]
        /\ Pos = Len(building) + 1 /\ Pos \in 1 .. call.n /\ pc = "read"
    BY <1>0, <1>3, HandFacts DEF ReadFetched, Reading, Fetch, Block
  <2>2. \A p \in 1 .. Len(building') : building'[p] = lastBlock'[p]
    BY <1>0, <2>1 DEF TypeOK
  <2>3. QED
    BY <2>1, <2>2
<1>4. CASE BindBlocks
  <2>1. DOMAIN building = 1 .. call.n /\ DOMAIN lastBlock = 1 .. call.n
    BY <1>0, <1>4, HandFacts DEF BindBlocks, TypeOK
  <2>2. building = [p \in 1 .. call.n |-> building[p]]
    BY <1>0, <2>1 DEF TypeOK
  <2>3. lastBlock = [p \in 1 .. call.n |-> lastBlock[p]]
    BY <1>0, <2>1 DEF TypeOK
  <2>4. Len(building) = call.n
    BY <1>0, <1>4, HandFacts DEF BindBlocks, TypeOK
  <2>5. building = lastBlock
    BY <2>2, <2>3, <2>4
  <2>6. QED
    BY <1>4, <2>5 DEF BindBlocks, readerVars
<1>5. CASE ForwardBlock
  BY <1>5 DEF ForwardBlock, readerVars
<1>6. CASE BindFirst
  BY <1>6 DEF BindFirst, NextGroup, readerVars
<1>7. CASE BindPartial
  BY <1>7 DEF BindPartial, readerVars
<1>8. CASE Combine
  BY <1>8 DEF Combine, readerVars
<1>9. CASE BindAcc
  BY <1>9 DEF BindAcc, NextGroup, readerVars
<1>10. CASE WriteBlock
  BY <1>10 DEF WriteBlock, frameVars
<1>11. CASE Raise
  BY <1>11 DEF Raise, frameVars, readerVars
<1>12. CASE UNCHANGED vars
  BY <1>12 DEF vars, frameVars, readerVars
<1>13. QED
  BY <1>1, <1>2, <1>3, <1>4, <1>5, <1>6, <1>7, <1>8, <1>9, <1>10, <1>11, <1>12
     DEF Next, Step, Stopped

\* In a state of both invariants at most 2n + 3 blocks are alive.
LEMMA HeldIsBounded == IInv /\ HeldInv => ResidentBounded
<1> SUFFICES ASSUME IInv, HeldInv PROVE ResidentBounded
  OBVIOUS
<1> DEFINE n == call.n
           Cached == {lastBlock[p] : p \in 1 .. n}
           Bound == Held(blocks_k)
           Three == {partial, acc, result}
<1>1. n \in Nat /\ n >= 1 /\ Len(building) \in Nat /\ Len(building) <= n
  BY HandFacts DEF IInv, TypeOK
<1>2. Held(building) \subseteq Cached
  BY <1>1 DEF HeldInv, Held
<1>3. IsFiniteSet(Cached) /\ Cardinality(Cached) <= n
  BY <1>1, ImageBound
<1>4. IsFiniteSet(Three) /\ Cardinality(Three) <= 3
  <2>1. IsFiniteSet({partial}) /\ Cardinality({partial}) <= 1
    <3>1. IsFiniteSet({partial}) /\ Cardinality({partial}) = 1
      BY FS_Singleton, Zenon
    <3>2. QED
      BY <3>1
  <2>2. IsFiniteSet({partial} \cup {acc}) /\ Cardinality({partial} \cup {acc}) <= 1 + 1
    <3>1. 1 \in Nat
      OBVIOUS
    <3>2. QED
      BY <2>1, <3>1, AddOne, Zenon
  <2>3. /\ IsFiniteSet(({partial} \cup {acc}) \cup {result})
        /\ Cardinality(({partial} \cup {acc}) \cup {result}) <= (1 + 1) + 1
    <3>1. 1 + 1 \in Nat
      OBVIOUS
    <3>2. QED
      BY <2>2, <3>1, AddOne, Zenon
  <2>4. Three = ({partial} \cup {acc}) \cup {result}
    OBVIOUS
  <2>5. QED
    BY <2>3, <2>4
<1>5. CASE temp = None
  <2>1. IsFiniteSet(Bound) /\ Cardinality(Bound) <= n
    <3>1. CASE blocks_k = << >>
      <4>1. Bound = {}
        BY <3>1 DEF Held
      <4>2. QED
        BY <1>1, <4>1, FS_EmptySet
    <3>2. CASE blocks_k \in Operands(call)
      <4>1. DOMAIN blocks_k = 1 .. n
        BY <3>2 DEF Operands
      <4>2. Len(blocks_k) = n
        BY <1>1, <3>2, <4>1 DEF Operands
      <4>3. Bound = {blocks_k[p] : p \in 1 .. n}
        BY <4>2 DEF Held
      <4>4. QED
        BY <1>1, <4>3, ImageBound
    <3>3. QED
      BY <3>1, <3>2 DEF IInv, TypeOK
  <2>2. Live \subseteq (Cached \cup Bound) \cup Three
    BY <1>2, <1>5 DEF Live
  <2>3. /\ IsFiniteSet(Cached \cup Bound)
        /\ Cardinality(Cached \cup Bound) <= n + n
    BY <1>1, <1>3, <2>1, UnionBound
  <2>4. /\ IsFiniteSet((Cached \cup Bound) \cup Three)
        /\ Cardinality((Cached \cup Bound) \cup Three) <= (n + n) + 3
    <3>1. n + n \in Nat /\ 3 \in Nat
      BY <1>1
    <3>2. QED
      BY <1>4, <2>3, <3>1, UnionBound, Zenon
  <2>5. Cardinality(Live) <= Cardinality((Cached \cup Bound) \cup Three)
    BY <2>2, <2>4, FS_Subset
  <2>6. /\ Cardinality(Live) \in Nat
        /\ Cardinality((Cached \cup Bound) \cup Three) \in Nat
    BY <2>2, <2>4, FS_Subset, FS_CardinalityType
  <2>7. QED
    BY <1>1, <2>4, <2>5, <2>6 DEF ResidentBounded
<1>6. CASE temp # None
  <2>1. blocks_k = lastBlock /\ DOMAIN lastBlock = 1 .. n
    BY <1>6 DEF HeldInv, IInv, TypeOK
  <2>2. Bound \subseteq Cached
    <3>1. blocks_k \in Operands(call) \/ blocks_k = << >>
      BY DEF IInv, TypeOK
    <3>2. CASE blocks_k \in Operands(call)
      BY <1>1, <2>1, <3>2 DEF Held, Operands
    <3>3. CASE blocks_k = << >>
      BY <3>3 DEF Held
    <3>4. QED
      BY <3>1, <3>2, <3>3
  <2>3. Live \subseteq (Cached \cup Three) \cup {temp}
    BY <1>2, <2>2 DEF Live
  <2>4. IsFiniteSet(Cached \cup Three) /\ Cardinality(Cached \cup Three) <= n + 3
    BY <1>1, <1>3, <1>4, UnionBound
  <2>5. /\ IsFiniteSet((Cached \cup Three) \cup {temp})
        /\ Cardinality((Cached \cup Three) \cup {temp}) <= (n + 3) + 1
    <3>1. n + 3 \in Nat
      BY <1>1
    <3>2. QED
      BY <2>4, <3>1, AddOne, Zenon
  <2>6. Cardinality(Live) <= Cardinality((Cached \cup Three) \cup {temp})
    BY <2>3, <2>5, FS_Subset
  <2>7. /\ Cardinality(Live) \in Nat
        /\ Cardinality((Cached \cup Three) \cup {temp}) \in Nat
    BY <2>3, <2>5, FS_Subset, FS_CardinalityType
  <2>8. QED
    BY <1>1, <2>5, <2>6, <2>7 DEF ResidentBounded
<1>7. QED
  BY <1>5, <1>6

(***************************************************************************)
(* However many groups an output block folds, run_forward never has more   *)
(* than 2n + 3 blocks alive: the accumulation is out of core indeed.       *)
(***************************************************************************)
THEOREM ForwardResident == Spec => []ResidentBounded
<1>1. Init => HeldInv
  BY InitHeldInv
<1>2. IInv /\ HeldInv /\ [Next]_vars => HeldInv'
  BY NextHeldInv
<1>3. QED
  BY <1>1, <1>2, Invariant, HeldIsBounded, PTL DEF Spec
-----------------------------------------------------------------------------
(***************************************************************************)
(* The I/O tally.  What has been charged for is one page per block written *)
(* and one per read passed so far at which the index changed.              *)
(***************************************************************************)
\* How many positions of the group in hand the reader has been asked for.
Position == IF pc \in {"allocate", "read"} THEN Len(building) ELSE call.n

Passed(r) ==
  \/ pc = "returned"
  \/ r[1] < cur
  \/ r[1] = cur /\ (r[2] < k \/ (r[2] = k /\ r[3] <= Position))

Charged == {r \in IndexChanges(call) : Passed(r)}
Written == IF pc = "returned" THEN Len(call.tiles) ELSE cur - 1

\* The reader remembers what was asked for last at every position.
LastInv ==
  pc \notin {"returned", "raised"} =>
    /\ \A p \in 1 .. call.n :
         lastIdx[p] = IF p <= Position THEN Asked(call, cur, k, p)
                                       ELSE AskedBefore(call, cur, k, p)
    /\ pc = "write" => k = Len(Groups)

TallyInv ==
  pc # "raised" => IsFiniteSet(Charged) /\ total_pages = Written + Cardinality(Charged)

\* A read is a position of a group of an output block.
LEMMA ReadsType ==
  ASSUME NEW c \in Calls, NEW r \in Reads(c)
  PROVE  /\ r[1] \in 1 .. Len(c.tiles) /\ r[2] \in 1 .. Len(c.groups[c.tiles[r[1]]])
         /\ r[3] \in 1 .. c.n /\ r = << r[1], r[2], r[3] >>
<1>1. PICK t \in 1 .. Len(c.tiles) :
        r \in {<< t, m, p >> : m \in 1 .. Len(c.groups[c.tiles[t]]), p \in 1 .. c.n}
  BY DEF Reads
<1>2. PICK m \in 1 .. Len(c.groups[c.tiles[t]]), p \in 1 .. c.n : r = << t, m, p >>
  BY <1>1
<1>3. QED
  BY <1>2

\* A statement that asks for nothing leaves the tally alone.
LEMMA TallyKept ==
  ASSUME TallyInv, pc # "raised", call' = call, total_pages' - Written' = total_pages - Written,
         total_pages \in Int, total_pages' \in Int, Written \in Int, Written' \in Int,
         \A r \in Reads(call) : Passed(r)' <=> Passed(r)
  PROVE  TallyInv'
<1>1. Charged' = Charged
  <2>1. IndexChanges(call)' = IndexChanges(call)
    BY DEF IndexChanges, Asked, AskedBefore, Reads
  <2>2. \A r \in IndexChanges(call) : Passed(r)' <=> Passed(r)
    BY DEF IndexChanges
  <2>3. QED
    BY <2>1, <2>2 DEF Charged
<1>2. IsFiniteSet(Charged) /\ total_pages = Written + Cardinality(Charged)
  BY DEF TallyInv
<1>3. Cardinality(Charged) \in Int
  BY <1>2, FS_CardinalityType
<1>4. total_pages' = Written' + Cardinality(Charged)
  BY <1>2, <1>3
<1>5. QED
  BY <1>1, <1>2, <1>4 DEF TallyInv

\* A read that is passed is charged for if its index changed, and not otherwise.
LEMMA TallyRead ==
  ASSUME TypeOK, TallyInv, pc = "read", Pos <= call.n, call' = call, pc' = pc, cur' = cur, k' = k,
         Len(building') = Len(building) + 1,
         total_pages' = IF Groups[k][Pos] # AskedBefore(call, cur, k, Pos)
                          THEN total_pages + 1 ELSE total_pages
  PROVE  TallyInv'
<1> DEFINE new == << cur, k, Pos >>
<1>1. /\ call \in Calls /\ cur \in 1 .. Len(call.tiles) /\ k \in 1 .. Len(Groups)
      /\ Len(building) \in Nat /\ Pos = Len(building) + 1 /\ call.n \in Nat
      /\ Len(Groups) \in Nat /\ Len(call.tiles) \in Nat /\ total_pages \in Nat
  BY HandFacts DEF TypeOK
<1>2. new \in Reads(call)
  <2>1. k \in 1 .. Len(call.groups[call.tiles[cur]]) /\ Pos \in 1 .. call.n
    BY <1>1 DEF Groups, Tile
  <2>2. QED
    BY <1>1, <2>1 DEF Reads
<1>3. ~Passed(new)
  BY <1>1 DEF Passed, Position
<1>4. ASSUME NEW r \in Reads(call) PROVE Passed(r)' <=> Passed(r) \/ r = new
  <2>1. /\ r[1] \in Nat /\ r[2] \in Nat /\ r[3] \in 1 .. call.n /\ r = << r[1], r[2], r[3] >>
    BY <1>1, ReadsType
  <2>2. r = new <=> r[1] = cur /\ r[2] = k /\ r[3] = Pos
    BY <2>1
  <2> HIDE DEF new
  <2>3. QED
    BY <1>1, <2>1, <2>2 DEF Passed, Position
<1>5. IsFiniteSet(Charged) /\ total_pages = Written + Cardinality(Charged)
  BY DEF TallyInv
<1>6. Cardinality(Charged) \in Nat /\ Written \in Int /\ Written' = Written
  BY <1>1, <1>5, FS_CardinalityType DEF Written
<1>7. new \in IndexChanges(call) <=> Groups[k][Pos] # AskedBefore(call, cur, k, Pos)
  BY <1>2 DEF IndexChanges, Asked, Groups, Tile
<1>8. Charged' = {r \in IndexChanges(call) : Passed(r)'}
  BY DEF Charged, IndexChanges, Asked, AskedBefore, Reads
<1>9. IndexChanges(call) \subseteq Reads(call)
  BY DEF IndexChanges
<1> HIDE DEF new
<1>10. CASE Groups[k][Pos] # AskedBefore(call, cur, k, Pos)
  <2>1. Charged' = Charged \cup {new} /\ new \notin Charged
    BY <1>3, <1>4, <1>7, <1>8, <1>9, <1>10 DEF Charged
  <2>2. IsFiniteSet(Charged') /\ Cardinality(Charged') = Cardinality(Charged) + 1
    BY <1>5, <2>1, FS_AddElement
  <2>3. QED
    BY <1>1, <1>5, <1>6, <1>10, <2>2 DEF TallyInv
<1>11. CASE ~ (Groups[k][Pos] # AskedBefore(call, cur, k, Pos))
  <2>1. Charged' = Charged
    BY <1>4, <1>7, <1>8, <1>9, <1>11 DEF Charged
  <2>2. QED
    BY <1>5, <1>6, <1>11, <2>1 DEF TallyInv
<1>12. QED
  BY <1>10, <1>11

\* Nothing has been asked for and nothing charged when run_forward starts.
LEMMA InitTally == Init => LastInv /\ TallyInv
<1> SUFFICES ASSUME Init PROVE LastInv /\ TallyInv
  OBVIOUS
<1>1. /\ call \in Calls /\ pc = "allocate" /\ cur = 1 /\ k = 1 /\ building = << >>
      /\ lastIdx = Nothing(call.n) /\ total_pages = 0
  BY DEF Init
<1>2. call.n \in Nat
  BY <1>1, CallFacts
<1>3. Position = 0
  BY <1>1 DEF Position
<1>4. LastInv
  <2>1. \A p \in 1 .. call.n : lastIdx[p] = None /\ ~ (p <= Position)
    BY <1>1, <1>2, <1>3 DEF Nothing
  <2>2. \A p \in 1 .. call.n : AskedBefore(call, cur, k, p) = None
    BY <1>1 DEF AskedBefore
  <2>3. QED
    BY <1>1, <2>1, <2>2 DEF LastInv
<1>5. TallyInv
  <2>1. \A r \in Reads(call) : ~Passed(r)
    <3>1. \A r \in Reads(call) : r[1] >= 1 /\ r[2] >= 1 /\ r[3] >= 1 /\ r[1] \in Nat
                                   /\ r[2] \in Nat /\ r[3] \in Nat
      BY <1>1, <1>2, CallFacts, ReadsType
    <3>2. QED
      BY <1>1, <1>3, <3>1 DEF Passed
  <2>2. Charged = {}
    BY <2>1 DEF Charged, IndexChanges
  <2>3. QED
    BY <1>1, <2>2, FS_EmptySet DEF TallyInv, Written
<1>6. QED
  BY <1>4, <1>5

\* Every statement of the loops keeps both.
LEMMA NextTally ==
  ASSUME IInv, IInv', LastInv, TallyInv, [Next]_vars
  PROVE  LastInv' /\ TallyInv'
<1> DEFINE n == call.n
<1>1. /\ call \in Calls /\ cur \in 1 .. Len(call.tiles) /\ k \in 1 .. Len(Groups)
      /\ Len(building) \in Nat /\ Pos = Len(building) + 1 /\ Len(building) <= n /\ n \in Nat
      /\ Len(Groups) \in Nat /\ Len(call.tiles) \in Nat /\ total_pages \in Nat /\ TypeOK
      /\ total_pages' \in Nat /\ cur' \in Int /\ Written \in Int
  BY HandFacts DEF IInv, TypeOK, Written
<1>2. ASSUME NEW r \in Reads(call)
      PROVE  /\ r[1] \in 1 .. Len(call.tiles) /\ r[2] \in 1 .. Len(call.groups[call.tiles[r[1]]])
             /\ r[1] \in Nat /\ r[2] \in Nat /\ r[3] \in 1 .. n /\ r[3] \in Nat
             /\ r[1] = cur => r[2] <= Len(Groups)
  <2>1. \A t \in 1 .. Len(call.tiles) : Len(call.groups[call.tiles[t]]) \in Nat
    BY <1>1, CallFacts
  <2>2. /\ r[1] \in 1 .. Len(call.tiles) /\ r[2] \in 1 .. Len(call.groups[call.tiles[r[1]]])
        /\ r[3] \in 1 .. n
    BY <1>1, ReadsType
  <2>3. Len(call.groups[call.tiles[r[1]]]) \in Nat
    BY <2>1, <2>2
  <2>4. r[1] = cur => Len(call.groups[call.tiles[r[1]]]) = Len(Groups)
    BY DEF Groups, Tile
  <2>5. r[1] \in Nat /\ r[2] \in Nat /\ r[3] \in Nat
    BY <1>1, <2>2, <2>3
  <2>6. ASSUME r[1] = cur PROVE r[2] <= Len(Groups)
    <3>1. r[2] <= Len(call.groups[call.tiles[r[1]]])
      BY <2>2, <2>3
    <3>2. QED
      BY <2>4, <2>6, <3>1
  <2>7. QED
    BY <2>2, <2>5, <2>6
<1>3. \A p \in 1 .. n : Asked(call, cur, k, p) = Groups[k][p]
  BY DEF Asked, Groups, Tile
<1>4. pc \notin {"read", "raised"} => building = << >> /\ Len(building) = 0
  BY DEF IInv, ListInv
<1>5. CASE AllocateOutput
  <2>1. /\ pc = "allocate" /\ pc' = "read" /\ call' = call /\ cur' = cur /\ k' = k
        /\ building' = building /\ lastIdx' = lastIdx /\ total_pages' = total_pages
    BY <1>5 DEF AllocateOutput, frameVars, readerVars
  <2>2. Position' = Position /\ Written' = Written
    BY <2>1 DEF Position, Written
  <2>3. TallyInv'
    <3>1. \A r \in Reads(call) : Passed(r)' <=> Passed(r)
      BY <2>1, <2>2 DEF Passed
    <3>2. QED
      BY <1>1, <2>1, <2>2, <3>1, TallyKept
  <2>4. LastInv'
    BY <2>1, <2>2 DEF LastInv, Asked, AskedBefore
  <2>5. QED
    BY <2>3, <2>4
<1>6. CASE ReadReused \/ ReadFetched
  <2>1. /\ pc = "read" /\ Pos <= n /\ pc' = pc /\ call' = call /\ cur' = cur /\ k' = k
        /\ Len(building') = Len(building) + 1 /\ Pos \in 1 .. n
    BY <1>1, <1>6 DEF ReadReused, ReadFetched, Reading, IInv, TypeOK
  <2>2. lastIdx[Pos] = AskedBefore(call, cur, k, Pos)
    <3>1. ~ (Pos <= Position)
      BY <1>1, <2>1 DEF Position
    <3>2. QED
      BY <2>1, <3>1 DEF LastInv
  <2>3. /\ total_pages' = IF Groups[k][Pos] # AskedBefore(call, cur, k, Pos)
                            THEN total_pages + 1 ELSE total_pages
        /\ lastIdx' = [lastIdx EXCEPT ![Pos] = Groups[k][Pos]]
    <3>1. lastIdx \in [1 .. n -> Indices(call) \cup {None}]
      BY DEF IInv, TypeOK
    <3>2. CASE ReadReused
      <4>1. Groups[k][Pos] = lastIdx[Pos] /\ lastIdx' = lastIdx /\ total_pages' = total_pages
        BY <3>2 DEF ReadReused, Reuse, readerVars
      <4>2. lastIdx = [lastIdx EXCEPT ![Pos] = Groups[k][Pos]]
        BY <3>1, <4>1
      <4>3. QED
        BY <2>2, <4>1, <4>2
    <3>3. CASE ReadFetched
      <4>1. /\ Groups[k][Pos] # lastIdx[Pos] /\ total_pages' = total_pages + 1
            /\ lastIdx' = [lastIdx EXCEPT ![Pos] = Groups[k][Pos]]
        BY <3>3 DEF ReadFetched, Fetch, Block
      <4>2. QED
        BY <2>2, <4>1
    <3>4. QED
      BY <1>6, <3>2, <3>3
  <2>4. TallyInv'
    BY <1>1, <2>1, <2>3, TallyRead
  <2>5. LastInv'
    <3>1. Position' = Pos /\ Position = Pos - 1
      BY <1>1, <2>1 DEF Position
    <3>2. ASSUME NEW p \in 1 .. n
          PROVE  lastIdx'[p] = IF p <= Pos THEN Asked(call, cur, k, p)
                                           ELSE AskedBefore(call, cur, k, p)
      <4>1. lastIdx \in [1 .. n -> Indices(call) \cup {None}]
        BY DEF IInv, TypeOK
      <4>2. CASE p = Pos
        BY <1>3, <2>1, <2>3, <4>1, <4>2
      <4>3. CASE p # Pos
        <5>1. lastIdx'[p] = lastIdx[p]
          BY <2>3, <4>1, <4>3
        <5>2. lastIdx[p] = IF p <= Position THEN Asked(call, cur, k, p)
                                            ELSE AskedBefore(call, cur, k, p)
          BY <2>1 DEF LastInv
        <5>3. p <= Position <=> p <= Pos
          BY <1>1, <3>1, <4>3
        <5>4. QED
          BY <5>1, <5>2, <5>3
      <4>4. QED
        BY <4>2, <4>3
    <3>3. QED
      BY <2>1, <3>1, <3>2 DEF LastInv, Asked, AskedBefore
  <2>6. QED
    BY <2>4, <2>5
<1>7. CASE BindBlocks \/ ForwardBlock \/ BindPartial \/ Combine
  <2>1. /\ pc \in {"read", "compute", "bind", "combine"} /\ pc' \in {"compute", "bind", "combine", "fold"}
        /\ call' = call /\ cur' = cur /\ k' = k /\ lastIdx' = lastIdx
        /\ total_pages' = total_pages /\ (pc = "read" => Pos > n)
    BY <1>7 DEF BindBlocks, ForwardBlock, BindPartial, Combine, readerVars
  <2>2. Position' = n /\ Position = n
    BY <1>1, <2>1 DEF Position
  <2>3. Written' = Written
    BY <2>1 DEF Written
  <2>4. TallyInv'
    <3>1. \A r \in Reads(call) : Passed(r)' <=> Passed(r)
      BY <2>1, <2>2 DEF Passed
    <3>2. QED
      BY <1>1, <2>1, <2>3, <3>1, TallyKept
  <2>5. LastInv'
    BY <2>1, <2>2 DEF LastInv, Asked, AskedBefore
  <2>6. QED
    BY <2>4, <2>5
<1>8. CASE BindFirst \/ BindAcc
  <2>1. /\ pc \in {"bind", "fold"} /\ call' = call /\ cur' = cur /\ building' = building
        /\ lastIdx' = lastIdx /\ total_pages' = total_pages
        /\ IF k < Len(Groups) THEN k' = k + 1 /\ pc' = "read" ELSE k' = k /\ pc' = "write"
    BY <1>8 DEF BindFirst, BindAcc, NextGroup, readerVars
  <2>2. Position = n /\ Len(building) = 0
    BY <1>4, <2>1 DEF Position
  <2>3. Written' = Written
    BY <2>1 DEF Written
  <2>4. \A p \in 1 .. n : lastIdx[p] = Asked(call, cur, k, p)
    BY <1>1, <2>1, <2>2 DEF LastInv
  <2>5. CASE k < Len(Groups)
    <3>1. k' = k + 1 /\ pc' = "read" /\ Position' = 0
      BY <2>1, <2>2, <2>5 DEF Position
    <3>2. \A r \in Reads(call) : Passed(r)' <=> Passed(r)
      BY <1>1, <1>2, <2>1, <2>2, <3>1 DEF Passed
    <3>3. TallyInv'
      BY <1>1, <2>1, <2>3, <3>2, TallyKept
    <3>4. \A p \in 1 .. n : AskedBefore(call, cur, k + 1, p) = Asked(call, cur, k, p)
      BY <1>1 DEF AskedBefore
    <3>5. \A p \in 1 .. n : lastIdx'[p] = AskedBefore(call, cur, k + 1, p)
      BY <2>1, <2>4, <3>4
    <3>6. LastInv'
      <4>1. \A p \in 1 .. n : ~ (p <= 0)
        OBVIOUS
      <4>2. QED
        BY <2>1, <3>1, <3>5, <4>1 DEF LastInv, Asked, AskedBefore
    <3>7. QED
      BY <3>3, <3>6
  <2>6. CASE ~ (k < Len(Groups))
    <3>1. k' = k /\ pc' = "write" /\ Position' = n /\ k = Len(Groups)
      BY <1>1, <2>1, <2>6 DEF Position
    <3>2. \A r \in Reads(call) : Passed(r)' <=> Passed(r)
      BY <1>1, <1>2, <2>1, <2>2, <3>1 DEF Passed
    <3>3. TallyInv'
      BY <1>1, <2>1, <2>3, <3>2, TallyKept
    <3>4. Groups' = Groups
      BY <2>1 DEF Groups, Tile
    <3>5. LastInv'
      BY <2>1, <2>2, <2>4, <3>1, <3>4 DEF LastInv, Asked, AskedBefore
    <3>6. QED
      BY <3>3, <3>5
  <2>7. QED
    BY <2>5, <2>6
<1>9. CASE WriteBlock
  <2>1. /\ pc = "write" /\ call' = call /\ building' = building /\ lastIdx' = lastIdx
        /\ total_pages' = total_pages + 1 /\ k' = 1
        /\ IF cur < Len(call.tiles) THEN cur' = cur + 1 /\ pc' = "read"
                                    ELSE cur' = cur /\ pc' = "returned"
    BY <1>9 DEF WriteBlock, Charge, frameVars
  <2>2. Position = n /\ Len(building) = 0 /\ k = Len(Groups)
    BY <1>4, <2>1 DEF Position, LastInv
  <2>3. \A p \in 1 .. n : lastIdx[p] = Asked(call, cur, k, p)
    BY <1>1, <2>1, <2>2 DEF LastInv
  <2>4. Written' = Written + 1
    <3>1. Written = cur - 1
      BY <2>1 DEF Written
    <3>2. Written' = IF cur < Len(call.tiles) THEN (cur + 1) - 1 ELSE Len(call.tiles)
      BY <2>1 DEF Written
    <3>3. QED
      BY <1>1, <3>1, <3>2
  <2>5. CASE cur < Len(call.tiles)
    <3>1. cur' = cur + 1 /\ pc' = "read" /\ Position' = 0
      BY <2>1, <2>2, <2>5 DEF Position
    <3>2. \A r \in Reads(call) : Passed(r)' <=> Passed(r)
      BY <1>1, <1>2, <2>1, <2>2, <3>1 DEF Passed
    <3>3. TallyInv'
      BY <1>1, <2>1, <2>4, <3>2, TallyKept
    <3>4. \A p \in 1 .. n : AskedBefore(call, cur + 1, 1, p) = Asked(call, cur, k, p)
      <4>1. cur + 1 > 1 /\ (cur + 1) - 1 = cur /\ ~ (1 > 1)
        BY <1>1
      <4>2. QED
        BY <2>2, <4>1 DEF AskedBefore, Groups, Tile
    <3>5. \A p \in 1 .. n : lastIdx'[p] = AskedBefore(call, cur + 1, 1, p)
      BY <2>1, <2>3, <3>4
    <3>6. LastInv'
      <4>1. \A p \in 1 .. n : ~ (p <= 0)
        OBVIOUS
      <4>2. QED
        BY <2>1, <3>1, <3>5, <4>1 DEF LastInv, Asked, AskedBefore
    <3>7. QED
      BY <3>3, <3>6
  <2>6. CASE ~ (cur < Len(call.tiles))
    <3>1. pc' = "returned" /\ cur = Len(call.tiles)
      BY <1>1, <2>1, <2>6
    <3>2. \A r \in Reads(call) : Passed(r)' <=> Passed(r)
      BY <1>1, <1>2, <2>2, <3>1 DEF Passed
    <3>3. TallyInv'
      BY <1>1, <2>1, <2>4, <3>2, TallyKept
    <3>4. QED
      BY <3>1, <3>3 DEF LastInv
  <2>7. QED
    BY <2>5, <2>6
<1>10. CASE Raise
  BY <1>10 DEF Raise, LastInv, TallyInv
<1>11. CASE UNCHANGED vars
  <2>1. call' = call /\ UNCHANGED << pc, cur, k, building, lastIdx, total_pages >>
    BY <1>11 DEF vars, frameVars, readerVars
  <2>2. Position' = Position /\ Written' = Written
    BY <2>1 DEF Position, Written
  <2>3. LastInv'
    BY <2>1, <2>2 DEF LastInv, Asked, AskedBefore, Groups, Tile
  <2>4. TallyInv'
    <3>1. \A r \in Reads(call) : Passed(r)' <=> Passed(r)
      BY <2>1, <2>2 DEF Passed
    <3>2. CASE pc = "raised"
      BY <2>1, <3>2 DEF TallyInv
    <3>3. CASE pc # "raised"
      BY <1>1, <2>1, <2>2, <3>1, <3>3, TallyKept
    <3>4. QED
      BY <3>2, <3>3
  <2>5. QED
    BY <2>3, <2>4
<1>12. QED
  BY <1>5, <1>6, <1>7, <1>8, <1>9, <1>10, <1>11 DEF Next, Step, Stopped

\* A call that has returned has passed every read and written every block.
LEMMA TallyAtEnd == TypeOK /\ TallyInv => TallyIsIndexChanges
<1> SUFFICES ASSUME TypeOK, TallyInv, pc = "returned"
             PROVE  total_pages = Len(call.tiles) + Cardinality(IndexChanges(call))
  BY DEF TallyIsIndexChanges
<1>1. Charged = IndexChanges(call)
  BY DEF Charged, Passed
<1>2. QED
  BY <1>1 DEF TallyInv, Written

(***************************************************************************)
(* For every op, every index map and every order of the loops' reads: a    *)
(* call that returns has charged one page per block it wrote and one per   *)
(* read whose index was not the one the reader had, no more and no less.   *)
(***************************************************************************)
THEOREM TallyIsExact == Spec => []TallyIsIndexChanges
<1>1. Init => LastInv /\ TallyInv
  BY InitTally
<1>2. IInv /\ IInv' /\ LastInv /\ TallyInv /\ [Next]_vars => LastInv' /\ TallyInv'
  BY NextTally
<1>3. IInv /\ TallyInv => TallyIsIndexChanges
  BY TallyAtEnd DEF IInv
<1>4. QED
  BY <1>1, <1>2, <1>3, Invariant, PTL DEF Spec

-----------------------------------------------------------------------------
\* The output blocks and the groups of a call of an op.
LEMMA OpCallFacts ==
  ASSUME NEW op, NEW shapes, Accepts(op, shapes), NEW side \in Nat \ {0},
         NEW c, c = Call(op, shapes, side),
         NEW pages, pages = [p \in DOMAIN shapes |-> PageOf(side, shapes[p])],
         NEW shape, shape = output_shape(op, shapes), NEW page, page = PageOf(side, shape)
  PROVE  /\ c.op = op /\ c.shapes = shapes /\ c.pages = pages /\ c.n = NumInputs(op)
         /\ c.outShape = shape /\ c.outPage = page
         /\ c.tiles \in Seq(Inside(shape, page)) /\ c.tiles # << >>
         /\ \A l, m \in DOMAIN c.tiles : c.tiles[l] = c.tiles[m] => l = m
         /\ Tiles(c) = Inside(shape, page)
         /\ \A o \in Tiles(c) : c.groups[o] = index_map(op, shapes, pages, o)
<1> DEFINE grid == block_grid(shape, page)
           group(o) == index_map(op, shapes, pages, o)
           S == {grid[t] : t \in DOMAIN grid}
<1>1. c = [op |-> op, side |-> side, n |-> NumInputs(op), shapes |-> shapes, pages |-> pages,
           outShape |-> shape, outPage |-> page, tiles |-> grid, groups |-> [o \in S |-> group(o)]]
  BY DEF Call
<1>2. shape \in Shapes /\ page \in Shapes /\ Len(page) = Len(shape)
  <2>1. shape \in Shapes
    BY OutputShapes
  <2>2. QED
    BY <2>1, PageFacts
<1>3. /\ grid \in Seq(Inside(shape, page)) /\ grid # << >>
      /\ \A l, m \in DOMAIN grid : grid[l] = grid[m] => l = m
      /\ \A o \in Inside(shape, page) : \E m \in DOMAIN grid : grid[m] = o
  BY <1>2, GridLists
<1> HIDE DEF grid, group
<1>4. DOMAIN grid = 1 .. Len(grid) /\ S = Inside(shape, page)
  <2>1. \A m \in DOMAIN grid : grid[m] \in Inside(shape, page)
    BY <1>3
  <2>2. QED
    BY <1>3, <2>1
<1>5. /\ c.op = op /\ c.shapes = shapes /\ c.pages = pages /\ c.n = NumInputs(op)
      /\ c.outShape = shape /\ c.outPage = page /\ c.tiles = grid
      /\ c.groups = [o \in S |-> group(o)]
  BY <1>1
<1>6. Tiles(c) = S
  BY <1>4, <1>5 DEF Tiles
<1> HIDE DEF S
<1>7. \A o \in Tiles(c) : c.groups[o] = group(o)
  BY <1>5, <1>6
<1>8. QED
  BY <1>3, <1>4, <1>5, <1>6, <1>7 DEF group

\* What a group lists for one operand is one of the call's indices.
LEMMA GroupsAreIndices ==
  ASSUME NEW c, NEW o \in Tiles(c), NEW S, c.groups[o] \in Seq([1 .. c.n -> S])
  PROVE  c.groups[o] \in Seq([1 .. c.n -> Indices(c)])
<1> DEFINE g == c.groups[o]
           T == [1 .. c.n -> Indices(c)]
<1>1. \A m \in 1 .. Len(g) : g[m] \in [1 .. c.n -> S]
  OBVIOUS
<1>2. ASSUME NEW m \in 1 .. Len(g) PROVE g[m] \in T
  <2>1. \A p \in 1 .. c.n : g[m][p] \in Indices(c)
    BY DEF Indices
  <2>2. QED
    BY <1>1, <2>1
<1>3. g \in [1 .. Len(g) -> T] /\ Len(g) \in Nat
  <2>1. Len(g) \in Nat /\ g = [m \in 1 .. Len(g) |-> g[m]]
    OBVIOUS
  <2> HIDE DEF g, T
  <2>2. QED
    BY <1>2, <2>1
<1> HIDE DEF g, T
<1>4. g \in Seq(T)
  BY <1>3
<1>5. QED
  BY <1>4 DEF g, T

(***************************************************************************)
(* What OOCForward takes for granted of a call, every op delivers: the     *)
(* output blocks are listed without repetition, and index_map gives each   *)
(* at least one group with a block per operand (the index_maps of          *)
(* jask/linalg with block_grid, disk_array.py:370-373).                    *)
(***************************************************************************)
THEOREM OpCallsAreWellFormed == \A c : OpCall(c) => WellFormed(c)
<1> SUFFICES ASSUME NEW c, OpCall(c) PROVE WellFormed(c)
  OBVIOUS
<1> DEFINE shapes == c.shapes
           side == c.side
           shape == output_shape(c.op, shapes)
           page == PageOf(side, shape)
           pages == [p \in DOMAIN shapes |-> PageOf(side, shapes[p])]
<1>1. side \in Nat \ {0} /\ Accepts(c.op, shapes) /\ c = Call(c.op, shapes, side)
  BY DEF OpCall
<1>2. /\ c.n = NumInputs(c.op)
      /\ c.tiles \in Seq(Inside(shape, page)) /\ c.tiles # << >>
      /\ \A l, m \in DOMAIN c.tiles : c.tiles[l] = c.tiles[m] => l = m
      /\ \A o \in Tiles(c) : c.groups[o] = index_map(c.op, shapes, pages, o)
      /\ Tiles(c) = Inside(shape, page)
  <2> DEFINE op == c.op
  <2>1. c = Call(op, shapes, side) /\ Accepts(op, shapes) /\ side \in Nat \ {0}
    BY <1>1
  <2>2. /\ pages = [p \in DOMAIN shapes |-> PageOf(side, shapes[p])]
        /\ shape = output_shape(op, shapes) /\ page = PageOf(side, shape)
    OBVIOUS
  <2> HIDE DEF op, shapes, side, pages, shape, page
  <2>3. /\ c.n = NumInputs(op)
        /\ c.tiles \in Seq(Inside(shape, page)) /\ c.tiles # << >>
        /\ \A l, m \in DOMAIN c.tiles : c.tiles[l] = c.tiles[m] => l = m
        /\ \A o \in Tiles(c) : c.groups[o] = index_map(op, shapes, pages, o)
        /\ Tiles(c) = Inside(shape, page)
    BY <2>1, <2>2, OpCallFacts
  <2>4. QED
    BY <2>3 DEF op
<1>3. c.n \in Nat \ {0}
  BY <1>2 DEF NumInputs
<1>4. ASSUME NEW o \in Tiles(c)
      PROVE  c.groups[o] \in Seq([1 .. c.n -> Indices(c)]) /\ c.groups[o] # << >>
  <2>1. PICK S : /\ index_map(c.op, shapes, pages, o) \in Seq([1 .. NumInputs(c.op) -> S])
                 /\ index_map(c.op, shapes, pages, o) # << >>
    BY <1>1, AcceptedGroups
  <2> HIDE DEF shapes, pages, shape, page
  <2>2. c.groups[o] \in Seq([1 .. c.n -> S]) /\ c.groups[o] # << >>
    BY <1>2, <2>1
  <2>3. QED
    BY <2>2, GroupsAreIndices
<1> HIDE DEF shapes, pages, shape, page
<1>5. QED
  BY <1>2, <1>3, <1>4 DEF WellFormed

\* The file's block o holds the groups `held`, which make up cell e.
Holds(op, shapes, pages, page, shape, o, e, n, held) ==
  LET Idxs(m) == [p \in 1 .. n |-> held[m][p].idx]
      local   == [d \in DOMAIN e |-> e[d] - o[d] * page[d]]
      Part(m) == forward_block(op, shapes, pages, Idxs(m), local)
      M       == DOMAIN held
  IN  /\ \A m \in M :
           /\ Conform(op, shapes, pages, Idxs(m))
           /\ ResultShape(op, shapes, pages, Idxs(m)) = BlockShape(o, page, shape)
      /\ UNION {Part(m) : m \in M} = OutputTerms(op, shapes, e)
      /\ \A l, m \in M : l # m => Part(l) \cap Part(m) = {}

\* The groups `held` name the blocks of g, operand by operand.
Names(held, g, n) ==
  /\ \E S : g \in Seq([1 .. n -> S])
  /\ DOMAIN held = DOMAIN g
  /\ \A m \in DOMAIN g : \A p \in 1 .. n : held[m][p].idx = g[m][p]

\* What a sound block says of a cell, when the file holds exactly what the op asks for.
LEMMA SoundBlock ==
  ASSUME NEW op, NEW shapes, NEW pages, NEW page, NEW o, NEW e, NEW n, NEW held,
         Sound(op, shapes, pages, page, o, e), Names(held, index_map(op, shapes, pages, o), n)
  PROVE  Holds(op, shapes, pages, page, output_shape(op, shapes), o, e, n, held)
<1> DEFINE Idxs(m) == [p \in 1 .. n |-> held[m][p].idx]
           local   == [d \in DOMAIN e |-> e[d] - o[d] * page[d]]
           g       == index_map(op, shapes, pages, o)
           Part(m) == forward_block(op, shapes, pages, g[m], local)
<1>0. /\ \E S : g \in Seq([1 .. n -> S])
      /\ DOMAIN held = DOMAIN g
      /\ \A m \in DOMAIN g : \A p \in 1 .. n : held[m][p].idx = g[m][p]
  BY DEF Names
<1>1. ASSUME NEW m \in DOMAIN g PROVE Idxs(m) = g[m]
  <2> HIDE DEF g
  <2>1. PICK S : g \in Seq([1 .. n -> S])
    BY <1>0
  <2>2. g[m] \in [1 .. n -> S] /\ \A p \in 1 .. n : held[m][p].idx = g[m][p]
    BY <1>0, <2>1
  <2>3. QED
    BY <2>2
<1>2. /\ \A m \in DOMAIN g :
           /\ Conform(op, shapes, pages, g[m])
           /\ ResultShape(op, shapes, pages, g[m]) = BlockShape(o, page, output_shape(op, shapes))
      /\ UNION {Part(m) : m \in DOMAIN g} = OutputTerms(op, shapes, e)
      /\ \A l, m \in DOMAIN g : l # m => Part(l) \cap Part(m) = {}
  BY DEF Sound
<1> HIDE DEF Idxs, local, g
<1>3. \A m \in DOMAIN g : forward_block(op, shapes, pages, Idxs(m), local) = Part(m)
  BY <1>1
<1> HIDE DEF Part
<1>4. {forward_block(op, shapes, pages, Idxs(m), local) : m \in DOMAIN held} = {Part(m) : m \in DOMAIN g}
  BY <1>0, <1>3
<1>5. \A m \in DOMAIN held : /\ Conform(op, shapes, pages, Idxs(m))
                             /\ ResultShape(op, shapes, pages, Idxs(m))
                                  = BlockShape(o, page, output_shape(op, shapes))
  BY <1>0, <1>1, <1>2
<1>6. \A l, m \in DOMAIN held : l # m =>
        forward_block(op, shapes, pages, Idxs(l), local)
          \cap forward_block(op, shapes, pages, Idxs(m), local) = {}
  BY <1>0, <1>2, <1>3
<1>7. QED
  BY <1>2, <1>4, <1>5, <1>6 DEF Idxs, local, Holds

\* A call that has returned holds, in the block a cell lies in, what makes up the cell.
LEMMA ReturnedMatches == TypeOK /\ OutputCorrect => ResultMatchesReference
<1> SUFFICES ASSUME TypeOK, OutputCorrect, pc = "returned" PROVE ResultMatchesReference
  BY DEF ResultMatchesReference
<1> DEFINE op == call.op
           shapes == call.shapes
           side == call.side
           pages == [p \in DOMAIN shapes |-> PageOf(side, shapes[p])]
           shape == output_shape(op, shapes)
           page == PageOf(side, shape)
<1>1. side \in Nat \ {0} /\ Accepts(op, shapes) /\ call = Call(op, shapes, side)
  BY OpCallsAssumption DEF TypeOK, OpCall
<1>2. /\ call.pages = pages /\ call.n = NumInputs(op) /\ call.outShape = shape /\ call.outPage = page
      /\ Tiles(call) = Inside(shape, page)
      /\ \A o \in Tiles(call) : call.groups[o] = index_map(op, shapes, pages, o)
  <2> DEFINE c == call
             x == op
             s == shapes
             i == side
  <2>1. c = Call(x, s, i) /\ i \in Nat \ {0} /\ Accepts(x, s)
    BY <1>1
  <2> HIDE DEF c, x, s, i
  <2> DEFINE ps == [p \in DOMAIN s |-> PageOf(i, s[p])]
             sh == output_shape(x, s)
             pg == PageOf(i, sh)
  <2>2. /\ c.pages = ps /\ c.n = NumInputs(x) /\ c.outShape = sh /\ c.outPage = pg
        /\ Tiles(c) = Inside(sh, pg)
        /\ \A o \in Tiles(c) : c.groups[o] = index_map(x, s, ps, o)
    <3>1. ps = [p \in DOMAIN s |-> PageOf(i, s[p])] /\ sh = output_shape(x, s) /\ pg = PageOf(i, sh)
      OBVIOUS
    <3> HIDE DEF ps, sh, pg
    <3>2. QED
      BY <2>1, <3>1, OpCallFacts
  <2>3. QED
    BY <2>2 DEF c, x, s, i
<1>3. shape \in Shapes /\ page \in Shapes /\ Len(page) = Len(shape)
  <2>1. shape \in Shapes
    BY <1>1, OutputShapes
  <2>2. QED
    BY <1>1, <2>1, PageFacts
<1>4. ASSUME NEW o \in Tiles(call)
      PROVE  /\ DOMAIN out[o].terms = 1 .. Len(call.groups[o])
             /\ \A m \in 1 .. Len(call.groups[o]) : \A p \in 1 .. call.n :
                  out[o].terms[m][p].idx = call.groups[o][m][p]
  <2>1. out[o] = Expected(call, o)
    BY DEF OutputCorrect
  <2>2. Expected(call, o).terms = [m \in 1 .. Len(call.groups[o]) |-> Wanted(call, o, m)]
    BY DEF Expected
  <2>3. \A m : \A p \in 1 .. call.n : Wanted(call, o, m)[p].idx = call.groups[o][m][p]
    BY DEF Wanted, Block
  <2>4. QED
    BY <2>1, <2>2, <2>3
<1>5. /\ call.shapes = shapes /\ call.op = op
      /\ pages = [p \in DOMAIN shapes |-> PageOf(side, shapes[p])]
      /\ shape = output_shape(op, shapes) /\ page = PageOf(side, shape)
  OBVIOUS
<1> HIDE DEF op, shapes, side, pages, shape, page
<1>6. ASSUME NEW e \in Cells(call.outShape)
      PROVE  \E o \in Tiles(call) :
               /\ {q \in Tiles(call) : e \in Covered(q, call.outPage, call.outShape)} = {o}
               /\ Holds(call.op, call.shapes, call.pages, call.outPage, call.outShape, o, e, call.n,
                        out[o].terms)
  <2> DEFINE o == Home(e, page)
             g == call.groups[o]
             held == out[o].terms
             n == call.n
  <2>1. o \in Tiles(call) /\ \A q \in Tiles(call) : e \in Covered(q, page, shape) <=> q = o
    BY <1>2, <1>3, HomeCovers
  <2> HIDE DEF o
  <2>2. {q \in Tiles(call) : e \in Covered(q, page, shape)} = {o}
    BY <2>1
  <2>3. Sound(op, shapes, pages, page, o, e)
    BY <1>1, <1>2, <1>5, <2>1, AcceptedSound
  <2>4. g = index_map(op, shapes, pages, o)
    BY <1>2, <2>1
  <2> HIDE DEF n
  <2>5. PICK S : g \in Seq([1 .. n -> S])
    <3>1. PICK S : index_map(op, shapes, pages, o) \in Seq([1 .. NumInputs(op) -> S])
      BY <1>1, <1>5, AcceptedGroups
    <3>2. n = NumInputs(op)
      BY <1>2 DEF n
    <3>3. g \in Seq([1 .. n -> S])
      BY <2>4, <3>1, <3>2
    <3>4. QED
      BY <3>3
  <2>6. Names(held, index_map(op, shapes, pages, o), n)
    <3>1. DOMAIN g = 1 .. Len(g)
      BY <2>5
    <3>2. /\ DOMAIN held = DOMAIN g
          /\ \A m \in DOMAIN g : \A p \in 1 .. n : held[m][p].idx = g[m][p]
      BY <1>4, <2>1, <3>1 DEF n
    <3> HIDE DEF g, held
    <3>3. QED
      BY <2>4, <2>5, <3>2 DEF Names
  <2> HIDE DEF g, held
  <2>7. Holds(op, shapes, pages, page, shape, o, e, n, held)
    <3>1. Holds(op, shapes, pages, page, output_shape(op, shapes), o, e, n, held)
      BY <2>3, <2>6, SoundBlock
    <3>2. QED
      BY <1>5, <3>1
  <2>8. QED
    BY <1>2, <1>5, <2>1, <2>2, <2>7 DEF held, n
<1>7. QED
  BY <1>6 DEF ResultMatchesReference, Holds

(***************************************************************************)
(* Every op of jask/linalg, on operands of any number of dimensions and    *)
(* any extents, cut into pages of any size: when run_forward returns, the  *)
(* output file holds the array of the whole-array definition, no term of   *)
(* any cell missing and none counted twice (block_grid and _slice_for,     *)
(* disk_array.py:370-379, with the index_map and forward_block of each op  *)
(* and the fold of base_algo.py:86-107).                                   *)
(***************************************************************************)
THEOREM ForwardMatchesReference == Spec => []ResultMatchesReference
<1>1. IInv => ResultMatchesReference
  BY ReturnedMatches DEF IInv
<1>2. QED
  BY <1>1, Invariant, PTL
=============================================================================
