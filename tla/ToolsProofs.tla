----------------------------- MODULE ToolsProofs -----------------------------
(***************************************************************************)
(* Proofs about the small programs of one thread.  Tetris, for boards of   *)
(* every size and every set of kinds: the block of a game that goes on     *)
(* fits, so it is put on free cells of the board; a scan leaves no full    *)
(* row, and the rest of the board in its order.  gtk_tree, for every tree: *)
(* files hang under their own directory.  telefig, for all numbers of      *)
(* bytes: what is shown of a prompt answer is its beginning.  zipjpeg_test,*)
(* for all inputs: what the search finds, and what is listed.              *)
(***************************************************************************)
EXTENDS Tetris, Tools, FiniteSetTheorems, SequenceTheorems, WellFoundedInduction, TLAPS

-----------------------------------------------------------------------------
(***************************************************************************)
(* Blocks                                                                  *)
(***************************************************************************)
\* A block is at most four cells wide and four cells high.
LEMMA DigitsSmall ==
  \A k \in 1..7, r \in 1..4 : \A d \in Digits[k][r] :
    d \div 10 \in 0..3 /\ d % 10 \in 0..3
<1> SUFFICES ASSUME NEW k \in 1..7, NEW r \in 1..4, NEW d \in Digits[k][r]
             PROVE  d \div 10 \in 0..3 /\ d % 10 \in 0..3
  OBVIOUS
<1>1. d \in {0, 1, 2, 10, 11, 12, 13, 20, 21, 30}
  <2>1. CASE k = 1 BY <2>1 DEF Digits
  <2>2. CASE k = 2 BY <2>2 DEF Digits
  <2>3. CASE k = 3 BY <2>3 DEF Digits
  <2>4. CASE k = 4 BY <2>4 DEF Digits
  <2>5. CASE k = 5 BY <2>5 DEF Digits
  <2>6. CASE k = 6 BY <2>6 DEF Digits
  <2>7. CASE k = 7 BY <2>7 DEF Digits
  <2> QED BY <2>1, <2>2, <2>3, <2>4, <2>5, <2>6, <2>7
<1> QED BY <1>1

New == [kind : Kinds, rot : {0}, x : {START_X}, y : {0}]

\* A new block lies on the board.
LEMMA NewOnBoard ==
  ASSUME NEW b \in New
  PROVE  b \in Block /\ Cells(b) \subseteq Cell
<1>1. b \in Block
  <2>1. Kinds \subseteq 1..7 /\ START_X \in Int
    BY TetrisAssumption
  <2>2. b = [kind |-> b.kind, rot |-> 0, x |-> START_X, y |-> 0] /\ b.kind \in Kinds
    BY DEF New
  <2>3. b.kind \in 1..7 /\ 0 \in 0..3 /\ 0 \in Int
    BY <2>1, <2>2
  <2> QED BY <2>1, <2>2, <2>3 DEF Block
<1>2. ASSUME NEW d \in Digits[b.kind][b.rot + 1]
      PROVE  <<b.x + (d \div 10), b.y + (d % 10)>> \in Cell
  <2>1. b.kind \in 1..7 /\ b.rot + 1 \in 1..4 /\ b.x = START_X /\ b.y = 0
    <3>1. Kinds \subseteq 1..7 BY TetrisAssumption
    <3>2. b.kind \in Kinds /\ b.rot = 0 /\ b.x = START_X /\ b.y = 0 BY DEF New
    <3>3. b.kind \in 1..7 BY <3>1, <3>2
    <3>4. b.rot + 1 \in 1..4 BY <3>2
    <3> QED BY <3>2, <3>3, <3>4
  <2>2. d \div 10 \in 0..3 /\ d % 10 \in 0..3
    BY <1>2, <2>1, DigitsSmall
  <2> QED BY <2>1, <2>2, TetrisAssumption DEF Cell
<1> QED BY <1>1, <1>2 DEF Cells

LEMMA ShiftedIs ==
  ASSUME NEW b \in Block, NEW dx \in Int, NEW dy \in Int
  PROVE  Shifted(b, dx, dy) =
           [kind |-> b.kind, rot |-> b.rot, x |-> b.x + dx, y |-> b.y + dy]
<1> DEFINE c == [b EXCEPT !.x = @ + dx]
<1>1. Shifted(b, dx, dy) = [c EXCEPT !.y = @ + dy]
  BY DEF Shifted, Block
<1>2. c = [kind |-> b.kind, rot |-> b.rot, x |-> b.x + dx, y |-> b.y] /\ c \in Block
  BY DEF Block
<1>3. [c EXCEPT !.y = @ + dy] = [kind |-> c.kind, rot |-> c.rot, x |-> c.x, y |-> c.y + dy]
  <2> HIDE DEF c
  <2> QED BY <1>2 DEF Block
<1> QED
  <2> HIDE DEF c
  <2>1. c.kind = b.kind /\ c.rot = b.rot /\ c.x = b.x + dx /\ c.y = b.y BY <1>2
  <2> QED BY <1>1, <1>3, <2>1

LEMMA Moved ==
  ASSUME NEW b \in Block, NEW dx \in Int, NEW dy \in Int
  PROVE  Shifted(b, dx, dy) \in Block /\ Rotated(b) \in Block
<1>1. /\ b = [kind |-> b.kind, rot |-> b.rot, x |-> b.x, y |-> b.y]
      /\ b.kind \in 1..7 /\ b.rot \in 0..3 /\ b.x \in Int /\ b.y \in Int
  BY DEF Block
<1>2. Shifted(b, dx, dy) = [kind |-> b.kind, rot |-> b.rot, x |-> b.x + dx, y |-> b.y + dy]
  BY ShiftedIs
<1>3. Rotated(b) = [kind |-> b.kind, rot |-> (b.rot + 1) % 4, x |-> b.x, y |-> b.y]
  BY <1>1 DEF Rotated
<1>4. b.x + dx \in Int /\ b.y + dy \in Int /\ (b.rot + 1) % 4 \in 0..3
  BY <1>1
<1> QED BY <1>1, <1>2, <1>3, <1>4 DEF Block

\* A move that is tried does not take a block off its cells.
LEMMA TryFits ==
  ASSUME NEW b \in Block, NEW m \in Block, block_fit(b)
  PROVE  Try(b, m) \in Block /\ block_fit(Try(b, m))
BY DEF Try

\* Neither does the drop.
LEMMA DropFits ==
  ASSUME NEW b \in Block, block_fit(b), NEW c \in Drops(b), BOX_H \in Nat
  PROVE  c \in Block /\ block_fit(c)
<1>1. PICK n \in 0..BOX_H :
        /\ \A m \in 0 .. n-1 : block_fit(Shifted(b, 0, m))
        /\ ~ block_fit(Shifted(b, 0, n))
        /\ c = Shifted(b, 0, n - 1)
  BY DEF Drops
<1>2. Shifted(b, 0, 0) = b
  <2>1. b = [kind |-> b.kind, rot |-> b.rot, x |-> b.x, y |-> b.y] /\ b.x \in Int /\ b.y \in Int
    BY DEF Block
  <2>2. b.x + 0 = b.x /\ b.y + 0 = b.y
    BY <2>1
  <2>3. Shifted(b, 0, 0) = [kind |-> b.kind, rot |-> b.rot, x |-> b.x + 0, y |-> b.y + 0]
    BY ShiftedIs
  <2> QED BY <2>1, <2>2, <2>3
<1>3. n - 1 \in 0 .. n-1 /\ n - 1 \in Int
  BY <1>1, <1>2
<1> QED BY <1>1, <1>3, Moved

\* Whatever keys are held down, the block still fits.
LEMMA KeyedFits ==
  ASSUME block \in Block, block_fit(block), NEW keys, NEW b \in Keyed(keys)
  PROVE  b \in Block /\ block_fit(b)
<1> DEFINE l == IF "LEFT" \in keys THEN Try(block, Shifted(block, -1, 0)) ELSE block
           r == IF "RIGHT" \in keys THEN Try(l, Shifted(l, 1, 0)) ELSE l
           u == IF "UP" \in keys THEN Try(r, Rotated(r)) ELSE r
           s == IF "SPACE" \in keys THEN Drops(u) ELSE {u}
<1>1. l \in Block /\ block_fit(l)
  <2>1. Shifted(block, -1, 0) \in Block BY Moved
  <2> QED BY <2>1, TryFits
<1>2. r \in Block /\ block_fit(r)
  <2> HIDE DEF l
  <2>1. Shifted(l, 1, 0) \in Block BY <1>1, Moved
  <2> QED BY <1>1, <2>1, TryFits
<1>3. u \in Block /\ block_fit(u)
  <2> HIDE DEF r
  <2>1. Rotated(r) \in Block BY <1>2, Moved
  <2> QED BY <1>2, <2>1, TryFits
<1>4. ASSUME NEW c \in s PROVE c \in Block /\ block_fit(c)
  <2> HIDE DEF u
  <2> QED BY <1>3, <1>4, DropFits, TetrisAssumption
<1>5. b \in (IF "DOWN" \in keys THEN { Try(c, Shifted(c, 0, 1)) : c \in s } ELSE s)
  BY DEF Keyed
<1> QED
  <2> HIDE DEF s
  <2>1. CASE "DOWN" \in keys
    <3>1. PICK c \in s : b = Try(c, Shifted(c, 0, 1)) BY <1>5, <2>1
    <3> QED BY <3>1, <1>4, Moved, TryFits
  <2>2. CASE "DOWN" \notin keys BY <2>2, <1>4, <1>5
  <2> QED BY <2>1, <2>2

-----------------------------------------------------------------------------
(***************************************************************************)
(* The invariant                                                           *)
(***************************************************************************)
\* The rows the scan has passed are not full.
PassedNotFull == tetris_pc = "scan" => \A r \in row+1 .. BOX_H-1 : ~ Full(r)

IInv == TetrisTypeOK /\ BlockFits /\ PassedNotFull /\ NoFullRowRemains

LEMMA InitIInv == TetrisInit => IInv
<1> SUFFICES ASSUME TetrisInit PROVE IInv
  OBVIOUS
<1>1. block \in New
  BY DEF TetrisInit, New
<1>2. block \in Block /\ Cells(block) \subseteq Cell
  BY <1>1, NewOnBoard
<1>3. block_fit(block)
  BY <1>2 DEF block_fit, TetrisInit
<1>4. Period \in Nat \ {0}
  BY TetrisAssumption DEF Period
<1>5. TetrisTypeOK
  <2>1. 0 \in 0 .. Period-1 /\ 0 \in 0..BOX_H
    BY <1>4, TetrisAssumption
  <2>2. tetris_pc = "play" /\ map = {} /\ frames = 0 /\ row = 0 /\ final = FALSE /\ still_playing = TRUE
    BY DEF TetrisInit
  <2> QED BY <1>2, <2>1, <2>2 DEF TetrisTypeOK
<1> QED BY <1>3, <1>5 DEF IInv, BlockFits, PassedNotFull, NoFullRowRemains, TetrisInit

\* What put_block leaves: the block's cells are taken, and the scan starts at
\* the lowest row.
LEMMA PutStep ==
  ASSUME TetrisTypeOK, NEW b \in Block, NEW last \in BOOLEAN, put_block(b, last),
         Cells(b) \subseteq Cell, frames' \in 0 .. Period-1
  PROVE  IInv'
<1>1. TetrisTypeOK'
  BY TetrisAssumption DEF TetrisTypeOK, put_block
<1>2. row' + 1 .. BOX_H-1 = {}
  BY TetrisAssumption DEF put_block
<1>3. PassedNotFull'
  BY <1>2 DEF PassedNotFull
<1> QED BY <1>1, <1>3 DEF IInv, BlockFits, NoFullRowRemains, put_block

\* A tick either leaves the block on free cells or puts it there.
LEMMA TickStep ==
  ASSUME IInv, Tick
  PROVE  IInv' /\ block_fit(block')
<1> USE DEF IInv
<1>1. PICK keys \in SUBSET Key :
        \E b \in IF frames % KEY_PERIOD = 0 THEN Keyed(keys) ELSE {block} :
          Land(b) \/ Stay(b)
  BY DEF Tick
<1>2. PICK b \in IF frames % KEY_PERIOD = 0 THEN Keyed(keys) ELSE {block} :
        Land(b) \/ Stay(b)
  BY <1>1
<1>3. tetris_pc = "play" /\ block \in Block /\ block_fit(block) /\ map \subseteq Cell
  BY DEF Tick, TetrisTypeOK, BlockFits
<1>4. b \in Block /\ block_fit(b)
  <2>1. CASE frames % KEY_PERIOD = 0 BY <2>1, <1>2, <1>3, KeyedFits
  <2>2. CASE frames % KEY_PERIOD # 0 BY <2>2, <1>2, <1>3
  <2> QED BY <2>1, <2>2
<1>5. frames' \in 0 .. Period-1
  <2>1. Period \in Nat \ {0} BY TetrisAssumption DEF Period
  <2> QED BY <2>1 DEF Tick, TetrisTypeOK
<1>6. CASE Land(b)
  <2>1. put_block(b, FALSE) /\ Cells(b) \subseteq Cell
    BY <1>4, <1>6 DEF Land, block_fit
  <2>2. IInv'
    BY <2>1, <1>4, <1>5, PutStep
  <2>3. block' = b
    BY <2>1 DEF put_block
  <2> QED BY <2>2, <2>3, <1>4
<1>7. CASE Stay(b)
  <2> DEFINE c == IF Falls THEN Shifted(b, 0, 1) ELSE b
  <2>1. c \in Block
    BY <1>4, Moved
  <2>2. block_fit(c)
    BY <1>4, <1>7 DEF Stay
  <2>3. block' = c /\ UNCHANGED <<tetris_pc, map, row, final, still_playing>>
    BY <2>2, <1>7 DEF Stay
  <2> HIDE DEF c
  <2>4. block_fit(block')
    BY <2>2, <2>3
  <2>5. TetrisTypeOK'
    BY <2>1, <2>3, <1>5 DEF TetrisTypeOK
  <2>6. BlockFits'
    BY <2>2, <2>3, <1>3 DEF BlockFits, block_fit, Cells
  <2> QED BY <2>3, <2>4, <2>5, <2>6, <1>3 DEF PassedNotFull, NoFullRowRemains
<1> QED BY <1>2, <1>6, <1>7

LEMMA ScanStep ==
  ASSUME IInv, Scan
  PROVE  IInv'
<1> USE DEF IInv
<1>1. BOX_H \in Nat /\ BOX_H > 4
  BY TetrisAssumption
<1>2. CASE PassRow
  <2>1. TetrisTypeOK'
    BY <1>1, <1>2 DEF PassRow, TetrisTypeOK
  <2>2. \A r \in row .. BOX_H-1 : ~ Full(r)
    BY <1>1, <1>2 DEF PassRow, PassedNotFull, TetrisTypeOK
  <2>3. map' = map /\ tetris_pc' # "play"
    BY <1>2 DEF PassRow
  <2>4. PassedNotFull'
    BY <1>1, <1>2, <2>2 DEF PassRow, PassedNotFull, Full, TetrisTypeOK
  <2>5. NoFullRowRemains'
    BY <1>1, <1>2, <2>2 DEF PassRow, NoFullRowRemains, Full
  <2> QED BY <2>1, <2>3, <2>4, <2>5 DEF BlockFits
<1>3. CASE ClearRow
  <2>1. TetrisTypeOK'
    BY <1>1, <1>3 DEF ClearRow, TetrisTypeOK, Deleted
  <2>2. ASSUME NEW r \in row' + 1 .. BOX_H-1 PROVE ~ Full(r)'
    <3>1. r > row /\ r \in 0 .. BOX_H-1 /\ r \in row+1 .. BOX_H-1 /\ row \in Nat
      BY <1>1, <1>3, <2>2 DEF ClearRow, TetrisTypeOK
    <3>2. \A k \in Column : <<k, r>> \in map' => <<k, r>> \in map
      BY <1>3, <3>1 DEF ClearRow, Deleted
    <3>3. ~ Full(r)
      BY <1>3, <3>1 DEF ClearRow, PassedNotFull
    <3> QED BY <3>2, <3>3 DEF Full
  <2> QED BY <1>3, <2>1, <2>2 DEF ClearRow, BlockFits, PassedNotFull, NoFullRowRemains
<1>4. CASE PassBelow
  <2>1. TetrisTypeOK'
    BY <1>1, <1>4 DEF PassBelow, TetrisTypeOK
  <2>2. tetris_pc' = "scan" => row' + 1 .. BOX_H-1 = {}
    BY <1>1, <1>4 DEF PassBelow
  <2>3. tetris_pc' \in {"scan", "corrupt"}
    BY <1>4 DEF PassBelow
  <2> QED BY <2>1, <2>2, <2>3 DEF BlockFits, PassedNotFull, NoFullRowRemains
<1> QED BY <1>2, <1>3, <1>4 DEF Scan

LEMMA NewStep ==
  ASSUME IInv, new_block
  PROVE  IInv'
<1> USE DEF IInv
<1>1. block' \in New /\ tetris_pc = "new"
  BY DEF new_block, New
<1>2. block' \in Block /\ Cells(block') \subseteq Cell
  BY <1>1, NewOnBoard
<1>3. CASE final \/ block_fit(block')
  <2>1. TetrisTypeOK'
    BY <1>2, <1>3 DEF new_block, TetrisTypeOK
  <2>2. tetris_pc' \in {"play", "over"} /\ map' = map /\ (tetris_pc' = "play" => block_fit(block'))
    BY <1>3 DEF new_block
  <2>3. BlockFits'
    BY <2>2 DEF BlockFits, block_fit, Cells
  <2> QED BY <2>1, <2>2, <2>3 DEF PassedNotFull, NoFullRowRemains
<1>4. CASE ~ (final \/ block_fit(block'))
  <2>1. /\ map' = map \cup Cells(block') /\ tetris_pc' = "scan" /\ row' = BOX_H - 1
        /\ final' = TRUE /\ frames' = frames /\ still_playing' \in BOOLEAN
    BY <1>4 DEF new_block, TetrisTypeOK
  <2>2. TetrisTypeOK'
    BY <2>1, <1>2, TetrisAssumption DEF TetrisTypeOK
  <2>3. row' + 1 .. BOX_H-1 = {}
    BY <2>1, TetrisAssumption
  <2> QED BY <2>1, <2>2, <2>3 DEF BlockFits, PassedNotFull, NoFullRowRemains
<1> QED BY <1>3, <1>4

LEMMA Inductive == IInv /\ [TetrisNext]_tetrisVars => IInv'
<1> SUFFICES ASSUME IInv, [TetrisNext]_tetrisVars PROVE IInv'
  OBVIOUS
<1>1. CASE Tick BY <1>1, TickStep
<1>2. CASE Scan BY <1>2, ScanStep
<1>3. CASE new_block BY <1>3, NewStep
<1>4. CASE Quit
  BY <1>4 DEF Quit, IInv, TetrisTypeOK, BlockFits, PassedNotFull, NoFullRowRemains
<1>5. CASE UNCHANGED tetrisVars
  BY <1>5 DEF tetrisVars, IInv, TetrisTypeOK, BlockFits, PassedNotFull, NoFullRowRemains,
              block_fit, Cells, Full
<1> QED BY <1>1, <1>2, <1>3, <1>4, <1>5 DEF TetrisNext

-----------------------------------------------------------------------------
\* The state stays within its types: in particular no cell off the board is ever
\* occupied, by put_block or by delete_row (tetris.c:463-501).
THEOREM TypeCorrect == TetrisSpec => []TetrisTypeOK
<1>1. IInv => TetrisTypeOK BY DEF IInv
<1> QED BY <1>1, InitIInv, Inductive, PTL DEF TetrisSpec

\* No row is full when the next block comes (tetris.c:463-485).
THEOREM NoFullRowCorrect == TetrisSpec => []NoFullRowRemains
<1>1. IInv => NoFullRowRemains BY DEF IInv
<1> QED BY <1>1, InitIInv, Inductive, PTL DEF TetrisSpec

\* A falling block is put on free cells of the board only, whatever keys are
\* held down (tetris.c:317-362).
THEOREM PutCorrect == TetrisSpec => PutTakesFreeCells
<1>1. ASSUME IInv, [TetrisNext]_tetrisVars
      PROVE  [tetris_pc = "play" /\ tetris_pc' = "scan" => block_fit(block')]_tetrisVars
  <2>1. CASE Tick BY <1>1, <2>1, TickStep
  <2>2. CASE ~ Tick
    BY <1>1, <2>2 DEF TetrisNext, Scan, PassRow, ClearRow, PassBelow, new_block, Quit, tetrisVars
  <2> QED BY <2>1, <2>2
<1> QED BY <1>1, InitIInv, Inductive, PTL DEF TetrisSpec, PutTakesFreeCells

-----------------------------------------------------------------------------
(***************************************************************************)
(* The lookup below the board                                              *)
(***************************************************************************)
\* A block that reaches row 0 cannot reach the lowest row, which must be full for
\* the scan to look below it; and a game goes on with a free cell in row 0.
BelowSafe ==
  /\ tetris_pc = "play" => ~ MayBeFullBelow /\ \A r \in 0 .. BOX_H-1 : ~ Full(r)
  /\ tetris_pc = "scan" /\ row >= BOX_H - 1 =>
       ~ MayBeFullBelow \/ (row = BOX_H - 1 /\ ~ Full(row))
  /\ BelowIsNeverFull

\* A new block takes the second column from where it appears in row 0.
LEMMA NewTakesTop ==
  ASSUME NEW b \in New
  PROVE  <<START_X + 1, 0>> \in Cells(b) /\ START_X + 1 \in Column \ {0}
<1>1. START_X \in Nat /\ BOX_W \in Nat /\ START_X + 4 <= BOX_W /\ Kinds \subseteq 1..7
  BY TetrisAssumption
<1>2. b.kind \in Kinds /\ b.rot = 0 /\ b.x = START_X /\ b.y = 0
  BY DEF New
<1>3. b.kind \in 1..7 /\ b.rot + 1 = 1
  <2>1. b.kind \in 1..7 BY <1>1, <1>2
  <2>2. b.rot + 1 = 1 BY <1>2
  <2> QED BY <2>1, <2>2
<1>4. \A k \in 1..7 : 10 \in Digits[k][1]
  BY DEF Digits
<1>5. 10 \in Digits[b.kind][b.rot + 1]
  BY <1>3, <1>4
<1>6. <<b.x + (10 \div 10), b.y + (10 % 10)>> = <<START_X + 1, 0>>
  <2>1. 10 \div 10 = 1 /\ 10 % 10 = 0 OBVIOUS
  <2> QED BY <1>1, <1>2, <2>1
<1> QED BY <1>1, <1>5, <1>6 DEF Cells, Column

\* A block with a cell in row 0 leaves the lowest row as it is.
LEMMA TopBlockIsHigh ==
  ASSUME NEW b \in Block, NEW x, <<x, 0>> \in Cells(b),
         NEW z, <<z, BOX_H - 1>> \in Cells(b)
  PROVE  FALSE
<1>1. b.kind \in 1..7 /\ b.rot + 1 \in 1..4 /\ b.y \in Int /\ BOX_H \in Nat /\ BOX_H > 4
  <2>1. b.kind \in 1..7 /\ b.rot \in 0..3 /\ b.y \in Int BY DEF Block
  <2> QED BY <2>1, TetrisAssumption
<1>2. PICK d \in Digits[b.kind][b.rot + 1] : b.y + (d % 10) = 0
  BY DEF Cells
<1>3. PICK e \in Digits[b.kind][b.rot + 1] : b.y + (e % 10) = BOX_H - 1
  BY DEF Cells
<1>4. d % 10 \in 0..3 /\ e % 10 \in 0..3
  BY <1>1, DigitsSmall
<1> QED BY <1>1, <1>2, <1>3, <1>4

\* So after put_block row 0 is not the one to fear, or the lowest row is not full.
LEMMA PutBelow ==
  ASSUME NEW b \in Block, map' = map \cup Cells(b), ~ Full(BOX_H - 1),
         ~ MayBeFullBelow \/ \E x : <<x, 0>> \in Cells(b)
  PROVE  ~ MayBeFullBelow' \/ ~ Full(BOX_H - 1)'
<1>1. CASE \E x : <<x, 0>> \in Cells(b)
  <2>1. \A z : <<z, BOX_H - 1>> \notin Cells(b)
    BY <1>1, TopBlockIsHigh
  <2> QED BY <2>1 DEF Full
<1>2. CASE ~ MayBeFullBelow /\ \A x : <<x, 0>> \notin Cells(b)
  BY <1>2 DEF MayBeFullBelow
<1> QED BY <1>1, <1>2

LEMMA InitBelow == TetrisInit => BelowSafe
<1>1. 0 \in Column /\ 1 \in Column \ {0}
  BY TetrisAssumption DEF Column
<1> QED BY <1>1 DEF TetrisInit, BelowSafe, MayBeFullBelow, Full, BelowIsNeverFull

LEMMA BelowInductive == IInv /\ BelowSafe /\ [TetrisNext]_tetrisVars => BelowSafe'
<1> SUFFICES ASSUME IInv, BelowSafe, [TetrisNext]_tetrisVars PROVE BelowSafe'
  OBVIOUS
<1>0. BOX_H \in Nat /\ BOX_H > 4 /\ BOX_H - 1 \in 0 .. BOX_H-1
  BY TetrisAssumption
<1>1. CASE Tick
  <2>1. tetris_pc = "play" /\ IInv' /\ block_fit(block')
    BY <1>1, TickStep DEF Tick
  <2>2. PICK b : Land(b) \/ Stay(b)
    BY <1>1 DEF Tick
  <2>3. CASE tetris_pc' = "scan"
    <3>1. map' = map \cup Cells(block') /\ row' = BOX_H - 1
      BY <2>1, <2>2, <2>3 DEF Land, Stay, put_block
    <3>2. block' \in Block
      BY <2>1 DEF IInv, TetrisTypeOK
    <3>3. ~ MayBeFullBelow' \/ ~ Full(BOX_H - 1)'
      BY <1>0, <2>1, <3>1, <3>2, PutBelow DEF BelowSafe
    <3> QED BY <2>3, <3>1, <3>3 DEF BelowSafe, BelowIsNeverFull, Full
  <2>4. CASE tetris_pc' # "scan"
    <3>1. tetris_pc' = "play" /\ map' = map
      BY <2>1, <2>2, <2>4 DEF Land, Stay, put_block
    <3> QED BY <2>1, <3>1 DEF BelowSafe, BelowIsNeverFull, MayBeFullBelow, Full
  <2> QED BY <2>3, <2>4
<1>2. CASE PassRow
  BY <1>0, <1>2 DEF PassRow, BelowSafe, BelowIsNeverFull, MayBeFullBelow, Full, IInv, TetrisTypeOK
<1>3. CASE ClearRow
  <2>1. row \in Nat /\ row < BOX_H /\ row' = row + 1 /\ tetris_pc = "scan" /\ tetris_pc' = "scan"
    BY <1>3 DEF ClearRow, IInv, TetrisTypeOK
  <2>2. ASSUME row' >= BOX_H - 1 PROVE ~ MayBeFullBelow' \/ (row' = BOX_H - 1 /\ ~ Full(row)')
    <3>1. CASE row = BOX_H - 1
      <4>1. ~ MayBeFullBelow
        BY <1>0, <1>3, <3>1, <2>1 DEF BelowSafe, ClearRow
      <4>2. \A c \in Column : <<c, 0>> \in map' => <<c, 0>> \in map
        BY <1>0, <1>3 DEF ClearRow, Deleted
      <4> QED BY <4>1, <4>2 DEF MayBeFullBelow
    <3>2. CASE row = BOX_H - 2
      <4>1. row + 1 \in row+1 .. BOX_H-1 /\ row + 1 = BOX_H - 1
        BY <1>0, <3>2
      <4>2. ~ Full(BOX_H - 1)
        BY <4>1, <2>1 DEF IInv, PassedNotFull
      <4>3. \A c \in Column : <<c, BOX_H - 1>> \in map' => <<c, BOX_H - 1>> \in map
        BY <1>0, <1>3, <3>2 DEF ClearRow, Deleted
      <4>4. ~ Full(BOX_H - 1)'
        BY <4>2, <4>3 DEF Full
      <4> QED BY <2>1, <4>1, <4>4 DEF Full
    <3> QED BY <1>0, <2>1, <2>2, <3>1, <3>2
  <2> QED BY <2>1, <2>2 DEF BelowSafe, BelowIsNeverFull, Full
<1>4. CASE PassBelow
  <2>1. ~ MayBeFullBelow
    BY <1>0, <1>4 DEF PassBelow, BelowSafe
  <2>2. tetris_pc' = "scan" /\ map' = map
    BY <1>4, <2>1 DEF PassBelow
  <2> QED BY <2>1, <2>2 DEF BelowSafe, BelowIsNeverFull, MayBeFullBelow
<1>5. CASE new_block
  <2>1. block' \in New /\ tetris_pc = "new" /\ \A r \in 0 .. BOX_H-1 : ~ Full(r)
    BY <1>5 DEF new_block, New, IInv, NoFullRowRemains
  <2>2. block' \in Block /\ <<START_X + 1, 0>> \in Cells(block') /\ START_X + 1 \in Column \ {0}
    BY <2>1, NewOnBoard, NewTakesTop
  <2>3. CASE final \/ block_fit(block')
    <3>1. tetris_pc' \in {"play", "over"} /\ map' = map /\ (tetris_pc' = "play" => block_fit(block'))
      BY <1>5, <2>3 DEF new_block
    <3>2. tetris_pc' = "play" => ~ MayBeFullBelow
      BY <2>2, <3>1 DEF block_fit, MayBeFullBelow
    <3> QED BY <2>1, <3>1, <3>2 DEF BelowSafe, BelowIsNeverFull, MayBeFullBelow, Full
  <2>4. CASE ~ (final \/ block_fit(block'))
    <3>1. map' = map \cup Cells(block') /\ row' = BOX_H - 1 /\ tetris_pc' = "scan"
      BY <1>5, <2>4 DEF new_block
    <3>2. ~ MayBeFullBelow' \/ ~ Full(BOX_H - 1)'
      BY <1>0, <2>1, <2>2, <3>1, PutBelow
    <3> QED BY <3>1, <3>2 DEF BelowSafe, BelowIsNeverFull, Full
  <2> QED BY <2>3, <2>4
<1>6. CASE Quit
  BY <1>6 DEF Quit, BelowSafe, BelowIsNeverFull, MayBeFullBelow, Full
<1>7. CASE UNCHANGED tetrisVars
  BY <1>7 DEF tetrisVars, BelowSafe, BelowIsNeverFull, MayBeFullBelow, Full
<1> QED BY <1>1, <1>2, <1>3, <1>4, <1>5, <1>6, <1>7 DEF TetrisNext, Scan

\* delete_row never finds a full row in the memory below the board, on no board
\* of more than four rows (tetris.c:463-485).
THEOREM BelowCorrect == TetrisSpec => []BelowIsNeverFull
<1>1. BelowSafe => BelowIsNeverFull BY DEF BelowSafe
<1> QED BY <1>1, InitIInv, Inductive, InitBelow, BelowInductive, PTL DEF TetrisSpec

-----------------------------------------------------------------------------
(***************************************************************************)
(* What a scan deletes                                                     *)
(***************************************************************************)
\* Of the rows S, those in G are those that were in F before row k was taken out
\* and the rows above it moved down.
Drop(F, G, k, S) == \A s \in S : s \in G <=> IF s <= k THEN s - 1 \in F ELSE s \in F

LEMMA ShiftCount ==
  ASSUME NEW n \in Nat, NEW k \in 0 .. n-1, NEW y \in 0 .. k, NEW F \in SUBSET (y .. n-1), k \in F,
         NEW G \in SUBSET (y+1 .. n-1), Drop(F, G, k, y+1 .. n-1)
  PROVE  Cardinality(F) = Cardinality(G) + 1
<1> DEFINE H == F \ {k}
           f == [s \in H |-> IF s < k THEN s + 1 ELSE s]
<1>0. \A s \in y+1 .. n-1 : s \in G <=> IF s <= k THEN s - 1 \in F ELSE s \in F
  BY DEF Drop
<1>1. IsFiniteSet(F) /\ IsFiniteSet(G)
  <2>1. IsFiniteSet(y .. n-1) /\ IsFiniteSet(y+1 .. n-1)
    <3>1. y \in Int /\ n-1 \in Int /\ y+1 \in Int
      OBVIOUS
    <3> QED BY <3>1, FS_Interval
  <2> QED BY <2>1, FS_Subset
<1>2. IsFiniteSet(H) /\ Cardinality(H) = Cardinality(F) - 1
  BY <1>1, FS_RemoveElement
<1>3. f \in [H -> G]
  <2> SUFFICES ASSUME NEW s \in H PROVE (IF s < k THEN s + 1 ELSE s) \in G
    OBVIOUS
  <2>1. s \in y .. n-1 /\ s \in F /\ s # k
    OBVIOUS
  <2>2. CASE s < k
    <3>1. s + 1 \in y+1 .. n-1 /\ s + 1 <= k /\ (s + 1) - 1 = s
      BY <2>1, <2>2
    <3> QED BY <1>0, <2>1, <2>2, <3>1
  <2>3. CASE ~(s < k)
    BY <1>0, <2>1, <2>3
  <2> QED BY <2>2, <2>3
<1>4. \A s, t \in H : f[s] = f[t] => s = t
  <2> SUFFICES ASSUME NEW s \in H, NEW t \in H, f[s] = f[t] PROVE s = t
    OBVIOUS
  <2>1. s \in Int /\ t \in Int /\ s # k /\ t # k /\ k \in Int
    OBVIOUS
  <2> QED BY <2>1
<1>5. \A g \in G : \E s \in H : f[s] = g
  <2> SUFFICES ASSUME NEW g \in G PROVE \E s \in H : f[s] = g
    OBVIOUS
  <2>1. g \in y+1 .. n-1
    OBVIOUS
  <2>2. CASE g <= k
    <3>1. g - 1 \in H /\ g - 1 < k /\ (g - 1) + 1 = g
      BY <1>0, <2>1, <2>2
    <3> QED BY <3>1
  <2>3. CASE ~(g <= k)
    <3>1. g \in H /\ ~(g < k)
      BY <1>0, <2>1, <2>3
    <3> QED BY <3>1
  <2> QED BY <2>2, <2>3
<1>6. ExistsBijection(H, G)
  <2> HIDE DEF f
  <2>1. f \in Bijection(H, G)
    BY <1>3, <1>4, <1>5 DEF Bijection, Injection, IsInjective, Surjection
  <2> QED BY <2>1 DEF ExistsBijection
<1>7. Cardinality(H) = Cardinality(G)
  BY <1>2, <1>6, FS_Bijection
<1> QED BY <1>1, <1>2, <1>7, FS_CardinalityType

\* How far a cell of row y sinks
Sunk(y) == Cardinality({ r \in y .. BOX_H-1 : Full(r) })

LEMMA FullMoves ==
  ASSUME ClearRow, TetrisTypeOK, \A c \in Column : <<c, 0>> \notin map,
         NEW s \in 0 .. BOX_H-1
  PROVE  Full(s)' <=> IF s \in 1 .. row THEN Full(s - 1) ELSE Full(s)
<1>1. \A c \in Column : <<c, s>> \in Cell
  BY DEF Cell, Column
<1>2. \A c \in Column : <<c, s>> \in map' <=>
                          IF s \in 1 .. row THEN <<c, s - 1>> \in map ELSE <<c, s>> \in map
  BY <1>1 DEF ClearRow, Deleted
<1> QED BY <1>2 DEF Full

LEMMA SunkMoves ==
  ASSUME ClearRow, TetrisTypeOK, \A c \in Column : <<c, 0>> \notin map
  PROVE  /\ row \in 1 .. BOX_H-1
         /\ \A y \in 0 .. row-1 : Sunk(y) \in Nat /\ Sunk(y + 1)' = Sunk(y) - 1
         /\ \A y \in row+1 .. BOX_H-1 : Sunk(y)' = Sunk(y)
<1>1. BOX_H \in Nat /\ 0 \in Column /\ row \in 0 .. BOX_H-1 /\ Full(row)
  BY TetrisAssumption DEF ClearRow, TetrisTypeOK, Column
<1>2. ~ Full(0)
  BY <1>1 DEF Full
<1>3. row \in 1 .. BOX_H-1
  BY <1>1, <1>2
<1>4. ASSUME NEW y \in 0 .. row-1 PROVE Sunk(y) \in Nat /\ Sunk(y + 1)' = Sunk(y) - 1
  <2> DEFINE F == { r \in y .. BOX_H-1 : Full(r) }
             G == { r \in y+1 .. BOX_H-1 : Full(r)' }
  <2>1. row \in F /\ y \in 0 .. row
    BY <1>1, <1>3
  <2>2. ASSUME NEW s \in y+1 .. BOX_H-1
        PROVE  s \in G <=> IF s <= row THEN s - 1 \in F ELSE s \in F
    <3>1. s \in 0 .. BOX_H-1 /\ s \in Int /\ row \in Int
      BY <1>3
    <3>2. Full(s)' <=> IF s \in 1 .. row THEN Full(s - 1) ELSE Full(s)
      BY <3>1, FullMoves
    <3>3. s <= row => s \in 1 .. row /\ s - 1 \in y .. BOX_H-1
      BY <1>1, <1>3
    <3>4. ~(s <= row) => s \notin 1 .. row /\ s \in y .. BOX_H-1
      BY <1>1, <1>3
    <3> QED BY <3>2, <3>3, <3>4
  <2>3. Cardinality(F) = Cardinality(G) + 1
    <3> HIDE DEF F, G
    <3>1. F \in SUBSET (y .. BOX_H-1) /\ G \in SUBSET (y+1 .. BOX_H-1)
      BY DEF F, G
    <3>2. row \in 0 .. BOX_H-1 /\ y \in 0 .. row /\ row \in F /\ BOX_H \in Nat
      BY <1>1, <1>3, <2>1
    <3>3. Drop(F, G, row, y+1 .. BOX_H-1)
      BY <2>2 DEF Drop
    <3> QED BY <3>1, <3>2, <3>3, ShiftCount
  <2>4. Cardinality(F) \in Nat /\ Cardinality(G) \in Nat
    <3>1. IsFiniteSet(y .. BOX_H-1) /\ IsFiniteSet(y+1 .. BOX_H-1)
      BY <1>1, FS_Interval
    <3>2. F \in SUBSET (y .. BOX_H-1) /\ G \in SUBSET (y+1 .. BOX_H-1)
      OBVIOUS
    <3>3. IsFiniteSet(F) /\ IsFiniteSet(G)
      <4> HIDE DEF F, G
      <4> QED BY <3>1, <3>2, FS_Subset
    <3> QED BY <3>3, FS_CardinalityType
  <2>5. Sunk(y) = Cardinality(F) /\ Sunk(y + 1)' = Cardinality(G)
    BY DEF Sunk
  <2> HIDE DEF F, G
  <2> QED BY <2>3, <2>4, <2>5
<1>5. ASSUME NEW y \in row+1 .. BOX_H-1 PROVE Sunk(y)' = Sunk(y)
  <2>1. \A r \in y .. BOX_H-1 : r \in 0 .. BOX_H-1 /\ r \notin 1 .. row
    BY <1>3
  <2>2. \A r \in y .. BOX_H-1 : Full(r)' <=> Full(r)
    BY <2>1, FullMoves
  <2>3. { r \in y .. BOX_H-1 : Full(r)' } = { r \in y .. BOX_H-1 : Full(r) }
    BY <2>2
  <2> QED BY <2>3 DEF Sunk
<1> QED BY <1>3, <1>4, <1>5

LEMMA ClearCollapses ==
  ASSUME ClearRow, TetrisTypeOK, \A c \in Column : <<c, 0>> \notin map
  PROVE  Collapsed' = Collapsed
<1>1. /\ row \in 1 .. BOX_H-1 /\ BOX_H \in Nat /\ Full(row)
      /\ \A y \in 0 .. row-1 : Sunk(y) \in Nat /\ Sunk(y + 1)' = Sunk(y) - 1
      /\ \A y \in row+1 .. BOX_H-1 : Sunk(y)' = Sunk(y)
  BY SunkMoves, TetrisAssumption DEF ClearRow
<1>2. \A p \in map : p \in Cell /\ p = <<p[1], p[2]>> /\ p[1] \in Column /\ p[2] \in 1 .. BOX_H-1
  <2>1. \A p \in map : p \in Cell /\ p = <<p[1], p[2]>> /\ p[1] \in Column /\ p[2] \in 0 .. BOX_H-1
    BY DEF TetrisTypeOK, Cell, Column
  <2>2. ASSUME NEW p \in map PROVE p[2] # 0
    <3>1. p[1] \in Column /\ p = <<p[1], p[2]>>
      BY <2>1
    <3> QED BY <3>1
  <2>3. \A y \in 0 .. BOX_H-1 : y # 0 => y \in 1 .. BOX_H-1
    BY <1>1
  <2> QED BY <2>1, <2>2, <2>3
<1>3. map' = Deleted(row)
  BY DEF ClearRow
<1>4. Collapsed = { <<p[1], p[2] + Sunk(p[2])>> : p \in { q \in map : ~ Full(q[2]) } }
  BY DEF Collapsed, Sunk
<1>5. Collapsed' = { <<p[1], p[2] + Sunk(p[2])'>> : p \in { q \in map' : ~ Full(q[2])' } }
  BY DEF Collapsed, Sunk
<1>6. ASSUME NEW p \in map, ~ Full(p[2])
      PROVE  <<p[1], p[2] + Sunk(p[2])>> \in Collapsed'
  <2>1. p[1] \in Column /\ p[2] \in 1 .. BOX_H-1 /\ p[2] # row
    BY <1>1, <1>2, <1>6
  <2>2. CASE p[2] < row
    <3> DEFINE q == <<p[1], p[2] + 1>>
    <3>1. p[2] \in 0 .. row-1 /\ p[2] + 1 \in 1 .. row /\ (p[2] + 1) - 1 = p[2] /\ p[2] + 1 \in 0 .. BOX_H-1
      BY <1>1, <2>1, <2>2
    <3>2. q \in Cell /\ q[1] = p[1] /\ q[2] = p[2] + 1
      BY <2>1, <3>1 DEF Cell, Column
    <3>3. q \in map'
      BY <1>2, <1>3, <3>1, <3>2 DEF Deleted
    <3>4. ~ Full(p[2] + 1)'
      BY <1>6, <3>1, FullMoves
    <3>5. q[2] + Sunk(q[2])' = p[2] + Sunk(p[2])
      <4>1. Sunk(p[2] + 1)' = Sunk(p[2]) - 1 /\ Sunk(p[2]) \in Nat /\ p[2] \in Int
        BY <1>1, <3>1
      <4> QED BY <3>2, <4>1
    <3> HIDE DEF q
    <3>6. q \in { x \in map' : ~ Full(x[2])' }
      BY <3>2, <3>3, <3>4
    <3> QED BY <1>5, <3>2, <3>5, <3>6
  <2>3. CASE p[2] > row
    <3>1. p[2] \in row+1 .. BOX_H-1 /\ p[2] \notin 1 .. row /\ p[2] \in 0 .. BOX_H-1
      BY <1>1, <2>1, <2>3
    <3>2. p \in map'
      BY <1>2, <1>3, <3>1 DEF Deleted
    <3>3. ~ Full(p[2])' /\ Sunk(p[2])' = Sunk(p[2])
      BY <1>1, <1>6, <3>1, FullMoves
    <3>4. p \in { x \in map' : ~ Full(x[2])' }
      BY <3>2, <3>3
    <3> QED BY <1>5, <3>3, <3>4
  <2> QED BY <1>1, <2>1, <2>2, <2>3
<1>7. ASSUME NEW q \in map', ~ Full(q[2])'
      PROVE  <<q[1], q[2] + Sunk(q[2])'>> \in Collapsed
  <2>1. q \in Cell /\ q = <<q[1], q[2]>> /\ q[1] \in Column /\ q[2] \in 0 .. BOX_H-1
    BY <1>3 DEF Deleted, Cell, Column
  <2>2. CASE q[2] \in 1 .. row
    <3> DEFINE p == <<q[1], q[2] - 1>>
    <3>1. p \in map /\ p[1] = q[1] /\ p[2] = q[2] - 1
      BY <1>3, <2>2 DEF Deleted
    <3>2. ~ Full(q[2] - 1)
      BY <1>7, <2>1, <2>2, FullMoves
    <3>3. q[2] - 1 \in 0 .. row-1 /\ (q[2] - 1) + 1 = q[2] /\ q[2] \in Int
      BY <1>1, <2>2
    <3>4. p[2] + Sunk(p[2]) = q[2] + Sunk(q[2])'
      <4>1. Sunk(q[2])' = Sunk(q[2] - 1) - 1 /\ Sunk(q[2] - 1) \in Nat
        BY <1>1, <3>3
      <4> QED BY <3>1, <3>3, <4>1
    <3> HIDE DEF p
    <3>5. p \in { x \in map : ~ Full(x[2]) }
      BY <3>1, <3>2
    <3> QED BY <1>4, <3>1, <3>4, <3>5
  <2>3. CASE q[2] \notin 1 .. row
    <3>1. q \in map
      BY <1>3, <2>3 DEF Deleted
    <3>2. q[2] \in row+1 .. BOX_H-1
      BY <1>1, <1>2, <2>3, <3>1
    <3>3. ~ Full(q[2]) /\ Sunk(q[2])' = Sunk(q[2])
      BY <1>1, <1>7, <2>1, <2>3, <3>2, FullMoves
    <3>4. q \in { x \in map : ~ Full(x[2]) }
      BY <3>1, <3>3
    <3> QED BY <1>4, <3>3, <3>4
  <2> QED BY <2>2, <2>3
<1>8. Collapsed \subseteq Collapsed'
  BY <1>4, <1>6
<1>9. Collapsed' \subseteq Collapsed
  BY <1>5, <1>7
<1> QED BY <1>8, <1>9

\* While the top row is empty, the scan comes to what deleting all full rows at once
\* would, although it deletes in place while it looks (tetris.c:463-501).
THEOREM CollapseCorrect == TetrisSpec => ScanCollapses
<1>1. ASSUME TetrisTypeOK, [TetrisNext]_tetrisVars
      PROVE  [tetris_pc = "scan" /\ (\A c \in Column : <<c, 0>> \notin map) => Collapsed' = Collapsed]_tetrisVars
  <2> SUFFICES ASSUME TetrisNext, tetris_pc = "scan", \A c \in Column : <<c, 0>> \notin map
               PROVE  Collapsed' = Collapsed
    BY <1>1
  <2>1. CASE ClearRow
    BY <1>1, <2>1, ClearCollapses
  <2>2. CASE PassRow \/ PassBelow
    <3>1. map' = map
      BY <2>2 DEF PassRow, PassBelow
    <3> QED BY <3>1 DEF Collapsed, Full
  <2> QED BY <2>1, <2>2 DEF TetrisNext, Scan, Tick, new_block, Quit
<1> QED BY <1>1, TypeCorrect, PTL DEF TetrisSpec, ScanCollapses

-----------------------------------------------------------------------------
(***************************************************************************)
(* gtk_tree: the shared iterator                                           *)
(***************************************************************************)
Seen == { order[n] : n \in DOMAIN order }

\* A subdirectory of d was listed.
HasSub(d) == \E n \in DOMAIN order : order[n] \in Dir /\ parent[order[n]] = d

TreeTypeOK ==
  /\ parent \in [(Dir \ {Root}) \cup RegularFile -> Dir]
  /\ order \in Seq((Dir \ {Root}) \cup RegularFile)
  /\ stack \in Seq(Dir)
  /\ iter1 \in Dir
  /\ DOMAIN under \subseteq Seen

\* The iterator points to the row of the directory entered last: it has no listed
\* subdirectory, any other directory that is being listed has one, and it is in all
\* of them.
TreeInv ==
  /\ TreeTypeOK
  /\ \A m, n \in DOMAIN order : order[m] = order[n] => m = n
  /\ \A k \in DOMAIN stack : stack[k] \in Seen \cup {Root}
  /\ \A n \in DOMAIN order : parent[order[n]] \in Seen \cup {Root}
  /\ ~ HasSub(iter1)
  /\ \A k \in DOMAIN stack : HasSub(stack[k]) \/ (k = Len(stack) /\ iter1 = stack[k])
  /\ \A j, k \in DOMAIN stack : k <= j => Tree!Inside(stack[j], stack[k])
  /\ \A k \in DOMAIN stack : Tree!Inside(iter1, stack[k])
  /\ HangsInOwnDirectory

\* A directory is inside itself, and its own directory is, if that is in another one.
LEMMA InsideSelf == ASSUME NEW d PROVE Tree!Inside(d, d)
BY DEF Tree!Inside

LEMMA InsideUp ==
  ASSUME NEW d \in Dir \ {Root}, NEW e, Tree!Inside(parent[d], e)
  PROVE  Tree!Inside(d, e)
BY DEF Tree!Inside

LEMMA InsideKept ==
  ASSUME parent' = parent, NEW d, NEW e
  PROVE  Tree!Inside(d, e)' <=> Tree!Inside(d, e)
BY DEF Tree!Inside

LEMMA TreeInit == Tree!Init => TreeInv
<1> SUFFICES ASSUME Tree!Init PROVE TreeInv
  OBVIOUS
<1>1. /\ parent \in Trees /\ order = <<>> /\ stack = <<Root>> /\ iter1 = Root
      /\ DOMAIN under = {}
  BY DEF Tree!Init
<1>2. parent \in [(Dir \ {Root}) \cup RegularFile -> Dir] /\ Root \in Dir
  BY <1>1, ToolsAssumption
<1>3. DOMAIN order = {} /\ DOMAIN stack = {1} /\ stack[1] = Root /\ stack \in Seq(Dir)
      /\ order \in Seq((Dir \ {Root}) \cup RegularFile)
  BY <1>1, <1>2
<1>4. TreeTypeOK
  BY <1>1, <1>2, <1>3 DEF TreeTypeOK
<1>5. HangsInOwnDirectory
  BY <1>1 DEF HangsInOwnDirectory, Tree!HangsInOwnDirectory
<1>6. \A k \in DOMAIN stack : k = 1 /\ stack[k] = iter1
  BY <1>1, <1>3
<1>7. /\ \A j, k \in DOMAIN stack : k <= j => Tree!Inside(stack[j], stack[k])
      /\ \A k \in DOMAIN stack : Tree!Inside(iter1, stack[k])
  BY <1>6, InsideSelf
<1> QED BY <1>1, <1>3, <1>4, <1>5, <1>7 DEF TreeInv, HasSub

\* One more name is listed; the files shown before stand where they did.
LEMMA Listed ==
  ASSUME TreeInv, NEW x \in Tree!Unlisted, stack # <<>>, order' = Append(order, x), parent' = parent
  PROVE  /\ x \in (Dir \ {Root}) \cup RegularFile /\ x \notin Seen
         /\ Len(order) \in Nat /\ DOMAIN order = 1 .. Len(order)
         /\ parent[x] \in Seen \cup {Root}
         /\ \E k \in DOMAIN stack : stack[k] = parent[x]
         /\ order' \in Seq((Dir \ {Root}) \cup RegularFile)
         /\ DOMAIN order' = 1 .. Len(order) + 1 /\ order'[Len(order) + 1] = x
         /\ \A n \in DOMAIN order : n \in DOMAIN order' /\ order'[n] = order[n]
         /\ Seen' = Seen \cup {x}
         /\ \A d : HasSub(d)' <=> HasSub(d) \/ (x \in Dir /\ parent[x] = d)
         /\ \A m, n \in DOMAIN order' : order'[m] = order'[n] => m = n
         /\ \A n \in DOMAIN order' : parent'[order'[n]] \in Seen' \cup {Root}
<1> USE DEF TreeInv, TreeTypeOK
<1>1. /\ x \in (Dir \ {Root}) \cup RegularFile /\ x \notin Seen
      /\ parent[x] = stack[Len(stack)]
  BY DEF Tree!Unlisted, Tree!Last, Tree!Range, Seen
<1>2. Len(order) \in Nat /\ DOMAIN order = 1 .. Len(order)
  OBVIOUS
<1>3. Len(stack) \in DOMAIN stack
  OBVIOUS
<1>4. parent[x] \in Seen \cup {Root} /\ \E k \in DOMAIN stack : stack[k] = parent[x]
  BY <1>1, <1>3
<1>5. /\ order' \in Seq((Dir \ {Root}) \cup RegularFile)
      /\ DOMAIN order' = 1 .. Len(order) + 1 /\ order'[Len(order) + 1] = x
      /\ \A n \in DOMAIN order : n \in DOMAIN order' /\ order'[n] = order[n]
  BY <1>1, <1>2
<1>6. \A n \in DOMAIN order' : n \in DOMAIN order \/ n = Len(order) + 1
  BY <1>2, <1>5
<1>7. Seen' = Seen \cup {x}
  BY <1>2, <1>5, <1>6 DEF Seen
<1>8. \A d : HasSub(d)' <=> HasSub(d) \/ (x \in Dir /\ parent[x] = d)
  BY <1>2, <1>5, <1>6 DEF HasSub
<1>9. \A m, n \in DOMAIN order' : order'[m] = order'[n] => m = n
  BY <1>1, <1>2, <1>5, <1>6 DEF Seen
<1>10. \A n \in DOMAIN order' : parent'[order'[n]] \in Seen' \cup {Root}
  BY <1>4, <1>5, <1>6, <1>7
<1> QED BY <1>1, <1>2, <1>4, <1>5, <1>7, <1>8, <1>9, <1>10

\* A file that is shown under u is where it should be: what HangsInOwnDirectory says of it
Hangs(f, u) ==
  /\ Tree!Inside(u, parent[f])
  /\ (\A m, n \in DOMAIN order :
        m < n /\ order[n] = f /\ order[m] \in Dir => parent[order[m]] # parent[f])
       => u = parent[f]

LEMMA HangsOn ==
  ASSUME TreeInv, NEW x \in Tree!Unlisted, stack # <<>>, order' = Append(order, x), parent' = parent,
         NEW f \in Seen, NEW u
  PROVE  Hangs(f, u)' <=> Hangs(f, u)
<1>1. /\ x \notin Seen /\ Len(order) \in Nat /\ DOMAIN order = 1 .. Len(order)
      /\ DOMAIN order' = 1 .. Len(order) + 1 /\ order'[Len(order) + 1] = x
      /\ \A n \in DOMAIN order : n \in DOMAIN order' /\ order'[n] = order[n]
  BY Listed
<1>2. \A n \in DOMAIN order' : order'[n] = f => n \in DOMAIN order
  BY <1>1
<1>3. \A m \in DOMAIN order', n \in DOMAIN order : m < n => m \in DOMAIN order
  BY <1>1
<1>4. Tree!Inside(u, parent[f])' <=> Tree!Inside(u, parent[f])
  <2>1. PICK d : d = parent[f]
    OBVIOUS
  <2>2. Tree!Inside(u, d)' <=> Tree!Inside(u, d)
    BY InsideKept
  <2> QED BY <2>1, <2>2 DEF Tree!Inside
<1>5. (\A m, n \in DOMAIN order' :
         m < n /\ order'[n] = f /\ order'[m] \in Dir => parent[order'[m]] # parent[f])
        <=> (\A m, n \in DOMAIN order :
               m < n /\ order[n] = f /\ order[m] \in Dir => parent[order[m]] # parent[f])
  BY <1>1, <1>2, <1>3
<1> QED BY <1>4, <1>5 DEF Hangs

LEMMA TreeEnter ==
  ASSUME TreeInv, NEW d \in Dir, Tree!EnterDirectory(d)
  PROVE  TreeInv'
<1>1. /\ stack # <<>> /\ d \in Tree!Unlisted /\ iter1' = d /\ stack' = Append(stack, d)
      /\ order' = Append(order, d) /\ parent' = parent /\ under' = under
  BY DEF Tree!EnterDirectory
<1>2. /\ d \in (Dir \ {Root}) \cup RegularFile /\ d \notin Seen
      /\ parent[d] \in Seen \cup {Root}
      /\ order' \in Seq((Dir \ {Root}) \cup RegularFile)
      /\ Seen' = Seen \cup {d}
      /\ \A e : HasSub(e)' <=> HasSub(e) \/ (d \in Dir /\ parent[d] = e)
      /\ \A m, n \in DOMAIN order' : order'[m] = order'[n] => m = n
      /\ \A n \in DOMAIN order' : parent'[order'[n]] \in Seen' \cup {Root}
      /\ \E k \in DOMAIN stack : stack[k] = parent[d]
  BY <1>1, Listed
<1>3. d # Root
  BY <1>2, ToolsAssumption
<1>4. \A n \in DOMAIN order : parent[order[n]] # d
  BY <1>2, <1>3 DEF TreeInv
<1>5. ~ HasSub(d)' /\ parent[d] # d
  BY <1>2, <1>3, <1>4 DEF HasSub
<1>6. /\ stack' \in Seq(Dir) /\ Len(stack') = Len(stack) + 1 /\ stack'[Len(stack) + 1] = d
      /\ \A k \in DOMAIN stack' : k # Len(stack) + 1 => k \in DOMAIN stack /\ stack'[k] = stack[k]
  BY <1>1 DEF TreeInv, TreeTypeOK
<1>7. TreeTypeOK'
  BY <1>1, <1>2, <1>6 DEF TreeInv, TreeTypeOK
<1>8. \A k \in DOMAIN stack' : stack'[k] \in Seen' \cup {Root}
  BY <1>2, <1>6 DEF TreeInv
<1>9. ASSUME NEW k \in DOMAIN stack'
      PROVE  HasSub(stack[k])' \/ (k = Len(stack') /\ iter1' = stack'[k])
  <2>1. CASE k = Len(stack) + 1
    BY <1>1, <1>6, <2>1
  <2>2. CASE k # Len(stack) + 1
    <3>1. k \in DOMAIN stack /\ stack'[k] = stack[k]
      BY <1>6, <2>2
    <3>2. PICK e : e = stack[k]
      OBVIOUS
    <3>3. HasSub(e) \/ (d \in Dir /\ parent[d] = e)
      BY <1>1, <3>1, <3>2 DEF TreeInv, HasSub, Tree!Unlisted, Tree!Last
    <3>4. HasSub(e)'
      BY <1>2, <3>3
    <3> QED BY <3>1, <3>2, <3>4 DEF HasSub
  <2> QED BY <2>1, <2>2
<1>10. ASSUME NEW f \in DOMAIN under' PROVE Hangs(f, under[f])'
  <2>1. f \in DOMAIN under /\ f \in Seen
    BY <1>1, <1>10 DEF TreeInv, TreeTypeOK
  <2>2. PICK u : u = under[f]
    OBVIOUS
  <2>3. Hangs(f, u)
    BY <2>1, <2>2 DEF TreeInv, HangsInOwnDirectory, Tree!HangsInOwnDirectory, Hangs
  <2>4. Hangs(f, u)'
    BY <1>1, <2>1, <2>3, HangsOn
  <2> QED BY <1>1, <2>2, <2>4 DEF Hangs
<1>11. HangsInOwnDirectory'
  BY <1>10 DEF HangsInOwnDirectory, Tree!HangsInOwnDirectory, Hangs
<1>12. ~ HasSub(iter1)'
  BY <1>1, <1>5 DEF HasSub
<1>13. ASSUME NEW k \in DOMAIN stack PROVE Tree!Inside(d, stack[k])
  <2>1. /\ Len(stack) \in DOMAIN stack /\ k <= Len(stack)
        /\ parent[d] = stack[Len(stack)]
    BY <1>1 DEF Tree!Unlisted, Tree!Last, TreeInv, TreeTypeOK
  <2>2. Tree!Inside(parent[d], stack[k])
    BY <2>1 DEF TreeInv
  <2> QED BY <1>3, <2>2, InsideUp
<1>14. ASSUME NEW k \in DOMAIN stack' PROVE Tree!Inside(iter1, stack[k])'
  <2>1. PICK e : e = stack'[k]
    OBVIOUS
  <2>2. Tree!Inside(d, e)
    BY <1>6, <1>13, <2>1, InsideSelf
  <2>3. Tree!Inside(d, e)'
    BY <1>1, <2>2, InsideKept
  <2> QED BY <1>1, <2>1, <2>3 DEF Tree!Inside
<1>15. ASSUME NEW j \in DOMAIN stack', NEW k \in DOMAIN stack', k <= j
       PROVE  Tree!Inside(stack[j], stack[k])'
  <2>1. PICK c, e : c = stack'[j] /\ e = stack'[k]
    OBVIOUS
  <2>2. Tree!Inside(c, e)
    <3>1. CASE j = Len(stack) + 1
      BY <1>6, <1>13, <2>1, <3>1, InsideSelf
    <3>2. CASE j # Len(stack) + 1
      <4>1. j \in DOMAIN stack /\ j <= Len(stack) /\ Len(stack) \in Nat /\ k \in Nat
        BY <1>6, <3>2 DEF TreeInv, TreeTypeOK
      <4>2. k # Len(stack) + 1
        BY <1>15, <4>1
      <4> QED BY <1>6, <1>15, <2>1, <3>2, <4>1, <4>2 DEF TreeInv
    <3> QED BY <3>1, <3>2
  <2>3. Tree!Inside(c, e)'
    BY <1>1, <2>2, InsideKept
  <2> QED BY <2>1, <2>3 DEF Tree!Inside
<1> QED BY <1>2, <1>7, <1>8, <1>9, <1>11, <1>12, <1>14, <1>15 DEF TreeInv

LEMMA TreeAdd ==
  ASSUME TreeInv, NEW f \in RegularFile, Tree!AddFile(f)
  PROVE  TreeInv'
<1>1. /\ stack # <<>> /\ f \in Tree!Unlisted /\ iter1' = iter1 /\ stack' = stack
      /\ order' = Append(order, f) /\ parent' = parent
      /\ under' = [x \in DOMAIN under \cup {f} |-> IF x = f THEN iter1 ELSE under[x]]
  BY DEF Tree!AddFile
<1>2. /\ f \in (Dir \ {Root}) \cup RegularFile /\ f \notin Seen
      /\ Len(order) \in Nat /\ DOMAIN order = 1 .. Len(order)
      /\ order' \in Seq((Dir \ {Root}) \cup RegularFile)
      /\ DOMAIN order' = 1 .. Len(order) + 1 /\ order'[Len(order) + 1] = f
      /\ \A n \in DOMAIN order : n \in DOMAIN order' /\ order'[n] = order[n]
      /\ Seen' = Seen \cup {f}
      /\ \A e : HasSub(e)' <=> HasSub(e) \/ (f \in Dir /\ parent[f] = e)
      /\ \A m, n \in DOMAIN order' : order'[m] = order'[n] => m = n
      /\ \A n \in DOMAIN order' : parent'[order'[n]] \in Seen' \cup {Root}
  BY <1>1, Listed
<1>3. f \notin Dir
  BY ToolsAssumption
<1>4. \A e : HasSub(e)' <=> HasSub(e)
  BY <1>2, <1>3
<1>5. ~ HasSub(iter1)'
  <2>1. PICK e : e = iter1
    OBVIOUS
  <2>2. ~ HasSub(e)'
    BY <1>4, <2>1 DEF TreeInv
  <2> QED BY <1>1, <2>1, <2>2 DEF HasSub
<1>6. ASSUME NEW k \in DOMAIN stack'
      PROVE  HasSub(stack[k])' \/ (k = Len(stack') /\ iter1' = stack'[k])
  <2>1. PICK e : e = stack[k]
    OBVIOUS
  <2>2. HasSub(e)' \/ (k = Len(stack) /\ iter1 = e)
    BY <1>1, <1>4, <1>6, <2>1 DEF TreeInv
  <2> QED BY <1>1, <2>1, <2>2 DEF HasSub
<1>7. TreeTypeOK'
  BY <1>1, <1>2 DEF TreeInv, TreeTypeOK
<1>8. parent[f] = stack[Len(stack)] /\ Len(stack) \in DOMAIN stack
  BY <1>1 DEF Tree!Unlisted, Tree!Last, TreeInv, TreeTypeOK
<1>9. Tree!Inside(iter1, parent[f]) /\ (~ HasSub(parent[f]) => iter1 = parent[f])
  BY <1>8 DEF TreeInv
<1>10. Hangs(f, iter1)'
  <2>1. \A m, n \in DOMAIN order' : m < n /\ order'[n] = f <=> m \in DOMAIN order /\ n = Len(order) + 1
    <3>1. \A n \in DOMAIN order' : order'[n] = f <=> n = Len(order) + 1
      BY <1>2
    <3> QED BY <1>2, <3>1
  <2>2. (\A m, n \in DOMAIN order' :
           m < n /\ order'[n] = f /\ order'[m] \in Dir => parent[order'[m]] # parent[f])
          <=> ~ HasSub(parent[f])
    BY <1>2, <2>1 DEF HasSub
  <2>3. PICK u, d : u = iter1 /\ d = parent[f]
    OBVIOUS
  <2>4. Tree!Inside(u, d)'
    BY <1>1, <1>9, <2>3, InsideKept
  <2>5. Tree!Inside(iter1, parent[f])'
    BY <1>1, <2>3, <2>4 DEF Tree!Inside
  <2> QED BY <1>1, <1>9, <2>2, <2>5 DEF Hangs
<1>11. ASSUME NEW g \in DOMAIN under' PROVE Hangs(g, under[g])'
  <2>1. CASE g = f
    BY <1>1, <1>10, <2>1 DEF Hangs
  <2>2. CASE g # f
    <3>1. g \in DOMAIN under /\ g \in Seen /\ under'[g] = under[g]
      BY <1>1, <1>11, <2>2 DEF TreeInv, TreeTypeOK
    <3>2. PICK u : u = under[g]
      OBVIOUS
    <3>3. Hangs(g, u)
      BY <3>1, <3>2 DEF TreeInv, HangsInOwnDirectory, Tree!HangsInOwnDirectory, Hangs
    <3>4. Hangs(g, u)'
      BY <1>1, <3>1, <3>3, HangsOn
    <3> QED BY <3>1, <3>2, <3>4 DEF Hangs
  <2> QED BY <2>1, <2>2
<1>12. HangsInOwnDirectory'
  BY <1>11 DEF HangsInOwnDirectory, Tree!HangsInOwnDirectory, Hangs
<1>13. \A k \in DOMAIN stack' : stack'[k] \in Seen' \cup {Root}
  BY <1>1, <1>2 DEF TreeInv
<1>14. /\ \A j, k \in DOMAIN stack' : k <= j => Tree!Inside(stack[j], stack[k])'
       /\ \A k \in DOMAIN stack' : Tree!Inside(iter1, stack[k])'
  BY <1>1 DEF TreeInv, Tree!Inside
<1> QED BY <1>2, <1>5, <1>6, <1>7, <1>12, <1>13, <1>14 DEF TreeInv

LEMMA TreeLeave ==
  ASSUME TreeInv, Tree!LeaveDirectory
  PROVE  TreeInv'
<1>1. stack # <<>> /\ stack' = Tree!Front(stack) /\ UNCHANGED <<parent, order, iter1, under>>
  BY DEF Tree!LeaveDirectory
<1>2. stack \in Seq(Dir) /\ Len(stack) \in Nat \ {0}
  BY <1>1 DEF TreeInv, TreeTypeOK
<1>3. stack' = SubSeq(stack, 1, Len(stack) - 1)
  BY <1>1 DEF Tree!Front
<1>4. /\ stack' \in Seq(Dir)
      /\ \A k \in DOMAIN stack' : k \in DOMAIN stack /\ k # Len(stack) /\ stack'[k] = stack[k]
  <2>1. \A k \in 1 .. Len(stack) - 1 : stack[k] \in Dir
    BY <1>2
  <2>2. 1 \in Int /\ Len(stack) - 1 \in Int
    BY <1>2
  <2>3. /\ stack' \in Seq(Dir)
        /\ Len(stack') = IF 1 <= Len(stack) - 1 THEN ((Len(stack) - 1) - 1) + 1 ELSE 0
        /\ \A k \in 1 .. ((Len(stack) - 1) - 1) + 1 : stack'[k] = stack[(1 + k) - 1]
    BY <1>3, <2>1, <2>2, SubSeqProperties
  <2>4. Len(stack') = Len(stack) - 1
    <3>1. PICK n \in Nat \ {0} : n = Len(stack)
      BY <1>2
    <3>2. Len(stack') = IF 1 <= n - 1 THEN ((n - 1) - 1) + 1 ELSE 0
      BY <2>3, <3>1
    <3>3. (IF 1 <= n - 1 THEN ((n - 1) - 1) + 1 ELSE 0) = n - 1
      OBVIOUS
    <3> QED BY <3>1, <3>2, <3>3
  <2>5. DOMAIN stack' = 1 .. Len(stack')
    BY <2>3
  <2> QED BY <1>2, <2>3, <2>4, <2>5
<1>5. TreeTypeOK'
  BY <1>1, <1>4 DEF TreeInv, TreeTypeOK, Seen
<1>6. \A k \in DOMAIN stack' : HasSub(stack[k])' \/ (k = Len(stack') /\ iter1' = stack'[k])
  BY <1>1, <1>4 DEF TreeInv, HasSub
<1>7. HangsInOwnDirectory' /\ ~ HasSub(iter1)'
  BY <1>1 DEF TreeInv, HangsInOwnDirectory, Tree!HangsInOwnDirectory, Tree!Inside, HasSub
<1>8. /\ \A m, n \in DOMAIN order' : order'[m] = order'[n] => m = n
      /\ \A k \in DOMAIN stack' : stack'[k] \in Seen' \cup {Root}
      /\ \A n \in DOMAIN order' : parent'[order'[n]] \in Seen' \cup {Root}
  BY <1>1, <1>4 DEF TreeInv, Seen
<1>9. ASSUME NEW k \in DOMAIN stack'
      PROVE  /\ Tree!Inside(iter1, stack[k])'
             /\ \A j \in DOMAIN stack' : k <= j => Tree!Inside(stack[j], stack[k])'
  <2>1. k \in DOMAIN stack /\ stack'[k] = stack[k]
    BY <1>4
  <2>2. Tree!Inside(iter1, stack[k])'
    BY <1>1, <2>1 DEF TreeInv, Tree!Inside
  <2>3. ASSUME NEW j \in DOMAIN stack', k <= j PROVE Tree!Inside(stack[j], stack[k])'
    <3>1. j \in DOMAIN stack /\ stack'[j] = stack[j]
      BY <1>4
    <3>2. Tree!Inside(stack[j], stack[k])
      BY <2>1, <2>3, <3>1 DEF TreeInv
    <3> QED BY <1>1, <2>1, <3>1, <3>2 DEF Tree!Inside
  <2> QED BY <2>2, <2>3
<1> QED BY <1>5, <1>6, <1>7, <1>8, <1>9 DEF TreeInv

LEMMA TreeStep == TreeInv /\ [ToolsNext]_<<tool, zipVars, figVars, treeVars>> => TreeInv'
<1> SUFFICES ASSUME TreeInv, [ToolsNext]_<<tool, zipVars, figVars, treeVars>> PROVE TreeInv'
  OBVIOUS
<1>1. CASE Tree!Next
  BY <1>1, TreeLeave, TreeEnter, TreeAdd DEF Tree!Next
<1>2. CASE UNCHANGED treeVars
  <2>1. UNCHANGED <<parent, stack, order, iter1, under>>
    BY <1>2 DEF treeVars
  <2>2. TreeTypeOK'
    BY <2>1 DEF TreeInv, TreeTypeOK, Seen
  <2>3. HangsInOwnDirectory' /\ ~ HasSub(iter1)'
    BY <2>1 DEF TreeInv, HangsInOwnDirectory, Tree!HangsInOwnDirectory, Tree!Inside, HasSub
  <2>4. /\ \A j, k \in DOMAIN stack' : k <= j => Tree!Inside(stack[j], stack[k])'
        /\ \A k \in DOMAIN stack' : Tree!Inside(iter1, stack[k])'
    BY <2>1 DEF TreeInv, Tree!Inside
  <2> QED BY <2>1, <2>2, <2>3, <2>4 DEF TreeInv, Seen, HasSub
<1> QED BY <1>1, <1>2 DEF ToolsNext

\* A file is shown somewhere in its own directory, and under the directory's own row if
\* no subdirectory of that was listed before it, for every tree and every order of the
\* listing (gtk_tree.c:9-60).
THEOREM TreeCorrect == ToolsSpec => []HangsInOwnDirectory
<1>1. ToolsInit => TreeInv
  BY TreeInit DEF ToolsInit
<1>2. TreeInv => HangsInOwnDirectory
  BY DEF TreeInv
<1> QED BY <1>1, <1>2, TreeStep, PTL DEF ToolsSpec

-----------------------------------------------------------------------------
(***************************************************************************)
(* telefig: the answer in the buffer                                       *)
(***************************************************************************)
LEMMA Split ==
  ASSUME NEW S, NEW s \in Seq(S), NEW n \in 0 .. Len(s)
  PROVE  /\ SubSeq(s, 1, n) \in Seq(S) /\ SubSeq(s, n + 1, Len(s)) \in Seq(S)
         /\ Len(SubSeq(s, 1, n)) = n
         /\ SubSeq(s, 1, n) \o SubSeq(s, n + 1, Len(s)) = s
<1>1. /\ Len(s) \in Nat /\ n \in Nat /\ n <= Len(s) /\ n + 1 \in Int
      /\ \A k \in 1 .. Len(s) : s[k] \in S
  OBVIOUS
<1>2. /\ SubSeq(s, 1, n) \in Seq(S)
      /\ Len(SubSeq(s, 1, n)) = IF 1 <= n THEN (n - 1) + 1 ELSE 0
  <2>1. \A k \in 1 .. n : s[k] \in S
    BY <1>1
  <2> QED BY <1>1, <2>1, SubSeqProperties
<1>3. SubSeq(s, n + 1, Len(s)) \in Seq(S)
  <2>1. \A k \in n + 1 .. Len(s) : s[k] \in S
    BY <1>1
  <2> QED BY <1>1, <2>1, SubSeqProperties
<1>4. SubSeq(s, 1, n) \o SubSeq(s, n + 1, Len(s)) = SubSeq(s, 1, Len(s))
  <2>1. 1 \in 1 .. Len(s) + 1 /\ n \in 1 - 1 .. Len(s) /\ Len(s) \in n .. Len(s)
    BY <1>1
  <2> QED BY <2>1, ConcatAdjacentSubSeq
<1>5. SubSeq(s, 1, Len(s)) = s
  BY SubSeqFull
<1>6. (IF 1 <= n THEN (n - 1) + 1 ELSE 0) = n
  <2>1. n \in Nat
    BY <1>1
  <2> QED BY <2>1
<1>7. Len(SubSeq(s, 1, n)) = n
  BY <1>2, <1>6
<1>8. SubSeq(s, 1, n) \o SubSeq(s, n + 1, Len(s)) = s
  BY <1>4, <1>5
<1> QED BY <1>2, <1>3, <1>7, <1>8

Stream == {"banner", "answer"} \X Nat

LEMMA StreamsJoin ==
  /\ \A s, t \in Seq(Stream) : s \o t \in Seq(Stream)
  /\ \A s, t, u \in Seq(Stream) : (s \o t) \o u = s \o (t \o u)
BY ConcatProperties, ConcatAssociative

FigTypeOK ==
  /\ coming \in Seq(Stream) /\ socket \in Seq(Stream) /\ buf \in Seq(Stream)
  /\ Len(buf) <= BUF_SIZE
  /\ late \in BOOLEAN

\* The bytes received, those delivered and those to come
Answered == buf \o (socket \o coming)

\* If no recv timed out early, they are the answer from the moment the command is sent.
FigInv ==
  /\ FigTypeOK
  /\ fig_pc \in {"connect", "skip"} => buf = <<>>
  /\ fig_pc = "collect" /\ ~ late => Answered = Fig!Bytes("answer", Answer)
  /\ PromptAnswerIsShown

LEMMA BytesAre ==
  ASSUME NEW of \in {"banner", "answer"}, NEW n \in Nat
  PROVE  /\ Fig!Bytes(of, n) \in Seq(Stream) /\ Len(Fig!Bytes(of, n)) = n
         /\ \A k \in 1 .. n : Fig!Bytes(of, n)[k] = <<of, k>>
BY DEF Fig!Bytes, Stream

LEMMA FigInit == Fig!Init => FigInv
<1> SUFFICES ASSUME Fig!Init PROVE FigInv
  OBVIOUS
<1>1. /\ fig_pc = "connect" /\ coming = Fig!Bytes("banner", Banner)
      /\ socket = <<>> /\ buf = <<>> /\ late = FALSE
  BY DEF Fig!Init
<1>2. coming \in Seq(Stream)
  BY <1>1, BytesAre, ToolsAssumption
<1>3. socket \in Seq(Stream) /\ buf \in Seq(Stream) /\ Len(buf) = 0
  BY <1>1
<1>4. Len(buf) <= BUF_SIZE
  BY <1>3, ToolsAssumption
<1> QED BY <1>1, <1>2, <1>3, <1>4 DEF FigInv, FigTypeOK, PromptAnswerIsShown, Fig!PromptAnswerIsShown

LEMMA FigDeliver == ASSUME FigInv, Fig!Deliver PROVE FigInv'
<1>1. PICK k \in 1 .. Len(coming) :
        /\ socket' = socket \o SubSeq(coming, 1, k)
        /\ coming' = SubSeq(coming, k + 1, Len(coming))
  BY DEF Fig!Deliver
<1>2. fig_pc \in {"skip", "collect"} /\ UNCHANGED <<fig_pc, rp, buf, printed, late>>
  BY DEF Fig!Deliver
<1> DEFINE a == SubSeq(coming, 1, k)
           b == SubSeq(coming, k + 1, Len(coming))
<1>3. /\ coming \in Seq(Stream) /\ socket \in Seq(Stream) /\ buf \in Seq(Stream)
      /\ Len(coming) \in Nat /\ k \in 0 .. Len(coming)
  BY DEF FigInv, FigTypeOK
<1>4. a \in Seq(Stream) /\ b \in Seq(Stream) /\ a \o b = coming
  BY <1>3, Split
<1>5. socket' \o coming' = socket \o coming /\ socket' \in Seq(Stream) /\ coming' \in Seq(Stream)
  <2> HIDE DEF a, b
  <2>1. (socket \o a) \o b = socket \o (a \o b)
    BY <1>3, <1>4, StreamsJoin
  <2>2. socket \o a \in Seq(Stream)
    BY <1>3, <1>4, StreamsJoin
  <2> QED BY <1>1, <1>4, <2>1, <2>2 DEF a, b
<1>6. Answered' = Answered
  BY <1>2, <1>5 DEF Answered
<1> QED BY <1>2, <1>3, <1>5, <1>6 DEF FigInv, FigTypeOK, PromptAnswerIsShown, Fig!PromptAnswerIsShown

LEMMA FigConnect == ASSUME FigInv, Fig!Connect PROVE FigInv'
<1>1. fig_pc = "connect" /\ fig_pc' \in {"connect", "skip", "failed"} /\ UNCHANGED <<coming, socket, buf, printed, late>>
  BY DEF Fig!Connect
<1> QED BY <1>1 DEF FigInv, FigTypeOK, PromptAnswerIsShown, Fig!PromptAnswerIsShown

LEMMA FigSkip == ASSUME FigInv, Fig!Skip PROVE FigInv'
<1>1. /\ fig_pc = "skip" /\ socket' = SubSeq(socket, BUF_SIZE + 1, Len(socket))
      /\ UNCHANGED <<fig_pc, rp, coming, buf, printed, late>>
  BY DEF Fig!Skip
<1>2. socket' \in Seq(Stream)
  <2>1. socket \in Seq(Stream) /\ BUF_SIZE \in Nat
    BY ToolsAssumption DEF FigInv, FigTypeOK
  <2>2. BUF_SIZE + 1 \in Int /\ Len(socket) \in Int /\ \A k \in BUF_SIZE + 1 .. Len(socket) : socket[k] \in Stream
    BY <2>1
  <2> QED BY <1>1, <2>2, SubSeqProperties
<1> QED BY <1>1, <1>2 DEF FigInv, FigTypeOK, PromptAnswerIsShown, Fig!PromptAnswerIsShown

LEMMA FigSend == ASSUME FigInv, Fig!SendCommand PROVE FigInv'
<1>1. /\ fig_pc = "skip" /\ socket = <<>> /\ late' = (coming # <<>>) /\ fig_pc' = "collect"
      /\ coming' = coming \o Fig!Bytes("answer", Answer) /\ UNCHANGED <<rp, socket, buf, printed>>
  BY DEF Fig!SendCommand
<1>2. Fig!Bytes("answer", Answer) \in Seq(Stream)
  BY BytesAre, ToolsAssumption
<1>3. coming' \in Seq(Stream)
  BY <1>1, <1>2, ConcatProperties DEF FigInv, FigTypeOK
<1>4. ASSUME ~ late' PROVE Answered' = Fig!Bytes("answer", Answer)
  <2>1. coming = <<>> /\ buf = <<>>
    BY <1>1, <1>4 DEF FigInv
  <2>2. coming' = Fig!Bytes("answer", Answer)
    BY <1>1, <1>2, <2>1, ConcatEmptySeq
  <2> QED BY <1>1, <1>2, <2>1, <2>2, ConcatEmptySeq DEF Answered
<1> QED BY <1>1, <1>3, <1>4 DEF FigInv, FigTypeOK, PromptAnswerIsShown, Fig!PromptAnswerIsShown

LEMMA FigCollect == ASSUME FigInv, Fig!Collect PROVE FigInv'
<1> DEFINE room == BUF_SIZE - Len(buf)
           n == IF Len(socket) < room THEN Len(socket) ELSE room
           a == SubSeq(socket, 1, n)
           b == SubSeq(socket, n + 1, Len(socket))
<1>1. /\ fig_pc = "collect" /\ Len(buf) < BUF_SIZE /\ buf' = buf \o a /\ socket' = b
      /\ UNCHANGED <<fig_pc, rp, coming, printed, late>>
  BY DEF Fig!Collect, Fig!Received
<1>2. /\ coming \in Seq(Stream) /\ socket \in Seq(Stream) /\ buf \in Seq(Stream)
      /\ Len(socket) \in Nat /\ Len(buf) \in Nat /\ BUF_SIZE \in Nat
  BY ToolsAssumption DEF FigInv, FigTypeOK
<1>3. n \in 0 .. Len(socket) /\ Len(buf) + n <= BUF_SIZE
  BY <1>1, <1>2
<1> HIDE DEF n
<1>4. a \in Seq(Stream) /\ b \in Seq(Stream) /\ a \o b = socket /\ Len(a) = n
  BY <1>2, <1>3, Split
<1> HIDE DEF a, b
<1>5. buf' \in Seq(Stream) /\ Len(buf') <= BUF_SIZE /\ socket' \in Seq(Stream)
  BY <1>1, <1>2, <1>3, <1>4, ConcatProperties
<1>6. Answered' = Answered
  <2>1. b \o coming \in Seq(Stream)
    BY <1>2, <1>4, StreamsJoin
  <2>2. (buf \o a) \o (b \o coming) = buf \o (a \o (b \o coming))
    <3> DEFINE c == b \o coming
    <3>1. c \in Seq(Stream) /\ buf \in Seq(Stream) /\ a \in Seq(Stream)
      BY <1>2, <1>4, <2>1
    <3> HIDE DEF c
    <3>2. (buf \o a) \o c = buf \o (a \o c)
      BY <3>1, StreamsJoin
    <3> QED BY <3>2 DEF c
  <2>3. a \o (b \o coming) = (a \o b) \o coming
    BY <1>2, <1>4, StreamsJoin
  <2> QED BY <1>1, <1>4, <2>2, <2>3 DEF Answered
<1> QED BY <1>1, <1>2, <1>5, <1>6 DEF FigInv, FigTypeOK, PromptAnswerIsShown, Fig!PromptAnswerIsShown

LEMMA FigPrint == ASSUME FigInv, Fig!PrintAnswer PROVE FigInv'
<1>1. /\ fig_pc = "collect" /\ (socket = <<>> \/ Len(buf) = BUF_SIZE)
      /\ late' = (late \/ (socket = <<>> /\ Len(buf) < BUF_SIZE /\ coming # <<>>))
      /\ UNCHANGED <<rp, coming, socket, buf>>
      /\ IF buf = <<>> THEN fig_pc' = "crashed" /\ UNCHANGED printed
         ELSE fig_pc' = "done" /\ printed' = SubSeq(buf, Echo + 1, Len(buf) - 1)
  BY DEF Fig!PrintAnswer
<1>2. /\ coming \in Seq(Stream) /\ socket \in Seq(Stream) /\ buf \in Seq(Stream)
      /\ Len(buf) \in Nat /\ Len(buf) <= BUF_SIZE
      /\ BUF_SIZE \in Nat \ {0} /\ Answer \in Nat \ {0} /\ Echo \in Nat
  BY ToolsAssumption DEF FigInv, FigTypeOK
<1>3. ASSUME ~ late'
      PROVE  /\ fig_pc' = "done"
             /\ printed' = [k \in 1 .. Fig!Min({Answer, BUF_SIZE}) - 1 - Echo |-> <<"answer", Echo + k>>]
  <2> DEFINE n == IF Answer <= BUF_SIZE THEN Answer ELSE BUF_SIZE
  <2>1. Answered = Fig!Bytes("answer", Answer)
    BY <1>1, <1>3 DEF FigInv
  <2>2. /\ Len(Answered) = Answer
        /\ \A k \in 1 .. Answer : Answered[k] = <<"answer", k>>
    BY <1>2, <2>1, BytesAre
  <2>3. /\ socket \o coming \in Seq(Stream) /\ Len(socket \o coming) \in Nat
        /\ Len(Answered) = Len(buf) + Len(socket \o coming)
        /\ \A k \in 1 .. Len(buf) : Answered[k] = buf[k]
    <3>1. socket \o coming \in Seq(Stream)
      BY <1>2, ConcatProperties
    <3>2. Len(socket \o coming) \in Nat
      BY <3>1
    <3>3. /\ Len(Answered) = Len(buf) + Len(socket \o coming)
          /\ \A k \in 1 .. Len(buf) + Len(socket \o coming) :
               Answered[k] = IF k <= Len(buf) THEN buf[k] ELSE (socket \o coming)[k - Len(buf)]
      BY <1>2, <3>1, ConcatProperties DEF Answered
    <3>4. \A k \in 1 .. Len(buf) : k \in 1 .. Len(buf) + Len(socket \o coming) /\ k <= Len(buf)
      BY <1>2, <3>2
    <3> QED BY <3>1, <3>2, <3>3, <3>4
  <2>4. Len(buf) = n
    <3>1. CASE Len(buf) = BUF_SIZE
      BY <1>2, <2>2, <2>3, <3>1
    <3>2. CASE Len(buf) # BUF_SIZE
      <4>1. socket = <<>> /\ coming = <<>>
        <5>1. ~ (socket = <<>> /\ Len(buf) < BUF_SIZE /\ coming # <<>>)
          BY <1>1, <1>3
        <5>2. Len(buf) < BUF_SIZE
          BY <1>2, <3>2
        <5> QED BY <1>1, <3>2, <5>1, <5>2
      <4>2. Len(socket \o coming) = 0
        BY <1>2, <4>1, ConcatProperties
      <4> QED BY <1>2, <2>2, <2>3, <4>2
    <3> QED BY <3>1, <3>2
  <2>5. n \in Nat \ {0} /\ n <= Answer /\ Fig!Min({Answer, BUF_SIZE}) = n
    <3>1. n \in {Answer, BUF_SIZE} /\ \A y \in {Answer, BUF_SIZE} : n <= y
      BY <1>2
    <3>2. \A x \in {Answer, BUF_SIZE} : (\A y \in {Answer, BUF_SIZE} : x <= y) => x = n
      BY <1>2
    <3>3. Fig!Min({Answer, BUF_SIZE}) = n
      <4> HIDE DEF n
      <4> QED BY <3>1, <3>2 DEF Fig!Min
    <3> QED BY <1>2, <3>3
  <2> HIDE DEF n
  <2>6. buf # <<>>
    BY <2>4, <2>5
  <2>7. \A k \in 1 .. n : buf[k] = <<"answer", k>>
    BY <2>2, <2>3, <2>4, <2>5
  <2> DEFINE s == SubSeq(buf, Echo + 1, n - 1)
  <2>8. fig_pc' = "done" /\ printed' = s
    BY <1>1, <2>4, <2>6
  <2>9. s = [k \in 1 .. n - 1 - Echo |-> <<"answer", Echo + k>>]
    <3>1. Echo + 1 \in Int /\ n - 1 \in Int /\ \A k \in Echo + 1 .. n - 1 : buf[k] \in Stream
      BY <1>2, <2>4, <2>5
    <3>2. /\ s \in Seq(Stream)
          /\ Len(s) = IF Echo + 1 <= n - 1 THEN ((n - 1) - (Echo + 1)) + 1 ELSE 0
          /\ \A k \in 1 .. ((n - 1) - (Echo + 1)) + 1 : s[k] = buf[((Echo + 1) + k) - 1]
      BY <3>1, SubSeqProperties
    <3> HIDE DEF s
    <3>3. 1 .. Len(s) = 1 .. (n - 1) - Echo
      <4>1. CASE Echo + 1 <= n - 1
        <5>1. ((n - 1) - (Echo + 1)) + 1 = (n - 1) - Echo
          BY <1>2, <2>5
        <5> QED BY <3>2, <4>1, <5>1
      <4>2. CASE ~(Echo + 1 <= n - 1)
        <5>1. (n - 1) - Echo <= 0 /\ Len(s) = 0
          BY <1>2, <2>5, <3>2, <4>2
        <5> QED BY <1>2, <2>5, <5>1
      <4> QED BY <4>1, <4>2
    <3>4. ASSUME NEW k \in 1 .. (n - 1) - Echo PROVE s[k] = <<"answer", Echo + k>>
      <4>1. /\ k \in 1 .. ((n - 1) - (Echo + 1)) + 1 /\ ((Echo + 1) + k) - 1 = Echo + k
            /\ Echo + k \in 1 .. n
        BY <1>2, <2>5
      <4> QED BY <2>7, <3>2, <4>1
    <3>5. s = [k \in 1 .. Len(s) |-> s[k]]
      BY <3>2
    <3> QED BY <3>3, <3>4, <3>5
  <2> QED BY <2>5, <2>8, <2>9
<1>4. fig_pc' \in {"done", "crashed"} /\ late' \in BOOLEAN
  BY <1>1 DEF FigInv, FigTypeOK
<1> QED BY <1>1, <1>2, <1>3, <1>4 DEF FigInv, FigTypeOK, PromptAnswerIsShown, Fig!PromptAnswerIsShown

LEMMA FigStep == FigInv /\ [ToolsNext]_<<tool, zipVars, figVars, treeVars>> => FigInv'
<1> SUFFICES ASSUME FigInv, [ToolsNext]_<<tool, zipVars, figVars, treeVars>> PROVE FigInv'
  OBVIOUS
<1>1. CASE Fig!Next
  BY <1>1, FigDeliver, FigConnect, FigSkip, FigSend, FigCollect, FigPrint DEF Fig!Next
<1>2. CASE UNCHANGED figVars
  BY <1>2 DEF figVars, FigInv, FigTypeOK, Answered, PromptAnswerIsShown, Fig!PromptAnswerIsShown
<1> QED BY <1>1, <1>2 DEF ToolsNext

\* If the server never pauses for a second while it has something to say, the answer is
\* printed, however it is cut into segments and however long it is (telefig.c:84-112).
THEOREM AnswerCorrect == ToolsSpec => []PromptAnswerIsShown
<1>1. ToolsInit => FigInv
  BY FigInit DEF ToolsInit
<1>2. FigInv => PromptAnswerIsShown
  BY DEF FigInv
<1> QED BY <1>1, <1>2, FigStep, PTL DEF ToolsSpec

-----------------------------------------------------------------------------
(***************************************************************************)
(* zipjpeg_test: recursion over the numbers                                *)
(***************************************************************************)
\* Induction: a set of numbers between two bounds has a smallest member.
LEMMA SmallestOf ==
  ASSUME NEW M \in Int, NEW N \in Int, NEW C, C \subseteq M .. N, C # {}
  PROVE  \E m \in C : \A n \in C : m <= n
<1> DEFINE D == M .. N
           S == { M .. n : n \in C }
<1>1. IsFiniteSet(D)
  BY FS_Interval
<1>2. IsWellFoundedOn(StrictSubsetOrdering(D), FiniteSubsetsOf(D))
  BY <1>1, FS_StrictSubsetOrderingWellFounded
<1>3. S \subseteq FiniteSubsetsOf(D) /\ S # {}
  <2>1. S \subseteq SUBSET D /\ S # {}
    <3>1. ASSUME NEW n \in C PROVE M .. n \subseteq D OBVIOUS
    <3>2. PICK n : n \in C OBVIOUS
    <3>3. M .. n \in S BY <3>2
    <3> HIDE DEF D
    <3> QED BY <3>1, <3>3
  <2>2. FiniteSubsetsOf(D) = SUBSET D
    <3> HIDE DEF D
    <3> QED BY <1>1, FS_FiniteSubsetsOfFinite
  <2> QED BY <2>1, <2>2
<1>4. \E T \in S : \A U \in S : ~ (<<U, T>> \in StrictSubsetOrdering(D))
  <2> HIDE DEF S, D
  <2> QED BY <1>2, <1>3, WFMin
<1>5. PICK m \in C : \A U \in S : ~ (<<U, M .. m>> \in StrictSubsetOrdering(D))
  <2> HIDE DEF D
  <2> QED BY <1>4
<1>6. ASSUME NEW n \in C, n < m PROVE FALSE
  <2>1. M .. n \in S /\ M .. n \subseteq D /\ M .. m \subseteq D /\ M .. n \subseteq M .. m
    BY <1>6
  <2>2. m \in M .. m /\ m \notin M .. n
    BY <1>6
  <2>3. M .. n # M .. m
    BY <2>2
  <2>4. <<M .. n, M .. m>> \in StrictSubsetOrdering(D)
    <3> HIDE DEF D
    <3> QED BY <2>1, <2>3 DEF StrictSubsetOrdering
  <2> QED BY <1>5, <2>1, <2>4
<1>7. C \subseteq Int
  OBVIOUS
<1> QED BY <1>6, <1>7

\* The states of a search, one for each byte read
SearchStates(f, from, s, N) ==
  CHOOSE g : g = [n \in from - 1 .. N |-> IF n < from THEN Zipj!Nothing ELSE Zipj!Advance(f, s, g[n-1], n)]
IsSearch(f, from, s, N, g) ==
  g = [n \in from - 1 .. N |-> IF n < from THEN Zipj!Nothing ELSE Zipj!Advance(f, s, g[n-1], n)]

LEMMA SearchIs ==
  ASSUME NEW f, NEW from, NEW s
  PROVE  Zipj!signature_search(f, from, s) = SearchStates(f, from, s, Len(f))[Len(f)].at
BY DEF Zipj!signature_search, SearchStates

LEMMA SearchExists ==
  ASSUME NEW f, NEW from \in Nat, NEW s, NEW N \in Int
  PROVE  IsSearch(f, from, s, N, SearchStates(f, from, s, N))
<1> DEFINE C == { n \in from - 1 .. N : ~ \E g : IsSearch(f, from, s, n, g) }
<1>1. CASE N < from - 1
  <2> DEFINE g == [n \in {} |-> 0]
  <2>1. from - 1 .. N = {} BY <1>1
  <2>2. \E h : IsSearch(f, from, s, N, h)
    <3>1. IsSearch(f, from, s, N, [n \in {} |-> IF n < from THEN Zipj!Nothing ELSE Zipj!Advance(f, s, g[n-1], n)])
      BY <2>1 DEF IsSearch
    <3> QED BY <3>1
  <2> QED BY <2>2 DEF IsSearch, SearchStates
<1>2. CASE from - 1 <= N
  <2>1. SUFFICES ASSUME C # {} PROVE FALSE
    <3>1. N \in from - 1 .. N BY <1>2
    <3>2. ASSUME C = {} PROVE \E g : IsSearch(f, from, s, N, g)
      BY <3>1, <3>2
    <3>3. ASSUME \E g : IsSearch(f, from, s, N, g) PROVE IsSearch(f, from, s, N, SearchStates(f, from, s, N))
      BY <3>3 DEF IsSearch, SearchStates
    <3> QED BY <3>2, <3>3
  <2>2. PICK m \in C : \A n \in C : m <= n
    <3>1. C \subseteq from - 1 .. N /\ from - 1 \in Int OBVIOUS
    <3> HIDE DEF C
    <3> QED BY <2>1, <3>1, SmallestOf
  <2>3. m \in Int /\ from - 1 <= m /\ m <= N
    OBVIOUS
  <2>4. CASE m = from - 1
    <3> DEFINE g == [n \in from - 1 .. m |-> Zipj!Nothing]
    <3>1. \A n \in from - 1 .. m : n < from
      BY <2>4
    <3>2. g = [n \in from - 1 .. m |-> IF n < from THEN Zipj!Nothing ELSE Zipj!Advance(f, s, g[n-1], n)]
      BY <3>1
    <3>3. IsSearch(f, from, s, m, g)
      <4> HIDE DEF g
      <4> QED BY <3>2 DEF IsSearch
    <3> QED BY <2>2, <3>3
  <2>5. CASE m # from - 1
    <3>1. m - 1 \in from - 1 .. N /\ m - 1 \notin C
      BY <2>2, <2>3, <2>5
    <3>2. PICK g : IsSearch(f, from, s, m - 1, g)
      BY <3>1
    <3> DEFINE h == [n \in from - 1 .. m |-> IF n = m THEN Zipj!Advance(f, s, g[m-1], m) ELSE g[n]]
    <3>3. ASSUME NEW n \in from - 1 .. m
          PROVE  h[n] = IF n < from THEN Zipj!Nothing ELSE Zipj!Advance(f, s, h[n-1], n)
      <4>1. CASE n = m
        <5>1. ~ (n < from) /\ n - 1 \in from - 1 .. m /\ n - 1 # m BY <4>1, <2>3, <2>5
        <5>2. h[n-1] = g[n-1] BY <5>1
        <5>3. h[n] = Zipj!Advance(f, s, g[n-1], n) BY <4>1
        <5> QED BY <5>1, <5>2, <5>3
      <4>2. CASE n # m
        <5>1. n \in from - 1 .. m - 1 /\ n \in Int BY <4>2, <2>3
        <5>2. g[n] = IF n < from THEN Zipj!Nothing ELSE Zipj!Advance(f, s, g[n-1], n)
          BY <5>1, <3>2 DEF IsSearch
        <5>3. h[n] = g[n] BY <4>2
        <5>4. CASE n < from BY <5>2, <5>3, <5>4
        <5>5. CASE ~ (n < from)
          <6>1. n - 1 \in from - 1 .. m /\ n - 1 # m BY <5>1, <5>5
          <6>2. h[n-1] = g[n-1] BY <6>1
          <6> QED BY <5>2, <5>3, <5>5, <6>2
        <5> QED BY <5>4, <5>5
      <4> QED BY <4>1, <4>2
    <3>4. h = [n \in from - 1 .. m |-> h[n]]
      OBVIOUS
    <3>5. IsSearch(f, from, s, m, h)
      <4> HIDE DEF h, C
      <4> QED BY <3>3, <3>4 DEF IsSearch
    <3> QED BY <2>2, <3>5
  <2> QED BY <2>4, <2>5
<1> QED BY <1>1, <1>2

-----------------------------------------------------------------------------
(***************************************************************************)
(* zipjpeg_test: the search                                                *)
(***************************************************************************)
LEMMA SearchBegins ==
  ASSUME NEW f, NEW from \in Nat, NEW s, NEW N \in Int, NEW g, IsSearch(f, from, s, N, g), from - 1 <= N
  PROVE  g[from - 1] = Zipj!Nothing
<1>1. from - 1 \in from - 1 .. N /\ from - 1 < from
  OBVIOUS
<1> QED BY <1>1 DEF IsSearch

LEMMA SearchAdvances ==
  ASSUME NEW f, NEW from \in Nat, NEW s, NEW N \in Int, NEW g, IsSearch(f, from, s, N, g),
         NEW n \in from .. N
  PROVE  g[n] = Zipj!Advance(f, s, g[n-1], n)
<1>1. n \in from - 1 .. N /\ ~ (n < from)
  OBVIOUS
<1> QED BY <1>1 DEF IsSearch

\* The longest run of a in f, not beginning before from, that ends at n begins at q.
Run(f, from, a, q, n) ==
  (\A r \in q .. n : f[r] = a) /\ (q > from => f[q - 1] # a)

\* The ends of <<a, b>> in f that end a run of an odd number of a: the search finds the
\* first of these, since after two a it has forgotten the second.
OddEnds(f, from, a, b) ==
  { e \in from+1 .. Len(f) :
      f[e] = b /\ \E q \in from .. e-1 : Run(f, from, a, q, e-1) /\ (e - q) % 2 = 1 }

\* Bytes from .. n were read: q begins the run of a that ends at n.
Searched(f, from, a, b, n, s, q) ==
  /\ q \in from .. n + 1
  /\ Run(f, from, a, q, n)
  /\ s.at = 0 => /\ s.pos = (n + 1 - q) % 2
                 /\ \A e \in OddEnds(f, from, a, b) : e > n
  /\ s.at # 0 => /\ s.at - 1 \in OddEnds(f, from, a, b)
                 /\ \A e \in OddEnds(f, from, a, b) : e >= s.at - 1

\* Only one run of a ends at n.
LEMMA OneRun ==
  ASSUME NEW f, NEW from \in Nat, NEW a, NEW n \in Int, NEW q \in from .. n + 1, NEW p \in from .. n + 1,
         Run(f, from, a, q, n), Run(f, from, a, p, n)
  PROVE  p = q
<1>1. ASSUME NEW u \in from .. n + 1, NEW v \in from .. n + 1, u < v,
             Run(f, from, a, u, n), Run(f, from, a, v, n)
      PROVE  FALSE
  <2>1. v > from /\ v - 1 \in u .. n BY <1>1
  <2> QED BY <1>1, <2>1 DEF Run
<1>2. p < q \/ q < p \/ p = q OBVIOUS
<1> QED BY <1>1, <1>2

\* What makes e the end of an odd run, if q begins the run before it
LEMMA OddEnd ==
  ASSUME NEW f, NEW from \in Nat, NEW a, NEW b, NEW n \in Int, n + 1 \in 1 .. Len(f),
         NEW q \in from .. n + 1, Run(f, from, a, q, n)
  PROVE  n + 1 \in OddEnds(f, from, a, b) <=> f[n + 1] = b /\ (n + 1 - q) % 2 = 1
<1> DEFINE e == n + 1
<1>0. e - 1 = n /\ e \in Int OBVIOUS
<1>1. ASSUME e \in OddEnds(f, from, a, b) PROVE f[e] = b /\ (e - q) % 2 = 1
  <2>1. PICK p \in from .. e-1 : Run(f, from, a, p, e-1) /\ (e - p) % 2 = 1
    BY <1>1 DEF OddEnds
  <2>2. f[e] = b BY <1>1 DEF OddEnds
  <2>3. p \in from .. n + 1 /\ Run(f, from, a, p, n) BY <2>1, <1>0
  <2>4. p = q BY <2>3, OneRun
  <2> QED BY <2>1, <2>2, <2>4
<1>2. ASSUME f[e] = b, (e - q) % 2 = 1 PROVE e \in OddEnds(f, from, a, b)
  <2>1. q # e
    <3>1. ASSUME q = e PROVE FALSE
      <4>1. e - q = 0 BY <3>1
      <4>2. 0 % 2 = 0 OBVIOUS
      <4> QED BY <1>2, <4>1, <4>2
    <3> QED BY <3>1
  <2>2. q \in from .. e-1 /\ Run(f, from, a, q, e-1) BY <2>1, <1>0
  <2>3. e \in from+1 .. Len(f) BY <2>2
  <2> QED BY <1>2, <2>2, <2>3 DEF OddEnds
<1> QED BY <1>1, <1>2

\* One byte more
LEMMA SearchStep ==
  ASSUME NEW f, NEW from \in Nat \ {0}, NEW a, NEW b, a # b, NEW n \in from .. Len(f), Len(f) \in Nat,
         NEW s, NEW q, Searched(f, from, a, b, n - 1, s, q),
         s \in [pos : Nat, at : Nat]
  PROVE  LET t == Zipj!Advance(f, <<a, b>>, s, n)
         IN  t \in [pos : Nat, at : Nat] /\ \E p : Searched(f, from, a, b, n, t, p)
<1> DEFINE t == Zipj!Advance(f, <<a, b>>, s, n)
           Ends == OddEnds(f, from, a, b)
<1> SUFFICES t \in [pos : Nat, at : Nat] /\ \E p : Searched(f, from, a, b, n, t, p)
  OBVIOUS
<1>0. n \in Nat /\ n - 1 + 1 = n /\ q \in from .. n /\ q \in Nat
  BY DEF Searched
<1>1. Run(f, from, a, q, n - 1)
  BY DEF Searched
<1>2. n \in Ends <=> f[n] = b /\ (n - q) % 2 = 1
  <2>1. (n - 1) + 1 \in 1 .. Len(f) /\ q \in from .. (n - 1) + 1 /\ n - 1 \in Int BY <1>0
  <2>2. (n - 1) + 1 \in Ends <=> f[(n - 1) + 1] = b /\ ((n - 1) + 1 - q) % 2 = 1
    BY <2>1, <1>1, OddEnd
  <2> HIDE DEF Ends
  <2> QED BY <2>2, <1>0
<1>3. Ends \subseteq Int
  BY DEF OddEnds
<1>4. Len(<<a, b>>) = 2 /\ <<a, b>>[1] = a /\ <<a, b>>[2] = b
  OBVIOUS
\* The run of a that ends at n
<1> DEFINE p == IF f[n] = a THEN q ELSE n + 1
<1>5. p \in from .. n + 1 /\ Run(f, from, a, p, n)
  <2>1. CASE f[n] = a
    <3>1. \A r \in q .. n : f[r] = a
      <4> TAKE r \in q .. n
      <4>1. r = n \/ r \in q .. n - 1 BY <1>0
      <4> QED BY <1>1, <2>1, <4>1 DEF Run
    <3>2. q > from => f[q - 1] # a BY <1>1 DEF Run
    <3>3. p = q BY <2>1
    <3> QED BY <1>0, <3>1, <3>2, <3>3 DEF Run
  <2>2. CASE f[n] # a
    <3>1. p = n + 1 /\ p - 1 = n /\ n + 1 .. n = {} BY <1>0, <2>2
    <3>2. Run(f, from, a, n + 1, n) BY <3>1, <2>2 DEF Run
    <3> QED BY <3>1, <3>2, <1>0
  <2> QED BY <2>1, <2>2
<1>6. CASE s.at # 0
  <2>1. t = s BY <1>6 DEF Zipj!Advance
  <2>2. Searched(f, from, a, b, n, t, p)
    <3>1. s.at - 1 \in Ends /\ \A e \in Ends : e >= s.at - 1 BY <1>6 DEF Searched
    <3> HIDE DEF p
    <3> QED BY <1>5, <1>6, <2>1, <3>1 DEF Searched
  <2> HIDE DEF t
  <2> QED BY <2>1, <2>2
<1>7. CASE s.at = 0
  <2>1. s.pos = (n - q) % 2
    <3>1. s.pos = ((n - 1) + 1 - q) % 2 BY <1>7 DEF Searched
    <3> QED BY <3>1, <1>0
  <2>2. s.pos \in {0, 1}
    <3>1. n - q \in Int BY <1>0
    <3> QED BY <2>1, <3>1
  <2>3. \A e \in Ends : e >= n
    <3>1. \A e \in Ends : e > n - 1 BY <1>7 DEF Searched
    <3> HIDE DEF Ends
    <3> QED BY <3>1, <1>0, <1>3
  <2> DEFINE c == IF f[n] = <<a, b>>[s.pos + 1] THEN s.pos + 1 ELSE 0
  <2>4. t = [pos |-> c, at |-> IF c = 2 THEN n + 1 ELSE 0]
    BY <1>4, <1>7 DEF Zipj!Advance
  <2>5. CASE s.pos = 1 /\ f[n] = b
    <3>1. c = 2 BY <1>4, <2>5
    <3>2. t = [pos |-> 2, at |-> n + 1] BY <2>4, <3>1
    <3>3. n \in Ends BY <1>2, <2>1, <2>5
    <3> HIDE DEF t, p, Ends
    <3>4. t.at = n + 1 /\ t.at # 0 /\ t.at - 1 = n /\ t \in [pos : Nat, at : Nat] BY <1>0, <3>2
    <3>5. t.at - 1 \in Ends /\ \A e \in Ends : e >= t.at - 1 BY <2>3, <3>3, <3>4
    <3>6. Searched(f, from, a, b, n, t, p)
      BY <1>5, <3>4, <3>5 DEF Searched, Ends
    <3> QED BY <3>4, <3>6
  <2>6. CASE ~ (s.pos = 1 /\ f[n] = b)
    <3>1. n \notin Ends BY <1>2, <2>1, <2>6
    <3>2. \A e \in Ends : e > n
      <4> HIDE DEF Ends
      <4> QED BY <2>3, <3>1, <1>3, <1>0
    <3>3. c = IF f[n] = a /\ s.pos = 0 THEN 1 ELSE 0
      BY <1>4, <2>2, <2>6
    <3>4. t = [pos |-> c, at |-> 0]
      <4>1. c # 2 BY <3>3
      <4> HIDE DEF c, t
      <4> QED BY <2>4, <4>1
    <3>5. c = ((n + 1) - p) % 2
      <4>1. CASE f[n] # a
        <5>1. p = n + 1 /\ c = 0 /\ (n + 1) - p = 0 BY <4>1, <3>3, <1>0
        <5>2. 0 % 2 = 0 OBVIOUS
        <5> QED BY <5>1, <5>2
      <4>2. CASE f[n] = a
        <5>1. p = q /\ c = 1 - s.pos BY <4>2, <3>3, <2>2
        <5>2. ((n - q) + 1) % 2 = 1 - ((n - q) % 2)
          <6>1. n - q \in Nat BY <1>0
          <6> QED BY <6>1
        <5>3. (n + 1) - p = (n - q) + 1 BY <5>1, <1>0
        <5> HIDE DEF p, c
        <5> QED BY <5>1, <5>2, <5>3, <2>1
      <4> QED BY <4>1, <4>2
    <3>6. c \in Nat BY <3>3
    <3> HIDE DEF t, p, c, Ends
    <3>7. t.at = 0 /\ t.pos = c /\ t \in [pos : Nat, at : Nat] BY <3>4, <3>6
    <3>8. Searched(f, from, a, b, n, t, p)
      BY <1>5, <3>2, <3>5, <3>7 DEF Searched, Ends
    <3> QED BY <3>7, <3>8
  <2> QED BY <2>5, <2>6
<1> QED BY <1>6, <1>7

\* The search finds the first end of an odd run.
LEMMA SearchFinds ==
  ASSUME NEW f, Len(f) \in Nat, NEW from \in 1 .. Len(f) + 1, NEW a, NEW b, a # b
  PROVE  LET Ends == OddEnds(f, from, a, b)
             at == Zipj!signature_search(f, from, <<a, b>>)
         IN  \/ Ends = {} /\ at = 0
             \/ at - 1 \in Ends /\ at \in Nat \ {0} /\ \A e \in Ends : e >= at - 1
<1> DEFINE g == SearchStates(f, from, <<a, b>>, Len(f))
           Holds(n) == g[n] \in [pos : Nat, at : Nat] /\ \E q : Searched(f, from, a, b, n, g[n], q)
           Ends == OddEnds(f, from, a, b)
<1>1. IsSearch(f, from, <<a, b>>, Len(f), g)
  BY SearchExists
<1> HIDE DEF g
<1>2. /\ g[from - 1] = Zipj!Nothing
      /\ \A n \in from .. Len(f) : g[n] = Zipj!Advance(f, <<a, b>>, g[n-1], n)
  <2>1. from - 1 <= Len(f) /\ from \in Nat /\ Len(f) \in Int OBVIOUS
  <2>2. g[from - 1] = Zipj!Nothing BY <1>1, <2>1, SearchBegins
  <2>3. ASSUME NEW n \in from .. Len(f) PROVE g[n] = Zipj!Advance(f, <<a, b>>, g[n-1], n)
    BY <1>1, <2>1, SearchAdvances
  <2> QED BY <2>2, <2>3
<1>3. Holds(from - 1)
  <2>1. g[from - 1] = [pos |-> 0, at |-> 0] BY <1>2 DEF Zipj!Nothing
  <2>2. g[from - 1].at = 0 /\ g[from - 1].pos = 0 /\ g[from - 1] \in [pos : Nat, at : Nat] BY <2>1
  <2>3. from - 1 + 1 - from = 0 /\ 0 % 2 = 0 /\ from \in from .. from - 1 + 1 OBVIOUS
  <2>4. Run(f, from, a, from, from - 1) BY DEF Run
  <2>5. \A e \in Ends : e > from - 1 BY DEF OddEnds
  <2>6. Searched(f, from, a, b, from - 1, g[from - 1], from)
    BY <2>2, <2>3, <2>4, <2>5 DEF Searched
  <2> QED BY <2>2, <2>6
<1>4. ASSUME NEW n \in from .. Len(f), Holds(n - 1) PROVE Holds(n)
  <2>1. PICK q : Searched(f, from, a, b, n - 1, g[n-1], q) BY <1>4
  <2>2. g[n] = Zipj!Advance(f, <<a, b>>, g[n-1], n) BY <1>2
  <2>3. g[n-1] \in [pos : Nat, at : Nat] BY <1>4
  <2>4. from \in Nat \ {0} OBVIOUS
  <2> DEFINE t == Zipj!Advance(f, <<a, b>>, g[n-1], n)
  <2>5. t \in [pos : Nat, at : Nat] /\ \E p : Searched(f, from, a, b, n, t, p)
    BY <2>1, <2>3, <2>4, SearchStep
  <2>6. t = g[n] BY <2>2
  <2> HIDE DEF t
  <2> QED BY <2>5, <2>6
<1>5. Holds(Len(f))
  <2> DEFINE C == { n \in from - 1 .. Len(f) : ~ Holds(n) }
  <2>1. SUFFICES ASSUME C # {} PROVE FALSE
    OBVIOUS
  <2>2. PICK m \in C : \A n \in C : m <= n
    <3>1. C \subseteq from - 1 .. Len(f) /\ from - 1 \in Int /\ Len(f) \in Int OBVIOUS
    <3> HIDE DEF C
    <3> QED BY <2>1, <3>1, SmallestOf
  <2>3. m # from - 1 BY <1>3
  <2>4. m \in from .. Len(f) /\ m - 1 \in from - 1 .. Len(f) /\ m - 1 < m BY <2>3
  <2>5. Holds(m - 1) BY <2>2, <2>4
  <2> QED BY <1>4, <2>4, <2>5
<1>6. PICK q : Searched(f, from, a, b, Len(f), g[Len(f)], q)
  BY <1>5
<1>7. Zipj!signature_search(f, from, <<a, b>>) = g[Len(f)].at
  BY SearchIs DEF g
<1>8. g[Len(f)].at \in Nat
  BY <1>5
<1>9. CASE g[Len(f)].at = 0
  <2>1. \A e \in Ends : e > Len(f) BY <1>6, <1>9 DEF Searched
  <2>2. \A e \in Ends : e \in from + 1 .. Len(f) BY DEF OddEnds
  <2>3. Ends = {}
    <3> HIDE DEF Ends
    <3> QED BY <2>1, <2>2
  <2> QED BY <1>7, <1>9, <2>3
<1>10. CASE g[Len(f)].at # 0
  <2>1. g[Len(f)].at - 1 \in Ends /\ \A e \in Ends : e >= g[Len(f)].at - 1 BY <1>6, <1>10 DEF Searched
  <2> HIDE DEF Ends
  <2> QED BY <1>7, <1>8, <1>10, <2>1 DEF Ends
<1> QED BY <1>9, <1>10

-----------------------------------------------------------------------------
(***************************************************************************)
(* zipjpeg_test: the bytes of an input                                     *)
(***************************************************************************)
Byte == DOMAIN Size
EntryBytes(e) == <<P, K, LocalType, e.skipped, e.size, e.skipped>> \o e.name \o e.data
EntriesBytes(input) == [n \in DOMAIN input.entries |-> EntryBytes(input.entries[n])]
Entry == [skipped : Byte, size : Byte, name : Seq(Byte), data : Seq(Byte)]

\* The first k of a sequence of sequences, one behind the other
Joined(s, N) ==
  CHOOSE g : g = [i \in 1 .. N |-> IF i = 1 THEN s[i] ELSE g[i-1] \o s[i]]
IsJoined(s, N, g) ==
  g = [i \in 1 .. N |-> IF i = 1 THEN s[i] ELSE g[i-1] \o s[i]]

LEMMA FlatIs ==
  ASSUME NEW s, Len(s) # 0
  PROVE  Zipj!FlattenSeq(s) = Joined(s, Len(s))[Len(s)]
BY DEF Zipj!FlattenSeq, Joined

LEMMA JoinedExists ==
  ASSUME NEW s, NEW N \in Nat \ {0}
  PROVE  IsJoined(s, N, Joined(s, N))
<1> DEFINE C == { n \in 1 .. N : ~ \E g : IsJoined(s, n, g) }
<1>1. SUFFICES ASSUME C # {} PROVE FALSE
  <2>1. N \in 1 .. N OBVIOUS
  <2>2. ASSUME C = {} PROVE \E g : IsJoined(s, N, g)
    BY <2>1, <2>2
  <2>3. ASSUME \E g : IsJoined(s, N, g) PROVE IsJoined(s, N, Joined(s, N))
    BY <2>3 DEF IsJoined, Joined
  <2> QED BY <2>2, <2>3
<1>2. PICK m \in C : \A n \in C : m <= n
  <2>1. C \subseteq 1 .. N /\ 1 \in Int /\ N \in Int OBVIOUS
  <2> HIDE DEF C
  <2> QED BY <1>1, <2>1, SmallestOf
<1>3. CASE m = 1
  <2> DEFINE g == [i \in 1 .. 1 |-> s[i]]
  <2>1. g = [i \in 1 .. 1 |-> IF i = 1 THEN s[i] ELSE g[i-1] \o s[i]]
    OBVIOUS
  <2>2. IsJoined(s, 1, g)
    <3> HIDE DEF g
    <3> QED BY <2>1 DEF IsJoined
  <2> QED BY <1>2, <1>3, <2>2
<1>4. CASE m # 1
  <2>1. m - 1 \in 1 .. N /\ m - 1 \notin C /\ m \in Int
    BY <1>2, <1>4
  <2>2. PICK g : IsJoined(s, m - 1, g)
    BY <2>1
  <2> DEFINE h == [i \in 1 .. m |-> IF i = m THEN g[m-1] \o s[m] ELSE g[i]]
  <2>3. ASSUME NEW i \in 1 .. m
        PROVE  h[i] = IF i = 1 THEN s[i] ELSE h[i-1] \o s[i]
    <3>1. CASE i = m
      <4>1. i # 1 /\ i - 1 \in 1 .. m /\ i - 1 # m BY <3>1, <1>4, <2>1
      <4>2. h[i-1] = g[i-1] BY <4>1
      <4>3. h[i] = g[i-1] \o s[i] BY <3>1
      <4> QED BY <4>1, <4>2, <4>3
    <3>2. CASE i # m
      <4>1. i \in 1 .. m - 1 /\ i \in Int BY <3>2, <2>1
      <4>2. g[i] = IF i = 1 THEN s[i] ELSE g[i-1] \o s[i]
        BY <4>1, <2>2 DEF IsJoined
      <4>3. h[i] = g[i] BY <3>2
      <4>4. CASE i = 1 BY <4>2, <4>3, <4>4
      <4>5. CASE i # 1
        <5>1. i - 1 \in 1 .. m /\ i - 1 # m BY <4>1, <4>5
        <5>2. h[i-1] = g[i-1] BY <5>1
        <5> QED BY <4>2, <4>3, <4>5, <5>2
      <4> QED BY <4>4, <4>5
    <3> QED BY <3>1, <3>2
  <2>4. h = [i \in 1 .. m |-> h[i]]
    OBVIOUS
  <2>5. IsJoined(s, m, h)
    <3> HIDE DEF h, C
    <3> QED BY <2>3, <2>4 DEF IsJoined
  <2> QED BY <1>2, <2>5
<1> QED BY <1>3, <1>4

\* g joins the sequences of s, and each of them stands behind those before it.
Joins(s, g) ==
  /\ \A i \in 1 .. Len(s) : g[i] \in Seq(Byte)
  /\ g[1] = s[1]
  /\ \A i \in 2 .. Len(s) : g[i] = g[i-1] \o s[i]

LEMMA FlatJoins ==
  ASSUME NEW s \in Seq(Seq(Byte)), Len(s) # 0
  PROVE  \E g : Joins(s, g) /\ Zipj!FlattenSeq(s) = g[Len(s)]
<1> DEFINE N == Len(s)
           g == Joined(s, N)
<1>0. N \in Nat \ {0} /\ \A i \in 1 .. N : s[i] \in Seq(Byte)
  OBVIOUS
<1>1. IsJoined(s, N, g)
  BY <1>0, JoinedExists
<1>2. Zipj!FlattenSeq(s) = g[N]
  BY FlatIs
<1> HIDE DEF g, N
<1>3. \A i \in 1 .. N : g[i] = IF i = 1 THEN s[i] ELSE g[i-1] \o s[i]
  BY <1>1 DEF IsJoined
<1>4. g[1] = s[1]
  BY <1>0, <1>3
<1>5. \A i \in 2 .. N : g[i] = g[i-1] \o s[i]
  <2> TAKE i \in 2 .. N
  <2>1. i \in 1 .. N /\ i # 1 BY <1>0
  <2> QED BY <1>3, <2>1
<1>6. \A i \in 1 .. N : g[i] \in Seq(Byte)
  <2> DEFINE C == { i \in 1 .. N : g[i] \notin Seq(Byte) }
  <2>1. SUFFICES ASSUME C # {} PROVE FALSE
    OBVIOUS
  <2>2. PICK m \in C : \A n \in C : m <= n
    <3>1. C \subseteq 1 .. N /\ 1 \in Int /\ N \in Int BY <1>0
    <3> HIDE DEF C
    <3> QED BY <2>1, <3>1, SmallestOf
  <2>3. CASE m = 1
    BY <1>0, <1>4, <2>3
  <2>4. CASE m # 1
    <3>1. m \in 2 .. N /\ m - 1 \in 1 .. N /\ m - 1 \notin C BY <1>0, <2>2, <2>4
    <3>2. g[m-1] \in Seq(Byte) /\ s[m] \in Seq(Byte) BY <1>0, <3>1
    <3>3. g[m] = g[m-1] \o s[m] BY <1>5, <3>1
    <3>4. g[m] \in Seq(Byte)
      <4> HIDE DEF C
      <4> QED BY <3>2, <3>3
    <3> QED BY <3>4
  <2> QED BY <2>3, <2>4
<1>7. Joins(s, g)
  BY <1>4, <1>5, <1>6 DEF Joins, N
<1> QED BY <1>2, <1>7 DEF N

\* u is t behind s.
Follows(u, s, t) ==
  /\ u \in Seq(Byte) /\ Len(u) = Len(s) + Len(t)
  /\ \A x \in 1 .. Len(s) : u[x] = s[x]
  /\ \A x \in 1 .. Len(t) : u[Len(s) + x] = t[x]

LEMMA Behind ==
  ASSUME NEW s \in Seq(Byte), NEW t \in Seq(Byte)
  PROVE  Follows(s \o t, s, t)
BY DEF Follows

\* What is joined first stays where it is.
LEMMA JoinsKeep ==
  ASSUME NEW s \in Seq(Seq(Byte)), NEW g, Joins(s, g), NEW k \in 1 .. Len(s)
  PROVE  /\ Len(g[k]) <= Len(g[Len(s)])
         /\ \A x \in 1 .. Len(g[k]) : g[Len(s)][x] = g[k][x]
<1> DEFINE Keeps(i) == Len(g[k]) <= Len(g[i]) /\ \A x \in 1 .. Len(g[k]) : g[i][x] = g[k][x]
           C == { i \in k .. Len(s) : ~ Keeps(i) }
<1>0. Len(s) \in Nat /\ k \in Nat /\ \A i \in 1 .. Len(s) : s[i] \in Seq(Byte) /\ g[i] \in Seq(Byte)
  BY DEF Joins
<1>1. SUFFICES ASSUME C # {} PROVE FALSE
  BY <1>0
<1>2. PICK m \in C : \A n \in C : m <= n
  <2>1. C \subseteq k .. Len(s) /\ Len(s) \in Int /\ k \in Int BY <1>0
  <2> HIDE DEF C
  <2> QED BY <1>1, <2>1, SmallestOf
<1>3. CASE m = k
  <2>1. Keeps(k) BY <1>0
  <2> QED BY <1>2, <1>3, <2>1
<1>4. CASE m # k
  <2>1. m \in 2 .. Len(s) /\ m \in 1 .. Len(s) /\ m - 1 \in 1 .. Len(s) /\ m - 1 \in k .. Len(s) /\ m - 1 < m
    BY <1>0, <1>2, <1>4
  <2>2. Keeps(m - 1) BY <1>2, <2>1
  <2>3. g[m] = g[m-1] \o s[m] BY <2>1 DEF Joins
  <2>4. g[m-1] \in Seq(Byte) /\ s[m] \in Seq(Byte) BY <1>0, <2>1
  <2>5. Follows(g[m], g[m-1], s[m])
    BY <2>3, <2>4, Behind
  <2>6. Len(g[m-1]) \in Nat /\ Len(s[m]) \in Nat /\ Len(g[k]) \in Nat
    <3>1. g[k] \in Seq(Byte) BY <1>0
    <3> QED BY <2>4, <3>1
  <2>7. Keeps(m)
    <3>1. Len(g[k]) <= Len(g[m])
      <4>1. Len(g[k]) <= Len(g[m-1]) BY <2>2
      <4>2. Len(g[m]) = Len(g[m-1]) + Len(s[m]) BY <2>5 DEF Follows
      <4> DEFINE x == Len(g[k])
                 y == Len(g[m-1])
                 z == Len(s[m])
                 w == Len(g[m])
      <4>3. x <= y /\ w = y + z /\ x \in Nat /\ y \in Nat /\ z \in Nat
        BY <4>1, <4>2, <2>6
      <4> HIDE DEF x, y, z, w, C, Keeps
      <4>4. x <= w BY <4>3
      <4> QED BY <4>4 DEF x, w
    <3>2. ASSUME NEW x \in 1 .. Len(g[k]) PROVE g[m][x] = g[k][x]
      <4>1. x \in 1 .. Len(g[m-1]) BY <2>2, <2>6
      <4>2. g[m][x] = g[m-1][x] BY <2>5, <4>1 DEF Follows
      <4> QED BY <2>2, <4>2
    <3> QED BY <3>1, <3>2
  <2> QED BY <1>2, <2>7
<1> QED BY <1>3, <1>4

\* The bytes of an entry
LEMMA EntryBytesAre ==
  ASSUME NEW e \in Entry
  PROVE  LET b == EntryBytes(e)
             l == Len(e.name)
         IN  /\ b \in Seq(Byte) /\ Len(b) = 6 + l + Len(e.data)
             /\ b[1] = P /\ b[2] = K /\ b[3] = LocalType /\ b[4] = e.skipped
             /\ b[5] = e.size /\ b[6] = e.skipped
             /\ \A x \in 1 .. l : b[6 + x] = e.name[x]
             /\ \A x \in 1 .. Len(e.data) : b[6 + l + x] = e.data[x]
<1> DEFINE h == <<P, K, LocalType, e.skipped, e.size, e.skipped>>
           n == e.name
           d == e.data
           b == (h \o n) \o d
<1>1. h \in Seq(Byte) /\ Len(h) = 6 /\ n \in Seq(Byte) /\ d \in Seq(Byte)
  <2>1. {P, K, LocalType, e.skipped, e.size} \subseteq Byte
    BY ZipjpegAssumption DEF Entry, Byte
  <2> HIDE DEF Byte
  <2> QED BY <2>1 DEF Entry
<1>2. h[1] = P /\ h[2] = K /\ h[3] = LocalType /\ h[4] = e.skipped /\ h[5] = e.size /\ h[6] = e.skipped
  OBVIOUS
<1> HIDE DEF h, n, d
<1> DEFINE c == h \o n
<1>3. Follows(c, h, n)
  BY <1>1, Behind
<1> HIDE DEF c
<1>4. c \in Seq(Byte) /\ Len(c) = 6 + Len(n)
  BY <1>1, <1>3 DEF Follows
<1>5. Follows(c \o d, c, d)
  BY <1>1, <1>4, Behind
<1>6. b = c \o d /\ EntryBytes(e) = b
  BY DEF c, h, n, d, EntryBytes
<1>7. Len(n) \in Nat /\ Len(d) \in Nat
  BY <1>1
<1>8. \A x \in 1 .. 6 : b[x] = h[x]
  <2> TAKE x \in 1 .. 6
  <2>1. x \in 1 .. Len(c) BY <1>4, <1>7
  <2>2. b[x] = c[x] BY <1>5, <1>6, <2>1 DEF Follows
  <2> QED BY <1>1, <1>3, <2>2 DEF Follows
<1>9. \A x \in 1 .. Len(n) : b[6 + x] = n[x]
  <2> TAKE x \in 1 .. Len(n)
  <2>1. 6 + x \in 1 .. Len(c) BY <1>4, <1>7
  <2>2. b[6 + x] = c[6 + x] BY <1>5, <1>6, <2>1 DEF Follows
  <2>3. c[6 + x] = n[x] BY <1>1, <1>3 DEF Follows
  <2> QED BY <2>2, <2>3
<1>10. b \in Seq(Byte) /\ Len(b) = 6 + Len(n) + Len(d)
  <2>1. b \in Seq(Byte) /\ Len(b) = Len(c) + Len(d) BY <1>5, <1>6 DEF Follows
  <2> HIDE DEF b
  <2> QED BY <2>1, <1>4, <1>7
<1>11. \A x \in 1 .. Len(d) : b[6 + Len(n) + x] = d[x]
  BY <1>4, <1>5, <1>6 DEF Follows
<1>12. /\ b[1] = h[1] /\ b[2] = h[2] /\ b[3] = h[3] /\ b[4] = h[4] /\ b[5] = h[5] /\ b[6] = h[6]
  <2> HIDE DEF b
  <2> QED BY <1>8
<1>13. /\ b[1] = P /\ b[2] = K /\ b[3] = LocalType /\ b[4] = e.skipped
       /\ b[5] = e.size /\ b[6] = e.skipped
  <2> HIDE DEF b
  <2> QED BY <1>2, <1>12
<1> HIDE DEF b
<1> QED BY <1>6, <1>9, <1>10, <1>11, <1>13 DEF n, d

\* o[k] bytes of f are before entry k + 1 or, if there is none, before the end.
Layout(input, f, o) ==
  LET N == Len(input.entries) IN
  /\ f \in Seq(Byte) /\ o \in [0 .. N -> Nat]
  /\ o[0] = Len(input.image)
  /\ \A x \in 1 .. o[0] : f[x] = input.image[x]
  /\ \A k \in 1 .. N : LET b == EntryBytes(input.entries[k]) IN
       o[k] = o[k-1] + Len(b) /\ \A x \in 1 .. Len(b) : f[o[k-1] + x] = b[x]
  /\ \A k \in 0 .. N : o[k] <= Len(f)
  /\ Len(f) = o[N] + Len(input.end)
  /\ \A x \in 1 .. Len(input.end) : f[o[N] + x] = input.end[x]

InputType == [image : Seq(Byte), end : Seq(Byte), entries : Seq(Entry)]

LEMMA LayoutExists ==
  ASSUME NEW input \in InputType
  PROVE  \E o : Layout(input, Zipj!Bytes(input), o)
<1> DEFINE s == EntriesBytes(input)
           N == Len(input.entries)
           i == input.image
           e == input.end
           t == Zipj!FlattenSeq(s)
           f == (i \o t) \o e
<1>0. i \in Seq(Byte) /\ e \in Seq(Byte) /\ input.entries \in Seq(Entry) /\ N \in Nat
      /\ DOMAIN input.entries = 1 .. N
  BY DEF InputType
<1>1. /\ \A k \in 1 .. N : input.entries[k] \in Entry
  BY <1>0
<1>2. /\ s \in Seq(Seq(Byte)) /\ Len(s) = N /\ \A k \in 1 .. N : s[k] = EntryBytes(input.entries[k])
  <2>1. \A k \in 1 .. N : EntryBytes(input.entries[k]) \in Seq(Byte)
    BY <1>1, EntryBytesAre
  <2> QED BY <1>0, <2>1 DEF EntriesBytes
<1>3. Zipj!Bytes(input) = f
  BY DEF Zipj!Bytes, EntryBytes, EntriesBytes
<1> HIDE DEF s, N, i, e
\* The offsets in t, and what is there
<1>4. \E r : /\ t \in Seq(Byte) /\ r \in [0 .. N -> Nat] /\ r[0] = 0 /\ r[N] = Len(t)
             /\ \A k \in 0 .. N : r[k] <= Len(t)
             /\ \A k \in 1 .. N : /\ r[k] = r[k-1] + Len(s[k])
                                  /\ \A x \in 1 .. Len(s[k]) : t[r[k-1] + x] = s[k][x]
  <2>1. CASE N = 0
    <3>1. s = <<>> BY <1>2, <2>1
    <3>2. t = s BY <1>2, <2>1 DEF Zipj!FlattenSeq
    <3>3. t \in Seq(Byte) /\ Len(t) = 0
      <4> HIDE DEF t
      <4> QED BY <3>1, <3>2
    <3> DEFINE r == [k \in 0 .. N |-> 0]
    <3>4. r \in [0 .. N -> Nat] /\ r[0] = 0 /\ r[N] = 0 /\ \A k \in 0 .. N : r[k] = 0
      BY <2>1
    <3>5. \A k \in 0 .. N : r[k] <= Len(t) BY <3>3
    <3>6. 1 .. N = {} BY <2>1
    <3>7. /\ t \in Seq(Byte) /\ r \in [0 .. N -> Nat] /\ r[0] = 0 /\ r[N] = Len(t)
          /\ \A k \in 0 .. N : r[k] <= Len(t)
          /\ \A k \in 1 .. N : /\ r[k] = r[k-1] + Len(s[k])
                               /\ \A x \in 1 .. Len(s[k]) : t[r[k-1] + x] = s[k][x]
      <4> HIDE DEF r, t
      <4> QED BY <3>3, <3>4, <3>5, <3>6
    <3> HIDE DEF r, t
    <3> QED BY <3>7
  <2>2. CASE N # 0
    <3>1. PICK g : Joins(s, g) /\ t = g[N]
      BY <1>2, <2>2, FlatJoins
    <3>2. \A k \in 1 .. N : g[k] \in Seq(Byte)
      BY <1>2, <3>1 DEF Joins
    <3> DEFINE r == [k \in 0 .. N |-> IF k = 0 THEN 0 ELSE Len(g[k])]
    <3>3. r \in [0 .. N -> Nat]
      <4>1. \A k \in 1 .. N : Len(g[k]) \in Nat BY <3>2
      <4> QED BY <4>1
    <3>4. r[0] = 0 /\ r[N] = Len(t) /\ t \in Seq(Byte)
      BY <1>0, <2>2, <3>1, <3>2
    <3>5. \A k \in 0 .. N : r[k] <= Len(t)
      <4> TAKE k \in 0 .. N
      <4>1. Len(t) \in Nat BY <3>4
      <4>2. CASE k = 0 BY <4>1, <4>2
      <4>3. CASE k # 0
        <5>1. k \in 1 .. Len(s) BY <4>3, <1>2
        <5>2. Len(g[k]) <= Len(g[Len(s)]) BY <5>1, <1>2, <3>1, JoinsKeep
        <5> QED BY <4>3, <5>2, <1>2, <3>1
      <4> QED BY <4>2, <4>3
    <3>6. ASSUME NEW k \in 1 .. N
          PROVE  /\ r[k] = r[k-1] + Len(s[k])
                 /\ \A x \in 1 .. Len(s[k]) : t[r[k-1] + x] = s[k][x]
      <4>0. k \in Nat /\ k - 1 \in 0 .. N /\ k \in 1 .. Len(s) /\ s[k] \in Seq(Byte) /\ Len(s[k]) \in Nat
        BY <1>0, <1>2
      <4>1. r[k] = Len(g[k]) BY <4>0
      <4>2. \A x \in 1 .. Len(g[k]) : t[x] = g[k][x]
        BY <4>0, <1>2, <3>1, JoinsKeep
      <4>3. r[k] = r[k-1] + Len(s[k]) /\ \A x \in 1 .. Len(s[k]) : g[k][r[k-1] + x] = s[k][x]
        <5>1. CASE k = 1
          <6>1. g[k] = s[k] BY <5>1, <3>1 DEF Joins
          <6>2. k - 1 = 0 /\ 0 \in 0 .. N BY <5>1, <1>0
          <6>3. r[k-1] = 0 BY <6>2
          <6> HIDE DEF r
          <6>4. \A x \in 1 .. Len(s[k]) : r[k-1] + x = x BY <6>3
          <6>5. r[k] = r[k-1] + Len(s[k]) BY <4>0, <4>1, <6>1, <6>3
          <6> QED BY <6>1, <6>4, <6>5
        <5>2. CASE k # 1
          <6> DEFINE u == g[k-1]
                     v == s[k]
          <6>1. k - 1 \in 1 .. N /\ k \in 2 .. Len(s) BY <4>0, <5>2
          <6>2. u \in Seq(Byte) /\ v \in Seq(Byte) BY <6>1, <3>2, <4>0
          <6>3. g[k] = u \o v BY <6>1, <3>1 DEF Joins
          <6>4. r[k-1] = Len(u) BY <6>1, <5>2
          <6> HIDE DEF u, r
          <6>5. Len(u \o v) = Len(u) + Len(v) /\ \A x \in 1 .. Len(v) : (u \o v)[Len(u) + x] = v[x]
            <7> HIDE DEF v
            <7>1. Follows(u \o v, u, v) BY <6>2, Behind
            <7> QED BY <7>1 DEF Follows
          <6> QED BY <4>1, <6>3, <6>4, <6>5
        <5> QED BY <5>1, <5>2
      <4>4. r[k-1] \in Nat /\ Len(g[k]) \in Nat BY <3>2, <3>3, <4>0
      <4>5. ASSUME NEW x \in 1 .. Len(s[k]) PROVE t[r[k-1] + x] = s[k][x]
        <5> HIDE DEF r
        <5>1. r[k-1] + x \in 1 .. Len(g[k]) BY <4>0, <4>1, <4>3, <4>4
        <5>2. t[r[k-1] + x] = g[k][r[k-1] + x] BY <5>1, <4>2
        <5> QED BY <5>2, <4>3
      <4> QED BY <4>3, <4>5
    <3> HIDE DEF r, t
    <3> QED BY <3>3, <3>4, <3>5, <3>6
  <2> QED BY <2>1, <2>2
<1>5. PICK r : /\ t \in Seq(Byte) /\ r \in [0 .. N -> Nat] /\ r[0] = 0 /\ r[N] = Len(t)
               /\ \A k \in 0 .. N : r[k] <= Len(t)
               /\ \A k \in 1 .. N : /\ r[k] = r[k-1] + Len(s[k])
                                    /\ \A x \in 1 .. Len(s[k]) : t[r[k-1] + x] = s[k][x]
  BY <1>4
<1> HIDE DEF t
<1> DEFINE c == i \o t
           o == [k \in 0 .. N |-> Len(i) + r[k]]
<1>6. Len(i) \in Nat /\ Len(t) \in Nat /\ Len(e) \in Nat
  BY <1>0, <1>5
<1>7. /\ c \in Seq(Byte) /\ Len(c) = Len(i) + Len(t)
      /\ \A x \in 1 .. Len(i) : c[x] = i[x]
      /\ \A x \in 1 .. Len(t) : c[Len(i) + x] = t[x]
  <2>1. Follows(c, i, t) BY <1>0, <1>5, Behind
  <2> HIDE DEF c
  <2> QED BY <2>1 DEF Follows
<1> HIDE DEF c
<1>8. /\ f \in Seq(Byte) /\ Len(f) = Len(c) + Len(e)
      /\ \A x \in 1 .. Len(c) : f[x] = c[x]
      /\ \A x \in 1 .. Len(e) : f[Len(c) + x] = e[x]
  <2>1. f = c \o e BY DEF c
  <2> HIDE DEF f
  <2>2. Follows(f, c, e)
    BY <1>0, <1>7, <2>1, Behind
  <2> QED BY <2>2 DEF Follows
<1> HIDE DEF f
<1>9. \A k \in 0 .. N : o[k] = Len(i) + r[k] /\ o[k] \in Nat /\ r[k] \in Nat
  BY <1>5, <1>6
<1>10. o \in [0 .. N -> Nat]
  BY <1>5, <1>6
<1> HIDE DEF o
<1>11. 0 \in 0 .. N /\ N \in 0 .. N /\ o[0] = Len(i) /\ o[N] = Len(c)
  <2>1. 0 \in 0 .. N /\ N \in 0 .. N BY <1>0
  <2> QED BY <2>1, <1>5, <1>6, <1>7, <1>9
<1>12. \A x \in 1 .. o[0] : f[x] = i[x]
  <2> TAKE x \in 1 .. o[0]
  <2>1. x \in 1 .. Len(c) BY <1>6, <1>7, <1>11
  <2> QED BY <2>1, <1>7, <1>8, <1>11
<1>13. ASSUME NEW k \in 1 .. N
       PROVE  o[k] = o[k-1] + Len(s[k]) /\ \A x \in 1 .. Len(s[k]) : f[o[k-1] + x] = s[k][x]
  <2>1. k \in 0 .. N /\ k - 1 \in 0 .. N /\ s[k] \in Seq(Byte) /\ Len(s[k]) \in Nat BY <1>0, <1>2
  <2>2. r[k] = r[k-1] + Len(s[k]) BY <1>5
  <2>3. o[k] = Len(i) + r[k] /\ o[k-1] = Len(i) + r[k-1] /\ r[k] \in Nat /\ r[k-1] \in Nat
    BY <1>9, <2>1
  <2>4. o[k] = o[k-1] + Len(s[k]) BY <1>6, <2>1, <2>2, <2>3
  <2>5. ASSUME NEW x \in 1 .. Len(s[k]) PROVE f[o[k-1] + x] = s[k][x]
    <3>1. r[k] <= Len(t) BY <1>5, <2>1
    <3>2. r[k-1] + x \in 1 .. Len(t) BY <2>1, <2>2, <2>3, <3>1, <1>6
    <3>3. t[r[k-1] + x] = s[k][x] BY <1>5
    <3>4. c[Len(i) + (r[k-1] + x)] = t[r[k-1] + x] BY <1>7, <3>2
    <3>5. Len(i) + (r[k-1] + x) = o[k-1] + x BY <1>6, <2>3
    <3>6. o[k-1] + x \in 1 .. Len(c) BY <1>6, <1>7, <3>2, <3>5
    <3>7. f[o[k-1] + x] = c[o[k-1] + x] BY <1>8, <3>6
    <3> QED BY <3>3, <3>4, <3>5, <3>7
  <2> QED BY <2>4, <2>5
<1>14. \A k \in 0 .. N : o[k] <= Len(f)
  <2> TAKE k \in 0 .. N
  <2>1. r[k] <= Len(t) /\ r[k] \in Nat /\ o[k] = Len(i) + r[k] BY <1>5, <1>9
  <2> QED BY <2>1, <1>6, <1>7, <1>8
<1>15. Layout(input, f, o)
  BY <1>2, <1>8, <1>10, <1>11, <1>12, <1>13, <1>14 DEF Layout, N, i, e
<1> QED BY <1>3, <1>15

-----------------------------------------------------------------------------
(***************************************************************************)
(* zipjpeg_test: the walk over an input                                    *)
(***************************************************************************)
\* What ends an odd run ends the signature.
LEMMA OddEndIs ==
  ASSUME NEW f, Len(f) \in Nat, NEW from \in 1 .. Len(f) + 1, NEW a, NEW b,
         NEW e \in OddEnds(f, from, a, b)
  PROVE  e \in from + 1 .. Len(f) /\ f[e - 1] = a /\ f[e] = b
<1>1. e \in from + 1 .. Len(f) /\ f[e] = b
  BY DEF OddEnds
<1>2. PICK q \in from .. e - 1 : Run(f, from, a, q, e - 1)
  BY DEF OddEnds
<1>3. e - 1 \in q .. e - 1
  BY <1>1, <1>2
<1> QED BY <1>1, <1>2, <1>3 DEF Run

\* An end of the signature whose first byte is not repeated ends a run of one.
LEMMA IsOddEnd ==
  ASSUME NEW f, Len(f) \in Nat, NEW from \in 1 .. Len(f) + 1, NEW a, NEW b,
         NEW m \in from + 1 .. Len(f), f[m - 1] = a, f[m] = b, m - 2 >= from => f[m - 2] # a
  PROVE  m \in OddEnds(f, from, a, b)
<1>1. m - 1 \in from .. m - 1 /\ m - (m - 1) = 1 /\ 1 % 2 = 1 OBVIOUS
<1>2. \A r \in m - 1 .. m - 1 : f[r] = a OBVIOUS
<1>3. m - 1 > from => f[(m - 1) - 1] # a
  <2>1. (m - 1) - 1 = m - 2 /\ (m - 1 > from => m - 2 >= from) OBVIOUS
  <2> QED BY <2>1
<1>4. Run(f, from, a, m - 1, m - 1) BY <1>2, <1>3 DEF Run
<1> QED BY <1>1, <1>4 DEF OddEnds

\* <<a, b>> is nowhere in f from byte n on to byte p.
None(f, a, b, n, p) == \A x \in n + 1 .. p : ~ (f[x-1] = a /\ f[x] = b)

\* Where the search ends if m ends the first of the signatures, or there is none
First(f, from, a, b, m) ==
  /\ m \in from + 1 .. Len(f) /\ f[m-1] = a /\ f[m] = b
  /\ m - 2 >= from => f[m-2] # a
  /\ None(f, a, b, from, m - 1)

LEMMA FirstIsFound ==
  ASSUME NEW f, Len(f) \in Nat, NEW from \in 1 .. Len(f) + 1, NEW a, NEW b, a # b,
         NEW m, First(f, from, a, b, m)
  PROVE  Zipj!signature_search(f, from, <<a, b>>) = m + 1
<1> DEFINE Ends == OddEnds(f, from, a, b)
           at == Zipj!signature_search(f, from, <<a, b>>)
<1>1. m \in Ends
  BY IsOddEnd DEF First
<1>2. ASSUME NEW e \in Ends PROVE e >= m
  <2>1. e \in from + 1 .. Len(f) /\ f[e - 1] = a /\ f[e] = b
    BY OddEndIs
  <2>2. e \notin from + 1 .. m - 1
    BY <2>1 DEF First, None
  <2>3. m \in Int
    BY DEF First
  <2> QED BY <2>1, <2>2, <2>3
<1>3. (Ends = {} /\ at = 0) \/ (at - 1 \in Ends /\ at \in Nat \ {0} /\ \A e \in Ends : e >= at - 1)
  BY SearchFinds
<1>4. Ends \subseteq Int /\ m \in Int
  BY DEF OddEnds, First
<1> HIDE DEF Ends, at
<1>5. at \in Nat /\ at - 1 \in Ends /\ m >= at - 1
  BY <1>1, <1>3
<1>6. at - 1 >= m
  BY <1>2, <1>5
<1>7. at = m + 1
  BY <1>4, <1>5, <1>6
<1> QED BY <1>7 DEF at

LEMMA NoneIsFound ==
  ASSUME NEW f, Len(f) \in Nat, NEW from \in 1 .. Len(f) + 1, NEW a, NEW b, a # b,
         None(f, a, b, from, Len(f))
  PROVE  Zipj!signature_search(f, from, <<a, b>>) = 0
<1> DEFINE Ends == OddEnds(f, from, a, b)
           at == Zipj!signature_search(f, from, <<a, b>>)
<1>1. ASSUME NEW e \in Ends PROVE FALSE
  <2>1. e \in from + 1 .. Len(f) /\ f[e - 1] = a /\ f[e] = b
    BY OddEndIs
  <2> QED BY <2>1 DEF None
<1>2. (Ends = {} /\ at = 0) \/ at - 1 \in Ends
  BY SearchFinds
<1> QED BY <1>1, <1>2

LEMMA InputsAre == Inputs \subseteq InputType
BY ZipjpegAssumption DEF InputType, Byte, Entry

Off(input) == CHOOSE o : Layout(input, Zipj!Bytes(input), o)

LEMMA OffIs ==
  ASSUME NEW input \in Inputs
  PROVE  Layout(input, Zipj!Bytes(input), Off(input))
<1>1. input \in InputType
  BY InputsAre
<1>2. \E o : Layout(input, Zipj!Bytes(input), o)
  BY <1>1, LayoutExists
<1> QED BY <1>2 DEF Off

\* The bytes of e stand behind the first p of f.
Stands(f, e, p, to) ==
  /\ e \in Entry /\ p \in Nat /\ Len(e.name) \in Nat /\ Len(e.data) \in Nat
  /\ to = p + 6 + Len(e.name) + Len(e.data) /\ to <= Len(f)
  /\ f[p + 1] = P /\ f[p + 2] = K /\ f[p + 3] = LocalType /\ f[p + 4] = e.skipped
  /\ f[p + 5] = e.size /\ f[p + 6] = e.skipped
  /\ \A x \in 1 .. Len(e.name) : f[p + 6 + x] = e.name[x]
  /\ \A x \in 1 .. Len(e.data) : f[p + 6 + Len(e.name) + x] = e.data[x]

LEMMA EntryAt ==
  ASSUME NEW input \in InputType, NEW f, NEW o, Layout(input, f, o),
         NEW k \in 1 .. Len(input.entries)
  PROVE  Stands(f, input.entries[k], o[k-1], o[k])
<1> DEFINE N == Len(input.entries)
           e == input.entries[k]
           b == EntryBytes(e)
           p == o[k-1]
           l == Len(e.name)
           d == Len(e.data)
<1>1. e \in Entry /\ k \in 0 .. N /\ k - 1 \in 0 .. N
  BY DEF InputType
<1>2. l \in Nat /\ d \in Nat
  BY <1>1 DEF Entry
<1>3. p \in Nat /\ o[k] <= Len(f)
  BY <1>1 DEF Layout
<1>4. o[k] = p + Len(b) /\ \A x \in 1 .. Len(b) : f[p + x] = b[x]
  BY DEF Layout
<1> HIDE DEF N, e, p
<1>5. /\ Len(b) = 6 + l + d
      /\ b[1] = P /\ b[2] = K /\ b[3] = LocalType /\ b[4] = e.skipped
      /\ b[5] = e.size /\ b[6] = e.skipped
      /\ \A x \in 1 .. l : b[6 + x] = e.name[x]
      /\ \A x \in 1 .. d : b[6 + l + x] = e.data[x]
  BY <1>1, EntryBytesAre
<1> HIDE DEF b, l, d
<1>6. o[k] = p + 6 + l + d
  BY <1>2, <1>3, <1>4, <1>5
<1>7. /\ f[p + 1] = P /\ f[p + 2] = K /\ f[p + 3] = LocalType /\ f[p + 4] = e.skipped
      /\ f[p + 5] = e.size /\ f[p + 6] = e.skipped
  BY <1>2, <1>4, <1>5
<1>8. \A x \in 1 .. l : f[p + 6 + x] = e.name[x]
  <2> TAKE x \in 1 .. l
  <2>1. 6 + x \in 1 .. Len(b) /\ p + (6 + x) = p + 6 + x BY <1>2, <1>3, <1>5
  <2> QED BY <1>4, <1>5, <2>1
<1>9. \A x \in 1 .. d : f[p + 6 + l + x] = e.data[x]
  <2> TAKE x \in 1 .. d
  <2>0. x \in Nat /\ 1 <= x /\ x <= d BY <1>2
  <2>1. 6 + l + x \in 1 .. Len(b)
    <3>1. 6 + l + x <= 6 + l + d BY <1>2, <2>0
    <3>2. 6 + l + x \in Nat /\ 6 + l + x >= 1 /\ 6 + l + d \in Nat BY <1>2, <2>0
    <3>3. Len(b) = 6 + l + d BY <1>5
    <3> QED BY <3>1, <3>2, <3>3
  <2>2. p + (6 + l + x) = p + 6 + l + x BY <1>2, <1>3, <2>0
  <2> QED BY <1>4, <1>5, <2>1, <2>2
<1> QED BY <1>1, <1>2, <1>3, <1>6, <1>7, <1>8, <1>9 DEF e, p, l, d, Stands

\* The first k names, and the states in which they were listed
Names(input, k) == [n \in 1 .. k |-> input.entries[n].name]
Reached(input, o, k) ==
  /\ listing = Names(input, k)
  /\ zip_pos \in 1 .. o[k] + 1
  /\ None(zip_file, P, K, zip_pos, o[k])
  /\ zip_pos <= o[k] => zip_file[o[k]] # P

Walk(input, o) ==
  /\ zip_pc = "jpeg" => zip_pos = 1 /\ listing = <<>>
  /\ zip_pc = "jpeg_end" => zip_pos = 3 /\ listing = <<>> /\ input.image # <<>>
  /\ zip_pc = "archive" => \E k \in 0 .. Len(input.entries) : Reached(input, o, k)
  /\ zip_pc = "done" => listing = Names(input, Len(input.entries))

ZipTypeOK == zip_file \in Seq(Byte) /\ zip_pos \in 1 .. Len(zip_file) + 1

\* In a clean input, the search is before the next entry, and nothing that is left
\* before that looks like the beginning of a header.
ZipInv ==
  /\ ZipTypeOK
  /\ \A input \in Inputs : zip_file = Zipj!Bytes(input) /\ Zipj!Clean(input) => Walk(input, Off(input))

LEMMA ZipInit == Zipj!Init => ZipInv
<1> SUFFICES ASSUME Zipj!Init PROVE ZipInv
  OBVIOUS
<1>1. PICK input \in Inputs : zip_file = Zipj!Bytes(input)
  BY DEF Zipj!Init
<1>2. zip_file \in Seq(Byte)
  BY <1>1, OffIs DEF Layout
<1>3. ZipTypeOK
  <2>1. zip_pos = 1 /\ Len(zip_file) \in Nat BY <1>2 DEF Zipj!Init
  <2> QED BY <1>2, <2>1 DEF ZipTypeOK
<1>4. \A i \in Inputs : Walk(i, Off(i))
  BY DEF Zipj!Init, Walk
<1> QED BY <1>3, <1>4 DEF ZipInv

\* What the search returns is a position to go on from.
LEMMA SearchType ==
  ASSUME NEW f, Len(f) \in Nat, NEW from \in 1 .. Len(f) + 1, NEW a, NEW b, a # b
  PROVE  LET at == Zipj!signature_search(f, from, <<a, b>>)
         IN  at = 0 \/ at \in from + 2 .. Len(f) + 1
<1> DEFINE Ends == OddEnds(f, from, a, b)
           at == Zipj!signature_search(f, from, <<a, b>>)
<1>1. at = 0 \/ (at - 1 \in Ends /\ at \in Nat)
  BY SearchFinds
<1>2. \A e \in Ends : e \in from + 1 .. Len(f)
  BY DEF OddEnds
<1> HIDE DEF Ends, at
<1>3. at = 0 \/ at \in from + 2 .. Len(f) + 1
  BY <1>1, <1>2
<1> QED BY <1>3 DEF at

\* Where the searches begin
LEMMA Sizes ==
  ASSUME ZipInv
  PROVE  Len(zip_file) \in Nat /\ zip_pos \in 1 .. Len(zip_file) + 1 /\ FF # D8 /\ FF # D9 /\ P # K /\ P # D9
BY ToolsAssumption DEF ZipInv, ZipTypeOK

\* An input that is being read
LEMMA Reading ==
  ASSUME ZipInv, NEW input \in Inputs, zip_file = Zipj!Bytes(input)
  PROVE  /\ input \in InputType /\ Layout(input, zip_file, Off(input))
         /\ Len(input.entries) \in Nat /\ DOMAIN input.entries = 1 .. Len(input.entries)
         /\ Off(input)[0] = Len(input.image) /\ Off(input)[0] \in Nat
         /\ Off(input)[0] <= Len(zip_file)
         /\ \A x \in 1 .. Len(input.image) : zip_file[x] = input.image[x]
<1>1. input \in InputType
  BY InputsAre
<1>2. Layout(input, zip_file, Off(input))
  BY OffIs
<1>3. Len(input.entries) \in Nat /\ DOMAIN input.entries = 1 .. Len(input.entries)
  BY <1>1 DEF InputType
<1>4. 0 \in 0 .. Len(input.entries)
  BY <1>3
<1> QED BY <1>1, <1>2, <1>3, <1>4 DEF Layout

LEMMA ZipJpeg ==
  ASSUME ZipInv, Zipj!FindJpeg
  PROVE  ZipInv'
<1> DEFINE at == Zipj!signature_search(zip_file, 1, <<FF, D8>>)
<1>0. /\ zip_pc = "jpeg" /\ zip_file' = zip_file /\ listing' = listing
      /\ (at = 0 /\ zip_pc' = "archive" /\ zip_pos' = zip_pos) \/ (at # 0 /\ zip_pc' = "jpeg_end" /\ zip_pos' = at)
  BY DEF Zipj!FindJpeg
<1>1. Len(zip_file) \in Nat /\ zip_pos \in 1 .. Len(zip_file) + 1 /\ FF # D8
  BY Sizes
<1>2. at = 0 \/ at \in 1 + 2 .. Len(zip_file) + 1
  <2>1. 1 \in 1 .. Len(zip_file) + 1 BY <1>1
  <2> QED BY <1>1, <2>1, SearchType
<1>3. ZipTypeOK'
  <2> HIDE DEF at
  <2> QED BY <1>0, <1>1, <1>2 DEF ZipInv, ZipTypeOK
<1>4. ASSUME NEW input \in Inputs, zip_file = Zipj!Bytes(input), Zipj!Clean(input)
      PROVE  Walk(input, Off(input))'
  <2> DEFINE o == Off(input)
  <2>1. zip_pos = 1 /\ listing = <<>>
    BY <1>0, <1>4 DEF ZipInv, Walk
  <2>2. /\ input \in InputType /\ Layout(input, zip_file, o) /\ Len(input.entries) \in Nat
        /\ o[0] = Len(input.image) /\ o[0] \in Nat /\ o[0] <= Len(zip_file)
        /\ \A x \in 1 .. Len(input.image) : zip_file[x] = input.image[x]
    BY <1>4, Reading
  <2>3. CASE input.image = <<>>
    <3>1. None(zip_file, FF, D8, 1, Len(zip_file))
      <4>1. Zipj!Without(FF, D8, zip_file, 0)
        BY <1>4, <2>3 DEF Zipj!Clean
      <4> QED BY <4>1 DEF None, Zipj!Without
    <3>2. 1 \in 1 .. Len(zip_file) + 1 BY <1>1
    <3>3. at = 0
      BY <1>1, <3>1, <3>2, NoneIsFound
    <3>4. zip_pc' = "archive" /\ zip_pos' = 1 /\ listing' = <<>>
      <4> HIDE DEF at
      <4> QED BY <1>0, <2>1, <3>3
    <3>5. o[0] = 0 BY <2>2, <2>3
    <3>6. Reached(input, o, 0)'
      <4>1. Names(input, 0) = <<>> BY DEF Names
      <4>2. None(zip_file, P, K, 1, 0) /\ ~ (1 <= 0)
        BY DEF None
      <4> HIDE DEF o
      <4> QED BY <1>0, <3>4, <3>5, <4>1, <4>2 DEF Reached, None
    <3>7. 0 \in 0 .. Len(input.entries) BY <2>2
    <3> QED BY <3>4, <3>6, <3>7 DEF Walk
  <2>4. CASE input.image # <<>>
    <3>1. input.image[1] = FF /\ input.image[2] = D8 /\ Len(input.image) >= 4
      BY <1>4, <2>4 DEF Zipj!Clean
    <3>2. zip_file[1] = FF /\ zip_file[2] = D8 /\ 2 \in 1 + 1 .. Len(zip_file)
      BY <1>1, <2>2, <3>1
    <3>3. at = 2 + 1
      <4>1. 1 \in 1 .. Len(zip_file) + 1 /\ 2 - 1 = 1 /\ 1 .. 2 - 2 = {} BY <1>1
      <4>2. First(zip_file, 1, FF, D8, 2)
        <5>1. 2 - 1 = 1 /\ ~ (2 - 2 >= 1) /\ 1 + 1 .. 2 - 1 = {} OBVIOUS
        <5> QED BY <3>2, <5>1 DEF First, None
      <4> QED BY <1>1, <4>1, <4>2, FirstIsFound
    <3>4. zip_pc' = "jpeg_end" /\ zip_pos' = 3 /\ listing' = <<>>
      <4> HIDE DEF at
      <4> QED BY <1>0, <2>1, <3>3
    <3> QED BY <2>4, <3>4 DEF Walk
  <2> QED BY <2>3, <2>4
<1> QED BY <1>0, <1>3, <1>4 DEF ZipInv

LEMMA ZipJpegEnd ==
  ASSUME ZipInv, Zipj!FindJpegEnd
  PROVE  ZipInv'
<1> DEFINE at == Zipj!signature_search(zip_file, zip_pos, <<FF, D9>>)
<1>0. /\ zip_pc = "jpeg_end" /\ zip_file' = zip_file /\ listing' = listing
      /\ (at = 0 /\ zip_pc' = "done" /\ zip_pos' = zip_pos) \/ (at # 0 /\ zip_pc' = "archive" /\ zip_pos' = at)
  BY DEF Zipj!FindJpegEnd
<1>1. Len(zip_file) \in Nat /\ zip_pos \in 1 .. Len(zip_file) + 1 /\ FF # D9
  BY Sizes
<1>2. at = 0 \/ at \in zip_pos + 2 .. Len(zip_file) + 1
  BY <1>1, SearchType
<1>3. ZipTypeOK'
  <2> HIDE DEF at
  <2> QED BY <1>0, <1>1, <1>2 DEF ZipInv, ZipTypeOK
<1>4. ASSUME NEW input \in Inputs, zip_file = Zipj!Bytes(input), Zipj!Clean(input)
      PROVE  Walk(input, Off(input))'
  <2> DEFINE o == Off(input)
             i == input.image
             Ends == OddEnds(zip_file, 3, FF, D9)
  <2>1. zip_pos = 3 /\ listing = <<>> /\ i # <<>>
    BY <1>0, <1>4 DEF ZipInv, Walk
  <2>2. /\ input \in InputType /\ Layout(input, zip_file, o) /\ Len(input.entries) \in Nat
        /\ o[0] = Len(i) /\ o[0] \in Nat /\ o[0] <= Len(zip_file)
        /\ \A x \in 1 .. Len(i) : zip_file[x] = i[x]
    BY <1>4, Reading
  <2>3. /\ Len(i) \in Nat /\ Len(i) >= 4 /\ i[Len(i) - 2] # FF /\ i[Len(i) - 1] = FF /\ i[Len(i)] = D9
        /\ \A n \in 4 .. Len(i) : i[n-1] = FF /\ i[n] = D9 => Zipj!Without(P, K, i, n)
    BY <1>4, <2>1, <2>2 DEF Zipj!Clean
  <2> DEFINE m == Len(i)
  <2>4. m \in 3 + 1 .. Len(zip_file) /\ zip_file[m] = D9 /\ zip_file[m-1] = FF /\ zip_file[m-2] # FF
    <3>1. m \in 3 + 1 .. Len(zip_file) BY <1>1, <2>2, <2>3
    <3>2. m \in 1 .. m /\ m - 1 \in 1 .. m /\ m - 2 \in 1 .. m BY <2>3
    <3>3. \A x \in 1 .. m : zip_file[x] = i[x] BY <2>2
    <3> QED BY <2>3, <3>1, <3>2, <3>3
  <2>5. m \in Ends
    <3>1. 3 \in 1 .. Len(zip_file) + 1 BY <1>1, <2>1
    <3> HIDE DEF m
    <3> QED BY <1>1, <2>4, <3>1, IsOddEnd
  <2> DEFINE e == at - 1
  <2>6. e \in Ends /\ at \in Nat \ {0} /\ \A n \in Ends : n >= e
    <3>1. 3 \in 1 .. Len(zip_file) + 1 BY <1>1, <2>1
    <3> DEFINE s == Zipj!signature_search(zip_file, 3, <<FF, D9>>)
    <3>2. (Ends = {} /\ s = 0) \/ (s - 1 \in Ends /\ s \in Nat \ {0} /\ \A n \in Ends : n >= s - 1)
      BY <1>1, <3>1, SearchFinds
    <3>3. at = s BY <2>1
    <3> HIDE DEF s, at, Ends
    <3> QED BY <2>5, <3>2, <3>3
  <2>7. e \in 3 + 1 .. Len(zip_file) /\ zip_file[e] = D9 /\ zip_file[e-1] = FF
    <3>1. 3 \in 1 .. Len(zip_file) + 1 BY <1>1, <2>1
    <3> HIDE DEF e
    <3> QED BY <1>1, <2>6, <3>1, OddEndIs
  <2>8. e <= m
    BY <2>5, <2>6
  <2>9. at = e + 1 /\ e \in Int
    BY <2>6
  <2> HIDE DEF at, e, Ends
  <2>10. e \in 4 .. Len(i) /\ e - 1 \in 1 .. Len(i) /\ e \in 1 .. Len(i)
    BY <2>2, <2>3, <2>7, <2>8
  <2>11. i[e-1] = FF /\ i[e] = D9
    BY <2>2, <2>7, <2>10
  <2>12. Zipj!Without(P, K, i, e)
    BY <2>3, <2>10, <2>11
  <2>13. zip_pc' = "archive" /\ zip_pos' = e + 1 /\ listing' = <<>>
    BY <1>0, <2>1, <2>6, <2>9
  <2>14. e + 1 \in 1 .. o[0] + 1 /\ None(zip_file, P, K, e + 1, o[0]) /\ zip_file[o[0]] # P
    <3>1. e + 1 \in 1 .. o[0] + 1 BY <2>2, <2>10
    <3>2. zip_file[o[0]] # P BY <2>2, <2>4, Sizes
    <3>3. ASSUME NEW x \in e + 2 .. o[0] PROVE ~ (zip_file[x-1] = P /\ zip_file[x] = K)
      <4>1. x \in 1 .. Len(i) /\ x - 1 \in 1 .. Len(i) BY <2>2, <2>10
      <4>2. x \in e + 2 .. Len(i) BY <2>2
      <4>3. ~ (i[x-1] = P /\ i[x] = K) BY <2>12, <4>2 DEF Zipj!Without
      <4> HIDE DEF i
      <4> QED BY <2>2, <4>1, <4>3
    <3>4. (e + 1) + 1 = e + 2 BY <2>10
    <3> QED BY <3>1, <3>2, <3>3, <3>4 DEF None
  <2>15. Reached(input, o, 0)'
    <3>1. Names(input, 0) = <<>> BY DEF Names
    <3> HIDE DEF o
    <3> QED BY <1>0, <2>13, <2>14, <3>1 DEF Reached, None
  <2>16. 0 \in 0 .. Len(input.entries) BY <2>2
  <2> QED BY <2>13, <2>15, <2>16 DEF Walk
<1> QED BY <1>0, <1>3, <1>4 DEF ZipInv

LEMMA LesserOf ==
  ASSUME NEW m \in Nat, NEW n \in Nat
  PROVE  /\ Zipj!Min({m, n}) \in Nat
         /\ m <= n => Zipj!Min({m, n}) = m
<1>1. PICK k \in {m, n} : \A y \in {m, n} : k <= y
  <2>1. m <= n \/ n <= m OBVIOUS
  <2>2. CASE m <= n BY <2>2
  <2>3. CASE n <= m BY <2>3
  <2> QED BY <2>1, <2>2, <2>3
<1>2. Zipj!Min({m, n}) \in {m, n} /\ \A y \in {m, n} : Zipj!Min({m, n}) <= y
  BY <1>1 DEF Zipj!Min
<1> QED BY <1>2

\* The position of the size of a name, and of what is behind the name
LEMMA NameType ==
  ASSUME ZipInv, NEW p \in Nat \ {0}, Zipj!HasName(p)
  PROVE  p + 4 + Zipj!NameSize(p) \in 1 .. Len(zip_file) + 1
<1>1. Len(zip_file) \in Nat /\ zip_file \in Seq(Byte)
  BY Sizes DEF ZipInv, ZipTypeOK
<1>2. p + 2 \in 1 .. Len(zip_file) /\ p + 3 + Zipj!NameSize(p) <= Len(zip_file)
  BY <1>1 DEF Zipj!HasName
<1>3. zip_file[p + 2] \in Byte
  BY <1>1, <1>2
<1>4. Size[zip_file[p + 2]] \in Nat /\ MAX_FILENAME_LENGTH - 1 \in Nat
  BY <1>3, ZipjpegAssumption DEF Byte
<1>5. Zipj!NameSize(p) \in Nat
  BY <1>4, LesserOf DEF Zipj!NameSize
<1> QED BY <1>1, <1>2, <1>5

\* The next header of a clean input is found, and its name.
LEMMA NextHeader ==
  ASSUME ZipInv, NEW input \in Inputs, zip_file = Zipj!Bytes(input), Zipj!Clean(input),
         NEW k \in 0 .. Len(input.entries) - 1, Reached(input, Off(input), k)
  PROVE  LET at == Off(input)[k] + 3
             e == input.entries[k + 1]
         IN  /\ Zipj!signature_search(zip_file, zip_pos, <<P, K>>) = at
             /\ Zipj!IsLocalHeader(at) /\ Zipj!HasName(at)
             /\ Zipj!NameSize(at) = Len(e.name) /\ Zipj!Name(at) = e.name
             /\ at + 4 + Len(e.name) \in 1 .. Off(input)[k + 1] + 1
             /\ None(zip_file, P, K, at + 4 + Len(e.name), Off(input)[k + 1])
             /\ at + 4 + Len(e.name) <= Off(input)[k + 1] => zip_file[Off(input)[k + 1]] # P
<1> DEFINE N == Len(input.entries)
           o == Off(input)
           e == input.entries[k + 1]
           p == o[k]
           l == Len(e.name)
           d == Len(e.data)
           at == p + 3
<1>1. /\ input \in InputType /\ Layout(input, zip_file, o) /\ N \in Nat
      /\ DOMAIN input.entries = 1 .. N
  BY Reading
<1>2. Len(zip_file) \in Nat /\ zip_pos \in 1 .. Len(zip_file) + 1 /\ P # K
  BY Sizes
<1>3. k \in Nat /\ k + 1 \in 1 .. N /\ (k + 1) - 1 = k
  BY <1>1
<1>4. /\ e \in Entry /\ p \in Nat /\ l \in Nat /\ d \in Nat
      /\ o[k + 1] = p + 6 + l + d /\ o[k + 1] <= Len(zip_file)
      /\ zip_file[p + 1] = P /\ zip_file[p + 2] = K /\ zip_file[p + 3] = LocalType
      /\ zip_file[p + 5] = e.size
      /\ \A x \in 1 .. l : zip_file[p + 6 + x] = e.name[x]
      /\ \A x \in 1 .. d : zip_file[p + 6 + l + x] = e.data[x]
  <2> DEFINE j == k + 1
  <2>1. j \in 1 .. Len(input.entries) /\ j - 1 = k BY <1>3
  <2>2. Stands(zip_file, input.entries[j], o[j-1], o[j])
    <3> HIDE DEF j, o
    <3> QED BY <1>1, <2>1, EntryAt
  <2>3. Stands(zip_file, e, p, o[k + 1]) BY <2>1, <2>2
  <2> HIDE DEF e, p
  <2> QED BY <2>3 DEF Stands
<1>5. /\ Zipj!Without(P, K, e.data, 0) /\ (e.data # <<>> => Zipj!Last(e.data) # P)
      /\ Size[e.size] = l /\ l < MAX_FILENAME_LENGTH
  BY <1>1, <1>3 DEF Zipj!Clean
<1>6. e.name \in Seq(Byte) /\ e.data \in Seq(Byte) /\ Len(e.name) = l /\ Len(e.data) = d
  BY <1>4 DEF Entry
<1>7. zip_pos \in 1 .. p + 1 /\ None(zip_file, P, K, zip_pos, p) /\ (zip_pos <= p => zip_file[p] # P)
  BY DEF Reached
<1> HIDE DEF o, N, e, p, l, d
<1>8. Zipj!signature_search(zip_file, zip_pos, <<P, K>>) = at
  <2>1. p + 2 \in zip_pos + 1 .. Len(zip_file)
    <3>1. p + 2 <= Len(zip_file) BY <1>2, <1>4
    <3>2. p \in Nat BY <1>4
    <3>3. zip_pos \in 1 .. p + 1 BY <1>7
    <3> QED BY ONLY <1>2, <3>1, <3>2, <3>3
  <2>2. (p + 2) - 1 = p + 1 /\ (p + 2) - 2 = p /\ (p + 2) + 1 = at
    <3>1. p \in Nat BY <1>4
    <3> QED BY <3>1
  <2> DEFINE m == p + 2
  <2>3. First(zip_file, zip_pos, P, K, m)
    <3>1. None(zip_file, P, K, zip_pos, m - 1)
      <4>1. ASSUME NEW x \in zip_pos + 1 .. m - 1 PROVE ~ (zip_file[x-1] = P /\ zip_file[x] = K)
        <5>1. m - 1 = p + 1 /\ p \in Nat /\ zip_pos \in Nat BY <1>2, <1>4, <2>2
        <5>2. x \in zip_pos + 1 .. p \/ x = p + 1 BY <5>1
        <5> QED BY <1>2, <1>4, <1>7, <5>2 DEF None
      <4> QED BY <4>1 DEF None
    <3>2. m \in zip_pos + 1 .. Len(zip_file) /\ m - 1 = p + 1 /\ m - 2 = p /\ m = p + 2
      BY <2>1, <2>2
    <3> HIDE DEF m
    <3> QED BY <1>4, <1>7, <3>1, <3>2 DEF First
  <2> HIDE DEF m
  <2>4. Zipj!signature_search(zip_file, zip_pos, <<P, K>>) = m + 1
    BY <1>2, <2>3, FirstIsFound
  <2> QED BY <2>2, <2>4 DEF m
<1>9. Zipj!IsLocalHeader(at)
  <2>1. at <= Len(zip_file) BY <1>2, <1>4
  <2> QED BY <1>4, <2>1 DEF Zipj!IsLocalHeader
<1>10. Zipj!NameSize(at) = l
  <2>1. at + 2 = p + 5 BY <1>4
  <2>2. MAX_FILENAME_LENGTH - 1 \in Nat /\ l <= MAX_FILENAME_LENGTH - 1
    <3>1. MAX_FILENAME_LENGTH \in Nat \ {0} BY ZipjpegAssumption
    <3> QED BY <1>4, <1>5, <3>1
  <2>3. Zipj!Min({l, MAX_FILENAME_LENGTH - 1}) = l
    BY <1>4, <2>2, LesserOf
  <2>4. Size[zip_file[at + 2]] = l
    BY <1>4, <1>5, <2>1
  <2> QED BY <2>3, <2>4 DEF Zipj!NameSize
<1>11. Zipj!HasName(at)
  <2>1. at + 2 <= Len(zip_file) /\ at + 3 + l <= Len(zip_file) BY <1>2, <1>4
  <2> QED BY <1>10, <2>1 DEF Zipj!HasName
<1>12. Zipj!Name(at) = e.name
  <2> DEFINE s == SubSeq(zip_file, p + 7, p + 6 + l)
  <2>1. Zipj!Name(at) = s
    <3>1. at + 4 = p + 7 /\ at + 3 + l = p + 6 + l BY <1>4
    <3> QED BY <1>10, <3>1 DEF Zipj!Name
  <2>2. zip_file \in Seq(Byte) BY DEF ZipInv, ZipTypeOK
  <2>3. p + 7 \in 1 .. Len(zip_file) + 1 /\ p + 6 + l \in 0 .. Len(zip_file) /\ p + 7 \in Nat /\ p + 6 + l \in Nat
    BY <1>2, <1>4
  <2>4. s = [x \in 1 .. l |-> zip_file[p + 6 + x]]
    <3>1. s = [x \in 1 .. ((p + 6 + l) - (p + 7)) + 1 |-> zip_file[((p + 7) + x) - 1]]
      BY <2>2, <2>3
    <3>2. ((p + 6 + l) - (p + 7)) + 1 = l BY <1>4
    <3>3. \A x \in 1 .. l : ((p + 7) + x) - 1 = p + 6 + x BY <1>4
    <3> HIDE DEF s
    <3> QED BY <3>1, <3>2, <3>3
  <2>5. e.name = [x \in 1 .. l |-> e.name[x]] BY <1>6
  <2>6. [x \in 1 .. l |-> zip_file[p + 6 + x]] = [x \in 1 .. l |-> e.name[x]]
    BY <1>4
  <2> HIDE DEF s
  <2> QED BY <2>1, <2>4, <2>5, <2>6
<1>13. at + 4 + l \in 1 .. o[k + 1] + 1
  BY <1>4
<1>14. None(zip_file, P, K, at + 4 + l, o[k + 1])
  <2> SUFFICES ASSUME NEW x \in (at + 4 + l) + 1 .. o[k + 1], zip_file[x-1] = P, zip_file[x] = K PROVE FALSE
    BY DEF None
  <2> DEFINE y == x - (p + 6 + l)
  <2>1. /\ y \in 1 .. d /\ y - 1 \in 1 .. d /\ p + 6 + l + y = x /\ p + 6 + l + (y - 1) = x - 1
        /\ y \in 0 + 2 .. d
    BY <1>4
  <2> HIDE DEF y
  <2>2. zip_file[x] = e.data[y] BY <1>4, <2>1
  <2>3. zip_file[x-1] = e.data[y-1] BY <1>4, <2>1
  <2>4. y \in 0 + 2 .. Len(e.data) BY <1>6, <2>1
  <2> QED BY <1>5, <2>2, <2>3, <2>4 DEF Zipj!Without
<1>15. ASSUME at + 4 + l <= o[k + 1] PROVE zip_file[o[k + 1]] # P
  <2>1. d \in 1 .. d /\ o[k + 1] = p + 6 + l + d BY <1>4, <1>15
  <2>2. zip_file[p + 6 + l + d] = e.data[d] BY <1>4, <2>1
  <2>3. e.data # <<>> /\ Zipj!Last(e.data) = e.data[d] BY <1>6, <2>1 DEF Zipj!Last
  <2> QED BY <1>5, <2>1, <2>2, <2>3
<1> QED BY <1>8, <1>9, <1>10, <1>11, <1>12, <1>13, <1>14, <1>15 DEF o, e, p, l

\* Behind the last entry the listing ends.
LEMMA NoHeader ==
  ASSUME ZipInv, NEW input \in Inputs, zip_file = Zipj!Bytes(input), Zipj!Clean(input),
         Reached(input, Off(input), Len(input.entries))
  PROVE  LET at == Zipj!signature_search(zip_file, zip_pos, <<P, K>>)
         IN  at = 0 \/ ~ Zipj!IsLocalHeader(at)
<1> DEFINE N == Len(input.entries)
           p == Off(input)[N]
           end == input.end
           at == Zipj!signature_search(zip_file, zip_pos, <<P, K>>)
<1>1. input \in InputType /\ Layout(input, zip_file, Off(input)) /\ N \in Nat
  BY Reading
<1>2. Len(zip_file) \in Nat /\ zip_pos \in 1 .. Len(zip_file) + 1 /\ P # K
  BY Sizes
<1>3. /\ p \in Nat /\ Len(zip_file) = p + Len(end) /\ Len(end) \in Nat
      /\ \A x \in 1 .. Len(end) : zip_file[p + x] = end[x]
  <2>1. N \in 0 .. N BY <1>1
  <2>2. Len(end) \in Nat BY <1>1 DEF InputType
  <2> QED BY <1>1, <2>1, <2>2 DEF Layout
<1>4. zip_pos \in 1 .. p + 1 /\ None(zip_file, P, K, zip_pos, p) /\ (zip_pos <= p => zip_file[p] # P)
  BY DEF Reached
<1>5. CASE end = <<>>
  <2>1. Len(zip_file) = p BY <1>3, <1>5
  <2>2. None(zip_file, P, K, zip_pos, Len(zip_file)) BY <1>4, <2>1
  <2>3. at = 0 BY <1>2, <2>2, NoneIsFound
  <2> QED BY <2>3
<1>6. CASE end # <<>>
  <2>1. Len(end) >= 3 /\ end[1] = P /\ end[2] = K /\ end[3] # LocalType
    BY <1>6 DEF Zipj!Clean
  <2> HIDE DEF p, end
  <2>2. zip_file[p + 1] = P /\ zip_file[p + 2] = K /\ zip_file[p + 3] # LocalType
    BY <1>3, <2>1
  <2> DEFINE m == p + 2
  <2>3. m - 1 = p + 1 /\ m - 2 = p /\ m + 1 = p + 3 BY <1>3
  <2>4. m \in zip_pos + 1 .. Len(zip_file) BY <1>3, <1>4, <2>1
  <2>5. First(zip_file, zip_pos, P, K, m)
    <3>1. ASSUME NEW x \in zip_pos + 1 .. m - 1 PROVE ~ (zip_file[x-1] = P /\ zip_file[x] = K)
      <4>1. x \in zip_pos + 1 .. p \/ x = p + 1
        <5>1. m - 1 = p + 1 /\ p \in Nat /\ zip_pos \in Nat BY <1>2, <1>3, <2>3
        <5> HIDE DEF m
        <5>2. x \in zip_pos + 1 .. p + 1 BY <5>1
        <5> QED BY <5>1, <5>2
      <4> QED BY <1>2, <1>4, <2>2, <4>1 DEF None
    <3>2. None(zip_file, P, K, zip_pos, m - 1) BY <3>1 DEF None
    <3> HIDE DEF m
    <3> QED BY <1>4, <2>2, <2>3, <2>4, <3>2 DEF First
  <2> HIDE DEF m
  <2>6. at = m + 1 BY <1>2, <2>5, FirstIsFound
  <2>7. at = p + 3 BY <2>3, <2>6
  <2> QED BY <2>2, <2>7 DEF Zipj!IsLocalHeader
<1> QED BY <1>5, <1>6

LEMMA ZipNext ==
  ASSUME ZipInv, Zipj!NextSignature
  PROVE  ZipInv'
<1> DEFINE at == Zipj!signature_search(zip_file, zip_pos, <<P, K>>)
<1>0. /\ zip_pc = "archive" /\ zip_file' = zip_file
      /\ \/ /\ at # 0 /\ Zipj!IsLocalHeader(at) /\ zip_pc' = "archive"
            /\ zip_pos' = IF Zipj!HasName(at) THEN at + 4 + Zipj!NameSize(at) ELSE Len(zip_file) + 1
            /\ listing' = IF Zipj!HasName(at) THEN Append(listing, Zipj!Name(at)) ELSE listing
         \/ /\ at = 0 \/ ~ Zipj!IsLocalHeader(at)
            /\ zip_pc' = "done" /\ zip_pos' = zip_pos /\ listing' = listing
  BY DEF Zipj!NextSignature
<1>1. Len(zip_file) \in Nat /\ zip_pos \in 1 .. Len(zip_file) + 1 /\ P # K
  BY Sizes
<1>2. at = 0 \/ at \in Nat \ {0}
  <2>1. at = 0 \/ at \in zip_pos + 2 .. Len(zip_file) + 1
    BY <1>1, SearchType
  <2> HIDE DEF at
  <2> QED BY <1>1, <2>1
<1>3. ZipTypeOK'
  <2>1. zip_pos' \in 1 .. Len(zip_file) + 1
    <3> HIDE DEF at
    <3>1. CASE zip_pos' = zip_pos BY <1>1, <3>1
    <3>2. CASE zip_pos' = Len(zip_file) + 1 BY <1>1, <3>2
    <3>3. CASE at # 0 /\ Zipj!HasName(at) /\ zip_pos' = at + 4 + Zipj!NameSize(at)
      BY <1>2, <3>3, NameType
    <3> QED BY <1>0, <3>1, <3>2, <3>3
  <2> QED BY <1>0, <2>1 DEF ZipInv, ZipTypeOK
<1>4. ASSUME NEW input \in Inputs, zip_file = Zipj!Bytes(input), Zipj!Clean(input)
      PROVE  Walk(input, Off(input))'
  <2> DEFINE N == Len(input.entries)
             o == Off(input)
  <2>1. PICK k \in 0 .. N : Reached(input, o, k)
    BY <1>0, <1>4 DEF ZipInv, Walk
  <2>2. N \in Nat
    BY <1>4, Reading
  <2>3. CASE k = N
    <3>1. at = 0 \/ ~ Zipj!IsLocalHeader(at)
      BY <1>4, <2>1, <2>3, NoHeader
    <3>2. zip_pc' = "done" /\ listing' = Names(input, N)
      <4>1. listing = Names(input, N) BY <2>1, <2>3 DEF Reached
      <4> HIDE DEF at
      <4> QED BY <1>0, <3>1, <4>1
    <3> QED BY <3>2 DEF Walk
  <2>4. CASE k # N
    <3> DEFINE e == input.entries[k + 1]
               q == o[k] + 3
               to == q + 4 + Len(e.name)
    <3>1. k \in 0 .. Len(input.entries) - 1 /\ k \in Nat BY <2>2, <2>4
    <3>2. /\ at = q /\ Zipj!IsLocalHeader(q) /\ Zipj!HasName(q)
          /\ Zipj!NameSize(q) = Len(e.name) /\ Zipj!Name(q) = e.name
          /\ to \in 1 .. o[k + 1] + 1
          /\ None(zip_file, P, K, to, o[k + 1]) /\ (to <= o[k + 1] => zip_file[o[k + 1]] # P)
      BY <1>4, <2>1, <3>1, NextHeader
    <3>3. q # 0
      <4>1. o[k] \in Nat
        <5>1. Layout(input, zip_file, o) BY <1>4, Reading
        <5>2. k \in 0 .. Len(input.entries) BY <2>1
        <5> HIDE DEF o
        <5> QED BY <5>1, <5>2 DEF Layout
      <4> QED BY <4>1
    <3> HIDE DEF at, q
    <3>4. zip_pc' = "archive" /\ zip_pos' = to /\ listing' = Append(listing, e.name)
      BY <1>0, <3>2, <3>3
    <3>5. listing' = Names(input, k + 1)
      <4>1. listing = Names(input, k) BY <2>1 DEF Reached
      <4>2. Append(Names(input, k), e.name) = Names(input, k + 1)
        BY <3>1 DEF Names
      <4> HIDE DEF e
      <4> QED BY <3>4, <4>1, <4>2
    <3>6. Reached(input, o, k + 1)'
      <4> HIDE DEF o, to
      <4> QED BY <1>0, <3>2, <3>4, <3>5 DEF Reached, None
    <3>7. k + 1 \in 0 .. N BY <2>2, <3>1
    <3> HIDE DEF o
    <3> QED BY <3>4, <3>6, <3>7 DEF Walk, o
  <2> QED BY <2>3, <2>4
<1> QED BY <1>0, <1>3, <1>4 DEF ZipInv

LEMMA ZipStep == ZipInv /\ [ToolsNext]_<<tool, zipVars, figVars, treeVars>> => ZipInv'
<1> SUFFICES ASSUME ZipInv, [ToolsNext]_<<tool, zipVars, figVars, treeVars>> PROVE ZipInv'
  OBVIOUS
<1>1. CASE UNCHANGED zipVars
  <2>1. zip_file' = zip_file /\ zip_pos' = zip_pos /\ zip_pc' = zip_pc /\ listing' = listing
    BY <1>1 DEF zipVars
  <2>2. ZipTypeOK' BY <2>1 DEF ZipInv, ZipTypeOK
  <2>3. ASSUME NEW input \in Inputs, Walk(input, Off(input)) PROVE Walk(input, Off(input))'
    BY <2>1, <2>3 DEF Walk, Reached, None
  <2>4. \A input \in Inputs : zip_file = Zipj!Bytes(input) /\ Zipj!Clean(input) => Walk(input, Off(input))
    BY DEF ZipInv
  <2> QED BY <2>1, <2>2, <2>3, <2>4 DEF ZipInv
<1>2. CASE Zipj!Next
  BY <1>2, ZipJpeg, ZipJpegEnd, ZipNext DEF Zipj!Next
<1> QED BY <1>1, <1>2 DEF ToolsNext

\* The search of zipjpeg_test ends at a signature, and does not run past one whose
\* first byte is not repeated, in any file and from wherever it is begun
\* (zipjpeg_test.c:83-103).
THEOREM SearchCorrect == ToolsSpec => []SearchStopsAtSignature
<1>1. ToolsInit => ZipInv
  BY ZipInit DEF ToolsInit
<1>2. ZipInv => SearchStopsAtSignature
  <2> SUFFICES ASSUME ZipInv, NEW s \in Zipj!Range(Zipj!Sought)
               PROVE  LET ends == Zipj!Occurrences(zip_file, zip_pos, s)
                          at == Zipj!signature_search(zip_file, zip_pos, s)
                      IN /\ at # 0 => at - 1 \in ends
                         /\ \A e \in ends : (e - 2 >= zip_pos => zip_file[e-2] # s[1]) => at - 1 \in zip_pos .. e
    BY DEF SearchStopsAtSignature, Zipj!SearchStopsAtSignature
  <2>1. PICK a, b : s = <<a, b>> /\ a # b
    <3>1. s \in {<<FF, D8>>, <<FF, D9>>, <<P, K>>}
      BY DEF Zipj!Range, Zipj!Sought
    <3> QED BY <3>1, Sizes
  <2> DEFINE Ends == OddEnds(zip_file, zip_pos, a, b)
             ends == Zipj!Occurrences(zip_file, zip_pos, s)
             at == Zipj!signature_search(zip_file, zip_pos, s)
  <2>2. s[1] = a /\ s[2] = b
    BY <2>1
  <2>3. Len(zip_file) \in Nat /\ zip_pos \in 1 .. Len(zip_file) + 1
    BY Sizes
  <2>4. (Ends = {} /\ at = 0) \/ (at - 1 \in Ends /\ at \in Nat \ {0} /\ \A e \in Ends : e >= at - 1)
    BY <2>1, <2>3, SearchFinds
  <2>5. ASSUME NEW e \in Ends PROVE e \in ends
    <3>1. e \in zip_pos + 1 .. Len(zip_file) /\ zip_file[e - 1] = a /\ zip_file[e] = b
      BY <2>3, OddEndIs
    <3> QED BY <2>2, <3>1 DEF Zipj!Occurrences
  <2>6. ASSUME NEW e \in ends, e - 2 >= zip_pos => zip_file[e-2] # s[1] PROVE e \in Ends
    <3>1. e \in zip_pos + 1 .. Len(zip_file) /\ zip_file[e - 1] = a /\ zip_file[e] = b
      BY <2>2 DEF Zipj!Occurrences
    <3>2. e - 2 >= zip_pos => zip_file[e - 2] # a
      BY <2>2, <2>6
    <3> QED BY <2>3, <3>1, <3>2, IsOddEnd
  <2>7. \A e \in ends : e \in zip_pos + 1 .. Len(zip_file)
    BY DEF Zipj!Occurrences
  <2> HIDE DEF Ends, ends, at
  <2>8. at # 0 => at - 1 \in ends
    BY <2>4, <2>5
  <2>9. ASSUME NEW e \in ends, e - 2 >= zip_pos => zip_file[e-2] # s[1] PROVE at - 1 \in zip_pos .. e
    <3>1. e \in Ends /\ at - 1 \in Ends /\ e >= at - 1 /\ at \in Nat
      BY <2>4, <2>6, <2>9
    <3>2. at - 1 \in zip_pos + 1 .. Len(zip_file) /\ e \in zip_pos + 1 .. Len(zip_file)
      BY <2>5, <2>7, <3>1
    <3> QED BY <2>3, <3>1, <3>2
  <2> QED BY <2>8, <2>9 DEF ends, at
<1> QED BY <1>1, <1>2, ZipStep, PTL DEF ToolsSpec

\* zipjpeg_test lists all names of a clean archive in order, behind an image or not.
THEOREM ListingCorrect == ToolsSpec => []ArchiveIsListed
<1>1. ToolsInit => ZipInv
  BY ZipInit DEF ToolsInit
<1>2. ZipInv => ArchiveIsListed
  <2> SUFFICES ASSUME ZipInv, zip_pc = "done", NEW input \in Inputs,
                      zip_file = Zipj!Bytes(input), Zipj!Clean(input)
               PROVE  listing = [n \in DOMAIN input.entries |-> input.entries[n].name]
    BY DEF ArchiveIsListed, Zipj!ArchiveIsListed
  <2>1. listing = Names(input, Len(input.entries))
    BY DEF ZipInv, Walk
  <2>2. DOMAIN input.entries = 1 .. Len(input.entries)
    BY Reading
  <2> QED BY <2>1, <2>2 DEF Names
<1> QED BY <1>1, <1>2, ZipStep, PTL DEF ToolsSpec
=============================================================================
