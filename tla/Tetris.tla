------------------------------- MODULE Tetris -------------------------------
(***************************************************************************)
(* The game logic of hw35/tetris.c: a block that the keys move and time    *)
(* lets fall, put_block, and delete_row, which scans the board upwards in  *)
(* place.  Keys, time and the next kind are free; colours, drawing, sound  *)
(* and the score are left out.                                             *)
(***************************************************************************)
EXTENDS Integers, FiniteSets, Sequences

CONSTANTS
  BOX_W, BOX_H,            \* the size of the board
  START_X,                 \* the column where a block appears
  KEY_PERIOD, FALL_PERIOD, \* frames between two looks at the keys, two falls
  Kinds                    \* the kinds of blocks that appear

ASSUME TetrisAssumption ==
  /\ {BOX_W, BOX_H, KEY_PERIOD, FALL_PERIOD} \subseteq Nat \ {0}
  /\ BOX_H > 4
  /\ START_X \in Nat
  /\ START_X + 4 <= BOX_W
  /\ Kinds # {} /\ Kinds \subseteq 1..7

VARIABLES
  tetris_pc, \* "play", "scan", "new", or one of the ends: "over", "corrupt"
  map,       \* the occupied cells
  block,     \* the current block: its kind, rotation, and place
  frames,    \* counts ticks, modulo the two periods
  row,       \* i of delete_row
  final,     \* put_block was called by the end of sprites_update
  still_playing

tetrisVars == <<tetris_pc, map, block, frames, row, final, still_playing>>

Cell == (0 .. BOX_W-1) \X (0 .. BOX_H-1)
Column == 0 .. BOX_W-1
Key == {"LEFT", "RIGHT", "UP", "SPACE", "DOWN"}
Period == KEY_PERIOD * FALL_PERIOD
Block == [kind : 1..7, rot : 0..3, x : Int, y : Int]

-----------------------------------------------------------------------------
(***************************************************************************)
(* Blocks                                                                  *)
(***************************************************************************)
\* made_block: the cells of each kind and rotation, cell <<x, y>> as 10x + y.
Digits == <<
  << {10, 20, 1, 11}, {0, 1, 11, 12}, {10, 20, 1, 11}, {0, 1, 11, 12} >>,
  << {0, 10, 1, 11}, {0, 10, 1, 11}, {0, 10, 1, 11}, {0, 10, 1, 11} >>,
  << {0, 10, 20, 11}, {10, 1, 11, 12}, {10, 1, 11, 21}, {0, 1, 11, 2} >>,
  << {0, 10, 11, 21}, {10, 1, 11, 2}, {0, 10, 11, 21}, {10, 1, 11, 2} >>,
  << {0, 10, 20, 1}, {0, 10, 11, 12}, {20, 1, 11, 21}, {0, 1, 2, 12} >>,
  << {0, 10, 20, 21}, {10, 11, 2, 12}, {0, 1, 11, 21}, {0, 10, 1, 2} >>,
  << {0, 10, 20, 30}, {10, 11, 12, 13}, {0, 10, 20, 30}, {10, 11, 12, 13} >> >>

Cells(b) == { <<b.x + (d \div 10), b.y + (d % 10)>> : d \in Digits[b.kind][b.rot + 1] }

block_fit(b) == Cells(b) \subseteq Cell \ map

Shifted(b, dx, dy) == [b EXCEPT !.x = @ + dx, !.y = @ + dy]
Rotated(b) == [b EXCEPT !.rot = (@ + 1) % 4]

\* A move that would not fit is taken back.
Try(b, moved) == IF block_fit(moved) THEN moved ELSE b

\* SPACE: down as long as the block fits, then one up.
Drops(b) == { Shifted(b, 0, n - 1) : n \in
  { n \in 0..BOX_H : /\ \A m \in 0 .. n-1 : block_fit(Shifted(b, 0, m))
                     /\ ~ block_fit(Shifted(b, 0, n)) } }

-----------------------------------------------------------------------------
(***************************************************************************)
(* Rows                                                                    *)
(***************************************************************************)
Full(r) == \A c \in Column : <<c, r>> \in map

\* Mutant of Deleted: the rows above stay where they are.
DeletedOnly(r) == { p \in map : p[2] # r }

\* Mutant of Deleted: for (j = i; j >= 2; j--)
DeletedToSecond(r) == { p \in Cell : IF p[2] \in 2..r THEN <<p[1], p[2] - 1>> \in map
                                                      ELSE p \in map }

\* The rows above r move down by one; row 0 stays as well.
Deleted(r) == { p \in Cell : IF p[2] \in 1..r THEN <<p[1], p[2] - 1>> \in map
                                              ELSE p \in map }

\* map[k][BOX_H] is map[k + 1][0]; after the last column comes other memory.
MayBeFullBelow == \A c \in Column \ {0} : <<c, 0>> \in map

-----------------------------------------------------------------------------
(***************************************************************************)
(* The program                                                             *)
(***************************************************************************)
TetrisInit ==
  /\ map = {}
  /\ block \in [kind : Kinds, rot : {0}, x : {START_X}, y : {0}]
  /\ still_playing = TRUE
  /\ tetris_pc = "play" /\ frames = 0 /\ row = 0 /\ final = FALSE

\* put_block(), up to the scan of the lowest row
put_block(b, last) ==
  /\ map' = map \cup Cells(b)
  /\ block' = b
  /\ tetris_pc' = "scan" /\ row' = BOX_H - 1 /\ final' = last
  /\ UNCHANGED still_playing

\* Mutant of Keyed: RIGHT is not taken back.
KeyedPushing(keys) ==
  LET l == IF "LEFT" \in keys THEN Try(block, Shifted(block, -1, 0)) ELSE block
      r == IF "RIGHT" \in keys THEN Shifted(l, 1, 0) ELSE l
      u == IF "UP" \in keys THEN Try(r, Rotated(r)) ELSE r
      s == IF "SPACE" \in keys THEN Drops(u) ELSE {u}
  IN IF "DOWN" \in keys THEN { Try(b, Shifted(b, 0, 1)) : b \in s } ELSE s

\* The keys held down, in the order in which sprites_update looks at them
Keyed(keys) ==
  LET l == IF "LEFT" \in keys THEN Try(block, Shifted(block, -1, 0)) ELSE block
      r == IF "RIGHT" \in keys THEN Try(l, Shifted(l, 1, 0)) ELSE l
      u == IF "UP" \in keys THEN Try(r, Rotated(r)) ELSE r
      s == IF "SPACE" \in keys THEN Drops(u) ELSE {u}
  IN IF "DOWN" \in keys THEN { Try(b, Shifted(b, 0, 1)) : b \in s } ELSE s

Falls == frames % FALL_PERIOD = 0

\* The block has come to rest: if (!block_fit()) { block_y--; put_block(); ...
Land(b) == Falls /\ ~ block_fit(Shifted(b, 0, 1)) /\ put_block(b, FALSE)

\* The end of sprites_update: a block that does not fit is put all the same.
Stay(b) ==
  LET c == IF Falls THEN Shifted(b, 0, 1) ELSE b IN
  /\ Falls => block_fit(c)
  /\ IF block_fit(c) THEN block' = c /\ UNCHANGED <<tetris_pc, map, row, final, still_playing>>
                     ELSE put_block(c, TRUE)

Tick ==
  /\ tetris_pc = "play"
  /\ frames' = (frames + 1) % Period
  /\ \E keys \in SUBSET Key :
       \E b \in IF frames % KEY_PERIOD = 0 THEN Keyed(keys) ELSE {block} :
         Land(b) \/ Stay(b)

\* delete_row: a row that is not full; above row 0 the scan ends
PassRow ==
  /\ tetris_pc = "scan" /\ row < BOX_H /\ ~ Full(row)
  /\ IF row = 0 THEN tetris_pc' = "new" /\ UNCHANGED row
                ELSE row' = row - 1 /\ UNCHANGED tetris_pc
  /\ UNCHANGED <<map, block, frames, final, still_playing>>

\* Mutant of ClearRow: i += 2 in a loop that does not count down
ClearRowTwo ==
  /\ tetris_pc = "scan" /\ row < BOX_H /\ Full(row)
  /\ map' = Deleted(row)
  /\ row' = row + 2
  /\ UNCHANGED <<tetris_pc, block, frames, final, still_playing>>

\* Mutant of ClearRow: no i += 2
ClearRowGoOn ==
  /\ tetris_pc = "scan" /\ row < BOX_H /\ Full(row)
  /\ map' = Deleted(row)
  /\ IF row = 0 THEN tetris_pc' = "new" /\ UNCHANGED row
                ELSE row' = row - 1 /\ UNCHANGED tetris_pc
  /\ UNCHANGED <<block, frames, final, still_playing>>

\* i += 2, then i-- of the loop: the next row looked at is the one below.
ClearRow ==
  /\ tetris_pc = "scan" /\ row < BOX_H /\ Full(row)
  /\ map' = Deleted(row)
  /\ row' = row + 1
  /\ UNCHANGED <<tetris_pc, block, frames, final, still_playing>>

\* After the lowest row was cleared, the scan looks below the board.
PassBelow ==
  /\ tetris_pc = "scan" /\ row = BOX_H
  /\ \/ row' = row - 1 /\ UNCHANGED tetris_pc
     \/ MayBeFullBelow /\ tetris_pc' = "corrupt" /\ UNCHANGED row
  /\ UNCHANGED <<map, block, frames, final, still_playing>>

\* Mutant of new_block: the game goes on with a block that does not fit.
new_block_go_on ==
  /\ tetris_pc = "new"
  /\ block' \in [kind : Kinds, rot : {0}, x : {START_X}, y : {0}]
  /\ tetris_pc' = "play"
  /\ UNCHANGED <<map, row, final, frames, still_playing>>

new_block ==
  /\ tetris_pc = "new"
  /\ block' \in [kind : Kinds, rot : {0}, x : {START_X}, y : {0}]
  /\ still_playing' = (still_playing /\ block_fit(block'))
  /\ IF final \/ block_fit(block')
       THEN /\ tetris_pc' = IF still_playing' THEN "play" ELSE "over"
            /\ UNCHANGED <<map, row, final>>
       ELSE /\ map' = map \cup Cells(block')
            /\ tetris_pc' = "scan" /\ row' = BOX_H - 1 /\ final' = TRUE
  /\ UNCHANGED frames

\* ESCAPE, or the window is closed.
Quit ==
  tetris_pc = "play" /\ tetris_pc' = "over" /\ UNCHANGED <<map, block, frames, row, final, still_playing>>

Scan == PassRow \/ ClearRow \/ PassBelow
TetrisNext == Tick \/ Scan \/ new_block \/ Quit

TetrisSpec == TetrisInit /\ [][TetrisNext]_tetrisVars

\* The timer ticks for ever, and the handler of a tick runs on.
TetrisFairness ==
  WF_tetrisVars(Tick) /\ WF_tetrisVars(Scan) /\ WF_tetrisVars(new_block)

-----------------------------------------------------------------------------
(***************************************************************************)
(* Properties                                                              *)
(***************************************************************************)
TetrisTypeOK ==
  /\ tetris_pc \in {"play", "scan", "new", "over", "corrupt"}
  /\ map \subseteq Cell
  /\ block \in Block
  /\ frames \in 0 .. Period-1
  /\ row \in 0..BOX_H
  /\ final \in BOOLEAN /\ still_playing \in BOOLEAN

\* The block of a game that goes on fits.
BlockFits == tetris_pc = "play" => block_fit(block)

\* Whatever keys, rotations, drops and falls follow one another, a block is put
\* on free cells of the board only, until a new one finds no place.
PutTakesFreeCells == [][tetris_pc = "play" /\ tetris_pc' = "scan" => block_fit(block')]_tetrisVars

\* A scan that ends leaves no full row, although rows move while it looks.
NoFullRowRemains == tetris_pc = "new" => \A r \in 0 .. BOX_H-1 : ~ Full(r)

\* The lookup below the board (i is 20) never finds a full row there.
BelowIsNeverFull == tetris_pc # "corrupt"

\* Reference: full rows vanish, every other row sinks by those below it.
Collapsed == { <<p[1], p[2] + Cardinality({ r \in p[2] .. BOX_H-1 : Full(r) })>> :
               p \in { q \in map : ~ Full(q[2]) } }

\* While the top row is empty, deleting rows one by one in place comes to what
\* deleting all full rows at once would.
ScanCollapses ==
  [][tetris_pc = "scan" /\ (\A c \in Column : <<c, 0>> \notin map)
       => Collapsed' = Collapsed]_tetrisVars

\* Keys cannot keep a block up for ever, and every scan of the rows ends: the
\* next block comes or the game is over, unless the top row is full.  Nothing
\* is above to take its place, and delete_row would look at it for ever.
NextBlockComes == tetris_pc \in {"play", "scan"} ~> tetris_pc \in {"new", "over"} \/ Full(0)
=============================================================================
