------------------------------ MODULE HashTable ------------------------------
(***************************************************************************)
(* The open addressing hash table of the word counter (hw06/hashtable.c)   *)
(* as wc.c drives it: words are added one after the other; an addition     *)
(* searches a cell by linear probing, stores the word, and doubles the     *)
(* table when no cell is found or when the counter of occupied cells says  *)
(* so.  The loop of hashtable_extend is one step per cell.                 *)
(***************************************************************************)
EXTENDS Integers, FiniteSets

CONSTANTS
  Word,     \* the words; none of them is empty
  NoWord,   \* the word of an empty cell
  hash,     \* the polynomial hash of each word
  InitSize, \* HASHTABLE_SIZE
  MaxAdds   \* bound: words added

ASSUME HashTableAssumption ==
  /\ NoWord \notin Word
  /\ hash \in [Word -> Nat]
  /\ InitSize \in Nat \ {0}
  /\ MaxAdds \in Nat

VARIABLES
  table_pc,  \* idle, searching a cell for the word in hand, or extending
  word,      \* the word in hand
  resume,    \* where the extension returns to
  size,      \* the number of cells
  words,     \* the cells
  occupied,  \* additions since the table was made
  new,       \* the cells of the table being built by hashtable_extend
  next_cell, \* the cell hashtable_extend copies next
  adds,      \* words taken so far, to bound the runs
  taken      \* history, read by no action: how often each word was taken

tableVars == <<table_pc, word, resume, size, words, occupied, new, next_cell, adds, taken>>

TableCell == [word : Word \cup {NoWord}, count : Nat]

EXTEND_FACTOR == 2

\* size * MAX_LOAD_FACTOR, cut to an integer.
max_occupied == (size * 3) \div 4

\* hashtable_new: every cell empty.
NewCells(n) == [k \in 0 .. n - 1 |-> [word |-> NoWord, count |-> 0]]

\* The k-th cell of the probe sequence of w in a table of n cells.
Probe(w, n, k) == (hash[w] + k) % n

\* empty_cell: the cell is free or holds the word already.
empty_cell(cells, w, c) == cells[c].word \in {NoWord, w}

\* The probes that find a cell for w.
Hits(cells, n, w) == {k \in 0 .. n - 1 : empty_cell(cells, w, Probe(w, n, k))}

\* search_word: the cells its loop may return, the first hit or none.
Found(cells, n, w) ==
  {Probe(w, n, k) : k \in {h \in Hits(cells, n, w) :
                             \A g \in Hits(cells, n, w) : h <= g}}

-----------------------------------------------------------------------------
TableInit ==
  /\ table_pc = "idle"
  /\ word = NoWord
  /\ resume = "idle"
  /\ size = InitSize
  /\ words = NewCells(InitSize)
  /\ occupied = 0
  /\ new = NewCells(0)
  /\ next_cell = 0
  /\ adds = 0
  /\ taken = [w \in Word |-> 0]

\* wc.c takes the next word of the file.
Take(w) ==
  /\ table_pc = "idle"
  /\ adds < MaxAdds
  /\ adds' = adds + 1
  /\ taken' = [taken EXCEPT ![w] = @ + 1]
  /\ word' = w
  /\ table_pc' = "search"
  /\ UNCHANGED <<resume, size, words, occupied, new, next_cell>>

\* hashtable_extend starts: an empty table twice the size.
BeginExtend(then) ==
  /\ new' = NewCells(size * EXTEND_FACTOR)
  /\ next_cell' = 0
  /\ resume' = then
  /\ table_pc' = "extend"

\* add_word: the cell takes the word and one more count.
AddWord(c) ==
  words' = [words EXCEPT ![c] = [word |-> word, count |-> @.count + 1]]

\* A cell is found: the word is stored and the additions are counted; at the
\* limit the table is extended before hashtable_add returns.
Store ==
  /\ table_pc = "search"
  /\ \E c \in Found(words, size, word) : AddWord(c)
  /\ occupied' = occupied + 1
  /\ IF occupied' = max_occupied
     THEN BeginExtend("idle")
     ELSE table_pc' = "idle" /\ UNCHANGED <<resume, new, next_cell>>
  /\ UNCHANGED <<word, size, adds, taken>>

\* Mutant of NoCell: the word is given up.
GiveUp ==
  /\ table_pc = "search"
  /\ Found(words, size, word) = {}
  /\ table_pc' = "idle"
  /\ UNCHANGED <<word, resume, size, words, occupied, new, next_cell, adds, taken>>

\* Mutant of NoCell: the table is searched again as it is.
SearchAgain ==
  /\ table_pc = "search"
  /\ Found(words, size, word) = {}
  /\ UNCHANGED tableVars

\* No cell is found: the table is extended and searched again.
NoCell ==
  /\ table_pc = "search"
  /\ Found(words, size, word) = {}
  /\ BeginExtend("search")
  /\ UNCHANGED <<word, size, words, occupied, adds, taken>>

\* Mutant of CopyCell: the word goes to the cell it had in the old table.
CopyInPlace ==
  /\ table_pc = "extend"
  /\ next_cell < size
  /\ new' = [new EXCEPT ![next_cell] = words[next_cell]]
  /\ next_cell' = next_cell + 1
  /\ UNCHANGED <<table_pc, word, resume, size, words, occupied, adds, taken>>

\* The loop of hashtable_extend: a filled cell goes to its place in the new table
\* with its count.
CopyCell ==
  /\ table_pc = "extend"
  /\ next_cell < size
  /\ IF words[next_cell].word = NoWord
     THEN UNCHANGED new
     ELSE \E c \in Found(new, size * EXTEND_FACTOR, words[next_cell].word) :
            new' = [new EXCEPT ![c] = words[next_cell]]
  /\ next_cell' = next_cell + 1
  /\ UNCHANGED <<table_pc, word, resume, size, words, occupied, adds, taken>>

\* Mutant of EndExtend: the number of cells is not brought up to date.
EndExtendOldSize ==
  /\ table_pc = "extend"
  /\ next_cell = size
  /\ words' = new
  /\ new' = NewCells(0)
  /\ occupied' = 0
  /\ table_pc' = resume
  /\ UNCHANGED <<word, resume, size, next_cell, adds, taken>>

\* The new table replaces the old one; its additions start from none.
EndExtend ==
  /\ table_pc = "extend"
  /\ next_cell = size
  /\ size' = size * EXTEND_FACTOR
  /\ words' = new
  /\ new' = NewCells(0)
  /\ occupied' = 0
  /\ table_pc' = resume
  /\ UNCHANGED <<word, resume, next_cell, adds, taken>>

Step == Store \/ NoCell \/ CopyCell \/ EndExtend

TableNext == Step \/ \E w \in Word : Take(w)

TableSpec == TableInit /\ [][TableNext]_tableVars

-----------------------------------------------------------------------------
\* Type invariant of the table and of the extension.
TableTypeOK ==
  /\ table_pc \in {"idle", "search", "extend"}
  /\ word \in Word \cup {NoWord}
  /\ resume \in {"idle", "search"}
  /\ size \in Nat \ {0}
  /\ words \in [0 .. size - 1 -> TableCell]
  /\ occupied \in Nat
  /\ new \in [0 .. (IF table_pc = "extend" THEN size * EXTEND_FACTOR ELSE 0) - 1 -> TableCell]
  /\ next_cell \in 0 .. size
  /\ adds \in 0 .. MaxAdds
  /\ taken \in [Word -> Nat]

\* Every word of a table of n cells is where the search for it ends: every cell of
\* its probe sequence before it is taken, by another word.
Reachable(cells, n) ==
  \A c \in 0 .. n - 1 :
    cells[c].word # NoWord => Found(cells, n, cells[c].word) = {c}

\* No word is stored twice and none is out of the search's reach, in the table and
\* in the one an extension builds (hashtable.c:107-130, 180-199).
EveryWordIsFound ==
  /\ Reachable(words, size)
  /\ table_pc = "extend" => Reachable(new, size * EXTEND_FACTOR)

\* How often the table says w occurs.
CountOf(w) ==
  IF \E c \in 0 .. size - 1 : words[c].word = w
  THEN words[CHOOSE c \in 0 .. size - 1 : words[c].word = w].count
  ELSE 0

\* The word in hand has not reached the table yet.
Unstored(w) ==
  w = word /\ (table_pc = "search" \/ (table_pc = "extend" /\ resume = "search"))

\* The table says of every word how often it was taken from the file, the one in
\* hand left out: collisions, wrap-around and extensions lose no occurrence and
\* make none up (hashtable.c:86-105, 171-199).
CountsAreRight ==
  \A w \in Word : taken[w] = CountOf(w) + (IF Unstored(w) THEN 1 ELSE 0)

\* hashtable_add returns: an extension always makes room (hashtable.c:91-94).
AddReturns == table_pc = "search" ~> table_pc = "idle"
=============================================================================
