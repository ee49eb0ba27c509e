--------------------------- MODULE WordCounterProofs ---------------------------
(***************************************************************************)
(* What is proved of the word counter.  Of HashTable.tla, for every set of *)
(* words, every hash, and every initial size: no word is stored twice or   *)
(* out of the search's reach and every count is right.  Of                 *)
(* WordCounter.tla, for every text: the reader gives the table words only, *)
(* so that all this holds of the counter, and what it has counted at the   *)
(* end are the words of the text that fit into its buffer.                 *)
(***************************************************************************)
EXTENDS WordCounter, FiniteSetTheorems, SequenceTheorems, TLAPS

-----------------------------------------------------------------------------
(***************************************************************************)
(* The hash table                                                          *)
(***************************************************************************)
\* A table of n cells as far as the proofs look into it.
Table(cells, n) == n \in Nat \ {0} /\ cells \in [0 .. n - 1 -> TableCell]

\* The probes that hit a cell and are the first to do so.
First(cells, n, w) ==
  {h \in Hits(cells, n, w) : \A g \in Hits(cells, n, w) : h <= g}

-----------------------------------------------------------------------------
LEMMA ProbeRange ==
  ASSUME NEW w \in Word, NEW n \in Nat \ {0}, NEW k \in 0 .. n - 1
  PROVE  Probe(w, n, k) \in 0 .. n - 1
<1>1. hash[w] \in Nat
  BY HashTableAssumption
<1>2. hash[w] + k \in Nat
  BY <1>1
<1> QED
  BY <1>2 DEF Probe

\* The search ends at a cell of the table that is free or holds the word.
LEMMA FoundCell ==
  ASSUME NEW cells, NEW n, Table(cells, n), NEW w \in Word,
         NEW c \in Found(cells, n, w)
  PROVE  /\ c \in 0 .. n - 1
         /\ empty_cell(cells, w, c)
         /\ \E k \in First(cells, n, w) : c = Probe(w, n, k)
BY ProbeRange DEF Found, First, Hits, Table

\* The search is a function of the table and the word.
LEMMA FoundUnique ==
  ASSUME NEW cells, NEW n, Table(cells, n), NEW w,
         NEW c \in Found(cells, n, w)
  PROVE  Found(cells, n, w) = {c}
<1>1. \A g, h \in First(cells, n, w) : g = h
  BY DEF First, Hits, Table
<1> QED
  BY <1>1 DEF Found, First

\* Two cells never hold the same word when every word is where its search ends.
LEMMA NoDuplicates ==
  ASSUME NEW cells, NEW n, Reachable(cells, n),
         NEW c \in 0 .. n - 1, NEW d \in 0 .. n - 1,
         cells[c].word # NoWord, cells[d].word = cells[c].word
  PROVE  c = d
BY DEF Reachable

\* Filling the cell where the search for a word ends with that word keeps every
\* word where its search ends.
LEMMA FillReachable ==
  ASSUME NEW cells, NEW n, Table(cells, n), Reachable(cells, n),
         NEW w \in Word, NEW c \in Found(cells, n, w),
         NEW x \in TableCell, x.word = w
  PROVE  Reachable([cells EXCEPT ![c] = x], n)
<1> DEFINE filled == [cells EXCEPT ![c] = x]
<1>1. c \in 0 .. n - 1 /\ cells[c].word \in {NoWord, w}
  BY FoundCell DEF empty_cell
<1>2. Table(filled, n)
  BY <1>1 DEF Table
<1>3. /\ filled[c].word = w
      /\ \A d \in 0 .. n - 1 : d # c => filled[d] = cells[d]
  BY <1>1 DEF Table
<1>4. ASSUME NEW d \in 0 .. n - 1, filled[d].word # NoWord
      PROVE  Found(filled, n, filled[d].word) = {d}
  <2> DEFINE v == filled[d].word
  <2>1. v \in Word
    BY <1>2, <1>4 DEF Table, TableCell
  <2>2. \A k \in 0 .. n - 1 : Probe(v, n, k) \in 0 .. n - 1
    BY <2>1, ProbeRange DEF Table
  <2>3. d \in Found(cells, n, v)
    <3>1. CASE d = c
      BY <1>3, <3>1
    <3>2. CASE d # c
      BY <1>3, <1>4, <3>2 DEF Reachable
    <3> QED
      BY <3>1, <3>2
  <2>4. PICK k \in First(cells, n, v) : d = Probe(v, n, k)
    BY <2>1, <2>3, FoundCell
  <2>5. k \in Hits(filled, n, v)
    BY <2>4, <1>4 DEF First, Hits, empty_cell
  <2>6. Hits(filled, n, v) \subseteq Hits(cells, n, v)
    <3> SUFFICES ASSUME NEW h \in Hits(filled, n, v) PROVE h \in Hits(cells, n, v)
      OBVIOUS
    <3>1. h \in 0 .. n - 1 /\ filled[Probe(v, n, h)].word \in {NoWord, v}
      BY DEF Hits, empty_cell
    <3>2. CASE Probe(v, n, h) = c
      <4>1. v = w
        BY <3>1, <3>2, <1>3, HashTableAssumption
      <4> QED
        BY <3>1, <3>2, <4>1, <1>1 DEF Hits, empty_cell
    <3>3. CASE Probe(v, n, h) # c
      BY <3>1, <3>3, <2>2, <1>3 DEF Hits, empty_cell
    <3> QED
      BY <3>2, <3>3
  <2>7. k \in First(filled, n, v)
    BY <2>4, <2>5, <2>6 DEF First
  <2>8. d \in Found(filled, n, v)
    BY <2>4, <2>7 DEF Found, First
  <2> QED
    BY <1>2, <2>8, FoundUnique
<1> QED
  BY <1>4 DEF Reachable

LEMMA NewCellsTable ==
  ASSUME NEW n \in Nat \ {0}
  PROVE  /\ Table(NewCells(n), n)
         /\ Reachable(NewCells(n), n)
         /\ \A c \in 0 .. n - 1 : NewCells(n)[c] = [word |-> NoWord, count |-> 0]
BY DEF NewCells, Table, TableCell, Reachable

\* The count of a word that is in the table is that of its only cell.
LEMMA CountOfStored ==
  ASSUME Reachable(words, size), NEW w \in Word,
         NEW c \in 0 .. size - 1, words[c].word = w
  PROVE  CountOf(w) = words[c].count
<1> DEFINE d == CHOOSE e \in 0 .. size - 1 : words[e].word = w
<1>1. d \in 0 .. size - 1 /\ words[d].word = w
  OBVIOUS
<1>2. d = c
  BY <1>1, HashTableAssumption DEF Reachable
<1> QED
  BY <1>2 DEF CountOf

LEMMA CountOfAbsent ==
  ASSUME NEW w, \A c \in 0 .. size - 1 : words[c].word # w
  PROVE  CountOf(w) = 0
BY DEF CountOf

LEMMA CountNat == ASSUME TableTypeOK, NEW w PROVE CountOf(w) \in Nat
<1>1. CASE \E c \in 0 .. size - 1 : words[c].word = w
  <2>1. (CHOOSE c \in 0 .. size - 1 : words[c].word = w) \in 0 .. size - 1
    BY <1>1
  <2> QED
    BY <1>1, <2>1 DEF CountOf, TableTypeOK, TableCell
<1>2. CASE ~\E c \in 0 .. size - 1 : words[c].word = w
  BY <1>2 DEF CountOf
<1> QED
  BY <1>1, <1>2

-----------------------------------------------------------------------------
\* The extension under way: the new table holds the words of the cells before i,
\* with their counts, and nothing else.
Copied ==
  /\ \A d \in 0 .. size * EXTEND_FACTOR - 1 :
       new[d].word # NoWord => \E c \in 0 .. next_cell - 1 : new[d] = words[c]
  /\ \A c \in 0 .. next_cell - 1 :
       words[c].word # NoWord =>
         \E d \in 0 .. size * EXTEND_FACTOR - 1 : new[d] = words[c]

\* A word is in hand whenever one is to be stored.
InHand == table_pc = "search" \/ (table_pc = "extend" /\ resume = "search") => word \in Word

\* A cell without a word has no count.
Clean(cells, n) == \A c \in 0 .. n - 1 : cells[c].word = NoWord => cells[c].count = 0

\* The inductive invariant.
IInv ==
  /\ TableTypeOK
  /\ InHand
  /\ EveryWordIsFound
  /\ Clean(words, size)
  /\ table_pc = "extend" => Copied /\ Clean(new, size * EXTEND_FACTOR)
  /\ CountsAreRight

LEMMA InitIInv == TableInit => IInv
<1> SUFFICES ASSUME TableInit PROVE IInv
  OBVIOUS
<1> USE DEF TableInit
<1>1. /\ words \in [0 .. size - 1 -> TableCell]
      /\ Reachable(words, size)
      /\ \A c \in 0 .. size - 1 : words[c] = [word |-> NoWord, count |-> 0]
  BY NewCellsTable, HashTableAssumption DEF Table
<1>2. new \in [0 .. 0 - 1 -> TableCell]
  BY DEF NewCells, TableCell
<1>3. TableTypeOK
  BY <1>1, <1>2, HashTableAssumption DEF TableTypeOK
<1>4. InHand /\ EveryWordIsFound /\ Clean(words, size) /\ table_pc # "extend"
  BY <1>1 DEF InHand, EveryWordIsFound, Clean
<1>5. ASSUME NEW w \in Word PROVE CountOf(w) = 0 /\ ~Unstored(w)
  BY <1>1, CountOfAbsent, HashTableAssumption DEF Unstored
<1>6. CountsAreRight
  BY <1>5 DEF CountsAreRight
<1> QED
  BY <1>3, <1>4, <1>6 DEF IInv

\* A word is taken: nothing is stored yet.
LEMMA TakeStep == ASSUME IInv, NEW w \in Word, Take(w) PROVE IInv'
<1> USE DEF IInv, Take
<1>1. TableTypeOK'
  BY HashTableAssumption DEF TableTypeOK
<1>2. InHand' /\ EveryWordIsFound' /\ table_pc' # "extend"
  BY DEF InHand, EveryWordIsFound, Reachable
<1>3. ASSUME NEW v \in Word PROVE CountOf(v)' = CountOf(v)
  BY DEF CountOf
<1>4. ASSUME NEW v \in Word
      PROVE  taken'[v] = CountOf(v)' + (IF Unstored(v)' THEN 1 ELSE 0)
  <2>1. taken[v] = CountOf(v)
    BY CountNat DEF CountsAreRight, Unstored
  <2>2. Unstored(v)' <=> v = w
    BY DEF Unstored
  <2>3. taken'[v] = taken[v] + (IF v = w THEN 1 ELSE 0)
    BY DEF TableTypeOK
  <2>4. CountOf(v)' = taken[v]
    BY <1>3, <2>1
  <2> QED
    BY <2>2, <2>3, <2>4
<1>5. CountsAreRight'
  BY <1>4 DEF CountsAreRight
<1>6. Clean(words, size)'
  BY DEF Clean
<1> QED
  BY <1>1, <1>2, <1>5, <1>6

\* An extension starts from an empty table.
LEMMA BeginStep ==
  ASSUME TableTypeOK, NEW then, BeginExtend(then), size' = size
  PROVE  /\ new' \in [0 .. size * EXTEND_FACTOR - 1 -> TableCell]
         /\ Reachable(new', size * EXTEND_FACTOR)
         /\ Copied'
         /\ Clean(new', size * EXTEND_FACTOR)
<1>1. size * EXTEND_FACTOR \in Nat \ {0}
  BY DEF TableTypeOK, EXTEND_FACTOR
<1>2. /\ Table(new', size * EXTEND_FACTOR)
      /\ Reachable(new', size * EXTEND_FACTOR)
      /\ \A c \in 0 .. size * EXTEND_FACTOR - 1 :
           new'[c] = [word |-> NoWord, count |-> 0]
  BY <1>1, NewCellsTable DEF BeginExtend
<1>3. next_cell' = 0
  BY DEF BeginExtend
<1> QED
  BY <1>2, <1>3 DEF Table, Copied, Clean

\* The word in hand is stored: its count, and no other, goes up.
LEMMA StoreStep ==
  ASSUME IInv, Store
  PROVE  /\ IInv'
         /\ word \in Word
         /\ \A v \in Word :
              CountOf(v)' = CountOf(v) + (IF v = word THEN 1 ELSE 0)
<1> USE DEF IInv
<1>1. PICK c \in Found(words, size, word) : AddWord(c)
  BY DEF Store
<1>2. word \in Word /\ Table(words, size) /\ table_pc = "search"
  BY DEF Store, InHand, TableTypeOK, Table
<1>3. c \in 0 .. size - 1 /\ words[c].word \in {NoWord, word}
  BY <1>2, FoundCell DEF empty_cell
<1>4. UNCHANGED <<word, size, adds, taken>>
  BY DEF Store
<1> DEFINE x == [word |-> word, count |-> words[c].count + 1]
<1>5. x \in TableCell /\ x.word = word
  BY <1>2, <1>3 DEF Table, TableCell
<1>6. words' = [words EXCEPT ![c] = x]
  BY <1>1, <1>3, <1>2 DEF AddWord, Table
<1>7. Table(words', size) /\ Reachable(words', size)
  <2>1. Reachable(words, size)
    BY DEF EveryWordIsFound
  <2>2. Table(words', size)
    BY <1>2, <1>3, <1>5, <1>6 DEF Table
  <2>3. Reachable([words EXCEPT ![c] = x], size)
    BY <1>2, <1>5, <2>1, FillReachable
  <2> QED
    BY <2>2, <2>3, <1>6
<1>8. Clean(words', size)
  BY <1>2, <1>3, <1>5, <1>6, HashTableAssumption DEF Table, Clean
<1>9. /\ TableTypeOK' /\ InHand' /\ EveryWordIsFound'
      /\ table_pc' = "extend" => Copied' /\ Clean(new', size * EXTEND_FACTOR)
  <2>1. CASE table_pc' = "idle" /\ UNCHANGED <<resume, new, next_cell>>
    BY <2>1, <1>2, <1>4, <1>7 DEF Store, TableTypeOK, EveryWordIsFound, InHand, Table
  <2>2. CASE BeginExtend("idle")
    <3>1. /\ new' \in [0 .. size * EXTEND_FACTOR - 1 -> TableCell]
          /\ Reachable(new', size * EXTEND_FACTOR)
          /\ Copied'
          /\ Clean(new', size * EXTEND_FACTOR)
      BY <2>2, <1>4, BeginStep
    <3>2. table_pc' = "extend" /\ next_cell' = 0 /\ resume' = "idle"
      BY <2>2 DEF BeginExtend
    <3> QED
      BY <3>1, <3>2, <1>4, <1>7, <1>2 DEF Store, TableTypeOK, EveryWordIsFound, InHand, Table
  <2> QED
    BY <2>1, <2>2 DEF Store
<1>10. ASSUME NEW v \in Word, v = word PROVE CountOf(v)' = CountOf(v) + 1
  <2>1. words'[c].word = v /\ words'[c].count = words[c].count + 1
    BY <1>6, <1>3, <1>2, <1>10 DEF Table
  <2>2. CountOf(v)' = words'[c].count
    <3>1. \A d \in 0 .. size - 1 : words'[d].word = v => d = c
      BY <1>7, <2>1, <1>2, <1>3, HashTableAssumption DEF Reachable
    <3> QED
      BY <2>1, <3>1, <1>3, <1>4 DEF CountOf
  <2>3. CountOf(v) = words[c].count
    <3>1. CASE words[c].word = v
      BY <3>1, <1>2, <1>3, CountOfStored DEF EveryWordIsFound
    <3>2. CASE words[c].word = NoWord
      <4>1. ASSUME NEW d \in 0 .. size - 1 PROVE words[d].word # v
        BY <3>2, <1>1, <1>2, <1>10, HashTableAssumption DEF EveryWordIsFound, Reachable
      <4>2. words[c].count = 0
        BY <3>2, <1>3 DEF Clean
      <4> QED
        BY <4>1, <4>2, CountOfAbsent
    <3> QED
      BY <3>1, <3>2, <1>3, <1>10
  <2> QED
    BY <2>1, <2>2, <2>3
<1>11. ASSUME NEW v \in Word, v # word PROVE CountOf(v)' = CountOf(v)
  <2>1. \A d \in 0 .. size - 1 :
          /\ words'[d].word = v <=> words[d].word = v
          /\ words[d].word = v => words'[d] = words[d]
    BY <1>2, <1>3, <1>5, <1>6, <1>11, HashTableAssumption DEF Table
  <2>2. CASE \E d \in 0 .. size - 1 : words[d].word = v
    <3>1. PICK d \in 0 .. size - 1 : words[d].word = v
      BY <2>2
    <3>2. CountOf(v) = words[d].count
      BY <3>1, CountOfStored DEF EveryWordIsFound
    <3>3. \A e \in 0 .. size - 1 : words'[e].word = v => e = d
      BY <1>7, <2>1, <3>1, HashTableAssumption DEF Reachable
    <3>4. CountOf(v)' = words'[d].count
      BY <1>4, <2>1, <3>1, <3>3 DEF CountOf
    <3> QED
      BY <2>1, <3>1, <3>2, <3>4
  <2>3. CASE \A d \in 0 .. size - 1 : words[d].word # v
    BY <1>4, <2>1, <2>3 DEF CountOf
  <2> QED
    BY <2>2, <2>3
<1>12. CountsAreRight'
  <2> SUFFICES ASSUME NEW v \in Word
               PROVE  taken'[v] = CountOf(v)' + (IF Unstored(v)' THEN 1 ELSE 0)
    BY DEF CountsAreRight
  <2>1. /\ ~Unstored(v)'
        /\ Unstored(v) <=> v = word
    BY <1>2, <1>4 DEF Store, BeginExtend, Unstored
  <2>2. taken'[v] = CountOf(v) + (IF v = word THEN 1 ELSE 0)
    BY <1>4, <2>1 DEF CountsAreRight
  <2>3. CountOf(v) \in Nat
    BY CountNat
  <2>4. CountOf(v)' = CountOf(v) + (IF v = word THEN 1 ELSE 0)
    BY <1>10, <1>11, <2>3
  <2> QED
    BY <2>1, <2>2, <2>3, <2>4
<1>13. ASSUME NEW v \in Word
       PROVE  CountOf(v)' = CountOf(v) + (IF v = word THEN 1 ELSE 0)
  BY <1>10, <1>11, CountNat
<1> QED
  BY <1>2, <1>4, <1>8, <1>9, <1>12, <1>13

\* The count of a word is the same in two states with the same cells.
LEMMA SameCounts ==
  ASSUME UNCHANGED <<words, size>>
  PROVE  \A v \in Word : CountOf(v)' = CountOf(v)
BY DEF CountOf

\* No cell is found: an extension starts and the word stays in hand.
LEMMA NoCellStep ==
  ASSUME IInv, NoCell
  PROVE  IInv' /\ \A v \in Word : CountOf(v)' = CountOf(v)
<1> USE DEF IInv, NoCell
<1>1. /\ new' \in [0 .. size * EXTEND_FACTOR - 1 -> TableCell]
      /\ Reachable(new', size * EXTEND_FACTOR)
      /\ Copied'
      /\ Clean(new', size * EXTEND_FACTOR)
  BY BeginStep
<1>2. table_pc = "search" /\ table_pc' = "extend" /\ next_cell' = 0 /\ resume' = "search"
  BY DEF BeginExtend
<1>3. TableTypeOK'
  BY <1>1, <1>2 DEF TableTypeOK
<1>4. InHand' /\ EveryWordIsFound' /\ Clean(words, size)'
  BY <1>1, <1>2 DEF InHand, EveryWordIsFound, Reachable, Clean
<1>5. CountsAreRight'
  <2> SUFFICES ASSUME NEW v \in Word
               PROVE  taken'[v] = CountOf(v)' + (IF Unstored(v)' THEN 1 ELSE 0)
    BY DEF CountsAreRight
  <2>1. Unstored(v)' <=> Unstored(v)
    BY <1>2 DEF Unstored
  <2> QED
    BY <2>1, SameCounts DEF CountsAreRight
<1> QED
  BY <1>1, <1>2, <1>3, <1>4, <1>5, SameCounts

\* A cell is copied to where the search for its word ends in the new table.
LEMMA CopyStep ==
  ASSUME IInv, CopyCell
  PROVE  IInv' /\ \A v \in Word : CountOf(v)' = CountOf(v)
<1> USE DEF IInv, CopyCell
<1> DEFINE n == size * EXTEND_FACTOR
<1>1. n \in Nat \ {0} /\ size \in Nat /\ next_cell \in 0 .. size - 1 /\ next_cell' = next_cell + 1
  BY DEF TableTypeOK, EXTEND_FACTOR
<1>2. Table(new, n) /\ Reachable(new, n) /\ Copied /\ Clean(new, n)
  BY <1>1 DEF TableTypeOK, Table, EveryWordIsFound
<1>3. /\ Table(new', n) /\ Reachable(new', n) /\ Clean(new', n)
      /\ \A d \in 0 .. n - 1 :
           new'[d].word # NoWord => \E c \in 0 .. next_cell : new'[d] = words[c]
      /\ \A c \in 0 .. next_cell :
           words[c].word # NoWord => \E d \in 0 .. n - 1 : new'[d] = words[c]
  <2>1. CASE words[next_cell].word = NoWord
    <3>1. new' = new
      BY <2>1
    <3>2. \A c \in 0 .. next_cell : words[c].word # NoWord => c \in 0 .. next_cell - 1
      BY <1>1, <2>1
    <3> QED
      BY <1>1, <1>2, <3>1, <3>2 DEF Copied
  <2>2. CASE words[next_cell].word # NoWord
    <3> DEFINE w == words[next_cell].word
    <3>1. w \in Word /\ words[next_cell] \in TableCell
      BY <1>1, <2>2 DEF TableTypeOK, TableCell
    <3>2. PICK e \in Found(new, n, w) : new' = [new EXCEPT ![e] = words[next_cell]]
      BY <2>2
    <3>3. e \in 0 .. n - 1 /\ new[e].word \in {NoWord, w}
      BY <1>2, <3>1, FoundCell DEF empty_cell
    <3>4. Table(new', n)
      BY <1>2, <3>1, <3>2 DEF Table
    <3>5. Reachable(new', n)
      BY <1>2, <3>1, <3>2, FillReachable
    <3>6. Clean(new', n)
      BY <1>2, <2>2, <3>2, <3>3 DEF Clean, Table
    <3>7. new[e].word = NoWord
      <4>1. ASSUME new[e].word = w PROVE FALSE
        <5>1. PICK c \in 0 .. next_cell - 1 : new[e] = words[c]
          BY <1>2, <2>2, <3>3, <4>1 DEF Copied
        <5>2. c \in 0 .. size - 1 /\ c # next_cell /\ words[c].word = words[next_cell].word
          BY <1>1, <4>1, <5>1
        <5> QED
          BY <1>1, <2>2, <5>2, NoDuplicates DEF EveryWordIsFound
      <4> QED
        BY <3>3, <4>1
    <3>8. ASSUME NEW d \in 0 .. n - 1, new'[d].word # NoWord
          PROVE  \E c \in 0 .. next_cell : new'[d] = words[c]
      <4>1. CASE d = e
        BY <1>1, <1>2, <3>2, <3>3, <4>1 DEF Table
      <4>2. CASE d # e
        <5>1. new'[d] = new[d]
          BY <1>2, <3>2, <4>2 DEF Table
        <5>2. PICK c \in 0 .. next_cell - 1 : new[d] = words[c]
          BY <1>2, <3>8, <5>1 DEF Copied
        <5> QED
          BY <1>1, <5>1, <5>2
      <4> QED
        BY <4>1, <4>2
    <3>9. ASSUME NEW c \in 0 .. next_cell, words[c].word # NoWord
          PROVE  \E d \in 0 .. n - 1 : new'[d] = words[c]
      <4>1. CASE c = next_cell
        BY <1>2, <3>2, <3>3, <4>1 DEF Table
      <4>2. CASE c # next_cell
        <5>1. PICK d \in 0 .. n - 1 : new[d] = words[c]
          BY <1>1, <1>2, <3>9, <4>2 DEF Copied
        <5>2. d # e
          BY <3>7, <3>9, <5>1
        <5> QED
          BY <1>2, <3>2, <5>1, <5>2 DEF Table
      <4> QED
        BY <4>1, <4>2
    <3> QED
      BY <3>4, <3>5, <3>6, <3>8, <3>9
  <2> QED
    BY <2>1, <2>2
<1>4. Copied'
  BY <1>1, <1>3 DEF Copied
<1>5. TableTypeOK' /\ InHand' /\ EveryWordIsFound' /\ Clean(words, size)'
  <2>1. TableTypeOK'
    BY <1>1, <1>3 DEF TableTypeOK, Table
  <2>2. Reachable(words', size') /\ Reachable(new', size' * EXTEND_FACTOR)
    BY <1>3 DEF EveryWordIsFound
  <2>3. EveryWordIsFound'
    BY <2>2 DEF EveryWordIsFound
  <2> QED
    BY <2>1, <2>3 DEF InHand, Clean
<1>6. CountsAreRight'
  <2> SUFFICES ASSUME NEW v \in Word
               PROVE  taken'[v] = CountOf(v)' + (IF Unstored(v)' THEN 1 ELSE 0)
    BY DEF CountsAreRight
  <2>1. Unstored(v)' <=> Unstored(v)
    BY DEF Unstored
  <2> QED
    BY <2>1, SameCounts DEF CountsAreRight
<1> QED
  BY <1>3, <1>4, <1>5, <1>6, SameCounts

\* The new table takes the place of the old one with every count the same.
LEMMA EndStep ==
  ASSUME IInv, EndExtend
  PROVE  IInv' /\ \A v \in Word : CountOf(v)' = CountOf(v)
<1> USE DEF IInv, EndExtend
<1> DEFINE n == size * EXTEND_FACTOR
<1>1. /\ n \in Nat \ {0} /\ size' = n /\ words' = new /\ next_cell = size
      /\ 0 .. next_cell - 1 = 0 .. size - 1 /\ size <= n
  BY DEF TableTypeOK, EXTEND_FACTOR
<1>2. Table(new, n) /\ Reachable(new, n) /\ Copied /\ Clean(new, n)
  BY <1>1 DEF TableTypeOK, Table, EveryWordIsFound
<1>3. table_pc' = resume /\ resume \in {"idle", "search"}
  BY DEF TableTypeOK
<1>4. new' \in [0 .. 0 - 1 -> TableCell]
  BY DEF NewCells, TableCell
<1>5. TableTypeOK'
  BY <1>1, <1>2, <1>3, <1>4 DEF TableTypeOK, Table
<1>6. InHand' /\ EveryWordIsFound' /\ Clean(words, size)' /\ table_pc' # "extend"
  BY <1>1, <1>2, <1>3 DEF InHand, EveryWordIsFound, Reachable, Clean
<1>7. ASSUME NEW v \in Word PROVE CountOf(v)' = CountOf(v)
  <2>1. CASE \E c \in 0 .. size - 1 : words[c].word = v
    <3>1. PICK c \in 0 .. size - 1 : words[c].word = v
      BY <2>1
    <3>2. CountOf(v) = words[c].count
      BY <3>1, CountOfStored DEF EveryWordIsFound
    <3>3. PICK d \in 0 .. n - 1 : new[d] = words[c]
      BY <1>1, <1>2, <3>1, HashTableAssumption DEF Copied
    <3>4. \A e \in 0 .. n - 1 : new[e].word = v => e = d
      BY <1>2, <3>1, <3>3, HashTableAssumption DEF Reachable
    <3>5. CountOf(v)' = new[d].count
      BY <1>1, <3>1, <3>3, <3>4 DEF CountOf
    <3> QED
      BY <3>2, <3>3, <3>5
  <2>2. CASE \A c \in 0 .. size - 1 : words[c].word # v
    <3>1. ASSUME NEW d \in 0 .. n - 1 PROVE new[d].word # v
      BY <1>1, <1>2, <2>2, HashTableAssumption DEF Copied
    <3> QED
      BY <1>1, <2>2, <3>1 DEF CountOf
  <2> QED
    BY <2>1, <2>2
<1>8. CountsAreRight'
  <2> SUFFICES ASSUME NEW v \in Word
               PROVE  taken'[v] = CountOf(v)' + (IF Unstored(v)' THEN 1 ELSE 0)
    BY DEF CountsAreRight
  <2>1. Unstored(v)' <=> Unstored(v)
    BY <1>3 DEF Unstored
  <2> QED
    BY <1>7, <2>1 DEF CountsAreRight
<1> QED
  BY <1>5, <1>6, <1>7, <1>8

-----------------------------------------------------------------------------
LEMMA NextIInv == IInv /\ [TableNext]_tableVars => IInv'
<1> SUFFICES ASSUME IInv, [TableNext]_tableVars PROVE IInv'
  OBVIOUS
<1>1. CASE Step
  BY <1>1, StoreStep, NoCellStep, CopyStep, EndStep DEF Step
<1>2. ASSUME NEW w \in Word, Take(w) PROVE IInv'
  BY <1>2, TakeStep
<1>3. CASE UNCHANGED tableVars
  <2>1. TableTypeOK' /\ InHand' /\ EveryWordIsFound' /\ CountsAreRight'
    BY <1>3, SameCounts DEF tableVars, IInv, TableTypeOK, InHand, EveryWordIsFound,
       CountsAreRight, Unstored
  <2>2. Clean(words, size)' /\ (table_pc' = "extend" => Copied' /\ Clean(new, size * EXTEND_FACTOR)')
    BY <1>3 DEF tableVars, IInv, Copied, Clean
  <2> QED
    BY <2>1, <2>2 DEF IInv
<1> QED
  BY <1>1, <1>2, <1>3 DEF TableNext

THEOREM Invariance == TableSpec => []IInv
BY InitIInv, NextIInv, PTL DEF TableSpec

\* The table, the counter and the extension always have their types
\* (hashtable.c:32-198).
THEOREM TypeCorrect == TableSpec => []TableTypeOK
<1>1. IInv => TableTypeOK
  BY DEF IInv
<1> QED
  BY Invariance, <1>1, PTL

\* Whatever the hash, no word is stored twice or where the search does not get
\* (hashtable.c:107-130, 180-199).
THEOREM SearchCorrect == TableSpec => []EveryWordIsFound
<1>1. IInv => EveryWordIsFound
  BY DEF IInv
<1> QED
  BY Invariance, <1>1, PTL

\* Whatever the hash and however often the table is extended, the counts are right
\* (hashtable.c:86-105, 171-199).
THEOREM CountsCorrect == TableSpec => []CountsAreRight
<1>1. IInv => CountsAreRight
  BY DEF IInv
<1> QED
  BY Invariance, <1>1, PTL

-----------------------------------------------------------------------------
(***************************************************************************)
(* The reader                                                              *)
(***************************************************************************)
BufferOK ==
  /\ file \in Seq(Char \cup {Space})
  /\ pos \in Nat \ {0}
  /\ buffer \in Seq(Char)
  /\ Len(buffer) <= MAX_WORD_LENGTH - 1

LEMMA BufferIsWord ==
  ASSUME BufferOK, buffer # <<>>
  PROVE  buffer \in Word
<1>1. Len(buffer) \in 1 .. MAX_WORD_LENGTH-1
  BY WordCounterAssumption DEF BufferOK
<1>2. buffer \in [1 .. Len(buffer) -> Char]
  BY DEF BufferOK
<1> QED BY <1>1, <1>2, WordCounterAssumption

LEMMA BufferInit == CounterInit => BufferOK
<1> SUFFICES ASSUME CounterInit PROVE BufferOK
  OBVIOUS
<1>1. file \in Seq(Char \cup {Space}) /\ pos = 1
  BY WordCounterAssumption DEF CounterInit
<1>2. buffer = <<>> /\ <<>> \in Seq(Char) /\ Len(<<>>) = 0
  BY DEF CounterInit
<1> QED BY <1>1, <1>2, WordCounterAssumption DEF BufferOK

LEMMA BufferStep == BufferOK /\ [CounterNext]_<<tableVars, readerVars>> => BufferOK'
<1> SUFFICES ASSUME BufferOK, [CounterNext]_<<tableVars, readerVars>> PROVE BufferOK'
  OBVIOUS
<1> USE DEF BufferOK
<1>1. CASE Keep
  <2>1. pos \in 1 .. Len(file) /\ Len(file) \in Nat
    BY <1>1 DEF Keep, Continues, AtEnd
  <2>2. file[pos] \in Char
    BY <1>1, <2>1 DEF Keep, Continues
  <2>3. buffer' \in Seq(Char) /\ Len(buffer') = Len(buffer) + 1
    BY <1>1, <2>2 DEF Keep
  <2>4. Len(buffer) < MAX_WORD_LENGTH - 1 /\ Len(buffer) \in Nat /\ MAX_WORD_LENGTH \in Nat
    BY <1>1, WordCounterAssumption DEF Keep, Continues
  <2> QED BY <1>1, <2>3, <2>4 DEF Keep
<1>2. CASE EndWord
  <2>1. <<>> \in Seq(Char) /\ Len(<<>>) = 0
    OBVIOUS
  <2> QED BY <1>2, <2>1, WordCounterAssumption DEF EndWord
<1>3. CASE UNCHANGED readerVars BY <1>3 DEF readerVars
<1> QED BY <1>1, <1>2, <1>3 DEF CounterNext

\* The reader uses the table as HashTable.tla says it is used (wc.c:34-52).
THEOREM UsesTable == CounterSpec => TableSpec
<1>1. CounterInit => TableInit
  BY DEF CounterInit
<1>2. ASSUME BufferOK, [CounterNext]_<<tableVars, readerVars>>
      PROVE  [TableNext]_tableVars
  <2>1. CASE Keep BY <2>1 DEF Keep
  <2>2. CASE EndWord
    <3>1. CASE buffer = <<>> BY <2>2, <3>1 DEF EndWord
    <3>2. CASE buffer # <<>>
      BY <1>2, <2>2, <3>2, BufferIsWord DEF EndWord, TableNext
    <3> QED BY <3>1, <3>2
  <2>3. CASE Step BY <2>3 DEF TableNext
  <2>4. CASE UNCHANGED <<tableVars, readerVars>> BY <2>4
  <2> QED BY <1>2, <2>1, <2>2, <2>3, <2>4 DEF CounterNext
<1> QED BY <1>1, <1>2, BufferInit, BufferStep, PTL DEF CounterSpec, TableSpec

\* Every text is counted right: each word the reader has taken is found, with as
\* many counts as it was taken (wc.c:34-52, hashtable.c:86-199).
THEOREM CounterCorrect == CounterSpec => [](EveryWordIsFound /\ CountsAreRight)
BY UsesTable, SearchCorrect, CountsCorrect, PTL

-----------------------------------------------------------------------------
(***************************************************************************)
(* The text                                                                *)
(***************************************************************************)
\* What the reader makes of a text with words of any length: it cuts a long one up,
\* and loses a letter at every cut.  Run(p) are the letters up to p that no space
\* separates from it.
Run(p) == { q \in 1..p : \A r \in q..p : file[r] # Space }

\* Words start after spaces, and after every letter that found the buffer full.
Starts == { p \in DOMAIN file : file[p] # Space /\ (Cardinality(Run(p)) - 1) % MAX_WORD_LENGTH = 0 }

\* The word that starts at p has the letters of p's run that fit into the buffer.
Letters(p) ==
  { q \in p .. p + MAX_WORD_LENGTH - 2 : q <= Len(file) /\ \A r \in p..q : file[r] # Space }

WordAt(p) == SubSeq(file, p, p - 1 + Cardinality(Letters(p)))

\* The bytes before the word in the buffer: those the reader has done with.
Done == pos - 1 - Len(buffer)

\* The words of the text up to byte b that are w.
Ended(b, w) == { p \in Starts : p <= b /\ WordAt(p) = w }

\* The bytes done with end at a cut: there, and up to the byte read next, the length
\* of the run says how much of it is in the buffer.  It makes the count of the
\* words, cut ones included, inductive.
TextInv ==
  /\ BufferOK
  /\ pos <= Len(file) + 2 /\ Done >= 0
  /\ pos = Len(file) + 2 => buffer = <<>>
  /\ \A n \in 1 .. Len(buffer) : Done + n <= Len(file) /\ buffer[n] = file[Done + n]
  /\ pos <= Len(file) + 1 =>
       \A q \in Done .. pos - 1 : Cardinality(Run(q)) % MAX_WORD_LENGTH = q - Done
  /\ \A w \in Word : taken[w] = Cardinality(Ended(Done, w))

\* The remainder goes round.
LEMMA Remainder ==
  ASSUME NEW a \in Int, NEW n \in Nat \ {0}, NEW r \in 0 .. n - 1, NEW k \in Int, a = (n * k) + r
  PROVE  a % n = r
OBVIOUS

LEMMA NextRemainder ==
  ASSUME NEW a \in Int, NEW n \in Nat \ {0, 1}
  PROVE  /\ a % n \in 0 .. n - 1
         /\ (a + 1) % n = IF a % n = n - 1 THEN 0 ELSE (a % n) + 1
<1> DEFINE k == a \div n
           r == a % n
<1>1. k \in Int /\ r \in 0 .. n - 1 /\ a = (n * k) + r
  OBVIOUS
<1>2. ASSUME r = n - 1 PROVE (a + 1) % n = 0
  <2>1. n * (k + 1) = (n * k) + n /\ n * k \in Int
    BY <1>1
  <2>2. a + 1 = (n * (k + 1)) + 0
    BY <1>1, <1>2, <2>1
  <2>3. k + 1 \in Int /\ a + 1 \in Int /\ 0 \in 0 .. n - 1
    BY <1>1
  <2> HIDE DEF k, r
  <2> QED BY <2>2, <2>3, Remainder
<1>3. ASSUME r # n - 1 PROVE (a + 1) % n = r + 1
  <2>1. a + 1 = (n * k) + (r + 1) /\ n * k \in Int
    BY <1>1
  <2>2. r + 1 \in 0 .. n - 1 /\ a + 1 \in Int
    BY <1>1, <1>3
  <2> HIDE DEF k, r
  <2> QED BY <1>1, <2>1, <2>2, Remainder
<1> QED BY <1>1, <1>2, <1>3

LEMMA LastRemainder ==
  ASSUME NEW a \in Int, NEW n \in Nat \ {0, 1}
  PROVE  (a - 1) % n = IF a % n = 0 THEN n - 1 ELSE (a % n) - 1
<1>1. a - 1 \in Int /\ (a - 1) + 1 = a
  OBVIOUS
<1>2. /\ (a - 1) % n \in 0 .. n - 1
      /\ a % n = IF (a - 1) % n = n - 1 THEN 0 ELSE ((a - 1) % n) + 1
  BY <1>1, NextRemainder
<1> QED BY <1>2

\* A byte is the end of a run or lengthens the run before it.
LEMMA RunIs ==
  ASSUME NEW p \in Nat \ {0}
  PROVE  Run(p) = IF file[p] = Space THEN {} ELSE Run(p - 1) \cup {p}
<1>1. ASSUME file[p] = Space PROVE Run(p) = {}
  <2>1. \A q \in 1 .. p : p \in q .. p
    OBVIOUS
  <2> QED BY <1>1, <2>1 DEF Run
<1>2. ASSUME file[p] # Space, NEW q
      PROVE  q \in Run(p) <=> q \in Run(p - 1) \/ q = p
  <2>1. CASE q = p
    BY <1>2, <2>1 DEF Run
  <2>2. CASE q # p
    <3>1. q \in 1 .. p <=> q \in 1 .. p - 1
      BY <2>2
    <3>2. ASSUME q \in 1 .. p - 1
          PROVE  (\A r \in q .. p : file[r] # Space) <=> (\A r \in q .. p - 1 : file[r] # Space)
      BY <1>2, <3>2
    <3> QED BY <2>2, <3>1, <3>2 DEF Run
  <2> QED BY <2>1, <2>2
<1> QED BY <1>1, <1>2

LEMMA RunFinite ==
  ASSUME NEW p \in Nat
  PROVE  IsFiniteSet(Run(p)) /\ Cardinality(Run(p)) \in Nat /\ p + 1 \notin Run(p)
<1>1. Run(p) \in SUBSET (1 .. p) /\ p + 1 \notin 1 .. p
  BY DEF Run
<1>2. IsFiniteSet(1 .. p)
  BY FS_Interval
<1> QED BY <1>1, <1>2, FS_Subset, FS_CardinalityType

LEMMA RunLength ==
  ASSUME NEW p \in Nat \ {0}
  PROVE  /\ Cardinality(Run(p)) \in Nat
         /\ Cardinality(Run(p)) =
              IF file[p] = Space THEN 0 ELSE Cardinality(Run(p - 1)) + 1
<1>1. p - 1 \in Nat /\ (p - 1) + 1 = p
  OBVIOUS
<1>2. IsFiniteSet(Run(p - 1)) /\ p \notin Run(p - 1)
  BY <1>1, RunFinite
<1>3. Cardinality(Run(p - 1) \cup {p}) = Cardinality(Run(p - 1)) + 1
  BY <1>2, FS_AddElement
<1> QED BY <1>3, RunIs, RunFinite, FS_EmptySet

\* A byte starts a word if it is a letter and the run up to it is one longer than a
\* multiple of the buffer's length.
LEMMA StartIs ==
  ASSUME BufferOK, NEW p \in Nat \ {0}
  PROVE  p \in Starts <=> p <= Len(file) /\ Cardinality(Run(p)) % MAX_WORD_LENGTH = 1
<1>1. p \in DOMAIN file <=> p <= Len(file)
  BY DEF BufferOK
<1>2. MAX_WORD_LENGTH \in Nat \ {0, 1} /\ Cardinality(Run(p)) \in Int
  BY WordCounterAssumption, RunLength
<1>3. /\ Cardinality(Run(p)) % MAX_WORD_LENGTH \in 0 .. MAX_WORD_LENGTH - 1
      /\ (Cardinality(Run(p)) - 1) % MAX_WORD_LENGTH =
           IF Cardinality(Run(p)) % MAX_WORD_LENGTH = 0
           THEN MAX_WORD_LENGTH - 1 ELSE (Cardinality(Run(p)) % MAX_WORD_LENGTH) - 1
  BY <1>2, NextRemainder, LastRemainder
<1>4. (Cardinality(Run(p)) - 1) % MAX_WORD_LENGTH = 0 <=>
        Cardinality(Run(p)) % MAX_WORD_LENGTH = 1
  BY <1>2, <1>3
<1>5. file[p] = Space => Cardinality(Run(p)) % MAX_WORD_LENGTH # 1
  <2>1. 0 = (MAX_WORD_LENGTH * 0) + 0 /\ 0 \in 0 .. MAX_WORD_LENGTH - 1
    BY <1>2
  <2>2. 0 % MAX_WORD_LENGTH = 0
    BY <1>2, <2>1, Remainder
  <2> QED BY <2>2, RunLength
<1> QED BY <1>1, <1>4, <1>5 DEF Starts

LEMMA TextFacts ==
  ASSUME TextInv
  PROVE  /\ Len(file) \in Nat /\ Len(buffer) \in 0 .. MAX_WORD_LENGTH - 1
         /\ MAX_WORD_LENGTH \in Nat \ {0, 1}
         /\ Done \in Nat /\ Done + Len(buffer) = pos - 1 /\ pos \in Nat \ {0}
BY WordCounterAssumption DEF TextInv, BufferOK, Done

\* What ends the word in the buffer: the text, a space, or the buffer's length.
Ends == pos > Len(file) \/ file[pos] = Space \/ Len(buffer) = MAX_WORD_LENGTH - 1

\* The word in the buffer is the one that starts after the bytes done with.
LEMMA BufferIsWordAt ==
  ASSUME TextInv, buffer # <<>>, Ends
  PROVE  WordAt(Done + 1) = buffer
<1> DEFINE b == Done
           n == Len(buffer)
           S == { q \in b + 1 .. (b + 1) + MAX_WORD_LENGTH - 2 :
                    q <= Len(file) /\ \A r \in b + 1 .. q : file[r] # Space }
<1>1. /\ Len(file) \in Nat /\ n \in Nat \ {0} /\ n <= MAX_WORD_LENGTH - 1
      /\ MAX_WORD_LENGTH \in Nat /\ b \in Nat /\ b + n = pos - 1 /\ pos \in Nat
  BY TextFacts DEF TextInv, BufferOK
<1>2. \A m \in 1 .. n : b + m <= Len(file) /\ buffer[m] = file[b + m] /\ buffer[m] \in Char
  BY DEF TextInv, BufferOK
<1>3. \A r \in b + 1 .. b + n : r <= Len(file) /\ file[r] # Space
  <2> SUFFICES ASSUME NEW r \in b + 1 .. b + n PROVE r <= Len(file) /\ file[r] # Space
    OBVIOUS
  <2>1. r - b \in 1 .. n /\ b + (r - b) = r
    BY <1>1
  <2> QED BY <2>1, <1>2, WordCounterAssumption
<1> HIDE DEF b, n
<1>4. ASSUME NEW q PROVE q \in S <=> q \in b + 1 .. b + n
  <2>1. ASSUME q \in b + 1 .. b + n PROVE q \in S
    <3>1. q \in b + 1 .. (b + 1) + MAX_WORD_LENGTH - 2
      BY <1>1, <2>1
    <3>2. \A r \in b + 1 .. q : r \in b + 1 .. b + n
      BY <1>1, <2>1
    <3> QED BY <1>3, <2>1, <3>1, <3>2
  <2>2. ASSUME q \in S PROVE q \in b + 1 .. b + n
    <3>1. q \in Int /\ b + 1 <= q /\ q <= b + MAX_WORD_LENGTH - 1 /\ q <= Len(file)
      BY <1>1, <2>2
    <3>2. \A r \in b + 1 .. q : file[r] # Space
      BY <2>2
    <3>3. ASSUME q > b + n PROVE FALSE
      <4>1. pos \in b + 1 .. q /\ pos <= Len(file)
        BY <1>1, <3>1, <3>3
      <4>2. file[pos] # Space
        BY <3>2, <4>1
      <4>3. n = MAX_WORD_LENGTH - 1
        BY <4>1, <4>2, <1>1 DEF Ends, n
      <4> QED BY <1>1, <3>1, <3>3, <4>3
    <3> QED BY <1>1, <3>1, <3>3
  <2> QED BY <2>1, <2>2
<1>5. S = b + 1 .. b + n
  BY <1>4
<1>6. Cardinality(S) = n
  <2>1. b + 1 \in Int /\ b + n \in Int /\ ~(b + 1 > b + n) /\ (b + n) - (b + 1) + 1 = n
    BY <1>1
  <2> QED BY <1>5, <2>1, FS_Interval
<1>7. WordAt(b + 1) = SubSeq(file, b + 1, (b + 1) - 1 + n)
  BY <1>6 DEF WordAt, Letters
<1>8. (b + 1) - 1 + n = b + n /\ b + 1 \in Int /\ b + n \in Int /\ b + 1 <= b + n
      /\ (b + n) - (b + 1) + 1 = n /\ \A m \in 1 .. n : (b + 1) + m - 1 = b + m
  BY <1>1
<1>9. \A r \in b + 1 .. b + n : file[r] \in Char \cup {Space}
  <2>1. file \in Seq(Char \cup {Space})
    BY DEF TextInv, BufferOK
  <2>2. \A r \in b + 1 .. b + n : r \in 1 .. Len(file)
    BY <1>1, <1>3
  <2> QED BY <2>1, <2>2
<1> DEFINE s == SubSeq(file, b + 1, b + n)
<1>10. /\ s \in Seq(Char \cup {Space}) /\ Len(s) = n
       /\ \A m \in 1 .. n : s[m] = file[(b + 1) + m - 1]
  <2> HIDE DEF s
  <2>1. /\ s \in Seq(Char \cup {Space})
        /\ Len(s) = IF b + 1 <= b + n THEN (b + n) - (b + 1) + 1 ELSE 0
        /\ \A m \in 1 .. (b + n) - (b + 1) + 1 : s[m] = file[(b + 1) + m - 1]
    BY <1>8, <1>9, SubSeqProperties DEF s
  <2> QED BY <2>1, <1>8
<1> HIDE DEF s
<1>11. buffer \in Seq(Char \cup {Space}) /\ Len(buffer) = n
  BY DEF TextInv, BufferOK, n
<1>12. \A m \in 1 .. Len(s) : s[m] = buffer[m]
  BY <1>2, <1>8, <1>10 DEF b, n
<1>13. s = buffer
  BY <1>10, <1>11, <1>12, SeqEqual
<1> QED BY <1>7, <1>8, <1>13 DEF s, b

\* Where the word in the buffer ends, nothing of the run is left in the buffer.
LEMMA CutAt ==
  ASSUME TextInv, Ends, pos <= Len(file)
  PROVE  Cardinality(Run(pos)) % MAX_WORD_LENGTH = 0
<1>1. /\ pos \in Nat \ {0} /\ pos - 1 \in Done .. pos - 1 /\ (pos - 1) - Done = Len(buffer)
      /\ pos <= Len(file) + 1 /\ MAX_WORD_LENGTH \in Nat \ {0, 1} /\ pos - 1 \in Nat
  BY TextFacts
<1>2. Cardinality(Run(pos - 1)) % MAX_WORD_LENGTH = Len(buffer)
  BY <1>1 DEF TextInv
<1>3. CASE file[pos] = Space
  <2>1. Cardinality(Run(pos)) = 0
    BY <1>1, <1>3, RunLength
  <2>2. 0 = (MAX_WORD_LENGTH * 0) + 0 /\ 0 \in 0 .. MAX_WORD_LENGTH - 1
    BY <1>1
  <2> QED BY <1>1, <2>1, <2>2, Remainder
<1>4. CASE file[pos] # Space
  <2>1. Len(buffer) = MAX_WORD_LENGTH - 1
    BY <1>4, TextFacts DEF Ends
  <2>2. Cardinality(Run(pos)) = Cardinality(Run(pos - 1)) + 1 /\ Cardinality(Run(pos - 1)) \in Int
    <3>1. Cardinality(Run(pos - 1)) \in Nat
      BY <1>1, RunFinite
    <3>2. Cardinality(Run(pos)) = Cardinality(Run(pos - 1)) + 1
      BY <1>1, <1>4, RunLength
    <3> QED BY <3>1, <3>2
  <2>3. (Cardinality(Run(pos - 1)) + 1) % MAX_WORD_LENGTH = 0
    BY <1>1, <1>2, <2>1, <2>2, NextRemainder
  <2> QED BY <2>2, <2>3
<1> QED BY <1>3, <1>4

\* No word starts between the one in the buffer and the byte that ends it.
LEMMA StartsHere ==
  ASSUME TextInv, Ends, pos <= Len(file) + 1, NEW p \in Done + 1 .. pos
  PROVE  p \in Starts <=> p = Done + 1 /\ buffer # <<>>
<1>1. /\ Len(file) \in Nat /\ pos \in Nat \ {0} /\ Done \in Nat /\ p \in Nat \ {0}
      /\ Done + Len(buffer) = pos - 1 /\ Len(buffer) \in Nat
  BY TextFacts
<1>2. buffer = <<>> <=> Len(buffer) = 0
  BY DEF TextInv, BufferOK
<1>3. BufferOK
  BY DEF TextInv
<1>4. CASE p = pos
  <2>1. p \notin Starts
    <3>1. p <= Len(file) => Cardinality(Run(p)) % MAX_WORD_LENGTH = 0
      BY <1>4, CutAt
    <3> QED BY <1>1, <1>3, <3>1, StartIs
  <2> QED BY <1>1, <1>2, <1>4, <2>1
<1>5. CASE p # pos
  <2>1. p \in Done .. pos - 1 /\ p <= Len(file)
    BY <1>1, <1>5
  <2>2. Cardinality(Run(p)) % MAX_WORD_LENGTH = p - Done
    BY <2>1 DEF TextInv
  <2>3. p \in Starts <=> p - Done = 1
    BY <1>1, <1>3, <2>1, <2>2, StartIs
  <2> QED BY <1>1, <1>2, <2>1, <2>3
<1> QED BY <1>4, <1>5

LEMMA EndedFinite ==
  ASSUME BufferOK, NEW b, NEW w
  PROVE  IsFiniteSet(Ended(b, w))
<1>1. Ended(b, w) \in SUBSET (1 .. Len(file)) /\ Len(file) \in Nat
  BY DEF Ended, Starts, BufferOK
<1>2. IsFiniteSet(1 .. Len(file))
  BY <1>1, FS_Interval
<1> QED BY <1>1, <1>2, FS_Subset

\* The word in the buffer is one more of the text's, and no other is.
LEMMA EndedMore ==
  ASSUME TextInv, Ends, pos <= Len(file) + 1, NEW w \in Word
  PROVE  Cardinality(Ended(pos, w)) =
           Cardinality(Ended(Done, w)) + (IF buffer # <<>> /\ w = buffer THEN 1 ELSE 0)
<1>1. /\ Len(file) \in Nat /\ pos \in Nat \ {0} /\ Done \in Nat /\ Done < pos
      /\ Done + Len(buffer) = pos - 1 /\ Len(buffer) \in Nat
  BY TextFacts
<1>2. \A p \in Starts : p \in Nat \ {0}
  BY DEF Starts, TextInv, BufferOK
<1>3. ASSUME NEW p
      PROVE  p \in Ended(pos, w) <=>
               p \in Ended(Done, w) \/ (p = Done + 1 /\ buffer # <<>> /\ w = buffer)
  <2>1. CASE p \in Nat \ {0} /\ p <= Done
    BY <1>1, <2>1 DEF Ended
  <2>2. CASE p \in Done + 1 .. pos
    <3>1. p \in Starts <=> p = Done + 1 /\ buffer # <<>>
      BY <2>2, StartsHere
    <3>2. buffer # <<>> => WordAt(Done + 1) = buffer
      BY BufferIsWordAt
    <3>3. p <= pos /\ ~(p <= Done)
      BY <1>1, <2>2
    <3> QED BY <3>1, <3>2, <3>3 DEF Ended
  <2>3. CASE p \notin 1 .. pos
    <3>1. Done + 1 \in 1 .. pos
      BY <1>1
    <3>2. p \notin Ended(pos, w) /\ p \notin Ended(Done, w)
      BY <1>1, <1>2, <2>3 DEF Ended
    <3> QED BY <2>3, <3>1, <3>2
  <2> QED BY <1>1, <2>1, <2>2, <2>3
<1>4. Done + 1 \notin Ended(Done, w)
  BY <1>1 DEF Ended
<1>5. IsFiniteSet(Ended(Done, w)) /\ Cardinality(Ended(Done, w)) \in Nat
  BY EndedFinite, FS_CardinalityType DEF TextInv
<1>6. CASE buffer # <<>> /\ w = buffer
  <2>1. Ended(pos, w) = Ended(Done, w) \cup {Done + 1}
    BY <1>3, <1>6
  <2> QED BY <1>4, <1>5, <1>6, <2>1, FS_AddElement
<1>7. CASE ~(buffer # <<>> /\ w = buffer)
  <2>1. Ended(pos, w) = Ended(Done, w)
    BY <1>3, <1>7
  <2> QED BY <1>5, <1>7, <2>1
<1> QED BY <1>6, <1>7

-----------------------------------------------------------------------------
LEMMA SameText ==
  ASSUME UNCHANGED file
  PROVE  /\ \A p : Run(p)' = Run(p)
         /\ \A b, w : Ended(b, w)' = Ended(b, w)
BY DEF Run, Ended, Starts, WordAt, Letters

LEMMA TextInit == CounterInit => TextInv
<1> SUFFICES ASSUME CounterInit PROVE TextInv
  OBVIOUS
<1>1. BufferOK /\ pos = 1 /\ buffer = <<>> /\ Len(buffer) = 0
  BY BufferInit DEF CounterInit
<1>2. Len(file) \in Nat /\ Done = 0
  <2>1. file \in Seq(Char \cup {Space})
    BY <1>1 DEF BufferOK
  <2>2. Len(file) \in Nat
    BY <2>1
  <2>3. pos = 1 /\ Len(buffer) = 0
    BY <1>1
  <2>4. Done = 0
    BY <2>3 DEF Done
  <2> QED BY <2>2, <2>4
<1>3. \A q \in Done .. pos - 1 : Cardinality(Run(q)) % MAX_WORD_LENGTH = q - Done
  <2>1. Run(0) = {} /\ Cardinality({}) = 0
    BY FS_EmptySet DEF Run
  <2>2. MAX_WORD_LENGTH \in Nat \ {0, 1}
    BY WordCounterAssumption
  <2>3. 0 = (MAX_WORD_LENGTH * 0) + 0 /\ 0 \in 0 .. MAX_WORD_LENGTH - 1
    BY <2>2
  <2>4. 0 % MAX_WORD_LENGTH = 0
    BY <2>2, <2>3, Remainder
  <2>5. Cardinality(Run(0)) % MAX_WORD_LENGTH = 0 - 0
    BY <2>1, <2>4
  <2>6. \A q \in Done .. pos - 1 : q = 0
    BY <1>1, <1>2
  <2> QED BY <1>2, <2>5, <2>6
<1>4. ASSUME NEW w \in Word PROVE taken[w] = Cardinality(Ended(Done, w))
  <2>1. Ended(0, w) = {}
    BY <1>1 DEF Ended, Starts, BufferOK
  <2> QED BY <1>2, <2>1, FS_EmptySet DEF CounterInit, TableInit
<1> QED BY <1>1, <1>2, <1>3, <1>4 DEF TextInv

\* A letter is added to the buffer.
LEMMA KeepStep ==
  ASSUME TextInv, BufferOK', Keep
  PROVE  TextInv'
<1>1. /\ Len(file) \in Nat /\ pos \in Nat \ {0} /\ pos <= Len(file)
      /\ MAX_WORD_LENGTH \in Nat \ {0, 1}
      /\ Done \in Nat /\ Done + Len(buffer) = pos - 1 /\ Len(buffer) \in Nat
      /\ Len(buffer) < MAX_WORD_LENGTH - 1 /\ file[pos] # Space
  BY TextFacts DEF Keep, Continues, AtEnd
<1>2. /\ file' = file /\ pos' = pos + 1 /\ buffer' = Append(buffer, file[pos])
      /\ taken' = taken
  BY DEF Keep, tableVars
<1>3. file[pos] \in Char /\ buffer \in Seq(Char)
  BY <1>1 DEF TextInv, BufferOK
<1>4. /\ Len(buffer') = Len(buffer) + 1
      /\ \A n \in 1 .. Len(buffer) : buffer'[n] = buffer[n]
      /\ buffer'[Len(buffer) + 1] = file[pos]
  BY <1>2, <1>3
<1>5. Done' = Done
  BY <1>1, <1>2, <1>4 DEF Done
<1>6. ASSUME NEW n \in 1 .. Len(buffer')
      PROVE  Done' + n <= Len(file') /\ buffer'[n] = file'[Done' + n]
  <2>1. CASE n \in 1 .. Len(buffer)
    BY <2>1, <1>2, <1>4, <1>5 DEF TextInv
  <2>2. CASE n = Len(buffer) + 1
    <3>1. Done + n = pos
      BY <1>1, <2>2
    <3> QED BY <1>1, <1>2, <1>4, <1>5, <2>2, <3>1
  <2> QED BY <1>1, <1>4, <2>1, <2>2
<1>7. ASSUME NEW q \in Done .. pos
      PROVE  Cardinality(Run(q)) % MAX_WORD_LENGTH = q - Done
  <2>1. \A r \in Done .. pos - 1 : Cardinality(Run(r)) % MAX_WORD_LENGTH = r - Done
    BY <1>1 DEF TextInv
  <2>2. CASE q = pos
    <3>1. Cardinality(Run(pos - 1)) % MAX_WORD_LENGTH = Len(buffer)
      BY <1>1, <2>1
    <3>2. Cardinality(Run(pos)) = Cardinality(Run(pos - 1)) + 1 /\ Cardinality(Run(pos - 1)) \in Int
      <4>0. pos - 1 \in Nat
        BY <1>1
      <4>1. Cardinality(Run(pos - 1)) \in Nat
        BY <4>0, RunFinite
      <4>2. Cardinality(Run(pos)) = Cardinality(Run(pos - 1)) + 1
        BY <1>1, RunLength
      <4> QED BY <4>1, <4>2
    <3>3. (Cardinality(Run(pos - 1)) + 1) % MAX_WORD_LENGTH = Len(buffer) + 1
      <4>1. Cardinality(Run(pos - 1)) \in Int /\ MAX_WORD_LENGTH \in Nat \ {0, 1}
        BY <1>1, <3>2
      <4>2. (Cardinality(Run(pos - 1)) + 1) % MAX_WORD_LENGTH =
              IF Len(buffer) = MAX_WORD_LENGTH - 1 THEN 0 ELSE Len(buffer) + 1
        BY <3>1, <4>1, NextRemainder
      <4> QED BY <1>1, <4>2
    <3>4. Len(buffer) + 1 = q - Done
      BY <1>1, <2>2
    <3> QED BY <2>2, <3>2, <3>3, <3>4
  <2>3. CASE q # pos
    BY <1>1, <2>1, <2>3
  <2> QED BY <2>2, <2>3
<1>8. /\ pos' <= Len(file') + 2 /\ Done' >= 0 /\ pos' # Len(file') + 2
      /\ Done' .. pos' - 1 = Done .. pos
  BY <1>1, <1>2, <1>5
<1>9. \A q \in Done' .. pos' - 1 : Cardinality(Run(q)') % MAX_WORD_LENGTH = q - Done'
  BY <1>2, <1>5, <1>7, <1>8, SameText
<1>10. \A w \in Word : taken'[w] = Cardinality(Ended(Done, w)')
  BY <1>2, <1>5, SameText DEF TextInv
<1> QED BY <1>5, <1>6, <1>8, <1>9, <1>10 DEF TextInv

\* The word in the buffer ends and is taken.
LEMMA EndWordStep ==
  ASSUME TextInv, TableTypeOK, BufferOK', EndWord
  PROVE  TextInv'
<1>1. /\ Len(file) \in Nat /\ pos \in Nat \ {0} /\ pos <= Len(file) + 1
      /\ MAX_WORD_LENGTH \in Nat \ {0, 1}
      /\ Done \in Nat /\ Done + Len(buffer) = pos - 1 /\ Len(buffer) \in 0 .. MAX_WORD_LENGTH - 1
  BY TextFacts DEF EndWord
<1>2. Ends
  BY <1>1 DEF EndWord, Continues, AtEnd, Ends
<1>3. file' = file /\ pos' = pos + 1 /\ buffer' = <<>> /\ Len(buffer') = 0
  BY DEF EndWord
<1>4. Done' = pos
  BY <1>1, <1>3 DEF Done
<1>0. PICK b : b = pos
  OBVIOUS
<1>5. ASSUME pos' <= Len(file') + 1, NEW q \in Done' .. pos' - 1
      PROVE  Cardinality(Run(q)') % MAX_WORD_LENGTH = q - Done'
  <2>1. q = pos /\ pos <= Len(file) /\ q - Done' = 0
    BY <1>1, <1>3, <1>4, <1>5
  <2> QED BY <1>2, <1>3, <2>1, CutAt, SameText
<1>6. ASSUME NEW w \in Word PROVE taken'[w] = Cardinality(Ended(b, w)')
  <2>1. taken[w] = Cardinality(Ended(Done, w)) /\ taken[w] \in Nat
    BY DEF TextInv, TableTypeOK
  <2>2. Cardinality(Ended(b, w)') =
          taken[w] + (IF buffer # <<>> /\ w = buffer THEN 1 ELSE 0)
    <3>1. Ended(b, w)' = Ended(b, w) /\ Ended(b, w) = Ended(pos, w)
      BY <1>0, <1>3, SameText
    <3>2. Cardinality(Ended(pos, w)) =
            taken[w] + (IF buffer # <<>> /\ w = buffer THEN 1 ELSE 0)
      BY <1>1, <1>2, <2>1, EndedMore
    <3> QED BY <3>1, <3>2
  <2>3. CASE buffer = <<>>
    BY <2>1, <2>2, <2>3 DEF EndWord, tableVars
  <2>4. CASE buffer # <<>>
    <3>1. taken' = [taken EXCEPT ![buffer] = @ + 1]
      BY <2>4 DEF EndWord, Take
    <3>2. taken'[w] = taken[w] + (IF w = buffer THEN 1 ELSE 0)
      BY <2>1, <3>1 DEF TableTypeOK
    <3> QED BY <2>2, <2>4, <3>2
  <2> QED BY <2>3, <2>4
<1>7. pos' <= Len(file') + 2 /\ Done' >= 0 /\ \A n : n \notin 1 .. Len(buffer')
  BY <1>1, <1>3, <1>4
<1>8. \A w \in Word : taken'[w] = Cardinality(Ended(Done, w)')
  <2>1. \A w : Ended(Done, w)' = Ended(b, w)'
    BY <1>0, <1>4 DEF Ended
  <2> QED BY <1>6, <2>1
<1> QED BY <1>3, <1>5, <1>7, <1>8 DEF TextInv

LEMMA TextStep == TextInv /\ TableTypeOK /\ [CounterNext]_<<tableVars, readerVars>> => TextInv'
<1> SUFFICES ASSUME TextInv, TableTypeOK, [CounterNext]_<<tableVars, readerVars>> PROVE TextInv'
  OBVIOUS
<1>1. BufferOK'
  BY BufferStep DEF TextInv
<1>2. CASE Keep
  BY <1>1, <1>2, KeepStep
<1>3. CASE EndWord
  BY <1>1, <1>3, EndWordStep
<1>4. CASE UNCHANGED readerVars /\ (Step \/ UNCHANGED tableVars)
  <2>1. UNCHANGED <<file, pos, buffer, taken>>
    BY <1>4 DEF readerVars, tableVars, Step, Store, NoCell, CopyCell, EndExtend
  <2>2. Done' = Done
    BY <2>1 DEF Done
  <2>3. /\ \A q : Run(q)' = Run(q)
        /\ \A w : Ended(Done, w)' = Ended(Done, w)
    BY <2>1, <2>2, SameText DEF Ended
  <2> QED BY <1>1, <2>1, <2>2, <2>3 DEF TextInv
<1> QED BY <1>2, <1>3, <1>4 DEF CounterNext, tableVars, readerVars

-----------------------------------------------------------------------------
(***************************************************************************)
(* What stands in the text between white space                             *)
(***************************************************************************)
\* The letters of a word follow one another: there are as many as up to the last.
LEMMA LettersAre ==
  ASSUME BufferOK, NEW p \in Nat \ {0}
  PROVE  /\ Cardinality(Letters(p)) \in Nat
         /\ Letters(p) = p .. p + Cardinality(Letters(p)) - 1
<1> DEFINE T == Letters(p)
           n == Cardinality(T)
           e == p + MAX_WORD_LENGTH - 2
<1>1. p \in Int /\ e \in Int /\ Len(file) \in Nat
  BY WordCounterAssumption DEF BufferOK
<1>2. /\ T \subseteq p .. e
      /\ \A q \in T : \A r \in p .. q : r \in T
  <2>1. \A q \in T : q \in p .. e /\ q <= Len(file) /\ \A r \in p .. q : file[r] # Space
    BY DEF Letters
  <2>2. ASSUME NEW q \in T, NEW r \in p .. q PROVE r \in T
    <3>1. r \in p .. e /\ r <= Len(file) /\ \A k \in p .. r : k \in p .. q
      BY <1>1, <2>1
    <3> QED BY <2>1, <3>1 DEF Letters
  <2> QED BY <2>1, <2>2
<1> HIDE DEF T, e
<1>3. IsFiniteSet(T) /\ n \in Nat
  <2>1. IsFiniteSet(p .. e) /\ T \in SUBSET (p .. e)
    BY <1>1, <1>2, FS_Interval
  <2> QED BY <2>1, FS_Subset, FS_CardinalityType
<1> HIDE DEF n
<1>4. ASSUME NEW q \in T PROVE q \in p .. p + n - 1
  <2>1. q \in Int /\ p <= q
    BY <1>1, <1>2
  <2>2. (p .. q) \in SUBSET T
    BY <1>2
  <2>3. Cardinality(p .. q) = q - p + 1
    BY <1>1, <2>1, FS_Interval
  <2>4. Cardinality(p .. q) <= n
    BY <1>3, <2>2, FS_Subset DEF n
  <2> QED BY <1>1, <1>3, <2>1, <2>3, <2>4
<1>5. p + n - 1 \in Int /\ Cardinality(p .. p + n - 1) = n /\ IsFiniteSet(p .. p + n - 1)
  <2>1. /\ p + n - 1 \in Int /\ (p > p + n - 1 => n = 0)
        /\ (p + n - 1) - p + 1 = n
    BY <1>1, <1>3
  <2> QED BY <1>1, <2>1, FS_Interval
<1>6. T \in SUBSET (p .. p + n - 1)
  BY <1>4
<1>7. Cardinality(p .. p + n - 1) = Cardinality(T)
  BY <1>5 DEF n
<1>8. T = p .. p + n - 1
  BY ONLY <1>5, <1>6, <1>7, FS_Subset
<1> QED BY <1>3, <1>8 DEF T, n

\* What the word that starts at p consists of.
LEMMA WordAtIs ==
  ASSUME BufferOK, NEW p \in Nat \ {0}
  PROVE  /\ WordAt(p) \in Seq(Char \cup {Space})
         /\ Len(WordAt(p)) = Cardinality(Letters(p))
         /\ \A k \in 1 .. Cardinality(Letters(p)) : WordAt(p)[k] = file[p + k - 1]
<1> DEFINE n == Cardinality(Letters(p))
           s == SubSeq(file, p, p - 1 + n)
<1>1. n \in Nat /\ Letters(p) = p .. p + n - 1
  BY LettersAre
<1>2. \A r \in p .. p + n - 1 : file[r] \in Char \cup {Space}
  <2>1. file \in Seq(Char \cup {Space})
    BY DEF BufferOK
  <2>2. \A r \in p .. p + n - 1 : r \in 1 .. Len(file)
    BY <1>1, <2>1 DEF Letters
  <2> QED BY <2>1, <2>2
<1> HIDE DEF n, s
<1>3. /\ p \in Int /\ p - 1 + n \in Int /\ p - 1 + n = p + n - 1
      /\ (p - 1 + n) - p + 1 = n /\ (p <= p - 1 + n \/ n = 0)
  BY <1>1
<1>4. \A r \in p .. p - 1 + n : file[r] \in Char \cup {Space}
  BY <1>2, <1>3
<1>5. /\ s \in Seq(Char \cup {Space})
      /\ Len(s) = IF p <= p - 1 + n THEN (p - 1 + n) - p + 1 ELSE 0
      /\ \A k \in 1 .. (p - 1 + n) - p + 1 : s[k] = file[p + k - 1]
  BY <1>3, <1>4, SubSeqProperties DEF s
<1>6. /\ s \in Seq(Char \cup {Space}) /\ Len(s) = n
      /\ \A k \in 1 .. n : s[k] = file[p + k - 1]
  BY <1>3, <1>5
<1>7. s = WordAt(p)
  BY DEF s, n, WordAt
<1> QED BY <1>6, <1>7 DEF n

LEMMA SmallRemainder ==
  ASSUME NEW c \in 0 .. MAX_WORD_LENGTH - 1
  PROVE  c % MAX_WORD_LENGTH = c
<1>1. MAX_WORD_LENGTH \in Nat \ {0, 1}
  BY WordCounterAssumption
<1>2. c = (MAX_WORD_LENGTH * 0) + c /\ c \in Int
  BY <1>1
<1> QED BY <1>1, <1>2, Remainder

\* A word between white space starts where it stands.
LEMMA StandsStarts ==
  ASSUME BufferOK, NEW w \in Word, NEW p \in DOMAIN file, StandsAt(w, p)
  PROVE  p \in Starts /\ WordAt(p) = w
<1>1. /\ Len(file) \in Nat /\ p \in Nat \ {0} /\ p <= Len(file)
      /\ MAX_WORD_LENGTH \in Nat \ {0, 1} /\ Space \notin Char
  BY WordCounterAssumption DEF BufferOK
<1>2. PICK n \in 1 .. MAX_WORD_LENGTH - 1 : w \in [1 .. n -> Char]
  BY WordCounterAssumption
<1>3. w \in Seq(Char) /\ Len(w) = n /\ n \in Nat /\ DOMAIN w = 1 .. n
  BY <1>1, <1>2
<1>4. /\ p + n - 1 <= Len(file)
      /\ \A k \in 1 .. n : file[p + k - 1] = w[k]
      /\ p = 1 \/ file[p - 1] = Space
      /\ p + n > Len(file) \/ file[p + n] = Space
  BY <1>3 DEF StandsAt
<1>5. ASSUME NEW q \in p .. p + n - 1 PROVE file[q] # Space
  <2>1. q - p + 1 \in 1 .. n /\ p + (q - p + 1) - 1 = q
    BY <1>1, <1>3
  <2> QED BY <1>1, <1>2, <1>4, <2>1
<1>6. ASSUME NEW q PROVE q \in Letters(p) <=> q \in p .. p + n - 1
  <2>1. ASSUME q \in p .. p + n - 1 PROVE q \in Letters(p)
    <3>1. /\ MAX_WORD_LENGTH \in Nat /\ n \in Nat /\ n <= MAX_WORD_LENGTH - 1
          /\ q \in Nat /\ p <= q /\ q <= p + n - 1 /\ p + n - 1 <= Len(file)
      BY <1>1, <1>2, <1>4, <2>1
    <3>2. q \in p .. p + MAX_WORD_LENGTH - 2 /\ q <= Len(file)
      BY ONLY <1>1, <3>1
    <3>3. \A r \in p .. q : r \in p .. p + n - 1
      BY <1>1, <3>1
    <3> QED BY <1>5, <3>2, <3>3 DEF Letters
  <2>2. ASSUME q \in Letters(p), q \notin p .. p + n - 1 PROVE FALSE
    <3>1. q \in Int /\ p <= q /\ q <= Len(file) /\ \A r \in p .. q : file[r] # Space
      BY <1>1, <2>2 DEF Letters
    <3>2. p + n \in p .. q /\ ~(p + n > Len(file))
      BY <1>1, <1>3, <2>2, <3>1
    <3> QED BY <1>4, <3>1, <3>2
  <2> QED BY <2>1, <2>2
<1>7. Letters(p) = p .. p + n - 1
  BY <1>6
<1>8. Cardinality(Letters(p)) = n
  <2>1. p \in Int /\ p + n - 1 \in Int /\ ~(p > p + n - 1) /\ (p + n - 1) - p + 1 = n
    BY <1>1, <1>2
  <2> QED BY <1>7, <2>1, FS_Interval
<1>9. WordAt(p) = w
  <2>1. /\ WordAt(p) \in Seq(Char \cup {Space}) /\ Len(WordAt(p)) = n
        /\ \A k \in 1 .. n : WordAt(p)[k] = w[k]
    BY <1>1, <1>4, <1>8, WordAtIs
  <2>2. w \in Seq(Char \cup {Space})
    BY <1>3
  <2> QED BY <1>3, <2>1, <2>2, SeqEqual
<1>10. Cardinality(Run(p)) = 1
  <2>1. Cardinality(Run(p - 1)) = 0
    <3>1. CASE p = 1
      <4>1. Run(p - 1) = {}
        BY <3>1 DEF Run
      <4> QED BY <4>1, FS_EmptySet
    <3>2. CASE p # 1
      <4>1. p - 1 \in Nat \ {0}
        BY <1>1, <3>2
      <4>2. file[p - 1] = Space
        BY <1>4, <3>2
      <4> QED BY <4>1, <4>2, RunLength
    <3> QED BY <3>1, <3>2
  <2>2. file[p] # Space
    <3>1. p \in p .. p + n - 1
      BY <1>1, <1>2
    <3> QED BY <1>5, <3>1
  <2> QED BY <1>1, <2>1, <2>2, RunLength
<1>11. p \in Starts
  <2>1. 1 \in 0 .. MAX_WORD_LENGTH - 1
    BY <1>1
  <2> QED BY <1>1, <1>10, <2>1, SmallRemainder, StartIs
<1> QED BY <1>9, <1>11

\* When every word fits, no word starts but where one stands between white space.
LEMMA StartsStand ==
  ASSUME BufferOK, AllFit, NEW p \in Starts
  PROVE  StandsAt(WordAt(p), p)
<1> DEFINE M == MAX_WORD_LENGTH
           n == Cardinality(Letters(p))
           c == Cardinality(Run(p))
<1>1. /\ Len(file) \in Nat /\ p \in Nat \ {0} /\ p <= Len(file) /\ file[p] # Space
      /\ M \in Nat \ {0, 1} /\ DOMAIN file = 1 .. Len(file)
  BY WordCounterAssumption DEF BufferOK, Starts
<1>2. n \in Nat /\ Letters(p) = p .. p + n - 1
  BY <1>1, LettersAre
<1>3. c \in Nat /\ c % M = 1
  BY <1>1, RunLength, StartIs
<1> HIDE DEF n, c
<1>4. c <= M - 1
  <2>1. CASE p < M
    <3>1. Run(p) \in SUBSET (1 .. p) /\ IsFiniteSet(1 .. p) /\ Cardinality(1 .. p) = p
      BY <1>1, FS_Interval DEF Run
    <3>2. c <= p
      BY <3>1, FS_Subset DEF c
    <3> QED BY <1>1, <1>3, <2>1, <3>2
  <2>2. CASE ~(p < M)
    <3>1. p - M + 1 \in DOMAIN file /\ (p - M + 1) + M - 1 = p
      BY <1>1, <2>2
    <3>2. PICK s \in p - M + 1 .. p : file[s] = Space
      BY <1>1, <3>1 DEF AllFit
    <3>3. s \in Int /\ s < p /\ s >= p - M + 1
      BY <1>1, <3>2
    <3>4. Run(p) \in SUBSET (s + 1 .. p)
      <4>1. ASSUME NEW q \in Run(p), ~(q > s) PROVE FALSE
        <5>1. s \in q .. p
          BY <1>1, <3>3, <4>1 DEF Run
        <5> QED BY <3>2, <4>1, <5>1 DEF Run
      <4>2. \A q \in Run(p) : q \in 1 .. p
        BY DEF Run
      <4> QED BY <1>1, <3>3, <4>1, <4>2
    <3>5. IsFiniteSet(s + 1 .. p) /\ Cardinality(s + 1 .. p) = p - s
      <4>1. s + 1 \in Int /\ p \in Int /\ ~(s + 1 > p) /\ p - (s + 1) + 1 = p - s
        BY <1>1, <3>3
      <4> QED BY <4>1, FS_Interval
    <3>6. c <= p - s
      BY <3>4, <3>5, FS_Subset DEF c
    <3> QED BY <1>1, <1>3, <3>3, <3>6
  <2> QED BY <2>1, <2>2
<1>5. c = 1
  <2>1. c \in 0 .. M - 1
    BY <1>1, <1>3, <1>4
  <2> QED BY <1>3, <2>1, SmallRemainder
<1>6. p = 1 \/ file[p - 1] = Space
  <2> SUFFICES ASSUME p # 1, file[p - 1] # Space PROVE FALSE
    OBVIOUS
  <2>1. p - 1 \in Nat \ {0} /\ (p - 1) - 1 \in Nat
    BY <1>1
  <2>2. Cardinality(Run(p - 1)) = Cardinality(Run((p - 1) - 1)) + 1
    BY <2>1, RunLength
  <2>3. Cardinality(Run((p - 1) - 1)) \in Nat
    BY <2>1, RunFinite
  <2>4. c = Cardinality(Run(p - 1)) + 1
    BY <1>1, RunLength DEF c
  <2> QED BY <1>5, <2>2, <2>3, <2>4
<1>7. n >= 1 /\ p + n - 1 <= Len(file) /\ n <= M - 1
  <2>1. p \in Letters(p)
    <3>1. p \in p .. p + M - 2 /\ \A r \in p .. p : r = p
      BY <1>1
    <3> QED BY <1>1, <3>1 DEF Letters
  <2>2. n >= 1
    BY <1>1, <1>2, <2>1
  <2>3. p + n - 1 \in Letters(p)
    BY <1>1, <1>2, <2>2
  <2>4. p + n - 1 <= Len(file) /\ p + n - 1 <= p + M - 2
    BY <1>1, <2>3 DEF Letters
  <2> QED BY <1>1, <1>2, <2>2, <2>4
<1>8. p + n > Len(file) \/ file[p + n] = Space
  <2> SUFFICES ASSUME p + n <= Len(file), file[p + n] # Space PROVE FALSE
    BY <1>1, <1>2
  <2>1. ASSUME NEW r \in p .. p + n PROVE file[r] # Space
    <3>1. r = p + n \/ r \in Letters(p)
      BY <1>1, <1>2
    <3>2. r \in Letters(p) => r \in p .. r /\ \A k \in p .. r : file[k] # Space
      BY <1>1 DEF Letters
    <3> QED BY <3>1, <3>2
  <2>2. CASE n < M - 1
    <3>1. p + n \in p .. p + M - 2
      BY <1>1, <1>2, <2>2
    <3>2. p + n \in Letters(p)
      BY <2>1, <3>1 DEF Letters
    <3> QED BY <1>1, <1>2, <3>2
  <2>3. CASE n = M - 1
    <3>1. p + M - 1 = p + n
      BY <1>1, <1>2, <2>3
    <3>2. p \in DOMAIN file /\ p + MAX_WORD_LENGTH - 1 <= Len(file)
      BY <1>1, <3>1
    <3>3. PICK q \in p .. p + MAX_WORD_LENGTH - 1 : file[q] = Space
      BY <3>2 DEF AllFit
    <3> QED BY <2>1, <3>1, <3>3
  <2> QED BY <1>1, <1>2, <1>7, <2>2, <2>3
<1>9. Len(WordAt(p)) = n /\ DOMAIN WordAt(p) = 1 .. n
      /\ \A k \in 1 .. n : WordAt(p)[k] = file[p + k - 1]
  <2>1. /\ WordAt(p) \in Seq(Char \cup {Space}) /\ Len(WordAt(p)) = n
        /\ \A k \in 1 .. n : WordAt(p)[k] = file[p + k - 1]
    BY <1>1, WordAtIs DEF n
  <2> QED BY <2>1
<1> QED BY <1>6, <1>7, <1>8, <1>9 DEF StandsAt

\* At the end of every text the table has each word as often as it started.
LEMMA CountIsStarts ==
  ASSUME TextInv, TableTypeOK, CountsAreRight, AllRead, NEW w \in Word
  PROVE  CountOf(w) = Cardinality({ p \in Starts : WordAt(p) = w })
<1>1. buffer = <<>> /\ Len(buffer) = 0 /\ Len(file) \in Nat
  BY DEF TextInv, BufferOK, AllRead
<1>2. Done = Len(file) + 1
  BY <1>1 DEF Done, AllRead
<1>3. \A p \in Starts : p <= Len(file) + 1
  BY <1>1 DEF Starts, TextInv, BufferOK
<1>4. Ended(Done, w) = { p \in Starts : WordAt(p) = w }
  BY <1>2, <1>3 DEF Ended
<1>5. taken[w] = CountOf(w)
  BY CountNat DEF CountsAreRight, Unstored, AllRead
<1> QED BY <1>4, <1>5 DEF TextInv

\* At the end of every text the table has each word that fits into the buffer at
\* least as often as it stands between white space, and exactly as often when no
\* word of the text is too long (wc.c:34-52, hashtable.c:86-199).
THEOREM TextCorrect == CounterSpec => []FittingWordsAreCounted
<1>1. ASSUME TextInv, TableTypeOK, CountsAreRight PROVE FittingWordsAreCounted
  <2> SUFFICES ASSUME AllRead, NEW w \in Word
               PROVE  CountOf(w) >= TimesIn(w) /\ (AllFit => CountOf(w) = TimesIn(w))
    BY DEF FittingWordsAreCounted
  <2> DEFINE S == { p \in DOMAIN file : StandsAt(w, p) }
             T == { p \in Starts : WordAt(p) = w }
  <2>1. BufferOK
    BY <1>1 DEF TextInv
  <2>2. CountOf(w) = Cardinality(T) /\ TimesIn(w) = Cardinality(S)
    BY <1>1, CountIsStarts DEF TimesIn
  <2>3. S \in SUBSET T
    BY <2>1, StandsStarts
  <2>4. IsFiniteSet(T)
    <3>1. T \in SUBSET (1 .. Len(file)) /\ Len(file) \in Nat
      BY <2>1 DEF Starts, BufferOK
    <3>2. IsFiniteSet(1 .. Len(file))
      BY <3>1, FS_Interval
    <3> HIDE DEF T
    <3> QED BY <3>1, <3>2, FS_Subset
  <2>5. AllFit => S = T
    <3>1. \A p \in Starts : p \in DOMAIN file
      BY DEF Starts
    <3> QED BY <2>1, <2>3, <3>1, StartsStand
  <2> HIDE DEF S, T
  <2>6. IsFiniteSet(S) /\ Cardinality(S) \in Nat /\ Cardinality(T) \in Nat
        /\ Cardinality(S) <= Cardinality(T)
    BY <2>3, <2>4, FS_Subset, FS_CardinalityType
  <2> QED BY <2>2, <2>5, <2>6
<1> QED BY <1>1, UsesTable, TypeCorrect, CountsCorrect, TextInit, TextStep, PTL DEF CounterSpec
=============================================================================
