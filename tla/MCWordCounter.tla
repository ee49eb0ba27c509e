---------------------------- MODULE MCWordCounter ----------------------------
(***************************************************************************)
(* A small instance of WordCounter: words of one or two letters, hashed by *)
(* the polynomial of hashtable.c, with letters chosen so that words        *)
(* collide in tables of four and eight cells and wrap around the end.      *)
(***************************************************************************)
EXTENDS WordCounter, SequencesExt

HASH_P == 163
HASH_BASE_SYMBOL == 32

Char1 == {35, 39}
Space1 == 32
MaxLength1 == 3
Word1 == UNION { [1..n -> Char1] : n \in 1 .. MaxLength1-1 }

\* hash: the sum of (word[i] - HASH_BASE_SYMBOL) * HASH_P^i
Hash1 == [w \in Word1 |->
  FoldLeft(LAMBDA h, n : h + (w[n] - HASH_BASE_SYMBOL) * HASH_P^(n-1), 0, [n \in DOMAIN w |-> n])]

\* Every short text, and texts of five words
ShortFiles == UNION { [1..n -> Char1 \cup {Space1}] : n \in 0..5 }
LongFiles == { FlattenSeq([n \in 1..5 |-> ws[n] \o <<Space1>>]) :
          ws \in { ws \in [1..5 -> Word1] : /\ ws[1] = <<35>> /\ ws[2] \in {<<39>>, <<35, 35>>}
                                            /\ Len(ws[3]) = 2 } }
Files1 == ShortFiles \cup LongFiles
=============================================================================
