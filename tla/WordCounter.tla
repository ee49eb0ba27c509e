----------------------------- MODULE WordCounter -----------------------------
(***************************************************************************)
(* hw06/wc.c on top of the hash table: the file is read byte by byte, and  *)
(* each word read is added to the table before the next byte is.           *)
(***************************************************************************)
EXTENDS HashTable, Sequences

CONSTANTS
  Char,            \* the bytes that are no space
  Space,
  Files,           \* the files that may be given
  MAX_WORD_LENGTH

\* The words are those that fit into the buffer, and a file has no more than the bound.
ASSUME WordCounterAssumption ==
  /\ Space \notin Char
  /\ MAX_WORD_LENGTH \in Nat \ {0, 1}
  /\ Word = UNION { [1..n -> Char] : n \in 1 .. MAX_WORD_LENGTH-1 }
  /\ \A f \in Files : f \in Seq(Char \cup {Space}) /\ Len(f) <= MaxAdds

VARIABLES
  file,
  pos,     \* the byte fgetc reads next; the one after the last is EOF
  buffer   \* the first i bytes of word

readerVars == <<file, pos, buffer>>

AtEnd == pos > Len(file)

CounterInit == TableInit /\ file \in Files /\ pos = 1 /\ buffer = <<>>

\* Mutant of Continues: room for one byte less.
ContinuesShort == ~ AtEnd /\ file[pos] # Space /\ Len(buffer) < MAX_WORD_LENGTH - 2

\* A byte that belongs to the word in the buffer
Continues == ~ AtEnd /\ file[pos] # Space /\ Len(buffer) < MAX_WORD_LENGTH - 1

Keep ==
  /\ table_pc = "idle" /\ Continues
  /\ buffer' = Append(buffer, file[pos])
  /\ pos' = pos + 1
  /\ UNCHANGED <<tableVars, file>>

\* Any other byte ends the word and is dropped, a space or not; so does EOF.
EndWord ==
  /\ table_pc = "idle" /\ ~ Continues /\ pos <= Len(file) + 1
  /\ IF buffer = <<>> THEN UNCHANGED tableVars ELSE Take(buffer)
  /\ buffer' = <<>>
  /\ pos' = pos + 1
  /\ UNCHANGED file

CounterNext == Keep \/ EndWord \/ (Step /\ UNCHANGED readerVars)

\* hashtable_add runs to its end.
CounterFairness == WF_tableVars(Step /\ UNCHANGED readerVars)

CounterSpec == CounterInit /\ [][CounterNext]_<<tableVars, readerVars>> /\ CounterFairness

-----------------------------------------------------------------------------
ReaderTypeOK ==
  /\ pos \in 1 .. Len(file) + 2
  /\ buffer = <<>> \/ buffer \in Word

\* The file has been read and its words are in the table.
AllRead == pos = Len(file) + 2 /\ table_pc = "idle"

\* w is what stands at p between white space and the ends of the file.
StandsAt(w, p) ==
  /\ p + Len(w) - 1 <= Len(file)
  /\ \A k \in DOMAIN w : file[p + k - 1] = w[k]
  /\ p = 1 \/ file[p - 1] = Space
  /\ p + Len(w) > Len(file) \/ file[p + Len(w)] = Space

TimesIn(w) == Cardinality({ p \in DOMAIN file : StandsAt(w, p) })

\* No word of the file is too long for the buffer.
AllFit ==
  \A p \in DOMAIN file : p + MAX_WORD_LENGTH - 1 <= Len(file) =>
    \E q \in p .. p + MAX_WORD_LENGTH - 1 : file[q] = Space

\* The words of a file are what stands between white space (hw06/README.md:31), and
\* the table has each of them as often as it stands there when none is too long
\* for the buffer; of a file with longer ones it has the others at least as often,
\* wherever in the file and in the buffer they end (wc.c:34-47).
FittingWordsAreCounted ==
  AllRead => \A w \in Word :
    /\ CountOf(w) >= TimesIn(w)
    /\ AllFit => CountOf(w) = TimesIn(w)

\* The same for every file, as hw06/README.md:31 has it.  It does not hold: see the
\* run wc_words.
WordsAreCounted == AllRead => \A w \in Word : CountOf(w) = TimesIn(w)
=============================================================================
