------------------------------- MODULE AParser -------------------------------
(***************************************************************************)
(* hw22/aparser.c: log files are dealt out to threads, each thread sums up *)
(* its files in tables of its own, and the main program joins the threads, *)
(* merges the tables and ranks their entries.  A size_t has SIZE values,   *)
(* an int INT of them.                                                     *)
(***************************************************************************)
EXTENDS AccessLine, FiniteSetsExt

CONSTANTS
  File,         \* the files of the directory
  Content,      \* the lines of each file
  threads_num,
  topsize,
  INT, SIZE     \* the numbers of values of the two types

ASSUME AParserAssumption ==
  /\ IsFiniteSet(File) /\ \A f \in File : Content[f] \in Seq(Range(Content[f]))
  /\ threads_num \in Nat \ {0} /\ topsize \in Nat \ {0}
  /\ {INT, SIZE} \subseteq Nat \ {0} /\ INT % 2 = 0 /\ SIZE % INT = 0

VARIABLES
  parser_pc, \* of main: "split", "create", "join", "merge", "urls", "referers", "done", "crashed"
  i,         \* its loop counter
  rest,      \* files not dealt out yet, then table entries not ranked yet
  logfiles,  \* the list of each thread
  dirty,     \* threads whose list head held garbage when the first file was prepended
  tpc,       \* of each thread: "new", "files", "lines", "ended"
  lines,     \* the lines its open file still has
  stats,     \* logfile_stats of each thread
  skipped,   \* files that could not be opened
  all_stats,
  top        \* the entries ranked so far, by table

parserVars == <<parser_pc, i, rest, logfiles, dirty, tpc, lines, stats, skipped, all_stats, top>>
mainVars == <<parser_pc, i, rest, all_stats, top>>
threadVars == <<logfiles, tpc, lines, stats, skipped>>

Thread == 0 .. threads_num-1
Table == {"url", "referer"}
Empty == [x \in {} |-> 0]
NoStats == [total |-> 0, url |-> Empty, referer |-> Empty]
NoEntry == [key |-> <<>>, count |-> 0]

Parsed == [f \in File |-> [n \in DOMAIN Content[f] |-> parse_string(Content[f][n])]]

-----------------------------------------------------------------------------
(***************************************************************************)
(* Tables                                                                  *)
(***************************************************************************)
\* add_url_stats and add_referer_stats
Add(table, key, n) ==
  [k \in DOMAIN table \cup {key} |->
    ((IF k \in DOMAIN table THEN table[k] ELSE 0) + (IF k = key THEN n ELSE 0)) % SIZE]

\* *((int*) value): the low half of a size_t, with its sign
AsInt(n) == LET low == n % INT IN IF 2 * low >= INT THEN low - INT ELSE low

\* Mutant of Merge: sums that are not cut to a size_t
MergeWide(table, from) ==
  [k \in DOMAIN table \cup DOMAIN from |->
    (IF k \in DOMAIN table THEN table[k] ELSE 0)
      + (IF k \in DOMAIN from THEN AsInt(from[k]) % SIZE ELSE 0)]

\* Mutant of Merge: an entry that is there already is overwritten.
MergeLast(table, from) ==
  [k \in DOMAIN table \cup DOMAIN from |->
    (IF k \in DOMAIN from THEN AsInt(from[k]) ELSE table[k]) % SIZE]

\* copy_url_table and copy_referer_table for every entry of a thread's table
Merge(table, from) ==
  [k \in DOMAIN table \cup DOMAIN from |->
    ((IF k \in DOMAIN table THEN table[k] ELSE 0)
      + (IF k \in DOMAIN from THEN AsInt(from[k]) ELSE 0)) % SIZE]

\* Mutant of Insert: the equal entry is overwritten instead of moved.
InsertOver(ranked, e) ==
  LET k == Max({1} \cup { n \in 1..topsize : e.count <= ranked[n].count })
  IN IF e.count < ranked[topsize].count THEN ranked
     ELSE [n \in 1..topsize |-> CASE n < k -> ranked[n] [] n = k -> e [] OTHER -> ranked[n-1]]

\* One round of get_top_urls: k is where the loop from the end stops.
Insert(ranked, e) ==
  LET k == Max({1} \cup { n \in 1..topsize : e.count <= ranked[n].count })
      p == IF e.count >= ranked[k].count THEN k ELSE k + 1
  IN IF e.count < ranked[topsize].count THEN ranked
     ELSE [n \in 1..topsize |-> CASE n < p -> ranked[n] [] n = p -> e [] OTHER -> ranked[n-1]]

-----------------------------------------------------------------------------
(***************************************************************************)
(* The main thread                                                         *)
(***************************************************************************)
ParserInit ==
  /\ parser_pc = "split" /\ i = 0 /\ rest = File
  /\ logfiles = [t \in Thread |-> <<>>]
  /\ dirty \in SUBSET Thread
  /\ tpc = [t \in Thread |-> "new"]
  /\ lines = [t \in Thread |-> <<>>]
  /\ stats = [t \in Thread |-> NoStats]
  /\ skipped = {}
  /\ all_stats = NoStats
  /\ top = [b \in Table |-> [n \in 1..topsize |-> NoEntry]]

GoTo(next) == parser_pc' = next /\ i' = 0

\* The directory may list the files in any order.
Deal ==
  /\ parser_pc = "split"
  /\ \/ /\ rest = {} /\ GoTo("create") /\ UNCHANGED <<rest, logfiles>>
     \/ \E f \in rest :
          /\ i' = i + 1
          /\ logfiles' = [logfiles EXCEPT ![(i + 1) % threads_num] = <<f>> \o @]
          /\ rest' = rest \ {f}
          /\ UNCHANGED parser_pc
  /\ UNCHANGED <<dirty, tpc, lines, stats, skipped, all_stats, top>>

Create ==
  /\ parser_pc = "create"
  /\ IF i = threads_num
       THEN GoTo("join") /\ UNCHANGED <<tpc, stats>>
       ELSE /\ tpc' = [tpc EXCEPT ![i] = "files"]
            /\ stats' = [stats EXCEPT ![i] = NoStats]
            /\ i' = i + 1 /\ UNCHANGED parser_pc
  /\ UNCHANGED <<rest, logfiles, dirty, lines, skipped, all_stats, top>>

\* Mutant of Join: no pthread_join
JoinNone ==
  parser_pc = "join" /\ GoTo("merge") /\ UNCHANGED <<rest, all_stats, top, dirty, threadVars>>

Join ==
  /\ parser_pc = "join"
  /\ IF i = threads_num
       THEN GoTo("merge")
       ELSE tpc[i] = "ended" /\ i' = i + 1 /\ UNCHANGED parser_pc
  /\ UNCHANGED <<rest, all_stats, top, dirty, threadVars>>

MergeStats ==
  /\ parser_pc = "merge"
  /\ IF i = threads_num
       THEN GoTo("urls") /\ rest' = DOMAIN all_stats.url /\ UNCHANGED all_stats
       ELSE /\ all_stats' = [total |-> (all_stats.total + stats[i].total) % SIZE,
                             url |-> Merge(all_stats.url, stats[i].url),
                             referer |-> Merge(all_stats.referer, stats[i].referer)]
            /\ i' = i + 1 /\ UNCHANGED <<parser_pc, rest>>
  /\ UNCHANGED <<top, dirty, threadVars>>

\* A hash table gives its entries in any order.
Rank(table, at, next, after) ==
  /\ parser_pc = at
  /\ \/ /\ rest = {} /\ GoTo(next) /\ rest' = after /\ UNCHANGED top
     \/ \E k \in rest :
          /\ top' = [top EXCEPT ![table] =
                       Insert(@, [key |-> k, count |-> all_stats[table][k]])]
          /\ rest' = rest \ {k}
          /\ UNCHANGED <<parser_pc, i>>
  /\ UNCHANGED <<all_stats, dirty, threadVars>>

get_top_urls == Rank("url", "urls", "referers", DOMAIN all_stats.referer)
get_top_referers == Rank("referer", "referers", "done", {})

-----------------------------------------------------------------------------
(***************************************************************************)
(* process_files_task of thread t                                          *)
(***************************************************************************)
Alive == parser_pc # "crashed"

OpenFile(t) ==
  /\ Alive /\ tpc[t] = "files" /\ logfiles[t] # <<>>
  /\ logfiles' = [logfiles EXCEPT ![t] = Tail(@)]
  /\ LET f == Head(logfiles[t]) IN
     \/ /\ lines' = [lines EXCEPT ![t] = Parsed[f]]
        /\ tpc' = [tpc EXCEPT ![t] = "lines"]
        /\ UNCHANGED skipped
     \/ skipped' = skipped \cup {f} /\ UNCHANGED <<lines, tpc>>
  /\ UNCHANGED <<mainVars, dirty, stats>>

ParseLine(t) ==
  /\ Alive /\ tpc[t] = "lines" /\ lines[t] # <<>>
  /\ LET r == Head(lines[t]) IN
     stats' = [stats EXCEPT ![t] = [total |-> (@.total + r.bytes) % SIZE,
                                    url |-> Add(@.url, r.url, r.bytes),
                                    referer |-> Add(@.referer, r.referer, 1)]]
  /\ lines' = [lines EXCEPT ![t] = Tail(@)]
  /\ UNCHANGED <<mainVars, dirty, logfiles, tpc, skipped>>

CloseFile(t) ==
  /\ Alive /\ tpc[t] = "lines" /\ lines[t] = <<>>
  /\ tpc' = [tpc EXCEPT ![t] = "files"]
  /\ UNCHANGED <<mainVars, dirty, logfiles, lines, stats, skipped>>

\* Behind the last file, a list ends as its head was: with NULL or garbage.
EndTask(t) ==
  /\ Alive /\ tpc[t] = "files" /\ logfiles[t] = <<>>
  /\ IF t \in dirty THEN parser_pc' = "crashed" /\ UNCHANGED tpc
                    ELSE tpc' = [tpc EXCEPT ![t] = "ended"] /\ UNCHANGED parser_pc
  /\ UNCHANGED <<i, rest, all_stats, top, dirty, logfiles, lines, stats, skipped>>

-----------------------------------------------------------------------------
Main == Deal \/ Create \/ Join \/ MergeStats \/ get_top_urls \/ get_top_referers
Task(t) == OpenFile(t) \/ ParseLine(t) \/ CloseFile(t) \/ EndTask(t)
ParserNext == Main \/ \E t \in Thread : Task(t)

ParserSpec == ParserInit /\ [][ParserNext]_parserVars

-----------------------------------------------------------------------------
(***************************************************************************)
(* Properties                                                              *)
(***************************************************************************)
IsStats(s) ==
  /\ s.total \in 0 .. SIZE-1
  /\ \A b \in Table : \A k \in DOMAIN s[b] : s[b][k] \in 0 .. SIZE-1

ParserTypeOK ==
  /\ parser_pc \in {"split", "create", "join", "merge", "urls", "referers", "done", "crashed"}
  /\ i \in Nat
  /\ parser_pc = "split" => rest \subseteq File
  /\ logfiles \in [Thread -> Seq(File)]
  /\ dirty \subseteq Thread
  /\ tpc \in [Thread -> {"new", "files", "lines", "ended"}]
  /\ DOMAIN lines = Thread
  /\ DOMAIN stats = Thread /\ \A t \in Thread : IsStats(stats[t])
  /\ skipped \subseteq File
  /\ IsStats(all_stats)
  /\ DOMAIN top = Table
  /\ \A b \in DOMAIN top : top[b] \in [1..topsize -> [key : UNION {DOMAIN all_stats[b], {<<>>}},
                                                      count : 0 .. SIZE-1]]

Merged == parser_pc \in {"urls", "referers", "done"}
Line == UNION { {f} \X DOMAIN Parsed[f] : f \in File }
LinesRead == { p \in Line : p[1] \notin skipped }

\* What a line is counted for in each table, and what it adds there
LineKey == [url |-> [p \in Line |-> Parsed[p[1]][p[2]].url],
        referer |-> [p \in Line |-> Parsed[p[1]][p[2]].referer]]
Weight == [url |-> [p \in Line |-> Parsed[p[1]][p[2]].bytes],
           referer |-> [p \in Line |-> 1]]

Sum(b, P) == SumFunctionOnSet(Weight[b], P)
SumOf(b, k, P) == Sum(b, { p \in P : LineKey[b][p] = k })

\* However the files are dealt out and the threads interleave, every line of
\* every readable file is counted once: the results are those of one thread,
\* up to what the width of an int leaves of a thread's share.
EveryLineCountedOnce ==
  Merged =>
    /\ all_stats.total = Sum("url", LinesRead) % SIZE
    /\ \A b \in Table :
         /\ DOMAIN all_stats[b] = { LineKey[b][p] : p \in LinesRead }
         /\ \A k \in DOMAIN all_stats[b] : (all_stats[b][k] - SumOf(b, k, LinesRead)) % INT = 0

\* A sum is exact if every thread's share of it fits into an int.
SharesThatFitAreExact ==
  Merged =>
    \A b \in Table : \A k \in DOMAIN all_stats[b] :
      (\A t \in Thread : k \in DOMAIN stats[t][b] => 2 * stats[t][b][k] < INT)
        => all_stats[b][k] = SumOf(b, k, LinesRead) % SIZE

\* The entries shown are the heaviest ones, in order; what is not shown weighs
\* no more than the last of them.
TopIsHeaviest ==
  parser_pc = "done" =>
    \A b \in Table :
      LET shown == top[b]
          table == all_stats[b]
          used == { n \in 1..topsize : shown[n].count > 0 } IN
      /\ \A n \in 1 .. topsize-1 : shown[n].count >= shown[n+1].count
      /\ \A n \in used : /\ shown[n].key \in DOMAIN table
                         /\ shown[n].count = table[shown[n].key]
                         /\ \A m \in used \ {n} : shown[m].key # shown[n].key
      /\ \A k \in DOMAIN table :
           (\A n \in used : shown[n].key # k) => table[k] <= shown[topsize].count
===========================================================================
