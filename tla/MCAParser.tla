------------------------------ MODULE MCAParser ------------------------------
(***************************************************************************)
(* A small instance of AParser: three files, with lines in the combined    *)
(* format, a line of a port scanner (the comment above parse_string quotes *)
(* one), one without a size, and one that is cut off.                      *)
(***************************************************************************)
EXTENDS AParser

Number1 == [w \in {"1", "2", "3"} |-> CASE w = "1" -> 1 [] w = "2" -> 2 [] w = "3" -> 3]

\* address "GET url HTTP" status size "referer" "agent"
Combined(url, size, referer, agent) ==
  <<"addr", Q, "GET", S, url, S, "HTTP", Q, S, "200", S, size, S, Q, referer, Q, S, Q, agent, Q>>
Scanner == <<"addr", Q, "\\x03", Q, S, "400", S, "3", S, Q, "-", Q, S, Q, "-", Q>>
CutOff == <<"addr", Q, "GET", S, "/b", S, "HTTP", Q, S, "200">>

Fields ==
  [a |-> << <<"/a", "3", "site", "moz">>, <<"/b", "2", "site", "lynx">> >>,
   b |-> << <<"/a", "2", "blog", "moz">>, <<"/b", "-", "blog", "moz">>, <<"/b", "3", "blog", "moz">> >>,
   c |-> << <<"/b", "3", "site", "lynx">>, <<"/c", "1", "site", "moz">> >>]

Content1 ==
  [f \in {"a", "b", "c"} |->
    [n \in DOMAIN Fields[f] |-> LET d == Fields[f][n] IN Combined(d[1], d[2], d[3], d[4])]
      \o (CASE f = "a" -> <<Scanner>> [] f = "b" -> <<CutOff>> [] OTHER -> <<>>)]

\* hw22/README.md:5: the ten most frequent Referers.  The number shown for a
\* referer is the number of lines that name it.
RefererIsCounted ==
  parser_pc = "done" /\ skipped = {} =>
    \A ref \in {"site", "blog"} :
      (IF <<ref>> \in DOMAIN all_stats.referer THEN all_stats.referer[<<ref>>] ELSE 0)
        = Cardinality(UNION { {f} \X { n \in DOMAIN Fields[f] : Fields[f][n][3] = ref } :
                                f \in {"a", "b", "c"} })
=============================================================================
