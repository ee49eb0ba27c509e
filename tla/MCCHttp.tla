------------------------------- MODULE MCCHttp -------------------------------
(***************************************************************************)
(* A small instance of CHttp: three clients, one of which asks for "/",    *)
(* and a server that holds two of them.                                    *)
(***************************************************************************)
EXTENDS CHttp

Path1 == [c \in Client |-> CASE c = "a" -> "index" [] c = "b" -> "t" [] c = "c" -> Root]
Sends1 == [c \in Client |-> CASE c = "a" -> {{"whole", "eof"}, {"head", "tail"}}
                              [] c = "b" -> {{"whole"}, {"head", "eof"}}
                              [] c = "c" -> {{"whole"}, {"eof"}}]
=============================================================================
