------------------------------- MODULE MCDemon -------------------------------
(***************************************************************************)
(* Small instances of Demon for TLC.                                       *)
(***************************************************************************)
EXTENDS Demon

CONSTANTS s1, s2, f1, f2

Cfg(s, f) == [socket |-> s, file |-> f]

\* The operator changes the monitored file, and the socket's name.
FileEdits == {Cfg(s1, f1), Cfg(s1, f2), Cfg(s2, NoName)}
=============================================================================
