------------------------------ MODULE MCPrograms ------------------------------
(***************************************************************************)
(* The small instances of the programs, put together for TLC.              *)
(***************************************************************************)
EXTENDS Programs, MCWordCounter, MCAParser, MCTools
=============================================================================
