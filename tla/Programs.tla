------------------------------- MODULE Programs -------------------------------
(***************************************************************************)
(* The programs that have nothing to do with one another, side by side:    *)
(* the logging library, the word counter, the log parser, Tetris and those *)
(* of Tools.  Each behaviour is one of one of them, with the fairness of   *)
(* that program; the others stay where they begin.                         *)
(***************************************************************************)
EXTENDS Logger, WordCounter, AParser, Tetris, Tools

VARIABLE program

counterVars == <<tableVars, readerVars>>
toolsVars == <<tool, zipVars, figVars, treeVars>>
programsVars == <<program, loggerVars, counterVars, parserVars, tetrisVars, toolsVars>>

\* A program that is not the one that runs begins in one state.
Frozen ==
  /\ program # "logger" => msg = [t \in Caller |-> LERR]
  /\ program # "word_counter" => file = <<>>
  /\ program # "aparser" => dirty = {}
  /\ program # "tetris" =>
       block = [kind |-> CHOOSE k \in Kinds : TRUE, rot |-> 0, x |-> START_X, y |-> 0]
  /\ program # "tools" =>
       /\ tool = "telefig"
       /\ zip_file = Zipj!Bytes(CHOOSE input \in Inputs : TRUE)
       /\ parent = CHOOSE t \in Trees : TRUE

ProgramsInit ==
  /\ program \in {"logger", "word_counter", "aparser", "tetris", "tools"}
  /\ Frozen
  /\ LoggerInit /\ CounterInit /\ ParserInit /\ TetrisInit /\ ToolsInit

ProgramsNext ==
  /\ \/ /\ program = "logger" /\ LoggerNext
        /\ UNCHANGED <<counterVars, parserVars, tetrisVars, toolsVars>>
     \/ /\ program = "word_counter" /\ CounterNext
        /\ UNCHANGED <<loggerVars, parserVars, tetrisVars, toolsVars>>
     \/ /\ program = "aparser" /\ ParserNext
        /\ UNCHANGED <<loggerVars, counterVars, tetrisVars, toolsVars>>
     \/ /\ program = "tetris" /\ TetrisNext
        /\ UNCHANGED <<loggerVars, counterVars, parserVars, toolsVars>>
     \/ /\ program = "tools" /\ ToolsNext
        /\ UNCHANGED <<loggerVars, counterVars, parserVars, tetrisVars>>
  /\ UNCHANGED program

\* The program that runs is scheduled as its own module says.
ProgramsFairness ==
  /\ LoggerFairness
  /\ CounterFairness
  /\ program = "tetris" => TetrisFairness

ProgramsSpec == ProgramsInit /\ [][ProgramsNext]_programsVars /\ ProgramsFairness

-----------------------------------------------------------------------------
\* The liveness of a program is that of the behaviours in which it runs; in the
\* initial states of the logger and the word counter it holds as it is.

\* The game of tetris.c goes on from block to block (tetris.c:388-524).
BlockComes == program = "tetris" => NextBlockComes
=============================================================================
