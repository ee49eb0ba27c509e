------------------------------- MODULE Logger --------------------------------
(***************************************************************************)
(* The logging library (hw16/logger.c, and its copy in final_project):     *)
(* threads print messages, piece by piece under one mutex, to the file     *)
(* that loginit opened or else to stderr; any thread may call loginit.     *)
(***************************************************************************)
EXTENDS Naturals

CONSTANTS
  Caller,  \* the threads of the program
  Nobody,  \* the mutex is free; nothing was written yet
  LogFile, \* names that loginit is called with
  stderr,  \* where messages go while no file is open
  Level,   \* the levels of messages
  LERR,    \* the level whose messages carry a backtrace
  Quiet    \* loginit is called only while no other thread is in the library

ASSUME LoggerAssumption ==
  /\ Nobody \notin Caller
  /\ stderr \notin LogFile
  /\ LERR \in Level
  /\ Quiet \in BOOLEAN

VARIABLES
  log_pc,    \* log_pc[t]: where thread t is in the library
  mtx,       \* the thread that holds the mutex, or Nobody
  logfile,   \* the open log file, or stderr for a null pointer
  level_en,  \* the levels that are on
  msg,       \* msg[t]: the level of the message t prints
  last       \* last[f]: history, read by no action: who wrote to f last

loggerVars == <<log_pc, mtx, logfile, level_en, msg, last>>

Sink == LogFile \cup {stderr}

InLogInit  == {"init", "init lock", "open", "init unlock", "fail unlock", "complain"}
InLogPrint == {"check", "lock", "head", "body", "newline", "trace", "unlock"}

\* The statements between mtx_lock and mtx_unlock, with the latter.
Critical ==
  {"open", "init unlock", "fail unlock", "head", "body", "newline", "trace", "unlock"}

-----------------------------------------------------------------------------
\* Nothing is open and every level is off; a mutex never initialised is all zeros,
\* which is a free mutex.
LoggerInit ==
  /\ log_pc = [t \in Caller |-> "idle"]
  /\ mtx = Nobody
  /\ logfile = stderr
  /\ level_en = {}
  /\ msg \in [Caller -> Level]
  /\ last = [f \in Sink |-> Nobody]

Goto(t, label) == log_pc' = [log_pc EXCEPT ![t] = label]

\* A thread calls loginit ...
CallLogInit(t) ==
  /\ log_pc[t] = "idle"
  /\ Quiet => \A u \in Caller : log_pc[u] = "idle"
  /\ Goto(t, "init")
  /\ UNCHANGED <<mtx, logfile, level_en, msg, last>>

\* ... or logprint; a thread that respects Quiet keeps out during loginit.
CallLogPrint(t) ==
  /\ log_pc[t] = "idle"
  /\ Quiet => \A u \in Caller : log_pc[u] \notin InLogInit
  /\ \E l \in Level : msg' = [msg EXCEPT ![t] = l]
  /\ Goto(t, "check")
  /\ UNCHANGED <<mtx, logfile, level_en, last>>

\* loglevel_on and loglevel_off: an atomic store.
LogLevelOn  == \E l \in Level : level_en' = level_en \cup {l}
LogLevelOff == \E l \in Level : level_en' = level_en \ {l}

SetLevel == (LogLevelOn \/ LogLevelOff) /\ UNCHANGED <<log_pc, mtx, logfile, msg, last>>

\* mtx_init: the mutex is free afterwards, whoever held it.
MtxInit(t) ==
  /\ log_pc[t] = "init"
  /\ mtx' = Nobody
  /\ Goto(t, "init lock")
  /\ UNCHANGED <<logfile, level_en, msg, last>>

\* mtx_lock waits until the mutex is free.
MtxLock(t, from, to) ==
  /\ log_pc[t] = from
  /\ mtx = Nobody
  /\ mtx' = t
  /\ Goto(t, to)
  /\ UNCHANGED <<logfile, level_en, msg, last>>

\* Mutant of MtxUnlock: the mutex is kept.
MtxKeep(t, from, to) ==
  /\ log_pc[t] = from
  /\ Goto(t, to)
  /\ UNCHANGED <<mtx, logfile, level_en, msg, last>>

\* mtx_unlock: the mutex is free afterwards, whoever holds it.
MtxUnlock(t, from, to) ==
  /\ log_pc[t] = from
  /\ mtx' = Nobody
  /\ Goto(t, to)
  /\ UNCHANGED <<logfile, level_en, msg, last>>

\* fopen opens the file ...
Open(t) ==
  /\ log_pc[t] = "open"
  /\ logfile' \in LogFile
  /\ Goto(t, "init unlock")
  /\ UNCHANGED <<mtx, level_en, msg, last>>

\* Mutant of OpenFails: there is no file to fall back to.
OpenNothing(t) ==
  /\ log_pc[t] = "open"
  /\ logfile' = Nobody
  /\ Goto(t, "fail unlock")
  /\ UNCHANGED <<mtx, level_en, msg, last>>

\* ... or fails: logfile is null and stderr is used.
OpenFails(t) ==
  /\ log_pc[t] = "open"
  /\ logfile' = stderr
  /\ Goto(t, "fail unlock")
  /\ UNCHANGED <<mtx, level_en, msg, last>>

\* The failure is reported, without the mutex.
Complain(t) ==
  /\ log_pc[t] = "complain"
  /\ last' = [last EXCEPT ![stderr] = t]
  /\ Goto(t, "idle")
  /\ UNCHANGED <<mtx, logfile, level_en, msg>>

\* logprint: the level is looked at before the mutex is taken.
Check(t) ==
  /\ log_pc[t] = "check"
  /\ IF msg[t] \in level_en THEN Goto(t, "lock") ELSE Goto(t, "idle")
  /\ UNCHANGED <<mtx, logfile, level_en, msg, last>>

\* A piece is written to whatever file LFILE is by now.
Write(t) == last' = [last EXCEPT ![logfile] = t]

\* strftime and the first two fprintf: the time, the level and the place.
WriteHead(t) ==
  /\ log_pc[t] = "head"
  /\ Write(t)
  /\ Goto(t, "body")
  /\ UNCHANGED <<mtx, logfile, level_en, msg>>

\* The message.
WriteBody(t) ==
  /\ log_pc[t] = "body"
  /\ Write(t)
  /\ Goto(t, "newline")
  /\ UNCHANGED <<mtx, logfile, level_en, msg>>

\* Mutant of WriteNewline: the mutex is given back before the backtrace.
WriteNewlineUnlock(t) ==
  /\ log_pc[t] = "newline"
  /\ Write(t)
  /\ mtx' = Nobody
  /\ IF msg[t] = LERR /\ LERR \in level_en THEN Goto(t, "trace") ELSE Goto(t, "unlock")
  /\ UNCHANGED <<logfile, level_en, msg>>

\* The end of the line; an error message has a backtrace to come.
WriteNewline(t) ==
  /\ log_pc[t] = "newline"
  /\ Write(t)
  /\ IF msg[t] = LERR /\ LERR \in level_en THEN Goto(t, "trace") ELSE Goto(t, "unlock")
  /\ UNCHANGED <<mtx, logfile, level_en, msg>>

\* backtrace_symbols_fd
WriteTrace(t) ==
  /\ log_pc[t] = "trace"
  /\ Write(t)
  /\ Goto(t, "unlock")
  /\ UNCHANGED <<mtx, logfile, level_en, msg>>

InsideStep(t) ==
  \/ MtxInit(t)
  \/ MtxLock(t, "init lock", "open")
  \/ Open(t)
  \/ OpenFails(t)
  \/ MtxUnlock(t, "init unlock", "idle")
  \/ MtxUnlock(t, "fail unlock", "complain")
  \/ Complain(t)
  \/ Check(t)
  \/ MtxLock(t, "lock", "head")
  \/ WriteHead(t)
  \/ WriteBody(t)
  \/ WriteNewline(t)
  \/ WriteTrace(t)
  \/ MtxUnlock(t, "unlock", "idle")

LoggerNext ==
  \/ \E t \in Caller : CallLogInit(t) \/ CallLogPrint(t) \/ InsideStep(t)
  \/ SetLevel

LoggerSpec == LoggerInit /\ [][LoggerNext]_loggerVars

\* Every thread in the library is scheduled, and the mutex is not withheld for ever
\* from one that waits.
LoggerFairness ==
  \A t \in Caller :
    /\ WF_loggerVars(InsideStep(t))
    /\ SF_loggerVars(MtxLock(t, "lock", "head") \/ MtxLock(t, "init lock", "open"))

-----------------------------------------------------------------------------
\* Type invariant of the library and its threads.
LoggerTypeOK ==
  /\ log_pc \in [Caller -> {"idle"} \cup InLogInit \cup InLogPrint]
  /\ mtx \in Caller \cup {Nobody}
  /\ logfile \in Sink
  /\ level_en \in SUBSET Level
  /\ msg \in [Caller -> Level]
  /\ last \in [Sink -> Caller \cup {Nobody}]

\* The pieces of a message, its backtrace included, follow one another in one file:
\* before each further piece its thread is the last to have written to where that
\* piece goes (logger.c:55-71).
MessageWhole ==
  \A t \in Caller :
    log_pc[t] \in {"body", "newline", "trace"} => last[logfile] = t

\* A call of logprint or loginit returns (logger.c:19-36, 48-73).
CallsReturn == \A t \in Caller : log_pc[t] # "idle" ~> log_pc[t] = "idle"
=============================================================================
