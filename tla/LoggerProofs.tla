---------------------------- MODULE LoggerProofs -----------------------------
(***************************************************************************)
(* Proofs about the logging library: its mutex keeps every message whole,  *)
(* whatever the number of threads, files and levels, as long as loginit is *)
(* called while no other thread is in the library.                         *)
(***************************************************************************)
EXTENDS Logger, TLAPS

\* A thread that is past mtx_init in loginit or in logprint holds the mutex exactly
\* where the code says, and nobody else is in the library during loginit.
HolderIsCritical == \A t \in Caller : log_pc[t] \in Critical <=> mtx = t

InitAlone ==
  \A t, u \in Caller : log_pc[t] \in InLogInit /\ u # t => log_pc[u] = "idle"

IInv == LoggerTypeOK /\ HolderIsCritical /\ InitAlone /\ MessageWhole

-----------------------------------------------------------------------------
\* The invariant holds initially.
LEMMA InitIInv == LoggerInit => IInv
BY LoggerAssumption
   DEF LoggerInit, IInv, LoggerTypeOK, HolderIsCritical, InitAlone, MessageWhole, Critical,
       InLogInit, InLogPrint, Sink

\* Entering the library, and changing the levels, keep it.
LEMMA CallStep ==
  ASSUME IInv, Quiet,
         (\E t \in Caller : CallLogInit(t) \/ CallLogPrint(t)) \/ SetLevel
  PROVE  IInv'
<1>1. ASSUME NEW t \in Caller, CallLogInit(t)
      PROVE  IInv'
  BY <1>1 DEF IInv, LoggerTypeOK, HolderIsCritical, InitAlone, MessageWhole, Critical,
              InLogInit, InLogPrint, Sink, CallLogInit, Goto
<1>2. ASSUME NEW t \in Caller, CallLogPrint(t)
      PROVE  IInv'
  <2>1. LoggerTypeOK'
    BY <1>2 DEF IInv, LoggerTypeOK, InLogInit, InLogPrint, Sink, CallLogPrint, Goto
  <2>2. log_pc'[t] = "check" /\ \A u \in Caller : u # t => log_pc'[u] = log_pc[u]
    BY <1>2 DEF IInv, LoggerTypeOK, CallLogPrint, Goto
  <2>3. HolderIsCritical'
    BY <1>2, <2>2 DEF IInv, HolderIsCritical, CallLogPrint, Critical
  <2>4. \A u \in Caller : log_pc'[u] \notin InLogInit
    BY <1>2, <2>2 DEF CallLogPrint, InLogInit
  <2>5. InitAlone'
    BY <2>4 DEF InitAlone
  <2>6. MessageWhole'
    BY <1>2, <2>2 DEF IInv, MessageWhole, CallLogPrint
  <2> QED
    BY <2>1, <2>3, <2>5, <2>6 DEF IInv
<1>3. ASSUME SetLevel
      PROVE  IInv'
  BY <1>3 DEF IInv, LoggerTypeOK, HolderIsCritical, InitAlone, MessageWhole, Critical,
              InLogInit, InLogPrint, Sink, SetLevel, LogLevelOn, LogLevelOff
<1> QED
  BY <1>1, <1>2, <1>3

\* A thread in loginit is alone: its step keeps the invariant as soon as it leaves
\* the mutex with itself or with nobody, as its next label says.
LEMMA AloneStep ==
  ASSUME IInv, LoggerTypeOK',
         NEW t \in Caller, log_pc[t] \in InLogInit,
         NEW label \in InLogInit \cup {"idle"}, Goto(t, label),
         mtx' = IF label \in Critical THEN t ELSE Nobody
  PROVE  IInv'
<1>1. \A u \in Caller : u # t => log_pc[u] = "idle" /\ log_pc'[u] = "idle"
  BY DEF IInv, InitAlone, LoggerTypeOK, Goto
<1>2. log_pc'[t] = label
  BY DEF IInv, LoggerTypeOK, Goto
<1>3. \A u \in Caller : u # t => log_pc'[u] \notin Critical /\ mtx' # u
  BY <1>1, LoggerAssumption DEF Critical
<1>4. HolderIsCritical'
  BY <1>2, <1>3, LoggerAssumption DEF HolderIsCritical
<1>5. InitAlone'
  <2> SUFFICES ASSUME NEW u \in Caller, NEW v \in Caller, log_pc'[u] \in InLogInit, v # u
               PROVE  log_pc'[v] = "idle"
    BY DEF InitAlone
  <2>1. u = t
    BY <1>1 DEF InLogInit
  <2> QED
    BY <2>1, <1>1
<1>6. \A u \in Caller : log_pc'[u] \notin {"body", "newline", "trace"}
  BY <1>1, <1>2 DEF InLogInit
<1>7. MessageWhole'
  BY <1>6 DEF MessageWhole
<1> QED
  BY <1>4, <1>5, <1>7 DEF IInv

\* So do the steps of loginit.
LEMMA LogInitStep ==
  ASSUME IInv, NEW t \in Caller,
         \/ MtxInit(t)
         \/ MtxLock(t, "init lock", "open")
         \/ Open(t)
         \/ OpenFails(t)
         \/ MtxUnlock(t, "init unlock", "idle")
         \/ MtxUnlock(t, "fail unlock", "complain")
         \/ Complain(t)
  PROVE  IInv'
<1> USE DEF LoggerTypeOK, InLogInit, InLogPrint, Sink, Goto
<1>0. LoggerTypeOK /\ (log_pc[t] \in Critical <=> mtx = t)
  BY DEF IInv, HolderIsCritical
<1>i. ASSUME log_pc[t] \in {"init lock", "complain"}
      PROVE  mtx = Nobody
  BY <1>0, <1>i DEF IInv, HolderIsCritical, InitAlone, Critical
<1>1. CASE MtxInit(t)
  <2>1. LoggerTypeOK'
    BY <1>0, <1>1 DEF MtxInit
  <2> QED
    BY <1>1, <2>1, AloneStep DEF MtxInit, Critical
<1>2. CASE MtxLock(t, "init lock", "open")
  <2>1. LoggerTypeOK'
    BY <1>0, <1>2 DEF MtxLock
  <2> QED
    BY <1>2, <2>1, AloneStep DEF MtxLock, Critical
<1>3. CASE Open(t)
  <2>1. LoggerTypeOK'
    BY <1>0, <1>3 DEF Open
  <2> QED
    BY <1>0, <1>3, <2>1, AloneStep DEF Open, Critical
<1>4. CASE OpenFails(t)
  <2>1. LoggerTypeOK'
    BY <1>0, <1>4 DEF OpenFails
  <2> QED
    BY <1>0, <1>4, <2>1, AloneStep DEF OpenFails, Critical
<1>5. CASE MtxUnlock(t, "init unlock", "idle")
  <2>1. LoggerTypeOK'
    BY <1>0, <1>5 DEF MtxUnlock
  <2> QED
    BY <1>5, <2>1, AloneStep DEF MtxUnlock, Critical
<1>6. CASE MtxUnlock(t, "fail unlock", "complain")
  <2>1. LoggerTypeOK'
    BY <1>0, <1>6 DEF MtxUnlock
  <2> QED
    BY <1>6, <2>1, AloneStep DEF MtxUnlock, Critical
<1>7. CASE Complain(t)
  <2>1. LoggerTypeOK'
    BY <1>0, <1>7 DEF Complain
  <2> QED
    BY <1>i, <1>7, <2>1, AloneStep DEF Complain, Critical
<1> QED
  BY <1>1, <1>2, <1>3, <1>4, <1>5, <1>6, <1>7

\* A thread that writes a piece holds the mutex, so no other is in the middle of a
\* message.
LEMMA WriteStep ==
  ASSUME IInv, NEW t \in Caller, Write(t),
         log_pc[t] \in {"head", "body", "newline", "trace"},
         NEW label \in {"body", "newline", "trace", "unlock"}, Goto(t, label),
         UNCHANGED <<mtx, logfile, level_en, msg>>
  PROVE  IInv'
<1>1. LoggerTypeOK'
  BY DEF IInv, LoggerTypeOK, InLogInit, InLogPrint, Sink, Write, Goto
<1>2. log_pc'[t] = label /\ \A u \in Caller : u # t => log_pc'[u] = log_pc[u]
  BY DEF IInv, LoggerTypeOK, Goto
<1>3. mtx = t
  BY DEF IInv, HolderIsCritical, Critical
<1>4. HolderIsCritical'
  BY <1>2, <1>3 DEF IInv, HolderIsCritical, Critical
<1>5. InitAlone'
  BY <1>2 DEF IInv, InitAlone, InLogInit
<1>6. last'[logfile'] = t
  BY DEF IInv, LoggerTypeOK, Write
<1>7. MessageWhole'
  BY <1>2, <1>3, <1>4, <1>6 DEF MessageWhole, HolderIsCritical, Critical
<1> QED
  BY <1>1, <1>4, <1>5, <1>7 DEF IInv

\* So do the steps of logprint: a piece is written by the holder of the mutex only.
LEMMA LogPrintStep ==
  ASSUME IInv, NEW t \in Caller,
         \/ Check(t)
         \/ MtxLock(t, "lock", "head")
         \/ WriteHead(t)
         \/ WriteBody(t)
         \/ WriteNewline(t)
         \/ WriteTrace(t)
         \/ MtxUnlock(t, "unlock", "idle")
  PROVE  IInv'
<1> USE LoggerAssumption
<1>1. CASE Check(t)
  BY <1>1 DEF Check, IInv, LoggerTypeOK, HolderIsCritical, InitAlone, MessageWhole, Critical,
              InLogInit, InLogPrint, Sink, Goto
<1>2. CASE MtxLock(t, "lock", "head")
  BY <1>2 DEF MtxLock, IInv, LoggerTypeOK, HolderIsCritical, InitAlone, MessageWhole, Critical,
              InLogInit, InLogPrint, Sink, Goto
<1>3. CASE WriteHead(t)
  BY <1>3, WriteStep DEF WriteHead
<1>4. CASE WriteBody(t)
  BY <1>4, WriteStep DEF WriteBody
<1>5. CASE WriteNewline(t)
  <2>1. CASE msg[t] = LERR /\ LERR \in level_en
    BY <1>5, <2>1, WriteStep DEF WriteNewline
  <2>2. CASE ~(msg[t] = LERR /\ LERR \in level_en)
    BY <1>5, <2>2, WriteStep DEF WriteNewline
  <2> QED
    BY <2>1, <2>2
<1>6. CASE WriteTrace(t)
  BY <1>6, WriteStep DEF WriteTrace
<1>7. CASE MtxUnlock(t, "unlock", "idle")
  BY <1>7 DEF MtxUnlock, IInv, LoggerTypeOK, HolderIsCritical, InitAlone, MessageWhole, Critical,
              InLogInit, InLogPrint, Sink, Goto
<1> QED
  BY <1>1, <1>2, <1>3, <1>4, <1>5, <1>6, <1>7

-----------------------------------------------------------------------------
\* The mutex of logger.c is held by the thread in the critical section and by no
\* other, in every reachable state of a program that calls loginit alone.
THEOREM Invariance ==
  ASSUME Quiet
  PROVE  LoggerSpec => []IInv
<1>1. IInv /\ [LoggerNext]_loggerVars => IInv'
  <2> SUFFICES ASSUME IInv, [LoggerNext]_loggerVars
               PROVE  IInv'
    OBVIOUS
  <2>1. CASE (\E t \in Caller : CallLogInit(t) \/ CallLogPrint(t)) \/ SetLevel
    BY <2>1, CallStep
  <2>2. ASSUME NEW t \in Caller, InsideStep(t)
        PROVE  IInv'
    BY <2>2, LogInitStep, LogPrintStep DEF InsideStep
  <2>3. CASE UNCHANGED loggerVars
    BY <2>3 DEF loggerVars, IInv, LoggerTypeOK, HolderIsCritical, InitAlone, MessageWhole
  <2> QED
    BY <2>1, <2>2, <2>3 DEF LoggerNext
<1> QED
  BY <1>1, InitIInv, PTL DEF LoggerSpec

\* Type correctness of the library (logger.c:15-73).
THEOREM TypeCorrect ==
  ASSUME Quiet
  PROVE  LoggerSpec => []LoggerTypeOK
<1>1. IInv => LoggerTypeOK
  BY DEF IInv
<1> QED
  BY <1>1, Invariance, PTL

\* The pieces of a message are written one after the other to one file, with no
\* other thread's between them (logger.c:55-71).
THEOREM MessageWholeAlways ==
  ASSUME Quiet
  PROVE  LoggerSpec => []MessageWhole
<1>1. IInv => MessageWhole
  BY DEF IInv
<1> QED
  BY <1>1, Invariance, PTL
=============================================================================
