------------------------------ MODULE DemonProofs ------------------------------
(***************************************************************************)
(* Proofs about Demon: its types, and that the socket file follows the     *)
(* daemon through every signal, crash, restart and edit of its             *)
(* configuration, for any clients, names and options.                      *)
(***************************************************************************)
EXTENDS Demon, TLAPS

LEMMA Queues ==
  /\ <<>> \in Seq(Client)
  /\ \A q \in Seq(Client), c \in Client : Append(q, c) \in Seq(Client)
OBVIOUS

LEMMA RereadType ==
  ASSUME TypeOK
  PROVE  Reread \in [socket : Name \cup {NoName}, file : Name \cup {NoName}]
<1>1. config \in [socket : Name \cup {NoName}, file : Name \cup {NoName}]
  BY DemonAssumption DEF TypeOK
<1>2. conf \in [socket : Name \cup {NoName}, file : Name \cup {NoName}]
  BY DEF TypeOK
<1> QED BY <1>1, <1>2 DEF Reread

LEMMA NameTypes ==
  ASSUME TypeOK
  PROVE  socketname \in Name /\ filename \in Name
<1>1. conf.socket \in Name \cup {NoName} /\ conf.file \in Name \cup {NoName}
  BY DEF TypeOK
<1> QED BY <1>1, DemonAssumption DEF socketname, filename

LEMMA TypeInit == Init => TypeOK
<1> SUFFICES ASSUME Init PROVE TypeOK
  OBVIOUS
<1>1. conf \in [socket : Name \cup {NoName}, file : Name \cup {NoName}]
  BY DEF Init, Nothing
<1>2. name \in [of : Name \cup {NoName}, freed : BOOLEAN]
  BY DEF Init, NoTaken
<1>3. reply \in Reply
  BY DEF Init, Reply
<1>4. /\ pc \in Down /\ config \in Configs /\ files = {} /\ finish_work = FALSE
      /\ disposition \in [{"HUP", "INT", "TERM"} -> {"handler", "default", "ignore"}]
      /\ bound = NoName /\ renamed = FALSE /\ msgsock = NoClient /\ sent = {} /\ gone = {} /\ size = NoName
  BY DEF Init, Down
<1>5. queue \in Seq(Client)
  BY Queues DEF Init
<1> QED BY <1>1, <1>2, <1>3, <1>4, <1>5 DEF TypeOK

\* The daemon's own steps
LEMMA TypeDaemon ==
  ASSUME TypeOK, DaemonStep
  PROVE  TypeOK'
<1> USE DEF TypeOK, daemonVars, clientVars, replyVars,
            Running, Down, Starting, Serving, Stopping
<1>1. CASE InstallHandlers BY <1>1 DEF InstallHandlers
<1>2. CASE ReadConfig BY <1>2, RereadType DEF ReadConfig
<1>3. CASE Bind BY <1>3, NameTypes DEF Bind
<1>4. CASE BindFails BY <1>4 DEF BindFails
<1>5. CASE CheckFinish BY <1>5 DEF CheckFinish
<1>6. CASE Accept
  <2>1. Head(queue) \in Client /\ Tail(queue) \in Seq(Client) BY <1>6 DEF Accept
  <2>2. reply' \in Reply BY <1>6 DEF Accept, Reply
  <2> QED BY <1>6, <2>1, <2>2 DEF Accept
<1>7. CASE ReadText BY <1>7 DEF ReadText
<1>8. CASE ReadEnd BY <1>8 DEF ReadEnd
<1>9. CASE TakeName BY <1>9, NameTypes DEF TakeName
<1>10. CASE TakeSize BY <1>10, NameTypes DEF TakeSize
<1>11. CASE Format
  <2>1. PICK n \in (IF name.freed THEN Name ELSE {name.of}) :
          reply' = [named |-> n, measured |-> size]
    BY <1>11 DEF Format
  <2>2. n \in Name /\ size \in Name
    BY <1>11, <2>1 DEF Format
  <2>3. reply' \in Reply
    BY <2>1, <2>2 DEF Reply
  <2>4. name' \in [of : Name \cup {NoName}, freed : BOOLEAN]
    BY <1>11 DEF Format, NoTaken
  <2> QED BY <1>11, <2>3, <2>4 DEF Format
<1>12. CASE Send BY <1>12, Queues DEF Send
<1>13. CASE HangUp BY <1>13 DEF HangUp
<1>14. CASE CloseSock BY <1>14 DEF CloseSock
<1>15. CASE Unlink
  <2>1. Nothing \in [socket : Name \cup {NoName}, file : Name \cup {NoName}] BY DEF Nothing
  <2> QED BY <1>15, <2>1 DEF Unlink
<1> QED BY <1>1, <1>2, <1>3, <1>4, <1>5, <1>6, <1>7, <1>8, <1>9, <1>10, <1>11,
           <1>12, <1>13, <1>14, <1>15 DEF DaemonStep

\* Steps that leave the daemon's own variables and the reply alone.
LEMMA TypeFrame ==
  ASSUME TypeOK, UNCHANGED <<pc, files, daemonVars, replyVars>>,
         config' \in Configs, queue' \in Seq(Client), msgsock' = msgsock,
         sent' \in SUBSET Client, gone' \in SUBSET Client
  PROVE  TypeOK'
<1>1. finish_work' \in BOOLEAN /\ renamed' \in BOOLEAN
  BY DEF TypeOK, daemonVars
<1>2. /\ pc' = pc /\ files' = files /\ disposition' = disposition /\ conf' = conf
      /\ bound' = bound /\ name' = name /\ size' = size /\ reply' = reply
  BY DEF daemonVars, replyVars
<1>3. reply' \in Reply
  BY <1>2 DEF TypeOK
<1> QED BY <1>1, <1>2, <1>3 DEF TypeOK

\* Signals, clients and the operator
LEMMA TypeOthers ==
  ASSUME TypeOK,
         SignalStep \/ (\E c \in Client : ClientStep(c)) \/ Start \/ EditConfig \/ UNCHANGED vars
  PROVE  TypeOK'
<1> USE DEF TypeOK, daemonVars, clientVars, replyVars,
            Running, Down, Starting, Serving, Stopping
<1>1. ASSUME NEW s \in Signals, HandleTerm(s) PROVE TypeOK'
  BY <1>1, DemonAssumption DEF HandleTerm, Resumes
<1>2. ASSUME NEW s \in Signals, Killed(s) PROVE TypeOK'
  BY <1>2, Queues DEF Killed
<1>3. CASE HandleHup
  <2>1. name' \in [of : Name \cup {NoName}, freed : BOOLEAN]
    BY <1>3 DEF HandleHup
  <2>2. renamed' \in BOOLEAN
    <3>1. renamed' = (renamed \/ socketname' # socketname) BY <1>3 DEF HandleHup
    <3> QED BY ONLY <3>1
  <2> QED BY <1>3, <2>1, <2>2, RereadType DEF HandleHup, Resumes
<1>4. ASSUME NEW c \in Client, ClientStep(c) PROVE TypeOK'
  <2>1. CASE Connect(c)
    <3>1. queue' = Append(queue, c) BY <2>1 DEF Connect
    <3>2. queue' \in Seq(Client) BY <3>1, Queues
    <3> QED BY <2>1, <3>2, TypeFrame DEF Connect
  <2>2. CASE SendText(c) BY <2>2, TypeFrame DEF SendText
  <2>3. CASE Leave(c) BY <2>3, TypeFrame DEF Leave
  <2> QED BY <1>4, <2>1, <2>2, <2>3 DEF ClientStep
<1>5. CASE Start
  <2>1. Nothing \in [socket : Name \cup {NoName}, file : Name \cup {NoName}] BY DEF Nothing
  <2>2. name' \in [of : Name \cup {NoName}, freed : BOOLEAN]
    BY <1>5 DEF Start, NoTaken
  <2>3. reply' \in Reply BY <1>5 DEF Start, Reply
  <2> QED BY <1>5, <2>1, <2>2, <2>3 DEF Start
<1>6. CASE EditConfig BY <1>6, TypeFrame DEF EditConfig
<1>7. CASE UNCHANGED vars BY <1>7, TypeFrame DEF vars
<1> QED BY <1>1, <1>2, <1>3, <1>4, <1>5, <1>6, <1>7 DEF SignalStep

LEMMA TypeStep == TypeOK /\ [Next]_vars => TypeOK'
BY TypeDaemon, TypeOthers DEF Next

\* The state stays within its types, for any clients, names, options and signals.
THEOREM TypeCorrect == Spec => []TypeOK
BY TypeInit, TypeStep, PTL DEF Spec

-----------------------------------------------------------------------------
(***************************************************************************)
(* The socket file                                                         *)
(***************************************************************************)
\* While the daemon listens or stops its socket file is there, and it is the one
\* unlink will take away unless the name was changed meanwhile.
SocketInv ==
  /\ Listening \/ pc \in Stopping =>
       bound \in files /\ (~renamed => bound = socketname)
  /\ pc = "exited" /\ ~renamed => bound \notin files

IInv == TypeOK /\ SocketInv

LEMMA IInvInit == Init => IInv
BY TypeInit DEF Init, IInv, SocketInv, Listening, Serving, Stopping

\* Every step keeps the socket's file and name together.
LEMMA IInvStep == IInv /\ [Next]_vars => IInv'
<1> SUFFICES ASSUME IInv, [Next]_vars PROVE SocketInv'
  BY TypeStep DEF IInv
<1> USE DEF daemonVars, clientVars, replyVars
<1>1. TypeOK /\ SocketInv
  BY DEF IInv
<1>2. CASE ReadConfig
  BY <1>2 DEF ReadConfig, SocketInv, Listening, Serving, Stopping
<1>3. CASE Bind
  BY <1>1, <1>3 DEF Bind, SocketInv, Listening, Serving, Stopping, socketname, Starting
<1>4. CASE Unlink
  BY <1>1, <1>4 DEF Unlink, SocketInv, Listening, Serving, Stopping
<1>5. CASE HandleHup
  <2>1. /\ pc \in Running /\ UNCHANGED <<files, bound>>
        /\ ~renamed' => ~renamed /\ socketname' = socketname
    BY <1>5 DEF HandleHup
  <2>2. pc' = pc \/ ((Listening \/ pc \in Stopping) /\ (Listening' \/ pc' \in Stopping))
    BY <1>5 DEF HandleHup, Resumes, Listening, Serving, Stopping
  <2>3. pc' # "exited"
    BY <2>1, <2>2 DEF Running, Listening, Serving, Stopping, Starting
  <2>4. Listening' \/ pc' \in Stopping => Listening \/ pc \in Stopping
    BY <2>2 DEF Listening
  <2> QED BY <1>1, <2>1, <2>3, <2>4 DEF SocketInv
<1>6. CASE Start
  BY <1>6 DEF Start, SocketInv, Listening, Serving, Stopping
<1>7. ASSUME UNCHANGED <<conf, files, bound, renamed>>,
             pc' = pc \/ (pc' \in {"failed", "killed", "broken pipe"})
             \/ (pc = "handlers" /\ pc' = "config")
             \/ ((Listening \/ pc \in Stopping) /\ (Listening' \/ pc' \in Stopping))
      PROVE  SocketInv'
  BY <1>1, <1>7 DEF SocketInv, socketname, Listening, Serving, Stopping
<1>8. CASE DaemonStep /\ ~ ReadConfig /\ ~ Bind /\ ~ Unlink
  BY <1>7, <1>8 DEF DaemonStep, InstallHandlers, BindFails, CheckFinish, Accept, ReadText,
     ReadEnd, TakeName, TakeSize, Format, Send, HangUp, CloseSock, Listening, Serving, Stopping
<1>9. ASSUME NEW s \in Signals, HandleTerm(s) \/ Killed(s) PROVE SocketInv'
  BY <1>7, <1>9 DEF HandleTerm, Killed, Resumes, Listening, Serving, Stopping
<1>10. ASSUME NEW c \in Client, ClientStep(c) PROVE SocketInv'
  BY <1>7, <1>10 DEF ClientStep, Connect, SendText, Leave
<1>11. CASE EditConfig
  BY <1>7, <1>11 DEF EditConfig
<1>12. CASE UNCHANGED vars
  BY <1>7, <1>12 DEF vars
<1> QED BY <1>2, <1>3, <1>4, <1>5, <1>6, <1>8, <1>9, <1>10, <1>11, <1>12
        DEF Next, SignalStep

\* The socket file exists while the daemon listens and, unless its name was
\* changed under the running daemon, is gone when it exits, whatever signals come
\* (demon.c:104-154).
THEOREM SocketFileCorrect == Spec => []SocketFileFollowsDaemon
<1>1. IInv => SocketFileFollowsDaemon
  BY DEF IInv, SocketInv, SocketFileFollowsDaemon
<1> QED BY <1>1, IInvInit, IInvStep, PTL DEF Spec
=============================================================================
