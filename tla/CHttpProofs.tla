---------------------------- MODULE CHttpProofs -----------------------------
(***************************************************************************)
(* Proofs about the HTTP server: with any number of clients on one shared  *)
(* record, a reply goes to the client whose request it answers, and the    *)
(* count of connections is right.                                          *)
(***************************************************************************)
EXTENDS CHttp, FiniteSetTheorems, TLAPS

Open == { c \in Client : state[c] = "open" }

\* A url was read from client c, from the request as a whole if it was sent so.
Honest(url, c) == url.from = c /\ (url.path = Path[c] \/ "head" \in sent[c])

\* The record belongs to a client whose connection is open, and holds a url
\* only between a do_read and the do_write that follows it.
SocketIsOpen == conn_data.sockfd # None => state[conn_data.sockfd] = "open"
UrlOfSocket ==
  conn_data.url # None =>
    pc = "write" /\ conn_data.sockfd # None /\ Honest(conn_data.url, conn_data.sockfd)

\* Accept finds a client, and one that was not accepted before.
ListenWaits == <<Listen, "listen">> \in events => backlog # <<>>
QueueWaits ==
  /\ \A n \in 1 .. Len(backlog) : state[backlog[n]] = "queued"
  /\ \A m, n \in 1 .. Len(backlog) : backlog[m] = backlog[n] => m = n

WholeOrParts ==
  \A c \in Client :
    /\ "whole" \in sent[c] => "head" \notin sent[c]
    /\ "tail" \in sent[c] => "head" \in sent[c]

ReadWasSent == \A c \in Client : input[c] \subseteq sent[c]

RepliesHonest == \A c \in Client : reply[c] # None => Honest(reply[c], c)

Control == SocketIsOpen /\ UrlOfSocket /\ ListenWaits /\ QueueWaits
Requests == WholeOrParts /\ ReadWasSent /\ RepliesHonest
IInv == TypeOK /\ Control /\ Requests /\ CountIsOpenSockets

-----------------------------------------------------------------------------
\* The count after one connection was opened or closed.
LEMMA OpenOneMore ==
  ASSUME NEW S \in SUBSET Client, NEW c \in Client
  PROVE  /\ Cardinality(S) \in Nat
         /\ c \notin S => Cardinality(S \cup {c}) = Cardinality(S) + 1
         /\ c \in S => Cardinality(S \ {c}) = Cardinality(S) - 1
<1>1. IsFiniteSet(S)
  BY CHttpAssumption, FS_Subset
<1> QED
  BY <1>1, FS_CardinalityType, FS_AddElement, FS_RemoveElement

LEMMA InitIInv == Init => IInv
<1> SUFFICES ASSUME Init PROVE IInv
  OBVIOUS
<1>1. TypeOK
  BY CHttpAssumption DEF Init, TypeOK, Zero
<1>2. Control
  BY DEF Init, Control, SocketIsOpen, UrlOfSocket, ListenWaits, QueueWaits, Zero
<1>3. Requests
  BY DEF Init, Requests, WholeOrParts, ReadWasSent, RepliesHonest
<1>4. CountIsOpenSockets
  <2>1. Open = {}
    BY DEF Init, Open
  <2> QED
    BY <2>1, FS_EmptySet DEF Init, Open, CountIsOpenSockets
<1> QED
  BY <1>1, <1>2, <1>3, <1>4 DEF IInv

-----------------------------------------------------------------------------
\* A client that connects or sends keeps the invariant.
LEMMA ConnectStep ==
  ASSUME IInv, NEW c \in Client, Connect(c)
  PROVE  IInv'
<1> USE DEF IInv
<1>1. TypeOK'
  BY DEF TypeOK, Connect
<1>2. state' = [state EXCEPT ![c] = "queued"] /\ state[c] = "away"
  BY DEF Connect
<1>3. SocketIsOpen' /\ UrlOfSocket'
  BY <1>2 DEF TypeOK, Control, SocketIsOpen, UrlOfSocket, Honest, Connect
<1>4. QueueWaits' /\ ListenWaits'
  <2>1. /\ Len(backlog') = Len(backlog) + 1
        /\ \A n \in 1 .. Len(backlog) : backlog'[n] = backlog[n] /\ backlog[n] \in Client
        /\ backlog'[Len(backlog) + 1] = c
    BY DEF TypeOK, Connect
  <2>2. \A n \in 1 .. Len(backlog) : backlog[n] # c
    BY <1>2 DEF Control, QueueWaits
  <2>3. \A n \in 1 .. Len(backlog') : n \in 1 .. Len(backlog) \/ n = Len(backlog) + 1
    BY <2>1 DEF TypeOK
  <2>4. \A n \in 1 .. Len(backlog') : state'[backlog'[n]] = "queued"
    BY <1>2, <2>1, <2>2, <2>3 DEF TypeOK, Control, QueueWaits
  <2>5. \A m, n \in 1 .. Len(backlog') : backlog'[m] = backlog'[n] => m = n
    BY <2>1, <2>2, <2>3 DEF Control, QueueWaits
  <2>6. backlog' # <<>>
    BY <2>1 DEF TypeOK
  <2> QED
    BY <2>4, <2>5, <2>6 DEF QueueWaits, ListenWaits
<1>5. Requests'
  BY DEF Connect, Requests, WholeOrParts, ReadWasSent, RepliesHonest, Honest
<1>6. CountIsOpenSockets'
  <2>1. Open' = Open
    BY <1>2 DEF TypeOK, Open
  <2> QED
    BY <2>1 DEF Connect, Open, CountIsOpenSockets
<1> QED
  BY <1>1, <1>3, <1>4, <1>5, <1>6 DEF Control

LEMMA SendStep ==
  ASSUME IInv, NEW c \in Client, NEW piece \in Piece, Send(c, piece)
  PROVE  IInv'
<1> USE DEF IInv
<1>1. TypeOK'
  BY DEF TypeOK, Send
<1>2. WholeOrParts'
  <2>1. PICK p \in Sends[c] : sent[c] \cup {piece} \subseteq p
    BY DEF Send
  <2>2. "whole" \in p => "head" \notin p
    BY <2>1, CHttpAssumption
  <2>3. /\ sent' = [sent EXCEPT ![c] = @ \cup {piece}]
        /\ piece = "tail" => "head" \in sent[c]
    BY DEF Send
  <2> QED
    BY <2>1, <2>2, <2>3 DEF TypeOK, Requests, WholeOrParts
<1>3. ReadWasSent'
  BY DEF TypeOK, Requests, ReadWasSent, Send
<1>4. \A u, d : d \in Client /\ Honest(u, d) => Honest(u, d)'
  BY DEF TypeOK, Honest, Send
<1>5. RepliesHonest'
  BY <1>4 DEF Send, TypeOK, Requests, RepliesHonest
<1>6. Control'
  BY <1>4 DEF TypeOK, Control, SocketIsOpen, UrlOfSocket, ListenWaits, QueueWaits, Send
<1>7. CountIsOpenSockets'
  BY DEF Send, CountIsOpenSockets
<1> QED
  BY <1>1, <1>2, <1>3, <1>5, <1>6, <1>7 DEF Requests

-----------------------------------------------------------------------------
\* The first element of a queue that is not empty.
LEMMA HeadOfQueue ==
  ASSUME NEW q \in Seq(Client), q # <<>>
  PROVE  Head(q) = q[1] /\ Head(q) \in Client /\ 1 \in 1 .. Len(q)
OBVIOUS

\* The accept of a client, taken in or refused, keeps the invariant.
LEMMA AcceptStep ==
  ASSUME IInv, Accept
  PROVE  IInv'
<1> USE DEF IInv
<1> DEFINE c == Head(backlog)
<1>1. /\ backlog \in Seq(Client) /\ backlog # <<>> /\ c \in Client
      /\ state[c] = "queued" /\ c = backlog[1]
  <2>1. backlog \in Seq(Client)
    BY DEF TypeOK
  <2>2. backlog # <<>>
    BY DEF Control, ListenWaits, Accept
  <2>3. c = backlog[1] /\ c \in Client /\ 1 \in 1 .. Len(backlog)
    BY <2>1, <2>2, HeadOfQueue
  <2>4. state[backlog[1]] = "queued"
    BY <2>3 DEF Control, QueueWaits
  <2> HIDE DEF c
  <2> QED
    BY <2>1, <2>2, <2>3, <2>4
<1>2. /\ backlog' \in Seq(Client) /\ Len(backlog') = Len(backlog) - 1
      /\ \A n \in 1 .. Len(backlog') : backlog'[n] = backlog[n + 1]
  BY <1>1 DEF Accept
<1>3. \A n \in 1 .. Len(backlog') : backlog'[n] \in Client /\ backlog'[n] # c
  BY <1>1, <1>2 DEF Control, QueueWaits
<1>4. conn_data.url = None
  BY DEF Control, UrlOfSocket, Accept
<1>5. state' = [state EXCEPT ![c] = state'[c]]
  BY <1>1 DEF TypeOK, Accept
<1>6. QueueWaits'
  <2>1. \A n \in 1 .. Len(backlog') : n + 1 \in 1 .. Len(backlog)
    BY <1>1, <1>2
  <2>2. \A n \in 1 .. Len(backlog') : state'[backlog'[n]] = "queued"
    BY <1>2, <1>3, <1>5, <2>1 DEF TypeOK, Control, QueueWaits
  <2>3. \A m, n \in 1 .. Len(backlog') : backlog'[m] = backlog'[n] => m + 1 = n + 1
    BY <1>2, <2>1 DEF Control, QueueWaits
  <2> QED
    BY <1>1, <1>2, <2>2, <2>3 DEF QueueWaits
<1>7. Requests'
  BY DEF Accept, Requests, WholeOrParts, ReadWasSent, RepliesHonest, Honest
<1>8. ListenWaits'
  BY DEF Accept, ListenWaits
<1>9. CASE events_count = MAX_EPOLL_EVENTS - 1
  <2>1. state' = [state EXCEPT ![c] = "closed"] /\ UNCHANGED <<ready, conn_data, events_count>>
    BY <1>9 DEF Accept
  <2>2. TypeOK'
    BY <1>1, <1>2, <2>1 DEF TypeOK, Accept
  <2>3. SocketIsOpen' /\ UrlOfSocket'
    BY <1>1, <1>4, <2>1 DEF TypeOK, Control, SocketIsOpen, UrlOfSocket
  <2>4. Open' = Open
    BY <1>1, <2>1 DEF TypeOK, Open
  <2>5. CountIsOpenSockets'
    BY <2>1, <2>4 DEF Open, CountIsOpenSockets
  <2> QED
    BY <1>6, <1>7, <1>8, <2>2, <2>3, <2>5 DEF Control
<1>10. CASE events_count # MAX_EPOLL_EVENTS - 1
  <2>1. /\ state' = [state EXCEPT ![c] = "open"]
        /\ conn_data' = [conn_data EXCEPT !.sockfd = c]
        /\ ready' = ready \cup {c}
        /\ events_count' = events_count + 1
    BY <1>10 DEF Accept
  <2>2. TypeOK'
    <3>1. events_count' \in 1 .. MAX_EPOLL_EVENTS-1
      BY <1>10, <2>1, CHttpAssumption DEF TypeOK
    <3>2. conn_data' \in [sockfd : Client \cup {None}, url : Url \cup {None}, old : BOOLEAN]
      BY <1>1, <2>1 DEF TypeOK
    <3>3. /\ ready' \subseteq Client \cup {Listen}
          /\ state' \in [Client -> {"away", "queued", "open", "closed"}]
      BY <1>1, <2>1 DEF TypeOK
    <3> QED
      BY <1>2, <3>1, <3>2, <3>3 DEF TypeOK, Accept
  <2>3. SocketIsOpen' /\ UrlOfSocket'
    BY <1>1, <1>4, <2>1 DEF TypeOK, SocketIsOpen, UrlOfSocket
  <2>4. Open' = Open \cup {c} /\ c \notin Open /\ Open \subseteq Client
    BY <1>1, <2>1 DEF TypeOK, Open
  <2>5. Cardinality(Open') = Cardinality(Open) + 1
    BY <1>1, <2>4, OpenOneMore
  <2>6. CountIsOpenSockets'
    BY <1>1, <2>1, <2>4, <2>5, OpenOneMore DEF Open, CountIsOpenSockets
  <2> QED
    BY <1>6, <1>7, <1>8, <2>2, <2>3, <2>6 DEF Control
<1> QED
  BY <1>9, <1>10

\* What the loop does between accept, do_read and do_write keeps the invariant.
LEMMA LoopStep ==
  ASSUME IInv, epoll_wait \/ Dispatch \/ ReadFails \/ ReadNothing
  PROVE  IInv'
<1> USE DEF IInv, clientVars
<1>1. UNCHANGED clientVars /\ UNCHANGED events_count
  BY DEF epoll_wait, Dispatch, ReadFails, ReadNothing
<1>2. TypeOK'
  <2>1. CASE epoll_wait
    BY <1>1, <2>1 DEF TypeOK, epoll_wait, Kind
  <2>2. CASE Dispatch
    BY <1>1, <2>2 DEF TypeOK, Dispatch
  <2>3. CASE ReadFails
    BY <1>1, <2>3 DEF TypeOK, ReadFails, AfterRead
  <2>4. CASE ReadNothing
    BY <1>1, <2>4 DEF TypeOK, ReadNothing, AfterRead
  <2> QED
    BY <2>1, <2>2, <2>3, <2>4
<1>3. conn_data'.sockfd = conn_data.sockfd /\ (conn_data'.url # None => conn_data' = conn_data)
  BY DEF TypeOK, epoll_wait, Dispatch, ReadFails, ReadNothing
<1>4. conn_data'.url = None
  BY <1>3 DEF Control, UrlOfSocket, epoll_wait, Dispatch, ReadFails, ReadNothing
<1>5. SocketIsOpen' /\ UrlOfSocket'
  BY <1>1, <1>3, <1>4 DEF Control, SocketIsOpen, UrlOfSocket
<1>6. ListenWaits'
  <2>1. CASE epoll_wait
    BY <1>1, <2>1 DEF epoll_wait, ListenWaits, Kind
  <2>2. CASE ~ epoll_wait
    BY <1>1, <2>2 DEF Control, ListenWaits, Dispatch, ReadFails, ReadNothing
  <2> QED
    BY <2>1, <2>2
<1>7. QueueWaits' /\ Requests' /\ CountIsOpenSockets'
  BY <1>1 DEF Control, QueueWaits, Requests, WholeOrParts, ReadWasSent, RepliesHonest, Honest,
              CountIsOpenSockets
<1> QED
  BY <1>2, <1>5, <1>6, <1>7 DEF Control

\* do_read of a request or a part of one: what it finds is the client's own.
LEMMA ReadStep ==
  ASSUME IInv, Read
  PROVE  IInv'
<1> USE DEF IInv
<1> DEFINE c == conn_data.sockfd
           got == Waiting \ {"eof"}
<1>1. /\ got # {} /\ c # None /\ c \in Client /\ got \subseteq input[c]
      /\ input' = [input EXCEPT ![c] = @ \ got]
      /\ UNCHANGED <<ready, events, events_count, backlog, state, sent, reply>>
  BY DEF TypeOK, Read, Waiting
<1>2. got \subseteq sent[c] /\ got \subseteq {"whole", "head", "tail"}
  BY <1>1 DEF TypeOK, Requests, ReadWasSent, Piece
<1>3. "head" \in sent[c] \/ got = {"whole"}
  BY <1>1, <1>2 DEF Requests, WholeOrParts
<1>4. CASE pc' = AfterRead /\ \E url \in Parsed(c, got) :
                                conn_data' = [conn_data EXCEPT !.url = url, !.old = TRUE]
  <2>1. PICK url \in Parsed(c, got) : conn_data' = [conn_data EXCEPT !.url = url, !.old = TRUE]
    BY <1>4
  <2>2. url \in Url \cup {None} /\ (url # None => Honest(url, c))
    <3>1. CASE got \in {{"whole"}, {"head", "tail"}}
      BY <1>1, <3>1, <2>1 DEF Parsed, Url, Honest
    <3>2. CASE got \notin {{"whole"}, {"head", "tail"}}
      BY <1>1, <1>3, <3>2, <2>1 DEF Parsed, Url, Honest
    <3> QED
      BY <3>1, <3>2
  <2>3. conn_data' \in [sockfd : Client \cup {None}, url : Url \cup {None}, old : BOOLEAN]
        /\ conn_data'.sockfd = c /\ conn_data'.url = url
    BY <2>1, <2>2 DEF TypeOK
  <2>4. TypeOK'
    BY <1>1, <1>4, <2>3 DEF TypeOK, AfterRead
  <2>5. Honest(url, c)' <=> Honest(url, c)
    BY <1>1, <2>3 DEF Honest
  <2>6. SocketIsOpen' /\ UrlOfSocket'
    BY <1>1, <1>4, <2>2, <2>3, <2>5 DEF Control, SocketIsOpen, UrlOfSocket, AfterRead, Honest
  <2> QED
    BY <1>1, <2>4, <2>6 DEF TypeOK, Control, ListenWaits, QueueWaits, Requests, WholeOrParts,
         ReadWasSent, RepliesHonest, Honest, CountIsOpenSockets
<1>5. CASE UNCHANGED <<pc, conn_data>>
  BY <1>1, <1>5 DEF TypeOK, Control, SocketIsOpen, UrlOfSocket, ListenWaits, QueueWaits,
       Requests, WholeOrParts, ReadWasSent, RepliesHonest, Honest, CountIsOpenSockets
<1> QED
  BY <1>4, <1>5 DEF Read

\* do_write, with a request to answer or without, keeps the invariant.
LEMMA WriteStep ==
  ASSUME IInv, Write
  PROVE  IInv'
<1> USE DEF IInv
<1>1. pc' = "loop" /\ UNCHANGED <<events, backlog, input, sent>>
  BY DEF Write
<1>2. CASE conn_data.url = None
  BY <1>1, <1>2 DEF Write, TypeOK, Control, SocketIsOpen, UrlOfSocket, ListenWaits, QueueWaits,
       Requests, WholeOrParts, ReadWasSent, RepliesHonest, Honest, CountIsOpenSockets
<1>3. CASE conn_data.url # None
  <2> DEFINE c == conn_data.sockfd
  <2>1. c \in Client /\ c # None /\ state[c] = "open" /\ Honest(conn_data.url, c)
        /\ conn_data.url \in Url
    BY <1>3 DEF TypeOK, Control, SocketIsOpen, UrlOfSocket
  <2>2. /\ reply' = [reply EXCEPT ![c] = conn_data.url]
        /\ state' = [state EXCEPT ![c] = "closed"]
        /\ ready' = ready \ {c}
        /\ conn_data' = Zero
        /\ events_count' = events_count - 1
    BY <1>3 DEF Write, Memset
  <2>3. Open' = Open \ {c} /\ c \in Open /\ Open \subseteq Client
    BY <2>1, <2>2 DEF TypeOK, Open
  <2>4. Cardinality(Open') = Cardinality(Open) - 1 /\ Cardinality(Open) \in Nat
        /\ Cardinality(Open') \in Nat
    BY <2>1, <2>3, OpenOneMore
  <2>5. CountIsOpenSockets' /\ events_count' \in 1 .. MAX_EPOLL_EVENTS-1
    BY <2>2, <2>4, CHttpAssumption DEF Open, CountIsOpenSockets, TypeOK
  <2>6. TypeOK'
    BY <1>1, <2>1, <2>2, <2>5 DEF TypeOK, Zero
  <2>7. Control'
    BY <1>1, <2>1, <2>2 DEF TypeOK, Control, SocketIsOpen, UrlOfSocket, ListenWaits, QueueWaits,
         Zero
  <2>8. Requests'
    BY <1>1, <2>1, <2>2 DEF TypeOK, Requests, WholeOrParts, ReadWasSent, RepliesHonest, Honest
  <2> QED
    BY <2>5, <2>6, <2>7, <2>8
<1> QED
  BY <1>2, <1>3

-----------------------------------------------------------------------------
LEMMA IInvStep == IInv /\ [Next]_vars => IInv'
<1> SUFFICES ASSUME IInv, [Next]_vars PROVE IInv'
  OBVIOUS
<1>1. CASE Server
  BY <1>1, AcceptStep, LoopStep, ReadStep, WriteStep DEF Server
<1>2. ASSUME NEW c \in Client, Connect(c) PROVE IInv'
  BY <1>2, ConnectStep
<1>3. ASSUME NEW c \in Client, NEW p \in Piece, Send(c, p) PROVE IInv'
  BY <1>3, SendStep
<1>4. CASE UNCHANGED vars
  BY <1>4 DEF vars, IInv, TypeOK, Control, SocketIsOpen, UrlOfSocket, ListenWaits, QueueWaits,
       Requests, WholeOrParts, ReadWasSent, RepliesHonest, Honest, CountIsOpenSockets
<1> QED
  BY <1>1, <1>2, <1>3, <1>4 DEF Next

\* The server's state stays within its types, for every set of clients.
THEOREM TypeCorrect == Spec => []TypeOK
<1>1. IInv => TypeOK
  BY DEF IInv
<1> QED
  BY <1>1, InitIInv, IInvStep, PTL DEF Spec

\* The counter of connections (chttp.c:114, 124, 138, 160) is right, whoever the
\* shared record is taken over by.
THEOREM CountCorrect == Spec => []CountIsOpenSockets
<1>1. IInv => CountIsOpenSockets
  BY DEF IInv
<1> QED
  BY <1>1, InitIInv, IInvStep, PTL DEF Spec

\* No client gets another one's reply (chttp.c:139-161).
THEOREM RepliesCorrect == Spec => []RepliesMatchRequests
<1>1. IInv => RepliesMatchRequests
  BY DEF IInv, Requests, RepliesHonest, WholeOrParts, Honest, RepliesMatchRequests
<1> QED
  BY <1>1, InitIInv, IInvStep, PTL DEF Spec
=============================================================================
