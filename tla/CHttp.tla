-------------------------------- MODULE CHttp --------------------------------
(***************************************************************************)
(* hw27/chttp.c: an edge triggered epoll loop that serves its clients from *)
(* one shared conn_data.  Clients connect, send a request in one piece or  *)
(* two, and half-close at any moment.  A reply is the file asked for (what *)
(* status it has follows from the file); sending is taken to succeed.      *)
(***************************************************************************)
EXTENDS Integers, FiniteSets, Sequences

CONSTANTS
  Client,
  Path,             \* what each client asks for
  Sends,            \* the sets of pieces it may send
  Root,             \* the path "/", of which the leading slash is cut
  Garbled,          \* what is found in part of a request
  None,
  MAX_EPOLL_EVENTS

\* A request comes whole or in two parts, and may be followed by a half-close.
Piece == {"whole", "head", "tail", "eof"}

Listen == "listen"

ASSUME CHttpAssumption ==
  /\ IsFiniteSet(Client) /\ None \notin Client /\ Listen \notin Client
  /\ None \notin {Path[c] : c \in Client} \cup {Garbled}
  /\ Root # Garbled
  /\ \A c \in Client : Sends[c] \subseteq SUBSET Piece
  /\ \A c \in Client : \A p \in Sends[c] :
       /\ "whole" \in p => "head" \notin p
       /\ "tail" \in p => "head" \in p
  /\ MAX_EPOLL_EVENTS \in Nat \ {0, 1, 2}

VARIABLES
  pc,            \* "loop", "read", "write", or "spin"
  ready,         \* the descriptors epoll will report
  events,        \* what is left of what epoll_wait reported
  conn_data,     \* the socket, the url, and whether in_buf holds an old end of header
  events_count,
  backlog,       \* clients waiting for accept
  input,         \* what of a client's pieces is not read yet
  state,         \* of a client: "away", "queued", "open", "closed"
  sent,          \* what a client has sent
  reply          \* what a client got

vars == <<pc, ready, events, conn_data, events_count, backlog, input, state, sent, reply>>
clientVars == <<backlog, input, state, sent, reply>>

Zero == [sockfd |-> None, url |-> None, old |-> FALSE]
Url == [from : Client, path : {Path[c] : c \in Client} \cup {Garbled}]

Init ==
  /\ pc = "loop" /\ ready = {} /\ events = {}
  /\ conn_data = Zero /\ events_count = 1
  /\ backlog = <<>>
  /\ input = [c \in Client |-> {}] /\ sent = [c \in Client |-> {}]
  /\ state = [c \in Client |-> "away"]
  /\ reply = [c \in Client |-> None]

-----------------------------------------------------------------------------
(***************************************************************************)
(* Clients, and what the kernel does for them                              *)
(***************************************************************************)
Connect(c) ==
  /\ state[c] = "away"
  /\ state' = [state EXCEPT ![c] = "queued"]
  /\ backlog' = Append(backlog, c)
  /\ ready' = ready \cup {Listen}
  /\ UNCHANGED <<pc, events, conn_data, events_count, input, sent, reply>>

Send(c, piece) ==
  /\ state[c] \in {"queued", "open"}
  /\ piece \notin sent[c] /\ "eof" \notin sent[c]
  /\ piece = "tail" => "head" \in sent[c]
  /\ \E p \in Sends[c] : sent[c] \cup {piece} \subseteq p
  /\ sent' = [sent EXCEPT ![c] = @ \cup {piece}]
  /\ input' = [input EXCEPT ![c] = @ \cup {piece}]
  /\ ready' = IF state[c] = "open" THEN ready \cup {c} ELSE ready
  /\ UNCHANGED <<pc, events, conn_data, events_count, backlog, state, reply>>

-----------------------------------------------------------------------------
(***************************************************************************)
(* The server                                                              *)
(***************************************************************************)
\* A socket is writable, so it is reported with EPOLLOUT in any case.
Kind(fd) == IF fd = Listen THEN "listen" ELSE IF input[fd] # {} THEN "in" ELSE "out"

\* A descriptor is reported once for all that happened.  The loop over the
\* array meets the events in the order of the kernel, which may be any.
epoll_wait ==
  /\ pc = "loop" /\ events = {}
  /\ LET told == { fd \in ready : fd = Listen => backlog # <<>> } IN
     told # {} /\ events' = { <<fd, Kind(fd)>> : fd \in told }
  /\ ready' = {}
  /\ UNCHANGED <<pc, conn_data, events_count, clientVars>>

\* Mutant of Accept: a refused client is counted all the same.
AcceptAll ==
  /\ pc = "loop" /\ <<Listen, "listen">> \in events
  /\ events' = events \ {<<Listen, "listen">>}
  /\ LET c == Head(backlog) IN
     /\ backlog' = Tail(backlog)
     /\ state' = [state EXCEPT ![c] = "open"]
     /\ conn_data' = [conn_data EXCEPT !.sockfd = c]
     /\ ready' = ready \cup {c}
     /\ events_count' = events_count + 1
  /\ UNCHANGED <<pc, input, sent, reply>>

Accept ==
  /\ pc = "loop" /\ <<Listen, "listen">> \in events
  /\ events' = events \ {<<Listen, "listen">>}
  /\ LET c == Head(backlog) IN
     /\ backlog' = Tail(backlog)
     /\ IF events_count = MAX_EPOLL_EVENTS - 1
          THEN /\ state' = [state EXCEPT ![c] = "closed"]
               /\ UNCHANGED <<ready, conn_data, events_count>>
          ELSE /\ state' = [state EXCEPT ![c] = "open"]
               /\ conn_data' = [conn_data EXCEPT !.sockfd = c]
               /\ ready' = ready \cup {c}
               /\ events_count' = events_count + 1
  /\ UNCHANGED <<pc, input, sent, reply>>

\* Every connection's event leads to conn_data, whoever it belongs to now.
Dispatch ==
  /\ pc = "loop"
  /\ \E e \in events :
       /\ e[2] # "listen"
       /\ events' = events \ {e}
       /\ pc' = IF e[2] = "in" THEN "read" ELSE "write"
  /\ UNCHANGED <<ready, conn_data, events_count, clientVars>>

\* Mutant of AfterRead: if (EPOLLIN) ... else if (EPOLLOUT)
AfterReadOnly == "loop"

\* EPOLLOUT comes with EPOLLIN.
AfterRead == "write"

Waiting == IF conn_data.sockfd = None THEN {} ELSE input[conn_data.sockfd]

\* recv fails: nothing to read, or no socket
ReadFails ==
  /\ pc = "read" /\ Waiting = {}
  /\ pc' = AfterRead
  /\ UNCHANGED <<ready, events, conn_data, events_count, clientVars>>

\* recv returns 0: the loop goes on for ever, unless an old end of header is found.
ReadNothing ==
  /\ pc = "read" /\ Waiting = {"eof"}
  /\ \/ /\ conn_data.old
        /\ conn_data' = [conn_data EXCEPT !.url = None]
        /\ pc' = AfterRead
     \/ pc' = "spin" /\ UNCHANGED conn_data
  /\ UNCHANGED <<ready, events, events_count, clientVars>>

\* What parse_request finds: "" has no length, and part of a request anything.
Parsed(c, got) ==
  IF got \in {{"whole"}, {"head", "tail"}}
    THEN {IF Path[c] = Root THEN None ELSE [from |-> c, path |-> Path[c]]}
    ELSE {None, [from |-> c, path |-> Garbled]}

\* recv overwrites what it read before; what it leaves of an older request may
\* hold the end of header that is looked for.
Read ==
  /\ pc = "read"
  /\ LET c == conn_data.sockfd
         got == Waiting \ {"eof"} IN
     /\ got # {}
     /\ input' = [input EXCEPT ![c] = @ \ got]
     /\ \/ /\ got # {"head"} \/ conn_data.old
           /\ \E url \in Parsed(c, got) :
                conn_data' = [conn_data EXCEPT !.url = url, !.old = TRUE]
           /\ pc' = AfterRead
        \/ got = {"head"} /\ UNCHANGED <<pc, conn_data>>
  /\ UNCHANGED <<ready, events, events_count, backlog, state, sent, reply>>

\* Mutant of Memset: no memset
MemsetNot == conn_data

Memset == Zero

\* Mutant of Write: events_count-- is forgotten.
WriteUncounted ==
  /\ pc = "write"
  /\ IF conn_data.url = None
       THEN UNCHANGED <<ready, conn_data, state, reply>>
       ELSE LET c == conn_data.sockfd IN
            /\ reply' = [reply EXCEPT ![c] = conn_data.url]
            /\ state' = [state EXCEPT ![c] = "closed"]
            /\ ready' = ready \ {c}
            /\ conn_data' = Memset
  /\ pc' = "loop"
  /\ UNCHANGED <<events, backlog, input, sent, events_count>>

\* do_write, and the end of the handler
Write ==
  /\ pc = "write"
  /\ IF conn_data.url = None
       THEN UNCHANGED <<ready, conn_data, events_count, state, reply>>
       ELSE LET c == conn_data.sockfd IN
            /\ reply' = [reply EXCEPT ![c] = conn_data.url]
            /\ state' = [state EXCEPT ![c] = "closed"]
            /\ ready' = ready \ {c}
            /\ conn_data' = Memset
            /\ events_count' = events_count - 1
  /\ pc' = "loop"
  /\ UNCHANGED <<events, backlog, input, sent>>

Server == epoll_wait \/ Accept \/ Dispatch \/ ReadFails \/ ReadNothing \/ Read \/ Write
Next == Server \/ \E c \in Client : Connect(c) \/ \E p \in Piece : Send(c, p)

Spec == Init /\ [][Next]_vars

\* The server runs whenever it can; clients need not do anything.
FairSpec == Spec /\ WF_vars(Server)

-----------------------------------------------------------------------------
(***************************************************************************)
(* Properties                                                              *)
(***************************************************************************)
TypeOK ==
  /\ pc \in {"loop", "read", "write", "spin"}
  /\ ready \subseteq Client \cup {Listen}
  /\ events \subseteq (Client \cup {Listen}) \X {"listen", "in", "out"}
  /\ conn_data \in [sockfd : Client \cup {None}, url : Url \cup {None}, old : BOOLEAN]
  /\ events_count \in 1 .. MAX_EPOLL_EVENTS-1
  /\ backlog \in Seq(Client)
  /\ input \in [Client -> SUBSET Piece]
  /\ state \in [Client -> {"away", "queued", "open", "closed"}]
  /\ sent \in [Client -> SUBSET Piece]
  /\ reply \in [Client -> Url \cup {None}]

\* One record serves all connections, and yet a reply goes to the client whose
\* request it answers, and one sent in a piece is answered with what it names.
RepliesMatchRequests ==
  \A c \in Client : reply[c] # None =>
    /\ reply[c].from = c
    /\ "whole" \in sent[c] => reply[c].path = Path[c]

\* events_count is the number of descriptors in the epoll set, however
\* connections are taken over, refused and answered.
CountIsOpenSockets ==
  events_count = 1 + Cardinality({ c \in Client : state[c] = "open" })

\* Edge triggering loses no request: the client accepted last that has sent one
\* is answered, unless another one is accepted before.
LastAcceptedIsAnswered ==
  \A c \in Client :
    (conn_data.sockfd = c /\ Path[c] # Root /\ "whole" \in sent[c])
      ~> reply[c] # None \/ conn_data.sockfd # c

\* hw27/README.md:10: serve the files of the directory.  A client that has sent
\* its request and is not refused gets its answer.
EveryRequestAnswered ==
  \A c \in Client :
    state[c] = "open" /\ Path[c] # Root /\ sent[c] = {"whole"} ~> reply[c] # None
=============================================================================
