-------------------------------- MODULE Demon --------------------------------
(***************************************************************************)
(* The file size daemon (hw20/demon.c): start, the accept loop that        *)
(* answers one client at a time, the signal handlers, and the exit.  The   *)
(* operator starts it, edits its configuration file and sends signals;     *)
(* clients connect, send text and hang up at any moment.                   *)
(*                                                                         *)
(* With -std=c11 signal() installs a System V handler: the disposition     *)
(* goes back to the default when the handler starts, and an interrupted    *)
(* call is not restarted.                                                  *)
(***************************************************************************)
EXTENDS Integers, Sequences, FiniteSets

CONSTANTS
  Client,      \* client processes
  NoClient,    \* no client is being served
  Name,        \* names of sockets and of files
  NoName,      \* an option that is not given
  Configs,     \* contents the configuration file may have: [socket, file]
  DefSocket,   \* DEF_SOCKET
  DefFile,     \* DEF_FILE
  SocketOpt,   \* socketname_opt: the -s option
  FileOpt,     \* filename_opt: the -f option
  need_fork,   \* the -d option
  Signals,     \* the signals the operator may send, of "HUP", "INT", "TERM"
  HangUps      \* clients may hang up before they are answered

ASSUME DemonAssumption ==
  /\ NoName \notin Name
  /\ NoClient \notin Client
  /\ Configs \subseteq [socket : Name \cup {NoName}, file : Name \cup {NoName}]
  /\ DefSocket \in Name /\ DefFile \in Name
  /\ SocketOpt \in Name \cup {NoName} /\ FileOpt \in Name \cup {NoName}
  /\ Signals \subseteq {"HUP", "INT", "TERM"}
  /\ need_fork \in BOOLEAN /\ HangUps \in BOOLEAN

VARIABLES
  pc,           \* where the daemon is
  config,       \* the configuration file
  files,        \* the socket files that exist
  disposition,  \* what each signal does: its handler, the default or nothing
  finish_work,  \* set by sigterm_handler
  conf,         \* socketname_conf and filename_conf
  bound,        \* the name the listening socket is bound to
  renamed,      \* history, read by no action: a configuration read again since
                \* the start has changed the socket's name
  queue,        \* connections not yet accepted
  msgsock,      \* the client being served
  sent,         \* clients that have sent text and not been answered
  gone,         \* clients that have hung up
  name,         \* the file name taken for the reply, and whether its string
                \* was freed since
  size,         \* the file whose size was taken for the reply
  reply         \* the reply in buf: the file it names and the file it measured

daemonVars == <<disposition, finish_work, conf, bound, renamed>>
clientVars == <<queue, msgsock, sent, gone>>
replyVars  == <<name, size, reply>>
vars == <<pc, config, files, daemonVars, clientVars, replyVars>>

Nothing == [socket |-> NoName, file |-> NoName]
NoTaken == [of |-> NoName, freed |-> FALSE]
Cleared == [named |-> NoName, measured |-> NoName]
Reply   == [named : Name, measured : Name] \cup {Cleared}

Starting == {"handlers", "config", "bind"}
Serving  == {"read", "evaluate", "send", "hangup"}
Stopping == {"close", "unlink"}
Down     == {"down", "exited", "failed", "killed", "broken pipe"}
Running  == Starting \cup {"check", "accept"} \cup Serving \cup Stopping
Listening == pc \in {"check", "accept"} \cup Serving

\* socketname() and filename(): the option, else the configuration, else the default.
socketname == IF SocketOpt # NoName THEN SocketOpt
              ELSE IF conf.socket # NoName THEN conf.socket ELSE DefSocket
filename   == IF FileOpt # NoName THEN FileOpt
              ELSE IF conf.file # NoName THEN conf.file ELSE DefFile

-----------------------------------------------------------------------------
Init ==
  /\ pc = "down"
  /\ config \in Configs
  /\ files = {}
  /\ disposition = [s \in {"HUP", "INT", "TERM"} |-> "default"]
  /\ finish_work = FALSE
  /\ conf = Nothing
  /\ bound = NoName
  /\ renamed = FALSE
  /\ queue = <<>> /\ msgsock = NoClient /\ sent = {} /\ gone = {}
  /\ name = NoTaken /\ size = NoName
  /\ reply = Cleared

\* The operator starts the program; as a daemon it ignores SIGHUP until the
\* handlers are installed.
Start ==
  /\ pc \in Down
  /\ pc' = "handlers"
  /\ disposition' = [s \in {"HUP", "INT", "TERM"} |->
                       IF need_fork /\ s = "HUP" THEN "ignore" ELSE "default"]
  /\ finish_work' = FALSE
  /\ conf' = Nothing
  /\ bound' = NoName
  /\ renamed' = FALSE
  /\ name' = NoTaken /\ size' = NoName /\ reply' = Cleared
  /\ UNCHANGED <<config, files, clientVars>>

\* main: signal() for the three signals.
InstallHandlers ==
  /\ pc = "handlers"
  /\ disposition' = [s \in {"HUP", "INT", "TERM"} |-> "handler"]
  /\ pc' = "config"
  /\ UNCHANGED <<config, files, finish_work, conf, bound, renamed, clientVars, replyVars>>

\* read_config: an option the file gives replaces the value, another keeps it.
Reread == [socket |-> IF config.socket # NoName THEN config.socket ELSE conf.socket,
           file   |-> IF config.file # NoName THEN config.file ELSE conf.file]

ReadConfig ==
  /\ pc = "config"
  /\ conf' = Reread
  /\ pc' = "bind"
  /\ UNCHANGED <<config, files, disposition, finish_work, bound, renamed, clientVars, replyVars>>

\* socket, bind and listen: bind fails when the file exists.
Bind ==
  /\ pc = "bind"
  /\ socketname \notin files
  /\ files' = files \cup {socketname}
  /\ bound' = socketname
  /\ pc' = "check"
  /\ UNCHANGED <<config, disposition, finish_work, conf, renamed, clientVars, replyVars>>

BindFails ==
  /\ pc = "bind"
  /\ socketname \in files
  /\ pc' = "failed"
  /\ UNCHANGED <<config, files, daemonVars, clientVars, replyVars>>

\* Mutant of CheckFinish: the flag is not looked at.
CheckNothing ==
  /\ pc = "check"
  /\ pc' = "accept"
  /\ UNCHANGED <<config, files, daemonVars, clientVars, replyVars>>

\* while (!finish_work)
CheckFinish ==
  /\ pc = "check"
  /\ pc' = IF finish_work THEN "close" ELSE "accept"
  /\ UNCHANGED <<config, files, daemonVars, clientVars, replyVars>>

\* Mutant of Accept: the newest connection first.
AcceptNewest ==
  /\ pc = "accept"
  /\ queue # <<>>
  /\ msgsock' = queue[Len(queue)]
  /\ queue' = SubSeq(queue, 1, Len(queue) - 1)
  /\ reply' = Cleared
  /\ pc' = "read"
  /\ UNCHANGED <<config, files, daemonVars, sent, gone, name, size>>

\* accept returns a connection, and the buffer is cleared.
Accept ==
  /\ pc = "accept"
  /\ queue # <<>>
  /\ msgsock' = Head(queue)
  /\ queue' = Tail(queue)
  /\ reply' = Cleared
  /\ pc' = "read"
  /\ UNCHANGED <<config, files, daemonVars, sent, gone, name, size>>

\* read returns text ...
ReadText ==
  /\ pc = "read"
  /\ msgsock \in sent
  /\ pc' = "evaluate"
  /\ UNCHANGED <<config, files, daemonVars, clientVars, replyVars>>

\* ... or the end of the stream.
ReadEnd ==
  /\ pc = "read"
  /\ msgsock \in gone \ sent
  /\ pc' = "hangup"
  /\ UNCHANGED <<config, files, daemonVars, clientVars, replyVars>>

\* The arguments of sprintf, in either order: the string of the file's name ...
TakeName ==
  /\ pc = "evaluate"
  /\ name.of = NoName
  /\ name' = [of |-> filename, freed |-> FALSE]
  /\ UNCHANGED <<pc, config, files, daemonVars, clientVars, size, reply>>

\* ... and get_file_size of the file.
TakeSize ==
  /\ pc = "evaluate"
  /\ size = NoName
  /\ size' = filename
  /\ UNCHANGED <<pc, config, files, daemonVars, clientVars, name, reply>>

\* Mutant of Format: it does not wait for the size.
FormatEarly ==
  /\ pc = "evaluate"
  /\ name.of # NoName
  /\ reply' = [named |-> name.of, measured |-> size]
  /\ name' = NoTaken /\ size' = NoName
  /\ pc' = "send"
  /\ UNCHANGED <<config, files, daemonVars, clientVars>>

\* sprintf reads the string: anything if it was freed.
Format ==
  /\ pc = "evaluate"
  /\ name.of # NoName /\ size # NoName
  /\ \E n \in (IF name.freed THEN Name ELSE {name.of}) :
       reply' = [named |-> n, measured |-> size]
  /\ name' = NoTaken /\ size' = NoName
  /\ pc' = "send"
  /\ UNCHANGED <<config, files, daemonVars, clientVars>>

\* send the reply; SIGPIPE kills the daemon when the client has hung up.
Send ==
  /\ pc = "send"
  /\ IF msgsock \in gone
     THEN /\ pc' = "broken pipe"
          /\ queue' = <<>> /\ msgsock' = NoClient /\ sent' = {} /\ gone' = {}
     ELSE /\ pc' = "hangup"
          /\ sent' = sent \ {msgsock}
          /\ UNCHANGED <<queue, msgsock, gone>>
  /\ UNCHANGED <<config, files, daemonVars, replyVars>>

\* close(msgsock), and back to the loop's condition.
HangUp ==
  /\ pc = "hangup"
  /\ sent' = sent \ {msgsock}
  /\ gone' = gone \ {msgsock}
  /\ msgsock' = NoClient
  /\ pc' = "check"
  /\ UNCHANGED <<config, files, daemonVars, queue, replyVars>>

\* close(sock): the connections not accepted are refused.
CloseSock ==
  /\ pc = "close"
  /\ queue' = <<>> /\ sent' = {} /\ gone' = {}
  /\ pc' = "unlink"
  /\ UNCHANGED <<config, files, daemonVars, msgsock, replyVars>>

\* Mutant of Unlink: the socket file stays.
ExitAtOnce ==
  /\ pc = "unlink"
  /\ conf' = Nothing
  /\ pc' = "exited"
  /\ UNCHANGED <<config, files, disposition, finish_work, bound, renamed, clientVars, replyVars>>

\* unlink(socketname()), whatever that is now, and exit.
Unlink ==
  /\ pc = "unlink"
  /\ files' = files \ {socketname}
  /\ conf' = Nothing
  /\ pc' = "exited"
  /\ UNCHANGED <<config, disposition, finish_work, bound, renamed, clientVars, replyVars>>

-----------------------------------------------------------------------------
\* Where a handler that ran leaves the main program: a blocking call without
\* anything to return is interrupted, unless the signal came just before it.
\* An interrupted accept ends the loop; an interrupted read drops the client.
Resumes ==
  \/ pc' = pc
  \/ pc = "accept" /\ queue = <<>> /\ pc' = "close"
  \/ pc = "read" /\ msgsock \notin sent \cup gone /\ pc' = "hangup"

\* sigterm_handler
HandleTerm(s) ==
  /\ s \in Signals \cap {"INT", "TERM"}
  /\ pc \in Running /\ disposition[s] = "handler"
  /\ disposition' = [disposition EXCEPT ![s] = "default"]
  /\ finish_work' = TRUE
  /\ Resumes
  /\ UNCHANGED <<config, files, conf, bound, renamed, clientVars, replyVars>>

\* sighup_handler: the configuration is read again, which frees the strings of
\* the options it gives.
HandleHup ==
  /\ "HUP" \in Signals
  /\ pc \in Running /\ disposition["HUP"] = "handler"
  /\ disposition' = [disposition EXCEPT !["HUP"] = "default"]
  /\ conf' = Reread
  /\ name' = [name EXCEPT !.freed =
                @ \/ (name.of # NoName /\ FileOpt = NoName /\ config.file # NoName
                      /\ conf.file # NoName)]
  /\ renamed' = (renamed \/ socketname' # socketname)
  /\ Resumes
  /\ UNCHANGED <<config, files, finish_work, bound, clientVars, size, reply>>

\* A signal whose disposition is the default kills the process.
Killed(s) ==
  /\ s \in Signals
  /\ pc \in Running /\ disposition[s] = "default"
  /\ pc' = "killed"
  /\ queue' = <<>> /\ msgsock' = NoClient /\ sent' = {} /\ gone' = {}
  /\ UNCHANGED <<config, files, daemonVars, replyVars>>

-----------------------------------------------------------------------------
\* A client connects, sends text, hangs up; the operator edits the configuration.
Present(c) == c = msgsock \/ \E i \in DOMAIN queue : queue[i] = c

Connect(c) ==
  /\ Listening
  /\ ~Present(c)
  /\ queue' = Append(queue, c)
  /\ UNCHANGED <<pc, config, files, daemonVars, msgsock, sent, gone, replyVars>>

SendText(c) ==
  /\ Present(c) /\ c \notin sent \cup gone
  /\ pc \notin {"hangup"} \/ c # msgsock
  /\ sent' = sent \cup {c}
  /\ UNCHANGED <<pc, config, files, daemonVars, queue, msgsock, gone, replyVars>>

Leave(c) ==
  /\ HangUps
  /\ Present(c) /\ c \notin gone
  /\ gone' = gone \cup {c}
  /\ UNCHANGED <<pc, config, files, daemonVars, queue, msgsock, sent, replyVars>>

EditConfig ==
  /\ \E k \in Configs : k # config /\ config' = k
  /\ UNCHANGED <<pc, files, daemonVars, clientVars, replyVars>>

-----------------------------------------------------------------------------
DaemonStep ==
  \/ InstallHandlers \/ ReadConfig \/ Bind \/ BindFails
  \/ CheckFinish \/ Accept \/ ReadText \/ ReadEnd
  \/ TakeName \/ TakeSize \/ Format \/ Send \/ HangUp
  \/ CloseSock \/ Unlink

SignalStep == HandleHup \/ \E s \in Signals : HandleTerm(s) \/ Killed(s)

ClientStep(c) == Connect(c) \/ SendText(c) \/ Leave(c)

Next ==
  \/ DaemonStep
  \/ SignalStep
  \/ \E c \in Client : ClientStep(c)
  \/ Start
  \/ EditConfig

Spec == Init /\ [][Next]_vars

\* The daemon is scheduled.  Nothing is said of what the clients do: one may
\* connect and keep silent, and read has no timeout.
Fairness == WF_vars(DaemonStep)

FairSpec == Spec /\ Fairness

-----------------------------------------------------------------------------
\* Type invariant of the daemon, its clients and the files.
TypeOK ==
  /\ pc \in Running \cup Down
  /\ config \in Configs
  /\ files \in SUBSET Name
  /\ disposition \in [{"HUP", "INT", "TERM"} -> {"handler", "default", "ignore"}]
  /\ finish_work \in BOOLEAN
  /\ conf \in [socket : Name \cup {NoName}, file : Name \cup {NoName}]
  /\ bound \in Name \cup {NoName}
  /\ renamed \in BOOLEAN
  /\ queue \in Seq(Client)
  /\ msgsock \in Client \cup {NoClient}
  /\ sent \in SUBSET Client /\ gone \in SUBSET Client
  /\ name \in [of : Name \cup {NoName}, freed : BOOLEAN]
  /\ size \in Name \cup {NoName}
  /\ reply \in Reply

\* The socket file exists for as long as the daemon listens, and an exit takes it
\* away, so the daemon can be started again (demon.c:104-125, 153-154) - unless
\* the name was changed under the running daemon, which then removes another file.
SocketFileFollowsDaemon ==
  /\ Listening => bound \in files
  /\ pc = "exited" /\ ~renamed => bound \notin files

\* The client being served does not keep silent for ever: it sends text or hangs
\* up, or a signal interrupts the read.
NobodyKeepsSilent == []<>(pc # "read" \/ msgsock \in sent \cup gone)

\* A client arrives again and again.
ClientsKeepComing == []<><<\E c \in Client : Connect(c)>>_vars

\* As long as clients keep coming, SIGINT or SIGTERM ends the daemon: the flag set
\* between the test and accept waits for the next client at most (demon.c:127-151,
\* 222-230).
TermEndsAtNextClient ==
  NobodyKeepsSilent /\ ClientsKeepComing => (finish_work ~> pc \in Down)

\* A client that has sent its text is answered, or its connection ends, even while
\* others keep connecting, if none of those before it in the queue keeps silent:
\* a silent one starves all the others (demon.c:127-151).
EveryTextIsServed ==
  NobodyKeepsSilent => \A c \in Client : c \in sent ~> c \notin sent
=============================================================================
