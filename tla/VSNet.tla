-------------------------------- MODULE VSNet --------------------------------
(***************************************************************************)
(* The whole virtual network: the port processes (final_project/vs_port.c) *)
(* and the switch, which exchange Ethernet frames in UDP datagrams that    *)
(* may be lost, reordered and duplicated.  The switch is its abstract      *)
(* specification LearningSwitch, which VSwitch (v_switch.c) is proved to   *)
(* implement.  Each port process has a thread that sends and a thread that *)
(* receives; ports and the switch may be stopped and started again.        *)
(***************************************************************************)
EXTENDS LearningSwitch, Integers

CONSTANTS
  Port,        \* the port processes
  Behind,      \* the stations behind each port's TAP device
  Local,       \* the socket addresses each port's machine may give it
  Frame,       \* the frames the stations may send
  Stranger,    \* senders of datagrams that are not of this network
  SwitchAddr,  \* the address of the switch, the argument of vs_port
  NoAddr,      \* a socket that has sent nothing has no address yet
  MaxInFlight  \* bound: datagrams under way to the switch

ASSUME VSNetAssumption ==
  /\ Behind \in [Port -> SUBSET MAC]
  /\ Local \in [Port -> SUBSET Addr]
  /\ Frame \subseteq [dst : MAC \cup {Broadcast}, src : MAC]
  /\ SwitchAddr \notin Stranger
  /\ NoAddr \notin Addr
  /\ MaxInFlight \in Nat \ {0}

VARIABLES
  sock,         \* sock[p]: the local address of the port's socket
  switch_addr,  \* switch_addr[p]: where the sending thread sends; shared with
                \* the receiving thread, which recvfrom overwrites it for
  tx,           \* tx[p]: the frame the sending thread has read from the TAP
  rx,           \* rx[p]: the frame the receiving thread has received
  toSwitch,     \* datagrams under way to the switch
  toPort        \* datagrams under way from the switch

portVars == <<sock, switch_addr, tx, rx>>
netVars  == <<toSwitch, toPort>>
vars     == <<lsVars, portVars, netVars>>

Packet == [to : Addr, dst : MAC \cup {Broadcast}, src : MAC]

-----------------------------------------------------------------------------
\* vs_port_init: every port knows the switch and has an unbound socket.
NetInit ==
  /\ Init
  /\ sock = [p \in Port |-> NoAddr]
  /\ switch_addr = [p \in Port |-> SwitchAddr]
  /\ tx = [p \in Port |-> {}]
  /\ rx = [p \in Port |-> {}]
  /\ toSwitch = {}
  /\ toPort = {}

\* send_task_func: a frame is read from the TAP device ...
ReadTap(p) ==
  /\ tx[p] = {}
  /\ \E f \in Frame : f.src \in Behind[p] /\ tx' = [tx EXCEPT ![p] = {f}]
  /\ UNCHANGED <<lsVars, sock, switch_addr, rx, netVars>>

\* The address the socket sends from: its own, or a free one of the machine's
\* when this is the first datagram it sends.
SendsFrom(p) ==
  IF sock[p] # NoAddr THEN {sock[p]}
  ELSE {a \in Local[p] : \A q \in Port : sock[q] # a}

\* ... and sent to whatever switch_addr holds now.
SendToSwitch(p) ==
  \E f \in tx[p], a \in SendsFrom(p) :
    /\ sock' = [sock EXCEPT ![p] = a]
    /\ tx' = [tx EXCEPT ![p] = {}]
    /\ LET d == [dst |-> f.dst, src |-> f.src, from |-> a]
       IN  IF switch_addr[p] = SwitchAddr
           THEN /\ Cardinality(toSwitch \cup {d}) <= MaxInFlight
                /\ toSwitch' = toSwitch \cup {d}
           ELSE UNCHANGED toSwitch
    /\ UNCHANGED <<lsVars, switch_addr, rx, toPort>>

\* Mutant of Receive: the sender's address is not the switch's own.
ReceiveFromOther(p) ==
  /\ rx[p] = {}
  /\ \E k \in toPort :
       /\ k.to = sock[p]
       /\ rx' = [rx EXCEPT ![p] = {[dst |-> k.dst, src |-> k.src]}]
       /\ switch_addr' = [switch_addr EXCEPT ![p] = k.to]
       /\ toPort' \in {toPort \ {k}, toPort}
  /\ UNCHANGED <<lsVars, sock, tx, toSwitch>>

\* receive_task_func: recvfrom takes a datagram of the switch, and writes its
\* sender's address over switch_addr; the network may hand it over again ...
Receive(p) ==
  /\ rx[p] = {}
  /\ \E k \in toPort :
       /\ k.to = sock[p]
       /\ rx' = [rx EXCEPT ![p] = {[dst |-> k.dst, src |-> k.src]}]
       /\ switch_addr' = [switch_addr EXCEPT ![p] = SwitchAddr]
       /\ toPort' \in {toPort \ {k}, toPort}
  /\ UNCHANGED <<lsVars, sock, tx, toSwitch>>

\* ... or a datagram of somebody else, whose payload goes to the TAP as it is.
ReceiveStray(p) ==
  /\ rx[p] = {}
  /\ sock[p] # NoAddr
  /\ \E s \in Stranger : switch_addr' = [switch_addr EXCEPT ![p] = s]
  /\ UNCHANGED <<lsVars, sock, tx, rx, netVars>>

\* The received frame is written to the TAP device.
WriteTap(p) ==
  /\ rx[p] # {}
  /\ rx' = [rx EXCEPT ![p] = {}]
  /\ UNCHANGED <<lsVars, sock, switch_addr, tx, netVars>>

\* The port process is stopped and started again: a new socket, empty buffers.
RestartPort(p) ==
  /\ sock[p] # NoAddr
  /\ sock' = [sock EXCEPT ![p] = NoAddr]
  /\ switch_addr' = [switch_addr EXCEPT ![p] = SwitchAddr]
  /\ tx' = [tx EXCEPT ![p] = {}]
  /\ rx' = [rx EXCEPT ![p] = {}]
  /\ UNCHANGED <<lsVars, netVars>>

-----------------------------------------------------------------------------
\* The switch takes a datagram.
SwitchReceive(d) ==
  /\ d \in toSwitch
  /\ Accept(d)
  /\ toSwitch' = toSwitch \ {d}
  /\ UNCHANGED <<portVars, toPort>>

\* It sends the copies of it.  The socket does not block: any of them may be
\* dropped at once.
SwitchSend ==
  /\ Deliver
  /\ \E d \in pending : \E sent \in SUBSET out' :
       toPort' = toPort \cup {[to |-> c.addr, dst |-> d.dst, src |-> d.src] : c \in sent}
  /\ UNCHANGED <<portVars, toSwitch>>

\* It forgets stations.
SwitchForget == Forget /\ UNCHANGED <<portVars, netVars>>

\* It is stopped and started again, at the same address, with an empty table.
RestartSwitch ==
  /\ loc' = [m \in {} |-> m]
  /\ pending' = {}
  /\ out' = {}
  /\ UNCHANGED <<portVars, netVars>>

-----------------------------------------------------------------------------
\* The network loses a datagram ...
LoseToSwitch(d) ==
  /\ d \in toSwitch
  /\ toSwitch' = toSwitch \ {d}
  /\ UNCHANGED <<lsVars, portVars, toPort>>

LoseToPort ==
  /\ \E k \in toPort : toPort' = toPort \ {k}
  /\ UNCHANGED <<lsVars, portVars, toSwitch>>

\* ... or hands over a copy of it and keeps it.
DuplicateToSwitch(d) ==
  /\ d \in toSwitch
  /\ Accept(d)
  /\ UNCHANGED <<portVars, netVars>>

-----------------------------------------------------------------------------
PortStep(p) ==
  \/ ReadTap(p)
  \/ SendToSwitch(p)
  \/ Receive(p)
  \/ ReceiveStray(p)
  \/ WriteTap(p)
  \/ RestartPort(p)

NetNext ==
  \/ \E p \in Port : PortStep(p)
  \/ \E d \in toSwitch :
       SwitchReceive(d) \/ LoseToSwitch(d) \/ DuplicateToSwitch(d)
  \/ SwitchSend
  \/ SwitchForget
  \/ RestartSwitch
  \/ LoseToPort

NetSpec == NetInit /\ [][NetNext]_vars

\* The switch sends what it has accepted, and no datagram stays under way for
\* ever: it is delivered for the last time or lost.
NetFairness ==
  /\ WF_vars(SwitchSend)
  /\ \A d \in Datagram : WF_vars(SwitchReceive(d) \/ LoseToSwitch(d))

FairNetSpec == NetSpec /\ NetFairness

-----------------------------------------------------------------------------
\* Type invariant of the ports and the network.
NetTypeOK ==
  /\ /\ DOMAIN loc \subseteq MAC
     /\ loc \in [DOMAIN loc -> Addr]
  /\ pending \in SUBSET Datagram
  /\ out \in SUBSET Copy
  /\ sock \in [Port -> Addr \cup {NoAddr}]
  /\ switch_addr \in [Port -> {SwitchAddr} \cup Stranger]
  /\ tx \in [Port -> SUBSET Frame]
  /\ rx \in [Port -> SUBSET Frame]
  /\ toSwitch \in SUBSET Datagram
  /\ toPort \in SUBSET Packet

\* The station behind a port never sees a frame it has sent itself come back,
\* through restarts of the port and of the switch, old entries of the table and
\* old datagrams (v_switch.c:162-210, vs_port.c:231-303).
NoEcho == \A p \in Port : \A f \in rx[p] : f.src \notin Behind[p]

\* Port p is not restarted any more.
Settled(p) == <>[][~RestartPort(p)]_vars

\* The switch hears station m again and again from where its port is now.
HeardOften(p, m) ==
  []<><<\E d \in Datagram : d.src = m /\ d.from = sock[p] /\ SwitchReceive(d)>>_vars

\* Once its port has stopped moving, a station that speaks is found at its port
\* and nowhere else: datagrams from the port's earlier sockets, which may arrive
\* late and set the table back (v_switch.c:144-146), do not do so for ever.
EventuallyLocated ==
  \A p \in Port : \A m \in Behind[p] :
    Settled(p) /\ HeardOften(p, m)
      => <>[](m \in DOMAIN loc => loc[m] = sock[p])
=============================================================================
