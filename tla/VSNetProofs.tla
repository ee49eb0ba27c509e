------------------------------ MODULE VSNetProofs ------------------------------
(***************************************************************************)
(* Proofs about VSNet: its types, and that no station gets its own frames  *)
(* back, over any number of ports and any loss, delay, duplication and     *)
(* restarts, when there is one station behind each port.                   *)
(***************************************************************************)
EXTENDS VSNet, TLAPS

\* The frame in a datagram
FrameOf(d) == [dst |-> d.dst, src |-> d.src]

\* What is under way, or accepted, are frames of the stations.
FramesOK ==
  /\ \A d \in toSwitch \cup pending : FrameOf(d) \in Frame
  /\ \A k \in toPort : FrameOf(k) \in Frame

TInv == NetTypeOK /\ FramesOK

-----------------------------------------------------------------------------
\* Copies go to remembered stations, at the places remembered.
LEMMA AllowedIs ==
  ASSUME NEW d, NEW c \in Allowed(loc, d)
  PROVE  c.mac \in DOMAIN loc /\ c.addr = loc[c.mac] /\ c = [mac |-> c.mac, addr |-> c.addr]
BY DEF Allowed

LEMMA EmptyTable == [m \in {} |-> m] \in [{} -> Addr] /\ DOMAIN [m \in {} |-> m] = {}
OBVIOUS

LEMMA TypeInit == NetInit => TInv
<1> SUFFICES ASSUME NetInit PROVE TInv
  OBVIOUS
<1>1. DOMAIN loc = {} /\ loc \in [DOMAIN loc -> Addr]
  BY EmptyTable DEF NetInit, Init
<1> QED BY <1>1 DEF NetInit, Init, TInv, NetTypeOK, FramesOK

\* The abstract switch's steps keep its own types.
LEMMA AcceptType ==
  ASSUME TInv, NEW d \in Datagram, FrameOf(d) \in Frame, Accept(d)
  PROVE  /\ DOMAIN loc' \subseteq MAC /\ loc' \in [DOMAIN loc' -> Addr]
         /\ pending' = {d} /\ out' = out
<1>1. d.src \in MAC /\ d.from \in Addr
  BY DEF Datagram
<1>2. loc' = [m \in DOMAIN loc \cup {d.src} |-> IF m = d.src THEN d.from ELSE loc[m]]
  BY DEF Accept
<1>3. \A m \in DOMAIN loc : loc[m] \in Addr /\ m \in MAC
  BY DEF TInv, NetTypeOK
<1> QED BY <1>1, <1>2, <1>3 DEF Accept

LEMMA PortTypes ==
  ASSUME TInv, NEW p \in Port, PortStep(p)
  PROVE  TInv'
<1> USE DEF TInv, NetTypeOK, FramesOK, FrameOf, lsVars, netVars
<1>1. CASE ReadTap(p) BY <1>1 DEF ReadTap
<1>2. CASE SendToSwitch(p)
  <2>1. PICK f \in tx[p], a \in SendsFrom(p) :
          /\ sock' = [sock EXCEPT ![p] = a]
          /\ tx' = [tx EXCEPT ![p] = {}]
          /\ toSwitch' \in {toSwitch, toSwitch \cup {[dst |-> f.dst, src |-> f.src, from |-> a]}}
          /\ UNCHANGED <<lsVars, switch_addr, rx, toPort>>
    BY <1>2 DEF SendToSwitch
  <2>2. f \in Frame /\ f.dst \in MAC \cup {Broadcast} /\ f.src \in MAC
    BY <2>1, VSNetAssumption
  <2>3. a \in Addr
    BY <2>1, VSNetAssumption DEF SendsFrom
  <2>4. [dst |-> f.dst, src |-> f.src, from |-> a] \in Datagram
    BY <2>2, <2>3 DEF Datagram
  <2>5. [dst |-> f.dst, src |-> f.src] \in Frame
    <3>1. f = [dst |-> f.dst, src |-> f.src] BY <2>2, VSNetAssumption
    <3> QED BY <2>2, <3>1
  <2> QED BY <2>1, <2>3, <2>4, <2>5
<1>3. CASE Receive(p) BY <1>3 DEF Receive
<1>4. CASE ReceiveStray(p) BY <1>4 DEF ReceiveStray
<1>5. CASE WriteTap(p) BY <1>5 DEF WriteTap
<1>6. CASE RestartPort(p) BY <1>6 DEF RestartPort
<1> QED BY <1>1, <1>2, <1>3, <1>4, <1>5, <1>6 DEF PortStep

LEMMA SendTypes ==
  ASSUME TInv, SwitchSend
  PROVE  TInv'
<1> USE DEF TInv, NetTypeOK, FramesOK
<1>1. PICK d \in pending : out' \in SUBSET Allowed(loc, d) /\ pending' = {} /\ loc' = loc
  BY DEF SwitchSend, Deliver
<1>2. PICK e \in pending : \E sent \in SUBSET out' :
        toPort' = toPort \cup {[to |-> c.addr, dst |-> e.dst, src |-> e.src] : c \in sent}
  BY DEF SwitchSend
<1>3. \A c \in out' : c \in Copy
  <2>1. \A m \in DOMAIN loc : m \in MAC /\ loc[m] \in Addr OBVIOUS
  <2> QED BY <1>1, <2>1, AllowedIs DEF Copy
<1>4. \A k \in toPort' : k \in Packet /\ FrameOf(k) \in Frame
  <2>1. e.dst \in MAC \cup {Broadcast} /\ e.src \in MAC /\ FrameOf(e) \in Frame
    BY <1>2 DEF Datagram
  <2>2. \A c \in out' : [to |-> c.addr, dst |-> e.dst, src |-> e.src] \in Packet
    BY <1>3, <2>1 DEF Copy, Packet
  <2>3. ASSUME NEW k \in toPort', k \notin toPort
        PROVE  k \in Packet /\ FrameOf(k) \in Frame
    <3>1. PICK c \in out' : k = [to |-> c.addr, dst |-> e.dst, src |-> e.src]
      BY <1>2, <2>3
    <3>2. k.dst = e.dst /\ k.src = e.src
      BY <3>1
    <3> QED BY <2>1, <2>2, <3>1, <3>2 DEF FrameOf
  <2> QED BY <2>3
<1> QED BY <1>1, <1>3, <1>4 DEF SwitchSend, portVars

LEMMA TypeStep == TInv /\ [NetNext]_vars => TInv'
<1> SUFFICES ASSUME TInv, [NetNext]_vars PROVE TInv'
  OBVIOUS
<1> USE DEF TInv, NetTypeOK, FramesOK, portVars, netVars, lsVars
<1>1. ASSUME NEW p \in Port, PortStep(p) PROVE TInv'
  BY <1>1, PortTypes
<1>2. ASSUME NEW d \in toSwitch, SwitchReceive(d) PROVE TInv'
  <2>1. Accept(d) /\ d \in Datagram /\ FrameOf(d) \in Frame
    BY <1>2 DEF SwitchReceive
  <2>2. /\ DOMAIN loc' \subseteq MAC /\ loc' \in [DOMAIN loc' -> Addr]
        /\ pending' = {d} /\ out' = out
    BY <2>1, AcceptType
  <2> QED BY <1>2, <2>1, <2>2 DEF SwitchReceive
<1>3. ASSUME NEW d \in toSwitch, DuplicateToSwitch(d) PROVE TInv'
  <2>1. Accept(d) /\ d \in Datagram /\ FrameOf(d) \in Frame
    BY <1>3 DEF DuplicateToSwitch
  <2>2. /\ DOMAIN loc' \subseteq MAC /\ loc' \in [DOMAIN loc' -> Addr]
        /\ pending' = {d} /\ out' = out
    BY <2>1, AcceptType
  <2> QED BY <1>3, <2>1, <2>2 DEF DuplicateToSwitch
<1>4. ASSUME NEW d \in toSwitch, LoseToSwitch(d) PROVE TInv'
  BY <1>4 DEF LoseToSwitch
<1>5. CASE SwitchSend BY <1>5, SendTypes
<1>6. CASE SwitchForget
  <2>1. PICK kept \in SUBSET DOMAIN loc : loc' = [m \in kept |-> loc[m]]
    BY <1>6 DEF SwitchForget, Forget
  <2>2. DOMAIN loc' \subseteq MAC /\ loc' \in [DOMAIN loc' -> Addr]
    BY <2>1
  <2> QED BY <1>6, <2>2 DEF SwitchForget, Forget
<1>7. CASE RestartSwitch
  <2>1. DOMAIN loc' = {} /\ loc' \in [DOMAIN loc' -> Addr]
    BY <1>7, EmptyTable DEF RestartSwitch
  <2> QED BY <1>7, <2>1 DEF RestartSwitch
<1>8. CASE LoseToPort BY <1>8 DEF LoseToPort
<1>9. CASE UNCHANGED vars BY <1>9 DEF vars
<1> QED BY <1>1, <1>2, <1>3, <1>4, <1>5, <1>6, <1>7, <1>8, <1>9 DEF NetNext

\* The state stays within its types, for any ports, stations and addresses.
THEOREM TypeCorrect == NetSpec => []NetTypeOK
<1>1. TInv => NetTypeOK BY DEF TInv
<1> QED BY <1>1, TypeInit, TypeStep, PTL DEF NetSpec

-----------------------------------------------------------------------------
(***************************************************************************)
(* No echo                                                                 *)
(***************************************************************************)
\* Ports share neither stations nor addresses, and have one station each.
OneStationEach ==
  /\ \A p \in Port : \A m, n \in Behind[p] : m = n
  /\ \A p, q \in Port : p # q => Behind[p] \cap Behind[q] = {} /\ Local[p] \cap Local[q] = {}

\* m is a station of the port that a is an address of.
Belongs(m, a) == \E p \in Port : m \in Behind[p] /\ a \in Local[p]

\* Whatever is under way, or old, comes from a port that the station is behind, and
\* what the switch has sent goes to another one.
OriginsKnown ==
  /\ \A p \in Port : sock[p] \in Local[p] \cup {NoAddr}
  /\ \A p \in Port : \A f \in tx[p] : f.src \in Behind[p]
  /\ \A d \in toSwitch \cup pending : Belongs(d.src, d.from)
  /\ \A m \in DOMAIN loc : Belongs(m, loc[m])
  /\ \A d \in pending : d.src \in DOMAIN loc /\ loc[d.src] = d.from
  /\ pending = {} \/ \E d \in pending : pending = {d}
  /\ \A k \in toPort : \A p \in Port : k.to \in Local[p] => k.src \notin Behind[p]

IInv == TInv /\ OriginsKnown /\ NoEcho

LEMMA IInvInit == NetInit => IInv
<1> SUFFICES ASSUME NetInit PROVE OriginsKnown /\ NoEcho
  BY TypeInit DEF IInv
<1>1. DOMAIN loc = {}
  BY EmptyTable DEF NetInit, Init
<1> QED BY <1>1 DEF NetInit, Init, OriginsKnown, NoEcho

\* The switch hears a station where one of its datagrams comes from.
LEMMA AcceptKeeps ==
  ASSUME IInv, NEW d \in toSwitch, Accept(d), toSwitch' \in {toSwitch, toSwitch \ {d}},
         UNCHANGED <<portVars, toPort>>
  PROVE  OriginsKnown' /\ NoEcho'
<1> USE DEF IInv, OriginsKnown, portVars
<1>1. pending' = {d}
      /\ loc' = [m \in DOMAIN loc \cup {d.src} |-> IF m = d.src THEN d.from ELSE loc[m]]
  BY DEF Accept
<1>2. Belongs(d.src, d.from)
  OBVIOUS
<1>3. \A m \in DOMAIN loc' : Belongs(m, loc'[m])
  BY <1>1, <1>2
<1>4. d.src \in DOMAIN loc' /\ loc'[d.src] = d.from
  BY <1>1
<1> QED BY <1>1, <1>2, <1>3, <1>4 DEF Belongs, NoEcho

\* A copy goes to another port than the one the station is behind.
LEMMA SendKeeps ==
  ASSUME OneStationEach, IInv, SwitchSend
  PROVE  OriginsKnown' /\ NoEcho'
<1> USE DEF IInv, portVars
<1>1. PICK d \in pending : out' \in SUBSET Allowed(loc, d) /\ pending' = {} /\ loc' = loc
  BY DEF SwitchSend, Deliver
<1>2. PICK e \in pending : \E sent \in SUBSET out' :
        toPort' = toPort \cup {[to |-> c.addr, dst |-> e.dst, src |-> e.src] : c \in sent}
  BY DEF SwitchSend
<1>3. d = e
  BY DEF OriginsKnown
<1>4. d.src \in DOMAIN loc /\ loc[d.src] = d.from
  BY DEF OriginsKnown
<1>5. ASSUME NEW c \in out' PROVE c.mac # d.src
  BY <1>1, <1>4, <1>5 DEF Allowed
<1>6. ASSUME NEW c \in out', NEW p \in Port, c.addr \in Local[p], d.src \in Behind[p]
      PROVE  FALSE
  <2>1. c.mac \in DOMAIN loc /\ c.addr = loc[c.mac]
    BY <1>1, <1>6, AllowedIs
  <2>2. PICK q \in Port : c.mac \in Behind[q] /\ c.addr \in Local[q]
    BY <2>1 DEF OriginsKnown, Belongs
  <2>3. p = q
    BY <1>6, <2>2 DEF OneStationEach
  <2> QED BY <1>5, <1>6, <2>2, <2>3 DEF OneStationEach
<1>7. ASSUME NEW k \in toPort', NEW p \in Port, k.to \in Local[p]
      PROVE  k.src \notin Behind[p]
  <2>1. CASE k \in toPort BY <1>7, <2>1 DEF OriginsKnown
  <2>2. CASE k \notin toPort
    <3>1. PICK c \in out' : k = [to |-> c.addr, dst |-> e.dst, src |-> e.src]
      BY <1>2, <2>2
    <3>2. k.to = c.addr /\ k.src = e.src
      BY <3>1
    <3> QED BY <1>3, <1>6, <1>7, <3>2
  <2> QED BY <2>1, <2>2
<1>8. UNCHANGED <<sock, switch_addr, tx, rx, toSwitch>>
  BY DEF SwitchSend
<1> QED BY <1>1, <1>7, <1>8 DEF OriginsKnown, NoEcho, Belongs

LEMMA PortKeeps ==
  ASSUME IInv, NEW p \in Port, PortStep(p)
  PROVE  OriginsKnown' /\ NoEcho'
<1> USE DEF IInv, TInv, NetTypeOK, OriginsKnown, NoEcho, lsVars, netVars
<1>1. CASE ReadTap(p) BY <1>1 DEF ReadTap, Belongs
<1>2. CASE SendToSwitch(p)
  <2>1. PICK f \in tx[p], a \in SendsFrom(p) :
          /\ sock' = [sock EXCEPT ![p] = a]
          /\ tx' = [tx EXCEPT ![p] = {}]
          /\ toSwitch' \in {toSwitch, toSwitch \cup {[dst |-> f.dst, src |-> f.src, from |-> a]}}
          /\ UNCHANGED <<lsVars, switch_addr, rx, toPort>>
    BY <1>2 DEF SendToSwitch
  <2>2. a \in Local[p] /\ f.src \in Behind[p]
    BY <2>1 DEF SendsFrom
  <2>3. ASSUME NEW d \in toSwitch' PROVE Belongs(d.src, d.from)
    <3>1. CASE d \in toSwitch BY <3>1
    <3>2. CASE d = [dst |-> f.dst, src |-> f.src, from |-> a]
      <4>1. d.src = f.src /\ d.from = a BY <3>2
      <4> QED BY <2>2, <4>1 DEF Belongs
    <3> QED BY <2>1, <3>1, <3>2
  <2> QED BY <2>1, <2>2, <2>3 DEF Belongs
<1>3. CASE Receive(p)
  <2>1. PICK k \in toPort :
          /\ k.to = sock[p]
          /\ rx' = [rx EXCEPT ![p] = {[dst |-> k.dst, src |-> k.src]}]
          /\ toPort' \in {toPort \ {k}, toPort}
          /\ UNCHANGED <<lsVars, sock, tx, toSwitch>>
    BY <1>3 DEF Receive
  <2>2. k.to \in Addr
    BY DEF Packet
  <2>3. k.to \in Local[p]
    BY <2>1, <2>2, VSNetAssumption
  <2>4. k.src \notin Behind[p]
    BY <2>3
  <2>5. NoEcho'
    BY <2>1, <2>4
  <2> QED BY <2>1, <2>5 DEF Belongs
<1>4. CASE ReceiveStray(p) BY <1>4 DEF ReceiveStray, Belongs
<1>5. CASE WriteTap(p) BY <1>5 DEF WriteTap, Belongs
<1>6. CASE RestartPort(p) BY <1>6 DEF RestartPort, Belongs
<1> QED BY <1>1, <1>2, <1>3, <1>4, <1>5, <1>6 DEF PortStep

LEMMA IInvStep == OneStationEach /\ IInv /\ [NetNext]_vars => IInv'
<1> SUFFICES ASSUME OneStationEach, IInv, [NetNext]_vars PROVE OriginsKnown' /\ NoEcho'
  BY TypeStep DEF IInv
<1> USE DEF IInv, OriginsKnown, NoEcho, portVars, netVars, lsVars
<1>1. ASSUME NEW p \in Port, PortStep(p) PROVE OriginsKnown' /\ NoEcho'
  BY <1>1, PortKeeps
<1>2. ASSUME NEW d \in toSwitch, SwitchReceive(d) \/ DuplicateToSwitch(d)
      PROVE  OriginsKnown' /\ NoEcho'
  <2>1. Accept(d) /\ toSwitch' \in {toSwitch, toSwitch \ {d}} /\ UNCHANGED <<portVars, toPort>>
    BY <1>2 DEF SwitchReceive, DuplicateToSwitch
  <2> QED BY <2>1, AcceptKeeps
<1>3. ASSUME NEW d \in toSwitch, LoseToSwitch(d) PROVE OriginsKnown' /\ NoEcho'
  BY <1>3 DEF LoseToSwitch, Belongs
<1>4. CASE SwitchSend BY <1>4, SendKeeps
<1>5. CASE SwitchForget
  <2>1. PICK kept \in SUBSET DOMAIN loc : loc' = [m \in kept |-> loc[m]] /\ pending = {}
    BY <1>5 DEF SwitchForget, Forget
  <2>2. \A m \in DOMAIN loc' : Belongs(m, loc'[m])
    BY <2>1
  <2> QED BY <1>5, <2>1, <2>2 DEF SwitchForget, Forget, Belongs
<1>6. CASE RestartSwitch
  <2>1. DOMAIN loc' = {}
    BY <1>6, EmptyTable DEF RestartSwitch
  <2> QED BY <1>6, <2>1 DEF RestartSwitch, Belongs
<1>7. CASE LoseToPort BY <1>7 DEF LoseToPort, Belongs
<1>8. CASE UNCHANGED vars BY <1>8 DEF vars, Belongs
<1> QED BY <1>1, <1>2, <1>3, <1>4, <1>5, <1>6, <1>7, <1>8 DEF NetNext

\* No station gets its own frames back, through restarts of ports and switch, old
\* entries and old datagrams (v_switch.c:162-210, vs_port.c:231-303).
THEOREM NoEchoAlways ==
  ASSUME OneStationEach
  PROVE  NetSpec => []NoEcho
<1>1. IInv => NoEcho BY DEF IInv
<1>2. IInv /\ [NetNext]_vars => IInv' BY IInvStep
<1> QED BY <1>1, <1>2, IInvInit, PTL DEF NetSpec
=============================================================================
