------------------------------- MODULE VSwitch -------------------------------
(***************************************************************************)
(* The main thread of the virtual switch (final_project/v_switch.c): the   *)
(* receive loop, MAC learning, forwarding and flooding, and the aging of   *)
(* the MAC table driven by SIGALRM.  One iteration of the loop is          *)
(*                                                                         *)
(*   recv -> learn -> forward -> age -> clear -> rearm -> recv             *)
(*                                                                         *)
(* with the shortcuts the code takes.  The signal may come at any point.   *)
(***************************************************************************)
EXTENDS Integers, FiniteSets

CONSTANTS
  MAC,        \* unicast station addresses
  Broadcast,  \* ff:ff:ff:ff:ff:ff
  Host,       \* IPv4 addresses of the machines the ports run on
  UdpPort,    \* UDP port numbers
  Addr,       \* the socket addresses the ports send from (struct sockaddr_in)
  Traffic,    \* <<m, a>>: a frame sent by station m may arrive from address a
  MaxAge      \* max_age of refresh_age: 20 in the code

ASSUME VSwitchAssumption ==
  /\ Broadcast \notin MAC
  /\ Addr \subseteq [ip : Host, port : UdpPort]
  /\ Traffic \subseteq MAC \X Addr
  /\ MaxAge \in Nat

VARIABLES
  pc,                \* where the main thread is in its loop
  mac_table,         \* the GHashTable: a function on the MACs it holds
  cur,               \* the receive buffer and the source address recvfrom left
  out,               \* the sendto calls made for the last frame forwarded
  refresh_age_flag,  \* set by the SIGALRM handler, cleared by refresh_age
  alarm_pending,     \* alarm(1) is armed
  heard              \* history, read by no action: who was heard, from where
                     \* and how many refreshes ago

vars == <<pc, mac_table, cur, out, refresh_age_flag, alarm_pending, heard>>

-----------------------------------------------------------------------------
Datagram == [dst : MAC \cup {Broadcast}, src : MAC, from : Addr]
Copy     == [mac : MAC, addr : Addr]
Record   == [addr : Addr, age : 0 .. MaxAge + 1]

\* The history counts refreshes up to this bound, one past the last it matters.
TickBound == MaxAge + 2
Hearing   == [from : Addr, ticks : 0 .. TickBound]

PC == {"recv", "learn", "forward", "age", "clear", "rearm"}

\* f with k mapped to v, whether or not k was in its domain.
With(f, k, v) == [x \in DOMAIN f \cup {k} |-> IF x = k THEN v ELSE f[x]]

\* The function on the empty set: a table with no entry.
Empty == [m \in {} |-> m]

-----------------------------------------------------------------------------
\* switch_init and the start of main: an empty table and the first alarm armed.
\* The buffer holds nothing yet.
Init ==
  /\ pc = "recv"
  /\ mac_table = Empty
  /\ cur = {}
  /\ out = {}
  /\ refresh_age_flag = FALSE
  /\ alarm_pending = TRUE
  /\ heard = Empty

\* recvfrom returns a frame; its source address overwrites v_switch.switch_addr.
Recv(d) ==
  /\ pc = "recv"
  /\ <<d.src, d.from>> \in Traffic
  /\ cur' = {d}
  /\ heard' = With(heard, d.src, [from |-> d.from, ticks |-> 0])
  /\ pc' = "learn"
  /\ UNCHANGED <<mac_table, out, refresh_age_flag, alarm_pending>>

\* The socket does not block: with nothing to read the loop goes on to aging.
RecvNothing ==
  /\ pc = "recv"
  /\ pc' = "age"
  /\ UNCHANGED <<mac_table, cur, out, refresh_age_flag, alarm_pending, heard>>

\* Mutant of LearnKnown: the age of a known source is not reset.
LearnKnownKeepAge(d) ==
  /\ pc = "learn"
  /\ d.src \in DOMAIN mac_table
  /\ mac_table' = [mac_table EXCEPT ![d.src].addr = d.from]
  /\ pc' = "forward"
  /\ UNCHANGED <<cur, out, refresh_age_flag, alarm_pending, heard>>

\* MAC learning, source known: age reset, address overwritten in place.
LearnKnown(d) ==
  /\ pc = "learn"
  /\ d.src \in DOMAIN mac_table
  /\ mac_table' = [mac_table EXCEPT ![d.src] = [addr |-> d.from, age |-> 0]]
  /\ pc' = "forward"
  /\ UNCHANGED <<cur, out, refresh_age_flag, alarm_pending, heard>>

\* MAC learning, source unknown: a new record is inserted.
LearnNew(d) ==
  /\ pc = "learn"
  /\ d.src \notin DOMAIN mac_table
  /\ mac_table' = With(mac_table, d.src, [addr |-> d.from, age |-> 0])
  /\ pc' = "forward"
  /\ UNCHANGED <<cur, out, refresh_age_flag, alarm_pending, heard>>

\* The test that the destination is where the frame came from: the UDP port
\* numbers are compared, the IP addresses are not.
IsHere(m, d) == mac_table[m].addr.port = d.from.port

\* The destination is known and is here: nothing is sent, and continue skips
\* the aging part of the loop.
ForwardHere(d) ==
  /\ pc = "forward"
  /\ d.dst \in DOMAIN mac_table
  /\ IsHere(d.dst, d)
  /\ out' = {}
  /\ pc' = "recv"
  /\ UNCHANGED <<mac_table, cur, refresh_age_flag, alarm_pending, heard>>

\* The destination is known and is elsewhere: one sendto.
ForwardKnown(d) ==
  /\ pc = "forward"
  /\ d.dst \in DOMAIN mac_table
  /\ ~IsHere(d.dst, d)
  /\ out' = {[mac |-> d.dst, addr |-> mac_table[d.dst].addr]}
  /\ pc' = "age"
  /\ UNCHANGED <<mac_table, cur, refresh_age_flag, alarm_pending, heard>>

\* Mutant of Flood: at the source's own record the walk ends (break for continue).
FloodUntilSource(d) ==
  /\ pc = "forward"
  /\ d.dst \notin DOMAIN mac_table
  /\ \E before \in SUBSET (DOMAIN mac_table \ {d.src}) :
       out' = {[mac |-> m, addr |-> mac_table[m].addr] : m \in before}
  /\ pc' = "age"
  /\ UNCHANGED <<mac_table, cur, refresh_age_flag, alarm_pending, heard>>

\* Broadcast or unknown destination: one sendto for each record but the source's.
Flood(d) ==
  /\ pc = "forward"
  /\ d.dst \notin DOMAIN mac_table
  /\ out' = {[mac |-> m, addr |-> mac_table[m].addr] :
               m \in DOMAIN mac_table \ {d.src}}
  /\ pc' = "age"
  /\ UNCHANGED <<mac_table, cur, refresh_age_flag, alarm_pending, heard>>

\* No refresh is due.
SkipAging ==
  /\ pc = "age"
  /\ ~refresh_age_flag
  /\ pc' = "recv"
  /\ UNCHANGED <<mac_table, cur, out, refresh_age_flag, alarm_pending, heard>>

\* Mutant of Expired: one tick too late.
ExpiredLate(m) == mac_table[m].age > MaxAge + 1

\* process_mac_age on one record: an old one is removed, another gets older.
Expired(m) == mac_table[m].age > MaxAge
Older(r)   == [r EXCEPT !.age = @ + 1]

\* refresh_age, g_hash_table_foreach_remove: every record is processed.
RefreshTable ==
  /\ pc = "age"
  /\ refresh_age_flag
  /\ mac_table' = [m \in {k \in DOMAIN mac_table : ~Expired(k)} |->
                     Older(mac_table[m])]
  /\ heard' = [m \in DOMAIN heard |->
                 IF heard[m].ticks < TickBound
                 THEN [heard[m] EXCEPT !.ticks = @ + 1]
                 ELSE heard[m]]
  /\ pc' = "clear"
  /\ UNCHANGED <<cur, out, refresh_age_flag, alarm_pending>>

\* Mutant of ClearFlag: the alarm is armed while the flag is still up.
ArmFirst ==
  /\ pc = "clear"
  /\ alarm_pending' = TRUE
  /\ pc' = "rearm"
  /\ UNCHANGED <<mac_table, cur, out, refresh_age_flag, heard>>

\* refresh_age clears the flag ...
ClearFlag ==
  /\ pc = "clear"
  /\ refresh_age_flag' = FALSE
  /\ pc' = "rearm"
  /\ UNCHANGED <<mac_table, cur, out, alarm_pending, heard>>

\* Mutant of Rearm: the alarm is not armed again.
RearmNever ==
  /\ pc = "rearm"
  /\ pc' = "recv"
  /\ UNCHANGED <<mac_table, cur, out, refresh_age_flag, alarm_pending, heard>>

\* ... and only then arms the next alarm.
Rearm ==
  /\ pc = "rearm"
  /\ alarm_pending' = TRUE
  /\ pc' = "recv"
  /\ UNCHANGED <<mac_table, cur, out, refresh_age_flag, heard>>

\* SIGALRM: handle_alarm runs, whatever the main thread is doing.
HandleAlarm ==
  /\ alarm_pending
  /\ alarm_pending' = FALSE
  /\ refresh_age_flag' = TRUE
  /\ UNCHANGED <<pc, mac_table, cur, out, heard>>

-----------------------------------------------------------------------------
\* What the main thread does with the frame in its buffer.
Process ==
  \E d \in cur :
    \/ LearnKnown(d)
    \/ LearnNew(d)
    \/ ForwardHere(d)
    \/ ForwardKnown(d)
    \/ Flood(d)

Aging == SkipAging \/ RefreshTable \/ ClearFlag \/ Rearm

Next ==
  \/ \E d \in Datagram : Recv(d)
  \/ RecvNothing
  \/ Process
  \/ Aging
  \/ HandleAlarm

Spec == Init /\ [][Next]_vars

\* The main thread is scheduled, and an armed alarm goes off.  Nothing is said
\* of what arrives: the ports may send for ever or never.
Fairness ==
  /\ WF_vars(\/ \E d \in Datagram : Recv(d)
             \/ RecvNothing
             \/ Process
             \/ Aging)
  /\ WF_vars(HandleAlarm)

FairSpec == Spec /\ Fairness

-----------------------------------------------------------------------------
\* Type invariant of the main thread's state and of the history.
TypeOK ==
  /\ pc \in PC
  /\ /\ DOMAIN mac_table \subseteq MAC
     /\ mac_table \in [DOMAIN mac_table -> Record]
  /\ cur \in SUBSET Datagram
  /\ out \in SUBSET Copy
  /\ refresh_age_flag \in BOOLEAN
  /\ alarm_pending \in BOOLEAN
  /\ /\ DOMAIN heard \subseteq MAC
     /\ heard \in [DOMAIN heard -> Hearing]

\* A frame is in the buffer but its source is not learned yet.
Unlearned(m) == pc = "learn" /\ \E d \in cur : d.src = m

\* The table holds exactly the stations heard within the last MaxAge + 1
\* refreshes, each at the address it was last heard from and with the age that
\* counts the refreshes since: learning, moving to another address, and the
\* deletion of old entries (v_switch.c:138-160, 449-472) together neither lose a
\* live station nor keep a silent one.
TableIsRecentlyHeard ==
  \A m \in MAC :
    ~Unlearned(m) =>
      /\ m \in DOMAIN mac_table <=>
           (m \in DOMAIN heard /\ heard[m].ticks <= MaxAge + 1)
      /\ m \in DOMAIN mac_table =>
           /\ mac_table[m].addr = heard[m].from
           /\ mac_table[m].age = heard[m].ticks

\* Aging never dies: a tick is armed, or raised and not served, or being served,
\* and never two at once (v_switch.c:443-472: the flag is cleared before the
\* alarm is armed again, so no signal can be wiped out).
TickNeverLost ==
  /\ alarm_pending \/ refresh_age_flag \/ pc = "rearm"
  /\ ~(alarm_pending /\ refresh_age_flag)
  /\ pc \in {"clear", "rearm"} => ~alarm_pending

\* The place of every station in the table, for the refinement.
Places == [m \in DOMAIN mac_table |-> mac_table[m].addr]

\* Addresses on different machines with the same UDP port number: what the
\* comparison at v_switch.c:166 does not tell apart.
SamePortNumber == {ab \in Addr \X Addr : ab[1].port = ab[2].port}

LS == INSTANCE LearningSwitch
        WITH loc <- Places, pending <- IF pc = "forward" THEN cur ELSE {},
             Alike <- SamePortNumber

\* The loop implements the abstract switch: frames, learning and aging in any
\* order give every place that must get a copy one, the sender's station none,
\* and a station that is not the destination of a known one none
\* (v_switch.c:138-216).
ImplementsLearningSwitch == LS!Spec

\* The ports the last frame went to.
PortsSent == {c.addr : c \in out}

\* The ports the documentation names for a frame: that of its destination, or
\* every known port, and never the one it came from.
DocumentedPorts(d) ==
  LET stations == IF d.dst \in DOMAIN mac_table THEN {d.dst} ELSE DOMAIN mac_table
  IN  {mac_table[m].addr : m \in stations} \ {d.from}

\* A frame goes to the ports the documentation names (final_project/README.md:31,
\* v_switch.c:194).  It does not: see the run switch_ports.
FramesGoAsDocumented ==
  [][\A d \in cur :
       (ForwardHere(d) \/ ForwardKnown(d) \/ Flood(d)) => PortsSent' = DocumentedPorts(d)]_vars

-----------------------------------------------------------------------------
\* From some point on no frame is discarded, and no frame comes from m.
DiscardsEnd == <>[][~\E d \in cur : ForwardHere(d)]_vars
Silent(m)   == <>[][~\E d \in Datagram : d.src = m /\ Recv(d)]_vars

\* A station that falls silent is forgotten for good, whatever the others send
\* (v_switch.c:212-216, 443-472), unless discarded frames keep the loop from
\* its aging part for ever (the continue at v_switch.c:169).
SilentStationForgotten ==
  \A m \in MAC : DiscardsEnd /\ Silent(m) => <>[](m \notin DOMAIN mac_table)
=============================================================================
