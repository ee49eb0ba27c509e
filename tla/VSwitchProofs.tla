---------------------------- MODULE VSwitchProofs ----------------------------
(***************************************************************************)
(* What is proved of VSwitch.tla for every set of stations, addresses and  *)
(* frames and every maximal age: the type invariant, the two safety        *)
(* invariants and the refinement of LearningSwitch.                        *)
(***************************************************************************)
EXTENDS VSwitch, TLAPS

\* The buffer holds at most one frame, and one whenever the loop is past recvfrom.
OneFrame ==
  /\ \A d, e \in cur : d = e
  /\ pc \in {"learn", "forward"} => cur # {}

\* The history has just noted the frame that is about to be learned.
JustHeard ==
  pc = "learn" =>
    \A d \in cur :
      /\ d.src \in DOMAIN heard
      /\ heard[d.src] = [from |-> d.from, ticks |-> 0]

\* While a refresh is being served its tick is raised, then wiped out.
Serving == (pc = "clear" => refresh_age_flag) /\ (pc = "rearm" => ~refresh_age_flag)

\* TableIsRecentlyHeard for one station; it is inductive with JustHeard.
TableEntry(m) ==
  ~Unlearned(m) =>
    /\ m \in DOMAIN mac_table <=>
         (m \in DOMAIN heard /\ heard[m].ticks <= MaxAge + 1)
    /\ m \in DOMAIN mac_table =>
         /\ mac_table[m].addr = heard[m].from
         /\ mac_table[m].age = heard[m].ticks

\* The part of the inductive invariant that is about control.
Control == OneFrame /\ JustHeard /\ TickNeverLost /\ Serving

\* The inductive invariant.
IInv ==
  /\ TypeOK
  /\ Control
  /\ \A m \in MAC : TableEntry(m)

-----------------------------------------------------------------------------
\* Every step keeps the types.
LEMMA TypeStep == TypeOK /\ [Next]_vars => TypeOK'
<1> SUFFICES ASSUME TypeOK, [Next]_vars PROVE TypeOK'
  OBVIOUS
<1> USE VSwitchAssumption
<1>1. ASSUME NEW d \in Datagram, Recv(d) PROVE TypeOK'
  <2>1. /\ d.src \in MAC
        /\ [from |-> d.from, ticks |-> 0] \in Hearing
    BY DEF Datagram, Hearing, TickBound
  <2>2. /\ DOMAIN heard' \subseteq MAC
        /\ heard' \in [DOMAIN heard' -> Hearing]
    BY <1>1, <2>1 DEF Recv, TypeOK, With
  <2> QED
    BY <1>1, <2>2 DEF Recv, TypeOK, PC
<1>2. CASE RecvNothing
  BY <1>2 DEF RecvNothing, TypeOK, PC
<1>3. ASSUME NEW d \in cur, LearnKnown(d) PROVE TypeOK'
  <2>1. [addr |-> d.from, age |-> 0] \in Record
    BY DEF TypeOK, Datagram, Record
  <2> QED
    BY <1>3, <2>1 DEF LearnKnown, TypeOK, PC
<1>4. ASSUME NEW d \in cur, LearnNew(d) PROVE TypeOK'
  <2>1. /\ d.src \in MAC
        /\ [addr |-> d.from, age |-> 0] \in Record
    BY DEF TypeOK, Datagram, Record
  <2>2. /\ DOMAIN mac_table' \subseteq MAC
        /\ mac_table' \in [DOMAIN mac_table' -> Record]
    BY <1>4, <2>1 DEF LearnNew, TypeOK, With
  <2> QED
    BY <1>4, <2>2 DEF LearnNew, TypeOK, PC
<1>5. ASSUME NEW d \in cur, ForwardHere(d) PROVE TypeOK'
  BY <1>5 DEF ForwardHere, TypeOK, PC
<1>6. ASSUME NEW d \in cur, ForwardKnown(d) PROVE TypeOK'
  <2>1. [mac |-> d.dst, addr |-> mac_table[d.dst].addr] \in Copy
    BY <1>6 DEF ForwardKnown, TypeOK, Record, Copy
  <2> QED
    BY <1>6, <2>1 DEF ForwardKnown, TypeOK, PC
<1>7. ASSUME NEW d \in cur, Flood(d) PROVE TypeOK'
  <2>1. \A m \in DOMAIN mac_table :
          [mac |-> m, addr |-> mac_table[m].addr] \in Copy
    BY DEF TypeOK, Record, Copy
  <2> QED
    BY <1>7, <2>1 DEF Flood, TypeOK, PC
<1>8. CASE SkipAging
  BY <1>8 DEF SkipAging, TypeOK, PC
<1>9. CASE RefreshTable
  <2>1. /\ DOMAIN mac_table' \subseteq MAC
        /\ mac_table' \in [DOMAIN mac_table' -> Record]
    BY <1>9 DEF RefreshTable, TypeOK, Record, Expired, Older
  <2>2. /\ DOMAIN heard' \subseteq MAC
        /\ heard' \in [DOMAIN heard' -> Hearing]
    BY <1>9 DEF RefreshTable, TypeOK, Hearing, TickBound
  <2> QED
    BY <1>9, <2>1, <2>2 DEF RefreshTable, TypeOK, PC
<1>10. CASE ClearFlag
  BY <1>10 DEF ClearFlag, TypeOK, PC
<1>11. CASE Rearm
  BY <1>11 DEF Rearm, TypeOK, PC
<1>12. CASE HandleAlarm
  BY <1>12 DEF HandleAlarm, TypeOK
<1>13. CASE UNCHANGED vars
  BY <1>13 DEF vars, TypeOK
<1> QED
  BY <1>1, <1>2, <1>3, <1>4, <1>5, <1>6, <1>7, <1>8, <1>9, <1>10, <1>11,
     <1>12, <1>13 DEF Next, Process, Aging

-----------------------------------------------------------------------------
LEMMA InitIInv == Init => IInv
<1> SUFFICES ASSUME Init PROVE IInv
  OBVIOUS
<1>1. TypeOK
  BY VSwitchAssumption DEF Init, TypeOK, PC, Empty
<1>2. Control
  BY DEF Init, Control, OneFrame, JustHeard, TickNeverLost, Serving
<1>3. \A m \in MAC : TableEntry(m)
  BY DEF Init, TableEntry, Unlearned, Empty
<1> QED
  BY <1>1, <1>2, <1>3 DEF IInv

\* Every step of the loop and of the signal handler keeps the control part.
LEMMA ControlStep ==
  IInv /\ [Next]_vars => Control'
<1> SUFFICES ASSUME IInv, [Next]_vars
             PROVE  Control'
  OBVIOUS
<1> USE DEF IInv, Control, OneFrame, JustHeard, TickNeverLost, Serving
<1>1. ASSUME NEW d \in Datagram, Recv(d)
      PROVE  Control'
  BY <1>1 DEF Recv, With
<1>2. CASE RecvNothing
  BY <1>2 DEF RecvNothing
<1>3. ASSUME NEW d \in cur, LearnKnown(d) \/ LearnNew(d)
      PROVE  Control'
  BY <1>3 DEF LearnKnown, LearnNew
<1>4. ASSUME NEW d \in cur, ForwardHere(d) \/ ForwardKnown(d) \/ Flood(d)
      PROVE  Control'
  BY <1>4 DEF ForwardHere, ForwardKnown, Flood
<1>5. CASE SkipAging \/ ClearFlag \/ Rearm
  BY <1>5 DEF SkipAging, ClearFlag, Rearm
<1>6. CASE RefreshTable
  BY <1>6 DEF RefreshTable
<1>7. CASE HandleAlarm
  BY <1>7 DEF HandleAlarm
<1>8. CASE UNCHANGED vars
  BY <1>8 DEF vars
<1> QED
  BY <1>1, <1>2, <1>3, <1>4, <1>5, <1>6, <1>7, <1>8 DEF Next, Process, Aging

\* Every step keeps the entry of each station in line with the history.
LEMMA EntryStep ==
  ASSUME IInv, [Next]_vars, NEW m \in MAC
  PROVE  TableEntry(m)'
<1> USE VSwitchAssumption
<1> TableEntry(m)
  BY DEF IInv
<1>1. ASSUME NEW d \in Datagram, Recv(d) PROVE TableEntry(m)'
  <2>1. CASE m = d.src
    BY <1>1, <2>1 DEF Recv, TableEntry, Unlearned
  <2>2. CASE m # d.src
    BY <1>1, <2>2 DEF Recv, TableEntry, Unlearned, With
  <2> QED
    BY <2>1, <2>2
<1>2. CASE RecvNothing
  BY <1>2 DEF RecvNothing, TableEntry, Unlearned
<1>3. ASSUME NEW d \in cur, LearnKnown(d) \/ LearnNew(d) PROVE TableEntry(m)'
  <2>1. /\ d.src \in DOMAIN heard
        /\ heard[d.src] = [from |-> d.from, ticks |-> 0]
        /\ heard' = heard
    BY <1>3 DEF IInv, Control, JustHeard, LearnKnown, LearnNew
  <2>2. CASE m = d.src
    <3>1. m \in DOMAIN mac_table' /\ mac_table'[m] = [addr |-> d.from, age |-> 0]
      BY <1>3, <2>2 DEF LearnKnown, LearnNew, With, IInv, TypeOK
    <3> QED
      BY <2>1, <2>2, <3>1 DEF TableEntry
  <2>3. CASE m # d.src
    <3>1. ~Unlearned(m)
      BY <2>3 DEF Unlearned, IInv, Control, OneFrame
    <3>2. /\ m \in DOMAIN mac_table' <=> m \in DOMAIN mac_table
          /\ m \in DOMAIN mac_table => mac_table'[m] = mac_table[m]
      BY <1>3, <2>3 DEF LearnKnown, LearnNew, With, IInv, TypeOK
    <3> QED
      BY <2>1, <3>1, <3>2 DEF TableEntry
  <2> QED
    BY <2>2, <2>3
<1>4. ASSUME NEW d \in cur, ForwardHere(d) \/ ForwardKnown(d) \/ Flood(d)
      PROVE  TableEntry(m)'
  BY <1>4 DEF ForwardHere, ForwardKnown, Flood, TableEntry, Unlearned
<1>5. CASE SkipAging \/ ClearFlag \/ Rearm
  BY <1>5 DEF SkipAging, ClearFlag, Rearm, TableEntry, Unlearned
<1>6. CASE RefreshTable
  <2>1. ~Unlearned(m)
    BY <1>6 DEF RefreshTable, Unlearned
  <2>2. DOMAIN heard' = DOMAIN heard
    BY <1>6 DEF RefreshTable
  <2>3. CASE m \notin DOMAIN heard
    BY <1>6, <2>1, <2>2, <2>3 DEF RefreshTable, TableEntry
  <2>4. CASE m \in DOMAIN heard /\ m \notin DOMAIN mac_table
    <3>1. heard[m].ticks = TickBound
      BY <2>1, <2>4 DEF TableEntry, IInv, TypeOK, Hearing, TickBound
    <3>2. heard'[m] = heard[m]
      BY <1>6, <2>4, <3>1 DEF RefreshTable, TickBound
    <3>3. m \notin DOMAIN mac_table'
      BY <1>6, <2>4 DEF RefreshTable
    <3> QED
      BY <3>1, <3>2, <3>3 DEF TableEntry, TickBound
  <2>5. CASE m \in DOMAIN heard /\ m \in DOMAIN mac_table
    <3>1. /\ heard[m].ticks \in Nat
          /\ heard[m].ticks <= MaxAge + 1
          /\ mac_table[m].addr = heard[m].from
          /\ mac_table[m].age = heard[m].ticks
      BY <2>1, <2>5 DEF TableEntry, IInv, TypeOK, Hearing, TickBound
    <3>2. /\ heard'[m].from = heard[m].from
          /\ heard'[m].ticks = heard[m].ticks + 1
      BY <1>6, <2>5, <3>1 DEF RefreshTable, TickBound, IInv, TypeOK, Hearing
    <3>3. m \in DOMAIN mac_table' <=> heard[m].ticks <= MaxAge
      BY <1>6, <2>5, <3>1 DEF RefreshTable, Expired
    <3>4. m \in DOMAIN mac_table' =>
            /\ mac_table'[m].addr = mac_table[m].addr
            /\ mac_table'[m].age = mac_table[m].age + 1
      BY <1>6, <2>5 DEF RefreshTable, Older, IInv, TypeOK, Record
    <3> QED
      BY <2>2, <2>5, <3>1, <3>2, <3>3, <3>4 DEF TableEntry
  <2> QED
    BY <2>3, <2>4, <2>5
<1>7. CASE HandleAlarm
  BY <1>7 DEF HandleAlarm, TableEntry, Unlearned
<1>8. CASE UNCHANGED vars
  BY <1>8 DEF vars, TableEntry, Unlearned
<1> QED
  BY <1>1, <1>2, <1>3, <1>4, <1>5, <1>6, <1>7, <1>8 DEF Next, Process, Aging

-----------------------------------------------------------------------------
\* The inductive invariant holds throughout.
THEOREM Invariance == Spec => []IInv
<1>1. IInv /\ [Next]_vars => IInv'
  BY TypeStep, ControlStep, EntryStep DEF IInv
<1> QED
  BY InitIInv, <1>1, PTL DEF Spec

\* The main thread's state and the history always have their types
\* (v_switch.c:115-217).
THEOREM TypeCorrect == Spec => []TypeOK
<1>1. IInv => TypeOK
  BY DEF IInv
<1> QED
  BY Invariance, <1>1, PTL

\* For every maximal age the table holds the stations heard within it, where they
\* were last heard (v_switch.c:138-160, 449-472).
THEOREM TableCorrect == Spec => []TableIsRecentlyHeard
<1>1. IInv => TableIsRecentlyHeard
  BY DEF IInv, TableIsRecentlyHeard, TableEntry
<1> QED
  BY Invariance, <1>1, PTL

\* Whenever the signal comes, the next tick of the aging is on its way
\* (v_switch.c:443-472).
THEOREM TickCorrect == Spec => []TickNeverLost
<1>1. IInv => TickNeverLost
  BY DEF IInv, Control
<1> QED
  BY Invariance, <1>1, PTL

-----------------------------------------------------------------------------
\* The forwarding part sends copies the abstract switch allows, and to every
\* place that is due one.
LEMMA ForwardStep ==
  ASSUME TypeOK, NEW d \in cur,
         ForwardHere(d) \/ ForwardKnown(d) \/ Flood(d)
  PROVE  /\ out' \in SUBSET LS!Allowed(Places, d)
         /\ LS!Due(Places, d) \subseteq {c.addr : c \in out'}
<1>1. /\ DOMAIN Places = DOMAIN mac_table
      /\ \A m \in DOMAIN mac_table : Places[m] = mac_table[m].addr
  BY DEF Places
<1>2. d.from \in Addr /\ \A m \in DOMAIN mac_table : mac_table[m].addr \in Addr
  BY DEF TypeOK, Datagram, Record
<1>3. \A m \in DOMAIN mac_table :
        IsHere(m, d) <=> <<mac_table[m].addr, d.from>> \in SamePortNumber
  BY <1>2 DEF IsHere, SamePortNumber
<1>4. CASE ForwardHere(d)
  <2>1. \A c \in LS!Allowed(Places, d) : <<c.addr, d.from>> \in SamePortNumber
    BY <1>1, <1>3, <1>4 DEF ForwardHere, LS!Allowed
  <2> QED BY <1>4, <2>1 DEF ForwardHere, LS!Due
<1>5. CASE ForwardKnown(d)
  <2>1. mac_table[d.dst].addr # d.from
    BY <1>2, <1>5 DEF ForwardKnown, IsHere
  <2>2. LS!Allowed(Places, d) = out'
    BY <1>1, <1>5, <2>1 DEF ForwardKnown, LS!Allowed
  <2> QED BY <2>2 DEF LS!Due
<1>6. CASE Flood(d)
  <2>1. LS!Allowed(Places, d) = out'
    BY <1>1, <1>6 DEF Flood, LS!Allowed
  <2> QED BY <2>1 DEF LS!Due
<1> QED
  BY <1>4, <1>5, <1>6

\* One round of the loop is an accept, a delivery and, when the flag is up, a
\* forgetting of the abstract switch; every other step leaves it alone.
LEMMA RefinementStep ==
  ASSUME IInv, [Next]_vars
  PROVE  [LS!Next]_(LS!lsVars)
<1> DEFINE held == IF pc = "forward" THEN cur ELSE {}
<1>1. ASSUME NEW d \in Datagram, Recv(d) PROVE UNCHANGED LS!lsVars
  BY <1>1 DEF Recv, LS!lsVars, Places
<1>2. CASE RecvNothing
  BY <1>2 DEF RecvNothing, LS!lsVars, Places
<1>3. ASSUME NEW d \in cur, LearnKnown(d) \/ LearnNew(d) PROVE LS!Next
  <2>1. d \in LS!Datagram
    BY DEF IInv, TypeOK, Datagram, LS!Datagram
  <2>2. held = {} /\ held' = {d} /\ out' = out
    BY <1>3 DEF LearnKnown, LearnNew, IInv, Control, OneFrame
  <2>3. DOMAIN mac_table' = DOMAIN mac_table \cup {d.src}
    BY <1>3 DEF LearnKnown, LearnNew, With
  <2>4. \A m \in DOMAIN mac_table' :
          mac_table'[m].addr = IF m = d.src THEN d.from ELSE mac_table[m].addr
    BY <1>3, <2>3 DEF LearnKnown, LearnNew, With
  <2>5. Places' = [m \in DOMAIN Places \cup {d.src} |->
                     IF m = d.src THEN d.from ELSE Places[m]]
    BY <2>3, <2>4 DEF Places
  <2>6. LS!Accept(d)
    BY <2>2, <2>5 DEF LS!Accept
  <2> QED
    BY <2>1, <2>6 DEF LS!Next
<1>4. ASSUME NEW d \in cur, ForwardHere(d) \/ ForwardKnown(d) \/ Flood(d)
      PROVE  LS!Next
  <2>1. /\ out' \in SUBSET LS!Allowed(Places, d)
        /\ LS!Due(Places, d) \subseteq {c.addr : c \in out'}
    BY <1>4, ForwardStep DEF IInv
  <2>2. d \in held /\ held' = {} /\ Places' = Places
    BY <1>4 DEF ForwardHere, ForwardKnown, Flood, Places
  <2>3. LS!Deliver
    BY <2>1, <2>2 DEF LS!Deliver
  <2> QED
    BY <2>3 DEF LS!Next
<1>5. CASE SkipAging \/ ClearFlag \/ Rearm
  BY <1>5 DEF SkipAging, ClearFlag, Rearm, LS!lsVars, Places
<1>6. CASE RefreshTable
  <2>1. held = {} /\ held' = {} /\ out' = out
    BY <1>6 DEF RefreshTable
  <2>2. DOMAIN mac_table' \subseteq DOMAIN mac_table
    BY <1>6 DEF RefreshTable
  <2>3. \A m \in DOMAIN mac_table' : mac_table'[m].addr = mac_table[m].addr
    BY <1>6 DEF RefreshTable, Older, IInv, TypeOK, Record
  <2>4. Places' = [m \in DOMAIN mac_table' |-> Places[m]]
    BY <2>2, <2>3 DEF Places
  <2>5. DOMAIN mac_table' \in SUBSET DOMAIN Places
    BY <2>2 DEF Places
  <2>6. LS!Forget
    BY <2>1, <2>4, <2>5 DEF LS!Forget
  <2> QED
    BY <2>6 DEF LS!Next
<1>7. CASE HandleAlarm
  BY <1>7 DEF HandleAlarm, LS!lsVars, Places
<1>8. CASE UNCHANGED vars
  BY <1>8 DEF vars, LS!lsVars, Places
<1> QED
  BY <1>1, <1>2, <1>3, <1>4, <1>5, <1>6, <1>7, <1>8 DEF Next, Process, Aging

\* Whatever the ports' addresses, frames, learning and aging in any order, the
\* loop is a learning switch that tells ports apart by their UDP port number
\* (v_switch.c:115-217).
THEOREM Refinement == Spec => ImplementsLearningSwitch
<1>1. Init => LS!Init
  BY DEF Init, LS!Init, Places, Empty
<1>2. IInv /\ [Next]_vars => [LS!Next]_(LS!lsVars)
  BY RefinementStep
<1> QED
  BY Invariance, <1>1, <1>2, PTL DEF Spec, LS!Spec, ImplementsLearningSwitch

=============================================================================
