--------------------------- MODULE LearningSwitch ---------------------------
(***************************************************************************)
(* What a layer 2 switch promises, without the program: it remembers       *)
(* where each station was last heard, hands a frame for a remembered       *)
(* station to that place only, and every other frame to every place it     *)
(* knows but the sender's.  It may send a place one copy for each station  *)
(* there, and it may be unable to tell certain places apart; a switch that *)
(* sends one copy to each place and tells all of them apart implements it  *)
(* as well.  VSwitch.tla is shown to implement this specification.         *)
(***************************************************************************)
EXTENDS FiniteSets

CONSTANTS
  MAC,        \* unicast station addresses
  Broadcast,  \* the broadcast address
  Addr,       \* the places a frame can come from or go to
  Alike       \* <<a, b>>: places the switch may take for one

VARIABLES
  loc,        \* where each remembered station is: a function on a subset of MAC
  pending,    \* the set of frames accepted and not yet delivered (at most one)
  out         \* the copies made of the last frame delivered

lsVars == <<loc, pending, out>>

Datagram == [dst : MAC \cup {Broadcast}, src : MAC, from : Addr]
Copy     == [mac : MAC, addr : Addr]

\* Mutant of Allowed: the sender may get a copy too.
AllowedToAll(places, d) ==
  IF d.dst \in DOMAIN places
  THEN {c \in {[mac |-> d.dst, addr |-> places[d.dst]]} : c.addr # d.from}
  ELSE {[mac |-> m, addr |-> places[m]] : m \in DOMAIN places}

\* The copies a frame may give: to the place of its destination, unless the
\* frame came from there, or to the places of the other remembered stations.
Allowed(places, d) ==
  IF d.dst \in DOMAIN places
  THEN {c \in {[mac |-> d.dst, addr |-> places[d.dst]]} : c.addr # d.from}
  ELSE {[mac |-> m, addr |-> places[m]] : m \in DOMAIN places \ {d.src}}

\* The places that must get one: those that are not taken for the sender's.
Due(places, d) ==
  {c.addr : c \in {e \in Allowed(places, d) : <<e.addr, d.from>> \notin Alike}}

Init ==
  /\ loc = [m \in {} |-> m]
  /\ pending = {}
  /\ out = {}

\* Mutant of Accept: a remembered sender is not looked at again.
AcceptFirst(d) ==
  /\ pending = {}
  /\ pending' = {d}
  /\ loc' = [m \in DOMAIN loc \cup {d.src} |->
               IF m \in DOMAIN loc THEN loc[m] ELSE d.from]
  /\ UNCHANGED out

\* A frame arrives: its sender is now known to be where the frame came from.
Accept(d) ==
  /\ pending = {}
  /\ pending' = {d}
  /\ loc' = [m \in DOMAIN loc \cup {d.src} |->
               IF m = d.src THEN d.from ELSE loc[m]]
  /\ UNCHANGED out

\* The accepted frame is delivered.
Deliver ==
  \E d \in pending :
    /\ out' \in SUBSET Allowed(loc, d)
    /\ Due(loc, d) \subseteq {c.addr : c \in out'}
    /\ pending' = {}
    /\ UNCHANGED loc

\* Some stations are forgotten, never while a frame is in hand.
Forget ==
  /\ pending = {}
  /\ \E kept \in SUBSET DOMAIN loc : loc' = [m \in kept |-> loc[m]]
  /\ UNCHANGED <<pending, out>>

Next ==
  \/ \E d \in Datagram : Accept(d)
  \/ Deliver
  \/ Forget

Spec == Init /\ [][Next]_lsVars
=============================================================================
