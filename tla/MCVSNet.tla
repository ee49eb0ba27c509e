------------------------------- MODULE MCVSNet -------------------------------
(***************************************************************************)
(* A small instance of VSNet for TLC: two ports with a station each, one   *)
(* of which changes its socket address when it is restarted.               *)
(***************************************************************************)
EXTENDS VSNet

CONSTANTS pA, pB, mA, mB, a1, a2, b1

OneStation  == [p \in Port |-> IF p = pA THEN {mA} ELSE {mB}]

\* The switch tells all addresses apart.
SameAddress == {<<a, a>> : a \in Addr}

\* The first port's machine gives its socket another address after a restart.
OwnAddresses == [p \in Port |-> IF p = pA THEN {a1, a2} ELSE {b1}]

\* Unicast both ways.
Unicasts == {[dst |-> mB, src |-> mA], [dst |-> mA, src |-> mB]}
=============================================================================
