------------------------------ MODULE MCVSwitch ------------------------------
(***************************************************************************)
(* Small instances of VSwitch for TLC.                                     *)
(***************************************************************************)
EXTENDS VSwitch

CONSTANTS m1, m2, m3, h1, h2, p1, p2

A(h, p) == [ip |-> h, port |-> p]

\* Two ports on different machines, each with a UDP port number of its own.
TwoPorts   == {A(h1, p1), A(h2, p2)}

\* Two ports on different machines that use the same UDP port number.
SameNumber == {A(h1, p1), A(h2, p1)}

\* Every station may turn up behind every address.
AnyTraffic == MAC \X Addr
=============================================================================
