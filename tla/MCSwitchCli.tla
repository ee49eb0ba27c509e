----------------------------- MODULE MCSwitchCli -----------------------------
(***************************************************************************)
(* Small instances of SwitchCli for TLC: two stations that roam between    *)
(* two ports.                                                              *)
(***************************************************************************)
EXTENDS SwitchCli

CONSTANTS m1, m2, h1, h2, p1, p2

TwoPorts   == {[ip |-> h1, port |-> p1], [ip |-> h2, port |-> p2]}
AnyTraffic == MAC \X Addr
=============================================================================
