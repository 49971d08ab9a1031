---------------------------- MODULE MCMacTable ----------------------------
(* The MAC table alone, for TLC: three MAC addresses, two ports and a      *)
(* table of two entries, so that the third new MAC forces an eviction.     *)
EXTENDS MacTable

CONSTANTS a, b, c, p1, p2

MCMacs == {a, b, c}
MCPorts == {p1, p2}
MCSize == 2
=============================================================================
