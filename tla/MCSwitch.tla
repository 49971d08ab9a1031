----------------------------- MODULE MCSwitch -----------------------------
(***************************************************************************)
(* Instances of the switch for TLC.  Ports, MACs and the markers are model *)
(* values; each configuration below picks the VLAN setup and the frames    *)
(* the guests may send, small enough to enumerate and chosen so that each  *)
(* forwarding path (learned unicast, VLAN mismatch, self-addressed, flood, *)
(* ingress drop, tag insertion and removal) occurs.                        *)
(***************************************************************************)
EXTENDS Switch, TLC

CONSTANTS pa1, pt, pn, pn2, pm, ma, mb

\* VLAN_ID_NATIVE and VLAN_ID_TRUNK: the two ids outside 1..4094.
MCNative == 0
MCTrunk == 4095

\* Setup A: an access port of VLAN 1, a trunk port of VLANs 1 and 2, a
\* monitor.  Frames tagged 2 reach the trunk port but not the access port.
VlanPortsA == {pa1, pt}
VlanIdA == (pa1 :> 1 @@ pt :> MCTrunk)
TrunkIdsA == (pa1 :> {} @@ pt :> {1, 2})
FramesA ==
  { [src |-> ma, dst |-> Bcast, tag |-> NoTag],
    [src |-> ma, dst |-> Bcast, tag |-> 1],
    [src |-> mb, dst |-> ma, tag |-> 2],
    [src |-> mb, dst |-> ma, tag |-> NoTag] }

\* Setup B: three native ports, for the port array and the flood loop.
NativePortsB == {pn, pn2, pa1}
VlanIdB == (pn :> MCNative @@ pn2 :> MCNative @@ pa1 :> MCNative)
TrunkIdsB == (pn :> {} @@ pn2 :> {} @@ pa1 :> {})
FramesB ==
  { [src |-> ma, dst |-> Bcast, tag |-> NoTag],
    [src |-> mb, dst |-> ma, tag |-> NoTag] }

\* Setup C: a native port next to an access port of VLAN 1.
MixedPortsC == {pn, pa1}
VlanIdC == (pn :> MCNative @@ pa1 :> 1)
TrunkIdsC == (pn :> {} @@ pa1 :> {})
FramesC ==
  { [src |-> ma, dst |-> Bcast, tag |-> 1] }

\* Setup D: an access port of VLAN 1 and a trunk port of VLANs 2 and 33.
\* 33 & 31 = 1, so VLAN 1 passes the trunk port's Bloom filter and only
\* the lookup in _vlan_ids keeps VLAN 1 frames away from it.
BloomPortsD == {pa1, pt}
VlanIdD == VlanIdA
TrunkIdsD == (pa1 :> {} @@ pt :> {2, 33})
FramesD ==
  { [src |-> ma, dst |-> Bcast, tag |-> NoTag],
    [src |-> mb, dst |-> ma, tag |-> NoTag],
    [src |-> mb, dst |-> ma, tag |-> 33] }

NoMacs == [p \in AllPorts |-> UnknownMac]

\* Setup B with "mac=" options: pn and pn2 are given the same MAC, so
\* add_port() rejects whichever of them comes second.
SharedMacB == (pn :> ma @@ pn2 :> ma @@ pa1 :> UnknownMac @@ pm :> UnknownMac)
=============================================================================
