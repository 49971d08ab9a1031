------------------------------- MODULE Switch -------------------------------
(***************************************************************************)
(* The switching fabric of the virtio net switch: the port array of        *)
(* Virtio_switch (switch.cc), the per-port VLAN classifier (port.h), the   *)
(* forwarding decision of handle_tx_queue(), the IRQ loop of               *)
(* handle_port_irq() with its notification race, port creation            *)
(* (op_create, add_port, add_monitor_port) and removal (check_ports), and  *)
(* the guests on the other side of the rings.                              *)
(*                                                                         *)
(* The copy of one frame into one receive ring (Virtio_net_transfer) is   *)
(* taken here as one step that delivers the frame into a free receive      *)
(* chain, drops it when the ring has none, or throws when the chain is    *)
(* too short for the header; module Transfer refines that step into the   *)
(* merged-buffer copy loop.                                                *)
(*                                                                         *)
(* The switch is one event-loop thread: a handler runs to its end before   *)
(* the next event is served.  Only the guests run concurrently with it,    *)
(* so the steps of handle_port_irq() interleave with guest steps only.     *)
(***************************************************************************)
EXTENDS Integers, Sequences, FiniteSets

CONSTANTS
  Ports,       \* switch port objects (Switch_port) that op_create can build
  Monitor,     \* the port object built for "type=monitor"
  NoPort,      \* nullptr
  Macs,        \* guest MAC addresses
  Bcast,       \* ff:ff:ff:ff:ff:ff
  UnknownMac,  \* Mac_addr::Addr_unknown
  NoTag,       \* a frame without an 802.1Q tag
  NATIVE,      \* VLAN_ID_NATIVE
  TRUNK,       \* VLAN_ID_TRUNK
  VlanId,      \* VlanId[p]: the _vlan_id op_create gives port p
  TrunkIds,    \* TrunkIds[p]: the _vlan_ids of a trunk port p
  PortMac,     \* PortMac[p]: the "mac=" of p, or UnknownMac (no MAC set)
  Frames,      \* the frames guests put on their transmit rings
  MaxPorts,    \* max_ports: the size of the _ports array
  Size,        \* the size of the MAC table
  MaxSends,    \* bound: frames all guests transmit in one behaviour
  RxBufs,      \* bound: receive chains one guest posts in one behaviour
  ShortRx      \* guests whose receive buffers are shorter than the header

AllPorts == Ports \cup {Monitor}

\* 12-bit VLAN ids; user-configurable ids are 1..4094 (vlan_valid_id).
Vid == 0 .. 4095
ValidVid == 1 .. 4094

Frame == [src : Macs, dst : Macs \cup {Bcast}, tag : Vid \cup {NoTag}]

ASSUME PortsAssumption ==
  /\ Monitor \notin Ports
  /\ NoPort \notin AllPorts
  /\ IsFiniteSet(Ports)
ASSUME VlanAssumption ==
  /\ NATIVE \in Vid /\ TRUNK \in Vid /\ NATIVE # TRUNK
  /\ NATIVE \notin ValidVid /\ TRUNK \notin ValidVid
  /\ VlanId \in [Ports -> ValidVid \cup {NATIVE, TRUNK}]
  /\ TrunkIds \in [Ports -> SUBSET ValidVid]
  /\ \A p \in Ports : VlanId[p] # TRUNK => TrunkIds[p] = {}
ASSUME MacAssumption ==
  /\ Bcast \notin Macs /\ UnknownMac \notin Macs
  /\ PortMac \in [AllPorts -> Macs \cup {UnknownMac}]
ASSUME BoundsAssumption ==
  /\ Frames \subseteq Frame
  /\ MaxPorts \in Nat \ {0}
  /\ Size \in Nat \ {0}
  /\ MaxSends \in Nat
  /\ RxBufs \in Nat
  /\ ShortRx \subseteq AllPorts

VARIABLES
  slots,     \* _ports: slot -> port object or NoPort
  maxUsed,   \* _max_used
  monitor,   \* _monitor
  life,      \* port object -> "unborn" | "attached" | "closed" | "gone"
  entries, index, rr, hist, flushed,   \* _mac_table (module MacTable)
  tx,        \* transmit ring: frames made available by the guest
  rxFree,    \* receive ring: chains made available by the guest, unused
  rxPosted,  \* receive chains the guest has posted so far (bound)
  rx,        \* receive ring: frames the switch has finished into it
  sent,      \* frames transmitted by all guests so far (bound)
  txNotify,  \* notifications enabled on the port's transmit queue
  kick,      \* the port's kick IRQ is pending
  delIrq,    \* the capability-deletion IRQ is pending
  busy,      \* port whose handle_port_irq() is running, or NoPort
  phase,     \* where that handler is: "drain" | "enable"
  lastFlood  \* history: the last flood, for FloodReachesAll

mtVars == <<entries, index, rr, hist, flushed>>
portVars == <<slots, maxUsed, monitor, life>>
ringVars == <<tx, rxFree, rxPosted, rx, sent>>
irqVars == <<txNotify, kick, delIrq, busy, phase>>
vars == <<portVars, mtVars, ringVars, irqVars, lastFlood>>

MT == INSTANCE MacTable WITH PortIds <- Ports

SlotIds == 0 .. MaxPorts - 1

\* A frame as the destination guest finds it in its receive ring.
Delivery == [from : Ports, sent : Frame, frame : Frame]

NoFlood == [src |-> NoPort, eligible |-> {}, reached |-> {}]

-----------------------------------------------------------------------------
(* The VLAN classifier of a port (port.h).                                 *)

\* get_vlan(), is_trunk(), is_native(), is_access(); a monitor port is a
\* trunk port without VLANs (set_monitor()).
PortVlan(p) == IF p = Monitor THEN TRUNK ELSE VlanId[p]
IsTrunk(p) == PortVlan(p) = TRUNK
IsNative(p) == PortVlan(p) = NATIVE
IsAccess(p) == ~IsTrunk(p) /\ ~IsNative(p)

\* _vlan_bloom_filter as the set of its bits: bit (id & 31) of every id
\* of set_vlan_trunk(); set_monitor() and set_vlan_access() clear it.
BloomBits(p) == IF p = Monitor THEN {} ELSE {id % 32 : id \in TrunkIds[p]}

\* A faulty match_vlan() that trusts the Bloom filter alone.
MatchVlanBloomOnly(p, id) ==
  \/ id = PortVlan(p)
  \/ (id % 32) \in BloomBits(p)

\* match_vlan(id): own VID, else the Bloom filter, else the set.
MatchVlan(p, id) ==
  \/ id = PortVlan(p)
  \/ /\ (id % 32) \in BloomBits(p)
     /\ p # Monitor
     /\ id \in TrunkIds[p]

-----------------------------------------------------------------------------
(* Virtio_net_request (request.h): what the switch reads from a frame.     *)
HasVlan(f) == f.tag # NoTag
VlanOfFrame(f) == IF HasVlan(f) THEN f.tag ELSE NATIVE

\* A faulty ingress policy that lets tagged frames in on access ports.
IngressNoAccessCheck(p, f) ==
  IF IsTrunk(p) THEN VlanOfFrame(f) \in TrunkIds[p] ELSE TRUE

\* get_tx_request(): the ingress policy of the source port p.
Ingress(p, f) ==
  IF IsTrunk(p) THEN VlanOfFrame(f) \in TrunkIds[p]
  ELSE ~(IsAccess(p) /\ HasVlan(f))

\* handle_request(): the mangle the destination q applies to a frame of s.
\* Virtio_vlan_mangle::add() pushes a tag; the frame's tag field is the
\* outermost tag the receiving guest sees.
Mangle(q, s, f) ==
  IF IsTrunk(q)
    THEN IF ~IsTrunk(s) /\ ~IsNative(s) THEN [f EXCEPT !.tag = VlanId[s]] ELSE f
    ELSE IF IsTrunk(s) THEN [f EXCEPT !.tag = NoTag] ELSE f

-----------------------------------------------------------------------------
(* Virtio_switch (switch.cc).                                              *)

InSwitch(p) == life[p] \in {"attached", "closed"}

\* lookup_free_slot()
FreeSlots == {i \in SlotIds : slots[i] = NoPort}
FirstFree == CHOOSE i \in FreeSlots : \A j \in FreeSlots : i <= j

\* The flood loop runs while idx < _max_used && _ports[idx]: it ends at
\* _max_used or at the first empty slot below it.
FloodEnd ==
  LET holes == {i \in 0 .. maxUsed - 1 : slots[i] = NoPort}
  IN  IF holes = {} THEN maxUsed
      ELSE CHOOSE i \in holes : \A j \in holes : i <= j

(***************************************************************************)
(* op_create() for a switch port p, then add_port(): a port whose MAC is   *)
(* already used by a port in the array is rejected, as is one that finds  *)
(* no free slot (port_available() or lookup_free_slot()); a rejected port  *)
(* object is deleted.  Otherwise it takes the first free slot.             *)
(***************************************************************************)
MacInUse(p) ==
  /\ PortMac[p] # UnknownMac
  /\ \E i \in SlotIds : slots[i] # NoPort /\ PortMac[slots[i]] = PortMac[p]

AddPort(p) ==
  /\ busy = NoPort
  /\ life[p] = "unborn"
  /\ IF FreeSlots = {} \/ MacInUse(p)
       THEN /\ life' = [life EXCEPT ![p] = "gone"]
            /\ UNCHANGED <<slots, maxUsed>>
       ELSE /\ slots' = [slots EXCEPT ![FirstFree] = p]
            /\ maxUsed' = IF maxUsed = FirstFree THEN maxUsed + 1 ELSE maxUsed
            /\ life' = [life EXCEPT ![p] = "attached"]
  /\ UNCHANGED <<monitor, mtVars, ringVars, irqVars, lastFlood>>

\* op_create() with "type=monitor", then add_monitor_port().
AddMonitor ==
  /\ busy = NoPort
  /\ life[Monitor] = "unborn"
  /\ IF monitor = NoPort
       THEN /\ monitor' = Monitor
            /\ life' = [life EXCEPT ![Monitor] = "attached"]
       ELSE /\ life' = [life EXCEPT ![Monitor] = "gone"]
            /\ UNCHANGED monitor
  /\ UNCHANGED <<slots, maxUsed, mtVars, ringVars, irqVars, lastFlood>>

(***************************************************************************)
(* check_ports(), run by the capability-deletion IRQ: every port in slots  *)
(* below _max_used whose client is gone is removed and flushed from the    *)
(* MAC table.  _max_used drops by one only when the removed port sat in    *)
(* the last used slot; the loop then ends, so holes below stay.  A gone    *)
(* monitor is deleted too.                                                 *)
(***************************************************************************)
Dead(i) == slots[i] # NoPort /\ life[slots[i]] = "closed"

\* A faulty check_ports() that decrements _max_used for every removal.
MaxUsedAfterCheckAny(removed) ==
  IF removed # {} THEN maxUsed - 1 ELSE maxUsed

\* if (idx == _max_used-1) --_max_used;  the loop then ends.
MaxUsedAfterCheck(removed) ==
  IF maxUsed - 1 \in removed THEN maxUsed - 1 ELSE maxUsed

\* A faulty check_ports() that forgets _mac_table.flush(port).
FlushGoneSkip(gone) == MT!FlushPorts({})

\* _mac_table.flush(port) for every deleted switch port.
FlushGone(gone) == MT!FlushPorts(gone \cap Ports)

CheckPorts ==
  /\ busy = NoPort
  /\ delIrq
  /\ LET removed == {i \in 0 .. maxUsed - 1 : Dead(i)}
         gone    == {slots[i] : i \in removed}
                      \cup (IF monitor # NoPort /\ life[Monitor] = "closed"
                              THEN {Monitor} ELSE {})
     IN  /\ slots' = [i \in SlotIds |-> IF i \in removed THEN NoPort ELSE slots[i]]
         /\ maxUsed' = MaxUsedAfterCheck(removed)
         /\ monitor' = IF Monitor \in gone THEN NoPort ELSE monitor
         /\ life' = [p \in AllPorts |-> IF p \in gone THEN "gone" ELSE life[p]]
         /\ FlushGone(gone)
  /\ delIrq' = FALSE
  /\ UNCHANGED <<ringVars, txNotify, kick, busy, phase, lastFlood>>

(***************************************************************************)
(* The transfers of one handle_tx_queue() (handle_request() of each port  *)
(* q in Q for a frame f of port s), in call order: the ports by slot (the  *)
(* unicast target, the flood loop), then the monitor.  Each puts the      *)
(* mangled frame into a free receive chain of q, or drops it when q's     *)
(* ring has none.  A guest of ShortRx posts chains whose first buffer is  *)
(* shorter than the virtio-net header: transfer() takes the chain and     *)
(* throws L4::Runtime_error (transfer.h:148-150) without finishing or     *)
(* rewinding it.  The error escapes handle_tx_queue() and handle_port_irq()*)
(* (which catches only Bad_descriptor): the calls after it never run and  *)
(* the handler ends with the source port's notifications disabled.        *)
(***************************************************************************)
CallRank(q) == IF q = Monitor THEN MaxPorts ELSE CHOOSE i \in SlotIds : slots[i] = q

\* transfer() into q throws "Target buffer too small for header".
Throws(q) == q \in ShortRx /\ rxFree[q] > 0

\* The calls that run: those up to the first that throws.
Reached(Q) == {q \in Q : \A t \in Q : Throws(t) => CallRank(q) <= CallRank(t)}

Aborts(Q) == \E q \in Q : Throws(q)

\* A faulty transfer that writes into a receive ring without a free chain.
DeliverNoCheck(Q, s, f) ==
  /\ rxFree' = [q \in AllPorts |-> IF q \in Q THEN rxFree[q] - 1 ELSE rxFree[q]]
  /\ rx' = [q \in AllPorts |->
              IF q \in Q
                THEN Append(rx[q], [from |-> s, sent |-> f, frame |-> Mangle(q, s, f)])
                ELSE rx[q]]
  /\ UNCHANGED busy

Deliver(Q, s, f) ==
  LET got == {q \in Reached(Q) : rxFree[q] > 0}
  IN  /\ rxFree' = [q \in AllPorts |-> IF q \in got THEN rxFree[q] - 1 ELSE rxFree[q]]
      /\ rx' = [q \in AllPorts |->
                  IF q \in got \ ShortRx
                    THEN Append(rx[q], [from |-> s, sent |-> f, frame |-> Mangle(q, s, f)])
                    ELSE rx[q]]
      /\ busy' = IF Aborts(Q) THEN NoPort ELSE busy

(***************************************************************************)
(* handle_tx_queue(port): take one frame off the transmit ring.  If the    *)
(* ingress policy keeps it: learn its source MAC, then for a known unicast *)
(* destination forward to that one port unless it is the source or not in *)
(* the frame's VLAN (and only then mirror); otherwise flood to the ports   *)
(* of the array other than the source that match the VLAN, and mirror.    *)
(* The monitor copy is subject to the optional filter hook, a choice here. *)
(* A transfer that throws ends the handler (Deliver).                      *)
(***************************************************************************)
\* Faulty unicast tests: without the source check, without match_vlan().
UnicastNoSelf(target, p, vlan) == MatchVlan(target, vlan)
UnicastAnyVlan(target, p, vlan) == target # p

\* if (target != port && target->match_vlan(vlan))
Unicast(target, p, vlan) == target # p /\ MatchVlan(target, vlan)

HandleTx(p) ==
  /\ busy = p /\ phase = "drain"
  /\ tx[p] # << >>
  /\ LET f == Head(tx[p]) IN
     /\ tx' = [tx EXCEPT ![p] = Tail(tx[p])]
     /\ IF ~Ingress(p, f)
          THEN UNCHANGED <<mtVars, rxFree, rx, busy, lastFlood>>
          ELSE
          LET vlan   == IF HasVlan(f) THEN f.tag ELSE PortVlan(p)
              target == IF f.dst = Bcast THEN NoPort ELSE MT!LookupIn(entries', index', f.dst)
              flood  == {slots[i] : i \in 0 .. FloodEnd - 1} \ {p}
              inVlan == {q \in flood : MatchVlan(q, vlan)}
          IN  /\ MT!Learn(f.src, p)
              /\ \E filtered \in BOOLEAN :
                   LET mirror == IF monitor # NoPort /\ ~filtered
                                   THEN {monitor} ELSE {}
                   IN  IF target # NoPort
                         THEN /\ IF Unicast(target, p, vlan)
                                   THEN Deliver({target} \cup mirror, p, f)
                                   ELSE UNCHANGED <<rxFree, rx, busy>>
                              /\ UNCHANGED lastFlood
                         ELSE /\ Deliver(inVlan \cup mirror, p, f)
                              /\ lastFlood' =
                                   [src |-> p,
                                    eligible |-> {q \in Ports \ {p} :
                                                    /\ \E i \in SlotIds : slots[i] = q
                                                    /\ MatchVlan(q, vlan)},
                                    reached |-> Reached(inVlan)]
  /\ UNCHANGED <<portVars, rxPosted, sent, txNotify, kick, delIrq, phase>>

(***************************************************************************)
(* handle_port_irq(port), run by the port's kick IRQ.  Each round of the   *)
(* do-while disables the port's queue notifications, drains the transmit  *)
(* ring, enables the notifications again and re-checks for work that      *)
(* arrived in between; it ends when the re-check finds none.               *)
(***************************************************************************)
IrqStart(p) ==
  /\ busy = NoPort
  /\ p \in Ports /\ InSwitch(p)
  /\ kick[p]
  /\ kick' = [kick EXCEPT ![p] = FALSE]
  /\ txNotify' = [txNotify EXCEPT ![p] = FALSE]
  /\ busy' = p
  /\ phase' = "drain"
  /\ UNCHANGED <<portVars, mtVars, ringVars, delIrq, lastFlood>>

\* while (port->tx_work_pending()) has ended; all_kick_emit_enable().
DrainDone(p) ==
  /\ busy = p /\ phase = "drain"
  /\ tx[p] = << >>
  /\ phase' = "enable"
  /\ UNCHANGED <<portVars, mtVars, ringVars, txNotify, kick, delIrq, busy, lastFlood>>

\* A faulty loop end that enables notifications without re-checking.
EnableNoRecheck(p) ==
  /\ busy = p /\ phase = "enable"
  /\ txNotify' = [txNotify EXCEPT ![p] = TRUE]
  /\ busy' = NoPort
  /\ UNCHANGED <<portVars, mtVars, ringVars, kick, delIrq, phase, lastFlood>>

\* enable_notify(); wmb(); rmb(); while (tx_work_pending() || ...).
EnableRecheck(p) ==
  /\ busy = p /\ phase = "enable"
  /\ IF tx[p] # << >>
       THEN /\ phase' = "drain"
            /\ UNCHANGED <<txNotify, busy>>
       ELSE /\ txNotify' = [txNotify EXCEPT ![p] = TRUE]
            /\ busy' = NoPort
            /\ UNCHANGED phase
  /\ UNCHANGED <<portVars, mtVars, ringVars, kick, delIrq, lastFlood>>

-----------------------------------------------------------------------------
(* The guests (virtio drivers, not part of this repository).               *)

\* Make a frame available on the transmit ring; kick the switch if the
\* queue's notifications are enabled.
GuestSend(p, f) ==
  /\ life[p] = "attached"
  /\ sent < MaxSends
  /\ tx' = [tx EXCEPT ![p] = Append(tx[p], f)]
  /\ sent' = sent + 1
  /\ kick' = [kick EXCEPT ![p] = kick[p] \/ txNotify[p]]
  /\ UNCHANGED <<portVars, mtVars, rxFree, rxPosted, rx, txNotify, delIrq,
                 busy, phase, lastFlood>>

\* Make a receive chain available.
GuestPostRx(p) ==
  /\ life[p] = "attached"
  /\ rxPosted[p] < RxBufs
  /\ rxFree' = [rxFree EXCEPT ![p] = rxFree[p] + 1]
  /\ rxPosted' = [rxPosted EXCEPT ![p] = rxPosted[p] + 1]
  /\ UNCHANGED <<portVars, mtVars, tx, rx, sent, irqVars, lastFlood>>

\* The client drops its port capability; the kernel raises the deletion IRQ.
GuestClose(p) ==
  /\ life[p] = "attached"
  /\ life' = [life EXCEPT ![p] = "closed"]
  /\ delIrq' = TRUE
  /\ UNCHANGED <<slots, maxUsed, monitor, mtVars, ringVars, txNotify, kick,
                 busy, phase, lastFlood>>

-----------------------------------------------------------------------------
Init ==
  /\ slots = [i \in SlotIds |-> NoPort]
  /\ maxUsed = 0
  /\ monitor = NoPort
  /\ life = [p \in AllPorts |-> "unborn"]
  /\ MT!MtInit
  /\ tx = [p \in AllPorts |-> << >>]
  /\ rxFree = [p \in AllPorts |-> 0]
  /\ rxPosted = [p \in AllPorts |-> 0]
  /\ rx = [p \in AllPorts |-> << >>]
  /\ sent = 0
  /\ txNotify = [p \in AllPorts |-> TRUE]
  /\ kick = [p \in AllPorts |-> FALSE]
  /\ delIrq = FALSE
  /\ busy = NoPort
  /\ phase = "drain"
  /\ lastFlood = NoFlood

SwitchStep ==
  \/ \E p \in Ports : AddPort(p)
  \/ AddMonitor
  \/ CheckPorts
  \/ \E p \in Ports : IrqStart(p) \/ HandleTx(p) \/ DrainDone(p) \/ EnableRecheck(p)

GuestStep ==
  \/ \E p \in Ports, f \in Frames : GuestSend(p, f)
  \/ \E p \in AllPorts : GuestPostRx(p) \/ GuestClose(p)

Next == SwitchStep \/ GuestStep

(***************************************************************************)
(* Fairness: the event loop serves every pending IRQ, and a running        *)
(* handler runs to its end; guests need not do anything.                   *)
(***************************************************************************)
Fairness ==
  /\ \A p \in Ports : WF_vars(IrqStart(p))
  /\ \A p \in Ports : WF_vars(HandleTx(p) \/ DrainDone(p) \/ EnableRecheck(p))
  /\ WF_vars(CheckPorts)

Spec == Init /\ [][Next]_vars /\ Fairness

-----------------------------------------------------------------------------
(* The type of the switch's state.                                         *)
SwitchTypeOK ==
  /\ slots \in [SlotIds -> Ports \cup {NoPort}]
  /\ maxUsed \in 0 .. MaxPorts
  /\ monitor \in {Monitor, NoPort}
  /\ life \in [AllPorts -> {"unborn", "attached", "closed", "gone"}]
  /\ MT!MtTypeOK
  /\ tx \in [AllPorts -> Seq(Frame)]
  /\ rxFree \in [AllPorts -> 0 .. RxBufs]
  /\ rxPosted \in [AllPorts -> 0 .. RxBufs]
  /\ rx \in [AllPorts -> Seq(Delivery)]
  /\ sent \in 0 .. MaxSends
  /\ txNotify \in [AllPorts -> BOOLEAN]
  /\ kick \in [AllPorts -> BOOLEAN]
  /\ delIrq \in BOOLEAN
  /\ busy \in Ports \cup {NoPort}
  /\ phase \in {"drain", "enable"}

(***************************************************************************)
(* The port array and _max_used agree with the ports' lives: a port is in  *)
(* the array, in exactly one slot and below _max_used, exactly while it is *)
(* attached or its client has gone but check_ports() has not yet run.      *)
(* add_port() and check_ports() move _max_used; were it ever to fall to a  *)
(* used slot, check_ports() would no longer see that port and a dead port  *)
(* would keep its slot and MAC table entries for ever.                     *)
(***************************************************************************)
SlotsConsistent ==
  /\ \A i \in SlotIds : slots[i] # NoPort => i < maxUsed /\ InSwitch(slots[i])
  /\ \A p \in Ports : InSwitch(p) => \E i \in SlotIds : slots[i] = p
  /\ \A i, j \in SlotIds : slots[i] = slots[j] /\ slots[i] # NoPort => i = j
  /\ (monitor = Monitor) <=> InSwitch(Monitor)

(***************************************************************************)
(* Referential integrity of the MAC table (spec section 8): every entry in *)
(* use points to a port that is still in the array.  learn() stores the    *)
(* source port of a frame; check_ports() must flush every port it deletes, *)
(* or a later lookup() hands handle_tx_queue() a deleted port.             *)
(***************************************************************************)
MacTableRefIntegrity ==
  \A i \in MT!Slots :
    entries[i].port # NoPort => \E j \in SlotIds : slots[j] = entries[i].port

(***************************************************************************)
(* Self-loop freedom (spec section 8): no frame is ever delivered to the   *)
(* port it came from, neither when the MAC table resolves the destination  *)
(* to the source port (a MAC learned there) nor by flooding.               *)
(***************************************************************************)
SelfLoopFree ==
  \A q \in AllPorts : \A k \in 1 .. Len(rx[q]) : rx[q][k].from # q

\* The VLAN a frame of port s belongs to, as the documentation states it:
\* an access port's own VLAN, a trunk port's tag (usage.md).
VlanIntent(s, f) == IF IsAccess(s) THEN VlanId[s] ELSE f.tag

\* The VLANs whose frames port q may receive.
Members(q) == IF IsTrunk(q) THEN TrunkIds[q] ELSE {VlanId[q]}

(***************************************************************************)
(* VLAN isolation (spec section 8, usage.md): a frame sent on an access or *)
(* trunk port reaches a switch port only if that port is in the frame's    *)
(* VLAN.  It rests on the ingress checks of get_tx_request() (tagged       *)
(* frames on access ports, foreign tags on trunk ports), on the VLAN that  *)
(* handle_tx_queue() derives, and on match_vlan() with its Bloom filter,   *)
(* for learned unicast and for floods alike.                               *)
(***************************************************************************)
VlanIsolation ==
  \A q \in Ports : \A k \in 1 .. Len(rx[q]) :
    ~IsNative(rx[q][k].from) =>
      VlanIntent(rx[q][k].from, rx[q][k].sent) \in Members(q)

(***************************************************************************)
(* Tagging on egress (usage.md, get_tx_request()): a frame of an access or *)
(* trunk port arrives untagged at an access port, and tagged with its VLAN *)
(* at a trunk port and at the monitor; and no frame of an access port is   *)
(* delivered carrying a tag of its own under the one handle_request() adds *)
(* (the double tagging the ingress check of access ports prevents).        *)
(***************************************************************************)
TagDiscipline ==
  \A q \in AllPorts : \A k \in 1 .. Len(rx[q]) :
    LET d == rx[q][k] IN
    ~IsNative(d.from) =>
      /\ IsAccess(d.from) => ~HasVlan(d.sent)
      /\ d.frame.tag = IF IsTrunk(q) THEN VlanIntent(d.from, d.sent) ELSE NoTag

(***************************************************************************)
(* Native ports (spec 4.2 and glossary): the effective VID of a frame of a *)
(* native port is NATIVE, so it is forwarded only to other native ports   *)
(* (and the monitor), whatever tag the frame carries.                      *)
(***************************************************************************)
NativeConfined ==
  \A q \in Ports : \A k \in 1 .. Len(rx[q]) :
    IsNative(rx[q][k].from) => IsNative(q)

(***************************************************************************)
(* A frame that is broadcast or to an unknown MAC goes to "all known ports *)
(* except the source port" of its VLAN (comment in handle_tx_queue()):     *)
(* the last flood was offered to every port of the array in the VLAN.      *)
(***************************************************************************)
FloodReachesAll == lastFlood.reached = lastFlood.eligible

(***************************************************************************)
(* No lost wake-up (spec section 5): every frame a guest makes available   *)
(* on the transmit ring of a port in the switch is eventually taken off    *)
(* it, although the guest kicks only while notifications are enabled and  *)
(* the switch disables them while it drains.  This rests on the re-check   *)
(* after enable_notify() in handle_port_irq(), and on no handler ending   *)
(* early: it holds when no guest is in ShortRx, and a single transfer that *)
(* throws (Deliver) leaves the source port's notifications disabled and   *)
(* its transmit ring unserved for ever.                                    *)
(***************************************************************************)
TxDrained ==
  <>[](\A p \in Ports : InSwitch(p) => tx[p] = << >>)
=============================================================================
