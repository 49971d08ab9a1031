---------------------------- MODULE SwitchProofs ----------------------------
(***************************************************************************)
(* Proofs about the switching fabric for every set of ports, VLAN setup,   *)
(* MAC table size and bound: the state stays well typed; the port array,   *)
(* _max_used and the ports' lives stay consistent through add_port(),      *)
(* add_monitor_port() and check_ports(); the MAC table never points to a   *)
(* port that left the array; and every frame handle_tx_queue() delivers    *)
(* respects self-loop freedom, VLAN isolation and the tagging rules.       *)
(***************************************************************************)
EXTENDS Switch, WellFoundedInduction, TLAPS

\* The MAC table's own lemmas, for the table inside the switch.
MTP == INSTANCE MacTableProofs WITH PortIds <- Ports

\* The facts about the constants that nearly every step needs.
LEMMA ConstantFacts ==
  /\ Monitor \notin Ports /\ NoPort \notin Ports /\ NoPort # Monitor
  /\ MaxPorts \in Nat \ {0} /\ Size \in Nat \ {0}
  /\ MaxSends \in Nat /\ RxBufs \in Nat
  BY PortsAssumption, BoundsAssumption DEF AllPorts

USE ConstantFacts

-----------------------------------------------------------------------------
(* Facts the invariants are built from.                                    *)

\* A guest never has more free receive chains than it posted.
RxCredit == \A p \in AllPorts : rxFree[p] <= rxPosted[p]

\* handle_port_irq() runs only for a port that op_create() put in the
\* switch and check_ports() has not removed (check_ports() waits for it).
BusyInSwitch == busy # NoPort => busy \in Ports /\ InSwitch(busy)

\* The VLAN handle_tx_queue() forwards a frame f of port p in.
TxVlan(p, f) == IF HasVlan(f) THEN f.tag ELSE PortVlan(p)

\* What SelfLoopFree, VlanIsolation and TagDiscipline ask of one delivery d
\* in the receive ring of port q.
GoodDelivery(q, d) ==
  /\ d.from # q
  /\ q \in Ports /\ ~IsNative(d.from) => VlanIntent(d.from, d.sent) \in Members(q)
  /\ ~IsNative(d.from) =>
       /\ IsAccess(d.from) => ~HasVlan(d.sent)
       /\ d.frame.tag = IF IsTrunk(q) THEN VlanIntent(d.from, d.sent) ELSE NoTag

DeliveriesGood ==
  \A q \in AllPorts : \A k \in 1 .. Len(rx[q]) : GoodDelivery(q, rx[q][k])

\* The typing invariant and the full inductive invariant.
TInv == SwitchTypeOK /\ RxCredit

IInv ==
  /\ TInv
  /\ BusyInSwitch
  /\ SlotsConsistent
  /\ MT!IndexConsistent
  /\ MacTableRefIntegrity
  /\ DeliveriesGood

-----------------------------------------------------------------------------
(* Lemmas about the operators of the model.                                *)

\* Every non-empty set of naturals has a least element (the slot that
\* lookup_free_slot() returns exists).
LEMMA NatSetMin ==
  ASSUME NEW T \in SUBSET Nat, T # {}
  PROVE  \E x \in T : \A y \in T : x <= y
  <1>1. PICK x \in T : \A y \in T : ~(<<y, x>> \in OpToRel(<, Nat))
    BY NatLessThanWellFounded, WFMin
  <1>2. \A y \in T : ~(y < x)
    BY <1>1, Zenon DEF OpToRel
  <1>. QED
    BY <1>2

\* lookup_free_slot() returns the lowest free slot when there is one.
LEMMA FirstFreeMin ==
  ASSUME slots \in [SlotIds -> Ports \cup {NoPort}], FreeSlots # {}
  PROVE  /\ FirstFree \in FreeSlots
         /\ \A j \in FreeSlots : FirstFree <= j
  <1>1. FreeSlots \in SUBSET Nat
    BY DEF FreeSlots, SlotIds
  <1>2. \E x \in FreeSlots : \A y \in FreeSlots : x <= y
    BY <1>1, NatSetMin
  <1>. QED
    BY <1>2 DEF FirstFree

\* The mangled frame is again a frame: the tag an access port pushes is
\* its own VID, a valid one.
LEMMA MangleType ==
  ASSUME NEW q, NEW s \in Ports, NEW f \in Frame
  PROVE  Mangle(q, s, f) \in Frame
  <1>1. VlanId[s] \in ValidVid \cup {NATIVE, TRUNK} /\ PortVlan(s) = VlanId[s]
    BY VlanAssumption DEF PortVlan
  <1>2. ~IsTrunk(s) /\ ~IsNative(s) => VlanId[s] \in ValidVid
    BY <1>1 DEF IsTrunk, IsNative
  <1>3. \A x \in ValidVid : x \in Vid
    BY DEF ValidVid, Vid
  <1>. QED
    BY <1>2, <1>3 DEF Mangle, Frame

-----------------------------------------------------------------------------
(* The MAC table of the switch is module MacTable with PortIds <- Ports;   *)
(* these lemmas carry MacTableProofs' results over to it.                  *)

LEMMA MtAssumptions == MTP!SizeAssumption /\ MTP!NoPortAssumption
  BY DEF MTP!SizeAssumption, MTP!NoPortAssumption

LEMMA SameType == MT!MtTypeOK <=> MTP!MtTypeOK
  BY DEF MT!MtTypeOK, MTP!MtTypeOK, MT!Slots, MTP!Slots, MT!Entry,
         MTP!Entry, MT!NoSlot, MTP!NoSlot

LEMMA SameTypePrimed == MT!MtTypeOK' <=> MTP!MtTypeOK'
  BY DEF MT!MtTypeOK, MTP!MtTypeOK, MT!Slots, MTP!Slots, MT!Entry,
         MTP!Entry, MT!NoSlot, MTP!NoSlot

LEMMA SameConsistent == MT!IndexConsistent <=> MTP!IndexConsistent
  BY DEF MT!IndexConsistent, MTP!IndexConsistent, MT!Slots, MTP!Slots,
         MT!NoSlot, MTP!NoSlot

LEMMA SameConsistentPrimed == MT!IndexConsistent' <=> MTP!IndexConsistent'
  BY DEF MT!IndexConsistent, MTP!IndexConsistent, MT!Slots, MTP!Slots,
         MT!NoSlot, MTP!NoSlot

LEMMA SameLearn ==
  ASSUME NEW m, NEW p
  PROVE  MT!Learn(m, p) <=> MTP!Learn(m, p)
  BY DEF MT!Learn, MTP!Learn, MT!Evict, MTP!Evict, MT!NextRr, MTP!NextRr,
         MT!Remember, MTP!Remember, MT!NoSlot, MTP!NoSlot

LEMMA SameFlush ==
  ASSUME NEW S
  PROVE  MT!FlushPorts(S) <=> MTP!FlushPorts(S)
  BY DEF MT!FlushPorts, MTP!FlushPorts, MT!Flushes, MTP!Flushes,
         MT!EmptyEntry, MTP!EmptyEntry, MT!Slots, MTP!Slots, MT!NoSlot,
         MTP!NoSlot

\* An operation that leaves the MAC table alone keeps its invariants.
LEMMA MtUnchanged ==
  ASSUME UNCHANGED mtVars
  PROVE  /\ MT!MtTypeOK' = MT!MtTypeOK
         /\ MT!IndexConsistent' = MT!IndexConsistent
  BY DEF mtVars, MT!MtTypeOK, MT!IndexConsistent

\* learn() and flush() keep the switch's MAC table well typed.
LEMMA LearnTypeSw ==
  ASSUME MT!MtTypeOK, NEW m \in Macs, NEW p \in Ports, MT!Learn(m, p)
  PROVE  MT!MtTypeOK'
  <1>1. MTP!MtTypeOK /\ MTP!Learn(m, p)
    BY SameType, SameLearn
  <1>2. MTP!MtTypeOK'
    BY <1>1, MtAssumptions, MTP!LearnType
  <1>. QED
    BY <1>2, SameTypePrimed

LEMMA FlushTypeSw ==
  ASSUME MT!MtTypeOK, NEW S, MT!FlushPorts(S)
  PROVE  MT!MtTypeOK'
  <1>1. MTP!MtTypeOK /\ MTP!FlushPorts(S)
    BY SameType, SameFlush
  <1>2. MTP!MtTypeOK'
    BY <1>1, MtAssumptions, MTP!FlushType
  <1>. QED
    BY <1>2, SameTypePrimed

\* ... and keep the map and the entry array in agreement.
LEMMA LearnConsistentSw ==
  ASSUME MT!MtTypeOK, MT!IndexConsistent, NEW m \in Macs, NEW p \in Ports,
         MT!Learn(m, p)
  PROVE  MT!IndexConsistent'
  <1>1. MTP!MtInv /\ MTP!Learn(m, p)
    BY SameType, SameConsistent, SameLearn DEF MTP!MtInv
  <1>2. MTP!IndexConsistent'
    BY <1>1, MtAssumptions, MTP!LearnNewConsistent, MTP!LearnKnownConsistent
  <1>. QED
    BY <1>2, SameConsistentPrimed

LEMMA FlushConsistentSw ==
  ASSUME MT!MtTypeOK, MT!IndexConsistent, NEW S, MT!FlushPorts(S)
  PROVE  MT!IndexConsistent'
  <1>1. MTP!MtInv /\ MTP!FlushPorts(S)
    BY SameType, SameConsistent, SameFlush DEF MTP!MtInv
  <1>2. MTP!IndexConsistent'
    BY <1>1, MtAssumptions, MTP!FlushConsistent
  <1>. QED
    BY <1>2, SameConsistentPrimed

-----------------------------------------------------------------------------
(* What one step of handle_tx_queue() does, in the terms the proofs need:  *)
(* the frame comes off the transmit ring; a frame the ingress policy      *)
(* keeps is learned and delivered to a set of ports that holds neither    *)
(* the source port nor a switch port outside the frame's VLAN.  A        *)
(* transfer that throws ends the handler.                                  *)
(***************************************************************************)
\* A transfer leaves the handler running or ends it (Runtime_error).
LEMMA DeliverBusy ==
  ASSUME NEW Q, NEW s, NEW f, Deliver(Q, s, f)
  PROVE  busy' \in {busy, NoPort}
  BY DEF Deliver

LEMMA HandleTxShape ==
  ASSUME TInv, NEW p \in Ports, HandleTx(p)
  PROVE  LET f == Head(tx[p]) IN
         /\ f \in Frame
         /\ tx' = [tx EXCEPT ![p] = Tail(tx[p])]
         /\ UNCHANGED <<portVars, rxPosted, sent, txNotify, kick, delIrq, phase>>
         /\ busy' \in {busy, NoPort}
         /\ \/ UNCHANGED <<mtVars, rxFree, rx>>
            \/ /\ Ingress(p, f)
               /\ MT!Learn(f.src, p)
               /\ \/ UNCHANGED <<rxFree, rx>>
                  \/ \E Q : /\ \A q \in Q : q # p /\ (q \in Ports => MatchVlan(q, TxVlan(p, f)))
                            /\ Deliver(Q, p, f)
  <1> DEFINE f == Head(tx[p])
             vlan == IF HasVlan(f) THEN f.tag ELSE PortVlan(p)
             target == IF f.dst = Bcast THEN NoPort
                       ELSE MT!LookupIn(entries', index', f.dst)
             flood == {slots[i] : i \in 0 .. FloodEnd - 1} \ {p}
             inVlan == {q \in flood : MatchVlan(q, vlan)}
             mirror(filtered) == IF monitor # NoPort /\ ~filtered THEN {monitor} ELSE {}
  <1>1. tx[p] \in Seq(Frame) /\ tx[p] # << >>
    BY DEF HandleTx, TInv, SwitchTypeOK, AllPorts
  <1>2. f \in Frame
    BY <1>1
  <1>3. /\ tx' = [tx EXCEPT ![p] = Tail(tx[p])]
        /\ UNCHANGED <<portVars, rxPosted, sent, txNotify, kick, delIrq, phase>>
    BY DEF HandleTx
  <1>4. CASE ~Ingress(p, f)
    BY <1>2, <1>3, <1>4 DEF HandleTx, mtVars
  <1>5. CASE Ingress(p, f)
    <2>1. MT!Learn(f.src, p)
      BY <1>5 DEF HandleTx
    <2>2. PICK filtered \in BOOLEAN :
            IF target # NoPort
              THEN IF Unicast(target, p, vlan)
                     THEN Deliver({target} \cup mirror(filtered), p, f)
                     ELSE UNCHANGED <<rxFree, rx, busy>>
              ELSE Deliver(inVlan \cup mirror(filtered), p, f)
      BY <1>5 DEF HandleTx
    <2>3. \A q \in mirror(filtered) : q # p /\ q \notin Ports
      BY DEF TInv, SwitchTypeOK
    <2>4. vlan = TxVlan(p, f)
      BY DEF TxVlan
    <2>5. CASE target # NoPort /\ Unicast(target, p, vlan)
      <3>1. \A q \in {target} \cup mirror(filtered) :
              q # p /\ (q \in Ports => MatchVlan(q, TxVlan(p, f)))
        BY <2>3, <2>4, <2>5 DEF Unicast
      <3>. QED
        BY <1>2, <1>3, <1>5, <2>1, <2>2, <2>5, <3>1, DeliverBusy
    <2>6. CASE target # NoPort /\ ~Unicast(target, p, vlan)
      BY <1>2, <1>3, <1>5, <2>1, <2>2, <2>6
    <2>7. CASE target = NoPort
      <3>1. \A q \in inVlan \cup mirror(filtered) :
              q # p /\ (q \in Ports => MatchVlan(q, TxVlan(p, f)))
        BY <2>3, <2>4
      <3>. QED
        BY <1>2, <1>3, <1>5, <2>1, <2>2, <2>7, <3>1, DeliverBusy
    <2>. QED
      BY <2>5, <2>6, <2>7
  <1>. QED
    BY <1>4, <1>5

-----------------------------------------------------------------------------
(* The type invariant, one lemma per operation.                            *)

\* A transfer takes a free chain only where there is one.
LEMMA DeliverType ==
  ASSUME TInv, NEW Q, NEW s \in Ports, NEW f \in Frame, Deliver(Q, s, f)
  PROVE  /\ rxFree' \in [AllPorts -> 0 .. RxBufs]
         /\ \A q \in AllPorts : rxFree'[q] <= rxPosted[q]
         /\ rx' \in [AllPorts -> Seq(Delivery)]
  <1>1. \A q \in AllPorts :
          [from |-> s, sent |-> f, frame |-> Mangle(q, s, f)] \in Delivery
    BY MangleType DEF Delivery
  <1>. QED
    BY <1>1 DEF Deliver, TInv, SwitchTypeOK, RxCredit

LEMMA AddPortType ==
  ASSUME TInv, NEW p \in Ports, AddPort(p)
  PROVE  TInv'
  <1>1. CASE FreeSlots = {} \/ MacInUse(p)
    <2>1. life' = [life EXCEPT ![p] = "gone"]
          /\ UNCHANGED <<slots, maxUsed, monitor, mtVars, ringVars, irqVars>>
      BY <1>1 DEF AddPort
    <2>2. life' \in [AllPorts -> {"unborn", "attached", "closed", "gone"}]
      BY <2>1 DEF TInv, SwitchTypeOK
    <2>. QED
      BY <2>1, <2>2, MtUnchanged DEF TInv, SwitchTypeOK, RxCredit, ringVars,
         irqVars
  <1>2. CASE ~(FreeSlots = {} \/ MacInUse(p))
    <2>1. FirstFree \in SlotIds
      BY <1>2, FirstFreeMin DEF TInv, SwitchTypeOK, FreeSlots
    <2>2. /\ slots' = [slots EXCEPT ![FirstFree] = p]
          /\ maxUsed' = IF maxUsed = FirstFree THEN maxUsed + 1 ELSE maxUsed
          /\ life' = [life EXCEPT ![p] = "attached"]
          /\ UNCHANGED <<monitor, mtVars, ringVars, irqVars>>
      BY <1>2 DEF AddPort
    <2>3. slots' \in [SlotIds -> Ports \cup {NoPort}]
      BY <2>1, <2>2 DEF TInv, SwitchTypeOK
    <2>4. maxUsed' \in 0 .. MaxPorts
      BY <2>1, <2>2 DEF TInv, SwitchTypeOK, SlotIds
    <2>5. life' \in [AllPorts -> {"unborn", "attached", "closed", "gone"}]
      BY <2>2 DEF TInv, SwitchTypeOK, AllPorts
    <2>. QED
      BY <2>2, <2>3, <2>4, <2>5, MtUnchanged DEF TInv, SwitchTypeOK, RxCredit,
         ringVars, irqVars
  <1>. QED
    BY <1>1, <1>2

LEMMA AddMonitorType ==
  ASSUME TInv, AddMonitor
  PROVE  TInv'
  <1>1. UNCHANGED <<slots, maxUsed, mtVars, ringVars, irqVars>>
    BY DEF AddMonitor
  <1>2. /\ life' \in [AllPorts -> {"unborn", "attached", "closed", "gone"}]
        /\ monitor' \in {Monitor, NoPort}
    BY DEF AddMonitor, TInv, SwitchTypeOK, AllPorts
  <1>. QED
    BY <1>1, <1>2, MtUnchanged DEF TInv, SwitchTypeOK, RxCredit, ringVars,
       irqVars

LEMMA CheckPortsType ==
  ASSUME TInv, CheckPorts
  PROVE  TInv'
  <1> DEFINE removed == {i \in 0 .. maxUsed - 1 : Dead(i)}
  <1>1. maxUsed' = MaxUsedAfterCheck(removed)
    BY DEF CheckPorts
  <1>2. maxUsed' \in 0 .. MaxPorts
    BY <1>1 DEF MaxUsedAfterCheck, TInv, SwitchTypeOK
  <1>3. MT!MtTypeOK'
    BY FlushTypeSw DEF CheckPorts, FlushGone, TInv, SwitchTypeOK
  <1>4. slots' \in [SlotIds -> Ports \cup {NoPort}]
    BY DEF CheckPorts, TInv, SwitchTypeOK
  <1>5. life' \in [AllPorts -> {"unborn", "attached", "closed", "gone"}]
    BY DEF CheckPorts, TInv, SwitchTypeOK
  <1>6. monitor' \in {Monitor, NoPort}
    BY DEF CheckPorts, TInv, SwitchTypeOK
  <1>. QED
    BY <1>2, <1>3, <1>4, <1>5, <1>6 DEF CheckPorts, TInv, SwitchTypeOK,
       RxCredit, ringVars

LEMMA HandleTxType ==
  ASSUME TInv, NEW p \in Ports, HandleTx(p)
  PROVE  TInv'
  <1> DEFINE f == Head(tx[p])
  <1>1. /\ f \in Frame
        /\ tx' = [tx EXCEPT ![p] = Tail(tx[p])]
        /\ UNCHANGED <<portVars, rxPosted, sent, txNotify, kick, delIrq, phase>>
        /\ busy' \in {busy, NoPort}
    BY HandleTxShape
  <1>2. tx' \in [AllPorts -> Seq(Frame)]
    <2>1. tx[p] \in Seq(Frame) /\ tx[p] # << >>
      BY DEF HandleTx, TInv, SwitchTypeOK, AllPorts
    <2>2. Tail(tx[p]) \in Seq(Frame)
      BY <2>1
    <2>. QED
      BY <1>1, <2>2 DEF TInv, SwitchTypeOK, AllPorts
  <1>3. CASE UNCHANGED <<mtVars, rxFree, rx>>
    BY <1>1, <1>2, <1>3, MtUnchanged DEF TInv, SwitchTypeOK, RxCredit,
       portVars, irqVars, mtVars
  <1>4. CASE Ingress(p, f) /\ MT!Learn(f.src, p)
    <2>1. MT!MtTypeOK'
      BY <1>1, <1>4, LearnTypeSw DEF TInv, SwitchTypeOK, Frame
    <2>2. CASE UNCHANGED <<rxFree, rx>>
      BY <1>1, <1>2, <2>1, <2>2 DEF TInv, SwitchTypeOK, RxCredit, portVars,
         irqVars
    <2>3. CASE \E Q : Deliver(Q, p, f)
      <3>1. /\ rxFree' \in [AllPorts -> 0 .. RxBufs]
            /\ \A q \in AllPorts : rxFree'[q] <= rxPosted[q]
            /\ rx' \in [AllPorts -> Seq(Delivery)]
        BY <1>1, <2>3, DeliverType
      <3>. QED
        BY <1>1, <1>2, <2>1, <3>1 DEF TInv, SwitchTypeOK, RxCredit, portVars,
           irqVars
    <2>. QED
      BY <1>4, <2>2, <2>3, HandleTxShape
  <1>. QED
    BY <1>3, <1>4, HandleTxShape

LEMMA IrqType ==
  ASSUME TInv, NEW p \in Ports, IrqStart(p) \/ DrainDone(p) \/ EnableRecheck(p)
  PROVE  TInv'
  BY MtUnchanged DEF IrqStart, DrainDone, EnableRecheck, TInv, SwitchTypeOK, RxCredit,
         AllPorts, portVars, mtVars, ringVars, irqVars

LEMMA GuestType ==
  ASSUME TInv,
         \/ \E p \in Ports, f \in Frames : GuestSend(p, f)
         \/ \E p \in AllPorts : GuestPostRx(p) \/ GuestClose(p)
  PROVE  TInv'
  <1>1. CASE \E p \in Ports, f \in Frames : GuestSend(p, f)
    <2>1. PICK p \in Ports, f \in Frames : GuestSend(p, f)
      BY <1>1
    <2>2. /\ tx' \in [AllPorts -> Seq(Frame)]
          /\ sent' \in 0 .. MaxSends
          /\ kick' \in [AllPorts -> BOOLEAN]
      BY <2>1, BoundsAssumption DEF GuestSend, TInv, SwitchTypeOK, AllPorts
    <2>3. UNCHANGED <<portVars, mtVars, rxFree, rxPosted, rx, txNotify, delIrq,
                      busy, phase>>
      BY <2>1 DEF GuestSend
    <2>. QED
      BY <2>2, <2>3, MtUnchanged DEF TInv, SwitchTypeOK, RxCredit, portVars
  <1>2. CASE \E p \in AllPorts : GuestPostRx(p)
    BY <1>2, MtUnchanged DEF GuestPostRx, TInv, SwitchTypeOK, RxCredit, portVars, mtVars,
       irqVars
  <1>3. CASE \E p \in AllPorts : GuestClose(p)
    BY <1>3, MtUnchanged DEF GuestClose, TInv, SwitchTypeOK, RxCredit, mtVars, ringVars
  <1>. QED
    BY <1>1, <1>2, <1>3

LEMMA InitTInv == Init => TInv
  <1> SUFFICES ASSUME Init PROVE TInv
    OBVIOUS
  <1>1. MT!MtTypeOK
    <2>1. entries \in [MT!Slots -> MT!Entry]
      BY DEF Init, MT!MtInit, MT!Entry, MT!EmptyEntry
    <2>2. index \in [Macs -> MT!Slots \cup {MT!NoSlot}]
      BY DEF Init, MT!MtInit
    <2>3. rr \in MT!Slots
      BY DEF Init, MT!MtInit, MT!Slots
    <2>4. hist = << >> /\ flushed = FALSE
      BY DEF Init, MT!MtInit
    <2>5. hist \in Seq(Macs) /\ Len(hist) <= Size /\ flushed \in BOOLEAN
      <3>1. << >> \in Seq(Macs) /\ Len(<< >>) = 0
        OBVIOUS
      <3>2. hist \in Seq(Macs) /\ Len(hist) = 0 /\ flushed \in BOOLEAN
        BY <2>4, <3>1, Zenon
      <3>. QED
        BY <3>2
    <2>. QED
      BY <2>1, <2>2, <2>3, <2>5 DEF MT!MtTypeOK
  <1>. QED
    BY <1>1 DEF Init, TInv, SwitchTypeOK, RxCredit, SlotIds

LEMMA NextTInv == TInv /\ [Next]_vars => TInv'
  <1> SUFFICES ASSUME TInv, [Next]_vars PROVE TInv'
    OBVIOUS
  <1>1. CASE UNCHANGED vars
    BY <1>1, MtUnchanged DEF vars, portVars, mtVars, ringVars, irqVars, TInv, SwitchTypeOK,
       RxCredit, MT!MtTypeOK
  <1>. QED
    BY <1>1, AddPortType, AddMonitorType, CheckPortsType, HandleTxType,
       IrqType, GuestType DEF Next, SwitchStep, GuestStep

\* Every operation of the switch and of the guests keeps the port array,
\* the MAC table, the rings and the IRQ state within their types.
THEOREM TypeCorrect == Spec => []SwitchTypeOK
  <1>1. Spec => []TInv
    BY InitTInv, NextTInv, PTL DEF Spec
  <1>. QED
    BY <1>1, PTL DEF TInv

-----------------------------------------------------------------------------
(* Lemmas the invariant proofs share.                                      *)

\* An operation that moves no port in or out of the array and no port in
\* or out of the switch keeps the port array consistent.
LEMMA PortsFrame ==
  ASSUME slots \in [SlotIds -> Ports \cup {NoPort}],
         UNCHANGED <<slots, maxUsed, monitor>>,
         \A q \in AllPorts : InSwitch(q)' = InSwitch(q)
  PROVE  SlotsConsistent' = SlotsConsistent
  <1>1. \A q \in Ports \cup {Monitor} : InSwitch(q)' = InSwitch(q)
    BY DEF AllPorts
  <1>. QED
    BY <1>1 DEF SlotsConsistent

\* The MAC table's references are about the entries and the array alone.
LEMMA RefFrame ==
  ASSUME UNCHANGED <<slots, entries>>
  PROVE  MacTableRefIntegrity' = MacTableRefIntegrity
  BY DEF MacTableRefIntegrity, MT!Slots

LEMMA RxFrame ==
  ASSUME UNCHANGED rx
  PROVE  DeliveriesGood' = DeliveriesGood
  BY DEF DeliveriesGood

\* learn(src, port) stores no port other than the one given.
LEMMA LearnPorts ==
  ASSUME MT!MtTypeOK, NEW m \in Macs, NEW p, MT!Learn(m, p)
  PROVE  \A i \in MT!Slots : entries'[i].port \in {entries[i].port, p}
  <1>1. CASE index[m] = MT!NoSlot
    BY <1>1 DEF MT!Learn, MT!MtTypeOK
  <1>2. CASE index[m] # MT!NoSlot
    BY <1>2 DEF MT!Learn, MT!MtTypeOK, MT!Entry
  <1>. QED
    BY <1>1, <1>2

\* The delivery handle_request() makes of a frame f of port p into the
\* receive ring of q satisfies the three properties, when the ingress
\* policy of p kept f, q is not p, and a switch port q matches the VLAN.
LEMMA NewDeliveryGood ==
  ASSUME NEW p \in Ports, NEW f \in Frame, Ingress(p, f),
         NEW q \in AllPorts, q # p,
         q \in Ports => MatchVlan(q, TxVlan(p, f))
  PROVE  GoodDelivery(q, [from |-> p, sent |-> f, frame |-> Mangle(q, p, f)])
  <1>1. /\ PortVlan(p) = VlanId[p]
        /\ VlanId[p] \in ValidVid \cup {NATIVE, TRUNK}
        /\ TrunkIds[p] \subseteq ValidVid
        /\ NATIVE \notin ValidVid /\ TRUNK \notin ValidVid /\ NATIVE # TRUNK
    BY VlanAssumption DEF PortVlan
  <1>2. q \in Ports =>
          /\ PortVlan(q) = VlanId[q]
          /\ VlanId[q] # TRUNK => TrunkIds[q] = {}
          /\ MatchVlan(q, TxVlan(p, f)) =>
               TxVlan(p, f) = VlanId[q] \/ TxVlan(p, f) \in TrunkIds[q]
    BY VlanAssumption DEF PortVlan, MatchVlan
  <1>3. CASE IsNative(p)
    BY <1>3 DEF GoodDelivery
  <1>4. CASE IsAccess(p)
    <2>1. ~HasVlan(f) /\ TxVlan(p, f) = VlanId[p] /\ VlanIntent(p, f) = VlanId[p]
      BY <1>1, <1>4 DEF Ingress, IsAccess, IsTrunk, TxVlan, VlanIntent
    <2>2. VlanId[p] \in ValidVid
      BY <1>1, <1>4 DEF IsAccess, IsTrunk, IsNative
    <2>3. q \in Ports => VlanIntent(p, f) \in Members(q)
      BY <1>2, <2>1, <2>2, <1>1 DEF Members, IsTrunk
    <2>4. Mangle(q, p, f).tag = IF IsTrunk(q) THEN VlanId[p] ELSE NoTag
      BY <1>4, <2>1 DEF Mangle, IsAccess, Frame, HasVlan
    <2>. QED
      BY <1>4, <2>1, <2>3, <2>4 DEF GoodDelivery
  <1>5. CASE IsTrunk(p)
    <2>1. HasVlan(f) /\ f.tag \in TrunkIds[p]
      BY <1>1, <1>5 DEF Ingress, VlanOfFrame
    <2>2. TxVlan(p, f) = f.tag /\ VlanIntent(p, f) = f.tag /\ f.tag \in ValidVid
      BY <1>1, <1>5, <2>1 DEF TxVlan, VlanIntent, IsAccess
    <2>3. q \in Ports => VlanIntent(p, f) \in Members(q)
      BY <1>2, <2>2, <1>1 DEF Members, IsTrunk
    <2>4. Mangle(q, p, f).tag = IF IsTrunk(q) THEN f.tag ELSE NoTag
      BY <1>5 DEF Mangle, Frame
    <2>5. ~IsAccess(p)
      BY <1>5 DEF IsAccess
    <2>. QED
      BY <2>2, <2>3, <2>4, <2>5 DEF GoodDelivery
  <1>. QED
    BY <1>3, <1>4, <1>5 DEF IsAccess

\* A transfer keeps every delivery good when every new one is.
LEMMA DeliverGood ==
  ASSUME TInv, DeliveriesGood, NEW p \in Ports, NEW f \in Frame, Ingress(p, f),
         NEW Q, \A q \in Q : q # p /\ (q \in Ports => MatchVlan(q, TxVlan(p, f))),
         Deliver(Q, p, f)
  PROVE  DeliveriesGood'
  <1> SUFFICES ASSUME NEW q \in AllPorts, NEW k \in 1 .. Len(rx'[q])
               PROVE  GoodDelivery(q, rx'[q][k])
    BY DEF DeliveriesGood
  <1>1. rx[q] \in Seq(Delivery)
    BY DEF TInv, SwitchTypeOK
  <1>2. CASE q \in Reached(Q) /\ rxFree[q] > 0 /\ q \notin ShortRx
    <2> DEFINE d == [from |-> p, sent |-> f, frame |-> Mangle(q, p, f)]
    <2>1. rx'[q] = Append(rx[q], d)
      BY <1>2 DEF Deliver
    <2>0. q \in Q
      BY <1>2 DEF Reached
    <2>2. GoodDelivery(q, d)
      BY <1>2, <2>0, NewDeliveryGood
    <2>3. CASE k <= Len(rx[q])
      BY <1>1, <2>1, <2>3 DEF DeliveriesGood
    <2>4. CASE k > Len(rx[q])
      BY <1>1, <2>1, <2>2, <2>4
    <2>. QED
      BY <2>3, <2>4
  <1>3. CASE ~(q \in Reached(Q) /\ rxFree[q] > 0 /\ q \notin ShortRx)
    <2>1. rx'[q] = rx[q]
      BY <1>3 DEF Deliver
    <2>. QED
      BY <2>1 DEF DeliveriesGood
  <1>. QED
    BY <1>2, <1>3

-----------------------------------------------------------------------------
(* The inductive invariant, one lemma per operation.                       *)

\* handle_port_irq(): the IRQ loop only starts for a port in the switch.
LEMMA IrqIInv ==
  ASSUME IInv, TInv', NEW p \in Ports,
         IrqStart(p) \/ DrainDone(p) \/ EnableRecheck(p)
  PROVE  IInv'
  <1>1. UNCHANGED <<portVars, mtVars, ringVars>>
    BY DEF IrqStart, DrainDone, EnableRecheck
  <1>2. busy' \in {busy, NoPort} \/ (busy' = p /\ InSwitch(p))
    BY DEF IrqStart, DrainDone, EnableRecheck
  <1>3. SlotsConsistent'
    BY <1>1, PortsFrame DEF IInv, TInv, SwitchTypeOK, portVars, InSwitch
  <1>4. BusyInSwitch'
    BY <1>1, <1>2 DEF IInv, BusyInSwitch, portVars, InSwitch
  <1>. QED
    BY <1>1, <1>3, <1>4, MtUnchanged, RefFrame, RxFrame
       DEF IInv, portVars, mtVars, ringVars

\* The guests' steps touch the rings and, on close, only move a port from
\* attached to closed: it stays in the switch until check_ports().
LEMMA GuestIInv ==
  ASSUME IInv, TInv',
         \/ \E p \in Ports, f \in Frames : GuestSend(p, f)
         \/ \E p \in AllPorts : GuestPostRx(p) \/ GuestClose(p)
  PROVE  IInv'
  <1>1. /\ UNCHANGED <<slots, maxUsed, monitor, mtVars, rx, busy>>
        /\ \A q \in AllPorts : InSwitch(q)' = InSwitch(q)
    <2>1. CASE \E p \in Ports, f \in Frames : GuestSend(p, f)
      BY <2>1 DEF GuestSend, portVars, InSwitch
    <2>2. CASE \E p \in AllPorts : GuestPostRx(p)
      BY <2>2 DEF GuestPostRx, portVars, irqVars, InSwitch
    <2>3. CASE \E p \in AllPorts : GuestClose(p)
      <3>1. PICK p \in AllPorts : GuestClose(p)
        BY <2>3
      <3>2. life' = [life EXCEPT ![p] = "closed"] /\ life[p] = "attached"
        BY <3>1 DEF GuestClose
      <3>3. \A q \in AllPorts : InSwitch(q)' = InSwitch(q)
        <4>1. life \in [AllPorts -> {"unborn", "attached", "closed", "gone"}]
          BY DEF IInv, TInv, SwitchTypeOK
        <4>. QED
          BY <3>2, <4>1 DEF InSwitch
      <3>. QED
        BY <3>1, <3>3 DEF GuestClose, ringVars
    <2>. QED
      BY <2>1, <2>2, <2>3
  <1>2. SlotsConsistent'
    BY <1>1, PortsFrame DEF IInv, TInv, SwitchTypeOK
  <1>3. BusyInSwitch'
    BY <1>1 DEF IInv, BusyInSwitch, AllPorts
  <1>. QED
    BY <1>1, <1>2, <1>3, MtUnchanged, RefFrame, RxFrame DEF IInv, mtVars

\* add_monitor_port(): the one monitor object becomes _monitor.
LEMMA AddMonitorIInv ==
  ASSUME IInv, TInv', AddMonitor
  PROVE  IInv'
  <1>1. UNCHANGED <<slots, maxUsed, mtVars, ringVars, irqVars>>
    BY DEF AddMonitor
  <1>2. monitor = NoPort
    BY DEF AddMonitor, IInv, SlotsConsistent, InSwitch, TInv, SwitchTypeOK
  <1>3. /\ monitor' = Monitor
        /\ life' = [life EXCEPT ![Monitor] = "attached"]
    BY <1>2 DEF AddMonitor
  <1>4. SlotsConsistent'
    <2>1. \A q \in Ports : life'[q] = life[q]
      BY <1>3 DEF IInv, TInv, SwitchTypeOK, AllPorts
    <2>2. \A i \in SlotIds : slots[i] # NoPort => slots[i] \in Ports
      BY DEF IInv, TInv, SwitchTypeOK
    <2>3. InSwitch(Monitor)'
      BY <1>3 DEF IInv, TInv, SwitchTypeOK, AllPorts, InSwitch
    <2>. QED
      BY <1>1, <1>3, <2>1, <2>2, <2>3 DEF IInv, SlotsConsistent, InSwitch
  <1>5. BusyInSwitch'
    <2>1. busy # NoPort => busy \in Ports /\ life'[busy] = life[busy]
      BY <1>3 DEF IInv, BusyInSwitch, TInv, SwitchTypeOK, AllPorts
    <2>. QED
      BY <1>1, <2>1 DEF IInv, BusyInSwitch, InSwitch, irqVars
  <1>. QED
    BY <1>1, <1>4, <1>5, MtUnchanged, RefFrame, RxFrame
       DEF IInv, mtVars, ringVars

\* handle_tx_queue(): learn() stores the port whose IRQ handler runs, a
\* port in the array, and every delivery is good.
LEMMA HandleTxIInv ==
  ASSUME IInv, TInv', NEW p \in Ports, HandleTx(p)
  PROVE  IInv'
  <1> DEFINE f == Head(tx[p])
  <1>1. /\ f \in Frame
        /\ UNCHANGED <<portVars, rxPosted, sent, txNotify, kick, delIrq, phase>>
        /\ busy' \in {busy, NoPort}
    BY HandleTxShape DEF IInv
  <1>2. SlotsConsistent'
    BY <1>1, PortsFrame DEF IInv, TInv, SwitchTypeOK, portVars, InSwitch
  <1>3. BusyInSwitch'
    BY <1>1 DEF IInv, BusyInSwitch, portVars, InSwitch
  <1>4. \E j \in SlotIds : slots[j] = p
    BY DEF HandleTx, IInv, BusyInSwitch, SlotsConsistent
  <1>5. CASE UNCHANGED <<mtVars, rxFree, rx>>
    BY <1>1, <1>2, <1>3, <1>5, MtUnchanged, RefFrame, RxFrame
       DEF IInv, mtVars, portVars
  <1>6. CASE /\ Ingress(p, f)
             /\ MT!Learn(f.src, p)
             /\ \/ UNCHANGED <<rxFree, rx>>
                \/ \E Q : /\ \A q \in Q : q # p /\ (q \in Ports => MatchVlan(q, TxVlan(p, f)))
                          /\ Deliver(Q, p, f)
    <2>1. MT!MtTypeOK /\ f.src \in Macs
      BY <1>1 DEF IInv, TInv, SwitchTypeOK, Frame
    <2>2. MT!IndexConsistent'
      BY <1>6, <2>1, LearnConsistentSw DEF IInv
    <2>3. MacTableRefIntegrity'
      <3>1. \A i \in MT!Slots : entries'[i].port \in {entries[i].port, p}
        BY <1>6, <2>1, LearnPorts
      <3>2. UNCHANGED slots
        BY <1>1 DEF portVars
      <3>. QED
        BY <1>4, <3>1, <3>2 DEF IInv, MacTableRefIntegrity
    <2>4. DeliveriesGood'
      <3>1. CASE UNCHANGED <<rxFree, rx>>
        BY <3>1, RxFrame DEF IInv
      <3>2. CASE \E Q : /\ \A q \in Q : q # p /\ (q \in Ports => MatchVlan(q, TxVlan(p, f)))
                        /\ Deliver(Q, p, f)
        BY <1>1, <1>6, <3>2, DeliverGood DEF IInv
      <3>. QED
        BY <1>6, <3>1, <3>2
    <2>. QED
      BY <1>2, <1>3, <2>2, <2>3, <2>4 DEF IInv
  <1>. QED
    BY <1>5, <1>6, HandleTxShape DEF IInv

\* add_port(): a rejected port never enters the switch; an accepted one
\* takes the lowest free slot, which lies at or below _max_used.
LEMMA AddPortIInv ==
  ASSUME IInv, TInv', NEW p \in Ports, AddPort(p)
  PROVE  IInv'
  <1>1. /\ slots \in [SlotIds -> Ports \cup {NoPort}]
        /\ life \in [AllPorts -> {"unborn", "attached", "closed", "gone"}]
        /\ maxUsed \in 0 .. MaxPorts
    BY DEF IInv, TInv, SwitchTypeOK
  <1>2. life[p] = "unborn" /\ busy = NoPort
        /\ UNCHANGED <<monitor, mtVars, ringVars, irqVars>>
    BY DEF AddPort
  <1>3. \A i \in SlotIds : slots[i] # p
    BY <1>2 DEF IInv, SlotsConsistent, InSwitch
  <1>4. BusyInSwitch' /\ MT!IndexConsistent' /\ DeliveriesGood'
    BY <1>2, MtUnchanged, RxFrame DEF IInv, BusyInSwitch, irqVars, ringVars
  <1>5. CASE FreeSlots = {} \/ MacInUse(p)
    <2>1. life' = [life EXCEPT ![p] = "gone"] /\ UNCHANGED <<slots, maxUsed>>
      BY <1>5 DEF AddPort
    <2>2. \A q \in AllPorts : InSwitch(q)' = InSwitch(q)
      BY <1>1, <1>2, <2>1 DEF InSwitch
    <2>3. SlotsConsistent'
      BY <1>1, <1>2, <2>1, <2>2, PortsFrame DEF IInv
    <2>4. MacTableRefIntegrity'
      BY <1>2, <2>1, RefFrame DEF IInv, mtVars
    <2>. QED
      BY <1>4, <2>3, <2>4 DEF IInv
  <1>6. CASE ~(FreeSlots = {} \/ MacInUse(p))
    <2> DEFINE ff == FirstFree
    <2>1. /\ slots' = [slots EXCEPT ![ff] = p]
          /\ maxUsed' = IF maxUsed = ff THEN maxUsed + 1 ELSE maxUsed
          /\ life' = [life EXCEPT ![p] = "attached"]
      BY <1>6 DEF AddPort
    <2>2. ff \in SlotIds /\ slots[ff] = NoPort
          /\ \A j \in SlotIds : slots[j] = NoPort => ff <= j
      BY <1>1, <1>6, FirstFreeMin DEF FreeSlots
    \* Every slot from _max_used on is free, so the lowest free slot is at
    \* most _max_used.
    <2>3. ff <= maxUsed
      <3>1. SUFFICES ASSUME ff > maxUsed PROVE FALSE
        BY <1>1, <2>2 DEF SlotIds
      <3>2. maxUsed \in SlotIds /\ slots[maxUsed] = NoPort
        BY <1>1, <2>2, <3>1 DEF IInv, SlotsConsistent, SlotIds
      <3>. QED
        BY <1>1, <2>2, <3>1, <3>2 DEF SlotIds
    <2>4. maxUsed' \in Nat /\ maxUsed <= maxUsed' /\ ff < maxUsed'
      BY <1>1, <2>1, <2>2, <2>3 DEF SlotIds
    <2>5. \A q \in AllPorts \ {p} : InSwitch(q)' = InSwitch(q)
      BY <1>1, <2>1 DEF InSwitch
    <2>6. InSwitch(p)' /\ p # Monitor
      BY <1>1, <2>1 DEF InSwitch, AllPorts
    <2>7. SlotsConsistent'
      <3>1. \A i \in SlotIds : (slots[i] # NoPort => i < maxUsed /\ InSwitch(slots[i]))'
        <4> SUFFICES ASSUME NEW i \in SlotIds, slots'[i] # NoPort
                     PROVE  (i < maxUsed /\ InSwitch(slots[i]))'
          OBVIOUS
        <4>1. CASE i = ff
          BY <1>1, <2>1, <2>2, <2>4, <2>6, <4>1
        <4>2. CASE i # ff
          <5>1. slots'[i] = slots[i] /\ slots[i] \in Ports
            BY <1>1, <2>1, <4>2
          <5>2. i < maxUsed /\ InSwitch(slots[i])
            BY <5>1 DEF IInv, SlotsConsistent
          <5>3. slots[i] \in AllPorts \ {p}
            BY <1>3, <5>1 DEF AllPorts
          <5>4. InSwitch(slots[i])'
            BY <2>5, <5>1, <5>2, <5>3 DEF InSwitch
          <5>. QED
            BY <1>1, <2>4, <5>2, <5>4 DEF SlotIds
        <4>. QED
          BY <4>1, <4>2
      <3>2. \A q \in Ports : InSwitch(q)' => \E i \in SlotIds : slots'[i] = q
        BY <1>1, <2>1, <2>2, <2>5 DEF IInv, SlotsConsistent, AllPorts
      <3>3. \A i, j \in SlotIds : slots'[i] = slots'[j] /\ slots'[i] # NoPort => i = j
        BY <1>1, <1>3, <2>1, <2>2 DEF IInv, SlotsConsistent
      <3>4. (monitor' = Monitor) <=> InSwitch(Monitor)'
        BY <1>2, <2>5, <2>6 DEF IInv, SlotsConsistent, AllPorts
      <3>. QED
        BY <3>1, <3>2, <3>3, <3>4 DEF SlotsConsistent
    <2>8. MacTableRefIntegrity'
      <3>1. \A j \in SlotIds : slots[j] # NoPort => slots'[j] = slots[j]
        BY <1>1, <2>1, <2>2
      <3>. QED
        BY <1>2, <3>1 DEF IInv, MacTableRefIntegrity, mtVars
    <2>. QED
      BY <1>4, <2>7, <2>8 DEF IInv
  <1>. QED
    BY <1>5, <1>6

\* check_ports(): the ports it deletes are exactly those in the slots it
\* clears; _max_used stays above every slot still in use; and flush()
\* removes every MAC table entry of a deleted port, because each entry in
\* use is reachable through the map (IndexConsistent).
LEMMA CheckPortsIInv ==
  ASSUME IInv, TInv', CheckPorts
  PROVE  IInv'
  <1> DEFINE removed == {i \in 0 .. maxUsed - 1 : Dead(i)}
             gone == {slots[i] : i \in removed}
                       \cup (IF monitor # NoPort /\ life[Monitor] = "closed"
                               THEN {Monitor} ELSE {})
  <1>1. /\ slots \in [SlotIds -> Ports \cup {NoPort}]
        /\ life \in [AllPorts -> {"unborn", "attached", "closed", "gone"}]
        /\ maxUsed \in 0 .. MaxPorts
        /\ monitor \in {Monitor, NoPort}
        /\ MT!MtTypeOK
    BY DEF IInv, TInv, SwitchTypeOK
  <1>2. /\ slots' = [i \in SlotIds |-> IF i \in removed THEN NoPort ELSE slots[i]]
        /\ maxUsed' = MaxUsedAfterCheck(removed)
        /\ monitor' = IF Monitor \in gone THEN NoPort ELSE monitor
        /\ life' = [q \in AllPorts |-> IF q \in gone THEN "gone" ELSE life[q]]
        /\ MT!FlushPorts(gone \cap Ports)
        /\ busy = NoPort
        /\ UNCHANGED <<ringVars, busy>>
    BY DEF CheckPorts, FlushGone
  \* A port of the array is deleted exactly when its slot is cleared.
  <1>3. \A i \in SlotIds : slots[i] # NoPort => (slots[i] \in gone <=> i \in removed)
    <2> SUFFICES ASSUME NEW i \in SlotIds, slots[i] # NoPort, slots[i] \in gone
                 PROVE  i \in removed
      OBVIOUS
    <2>1. slots[i] # Monitor
      BY <1>1
    <2>2. PICK k \in removed : slots[k] = slots[i]
      BY <2>1
    <2>3. k \in SlotIds
      BY <1>1 DEF SlotIds
    <2>. QED
      BY <2>2, <2>3 DEF IInv, SlotsConsistent
  <1>4. Monitor \in gone <=> monitor # NoPort /\ life[Monitor] = "closed"
    <2>1. \A i \in removed : slots[i] \in Ports
      BY <1>1 DEF Dead, SlotIds
    <2>. QED
      BY <2>1
  <1>5. BusyInSwitch' /\ DeliveriesGood'
    BY <1>2, RxFrame DEF IInv, BusyInSwitch, ringVars
  <1>6. MT!IndexConsistent'
    BY <1>1, <1>2, FlushConsistentSw DEF IInv
  <1>7. SlotsConsistent'
    <2>1. \A i \in SlotIds : (slots[i] # NoPort => i < maxUsed /\ InSwitch(slots[i]))'
      <3> SUFFICES ASSUME NEW i \in SlotIds, slots'[i] # NoPort
                   PROVE  (i < maxUsed /\ InSwitch(slots[i]))'
        OBVIOUS
      <3>1. i \notin removed /\ slots'[i] = slots[i] /\ slots[i] \in Ports
        BY <1>1, <1>2
      <3>2. i < maxUsed /\ InSwitch(slots[i])
        BY <3>1 DEF IInv, SlotsConsistent
      <3>3. slots[i] \notin gone
        BY <1>3, <3>1
      <3>4. InSwitch(slots[i])'
        BY <1>2, <3>1, <3>2, <3>3 DEF InSwitch, AllPorts
      <3>5. i < maxUsed'
        BY <1>1, <1>2, <3>1, <3>2 DEF MaxUsedAfterCheck, SlotIds
      <3>. QED
        BY <3>4, <3>5
    <2>2. \A q \in Ports : InSwitch(q)' => \E i \in SlotIds : slots'[i] = q
      <3> SUFFICES ASSUME NEW q \in Ports, InSwitch(q)'
                   PROVE  \E i \in SlotIds : slots'[i] = q
        OBVIOUS
      <3>1. q \notin gone /\ InSwitch(q)
        BY <1>2 DEF InSwitch, AllPorts
      <3>2. PICK i \in SlotIds : slots[i] = q
        BY <3>1 DEF IInv, SlotsConsistent
      <3>3. i \notin removed
        BY <1>3, <3>1, <3>2 DEF AllPorts
      <3>. QED
        BY <1>2, <3>2, <3>3
    <2>3. \A i, j \in SlotIds : slots'[i] = slots'[j] /\ slots'[i] # NoPort => i = j
      BY <1>2 DEF IInv, SlotsConsistent
    <2>4. (monitor' = Monitor) <=> InSwitch(Monitor)'
      <3>1. Monitor \in AllPorts /\ Monitor # NoPort
        BY DEF AllPorts
      <3>2. CASE Monitor \in gone
        BY <1>2, <3>1, <3>2 DEF InSwitch
      <3>3. CASE Monitor \notin gone
        <4>1. monitor' = monitor /\ life'[Monitor] = life[Monitor]
          BY <1>2, <3>1, <3>3
        <4>. QED
          BY <4>1 DEF IInv, SlotsConsistent, InSwitch
      <3>. QED
        BY <3>2, <3>3
    <2>. QED
      BY <2>1, <2>2, <2>3, <2>4 DEF SlotsConsistent
  <1>8. MacTableRefIntegrity'
    <2> SUFFICES ASSUME NEW i \in MT!Slots, entries'[i].port # NoPort
                 PROVE  \E j \in SlotIds : slots'[j] = entries'[i].port
      BY DEF MacTableRefIntegrity
    <2> DEFINE S == gone \cap Ports
    <2>1. entries \in [MT!Slots -> MT!Entry]
          /\ index \in [Macs -> MT!Slots \cup {MT!NoSlot}]
      BY <1>1 DEF MT!MtTypeOK
    <2>2. entries'[i] = IF \E m \in Macs : index[m] = i /\ MT!Flushes(S, m)
                          THEN MT!EmptyEntry ELSE entries[i]
      BY <1>2, <2>1 DEF MT!FlushPorts
    <2>3. entries'[i] = entries[i] /\ entries[i].port # NoPort
      <3>1. MT!EmptyEntry.port = NoPort
        BY DEF MT!EmptyEntry
      <3>2. entries'[i] # MT!EmptyEntry
        BY <3>1
      <3>. QED
        BY <2>2, <3>2
    <2>4. entries[i].addr \in Macs /\ index[entries[i].addr] = i
      BY <2>3 DEF IInv, MT!IndexConsistent
    <2>5. entries[i].port \notin S
      <3>1. SUFFICES ASSUME entries[i].port \in S PROVE FALSE
        OBVIOUS
      <3>2. MT!Flushes(S, entries[i].addr)
        BY <2>4, <3>1 DEF MT!Flushes, MT!NoSlot, MT!Slots
      <3>3. entries'[i] = MT!EmptyEntry
        BY <2>2, <2>4, <3>2
      <3>. QED
        BY <2>3, <3>3 DEF MT!EmptyEntry
    <2>6. PICK j \in SlotIds : slots[j] = entries[i].port
      BY <2>3 DEF IInv, MacTableRefIntegrity
    <2>7. j \notin removed
      BY <1>1, <1>3, <2>3, <2>5, <2>6
    <2>. QED
      BY <1>2, <2>3, <2>6, <2>7
  <1>. QED
    BY <1>5, <1>6, <1>7, <1>8 DEF IInv

LEMMA InitIInv == Init => IInv
  <1> SUFFICES ASSUME Init PROVE IInv
    OBVIOUS
  <1>1. TInv
    BY InitTInv
  <1>2. SlotsConsistent /\ BusyInSwitch
    BY DEF Init, SlotsConsistent, BusyInSwitch, InSwitch, AllPorts
  <1>3. MT!IndexConsistent /\ MacTableRefIntegrity
    BY DEF Init, MT!MtInit, MT!IndexConsistent, MacTableRefIntegrity,
       MT!EmptyEntry, MT!NoSlot, MT!Slots
  <1>4. DeliveriesGood
    BY DEF Init, DeliveriesGood
  <1>. QED
    BY <1>1, <1>2, <1>3, <1>4 DEF IInv

LEMMA NextIInv == IInv /\ [Next]_vars => IInv'
  <1> SUFFICES ASSUME IInv, [Next]_vars PROVE IInv'
    OBVIOUS
  <1>1. TInv'
    BY NextTInv DEF IInv
  <1>2. CASE UNCHANGED vars
    <2>1. UNCHANGED <<slots, maxUsed, monitor, life, busy, mtVars, rx>>
      BY <1>2 DEF vars, portVars, ringVars, irqVars
    <2>2. SlotsConsistent' /\ BusyInSwitch'
      BY <2>1, PortsFrame DEF IInv, TInv, SwitchTypeOK, InSwitch, BusyInSwitch
    <2>. QED
      BY <1>1, <2>1, <2>2, MtUnchanged, RefFrame, RxFrame DEF IInv, mtVars
  <1>. QED
    BY <1>1, <1>2, AddPortIInv, AddMonitorIInv, CheckPortsIInv, HandleTxIInv,
       IrqIInv, GuestIInv DEF Next, SwitchStep, GuestStep

LEMMA IInvHolds == Spec => []IInv
  BY InitIInv, NextIInv, PTL DEF Spec

\* The three properties of delivered frames follow from DeliveriesGood.
LEMMA GoodDeliveries ==
  ASSUME DeliveriesGood
  PROVE  SelfLoopFree /\ VlanIsolation /\ TagDiscipline
  BY DEF DeliveriesGood, GoodDelivery, SelfLoopFree, VlanIsolation,
         TagDiscipline, AllPorts

-----------------------------------------------------------------------------
(* The theorems.                                                           *)

\* add_port() and check_ports() keep the port array, _max_used and the
\* ports' lives in agreement: a port is in exactly one slot, below
\* _max_used, exactly while it is attached or closed and not yet deleted,
\* and _monitor is set exactly while the monitor port is in the switch.
THEOREM SlotsConsistentHolds == Spec => []SlotsConsistent
  BY IInvHolds, PTL DEF IInv

\* learn() only stores the port whose IRQ handler is running, and
\* check_ports() flushes every port it deletes: no entry of the MAC table
\* ever points to a port that is no longer in the port array.
THEOREM MacTableRefIntegrityHolds == Spec => []MacTableRefIntegrity
  BY IInvHolds, PTL DEF IInv

\* handle_tx_queue() never delivers a frame to the port it came from,
\* whether the MAC table names that port or the frame is flooded.
THEOREM SelfLoopFreeHolds == Spec => []SelfLoopFree
  <1>1. IInv => SelfLoopFree
    BY GoodDeliveries DEF IInv
  <1>. QED
    BY <1>1, IInvHolds, PTL

\* The ingress checks of get_tx_request() and match_vlan() in
\* handle_tx_queue() keep every frame of an access or trunk port inside
\* its VLAN, for every VLAN setup the port options allow.
THEOREM VlanIsolationHolds == Spec => []VlanIsolation
  <1>1. IInv => VlanIsolation
    BY GoodDeliveries DEF IInv
  <1>. QED
    BY <1>1, IInvHolds, PTL

\* The mangle of handle_request() delivers a frame untagged to access
\* ports and tagged with its VLAN to trunk ports and the monitor, and no
\* frame of an access port is double tagged.
THEOREM TagDisciplineHolds == Spec => []TagDiscipline
  <1>1. IInv => TagDiscipline
    BY GoodDeliveries DEF IInv
  <1>. QED
    BY <1>1, IInvHolds, PTL

=============================================================================
