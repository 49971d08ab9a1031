# TLA+ models of the L4Re virtio net switch

This directory holds TLA+ models of the virtio net switch in `src/`, the TLC
configurations that check them, and TLAPS proofs about them.

## 1. The system

The switch is a single-threaded L4Re server. Guests own virtio-net devices,
and each device is a *port* of the switch. The switch copies the frames a
guest puts on its transmit ring into the receive rings of other ports. Its
parts:

| Part | Source | State | Operations |
|---|---|---|---|
| MAC table | `src/unnamed/part_000` (`Mac_table<Size>`) | `_entries[Size]` (port, addr), `std::map` MAC→entry, `_rr_index` | `lookup`, `learn`, `flush` |
| Switch | `src/server/switch/switch.cc`, switch.h in `part_003` | `_ports[max_ports]`, `_max_used`, `_monitor`, the MAC table | `add_port`, `add_monitor_port`, `check_ports`, `handle_tx_queue`, `handle_port_irq` |
| Port / VLAN classifier | `src/server/switch/port.h` | `_vlan_id`, `_vlan_bloom_filter`, `_vlan_ids`, `_mac`, the two virtqueues | `get_tx_request` (ingress policy), `handle_request` (egress mangle), `match_vlan`, `set_vlan_*`, `set_monitor` |
| Request view | `Virtio_net_request` in `part_003` | a parsed transmit head | `src_mac`, `dst_mac`, `has_vlan`, `vlan_id`, `drop_requests` |
| Transfer engine | `src/server/switch/transfer.h` | per-call cursors, consumed merged chains | `transfer`: Delivered / Dropped / Exception, or a thrown `Bad_descriptor` / `Runtime_error` |
| Pending-transfer variant | `part_001` (old port.h), `part_002` (old transfer.h), `Request_ptr` in `part_003` | per-port list of pending transfers with deadlines | `handle_request` queues a transfer on Dropped; `handle_rx_queue` retries; `expired` / `finish_transfer` |
| Factory and main | `main.cc` in `part_003` | registry, options | `op_create`, `Kick_irq` (switch and monitor ports), `Del_cap_irq` |
| Statistics | `stats.h` (two copies) | counters in a shared dataspace | increments only |

How the parts interact:
- A guest kicks its port. `Kick_irq::handle_irq` then runs
  `handle_port_irq(port)`.
- That loop disables the port's notifications, drains the transmit ring
  through `handle_tx_queue`, enables notifications again, and re-checks the
  ring.
- For each frame, `handle_tx_queue` does four things:
  - learns the source MAC;
  - derives the VLAN, from the tag or from the port;
  - forwards the frame, either to the learned port or by flooding to the
    `_ports` array;
  - mirrors it to the monitor.
- Every delivery goes through `Virtio_port::handle_request`, which picks the
  VLAN mangle and calls `Virtio_net_transfer::transfer` to copy the frame.
- A client that drops its capability raises `Del_cap_irq`. That runs
  `check_ports()`, which deletes dead ports and flushes them from the MAC
  table.

Hard behaviours:
- the lost-wake-up race between a guest's kick and `enable_notify()`;
- holes in `_ports` left by port removal;
- eviction and erasure in the MAC table;
- the VLAN rules split between ingress (`get_tx_request`), forwarding
  (`handle_tx_queue`, `match_vlan` with its Bloom filter) and egress
  (`handle_request`);
- in the copy loop: partial transfers, rewinds and exceptions;
- in the older pending-transfer generation: deadlines, retries, and deleting
  a port while transfers are queued.

The source tree holds two generations of the code:
- **Inline-drop.** `port.h`, `transfer.h` and the `Port_iface` switch.h drop a
  frame when the destination ring is full.
- **Pending-transfer.** `switch.cc` itself calls `rx_work_pending`,
  `handle_rx_queue` and `drop_pending_at_dest`.

The models follow the inline-drop semantics of the transfer, with the
`switch.cc` control flow.

## 2. Modules

| Module | Models | Used by |
|---|---|---|
| `MacTable` | `Mac_table`: `entries`, `index` (the map; `NoSlot` = no key), `rr`. `Learn(m, p)` is `learn()` (with its helpers `Evict` and `NextRr`), `FlushPorts(S)` is `flush()` of each port of S, `LookupIn` is `lookup()`. History variables `hist` (the last Size new keys) and `flushed` serve the properties only. | `Switch` (INSTANCE), `MCMacTable`, `MacTableProofs` |
| `Switch` | The port array, monitor, MAC table, and the rings as seen by the switch: `tx`, `rxFree`, `rx`. It also models the IRQ state: per-port notification flag `txNotify`, pending `kick`, deletion IRQ `delIrq`, and the running handler `busy`/`phase`. | `MCSwitch` |
| `MCSwitch` | Constants for four port setups (A–D), see section 3. | runs |
| `MCMacTable` | Three MACs, two ports, Size 2. | runs |
| `MacTableProofs` | TLAPS proofs of the MAC table invariants. | tlapm |
| `Descriptors` | Descriptor chains as sequences of buffer lengths, with `Bad` for a descriptor whose load throws `Bad_descriptor`. `ValidRequest` and `Payload` are the `Virtio_net_request` constructor's test and the payload buffers it hands on. | `Transfer`, `AtomicTransfer` |
| `Transfer` | One call of `Virtio_net_transfer::transfer()`, buffer by buffer (see below). | `MCTransfer` |
| `AtomicTransfer` | What one transfer promises, as a single step: `Deliver` (the fewest chains, filled in order), `Drop`, `SourceError`, `DeviceError`, `HeaderFault`. | `Transfer` (INSTANCE, refinement) |
| `MCTransfer` | All valid transmit chains of a header descriptor and up to three more descriptors, and all rings of up to two chains of up to two descriptors, with bad descriptors; header size 2. | runs |
| `PendingTransfer` | The pending-transfer generation at one destination port, counted in receive chains (see below). | `MCPendingTransfer` |
| `TransferProofs` | TLAPS proofs of `TransferTypeOK` and `RingRestored` for all constants. | tlapm |
| `SwitchProofs` | TLAPS proofs of `SwitchTypeOK`, `SlotsConsistent`, `MacTableRefIntegrity`, `SelfLoopFree`, `VlanIsolation` and `TagDiscipline`. | tlapm |
| `DescriptorsProofs` | Lemmas about `SeqSum`, the prefix sums `PSum` and `CapUpToBad`. | `TransferDeliveryProofs` |
| `TransferDeliveryProofs` | TLAPS proof of `DeliveredComplete`. | `TransferRefinementProofs`, tlapm |
| `TransferRefinementProofs` | TLAPS proof of the refinement `ImplementsAtomic`. | tlapm |
| `PendingTransferProofs` | TLAPS proofs of `PtTypeOK`, `ChainsConserved` and `AtMostOnce`. | tlapm |
| `MCPendingTransfer` | Three guest buffers, frames of one or two chains, three frames. | runs |

How the actions of `Switch` correspond to the code:
- **`AddPort(p)`.** `op_create` for a switch port, then `add_port`. The port
  is rejected, and deleted, on a MAC clash (`MacInUse`) or a full array.
  Otherwise it takes the first free slot (`FirstFree`, `lookup_free_slot`).
  `_max_used` is raised only if that slot was `_max_used`.
- **`AddMonitor`.** `op_create` with `type=monitor` and
  `add_monitor_port`.
- **`CheckPorts`.** `check_ports()` under a pending deletion IRQ. All dead
  ports below `_max_used` are removed and flushed.
  - `_max_used` drops only if the last used slot was removed. The loop then
    ends; this loses nothing, because every slot below the last has already
    been visited.
  - A closed monitor is deleted.
- **`HandleTx(p)`.** One `handle_tx_queue`, in order:
  - the ingress policy (`Ingress`, from `get_tx_request`);
  - `MT!Learn`;
  - the VLAN;
  - lookup in the *updated* table;
  - the unicast test `Unicast` (`target != port && match_vlan`), or the
    flood over slots `0 .. FloodEnd-1` (the loop condition
    `idx < _max_used && _ports[idx]`);
  - the monitor copy.

  The filter hook `filter_request` is an unconstrained Boolean. The copies
  are `Deliver`, taken in call order (`CallRank`: the ports by slot, then
  the monitor). Each copy appends the mangled frame if the receive ring has
  a free chain, and drops it otherwise.

  A guest of the constant `ShortRx` posts receive buffers shorter than the
  virtio-net header. A copy into such a guest takes the chain and throws
  `L4::Runtime_error` (`Throws`, `transfer.h:148-150`). The error escapes
  `handle_tx_queue()` and `handle_port_irq()`, which catches only
  `Bad_descriptor` (`switch.cc:166-181`). So the copies after it never run
  (`Reached`), and the handler ends (`busy' = NoPort`) with the source
  port's notifications still disabled.

  The batched guest notifications (`all_kick_emit_enable()`) that this
  skips are not modelled: the model has no receive-side kicks.
- **`IrqStart` / `DrainDone` / `EnableRecheck`.** One round of the do-while
  of `handle_port_irq`. It splits into the disable step, the end of the drain
  loop, and the `enable_notify(); wmb(); rmb(); while (tx_work_pending())`
  re-check. Guest steps can fall between these three steps, and nowhere else
  inside a handler: the switch is one event loop, so a handler is atomic
  with respect to other handlers.
- **`GuestSend` / `GuestPostRx` / `GuestClose`.** The guests, which are not
  part of this repository. A guest kicks only while `txNotify` is set (virtio
  notification suppression).

How `Transfer` corresponds to `transfer.h`: the copy loop becomes a state
machine with `pc`.
- **`SrcAdvance` / `LoopExit` / `SrcFault`.** The loop head (lines 88–108):
  the source cursor moves to the next buffer when the current one is done,
  the loop ends when there is none, and a bad next descriptor rewinds the
  ring to the first chain this call took (`consumed.at(0)` or `dst_head`)
  before it rethrows.
- **`AcquireDst`.** `if (!dst_head)` (114–201): not ready gives Dropped; an
  empty ring rewinds to `consumed.front()` and gives Dropped. Otherwise
  `next_avail()` takes a chain and one of three things happens:
  - `StartChain`: it starts, and on the first chain the header is placed;
  - `StartFault`: `start()` throws, `device_error()` is called, and the
    result is Exception;
  - `HeaderTooSmall`: the first descriptor is shorter than the header, and
    `Runtime_error` is thrown.
- **`DstStep` / `CopyInto`.** `dst_req_proc.next()` (203–234): a bad
  descriptor gives `device_error()` and Exception. Then `copy_pkt()` copies
  what fits, or the full chain is saved as `(dst_head, total)` in
  `consumed`.
- **`Finish`.** After the loop (237–267): `num_buffers = num_merged` is
  written, and every consumed chain and the current one are finished. With
  no current chain (head 0, finding 5) this is what an NDEBUG build does,
  past the failing `assert(dst_head)`.

`PendingTransfer` covers the older `port.h` (`part_001`) and `transfer.h`
(`part_002`). It models one destination, the frames of one source, and
receive chains of one size, so a frame needs `need` chains and a transfer's
progress is `got`.
- **`HandleRequest(n)`.** `handle_request()` calls `transfer()` at once,
  whatever is pending (`Taken`). It either finishes the frame (`Whole`) or
  appends the transfer to `_pending_requests`.
- **`HandleRxQueue`.** `handle_rx_queue()`, enabled by `rx_work_pending()`,
  resumes the list in order. It finishes and erases every transfer the
  available chains complete (`Completed`), and the first that runs out of
  chains keeps what it got.
- **`Expired`.** `expired()` deletes the oldest transfer. Deadlines are
  enqueue time plus 2 s, so they expire in list order.
  - The destructor's `finish_transfer()` returns at once if no header was
    written (`got = 0`).
  - Otherwise the transfer holds its filled chains in `_consumed` and no
    current chain. A pending transfer always does: `transfer()` returns
    false only at the top of an iteration without a current chain.
  - So `assert(_dst_head)` (`part_002:261`) fails, and a debug build
    aborts the switch. The model follows the NDEBUG build, as `Transfer`
    does.
  - An NDEBUG build sets `num_buffers = got` and appends the empty
    `Head_desc` to the list. `finish()` then hands back the `got` chains
    plus one used element that names no chain (`FinishPartial`, with
    `stray` set).
- **`GuestPost` / `GuestReceive`.** The guest, not in the repository.

## 3. Runs

| Run | Config | Expect | What it shows |
|---|---|---|---|
| `mactable` | `MCMacTable.cfg` | pass | `MtTypeOK`, `IndexConsistent` (map and entries agree) and `RoundRobin` (the table holds exactly the last Size new keys until something is flushed). |
| `mactable_evict` | `MCMacTable_evict.cfg` | violation | `NoEvictionBelowCapacity`: see finding 3. |
| `switch_vlan` | `MCSwitch_vlan.cfg` | pass | Setup A (access port, VLAN 1; trunk port, VLANs 1 and 2; monitor). The monitor's guest is in `ShortRx`, so a mirrored copy can end the handler. Checks `VlanIsolation` and `TagDiscipline`, the latter including "no double tagging". |
| `switch_bloom` | `MCSwitch_bloom.cfg` | pass | Setup D (access port, VLAN 1; trunk port, VLANs 2 and 33, whose Bloom bit collides with 1). Checks `VlanIsolation`. |
| `switch_ports` | `MCSwitch_ports.cfg` | pass | Setup B (three native ports, two of them with the same `mac=`, and two slots). `ShortRx` is empty. Checks `SlotsConsistent`, `MacTableRefIntegrity`, `SelfLoopFree` and the liveness property `TxDrained`. |
| `switch_flood` | `MCSwitch_flood.cfg` | violation | `FloodReachesAll`, with three native ports in three slots: see finding 1. |
| `switch_native` | `MCSwitch_native.cfg` | violation | `NativeConfined`, with setup C (a native port and an access port): see finding 2. |
| `transfer` | `MCTransfer.cfg` | pass | `RingRestored` (Dropped or a source `Bad_descriptor` leaves the ring at the first chain the call took, with nothing finished), `DeliveredComplete` (a delivery finishes exactly the chains it took, 1..k, each with the bytes written and their sum equal to header plus frame, and `num_buffers = k`), and the refinement `ImplementsAtomic` of `AtomicTransfer`. |
| `transfer_leak` | `MCTransfer_leak.cfg` | violation | `NoLostChain`: see finding 4. |
| `transfer_assert` | `MCTransfer_assert.cfg` | violation | `FinishAsserts` (the `assert(dst_head)` of the finish): see finding 5. |
| `pending` | `MCPendingTransfer.cfg` | pass | `ChainsConserved` (every guest buffer is in exactly one place: guest, ring, pending transfer, used ring) and `AtMostOnce` (no frame is delivered twice or both delivered and pending), under any order of sends, posts, retries and timeouts. An expiry gives the filled chains back together with the stray used element of the NDEBUG build. That element carries no buffer, so conservation holds in that build. A debug build aborts instead. |
| `pending_torn` | `MCPendingTransfer_NoTornFrame.cfg` | violation | `NoTornFrame`: see finding 6. |

Each property of a passing run is also checked against a mutant of the
operator it depends on. The mutants are the `...NoWrap`, `...Stuck`,
`...None`, `...NoCheck`, `...AnyVlan`, `...NoSelf`, `...NoAccessCheck`,
`...BloomOnly`, `...Any`, `...Skip` and `EnableNoRecheck` operators in
`MacTable` and `Switch`, and `CopyIntoOverrun`, `SrcFaultRewindHead`,
`FinishCountConsumed`, `StartFaultNoDeviceError`, `TakenNoCheck`,
`ExpiredDiscard` and `HandleRxQueueNoErase` in `Transfer` and
`PendingTransfer`. TLC finds the property violated for each of them.

**Bounds.**
- `MaxSends` (2 or 3 frames in total) and `RxBufs` (1 receive chain per
  guest) keep the rings finite. `MaxPorts` is 2 or 3, and the MAC table has
  Size 2.
- These bounds are enough for the interesting cases to happen:
  - a full MAC table with eviction (two MACs, Size 2);
  - a full receive ring (one chain) next to a free one;
  - a hole in the array below `_max_used` (three slots);
  - a full array with one port rejected (two slots);
  - the notify race (a send between `DrainDone` and `EnableRecheck`).
- Every action of `Switch` fires in `switch_vlan` and in `switch_ports`.
- `MCTransfer`: a header of 2 bytes, header descriptors of 2 to 4 bytes
  and up to three more source descriptors of 0, 1, 2 bytes or bad; receive
  chains of one or two descriptors of 0, 1, 3 bytes or bad. That gives:
  - frames that need one chain, two chains, or more than the ring has;
  - a header that fills its descriptor exactly or does not fit;
  - zero-length buffers on both sides;
  - a bad descriptor at every position, also behind two zero-length
    buffers.

  The `transfer` run leaves out transmit chains that end in a zero-length
  descriptor after payload. Those reach finding 5, which
  `transfer_assert` shows.

  With three source descriptors behind the header, TLC found a step the
  first `AtomicTransfer` did not allow. The source `<<1, 0, 0, bad>>` (after
  a 2-byte header) into a ring of one 3-byte chain: the header and the byte
  fill the ring exactly, the loop skips a zero-length buffer, finds no
  further receive chain and drops the frame without ever loading the bad
  descriptor. `transfer.h` reports a source `Bad_descriptor` only when the
  loop reaches it, and the spec (section on the transfer) says errors are
  propagated when "encountered while advancing", so the code is right and
  the abstract model was too strict. `Drop` now also allows a source with
  a bad descriptor whose good bytes fill the ring exactly.
- `MCPendingTransfer`: three buffers and frames of up to two chains. That
  allows two transfers pending at once, a retry that completes one and
  leaves the next partial, and an expiry with and without chains taken.
- Transfer and pending runs are terminating: the transfer ends in one of
  its outcomes, and the pending model stops when the three frames are
  delivered and the guest has nothing to post.
- In every run `CHECK_DEADLOCK` is FALSE. The switch is an event loop that
  waits for events: once the guests have used their sends and closed, no
  step is enabled, and that is a correct terminal state.

**Fairness.** The event loop serves every pending IRQ, so `IrqStart` and
`CheckPorts` are weakly fair. It runs a handler to its end, so the steps of a
running handler are weakly fair. Guests need no fairness. `TxDrained` says
that eventually no port in the switch has a frame left on its transmit ring.
It holds only because `EnableRecheck` re-reads the ring after enabling
notifications. The `EnableNoRecheck` mutant loses a frame.

`TxDrained` is claimed only for guests whose receive buffers hold the
header (`ShortRx = {}` in `switch_ports`). One transfer that throws
(finding 4) ends the handler with the sender's notifications disabled. The
guest then never kicks again, and nothing else serves its transmit ring.
`MCSwitch_stall.cfg` is `switch_ports` with `ShortRx = {pn2}` and only
`TxDrained`, and TLC finds a 15-state counterexample there:
- the guest of `pn2` posts a chain;
- `pn` floods a broadcast;
- the copy into `pn2` takes the chain and throws, so the monitor gets
  nothing;
- `pn`'s second frame stays on its transmit ring for ever.

## 4. Findings

1. **Flood stops at a hole (code bug), `switch.cc:138`.** The flood loop
   stops at the first empty slot. `check_ports()` empties slots below
   `_max_used` and lowers `_max_used` only when it removes the last slot. So
   after a port in the middle has died, broadcasts and unknown-destination
   frames miss every port behind the hole, until a new port fills it. TLC
   finds a 9-state trace.
2. **Native ports hop VLANs (spec/code divergence), `switch.cc:117`.**
   - What the code does: `get_tx_request()` accepts tagged frames on native
     ports, and `handle_tx_queue()` takes the VLAN from the tag. A native
     port can therefore send into any VLAN, and its frames reach access
     ports still tagged.
   - What the spec says: spec 4.2 ("the effective vid is NATIVE") and the
     glossary say a native port's frames go only to native ports and the
     monitor.
   - A tag equal to the VLAN_ID_TRUNK value matches every trunk port through
     the `id == _vlan_id` fast path.
3. **Eviction below capacity (comment/code divergence),
   `part_000:93`.** The class comment says the oldest entry is evicted only
   once the capacity is reached. `learn()` evicts the entry under the cursor
   whenever it is occupied. So after `flush()` has freed other entries, a
   live MAC is evicted while the table is below capacity.

4. **A too-short receive header buffer leaks a chain (spec gap),
   `transfer.h:149`.**
   - What the code does: when the first descriptor of the first receive
     chain is shorter than the virtio-net header, `transfer()` throws
     `L4::Runtime_error` after `next_avail()` has taken the chain. The chain
     is neither finished nor rewound. `handle_port_irq()` catches only
     `Bad_descriptor`, so the error also leaves the drain of the source port.
     The `handle_request()` calls after the failing one never run. The
     source port keeps its notifications disabled, so its later frames are
     never served (`TxDrained` fails under `MCSwitch_stall.cfg`; see
     Fairness above).
   - What the spec says: only "fatal error on that transfer". Every other
     abort restores the destination ring.
   - The abstract spec states the behaviour as `HeaderFault`.
5. **`assert(dst_head)` fails (code bug), `transfer.h:260`.** This is the
   assert of the branch with saved chains. The one at `transfer.h:252`
   (no saved chains) cannot fail.
   - How it happens: the frame exactly fills a receive chain, and the
     transmit chain still has a zero-length descriptor. The next iteration
     saves the full chain into `consumed` and clears `dst_head`, and then
     the source ends.
   - TLC trace: a header descriptor with one payload byte, then a
     zero-length descriptor, into a ring of one 3-byte chain.
   - In an NDEBUG build, the finish list gets an empty `Head_desc`.
6. **Expiry delivers torn frames (spec/code divergence), `part_002:103`.**
   - What the code does: in the pending-transfer generation, `expired()`
     deletes the transfer, and `~Virtio_net_transfer()` runs
     `finish_transfer()`. That call finishes the chains already filled,
     with `num_buffers` set to their number. The guest reads a truncated
     frame.
   - A pending transfer always has its filled chains saved and `_dst_head`
     empty, so this finish always fails `assert(_dst_head)`
     (`part_002:261`). A debug build aborts the switch there.
   - An NDEBUG build finishes the filled chains, then the empty
     `Head_desc` as one more used element that names no chain.
   - TLC: the guest reads one chain of a two-chain frame, then the stray
     element.
   - What the spec says: an expired transfer is discarded with no client
     notification.

The same generation also reorders frames. `handle_request()`
(`part_001:345`) tries a new frame before the pending ones. A chain that
the guest posts while frame 1 waits is taken by frame 2, which is then read
first. Spec 5 says frames reach each destination in transmit-ring order.
By hand in `PendingTransfer` this takes three steps: frame 1 pends on an
empty ring, the guest posts one chain, and frame 2 takes it. The current
`port.h` drops instead of queueing, so no run checks this order.

## 5. Proofs

`MacTableProofs` proves the following for every `Size \in Nat \ {0}`, every
set of MACs and every set of ports. The only assumptions are
`SizeAssumption` and `NoPortAssumption`.

- `TypeCorrect`: `MtSpec => []MtTypeOK`. Lemmas: `NextRrType` (the cursor
  wraps into `0..Size-1`) and `RememberType` (the history window never
  exceeds Size). Then one lemma per action (`LearnType`, `FlushType`).
- `IndexAlwaysConsistent`: `MtSpec => [](MtTypeOK /\ IndexConsistent)`.
  - `IndexConsistent` is inductive together with the type invariant, so no
    further strengthening is needed.
  - The key facts are that every key points to an in-use entry that stores
    it, and that every in-use entry is pointed to by its own key.
    Consequently, when `learn()` finds the entry under the cursor occupied,
    the key it erases is the only one pointing there (`LearnNewConsistent`).
  - `flush()` resets exactly the entries of the keys it erases
    (`FlushConsistent`).

`TransferProofs` proves two theorems about one call of `transfer()`. They
hold for every header size `HdrLen \in Nat \ {0}` and every set of
transmit chains and receive rings. The only assumption is
`TransferAssumption`: the chains are descriptor sequences, and every receive
chain has a first descriptor.
- `TypeCorrect`: `Spec => []TransferTypeOK`.
- `RingRestoredHolds`: `Spec => []RingRestored`.

Both follow from one inductive invariant, `IInv`. It is `TransferTypeOK`,
`ChainsNonEmpty`, `RingRestored`, and `Rewindable`. `RingRestored` alone
is not inductive, because the rewinds jump back to a remembered chain
(`consumed.at(0)` or `dst_head`). `Rewindable` says what must be true of
that chain while the loop runs:
- nothing has been finished yet;
- the first chain the call takes is chain 1, where the avail cursor stood;
- a call that has taken no chain has not moved the cursor. That covers a
  call with no header written and a call that found the ring not ready.

TLC checked `IInv` as an invariant on the `MCTransfer` instance, including
the transmit chains that end in a zero-length descriptor. The proof has one
lemma per action:
- `SrcAdvanceIInv`, `LoopExitIInv` and `SrcFaultIInv`;
- `AcquireDstIInv`, with a case per branch of `if (!dst_head)`;
- `DstStepIInv`, with a case per branch of the destination `next()`;
- `FinishIInv`.

A lemma `PayloadType` shows that the request constructor hands `transfer()`
a non-empty payload whose first buffer loads. `CopyIntoType` bounds
`copy_pkt()`.

`MacTableProofs` also proves `RoundRobinHolds`: `MtSpec => []RoundRobin`.
`RoundRobin` speaks of the history window `hist` (the last Size new keys),
not of the cursor, so it needs `RrInv`, which places every key of the window
in the table. `Pos(k)` is the entry `hist[k]` was written to: the cursor has
moved one entry per new key since, so it is `Len(hist) - k + 1` entries
behind the cursor, modulo Size. `RrInv` says:
- until the window is full, the cursor equals its length;
- an entry `Pos(k)` still in use holds `hist[k]`;
- every entry in use is `Pos(k)` for some k;
- while nothing was flushed, every `Pos(k)` is in use.

A new key shifts the window and the cursor together (`LearnNewWindow`),
re-learning a known key moves neither (`LearnKnownRr`), and `flush()` only
clears entries (`FlushRr`).

`SwitchProofs` proves six theorems for every set of ports, VLAN setup, MAC
set, `Size` and bound, from `PortsAssumption`, `VlanAssumption`,
`MacAssumption` and `BoundsAssumption`. All rest on one inductive invariant
`IInv`:
- `TInv`: `SwitchTypeOK` and `RxCredit` (a guest never has more free
  receive chains than it posted);
- `BusyInSwitch`: a running `handle_port_irq()` belongs to a port that is
  in the switch;
- `SlotsConsistent`;
- the MAC table's `IndexConsistent`;
- `MacTableRefIntegrity`;
- `DeliveriesGood`: every frame in a receive ring satisfies what
  `SelfLoopFree`, `VlanIsolation` and `TagDiscipline` ask of it.

`ShortRx` is arbitrary in these theorems. A transfer that throws only
takes a chain and ends the handler (`DeliverBusy`). A delivery is made
only to a port the calls reach, so every delivered frame still satisfies
`DeliveriesGood`.

`MacTableRefIntegrity` is not inductive alone: `check_ports()` flushes a
deleted port, and that port must not be running (`BusyInSwitch`). The
table lemmas of `MacTableProofs` are reused through `MTP == INSTANCE
MacTableProofs`. The `Learn` of the switch is the table's `Learn` with
different names, so small bridging lemmas are needed. `NatSetMin` proves
that `lookup_free_slot()` finds the least free slot.

`DescriptorsProofs` proves what `SeqSum` computes, without an induction
rule that takes an operator parameter. To prove a property for all
lengths, it takes the least length where the property fails, a concrete
set of naturals, and derives a contradiction (`NatSetMin`). The lemmas:
- `SeqSumEmpty` and `SeqSumAppend` (the sum of `s \o <<x>>`);
- the prefix sums `PSum(s, k)`, with `PSumStep` and `PSumMono`;
- `CapPrefix` and `CapType`: the good prefix of a chain sums to at most
  `CapUpToBad`, with equality at the end.

`TransferDeliveryProofs` proves `DeliveredCompleteHolds`:
`NoTrailingZero => (Spec => []DeliveredComplete)`. `DeliveredComplete` is
false without the hypothesis: a payload ending in a zero-length buffer
reaches the `assert(dst_head)` of finding 5. The run's transmit chains
satisfy `NoTrailingZero`. The proof adds `BadAssumption` (`Bad \notin
Nat`: a descriptor that fails to load is not a length). Its invariant
`DInv`, together with `IInv` of `TransferProofs`, says while the loop runs:
- `SrcShape`: every source buffer passed so far loaded;
- `BytesCopied`: bytes finished or being filled = header + source bytes
  taken;
- `ChainsFilled`: saved chains are ring chains 1, 2, ... in order, each
  full;
- `CurrentChain` and `NoCurrentChain`: the current chain is the next ring
  chain, and `total` counts what was loaded from it;
- `MergedCount`: `num_buffers` counts the chains taken;
- `SourceLeft`: a chain is saved only while source bytes remain, so a call
  that wrote the header reaches the finish with a current chain.

`PendingTransferProofs` proves `TypeCorrect`, `ChainsConservedHolds` and
`AtMostOnceHolds` for every `RingSize`, `MaxChains` and `MaxFrames`,
from `PendingAssumption`. Two things stand in the way and are bridged
first:
- `SumOf(s, i, f)` takes an operator parameter. Each use (`Got`,
  `Chains`, `Rest`) is shown equal to `Sigma(v, i)`, the sum of a
  concrete vector v. `Sigma` is characterised by its table of partial
  sums (`TabEq`, `TabUnique`, `TabExists`), and its lemmas (`SigmaStep`,
  `SigmaSplit`, `SigmaDiff`, ...) are proved by the least-counterexample
  argument of `DescriptorsProofs`.
- `Completed` is a CHOOSE. `CompletedSpec` shows the choice exists (the
  owed sums grow with the index) and states what it gives: the first j
  transfers fit in `avail` and the (j+1)-th does not.

The inductive invariant is `PtInv == PtTypeOK /\ ChainsConserved /\
Inj(IdList) /\ IdsSent`. `IdList` is the list `AtMostOnce` names `ids`:
the ids of received, used and pending, in this order. `AtMostOnce` says
it is injective (`InjIsAtMostOnce`). It is not inductive alone: without
`IdsSent` (every id on the lists is below `nextId`), `handle_request()`
could add an id that is already there. TLC checked `PtInv` on the
`RingSize`/`MaxChains`/`MaxFrames` = 4/3/4 instance first. The argument,
one lemma per action:
- `handle_rx_queue()` and the guest's read only move frames between the
  lists, so `IdList` is unchanged (`RxIds`, `ReceiveIds`); for
  `ChainsConserved` the completed transfers hand over their needs, which
  are what they got plus what they owed (`HandleRxQueueConserved`).
- `handle_request()` inserts the fresh id `nextId`, at the end of used or
  of pending (`HandleRequestIds`, through `InsertInj`).
- `expired()` either moves the head of pending to used or, if it filled
  no chain, removes its id (`ExpiredIds`, through `RemoveInj`).
  - The record it appends is the NDEBUG finish: the filled chains and a
    stray element without a buffer.
  - So the theorem covers the build that runs past `assert(_dst_head)`.
  - In a debug build that expiry aborts the switch, and there is no later
    state to conserve.

`TransferRefinementProofs` proves `ImplementsAtomicHolds`:
`NoTrailingZero => (Spec => ImplementsAtomic)`, that is, every run of the
copy loop is a run of `AtomicTransfer` under the mapping in `Transfer`
(the abstract `avail` is 1 and `out` is "run" while the loop runs). The
invariant is `IInv /\ DInv /\ XInv`. `XInv` adds, while the loop runs:
- `ConsumedGood`: a saved chain has no bad descriptor (it was loaded to
  its end). `Deliver` requires this of the chains before the last.
- `NonEmptyLast`: a current chain that holds no byte yet still has
  source bytes coming, so the last chain gets at least one byte. This
  makes the chain count the least one: `RingCap(k - 1) < FrameLen`.
TLC checked `XInv` with the others on the `transfer` instance first.
Every step that stays in the loop is a stutter (`StutterRef`). Each step
that ends it maps to one abstract action:
- `SrcFault` to `SourceError`, since the rewind gives `avail = 1`;
- `AcquireDst` to `Drop`, either because the ring is not ready or because
  it ran out (`DepletedGuard`: the saved chains are the whole ring and
  hold less than the frame, or exactly the bytes before a bad source
  descriptor);
- `StartFault` and a bad receive descriptor to `DeviceError`;
- `HeaderTooSmall` to `HeaderFault`;
- `Finish` without a header to `Drop` (`EmptyFrame`: the payload is the
  single zero-length buffer);
- `Finish` with a header to `Deliver`, with k the current chain
  (`DeliverRef`).
The instance's operators (`Abs!SeqSum`, `Abs!CapUpToBad`, `Abs!HasBad`)
are distinct symbols to the prover; `AbsOps` shows they equal the
concrete ones.

Out of the prover's reach, and left to TLC:
- the liveness property `TxDrained`, which needs fairness and ENABLED;
- `NoEvictionBelowCapacity` and the other properties of the violation
  runs, which are false by design.

## 6. Plan and what is not modelled

Done so far:
- `MacTable` and `Switch` with its four setups; all their passing
  invariants are proved.
- `Transfer`, with its abstract `AtomicTransfer`; `TransferTypeOK`,
  `RingRestored`, `DeliveredComplete` and the refinement
  `ImplementsAtomic` are proved.
- `PendingTransfer`; `PtTypeOK`, `ChainsConserved` and `AtMostOnce` are
  proved.

Next, in order:
1. **Port deletion in the pending generation.** `~Virtio_port()` deletes
   the transfers pending at a dead port, while their source heads stay
   unfinished at the sending port.
2. **Device error and reset.** The early returns of `handle_port_irq`, and
   the monitor port's IRQ (`drop_requests`).

Not modelled, and why:
- **Option parsing and name formatting in `op_create`.** This is string
  processing; its outcome is the constants `VlanId`, `TrunkIds` and
  `PortMac`.
- **Statistics.** Counters only.
- **Virtqueue internals of the L4virtio library.** This code is not in this
  repository. A ring is a sequence of frames plus a count of free receive
  chains.
- **The byte-level VLAN mangle.** A frame's `tag` field is its outermost
  tag.
- **Frame contents beyond source, destination and tag.** `Transfer`
  counts bytes but does not carry them.
- **The L4virtio request processor.** `next()` is taken to move to the
  next descriptor of a chain when the current one is used up; the library
  is not in this repository.
