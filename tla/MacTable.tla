------------------------------ MODULE MacTable ------------------------------
(***************************************************************************)
(* The switch's MAC learning table, Mac_table<Size> (mac_table.h).         *)
(*                                                                         *)
(* The table is a fixed array of Size entries (_entries), each holding a   *)
(* port pointer and the MAC address stored there, an index from MAC        *)
(* address to entry (the std::map _mac_table, whose values are pointers    *)
(* into _entries; here the index of the entry), and the round-robin cursor *)
(* _rr_index that names the next entry to be (re)used.                     *)
(*                                                                         *)
(* Two history variables are kept for the properties only: hist, the last  *)
(* Size MAC addresses that were newly inserted (in order), and flushed,    *)
(* whether flush() has ever removed an entry.                              *)
(***************************************************************************)
EXTENDS Integers, Sequences, FiniteSets

CONSTANTS
  Macs,        \* MAC addresses that frames can carry (Mac_addr values)
  PortIds,     \* the port objects an entry can point to
  NoPort,      \* nullptr as an entry's port
  UnknownMac,  \* Mac_addr::Addr_unknown, the address of an unused entry
  Size         \* the template parameter Size (1024 in the switch)

ASSUME SizeAssumption == Size \in Nat \ {0}
ASSUME NoPortAssumption == NoPort \notin PortIds

VARIABLES
  entries,   \* _entries: slot -> [port, addr]
  index,     \* _mac_table: MAC -> slot, NoSlot where the map has no key
  rr,        \* _rr_index
  hist,      \* history: the last Size MACs inserted as new keys
  flushed    \* history: some flush() has removed an entry

mtVars == <<entries, index, rr, hist, flushed>>

Slots == 0 .. Size - 1

\* The value of index for a MAC that is not a key of the std::map.
NoSlot == -1

\* A default-constructed Entry.
EmptyEntry == [port |-> NoPort, addr |-> UnknownMac]

Entry == [port : PortIds \cup {NoPort}, addr : Macs \cup {UnknownMac}]

MtInit ==
  /\ entries = [i \in Slots |-> EmptyEntry]
  /\ index = [m \in Macs |-> NoSlot]
  /\ rr = 0
  /\ hist = << >>
  /\ flushed = FALSE

(* lookup(): the port stored for dst, NoPort if the map has no such key,   *)
(* in a table with entry array ent and map idx.                            *)
LookupIn(ent, idx, m) == IF idx[m] = NoSlot THEN NoPort ELSE ent[idx[m]].port

Lookup(m) == LookupIn(entries, index, m)

\* The MAC addresses that are keys of the std::map.
Known == {m \in Macs : index[m] # NoSlot}

\* hist after m was inserted as a new key: a window of the last Size keys.
Remember(m) ==
  IF Len(hist) < Size THEN Append(hist, m) ELSE Append(Tail(hist), m)

\* Faulty variants: a cursor that does not wrap, one that does not move,
\* and a replacement that leaves the old key in the map.
NextRrNoWrap == rr + 1
NextRrStuck == rr
EvictNone(idx) == idx

\* _rr_index = (_rr_index + 1U) % Size
NextRr == (rr + 1) % Size

\* if (_entries[_rr_index].port) _mac_table.erase(_entries[_rr_index].addr);
Evict(idx) ==
  IF entries[rr].port # NoPort THEN [idx EXCEPT ![entries[rr].addr] = NoSlot]
  ELSE idx

(***************************************************************************)
(* learn(src, port).  emplace() inserts src -> _rr_index only if src is no *)
(* key yet.  Then, if the entry at the cursor is in use, its old address   *)
(* is erased from the map, the entry is overwritten and the cursor         *)
(* advances.  If src was already a key, only the entry's port is updated   *)
(* (a client moving between ports); the cursor stays.                      *)
(***************************************************************************)
Learn(m, p) ==
  IF index[m] = NoSlot
    THEN /\ index' = Evict([index EXCEPT ![m] = rr])
         /\ entries' = [entries EXCEPT ![rr] = [port |-> p, addr |-> m]]
         /\ rr' = NextRr
         /\ hist' = Remember(m)
         /\ UNCHANGED flushed
    ELSE /\ entries' = [entries EXCEPT ![index[m]].port = p]
         /\ UNCHANGED <<index, rr, hist, flushed>>

(***************************************************************************)
(* flush(port) for every port of the set S.  flush() walks the map; every  *)
(* key whose entry points to the port is erased and its entry reset to     *)
(* (nullptr, Addr_unknown).  check_ports() calls flush() once per removed  *)
(* port; the calls touch disjoint entries, so their order does not matter. *)
(***************************************************************************)
Flushes(S, m) == index[m] # NoSlot /\ entries[index[m]].port \in S

FlushPorts(S) ==
  /\ index' = [m \in Macs |-> IF Flushes(S, m) THEN NoSlot ELSE index[m]]
  /\ entries' = [i \in Slots |->
                   IF \E m \in Macs : index[m] = i /\ Flushes(S, m)
                     THEN EmptyEntry ELSE entries[i]]
  /\ flushed' = (flushed \/ \E m \in Macs : Flushes(S, m))
  /\ UNCHANGED <<rr, hist>>

MtNext ==
  \/ \E m \in Macs, p \in PortIds : Learn(m, p)
  \/ \E p \in PortIds : FlushPorts({p})

MtSpec == MtInit /\ [][MtNext]_mtVars

-----------------------------------------------------------------------------
(* The MAC table's type.                                                   *)
MtTypeOK ==
  /\ entries \in [Slots -> Entry]
  /\ index \in [Macs -> Slots \cup {NoSlot}]
  /\ rr \in Slots
  /\ hist \in Seq(Macs)
  /\ Len(hist) <= Size
  /\ flushed \in BOOLEAN

(***************************************************************************)
(* The map and the entry array agree (learn() and flush() keep them in     *)
(* step): every key points to an in-use entry that stores that key, and    *)
(* every in-use entry is the target of its own address.  This is what      *)
(* makes lookup() return the port last learned for a MAC, each MAC appear  *)
(* at most once, and the erase() in learn() remove the right key.          *)
(***************************************************************************)
IndexConsistent ==
  /\ \A m \in Macs :
       index[m] # NoSlot =>
         /\ entries[index[m]].addr = m
         /\ entries[index[m]].port # NoPort
  /\ \A i \in Slots :
       entries[i].port # NoPort =>
         /\ entries[i].addr \in Macs
         /\ index[entries[i].addr] = i

(***************************************************************************)
(* Round-robin replacement (spec section 8): the table only ever holds     *)
(* MACs among the last Size newly learned ones, and as long as nothing was *)
(* flushed it holds exactly those.  Re-learning a known MAC must not move  *)
(* the cursor, and the cursor must visit every entry in turn.              *)
(***************************************************************************)
RoundRobin ==
  LET window == {hist[i] : i \in 1 .. Len(hist)}
  IN  /\ Known \subseteq window
      /\ ~flushed => Known = window

(***************************************************************************)
(* The class comment of Mac_table: the oldest entry is evicted only "if    *)
(* the maximum capacity was reached".  A learn() step never drops another  *)
(* known MAC from the table while the table holds fewer than Size MACs.    *)
(***************************************************************************)
NoEvictionBelowCapacity ==
  [][\A m \in Macs, p \in PortIds :
       (Learn(m, p) /\ Cardinality(Known) < Size) => Known \subseteq Known'
    ]_mtVars
=============================================================================
