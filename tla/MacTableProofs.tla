--------------------------- MODULE MacTableProofs ---------------------------
(***************************************************************************)
(* Proofs about the MAC table for every Size, every set of MACs and every  *)
(* set of ports: learn() and flush() keep the table well typed, and keep   *)
(* the std::map _mac_table and the entry array _entries in agreement.      *)
(***************************************************************************)
EXTENDS MacTable, TLAPS

USE SizeAssumption, NoPortAssumption

\* NoSlot is no entry index, so a key of the map never collides with it.
LEMMA NoSlotNotSlot == NoSlot \notin Slots
  BY DEF NoSlot, Slots

\* The cursor after a learn() of a new key is again an entry index.
LEMMA NextRrType ==
  ASSUME rr \in Slots
  PROVE  NextRr \in Slots
  BY DEF NextRr, Slots

\* The window of recently learned MACs never grows beyond Size.
LEMMA RememberType ==
  ASSUME NEW m \in Macs, hist \in Seq(Macs), Len(hist) <= Size
  PROVE  /\ Remember(m) \in Seq(Macs)
         /\ Len(Remember(m)) <= Size
  <1>1. CASE Len(hist) < Size
    BY <1>1 DEF Remember
  <1>2. CASE ~(Len(hist) < Size)
    <2>1. hist # << >>
      BY <1>2
    <2>2. Tail(hist) \in Seq(Macs) /\ Len(Tail(hist)) = Len(hist) - 1
      BY <2>1
    <2>. QED
      BY <1>2, <2>2 DEF Remember
  <1>. QED
    BY <1>1, <1>2

-----------------------------------------------------------------------------
(* The type invariant.                                                     *)

LEMMA LearnType ==
  ASSUME MtTypeOK, NEW m \in Macs, NEW p \in PortIds, Learn(m, p)
  PROVE  MtTypeOK'
  <1>1. CASE index[m] = NoSlot
    <2>1. [index EXCEPT ![m] = rr] \in [Macs -> Slots \cup {NoSlot}]
      BY DEF MtTypeOK
    <2>2. index' \in [Macs -> Slots \cup {NoSlot}]
      BY <1>1, <2>1 DEF Learn, Evict
    <2>3. entries' \in [Slots -> Entry]
      BY <1>1 DEF Learn, MtTypeOK, Entry
    <2>4. rr' \in Slots
      BY <1>1, NextRrType DEF Learn, MtTypeOK
    <2>5. hist' \in Seq(Macs) /\ Len(hist') <= Size
      BY <1>1, RememberType DEF Learn, MtTypeOK
    <2>6. flushed' \in BOOLEAN
      BY <1>1 DEF Learn, MtTypeOK
    <2>. QED
      BY <2>2, <2>3, <2>4, <2>5, <2>6 DEF MtTypeOK
  <1>2. CASE index[m] # NoSlot
    <2>1. index[m] \in Slots
      BY <1>2 DEF MtTypeOK
    <2>2. entries' = [entries EXCEPT ![index[m]].port = p]
          /\ UNCHANGED <<index, rr, hist, flushed>>
      BY <1>2 DEF Learn
    <2>3. entries' \in [Slots -> Entry]
      BY <2>1, <2>2 DEF MtTypeOK, Entry
    <2>. QED
      BY <2>2, <2>3 DEF MtTypeOK
  <1>. QED
    BY <1>1, <1>2

LEMMA FlushType ==
  ASSUME MtTypeOK, NEW S, FlushPorts(S)
  PROVE  MtTypeOK'
  BY DEF FlushPorts, MtTypeOK, Entry, EmptyEntry

LEMMA InitType == MtInit => MtTypeOK
  <1> SUFFICES ASSUME MtInit PROVE MtTypeOK
    OBVIOUS
  <1>1. entries \in [Slots -> Entry]
    BY DEF MtInit, Entry, EmptyEntry
  <1>2. index \in [Macs -> Slots \cup {NoSlot}]
    BY DEF MtInit
  <1>3. rr \in Slots
    BY DEF MtInit, Slots
  <1>4. hist \in Seq(Macs) /\ Len(hist) <= Size
    BY DEF MtInit
  <1>. QED
    BY <1>1, <1>2, <1>3, <1>4 DEF MtInit, MtTypeOK

LEMMA NextType == MtTypeOK /\ [MtNext]_mtVars => MtTypeOK'
  BY LearnType, FlushType DEF MtNext, mtVars, MtTypeOK

\* learn() and flush() keep every field of the table in its type.
THEOREM TypeCorrect == MtSpec => []MtTypeOK
  BY InitType, NextType, PTL DEF MtSpec

-----------------------------------------------------------------------------
(* Agreement of the map and the entry array.                               *)

\* The invariant the proof carries: the type and IndexConsistent.
MtInv == MtTypeOK /\ IndexConsistent

\* learn() of a MAC that is no key yet: emplace() at the cursor, erase()
\* of the key stored there before, and the overwrite of that entry.
LEMMA LearnNewConsistent ==
  ASSUME MtInv, NEW m \in Macs, NEW p \in PortIds, Learn(m, p),
         index[m] = NoSlot
  PROVE  IndexConsistent'
  <1> DEFINE old == entries[rr]
  <1>1. rr \in Slots /\ index \in [Macs -> Slots \cup {NoSlot}]
        /\ entries \in [Slots -> Entry]
    BY DEF MtInv, MtTypeOK
  <1>2. entries' = [entries EXCEPT ![rr] = [port |-> p, addr |-> m]]
    BY DEF Learn
  <1>3. \A k \in Macs : index[k] = rr => old.port # NoPort /\ old.addr = k
    BY <1>1, NoSlotNotSlot DEF MtInv, IndexConsistent
  <1>4. CASE old.port # NoPort
    <2>1. old.addr \in Macs /\ index[old.addr] = rr
      BY <1>1, <1>4 DEF MtInv, IndexConsistent
    <2>2. old.addr # m
      BY <2>1, <1>1, NoSlotNotSlot
    <2>3. index' = [index EXCEPT ![m] = rr, ![old.addr] = NoSlot]
      BY <1>4 DEF Learn, Evict
    <2>4. \A k \in Macs : index'[k] # NoSlot =>
              entries'[index'[k]].addr = k /\ entries'[index'[k]].port # NoPort
      BY <1>1, <1>2, <1>3, <2>1, <2>2, <2>3, NoSlotNotSlot
      DEF MtInv, IndexConsistent
    <2>5. \A i \in Slots : entries'[i].port # NoPort =>
              entries'[i].addr \in Macs /\ index'[entries'[i].addr] = i
      BY <1>1, <1>2, <1>3, <2>1, <2>2, <2>3, NoSlotNotSlot
      DEF MtInv, IndexConsistent
    <2>. QED
      BY <2>4, <2>5 DEF IndexConsistent
  <1>5. CASE old.port = NoPort
    <2>1. index' = [index EXCEPT ![m] = rr]
      BY <1>5 DEF Learn, Evict
    <2>2. \A k \in Macs : index[k] # rr
      BY <1>3, <1>5
    <2>3. \A k \in Macs : index'[k] # NoSlot =>
              entries'[index'[k]].addr = k /\ entries'[index'[k]].port # NoPort
      BY <1>1, <1>2, <2>1, <2>2 DEF MtInv, IndexConsistent
    <2>4. \A i \in Slots : entries'[i].port # NoPort =>
              entries'[i].addr \in Macs /\ index'[entries'[i].addr] = i
      BY <1>1, <1>2, <2>1, <2>2, NoSlotNotSlot DEF MtInv, IndexConsistent
    <2>. QED
      BY <2>3, <2>4 DEF IndexConsistent
  <1>. QED
    BY <1>4, <1>5

\* learn() of a known MAC only moves its entry to the new port.
LEMMA LearnKnownConsistent ==
  ASSUME MtInv, NEW m \in Macs, NEW p \in PortIds, Learn(m, p),
         index[m] # NoSlot
  PROVE  IndexConsistent'
  <1>1. index[m] \in Slots /\ entries \in [Slots -> Entry]
    BY DEF MtInv, MtTypeOK
  <1>2. /\ entries' = [entries EXCEPT ![index[m]].port = p]
        /\ index' = index
    BY DEF Learn
  <1>. QED
    BY <1>1, <1>2 DEF MtInv, IndexConsistent

\* flush() erases exactly the keys whose entries it resets.
LEMMA FlushConsistent ==
  ASSUME MtInv, NEW S, FlushPorts(S)
  PROVE  IndexConsistent'
  <1>1. index \in [Macs -> Slots \cup {NoSlot}] /\ entries \in [Slots -> Entry]
    BY DEF MtInv, MtTypeOK
  <1>2. \A i \in Slots, k \in Macs :
          index[k] = i => \A k2 \in Macs : index[k2] = i => k2 = k
    BY <1>1, NoSlotNotSlot DEF MtInv, IndexConsistent
  <1>3. \A k \in Macs : index'[k] # NoSlot =>
          entries'[index'[k]].addr = k /\ entries'[index'[k]].port # NoPort
    BY <1>1, <1>2 DEF FlushPorts, Flushes, MtInv, IndexConsistent
  <1>4. \A i \in Slots : entries'[i].port # NoPort =>
          entries'[i].addr \in Macs /\ index'[entries'[i].addr] = i
    BY <1>1 DEF FlushPorts, Flushes, MtInv, IndexConsistent, EmptyEntry
  <1>. QED
    BY <1>3, <1>4 DEF IndexConsistent

\* The map and the entry array agree in every reachable state: lookup()
\* returns the port of the entry that stores the MAC, and the erase() in
\* learn() always removes the key of the entry it overwrites.
THEOREM IndexAlwaysConsistent == MtSpec => [](MtTypeOK /\ IndexConsistent)
  <1>1. MtInit => MtInv
    <2> SUFFICES ASSUME MtInit PROVE MtInv
      OBVIOUS
    <2>1. IndexConsistent
      BY DEF MtInit, IndexConsistent, EmptyEntry
    <2>. QED
      BY <2>1, InitType DEF MtInv
  <1>2. MtInv /\ [MtNext]_mtVars => MtInv'
    <2> SUFFICES ASSUME MtInv, [MtNext]_mtVars PROVE MtInv'
      OBVIOUS
    <2>1. MtTypeOK'
      BY NextType DEF MtInv
    <2>2. CASE \E m \in Macs, p \in PortIds : Learn(m, p)
      <3>1. PICK m \in Macs, p \in PortIds : Learn(m, p)
        BY <2>2
      <3>2. IndexConsistent'
        BY <3>1, LearnNewConsistent, LearnKnownConsistent
      <3>. QED
        BY <2>1, <3>2 DEF MtInv
    <2>3. CASE \E p \in PortIds : FlushPorts({p})
      <3>1. PICK p \in PortIds : FlushPorts({p})
        BY <2>3
      <3>2. IndexConsistent'
        BY <3>1, FlushConsistent
      <3>. QED
        BY <2>1, <3>2 DEF MtInv
    <2>4. CASE UNCHANGED mtVars
      <3>1. entries' = entries /\ index' = index
        BY <2>4 DEF mtVars
      <3>2. IndexConsistent'
        BY <3>1 DEF MtInv, IndexConsistent
      <3>. QED
        BY <2>1, <3>2 DEF MtInv
    <2>. QED
      BY <2>2, <2>3, <2>4 DEF MtNext
  <1>. QED
    BY <1>1, <1>2, TypeCorrect, PTL DEF MtSpec, MtInv
-----------------------------------------------------------------------------
(* Round-robin replacement.                                                *)

\* The entry hist[k] was stored in: the cursor has moved one entry per new
\* key since, so it is Len(hist) - k + 1 entries behind the cursor.
Pos(k) == LET j == rr - Len(hist) + k - 1 IN IF j < 0 THEN j + Size ELSE j

InUse(i) == entries[i].port # NoPort

(***************************************************************************)
(* What makes RoundRobin inductive: until the window is full the cursor is *)
(* its length; an entry of the window that is in use still holds the MAC   *)
(* written there; every entry in use belongs to the window; and without a  *)
(* flush every entry of the window is in use.                              *)
(***************************************************************************)
RrInv ==
  /\ Len(hist) < Size => rr = Len(hist)
  /\ \A k \in 1 .. Len(hist) : InUse(Pos(k)) => entries[Pos(k)].addr = hist[k]
  /\ \A i \in Slots : InUse(i) => \E k \in 1 .. Len(hist) : Pos(k) = i
  /\ ~flushed => \A k \in 1 .. Len(hist) : InUse(Pos(k))

\* _rr_index = (_rr_index + 1U) % Size without the modulus.
LEMMA NextRrValue ==
  ASSUME rr \in Slots
  PROVE  NextRr = IF rr + 1 = Size THEN 0 ELSE rr + 1
  BY DEF NextRr, Slots

\* The window's entries are distinct entries of the table.
LEMMA PosType ==
  ASSUME MtTypeOK, Len(hist) < Size => rr = Len(hist)
  PROVE  /\ \A k \in 1 .. Len(hist) : Pos(k) \in Slots
         /\ \A k, l \in 1 .. Len(hist) : Pos(k) = Pos(l) => k = l
  BY DEF MtTypeOK, Pos, Slots

(***************************************************************************)
(* learn() of a new key: the window moves on by one when it was full (the  *)
(* oldest MAC, stored at the cursor, leaves it) and the new MAC, stored at *)
(* the cursor, is its last element.                                        *)
(***************************************************************************)
LEMMA LearnNewWindow ==
  ASSUME MtTypeOK, Len(hist) < Size => rr = Len(hist),
         NEW m \in Macs, NEW p \in PortIds, Learn(m, p), index[m] = NoSlot
  PROVE  LET d == IF Len(hist) < Size THEN 0 ELSE 1 IN
         /\ Len(hist') = Len(hist) + 1 - d
         /\ Len(hist') \in 1 .. Size
         /\ \A k \in 1 .. Len(hist') - 1 : hist'[k] = hist[k + d] /\ Pos(k)' = Pos(k + d)
         /\ hist'[Len(hist')] = m /\ (Pos(Len(hist)))' = rr
         /\ \A k \in 1 .. Len(hist) : Pos(k) = rr => d = 1 /\ k = 1
         /\ (Len(hist') < Size => rr' = Len(hist'))
  <1> DEFINE d == IF Len(hist) < Size THEN 0 ELSE 1
  <1>1. rr' = (IF rr + 1 = Size THEN 0 ELSE rr + 1) /\ hist' = Remember(m)
    BY NextRrValue DEF Learn, MtTypeOK
  <1>2. hist \in Seq(Macs) /\ Len(hist) <= Size /\ rr \in Slots
    BY DEF MtTypeOK
  <1>3. CASE Len(hist) < Size
    <2>1. hist' = Append(hist, m)
      BY <1>1, <1>3 DEF Remember
    <2>. QED
      BY <1>1, <1>2, <1>3, <2>1 DEF Pos, Slots
  <1>4. CASE ~(Len(hist) < Size)
    <2>1. hist' = Append(Tail(hist), m) /\ hist # << >>
      BY <1>1, <1>2, <1>4 DEF Remember
    <2>2. Len(hist') = Size /\ \A k \in 1 .. Size - 1 : hist'[k] = hist[k + 1]
      BY <1>2, <1>4, <2>1
    <2>. QED
      BY <1>1, <1>2, <1>4, <2>1, <2>2 DEF Pos, Slots
  <1>. QED
    BY <1>3, <1>4

LEMMA LearnNewRr ==
  ASSUME MtInv, RrInv, NEW m \in Macs, NEW p \in PortIds, Learn(m, p),
         index[m] = NoSlot
  PROVE  RrInv'
  <1> DEFINE d == IF Len(hist) < Size THEN 0 ELSE 1
             L == Len(hist')
  <1>1. /\ L = Len(hist) + 1 - d
        /\ L \in 1 .. Size
        /\ \A k \in 1 .. L - 1 : hist'[k] = hist[k + d] /\ Pos(k)' = Pos(k + d)
        /\ hist'[L] = m /\ (Pos(Len(hist)))' = rr
        /\ \A k \in 1 .. Len(hist) : Pos(k) = rr => d = 1 /\ k = 1
        /\ (L < Size => rr' = L)
    BY LearnNewWindow DEF MtInv, RrInv
  <1>2. /\ entries' = [entries EXCEPT ![rr] = [port |-> p, addr |-> m]]
        /\ flushed' = flushed
        /\ entries \in [Slots -> Entry] /\ rr \in Slots
        /\ p # NoPort
    BY NoPortAssumption DEF Learn, MtInv, MtTypeOK
  <1>3. /\ \A k \in 1 .. Len(hist) : Pos(k) \in Slots
        /\ Len(hist) \in Nat
    BY PosType DEF MtInv, RrInv, MtTypeOK
  \* The entries of the window other than the new one are untouched.
  <1>4. \A k \in 1 .. L - 1 : Pos(k + d) # rr /\ entries'[Pos(k)'] = entries[Pos(k + d)]
    BY <1>1, <1>2, <1>3
  <1>5. entries'[rr].port # NoPort /\ entries'[rr].addr = m
    BY <1>2
  <1>6. (\A k \in 1 .. Len(hist) : InUse(Pos(k)) => entries[Pos(k)].addr = hist[k])'
    <2> SUFFICES ASSUME NEW k \in 1 .. L
                 PROVE  (InUse(Pos(k)) => entries[Pos(k)].addr = hist[k])'
      OBVIOUS
    <2>1. CASE k = L
      <3>1. Pos(k)' = rr /\ hist'[k] = m
        BY <1>1, <2>1
      <3>. QED
        BY <1>5, <3>1 DEF InUse
    <2>2. CASE k # L
      <3>1. k \in 1 .. L - 1 /\ k + d \in 1 .. Len(hist)
        BY <1>1, <2>2 DEF d
      <3>2. entries'[Pos(k)'] = entries[Pos(k + d)] /\ hist'[k] = hist[k + d]
        BY <1>1, <1>4, <3>1
      <3>3. InUse(Pos(k + d)) => entries[Pos(k + d)].addr = hist[k + d]
        BY <3>1 DEF RrInv
      <3>. QED
        BY <3>2, <3>3 DEF InUse
    <2>. QED
      BY <2>1, <2>2
  <1>7. (\A i \in Slots : InUse(i) => \E k \in 1 .. Len(hist) : Pos(k) = i)'
    <2> SUFFICES ASSUME NEW i \in Slots, InUse(i)'
                 PROVE  \E k \in 1 .. L : Pos(k)' = i
      OBVIOUS
    <2>1. CASE i = rr
      BY <1>1, <2>1
    <2>2. CASE i # rr
      <3>1. InUse(i)
        BY <1>2, <2>2 DEF InUse
      <3>2. PICK k0 \in 1 .. Len(hist) : Pos(k0) = i
        BY <3>1 DEF RrInv
      <3>3. k0 - d \in 1 .. L - 1
        <4>1. d = 1 => Len(hist) = Size /\ Pos(1) = rr
          <5>1. Len(hist) \in Nat /\ Len(hist) <= Size /\ rr \in 0 .. Size - 1
            BY DEF MtInv, MtTypeOK, Slots
          <5>. QED
            BY <5>1 DEF Pos, d
        <4>. QED
          BY <1>1, <1>3, <2>2, <3>2, <4>1
      \* d is a state function: name the index as a constant before priming.
      <3>4. PICK j \in 1 .. L - 1 : j = k0 - d
        BY <3>3
      <3>5. Pos(j)' = Pos(j + d)
        BY <1>1
      <3>6. j + d = k0
        BY <1>3, <3>4 DEF d
      <3>. QED
        BY <3>2, <3>4, <3>5, <3>6
    <2>. QED
      BY <2>1, <2>2
  <1>8. (~flushed => \A k \in 1 .. Len(hist) : InUse(Pos(k)))'
    BY <1>1, <1>2, <1>3, <1>4, <1>5 DEF RrInv, InUse
  <1>. QED
    BY <1>1, <1>6, <1>7, <1>8 DEF RrInv

\* Re-learning a known MAC only rewrites the port of its entry.
LEMMA LearnKnownRr ==
  ASSUME MtInv, RrInv, NEW m \in Macs, NEW p \in PortIds, Learn(m, p),
         index[m] # NoSlot
  PROVE  RrInv'
  <1>1. /\ entries' = [entries EXCEPT ![index[m]].port = p]
        /\ UNCHANGED <<rr, hist, flushed>>
    BY DEF Learn
  <1>2. index[m] \in Slots /\ entries \in [Slots -> Entry] /\ p # NoPort
    BY NoPortAssumption DEF MtInv, MtTypeOK
  <1>3. \A i \in Slots : (InUse(i)' <=> InUse(i)) /\ entries'[i].addr = entries[i].addr
    <2> SUFFICES ASSUME NEW i \in Slots
                 PROVE  /\ entries'[i].port # NoPort <=> entries[i].port # NoPort
                        /\ entries'[i].addr = entries[i].addr
      BY Zenon DEF InUse
    <2>1. CASE i = index[m]
      <3>1. entries'[i] = [entries[i] EXCEPT !.port = p] /\ entries[i] \in Entry
        BY <1>1, <1>2, <2>1
      <3>2. entries[i].port # NoPort
        BY <2>1 DEF MtInv, IndexConsistent
      <3>. QED
        BY <1>2, <3>1, <3>2 DEF Entry
    <2>2. CASE i # index[m]
      BY <1>1, <1>2, <2>2
    <2>. QED
      BY <2>1, <2>2
  <1>4. \A k \in 1 .. Len(hist) : Pos(k)' = Pos(k)
    BY <1>1 DEF Pos
  <1>5. \A k \in 1 .. Len(hist) : Pos(k) \in Slots
    BY PosType DEF MtInv, RrInv
  <1>. QED
    BY <1>1, <1>3, <1>4, <1>5 DEF RrInv

\* flush() only takes entries out of use, and marks the table flushed when
\* it does.
LEMMA FlushRr ==
  ASSUME MtInv, RrInv, NEW S, FlushPorts(S)
  PROVE  RrInv'
  <1>1. /\ entries' = [i \in Slots |->
                         IF \E m \in Macs : index[m] = i /\ Flushes(S, m)
                           THEN EmptyEntry ELSE entries[i]]
        /\ flushed' = (flushed \/ \E m \in Macs : Flushes(S, m))
        /\ UNCHANGED <<rr, hist>>
    BY DEF FlushPorts
  <1>2. \A k \in 1 .. Len(hist) : Pos(k)' = Pos(k) /\ Pos(k) \in Slots
    BY <1>1, PosType DEF MtInv, RrInv, Pos
  <1>3. \A i \in Slots : InUse(i)' => InUse(i) /\ entries'[i] = entries[i]
    BY <1>1, NoPortAssumption DEF InUse, EmptyEntry
  <1>4. ~flushed' => ~flushed /\ entries' = entries
    BY <1>1 DEF MtInv, MtTypeOK
  <1>5. (\A k \in 1 .. Len(hist) : InUse(Pos(k)) => entries[Pos(k)].addr = hist[k])'
    BY <1>1, <1>2, <1>3 DEF RrInv
  <1>6. (\A i \in Slots : InUse(i) => \E k \in 1 .. Len(hist) : Pos(k) = i)'
    BY <1>1, <1>2, <1>3 DEF RrInv
  <1>7. (~flushed => \A k \in 1 .. Len(hist) : InUse(Pos(k)))'
    BY <1>1, <1>2, <1>4 DEF RrInv, InUse
  <1>. QED
    BY <1>1, <1>5, <1>6, <1>7 DEF RrInv

LEMMA InitRr == MtInit => RrInv
  BY NoPortAssumption DEF MtInit, RrInv, InUse, EmptyEntry

\* The strengthening gives RoundRobin: the table and the window agree.
LEMMA RrRoundRobin == MtInv /\ RrInv => RoundRobin
  <1> SUFFICES ASSUME MtInv, RrInv PROVE RoundRobin
    OBVIOUS
  <1>1. \A m \in Known : \E k \in 1 .. Len(hist) : hist[k] = m
    <2> SUFFICES ASSUME NEW m \in Known PROVE \E k \in 1 .. Len(hist) : hist[k] = m
      OBVIOUS
    <2>1. index[m] \in Slots /\ InUse(index[m]) /\ entries[index[m]].addr = m
      BY DEF Known, MtInv, MtTypeOK, IndexConsistent, InUse
    <2>2. PICK k \in 1 .. Len(hist) : Pos(k) = index[m]
      BY <2>1 DEF RrInv
    <2>. QED
      BY <2>1, <2>2 DEF RrInv
  <1>2. ~flushed => \A k \in 1 .. Len(hist) : hist[k] \in Known
    <2> SUFFICES ASSUME ~flushed, NEW k \in 1 .. Len(hist) PROVE hist[k] \in Known
      OBVIOUS
    <2>1. Pos(k) \in Slots /\ InUse(Pos(k)) /\ entries[Pos(k)].addr = hist[k]
      BY PosType DEF RrInv, MtInv
    <2>2. hist[k] \in Macs /\ index[hist[k]] = Pos(k)
      BY <2>1 DEF MtInv, IndexConsistent, InUse
    <2>. QED
      BY <2>2, NoSlotNotSlot, <2>1 DEF Known
  <1>. QED
    BY <1>1, <1>2 DEF RoundRobin

(***************************************************************************)
(* Round-robin replacement (Mac_table::learn with _rr_index): in every     *)
(* reachable state the table holds only MACs among the last Size new ones  *)
(* learned, and all of them as long as no flush() removed one.  Proved     *)
(* with the inductive invariant MtInv /\ RrInv.                            *)
(***************************************************************************)
THEOREM RoundRobinHolds == MtSpec => []RoundRobin
  <1>1. MtInit => MtInv /\ RrInv
    BY InitRr, IndexAlwaysConsistent, InitType DEF MtInit, MtInv, IndexConsistent, EmptyEntry
  <1>2. MtInv /\ RrInv /\ [MtNext]_mtVars => RrInv'
    <2> SUFFICES ASSUME MtInv, RrInv, [MtNext]_mtVars PROVE RrInv'
      OBVIOUS
    <2>1. CASE \E m \in Macs, p \in PortIds : Learn(m, p)
      BY <2>1, LearnNewRr, LearnKnownRr
    <2>2. CASE \E p \in PortIds : FlushPorts({p})
      BY <2>2, FlushRr
    <2>3. CASE UNCHANGED mtVars
      BY <2>3 DEF mtVars, RrInv, Pos, InUse
    <2>. QED
      BY <2>1, <2>2, <2>3 DEF MtNext
  <1>3. MtInv /\ [MtNext]_mtVars => MtInv'
    BY NextType, LearnNewConsistent, LearnKnownConsistent, FlushConsistent
       DEF MtInv, MtNext, mtVars, IndexConsistent
  <1>4. MtInv /\ RrInv => RoundRobin
    BY RrRoundRobin
  <1>. QED
    BY <1>1, <1>2, <1>3, <1>4, PTL DEF MtSpec

=============================================================================
