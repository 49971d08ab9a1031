----------------------------- MODULE Transfer -----------------------------
(***************************************************************************)
(* Virtio_net_transfer::transfer() (server/switch/transfer.h): one frame   *)
(* of a source transmit chain is copied into the receive ring of one       *)
(* destination port, merging as many receive chains as it needs.  The      *)
(* copy loop is a state machine with pc:                                   *)
(*   "src"     top of the loop: advance the source cursor or leave the loop *)
(*   "dst"     take a destination chain if there is none, then copy       *)
(*   "finish"  after the loop: write num_buffers and finish() the chains   *)
(* and one terminal pc per way transfer() ends: the three Results, the    *)
(* rethrown source Bad_descriptor and the "Target buffer too small for     *)
(* header" L4::Runtime_error.                                              *)
(*                                                                         *)
(* The destination ring is a sequence of available chains; a chain is    *)
(* named by its position in it (the Head_desc), avail is the index of the *)
(* next chain next_avail() returns, and used collects what finish() hands *)
(* back to the guest.                                                      *)
(***************************************************************************)
EXTENDS Descriptors

CONSTANTS
  TxChains,  \* transmit chains the source guest may post
  RxRings    \* receive rings (sequences of chains) the destination may post

\* Transmit chains are descriptor sequences; every receive chain has at
\* least one descriptor (a virtqueue head is a descriptor).
ASSUME TransferAssumption ==
  /\ TxChains \subseteq Seq(Desc)
  /\ RxRings \subseteq Seq(Seq(Desc))
  /\ \A r \in RxRings : \A i \in 1 .. Len(r) : r[i] # << >>

VARIABLES
  src,        \* payload buffers of the request (first_buffer() and the rest)
  ring,       \* the destination's available chains
  ready,      \* dst_queue->ready()
  sIdx,       \* the source buffer src stands at
  sLeft,      \* src.left
  avail,      \* the chain next_avail() returns next
  head,       \* dst_head: the current destination chain, 0 when none
  dIdx,       \* the descriptor of the current chain dst stands at
  dLeft,      \* dst.left
  total,      \* bytes written to the current destination chain
  numMerged,  \* num_merged
  hdr,        \* dst_header # nullptr
  consumed,   \* filled chains: (head, total) pairs
  used,       \* chains finished to the destination guest
  numBuffers, \* dst_header->num_buffers as finally written
  devErr,     \* dst_dev->device_error() was called
  pc

vars == <<src, ring, ready, sIdx, sLeft, avail, head, dIdx, dLeft, total,
          numMerged, hdr, consumed, used, numBuffers, devErr, pc>>

Outcomes == {"Delivered", "Dropped", "Exception", "BadDescriptor", "RuntimeError"}

Used == [head : Nat, len : Nat]

MinOf(a, b) == IF a <= b THEN a ELSE b

Init ==
  /\ \E raw \in TxChains : ValidRequest(raw) /\ src = Payload(raw)
  /\ ring \in RxRings
  /\ ready \in BOOLEAN
  /\ sIdx = 1 /\ sLeft = src[1]
  /\ avail = 1 /\ head = 0 /\ dIdx = 0 /\ dLeft = 0
  /\ total = 0 /\ numMerged = 0 /\ hdr = FALSE
  /\ consumed = << >> /\ used = << >> /\ numBuffers = 0
  /\ devErr = FALSE
  /\ pc = "src"

(***************************************************************************)
(* Top of the loop: if (src.done() && !src_req_proc.next(..., &src))      *)
(* break;  a Bad_descriptor from next() rewinds the destination ring to   *)
(* the first chain this transfer took and is rethrown.                     *)
(***************************************************************************)
SrcAdvance ==
  /\ pc = "src"
  /\ \/ /\ sLeft > 0
        /\ UNCHANGED <<sIdx, sLeft>>
     \/ /\ sLeft = 0 /\ sIdx < Len(src) /\ src[sIdx + 1] # Bad
        /\ sIdx' = sIdx + 1
        /\ sLeft' = src[sIdx + 1]
  /\ pc' = "dst"
  /\ UNCHANGED <<src, ring, ready, avail, head, dIdx, dLeft, total, numMerged,
                 hdr, consumed, used, numBuffers, devErr>>

LoopExit ==
  /\ pc = "src"
  /\ sLeft = 0 /\ sIdx = Len(src)
  /\ pc' = "finish"
  /\ UNCHANGED <<src, ring, ready, sIdx, sLeft, avail, head, dIdx, dLeft,
                 total, numMerged, hdr, consumed, used, numBuffers, devErr>>

\* A faulty rewind that only considers the current chain.
SrcFaultRewindHead ==
  /\ pc = "src"
  /\ sLeft = 0 /\ sIdx < Len(src) /\ src[sIdx + 1] = Bad
  /\ avail' = IF head # 0 THEN head ELSE avail
  /\ pc' = "BadDescriptor"
  /\ UNCHANGED <<src, ring, ready, sIdx, sLeft, head, dIdx, dLeft, total,
                 numMerged, hdr, consumed, used, numBuffers, devErr>>

SrcFault ==
  /\ pc = "src"
  /\ sLeft = 0 /\ sIdx < Len(src) /\ src[sIdx + 1] = Bad
  /\ avail' = IF consumed # << >> THEN consumed[1].head
              ELSE IF head # 0 THEN head ELSE avail
  /\ pc' = "BadDescriptor"
  /\ UNCHANGED <<src, ring, ready, sIdx, sLeft, head, dIdx, dLeft, total,
                 numMerged, hdr, consumed, used, numBuffers, devErr>>

(***************************************************************************)
(* if (!dst_head): take the next available chain.  Not ready: Dropped.    *)
(* None left: rewind the chains already filled, Dropped.  start() throws: *)
(* device_error(), Exception.  On the first chain the header must fit in  *)
(* its first descriptor, else Runtime_error; it is copied and total set   *)
(* to its size.  ++num_merged.                                             *)
(***************************************************************************)
StartChain(c) ==
  /\ c[1] # Bad
  /\ ~hdr => c[1] >= HdrLen
  /\ head' = avail
  /\ dIdx' = 1
  /\ dLeft' = IF hdr THEN c[1] ELSE c[1] - HdrLen
  /\ total' = IF hdr THEN total ELSE HdrLen
  /\ hdr' = TRUE
  /\ numMerged' = numMerged + 1
  /\ UNCHANGED <<devErr, pc>>

\* A faulty start() error path that forgets device_error().
StartFaultNoDeviceError(c) ==
  /\ c[1] = Bad
  /\ pc' = "Exception"
  /\ UNCHANGED <<head, dIdx, dLeft, total, hdr, numMerged, devErr>>

StartFault(c) ==
  /\ c[1] = Bad
  /\ devErr' = TRUE
  /\ pc' = "Exception"
  /\ UNCHANGED <<head, dIdx, dLeft, total, hdr, numMerged>>

HeaderTooSmall(c) ==
  /\ c[1] # Bad /\ ~hdr /\ c[1] < HdrLen
  /\ pc' = "RuntimeError"
  /\ UNCHANGED <<head, dIdx, dLeft, total, hdr, numMerged, devErr>>

AcquireDst ==
  /\ pc = "dst" /\ head = 0
  /\ \/ /\ ~ready
        /\ pc' = "Dropped"
        /\ UNCHANGED <<avail, head, dIdx, dLeft, total, hdr, numMerged, devErr>>
     \/ /\ ready /\ avail > Len(ring)
        /\ avail' = IF consumed # << >> THEN consumed[1].head ELSE avail
        /\ pc' = "Dropped"
        /\ UNCHANGED <<head, dIdx, dLeft, total, hdr, numMerged, devErr>>
     \/ /\ ready /\ avail <= Len(ring)
        /\ avail' = avail + 1
        /\ \/ StartChain(ring[avail])
           \/ StartFault(ring[avail])
           \/ HeaderTooSmall(ring[avail])
  /\ UNCHANGED <<src, ring, ready, sIdx, sLeft, consumed, used, numBuffers>>

(***************************************************************************)
(* has_next_dst_buffer = dst_req_proc.next(..., &dst): a full descriptor  *)
(* is followed by the next one of the chain; a bad one calls              *)
(* device_error() and ends in Exception.  If dst has room now, copy_pkt() *)
(* copies what fits of the current source buffer; otherwise the chain is  *)
(* full and is saved as (dst_head, total) in consumed.                     *)
(***************************************************************************)
Chain == ring[head]

\* A faulty copy that does not bound the bytes by the room in dst.
CopyIntoOverrun(i, room) ==
  /\ dIdx' = i
  /\ dLeft' = room - sLeft
  /\ sLeft' = 0
  /\ total' = total + sLeft
  /\ UNCHANGED <<head, consumed, devErr>>
  /\ pc' = "src"

CopyInto(i, room) ==
  LET n == MinOf(room, sLeft)
  IN  /\ dIdx' = i
      /\ dLeft' = room - n
      /\ sLeft' = sLeft - n
      /\ total' = total + n
      /\ UNCHANGED <<head, consumed, devErr>>
      /\ pc' = "src"

DstStep ==
  /\ pc = "dst" /\ head # 0
  /\ \/ /\ dLeft > 0
        /\ CopyInto(dIdx, dLeft)
     \/ /\ dLeft = 0 /\ dIdx < Len(Chain) /\ Chain[dIdx + 1] # Bad
        /\ CopyInto(dIdx + 1, Chain[dIdx + 1])
     \/ /\ dLeft = 0 /\ dIdx < Len(Chain) /\ Chain[dIdx + 1] = Bad
        /\ devErr' = TRUE
        /\ pc' = "Exception"
        /\ UNCHANGED <<head, dIdx, dLeft, sLeft, total, consumed>>
     \/ /\ dLeft = 0 /\ dIdx = Len(Chain)
        /\ consumed' = Append(consumed, [head |-> head, len |-> total])
        /\ total' = 0
        /\ head' = 0
        /\ pc' = "src"
        /\ UNCHANGED <<dIdx, dLeft, sLeft, devErr>>
  /\ UNCHANGED <<src, ring, ready, sIdx, avail, numMerged, hdr, used, numBuffers>>

(***************************************************************************)
(* After the loop: no header written means nothing was taken: Dropped.    *)
(* Otherwise num_buffers is set and finish() hands back the single chain, *)
(* or every consumed chain followed by the current one: Delivered.        *)
(* (The code asserts dst_head here, and num_merged == 1 for one chain.)    *)
(***************************************************************************)
\* A faulty finish that counts only the chains saved before the last.
FinishCountConsumed ==
  /\ pc = "finish"
  /\ \/ /\ ~hdr
        /\ pc' = "Dropped"
        /\ UNCHANGED <<used, numBuffers>>
     \/ /\ hdr /\ consumed = << >>
        /\ numBuffers' = 1
        /\ used' = used \o <<[head |-> head, len |-> total]>>
        /\ pc' = "Delivered"
     \/ /\ hdr /\ consumed # << >>
        /\ numBuffers' = Len(consumed)
        /\ used' = used \o Append(consumed, [head |-> head, len |-> total])
        /\ pc' = "Delivered"
  /\ UNCHANGED <<src, ring, ready, sIdx, sLeft, avail, head, dIdx, dLeft,
                 total, numMerged, hdr, consumed, devErr>>

Finish ==
  /\ pc = "finish"
  /\ \/ /\ ~hdr
        /\ pc' = "Dropped"
        /\ UNCHANGED <<used, numBuffers>>
     \/ /\ hdr /\ consumed = << >>
        /\ numBuffers' = 1
        /\ used' = used \o <<[head |-> head, len |-> total]>>
        /\ pc' = "Delivered"
     \/ /\ hdr /\ consumed # << >>
        /\ numBuffers' = numMerged
        /\ used' = used \o Append(consumed, [head |-> head, len |-> total])
        /\ pc' = "Delivered"
  /\ UNCHANGED <<src, ring, ready, sIdx, sLeft, avail, head, dIdx, dLeft,
                 total, numMerged, hdr, consumed, devErr>>

Next ==
  \/ SrcAdvance \/ LoopExit \/ SrcFault
  \/ AcquireDst \/ DstStep \/ Finish

Spec == Init /\ [][Next]_vars

-----------------------------------------------------------------------------
TransferTypeOK ==
  /\ src \in Seq(Desc) /\ Len(src) >= 1
  /\ ring \in Seq(Seq(Desc))
  /\ ready \in BOOLEAN
  /\ sIdx \in 1 .. Len(src) /\ sLeft \in Nat
  /\ avail \in 1 .. Len(ring) + 1
  /\ head \in 0 .. Len(ring)
  /\ dIdx \in Nat /\ dLeft \in Nat
  /\ total \in Nat /\ numMerged \in Nat
  /\ hdr \in BOOLEAN
  /\ consumed \in Seq(Used) /\ used \in Seq(Used)
  /\ numBuffers \in Nat
  /\ devErr \in BOOLEAN
  /\ pc \in {"src", "dst", "finish"} \cup Outcomes

\* The receiver never sees part of a frame: when transfer() drops the frame
\* (ring not ready or depleted) or rethrows a source Bad_descriptor, the
\* rewind_avail() calls have put the avail cursor back where the transfer
\* found it and nothing was finished to the destination.
RingRestored ==
  pc \in {"Dropped", "BadDescriptor"} => avail = 1 /\ used = << >>

\* A delivered frame is whole: finish() hands back exactly the chains the
\* transfer took, in ring order, none written past its buffers, their byte
\* counts add up to the header and the payload, and the num_buffers written
\* into the first header is the number of chains.
DeliveredComplete ==
  pc = "Delivered" =>
    /\ avail = Len(used) + 1
    /\ numBuffers = Len(used)
    /\ \A i \in 1 .. Len(used) :
         used[i].head = i /\ used[i].len <= CapUpToBad(ring[i])
    /\ SeqSum([i \in 1 .. Len(used) |-> used[i].len]) = HdrLen + CapUpToBad(src)

\* No receive chain is lost: when transfer() ends without flagging the
\* destination device, every chain it took off the avail ring was either
\* handed back through the used ring or rewound.
NoLostChain ==
  pc \in Outcomes \ {"Exception"} => avail = Len(used) + 1

\* The assertions at the end of transfer(): a frame that wrote a header
\* still holds a current chain (assert(dst_head)), and a frame in a single
\* chain merged exactly one (assert(num_merged == 1)).
FinishAsserts ==
  pc = "finish" /\ hdr =>
    /\ head # 0
    /\ consumed = << >> => numMerged = 1

-----------------------------------------------------------------------------
(***************************************************************************)
(* Refinement: transfer() implements the one-step AtomicTransfer.  While  *)
(* the loop runs the guest sees the ring as the transfer found it: the    *)
(* avail cursor it moves is not published before the transfer ends, and   *)
(* the outcome is "run".                                                   *)
(***************************************************************************)
Abs == INSTANCE AtomicTransfer
         WITH avail <- IF pc \in Outcomes THEN avail ELSE 1,
              out   <- IF pc \in Outcomes THEN pc ELSE "run"

\* Every run of the copy loop is a run of the atomic transfer: each outcome
\* of transfer() is one AtomicTransfer promises for that frame and ring.
ImplementsAtomic == Abs!AbsSpec
=============================================================================
