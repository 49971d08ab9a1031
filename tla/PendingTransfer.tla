-------------------------- MODULE PendingTransfer --------------------------
(***************************************************************************)
(* The pending-transfer generation of the switch (old port.h, old         *)
(* transfer.h): a transfer that finds the destination's receive ring      *)
(* empty is not dropped but queued on the destination port's              *)
(* _pending_requests list with a 2 s timeout, resumed by                   *)
(* handle_rx_queue() when the destination's guest posts receive chains,    *)
(* and deleted by expired() when its deadline passes.                      *)
(*                                                                         *)
(* One destination port receives the frames one source sends, in order,   *)
(* with ids 1, 2, ...  All receive chains of the destination hold the same *)
(* number of bytes, so a frame needs a number of chains and transfer()'s  *)
(* progress is the number of chains it has filled (got); it returns false *)
(* after saving a full chain when next_avail() finds no further one.  The *)
(* guest owns RingSize receive buffers: it posts free ones and takes the  *)
(* finished ones back off the used ring.                                   *)
(***************************************************************************)
EXTENDS Naturals, Sequences

CONSTANTS
  RingSize,   \* receive buffers of the destination guest
  MaxChains,  \* bound: chains one frame needs
  MaxFrames   \* bound: frames the source sends

ASSUME PendingAssumption ==
  RingSize \in Nat \ {0} /\ MaxChains \in Nat \ {0} /\ MaxFrames \in Nat

VARIABLES
  nextId,     \* the id of the next frame the source sends
  avail,      \* chains posted on the receive ring and not taken
  guestBufs,  \* free buffers the guest holds
  pending,    \* _pending_requests: [id, need, got] in list order
  used,       \* finished frames not yet read by the guest: [id, chains, need, stray]
  received    \* what the guest has read, in order (history)

ptVars == <<nextId, avail, guestBufs, pending, used, received>>

Pending == [id : Nat, need : 1 .. MaxChains, got : Nat]
Finished == [id : Nat, chains : Nat, need : 1 .. MaxChains, stray : BOOLEAN]

Rest(t) == t.need - t.got

MinOf(a, b) == IF a <= b THEN a ELSE b

\* The sum of the numbers f(s[1]), ..., f(s[i]).
SumOf(s, i, f(_)) ==
  LET sum[k \in 0 .. i] == IF k = 0 THEN 0 ELSE sum[k - 1] + f(s[k])
  IN  sum[i]

\* A faulty transfer() that takes the chains the frame still needs whether
\* or not the ring has them.
TakenNoCheck(t, a) == Rest(t)

\* transfer() on a transfer t with a chains available: the chains it fills
\* before the frame is in or next_avail() finds none.
Taken(t, a) == MinOf(Rest(t), a)

(***************************************************************************)
(* finish_transfer() of a transfer that has written the header.  A         *)
(* complete transfer still holds its last chain in _dst_head: it is       *)
(* finished with the consumed ones, num_buffers = need.  A pending        *)
(* transfer never does: transfer() returns false only at the top of an    *)
(* iteration without a current chain, after the last full one went into   *)
(* _consumed.  Finishing it fails assert(_dst_head) (part_002:261); the   *)
(* NDEBUG build goes on, sets num_buffers = num_merged = got and appends  *)
(* the empty Head_desc, so finish() hands back the got chains and writes  *)
(* one more used element that names no chain (stray).  A debug build      *)
(* aborts the switch there.                                                *)
(***************************************************************************)
Whole(t) == [id |-> t.id, chains |-> t.need, need |-> t.need, stray |-> FALSE]

FinishPartial(t) == [id |-> t.id, chains |-> t.got, need |-> t.need, stray |-> TRUE]

PtInit ==
  /\ nextId = 1
  /\ avail = 0
  /\ guestBufs = RingSize
  /\ pending = << >>
  /\ used = << >>
  /\ received = << >>

(***************************************************************************)
(* Virtio_port::handle_request(): a new transfer is tried at once,        *)
(* whatever is pending; transfer() takes chains until the frame is in or  *)
(* next_avail() finds none.  A transfer that returns false is appended to *)
(* _pending_requests and its timeout armed.                                *)
(***************************************************************************)
HandleRequest(n) ==
  /\ nextId <= MaxFrames
  /\ LET t == [id |-> nextId, need |-> n, got |-> 0]
         k == Taken(t, avail)
     IN  /\ avail' = avail - k
         /\ IF k = n
              THEN /\ used' = Append(used, Whole(t))
                   /\ UNCHANGED pending
              ELSE /\ pending' = Append(pending, [t EXCEPT !.got = k])
                   /\ UNCHANGED used
  /\ nextId' = nextId + 1
  /\ UNCHANGED <<guestBufs, received>>

(***************************************************************************)
(* handle_rx_queue(), run while rx_work_pending() (the ring is ready, the *)
(* list is not empty and a chain is available): resume the transfers in   *)
(* list order; a completed one is finished and erased, the first that     *)
(* runs out of chains stays with what it got and ends the walk.           *)
(***************************************************************************)
RxWorkPending == pending # << >> /\ avail > 0

\* Chains the first i pending transfers still need.
Owed(i) == SumOf(pending, i, Rest)

\* The number of transfers the available chains complete.
Completed == CHOOSE j \in 0 .. Len(pending) :
               /\ Owed(j) <= avail
               /\ j < Len(pending) => Owed(j + 1) > avail

\* A faulty walk that finishes the completed transfers but leaves them,
\* reset, on the list (the erase() of the loop forgotten).
HandleRxQueueNoErase ==
  /\ RxWorkPending
  /\ LET j    == Completed
         left == avail - Owed(j)
     IN  /\ used' = used \o [k \in 1 .. j |-> Whole(pending[k])]
         /\ pending' = [k \in 1 .. Len(pending) |->
                          IF k <= j THEN [pending[k] EXCEPT !.got = 0]
                          ELSE IF k = j + 1 THEN [pending[k] EXCEPT !.got = @ + left]
                          ELSE pending[k]]
         /\ avail' = IF j = Len(pending) THEN left ELSE 0
  /\ UNCHANGED <<nextId, guestBufs, received>>

HandleRxQueue ==
  /\ RxWorkPending
  /\ LET j    == Completed
         left == avail - Owed(j)
     IN  /\ used' = used \o [k \in 1 .. j |-> Whole(pending[k])]
         /\ IF j = Len(pending)
              THEN /\ pending' = << >>
                   /\ avail' = left
              ELSE /\ pending' = <<[pending[j + 1] EXCEPT !.got = @ + left]>>
                                 \o SubSeq(pending, j + 2, Len(pending))
                   /\ avail' = 0
  /\ UNCHANGED <<nextId, guestBufs, received>>

(***************************************************************************)
(* The timeout of the oldest pending transfer (all deadlines are enqueue  *)
(* time + 2 s, so they expire in list order): expired() removes it from   *)
(* the list and deletes it; ~Virtio_net_transfer() calls                  *)
(* finish_transfer(), which returns at once when no header was written    *)
(* (got = 0) and otherwise finishes the chains already filled             *)
(* (FinishPartial).                                                        *)
(***************************************************************************)
\* A faulty expiry that drops the transfer without finishing its chains.
ExpiredDiscard ==
  /\ pending # << >>
  /\ pending' = Tail(pending)
  /\ UNCHANGED <<nextId, avail, guestBufs, used, received>>

Expired ==
  /\ pending # << >>
  /\ LET t == Head(pending) IN
     used' = IF t.got > 0 THEN Append(used, FinishPartial(t)) ELSE used
  /\ pending' = Tail(pending)
  /\ UNCHANGED <<nextId, avail, guestBufs, received>>

-----------------------------------------------------------------------------
(* The destination guest.                                                  *)

GuestPost ==
  /\ guestBufs > 0
  /\ guestBufs' = guestBufs - 1
  /\ avail' = avail + 1
  /\ UNCHANGED <<nextId, pending, used, received>>

GuestReceive ==
  /\ used # << >>
  /\ received' = Append(received, Head(used))
  /\ guestBufs' = guestBufs + Head(used).chains
  /\ used' = Tail(used)
  /\ UNCHANGED <<nextId, avail, pending>>

PtNext ==
  \/ \E n \in 1 .. MaxChains : HandleRequest(n)
  \/ HandleRxQueue
  \/ Expired
  \/ GuestPost
  \/ GuestReceive

PtSpec == PtInit /\ [][PtNext]_ptVars

-----------------------------------------------------------------------------
PtTypeOK ==
  /\ nextId \in 1 .. MaxFrames + 1
  /\ avail \in Nat /\ guestBufs \in Nat
  /\ pending \in Seq(Pending)
  /\ used \in Seq(Finished)
  /\ received \in Seq(Finished)

Got(t) == t.got
Chains(e) == e.chains

\* Every receive buffer of the destination guest is in exactly one place:
\* held by the guest, posted on the ring, filled by a pending transfer, or
\* finished on the used ring.  A transfer that is deleted, on success or on
\* expiry, must give back the chains it took.
ChainsConserved ==
  guestBufs + avail + SumOf(pending, Len(pending), Got)
    + SumOf(used, Len(used), Chains) = RingSize

\* A frame reaches the guest at most once and is never both delivered and
\* still pending: handle_rx_queue() erases every transfer it completes.
AtMostOnce ==
  LET ids == [k \in 1 .. Len(received) + Len(used) + Len(pending) |->
                IF k <= Len(received) THEN received[k].id
                ELSE IF k <= Len(received) + Len(used)
                  THEN used[k - Len(received)].id
                ELSE pending[k - Len(received) - Len(used)].id]
  IN  \A a, b \in DOMAIN ids : a # b => ids[a] # ids[b]

\* The guest never reads a torn frame: every frame finished to it carries
\* all the chains it needs and no used element that names no chain (spec:
\* on deadline expiry the pending transfer is discarded, with no client
\* notification).
NoTornFrame ==
  \A k \in 1 .. Len(received) :
    received[k].chains = received[k].need /\ ~received[k].stray
=============================================================================
