-------------------------- MODULE AtomicTransfer --------------------------
(***************************************************************************)
(* What one transfer promises the destination guest, as a single step     *)
(* (the view Switch takes of handle_request()): either the whole frame is *)
(* placed in the fewest available receive chains, each filled before the  *)
(* next, and finished with num_buffers set to their number; or the frame  *)
(* is dropped, or a source Bad_descriptor is propagated, and the receive  *)
(* ring is left as it was (a bad source is only reported when the loop    *)
(* reaches it, so a frame the ring fills just before it may be dropped);  *)
(* or a bad receive descriptor puts the                                   *)
(* destination device in error, after which its ring is not looked at;   *)
(* or the first receive chain is too short for the virtio-net header, and *)
(* transfer() throws with that chain taken and never finished.            *)
(***************************************************************************)
EXTENDS Descriptors

VARIABLES src, ring, ready, avail, used, numBuffers, devErr, out

absVars == <<src, ring, ready, avail, used, numBuffers, devErr, out>>

FrameLen == HdrLen + CapUpToBad(src)

\* Bytes the first k chains of the ring hold.
RingCap(k) == SeqSum([i \in 1 .. k |-> CapUpToBad(ring[i])])

AbsInit ==
  /\ avail = 1 /\ used = << >> /\ numBuffers = 0
  /\ devErr = FALSE /\ out = "run"

Deliver ==
  /\ out = "run" /\ ready /\ ~HasBad(src)
  /\ \E k \in 1 .. Len(ring) :
       /\ \A i \in 1 .. k - 1 : ~HasBad(ring[i])
       /\ RingCap(k - 1) < FrameLen /\ FrameLen <= RingCap(k)
       /\ used' = used \o [i \in 1 .. k |->
                             [head |-> i,
                              len  |-> IF i < k THEN CapUpToBad(ring[i])
                                       ELSE FrameLen - RingCap(k - 1)]]
       /\ avail' = k + 1
       /\ numBuffers' = k
  /\ out' = "Delivered"
  /\ UNCHANGED <<src, ring, ready, devErr>>

\* The ring may run out exactly when the bytes before a bad source
\* descriptor are placed: a zero-length buffer in between then makes the
\* loop look for a chain before it reaches the bad descriptor.
Drop ==
  /\ out = "run"
  /\ \/ ~ready
     \/ src = <<0>>
     \/ RingCap(Len(ring)) < FrameLen
     \/ HasBad(src) /\ RingCap(Len(ring)) = FrameLen
  /\ out' = "Dropped"
  /\ UNCHANGED <<src, ring, ready, avail, used, numBuffers, devErr>>

SourceError ==
  /\ out = "run" /\ HasBad(src)
  /\ out' = "BadDescriptor"
  /\ UNCHANGED <<src, ring, ready, avail, used, numBuffers, devErr>>

DeviceError ==
  /\ out = "run" /\ ready /\ \E k \in 1 .. Len(ring) : HasBad(ring[k])
  /\ devErr' = TRUE
  /\ avail' \in 1 .. Len(ring) + 1
  /\ out' = "Exception"
  /\ UNCHANGED <<src, ring, ready, used, numBuffers>>

HeaderFault ==
  /\ out = "run" /\ ready /\ src # <<0>>
  /\ Len(ring) >= 1 /\ ring[1][1] # Bad /\ ring[1][1] < HdrLen
  /\ avail' = 2
  /\ out' = "RuntimeError"
  /\ UNCHANGED <<src, ring, ready, used, numBuffers, devErr>>

AbsNext == Deliver \/ Drop \/ SourceError \/ DeviceError \/ HeaderFault

AbsSpec == AbsInit /\ [][AbsNext]_absVars
=============================================================================
