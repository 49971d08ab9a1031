--------------------------- MODULE TransferProofs ---------------------------
(***************************************************************************)
(* Proofs about one call of transfer(), for every header size and every   *)
(* transmit chain and receive ring that satisfy TransferAssumption.        *)
(***************************************************************************)
EXTENDS Transfer, SequenceTheorems, TLAPS

Running == {"src", "dst", "finish"}

(***************************************************************************)
(* What the rewinds rely on while the copy loop runs: nothing has been    *)
(* finished yet; the first chain the call takes is chain 1, the one the   *)
(* avail cursor stood at (so consumed[1].head, or dst_head while nothing  *)
(* is consumed, is the cursor to rewind to); and a call that has taken no *)
(* chain, in particular one that has written no header or finds the ring  *)
(* not ready, has not moved the cursor.                                    *)
(***************************************************************************)
Rewindable ==
  pc \in Running =>
    /\ used = << >>
    /\ consumed = << >> /\ head = 0 => avail = 1
    /\ consumed = << >> /\ head # 0 => head = 1
    /\ consumed # << >> => consumed[1].head = 1
    /\ ~hdr => consumed = << >> /\ head = 0
    /\ ~ready => consumed = << >> /\ head = 0

\* Every receive chain has a first descriptor (TransferAssumption).
ChainsNonEmpty == \A i \in 1 .. Len(ring) : ring[i] # << >>

IInv == TransferTypeOK /\ ChainsNonEmpty /\ Rewindable /\ RingRestored

-----------------------------------------------------------------------------
(* The payload the request constructor hands to transfer() is a non-empty *)
(* descriptor sequence whose first buffer loads.                           *)
LEMMA PayloadType ==
  ASSUME NEW raw \in Seq(Desc), ValidRequest(raw)
  PROVE  /\ Payload(raw) \in Seq(Desc)
         /\ Len(Payload(raw)) >= 1
         /\ Payload(raw)[1] \in Nat
  <1>1. raw[1] \in Nat
    BY DEF ValidRequest, Desc
  <1>2. CASE raw[1] > HdrLen
    <2>1. raw[1] - HdrLen \in Nat
      BY <1>1, <1>2, HdrLenAssumption
    <2>2. << raw[1] - HdrLen >> \in Seq(Desc) /\ Tail(raw) \in Seq(Desc)
      BY <2>1, HeadTailProperties DEF ValidRequest, Desc
    <2>3. Payload(raw) = << raw[1] - HdrLen >> \o Tail(raw)
      BY <1>2 DEF Payload
    <2>. QED
      BY <2>1, <2>2, <2>3, ConcatProperties
  <1>3. CASE ~(raw[1] > HdrLen)
    <2>1. Len(raw) >= 2 /\ raw[2] # Bad
      BY <1>1, <1>3, HdrLenAssumption DEF ValidRequest
    <2>. QED
      BY <1>3, <2>1 DEF Payload, Desc
  <1>. QED
    BY <1>2, <1>3

LEMMA InitIInv == Init => IInv
  <1> SUFFICES ASSUME Init PROVE IInv
    OBVIOUS
  <1>1. PICK raw \in TxChains : ValidRequest(raw) /\ src = Payload(raw)
    BY DEF Init
  <1>2. src \in Seq(Desc) /\ Len(src) >= 1 /\ src[1] \in Nat
    BY <1>1, PayloadType, TransferAssumption
  <1>3. ring \in Seq(Seq(Desc)) /\ ChainsNonEmpty
    BY TransferAssumption DEF Init, ChainsNonEmpty
  <1>4. TransferTypeOK
    <2>1. sIdx \in 1 .. Len(src) /\ sLeft \in Nat
      BY <1>2 DEF Init
    <2>2. avail \in 1 .. Len(ring) + 1 /\ head \in 0 .. Len(ring)
      BY <1>3 DEF Init
    <2>3. consumed \in Seq(Used) /\ used \in Seq(Used)
      BY DEF Init
    <2>4. pc \in {"src", "dst", "finish"} \cup Outcomes
      BY DEF Init
    <2>. QED
      BY <1>2, <1>3, <2>1, <2>2, <2>3, <2>4 DEF Init, TransferTypeOK
  <1>. QED
    BY <1>3, <1>4 DEF Init, IInv, Rewindable, RingRestored


-----------------------------------------------------------------------------
(* One lemma per action of Next: each keeps IInv.                          *)

LEMMA SrcAdvanceIInv ==
  ASSUME IInv, SrcAdvance
  PROVE  IInv'
  <1>1. sIdx' \in 1 .. Len(src) /\ sLeft' \in Nat
    BY DEF IInv, TransferTypeOK, SrcAdvance, Desc
  <1>2. TransferTypeOK'
    BY <1>1 DEF IInv, TransferTypeOK, SrcAdvance
  <1>. QED
    BY <1>2 DEF IInv, ChainsNonEmpty, Rewindable, RingRestored, SrcAdvance, Running

LEMMA LoopExitIInv ==
  ASSUME IInv, LoopExit
  PROVE  IInv'
  BY DEF IInv, TransferTypeOK, ChainsNonEmpty, Rewindable, RingRestored,
         LoopExit, Running

\* The rewind of a source fault goes back to chain 1, the cursor's start.
LEMMA SrcFaultIInv ==
  ASSUME IInv, SrcFault
  PROVE  IInv'
  <1>1. avail' = 1 /\ used' = << >>
    BY DEF IInv, TransferTypeOK, Rewindable, SrcFault, Running
  <1>2. TransferTypeOK'
    BY <1>1 DEF IInv, TransferTypeOK, SrcFault, Outcomes
  <1>. QED
    BY <1>1, <1>2 DEF IInv, ChainsNonEmpty, Rewindable, RingRestored,
                      SrcFault, Running


\* Taking a chain: the first one taken is the one the cursor stood at, and
\* a drop before any chain was taken leaves the cursor at 1.
LEMMA AcquireDstIInv ==
  ASSUME IInv, AcquireDst
  PROVE  IInv'
  <1> USE DEF IInv, Running
  <1>0. /\ pc = "dst" /\ head = 0
        /\ UNCHANGED <<src, ring, ready, sIdx, sLeft, consumed, used, numBuffers>>
    BY DEF AcquireDst
  <1> USE <1>0
  <1>9. ChainsNonEmpty'
    BY DEF ChainsNonEmpty
  <1> USE <1>9
  <1>1. CASE ~ready
    <2>1. pc' = "Dropped"
      BY <1>1 DEF AcquireDst
    <2>2. UNCHANGED <<avail, head, dIdx, dLeft, total, hdr, numMerged, devErr>>
      BY <1>1 DEF AcquireDst
    <2>3. avail = 1 /\ used = << >>
      BY <1>1 DEF Rewindable
    <2>4. TransferTypeOK'
      BY <2>1, <2>2 DEF TransferTypeOK, Outcomes
    <2>. QED
      BY <2>1, <2>2, <2>3, <2>4 DEF Rewindable, RingRestored
  <1>2. CASE ready /\ avail > Len(ring)
    <2>1. avail' = IF consumed # << >> THEN consumed[1].head ELSE avail
      BY <1>2 DEF AcquireDst, TransferTypeOK
    <2>2. pc' = "Dropped"
      BY <1>2 DEF AcquireDst, TransferTypeOK
    <2>3. UNCHANGED <<head, dIdx, dLeft, total, hdr, numMerged, devErr>>
      BY <1>2 DEF AcquireDst, TransferTypeOK
    <2>4. avail' = 1 /\ used = << >>
      BY <2>1 DEF Rewindable
    <2>5. TransferTypeOK'
      BY <2>2, <2>3, <2>4 DEF TransferTypeOK, Outcomes
    <2>. QED
      BY <2>2, <2>4, <2>5 DEF Rewindable, RingRestored
  <1>3. CASE ready /\ avail <= Len(ring) /\ avail' = avail + 1
             /\ \/ StartChain(ring[avail])
                \/ StartFault(ring[avail])
                \/ HeaderTooSmall(ring[avail])
    <2> DEFINE c == ring[avail]
    <2>1. avail \in 1 .. Len(ring) /\ avail' \in 1 .. Len(ring) + 1
      BY <1>3 DEF TransferTypeOK
    <2>2. c \in Seq(Desc) /\ Len(c) >= 1
      BY <2>1 DEF ChainsNonEmpty, TransferTypeOK
    <2>3. CASE StartChain(c)
      <3>1. c[1] \in Nat /\ (~hdr => c[1] >= HdrLen)
        BY <2>2, <2>3 DEF StartChain, Desc
      <3>2. dLeft' \in Nat /\ total' \in Nat
        BY <3>1, <2>3, HdrLenAssumption DEF StartChain, TransferTypeOK
      <3>3. head' = avail /\ hdr' /\ pc' = "dst"
        BY <1>0, <2>3 DEF StartChain
      <3>4. TransferTypeOK'
        BY <2>1, <3>2, <3>3, <2>3 DEF StartChain, TransferTypeOK
      <3>5. consumed = << >> => head' = 1
        BY <1>0, <3>3 DEF Rewindable, Running
      <3>. QED
        BY <1>0, <1>3, <2>1, <3>3, <3>4, <3>5 DEF Rewindable, RingRestored
    <2>4. CASE StartFault(c) \/ HeaderTooSmall(c)
      <3>0. pc' \in {"Exception", "RuntimeError"} /\ UNCHANGED <<head, dIdx, dLeft, total, numMerged>>
        BY <2>4 DEF StartFault, HeaderTooSmall
      <3>1. devErr' \in BOOLEAN /\ hdr' \in BOOLEAN
        BY <2>4 DEF StartFault, HeaderTooSmall, TransferTypeOK
      <3>. QED
        BY <2>1, <3>0, <3>1 DEF TransferTypeOK, Rewindable, RingRestored, Outcomes
    <2>. QED
      BY <1>3, <2>3, <2>4
  <1>. QED
    BY <1>1, <1>2, <1>3 DEF AcquireDst


\* copy_pkt() moves what fits and keeps every counter a natural number.
LEMMA CopyIntoType ==
  ASSUME TransferTypeOK, NEW i \in Nat, NEW room \in Nat, CopyInto(i, room)
  PROVE  /\ dIdx' \in Nat /\ dLeft' \in Nat /\ sLeft' \in Nat /\ total' \in Nat
         /\ UNCHANGED <<head, consumed, devErr>>
         /\ pc' = "src"
  BY DEF CopyInto, MinOf, TransferTypeOK

\* Saving a full chain keeps its head as consumed[1] when it is the first.
LEMMA DstStepIInv ==
  ASSUME IInv, DstStep
  PROVE  IInv'
  <1> USE DEF IInv, Running
  <1>0. /\ pc = "dst" /\ head # 0
        /\ UNCHANGED <<src, ring, ready, sIdx, avail, numMerged, hdr, used, numBuffers>>
    BY DEF DstStep
  <1> USE <1>0
  <1>1. ChainsNonEmpty'
    BY DEF ChainsNonEmpty
  <1>2. head \in 1 .. Len(ring) /\ Chain \in Seq(Desc)
    BY DEF TransferTypeOK, Chain
  <1>3. hdr /\ ready
    BY DEF Rewindable
  <1> USE <1>1, <1>3
  <1>4. CASE dLeft > 0 /\ CopyInto(dIdx, dLeft)
    <2>1. /\ dIdx' \in Nat /\ dLeft' \in Nat /\ sLeft' \in Nat /\ total' \in Nat
          /\ UNCHANGED <<head, consumed, devErr>> /\ pc' = "src"
      BY <1>4, CopyIntoType DEF TransferTypeOK
    <2>2. TransferTypeOK'
      BY <2>1 DEF TransferTypeOK
    <2>. QED
      BY <2>1, <2>2 DEF Rewindable, RingRestored
  <1>5. CASE dLeft = 0 /\ dIdx < Len(Chain) /\ Chain[dIdx + 1] # Bad
             /\ CopyInto(dIdx + 1, Chain[dIdx + 1])
    <2>1. Chain[dIdx + 1] \in Nat
      BY <1>2, <1>5 DEF TransferTypeOK, Desc
    <2>2. /\ dIdx' \in Nat /\ dLeft' \in Nat /\ sLeft' \in Nat /\ total' \in Nat
          /\ UNCHANGED <<head, consumed, devErr>> /\ pc' = "src"
      BY <1>5, <2>1, CopyIntoType DEF TransferTypeOK
    <2>3. TransferTypeOK'
      BY <2>2 DEF TransferTypeOK
    <2>. QED
      BY <2>2, <2>3 DEF Rewindable, RingRestored
  <1>6. CASE dLeft = 0 /\ dIdx < Len(Chain) /\ Chain[dIdx + 1] = Bad
             /\ devErr' = TRUE /\ pc' = "Exception"
             /\ UNCHANGED <<head, dIdx, dLeft, sLeft, total, consumed>>
    <2>1. TransferTypeOK'
      BY <1>6 DEF TransferTypeOK, Outcomes
    <2>. QED
      BY <1>6, <2>1 DEF Rewindable, RingRestored
  <1>7. CASE dLeft = 0 /\ dIdx = Len(Chain)
             /\ consumed' = Append(consumed, [head |-> head, len |-> total])
             /\ total' = 0 /\ head' = 0 /\ pc' = "src"
             /\ UNCHANGED <<dIdx, dLeft, sLeft, devErr>>
    <2> DEFINE e == [head |-> head, len |-> total]
    <2>1. e \in Used /\ consumed \in Seq(Used)
      BY <1>2 DEF TransferTypeOK, Used
    <2>2. consumed' \in Seq(Used) /\ consumed' # << >>
      BY <1>7, <2>1
    <2>3. consumed'[1].head = 1
      <3>1. CASE consumed = << >>
        BY <1>7, <2>1, <3>1 DEF Rewindable
      <3>2. CASE consumed # << >>
        BY <1>7, <2>1, <3>2 DEF Rewindable
      <3>. QED
        BY <3>1, <3>2
    <2>4. TransferTypeOK'
      BY <1>7, <2>2 DEF TransferTypeOK
    <2>. QED
      BY <1>7, <2>2, <2>3, <2>4 DEF Rewindable, RingRestored
  <1>. QED
    BY <1>4, <1>5, <1>6, <1>7 DEF DstStep


\* The finish: without a header nothing was taken, so the drop leaves the
\* cursor at 1; otherwise every finished chain is a (head, total) pair.
LEMMA FinishIInv ==
  ASSUME IInv, Finish
  PROVE  IInv'
  <1> USE DEF IInv, Running
  <1>0. /\ pc = "finish"
        /\ UNCHANGED <<src, ring, ready, sIdx, sLeft, avail, head, dIdx, dLeft,
                       total, numMerged, hdr, consumed, devErr>>
    BY DEF Finish
  <1> USE <1>0
  <1>1. ChainsNonEmpty'
    BY DEF ChainsNonEmpty
  <1> USE <1>1
  <1>2. [head |-> head, len |-> total] \in Used
    BY DEF TransferTypeOK, Used
  <1>3. CASE ~hdr /\ pc' = "Dropped" /\ UNCHANGED <<used, numBuffers>>
    <2>1. avail = 1 /\ used = << >>
      BY <1>3 DEF Rewindable
    <2>2. TransferTypeOK'
      BY <1>3 DEF TransferTypeOK, Outcomes
    <2>. QED
      BY <1>3, <2>1, <2>2 DEF Rewindable, RingRestored
  <1>4. CASE hdr /\ consumed = << >> /\ numBuffers' = 1
             /\ used' = used \o << [head |-> head, len |-> total] >>
             /\ pc' = "Delivered"
    <2>1. used' \in Seq(Used)
      BY <1>2, <1>4 DEF TransferTypeOK
    <2>2. TransferTypeOK'
      BY <1>4, <2>1 DEF TransferTypeOK, Outcomes
    <2>. QED
      BY <1>4, <2>2 DEF Rewindable, RingRestored
  <1>5. CASE hdr /\ consumed # << >> /\ numBuffers' = numMerged
             /\ used' = used \o Append(consumed, [head |-> head, len |-> total])
             /\ pc' = "Delivered"
    <2>1. used' \in Seq(Used)
      BY <1>2, <1>5 DEF TransferTypeOK
    <2>2. TransferTypeOK'
      BY <1>5, <2>1 DEF TransferTypeOK, Outcomes
    <2>. QED
      BY <1>5, <2>2 DEF Rewindable, RingRestored
  <1>. QED
    BY <1>3, <1>4, <1>5 DEF Finish

LEMMA NextIInv == IInv /\ [Next]_vars => IInv'
  <1> SUFFICES ASSUME IInv, [Next]_vars PROVE IInv'
    OBVIOUS
  <1>1. CASE UNCHANGED vars
    BY <1>1 DEF vars, IInv, TransferTypeOK, ChainsNonEmpty, Rewindable,
                RingRestored, Running
  <1>. QED
    BY <1>1, SrcAdvanceIInv, LoopExitIInv, SrcFaultIInv, AcquireDstIInv,
       DstStepIInv, FinishIInv DEF Next

LEMMA IInvHolds == Spec => []IInv
  BY InitIInv, NextIInv, PTL DEF Spec

\* Every call of transfer() keeps its cursors, counters, chains and
\* results within their types (for all header sizes and all chains).
THEOREM TypeCorrect == Spec => []TransferTypeOK
  BY IInvHolds, PTL DEF IInv

\* When transfer() drops the frame or rethrows a source Bad_descriptor,
\* the rewinds have put the destination's avail cursor back where the call
\* found it and nothing was finished: the guest never sees a partial frame
\* on these paths.
THEOREM RingRestoredHolds == Spec => []RingRestored
  BY IInvHolds, PTL DEF IInv

=============================================================================
