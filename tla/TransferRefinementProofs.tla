--------------------- MODULE TransferRefinementProofs ---------------------
(***************************************************************************)
(* Proof that the copy loop of transfer() implements the one-step          *)
(* AtomicTransfer (ImplementsAtomic), for every header size, transmit      *)
(* chain and receive ring, under the proviso of DeliveredCompleteHolds     *)
(* (no transmit chain ends in a zero-length descriptor behind other        *)
(* payload).  Every step of the loop that stays in the loop is a stutter  *)
(* of the abstract transfer; every step that ends it is one of the five    *)
(* abstract outcomes.                                                      *)
(***************************************************************************)
EXTENDS TransferDeliveryProofs

(***************************************************************************)
(* Two more facts the loop maintains, on top of IInv and DInv.             *)
(***************************************************************************)
\* A saved chain was loaded to its end: none of its descriptors is bad.
ConsumedGood == \A i \in 1 .. Len(consumed) : ~HasBad(ring[i])

\* A chain that has received no byte yet still has source bytes coming,
\* so the chain the loop ends in is never empty (its length is the part
\* of the frame behind the chains before it).
NonEmptyLast ==
  /\ pc \in {"src", "dst"} /\ head # 0 /\ total = 0 => sLeft > 0 \/ sIdx < Len(src)
  /\ pc = "finish" /\ head # 0 => total > 0

XInv == pc \in Running => ConsumedGood /\ NonEmptyLast

-----------------------------------------------------------------------------
LEMMA InitXInv ==
  ASSUME Init
  PROVE  XInv
  BY DEF Init, XInv, ConsumedGood, NonEmptyLast

LEMMA SrcAdvanceXInv ==
  ASSUME IInv, DInv, XInv, SrcAdvance
  PROVE  XInv'
  <1>0. /\ pc = "src" /\ pc' = "dst"
        /\ UNCHANGED <<src, ring, head, total, consumed>>
    BY DEF SrcAdvance
  <1>1. ConsumedGood /\ NonEmptyLast /\ SrcShape
    BY <1>0 DEF XInv, DInv, Running
  <1>2. sLeft' > 0 \/ sIdx' < Len(src')
    <2>1. CASE sLeft > 0 /\ UNCHANGED <<sIdx, sLeft>>
      BY <2>1
    <2>2. CASE sLeft = 0 /\ sIdx < Len(src) /\ src[sIdx + 1] # Bad
               /\ sIdx' = sIdx + 1 /\ sLeft' = src[sIdx + 1]
      <3>1. src \in Seq(Desc) /\ sIdx \in 1 .. Len(src)
        BY DEF IInv, TransferTypeOK
      <3>2. CASE sIdx + 1 < Len(src)
        BY <1>0, <2>2, <3>2
      <3>3. CASE sIdx + 1 = Len(src)
        <4>1. src[Len(src)] # 0 /\ src[Len(src)] # Bad
          BY <1>1, <2>2, <3>1, <3>3 DEF SrcShape
        <4>. QED
          BY <2>2, <3>1, <3>3, <4>1 DEF Desc
      <3>. QED
        BY <2>2, <3>1, <3>2, <3>3
    <2>. QED
      BY <2>1, <2>2 DEF SrcAdvance
  <1>. QED
    BY <1>0, <1>1, <1>2 DEF XInv, ConsumedGood, NonEmptyLast

LEMMA LoopExitXInv ==
  ASSUME IInv, DInv, XInv, LoopExit
  PROVE  XInv'
  <1>0. /\ pc = "src" /\ pc' = "finish" /\ sLeft = 0 /\ sIdx = Len(src)
        /\ UNCHANGED <<src, ring, sIdx, sLeft, head, total, consumed>>
    BY DEF LoopExit
  <1>1. ConsumedGood /\ NonEmptyLast /\ total \in Nat
    BY <1>0 DEF XInv, Running, IInv, TransferTypeOK
  <1>. QED
    BY <1>0, <1>1 DEF XInv, ConsumedGood, NonEmptyLast

LEMMA AcquireDstXInv ==
  ASSUME IInv, DInv, XInv, AcquireDst
  PROVE  XInv'
  <1>0. /\ pc = "dst" /\ head = 0
        /\ UNCHANGED <<src, ring, sIdx, sLeft, consumed>>
    BY DEF AcquireDst
  <1>1. ConsumedGood /\ SourceLeft
    BY <1>0 DEF XInv, DInv, Running
  <1>2. CASE pc' = "dst"
    BY <1>0, <1>1, <1>2 DEF XInv, ConsumedGood, NonEmptyLast, SourceLeft
  <1>3. CASE pc' # "dst"
    <2>1. pc' \notin Running
      BY <1>0, <1>3 DEF AcquireDst, StartChain, StartFault, HeaderTooSmall, Running
    <2>. QED
      BY <2>1 DEF XInv
  <1>. QED
    BY <1>2, <1>3

LEMMA DstStepXInv ==
  ASSUME IInv, DInv, XInv, DstStep
  PROVE  XInv'
  <1>0. /\ pc = "dst" /\ head # 0
        /\ UNCHANGED <<src, ring, sIdx>>
    BY DEF DstStep
  <1>1. ConsumedGood /\ SourceLeft /\ CurrentChain /\ TransferTypeOK
    BY <1>0 DEF XInv, DInv, Running, IInv
  <1>2. ASSUME NEW i \in Nat, NEW room \in Nat, CopyInto(i, room)
        PROVE  XInv'
    <2> DEFINE n == MinOf(room, sLeft)
    <2>0. /\ sLeft' = sLeft - n /\ total' = total + n
          /\ UNCHANGED <<head, consumed>> /\ pc' = "src"
      BY <1>2 DEF CopyInto
    <2>1. n \in Nat /\ total \in Nat /\ sLeft \in Nat
      BY <1>1 DEF MinOf, TransferTypeOK
    <2>2. total' = 0 => sLeft' = sLeft
      BY <2>0, <2>1
    <2>. QED
      BY <1>0, <1>1, <2>0, <2>2 DEF XInv, ConsumedGood, NonEmptyLast, SourceLeft
  <1>3. CASE dLeft = 0 /\ dIdx = Len(Chain)
             /\ consumed' = Append(consumed, [head |-> head, len |-> total])
             /\ head' = 0 /\ pc' = "src"
    <2>1. /\ consumed \in Seq(Used) /\ head = Len(consumed) + 1
          /\ \A j \in 1 .. Len(ring[head]) : ring[head][j] # Bad
      BY <1>0, <1>1, <1>3 DEF CurrentChain, TransferTypeOK, Chain
    <2>2. ConsumedGood'
      BY <1>0, <1>1, <1>3, <2>1 DEF ConsumedGood, HasBad
    <2>. QED
      BY <1>3, <2>2 DEF XInv, NonEmptyLast
  <1>4. CASE dLeft = 0 /\ dIdx < Len(Chain) /\ Chain[dIdx + 1] = Bad
             /\ pc' = "Exception"
    BY <1>4 DEF XInv, Running
  <1>5. dIdx \in Nat /\ dLeft \in Nat /\ Chain \in Seq(Desc)
    BY <1>0, <1>1 DEF TransferTypeOK, Chain
  <1>6. CASE dLeft = 0 /\ dIdx < Len(Chain) /\ Chain[dIdx + 1] # Bad
             /\ CopyInto(dIdx + 1, Chain[dIdx + 1])
    BY <1>5, <1>6, <1>2 DEF Desc
  <1>7. CASE dLeft > 0 /\ CopyInto(dIdx, dLeft)
    BY <1>5, <1>7, <1>2
  <1>. QED
    BY <1>3, <1>4, <1>6, <1>7 DEF DstStep

LEMMA NextXInv == IInv /\ DInv /\ XInv /\ [Next]_vars => XInv'
  <1> SUFFICES ASSUME IInv, DInv, XInv, [Next]_vars PROVE XInv'
    OBVIOUS
  <1>1. CASE UNCHANGED vars
    BY <1>1 DEF vars, XInv, ConsumedGood, NonEmptyLast
  <1>2. CASE SrcFault \/ Finish
    <2>1. pc' \notin Running
      BY <1>2 DEF SrcFault, Finish, Running
    <2>. QED
      BY <2>1 DEF XInv
  <1>. QED
    BY <1>1, <1>2, SrcAdvanceXInv, LoopExitXInv, AcquireDstXInv, DstStepXInv
       DEF Next

\* The three invariants together hold in every state of a run.
LEMMA RInvHolds == NoTrailingZero => (Spec => [](IInv /\ DInv /\ XInv))
  <1> SUFFICES ASSUME NoTrailingZero PROVE Spec => [](IInv /\ DInv /\ XInv)
    OBVIOUS
  <1>1. Init => IInv /\ DInv /\ XInv
    BY InitIInv, InitDInv, InitXInv
  <1>2. IInv /\ DInv /\ XInv /\ [Next]_vars => (IInv /\ DInv /\ XInv)'
    BY NextIInv, NextDInv, NextXInv
  <1>. QED
    BY <1>1, <1>2, PTL DEF Spec

-----------------------------------------------------------------------------
(***************************************************************************)
(* Facts about the bytes the first k chains of the ring hold.             *)
(***************************************************************************)
\* The abstract module's operators on descriptors are the ones of the
\* copy loop: the instance substitutes nothing they mention.
LEMMA AbsOps ==
  ASSUME NEW x
  PROVE  /\ Abs!SeqSum(x) = SeqSum(x)
         /\ Abs!CapUpToBad(x) = CapUpToBad(x)
         /\ Abs!HasBad(x) = HasBad(x)
  BY DEF Abs!SeqSum, SeqSum, Abs!CapUpToBad, CapUpToBad, Abs!HasBad, HasBad

LEMMA RingCapIs ==
  ASSUME NEW k
  PROVE  Abs!RingCap(k) = SeqSum([i \in 1 .. k |-> CapUpToBad(ring[i])])
  <1>1. [i \in 1 .. k |-> Abs!CapUpToBad(ring[i])] = [i \in 1 .. k |-> CapUpToBad(ring[i])]
    BY AbsOps
  <1>. QED
    BY <1>1, AbsOps DEF Abs!RingCap

LEMMA FrameLenIs == Abs!FrameLen = HdrLen + CapUpToBad(src)
  BY AbsOps DEF Abs!FrameLen

LEMMA RingCapZero == Abs!RingCap(0) = 0
  <1>1. [i \in 1 .. 0 |-> CapUpToBad(ring[i])] = << >>
    OBVIOUS
  <1>. QED
    BY <1>1, SeqSumEmpty, RingCapIs

LEMMA RingCapStep ==
  ASSUME ring \in Seq(Seq(Desc)), NEW k \in 1 .. Len(ring)
  PROVE  /\ Abs!RingCap(k - 1) \in Nat
         /\ Abs!RingCap(k) = Abs!RingCap(k - 1) + CapUpToBad(ring[k])
  <1> DEFINE s == [i \in 1 .. Len(ring) |-> CapUpToBad(ring[i])]
  <1>1. \A i \in 1 .. (k - 1) + 1 : s[i] \in Nat
    BY CapType
  <1>2. k - 1 \in Nat
    OBVIOUS
  <1>3. PSum(s, k - 1) \in Nat /\ PSum(s, (k - 1) + 1) = PSum(s, k - 1) + s[(k - 1) + 1]
    BY <1>1, <1>2, PSumStep
  <1>4. \A j \in 0 .. Len(ring) : Abs!RingCap(j) = PSum(s, j)
    <2> SUFFICES ASSUME NEW j \in 0 .. Len(ring) PROVE Abs!RingCap(j) = PSum(s, j)
      OBVIOUS
    <2>1. [i \in 1 .. j |-> CapUpToBad(ring[i])] = [i \in 1 .. j |-> s[i]]
      OBVIOUS
    <2>. QED
      BY <2>1, RingCapIs DEF PSum
  <1>5. Abs!RingCap(k) = PSum(s, (k - 1) + 1) /\ Abs!RingCap(k - 1) = PSum(s, k - 1)
    <2>1. k \in 0 .. Len(ring) /\ k - 1 \in 0 .. Len(ring) /\ (k - 1) + 1 = k
      OBVIOUS
    <2>. QED
      BY <1>4, <2>1
  <1>6. s[(k - 1) + 1] = CapUpToBad(ring[k])
    OBVIOUS
  <1>. QED
    BY <1>3, <1>5, <1>6

\* The saved chains hold what the first Len(consumed) chains offer.
LEMMA ConsumedCap ==
  ASSUME ChainsFilled
  PROVE  LenSum(consumed) = Abs!RingCap(Len(consumed))
  <1>1. [i \in 1 .. Len(consumed) |-> consumed[i].len]
          = [i \in 1 .. Len(consumed) |-> CapUpToBad(ring[i])]
    BY DEF ChainsFilled
  <1>. QED
    BY <1>1, RingCapIs DEF LenSum

\* A chain without a bad descriptor offers all its bytes.
LEMMA NoBadCap ==
  ASSUME NEW c \in Seq(Desc), ~HasBad(c)
  PROVE  /\ \A i \in 1 .. Len(c) : c[i] \in Nat
         /\ CapUpToBad(c) = PSum(c, Len(c))
  <1>1. \A i \in 1 .. Len(c) : c[i] # Bad
    BY DEF HasBad
  <1>. QED
    BY <1>1, CapPrefix DEF Desc

-----------------------------------------------------------------------------
(***************************************************************************)
(* The steps of the loop, mapped to the abstract transfer.                 *)
(***************************************************************************)
\* A step that stays in the loop changes nothing the guest can see.
LEMMA StutterRef ==
  ASSUME pc \in Running, pc' \in Running,
         UNCHANGED <<src, ring, ready, used, numBuffers, devErr>>
  PROVE  UNCHANGED Abs!absVars
  BY DEF Abs!absVars, Running, Outcomes

\* A source Bad_descriptor: the rewind puts avail back to 1.
LEMMA SrcFaultRef ==
  ASSUME IInv, SrcFault
  PROVE  Abs!SourceError
  <1>0. /\ pc = "src" /\ pc' = "BadDescriptor"
        /\ sIdx < Len(src) /\ src[sIdx + 1] = Bad
        /\ UNCHANGED <<src, ring, ready, used, numBuffers, devErr>>
    BY DEF SrcFault
  <1>1. HasBad(src)
    BY <1>0 DEF IInv, TransferTypeOK, HasBad
  <1>2. avail' = 1
    BY <1>0 DEF SrcFault, IInv, Rewindable, Running
  <1>. QED
    BY <1>0, <1>1, <1>2, AbsOps DEF Abs!SourceError, Outcomes
\* The ring ran out: it offers less than the frame, or exactly the bytes
\* before a bad source descriptor the loop has not reached yet.
LEMMA DepletedGuard ==
  ASSUME IInv, DInv, pc = "dst", head = 0, ready, avail > Len(ring)
  PROVE  \/ Abs!RingCap(Len(ring)) < Abs!FrameLen
         \/ HasBad(src) /\ Abs!RingCap(Len(ring)) = Abs!FrameLen
  <1>1. /\ BytesCopied /\ ChainsFilled /\ NoCurrentChain /\ SourceLeft /\ SrcShape
    BY DEF DInv, Running
  <1>2. /\ src \in Seq(Desc) /\ sIdx \in 1 .. Len(src) /\ sLeft \in Nat
        /\ consumed \in Seq(Used) /\ avail \in 1 .. Len(ring) + 1
    BY DEF IInv, TransferTypeOK
  <1>3. Len(consumed) = Len(ring) /\ total = 0
    BY <1>1, <1>2 DEF NoCurrentChain
  <1>4. Abs!RingCap(Len(ring)) = LenSum(consumed) /\ LenSum(consumed) \in Nat
    BY <1>1, <1>2, <1>3, ConsumedCap, LenSumType
  <1>5. /\ PSum(src, sIdx) \in Nat /\ CapUpToBad(src) \in Nat
        /\ PSum(src, sIdx) <= CapUpToBad(src)
    BY <1>1, <1>2, CapPrefix, CapType DEF SrcShape
  <1>6. Abs!FrameLen = HdrLen + CapUpToBad(src) /\ HdrLen \in Nat \ {0}
    BY HdrLenAssumption, FrameLenIs
  <1>7. CASE ~hdr
    <2>1. consumed = << >>
      BY <1>7 DEF IInv, Rewindable, Running
    <2>2. LenSum(consumed) = 0
      BY <2>1, LenSumEmpty
    <2>. QED
      BY <1>4, <1>5, <1>6, <2>2
  <1>8. CASE hdr
    <2>1. LenSum(consumed) = HdrLen + PSum(src, sIdx) - sLeft
      BY <1>1, <1>2, <1>3, <1>4, <1>5, <1>8 DEF BytesCopied
    <2>2. CASE sLeft > 0
      BY <1>2, <1>4, <1>5, <1>6, <2>1, <2>2
    <2>3. CASE sLeft = 0 /\ HasBad(src)
      BY <1>2, <1>4, <1>5, <1>6, <2>1, <2>3
    <2>4. CASE sLeft = 0 /\ ~HasBad(src)
      <3>1. sIdx < Len(src)
        BY <1>1, <2>4 DEF SourceLeft
      <3>2. /\ \A i \in 1 .. Len(src) : src[i] \in Nat
            /\ CapUpToBad(src) = PSum(src, Len(src))
        BY <1>2, <2>4, NoBadCap
      <3>3. /\ PSum(src, Len(src)) = PSum(src, Len(src) - 1) + src[Len(src)]
            /\ PSum(src, Len(src) - 1) \in Nat
        <4>1. Len(src) - 1 \in Nat /\ \A i \in 1 .. (Len(src) - 1) + 1 : src[i] \in Nat
          BY <1>2, <3>2
        <4>. QED
          BY <4>1, PSumStep
      <3>4. PSum(src, sIdx) <= PSum(src, Len(src) - 1)
        <4>1. Len(src) - 1 \in Nat /\ sIdx \in 0 .. Len(src) - 1
              /\ \A i \in 1 .. Len(src) - 1 : src[i] \in Nat
          BY <1>2, <3>1, <3>2
        <4>. QED
          BY <4>1, PSumMono
      <3>5. src[Len(src)] \in Nat \ {0}
        BY <1>1, <1>2, <3>1, <3>2 DEF SrcShape
      <3>. QED
        BY <1>2, <1>4, <1>5, <1>6, <2>1, <2>4, <3>2, <3>3, <3>4, <3>5
    <2>. QED
      BY <2>2, <2>3, <2>4, <1>2
  <1>. QED
    BY <1>7, <1>8

\* The source's payload holds no byte: the loop took the one zero-length
\* buffer and found nothing to copy.  An empty frame wrote no header.
LEMMA EmptyFrame ==
  ASSUME IInv, DInv, pc = "finish", ~hdr
  PROVE  src = <<0>>
  <1>1. /\ BytesCopied /\ NoCurrentChain /\ SourceLeft /\ SrcShape
    BY DEF DInv, Running
  <1>2. consumed = << >> /\ head = 0
    BY DEF IInv, Rewindable, Running
  <1>3. sLeft = 0 /\ sIdx = Len(src) /\ total = 0
    BY <1>1, <1>2 DEF SourceLeft, NoCurrentChain
  <1>4. PSum(src, Len(src)) = 0
    BY <1>1, <1>2, <1>3, LenSumEmpty, SrcPSumNat DEF BytesCopied
  <1>5. /\ src \in Seq(Desc) /\ Len(src) >= 1
        /\ \A i \in 1 .. Len(src) : src[i] \in Nat
    BY <1>1, <1>3, SrcNat DEF IInv, TransferTypeOK
  <1>6. PSum(src, (Len(src) - 1) + 1) = PSum(src, Len(src) - 1) + src[(Len(src) - 1) + 1]
        /\ PSum(src, Len(src) - 1) \in Nat
    <2>1. Len(src) - 1 \in Nat /\ \A i \in 1 .. (Len(src) - 1) + 1 : src[i] \in Nat
      BY <1>5
    <2>. QED
      BY <2>1, PSumStep
  <1>7. src[Len(src)] = 0
    BY <1>4, <1>5, <1>6
  <1>8. Len(src) = 1
    BY <1>1, <1>5, <1>7 DEF SrcShape
  <1>9. src[1] = 0
    BY <1>7, <1>8
  <1>. QED
    BY <1>5, <1>8, <1>9

\* The header does not fit the first receive chain: the frame is not the
\* empty one (a header was due), and the chain taken is chain 1.
LEMMA HeaderFaultRef ==
  ASSUME IInv, DInv, pc = "dst", head = 0, ready, avail <= Len(ring),
         avail' = avail + 1, HeaderTooSmall(ring[avail]),
         UNCHANGED <<src, ring, ready, used, numBuffers>>
  PROVE  Abs!HeaderFault
  <1>1. ~hdr /\ pc' = "RuntimeError" /\ devErr' = devErr
        /\ ring[avail][1] # Bad /\ ring[avail][1] < HdrLen
    BY DEF HeaderTooSmall
  <1>2. consumed = << >> /\ avail = 1
    BY <1>1 DEF IInv, Rewindable, Running
  <1>3. src # <<0>>
    <2> SUFFICES ASSUME src = << 0 >> PROVE FALSE
      OBVIOUS
    <2>1. /\ BytesCopied /\ NoCurrentChain /\ SourceLeft
      BY DEF DInv, Running
    <2>2. sIdx = 1 /\ sLeft \in Nat
      BY DEF IInv, TransferTypeOK
    <2>3. sLeft > 0
      BY <2>1, <2>2 DEF SourceLeft
    <2>4. PSum(src, 1) = 0
      <3>1. \A i \in 1 .. 0 + 1 : src[i] \in Nat
        OBVIOUS
      <3>2. PSum(src, 0 + 1) = PSum(src, 0) + src[0 + 1]
        BY <3>1, PSumStep
      <3>. QED
        BY <3>2, PSumZero
    <2>. QED
      BY <1>1, <1>2, <2>1, <2>2, <2>3, <2>4, LenSumEmpty DEF BytesCopied, NoCurrentChain
  <1>. QED
    BY <1>1, <1>2, <1>3 DEF Abs!HeaderFault, Outcomes

\* start() on a chain whose head descriptor is bad: device_error().
LEMMA StartFaultRef ==
  ASSUME IInv, pc = "dst", ready, avail <= Len(ring),
         avail' = avail + 1, StartFault(ring[avail]),
         UNCHANGED <<src, ring, ready, used, numBuffers>>
  PROVE  Abs!DeviceError
  <1>1. ring[avail][1] = Bad /\ devErr' = TRUE /\ pc' = "Exception"
    BY DEF StartFault
  <1>2. /\ avail \in 1 .. Len(ring) /\ ring[avail] \in Seq(Desc)
        /\ ring[avail] # << >> /\ ring \in Seq(Seq(Desc))
    BY DEF IInv, TransferTypeOK, ChainsNonEmpty
  <1>3. HasBad(ring[avail])
    BY <1>1, <1>2 DEF HasBad
  <1>. QED
    BY <1>1, <1>2, <1>3, AbsOps DEF Abs!DeviceError, Outcomes

LEMMA AcquireDstRef ==
  ASSUME IInv, DInv, AcquireDst
  PROVE  Abs!AbsNext \/ UNCHANGED Abs!absVars
  <1>0. /\ pc = "dst" /\ head = 0
        /\ UNCHANGED <<src, ring, ready, sIdx, sLeft, consumed, used, numBuffers>>
    BY DEF AcquireDst
  <1>1. CASE ~ready /\ pc' = "Dropped" /\ UNCHANGED <<avail, devErr>>
    <2>1. avail = 1
      BY <1>0, <1>1 DEF IInv, Rewindable, Running
    <2>. QED
      BY <1>0, <1>1, <2>1 DEF Abs!AbsNext, Abs!Drop, Outcomes
  <1>2. CASE ready /\ avail > Len(ring) /\ pc' = "Dropped" /\ UNCHANGED devErr
             /\ avail' = IF consumed # << >> THEN consumed[1].head ELSE avail
    <2>1. avail' = 1
      BY <1>0, <1>2 DEF IInv, Rewindable, Running
    <2>2. \/ Abs!RingCap(Len(ring)) < Abs!FrameLen
          \/ HasBad(src) /\ Abs!RingCap(Len(ring)) = Abs!FrameLen
      BY <1>0, <1>2, DepletedGuard
    <2>3. Abs!Drop
      BY <1>0, <1>2, <2>1, <2>2, AbsOps DEF Abs!Drop, Outcomes
    <2>. QED
      BY <2>3 DEF Abs!AbsNext
  <1>3. CASE ready /\ avail <= Len(ring) /\ avail' = avail + 1 /\ StartChain(ring[avail])
    <2>1. pc' = "dst" /\ devErr' = devErr
      BY <1>0, <1>3 DEF StartChain
    <2>. QED
      BY <1>0, <2>1, StutterRef DEF Running
  <1>4. CASE ready /\ avail <= Len(ring) /\ avail' = avail + 1 /\ StartFault(ring[avail])
    BY <1>0, <1>4, StartFaultRef DEF Abs!AbsNext
  <1>5. CASE ready /\ avail <= Len(ring) /\ avail' = avail + 1 /\ HeaderTooSmall(ring[avail])
    BY <1>0, <1>5, HeaderFaultRef DEF Abs!AbsNext
  <1>. QED
    BY <1>1, <1>2, <1>3, <1>4, <1>5 DEF AcquireDst

LEMMA DstStepRef ==
  ASSUME IInv, DstStep
  PROVE  Abs!AbsNext \/ UNCHANGED Abs!absVars
  <1>0. /\ pc = "dst" /\ head # 0
        /\ UNCHANGED <<src, ring, ready, sIdx, avail, numMerged, hdr, used, numBuffers>>
    BY DEF DstStep
  <1>1. CASE dLeft = 0 /\ dIdx < Len(Chain) /\ Chain[dIdx + 1] = Bad
             /\ devErr' = TRUE /\ pc' = "Exception"
    <2>1. /\ ready /\ head \in 1 .. Len(ring) /\ dIdx \in Nat
          /\ ring \in Seq(Seq(Desc)) /\ avail \in 1 .. Len(ring) + 1
      BY <1>0 DEF IInv, Rewindable, Running, TransferTypeOK
    <2>2. HasBad(ring[head])
      BY <1>1, <2>1 DEF HasBad, Chain
    <2>3. Abs!DeviceError
      BY <1>0, <1>1, <2>1, <2>2, AbsOps DEF Abs!DeviceError, Outcomes
    <2>. QED
      BY <2>3 DEF Abs!AbsNext
  <1>2. CASE pc' = "src" /\ devErr' = devErr
    BY <1>0, <1>2, StutterRef DEF Running
  <1>. QED
    BY <1>1, <1>2 DEF DstStep, CopyInto

(***************************************************************************)
(* finish() of a frame with a header is the abstract Deliver with k the    *)
(* current chain: the chains before it were filled to capacity and hold   *)
(* less than the frame (the last chain got at least one byte), the last   *)
(* holds the rest and it fits, and used, avail and num_buffers are what    *)
(* Deliver sets.                                                           *)
(***************************************************************************)
LEMMA DeliverRef ==
  ASSUME IInv, DInv, XInv, pc = "finish", hdr,
         used' = Append(consumed, [head |-> head, len |-> total]),
         numBuffers' = Len(consumed) + 1, pc' = "Delivered",
         UNCHANGED <<src, ring, ready, avail, head, total, consumed, devErr>>
  PROVE  Abs!Deliver
  <1>1. /\ BytesCopied /\ ChainsFilled /\ CurrentChain /\ SrcShape /\ SourceLeft
        /\ ConsumedGood /\ NonEmptyLast
    BY DEF DInv, XInv, Running
  <1>2. sLeft = 0 /\ sIdx = Len(src) /\ head # 0
    BY <1>1 DEF SourceLeft
  <1>3. /\ head = Len(consumed) + 1 /\ avail = head + 1
        /\ dIdx \in 1 .. Len(ring[head])
        /\ \A j \in 1 .. dIdx : ring[head][j] # Bad
        /\ total + dLeft = PSum(ring[head], dIdx)
    BY <1>1, <1>2 DEF CurrentChain
  <1>4. /\ consumed \in Seq(Used) /\ ring \in Seq(Seq(Desc))
        /\ head \in 1 .. Len(ring) /\ src \in Seq(Desc)
        /\ total \in Nat /\ dLeft \in Nat /\ used = << >> /\ ready
    BY <1>2 DEF IInv, TransferTypeOK, Rewindable, Running
  <1>5. total <= CapUpToBad(ring[head]) /\ CapUpToBad(ring[head]) \in Nat
    <2>0. PICK c \in Seq(Desc) : c = ring[head]
      BY <1>4
    <2>1. dIdx \in 0 .. Len(c) /\ \A j \in 1 .. dIdx : c[j] # Bad
      BY <1>3, <2>0
    <2>2. PSum(c, dIdx) \in Nat /\ PSum(c, dIdx) <= CapUpToBad(c) /\ CapUpToBad(c) \in Nat
      BY <2>1, CapPrefix, CapType
    <2>. QED
      BY <1>3, <1>4, <2>0, <2>2
  <1>6. ~HasBad(src) /\ PSum(src, sIdx) = CapUpToBad(src) /\ PSum(src, sIdx) \in Nat
    <2>1. \A i \in 1 .. Len(src) : src[i] # Bad
      BY <1>1, <1>2 DEF SrcShape
    <2>2. ~HasBad(src)
      BY <2>1 DEF HasBad
    <2>3. sIdx \in 0 .. Len(src) /\ \A i \in 1 .. sIdx : src[i] # Bad
      BY <1>2, <1>4, <2>1
    <2>. QED
      BY <1>2, <1>4, <2>2, <2>3, CapPrefix
  <1>7. PICK k \in 1 .. Len(ring) : k = head
    BY <1>4
  <1>8. /\ Abs!RingCap(k - 1) = LenSum(consumed) /\ LenSum(consumed) \in Nat
        /\ Abs!RingCap(k) = Abs!RingCap(k - 1) + CapUpToBad(ring[k])
    <2>1. LenSum(consumed) = Abs!RingCap(Len(consumed)) /\ k - 1 = Len(consumed)
      BY <1>1, <1>3, <1>7, ConsumedCap
    <2>2. LenSum(consumed) \in Nat
      BY <1>4, LenSumType
    <2>3. Abs!RingCap(k) = Abs!RingCap(k - 1) + CapUpToBad(ring[k])
      BY <1>4, <1>7, RingCapStep
    <2>. QED
      BY <2>1, <2>2, <2>3
  <1>9. LenSum(consumed) + total = Abs!FrameLen
    BY <1>1, <1>2, <1>4, <1>6, <1>8, FrameLenIs, HdrLenAssumption DEF BytesCopied
  <1>10. total > 0
    BY <1>1, <1>2 DEF NonEmptyLast
  <1>11. Abs!RingCap(k - 1) < Abs!FrameLen /\ Abs!FrameLen <= Abs!RingCap(k)
    BY <1>4, <1>5, <1>7, <1>8, <1>9, <1>10
  <1>12. \A i \in 1 .. k - 1 : ~Abs!HasBad(ring[i])
    BY <1>1, <1>3, <1>7, AbsOps DEF ConsumedGood
  <1> DEFINE F == [i \in 1 .. k |->
                    [head |-> i,
                     len  |-> IF i < k THEN Abs!CapUpToBad(ring[i])
                              ELSE Abs!FrameLen - Abs!RingCap(k - 1)]]
  <1> HIDE DEF F
  <1>13. Append(consumed, [head |-> head, len |-> total]) = F
    <2>0. F = [i \in 1 .. k |-> F[i]]
      BY DEF F
    <2>1. \A i \in 1 .. k - 1 : consumed[i] = F[i]
      <3> SUFFICES ASSUME NEW i \in 1 .. k - 1 PROVE consumed[i] = F[i]
        OBVIOUS
      <3>1. consumed[i] \in Used
        BY <1>3, <1>4, <1>7
      <3>2. consumed[i].head = i /\ consumed[i].len = CapUpToBad(ring[i])
        BY <1>1, <1>3, <1>7 DEF ChainsFilled
      <3>3. F[i] = [head |-> i, len |-> CapUpToBad(ring[i])]
        BY AbsOps DEF F
      <3>. QED
        BY <3>1, <3>2, <3>3 DEF Used
    <2>2. F[k] = [head |-> head, len |-> total]
      BY <1>4, <1>7, <1>8, <1>9 DEF F
    <2>3. \A i \in 1 .. k : Append(consumed, [head |-> head, len |-> total])[i] = F[i]
      BY <1>3, <1>4, <1>7, <2>1, <2>2
    <2>4. Append(consumed, [head |-> head, len |-> total])
            = [i \in 1 .. k |-> Append(consumed, [head |-> head, len |-> total])[i]]
      BY <1>3, <1>4, <1>7
    <2>. QED
      BY <2>0, <2>3, <2>4
  <1>14. used' = used \o F
    <2>1. F \in Seq([head : Nat, len : Int])
      <3>1. \A i \in 1 .. k - 1 : Abs!CapUpToBad(ring[i]) \in Nat
        BY <1>4, <1>7, AbsOps, CapType
      <3>2. Abs!FrameLen - Abs!RingCap(k - 1) \in Int
        BY <1>8, <1>9, <1>4
      <3>. QED
        BY <3>1, <3>2 DEF F
    <2>. QED
      BY <1>4, <1>13, <2>1
  <1>15. /\ avail' = k + 1 /\ numBuffers' = k
    BY <1>3, <1>7
  <1>. QED
    BY <1>4, <1>6, <1>7, <1>11, <1>12, <1>14, <1>15, AbsOps DEF Abs!Deliver, Outcomes, F

LEMMA FinishRef ==
  ASSUME IInv, DInv, XInv, Finish
  PROVE  Abs!AbsNext
  <1>0. /\ pc = "finish"
        /\ UNCHANGED <<src, ring, ready, sIdx, sLeft, avail, head, dIdx, dLeft,
                       total, numMerged, hdr, consumed, devErr>>
    BY DEF Finish
  <1>1. CASE ~hdr /\ pc' = "Dropped" /\ UNCHANGED <<used, numBuffers>>
    <2>1. src = <<0>>
      BY <1>0, <1>1, EmptyFrame
    <2>2. avail = 1
      BY <1>0, <1>1 DEF IInv, Rewindable, Running
    <2>3. Abs!Drop
      BY <1>0, <1>1, <2>1, <2>2 DEF Abs!Drop, Outcomes
    <2>. QED
      BY <2>3 DEF Abs!AbsNext
  <1>2. CASE hdr /\ consumed = << >> /\ numBuffers' = 1
             /\ used' = used \o << [head |-> head, len |-> total] >>
             /\ pc' = "Delivered"
    <2>1. used = << >>
      BY <1>0 DEF IInv, Rewindable, Running
    <2>2. used' = Append(consumed, [head |-> head, len |-> total])
      BY <1>2, <2>1
    <2>3. numBuffers' = Len(consumed) + 1
      BY <1>2
    <2>4. Abs!Deliver
      BY <1>0, <1>2, <2>2, <2>3, DeliverRef
    <2>. QED
      BY <2>4 DEF Abs!AbsNext
  <1>3. CASE hdr /\ consumed # << >> /\ numBuffers' = numMerged
             /\ used' = used \o Append(consumed, [head |-> head, len |-> total])
             /\ pc' = "Delivered"
    <2>1. used = << >> /\ consumed \in Seq(Used)
      BY <1>0 DEF IInv, Rewindable, Running, TransferTypeOK
    <2>2. used' = Append(consumed, [head |-> head, len |-> total])
      BY <1>3, <2>1
    <2>3. numBuffers' = Len(consumed) + 1
      <3>1. MergedCount /\ SourceLeft
        BY <1>0 DEF DInv, Running
      <3>. QED
        BY <1>0, <1>3, <3>1 DEF MergedCount, SourceLeft
    <2>4. Abs!Deliver
      BY <1>0, <1>3, <2>2, <2>3, DeliverRef
    <2>. QED
      BY <2>4 DEF Abs!AbsNext
  <1>. QED
    BY <1>1, <1>2, <1>3 DEF Finish

\* Every step of the loop is a step of AtomicTransfer or leaves what the
\* guest sees unchanged.
LEMMA NextRef ==
  ASSUME IInv, DInv, XInv, [Next]_vars
  PROVE  [Abs!AbsNext]_Abs!absVars
  <1>1. CASE UNCHANGED vars
    BY <1>1 DEF vars, Abs!absVars
  <1>2. CASE SrcAdvance \/ LoopExit
    <2>1. pc \in Running /\ pc' \in Running
          /\ UNCHANGED <<src, ring, ready, used, numBuffers, devErr>>
      BY <1>2 DEF SrcAdvance, LoopExit, Running
    <2>. QED
      BY <2>1, StutterRef
  <1>3. CASE SrcFault
    BY <1>3, SrcFaultRef DEF Abs!AbsNext
  <1>4. CASE AcquireDst
    BY <1>4, AcquireDstRef
  <1>5. CASE DstStep
    BY <1>5, DstStepRef
  <1>6. CASE Finish
    BY <1>6, FinishRef
  <1>. QED
    BY <1>1, <1>2, <1>3, <1>4, <1>5, <1>6 DEF Next

(***************************************************************************)
(* transfer() implements the atomic transfer: every run of the copy loop, *)
(* with the avail cursor hidden while the loop runs, is a run of           *)
(* AtomicTransfer, so each way transfer() ends (Delivered in the fewest    *)
(* chains, Dropped with the ring rewound, the source Bad_descriptor        *)
(* rethrown, device_error() on a bad receive descriptor, the header that  *)
(* does not fit) is one the atomic transfer allows for that frame and     *)
(* ring.  For every header size and ring, provided no transmit chain ends *)
(* in a zero-length descriptor behind other payload (the proviso of       *)
(* DeliveredCompleteHolds).  Proved with the inductive invariant          *)
(* IInv /\ DInv /\ XInv.                                                   *)
(***************************************************************************)
THEOREM ImplementsAtomicHolds == NoTrailingZero => (Spec => ImplementsAtomic)
  <1> SUFFICES ASSUME NoTrailingZero PROVE Spec => ImplementsAtomic
    OBVIOUS
  <1>1. Init => Abs!AbsInit
    BY DEF Init, Abs!AbsInit, Outcomes
  <1>2. IInv /\ DInv /\ XInv /\ [Next]_vars => [Abs!AbsNext]_Abs!absVars
    BY NextRef
  <1>3. Spec => [](IInv /\ DInv /\ XInv)
    BY RInvHolds
  <1>. QED
    BY <1>1, <1>2, <1>3, PTL DEF Spec, ImplementsAtomic, Abs!AbsSpec
=============================================================================
