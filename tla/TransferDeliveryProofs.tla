----------------------- MODULE TransferDeliveryProofs -----------------------
(***************************************************************************)
(* Proof that a frame transfer() delivers is whole (DeliveredComplete),   *)
(* for every header size, transmit chain and receive ring, provided no    *)
(* transmit chain ends in a zero-length descriptor behind other payload.  *)
(* Without that proviso the property is false: see the assert(dst_head)   *)
(* finding (transfer.h:252) and the run transfer_assert.                   *)
(***************************************************************************)
EXTENDS TransferProofs, DescriptorsProofs

\* The payload of a transmit chain does not end in a zero-length buffer
\* behind other payload.
NoTrailingZero ==
  \A raw \in TxChains :
    ValidRequest(raw) =>
      LET s == Payload(raw) IN Len(s) >= 2 => s[Len(s)] # 0

\* The bytes finished or saved in a sequence of (head, len) pairs.
LenSum(c) == SeqSum([i \in 1 .. Len(c) |-> c[i].len])

(***************************************************************************)
(* The strengthening of DeliveredComplete, one conjunct per fact the copy *)
(* loop maintains.                                                         *)
(***************************************************************************)
\* The source buffers passed so far all loaded; the payload has no
\* trailing zero-length buffer.
SrcShape ==
  /\ Len(src) >= 2 => src[Len(src)] # 0
  /\ \A i \in 1 .. sIdx : src[i] # Bad

\* Bytes written to the destination = header + bytes taken from the source.
BytesCopied ==
  LenSum(consumed) + total = (IF hdr THEN HdrLen ELSE 0) + PSum(src, sIdx) - sLeft

\* Saved chains are ring chains 1, 2, ... in order, each filled completely.
ChainsFilled ==
  \A i \in 1 .. Len(consumed) :
    consumed[i].head = i /\ consumed[i].len = CapUpToBad(ring[i])

\* The current chain is the next ring chain; total and dst.left account for
\* exactly the descriptors loaded from it, none of them bad.
CurrentChain ==
  head # 0 =>
    /\ head = Len(consumed) + 1 /\ avail = head + 1
    /\ dIdx \in 1 .. Len(ring[head])
    /\ \A j \in 1 .. dIdx : ring[head][j] # Bad
    /\ total + dLeft = PSum(ring[head], dIdx)

NoCurrentChain == head = 0 => avail = Len(consumed) + 1 /\ total = 0

MergedCount == numMerged = Len(consumed) + (IF head # 0 THEN 1 ELSE 0)

\* A chain is saved only while source bytes remain, so the loop never ends
\* without a current chain once a header is written (the assert(dst_head)).
SourceLeft ==
  /\ pc = "dst" => sLeft > 0 \/ sIdx < Len(src)
  /\ pc \in {"src", "finish"} /\ hdr /\ head = 0 => sLeft > 0 \/ sIdx < Len(src)
  /\ pc = "finish" => sLeft = 0 /\ sIdx = Len(src)

DInv ==
  /\ SrcShape
  /\ DeliveredComplete
  /\ pc \in Running =>
       /\ BytesCopied /\ ChainsFilled /\ CurrentChain /\ NoCurrentChain
       /\ MergedCount /\ SourceLeft

-----------------------------------------------------------------------------
LEMMA LenSumEmpty == LenSum(<< >>) = 0
  <1>1. [i \in 1 .. Len(<< >>) |-> << >>[i].len] = << >>
    OBVIOUS
  <1>. QED
    BY <1>1, SeqSumEmpty DEF LenSum

\* Saving or finishing one more chain adds its byte count.
LEMMA LenSumAppend ==
  ASSUME NEW c \in Seq(Used), NEW e \in Used
  PROVE  /\ LenSum(c) \in Nat
         /\ LenSum(Append(c, e)) = LenSum(c) + e.len
  <1>0. \A i \in 1 .. Len(c) : c[i].len \in Nat
    <2>1. \A i \in 1 .. Len(c) : c[i] \in Used
      OBVIOUS
    <2>. QED
      BY <2>1, Zenon DEF Used
  <1>1. [i \in 1 .. Len(c) |-> c[i].len] \in Seq(Nat)
    BY <1>0
  <1>2. [i \in 1 .. Len(Append(c, e)) |-> Append(c, e)[i].len]
          = Append([i \in 1 .. Len(c) |-> c[i].len], e.len)
    OBVIOUS
  <1>3. e.len \in Nat
    BY DEF Used
  <1>. QED
    BY <1>1, <1>2, <1>3, SeqSumType, SeqSumAppend DEF LenSum

LEMMA LenSumType ==
  ASSUME NEW c \in Seq(Used)
  PROVE  LenSum(c) \in Nat
  <1>1. \A i \in 1 .. Len(c) : c[i] \in Used
    OBVIOUS
  <1>2. \A i \in 1 .. Len(c) : c[i].len \in Nat
    BY <1>1, Zenon DEF Used
  <1>3. [i \in 1 .. Len(c) |-> c[i].len] \in Seq(Nat)
    BY <1>2
  <1>. QED
    BY <1>3, SeqSumType DEF LenSum

LEMMA InitDInv ==
  ASSUME NoTrailingZero, Init
  PROVE  DInv
  <1>1. PICK raw \in TxChains : ValidRequest(raw) /\ src = Payload(raw)
    BY DEF Init
  <1>2. src \in Seq(Desc) /\ Len(src) >= 1 /\ src[1] \in Nat
    BY <1>1, PayloadType, TransferAssumption
  <1>3. sIdx = 1 /\ sLeft = src[1] /\ hdr = FALSE /\ consumed = << >> /\ total = 0
    BY DEF Init
  <1>6. SrcShape
    BY <1>1, <1>2, <1>3, BadAssumption DEF NoTrailingZero, SrcShape
  <1>4. PSum(src, 1) = src[1]
    <2>1. \A i \in 1 .. 0 + 1 : src[i] \in Nat
      BY <1>2
    <2>. QED
      BY <2>1, PSumStep, PSumZero
  <1>5. BytesCopied
    BY <1>2, <1>3, <1>4, LenSumEmpty DEF BytesCopied
  <1>. QED
    BY <1>6, <1>5 DEF Init, DInv, DeliveredComplete, Running, ChainsFilled,
       CurrentChain, NoCurrentChain, MergedCount, SourceLeft

\* The source buffers passed so far are byte lengths.
LEMMA SrcNat ==
  ASSUME IInv, SrcShape
  PROVE  \A i \in 1 .. sIdx : src[i] \in Nat
  BY DEF IInv, TransferTypeOK, SrcShape, Desc

\* ... and the bytes they hold are a natural number.
LEMMA SrcPSumNat ==
  ASSUME IInv, SrcShape
  PROVE  PSum(src, sIdx) \in Nat
  <1>1. src \in Seq(Desc) /\ sIdx \in 0 .. Len(src) /\ \A i \in 1 .. sIdx : src[i] # Bad
    BY DEF IInv, TransferTypeOK, SrcShape
  <1>. QED
    BY <1>1, CapPrefix

\* A step into a terminal pc other than Delivered keeps DInv when it leaves
\* src and sIdx alone.
LEMMA LeaveDInv ==
  ASSUME DInv, pc' \in Outcomes \ {"Delivered"}, UNCHANGED <<src, sIdx>>
  PROVE  DInv'
  BY DEF DInv, SrcShape, DeliveredComplete, Running, Outcomes

\* Advancing the source: the byte balance moves the new buffer from the
\* source's prefix sum into src.left.
LEMMA SrcAdvanceDInv ==
  ASSUME IInv, DInv, SrcAdvance
  PROVE  DInv'
  <1>0. /\ pc = "src" /\ pc' = "dst"
        /\ UNCHANGED <<src, ring, ready, avail, head, dIdx, dLeft, total, numMerged,
                       hdr, consumed, used, numBuffers, devErr>>
    BY DEF SrcAdvance
  <1>1. /\ BytesCopied /\ ChainsFilled /\ CurrentChain /\ NoCurrentChain
        /\ MergedCount /\ SourceLeft /\ SrcShape
    BY <1>0 DEF DInv, Running
  <1>2. (/\ ChainsFilled /\ CurrentChain /\ NoCurrentChain /\ MergedCount
         /\ DeliveredComplete)'
    BY <1>0, <1>1 DEF ChainsFilled, CurrentChain, NoCurrentChain, MergedCount,
                     DeliveredComplete
  <1>3. CASE sLeft > 0 /\ UNCHANGED <<sIdx, sLeft>>
    <2>1. (SrcShape /\ BytesCopied /\ SourceLeft)'
      BY <1>0, <1>1, <1>3 DEF SrcShape, BytesCopied, SourceLeft
    <2>. QED
      BY <1>0, <1>2, <2>1 DEF DInv
  <1>4. CASE /\ sLeft = 0 /\ sIdx < Len(src) /\ src[sIdx + 1] # Bad
             /\ sIdx' = sIdx + 1 /\ sLeft' = src[sIdx + 1]
    <2>1. sIdx \in Nat /\ src \in Seq(Desc) /\ sIdx >= 1
      BY DEF IInv, TransferTypeOK
    <2>2. \A i \in 1 .. sIdx + 1 : src[i] \in Nat
      BY <1>1, <1>4, <2>1, SrcNat DEF Desc
    <2>3. PSum(src, sIdx + 1) = PSum(src, sIdx) + src[sIdx + 1]
      BY <2>1, <2>2, PSumStep
    <2>4. SrcShape'
      BY <1>0, <1>1, <1>4, <2>1 DEF SrcShape
    <2>5. BytesCopied'
      <3>1. PSum(src, sIdx)' = PSum(src, sIdx + 1) /\ LenSum(consumed)' = LenSum(consumed)
        BY <1>0, <1>4
      <3>2. PSum(src, sIdx) \in Nat /\ src[sIdx + 1] \in Nat
        BY <2>1, <2>2, PSumStep
      <3>. QED
        BY <1>0, <1>1, <1>4, <2>3, <3>1, <3>2 DEF BytesCopied
    <2>6. SourceLeft'
      <3>1. sIdx + 1 = Len(src) => src[sIdx + 1] # 0
        BY <1>1, <2>1 DEF SrcShape
      <3>. QED
        BY <1>0, <1>4, <2>1, <2>2, <3>1 DEF SourceLeft
    <2>. QED
      BY <1>0, <1>2, <2>4, <2>5, <2>6 DEF DInv
  <1>. QED
    BY <1>3, <1>4 DEF SrcAdvance

LEMMA LoopExitDInv ==
  ASSUME IInv, DInv, LoopExit
  PROVE  DInv'
  <1>0. /\ pc = "src" /\ pc' = "finish" /\ sLeft = 0 /\ sIdx = Len(src)
        /\ UNCHANGED <<src, ring, ready, sIdx, sLeft, avail, head, dIdx, dLeft,
                       total, numMerged, hdr, consumed, used, numBuffers, devErr>>
    BY DEF LoopExit
  <1>1. /\ BytesCopied /\ ChainsFilled /\ CurrentChain /\ NoCurrentChain
        /\ MergedCount /\ SourceLeft /\ SrcShape
    BY <1>0 DEF DInv, Running
  <1>. QED
    BY <1>0, <1>1 DEF DInv, Running, SrcShape, BytesCopied, ChainsFilled,
       CurrentChain, NoCurrentChain, MergedCount, SourceLeft, DeliveredComplete

LEMMA SrcFaultDInv ==
  ASSUME DInv, SrcFault
  PROVE  DInv'
  BY LeaveDInv DEF SrcFault, Outcomes

(***************************************************************************)
(* Taking a chain: it is ring chain Len(consumed) + 1, the cursor moves    *)
(* past it, its first descriptor holds the header (on the first chain) and *)
(* the rest is dst.left, and num_merged counts it.                         *)
(***************************************************************************)
LEMMA StartChainDInv ==
  ASSUME IInv, DInv, pc = "dst", head = 0, ready, avail <= Len(ring),
         avail' = avail + 1, StartChain(ring[avail]),
         UNCHANGED <<src, ring, ready, sIdx, sLeft, consumed, used, numBuffers>>
  PROVE  DInv'
  <1> DEFINE c == ring[avail]
  <1>0. /\ c[1] # Bad /\ (~hdr => c[1] >= HdrLen)
        /\ head' = avail /\ dIdx' = 1
        /\ dLeft' = IF hdr THEN c[1] ELSE c[1] - HdrLen
        /\ total' = IF hdr THEN total ELSE HdrLen
        /\ hdr' = TRUE /\ numMerged' = numMerged + 1 /\ pc' = "dst"
    BY DEF StartChain
  <1>1. /\ BytesCopied /\ ChainsFilled /\ NoCurrentChain
        /\ MergedCount /\ SourceLeft /\ SrcShape
    BY DEF DInv, Running
  <1>2. /\ avail \in 1 .. Len(ring) /\ c \in Seq(Desc) /\ c # << >>
        /\ consumed \in Seq(Used)
        /\ ~hdr => consumed = << >>
    BY DEF IInv, TransferTypeOK, ChainsNonEmpty, Rewindable, Running
  <1>3. c[1] \in Nat /\ HdrLen \in Nat
    BY <1>0, <1>2, HdrLenAssumption DEF Desc
  <1>4. PSum(c, 1) = c[1]
    <2>1. \A i \in 1 .. 0 + 1 : c[i] \in Nat
      BY <1>3
    <2>2. PSum(c, 0 + 1) = PSum(c, 0) + c[0 + 1]
      BY <2>1, PSumStep
    <2>3. PSum(c, 0) = 0
      BY PSumZero
    <2>. QED
      BY <1>3, <2>2, <2>3
  <1>5. total = 0 /\ avail = Len(consumed) + 1 /\ numMerged = Len(consumed)
    BY <1>1 DEF NoCurrentChain, MergedCount
  <1>6. CurrentChain'
    <2>1. head' = Len(consumed') + 1 /\ avail' = head' + 1 /\ head' # 0
      BY <1>0, <1>5, <1>2
    <2>2. dIdx' \in 1 .. Len(ring'[head'])
      BY <1>0, <1>2
    <2>3. \A j \in 1 .. dIdx' : ring'[head'][j] # Bad
      BY <1>0
    <2>4. total' + dLeft' = PSum(ring'[head'], dIdx')
      BY <1>0, <1>3, <1>4, <1>5
    <2>. QED
      BY <2>1, <2>2, <2>3, <2>4 DEF CurrentChain
  <1>7. BytesCopied'
    <2>1. LenSum(consumed)' = LenSum(consumed) /\ PSum(src, sIdx)' = PSum(src, sIdx)
      OBVIOUS
    <2>2. CASE hdr
      BY <1>0, <1>1, <1>5, <2>1, <2>2 DEF BytesCopied
    <2>3. CASE ~hdr
      <3>1. LenSum(consumed) = 0
        BY <1>2, <2>3, LenSumEmpty
      <3>2. PSum(src, sIdx) - sLeft = 0
        <4>1. PSum(src, sIdx) \in Nat /\ sLeft \in Nat
          BY <1>1, SrcPSumNat DEF IInv, TransferTypeOK
        <4>. QED
          BY <1>1, <1>5, <2>3, <3>1, <4>1 DEF BytesCopied
      <3>. QED
        BY <1>0, <1>3, <2>1, <2>3, <3>1, <3>2 DEF BytesCopied
    <2>. QED
      BY <2>2, <2>3
  <1>8. (/\ SrcShape /\ ChainsFilled /\ NoCurrentChain /\ MergedCount /\ SourceLeft
         /\ DeliveredComplete)'
    BY <1>0, <1>1, <1>2, <1>5 DEF SrcShape, ChainsFilled, NoCurrentChain, MergedCount,
       SourceLeft, DeliveredComplete
  <1>. QED
    BY <1>6, <1>7, <1>8 DEF DInv

LEMMA AcquireDstDInv ==
  ASSUME IInv, DInv, AcquireDst
  PROVE  DInv'
  <1>0. /\ pc = "dst" /\ head = 0
        /\ UNCHANGED <<src, ring, ready, sIdx, sLeft, consumed, used, numBuffers>>
    BY DEF AcquireDst
  <1>1. CASE ready /\ avail <= Len(ring) /\ avail' = avail + 1 /\ StartChain(ring[avail])
    BY <1>0, <1>1, StartChainDInv
  <1>2. CASE ready /\ avail <= Len(ring) /\ avail' = avail + 1
             /\ (StartFault(ring[avail]) \/ HeaderTooSmall(ring[avail]))
    BY <1>0, <1>2, LeaveDInv DEF StartFault, HeaderTooSmall, Outcomes
  <1>3. CASE ~ready /\ pc' = "Dropped"
    BY <1>0, <1>3, LeaveDInv DEF Outcomes
  <1>4. CASE ready /\ avail > Len(ring) /\ pc' = "Dropped"
    BY <1>0, <1>4, LeaveDInv DEF Outcomes
  <1>. QED
    BY <1>1, <1>2, <1>3, <1>4 DEF AcquireDst

\* copy_pkt() moves n bytes from src.left to total: the balance holds and
\* the current chain's account does not change.
LEMMA CopyHereDInv ==
  ASSUME IInv, DInv, pc = "dst", head # 0, dLeft > 0, CopyInto(dIdx, dLeft),
         UNCHANGED <<src, ring, ready, sIdx, avail, numMerged, hdr, used, numBuffers>>
  PROVE  DInv'
  <1> DEFINE n == MinOf(dLeft, sLeft)
  <1>0. /\ dIdx' = dIdx /\ dLeft' = dLeft - n /\ sLeft' = sLeft - n
        /\ total' = total + n /\ UNCHANGED <<head, consumed, devErr>> /\ pc' = "src"
    BY DEF CopyInto
  <1>1. /\ BytesCopied /\ ChainsFilled /\ CurrentChain /\ MergedCount /\ SrcShape
    BY DEF DInv, Running
  <1>2. /\ dLeft \in Nat /\ sLeft \in Nat /\ total \in Nat /\ n \in Nat
        /\ PSum(src, sIdx) \in Nat /\ LenSum(consumed) \in Nat
    <2>1. consumed \in Seq(Used)
      BY DEF IInv, TransferTypeOK
    <2>. QED
      BY <1>1, <2>1, SrcPSumNat, LenSumType DEF IInv, TransferTypeOK, MinOf, n
  <1>3. BytesCopied'
    <2>1. LenSum(consumed)' = LenSum(consumed) /\ PSum(src, sIdx)' = PSum(src, sIdx)
      BY <1>0
    <2>. QED
      BY <1>0, <1>1, <1>2, <2>1, HdrLenAssumption DEF BytesCopied, n
  <1>4. CurrentChain'
    BY <1>0, <1>1, <1>2 DEF CurrentChain, n
  <1>. QED
    BY <1>0, <1>1, <1>3, <1>4 DEF DInv, Running, SrcShape, ChainsFilled,
       NoCurrentChain, MergedCount, SourceLeft, DeliveredComplete

\* Loading the next descriptor of the chain adds its bytes to the chain's
\* account, of which copy_pkt() moves n into total.
LEMMA CopyNextDInv ==
  ASSUME IInv, DInv, pc = "dst", head # 0,
         dLeft = 0, dIdx < Len(Chain), Chain[dIdx + 1] # Bad,
         CopyInto(dIdx + 1, Chain[dIdx + 1]),
         UNCHANGED <<src, ring, ready, sIdx, avail, numMerged, hdr, used, numBuffers>>
  PROVE  DInv'
  <1> DEFINE n == MinOf(Chain[dIdx + 1], sLeft)
  <1>0. /\ dIdx' = dIdx + 1 /\ dLeft' = Chain[dIdx + 1] - n /\ sLeft' = sLeft - n
        /\ total' = total + n /\ UNCHANGED <<head, consumed, devErr>> /\ pc' = "src"
    BY DEF CopyInto
  <1>1. /\ BytesCopied /\ ChainsFilled /\ CurrentChain /\ MergedCount /\ SrcShape
    BY DEF DInv, Running
  <1>2. /\ Chain \in Seq(Desc) /\ dIdx \in 1 .. Len(Chain)
        /\ \A j \in 1 .. dIdx : Chain[j] # Bad
        /\ total + dLeft = PSum(Chain, dIdx)
    BY <1>1 DEF IInv, TransferTypeOK, Chain, CurrentChain
  <1>3. \A j \in 1 .. dIdx + 1 : Chain[j] \in Nat
    BY <1>2 DEF Desc
  <1>4. PSum(Chain, dIdx + 1) = PSum(Chain, dIdx) + Chain[dIdx + 1]
    BY <1>2, <1>3, PSumStep
  <1>5. /\ sLeft \in Nat /\ total \in Nat /\ n \in Nat /\ Chain[dIdx + 1] \in Nat
        /\ PSum(src, sIdx) \in Nat /\ LenSum(consumed) \in Nat
    <2>1. consumed \in Seq(Used)
      BY DEF IInv, TransferTypeOK
    <2>. QED
      BY <1>1, <1>3, <2>1, SrcPSumNat, LenSumType DEF IInv, TransferTypeOK, MinOf, n
  <1>6. BytesCopied'
    <2>1. LenSum(consumed)' = LenSum(consumed) /\ PSum(src, sIdx)' = PSum(src, sIdx)
      BY <1>0
    <2>2. PICK k \in Nat : k = n
      BY <1>5
    <2>3. total' = total + k /\ sLeft' = sLeft - k /\ hdr' = hdr
      BY <1>0, <2>2
    <2>4. /\ LenSum(consumed) + total = (IF hdr THEN HdrLen ELSE 0) + PSum(src, sIdx) - sLeft
          /\ sLeft \in Nat /\ total \in Nat /\ PSum(src, sIdx) \in Nat /\ LenSum(consumed) \in Nat
      BY <1>1, <1>5 DEF BytesCopied
    <2> DEFINE H == IF hdr THEN HdrLen ELSE 0
    <2>5. H' = H /\ H \in Nat
      BY <2>3, HdrLenAssumption
    <2>6. LenSum(consumed)' + total' = LenSum(consumed) + total + k
      BY <2>1, <2>3, <2>4
    <2>7. H' + PSum(src, sIdx)' - sLeft' = H + PSum(src, sIdx) - sLeft + k
      BY <2>1, <2>3, <2>4, <2>5
    <2>. QED
      BY <2>4, <2>6, <2>7 DEF BytesCopied
  <1>7. CurrentChain'
    <2>1. Chain' = Chain
      BY <1>0 DEF Chain
    <2>2. (total + dLeft = PSum(ring[head], dIdx))'
      BY <1>0, <1>2, <1>4, <1>5, <2>1 DEF Chain, MinOf, n
    <2>. QED
      BY <1>0, <1>1, <1>2, <2>1, <2>2 DEF CurrentChain, Chain
  <1>. QED
    BY <1>0, <1>1, <1>6, <1>7 DEF DInv, Running, SrcShape, ChainsFilled,
       NoCurrentChain, MergedCount, SourceLeft, DeliveredComplete

(***************************************************************************)
(* Saving a full chain: it holds all its bytes, its (head, total) pair     *)
(* keeps the balance, and since source bytes remain (SourceLeft) the loop *)
(* will take another chain before it ends.                                 *)
(***************************************************************************)
LEMMA SaveChainDInv ==
  ASSUME IInv, DInv, pc = "dst", head # 0,
         dLeft = 0, dIdx = Len(Chain),
         consumed' = Append(consumed, [head |-> head, len |-> total]),
         total' = 0, head' = 0, pc' = "src",
         UNCHANGED <<dIdx, dLeft, sLeft, devErr>>,
         UNCHANGED <<src, ring, ready, sIdx, avail, numMerged, hdr, used, numBuffers>>
  PROVE  DInv'
  <1> DEFINE e == [head |-> head, len |-> total]
  <1>1. /\ BytesCopied /\ ChainsFilled /\ CurrentChain /\ MergedCount /\ SrcShape
        /\ SourceLeft
    BY DEF DInv, Running
  <1>2. /\ head = Len(consumed) + 1 /\ avail = head + 1
        /\ \A j \in 1 .. dIdx : ring[head][j] # Bad
        /\ total = PSum(ring[head], dIdx)
    BY <1>1 DEF CurrentChain, IInv, TransferTypeOK
  <1>3. /\ consumed \in Seq(Used) /\ e \in Used /\ ring[head] \in Seq(Desc)
        /\ dIdx = Len(ring[head]) /\ hdr
    BY DEF IInv, TransferTypeOK, Used, Chain, Rewindable, Running
  <1>4. total = CapUpToBad(ring[head])
    <2>1. PICK c \in Seq(Desc) : c = ring[head]
      BY <1>3
    <2>2. dIdx \in 0 .. Len(c) /\ dIdx = Len(c) /\ \A j \in 1 .. dIdx : c[j] # Bad
      BY <1>2, <1>3, <2>1
    <2>3. PSum(c, dIdx) = CapUpToBad(c)
      BY <2>2, CapPrefix
    <2>. QED
      BY <1>2, <2>1, <2>3
  <1>5. LenSum(consumed') = LenSum(consumed) + total /\ LenSum(consumed) \in Nat
    BY <1>3, LenSumAppend
  <1>6. BytesCopied'
    <2>1. PSum(src, sIdx)' = PSum(src, sIdx) /\ LenSum(consumed)' = LenSum(consumed')
      OBVIOUS
    <2>2. (IF hdr THEN HdrLen ELSE 0)' = (IF hdr THEN HdrLen ELSE 0)
      OBVIOUS
    <2>3. total \in Nat /\ sLeft \in Nat /\ PSum(src, sIdx) \in Nat /\ HdrLen \in Nat
      BY <1>1, SrcPSumNat, HdrLenAssumption DEF IInv, TransferTypeOK
    <2>. QED
      BY <1>1, <1>5, <2>1, <2>2, <2>3 DEF BytesCopied
  <1>7. ChainsFilled'
    BY <1>1, <1>2, <1>3, <1>4 DEF ChainsFilled
  <1>8. (NoCurrentChain /\ MergedCount /\ SourceLeft /\ CurrentChain)'
    BY <1>1, <1>2, <1>3 DEF NoCurrentChain, MergedCount, SourceLeft, CurrentChain
  <1>. QED
    BY <1>1, <1>6, <1>7, <1>8 DEF DInv, Running, SrcShape, DeliveredComplete

LEMMA DstStepDInv ==
  ASSUME IInv, DInv, DstStep
  PROVE  DInv'
  <1>0. /\ pc = "dst" /\ head # 0
        /\ UNCHANGED <<src, ring, ready, sIdx, avail, numMerged, hdr, used, numBuffers>>
    BY DEF DstStep
  <1>1. CASE dLeft > 0 /\ CopyInto(dIdx, dLeft)
    BY <1>0, <1>1, CopyHereDInv
  <1>2. CASE dLeft = 0 /\ dIdx < Len(Chain) /\ Chain[dIdx + 1] # Bad
             /\ CopyInto(dIdx + 1, Chain[dIdx + 1])
    BY <1>0, <1>2, CopyNextDInv
  <1>3. CASE dLeft = 0 /\ dIdx < Len(Chain) /\ Chain[dIdx + 1] = Bad
             /\ devErr' = TRUE /\ pc' = "Exception"
    BY <1>0, <1>3, LeaveDInv DEF Outcomes
  <1>4. CASE dLeft = 0 /\ dIdx = Len(Chain)
             /\ consumed' = Append(consumed, [head |-> head, len |-> total])
             /\ total' = 0 /\ head' = 0 /\ pc' = "src"
             /\ UNCHANGED <<dIdx, dLeft, sLeft, devErr>>
    BY <1>0, <1>4, SaveChainDInv
  <1>. QED
    BY <1>1, <1>2, <1>3, <1>4 DEF DstStep

(***************************************************************************)
(* The finish of a frame with a header: the loop ended with the source    *)
(* exhausted and a current chain (SourceLeft), so finish() hands back the *)
(* saved chains and the current one, which together hold the header and   *)
(* every payload byte, and num_buffers counts them.                        *)
(***************************************************************************)
LEMMA DeliverDInv ==
  ASSUME IInv, DInv, pc = "finish", hdr,
         used' = Append(consumed, [head |-> head, len |-> total]),
         numBuffers' = Len(consumed) + 1, pc' = "Delivered",
         UNCHANGED <<src, ring, sIdx, sLeft, avail, head, dIdx, dLeft, total,
                     consumed>>
  PROVE  DInv'
  <1> DEFINE e == [head |-> head, len |-> total]
  <1>1. /\ BytesCopied /\ ChainsFilled /\ CurrentChain /\ SrcShape /\ SourceLeft
    BY DEF DInv, Running
  <1>2. sLeft = 0 /\ sIdx = Len(src) /\ head # 0
    BY <1>1 DEF SourceLeft
  <1>3. /\ head = Len(consumed) + 1 /\ avail = head + 1
        /\ dIdx \in 1 .. Len(ring[head])
        /\ \A j \in 1 .. dIdx : ring[head][j] # Bad
        /\ total + dLeft = PSum(ring[head], dIdx)
    BY <1>1, <1>2 DEF CurrentChain
  <1>4. /\ consumed \in Seq(Used) /\ e \in Used /\ ring \in Seq(Seq(Desc))
        /\ head \in 1 .. Len(ring) /\ src \in Seq(Desc)
        /\ total \in Nat /\ dLeft \in Nat
    BY <1>2 DEF IInv, TransferTypeOK, Used
  <1>5. total <= CapUpToBad(ring[head])
    <2>0. PICK c \in Seq(Desc) : c = ring[head]
      BY <1>4
    <2>1. dIdx \in 0 .. Len(c) /\ \A j \in 1 .. dIdx : c[j] # Bad
      BY <1>3, <2>0
    <2>2. PSum(c, dIdx) \in Nat /\ PSum(c, dIdx) <= CapUpToBad(c) /\ CapUpToBad(c) \in Nat
      BY <2>1, CapPrefix, CapType
    <2>. QED
      BY <1>3, <1>4, <2>0, <2>2
  <1>6. PSum(src, sIdx) = CapUpToBad(src)
    <2>1. sIdx \in 0 .. Len(src) /\ \A i \in 1 .. sIdx : src[i] # Bad
      BY <1>1, <1>2, <1>4 DEF SrcShape
    <2>. QED
      BY <1>2, <1>4, <2>1, CapPrefix
  <1>7. LenSum(used') = HdrLen + CapUpToBad(src)
    <2>1. LenSum(used') = LenSum(consumed) + total /\ LenSum(consumed) \in Nat
      BY <1>4, LenSumAppend
    <2>2. PSum(src, sIdx) \in Nat /\ HdrLen \in Nat
      BY <1>1, SrcPSumNat, HdrLenAssumption
    <2>. QED
      BY <1>1, <1>2, <1>6, <2>1, <2>2 DEF BytesCopied
  <1>8. \A i \in 1 .. Len(used') :
          used'[i].head = i /\ used'[i].len <= CapUpToBad(ring'[i])
    <2>1. \A i \in 1 .. Len(consumed) : used'[i] = consumed[i]
      BY <1>4
    <2>2. used'[Len(consumed) + 1] = e /\ Len(used') = Len(consumed) + 1
      BY <1>4
    <2>3. \A i \in 1 .. Len(consumed) : CapUpToBad(ring[i]) \in Nat
      <3> SUFFICES ASSUME NEW i \in 1 .. Len(consumed) PROVE CapUpToBad(ring[i]) \in Nat
        OBVIOUS
      <3>1. i \in 1 .. Len(ring) /\ ring[i] \in Seq(Desc)
        BY <1>3, <1>4
      <3>. QED
        BY <3>1, CapType
    <2>. QED
      BY <1>1, <1>3, <1>5, <2>1, <2>2, <2>3 DEF ChainsFilled
  <1>9. DeliveredComplete'
    <2>1. avail' = Len(used') + 1 /\ numBuffers' = Len(used')
      BY <1>3, <1>4
    <2>2. (SeqSum([i \in 1 .. Len(used) |-> used[i].len]) = HdrLen + CapUpToBad(src))'
      BY <1>7 DEF LenSum
    <2>. QED
      BY <1>8, <2>1, <2>2, Zenon DEF DeliveredComplete
  <1>. QED
    BY <1>1, <1>9 DEF DInv, SrcShape, Running

LEMMA FinishDInv ==
  ASSUME IInv, DInv, Finish
  PROVE  DInv'
  <1>0. /\ pc = "finish"
        /\ UNCHANGED <<src, ring, ready, sIdx, sLeft, avail, head, dIdx, dLeft,
                       total, numMerged, hdr, consumed, devErr>>
    BY DEF Finish
  <1>1. CASE ~hdr /\ pc' = "Dropped"
    BY <1>0, <1>1, LeaveDInv DEF Outcomes
  <1>2. CASE hdr /\ consumed = << >> /\ numBuffers' = 1
             /\ used' = used \o << [head |-> head, len |-> total] >>
             /\ pc' = "Delivered"
    <2>1. used = << >>
      BY <1>0 DEF IInv, Rewindable, Running
    <2>2. used' = Append(consumed, [head |-> head, len |-> total])
      BY <1>2, <2>1
    <2>3. numBuffers' = Len(consumed) + 1
      BY <1>2
    <2>. QED
      BY <1>0, <1>2, <2>2, <2>3, DeliverDInv
  <1>3. CASE hdr /\ consumed # << >> /\ numBuffers' = numMerged
             /\ used' = used \o Append(consumed, [head |-> head, len |-> total])
             /\ pc' = "Delivered"
    <2>1. used = << >> /\ consumed \in Seq(Used)
      BY <1>0 DEF IInv, Rewindable, Running, TransferTypeOK
    <2>2. used' = Append(consumed, [head |-> head, len |-> total])
      BY <1>3, <2>1
    <2>3. numMerged = Len(consumed) + 1
      <3>1. MergedCount /\ SourceLeft
        BY <1>0 DEF DInv, Running
      <3>. QED
        BY <1>0, <1>3, <3>1 DEF MergedCount, SourceLeft
    <2>. QED
      BY <1>0, <1>3, <2>2, <2>3, DeliverDInv
  <1>. QED
    BY <1>1, <1>2, <1>3 DEF Finish

LEMMA NextDInv == IInv /\ DInv /\ [Next]_vars => DInv'
  <1> SUFFICES ASSUME IInv, DInv, [Next]_vars PROVE DInv'
    OBVIOUS
  <1>1. CASE UNCHANGED vars
    BY <1>1 DEF vars, DInv, SrcShape, DeliveredComplete, Running, BytesCopied,
       ChainsFilled, CurrentChain, NoCurrentChain, MergedCount, SourceLeft
  <1>. QED
    BY <1>1, SrcAdvanceDInv, LoopExitDInv, SrcFaultDInv, AcquireDstDInv,
       DstStepDInv, FinishDInv DEF Next

(***************************************************************************)
(* A frame transfer() delivers is whole: finish() hands back exactly the  *)
(* chains the call took, in ring order, each holding no more than its     *)
(* buffers offer; their byte counts add up to the header plus the payload; *)
(* and num_buffers is their number.  For every header size and every ring, *)
(* provided no transmit chain ends in a zero-length descriptor behind      *)
(* other payload (otherwise assert(dst_head) fails: finding transfer.h:252).*)
(* Proved with the inductive invariant IInv /\ DInv.                      *)
(***************************************************************************)
THEOREM DeliveredCompleteHolds == NoTrailingZero => (Spec => []DeliveredComplete)
  <1> SUFFICES ASSUME NoTrailingZero PROVE Spec => []DeliveredComplete
    OBVIOUS
  <1>1. Init => DInv
    BY InitDInv
  <1>2. IInv /\ DInv /\ [Next]_vars => DInv'
    BY NextDInv
  <1>3. DInv => DeliveredComplete
    BY DEF DInv
  <1>. QED
    BY <1>1, <1>2, <1>3, IInvHolds, PTL DEF Spec
=============================================================================
