---------------------------- MODULE Descriptors ----------------------------
(***************************************************************************)
(* Descriptor chains as the transfer engine sees them.  A chain is a       *)
(* sequence of descriptors; a descriptor is the byte length of its buffer, *)
(* or Bad when loading it raises L4virtio::Svr::Bad_descriptor (an address *)
(* outside the guest's memory, a loop in the chain, ...).  Byte contents   *)
(* are not modelled: the mangle of this transfer copies verbatim, and the  *)
(* properties are about where the bytes go and how many.                   *)
(***************************************************************************)
EXTENDS Naturals, Sequences

CONSTANTS
  Bad,     \* a descriptor whose load throws Bad_descriptor
  HdrLen   \* sizeof(Virtio_net::Hdr)

ASSUME HdrLenAssumption == HdrLen \in Nat \ {0}

\* A descriptor that fails to load is not a byte length.
ASSUME BadAssumption == Bad \notin Nat

Desc == Nat \cup {Bad}

\* The sum of a sequence of numbers, as a recursive function.
SeqSum(s) ==
  LET sum[i \in 0 .. Len(s)] == IF i = 0 THEN 0 ELSE sum[i - 1] + s[i]
  IN  sum[Len(s)]

HasBad(c) == \E i \in 1 .. Len(c) : c[i] = Bad

\* The bytes a chain offers before its first bad descriptor.
CapUpToBad(c) ==
  LET good(i) == \A j \in 1 .. i : c[j] # Bad
  IN  SeqSum([i \in 1 .. Len(c) |-> IF good(i) THEN c[i] ELSE 0])

(***************************************************************************)
(* The Virtio_net_request constructor on a transmit chain raw: start() on  *)
(* the head, skip() of the virtio-net header, which must lie in the first *)
(* descriptor, and, when the header exhausts it, next() to the first      *)
(* payload buffer.  A request that fails these tests is not valid and is  *)
(* never transferred.  The payload is what first_buffer() and the source   *)
(* request processor hand to transfer().                                   *)
(***************************************************************************)
ValidRequest(raw) ==
  /\ Len(raw) >= 1
  /\ raw[1] # Bad
  /\ raw[1] >= HdrLen
  /\ raw[1] = HdrLen => Len(raw) >= 2 /\ raw[2] # Bad

Payload(raw) ==
  IF raw[1] > HdrLen THEN <<raw[1] - HdrLen>> \o Tail(raw) ELSE Tail(raw)
=============================================================================
