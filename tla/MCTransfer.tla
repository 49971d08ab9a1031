---------------------------- MODULE MCTransfer ----------------------------
EXTENDS Transfer, TLC

CONSTANTS bad

MCHdrLen == 2

\* Transmit chains: a header descriptor with 0..2 payload bytes behind the
\* header, then up to three more descriptors (enough for two zero-length
\* buffers before a bad one).
MCTxChains ==
  {<<h>> \o r : h \in MCHdrLen .. MCHdrLen + 2,
                r \in UNION {[1 .. n -> {0, 1, 2, bad}] : n \in 0 .. 3}}

\* The same without a zero-length last descriptor behind other payload
\* (the empty frame of one zero-length payload buffer is kept).
MCTxChainsNoTrailingZero ==
  {c \in MCTxChains : Len(c) >= 2 /\ c[Len(c)] = 0 => Payload(c) = <<0>>}

\* Receive chains of one or two descriptors and rings of up to two chains.
MCChains == UNION {[1 .. n -> {0, 1, 3, bad}] : n \in 1 .. 2}

MCRxRings == UNION {[1 .. n -> MCChains] : n \in 0 .. 2}

\* Rings whose first chain holds the header.
MCRxRingsHdrFits ==
  {r \in MCRxRings : Len(r) >= 1 => r[1][1] # bad /\ r[1][1] >= MCHdrLen}
=============================================================================
