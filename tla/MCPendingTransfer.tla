------------------------- MODULE MCPendingTransfer -------------------------
EXTENDS PendingTransfer, TLC
=============================================================================
