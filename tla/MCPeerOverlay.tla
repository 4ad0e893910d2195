--------------------------- MODULE MCPeerOverlay ---------------------------
EXTENDS PeerOverlay
=============================================================================
