----------------------------- MODULE MCPeerPlane -----------------------------
EXTENDS PeerPlane

\* Two subscribers at one address, and another address.
MCPeers     == {<<"x", 1>>, <<"x", 2>>}
MCAddresses == {"x", "y"}
MCBits      == <<"aed", "play">>
===============================================================================
