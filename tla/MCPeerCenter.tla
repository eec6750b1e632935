---------------------------- MODULE MCPeerCenter ----------------------------
(* Instances of PeerCenter for TLC.                                        *)
EXTENDS PeerCenter

CONSTANTS s1, s2, g1, p1, p2, i1, i2

\* Two clients of one group.
Together == [s \in Sockets |-> g1]
=============================================================================
