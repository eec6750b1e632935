---------------------------- MODULE MCRouteSync ----------------------------
(* Instances of RouteSync for TLC.                                         *)
EXTENDS RouteBits, TLC

CONSTANTS s1, s2, s3, p1, p2, n1, d1, r1, x1, x2

OnePeer == {p1}
TwoSockets == {s1, s2}
ThreeSockets == {s1, s2, s3}
TwoPeers == {p1, p2}
AllInR1 == [s \in Sockets |-> r1]
ClientsAndServer == Peers \cup {Server}
HellosOneGroup == [s \in Sockets |-> [peer: Peers, group: Groups]]

SocketsAndPeers == Permutations(Sockets) \cup Permutations(Peers)
=============================================================================
