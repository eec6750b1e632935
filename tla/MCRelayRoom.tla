---------------------------- MODULE MCRelayRoom ----------------------------
(* Instances of RelayRoom for TLC.                                         *)
EXTENDS RelayRoomPresence, TLC

CONSTANTS s1, s2, s3, p1, p2, n1, n2, d1, d2, r1, r2

TwoSockets == {s1, s2}
ThreeSockets == {s1, s2, s3}
OnePeer == {p1}
TwoPeers == {p1, p2}
OneGroup == [net |-> n1, digest |-> d1]
OtherGroup == [net |-> n2, digest |-> d1]

AllInR1 == [s \in Sockets |-> r1]
S3Apart == [s \in Sockets |-> IF s = s3 THEN r2 ELSE r1]
OneEach == [s \in Sockets |-> IF s = s2 THEN r2 ELSE r1]

\* Every client may connect on every socket, with one group for all.
HellosOneGroup == [s \in Sockets |-> [peer: Peers, group: {OneGroup}]]

\* A peer id may turn up in any group, and 0 may be claimed.
HellosAnything == [s \in Sockets |-> [peer: PeerIds, group: Groups]]
HellosAnyGroup == [s \in Sockets |-> [peer: Peers, group: Groups]]

\* Two rooms with a network of their own.
HellosApart ==
    [s \in Sockets |-> IF RoomOf[s] = r1 THEN {[peer |-> p1, group |-> OneGroup]}
                                         ELSE {[peer |-> p2, group |-> OtherGroup]}]

SocketsAndPeers == Permutations(Sockets) \cup Permutations(Peers)
S1AndS2 == Permutations({s1, s2})
=============================================================================
