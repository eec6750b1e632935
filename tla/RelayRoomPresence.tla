-------------------------- MODULE RelayRoomPresence --------------------------
(* RelayRoom implements Presence.                                          *)
EXTENDS RelayRoom

\* A room that is not constructed cannot look at the global state, and its
\* constructor repairs what a restart lost: until then the members of a group
\* are the peers its listed sockets speak for.
Settled(g) == \A s \in Sockets : att[s].group = g => booted[RoomOf[s]]
Members(g) == IF Settled(g) THEN peers[g] ELSE {p \in PeerIds : Present(g, p)}

Service == INSTANCE Presence WITH
    Connections <- Sockets,
    Nobody <- Blank,
    who <- att,
    members <- [g \in Groups |-> Members(g)]

\* The room keeps the promise of Presence: a member joins with its first
\* handshake and leaves with its last socket, in every order of close events,
\* handshakes, alarms, hibernation and restarts (websocket_close, new).
PresenceKept == Service!Spec
=============================================================================
