------------------------------ MODULE RelayRoom ------------------------------
(***************************************************************************)
(* The relay room of easytier-wsrelay: the Durable Object that owns the    *)
(* WebSockets (relay_room.rs) together with the membership part of the     *)
(* route state it keeps in the isolate's global state (route_state.rs,     *)
(* peer_manager.rs) and the handshake's digest registry (handlers.rs).     *)
(*                                                                         *)
(* One action is one event handler.  The runtime's input gates keep other  *)
(* events out while a handler awaits storage, and nothing else a handler   *)
(* awaits suspends, so a handler is one step.                              *)
(*                                                                         *)
(* Abstractions.  Time is two ageing flags (a socket silent for longer     *)
(* than SOCKET_TIMEOUT_MS, a removal older than STALE_P2P_THRESHOLD_MS).   *)
(* A socket stands for its own server_session_id, which is unique.  A      *)
(* route update is the set of peers it lists.  Contents of peer infos,     *)
(* versions, sessions and the connection bitmap are in RouteSync.          *)
(***************************************************************************)
EXTENDS FiniteSets

CONSTANTS
    Sockets,        \* WebSockets the runtime can hand out
    Rooms,          \* Durable Objects living in this isolate
    RoomOf,         \* the room a socket is opened in (the "room" parameter)
    Peers,          \* ids of clients other than 0; Server is one if somebody claims it
    Server,         \* MY_PEER_ID
    Networks,       \* network names
    Digests,        \* network secret digests
    Hellos,         \* Hellos[s]: identities a client may claim on socket s
    OneIdentity,    \* clients keep to one identity per socket
    StorageFaults,  \* set_alarm / get_alarm may fail
    Restarts,       \* the runtime may replace the isolate
    Zero, NoGroup, NoDigest, NoReport, Malformed

Groups == [net: Networks, digest: Digests]
PeerIds == Peers \cup {Zero}
Identities == [peer: PeerIds, group: Groups]

ASSUME RoomAssumption == RoomOf \in [Sockets -> Rooms]
ASSUME HelloAssumption == Hellos \in [Sockets -> SUBSET Identities]
ASSUME FlagAssumption == {OneIdentity, StorageFaults, Restarts} \subseteq BOOLEAN
ASSUME ZeroAssumption == Zero \notin Peers
ASSUME GroupAssumption == NoGroup \notin Groups
ASSUME DigestAssumption == NoDigest \notin Digests
ASSUME ReportAssumption == \A ps \in SUBSET PeerIds : NoReport # ps
ASSUME MalformedAssumption == Malformed \notin Identities

VARIABLES
    conn,      \* conn[s]: "free", "open", or "closing" (closed by us, still listed)
    att,       \* att[s]: peer_id and group_key of the socket's attachment
    stale,     \* stale[s]: now - last_seen_ms exceeds SOCKET_TIMEOUT_MS
    told,      \* told[s]: peers in the last route update the client received
    peers,     \* peers[g]: RouteGroupData.peers
    removed,   \* removed[g][p]: age of the entry in peer_removed_at
    conns,     \* conns[g][p]: RouteGroupData.peer_connections
    registry,  \* network_digest_registry
    armed,     \* armed[r]: the room's cleanup alarm is set (kept in storage)
    booted     \* booted[r]: the Durable Object is constructed in memory

sockVars == <<conn, att, stale, told>>
groupVars == <<peers, removed, conns>>
vars == <<conn, att, stale, told, peers, removed, conns, registry, armed, booted>>

Blank == [peer |-> Zero, group |-> NoGroup]

NoPeers == [g \in Groups |-> {}]
NeverRemoved == [g \in Groups |-> [p \in PeerIds |-> "none"]]
NoConns == [g \in Groups |-> [p \in PeerIds |-> NoReport]]
NoDigests == [n \in Networks |-> NoDigest]

Init ==
    /\ conn = [s \in Sockets |-> "free"]
    /\ att = [s \in Sockets |-> Blank]
    /\ stale = [s \in Sockets |-> FALSE]
    /\ told = [s \in Sockets |-> {}]
    /\ peers = NoPeers
    /\ removed = NeverRemoved
    /\ conns = NoConns
    /\ registry = NoDigests
    /\ armed = [r \in Rooms |-> FALSE]
    /\ booted = [r \in Rooms |-> FALSE]

-----------------------------------------------------------------------------
(* What the handlers share.                                                *)

\* get_websockets: a socket we closed is listed until its close event.
Listed(r) == {s \in Sockets : RoomOf[s] = r /\ conn[s] # "free"}

\* A handler runs on a listed socket of a constructed room.
Runs(s) == conn[s] # "free" /\ booted[RoomOf[s]]

\* The group (network_name:digest) and peer id a socket speaks for.
Speaks(s, g, p) == att[s].group = g /\ att[s].peer = p

\* Sending on a socket that is being closed fails.
CanSend(s) == conn[s] = "open"

\* A handler that runs to its end writes the refreshed last_seen_ms.
Refresh(s) == stale' = [stale EXCEPT ![s] = FALSE]

\* (mutant) all peers of the isolate, whatever their group.
UpdateOfAllGroups(members, g, p) == UNION {members[k] : k \in Groups} \cup {p}

\* The clients among relevant_peers of a route update to p.
RouteUpdate(members, g, p) == members[g] \cup {p}

\* The sockets of room r that broadcast_route_update reaches in group g.
Receivers(status, ids, r, g, exclude) ==
    {t \in Sockets : /\ RoomOf[t] = r
                     /\ status[t] = "open"
                     /\ ids[t].group = g
                     /\ ids[t].peer # exclude}

\* What clients know after a broadcast in the groups gs of room r.
AfterBroadcast(status, ids, members, r, gs, exclude) ==
    [t \in Sockets |->
        IF \E g \in gs : t \in Receivers(status, ids, r, g, exclude)
        THEN RouteUpdate(members, ids[t].group, ids[t].peer)
        ELSE told[t]]

\* schedule_cleanup_alarm: set unless one is pending.
ScheduleCleanupAlarm(r, pending) ==
    \E ok \in IF pending \/ ~StorageFaults THEN {TRUE} ELSE BOOLEAN :
        armed' = [armed EXCEPT ![r] = ok]

-----------------------------------------------------------------------------
(* Life of the Durable Object.                                             *)

\* (mutant) new() trusts the global state to be there.
NothingForgotten(r, g) == {}

\* Identities of the room's listed sockets that the global state lost.
Forgotten(r, g) ==
    {p \in Peers \ peers[g] : \E s \in Listed(r) : Speaks(s, g, p)}

\* RelayRoom::new: re-adds the peers named by the attachments.
Construct(r) ==
    /\ ~booted[r]
    /\ booted' = [booted EXCEPT ![r] = TRUE]
    /\ peers' = [g \in Groups |-> peers[g] \cup Forgotten(r, g)]
    /\ removed' = [g \in Groups |-> [p \in PeerIds |->
                      IF p \in Forgotten(r, g) THEN "none" ELSE removed[g][p]]]
    /\ UNCHANGED <<sockVars, conns, registry, armed>>

\* Hibernation drops the object; the isolate's global state survives.
Hibernate(r) ==
    /\ booted[r]
    /\ booted' = [booted EXCEPT ![r] = FALSE]
    /\ UNCHANGED <<sockVars, groupVars, registry, armed>>

\* The isolate is replaced: every object in it and GLOBAL_STATE are gone,
\* sockets, attachments and alarms are kept by the runtime.
Restart ==
    /\ Restarts
    /\ booted' = [r \in Rooms |-> FALSE]
    /\ peers' = NoPeers
    /\ removed' = NeverRemoved
    /\ conns' = NoConns
    /\ registry' = NoDigests
    /\ UNCHANGED <<sockVars, armed>>

-----------------------------------------------------------------------------
(* Events of one socket.                                                   *)

\* RelayRoom::fetch: accept a WebSocket, write a blank attachment, and make
\* sure that the cleanup alarm is set.
Fetch(s) ==
    /\ conn[s] = "free" /\ booted[RoomOf[s]]
    /\ conn' = [conn EXCEPT ![s] = "open"]
    /\ att' = [att EXCEPT ![s] = Blank]
    /\ Refresh(s)
    /\ told' = [told EXCEPT ![s] = {}]
    /\ ScheduleCleanupAlarm(RoomOf[s], armed[RoomOf[s]])
    /\ UNCHANGED <<groupVars, registry, booted>>

\* (mutant) the digest is registered but not compared.
AnyDigestAccepted(h) == TRUE

\* handle_handshake: the first digest seen for a network name is the one.
DigestAccepted(h) == registry[h.group.net] \in {NoDigest, h.group.digest}

\* Accepted handshake: attachment, add_peer and its stub info, the response,
\* then a broadcast to the whole group.  On a closing socket the response
\* cannot be sent and the handler returns before the broadcast.
HandShakeAccepted(s, h) ==
    /\ Runs(s)
    /\ OneIdentity => att[s] \in {Blank, h}
    /\ DigestAccepted(h)
    /\ registry' = [registry EXCEPT ![h.group.net] = h.group.digest]
    /\ att' = [att EXCEPT ![s] = h]
    /\ Refresh(s)
    /\ peers' = [peers EXCEPT ![h.group] = @ \cup {h.peer}]
    /\ removed' = [removed EXCEPT ![h.group][h.peer] = "none"]
    /\ told' = IF CanSend(s)
               THEN AfterBroadcast(conn, att', peers', RoomOf[s], {h.group}, Zero)
               ELSE told
    /\ UNCHANGED <<conn, conns, armed, booted>>

\* Rejected handshake (undecodable, wrong magic, or another digest than the
\* registered one): the server closes the socket.
HandShakeRejected(s, h) ==
    /\ Runs(s)
    /\ h # Malformed => ~DigestAccepted(h)
    /\ conn' = [conn EXCEPT ![s] = "closing"]
    /\ Refresh(s)
    /\ UNCHANGED <<att, told, groupVars, registry, armed, booted>>

\* Ping, and an RPC that is answered with one packet and changes no
\* membership (PeerCenterRpc): without the answer sent, no refresh.
Ping(s) ==
    /\ Runs(s)
    /\ CanSend(s)
    /\ Refresh(s)
    /\ UNCHANGED <<conn, att, told, groupVars, registry, armed, booted>>

\* RpcResp handled locally, and an RpcReq that yields no action.
RpcResp(s) ==
    /\ Runs(s)
    /\ Refresh(s)
    /\ UNCHANGED <<conn, att, told, groupVars, registry, armed, booted>>

\* forward_message: the packet goes to the first listed socket of the target
\* peer unless that one is in another group; the order of get_websockets is
\* the runtime's.  If the target is being closed the send fails and with it
\* the source's refresh.
ForwardTargets(s, to) == {t \in Listed(RoomOf[s]) : att[t].peer = to}
SameGroup(s, t) == att[s].group = att[t].group \/ NoGroup \in {att[s].group, att[t].group}

ForwardMessage(s, to) ==
    /\ Runs(s)
    /\ \/ ForwardTargets(s, to) = {}
       \/ \E t \in ForwardTargets(s, to) : SameGroup(s, t) => CanSend(t)
    /\ Refresh(s)
    /\ UNCHANGED <<conn, att, told, groupVars, registry, armed, booted>>

\* (mutants) a filter of update_peer_connections_from_conn_info is dropped.
EdgesToAnyone(g, p, report) == report \ {p}
EdgesToSelf(g, p, report) == report \cap peers[g]

\* update_peer_connections_from_conn_info keeps the connected peers of the
\* report, and no entry when none is left; MY_PEER_ID is never an edge.
KnownEdges(g, p, report) == (report \cap peers[g]) \ {p, Server}
Recorded(g, p, report) ==
    CASE report = NoReport -> conns[g][p]
      [] KnownEdges(g, p, report) = {} -> NoReport
      [] OTHER -> KnownEdges(g, p, report)

\* SyncRouteInfo RPC: record the reported connections, answer, push a route
\* update back and, if edges or infos changed (learned), broadcast to the
\* others.  On a closing socket the answer fails and the rest is skipped.
SyncRouteInfo(s, report, learned) ==
    /\ Runs(s)
    /\ att[s] # Blank
    /\ LET g == att[s].group
           p == att[s].peer
           edges == Recorded(g, p, report)
           changed == learned \/ edges # conns[g][p]
           pushed == [told EXCEPT ![s] = RouteUpdate(peers, g, p)]
       IN  /\ conns' = [conns EXCEPT ![g][p] = edges]
           /\ IF CanSend(s)
              THEN /\ told' = IF changed
                              THEN [AfterBroadcast(conn, att, peers, RoomOf[s], {g}, p)
                                       EXCEPT ![s] = pushed[s]]
                              ELSE pushed
                   /\ Refresh(s)
              ELSE UNCHANGED <<told, stale>>
    /\ UNCHANGED <<conn, att, peers, removed, registry, armed, booted>>

\* (mutants) the check is missing, or does not leave out the closing socket.
NeverOtherConnection(s) == FALSE
AnyConnection(s) == \E t \in Listed(RoomOf[s]) : att[t].peer = att[s].peer

\* websocket_close and websocket_error look for another listed socket with
\* the same peer id (the group is not compared) before they remove the peer.
HasOtherConnection(s) ==
    \E t \in Listed(RoomOf[s]) \ {s} : att[t].peer = att[s].peer

RemovesPeer(s) == att[s].peer # Zero /\ ~HasOtherConnection(s)

Depart(s) ==
    /\ Runs(s)
    /\ conn' = [conn EXCEPT ![s] = "free"]
    /\ att' = [att EXCEPT ![s] = Blank]
    /\ Refresh(s)
    /\ IF RemovesPeer(s)
       THEN LET g == att[s].group
                p == att[s].peer
            IN  /\ peers' = [peers EXCEPT ![g] = @ \ {p}]
                /\ removed' = [removed EXCEPT ![g][p] = "recent"]
                /\ told' = [AfterBroadcast(conn', att, peers', RoomOf[s], {g}, p)
                               EXCEPT ![s] = {}]
       ELSE /\ told' = [told EXCEPT ![s] = {}]
            /\ UNCHANGED <<peers, removed>>
    /\ UNCHANGED <<conns, registry, armed, booted>>

WebsocketClose(s) == Depart(s)
WebsocketError(s) == Depart(s)

-----------------------------------------------------------------------------
(* The cleanup alarm and the passing of time.                              *)

\* (mutants) the alarm passes over the sockets that never did their handshake.
AliveIdentified(r) == {s \in Listed(r) : ~stale[s] /\ att[s] # Blank}
DeadIdentified(r) == {s \in Listed(r) : stale[s] /\ att[s] # Blank}

Dead(r) == {s \in Listed(r) : stale[s]}
Alive(r) == Listed(r) \ Dead(r)
AliveGroups(r) == {att[s].group : s \in Alive(r)} \ {NoGroup}

\* cleanup_stale_peer_connections, for the groups gs.
Expired(g) == {p \in PeerIds : removed[g][p] = "old"}
\* (mutant) the entries of the others keep their edges to the expired peers.
OwnEntriesCleaned(gs) ==
    [g \in Groups |-> IF g \notin gs THEN conns[g] ELSE
        [p \in PeerIds |-> IF p \in Expired(g) THEN NoReport ELSE conns[g][p]]]

CleanedConns(gs) ==
    [g \in Groups |-> IF g \notin gs THEN conns[g] ELSE
        [p \in PeerIds |-> IF p \in Expired(g) \/ conns[g][p] = NoReport
                           THEN NoReport ELSE conns[g][p] \ Expired(g)]]
CleanedRemovals(gs) ==
    [g \in Groups |-> [p \in PeerIds |->
        IF g \in gs /\ p \in Expired(g) THEN "none" ELSE removed[g][p]]]

\* alarm: close the silent sockets; while others are alive, re-arm, clean up
\* and refresh their groups.  The alarm that fires is no longer set.
Alarm(r) ==
    /\ booted[r] /\ armed[r]
    /\ conn' = [s \in Sockets |-> IF s \in Dead(r) THEN "closing" ELSE conn[s]]
    /\ IF Alive(r) = {}
       THEN /\ armed' = [armed EXCEPT ![r] = FALSE]
            /\ UNCHANGED <<told, conns, removed>>
       ELSE /\ ScheduleCleanupAlarm(r, FALSE)
            /\ conns' = CleanedConns(AliveGroups(r))
            /\ removed' = CleanedRemovals(AliveGroups(r))
            /\ told' = AfterBroadcast(conn', att, peers, r, AliveGroups(r), Zero)
    /\ UNCHANGED <<att, stale, peers, registry, booted>>

\* SOCKET_TIMEOUT_MS pass without a message on s.
GoStale(s) ==
    /\ conn[s] # "free" /\ ~stale[s]
    /\ stale' = [stale EXCEPT ![s] = TRUE]
    /\ UNCHANGED <<conn, att, told, groupVars, registry, armed, booted>>

\* STALE_P2P_THRESHOLD_MS pass after p was removed from g.
AgeRemoval(g, p) ==
    /\ removed[g][p] = "recent"
    /\ removed' = [removed EXCEPT ![g][p] = "old"]
    /\ UNCHANGED <<sockVars, peers, conns, registry, armed, booted>>

-----------------------------------------------------------------------------
Reports == {NoReport} \cup SUBSET Peers

SocketEvent(s) ==
    \/ Fetch(s)
    \/ \E h \in Hellos[s] : HandShakeAccepted(s, h)
    \/ \E h \in Hellos[s] \cup {Malformed} : HandShakeRejected(s, h)
    \/ Ping(s)
    \/ RpcResp(s)
    \/ \E to \in PeerIds : ForwardMessage(s, to)
    \/ \E report \in Reports, learned \in BOOLEAN : SyncRouteInfo(s, report, learned)
    \/ WebsocketClose(s)
    \/ WebsocketError(s)
    \/ GoStale(s)

Next ==
    \/ \E s \in Sockets : SocketEvent(s)
    \/ \E r \in Rooms : Construct(r) \/ Hibernate(r) \/ Alarm(r)
    \/ \E g \in Groups, p \in PeerIds : AgeRemoval(g, p)
    \/ Restart

Spec == Init /\ [][Next]_vars

\* The runtime delivers a set alarm at least once and constructs an object
\* that has events; it ends the sockets we closed.  Clients owe nothing.
Fairness ==
    /\ \A r \in Rooms : WF_vars(Construct(r)) /\ SF_vars(Alarm(r))
    /\ \A s \in Sockets : SF_vars(conn[s] = "closing" /\ WebsocketClose(s))

FairSpec == Spec /\ Fairness

-----------------------------------------------------------------------------
(* Conditions on the clients under which a property is claimed.            *)

\* A peer id is used in one room only.
PeersPinnedToRoom ==
    \A s, t \in Sockets : \A h \in Hellos[s], k \in Hellos[t] :
        h.peer = k.peer => RoomOf[s] = RoomOf[t]

\* Client ids are not 0, name one client of one group, and a group (the
\* network's name and secret) meets in one room.
Disciplined ==
    /\ OneIdentity
    /\ PeersPinnedToRoom
    /\ \A s, t \in Sockets : \A h \in Hellos[s], k \in Hellos[t] :
           /\ h.peer # Zero
           /\ h.peer = k.peer => h.group = k.group
           /\ h.group = k.group => RoomOf[s] = RoomOf[t]

-----------------------------------------------------------------------------
(* Properties.                                                             *)

\* Type correctness: every variable stays in its domain; an attachment names
\* an identity its client may claim, and nobody is connected to itself.
TypeOK ==
    /\ conn \in [Sockets -> {"free", "open", "closing"}]
    /\ att \in [Sockets -> Identities \cup {Blank}]
    /\ \A s \in Sockets : att[s] \in Hellos[s] \cup {Blank}
    /\ stale \in [Sockets -> BOOLEAN]
    /\ told \in [Sockets -> SUBSET PeerIds]
    /\ peers \in [Groups -> SUBSET PeerIds]
    /\ removed \in [Groups -> [PeerIds -> {"none", "recent", "old"}]]
    /\ conns \in [Groups -> [PeerIds -> {NoReport} \cup SUBSET PeerIds]]
    /\ \A g \in Groups, p \in PeerIds : conns[g][p] # NoReport => p \notin conns[g][p]
    /\ registry \in [Networks -> Digests \cup {NoDigest}]
    /\ armed \in [Rooms -> BOOLEAN]
    /\ booted \in [Rooms -> BOOLEAN]

\* Whatever the order of old close events, new handshakes, hibernation and
\* restarts, a peer with a listed socket is a member of its group whenever a
\* handler can look (websocket_close's race protection and RelayRoom::new).
ConnectedTracked ==
    \A s \in Sockets :
        (Runs(s) /\ att[s].peer # Zero) => att[s].peer \in peers[att[s].group]

\* p has a socket of group g that is listed, or one that can be sent to.
Present(g, p) == \E s \in Sockets : conn[s] # "free" /\ Speaks(s, g, p)
Reachable(g, p) == \E s \in Sockets : conn[s] = "open" /\ Speaks(s, g, p)

\* No ghosts: every member of a group still has a socket, so that the last
\* close event of a peer removes it although earlier ones were skipped.
NoGhost == \A g \in Groups : \A p \in peers[g] : Present(g, p)

\* Every identified client has been told, by the last update it received, of
\* every peer with a working socket in its group and of no peer that is gone,
\* although handlers change the membership and then fail before the broadcast:
\* a peer whose handshake stops there, on a closing socket, is not reachable.
RoutesCurrent ==
    \A s \in Sockets : (conn[s] = "open" /\ att[s] # Blank) =>
        \A p \in PeerIds : /\ Reachable(att[s].group, p) => p \in told[s]
                           /\ p \in told[s] => Present(att[s].group, p)

\* P2P edges are kept across brief reconnections but never lost sight of: a
\* peer that an entry of peer_connections mentions is a member or has a removal
\* time by which cleanup_stale_peer_connections can find it once it runs for
\* the group, and no member has one (a rejoined peer's edges are not cleaned up
\* under its feet).
Mentioned(g) ==
    {p \in PeerIds : \/ conns[g][p] # NoReport
                     \/ \E q \in PeerIds : conns[g][q] # NoReport /\ p \in conns[g][q]}

DepartedTracked ==
    \A g \in Groups, p \in PeerIds :
        /\ (p \in Mentioned(g) /\ p \notin peers[g]) => removed[g][p] # "none"
        /\ p \in peers[g] => removed[g][p] = "none"

\* While a client is connected the room's cleanup alarm is set, through
\* alarms that find everyone dead, hibernation and restarts.
AlarmArmed == \A s \in Sockets : conn[s] = "open" => armed[RoomOf[s]]

\* Two clients of one network that are both connected share its secret.
OneDigestPerNetwork ==
    \A s, t \in Sockets :
        (att[s] # Blank /\ att[t] # Blank /\ att[s].group.net = att[t].group.net)
            => att[s].group.digest = att[t].group.digest

\* A silent connection is heard again or closed: the alarm finds it.
StaleReaped ==
    \A s \in Sockets :
        (conn[s] = "open" /\ stale[s]) ~> (conn[s] # "open" \/ ~stale[s])

\* A peer none of whose connections is heard from any more leaves its group:
\* the alarm closes its sockets and their close events remove it.
Heard(g, p) == \E s \in Sockets : conn[s] # "free" /\ ~stale[s] /\ Speaks(s, g, p)

DeadPeersLeave ==
    \A g \in Groups, p \in Peers :
        (p \in peers[g]) ~> (p \notin peers[g] \/ Heard(g, p))

\* A departed peer's P2P edges do not stay in its group's topology for good:
\* once its removal is old, an alarm drops them, its own and those of others
\* to it, unless it rejoins or nobody of the group is heard in the meantime.
HeardGroup(g) == \E s \in Sockets : conn[s] # "free" /\ ~stale[s] /\ att[s].group = g

DepartedEdgesExpire ==
    \A g \in Groups, p \in Peers :
        (removed[g][p] = "old" /\ p \in Mentioned(g))
            ~> (p \notin Mentioned(g) \/ p \in peers[g] \/ ~HeardGroup(g))
=============================================================================
