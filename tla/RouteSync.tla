------------------------------ MODULE RouteSync -----------------------------
(***************************************************************************)
(* The route synchronisation of easytier-wsrelay (route_state.rs, its      *)
(* callers in peer_manager.rs and rpc_handler.rs) on top of RelayRoom:     *)
(* each action is the action of RelayRoom with what the same handler does  *)
(* to peer infos, connection versions and sync sessions.                   *)
(*                                                                         *)
(* A peer info is its version.  A connection bitmap is the                 *)
(* version of every listed peer and the set of P2P edges among them, which *)
(* is also what last_conn_bitmap_sig encodes; the server's own row is      *)
(* constant.  Every update is built with force_full, so infos are always   *)
(* sent in full and the per-session version maps have no effect.           *)
(***************************************************************************)
EXTENDS RelayRoom, Integers, Sequences

CONSTANTS
    Sids,          \* session ids of clients
    NoSid, NoMap, NoSocket,
    Tidy,          \* clients handshake once, on an open socket, one socket at a time
    InfoIds,       \* bound: peers that clients report infos about
    InfoVers,      \* bound: info versions they report
    MaxItems,      \* bound: infos in one SyncRouteInfoRequest
    MaxConnVer     \* bound: highest connection version explored

ASSUME TidyAssumption == Tidy \in BOOLEAN
ASSUME BoundAssumption == {MaxItems, MaxConnVer} \subseteq Nat
ASSUME SocketsAssumption == IsFiniteSet(Sockets)
ASSUME AbsentAssumption == NoSid \notin Sids /\ NoSocket \notin Sockets

VARIABLES
    route,   \* route[g]: peer_infos, peer_conn_versions and sessions of group g
    seen     \* seen[s]: the last connection bitmap the client got on s

routeVars == <<route, seen>>
allVars == <<vars, route, seen>>

Ids == PeerIds \cup {Server}

\* No entry in peer_infos: older than any version, also than 0.
NoInfo == -1

ASSUME InfosAssumption == InfoIds \subseteq Ids /\ InfoVers \subseteq Nat

\* A connection bitmap lists some clients and the server.
IsBitmap(map) ==
    \E listed \in SUBSET PeerIds :
        map \in [vers: [listed \cup {Server} -> Nat \ {0}], edges: SUBSET SUBSET PeerIds]

ASSUME MapAssumption == ~IsBitmap(NoMap)

NoSession == [dst |-> NoSid, my |-> NoSocket, sig |-> NoMap]
EmptyRoute ==
    [infos |-> [q \in Ids |-> NoInfo],
     ver   |-> [q \in Ids |-> 1],
     sess  |-> [p \in PeerIds |-> NoSession]]

RouteInit ==
    /\ Init
    /\ route = [g \in Groups |-> EmptyRoute]
    /\ seen = [s \in Sockets |-> NoMap]

-----------------------------------------------------------------------------
(* Operations on the route data rt of one group with the given members.    *)

\* (mutants) only the server's version is bumped, or all but the server's.
BumpServer(rt, members) == [rt EXCEPT !.ver[Server] = @ + 1]
BumpMembers(rt, members) ==
    [rt EXCEPT !.ver = [q \in Ids |-> IF q \in members THEN @[q] + 1 ELSE @[q]]]

\* bump_all_conn_versions: members and peers with an info, and the server
\* once more; a missing version counts as 1.
BumpAll(rt, members) ==
    LET known == members \cup {q \in Ids : rt.infos[q] # NoInfo}
        one(cond) == IF cond THEN 1 ELSE 0
    IN  [rt EXCEPT !.ver =
            [q \in Ids |-> rt.ver[q] + one(q \in known) + one(q = Server)]]

AddPeer(rt, members, p) ==
    IF p \in members THEN rt ELSE BumpAll(rt, members \cup {p})

\* (mutants) a missing version is read as 0; the session outlives its peer.
RemoveVersion(rt, members, p) ==
    [BumpAll([rt EXCEPT !.infos[p] = NoInfo, !.sess[p] = NoSession], members \ {p})
        EXCEPT !.ver[p] = 0]
RemoveButSession(rt, members, p) ==
    BumpAll([rt EXCEPT !.infos[p] = NoInfo, !.ver[p] = 1], members \ {p})

RemovePeer(rt, members, p) ==
    LET cleared == [rt EXCEPT !.infos[p] = NoInfo, !.ver[p] = 1, !.sess[p] = NoSession]
    IN  IF p \in members THEN BumpAll(cleared, members \ {p}) ELSE cleared

\* update_peer_info: only a new or newer info is stored; a new one bumps.
IsNews(rt, item) == item.ver > rt.infos[item.id]
UpdatePeerInfo(rt, members, item) ==
    LET stored == [rt EXCEPT !.infos[item.id] = item.ver]
    IN  CASE ~IsNews(rt, item) -> rt
          [] rt.infos[item.id] = NoInfo -> BumpAll(stored, members)
          [] OTHER -> stored

\* What a loop makes of start: Do(x, i) is its i-th round.
Steps(Do(_, _), start, n) ==
    LET after[i \in 0..n] == IF i = 0 THEN start ELSE Do(after[i - 1], i)
    IN  after

\* process_incoming_peer_infos, item after item.
Processing(rt, members, items) ==
    Steps(LAMBDA x, i : UpdatePeerInfo(x, members, items[i]), rt, Len(items))

ProcessInfos(rt, members, items) == Processing(rt, members, items)[Len(items)]

\* Its result; news about the server itself is not reported.
HasNews(rt, members, items) ==
    \E i \in 1..Len(items) :
        items[i].id # Server /\ IsNews(Processing(rt, members, items)[i - 1], items[i])

\* handle_sync_route_info_request stores the infos of connected peers as they
\* come.  None is new here, process_incoming_peer_infos has stored it.
StoreInfo(rt, members, from, item) ==
    IF item.id \in members \cup {from} THEN [rt EXCEPT !.infos[item.id] = item.ver] ELSE rt

Storing(rt, members, from, items) ==
    Steps(LAMBDA x, i : StoreInfo(x, members, from, items[i]), rt, Len(items))

StoreInfos(rt, members, from, items) == Storing(rt, members, from, items)[Len(items)]

\* (mutant) a new session of the client changes nothing but its id.
AckOnly(rt, p, sid) == [rt EXCEPT !.sess[p].dst = sid]

\* on_route_session_ack, and the same in handle_sync_route_info_request: a
\* new session of the client forgets what was sent in the old one.
SessionAck(rt, p, sid) ==
    [rt EXCEPT !.sess[p] =
        [dst |-> sid, my |-> @.my, sig |-> IF @.dst = sid THEN @.sig ELSE NoMap]]

\* (mutant) the bitmap lists the peers with an info, members or not.
ConnBitmapOfInfos(rt, members, cs, p) ==
    LET listed == {q \in PeerIds : rt.infos[q] # NoInfo} \cup {p}
    IN  [vers |-> [q \in listed \cup {Server} |-> rt.ver[q]], edges |-> {}]

\* build_conn_bitmap for target p, from the recorded edges cs.
ConnBitmap(rt, members, cs, p) ==
    LET listed == members \cup {p}
        ends == listed \ {Server}
        linked(a, b) == a # b /\ cs[a] # NoReport /\ b \in cs[a]
    IN  [vers |-> [q \in listed \cup {Server} |-> rt.ver[q]],
         edges |-> {{e[1], e[2]} : e \in {e \in ends \X ends : linked(e[1], e[2])}}]

\* (mutant) a broadcast uses the session id of one socket for everybody.
BuildWithOneId(rt, members, cs, targets, sockOf) ==
    [rt EXCEPT !.sess = [p \in PeerIds |->
        IF p \in targets
        THEN [dst |-> @[p].dst, my |-> sockOf[CHOOSE q \in targets : TRUE],
              sig |-> ConnBitmap(rt, members, cs, p)]
        ELSE @[p]]]

\* build_sync_route_info_request to each peer of targets: infos are filled
\* with stubs, the session takes the socket's id and the bitmap's signature.
Build(rt, members, cs, targets, sockOf) ==
    [rt EXCEPT
        !.infos = [q \in Ids |->
                      IF /\ targets # {} /\ @[q] = NoInfo
                         /\ q \in (members \cup targets) \ {Server}
                      THEN 1 ELSE @[q]],
        !.sess = [p \in PeerIds |->
                     IF p \in targets
                     THEN [dst |-> @[p].dst, my |-> sockOf[p], sig |-> ConnBitmap(rt, members, cs, p)]
                     ELSE @[p]]]

\* (mutant) the signature leaves the versions out.
SendsNewShape(rt, members, cs, p) ==
    LET bitmap == ConnBitmap(rt, members, cs, p)
        sig == rt.sess[p].sig
    IN  sig = NoMap \/ DOMAIN sig.vers # DOMAIN bitmap.vers \/ sig.edges # bitmap.edges

\* An unchanged bitmap is left out of the update to p.
SendsBitmap(rt, members, cs, p) == rt.sess[p].sig # ConnBitmap(rt, members, cs, p)

-----------------------------------------------------------------------------
(* broadcast_route_update: each listed socket of the group gets an update  *)
(* of its own, but the session is the peer's: of two sockets of one peer   *)
(* the first in get_websockets order gets a changed bitmap, the last one   *)
(* leaves its id in the session.                                           *)

Targets(status, ids, r, g, exclude) ==
    {t \in Sockets : /\ RoomOf[t] = r /\ status[t] # "free"
                     /\ ids[t].group = g /\ ids[t].peer # exclude}

Orders(ids, targets) ==
    LET ps == {ids[t].peer : t \in targets}
        pick == {f \in [ps -> targets] : \A p \in ps : ids[f[p]].peer = p}
    IN  {o \in [first: pick, last: pick] :
            \A p \in ps : o.first[p] = o.last[p]
                            => \A t \in targets : ids[t].peer = p => t = o.first[p]}

\* Bitmaps that arrive in the broadcast o of group data rt, over what views
\* says the clients had.
Delivered(views, status, rt, members, cs, o) ==
    [t \in Sockets |->
        IF \E p \in DOMAIN o.first :
               t = o.first[p] /\ status[t] = "open" /\ SendsBitmap(rt, members, cs, p)
        THEN ConnBitmap(rt, members, cs, CHOOSE p \in DOMAIN o.first : t = o.first[p])
        ELSE views[t]]

\* Group g, with data rt and recorded edges cs, is broadcast in room r.
BroadcastRoute(g, rt, views, cs, exclude, r) ==
    \E o \in Orders(att', Targets(conn', att', r, g, exclude)) :
        /\ route' = [route EXCEPT ![g] = Build(rt, peers'[g], cs, DOMAIN o.first, o.last)]
        /\ seen' = Delivered(views, conn', rt, peers'[g], cs, o)

-----------------------------------------------------------------------------
(* The handlers.                                                           *)

\* The orders in which get_websockets may list the sockets of a room.
Listings(r) ==
    {order \in [1..Cardinality(Listed(r)) -> Listed(r)] :
        \A s \in Listed(r) : \E i \in DOMAIN order : order[i] = s}

\* RelayRoom::new in group g, socket after socket: a socket's peer is added
\* unless it was there before or an earlier socket has brought it.
Named(g, order, i) ==
    {att[order[j]].peer : j \in {k \in 1..i : att[order[k]].group = g}} \ {Zero}

Readd(x, g, order, i) ==
    IF att[order[i]].group = g /\ att[order[i]].peer # Zero
    THEN AddPeer(x, peers[g] \cup Named(g, order, i - 1), att[order[i]].peer)
    ELSE x

Readding(g, order, n) == Steps(LAMBDA x, i : Readd(x, g, order, i), route[g], n)

RouteConstruct(r) ==
    /\ Construct(r)
    /\ \E order \in Listings(r) :
          LET n == Cardinality(Listed(r))
          IN  route' = [g \in Groups |-> Readding(g, order, n)[n]]
    /\ UNCHANGED seen

RouteRestart ==
    /\ Restart
    /\ route' = [g \in Groups |-> EmptyRoute]
    /\ UNCHANGED seen

\* A tidy client handshakes once per socket and only after its previous
\* socket is gone.
TidyHello(s, h) ==
    /\ att[s] = Blank /\ conn[s] = "open"
    /\ \A t \in Sockets : att[t].peer # h.peer

\* add_peer, the version-1 stub info, then an update that is built for the
\* new peer and dropped, and the broadcast.
RouteHandShake(s, h) ==
    /\ Tidy => TidyHello(s, h)
    /\ HandShakeAccepted(s, h)
    /\ LET g == h.group
           p == h.peer
           added == AddPeer(route[g], peers[g], p)
           known == UpdatePeerInfo(added, peers'[g], [id |-> p, ver |-> 1])
           built == Build(known, peers'[g], conns[g], {p}, [q \in {p} |-> s])
       IN  IF CanSend(s)
           THEN BroadcastRoute(g, built, seen, conns[g], Zero, RoomOf[s])
           ELSE /\ route' = [route EXCEPT ![g] = known]
                /\ UNCHANGED seen

Items == [id: InfoIds, ver: InfoVers]
Requests == UNION {[1..n -> Items] : n \in 0..MaxItems}

\* handle_sync_route_info and the actions it returns, in their order: session,
\* infos, reported edges, infos again, the answer, the push to the sender and
\* the broadcast to the others.
RouteSyncInfo(s, report, items, sid) ==
    LET g == att[s].group
        p == att[s].peer
        acked == SessionAck(route[g], p, sid)
        news == HasNews(acked, peers[g], items)
        processed == ProcessInfos(acked, peers[g], items)
        relinked == IF conns'[g][p] # conns[g][p]
                    THEN BumpAll(processed, peers[g]) ELSE processed
        stored == StoreInfos(relinked, peers[g], p, items)
        pushed == Build(stored, peers[g], conns'[g], {p}, [q \in {p} |-> s])
        bitmap == ConnBitmap(stored, peers[g], conns'[g], p)
        views == IF SendsBitmap(stored, peers[g], conns'[g], p)
                 THEN [seen EXCEPT ![s] = bitmap] ELSE seen
    IN  /\ Runs(s) /\ att[s] # Blank
        /\ SyncRouteInfo(s, report, news)
        /\ IF ~CanSend(s)
           THEN route' = [route EXCEPT ![g] = stored] /\ UNCHANGED seen
           ELSE IF news \/ conns'[g][p] # conns[g][p]
           THEN BroadcastRoute(g, pushed, views, conns'[g], p, RoomOf[s])
           ELSE route' = [route EXCEPT ![g] = pushed] /\ seen' = views

\* RpcResp: the client's answer to a push acknowledges its session.  The
\* session is that of the peer the packet header names.
RouteResp(s, from, sid) ==
    /\ RpcResp(s)
    /\ att[s] # Blank
    /\ Tidy => from = att[s].peer
    /\ route' = [route EXCEPT ![att[s].group] = SessionAck(@, from, sid)]
    /\ UNCHANGED seen

RouteDepart(s) ==
    /\ Depart(s)
    /\ LET g == att[s].group
           p == att[s].peer
       IN  IF RemovesPeer(s)
           THEN BroadcastRoute(g, RemovePeer(route[g], peers[g], p),
                               [seen EXCEPT ![s] = NoMap], conns[g], p, RoomOf[s])
           ELSE UNCHANGED route /\ seen' = [seen EXCEPT ![s] = NoMap]

\* The periodic refresh.  The groups are disjoint, so their order is not seen.
RouteAlarm(r) ==
    /\ Alarm(r)
    /\ \E order \in [AliveGroups(r) -> UNION {Orders(att, Targets(conn', att, r, g, Zero)) : g \in AliveGroups(r)}] :
          LET gs == {g \in AliveGroups(r) : Alive(r) # {}}
              hit(t) == att[t].group \in gs /\ RoomOf[t] = r
              data(g) == Delivered(seen, conn', route[g], peers[g], conns'[g], order[g])
          IN  /\ \A g \in gs : order[g] \in Orders(att, Targets(conn', att, r, g, Zero))
              /\ route' = [g \in Groups |->
                    IF g \in gs
                    THEN Build(route[g], peers[g], conns'[g], DOMAIN order[g].first, order[g].last)
                    ELSE route[g]]
              /\ seen' = [t \in Sockets |-> IF hit(t) THEN data(att[t].group)[t] ELSE seen[t]]

\* Handlers that leave the route data alone.
RouteQuiet(s) ==
    /\ \/ Fetch(s) \/ Ping(s) \/ RpcResp(s) \/ GoStale(s)
       \/ \E h \in Hellos[s] \cup {Malformed} : HandShakeRejected(s, h)
       \/ \E to \in PeerIds : ForwardMessage(s, to)
    /\ UNCHANGED routeVars

WithinBounds == \A g \in Groups, q \in Ids : route[g].ver[q] <= MaxConnVer

RouteSocketEvent(s) ==
    \/ \E h \in Hellos[s] : RouteHandShake(s, h)
    \/ \E report \in Reports, items \in Requests, sid \in Sids :
           RouteSyncInfo(s, report, items, sid)
    \/ \E from \in Peers, sid \in Sids : RouteResp(s, from, sid)
    \/ RouteDepart(s)
    \/ RouteQuiet(s)

RouteNext ==
    /\ \/ \E s \in Sockets : RouteSocketEvent(s)
       \/ \E r \in Rooms : RouteConstruct(r) \/ RouteAlarm(r)
       \/ \E r \in Rooms : Hibernate(r) /\ UNCHANGED routeVars
       \/ \E g \in Groups, p \in PeerIds : AgeRemoval(g, p) /\ UNCHANGED routeVars
       \/ RouteRestart
    /\ WithinBounds'

RouteSpec == RouteInit /\ [][RouteNext]_allVars

-----------------------------------------------------------------------------
(* Properties.                                                             *)

\* The bitmaps clients hold or the server keeps as signatures.
InUse == {seen[s] : s \in Sockets} \cup {route[g].sess[p].sig : g \in Groups, p \in PeerIds}

\* Type correctness of the route data: every bitmap, sent or kept as a
\* signature, lists the server, and connection versions count from 1.
RouteTypeOK ==
    LET maps == {NoMap} \cup {map \in InUse : IsBitmap(map)}
        sessions == [dst: Sids \cup {NoSid}, my: Sockets \cup {NoSocket}, sig: maps]
    IN  /\ route \in [Groups -> [infos: [Ids -> Nat \cup {NoInfo}], ver: [Ids -> Nat \ {0}],
                                 sess: [PeerIds -> sessions]]]
        /\ seen \in [Sockets -> maps]

\* The session and the client of an identified, open socket.
SessionOf(s) == route[att[s].group].sess[att[s].peer]
InTouch(s) == conn[s] = "open" /\ att[s] # Blank

\* The signature kept for a client that has acknowledged a session is that of
\* the bitmap it last received: "unchanged, leave it out" is right.
Synced(s) == InTouch(s) /\ SessionOf(s).dst # NoSid /\ SessionOf(s).sig # NoMap

DedupSound == \A s \in Sockets : Synced(s) => seen[s] = SessionOf(s).sig

\* No client claims the server's own id: nothing in the code keeps one from it.
ServerUnclaimed == Server \notin PeerIds

\* Provided ServerUnclaimed, and whatever else the clients do: while the server's
\* own version is that of the signature kept of the last bitmap, nobody has
\* joined or left since.  (The departure of a client that claims the server's id
\* deletes that version, which then starts over and recurs.)
SignatureTracksMembers ==
    \A g \in Groups, p \in PeerIds :
        LET sig == route[g].sess[p].sig
        IN  (sig # NoMap /\ sig.vers[Server] = route[g].ver[Server])
                => DOMAIN sig.vers = peers[g] \cup {p, Server}

\* The bitmap a synchronised client holds lists exactly the peers of the last
\* route update it received: every change of the members changes a version,
\* so that the bitmap of the new members is never taken for an old one.
TopologyMatchesPeers ==
    \A s \in Sockets : Synced(s) => DOMAIN seen[s].vers = told[s] \cup {Server}

\* While the isolate lives, the server answers a sync on a socket with the
\* session id of its pushes to that socket, not with one that an update for
\* somebody else or an earlier socket left in the session.
SessionIdAgrees == \A s \in Sockets : InTouch(s) => SessionOf(s).my = s

\* The periodic refresh brings every synchronised client up to date, also with
\* what no broadcast followed because an answer to somebody's sync failed.
RefreshRepairs ==
    [][\A r \in Rooms : RouteAlarm(r) =>
          \A s \in Sockets : (RoomOf[s] = r /\ Synced(s)') =>
              seen'[s] = ConnBitmap(route'[att[s].group], peers'[att[s].group],
                                    conns'[att[s].group], att[s].peer)]_allVars

\* A client takes a peer's row of the bitmap only if the peer's version is
\* new: from one bitmap it receives to the next, a row with the same version
\* is the same row.
Row(map, p) == {e \in map.edges : p \in e}

RowChangeBumpsVersion ==
    [][\A s \in Sockets :
         (seen[s] # NoMap /\ seen'[s] # NoMap /\ att'[s] = att[s]) =>
            \A p \in DOMAIN seen[s].vers \cap DOMAIN seen'[s].vers :
                seen'[s].vers[p] = seen[s].vers[p] => Row(seen'[s], p) = Row(seen[s], p)]_allVars

\* A stored info is only replaced by a newer one while its peer is a member.
InfosNeverRegress ==
    [][\A g \in Groups : \A p \in peers[g] \cap peers'[g] :
          route'[g].infos[p] >= route[g].infos[p]]_allVars

\* A peer that has joined has received the connection bitmap.
JoinerGetsBitmap == \A s \in Sockets : InTouch(s) => seen[s] # NoMap
=============================================================================
