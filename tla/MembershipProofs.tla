-------------------------- MODULE MembershipProofs -------------------------
(***************************************************************************)
(* What disciplined clients are promised: members are exactly the peers    *)
(* with a socket, every client knows them, and P2P edges do not leak.      *)
(***************************************************************************)
EXTENDS RelayRoomProofs

LEMMA DisciplinePins == Disciplined => PeersPinnedToRoom /\ OneIdentity
BY DEF Disciplined

LEMMA DisciplinedSpeakers ==
    ASSUME Disciplined, TypeOK, NEW s \in Sockets, att[s] # Blank
    PROVE  /\ att[s].peer \in Peers
           /\ \A t \in Sockets : (att[t] # Blank /\ att[t].peer = att[s].peer) =>
                  att[t].group = att[s].group /\ RoomOf[t] = RoomOf[s]
           /\ \A t \in Sockets : (att[t] # Blank /\ att[t].group = att[s].group) => RoomOf[t] = RoomOf[s]
<1>1. att[s] \in Hellos[s] /\ att[s].peer \in PeerIds
  BY SpeakerType
<1>2. att[s].peer # Zero
  BY <1>1 DEF Disciplined
<1>3. \A t \in Sockets : att[t] # Blank => att[t] \in Hellos[t]
  BY SpeakerType
<1> QED BY <1>1, <1>2, <1>3 DEF Disciplined, PeersPinnedToRoom, PeerIds

\* A socket whose group is one of Groups has done its handshake.
LEMMA GroupMeansIdentified ==
    ASSUME NEW g \in Groups, NEW s, att[s].group = g
    PROVE  att[s] # Blank
BY GroupAssumption DEF Blank

-----------------------------------------------------------------------------
(* No ghosts.                                                              *)

LEMMA NoGhostStep ==
    ASSUME Disciplined, TypeOK, TypeOK', NoGhost, [Next]_vars
    PROVE  NoGhost'
<1> SUFFICES ASSUME NEW g \in Groups, NEW p \in peers'[g] PROVE Present(g, p)'
  BY DEF NoGhost, Present, Speaks
<1>0. ASSUME p \in peers[g] PROVE Present(g, p)
  BY <1>0 DEF NoGhost
<1> USE DEF Present, Speaks
<1>1. CASE Quiet
  BY <1>0, <1>1 DEF Quiet
<1>2. ASSUME NEW r \in Rooms, Construct(r) PROVE Present(g, p)'
  <2>1. p \in peers[g] \/ p \in Forgotten(r, g)
    BY <1>2 DEF Construct
  <2>2. Present(g, p)
    BY <1>0, <2>1 DEF Forgotten, Listed
  <2> QED BY <1>2, <2>2 DEF Construct, sockVars
<1>3. CASE Restart
  BY <1>3 DEF Restart, NoPeers
<1>4. ASSUME NEW s \in Sockets, Fetch(s) PROVE Present(g, p)'
  BY <1>0, <1>4 DEF Fetch, groupVars, TypeOK
<1>5. ASSUME NEW s \in Sockets, NEW h \in Hellos[s], HandShakeAccepted(s, h) PROVE Present(g, p)'
  <2>1. att' = [att EXCEPT ![s] = h] /\ conn' = conn /\ conn[s] # "free" /\ att[s] \in {Blank, h}
    BY <1>5, DisciplinePins DEF HandShakeAccepted, Runs
  <2>2. (g = h.group /\ p = h.peer) \/ p \in peers[g]
    BY <1>5, HelloType DEF HandShakeAccepted, TypeOK
  <2>3. CASE g = h.group /\ p = h.peer
    BY <2>1, <2>3 DEF TypeOK
  <2>4. CASE p \in peers[g]
    <3>1. PICK t \in Sockets : conn[t] # "free" /\ att[t].group = g /\ att[t].peer = p
      BY <1>0, <2>4
    <3>2. att'[t] = att[t]
      BY <2>1, <3>1, GroupMeansIdentified DEF TypeOK
    <3> QED BY <2>1, <3>1, <3>2
  <2> QED BY <2>2, <2>3, <2>4
<1>6. ASSUME NEW s \in Sockets, Depart(s) PROVE Present(g, p)'
  <2>1. \A t \in Sockets \ {s} : att'[t] = att[t] /\ conn'[t] = conn[t]
    BY <1>6 DEF Depart, TypeOK
  <2>2. p \in peers[g]
    <3>1. CASE RemovesPeer(s)
      <4>1. att[s].group \in Groups
        BY <3>1, SpeakerType DEF RemovesPeer, Blank
      <4>2. peers' = [peers EXCEPT ![att[s].group] = @ \ {att[s].peer}]
        BY <1>6, <3>1 DEF Depart
      <4> QED BY <4>1, <4>2 DEF TypeOK
    <3>2. CASE ~RemovesPeer(s)
      BY <1>6, <3>2 DEF Depart
    <3> QED BY <3>1, <3>2
  <2>3. PICK t \in Sockets : conn[t] # "free" /\ att[t].group = g /\ att[t].peer = p
    BY <1>0, <2>2
  <2>4. CASE t # s
    BY <2>1, <2>3, <2>4
  <2>5. CASE t = s
    <3>1. att[s] # Blank /\ p # Zero
      BY <2>3, <2>5, GroupMeansIdentified, DisciplinedSpeakers, ZeroAssumption
    <3>2. HasOtherConnection(s)
      <4>1. SUFFICES ASSUME RemovesPeer(s) PROVE FALSE
        BY <2>3, <2>5, <3>1 DEF RemovesPeer
      <4>2. peers' = [peers EXCEPT ![g] = @ \ {p}]
        BY <1>6, <2>3, <2>5, <4>1 DEF Depart
      <4> QED BY <4>2 DEF TypeOK
    <3>3. PICK u \in Sockets \ {s} : conn[u] # "free" /\ att[u].peer = p
      BY <2>3, <2>5, <3>2 DEF HasOtherConnection, Listed
    <3>4. att[u] # Blank
      BY <3>1, <3>3 DEF Blank
    <3>5. att[u].group = g
      BY <2>3, <2>5, <3>1, <3>3, <3>4, DisciplinedSpeakers
    <3> QED BY <2>1, <3>3, <3>5
  <2> QED BY <2>4, <2>5
<1> QED BY <1>1, <1>2, <1>3, <1>4, <1>5, <1>6, MembershipCases

\* Every member of a group has a socket: whatever the order of its close
\* events, the last connection of a disciplined client takes it out.
THEOREM NoGhosts ==
    ASSUME Disciplined
    PROVE  Spec => []NoGhost
<1>1. Init => NoGhost
  BY DEF Init, NoGhost, NoPeers
<1>2. TypeOK /\ TypeOK' /\ NoGhost /\ [Next]_vars => NoGhost'
  BY NoGhostStep
<1> QED BY <1>1, <1>2, TypeCorrect, PTL DEF Spec

-----------------------------------------------------------------------------
(* Clients know their group.                                               *)

\* RoutesCurrent for one socket.
Current(t) ==
    \A p \in PeerIds : /\ Reachable(att[t].group, p) => p \in told[t]
                       /\ p \in told[t] => Present(att[t].group, p)

\* A client that has just been sent a route update knows its group.
LEMMA UpdatedIsCurrent ==
    ASSUME Disciplined, TypeOK', ConnectedTracked', NoGhost',
           NEW t \in Sockets, conn'[t] = "open", att'[t] # Blank, booted'[RoomOf[t]],
           told'[t] = RouteUpdate(peers', att'[t].group, att'[t].peer)
    PROVE  Current(t)'
<1>1. \A u \in Sockets : att'[u] # Blank => att'[u] \in Hellos[u] /\ att'[u].group \in Groups
  BY HelloType DEF TypeOK
<1>2. ASSUME NEW u \in Sockets, conn'[u] = "open", att'[u].group = att'[t].group
      PROVE  att'[u].peer \in told'[t]
  <2>1. att'[u] # Blank
    BY <1>1, <1>2, GroupAssumption DEF Blank
  <2>2. RoomOf[u] = RoomOf[t] /\ att'[u].peer # Zero
    BY <1>1, <1>2, <2>1 DEF Disciplined
  <2>3. att'[u].peer \in peers'[att'[u].group]
    BY <1>2, <2>2 DEF ConnectedTracked, Runs
  <2> QED BY <1>2, <2>3 DEF RouteUpdate
<1>3. ASSUME NEW p \in told'[t] PROVE Present(att[t].group, p)'
  <2>1. CASE p = att'[t].peer
    BY <2>1 DEF Present, Speaks
  <2>2. CASE p \in peers'[att'[t].group]
    BY <1>1, <2>2 DEF NoGhost, Present, Speaks
  <2> QED BY <2>1, <2>2 DEF RouteUpdate
<1> QED BY <1>2, <1>3 DEF Current, Reachable, Present, Speaks

\* A client that was not sent anything still knows its group if nobody it
\* can hear of came and nobody it knows went.
LEMMA UntouchedIsCurrent ==
    ASSUME RoutesCurrent, NEW t \in Sockets, conn[t] = "open", att[t] # Blank,
           att'[t] = att[t], told'[t] = told[t],
           \A p \in PeerIds : Reachable(att[t].group, p)' => Reachable(att[t].group, p),
           \A p \in PeerIds : Present(att[t].group, p) => Present(att[t].group, p)'
    PROVE  Current(t)'
BY DEF RoutesCurrent, Current, Reachable, Present, Speaks

\* A broadcast that is addressed to t's group reaches t or leaves it alone.
LEMMA BroadcastView ==
    ASSUME NEW status, NEW ids, NEW members, NEW r, NEW gs, NEW exclude, NEW t \in Sockets
    PROVE  LET view == AfterBroadcast(status, ids, members, r, gs, exclude)[t]
           IN  /\ view \in {told[t], RouteUpdate(members, ids[t].group, ids[t].peer)}
               /\ (/\ RoomOf[t] = r /\ status[t] = "open"
                   /\ ids[t].group \in gs /\ ids[t].peer # exclude)
                  => view = RouteUpdate(members, ids[t].group, ids[t].peer)
BY DEF AfterBroadcast, Receivers

\* Steps that keep every attachment and open no socket.
LEMMA CalmStep ==
    ASSUME Disciplined, TypeOK, TypeOK', ConnectedTracked', NoGhost', RoutesCurrent,
           UNCHANGED att,
           \A u \in Sockets : /\ conn'[u] = "free" <=> conn[u] = "free"
                              /\ conn'[u] = "open" => conn[u] = "open",
           \A u \in Sockets : \/ told'[u] = told[u]
                              \/ /\ told'[u] = RouteUpdate(peers', att[u].group, att[u].peer)
                                 /\ booted'[RoomOf[u]]
    PROVE  RoutesCurrent'
<1> SUFFICES ASSUME NEW t \in Sockets, conn'[t] = "open", att'[t] # Blank PROVE Current(t)'
  BY DEF RoutesCurrent, Current, Blank
<1>1. CASE told'[t] = told[t]
  BY <1>1, UntouchedIsCurrent DEF Reachable, Present, Speaks
<1>2. CASE told'[t] = RouteUpdate(peers', att[t].group, att[t].peer) /\ booted'[RoomOf[t]]
  BY <1>2, UpdatedIsCurrent
<1> QED BY <1>1, <1>2

LEMMA RoutesStep ==
    ASSUME Disciplined, TypeOK, TypeOK', ConnectedTracked', NoGhost', RoutesCurrent, [Next]_vars
    PROVE  RoutesCurrent'
<1>1. ASSUME UNCHANGED <<conn, att, told>> PROVE RoutesCurrent'
  BY <1>1, CalmStep
<1>2. ASSUME NEW r \in Rooms, Alarm(r) PROVE RoutesCurrent'
  <2>1. \A u \in Sockets : /\ conn'[u] = "free" <=> conn[u] = "free"
                           /\ conn'[u] = "open" => conn[u] = "open"
    BY <1>2 DEF Alarm, Dead, Listed, TypeOK
  <2>2. ASSUME NEW u \in Sockets
        PROVE  \/ told'[u] = told[u]
               \/ /\ told'[u] = RouteUpdate(peers', att[u].group, att[u].peer)
                  /\ booted'[RoomOf[u]]
    <3>1. CASE Alive(r) = {} \/ RoomOf[u] # r
      BY <1>2, <3>1 DEF Alarm, AfterBroadcast, Receivers
    <3>2. CASE Alive(r) # {} /\ RoomOf[u] = r
      <4>1. told' = AfterBroadcast(conn', att, peers, r, AliveGroups(r), Zero)
        BY <1>2, <3>2 DEF Alarm
      <4>2. told'[u] \in {told[u], RouteUpdate(peers, att[u].group, att[u].peer)}
        BY <4>1, BroadcastView
      <4>3. peers' = peers /\ booted'[RoomOf[u]]
        BY <1>2, <3>2 DEF Alarm
      <4> QED BY <4>2, <4>3
    <3> QED BY <3>1, <3>2
  <2>3. UNCHANGED att
    BY <1>2 DEF Alarm
  <2> QED BY <2>1, <2>2, <2>3, CalmStep
<1>3. ASSUME NEW s \in Sockets, Fetch(s) PROVE RoutesCurrent'
  <2> SUFFICES ASSUME NEW t \in Sockets, conn'[t] = "open", att'[t] # Blank PROVE Current(t)'
    BY DEF RoutesCurrent, Current, Blank
  <2>1. t # s /\ conn[t] = "open" /\ att'[t] = att[t] /\ told'[t] = told[t]
    BY <1>3 DEF Fetch, TypeOK
  <2>2. att'[s] = Blank /\ conn[s] = "free" /\ \A u \in Sockets \ {s} : conn'[u] = conn[u] /\ att'[u] = att[u]
    BY <1>3 DEF Fetch, TypeOK
  <2>3. att[t].group # NoGroup
    BY <2>1, SpeakerType, GroupAssumption
  <2>4. \A p \in PeerIds : Reachable(att[t].group, p)' => Reachable(att[t].group, p)
    BY <2>1, <2>2, <2>3 DEF Reachable, Speaks, Blank
  <2>5. \A p \in PeerIds : Present(att[t].group, p) => Present(att[t].group, p)'
    BY <2>1, <2>2 DEF Present, Speaks
  <2> QED BY <2>1, <2>4, <2>5, UntouchedIsCurrent
<1>4. ASSUME NEW s \in Sockets, NEW h \in Hellos[s], HandShakeAccepted(s, h) PROVE RoutesCurrent'
  <2> SUFFICES ASSUME NEW t \in Sockets, conn'[t] = "open", att'[t] # Blank PROVE Current(t)'
    BY DEF RoutesCurrent, Current, Blank
  <2>1. /\ conn' = conn /\ att' = [att EXCEPT ![s] = h] /\ booted' = booted /\ booted[RoomOf[s]]
        /\ att[s] \in {Blank, h}
    BY <1>4, DisciplinePins DEF HandShakeAccepted, Runs
  <2>2. att'[s] = h /\ \A u \in Sockets \ {s} : att'[u] = att[u]
    BY <2>1 DEF TypeOK
  <2>3. \A u \in Sockets : att'[u] # Blank => att'[u] \in Hellos[u] /\ att'[u].peer # Zero
    BY DEF TypeOK, Disciplined
  <2>4. CASE conn[s] = "open" /\ att'[t].group = h.group
    <3>1. RoomOf[t] = RoomOf[s]
      BY <2>3, <2>4 DEF Disciplined
    <3>2. told' = AfterBroadcast(conn, att', peers', RoomOf[s], {h.group}, Zero)
      BY <1>4, <2>4 DEF HandShakeAccepted, CanSend
    <3>3. conn[t] = "open" /\ att'[t].group \in {h.group} /\ att'[t].peer # Zero
      BY <2>1, <2>3, <2>4
    <3>4. AfterBroadcast(conn, att', peers', RoomOf[s], {h.group}, Zero)[t]
              = RouteUpdate(peers', att'[t].group, att'[t].peer)
      BY <3>1, <3>3, BroadcastView
    <3>5. told'[t] = RouteUpdate(peers', att'[t].group, att'[t].peer)
      BY <3>2, <3>4
    <3> QED BY <2>1, <3>1, <3>5, UpdatedIsCurrent
  <2>5. CASE att'[t].group # h.group
    <3>1. t # s /\ att'[t] = att[t] /\ conn[t] = "open" /\ att[t] # Blank
      BY <2>1, <2>2, <2>5
    <3>2. told'[t] = told[t]
      BY <1>4, <2>5 DEF HandShakeAccepted, AfterBroadcast, Receivers
    <3>3. \A p \in PeerIds : Reachable(att[t].group, p)' => Reachable(att[t].group, p)
      BY <2>1, <2>2, <2>5, <3>1 DEF Reachable, Speaks
    <3>4. att[t].group # NoGroup
      BY <3>1, SpeakerType, GroupAssumption
    <3>5. \A p \in PeerIds : Present(att[t].group, p) => Present(att[t].group, p)'
      BY <2>1, <2>2, <3>4 DEF Present, Speaks, Blank
    <3> QED BY <3>1, <3>2, <3>3, <3>5, UntouchedIsCurrent
  <2>6. CASE conn[s] # "open"
    <3>1. t # s /\ att'[t] = att[t] /\ conn[t] = "open" /\ told'[t] = told[t]
      BY <1>4, <2>1, <2>2, <2>6 DEF HandShakeAccepted, CanSend
    <3>2. \A p \in PeerIds : Reachable(att[t].group, p)' => Reachable(att[t].group, p)
      BY <2>1, <2>2, <2>6 DEF Reachable, Speaks
    <3>3. att[t].group # NoGroup
      BY <3>1, SpeakerType, GroupAssumption
    <3>4. \A p \in PeerIds : Present(att[t].group, p) => Present(att[t].group, p)'
      BY <2>1, <2>2, <3>3 DEF Present, Speaks, Blank
    <3> QED BY <3>1, <3>2, <3>4, UntouchedIsCurrent
  <2> QED BY <2>4, <2>5, <2>6
<1>5. ASSUME NEW s \in Sockets, NEW report \in Reports, NEW learned \in BOOLEAN,
             SyncRouteInfo(s, report, learned)
      PROVE RoutesCurrent'
  <2> DEFINE g == att[s].group
             p == att[s].peer
             others == AfterBroadcast(conn, att, peers, RoomOf[s], {g}, p)
  <2>1. UNCHANGED <<att, conn, peers, booted>> /\ booted[RoomOf[s]]
    BY <1>5 DEF SyncRouteInfo, Runs
  <2>2. \/ told' = told
        \/ told' = [told EXCEPT ![s] = RouteUpdate(peers, g, p)]
        \/ told' = [others EXCEPT ![s] = [told EXCEPT ![s] = RouteUpdate(peers, g, p)][s]]
    BY <1>5 DEF SyncRouteInfo
  <2>3. \A u \in Sockets : others[u] = told[u] \/ (RoomOf[u] = RoomOf[s] /\ others[u] = RouteUpdate(peers, att[u].group, att[u].peer))
    BY DEF AfterBroadcast, Receivers
  <2>4. others \in [Sockets -> SUBSET PeerIds]
    <3>1. {g} \in SUBSET Groups
      BY <1>5, SpeakerType DEF SyncRouteInfo
    <3> QED BY <3>1, BroadcastType DEF TypeOK
  <2> HIDE DEF others
  <2>5. \A u \in Sockets : \/ told'[u] = told[u]
                           \/ /\ told'[u] = RouteUpdate(peers, att[u].group, att[u].peer)
                              /\ RoomOf[u] = RoomOf[s]
    BY <2>2, <2>3, <2>4 DEF TypeOK
  <2> QED BY <2>1, <2>5, CalmStep
<1>6. ASSUME NEW s \in Sockets, Depart(s) PROVE RoutesCurrent'
  <2> SUFFICES ASSUME NEW t \in Sockets, conn'[t] = "open", att'[t] # Blank PROVE Current(t)'
    BY DEF RoutesCurrent, Current, Blank
  <2>1. /\ conn'[s] = "free" /\ att'[s] = Blank
        /\ \A u \in Sockets \ {s} : conn'[u] = conn[u] /\ att'[u] = att[u]
        /\ conn[s] # "free" /\ booted' = booted /\ booted[RoomOf[s]]
    BY <1>6 DEF Depart, Runs, TypeOK
  <2>2. t # s /\ conn[t] = "open" /\ att'[t] = att[t] /\ att[t] # Blank
    BY <2>1
  <2>3. att[t].group \in Groups
    BY <2>2, SpeakerType
  <2>4. \A p \in PeerIds : Reachable(att[t].group, p)' => Reachable(att[t].group, p)
    BY <2>1, <2>2 DEF Reachable, Speaks
  <2>5. CASE RemovesPeer(s) /\ att[t].group = att[s].group
    <3> DEFINE g == att[s].group
               p == att[s].peer
               others == AfterBroadcast(conn', att, peers', RoomOf[s], {g}, p)
    <3>1. att[s] # Blank
      BY <2>5 DEF RemovesPeer, Blank
    <3>2. RoomOf[t] = RoomOf[s]
      BY <2>2, <2>5, <3>1, DisciplinedSpeakers
    <3>3. att[t].peer # p
      BY <2>2, <2>5, <3>2 DEF RemovesPeer, HasOtherConnection, Listed
    <3>4. others[t] = RouteUpdate(peers', att[t].group, att[t].peer)
      BY <2>5, <3>2, <3>3, BroadcastView
    <3>5. told' = [others EXCEPT ![s] = {}]
      BY <1>6, <2>5 DEF Depart
    <3>6. t \in DOMAIN others
      BY DEF AfterBroadcast
    <3> HIDE DEF others
    <3>7. told'[t] = RouteUpdate(peers', att'[t].group, att'[t].peer)
      BY <2>2, <3>4, <3>5, <3>6
    <3> QED BY <2>1, <2>2, <3>2, <3>7, UpdatedIsCurrent
  <2>6. CASE ~RemovesPeer(s) \/ att[t].group # att[s].group
    <3>1. told'[t] = told[t]
      <4> DEFINE others == AfterBroadcast(conn', att, peers', RoomOf[s], {att[s].group}, att[s].peer)
      <4>1. CASE RemovesPeer(s)
        <5>1. told' = [others EXCEPT ![s] = {}]
          BY <1>6, <4>1 DEF Depart
        <5>2. t \in DOMAIN others /\ others[t] = told[t]
          BY <2>6, <4>1 DEF AfterBroadcast, Receivers
        <5> HIDE DEF others
        <5> QED BY <2>2, <5>1, <5>2
      <4>2. CASE ~RemovesPeer(s)
        BY <1>6, <2>2, <4>2 DEF Depart, TypeOK
      <4> QED BY <4>1, <4>2
    <3>2. ASSUME NEW p \in PeerIds, Present(att[t].group, p) PROVE Present(att[t].group, p)'
      <4>1. PICK u \in Sockets : conn[u] # "free" /\ att[u].group = att[t].group /\ att[u].peer = p
        BY <3>2 DEF Present, Speaks
      <4>2. CASE u # s
        BY <2>1, <2>2, <4>1, <4>2 DEF Present, Speaks
      <4>3. CASE u = s
        <5>1. att[s] # Blank /\ p # Zero
          BY <2>3, <4>1, <4>3, GroupMeansIdentified, DisciplinedSpeakers, ZeroAssumption
        <5>2. HasOtherConnection(s)
          BY <2>6, <4>1, <4>3, <5>1 DEF RemovesPeer
        <5>3. PICK v \in Sockets \ {s} : conn[v] # "free" /\ att[v].peer = p
          BY <4>1, <4>3, <5>2 DEF HasOtherConnection, Listed
        <5>4. att[v] # Blank
          BY <5>1, <5>3 DEF Blank
        <5>5. att[v].group = att[t].group
          BY <4>1, <4>3, <5>1, <5>3, <5>4, DisciplinedSpeakers
        <5> QED BY <2>1, <2>2, <5>3, <5>5 DEF Present, Speaks
      <4> QED BY <4>2, <4>3
    <3> QED BY <2>2, <2>4, <3>1, <3>2, UntouchedIsCurrent
  <2> QED BY <2>5, <2>6
<1>7. ASSUME NEW s \in Sockets, NEW h, HandShakeRejected(s, h) PROVE RoutesCurrent'
  <2>1. UNCHANGED <<att, told>> /\ \A u \in Sockets : /\ conn'[u] = "free" <=> conn[u] = "free"
                                                      /\ conn'[u] = "open" => conn[u] = "open"
    BY <1>7 DEF HandShakeRejected, Runs, TypeOK
  <2> QED BY <2>1, CalmStep
<1>8. CASE UNCHANGED vars
  BY <1>1, <1>8 DEF vars
<1>9. CASE Next
  BY <1>1, <1>2, <1>3, <1>4, <1>5, <1>6, <1>7, <1>9, NextCases
     DEF Construct, Hibernate, Restart, Ping, RpcResp, ForwardMessage, GoStale, AgeRemoval, sockVars
<1> QED BY <1>8, <1>9

\* Every identified client has been told of exactly its group: of all peers
\* it can be relayed to and of no peer that has left.
THEOREM RoutesAreCurrent ==
    ASSUME Disciplined
    PROVE  Spec => []RoutesCurrent
<1>1. Init => RoutesCurrent
  BY DEF Init, RoutesCurrent
<1>2. TypeOK /\ TypeOK' /\ ConnectedTracked' /\ NoGhost' /\ RoutesCurrent /\ [Next]_vars => RoutesCurrent'
  BY RoutesStep
<1>3. Spec => []ConnectedTracked
  BY DisciplinePins, PeersTracked
<1> QED BY <1>1, <1>2, <1>3, NoGhosts, TypeCorrect, PTL DEF Spec

-----------------------------------------------------------------------------
(* P2P edges do not leak.                                                  *)

LEMMA DepartedStep ==
    ASSUME Disciplined, TypeOK, TypeOK', ConnectedTracked, DepartedTracked, [Next]_vars
    PROVE  DepartedTracked'
<1> SUFFICES ASSUME NEW g \in Groups, NEW p \in PeerIds
             PROVE  /\ (p \in Mentioned(g)' /\ p \notin peers'[g]) => removed'[g][p] # "none"
                    /\ p \in peers'[g] => removed'[g][p] = "none"
  BY DEF DepartedTracked
<1> DEFINE Goal == /\ (p \in Mentioned(g)' /\ p \notin peers'[g]) => removed'[g][p] # "none"
                   /\ p \in peers'[g] => removed'[g][p] = "none"
<1>0. /\ (p \in Mentioned(g) /\ p \notin peers[g]) => removed[g][p] # "none"
      /\ p \in peers[g] => removed[g][p] = "none"
  BY DEF DepartedTracked
<1>1. ASSUME UNCHANGED groupVars PROVE Goal
  BY <1>0, <1>1 DEF groupVars, Mentioned
<1>2. ASSUME NEW r \in Rooms, Construct(r) PROVE Goal
  <2>1. Mentioned(g)' = Mentioned(g)
    BY <1>2 DEF Construct, Mentioned
  <2>2. peers'[g] = peers[g] \cup Forgotten(r, g)
    BY <1>2 DEF Construct
  <2>3. removed'[g][p] = IF p \in Forgotten(r, g) THEN "none" ELSE removed[g][p]
    BY <1>2 DEF Construct
  <2> QED BY <1>0, <2>1, <2>2, <2>3
<1>3. CASE Restart
  <2>1. Mentioned(g)' = {} /\ peers'[g] = {}
    BY <1>3 DEF Restart, Mentioned, NoConns, NoPeers
  <2> QED BY <2>1
<1>4. ASSUME NEW r \in Rooms, Alarm(r) PROVE Goal
  <2>1. peers' = peers
    BY <1>4 DEF Alarm
  <2>2. CASE Alive(r) = {} \/ g \notin AliveGroups(r)
    <3>1. conns'[g] = conns[g] /\ removed'[g][p] = removed[g][p]
      BY <1>4, <2>2 DEF Alarm, CleanedConns, CleanedRemovals
    <3>2. Mentioned(g)' = Mentioned(g)
      BY <3>1 DEF Mentioned
    <3> QED BY <1>0, <2>1, <3>1, <3>2
  <2>3. CASE Alive(r) # {} /\ g \in AliveGroups(r)
    <3>1. conns' = CleanedConns(AliveGroups(r)) /\ removed' = CleanedRemovals(AliveGroups(r))
      BY <1>4, <2>3 DEF Alarm
    <3>2. \A q \in PeerIds : conns'[g][q] = IF q \in Expired(g) \/ conns[g][q] = NoReport
                                           THEN NoReport ELSE conns[g][q] \ Expired(g)
      BY <2>3, <3>1 DEF CleanedConns
    <3>3. removed'[g][p] = IF p \in Expired(g) THEN "none" ELSE removed[g][p]
      BY <2>3, <3>1 DEF CleanedRemovals
    <3>4. p \in Mentioned(g)' => p \in Mentioned(g) /\ p \notin Expired(g)
      BY <3>2 DEF Mentioned
    <3> QED BY <1>0, <2>1, <3>3, <3>4
  <2> QED BY <2>2, <2>3
<1>5. ASSUME NEW s \in Sockets, NEW h \in Hellos[s], HandShakeAccepted(s, h) PROVE Goal
  <2>1. Mentioned(g)' = Mentioned(g)
    BY <1>5 DEF HandShakeAccepted, Mentioned
  <2>2. peers' = [peers EXCEPT ![h.group] = @ \cup {h.peer}]
    BY <1>5 DEF HandShakeAccepted
  <2>3. removed' = [removed EXCEPT ![h.group][h.peer] = "none"]
    BY <1>5 DEF HandShakeAccepted
  <2>4. CASE g = h.group /\ p = h.peer
    BY <2>2, <2>3, <2>4 DEF TypeOK
  <2>5. CASE ~(g = h.group /\ p = h.peer)
    <3>1. removed'[g][p] = removed[g][p] /\ (p \in peers'[g] <=> p \in peers[g])
      BY <2>2, <2>3, <2>5, HelloType DEF TypeOK
    <3> QED BY <1>0, <2>1, <3>1
  <2> QED BY <2>4, <2>5
<1>6. ASSUME NEW s \in Sockets, NEW report \in Reports, NEW learned \in BOOLEAN,
             SyncRouteInfo(s, report, learned)
      PROVE  Goal
  <2> DEFINE k == att[s].group
             q == att[s].peer
  <2>1. k \in Groups /\ q \in PeerIds /\ q \in peers[k]
    BY <1>6, SpeakerType, DisciplinedSpeakers, ZeroAssumption DEF SyncRouteInfo, ConnectedTracked
  <2>2. conns' = [conns EXCEPT ![k][q] = Recorded(k, q, report)]
    BY <1>6 DEF SyncRouteInfo
  <2>3. UNCHANGED <<peers, removed>>
    BY <1>6 DEF SyncRouteInfo
  <2>4. Recorded(k, q, report) \in {conns[k][q], NoReport} \/ Recorded(k, q, report) \subseteq peers[k]
    BY DEF Recorded, KnownEdges
  <2> HIDE DEF k, q
  <2>5. p \in Mentioned(g)' => p \in Mentioned(g) \/ p \in peers[g]
    <3>1. CASE g # k
      BY <2>1, <2>2, <3>1 DEF Mentioned, TypeOK
    <3>2. CASE g = k
      <4>1. \A x \in PeerIds : conns'[g][x] = IF x = q THEN Recorded(k, q, report) ELSE conns[g][x]
        BY <2>1, <2>2, <3>2 DEF TypeOK
      <4> QED BY <2>1, <2>4, <3>2, <4>1 DEF Mentioned
    <3> QED BY <3>1, <3>2
  <2> QED BY <1>0, <2>3, <2>5
<1>7. ASSUME NEW s \in Sockets, Depart(s) PROVE Goal
  <2>1. Mentioned(g)' = Mentioned(g)
    BY <1>7 DEF Depart, Mentioned
  <2>2. CASE RemovesPeer(s)
    <3>1. att[s].group \in Groups /\ att[s].peer \in PeerIds
      BY <2>2, SpeakerType DEF RemovesPeer, Blank
    <3>2. /\ peers' = [peers EXCEPT ![att[s].group] = @ \ {att[s].peer}]
          /\ removed' = [removed EXCEPT ![att[s].group][att[s].peer] = "recent"]
      BY <1>7, <2>2 DEF Depart
    <3>3. CASE g = att[s].group /\ p = att[s].peer
      BY <3>1, <3>2, <3>3 DEF TypeOK
    <3>4. CASE ~(g = att[s].group /\ p = att[s].peer)
      <4>1. removed'[g][p] = removed[g][p] /\ (p \in peers'[g] <=> p \in peers[g])
        BY <3>1, <3>2, <3>4 DEF TypeOK
      <4> QED BY <1>0, <2>1, <4>1
    <3> QED BY <3>3, <3>4
  <2>3. CASE ~RemovesPeer(s)
    BY <1>0, <1>7, <2>1, <2>3 DEF Depart
  <2> QED BY <2>2, <2>3
<1>8. ASSUME NEW k \in Groups, NEW q \in PeerIds, AgeRemoval(k, q) PROVE Goal
  <2>1. Mentioned(g)' = Mentioned(g) /\ peers' = peers
    BY <1>8 DEF AgeRemoval, Mentioned
  <2>2. (removed'[g][p] = "none") <=> (removed[g][p] = "none")
    BY <1>8 DEF AgeRemoval, TypeOK
  <2> QED BY <1>0, <2>1, <2>2
<1>9. CASE UNCHANGED vars
  BY <1>1, <1>9 DEF vars, groupVars
<1>10. CASE Next
  BY <1>1, <1>2, <1>3, <1>4, <1>5, <1>6, <1>7, <1>8, <1>10, NextCases
     DEF Fetch, Hibernate, HandShakeRejected, Ping, RpcResp, ForwardMessage, GoStale
<1> QED BY <1>9, <1>10

\* An edge of a departed peer always has a removal time the clean-up will
\* find, and a member's edges are never up for it.
THEOREM EdgesDoNotLeak ==
    ASSUME Disciplined
    PROVE  Spec => []DepartedTracked
<1>1. Init => DepartedTracked
  BY DEF Init, DepartedTracked, Mentioned, NoConns, NoPeers
<1>2. TypeOK /\ TypeOK' /\ ConnectedTracked /\ DepartedTracked /\ [Next]_vars => DepartedTracked'
  BY DepartedStep
<1>3. Spec => []ConnectedTracked
  BY DisciplinePins, PeersTracked
<1> QED BY <1>1, <1>2, <1>3, TypeCorrect, PTL DEF Spec
=============================================================================
