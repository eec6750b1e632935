-------------------------- MODULE RelayRoomProofs --------------------------
(***************************************************************************)
(* Proofs about RelayRoom, for any sockets, rooms, peers and networks.     *)
(***************************************************************************)
EXTENDS RelayRoom, TLAPS

\* Every action of the room, one disjunct each, as the proofs split on it.
LEMMA NextCases ==
    ASSUME Next
    PROVE  \/ \E r \in Rooms : Construct(r)
           \/ \E r \in Rooms : Hibernate(r)
           \/ \E r \in Rooms : Alarm(r)
           \/ Restart
           \/ \E s \in Sockets : Fetch(s)
           \/ \E s \in Sockets : \E h \in Hellos[s] : HandShakeAccepted(s, h)
           \/ \E s \in Sockets : \E h \in Hellos[s] \cup {Malformed} : HandShakeRejected(s, h)
           \/ \E s \in Sockets : Ping(s) \/ RpcResp(s) \/ \E to \in PeerIds : ForwardMessage(s, to)
           \/ \E s \in Sockets : \E report \in Reports, learned \in BOOLEAN :
                  SyncRouteInfo(s, report, learned)
           \/ \E s \in Sockets : Depart(s)
           \/ \E s \in Sockets : GoStale(s)
           \/ \E g \in Groups, p \in PeerIds : AgeRemoval(g, p)
BY DEF Next, SocketEvent, WebsocketClose, WebsocketError

\* A broadcast only writes sets of peer ids.
LEMMA BroadcastType ==
    ASSUME told \in [Sockets -> SUBSET PeerIds],
           NEW ids \in [Sockets -> Identities \cup {Blank}],
           NEW members \in [Groups -> SUBSET PeerIds],
           NEW gs \in SUBSET Groups,
           NEW status, NEW r, NEW exclude
    PROVE  AfterBroadcast(status, ids, members, r, gs, exclude) \in [Sockets -> SUBSET PeerIds]
<1>1. ASSUME NEW t \in Sockets, NEW g \in gs, t \in Receivers(status, ids, r, g, exclude)
      PROVE  RouteUpdate(members, ids[t].group, ids[t].peer) \subseteq PeerIds
  <2>1. ids[t].group \in Groups /\ members[ids[t].group] \subseteq PeerIds
    BY <1>1 DEF Receivers
  <2>2. ids[t].peer \in PeerIds
    BY DEF Identities, Blank, PeerIds
  <2> QED BY <2>1, <2>2 DEF RouteUpdate
<1> QED BY <1>1 DEF AfterBroadcast

-----------------------------------------------------------------------------
(* Type correctness.                                                       *)

LEMMA TypeInit == Init => TypeOK
BY RoomAssumption, HelloAssumption
   DEF Init, TypeOK, Blank, NoPeers, NeverRemoved, NoConns, NoDigests

LEMMA HelloType ==
    ASSUME NEW s \in Sockets, NEW h \in Hellos[s]
    PROVE  h \in Identities /\ h.peer \in PeerIds /\ h.group \in Groups
           /\ h.group.net \in Networks /\ h.group.digest \in Digests
BY HelloAssumption DEF Identities, Groups

LEMMA SpeakerType ==
    ASSUME TypeOK, NEW s \in Sockets, att[s] # Blank
    PROVE  att[s] \in Hellos[s] /\ att[s].peer \in PeerIds /\ att[s].group \in Groups
BY HelloType DEF TypeOK

LEMMA TypeStep == TypeOK /\ [Next]_vars => TypeOK'
<1> SUFFICES ASSUME TypeOK, [Next]_vars PROVE TypeOK'
  OBVIOUS
<1>1. CASE \E r \in Rooms : Construct(r)
  <2> PICK r \in Rooms : Construct(r)
    BY <1>1
  <2>1. peers' \in [Groups -> SUBSET PeerIds]
    BY DEF Construct, Forgotten, TypeOK, PeerIds
  <2>2. removed' \in [Groups -> [PeerIds -> {"none", "recent", "old"}]]
    BY DEF Construct, TypeOK
  <2>3. booted' \in [Rooms -> BOOLEAN]
    BY DEF Construct, TypeOK
  <2> QED BY <2>1, <2>2, <2>3 DEF Construct, TypeOK, sockVars
<1>2. CASE \E r \in Rooms : Hibernate(r)
  BY <1>2 DEF Hibernate, TypeOK, sockVars, groupVars
<1>3. CASE \E r \in Rooms : Alarm(r)
  <2> PICK r \in Rooms : Alarm(r)
    BY <1>3
  <2>1. AliveGroups(r) \in SUBSET Groups
    BY SpeakerType DEF AliveGroups, Alive, Listed, Blank
  <2>2. told' \in [Sockets -> SUBSET PeerIds]
    <3>1. CASE Alive(r) = {}
      BY <3>1 DEF Alarm, TypeOK
    <3>2. CASE Alive(r) # {}
      <4>1. told' = AfterBroadcast(conn', att, peers, r, AliveGroups(r), Zero)
        BY <3>2 DEF Alarm
      <4> QED BY <2>1, <4>1, BroadcastType DEF TypeOK
    <3> QED BY <3>1, <3>2
  <2>3. /\ conns' \in [Groups -> [PeerIds -> {NoReport} \cup SUBSET PeerIds]]
        /\ \A g \in Groups, p \in PeerIds : conns'[g][p] # NoReport => p \notin conns'[g][p]
    <3>1. ASSUME NEW g \in Groups, NEW p \in PeerIds
          PROVE  LET c == CleanedConns(AliveGroups(r))[g][p]
                 IN  c \in {NoReport} \cup SUBSET PeerIds /\ (c # NoReport => p \notin c)
      BY DEF CleanedConns, TypeOK
    <3>2. CleanedConns(AliveGroups(r)) \in [Groups -> [PeerIds -> {NoReport} \cup SUBSET PeerIds]]
      <4>1. \A g \in Groups : CleanedConns(AliveGroups(r))[g] \in [PeerIds -> {NoReport} \cup SUBSET PeerIds]
        BY <3>1 DEF CleanedConns, TypeOK
      <4> QED BY <4>1 DEF CleanedConns
    <3>3. conns' \in {conns, CleanedConns(AliveGroups(r))}
      BY DEF Alarm
    <3> QED BY <3>1, <3>2, <3>3 DEF TypeOK
  <2>4. removed' \in [Groups -> [PeerIds -> {"none", "recent", "old"}]]
    <3>1. CleanedRemovals(AliveGroups(r)) \in [Groups -> [PeerIds -> {"none", "recent", "old"}]]
      BY DEF CleanedRemovals, TypeOK
    <3> QED BY <3>1 DEF Alarm, TypeOK
  <2>5. armed' \in [Rooms -> BOOLEAN]
    BY DEF Alarm, ScheduleCleanupAlarm, TypeOK
  <2>6. conn' \in [Sockets -> {"free", "open", "closing"}]
    BY DEF Alarm, TypeOK
  <2> QED BY <2>2, <2>3, <2>4, <2>5, <2>6 DEF Alarm, TypeOK
<1>4. CASE Restart
  BY <1>4 DEF Restart, TypeOK, sockVars, NoPeers, NeverRemoved, NoConns, NoDigests
<1>5. CASE \E s \in Sockets : Fetch(s)
  <2> PICK s \in Sockets : Fetch(s)
    BY <1>5
  <2>1. /\ conn' \in [Sockets -> {"free", "open", "closing"}]
        /\ att' \in [Sockets -> Identities \cup {Blank}]
        /\ \A t \in Sockets : att'[t] \in Hellos[t] \cup {Blank}
    BY DEF Fetch, TypeOK
  <2>2. stale' \in [Sockets -> BOOLEAN] /\ told' \in [Sockets -> SUBSET PeerIds]
    BY DEF Fetch, Refresh, TypeOK
  <2>3. armed' \in [Rooms -> BOOLEAN]
    BY DEF Fetch, ScheduleCleanupAlarm, TypeOK
  <2> QED BY <2>1, <2>2, <2>3 DEF Fetch, TypeOK, groupVars
<1>6. CASE \E s \in Sockets : \E h \in Hellos[s] : HandShakeAccepted(s, h)
  <2> PICK s \in Sockets : \E h \in Hellos[s] : HandShakeAccepted(s, h)
    BY <1>6
  <2> PICK h \in Hellos[s] : HandShakeAccepted(s, h)
    OBVIOUS
  <2> USE HelloType
  <2>1. att' \in [Sockets -> Identities \cup {Blank}] /\ \A t \in Sockets : att'[t] \in Hellos[t] \cup {Blank}
    BY DEF HandShakeAccepted, TypeOK
  <2>2. peers' \in [Groups -> SUBSET PeerIds]
    BY DEF HandShakeAccepted, TypeOK
  <2>3. told' \in [Sockets -> SUBSET PeerIds]
    <3>1. AfterBroadcast(conn, att', peers', RoomOf[s], {h.group}, Zero) \in [Sockets -> SUBSET PeerIds]
      <4>1. {h.group} \in SUBSET Groups
        OBVIOUS
      <4> QED BY <2>1, <2>2, <4>1, BroadcastType DEF TypeOK
    <3> QED BY <3>1 DEF HandShakeAccepted, TypeOK
  <2>4. removed' \in [Groups -> [PeerIds -> {"none", "recent", "old"}]]
    BY DEF HandShakeAccepted, TypeOK
  <2>5. registry' \in [Networks -> Digests \cup {NoDigest}]
    BY DEF HandShakeAccepted, TypeOK
  <2>6. stale' \in [Sockets -> BOOLEAN]
    BY DEF HandShakeAccepted, Refresh, TypeOK
  <2> QED BY <2>1, <2>2, <2>3, <2>4, <2>5, <2>6 DEF HandShakeAccepted, TypeOK
<1>7. CASE \E s \in Sockets : \E h \in Hellos[s] \cup {Malformed} : HandShakeRejected(s, h)
  BY <1>7 DEF HandShakeRejected, Refresh, TypeOK, groupVars
<1>8. CASE \E s \in Sockets : Ping(s) \/ RpcResp(s) \/ \E to \in PeerIds : ForwardMessage(s, to)
  BY <1>8 DEF Ping, RpcResp, ForwardMessage, Refresh, TypeOK, groupVars
<1>9. CASE \E s \in Sockets : \E report \in Reports, learned \in BOOLEAN :
               SyncRouteInfo(s, report, learned)
  <2> PICK s \in Sockets, report \in Reports, learned \in BOOLEAN :
               SyncRouteInfo(s, report, learned)
    BY <1>9
  <2> DEFINE g == att[s].group
             p == att[s].peer
  <2>1. g \in Groups /\ p \in PeerIds
    BY SpeakerType DEF SyncRouteInfo
  <2>2. Recorded(g, p, report) \in {NoReport} \cup SUBSET (PeerIds \ {p})
    BY <2>1, ReportAssumption DEF Recorded, KnownEdges, TypeOK
  <2>3. conns' = [conns EXCEPT ![g][p] = Recorded(g, p, report)]
    BY DEF SyncRouteInfo
  <2>4. /\ conns' \in [Groups -> [PeerIds -> {NoReport} \cup SUBSET PeerIds]]
        /\ \A k \in Groups, q \in PeerIds : conns'[k][q] # NoReport => q \notin conns'[k][q]
    BY <2>1, <2>2, <2>3 DEF TypeOK
  <2>5. AfterBroadcast(conn, att, peers, RoomOf[s], {g}, p) \in [Sockets -> SUBSET PeerIds]
    BY <2>1, BroadcastType DEF TypeOK
  <2>6. RouteUpdate(peers, g, p) \subseteq PeerIds
    BY <2>1 DEF RouteUpdate, TypeOK
  <2>7. stale' \in [Sockets -> BOOLEAN]
    BY DEF SyncRouteInfo, Refresh, TypeOK
  <2>8. told' \in [Sockets -> SUBSET PeerIds]
    <3>1. \/ told' = told
          \/ told' = [told EXCEPT ![s] = RouteUpdate(peers, g, p)]
          \/ told' = [AfterBroadcast(conn, att, peers, RoomOf[s], {g}, p)
                         EXCEPT ![s] = [told EXCEPT ![s] = RouteUpdate(peers, g, p)][s]]
      BY DEF SyncRouteInfo
    <3>2. [told EXCEPT ![s] = RouteUpdate(peers, g, p)] \in [Sockets -> SUBSET PeerIds]
      BY <2>6 DEF TypeOK
    <3> QED BY <2>5, <3>1, <3>2 DEF TypeOK
  <2> QED BY <2>4, <2>7, <2>8 DEF SyncRouteInfo, TypeOK
<1>10. CASE \E s \in Sockets : Depart(s)
  <2> PICK s \in Sockets : Depart(s)
    BY <1>10
  <2>1. /\ conn' \in [Sockets -> {"free", "open", "closing"}]
        /\ att' \in [Sockets -> Identities \cup {Blank}]
        /\ \A t \in Sockets : att'[t] \in Hellos[t] \cup {Blank}
        /\ stale' \in [Sockets -> BOOLEAN]
    BY DEF Depart, Refresh, TypeOK
  <2>2. /\ peers' \in [Groups -> SUBSET PeerIds]
        /\ removed' \in [Groups -> [PeerIds -> {"none", "recent", "old"}]]
    <3>1. CASE RemovesPeer(s)
      <4>1. att[s].group \in Groups /\ att[s].peer \in PeerIds
        BY <3>1, SpeakerType DEF RemovesPeer, Blank
      <4>2. /\ peers' = [peers EXCEPT ![att[s].group] = @ \ {att[s].peer}]
            /\ removed' = [removed EXCEPT ![att[s].group][att[s].peer] = "recent"]
        BY <3>1 DEF Depart
      <4> QED BY <4>1, <4>2 DEF TypeOK
    <3>2. CASE ~RemovesPeer(s)
      BY <3>2 DEF Depart, TypeOK
    <3> QED BY <3>1, <3>2
  <2>3. told' \in [Sockets -> SUBSET PeerIds]
    <3>1. CASE RemovesPeer(s)
      <4>1. att[s] # Blank
        BY <3>1 DEF RemovesPeer, Blank
      <4>2. AfterBroadcast(conn', att, peers', RoomOf[s], {att[s].group}, att[s].peer)
                \in [Sockets -> SUBSET PeerIds]
        <5>1. {att[s].group} \in SUBSET Groups
          BY <4>1, SpeakerType
        <5> QED BY <2>2, <5>1, BroadcastType DEF TypeOK
      <4> QED BY <3>1, <4>2 DEF Depart
    <3>2. CASE ~RemovesPeer(s)
      BY <3>2 DEF Depart, TypeOK
    <3> QED BY <3>1, <3>2
  <2> QED BY <2>1, <2>2, <2>3 DEF Depart, TypeOK
<1>11. CASE \E s \in Sockets : GoStale(s)
  BY <1>11 DEF GoStale, TypeOK, groupVars
<1>12. CASE \E g \in Groups, p \in PeerIds : AgeRemoval(g, p)
  BY <1>12 DEF AgeRemoval, TypeOK, sockVars
<1>13. CASE UNCHANGED vars
  BY <1>13 DEF vars, TypeOK
<1> QED BY <1>1, <1>2, <1>3, <1>4, <1>5, <1>6, <1>7, <1>8, <1>9, <1>10, <1>11, <1>12, <1>13, NextCases

\* Type correctness of the relay room, for every set of sockets and peers.
THEOREM TypeCorrect == Spec => []TypeOK
BY TypeInit, TypeStep, PTL DEF Spec

-----------------------------------------------------------------------------
(* Connected peers are tracked.                                            *)

\* Actions that leave membership, attachments and the listed sockets alone.
Quiet ==
    /\ UNCHANGED <<att, peers>>
    /\ \A s \in Sockets : conn'[s] = "free" <=> conn[s] = "free"
    /\ \A r \in Rooms : booted'[r] => booted[r]

LEMMA QuietSteps ==
    ASSUME TypeOK
    PROVE  /\ \A r \in Rooms : Hibernate(r) \/ Alarm(r) => Quiet
           /\ \A s \in Sockets : \A h \in Hellos[s] \cup {Malformed} : HandShakeRejected(s, h) => Quiet
           /\ \A s \in Sockets : Ping(s) \/ RpcResp(s) \/ GoStale(s) => Quiet
           /\ \A s \in Sockets, to \in PeerIds : ForwardMessage(s, to) => Quiet
           /\ \A s \in Sockets, report \in Reports, learned \in BOOLEAN :
                  SyncRouteInfo(s, report, learned) => Quiet
           /\ \A g \in Groups, p \in PeerIds : AgeRemoval(g, p) => Quiet
           /\ UNCHANGED vars => Quiet
<1>1. ASSUME NEW r \in Rooms, Hibernate(r) PROVE Quiet
  BY <1>1 DEF Hibernate, Quiet, sockVars, groupVars, TypeOK
<1>2. ASSUME NEW r \in Rooms, Alarm(r) PROVE Quiet
  BY <1>2 DEF Alarm, Dead, Listed, Quiet, TypeOK
<1>3. ASSUME NEW s \in Sockets, NEW h, HandShakeRejected(s, h) PROVE Quiet
  BY <1>3 DEF HandShakeRejected, Runs, Quiet, groupVars, TypeOK
<1>4. ASSUME NEW s \in Sockets, Ping(s) \/ RpcResp(s) \/ GoStale(s) PROVE Quiet
  BY <1>4 DEF Ping, RpcResp, GoStale, Quiet, groupVars
<1>5. ASSUME NEW s \in Sockets, NEW to, ForwardMessage(s, to) PROVE Quiet
  BY <1>5 DEF ForwardMessage, Quiet, groupVars
<1>6. ASSUME NEW s \in Sockets, NEW report, NEW learned, SyncRouteInfo(s, report, learned) PROVE Quiet
  BY <1>6 DEF SyncRouteInfo, Quiet
<1>7. ASSUME NEW g \in Groups, NEW p \in PeerIds, AgeRemoval(g, p) PROVE Quiet
  BY <1>7 DEF AgeRemoval, Quiet, sockVars
<1>8. ASSUME UNCHANGED vars PROVE Quiet
  BY <1>8 DEF vars, Quiet
<1> QED BY <1>1, <1>2, <1>3, <1>4, <1>5, <1>6, <1>7, <1>8

\* The steps that matter to membership, everything else being quiet.
LEMMA MembershipCases ==
    ASSUME TypeOK, [Next]_vars
    PROVE  \/ Quiet
           \/ \E r \in Rooms : Construct(r)
           \/ Restart
           \/ \E s \in Sockets : Fetch(s)
           \/ \E s \in Sockets : \E h \in Hellos[s] : HandShakeAccepted(s, h)
           \/ \E s \in Sockets : Depart(s)
<1>1. CASE UNCHANGED vars
  BY <1>1, QuietSteps
<1>2. CASE Next
  BY <1>2, NextCases, QuietSteps
<1> QED BY <1>1, <1>2

LEMMA TrackedStep ==
    ASSUME PeersPinnedToRoom, TypeOK, ConnectedTracked, [Next]_vars
    PROVE  ConnectedTracked'
<1> SUFFICES ASSUME NEW t \in Sockets, Runs(t)', att'[t].peer # Zero
             PROVE  att'[t].peer \in peers'[att'[t].group]
  BY DEF ConnectedTracked
<1>0. RoomOf[t] \in Rooms
  BY RoomAssumption
<1>1. CASE Quiet
  BY <1>0, <1>1 DEF Quiet, Runs, ConnectedTracked
<1>2. ASSUME NEW r \in Rooms, Construct(r) PROVE att'[t].peer \in peers'[att'[t].group]
  <2>1. att'[t] = att[t] /\ conn'[t] # "free" /\ att[t] # Blank
    BY <1>2 DEF Construct, sockVars, Runs, Blank
  <2>2. att[t].group \in Groups /\ att[t].peer \in Peers
    BY <2>1, SpeakerType DEF PeerIds
  <2>3. CASE RoomOf[t] = r
    <3>1. att[t].peer \in peers[att[t].group] \/ att[t].peer \in Forgotten(r, att[t].group)
      <4>1. Speaks(t, att[t].group, att[t].peer)
        BY DEF Speaks
      <4>2. t \in Listed(r)
        BY <1>2, <2>1, <2>3 DEF Listed, Construct, sockVars
      <4> QED BY <2>2, <4>1, <4>2 DEF Forgotten
    <3> QED BY <1>2, <2>1, <2>2, <3>1 DEF Construct
  <2>4. CASE RoomOf[t] # r
    <3>1. Runs(t)
      BY <1>0, <1>2, <2>4 DEF Construct, Runs, TypeOK, sockVars
    <3> QED BY <1>2, <2>1, <2>2, <3>1 DEF Construct, ConnectedTracked
  <2> QED BY <2>3, <2>4
<1>3. CASE Restart
  BY <1>0, <1>3 DEF Restart, Runs
<1>4. ASSUME NEW s \in Sockets, Fetch(s) PROVE att'[t].peer \in peers'[att'[t].group]
  <2>1. t # s
    BY <1>4 DEF Fetch, Blank, TypeOK
  <2> QED BY <1>4, <2>1 DEF Fetch, Runs, ConnectedTracked, groupVars, TypeOK
<1>5. ASSUME NEW s \in Sockets, NEW h \in Hellos[s], HandShakeAccepted(s, h)
      PROVE  att'[t].peer \in peers'[att'[t].group]
  <2>1. CASE t = s
    BY <1>5, <2>1, HelloType DEF HandShakeAccepted, TypeOK
  <2>2. CASE t # s
    <3>1. att'[t] = att[t] /\ Runs(t)
      BY <1>5, <2>2 DEF HandShakeAccepted, Runs, TypeOK
    <3>2. \A g \in Groups : peers[g] \subseteq peers'[g]
      BY <1>5, HelloType DEF HandShakeAccepted, TypeOK
    <3>3. att[t].group \in Groups
      BY <3>1, SpeakerType DEF Blank
    <3> QED BY <3>1, <3>2, <3>3 DEF ConnectedTracked
  <2> QED BY <2>1, <2>2
<1>6. ASSUME NEW s \in Sockets, Depart(s) PROVE att'[t].peer \in peers'[att'[t].group]
  <2>1. t # s /\ att'[t] = att[t] /\ Runs(t)
    BY <1>6 DEF Depart, Runs, TypeOK
  <2>2. att[t].peer \in peers[att[t].group]
    BY <2>1 DEF ConnectedTracked
  <2>3. CASE RemovesPeer(s)
    <3>1. att[s] # Blank /\ att[t] # Blank
      BY <2>1, <2>3 DEF RemovesPeer, Blank
    <3>2. att[t].peer # att[s].peer
      <4>1. SUFFICES ASSUME att[t].peer = att[s].peer PROVE FALSE
        OBVIOUS
      <4>2. RoomOf[t] = RoomOf[s]
        BY <3>1, <4>1, SpeakerType DEF PeersPinnedToRoom
      <4> QED BY <2>1, <2>3, <4>1, <4>2 DEF RemovesPeer, HasOtherConnection, Listed, Runs
    <3>3. peers' = [peers EXCEPT ![att[s].group] = @ \ {att[s].peer}]
      BY <1>6, <2>3 DEF Depart
    <3> QED BY <2>1, <2>2, <3>1, <3>2, <3>3, SpeakerType DEF TypeOK
  <2>4. CASE ~RemovesPeer(s)
    BY <1>6, <2>1, <2>2, <2>4 DEF Depart
  <2> QED BY <2>3, <2>4
<1> QED BY <1>1, <1>2, <1>3, <1>4, <1>5, <1>6, MembershipCases

LEMMA TrackedInit == Init => ConnectedTracked
BY DEF Init, ConnectedTracked, Runs

\* No interleaving of late close events, handshakes, hibernation and restarts
\* makes the server forget a connected peer, if a peer id is used in one room.
THEOREM PeersTracked ==
    ASSUME PeersPinnedToRoom
    PROVE  Spec => []ConnectedTracked
<1>1. Init => ConnectedTracked
  BY TrackedInit
<1>2. TypeOK /\ ConnectedTracked /\ [Next]_vars => ConnectedTracked'
  BY TrackedStep
<1> QED BY <1>1, <1>2, TypeCorrect, PTL DEF Spec

-----------------------------------------------------------------------------
(* The alarm, and the digest registry.                                     *)

LEMMA AlarmStep ==
    ASSUME ~StorageFaults, TypeOK, AlarmArmed, [Next]_vars
    PROVE  AlarmArmed'
<1> SUFFICES ASSUME NEW t \in Sockets, conn'[t] = "open" PROVE armed'[RoomOf[t]]
  BY DEF AlarmArmed
<1>0. RoomOf[t] \in Rooms
  BY RoomAssumption
<1>1. ASSUME NEW r \in Rooms, Alarm(r) PROVE armed'[RoomOf[t]]
  <2>1. conn[t] = "open" /\ t \notin Dead(r)
    BY <1>1 DEF Alarm
  <2>2. CASE RoomOf[t] = r
    <3>1. Alive(r) # {}
      BY <2>1, <2>2 DEF Alive, Listed
    <3> QED BY <1>1, <2>2, <3>1 DEF Alarm, ScheduleCleanupAlarm, TypeOK
  <2>3. CASE RoomOf[t] # r
    <3>1. armed[RoomOf[t]]
      BY <2>1 DEF AlarmArmed
    <3>2. armed'[RoomOf[t]] = armed[RoomOf[t]]
      BY <1>0, <1>1, <2>3 DEF Alarm, ScheduleCleanupAlarm, TypeOK
    <3> QED BY <3>1, <3>2
  <2> QED BY <2>2, <2>3
<1>2. ASSUME NEW s \in Sockets, Fetch(s) PROVE armed'[RoomOf[t]]
  <2>1. armed' = [armed EXCEPT ![RoomOf[s]] = TRUE]
    BY <1>2 DEF Fetch, ScheduleCleanupAlarm
  <2>2. t = s \/ conn[t] = "open"
    BY <1>2 DEF Fetch, TypeOK
  <2> QED BY <1>0, <2>1, <2>2 DEF AlarmArmed, TypeOK
<1>3. ASSUME UNCHANGED armed, conn[t] = "open" PROVE armed'[RoomOf[t]]
  BY <1>3 DEF AlarmArmed
<1>4. ASSUME NEW s \in Sockets, Depart(s) PROVE conn[t] = "open" /\ UNCHANGED armed
  BY <1>4 DEF Depart, TypeOK
<1>5. ASSUME NEW s \in Sockets, NEW h, HandShakeRejected(s, h) PROVE conn[t] = "open" /\ UNCHANGED armed
  BY <1>5 DEF HandShakeRejected, TypeOK
<1>6. CASE UNCHANGED vars
  BY <1>3, <1>6 DEF vars
<1>7. CASE Next
  BY <1>1, <1>2, <1>3, <1>4, <1>5, <1>7, NextCases
     DEF Construct, Hibernate, Restart, HandShakeAccepted, Ping, RpcResp, ForwardMessage,
         SyncRouteInfo, GoStale, AgeRemoval, sockVars
<1> QED BY <1>6, <1>7

\* Unless storage fails, a room with an open socket has its alarm set, so
\* that no connection can outlive its client for good.
THEOREM AlarmStaysArmed ==
    ASSUME ~StorageFaults
    PROVE  Spec => []AlarmArmed
<1>1. Init => AlarmArmed
  BY DEF Init, AlarmArmed
<1>2. TypeOK /\ AlarmArmed /\ [Next]_vars => AlarmArmed'
  BY AlarmStep
<1> QED BY <1>1, <1>2, TypeCorrect, PTL DEF Spec

\* What OneDigestPerNetwork needs to be inductive: the registry knows.
DigestRegistered ==
    \A s \in Sockets : att[s] # Blank => registry[att[s].group.net] = att[s].group.digest

LEMMA DigestStep ==
    ASSUME ~Restarts, TypeOK, DigestRegistered, [Next]_vars
    PROVE  DigestRegistered'
<1> SUFFICES ASSUME NEW t \in Sockets, att'[t] # Blank
             PROVE  registry'[att'[t].group.net] = att'[t].group.digest
  BY DEF DigestRegistered, Blank
<1>1. ASSUME UNCHANGED registry, att'[t] \in {att[t], Blank}
      PROVE  registry'[att'[t].group.net] = att'[t].group.digest
  BY <1>1 DEF DigestRegistered
<1>2. ASSUME NEW s \in Sockets, NEW h \in Hellos[s], HandShakeAccepted(s, h)
      PROVE  registry'[att'[t].group.net] = att'[t].group.digest
  <2>1. registry' = [registry EXCEPT ![h.group.net] = h.group.digest]
    BY <1>2 DEF HandShakeAccepted
  <2>2. CASE t = s
    BY <1>2, <2>1, <2>2, HelloType DEF HandShakeAccepted, TypeOK
  <2>3. CASE t # s
    <3>1. att'[t] = att[t] /\ att[t] # Blank
      BY <1>2, <2>3 DEF HandShakeAccepted, TypeOK
    <3>2. registry[att[t].group.net] = att[t].group.digest /\ att[t].group.digest # NoDigest
      BY <3>1, SpeakerType, HelloType, DigestAssumption DEF DigestRegistered
    <3>3. att[t].group.net = h.group.net => att[t].group.digest = h.group.digest
      BY <1>2, <3>2 DEF HandShakeAccepted, DigestAccepted
    <3>4. att[t].group.net \in Networks
      BY <3>1, SpeakerType, HelloType
    <3> QED BY <2>1, <3>1, <3>2, <3>3, <3>4 DEF TypeOK
  <2> QED BY <2>2, <2>3
<1>3. ASSUME NEW s \in Sockets, Fetch(s) \/ Depart(s)
      PROVE  UNCHANGED registry /\ att'[t] \in {att[t], Blank}
  BY <1>3 DEF Fetch, Depart, TypeOK
<1>4. ~Restart
  BY DEF Restart
<1>5. CASE UNCHANGED vars
  BY <1>1, <1>5 DEF vars
<1>6. CASE Next
  BY <1>1, <1>2, <1>3, <1>4, <1>6, NextCases
     DEF Construct, Hibernate, Alarm, HandShakeRejected, Ping, RpcResp, ForwardMessage,
         SyncRouteInfo, GoStale, AgeRemoval, sockVars
<1> QED BY <1>5, <1>6

\* As long as the isolate lives, the first digest seen for a network name is
\* the only one any connected client was admitted with.
THEOREM DigestsAgree ==
    ASSUME ~Restarts
    PROVE  Spec => []OneDigestPerNetwork
<1>1. Init => DigestRegistered
  BY DEF Init, DigestRegistered
<1>2. TypeOK /\ DigestRegistered /\ [Next]_vars => DigestRegistered'
  BY DigestStep
<1>3. DigestRegistered => OneDigestPerNetwork
  BY DEF DigestRegistered, OneDigestPerNetwork
<1> QED BY <1>1, <1>2, <1>3, TypeCorrect, PTL DEF Spec
=============================================================================
