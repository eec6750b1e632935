--------------------------- MODULE PeerCenterProofs --------------------------
(* Proofs about Reaper and PeerCenter, for every value of the constants.   *)
EXTENDS PeerCenter, TLAPS

\* A room with an open socket has its alarm set, and the socket's silence will
\* not have passed the timeout by more than an interval when it is due.
InTime == \A s \in Sockets :
    conn[s] = "open" => armed /\ lastSeen[s] + due <= Timeout + Interval

ReaperInv == ReaperTypeOK /\ InTime

LEMMA Times == Timeout \in Nat /\ Interval \in Nat /\ Late \in Nat
BY TimeAssumption

\* What the alarm's time may be set to.
LEMMA DueRange == Interval \in -Late..Interval /\ 0 \in -Late..Interval
BY Times

LEMMA ReaperInitial == ReaperInit => ReaperInv
<1> SUFFICES ASSUME ReaperInit PROVE ReaperInv
  OBVIOUS
<1>1. 0 \in 0..(Deadline + 1)
  BY Times DEF Deadline
<1>2. ReaperTypeOK
  BY <1>1, DueRange DEF ReaperInit, ReaperTypeOK
<1>3. InTime
  BY DEF ReaperInit, InTime
<1> QED BY <1>2, <1>3 DEF ReaperInv

\* The age of a socket after a tick.
LEMMA OlderAge ==
    ASSUME NEW age \in 0..(Deadline + 1)
    PROVE  Older(age) \in 0..(Deadline + 1) /\ Older(age) <= age + 1
BY Times DEF Older, Deadline

\* Each step of the reaper preserves its invariant.
LEMMA ReaperStep ==
    ASSUME ReaperInv, ReaperNext
    PROVE  ReaperInv'
<1> USE Times DEF Deadline
<1> USE DEF ReaperInv, ReaperTypeOK, InTime
<1>1. CASE \E s \in Sockets : Fetch(s)
  BY <1>1 DEF Fetch, ScheduleCleanupAlarm
<1>2. CASE \E s \in Sockets : Handled(s) \/ Failed(s) \/ Refused(s) \/ Depart(s)
  <2> PICK s \in Sockets : Handled(s) \/ Failed(s) \/ Refused(s) \/ Depart(s)
    BY <1>2
  <2>1. CASE Handled(s)
    BY <2>1 DEF Handled
  <2>2. CASE Failed(s)
    BY <2>2 DEF Failed, reaperVars
  <2>3. CASE Refused(s)
    BY <2>3 DEF Refused
  <2>4. CASE Depart(s)
    BY <2>4 DEF Depart
  <2> QED BY <2>1, <2>2, <2>3, <2>4
<1>3. CASE Alarm
  <2>1. ReaperTypeOK'
    <3>1. conn' \in [Sockets -> {"free", "open", "closing"}]
      BY <1>3 DEF Alarm
    <3>2. armed' \in BOOLEAN /\ due' \in -Late..Interval
      BY <1>3, DueRange DEF Alarm, ScheduleCleanupAlarm
    <3> QED BY <1>3, <3>1, <3>2 DEF Alarm
  <2>2. ASSUME NEW s \in Sockets, conn'[s] = "open"
        PROVE  conn[s] = "open" /\ s \in Alive
    BY <1>3, <2>2 DEF Alarm, Dead, Alive, Listed
  <2>3. ASSUME NEW s \in Alive PROVE lastSeen[s] <= Timeout
    <3>1. s \in Sockets /\ ~(lastSeen[s] > Timeout)
      BY DEF Alive, Dead, Listed
    <3>2. lastSeen[s] \in Int
      BY <3>1
    <3> QED BY <3>1, <3>2
  <2>4. ASSUME NEW s \in Sockets, conn'[s] = "open"
        PROVE  armed' /\ lastSeen'[s] + due' <= Timeout + Interval
    <3>1. armed' = TRUE /\ due' = Interval /\ lastSeen' = lastSeen
      BY <1>3, <2>2, <2>4 DEF Alarm, ScheduleCleanupAlarm
    <3> QED BY <3>1, <2>2, <2>3, <2>4
  <2> QED BY <2>1, <2>4
<1>4. CASE Tick
  <2>1. ReaperTypeOK'
    BY <1>4, OlderAge DEF Tick
  <2>2. ASSUME NEW s \in Sockets, conn'[s] = "open"
        PROVE  armed' /\ lastSeen'[s] + due' <= Timeout + Interval
    <3>1. conn[s] = "open" /\ s \in Listed /\ armed' = armed
      BY <1>4, <2>2 DEF Tick, Listed
    <3>2. lastSeen'[s] = Older(lastSeen[s]) /\ due' = due - 1
      BY <1>4, <3>1 DEF Tick
    <3>3. Older(lastSeen[s]) \in Int /\ Older(lastSeen[s]) <= lastSeen[s] + 1
      BY OlderAge
    <3> QED BY <3>1, <3>2, <3>3
  <2> QED BY <2>1, <2>2
<1> QED BY <1>1, <1>2, <1>3, <1>4 DEF ReaperNext, SocketEvent

\* A step of the peer center is a step of the reaper, or leaves it alone.
LEMMA StepReaps == [Next]_vars => [ReaperNext]_reaperVars
<1> SUFFICES ASSUME [Next]_vars PROVE [ReaperNext]_reaperVars
  OBVIOUS
<1>1. ASSUME NEW s \in Sockets, Rpc(s) PROVE ReaperNext
  BY <1>1 DEF Rpc, ReaperNext, SocketEvent
<1> QED BY <1>1 DEF Next, ReportPeers, GetGlobalPeerMap, FetchPeer, Restart, Other,
                    ReaperNext, SocketEvent, vars, reaperVars

LEMMA ReaperAlways == Spec => []ReaperInv
<1>1. Init => ReaperInv
  BY ReaperInitial DEF Init
<1>2. ReaperInv /\ UNCHANGED reaperVars => ReaperInv'
  BY DEF ReaperInv, ReaperTypeOK, InTime, reaperVars
<1>3. ReaperInv /\ [Next]_vars => ReaperInv'
  BY <1>2, ReaperStep, StepReaps
<1> QED BY <1>1, <1>3, PTL DEF Spec

\* No open socket is silent for longer than SOCKET_TIMEOUT_MS, one
\* CLEANUP_INTERVAL_MS and the alarm's lateness.
THEOREM Reaped == Spec => []ReapedInTime
<1>1. ReaperInv => ReapedInTime
  BY Times DEF ReaperInv, ReaperTypeOK, InTime, ReapedInTime, Deadline
<1> QED BY <1>1, ReaperAlways, PTL

-----------------------------------------------------------------------------
(* The map and its digest.                                                 *)

Digests == {NoDigest} \cup SUBSET Pairs

CenterTypeOK ==
    /\ center \in [GroupKeys -> [map: Maps, digest: Digests]]
    /\ cache \in [Sockets -> [map: Maps, digest: Digests]]

\* A digest, the server's or one that a client keeps, is that of its own map.
Faithful(entry) == entry.digest # NoDigest => entry.digest = DOMAIN entry.map

CenterInv ==
    /\ CenterTypeOK
    /\ \A g \in GroupKeys : Faithful(center[g])
    /\ \A s \in Sockets : Faithful(cache[s])

LEMMA UnknownEntry ==
    Unknown \in [map: Maps, digest: Digests] /\ Faithful(Unknown) /\ DOMAIN Unknown.map = {}
<1>1. [e \in {} |-> e] \in [{} -> Infos]
  OBVIOUS
<1>2. [e \in {} |-> e] \in Maps
  BY <1>1 DEF Maps
<1> QED BY <1>2 DEF Unknown, Digests, Faithful

\* What a report inserts.
LEMMA InsertedMap ==
    ASSUME NEW map \in Maps, NEW src \in Reporters, NEW direct \in Records
    PROVE  /\ Inserted(map, src, direct) \in Maps
           /\ DOMAIN Inserted(map, src, direct) = DOMAIN map \cup ({src} \X DOMAIN direct)
           /\ {src} \X DOMAIN direct \in SUBSET Pairs
<1>1. PICK ts \in SUBSET Targets : direct \in [ts -> Infos]
  BY DEF Records
<1>2. PICK es \in SUBSET Pairs : map \in [es -> Infos]
  BY DEF Maps
<1> DEFINE pairs == {src} \X DOMAIN direct
           all == DOMAIN map \cup pairs
<1>3. pairs \in SUBSET Pairs
  BY <1>1 DEF Pairs
<1>4. Inserted(map, src, direct) = [e \in all |-> IF e \in pairs THEN direct[e[2]] ELSE map[e]]
  BY DEF Inserted
<1>5. ASSUME NEW e \in all PROVE (IF e \in pairs THEN direct[e[2]] ELSE map[e]) \in Infos
  BY <1>1, <1>2
<1>6. Inserted(map, src, direct) \in [all -> Infos]
  BY <1>4, <1>5
<1>7. all \in SUBSET Pairs
  BY <1>2, <1>3
<1> QED BY <1>3, <1>4, <1>6, <1>7 DEF Maps

LEMMA ReportedEntry ==
    ASSUME NEW entry \in [map: Maps, digest: Digests],
           NEW src \in Reporters, NEW direct \in Records
    PROVE  /\ Reported(entry, src, direct) \in [map: Maps, digest: Digests]
           /\ Faithful(Reported(entry, src, direct))
           /\ DOMAIN Reported(entry, src, direct).map
                = DOMAIN entry.map \cup ({src} \X DOMAIN direct)
<1> DEFINE map == Inserted(entry.map, src, direct)
<1>1. map \in Maps /\ DOMAIN map = DOMAIN entry.map \cup ({src} \X DOMAIN direct)
  BY InsertedMap
<1>2. DOMAIN map \in SUBSET Pairs
  BY <1>1 DEF Maps
<1>3. Reported(entry, src, direct) = [map |-> map, digest |-> DOMAIN map]
  BY DEF Reported, CalcDigest
<1> HIDE DEF map
<1> QED BY <1>1, <1>2, <1>3 DEF Digests, Faithful

\* Whom the group key of an RPC names.
LEMMA GroupsOfSockets == \A s \in Sockets : GroupOf[s] \in GroupKeys
BY GroupAssumption

LEMMA CenterStep ==
    ASSUME CenterInv, Next
    PROVE  CenterInv'
<1> USE DEF CenterInv, CenterTypeOK
<1>1. ASSUME NEW s \in Sockets, NEW src \in Reporters, NEW direct \in Records,
             ReportPeers(s, src, direct)
      PROVE  CenterInv'
  <2> DEFINE new == Reported(center[GroupOf[s]], src, direct)
  <2>1. center' = [center EXCEPT ![GroupOf[s]] = new] /\ cache' = cache
    BY <1>1 DEF ReportPeers
  <2>2. new \in [map: Maps, digest: Digests] /\ Faithful(new)
    BY GroupsOfSockets, ReportedEntry
  <2> HIDE DEF new
  <2> QED BY <2>1, <2>2 DEF Faithful
<1>2. ASSUME NEW s \in Sockets, GetGlobalPeerMap(s)
      PROVE  CenterInv'
  <2>1. center' = center
    BY <1>2 DEF GetGlobalPeerMap
  <2>2. Answered(center[GroupOf[s]], cache[s]) \in {center[GroupOf[s]], cache[s]}
    BY DEF Answered
  <2>3. cache' \in {cache, [cache EXCEPT ![s] = center[GroupOf[s]]], [cache EXCEPT ![s] = cache[s]]}
    BY <1>2, <2>2 DEF GetGlobalPeerMap
  <2> QED BY <2>1, <2>3, GroupsOfSockets DEF Faithful
<1>3. ASSUME NEW s \in Sockets, FetchPeer(s)
      PROVE  CenterInv'
  BY <1>3, UnknownEntry DEF FetchPeer, Faithful
<1>4. CASE Restart
  BY <1>4, UnknownEntry DEF Restart, Faithful
<1>5. CASE Other
  BY <1>5 DEF Other, centerVars, Faithful
<1> QED BY <1>1, <1>2, <1>3, <1>4, <1>5 DEF Next

LEMMA CenterAlways == Spec => []CenterInv
<1>1. Init => CenterInv
  BY UnknownEntry DEF Init, CenterInv, CenterTypeOK, Faithful
<1>2. CenterInv /\ UNCHANGED vars => CenterInv'
  BY DEF CenterInv, CenterTypeOK, Faithful, vars
<1>3. CenterInv /\ [Next]_vars => CenterInv'
  BY <1>2, CenterStep
<1> QED BY <1>1, <1>3, PTL DEF Spec

\* Every variable of the reaper and the peer center stays in its domain.
THEOREM TypeCorrect == Spec => []TypeOK
<1>1. ReaperInv /\ CenterInv => TypeOK
  BY DEF ReaperInv, CenterInv, CenterTypeOK, TypeOK, Digests
<1> QED BY <1>1, ReaperAlways, CenterAlways, PTL

\* "Unchanged" is said only to a client that has the pairs of the map.
THEOREM UnchangedIsTrue == Spec => []DigestSound
<1>1. ASSUME CenterInv, NEW s \in Sockets, UpToDate(center[GroupOf[s]], cache[s].digest)
      PROVE  DOMAIN cache[s].map = DOMAIN center[GroupOf[s]].map
  <2>1. /\ cache[s].digest = center[GroupOf[s]].digest
        /\ cache[s].digest # NoDigest
    BY <1>1 DEF UpToDate
  <2>2. Faithful(cache[s]) /\ Faithful(center[GroupOf[s]])
    BY <1>1, GroupsOfSockets DEF CenterInv
  <2> QED BY <2>1, <2>2 DEF Faithful
<1>2. CenterInv => DigestSound
  BY <1>1 DEF DigestSound
<1> QED BY <1>2, CenterAlways, PTL

-----------------------------------------------------------------------------
(* The peer center implements GlobalMap.                                   *)

known == [g \in GroupKeys |-> DOMAIN center[g].map]
view == [s \in Sockets |-> DOMAIN cache[s].map]

LEMMA MapStep ==
    ASSUME CenterInv, [Next]_vars
    PROVE  [Promise!MapNext]_<<known, view>>
<1> USE DEF CenterInv, CenterTypeOK
<1>1. ASSUME NEW s \in Sockets, NEW src \in Reporters, NEW direct \in Records,
             ReportPeers(s, src, direct)
      PROVE  Promise!MapNext
  <2> DEFINE ps == {src} \X DOMAIN direct
             k == GroupOf[s]
             new == Reported(center[k], src, direct)
  <2>1. k \in GroupKeys
    BY GroupsOfSockets
  <2>2. ps \in SUBSET Pairs
    BY InsertedMap, <2>1
  <2>3. DOMAIN new.map = DOMAIN center[k].map \cup ps
    BY <2>1, ReportedEntry
  <2>4. center' = [center EXCEPT ![k] = new] /\ view' = view
    BY <1>1 DEF ReportPeers, view
  <2> HIDE DEF new, ps, k
  <2>5. known' = [known EXCEPT ![k] = @ \cup ps]
    BY <2>1, <2>3, <2>4 DEF known
  <2>6. Promise!Learn(k, ps)
    BY <2>4, <2>5 DEF Promise!Learn, known, view
  <2> QED BY <2>1, <2>2, <2>6 DEF Promise!MapNext
<1>2. ASSUME NEW s \in Sockets, GetGlobalPeerMap(s)
      PROVE  Promise!MapNext \/ UNCHANGED <<known, view>>
  <2>1. known' = known
    BY <1>2 DEF GetGlobalPeerMap, known
  <2>2. cache' \in {cache, [cache EXCEPT ![s] = center[GroupOf[s]]], [cache EXCEPT ![s] = cache[s]]}
    BY <1>2 DEF GetGlobalPeerMap, Answered
  <2>3. CASE cache' = [cache EXCEPT ![s] = center[GroupOf[s]]]
    <3>1. view' = [view EXCEPT ![s] = known[GroupOf[s]]]
      BY <2>3, GroupsOfSockets DEF known, view
    <3>2. Promise!See(s)
      BY <2>1, <3>1 DEF Promise!See, known, view
    <3> QED BY <3>2 DEF Promise!MapNext
  <2>4. CASE cache' = [cache EXCEPT ![s] = cache[s]] \/ cache' = cache
    BY <2>1, <2>4 DEF view
  <2> QED BY <2>2, <2>3, <2>4
<1>3. ASSUME NEW s \in Sockets, FetchPeer(s)
      PROVE  Promise!MapNext
  <2>1. view' = [view EXCEPT ![s] = {}] /\ known' = known
    BY <1>3, UnknownEntry DEF FetchPeer, view, known
  <2>2. Promise!Arrive(s)
    BY <2>1 DEF Promise!Arrive, known, view
  <2> QED BY <2>2 DEF Promise!MapNext
<1>4. CASE Restart
  <2>1. known' = [g \in GroupKeys |-> {}] /\ view' = view
    BY <1>4, UnknownEntry DEF Restart, known, view
  <2>2. Promise!Forget
    BY <2>1 DEF Promise!Forget, known, view
  <2> QED BY <2>2 DEF Promise!MapNext
<1>5. CASE Other \/ UNCHANGED vars
  BY <1>5 DEF Other, centerVars, vars, known, view
<1> QED BY <1>1, <1>2, <1>3, <1>4, <1>5 DEF Next

\* Reports only add to the pairs of their group, and an answer leaves the
\* client with all of them or with what it has.
THEOREM ServesMap == Spec => MapServed
<1>1. Init => Promise!MapInit
  BY UnknownEntry DEF Init, Promise!MapInit
<1>2. CenterInv /\ [Next]_vars => [Promise!MapNext]_<<known, view>>
  BY MapStep
<1>3. Spec => Promise!MapInit /\ [][Promise!MapNext]_<<known, view>>
  BY <1>1, <1>2, CenterAlways, PTL DEF Spec
<1> QED BY <1>3, PTL DEF MapServed, Promise!Spec, known, view
=============================================================================
