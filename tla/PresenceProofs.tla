--------------------------- MODULE PresenceProofs ---------------------------
(***************************************************************************)
(* RelayRoom implements Presence: with disciplined clients the members are *)
(* the peers with a listed socket, so a step of the room is a Join, a      *)
(* Leave or a stutter of the service.                                      *)
(***************************************************************************)
EXTENDS RelayRoomPresence, MembershipProofs

\* A slot without a socket speaks for nobody.
FreeIsBlank == \A s \in Sockets : conn[s] = "free" => att[s] = Blank

LEMMA FreeStep ==
    ASSUME TypeOK, TypeOK', FreeIsBlank, [Next]_vars
    PROVE  FreeIsBlank'
<1>1. CASE Quiet \/ Restart \/ \E r \in Rooms : Construct(r)
  BY <1>1 DEF Quiet, Restart, Construct, FreeIsBlank, sockVars
<1>2. ASSUME NEW s \in Sockets, Fetch(s) PROVE FreeIsBlank'
  BY <1>2 DEF Fetch, FreeIsBlank, TypeOK
<1>3. ASSUME NEW s \in Sockets, NEW h \in Hellos[s], HandShakeAccepted(s, h) PROVE FreeIsBlank'
  BY <1>3 DEF HandShakeAccepted, Runs, FreeIsBlank, TypeOK
<1>4. ASSUME NEW s \in Sockets, Depart(s) PROVE FreeIsBlank'
  BY <1>4 DEF Depart, FreeIsBlank, TypeOK
<1> QED BY <1>1, <1>2, <1>3, <1>4, MembershipCases

LEMMA FreeSlots == Spec => []FreeIsBlank
<1>1. Init => FreeIsBlank
  BY DEF Init, FreeIsBlank
<1>2. TypeOK /\ TypeOK' /\ FreeIsBlank /\ [Next]_vars => FreeIsBlank'
  BY FreeStep
<1> QED BY <1>1, <1>2, TypeCorrect, PTL DEF Spec

-----------------------------------------------------------------------------
(* The members, seen through the mapping.                                  *)

SpeakersOf(g) == {p \in PeerIds : Present(g, p)}

LEMMA MembersAreSpeakers ==
    ASSUME Disciplined, TypeOK, ConnectedTracked, NoGhost, NEW g \in Groups
    PROVE  Members(g) = SpeakersOf(g)
<1>1. CASE ~Settled(g)
  BY <1>1 DEF Members, SpeakersOf
<1>2. CASE Settled(g)
  <2>1. peers[g] \subseteq SpeakersOf(g)
    BY DEF NoGhost, SpeakersOf, TypeOK
  <2>2. ASSUME NEW p \in SpeakersOf(g) PROVE p \in peers[g]
    <3>1. PICK s \in Sockets : conn[s] # "free" /\ att[s].group = g /\ att[s].peer = p
      BY <2>2 DEF SpeakersOf, Present, Speaks
    <3>2. booted[RoomOf[s]]
      BY <1>2, <3>1 DEF Settled
    <3>3. p # Zero
      BY <3>1, GroupMeansIdentified, DisciplinedSpeakers, ZeroAssumption
    <3> QED BY <3>1, <3>2, <3>3 DEF ConnectedTracked, Runs
  <2> QED BY <1>2, <2>1, <2>2 DEF Members
<1> QED BY <1>1, <1>2

Exact == \A g \in Groups : Members(g) = SpeakersOf(g)

LEMMA ExactMembers ==
    ASSUME Disciplined
    PROVE  Spec => []Exact
<1>1. TypeOK /\ ConnectedTracked /\ NoGhost => Exact
  BY MembersAreSpeakers DEF Exact
<1>2. Spec => []ConnectedTracked
  BY DisciplinePins, PeersTracked
<1> QED BY <1>1, <1>2, NoGhosts, TypeCorrect, PTL

-----------------------------------------------------------------------------
(* The steps.                                                              *)

Seen == [g \in Groups |-> Members(g)]

LEMMA SeenIsSpeakers ==
    ASSUME Exact, Exact'
    PROVE  /\ Seen = [g \in Groups |-> SpeakersOf(g)]
           /\ Seen' = [g \in Groups |-> SpeakersOf(g)']
BY DEF Exact, Seen

LEMMA SameSpeakersStutter ==
    ASSUME Exact, Exact', UNCHANGED att,
           \A s \in Sockets : (conn'[s] = "free" <=> conn[s] = "free") \/ att[s] = Blank
    PROVE  UNCHANGED <<att, Seen>>
<1>1. ASSUME NEW g \in Groups PROVE SpeakersOf(g)' = SpeakersOf(g)
  <2>1. \A s \in Sockets : att[s].group = g => att[s] # Blank
    BY GroupMeansIdentified
  <2> QED BY <2>1 DEF SpeakersOf, Present, Speaks
<1> QED BY <1>1, SeenIsSpeakers

\* An accepted handshake is a Join.
LEMMA HandShakeJoins ==
    ASSUME Disciplined, TypeOK, TypeOK', FreeIsBlank, Exact, Exact',
           NEW s \in Sockets, NEW h \in Hellos[s], HandShakeAccepted(s, h)
    PROVE  Service!Join(s, h)
<1>1. /\ att' = [att EXCEPT ![s] = h] /\ conn' = conn /\ conn[s] # "free"
      /\ att[s] \in {Blank, h}
  BY DisciplinePins DEF HandShakeAccepted, Runs
<1>2. att'[s] = h /\ \A t \in Sockets \ {s} : att'[t] = att[t]
  BY <1>1 DEF TypeOK
<1>3. ASSUME NEW g \in Groups
      PROVE  SpeakersOf(g)' = IF g = h.group THEN SpeakersOf(g) \cup {h.peer} ELSE SpeakersOf(g)
  <2>1. att[s].group = g => att[s] = h
    BY <1>1, GroupMeansIdentified
  <2>2. h.peer \in PeerIds
    BY HelloType
  <2> QED BY <1>1, <1>2, <2>1, <2>2 DEF SpeakersOf, Present, Speaks
<1>4. h.group \in Groups
  BY HelloType
<1>5. Seen' = [Seen EXCEPT ![h.group] = @ \cup {h.peer}]
  BY <1>3, <1>4, SeenIsSpeakers
<1> QED BY <1>1, <1>5 DEF Service!Join, Seen

\* The departure of an identified socket is a Leave.
LEMMA DepartLeaves ==
    ASSUME Disciplined, TypeOK, TypeOK', FreeIsBlank, Exact, Exact',
           NEW s \in Sockets, Depart(s), att[s] # Blank
    PROVE  Service!Leave(s)
<1> DEFINE k == att[s].group
           q == att[s].peer
<1>1. att' = [att EXCEPT ![s] = Blank]
  BY DEF Depart
<1>2. /\ conn'[s] = "free" /\ att'[s] = Blank /\ conn[s] # "free"
      /\ \A t \in Sockets \ {s} : att'[t] = att[t] /\ conn'[t] = conn[t]
  BY DEF Depart, Runs, TypeOK
<1>3. k \in Groups /\ q \in PeerIds
  BY SpeakerType
<1>4. \A g \in Groups, t \in Sockets : att[t].group = g => att[t] # Blank /\ conn[t] # "free"
  BY GroupMeansIdentified DEF FreeIsBlank
<1>5. \A t \in Sockets : att[t] # Blank => att[t] = [peer |-> att[t].peer, group |-> att[t].group]
  BY DEF TypeOK, Identities
<1>6. CASE Service!Last(s)
  <2>1. \A t \in Sockets \ {s} : ~(att[t].group = k /\ att[t].peer = q)
    BY <1>3, <1>4, <1>5, <1>6 DEF Service!Last
  <2>2. ASSUME NEW g \in Groups
        PROVE  SpeakersOf(g)' = IF g = k THEN SpeakersOf(g) \ {q} ELSE SpeakersOf(g)
    BY <1>2, <1>3, <1>4, <2>1 DEF SpeakersOf, Present, Speaks, Blank
  <2>3. Seen' = [Seen EXCEPT ![k] = @ \ {q}]
    BY <1>3, <2>2, SeenIsSpeakers
  <2> QED BY <1>1, <1>6, <2>3 DEF Service!Leave, Seen
<1>7. CASE ~Service!Last(s)
  <2>1. PICK u \in Sockets \ {s} : att[u] = att[s]
    BY <1>7 DEF Service!Last
  <2>2. ASSUME NEW g \in Groups PROVE SpeakersOf(g)' = SpeakersOf(g)
    BY <1>2, <1>4, <2>1 DEF SpeakersOf, Present, Speaks, Blank
  <2>3. Seen' = Seen
    BY <2>2, SeenIsSpeakers
  <2> QED BY <1>1, <1>7, <2>3 DEF Service!Leave, Seen
<1> QED BY <1>6, <1>7

LEMMA ServiceStep ==
    ASSUME Disciplined, TypeOK, TypeOK', FreeIsBlank, FreeIsBlank', Exact, Exact', [Next]_vars
    PROVE  Service!Next \/ UNCHANGED <<att, Seen>>
<1>1. CASE Quiet \/ Restart \/ \E r \in Rooms : Construct(r)
  BY <1>1, SameSpeakersStutter DEF Quiet, Restart, Construct, sockVars
<1>2. ASSUME NEW s \in Sockets, Fetch(s) PROVE UNCHANGED <<att, Seen>>
  <2>1. att[s] = Blank
    BY <1>2 DEF Fetch, FreeIsBlank
  <2>2. UNCHANGED att /\ \A t \in Sockets \ {s} : conn'[t] = conn[t]
    BY <1>2, <2>1 DEF Fetch, TypeOK
  <2> QED BY <2>1, <2>2, SameSpeakersStutter
<1>3. ASSUME NEW s \in Sockets, NEW h \in Hellos[s], HandShakeAccepted(s, h) PROVE Service!Next
  <2>1. Service!Join(s, h)
    BY <1>3, HandShakeJoins
  <2> QED BY <2>1, HelloType DEF Service!Next
<1>4. ASSUME NEW s \in Sockets, Depart(s) PROVE Service!Next \/ UNCHANGED <<att, Seen>>
  <2>1. CASE att[s] # Blank
    BY <1>4, <2>1, DepartLeaves DEF Service!Next
  <2>2. CASE att[s] = Blank
    <3>1. UNCHANGED att /\ \A t \in Sockets \ {s} : conn'[t] = conn[t]
      BY <1>4, <2>2 DEF Depart, TypeOK
    <3> QED BY <2>2, <3>1, SameSpeakersStutter
  <2> QED BY <2>1, <2>2
<1> QED BY <1>1, <1>2, <1>3, <1>4, MembershipCases

\* With disciplined clients the room is an implementation of Presence: no
\* order of its events is visible beyond joins and leaves.
THEOREM ImplementsPresence ==
    ASSUME Disciplined
    PROVE  Spec => PresenceKept
<1>1. Init => Service!Init
  <2>1. ASSUME Init, NEW g \in Groups PROVE Members(g) = {}
    <3>1. \A s \in Sockets : att[s].group # g
      BY <2>1, GroupAssumption DEF Init, Blank
    <3> QED BY <2>1, <3>1 DEF Init, Members, NoPeers, Present, Speaks
  <2> QED BY <2>1 DEF Init, Service!Init
<1>2. /\ TypeOK /\ TypeOK' /\ FreeIsBlank /\ FreeIsBlank' /\ Exact /\ Exact' /\ [Next]_vars
      => [Service!Next]_<<att, [g \in Groups |-> Members(g)]>>
  BY ServiceStep DEF Seen
<1> QED BY <1>1, <1>2, TypeCorrect, FreeSlots, ExactMembers, PTL DEF Spec, PresenceKept, Service!Spec
=============================================================================
