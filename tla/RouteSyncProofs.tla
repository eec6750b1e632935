--------------------------- MODULE RouteSyncProofs ---------------------------
(***************************************************************************)
(* Proofs about what synchronised clients hold: with tidy clients, every   *)
(* handler leaves an open connection's session, update and bitmap alone or *)
(* brings all three up to date together.                                   *)
(***************************************************************************)
EXTENDS RouteBits, RouteDataProofs, PresenceProofs, ConnBitsProofs

\* A tidy client has one connection at a time, in all rooms.
OneEach ==
    \A s \in Sockets : att[s] # Blank =>
        att[s].peer # Zero /\ \A t \in Sockets : att[t].peer = att[s].peer => t = s

\* A session that a client has acknowledged is that of a connected client.
SessionsOwned ==
    \A g \in Groups, p \in PeerIds :
        route[g].sess[p].dst # NoSid => \E s \in Sockets : Speaks(s, g, p)

BlankSeesNothing == \A s \in Sockets : att[s] = Blank => seen[s] = NoMap

Ground == TypeOK /\ RouteTyped /\ FreeIsBlank /\ OneEach
Books == SessionsOwned /\ BlankSeesNothing

-----------------------------------------------------------------------------
(* Broadcasts, one connection to a client.                                 *)

\* x and w are group data rt and the clients' views after updates were built
\* for the targets and sent to those that are open.
Sent(x, w, rt, members, cs, ids, status, targets, views) ==
    /\ \A t \in targets :
          /\ x.sess[ids[t].peer].dst = rt.sess[ids[t].peer].dst
          /\ x.sess[ids[t].peer].my = t
          /\ x.sess[ids[t].peer].sig = ConnBitmap(rt, members, cs, ids[t].peer)
          /\ w[t] = IF status[t] = "open" /\ SendsBitmap(rt, members, cs, ids[t].peer)
                    THEN ConnBitmap(rt, members, cs, ids[t].peer) ELSE views[t]
    /\ \A p \in PeerIds : (\A t \in targets : ids[t].peer # p) => x.sess[p] = rt.sess[p]
    /\ \A t \in Sockets \ targets : w[t] = views[t]

LEMMA OrderedPush ==
    ASSUME NEW rt \in RouteData, NEW members \in SUBSET PeerIds, NEW cs, NEW ids, NEW status,
           NEW targets \in SUBSET Sockets, \A t \in targets : ids[t].peer \in PeerIds,
           \A t, u \in targets : ids[t].peer = ids[u].peer => t = u,
           NEW o \in Orders(ids, targets), NEW views
    PROVE  Sent(Build(rt, members, cs, DOMAIN o.first, o.last),
                Delivered(views, status, rt, members, cs, o),
                rt, members, cs, ids, status, targets, views)
<1> DEFINE ps == DOMAIN o.first
           x == Build(rt, members, cs, ps, o.last)
           w == Delivered(views, status, rt, members, cs, o)
<1>1. /\ ps \in SUBSET PeerIds
      /\ \A p \in ps : o.last[p] \in Sockets
      /\ \A p \in ps : o.first[p] \in targets /\ ids[o.first[p]].peer = p
      /\ \A p \in ps : o.last[p] \in targets /\ ids[o.last[p]].peer = p
      /\ \A t \in targets : ids[t].peer \in ps
  BY OrderType
<1>2. \A t \in targets : o.first[ids[t].peer] = t /\ o.last[ids[t].peer] = t
  BY <1>1
<1>3. \A t \in targets, p \in ps : t = o.first[p] => p = ids[t].peer
  BY <1>1
<1>4. IsBuilt(x, rt, members, cs, ps, o.last)
  <2> HIDE DEF ps
  <2> QED BY <1>1, BuildEffect
<1>5. \A t \in Sockets : w[t] =
        IF \E p \in ps : t = o.first[p] /\ status[t] = "open" /\ SendsBitmap(rt, members, cs, p)
        THEN ConnBitmap(rt, members, cs, CHOOSE p \in ps : t = o.first[p])
        ELSE views[t]
  BY DEF Delivered
<1> HIDE DEF ps, x, w
<1>6. ASSUME NEW t \in targets
      PROVE  /\ x.sess[ids[t].peer].dst = rt.sess[ids[t].peer].dst
             /\ x.sess[ids[t].peer].my = t
             /\ x.sess[ids[t].peer].sig = ConnBitmap(rt, members, cs, ids[t].peer)
  <2>1. x.sess[ids[t].peer] = Pushed(rt, members, cs, o.last, ids[t].peer)
    BY <1>1, <1>4 DEF IsBuilt
  <2> QED BY <1>2, <2>1 DEF Pushed
<1>7. ASSUME NEW t \in targets
      PROVE  w[t] = IF status[t] = "open" /\ SendsBitmap(rt, members, cs, ids[t].peer)
                    THEN ConnBitmap(rt, members, cs, ids[t].peer) ELSE views[t]
  <2>1. (CHOOSE p \in ps : t = o.first[p]) = ids[t].peer
    BY <1>1, <1>2, <1>3
  <2>2. (\E p \in ps : t = o.first[p] /\ status[t] = "open" /\ SendsBitmap(rt, members, cs, p))
           <=> (status[t] = "open" /\ SendsBitmap(rt, members, cs, ids[t].peer))
    BY <1>1, <1>2, <1>3
  <2> QED BY <1>5, <2>1, <2>2
<1>8. \A t \in Sockets \ targets : w[t] = views[t]
  BY <1>1, <1>5
<1>9. \A p \in PeerIds : (\A t \in targets : ids[t].peer # p) => x.sess[p] = rt.sess[p]
  BY <1>1, <1>4 DEF IsBuilt
<1> QED BY <1>6, <1>7, <1>8, <1>9 DEF Sent, ps, x, w

\* Who is reached by a broadcast in group g is identified, and alone.
LEMMA TargetsType ==
    ASSUME TypeOK, OneEach, NEW g \in Groups, NEW status, NEW r, NEW exclude
    PROVE  LET targets == Targets(status, att, r, g, exclude)
           IN  /\ targets \in SUBSET Sockets
               /\ \A t \in targets : att[t].peer \in PeerIds /\ att[t] # Blank /\ att[t].group = g
               /\ \A t, u \in targets : att[t].peer = att[u].peer => t = u
<1> DEFINE targets == Targets(status, att, r, g, exclude)
<1>1. targets \in SUBSET Sockets /\ \A t \in targets : att[t].group = g
  BY DEF Targets
<1> HIDE DEF targets
<1>2. \A t \in targets : att[t] # Blank
  BY <1>1, GroupMeansIdentified
<1>3. \A t \in targets : att[t].peer \in PeerIds
  BY <1>1, <1>2, SpeakerType
<1>4. \A t, u \in targets : att[t].peer = att[u].peer => t = u
  BY <1>1, <1>2 DEF OneEach
<1> QED BY <1>1, <1>2, <1>3, <1>4 DEF targets

LEMMA BroadcastSent ==
    ASSUME TypeOK', OneEach', RouteTyped, NEW g \in Groups, NEW rt \in RouteData,
           NEW views \in [Sockets -> Maps], NEW cs, NEW exclude, NEW r,
           BroadcastRoute(g, rt, views, cs, exclude, r)
    PROVE  /\ \A k \in Groups \ {g} : route'[k] = route[k]
           /\ route'[g].ver = rt.ver
           /\ Sent(route'[g], seen', rt, peers'[g], cs, att', conn',
                   Targets(conn', att', r, g, exclude), views)
<1> DEFINE targets == Targets(conn', att', r, g, exclude)
<1>1. PICK o \in Orders(att', targets) :
        /\ route' = [route EXCEPT ![g] = Build(rt, peers'[g], cs, DOMAIN o.first, o.last)]
        /\ seen' = Delivered(views, conn', rt, peers'[g], cs, o)
  BY DEF BroadcastRoute
<1>2. /\ targets \in SUBSET Sockets
      /\ \A t \in targets : att'[t].peer \in PeerIds /\ att'[t] # Blank /\ att'[t].group = g
      /\ \A t, u \in targets : att'[t].peer = att'[u].peer => t = u
  <2>1. \A t \in Sockets : att'[t].group = g => att'[t] # Blank
    BY GroupAssumption DEF Blank
  <2>2. \A t \in Sockets : att'[t].peer \in PeerIds
    BY DEF TypeOK, Identities, Blank, PeerIds
  <2> QED BY <2>1, <2>2 DEF Targets, OneEach
<1> HIDE DEF targets
<1>3. peers'[g] \in SUBSET PeerIds
  BY DEF TypeOK
<1> DEFINE x == Build(rt, peers'[g], cs, DOMAIN o.first, o.last)
           w == Delivered(views, conn', rt, peers'[g], cs, o)
<1>4. Sent(x, w, rt, peers'[g], cs, att', conn', targets, views)
  BY <1>2, <1>3, OrderedPush
<1>5. x.ver = rt.ver
  BY DEF Build, RouteData
<1> HIDE DEF x, w
<1>6. route'[g] = x /\ seen' = w /\ \A k \in Groups \ {g} : route'[k] = route[k]
  BY <1>1 DEF RouteTyped, x, w
<1> QED BY <1>4, <1>5, <1>6 DEF targets

-----------------------------------------------------------------------------
(* What a step does to an open connection.                                 *)

\* The bitmap that t's client would be sent now.
Now(t) == ConnBitmap(route[att[t].group], peers[att[t].group], conns[att[t].group], att[t].peer)

\* Nothing changed for t but, maybe, that its session is a new one.
Kept(t) ==
    /\ conn[t] = "open" /\ att'[t] = att[t] /\ seen'[t] = seen[t] /\ told'[t] = told[t]
    /\ SessionOf(t)'.my = SessionOf(t).my
    /\ SessionOf(t)' = SessionOf(t) \/ SessionOf(t)'.sig = NoMap

\* t was sent an update: with its bitmap, or without because the signature
\* said that the client has it, or, on t's handshake, the one that is dropped.
Unsent(t) ==
    /\ seen'[t] = seen[t]
    /\ \/ att[t] = Blank /\ SessionOf(t)'.dst = NoSid
       \/ /\ conn[t] = "open" /\ att'[t] = att[t]
          /\ SessionOf(t).sig = Now(t)' /\ SessionOf(t).dst = SessionOf(t)'.dst

Reached(t) ==
    /\ told'[t] = peers'[att'[t].group] \cup {att'[t].peer}
    /\ SessionOf(t)'.my = t
    /\ SessionOf(t)'.sig = Now(t)'
    /\ att[t] = Blank \/ (conn[t] = "open" /\ att'[t] = att[t])
    /\ seen'[t] = Now(t)' \/ Unsent(t)

Stepped == \A t \in Sockets : InTouch(t)' => Kept(t) \/ Reached(t)

\* Who is not in touch is sent nothing.
Silent == \A t \in Sockets : ~InTouch(t)' => seen'[t] \in {seen[t], NoMap}

\* A group's bitmaps stay the same but for newer versions, or everybody who
\* stays has a newer version.  The server is left out: its row never changes,
\* and a client that claims its id takes its version along when it leaves.
Linked(cs, a, b) == a # b /\ cs[a] # NoReport /\ b \in cs[a]

Still(k) ==
    /\ peers'[k] = peers[k]
    /\ \A q \in peers[k] \ {Server} : route'[k].ver[q] >= route[k].ver[q]
    /\ \A a, b \in peers[k] : Linked(conns'[k], a, b) <=> Linked(conns[k], a, b)

Bumped(k) ==
    \A q \in (peers[k] \cap peers'[k]) \ {Server} : route'[k].ver[q] > route[k].ver[q]

\* Every identified client is a member.
TrackedAll == \A s \in Sockets : att[s] # Blank => att[s].peer \in peers[att[s].group]

Turned == \A k \in Groups : Still(k) \/ Bumped(k)

LEMMA SameIsStill ==
    ASSUME TypeOK, RouteTyped, NEW k \in Groups, peers'[k] = peers[k], conns'[k] = conns[k],
           route'[k].ver = route[k].ver \/ route'[k] \in Grown(route[k])
    PROVE  Still(k)
<1>1. peers[k] \subseteq PeerIds /\ route[k] \in RouteData
  BY DEF TypeOK, RouteTyped
<1>2. \A q \in Ids : route[k].ver[q] \in Nat
  BY <1>1 DEF RouteData
<1>3. \A q \in peers[k] \cup {Server} : q \in Ids
  BY <1>1 DEF Ids
<1>4. \A q \in peers[k] \cup {Server} : route'[k].ver[q] >= route[k].ver[q]
  BY <1>2, <1>3 DEF Grown
<1> QED BY <1>4 DEF Still


\* A bitmap depends on the connection versions of the group data only.
LEMMA SameVersions ==
    ASSUME NEW x, NEW rt, x.ver = rt.ver, NEW members, NEW cs, NEW p
    PROVE  ConnBitmap(x, members, cs, p) = ConnBitmap(rt, members, cs, p)
BY DEF ConnBitmap

LEMMA InTouchType ==
    ASSUME Ground', NEW t \in Sockets, InTouch(t)'
    PROVE  /\ conn'[t] = "open" /\ att'[t] # Blank
           /\ att'[t].group \in Groups /\ att'[t].peer \in PeerIds /\ att'[t].peer # Zero
           /\ \A u \in Sockets : att'[u].peer = att'[t].peer => u = t
<1>1. conn'[t] = "open" /\ att'[t] # Blank
  BY DEF InTouch
<1>2. att'[t] \in Hellos[t]
  BY <1>1 DEF Ground, TypeOK
<1> QED BY <1>1, <1>2, HelloType DEF Ground, OneEach

\* How the update to a target went.
LEMMA TargetReached ==
    ASSUME Ground', NEW t \in Sockets, InTouch(t)', NEW g, g = att'[t].group,
           NEW rt \in RouteData, NEW views, NEW targets, t \in targets,
           route'[g].ver = rt.ver,
           Sent(route'[g], seen', rt, peers'[g], conns'[g], att', conn', targets, views)
    PROVE  /\ SessionOf(t)'.dst = rt.sess[att'[t].peer].dst
           /\ SessionOf(t)'.my = t
           /\ SessionOf(t)'.sig = Now(t)'
           /\ \/ seen'[t] = Now(t)'
              \/ seen'[t] = views[t] /\ rt.sess[att'[t].peer].sig = Now(t)'
<1> DEFINE p == att'[t].peer
           B == ConnBitmap(rt, peers'[g], conns'[g], p)
<1>1. Now(t)' = B
  BY SameVersions DEF Now
<1>2. /\ route'[g].sess[p].dst = rt.sess[p].dst
      /\ route'[g].sess[p].my = t
      /\ route'[g].sess[p].sig = B
      /\ seen'[t] = IF conn'[t] = "open" /\ SendsBitmap(rt, peers'[g], conns'[g], p)
                    THEN B ELSE views[t]
  BY DEF Sent
<1>3. conn'[t] = "open"
  BY DEF InTouch
<1>4. SendsBitmap(rt, peers'[g], conns'[g], p) <=> rt.sess[p].sig # B
  BY DEF SendsBitmap
<1> HIDE DEF B
<1> QED BY <1>1, <1>2, <1>3, <1>4 DEF SessionOf

\* A client that others' news are broadcast to.
LEMMA BystanderStepped ==
    ASSUME Ground', NEW t \in Sockets, InTouch(t)', conn[t] = "open", att'[t] = att[t],
           NEW g \in Groups, NEW rt \in RouteData, NEW views, NEW exclude, NEW r,
           \A k \in Groups \ {g} : route'[k] = route[k],
           route'[g].ver = rt.ver,
           Sent(route'[g], seen', rt, peers'[g], conns'[g], att', conn',
                Targets(conn', att', r, g, exclude), views),
           views[t] = seen[t],
           att[t].group = g => rt.sess[att[t].peer] = route[g].sess[att[t].peer],
           told'[t] = IF t \in Receivers(conn', att', r, g, exclude)
                      THEN peers'[g] \cup {att[t].peer} ELSE told[t]
    PROVE  /\ Kept(t) \/ Reached(t)
           /\ t \in Targets(conn', att', r, g, exclude) => Reached(t)
<1> DEFINE targets == Targets(conn', att', r, g, exclude)
<1>1. /\ conn'[t] = "open" /\ att'[t].group \in Groups /\ att'[t].peer \in PeerIds
      /\ \A u \in Sockets : att'[u].peer = att'[t].peer => u = t
  BY InTouchType
<1>2. t \in targets <=> t \in Receivers(conn', att', r, g, exclude)
  BY <1>1 DEF Targets, Receivers
<1>3. targets \subseteq Sockets /\ \A u \in targets : att'[u].group = g
  BY DEF Targets
<1> HIDE DEF targets
<1>4. CASE t \in targets
  <2>1. att'[t].group = g
    BY <1>3, <1>4
  <2>2. /\ SessionOf(t)'.dst = rt.sess[att'[t].peer].dst
        /\ SessionOf(t)'.my = t
        /\ SessionOf(t)'.sig = Now(t)'
        /\ \/ seen'[t] = Now(t)'
           \/ seen'[t] = views[t] /\ rt.sess[att'[t].peer].sig = Now(t)'
    BY <1>4, <2>1, TargetReached DEF targets
  <2>3. rt.sess[att'[t].peer] = SessionOf(t)
    BY <2>1 DEF SessionOf
  <2>4. told'[t] = peers'[att'[t].group] \cup {att'[t].peer}
    BY <1>2, <1>4, <2>1
  <2> QED BY <2>2, <2>3, <2>4 DEF Reached, Unsent
<1>5. CASE t \notin targets
  <2>1. seen'[t] = seen[t] /\ told'[t] = told[t]
    BY <1>2, <1>5 DEF Sent, targets
  <2>2. SessionOf(t)' = SessionOf(t)
    <3>1. CASE att[t].group = g
      <4>1. \A u \in targets : att'[u].peer # att'[t].peer
        BY <1>1, <1>3, <1>5
      <4>2. route'[g].sess[att[t].peer] = rt.sess[att[t].peer]
        BY <1>1, <4>1 DEF Sent, targets
      <4> QED BY <3>1, <4>2 DEF SessionOf
    <3>2. CASE att[t].group # g
      BY <1>1, <3>2 DEF SessionOf
    <3> QED BY <3>1, <3>2
  <2> QED BY <1>5, <2>1, <2>2 DEF Kept, targets
<1> QED BY <1>4, <1>5 DEF targets

LEMMA SentSilent ==
    ASSUME NEW x, NEW w, NEW rt, NEW members, NEW cs, NEW ids, NEW status, NEW views,
           NEW r, NEW g \in Groups, NEW exclude,
           Sent(x, w, rt, members, cs, ids, status, Targets(status, ids, r, g, exclude), views),
           NEW t \in Sockets, ~(status[t] = "open" /\ ids[t] # Blank)
    PROVE  w[t] = views[t]
<1> DEFINE targets == Targets(status, ids, r, g, exclude)
<1>1. t \in targets => status[t] # "open"
  BY GroupAssumption DEF Targets, Blank
<1> HIDE DEF targets
<1> QED BY <1>1 DEF Sent, targets

LEMMA SentOwns ==
    ASSUME NEW x, NEW w, NEW rt, NEW members, NEW cs, NEW ids, NEW status, NEW targets, NEW views,
           Sent(x, w, rt, members, cs, ids, status, targets, views), NEW p \in PeerIds
    PROVE  x.sess[p].dst = rt.sess[p].dst
<1>1. CASE \E t \in targets : ids[t].peer = p
  BY <1>1 DEF Sent
<1>2. CASE ~\E t \in targets : ids[t].peer = p
  BY <1>2 DEF Sent
<1> QED BY <1>1, <1>2

\* Sessions stay owned: an acknowledged session was so before or is of a client
\* that is connected, and who leaves has its session ended.
LEMMA BooksKept ==
    ASSUME Books,
           \A g \in Groups, p \in PeerIds : route'[g].sess[p].dst # NoSid =>
               route[g].sess[p].dst # NoSid \/ \E s \in Sockets : att'[s].group = g /\ att'[s].peer = p,
           \A s \in Sockets : (att[s] # Blank /\ att[s].group \in Groups) =>
               att'[s] = att[s] \/ route'[att[s].group].sess[att[s].peer].dst = NoSid,
           \A s \in Sockets : att'[s] = Blank =>
               seen'[s] = NoMap \/ (seen'[s] = seen[s] /\ att[s] = Blank)
    PROVE  Books'
<1>1. BlankSeesNothing'
  BY DEF Books, BlankSeesNothing
<1>2. ASSUME NEW g \in Groups, NEW p \in PeerIds, route'[g].sess[p].dst # NoSid
      PROVE  \E s \in Sockets : att'[s].group = g /\ att'[s].peer = p
  <2> SUFFICES ASSUME route[g].sess[p].dst # NoSid
               PROVE  \E s \in Sockets : att'[s].group = g /\ att'[s].peer = p
    BY <1>2
  <2>1. PICK s \in Sockets : att[s].group = g /\ att[s].peer = p
    BY DEF Books, SessionsOwned, Speaks
  <2>2. att[s] # Blank
    BY <2>1, GroupMeansIdentified
  <2> QED BY <1>2, <2>1, <2>2
<1> QED BY <1>1, <1>2 DEF Books, SessionsOwned, Speaks

LEMMA HandShakeStepped ==
    ASSUME Tidy, Ground, Ground', Books, NEW s \in Sockets, NEW h \in Hellos[s],
           RouteHandShake(s, h)
    PROVE  /\ Stepped /\ Silent /\ Turned /\ Books'
           /\ \A t \in Sockets : (InTouch(t)' /\ att'[t].group = h.group /\ RoomOf[t] = RoomOf[s])
                                     => Reached(t)
<1> DEFINE g == h.group
           p == h.peer
           added == AddPeer(route[g], peers[g], p)
           item == [id |-> p, ver |-> 1]
           known == UpdatePeerInfo(added, peers'[g], item)
           socks == [q \in {p} |-> s]
           built == Build(known, peers'[g], conns[g], {p}, socks)
           targets == Targets(conn', att', RoomOf[s], g, Zero)
<1>1. /\ g \in Groups /\ p \in PeerIds /\ p \in Ids /\ route[g] \in RouteData
      /\ peers'[g] \in SUBSET PeerIds
  BY HelloType DEF Ground, RouteTyped, TypeOK, Ids
<1>2. HandShakeAccepted(s, h) /\ TidyHello(s, h) /\ CanSend(s)
  BY DEF RouteHandShake, TidyHello, CanSend
<1>3. /\ conn' = conn /\ conns' = conns /\ att' = [att EXCEPT ![s] = h]
      /\ told' = AfterBroadcast(conn, att', peers', RoomOf[s], {g}, Zero)
      /\ conn[s] = "open" /\ att[s] = Blank /\ \A t \in Sockets : att[t].peer # p
  BY <1>2 DEF HandShakeAccepted, TidyHello, CanSend
<1>4. BroadcastRoute(g, built, seen, conns'[g], Zero, RoomOf[s])
  BY <1>2, <1>3 DEF RouteHandShake
<1>5. item.id \in Ids /\ item.ver \in Nat
  BY <1>1
<1> HIDE DEF item
<1>6. /\ known \in RouteData /\ known.sess = route[g].sess /\ known \in Grown(route[g])
      /\ p \notin peers[g] =>
            /\ known.ver[Server] > route[g].ver[Server]
            /\ \A q \in Ids : q \in peers[g] => known.ver[q] > route[g].ver[q]
  <2>1. /\ added \in Grown(route[g])
        /\ p \notin peers[g] =>
              /\ added.ver[Server] > route[g].ver[Server]
              /\ \A q \in Ids : q \in peers[g] => added.ver[q] > route[g].ver[q]
    BY <1>1, AddPeerGrows
  <2> HIDE DEF added
  <2>2. added \in RouteData
    BY <2>1 DEF Grown
  <2>3. known \in Grown(added)
    BY <1>5, <2>2, UpdateGrows
  <2> HIDE DEF known
  <2>4. known \in RouteData /\ known.sess = route[g].sess /\ known \in Grown(route[g])
    BY <1>1, <2>1, <2>3, GrownTransitive DEF Grown
  <2>5. \A q \in Ids : /\ known.ver[q] >= added.ver[q]
                       /\ known.ver[q] \in Nat /\ added.ver[q] \in Nat /\ route[g].ver[q] \in Nat
    BY <1>1, <2>2, <2>3, <2>4 DEF Grown, RouteData
  <2>6. \A q \in Ids : added.ver[q] > route[g].ver[q] => known.ver[q] > route[g].ver[q]
    BY <2>5
  <2> QED BY <2>1, <2>4, <2>6 DEF Ids
<1> HIDE DEF known
<1>7. /\ built \in RouteData /\ built.ver = known.ver
      /\ built.sess[p].dst = route[g].sess[p].dst
      /\ \A q \in PeerIds \ {p} : built.sess[q] = route[g].sess[q]
  <2>1. {p} \in SUBSET PeerIds /\ \A q \in {p} : socks[q] \in Sockets
    BY <1>1
  <2> HIDE DEF socks
  <2>2. IsBuilt(built, known, peers'[g], conns[g], {p}, socks)
    BY <1>1, <1>6, <2>1, BuildEffect
  <2> HIDE DEF built
  <2>3. built.sess[p].dst = known.sess[p].dst
    BY <2>2 DEF IsBuilt, Pushed
  <2>4. built \in RouteData /\ built.ver = known.ver /\ \A q \in PeerIds \ {p} : built.sess[q] = known.sess[q]
    BY <2>2 DEF IsBuilt
  <2> QED BY <1>6, <2>3, <2>4
<1> HIDE DEF built
<1>8. /\ \A k \in Groups \ {g} : route'[k] = route[k]
      /\ route'[g].ver = built.ver
      /\ Sent(route'[g], seen', built, peers'[g], conns'[g], att', conn', targets, seen)
  BY <1>1, <1>4, <1>7, BroadcastSent DEF Ground, RouteTyped
<1>9. route[g].sess[p].dst = NoSid
  BY <1>1, <1>3 DEF Books, SessionsOwned, Speaks
<1>B. Books'
  <2>1. \A k \in Groups, q \in PeerIds : route'[k].sess[q].dst = route[k].sess[q].dst
    <3>1. \A q \in PeerIds : route'[g].sess[q].dst = built.sess[q].dst
      <4> HIDE DEF g, p, targets
      <4> QED BY <1>8, SentOwns
    <3> HIDE DEF g, p
    <3> QED BY <1>7, <1>8, <3>1
  <2>2. \A u \in Sockets : att[u] # Blank => att'[u] = att[u]
    BY <1>3 DEF Ground, TypeOK
  <2>3. ASSUME NEW u \in Sockets, att'[u] = Blank PROVE seen'[u] = seen[u] /\ att[u] = Blank
    <3>1. u \notin targets
      BY <2>3, GroupAssumption DEF Targets, Blank, Groups
    <3>2. seen'[u] = seen[u]
      <4> HIDE DEF targets
      <4> QED BY <1>8, <3>1 DEF Sent
    <3> QED BY <2>2, <2>3, <3>2
  <2> QED BY <2>1, <2>2, <2>3, BooksKept
<1>C. Silent
  <2> SUFFICES ASSUME NEW u \in Sockets, ~InTouch(u)' PROVE seen'[u] = seen[u]
    BY DEF Silent
  <2> HIDE DEF g, p
  <2>1. Sent(route'[g], seen', built, peers'[g], conns'[g], att', conn',
             Targets(conn', att', RoomOf[s], g, Zero), seen)
    BY <1>8
  <2> QED BY <1>1, <2>1, SentSilent DEF InTouch
<1>D. Turned
  <2>1. \A k \in Groups \ {g} : peers'[k] = peers[k] /\ conns'[k] = conns[k] /\ route'[k] = route[k]
    BY <1>2, <1>3, <1>8 DEF HandShakeAccepted, Ground, TypeOK
  <2>2. peers'[g] = peers[g] \cup {p} /\ conns'[g] = conns[g] /\ route'[g].ver = known.ver
    BY <1>1, <1>2, <1>3, <1>7, <1>8 DEF HandShakeAccepted, Ground, TypeOK
  <2>3. CASE p \in peers[g]
    <3>1. route'[g] \in Grown(route[g]) \/ Still(g)
      <4> HIDE DEF g, p
      <4>1. \A q \in Ids : known.ver[q] >= route[g].ver[q]
        BY <1>6 DEF Grown
      <4>2. \A q \in peers[g] \cup {Server} : q \in Ids
        BY <1>1 DEF Ids, Ground, TypeOK
      <4> QED BY <2>2, <2>3, <4>1, <4>2 DEF Still
    <3>2. Still(g)
      BY <1>1, <2>2, <2>3, <3>1, SameIsStill DEF Ground
    <3> QED BY <2>1, <3>2, SameIsStill DEF Turned, Ground
  <2>4. CASE p \notin peers[g]
    <3>1. Bumped(g)
      <4> HIDE DEF g, p
      <4> QED BY <1>1, <1>6, <2>2, <2>4 DEF Bumped, Ids, Ground, TypeOK
    <3> QED BY <2>1, <3>1, SameIsStill DEF Turned, Ground
  <2> QED BY <2>3, <2>4
<1> SUFFICES ASSUME NEW t \in Sockets, InTouch(t)'
             PROVE  /\ Kept(t) \/ Reached(t)
                    /\ (att'[t].group = g /\ RoomOf[t] = RoomOf[s]) => Reached(t)
  BY <1>B, <1>C, <1>D DEF Stepped
<1>10. told'[t] = IF t \in Receivers(conn', att', RoomOf[s], g, Zero)
                  THEN peers'[g] \cup {att'[t].peer} ELSE told[t]
  <2>1. told'[t] = IF \E k \in {g} : t \in Receivers(conn, att', RoomOf[s], k, Zero)
                   THEN peers'[att'[t].group] \cup {att'[t].peer} ELSE told[t]
    BY <1>3 DEF AfterBroadcast, RouteUpdate
  <2>2. t \in Receivers(conn, att', RoomOf[s], g, Zero) => att'[t].group = g
    BY DEF Receivers
  <2> QED BY <1>3, <2>1, <2>2
<1>11. CASE t = s
  <2>1. att'[t] = h /\ att'[t].group = g /\ att'[t].peer = p
    BY <1>3, <1>11 DEF Ground, TypeOK
  <2>2. t \in targets /\ t \in Receivers(conn', att', RoomOf[s], g, Zero)
    BY <1>3, <1>11, <2>1, InTouchType DEF Targets, Receivers
  <2> HIDE DEF g, p, targets
  <2>3. /\ SessionOf(t)'.dst = built.sess[att'[t].peer].dst
        /\ SessionOf(t)'.my = t
        /\ SessionOf(t)'.sig = Now(t)'
        /\ \/ seen'[t] = Now(t)'
           \/ seen'[t] = seen[t] /\ built.sess[att'[t].peer].sig = Now(t)'
    <3>1. Sent(route'[g], seen', built, peers'[g], conns'[g], att', conn', targets, seen)
      BY <1>8
    <3>2. built \in RouteData /\ route'[g].ver = built.ver /\ g = att'[t].group /\ t \in targets
      BY <1>7, <1>8, <2>1, <2>2
    <3> QED BY <3>1, <3>2, TargetReached
  <2> QED BY <1>3, <1>7, <1>9, <1>10, <1>11, <2>1, <2>2, <2>3 DEF Reached, Unsent
<1>12. CASE t # s
  <2>1. att'[t] = att[t] /\ conn[t] = "open"
    BY <1>3, <1>12, InTouchType DEF Ground, TypeOK
  <2>2. att[t].peer \in PeerIds \ {p}
    BY <1>3, <2>1, InTouchType
  <2> HIDE DEF g, p
  <2>3. Sent(route'[g], seen', built, peers'[g], conns'[g], att', conn',
             Targets(conn', att', RoomOf[s], g, Zero), seen)
    BY <1>8
  <2>4. /\ \A k \in Groups \ {g} : route'[k] = route[k]
        /\ route'[g].ver = built.ver /\ built \in RouteData
    BY <1>7, <1>8
  <2>5. built.sess[att[t].peer] = route[g].sess[att[t].peer]
    BY <1>7, <2>2
  <2>6. told'[t] = IF t \in Receivers(conn', att', RoomOf[s], g, Zero)
                   THEN peers'[g] \cup {att[t].peer} ELSE told[t]
    BY <1>10, <2>1
  <2>7. /\ Kept(t) \/ Reached(t)
        /\ t \in Targets(conn', att', RoomOf[s], g, Zero) => Reached(t)
    BY <1>1, <2>1, <2>3, <2>4, <2>5, <2>6, BystanderStepped
  <2> QED BY <2>7, InTouchType DEF Targets
<1> QED BY <1>11, <1>12

\* Who is untouched by a write to the data of another group or peer.
LEMMA OthersKept ==
    ASSUME NEW t \in Sockets, conn[t] = "open", att'[t] = att[t], seen'[t] = seen[t],
           told'[t] = told[t],
           route'[att[t].group].sess[att[t].peer] = route[att[t].group].sess[att[t].peer]
    PROVE  Kept(t)
BY DEF Kept, SessionOf

LEMMA RespStepped ==
    ASSUME Tidy, Ground, Ground', Books, NEW s \in Sockets, NEW from \in Peers, NEW sid \in Sids,
           RouteResp(s, from, sid)
    PROVE  Stepped /\ Silent /\ Turned /\ Books'
<1> DEFINE g == att[s].group
           rt == SessionAck(route[g], from, sid)
<1>1. g \in Groups /\ from \in PeerIds /\ route[g] \in RouteData /\ att[s].peer = from
  BY SpeakerType DEF RouteResp, Ground, RouteTyped, PeerIds
<1>2. /\ conn' = conn /\ att' = att /\ told' = told
      /\ route' = [route EXCEPT ![g] = rt] /\ seen' = seen
  BY DEF RouteResp, RpcResp
<1>3. route'[g] = rt /\ \A k \in Groups \ {g} : route'[k] = route[k]
  BY <1>1, <1>2 DEF Ground, RouteTyped
<1>4. /\ rt \in RouteData /\ rt.ver = route[g].ver
      /\ \A q \in PeerIds \ {from} : rt.sess[q] = route[g].sess[q]
      /\ rt.sess[from].dst = sid
      /\ rt.sess[from].my = route[g].sess[from].my
      /\ rt.sess[from].sig = IF route[g].sess[from].dst = sid THEN route[g].sess[from].sig ELSE NoMap
  <2> HIDE DEF g
  <2> QED BY <1>1, AckEffect
<1>5. rt.sess[from] = route[g].sess[from] \/ rt.sess[from].sig = NoMap
  <2> HIDE DEF g, rt
  <2> QED BY <1>1, <1>4, SessionType
<1>B. Books'
  <2>1. \A k \in Groups, q \in PeerIds :
          route'[k].sess[q].dst = route[k].sess[q].dst \/ (att[s].group = k /\ att[s].peer = q)
    <3> HIDE DEF rt
    <3> QED BY <1>1, <1>3, <1>4
  <2> QED BY <1>2, <2>1, BooksKept
<1>D. Turned
  <2>1. peers' = peers /\ conns' = conns /\ \A k \in Groups : route'[k].ver = route[k].ver
    BY <1>3, <1>4 DEF RouteResp, RpcResp, groupVars
  <2> QED BY <2>1, SameIsStill DEF Turned, Ground
<1> SUFFICES ASSUME NEW t \in Sockets, InTouch(t)' PROVE Kept(t)
  BY <1>2, <1>B, <1>D DEF Stepped, Silent
<1>6. CASE att[t].group = g /\ att[t].peer = from
  <2>1. SessionOf(t)' = rt.sess[from] /\ SessionOf(t) = route[g].sess[from]
    BY <1>2, <1>3, <1>6 DEF SessionOf
  <2> HIDE DEF rt
  <2> QED BY <1>2, <1>4, <1>5, <2>1, InTouchType DEF Kept
<1>7. CASE ~(att[t].group = g /\ att[t].peer = from)
  <2>1. att[t].group \in Groups /\ att[t].peer \in PeerIds /\ conn[t] = "open"
    BY <1>2, InTouchType
  <2>2. route'[att[t].group].sess[att[t].peer] = route[att[t].group].sess[att[t].peer]
    <3> HIDE DEF g, rt
    <3> QED BY <1>3, <1>4, <1>7, <2>1
  <2> QED BY <1>2, <2>1, <2>2, OthersKept
<1> QED BY <1>6, <1>7

\* The last connection of a tidy client removes it; one that never did a
\* handshake removes nobody.
LEMMA RemovesWho ==
    ASSUME OneEach, NEW s \in Sockets
    PROVE  RemovesPeer(s) <=> att[s] # Blank
BY DEF OneEach, RemovesPeer, HasOtherConnection, Listed, Blank

LEMMA DepartStepped ==
    ASSUME Ground, Ground', Books, NEW s \in Sockets, RouteDepart(s)
    PROVE  /\ Stepped /\ Silent /\ Turned /\ Books'
           /\ \A t \in Sockets : (/\ InTouch(t)' /\ RemovesPeer(s)
                                    /\ att[t].group = att[s].group /\ RoomOf[t] = RoomOf[s])
                                     => Reached(t)
<1> DEFINE g == att[s].group
           p == att[s].peer
           rt == RemovePeer(route[g], peers[g], p)
           views == [seen EXCEPT ![s] = NoMap]
<1>1. Depart(s)
  BY DEF RouteDepart
<1>2. /\ conn' = [conn EXCEPT ![s] = "free"] /\ att' = [att EXCEPT ![s] = Blank] /\ conns' = conns
      /\ att'[s] = Blank /\ conn'[s] = "free"
      /\ \A t \in Sockets \ {s} : conn'[t] = conn[t] /\ att'[t] = att[t] /\ views[t] = seen[t]
  BY <1>1 DEF Depart, Ground, TypeOK, RouteTyped
<1>3. views \in [Sockets -> Maps]
  BY DEF Ground, RouteTyped, Maps
<1>B. Books' /\ Silent /\ Turned
  <2>1. CASE RemovesPeer(s)
    <3>1. g \in Groups /\ p \in PeerIds /\ route[g] \in RouteData
      BY <2>1, SpeakerType DEF RemovesPeer, Blank, Ground, RouteTyped
    <3>2. BroadcastRoute(g, rt, views, conns[g], p, RoomOf[s])
      BY <2>1 DEF RouteDepart
    <3> DEFINE targets == Targets(conn', att', RoomOf[s], g, p)
    <3>3. \A u \in targets : att'[u] # Blank
      BY <3>1, GroupAssumption DEF Targets, Blank
    <3> HIDE DEF targets, views, g, p
    <3>4. /\ rt \in RouteData /\ rt.sess[p] = NoSession
          /\ \A q \in PeerIds \ {p} : rt.sess[q] = route[g].sess[q]
          /\ \A q \in Ids \ {p} : rt.ver[q] >= route[g].ver[q]
          /\ p \in peers[g] =>
                \A q \in Ids \ {p} : q \in peers[g] => rt.ver[q] > route[g].ver[q]
      BY <3>1, RemoveEffect
    <3> HIDE DEF rt
    <3>5. /\ \A k \in Groups \ {g} : route'[k] = route[k]
          /\ route'[g].ver = rt.ver
          /\ Sent(route'[g], seen', rt, peers'[g], conns[g], att', conn', targets, views)
      BY <1>3, <3>1, <3>2, <3>4, BroadcastSent DEF Ground, targets
    <3>6. \A q \in PeerIds : route'[g].sess[q].dst = rt.sess[q].dst
      BY <3>5, SentOwns
    <3>7. \A k \in Groups, q \in PeerIds :
            route'[k].sess[q].dst # NoSid => route[k].sess[q].dst # NoSid
      BY <3>4, <3>5, <3>6 DEF NoSession
    <3>8. \A u \in Sockets : att'[u] = Blank => seen'[u] = views[u]
      BY <3>3, <3>5 DEF Sent
    <3>9. \A u \in Sockets : att'[u] = Blank =>
            seen'[u] = NoMap \/ (seen'[u] = seen[u] /\ att[u] = Blank)
      BY <1>2, <3>8 DEF views, Ground, RouteTyped
    <3>10. \A u \in Sockets : att'[u] = att[u] \/ route'[att[u].group].sess[att[u].peer].dst = NoSid
      BY <1>2, <3>1, <3>4, <3>6 DEF g, p, NoSession
    <3>11. Silent
      <4>1. ASSUME NEW u \in Sockets, ~InTouch(u)' PROVE seen'[u] = views[u]
        BY <3>1, <3>5, <4>1, SentSilent DEF InTouch, targets
      <4> QED BY <1>2, <4>1 DEF Silent, views, Ground, RouteTyped
    <3>12. Turned
      <4>1. /\ peers'[g] = peers[g] \ {p} /\ conns' = conns
            /\ \A k \in Groups \ {g} : peers'[k] = peers[k]
        <5>1. peers' = [peers EXCEPT ![g] = @ \ {p}] /\ conns' = conns
          BY <1>1, <2>1 DEF Depart, g, p
        <5> QED BY <3>1, <5>1 DEF Ground, TypeOK
      <4>2. \A q \in peers[g] : q \in Ids
        BY <3>1 DEF Ground, TypeOK, Ids
      <4>3. CASE p \in peers[g]
        <5>1. Bumped(g)
          BY <3>4, <3>5, <4>1, <4>2, <4>3 DEF Bumped
        <5> QED BY <3>5, <4>1, <5>1, SameIsStill DEF Turned, Ground
      <4>4. CASE p \notin peers[g]
        <5>1. Still(g)
          BY <3>4, <3>5, <4>1, <4>2, <4>4 DEF Still
        <5> QED BY <3>5, <4>1, <5>1, SameIsStill DEF Turned, Ground
      <4> QED BY <4>3, <4>4
    <3> QED BY <3>7, <3>9, <3>10, <3>11, <3>12, BooksKept
  <2>2. CASE ~RemovesPeer(s)
    <3>1. route' = route /\ seen' = views /\ att[s] = Blank
      BY <2>2, RemovesWho DEF RouteDepart, Ground
    <3>2. \A u \in Sockets : att'[u] = att[u]
      BY <1>2, <3>1
    <3>3. \A u \in Sockets : views[u] = seen[u] \/ views[u] = NoMap
      BY <1>2 DEF Ground, RouteTyped
    <3>4. Turned
      <4>1. peers' = peers /\ conns' = conns
        BY <1>1, <2>2 DEF Depart
      <4> QED BY <3>1, <4>1, SameIsStill DEF Turned, Ground
    <3> HIDE DEF views
    <3> QED BY <3>1, <3>2, <3>3, <3>4, BooksKept DEF Silent
  <2> QED BY <2>1, <2>2
<1> SUFFICES ASSUME NEW t \in Sockets, InTouch(t)'
             PROVE  /\ Kept(t) \/ Reached(t)
                    /\ (RemovesPeer(s) /\ att[t].group = g /\ RoomOf[t] = RoomOf[s]) => Reached(t)
  BY <1>B DEF Stepped
<1>4. t # s /\ att'[t] = att[t] /\ conn[t] = "open" /\ views[t] = seen[t]
  BY <1>2, InTouchType
<1>5. CASE RemovesPeer(s)
  <2>1. g \in Groups /\ p \in PeerIds /\ route[g] \in RouteData
    BY <1>5, SpeakerType DEF RemovesPeer, Blank, Ground, RouteTyped
  <2>2. BroadcastRoute(g, rt, views, conns'[g], p, RoomOf[s])
    BY <1>2, <1>5 DEF RouteDepart
  <2>3. told' = [AfterBroadcast(conn', att, peers', RoomOf[s], {g}, p) EXCEPT ![s] = {}]
    BY <1>1, <1>5 DEF Depart
  <2>4. told'[t] = AfterBroadcast(conn', att, peers', RoomOf[s], {g}, p)[t]
    BY <1>4, <2>3 DEF AfterBroadcast
  <2>5. t \in Receivers(conn', att, RoomOf[s], g, p) <=> t \in Receivers(conn', att', RoomOf[s], g, p)
    BY <1>4 DEF Receivers
  <2>6. told'[t] = IF t \in Receivers(conn', att', RoomOf[s], g, p)
                   THEN peers'[g] \cup {att[t].peer} ELSE told[t]
    <3>1. told'[t] = IF \E k \in {g} : t \in Receivers(conn', att, RoomOf[s], k, p)
                     THEN peers'[att[t].group] \cup {att[t].peer} ELSE told[t]
      BY <2>4 DEF AfterBroadcast, RouteUpdate
    <3>2. t \in Receivers(conn', att, RoomOf[s], g, p) => att[t].group = g
      BY DEF Receivers
    <3> QED BY <2>5, <3>1, <3>2
  <2>7. att[t].peer \in PeerIds /\ att[t].peer # p
    BY <1>4, <1>5, InTouchType DEF Ground, OneEach, RemovesPeer, Blank
  <2> HIDE DEF g, p, views
  <2>8. rt \in RouteData /\ \A q \in PeerIds \ {p} : rt.sess[q] = route[g].sess[q]
    BY <2>1, RemoveEffect
  <2> HIDE DEF rt
  <2>9. /\ \A k \in Groups \ {g} : route'[k] = route[k]
        /\ route'[g].ver = rt.ver
        /\ Sent(route'[g], seen', rt, peers'[g], conns'[g], att', conn',
                Targets(conn', att', RoomOf[s], g, p), views)
    BY <1>3, <2>1, <2>2, <2>8, BroadcastSent DEF Ground, RouteTyped
  <2>10. /\ Kept(t) \/ Reached(t)
         /\ t \in Targets(conn', att', RoomOf[s], g, p) => Reached(t)
    BY <1>4, <2>1, <2>6, <2>7, <2>8, <2>9, BystanderStepped
  <2> QED BY <1>4, <2>7, <2>10, InTouchType DEF Targets, g
<1>6. CASE ~RemovesPeer(s)
  <2>1. route' = route /\ seen' = views /\ told' = [told EXCEPT ![s] = {}]
    BY <1>1, <1>6 DEF RouteDepart, Depart
  <2>2. told'[t] = told[t] /\ seen'[t] = seen[t]
    BY <1>4, <2>1 DEF Ground, TypeOK
  <2> QED BY <1>4, <1>6, <2>1, <2>2, OthersKept
<1> QED BY <1>5, <1>6

\* The group data after a sync was handled, before anything is sent.  Reported
\* edges that change the topology are worth a version to every member.
Handled(acked, members, from, items, old, new) ==
    LET processed == ProcessInfos(acked, members, items)
    IN  StoreInfos(IF new # old THEN BumpAll(processed, members) ELSE processed, members, from, items)

LEMMA HandledGrows ==
    ASSUME NEW acked \in RouteData, NEW members, NEW from, NEW items \in Requests,
           NEW old, NEW new
    PROVE  /\ Handled(acked, members, from, items, old, new) \in Grown(acked)
           /\ new # old =>
                \A q \in Ids : q \in members \cup {Server} =>
                    Handled(acked, members, from, items, old, new).ver[q] > acked.ver[q]
<1> DEFINE processed == ProcessInfos(acked, members, items)
           relinked == IF new # old THEN BumpAll(processed, members) ELSE processed
           stored == StoreInfos(relinked, members, from, items)
<1>0. Handled(acked, members, from, items, old, new) = stored
  BY DEF Handled
<1>1. processed \in Grown(acked) /\ processed \in RouteData
  BY ProcessGrows DEF Grown
<1> HIDE DEF processed
<1>2. /\ relinked \in Grown(processed)
      /\ new # old => \A q \in Ids : q \in members \cup {Server} => relinked.ver[q] > processed.ver[q]
  <2>1. CASE new # old
    BY <1>1, <2>1, BumpGrows
  <2>2. CASE new = old
    BY <1>1, <2>2, Unchanged
  <2> QED BY <2>1, <2>2
<1> HIDE DEF relinked
<1>3. relinked \in RouteData
  BY <1>2 DEF Grown
<1>4. stored \in Grown(relinked)
  BY <1>3, StoreInfosGrows
<1> HIDE DEF stored
<1>5. stored \in Grown(acked) /\ stored \in RouteData
  BY <1>1, <1>2, <1>3, <1>4, GrownTransitive DEF Grown
<1>6. ASSUME NEW q \in Ids, relinked.ver[q] > processed.ver[q]
      PROVE  stored.ver[q] > acked.ver[q]
  <2>1. acked.ver[q] \in Nat /\ processed.ver[q] \in Nat /\ relinked.ver[q] \in Nat /\ stored.ver[q] \in Nat
    BY <1>1, <1>3, <1>5 DEF RouteData
  <2>2. processed.ver[q] >= acked.ver[q] /\ stored.ver[q] >= relinked.ver[q]
    BY <1>1, <1>4 DEF Grown
  <2> QED BY <1>6, <2>1, <2>2
<1>7. /\ stored \in Grown(acked)
      /\ new # old => \A q \in Ids : q \in members \cup {Server} => stored.ver[q] > acked.ver[q]
  BY <1>2, <1>5, <1>6
<1> QED BY <1>0, <1>7

LEMMA SyncStepped ==
    ASSUME Ground, Ground', Books, NEW s \in Sockets, NEW report \in Reports,
           NEW items \in Requests, NEW sid \in Sids, RouteSyncInfo(s, report, items, sid)
    PROVE  Stepped /\ Silent /\ Turned /\ Books'
<1> DEFINE g == att[s].group
           p == att[s].peer
           acked == SessionAck(route[g], p, sid)
           news == HasNews(acked, peers[g], items)
           processed == ProcessInfos(acked, peers[g], items)
           edited == conns'[g][p] # conns[g][p]
           relinked == IF edited THEN BumpAll(processed, peers[g]) ELSE processed
           stored == StoreInfos(relinked, peers[g], p, items)
           socks == [q \in {p} |-> s]
           pushed == Build(stored, peers[g], conns'[g], {p}, socks)
           bitmap == ConnBitmap(stored, peers[g], conns'[g], p)
           views == IF SendsBitmap(stored, peers[g], conns'[g], p)
                    THEN [seen EXCEPT ![s] = bitmap] ELSE seen
<1>0. att[s] # Blank /\ SyncRouteInfo(s, report, news)
  BY DEF RouteSyncInfo
<1>1. g \in Groups /\ p \in PeerIds /\ route[g] \in RouteData /\ peers[g] \in SUBSET PeerIds
  <2>1. g \in Groups /\ p \in PeerIds
    BY <1>0, SpeakerType DEF Ground
  <2> QED BY <2>1 DEF Ground, RouteTyped, TypeOK
<1>2. conn' = conn /\ att' = att /\ peers' = peers
  BY <1>0 DEF SyncRouteInfo
<1>3. /\ ~CanSend(s) => told' = told
      /\ (CanSend(s) /\ (news \/ edited)) =>
            told' = [AfterBroadcast(conn, att, peers, RoomOf[s], {g}, p)
                        EXCEPT ![s] = peers[g] \cup {p}]
      /\ (CanSend(s) /\ ~(news \/ edited)) => told' = [told EXCEPT ![s] = peers[g] \cup {p}]
  <2>1. conns'[g][p] = Recorded(g, p, report)
    BY <1>0, <1>1 DEF SyncRouteInfo, Ground, TypeOK
  <2>2. [told EXCEPT ![s] = RouteUpdate(peers, g, p)][s] = peers[g] \cup {p}
    BY DEF Ground, TypeOK, RouteUpdate
  <2> HIDE DEF news
  <2> QED BY <1>0, <2>1, <2>2 DEF SyncRouteInfo, RouteUpdate
<1>4. \/ ~CanSend(s) /\ route' = [route EXCEPT ![g] = stored] /\ seen' = seen
      \/ CanSend(s) /\ (news \/ edited) /\ BroadcastRoute(g, pushed, views, conns'[g], p, RoomOf[s])
      \/ CanSend(s) /\ ~(news \/ edited) /\ route' = [route EXCEPT ![g] = pushed] /\ seen' = views
  BY DEF RouteSyncInfo
<1>5. /\ stored \in Grown(acked)
      /\ edited => \A q \in Ids : q \in peers[g] \cup {Server} => stored.ver[q] > acked.ver[q]
  <2>1. acked \in RouteData
    BY <1>1, <1>0, AckEffect
  <2>2. stored = Handled(acked, peers[g], p, items, conns[g][p], conns'[g][p])
    BY DEF Handled
  <2> HIDE DEF acked, stored
  <2> QED BY <2>1, <2>2, HandledGrows
<1>6. /\ stored \in RouteData
      /\ \A q \in PeerIds \ {p} : stored.sess[q] = route[g].sess[q]
      /\ stored.sess[p].sig \in {route[g].sess[p].sig, NoMap}
      /\ stored.sess[p].dst = sid
      /\ stored.sess[p].sig # NoMap => route[g].sess[p].dst = sid
      /\ \A q \in Ids : stored.ver[q] >= route[g].ver[q]
      /\ edited => \A q \in Ids : q \in peers[g] \cup {Server} => stored.ver[q] > route[g].ver[q]
  <2> HIDE DEF g, p
  <2>1. /\ acked \in RouteData /\ acked.ver = route[g].ver
        /\ \A q \in PeerIds \ {p} : acked.sess[q] = route[g].sess[q]
        /\ acked.sess[p].dst = sid
        /\ acked.sess[p].sig = IF route[g].sess[p].dst = sid THEN route[g].sess[p].sig ELSE NoMap
    BY <1>1, AckEffect
  <2> HIDE DEF stored, acked, edited
  <2> QED BY <1>5, <2>1 DEF Grown
<1>E. /\ \A k \in Groups \ {g} : conns'[k] = conns[k]
      /\ ~edited => conns'[g] = conns[g]
  <2>1. conns' = [conns EXCEPT ![g][p] = Recorded(g, p, report)]
    BY <1>0 DEF SyncRouteInfo
  <2>2. conns'[g][p] = Recorded(g, p, report)
    BY <1>1, <2>1 DEF Ground, TypeOK
  <2>3. conns'[g] = [conns[g] EXCEPT ![p] = conns'[g][p]]
    BY <1>1, <2>1, <2>2 DEF Ground, TypeOK
  <2> QED BY <1>1, <2>1, <2>3 DEF Ground, TypeOK
<1> HIDE DEF g, p, acked, news, processed, edited, relinked, stored
<1>7. /\ pushed \in RouteData /\ pushed.ver = stored.ver
      /\ pushed.sess[p] = [dst |-> sid, my |-> s, sig |-> bitmap]
      /\ \A q \in PeerIds \ {p} : pushed.sess[q] = route[g].sess[q]
  <2>1. {p} \in SUBSET PeerIds /\ \A q \in {p} : socks[q] \in Sockets
    BY <1>1
  <2>2. socks[p] = s
    OBVIOUS
  <2> HIDE DEF socks
  <2>3. IsBuilt(pushed, stored, peers[g], conns'[g], {p}, socks)
    BY <1>1, <1>6, <2>1, BuildEffect
  <2>4. pushed.sess[p] = Pushed(stored, peers[g], conns'[g], socks, p)
    BY <2>3 DEF IsBuilt
  <2> QED BY <1>6, <2>2, <2>3, <2>4 DEF IsBuilt, Pushed
<1> HIDE DEF pushed
<1>8. /\ views \in [Sockets -> Maps] /\ \A t \in Sockets \ {s} : views[t] = seen[t]
      /\ views[s] = IF stored.sess[p].sig # bitmap THEN bitmap ELSE seen[s]
      /\ bitmap # NoMap
  <2>1. [seen EXCEPT ![s] = bitmap] \in [Sockets -> Maps] /\ seen \in [Sockets -> Maps]
    BY <1>1, <1>6, ViewType DEF Ground, RouteTyped
  <2>2. SendsBitmap(stored, peers[g], conns'[g], p) <=> stored.sess[p].sig # bitmap
    BY DEF SendsBitmap
  <2>3. bitmap \in Bitmaps
    BY <1>1, <1>6, BitmapType
  <2> HIDE DEF bitmap
  <2>4. bitmap # NoMap
    BY <2>3, MapsAreBitmaps, MapAssumption
  <2> QED BY <2>1, <2>2, <2>4
<1> HIDE DEF views
<1>B. Books'
  <2>1. /\ \A k \in Groups, q \in PeerIds :
              route'[k].sess[q].dst = route[k].sess[q].dst \/ (k = g /\ q = p)
        /\ \A u \in Sockets : att'[u] = Blank => seen'[u] = seen[u]
    <3>0. att'[s] # Blank
      BY <1>0, <1>2
    <3>1. CASE route' = [route EXCEPT ![g] = stored] /\ seen' = seen
      BY <1>1, <1>6, <3>1 DEF Ground, RouteTyped
    <3>2. CASE route' = [route EXCEPT ![g] = pushed] /\ seen' = views
      BY <1>1, <1>7, <1>8, <3>0, <3>2 DEF Ground, RouteTyped
    <3>3. CASE BroadcastRoute(g, pushed, views, conns'[g], p, RoomOf[s])
      <4> DEFINE targets == Targets(conn', att', RoomOf[s], g, p)
      <4>1. /\ \A k \in Groups \ {g} : route'[k] = route[k]
            /\ Sent(route'[g], seen', pushed, peers'[g], conns'[g], att', conn', targets, views)
        BY <1>1, <1>7, <1>8, <3>3, BroadcastSent DEF Ground
      <4>2. \A u \in targets : att'[u] # Blank
        BY <1>1, GroupAssumption DEF Targets, Blank
      <4> HIDE DEF targets
      <4>3. \A q \in PeerIds : route'[g].sess[q].dst = pushed.sess[q].dst
        BY <4>1, SentOwns
      <4>4. \A u \in Sockets : att'[u] = Blank => seen'[u] = seen[u]
        BY <1>8, <3>0, <4>1, <4>2 DEF Sent
      <4> QED BY <1>7, <4>1, <4>3, <4>4
    <3> QED BY <1>4, <3>1, <3>2, <3>3
  <2>2. att'[s].group = g /\ att'[s].peer = p
    BY <1>2 DEF g, p
  <2> QED BY <1>2, <2>1, <2>2, BooksKept
<1>C. Silent
  <2> SUFFICES ASSUME NEW u \in Sockets, ~InTouch(u)' PROVE seen'[u] = seen[u]
    BY DEF Silent
  <2>1. CanSend(s) => u # s
    BY <1>0, <1>2 DEF InTouch, CanSend
  <2>2. CASE BroadcastRoute(g, pushed, views, conns'[g], p, RoomOf[s]) /\ u # s
    <3>1. Sent(route'[g], seen', pushed, peers'[g], conns'[g], att', conn',
               Targets(conn', att', RoomOf[s], g, p), views)
      BY <1>1, <1>7, <1>8, <2>2, BroadcastSent DEF Ground
    <3>2. seen'[u] = views[u]
      BY <1>1, <3>1, SentSilent DEF InTouch
    <3> QED BY <1>8, <2>2, <3>2
  <2> QED BY <1>4, <1>8, <2>1, <2>2
<1>D. Turned
  <2>1. route'[g].ver = stored.ver /\ \A k \in Groups \ {g} : route'[k] = route[k]
    <3>1. CASE BroadcastRoute(g, pushed, views, conns'[g], p, RoomOf[s])
      BY <1>1, <1>7, <1>8, <3>1, BroadcastSent DEF Ground
    <3> QED BY <1>1, <1>4, <1>7, <3>1 DEF Ground, RouteTyped
  <2>2. \A q \in peers[g] \cup {Server} : q \in Ids
    BY <1>1 DEF Ids
  <2>3. CASE edited
    <3>1. Bumped(g)
      BY <1>2, <1>6, <2>1, <2>2, <2>3 DEF Bumped
    <3> QED BY <1>2, <1>E, <2>1, <3>1, SameIsStill DEF Turned, Ground
  <2>4. CASE ~edited
    <3>1. Still(g)
      BY <1>2, <1>6, <1>E, <2>1, <2>2, <2>4 DEF Still
    <3> QED BY <1>2, <1>E, <2>1, <3>1, SameIsStill DEF Turned, Ground
  <2> QED BY <2>3, <2>4
<1> SUFFICES ASSUME NEW t \in Sockets, InTouch(t)' PROVE Kept(t) \/ Reached(t)
  BY <1>B, <1>C, <1>D DEF Stepped
<1>9. att'[t] = att[t] /\ conn[t] = "open" /\ att[t].peer \in PeerIds /\ att[t].group \in Groups
      /\ (t # s => att[t].peer # p)
  BY <1>2, InTouchType DEF p
<1>10. CASE ~CanSend(s)
  <2>1. t # s /\ route' = [route EXCEPT ![g] = stored] /\ seen' = seen /\ told' = told
    BY <1>3, <1>4, <1>9, <1>10 DEF CanSend
  <2>2. route'[att[t].group].sess[att[t].peer] = route[att[t].group].sess[att[t].peer]
    BY <1>1, <1>6, <1>9, <2>1 DEF Ground, RouteTyped
  <2> QED BY <1>9, <2>1, <2>2, OthersKept
<1>11. ASSUME route'[g].ver = stored.ver, route'[g].sess[p] = [dst |-> sid, my |-> s, sig |-> bitmap],
              seen'[s] = views[s], told'[s] = peers[g] \cup {p}, t = s
       PROVE  Reached(t)
  <2>1. SessionOf(t)' = [dst |-> sid, my |-> s, sig |-> bitmap] /\ SessionOf(t) = route[g].sess[p]
    BY <1>2, <1>11 DEF SessionOf, g, p
  <2>2. Now(t)' = bitmap
    BY <1>2, <1>11, SameVersions DEF Now, g, p
  <2>3. told'[t] = peers'[att'[t].group] \cup {att'[t].peer}
    BY <1>2, <1>11 DEF g, p
  <2> HIDE DEF bitmap
  <2>4. seen'[t] = bitmap \/ (seen'[t] = seen[t] /\ stored.sess[p].sig = bitmap)
    BY <1>8, <1>11
  <2>5. stored.sess[p].sig = bitmap => SessionOf(t).sig = bitmap /\ SessionOf(t).dst = sid
    BY <1>6, <1>8, <2>1
  <2> QED BY <1>9, <1>11, <2>1, <2>2, <2>3, <2>4, <2>5 DEF Reached, Unsent
<1>12. CASE CanSend(s) /\ ~(news \/ edited)
  <2>1. route' = [route EXCEPT ![g] = pushed] /\ seen' = views
        /\ told' = [told EXCEPT ![s] = peers[g] \cup {p}]
    BY <1>3, <1>4, <1>12
  <2>2. CASE t = s
    <3>1. /\ route'[g].ver = stored.ver
          /\ route'[g].sess[p] = [dst |-> sid, my |-> s, sig |-> bitmap]
          /\ seen'[s] = views[s] /\ told'[s] = peers[g] \cup {p}
      BY <1>1, <1>7, <2>1 DEF Ground, RouteTyped, TypeOK
    <3> QED BY <1>11, <2>2, <3>1
  <2>3. CASE t # s
    <3>1. seen'[t] = seen[t] /\ told'[t] = told[t]
      BY <1>8, <2>1, <2>3 DEF Ground, TypeOK
    <3>2. route'[att[t].group].sess[att[t].peer] = route[att[t].group].sess[att[t].peer]
      BY <1>1, <1>7, <1>9, <2>1, <2>3 DEF Ground, RouteTyped
    <3> QED BY <1>9, <3>1, <3>2, OthersKept
  <2> QED BY <2>2, <2>3
<1>13. CASE CanSend(s) /\ (news \/ edited)
  <2> DEFINE targets == Targets(conn', att', RoomOf[s], g, p)
  <2>1. /\ \A k \in Groups \ {g} : route'[k] = route[k]
        /\ route'[g].ver = pushed.ver
        /\ Sent(route'[g], seen', pushed, peers'[g], conns'[g], att', conn', targets, views)
    BY <1>1, <1>4, <1>7, <1>8, <1>13, BroadcastSent DEF Ground
  <2>2. told' = [AfterBroadcast(conn, att, peers, RoomOf[s], {g}, p) EXCEPT ![s] = peers[g] \cup {p}]
    BY <1>3, <1>13
  <2>3. CASE t = s
    <3>1. s \notin targets /\ \A u \in targets : att'[u].peer # p
      BY <1>2 DEF Targets, p
    <3>2. seen'[s] = views[s] /\ route'[g].sess[p] = pushed.sess[p]
      <4> HIDE DEF targets
      <4> QED BY <1>1, <2>1, <3>1 DEF Sent
    <3>3. told'[s] = peers[g] \cup {p}
      BY <2>2 DEF AfterBroadcast
    <3> QED BY <1>7, <1>11, <2>1, <2>3, <3>2, <3>3
  <2>4. CASE t # s
    <3>1. told'[t] = AfterBroadcast(conn, att, peers, RoomOf[s], {g}, p)[t]
      BY <2>2, <2>4 DEF AfterBroadcast
    <3>2. told'[t] = IF \E k \in {g} : t \in Receivers(conn, att, RoomOf[s], k, p)
                     THEN peers[att[t].group] \cup {att[t].peer} ELSE told[t]
      BY <3>1 DEF AfterBroadcast, RouteUpdate
    <3>3. t \in Receivers(conn, att, RoomOf[s], g, p) => att[t].group = g
      BY DEF Receivers
    <3>4. told'[t] = IF t \in Receivers(conn', att', RoomOf[s], g, p)
                     THEN peers'[g] \cup {att[t].peer} ELSE told[t]
      BY <1>2, <3>2, <3>3
    <3>5. views[t] = seen[t] /\ pushed.sess[att[t].peer] = route[g].sess[att[t].peer]
      BY <1>7, <1>8, <1>9, <2>4
    <3>6. Sent(route'[g], seen', pushed, peers'[g], conns'[g], att', conn', targets, views)
      BY <2>1
    <3>7. /\ \A k \in Groups \ {g} : route'[k] = route[k]
          /\ route'[g].ver = pushed.ver /\ pushed \in RouteData
      BY <1>7, <2>1
    <3>8. /\ Kept(t) \/ Reached(t)
          /\ t \in Targets(conn', att', RoomOf[s], g, p) => Reached(t)
      BY <1>1, <1>9, <3>4, <3>5, <3>6, <3>7, BystanderStepped
    <3> QED BY <3>8
  <2> QED BY <2>3, <2>4
<1> QED BY <1>10, <1>12, <1>13

LEMMA ConstructGrows ==
    ASSUME RouteTyped, NEW r \in Rooms, RouteConstruct(r)
    PROVE  \A g \in Groups : route'[g] \in Grown(route[g])
<1> DEFINE n == Cardinality(Listed(r))
<1>1. PICK order \in Listings(r) : route' = [g \in Groups |-> Readding(g, order, n)[n]]
  BY DEF RouteConstruct
<1>2. n \in Nat /\ n \in 0..n
  BY ListedIsFinite
<1> HIDE DEF n
<1>3. ASSUME NEW g \in Groups PROVE Readding(g, order, n)[n] \in Grown(route[g])
  BY <1>2, ReaddingGrows DEF RouteTyped
<1> QED BY <1>1, <1>3

LEMMA ConstructStepped ==
    ASSUME Ground, Ground', Books, NEW r \in Rooms, RouteConstruct(r)
    PROVE  /\ Stepped /\ Silent /\ Books'
           /\ TrackedAll => Turned
<1>1. conn' = conn /\ att' = att /\ told' = told /\ seen' = seen
  BY DEF RouteConstruct, Construct, sockVars
<1>2. \A g \in Groups : route'[g].sess = route[g].sess
  BY ConstructGrows DEF Ground, Grown
<1>3. Books'
  BY <1>1, <1>2, BooksKept
<1>D. ASSUME TrackedAll PROVE Turned
  <2>1. conns' = conns /\ \A g \in Groups : peers'[g] = peers[g] \cup Forgotten(r, g)
    BY DEF RouteConstruct, Construct
  <2>2. \A g \in Groups : Forgotten(r, g) = {}
    <3>1. \A g \in Groups, s \in Sockets : att[s].group = g => att[s].peer \in peers[g]
      BY <1>D, GroupMeansIdentified DEF TrackedAll
    <3> QED BY <3>1 DEF Forgotten, Listed, Speaks
  <2>3. \A g \in Groups : peers'[g] = peers[g]
    BY <2>1, <2>2
  <2> QED BY <2>1, <2>3, ConstructGrows, SameIsStill DEF Turned, Ground
<1> SUFFICES ASSUME NEW t \in Sockets, InTouch(t)' PROVE Kept(t)
  BY <1>1, <1>3, <1>D DEF Stepped, Silent
<1>4. att[t].group \in Groups /\ conn[t] = "open"
  BY <1>1, InTouchType
<1> QED BY <1>1, <1>2, <1>4, OthersKept

LEMMA CalmStepped ==
    ASSUME Ground, Ground', Books, RouteCalm
    PROVE  Stepped /\ Silent /\ Turned /\ Books'
<1>1. att' = att
  <2>1. ASSUME NEW s \in Sockets, Fetch(s) PROVE att' = att
    <3>1. att' = [att EXCEPT ![s] = Blank] /\ att[s] = Blank
      BY <2>1 DEF Fetch, Ground, FreeIsBlank
    <3> QED BY <3>1 DEF Ground, TypeOK
  <2> QED BY <2>1 DEF RouteCalm
<1>2. route' = route /\ seen' = seen
  BY DEF RouteCalm
<1>3. Books'
  BY <1>1, <1>2, BooksKept
<1>D. Turned
  BY SameIsStill DEF RouteCalm, Turned, Ground
<1> SUFFICES ASSUME NEW t \in Sockets, InTouch(t)' PROVE Kept(t)
  BY <1>2, <1>3, <1>D DEF Stepped, Silent
<1>4. conn'[t] = "open" /\ att'[t] # Blank
  BY InTouchType
<1>5. conn[t] = "open" /\ told'[t] = told[t]
  <2>1. ASSUME NEW s \in Sockets, Fetch(s) PROVE conn[t] = "open" /\ told'[t] = told[t]
    BY <1>4, <2>1 DEF Fetch, Ground, TypeOK
  <2> QED BY <1>4, <2>1 DEF RouteCalm
<1> QED BY <1>1, <1>2, <1>5, OthersKept

\* The refresh of room r writes one group's data and its clients' views.
LEMMA AlarmSent ==
    ASSUME Ground, Ground', NEW r \in Rooms, RouteAlarm(r), NEW g \in Groups
    PROVE  /\ g \in AliveGroups(r) => \E views :
                /\ route'[g].ver = route[g].ver
                /\ Sent(route'[g], views, route[g], peers'[g], conns'[g], att', conn',
                        Targets(conn', att', r, g, Zero), seen)
                /\ \A t \in Sockets : (att[t].group = g /\ RoomOf[t] = r) => seen'[t] = views[t]
           /\ g \notin AliveGroups(r) => route'[g] = route[g]
<1> DEFINE targets(k) == Targets(conn', att, r, k, Zero)
           gs == {k \in AliveGroups(r) : Alive(r) # {}}
           hit(t) == att[t].group \in gs /\ RoomOf[t] = r
<1>1. PICK order :
        /\ \A k \in gs : order[k] \in Orders(att, targets(k))
        /\ route' = [k \in Groups |->
              IF k \in gs
              THEN Build(route[k], peers[k], conns'[k], DOMAIN order[k].first, order[k].last)
              ELSE route[k]]
        /\ seen' = [t \in Sockets |->
              IF hit(t)
              THEN Delivered(seen, conn', route[att[t].group], peers[att[t].group],
                             conns'[att[t].group], order[att[t].group])[t]
              ELSE seen[t]]
  BY DEF RouteAlarm
<1>2. peers' = peers /\ att' = att
  BY DEF RouteAlarm, Alarm
<1>3. gs = AliveGroups(r)
  BY DEF AliveGroups
<1> HIDE DEF gs
<1>4. ASSUME g \in AliveGroups(r)
      PROVE  \E views :
                /\ route'[g].ver = route[g].ver
                /\ Sent(route'[g], views, route[g], peers'[g], conns'[g], att', conn',
                        Targets(conn', att', r, g, Zero), seen)
                /\ \A t \in Sockets : (att[t].group = g /\ RoomOf[t] = r) => seen'[t] = views[t]
  <2> DEFINE o == order[g]
             data == route[g]
             x == Build(data, peers[g], conns'[g], DOMAIN o.first, o.last)
             views == Delivered(seen, conn', data, peers[g], conns'[g], o)
             all == targets(g)
  <2>1. data \in RouteData /\ peers[g] \in SUBSET PeerIds /\ o \in Orders(att, all)
    BY <1>1, <1>3, <1>4 DEF Ground, RouteTyped, TypeOK
  <2>2. /\ all \in SUBSET Sockets
        /\ \A t \in all : att[t].peer \in PeerIds
        /\ \A t, u \in all : att[t].peer = att[u].peer => t = u
    <3> DEFINE status == conn'
    <3> HIDE DEF status
    <3>1. LET ts == Targets(status, att, r, g, Zero)
          IN  /\ ts \in SUBSET Sockets
              /\ \A t \in ts : att[t].peer \in PeerIds /\ att[t] # Blank /\ att[t].group = g
              /\ \A t, u \in ts : att[t].peer = att[u].peer => t = u
      BY TargetsType DEF Ground
    <3> QED BY <3>1 DEF status
  <2>3. route'[g] = x /\ x.ver = data.ver
    <3>1. route'[g] = x
      BY <1>1, <1>3, <1>4
    <3> HIDE DEF data
    <3>2. x.ver = data.ver
      BY <2>1 DEF Build, RouteData
    <3> QED BY <3>1, <3>2
  <2>4. \A t \in Sockets : (att[t].group = g /\ RoomOf[t] = r) => seen'[t] = views[t]
    BY <1>1, <1>3, <1>4
  <2>5. Sent(x, views, data, peers[g], conns'[g], att, conn', all, seen)
    <3> DEFINE status == conn'
               cs == conns'[g]
    <3> HIDE DEF status, cs, all, o, data
    <3>1. Sent(Build(data, peers[g], cs, DOMAIN o.first, o.last),
               Delivered(seen, status, data, peers[g], cs, o),
               data, peers[g], cs, att, status, all, seen)
      BY <2>1, <2>2, OrderedPush
    <3> QED BY <3>1 DEF status, cs
  <2> HIDE DEF x, views
  <2> QED BY <1>2, <2>3, <2>4, <2>5
<1>5. g \notin AliveGroups(r) => route'[g] = route[g]
  BY <1>1, <1>3
<1> QED BY <1>4, <1>5

LEMMA AlarmSkips ==
    ASSUME NEW r \in Rooms, RouteAlarm(r), NEW t \in Sockets,
           RoomOf[t] # r \/ att[t].group \notin AliveGroups(r)
    PROVE  seen'[t] = seen[t]
<1> DEFINE gs == {k \in AliveGroups(r) : Alive(r) # {}}
           hit(u) == att[u].group \in gs /\ RoomOf[u] = r
<1>1. \E order : seen' = [u \in Sockets |->
         IF hit(u)
         THEN Delivered(seen, conn', route[att[u].group], peers[att[u].group],
                        conns'[att[u].group], order[att[u].group])[u]
         ELSE seen[u]]
  BY DEF RouteAlarm
<1> QED BY <1>1

LEMMA AlarmStepped ==
    ASSUME Ground, Ground', Books, NEW r \in Rooms, RouteAlarm(r)
    PROVE  /\ Stepped /\ Silent /\ Books'
           /\ DepartedTracked => Turned
           /\ \A t \in Sockets : (InTouch(t)' /\ RoomOf[t] = r) => Reached(t)
<1>B. Books'
  <2>1. att' = att
    BY DEF RouteAlarm, Alarm
  <2>2. ASSUME NEW k \in Groups, NEW q \in PeerIds
        PROVE  route'[k].sess[q].dst = route[k].sess[q].dst
    <3>1. CASE k \in AliveGroups(r)
      <4>1. PICK views : Sent(route'[k], views, route[k], peers'[k], conns'[k], att', conn',
                              Targets(conn', att', r, k, Zero), seen)
        BY <3>1, AlarmSent
      <4> QED BY <4>1, SentOwns
    <3>2. CASE k \notin AliveGroups(r)
      BY <3>2, AlarmSent
    <3> QED BY <3>1, <3>2
  <2>3. ASSUME NEW u \in Sockets, att[u] = Blank PROVE seen'[u] = seen[u]
    <3>1. att[u].group \notin AliveGroups(r)
      BY <2>3 DEF AliveGroups, Blank
    <3> QED BY <3>1, AlarmSkips
  <2> QED BY <2>1, <2>2, <2>3, BooksKept
<1>C. Silent
  <2> SUFFICES ASSUME NEW u \in Sockets, ~InTouch(u)' PROVE seen'[u] = seen[u]
    BY DEF Silent
  <2>1. CASE RoomOf[u] = r /\ att[u].group \in AliveGroups(r)
    <3> DEFINE k == att[u].group
    <3>1. k \in Groups
      BY <2>1, SpeakerType DEF AliveGroups, Ground, Blank
    <3>2. PICK views :
            /\ Sent(route'[k], views, route[k], peers'[k], conns'[k], att', conn',
                    Targets(conn', att', r, k, Zero), seen)
            /\ seen'[u] = views[u]
      BY <2>1, <3>1, AlarmSent
    <3> HIDE DEF k
    <3>3. views[u] = seen[u]
      <4>1. /\ Sent(route'[k], views, route[k], peers'[k], conns'[k], att', conn',
                    Targets(conn', att', r, k, Zero), seen)
            /\ ~(conn'[u] = "open" /\ att'[u] # Blank)
        BY <3>2 DEF InTouch
      <4> QED BY <3>1, <4>1, SentSilent
    <3> QED BY <3>2, <3>3
  <2>2. CASE ~(RoomOf[u] = r /\ att[u].group \in AliveGroups(r))
    BY <2>2, AlarmSkips
  <2> QED BY <2>1, <2>2
<1>D. ASSUME DepartedTracked PROVE Turned
  <2> SUFFICES ASSUME NEW k \in Groups PROVE Still(k)
    BY DEF Turned
  <2>1. peers' = peers /\ (conns' = conns \/ conns' = CleanedConns(AliveGroups(r)))
    BY DEF RouteAlarm, Alarm
  <2>2. route'[k].ver = route[k].ver
    BY AlarmSent
  <2>3. CASE conns' = conns
    BY <2>1, <2>2, <2>3, SameIsStill DEF Ground
  <2>4. CASE conns' = CleanedConns(AliveGroups(r))
    <3>1. \A q \in peers[k] : q \in PeerIds /\ q \notin Expired(k)
      BY <1>D DEF DepartedTracked, Expired, Ground, TypeOK
    <3>2. \A a, b \in peers[k] : Linked(conns'[k], a, b) <=> Linked(conns[k], a, b)
      <4>1. CASE k \notin AliveGroups(r)
        BY <2>4, <4>1 DEF CleanedConns
      <4>2. CASE k \in AliveGroups(r)
        <5> DEFINE cs == conns'[k]
        <5>1. \A a \in PeerIds : cs[a] = IF a \in Expired(k) \/ conns[k][a] = NoReport
                                        THEN NoReport ELSE conns[k][a] \ Expired(k)
          BY <2>4, <4>2 DEF CleanedConns
        <5>2. \A a \in PeerIds : conns[k][a] = NoReport \/ conns[k][a] \in SUBSET PeerIds
          BY DEF Ground, TypeOK
        <5> HIDE DEF cs
        <5>3. ASSUME NEW a \in peers[k], NEW b \in peers[k]
              PROVE  Linked(cs, a, b) <=> Linked(conns[k], a, b)
          <6>1. CASE conns[k][a] = NoReport
            BY <3>1, <5>1, <6>1 DEF Linked
          <6>2. CASE conns[k][a] # NoReport
            <7>1. cs[a] = conns[k][a] \ Expired(k) /\ conns[k][a] \in SUBSET PeerIds
              BY <3>1, <5>1, <5>2, <6>2
            <7>2. cs[a] # NoReport
              BY <7>1, ReportAssumption
            <7> QED BY <3>1, <6>2, <7>1, <7>2 DEF Linked
          <6> QED BY <6>1, <6>2
        <5> QED BY <5>3 DEF cs
      <4> QED BY <4>1, <4>2
    <3>3. \A q \in peers[k] \cup {Server} : route'[k].ver[q] >= route[k].ver[q]
      BY <2>1, <2>2, SameIsStill DEF Ground, Still, Ids, RouteTyped, RouteData, TypeOK
    <3> QED BY <2>1, <3>2, <3>3 DEF Still
  <2> QED BY <2>1, <2>3, <2>4
<1> SUFFICES ASSUME NEW t \in Sockets, InTouch(t)'
             PROVE  (Kept(t) \/ Reached(t)) /\ (RoomOf[t] = r => Reached(t))
  BY <1>B, <1>C, <1>D DEF Stepped
<1> DEFINE g == att[t].group
           targets == Targets(conn', att', r, g, Zero)
<1>1. Alarm(r) /\ att' = att /\ peers' = peers
  BY DEF RouteAlarm, Alarm
<1>2. /\ conn'[t] = "open" /\ att'[t] = att[t] /\ g \in Groups /\ att[t].peer \in PeerIds
      /\ att[t].peer # Zero /\ \A u \in Sockets : att[u].peer = att[t].peer => u = t
  BY <1>1, InTouchType
<1>3. conn[t] = "open"
  BY <1>1, <1>2 DEF Alarm
<1>4. told'[t] = IF \E k \in AliveGroups(r) : t \in Receivers(conn', att, r, k, Zero)
                 THEN peers[g] \cup {att[t].peer} ELSE told[t]
  <2>1. CASE Alive(r) = {}
    BY <1>1, <2>1 DEF Alarm, AliveGroups
  <2>2. CASE Alive(r) # {}
    BY <1>1, <2>2 DEF Alarm, AfterBroadcast, RouteUpdate
  <2> QED BY <2>1, <2>2
<1>5. (\E k \in AliveGroups(r) : t \in Receivers(conn', att, r, k, Zero))
         <=> (g \in AliveGroups(r) /\ RoomOf[t] = r)
  BY <1>2 DEF Receivers
<1>6. CASE g \in AliveGroups(r)
  <2>1. PICK views :
          /\ route'[g].ver = route[g].ver
          /\ Sent(route'[g], views, route[g], peers'[g], conns'[g], att', conn', targets, seen)
          /\ \A u \in Sockets : (att[u].group = g /\ RoomOf[u] = r) => seen'[u] = views[u]
    BY <1>2, <1>6, AlarmSent
  <2>2. route[g] \in RouteData
    BY <1>2 DEF Ground, RouteTyped
  <2>3. CASE RoomOf[t] = r
    <3>1. t \in targets
      BY <1>1, <1>2, <2>3 DEF Targets
    <3>2. LET p == att'[t].peer
              B == ConnBitmap(route[g], peers'[g], conns'[g], p)
          IN  /\ route'[g].sess[p].dst = route[g].sess[p].dst
              /\ route'[g].sess[p].my = t
              /\ route'[g].sess[p].sig = B
              /\ views[t] = IF conn'[t] = "open" /\ SendsBitmap(route[g], peers'[g], conns'[g], p)
                            THEN B ELSE seen[t]
      <4> HIDE DEF targets
      <4> QED BY <2>1, <3>1 DEF Sent
    <3>3. Now(t)' = ConnBitmap(route[g], peers'[g], conns'[g], att'[t].peer)
      BY <1>2, <2>1, SameVersions DEF Now
    <3>4. seen'[t] = Now(t)' \/ (seen'[t] = seen[t] /\ SessionOf(t).sig = Now(t)')
      <4>1. seen'[t] = views[t]
        BY <1>2, <2>1, <2>3
      <4> QED BY <1>2, <3>2, <3>3, <4>1 DEF SendsBitmap, SessionOf
    <3>5. told'[t] = peers'[att'[t].group] \cup {att'[t].peer}
      BY <1>1, <1>2, <1>4, <1>5, <1>6, <2>3
    <3>6. SessionOf(t)'.my = t /\ SessionOf(t)'.sig = Now(t)' /\ SessionOf(t)'.dst = SessionOf(t).dst
      BY <1>2, <3>2, <3>3 DEF SessionOf
    <3> QED BY <1>2, <1>3, <3>4, <3>5, <3>6 DEF Reached, Unsent
  <2>4. CASE RoomOf[t] # r
    <3>1. seen'[t] = seen[t] /\ told'[t] = told[t]
      BY <1>2, <1>4, <1>5, <2>4, AlarmSkips
    <3>2. \A u \in targets : att'[u].peer # att[t].peer
      BY <1>1, <1>2, <2>4 DEF Targets
    <3>3. route'[g].sess[att[t].peer] = route[g].sess[att[t].peer]
      <4> HIDE DEF targets
      <4> QED BY <1>2, <2>1, <3>2 DEF Sent
    <3> QED BY <1>2, <1>3, <2>4, <3>1, <3>3, OthersKept
  <2> QED BY <2>3, <2>4
<1>7. CASE g \notin AliveGroups(r)
  <2>1. seen'[t] = seen[t] /\ told'[t] = told[t] /\ route'[g] = route[g]
    BY <1>2, <1>4, <1>5, <1>7, AlarmSent, AlarmSkips
  <2>2. RoomOf[t] # r
    <3>1. g # NoGroup
      BY <1>2, GroupAssumption
    <3>2. t \notin Dead(r)
      BY <1>1, <1>2, <1>3 DEF Alarm
    <3> QED BY <1>3, <1>7, <3>1, <3>2 DEF AliveGroups, Alive, Listed
  <2> QED BY <1>2, <1>3, <2>1, <2>2, OthersKept
<1> QED BY <1>6, <1>7

LEMMA RestartBooks ==
    ASSUME Books, RouteRestart
    PROVE  Silent /\ Books'
<1>1. att' = att /\ seen' = seen /\ route' = [g \in Groups |-> EmptyRoute]
  BY DEF RouteRestart, Restart, sockVars
<1>2. \A g \in Groups, p \in PeerIds : route'[g].sess[p].dst = NoSid
  BY <1>1 DEF EmptyRoute, NoSession
<1> QED BY <1>1, <1>2, BooksKept DEF Silent

LEMMA AllStepped ==
    ASSUME Tidy, Ground, Ground', Books, RouteNext
    PROVE  /\ (Stepped \/ RouteRestart) /\ Silent /\ Books'
           /\ (TrackedAll /\ DepartedTracked) => (Turned \/ RouteRestart)
<1>1. TypeOK
  BY DEF Ground
<1> QED BY <1>1, HandShakeStepped, SyncStepped, RespStepped, DepartStepped, ConstructStepped,
           AlarmStepped, CalmStepped, RestartBooks, RouteCases

-----------------------------------------------------------------------------
(* One connection to a client, and the sessions of those who are gone.     *)

\* Who is identified after a step was so before, or has done its handshake.
LEMMA AttachmentSteps ==
    ASSUME Ground, TypeOK', RouteNext
    PROVE  \/ UNCHANGED att
           \/ \E s \in Sockets : \E h \in Hellos[s] :
                  RouteHandShake(s, h) /\ att' = [att EXCEPT ![s] = h]
           \/ \E s \in Sockets : RouteDepart(s) /\ att' = [att EXCEPT ![s] = Blank]
<1>1. RouteCalm => UNCHANGED att
  <2>1. ASSUME NEW s \in Sockets, Fetch(s) PROVE UNCHANGED att
    <3>1. att' = [att EXCEPT ![s] = Blank] /\ att[s] = Blank
      BY <2>1 DEF Fetch, Ground, FreeIsBlank
    <3> QED BY <3>1 DEF Ground, TypeOK
  <2> QED BY <2>1 DEF RouteCalm
<1>2. ASSUME NEW s \in Sockets, NEW h \in Hellos[s], RouteHandShake(s, h)
      PROVE  att' = [att EXCEPT ![s] = h]
  BY <1>2 DEF RouteHandShake, HandShakeAccepted
<1>3. ASSUME NEW s \in Sockets, RouteDepart(s) PROVE att' = [att EXCEPT ![s] = Blank]
  BY <1>3 DEF RouteDepart, Depart
<1>4. ASSUME NEW s \in Sockets, NEW report, NEW items, NEW sid, RouteSyncInfo(s, report, items, sid)
      PROVE  UNCHANGED att
  BY <1>4 DEF RouteSyncInfo, SyncRouteInfo
<1>5. ASSUME NEW s \in Sockets, NEW from, NEW sid, RouteResp(s, from, sid) PROVE UNCHANGED att
  BY <1>5 DEF RouteResp, RpcResp
<1>6. ASSUME NEW r \in Rooms, RouteConstruct(r) \/ RouteAlarm(r) PROVE UNCHANGED att
  BY <1>6 DEF RouteConstruct, Construct, RouteAlarm, Alarm, sockVars
<1>7. RouteRestart => UNCHANGED att
  BY DEF RouteRestart, Restart, sockVars
<1>8. TypeOK
  BY DEF Ground
<1> QED BY <1>1, <1>2, <1>3, <1>4, <1>5, <1>6, <1>7, <1>8, RouteCases

LEMMA OneEachStep ==
    ASSUME Tidy, Ground, TypeOK', [RouteNext]_allVars
    PROVE  OneEach'
<1>1. CASE UNCHANGED att
  BY <1>1 DEF OneEach, Ground
<1>2. ASSUME NEW s \in Sockets, NEW h \in Hellos[s], RouteHandShake(s, h), att' = [att EXCEPT ![s] = h]
      PROVE  OneEach'
  <2>1. att[s] = Blank /\ \A t \in Sockets : att[t].peer # h.peer
    BY <1>2 DEF RouteHandShake, TidyHello
  <2>2. h.peer # Zero
    BY <2>1 DEF Blank
  <2>3. att'[s] = h /\ \A t \in Sockets \ {s} : att'[t] = att[t]
    BY <1>2 DEF Ground, TypeOK
  <2> QED BY <2>1, <2>2, <2>3 DEF OneEach, Ground
<1>3. ASSUME NEW s \in Sockets, att' = [att EXCEPT ![s] = Blank] PROVE OneEach'
  BY <1>3 DEF OneEach, Ground, TypeOK, Blank
<1>4. CASE UNCHANGED allVars
  BY <1>1, <1>4 DEF allVars, vars
<1> QED BY <1>1, <1>2, <1>3, <1>4, AttachmentSteps

LEMMA GroundInit == RouteInit => OneEach /\ Books
<1> SUFFICES ASSUME RouteInit PROVE OneEach /\ Books
  OBVIOUS
<1>1. \A s \in Sockets : att[s] = Blank /\ seen[s] = NoMap
  BY DEF RouteInit, Init
<1>2. \A g \in Groups, p \in PeerIds : route[g].sess[p].dst = NoSid
  BY DEF RouteInit, EmptyRoute, NoSession
<1> QED BY <1>1, <1>2 DEF OneEach, Books, SessionsOwned, BlankSeesNothing

LEMMA BooksStep ==
    ASSUME Tidy, Ground, Ground', Books, [RouteNext]_allVars
    PROVE  Books'
<1>1. CASE UNCHANGED allVars
  BY <1>1, BooksKept DEF allVars, vars
<1> QED BY <1>1, AllStepped

LEMMA Grounded ==
    ASSUME Tidy
    PROVE  RouteSpec => [](Ground /\ Books)
<1>1. TypeOK /\ RouteTyped /\ FreeIsBlank /\ OneEach /\ TypeOK' /\ [RouteNext]_allVars => OneEach'
  BY OneEachStep DEF Ground
<1>2. RouteTyped /\ TypeOK /\ FreeIsBlank /\ OneEach /\ (RouteTyped /\ TypeOK /\ FreeIsBlank /\ OneEach)'
        /\ Books /\ [RouteNext]_allVars => Books'
  BY BooksStep DEF Ground
<1>3. (RouteTyped /\ TypeOK /\ FreeIsBlank /\ OneEach) => Ground
  BY DEF Ground
<1> QED BY <1>1, <1>2, <1>3, GroundInit, RouteTypes, RouteImplementsRoom, FreeSlots, PTL DEF RouteSpec

-----------------------------------------------------------------------------
(* What a client holds.                                                    *)

\* A session that a restart ended has no signature.
LEMMA RestartUnsynced ==
    ASSUME Ground, Ground', RouteRestart, NEW t \in Sockets, Synced(t)'
    PROVE  FALSE
<1>1. att'[t].group \in Groups /\ att'[t].peer \in PeerIds
  BY InTouchType DEF Synced
<1>2. SessionOf(t)'.sig = NoMap
  BY <1>1, RestartData DEF SessionOf, Ground
<1> QED BY <1>2 DEF Synced

LEMMA DedupStep ==
    ASSUME Tidy, Ground, Ground', Books, DedupSound, [RouteNext]_allVars
    PROVE  DedupSound'
<1> SUFFICES ASSUME NEW t \in Sockets, Synced(t)' PROVE seen'[t] = SessionOf(t)'.sig
  BY DEF DedupSound
<1>1. /\ InTouch(t)' /\ SessionOf(t)'.dst # NoSid /\ SessionOf(t)'.sig # NoMap
      /\ conn'[t] = "open" /\ att'[t] # Blank
  BY InTouchType DEF Synced
<1>2. CASE Kept(t)
  <2>1. SessionOf(t)' = SessionOf(t) /\ Synced(t)
    BY <1>1, <1>2 DEF Kept, Synced, InTouch
  <2> QED BY <1>2, <2>1 DEF Kept, DedupSound
<1>3. CASE Reached(t) /\ Unsent(t)
  <2>1. /\ conn[t] = "open" /\ att'[t] = att[t] /\ seen'[t] = seen[t]
        /\ SessionOf(t).sig = SessionOf(t)'.sig /\ SessionOf(t).dst = SessionOf(t)'.dst
    BY <1>1, <1>3 DEF Reached, Unsent
  <2>2. Synced(t)
    BY <1>1, <2>1 DEF Synced, InTouch
  <2> QED BY <2>1, <2>2 DEF DedupSound
<1>4. CASE Reached(t) /\ seen'[t] = Now(t)'
  BY <1>4 DEF Reached
<1>5. CASE UNCHANGED allVars
  <2>1. SessionOf(t)' = SessionOf(t) /\ InTouch(t) /\ seen' = seen
    BY <1>1, <1>5 DEF allVars, vars, SessionOf, InTouch
  <2> QED BY <1>1, <2>1 DEF DedupSound, Synced
<1>6. CASE RouteNext
  <2>1. Stepped \/ RouteRestart
    BY <1>6, AllStepped
  <2>2. Stepped
    BY <2>1, RestartUnsynced
  <2> QED BY <1>1, <1>2, <1>3, <1>4, <2>2 DEF Stepped, Reached
<1> QED BY <1>5, <1>6

\* With tidy clients, the signature kept for a client with an acknowledged
\* session is that of the bitmap it last received (conn_bitmap_sig in
\* build_sync_route_info_request): "unchanged, leave it out" is right, also
\* across restarts, new sessions and updates that could not be sent.
THEOREM DedupIsSound ==
    ASSUME Tidy
    PROVE  RouteSpec => []DedupSound
<1>1. RouteInit => DedupSound
  <2>1. RouteInit => \A s \in Sockets : att[s] = Blank
    BY DEF RouteInit, Init
  <2> QED BY <2>1 DEF DedupSound, Synced, InTouch
<1>2. Ground /\ Ground' /\ Books /\ DedupSound /\ [RouteNext]_allVars => DedupSound'
  BY DedupStep
<1> QED BY <1>1, <1>2, Grounded, PTL DEF RouteSpec

LEMMA TopologyStep ==
    ASSUME Tidy, Ground, Ground', Books, DedupSound', TopologyMatchesPeers, [RouteNext]_allVars
    PROVE  TopologyMatchesPeers'
<1> SUFFICES ASSUME NEW t \in Sockets, Synced(t)'
             PROVE  DOMAIN seen'[t].vers = told'[t] \cup {Server}
  BY DEF TopologyMatchesPeers
<1>1. /\ InTouch(t)' /\ SessionOf(t)'.dst # NoSid /\ SessionOf(t)'.sig # NoMap
      /\ conn'[t] = "open" /\ att'[t] # Blank /\ att'[t].group \in Groups /\ att'[t].peer \in PeerIds
  BY InTouchType DEF Synced
<1>2. CASE Kept(t)
  <2>1. Synced(t)
    BY <1>1, <1>2 DEF Kept, Synced, InTouch
  <2> QED BY <1>2, <2>1 DEF Kept, TopologyMatchesPeers
<1>3. CASE Reached(t)
  <2> DEFINE p == att'[t].peer
             rt == route'[att'[t].group]
             members == peers'[att'[t].group]
             cs == conns'[att'[t].group]
  <2>1. seen'[t] = ConnBitmap(rt, members, cs, p)
    BY <1>3 DEF DedupSound, Reached, Now
  <2>2. told'[t] = members \cup {p}
    BY <1>3 DEF Reached
  <2>3. rt \in RouteData /\ members \in SUBSET PeerIds /\ p \in PeerIds
    BY <1>1 DEF Ground, RouteTyped, TypeOK
  <2> HIDE DEF p, rt, members, cs
  <2>4. /\ DOMAIN ConnBitmap(rt, members, cs, p).vers = members \cup {p, Server}
        /\ \A q \in members \cup {p, Server} : ConnBitmap(rt, members, cs, p).vers[q] = rt.ver[q]
    BY <2>3, BitmapType
  <2>5. DOMAIN seen'[t].vers = members \cup {p, Server}
    BY <2>1, <2>4
  <2> QED BY <2>2, <2>5
<1>4. CASE UNCHANGED allVars
  <2>1. SessionOf(t)' = SessionOf(t) /\ InTouch(t) /\ seen' = seen /\ told' = told
    BY <1>1, <1>4 DEF allVars, vars, SessionOf, InTouch
  <2> QED BY <1>1, <2>1 DEF TopologyMatchesPeers, Synced
<1>5. CASE RouteNext
  <2>1. Stepped
    BY <1>5, AllStepped, RestartUnsynced
  <2> QED BY <1>1, <1>2, <1>3, <2>1 DEF Stepped
<1> QED BY <1>4, <1>5

\* With tidy clients, the bitmap a synchronised client holds lists exactly the
\* peers of the last route update it received: build_peer_info_bytes and
\* build_conn_bitmap never drift apart on the client, although the bitmap is
\* left out of an update whenever it looks unchanged.
THEOREM TopologyIsThatOfTheUpdate ==
    ASSUME Tidy
    PROVE  RouteSpec => []TopologyMatchesPeers
<1>1. RouteInit => TopologyMatchesPeers
  <2>1. RouteInit => \A s \in Sockets : att[s] = Blank
    BY DEF RouteInit, Init
  <2> QED BY <2>1 DEF TopologyMatchesPeers, Synced, InTouch
<1>2. Ground /\ Ground' /\ Books /\ DedupSound' /\ TopologyMatchesPeers /\ [RouteNext]_allVars
        => TopologyMatchesPeers'
  BY TopologyStep
<1> QED BY <1>1, <1>2, Grounded, DedupIsSound, PTL DEF RouteSpec

LEMMA SessionIdStep ==
    ASSUME Tidy, ~Restarts, Ground, Ground', Books, SessionIdAgrees, [RouteNext]_allVars
    PROVE  SessionIdAgrees'
<1> SUFFICES ASSUME NEW t \in Sockets, InTouch(t)' PROVE SessionOf(t)'.my = t
  BY DEF SessionIdAgrees
<1>1. conn'[t] = "open" /\ att'[t] # Blank
  BY InTouchType
<1>2. CASE Kept(t)
  <2>1. InTouch(t)
    BY <1>1, <1>2 DEF Kept, InTouch
  <2> QED BY <1>2, <2>1 DEF Kept, SessionIdAgrees
<1>3. CASE UNCHANGED allVars
  BY <1>3 DEF allVars, vars, SessionIdAgrees, InTouch, SessionOf
<1>4. CASE RouteNext
  <2>1. Stepped
    BY <1>4, AllStepped DEF RouteRestart, Restart
  <2> QED BY <1>2, <2>1 DEF Stepped, Reached
<1> QED BY <1>3, <1>4

\* While the isolate lives and clients are tidy, a sync on a socket is answered
\* with the session id of that socket (my_session_id), whatever updates to
\* others and earlier sockets of the client have left in the session.
THEOREM SessionIdsAgree ==
    ASSUME Tidy, ~Restarts
    PROVE  RouteSpec => []SessionIdAgrees
<1>1. RouteInit => SessionIdAgrees
  <2>1. RouteInit => \A s \in Sockets : att[s] = Blank
    BY DEF RouteInit, Init
  <2> QED BY <2>1 DEF SessionIdAgrees, InTouch
<1>2. Ground /\ Ground' /\ Books /\ SessionIdAgrees /\ [RouteNext]_allVars => SessionIdAgrees'
  BY SessionIdStep
<1> QED BY <1>1, <1>2, Grounded, PTL DEF RouteSpec

\* With tidy clients, the periodic refresh (handle_cleanup_alarm) leaves every
\* synchronised client of its room with the bitmap the server would build now,
\* sent or rightly left out.
THEOREM RefreshBringsUpToDate ==
    ASSUME Tidy
    PROVE  RouteSpec => RefreshRepairs
<1>1. ASSUME Ground, Ground', Books, DedupSound', NEW r \in Rooms, NEW s \in Sockets,
             RouteAlarm(r), RoomOf[s] = r, Synced(s)'
      PROVE  seen'[s] = ConnBitmap(route'[att[s].group], peers'[att[s].group],
                                   conns'[att[s].group], att[s].peer)
  <2>1. Reached(s)
    BY <1>1, AlarmStepped DEF Synced
  <2>2. seen'[s] = Now(s)'
    BY <1>1, <2>1 DEF Reached, DedupSound
  <2>3. att' = att
    BY <1>1 DEF RouteAlarm, Alarm
  <2> QED BY <2>2, <2>3 DEF Now
<1>2. Ground /\ Ground' /\ Books /\ DedupSound' =>
        \A r \in Rooms : RouteAlarm(r) =>
          \A s \in Sockets : (RoomOf[s] = r /\ Synced(s)') =>
              seen'[s] = ConnBitmap(route'[att[s].group], peers'[att[s].group],
                                    conns'[att[s].group], att[s].peer)
  BY <1>1
<1> QED BY <1>2, Grounded, DedupIsSound, PTL DEF RefreshRepairs

-----------------------------------------------------------------------------
(* The bytes of a bitmap.                                                  *)

\* Every bitmap a client has received decodes to itself: in the bytes that
\* build_conn_bitmap packs, no edge moves to another peer's row.
THEOREM BitmapsDecode == RouteSpec => []BitmapDecodes
<1>1. RouteTyped => BitmapDecodes
  <2> SUFFICES ASSUME RouteTyped, NEW s \in Sockets, seen[s] # NoMap,
                      NEW pos \in Positions(DOMAIN seen[s].vers),
                      NEW p \in DOMAIN seen[s].vers \ {Server}
               PROVE  Decoded(seen[s], Server, pos, p) = Neighbours(seen[s], Server, p)
    BY DEF BitmapDecodes
  <2>1. seen[s] \in Bitmaps
    BY DEF RouteTyped, Maps
  <2>2. Server \in DOMAIN seen[s].vers /\ DOMAIN seen[s].vers \subseteq Ids
    BY <2>1, MapType
  <2>3. IsFiniteSet(Ids)
    BY PeersAssumption, FS_AddElement DEF Ids, PeerIds
  <2>4. IsFiniteSet(DOMAIN seen[s].vers)
    BY <2>2, <2>3, FS_Subset
  <2> QED BY <2>2, <2>4, NeighboursReadBack
<1> QED BY <1>1, RouteTypes, PTL

-----------------------------------------------------------------------------
(* Rows of a bitmap and their versions.                                    *)

\* A signature is that of the bitmap the client holds, if it holds any.
HeldIsSigned ==
    \A s \in Sockets :
        (InTouch(s) /\ SessionOf(s).sig # NoMap) => seen[s] \in {NoMap, SessionOf(s).sig}

LEMMA TrackedAllStep ==
    ASSUME Tidy, ~Restarts, Ground, Ground', TrackedAll, RouteNext
    PROVE  TrackedAll'
<1>1. ASSUME NEW s \in Sockets, NEW h \in Hellos[s], RouteHandShake(s, h), att' = [att EXCEPT ![s] = h]
      PROVE  TrackedAll'
  <2>1. peers' = [peers EXCEPT ![h.group] = @ \cup {h.peer}] /\ h.group \in Groups
    BY <1>1, HelloType DEF RouteHandShake, HandShakeAccepted
  <2>2. att'[s] = h /\ \A t \in Sockets \ {s} : att'[t] = att[t]
    BY <1>1 DEF Ground, TypeOK
  <2>3. h.peer \in peers'[h.group] /\ \A g \in Groups : peers[g] \subseteq peers'[g]
    BY <2>1 DEF Ground, TypeOK
  <2>4. \A t \in Sockets : att[t] # Blank => att[t].group \in Groups
    BY SpeakerType DEF Ground
  <2> QED BY <2>2, <2>3, <2>4 DEF TrackedAll
<1>2. ASSUME NEW s \in Sockets, RouteDepart(s), att' = [att EXCEPT ![s] = Blank]
      PROVE  TrackedAll'
  <2>1. att'[s] = Blank /\ \A t \in Sockets \ {s} : att'[t] = att[t]
    BY <1>2 DEF Ground, TypeOK
  <2>2. peers' = peers \/ peers' = [peers EXCEPT ![att[s].group] = @ \ {att[s].peer}]
    BY <1>2 DEF RouteDepart, Depart
  <2>3. ASSUME NEW t \in Sockets \ {s}, att[t] # Blank
        PROVE  att[t].peer \in peers'[att[t].group]
    <3>1. att[t].peer # att[s].peer
      BY <2>3 DEF Ground, OneEach
    <3>2. att[t].peer \in peers[att[t].group] /\ att[t].group \in Groups
      BY <2>3, SpeakerType DEF TrackedAll, Ground
    <3> DEFINE k == att[t].group
               j == att[s].group
               p == att[s].peer
    <3>3. peers'[k] \in {peers[k], peers[k] \ {p}}
      <4>1. k \in Groups /\ peers \in [Groups -> SUBSET PeerIds]
        BY <3>2 DEF Ground, TypeOK
      <4> HIDE DEF k, j, p
      <4>2. peers' = peers \/ peers' = [peers EXCEPT ![j] = @ \ {p}]
        BY <2>2 DEF j, p
      <4> QED BY <4>1, <4>2
    <3> QED BY <3>1, <3>2, <3>3
  <2> QED BY <2>1, <2>3 DEF TrackedAll
<1>3. ASSUME UNCHANGED att, \A g \in Groups : peers[g] \subseteq peers'[g] PROVE TrackedAll'
  <2>1. \A t \in Sockets : att[t] # Blank => att[t].group \in Groups
    BY SpeakerType DEF Ground
  <2> QED BY <1>3, <2>1 DEF TrackedAll
<1>4. RouteCalm => peers' = peers
  BY DEF RouteCalm
<1>5. ASSUME NEW s \in Sockets, NEW report, NEW items, NEW sid, RouteSyncInfo(s, report, items, sid)
      PROVE  peers' = peers
  BY <1>5 DEF RouteSyncInfo, SyncRouteInfo
<1>6. ASSUME NEW s \in Sockets, NEW from, NEW sid, RouteResp(s, from, sid) PROVE peers' = peers
  BY <1>6 DEF RouteResp, RpcResp, groupVars
<1>7. ASSUME NEW r \in Rooms, RouteConstruct(r) PROVE \A g \in Groups : peers[g] \subseteq peers'[g]
  BY <1>7 DEF RouteConstruct, Construct
<1>8. ASSUME NEW r \in Rooms, RouteAlarm(r) PROVE peers' = peers
  BY <1>8 DEF RouteAlarm, Alarm
<1>9. ~RouteRestart /\ TypeOK
  BY DEF RouteRestart, Restart, Ground
<1>10. ASSUME NEW s \in Sockets, NEW h \in Hellos[s], RouteHandShake(s, h)
       PROVE  att' = [att EXCEPT ![s] = h]
  BY <1>10 DEF RouteHandShake, HandShakeAccepted
<1>11. ASSUME NEW s \in Sockets, RouteDepart(s) PROVE att' = [att EXCEPT ![s] = Blank]
  BY <1>11 DEF RouteDepart, Depart
<1>12. \/ UNCHANGED att
       \/ \E s \in Sockets : \E h \in Hellos[s] : RouteHandShake(s, h)
       \/ \E s \in Sockets : RouteDepart(s)
  BY AttachmentSteps DEF Ground
<1>13. CASE ~(\E s \in Sockets : \E h \in Hellos[s] : RouteHandShake(s, h)) /\ ~(\E s \in Sockets : RouteDepart(s))
  <2>1. UNCHANGED att
    BY <1>12, <1>13
  <2>2. \A g \in Groups : peers[g] \subseteq peers'[g]
    BY <1>4, <1>5, <1>6, <1>7, <1>8, <1>9, <1>13, RouteCases
  <2> QED BY <1>3, <2>1, <2>2
<1> QED BY <1>1, <1>2, <1>10, <1>11, <1>13

LEMMA HeldStep ==
    ASSUME Tidy, ~Restarts, Ground, Ground', Books, HeldIsSigned, RouteNext
    PROVE  HeldIsSigned'
<1> SUFFICES ASSUME NEW t \in Sockets, InTouch(t)', SessionOf(t)'.sig # NoMap
             PROVE  seen'[t] \in {NoMap, SessionOf(t)'.sig}
  BY DEF HeldIsSigned
<1>1. conn'[t] = "open" /\ att'[t] # Blank
  BY InTouchType
<1>2. CASE Kept(t)
  <2>1. SessionOf(t)' = SessionOf(t) /\ InTouch(t)
    BY <1>1, <1>2 DEF Kept, InTouch
  <2> QED BY <1>2, <2>1 DEF Kept, HeldIsSigned
<1>3. CASE Reached(t) /\ seen'[t] = Now(t)'
  BY <1>3 DEF Reached
<1>4. CASE Reached(t) /\ Unsent(t) /\ att[t] = Blank
  BY <1>4 DEF Unsent, Books, BlankSeesNothing
<1>5. CASE Reached(t) /\ Unsent(t) /\ att[t] # Blank
  <2>1. /\ conn[t] = "open" /\ att'[t] = att[t] /\ seen'[t] = seen[t]
        /\ SessionOf(t).sig = SessionOf(t)'.sig
    BY <1>5 DEF Reached, Unsent
  <2> QED BY <1>5, <2>1 DEF HeldIsSigned, InTouch
<1>6. Stepped
  BY AllStepped DEF RouteRestart, Restart
<1> QED BY <1>2, <1>3, <1>4, <1>5, <1>6 DEF Stepped, Reached

\* What the bitmap for a member says.
EdgesAmong(members, cs) ==
    LET ends == members \ {Server}
    IN  {{e[1], e[2]} : e \in {e \in ends \X ends : Linked(cs, e[1], e[2])}}

LEMMA ServerHasNoRow ==
    ASSUME NEW members, NEW cs
    PROVE  {e \in EdgesAmong(members, cs) : Server \in e} = {}
BY DEF EdgesAmong

Says(map, rt, members, cs) ==
    /\ DOMAIN map.vers = members \cup {Server}
    /\ \A q \in members \cup {Server} : map.vers[q] = rt.ver[q] /\ map.vers[q] \in Nat
    /\ map.edges = EdgesAmong(members, cs)

LEMMA BitmapSays ==
    ASSUME NEW rt \in RouteData, NEW members \in SUBSET PeerIds, NEW cs, NEW p \in members
    PROVE  Says(ConnBitmap(rt, members, cs, p), rt, members, cs)
<1> DEFINE map == ConnBitmap(rt, members, cs, p)
<1>1. members \cup {p} = members /\ members \cup {p, Server} = members \cup {Server} /\ p \in PeerIds
  OBVIOUS
<1>2. map.edges = EdgesAmong(members, cs)
  BY <1>1 DEF ConnBitmap, EdgesAmong, Linked
<1>3. /\ DOMAIN map.vers = members \cup {p, Server}
      /\ \A q \in members \cup {p, Server} : map.vers[q] = rt.ver[q]
  BY <1>1, BitmapType
<1>4. \A q \in members \cup {Server} : rt.ver[q] \in Nat
  BY DEF RouteData, Ids
<1> HIDE DEF map
<1>5. Says(map, rt, members, cs)
  BY <1>1, <1>2, <1>3, <1>4 DEF Says
<1> QED BY <1>5 DEF map

LEMMA SameEdges ==
    ASSUME NEW members, NEW cs, NEW new,
           \A a, b \in members : Linked(new, a, b) <=> Linked(cs, a, b)
    PROVE  EdgesAmong(members, new) = EdgesAmong(members, cs)
<1> DEFINE ends == members \ {Server}
<1>1. {e \in ends \X ends : Linked(new, e[1], e[2])}
        = {e \in ends \X ends : Linked(cs, e[1], e[2])}
  OBVIOUS
<1> QED BY <1>1 DEF EdgesAmong

\* Rows of map agree with the group data unless the version there is newer.
\* The server's row is empty here, its bits are constant.
Agrees(map, rt, members, cs) ==
    /\ DOMAIN map.vers = members \cup {Server}
    /\ Row(map, Server) = {}
    /\ \A q \in members \ {Server} :
          /\ map.vers[q] <= rt.ver[q]
          /\ map.vers[q] = rt.ver[q]
                => Row(map, q) = {e \in EdgesAmong(members, cs) : q \in e}

\* A client lists the members; what it holds of a peer is what it would be
\* sent now, unless the peer's version has grown.
RowsCurrent ==
    \A s \in Sockets : (InTouch(s) /\ seen[s] # NoMap) =>
        LET g == att[s].group IN Agrees(seen[s], route[g], peers[g], conns[g])

\* A group that turns keeps an old bitmap's rows right.
LEMMA AgreesStays ==
    ASSUME NEW map, NEW rt, NEW members, NEW cs, NEW new, NEW edges,
           \A q \in members \ {Server} :
               map.vers[q] \in Nat /\ rt.ver[q] \in Nat /\ new.ver[q] \in Nat,
           Agrees(map, rt, members, cs),
           \/ \A q \in members \ {Server} : new.ver[q] > rt.ver[q]
           \/ /\ \A q \in members \ {Server} : new.ver[q] >= rt.ver[q]
              /\ \A a, b \in members : Linked(edges, a, b) <=> Linked(cs, a, b)
    PROVE  Agrees(map, new, members, edges)
<1>1. ASSUME NEW q \in members \ {Server}
      PROVE  /\ map.vers[q] <= new.ver[q]
             /\ map.vers[q] = new.ver[q]
                   => Row(map, q) = {e \in EdgesAmong(members, edges) : q \in e}
  <2>1. map.vers[q] <= rt.ver[q] /\ new.ver[q] >= rt.ver[q]
    BY DEF Agrees
  <2>2. map.vers[q] <= new.ver[q]
    BY <2>1
  <2>3. ASSUME map.vers[q] = new.ver[q]
        PROVE  Row(map, q) = {e \in EdgesAmong(members, edges) : q \in e}
    <3>1. map.vers[q] = rt.ver[q]
      BY <2>1, <2>3
    <3>2. ~(new.ver[q] > rt.ver[q])
      BY <2>3, <3>1
    <3>3. EdgesAmong(members, edges) = EdgesAmong(members, cs)
      BY <3>2, SameEdges
    <3> QED BY <3>1, <3>3 DEF Agrees
  <2> QED BY <2>2, <2>3
<1> QED BY <1>1 DEF Agrees

\* What an updated client holds is what the server has.
LEMMA ReachedSays ==
    ASSUME Ground', TrackedAll', HeldIsSigned', NEW t \in Sockets, InTouch(t)', Reached(t),
           seen'[t] # NoMap, NEW k, k = att'[t].group
    PROVE  Says(seen'[t], route'[k], peers'[k], conns'[k])
<1> DEFINE rt == route'[k]
           members == peers'[k]
           cs == conns'[k]
           p == att'[t].peer
<1>1. k \in Groups /\ p \in PeerIds /\ p \in members
  BY InTouchType DEF TrackedAll
<1>2. rt \in RouteData /\ members \in SUBSET PeerIds
  BY <1>1 DEF Ground, RouteTyped, TypeOK
<1>3. Now(t)' = ConnBitmap(rt, members, cs, p)
  BY DEF Now
<1> HIDE DEF rt, members, cs, p
<1>4. ConnBitmap(rt, members, cs, p) \in Bitmaps /\ Says(ConnBitmap(rt, members, cs, p), rt, members, cs)
  <2>1. ConnBitmap(rt, members, cs, p) \in Bitmaps
    BY <1>1, <1>2, BitmapType
  <2> QED BY <1>1, <1>2, <2>1, BitmapSays
<1>5. Now(t)' # NoMap
  BY <1>3, <1>4, MapsAreBitmaps, MapAssumption
<1>6. seen'[t] = Now(t)'
  BY <1>5 DEF HeldIsSigned, Reached
<1> QED BY <1>3, <1>4, <1>6 DEF rt, members, cs

LEMMA NobodyForgotten ==
    ASSUME TrackedAll, NEW r \in Rooms, RouteConstruct(r), NEW g \in Groups
    PROVE  peers'[g] = peers[g]
<1>1. peers'[g] = peers[g] \cup Forgotten(r, g)
  BY DEF RouteConstruct, Construct
<1>2. \A s \in Sockets : att[s].group = g => att[s].peer \in peers[g]
  BY GroupMeansIdentified DEF TrackedAll
<1> QED BY <1>1, <1>2 DEF Forgotten, Listed, Speaks

\* Whoever is left alone by a step has the members it had.
LEMMA MembersStay ==
    ASSUME Tidy, Disciplined, ~Restarts, Ground, Ground', Books, TrackedAll, RouteNext,
           NEW t \in Sockets, InTouch(t)', ~Reached(t)
    PROVE  peers'[att'[t].group] = peers[att'[t].group]
<1> DEFINE k == att'[t].group
           Goal == peers'[k] = peers[k]
<1>1. k \in Groups /\ att'[t] \in Hellos[t] /\ att'[t] # Blank
  <2>1. k \in Groups /\ att'[t] # Blank
    BY InTouchType
  <2> QED BY <2>1 DEF Ground, TypeOK
<1>2. ASSUME NEW s \in Sockets, NEW h \in Hellos[s], RouteHandShake(s, h) PROVE Goal
  <2>1. peers' = [peers EXCEPT ![h.group] = @ \cup {h.peer}]
    BY <1>2 DEF RouteHandShake, HandShakeAccepted
  <2>2. CASE k = h.group
    <3>1. RoomOf[t] = RoomOf[s]
      BY <1>1, <2>2 DEF Disciplined
    <3> QED BY <1>2, <2>2, <3>1, HandShakeStepped
  <2>3. CASE k # h.group
    <3> HIDE DEF k
    <3> QED BY <1>1, <2>1, <2>3 DEF Ground, TypeOK
  <2> QED BY <2>2, <2>3
<1>3. ASSUME NEW s \in Sockets, RouteDepart(s) PROVE Goal
  <2>1. /\ att' = [att EXCEPT ![s] = Blank]
        /\ ~RemovesPeer(s) => peers' = peers
        /\ RemovesPeer(s) => peers' = [peers EXCEPT ![att[s].group] = @ \ {att[s].peer}]
    BY <1>3 DEF RouteDepart, Depart
  <2>2. t # s /\ att'[t] = att[t]
    BY <1>1, <2>1 DEF Ground, TypeOK
  <2>3. CASE RemovesPeer(s) /\ k = att[s].group
    <3>1. att[s] \in Hellos[s]
      BY <2>3, SpeakerType DEF RemovesPeer, Blank, Ground
    <3>2. RoomOf[t] = RoomOf[s]
      BY <1>1, <2>2, <2>3, <3>1 DEF Disciplined
    <3> QED BY <1>3, <2>2, <2>3, <3>2, DepartStepped
  <2>4. CASE RemovesPeer(s) /\ k # att[s].group
    <3> DEFINE j == att[s].group
    <3>1. peers' = [peers EXCEPT ![j] = @ \ {att[s].peer}] /\ k # j
      BY <2>1, <2>4
    <3> HIDE DEF k, j
    <3> QED BY <1>1, <3>1 DEF Ground, TypeOK
  <2> QED BY <2>1, <2>3, <2>4
<1>4. RouteCalm => Goal
  BY DEF RouteCalm
<1>5. ASSUME NEW s \in Sockets, NEW report, NEW items, NEW sid, RouteSyncInfo(s, report, items, sid)
      PROVE  Goal
  BY <1>5 DEF RouteSyncInfo, SyncRouteInfo
<1>6. ASSUME NEW s \in Sockets, NEW from, NEW sid, RouteResp(s, from, sid) PROVE Goal
  BY <1>6 DEF RouteResp, RpcResp, groupVars
<1>7. ASSUME NEW r \in Rooms, RouteConstruct(r) PROVE Goal
  BY <1>1, <1>7, NobodyForgotten
<1>8. ASSUME NEW r \in Rooms, RouteAlarm(r) PROVE Goal
  BY <1>8 DEF RouteAlarm, Alarm
<1>9. ~RouteRestart /\ TypeOK
  BY DEF RouteRestart, Restart, Ground
<1> HIDE DEF Goal
<1>10. Goal
  BY <1>2, <1>3, <1>4, <1>5, <1>6, <1>7, <1>8, <1>9, RouteCases
<1> QED BY <1>10 DEF Goal

\* What a client is held to have, as naturals that can be compared.
LEMMA HeldVersions ==
    ASSUME RouteTyped, NEW map \in Maps, map # NoMap, NEW k \in Groups,
           NEW members \in SUBSET PeerIds, DOMAIN map.vers = members \cup {Server}
    PROVE  \A q \in members \cup {Server} :
               /\ map.vers[q] \in Nat
               /\ route[k].ver[q] \in Nat
<1>1. map \in Bitmaps
  BY DEF Maps
<1>2. \A q \in members \cup {Server} : map.vers[q] \in Nat
  BY <1>1, MapType
<1>3. route[k] \in RouteData
  BY DEF RouteTyped
<1> QED BY <1>2, <1>3 DEF RouteData, Ids

LEMMA RowsStep ==
    ASSUME Tidy, Disciplined, ~Restarts, Ground, Ground',
           Books, TrackedAll, TrackedAll', DepartedTracked, HeldIsSigned', RowsCurrent, RouteNext
    PROVE  RowsCurrent'
<1> SUFFICES ASSUME NEW t \in Sockets, InTouch(t)', seen'[t] # NoMap
             PROVE  Agrees(seen'[t], route'[att'[t].group], peers'[att'[t].group], conns'[att'[t].group])
  BY DEF RowsCurrent
<1> DEFINE k == att'[t].group
           new == route'[k]
           members == peers'[k]
           edges == conns'[k]
<1>1. k \in Groups /\ conn'[t] = "open" /\ att'[t] # Blank
  BY InTouchType
<1>2. members \in SUBSET PeerIds /\ seen'[t] \in Maps
  BY <1>1 DEF Ground, TypeOK, RouteTyped
<1>3. Stepped /\ Turned
  BY AllStepped DEF RouteRestart, Restart
<1>4. CASE Reached(t)
  <2>1. Says(seen'[t], new, members, edges)
    BY <1>4, ReachedSays
  <2> HIDE DEF new, members, edges, k
  <2>2. \A q \in members \cup {Server} : seen'[t].vers[q] = new.ver[q] /\ seen'[t].vers[q] \in Nat
    BY <2>1 DEF Says
  <2>3. Agrees(seen'[t], new, members, edges)
    BY <2>1, <2>2, ServerHasNoRow DEF Says, Agrees, Row
  <2> QED BY <2>3 DEF k, new, members, edges
<1>5. CASE ~Reached(t)
  <2>1. Kept(t)
    BY <1>3, <1>5 DEF Stepped
  <2>2. att'[t] = att[t] /\ seen'[t] = seen[t] /\ InTouch(t) /\ k = att[t].group
    BY <1>1, <2>1 DEF Kept, InTouch
  <2>3. members = peers[k]
    BY <1>5, MembersStay
  <2>4. Agrees(seen[t], route[k], members, conns[k])
    BY <2>2, <2>3 DEF RowsCurrent
  <2>5. Still(k) \/ Bumped(k)
    BY <1>1, <1>3 DEF Turned
  <2> HIDE DEF k
  <2>6. \/ \A q \in members \ {Server} : new.ver[q] > route[k].ver[q]
        \/ /\ \A q \in members \ {Server} : new.ver[q] >= route[k].ver[q]
           /\ \A a, b \in members : Linked(edges, a, b) <=> Linked(conns[k], a, b)
    BY <2>3, <2>5 DEF Still, Bumped
  <2> HIDE DEF members, edges
  <2>7. DOMAIN seen[t].vers = members \cup {Server}
    BY <2>4 DEF Agrees
  <2>8. \A q \in members \cup {Server} : seen[t].vers[q] \in Nat /\ route[k].ver[q] \in Nat
    BY <1>1, <1>2, <2>2, <2>7, HeldVersions DEF Ground
  <2>9. \A q \in members \cup {Server} : new.ver[q] \in Nat
    <3>1. new \in RouteData
      BY <1>1 DEF Ground, RouteTyped
    <3> HIDE DEF new
    <3> QED BY <1>2, <3>1 DEF RouteData, Ids
  <2> HIDE DEF new
  <2>10. Agrees(seen[t], new, members, edges)
    BY <2>4, <2>6, <2>8, <2>9, AgreesStays
  <2> QED BY <2>2, <2>10 DEF k, new, members, edges
<1> QED BY <1>4, <1>5

LEMMA RowChangeStep ==
    ASSUME Tidy, Disciplined, ~Restarts, Ground, Ground',
           Books, TrackedAll, TrackedAll', DepartedTracked, HeldIsSigned', RowsCurrent, RouteNext,
           NEW s \in Sockets, seen[s] # NoMap, seen'[s] # NoMap, att'[s] = att[s],
           NEW p \in DOMAIN seen[s].vers \cap DOMAIN seen'[s].vers,
           seen'[s].vers[p] = seen[s].vers[p]
    PROVE  Row(seen'[s], p) = Row(seen[s], p)
<1> SUFFICES ASSUME seen'[s] # seen[s] PROVE Row(seen'[s], p) = Row(seen[s], p)
  OBVIOUS
<1> DEFINE k == att[s].group
           rt == route[k]
           new == route'[k]
           members == peers[k]
           after == peers'[k]
           cs == conns[k]
           edges == conns'[k]
<1>1. Stepped /\ Silent /\ Turned
  BY AllStepped DEF RouteRestart, Restart
<1>2. InTouch(s)' /\ Reached(s)
  BY <1>1 DEF Silent, Stepped, Kept
<1>3. att[s] # Blank
  BY DEF Books, BlankSeesNothing
<1>4. InTouch(s) /\ k \in Groups
  BY <1>2, <1>3, SpeakerType DEF Reached, InTouch, Ground
<1>5. Agrees(seen[s], rt, members, cs)
  BY <1>4 DEF RowsCurrent
<1>6. Says(seen'[s], new, after, edges)
  BY <1>2, ReachedSays
<1>7. Still(k) \/ Bumped(k)
  BY <1>1, <1>4 DEF Turned
<1>8. members \in SUBSET PeerIds /\ after \in SUBSET PeerIds /\ rt \in RouteData /\ new \in RouteData
  BY <1>4 DEF Ground, TypeOK, RouteTyped
<1> HIDE DEF k
<1>9. \/ \A q \in (members \cap after) \ {Server} : new.ver[q] > rt.ver[q]
      \/ /\ after = members
         /\ \A q \in members \ {Server} : new.ver[q] >= rt.ver[q]
         /\ \A a, b \in members : Linked(edges, a, b) <=> Linked(cs, a, b)
  BY <1>7 DEF Still, Bumped
<1> HIDE DEF rt, new, members, after, cs, edges
<1>10. CASE p = Server
  <2>1. Row(seen[s], p) = {}
    BY <1>5, <1>10 DEF Agrees
  <2>2. Row(seen'[s], p) = {}
    BY <1>6, <1>10, ServerHasNoRow DEF Says, Row
  <2> QED BY <2>1, <2>2
<1>11. CASE p # Server
  <2>1. p \in (members \cap after) \ {Server} /\ p \in members \ {Server}
    BY <1>5, <1>6, <1>11 DEF Agrees, Says
  <2>2. rt.ver[p] \in Nat /\ new.ver[p] \in Nat
    BY <1>8, <2>1 DEF RouteData, Ids
  <2>3. /\ seen[s].vers[p] <= rt.ver[p]
        /\ seen'[s].vers[p] = new.ver[p]
        /\ seen[s].vers[p] = rt.ver[p] => Row(seen[s], p) = {e \in EdgesAmong(members, cs) : p \in e}
        /\ seen'[s].edges = EdgesAmong(after, edges)
    BY <1>5, <1>6, <2>1 DEF Agrees, Says
  <2>4. ~(new.ver[p] > rt.ver[p])
    BY <2>2, <2>3
  <2>5. /\ after = members /\ new.ver[p] >= rt.ver[p]
        /\ \A a, b \in members : Linked(edges, a, b) <=> Linked(cs, a, b)
    BY <1>9, <2>1, <2>4
  <2>6. EdgesAmong(after, edges) = EdgesAmong(members, cs)
    BY <2>5, SameEdges
  <2>7. seen[s].vers[p] = rt.ver[p]
    BY <2>2, <2>3, <2>4, <2>5
  <2> QED BY <2>3, <2>6, <2>7 DEF Row
<1> QED BY <1>10, <1>11

\* What the last property rests on.
Rows == TrackedAll /\ HeldIsSigned /\ RowsCurrent

LEMMA RowsKept ==
    ASSUME Tidy, Disciplined, ~Restarts, Ground, Ground', Books,
           DepartedTracked, Rows, [RouteNext]_allVars
    PROVE  Rows'
<1>1. CASE UNCHANGED allVars
  <2>1. /\ att' = att /\ conn' = conn /\ peers' = peers /\ conns' = conns
        /\ route' = route /\ seen' = seen
    BY <1>1 DEF allVars, vars
  <2> QED BY <2>1 DEF Rows, TrackedAll, HeldIsSigned, RowsCurrent, InTouch, SessionOf
<1>2. CASE RouteNext
  <2>1. TrackedAll'
    BY <1>2, TrackedAllStep DEF Rows
  <2>2. HeldIsSigned'
    BY <1>2, HeldStep DEF Rows
  <2>3. RowsCurrent'
    BY <1>2, <2>1, <2>2, RowsStep DEF Rows
  <2> QED BY <2>1, <2>2, <2>3 DEF Rows
<1> QED BY <1>1, <1>2

LEMMA RowsHold ==
    ASSUME Tidy, Disciplined, ~Restarts
    PROVE  RouteSpec => []Rows
<1>1. RouteInit => Rows
  <2>1. RouteInit => \A s \in Sockets : att[s] = Blank
    BY DEF RouteInit, Init
  <2> QED BY <2>1 DEF Rows, TrackedAll, HeldIsSigned, RowsCurrent, InTouch
<1>2. Ground /\ Ground' /\ Books /\ DepartedTracked /\ Rows /\ [RouteNext]_allVars => Rows'
  BY RowsKept
<1>3. Spec => []DepartedTracked
  BY EdgesDoNotLeak
<1> QED BY <1>1, <1>2, <1>3, Grounded, RouteImplementsRoom, PTL DEF RouteSpec

\* A row that changes changes its version: with tidy clients of networks that
\* keep to their rooms, while the isolate lives, two bitmaps a client receives
\* one after the other agree on every peer whose version they share, so that a
\* client which takes only rows of a newer version misses nothing
\* (bump_all_conn_versions, and its callers).
THEOREM RowChangesBump ==
    ASSUME Tidy, Disciplined, ~Restarts
    PROVE  RouteSpec => RowChangeBumpsVersion
<1>1. ASSUME Ground, Ground', Books, DepartedTracked, Rows, Rows', [RouteNext]_allVars
      PROVE  \A s \in Sockets :
         (seen[s] # NoMap /\ seen'[s] # NoMap /\ att'[s] = att[s]) =>
            \A p \in DOMAIN seen[s].vers \cap DOMAIN seen'[s].vers :
                seen'[s].vers[p] = seen[s].vers[p] => Row(seen'[s], p) = Row(seen[s], p)
  <2>1. CASE UNCHANGED allVars
    BY <2>1 DEF allVars
  <2>2. CASE RouteNext
    BY <1>1, <2>2, RowChangeStep DEF Rows
  <2> QED BY <1>1, <2>1, <2>2
<1>2. Ground /\ Ground' /\ Books /\ DepartedTracked /\ Rows /\ Rows' /\ [RouteNext]_allVars =>
      \A s \in Sockets :
         (seen[s] # NoMap /\ seen'[s] # NoMap /\ att'[s] = att[s]) =>
            \A p \in DOMAIN seen[s].vers \cap DOMAIN seen'[s].vers :
                seen'[s].vers[p] = seen[s].vers[p] => Row(seen'[s], p) = Row(seen[s], p)
  BY <1>1
<1>3. Spec => []DepartedTracked
  BY EdgesDoNotLeak
<1> QED BY <1>2, <1>3, RowsHold, Grounded, RouteImplementsRoom, PTL DEF RouteSpec, RowChangeBumpsVersion
=============================================================================
