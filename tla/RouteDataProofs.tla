--------------------------- MODULE RouteDataProofs ---------------------------
(***************************************************************************)
(* Proofs about the route data for any clients: its operations, its type   *)
(* and what a kept bitmap signature says.                                  *)
(*                                                                         *)
(* The loops of the handlers (Steps) are recursive functions.  What they   *)
(* preserve is proved by induction on sets of numbers, which rests on the  *)
(* well-foundedness of < on Nat.                                           *)
(***************************************************************************)
EXTENDS RouteSync, RelayRoomProofs, FiniteSetTheorems, SequenceTheorems, WellFoundedInduction

\* Induction, for a set that holds 0 and the successors of its members.
LEMMA NatSetInduction ==
    ASSUME NEW T, 0 \in T, \A n \in Nat : n \in T => n + 1 \in T
    PROVE  Nat \subseteq T
<1> SUFFICES ASSUME Nat \ T # {} PROVE FALSE
  OBVIOUS
<1> DEFINE R == {ss \in Nat \X Nat : ss[1] < ss[2]}
<1>1. IsWellFoundedOn(R, Nat)
  BY NatLessThanWellFounded DEF OpToRel
<1>2. PICK x \in Nat \ T : \A y \in Nat \ T : ~(<<y, x>> \in R)
  <2>1. Nat \ T \subseteq Nat
    OBVIOUS
  <2> HIDE DEF R
  <2> QED BY <1>1, <2>1, WFMin
<1>3. x - 1 \in Nat /\ x - 1 \notin T
  OBVIOUS
<1>4. <<x - 1, x>> \in R
  BY <1>3
<1> QED BY <1>2, <1>3, <1>4


\* f computes the recursion that starts with start and goes on with step.
Recurs(f, n, start, step) ==
    \A i \in 0..n : f[i] = IF i = 0 THEN start ELSE step[<<i, f[i - 1]>>]

\* Such a function exists for every step that stays in a set.
LEMMA Recursion ==
    ASSUME NEW S, NEW start \in S, NEW n \in Nat, NEW step \in [(1..n) \X S -> S]
    PROVE  \E f \in [0..n -> S] : Recurs(f, n, start, step)
<1> USE DEF Recurs
<1> DEFINE Good(f, m) == \A i \in 0..m : f[i] = IF i = 0 THEN start ELSE step[<<i, f[i - 1]>>]
           T == {m \in Nat : m <= n => \E f \in [0..m -> S] : Good(f, m)}
<1>1. 0 \in T
  <2> DEFINE f == [i \in 0..0 |-> start]
  <2>1. f \in [0..0 -> S] /\ Good(f, 0)
    OBVIOUS
  <2> QED BY <2>1
<1>2. ASSUME NEW m \in Nat, m \in T PROVE m + 1 \in T
  <2> SUFFICES ASSUME m + 1 <= n PROVE \E f \in [0..(m + 1) -> S] : Good(f, m + 1)
    OBVIOUS
  <2>1. PICK f \in [0..m -> S] : Good(f, m)
    BY <1>2
  <2> DEFINE last == step[<<m + 1, f[m]>>]
             h == [i \in 0..(m + 1) |-> IF i = m + 1 THEN last ELSE f[i]]
  <2>2. last \in S
    <3>1. <<m + 1, f[m]>> \in (1..n) \X S
      OBVIOUS
    <3> QED BY <3>1
  <2>3. h \in [0..(m + 1) -> S] /\ h[m + 1] = last /\ \A i \in 0..m : h[i] = f[i]
    <3> HIDE DEF last
    <3> QED BY <2>2
  <2>4. ASSUME NEW i \in 0..(m + 1)
        PROVE  h[i] = IF i = 0 THEN start ELSE step[<<i, h[i - 1]>>]
    <3> HIDE DEF h
    <3>1. CASE i = m + 1
      <4>1. m \in 0..m /\ i - 1 = m /\ i # 0
        BY <3>1
      <4>2. h[i - 1] = f[m]
        BY <2>3, <4>1
      <4> QED BY <2>3, <3>1, <4>1, <4>2
    <3>2. CASE i # m + 1
      <4>1. i \in 0..m /\ h[i] = f[i] /\ (i # 0 => h[i - 1] = f[i - 1])
        BY <2>3, <3>2
      <4> QED BY <2>1, <4>1
    <3> QED BY <3>1, <3>2
  <2> HIDE DEF h
  <2>5. Good(h, m + 1)
    BY <2>4
  <2> QED BY <2>3, <2>5
<1>3. n \in T
  <2> HIDE DEF T
  <2> QED BY <1>1, <1>2, NatSetInduction
<1> QED BY <1>3

-----------------------------------------------------------------------------
(* The operations on the route data of one group.                          *)

Bitmaps ==
    UNION {[vers: [listed \cup {Server} -> Nat \ {0}], edges: SUBSET SUBSET PeerIds] :
               listed \in SUBSET PeerIds}
Maps == Bitmaps \cup {NoMap}
Sessions == [dst: Sids \cup {NoSid}, my: Sockets \cup {NoSocket}, sig: Maps]
Infos == Nat \cup {NoInfo}
RouteData == [infos: [Ids -> Infos], ver: [Ids -> Nat \ {0}], sess: [PeerIds -> Sessions]]

\* What rt can become while no session is touched: no version falls.
Grown(rt) ==
    {x \in RouteData : x.sess = rt.sess /\ \A q \in Ids : x.ver[q] >= rt.ver[q]}

LEMMA GrownTransitive ==
    ASSUME NEW rt \in RouteData, NEW x \in Grown(rt), NEW y \in Grown(x)
    PROVE  y \in Grown(rt)
<1>1. /\ x \in RouteData /\ x.sess = rt.sess /\ \A q \in Ids : x.ver[q] >= rt.ver[q]
      /\ y \in RouteData /\ y.sess = x.sess /\ \A q \in Ids : y.ver[q] >= x.ver[q]
  BY DEF Grown
<1>2. ASSUME NEW q \in Ids PROVE y.ver[q] >= rt.ver[q]
  <2>1. rt.ver[q] \in Nat /\ x.ver[q] \in Nat /\ y.ver[q] \in Nat
    BY <1>1 DEF RouteData
  <2> QED BY <1>1, <2>1
<1> QED BY <1>1, <1>2 DEF Grown

\* A bump raises the version of every member and of the server.
LEMMA BumpGrows ==
    ASSUME NEW rt \in RouteData, NEW members
    PROVE  /\ BumpAll(rt, members) \in Grown(rt)
           /\ BumpAll(rt, members).ver[Server] > rt.ver[Server]
           /\ \A q \in Ids : q \in members => BumpAll(rt, members).ver[q] > rt.ver[q]
<1> DEFINE known == members \cup {q \in Ids : rt.infos[q] # NoInfo}
           one(cond) == IF cond THEN 1 ELSE 0
           ver == [q \in Ids |-> rt.ver[q] + one(q \in known) + one(q = Server)]
           new == BumpAll(rt, members)
<1>1. rt.ver \in [Ids -> Nat \ {0}]
  BY DEF RouteData
<1>2. new = [rt EXCEPT !.ver = ver]
  BY DEF BumpAll
<1>3. ver \in [Ids -> Nat \ {0}] /\ \A q \in Ids : ver[q] >= rt.ver[q]
  <2> HIDE DEF known
  <2> QED BY <1>1
<1>4. /\ \A q \in Ids : q \in members => ver[q] > rt.ver[q]
      /\ ver[Server] > rt.ver[Server]
  <2>1. Server \in Ids
    BY DEF Ids
  <2>2. \A q \in members : q \in known
    OBVIOUS
  <2> HIDE DEF known
  <2> QED BY <1>1, <2>1, <2>2
<1> HIDE DEF ver
<1>5. new \in RouteData /\ new.ver = ver /\ new.sess = rt.sess
  BY <1>2, <1>3 DEF RouteData
<1> QED BY <1>3, <1>4, <1>5 DEF Grown

LEMMA Unchanged ==
    ASSUME NEW rt \in RouteData
    PROVE  rt \in Grown(rt)
BY DEF Grown, RouteData

LEMMA AddPeerGrows ==
    ASSUME NEW rt \in RouteData, NEW members, NEW p
    PROVE  /\ AddPeer(rt, members, p) \in Grown(rt)
           /\ p \notin members =>
                /\ AddPeer(rt, members, p).ver[Server] > rt.ver[Server]
                /\ \A q \in Ids : q \in members => AddPeer(rt, members, p).ver[q] > rt.ver[q]
<1>1. CASE p \in members
  BY <1>1, Unchanged DEF AddPeer
<1>2. CASE p \notin members
  <2> DEFINE all == members \cup {p}
  <2>1. AddPeer(rt, members, p) = BumpAll(rt, all) /\ members \subseteq all
    BY <1>2 DEF AddPeer
  <2> HIDE DEF all
  <2> QED BY <2>1, BumpGrows
<1> QED BY <1>1, <1>2

\* Storing an info touches neither versions nor sessions.
LEMMA StoredGrows ==
    ASSUME NEW rt \in RouteData, NEW q \in Ids, NEW v \in Nat
    PROVE  [rt EXCEPT !.infos[q] = v] \in Grown(rt)
<1> DEFINE new == [rt EXCEPT !.infos[q] = v]
<1>1. new \in RouteData /\ new.sess = rt.sess /\ new.ver = rt.ver
  BY DEF RouteData, Infos
<1> HIDE DEF new
<1>2. \A p \in Ids : rt.ver[p] \in Nat
  BY DEF RouteData
<1>3. new \in Grown(rt)
  BY <1>1, <1>2 DEF Grown
<1> QED BY <1>3 DEF new

LEMMA ItemsType ==
    ASSUME NEW item \in Items
    PROVE  item.id \in Ids /\ item.ver \in Nat
BY InfosAssumption DEF Items

LEMMA UpdateGrows ==
    ASSUME NEW rt \in RouteData, NEW members, NEW item, item.id \in Ids, item.ver \in Nat
    PROVE  UpdatePeerInfo(rt, members, item) \in Grown(rt)
<1> DEFINE stored == [rt EXCEPT !.infos[item.id] = item.ver]
<1>1. stored \in Grown(rt) /\ stored \in RouteData
  BY StoredGrows DEF Grown
<1> HIDE DEF stored
<1>2. BumpAll(stored, members) \in Grown(rt)
  BY <1>1, BumpGrows, GrownTransitive
<1>3. UpdatePeerInfo(rt, members, item) \in {rt, stored, BumpAll(stored, members)}
  BY DEF UpdatePeerInfo, stored
<1> QED BY <1>1, <1>2, <1>3, Unchanged

-----------------------------------------------------------------------------
(* Loops.                                                                  *)

LEMMA RequestItems ==
    ASSUME NEW items \in Requests
    PROVE  Len(items) \in Nat /\ \A i \in 1..Len(items) : items[i].id \in Ids /\ items[i].ver \in Nat
<1>1. PICK n \in 0..MaxItems : items \in [1..n -> Items]
  BY DEF Requests
<1>2. items \in Seq(Items)
  BY <1>1, BoundAssumption, SeqDef
<1>3. Len(items) \in Nat /\ \A i \in 1..Len(items) : items[i] \in Items
  BY <1>2, LenProperties
<1> QED BY <1>3, ItemsType

\* A loop whose rounds let no version fall and touch no session does neither.
LEMMA LoopGrows ==
    ASSUME NEW rt \in RouteData, NEW n \in Nat, NEW run, run[0] = rt,
           \A i \in 1..n : run[i - 1] \in RouteData => run[i] \in Grown(run[i - 1])
    PROVE  \A i \in 0..n : run[i] \in Grown(rt)
<1> DEFINE T == {i \in Nat : i <= n => run[i] \in Grown(rt)}
<1>1. 0 \in T
  BY Unchanged
<1>2. ASSUME NEW i \in Nat, i \in T PROVE i + 1 \in T
  <2> SUFFICES ASSUME i + 1 <= n PROVE run[i + 1] \in Grown(rt)
    OBVIOUS
  <2>1. run[i] \in Grown(rt) /\ i + 1 \in 1..n /\ (i + 1) - 1 = i
    BY <1>2
  <2>2. run[i] \in RouteData
    BY <2>1 DEF Grown
  <2>3. run[i + 1] \in Grown(run[i])
    BY <2>1, <2>2
  <2> QED BY <2>1, <2>3, GrownTransitive
<1> HIDE DEF T
<1>3. Nat \subseteq T
  BY <1>1, <1>2, NatSetInduction
<1> QED BY <1>3 DEF T

\* The loop of process_incoming_peer_infos, round by round.
LEMMA ProcessingSteps ==
    ASSUME NEW rt \in RouteData, NEW members, NEW items \in Requests
    PROVE  /\ Processing(rt, members, items)[0] = rt
           /\ \A i \in 1..Len(items) : Processing(rt, members, items)[i] = UpdatePeerInfo(Processing(rt, members, items)[i - 1], members, items[i])
<1> DEFINE run == Processing(rt, members, items)
           step == [e \in (1..Len(items)) \X RouteData |-> UpdatePeerInfo(e[2], members, items[e[1]])]
<1>0. Len(items) \in Nat /\ rt \in RouteData
  BY RequestItems
<1>1. step \in [(1..Len(items)) \X RouteData -> RouteData]
  <2>1. ASSUME NEW i \in 1..Len(items), NEW x \in RouteData
        PROVE  UpdatePeerInfo(x, members, items[i]) \in RouteData
    BY RequestItems, UpdateGrows DEF Grown
  <2> QED BY <2>1
<1>2. PICK f \in [0..Len(items) -> RouteData] : Recurs(f, Len(items), rt, step)
  <2> HIDE DEF step
  <2> QED BY <1>0, <1>1, Recursion
<1>3. f = [i \in 0..Len(items) |-> IF i = 0 THEN rt ELSE UpdatePeerInfo(f[i - 1], members, items[i])]
  <2>1. \A i \in 1..Len(items) : step[<<i, f[i - 1]>>] = UpdatePeerInfo(f[i - 1], members, items[i])
    <3>1. \A i \in 1..Len(items) : <<i, f[i - 1]>> \in (1..Len(items)) \X RouteData
      BY <1>0
    <3> QED BY <3>1
  <2>2. \A i \in 0..Len(items) : i = 0 \/ i \in 1..Len(items)
    BY <1>0
  <2> HIDE DEF step
  <2>3. \A i \in 0..Len(items) : f[i] = IF i = 0 THEN rt ELSE step[<<i, f[i - 1]>>]
    BY <1>2 DEF Recurs
  <2>4. \A i \in 0..Len(items) : f[i] = IF i = 0 THEN rt ELSE UpdatePeerInfo(f[i - 1], members, items[i])
    BY <2>1, <2>2, <2>3
  <2> QED BY <2>4
<1>4. run = [i \in 0..Len(items) |-> IF i = 0 THEN rt ELSE UpdatePeerInfo(run[i - 1], members, items[i])]
  BY <1>3 DEF Processing, Steps
<1> HIDE DEF run
<1>5. run[0] = rt /\ \A i \in 1..Len(items) : run[i] = UpdatePeerInfo(run[i - 1], members, items[i])
  BY <1>0, <1>4
<1> QED BY <1>5 DEF run

LEMMA StoreGrows ==
    ASSUME NEW rt \in RouteData, NEW members, NEW from, NEW item, item.id \in Ids, item.ver \in Nat
    PROVE  StoreInfo(rt, members, from, item) \in Grown(rt)
BY StoredGrows, Unchanged DEF StoreInfo

\* The loop of handle_sync_route_info_request.
LEMMA StoringSteps ==
    ASSUME NEW rt \in RouteData, NEW members, NEW from, NEW items \in Requests
    PROVE  /\ Storing(rt, members, from, items)[0] = rt
           /\ \A i \in 1..Len(items) : Storing(rt, members, from, items)[i] = StoreInfo(Storing(rt, members, from, items)[i - 1], members, from, items[i])
<1> DEFINE run == Storing(rt, members, from, items)
           step == [e \in (1..Len(items)) \X RouteData |-> StoreInfo(e[2], members, from, items[e[1]])]
<1>0. Len(items) \in Nat /\ rt \in RouteData
  BY RequestItems
<1>1. step \in [(1..Len(items)) \X RouteData -> RouteData]
  <2>1. ASSUME NEW i \in 1..Len(items), NEW x \in RouteData
        PROVE  StoreInfo(x, members, from, items[i]) \in RouteData
    BY RequestItems, StoreGrows DEF Grown
  <2> QED BY <2>1
<1>2. PICK f \in [0..Len(items) -> RouteData] : Recurs(f, Len(items), rt, step)
  <2> HIDE DEF step
  <2> QED BY <1>0, <1>1, Recursion
<1>3. f = [i \in 0..Len(items) |-> IF i = 0 THEN rt ELSE StoreInfo(f[i - 1], members, from, items[i])]
  <2>1. \A i \in 1..Len(items) : step[<<i, f[i - 1]>>] = StoreInfo(f[i - 1], members, from, items[i])
    <3>1. \A i \in 1..Len(items) : <<i, f[i - 1]>> \in (1..Len(items)) \X RouteData
      BY <1>0
    <3> QED BY <3>1
  <2>2. \A i \in 0..Len(items) : i = 0 \/ i \in 1..Len(items)
    BY <1>0
  <2> HIDE DEF step
  <2>3. \A i \in 0..Len(items) : f[i] = IF i = 0 THEN rt ELSE step[<<i, f[i - 1]>>]
    BY <1>2 DEF Recurs
  <2>4. \A i \in 0..Len(items) : f[i] = IF i = 0 THEN rt ELSE StoreInfo(f[i - 1], members, from, items[i])
    BY <2>1, <2>2, <2>3
  <2> QED BY <2>4
<1>4. run = [i \in 0..Len(items) |-> IF i = 0 THEN rt ELSE StoreInfo(run[i - 1], members, from, items[i])]
  BY <1>3 DEF Storing, Steps
<1> HIDE DEF run
<1>5. run[0] = rt /\ \A i \in 1..Len(items) : run[i] = StoreInfo(run[i - 1], members, from, items[i])
  BY <1>0, <1>4
<1> QED BY <1>5 DEF run

LEMMA ReaddGrows ==
    ASSUME NEW rt \in RouteData, NEW g, NEW order, NEW i
    PROVE  Readd(rt, g, order, i) \in Grown(rt)
BY AddPeerGrows, Unchanged DEF Readd

\* The loop of RelayRoom::new.
LEMMA ReaddingSteps ==
    ASSUME NEW g \in Groups, route[g] \in RouteData, NEW order, NEW n \in Nat
    PROVE  /\ Readding(g, order, n)[0] = route[g]
           /\ \A i \in 1..n : Readding(g, order, n)[i] = Readd(Readding(g, order, n)[i - 1], g, order, i)
<1> DEFINE run == Readding(g, order, n)
           step == [e \in (1..n) \X RouteData |-> Readd(e[2], g, order, e[1])]
<1>0. n \in Nat /\ route[g] \in RouteData
  OBVIOUS
<1>1. step \in [(1..n) \X RouteData -> RouteData]
  <2>1. ASSUME NEW i \in 1..n, NEW x \in RouteData
        PROVE  Readd(x, g, order, i) \in RouteData
    BY ReaddGrows DEF Grown
  <2> QED BY <2>1
<1>2. PICK f \in [0..n -> RouteData] : Recurs(f, n, route[g], step)
  <2> HIDE DEF step
  <2> QED BY <1>0, <1>1, Recursion
<1>3. f = [i \in 0..n |-> IF i = 0 THEN route[g] ELSE Readd(f[i - 1], g, order, i)]
  <2>1. \A i \in 1..n : step[<<i, f[i - 1]>>] = Readd(f[i - 1], g, order, i)
    <3>1. \A i \in 1..n : <<i, f[i - 1]>> \in (1..n) \X RouteData
      BY <1>0
    <3> QED BY <3>1
  <2>2. \A i \in 0..n : i = 0 \/ i \in 1..n
    BY <1>0
  <2> HIDE DEF step
  <2>3. \A i \in 0..n : f[i] = IF i = 0 THEN route[g] ELSE step[<<i, f[i - 1]>>]
    BY <1>2 DEF Recurs
  <2>4. \A i \in 0..n : f[i] = IF i = 0 THEN route[g] ELSE Readd(f[i - 1], g, order, i)
    BY <2>1, <2>2, <2>3
  <2> QED BY <2>4
<1>4. run = [i \in 0..n |-> IF i = 0 THEN route[g] ELSE Readd(run[i - 1], g, order, i)]
  BY <1>3 DEF Readding, Steps
<1> HIDE DEF run
<1>5. run[0] = route[g] /\ \A i \in 1..n : run[i] = Readd(run[i - 1], g, order, i)
  BY <1>0, <1>4
<1> QED BY <1>5 DEF run

LEMMA ProcessGrows ==
    ASSUME NEW rt \in RouteData, NEW members, NEW items \in Requests
    PROVE  ProcessInfos(rt, members, items) \in Grown(rt)
<1> DEFINE run == Processing(rt, members, items)
<1>1. run[0] = rt /\ \A i \in 1..Len(items) : run[i] = UpdatePeerInfo(run[i - 1], members, items[i])
  BY ProcessingSteps
<1> HIDE DEF run
<1>2. Len(items) \in Nat
  BY RequestItems
<1>3. \A i \in 1..Len(items) : run[i - 1] \in RouteData => run[i] \in Grown(run[i - 1])
  BY <1>1, RequestItems, UpdateGrows
<1>4. \A i \in 0..Len(items) : run[i] \in Grown(rt)
  <2> DEFINE n == Len(items)
  <2> HIDE DEF n
  <2>1. \A i \in 0..n : run[i] \in Grown(rt)
    BY <1>1, <1>2, <1>3, LoopGrows DEF n
  <2> QED BY <2>1 DEF n
<1> QED BY <1>2, <1>4 DEF run, ProcessInfos

LEMMA StoreInfosGrows ==
    ASSUME NEW rt \in RouteData, NEW members, NEW from, NEW items \in Requests
    PROVE  StoreInfos(rt, members, from, items) \in Grown(rt)
<1> DEFINE run == Storing(rt, members, from, items)
<1>1. run[0] = rt /\ \A i \in 1..Len(items) : run[i] = StoreInfo(run[i - 1], members, from, items[i])
  BY StoringSteps
<1> HIDE DEF run
<1>2. Len(items) \in Nat
  BY RequestItems
<1>3. \A i \in 1..Len(items) : run[i - 1] \in RouteData => run[i] \in Grown(run[i - 1])
  BY <1>1, RequestItems, StoreGrows
<1>4. \A i \in 0..Len(items) : run[i] \in Grown(rt)
  <2> DEFINE n == Len(items)
  <2> HIDE DEF n
  <2>1. \A i \in 0..n : run[i] \in Grown(rt)
    BY <1>1, <1>2, <1>3, LoopGrows DEF n
  <2> QED BY <2>1 DEF n
<1> QED BY <1>2, <1>4 DEF run, StoreInfos

LEMMA ReaddingGrows ==
    ASSUME NEW g \in Groups, route[g] \in RouteData, NEW order, NEW n \in Nat
    PROVE  \A i \in 0..n : Readding(g, order, n)[i] \in Grown(route[g])
<1> DEFINE run == Readding(g, order, n)
<1>1. run[0] = route[g] /\ \A i \in 1..n : run[i] = Readd(run[i - 1], g, order, i)
  BY ReaddingSteps
<1> HIDE DEF run
<1>2. \A i \in 1..n : run[i - 1] \in RouteData => run[i] \in Grown(run[i - 1])
  BY <1>1, ReaddGrows
<1>3. \A i \in 0..n : run[i] \in Grown(route[g])
  BY <1>1, <1>2, LoopGrows
<1> QED BY <1>3 DEF run

-----------------------------------------------------------------------------
(* Bitmaps, sessions and broadcasts.                                       *)

LEMMA SessionType ==
    ASSUME NEW rt \in RouteData, NEW p \in PeerIds
    PROVE  /\ rt.sess[p] = [dst |-> rt.sess[p].dst, my |-> rt.sess[p].my, sig |-> rt.sess[p].sig]
           /\ rt.sess[p].dst \in Sids \cup {NoSid}
           /\ rt.sess[p].my \in Sockets \cup {NoSocket}
           /\ rt.sess[p].sig \in Maps
BY DEF RouteData, Sessions

\* The bitmap for p lists the members, p and the server with their versions.
LEMMA BitmapType ==
    ASSUME NEW rt \in RouteData, NEW members \in SUBSET PeerIds, NEW cs, NEW p \in PeerIds
    PROVE  /\ ConnBitmap(rt, members, cs, p) \in Bitmaps
           /\ DOMAIN ConnBitmap(rt, members, cs, p).vers = members \cup {p, Server}
           /\ \A q \in members \cup {p, Server} : ConnBitmap(rt, members, cs, p).vers[q] = rt.ver[q]
<1> DEFINE listed == members \cup {p}
           linked(a, b) == a # b /\ cs[a] # NoReport /\ b \in cs[a]
           vers == [q \in listed \cup {Server} |-> rt.ver[q]]
           ends == listed \ {Server}
           edges == {{e[1], e[2]} : e \in {e \in ends \X ends : linked(e[1], e[2])}}
           map == ConnBitmap(rt, members, cs, p)
<1>1. map = [vers |-> vers, edges |-> edges]
  BY DEF ConnBitmap
<1>2. listed \in SUBSET PeerIds
  OBVIOUS
<1>3. vers \in [listed \cup {Server} -> Nat \ {0}]
  BY <1>2 DEF RouteData, Ids
<1>4. edges \in SUBSET SUBSET PeerIds
  <2> HIDE DEF linked
  <2> QED BY <1>2
<1>5. map.vers = vers
  <2> HIDE DEF vers, edges, map
  <2> QED BY <1>1
<1>6. map \in Bitmaps
  <2> HIDE DEF vers, edges, map, listed
  <2>1. map \in [vers: [listed \cup {Server} -> Nat \ {0}], edges: SUBSET SUBSET PeerIds]
    BY <1>1, <1>3, <1>4
  <2> DEFINE kind(l) == [vers: [l \cup {Server} -> Nat \ {0}], edges: SUBSET SUBSET PeerIds]
  <2>2. map \in kind(listed)
    BY <2>1
  <2>3. Bitmaps = UNION {kind(l) : l \in SUBSET PeerIds}
    BY DEF Bitmaps
  <2> HIDE DEF kind
  <2> QED BY <1>2, <2>2, <2>3
<1>7. DOMAIN vers = members \cup {p, Server} /\ \A q \in members \cup {p, Server} : vers[q] = rt.ver[q]
  OBVIOUS
<1> HIDE DEF vers, map
<1> QED BY <1>5, <1>6, <1>7 DEF map

LEMMA MapType ==
    ASSUME NEW map \in Bitmaps
    PROVE  /\ Server \in DOMAIN map.vers
           /\ \A q \in DOMAIN map.vers : map.vers[q] \in Nat \ {0}
           /\ DOMAIN map.vers \subseteq Ids
<1>1. PICK listed \in SUBSET PeerIds :
         map \in [vers: [listed \cup {Server} -> Nat \ {0}], edges: SUBSET SUBSET PeerIds]
  BY DEF Bitmaps
<1>2. map.vers \in [listed \cup {Server} -> Nat \ {0}]
  BY <1>1
<1> QED BY <1>2 DEF Ids

\* An acknowledgement changes one session's client id, and drops its signature
\* if the id is new.
LEMMA AckEffect ==
    ASSUME NEW rt \in RouteData, NEW p \in PeerIds, NEW sid \in Sids
    PROVE  /\ SessionAck(rt, p, sid) \in RouteData
           /\ SessionAck(rt, p, sid).ver = rt.ver
           /\ \A q \in PeerIds \ {p} : SessionAck(rt, p, sid).sess[q] = rt.sess[q]
           /\ SessionAck(rt, p, sid).sess[p].dst = sid
           /\ SessionAck(rt, p, sid).sess[p].my = rt.sess[p].my
           /\ SessionAck(rt, p, sid).sess[p].sig =
                  IF rt.sess[p].dst = sid THEN rt.sess[p].sig ELSE NoMap
<1> DEFINE sig == IF rt.sess[p].dst = sid THEN rt.sess[p].sig ELSE NoMap
           new == [dst |-> sid, my |-> rt.sess[p].my, sig |-> sig]
           sess == [rt.sess EXCEPT ![p] = new]
<1>1. sig \in Maps /\ new \in Sessions
  BY SessionType DEF Maps, Sessions
<1>2. SessionAck(rt, p, sid) = [rt EXCEPT !.sess = sess]
  BY SessionType DEF SessionAck, RouteData
<1> HIDE DEF sig
<1>3. sess \in [PeerIds -> Sessions] /\ sess[p] = new /\ \A q \in PeerIds \ {p} : sess[q] = rt.sess[q]
  BY <1>1 DEF RouteData
<1>4. new.dst = sid /\ new.my = rt.sess[p].my /\ new.sig = sig
  OBVIOUS
<1> HIDE DEF new, sess
<1>5. /\ SessionAck(rt, p, sid) \in RouteData
      /\ SessionAck(rt, p, sid).ver = rt.ver
      /\ SessionAck(rt, p, sid).sess = sess
  BY <1>2, <1>3 DEF RouteData
<1> QED BY <1>3, <1>4, <1>5 DEF sig

\* The session of p after an update was built for it, on the socket sockOf[p].
Pushed(rt, members, cs, sockOf, p) ==
    [dst |-> rt.sess[p].dst, my |-> sockOf[p], sig |-> ConnBitmap(rt, members, cs, p)]

\* x is rt after updates were built for the targets.
IsBuilt(x, rt, members, cs, targets, sockOf) ==
    /\ x \in RouteData
    /\ x.ver = rt.ver
    /\ \A p \in targets : x.sess[p] = Pushed(rt, members, cs, sockOf, p)
    /\ \A p \in PeerIds \ targets : x.sess[p] = rt.sess[p]

\* Building updates changes the sessions of the targets only.
LEMMA BuildEffect ==
    ASSUME NEW rt \in RouteData, NEW members \in SUBSET PeerIds, NEW cs,
           NEW targets \in SUBSET PeerIds, NEW sockOf, \A p \in targets : sockOf[p] \in Sockets
    PROVE  IsBuilt(Build(rt, members, cs, targets, sockOf), rt, members, cs, targets, sockOf)
<1> DEFINE infos == [q \in Ids |->
                        IF /\ targets # {} /\ rt.infos[q] = NoInfo
                           /\ q \in (members \cup targets) \ {Server}
                        THEN 1 ELSE rt.infos[q]]
           sess == [p \in PeerIds |->
                       IF p \in targets
                       THEN Pushed(rt, members, cs, sockOf, p) ELSE rt.sess[p]]
           new == Build(rt, members, cs, targets, sockOf)
<1>1. new = [rt EXCEPT !.infos = infos, !.sess = sess]
  BY DEF Build, RouteData, Pushed
<1>2. infos \in [Ids -> Infos]
  BY DEF RouteData, Infos
<1>3. sess \in [PeerIds -> Sessions]
  <2> SUFFICES ASSUME NEW p \in PeerIds PROVE sess[p] \in Sessions
    OBVIOUS
  <2>1. ConnBitmap(rt, members, cs, p) \in Maps
    BY BitmapType DEF Maps
  <2>2. rt.sess[p] \in Sessions /\ rt.sess[p].dst \in Sids \cup {NoSid}
    BY SessionType DEF RouteData
  <2> QED BY <2>1, <2>2 DEF Sessions, Pushed
<1> HIDE DEF infos, new
<1>4. \A p \in PeerIds : sess[p] =
         IF p \in targets THEN Pushed(rt, members, cs, sockOf, p) ELSE rt.sess[p]
  OBVIOUS
<1> HIDE DEF sess
<1>5. new \in RouteData /\ new.ver = rt.ver /\ new.sess = sess
  BY <1>1, <1>2, <1>3 DEF RouteData
<1> QED BY <1>4, <1>5 DEF new, IsBuilt

LEMMA BlankSession == NoSession \in Sessions
BY DEF NoSession, Sessions, Maps

\* A departure ends one session; of those who stay, a member's version and the
\* server's grow if a member left, and no other falls.
LEMMA RemoveEffect ==
    ASSUME NEW rt \in RouteData, NEW members, NEW p \in PeerIds
    PROVE  /\ RemovePeer(rt, members, p) \in RouteData
           /\ RemovePeer(rt, members, p).sess[p] = NoSession
           /\ \A q \in PeerIds \ {p} : RemovePeer(rt, members, p).sess[q] = rt.sess[q]
           /\ \A q \in Ids \ {p} : RemovePeer(rt, members, p).ver[q] >= rt.ver[q]
           /\ p \in members =>
                /\ p # Server => RemovePeer(rt, members, p).ver[Server] > rt.ver[Server]
                /\ \A q \in Ids \ {p} : q \in members => RemovePeer(rt, members, p).ver[q] > rt.ver[q]
<1> DEFINE cleared == [rt EXCEPT !.infos[p] = NoInfo, !.ver[p] = 1, !.sess[p] = NoSession]
           others == members \ {p}
           new == RemovePeer(rt, members, p)
<1>1. p \in Ids /\ Server \in Ids
  BY DEF Ids
<1> DEFINE infos == [rt.infos EXCEPT ![p] = NoInfo]
           ver == [rt.ver EXCEPT ![p] = 1]
           sess == [rt.sess EXCEPT ![p] = NoSession]
<1>2. cleared = [rt EXCEPT !.infos = infos, !.ver = ver, !.sess = sess]
  BY Zenon DEF RouteData
<1>3. /\ cleared \in RouteData
      /\ cleared.sess[p] = NoSession
      /\ \A q \in PeerIds \ {p} : cleared.sess[q] = rt.sess[q]
      /\ \A q \in Ids \ {p} : cleared.ver[q] = rt.ver[q]
  <2>1. /\ infos \in [Ids -> Infos]
        /\ ver \in [Ids -> Nat \ {0}] /\ \A q \in Ids \ {p} : ver[q] = rt.ver[q]
    BY <1>1 DEF RouteData, Infos
  <2>2. /\ sess \in [PeerIds -> Sessions] /\ sess[p] = NoSession
        /\ \A q \in PeerIds \ {p} : sess[q] = rt.sess[q]
    BY BlankSession DEF RouteData
  <2> HIDE DEF infos, ver, sess, cleared
  <2>3. cleared \in RouteData /\ cleared.ver = ver /\ cleared.sess = sess
    BY <1>2, <2>1, <2>2 DEF RouteData
  <2> QED BY <2>1, <2>2, <2>3
<1>4. new = IF p \in members THEN BumpAll(cleared, others) ELSE cleared
  BY DEF RemovePeer
<1>5. \A q \in members : q # p => q \in others
  OBVIOUS
<1>6. \A q \in Ids : rt.ver[q] \in Nat /\ cleared.ver[q] \in Nat
  BY <1>3 DEF RouteData
<1> HIDE DEF cleared, others, new
<1>7. CASE p \in members
  <2>1. /\ new \in Grown(cleared)
        /\ new.ver[Server] > cleared.ver[Server]
        /\ \A q \in Ids : q \in others => new.ver[q] > cleared.ver[q]
    BY <1>3, <1>4, <1>7, BumpGrows
  <2> QED BY <1>1, <1>3, <1>5, <2>1 DEF Grown, new
<1>8. CASE p \notin members
  BY <1>3, <1>4, <1>6, <1>8 DEF new
<1> QED BY <1>7, <1>8

\* Of an order of a broadcast: who is in it, and by which socket.
LEMMA OrderType ==
    ASSUME NEW ids, NEW targets \in SUBSET Sockets, \A t \in targets : ids[t].peer \in PeerIds,
           NEW o \in Orders(ids, targets)
    PROVE  /\ DOMAIN o.first \in SUBSET PeerIds
           /\ \A p \in DOMAIN o.first :
                 /\ o.first[p] \in targets /\ ids[o.first[p]].peer = p
                 /\ o.last[p] \in targets /\ ids[o.last[p]].peer = p
           /\ \A t \in targets : ids[t].peer \in DOMAIN o.first
<1> DEFINE ps == {ids[t].peer : t \in targets}
           pick == {f \in [ps -> targets] : \A p \in ps : ids[f[p]].peer = p}
<1>1. o \in [first: pick, last: pick]
  BY DEF Orders
<1>2. o.first \in pick /\ o.last \in pick
  <2> HIDE DEF pick
  <2> QED BY <1>1
<1> QED BY <1>2

LEMMA DeliveredType ==
    ASSUME NEW views \in [Sockets -> Maps], NEW status, NEW rt \in RouteData,
           NEW members \in SUBSET PeerIds, NEW cs, NEW o, DOMAIN o.first \in SUBSET PeerIds
    PROVE  Delivered(views, status, rt, members, cs, o) \in [Sockets -> Maps]
<1> DEFINE dest(t) == CHOOSE p \in DOMAIN o.first : t = o.first[p]
<1>1. ASSUME NEW t \in Sockets, \E p \in DOMAIN o.first : t = o.first[p]
      PROVE  ConnBitmap(rt, members, cs, dest(t)) \in Maps
  <2>1. dest(t) \in DOMAIN o.first
    BY <1>1
  <2>2. dest(t) \in PeerIds
    BY <2>1
  <2> HIDE DEF dest
  <2> QED BY <2>2, BitmapType DEF Maps
<1> HIDE DEF dest
<1> QED BY <1>1 DEF Delivered, dest

\* A broadcast in group g writes the group's data and what its clients saw.
LEMMA BroadcastData ==
    ASSUME route \in [Groups -> RouteData], NEW g \in Groups, NEW rt \in RouteData,
           NEW views \in [Sockets -> Maps], NEW cs, NEW exclude, NEW r,
           peers'[g] \in SUBSET PeerIds, \A t \in Sockets : att'[t].peer \in PeerIds,
           BroadcastRoute(g, rt, views, cs, exclude, r)
    PROVE  /\ route' \in [Groups -> RouteData]
           /\ seen' \in [Sockets -> Maps]
           /\ \A k \in Groups \ {g} : route'[k] = route[k]
           /\ route'[g].ver = rt.ver
           /\ \A p \in PeerIds : \/ route'[g].sess[p] = rt.sess[p]
                                 \/ route'[g].sess[p].sig = ConnBitmap(rt, peers'[g], cs, p)
<1> DEFINE targets == Targets(conn', att', r, g, exclude)
<1>1. PICK o \in Orders(att', targets) :
        /\ route' = [route EXCEPT ![g] = Build(rt, peers'[g], cs, DOMAIN o.first, o.last)]
        /\ seen' = Delivered(views, conn', rt, peers'[g], cs, o)
  BY DEF BroadcastRoute
<1>2. targets \in SUBSET Sockets
  BY DEF Targets
<1> HIDE DEF targets
<1>3. DOMAIN o.first \in SUBSET PeerIds /\ \A p \in DOMAIN o.first : o.last[p] \in Sockets
  BY <1>2, OrderType
<1> DEFINE built == Build(rt, peers'[g], cs, DOMAIN o.first, o.last)
<1>4. IsBuilt(built, rt, peers'[g], cs, DOMAIN o.first, o.last)
  BY <1>3, BuildEffect
<1> HIDE DEF built
<1>5. route' = [route EXCEPT ![g] = built]
  BY <1>1 DEF built
<1>6. seen' \in [Sockets -> Maps]
  BY <1>1, <1>3, DeliveredType
<1>7. ASSUME NEW p \in PeerIds
      PROVE  built.sess[p] = rt.sess[p] \/ built.sess[p].sig = ConnBitmap(rt, peers'[g], cs, p)
  <2>1. CASE p \in DOMAIN o.first
    <3>1. built.sess[p] = Pushed(rt, peers'[g], cs, o.last, p)
      BY <1>4, <2>1 DEF IsBuilt
    <3> QED BY <3>1 DEF Pushed
  <2>2. CASE p \notin DOMAIN o.first
    BY <1>4, <2>2 DEF IsBuilt
  <2> QED BY <2>1, <2>2
<1> QED BY <1>4, <1>5, <1>6, <1>7 DEF IsBuilt

-----------------------------------------------------------------------------
(* RouteSync implements RelayRoom.                                         *)

\* Steps that leave route data, members and edges alone: a new connection, or
\* one after which the same sockets are open and identified, or fewer open.
RouteCalm ==
    /\ UNCHANGED <<route, seen, peers, conns>>
    /\ \/ \E s \in Sockets : Fetch(s)
       \/ /\ UNCHANGED <<att, told>>
          /\ \A t \in Sockets : /\ conn'[t] = "free" <=> conn[t] = "free"
                                /\ conn'[t] = "open" => conn[t] = "open"

LEMMA QuietIsCalm ==
    ASSUME TypeOK, NEW s \in Sockets, RouteQuiet(s)
    PROVE  RouteCalm
<1>1. CASE Fetch(s)
  BY <1>1 DEF RouteQuiet, RouteCalm, routeVars, Fetch, groupVars
<1>2. CASE Ping(s) \/ RpcResp(s) \/ GoStale(s) \/ \E to \in PeerIds : ForwardMessage(s, to)
  BY <1>2 DEF RouteQuiet, RouteCalm, routeVars, Ping, RpcResp, GoStale, ForwardMessage, groupVars
<1>3. CASE \E h \in Hellos[s] \cup {Malformed} : HandShakeRejected(s, h)
  BY <1>3 DEF RouteQuiet, RouteCalm, routeVars, HandShakeRejected, Runs, groupVars, TypeOK
<1> QED BY <1>1, <1>2, <1>3 DEF RouteQuiet

LEMMA RouteCases ==
    ASSUME TypeOK, RouteNext
    PROVE  \/ \E s \in Sockets : \E h \in Hellos[s] : RouteHandShake(s, h)
           \/ \E s \in Sockets, report \in Reports, items \in Requests, sid \in Sids :
                  RouteSyncInfo(s, report, items, sid)
           \/ \E s \in Sockets, from \in Peers, sid \in Sids : RouteResp(s, from, sid)
           \/ \E s \in Sockets : RouteDepart(s)
           \/ \E r \in Rooms : RouteConstruct(r)
           \/ \E r \in Rooms : RouteAlarm(r)
           \/ RouteRestart
           \/ RouteCalm
<1>1. ASSUME NEW r \in Rooms, Hibernate(r) /\ UNCHANGED routeVars PROVE RouteCalm
  BY <1>1 DEF Hibernate, RouteCalm, routeVars, sockVars, groupVars
<1>2. ASSUME NEW g \in Groups, NEW p \in PeerIds, AgeRemoval(g, p) /\ UNCHANGED routeVars
      PROVE  RouteCalm
  BY <1>2 DEF AgeRemoval, RouteCalm, routeVars, sockVars
<1>3. ASSUME NEW s \in Sockets, RouteQuiet(s) PROVE RouteCalm
  BY <1>3, QuietIsCalm
<1> QED BY <1>1, <1>2, <1>3 DEF RouteNext, RouteSocketEvent

LEMMA RouteStepIsStep == [RouteNext]_allVars => [Next]_vars
<1> SUFFICES ASSUME RouteNext PROVE Next
  BY DEF allVars, vars
<1>1. ASSUME NEW s \in Sockets, RouteSocketEvent(s) PROVE SocketEvent(s)
  <2>1. ASSUME NEW h \in Hellos[s], RouteHandShake(s, h) PROVE SocketEvent(s)
    BY <2>1 DEF RouteHandShake, SocketEvent
  <2>2. ASSUME NEW report \in Reports, NEW items, NEW sid, RouteSyncInfo(s, report, items, sid)
        PROVE  SocketEvent(s)
    <3> DEFINE news == HasNews(SessionAck(route[att[s].group], att[s].peer, sid),
                               peers[att[s].group], items)
    <3>1. SyncRouteInfo(s, report, news)
      BY <2>2 DEF RouteSyncInfo
    <3>2. news \in BOOLEAN
      BY DEF HasNews
    <3> HIDE DEF news
    <3> QED BY <3>1, <3>2 DEF SocketEvent
  <2>3. ASSUME NEW from, NEW sid, RouteResp(s, from, sid) PROVE SocketEvent(s)
    BY <2>3 DEF RouteResp, SocketEvent
  <2>4. ASSUME RouteDepart(s) PROVE SocketEvent(s)
    BY <2>4 DEF RouteDepart, SocketEvent, WebsocketClose
  <2>5. ASSUME RouteQuiet(s) PROVE SocketEvent(s)
    BY <2>5 DEF RouteQuiet, SocketEvent
  <2> QED BY <1>1, <2>1, <2>2, <2>3, <2>4, <2>5 DEF RouteSocketEvent
<1>2. ASSUME NEW r \in Rooms, RouteConstruct(r) \/ RouteAlarm(r)
      PROVE  Construct(r) \/ Alarm(r)
  BY <1>2 DEF RouteConstruct, RouteAlarm
<1>3. RouteRestart => Restart
  BY DEF RouteRestart
<1> QED BY <1>1, <1>2, <1>3 DEF RouteNext, Next

\* Sessions, versions and infos are added to the relay room, they do not
\* constrain it: what is proved of Spec holds here.
THEOREM RouteImplementsRoom == RouteSpec => Spec
<1>1. RouteInit => Init
  BY DEF RouteInit
<1> QED BY <1>1, RouteStepIsStep, PTL DEF RouteSpec, Spec

-----------------------------------------------------------------------------
(* What a step makes of a group's data.                                    *)

RouteTyped ==
    /\ route \in [Groups -> RouteData]
    /\ seen \in [Sockets -> Maps]

\* Data rt of group g follows the present data: unless a client claims the
\* server's id, the server's version has not fallen, and has grown if the members
\* have changed.
Follows(g, rt) ==
    /\ rt \in RouteData
    /\ ServerUnclaimed =>
          /\ rt.ver[Server] >= route[g].ver[Server]
          /\ peers'[g] # peers[g] => rt.ver[Server] > route[g].ver[Server]

\* A signature is the old one, or none ...
OldSignatures(g, rt) ==
    \A p \in PeerIds : rt.sess[p].sig \in {route[g].sess[p].sig, NoMap}

\* ... or that of a bitmap of the new members with the versions of rt.
Signatures(g, rt) ==
    \A p \in PeerIds :
        \/ rt.sess[p].sig \in {route[g].sess[p].sig, NoMap}
        \/ /\ DOMAIN rt.sess[p].sig.vers = peers'[g] \cup {p, Server}
           /\ rt.sess[p].sig.vers[Server] = rt.ver[Server]

LEMMA ServerVersion ==
    ASSUME NEW rt \in RouteData
    PROVE  rt.ver[Server] \in Nat
BY DEF RouteData, Ids

LEMMA GrownFollows ==
    ASSUME NEW g \in Groups, route[g] \in RouteData, NEW rt, Follows(g, rt), OldSignatures(g, rt),
           NEW x \in Grown(rt)
    PROVE  Follows(g, x) /\ OldSignatures(g, x)
<1>1. x \in RouteData /\ x.sess = rt.sess /\ x.ver[Server] >= rt.ver[Server]
  BY DEF Grown, Ids
<1>2. /\ rt.ver[Server] \in Nat /\ x.ver[Server] \in Nat /\ route[g].ver[Server] \in Nat
  BY <1>1, ServerVersion DEF Follows
<1> QED BY <1>1, <1>2 DEF Follows, OldSignatures

LEMMA SameFollows ==
    ASSUME NEW g \in Groups, route[g] \in RouteData, peers'[g] = peers[g]
    PROVE  Follows(g, route[g]) /\ OldSignatures(g, route[g])
BY ServerVersion DEF Follows, OldSignatures

LEMMA OldIsSigned ==
    ASSUME NEW g, NEW rt, OldSignatures(g, rt)
    PROVE  Signatures(g, rt)
BY DEF OldSignatures, Signatures

\* A signature that is written by a build or a broadcast is of this kind.
LEMMA BuiltSignature ==
    ASSUME NEW g, NEW rt \in RouteData, peers'[g] \in SUBSET PeerIds, NEW cs, NEW p \in PeerIds
    PROVE  /\ DOMAIN ConnBitmap(rt, peers'[g], cs, p).vers = peers'[g] \cup {p, Server}
           /\ ConnBitmap(rt, peers'[g], cs, p).vers[Server] = rt.ver[Server]
<1> DEFINE members == peers'[g]
<1>0. members \in SUBSET PeerIds
  OBVIOUS
<1> HIDE DEF members
<1>1. /\ DOMAIN ConnBitmap(rt, members, cs, p).vers = members \cup {p, Server}
      /\ \A q \in members \cup {p, Server} : ConnBitmap(rt, members, cs, p).vers[q] = rt.ver[q]
  BY <1>0, BitmapType
<1> QED BY <1>1 DEF members

LEMMA BuiltFollows ==
    ASSUME NEW g, NEW rt, Follows(g, rt), Signatures(g, rt), peers'[g] \in SUBSET PeerIds,
           NEW x, x \in RouteData, x.ver = rt.ver, NEW cs,
           \A p \in PeerIds : \/ x.sess[p] = rt.sess[p]
                              \/ x.sess[p].sig = ConnBitmap(rt, peers'[g], cs, p)
    PROVE  Follows(g, x) /\ Signatures(g, x)
<1>1. Follows(g, x) /\ rt \in RouteData
  BY DEF Follows
<1>2. ASSUME NEW p \in PeerIds
      PROVE  \/ x.sess[p].sig \in {route[g].sess[p].sig, NoMap}
             \/ /\ DOMAIN x.sess[p].sig.vers = peers'[g] \cup {p, Server}
                /\ x.sess[p].sig.vers[Server] = x.ver[Server]
  <2>1. CASE x.sess[p] = rt.sess[p]
    BY <2>1 DEF Signatures
  <2>2. CASE x.sess[p].sig = ConnBitmap(rt, peers'[g], cs, p)
    <3>1. /\ DOMAIN ConnBitmap(rt, peers'[g], cs, p).vers = peers'[g] \cup {p, Server}
          /\ ConnBitmap(rt, peers'[g], cs, p).vers[Server] = rt.ver[Server]
      BY <1>1, BuiltSignature
    <3> QED BY <2>2, <3>1
  <2> QED BY <2>1, <2>2
<1> QED BY <1>1, <1>2 DEF Signatures

\* The sessions of one target, as the handlers push to one socket.
LEMMA PushFollows ==
    ASSUME NEW g, NEW rt, Follows(g, rt), Signatures(g, rt), peers'[g] \in SUBSET PeerIds,
           NEW cs, NEW targets \in SUBSET PeerIds, NEW sockOf, \A p \in targets : sockOf[p] \in Sockets
    PROVE  /\ Follows(g, Build(rt, peers'[g], cs, targets, sockOf))
           /\ Signatures(g, Build(rt, peers'[g], cs, targets, sockOf))
<1> DEFINE x == Build(rt, peers'[g], cs, targets, sockOf)
<1>1. rt \in RouteData
  BY DEF Follows
<1>2. IsBuilt(x, rt, peers'[g], cs, targets, sockOf)
  BY <1>1, BuildEffect
<1> HIDE DEF x
<1>3. ASSUME NEW p \in PeerIds
      PROVE  x.sess[p] = rt.sess[p] \/ x.sess[p].sig = ConnBitmap(rt, peers'[g], cs, p)
  <2>1. CASE p \in targets
    <3>1. x.sess[p] = Pushed(rt, peers'[g], cs, sockOf, p)
      BY <1>2, <2>1 DEF IsBuilt
    <3> QED BY <3>1 DEF Pushed
  <2>2. CASE p \notin targets
    BY <1>2, <2>2 DEF IsBuilt
  <2> QED BY <2>1, <2>2
<1>4. Follows(g, x) /\ Signatures(g, x)
  BY <1>2, <1>3, BuiltFollows DEF IsBuilt
<1> QED BY <1>4 DEF x

\* What a step other than a restart is shown to do.
Follow == RouteTyped' /\ \A g \in Groups : Follows(g, route'[g]) /\ Signatures(g, route'[g])

LEMMA BroadcastFollows ==
    ASSUME RouteTyped, TypeOK', NEW g \in Groups, NEW rt, Follows(g, rt), Signatures(g, rt),
           NEW views \in [Sockets -> Maps], NEW cs, NEW exclude, NEW r,
           \A k \in Groups \ {g} : peers'[k] = peers[k],
           BroadcastRoute(g, rt, views, cs, exclude, r)
    PROVE  Follow
<1>1. peers'[g] \in SUBSET PeerIds /\ \A t \in Sockets : att'[t].peer \in PeerIds
  BY DEF TypeOK, Identities, Blank, PeerIds
<1>2. rt \in RouteData
  BY DEF Follows
<1>3. /\ route' \in [Groups -> RouteData]
      /\ seen' \in [Sockets -> Maps]
      /\ \A k \in Groups \ {g} : route'[k] = route[k]
      /\ route'[g].ver = rt.ver
      /\ \A p \in PeerIds : \/ route'[g].sess[p] = rt.sess[p]
                            \/ route'[g].sess[p].sig = ConnBitmap(rt, peers'[g], cs, p)
  BY <1>1, <1>2, BroadcastData DEF RouteTyped
<1>4. Follows(g, route'[g]) /\ Signatures(g, route'[g])
  <2> DEFINE x == route'[g]
  <2>1. x \in RouteData
    BY <1>3
  <2>2. /\ x.ver = rt.ver
        /\ \A p \in PeerIds : \/ x.sess[p] = rt.sess[p]
                              \/ x.sess[p].sig = ConnBitmap(rt, peers'[g], cs, p)
    BY <1>3
  <2> HIDE DEF x
  <2>3. Follows(g, x) /\ Signatures(g, x)
    BY <1>1, <2>1, <2>2, BuiltFollows
  <2> QED BY <2>3 DEF x
<1>5. \A k \in Groups \ {g} : Follows(k, route'[k]) /\ Signatures(k, route'[k])
  BY <1>3, SameFollows, OldIsSigned DEF RouteTyped
<1> QED BY <1>3, <1>4, <1>5 DEF Follow, RouteTyped

\* The data of one group is written without a broadcast.
LEMMA WriteFollows ==
    ASSUME RouteTyped, NEW g \in Groups, NEW rt, Follows(g, rt), Signatures(g, rt),
           \A k \in Groups \ {g} : peers'[k] = peers[k],
           route' = [route EXCEPT ![g] = rt], seen' \in [Sockets -> Maps]
    PROVE  Follow
<1>1. rt \in RouteData
  BY DEF Follows
<1>2. /\ route' \in [Groups -> RouteData]
      /\ route'[g] = rt
      /\ \A k \in Groups \ {g} : route'[k] = route[k]
  BY <1>1 DEF RouteTyped
<1>3. \A k \in Groups \ {g} : Follows(k, route'[k]) /\ Signatures(k, route'[k])
  BY <1>2, SameFollows, OldIsSigned DEF RouteTyped
<1> QED BY <1>2, <1>3 DEF Follow, RouteTyped

\* A client's own socket saw the bitmap that its push may have carried.
LEMMA ViewType ==
    ASSUME seen \in [Sockets -> Maps], NEW s \in Sockets, NEW rt \in RouteData,
           NEW members \in SUBSET PeerIds, NEW cs, NEW p \in PeerIds
    PROVE  /\ [seen EXCEPT ![s] = ConnBitmap(rt, members, cs, p)] \in [Sockets -> Maps]
           /\ [seen EXCEPT ![s] = NoMap] \in [Sockets -> Maps]
<1>1. ConnBitmap(rt, members, cs, p) \in Maps /\ NoMap \in Maps
  BY BitmapType DEF Maps
<1> QED BY <1>1

LEMMA HandShakeFollows ==
    ASSUME RouteTyped, TypeOK, TypeOK', NEW s \in Sockets, NEW h \in Hellos[s],
           RouteHandShake(s, h)
    PROVE  Follow
<1> DEFINE g == h.group
           p == h.peer
           added == AddPeer(route[g], peers[g], p)
           item == [id |-> p, ver |-> 1]
           known == UpdatePeerInfo(added, peers'[g], item)
           socks == [q \in {p} |-> s]
           built == Build(known, peers'[g], conns[g], {p}, socks)
<1>1. g \in Groups /\ p \in PeerIds /\ p \in Ids /\ Server \in Ids /\ route[g] \in RouteData
  BY HelloType DEF RouteTyped, Ids
<1>2. HandShakeAccepted(s, h)
  BY DEF RouteHandShake
<1>3. /\ peers'[g] = peers[g] \cup {p}
      /\ \A k \in Groups \ {g} : peers'[k] = peers[k]
      /\ peers'[g] \in SUBSET PeerIds
  BY <1>1, <1>2 DEF HandShakeAccepted, TypeOK
<1>4. item.id \in Ids /\ item.ver \in Nat
  BY <1>1
<1>5. /\ CanSend(s) => BroadcastRoute(g, built, seen, conns[g], Zero, RoomOf[s])
      /\ ~CanSend(s) => route' = [route EXCEPT ![g] = known] /\ UNCHANGED seen
  BY DEF RouteHandShake
<1> HIDE DEF g, p, item
<1>6. Follows(g, added) /\ OldSignatures(g, added)
  <2>1. /\ added \in Grown(route[g])
        /\ p \notin peers[g] => added.ver[Server] > route[g].ver[Server]
    BY <1>1, AddPeerGrows
  <2>2. p \in peers[g] => peers'[g] = peers[g]
    BY <1>3
  <2> HIDE DEF added
  <2> QED BY <1>1, <2>1, <2>2 DEF Follows, OldSignatures, Grown
<1>7. Follows(g, known) /\ OldSignatures(g, known)
  <2>1. added \in RouteData
    BY <1>6 DEF Follows
  <2> HIDE DEF added
  <2>2. known \in Grown(added)
    BY <1>4, <2>1, UpdateGrows
  <2> HIDE DEF known
  <2> QED BY <1>1, <1>6, <2>2, GrownFollows
<1> HIDE DEF added, known
<1>8. Signatures(g, known)
  BY <1>7, OldIsSigned
<1>9. Follows(g, built) /\ Signatures(g, built)
  <2>1. {p} \in SUBSET PeerIds /\ \A q \in {p} : socks[q] \in Sockets
    BY <1>1
  <2> HIDE DEF socks
  <2> QED BY <1>3, <1>7, <1>8, <2>1, PushFollows
<1> HIDE DEF built
<1>10. CASE CanSend(s)
  BY <1>1, <1>3, <1>5, <1>9, <1>10, BroadcastFollows DEF RouteTyped
<1>11. CASE ~CanSend(s)
  BY <1>1, <1>3, <1>5, <1>7, <1>8, <1>11, WriteFollows DEF RouteTyped
<1> QED BY <1>10, <1>11

LEMMA RespFollows ==
    ASSUME RouteTyped, TypeOK, NEW s \in Sockets, NEW from \in Peers, NEW sid \in Sids,
           RouteResp(s, from, sid)
    PROVE  Follow
<1> DEFINE g == att[s].group
           rt == SessionAck(route[g], from, sid)
<1>1. g \in Groups /\ from \in PeerIds /\ route[g] \in RouteData
  BY SpeakerType DEF RouteResp, RouteTyped, PeerIds
<1>2. peers' = peers /\ route' = [route EXCEPT ![g] = rt] /\ seen' = seen
  BY DEF RouteResp, RpcResp, groupVars
<1> HIDE DEF g
<1>3. Follows(g, rt) /\ Signatures(g, rt)
  <2>1. /\ rt \in RouteData /\ rt.ver = route[g].ver
        /\ \A q \in PeerIds \ {from} : rt.sess[q] = route[g].sess[q]
        /\ rt.sess[from].sig = IF route[g].sess[from].dst = sid THEN route[g].sess[from].sig ELSE NoMap
    BY <1>1, AckEffect
  <2> HIDE DEF rt
  <2>2. OldSignatures(g, rt)
    BY <2>1 DEF OldSignatures
  <2>3. Follows(g, rt)
    BY <1>1, <1>2, <2>1, ServerVersion DEF Follows
  <2> QED BY <2>2, <2>3, OldIsSigned
<1> HIDE DEF rt
<1> QED BY <1>1, <1>2, <1>3, WriteFollows DEF RouteTyped

LEMMA CalmFollows ==
    ASSUME RouteTyped, UNCHANGED <<route, seen, peers>>
    PROVE  Follow
BY SameFollows, OldIsSigned DEF RouteTyped, Follow

LEMMA DepartFollows ==
    ASSUME RouteTyped, TypeOK, TypeOK', NEW s \in Sockets, RouteDepart(s)
    PROVE  Follow
<1> DEFINE g == att[s].group
           p == att[s].peer
           rt == RemovePeer(route[g], peers[g], p)
           views == [seen EXCEPT ![s] = NoMap]
<1>1. Depart(s)
  BY DEF RouteDepart
<1>2. views \in [Sockets -> Maps]
  BY DEF RouteTyped, Maps
<1>3. CASE RemovesPeer(s)
  <2>1. /\ g \in Groups /\ p \in PeerIds /\ route[g] \in RouteData /\ Server \in Ids
        /\ ServerUnclaimed => Server # p
    BY <1>3, SpeakerType DEF RemovesPeer, Blank, RouteTyped, Ids, ServerUnclaimed
  <2>2. BroadcastRoute(g, rt, views, conns[g], p, RoomOf[s])
    BY <1>3 DEF RouteDepart
  <2>3. peers'[g] = peers[g] \ {p} /\ \A k \in Groups \ {g} : peers'[k] = peers[k]
    BY <1>1, <1>3, <2>1 DEF Depart, TypeOK
  <2> HIDE DEF g, p, views
  <2>4. Follows(g, rt) /\ OldSignatures(g, rt)
    <3>1. /\ rt \in RouteData
          /\ rt.sess[p] = NoSession
          /\ \A q \in PeerIds \ {p} : rt.sess[q] = route[g].sess[q]
          /\ \A q \in Ids \ {p} : rt.ver[q] >= route[g].ver[q]
          /\ p \in peers[g] /\ p # Server => rt.ver[Server] > route[g].ver[Server]
      BY <2>1, RemoveEffect
    <3>2. p \notin peers[g] => peers'[g] = peers[g]
      BY <2>3
    <3> HIDE DEF rt
    <3>3. NoSession.sig = NoMap
      BY DEF NoSession
    <3> QED BY <2>1, <3>1, <3>2, <3>3 DEF Follows, OldSignatures
  <2> HIDE DEF rt
  <2>5. Signatures(g, rt)
    BY <2>4, OldIsSigned
  <2> QED BY <1>2, <2>1, <2>2, <2>3, <2>4, <2>5, BroadcastFollows
<1>4. CASE ~RemovesPeer(s)
  <2>1. peers' = peers /\ route' = route /\ seen' = views
    BY <1>1, <1>4 DEF RouteDepart, Depart
  <2>2. \A k \in Groups : Follows(k, route'[k]) /\ Signatures(k, route'[k])
    BY <2>1, SameFollows, OldIsSigned DEF RouteTyped
  <2> QED BY <1>2, <2>1, <2>2 DEF Follow, RouteTyped
<1> QED BY <1>3, <1>4

LEMMA SyncFollows ==
    ASSUME RouteTyped, TypeOK, TypeOK', NEW s \in Sockets, NEW report \in Reports,
           NEW items \in Requests, NEW sid \in Sids, RouteSyncInfo(s, report, items, sid)
    PROVE  Follow
<1> DEFINE g == att[s].group
           p == att[s].peer
           acked == SessionAck(route[g], p, sid)
           news == HasNews(acked, peers[g], items)
           processed == ProcessInfos(acked, peers[g], items)
           relinked == IF conns'[g][p] # conns[g][p]
                       THEN BumpAll(processed, peers[g]) ELSE processed
           stored == StoreInfos(relinked, peers[g], p, items)
           socks == [q \in {p} |-> s]
           pushed == Build(stored, peers[g], conns'[g], {p}, socks)
           bitmap == ConnBitmap(stored, peers[g], conns'[g], p)
           views == IF SendsBitmap(stored, peers[g], conns'[g], p)
                    THEN [seen EXCEPT ![s] = bitmap] ELSE seen
<1>1. g \in Groups /\ p \in PeerIds /\ route[g] \in RouteData
  <2>1. att[s] # Blank
    BY DEF RouteSyncInfo
  <2> QED BY <2>1, SpeakerType DEF RouteTyped
<1>2. peers' = peers /\ peers[g] \in SUBSET PeerIds
  BY <1>1 DEF RouteSyncInfo, SyncRouteInfo, TypeOK
<1>3. \/ route' = [route EXCEPT ![g] = stored] /\ UNCHANGED seen
      \/ BroadcastRoute(g, pushed, views, conns'[g], p, RoomOf[s])
      \/ route' = [route EXCEPT ![g] = pushed] /\ seen' = views
  BY DEF RouteSyncInfo
<1> HIDE DEF g, p
<1>4. Follows(g, acked) /\ OldSignatures(g, acked)
  <2>1. /\ acked \in RouteData /\ acked.ver = route[g].ver
        /\ \A q \in PeerIds \ {p} : acked.sess[q] = route[g].sess[q]
        /\ acked.sess[p].sig = IF route[g].sess[p].dst = sid THEN route[g].sess[p].sig ELSE NoMap
    BY <1>1, AckEffect
  <2> HIDE DEF acked
  <2>2. OldSignatures(g, acked)
    BY <2>1 DEF OldSignatures
  <2> QED BY <1>1, <1>2, <2>1, <2>2, ServerVersion DEF Follows
<1> HIDE DEF acked, news
<1>5. stored \in Grown(acked)
  <2>1. acked \in RouteData
    BY <1>4 DEF Follows
  <2>2. processed \in Grown(acked)
    BY <2>1, ProcessGrows
  <2> HIDE DEF processed
  <2>3. processed \in RouteData
    BY <2>2 DEF Grown
  <2>4. relinked \in Grown(processed)
    BY <2>3, BumpGrows, Unchanged
  <2> HIDE DEF relinked
  <2>5. relinked \in RouteData
    BY <2>4 DEF Grown
  <2>6. stored \in Grown(relinked)
    BY <2>5, StoreInfosGrows
  <2> HIDE DEF stored
  <2> QED BY <2>1, <2>2, <2>4, <2>6, <2>3, <2>5, GrownTransitive
<1> HIDE DEF processed, relinked, stored
<1>6. Follows(g, stored) /\ OldSignatures(g, stored)
  BY <1>1, <1>4, <1>5, GrownFollows
<1>7. Signatures(g, stored) /\ stored \in RouteData
  BY <1>6, OldIsSigned DEF Follows
<1>8. Follows(g, pushed) /\ Signatures(g, pushed)
  <2>1. {p} \in SUBSET PeerIds /\ \A q \in {p} : socks[q] \in Sockets
    BY <1>1
  <2> HIDE DEF socks
  <2> QED BY <1>2, <1>6, <1>7, <2>1, PushFollows
<1>9. views \in [Sockets -> Maps]
  <2>1. [seen EXCEPT ![s] = bitmap] \in [Sockets -> Maps]
    BY <1>1, <1>2, <1>7, ViewType DEF RouteTyped
  <2> HIDE DEF bitmap
  <2> QED BY <2>1 DEF RouteTyped
<1> HIDE DEF pushed, views
<1>10. CASE route' = [route EXCEPT ![g] = stored] /\ UNCHANGED seen
  BY <1>1, <1>2, <1>6, <1>7, <1>10, WriteFollows DEF RouteTyped
<1>11. CASE BroadcastRoute(g, pushed, views, conns'[g], p, RoomOf[s])
  BY <1>1, <1>2, <1>8, <1>9, <1>11, BroadcastFollows
<1>12. CASE route' = [route EXCEPT ![g] = pushed] /\ seen' = views
  BY <1>1, <1>2, <1>8, <1>9, <1>12, WriteFollows
<1> QED BY <1>3, <1>10, <1>11, <1>12

LEMMA AlarmFollows ==
    ASSUME RouteTyped, TypeOK, TypeOK', NEW r \in Rooms, RouteAlarm(r)
    PROVE  Follow
<1> DEFINE targets(g) == Targets(conn', att, r, g, Zero)
           gs == {g \in AliveGroups(r) : Alive(r) # {}}
           hit(t) == att[t].group \in gs /\ RoomOf[t] = r
<1>1. PICK order :
        /\ \A g \in gs : order[g] \in Orders(att, targets(g))
        /\ route' = [g \in Groups |->
              IF g \in gs
              THEN Build(route[g], peers[g], conns'[g], DOMAIN order[g].first, order[g].last)
              ELSE route[g]]
        /\ seen' = [t \in Sockets |->
              IF hit(t)
              THEN Delivered(seen, conn', route[att[t].group], peers[att[t].group],
                             conns'[att[t].group], order[att[t].group])[t]
              ELSE seen[t]]
  BY DEF RouteAlarm
<1>2. peers' = peers /\ att' = att
  BY DEF RouteAlarm, Alarm
<1>3. gs \subseteq Groups
  BY GroupAssumption DEF AliveGroups, Alive, Listed, TypeOK, Identities, Blank
<1>4. ASSUME NEW g \in gs
      PROVE  /\ DOMAIN order[g].first \in SUBSET PeerIds
             /\ \A p \in DOMAIN order[g].first : order[g].last[p] \in Sockets
  <2>1. targets(g) \in SUBSET Sockets /\ \A t \in targets(g) : att[t].peer \in PeerIds
    BY DEF Targets, TypeOK, Identities, Blank, PeerIds
  <2>2. order[g] \in Orders(att, targets(g))
    BY <1>1, <1>4
  <2> HIDE DEF targets
  <2> QED BY <2>1, <2>2, OrderType
<1> HIDE DEF gs, targets
<1>5. ASSUME NEW g \in Groups
      PROVE  route'[g] \in RouteData /\ Follows(g, route'[g]) /\ Signatures(g, route'[g])
  <2>1. Follows(g, route[g]) /\ Signatures(g, route[g]) /\ route[g] \in RouteData
    BY <1>2, SameFollows, OldIsSigned DEF RouteTyped
  <2>2. CASE g \in gs
    <3> DEFINE x == Build(route[g], peers'[g], conns'[g], DOMAIN order[g].first, order[g].last)
    <3>1. peers'[g] \in SUBSET PeerIds
      BY DEF TypeOK
    <3>2. Follows(g, x) /\ Signatures(g, x)
      BY <1>4, <2>1, <2>2, <3>1, PushFollows
    <3>3. route'[g] = x
      BY <1>1, <1>2, <2>2
    <3> HIDE DEF x
    <3> QED BY <3>2, <3>3 DEF Follows
  <2>3. CASE g \notin gs
    BY <1>1, <2>1, <2>3
  <2> QED BY <2>2, <2>3
<1>6. ASSUME NEW t \in Sockets PROVE seen'[t] \in Maps
  <2>1. CASE hit(t)
    <3> DEFINE g == att[t].group
               all == Delivered(seen, conn', route[g], peers[g], conns'[g], order[g])
    <3>1. g \in gs
      BY <2>1
    <3>2. route[g] \in RouteData /\ peers[g] \in SUBSET PeerIds /\ seen \in [Sockets -> Maps]
      BY <1>3, <3>1 DEF RouteTyped, TypeOK
    <3>3. seen'[t] = all[t]
      BY <1>1, <2>1
    <3> HIDE DEF g
    <3>4. all \in [Sockets -> Maps]
      BY <1>4, <3>1, <3>2, DeliveredType
    <3> HIDE DEF all
    <3> QED BY <3>3, <3>4
  <2>2. CASE ~hit(t)
    BY <1>1, <2>2 DEF RouteTyped
  <2> QED BY <2>1, <2>2
<1>7. route' \in [Groups -> RouteData] /\ seen' \in [Sockets -> Maps]
  <2>1. /\ \E f : route' = [g \in Groups |-> f[g]]
        /\ \E f : seen' = [t \in Sockets |-> f[t]]
    <3>1. route' = [g \in Groups |-> route'[g]] /\ seen' = [t \in Sockets |-> seen'[t]]
      BY <1>1
    <3> QED BY <3>1
  <2> QED BY <1>5, <1>6, <2>1
<1> QED BY <1>5, <1>7 DEF Follow, RouteTyped

\* RelayRoom::new: once the loop has met a forgotten peer, the server's
\* version has grown.
LEMMA ForgottenBumps ==
    ASSUME NEW g \in Groups, route[g] \in RouteData, NEW order, NEW n \in Nat, NEW k \in 1..n,
           att[order[k]].group = g, att[order[k]].peer # Zero, att[order[k]].peer \notin peers[g]
    PROVE  Readding(g, order, n)[n].ver[Server] > route[g].ver[Server]
<1> DEFINE run == Readding(g, order, n)
           met(i) == \E j \in 1..i : /\ att[order[j]].group = g /\ att[order[j]].peer # Zero
                                     /\ att[order[j]].peer \notin peers[g]
           T == {i \in Nat : (i <= n /\ met(i)) => run[i].ver[Server] > route[g].ver[Server]}
<1>1. /\ \A i \in 1..n : run[i] = Readd(run[i - 1], g, order, i)
      /\ \A i \in 0..n : run[i] \in Grown(route[g])
  BY ReaddingSteps, ReaddingGrows
<1> HIDE DEF run
<1>2. 0 \in T
  OBVIOUS
<1>3. ASSUME NEW i \in Nat, i \in T PROVE i + 1 \in T
  <2> SUFFICES ASSUME i + 1 <= n, met(i + 1)
               PROVE  run[i + 1].ver[Server] > route[g].ver[Server]
    OBVIOUS
  <2> DEFINE q == att[order[i + 1]].peer
             before == peers[g] \cup Named(g, order, i)
  <2>1. i \in 0..n /\ i + 1 \in 1..n /\ (i + 1) - 1 = i /\ i + 1 \in 0..n
    OBVIOUS
  <2>2. run[i + 1] = Readd(run[i], g, order, i + 1)
    BY <1>1, <2>1
  <2>3. run[i] \in RouteData /\ run[i].ver[Server] >= route[g].ver[Server]
    BY <1>1, <2>1 DEF Grown, Ids
  <2>4. run[i + 1] \in Grown(run[i])
    BY <2>2, <2>3, ReaddGrows
  <2>5. /\ run[i].ver[Server] \in Nat /\ run[i + 1].ver[Server] \in Nat
        /\ route[g].ver[Server] \in Nat /\ run[i + 1].ver[Server] >= run[i].ver[Server]
    BY <2>3, <2>4, ServerVersion DEF Grown, Ids
  <2>6. CASE met(i)
    <3>1. run[i].ver[Server] > route[g].ver[Server]
      BY <1>3, <2>1, <2>6
    <3> QED BY <2>5, <3>1
  <2>7. CASE ~met(i)
    <3>1. att[order[i + 1]].group = g /\ q # Zero /\ q \notin peers[g]
      <4>1. PICK j \in 1..(i + 1) : /\ att[order[j]].group = g /\ att[order[j]].peer # Zero
                                     /\ att[order[j]].peer \notin peers[g]
        OBVIOUS
      <4>2. j \notin 1..i
        BY <2>7, <4>1
      <4>3. j = i + 1
        BY <4>2
      <4> QED BY <4>1, <4>3
    <3>2. q \notin Named(g, order, i)
      <4> SUFFICES ASSUME q \in Named(g, order, i) PROVE FALSE
        OBVIOUS
      <4>1. PICK j \in 1..i : att[order[j]].group = g /\ att[order[j]].peer = q
        BY DEF Named
      <4> QED BY <2>7, <3>1, <4>1
    <3>3. run[i + 1] = AddPeer(run[i], before, q)
      BY <2>1, <2>2, <3>1 DEF Readd
    <3>4. q \notin before
      BY <3>1, <3>2
    <3> HIDE DEF q, before
    <3>5. run[i + 1].ver[Server] > run[i].ver[Server]
      BY <2>3, <3>3, <3>4, AddPeerGrows
    <3> QED BY <2>3, <2>5, <3>5
  <2> QED BY <2>6, <2>7
<1> HIDE DEF T
<1>4. Nat \subseteq T
  BY <1>2, <1>3, NatSetInduction
<1>5. n \in T /\ met(n)
  BY <1>4
<1> QED BY <1>5 DEF T, run

LEMMA ListedIsFinite ==
    ASSUME NEW r
    PROVE  Cardinality(Listed(r)) \in Nat
<1>1. Listed(r) \subseteq Sockets
  BY DEF Listed
<1> QED BY <1>1, SocketsAssumption, FS_Subset, FS_CardinalityType

LEMMA ConstructFollows ==
    ASSUME RouteTyped, TypeOK, NEW r \in Rooms, RouteConstruct(r)
    PROVE  Follow
<1> DEFINE n == Cardinality(Listed(r))
<1>1. PICK order \in Listings(r) : route' = [g \in Groups |-> Readding(g, order, n)[n]]
  BY DEF RouteConstruct
<1>2. n \in Nat
  BY ListedIsFinite
<1>3. DOMAIN order = 1..n /\ \A s \in Listed(r) : \E i \in DOMAIN order : order[i] = s
  BY <1>1 DEF Listings
<1> HIDE DEF n
<1>4. Construct(r) /\ seen' = seen
  BY DEF RouteConstruct
<1>5. ASSUME NEW g \in Groups
      PROVE  Follows(g, route'[g]) /\ OldSignatures(g, route'[g])
  <2> DEFINE last == Readding(g, order, n)[n]
  <2>1. route[g] \in RouteData /\ route'[g] = last
    BY <1>1 DEF RouteTyped
  <2>2. last \in Grown(route[g])
    BY <1>2, <2>1, ReaddingGrows
  <2>3. peers'[g] # peers[g] => last.ver[Server] > route[g].ver[Server]
    <3> SUFFICES ASSUME peers'[g] # peers[g] PROVE last.ver[Server] > route[g].ver[Server]
      OBVIOUS
    <3>1. PICK p \in Forgotten(r, g) : TRUE
      BY <1>4 DEF Construct
    <3>2. PICK s \in Listed(r) : Speaks(s, g, p)
      BY DEF Forgotten
    <3>3. PICK k \in 1..n : order[k] = s
      BY <1>3
    <3>4. /\ att[order[k]].group = g /\ att[order[k]].peer # Zero
          /\ att[order[k]].peer \notin peers[g]
      BY <3>2, <3>3, ZeroAssumption DEF Forgotten, Speaks
    <3> QED BY <1>2, <2>1, <3>4, ForgottenBumps
  <2> HIDE DEF last
  <2> QED BY <2>1, <2>2, <2>3 DEF Follows, OldSignatures, Grown, Ids
<1>6. \A g \in Groups : Follows(g, route'[g]) /\ Signatures(g, route'[g])
  BY <1>5, OldIsSigned
<1>7. route' \in [Groups -> RouteData]
  <2>1. \A g \in Groups : route'[g] \in RouteData
    BY <1>5 DEF Follows
  <2>2. route' = [g \in Groups |-> route'[g]]
    BY <1>1
  <2> QED BY <2>1, <2>2
<1> QED BY <1>4, <1>6, <1>7 DEF Follow, RouteTyped

LEMMA StepFollows ==
    ASSUME RouteTyped, TypeOK, TypeOK', RouteNext
    PROVE  Follow \/ RouteRestart
<1>1. ASSUME RouteCalm PROVE Follow
  BY <1>1, CalmFollows DEF RouteCalm
<1> QED BY <1>1, RouteCases, HandShakeFollows, SyncFollows, RespFollows, DepartFollows,
           ConstructFollows, AlarmFollows

-----------------------------------------------------------------------------
(* Types, and what a signature says.                                       *)

LEMMA RestartData ==
    ASSUME RouteTyped, RouteRestart
    PROVE  RouteTyped' /\ \A g \in Groups, p \in PeerIds : route'[g].sess[p].sig = NoMap
<1>1. EmptyRoute \in RouteData /\ \A p \in PeerIds : EmptyRoute.sess[p] = NoSession
  BY BlankSession DEF EmptyRoute, RouteData, Infos
<1>2. route' = [g \in Groups |-> EmptyRoute] /\ seen' = seen
  BY DEF RouteRestart
<1> QED BY <1>1, <1>2 DEF RouteTyped, NoSession

LEMMA RouteTypedInit == RouteInit => RouteTyped
<1> SUFFICES ASSUME RouteInit PROVE RouteTyped
  OBVIOUS
<1>1. EmptyRoute \in RouteData
  BY BlankSession DEF EmptyRoute, RouteData, Infos
<1>2. route = [g \in Groups |-> EmptyRoute] /\ seen = [s \in Sockets |-> NoMap]
  BY DEF RouteInit
<1> QED BY <1>1, <1>2 DEF RouteTyped, Maps

LEMMA RouteTypedStep == RouteTyped /\ TypeOK /\ TypeOK' /\ [RouteNext]_allVars => RouteTyped'
<1> SUFFICES ASSUME RouteTyped, TypeOK, TypeOK', [RouteNext]_allVars PROVE RouteTyped'
  OBVIOUS
<1>1. CASE RouteNext
  BY <1>1, StepFollows, RestartData DEF Follow
<1>2. CASE UNCHANGED allVars
  BY <1>2 DEF RouteTyped, allVars
<1> QED BY <1>1, <1>2

\* The definition of RouteTypeOK looks at the bitmaps in use only.
LEMMA MapsAreBitmaps ==
    ASSUME NEW map
    PROVE  IsBitmap(map) <=> map \in Bitmaps
<1> DEFINE kind(l) == [vers: [l \cup {Server} -> Nat \ {0}], edges: SUBSET SUBSET PeerIds]
<1>1. IsBitmap(map) <=> \E l \in SUBSET PeerIds : map \in kind(l)
  BY DEF IsBitmap
<1>2. Bitmaps = UNION {kind(l) : l \in SUBSET PeerIds}
  BY DEF Bitmaps
<1> HIDE DEF kind
<1> QED BY <1>1, <1>2

LEMMA TypedIsTypeOK == RouteTyped => RouteTypeOK
<1> SUFFICES ASSUME RouteTyped PROVE RouteTypeOK
  OBVIOUS
<1> DEFINE maps == {NoMap} \cup {map \in InUse : IsBitmap(map)}
           sessions == [dst: Sids \cup {NoSid}, my: Sockets \cup {NoSocket}, sig: maps]
           data == [infos: [Ids -> Nat \cup {NoInfo}], ver: [Ids -> Nat \ {0}], sess: [PeerIds -> sessions]]
<1>1. ASSUME NEW s \in Sockets PROVE seen[s] \in maps
  <2>1. seen[s] \in Maps /\ seen[s] \in InUse
    BY DEF RouteTyped, InUse
  <2> QED BY <2>1, MapsAreBitmaps DEF Maps
<1>2. ASSUME NEW g \in Groups, NEW p \in PeerIds PROVE route[g].sess[p] \in sessions
  <2>1. route[g] \in RouteData
    BY DEF RouteTyped
  <2>2. /\ route[g].sess[p] = [dst |-> route[g].sess[p].dst, my |-> route[g].sess[p].my,
                               sig |-> route[g].sess[p].sig]
        /\ route[g].sess[p].dst \in Sids \cup {NoSid}
        /\ route[g].sess[p].my \in Sockets \cup {NoSocket}
        /\ route[g].sess[p].sig \in Maps
    BY <2>1, SessionType
  <2>3. route[g].sess[p].sig \in InUse
    BY DEF InUse
  <2>4. route[g].sess[p].sig \in maps
    BY <2>2, <2>3, MapsAreBitmaps DEF Maps
  <2> HIDE DEF maps
  <2> QED BY <2>2, <2>4
<1>3. ASSUME NEW g \in Groups PROVE route[g] \in data
  <2>1. route[g] \in RouteData
    BY DEF RouteTyped
  <2> HIDE DEF sessions
  <2>2. route[g].sess \in [PeerIds -> sessions]
    BY <1>2, <2>1 DEF RouteData
  <2> QED BY <2>1, <2>2 DEF RouteData, Infos
<1> HIDE DEF maps, data
<1>4. route \in [Groups -> data] /\ seen \in [Sockets -> maps]
  BY <1>1, <1>3 DEF RouteTyped
<1> QED BY <1>4 DEF RouteTypeOK, maps, data

LEMMA RouteTypes == RouteSpec => [](RouteTyped /\ TypeOK)
<1>1. RouteSpec => []TypeOK
  BY RouteImplementsRoom, TypeCorrect, PTL
<1> QED BY <1>1, RouteTypedInit, RouteTypedStep, PTL DEF RouteSpec

\* Every bitmap that is sent or kept lists the server, and no connection
\* version there or in the route data is ever 0: the type is invariant.
THEOREM RouteTypeCorrect == RouteSpec => []RouteTypeOK
BY RouteTypes, TypedIsTypeOK, PTL

\* What the induction needs about the signatures of group g: besides what the
\* property says, a signature is never newer than the data.
Signed ==
    \A g \in Groups, p \in PeerIds :
        LET sig == route[g].sess[p].sig
        IN  sig # NoMap =>
                /\ sig.vers[Server] <= route[g].ver[Server]
                /\ sig.vers[Server] = route[g].ver[Server]
                       => DOMAIN sig.vers = peers[g] \cup {p, Server}

LEMMA FollowKeepsSigned ==
    ASSUME ServerUnclaimed, RouteTyped, RouteTyped', Signed, Follow
    PROVE  Signed'
<1> SUFFICES ASSUME NEW g \in Groups, NEW p \in PeerIds, route'[g].sess[p].sig # NoMap
             PROVE  /\ route'[g].sess[p].sig.vers[Server] <= route'[g].ver[Server]
                    /\ route'[g].sess[p].sig.vers[Server] = route'[g].ver[Server]
                          => DOMAIN route'[g].sess[p].sig.vers = peers'[g] \cup {p, Server}
  BY DEF Signed
<1> DEFINE sig == route'[g].sess[p].sig
           new == route'[g].ver[Server]
           old == route[g].ver[Server]
<1>1. Follows(g, route'[g]) /\ Signatures(g, route'[g])
  BY DEF Follow
<1>2. new \in Nat /\ old \in Nat
  BY ServerVersion DEF RouteTyped
<1>3. sig.vers[Server] \in Nat
  <2>1. sig \in Bitmaps
    BY SessionType DEF RouteTyped, Maps
  <2> HIDE DEF sig
  <2> QED BY <2>1, MapType
<1>4. new >= old /\ (peers'[g] # peers[g] => new > old)
  BY <1>1 DEF Follows
<1>5. CASE sig = route[g].sess[p].sig
  <2>1. /\ sig.vers[Server] <= old
        /\ sig.vers[Server] = old => DOMAIN sig.vers = peers[g] \cup {p, Server}
    BY <1>5 DEF Signed
  <2> HIDE DEF sig, new, old
  <2>2. sig.vers[Server] <= new
    BY <1>2, <1>3, <1>4, <2>1
  <2>3. sig.vers[Server] = new => DOMAIN sig.vers = peers'[g] \cup {p, Server}
    BY <1>2, <1>3, <1>4, <2>1
  <2> QED BY <2>2, <2>3 DEF sig, new
<1>6. CASE sig # route[g].sess[p].sig
  <2>1. DOMAIN sig.vers = peers'[g] \cup {p, Server} /\ sig.vers[Server] = new
    BY <1>1, <1>6 DEF Signatures
  <2> HIDE DEF sig, new, old
  <2> QED BY <1>2, <2>1 DEF sig, new
<1> QED BY <1>5, <1>6

LEMMA SignedStep ==
    ASSUME ServerUnclaimed
    PROVE  RouteTyped /\ RouteTyped' /\ TypeOK /\ TypeOK' /\ Signed /\ [RouteNext]_allVars => Signed'
<1> SUFFICES ASSUME RouteTyped, RouteTyped', TypeOK, TypeOK', Signed, [RouteNext]_allVars
             PROVE  Signed'
  OBVIOUS
<1>1. CASE Follow
  BY <1>1, FollowKeepsSigned
<1>2. CASE RouteRestart
  BY <1>2, RestartData DEF Signed
<1>3. CASE UNCHANGED allVars
  BY <1>3 DEF Signed, allVars, vars
<1> QED BY <1>1, <1>2, <1>3, StepFollows

LEMMA SignedInit == RouteInit => Signed
BY DEF RouteInit, EmptyRoute, NoSession, Signed

\* As long as no client claims the server's id, and whatever else the clients do:
\* a kept signature with the server's present version is of a bitmap of exactly
\* the present members.
THEOREM SignaturesTrackMembers ==
    ASSUME ServerUnclaimed
    PROVE  RouteSpec => []SignatureTracksMembers
<1>1. RouteTyped /\ RouteTyped' /\ TypeOK /\ TypeOK' /\ Signed /\ [RouteNext]_allVars => Signed'
  BY SignedStep
<1>2. RouteSpec => []Signed
  BY <1>1, SignedInit, RouteTypes, PTL DEF RouteSpec
<1>3. Signed => SignatureTracksMembers
  BY DEF Signed, SignatureTracksMembers
<1> QED BY <1>2, <1>3, PTL
=============================================================================
