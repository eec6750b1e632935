------------------------------ MODULE PeerCenter -----------------------------
(***************************************************************************)
(* The peer center (peer_center.rs): the direct connections the clients of *)
(* a group report, and the digest that spares a client an answer it has.   *)
(* Its two RPCs come in as messages on the sockets of Reaper               *)
(* (rpc_handler.rs): the socket counts as heard when the answer is sent.   *)
(*                                                                         *)
(* The digest hashes the sorted pairs of the map; it is taken to be free   *)
(* of collisions and is modelled as the set of pairs.  The times of        *)
(* reports are left out: only clean_outdated reads them, which nothing     *)
(* calls.                                                                  *)
(***************************************************************************)
EXTENDS Reaper

CONSTANTS
    GroupKeys,   \* group keys, the empty key of an unidentified socket included
    GroupOf,     \* GroupOf[s]: the group key of the attachment of socket s
    Reporters,   \* ids a report may give as its own; the socket's is not compared
    Targets,     \* ids of direct peers in a report
    Infos,       \* DirectConnectedPeerInfo
    NoDigest     \* 0

ASSUME GroupAssumption == GroupOf \in [Sockets -> GroupKeys]

Pairs == Reporters \X Targets

\* A digest is the set of pairs it was computed from; 0 is none of them.
ASSUME DigestAssumption == \A ps \in SUBSET Pairs : NoDigest # ps

VARIABLES
    center,  \* center[g]: global_peer_map and digest of group g
    cache    \* cache[s]: the map and digest of the last full answer on s

centerVars == <<center, cache>>
vars == <<conn, lastSeen, armed, due, center, cache>>

Unknown == [map |-> [e \in {} |-> e], digest |-> NoDigest]

Init ==
    /\ ReaperInit
    /\ center = [g \in GroupKeys |-> Unknown]
    /\ cache = [s \in Sockets |-> Unknown]

-----------------------------------------------------------------------------
\* (mutant) a report replaces what its reporter said before.
Replaced(map, src, direct) ==
    LET pairs == {src} \X DOMAIN direct
        others == {e \in DOMAIN map : e[1] # src}
    IN  [e \in others \cup pairs |-> IF e \in pairs THEN direct[e[2]] ELSE map[e]]

\* The map after src reports its direct peers (peer -> info): pairs are
\* inserted or get a new info, none is removed.
Inserted(map, src, direct) ==
    LET pairs == {src} \X DOMAIN direct
    IN  [e \in DOMAIN map \cup pairs |-> IF e \in pairs THEN direct[e[2]] ELSE map[e]]

\* calc_digest_internal: the pairs, in order; infos have no part in it.
CalcDigest(map) == DOMAIN map

\* (mutant) the digest is computed before the report is inserted.
ReportedEarly(group, src, direct) ==
    [map |-> Inserted(group.map, src, direct), digest |-> CalcDigest(group.map)]

\* report_peers.
Reported(group, src, direct) ==
    LET map == Inserted(group.map, src, direct)
    IN  [map |-> map, digest |-> CalcDigest(map)]

\* The empty answer of get_global_peer_map: what the client has is current.
UpToDate(group, digest) == digest = group.digest /\ digest # NoDigest

\* What the client has after the answer of get_global_peer_map.
Answered(group, held) == IF UpToDate(group, held.digest) THEN held ELSE group

\* An RPC is handled, and answered unless its own socket is being closed.
Rpc(s) == IF conn[s] = "open" THEN Handled(s) ELSE Failed(s)

Records == UNION {[ts -> Infos] : ts \in SUBSET Targets}

ReportPeers(s, src, direct) ==
    /\ Rpc(s)
    /\ center' = [center EXCEPT ![GroupOf[s]] = Reported(@, src, direct)]
    /\ UNCHANGED cache

GetGlobalPeerMap(s) ==
    /\ Rpc(s)
    /\ cache' = IF conn[s] = "open"
                THEN [cache EXCEPT ![s] = Answered(center[GroupOf[s]], @)]
                ELSE cache
    /\ UNCHANGED center

\* The client of a new connection asks for the whole map.
FetchPeer(s) ==
    /\ Fetch(s)
    /\ cache' = [cache EXCEPT ![s] = Unknown]
    /\ UNCHANGED center

\* The isolate is replaced: GLOBAL_STATE is gone, clients keep what they have.
Restart ==
    /\ center' = [g \in GroupKeys |-> Unknown]
    /\ UNCHANGED <<reaperVars, cache>>

Other ==
    /\ Alarm \/ Tick \/ \E s \in Sockets : Handled(s) \/ Failed(s) \/ Refused(s) \/ Depart(s)
    /\ UNCHANGED centerVars

Next ==
    \/ \E s \in Sockets, src \in Reporters, direct \in Records : ReportPeers(s, src, direct)
    \/ \E s \in Sockets : GetGlobalPeerMap(s) \/ FetchPeer(s)
    \/ Restart
    \/ Other

Spec == Init /\ [][Next]_vars

\* The runtime delivers a set alarm, and time passes.
FairSpec == Spec /\ WF_vars(Alarm /\ UNCHANGED centerVars)
                 /\ WF_vars(Tick /\ UNCHANGED centerVars)

-----------------------------------------------------------------------------
(* Properties.                                                             *)

Maps == UNION {[es -> Infos] : es \in SUBSET Pairs}

TypeOK ==
    /\ ReaperTypeOK
    /\ center \in [GroupKeys -> [map: Maps, digest: {NoDigest} \cup SUBSET Pairs]]
    /\ cache \in [Sockets -> [map: Maps, digest: {NoDigest} \cup SUBSET Pairs]]

\* "Unchanged" is only said to a client that has every pair of the map and no
\* other, whatever was reported, lost in a restart and reported again since
\* its last full answer (the digest check of get_global_peer_map).
DigestSound ==
    \A s \in Sockets : UpToDate(center[GroupOf[s]], cache[s].digest) =>
        DOMAIN cache[s].map = DOMAIN center[GroupOf[s]].map

\* The peer center keeps the promise of GlobalMap: reports of several clients
\* only add to their group's pairs, and an answer leaves the client with all
\* pairs of its group or, by DigestSound, with the ones it already has.
Promise == INSTANCE GlobalMap WITH
    Clients <- Sockets,
    known <- [g \in GroupKeys |-> DOMAIN center[g].map],
    view <- [s \in Sockets |-> DOMAIN cache[s].map]

MapServed == Promise!Spec

\* A room whose clients are gone is not woken for ever: its last alarm finds
\* nobody and is not set again.
RoomRests == (armed /\ Listed = {}) ~> (~armed \/ Listed # {})
=============================================================================
