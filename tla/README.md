# TLA+ model of easytier-wsrelay

easytier-wsrelay is a relay for EasyTier clients that runs as a Cloudflare
Worker with a Durable Object. Clients connect with WebSockets, say with a
handshake who they are and in which network, are told by *route updates* who
else is there, and have their packets forwarded. This directory models the
relay's core in TLA+, checks it with TLC and proves its main safety properties
with TLAPS. Paths below are relative to the repository's `src/`.

## 1. Inventory

| Component | State | Operations | Talks to |
|---|---|---|---|
| Worker (`lib.rs`) | none | routes a WebSocket request to the room named by `?room=` | relay room |
| Relay room (`relay_room.rs`) | a `WsAttachment` per socket (kept by the runtime), the cleanup alarm (kept in storage) | `new`, `fetch`, `alarm`, `websocket_message` (HandShake, Ping, RpcReq, RpcResp, forward), `websocket_close`, `websocket_error` | handlers, RPC handler, peer manager; sockets |
| Handlers (`handlers.rs`) | `network_digest_registry` (global) | `handle_handshake`, `handle_ping` | called by the room |
| RPC handler (`rpc_handler.rs`) | none of its own | `handle_rpc_req`, `handle_rpc_resp`, `handle_sync_route_info` return actions the room carries out | peer manager, peer center |
| Peer manager (`peer_manager.rs`) | `GLOBAL_STATE`, a thread local shared by all rooms of the isolate | thin operations over the route state | route state |
| Route state (`route_state.rs`) | per group: `peers`, `peer_infos`, `peer_conn_versions`, `sessions`, `peer_connections`, `peer_removed_at`, `my_info` | `add_peer`, `remove_peer`, `update_peer_info`, `on_route_session_ack`, `update_peer_connections_from_conn_info`, `build_sync_route_info_request`, `handle_sync_route_info_request`, `cleanup_stale_peer_connections` | - |
| Peer center (`peer_center.rs`) | per group: `global_peer_map`, report times, digest | `report_peers`, `get_global_peer_map`, `clean_outdated` (never called) | RPC handler |
| Packets (`packet.rs`, `constants.rs`) | none | header encode and parse | all |
| Crypto, codec, compression, messages (`crypto.rs`, `codec.rs`, `compress.rs`, `proto.rs`) | none | encryption, encodings | room, RPC handler |

What is hard here:

* **State in four places with four lifetimes.** Attachments and alarms survive
  everything, the global state survives hibernation but not the replacement of
  the isolate, the room object survives neither, and clients have their own
  view. They must agree after every order of events.
* **Event order.** The close event of an old socket may come after the
  handshake on a new one; a socket the alarm closed stays listed until its
  close event and may still deliver messages.
* **Partial failure.** A failed send ends a handler in the middle, with some of
  its effects made.
* **Sharing.** Rooms share the global state but look only at their own sockets;
  sockets of one peer share one sync session.
* **Versions and signatures.** Topology is sent only when a signature changed
  and believed only when a version is new; the peer center's map is sent only
  when the client's digest is another.
* **Time.** The alarm is set by connections and by itself; it must come often
  enough while somebody is connected and stop when nobody is.

What makes each part correct: the room's membership is exactly who is
connected, clients know it, and it ends with the last connection; edges of
departed peers are found by the clean-up; the alarm is there while it is
needed; a network has one secret; a bitmap is left out only when the client has
it; new rows come under new versions; infos are replaced only by newer ones.
A silent socket is closed in bounded time; a client that the peer center tells
"unchanged" has the current map; and the bytes of bitmaps, headers and group
keys say what was put into them.

## 2. Modules

| Module | What it is |
|---|---|
| `Presence` | abstract: a peer is a member from its first identified connection to the end of its last |
| `RelayRoom` | the room, membership and edges of the route state, the digest registry |
| `RelayRoomPresence` | `RelayRoom` as an implementation of `Presence` (refinement mapping) |
| `RouteSync` | infos, connection versions, sessions and bitmaps, composed with `RelayRoom` |
| `ConnBits` | the bytes of a connection bitmap, as functions |
| `RouteBits` | the bitmaps that clients of `RouteSync` receive, as bytes of `ConnBits` |
| `Reaper` | last message, timeout and cleanup alarm of a room with their times |
| `Talkers` | `Reaper` with the messages whose handler fails |
| `GlobalMap` | abstract: what the peer center promises |
| `PeerCenter` | the peer center, with its RPCs as messages of `Reaper` |
| `Encoding` | packet header, packets, packet types and group key, as functions |
| `MCRelayRoom`, `MCRouteSync`, `MCPeerCenter` | instances for TLC |
| `RelayRoomProofs`, `MembershipProofs`, `PresenceProofs`, `RouteDataProofs`, `RouteSyncProofs`, `PeerCenterProofs`, `ConnBitsProofs`, `EncodingProofs` | theorems |

### RelayRoom

| TLA+ | Code |
|---|---|
| `conn[s]` | the WebSocket: not there, open, or closed by us and still in `get_websockets` |
| `att[s]` | `peer_id` and `group_key` of its `WsAttachment` |
| `stale[s]` | `now - last_seen_ms > SOCKET_TIMEOUT_MS` |
| `told[s]` | the peers listed in the last route update the client received |
| `peers`, `conns`, `removed` | `RouteGroupData.peers`, `peer_connections`, `peer_removed_at` (its age) |
| `registry` | `network_digest_registry` |
| `armed[r]`, `booted[r]` | the alarm is set; the Durable Object is in memory |
| `Construct`, `Fetch`, `Alarm` | `RelayRoom::new`, `fetch`, `alarm` |
| `HandShakeAccepted`, `HandShakeRejected`, `Ping`, `SyncRouteInfo`, `RpcResp`, `ForwardMessage` | the branches of `websocket_message` |
| `WebsocketClose`, `WebsocketError` | the two events; their code is the same, `Depart` |
| `Hibernate`, `Restart` | the runtime drops the object, or replaces the isolate |
| `GoStale`, `AgeRemoval` | time passes a threshold |

One action is one handler. A handler only ever waits for storage (the alarm,
during which the runtime's input gates keep other events out) or for futures
that are ready (`wrap_packet`), so no other handler runs in its middle. Sends
are modelled with their failure: on a socket being closed they fail and what
the code skips then, the action skips. Exactly which handlers refresh
`last_seen_ms` follows from where `?` leaves them. A socket stands for its own
`server_session_id`, which is random per socket and never shared.

The clients are free: any claimed identity in `Hellos`, any report of edges,
any order, silence at any time. `Disciplined` and `PeersPinnedToRoom` are
predicates on the constants that say what some properties ask of clients.

### RouteSync

Each action is the action of `RelayRoom` conjoined with what the same handler
does to `route` (infos, versions and sessions of each group) and `seen` (the
bitmap each client last received). Operations on the route data are operators
with the names of the functions: `AddPeer`, `RemovePeer`, `UpdatePeerInfo`,
`SessionAck`, `BumpAll`, `ConnBitmap`, `Build`. Their order in an action is the
order in the handler, with the effects of updates that are built and not sent.
Loops over a list (the infos of a request, the sockets of a construction) are
`Steps`: a function from the round to what the loop has made of its start, so
that `Readding(g, order, n)[i]` is the data after `i` sockets. An info is its
version. A bitmap is the version of each listed peer with the
P2P edges among them; this is also what `last_conn_bitmap_sig` encodes, with
the server's row constant. A broadcast walks over the sockets in an order of
the runtime's choosing; the order matters only between sockets of one peer, so
`Orders` chooses a first and a last socket for each.

Left out because nothing can be told apart by it: `force_full` is always true,
so `peer_info_ver_map` has no effect; `conn_bitmap_ver_map` and
`foreign_net_ver` are written and not used to decide; `last_touch_ms`,
`we_are_initiator` and `my_info` only fill messages.

### Presence

Two variables, who each connection speaks for and the members. `Join` and
`Leave` are all it does. `RelayRoomPresence` maps `att` to the first. The
second is `peers[g]`, except while a room with sockets of the group is not
constructed: then nobody can look, and the members are those the constructor
will find.

### ConnBits and RouteBits

A byte is the set of its bits that are 1, a bitmap a function from byte numbers
to bytes. `Index` is `row * n + col`, `Packed` what `set_bit` leaves in the
zeroed vector, `Connected` is `get_connected_peers_from_bitmap`, which takes
what lies past the bytes it got as not set. `Cells` are the cells that
`build_conn_bitmap` sets; its branch without the server in the list is left
out, as `build_sync_route_info_request` always adds the server. The order of
the peer ids is whatever `Positions` allows. `Neighbours` is not code: it is
what a reader should find, the peer itself, the server and the peer's edges.

### Reaper and Talkers

`RelayRoom` knows silence and the alarm as flags. `Reaper` gives them time:
`lastSeen[s]` is the age of `last_seen_ms`, `due` what is left until the alarm
(negative when the runtime is late, by up to `Late`). `Tick` is the clock, which
does not step back. A message is `Handled`, or `Failed` when a send in
its handler fails, or `Refused` (a handshake). `serialize_attachment` at the end
of `websocket_message` is what makes a message count, and a handler that fails
before it leaves `lastSeen` alone. A handler's send fails only on a socket that
is being closed. `Talkers` adds `heard[s]`, the age of the last message whatever
became of it.

### PeerCenter and GlobalMap

`center[g]` is `PeerCenterGroupData` of a group: the map from pairs to infos and
the digest. `cache[s]` is what the client on a socket holds: the map of its
last full answer and that answer's digest, which it sends with the next query.
`Reported` and `Answered` are `report_peers` and `get_global_peer_map`;
`ReportPeers` and `GetGlobalPeerMap` are the handler around them: the report is
stored, the answer is sent, and only then the socket counts as heard.
A report names its reporter itself (`Reporters`), and an unidentified socket
has the empty group key, one of `GroupKeys`. `Restart` empties the map while
clients keep theirs. The groups of different rooms are one map per isolate;
`Reaper` is one room, whose sockets may be of any groups.

`GlobalMap` says it with two sets: `known[g]` only grows by reports, and a client
that asks ends with exactly `known[g]`. An answer of "unchanged" refines `See`
only if the client's map equals the server's, which is what the digest is for.

### Encoding

`ToBytes` and `FromBytes` are `to_bytes` and `from_bytes`, byte by byte;
`WrapPacket` is `wrap_packet` with encryption off, the only way it is called,
the length cut to 32 bits. `Code` is the enum of packet types and `FromU8` the
second table in the code, `from_u8`, arm by arm; 18 and 19 are unused and read as
`Invalid`. `GroupKey` is `name:hex(digest)`.

## 3. Runs

| Run | Instance | Question |
|---|---|---|
| `room_safety` | 3 sockets, 2 peers, 1 room, restarts | do membership, client views, edges and alarm stay right, is `Presence` implemented |
| `two_rooms` | 3 sockets, 2 rooms with a network each, restarts | do rooms disturb each other through the global state |
| `room_open` | 3 sockets, peer 0 and another, 2 secrets, failing storage | what still holds when clients and storage misbehave |
| `room_liveness` | 2 sockets, 2 peers, restarts, fairness | are silent sockets closed, do dead peers leave, do their edges expire |
| `room_ghost` | 2 sockets, 2 networks | *violated*: a peer id in two groups |
| `route_sync` | 2 sockets, 2 peers, versions up to 9 | are sessions, bitmaps, their bytes and peer lists consistent, do changed rows come under new versions, does the refresh repair what was skipped |
| `route_sync_restart` | 2 sockets, 1 peer, 2 session ids, infos about any id with versions 0 and 2, connection versions up to 6, restarts | and when the isolate is replaced |
| `route_sync_overlap` | 2 sockets, 2 peers, overlapping connections, versions up to 7 | is a kept signature right about the members, if nobody claims the server's id |
| `route_infos`, `route_join` | as `route_sync` | *violated*: two statements of the code's comments |
| `peer_center` | 2 sockets of a group, 1 reporter, 2 targets, 2 infos, all times 1, restarts, fairness | is "unchanged" true, is `GlobalMap` implemented, are silent sockets closed in time, does an empty room rest |
| `talkers` | 2 sockets, timeout 2, interval 1 | *violated*: does every message count as one |

**Properties of RelayRoom.** `ConnectedTracked`: a peer with a listed socket is a
member whenever a handler can look. `NoGhost`: a member has a socket.
`RoutesCurrent`: the last update each client received lists everybody who can
be reached and nobody who is gone. `DepartedTracked`: an edge of a peer that
left has a removal time, by which the clean-up finds it once it runs for the
group, and a member has none. `AlarmArmed`: the alarm is set
while a client is connected. `OneDigestPerNetwork`: connected clients of a
network share its secret. `StaleReaped`, `DeadPeersLeave`: liveness.
`DepartedEdgesExpire`: the edges of a peer that stays away go from every entry
of its group while somebody of the group is heard. `PresenceKept`: the
refinement.

**Properties of RouteSync.** `DedupSound`: the signature of a session that
the client has acknowledged is that of the bitmap the client has.
`TopologyMatchesPeers`: that bitmap lists the peers of the client's last
update. `SessionIdAgrees`: answers and pushes on a socket carry one id.
`RowChangeBumpsVersion`: between two bitmaps a client receives, a row whose
version is the same is the same. `SignatureTracksMembers`: while the server's
version is that of a kept signature, the group has the members the signature
lists, so that an update without a bitmap never hides a join or a departure.
It is claimed as long as no client claims the server's own id (`ServerUnclaimed`).
`RouteTypeOK`: bitmaps list the server, and no version is 0, although a departure
resets it. `RefreshRepairs`: after an alarm every
synchronised client of the room has the current bitmap, whatever failed before.
`BitmapDecodes`: from the bytes, in any order of the peers, a client reads
exactly the edges.

**Properties of Reaper and PeerCenter.** `ReapedInTime`: no open socket is silent
for longer than timeout, interval and lateness together. `RoomRests`: an alarm
of an empty room is the last. `DigestSound`: a client that would be told
"unchanged" has the pairs of the map. `MapServed`: the refinement of
`GlobalMap`. `TypeOK` includes that a pending alarm is never further away than
an interval.

**Bounds.** Two sockets of one peer and a third socket are the smallest
configuration in which a close event can be skipped for another connection of
the same peer while somebody else watches; conflicts between two groups, two
rooms or two secrets need two of each. No bound limits the length of a run of
`RelayRoom`: its state is finite. In `Reaper` ages stop just past the deadline, where all are alike, so times
of 1 tell apart a socket before and after the timeout and an alarm before,
at and past its time. Two
sockets, one reporter and two targets are enough for a report to be added to
while another client holds an older digest; more reporters only make more
pairs, and any number of everything is proved. `RouteSync` has versions that
grow: `MaxConnVer` cuts a behaviour off when one passes it. A first handshake bumps
twice (for the peer and for its info) and a departure once. With 9 in `route_sync`
both peers join and report edges, one of them leaves, returns and has edges
again: a whole leave and return between two bitmaps of the client that stays,
which 8 cuts off. `InfoIds`, `InfoVers` and `MaxItems` bound the infos in a request:
one per request; a peer without an info has version `NoInfo`, older than any, so
that version 0 is stored like the others. Infos are about the clients in
`route_sync`, about the server too in `route_sync_overlap`, and about peer 0 as well, with
version 0, in `route_sync_restart` and `route_infos`. Infos are stored one by one, so what a longer request does to
the stored infos takes several requests here. The runs with restarts
have one peer in `RouteSync`, as restarts with two exceed what TLC finishes.
Sockets and peers are interchangeable in the symmetric runs: no definition
picks one, and no run with a liveness property uses symmetry.

**Clients of the RouteSync runs.** `Tidy` clients handshake once on a socket and
only after their previous socket is gone. `route_sync` needs it: a session is
the peer's, so with two open sockets of one peer only the first in a broadcast
gets a changed bitmap, and the properties about a socket's session cannot hold.
Nor can `RowChangeBumpsVersion`: with `Tidy = FALSE` and three sockets TLC refutes
it in twelve states. The second socket of a peer keeps the bitmap of an earlier
broadcast while another peer leaves, which removes that peer's version
(`route_state.rs:140`), and returns, so that its versions repeat with other
edges; the next bitmap the second socket gets then has another row under a
version it has seen. Two sockets are too few for that, as the peer that leaves
needs a third. `route_sync_overlap` is without `Tidy`.

**The server's own id.** `handle_handshake` accepts a client that claims
`MY_PEER_ID`. `Peers` may contain `Server`, and the definitions say what the code
does then: the update lists the id once, reported edges to it are dropped, and
the departure of such a client deletes the server's own connection version
(`route_state.rs:140`), which `bump_all_conn_versions` starts over at 2. A kept
signature's server version can then come back with other members, for
instance when a group with such a client in one room also has a member in
another, so `SignatureTracksMembers` is claimed under `ServerUnclaimed` only. No run has
such a client, because a third id is more than TLC finishes; every other
theorem about `RouteSync` covers it.

**Fairness.** `Alarm` is strongly fair per room: Cloudflare delivers a set alarm
at least once, also when the object hibernates in between. `Construct` is weakly
fair: the runtime constructs an object that has events waiting. The close event
of a socket that *we closed* is strongly fair: the runtime ends it. Clients owe
nothing, in particular no client ever has to speak or to close. Without strong
fairness a room could hibernate and wake for ever with its alarm starved. In
`peer_center` the room is always in memory and weak fairness of `Alarm` and
`Tick` is enough: the runtime delivers a set alarm, and time passes.

**Deadlock** is checked in every run.

## 4. What the violated runs show

* `room_ghost`: the search for another connection in `websocket_close`
  (`relay_room.rs:441-450`) compares peer ids, not groups. If one id is
  connected in two groups, closing one connection leaves a member without a
  socket. Until a later close event of that peer in that group, or a restart,
  nothing removes it.
* `route_infos`: `handle_sync_route_info_request` (`route_state.rs:487`) stores
  infos whatever their version; `update_peer_info` has refused the same info in
  the same request.
* `route_join`: the update that the handshake builds and drops
  (`relay_room.rs:285-294`) records the new peer's bitmap signature, so that
  the broadcast comes without the bitmap. The client gets it after its own first
  sync, with the next change of versions, or with the alarm's refresh once it
  has answered a push.
* `talkers`: a packet for a peer whose socket is being closed makes
  `forward_message` fail (`relay_room.rs:535`) and its handler return before
  `last_seen_ms` is written, so a sender that does nothing but that is closed
  as dead although its `last_seen_ms` is documented as the time of the last
  message of any kind.

Three more limits of the code appear as hypotheses of theorems and in the
hazards: a peer id used in two rooms of an isolate (`PeersPinnedToRoom`), the
digest registry, which a restart empties while clients stay connected
(`Restarts`), and a client that claims the server's id (`ServerUnclaimed`).

## 5. Proofs

For any sockets, rooms, peers, networks, secrets and claims of clients (finite
or not), under the named assumptions of `RelayRoom` on its constants, which
only say that the special values differ from the others and that constants have
their types:

| Theorem | Hypothesis | Result |
|---|---|---|
| `TypeCorrect` | - | `Spec => []TypeOK` |
| `PeersTracked` | `PeersPinnedToRoom` | `Spec => []ConnectedTracked` |
| `AlarmStaysArmed` | `~StorageFaults` | `Spec => []AlarmArmed` |
| `DigestsAgree` | `~Restarts` | `Spec => []OneDigestPerNetwork` |
| `NoGhosts` | `Disciplined` | `Spec => []NoGhost` |
| `RoutesAreCurrent` | `Disciplined` | `Spec => []RoutesCurrent` |
| `EdgesDoNotLeak` | `Disciplined` | `Spec => []DepartedTracked` |
| `ImplementsPresence` | `Disciplined` | `Spec => PresenceKept` |

`PeerCenterProofs`, for any sockets, groups, reporters, targets and infos and any
natural `Timeout`, `Interval` and `Late` (`TimeAssumption`), with the special
digest 0 different from every other (`DigestAssumption`):

| Theorem | Result |
|---|---|
| `TypeCorrect` | `Spec => []TypeOK` |
| `Reaped` | `Spec => []ReapedInTime` |
| `UnchangedIsTrue` | `Spec => []DigestSound` |
| `ServesMap` | `Spec => MapServed` |

`RouteDataProofs` and `RouteSyncProofs`, for any finite set of sockets
(`SocketsAssumption`; the runtime lists them) and any rooms, peers, networks,
session ids, infos, lengths of requests and bounds on versions, with `NoMap` no
bitmap (`MapAssumption`) and, for what is said of bytes, finitely many peer ids,
which are 32-bit numbers (`PeersAssumption`):

| Theorem | Hypothesis | Result |
|---|---|---|
| `RouteImplementsRoom` | - | `RouteSpec => Spec`, that of `RelayRoom` |
| `RouteTypeCorrect` | - | `RouteSpec => []RouteTypeOK` |
| `SignaturesTrackMembers` | `ServerUnclaimed` | `RouteSpec => []SignatureTracksMembers` |
| `BitmapsDecode` | - | `RouteSpec => []BitmapDecodes` |
| `DedupIsSound` | `Tidy` | `RouteSpec => []DedupSound` |
| `TopologyIsThatOfTheUpdate` | `Tidy` | `RouteSpec => []TopologyMatchesPeers` |
| `RefreshBringsUpToDate` | `Tidy` | `RouteSpec => RefreshRepairs` |
| `SessionIdsAgree` | `Tidy`, `~Restarts` | `RouteSpec => []SessionIdAgrees` |
| `RowChangesBump` | `Tidy`, `Disciplined`, `~Restarts` | `RouteSpec => RowChangeBumpsVersion` |

The hypotheses are those of the runs that check the properties: `route_sync` has
`Tidy`, `Disciplined` and `~Restarts`, `route_sync_restart` has `Tidy` and restarts,
and no run has a client with the server's id.

About the functions, for every argument:

| Theorem | Result |
|---|---|
| `RowsReadBack` | a row read from a packed matrix of any size has the cells that were set in it |
| `NeighboursReadBack` | `Decoded` finds a peer itself, the server and its edges, for any list and order of peers |
| `HeaderReadBack` | `FromBytes(ToBytes(h)) = h` |
| `PacketReadBack` | header and payload of a wrapped packet read back |
| `TypesReadBack` | `FromU8(Code[t]) = t`, and what `FromU8` reads is a type of the enum, with that code unless it is `Invalid` |
| `GroupKeysDiffer` | equal group keys mean equal names and digests |

In `RelayRoom` each invariant is inductive relative to the ones before it, and the layers are
what makes the argument readable: `TypeOK` gives that an attachment is one of
the identities its client may claim; `ConnectedTracked` follows from it, as the
only step that removes a peer looks for its other sockets in the one room they
can be in; `NoGhost` is the converse and needs that a peer id has one group, or
the skipped removal would be another group's; `RoutesCurrent` needs both, for an
update lists `peers[g]`, and whoever is not reached by a broadcast must see no
difference (`CalmStep`, `UpdatedIsCurrent`, `UntouchedIsCurrent`).
`OneDigestPerNetwork` is not inductive: `DigestRegistered`, that every
attachment's digest is the registered one, is. For the refinement,
`Exact` says that the mapped members are the speakers of listed sockets; with
it a handshake is a `Join`, a departure a `Leave`, and every other step,
a restart or a construction included, a stutter.

`ReapedInTime` is not inductive, as it does not mention the alarm. `InTime` is:
while a socket is open the alarm is set, and the socket's silence plus what is
left until the alarm is at most timeout and interval. A tick adds to one and
takes from the other; a message or a connection only lowers the first; the
alarm closes who is past the timeout and then sets itself an interval ahead for
the rest. With `due >= -Late` the bound follows. `DigestSound` needs that the
digest in both the map and each client's copy is none or that of its own pairs
(`Faithful`); two faithful entries with one digest have the same pairs. The
steps of the refinement follow from that and from `InsertedMap`.

**What a loop makes.** The group's data after a loop is the last value of a
function that is defined by recursion on the rounds. `Recursion` proves that such
a function exists for every step that stays in a set, and
`ProcessingSteps`, `StoringSteps` and `ReaddingSteps` unfold the three loops round by
round. The library's induction theorem takes an operator, which the provers
cannot instantiate; `NatSetInduction` is induction for a *set* that holds 0 and
successors, from the well-foundedness of `<` (`WFMin`), and is enough for
invariants of a loop.

**Route data.** `Grown` says that data of a group has only higher versions and
the same sessions, and every operation that touches no session ends in it.
`Follows` adds that the server's version has risen if the members changed. Every
handler's new data follows the old, as `add_peer` and `remove_peer` bump for every
real change and the constructor adds peers one by one. A signature whose server
version is the present one is therefore of the present members
(`SignatureTracksMembers`), for any clients that do not claim the server's id, as
only the departure of one that does lowers that version; a restart has dropped
all signatures.

**What a step does to a connection.** For the properties of synchronised clients
every handler is reduced to one statement about each open, identified socket
after it (`Stepped`). The socket was `Kept`: nothing but its session changed, and a
new session has no signature. Or it was `Reached`: its `told`, session id and
signature are those of an update of now, and its client has the bitmap of now, or
the update came without (`Unsent`) because the signature was already that of now.
`Silent` says that the other sockets get nothing, `Books` that an acknowledged
session is of a connected peer and that an unidentified socket has seen nothing.
Tidy clients have one connection each (`OneEach`), so that the order of a
broadcast does not matter (`OrderedPush`). There is one lemma per handler
(`HandShakeStepped`, `SyncStepped`, `DepartStepped`, `AlarmStepped`, ...);
`DedupSound`, `TopologyMatchesPeers`, `SessionIdAgrees` and `RefreshRepairs` follow
from `AllStepped` in a few steps each.

**Rows.** `RowChangeBumpsVersion` compares two bitmaps that may have been sent
many steps apart, so the invariant is about one of them: `RowsCurrent`, what a
client holds of a peer is what it would be sent now, unless the peer's version
has grown. Each step either leaves a group's members and the edges among them
alone and lowers no version (`Still`), or raises the version of everybody who
stays but the server (`Bumped`), whose row never changes, and whoever is not `Reached` has the members it had
(`MembersStay`). That the clean-up of the alarm, which bumps nothing, is `Still`
needs `DepartedTracked`, carried over from `RelayRoom` by `RouteImplementsRoom`: the
edges it drops are of peers that are not members.

The row theorem of `ConnBits` rests on `IndexInjective`: two cells of an n by n matrix with one
index are one cell, which is arithmetic without induction, and a byte number
and a bit number determine an index. `GroupKeysDiffer` compares the last colons:
a hex digest has none.

Not proved, and left to TLC: liveness under fairness (`StaleReaped`, `DeadPeersLeave`,
`DepartedEdgesExpire`, `RoomRests`), which is beyond the prover. Every invariant and
every action property of a passing run is a theorem.

## 6. Not modelled

* The ciphers, the SipHash digest and `derive_keys` of `crypto.rs`: nothing calls
  the latter two, and `WsCrypto::default`, which is off, is all that is used.
  `random_u64_string`, a socket's session id, is the socket itself in the models.
* `codec.rs`, `compress.rs`, `proto.rs`: no state, third-party or generated; a
  failure to decode is a branch of the action that calls them.
* `clean_outdated`, the accessor `calc_digest` and the report times of the peer
  center: nothing calls or reads them. Collisions of its 64-bit digest: digests
  are compared as the sets they hash.
* What a forwarded packet meets on its way: the room keeps nothing of it, so
  `ForwardMessage` is its target and whether the send fails. Packets of sockets
  that have not done their handshake pass the group check
  (`relay_room.rs:526-529`); the model has it, no property is claimed of them.
* The width of versions: connection versions are 32-bit numbers that
  `bump_all_conn_versions` raises by 1, and naturals in the model. An isolate
  would have to raise one four billion times for it to wrap.
* A clock that steps back, which `relay_room.rs:124` takes for a long silence.
* `foreign_network_infos`, `my_info` and its setters, and the version maps of a
  session that decide nothing.
* A sync on a socket that has not done its handshake: the code keeps what it
  says under an empty group key and peer id 0, which no broadcast reaches, and
  answers on that socket. For everybody else it is a message that is answered,
  the action `Ping`.
* HTTP answers of `lib.rs`, logging, the fields of messages that nothing
  depends on.
* A text message or one with a short or unparsable header returns at once and
  changes nothing, a stutter. An attachment that cannot be written
  (`serialize_attachment(..)?`) is taken not to happen.
* An isolate that is replaced between two steps of one handler: the runtime
  replaces isolates between events.

## 7. Plan

Done: `RelayRoom`, `Presence` and their proofs; `RouteSync` with its runs;
delivery as `ForwardMessage` of `RelayRoom`, without a module of its own, as the
choice of the target is all there is to it; `Reaper`, `Talkers`, `PeerCenter`
and `GlobalMap` with proofs; `ConnBits` and `Encoding` with proofs.
`RouteDataProofs` and `RouteSyncProofs` prove every property of `RouteSync` that a
passing run checks.

Left: what still holds of sessions while the connections of one peer overlap,
beyond `SignatureTracksMembers`; and the composition of `PeerCenter` with several
rooms of one isolate.
