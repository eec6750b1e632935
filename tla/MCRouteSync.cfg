SPECIFICATION RouteSpec
CONSTANTS
    s1 = s1  s2 = s2  s3 = s3
    p1 = p1  p2 = p2
    n1 = n1  d1 = d1  r1 = r1
    x1 = x1  x2 = x2
    Zero = Zero
    NoGroup = NoGroup
    NoDigest = NoDigest
    NoReport = NoReport
    Malformed = Malformed
    Server = Server
    NoSid = NoSid
    NoMap = NoMap
    NoSocket = NoSocket
    Rooms = {r1}
    RoomOf <- AllInR1
    Networks = {n1}
    Digests = {d1}
    OneIdentity = TRUE
    StorageFaults = FALSE
    Peers <- TwoPeers
    Sockets <- TwoSockets
    Hellos <- HellosOneGroup
    Restarts = FALSE
    Sids = {x1}
    Tidy = TRUE
    InfoIds <- TwoPeers
    InfoVers = {1}
    MaxItems = 1
    MaxConnVer = 9
SYMMETRY SocketsAndPeers
INVARIANT DedupSound
INVARIANT TopologyMatchesPeers
INVARIANT SessionIdAgrees
PROPERTY RefreshRepairs
PROPERTY RowChangeBumpsVersion
INVARIANT BitmapDecodes
