SPECIFICATION FairSpec
CONSTANTS
    s1 = s1  s2 = s2  s3 = s3
    p1 = p1  p2 = p2
    n1 = n1  n2 = n2  d1 = d1  d2 = d2
    r1 = r1  r2 = r2
    Zero = Zero
    Server = Server
    NoGroup = NoGroup
    NoDigest = NoDigest
    NoReport = NoReport
    Malformed = Malformed
    Sockets <- TwoSockets
    Peers <- TwoPeers
    Rooms = {r1}
    RoomOf <- AllInR1
    Networks = {n1}
    Digests = {d1}
    Hellos <- HellosOneGroup
    OneIdentity = TRUE
    StorageFaults = FALSE
    Restarts = TRUE
PROPERTY StaleReaped
PROPERTY DeadPeersLeave
PROPERTY DepartedEdgesExpire
