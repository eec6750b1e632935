SPECIFICATION FairSpec
CONSTANTS
    s1 = s1  s2 = s2
    g1 = g1
    p1 = p1  p2 = p2
    i1 = i1  i2 = i2
    NoDigest = NoDigest
    Sockets = {s1, s2}
    GroupKeys = {g1}
    GroupOf <- Together
    Reporters = {p1}
    Targets = {p1, p2}
    Infos = {i1, i2}
    Timeout = 1
    Interval = 1
    Late = 1
INVARIANT TypeOK
INVARIANT ReapedInTime
INVARIANT DigestSound
PROPERTY MapServed
PROPERTY RoomRests
