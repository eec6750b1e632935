------------------------------ MODULE RouteBits ------------------------------
(* The bitmaps of RouteSync as the bytes that are sent.                    *)
EXTENDS RouteSync, ConnBits

ASSUME PeersAssumption == IsFiniteSet(Peers)

\* Whatever the order of the peer ids, a client reads from the bytes it got
\* that each peer is connected to itself, to the server, to the peers it has
\* an edge with, and to nobody else: no bit moves to a neighbour's row or byte.
BitmapDecodes ==
    \A s \in Sockets : seen[s] # NoMap =>
        \A pos \in Positions(DOMAIN seen[s].vers) :
            \A p \in DOMAIN seen[s].vers \ {Server} :
                Decoded(seen[s], Server, pos, p) = Neighbours(seen[s], Server, p)
=============================================================================
