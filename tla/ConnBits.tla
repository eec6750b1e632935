------------------------------- MODULE ConnBits ------------------------------
(***************************************************************************)
(* The bytes of a connection bitmap (route_state.rs): an n by n matrix of  *)
(* bits, row after row, eight to a byte.  A byte is the set of its bits    *)
(* that are 1.  Rows and columns are positions in the bitmap's list of     *)
(* peer ids.                                                               *)
(***************************************************************************)
EXTENDS Integers, FiniteSets

\* Bytes that an n by n matrix takes.
Bytes(n) == (n * n + 7) \div 8

\* (mutant) the writer's and reader's rows overlap by a column.
ShortRow(n, row, col) == row * (n - 1) + col

\* The bit of a cell.
Index(n, row, col) == row * n + col

\* The bitmap with the given cells set (set_bit on zeroed bytes).
Packed(n, cells) ==
    [b \in 0..(Bytes(n) - 1) |->
        {Index(n, c[1], c[2]) % 8 : c \in {d \in cells : Index(n, d[1], d[2]) \div 8 = b}}]

\* get_connected_peers_from_bitmap: the columns set in a row; what lies past
\* the bytes that came counts as not set.
Connected(n, bytes, row) ==
    {col \in 0..(n - 1) :
        LET i == Index(n, row, col)
        IN  i \div 8 \in DOMAIN bytes /\ i % 8 \in bytes[i \div 8]}

-----------------------------------------------------------------------------
(* A bitmap is a record of vers (a version for each listed peer) and edges *)
(* (sets of two peers).                                                    *)

\* The listed peers in an order that may be any.
Positions(listed) ==
    {pos \in [listed -> 0..(Cardinality(listed) - 1)] :
        \A p, q \in listed : pos[p] = pos[q] => p = q}

\* The cells build_conn_bitmap sets: each peer and itself, the server and
\* everybody, the edges both ways.
Cells(map, server, pos) ==
    LET listed == DOMAIN map.vers
    IN  {<<pos[p], pos[p]>> : p \in listed}
        \cup {<<pos[p], pos[server]>> : p \in listed}
        \cup {<<pos[server], pos[p]>> : p \in listed}
        \cup {<<pos[e[1]], pos[e[2]]>> : e \in {e \in listed \X listed : {e[1], e[2]} \in map.edges}}

\* The peers that a reader of the bytes finds in the row of p.
Decoded(map, server, pos, p) ==
    LET n == Cardinality(DOMAIN map.vers)
        row == Connected(n, Packed(n, Cells(map, server, pos)), pos[p])
    IN  {q \in DOMAIN map.vers : pos[q] \in row}

\* The peers that it should find there.
Neighbours(map, server, p) ==
    {p, server} \cup {q \in DOMAIN map.vers : {p, q} \in map.edges}
=============================================================================
