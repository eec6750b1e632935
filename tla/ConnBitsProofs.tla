---------------------------- MODULE ConnBitsProofs ---------------------------
(* Proofs about the bytes of a connection bitmap, for every size.          *)
EXTENDS ConnBits, FiniteSetTheorems, TLAPS

\* Whole rows are counted without remainder: (r + k) n = r n + k n.
LEMMA RowsApart ==
    ASSUME NEW n \in Nat, NEW r \in Nat, NEW q \in Nat, r < q
    PROVE  r * n + n <= q * n
<1> DEFINE k == q - r - 1
<1>1. k \in Nat /\ q = (r + 1) + k
  OBVIOUS
<1>2. k * n \in Nat
  BY <1>1
<1>3. q * n = (r + 1) * n + k * n
  BY <1>1
<1>4. (r + 1) * n = r * n + n
  OBVIOUS
<1>5. r * n \in Nat /\ q * n \in Nat /\ (r + 1) * n \in Nat
  OBVIOUS
<1> QED BY <1>2, <1>3, <1>4, <1>5

\* Every cell has a bit of its own among the n * n that the bytes hold.
LEMMA IndexInjective ==
    ASSUME NEW n \in Nat, NEW r \in 0..(n - 1), NEW c \in 0..(n - 1),
           NEW q \in 0..(n - 1), NEW d \in 0..(n - 1), Index(n, r, c) = Index(n, q, d)
    PROVE  r = q /\ c = d
<1>1. r * n \in Nat /\ q * n \in Nat
  OBVIOUS
<1>2. r * n + c = q * n + d
  BY DEF Index
<1>3. ~(r < q)
  <2> SUFFICES ASSUME r < q PROVE FALSE
    OBVIOUS
  <2>1. r * n + n <= q * n
    BY RowsApart
  <2>2. r * n + c < r * n + n
    BY <1>1
  <2> QED BY <1>1, <1>2, <2>1, <2>2
<1>4. ~(q < r)
  <2> SUFFICES ASSUME q < r PROVE FALSE
    OBVIOUS
  <2>1. q * n + n <= r * n
    BY RowsApart
  <2>2. q * n + d < q * n + n
    BY <1>1
  <2> QED BY <1>1, <1>2, <2>1, <2>2
<1>5. r = q
  BY <1>3, <1>4
<1> QED BY <1>1, <1>2, <1>5

LEMMA IndexRange ==
    ASSUME NEW n \in Nat, NEW r \in 0..(n - 1), NEW c \in 0..(n - 1)
    PROVE  Index(n, r, c) \in 0..(n * n - 1)
<1>1. r * n \in Nat /\ n * n \in Nat
  OBVIOUS
<1>2. r * n + n <= n * n
  BY RowsApart
<1> QED BY <1>1, <1>2 DEF Index

\* Among n bits, each lies in one of the bytes.
LEMMA ByteRange ==
    ASSUME NEW m \in Nat, NEW i \in 0..(m - 1)
    PROVE  i \div 8 \in 0..((m + 7) \div 8 - 1) /\ i % 8 \in 0..7
OBVIOUS

\* A bit is found at its byte and offset.
LEMMA BitPlace ==
    ASSUME NEW i \in Nat, NEW j \in Nat, i \div 8 = j \div 8, i % 8 = j % 8
    PROVE  i = j
OBVIOUS

\* A reader of the bytes finds in every row the columns that were set in that
\* row and no other, for every number of peers (build_conn_bitmap read back by
\* get_connected_peers_from_bitmap).
THEOREM RowsReadBack ==
    ASSUME NEW n \in Nat, NEW cells \in SUBSET ((0..(n - 1)) \X (0..(n - 1))),
           NEW row \in 0..(n - 1)
    PROVE  Connected(n, Packed(n, cells), row) = {col \in 0..(n - 1) : <<row, col>> \in cells}
<1> DEFINE i(col) == Index(n, row, col)
           bytes == Packed(n, cells)
           bitsOf(b) == {Index(n, c[1], c[2]) % 8 : c \in {d \in cells : Index(n, d[1], d[2]) \div 8 = b}}
<1>1. DOMAIN bytes = 0..(Bytes(n) - 1) /\ \A b \in 0..(Bytes(n) - 1) : bytes[b] = bitsOf(b)
  BY DEF Packed
<1>2. ASSUME NEW col \in 0..(n - 1)
      PROVE  /\ i(col) \in Nat
             /\ i(col) \div 8 \in 0..(Bytes(n) - 1)
  <2>1. i(col) \in 0..(n * n - 1) /\ n * n \in Nat
    BY IndexRange
  <2> HIDE DEF i
  <2> QED BY <2>1, ByteRange DEF Bytes
<1>3. ASSUME NEW col \in 0..(n - 1), <<row, col>> \in cells
      PROVE  i(col) % 8 \in bitsOf(i(col) \div 8)
  <2> DEFINE c == <<row, col>>
  <2>1. c \in cells /\ c[1] = row /\ c[2] = col
    BY <1>3
  <2> QED BY <2>1
<1>4. ASSUME NEW col \in 0..(n - 1), i(col) % 8 \in bitsOf(i(col) \div 8)
      PROVE  <<row, col>> \in cells
  <2>1. PICK c \in cells : /\ Index(n, c[1], c[2]) \div 8 = i(col) \div 8
                           /\ Index(n, c[1], c[2]) % 8 = i(col) % 8
    BY <1>4
  <2>2. c[1] \in 0..(n - 1) /\ c[2] \in 0..(n - 1) /\ c = <<c[1], c[2]>>
    OBVIOUS
  <2>3. Index(n, c[1], c[2]) \in Nat
    BY <2>2, IndexRange
  <2>4. Index(n, c[1], c[2]) = i(col)
    <3> DEFINE j == Index(n, c[1], c[2])
    <3>1. j \in Nat /\ i(col) \in Nat /\ j \div 8 = i(col) \div 8 /\ j % 8 = i(col) % 8
      BY <2>1, <2>3, <1>2
    <3> HIDE DEF j, i
    <3> QED BY <3>1, BitPlace DEF j
  <2>5. c[1] = row /\ c[2] = col
    BY <2>2, <2>4, IndexInjective
  <2> QED BY <2>2, <2>5
<1> HIDE DEF i, bytes, bitsOf
<1>5. \A col \in 0..(n - 1) :
         (i(col) \div 8 \in DOMAIN bytes /\ i(col) % 8 \in bytes[i(col) \div 8])
            <=> <<row, col>> \in cells
  BY <1>1, <1>2, <1>3, <1>4
<1> QED BY <1>5 DEF Connected, i, bytes

\* A client reads in a peer's row the peer, the server and the peers it has an
\* edge with, in whatever order the peers are listed.
THEOREM NeighboursReadBack ==
    ASSUME NEW map, IsFiniteSet(DOMAIN map.vers), NEW server \in DOMAIN map.vers,
           NEW pos \in Positions(DOMAIN map.vers), NEW p \in DOMAIN map.vers, p # server
    PROVE  Decoded(map, server, pos, p) = Neighbours(map, server, p)
<1> DEFINE listed == DOMAIN map.vers
           n == Cardinality(listed)
           cells == Cells(map, server, pos)
<1>1. n \in Nat
  BY FS_CardinalityType
<1>2. pos \in [listed -> 0..(n - 1)] /\ \A q, r \in listed : pos[q] = pos[r] => q = r
  BY DEF Positions
<1>3. cells \in SUBSET ((0..(n - 1)) \X (0..(n - 1)))
  <2> HIDE DEF n
  <2>1. \A q, r \in listed : <<pos[q], pos[r]>> \in (0..(n - 1)) \X (0..(n - 1))
    BY <1>2
  <2>2. ASSUME NEW c \in cells PROVE \E q, r \in listed : c = <<pos[q], pos[r]>>
    <3>1. CASE \E r \in listed : c = <<pos[r], pos[r]>>
      BY <3>1
    <3>2. CASE \E r \in listed : c = <<pos[r], pos[server]>> \/ c = <<pos[server], pos[r]>>
      BY <3>2
    <3>3. CASE \E e \in listed \X listed : c = <<pos[e[1]], pos[e[2]]>>
      <4>1. PICK e \in listed \X listed : c = <<pos[e[1]], pos[e[2]]>>
        BY <3>3
      <4>2. e[1] \in listed /\ e[2] \in listed
        BY <4>1
      <4> QED BY <4>1, <4>2
    <3> QED BY <2>2, <3>1, <3>2, <3>3 DEF Cells
  <2> HIDE DEF cells
  <2> QED BY <2>1, <2>2
<1>4. Connected(n, Packed(n, cells), pos[p]) = {col \in 0..(n - 1) : <<pos[p], col>> \in cells}
  <2> HIDE DEF n, cells
  <2>1. pos[p] \in 0..(n - 1)
    BY <1>2
  <2> QED BY <1>1, <1>3, <2>1, RowsReadBack
<1>5. ASSUME NEW q \in listed
      PROVE  <<pos[p], pos[q]>> \in cells <=> q \in {p, server} \/ {p, q} \in map.edges
  <2>1. ASSUME q \in {p, server} \/ {p, q} \in map.edges
        PROVE  <<pos[p], pos[q]>> \in cells
    <3>1. CASE q \in {p, server}
      BY <3>1 DEF Cells
    <3>2. CASE {p, q} \in map.edges
      <4> DEFINE e == <<p, q>>
      <4>1. e \in listed \X listed /\ {e[1], e[2]} \in map.edges /\ e[1] = p /\ e[2] = q
        BY <3>2
      <4> QED BY <4>1 DEF Cells
    <3> QED BY <2>1, <3>1, <3>2
  <2>2. ASSUME <<pos[p], pos[q]>> \in cells
        PROVE  q \in {p, server} \/ {p, q} \in map.edges
    <3>1. CASE \E r \in listed : <<pos[p], pos[q]>> = <<pos[r], pos[r]>>
      BY <1>2, <3>1
    <3>2. CASE \E r \in listed : <<pos[p], pos[q]>> = <<pos[r], pos[server]>>
      BY <1>2, <3>2
    <3>3. CASE \E r \in listed : <<pos[p], pos[q]>> = <<pos[server], pos[r]>>
      BY <1>2, <3>3
    <3>4. CASE \E e \in listed \X listed : /\ {e[1], e[2]} \in map.edges
                                          /\ <<pos[p], pos[q]>> = <<pos[e[1]], pos[e[2]]>>
      BY <1>2, <3>4
    <3> QED BY <2>2, <3>1, <3>2, <3>3, <3>4 DEF Cells
  <2> QED BY <2>1, <2>2
<1>6. Decoded(map, server, pos, p) = {q \in listed : <<pos[p], pos[q]>> \in cells}
  BY <1>2, <1>4 DEF Decoded
<1> HIDE DEF cells
<1> QED BY <1>5, <1>6 DEF Neighbours
=============================================================================
