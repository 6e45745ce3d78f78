------------------------------ MODULE LinkMap ------------------------------
(***************************************************************************)
(* The link map of the rabit tracker (dmlc-core/tracker/tracker.py): a     *)
(* binary tree over the ranks 0 .. n-1, a ring that shares links with it,  *)
(* and the renumbering of the ranks along the ring.                        *)
(*                                                                         *)
(* The children of a rank are held in a Python set, whose iteration order  *)
(* is not specified: flip is the set of ranks whose children are visited   *)
(* in descending order.                                                    *)
(***************************************************************************)
EXTENDS Integers, FiniteSets, Sequences, SequencesExt

Ranks(n) == 0 .. n - 1

\* get_neighbor, in terms of rank + 1
GetNeighbor(rank, n) ==
    LET r == rank + 1
    IN  (IF r > 1 THEN {r \div 2 - 1} ELSE {}) \cup {x \in {r * 2 - 1, r * 2} : x < n}

\* get_tree
ParentMap(n) == [r \in Ranks(n) |-> (r + 1) \div 2 - 1]

Children(r, n) == GetNeighbor(r, n) \ {ParentMap(n)[r]}
Visit(r, n, flip) ==
    SetToSortSeq(Children(r, n), LAMBDA x, y : IF r \in flip THEN x > y ELSE x < y)

\* find_share_ring: the list of the last child is reversed, so that it ends near r
RECURSIVE FindShareRing(_, _, _)
FindShareRing(r, n, flip) ==
    LET vs == Visit(r, n, flip)
        ring == [i \in DOMAIN vs |-> FindShareRing(vs[i], n, flip)]
    IN  <<r>> \o FlattenSeq([i \in DOMAIN vs |-> IF i = Len(vs) THEN Reverse(ring[i]) ELSE ring[i]])

\* get_ring
RingMap(n, flip) ==
    LET l == FindShareRing(0, n, flip)
        at(r) == CHOOSE i \in 1 .. n : l[i] = r
    IN  [r \in Ranks(n) |-> [prev |-> l[((at(r) + n - 2) % n) + 1], next |-> l[(at(r) % n) + 1]]]

\* get_link_map: the new number of a rank is its distance from 0 along the ring
Renumber(n, flip) ==
    LET l == FindShareRing(0, n, flip) IN [r \in Ranks(n) |-> (CHOOSE i \in 1 .. n : l[i] = r) - 1]

GetLinkMap(n, flip) ==
    LET m == Renumber(n, flip)
        ring == RingMap(n, flip)
        old(k) == CHOOSE r \in Ranks(n) : m[r] = k
    IN  [k \in Ranks(n) |->
           [tree   |-> {m[x] : x \in GetNeighbor(old(k), n)},
            parent |-> IF old(k) = 0 THEN -1 ELSE m[ParentMap(n)[old(k)]],
            prev   |-> m[ring[old(k)].prev],
            next   |-> m[ring[old(k)].next]]]

\* assign_rank: the ranks a slave is told to be linked to
Neighbors(map, r) == map[r].tree \cup ({map[r].prev, map[r].next} \ {r})
-----------------------------------------------------------------------------
\* What rabit relies on: the ring visits every rank in numerical order, the tree links are
\* symmetric and form a tree whose parents are told consistently, and each rank but the leaves of
\* the tree has a ring link that is also a tree link.
LinkMapRight(n, flip) ==
    LET map == GetLinkMap(n, flip)
    IN  /\ ToSet(FindShareRing(0, n, flip)) = Ranks(n)
        /\ \A r \in Ranks(n) :
              /\ LET up[i \in 0 .. n] == IF i = 0 THEN r ELSE IF up[i - 1] = -1 THEN -1 ELSE map[up[i - 1]].parent
                 IN  up[n] = -1
              /\ map[r].next = (r + 1) % n /\ map[r].prev = (r - 1) % n
              /\ \A q \in Ranks(n) : q \in map[r].tree <=> r \in map[q].tree
              /\ IF r = 0 THEN map[r].parent = -1 ELSE map[r].parent \in map[r].tree
              /\ map[r].tree \ {map[r].parent} = {q \in Ranks(n) : map[q].parent = r}
              /\ Cardinality(map[r].tree) > 1 => {map[r].prev, map[r].next} \cap map[r].tree # {}
=============================================================================
