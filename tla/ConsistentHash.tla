--------------------------- MODULE ConsistentHash ---------------------------
(***************************************************************************)
(* The ring of step 7, as a value: the nodes, the owner of each position,  *)
(* and the sorted positions that are searched. Every method holds the      *)
(* mutex from its first line to its last, so each is one operator here.    *)
(* sorted is kept as a set: a hash that it has twice after a collision     *)
(* shows nowhere, since a search stops at the first of equal hashes, the   *)
(* walk of GetN skips nodes it has seen and Remove drops all of them.      *)
(***************************************************************************)
EXTENDS Integers, FiniteSets

CONSTANTS Nodes,     \* names of nodes
          HashSize,  \* hashes are 0..HashSize-1; 2^32 in the code
          NoNode     \* the empty string

ASSUME RingAssumption == HashSize \in Nat \ {0} /\ NoNode \notin Nodes

Hashes == 0..(HashSize - 1)

(* Where the virtual nodes of each node are: its virtualKeys hashed. At    *)
(* least one each, since NewConsistentHash takes 100 for a count of 0.     *)
Placement == [Nodes -> (SUBSET Hashes) \ {{}}]

(* NewConsistentHashStore adds the nodes of a map, which Go ranges over in *)
(* any order: where positions collide, the node whose turn is last has it. *)
Turns(nodes) == {turn \in [nodes -> 1..Cardinality(nodes)] : \A m, n \in nodes : m # n => turn[m] # turn[n]}

NewConsistentHash(nodes, place, turn) ==
    LET Claims(p) == {n \in nodes : p \in place[n]}
        all == UNION {place[n] : n \in nodes}
    IN [nodes  |-> nodes,
        ring   |-> [p \in all |-> CHOOSE n \in Claims(p) : \A m \in Claims(p) : turn[m] <= turn[n]],
        sorted |-> all]

AddTo(r, n, place) ==
    IF n \in r.nodes THEN r
    ELSE [nodes  |-> r.nodes \cup {n},
          ring   |-> [h \in DOMAIN r.ring \cup place[n] |-> IF h \in place[n] THEN n ELSE r.ring[h]],
          sorted |-> r.sorted \cup place[n]]

RemoveFrom(r, n, place) ==
    IF n \notin r.nodes THEN r
    ELSE [nodes  |-> r.nodes \ {n},
          ring   |-> [h \in DOMAIN r.ring \ place[n] |-> r.ring[h]],
          sorted |-> r.sorted \ place[n]]

Least(S) == CHOOSE p \in S : \A q \in S : p <= q

(* Mutant: the search passes over a position equal to the key's hash.      *)
FirstPast(S, h) == LET ahead == {p \in S : p > h}
                   IN IF ahead # {} THEN Least(ahead) ELSE Least(S)

(* sort.Search for the first position not below h, with the wrap around.   *)
First(S, h) == LET ahead == {p \in S : p >= h}
               IN IF ahead # {} THEN Least(ahead) ELSE Least(S)

(* Mutant: any spreading of hashes over the positions will do.             *)
OwnerModulo(r, h) ==
    IF DOMAIN r.ring = {} THEN NoNode
    ELSE r.ring[CHOOSE p \in r.sorted :
                   Cardinality({q \in r.sorted : q < p}) = h % Cardinality(r.sorted)]

(* ConsistentHash.Get.                                                     *)
Owner(r, h) == IF DOMAIN r.ring = {} THEN NoNode ELSE r.ring[First(r.sorted, h)]

(* How far a position is from a hash, clockwise.                           *)
Distance(h, p) == IF p >= h THEN p - h ELSE p - h + HashSize

(* The first n of the ranked things, the nearest first.                    *)
Nearest(S, rank(_), n) ==
    [i \in 1..(IF n < Cardinality(S) THEN n ELSE Cardinality(S)) |->
        CHOOSE x \in S : Cardinality({y \in S : rank(y) < rank(x)}) = i - 1]

(* Mutant: nodes that were seen are not skipped.                           *)
GetNUnseen(r, h, n) ==
    LET At(p) == Distance(h, p)
        walk == Nearest(r.sorted, At, n)
    IN [i \in DOMAIN walk |-> r.ring[walk[i]]]

(* The walk of GetN: each node where its first position is met. n is no    *)
(* more than the nodes there are.                                          *)
GetN(r, h, n) ==
    LET owners == {r.ring[p] : p \in r.sorted}
        Reach(m) == Least({Distance(h, p) : p \in {q \in r.sorted : r.ring[q] = m}})
        most == Cardinality(r.nodes)
    IN Nearest(owners, Reach, IF n < most THEN n ELSE most)

-----------------------------------------------------------------------------
(* Two nodes have a virtual node with this hash.                           *)
Contested(place, p) == \E m, n \in Nodes : m # n /\ p \in place[m] \cap place[n]

Positions(r, place) == UNION {place[n] : n \in r.nodes}
=============================================================================
