-------------------------- MODULE ShardRoutingProofs --------------------------
(***************************************************************************)
(* Where a key is and who owns it, for any number of shards, nodes and     *)
(* requests, any placement of virtual nodes and any changes of a router.   *)
(***************************************************************************)
EXTENDS ShardRouting, FiniteSetTheorems, SequenceTheorems, WellFoundedInduction, TLAPS

(* A virtual node that collides with no other is in the ring while its     *)
(* node is, and a position belongs to a node that has it.                  *)
RingHolds(r) ==
    /\ \A n \in r.nodes : \A p \in place[n] :
          ~Contested(place, p) => p \in r.sorted /\ r.ring[p] = n
    /\ \A p \in r.sorted : p \in place[r.ring[p]]

RingInv(r) == r.kind = "ring" => RingHolds(r.ring)

(* A key that was never routed has no value; what a request has resolved   *)
(* is a shard its key has been routed to, and so is its present one.       *)
Known == /\ \A k \in Keys : Route(router, k) # NoNode => Route(router, k) \in been[k]
         /\ \A c \in Requests : handle[c] # NoHandle => handle[c].shard \in been[handle[c].key]
         /\ \A k \in Keys : been[k] = {} => latest[k] = 0

IInv == TypeOK /\ RingInv(router) /\ Known /\ Placed

-----------------------------------------------------------------------------
(* Least positions.                                                        *)

LEMMA LeastIs ==
  ASSUME NEW S, S \subseteq Nat, S # {}
  PROVE  Least(S) \in S /\ \A q \in S : Least(S) <= q
<1> DEFINE R == OpToRel(<, Nat)
<1>1. IsWellFoundedOn(R, Nat)
  BY NatLessThanWellFounded, Zenon DEF R
<1>2. \A x, y \in Nat : x < y => <<x, y>> \in R
  BY DEF R, OpToRel
<1> HIDE DEF R
<1>3. PICK x \in S : \A y \in S : ~(<<y, x>> \in R)
  BY <1>1, WFMin
<1>4. ASSUME NEW y \in S PROVE x <= y
  <2>1. x \in Nat /\ y \in Nat
    OBVIOUS
  <2>2. ~(y < x)
    BY <1>2, <1>3, <2>1
  <2> QED BY <2>1, <2>2
<1> QED BY <1>4 DEF Least

LEMMA HashesAreNat == Hashes \subseteq Nat /\ HashSize \in Nat \ {0}
  BY RingAssumption DEF Hashes

LEMMA DistanceType ==
  ASSUME NEW h \in Hashes, NEW p \in Hashes
  PROVE  Distance(h, p) \in Nat
  BY RingAssumption DEF Distance, Hashes

LEMMA DistanceInjective ==
  ASSUME NEW h \in Hashes, NEW p \in Hashes, NEW q \in Hashes, Distance(h, p) = Distance(h, q)
  PROVE  p = q
  BY RingAssumption DEF Distance, Hashes

(* The search finds the nearest position, clockwise.                       *)
LEMMA FirstIsNearest ==
  ASSUME NEW S \in SUBSET Hashes, S # {}, NEW h \in Hashes
  PROVE  /\ First(S, h) \in S
         /\ \A q \in S : Distance(h, First(S, h)) <= Distance(h, q)
<1> DEFINE ahead == {p \in S : p >= h}
<1>1. ahead \subseteq Nat /\ S \subseteq Nat
  BY HashesAreNat
<1>2. CASE ahead # {}
  <2>1. First(S, h) = Least(ahead)
    BY <1>2 DEF First
  <2>2. Least(ahead) \in ahead /\ \A q \in ahead : Least(ahead) <= q
    BY <1>1, <1>2, LeastIs
  <2>3. PICK m : m = First(S, h) /\ m \in S /\ m >= h /\ \A q \in S : q >= h => m <= q
    BY <2>1, <2>2
  <2>4. \A q \in S : Distance(h, m) <= Distance(h, q)
    BY <2>3, RingAssumption DEF Distance, Hashes
  <2> QED BY <2>3, <2>4
<1>3. CASE ahead = {}
  <2>1. First(S, h) = Least(S)
    BY <1>3 DEF First
  <2>2. Least(S) \in S /\ \A q \in S : Least(S) <= q
    BY <1>1, LeastIs
  <2>3. PICK m : m = First(S, h) /\ m \in S /\ \A q \in S : m <= q
    BY <2>1, <2>2
  <2>4. \A q \in S : q < h
    BY <1>3, RingAssumption DEF Hashes
  <2>5. \A q \in S : Distance(h, m) <= Distance(h, q)
    BY <2>3, <2>4, RingAssumption DEF Distance, Hashes
  <2> QED BY <2>3, <2>5
<1> QED BY <1>2, <1>3

LEMMA NearestIsFirst ==
  ASSUME NEW S \in SUBSET Hashes, NEW h \in Hashes, NEW f \in S,
         \A q \in S : Distance(h, f) <= Distance(h, q)
  PROVE  First(S, h) = f
<1>1. First(S, h) \in S /\ Distance(h, First(S, h)) <= Distance(h, f)
  BY FirstIsNearest
<1>2. Distance(h, First(S, h)) = Distance(h, f)
  BY <1>1, DistanceType
<1> QED BY <1>1, <1>2, DistanceInjective

(* A search that loses farther positions finds the same one.               *)
LEMMA FirstOfSubset ==
  ASSUME NEW S \in SUBSET Hashes, NEW T \in SUBSET S, NEW h \in Hashes,
         S # {}, First(S, h) \in T
  PROVE  First(T, h) = First(S, h)
<1>1. \A q \in T : Distance(h, First(S, h)) <= Distance(h, q)
  BY FirstIsNearest
<1> QED BY <1>1, NearestIsFirst

-----------------------------------------------------------------------------
(* The ring.                                                               *)

LEMMA PlaceType ==
  ASSUME place \in Placements
  PROVE  place \in [Nodes -> SUBSET Hashes] /\ \A n \in Nodes : place[n] # {}
  BY RoutingAssumption DEF Placement

LEMMA NewRing ==
  ASSUME place \in Placements, NEW turn \in Turns(Shards)
  PROVE  /\ RingOK(NewConsistentHash(Shards, place, turn))
         /\ RingHolds(NewConsistentHash(Shards, place, turn))
<1> DEFINE r == NewConsistentHash(Shards, place, turn)
           all == UNION {place[n] : n \in Shards}
           Claims(p) == {n \in Shards : p \in place[n]}
           Last(p) == CHOOSE n \in Claims(p) : \A m \in Claims(p) : turn[m] <= turn[n]
           N == Cardinality(Shards)
<1>1. N \in Nat /\ turn \in [Shards -> 1..N]
  <2>1. 0 \in Int /\ ShardCount - 1 \in Int
    BY RoutingAssumption
  <2>2. IsFiniteSet(Shards)
    BY <2>1, FS_Interval DEF Shards
  <2>3. N \in Nat
    BY <2>2, FS_CardinalityType
  <2>4. turn \in [Shards -> 1..N]
    BY DEF Turns
  <2> QED BY <2>3, <2>4
<1>2. Shards \subseteq Nodes /\ place \in [Nodes -> SUBSET Hashes]
  BY PlaceType, RoutingAssumption
<1>3. r = [nodes |-> Shards, ring |-> [p \in all |-> Last(p)], sorted |-> all]
  BY DEF NewConsistentHash
<1>4. ASSUME NEW p \in all PROVE Last(p) \in Claims(p)
  <2> DEFINE left == {N - turn[n] : n \in Claims(p)}
  <2> HIDE DEF N
  <2>1. left \subseteq Nat /\ left # {}
    BY <1>1
  <2>2. PICK n \in Claims(p) : N - turn[n] = Least(left)
    BY <2>1, LeastIs
  <2>3. \A q \in left : Least(left) <= q
    BY <2>1, LeastIs
  <2>4. \A m \in Claims(p) : N - turn[m] \in left
    OBVIOUS
  <2> HIDE DEF left
  <2>5. ASSUME NEW m \in Claims(p) PROVE turn[m] <= turn[n]
    <3>1. N - turn[n] <= N - turn[m]
      BY <2>2, <2>3, <2>4
    <3> QED BY <1>1, <3>1
  <2> QED BY <2>2, <2>5
<1>5. RingOK(r)
  <2>1. all \subseteq Hashes
    BY <1>2
  <2>2. [p \in all |-> Last(p)] \in [all -> Shards]
    BY <1>4
  <2> HIDE DEF Last, all, r
  <2> QED BY <1>2, <1>3, <2>1, <2>2 DEF RingOK
<1>6. ASSUME NEW n \in Shards, NEW p \in place[n], ~Contested(place, p)
      PROVE  p \in all /\ Last(p) = n
  <2>1. p \in all
    OBVIOUS
  <2>2. Last(p) \in Claims(p)
    BY <1>4, <2>1
  <2>3. Claims(p) \subseteq {n}
    BY <1>2, <1>6 DEF Contested
  <2> QED BY <2>1, <2>2, <2>3
<1>7. \A p \in all : p \in place[Last(p)]
  BY <1>4
<1>8. RingHolds(r)
  <2> HIDE DEF Last, all, r
  <2> QED BY <1>3, <1>6, <1>7 DEF RingHolds
<1> QED BY <1>5, <1>8

LEMMA AddKeepsRing ==
  ASSUME place \in Placements, NEW r, RingOK(r), RingHolds(r), NEW n \in Nodes
  PROVE  RingOK(AddTo(r, n, place)) /\ RingHolds(AddTo(r, n, place))
<1>1. CASE n \in r.nodes
  BY <1>1 DEF AddTo
<1>2. CASE n \notin r.nodes
  <2> DEFINE s == AddTo(r, n, place)
             f == [h \in DOMAIN r.ring \cup place[n] |-> IF h \in place[n] THEN n ELSE r.ring[h]]
  <2>1. /\ s = [nodes |-> r.nodes \cup {n}, ring |-> f, sorted |-> r.sorted \cup place[n]]
        /\ DOMAIN r.ring = r.sorted /\ r.ring \in [r.sorted -> r.nodes]
    BY <1>2 DEF AddTo, RingOK
  <2>2. place[n] \subseteq Hashes /\ place \in [Nodes -> SUBSET Hashes]
    BY PlaceType
  <2>3. f \in [r.sorted \cup place[n] -> r.nodes \cup {n}]
    BY <2>1
  <2>4. \A h \in place[n] : f[h] = n
    OBVIOUS
  <2>5. \A h \in r.sorted \ place[n] : f[h] = r.ring[h]
    BY <2>1
  <2> HIDE DEF s, f
  <2>6. RingOK(s)
    BY <2>1, <2>2, <2>3 DEF RingOK
  <2>7. ASSUME NEW m \in r.nodes \cup {n}, NEW p \in place[m], ~Contested(place, p)
        PROVE  p \in r.sorted \cup place[n] /\ f[p] = m
    <3>1. CASE m = n
      BY <2>4, <3>1
    <3>2. CASE m # n
      <4>1. m \in r.nodes /\ m \in Nodes
        BY <3>2 DEF RingOK
      <4>2. p \notin place[n]
        BY <2>7, <3>2, <4>1 DEF Contested
      <4>3. p \in r.sorted /\ r.ring[p] = m
        BY <2>7, <4>1 DEF RingHolds
      <4> QED BY <2>5, <4>2, <4>3
    <3> QED BY <3>1, <3>2
  <2>8. ASSUME NEW p \in r.sorted \cup place[n] PROVE p \in place[f[p]]
    <3>1. CASE p \in place[n]
      BY <2>4, <3>1
    <3>2. CASE p \notin place[n]
      BY <2>5, <3>2 DEF RingHolds
    <3> QED BY <3>1, <3>2
  <2>9. RingHolds(s)
    BY <2>1, <2>7, <2>8 DEF RingHolds
  <2> QED BY <2>6, <2>9 DEF s
<1> QED BY <1>1, <1>2

LEMMA RemoveKeepsRing ==
  ASSUME place \in Placements, NEW r, RingOK(r), RingHolds(r), NEW n \in Nodes
  PROVE  RingOK(RemoveFrom(r, n, place)) /\ RingHolds(RemoveFrom(r, n, place))
<1>1. CASE n \notin r.nodes
  BY <1>1 DEF RemoveFrom
<1>2. CASE n \in r.nodes
  <2> DEFINE s == RemoveFrom(r, n, place)
             f == [h \in DOMAIN r.ring \ place[n] |-> r.ring[h]]
  <2>1. /\ s = [nodes |-> r.nodes \ {n}, ring |-> f, sorted |-> r.sorted \ place[n]]
        /\ DOMAIN r.ring = r.sorted /\ r.ring \in [r.sorted -> r.nodes]
    BY <1>2 DEF RemoveFrom, RingOK
  <2>2. \A h \in r.sorted \ place[n] : f[h] = r.ring[h] /\ r.ring[h] # n
    BY <2>1 DEF RingHolds
  <2>3. f \in [r.sorted \ place[n] -> r.nodes \ {n}]
    BY <2>1, <2>2
  <2> HIDE DEF s, f
  <2>4. RingOK(s)
    BY <2>1, <2>3 DEF RingOK
  <2>5. ASSUME NEW m \in r.nodes \ {n}, NEW p \in place[m], ~Contested(place, p)
        PROVE  p \in r.sorted \ place[n] /\ f[p] = m
    <3>1. p \notin place[n]
      BY <2>5 DEF Contested, RingOK
    <3>2. p \in r.sorted /\ r.ring[p] = m
      BY <2>5 DEF RingHolds
    <3> QED BY <2>2, <3>1, <3>2
  <2>6. \A p \in r.sorted \ place[n] : p \in place[f[p]]
    BY <2>2 DEF RingHolds
  <2>7. RingHolds(s)
    BY <2>1, <2>5, <2>6 DEF RingHolds
  <2> QED BY <2>4, <2>7 DEF s
<1> QED BY <1>1, <1>2

-----------------------------------------------------------------------------
(* Routes.                                                                 *)

LEMMA ShardsAre == Shards \subseteq Nat /\ 0 \in Shards /\ NoNode \notin Shards /\ NoNode = -1
  BY RoutingAssumption DEF Shards

(* Whatever the configuration, a key's shard exists or there is an error.  *)
LEMMA RouteType ==
  ASSUME NEW r, RouterOK(r), NEW k \in Keys
  PROVE  Route(r, k) \in Shards \cup {NoNode}
<1>1. CASE r.kind = "modulus"
  <2>1. r.count \in 1..ShardCount
    BY <1>1 DEF RouterOK
  <2>2. k >= 0 => k % r.count \in 0..(r.count - 1)
    BY <2>1, RoutingAssumption
  <2>3. PickShard(k, r.count) \in Shards \cup {NoNode}
    BY <2>1, <2>2, RoutingAssumption DEF PickShard, Shards
  <2> QED BY <1>1, <2>3 DEF Route
<1>2. CASE r.kind = "range"
  <2> DEFINE t == r.table
             matching == {i \in DOMAIN t : InRange(k, t[i])}
  <2>1. t \in Seq([min : Int, max : Int, shard : Shards])
    BY <1>2, RoutingAssumption DEF RouterOK
  <2> HIDE DEF t
  <2>2. \A i \in DOMAIN t : t[i].shard \in Shards
    <3>1. t \in [1..Len(t) -> [min : Int, max : Int, shard : Shards]]
      BY <2>1, LenProperties
    <3> QED BY <3>1
  <2>3. DOMAIN t \subseteq Nat
    BY <2>1, LenProperties
  <2>4. matching # {} => Least(matching) \in DOMAIN t
    BY <2>3, LeastIs
  <2>5. FirstMatch(k, t) \in Shards \cup {NoNode}
    BY <2>2, <2>4 DEF FirstMatch
  <2> QED BY <1>2, <2>5 DEF Route, t
<1>3. CASE r.kind = "directory"
  BY <1>3 DEF Route, LookUp
<1>4. CASE r.kind = "ring"
  BY <1>4 DEF Route, StoreFor
<1> QED BY <1>1, <1>2, <1>3, <1>4 DEF RouterOK

LEMMA RoutersAreOK ==
  ASSUME place \in Placements, NEW r \in Routers
  PROVE  RouterOK(r) /\ RingInv(r)
<1>1. CASE r \in {ByModulus(n) : n \in 1..ShardCount}
  BY <1>1 DEF ByModulus, RouterOK, RingInv
<1>2. CASE r \in {ByRange(table) : table \in RangeTables \ {<<>>}}
  BY <1>2 DEF ByRange, RouterOK, RingInv
<1>3. CASE r \in {ByDirectory(directory) : directory \in Directories}
  BY <1>3, RoutingAssumption DEF ByDirectory, RouterOK, RingInv
<1>4. ASSUME NEW turn \in Turns(Shards), r = ByRing(NewConsistentHash(Shards, place, turn))
      PROVE  RouterOK(r) /\ RingInv(r)
  BY <1>4, NewRing DEF ByRing, RouterOK, RingInv
<1> QED BY <1>1, <1>2, <1>3, <1>4 DEF Routers

(* A step leaves the router as it is, or changes it to a good one.         *)
LEMMA RouterSteps ==
  ASSUME TypeOK, RingInv(router), [Next]_vars
  PROVE  /\ place' = place
         /\ RouterOK(router') /\ RingInv(router')
         /\ \/ router' = router /\ been' = been
            \/ /\ been' = [k \in Keys |-> been[k] \cup ({Route(router', k)} \ {NoNode})]
               /\ UNCHANGED <<data, latest>>
               /\ handle' \in {handle, [c \in Requests |-> NoHandle]}
<1> USE DEF TypeOK
<1>1. ASSUME router' = router, place' = place, been' = been
      PROVE  /\ RouterOK(router') /\ RingInv(router')
             /\ router' = router /\ been' = been /\ place' = place
  BY <1>1 DEF RouterOK, RingInv
<1>2. ASSUME NEW n \in Nodes, Add(n)
      PROVE  RouterOK(router') /\ RingInv(router')
  <2>1. router.kind = "ring" /\ RingOK(router.ring) /\ RingHolds(router.ring)
    BY <1>2 DEF Add, RouterOK, RingInv
  <2>2. router' = ByRing(AddTo(router.ring, n, place)) /\ place' = place
    BY <1>2 DEF Add, Reroute
  <2>3. RingOK(AddTo(router.ring, n, place)) /\ RingHolds(AddTo(router.ring, n, place))
    BY <2>1, AddKeepsRing
  <2> QED BY <2>2, <2>3 DEF ByRing, RouterOK, RingInv
<1>3. ASSUME NEW n \in Nodes, Remove(n)
      PROVE  RouterOK(router') /\ RingInv(router')
  <2>1. router.kind = "ring" /\ RingOK(router.ring) /\ RingHolds(router.ring)
    BY <1>3 DEF Remove, RouterOK, RingInv
  <2>2. router' = ByRing(RemoveFrom(router.ring, n, place)) /\ place' = place
    BY <1>3 DEF Remove, Reroute
  <2>3. RingOK(RemoveFrom(router.ring, n, place)) /\ RingHolds(RemoveFrom(router.ring, n, place))
    BY <2>1, RemoveKeepsRing
  <2> QED BY <2>2, <2>3 DEF ByRing, RouterOK, RingInv
<1>4. ASSUME NEW k \in Keys, NEW s \in Shards, AssignTenant(k, s)
      PROVE  RouterOK(router') /\ RingInv(router')
  <2> DEFINE old == router.directory
             new == [t \in DOMAIN old \cup {k} |-> IF t = k THEN s ELSE old[t]]
  <2>1. old \in [DOMAIN old -> Int]
    BY <1>4 DEF AssignTenant, RouterOK
  <2>2. new \in [DOMAIN old \cup {k} -> Int]
    BY <2>1, ShardsAre
  <2>3. router' = ByDirectory(new)
    BY <1>4 DEF AssignTenant, Reroute
  <2> HIDE DEF new
  <2> QED BY <2>2, <2>3 DEF ByDirectory, RouterOK, RingInv
<1>5. ASSUME NEW r \in Routers, Restart(r)
      PROVE  RouterOK(router') /\ RingInv(router')
  <2>1. router' = r /\ place' = place
    BY <1>5 DEF Restart, Reroute
  <2> QED BY <2>1, RoutersAreOK DEF RingInv, RingHolds
<1>6. ASSUME NEW c \in Requests, Command(c) \/ \E k \in Keys : Resolve(c, k) \/ Refuse(c, k)
      PROVE  router' = router /\ place' = place /\ been' = been
  BY <1>6 DEF Command, Set, Del, Answer, Resolve, Refuse, vars
<1>7. ASSUME NEW s \in Shards, NEW k \in Keys, Expire(s, k)
      PROVE  router' = router /\ place' = place /\ been' = been
  BY <1>7 DEF Expire
<1>8. UNCHANGED vars => router' = router /\ place' = place /\ been' = been
  BY DEF vars
<1>9. ASSUME NEW n \in Nodes, Add(n) \/ Remove(n)
      PROVE  /\ been' = [k \in Keys |-> been[k] \cup ({Route(router', k)} \ {NoNode})]
             /\ place' = place /\ UNCHANGED <<data, latest>> /\ handle' = handle
  BY <1>9 DEF Add, Remove, Reroute
<1>10. ASSUME NEW k \in Keys, NEW s \in Shards, AssignTenant(k, s)
       PROVE  /\ been' = [t \in Keys |-> been[t] \cup ({Route(router', t)} \ {NoNode})]
              /\ place' = place /\ UNCHANGED <<data, latest>> /\ handle' = handle
  BY <1>10 DEF AssignTenant, Reroute
<1>11. ASSUME NEW r \in Routers, Restart(r)
       PROVE  /\ been' = [k \in Keys |-> been[k] \cup ({Route(router', k)} \ {NoNode})]
              /\ place' = place /\ UNCHANGED <<data, latest>>
              /\ handle' = [c \in Requests |-> NoHandle]
  BY <1>11 DEF Restart, Reroute
<1> QED BY <1>1, <1>2, <1>3, <1>4, <1>5, <1>6, <1>7, <1>8, <1>9, <1>10, <1>11 DEF Next

-----------------------------------------------------------------------------
(* The initial states.                                                     *)

LEMMA InitInv == Init => IInv
<1> SUFFICES ASSUME Init PROVE IInv
  OBVIOUS
<1>1. RouterOK(router) /\ RingInv(router) /\ place \in Placements
  BY RoutersAreOK DEF Init
<1>2. \A k \in Keys : Route(router, k) \in Shards \cup {NoNode}
  BY <1>1, RouteType
<1>3. /\ handle = [c \in Requests |-> NoHandle]
      /\ data = [s \in Shards |-> [k \in Keys |-> 0]]
      /\ latest = [k \in Keys |-> 0]
      /\ been = [k \in Keys |-> {Route(router, k)} \ {NoNode}]
      /\ writes = 0 /\ changes = 0
  BY DEF Init
<1>4. TypeOK
  BY <1>1, <1>2, <1>3 DEF TypeOK
<1>5. Known
  BY <1>3 DEF Known
<1>6. Placed
  BY <1>3 DEF Placed
<1> QED BY <1>1, <1>4, <1>5, <1>6 DEF IInv

-----------------------------------------------------------------------------
(* The steps.                                                              *)

(* The commands and the requests.                                          *)
LEMMA ResolveStep ==
  ASSUME IInv, NEW c \in Requests, NEW k \in Keys, Resolve(c, k)
  PROVE  /\ handle' \in [Requests -> Handles \cup {NoHandle}]
         /\ \A d \in Requests : handle'[d] # NoHandle => handle'[d].shard \in been[handle'[d].key]
<1>1. Route(router, k) \in Shards /\ Route(router, k) \in been[k]
  BY RouteType DEF IInv, TypeOK, Known, Resolve
<1>2. handle' = [handle EXCEPT ![c] = [key |-> k, shard |-> Route(router, k)]]
  BY DEF Resolve
<1>3. handle \in [Requests -> Handles \cup {NoHandle}]
  BY DEF IInv, TypeOK
<1>4. [key |-> k, shard |-> Route(router, k)] \in Handles
  BY <1>1 DEF Handles
<1>5. ASSUME NEW d \in Requests, handle'[d] # NoHandle
      PROVE  handle'[d].shard \in been[handle'[d].key]
  <2>1. CASE d = c
    BY <1>1, <1>2, <1>3, <2>1
  <2>2. CASE d # c
    BY <1>2, <1>3, <1>5, <2>2 DEF IInv, Known
  <2> QED BY <2>1, <2>2
<1> QED BY <1>2, <1>3, <1>4, <1>5

LEMMA HandleOf ==
  ASSUME IInv, NEW c \in Requests, handle[c] # NoHandle
  PROVE  /\ handle[c].key \in Keys /\ handle[c].shard \in Shards
         /\ handle[c].shard \in been[handle[c].key]
  BY DEF IInv, TypeOK, Known, Handles

LEMMA DoneStep ==
  ASSUME IInv, NEW c \in Requests, Done(c)
  PROVE  /\ handle' \in [Requests -> Handles \cup {NoHandle}]
         /\ \A d \in Requests : handle'[d] # NoHandle => handle'[d] = handle[d]
  BY DEF IInv, TypeOK, Done

LEMMA StoreStep ==
  ASSUME IInv, NEW s \in Shards, NEW k \in Keys, s \in been[k], NEW v \in Nat, Store(s, k, v), been' = been
  PROVE  /\ data' \in [Shards -> [Keys -> Nat]] /\ latest' \in [Keys -> Nat]
         /\ \A j \in Keys : been[j] = {} => latest'[j] = 0
         /\ Placed'
<1>1. /\ data \in [Shards -> [Keys -> Nat]] /\ latest \in [Keys -> Nat]
      /\ data' = [data EXCEPT ![s][k] = v] /\ latest' = [latest EXCEPT ![k] = v]
  BY DEF IInv, TypeOK, Store
<1>2. data' \in [Shards -> [Keys -> Nat]] /\ latest' \in [Keys -> Nat]
  BY <1>1
<1>3. \A j \in Keys : been[j] = {} => latest'[j] = 0
  BY <1>1 DEF IInv, Known
<1>4. ASSUME NEW j \in Keys, NEW t \in Shards
      PROVE  /\ data'[t][j] # 0 => t \in been[j]
             /\ been[j] = {t} => data'[t][j] = latest'[j]
  <2>1. CASE j = k /\ t = s
    BY <1>1, <2>1
  <2>2. CASE j = k /\ t # s
    BY <1>1, <2>2 DEF IInv, Placed
  <2>3. CASE j # k
    BY <1>1, <2>3 DEF IInv, Placed
  <2> QED BY <2>1, <2>2, <2>3
<1>5. Placed'
  BY <1>4 DEF Placed
<1> QED BY <1>2, <1>3, <1>5

LEMMA ExpireStep ==
  ASSUME IInv, NEW s \in Shards, NEW k \in Keys, Expire(s, k)
  PROVE  /\ data' \in [Shards -> [Keys -> Nat]] /\ latest' \in [Keys -> Nat]
         /\ \A j \in Keys : been[j] = {} => latest'[j] = 0
         /\ Placed'
<1>1. /\ data \in [Shards -> [Keys -> Nat]] /\ latest \in [Keys -> Nat]
      /\ data' = [data EXCEPT ![s][k] = 0] /\ data[s][k] # 0
      /\ been' = been
  BY DEF IInv, TypeOK, Expire
<1>2. \/ data[s][k] = latest[k] /\ latest' = [latest EXCEPT ![k] = 0]
      \/ data[s][k] # latest[k] /\ latest' = latest
  BY DEF Expire
<1>3. data' \in [Shards -> [Keys -> Nat]] /\ latest' \in [Keys -> Nat]
  BY <1>1, <1>2
<1>4. \A j \in Keys : been[j] = {} => latest'[j] = 0
  BY <1>1, <1>2 DEF IInv, Known
<1>5. ASSUME NEW j \in Keys, NEW t \in Shards
      PROVE  /\ data'[t][j] # 0 => t \in been[j]
             /\ been[j] = {t} => data'[t][j] = latest'[j]
  <2>1. CASE j = k /\ t = s
    BY <1>1, <1>2, <2>1 DEF IInv, Placed
  <2>2. CASE j = k /\ t # s
    <3>1. s \in been[k]
      BY <1>1 DEF IInv, Placed
    <3> QED BY <1>1, <1>2, <2>2, <3>1 DEF IInv, Placed
  <2>3. CASE j # k
    BY <1>1, <1>2, <2>3 DEF IInv, Placed
  <2> QED BY <2>1, <2>2, <2>3
<1>6. Placed'
  BY <1>1, <1>5 DEF Placed
<1> QED BY <1>3, <1>4, <1>6

(* What a change of the router leaves of the histories.                    *)
LEMMA RerouteStep ==
  ASSUME IInv, RouterOK(router'), UNCHANGED <<data, latest>>,
         handle' \in {handle, [c \in Requests |-> NoHandle]},
         been' = [k \in Keys |-> been[k] \cup ({Route(router', k)} \ {NoNode})]
  PROVE  /\ been' \in [Keys -> SUBSET Shards]
         /\ handle' \in [Requests -> Handles \cup {NoHandle}]
         /\ Known' /\ Placed'
<1>1. \A k \in Keys : Route(router', k) \in Shards \cup {NoNode}
  BY RouteType
<1>2. been \in [Keys -> SUBSET Shards] /\ handle \in [Requests -> Handles \cup {NoHandle}]
  BY DEF IInv, TypeOK
<1>3. \A k \in Keys : been[k] \subseteq been'[k]
  OBVIOUS
<1>4. \A k \in Keys : Route(router', k) # NoNode => Route(router', k) \in been'[k]
  OBVIOUS
<1>5. \A c \in Requests : handle'[c] # NoHandle => handle'[c].shard \in been'[handle'[c].key]
  BY <1>3, HandleOf
<1>6. \A k \in Keys : been'[k] = {} => latest'[k] = 0
  BY <1>3 DEF IInv, Known
<1>7. ASSUME NEW k \in Keys, NEW s \in Shards
      PROVE  /\ data'[s][k] # 0 => s \in been'[k]
             /\ been'[k] = {s} => data'[s][k] = latest'[k]
  <2>1. data'[s][k] # 0 => s \in been'[k]
    BY <1>3 DEF IInv, Placed
  <2>2. ASSUME been'[k] = {s} PROVE data[s][k] = latest[k]
    <3>1. CASE been[k] = {s}
      BY <3>1 DEF IInv, Placed
    <3>2. CASE been[k] = {}
      BY <3>2 DEF IInv, Placed, Known
    <3> QED BY <1>3, <2>2, <3>1, <3>2
  <2> QED BY <2>1, <2>2
<1>8. been' \in [Keys -> SUBSET Shards] /\ handle' \in [Requests -> Handles \cup {NoHandle}]
  BY <1>1, <1>2
<1>9. Known'
  BY <1>4, <1>5, <1>6 DEF Known
<1>10. Placed'
  BY <1>7 DEF Placed
<1> QED BY <1>8, <1>9, <1>10

LEMMA StepInv == IInv /\ [Next]_vars => IInv'
<1> SUFFICES ASSUME IInv, [Next]_vars PROVE IInv'
  OBVIOUS
<1>1. /\ place' = place /\ RouterOK(router') /\ RingInv(router')
      /\ \/ router' = router /\ been' = been
         \/ /\ been' = [k \in Keys |-> been[k] \cup ({Route(router', k)} \ {NoNode})]
            /\ UNCHANGED <<data, latest>>
            /\ handle' \in {handle, [c \in Requests |-> NoHandle]}
  BY RouterSteps DEF IInv
<1>2. writes \in Nat /\ changes \in Nat /\ place \in Placements
  BY DEF IInv, TypeOK
<1>3. RingInv(router)' <=> RingInv(router')
  BY <1>1 DEF RingInv, RingHolds
<1>4. ASSUME router' = router, been' = been,
             data' \in [Shards -> [Keys -> Nat]], latest' \in [Keys -> Nat],
             handle' \in [Requests -> Handles \cup {NoHandle}],
             \A d \in Requests : handle'[d] # NoHandle => handle'[d].shard \in been[handle'[d].key],
             \A j \in Keys : been[j] = {} => latest'[j] = 0,
             writes' \in Nat, changes' \in Nat, Placed'
      PROVE  IInv'
  <2>1. Known'
    BY <1>4 DEF Known, IInv
  <2>2. TypeOK'
    BY <1>1, <1>2, <1>4 DEF TypeOK, IInv
  <2> QED BY <1>1, <1>3, <1>4, <2>1, <2>2 DEF IInv
<1>5. ASSUME NEW c \in Requests, NEW k \in Keys, Resolve(c, k) PROVE IInv'
  <2>1. UNCHANGED <<router, data, latest, been, writes, changes>>
    BY <1>5 DEF Resolve
  <2>2. Placed'
    BY <2>1 DEF IInv, Placed
  <2> QED BY <1>2, <1>4, <1>5, <2>1, <2>2, ResolveStep DEF IInv, TypeOK, Known
<1>6. ASSUME NEW c \in Requests, Command(c) PROVE IInv'
  <2>1. Done(c) /\ handle[c] # NoHandle /\ UNCHANGED <<router, been, changes>> /\ writes' \in Nat
    BY <1>2, <1>6 DEF Command, Set, Del, Answer
  <2>2. /\ handle' \in [Requests -> Handles \cup {NoHandle}]
        /\ \A d \in Requests : handle'[d] # NoHandle => handle'[d].shard \in been[handle'[d].key]
    BY <2>1, DoneStep DEF IInv, Known
  <2>3. \/ Store(handle[c].shard, handle[c].key, writes + 1)
        \/ Store(handle[c].shard, handle[c].key, 0)
        \/ UNCHANGED <<data, latest>>
    BY <1>6 DEF Command, Set, Del, Answer
  <2>4. /\ data' \in [Shards -> [Keys -> Nat]] /\ latest' \in [Keys -> Nat]
        /\ \A j \in Keys : been[j] = {} => latest'[j] = 0
        /\ Placed'
    <3>1. CASE Store(handle[c].shard, handle[c].key, writes + 1)
      BY <1>2, <2>1, <3>1, HandleOf, StoreStep
    <3>2. CASE Store(handle[c].shard, handle[c].key, 0)
      BY <2>1, <3>2, HandleOf, StoreStep
    <3>3. CASE UNCHANGED <<data, latest>>
      BY <2>1, <3>3 DEF IInv, TypeOK, Known, Placed
    <3> QED BY <2>3, <3>1, <3>2, <3>3
  <2> QED BY <1>2, <1>4, <2>1, <2>2, <2>4
<1>7. ASSUME NEW s \in Shards, NEW k \in Keys, Expire(s, k) PROVE IInv'
  <2>1. UNCHANGED <<router, handle, been, writes, changes>>
    BY <1>7 DEF Expire
  <2> QED BY <1>2, <1>4, <1>7, <2>1, ExpireStep DEF IInv, TypeOK, Known
<1>8. ASSUME UNCHANGED vars PROVE IInv'
  <2>1. Placed'
    BY <1>8 DEF vars, IInv, Placed
  <2> QED BY <1>2, <1>4, <1>8, <2>1 DEF vars, IInv, TypeOK, Known
<1>9. ASSUME UNCHANGED <<data, latest, writes>>, changes' \in Nat,
             handle' \in {handle, [c \in Requests |-> NoHandle]},
             been' = [k \in Keys |-> been[k] \cup ({Route(router', k)} \ {NoNode})]
      PROVE  IInv'
  <2>1. /\ been' \in [Keys -> SUBSET Shards]
        /\ handle' \in [Requests -> Handles \cup {NoHandle}]
        /\ Known' /\ Placed'
    BY <1>1, <1>9, RerouteStep
  <2>2. TypeOK'
    BY <1>1, <1>2, <1>9, <2>1 DEF TypeOK, IInv
  <2> QED BY <1>1, <1>3, <2>1, <2>2 DEF IInv
<1>10. ASSUME NEW n \in Nodes, Add(n) \/ Remove(n) PROVE IInv'
  BY <1>2, <1>9, <1>10 DEF Add, Remove, Reroute
<1>11. ASSUME NEW k \in Keys, NEW s \in Shards, AssignTenant(k, s) PROVE IInv'
  BY <1>2, <1>9, <1>11 DEF AssignTenant, Reroute
<1>12. ASSUME NEW r \in Routers, Restart(r) PROVE IInv'
  BY <1>2, <1>9, <1>12 DEF Restart, Reroute
<1> QED BY <1>5, <1>6, <1>7, <1>8, <1>10, <1>11, <1>12 DEF Next, Refuse

-----------------------------------------------------------------------------
(* Who owns a hash.                                                        *)

LEMMA OwnerIs ==
  ASSUME NEW r, RingOK(r), NEW h \in Hashes
  PROVE  /\ r.sorted = {} => Owner(r, h) = NoNode
         /\ r.sorted # {} => First(r.sorted, h) \in r.sorted /\ Owner(r, h) = r.ring[First(r.sorted, h)]
<1>1. DOMAIN r.ring = r.sorted /\ r.sorted \in SUBSET Hashes
  BY DEF RingOK
<1> QED BY <1>1, FirstIsNearest DEF Owner

LEMMA NearestOwns == IInv => Clockwise
<1> SUFFICES ASSUME IInv, router.kind = "ring",
                    NEW h \in Hashes, NEW n \in router.ring.nodes, NEW p \in place[n],
                    ~Contested(place, p),
                    \A q \in Positions(router.ring, place) : Distance(h, p) <= Distance(h, q)
             PROVE  Owner(router.ring, h) = n
  BY DEF Clockwise
<1> DEFINE r == router.ring
<1>1. RingOK(r) /\ RingHolds(r)
  BY DEF IInv, TypeOK, RouterOK, RingInv
<1>2. p \in r.sorted /\ r.ring[p] = n
  BY <1>1 DEF RingHolds
<1>3. r.sorted \in SUBSET Hashes /\ r.sorted \subseteq Positions(r, place)
  BY <1>1 DEF RingOK, RingHolds, Positions
<1>4. First(r.sorted, h) = p
  BY <1>2, <1>3, NearestIsFirst
<1> QED BY <1>1, <1>2, <1>4, OwnerIs

LEMMA AddMoves ==
  ASSUME IInv, NEW n \in Nodes, Add(n), NEW h \in Hashes
  PROVE  Stays(h)
<1> DEFINE r == router.ring
           s == router'.ring
<1>1. RingOK(r) /\ RingHolds(r) /\ n \in Nodes \ r.nodes /\ place \in Placements
  BY DEF IInv, TypeOK, RouterOK, RingInv, Add
<1>2. s = AddTo(r, n, place) /\ RingOK(s)
  BY <1>1, AddKeepsRing DEF Add, Reroute, ByRing
<1>3. s.nodes = r.nodes \cup {n} /\ s.sorted = r.sorted \cup place[n]
  BY <1>1, <1>2 DEF AddTo
<1>4. /\ \A p \in place[n] : s.ring[p] = n
      /\ \A p \in r.sorted \ place[n] : s.ring[p] = r.ring[p]
  BY <1>1, <1>2 DEF AddTo, RingOK
<1>5. s.sorted # {} /\ s.sorted \in SUBSET Hashes /\ r.sorted \in SUBSET s.sorted
  BY <1>1, <1>2, <1>3, PlaceType DEF RingOK
<1> DEFINE f == First(s.sorted, h)
<1>6. f \in s.sorted /\ Owner(s, h) = s.ring[f]
  BY <1>2, <1>5, OwnerIs
<1>7. CASE f \in place[n]
  BY <1>1, <1>3, <1>4, <1>6, <1>7 DEF Stays
<1>8. CASE f \notin place[n]
  <2>1. f \in r.sorted
    BY <1>3, <1>6, <1>8
  <2>2. First(r.sorted, h) = f
    BY <1>5, <2>1, FirstOfSubset
  <2>3. Owner(r, h) = r.ring[f]
    BY <1>1, <2>1, <2>2, OwnerIs
  <2> QED BY <1>4, <1>6, <1>8, <2>1, <2>3 DEF Stays
<1> QED BY <1>7, <1>8

LEMMA RemoveMoves ==
  ASSUME IInv, NEW n \in Nodes, Remove(n), NEW h \in Hashes
  PROVE  Stays(h)
<1> DEFINE r == router.ring
           s == router'.ring
<1>1. RingOK(r) /\ RingHolds(r) /\ n \in Nodes /\ n \in r.nodes /\ place \in Placements
  BY DEF IInv, TypeOK, RouterOK, RingInv, Remove
<1>2. s = RemoveFrom(r, n, place) /\ RingOK(s)
  BY <1>1, RemoveKeepsRing DEF Remove, Reroute, ByRing
<1>3. s.nodes = r.nodes \ {n} /\ s.sorted = r.sorted \ place[n]
  BY <1>1, <1>2 DEF RemoveFrom
<1>4. \A p \in r.sorted \ place[n] : s.ring[p] = r.ring[p]
  BY <1>1, <1>2 DEF RemoveFrom, RingOK
<1>5. CASE r.sorted = {}
  <2>1. s.sorted = {}
    BY <1>3, <1>5
  <2> QED BY <1>1, <1>2, <1>5, <2>1, OwnerIs DEF Stays
<1>6. CASE r.sorted # {}
  <2> DEFINE f == First(r.sorted, h)
  <2>1. f \in r.sorted /\ Owner(r, h) = r.ring[f] /\ r.sorted \in SUBSET Hashes
    BY <1>1, <1>6, OwnerIs DEF RingOK
  <2>2. r.ring[f] \in r.nodes /\ f \in place[r.ring[f]] /\ r.nodes \subseteq Nodes
    BY <1>1, <2>1 DEF RingOK, RingHolds
  <2>3. CASE r.ring[f] = n
    BY <1>1, <1>3, <2>1, <2>3 DEF Stays
  <2>4. CASE r.ring[f] # n /\ f \in place[n]
    BY <1>1, <2>2, <2>4 DEF Stays, Contested
  <2>5. CASE f \notin place[n]
    <3>1. f \in s.sorted /\ s.sorted \in SUBSET r.sorted
      BY <1>3, <2>1, <2>5
    <3>2. First(s.sorted, h) = f
      BY <1>6, <2>1, <3>1, FirstOfSubset
    <3>3. Owner(s, h) = s.ring[f]
      BY <1>2, <3>1, <3>2, OwnerIs
    <3> QED BY <1>4, <2>1, <2>5, <3>3 DEF Stays
  <2> QED BY <2>3, <2>4, <2>5
<1> QED BY <1>5, <1>6

-----------------------------------------------------------------------------
(* The walk along the ring.                                                *)

(* How far the walk has to go until it meets a node.                       *)
Reach(r, h, m) == Least({Distance(h, p) : p \in {q \in r.sorted : r.ring[q] = m}})

(* Nodes that have a position; collisions may have taken a node's last one.*)
Owners(r) == {r.ring[p] : p \in r.sorted}

(* Nodes met before a node.                                                *)
Before(r, h, x) == {y \in r.nodes : Reach(r, h, y) < Reach(r, h, x)}

(* Every node has kept a position.                                         *)
Complete(r) == \A m \in r.nodes : \E p \in r.sorted : r.ring[p] = m

LEMMA OwnersReach ==
  ASSUME NEW r, RingOK(r), NEW h \in Hashes, NEW m \in Owners(r)
  PROVE  /\ Reach(r, h, m) \in Nat
         /\ \E p \in r.sorted : r.ring[p] = m /\ Reach(r, h, m) = Distance(h, p)
         /\ \A q \in r.sorted : r.ring[q] = m => Reach(r, h, m) <= Distance(h, q)
<1> DEFINE far == {Distance(h, p) : p \in {q \in r.sorted : r.ring[q] = m}}
<1>1. r.sorted \subseteq Hashes
  BY DEF RingOK
<1>2. far \subseteq Nat
  BY <1>1, DistanceType
<1>3. far # {}
  BY DEF Owners
<1>4. Least(far) \in far /\ \A d \in far : Least(far) <= d
  BY <1>2, <1>3, LeastIs
<1>5. Reach(r, h, m) = Least(far)
  BY DEF Reach
<1> QED BY <1>2, <1>4, <1>5

LEMMA OwnersAreApart ==
  ASSUME NEW r, RingOK(r), NEW h \in Hashes, NEW m \in Owners(r), NEW n \in Owners(r),
         Reach(r, h, m) = Reach(r, h, n)
  PROVE  m = n
<1>1. PICK p \in r.sorted : r.ring[p] = m /\ Reach(r, h, m) = Distance(h, p)
  BY OwnersReach
<1>2. PICK q \in r.sorted : r.ring[q] = n /\ Reach(r, h, n) = Distance(h, q)
  BY OwnersReach
<1>3. p = q
  BY <1>1, <1>2, DistanceInjective DEF RingOK
<1> QED BY <1>1, <1>2, <1>3

LEMMA AllAreOwners ==
  ASSUME NEW r, RingOK(r), Complete(r)
  PROVE  Owners(r) = r.nodes
  BY DEF RingOK, Complete, Owners

LEMMA ReachIs ==
  ASSUME NEW r, RingOK(r), Complete(r), NEW h \in Hashes, NEW m \in r.nodes
  PROVE  /\ Reach(r, h, m) \in Nat
         /\ \E p \in r.sorted : r.ring[p] = m /\ Reach(r, h, m) = Distance(h, p)
         /\ \A q \in r.sorted : r.ring[q] = m => Reach(r, h, m) <= Distance(h, q)
  BY AllAreOwners, OwnersReach

(* No two nodes are met at once.                                           *)
LEMMA ReachInjective ==
  ASSUME NEW r, RingOK(r), Complete(r), NEW h \in Hashes,
         NEW m \in r.nodes, NEW n \in r.nodes, Reach(r, h, m) = Reach(r, h, n)
  PROVE  m = n
  BY AllAreOwners, OwnersAreApart

LEMMA FewOwners ==
  ASSUME NEW r, RingOK(r), IsFiniteSet(r.nodes)
  PROVE  /\ Owners(r) \subseteq r.nodes /\ IsFiniteSet(Owners(r))
         /\ Cardinality(Owners(r)) \in Nat /\ Cardinality(r.nodes) \in Nat
         /\ Cardinality(Owners(r)) <= Cardinality(r.nodes)
<1>1. Owners(r) \subseteq r.nodes
  BY DEF RingOK, Owners
<1>2. IsFiniteSet(Owners(r)) /\ Cardinality(Owners(r)) <= Cardinality(r.nodes)
  BY <1>1, FS_Subset
<1> QED BY <1>1, <1>2, FS_CardinalityType

LEMMA FewNodes ==
  ASSUME NEW r, RingOK(r), Complete(r)
  PROVE  IsFiniteSet(r.nodes) /\ Cardinality(r.nodes) \in Nat
<1>1. IsFiniteSet(Hashes)
  BY RingAssumption, FS_Interval DEF Hashes
<1>2. IsFiniteSet(r.sorted)
  BY <1>1, FS_Subset DEF RingOK
<1>3. r.ring \in Surjection(r.sorted, r.nodes)
  BY DEF RingOK, Complete, Surjection
<1> QED BY <1>2, <1>3, FS_Surjection, FS_CardinalityType

(* How many nodes GetN finds of the n that it is asked for.                *)
Found(r, n) == IF n < Cardinality(Owners(r)) THEN n ELSE Cardinality(Owners(r))

(* The i-th node that the walk meets.                                      *)
Nth(r, h, i) ==
    CHOOSE x \in Owners(r) :
        Cardinality({y \in Owners(r) : Reach(r, h, y) < Reach(r, h, x)}) = i - 1

LEMMA GetNIs ==
  ASSUME NEW r, RingOK(r), IsFiniteSet(r.nodes), NEW h \in Hashes, NEW n \in Nat
  PROVE  GetN(r, h, n) = [i \in 1..Found(r, n) |-> Nth(r, h, i)]
<1> DEFINE O == Owners(r)
           most == Cardinality(r.nodes)
           wanted == IF n < most THEN n ELSE most
<1>1. GetN(r, h, n) =
        [i \in 1..(IF wanted < Cardinality(O) THEN wanted ELSE Cardinality(O)) |->
           CHOOSE x \in O : Cardinality({y \in O : Reach(r, h, y) < Reach(r, h, x)}) = i - 1]
  BY Zenon DEF GetN, Nearest, Reach, Owners
<1>2. (IF wanted < Cardinality(O) THEN wanted ELSE Cardinality(O)) = Found(r, n)
  BY FewOwners DEF Found
<1> HIDE DEF wanted
<1> QED BY <1>1, <1>2, Zenon DEF Nth

LEMMA GetTwo ==
  ASSUME NEW r, RingOK(r), Complete(r), Cardinality(r.nodes) > 1, NEW h \in Hashes
  PROVE  \A i \in 1..2 : GetN(r, h, 2)[i] = CHOOSE x \in r.nodes : Cardinality(Before(r, h, x)) = i - 1
<1>1. Found(r, 2) = 2
  BY AllAreOwners, FewNodes DEF Found
<1>2. \A i \in 1..2 : GetN(r, h, 2)[i] = Nth(r, h, i)
  BY <1>1, FewNodes, GetNIs
<1> DEFINE O == Owners(r)
<1>3. \A i : Nth(r, h, i) = CHOOSE x \in O : Cardinality({y \in O : Reach(r, h, y) < Reach(r, h, x)}) = i - 1
  BY Zenon DEF Nth
<1>4. O = r.nodes
  BY AllAreOwners
<1> HIDE DEF O
<1>5. \A i : Nth(r, h, i) = CHOOSE x \in r.nodes : Cardinality(Before(r, h, x)) = i - 1
  BY <1>3, <1>4, Zenon DEF Before
<1> QED BY <1>2, <1>5

LEMMA RemovePromotes ==
  ASSUME IInv, NEW n \in Nodes, Remove(n), NEW h \in Hashes,
         \A p \in Hashes : ~Contested(place, p),
         Cardinality(router.ring.nodes) > 1, Owner(router.ring, h) = n
  PROVE  Owner(router'.ring, h) = GetN(router.ring, h, 2)[2]
<1> DEFINE r == router.ring
           s == router'.ring
<1>1. RingOK(r) /\ RingHolds(r) /\ n \in r.nodes /\ place \in Placements
  BY DEF IInv, TypeOK, RouterOK, RingInv, Remove
<1>2. s = RemoveFrom(r, n, place) /\ RingOK(s)
  BY <1>1, RemoveKeepsRing DEF Remove, Reroute, ByRing
<1>3. /\ s.sorted = r.sorted \ place[n]
      /\ \A p \in s.sorted : s.ring[p] = r.ring[p]
  BY <1>1, <1>2 DEF RemoveFrom, RingOK
<1>4. /\ r.nodes \subseteq Nodes /\ r.sorted \in SUBSET Hashes /\ s.sorted \in SUBSET Hashes
      /\ \A p \in r.sorted : r.ring[p] \in r.nodes /\ p \in place[r.ring[p]]
  BY <1>1, <1>2 DEF RingOK, RingHolds
<1>5. ASSUME NEW p \in r.sorted PROVE p \in place[n] <=> r.ring[p] = n
  BY <1>4 DEF Contested
<1>6. Complete(r)
  <2> SUFFICES ASSUME NEW m \in r.nodes PROVE \E p \in r.sorted : r.ring[p] = m
    BY DEF Complete
  <2>1. PICK p \in Hashes : p \in place[m]
    BY <1>1, <1>4, PlaceType
  <2> QED BY <1>1, <2>1 DEF RingHolds
<1>7. PICK m \in r.nodes : m # n
  <2>1. ~(r.nodes = {n})
    BY FS_Singleton
  <2> QED BY <1>1, <2>1
<1>8. r.sorted # {} /\ s.sorted # {}
  BY <1>3, <1>5, <1>6, <1>7 DEF Complete
<1> DEFINE f == First(r.sorted, h)
           g == First(s.sorted, h)
           next == r.ring[g]
<1>9. f \in r.sorted /\ r.ring[f] = n /\ \A q \in r.sorted : Distance(h, f) <= Distance(h, q)
  BY <1>1, <1>4, <1>8, OwnerIs, FirstIsNearest
<1>10. g \in s.sorted /\ Owner(s, h) = s.ring[g] /\ \A q \in s.sorted : Distance(h, g) <= Distance(h, q)
  BY <1>2, <1>4, <1>8, OwnerIs, FirstIsNearest
<1>11. next \in r.nodes /\ next # n /\ Owner(s, h) = next
  BY <1>3, <1>4, <1>5, <1>10
<1> HIDE DEF r, s, f, g, next
<1>12. ASSUME NEW y \in r.nodes \ {n} PROVE Reach(r, h, n) < Reach(r, h, y)
  <2>1. Reach(r, h, n) <= Distance(h, f)
    BY <1>1, <1>6, <1>9, ReachIs
  <2>2. PICK q \in r.sorted : r.ring[q] = y /\ Reach(r, h, y) = Distance(h, q)
    BY <1>1, <1>6, ReachIs
  <2>3. Reach(r, h, n) \in Nat /\ Distance(h, q) \in Nat /\ Distance(h, f) \in Nat
    BY <1>1, <1>4, <1>6, <1>9, ReachIs, DistanceType
  <2>4. Reach(r, h, n) # Reach(r, h, y)
    BY <1>1, <1>6, ReachInjective
  <2> QED BY <1>9, <2>1, <2>2, <2>3, <2>4
<1>13. ASSUME NEW y \in r.nodes \ {n, next} PROVE Reach(r, h, next) < Reach(r, h, y)
  <2>1. Reach(r, h, next) <= Distance(h, g)
    BY <1>1, <1>3, <1>6, <1>10, <1>11, ReachIs DEF next
  <2>2. PICK q \in r.sorted : r.ring[q] = y /\ Reach(r, h, y) = Distance(h, q)
    BY <1>1, <1>6, ReachIs
  <2>3. q \in s.sorted
    BY <1>3, <1>5, <2>2
  <2>4. Reach(r, h, next) \in Nat /\ Distance(h, q) \in Nat /\ Distance(h, g) \in Nat
    BY <1>1, <1>4, <1>6, <1>10, <1>11, <2>3, ReachIs, DistanceType
  <2>5. Reach(r, h, next) # Reach(r, h, y)
    BY <1>1, <1>6, <1>11, ReachInjective
  <2> QED BY <1>10, <2>1, <2>2, <2>3, <2>4, <2>5
<1>14. \A y \in r.nodes : Reach(r, h, y) \in Nat
  BY <1>1, <1>6, ReachIs
<1>15. Cardinality(Before(r, h, next)) = 1
  <2>1. Before(r, h, next) = {n}
    BY <1>1, <1>11, <1>12, <1>13, <1>14 DEF Before
  <2> QED BY <2>1, FS_Singleton
<1>16. ASSUME NEW x \in r.nodes \ {next} PROVE Cardinality(Before(r, h, x)) # 1
  <2>1. CASE x = n
    <3>1. Before(r, h, x) = {}
      BY <1>12, <1>14, <2>1 DEF Before
    <3> QED BY <3>1, FS_EmptySet
  <2>2. CASE x # n
    <3>1. n \in Before(r, h, x) /\ next \in Before(r, h, x)
      BY <1>1, <1>11, <1>12, <1>13, <2>2 DEF Before
    <3>2. IsFiniteSet(Before(r, h, x))
      BY <1>1, <1>6, FewNodes, FS_Subset DEF Before
    <3> QED BY <1>11, <3>1, <3>2, FS_Singleton
  <2> QED BY <2>1, <2>2
<1>17. (CHOOSE x \in r.nodes : Cardinality(Before(r, h, x)) = 2 - 1) = next
  BY <1>11, <1>15, <1>16
<1>18. GetN(r, h, 2)[2] = CHOOSE x \in r.nodes : Cardinality(Before(r, h, x)) = 2 - 1
  BY <1>1, <1>6, GetTwo DEF r
<1>19. GetN(r, h, 2)[2] = next
  BY <1>17, <1>18
<1> QED BY <1>11, <1>19 DEF r, s

-----------------------------------------------------------------------------
(* Counting by rank.                                                       *)

(* A finite set whose members are ranked apart.                            *)
Lower(S, rank, x) == {y \in S : rank[y] < rank[x]}

RankedApart(S, rank) == /\ IsFiniteSet(S) /\ rank \in [S -> Nat]
                        /\ \A x, y \in S : rank[x] = rank[y] => x = y

LEMMA RankCount ==
  ASSUME NEW S, NEW rank, RankedApart(S, rank), NEW x \in S
  PROVE  /\ IsFiniteSet(Lower(S, rank, x))
         /\ Cardinality(Lower(S, rank, x)) \in Nat
         /\ Cardinality(S) \in Nat
         /\ Cardinality(Lower(S, rank, x)) < Cardinality(S)
<1> DEFINE L == Lower(S, rank, x)
<1>1. L \subseteq S /\ x \notin L /\ IsFiniteSet(S)
  BY DEF Lower, RankedApart
<1> HIDE DEF L
<1>2. IsFiniteSet(L) /\ Cardinality(L) <= Cardinality(S) /\ Cardinality(L) # Cardinality(S)
  BY <1>1, FS_Subset
<1>3. Cardinality(L) \in Nat /\ Cardinality(S) \in Nat
  BY <1>1, <1>2, FS_CardinalityType
<1> QED BY <1>2, <1>3 DEF L

LEMMA RankLess ==
  ASSUME NEW S, NEW rank, RankedApart(S, rank), NEW x \in S, NEW z \in S
  PROVE  Cardinality(Lower(S, rank, x)) < Cardinality(Lower(S, rank, z)) <=> rank[x] < rank[z]
<1>1. ASSUME NEW v \in S, NEW w \in S, rank[v] < rank[w]
      PROVE  Cardinality(Lower(S, rank, v)) < Cardinality(Lower(S, rank, w))
  <2>1. Lower(S, rank, v) \subseteq Lower(S, rank, w) /\ v \in Lower(S, rank, w) /\ v \notin Lower(S, rank, v)
    BY <1>1 DEF Lower, RankedApart
  <2>2. /\ Cardinality(Lower(S, rank, v)) <= Cardinality(Lower(S, rank, w))
        /\ Cardinality(Lower(S, rank, v)) # Cardinality(Lower(S, rank, w))
    BY <2>1, RankCount, FS_Subset
  <2>3. Cardinality(Lower(S, rank, v)) \in Nat /\ Cardinality(Lower(S, rank, w)) \in Nat
    BY RankCount
  <2> QED BY <2>2, <2>3
<1>2. rank[x] \in Nat /\ rank[z] \in Nat /\ (rank[x] = rank[z] => x = z)
  BY DEF RankedApart
<1>3. Cardinality(Lower(S, rank, x)) \in Nat /\ Cardinality(Lower(S, rank, z)) \in Nat
  BY RankCount
<1>4. rank[x] < rank[z] => Cardinality(Lower(S, rank, x)) < Cardinality(Lower(S, rank, z))
  BY <1>1
<1>5. rank[z] < rank[x] => Cardinality(Lower(S, rank, z)) < Cardinality(Lower(S, rank, x))
  BY <1>1
<1>6. rank[x] = rank[z] => Cardinality(Lower(S, rank, z)) = Cardinality(Lower(S, rank, x))
  BY <1>2
<1> QED BY <1>2, <1>3, <1>4, <1>5, <1>6

(* Below its size, each number counts the members before some member: the  *)
(* counts are as many as the members, and no two are the same.             *)
LEMMA RankIsOnto ==
  ASSUME NEW S, NEW rank, RankedApart(S, rank), NEW k \in Nat, k < Cardinality(S)
  PROVE  \E x \in S : Cardinality(Lower(S, rank, x)) = k
<1> DEFINE N == Cardinality(S)
           f == [x \in S |-> Cardinality(Lower(S, rank, x))]
<1>1. IsFiniteSet(S) /\ N \in Nat /\ N > 0
  BY FS_CardinalityType DEF RankedApart
<1> HIDE DEF N
<1>2. \A x \in S : Cardinality(Lower(S, rank, x)) \in 0..(N - 1)
  BY <1>1, RankCount DEF N
<1>3. f \in [S -> 0..(N - 1)]
  BY <1>2
<1>4. \A x, z \in S : f[x] = f[z] => x = z
  <2> SUFFICES ASSUME NEW x \in S, NEW z \in S, f[x] = f[z] PROVE x = z
    OBVIOUS
  <2>1. Cardinality(Lower(S, rank, x)) = Cardinality(Lower(S, rank, z))
    BY Zenon
  <2>2. Cardinality(Lower(S, rank, x)) \in Nat
    BY RankCount
  <2>3. /\ ~(Cardinality(Lower(S, rank, x)) < Cardinality(Lower(S, rank, z)))
        /\ ~(Cardinality(Lower(S, rank, z)) < Cardinality(Lower(S, rank, x)))
    BY <2>1, <2>2
  <2>4. ~(rank[x] < rank[z]) /\ ~(rank[z] < rank[x])
    BY <2>3, RankLess
  <2> QED BY <2>4 DEF RankedApart
<1> HIDE DEF f
<1>5. f \in Injection(S, 0..(N - 1))
  BY <1>3, <1>4 DEF Injection, IsInjective
<1>6. IsFiniteSet(0..(N - 1)) /\ Cardinality(0..(N - 1)) = N
  <2>1. 0 \in Int /\ N - 1 \in Int /\ ~(0 > N - 1) /\ N - 1 - 0 + 1 = N
    BY <1>1
  <2> QED BY <2>1, FS_Interval
<1>7. f \in Surjection(S, 0..(N - 1))
  BY <1>5, <1>6, FS_Injection DEF N
<1>8. PICK x \in S : f[x] = k
  BY <1>1, <1>7 DEF Surjection, N
<1> QED BY <1>8 DEF f

(* So the first members by their counts are the first by their ranks.      *)
LEMMA RankSorted ==
  ASSUME NEW S, NEW rank, RankedApart(S, rank), NEW size \in Nat, size <= Cardinality(S), NEW w,
         \A i \in 1..size : w[i] = CHOOSE x \in S : Cardinality(Lower(S, rank, x)) = i - 1
  PROVE  /\ \A i \in 1..size : w[i] \in S /\ Cardinality(Lower(S, rank, w[i])) = i - 1
         /\ \A i, j \in 1..size : i < j => rank[w[i]] < rank[w[j]]
         /\ \A x \in S : (\A i \in 1..size : w[i] # x) => \A i \in 1..size : rank[w[i]] < rank[x]
<1>0. Cardinality(S) \in Nat
  BY FS_CardinalityType DEF RankedApart
<1>1. ASSUME NEW i \in 1..size
      PROVE  w[i] \in S /\ Cardinality(Lower(S, rank, w[i])) = i - 1
  <2>1. i - 1 \in Nat /\ i - 1 < Cardinality(S)
    BY <1>0
  <2> QED BY <2>1, RankIsOnto
<1>2. ASSUME NEW i \in 1..size, NEW j \in 1..size, i < j
      PROVE  rank[w[i]] < rank[w[j]]
  BY <1>1, <1>2, RankLess
<1>3. ASSUME NEW x \in S, \A i \in 1..size : w[i] # x, NEW i \in 1..size
      PROVE  rank[w[i]] < rank[x]
  <2> DEFINE k == Cardinality(Lower(S, rank, x))
  <2>1. k \in Nat
    BY RankCount
  <2> HIDE DEF k
  <2>2. ~(k < size)
    <3> SUFFICES ASSUME k < size PROVE FALSE
      OBVIOUS
    <3>1. k + 1 \in 1..size /\ (k + 1) - 1 = k
      BY <2>1
    <3>2. w[k + 1] \in S /\ Cardinality(Lower(S, rank, w[k + 1])) = k
      BY <1>1, <3>1
    <3>3. ~(rank[x] < rank[w[k + 1]]) /\ ~(rank[w[k + 1]] < rank[x])
      BY <2>1, <3>2, RankLess DEF k
    <3>4. w[k + 1] = x
      BY <3>2, <3>3 DEF RankedApart
    <3> QED BY <1>3, <3>1, <3>4
  <2>3. i - 1 < k
    BY <2>1, <2>2
  <2> QED BY <1>1, <2>3, RankLess DEF k
<1> QED BY <1>1, <1>2, <1>3

-----------------------------------------------------------------------------
(* The walk for any number of nodes.                                       *)

(* "GetN returns up to n distinct nodes for the given key, in ring order"  *)
(* (consistent_hash.go:136): the n nearest nodes clockwise, or all if they *)
(* are fewer, the nearest first, which is the owner. Only a node that has  *)
(* lost all its positions to others is passed over.                        *)
RingOrder ==
    router.kind = "ring" =>
        \A h \in Hashes, n \in Nat :
            LET r == router.ring
                found == GetN(r, h, n)
                size == Found(r, n)
            IN /\ found \in [1..size -> Owners(r)]
               /\ \A i, j \in 1..size : i < j => Reach(r, h, found[i]) < Reach(r, h, found[j])
               /\ \A m \in Owners(r) : (\A i \in 1..size : found[i] # m)
                                        => \A i \in 1..size : Reach(r, h, found[i]) < Reach(r, h, m)
               /\ size > 0 => found[1] = Owner(r, h)

LEMMA WalkInOrder ==
  ASSUME router.kind = "ring", RingOK(router.ring), IsFiniteSet(router.ring.nodes)
  PROVE  RingOrder
<1> SUFFICES ASSUME NEW h \in Hashes, NEW n \in Nat
             PROVE LET r == router.ring
                       found == GetN(r, h, n)
                       size == Found(r, n)
                   IN /\ found \in [1..size -> Owners(r)]
                      /\ \A i, j \in 1..size : i < j => Reach(r, h, found[i]) < Reach(r, h, found[j])
                      /\ \A m \in Owners(r) : (\A i \in 1..size : found[i] # m)
                                        => \A i \in 1..size : Reach(r, h, found[i]) < Reach(r, h, m)
                      /\ size > 0 => found[1] = Owner(r, h)
  BY DEF RingOrder
<1> DEFINE r == router.ring
           O == Owners(r)
           found == GetN(r, h, n)
           size == Found(r, n)
           rank == [m \in O |-> Reach(r, h, m)]
<1>0. RingOK(r) /\ IsFiniteSet(r.nodes)
  OBVIOUS
<1> HIDE DEF r
<1>1. /\ O \subseteq r.nodes /\ IsFiniteSet(O) /\ Cardinality(O) \in Nat
      /\ size \in Nat /\ size <= Cardinality(O)
  BY <1>0, FewOwners DEF Found
<1>2. \A m \in O : rank[m] = Reach(r, h, m) /\ Reach(r, h, m) \in Nat
  BY <1>0, OwnersReach
<1>3. found = [i \in 1..size |-> Nth(r, h, i)]
  BY <1>0, GetNIs, Zenon
<1>4. RankedApart(O, rank)
  <2>1. rank \in [O -> Nat]
    BY <1>2
  <2>2. \A x, y \in O : rank[x] = rank[y] => x = y
    BY <1>0, <1>2, OwnersAreApart
  <2> QED BY <1>1, <2>1, <2>2 DEF RankedApart
<1>5. \A x \in O : Lower(O, rank, x) = {y \in O : Reach(r, h, y) < Reach(r, h, x)}
  BY DEF Lower
<1> HIDE DEF O, rank, size, found
<1>5a. ASSUME NEW i \in 1..size
       PROVE  Nth(r, h, i) = CHOOSE x \in O : Cardinality(Lower(O, rank, x)) = i - 1
  <2>1. Nth(r, h, i) =
          CHOOSE x \in O : Cardinality({y \in O : Reach(r, h, y) < Reach(r, h, x)}) = i - 1
    BY Zenon DEF Nth, O
  <2> QED BY <1>5, <2>1
<1>6. \A i \in 1..size : found[i] = CHOOSE x \in O : Cardinality(Lower(O, rank, x)) = i - 1
  BY <1>3, <1>5a
<1>7. /\ \A i \in 1..size : found[i] \in O /\ Cardinality(Lower(O, rank, found[i])) = i - 1
      /\ \A i, j \in 1..size : i < j => rank[found[i]] < rank[found[j]]
      /\ \A x \in O : (\A i \in 1..size : found[i] # x) => \A i \in 1..size : rank[found[i]] < rank[x]
  BY <1>1, <1>4, <1>6, RankSorted
<1>8. found \in [1..size -> O]
  BY <1>3, <1>7
<1>9. \A i, j \in 1..size : i < j => Reach(r, h, found[i]) < Reach(r, h, found[j])
  BY <1>2, <1>7
<1>10. \A m \in O : (\A i \in 1..size : found[i] # m)
                     => \A i \in 1..size : Reach(r, h, found[i]) < Reach(r, h, m)
  BY <1>2, <1>7
<1>11. ASSUME size > 0 PROVE found[1] = Owner(r, h)
  <2> DEFINE o == Owner(r, h)
             f == First(r.sorted, h)
  <2>1. 1 \in 1..size
    BY <1>1, <1>11
  <2>2. found[1] \in O /\ r.sorted # {}
    BY <1>7, <2>1 DEF O, Owners
  <2>3. r.sorted \in SUBSET Hashes
    BY <1>0 DEF RingOK
  <2>4. f \in r.sorted /\ o = r.ring[f] /\ \A q \in r.sorted : Distance(h, f) <= Distance(h, q)
    BY <1>0, <2>2, <2>3, OwnerIs, FirstIsNearest
  <2>5. o \in O /\ Reach(r, h, o) <= Distance(h, f)
    BY <1>0, <2>4, OwnersReach DEF O, Owners
  <2>6. PICK q \in r.sorted : r.ring[q] = found[1] /\ Reach(r, h, found[1]) = Distance(h, q)
    BY <1>0, <2>2, OwnersReach DEF O
  <2>7. Reach(r, h, o) <= Reach(r, h, found[1])
    BY <1>2, <2>2, <2>3, <2>4, <2>5, <2>6, DistanceType
  <2> HIDE DEF o, f
  <2>8. ASSUME o # found[1] PROVE FALSE
    <3>1. Reach(r, h, found[1]) < Reach(r, h, o)
      <4>1. CASE \E i \in 1..size : found[i] = o
        <5>1. PICK i \in 1..size : found[i] = o
          BY <4>1
        <5>2. 1 < i
          BY <2>8, <5>1
        <5> QED BY <1>9, <2>1, <5>1, <5>2
      <4>2. CASE \A i \in 1..size : found[i] # o
        BY <1>10, <2>1, <2>5, <4>2
      <4> QED BY <4>1, <4>2
    <3> QED BY <1>2, <2>2, <2>5, <2>7, <3>1
  <2> QED BY <2>8 DEF o
<1> QED BY <1>8, <1>9, <1>10, <1>11 DEF O, size, found, r

(* The ring has finitely many nodes, so that they can be counted.          *)
NodesFinite(r) == r.kind = "ring" => IsFiniteSet(r.ring.nodes)

LEMMA RoutersAreFinite ==
  ASSUME NEW r \in Routers
  PROVE  NodesFinite(r)
<1>1. IsFiniteSet(Shards)
  <2>1. 0 \in Int /\ ShardCount - 1 \in Int
    BY RoutingAssumption
  <2> QED BY <2>1, FS_Interval DEF Shards
<1>2. ASSUME NEW turn \in Turns(Shards), r = ByRing(NewConsistentHash(Shards, place, turn))
      PROVE  NodesFinite(r)
  BY <1>1, <1>2 DEF ByRing, NewConsistentHash, NodesFinite
<1> QED BY <1>2 DEF Routers, ByModulus, ByRange, ByDirectory, NodesFinite

(* A ring has finitely many nodes: those of its start and one for an Add.  *)
LEMMA NodesStayFinite ==
  ASSUME NodesFinite(router), [Next]_vars
  PROVE  NodesFinite(router')
<1>1. router' = router => NodesFinite(router')
  OBVIOUS
<1>2. ASSUME NEW n \in Nodes, Add(n) PROVE NodesFinite(router')
  BY <1>2, FS_AddElement DEF Add, Reroute, ByRing, AddTo, NodesFinite
<1>3. ASSUME NEW n \in Nodes, Remove(n) PROVE NodesFinite(router')
  BY <1>3, FS_RemoveElement DEF Remove, Reroute, ByRing, RemoveFrom, NodesFinite
<1>4. ASSUME NEW k \in Keys, NEW s \in Shards, AssignTenant(k, s) PROVE NodesFinite(router')
  BY <1>4 DEF AssignTenant, Reroute, ByDirectory, NodesFinite
<1>5. ASSUME NEW r \in Routers, Restart(r) PROVE NodesFinite(router')
  BY <1>5, RoutersAreFinite DEF Restart, Reroute
<1>6. ASSUME NEW c \in Requests, Command(c) \/ \E k \in Keys : Resolve(c, k) \/ Refuse(c, k)
      PROVE  router' = router
  BY <1>6 DEF Command, Set, Del, Answer, Resolve, Refuse, vars
<1>7. ASSUME NEW s \in Shards, NEW k \in Keys, Expire(s, k) PROVE router' = router
  BY <1>7 DEF Expire
<1>8. UNCHANGED vars => router' = router
  BY DEF vars
<1> QED BY <1>1, <1>2, <1>3, <1>4, <1>5, <1>6, <1>7, <1>8 DEF Next

-----------------------------------------------------------------------------
(* The theorems.                                                           *)

(* The inductive invariant holds in every state.                           *)
THEOREM Invariant == Spec => []IInv
  BY InitInv, StepInv, PTL DEF Spec

(* No router ever names a shard that does not exist, and the two views of  *)
(* the ring agree.                                                         *)
THEOREM TypeCorrect == Spec => []TypeOK
<1>1. IInv => TypeOK
  BY DEF IInv
<1> QED BY <1>1, Invariant, PTL

(* Values are only where their key has been routed to, and a key that has  *)
(* had one shard is up to date there.                                      *)
THEOREM KeysArePlaced == Spec => []Placed
<1>1. IInv => Placed
  BY DEF IInv
<1> QED BY <1>1, Invariant, PTL

(* The owner of a hash depends on the present nodes alone.                 *)
THEOREM OwnerIsClockwise == Spec => []Clockwise
  BY Invariant, NearestOwns, PTL

(* No change of the ring moves a hash between two nodes that stay.         *)
THEOREM MovesAreMinimal == Spec => OnlyItsKeysMove
<1>1. IInv => (router.kind = "ring" /\ (\E n \in Nodes : Add(n) \/ Remove(n))
                 => \A h \in Hashes : Stays(h))
  BY AddMoves, RemoveMoves
<1> QED BY <1>1, Invariant, PTL DEF OnlyItsKeysMove
(* The keys of a node that is removed go to the second of the two nodes    *)
(* that the walk from the key finds.                                       *)
THEOREM NextNodeTakesOver == Spec => NextInLine
<1>1. IInv => (\A n \in Nodes, h \in Hashes :
                 /\ Remove(n)
                 /\ \A p \in Hashes : ~Contested(place, p)
                 /\ Cardinality(router.ring.nodes) > 1
                 /\ Owner(router.ring, h) = n
                 => Owner(router'.ring, h) = GetN(router.ring, h, 2)[2])
  BY RemovePromotes
<1> QED BY <1>1, Invariant, PTL DEF NextInLine

(* GetN finds the nodes in the order of the ring, whatever collides.       *)
THEOREM ReplicasInRingOrder == Spec => []RingOrder
<1>1. Init => NodesFinite(router)
  BY RoutersAreFinite DEF Init
<1>2. NodesFinite(router) /\ [Next]_vars => NodesFinite(router)'
  BY NodesStayFinite DEF NodesFinite
<1>3. IInv /\ NodesFinite(router) => RingOrder
  <2>1. CASE router.kind = "ring"
    BY <2>1, WalkInOrder DEF IInv, TypeOK, RouterOK, NodesFinite
  <2> QED BY <2>1 DEF RingOrder
<1> QED BY <1>1, <1>2, <1>3, Invariant, PTL DEF Spec
=============================================================================
