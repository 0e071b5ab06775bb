---------------------------- MODULE ShardRouting ----------------------------
(***************************************************************************)
(* A key is routed to a shard and then a command goes to that shard. Steps *)
(* 7 and 8 have four routers: by modulus (PickShard, TenantIDResolver), by *)
(* range, by a directory, and by a ring. A request resolves its key under  *)
(* the router's read lock and uses the shard after it has released it; the *)
(* directory and the ring change under the write lock.                     *)
(* Keys are numbers: the id of a tenant, or the CRC32 of a cache key.      *)
(***************************************************************************)
EXTENDS ConsistentHash, Sequences

CONSTANTS Keys,         \* keys that requests use
          ShardCount,   \* shards are 0..ShardCount-1
          Placements,   \* where the virtual nodes of the nodes can be
          RangeTables,  \* configurations of RangeResolver
          Directories,  \* and of DirectoryResolver
          Requests,
          MaxWrites, MaxChanges  \* bounds: commands that write, changes of a router

Shards == 0..(ShardCount - 1)

ASSUME RoutingAssumption == /\ ShardCount \in Nat \ {0}
                            /\ Keys \subseteq Int
                            /\ Shards \subseteq Nodes /\ NoNode = -1
                            /\ Placements \subseteq Placement
                            /\ RangeTables \subseteq Seq([min : Int, max : Int, shard : Shards])
                            /\ \A directory \in Directories : directory \in [DOMAIN directory -> Int]
                            /\ MaxWrites \in Nat /\ MaxChanges \in Nat

VARIABLES place,    \* where the hash function puts the virtual nodes
          router,   \* the router's kind and its configuration
          handle,   \* the key and the shard that each request has resolved
          data,     \* the value of each key in each shard, 0 for none
          latest,   \* history: the value last written for each key
          been,     \* history: the shards that each key has been routed to
          writes, changes

vars == <<place, router, handle, data, latest, been, writes, changes>>

NoHandle == [key |-> 0, shard |-> NoNode]
Handles == [key : Keys, shard : Shards]

-----------------------------------------------------------------------------
(* The routers. An error is NoNode.                                        *)

ByModulus(count) == [kind |-> "modulus", count |-> count]
ByRange(table) == [kind |-> "range", table |-> table]
ByDirectory(directory) == [kind |-> "directory", directory |-> directory]
ByRing(ring) == [kind |-> "ring", ring |-> ring]

(* PickShard, and TenantIDResolver, which refuses a negative id.           *)
PickShard(k, count) == IF k < 0 THEN NoNode ELSE k % count

InRange(k, range) == k >= range.min /\ (range.max < 0 \/ k <= range.max)

(* RangeResolver: the first range that matches.                            *)
FirstMatch(k, table) ==
    LET matching == {i \in DOMAIN table : InRange(k, table[i])}
    IN IF matching = {} THEN NoNode ELSE table[Least(matching)].shard

(* Mutant: indices are not checked.                                        *)
LookUpUnchecked(k, directory) == IF k \in DOMAIN directory THEN directory[k] ELSE NoNode

(* DirectoryResolver: the directory it was given may have wrong indices.   *)
LookUp(k, directory) ==
    IF k \in DOMAIN directory /\ directory[k] \in Shards THEN directory[k] ELSE NoNode

(* ConsistentHashStore: the ring may have nodes that it has no store for.  *)
StoreFor(k, ring) == IF Owner(ring, k) \in Shards THEN Owner(ring, k) ELSE NoNode

Route(r, k) == CASE r.kind = "modulus" -> PickShard(k, r.count)
                 [] r.kind = "range" -> FirstMatch(k, r.table)
                 [] r.kind = "directory" -> LookUp(k, r.directory)
                 [] r.kind = "ring" -> StoreFor(k, r.ring)

(* What the constructors accept.                                           *)
Routers == {ByModulus(n) : n \in 1..ShardCount}
           \cup {ByRange(table) : table \in RangeTables \ {<<>>}}
           \cup {ByDirectory(directory) : directory \in Directories}
           \cup {ByRing(NewConsistentHash(Shards, place, turn)) : turn \in Turns(Shards)}

Init == /\ place \in Placements
        /\ router \in Routers
        /\ handle = [c \in Requests |-> NoHandle]
        /\ data = [s \in Shards |-> [k \in Keys |-> 0]]
        /\ latest = [k \in Keys |-> 0]
        /\ been = [k \in Keys |-> {Route(router, k)} \ {NoNode}]
        /\ writes = 0 /\ changes = 0

-----------------------------------------------------------------------------
(* A request: storeFor, shardFor or ResolveByTenantID; then its command.   *)

Ask(c, k) == handle[c] = NoHandle /\ (router.kind = "ring" => k \in Hashes)

(* The request fails.                                                      *)
Refuse(c, k) == Ask(c, k) /\ Route(router, k) = NoNode /\ UNCHANGED vars

Resolve(c, k) ==
    /\ Ask(c, k)
    /\ Route(router, k) # NoNode
    /\ handle' = [handle EXCEPT ![c] = [key |-> k, shard |-> Route(router, k)]]
    /\ UNCHANGED <<place, router, data, latest, been, writes, changes>>

(* Mutant: the command goes to the next shard.                             *)
StoreBeside(s, k, v) == /\ data' = [data EXCEPT ![(s + 1) % ShardCount][k] = v]
                        /\ latest' = [latest EXCEPT ![k] = v]

Store(s, k, v) == /\ data' = [data EXCEPT ![s][k] = v]
                  /\ latest' = [latest EXCEPT ![k] = v]

Done(c) == handle' = [handle EXCEPT ![c] = NoHandle]

(* Set, also when its answer is lost.                                      *)
Set(c) == /\ handle[c] # NoHandle
          /\ writes < MaxWrites /\ writes' = writes + 1
          /\ Store(handle[c].shard, handle[c].key, writes + 1)
          /\ Done(c)
          /\ UNCHANGED <<place, router, been, changes>>

Del(c) == /\ handle[c] # NoHandle
          /\ Store(handle[c].shard, handle[c].key, 0)
          /\ Done(c)
          /\ UNCHANGED <<place, router, been, writes, changes>>

(* Get, or a command that fails.                                           *)
Answer(c) == /\ handle[c] # NoHandle
             /\ Done(c)
             /\ UNCHANGED <<place, router, data, latest, been, writes, changes>>

(* TTL, eviction, or a row deleted by somebody else.                       *)
Expire(s, k) == /\ data[s][k] # 0
                /\ data' = [data EXCEPT ![s][k] = 0]
                /\ latest' = IF data[s][k] = latest[k] THEN [latest EXCEPT ![k] = 0] ELSE latest
                /\ UNCHANGED <<place, router, handle, been, writes, changes>>

-----------------------------------------------------------------------------
(* Changes of a router.                                                    *)

Reroute(r) == /\ changes < MaxChanges /\ changes' = changes + 1
              /\ router' = r
              /\ been' = [k \in Keys |-> been[k] \cup ({Route(r, k)} \ {NoNode})]

(* ConsistentHash.Add and Remove, which copy no key.                       *)
Add(n) == /\ router.kind = "ring" /\ n \notin router.ring.nodes
          /\ Reroute(ByRing(AddTo(router.ring, n, place)))
          /\ UNCHANGED <<place, handle, data, latest, writes>>

Remove(n) == /\ router.kind = "ring" /\ n \in router.ring.nodes
             /\ Reroute(ByRing(RemoveFrom(router.ring, n, place)))
             /\ UNCHANGED <<place, handle, data, latest, writes>>

(* DirectoryResolver.AssignTenant. It moves no row.                        *)
AssignTenant(k, s) ==
    /\ router.kind = "directory"
    /\ Reroute(ByDirectory([t \in DOMAIN router.directory \cup {k} |->
                               IF t = k THEN s ELSE router.directory[t]]))
    /\ UNCHANGED <<place, handle, data, latest, writes>>

(* The program is started again, with another configuration.               *)
Restart(r) ==
    /\ r.kind = router.kind
    /\ Reroute(r)
    /\ handle' = [c \in Requests |-> NoHandle]
    /\ UNCHANGED <<place, data, latest, writes>>

Command(c) == Set(c) \/ Del(c) \/ Answer(c)

Next == \/ \E c \in Requests : Command(c) \/ \E k \in Keys : Resolve(c, k) \/ Refuse(c, k)
        \/ \E s \in Shards, k \in Keys : Expire(s, k) \/ AssignTenant(k, s)
        \/ \E n \in Nodes : Add(n) \/ Remove(n)
        \/ \E r \in Routers : Restart(r)

Spec == Init /\ [][Next]_vars

-----------------------------------------------------------------------------
(* The two views of the ring agree: each position that is searched has an  *)
(* owner, and the owner is a node that is present.                         *)
RingOK(r) == /\ r = [nodes |-> r.nodes, ring |-> r.ring, sorted |-> r.sorted]
             /\ r.nodes \subseteq Nodes /\ r.sorted \subseteq Hashes
             /\ r.ring \in [r.sorted -> r.nodes]

RouterOK(r) == \/ r.kind = "modulus" /\ r = ByModulus(r.count) /\ r.count \in 1..ShardCount
               \/ r.kind = "range" /\ r = ByRange(r.table) /\ r.table \in RangeTables
               \/ /\ r.kind = "directory" /\ r = ByDirectory(r.directory)
                  /\ r.directory \in [DOMAIN r.directory -> Int]
               \/ r.kind = "ring" /\ r = ByRing(r.ring) /\ RingOK(r.ring)

(* Types. Every key that a router resolves has a shard that exists: no     *)
(* index is out of range in PickShard or a ResolveByTenantID.              *)
TypeOK == /\ place \in Placements
          /\ RouterOK(router)
          /\ handle \in [Requests -> Handles \cup {NoHandle}]
          /\ data \in [Shards -> [Keys -> Nat]]
          /\ latest \in [Keys -> Nat]
          /\ been \in [Keys -> SUBSET Shards]
          /\ writes \in Nat /\ changes \in Nat

-----------------------------------------------------------------------------
(* A key has a value only in shards that its router has named, also when a *)
(* command used a shard that was resolved before the router changed. While *)
(* a key has had one shard only, that shard has what was last written      *)
(* (db_resolver.go:21, "always routed to the same shard").                 *)
Placed == \A k \in Keys, s \in Shards :
              /\ data[s][k] # 0 => s \in been[k]
              /\ been[k] = {s} => data[s][k] = latest[k]

(* "A key is assigned to the first node clockwise" (consistent_hash.go:9): *)
(* whatever was added and removed before, and in whatever order, the node  *)
(* of a hash is that of the nearest virtual node of the present nodes. Two *)
(* nodes that collide on a position may lose it, so it is not required.    *)
Clockwise ==
    router.kind = "ring" =>
        \A h \in Hashes, n \in router.ring.nodes : \A p \in place[n] :
            /\ ~Contested(place, p)
            /\ \A q \in Positions(router.ring, place) : Distance(h, p) <= Distance(h, q)
            => Owner(router.ring, h) = n

(* "Only keys between the new node and its predecessor move"               *)
(* (consistent_hash.go:11): no change of the ring moves a key between two  *)
(* nodes that stay, unless its position is one that two nodes collide on.  *)
Stays(h) == LET r == router.ring
                n == Owner(r, h)
                m == Owner(router'.ring, h)
            IN \/ n = m
               \/ router'.ring.nodes = r.nodes \cup {m} /\ m \notin r.nodes
               \/ router'.ring.nodes = r.nodes \ {n} /\ n \in r.nodes
               \/ Contested(place, First(r.sorted, h))

OnlyItsKeysMove ==
    [][router.kind = "ring" /\ (\E n \in Nodes : Add(n) \/ Remove(n))
            => \A h \in Hashes : Stays(h)]_vars

(* "Keys previously assigned to this node will be reassigned to the next   *)
(* node" (consistent_hash.go:81): that is the second of the two nodes that *)
(* GetN returned for replicas.                                             *)
NextInLine ==
    [][\A n \in Nodes, h \in Hashes :
          /\ Remove(n)
          /\ \A p \in Hashes : ~Contested(place, p)
          /\ Cardinality(router.ring.nodes) > 1
          /\ Owner(router.ring, h) = n
          => Owner(router'.ring, h) = GetN(router.ring, h, 2)[2]]_vars
=============================================================================
