----------------------------- MODULE CacheAside -----------------------------
(***************************************************************************)
(* The cache-aside server of step 4: reads fill the keys user:<id> and     *)
(* tenant:<id>:users, writes go to MySQL and then delete keys. A hit       *)
(* changes nothing and is no action.                                       *)
(***************************************************************************)
EXTENDS Naturals, FiniteSets

CONSTANTS Clients,    \* requests the server handles at a time
          Users,      \* ids that rows can get
          Tenants,
          Home,       \* tenant of the row that gets an id: no operation changes it
          MaxWrites,  \* bound: statements that write a row
          MaxFaults   \* bound: failed calls of MySQL or Redis, and restarts

ASSUME CacheAssumption == /\ Users \cap Tenants = {}
                          /\ Home \in [Users -> Tenants]
                          /\ MaxWrites \in Nat
                          /\ MaxFaults \in Nat

VARIABLES version,  \* how often the row of an id was written, 0 if there is none
          cache,    \* per key: {} or the singleton of the cached content
          phase,    \* where each request is
          target,   \* key it reads, or keys it will delete
          fetched,  \* content it got from MySQL
          excused,  \* history: keys whose content a race or a failure may have left stale
          writes, faults

requestVars == <<phase, target, fetched>>
vars == <<version, cache, requestVars, excused, writes, faults>>

Phases == {"idle", "query", "fill", "invalidate"}

(* user:<id> and tenant:<id>:users.                                        *)
Keys == Users \cup Tenants

Names(k, u) == k = u \/ k = Home[u]

(* The rows a key stands for. A list is not cut at its LIMIT of 100.       *)
Content(k) == {<<u, version[u]>> : u \in {x \in Users : Names(k, x) /\ version[x] > 0}}

Init == /\ version = [u \in Users |-> 0]
        /\ cache = [k \in Keys |-> {}]
        /\ phase = [c \in Clients |-> "idle"]
        /\ target = [c \in Clients |-> {}]
        /\ fetched = [c \in Clients |-> {}]
        /\ excused = {}
        /\ writes = 0 /\ faults = 0

Fault == faults < MaxFaults /\ faults' = faults + 1
NoFault == UNCHANGED faults

Goto(c, p, K, rows) == /\ phase' = [phase EXCEPT ![c] = p]
                       /\ target' = [target EXCEPT ![c] = K]
                       /\ fetched' = [fetched EXCEPT ![c] = rows]

Respond(c) == Goto(c, "idle", {}, {})

-----------------------------------------------------------------------------
(* GetUserWithCache and GetTenantUsersWithCache.                           *)

(* GET of the key: a miss, or an error, which is treated as one.           *)
Miss(c, k) ==
    /\ phase[c] = "idle"
    /\ \/ cache[k] = {} /\ NoFault
       \/ cache[k] # {} /\ Fault
    /\ Goto(c, "query", {k}, {})
    /\ UNCHANGED <<version, cache, excused, writes>>

(* The SELECT. A user that does not exist is not cached; an empty list is. *)
Query(c) ==
    /\ phase[c] = "query"
    /\ \E k \in target[c] :
          \/ (k \in Users => Content(k) # {}) /\ Goto(c, "fill", {k}, Content(k)) /\ NoFault
          \/ k \in Users /\ Content(k) = {} /\ Respond(c) /\ NoFault
          \/ Respond(c) /\ Fault
    /\ UNCHANGED <<version, cache, excused, writes>>

(* SET with the TTL; its error, the SET executed or not, is only logged.   *)
Fill(c) ==
    /\ phase[c] = "fill"
    /\ \/ /\ \E k \in target[c] : cache' = [cache EXCEPT ![k] = {fetched[c]}]
          /\ NoFault \/ Fault
       \/ UNCHANGED cache /\ Fault
    /\ Respond(c)
    /\ UNCHANGED <<version, excused, writes>>

-----------------------------------------------------------------------------
(* handleCreateUser, handleUpdateUser.                                     *)

(* A request that has read k from MySQL and has yet to SET it.             *)
Filling(k) == \E c \in Clients : phase[c] = "fill" /\ k \in target[c]

(* MySQL writes the row of u; nobody will delete the keys in X for it.     *)
Write(u, X) ==
    /\ writes < MaxWrites
    /\ writes' = writes + 1
    /\ version' = [version EXCEPT ![u] = @ + 1]
    /\ excused' = excused \cup X \cup {k \in Keys : Names(k, u) /\ Filling(k)}

(* InvalidateUser will be called for the keys in K, if the answer of MySQL *)
(* arrives; otherwise the client gets a 500 and no key is deleted.         *)
Written(c, u, K, X) ==
    \/ Write(u, X) /\ Goto(c, "invalidate", K, {}) /\ NoFault
    \/ Write(u, {u, Home[u]}) /\ UNCHANGED requestVars /\ Fault

(* Mutant: the list of the tenant is forgotten.                            *)
CreatedUserOnly(u) == {u}

CreatedKeys(u) == {u, Home[u]}

Create(c, u) ==
    /\ phase[c] = "idle"
    /\ version[u] = 0
    /\ Written(c, u, CreatedKeys(u), {})
    /\ UNCHANGED cache

(* Mutant: a key is built of an empty tenant_id.                           *)
BodyTenantsUnchecked == {{t} : t \in Tenants \cup {""}}

(* The tenant's list is deleted only if the body names the tenant, which   *)
(* is not compared with the row's.                                         *)
BodyTenants == {{}} \cup {{t} : t \in Tenants}

Update(c, u) ==
    /\ phase[c] = "idle"
    /\ \E T \in BodyTenants :
          \/ version[u] > 0 /\ Written(c, u, {u} \cup T, {Home[u]} \ T)
          \/ /\ version[u] = 0
             /\ Goto(c, "invalidate", {u} \cup T, {})
             /\ UNCHANGED <<version, writes, excused, faults>>
    /\ UNCHANGED cache

(* Keys that are gone are fresh again, unless a request still fills them.  *)
Drop(K) == /\ cache' = [k \in Keys |-> IF k \in K THEN {} ELSE cache[k]]
           /\ excused' = {k \in excused : k \notin K \/ Filling(k)}

(* DEL of all keys at once; its error, executed or not, is only logged.    *)
Invalidate(c) ==
    /\ phase[c] = "invalidate"
    /\ \/ Drop(target[c]) /\ (NoFault \/ Fault)
       \/ UNCHANGED cache /\ excused' = excused \cup target[c] /\ Fault
    /\ Respond(c)
    /\ UNCHANGED <<version, writes>>

-----------------------------------------------------------------------------
(* Mutant: lists are SET without a TTL.                                    *)
ExpireUsersOnly(k) == /\ k \in Users /\ cache[k] # {}
                      /\ Drop({k})
                      /\ UNCHANGED <<version, requestVars, writes, faults>>

(* TTL, or eviction.                                                       *)
Expire(k) == /\ cache[k] # {}
             /\ Drop({k})
             /\ UNCHANGED <<version, requestVars, writes, faults>>

(* The server restarts and forgets its requests, keys to delete included.  *)
Restart ==
    /\ Fault
    /\ phase' = [c \in Clients |-> "idle"]
    /\ target' = [c \in Clients |-> {}]
    /\ fetched' = [c \in Clients |-> {}]
    /\ excused' = excused \cup UNION {target[c] : c \in {d \in Clients : phase[d] = "invalidate"}}
    /\ UNCHANGED <<version, cache, writes>>

Handle(c) == Query(c) \/ Fill(c) \/ Invalidate(c)

Next == \/ \E c \in Clients : \/ Handle(c)
                              \/ \E k \in Keys : Miss(c, k)
                              \/ \E u \in Users : Create(c, u) \/ Update(c, u)
        \/ \E k \in Keys : Expire(k)
        \/ Restart

Spec == Init /\ [][Next]_vars

(* Requests do not hang: the calls they make have timeouts. Keys expire.   *)
FairSpec == /\ Spec
            /\ \A c \in Clients : WF_vars(Handle(c))
            /\ \A k \in Keys : WF_vars(Expire(k))

-----------------------------------------------------------------------------
Contents == SUBSET (Users \X Nat)

TypeOK == /\ version \in [Users -> Nat]
          /\ cache \in [Keys -> SUBSET Contents]
          /\ phase \in [Clients -> Phases]
          /\ target \in [Clients -> SUBSET Keys]
          /\ fetched \in [Clients -> Contents]
          /\ excused \subseteq Keys
          /\ writes \in Nat /\ faults \in Nat

Fresh(k) == cache[k] \subseteq {Content(k)}

Pending(k) == \E c \in Clients : phase[c] = "invalidate" /\ k \in target[c]

(* A key shows something else than MySQL only while its deletion is on the *)
(* way, or after one of: a write fell between a reader's SELECT and its    *)
(* SET; the body of an update did not name the tenant; a write's answer or *)
(* its deletion was lost. A key deleted since with no such reader left is  *)
(* fresh: no other order of reads and writes leaves stale data.            *)
StaleIsExcused == \A k \in Keys : Fresh(k) \/ Pending(k) \/ k \in excused

(* Stale data does not outlive the writes: once they have ended, the TTL   *)
(* leaves only fresh keys, whatever readers still put back.                *)
Converges == <>[](\A k \in Keys : Fresh(k))

(* Comment of handleUpdateUser, README of step 4: after the deletion the   *)
(* next request for the user gets the latest data from the database.       *)
NextRequestIsFresh ==
    faults = 0 => \A u \in Users : Fresh(u) \/ Pending(u)
=============================================================================
