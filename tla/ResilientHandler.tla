-------------------------- MODULE ResilientHandler --------------------------
(***************************************************************************)
(* GET /users/:id of step 12: cache, then withRetry around the circuit     *)
(* breaker around a database query with a timeout, then the stale copy,    *)
(* then a degraded answer. A caller serves one request after another.      *)
(***************************************************************************)
EXTENDS CircuitBreaker

CONSTANTS Users,       \* ids that clients ask for
          Existing,    \* ids with a row; no operation changes the table
          MaxRetries,  \* 3 in the code
          MaxFaults    \* bound: outages of MySQL and Redis, and disconnections

ASSUME HandlerAssumption == /\ Existing \subseteq Users
                            /\ MaxRetries \in Nat \ {0}
                            /\ MaxFaults \in Nat

VARIABLES phase,    \* where each request is
          user,     \* the id it asks for
          attempt,  \* failed attempts of withRetry
          gone,     \* requests whose client has disconnected: cancelled context
          reason,   \* how withRetry ended: "none", "open", "error"
          answer,   \* the last answer of a caller
          fresh,    \* ids with a live key user:<id>
          stale,    \* ids with a live key user:<id>:stale
          dbUp, redisUp, faults

cacheVars == <<fresh, stale>>
envVars == <<dbUp, redisUp, faults>>
requestVars == <<phase, user, attempt, gone, reason, answer>>
vars == <<breakerVars, requestVars, cacheVars, envVars>>

Phases == {"idle", "lookup", "call", "query", "wait", "save", "backup", "fallback"}
Answers == {"none", "user", "stale", "placeholder", "unavailable"}

Init == /\ BreakerInit
        /\ phase = [c \in Callers |-> "idle"]
        /\ user \in [Callers -> Users]
        /\ attempt = [c \in Callers |-> 0]
        /\ gone = {}
        /\ reason = [c \in Callers |-> "none"]
        /\ answer = [c \in Callers |-> "none"]
        /\ fresh = {} /\ stale = {}
        /\ dbUp = TRUE /\ redisUp = TRUE /\ faults = 0

Goto(c, p) == phase' = [phase EXCEPT ![c] = p]

Respond(c, a) == /\ Goto(c, "idle")
                 /\ answer' = [answer EXCEPT ![c] = a]
                 /\ gone' = gone \ {c}
                 /\ attempt' = [attempt EXCEPT ![c] = 0]
                 /\ reason' = [reason EXCEPT ![c] = "none"]

Request(c, u) ==
    /\ phase[c] = "idle"
    /\ Goto(c, "lookup")
    /\ user' = [user EXCEPT ![c] = u]
    /\ answer' = [answer EXCEPT ![c] = "none"]
    /\ UNCHANGED <<breakerVars, attempt, gone, reason, cacheVars, envVars>>

(* A Redis command fails without Redis and under a cancelled context.      *)
RedisOk(c) == redisUp /\ c \notin gone

(* Step 1, getFromCache: an error is a miss.                               *)
Lookup(c) ==
    /\ phase[c] = "lookup"
    /\ IF RedisOk(c) /\ user[c] \in fresh
       THEN Respond(c, "user")
       ELSE Goto(c, "call") /\ UNCHANGED <<answer, gone, attempt, reason>>
    /\ UNCHANGED <<breakerVars, user, cacheVars, envVars>>

(* withRetry ends, and the fallback of steps 4 and 5 begins.               *)
GiveUp(c, r) == Goto(c, "fallback") /\ reason' = [reason EXCEPT ![c] = r]

(* Step 2, cb.Call: an open breaker ends the retries at once.              *)
Call(c) ==
    /\ phase[c] = "call"
    /\ \/ Rejects /\ GiveUp(c, "open") /\ UNCHANGED breakerVars
       \/ Admit(c) /\ Goto(c, "query") /\ UNCHANGED reason
    /\ UNCHANGED <<user, attempt, gone, answer, cacheVars, envVars>>

(* getUserFromDB: a missing row is an error like an outage, the timeout or *)
(* a cancelled context.                                                    *)
QueryOk(c) == dbUp /\ c \notin gone /\ user[c] \in Existing

(* Mutant: a cancelled request does not report to the breaker.             *)
ReportFailureIfServed(c) ==
    IF c \in gone
    THEN /\ permit' = [permit EXCEPT ![c] = "none"]
         /\ UNCHANGED <<state, failures, age, streak>>
    ELSE Fail(c)

ReportFailure(c) == Fail(c)

Query(c) ==
    /\ phase[c] = "query"
    /\ \/ QueryOk(c) /\ Succeed(c) /\ Goto(c, "save")
       \/ ~QueryOk(c) /\ ReportFailure(c) /\ Goto(c, "wait")
    /\ UNCHANGED <<user, attempt, gone, reason, answer, cacheVars, envVars>>

(* Mutant: one attempt too many.                                           *)
LateGivesUp(c) == c \in gone \/ attempt[c] + 1 > MaxRetries

GivesUp(c) == c \in gone \/ attempt[c] + 1 >= MaxRetries

(* The backoff of withRetry; it also waits after the last attempt.         *)
Wait(c) ==
    /\ phase[c] = "wait"
    /\ IF GivesUp(c)
       THEN GiveUp(c, "error") /\ UNCHANGED attempt
       ELSE /\ attempt' = [attempt EXCEPT ![c] = @ + 1]
            /\ Goto(c, "call")
            /\ UNCHANGED reason
    /\ UNCHANGED <<breakerVars, user, gone, answer, cacheVars, envVars>>

(* Step 3, saveToCache: the key, and only after it the backup; a failure   *)
(* is ignored.                                                             *)
Save(c) ==
    /\ phase[c] = "save"
    /\ IF RedisOk(c)
       THEN /\ fresh' = fresh \cup {user[c]}
            /\ Goto(c, "backup")
            /\ UNCHANGED <<answer, gone, attempt, reason>>
       ELSE Respond(c, "user") /\ UNCHANGED fresh
    /\ UNCHANGED <<breakerVars, user, stale, envVars>>

Backup(c) ==
    /\ phase[c] = "backup"
    /\ stale' = IF RedisOk(c) THEN stale \cup {user[c]} ELSE stale
    /\ Respond(c, "user")
    /\ UNCHANGED <<breakerVars, user, fresh, envVars>>

(* Mutant: waits for Redis to give the stale copy.                         *)
FallbackWaits(c) ==
    /\ phase[c] = "fallback" /\ RedisOk(c)
    /\ Respond(c, IF user[c] \in stale THEN "stale" ELSE "unavailable")
    /\ UNCHANGED <<breakerVars, user, cacheVars, envVars>>

(* Steps 4 and 5.                                                          *)
Fallback(c) ==
    /\ phase[c] = "fallback"
    /\ Respond(c, IF RedisOk(c) /\ user[c] \in stale THEN "stale"
                  ELSE IF reason[c] = "open" THEN "placeholder"
                  ELSE "unavailable")
    /\ UNCHANGED <<breakerVars, user, cacheVars, envVars>>

Serve(c) == \/ Lookup(c) \/ Call(c) \/ Query(c) \/ Wait(c)
            \/ Save(c) \/ Backup(c) \/ Fallback(c)

-----------------------------------------------------------------------------
Fault == faults < MaxFaults /\ faults' = faults + 1

Disconnect(c) ==
    /\ phase[c] # "idle" /\ c \notin gone
    /\ Fault
    /\ gone' = gone \cup {c}
    /\ UNCHANGED <<breakerVars, phase, user, attempt, reason, answer, cacheVars, dbUp, redisUp>>

DbDown == /\ dbUp /\ Fault /\ dbUp' = FALSE
          /\ UNCHANGED <<breakerVars, requestVars, cacheVars, redisUp>>

DbRecover == /\ ~dbUp /\ dbUp' = TRUE
             /\ UNCHANGED <<breakerVars, requestVars, cacheVars, redisUp, faults>>

RedisDown == /\ redisUp /\ Fault /\ redisUp' = FALSE
             /\ UNCHANGED <<breakerVars, requestVars, cacheVars, dbUp>>

RedisRecover == /\ ~redisUp /\ redisUp' = TRUE
                /\ UNCHANGED <<breakerVars, requestVars, cacheVars, dbUp, faults>>

(* TTL: 60 s for the key...                                                *)
ExpireKey(u) == /\ u \in fresh
                /\ fresh' = fresh \ {u}
                /\ UNCHANGED <<breakerVars, requestVars, stale, envVars>>

(* ... and 600 s for its backup, which may be the older one of the two when*)
(* Redis failed between the two SETs.                                      *)
ExpireBackup(u) == /\ u \in stale
                   /\ stale' = stale \ {u}
                   /\ UNCHANGED <<breakerVars, requestVars, fresh, envVars>>

Status == Observe /\ UNCHANGED <<requestVars, cacheVars, envVars>>

Clock == Tick /\ UNCHANGED <<requestVars, cacheVars, envVars>>

Next == \/ \E c \in Callers : Serve(c) \/ Disconnect(c) \/ \E u \in Users : Request(c, u)
        \/ \E u \in Users : ExpireKey(u) \/ ExpireBackup(u)
        \/ DbDown \/ DbRecover \/ RedisDown \/ RedisRecover
        \/ Status \/ Clock

Spec == Init /\ [][Next]_vars

(* A request never hangs: its queries have DBTimeout, its waits a timer.   *)
FairSpec == Spec /\ \A c \in Callers : WF_vars(Serve(c))

(* Moreover time passes, keys expire, an outage of MySQL ends, and each    *)
(* client keeps asking.                                                    *)
BusySpec == /\ FairSpec
            /\ WF_vars(Clock) /\ WF_vars(DbRecover)
            /\ \A c \in Callers : WF_vars(\E u \in Users : Request(c, u))
            /\ \A u \in Users : WF_vars(ExpireKey(u))

-----------------------------------------------------------------------------
TypeOK == /\ BreakerTypeOK
          /\ phase \in [Callers -> Phases]
          /\ user \in [Callers -> Users]
          /\ attempt \in [Callers -> 0..(MaxRetries - 1)]
          /\ gone \subseteq Callers
          /\ reason \in [Callers -> {"none", "open", "error"}]
          /\ answer \in [Callers -> Answers]
          /\ fresh \subseteq Users /\ stale \subseteq Users
          /\ dbUp \in BOOLEAN /\ redisUp \in BOOLEAN
          /\ faults \in Nat

(* A user that does not exist is never cached and never answered with data,*)
(* whatever failed on the way.                                             *)
OnlyExistingServed ==
    /\ fresh \cup stale \subseteq Existing
    /\ \A c \in Callers : answer[c] \in {"user", "stale"} => user[c] \in Existing

(* Every request is answered, however the database, the cache and the      *)
(* breaker behave.                                                         *)
EveryRequestAnswered == \A c \in Callers : phase[c] = "lookup" ~> phase[c] = "idle"

(* Steps of withRetry and the fallback that a request has left at most.    *)
StepsLeft(c) == LET calls == 3 * (MaxRetries - attempt[c])
                IN CASE phase[c] = "idle" -> 0
                     [] phase[c] \in {"fallback", "backup"} -> 1
                     [] phase[c] = "save" -> 2
                     [] phase[c] = "wait" -> calls - 1
                     [] phase[c] = "query" -> calls
                     [] phase[c] = "call" -> calls + 1
                     [] OTHER -> 3 * MaxRetries + 2

(* And within a bounded number of steps of its own: whatever it and others *)
(* do, a request comes nearer to its answer or stays where it is, and no   *)
(* breaker, outage or other request sends it back.                         *)
RequestShortens ==
    [][\A c \in Callers :
          phase[c] # "idle" =>
             StepsLeft(c)' < StepsLeft(c) \/ UNCHANGED <<phase[c], attempt[c]>>]_vars

(* When outages are over, no client disconnects and only existing users    *)
(* are asked for, the breaker does not stay open: requests close it again. *)
(* (Each request for a missing user counts as a failure of the database.)  *)
BreakerRecovers ==
    <>[](\A c \in Callers : user[c] \in Existing) => (state = "OPEN" ~> state = "CLOSED")
=============================================================================
