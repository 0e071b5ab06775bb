---------------------------- MODULE ReadReplica ----------------------------
(***************************************************************************)
(* The read/write split of step 3: a server writes to a primary, reads     *)
(* from a replica while its flag says that it is healthy, and a watcher    *)
(* pings the replica to keep the flag. MySQL, its replication and the pool *)
(* of connections are modelled from how the server uses them. The clock is *)
(* in seconds; the server's own steps take no time, and nothing that has a *)
(* deadline is later than it.                                              *)
(***************************************************************************)
EXTENDS Integers, FiniteSets

CONSTANTS Clients,      \* requests at a time, one each
          Attempts,     \* pings of openDB before it gives up, 5
          Period,       \* of the ticker, 5
          PingTimeout,  \* of the watcher's ping, 2
          Pool,         \* SetMaxOpenConns, 25
          MaxRows, MaxFaults  \* bounds

ASSUME ReplicaAssumption == /\ Attempts \in Nat \ {0} /\ Pool \in Nat \ {0}
                            /\ Period \in Nat /\ PingTimeout \in Nat /\ PingTimeout < Period
                            /\ IsFiniteSet(Clients)
                            /\ MaxRows \in Nat /\ MaxFaults \in Nat

VARIABLES mode,       \* of each database: it answers, refuses, or keeps silent
          stage,      \* of the server: opening a database, serving, exited
          attempt,    \* the ping of openDB that is next
          connected,  \* DBCluster.replica is not nil
          healthy,    \* DBCluster.replicaHealthy
          watch,      \* watchReplica: waiting, pinging, or a ping's result
          elapsed,    \* seconds since the ticker's last tick
          op, db,     \* each request, and the database that it goes to
          running,    \* requests that have a connection
          rows,       \* users committed on each database
          calm,       \* history: the flag is as their last Reader() found it
          seen,       \* history: the rows they have read since it changed
          downFor,    \* history: seconds that the replica has not answered
          wellFor,    \* history: seconds that a ping of it would have been answered
          faults

server == <<stage, attempt, connected, healthy, watch, elapsed>>
requests == <<op, db, running, calm, seen>>
vars == <<mode, server, requests, rows, downFor, wellFor, faults>>

Dbs == {"primary", "replica"}
Modes == {"up", "down", "hung"}
Stages == Dbs \cup {"serving", "exited"}
Phases == {"waiting", "pinging", "ok", "failed"}
Ops == {"none", "read", "create"}

(* From one tick to the end of the next tick's ping.                       *)
Window == Period + PingTimeout

Init == /\ mode = [d \in Dbs |-> "up"]
        /\ stage = "primary" /\ attempt = 1
        /\ connected = FALSE /\ healthy = FALSE
        /\ watch = "waiting" /\ elapsed = 0
        /\ op = [c \in Clients |-> "none"] /\ db = [c \in Clients |-> "primary"]
        /\ running = {} /\ calm = {} /\ seen = [c \in Clients |-> 0]
        /\ rows = [d \in Dbs |-> 0]
        /\ downFor = 0 /\ wellFor = 0 /\ faults = 0

Fault == faults < MaxFaults /\ faults' = faults + 1

(* A ping would be answered: the replica is up, and the pool has a         *)
(* connection left, which a ping waits for like any query.                 *)
FreeSlot(d) == Cardinality({c \in running : db[c] = d}) < Pool
Well == mode["replica"] = "up" /\ FreeSlot("replica")

(* What a step that takes no time does to the two histories.               *)
Observe == /\ downFor' = IF mode'["replica"] = "up" THEN 0 ELSE downFor
           /\ wellFor' = IF Well' THEN wellFor ELSE 0

-----------------------------------------------------------------------------
(* NewDBCluster: primary, then replica, each with openDB's pings.          *)

(* Mutant: the flag is set whether the replica could be opened or not.     *)
ServeHealthy(opened) == /\ stage' = "serving" /\ attempt' = 1
                        /\ connected' = opened /\ healthy' = TRUE
                        /\ watch' = "waiting" /\ elapsed' = 0

Serve(opened) == /\ stage' = "serving" /\ attempt' = 1
                 /\ connected' = opened /\ healthy' = opened
                 /\ watch' = "waiting" /\ elapsed' = 0

(* replicaDSN may be empty.                                                *)
OpenPrimary ==
    /\ stage = "primary" /\ mode["primary"] = "up"
    /\ \/ /\ stage' = "replica" /\ attempt' = 1
          /\ UNCHANGED <<connected, healthy, watch, elapsed>>
       \/ Serve(FALSE)
    /\ UNCHANGED <<mode, requests, rows, faults>> /\ Observe

OpenReplica == /\ stage = "replica" /\ mode["replica"] = "up"
               /\ Serve(TRUE)
               /\ UNCHANGED <<mode, requests, rows, faults>> /\ Observe

(* Without its replica the server starts, and never tries it again.        *)
OpenFails ==
    /\ stage \in Dbs
    /\ \/ mode[stage] # "up" /\ UNCHANGED faults
       \/ Fault
    /\ \/ /\ attempt < Attempts /\ attempt' = attempt + 1
          /\ UNCHANGED <<stage, connected, healthy, watch, elapsed>>
       \/ /\ attempt = Attempts /\ stage = "primary" /\ stage' = "exited"
          /\ UNCHANGED <<attempt, connected, healthy, watch, elapsed>>
       \/ attempt = Attempts /\ stage = "replica" /\ Serve(FALSE)
    /\ UNCHANGED <<mode, requests, rows>> /\ Observe

Crash == /\ stage # "exited" /\ Fault
         /\ stage' = "exited"
         /\ op' = [c \in Clients |-> "none"] /\ db' = [c \in Clients |-> "primary"]
         /\ running' = {} /\ calm' = {}
         /\ UNCHANGED <<mode, attempt, connected, healthy, watch, elapsed, seen, rows>> /\ Observe

Restart == /\ stage = "exited" /\ stage' = "primary" /\ attempt' = 1
           /\ connected' = FALSE /\ healthy' = FALSE
           /\ watch' = "waiting" /\ elapsed' = 0
           /\ UNCHANGED <<mode, requests, rows, faults>> /\ Observe

-----------------------------------------------------------------------------
(* watchReplica.                                                           *)

Wake == /\ stage = "serving" /\ watch = "waiting" /\ elapsed = Period
        /\ elapsed' = 0
        /\ watch' = IF connected THEN "pinging" ELSE "waiting"
        /\ UNCHANGED <<mode, stage, attempt, connected, healthy, requests, rows, faults>> /\ Observe

(* Mutant: the ping has no deadline.                                       *)
TimedOutNever == FALSE

(* The context ends a ping that the replica has not answered.              *)
TimedOut == elapsed = PingTimeout /\ wellFor < PingTimeout

PingReturns ==
    /\ stage = "serving" /\ watch = "pinging"
    /\ UNCHANGED <<mode, stage, attempt, connected, healthy, elapsed, requests, rows>>
    /\ \/ Well /\ watch' = "ok" /\ UNCHANGED faults /\ Observe
       \/ (mode["replica"] = "down" \/ TimedOut) /\ watch' = "failed" /\ UNCHANGED faults /\ Observe
       \/ /\ Fault /\ watch' = "failed"   \* lost on the way
          /\ downFor' = downFor /\ wellFor' = 0

(* Mutants: the flag never rises again, or never falls.                    *)
FlagOnlyFalls(result) == healthy /\ result = "ok"
FlagOnlyRises(result) == healthy \/ result = "ok"

FlagAfter(result) == result = "ok"

(* The flag is set under the lock, which Reader takes to read it.          *)
SetFlag == /\ stage = "serving" /\ watch \in {"ok", "failed"}
           /\ healthy' = FlagAfter(watch)
           /\ watch' = "waiting"
           /\ calm' = IF healthy' = healthy THEN calm ELSE {}
           /\ UNCHANGED <<mode, stage, attempt, connected, elapsed, op, db, running, seen, rows, faults>> /\ Observe

-----------------------------------------------------------------------------
(* The requests.                                                           *)

(* Mutant: the primary helps a busy replica.                               *)
ReaderByLoad == IF healthy /\ connected /\ FreeSlot("replica") THEN "replica" ELSE "primary"

Reader == IF healthy /\ connected THEN "replica" ELSE "primary"
Writer == "primary"

(* GetUser and ListUsersByTenant.                                          *)
Read(c) ==
    /\ stage = "serving" /\ op[c] = "none"
    /\ op' = [op EXCEPT ![c] = "read"] /\ db' = [db EXCEPT ![c] = Reader]
    /\ calm' = calm \cup {c}
    /\ seen' = IF c \in calm THEN seen ELSE [seen EXCEPT ![c] = 0]
    /\ UNCHANGED <<mode, server, running, rows, faults>> /\ Observe

CreateUser(c) ==
    /\ stage = "serving" /\ op[c] = "none"
    /\ op' = [op EXCEPT ![c] = "create"] /\ db' = [db EXCEPT ![c] = Writer]
    /\ UNCHANGED <<mode, server, running, calm, seen, rows, faults>> /\ Observe

(* A connection of the pool, for which a query waits without a limit.      *)
Connect(c) == /\ op[c] # "none" /\ c \notin running /\ FreeSlot(db[c])
              /\ running' = running \cup {c}
              /\ UNCHANGED <<mode, server, op, db, calm, seen, rows, faults>> /\ Observe

End(c) == /\ op' = [op EXCEPT ![c] = "none"] /\ db' = [db EXCEPT ![c] = "primary"]
          /\ running' = running \ {c}

Answers(c) == c \in running /\ mode[db[c]] = "up"

ReadAnswered(c) ==
    /\ Answers(c) /\ op[c] = "read"
    /\ seen' = [seen EXCEPT ![c] = rows[db[c]]]
    /\ End(c)
    /\ UNCHANGED <<mode, server, calm, rows, faults>> /\ Observe

(* Mutant: used means configured.                                          *)
ReplicaOpened == connected

(* replica_used, in the answer of a list.                                  *)
ReplicaUsed == healthy

Committed == rows["primary"] < MaxRows /\ rows' = [rows EXCEPT !["primary"] = @ + 1]

Created(c) == /\ Answers(c) /\ op[c] = "create" /\ Committed
              /\ End(c)
              /\ UNCHANGED <<mode, server, calm, seen, faults>> /\ Observe

(* An error, or a client that disconnects; the row may be there all the    *)
(* same. Reads are not tried again on the primary.                         *)
Fails(c) == /\ op[c] # "none"
            /\ \/ c \in running /\ op[c] = "create" /\ Committed
               \/ UNCHANGED rows
            /\ End(c)
            /\ UNCHANGED <<mode, server, calm, seen, faults>> /\ Observe

-----------------------------------------------------------------------------
(* MySQL.                                                                  *)

Replicate == /\ rows["replica"] < rows["primary"] /\ mode["replica"] # "down"
             /\ rows' = [rows EXCEPT !["replica"] = @ + 1]
             /\ UNCHANGED <<mode, server, requests, faults>> /\ Observe

Turn(d, m) == /\ mode[d] # m /\ mode' = [mode EXCEPT ![d] = m]
              /\ IF m = "up" THEN UNCHANGED faults ELSE Fault
              /\ UNCHANGED <<server, requests, rows>> /\ Observe

-----------------------------------------------------------------------------
(* The watcher is due when the ticker has ticked, its ping's deadline is   *)
(* there, or it has a result.                                              *)
Due == /\ stage = "serving"
       /\ \/ watch = "waiting" /\ elapsed = Period
          \/ watch = "pinging" /\ elapsed = PingTimeout
          \/ watch \in {"ok", "failed"}

Tick == /\ ~Due
        /\ elapsed' = IF stage = "serving" THEN elapsed + 1 ELSE elapsed
        /\ downFor' = IF mode["replica"] # "up" /\ downFor <= Window THEN downFor + 1 ELSE downFor
        /\ wellFor' = IF Well /\ wellFor <= Window THEN wellFor + 1 ELSE wellFor
        /\ UNCHANGED <<mode, stage, attempt, connected, healthy, watch, requests, rows, faults>>

Watcher == Wake \/ PingReturns \/ SetFlag

Request(c) == \/ Read(c) \/ CreateUser(c) \/ Connect(c) \/ ReadAnswered(c) \/ Created(c) \/ Fails(c)

Next == \/ OpenPrimary \/ OpenReplica \/ OpenFails \/ Crash \/ Restart
        \/ Watcher \/ Tick \/ Replicate
        \/ \E c \in Clients : Request(c)
        \/ \E d \in Dbs, m \in Modes : Turn(d, m)

Spec == Init /\ [][Next]_vars

(* The goroutine of the watcher runs when it can, and time passes.         *)
FairSpec == Spec /\ WF_vars(Watcher) /\ WF_vars(Tick)

-----------------------------------------------------------------------------
(* Types; the flag is never up without a replica.                          *)
TypeOK == /\ mode \in [Dbs -> Modes]
          /\ stage \in Stages /\ attempt \in 1..Attempts
          /\ connected \in BOOLEAN /\ healthy \in BOOLEAN /\ (healthy => connected)
          /\ watch \in Phases /\ (watch # "waiting" => connected)
          /\ elapsed \in 0..Period
          /\ op \in [Clients -> Ops] /\ db \in [Clients -> Dbs]
          /\ running \subseteq Clients /\ calm \subseteq Clients
          /\ rows \in [Dbs -> Nat] /\ seen \in [Clients -> Nat]
          /\ downFor \in 0..(Window + 1) /\ wellFor \in 0..(Window + 1)
          /\ faults \in Nat

(* Reads leave a replica that does not answer, refusing or silent, within  *)
(* a period and a ping's timeout, whatever the phase of the watcher when   *)
(* it fell, and however busy the pool is.                                  *)
DetectedInTime == stage = "serving" /\ downFor > Window => ~healthy

(* And they return as fast to one that has answered pings all the while.   *)
FailsBackInTime == stage = "serving" /\ connected /\ wellFor > Window => healthy

(* A client's reads show no fewer rows than its reads before, unless the   *)
(* flag has changed between two calls of Reader: a replica that lags never *)
(* hides what it has shown, the primary's rows vanish only at a failback.  *)
NoRewind == [][\A c \in Clients : ReadAnswered(c) => rows[db[c]] >= seen[c]]_vars

(* A list says whether the replica was used by the flag of that moment: it *)
(* is wrong only if the flag has changed since the list's Reader.          *)
ToldRight ==
    [][\A c \in Clients : ReadAnswered(c) /\ c \in calm
           => (ReplicaUsed <=> db[c] = "replica")]_vars

(* A silent replica or a full pool never stops the watcher.                *)
KeepsWatching == <>[](stage = "serving" /\ connected) => []<>(watch = "pinging") /\ []<>(watch = "waiting")
=============================================================================
