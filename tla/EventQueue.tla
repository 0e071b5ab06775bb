----------------------------- MODULE EventQueue -----------------------------
(***************************************************************************)
(* The asynchronous event pipeline of step 11: POST /events appends to a   *)
(* Redis stream, workers of one consumer group read it, insert each event  *)
(* into MySQL with an idempotency check, retry, and acknowledge.           *)
(*                                                                         *)
(* Entry ids are positions in "log", the history of every XADD.            *)
(***************************************************************************)
EXTENDS Naturals, Sequences, FiniteSets

CONSTANTS Events,        \* events clients want stored
          HeaderEvents,  \* those sent with an X-Idempotency-Key header
          Unstorable,    \* those MySQL refuses (device_id over 128 characters)
          Workers,       \* worker processes
          MaxRetries,    \* attempts of withRetry (3 in the code)
          BatchSize,     \* Count of XREADGROUP (10 in the code)
          MaxLen,        \* MaxLen of XADD (100000 in the code)
          MaxLog,        \* bound: number of XADDs
          MaxFaults      \* bound: number of faults of each kind

FaultKinds == {"outage", "kill", "reply", "loss"}

ASSUME QueueAssumption ==
    /\ HeaderEvents \subseteq Events
    /\ Unstorable \subseteq Events
    /\ MaxRetries \in Nat \ {0}
    /\ BatchSize \in Nat \ {0}
    /\ MaxLen \in Nat \ {0}
    /\ MaxLog \in Nat
    /\ MaxFaults \in [FaultKinds -> Nat]

VARIABLES log,       \* every entry ever appended: its event and its key
          accepted,  \* ids of the entries whose client was answered 202
          redis,     \* the stream and its consumer group, as Redis has them now
          rdb,       \* the last snapshot Redis wrote to disk
          dbUp,      \* MySQL answers
          rows,      \* the events table, in order of its AUTO_INCREMENT id
          phase,     \* where each worker is
          batch,     \* messages of the current XREADGROUP reply still to handle
          msg,       \* message being handled, 0 if none
          attempt,   \* failed attempts of withRetry on it
          stopping,  \* workers whose context is cancelled (SIGINT, SIGTERM)
          faults     \* faults so far, by kind

workerVars == <<phase, batch, msg, attempt, stopping>>
vars == <<log, accepted, redis, rdb, dbUp, rows, workerVars, faults>>

Phases == {"down", "next", "reading", "check", "insert", "backoff", "ack"}

Ids == 1..Len(log)

(* A header is taken as the key, otherwise the API draws a fresh UUID.     *)
KeyOf(e, id) == IF e \in HeaderEvents THEN <<"header", e>> ELSE <<"uuid", id>>

Entry(e, id) == [event |-> e, key |-> KeyOf(e, id)]

(* The stream's consumer groups are {} or {GroupName}; "start" is where the*)
(* group was created ("$"): no code reads it.                              *)
GroupName == "workers"

NoStream == [entries |-> {}, groups |-> {}, start |-> 0, last |-> 0, pel |-> {}]

Init == /\ log = <<>>
        /\ accepted = {}
        /\ redis = NoStream
        /\ rdb = NoStream
        /\ dbUp = TRUE
        /\ rows = <<>>
        /\ phase = [w \in Workers |-> "down"]
        /\ batch = [w \in Workers |-> {}]
        /\ msg = [w \in Workers |-> 0]
        /\ attempt = [w \in Workers |-> 0]
        /\ stopping = {}
        /\ faults = [k \in FaultKinds |-> 0]

(* A fault of a kind, while its bound allows.                              *)
Fault(kind) == /\ faults[kind] < MaxFaults[kind]
               /\ faults' = [faults EXCEPT ![kind] = @ + 1]

NoFault == UNCHANGED faults

-----------------------------------------------------------------------------
(* The API.                                                                *)

(* MAXLEN ~ n: XADD may drop old entries, delivered or not, and keeps at   *)
(* least n of them.                                                        *)
Trimmed(entries) ==
    {kept \in {{i \in entries : i >= cut} : cut \in entries} :
        kept = entries \/ Cardinality(kept) >= MaxLen}

Xadd(id) == \E kept \in Trimmed(redis.entries \cup {id}) :
               redis' = [redis EXCEPT !.entries = kept]

(* POST /events. The 3 second timeout may hit after Redis has executed the *)
(* XADD: the client then sees 503 although the entry is in the stream. A   *)
(* request that reaches no Redis changes nothing and is no action.         *)
Post(e) ==
    /\ Len(log) < MaxLog
    /\ LET id == Len(log) + 1
       IN /\ log' = Append(log, Entry(e, id))
          /\ Xadd(id)
          /\ \/ accepted' = accepted \cup {id} /\ NoFault
             \/ accepted' = accepted /\ Fault("reply")
    /\ UNCHANGED <<rdb, dbUp, rows, workerVars>>

-----------------------------------------------------------------------------
(* The worker: main, Subscribe, withRetry, ProcessEvent.                   *)

(* "$": the newest entry of the stream, 0 when there is none.              *)
Newest(entries) == {n \in entries \cup {0} : \A i \in entries : i <= n}

(* main: createTables needs MySQL; XGROUP CREATE ... $ skips what is       *)
(* already in the stream and does nothing to an existing group.            *)
Start(w) ==
    /\ phase[w] = "down"
    /\ dbUp
    /\ IF GroupName \in redis.groups
       THEN UNCHANGED redis
       ELSE \E n \in Newest(redis.entries) :
               redis' = [redis EXCEPT !.groups = {GroupName}, !.start = n, !.last = n]
    /\ phase' = [phase EXCEPT ![w] = "next"]
    /\ UNCHANGED <<log, accepted, rdb, dbUp, rows, batch, msg, attempt, stopping, faults>>

(* Mutant: pending entries are read again, whoever has them.               *)
UndeliveredOrPending(r) ==
    {i \in r.entries : GroupName \in r.groups /\ (i > r.last \/ i \in r.pel)}

(* What ">" would deliver.                                                 *)
Undelivered(r) == {i \in r.entries : GroupName \in r.groups /\ i > r.last}

(* The for loops of Subscribe: the next message of the batch, oldest first;*)
(* after the last one back to the top, where a cancelled context ends the  *)
(* process and anything else starts a new XREADGROUP.                      *)
NextMessage(w) ==
    /\ phase[w] = "next"
    /\ \/ \E m \in batch[w] :
             /\ \A n \in batch[w] : m <= n
             /\ msg' = [msg EXCEPT ![w] = m]
             /\ batch' = [batch EXCEPT ![w] = @ \ {m}]
             /\ phase' = [phase EXCEPT ![w] = "check"]
             /\ UNCHANGED stopping
       \/ /\ batch[w] = {}
          /\ phase' = [phase EXCEPT ![w] = IF w \in stopping THEN "down" ELSE "reading"]
          /\ stopping' = stopping \ {w}
          /\ UNCHANGED <<batch, msg>>
    /\ UNCHANGED <<log, accepted, redis, rdb, dbUp, rows, attempt, faults>>

(* Mutant: waits until a batch is full.                                    *)
FullBatchOnly(b) == Cardinality(b) = BatchSize

(* COUNT of XREADGROUP is a limit: fewer entries do if there are no more.  *)
IsBatch(b) == \/ Cardinality(b) = BatchSize
              \/ Cardinality(b) < BatchSize /\ b = Undelivered(redis)

(* XREADGROUP moves the oldest undelivered entries, up to COUNT, into the  *)
(* group's pending list, and the reply, if it arrives, gives them to w.    *)
(* A reply lost with its connection is an error: sleep and read again.     *)
Read(w) ==
    /\ phase[w] = "reading"
    /\ \E hi \in Undelivered(redis) :
          LET b == {i \in Undelivered(redis) : i <= hi}
          IN /\ IsBatch(b)
             /\ redis' = [redis EXCEPT !.last = hi, !.pel = @ \cup b]
             /\ \/ batch' = [batch EXCEPT ![w] = b] /\ NoFault
                \/ UNCHANGED batch /\ Fault("reply")
    /\ phase' = [phase EXCEPT ![w] = "next"]
    /\ UNCHANGED <<log, accepted, rdb, dbUp, rows, msg, attempt, stopping>>

(* redis.Nil after the block time, NOGROUP, or the cancelled context.      *)
ReadNothing(w) ==
    /\ phase[w] = "reading"
    /\ Undelivered(redis) = {} \/ w \in stopping
    /\ phase' = [phase EXCEPT ![w] = "next"]
    /\ UNCHANGED <<log, accepted, redis, rdb, dbUp, rows, batch, msg, attempt, stopping, faults>>

Key(w) == log[msg[w]].key

StoredKeys == {rows[i].key : i \in DOMAIN rows}

(* A query under a cancelled context, or without MySQL, is an error.       *)
DbError(w) == w \in stopping \/ ~dbUp

(* Mutant: an error counts as a duplicate.                                 *)
AfterCheckNoError(w) == IF DbError(w) \/ Key(w) \in StoredKeys THEN "ack" ELSE "insert"

(* Mutant: the comparison of the count is the wrong way round.             *)
AfterCheckInverted(w) == IF DbError(w) THEN "backoff"
                         ELSE IF Key(w) \in StoredKeys THEN "insert" ELSE "ack"

(* SELECT COUNT( * ) of the key: an error, a duplicate, or not seen yet.   *)
AfterCheck(w) == IF DbError(w) THEN "backoff"
                 ELSE IF Key(w) \in StoredKeys THEN "ack" ELSE "insert"

Check(w) ==
    /\ phase[w] = "check"
    /\ phase' = [phase EXCEPT ![w] = AfterCheck(w)]
    /\ UNCHANGED <<log, accepted, redis, rdb, dbUp, rows, batch, msg, attempt, stopping, faults>>

(* Mutant: no UNIQUE KEY, only the check before.                           *)
InsertableWithoutKey(w) == dbUp /\ log[msg[w]].event \notin Unstorable

(* The UNIQUE KEY and the column widths, when MySQL executes the INSERT.   *)
Insertable(w) == /\ dbUp
                 /\ Key(w) \notin StoredKeys
                 /\ log[msg[w]].event \notin Unstorable

(* INSERT: refused, done, or done with the answer lost on the way.         *)
Insert(w) ==
    /\ phase[w] = "insert"
    /\ \/ /\ DbError(w) \/ ~Insertable(w)
          /\ phase' = [phase EXCEPT ![w] = "backoff"]
          /\ UNCHANGED rows /\ NoFault
       \/ /\ ~DbError(w) /\ Insertable(w)
          /\ rows' = Append(rows, log[msg[w]])
          /\ \/ phase' = [phase EXCEPT ![w] = "ack"] /\ NoFault
             \/ phase' = [phase EXCEPT ![w] = "backoff"] /\ Fault("reply")
    /\ UNCHANGED <<log, accepted, redis, rdb, dbUp, batch, msg, attempt, stopping>>

(* Mutant: one attempt too many.                                           *)
GivesUpLate(w) == w \in stopping \/ attempt[w] + 1 > MaxRetries

(* The wait of withRetry. A cancelled context or the last attempt gives up:*)
(* no XACK, and the loop goes on to the next message.                      *)
GivesUp(w) == w \in stopping \/ attempt[w] + 1 >= MaxRetries

(* Mutant: starts over instead.                                            *)
StartOver(w) == /\ phase' = [phase EXCEPT ![w] = "check"]
                /\ attempt' = [attempt EXCEPT ![w] = 0]
                /\ UNCHANGED msg

GiveUp(w) == /\ phase' = [phase EXCEPT ![w] = "next"]
             /\ attempt' = [attempt EXCEPT ![w] = 0]
             /\ msg' = [msg EXCEPT ![w] = 0]

Retry(w) == /\ phase' = [phase EXCEPT ![w] = "check"]
            /\ attempt' = [attempt EXCEPT ![w] = @ + 1]
            /\ UNCHANGED msg

Backoff(w) ==
    /\ phase[w] = "backoff"
    /\ IF GivesUp(w) THEN GiveUp(w) ELSE Retry(w)
    /\ UNCHANGED <<log, accepted, redis, rdb, dbUp, rows, batch, stopping, faults>>

(* XACK. Its failure is ignored; under a cancelled context it does fail.   *)
Ack(w) ==
    /\ phase[w] = "ack"
    /\ \/ /\ w \notin stopping
          /\ redis' = [redis EXCEPT !.pel = @ \ {msg[w]}]
          /\ NoFault
       \/ UNCHANGED redis /\ (IF w \in stopping THEN NoFault ELSE Fault("reply"))
    /\ phase' = [phase EXCEPT ![w] = "next"]
    /\ attempt' = [attempt EXCEPT ![w] = 0]
    /\ msg' = [msg EXCEPT ![w] = 0]
    /\ UNCHANGED <<log, accepted, rdb, dbUp, rows, batch, stopping>>

Step(w) == \/ NextMessage(w) \/ Read(w) \/ ReadNothing(w)
           \/ Check(w) \/ Insert(w) \/ Backoff(w) \/ Ack(w)

-----------------------------------------------------------------------------
(* Signals, crashes, MySQL outages, and what Redis may forget.             *)

(* SIGINT or SIGTERM: cancel().                                            *)
Stop(w) ==
    /\ phase[w] # "down"
    /\ w \notin stopping
    /\ Fault("kill")
    /\ stopping' = stopping \cup {w}
    /\ UNCHANGED <<log, accepted, redis, rdb, dbUp, rows, phase, batch, msg, attempt>>

Crash(w) ==
    /\ phase[w] # "down"
    /\ Fault("kill")
    /\ phase' = [phase EXCEPT ![w] = "down"]
    /\ batch' = [batch EXCEPT ![w] = {}]
    /\ msg' = [msg EXCEPT ![w] = 0]
    /\ attempt' = [attempt EXCEPT ![w] = 0]
    /\ stopping' = stopping \ {w}
    /\ UNCHANGED <<log, accepted, redis, rdb, dbUp, rows>>

DbDown == /\ dbUp
          /\ Fault("outage")
          /\ dbUp' = FALSE
          /\ UNCHANGED <<log, accepted, redis, rdb, rows, workerVars>>

DbRecover == /\ ~dbUp
             /\ dbUp' = TRUE
             /\ UNCHANGED <<log, accepted, redis, rdb, rows, workerVars, faults>>

(* --save 60 1000: now and then Redis writes its data to disk; after a     *)
(* crash it is back at that snapshot.                                      *)
Snapshot == /\ faults["loss"] < MaxFaults["loss"]   \* bound: useless otherwise
            /\ rdb' = redis
            /\ UNCHANGED <<log, accepted, redis, dbUp, rows, workerVars, faults>>

RedisRestart == /\ Fault("loss")
                /\ redis' = rdb
                /\ UNCHANGED <<log, accepted, rdb, dbUp, rows, workerVars>>

(* --maxmemory-policy allkeys-lru: the stream is a key like any other.     *)
RedisEvict == /\ Fault("loss")
              /\ redis' = NoStream
              /\ UNCHANGED <<log, accepted, rdb, dbUp, rows, workerVars>>

Environment == \/ \E e \in Events : Post(e)
               \/ \E w \in Workers : Stop(w) \/ Crash(w)
               \/ DbDown \/ DbRecover
               \/ Snapshot \/ RedisRestart \/ RedisEvict

Next == \/ \E w \in Workers : Start(w) \/ Step(w)
        \/ Environment

Spec == Init /\ [][Next]_vars

(* A started worker never pauses for ever: its calls return or time out.   *)
WorkersRun == \A w \in Workers : WF_vars(Step(w))

(* Stopped workers are started again, and an outage of MySQL ends.         *)
Operated == /\ \A w \in Workers : WF_vars(Start(w))
            /\ WF_vars(DbRecover)

WorkerSpec == Spec /\ WorkersRun
FairSpec == Spec /\ WorkersRun /\ Operated

-----------------------------------------------------------------------------
(* Properties.                                                             *)

Stream == [entries : SUBSET Ids, groups : SUBSET {GroupName},
           start : Ids \cup {0}, last : Ids \cup {0}, pel : SUBSET Ids]

Attempts == 0..(MaxRetries - 1)

Keys == {<<"header", e>> : e \in HeaderEvents} \cup {<<"uuid", id>> : id \in 1..MaxLog}

Entries == [event : Events, key : Keys]

TypeOK == /\ log \in Seq(Entries)
          /\ Len(log) <= MaxLog
          /\ accepted \subseteq Ids
          /\ redis \in Stream
          /\ rdb \in Stream
          /\ dbUp \in BOOLEAN
          /\ rows \in Seq(Entries)
          /\ phase \in [Workers -> Phases]
          /\ batch \in [Workers -> SUBSET Ids]
          /\ msg \in [Workers -> Ids \cup {0}]
          /\ attempt \in [Workers -> Attempts]
          /\ stopping \subseteq Workers
          /\ faults \in [FaultKinds -> Nat]

(* "An idempotency key is processed once" (redis_stream.go, Event): however*)
(* often a key is posted, delivered, retried or replayed by a rolled-back  *)
(* Redis, the events table has one row of it.                              *)
OneRowPerKey == \A i, j \in DOMAIN rows : rows[i].key = rows[j].key => i = j

Stored(id) == id \in Ids /\ log[id].key \in StoredKeys

(* Subscribe acknowledges only what ProcessEvent settled: an entry the     *)
(* group has handed out is either still pending or its event is a row.     *)
SettledIsStored(r) == \A id \in r.entries :
                         GroupName \in r.groups /\ r.start < id /\ id <= r.last => id \in r.pel \/ Stored(id)

AckedIsStored == SettledIsStored(redis)

Held(w) == batch[w] \cup (IF msg[w] = 0 THEN {} ELSE {msg[w]})

(* The group hands an entry to one worker, and it stays pending while that *)
(* worker has it: two workers meet on one entry only after Redis lost data.*)
ExclusiveDelivery ==
    faults["loss"] = 0 => \A w \in Workers :
        /\ Held(w) \subseteq redis.pel
        /\ \A v \in Workers \ {w} : Held(v) \cap Held(w) = {}

(* Whatever MySQL does, withRetry is bounded: a worker gets through every  *)
(* batch it has read and reads again.                                      *)
BatchEnds == \A w \in Workers : (Held(w) # {}) ~> (Held(w) = {})

(* Steps of withRetry and of the loop that a worker has left at most until *)
(* it has nothing in hand: of the message at hand, and of each of the rest.*)
MessageSteps(w) == LET tries == 3 * (MaxRetries - attempt[w])
                   IN CASE phase[w] = "ack" -> 1
                        [] phase[w] = "backoff" -> tries - 1
                        [] phase[w] = "insert" -> tries
                        [] phase[w] = "check" -> tries + 1
                        [] OTHER -> 0

BatchSteps(w) == (3 * MaxRetries + 2) * Cardinality(batch[w]) + MessageSteps(w)

(* And it does so in a bounded number of its own steps: nothing that MySQL,*)
(* Redis, a signal or another worker does sends it back to a message or to *)
(* an attempt that it has left.                                            *)
BatchShrinks ==
    [][\A w \in Workers :
          Held(w) # {} =>
             BatchSteps(w)' < BatchSteps(w) \/ UNCHANGED <<phase[w], batch[w], msg[w], attempt[w]>>]_vars

(* While the group exists and workers are restarted, no entry waits for    *)
(* ever for its first delivery.                                            *)
EventuallyDelivered ==
    \A id \in 1..MaxLog : (id \in Undelivered(redis)) ~> (id \notin Undelivered(redis))

Quiet == \A k \in FaultKinds : faults[k] = 0

(* Without faults, an accepted event whose entry the group can see and the *)
(* stream keeps becomes a row, unless MySQL refuses it.                    *)
AcceptedIsStored ==
    \A id \in 1..MaxLog :
        (id \in accepted /\ id \in Undelivered(redis)) ~>
            (\/ Stored(id) \/ ~Quiet
             \/ id \notin redis.entries
             \/ log[id].event \in Unstorable)

(* What the pipeline promises, whatever happens inside it.                 *)
Sink == INSTANCE EventSink
          WITH offered <- {log[i].key : i \in DOMAIN log},
               stored <- [i \in DOMAIN rows |-> rows[i].key]

SinkSpec == Sink!SinkSpec

(* README of step 11, MySQL stopped and started again: the accepted events *)
(* that piled up as pending are processed automatically.                   *)
ProcessedAfterRecovery ==
    \A id \in 1..MaxLog : (id \in accepted /\ id \in Undelivered(redis)) ~> Stored(id)
=============================================================================
