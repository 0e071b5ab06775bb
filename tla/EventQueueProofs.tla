-------------------------- MODULE EventQueueProofs --------------------------
(***************************************************************************)
(* Theorems about EventQueue for every set of events and workers and every *)
(* value of the limits.                                                    *)
(***************************************************************************)
EXTENDS EventQueue, FiniteSetTheorems, TLAPS

Busy == {"check", "insert", "backoff", "ack"}

(* A worker handles a message exactly in the four busy phases, holds a     *)
(* batch only while it works through it, and acknowledges only what is a   *)
(* row already.                                                            *)
WorkerInv ==
    \A w \in Workers :
        /\ phase[w] \in Busy <=> msg[w] # 0
        /\ msg[w] \notin batch[w]
        /\ phase[w] \in {"down", "reading"} => batch[w] = {}
        /\ phase[w] = "ack" => Stored(msg[w])

(* The pending list holds delivered entries only, and only of a group.     *)
PendingInv(r) == /\ \A id \in r.pel : id <= r.last
                 /\ r.groups = {} => r.pel = {}

(* The inductive invariant: the four invariants of the runs, the snapshot  *)
(* being as good as the stream it may replace.                             *)
IInv == /\ TypeOK
        /\ OneRowPerKey
        /\ WorkerInv
        /\ SettledIsStored(redis) /\ SettledIsStored(rdb)
        /\ PendingInv(redis) /\ PendingInv(rdb)
        /\ ExclusiveDelivery

-----------------------------------------------------------------------------
(* An entry appended to the log has a key, and nothing else about the log  *)
(* changes.                                                                *)
LEMMA PostLog ==
    ASSUME TypeOK, NEW e \in Events, Post(e)
    PROVE  /\ log' \in Seq(Entries)
           /\ Len(log') = Len(log) + 1
           /\ Len(log') <= MaxLog
           /\ \A i \in Ids : log'[i] = log[i]
<1> DEFINE id == Len(log) + 1
<1>1. Len(log) \in Nat /\ MaxLog \in Nat
  BY QueueAssumption DEF TypeOK
<1>2. id \in 1..MaxLog
  BY <1>1 DEF Post
<1>3. KeyOf(e, id) \in Keys
  BY <1>2 DEF KeyOf, Keys
<1>4. Entry(e, id) \in Entries
  BY <1>3 DEF Entry, Entries
<1> HIDE DEF id
<1>5. log' = Append(log, Entry(e, id))
  BY DEF Post, id
<1> QED BY <1>1, <1>2, <1>4, <1>5 DEF TypeOK, Ids, id

LEMMA InitInv == Init => IInv
BY QueueAssumption
   DEF Init, IInv, TypeOK, OneRowPerKey, WorkerInv, SettledIsStored, PendingInv,
       ExclusiveDelivery, Held, NoStream, Stream, Ids, Phases, FaultKinds, Busy, Stored,
       Attempts

-----------------------------------------------------------------------------
(* The types that speak of log positions change only with the log.         *)
LEMMA SameLog == log' = log => Ids' = Ids /\ Stream' = Stream
BY DEF Ids, Stream

LEMMA AttemptRange == /\ 0 \in Attempts
                      /\ \A a \in Attempts : a + 1 < MaxRetries => a + 1 \in Attempts
BY QueueAssumption DEF Attempts

(* Counting a fault, or none, keeps the counters numbers.                  *)
LEMMA FaultType ==
    ASSUME faults \in [FaultKinds -> Nat],
           NoFault \/ \E k \in FaultKinds : Fault(k)
    PROVE  faults' \in [FaultKinds -> Nat]
BY DEF Fault, NoFault

(* Every step keeps the types.                                             *)
LEMMA TypeStep == TypeOK /\ WorkerInv /\ [Next]_vars => TypeOK'
<1> SUFFICES ASSUME TypeOK, WorkerInv, [Next]_vars PROVE TypeOK'
  OBVIOUS
<1> USE SameLog
<1>1. ASSUME NEW e \in Events, Post(e) PROVE TypeOK'
  <2>1. /\ log' \in Seq(Entries)
        /\ Len(log') = Len(log) + 1
        /\ Len(log') <= MaxLog
    BY <1>1, PostLog
  <2>2. Ids \subseteq Ids' /\ Len(log) + 1 \in Ids'
    BY <2>1 DEF TypeOK, Ids
  <2>3. redis' \in Stream'
    <3>1. PICK kept \in Trimmed(redis.entries \cup {Len(log) + 1}) :
                 redis' = [redis EXCEPT !.entries = kept]
      BY <1>1 DEF Post, Xadd
    <3>2. kept \subseteq redis.entries \cup {Len(log) + 1}
      BY DEF Trimmed
    <3> QED BY <3>1, <3>2, <2>2 DEF TypeOK, Stream
  <2>4. rdb' \in Stream'
    BY <1>1, <2>2 DEF Post, TypeOK, Stream
  <2>5. accepted' \subseteq Ids'
    BY <1>1, <2>2 DEF Post, TypeOK
  <2>6. faults' \in [FaultKinds -> Nat]
    BY <1>1, FaultType DEF Post, TypeOK, FaultKinds
  <2>7. batch' \in [Workers -> SUBSET Ids'] /\ msg' \in [Workers -> Ids' \cup {0}]
    BY <1>1, <2>2 DEF Post, TypeOK, workerVars
  <2> QED BY <1>1, <2>1, <2>3, <2>4, <2>5, <2>6, <2>7 DEF Post, TypeOK, workerVars
<1>2. ASSUME NEW w \in Workers, Start(w) PROVE TypeOK'
  <2>1. redis' \in Stream
    <3>1. CASE redis' = redis
      BY <3>1 DEF TypeOK
    <3>2. CASE redis' # redis
      <4>1. PICK n \in Newest(redis.entries) :
                redis' = [redis EXCEPT !.groups = {GroupName}, !.start = n, !.last = n]
        BY <1>2, <3>2 DEF Start
      <4>2. n \in Ids \cup {0} /\ redis \in Stream
        BY DEF Newest, TypeOK, Stream
      <4> QED BY <4>1, <4>2 DEF Stream
    <3> QED BY <3>1, <3>2
  <2> QED BY <1>2, <2>1 DEF Start, TypeOK, Phases
<1>3. ASSUME NEW w \in Workers, NextMessage(w) PROVE TypeOK'
  <2>1. phase' \in [Workers -> Phases] /\ stopping' \subseteq Workers
    BY <1>3 DEF NextMessage, TypeOK, Phases
  <2>2. msg' \in [Workers -> Ids \cup {0}] /\ batch' \in [Workers -> SUBSET Ids]
    BY <1>3 DEF NextMessage, TypeOK
  <2> QED BY <1>3, <2>1, <2>2 DEF NextMessage, TypeOK
<1>4. ASSUME NEW w \in Workers, Read(w) PROVE TypeOK'
  <2> DEFINE B(hi) == {i \in Undelivered(redis) : i <= hi}
  <2>1. PICK hi \in Undelivered(redis) :
            /\ redis' = [redis EXCEPT !.last = hi, !.pel = @ \cup B(hi)]
            /\ batch' = [batch EXCEPT ![w] = B(hi)] \/ UNCHANGED batch
    BY <1>4 DEF Read, IsBatch
  <2>2. B(hi) \subseteq Ids /\ hi \in Ids
    BY DEF Undelivered, TypeOK, Stream
  <2> HIDE DEF B
  <2>3. redis' \in Stream
    BY <2>1, <2>2 DEF TypeOK, Stream
  <2>4. batch' \in [Workers -> SUBSET Ids]
    BY <2>1, <2>2 DEF TypeOK
  <2>5. faults' \in [FaultKinds -> Nat]
    BY <1>4, FaultType DEF Read, IsBatch, TypeOK, FaultKinds
  <2> QED BY <1>4, <2>3, <2>4, <2>5 DEF Read, IsBatch, TypeOK, Phases
<1>5. ASSUME NEW w \in Workers, ReadNothing(w) PROVE TypeOK'
  BY <1>5 DEF ReadNothing, TypeOK, Phases
<1>6. ASSUME NEW w \in Workers, Check(w) PROVE TypeOK'
  BY <1>6 DEF Check, AfterCheck, TypeOK, Phases
<1>7. ASSUME NEW w \in Workers, Insert(w) PROVE TypeOK'
  <2>1. msg[w] \in Ids
    BY <1>7 DEF Insert, WorkerInv, Busy, TypeOK
  <2>2. log[msg[w]] \in Entries
    <3>1. log \in Seq(Entries) /\ msg[w] \in 1..Len(log)
      BY <2>1 DEF TypeOK, Ids
    <3> QED BY <3>1
  <2>3. rows' \in Seq(Entries)
    <3>1. rows' = rows \/ rows' = Append(rows, log[msg[w]])
      BY <1>7 DEF Insert
    <3>2. rows \in Seq(Entries)
      BY DEF TypeOK
    <3> QED BY <3>1, <3>2, <2>2
  <2>4. faults' \in [FaultKinds -> Nat]
    BY <1>7, FaultType DEF Insert, TypeOK, FaultKinds
  <2>5. phase' \in [Workers -> Phases]
    BY <1>7 DEF Insert, TypeOK, Phases
  <2> QED BY <1>7, <2>3, <2>4, <2>5 DEF Insert, TypeOK
<1>8. ASSUME NEW w \in Workers, Backoff(w) PROVE TypeOK'
  <2>1. attempt' \in [Workers -> Attempts]
    <3>1. attempt[w] + 1 < MaxRetries \/ attempt[w] + 1 >= MaxRetries
      BY QueueAssumption DEF TypeOK, Attempts
    <3> QED BY <1>8, <3>1, AttemptRange DEF Backoff, GivesUp, GiveUp, Retry, TypeOK
  <2> QED BY <1>8, <2>1 DEF Backoff, GivesUp, GiveUp, Retry, TypeOK, Phases
<1>9. ASSUME NEW w \in Workers, Ack(w) PROVE TypeOK'
  <2>1. redis' \in Stream
    BY <1>9 DEF Ack, TypeOK, Stream
  <2>2. faults' \in [FaultKinds -> Nat]
    BY <1>9, FaultType DEF Ack, TypeOK, FaultKinds
  <2> QED BY <1>9, <2>1, <2>2, AttemptRange DEF Ack, TypeOK, Phases
<1>10. ASSUME NEW w \in Workers, Stop(w) \/ Crash(w) PROVE TypeOK'
  <2>1. faults' \in [FaultKinds -> Nat]
    BY <1>10, FaultType DEF Stop, Crash, TypeOK, FaultKinds
  <2>2. CASE Stop(w)
    BY <2>1, <2>2 DEF Stop, TypeOK
  <2>3. CASE Crash(w)
    BY <2>1, <2>3, AttemptRange DEF Crash, TypeOK, Phases
  <2> QED BY <1>10, <2>2, <2>3
<1>11. ASSUME DbDown \/ DbRecover \/ Snapshot PROVE TypeOK'
  <2>1. faults' \in [FaultKinds -> Nat]
    BY <1>11, FaultType DEF DbDown, DbRecover, Snapshot, TypeOK, FaultKinds
  <2> QED BY <1>11, <2>1 DEF DbDown, DbRecover, Snapshot, TypeOK, workerVars
<1>12. ASSUME RedisRestart \/ RedisEvict PROVE TypeOK'
  <2>1. faults' \in [FaultKinds -> Nat]
    BY <1>12, FaultType DEF RedisRestart, RedisEvict, TypeOK, FaultKinds
  <2>2. NoStream \in Stream
    BY DEF NoStream, Stream
  <2> QED BY <1>12, <2>1, <2>2 DEF RedisRestart, RedisEvict, TypeOK, workerVars
<1>13. CASE UNCHANGED vars
  BY <1>13 DEF vars, workerVars, TypeOK
<1> QED BY <1>1, <1>2, <1>3, <1>4, <1>5, <1>6, <1>7, <1>8, <1>9, <1>10, <1>11, <1>12, <1>13
        DEF Next, Step, Environment

-----------------------------------------------------------------------------
(* Only the INSERT of a worker touches the table, and it appends the event *)
(* of an entry whose key has no row.                                       *)
LEMMA RowsChange ==
    ASSUME TypeOK, [Next]_vars, rows' # rows
    PROVE  \E w \in Workers : /\ Insert(w)
                              /\ Insertable(w)
                              /\ rows' = Append(rows, log[msg[w]])
BY DEF Next, Step, Environment, vars, workerVars, Start, NextMessage, Read, IsBatch, ReadNothing,
       Check, AfterCheck, Insert, Backoff, GivesUp, GiveUp, Retry, Ack, Post, Stop, Crash, DbDown, DbRecover, Snapshot,
       RedisRestart, RedisEvict

LEMMA RowsStep == TypeOK /\ OneRowPerKey /\ WorkerInv /\ [Next]_vars => OneRowPerKey'
<1> SUFFICES ASSUME TypeOK, OneRowPerKey, WorkerInv, [Next]_vars PROVE OneRowPerKey'
  OBVIOUS
<1>1. CASE rows' = rows
  BY <1>1 DEF OneRowPerKey
<1>2. CASE rows' # rows
  <2>1. PICK w \in Workers : /\ Insert(w)
                             /\ Insertable(w)
                             /\ rows' = Append(rows, log[msg[w]])
    BY <1>2, RowsChange
  <2>2. \A i \in DOMAIN rows : rows[i].key # log[msg[w]].key
    BY <2>1 DEF Insertable, Key, StoredKeys
  <2>3. rows \in Seq(Entries)
    BY DEF TypeOK
  <2>4. msg[w] \in Ids
    BY <2>1 DEF Insert, WorkerInv, Busy, TypeOK
  <2>5. log[msg[w]] \in Entries
    BY <2>4 DEF TypeOK, Ids
  <2>6. /\ DOMAIN rows' = 1..(Len(rows) + 1)
        /\ DOMAIN rows = 1..Len(rows)
        /\ \A i \in 1..Len(rows) : rows'[i] = rows[i]
        /\ rows'[Len(rows) + 1] = log[msg[w]]
    BY <2>1, <2>3, <2>5
  <2> QED BY <2>2, <2>3, <2>6 DEF OneRowPerKey
<1> QED BY <1>1, <1>2

(* A key once stored stays stored, and entries keep their keys.            *)
LEMMA StoredGrows ==
    ASSUME TypeOK, WorkerInv, [Next]_vars
    PROVE  /\ Ids \subseteq Ids'
           /\ \A id \in Ids : log'[id] = log[id]
           /\ StoredKeys \subseteq StoredKeys'
<1>1. Ids \subseteq Ids' /\ \A id \in Ids : log'[id] = log[id]
  <2>1. CASE log' = log
    BY <2>1 DEF Ids
  <2>2. CASE log' # log
    <3>1. PICK e \in Events : Post(e)
      BY <2>2 DEF Next, Step, Environment, vars, workerVars, Start, NextMessage, Read, IsBatch,
             ReadNothing, Check, AfterCheck, Insert, Backoff, GivesUp, GiveUp, Retry, Ack, Stop, Crash, DbDown, DbRecover,
             Snapshot, RedisRestart, RedisEvict
    <3>2. Len(log) \in Nat /\ Len(log') = Len(log) + 1 /\ \A i \in Ids : log'[i] = log[i]
      BY <3>1, PostLog DEF TypeOK
    <3> QED BY <3>2 DEF Ids
  <2> QED BY <2>1, <2>2
<1>2. StoredKeys \subseteq StoredKeys'
  <2>1. CASE rows' = rows
    BY <2>1 DEF StoredKeys
  <2>2. CASE rows' # rows
    <3>1. PICK w \in Workers : Insert(w) /\ rows' = Append(rows, log[msg[w]])
      BY <2>2, RowsChange
    <3>2. msg[w] \in Ids
      BY <3>1 DEF Insert, WorkerInv, Busy, TypeOK
    <3>3. rows \in Seq(Entries) /\ log[msg[w]] \in Entries
      BY <3>2 DEF TypeOK, Ids
    <3>4. \A i \in DOMAIN rows : i \in DOMAIN rows' /\ rows'[i] = rows[i]
      BY <3>1, <3>3
    <3> QED BY <3>4 DEF StoredKeys
  <2> QED BY <2>1, <2>2
<1> QED BY <1>1, <1>2

-----------------------------------------------------------------------------
(* Every step keeps the workers' own invariant.                            *)
LEMMA WorkerStep == TypeOK /\ WorkerInv /\ [Next]_vars => WorkerInv'
<1> SUFFICES ASSUME TypeOK, WorkerInv, [Next]_vars PROVE WorkerInv'
  OBVIOUS
<1> DEFINE Good(v) == /\ phase[v] \in Busy <=> msg[v] # 0
                      /\ msg[v] \notin batch[v]
                      /\ phase[v] \in {"down", "reading"} => batch[v] = {}
                      /\ phase[v] = "ack" => Stored(msg[v])
<1> SUFFICES ASSUME NEW v \in Workers PROVE Good(v)'
  BY DEF WorkerInv
<1>1. Good(v) /\ batch[v] \subseteq Ids /\ msg[v] \in Ids \cup {0}
  BY DEF WorkerInv, TypeOK
<1>2. 0 \notin Ids
  BY DEF Ids
<1>3. ASSUME msg'[v] = msg[v], Stored(msg[v]) PROVE Stored(msg[v])'
  BY <1>3, StoredGrows DEF Stored
<1>4. CASE phase'[v] = phase[v] /\ msg'[v] = msg[v] /\ batch'[v] = batch[v]
  BY <1>1, <1>3, <1>4
<1>5. ASSUME NEW w \in Workers, Start(w) \/ ReadNothing(w) PROVE Good(v)'
  BY <1>1, <1>4, <1>5 DEF Start, ReadNothing, TypeOK, Busy
<1>6. ASSUME NEW w \in Workers, NextMessage(w) PROVE Good(v)'
  BY <1>1, <1>2, <1>4, <1>6 DEF NextMessage, TypeOK, Busy
<1>7. ASSUME NEW w \in Workers, Read(w) PROVE Good(v)'
  <2>1. \A i \in Undelivered(redis) : i \in Ids
    BY DEF Undelivered, TypeOK, Stream
  <2> QED BY <1>1, <1>2, <1>4, <1>7, <2>1 DEF Read, IsBatch, TypeOK, Busy
<1>8. ASSUME NEW w \in Workers, Check(w) PROVE Good(v)'
  <2>1. msg[w] \in Ids
    BY <1>8 DEF Check, AfterCheck, WorkerInv, Busy, TypeOK
  <2>2. phase'[w] = "ack" => Stored(msg[w])
    BY <1>8, <2>1 DEF Check, AfterCheck, TypeOK, Stored, Key
  <2> QED BY <1>1, <1>3, <1>4, <1>8, <2>2 DEF Check, AfterCheck, TypeOK, Busy
<1>9. ASSUME NEW w \in Workers, Insert(w) PROVE Good(v)'
  <2>1. msg[w] \in Ids /\ phase[w] \in Busy
    BY <1>9 DEF Insert, WorkerInv, Busy, TypeOK
  <2>2. rows' = Append(rows, log[msg[w]]) => log[msg[w]].key \in StoredKeys'
    <3>1. rows \in Seq(Entries) /\ log[msg[w]] \in Entries
      BY <2>1 DEF TypeOK, Ids
    <3> SUFFICES ASSUME rows' = Append(rows, log[msg[w]])
                 PROVE  log[msg[w]].key \in StoredKeys'
      OBVIOUS
    <3>2. Len(rows) + 1 \in DOMAIN rows' /\ rows'[Len(rows) + 1] = log[msg[w]]
      BY <3>1
    <3> QED BY <3>2 DEF StoredKeys
  <2>3. phase'[w] = "ack" => Stored(msg[w])'
    BY <1>9, <2>1, <2>2 DEF Insert, Stored, Ids, TypeOK
  <2> QED BY <1>1, <1>4, <1>9, <2>1, <2>3 DEF Insert, TypeOK, Busy
<1>10. ASSUME NEW w \in Workers, Backoff(w) PROVE Good(v)'
  BY <1>1, <1>2, <1>4, <1>10 DEF Backoff, GivesUp, GiveUp, Retry, TypeOK, Busy
<1>11. ASSUME NEW w \in Workers, Ack(w) PROVE Good(v)'
  BY <1>1, <1>2, <1>4, <1>11 DEF Ack, TypeOK, Busy
<1>12. ASSUME NEW w \in Workers, Crash(w) PROVE Good(v)'
  BY <1>1, <1>4, <1>12 DEF Crash, TypeOK, Busy
<1>13. ASSUME NEW w \in Workers, Stop(w) PROVE Good(v)'
  BY <1>4, <1>13 DEF Stop
<1>14. ASSUME NEW e \in Events, Post(e) PROVE Good(v)'
  BY <1>4, <1>14 DEF Post, workerVars
<1>15. ASSUME DbDown \/ DbRecover \/ Snapshot \/ RedisRestart \/ RedisEvict PROVE Good(v)'
  BY <1>4, <1>15 DEF DbDown, DbRecover, Snapshot, RedisRestart, RedisEvict, workerVars
<1>16. CASE UNCHANGED vars
  BY <1>4, <1>16 DEF vars, workerVars
<1> QED BY <1>5, <1>6, <1>7, <1>8, <1>9, <1>10, <1>11, <1>12, <1>13, <1>14, <1>15, <1>16
        DEF Next, Step, Environment

-----------------------------------------------------------------------------
(* Which steps change the stream or its snapshot.                          *)
LEMMA StreamChange ==
    ASSUME [Next]_vars, redis' # redis
    PROVE  \/ \E e \in Events : Post(e)
           \/ \E w \in Workers : Start(w) \/ Read(w) \/ Ack(w)
           \/ RedisRestart \/ RedisEvict
BY DEF Next, Step, Environment, vars, NextMessage, ReadNothing, Check, AfterCheck, Insert, Backoff, GivesUp, GiveUp, Retry,
       Stop, Crash, DbDown, DbRecover, Snapshot

LEMMA SnapshotChange ==
    ASSUME [Next]_vars, rdb' # rdb
    PROVE  rdb' = redis /\ redis' = redis
BY DEF Next, Step, Environment, vars, Start, NextMessage, Read, IsBatch, ReadNothing, Check, AfterCheck, Insert,
       Backoff, GivesUp, GiveUp, Retry, Ack, Post, Stop, Crash, DbDown, DbRecover, Snapshot, RedisRestart, RedisEvict

(* An XADD adds the newest id and may drop old ones.                       *)
LEMMA XaddEffect ==
    ASSUME NEW e \in Events, Post(e)
    PROVE  \E kept \in SUBSET (redis.entries \cup {Len(log) + 1}) :
              redis' = [redis EXCEPT !.entries = kept]
BY DEF Post, Xadd, Trimmed

(* Starting a worker changes the stream only where the group is missing.   *)
LEMMA StartEffect ==
    ASSUME NEW w \in Workers, Start(w), redis' # redis
    PROVE  /\ GroupName \notin redis.groups
           /\ \E n \in Newest(redis.entries) :
                redis' = [redis EXCEPT !.groups = {GroupName}, !.start = n, !.last = n]
BY DEF Start

(* A read moves the undelivered entries up to hi to the pending list.      *)
LEMMA ReadEffect ==
    ASSUME NEW w \in Workers, Read(w)
    PROVE  \E hi \in Undelivered(redis) :
              LET b == {i \in Undelivered(redis) : i <= hi}
              IN /\ redis' = [redis EXCEPT !.last = hi, !.pel = redis.pel \cup b]
                 /\ batch' = [batch EXCEPT ![w] = b] \/ batch' = batch
BY DEF Read, IsBatch

(* What the group has handed out stays pending until its event is stored.  *)
LEMMA SettledStep ==
    /\ TypeOK /\ WorkerInv /\ SettledIsStored(redis) /\ SettledIsStored(rdb)
    /\ [Next]_vars
    => SettledIsStored(redis)' /\ SettledIsStored(rdb)'
<1> SUFFICES ASSUME TypeOK, WorkerInv, SettledIsStored(redis), SettledIsStored(rdb),
                    [Next]_vars
             PROVE  SettledIsStored(redis)' /\ SettledIsStored(rdb)'
  OBVIOUS
<1>1. \A id \in Ids : Stored(id) => id \in Ids' /\ log'[id].key \in StoredKeys'
  BY StoredGrows DEF Stored
<1>2. redis \in Stream /\ rdb \in Stream /\ Len(log) \in Nat
  BY DEF TypeOK
<1>3. redis' = redis => SettledIsStored(redis)'
  BY <1>1, <1>2 DEF SettledIsStored, Stored, Stream
<1>4. SettledIsStored(redis)'
  <2>1. ASSUME NEW e \in Events, Post(e) PROVE SettledIsStored(redis)'
    <3>1. PICK kept \in SUBSET (redis.entries \cup {Len(log) + 1}) :
               redis' = [redis EXCEPT !.entries = kept]
      BY <2>1, XaddEffect
    <3>2. redis.last < Len(log) + 1
      BY <1>2 DEF Stream, Ids
    <3> QED BY <1>1, <1>2, <3>1, <3>2 DEF SettledIsStored, Stored, Stream, Ids
  <2>2. ASSUME NEW w \in Workers, Start(w), redis' # redis PROVE SettledIsStored(redis)'
    <3>1. PICK n \in Newest(redis.entries) :
               redis' = [redis EXCEPT !.groups = {GroupName}, !.start = n, !.last = n]
      BY <2>2, StartEffect
    <3>2. n \in Nat /\ \A id \in redis.entries : id \in Nat
      BY <1>2 DEF Newest, Stream, Ids
    <3> QED BY <1>2, <3>1, <3>2 DEF SettledIsStored, Stream
  <2>3. ASSUME NEW w \in Workers, Read(w) PROVE SettledIsStored(redis)'
    <3>1. PICK hi \in Undelivered(redis) :
            redis' = [redis EXCEPT !.last = hi,
                        !.pel = redis.pel \cup {i \in Undelivered(redis) : i <= hi}]
      BY <2>3, ReadEffect
    <3>2. SUFFICES ASSUME NEW id \in redis.entries, redis.start < id, id <= hi,
                          id \notin redis.pel, id \notin Undelivered(redis)
                   PROVE  id \in Ids' /\ log'[id].key \in StoredKeys'
      BY <1>2, <3>1 DEF SettledIsStored, Stored, Stream
    <3>3. GroupName \in redis.groups /\ id <= redis.last
      BY <1>2, <3>2 DEF Undelivered, Stream, Ids
    <3> QED BY <1>1, <1>2, <3>2, <3>3 DEF SettledIsStored, Stream
  <2>4. ASSUME NEW w \in Workers, Ack(w) PROVE SettledIsStored(redis)'
    <3>1. CASE redis' = redis
      BY <1>3, <3>1
    <3>2. CASE redis' # redis
      <4>1. redis' = [redis EXCEPT !.pel = redis.pel \ {msg[w]}]
        BY <2>4, <3>2 DEF Ack
      <4>2. Stored(msg[w])
        BY <2>4 DEF Ack, WorkerInv
      <4> QED BY <1>1, <1>2, <4>1, <4>2 DEF SettledIsStored, Stored, Stream
    <3> QED BY <3>1, <3>2
  <2>5. ASSUME RedisRestart PROVE SettledIsStored(redis)'
    BY <1>1, <1>2, <2>5 DEF RedisRestart, SettledIsStored, Stored, Stream
  <2>6. ASSUME RedisEvict PROVE SettledIsStored(redis)'
    BY <2>6 DEF RedisEvict, SettledIsStored, NoStream
  <2> QED BY <1>3, <2>1, <2>2, <2>3, <2>4, <2>5, <2>6, StreamChange
<1>5. SettledIsStored(rdb)'
  <2>1. CASE rdb' = rdb
    BY <1>1, <1>2, <2>1 DEF SettledIsStored, Stored, Stream
  <2>2. CASE rdb' # rdb
    <3>1. rdb' = redis /\ redis' = redis
      BY <2>2, SnapshotChange
    <3> QED BY <1>4, <3>1 DEF SettledIsStored
  <2> QED BY <2>1, <2>2
<1> QED BY <1>4, <1>5

(* Only delivered entries of an existing group are pending.                *)
LEMMA PendingStep ==
    /\ TypeOK /\ PendingInv(redis) /\ PendingInv(rdb) /\ [Next]_vars
    => PendingInv(redis)' /\ PendingInv(rdb)'
<1> SUFFICES ASSUME TypeOK, PendingInv(redis), PendingInv(rdb), [Next]_vars
             PROVE  PendingInv(redis)' /\ PendingInv(rdb)'
  OBVIOUS
<1>1. redis \in Stream /\ rdb \in Stream
  BY DEF TypeOK
<1>2. redis' = redis => PendingInv(redis)'
  BY DEF PendingInv
<1>3. PendingInv(redis)'
  <2>1. ASSUME NEW e \in Events, Post(e) PROVE PendingInv(redis)'
    BY <1>1, <2>1, XaddEffect DEF PendingInv, Stream
  <2>2. ASSUME NEW w \in Workers, Start(w), redis' # redis PROVE PendingInv(redis)'
    <3>1. redis.pel = {}
      BY <1>1, <2>2, StartEffect DEF PendingInv, Stream
    <3> QED BY <1>1, <2>2, <3>1, StartEffect DEF PendingInv, Stream
  <2>3. ASSUME NEW w \in Workers, Read(w) PROVE PendingInv(redis)'
    <3>1. PICK hi \in Undelivered(redis) :
            redis' = [redis EXCEPT !.last = hi,
                        !.pel = redis.pel \cup {i \in Undelivered(redis) : i <= hi}]
      BY <2>3, ReadEffect
    <3>2. redis.last < hi /\ hi \in Nat /\ redis.last \in Nat /\ redis.groups # {}
      BY <1>1 DEF Undelivered, Stream, Ids
    <3>3. \A i \in redis.pel : i \in Nat /\ i <= hi
      BY <1>1, <3>2 DEF PendingInv, Stream, Ids
    <3> QED BY <1>1, <3>1, <3>2, <3>3 DEF PendingInv, Stream
  <2>4. ASSUME NEW w \in Workers, Ack(w) PROVE PendingInv(redis)'
    BY <1>1, <1>2, <2>4 DEF Ack, PendingInv, Stream
  <2>5. ASSUME RedisRestart PROVE PendingInv(redis)'
    BY <2>5 DEF RedisRestart, PendingInv
  <2>6. ASSUME RedisEvict PROVE PendingInv(redis)'
    BY <2>6 DEF RedisEvict, PendingInv, NoStream
  <2> QED BY <1>2, <2>1, <2>2, <2>3, <2>4, <2>5, <2>6, StreamChange
<1>4. PendingInv(rdb)'
  BY <1>3, SnapshotChange DEF PendingInv
<1> QED BY <1>3, <1>4

-----------------------------------------------------------------------------
(* No step forgets a loss of Redis data, and a loss is counted.            *)
LEMMA LossCounted ==
    ASSUME TypeOK, [Next]_vars, faults'["loss"] = 0
    PROVE  faults["loss"] = 0 /\ ~RedisRestart /\ ~RedisEvict
<1>1. faults \in [FaultKinds -> Nat] /\ "loss" \in FaultKinds
  BY DEF TypeOK, FaultKinds
<1>2. faults' = faults \/ \E k \in FaultKinds : Fault(k)
  BY DEF Next, Step, Environment, vars, workerVars, Start, NextMessage, Read, IsBatch, ReadNothing,
         Check, AfterCheck, Insert, Backoff, GivesUp, GiveUp, Retry, Ack, Post, Stop, Crash, DbDown, DbRecover, Snapshot,
         RedisRestart, RedisEvict, NoFault, FaultKinds
<1>3. \A k \in FaultKinds : Fault(k) => faults["loss"] <= faults'["loss"]
  BY <1>1 DEF Fault
<1>4. Fault("loss") => faults'["loss"] = faults["loss"] + 1
  BY <1>1 DEF Fault
<1>5. faults["loss"] = 0
  BY <1>1, <1>2, <1>3
<1> QED BY <1>4, <1>5 DEF RedisRestart, RedisEvict

(* What a worker holds shrinks, except by its own read.                    *)
LEMMA HeldChange ==
    ASSUME TypeOK, WorkerInv, [Next]_vars, NEW v \in Workers, ~Read(v)
    PROVE  Held(v)' \subseteq Held(v)
<1>1. msg[v] \in Ids \cup {0} /\ 0 \notin Ids
  BY DEF TypeOK, Ids
<1>2. CASE msg'[v] = msg[v] /\ batch'[v] = batch[v]
  BY <1>2 DEF Held
<1>3. ASSUME NEW w \in Workers, NextMessage(w) PROVE Held(v)' \subseteq Held(v)
  <2>1. phase[w] = "next" /\ msg[w] = 0
    BY <1>3 DEF NextMessage, WorkerInv, Busy
  <2>2. \/ \E m \in batch[w] : /\ msg' = [msg EXCEPT ![w] = m]
                              /\ batch' = [batch EXCEPT ![w] = batch[w] \ {m}]
        \/ UNCHANGED <<batch, msg>>
    BY <1>3 DEF NextMessage
  <2> QED BY <1>2, <2>1, <2>2 DEF Held, TypeOK
<1>4. ASSUME NEW w \in Workers, Backoff(w) \/ Ack(w) \/ Crash(w)
      PROVE  Held(v)' \subseteq Held(v)
  BY <1>2, <1>4 DEF Backoff, GivesUp, GiveUp, Retry, Ack, Crash, Held, TypeOK
<1>5. ASSUME NEW w \in Workers, Read(w) PROVE Held(v)' \subseteq Held(v)
  <2>1. w # v
    BY <1>5
  <2> QED BY <1>2, <1>5, <2>1 DEF Read, IsBatch, TypeOK
<1>6. ASSUME NEW w \in Workers, Start(w) \/ ReadNothing(w) \/ Check(w) \/ Insert(w) \/ Stop(w)
      PROVE  Held(v)' \subseteq Held(v)
  BY <1>2, <1>6 DEF Start, ReadNothing, Check, AfterCheck, Insert, Stop
<1>7. ASSUME NEW e \in Events, Post(e) PROVE Held(v)' \subseteq Held(v)
  BY <1>2, <1>7 DEF Post, workerVars
<1>8. ASSUME DbDown \/ DbRecover \/ Snapshot \/ RedisRestart \/ RedisEvict \/ UNCHANGED vars
      PROVE  Held(v)' \subseteq Held(v)
  BY <1>2, <1>8 DEF DbDown, DbRecover, Snapshot, RedisRestart, RedisEvict, vars, workerVars
<1> QED BY <1>3, <1>4, <1>5, <1>6, <1>7, <1>8 DEF Next, Step, Environment

(* Two workers never hold one entry, and what they hold is pending.        *)
LEMMA ExclusiveStep ==
    TypeOK /\ WorkerInv /\ PendingInv(redis) /\ ExclusiveDelivery /\ [Next]_vars
    => ExclusiveDelivery'
<1> SUFFICES ASSUME TypeOK, WorkerInv, PendingInv(redis), ExclusiveDelivery, [Next]_vars,
                    faults'["loss"] = 0
             PROVE  \A w \in Workers :
                      /\ Held(w)' \subseteq redis'.pel
                      /\ \A v \in Workers \ {w} : Held(v)' \cap Held(w)' = {}
  BY DEF ExclusiveDelivery
<1>1. /\ ~RedisRestart /\ ~RedisEvict
      /\ \A w \in Workers : /\ Held(w) \subseteq redis.pel
                            /\ \A v \in Workers \ {w} : Held(v) \cap Held(w) = {}
  BY LossCounted DEF ExclusiveDelivery
<1>2. redis \in Stream
  BY DEF TypeOK
<1>3. CASE \E w \in Workers : Read(w)
  <2>1. PICK w \in Workers : Read(w)
    BY <1>3
  <2>2. PICK hi \in Undelivered(redis) :
          /\ redis' = [redis EXCEPT !.last = hi,
                        !.pel = redis.pel \cup {i \in Undelivered(redis) : i <= hi}]
          /\ \/ batch' = [batch EXCEPT ![w] = {i \in Undelivered(redis) : i <= hi}]
             \/ batch' = batch
    BY <2>1, ReadEffect
  <2> DEFINE b == {i \in Undelivered(redis) : i <= hi}
  <2>3. b \cap redis.pel = {}
    BY <1>2 DEF Undelivered, PendingInv, Stream, Ids
  <2>4. \A v \in Workers \ {w} : Held(v)' = Held(v)
    BY <2>1 DEF Read, IsBatch, Held, TypeOK
  <2>5. Held(w)' = b \/ Held(w)' = Held(w)
    <3>1. msg' = msg /\ msg[w] = 0 /\ batch[w] = {}
      BY <2>1 DEF Read, IsBatch, WorkerInv, Busy
    <3> QED BY <2>2, <3>1 DEF Held, TypeOK
  <2>6. redis'.pel = redis.pel \cup b
    BY <1>2, <2>2 DEF Stream
  <2> HIDE DEF b
  <2> QED BY <1>1, <2>3, <2>4, <2>5, <2>6
<1>4. CASE ~\E w \in Workers : Read(w)
  <2>1. \A w \in Workers : Held(w)' \subseteq Held(w)
    BY <1>4, HeldChange
  <2>2. CASE \E w \in Workers : Ack(w) /\ redis' # redis
    <3>1. PICK w \in Workers : Ack(w) /\ redis' # redis
      BY <2>2
    <3>2. redis'.pel = redis.pel \ {msg[w]}
      BY <1>2, <3>1 DEF Ack, Stream
    <3>3. msg[w] \in Held(w) /\ msg[w] \notin Held(w)'
      <4>1. msg[w] # 0 /\ msg[w] \notin batch[w]
        BY <3>1 DEF Ack, WorkerInv, Busy
      <4>2. msg'[w] = 0 /\ batch' = batch
        BY <3>1 DEF Ack, TypeOK
      <4> QED BY <4>1, <4>2 DEF Held
    <3> QED BY <1>1, <2>1, <3>2, <3>3
  <2>3. CASE ~\E w \in Workers : Ack(w) /\ redis' # redis
    <3>1. CASE redis' = redis
      BY <1>1, <2>1, <3>1
    <3>2. ASSUME NEW e \in Events, Post(e) PROVE redis'.pel = redis.pel
      BY <1>2, <3>2, XaddEffect DEF Stream
    <3>3. ASSUME NEW w \in Workers, Start(w), redis' # redis PROVE redis'.pel = redis.pel
      BY <1>2, <3>3, StartEffect DEF Stream
    <3> QED BY <1>1, <1>4, <2>1, <2>3, <3>1, <3>2, <3>3, StreamChange
  <2> QED BY <2>2, <2>3
<1> QED BY <1>3, <1>4

-----------------------------------------------------------------------------
LEMMA InvStep == IInv /\ [Next]_vars => IInv'
BY TypeStep, RowsStep, WorkerStep, SettledStep, PendingStep, ExclusiveStep DEF IInv

LEMMA Invariance == Spec => []IInv
BY InitInv, InvStep, PTL DEF Spec

(* The variables of the pipeline always have their types.                  *)
THEOREM TypeCorrect == Spec => []TypeOK
BY Invariance, PTL DEF IInv

(* However often a key is posted, delivered, retried or replayed by a      *)
(* rolled-back Redis, the events table has at most one row of it.          *)
THEOREM UniqueRows == Spec => []OneRowPerKey
BY Invariance, PTL DEF IInv

(* What the group has handed out and no longer has pending is a row: no    *)
(* crash, lost reply or outage makes Subscribe acknowledge unstored work.  *)
THEOREM NothingAckedUnstored == Spec => []AckedIsStored
<1>1. IInv => AckedIsStored
  BY DEF IInv, AckedIsStored
<1> QED BY <1>1, Invariance, PTL

(* While Redis has lost no data, no entry is in the hands of two workers.  *)
THEOREM OneWorkerPerEntry == Spec => []ExclusiveDelivery
BY Invariance, PTL DEF IInv

(* The pipeline implements the abstract sink: a row appears only for a key *)
(* that was posted and has none.                                           *)
THEOREM ImplementsSink == Spec => SinkSpec
<1> DEFINE offered == {log[i].key : i \in DOMAIN log}
           stored == [i \in DOMAIN rows |-> rows[i].key]
<1>1. Init => Sink!SinkInit
  BY DEF Init, Sink!SinkInit
<1>2. IInv /\ [Next]_vars => [Sink!SinkNext]_(Sink!sinkVars)
  <2> SUFFICES ASSUME IInv, [Next]_vars PROVE [Sink!SinkNext]_(Sink!sinkVars)
    OBVIOUS
  <2>1. TypeOK /\ WorkerInv
    BY DEF IInv
  <2>2. CASE rows' # rows
    <3>1. PICK w \in Workers : /\ Insert(w)
                               /\ Insertable(w)
                               /\ rows' = Append(rows, log[msg[w]])
      BY <2>1, <2>2, RowsChange
    <3>2. msg[w] \in Ids /\ log' = log
      BY <2>1, <3>1 DEF Insert, WorkerInv, Busy, TypeOK
    <3>3. rows \in Seq(Entries) /\ log[msg[w]] \in Entries /\ log \in Seq(Entries)
      BY <2>1, <3>2 DEF TypeOK, Ids
    <3>4. log[msg[w]].key \in offered
      BY <3>2, <3>3 DEF Ids
    <3>5. \A i \in DOMAIN stored : stored[i] # log[msg[w]].key
      BY <3>1 DEF Insertable, Key, StoredKeys
    <3>6. stored' = Append(stored, log[msg[w]].key)
      BY <3>1, <3>3
    <3> QED BY <3>2, <3>4, <3>5, <3>6 DEF Sink!SinkNext, Sink!Store
  <2>3. CASE rows' = rows /\ log' = log
    BY <2>3 DEF Sink!sinkVars
  <2>4. CASE rows' = rows /\ log' # log
    <3>1. PICK e \in Events : Post(e)
      BY <2>4 DEF Next, Step, Environment, vars, workerVars, Start, NextMessage, Read, IsBatch,
             ReadNothing, Check, AfterCheck, Insert, Backoff, GivesUp, GiveUp, Retry, Ack, Stop, Crash, DbDown, DbRecover,
             Snapshot, RedisRestart, RedisEvict
    <3>2. /\ log' \in Seq(Entries)
          /\ Len(log') = Len(log) + 1
          /\ \A i \in Ids : log'[i] = log[i]
      BY <2>1, <3>1, PostLog
    <3>3. log \in Seq(Entries) /\ Len(log) \in Nat
      BY <2>1 DEF TypeOK
    <3>4. log'[Len(log')].key \in Keys
      <4>1. log'[Len(log')] \in Entries
        BY <3>2, <3>3
      <4> QED BY <4>1 DEF Entries
    <3>5. offered' = offered \cup {log'[Len(log')].key}
      BY <3>2, <3>3 DEF Ids
    <3> QED BY <2>4, <3>4, <3>5 DEF Sink!SinkNext, Sink!Offer
  <2> QED BY <2>2, <2>3, <2>4
<1> QED BY <1>1, <1>2, Invariance, PTL DEF Spec, SinkSpec, Sink!SinkSpec

-----------------------------------------------------------------------------
(* How long a batch takes.                                                 *)

LEMMA BatchIsFinite ==
    ASSUME TypeOK, NEW w \in Workers
    PROVE  IsFiniteSet(batch[w]) /\ Cardinality(batch[w]) \in Nat
<1>1. IsFiniteSet(Ids)
  BY FS_Interval DEF TypeOK, Ids
<1> QED BY <1>1, FS_Subset, FS_CardinalityType DEF TypeOK

(* What is left of the message at hand: nothing if there is none.          *)
LEMMA MessageStepsType ==
    ASSUME TypeOK, WorkerInv, NEW w \in Workers
    PROVE  /\ MessageSteps(w) \in Nat
           /\ msg[w] # 0 => MessageSteps(w) > 0
           /\ msg[w] = 0 => MessageSteps(w) = 0
<1>1. MaxRetries \in Nat /\ attempt[w] \in 0..(MaxRetries - 1)
  BY QueueAssumption DEF TypeOK, Attempts
<1>2. phase[w] \in Busy <=> msg[w] # 0
  BY DEF WorkerInv
<1> QED BY <1>1, <1>2 DEF MessageSteps, Busy

LEMMA OneLess ==
    ASSUME NEW k \in Nat, NEW c \in Nat
    PROVE  k * c \in Nat /\ k * (c - 1) = k * c - k /\ (c > 0 => k * c >= k)
OBVIOUS

(* Taking up the next message costs less than it saves.                    *)
LEMMA TakeUpShrinks ==
    ASSUME TypeOK, WorkerInv, NEW w \in Workers, NextMessage(w), Held(w) # {}
    PROVE  BatchSteps(w)' < BatchSteps(w)
<1> DEFINE k == 3 * MaxRetries + 2
           c == Cardinality(batch[w])
<1>1. phase[w] = "next" /\ msg[w] = 0
  BY DEF NextMessage, WorkerInv, Busy
<1>2. PICK m \in batch[w] : /\ batch' = [batch EXCEPT ![w] = batch[w] \ {m}]
                            /\ phase' = [phase EXCEPT ![w] = "check"]
                            /\ attempt' = attempt
  BY <1>1 DEF NextMessage, Held
<1>3. batch'[w] = batch[w] \ {m} /\ phase'[w] = "check"
  BY <1>2 DEF TypeOK
<1>4. c \in Nat /\ Cardinality(batch'[w]) = c - 1
  BY <1>3, BatchIsFinite, FS_RemoveElement
<1>5. MaxRetries \in Nat /\ attempt[w] \in 0..(MaxRetries - 1)
  BY QueueAssumption DEF TypeOK, Attempts
<1>6. MessageSteps(w) = 0 /\ MessageSteps(w)' \in 0..(3 * MaxRetries + 1)
  BY <1>1, <1>2, <1>3, <1>5 DEF MessageSteps
<1>7. k \in Nat
  BY <1>5
<1> HIDE DEF k, c
<1>8. k * (c - 1) = k * c - k /\ k * c \in Nat
  BY <1>4, <1>7, OneLess
<1>9. BatchSteps(w) = k * c + 0 /\ BatchSteps(w)' = k * (c - 1) + MessageSteps(w)'
  BY <1>4, <1>6 DEF BatchSteps, k, c
<1>10. MessageSteps(w)' < k /\ MessageSteps(w)' \in Nat
  BY <1>5, <1>6 DEF k
<1> QED BY <1>7, <1>8, <1>9, <1>10

(* A worker at work on a message comes nearer to the next one.             *)
LEMMA WorkShrinks ==
    ASSUME TypeOK, WorkerInv, NEW w \in Workers, Check(w) \/ Insert(w) \/ Backoff(w) \/ Ack(w)
    PROVE  BatchSteps(w)' < BatchSteps(w)
<1>1. /\ MaxRetries \in Nat /\ attempt[w] \in 0..(MaxRetries - 1)
      /\ phase \in [Workers -> Phases] /\ attempt \in [Workers -> Attempts]
  BY QueueAssumption DEF TypeOK, Attempts
<1>2. batch' = batch
  BY DEF Check, Insert, Backoff, Ack
<1>3. MessageSteps(w)' \in Nat /\ MessageSteps(w)' < MessageSteps(w)
  <2>1. CASE Check(w)
    BY <1>1, <2>1 DEF Check, AfterCheck, MessageSteps
  <2>2. CASE Insert(w)
    BY <1>1, <2>2 DEF Insert, MessageSteps
  <2>3. CASE Backoff(w)
    BY <1>1, <2>3 DEF Backoff, GivesUp, GiveUp, Retry, MessageSteps
  <2>4. CASE Ack(w)
    BY <1>1, <2>4 DEF Ack, MessageSteps
  <2> QED BY <2>1, <2>2, <2>3, <2>4
<1> DEFINE rest == (3 * MaxRetries + 2) * Cardinality(batch[w])
<1>4. rest \in Nat /\ MessageSteps(w) \in Nat
  BY <1>1, BatchIsFinite, MessageStepsType, OneLess
<1>5. BatchSteps(w) = rest + MessageSteps(w) /\ BatchSteps(w)' = rest + MessageSteps(w)'
  BY <1>2 DEF BatchSteps
<1> HIDE DEF rest
<1> QED BY <1>3, <1>4, <1>5

(* So does one that dies with something in hand: it has nothing then.      *)
LEMMA CrashShrinks ==
    ASSUME TypeOK, WorkerInv, NEW w \in Workers, Crash(w), Held(w) # {}
    PROVE  BatchSteps(w)' < BatchSteps(w)
<1> DEFINE k == 3 * MaxRetries + 2
           c == Cardinality(batch[w])
<1>1. k \in Nat \ {0} /\ c \in Nat /\ MessageSteps(w) \in Nat
  BY QueueAssumption, BatchIsFinite, MessageStepsType
<1>2. c > 0 \/ MessageSteps(w) > 0
  BY <1>1, BatchIsFinite, MessageStepsType, FS_EmptySet DEF Held
<1>3. phase'[w] = "down" /\ batch'[w] = {}
  BY DEF Crash, TypeOK
<1>4. MessageSteps(w)' = 0 /\ Cardinality(batch'[w]) = 0
  BY <1>3, FS_EmptySet DEF MessageSteps
<1> HIDE DEF k, c
<1>5. BatchSteps(w) = k * c + MessageSteps(w) /\ BatchSteps(w)' = k * 0 + 0
  BY <1>4 DEF BatchSteps, k, c
<1>6. k * c \in Nat /\ k * 0 = 0 /\ (c > 0 => k * c >= k)
  BY <1>1, OneLess
<1> QED BY <1>1, <1>2, <1>5, <1>6

(* No step of another actor touches what a worker has in hand.             *)
LEMMA OthersLeaveBatch ==
    ASSUME TypeOK, WorkerInv, [Next]_vars, NEW v \in Workers, Held(v) # {}, ~Step(v), ~Crash(v)
    PROVE  UNCHANGED <<phase[v], batch[v], msg[v], attempt[v]>>
<1> DEFINE Same == UNCHANGED <<phase[v], batch[v], msg[v], attempt[v]>>
<1>1. ASSUME NEW w \in Workers, Step(w) PROVE Same
  <2>0. w # v
    BY <1>1
  <2>1. CASE NextMessage(w) \/ Read(w) \/ ReadNothing(w)
    BY <2>0, <2>1 DEF NextMessage, Read, ReadNothing, TypeOK
  <2>2. CASE Check(w) \/ Insert(w) \/ Ack(w)
    BY <2>0, <2>2 DEF Check, Insert, Ack, TypeOK
  <2>3. CASE Backoff(w)
    BY <2>0, <2>3 DEF Backoff, GiveUp, Retry, TypeOK
  <2> QED BY <1>1, <2>1, <2>2, <2>3 DEF Step
<1>2. ASSUME NEW w \in Workers, Start(w)
      PROVE  Same
  <2>1. phase[v] # "down"
    BY DEF Held, WorkerInv, Busy
  <2> QED BY <1>2, <2>1 DEF Start, TypeOK
<1>3. ASSUME NEW w \in Workers, Stop(w) PROVE Same
  BY <1>3 DEF Stop
<1>4. ASSUME NEW e \in Events, Post(e) PROVE Same
  BY <1>4 DEF Post, workerVars
<1>5. ASSUME DbDown \/ DbRecover \/ Snapshot \/ RedisRestart \/ RedisEvict \/ UNCHANGED vars
      PROVE  Same
  BY <1>5 DEF DbDown, DbRecover, Snapshot, RedisRestart, RedisEvict, vars, workerVars
<1>6. ASSUME NEW w \in Workers, Crash(w) PROVE Same
  <2>1. w # v
    BY <1>6
  <2> QED BY <1>6, <2>1 DEF Crash, TypeOK
<1> SUFFICES Same
  OBVIOUS
<1> HIDE DEF Same
<1>7. CASE Environment
  <2>1. CASE \E w \in Workers : Stop(w) \/ Crash(w)
    BY <1>3, <1>6, <2>1
  <2> QED BY <1>4, <1>5, <1>7, <2>1 DEF Environment
<1> QED BY <1>1, <1>2, <1>5, <1>7 DEF Next

(* A worker with something in hand is done with it after a number of its   *)
(* own steps that MaxRetries and the batch bound, whatever else happens.   *)
THEOREM BatchesShrink == Spec => BatchShrinks /\ [](\A w \in Workers : BatchSteps(w) \in Nat)
<1>1. ASSUME IInv, [Next]_vars, NEW w \in Workers, Held(w) # {}
      PROVE  \/ BatchSteps(w)' < BatchSteps(w)
             \/ UNCHANGED <<phase[w], batch[w], msg[w], attempt[w]>>
  <2>1. TypeOK /\ WorkerInv
    BY <1>1 DEF IInv
  <2>2. ~(Read(w) \/ ReadNothing(w))
    BY <1>1, <2>1 DEF Held, WorkerInv, Busy, Read, ReadNothing
  <2> QED BY <1>1, <2>1, <2>2, TakeUpShrinks, WorkShrinks, CrashShrinks, OthersLeaveBatch DEF Step
<1>2. IInv /\ [Next]_vars
        => (\A w \in Workers :
               Held(w) # {} =>
                  BatchSteps(w)' < BatchSteps(w) \/ UNCHANGED <<phase[w], batch[w], msg[w], attempt[w]>>)
  BY <1>1
<1>3. IInv => (\A w \in Workers : BatchSteps(w) \in Nat)
  <2> SUFFICES ASSUME TypeOK, WorkerInv, NEW w \in Workers PROVE BatchSteps(w) \in Nat
    BY DEF IInv
  <2>1. 3 * MaxRetries + 2 \in Nat
    BY QueueAssumption
  <2>2. (3 * MaxRetries + 2) * Cardinality(batch[w]) \in Nat
    BY <2>1, BatchIsFinite, OneLess
  <2> QED BY <2>2, MessageStepsType DEF BatchSteps
<1> QED BY <1>2, <1>3, Invariance, PTL DEF Spec, BatchShrinks
=============================================================================
