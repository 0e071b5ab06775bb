# Formal model of the scaling course's services

TLA+ modules, TLC runs and TLAPS proofs for the Go programs of this repository: the steps of a
course on scaling a small web service (`step00` to `step14`). Each step is a program of its own, so
the project is a set of independent models, one for each program that keeps state and has something
to lose, and the few that share a mechanism are composed.

## 1. Inventory

| Part | State | Operations | What is hard | What makes it correct |
|---|---|---|---|---|
| Event queue, step 11 (`app/api`, `app/queue`, `app/worker`) | Redis stream `events`, group `workers` with its read position and pending list; MySQL table `events`; per worker: batch, message, attempts | `POST /events` (XADD), `Subscribe` (XREADGROUP, handler, XACK), `ProcessEvent` (check, INSERT), `withRetry`, `CreateGroup`, signals | concurrent workers, lost replies, crashes and signals, MySQL outage, snapshots and eviction of Redis, trimming | a key is stored at most once; nothing is acknowledged unstored; one owner for an entry; batches end; entries are delivered |
| Circuit breaker, step 12 (`circuit_breaker.go`) | state, failure counter, time of the last failure | `Call`, `State`, `GetStats` | the mutex is released while the function runs; late reports; several half-open tests | state and counter agree; the counter counts consecutive failures and is bounded |
| User handler, step 12 (`resilient_handler.go`) | Redis keys `user:<id>` and `user:<id>:stale`, the breaker, per request: attempt, result | `GET /users/:id`, `/health`, `/circuit-breaker/status` | retries around the breaker, disconnecting clients, outages of MySQL and Redis, TTLs | every request is answered; a missing user is never served; an open breaker recovers |
| Shard backfill, step 8 (`backfill.go`, `db_resolver.go`) | users of each shard, `migration_progress` of each shard, per run: cursor, batch | `Run`: fetch, insert by shard, save progress; interrupt; restart | overlapping runs, failure between two shards, crash between insert and save, ids that commit out of order | rows are in their tenant's shard; progress never runs ahead of the copy; "Complete!" is true |
| Cache-aside server, step 4 (`cache_aside.go`) | keys `user:<id>`, `tenant:<id>:users`; MySQL table `users` | read a user, list a tenant, create, update, invalidate | reader and writer interleave, lost DELs, restart between write and DEL, updates that name no tenant | staleness has one of the known causes, and ends |
| Schema migration, step 9 (`v1_handler.go`, `v2_handler.go`, `backfill.go`, SQL) | schema (which columns exist), rows, progress | create, update, get in v1 and v2; backfill; expand, contract | look-at-the-schema-then-write, v1 and v2 at once, name splitting that differs by path | both representations agree; no request fails because of the schema; contract loses nothing |
| Redis sharding, step 7 (`consistent_hash.go`, `cache_store.go`) | ring, sorted hashes, nodes; the stores | `Add`, `Remove`, `Get`, `GetN`, `PickShard`; `Get`, `Set`, `Del` of the stores | colliding virtual nodes, the order of a map, a shard used after the lock is released | the owner of a key is the next node clockwise, whatever was added and removed; changes move only the changed node's keys; values are only where their key was routed |
| Tenant resolvers, step 8 (`db_resolver.go`) | shards, ranges, directory | `ResolveByTenantID` of three resolvers, `AssignTenant` | overlapping ranges, wrong indices, an assignment between a resolution and its query | every resolution names a shard that exists; a tenant with one shard finds what it wrote |
| Read replica, step 3 (`db_resolver.go`) | health flag, watcher, two pools; the rows of primary and replica | `NewDBCluster`, `openDB`, `Reader`, `Writer`, `watchReplica`; read, list, create | a flag that is seconds old, replication lag, a silent replica, a full pool, a ping with a deadline | the flag follows within a period and a timeout, both ways; reads rewind only when it changes; the watcher never stops |
| Strangler, step 10; shared Echo API; metrics, step 13 | none that outlives a request, or counters | | | |
| Scripts, Terraform, SQL seeds, k6, Laravel stub | | | the faults they provoke are actions of the models | |

The programs interact with MySQL and Redis only; those are part of each model, as far as the
commands the code sends them. `PROJECT.json` lists under `hazards` what is hard to test in this
code, each at its line, with the properties that watch it.

## 2. Modules

| Module | Models | Extends |
|---|---|---|
| `EventSink` | what the event pipeline promises: an offered key may be stored, once | |
| `EventQueue` | step 11; refines `EventSink` | |
| `CircuitBreaker` | the breaker alone: its two critical sections and the clock | |
| `ResilientHandler` | the handler of step 12 around the breaker; refines `CircuitBreaker` | `CircuitBreaker` |
| `RowCopy` | what the backfill promises: rows appear, are copied to their shard for good, and a claim to be complete up to an id is true when made | |
| `ShardBackfill` | step 8: runs, shards, source; refines `RowCopy` | |
| `CacheAside` | step 4 | |
| `SchemaMigration` | step 9: both handlers, the backfill, the operator | |
| `MC...` | small instances for TLC where the `.cfg` alone cannot say them: bounds per kind of fault, symmetry, names, small rings | each its module |
| `ConsistentHash` | the ring of step 7 as a value, and its operations | |
| `ShardRouting` | steps 7 and 8: four routers (modulus, ranges, directory, ring) and the requests that use them | `ConsistentHash` |
| `ReadReplica` | step 3: the server, its watcher, its requests, the two databases and the clock | |
| `...Proofs` | theorems and their lemmas | each its module, `TLAPS` |

### How a model corresponds to the code

One action is one stretch of code between two points at which somebody else can act: a command to
Redis or MySQL, a critical section, a wait. Everything such a stretch does to the state is in the
action. `PROJECT.json` maps each definition to the lines it stands for.

- **EventQueue.** `phase[w]` is the program counter of a worker: `next` (the loops of `Subscribe`),
  `reading` (XREADGROUP), `check` and `insert` (`ProcessEvent`), `backoff` (the wait of `withRetry`),
  `ack` (XACK), `down` (no process). Stream ids are positions in `log`, the history of all XADDs;
  `redis` is what Redis has now and `rdb` its last snapshot. The consumer group is a record of its
  read position and its pending list. A lost reply is the command executed and the caller told of an
  error. `Stop` is the cancelled context: from then on MySQL and Redis calls of that worker fail.
- **CircuitBreaker.** `Admit` is the first critical section of `Call` (with the OPEN to HALF_OPEN
  step of `currentState`), `Succeed` and `Fail` the second; between them the function runs and
  `permit[c]` remembers the branch the caller is in. Time since the last failure is `age`, in ticks.
  `streak` is a history variable.
- **ResilientHandler.** `phase[c]` follows `getUserHandler` and the functions it calls. `gone` are the
  requests whose client has disconnected: their context is cancelled and every later call of theirs
  fails. `Query` is the protected function together with its report to the breaker.
- **ShardBackfill.** A row is its id. `Allocate` hands out an AUTO_INCREMENT id and `Commit` makes the
  row visible, not necessarily in the order of ids. `InsertFails` and `SaveFails` cover a statement
  that was not executed and one whose answer was lost. `late` is a history variable: rows that became
  visible after a run, or a saved progress, had passed their id.
- **CacheAside.** A row's content is the number of its writes; a list's is the set of its users with
  their contents. A read is `Miss`, `Query`, `Fill`; a write is `Create` or `Update`, then
  `Invalidate`. A hit changes nothing. `excused` is a history variable that records why a key may be
  stale.
- **SchemaMigration.** `schema` is the set of columns `users` has, of the three that the migration
  touches. A text is a sequence of letters (each stands for any piece without white space), spaces
  and other white space, which only `strings.TrimSpace` tells from a letter: `SplitName` trims and
  cuts at the first space, `SubstringIndex` cuts the text as it is stored, at its first and its last
  space, and v1 stores what it was sent. `version[c]` is the handler at work on a request and
  `known[c]` what its look-up of the schema has found, nothing when it failed; the id and the body
  are chosen in the statement, so one action stands for every request of its kind. `Named` are the
  columns the statement names, and MySQL's refusals follow from comparing them with `schema`. A run
  is `Begin`, then `SelectBatch`, `UpdateBatch`, `Save` in a loop; `last_processed_id` is only logged
  by the code and left out. `Expand`, `Deploy`, `Retire` and `Contract` are the operator, who rolls
  versions out and back in any order during the transition and keeps the checklist of
  `step3_contract.sql` before contracting. `excused` (rows whose last update did not know all of
  their columns) and `filled` are history variables.
- **ConsistentHash.** A ring is a record of `nodes`, `ring` (hash to node) and `sorted`, as in the
  struct. `place` says where the virtual nodes of each node are; it may put two nodes on one hash,
  which CRC32 does not exclude. Each method holds the mutex throughout, so each is an operator:
  `AddTo` (which takes over an occupied position), `RemoveFrom` (which deletes a position even if
  another node has it), `Owner` (`Get`), `GetN`. The walk of `GetN` with its set of seen nodes is
  given by its result: nodes in the order in which their first positions are met.
- **ShardRouting.** `router` is one of the four with its configuration. A request is `Resolve` (under
  the read lock) and then `Set`, `Del` or `Answer` on the shard it has got, in `handle`; between the
  two `Add`, `Remove`, `AssignTenant` or a restart with another configuration may come. `data` is
  what the shards have; `latest` and `been` are history variables: the last write of a key and the
  shards it was ever routed to.
- **ReadReplica.** `stage` and `attempt` are `NewDBCluster` and the loop of `openDB`; `watch` and
  `elapsed` are the watcher: waiting for the ticker, pinging, or having a result not yet stored under
  the lock. A request is `Read` or `CreateUser` (the choice of a pool), `Connect` (a connection of
  that pool, waited for without limit), then an answer or an error. A database is up, down (refuses)
  or hung (keeps silent). The clock advances by seconds and never past a deadline: the ticker's tick,
  the ping's timeout and the storing of a result happen on time, and so the bounds below are about
  the code's constants, not about scheduling. `downFor`, `wellFor`, `calm` and `seen` are history
  variables.

## 3. Runs

Bounds are named constants: each kind of fault has a budget, after which it does not happen again.
All passing runs check for deadlock as well.

| Run | Instance | Shows |
|---|---|---|
| `eventqueue_safety` | 2 workers (symmetric), 2 events, one with a header key, 2 XADDs, batches of 2, stream limit 1, 2 attempts, each fault once | types, one row per key, acknowledged means stored, one owner per entry, refinement of `EventSink` |
| `eventqueue_liveness` | as above, no loss of Redis data, one event MySQL refuses, stream limit 2 | batches end, entries get a first delivery, accepted events are stored without faults |
| `eventqueue_outage` | 1 worker, 1 event, one outage | *violated*: "processed automatically after MySQL has recovered" |
| `resilienthandler` | 2 callers, an existing and a missing user, threshold 2, 2 attempts, 1 fault | breaker invariants under late reports, the counter's bound, refinement of `CircuitBreaker`; requests are answered, the breaker recovers |
| `resilienthandler_streak` | 2 callers | *violated*: OPEN only after that many consecutive failures |
| `shardbackfill` | 2 overlapping runs, 2 shards, 3 rows, batches of 2, 1 fault | progress never ahead of the copy, completion is true, refinement of `RowCopy` (which includes the routing); every row is copied, late ones excepted |
| `schemamigration` | 1 request at a time, 2 overlapping runs, 2 ids, 2 writes, 1 fault; the old row has a name of three words, of one, or with white space at both ends; clients send one with a space at its end, in any fields of a body | both versions show the same names, informed requests succeed, progress is not overstated, the migration changes no name that clients see; every row is filled |
| `schemamigration_words` | 1 request, 1 run, no fault | *violated*: what follows the first space goes to `last_name` |
| `cacheaside_safety` | 3 requests, 1 user, 2 tenants, 2 writes, 1 fault | staleness is explained, and ends |
| `cacheaside_stale` | 2 requests, no fault | *violated*: the next request gets the latest data |
| `shardrouting` | hashes 0 to 3, 3 nodes of which 2 have stores, 1 or 2 positions per node, 256 placements with and without collisions; 2 shards, 2 keys (one negative), two tables of ranges (overlapping; with a gap), two directories (one with an index that no shard has); 2 requests, 2 writes, 3 changes of the router | every route names a shard that exists; values are only where their key was routed; the ring's owner is the next node clockwise; minimal movement; the second of `GetN` inherits |
| `readreplica` | 2 clients, a pool of 1, 2 pings at start, period 2 and timeout 1, 1 row, 2 faults | detection and failback within period + timeout; reads rewind only when the flag changes; `replica_used` is right unless it did; the watcher goes on |

Why these bounds are enough: a race in these programs needs two actors. A third report to the breaker (two
are let through and one has already reported) comes from a caller's retry or its next request; for
any number of callers there are the proofs. Two events let a
header key be posted twice and let trimming, a batch and a later entry meet. A stream limit of 1 or
2, a threshold of 2 and 2 attempts are the least that distinguish "below", "at" and "past" the
limit. Three rows and batches of 2 give a full batch, a short one and one split over two shards. The
migration run has one request at a time: it races with the operator and with two backfill runs, and
a second request would act on a row as the backfill does, in one statement; the proofs cover any
number of requests. Three nodes are the least for which a key may move between two nodes that
stay, and the placements in a hash space of 4 have nodes before and after each other, interleaved and
colliding, and hashes that wrap around; three changes of the router add, remove and add again. For the replica only the order of the
deadlines matters (timeout below period); a pool of 1 is full as soon as a request has a connection,
and two faults are a replica that stops twice, or stops with a lost ping. The two ways of
splitting differ on a name of three words, on one with white space at an end and on one with two spaces
in a row (which v2 makes of a first_name that ends with a space). For the safety properties the proofs remove the bounds.

### Fairness

- A started worker, request or run keeps going: every call the code makes has a timeout, a blocking
  limit or an error path (`BLOCK` 5 s, `DBTimeout` 5 s, the backoff's timer). MySQL calls of the
  worker and of the backfill have no deadline of their own; there fairness is the driver's and the
  network's.
- Stopped workers and finished backfills are started again, and an outage of MySQL ends (`Operated`,
  `FairSpec` of `ShardBackfill` and of `SchemaMigration`): an operator's duty, needed only for
  `EventuallyDelivered`, `EventuallyCopied`, `EventuallyMigrated` and the outage run.
- The replica's watcher runs when it can and time passes (`Watcher`, `Tick` of `ReadReplica`): a
  goroutine of its own that waits only for a ticker, a ping with a deadline, and a lock nobody keeps.
  Requests, connections and databases get no fairness there: a query may keep the pool for ever.
- TTLs expire keys (`Expire`, `ExpireKey`), time passes (`Clock`) and clients keep asking:
  `BreakerRecovers` needs all three, since a breaker is only reopened by a call that reaches it.
- Weak fairness suffices everywhere. Faults are bounded by their budgets, never made fair.

### Disagreements with comments and documents

The four violation runs each quote a sentence of the repository that the code does not keep; they
are listed under `findings` in `PROJECT.json`. In short: pending messages are never read again;
half-open lets any number of tests through, so one failure can open a closed breaker; a racing reader
puts an old row back into the cache; the migration's backfill keeps the first and the last word of a
name and loses those in between.

Four more, seen in the models and without a run of their own:

- A signal cancels the context of the message being processed, which is given up unstored (`Stop` in
  `EventQueue`), though the README of step 11, line 311, has the worker complete it.
- Reads fail for up to 7 s after the replica has stopped (`Fails` in `ReadReplica`, until
  `DetectedInTime` takes effect), though the README of step 3, line 212, expects an error rate of 0 %.
- The README of step 9, lines 222 to 227, forbids v2 before the backfill has ended, because rows that
  are not filled would be NULL and shown blank; and `v2_handler.go:4` has v2 deployed after it. The code
  falls back to a split of `name` as long as that column exists (`ShownByV2`; lines 9 to 11 and 131 to
  134 of `v2_handler.go`), so no row is blank for want of the backfill. The operator of the model may
  therefore serve v2 from `Expand` on (`Deploy`), and `VersionsAgree`, `InformedNeverFails` and
  `MigrationUnseen` hold on rows that are not filled because of that fallback.
- `v2_handler.go:7` and the README of step 9, line 42, say that v2 writes the new columns only and not
  `name`. It writes `name` with every INSERT and UPDATE until the column is dropped (`Named`,
  `FromParts`; lines 189 to 195 and 246 to 250). `VersionsAgree` depends on it: with v2 as described
  there, v1 would go on showing the old name of a row that v2 has updated.

## 4. Proofs

Every theorem holds for all values of the constants under the `ASSUME` of its module, which asks no
more than that bounds are natural numbers, that attempts, batches and limits are positive, and that
sets of users or events are contained as their names say.

| Theorem | Property | Argument |
|---|---|---|
| `EventQueueProofs!TypeCorrect`, `UniqueRows`, `NothingAckedUnstored` | `TypeOK`, `OneRowPerKey`, `AckedIsStored` | below |
| `EventQueueProofs!OneWorkerPerEntry` | `ExclusiveDelivery` | without data loss, everything held is at or before the read position and in the pending list |
| `EventQueueProofs!ImplementsSink` | `SinkSpec` | `Insert` maps to `Store`, `Post` to `Offer`, all else to a stutter |
| `EventQueueProofs!BatchesShrink` | `BatchShrinks` | below, *Variants* |
| `CircuitBreakerProofs!BreakerTypeCorrect`, `StateMatchesCounter`, `ClosedCountsConsecutive`, `CounterStaysBounded` | `BreakerTypeOK`, `CounterAgrees`, `CountsConsecutive`, `CounterBounded` | the last by counting: the overshoot plus the running calls is at most the number of callers |
| `ResilientHandlerProofs!HandlerUsesBreaker` | `BreakerSpec` | every step of the handler is a step of the breaker or leaves it alone, so the breaker's theorems hold in the handler |
| `ResilientHandlerProofs!HandlerTypeCorrect`, `ServesOnlyExisting` | `TypeOK`, `OnlyExistingServed` | a request that saves has found its row |
| `ResilientHandlerProofs!RequestsShorten` | `RequestShortens` | below, *Variants* |
| `ShardBackfillProofs!TypeCorrect`, `RowsAreRouted`, `NoRowSkipped`, `CompletionIsTrue` | `TypeOK`, `NoContamination`, `NothingSkipped`, `CompleteIsComplete` | below |
| `ShardBackfillProofs!ImplementsCopy` | `CopySpec` | an INSERT maps to `CopyRows`, a written progress to `Claim`, ids and commits to `GiveId` and `Appear`, all else to a stutter |
| `ShardBackfillProofs!RunsShorten` | `RunShortens` | below, *Variants* |
| `CacheAsideProofs!TypeCorrect`, `StalenessExplained` | `TypeOK`, `StaleIsExcused` | below |
| `SchemaMigrationProofs!TypeCorrect`, `BothVersionsAgree`, `InformedRequestsSucceed`, `ProgressIsTrue` | `TypeOK`, `VersionsAgree`, `InformedNeverFails`, `ProgressNotOverstated` | below |
| `SchemaMigrationProofs!RunsShorten` | `RunShortens` | below, *Variants* |
| `SchemaMigrationProofs!NamesAreKept` | `MigrationUnseen` | below |
| `ShardRoutingProofs!TypeCorrect`, `KeysArePlaced`, `OwnerIsClockwise`, `MovesAreMinimal`, `NextNodeTakesOver` | `TypeOK`, `Placed`, `Clockwise`, `OnlyItsKeysMove`, `NextInLine` | below |
| `ShardRoutingProofs!ReplicasInRingOrder` | `RingOrder` (of the proof module) | below |
| `ReadReplicaProofs!TypeCorrect`, `Detection`, `Failback`, `ReadsDoNotRewind`, `ListsTellRight` | `TypeOK`, `DetectedInTime`, `FailsBackInTime`, `NoRewind`, `ToldRight` | below |

- **EventQueue.** `AckedIsStored` is not inductive: a worker in phase `ack` is about to take its entry
  from the pending list, so `WorkerInv` adds that the event of such a worker is stored (and that a
  worker has a message exactly in the busy phases); the snapshot `rdb` must satisfy the same as
  `redis`, because a restart returns to it; and `PendingInv` keeps pending entries at or before the
  read position.
- **ShardBackfill.** `NothingSkipped` needs the same of every cursor as of every saved progress, and
  within a batch: a row of the batch is either copied or its shard is still in `todo`, and an owed row
  between the cursor and the end of the batch is in the batch. The refinement needs the same of the
  cursor: what a run writes as progress is true because it is true of its cursor. A claim of
  `RowCopy` may be taken back (an older run overwrites a newer one's progress) and still none that
  stands is false, since a row that would make it so is `late`.
- **CacheAside.** `StaleIsExcused` needs the same of what a reader has fetched and not yet SET: it is
  the current content, or the key is excused.
- **SchemaMigration.** The invariant has three parts besides types. `RowsInv` gives the shape of a row
  for each schema: a name and no parts before `Expand`, a name and either both parts or none during
  the transition, both parts after `Contract`. With it, `VersionsAgree` is inductive.
  `VersionsInv` says that v2 never works on the old table nor v1 on the contracted one, which
  `Checklist` and `Deploy` guarantee and `InformedNeverFails` needs. `RunsInv` keeps runs off the
  unexpanded table and every run's total at or below `filled`. Lemmas about `SplitName`,
  `SubstringIndex` and `Merge` carry the data. The assumptions used are that `Null` is no text, that
  names are nonempty texts and that `Ids` is finite.
  `NamesAreKept` compares what v2 shows of a row before and after each step that is no write of a
  handler. The two ways of splitting agree on tidy names (`TidyNamesSplit`): nothing to trim and at most
  one space, so that the first is also the last. So the backfill is seen only in names that are not
  tidy, which it cuts: of three words, with spaces in a row, or with white space at an end ("Alice "
  gets a blank last name). `Contract` is seen only where first_name is empty, for which v2 had shown a
  split of the name until then: a PUT has left it so, or the backfill of " Alice". Both exceptions
  are in the property.

- **ShardRouting.** `Clockwise` does not follow from the types: `RingHolds` adds that every position
  of a present node which collides with no other node's is in the ring and is that node's, and that a
  position belongs to a node that has it. `AddTo`, `RemoveFrom` and `NewConsistentHash` keep it
  whatever the order of adding. `MovesAreMinimal` then compares the first position ahead of a hash in
  the ring before and after. `Placed` needs `Known`: a handle's shard is one that its key has been
  routed to. Least positions are found by well-foundedness of the naturals; the lemmas about
  `Distance` and `First` carry the arithmetic of the wrap around. `NextNodeTakesOver` gives each node a
  `Reach`, the distance to its first position; without collisions no two nodes have the same, the
  nodes with a smaller one are counted by `Cardinality`, and removing the nearest node makes the one
  with exactly one node before it the nearest. `ReplicasInRingOrder` is what the comment at
  `consistent_hash.go:136` promises of `GetN` ("up to n distinct nodes [...] in ring order") for every n,
  and with collisions. It needs no induction over n: the numbers of nodes before each node are all
  different and below the number of nodes, so by counting each of them occurs (`RankIsOnto`), and the
  i-th found is the one with i - 1 before it. Assumed: some shard, at least one
  hash, and that shards are among the nodes.
- **ReadReplica.** The bounds in time are invariants about ages. `FlagAge` says, by the phase of the
  watcher, how old the flag may be: no older than the last tick while waiting, a period more while the
  next ping lasts, and right for the ping's duration once there is a result. `Steady` says where the
  reads of a client go while the flag stays, and that they have seen no more than is there. Assumed:
  the ping's timeout is shorter than the period (2 s and 5 s in the code), and finitely many clients.

- **Variants.** TLAPS proves no liveness under fairness and nothing about ENABLED, but it proves what
  the liveness of these loops rests on: a natural number that each step of the actor lessens, and that
  no other step raises while the actor is at work. For a worker it counts the messages in hand, each worth
  `3 * MaxRetries + 2` steps, and the attempts left (`BatchSteps`); for a request the calls left
  (`StepsLeft`); for a backfill the rows ahead of it (`RunSteps`; with its shards in step 8, with the
  rows unfilled in step 9). That it is a natural number, so that a run ends, is part of each theorem.
  Step 8 needs one more invariant, `BatchIsAhead` (a batch lies beyond the cursor), or `Advance` might
  pass nothing; step 9 needs that no statement, batch or ALTER ever takes a first_name away. A commit
  in the source of step 8 and an inserted row in step 9 do lengthen a run, and are excepted. With
  the fairness of each actor (that its next step is always enabled is what TLC checks, in the liveness
  runs) a run, a request and a batch end.

Eight theorems state what no run lists. `BreakerTypeCorrect` is the breaker's own type invariant, which
TLC checks as part of the handler's. `NoContamination` is part of what `CopySpec` checks;
`OnlyExistingServed` and the three kinds of variant (`BatchShrinks`, `RequestShortens`, `RunShortens`) have
been checked by TLC on the instances of section 3 too, to which cfg they can be added, and hold there; the
runs check the liveness that rests on the variants instead. `RingOrder` was checked on the instance of
`shardrouting` with n up to 4.

Model-checked only: the liveness properties (`BatchEnds`, `EventuallyDelivered`, `AcceptedIsStored`,
`EveryRequestAnswered`, `BreakerRecovers`, `EventuallyCopied`, `EventuallyMigrated`, `Converges`,
`KeepsWatching`), because TLAPS proves no liveness under fairness, and the four violations.

## 5. Not modelled

- The client library's own retries. go-redis may send a command again after a network error; for XADD
  that is one more entry with the same key, which the model has whenever a header key is posted twice.
- `/health` handlers, logging, metrics, flags, JSON (malformed cached values cannot arise from the
  code's own writes).
- `LIMIT 100` of the lists of step 4, and duplicate e-mails (a refused INSERT changes nothing).
- Step 9: white space of more than one kind besides the space, which no code tells apart.
- The width of `first_name` and `last_name` (`VARCHAR(100)`), the `DROP` that `step3_contract.sql`
  executes whatever its count says (the model's operator heeds the count), `/health` of step 9.
- Step 7: `KeyspaceStats`, `Distribution`, `Nodes`, `Size` and the demonstration in `main.go` (reports);
  the spread of CRC32 (a hash is any placement); `int(checksum)` of `PickShard` where `int` has 32
  bits, which would be negative for half of the keys. `consistent_hash.go` uses `context` and `time`
  without importing them; it is modelled as if it did.
- Step 8: `AssignTenant` on a resolver that was built with a nil directory, which panics
  (`NewDirectoryResolver` takes the map as it is, and nothing in the repository calls it with none).
  Directories of the model are maps.
- Step 3: the primary has no failover and none is modelled; a client's reads of its own writes are not
  promised by the code and not stated (a comment refers such reads to `Writer`); retries of
  `database/sql` on a bad connection, which end in the same answers.
- Updates and deletes in the source of the backfill: `INSERT IGNORE` does not propagate them.
- Stateless parts, scripts, infrastructure: see `components` in `PROJECT.json`.

## 6. Plan

The models named in the inventory exist and are checked. What would come next, in this order:

1. `SchemaMigration` with an operator who does not heed the count, to show what the checklist is for.
2. A proof of `ConsistentHash` as an implementation of a total map from hashes to nodes, and of
   `ExclusiveDelivery` up to the entries that a loss of Redis data brings back.
3. Step 10's heartbeats, if they come to keep state: now each is one write that no other reads.
