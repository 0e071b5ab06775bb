---------------------------- MODULE ShardBackfill ----------------------------
(***************************************************************************)
(* The backfill of step 8: runs of backfill.go copy the users table of the *)
(* source database to its shards in batches of ascending id, and remember  *)
(* in every shard how far they came. A row is its id; the source goes on   *)
(* taking inserts meanwhile.                                               *)
(***************************************************************************)
EXTENDS Naturals, Sequences, FiniteSets

CONSTANTS Tenants,     \* tenant ids
          ShardCount,  \* number of shard DSNs (2 in the code)
          Runners,     \* processes that run the backfill under one migration name
          BatchSize,   \* rows of a batch (1000 in the code)
          MaxRows,     \* bound: ids the source hands out
          MaxFaults    \* bound: failed statements, crashes and interrupts

ASSUME BackfillAssumption == /\ Tenants \subseteq Nat
                             /\ ShardCount \in Nat \ {0}
                             /\ BatchSize \in Nat \ {0}
                             /\ MaxRows \in Nat
                             /\ MaxFaults \in Nat

VARIABLES tenant,       \* tenant_id of every id the source has handed out
          committed,    \* ids whose inserting transaction has committed
          late,         \* history: those committed after a run had passed them
          rows,         \* ids in the users table of each shard
          progress,     \* last_processed_id of each shard, 0 if there is none
          phase,        \* where each run is
          cursor,       \* lastID of Run
          batch,        \* ids of the fetched batch
          todo,         \* shards that still lack their part of it
          slot,         \* shard saveProgress writes next
          ending,       \* runs that return once saveProgress has
          interrupted,  \* runs that have received SIGINT or SIGTERM
          faults

sourceVars == <<tenant, committed, late>>
runVars == <<phase, cursor, batch, todo, slot, ending, interrupted>>
vars == <<sourceVars, rows, progress, runVars, faults>>

Phases == {"idle", "top", "insert", "save"}
Ids == 1..Len(tenant)
Shards == 0..(ShardCount - 1)

(* TenantIDResolver.                                                       *)
ShardOf(id) == tenant[id] % ShardCount

Init == /\ tenant = <<>> /\ committed = {} /\ late = {}
        /\ rows = [s \in Shards |-> {}]
        /\ progress = [s \in Shards |-> 0]
        /\ phase = [r \in Runners |-> "idle"]
        /\ cursor = [r \in Runners |-> 0]
        /\ batch = [r \in Runners |-> {}]
        /\ todo = [r \in Runners |-> {}]
        /\ slot = [r \in Runners |-> 0]
        /\ ending = {} /\ interrupted = {}
        /\ faults = 0

Fault == faults < MaxFaults /\ faults' = faults + 1

-----------------------------------------------------------------------------
(* The source database.                                                    *)

(* InnoDB hands out an AUTO_INCREMENT id at the INSERT...                  *)
Allocate(t) == /\ Len(tenant) < MaxRows
               /\ tenant' = Append(tenant, t)
               /\ UNCHANGED <<committed, late, rows, progress, runVars, faults>>

(* A run, or a saved progress from which one may start, is past this id.   *)
Passed(id) == \/ \E r \in Runners : id <= cursor[r] \/ \E i \in batch[r] : id < i
              \/ \E s \in Shards : id <= progress[s]

(* ... and shows the row when the transaction commits, perhaps after rows  *)
(* of higher ids.                                                          *)
Commit(id) == /\ id \notin committed
              /\ committed' = committed \cup {id}
              /\ late' = IF Passed(id) THEN late \cup {id} ELSE late
              /\ UNCHANGED <<tenant, rows, progress, runVars, faults>>

-----------------------------------------------------------------------------
(* A run: main, Run.                                                       *)

(* The starting point is what shard 0 remembers.                           *)
Begin(r) == /\ phase[r] = "idle"
            /\ phase' = [phase EXCEPT ![r] = "top"]
            /\ cursor' = [cursor EXCEPT ![r] = progress[0]]
            /\ UNCHANGED <<sourceVars, rows, progress, batch, todo, slot, ending, interrupted, faults>>

(* The process is gone: Run has returned, or it was killed.                *)
Gone(r) == /\ phase' = [phase EXCEPT ![r] = "idle"]
           /\ cursor' = [cursor EXCEPT ![r] = 0]
           /\ batch' = [batch EXCEPT ![r] = {}]
           /\ todo' = [todo EXCEPT ![r] = {}]
           /\ slot' = [slot EXCEPT ![r] = 0]
           /\ ending' = ending \ {r}
           /\ interrupted' = interrupted \ {r}

(* Mutant: off by one.                                                     *)
VisibleOffByOne(r) == {id \in committed : id > cursor[r] + 1}

(* WHERE id > lastID.                                                      *)
Visible(r) == {id \in committed : id > cursor[r]}

(* Mutant: a batch that is not full is taken for the last one.             *)
ShortBatchIsLast(r) == Cardinality(Visible(r)) < BatchSize

NothingLeft(r) == Visible(r) = {}

(* The top of the loop. An interrupt, or a fetch that finds nothing, saves *)
(* the progress and returns; otherwise the first rows are fetched, up to   *)
(* LIMIT, and grouped by shard.                                            *)
Finish(r) == /\ phase[r] = "top"
             /\ r \in interrupted \/ NothingLeft(r)
             /\ phase' = [phase EXCEPT ![r] = "save"]
             /\ ending' = ending \cup {r}
             /\ UNCHANGED <<sourceVars, rows, progress, cursor, batch, todo, slot, interrupted, faults>>

Fetch(r) ==
    /\ phase[r] = "top"
    /\ r \notin interrupted
    /\ \E hi \in Visible(r) :
          LET b == {id \in Visible(r) : id <= hi}
          IN /\ \/ Cardinality(b) = BatchSize
                \/ Cardinality(b) < BatchSize /\ b = Visible(r)
             /\ batch' = [batch EXCEPT ![r] = b]
             /\ todo' = [todo EXCEPT ![r] = {ShardOf(id) : id \in b}]
    /\ phase' = [phase EXCEPT ![r] = "insert"]
    /\ UNCHANGED <<sourceVars, rows, progress, cursor, slot, ending, interrupted, faults>>

(* Mutant: the batch is not grouped by shard.                              *)
InsertWholeBatch(r, s) == rows' = [rows EXCEPT ![s] = @ \cup batch[r]]

(* INSERT IGNORE of the rows of one shard; the shards' order is that of a  *)
(* Go map.                                                                 *)
InsertIgnore(r, s) ==
    rows' = [rows EXCEPT ![s] = @ \cup {id \in batch[r] : ShardOf(id) = s}]

Insert(r, s) ==
    /\ phase[r] = "insert"
    /\ s \in todo[r]
    /\ InsertIgnore(r, s)
    /\ todo' = [todo EXCEPT ![r] = @ \ {s}]
    /\ UNCHANGED <<sourceVars, progress, phase, cursor, batch, slot, ending, interrupted, faults>>

(* Mutant: its error is only logged.                                       *)
InsertFailureIgnored(r, s) ==
    /\ phase[r] = "insert" /\ s \in todo[r]
    /\ Fault
    /\ todo' = [todo EXCEPT ![r] = @ \ {s}]
    /\ UNCHANGED <<sourceVars, rows, progress, phase, cursor, batch, slot, ending, interrupted>>

(* Its error, the statement executed or not, ends the run with nothing     *)
(* saved.                                                                  *)
InsertFails(r, s) ==
    /\ phase[r] = "insert"
    /\ s \in todo[r]
    /\ Fault
    /\ InsertIgnore(r, s) \/ UNCHANGED rows
    /\ Gone(r)
    /\ UNCHANGED <<sourceVars, progress>>

(* lastID = users[len(users)-1].ID                                         *)
Advance(r) ==
    /\ phase[r] = "insert"
    /\ todo[r] = {}
    /\ \E hi \in batch[r] : /\ \A id \in batch[r] : id <= hi
                            /\ cursor' = [cursor EXCEPT ![r] = hi]
    /\ batch' = [batch EXCEPT ![r] = {}]
    /\ phase' = [phase EXCEPT ![r] = "save"]
    /\ UNCHANGED <<sourceVars, rows, progress, todo, slot, ending, interrupted, faults>>

(* saveProgress returns: the run as well, or the next batch.               *)
Saved(r) == IF r \in ending
            THEN Gone(r)
            ELSE /\ phase' = [phase EXCEPT ![r] = "top"]
                 /\ slot' = [slot EXCEPT ![r] = 0]
                 /\ UNCHANGED <<cursor, batch, todo, ending, interrupted>>

WriteProgress(r) == progress' = [progress EXCEPT ![slot[r]] = cursor[r]]

(* Mutant: off by one.                                                     *)
OneShardTooMany(r) == slot[r] < ShardCount

MoreShards(r) == slot[r] + 1 < ShardCount

Save(r) ==
    /\ phase[r] = "save"
    /\ WriteProgress(r)
    /\ IF MoreShards(r)
       THEN /\ slot' = [slot EXCEPT ![r] = @ + 1]
            /\ UNCHANGED <<phase, cursor, batch, todo, ending, interrupted>>
       ELSE Saved(r)
    /\ UNCHANGED <<sourceVars, rows, faults>>

(* The first error skips the other shards; it is a warning only.           *)
SaveFails(r) ==
    /\ phase[r] = "save"
    /\ Fault
    /\ WriteProgress(r) \/ UNCHANGED progress
    /\ Saved(r)
    /\ UNCHANGED <<sourceVars, rows>>

(* A kill, or an error of fetchBatch.                                      *)
Crash(r) == /\ phase[r] # "idle"
            /\ Fault
            /\ Gone(r)
            /\ UNCHANGED <<sourceVars, rows, progress>>

(* SetInterrupted.                                                         *)
Interrupt(r) ==
    /\ phase[r] # "idle"
    /\ r \notin interrupted
    /\ Fault
    /\ interrupted' = interrupted \cup {r}
    /\ UNCHANGED <<sourceVars, rows, progress, phase, cursor, batch, todo, slot, ending>>

Step(r) == \/ Finish(r) \/ Fetch(r) \/ Advance(r) \/ Save(r)
           \/ \E s \in Shards : Insert(r, s)

Failure(r) == \/ SaveFails(r) \/ Crash(r) \/ Interrupt(r)
              \/ \E s \in Shards : InsertFails(r, s)

Next == \/ \E t \in Tenants : Allocate(t)
        \/ \E id \in Ids : Commit(id)
        \/ \E r \in Runners : Begin(r) \/ Step(r) \/ Failure(r)

Spec == Init /\ [][Next]_vars

(* A run does not hang, and the operator starts it again when it has ended.*)
FairSpec == Spec /\ \A r \in Runners : WF_vars(Step(r)) /\ WF_vars(Begin(r))

-----------------------------------------------------------------------------
TypeOK == /\ tenant \in Seq(Tenants) /\ Len(tenant) <= MaxRows
          /\ committed \subseteq Ids /\ late \subseteq committed
          /\ rows \in [Shards -> SUBSET committed]
          /\ progress \in [Shards -> Ids \cup {0}]
          /\ phase \in [Runners -> Phases]
          /\ cursor \in [Runners -> Ids \cup {0}]
          /\ batch \in [Runners -> SUBSET committed]
          /\ todo \in [Runners -> SUBSET Shards]
          /\ slot \in [Runners -> Shards]
          /\ ending \subseteq Runners /\ interrupted \subseteq Runners
          /\ faults \in Nat

(* verify_sharding.sh, routing correctness: no row is in a shard that is   *)
(* not its tenant's.                                                       *)
NoContamination == \A s \in Shards : \A id \in rows[s] : ShardOf(id) = s

(* Rows that are where TenantIDResolver looks for them.                    *)
Copied == {id \in committed : id \in rows[ShardOf(id)]}

(* A saved progress never runs ahead of the copy, in any shard, however    *)
(* runs overlap, fail between two shards and overwrite one another's       *)
(* progress: rows up to it are copied, those that committed late excepted. *)
NothingSkipped == \A id \in committed \ late :
                     (\E s \in Shards : id <= progress[s]) => id \in Copied

(* A run that reports "Complete!" has left no row of the source behind,    *)
(* those that committed late excepted.                                     *)
CompleteIsComplete ==
    [][\A r \in Runners :
          r \in ending' \ ending /\ r \notin interrupted => committed \ late \subseteq Copied]_vars

(* The backfill implements what RowCopy promises: runs, batches, failures  *)
(* and restarts come down to rows copied to their shards and claims that   *)
(* are true when made, with the rows that commit late as the only excuse.  *)
Copy == INSTANCE RowCopy WITH Places <- Shards,
                              home <- [id \in Ids |-> ShardOf(id)],
                              source <- committed,
                              copies <- rows,
                              claims <- progress

CopySpec == Copy!CopySpec

(* Steps that a run has left at most while no row is committed: those of   *)
(* the batch at hand, and of a batch for each row that it has yet to fetch.*)
Ahead(r) == {id \in committed : id > cursor[r]} \ batch[r]

RunSteps(r) ==
    LET saves == ShardCount - slot[r]
        rest == (3 * ShardCount + 3) * Cardinality(Ahead(r)) + ShardCount + 1
    IN CASE phase[r] = "idle" -> 0
         [] phase[r] = "top" -> rest
         [] phase[r] = "insert" -> Cardinality(todo[r]) + 1 + ShardCount + rest
         [] OTHER -> IF r \in ending THEN saves ELSE saves + rest

(* A run gets through: unless a row is committed, each of its steps leaves *)
(* it fewer, and nothing that other runs, failures or signals do leaves it *)
(* more. It never fetches a row twice, nor loops without one.              *)
RunShortens ==
    [][\A r \in Runners :
          phase[r] # "idle" /\ committed' = committed =>
             \/ RunSteps(r)' < RunSteps(r)
             \/ UNCHANGED <<phase[r], cursor[r], batch[r], todo[r], slot[r]>>]_vars

(* README of step 8: interrupted and resumed as it may be, the backfill    *)
(* gets to every row, those that committed late excepted.                  *)
EventuallyCopied == <>[](committed \ late \subseteq Copied)
=============================================================================
