------------------------ MODULE ShardBackfillProofs ------------------------
(***************************************************************************)
(* The backfill loses no row, for any number of shards, tenants,           *)
(* concurrent runs, batch size and failures.                               *)
(***************************************************************************)
EXTENDS ShardBackfill, FiniteSetTheorems, TLAPS

(* Rows that a run or a saved progress may not pass over.                  *)
Owed == committed \ late

(* A run has copied what is below its cursor; its batch is all there was   *)
(* between the cursor and the batch's highest id; and what of the batch is *)
(* not in its shard yet belongs to a shard still to do.                    *)
BelowCursor(r) == \A id \in Owed : id <= cursor[r] => id \in Copied
BatchIsWhole(r) == \A id \in Owed, i \in batch[r] : cursor[r] < id /\ id <= i => id \in batch[r]
BatchIsPlaced(r) == \A id \in batch[r] : ShardOf(id) \in todo[r] \/ id \in Copied

RunInv(r) == BelowCursor(r) /\ BatchIsWhole(r) /\ BatchIsPlaced(r)

(* A run has a batch only while it inserts it.                             *)
NoOtherBatch == \A r \in Runners : phase[r] # "insert" => batch[r] = {}

IInv == /\ TypeOK
        /\ NoOtherBatch
        /\ NoContamination
        /\ NothingSkipped
        /\ \A r \in Runners : RunInv(r)

-----------------------------------------------------------------------------
(* Every id handed out has a tenant, and keeps it.                         *)
LEMMA TenantOf == ASSUME TypeOK, NEW id \in Ids PROVE tenant[id] \in Nat
<1>1. tenant \in Seq(Tenants) /\ Tenants \subseteq Nat
  BY BackfillAssumption DEF TypeOK
<1>2. tenant[id] \in Tenants
  BY <1>1 DEF Ids
<1> QED BY <1>1, <1>2

(* TenantIDResolver maps every tenant to one of the shards.                *)
LEMMA ShardOfType == ASSUME TypeOK, NEW id \in Ids PROVE ShardOf(id) \in Shards
<1>1. tenant[id] \in Nat /\ ShardCount \in Nat /\ ShardCount > 0
  BY TenantOf, BackfillAssumption
<1>2. tenant[id] % ShardCount \in 0..(ShardCount - 1)
  BY <1>1
<1> QED BY <1>2 DEF ShardOf, Shards

-----------------------------------------------------------------------------
(* Types.                                                                  *)

LEMMA InitTypeOK == Init => TypeOK
  BY BackfillAssumption DEF Init, TypeOK, Ids, Shards, Phases

(* What a run that is gone leaves behind.                                  *)
LEMMA GoneType ==
  ASSUME TypeOK, NEW r \in Runners, Gone(r)
  PROVE  /\ phase' \in [Runners -> Phases]
         /\ cursor' \in [Runners -> Ids \cup {0}]
         /\ batch' \in [Runners -> SUBSET committed]
         /\ todo' \in [Runners -> SUBSET Shards]
         /\ slot' \in [Runners -> Shards]
         /\ ending' \subseteq Runners /\ interrupted' \subseteq Runners
  BY BackfillAssumption DEF TypeOK, Gone, Phases, Shards

LEMMA SavedType ==
  ASSUME TypeOK, NEW r \in Runners, Saved(r)
  PROVE  /\ phase' \in [Runners -> Phases]
         /\ cursor' \in [Runners -> Ids \cup {0}]
         /\ batch' \in [Runners -> SUBSET committed]
         /\ todo' \in [Runners -> SUBSET Shards]
         /\ slot' \in [Runners -> Shards]
         /\ ending' \subseteq Runners /\ interrupted' \subseteq Runners
<1>1. CASE r \in ending
  BY <1>1, GoneType DEF Saved
<1>2. CASE r \notin ending
  <2>1. 0 \in Shards
    BY BackfillAssumption DEF Shards
  <2> QED BY <1>2, <2>1 DEF TypeOK, Saved, Phases
<1> QED BY <1>1, <1>2

(* A shard takes its part of a batch, and nothing else.                    *)
LEMMA InsertIgnoreType ==
  ASSUME TypeOK, NEW r \in Runners, NEW s \in Shards, InsertIgnore(r, s)
  PROVE  rows' \in [Shards -> SUBSET committed]
  BY DEF TypeOK, InsertIgnore

LEMMA WriteProgressType ==
  ASSUME TypeOK, NEW r \in Runners, WriteProgress(r)
  PROVE  progress' \in [Shards -> Ids \cup {0}]
  BY DEF TypeOK, WriteProgress

LEMMA StepTypeOK == TypeOK /\ [Next]_vars => TypeOK'
<1> SUFFICES ASSUME TypeOK, [Next]_vars PROVE TypeOK'
  OBVIOUS
<1> USE BackfillAssumption
<1>1. ASSUME NEW t \in Tenants, Allocate(t) PROVE TypeOK'
  <2>1. tenant' \in Seq(Tenants) /\ Len(tenant') <= MaxRows /\ Ids \subseteq Ids'
    BY <1>1 DEF Allocate, TypeOK, Ids
  <2> QED BY <1>1, <2>1 DEF Allocate, TypeOK, runVars
<1>2. ASSUME NEW id \in Ids, Commit(id) PROVE TypeOK'
  BY <1>2 DEF Commit, TypeOK, runVars, Ids
<1>3. ASSUME NEW r \in Runners, Begin(r) PROVE TypeOK'
  BY <1>3 DEF Begin, TypeOK, sourceVars, Phases, Shards, Ids
<1>4. ASSUME NEW r \in Runners, Finish(r) PROVE TypeOK'
  BY <1>4 DEF Finish, TypeOK, sourceVars, Phases, Ids
<1>5. ASSUME NEW r \in Runners, Fetch(r) PROVE TypeOK'
  <2>1. PICK hi \in Visible(r) :
           /\ batch' = [batch EXCEPT ![r] = {id \in Visible(r) : id <= hi}]
           /\ todo' = [todo EXCEPT ![r] = {ShardOf(id) : id \in {j \in Visible(r) : j <= hi}}]
    BY <1>5 DEF Fetch
  <2>2. Visible(r) \subseteq committed /\ committed \subseteq Ids
    BY DEF Visible, TypeOK
  <2>3. \A id \in committed : ShardOf(id) \in Shards
    BY <2>2, ShardOfType
  <2>4. {ShardOf(id) : id \in {j \in Visible(r) : j <= hi}} \subseteq Shards
    BY <2>2, <2>3
  <2>5. batch' \in [Runners -> SUBSET committed] /\ todo' \in [Runners -> SUBSET Shards]
    BY <2>1, <2>2, <2>4 DEF TypeOK
  <2> QED BY <1>5, <2>5 DEF Fetch, TypeOK, sourceVars, Phases, Ids
<1>6. ASSUME NEW r \in Runners, NEW s \in Shards, Insert(r, s) PROVE TypeOK'
  <2>1. rows' \in [Shards -> SUBSET committed]
    BY <1>6, InsertIgnoreType DEF Insert
  <2> QED BY <1>6, <2>1 DEF Insert, TypeOK, sourceVars, Ids
<1>7. ASSUME NEW r \in Runners, NEW s \in Shards, InsertFails(r, s) PROVE TypeOK'
  <2>1. rows' \in [Shards -> SUBSET committed]
    BY <1>7, InsertIgnoreType DEF InsertFails, TypeOK
  <2>2. Gone(r)
    BY <1>7 DEF InsertFails
  <2> QED BY <1>7, <2>1, <2>2, GoneType DEF InsertFails, Fault, TypeOK, sourceVars, Ids
<1>8. ASSUME NEW r \in Runners, Advance(r) PROVE TypeOK'
  <2>1. PICK hi \in batch[r] : cursor' = [cursor EXCEPT ![r] = hi]
    BY <1>8 DEF Advance
  <2>2. cursor' \in [Runners -> Ids \cup {0}]
    BY <2>1 DEF TypeOK
  <2> QED BY <1>8, <2>2 DEF Advance, TypeOK, sourceVars, Phases, Ids
<1>9. ASSUME NEW r \in Runners, Save(r) PROVE TypeOK'
  <2>1. progress' \in [Shards -> Ids \cup {0}]
    BY <1>9, WriteProgressType DEF Save, MoreShards
  <2>2. CASE slot[r] + 1 < ShardCount
    <3>1. slot' \in [Runners -> Shards]
      <4>1. slot \in [Runners -> Shards]
        BY DEF TypeOK
      <4>2. slot[r] + 1 \in Shards
        BY <4>1, <2>2 DEF Shards
      <4> QED BY <1>9, <2>2, <4>1, <4>2 DEF Save, MoreShards
    <3> QED BY <1>9, <2>1, <2>2, <3>1 DEF Save, MoreShards, TypeOK, sourceVars, Ids
  <2>3. CASE ~(slot[r] + 1 < ShardCount)
    BY <1>9, <2>1, <2>3, SavedType DEF Save, MoreShards, TypeOK, sourceVars, Ids
  <2> QED BY <2>2, <2>3
<1>10. ASSUME NEW r \in Runners, SaveFails(r) PROVE TypeOK'
  <2>1. progress' \in [Shards -> Ids \cup {0}]
    BY <1>10, WriteProgressType DEF SaveFails, TypeOK
  <2>2. Saved(r)
    BY <1>10 DEF SaveFails
  <2> QED BY <1>10, <2>1, <2>2, SavedType DEF SaveFails, Fault, TypeOK, sourceVars, Ids
<1>11. ASSUME NEW r \in Runners, Crash(r) PROVE TypeOK'
  <2>1. Gone(r)
    BY <1>11 DEF Crash
  <2> QED BY <1>11, <2>1, GoneType DEF Crash, Fault, TypeOK, sourceVars, Ids
<1>12. ASSUME NEW r \in Runners, Interrupt(r) PROVE TypeOK'
  BY <1>12 DEF Interrupt, Fault, TypeOK, sourceVars, Ids
<1>13. CASE UNCHANGED vars
  BY <1>13 DEF vars, TypeOK, sourceVars, runVars, Ids
<1> QED BY <1>1, <1>2, <1>3, <1>4, <1>5, <1>6, <1>7, <1>8, <1>9, <1>10, <1>11, <1>12, <1>13
        DEF Next, Step, Failure

-----------------------------------------------------------------------------
(* What no step takes back.                                                *)

(* Rows stay where they are, committed, and with their tenant.             *)
LEMMA StepKeeps ==
  ASSUME TypeOK, [Next]_vars
  PROVE  /\ \A id \in Ids : tenant'[id] = tenant[id]
         /\ committed \subseteq committed'
         /\ \A s \in Shards : rows[s] \subseteq rows'[s]
<1>1. \A id \in Ids : tenant'[id] = tenant[id]
  <2>1. ASSUME NEW t \in Tenants, Allocate(t) PROVE \A id \in Ids : tenant'[id] = tenant[id]
    BY <2>1 DEF Allocate, TypeOK, Ids
  <2>2. tenant' = tenant \/ \E t \in Tenants : Allocate(t)
    BY DEF Next, Step, Failure, Commit, Begin, Finish, Fetch, Advance, Save, MoreShards, Insert,
           SaveFails, Crash, Interrupt, InsertFails, vars, sourceVars
  <2> QED BY <2>1, <2>2
<1>2. committed \subseteq committed'
  BY DEF Next, Step, Failure, Allocate, Commit, Begin, Finish, Fetch, Advance, Save, MoreShards, Insert,
         SaveFails, Crash, Interrupt, InsertFails, vars, sourceVars
<1>3. \A s \in Shards : rows[s] \subseteq rows'[s]
  <2>1. ASSUME NEW r \in Runners, NEW s \in Shards, InsertIgnore(r, s)
        PROVE  \A t \in Shards : rows[t] \subseteq rows'[t]
    BY <2>1 DEF InsertIgnore, TypeOK
  <2>2. rows' = rows \/ \E r \in Runners, s \in Shards : InsertIgnore(r, s)
    BY DEF Next, Step, Failure, Allocate, Commit, Begin, Finish, Fetch, Advance, Save, MoreShards, Insert,
           SaveFails, Crash, Interrupt, InsertFails, vars
  <2> QED BY <2>1, <2>2
<1> QED BY <1>1, <1>2, <1>3

LEMMA CopiedStays == TypeOK /\ [Next]_vars => Copied \subseteq Copied'
<1> SUFFICES ASSUME TypeOK, [Next]_vars, NEW id \in Copied PROVE id \in Copied'
  OBVIOUS
<1>1. id \in committed /\ id \in Ids /\ id \in rows[ShardOf(id)]
  BY DEF Copied, TypeOK
<1>2. ShardOf(id) \in Shards
  BY <1>1, ShardOfType
<1>3. tenant'[id] = tenant[id] /\ id \in committed' /\ id \in rows'[ShardOf(id)]
  BY <1>1, <1>2, StepKeeps
<1> QED BY <1>3 DEF Copied, ShardOf

-----------------------------------------------------------------------------
(* Routing.                                                                *)

LEMMA StepNoContamination == TypeOK /\ NoContamination /\ [Next]_vars => NoContamination'
<1> SUFFICES ASSUME TypeOK, NoContamination, [Next]_vars,
                    NEW s \in Shards, NEW id \in rows'[s]
             PROVE  tenant'[id] % ShardCount = s
  BY DEF NoContamination, ShardOf, Shards
<1>1. id \in committed /\ id \in Ids /\ ShardOf(id) = s
  <2>1. CASE rows' = rows
    BY <2>1 DEF NoContamination, TypeOK
  <2>2. ASSUME NEW r \in Runners, NEW t \in Shards, InsertIgnore(r, t)
        PROVE  id \in committed /\ id \in Ids /\ ShardOf(id) = s
    BY <2>2 DEF InsertIgnore, NoContamination, TypeOK
  <2>3. rows' = rows \/ \E r \in Runners, t \in Shards : InsertIgnore(r, t)
    BY DEF Next, Step, Failure, Allocate, Commit, Begin, Finish, Fetch, Advance, Save, MoreShards, Insert,
           SaveFails, Crash, Interrupt, InsertFails, vars
  <2> QED BY <2>1, <2>2, <2>3
<1> QED BY <1>1, StepKeeps DEF ShardOf

-----------------------------------------------------------------------------
(* Batches.                                                                *)

LEMMA StepNoOtherBatch == TypeOK /\ NoOtherBatch /\ [Next]_vars => NoOtherBatch'
<1> SUFFICES ASSUME TypeOK, NoOtherBatch, [Next]_vars, NEW q \in Runners,
                    phase'[q] # "insert"
             PROVE  batch'[q] = {}
  BY DEF NoOtherBatch
<1> USE DEF TypeOK, NoOtherBatch
<1>1. ASSUME NEW r \in Runners, Gone(r) PROVE batch'[q] = {}
  BY <1>1 DEF Gone
<1>2. ASSUME NEW r \in Runners, Saved(r), phase[r] = "save" PROVE batch'[q] = {}
  BY <1>1, <1>2 DEF Saved
<1>3. CASE UNCHANGED <<phase, batch>>
  BY <1>3
<1>4. ASSUME NEW r \in Runners, Begin(r) \/ Finish(r) PROVE batch'[q] = {}
  BY <1>4 DEF Begin, Finish
<1>5. ASSUME NEW r \in Runners, Fetch(r) PROVE batch'[q] = {}
  <2>1. /\ phase' = [phase EXCEPT ![r] = "insert"]
        /\ \E b : batch' = [batch EXCEPT ![r] = b]
    BY <1>5 DEF Fetch
  <2> QED BY <2>1
<1>6. ASSUME NEW r \in Runners, Advance(r) PROVE batch'[q] = {}
  BY <1>6 DEF Advance
<1>7. ASSUME NEW r \in Runners, Save(r) PROVE batch'[q] = {}
  BY <1>2, <1>3, <1>7 DEF Save, MoreShards
<1>8. ASSUME NEW r \in Runners, Failure(r) PROVE batch'[q] = {}
  BY <1>1, <1>2, <1>3, <1>8 DEF Failure, SaveFails, Crash, Interrupt, InsertFails
<1>9. ASSUME NEW r \in Runners, NEW s \in Shards, Insert(r, s) PROVE batch'[q] = {}
  BY <1>3, <1>9 DEF Insert
<1>10. ASSUME (\E t \in Tenants : Allocate(t)) \/ (\E id \in Ids : Commit(id)) PROVE batch'[q] = {}
  BY <1>3, <1>10 DEF Allocate, Commit, runVars
<1>11. CASE UNCHANGED vars
  BY <1>3, <1>11 DEF vars, runVars
<1> QED BY <1>4, <1>5, <1>6, <1>7, <1>8, <1>9, <1>10, <1>11 DEF Next, Step

-----------------------------------------------------------------------------
(* Progress.                                                               *)

LEMMA InitIInv == Init => IInv
<1> SUFFICES ASSUME Init PROVE IInv
  OBVIOUS
<1>1. TypeOK
  BY InitTypeOK
<1> QED BY <1>1 DEF Init, IInv, NoOtherBatch, NoContamination, NothingSkipped, RunInv, BelowCursor,
                    BatchIsWhole, BatchIsPlaced, Owed, Shards

(* A run whose cursor, batch and shards to do a step leaves alone.         *)
LEMMA RunUndisturbed ==
  ASSUME IInv, [Next]_vars, UNCHANGED <<committed, late>>, NEW q \in Runners,
         cursor'[q] = cursor[q], batch'[q] = batch[q], todo'[q] = todo[q]
  PROVE  RunInv(q)'
<1>1. RunInv(q) /\ TypeOK /\ Copied \subseteq Copied'
  BY CopiedStays DEF IInv
<1>2. \A id \in batch[q] : tenant'[id] = tenant[id]
  BY <1>1, StepKeeps DEF TypeOK
<1> QED BY <1>1, <1>2 DEF RunInv, BelowCursor, BatchIsWhole, BatchIsPlaced, Owed, ShardOf

(* A run whose process is gone.                                            *)
LEMMA RunGone ==
  ASSUME IInv, [Next]_vars, UNCHANGED <<committed, late>>, NEW r \in Runners, Gone(r)
  PROVE  \A q \in Runners : RunInv(q)'
<1> SUFFICES ASSUME NEW q \in Runners PROVE RunInv(q)'
  OBVIOUS
<1>1. TypeOK
  BY DEF IInv
<1>2. CASE q = r
  <2>1. cursor'[q] = 0 /\ batch'[q] = {}
    BY <1>1, <1>2 DEF Gone, TypeOK
  <2>2. \A id \in committed \ late : ~(id <= 0)
    BY <1>1 DEF TypeOK, Ids
  <2> QED BY <2>1, <2>2 DEF RunInv, BelowCursor, BatchIsWhole, BatchIsPlaced, Owed
<1>3. CASE q # r
  <2>1. cursor'[q] = cursor[q] /\ batch'[q] = batch[q] /\ todo'[q] = todo[q]
    BY <1>1, <1>3 DEF Gone, TypeOK
  <2> QED BY <2>1, RunUndisturbed
<1> QED BY <1>2, <1>3

(* saveProgress returns: the run is gone or as it was.                     *)
LEMMA RunSaved ==
  ASSUME IInv, [Next]_vars, UNCHANGED <<committed, late>>, NEW r \in Runners, Saved(r)
  PROVE  \A q \in Runners : RunInv(q)'
<1>1. CASE r \in ending
  BY <1>1, RunGone DEF Saved
<1>2. CASE r \notin ending
  BY <1>2, RunUndisturbed DEF Saved
<1> QED BY <1>1, <1>2

(* Progress that is not written stays true.                                *)
LEMMA ProgressUndisturbed ==
  ASSUME IInv, [Next]_vars, UNCHANGED <<committed, late, progress>>
  PROVE  NothingSkipped'
  BY CopiedStays DEF IInv, NothingSkipped, Shards

(* A cursor is a progress that may be written.                             *)
LEMMA ProgressWritten ==
  ASSUME IInv, [Next]_vars, UNCHANGED <<committed, late>>,
         NEW r \in Runners, WriteProgress(r)
  PROVE  NothingSkipped'
<1>1. TypeOK /\ NothingSkipped /\ BelowCursor(r) /\ Copied \subseteq Copied'
  BY CopiedStays DEF IInv, RunInv
<1> SUFFICES ASSUME NEW id \in committed \ late, NEW s \in Shards, id <= progress'[s]
             PROVE  id \in Copied'
  BY DEF NothingSkipped, Shards
<1>2. CASE s = slot[r]
  <2>1. progress'[s] = cursor[r]
    BY <1>1, <1>2 DEF WriteProgress, TypeOK
  <2> QED BY <1>1, <2>1 DEF BelowCursor, Owed
<1>3. CASE s # slot[r]
  <2>1. progress'[s] = progress[s]
    BY <1>1, <1>3 DEF WriteProgress, TypeOK
  <2> QED BY <1>1, <2>1 DEF NothingSkipped
<1> QED BY <1>2, <1>3

(* A row commits: it is late, or no run and no progress is past it.        *)
LEMMA CommitIInv ==
  ASSUME IInv, [Next]_vars, NEW id \in Ids, Commit(id)
  PROVE  NothingSkipped' /\ \A q \in Runners : RunInv(q)'
<1>0. /\ TypeOK /\ NothingSkipped /\ Copied \subseteq Copied'
      /\ \A q \in Runners : RunInv(q)
      /\ tenant' = tenant /\ rows' = rows /\ progress' = progress
      /\ cursor' = cursor /\ batch' = batch /\ todo' = todo
      /\ id \notin committed
  BY CopiedStays DEF IInv, Commit, sourceVars, runVars
<1>1. /\ Owed' \subseteq Owed \cup {id}
      /\ id \in Owed' => ~Passed(id)
  BY <1>0 DEF Commit, Owed, TypeOK
<1>2. NothingSkipped'
  BY <1>0, <1>1 DEF NothingSkipped, Owed, Passed, Shards
<1>3. ASSUME NEW q \in Runners PROVE RunInv(q)'
  <2>1. BelowCursor(q)'
    BY <1>0, <1>1 DEF RunInv, BelowCursor, Passed
  <2>2. ASSUME NEW j \in Owed', NEW i \in batch[q], cursor[q] < j, j <= i PROVE j \in batch[q]
    <3>1. CASE j \in Owed
      BY <1>0, <2>2, <3>1 DEF RunInv, BatchIsWhole
    <3>2. CASE j \notin Owed
      <4>1. j = id /\ ~(id < i)
        BY <1>1, <3>2 DEF Passed
      <4>2. i \in committed /\ i \in Nat /\ id \in Nat
        BY <1>0 DEF TypeOK, Ids
      <4>3. i = id
        BY <2>2, <4>1, <4>2
      <4> QED BY <1>0, <4>2, <4>3
    <3> QED BY <3>1, <3>2
  <2>3. BatchIsWhole(q)'
    BY <1>0, <2>2 DEF BatchIsWhole
  <2>4. BatchIsPlaced(q)'
    BY <1>0 DEF RunInv, BatchIsPlaced, ShardOf
  <2> QED BY <2>1, <2>3, <2>4 DEF RunInv
<1> QED BY <1>2, <1>3

(* A run starts where shard 0 has got to.                                  *)
LEMMA BeginRun ==
  ASSUME IInv, [Next]_vars, NEW r \in Runners, Begin(r)
  PROVE  \A q \in Runners : RunInv(q)'
<1>0. /\ TypeOK /\ NothingSkipped /\ RunInv(r) /\ Copied \subseteq Copied'
      /\ tenant' = tenant /\ committed' = committed /\ late' = late
      /\ batch' = batch /\ todo' = todo
      /\ cursor' = [cursor EXCEPT ![r] = progress[0]]
  BY CopiedStays DEF IInv, Begin, sourceVars
<1> SUFFICES ASSUME NEW q \in Runners PROVE RunInv(q)'
  OBVIOUS
<1>1. CASE q = r
  <2>1. cursor'[q] = progress[0]
    BY <1>0, <1>1 DEF TypeOK
  <2>2. 0 \in Shards
    BY BackfillAssumption DEF Shards
  <2>3. BelowCursor(q)'
    BY <1>0, <2>1, <2>2 DEF BelowCursor, NothingSkipped, Owed
  <2>4. batch[q] = {}
    BY <1>1 DEF Begin, IInv, NoOtherBatch
  <2> QED BY <1>0, <2>3, <2>4 DEF RunInv, BatchIsWhole, BatchIsPlaced
<1>2. CASE q # r
  <2>1. cursor'[q] = cursor[q] /\ batch'[q] = batch[q] /\ todo'[q] = todo[q]
    BY <1>0, <1>2 DEF TypeOK
  <2> QED BY <1>0, <2>1, RunUndisturbed
<1> QED BY <1>1, <1>2

(* The rows of one shard are inserted.                                     *)
LEMMA InsertRun ==
  ASSUME IInv, [Next]_vars, NEW r \in Runners, NEW s \in Shards, Insert(r, s)
  PROVE  \A q \in Runners : RunInv(q)'
<1>0. /\ TypeOK /\ RunInv(r) /\ Copied \subseteq Copied'
      /\ tenant' = tenant /\ committed' = committed /\ late' = late
      /\ cursor' = cursor /\ batch' = batch
      /\ todo' = [todo EXCEPT ![r] = @ \ {s}]
      /\ InsertIgnore(r, s)
  BY CopiedStays DEF IInv, Insert, sourceVars
<1> SUFFICES ASSUME NEW q \in Runners PROVE RunInv(q)'
  OBVIOUS
<1>1. CASE q = r
  <2>1. ASSUME NEW id \in batch[r] PROVE ShardOf(id) \in todo'[r] \/ id \in Copied'
    <3>1. CASE ShardOf(id) = s
      <4>1. id \in committed /\ rows'[s] = rows[s] \cup {j \in batch[r] : ShardOf(j) = s}
        BY <1>0 DEF InsertIgnore, TypeOK
      <4> QED BY <1>0, <3>1, <4>1 DEF Copied, ShardOf
    <3>2. CASE ShardOf(id) # s
      BY <1>0, <3>2 DEF RunInv, BatchIsPlaced, TypeOK
    <3> QED BY <3>1, <3>2
  <2> QED BY <1>0, <1>1, <2>1 DEF RunInv, BelowCursor, BatchIsWhole, BatchIsPlaced, Owed, ShardOf
<1>2. CASE q # r
  <2>1. cursor'[q] = cursor[q] /\ batch'[q] = batch[q] /\ todo'[q] = todo[q]
    BY <1>0, <1>2 DEF TypeOK
  <2> QED BY <1>0, <2>1, RunUndisturbed
<1> QED BY <1>1, <1>2

(* A batch is fetched: all that is visible between the cursor and its      *)
(* highest id, and every shard it needs is still to do.                    *)
LEMMA FetchRun ==
  ASSUME IInv, [Next]_vars, NEW r \in Runners, Fetch(r)
  PROVE  \A q \in Runners : RunInv(q)'
<1>1. PICK hi \in Visible(r) :
         /\ batch' = [batch EXCEPT ![r] = {id \in Visible(r) : id <= hi}]
         /\ todo' = [todo EXCEPT ![r] = {ShardOf(id) : id \in {j \in Visible(r) : j <= hi}}]
  BY DEF Fetch
<1>0. /\ TypeOK /\ RunInv(r) /\ Copied \subseteq Copied'
      /\ tenant' = tenant /\ committed' = committed /\ late' = late
      /\ cursor' = cursor
  BY CopiedStays DEF IInv, Fetch, sourceVars
<1> SUFFICES ASSUME NEW q \in Runners PROVE RunInv(q)'
  OBVIOUS
<1>2. CASE q = r
  <2>1. /\ batch'[q] = {id \in Visible(r) : id <= hi}
        /\ todo'[q] = {ShardOf(id) : id \in {j \in Visible(r) : j <= hi}}
        /\ cursor'[q] = cursor[r]
    BY <1>0, <1>1, <1>2 DEF TypeOK
  <2>2. BelowCursor(q)'
    BY <1>0, <2>1 DEF RunInv, BelowCursor, Owed
  <2>3. ASSUME NEW id \in committed \ late, NEW i \in batch'[q], cursor[r] < id, id <= i
        PROVE  id \in batch'[q]
    <3>1. id \in Nat /\ i \in Nat /\ hi \in Nat /\ i <= hi /\ cursor[r] \in Nat
      BY <1>0, <2>1 DEF Visible, TypeOK, Ids
    <3> QED BY <2>1, <2>3, <3>1 DEF Visible
  <2>4. BatchIsWhole(q)'
    BY <1>0, <2>1, <2>3 DEF BatchIsWhole, Owed
  <2>5. BatchIsPlaced(q)'
    BY <1>0, <2>1 DEF BatchIsPlaced, ShardOf
  <2> QED BY <2>2, <2>4, <2>5 DEF RunInv
<1>3. CASE q # r
  <2>1. cursor'[q] = cursor[q] /\ batch'[q] = batch[q] /\ todo'[q] = todo[q]
    BY <1>0, <1>1, <1>3 DEF TypeOK
  <2> QED BY <1>0, <2>1, RunUndisturbed
<1> QED BY <1>2, <1>3

(* The cursor moves over a batch that is in its shards.                    *)
LEMMA AdvanceRun ==
  ASSUME IInv, [Next]_vars, NEW r \in Runners, Advance(r)
  PROVE  \A q \in Runners : RunInv(q)'
<1>1. PICK hi \in batch[r] : cursor' = [cursor EXCEPT ![r] = hi]
  BY DEF Advance
<1>0. /\ TypeOK /\ RunInv(r) /\ Copied \subseteq Copied'
      /\ tenant' = tenant /\ committed' = committed /\ late' = late
      /\ batch' = [batch EXCEPT ![r] = {}] /\ todo' = todo /\ todo[r] = {}
  BY CopiedStays DEF IInv, Advance, sourceVars
<1> SUFFICES ASSUME NEW q \in Runners PROVE RunInv(q)'
  OBVIOUS
<1>2. CASE q = r
  <2>1. cursor'[q] = hi /\ batch'[q] = {}
    BY <1>0, <1>1, <1>2 DEF TypeOK
  <2>2. ASSUME NEW id \in committed \ late, id <= hi PROVE id \in Copied
    <3>1. CASE id <= cursor[r]
      BY <1>0, <3>1 DEF RunInv, BelowCursor, Owed
    <3>2. CASE ~(id <= cursor[r])
      <4>1. cursor[r] < id
        BY <1>0, <3>2 DEF TypeOK, Ids
      <4>2. id \in batch[r]
        BY <1>0, <2>2, <4>1 DEF RunInv, BatchIsWhole, Owed
      <4> QED BY <1>0, <4>2 DEF RunInv, BatchIsPlaced
    <3> QED BY <3>1, <3>2
  <2> QED BY <1>0, <2>1, <2>2 DEF RunInv, BelowCursor, BatchIsWhole, BatchIsPlaced, Owed
<1>3. CASE q # r
  <2>1. cursor'[q] = cursor[q] /\ batch'[q] = batch[q] /\ todo'[q] = todo[q]
    BY <1>0, <1>1, <1>3 DEF TypeOK
  <2> QED BY <1>0, <2>1, RunUndisturbed
<1> QED BY <1>2, <1>3

(* The step: what runs know, and what the shards remember.                 *)
LEMMA StepRunInv ==
  IInv /\ [Next]_vars => NothingSkipped' /\ \A q \in Runners : RunInv(q)'
<1> SUFFICES ASSUME IInv, [Next]_vars
             PROVE  NothingSkipped' /\ \A q \in Runners : RunInv(q)'
  OBVIOUS
<1>1. ASSUME NEW t \in Tenants, Allocate(t)
      PROVE  NothingSkipped' /\ \A q \in Runners : RunInv(q)'
  BY <1>1, RunUndisturbed, ProgressUndisturbed DEF Allocate, runVars
<1>2. ASSUME NEW id \in Ids, Commit(id)
      PROVE  NothingSkipped' /\ \A q \in Runners : RunInv(q)'
  BY <1>2, CommitIInv
<1>3. ASSUME NEW r \in Runners, Begin(r)
      PROVE  NothingSkipped' /\ \A q \in Runners : RunInv(q)'
  BY <1>3, BeginRun, ProgressUndisturbed DEF Begin, sourceVars
<1>4. ASSUME NEW r \in Runners, Finish(r) \/ Interrupt(r)
      PROVE  NothingSkipped' /\ \A q \in Runners : RunInv(q)'
  BY <1>4, RunUndisturbed, ProgressUndisturbed DEF Finish, Interrupt, sourceVars
<1>5. ASSUME NEW r \in Runners, Fetch(r)
      PROVE  NothingSkipped' /\ \A q \in Runners : RunInv(q)'
  BY <1>5, FetchRun, ProgressUndisturbed DEF Fetch, sourceVars
<1>6. ASSUME NEW r \in Runners, NEW s \in Shards, Insert(r, s)
      PROVE  NothingSkipped' /\ \A q \in Runners : RunInv(q)'
  BY <1>6, InsertRun, ProgressUndisturbed DEF Insert, sourceVars
<1>7. ASSUME NEW r \in Runners, Advance(r)
      PROVE  NothingSkipped' /\ \A q \in Runners : RunInv(q)'
  BY <1>7, AdvanceRun, ProgressUndisturbed DEF Advance, sourceVars
<1>8. ASSUME NEW r \in Runners, Save(r)
      PROVE  NothingSkipped' /\ \A q \in Runners : RunInv(q)'
  <2>1. WriteProgress(r) /\ UNCHANGED <<committed, late>>
    BY <1>8 DEF Save, MoreShards, sourceVars
  <2>2. NothingSkipped'
    BY <2>1, ProgressWritten
  <2>3. CASE slot[r] + 1 < ShardCount
    BY <1>8, <2>1, <2>2, <2>3, RunUndisturbed DEF Save, MoreShards
  <2>4. CASE ~(slot[r] + 1 < ShardCount)
    BY <1>8, <2>1, <2>2, <2>4, RunSaved DEF Save, MoreShards
  <2> QED BY <2>3, <2>4
<1>9. ASSUME NEW r \in Runners, SaveFails(r)
      PROVE  NothingSkipped' /\ \A q \in Runners : RunInv(q)'
  <2>1. Saved(r) /\ UNCHANGED <<committed, late>>
    BY <1>9 DEF SaveFails, sourceVars
  <2>2. NothingSkipped'
    BY <1>9, <2>1, ProgressWritten, ProgressUndisturbed DEF SaveFails
  <2> QED BY <2>1, <2>2, RunSaved
<1>10. ASSUME NEW r \in Runners, Crash(r) \/ \E s \in Shards : InsertFails(r, s)
       PROVE  NothingSkipped' /\ \A q \in Runners : RunInv(q)'
  BY <1>10, RunGone, ProgressUndisturbed DEF Crash, InsertFails, sourceVars
<1>11. CASE UNCHANGED vars
  BY <1>11, RunUndisturbed, ProgressUndisturbed DEF vars, sourceVars, runVars
<1> QED BY <1>1, <1>2, <1>3, <1>4, <1>5, <1>6, <1>7, <1>8, <1>9, <1>10, <1>11
        DEF Next, Step, Failure

LEMMA StepIInv == IInv /\ [Next]_vars => IInv'
  BY StepTypeOK, StepNoOtherBatch, StepNoContamination, StepRunInv DEF IInv

LEMMA InvariantHolds == Spec => []IInv
  BY InitIInv, StepIInv, PTL DEF Spec

-----------------------------------------------------------------------------
(* Cursors, batches and saved progresses are ids of the source.            *)
THEOREM TypeCorrect == Spec => []TypeOK
<1>1. IInv => TypeOK
  BY DEF IInv
<1> QED BY <1>1, InvariantHolds, PTL

(* insertBatch puts a row only into the shard that TenantIDResolver names. *)
THEOREM RowsAreRouted == Spec => []NoContamination
<1>1. IInv => NoContamination
  BY DEF IInv
<1> QED BY <1>1, InvariantHolds, PTL

(* Whatever number of runs overlap, and wherever they fail, no             *)
(* last_processed_id of any shard runs ahead of the copy.                  *)
THEOREM NoRowSkipped == Spec => []NothingSkipped
<1>1. IInv => NothingSkipped
  BY DEF IInv
<1> QED BY <1>1, InvariantHolds, PTL

(* A run that ends because fetchBatch finds nothing has everything copied. *)
THEOREM CompletionIsTrue == Spec => CompleteIsComplete
<1>1. IInv /\ [Next]_vars =>
        [\A r \in Runners :
           r \in ending' \ ending /\ r \notin interrupted => committed \ late \subseteq Copied]_vars
  <2> SUFFICES ASSUME IInv, [Next]_vars, NEW r \in Runners, r \in ending' \ ending,
                      r \notin interrupted, NEW id \in committed \ late
               PROVE  id \in Copied
    OBVIOUS
  <2>1. Finish(r)
    BY DEF Next, Step, Failure, Allocate, Commit, Begin, Finish, Fetch, Advance, Save, MoreShards, Insert,
           SaveFails, Crash, Interrupt, InsertFails, Gone, Saved, vars, runVars
  <2>2. ~(id > cursor[r])
    BY <2>1 DEF Finish, NothingLeft, Visible
  <2>3. id <= cursor[r]
    BY <2>2 DEF IInv, TypeOK, Ids
  <2> QED BY <2>3 DEF IInv, RunInv, BelowCursor, Owed
<1> QED BY <1>1, InvariantHolds, PTL DEF Spec, CompleteIsComplete
-----------------------------------------------------------------------------
(* How long a run takes.                                                   *)

(* A batch lies ahead of the cursor, so the cursor only moves forward.     *)
BatchIsAhead == \A r \in Runners : \A id \in batch[r] : cursor[r] < id

LEMMA StepBatchIsAhead == TypeOK /\ NoOtherBatch /\ BatchIsAhead /\ [Next]_vars => BatchIsAhead'
<1> SUFFICES ASSUME TypeOK, NoOtherBatch, BatchIsAhead, [Next]_vars, NEW q \in Runners
             PROVE  \A id \in batch'[q] : cursor'[q] < id
  BY DEF BatchIsAhead
<1> USE DEF TypeOK, NoOtherBatch, BatchIsAhead
<1> DEFINE Good == \A id \in batch'[q] : cursor'[q] < id
<1>1. ASSUME NEW r \in Runners, Gone(r) PROVE Good
  BY <1>1 DEF Gone
<1>2. ASSUME NEW r \in Runners, Saved(r) PROVE Good
  BY <1>1, <1>2 DEF Saved
<1>3. CASE UNCHANGED <<cursor, batch>>
  BY <1>3
<1>4. ASSUME NEW r \in Runners, Begin(r) PROVE Good
  BY <1>4 DEF Begin
<1>5. ASSUME NEW r \in Runners, Fetch(r) PROVE Good
  <2>1. PICK hi \in Visible(r) : batch' = [batch EXCEPT ![r] = {id \in Visible(r) : id <= hi}]
    BY <1>5 DEF Fetch
  <2>2. cursor' = cursor
    BY <1>5 DEF Fetch
  <2>3. \A id \in Visible(r) : cursor[r] < id
    BY DEF Visible, Ids
  <2> QED BY <2>1, <2>2, <2>3
<1>6. ASSUME NEW r \in Runners, Advance(r) PROVE Good
  BY <1>6 DEF Advance
<1>7. ASSUME NEW r \in Runners, Save(r) PROVE Good
  BY <1>2, <1>3, <1>7 DEF Save, MoreShards
<1>8. ASSUME NEW r \in Runners, Failure(r) PROVE Good
  BY <1>1, <1>2, <1>3, <1>8 DEF Failure, SaveFails, Crash, Interrupt, InsertFails
<1>9. ASSUME NEW r \in Runners, Finish(r) \/ \E s \in Shards : Insert(r, s) PROVE Good
  BY <1>3, <1>9 DEF Finish, Insert
<1>10. ASSUME (\E t \in Tenants : Allocate(t)) \/ (\E id \in Ids : Commit(id)) PROVE Good
  BY <1>3, <1>10 DEF Allocate, Commit, runVars
<1>11. CASE UNCHANGED vars
  BY <1>3, <1>11 DEF vars, runVars
<1> QED BY <1>4, <1>5, <1>6, <1>7, <1>8, <1>9, <1>10, <1>11 DEF Next, Step

Ranked == TypeOK /\ NoOtherBatch /\ BatchIsAhead

LEMMA RankedHolds == Spec => []Ranked
<1>1. Init => BatchIsAhead
  BY DEF Init, BatchIsAhead
<1>2. IInv => TypeOK /\ NoOtherBatch
  BY DEF IInv
<1> QED BY <1>1, <1>2, StepBatchIsAhead, InvariantHolds, PTL DEF Spec, Ranked

(* The counts that a rank is made of are numbers.                          *)
LEMMA SomeShards ==
  ASSUME NEW T \in SUBSET Shards
  PROVE  IsFiniteSet(T) /\ Cardinality(T) \in 0..ShardCount
<1>1. 0 \in Int /\ ShardCount - 1 \in Int /\ ~(0 > ShardCount - 1) /\ ShardCount \in Nat
  BY BackfillAssumption
<1>2. IsFiniteSet(Shards) /\ Cardinality(Shards) = ShardCount
  BY <1>1, FS_Interval DEF Shards
<1>3. IsFiniteSet(T) /\ Cardinality(T) \in Nat /\ Cardinality(T) <= ShardCount
  BY <1>2, FS_Subset, FS_CardinalityType
<1> QED BY <1>1, <1>3

LEMMA SomeRows ==
  ASSUME TypeOK, NEW r \in Runners
  PROVE  IsFiniteSet(Ahead(r)) /\ Cardinality(Ahead(r)) \in Nat
<1>1. IsFiniteSet(Ids)
  BY FS_Interval DEF TypeOK, Ids
<1>2. Ahead(r) \in SUBSET Ids
  BY DEF TypeOK, Ahead
<1> QED BY <1>1, <1>2, FS_Subset, FS_CardinalityType

LEMMA Times ==
  ASSUME NEW k \in Nat, NEW c \in Nat, NEW d \in Nat
  PROVE  k * c \in Nat /\ (d <= c => k * d <= k * c) /\ (d < c => k * d + k <= k * c)
<1>1. ASSUME d <= c PROVE k * d <= k * c
  <2>1. PICK e \in Nat : c = d + e
    BY <1>1
  <2>2. k * (d + e) = k * d + k * e /\ k * e \in Nat /\ k * d \in Nat
    OBVIOUS
  <2> QED BY <2>1, <2>2
<1>2. ASSUME d < c PROVE k * d + k <= k * c
  <2>1. PICK e \in Nat : c = d + 1 + e
    <3>1. c - d - 1 \in Nat /\ c = d + 1 + (c - d - 1)
      BY <1>2
    <3> QED BY <3>1
  <2>2. k * (d + 1 + e) = k * d + k + k * e /\ k * e \in Nat /\ k * d \in Nat
    OBVIOUS
  <2> QED BY <2>1, <2>2
<1> QED BY <1>1, <1>2

(* What is left of a run when rows ahead of it are fetched, or it has      *)
(* moved past them.                                                        *)
Rest(r) == (3 * ShardCount + 3) * Cardinality(Ahead(r)) + ShardCount + 1

LEMMA RestType ==
  ASSUME TypeOK, NEW r \in Runners
  PROVE  Rest(r) \in Nat /\ Rest(r) > ShardCount
<1>1. 3 * ShardCount + 3 \in Nat /\ ShardCount \in Nat
  BY BackfillAssumption
<1>2. (3 * ShardCount + 3) * Cardinality(Ahead(r)) \in Nat
  BY <1>1, SomeRows, Times
<1> QED BY <1>1, <1>2 DEF Rest

LEMMA RestShrinks ==
  ASSUME TypeOK, NEW r \in Runners, Ahead(r)' \subseteq Ahead(r)
  PROVE  /\ Rest(r)' \in Nat /\ Rest(r)' <= Rest(r)
         /\ Ahead(r)' # Ahead(r) => Rest(r)' + 3 * ShardCount + 3 <= Rest(r)
<1> DEFINE k == 3 * ShardCount + 3
           c == Cardinality(Ahead(r))
           d == Cardinality(Ahead(r))'
<1>1. k \in Nat /\ ShardCount \in Nat /\ c \in Nat /\ IsFiniteSet(Ahead(r))
  BY BackfillAssumption, SomeRows
<1>2. d \in Nat /\ d <= c /\ (Ahead(r)' # Ahead(r) => d < c)
  BY <1>1, FS_Subset, FS_CardinalityType
<1> HIDE DEF c, d
<1>3. k * c \in Nat /\ k * d \in Nat /\ k * d <= k * c /\ (d < c => k * d + k <= k * c)
  BY <1>1, <1>2, Times
<1>4. Rest(r) = k * c + ShardCount + 1 /\ Rest(r)' = k * d + ShardCount + 1
  BY DEF Rest, c, d
<1> HIDE DEF k
<1>5. Ahead(r)' # Ahead(r) => Rest(r)' + k <= Rest(r)
  BY <1>1, <1>2, <1>3, <1>4
<1> QED BY <1>1, <1>3, <1>4, <1>5 DEF k

(* The rank by phase.                                                      *)
LEMMA RankIs ==
  ASSUME NEW r \in Runners
  PROVE  /\ phase[r] = "idle" => RunSteps(r) = 0
         /\ phase[r] = "top" => RunSteps(r) = Rest(r)
         /\ phase[r] = "insert" => RunSteps(r) = Cardinality(todo[r]) + 1 + ShardCount + Rest(r)
         /\ phase[r] = "save" => RunSteps(r) = IF r \in ending THEN ShardCount - slot[r]
                                               ELSE ShardCount - slot[r] + Rest(r)
  BY DEF RunSteps, Rest

LEMMA RankPositive ==
  ASSUME TypeOK, NEW r \in Runners, phase[r] # "idle"
  PROVE  RunSteps(r) \in Nat /\ RunSteps(r) > 0
<1>1. /\ Rest(r) \in Nat /\ Rest(r) > ShardCount /\ ShardCount \in Nat
      /\ Cardinality(todo[r]) \in 0..ShardCount
      /\ slot[r] \in 0..(ShardCount - 1) /\ phase[r] \in Phases
  BY BackfillAssumption, RestType, SomeShards DEF TypeOK, Shards
<1> QED BY <1>1, RankIs DEF Phases

(* A process that is gone has nothing left.                                *)
LEMMA GoneShortens ==
  ASSUME TypeOK, NEW r \in Runners, phase[r] # "idle", Gone(r)
  PROVE  RunSteps(r)' < RunSteps(r)
<1>1. phase'[r] = "idle"
  BY DEF Gone, TypeOK
<1>2. RunSteps(r)' = 0
  BY <1>1 DEF RunSteps
<1> QED BY <1>2, RankPositive

LEMMA SavedShortens ==
  ASSUME TypeOK, NEW r \in Runners, phase[r] = "save", Saved(r), UNCHANGED committed
  PROVE  RunSteps(r)' < RunSteps(r)
<1>1. CASE r \in ending
  BY <1>1, GoneShortens DEF Saved
<1>2. CASE r \notin ending
  <2>1. phase'[r] = "top" /\ Rest(r)' = Rest(r)
    BY <1>2 DEF Saved, TypeOK, Rest, Ahead
  <2>2. RunSteps(r)' = Rest(r) /\ RunSteps(r) = ShardCount - slot[r] + Rest(r)
    BY <1>2, <2>1 DEF RunSteps, Rest
  <2>3. Rest(r) \in Nat /\ ShardCount \in Nat /\ slot[r] \in 0..(ShardCount - 1)
    BY BackfillAssumption, RestType DEF TypeOK, Shards
  <2> QED BY <2>2, <2>3
<1> QED BY <1>1, <1>2

(* One step of a run.                                                      *)
LEMMA StepShortens ==
  ASSUME Ranked, TypeOK', NEW r \in Runners, Step(r), UNCHANGED committed
  PROVE  RunSteps(r)' < RunSteps(r)
<1>1. /\ TypeOK
      /\ Rest(r) \in Nat /\ Rest(r) > ShardCount /\ ShardCount \in Nat \ {0}
      /\ todo[r] \in SUBSET Shards /\ todo'[r] \in SUBSET Shards
      /\ slot[r] \in 0..(ShardCount - 1)
  BY BackfillAssumption, RestType DEF Ranked, TypeOK, Shards
<1>0. /\ IsFiniteSet(todo[r])
      /\ Cardinality(todo[r]) \in 0..ShardCount /\ Cardinality(todo'[r]) \in 0..ShardCount
  BY <1>1, SomeShards
<1>2. CASE Finish(r)
  <2>1. phase'[r] = "save" /\ r \in ending' /\ slot' = slot
    BY <1>1, <1>2 DEF Finish, TypeOK
  <2>2. RunSteps(r)' = ShardCount - slot[r]
    BY <2>1 DEF RunSteps
  <2>3. RunSteps(r) = Rest(r)
    BY <1>2, RankIs DEF Finish
  <2> QED BY <1>1, <2>2, <2>3
<1>3. CASE Fetch(r)
  <2>1. PICK hi \in Visible(r) : batch' = [batch EXCEPT ![r] = {id \in Visible(r) : id <= hi}]
    BY <1>3 DEF Fetch
  <2>2. /\ batch'[r] = {id \in Visible(r) : id <= hi} /\ batch[r] = {}
        /\ cursor' = cursor /\ phase[r] = "top" /\ phase'[r] = "insert"
    BY <1>1, <1>3, <2>1 DEF Fetch, TypeOK, Ranked, NoOtherBatch
  <2>3. hi <= hi
    BY <1>1 DEF Visible, TypeOK, Ids
  <2>4. Ahead(r)' \subseteq Ahead(r) /\ hi \in Ahead(r) /\ hi \notin Ahead(r)'
    BY <2>2, <2>3 DEF Ahead, Visible
  <2>5. Rest(r)' + 3 * ShardCount + 3 <= Rest(r) /\ Rest(r)' \in Nat
    BY <1>1, <2>4, RestShrinks
  <2>6. RunSteps(r) = Rest(r) /\ RunSteps(r)' = Cardinality(todo'[r]) + 1 + ShardCount + Rest(r)'
    BY <2>2 DEF RunSteps, Rest
  <2> QED BY <1>0, <1>1, <2>5, <2>6
<1>4. ASSUME NEW s \in Shards, Insert(r, s) PROVE RunSteps(r)' < RunSteps(r)
  <2>1. /\ phase[r] = "insert" /\ phase' = phase /\ cursor' = cursor /\ batch' = batch
        /\ s \in todo[r] /\ todo'[r] = todo[r] \ {s}
    BY <1>1, <1>4 DEF Insert, TypeOK
  <2>2. Cardinality(todo'[r]) = Cardinality(todo[r]) - 1
    BY <1>0, <2>1, FS_RemoveElement
  <2>3. Rest(r)' = Rest(r)
    BY <2>1 DEF Rest, Ahead
  <2>4. /\ RunSteps(r) = Cardinality(todo[r]) + 1 + ShardCount + Rest(r)
        /\ RunSteps(r)' = Cardinality(todo'[r]) + 1 + ShardCount + Rest(r)'
    BY <2>1 DEF RunSteps, Rest
  <2> QED BY <1>0, <1>1, <2>2, <2>3, <2>4
<1>5. CASE Advance(r)
  <2>1. PICK hi \in batch[r] : /\ \A id \in batch[r] : id <= hi
                               /\ cursor' = [cursor EXCEPT ![r] = hi]
    BY <1>5 DEF Advance
  <2>2. /\ cursor'[r] = hi /\ batch'[r] = {} /\ phase[r] = "insert" /\ phase'[r] = "save"
        /\ cursor[r] < hi /\ slot' = slot /\ ending' = ending /\ todo[r] = {}
    BY <1>1, <1>5, <2>1 DEF Advance, TypeOK, Ranked, BatchIsAhead
  <2>3. hi \in Nat /\ cursor[r] \in Nat /\ committed \subseteq Nat
    BY <1>1 DEF TypeOK, Ids
  <2>4. \A id \in committed : id > hi => id > cursor[r] /\ id \notin batch[r]
    BY <2>1, <2>2, <2>3
  <2>5. Ahead(r)' \subseteq Ahead(r)
    BY <2>2, <2>4 DEF Ahead
  <2>6. Rest(r)' <= Rest(r) /\ Rest(r)' \in Nat
    BY <1>1, <2>5, RestShrinks
  <2>7. RunSteps(r) = 0 + 1 + ShardCount + Rest(r)
    BY <2>2, RankIs, FS_EmptySet
  <2>8. RunSteps(r)' \in {ShardCount - slot[r], ShardCount - slot[r] + Rest(r)'}
    BY <2>2 DEF RunSteps, Rest
  <2> QED BY <1>1, <2>6, <2>7, <2>8
<1>6. CASE Save(r)
  <2>1. CASE MoreShards(r)
    <3>1. /\ phase[r] = "save" /\ phase' = phase /\ cursor' = cursor /\ batch' = batch
          /\ ending' = ending /\ slot'[r] = slot[r] + 1
      BY <1>1, <1>6, <2>1 DEF Save, TypeOK
    <3>2. Rest(r)' = Rest(r)
      BY <3>1 DEF Rest, Ahead
    <3>3. RunSteps(r) = IF r \in ending THEN ShardCount - slot[r] ELSE ShardCount - slot[r] + Rest(r)
      BY <3>1, RankIs
    <3>4. RunSteps(r)' = IF r \in ending THEN ShardCount - slot'[r] ELSE ShardCount - slot'[r] + Rest(r)'
      BY <3>1 DEF RunSteps, Rest
    <3> QED BY <1>1, <3>1, <3>2, <3>3, <3>4
  <2>2. CASE ~MoreShards(r)
    BY <1>1, <1>6, <2>2, SavedShortens DEF Save
  <2> QED BY <2>1, <2>2
<1> QED BY <1>2, <1>3, <1>4, <1>5, <1>6 DEF Step

(* Failures end a run or leave it where it is.                             *)
LEMMA FailureShortens ==
  ASSUME TypeOK, NEW r \in Runners, Failure(r)
  PROVE  RunSteps(r)' < RunSteps(r) \/ UNCHANGED <<phase[r], cursor[r], batch[r], todo[r], slot[r]>>
<1>1. CASE SaveFails(r)
  BY <1>1, SavedShortens DEF SaveFails, sourceVars
<1>2. CASE Crash(r)
  BY <1>2, GoneShortens DEF Crash
<1>3. CASE Interrupt(r)
  BY <1>3 DEF Interrupt
<1>4. CASE \E s \in Shards : InsertFails(r, s)
  BY <1>4, GoneShortens DEF InsertFails
<1> QED BY <1>1, <1>2, <1>3, <1>4 DEF Failure

(* What other runs and the source do leaves a run where it is.             *)
LEMMA OthersLeaveRun ==
  ASSUME TypeOK, [Next]_vars, NEW q \in Runners, phase[q] # "idle", ~Step(q), ~Failure(q)
  PROVE  UNCHANGED <<phase[q], cursor[q], batch[q], todo[q], slot[q]>>
<1> DEFINE Same == UNCHANGED <<phase[q], cursor[q], batch[q], todo[q], slot[q]>>
<1> USE DEF TypeOK
<1>1. ASSUME NEW r \in Runners, r # q, Gone(r) \/ Saved(r) PROVE Same
  BY <1>1 DEF Gone, Saved
<1>2. ASSUME NEW r \in Runners, Step(r) PROVE Same
  <2>0. r # q
    BY <1>2
  <2>1. CASE Finish(r) \/ \E s \in Shards : Insert(r, s)
    BY <2>0, <2>1 DEF Finish, Insert
  <2>2. CASE Fetch(r)
    <3>1. /\ phase' = [phase EXCEPT ![r] = "insert"]
          /\ \E b : batch' = [batch EXCEPT ![r] = b]
          /\ \E t : todo' = [todo EXCEPT ![r] = t]
          /\ UNCHANGED <<cursor, slot>>
      BY <2>2 DEF Fetch
    <3> QED BY <2>0, <3>1
  <2>3. CASE Advance(r)
    BY <2>0, <2>3 DEF Advance
  <2>4. CASE Save(r)
    BY <1>1, <2>0, <2>4 DEF Save
  <2> QED BY <1>2, <2>1, <2>2, <2>3, <2>4 DEF Step
<1>3. ASSUME NEW r \in Runners, Failure(r) PROVE Same
  <2>0. r # q
    BY <1>3
  <2>1. CASE Interrupt(r)
    BY <2>1 DEF Interrupt
  <2>2. Gone(r) \/ Saved(r) \/ Interrupt(r)
    BY <1>3 DEF Failure, SaveFails, Crash, InsertFails
  <2> QED BY <1>1, <2>0, <2>1, <2>2
<1>4. ASSUME NEW r \in Runners, Begin(r) PROVE Same
  <2>1. r # q
    BY <1>4 DEF Begin
  <2> QED BY <1>4, <2>1 DEF Begin
<1>5. CASE \E t \in Tenants : Allocate(t)
  BY <1>5 DEF Allocate, runVars
<1>6. CASE \E id \in Ids : Commit(id)
  BY <1>6 DEF Commit, runVars
<1>7. CASE UNCHANGED vars
  BY <1>7 DEF vars, runVars
<1> QED BY <1>2, <1>3, <1>4, <1>5, <1>6, <1>7 DEF Next

(* A run is over after a number of its own steps that the rows still ahead *)
(* of it bound, unless the source shows it more rows: it neither fetches a *)
(* row twice nor turns its loop without fetching one.                      *)
THEOREM RunsShorten == Spec => RunShortens /\ [](\A r \in Runners : RunSteps(r) \in Nat)
<1>1. ASSUME Ranked, TypeOK', [Next]_vars, NEW r \in Runners, phase[r] # "idle", committed' = committed
      PROVE  \/ RunSteps(r)' < RunSteps(r)
             \/ UNCHANGED <<phase[r], cursor[r], batch[r], todo[r], slot[r]>>
  <2>1. TypeOK
    BY <1>1 DEF Ranked
  <2>2. CASE Step(r)
    BY <1>1, <2>2, StepShortens
  <2>3. CASE Failure(r)
    BY <2>1, <2>3, FailureShortens
  <2>4. CASE ~Step(r) /\ ~Failure(r)
    BY <1>1, <2>1, <2>4, OthersLeaveRun
  <2> QED BY <2>2, <2>3, <2>4
<1>2. Ranked /\ Ranked' /\ [Next]_vars
        => (\A r \in Runners :
               phase[r] # "idle" /\ committed' = committed =>
                  \/ RunSteps(r)' < RunSteps(r)
                  \/ UNCHANGED <<phase[r], cursor[r], batch[r], todo[r], slot[r]>>)
  BY <1>1 DEF Ranked
<1>3. Ranked => (\A r \in Runners : RunSteps(r) \in Nat)
  BY RankPositive, RankIs DEF Ranked
<1> QED BY <1>2, <1>3, RankedHolds, PTL DEF Spec, RunShortens

-----------------------------------------------------------------------------
(* The refinement of RowCopy. HomeOf is what its variable home stands for. *)
HomeOf == [id \in Ids |-> ShardOf(id)]

LEMMA HomeType ==
  ASSUME TypeOK
  PROVE  HomeOf \in Seq(Shards) /\ Len(HomeOf) = Len(tenant) /\ DOMAIN HomeOf = Ids
<1>1. Len(tenant) \in Nat
  BY DEF TypeOK
<1>2. \A id \in Ids : ShardOf(id) \in Shards
  BY ShardOfType
<1> QED BY <1>1, <1>2 DEF HomeOf, Ids

LEMMA AtHomeIsCopied == TypeOK => Copy!AtHome = Copied
<1> SUFFICES ASSUME TypeOK PROVE Copy!AtHome = Copied
  OBVIOUS
<1>1. \A id \in committed : HomeOf[id] = ShardOf(id)
  BY DEF HomeOf, TypeOK
<1> QED BY <1>1 DEF Copy!AtHome, Copied, HomeOf

(* Every step hands out an id, commits a row, inserts rows into one shard, *)
(* writes one progress, or is none of RowCopy's business.                  *)
LEMMA StepIs ==
  ASSUME TypeOK, [Next]_vars
  PROVE  \/ \E t \in Tenants : Allocate(t)
         \/ \E id \in Ids : Commit(id)
         \/ /\ \E r \in Runners, s \in Shards : InsertIgnore(r, s)
            /\ UNCHANGED <<sourceVars, progress>>
         \/ /\ \E r \in Runners : WriteProgress(r)
            /\ UNCHANGED <<sourceVars, rows>>
         \/ UNCHANGED <<sourceVars, rows, progress>>
  BY DEF Next, Step, Failure, Begin, Finish, Fetch, Advance, Save, MoreShards, Insert,
         SaveFails, Crash, Interrupt, InsertFails, vars

LEMMA AllocateGivesId ==
  ASSUME TypeOK, NEW t \in Tenants, Allocate(t)
  PROVE  Copy!GiveId
<1>1. tenant \in Seq(Tenants) /\ tenant' = Append(tenant, t) /\ Len(tenant) \in Nat
  BY DEF Allocate, TypeOK
<1>2. /\ Len(tenant') = Len(tenant) + 1 /\ tenant'[Len(tenant) + 1] = t
      /\ \A id \in 1..Len(tenant) : tenant'[id] = tenant[id]
  BY <1>1
<1>3. t % ShardCount \in Shards
  BY BackfillAssumption DEF Shards
<1>4. HomeOf' = Append(HomeOf, t % ShardCount)
  BY <1>1, <1>2, HomeType DEF HomeOf, Ids, ShardOf
<1> QED BY <1>3, <1>4 DEF Allocate, Copy!GiveId, HomeOf

(* While the source stays as it is.                                        *)
LEMMA SameHome == UNCHANGED sourceVars => HomeOf' = HomeOf
  BY DEF HomeOf, Ids, ShardOf, sourceVars

LEMMA CommitAppears ==
  ASSUME TypeOK, NEW id \in Ids, Commit(id)
  PROVE  Copy!Appear
<1>1. HomeOf' = HomeOf /\ UNCHANGED <<rows, progress>>
  BY DEF Commit, HomeOf, Ids, ShardOf
<1>2. id \in DOMAIN HomeOf \ committed /\ committed' = committed \cup {id}
  BY DEF Commit, HomeOf
<1>3. late' = late \cup {id} \/ (late' = late /\ \A s \in Shards : progress[s] < id)
  <2>1. CASE Passed(id)
    BY <2>1 DEF Commit
  <2>2. CASE ~Passed(id)
    <3>1. \A s \in Shards : progress[s] \in Nat /\ id \in Nat
      BY DEF TypeOK, Ids
    <3> QED BY <2>2, <3>1 DEF Commit, Passed
  <2> QED BY <2>1, <2>2
<1> QED BY <1>1, <1>2, <1>3 DEF Copy!Appear, HomeOf

LEMMA InsertCopies ==
  ASSUME TypeOK, NEW r \in Runners, NEW s \in Shards, InsertIgnore(r, s),
         UNCHANGED <<sourceVars, progress>>
  PROVE  Copy!CopyRows
<1> DEFINE ids == {id \in batch[r] : ShardOf(id) = s}
<1>1. ids \in SUBSET {id \in committed : HomeOf[id] = s}
  BY DEF HomeOf, TypeOK
<1>2. rows' = [rows EXCEPT ![s] = @ \cup ids]
  BY DEF InsertIgnore
<1>3. HomeOf' = HomeOf
  BY SameHome DEF sourceVars
<1> HIDE DEF ids
<1> QED BY <1>1, <1>2, <1>3 DEF Copy!CopyRows, HomeOf, sourceVars

(* What a run writes as its progress is true: BelowCursor.                 *)
LEMMA ProgressClaims ==
  ASSUME IInv, NEW r \in Runners, WriteProgress(r), UNCHANGED <<sourceVars, rows>>
  PROVE  Copy!Claim
<1>1. TypeOK /\ BelowCursor(r)
  BY DEF IInv, RunInv
<1>2. slot[r] \in Shards /\ cursor[r] \in DOMAIN HomeOf \cup {0}
  BY <1>1 DEF TypeOK, HomeOf
<1>3. \A id \in committed \ late : id <= cursor[r] => id \in Copy!AtHome
  BY <1>1, AtHomeIsCopied DEF BelowCursor, Owed
<1>4. progress' = [progress EXCEPT ![slot[r]] = cursor[r]]
  BY DEF WriteProgress
<1>5. HomeOf' = HomeOf
  BY SameHome
<1> QED BY <1>2, <1>3, <1>4, <1>5 DEF Copy!Claim, HomeOf, sourceVars

(* The backfill does what RowCopy promises: rows appear, are copied to     *)
(* their own shard and stay there, and whatever the runs, their failures   *)
(* and their races write as progress was true when they wrote it.          *)
THEOREM ImplementsCopy == Spec => CopySpec
<1>1. Init => Copy!CopyInit
  BY DEF Init, Copy!CopyInit, Ids
<1>2. IInv /\ [Next]_vars => [Copy!CopyNext]_(Copy!copyVars)
  <2> SUFFICES ASSUME IInv, [Next]_vars PROVE [Copy!CopyNext]_(Copy!copyVars)
    OBVIOUS
  <2>1. TypeOK
    BY DEF IInv
  <2>2. CASE \E t \in Tenants : Allocate(t)
    BY <2>1, <2>2, AllocateGivesId DEF Copy!CopyNext
  <2>3. CASE \E id \in Ids : Commit(id)
    BY <2>1, <2>3, CommitAppears DEF Copy!CopyNext
  <2>4. CASE /\ \E r \in Runners, s \in Shards : InsertIgnore(r, s)
             /\ UNCHANGED <<sourceVars, progress>>
    BY <2>1, <2>4, InsertCopies DEF Copy!CopyNext
  <2>5. CASE /\ \E r \in Runners : WriteProgress(r)
             /\ UNCHANGED <<sourceVars, rows>>
    BY <2>5, ProgressClaims DEF Copy!CopyNext
  <2>6. CASE UNCHANGED <<sourceVars, rows, progress>>
    BY <2>6, SameHome DEF Copy!copyVars, HomeOf, sourceVars
  <2> QED BY <2>1, <2>2, <2>3, <2>4, <2>5, <2>6, StepIs
<1> QED BY <1>1, <1>2, InvariantHolds, PTL DEF Spec, CopySpec, Copy!CopySpec
=============================================================================
