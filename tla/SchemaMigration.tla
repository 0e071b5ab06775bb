--------------------------- MODULE SchemaMigration ---------------------------
(***************************************************************************)
(* Step 9: users.name is split into first_name and last_name while two     *)
(* versions of the handler serve requests. A handler looks at the schema   *)
(* first and then sends one statement; in between, the operator may expand *)
(* or contract the table, and the backfill fills rows.                     *)
(* A text is a sequence of characters. A letter may stand for any piece of *)
(* a text without white space.                                             *)
(***************************************************************************)
EXTENDS Sequences, FiniteSetsExt

CONSTANTS Letters,            \* pieces of a text without white space
          Space, Tab,         \* ' ', and any other white space
          OldNames,           \* names in the table before the migration
          Names,              \* the nonempty names that clients send
          Null,               \* NULL
          Ids, OldUsers,      \* ids that rows can get, and those that have one before the migration
          Requests, Runners,  \* requests at a time, processes that run the backfill
          BatchSize,          \* --batch-size
          MaxWrites,          \* bound: rows that handlers write
          MaxFaults           \* bound: failed statements, crashes and interrupts

White == {Space, Tab}
Text == Seq(Letters \cup White)

ASSUME MigrationAssumption == /\ Letters \cap White = {}
                              /\ OldNames \subseteq Text
                              /\ Names \subseteq Text \ {<<>>}
                              /\ Null \notin Text
                              /\ OldUsers \subseteq Ids
                              /\ IsFiniteSet(Ids)
                              /\ BatchSize \in Nat \ {0}
                              /\ MaxWrites \in Nat
                              /\ MaxFaults \in Nat

VARIABLES schema,   \* columns of users, of those that the migration touches
          users,    \* ids of the rows
          rows,     \* their values, Null in columns the table does not have
          served,   \* versions of the handler that take requests
          version,  \* the handler that works on a request, "none" if there is none
          known,    \* columns its look-up has found
          excused,  \* history: rows whose last update did not know all of their columns
          stage,    \* where each run of the backfill is
          total,    \* its totalDone
          saved,    \* total_processed in migration_progress
          filled,   \* history: rows that the backfill has filled
          writes, faults

requestVars == <<version, known>>
tableVars == <<schema, users, rows, excused>>
runVars == <<stage, total, saved, filled>>
vars == <<tableVars, served, requestVars, runVars, writes, faults>>

Columns == {"name", "first", "last"}
NewColumns == {"first", "last"}
OldColumns == {"name"}
Versions == {"v1", "v2"}
Stages == {"idle", "select", "update", "save", "end"}

Row(n, f, l) == [col \in Columns |-> CASE col = "name" -> n
                                       [] col = "first" -> f
                                       [] col = "last" -> l]

NoValues == Row(Null, Null, Null)

Unfilled == {id \in users : rows[id]["first"] = Null}

-----------------------------------------------------------------------------
(* Names and their parts.                                                  *)

(* strings.TrimSpace.                                                      *)
TrimSpace(n) ==
    LET kept == {i \in 1..Len(n) : n[i] \notin White}
    IN IF kept = {} THEN <<>> ELSE SubSeq(n, Min(kept), Max(kept))

Spaces(n) == {i \in 1..Len(n) : n[i] = Space}

(* What is before one space of a text and after another.                   *)
Around(n, i, j) == <<SubSeq(n, 1, i - 1), SubSeq(n, j + 1, Len(n))>>

(* splitName and splitNameV2: SplitN of the trimmed name, at its first     *)
(* space.                                                                  *)
SplitName(n) == LET t == TrimSpace(n)
                IN IF Spaces(t) = {} THEN <<t, t>>
                   ELSE Around(t, Min(Spaces(t)), Min(Spaces(t)))

(* SUBSTRING_INDEX(name, ' ', 1) and SUBSTRING_INDEX(name, ' ', -1): MySQL *)
(* trims nothing.                                                          *)
SubstringIndex(n) == IF Spaces(n) = {} THEN <<n, n>>
                     ELSE Around(n, Min(Spaces(n)), Max(Spaces(n)))

FullName(f, l) == TrimSpace(f \o <<Space>> \o l)

(* The values of a row by v1, which stores the name as it came, and by v2, *)
(* from the two parts.                                                     *)
FromName(n) == Row(n, SplitName(n)[1], SplitName(n)[2])
FromParts(f, l) == Row(FullName(f, l), f, l)

(* v2 takes a name for its two parts if there is no first_name.            *)
PartsOf(f, l, n) == IF n # <<>> /\ f = <<>> THEN SplitName(n) ELSE <<f, l>>

(* Fields of a body, which may be missing, and the parts that v2 makes of  *)
(* first_name, last_name and name.                                         *)
Given == Names \cup {<<>>}
Parts == {PartsOf(f, l, n) : f \in Given, l \in Given, n \in Given}

(* Values that POST and PUT bodies give a row. POST refuses an empty name  *)
(* or first_name, and without a last_name v2 repeats the first.            *)
CreateBodies ==
    [v1 |-> {FromName(n) : n \in Names},
     v2 |-> {FromParts(p[1], IF p[2] = <<>> THEN p[1] ELSE p[2]) :
                p \in {q \in Parts : q[1] # <<>>}}]

UpdateBodies ==
    [v1 |-> {FromName(n) : n \in Given},
     v2 |-> {FromParts(p[1], p[2]) : p \in Parts}]

-----------------------------------------------------------------------------
Init == /\ schema = OldColumns
        /\ users = OldUsers
        /\ \E n \in [OldUsers -> OldNames] :
              rows = [id \in Ids |-> IF id \in OldUsers THEN Row(n[id], Null, Null) ELSE NoValues]
        /\ served = {"v1"}
        /\ version = [c \in Requests |-> "none"]
        /\ known = [c \in Requests |-> {}]
        /\ excused = {}
        /\ stage = [r \in Runners |-> "idle"]
        /\ total = [r \in Runners |-> 0]
        /\ saved = 0 /\ filled = 0
        /\ writes = 0 /\ faults = 0

Fault == faults < MaxFaults /\ faults' = faults + 1
NoFault == UNCHANGED faults

-----------------------------------------------------------------------------
(* A request: handleGetUser, handleCreateUser, handleUpdateUser and their  *)
(* V2. Id and body are chosen where they are used, in the statement.       *)

(* hasNewColumns, nameColumnExists. An error counts as "not there".        *)
Lookup(c) ==
    /\ version[c] = "none"
    /\ \E v \in served : version' = [version EXCEPT ![c] = v]
    /\ \/ known' = [known EXCEPT ![c] = schema] /\ NoFault
       \/ known' = [known EXCEPT ![c] = {}] /\ Fault
    /\ UNCHANGED <<tableVars, served, runVars, writes>>

(* Mutant: v1 does not write the new columns.                              *)
NamedByOneOnly(c) == IF version[c] = "v1" THEN OldColumns ELSE Columns

(* The columns that the statement of a request names.                      *)
Named(c) == CASE version[c] = "v1" -> IF NewColumns \subseteq known[c] THEN Columns ELSE OldColumns
              [] version[c] = "v2" -> IF "name" \in known[c] THEN Columns ELSE NewColumns
              [] OTHER -> {}

(* MySQL knows no such column, or misses a value: name is NOT NULL.        *)
UpdateRefused(c) == ~(Named(c) \subseteq schema)
InsertRefused(c) == UpdateRefused(c) \/ "name" \in schema \ Named(c)

(* v2 scans the new columns into strings, which cannot take a NULL, when   *)
(* it reads nothing else.                                                  *)
SelectFails(c, id) == \/ UpdateRefused(c)
                      \/ /\ version[c] = "v2" /\ "name" \notin Named(c)
                         /\ \E col \in NewColumns : rows[id][col] = Null

Respond(c) == /\ version' = [version EXCEPT ![c] = "none"]
              /\ known' = [known EXCEPT ![c] = {}]

(* A statement sets the columns it names and keeps the others.             *)
Merge(old, named, body) == [col \in Columns |-> IF col \in named THEN body[col] ELSE old[col]]

Store(c, id, body) ==
    /\ writes < MaxWrites
    /\ writes' = writes + 1
    /\ rows' = [rows EXCEPT ![id] = Merge(rows[id], Named(c), body)]

Insert(c) ==
    /\ version[c] # "none"
    /\ ~InsertRefused(c)
    /\ \E id \in Ids \ users : \E body \in CreateBodies[version[c]] :
          /\ Store(c, id, body)
          /\ users' = users \cup {id}
    /\ Respond(c)
    /\ UNCHANGED <<schema, excused, served, runVars, faults>>

(* The look-up has failed, or the table was altered since, and the UPDATE  *)
(* leaves the value of a column it does not know as it was.                *)
LeavesBehind(c, id) == /\ known[c] # schema
                       /\ \E col \in Columns \ Named(c) : rows[id][col] # Null

Update(c) ==
    /\ version[c] # "none"
    /\ ~UpdateRefused(c)
    /\ \E id \in users : \E body \in UpdateBodies[version[c]] :
          /\ Store(c, id, body)
          /\ excused' = IF LeavesBehind(c, id) THEN excused \cup {id} ELSE excused \ {id}
    /\ Respond(c)
    /\ UNCHANGED <<schema, users, served, runVars, faults>>

(* What leaves the table alone: a SELECT, a statement that is refused or   *)
(* fails, an UPDATE of no row, a request cancelled by its client.          *)
Answer(c) == /\ version[c] # "none"
             /\ Respond(c)
             /\ UNCHANGED <<tableVars, served, runVars, writes, faults>>

-----------------------------------------------------------------------------
(* A run of the backfill: Run, runBatch.                                   *)

(* Mutant: what has been begun is not begun again.                         *)
BeginOnce(r) == /\ stage[r] = "idle"
                /\ NewColumns \subseteq schema
                /\ saved = 0
                /\ stage' = [stage EXCEPT ![r] = "select"]
                /\ total' = [total EXCEPT ![r] = saved]
                /\ UNCHANGED <<tableVars, served, requestVars, saved, filled, writes, faults>>

Begin(r) == /\ stage[r] = "idle"
            /\ NewColumns \subseteq schema
            /\ stage' = [stage EXCEPT ![r] = "select"]
            /\ total' = [total EXCEPT ![r] = saved]
            /\ UNCHANGED <<tableVars, served, requestVars, saved, filled, writes, faults>>

Goto(r, s) == stage' = [stage EXCEPT ![r] = s]

Gone(r) == Goto(r, "idle") /\ total' = [total EXCEPT ![r] = 0]

(* The top of the loop: the stop flag ends it, and so does a SELECT that   *)
(* finds nothing.                                                          *)
SelectBatch(r) ==
    /\ stage[r] = "select"
    /\ \/ Goto(r, IF Unfilled = {} THEN "end" ELSE "update") /\ NoFault
       \/ Goto(r, "end") /\ Fault
    /\ UNCHANGED <<tableVars, served, requestVars, total, saved, filled, writes>>

IsBatch(B) == /\ B \subseteq Unfilled
              /\ \/ Cardinality(B) = BatchSize
                 \/ Cardinality(B) < BatchSize /\ B = Unfilled

Filled(n) == Row(n, SubstringIndex(n)[1], SubstringIndex(n)[2])

Fill(B) ==
    /\ "name" \in schema
    /\ rows' = [id \in Ids |->
                   IF id \in B
                   THEN Filled(rows[id]["name"])
                   ELSE rows[id]]
    /\ filled' = filled + Cardinality(B)

(* Without ORDER BY, the UPDATE takes any rows that are still unfilled.    *)
UpdateBatch(r) ==
    /\ stage[r] = "update"
    /\ \E B \in SUBSET Unfilled :
          /\ IsBatch(B)
          /\ Fill(B)
          /\ IF B = {} THEN Goto(r, "end") /\ UNCHANGED total
                       ELSE Goto(r, "save") /\ total' = [total EXCEPT ![r] = @ + Cardinality(B)]
    /\ UNCHANGED <<schema, users, excused, served, requestVars, saved, writes, faults>>

(* An error of the UPDATE ends the run: name is gone, or the connection    *)
(* is, before or after it was executed.                                    *)
UpdateBatchFails(r) ==
    /\ stage[r] = "update"
    /\ \/ "name" \notin schema /\ UNCHANGED <<rows, filled>> /\ NoFault
       \/ (\E B \in SUBSET Unfilled : IsBatch(B) /\ Fill(B)) /\ Fault
    /\ Gone(r)
    /\ UNCHANGED <<schema, users, excused, served, requestVars, saved, writes>>

(* Mutant: the count of a resumed run is added to what is there.           *)
SaveProgressAdds(r) == saved' = saved + total[r]

SaveProgress(r) == saved' = total[r]

(* saveProgress; its error is a warning.                                   *)
Save(r) ==
    /\ stage[r] \in {"save", "end"}
    /\ \/ SaveProgress(r) /\ NoFault
       \/ UNCHANGED saved /\ Fault
    /\ IF stage[r] = "end" THEN Gone(r) ELSE Goto(r, "select") /\ UNCHANGED total
    /\ UNCHANGED <<tableVars, served, requestVars, filled, writes>>

Crash(r) == /\ stage[r] # "idle"
            /\ Fault
            /\ Gone(r)
            /\ UNCHANGED <<tableVars, served, requestVars, saved, filled, writes>>

-----------------------------------------------------------------------------
(* The operator. Both versions may be rolled out and back at any time of   *)
(* the transition, before the backfill has ended as well: the handlers'    *)
(* comments say that this is safe.                                         *)

(* Mutant: an ALTER for each column, and only the first is executed.       *)
ExpandByHalf == /\ schema = OldColumns
                /\ schema' = {"name", "first"}
                /\ UNCHANGED <<users, rows, excused, served, requestVars, runVars, writes, faults>>

Expand == /\ schema = OldColumns
          /\ schema' = Columns
          /\ UNCHANGED <<users, rows, excused, served, requestVars, runVars, writes, faults>>

Deploy(v) == /\ schema = Columns
             /\ served' = served \cup {v}
             /\ v \notin served
             /\ UNCHANGED <<tableVars, requestVars, runVars, writes, faults>>

Retire(v) == /\ v \in served /\ served # {v}
             /\ served' = served \ {v}
             /\ UNCHANGED <<tableVars, requestVars, runVars, writes, faults>>

(* Mutant: the rows are not checked.                                       *)
ChecklistOfVersionsOnly == /\ served = {"v2"}
                           /\ \A c \in Requests : version[c] # "v1"

(* The checklist of step3_contract.sql.                                    *)
Checklist == /\ served = {"v2"}
             /\ \A c \in Requests : version[c] # "v1"
             /\ \A id \in users : \A col \in NewColumns : rows[id][col] # Null

Contract == /\ schema = Columns
            /\ Checklist
            /\ schema' = NewColumns
            /\ rows' = [id \in Ids |-> [rows[id] EXCEPT !["name"] = Null]]
            /\ excused' = {}
            /\ UNCHANGED <<users, served, requestVars, runVars, writes, faults>>

Handle(c) == Insert(c) \/ Update(c) \/ Answer(c)
RunStep(r) == SelectBatch(r) \/ UpdateBatch(r) \/ UpdateBatchFails(r) \/ Save(r)

Next == \/ \E c \in Requests : Lookup(c) \/ Handle(c)
        \/ \E r \in Runners : Begin(r) \/ RunStep(r) \/ Crash(r)
        \/ \E v \in Versions : Deploy(v) \/ Retire(v)
        \/ Expand \/ Contract

Spec == Init /\ [][Next]_vars

(* Requests and runs do not hang, and the operator starts the backfill     *)
(* again when it has ended. Answer is enabled exactly while a request is   *)
(* worked on, so its fairness says that the request ends in some way.      *)
FairSpec == /\ Spec
            /\ \A c \in Requests : WF_vars(Answer(c))
            /\ \A r \in Runners : WF_vars(Begin(r) \/ RunStep(r))

-----------------------------------------------------------------------------
Value == Text \cup {Null}

TypeOK == /\ schema \in {OldColumns, Columns, NewColumns}
          /\ users \subseteq Ids
          /\ rows \in [Ids -> [Columns -> Value]]
          /\ served \subseteq Versions /\ served # {}
          /\ version \in [Requests -> Versions \cup {"none"}]
          /\ known \in [Requests -> {{}, OldColumns, Columns, NewColumns}]
          /\ excused \subseteq users
          /\ stage \in [Runners -> Stages]
          /\ total \in [Runners -> Nat]
          /\ saved \in Nat /\ filled \in Nat
          /\ writes \in Nat /\ faults \in Nat

(* What v2 shows of a row while name is there: its own columns, or what it *)
(* makes of name.                                                          *)
ShownByV2(row) == IF row["first"] \in {Null, <<>>}
                  THEN SplitName(row["name"])
                  ELSE <<row["first"], row["last"]>>

(* It is a split of the name that v1 shows, or makes it up.                *)
Agree(row) == LET p == ShownByV2(row)
              IN \/ p \in {SplitName(row["name"]), SubstringIndex(row["name"])}
                 \/ FullName(p[1], p[2]) = row["name"]

(* While both versions can be served they show the same names, for every   *)
(* order of writes, backfill and rollouts: only an update whose look-up    *)
(* was out of date, or had failed, leaves a row on which they differ, and  *)
(* only until its next update.                                             *)
(* It is what the code does and not what README of step 9 says of it (v2   *)
(* shows blanks before the backfill has ended, v2 does not write name): v2 *)
(* falls back to name, and writes it until it is dropped.                  *)
VersionsAgree == schema = Columns => \A id \in users \ excused : Agree(rows[id])

(* A request whose look-up has succeeded and is still true is never        *)
(* refused by the table nor broken by a NULL: whatever has been rolled out *)
(* and back, no handler meets a table it was not written for.              *)
InformedNeverFails ==
    \A c \in Requests :
        version[c] # "none" /\ known[c] = schema =>
            /\ ~InsertRefused(c)
            /\ \A id \in users : ~SelectFails(c, id)

(* migration_progress never claims more rows than were filled, however     *)
(* runs overlap, crash and overwrite each other's count.                   *)
ProgressNotOverstated == saved <= filled

(* Steps that a run has left at most while no row is inserted.             *)
RunSteps(r) == LET rest == 3 * Cardinality(Unfilled)
               IN CASE stage[r] = "idle" -> 0
                    [] stage[r] = "end" -> 1
                    [] stage[r] = "update" -> rest + 2
                    [] stage[r] = "select" -> rest + 3
                    [] OTHER -> rest + 4

(* A run gets through: unless a row is inserted, each of its steps leaves  *)
(* it fewer, and no request, other run or failure leaves it more. A batch  *)
(* never fills nothing and goes on, and what is filled stays filled.       *)
RunShortens ==
    [][\A r \in Runners :
          stage[r] # "idle" /\ users' = users =>
             \/ RunSteps(r)' < RunSteps(r)
             \/ RunSteps(r)' = RunSteps(r) /\ stage'[r] = stage[r]]_vars

(* What v2 shows of a row, with the table as it is.                        *)
SeenByV2(id) == IF "name" \in schema THEN ShownByV2(rows[id])
                                      ELSE <<rows[id]["first"], rows[id]["last"]>>

(* A name that both ways of splitting split alike: no white space at its   *)
(* ends and at most one space inside.                                      *)
Tidy(n) == /\ TrimSpace(n) = n
           /\ \A i, j \in Spaces(n) : i = j

(* Only requests change the names that requests show: the ALTERs, the      *)
(* rollouts and the backfill do not, whatever runs at the same time. There *)
(* are two exceptions. A name that is not tidy (three words or more, two   *)
(* spaces in a row, white space at an end) is shown as SUBSTRING_INDEX     *)
(* cuts it once the backfill has filled its row. For an empty first_name   *)
(* v2 shows a split of name until Contract, and the two columns after it:  *)
(* a PUT has left it empty, or the backfill has, of a name that begins     *)
(* with a space.                                                           *)
MigrationUnseen ==
    [][writes' = writes =>
          \A id \in users :
             /\ "name" \in schema' => rows'[id]["name"] = rows[id]["name"]
             /\ \/ SeenByV2(id)' = SeenByV2(id)
                \/ /\ id \in Unfilled /\ ~Tidy(rows[id]["name"])
                   /\ SeenByV2(id)' = SubstringIndex(rows[id]["name"])
                \/ rows[id]["first"] = <<>> /\ "name" \notin schema']_vars

(* README of step 9: interrupted and resumed as it may be, the backfill of *)
(* an expanded table leaves no row unfilled, those included that handlers  *)
(* insert without the new columns while it runs.                           *)
EventuallyMigrated == <>[](schema = OldColumns \/ Unfilled = {})

(* step2_backfill.sql: what follows the first space of a name goes to      *)
(* last_name, so no word of it is lost when name is dropped.               *)
NoWordLost ==
    schema = Columns =>
        \A id \in users \ (excused \cup Unfilled) :
            \A i \in 1..Len(rows[id]["name"]) :
                rows[id]["name"][i] \in Letters =>
                    \E col \in NewColumns :
                        \E j \in 1..Len(rows[id][col]) : rows[id][col][j] = rows[id]["name"][i]
=============================================================================
