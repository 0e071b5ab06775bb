------------------------------- MODULE RowCopy -------------------------------
(***************************************************************************)
(* What the backfill of step 8 promises, without runs, batches, cursors or *)
(* failures: rows appear in a table, each with one shard for good; copies  *)
(* of them appear in those shards and stay; and each shard carries a claim *)
(* "copied up to this id", which may be withdrawn but is true when made.   *)
(***************************************************************************)
EXTENDS Naturals, Sequences

CONSTANT Places     \* the shards

VARIABLES home,     \* the shard of every id handed out
          source,   \* ids of the rows that can be seen
          late,     \* those that appeared when their id had been passed
          copies,   \* ids in each shard
          claims    \* id up to which each shard says it is complete

copyVars == <<home, source, late, copies, claims>>

CopyInit == /\ home = <<>> /\ source = {} /\ late = {}
            /\ copies = [s \in Places |-> {}]
            /\ claims = [s \in Places |-> 0]

AtHome == {id \in source : id \in copies[home[id]]}

GiveId == /\ \E s \in Places : home' = Append(home, s)
          /\ UNCHANGED <<source, late, copies, claims>>

(* No claim that stands is made false by a row that is not late.           *)
Appear == /\ \E id \in DOMAIN home \ source :
                /\ source' = source \cup {id}
                /\ \/ late' = late \cup {id}
                   \/ late' = late /\ \A s \in Places : claims[s] < id
          /\ UNCHANGED <<home, copies, claims>>

CopyRows == /\ \E s \in Places : \E ids \in SUBSET {id \in source : home[id] = s} :
                  copies' = [copies EXCEPT ![s] = @ \cup ids]
            /\ UNCHANGED <<home, source, late, claims>>

Claim == /\ \E s \in Places : \E upto \in DOMAIN home \cup {0} :
               /\ \A id \in source \ late : id <= upto => id \in AtHome
               /\ claims' = [claims EXCEPT ![s] = upto]
         /\ UNCHANGED <<home, source, late, copies>>

CopyNext == GiveId \/ Appear \/ CopyRows \/ Claim

CopySpec == CopyInit /\ [][CopyNext]_copyVars
=============================================================================
