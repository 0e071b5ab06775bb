------------------------------ MODULE EventSink ------------------------------
(***************************************************************************)
(* What the asynchronous event queue promises to the owner of the events   *)
(* table, without saying how: an idempotency key is first offered by a     *)
(* client, it may then be stored, and it is never stored twice.            *)
(***************************************************************************)
EXTENDS Naturals, Sequences

CONSTANT Keys        \* the idempotency keys there are

VARIABLES offered,   \* the idempotency keys clients have offered
          stored     \* the stored keys, in the order of their rows

sinkVars == <<offered, stored>>

SinkInit == offered = {} /\ stored = <<>>

(* A client hands over an event; the key may have been offered before.     *)
Offer == /\ \E key \in Keys : offered' = offered \cup {key}
         /\ UNCHANGED stored

(* The event of an offered key becomes a row, the first of that key.       *)
Store == \E key \in offered :
            /\ \A i \in DOMAIN stored : stored[i] # key
            /\ stored' = Append(stored, key)
            /\ UNCHANGED offered

SinkNext == Offer \/ Store

SinkSpec == SinkInit /\ [][SinkNext]_sinkVars
=============================================================================
