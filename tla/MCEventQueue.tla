---- MODULE MCEventQueue ----
(* Small instances of EventQueue for TLC. *)
EXTENDS EventQueue, TLC

CONSTANTS Outages, Kills, LostReplies, Losses

MCMaxFaults == [outage |-> Outages, kill |-> Kills, reply |-> LostReplies, loss |-> Losses]

Symmetry == Permutations(Workers)
====
