---- MODULE MCCacheAside ----
(* Small instances of CacheAside for TLC. *)
EXTENDS CacheAside

CONSTANT t1

(* Every user is of one tenant; another one has none. *)
MCHome == [u \in Users |-> t1]
====
