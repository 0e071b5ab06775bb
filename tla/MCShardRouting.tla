--------------------------- MODULE MCShardRouting ---------------------------
(* Small rings, with and without collisions, and configurations that the   *)
(* constructors let pass: ranges that overlap or leave a gap, a directory  *)
(* with an index that no shard has.                                        *)
EXTENDS ShardRouting

MCNodes == 0..2

MCKeys == {-1, 2}

Spots == {{0}, {2}, {1, 3}, {2, 3}}

MCPlacements == [MCNodes -> Spots]

Span(min, max, shard) == [min |-> min, max |-> max, shard |-> shard]

MCRangeTables == {<<Span(0, 2, 1), Span(2, -1, 0)>>, <<Span(3, -1, 1), Span(-5, 1, 0)>>}

MCDirectories == {[t \in {2} |-> 0], [t \in {-1, 2} |-> t]}

MCNoNode == -1
=============================================================================
