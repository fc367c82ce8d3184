---------------------------- MODULE MC_ZoneCache ----------------------------
(* Model-checking instance of ZoneCache: three zones over two shards, so   *)
(* one shard holds two zones and replace() swaps shards in two steps.      *)
EXTENDS ZoneCache

MCZones == {"a.example", "b.example", "c.example"}
MCShardOf == [z \in MCZones |-> IF z = "c.example" THEN "s2" ELSE "s1"]

=============================================================================
