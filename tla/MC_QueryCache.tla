---------------------------- MODULE MC_QueryCache ----------------------------
(* Model-checking instance of QueryCache: four names over two shards     *)
(* (a, c | b, d), the purge match "example$" selecting a and b,    *)
(* d_maxEntries 2 and a 4-bit gauge, so wrapping below zero shows as 15.  *)
EXTENDS QueryCache

MCNames == {"a.example", "b.example", "c.other", "d.other"}
MCShardOf == [n \in MCNames |-> IF n \in {"b.example", "d.other"} THEN 2 ELSE 1]
MCSuffixMatch == [m \in {"example$"} |-> {"a.example", "b.example"}]


MCOpsSettings ==
    { {"insert", "purgeExact", "purgeSuffix", "cleanup"},
      {"insert", "purge"} }
====
