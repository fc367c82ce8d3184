-------------------------- MODULE MC_QueryChain ---------------------------
(* One zone holding a chain of 11 CNAMEs c0 -> c1 -> ... -> c11 ending at *)
(* an A record, and a two-name CNAME loop.  Querying ci follows 11 - i    *)
(* redirects: c0 is one past the limit, c1 exactly at it.                 *)
EXTENDS QueryResolution

E == <<"example">>
C(i) == <<"c" \o ToString(i)>> \o E
Rec(owner, type, rdata) == [owner |-> owner, type |-> type, rdata |-> rdata, zone |-> E]

ChainRecords ==
    {Rec(C(i), "CNAME", C(i + 1)) : i \in 0..10}
    \cup {Rec(C(11), "A", <<>>),
          Rec(<<"l1">> \o E, "CNAME", <<"l2">> \o E),
          Rec(<<"l2">> \o E, "CNAME", <<"l1">> \o E)}

MCZones == {E}

MCQNames == {C(i) : i \in 0..11} \cup {<<"l1">> \o E}

MCQueries == MCQNames \X {"A"}

\* No zone publishes CDS or CDNSKEY.
NoPublish == [z \in MCZones |-> ""]
====
