------------------------ MODULE MC_QueryResolution ------------------------
(* A parent zone example. with a hosted child sub.example., a foreign     *)
(* zone other., and candidate records that produce CNAME chains and a     *)
(* CNAME loop, wildcards at two levels, an unhosted delegation with glue  *)
(* (left unauthoritative in a zone not rectified once the delegation is  *)
(* gone) and DS, a CNAME into the child zone and a DNAME into other.      *)
(* The signaling zone _signal.ns. serves RFC 9615 names for the child,    *)
(* which publishes CDS made from its key and a CDNSKEY delete, and for    *)
(* the parent, which stores its CDS and publishes CDNSKEY without a key.  *)
EXTENDS QueryResolution

E == <<"example">>
S == <<"sub", "example">>
O == <<"other">>
G == <<"_signal", "ns">>

N(labels, z) == labels \o z
Rec(owner, type, rdata, zone) ==
    [owner |-> owner, type |-> type, rdata |-> rdata, zone |-> zone]

MCZones == {E, S, O, G}

MCFixedRecords ==
    { Rec(S, "NS", N(<<"ns">>, S), E),
      Rec(N(<<"w">>, S), "A", <<>>, S),
      Rec(E, "CDS", <<"stored">>, E) }

MCOptionalRecords ==
    { Rec(N(<<"a">>, E), "A", <<>>, E),
      Rec(N(<<"a">>, E), "CNAME", N(<<"x", "b">>, E), E),
      Rec(N(<<"x", "b">>, E), "A", <<>>, E),
      Rec(N(<<"x", "b">>, E), "CNAME", N(<<"a">>, E), E),
      Rec(N(<<"*">>, E), "A", <<>>, E),
      Rec(N(<<"*">>, E), "CNAME", N(<<"a">>, E), E),
      Rec(N(<<"*", "b">>, E), "A", <<>>, E),
      Rec(N(<<"del">>, E), "NS", N(<<"q", "del">>, E), E),
      Rec(N(<<"del">>, E), "DS", <<>>, E),
      Rec(N(<<"q", "del">>, E), "A", <<>>, E),
      Rec(N(<<"c">>, E), "CNAME", N(<<"w">>, S), E),
      Rec(N(<<"d">>, E), "DNAME", N(<<"deep">>, O), E) }

\* The glue of del.example., left unauthoritative when the delegation is
\* removed and the zone is not rectified.
MCUnrectified == {Rec(N(<<"q", "del">>, E), "A", <<>>, E)}

MCQNames ==
    { E, N(<<"a">>, E), N(<<"x", "b">>, E), N(<<"y", "b">>, E), N(<<"del">>, E),
      N(<<"q", "del">>, E), N(<<"c">>, E), N(<<"y", "d">>, E), N(<<"q", "y", "d">>, E), <<"nowhere">> }

MCQTypes == {"A", "CNAME", "DS", "ANY"}

\* SOA and RRSIG take their own branches before any lookup by name: SOA at
\* the apex and below it, RRSIG inside a zone and outside every zone.
ApexQueries ==
    ({E, N(<<"a">>, E)} \X {"SOA"}) \cup ({N(<<"a">>, E), <<"nowhere">>} \X {"RRSIG"})

\* CDS and CDNSKEY at the apexes of the parent and the child, and at the
\* signaling names for the parent, the child and w.sub.example. (inside
\* the child, not a zone), with A standing for every other type; A at a
\* name of the signaling zone that is not a _dsboot name.
SignalQueries ==
    ({E, S, <<"_dsboot">> \o E \o G, <<"_dsboot">> \o S \o G, <<"_dsboot", "w">> \o S \o G}
        \X {"CDS", "CDNSKEY"})
    \cup ({<<"_dsboot">> \o S \o G, N(<<"x">>, G)} \X {"A"})

MCQueries == (MCQNames \X MCQTypes) \cup ApexQueries \cup SignalQueries

MCPublishCDS == [z \in MCZones |-> IF z = S THEN "2" ELSE ""]
MCPublishCDNSKEY == [z \in MCZones |-> CASE z = S -> "0" [] z = E -> "1" [] OTHER -> ""]
MCSignalingZones == {G}
MCPresignedZones == {O}
MCEntryPointZones == {S}
====
