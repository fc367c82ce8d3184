------------------------------- MODULE MC_Denial -------------------------------
(* A parent zone example. with a hosted child sub.example. and candidate   *)
(* records for every denial mode: names that exist or not below existing  *)
(* names, an empty non-terminal b.example., wildcards at the apex and at  *)
(* the ENT, a wildcard CNAME, and a delegation with and without DS and    *)
(* glue.  Labels are given in canonical order, and a hash stands in for   *)
(* the NSEC3 hash on the names a proof can name.  The zones are signed    *)
(* with NSEC, with NSEC3 (opt-out in the parent), or with NSEC3 narrow.   *)
EXTENDS Denial

E == <<"example">>
S == <<"sub", "example">>

N(labels, z) == labels \o z
Rec(owner, type, rdata, zone) ==
    [owner |-> owner, type |-> type, rdata |-> rdata, zone |-> zone]

MCZones == {E, S}

MCFixedRecords ==
    { Rec(S, "NS", N(<<"ns">>, S), E),
      Rec(N(<<"w">>, S), "A", <<>>, S) }

MCOptionalRecords ==
    { Rec(N(<<"a">>, E), "A", <<>>, E),
      Rec(N(<<"a">>, E), "CNAME", N(<<"x", "b">>, E), E),
      Rec(N(<<"x", "b">>, E), "A", <<>>, E),
      Rec(N(<<"*">>, E), "A", <<>>, E),
      Rec(N(<<"*">>, E), "CNAME", N(<<"a">>, E), E),
      Rec(N(<<"*", "b">>, E), "A", <<>>, E),
      Rec(N(<<"del">>, E), "NS", N(<<"q", "del">>, E), E),
      Rec(N(<<"del">>, E), "DS", <<>>, E),
      Rec(N(<<"q", "del">>, E), "A", <<>>, E) }

MCQNames ==
    { E, N(<<"a">>, E), N(<<"y", "a">>, E), N(<<"x", "b">>, E), N(<<"y", "b">>, E),
      N(<<"del">>, E), N(<<"q", "del">>, E), N(<<"nowhere">>, E) }

MCQTypes == {"A", "CNAME", "DS", "ANY"}

MCQueries == MCQNames \X MCQTypes

MCLabelRank ==
    LET order == <<"*", "a", "b", "del", "example", "ns", "nowhere", "q", "sub", "w", "x", "y">>
    IN  [l \in {order[i] : i \in 1..Len(order)} |-> CHOOSE i \in 1..Len(order) : order[i] = l]

MCHashSpace == 1021

\* A polynomial in the label ranks: a stand-in for SHA-1 that is injective
\* on the names below (checked by the ASSUME).
RECURSIVE MCHash(_)
MCHash(n) == IF n = <<>> THEN 0 ELSE (3 * MCLabelRank[Head(n)] + 17 * MCHash(Tail(n))) % MCHashSpace

AncestorsOf(n) == {SubSeq(n, i, Len(n)) : i \in 1..Len(n)}

\* Every name a proof can hash: the ancestors of query names, owners and
\* redirect targets, and the wildcards at those ancestors.
HashedNames ==
    LET base == MCQNames \cup {r.owner : r \in MCOptionalRecords \cup MCFixedRecords}
                         \cup {r.rdata : r \in MCOptionalRecords \cup MCFixedRecords}
                         \cup MCZones
        anc == UNION {AncestorsOf(n) : n \in base}
    IN  anc \cup {Wild(n) : n \in anc}

\* Distinct names get hashes that are neither equal nor adjacent, as with
\* a 160-bit hash: a narrow-mode white lie never names an existing hash.
ASSUME \A a, b \in HashedNames :
          a # b => MCHash(a) \notin {MCHash(b), (MCHash(b) + 1) % MCHashSpace}

Param(narrow, optout) == [narrow |-> narrow, optout |-> optout]

\* Both zones NSEC; NSEC3 with opt-out in example. and without it in
\* sub.example.; both zones NSEC3 narrow.
MCNSEC3Settings ==
    { [z \in MCZones |-> NoNSEC3],
      [z \in MCZones |-> IF z = E THEN Param(FALSE, TRUE) ELSE Param(FALSE, FALSE)],
      [z \in MCZones |-> Param(TRUE, FALSE)] }

\* No zone publishes CDS or CDNSKEY.
NoPublish == [z \in MCZones |-> ""]
====
