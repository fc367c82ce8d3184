------------------------------ MODULE Denial ------------------------------
(***************************************************************************)
(* The denial-of-existence engine of PacketHandler (packethandler.cc):     *)
(* addNSECX, addNSEC, addNSEC3, getNSEC3Hashes, emitNSEC and emitNSEC3,    *)
(* applied to the [mode, target, wildcard, zone] requests the resolution   *)
(* passes of QueryResolution make.  The records a request adds to the      *)
(* reply are a function of the request, the query type and the zone data, *)
(* so they are operators over the state of QueryResolution.               *)
(*                                                                         *)
(* The ordered-name index of the record store (getBeforeAndAfterNames and  *)
(* getBeforeAndAfterNamesAbsolute, not in this repository) and the NSEC3   *)
(* hash (hashQNameWithSalt) are modelled from their contract: a rectified  *)
(* zone gives an ordername to every name with authoritative data and to   *)
(* every delegation point; in an NSEC3 zone also to empty non-terminals,   *)
(* and an opt-out zone gives none to a delegation without DS.  A hash is a *)
(* number in 0..HashSpace-1; the base32hex owner name is left out.         *)
(***************************************************************************)
EXTENDS QueryResolution

CONSTANTS
    NSEC3Settings,  \* the NSEC3PARAM metadata the zones may have
    NoNSEC3,        \* getNSEC3PARAM fails: the zone uses NSEC
    LabelRank,      \* canonical (octet) order of the labels in play
    NSEC3Hash(_),   \* hashQNameWithSalt with the zone's salt and iterations
    HashSpace       \* hashes are 0..HashSpace-1

ASSUME NSEC3Settings \subseteq [Zones -> [narrow : BOOLEAN, optout : BOOLEAN] \cup {NoNSEC3}]

\* The zone's NSEC3PARAM as getNSEC3PARAM reads it from the backend's
\* metadata: the NSEC3 narrow flag and the opt-out flag.
VARIABLE nsec3param

NSEC3Zones == {z \in Zones : nsec3param[z] # NoNSEC3}
NarrowZones == {z \in NSEC3Zones : nsec3param[z].narrow}
OptOutZones == {z \in NSEC3Zones : nsec3param[z].optout}

\* The metadata does not change while queries are answered.
DenialInit == Init /\ nsec3param \in NSEC3Settings
DenialNext == Next /\ UNCHANGED nsec3param
DenialSpec == DenialInit /\ [][DenialNext]_<<vars, nsec3param>>

-----------------------------------------------------------------------------
(* Canonical name order (RFC 4034 section 6.1): labels compared from the  *)
(* rightmost one, a name before the names below it.                        *)
(*                                                                         *)
(* TLC re-evaluates a LET definition or an operator argument at each use  *)
(* when it collects coverage; "x \in {e}" below evaluates e once.          *)

LabelFromRight(n, i) == n[Len(n) + 1 - i]

CanonLess(a, b) ==
    \/ \E i \in 1..Len(a) :
          /\ i <= Len(b)
          /\ \A j \in 1..(i - 1) : LabelFromRight(a, j) = LabelFromRight(b, j)
          /\ LabelRank[LabelFromRight(a, i)] < LabelRank[LabelFromRight(b, i)]
    \/ /\ Len(a) < Len(b)
       /\ \A j \in 1..Len(a) : LabelFromRight(a, j) = LabelFromRight(b, j)

NumLess(a, b) == a < b

-----------------------------------------------------------------------------
(* The ordered-name index of a rectified zone.                             *)

\* A delegation without DS, left out of an opt-out NSEC3 chain.
InsecureCut(n, z) == n \in Cuts(zoneData, z) /\ Lookup("DS", n, z) = {}

\* Names with an ordername for NSEC: authoritative data or a delegation.
NSECChain(z) ==
    {r.owner : r \in {x \in zoneData : x.zone = z /\ x.type # "ENT" /\ (x.auth \/ x.type = "NS")}}

\* Names with an NSEC3 ordername: the same, empty non-terminals included,
\* insecure delegations left out under opt-out; with their hashes.
NSEC3Chain(z) ==
    {[hash |-> NSEC3Hash(r.owner), name |-> r.owner] :
        r \in {x \in zoneData : x.zone = z /\ (x.auth \/ x.type = "NS") /\
                                ~(z \in OptOutZones /\ InsecureCut(x.owner, z))}}

\* In the chain C: the last name not after t, and the first name after t,
\* wrapping to the least one (the apex).
NameNeighbours(C, t) ==
    LET le == {n \in C : ~CanonLess(t, n)}
        gt == {n \in C : CanonLess(t, n)}
    IN  [before |-> CHOOSE n \in le : \A m \in le : ~CanonLess(n, m),
         after |-> IF gt # {} THEN CHOOSE n \in gt : \A m \in gt : ~CanonLess(m, n)
                   ELSE CHOOSE n \in C : \A m \in C : ~CanonLess(m, n)]

\* getBeforeAndAfterNames.
BeforeAndAfterNames(z, t) == CHOOSE r \in {NameNeighbours(C, t) : C \in {NSECChain(z)}} : TRUE

\* In the hashed chain HC: the greatest hash not above h (wrapping to the
\* greatest), the least hash above h (wrapping to the least), and the name
\* that owns 'before'.
HashNeighbours(HC, h) ==
    LET le == {e \in HC : e.hash <= h}
        gt == {e \in HC : e.hash > h}
        b == IF le # {} THEN CHOOSE e \in le : \A f \in le : f.hash <= e.hash
             ELSE CHOOSE e \in HC : \A f \in HC : f.hash <= e.hash
        a == IF gt # {} THEN CHOOSE e \in gt : \A f \in gt : e.hash <= f.hash
             ELSE CHOOSE e \in HC : \A f \in HC : e.hash <= f.hash
    IN  [before |-> b.hash, after |-> a.hash, unhashed |-> b.name]

\* getBeforeAndAfterNamesAbsolute over the hashes.
BeforeAndAfterHashes(z, h) == CHOOSE r \in {HashNeighbours(HC, h) : HC \in {NSEC3Chain(z)}} : TRUE

-----------------------------------------------------------------------------
(* emitNSEC and emitNSEC3: the record and its type bitmap.                 *)

\* Types a record of the name contributes (the loop over B.get): NS at a
\* delegation point and authoritative types.
NSECTypes(n, z) ==
    {r.type : r \in {x \in Lookup("ANY", n, z) : x.type = "NS" \/ x.auth}}

\* DNSKEY at the apex of a zone with a published key.
ApexTypes(n, z) == IF n = z THEN {"SOA"} \cup (IF z \in SecuredZones THEN {"DNSKEY"} ELSE {})
                   ELSE {}

\* emitNSEC: NSEC and RRSIG, the apex types, and the types of the name.
emitNSEC(z, name, next, mode) ==
    [kind |-> "NSEC", owner |-> name, next |-> next, optout |-> FALSE,
     types |-> {"NSEC", "RRSIG"} \cup ApexTypes(name, z) \cup NSECTypes(name, z)]

\* An empty name (the narrow covering record) gets an empty bitmap; the
\* ENT placeholder (type 0) is skipped; RRSIG unless the bitmap is empty
\* or NS alone.
\* Mutant: the NS of a delegation point is left out of the bitmap.
emitNSEC3AuthOnly(z, name, namehash, nexthash, mode) ==
    LET set == IF name = <<>> THEN {}
               ELSE ApexTypes(name, z) \cup (IF name = z THEN {"NSEC3PARAM"} ELSE {})
                    \cup ({r.type : r \in {x \in Lookup("ANY", name, z) : x.auth}} \ {"ENT"})
    IN  [kind |-> "NSEC3", owner |-> namehash, next |-> nexthash,
         optout |-> z \in OptOutZones,
         types |-> IF set # {} /\ set # {"NS"} THEN set \cup {"RRSIG"} ELSE set]

emitNSEC3(z, name, namehash, nexthash, mode) ==
    LET set == IF name = <<>> THEN {}
               ELSE ApexTypes(name, z) \cup (IF name = z THEN {"NSEC3PARAM"} ELSE {})
                    \cup (NSECTypes(name, z) \ {"ENT"})
    IN  [kind |-> "NSEC3", owner |-> namehash, next |-> nexthash,
         optout |-> z \in OptOutZones,
         types |-> IF set # {} /\ set # {"NS"} THEN set \cup {"RRSIG"} ELSE set]

-----------------------------------------------------------------------------
(* addNSECX and the two proof builders.                                    *)

\* getNSEC3Hashes: narrow mode increments and decrements the hash and
\* clears the name of a decremented one; otherwise the ordered index.
getNSEC3Hashes(z, hashed, decrement, unhashed) ==
    IF z \in NarrowZones
    THEN [before |-> IF decrement THEN (hashed + HashSpace - 1) % HashSpace ELSE hashed,
          after |-> (hashed + 1) % HashSpace,
          unhashed |-> IF decrement THEN <<>> ELSE unhashed]
    ELSE BeforeAndAfterHashes(z, hashed)

\* The opt-out walk: up from the target to the first ancestor with an
\* authoritative record, stopping at the apex.
RECURSIVE ProvableEncloser(_, _)
ProvableEncloser(n, z) ==
    IF Tail(n) = z \/ \E r \in Lookup("ANY", Tail(n), z) : r.auth THEN Tail(n)
    ELSE ProvableEncloser(Tail(n), z)

\* Mutant: the name is chopped before it is recorded, so the loop ends
\* on the closest encloser itself.
NextCloserIsClosest(n, closest) == closest

\* The do/while loop: the ancestor of the target one label below closest.
RECURSIVE NextCloser(_, _)
NextCloser(n, closest) ==
    IF n = <<>> \/ Tail(n) = closest THEN n ELSE NextCloser(Tail(n), closest)

\* The wildcard denial of modes 2 (matching *.closest) and 4 (covering it).
WildcardDenialNSEC3(z, closest, mode) ==
    IF mode \in {2, 4}
    THEN {emitNSEC3(z, x.unhashed, x.before, x.after, mode) :
             x \in {getNSEC3Hashes(z, NSEC3Hash(Wild(closest)), mode # 2, Wild(closest))}}
    ELSE {}

addNSEC3(d) ==
    LET z == d.zone   t == d.target   w == d.wildcard   mode == d.mode
        closest0 == IF mode \in {2, 3, 4} THEN Tail(w) ELSE t
        un1 == IF mode \in {0, 1, 5} THEN t ELSE closest0
        m1 == getNSEC3Hashes(z, NSEC3Hash(un1), FALSE, un1)
        cpe == ((mode = 0 /\ z \in OptOutZones) \/ mode = 1) /\ NSEC3Hash(un1) # m1.before
        closest == IF mode # 3 /\ cpe THEN ProvableEncloser(t, z) ELSE closest0
        m == IF mode # 3 /\ cpe THEN getNSEC3Hashes(z, NSEC3Hash(closest), FALSE, closest) ELSE m1
        matching == IF mode = 3 THEN {}
                    ELSE {emitNSEC3(z, x.unhashed, x.before, x.after, mode) : x \in {m}}
        nc == NextCloser(t, closest)
        c == getNSEC3Hashes(z, NSEC3Hash(nc), TRUE, nc)
        covering == IF mode \in {2, 3, 4} \/ (mode # 3 /\ cpe)
                    THEN {emitNSEC3(z, x.unhashed, x.before, x.after, mode) : x \in {c}}
                    ELSE {}
    IN  IF ~DoesDNSSEC /\ z \notin NarrowZones THEN {}
        ELSE matching \cup covering \cup WildcardDenialNSEC3(z, closest, mode)

\* The name of the second NSEC: the wildcard itself (mode 2), or the
\* wildcard at the closest encloser (mode 4).
NSECWildcardName(w, mode) == IF mode = 4 THEN Wild(Tail(w)) ELSE w

addNSEC(d) ==
    LET z == d.zone   t == d.target   w == d.wildcard   mode == d.mode
        nb == BeforeAndAfterNames(z, t)
        first == {emitNSEC(z, x.before, x.after, mode) : x \in {y \in {nb} : mode # 5 \/ y.before = t}}
        wb == BeforeAndAfterNames(z, NSECWildcardName(w, mode))
        second == IF mode \in {2, 4} THEN {emitNSEC(z, x.before, x.after, mode) : x \in {wb}} ELSE {}
    IN  IF ~DoesDNSSEC THEN {} ELSE first \cup second

\* No direct NSEC3 query proof (RFC 5155 7.2.8).
addNSECX(d) ==
    IF d.zone \in NSEC3Zones THEN (IF d.mode # 5 THEN addNSEC3(d) ELSE {})
    ELSE addNSEC(d)


-----------------------------------------------------------------------------
(* What a validator accepts, from RFC 4035 section 5.4 and RFC 5155        *)
(* section 8, stated on the zone data independently of the code's walks.  *)

\* The cyclic open interval of an NSEC or NSEC3 record.
Between3(lo, hi, x, less(_, _)) ==
    IF less(lo, hi) THEN less(lo, x) /\ less(x, hi) ELSE less(lo, x) \/ less(x, hi)

Owns(rec, n) == IF rec.kind = "NSEC" THEN rec.owner = n ELSE rec.owner = NSEC3Hash(n)

Covers(rec, n) ==
    IF rec.kind = "NSEC" THEN Between3(rec.owner, rec.next, n, CanonLess)
    ELSE Between3(rec.owner, rec.next, NSEC3Hash(n), NumLess)

\* The request's proof holds a record owned by n that lacks type T and CNAME.
MatchWithout(P, n, T) == \E rec \in P : Owns(rec, n) /\ T \notin rec.types /\ "CNAME" \notin rec.types
Match(P, n) == \E rec \in P : Owns(rec, n)
Cover(P, n) == \E rec \in P : Covers(rec, n)

\* NODATA for type T at n: a matching record without T; with NSEC, an empty
\* non-terminal is shown by a covering NSEC whose next name is below n;
\* with NSEC3, a DS NODATA may instead be an opt-out closest provable
\* encloser proof (RFC 5155 8.6).
NoDataProof(P, n, T, nsec3) ==
    \/ MatchWithout(P, n, T)
    \/ ~nsec3 /\ \E rec \in P : Covers(rec, n) /\ IsStrictSuffix(n, rec.next)
    \/ nsec3 /\ T = "DS" /\
          \E i \in 2..Len(n) :
              LET a == SubSeq(n, i, Len(n)) IN
              /\ Match(P, a)
              /\ \E rec \in P : rec.optout /\ Covers(rec, SubSeq(n, i - 1, Len(n)))

ValidProof(d, P) ==
    LET t == d.target   z == d.zone
        nsec3 == z \in NSEC3Zones
        ce == ClosestEncloser(t, z)
        nc == SubSeq(t, Len(t) - Len(ce), Len(t))
    IN  CASE d.mode = 0 -> NoDataProof(P, t, qtype, nsec3)
          [] d.mode = 1 -> NoDataProof(P, t, "DS", nsec3)
          [] d.mode = 2 -> /\ IF nsec3 THEN Match(P, ce) /\ Cover(P, nc) ELSE Cover(P, t)
                           /\ MatchWithout(P, Wild(ce), qtype)
          [] d.mode = 3 -> Cover(P, IF nsec3 THEN nc ELSE t)
          [] d.mode = 4 -> /\ IF nsec3 THEN Match(P, ce) /\ Cover(P, nc) ELSE Cover(P, t)
                           /\ Cover(P, Wild(ce))
          [] OTHER      -> TRUE

(* Every denial proof the resolution asks for is one a validator accepts: *)
(* NODATA has a matching record without the type, NXDOMAIN proves the     *)
(* closest encloser, the next closer name and the absent wildcard, a      *)
(* wildcard answer proves the next closer name absent, a wildcard NODATA  *)
(* adds the matching wildcard.  This is about the closest-encloser and    *)
(* next-closer walks of addNSEC3, the decrement flags it passes to        *)
(* getNSEC3Hashes, the wildcard name addNSEC builds, and the wildcard     *)
(* name getBestWildcard hands to makeNXDomain.                            *)
DenialProofsComplete ==
    phase = "done" => \A d \in denials : \A P \in {addNSECX(d)} : ValidProof(d, P)

\* Types a name really has: its authoritative types, NS at a delegation.
PresentTypes(n, z) ==
    {r.type : r \in {x \in Lookup("ANY", n, z) : x.type # "ENT" /\ (x.auth \/ x.type = "NS")}}

\* Names of the zone's authoritative namespace, empty non-terminals included.
VisibleNames(z) == {n \in Owners(zoneData, z) : \E r \in Lookup("ANY", n, z) : r.auth \/ r.type = "NS"}

(* No denial record lies: none covers a name of the zone (with NSEC an    *)
(* empty non-terminal may be covered; with opt-out an unsigned            *)
(* delegation may), and none owned by a name leaves out one of its types. *)
(* This is about the ordered index the proofs are cut from, the narrow    *)
(* white lies of getNSEC3Hashes, the name whose types emitNSEC/emitNSEC3  *)
(* read, and their bitmap filters.                                         *)
DenialRecordsTruthful ==
    phase = "done" =>
        \A d \in denials : \A rec \in addNSECX(d) : \A n \in VisibleNames(d.zone) :
            /\ Covers(rec, n) => \/ rec.kind = "NSEC" /\ PresentTypes(n, d.zone) = {}
                                 \/ rec.optout /\ InsecureCut(n, d.zone)
            /\ Owns(rec, n) => PresentTypes(n, d.zone) \subseteq rec.types
====
