-------------------------- MODULE QueryResolution --------------------------
(***************************************************************************)
(* The query-resolution core of PacketHandler (src/pdns/packethandler.cc): *)
(* the redirect-chasing loop of opcodeQueryInner and one pass of           *)
(* opcodeQueryInner2 per step, with the referral search, the wildcard      *)
(* matcher and the DNAME synthesiser it calls, the CDS and CDNSKEY        *)
(* records synthesised at a zone apex, and the RFC 9615 signaling answers *)
(* of tryAuthSignal.                                                       *)
(*                                                                         *)
(* Names are sequences of labels, leftmost label first, without the root:  *)
(* chopOff() is Tail, isPartOf(z) is "z is a suffix".  The zone data the   *)
(* backend serves is chosen once in Init among all well-formed data sets   *)
(* built from a small universe of candidate records, and then rectified    *)
(* the way the record store delivers it (auth flags, ENT placeholders, an  *)
(* SOA at every apex).  A response is the set of records added to the      *)
(* reply packet, its rcode and AA bit, and the denial proofs requested     *)
(* from addNSECX, as [mode, target, wildcard, zone] requests.             *)
(***************************************************************************)
EXTENDS Naturals, FiniteSets, Sequences, SequencesExt

CONSTANTS
    Zones,               \* apex names of the zones the backends host
    FixedRecords,        \* records present in every data set
    OptionalRecords,     \* records a data set may or may not contain
    Unrectified,         \* records left with auth = 0 by a zone not rectified
    SecuredZones,        \* zones with DNSSEC keys (isSecuredZone)
    DnssecOk,            \* the query's DO bit (pkt.d_dnssecOk)
    ResolveAcrossZones,  \* resolve-across-zones (d_doResolveAcrossZones)
    DoDNAME,             \* dname-processing (d_doDNAME)
    DoesDNSSEC,          \* backend is DNSSEC-capable (d_dk.doesDNSSEC())
    Queries,             \* <<name, type>> questions a client may send
    MaxNameLabels,       \* stands for the 255-octet DNSName limit
    NoZone,              \* getAuth found no zone
    \* The key store's view of the zones (DNSSECKeeper, not in this
    \* repository), fixed for the query:
    SignalingZones,      \* SIGNALING-ZONE metadata set (isSignalingZone)
    PresignedZones,      \* PRESIGNED metadata set (isPresigned)
    NSEC3NarrowZones,    \* getNSEC3PARAM succeeds with narrow set
    PublishCDS,          \* PUBLISH-CDS per zone: "", "0" or a digest algorithm
    PublishCDNSKEY,      \* PUBLISH-CDNSKEY per zone: "", "0" or "1"
    EntryPointZones,     \* zones with a published entry-point key (getEntryPoints)
    DirectDNSKEY         \* direct-dnskey: the zone's own CDS/CDNSKEY are served too

Types == {"A", "NS", "CNAME", "DNAME", "DS", "SOA", "ENT", "CDS", "CDNSKEY"}
Places == {"ANSWER", "AUTHORITY"}
Rcodes == {"NoError", "NXDomain", "Refused", "ServFail", "YXDomain"}
Modes == 0..6

VARIABLES
    zoneData,       \* rectified records served by the backend
    qname, qtype,   \* pkt.qdomain, pkt.qtype
    phase,          \* "inner2": a pass runs; "loop": back in the loop; "done"
    target,         \* state.target
    retargetcount,  \* the loop counter of opcodeQueryInner
    retargeted,     \* state.retargeted, set by the pass
    qdomainzone,    \* state.r->qdomainzone
    authSet,        \* state.authSet
    doSigs,         \* state.doSigs
    rrs,            \* records added to state.r
    rcode, aa,      \* state.r rcode and AA bit
    denials         \* addNSECX requests

vars == <<zoneData, qname, qtype, phase, target, retargetcount, retargeted,
          qdomainzone, authSet, doSigs, rrs, rcode, aa, denials>>

-----------------------------------------------------------------------------
(* Names                                                                   *)

\* DNSName::isPartOf: the labels of z end those of n.
IsPartOf(n, z) == Len(z) <= Len(n) /\ SubSeq(n, Len(n) - Len(z) + 1, Len(n)) = z
Wild(n) == <<"*">> \o n

-----------------------------------------------------------------------------
(* The record store: what B.lookup returns and what B.getAuth answers.    *)

Owners(D, z) == {r.owner : r \in {x \in D : x.zone = z}}

\* Delegation points: owners of NS records below the apex.
Cuts(D, z) == {r.owner : r \in {x \in D : x.zone = z /\ x.type = "NS" /\ x.owner # z}}

\* A record at or below a delegation point is not authoritative, except the
\* DS at the delegation point itself.
IsAuth(D, r) ==
    ~\E c \in Cuts(D, r.zone) : IsPartOf(r.owner, c) /\ ~(r.owner = c /\ r.type = "DS")

\* Names strictly between the apex z and the name n.
Between(n, z) == {SubSeq(n, i, Len(n)) : i \in 2..(Len(n) - Len(z))}

Stored(r, a) == [owner |-> r.owner, type |-> r.type, rdata |-> r.rdata,
                 zone |-> r.zone, auth |-> a]

\* The data set as a rectified zone delivers it: auth flags, an ENT record
\* at every empty non-terminal, an SOA at the apex; a record of
\* Unrectified keeps auth = 0 whatever its position.
Rectify(D) ==
    LET ents(z) == UNION {Between(o, z) : o \in Owners(D, z)} \ Owners(D, z)
        ent(n, z) == [owner |-> n, type |-> "ENT", rdata |-> <<>>, zone |-> z]
    IN  {Stored(r, IsAuth(D, r) /\ r \notin Unrectified) : r \in D}
        \cup UNION {{Stored(ent(n, z), IsAuth(D, ent(n, z))) : n \in ents(z)} : z \in Zones}
        \cup {Stored([owner |-> z, type |-> "SOA", rdata |-> <<>>, zone |-> z], TRUE)
                : z \in Zones}

\* Data a zone may hold: a CNAME owner has nothing else, at most one DNAME
\* per owner, nothing below a DNAME.
WellFormed(D) ==
    /\ \A r \in D : r.type = "CNAME" =>
           \A s \in D : s.owner = r.owner /\ s.zone = r.zone => s = r
    /\ \A r \in D : r.type = "DNAME" =>
           \A s \in D : s.zone = r.zone /\ IsPartOf(s.owner, r.owner) =>
                s.owner = r.owner /\ (s.type = "DNAME" => s = r)

DataSets == {Rectify(FixedRecords \cup S) :
                S \in {T \in SUBSET OptionalRecords : WellFormed(FixedRecords \cup T)}}

Lookup(t, n, z) ==
    {r \in zoneData : r.zone = z /\ r.owner = n /\ (t = "ANY" \/ r.type = t)}

\* UeberBackend::getAuth: the hosted zone with the longest apex the name is
\* part of; a DS query for a zone apex is answered from the parent zone
\* when the parent is hosted.
GetAuth(n) ==
    LET cands == {z \in Zones : IsPartOf(n, z)}
        best(S) == CHOOSE z \in S : \A y \in S : Len(y) <= Len(z)
        parents == {z \in cands : z # n}
    IN  IF cands = {} THEN NoZone
        ELSE IF qtype = "DS" /\ n \in Zones /\ parents # {} THEN best(parents)
        ELSE best(cands)

-----------------------------------------------------------------------------
(* The reply packet                                                        *)

Placed(r, place) == [owner |-> r.owner, type |-> r.type, rdata |-> r.rdata,
                     zone |-> r.zone, place |-> place, wildcard |-> <<>>]

SOAOf(z) == Placed(CHOOSE r \in Lookup("SOA", z, z) : TRUE, "AUTHORITY")

-----------------------------------------------------------------------------
(* One pass of opcodeQueryInner2, evaluated in the current state.          *)

Retargeted == retargetcount # 0
Zone == GetAuth(target)
Dnssec == DnssecOk /\ Zone \in SecuredZones      \* d_dnssec

\* The by-name ANY lookup at the target and its classification.
RRSet == Lookup("ANY", target, Zone)
WeDone == \E r \in RRSet : (qtype = "ANY" \/ r.type = qtype) /\ r.auth
WeHaveUnauth ==
    \E r \in RRSet : (r.type = qtype /\ ~r.auth)
                     \/ (r.type = "NS" /\ (~r.auth \/ r.owner # Zone))
WeRedirected == \E r \in RRSet : r.type = "CNAME" /\ qtype # "CNAME"

\* Mutant: only the target itself is probed for NS, not its ancestors.
BestReferralNSTargetOnly(sub, z) ==
    IF sub = z \/ sub = <<>> THEN {} ELSE Lookup("NS", sub, z)

\* getBestReferralNS: the NS set of the deepest name from the target up to,
\* but excluding, the apex.
RECURSIVE BestReferralNS(_, _)
BestReferralNS(sub, z) ==
    IF sub = z \/ sub = <<>> THEN {}
    ELSE IF Lookup("NS", sub, z) # {} THEN Lookup("NS", sub, z)
    ELSE BestReferralNS(Tail(sub), z)

getBestReferralNS(t) == BestReferralNS(t, Zone)

\* The DS-query referral condition (lines 1957-1977).
DoDSReferral ==
    IF DoesDNSSEC THEN ~\E r \in RRSet : r.auth
    ELSE ~\E r \in RRSet : r.type = "DS"

\* What getBestWildcard collects at a wildcard owner: the CNAME alone if
\* there is one, else the records of the query type (any type for ANY).
WildcardMatches(at) ==
    IF \E r \in at : r.type = "CNAME" THEN {r \in at : r.type = "CNAME"}
    ELSE {r \in at : r.type # "ENT" /\ (r.type = qtype \/ qtype = "ANY")}

RECURSIVE BestWildcard(_, _, _)

\* Mutant: the existing-ancestor check is dropped, so a wildcard higher up
\* synthesises below an existing name.
BestWildcardNoAncestorCheck(sub, wc, z) ==
    LET at == Lookup("ANY", Wild(sub), z) IN
    IF at # {} THEN [found |-> TRUE, wildcard |-> Wild(sub), rrset |-> WildcardMatches(at)]
    ELSE IF sub = z \/ Len(sub) <= 1 THEN [found |-> FALSE, wildcard |-> wc, rrset |-> {}]
    ELSE BestWildcard(Tail(sub), sub, z)

\* Mutant: the stop at the apex is tested before the apex wildcard is probed.
BestWildcardApexFirst(sub, wc, z) ==
    IF sub = z THEN [found |-> FALSE, wildcard |-> wc, rrset |-> {}]
    ELSE LET at == Lookup("ANY", Wild(sub), z) IN
         IF at # {} THEN [found |-> TRUE, wildcard |-> Wild(sub), rrset |-> WildcardMatches(at)]
         ELSE IF Lookup("ANY", sub, z) # {} \/ Len(sub) <= 1
              THEN [found |-> FALSE, wildcard |-> wc, rrset |-> {}]
         ELSE BestWildcard(Tail(sub), sub, z)

\* getBestWildcard after chopping to sub, wc being the current 'wildcard'.
BestWildcard(sub, wc, z) ==
    LET at == Lookup("ANY", Wild(sub), z) IN
    IF at # {} THEN [found |-> TRUE, wildcard |-> Wild(sub), rrset |-> WildcardMatches(at)]
    ELSE IF sub = z \/ Lookup("ANY", sub, z) # {} \/ Len(sub) <= 1
         THEN [found |-> FALSE, wildcard |-> wc, rrset |-> {}]
    ELSE BestWildcard(Tail(sub), sub, z)

getBestWildcard(t) == BestWildcard(Tail(t), t, Zone)

\* getBestDNAMESynth: the first DNAME from the target up to the apex, and
\* the target it rewrites to; prefix collects the labels stripped so far.
RECURSIVE BestDNAME(_, _, _)
BestDNAME(sub, prefix, z) ==
    IF Lookup("DNAME", sub, z) # {}
    THEN LET d == CHOOSE r \in Lookup("DNAME", sub, z) : TRUE
         IN  [found |-> TRUE, dname |-> d, newTarget |-> prefix \o d.rdata]
    ELSE IF sub = z \/ Len(sub) <= 1 THEN [found |-> FALSE]
    ELSE BestDNAME(Tail(sub), prefix \o <<Head(sub)>>, z)

getBestDNAMESynth(t) == BestDNAME(t, <<>>, Zone)

-----------------------------------------------------------------------------
(* CDS and CDNSKEY records made from the key store.  A record made from a  *)
(* key carries the key's zone as its data, the delete record the data     *)
(* <<"delete">>; every one is owned by the query name (p.qdomain) and     *)
(* belongs to the answer of the zone being served.                          *)

\* getPublishCDS / getPublishCDNSKEY: the metadata of z, empty for a name
\* that has none.
PublishSetting(t, z) ==
    LET m == IF t = "CDS" THEN PublishCDS ELSE PublishCDNSKEY
    IN  IF z \in DOMAIN m THEN m[z] ELSE ""

\* addCDS(p, r, sd) and addCDNSKEY(p, r, sd) for the zone z: nothing when
\* the zone does not publish the type; the delete record alone for "0";
\* else a record per published entry-point key and, with direct-dnskey,
\* the zone's own apex records of the type.  One digest algorithm stands
\* for the list PUBLISH-CDS may hold.
AddCDSX(t, z) ==
    LET rr(rdata) == [owner |-> qname, type |-> t, rdata |-> rdata, zone |-> Zone,
                      place |-> "ANSWER", wildcard |-> <<>>]
    IN  IF PublishSetting(t, z) = "" THEN {}
        ELSE IF PublishSetting(t, z) = "0" THEN {rr(<<"delete">>)}
        ELSE (IF z \in EntryPointZones THEN {rr(<<t>> \o z)} ELSE {})
             \cup (IF DirectDNSKEY THEN {rr(r.rdata) : r \in Lookup(t, z, z)} ELSE {})

\* Lines 1780-1799: a CDS or CDNSKEY query for the apex of a zone that is
\* not presigned is answered from the key store when addCDS or addCDNSKEY
\* adds a record; otherwise the pass goes on.
ApexDNSSEC ==
    qname = Zone /\ Zone \notin PresignedZones /\ qtype \in {"CDS", "CDNSKEY"}
    /\ AddCDSX(qtype, Zone) # {}

\* tryAuthSignal's first checks on the zone: its first label is _signal,
\* it is a signaling zone, secured, not presigned, and NSEC3 narrow.
SignalingZoneOf(z) ==
    /\ Len(z) > 0 /\ Head(z) = "_signal" /\ z \in SignalingZones
    /\ z \in SecuredZones /\ z \notin PresignedZones /\ z \in NSEC3NarrowZones

\* The target's first label is _dsboot.
DSBoot == Len(target) > 0 /\ Head(target) = "_dsboot"

\* ZoneName(target.makeRelative(zone)).chopOff(): the child the signaling
\* name stands for.
SignalChild == SubSeq(target, 2, Len(target) - Len(Zone))

\* Mutant: the zone_sd.zonename != zone check is dropped; any zone the
\* child lies in will do.
SignalChildInSomeZone == GetAuth(SignalChild) # NoZone

\* getAuth finds the child as a zone of its own, not an ancestor of it.
SignalChildHosted == GetAuth(SignalChild) = SignalChild

\* tryAuthSignal returns true: the name is answered from the signaling
\* zone; false leaves it to makeNXDomain.
TryAuthSignal ==
    /\ SignalingZoneOf(Zone)
    /\ ~DSBoot \/ qtype \notin {"CDS", "CDNSKEY"} \/ SignalChildHosted

TypeOK ==
    /\ <<qname, qtype>> \in Queries
    /\ phase \in {"inner2", "loop", "done"}
    /\ target \in Seq(STRING)
    /\ retargetcount \in Nat
    /\ retargeted \in BOOLEAN
    /\ qdomainzone \in Zones \cup {NoZone}
    /\ authSet \subseteq Zones
    /\ doSigs \in BOOLEAN
    /\ \A e \in rrs : e.type \in Types /\ e.place \in Places /\ e.zone \in Zones
    /\ rcode \in Rcodes /\ aa \in BOOLEAN
    /\ \A d \in denials : d.mode \in Modes

-----------------------------------------------------------------------------
(* Which way a pass of opcodeQueryInner2 goes, in the order of the code's  *)
(* early returns.                                                          *)

LeavesZoneEarly == Retargeted /\ ~ResolveAcrossZones /\ ~IsPartOf(target, qdomainzone)
\* Mutant: the generic check after getAuth is missing.
LeavesZoneUnchecked == FALSE

LeavesZone == Retargeted /\ ~ResolveAcrossZones /\ qdomainzone # Zone

\* Mutant: the DS referral is tried before the DS NODATA case.
BranchDSReferralFirst ==
    CASE LeavesZoneEarly                                         -> "leaveZone"
      [] Zone = NoZone                                           -> "noAuth"
      [] LeavesZone                                              -> "leaveZone"
      [] ApexDNSSEC                                              -> "apexDNSSEC"
      [] qtype = "SOA" /\ Zone = qname                           -> "apexSOA"
      [] qtype = "RRSIG"                                         -> "rrsig"
      [] qtype # "DS" /\ getBestReferralNS(target) # {}          -> "referral"
      [] qtype = "DS" /\ DoDSReferral /\ getBestReferralNS(target) # {} -> "referral"
      [] qtype = "DS" /\ WeHaveUnauth /\ ~WeDone /\ ~WeRedirected -> "dsNoData"
      [] RRSet = {} /\ getBestWildcard(target).found             -> "wildcard"
      [] RRSet = {} /\ DoDNAME /\ getBestDNAMESynth(target).found -> "dname"
      [] RRSet = {} /\ TryAuthSignal                              -> "signal"
      [] RRSet = {}                                              -> "nxdomain"
      [] WeRedirected                                            -> "cname"
      [] WeDone                                                  -> "answer"
      [] WeHaveUnauth /\ getBestReferralNS(target) # {}          -> "referral"
      [] WeHaveUnauth                                            -> "unauthEmpty"
      [] OTHER                                                   -> "nodata"

Branch ==
    CASE LeavesZoneEarly                                         -> "leaveZone"
      [] Zone = NoZone                                           -> "noAuth"
      [] LeavesZone                                              -> "leaveZone"
      [] ApexDNSSEC                                              -> "apexDNSSEC"
      [] qtype = "SOA" /\ Zone = qname                           -> "apexSOA"
      [] qtype = "RRSIG"                                         -> "rrsig"
      [] qtype # "DS" /\ getBestReferralNS(target) # {}          -> "referral"
      [] qtype = "DS" /\ WeHaveUnauth /\ ~WeDone /\ ~WeRedirected -> "dsNoData"
      [] qtype = "DS" /\ DoDSReferral /\ getBestReferralNS(target) # {} -> "referral"
      [] RRSet = {} /\ getBestWildcard(target).found             -> "wildcard"
      [] RRSet = {} /\ DoDNAME /\ getBestDNAMESynth(target).found -> "dname"
      [] RRSet = {} /\ TryAuthSignal                              -> "signal"
      [] RRSet = {}                                              -> "nxdomain"
      [] WeRedirected                                            -> "cname"
      [] WeDone                                                  -> "answer"
      [] WeHaveUnauth /\ getBestReferralNS(target) # {}          -> "referral"
      [] WeHaveUnauth                                            -> "unauthEmpty"
      [] OTHER                                                   -> "nodata"

\* Lines 1770-1779, done by every pass that gets past getAuth and the zone
\* boundary check.
EnterZone ==
    /\ qdomainzone' = IF Retargeted THEN qdomainzone ELSE Zone
    /\ authSet' = authSet \cup {Zone}
    /\ doSigs' = (doSigs \/ Dnssec)

Denial(mode, t, w) ==
    IF Dnssec THEN {[mode |-> mode, target |-> t, wildcard |-> w, zone |-> Zone]} ELSE {}

\* A pass that ends without asking for a retarget.
Returns == phase' = "loop" /\ retargeted' = FALSE /\ UNCHANGED target

StartPass == phase = "inner2"

Unchanged == UNCHANGED <<zoneData, qname, qtype, retargetcount>>

\* Cross-zone resolution is disabled and the retarget left the first zone:
\* return what was accumulated.
LeaveZone ==
    /\ StartPass /\ Branch = "leaveZone"
    /\ Returns
    /\ UNCHANGED <<qdomainzone, authSet, doSigs, rrs, rcode, aa, denials>> /\ Unchanged

\* Mutant: the zone is recorded in authSet before getAuth is checked.
RefuseNoAuthorityAfterInsert ==
    /\ StartPass /\ Branch = "noAuth"
    /\ aa' = IF Retargeted THEN aa ELSE FALSE
    /\ rcode' = IF Retargeted THEN rcode ELSE "Refused"
    /\ authSet' = authSet \cup {Zone}
    /\ Returns
    /\ UNCHANGED <<qdomainzone, doSigs, rrs, denials>> /\ Unchanged

\* No zone is authoritative for the target: Refused, but only on the first pass.
RefuseNoAuthority ==
    /\ StartPass /\ Branch = "noAuth"
    /\ aa' = IF Retargeted THEN aa ELSE FALSE
    /\ rcode' = IF Retargeted THEN rcode ELSE "Refused"
    /\ Returns
    /\ UNCHANGED <<qdomainzone, authSet, doSigs, rrs, denials>> /\ Unchanged

\* SOA query at the apex of the query name's zone.
AnswerApexSOA ==
    /\ StartPass /\ Branch = "apexSOA" /\ EnterZone
    /\ rrs' = rrs \cup {[SOAOf(Zone) EXCEPT !.place = "ANSWER"]}
    /\ Returns
    /\ UNCHANGED <<rcode, aa, denials>> /\ Unchanged

\* The apex CDS or CDNSKEY made from the key store (addCDS, addCDNSKEY).
AnswerApexDNSSEC ==
    /\ StartPass /\ Branch = "apexDNSSEC" /\ EnterZone
    /\ rrs' = rrs \cup AddCDSX(qtype, Zone)
    /\ Returns
    /\ UNCHANGED <<rcode, aa, denials>> /\ Unchanged

\* Direct RRSIG queries are refused.
RefuseRRSIG ==
    /\ StartPass /\ Branch = "rrsig" /\ EnterZone
    /\ rcode' = "Refused"
    /\ Returns
    /\ UNCHANGED <<rrs, aa, denials>> /\ Unchanged

\* tryReferral: the best NS set in AUTHORITY, AA cleared unless retargeted,
\* and in a secured zone the DS of the cut or a mode-1 proof of its absence.
TryReferral ==
    /\ StartPass /\ Branch = "referral" /\ EnterZone
    /\ LET ns == getBestReferralNS(target)
           cut == (CHOOSE r \in ns : TRUE).owner
           ds == IF Zone \in SecuredZones THEN Lookup("DS", cut, Zone) ELSE {}
       IN  /\ rrs' = rrs \cup {Placed(r, "AUTHORITY") : r \in ns \cup ds}
           /\ denials' = denials \cup
                  (IF Zone \in SecuredZones /\ ds = {} THEN Denial(1, cut, <<>>) ELSE {})
    /\ aa' = IF Retargeted THEN aa ELSE FALSE
    /\ Returns
    /\ UNCHANGED rcode /\ Unchanged

\* makeNOError: the zone's SOA in AUTHORITY and a proof of the given mode.
MakeNOError(t, w, mode) ==
    /\ rrs' = rrs \cup {SOAOf(Zone)}
    /\ denials' = denials \cup Denial(mode, t, w)

\* A DS query for a name with unauthoritative data (a delegation) and no DS.
DSNoData ==
    /\ StartPass /\ Branch = "dsNoData" /\ EnterZone
    /\ MakeNOError(target, <<>>, 1)
    /\ Returns
    /\ UNCHANGED <<rcode, aa>> /\ Unchanged

\* tryWildcard and its caller: records reparented to the target; a CNAME
\* retargets, a type mismatch is a wildcard NODATA.
TryWildcard ==
    /\ StartPass /\ Branch = "wildcard" /\ EnterZone
    /\ LET w == getBestWildcard(target)
           synth == {[Placed(r, "ANSWER") EXCEPT !.owner = target, !.wildcard = r.owner]
                        : r \in w.rrset}
           cname == {r \in w.rrset : r.type = "CNAME"}
       IN  IF w.rrset = {}
           THEN /\ MakeNOError(target, w.wildcard, 2)
                /\ Returns
           ELSE /\ rrs' = rrs \cup synth
                /\ denials' = denials \cup Denial(3, target, w.wildcard)
                /\ IF cname # {}
                   THEN /\ target' = (CHOOSE r \in cname : TRUE).rdata
                        /\ retargeted' = TRUE /\ phase' = "loop"
                   ELSE Returns
    /\ UNCHANGED <<rcode, aa>> /\ Unchanged

\* tryDNAME: the DNAME and the CNAME synthesised from it; a rewritten name
\* longer than a DNSName may hold is YXDOMAIN with the DNAME alone.
TryDNAME ==
    /\ StartPass /\ Branch = "dname" /\ EnterZone
    /\ LET d == getBestDNAMESynth(target)
           cname == [owner |-> target, type |-> "CNAME", rdata |-> d.newTarget,
                     zone |-> Zone, place |-> "ANSWER", wildcard |-> <<>>]
       IN  IF Len(d.newTarget) > MaxNameLabels
           THEN /\ rrs' = rrs \cup {Placed(d.dname, "ANSWER")}
                /\ rcode' = "YXDomain"
                /\ Returns
           ELSE /\ rrs' = rrs \cup {Placed(d.dname, "ANSWER"), cname}
                /\ target' = d.newTarget
                /\ retargeted' = TRUE /\ phase' = "loop"
                /\ UNCHANGED rcode
    /\ UNCHANGED <<aa, denials>> /\ Unchanged

\* tryAuthSignal for a name of the signaling zone that is not a _dsboot
\* name (NODATA, it could be an ENT) or is one asked for another type than
\* CDS and CDNSKEY (NODATA with both in the mode-6 type map).
SignalNoData ==
    /\ StartPass /\ Branch = "signal" /\ EnterZone
    /\ ~(DSBoot /\ qtype \in {"CDS", "CDNSKEY"})
    /\ MakeNOError(target, <<>>, IF DSBoot THEN 6 ELSE 0)
    /\ Returns
    /\ UNCHANGED <<rcode, aa>> /\ Unchanged

\* tryAuthSignal for _dsboot.<child>._signal...: the child's CDS or CDNSKEY,
\* made from its keys when it is not presigned and publishes the type,
\* else looked up at its apex and renamed to the query name; the copies
\* are part of the signaling zone's answer.  None is NODATA (mode 6).
SignalAnswer ==
    /\ StartPass /\ Branch = "signal" /\ EnterZone
    /\ DSBoot /\ qtype \in {"CDS", "CDNSKEY"}
    /\ LET c == SignalChild
           autoPublish == c \notin PresignedZones /\ PublishSetting(qtype, c) # ""
           copies == IF autoPublish THEN AddCDSX(qtype, c)
                     ELSE {[Placed(r, "ANSWER") EXCEPT !.owner = qname, !.zone = Zone]
                              : r \in Lookup(qtype, c, c)}
       IN  IF copies # {}
           THEN rrs' = rrs \cup copies /\ UNCHANGED denials
           ELSE MakeNOError(target, <<>>, 6)
    /\ Returns
    /\ UNCHANGED <<rcode, aa>> /\ Unchanged

\* Nothing at the name, no wildcard, no DNAME: NXDOMAIN with a mode-4 proof,
\* except for a CNAME or ANY query inside a redirect chain.
MakeNXDomain ==
    /\ StartPass /\ Branch = "nxdomain" /\ EnterZone
    /\ LET w == getBestWildcard(target).wildcard IN
       IF qtype \in {"CNAME", "ANY"} /\ Retargeted
       THEN UNCHANGED <<rrs, rcode, denials>>
       ELSE /\ rrs' = rrs \cup {SOAOf(Zone)}
            /\ denials' = denials \cup Denial(4, target, w)
            /\ rcode' = "NXDomain"
    /\ Returns
    /\ UNCHANGED aa /\ Unchanged

\* The name owns a CNAME and another type was asked: follow it.
FollowCNAME ==
    /\ StartPass /\ Branch = "cname" /\ EnterZone
    /\ LET c == CHOOSE r \in RRSet : r.type = "CNAME" IN
       /\ rrs' = rrs \cup {Placed(c, "ANSWER")}
       /\ target' = c.rdata
    /\ retargeted' = TRUE /\ phase' = "loop"
    /\ UNCHANGED <<rcode, aa, denials>> /\ Unchanged

\* Authoritative data of the asked type: every such record but ENTs; none
\* left is a NODATA; ANY with DNSSEC requests the mode-5 proof.
AnswerRecords ==
    /\ StartPass /\ Branch = "answer" /\ EnterZone
    /\ LET recs == {r \in RRSet : r.type # "ENT" /\ r.auth /\ (qtype = "ANY" \/ r.type = qtype)}
       IN  IF recs # {}
           THEN /\ rrs' = rrs \cup {Placed(r, "ANSWER") : r \in recs}
                /\ denials' = denials \cup (IF qtype = "ANY" THEN Denial(5, target, <<>>) ELSE {})
           ELSE MakeNOError(target, <<>>, 0)
    /\ Returns
    /\ UNCHANGED <<rcode, aa>> /\ Unchanged

\* Only unauthoritative data and no NS above it: the pass adds nothing.
UnauthEmpty ==
    /\ StartPass /\ Branch = "unauthEmpty" /\ EnterZone
    /\ Returns
    /\ UNCHANGED <<rrs, rcode, aa, denials>> /\ Unchanged

\* Data at the name, but not of the asked type.
MakeNODATA ==
    /\ StartPass /\ Branch = "nodata" /\ EnterZone
    /\ MakeNOError(target, <<>>, 0)
    /\ Returns
    /\ UNCHANGED <<rcode, aa>> /\ Unchanged

-----------------------------------------------------------------------------
(* The loop of opcodeQueryInner around the passes.                         *)

\* Mutant: the chain is cut one redirect early.
MaxRetargetsOffByOne == 9

MaxRetargets == 10

PassDone ==
    /\ phase = "loop" /\ ~retargeted
    /\ phase' = "done"
    /\ UNCHANGED <<zoneData, qname, qtype, target, retargetcount, retargeted,
                   qdomainzone, authSet, doSigs, rrs, rcode, aa, denials>>

\* Mutant: the loop counter is not incremented.
RetargetNoCount ==
    /\ phase = "loop" /\ retargeted
    /\ retargetcount + 1 <= MaxRetargets
    /\ phase' = "inner2"
    /\ UNCHANGED <<zoneData, qname, qtype, target, retargetcount, retargeted,
                   qdomainzone, authSet, doSigs, rrs, rcode, aa, denials>>

Retarget ==
    /\ phase = "loop" /\ retargeted
    /\ retargetcount + 1 <= MaxRetargets
    /\ retargetcount' = retargetcount + 1
    /\ phase' = "inner2"
    /\ UNCHANGED <<zoneData, qname, qtype, target, retargeted,
                   qdomainzone, authSet, doSigs, rrs, rcode, aa, denials>>

\* More than MaxRetargets redirects: a fresh reply with SERVFAIL replaces
\* everything accumulated.
AbortChain ==
    /\ phase = "loop" /\ retargeted
    /\ retargetcount + 1 > MaxRetargets
    /\ retargetcount' = retargetcount + 1
    /\ phase' = "done"
    /\ rrs' = {} /\ denials' = {} /\ rcode' = "ServFail" /\ aa' = TRUE
    /\ UNCHANGED <<zoneData, qname, qtype, target, retargeted,
                   qdomainzone, authSet, doSigs>>

\* The reply has been built; the query is over.
Done == phase = "done" /\ UNCHANGED vars

Init ==
    /\ zoneData \in DataSets
    /\ \E q \in Queries : qname = q[1] /\ qtype = q[2]
    /\ phase = "inner2"
    /\ target = qname
    /\ retargetcount = 0
    /\ retargeted = FALSE
    /\ qdomainzone = NoZone
    /\ authSet = {} /\ doSigs = FALSE
    /\ rrs = {} /\ rcode = "NoError" /\ aa = TRUE /\ denials = {}

Next ==
    \/ LeaveZone \/ RefuseNoAuthority \/ AnswerApexDNSSEC \/ AnswerApexSOA \/ RefuseRRSIG
    \/ TryReferral \/ DSNoData \/ TryWildcard \/ TryDNAME \/ SignalNoData \/ SignalAnswer
    \/ MakeNXDomain
    \/ FollowCNAME \/ AnswerRecords \/ UnauthEmpty \/ MakeNODATA
    \/ PassDone \/ Retarget \/ AbortChain
    \/ Done

Spec == Init /\ [][Next]_vars

\* One thread runs the loop to its end.
FairSpec == Spec /\ WF_vars(Next)

-----------------------------------------------------------------------------
(* What the response should be, from RFC 1034 section 4.3.2, RFC 4592 and *)
(* RFC 4035, stated on the zone data independently of the code's search.  *)

Exists(n, z) == Lookup("ANY", n, z) # {}

RECURSIVE ClosestEncloser(_, _)
ClosestEncloser(n, z) ==
    IF n = z \/ Exists(n, z) \/ Len(n) <= 1 THEN n ELSE ClosestEncloser(Tail(n), z)

\* The name is at or below a delegation point of the zone.
Delegated(n, z) == \E c \in Cuts(zoneData, z) : IsPartOf(n, c)

\* A DNAME owned by a strict ancestor of the name.
UnderDNAME(n, z) ==
    \E r \in zoneData : r.zone = z /\ r.type = "DNAME" /\ IsStrictSuffix(r.owner, n)

\* Number of CNAME records a chain from n follows, counted up to cap.
RECURSIVE CNAMEHops(_, _)
CNAMEHops(n, cap) ==
    LET c == {r \in zoneData : r.owner = n /\ r.type = "CNAME" /\ r.zone = GetAuth(n)}
    IN  IF c = {} \/ cap = 0 THEN 0
        ELSE 1 + CNAMEHops((CHOOSE r \in c : TRUE).rdata, cap - 1)

\* The last pass worked inside a zone (it was not stopped at a zone boundary).
FinalZone == GetAuth(target)
EnteredFinalZone ==
    FinalZone # NoZone /\ (ResolveAcrossZones \/ FinalZone = qdomainzone)

Finished == phase = "done" /\ rcode # "ServFail"

\* "at most 10 times" (redirect-chasing loop)
SpecRedirectLimit == 10

(* NXDOMAIN is sent only for a name that does not exist: the final target  *)
(* owns no record (ENT placeholders included), no wildcard at its closest *)
(* encloser could synthesise it, it lies below no delegation point and    *)
(* below no DNAME.  This is about the order of the early returns in       *)
(* opcodeQueryInner2 and the walks of getBestReferralNS, getBestWildcard  *)
(* and getBestDNAMESynth.                                                  *)
NXDomainOnlyForNonexistentNames ==
    (Finished /\ rcode = "NXDomain") =>
        LET z == FinalZone IN
        /\ ~Exists(target, z)
        /\ ~Exists(Wild(ClosestEncloser(target, z)), z)
        /\ ~Delegated(target, z)
        /\ ~UnderDNAME(target, z)

(* A record synthesised by tryWildcard, and every wildcard proof request   *)
(* (modes 2 and 3), names the wildcard at the closest encloser of a name  *)
(* that does not exist (RFC 4592): an existing ancestor below the         *)
(* wildcard blocks synthesis from above.                                   *)
WildcardFromClosestEncloser ==
    /\ \A e \in rrs : e.wildcard # <<>> =>
           /\ ~Exists(e.owner, e.zone)
           /\ e.wildcard = Wild(ClosestEncloser(e.owner, e.zone))
    /\ \A d \in denials : d.mode \in {2, 3} =>
           d.wildcard = Wild(ClosestEncloser(d.target, GetAuth(d.target)))

(* A query (other than DS, and RRSIG which is refused) whose final target lies at or below a          *)
(* delegation point is answered with a referral: NS records of a cut      *)
(* above the target in the AUTHORITY section, and AA cleared when no      *)
(* redirect preceded it (tryReferral, getBestReferralNS).                  *)
DelegatedNamesGetReferrals ==
    (Finished /\ qtype \notin {"DS", "RRSIG"} /\ EnteredFinalZone /\ Delegated(target, FinalZone)) =>
        /\ \E e \in rrs : e.type = "NS" /\ e.place = "AUTHORITY" /\ IsPartOf(target, e.owner)
        /\ (retargetcount = 0 => ~aa)

(* A DS query for a delegation point is answered by the parent, with      *)
(* authority: the DS set if there is one, else NODATA (the parent's SOA,  *)
(* no referral) with a mode-1 denial when DNSSEC is active; never a       *)
(* referral to the child (lines 1938-1943 before 1954-1987).               *)
DSAtDelegationAnsweredByParent ==
    (Finished /\ qtype = "DS" /\ EnteredFinalZone /\ target \in Cuts(zoneData, FinalZone)) =>
        LET z == FinalZone
            ds == Lookup("DS", target, z)
        IN  /\ ~\E e \in rrs : e.type = "NS" /\ e.place = "AUTHORITY"
            /\ ds # {} => \A r \in ds : Placed(r, "ANSWER") \in rrs
            /\ ds = {} => /\ SOAOf(z) \in rrs
                          /\ rcode = "NoError"
                          /\ (DnssecOk /\ z \in SecuredZones =>
                                 [mode |-> 1, target |-> target, wildcard |-> <<>>, zone |-> z] \in denials)

(* With resolve-across-zones off, no record of another zone than the      *)
(* query name's zone reaches the reply, even when a redirect leads into   *)
(* a child zone hosted on the same server (the checks at lines 1748 and   *)
(* 1772).                                                                  *)
NoForeignDataWhenNotResolvingAcrossZones ==
    ~ResolveAcrossZones => \A e \in rrs : e.zone = qdomainzone

\* The data of the CDS or CDNSKEY RRset the apex of zone c serves: what the
\* key store makes for it when it is not presigned, else its own records.
ApexRRSet(c, t) ==
    LET made == IF c \notin PresignedZones THEN {r.rdata : r \in AddCDSX(t, c)} ELSE {}
    IN  IF made # {} THEN made ELSE {r.rdata : r \in Lookup(t, c, c)}

(* RFC 9615: the records at a signaling name _dsboot.<child>._signal.<ns> *)
(* are a copy of the child's CDS or CDNSKEY RRset, the one the child's    *)
(* apex serves, owned by the signaling name; a _dsboot name for a name    *)
(* that is not itself a hosted zone does not exist.  This is about the    *)
(* child tryAuthSignal derives from the name, its getAuth check, and the  *)
(* records it copies, against the apex path of opcodeQueryInner2.         *)
SignalAnswersMirrorChild ==
    LET z == FinalZone
        c == SubSeq(target, 2, Len(target) - Len(z))
    IN  (/\ Finished /\ qtype \in {"CDS", "CDNSKEY"} /\ EnteredFinalZone
         /\ SignalingZoneOf(z) /\ Len(target) > 0 /\ Head(target) = "_dsboot"
         /\ ~Exists(target, z))
        => IF c \in Zones
           THEN /\ rcode = "NoError"
                /\ {e.rdata : e \in {x \in rrs : x.type = qtype}} = ApexRRSet(c, qtype)
                /\ \A e \in rrs : e.type = qtype => e.owner = target
           ELSE rcode = "NXDomain"

(* Every query is eventually answered: the redirect loop of              *)
(* opcodeQueryInner ends, with SERVFAIL if it had to give up.             *)
ResolutionTerminates == <>(phase = "done")

(* A CNAME chain of at most 10 redirects is answered, every CNAME of it  *)
(* in the reply; a longer chain, or a loop, is SERVFAIL with nothing else *)
(* (the counter of opcodeQueryInner, lines 1725-1739).                     *)
RedirectLimit ==
    phase = "done" =>
        IF CNAMEHops(qname, SpecRedirectLimit + 1) > SpecRedirectLimit
        THEN rcode = "ServFail" /\ rrs = {}
        ELSE /\ rcode # "ServFail"
             /\ Cardinality({e \in rrs : e.type = "CNAME"}) = CNAMEHops(qname, SpecRedirectLimit)

====
