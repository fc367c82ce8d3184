-------------------------------- MODULE Notify --------------------------------
(* The zone-maintenance side of PacketHandler: doQuestion's prologue and   *)
(* opcode table, processNotify's sender, TSIG and primary checks, and the  *)
(* autoprimary bootstrap tryAutoPrimary / tryAutoPrimarySynchronous.       *)
(*                                                                         *)
(* Several packet-handler threads run doQuestion at once.  A NOTIFY for an *)
(* unknown zone that came over TCP runs the bootstrap on its own thread,   *)
(* one backend call per step, so other threads interleave between          *)
(* createSecondaryDomain, getDomainInfo + g_zoneCache.add and              *)
(* setDomainMetadata.  One that came over UDP is answered NoError at once  *)
(* and queued for the Communicator thread, which later runs the same       *)
(* bootstrap.  The resolver's SOA/NS lookups and the backend calls may     *)
(* fail; their outcome is a nondeterministic choice.                       *)
EXTENDS Naturals, Sequences, FiniteSets

CONSTANTS
    Handlers,          \* packet-handler threads
    Comm,              \* the Communicator thread
    Zones,             \* zone names a NOTIFY may carry
    Remotes,           \* source addresses
    Keys,              \* TSIG key names a packet may carry
    NoKey,             \* no TSIG record
    DnssecDb,          \* the bind backend opened its dnssec-db
    NoAlgorithm,       \* the empty algorithm name
    EmptySecret,       \* the empty string
    TSIGKeys,          \* the tsigkeys table: rows [name, algorithm, secret]
    NoECS,             \* no EDNS client-subnet option
    Packets,           \* the packets clients may send
    InitDomains,       \* zone -> DomainInfo of the zones hosted at start
    InitMetadata,      \* the domainmetadata table at start
    AllowNotifyFrom,   \* allow-notify-from
    TrustedProxies,    \* trusted-notification-proxy
    AutoPrimaries,     \* addresses autoPrimaryBackend accepts (supermasters)
    Settings,          \* the ::arg() settings the server may start with
    EightBitDNS,       \* g_8bitDNS
    BackendFaults,     \* backend calls may throw or fail
    MaxPackets         \* bound on the packets received

Workers == Handlers \cup {Comm}

\* The settings processNotify and tryAutoPrimarySynchronous read: secondary,
\* autosecondary, primary, allow-unsigned-notify, allow-unsigned-autoprimary,
\* and whether forward-notify is set.
SettingRecords ==
    [secondary : BOOLEAN, autosecondary : BOOLEAN, primary : BOOLEAN,
     allowUnsignedNotify : BOOLEAN, allowUnsignedAutoprimary : BOOLEAN,
     forwardNotify : BOOLEAN]
ASSUME Settings \subseteq SettingRecords

\* DomainInfo: kind and primaries.  Unknown stands for getDomainInfo failing.
Kinds == {"native", "primary", "secondary"}
Unknown == [kind |-> "none", primaries |-> {}]
DomainInfos == [kind : Kinds, primaries : SUBSET Remotes] \cup {Unknown}

VARIABLES
    arg,          \* the settings, read at start-up
    domains,      \* the backend's domains table
    domainmetadata, \* the bind backend's domainmetadata table
    zoneCache,    \* names added to g_zoneCache
    pc,           \* worker -> step of tryAutoPrimarySynchronous, or "idle"
    pkt,          \* worker -> packet it is working on
    queue,        \* Communicator's queue of autoprimary requests (addTryAutoPrimaryRequest)
    checkRequests,\* zones queued by addSecondaryCheckRequest
    relayed,      \* zones relayed by Communicator.notify to forward-notify targets
    received,     \* packets received so far
    replies,      \* history: [pkt, rcode] of every reply sent
    accepted,     \* history: NOTIFYs that got past processNotify's checks
    created       \* history: [zone, pkt] of every createSecondaryDomain that succeeded

vars == <<arg, domains, domainmetadata, zoneCache, pc, pkt, queue, checkRequests, relayed,
          received, replies, accepted, created>>

Steps == {"idle", "resolve", "create", "info", "meta"}

TypeOK ==
    /\ arg \in Settings
    /\ domains \in [Zones -> DomainInfos]
    /\ domainmetadata \in Seq([domain : Zones, kind : {"AXFR-MASTER-TSIG"}, content : Keys])
    /\ zoneCache \subseteq Zones
    /\ pc \in [Workers -> Steps]
    /\ pkt \in [Workers -> Packets]
    /\ queue \in Seq(Packets)
    /\ checkRequests \subseteq Zones /\ relayed \subseteq Zones
    /\ received \in 0..MaxPackets
    /\ replies \subseteq [pkt : Packets, rcode : STRING]
    /\ accepted \subseteq Packets
    /\ created \subseteq [zone : Zones, pkt : Packets]

-----------------------------------------------------------------------------
(* doQuestion: the checks made before the opcode table, in their order,   *)
(* and the table itself.  "drop" sends nothing; "Notify" goes on to       *)
(* processNotify; "Query", "Update" and "TKEY" go to handlers outside     *)
(* this module.  A signed packet carries its key name, its algorithm and  *)
(* mac, the secret its MAC was computed with.                             *)
BD == INSTANCE BindDNSSEC WITH tsigkeys <- TSIGKeys

\* validateTSIG (not under src/): the MAC validates exactly when it was
\* computed with the secret checkForCorrectTSIG hands it.  The secrets are
\* kept as the table's base64 strings; B64Decode is injective on them and
\* maps the empty string to the empty secret.
validateTSIG(p, secret64) == p.mac = secret64

\* checkForCorrectTSIG: getTSIGKey with the packet's key name and algorithm
\* into an empty secret64; false denies, else the MAC is validated with
\* the secret64 it left.
checkForCorrectTSIG(p) ==
    LET found == BD!getTSIGKey(p.key, p.alg, EmptySecret)
    IN  found.ok /\ validateTSIG(p, found.content)

\* The TSIG the tsigkeys table vouches for: the packet is signed with the
\* secret stored for its key name and algorithm.
Genuine(p) ==
    \E i \in DOMAIN TSIGKeys :
        TSIGKeys[i].name = p.key /\ TSIGKeys[i].algorithm = p.alg /\ TSIGKeys[i].secret = p.mac

\* processNotify's expected key: the first AXFR-MASTER-TSIG value, if
\* getDomainMetadata succeeds and returns any.
ExpectedKey(z) ==
    LET r == BD!getDomainMetadata(z, "AXFR-MASTER-TSIG")
    IN  IF r.ok /\ r.meta # <<>> THEN r.meta[1] ELSE NoKey

\* validDNSName: 8-bit bytes only when 8bit-dns is on.
validDNSName(p) == ~p.bit8 \/ EightBitDNS

\* Mutant: the checkForCorrectTSIG gate is skipped.
doQuestionSkipsTSIG(p) ==
    CASE p.qr \/ p.tc -> "drop"
      [] p.edns = 1 -> "BADVERS"
      [] p.edns = 0 /\ p.cookie = "malformed" -> "FormErr"
      [] p.edns = 0 /\ p.cookie = "invalid" /\ ~p.tcp -> "BADCOOKIE"
      [] p.tkey -> "TKEY"
      [] ~validDNSName(p) -> "ServFail"
      [] p.opcode \in {"Query", "Notify", "Update"} -> p.opcode
      [] OTHER -> "NotImp"

doQuestion(p) ==
    CASE p.qr -> "drop"
      [] p.tc -> "drop"
      [] p.edns = 1 -> "BADVERS"
      [] p.edns = 0 /\ p.cookie = "malformed" -> "FormErr"
      [] p.edns = 0 /\ p.cookie = "invalid" /\ ~p.tcp -> "BADCOOKIE"
      [] p.key # NoKey /\ ~checkForCorrectTSIG(p) /\ p.opcode = "Update" -> "Refused"
      [] p.key # NoKey /\ ~checkForCorrectTSIG(p) -> "NotAuth"
      [] p.tkey -> "TKEY"
      [] ~validDNSName(p) -> "ServFail"
      [] p.opcode \in {"Query", "Notify", "Update"} -> p.opcode
      [] OTHER -> "NotImp"

\* The address tryAutoPrimarySynchronous treats as the primary: the
\* client-subnet address when a trusted proxy forwarded the NOTIFY.
AutoRemote(p) ==
    IF p.ecs # NoECS /\ p.remote \in TrustedProxies THEN p.ecs ELSE p.remote

IsPrimaryType(di) == di.kind = "primary"

\* Mutant: the isPrimary check on the sender is missing.
processNotifyIgnoresPrimaries(p) ==
    LET z == p.zone
        havetsig == p.key # NoKey
        di == domains[z]
    IN CASE ~arg.secondary /\ ~arg.forwardNotify -> "Refused"
         [] p.remote \notin AllowNotifyFrom /\ ~havetsig -> "Refused"
         [] ~arg.allowUnsignedNotify /\ ~havetsig -> "Refused"
         [] havetsig /\ ExpectedKey(z) # NoKey /\ ExpectedKey(z) # p.key -> "Refused"
         [] di = Unknown /\ arg.autosecondary -> "auto"
         [] di = Unknown -> "Refused"
         [] p.remote \in TrustedProxies /\ di.primaries = {} -> "Refused"
         [] arg.primary /\ IsPrimaryType(di) /\ p.remote \notin TrustedProxies -> "Refused"
         [] OTHER -> "accept"

\* Mutant: the domain lookup (and so tryAutoPrimary) comes before the
\* sender verification.
processNotifyAutoFirst(p) ==
    LET z == p.zone
        havetsig == p.key # NoKey
        di == domains[z]
    IN CASE ~arg.secondary /\ ~arg.forwardNotify -> "Refused"
         [] di = Unknown /\ arg.autosecondary -> "auto"
         [] p.remote \notin AllowNotifyFrom /\ ~havetsig -> "Refused"
         [] ~arg.allowUnsignedNotify /\ ~havetsig -> "Refused"
         [] havetsig /\ ExpectedKey(z) # NoKey /\ ExpectedKey(z) # p.key -> "Refused"
         [] di = Unknown -> "Refused"
         [] p.remote \in TrustedProxies /\ di.primaries = {} -> "Refused"
         [] p.remote \in TrustedProxies -> "accept"
         [] arg.primary /\ IsPrimaryType(di) -> "Refused"
         [] p.remote \notin di.primaries -> "Refused"
         [] OTHER -> "accept"

\* processNotify up to its return: "auto" is the call of tryAutoPrimary,
\* "accept" the relay and the queued secondary check.
processNotify(p) ==
    LET z == p.zone
        havetsig == p.key # NoKey
        di == domains[z]
    IN CASE ~arg.secondary /\ ~arg.forwardNotify -> "Refused"
         [] p.remote \notin AllowNotifyFrom /\ ~havetsig -> "Refused"
         [] ~arg.allowUnsignedNotify /\ ~havetsig -> "Refused"
         [] havetsig /\ ExpectedKey(z) # NoKey /\ ExpectedKey(z) # p.key -> "Refused"
         [] di = Unknown /\ arg.autosecondary -> "auto"
         [] di = Unknown -> "Refused"
         [] p.remote \in TrustedProxies /\ di.primaries = {} -> "Refused"
         [] p.remote \in TrustedProxies -> "accept"
         [] arg.primary /\ IsPrimaryType(di) -> "Refused"
         [] p.remote \notin di.primaries -> "Refused"
         [] OTHER -> "accept"

-----------------------------------------------------------------------------
\* What an idle worker's pkt holds.
NoPacket == CHOOSE p \in Packets : TRUE

Init ==
    /\ arg \in Settings
    /\ domains = InitDomains
    /\ domainmetadata = InitMetadata
    /\ zoneCache = {z \in Zones : InitDomains[z] # Unknown}
    /\ pc = [w \in Workers |-> "idle"]
    /\ pkt = [w \in Workers |-> NoPacket]
    /\ queue = <<>>
    /\ checkRequests = {} /\ relayed = {}
    /\ received = 0
    /\ replies = {} /\ accepted = {} /\ created = {}

Reply(p, rcode) == replies' = replies \cup {[pkt |-> p, rcode |-> rcode]}

\* A worker finishes tryAutoPrimarySynchronous with rcode.  A handler
\* thread sends it; the Communicator discards it (the client already got
\* its answer when the request was queued).
Finish(w, rcode) ==
    /\ pc' = [pc EXCEPT ![w] = "idle"]
    /\ pkt' = [pkt EXCEPT ![w] = NoPacket]
    /\ IF w \in Handlers THEN Reply(pkt[w], rcode) ELSE UNCHANGED replies

Receive(h, p) ==
    /\ pc[h] = "idle"
    /\ received < MaxPackets
    /\ received' = received + 1

\* doQuestion answers or drops the packet without reaching processNotify.
Dispatch(h, p) ==
    /\ Receive(h, p)
    /\ doQuestion(p) # "Notify"
    /\ IF doQuestion(p) = "drop" THEN UNCHANGED replies ELSE Reply(p, doQuestion(p))
    /\ UNCHANGED <<arg, domains, domainmetadata, zoneCache, pc, pkt, queue, checkRequests, relayed, accepted, created>>

\* opcodeNotify replies with processNotify's refusal.
RefuseNotify(h, p) ==
    /\ Receive(h, p)
    /\ doQuestion(p) = "Notify"
    /\ processNotify(p) = "Refused"
    /\ Reply(p, "Refused")
    /\ UNCHANGED <<arg, domains, domainmetadata, zoneCache, pc, pkt, queue, checkRequests, relayed, accepted, created>>

\* The NOTIFY passed every check: relay it, queue a secondary check, reply 0.
AcceptNotify(h, p) ==
    /\ Receive(h, p)
    /\ doQuestion(p) = "Notify"
    /\ processNotify(p) = "accept"
    /\ relayed' = IF arg.forwardNotify THEN relayed \cup {p.zone} ELSE relayed
    /\ checkRequests' = IF arg.secondary THEN checkRequests \cup {p.zone} ELSE checkRequests
    /\ accepted' = accepted \cup {p}
    /\ Reply(p, "NoError")
    /\ UNCHANGED <<arg, domains, domainmetadata, zoneCache, pc, pkt, queue, created>>

\* tryAutoPrimary over UDP: addTryAutoPrimaryRequest, then return 0.
QueueAutoPrimary(h, p) ==
    /\ Receive(h, p)
    /\ doQuestion(p) = "Notify"
    /\ processNotify(p) = "auto"
    /\ ~p.tcp
    /\ queue' = Append(queue, p)
    /\ Reply(p, "NoError")
    /\ UNCHANGED <<arg, domains, domainmetadata, zoneCache, pc, pkt, checkRequests, relayed, accepted, created>>

\* tryAutoPrimary over TCP: run tryAutoPrimarySynchronous on this thread.
StartAutoPrimary(h, p) ==
    /\ Receive(h, p)
    /\ doQuestion(p) = "Notify"
    /\ processNotify(p) = "auto"
    /\ p.tcp
    /\ pc' = [pc EXCEPT ![h] = "resolve"]
    /\ pkt' = [pkt EXCEPT ![h] = p]
    /\ UNCHANGED <<arg, domains, domainmetadata, zoneCache, queue, checkRequests, relayed, replies, accepted, created>>

\* The Communicator takes the oldest queued request and runs
\* tryAutoPrimarySynchronous on it.
TakeAutoPrimaryRequest ==
    /\ pc[Comm] = "idle"
    /\ queue # <<>>
    /\ pkt' = [pkt EXCEPT ![Comm] = Head(queue)]
    /\ queue' = Tail(queue)
    /\ pc' = [pc EXCEPT ![Comm] = "resolve"]
    /\ UNCHANGED <<arg, domains, domainmetadata, zoneCache, checkRequests, relayed, received, replies, accepted, created>>

\* Mutant: allow-unsigned-autoprimary is not consulted.
ResolveSkipsUnsignedCheck(w) ==
    LET p == pkt[w] IN
    /\ pc[w] = "resolve"
    /\ \/ Finish(w, "ServFail")
       \/ /\ AutoRemote(p) \notin AutoPrimaries
          /\ Finish(w, "Refused")
       \/ /\ AutoRemote(p) \in AutoPrimaries
          /\ pc' = [pc EXCEPT ![w] = "create"]
          /\ UNCHANGED <<pkt, replies>>
    /\ UNCHANGED <<arg, domains, domainmetadata, zoneCache, queue, checkRequests, relayed, received, accepted, created>>

\* The resolver's getSoaSerial and NS lookup at the primary, then the
\* unsigned-autoprimary policy and autoPrimaryBackend.  The lookups throw
\* (ResolverException: timeout, error rcode), answer without NS, or answer.
Resolve(w) ==
    LET p == pkt[w] IN
    /\ pc[w] = "resolve"
    /\ \/ Finish(w, "ServFail")
       \/ /\ ~arg.allowUnsignedAutoprimary /\ p.key = NoKey
          /\ Finish(w, "Refused")
       \/ /\ arg.allowUnsignedAutoprimary \/ p.key # NoKey
          /\ AutoRemote(p) \notin AutoPrimaries
          /\ Finish(w, "Refused")
       \/ /\ arg.allowUnsignedAutoprimary \/ p.key # NoKey
          /\ AutoRemote(p) \in AutoPrimaries
          /\ pc' = [pc EXCEPT ![w] = "create"]
          /\ UNCHANGED <<pkt, replies>>
    /\ UNCHANGED <<arg, domains, domainmetadata, zoneCache, queue, checkRequests, relayed, received, accepted, created>>

\* createSecondaryDomain with the primary's address.  A row for the name
\* already exists when another worker created it meanwhile: the insert
\* throws, as does any database error.
CreateSecondaryDomain(w) ==
    LET p == pkt[w] IN
    /\ pc[w] = "create"
    /\ \/ /\ domains[p.zone] = Unknown
          /\ domains' = [domains EXCEPT ![p.zone] =
                            [kind |-> "secondary", primaries |-> {AutoRemote(p)}]]
          /\ created' = created \cup {[zone |-> p.zone, pkt |-> p]}
          /\ pc' = [pc EXCEPT ![w] = "info"]
          /\ UNCHANGED <<pkt, replies>>
       \/ /\ domains[p.zone] # Unknown \/ BackendFaults
          /\ Finish(w, "ServFail")
          /\ UNCHANGED <<domains, created>>
    /\ UNCHANGED <<arg, domainmetadata, zoneCache, queue, checkRequests, relayed, received, accepted>>

\* Mutant: the key-name test before setDomainMetadata is missing, so an
\* unsigned bootstrap stores the empty key name.
AddToZoneCacheStoresUnsigned(w) ==
    LET p == pkt[w] IN
    /\ pc[w] = "info"
    /\ \/ /\ zoneCache' = zoneCache \cup {p.zone}
          /\ pc' = [pc EXCEPT ![w] = "meta"] /\ UNCHANGED <<pkt, replies>>
       \/ /\ BackendFaults
          /\ Finish(w, "ServFail")
          /\ UNCHANGED zoneCache
    /\ UNCHANGED <<arg, domains, domainmetadata, queue, checkRequests, relayed, received, accepted, created>>

\* getDomainInfo, then g_zoneCache.add; an unsigned NOTIFY ends here.
\* getDomainInfo failing answers ServFail and leaves the new row in place.
AddToZoneCache(w) ==
    LET p == pkt[w] IN
    /\ pc[w] = "info"
    /\ \/ /\ zoneCache' = zoneCache \cup {p.zone}
          /\ IF p.key = NoKey
               THEN Finish(w, "NoError")
               ELSE pc' = [pc EXCEPT ![w] = "meta"] /\ UNCHANGED <<pkt, replies>>
       \/ /\ BackendFaults
          /\ Finish(w, "ServFail")
          /\ UNCHANGED zoneCache
    /\ UNCHANGED <<arg, domains, domainmetadata, queue, checkRequests, relayed, received, accepted, created>>

\* setDomainMetadata(AXFR-MASTER-TSIG) with the NOTIFY's key name; its
\* false is ignored, its exception answers ServFail.  With BackendFaults
\* any of its statements may fail.
SetTSIGMetadata(w) ==
    LET p == pkt[w]
        values == <<p.key>>
    IN
    /\ pc[w] = "meta"
    /\ \E done \in IF BackendFaults THEN 0..Len(values) + 1 ELSE {Len(values) + 1} :
          /\ domainmetadata' = BD!setDomainMetadataRows(p.zone, "AXFR-MASTER-TSIG", values, done)
          /\ Finish(w, IF BD!setDomainMetadataResult(values, done) = "thrown" THEN "ServFail" ELSE "NoError")
    /\ UNCHANGED <<arg, domains, zoneCache, queue, checkRequests, relayed, received, accepted, created>>

\* The zone cache as ZoneIndex specifies it: the backends serve a zone once
\* createSecondaryDomain stored it, and its writer is in flight until the
\* getDomainInfo + g_zoneCache.add step.
Hosted == {z \in Zones : domains[z] # Unknown}
Bootstrapping == {pkt[w].zone : w \in {v \in Workers : pc[v] = "info"}}
ZI == INSTANCE ZoneIndex WITH
        Ids <- {"id"}, NoZone <- "absent", MaxWrites <- 0,
        backend <- [z \in Zones |-> IF z \in Hosted THEN "id" ELSE "absent"],
        cache <- [z \in Zones |-> IF z \in zoneCache THEN "id" ELSE "absent"],
        busy <- Bootstrapping, writes <- 0

\* A refresh that rebuilds the cache from its own entries, dropping those
\* the backends no longer serve but never adding a new one.
RefreshZoneCacheFromCache ==
    /\ zoneCache' = zoneCache \cap Hosted
    /\ UNCHANGED <<arg, domains, domainmetadata, pc, pkt, queue, checkRequests, relayed,
                   received, replies, accepted, created>>

\* The periodic zone-cache refresh (AuthZoneCache::replace with the zones
\* of getAllDomains), taking any step the ZoneIndex specification allows.
RefreshZoneCache ==
    /\ zoneCache' \in SUBSET Zones
    /\ UNCHANGED <<arg, domains, domainmetadata, pc, pkt, queue, checkRequests, relayed,
                   received, replies, accepted, created>>
    /\ ZI!Refresh

\* Every packet of the bound is handled and every worker is idle.
Quiescent ==
    /\ received = MaxPackets /\ queue = <<>>
    /\ \A w \in Workers : pc[w] = "idle"
    /\ UNCHANGED vars

Next ==
    \/ \E h \in Handlers, p \in Packets :
          \/ Dispatch(h, p)
          \/ RefuseNotify(h, p)
          \/ AcceptNotify(h, p)
          \/ QueueAutoPrimary(h, p)
          \/ StartAutoPrimary(h, p)
    \/ TakeAutoPrimaryRequest
    \/ \E w \in Workers :
          \/ Resolve(w)
          \/ CreateSecondaryDomain(w)
          \/ AddToZoneCache(w)
          \/ SetTSIGMetadata(w)
    \/ RefreshZoneCache
    \/ Quiescent

Spec == Init /\ [][Next]_vars

\* The refresher thread runs replace() every zone-cache-refresh-interval.
FairSpec == Spec /\ WF_vars(RefreshZoneCache)

-----------------------------------------------------------------------------
(* Properties.                                                             *)

\* A NOTIFY gets past processNotify (it is relayed and queues a secondary
\* check) only if it carried a TSIG made with the secret the tsigkeys
\* table holds for its key name and algorithm, or came
\* unsigned from allow-notify-from with allow-unsigned-notify on; and only
\* from a primary of the zone or a trusted notification proxy, never for a
\* primary-type zone of a primary server unless through such a proxy.
NotifyAcceptedOnlyWhenAuthorised ==
    \A p \in accepted :
        /\ \/ Genuine(p)
           \/ p.key = NoKey /\ arg.allowUnsignedNotify /\ p.remote \in AllowNotifyFrom
        /\ \/ p.remote \in TrustedProxies
           \/ /\ p.remote \in domains[p.zone].primaries
              /\ ~(arg.primary /\ IsPrimaryType(domains[p.zone]))

\* A zone is created by the autoprimary bootstrap only for a NOTIFY that
\* passed the same sender checks, from an address autoPrimaryBackend
\* accepts, signed unless allow-unsigned-autoprimary is on, and for a name
\* not hosted at start; that address becomes its only primary.
AutoPrimaryOnlyWhenAuthorised ==
    \A c \in created :
        /\ \/ Genuine(c.pkt)
           \/ /\ c.pkt.key = NoKey /\ arg.allowUnsignedNotify /\ arg.allowUnsignedAutoprimary
              /\ c.pkt.remote \in AllowNotifyFrom
        /\ AutoRemote(c.pkt) \in AutoPrimaries
        /\ InitDomains[c.zone] = Unknown
        /\ domains[c.zone].primaries = {AutoRemote(c.pkt)}

\* The spec's rule on sender verification: a NOTIFY that is neither
\* TSIG-signed nor from an allow-notify-from address is answered Refused,
\* whatever the other settings, once the prologue has let it through.
UnsignedStrangerRefused ==
    \A r \in replies :
        (/\ doQuestion(r.pkt) = "Notify"
         /\ r.pkt.key = NoKey
         /\ r.pkt.remote \notin AllowNotifyFrom) => r.rcode = "Refused"

\* processNotify enforces the AXFR-MASTER-TSIG key the bootstrap stored:
\* once a zone was created for a NOTIFY signed with key k, a signed NOTIFY
\* for it is accepted only if signed with k.  (Unsigned NOTIFYs are left
\* out: allow-unsigned-notify accepts them by design.)
ZoneKeyBinding ==
    \A c \in created, p \in accepted :
        (c.zone = p.zone /\ c.pkt.key # NoKey /\ p.key # NoKey) => p.key = c.pkt.key

\* A zone the autoprimary bootstrap stored is eventually in g_zoneCache,
\* even when getDomainInfo failed after createSecondaryDomain (the NOTIFY
\* answered ServFail and its retries take the known-zone path, which never
\* adds it): the refresher's replace() picks it up from the backend.
\* No zone is ever dropped from the backend here, so this says each one
\* stored is cached from some point on.
CreatedZoneEventuallyCached == []<>(Hosted \subseteq zoneCache)
====
