# TLA+ models of the PowerDNS authoritative answer engine

This directory holds TLA+ specifications of the parts of this repository's
authoritative server whose behaviour is hard to test. It also holds the TLC
configurations that check them, and `PROJECT.json`. That file lists the
components, the runs, a mutant per property, and the map from every
definition to the source lines it models. It also lists findings and hazards.

## The system and how its parts interact

Sources are under `src/`. Those files are a subset of PowerDNS:

| Part | Source | What it does |
|---|---|---|
| Opcode dispatcher | `pdns/packethandler.cc` `doQuestion`, `opcode*` | Rejects malformed queries, checks TSIG, dispatches by opcode |
| Query resolution loop | `packethandler.cc` `opcodeQueryInner` | Runs passes of the answer synthesizer; at most 10 redirects, then SERVFAIL |
| Answer synthesizer | `packethandler.cc` `opcodeQueryInner2`, `tryReferral`, `tryWildcard`, `tryDNAME`, `tryAuthSignal`, `addCDS`, `addCDNSKEY`, `makeNXDomain`, `makeNOError` | One pass for the current target: getAuth, apex CDS/CDNSKEY, referral, by-name ANY lookup, wildcard, DNAME, RFC 9615 signaling, NXDOMAIN/NODATA |
| Wildcard matcher, referral and DNAME search | `getBestWildcard`, `getBestReferralNS`, `getBestDNAMESynth` | Walks from the target towards the apex |
| Denial-of-existence engine | `addNSECX`, `addNSEC`, `addNSEC3`, `emitNSEC*` | Builds NSEC/NSEC3 proofs for the modes the synthesizer asks for |
| Zone maintenance | `processNotify`, `tryAutoPrimarySynchronous` | NOTIFY checks; creates secondary zones for autoprimaries and adds them to the zone cache |
| Zone cache | `pdns/auth-zonecache.cc` | Sharded zone-name-to-id map. A periodic `replace()` runs concurrently with `add()`/`remove()` |
| Query cache | `pdns/auth-querycache.cc` | Sharded record cache with LRU eviction at `d_maxEntries`, and a shared entry gauge |
| Resolver | `pdns/resolver.cc` | UDP SOA and NS lookups used by zone maintenance |
| Backends | `modules/remotebackend`, `modules/geoipbackend`, `modules/bindbackend/binddnssec.cc` | Record stores behind `UeberBackend`: lookup cursors, transactions, shared GeoIP state, DNSSEC metadata |

Packet threads call the answer synthesizer, which reads the zone cache and the
query cache through the backends. Zone maintenance writes the zone cache while
a refresher thread replaces it. The TSIG gate and zone maintenance read TSIG
keys and AXFR-MASTER-TSIG metadata from the bind backend's DNSSEC database,
which `BindDNSSEC` models from `binddnssec.cc`. The record store's
`lookup`/`getAuth` and the generic DNSSEC key store are outside `src/`. The
models take them from the specification's contract for the record store
(marked `spec_modelled` in the map).

## Modules

| Module | Models | State (code) | Actions (code) |
|---|---|---|---|
| `ZoneCache` | `auth-zonecache.cc`, and `tryAutoPrimarySynchronous`'s cache update | `zmap` (`d_maps`), `statnumentries` (`zone-cache-size`), `replacePending`/`pendingUpdates`/`pendingHeld` (`d_pending` and its mutex), the refresher's `snapshot`/`newMaps`/`count`, per-zone writer pc `wpc` | `CreateSecondaryDomain`, `DeleteDomain`, `AddPending`/`RemovePending` (first critical section of `add`/`remove`), `AddToMap`/`RemoveFromMap` (second), `SetReplacePending`, `CollectZones`, `BuildNewMaps`, `ApplyPending`, `SwapShard`, `FinishReplace` |
| `QueryResolution` | `opcodeQueryInner` and `opcodeQueryInner2` with the helpers they call | `target`, `retargetcount`, `retargeted`, `qdomainzone`, `authSet`, `doSigs` (`queryState`), and the reply: `rrs`, `rcode`, `aa` | One action per branch of `opcodeQueryInner2`, in the code's order of early returns (`LeaveZone`, `RefuseNoAuthority`, `AnswerApexDNSSEC`, `AnswerApexSOA`, `RefuseRRSIG`, `TryReferral`, `DSNoData`, `TryWildcard`, `TryDNAME`, `SignalNoData` and `SignalAnswer` (`tryAuthSignal` returning true), `MakeNXDomain`, `FollowCNAME`, `AnswerRecords`, `UnauthEmpty`, `MakeNODATA`). The loop's three outcomes are `PassDone`, `Retarget` and `AbortChain` |
| `Denial` | `addNSECX`, `addNSEC`, `addNSEC3`, `getNSEC3Hashes`, `emitNSEC`, `emitNSEC3` | extends `QueryResolution`; adds `nsec3param` (the zone's NSEC3PARAM metadata: NSEC, NSEC3, narrow, opt-out), chosen at start-up and constant afterwards | the proofs are operators over the `addNSECX` requests the resolution makes: `addNSEC`/`addNSEC3` pick the covering and matching records through `BeforeAndAfterNames`/`BeforeAndAfterHashes`, and `emitNSEC`/`emitNSEC3` build them |
| `Notify` | `doQuestion`, `processNotify`, `tryAutoPrimary`, `tryAutoPrimarySynchronous`, `checkForCorrectTSIG` | the settings (`arg`), the backend's `domains` and the bind backend's `domainmetadata` table (AXFR-MASTER-TSIG rows), `zoneCache`, each worker's `pc` and `pkt`, the Communicator's autoprimary `queue`, and histories of replies, accepted NOTIFYs and created zones | `Dispatch` (every early return of `doQuestion`), `RefuseNotify`/`AcceptNotify` (`processNotify`'s checks in the code's order), `QueueAutoPrimary` (UDP) and `StartAutoPrimary` (TCP), `TakeAutoPrimaryRequest`, then the bootstrap's steps `Resolve`, `CreateSecondaryDomain`, `AddToZoneCache`, `SetTSIGMetadata`, each of which may fail |
| `BindDNSSEC` | `modules/bindbackend/binddnssec.cc`: `setupDNSSEC`, `getDomainMetadata`, `setDomainMetadata`, `getTSIGKey` | `domainmetadata` and `tsigkeys`, the two tables of the `dnssec-db` SQLite file, as sequences of rows | operators, instantiated by `Notify`: `getDomainMetadata` and `getTSIGKey` return the call's result; `setDomainMetadataRows` is the table after the delete and the inserts, of which the first `done` statements succeeded |
| `RemoteBackend` | `modules/remotebackend/remotebackend.cc` | per object: `pc` (the method blocked in `recv`), `dIndex`/`dResult` (`d_index`, `d_result`), `dTrxid` (`d_trxid`), the connection's two FIFOs `toRemote`/`toBackend`; ghosts `sent`, `served`, `got`, `ends` | `Lookup` (`lookup`/`APILookup`/`list`), `StartTransaction`, `FeedRecord`, `EndTransaction` (commit, abort), and by group the methods that keep nothing of the answer: `MetadataCall` (domain metadata), `KeyCall` (DNSSEC keys, `getTSIGKey`; only with `d_dnssec`), `ZoneCall` (domain info, `setNotified`, autoprimary, secondary creation), `ListingCall` (`directBackendCmd`, searches, domain lists, `setStale`/`setFresh`), each through `send` (which may fail and `build` a new connector); `Remote` (the remote answers the oldest request); `Recv` (`Connector::recv` and the method's use of the answer, or `recvFails`: rebuild and throw); `get` |
| `ZoneIndex` | what the zone cache promises (abstract) | `backend`, `cache`, `busy` (zones whose writer is in a call), `writes` | `Write` (a backend change starting an `add`/`remove`), `Publish` (the call taking effect and returning), `Refresh` (any map whose zones hold the backend's id, or for a busy zone the id shown before) |
| `GeoIP` | `modules/geoipbackend/geoipbackend.cc`: constructor, destructor, `initialize`, `reload`/`rediscover`, `lookup`, `get` | `rc` (`s_rc`), `live` (constructed instances), `files` (`s_geoip_files`: the configuration it was opened from and whether all, some or none of its databases are open), `domains` (`s_domains`), per instance `gfmt` (`d_global_mapping_lookup_formats`) and `result` (whether `d_result` holds records), and `cfg`, the configuration on disk | `Construct`, `Destroy`, `Reload` (each holding the write lock for its whole body, so one step each; `Initialize` throws at the databases, the YAML or the global formats, leaving what was assigned before), `Lookup`, `Get`, `EditConfig` (the operator changing the files) |
| `GeoIPLoad` | what the GeoIP backend promises (abstract) | `cfg`, `served`, `users` | `Open` (the first one loads or fails), `Close` (the last one drops the domains), `Reload` (serves the configuration on disk when it loads, else keeps the old one), `Edit` |
| `Resolver` | `resolver.cc` as `tryAutoPrimarySynchronous` uses it: `Resolver()`, `sendResolve`, `resolve`, `parseResult`, `getSoaSerial` | `pc` (socket opened, SOA query, NS query, each sent or waited on), `qid` (the id `sendResolve` drew), `queries` (at the remote), `inflight` and `sockbuf` (datagrams on the way and in the socket's receive buffer, oldest first), `soa` and `ns` (the datagrams the serial and the NS set came from), `outcome` | `Open` (binding may fail with `PDNSException`), `sendResolve(t)`, `Timeout` (`waitForData` returning 0), `ReceiveWrongPeer`, `ReceiveMalformed` (`MOADNSParser` throwing), `ReceiveSOA` (`getSoaSerial`), `ReceiveNS` (`resolve` and the `haveNS` check); the environment's `RemoteAnswers`, `Deliver` (possibly duplicating), `Lose`, `Stray` |
| `QueryCache` | `auth-querycache.cc` | `cache` (each shard's sequenced index, front first, entries `[name, live]`), `gauge` (`query-cache-size`, modulo `GaugeModulus`), `lock` (a shard write lock held across insert's two steps), per thread `pc`, `arg`, `seen` (the gauge value insert compared), `delcount`, `next` (the shard loop index) | `InsertLocked` (try_write_lock; replace and move to back, or append and read the gauge), `InsertCount` (pop_front at capacity, else increment), `PurgeStoreZero` and `PurgeShard` (`purge()`), `PurgeExact`, `PurgeSuffixStart`/`PurgeSuffixShard` (`purge(match$)`), `CleanupIfNeeded`/`PruneShard` (`cleanup()`), `SubtractErased` (the gauge decrement after the locks are released), `Expire` (time passing an entry's ttd) |

More on `QueryResolution`:
- **Names and queries.** Names are label sequences: `chopOff` is `Tail`, and `isPartOf` is a suffix test. `qname` and `qtype` are the query.
- **Zone data.** `zoneData` is the backend's content. It is chosen in `Init` among every well-formed subset of a small universe of candidate records.
- **Rectification.** The chosen data is then rectified the way the record store serves it: auth flags below delegation points, ENT placeholders, and an SOA at each apex.
- **Denial proofs.** They are recorded as `addNSECX` requests `[mode, target, wildcard]` in `denials`. The proofs themselves are the `Denial` module's.
- **Key store.** `DNSSECKeeper` is not in `src/`. What the synthesizer asks of it is constants: the signaling, presigned and NSEC3-narrow zones, `PUBLISH-CDS` and `PUBLISH-CDNSKEY` per zone, the zones with a published entry-point key, and `direct-dnskey`. `AddCDSX` is `addCDS`/`addCDNSKEY`: nothing, the delete record, or one record per published key (its data names the key's zone) plus, with `direct-dnskey`, the zone's own records. One digest algorithm stands for the `PUBLISH-CDS` list.
- **Signaling.** `tryAuthSignal` takes the child from the target (`makeRelative`, then `chopOff`) and answers only if `getAuth` finds that exact zone. The copies are part of the signaling zone's answer, owned by `p.qdomain`.

MC modules: `MC_ZoneCache`, `MC_QueryResolution`, `MC_QueryChain`, `MC_QueryCache` (two cfgs; the variable `ops`, chosen in `Init` from the constant `OpsSettings`, is the mix of calls the threads make), `MC_GeoIP`, `MC_Denial`, `MC_Notify` (three cfgs). `RemoteBackend` and `Resolver` need no MC module: their cfgs give the constants directly.

Settings fixed at start-up (`::arg()` values, the zone's NSEC3PARAM) are a variable chosen in `Init` from a constant set of configurations and never changed. One run then covers every configuration, and the properties hold in each.

More on `Notify`:
- Two handler threads and the Communicator share the backend and the zone cache. The zone cache is a set here; its concurrency is the `ZoneCache` module's subject.
- The zone-cache refresher is composed in through `ZoneIndex`, the specification `ZoneCache` is shown to implement (`zc_replace`). `RefreshZoneCache` may take any `Refresh` step of an instance of `ZoneIndex` whose backend is the zones `Notify` stores and whose busy zones are those between `createSecondaryDomain` and `g_zoneCache.add`.
- A packet is a record of the fields `doQuestion` and `processNotify` test: header bits, EDNS version and cookie, opcode, TSIG (key name, algorithm, and `mac`, the secret the MAC was made with), zone, sender, transport, and an ECS address from a trusted proxy.
- The backend's DNSSEC store is the bind backend's (`BindDNSSEC`, instantiated as `BD`). `checkForCorrectTSIG` calls `getTSIGKey` with the packet's key name and algorithm and an empty secret, and denies when it answers false. `validateTSIG` is not under `src/`: the MAC validates exactly when it was made with the secret handed to it. processNotify's expected key is the first AXFR-MASTER-TSIG row `getDomainMetadata` returns. The bootstrap's `setDomainMetadata` deletes and then inserts; with `BackendFaults` either statement may throw. `Genuine(p)`, used by the properties, says the packet was signed with the secret the table stores for its name and algorithm.
- The resolver's SOA and NS lookups for an autoprimary are a step that may fail; which remote the NS names resolve to is the packet's sender (`AutoRemote`).

More on `Resolver`:
- Each datagram is a record of what the code tests: the sender, the id, the question type, the rcode, the answer's record types, and whether it parses. Every datagram names the queried domain with one question, so `parseResult`'s qname and qdcount checks never fire. The serial and the records' contents are left out.
- The remote answers each query it received, with any rcode, and with rcode 0 with or without records of the type asked. The network loses, duplicates and reorders answers; another peer may send to the port. None of these is fair: the remote may fall silent.
- A `ResolverException` ends the bootstrap with ServFail. Two exceptions escape `tryAutoPrimarySynchronous`'s `catch(ResolverException&)`, and the model ends those with the outcome `thrown`. `MOADNSException` from a datagram that does not parse reaches `doQuestion`, which answers ServFail. `PDNSException` from `makeQuerySocket`, when nine random ports fail to bind, is rethrown by `doQuestion` ("we WANT to die").

More on `GeoIP`:
- A configuration is a record of what `initialize()` tests: whether the databases open (`dbs`), whether the YAML parses (`yaml`), the global `mapping_lookup_formats` (absent, valid, or using the `%mp` placeholder that `validateMappingLookupFormats` rejects), and the domains with their own formats. Records, services and netmasks are left out: no property tells them apart.
- `s_domains` is a set of `[name, fmt]`: the formats a domain's `%mp` lookups will use.

Refinement. Two modules are checked against an abstract specification with `INSTANCE ... WITH`:
- `ZoneCache` implements `ZoneIndex` with `cache <- zmap` and `busy <- {z : wpc[z] # "idle"}`. The steps of `add()`/`remove()` before their second critical section, and all of `replace()` but its shard swaps, are stuttering steps of `ZoneIndex`.
- `GeoIP` should implement `GeoIPLoad` with `served <- domains` and `users <- rc`. A failed constructor or reload changes only what the abstract state does not show (the databases, an instance's formats), so it is a stuttering step.

More on `RemoteBackend`:
- The connector and the remote process are not in `src/`. A connection is a pair of FIFO channels, and `build()` replaces both, losing whatever was in flight. The remote answers each request it reads, in order, with any result (true, false, or for a lookup any array of up to `MaxRows` rows, some possibly missing a field).
- The caller (`UeberBackend`, the zone-transfer code) may call any method whenever the object is idle. It feeds records only inside a transaction it started.
- `d_trxid` is `time()`. Only whether it is -1 matters to the object, so the time is one value.
- A request of the other methods names its group, not the method: their answers are parsed into the caller's arguments, and a false result or a parse error reaches only the caller. What matters to the object is that each one goes through `send()` and `recv()`, and so takes part in every interleaving of failures and late answers.
- Observation, not checked by a run: `get()` reads a row with `stringFromJson`, which throws when qtype, qname or content is missing, before `d_index` moves (line 292). `d_index` is reset only when `get()` passes the last row, so the object then refuses every later lookup, `APILookup` or `list` with "Attempt to lookup while one running", and every `get()` throws on the same row. The specification lets a second lookup fail only when the caller issued it before consuming the first one's rows. `LookupRefusedOnlyWhileRowsPending` in `RemoteBackend.tla` states the rule; adding it as an INVARIANT to `RemoteBackend.cfg` makes TLC find it violated in a few steps.
- Observation, not checked by a run: `setTSIGKey`, `deleteTSIGKey` and `getTSIGKeys` (lines 588, 602, 616) call `connector->send` and `connector->recv` directly instead of `this->send` and `this->recv`. A receive that fails there (a timeout, say) throws from `Connector::recv` without `connector.reset()` and `build()`. The late answer then stays on the connection, and the next method of that object reads it as its own answer: every later call on the object is answered one request behind. These three methods are left out of the model. For that reason no run checks that every answer matches its request: with them left out such a property would hold only by the omission, and with them in it fails. `rb_backend` checks the cursor and the transaction protocol, on which a stale answer has no effect the properties see.

## Runs

| Run | What it checks | Result |
|---|---|---|
| `zc_replace` | `ImplementsZoneIndex`: the sharded cache refines the atomic zone index. Once a writer's `add()`/`remove()` returned, `getEntry` agrees with the backend whatever step `replace()` is at, and while it is in flight a lookup sees the old id or the new one, never the old one again after the new. `GaugeMatchesEntries`: at quiescence the `zone-cache-size` gauge equals the number of cached zones. | pass, 189k states |
| `qr_answers` | Over 1728 well-formed zone-data sets × 60 questions (10 names × A, CNAME, DS and ANY; SOA and RRSIG at a few names; 14 CDS, CDNSKEY and signaling questions), judged against RFC semantics stated independently of the code: `NXDomainOnlyForNonexistentNames`, `WildcardFromClosestEncloser` (RFC 4592), `DelegatedNamesGetReferrals`, `DSAtDelegationAnsweredByParent` (RFC 4035), `NoForeignDataWhenNotResolvingAcrossZones`, and `SignalAnswersMirrorChild` (RFC 9615: the CDS/CDNSKEY at `_dsboot.<child>._signal.ns` are exactly the RRset the child's apex serves, owned by that name, and a `_dsboot` name for a name that is not a hosted zone is NXDOMAIN) | pass, 412k states, about 1 min |
| `qr_chain` | `RedirectLimit`: chains of 0–11 CNAMEs and a CNAME loop; 10 redirects are answered with every CNAME, 11 and loops are SERVFAIL with an empty reply. `ResolutionTerminates` | pass |
| `qc_calls` | Two threads run one of two call mixes: `insert`, `purgeExact`, `purge(match$)` and `cleanup`; or `insert` and `purge()`. `GaugeMatchesEntriesWithoutPurge`: in the first mix, whenever no call is in progress the gauge equals the entry count. `CapacityBound` (first mix): beyond the inserts racing in other shards, the entries never exceed `d_maxEntries`. The second mix fires `purge()` against inserts for the gauge and capacity checks of the first and for `qc_purge_race` | pass, 1.6M states, about 1 min |
| `qc_purge_race` | `GaugeMatchesEntries` with `purge()` among the calls | violation (a `code_bug`, `auth-querycache.cc:162`). `purge()` stores 0 before it clears the shards. An insert counted in between is then cleared without a decrement. A `purgeExact` that erased before the reset subtracts after it, and the gauge wraps to 2^64−1 (15 with the 4-bit model gauge, in 6 steps). From then on every new insert evicts, and into an empty shard it evicts itself, so the cache stays empty until the next `purge()`. The same reset breaks `CapacityBound`, which is why both are stated for the mix without `purge()` in `qc_calls` |
| `geo_reload` | `ImplementsAtomicLoad`: two instances, four configurations (good, global `%mp` formats, databases failing, YAML failing) | violation (a `code_bug`, `geoipbackend.cc:432`), in 5 steps: load, edit to `%mp`, failed reload, edit back, reload. `initialize()` assigns the global formats before validating them, `reload()` swallows the exception, and the member is never reset, so the next good reload gives `geo.example` the rejected `%mp`, on which `format2str` recurses without end. With no global formats in any configuration the refinement holds |
| `dn_proofs` | Zones signed with NSEC, with NSEC3 (opt-out in the parent zone) or with NSEC3 narrow. `DenialProofsComplete`: every denial the resolution asks for carries the records a validator needs (RFC 4035 5.4, RFC 5155 8: closest encloser, next closer, wildcard, opt-out DS proof). `DenialRecordsTruthful`: no NSEC or NSEC3 denies a name or type that exists | pass, 122k states |
| `nt_notify` | Two handlers and the Communicator, up to three packets, four server configurations, failing resolver and backend calls. `NotifyAcceptedOnlyWhenAuthorised`, `AutoPrimaryOnlyWhenAuthorised` (a zone is created only for a valid key, or for an allowed unsigned sender, from a listed autoprimary, for a zone not hosted before, with that primary), `UnsignedStrangerRefused`, `CreatedZoneEventuallyCached` (a zone the bootstrap stored is in the zone cache from some point on, also when `getDomainInfo` failed after `createSecondaryDomain` and retried NOTIFYs take the known-zone path) | pass, 153k states |
| `nt_keybinding` | `ZoneKeyBinding`: a signed NOTIFY for a zone bootstrapped with key k is accepted only if signed with k. Unsigned NOTIFYs are left out: `allow-unsigned-notify` accepts them by design | violation (`spec_code_divergence`, `packethandler.cc:1175`), in five steps: the bootstrap for a k1-signed NOTIFY runs `createSecondaryDomain`, and before its `setDomainMetadata` another handler accepts a NOTIFY for the zone signed with k2. If `setDomainMetadata` then fails, the zone never gets an expected key (hazard at line 1178; not in this trace) |
| `nt_forged_tsig` | `NotifyAcceptedOnlyWhenAuthorised`, with one more packet: a NOTIFY for zk through the trusted proxy naming k1 with hmac-md5 (the table holds k1 as hmac-sha256 only), its MAC made with the empty secret | violation (`spec_code_divergence`, `binddnssec.cc:466`), in one step: `getTSIGKey` answers true when no row of the name has the algorithm, leaving the secret empty, so `checkForCorrectTSIG` validates the MAC with the empty secret and the NOTIFY is accepted. Section 4.6 of the specification says an unknown key or an algorithm mismatch fails. With `getTSIGKey` answering false when nothing matched, the same configuration passes (160k states). This rests on `validateTSIG` accepting a MAC made with the secret it is given, empty or not |
| `rb_backend` | Up to eight calls with failing sends, timed-out receives, late answers, false results and malformed rows. `CursorDeliversLookupInOrder`: `get()` returns the lookup's rows in order and resets the cursor only after the last. `TransactionEndedOnce`: the remote hears a transaction's end at most once, even when the caller aborts after a commit. The metadata, key, zone and listing methods take part in every interleaving | pass, 75k states |
| `rs_bootstrap` | The bootstrap's SOA and NS lookups on one socket: two ids (so the NS query can draw the SOA query's), a stray datagram from another peer, a duplicated delivery, lost answers, `Refused`, malformed datagrams, socket failures. `AnswersFromRemote`: the serial and the NS set the bootstrap goes on with come from the claimed primary's answers to its SOA and NS queries. This holds although a duplicated SOA answer with a colliding id is accepted as the NS result, since `parseResult` never compares the type; that result holds no NS record. `ResolutionEnds`: the lookups end, whatever the remote and the network do | pass, 4.9k states |

For every property of a passing run, `PROJECT.json` names a mutant: a
plausible bug in a mapped definition that makes TLC find the property
violated. Examples:
- a wildcard walk without the existing-ancestor check;
- a referral search that probes only the target;
- the DS referral tried before the DS NODATA case;
- the zone-boundary check after `getAuth` dropped;
- the redirect limit cut one early;
- the loop counter not incremented;
- a pending update not recorded (breaks the zone-index refinement);
- the gauge counted on a replace of an existing entry;
- the next-closer name taken as the closest encloser;
- processNotify's primaries check dropped;
- the bootstrap storing AXFR-MASTER-TSIG for an unsigned NOTIFY;
- a refresh that rebuilds the zone cache from its own entries;
- the NS answer read without the check of the sender's address;
- a `waitForData` with no timeout;
- `get()` ending the cursor one row early;
- commit not clearing `d_trxid`;
- `tryAuthSignal` without the `zone_sd.zonename != zone` check.

### Bounds and why they are enough

- **`MC_ZoneCache`.**
  - Model: 3 zones over 2 shards (two zones share a shard), 2 zone ids, and at most 2 backend writes per behaviour.
  - Interleavings covered: one write lands before `setReplacePending`, during collection, during replay and during the swap, and on a zone in the same shard or in the other shard.
  - What 3 writes would add: the case of one zone written twice during one refresh. It costs 1.9M states and 2.5 minutes for no new interleaving of the protocol.
- **`MC_QueryResolution`.** The candidate records are chosen to put one of each construct the synthesizer distinguishes on the walks it makes:
  - a CNAME chain and a CNAME loop (`a` and `x.b`);
  - wildcards at the apex and one level down (`*.example`, `*.b.example`), one of them a CNAME;
  - an ENT (`b.example` when only `x.b` or `*.b` exists);
  - an unhosted delegation (`del`), with a DS and glue, and a stale unrectified glue record once the delegation is gone;
  - a hosted child zone (`sub.example`), reached by a CNAME;
  - a DNAME into another hosted zone, whose rewrite of `q.y.d.example` exceeds the name-length bound (3 labels here, standing for 255 octets) and gives YXDOMAIN.

  - a signaling zone `_signal.ns` (secured, NSEC3 narrow, not presigned), queried at `_dsboot` names for the child (CDS made from its key, a CDNSKEY delete), for the parent (a stored CDS, `PUBLISH-CDNSKEY` set with no published key: NODATA), for `w.sub.example`, which lies in the child but is not a zone, and at a non-`_dsboot` name; the child's apex is queried too, so the apex path and the signaling path are compared on the same settings.

  The query names sit at, under and beside each of these. `other.` is presigned. SOA and RRSIG are asked only at the apex, one name below it and a name outside every zone: both branches come before any lookup by name, so other names add nothing.
- **`MC_QueryCache`.**
  - Model: four names over two shards, two per shard, so that same-shard calls serialise on the shard lock and other-shard calls race on the gauge. The purge match `example$` selects one name in each shard, so `purge(match$)` erases in both shards.
  - Capacity: `d_maxEntries` 2. With four names both an eviction and an overshoot by a racing insert are reachable.
  - Gauge: a 4-bit gauge. Wrapping is visible, and every comparison with `d_maxEntries` behaves as it does with 64 bits.
  - Concurrency: two threads. Every race here is between two calls.
  - Call mixes: two, chosen in `Init`. `purge()` is kept apart from the other purges and `cleanup()`, whose gauge arithmetic it breaks (`qc_purge_race`), so that each mix checks what holds of it.
- **`MC_GeoIP`.** Two instances, so that one is first and another is not; four configurations, one per way `initialize()` ends. A domain with valid formats of its own shows that they are kept whatever the global ones are.
- **`MC_QueryChain`.** It holds a chain of exactly 11 CNAMEs, so both sides of the limit are reached.
- **`MC_Denial`.**
  - Zones: a parent zone and a hosted child, with an ENT, wildcards at the apex and at the ENT, a wildcard CNAME, and a delegation with and without DS.
  - Hash: a stand-in for SHA-1 that an ASSUME shows injective, with no two hashes adjacent, on every name a proof can hash. Narrow mode's hash plus and minus one then never names an existing hash.
  - Configurations: the three NSEC3PARAM settings give each `addNSEC3` branch (narrow, opt-out, plain) and `addNSEC` in one run.
- **`MC_Notify`.**
  - Zones: one secondary with a primary and a stored key, one primary, one unknown. Remotes: the listed primary, a stranger, a trusted proxy.
  - Packets: 17 NOTIFYs over the zones, senders, TSIGs (none, either key signed with its secret, k1 signed with k2's secret), transports and ECS, plus one malformed packet per early return of `doQuestion`.
  - Concurrency: two handlers and the Communicator with at most 3 packets, so two bootstraps of one zone can race and a NOTIFY can arrive in the middle of a bootstrap.
  - Configurations: four, which switch each of `processNotify`'s settings-dependent checks and the unsigned autoprimary paths.
  - DNSSEC store: `dnssec-db` open, two keys of one algorithm, and zk's AXFR-MASTER-TSIG row. The passing run's packets are signed with a row's name and algorithm. The empty-secret forgery is added only in `nt_forged_tsig`: it breaks `NotifyAcceptedOnlyWhenAuthorised`, and the passing run checks what holds apart from it.
- **`Resolver`.** Two ids are enough for every id relation between the two queries and a datagram, equal or not. One stray and one duplicate put a foreign datagram and a stale answer ahead of the real one; a second of each only repeats a failure that has already ended the bootstrap.
- **`RemoteBackend`.** One object: objects share only the remote, which keeps no state here. Up to 3 rows of 2 kinds, with malformed rows, and 8 requests: a malformed row between two good ones, a lookup read to its end, several timed-out requests with late answers queued behind them, and a transaction with feeds, a commit and an abort, all in one behaviour. 4 rows give 555k states and no new case.

### Fairness

- `ZoneCache`: safety only; its properties are an invariant and the refinement of `ZoneIndex`, which has no fairness.
- `QueryCache`: safety only; its properties are invariants.
- `GeoIP`: safety only; its one property is the refinement of a specification without fairness.
- `QueryResolution`: weak fairness on `Next`. A query is handled to its end by one thread with no waiting inside the loop.
- `Notify`: weak fairness on `RefreshZoneCache` only. The refresher thread runs `replace()` every `zone-cache-refresh-interval`; handlers and clients get no fairness, since clients may stop sending.
- `Resolver`: weak fairness on the handler thread's steps only. `waitForData` returns when a datagram arrives or after three seconds, so a waiting thread always has a step. The remote and the network get no fairness.
- `Denial`, `Notify`'s safety properties, `RemoteBackend`: no fairness needed. When every worker has finished, a stuttering step (`Quiescent`) lets the behaviour stop without counting as a deadlock.

## What is not modelled, and why

- The following are not modelled in this round:
  - ALIAS expansion (delegated to the DNS proxy);
  - Lua records;
  - direct NSEC queries;
  - the apex DNSKEY and NSEC3PARAM synthesis (`addDNSKEY`, `addNSEC3PARAM`), which read the whole key set and the NSEC3 parameters of the key store;
  - mode 6 of the denial engine: `dn_proofs` has no signaling zone, and `qr_answers` does not compose `Denial`.
- Two observations about `tryAuthSignal` that no run reaches, since each needs a configuration the passing run must avoid and the run list has no slot left for a violation run:
  - The copies are named `p.qdomain` (line 1460, and `addCDS`/`addCDNSKEY`), not the target. After a CNAME into the signaling zone the child's CDS are owned by the CNAME's owner. `SignalAnswersMirrorChild` states the owner must be the target; `MC_QueryResolution` has no such CNAME.
  - A child that sets `PUBLISH-CDS` but has no published entry-point key, with `direct-dnskey` off, gets a mode-6 NODATA at its signaling name, while its apex falls through to the CDS records stored in the zone. The MC parent has `PUBLISH-CDNSKEY` set without a key but stores no CDNSKEY, so both answers are NODATA.
- The prologue of `opcodeQueryInner` (CHAOS, IXFR, qclass, any-to-tcp) and `doAdditionalProcessing` are left for the dispatcher module.
- The reply is a set of records. Duplicates and order within a section are not represented.
- `QueryCache`: the hit/miss statistics and `getCounts()`; the cleaning interval arithmetic of `cleanupIfNeeded()`, which only decides when a cleanup runs (a cleanup may start at any time in the model). `purgeLockedCollectionsVector` and `pruneLockedCollectionsVector` live in `cachecleaner.hh`, which is not in this repository; the model takes them as clearing each shard, or erasing the expired entries among the first tenth of it, under the shard's write lock.
- The zone cache's views and netmask trees are not modelled. They are swapped without a lock, which is a data race listed as a hazard.
- `Resolver` (`resolver.cc`): `tryGetSOASerial` and the sockets bound to explicit local addresses. Only the Communicator uses them, and it is not in `src/`. In `Notify`, the lookups remain one step that may fail; the `Resolver` module is the detail of that step.
- The specification's wildcard example (`a.b.example.` under `*.example.` reports `*.b.example.`) disagrees with the code, which reports `*.example.`, the RFC 4592 source of synthesis. `WildcardFromClosestEncloser` in `qr_answers` checks the code's behaviour; the example itself is not a run.
- `RemoteBackend`: the remote's own state. So the transaction-id collision between objects starting a transaction in the same second (`d_trxid` is `time()`, line 817), and a transaction left open at the remote after a lost commit, are hazards without properties. The TSIG-key methods that bypass `send()`/`recv()` are not modelled (see "More on `RemoteBackend`").
- GeoIP backend: the DNSSEC key functions (they write files in `dnssec-keydir` under the write lock), the metadata getters, `d_global_custom_mapping` (it takes the same path as the formats), and the zone ids, which are positions in `s_domains` (a hazard: an id handed out before a reload may name another domain after it). 
- `binddnssec.cc`: the key functions (`getDomainKeys`, `addDomainKey` and the activate/publish family, `removeDomainKey`), `getNSEC3PARAM`, `getAllDomainMetadata`, and `setTSIGKey`/`deleteTSIGKey`/`getTSIGKeys`. Nothing modelled here calls them; the API and `pdnsutil`, which do, are not in `src/`. The tsigkeys table is therefore a constant.
- The test fixture `test-remotebackend-unix.cc` and the generated dnsdist selector header have no behaviour to model.

## Plan for the modules still to come

Done: `ZoneCache` (with the `ZoneIndex` refinement), `QueryResolution`, `QueryCache`, `Denial`, `Notify` (with `BindDNSSEC`), `RemoteBackend`, `GeoIP` (with `GeoIPLoad`), `Resolver`.

1. `Resolver`: `tryGetSOASerial` with a modelled Communicator matching answers to its outstanding SOA checks.
2. A stateful remote for `RemoteBackend`, with two objects and a clock: the shared `d_trxid` and the transaction left open after a lost commit; and the TSIG-key methods that skip the connector rebuild, as a violation run of a property that every answer matches its request.
3. `GeoIP`: the zone ids by position, and the databases a lookup reaches after a failed reload.
4. `QueryResolution`: a CNAME into the signaling zone, as a violation run of `SignalAnswersMirrorChild` for the `p.qdomain` owner name; `addDNSKEY` and `addNSEC3PARAM` with a modelled key set; mode 6 in `Denial`.
5. Compose `Notify` with the full `ZoneCache` protocol rather than its `ZoneIndex` abstraction, once the state space allows.
5. The stale `d_doLua` memo across redirects and queries, as a multi-query extension of `QueryResolution`.
6. A refinement of `Denial` to an abstract "every proof covers the name" specification via `INSTANCE ... WITH`.
