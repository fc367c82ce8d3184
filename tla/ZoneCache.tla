------------------------------ MODULE ZoneCache ------------------------------
(***************************************************************************)
(* AuthZoneCache (src/pdns/auth-zonecache.cc): the sharded zone-name ->   *)
(* zone-id index.  With the zone cache enabled a miss means "no such       *)
(* zone", so the index must agree with the backends.                      *)
(*                                                                         *)
(* Actors:                                                                 *)
(*   - one writer per zone: a thread that changes the backends (creates   *)
(*     or deletes the zone) and then calls add() or remove();             *)
(*   - the refresher: setReplacePending(), getAllDomains() over the       *)
(*     backends, replace().                                               *)
(* add() and remove() take the pending mutex and a shard write lock in two *)
(* separate critical sections; replace() builds the new maps outside any   *)
(* lock, then, holding the pending mutex, replays the updates recorded     *)
(* while it collected and swaps the shards one by one.  Each critical      *)
(* section is one step; replace()'s pending section spans several steps,  *)
(* so the pending mutex is explicit.                                      *)
(***************************************************************************)
EXTENDS Naturals, FiniteSets, Sequences, SequencesExt

CONSTANTS
    Zones,        \* zone names
    Ids,          \* zone ids a backend may hand out
    Shards,       \* the d_maps vector
    ShardOf,      \* getMapIndex(): zone -> shard
    NoZone,       \* "not present" (model value)
    MaxWrites     \* bound on the number of zone creations and deletions

ASSUME NoZone \notin Ids
ASSUME ShardOf \in [Zones -> Shards]
ASSUME MaxWrites \in Nat

ZoneIds == Ids \cup {NoZone}

VARIABLES
    backend,          \* the zones the backends serve: zone -> id or NoZone
    zmap,             \* the union of the d_maps shards: zone -> id or NoZone
    statnumentries,   \* the zone-cache-size gauge
    replacePending,   \* d_pending->d_replacePending
    pendingUpdates,   \* d_pending->d_pendingUpdates
    pendingHeld,      \* TRUE while replace() holds the d_pending mutex
    rpc,              \* refresher: "idle", "collect", "build", "apply", "swap", "finish"
    snapshot,         \* zone_indices handed to replace()
    newMaps,          \* replace()'s local newMaps
    count,            \* replace()'s local count
    toSwap,           \* shards replace() has not swapped yet
    wpc,              \* writer of each zone: "idle", "pending", "map"
    wop,              \* writer's call: "add" or "remove"
    wid,              \* id passed to add()
    writes            \* zone creations and deletions so far

vars == <<backend, zmap, statnumentries, replacePending, pendingUpdates,
          pendingHeld, rpc, snapshot, newMaps, count, toSwap, wpc, wop, wid,
          writes>>

PendingUpdate == [zone : Zones, id : ZoneIds, insert : BOOLEAN]

Entries(m) == {z \in Zones : m[z] # NoZone}

TypeOK ==
    /\ backend \in [Zones -> ZoneIds]
    /\ zmap \in [Zones -> ZoneIds]
    /\ statnumentries \in Nat      \* an unsigned counter: below 0 it wraps
    /\ replacePending \in BOOLEAN
    /\ pendingUpdates \in Seq(PendingUpdate)
    /\ pendingHeld \in BOOLEAN
    /\ rpc \in {"idle", "collect", "build", "apply", "swap", "finish"}
    /\ snapshot \in [Zones -> ZoneIds]
    /\ newMaps \in [Zones -> ZoneIds]
    /\ count \in Nat
    /\ toSwap \subseteq Shards
    /\ wpc \in [Zones -> {"idle", "pending", "map"}]
    /\ wop \in [Zones -> {"add", "remove"}]
    /\ wid \in [Zones -> ZoneIds]
    /\ writes \in 0..MaxWrites

\* The server starts with the cache filled from the backends.
Init ==
    /\ backend \in [Zones -> ZoneIds]
    /\ zmap = backend
    /\ statnumentries = Cardinality(Entries(backend))
    /\ replacePending = FALSE
    /\ pendingUpdates = <<>>
    /\ pendingHeld = FALSE
    /\ rpc = "idle"
    /\ snapshot = [z \in Zones |-> NoZone]
    /\ newMaps = [z \in Zones |-> NoZone]
    /\ count = 0
    /\ toSwap = {}
    /\ wpc = [z \in Zones |-> "idle"]
    /\ wop = [z \in Zones |-> "add"]
    /\ wid = [z \in Zones |-> NoZone]
    /\ writes = 0

-----------------------------------------------------------------------------
(* Lookup *)

\* getEntry(): the zone id found in the zone's shard, or NoZone on a miss.
GetEntry(z) == zmap[z]

-----------------------------------------------------------------------------
(* Writers *)

\* tryAutoPrimarySynchronous(): createSecondaryDomain() and getDomainInfo()
\* give the new zone its id in the backend; g_zoneCache.add() follows.
CreateSecondaryDomain(z, id) ==
    /\ wpc[z] = "idle" /\ backend[z] = NoZone /\ writes < MaxWrites
    /\ backend' = [backend EXCEPT ![z] = id]
    /\ wpc' = [wpc EXCEPT ![z] = "pending"]
    /\ wop' = [wop EXCEPT ![z] = "add"]
    /\ wid' = [wid EXCEPT ![z] = id]
    /\ writes' = writes + 1
    /\ UNCHANGED <<zmap, statnumentries, replacePending, pendingUpdates,
                   pendingHeld, rpc, snapshot, newMaps, count, toSwap>>

\* A zone is deleted from the backends; g_zoneCache.remove() follows.
DeleteDomain(z) ==
    /\ wpc[z] = "idle" /\ backend[z] # NoZone /\ writes < MaxWrites
    /\ backend' = [backend EXCEPT ![z] = NoZone]
    /\ wpc' = [wpc EXCEPT ![z] = "pending"]
    /\ wop' = [wop EXCEPT ![z] = "remove"]
    /\ wid' = [wid EXCEPT ![z] = NoZone]
    /\ writes' = writes + 1
    /\ UNCHANGED <<zmap, statnumentries, replacePending, pendingUpdates,
                   pendingHeld, rpc, snapshot, newMaps, count, toSwap>>

\* The first critical section of add() and remove(): under the pending
\* mutex, record the update if a replace() is collecting.
RecordPendingUpdate(z) ==
    /\ wpc[z] = "pending" /\ ~pendingHeld
    /\ pendingUpdates' =
           IF replacePending
           THEN Append(pendingUpdates, [zone |-> z, id |-> wid[z],
                                        insert |-> wop[z] = "add"])
           ELSE pendingUpdates
    /\ wpc' = [wpc EXCEPT ![z] = "map"]
    /\ UNCHANGED <<backend, zmap, statnumentries, replacePending, pendingHeld,
                   rpc, snapshot, newMaps, count, toSwap, wop, wid, writes>>

\* (mutant) add() that never records its update for a running replace().
AddPendingDropped(z) ==
    /\ wop[z] = "add" /\ wpc[z] = "pending" /\ ~pendingHeld
    /\ wpc' = [wpc EXCEPT ![z] = "map"]
    /\ UNCHANGED <<backend, zmap, statnumentries, replacePending, pendingHeld,
                   pendingUpdates, rpc, snapshot, newMaps, count, toSwap, wop,
                   wid, writes>>

\* add(), first critical section.
AddPending(z) == wop[z] = "add" /\ RecordPendingUpdate(z)

\* remove(), first critical section.
RemovePending(z) == wop[z] = "remove" /\ RecordPendingUpdate(z)

\* (mutant) add() that counts an overwrite as a new entry.
AddToMapAlwaysCounts(z) ==
    /\ wpc[z] = "map" /\ wop[z] = "add"
    /\ zmap' = [zmap EXCEPT ![z] = wid[z]]
    /\ statnumentries' = statnumentries + 1
    /\ wpc' = [wpc EXCEPT ![z] = "idle"]
    /\ UNCHANGED <<backend, replacePending, pendingUpdates, pendingHeld, rpc,
                   snapshot, newMaps, count, toSwap, wop, wid, writes>>

\* add(), second critical section: insert or overwrite in the shard.
AddToMap(z) ==
    /\ wpc[z] = "map" /\ wop[z] = "add"
    /\ zmap' = [zmap EXCEPT ![z] = wid[z]]
    /\ statnumentries' = IF zmap[z] = NoZone THEN statnumentries + 1
                                             ELSE statnumentries
    /\ wpc' = [wpc EXCEPT ![z] = "idle"]
    /\ UNCHANGED <<backend, replacePending, pendingUpdates, pendingHeld, rpc,
                   snapshot, newMaps, count, toSwap, wop, wid, writes>>

\* remove(), second critical section: erase from the shard.
\* Mutant: the gauge is decremented whether or not the zone was cached.
RemoveFromMapAlwaysCounts(z) ==
    /\ wpc[z] = "map" /\ wop[z] = "remove"
    /\ zmap' = [zmap EXCEPT ![z] = NoZone]
    /\ statnumentries' = statnumentries - 1
    /\ wpc' = [wpc EXCEPT ![z] = "idle"]
    /\ UNCHANGED <<backend, replacePending, pendingUpdates, pendingHeld, rpc,
                   snapshot, newMaps, count, toSwap, wop, wid, writes>>

RemoveFromMap(z) ==
    /\ wpc[z] = "map" /\ wop[z] = "remove"
    /\ zmap' = [zmap EXCEPT ![z] = NoZone]
    /\ statnumentries' = IF zmap[z] # NoZone THEN statnumentries - 1
                                             ELSE statnumentries
    /\ wpc' = [wpc EXCEPT ![z] = "idle"]
    /\ UNCHANGED <<backend, replacePending, pendingUpdates, pendingHeld, rpc,
                   snapshot, newMaps, count, toSwap, wop, wid, writes>>

-----------------------------------------------------------------------------
(* Refresher *)

\* setReplacePending()
SetReplacePending ==
    /\ rpc = "idle" /\ ~pendingHeld
    /\ replacePending' = TRUE
    /\ pendingUpdates' = <<>>
    /\ rpc' = "collect"
    /\ UNCHANGED <<backend, zmap, statnumentries, pendingHeld, snapshot,
                   newMaps, count, toSwap, wpc, wop, wid, writes>>

\* getAllDomains() over the backends gives replace() its zone_indices.
CollectZones ==
    /\ rpc = "collect"
    /\ snapshot' = backend
    /\ rpc' = "build"
    /\ UNCHANGED <<backend, zmap, statnumentries, replacePending,
                   pendingUpdates, pendingHeld, newMaps, count, toSwap, wpc,
                   wop, wid, writes>>

\* replace(), outside any lock: build the new maps from zone_indices.
BuildNewMaps ==
    /\ rpc = "build"
    /\ newMaps' = snapshot
    /\ count' = Cardinality(Entries(snapshot))
    /\ rpc' = "apply"
    /\ UNCHANGED <<backend, zmap, statnumentries, replacePending,
                   pendingUpdates, pendingHeld, snapshot, toSwap, wpc, wop,
                   wid, writes>>

\* One recorded update replayed onto [m |-> newMaps, c |-> count].
ReplayUpdate(acc, u) ==
    IF acc.m[u.zone] # NoZone
    THEN IF u.insert
         THEN [acc EXCEPT !.m[u.zone] = u.id]
         ELSE [m |-> [acc.m EXCEPT ![u.zone] = NoZone], c |-> acc.c - 1]
    ELSE IF u.insert
         THEN [m |-> [acc.m EXCEPT ![u.zone] = u.id], c |-> acc.c + 1]
         ELSE acc

\* replace(), taking the pending mutex: replay the updates made while the
\* data was collected.
ApplyPending ==
    /\ rpc = "apply" /\ ~pendingHeld
    /\ replacePending
    /\ LET res == FoldLeft(ReplayUpdate, [m |-> newMaps, c |-> count],
                           pendingUpdates)
       IN /\ newMaps' = res.m
          /\ count' = res.c
    /\ pendingHeld' = TRUE
    /\ toSwap' = Shards
    /\ rpc' = "swap"
    /\ UNCHANGED <<backend, zmap, statnumentries, replacePending,
                   pendingUpdates, snapshot, wpc, wop, wid, writes>>

\* replace(), still holding the pending mutex: move one new shard in place.
SwapShard(s) ==
    /\ rpc = "swap" /\ s \in toSwap
    /\ zmap' = [z \in Zones |-> IF ShardOf[z] = s THEN newMaps[z] ELSE zmap[z]]
    /\ toSwap' = toSwap \ {s}
    /\ rpc' = IF toSwap' = {} THEN "finish" ELSE "swap"
    /\ UNCHANGED <<backend, statnumentries, replacePending, pendingUpdates,
                   pendingHeld, snapshot, newMaps, count, wpc, wop, wid, writes>>

\* replace(): clear the pending state, store the gauge, drop the mutex.
FinishReplace ==
    /\ rpc = "finish"
    /\ pendingUpdates' = <<>>
    /\ replacePending' = FALSE
    /\ statnumentries' = count
    /\ pendingHeld' = FALSE
    /\ rpc' = "idle"
    /\ UNCHANGED <<backend, zmap, snapshot, newMaps, count, toSwap, wpc, wop,
                   wid, writes>>

-----------------------------------------------------------------------------

Next ==
    \/ \E z \in Zones, id \in Ids : CreateSecondaryDomain(z, id)
    \/ \E z \in Zones :
           \/ DeleteDomain(z)
           \/ AddPending(z)
           \/ RemovePending(z)
           \/ AddToMap(z)
           \/ RemoveFromMap(z)
    \/ SetReplacePending
    \/ CollectZones
    \/ BuildNewMaps
    \/ ApplyPending
    \/ \E s \in Shards : SwapShard(s)
    \/ FinishReplace

Spec == Init /\ [][Next]_vars

-----------------------------------------------------------------------------
(* Properties *)

\* The zone index as the lookups see it: the shards are the map, and a
\* zone is busy from its backend change until its add() or remove() returns.
Index == INSTANCE ZoneIndex WITH cache <- zmap,
                                 busy <- {z \in Zones : wpc[z] # "idle"}

\* The sharded cache implements the atomic zone index: add() and remove()
\* take effect at their second critical section, and every shard replace()
\* swaps in holds what the backends serve for each zone whose writer has
\* returned, and for a zone whose writer is in flight either that or the
\* id a lookup already saw.  An update made while replace() was collecting
\* is neither lost by the shard swap nor undone by stale zone_indices, and
\* no lookup sees a zone's new id and then its old one.
ImplementsZoneIndex == Index!Spec

\* When no call is in progress, the zone-cache-size gauge equals the number
\* of zones in the cache.
GaugeMatchesEntries ==
    (rpc = "idle" /\ \A z \in Zones : wpc[z] = "idle")
        => statnumentries = Cardinality(Entries(zmap))

=============================================================================
