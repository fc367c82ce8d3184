------------------------------ MODULE ZoneIndex ------------------------------
(***************************************************************************)
(* What the zone cache promises to the threads that look zones up: a map  *)
(* from zone name to zone id in which every add() or remove() takes       *)
(* effect at one instant before it returns, and a refresh from the        *)
(* backends changes only what they serve differently.  While a writer's   *)
(* call is in flight its zone may show the old or the new id, but once a  *)
(* lookup could see the new one the old one never comes back.             *)
(***************************************************************************)
EXTENDS Naturals

CONSTANTS
    Zones,      \* zone names
    Ids,        \* zone ids a backend may hand out
    NoZone,     \* "not present"
    MaxWrites   \* bound on the number of zone creations and deletions

ZoneIds == Ids \cup {NoZone}

VARIABLES
    backend,    \* the zones the backends serve: zone -> id or NoZone
    cache,      \* what a lookup returns: zone -> id or NoZone
    busy,       \* zones whose writer has changed the backend and not returned
    writes      \* zone creations and deletions so far

vars == <<backend, cache, busy, writes>>

Init ==
    /\ backend \in [Zones -> ZoneIds]
    /\ cache = backend
    /\ busy = {}
    /\ writes = 0

(* A writer changes what the backends serve and starts its cache call.   *)
Write(z) ==
    /\ z \notin busy /\ writes < MaxWrites
    /\ \E id \in ZoneIds \ {backend[z]} :
          /\ (backend[z] = NoZone) # (id = NoZone)
          /\ backend' = [backend EXCEPT ![z] = id]
    /\ busy' = busy \cup {z}
    /\ writes' = writes + 1
    /\ UNCHANGED cache

(* The writer's add() or remove() takes effect and returns.              *)
Publish(z) ==
    /\ z \in busy
    /\ cache' = [cache EXCEPT ![z] = backend[z]]
    /\ busy' = busy \ {z}
    /\ UNCHANGED <<backend, writes>>

(* The values a refresh may leave for a zone: what the backends serve,   *)
(* or, while its writer is in flight, what the cache showed before.       *)
Settled(z) == IF z \in busy THEN {cache[z], backend[z]} ELSE {backend[z]}

Refresh ==
    /\ \E c \in [Zones -> ZoneIds] :
          /\ \A z \in Zones : c[z] \in Settled(z)
          /\ cache' = c
    /\ UNCHANGED <<backend, busy, writes>>

Next == (\E z \in Zones : Write(z) \/ Publish(z)) \/ Refresh

Spec == Init /\ [][Next]_vars

================================================================================
