------------------------------ MODULE GeoIPLoad ------------------------------
(***************************************************************************)
(* What the GeoIP backend promises about its shared zone configuration,   *)
(* with every load taken as one atomic step.  The first instance opens    *)
(* the configuration, or fails and is not created; the last one to go     *)
(* drops it; a reload serves the configuration now on disk when it loads  *)
(* and keeps the one served before when it does not.  A domain is served  *)
(* with its own mapping lookup formats, or else with the global ones of   *)
(* the same configuration.                                                *)
(***************************************************************************)
EXTENDS Naturals

CONSTANTS
    Configs,        \* the zone configurations the zones-file may hold
    MaxInstances    \* bound on live backend instances

VARIABLES
    cfg,        \* the configuration on disk
    served,     \* the set of domains lookups are answered from
    users       \* the number of live backend instances

vars == <<cfg, served, users>>

(* A configuration loads when its databases open, its YAML parses and its *)
(* global mapping lookup formats pass validateMappingLookupFormats.       *)
Loads(c) == c.dbs # "fail" /\ c.yaml /\ c.global # "mp"

(* The domains a configuration defines: a domain whose own formats fail  *)
(* validation is left out, the others take the global formats when they  *)
(* have none of their own.                                                *)
DomainsOf(c) ==
    {[name |-> d.name, fmt |-> IF d.fmt = "none" THEN c.global ELSE d.fmt] :
        d \in {e \in c.domains : e.fmt # "mp"}}

Init ==
    /\ cfg \in Configs
    /\ served = {}
    /\ users = 0

Open ==
    /\ users < MaxInstances
    /\ \/ users > 0 /\ users' = users + 1 /\ UNCHANGED served
       \/ users = 0 /\ Loads(cfg) /\ users' = 1 /\ served' = DomainsOf(cfg)
    /\ UNCHANGED cfg

Close ==
    /\ users > 0
    /\ users' = users - 1
    /\ served' = IF users = 1 THEN {} ELSE served
    /\ UNCHANGED cfg

Reload ==
    /\ users > 0
    /\ served' = IF Loads(cfg) THEN DomainsOf(cfg) ELSE served
    /\ UNCHANGED <<cfg, users>>

Edit ==
    /\ cfg' \in Configs \ {cfg}
    /\ UNCHANGED <<served, users>>

Next == Open \/ Close \/ Reload \/ Edit

Spec == Init /\ [][Next]_vars

================================================================================
