-------------------------------- MODULE MC_GeoIP --------------------------------
(* Two backend instances and four zone configurations of one domain with *)
(* no formats of its own and one with valid ones: a good one, one whose  *)
(* global formats use %mp, one whose database files do not open, and one *)
(* without global formats that cannot be parsed.                          *)
EXTENDS GeoIP

MCDomains == {[name |-> "geo.example", fmt |-> "none"],
              [name |-> "own.example", fmt |-> "valid"]}

MCConfigs ==
    {[dbs |-> "ok",   yaml |-> TRUE,  global |-> "none", domains |-> MCDomains],
     [dbs |-> "ok",   yaml |-> TRUE,  global |-> "mp",   domains |-> MCDomains],
     [dbs |-> "fail", yaml |-> TRUE,  global |-> "none", domains |-> MCDomains],
     [dbs |-> "none", yaml |-> FALSE, global |-> "none", domains |-> MCDomains]}
================================================================================
