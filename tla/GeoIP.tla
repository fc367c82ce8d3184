--------------------------------- MODULE GeoIP ---------------------------------
(***************************************************************************)
(* The shared state of the GeoIP backend (geoipbackend.cc): the refcount  *)
(* s_rc, the open GeoIP databases s_geoip_files and the domain list       *)
(* s_domains, all behind s_state_lock, and the per-instance members       *)
(* d_global_mapping_lookup_formats and d_result.  Every operation that    *)
(* changes shared state holds the write lock for its whole body, so each  *)
(* is one atomic step here; an exception thrown part way through leaves   *)
(* whatever was assigned before it.                                       *)
(*                                                                        *)
(* A configuration is a record: dbs is "ok", "none" (no database-files)   *)
(* or "fail" (makeInterface throws on one of them); yaml is whether the   *)
(* zones-file parses; global is the top-level mapping_lookup_formats:     *)
(* "none" when absent, "valid", or "mp" when a format uses the %mp        *)
(* placeholder that validateMappingLookupFormats rejects; domains is a    *)
(* set of [name, fmt] with the domain's own mapping_lookup_formats.       *)
(***************************************************************************)
EXTENDS Naturals, FiniteSets

CONSTANTS
    Instances,      \* GeoIPBackend objects the backend factory may create
    Configs,        \* the zone configurations the zones-file may hold
    NoConfig        \* s_geoip_files never filled

Formats == {"none", "valid", "mp"}

VARIABLES
    cfg,        \* the configuration on disk
    rc,         \* s_rc
    live,       \* the constructed, not yet destroyed instances
    files,      \* s_geoip_files: the configuration it was opened from, and how far
    domains,    \* s_domains, as the set of loaded [name, fmt]
    gfmt,       \* d_global_mapping_lookup_formats of each instance
    result      \* whether d_result of each instance holds records

vars == <<cfg, rc, live, files, domains, gfmt, result>>

NoFiles == [of |-> NoConfig, open |-> "none"]

TypeOK ==
    /\ cfg \in Configs
    /\ rc \in 0..Cardinality(Instances)
    /\ live \subseteq Instances
    /\ files \in [of : Configs \cup {NoConfig}, open : {"none", "some", "all"}]
    /\ domains \subseteq [name : UNION {{d.name : d \in c.domains} : c \in Configs},
                          fmt : Formats]
    /\ gfmt \in [Instances -> Formats]
    /\ result \in [Instances -> BOOLEAN]

Init ==
    /\ cfg \in Configs
    /\ rc = 0
    /\ live = {}
    /\ files = NoFiles
    /\ domains = {}
    /\ gfmt = [i \in Instances |-> "none"]
    /\ result = [i \in Instances |-> FALSE]

(* s_geoip_files after the clear() and the makeInterface loop.           *)
FilesOpened(c) ==
    [of |-> c, open |-> CASE c.dbs = "ok" -> "all"
                          [] c.dbs = "fail" -> "some"
                          [] c.dbs = "none" -> "none"]

(* loadDomain: a domain whose own formats fail validation throws inside  *)
(* its try and is skipped; one without formats takes the instance's      *)
(* d_global_mapping_lookup_formats.                                       *)
LoadDomains(c, g) ==
    {[name |-> d.name, fmt |-> IF d.fmt = "none" THEN g ELSE d.fmt] :
        d \in {e \in c.domains : e.fmt # "mp"}}

(* initialize() by an instance whose global formats are g: the formats   *)
(* are assigned (line 432) before they are validated (line 433), and      *)
(* kept when the configuration has none.                                  *)
GlobalAfter(g, c) ==
    IF c.dbs # "fail" /\ c.yaml /\ c.global # "none" THEN c.global ELSE g

InitializeOk(c) == c.dbs # "fail" /\ c.yaml /\ c.global # "mp"

(* The whole of initialize() for configuration c, with the global       *)
(* formats the instance ends with given as g2; s_domains is only        *)
(* swapped when nothing threw.                                            *)
Initialize(c, g2) ==
    /\ files' = FilesOpened(c)
    /\ domains' = IF InitializeOk(c) THEN LoadDomains(c, g2) ELSE domains

(* GeoIPBackend::GeoIPBackend: the first instance runs initialize(); if  *)
(* it throws, the object is never constructed and s_rc is not counted.    *)
Construct(i) ==
    /\ i \notin live
    /\ result' = [result EXCEPT ![i] = FALSE]
    /\ \/ /\ rc = 0
          /\ \E g2 \in {GlobalAfter("none", cfg)} :
                /\ Initialize(cfg, g2)
                /\ IF InitializeOk(cfg)
                      THEN /\ live' = live \cup {i} /\ rc' = rc + 1
                           /\ gfmt' = [gfmt EXCEPT ![i] = g2]
                      ELSE UNCHANGED <<live, rc, gfmt>>
       \/ /\ rc > 0
          /\ live' = live \cup {i}
          /\ rc' = rc + 1
          /\ gfmt' = [gfmt EXCEPT ![i] = "none"]
          /\ UNCHANGED <<files, domains>>
    /\ UNCHANGED cfg

(* GeoIPBackend::~GeoIPBackend: the last instance closes the databases   *)
(* and drops the domains.                                                 *)
Destroy(i) ==
    /\ i \in live
    /\ live' = live \ {i}
    /\ rc' = rc - 1
    /\ IF rc = 1 THEN files' = NoFiles /\ domains' = {}
                 ELSE UNCHANGED <<files, domains>>
    /\ UNCHANGED <<cfg, gfmt, result>>

(* GeoIPBackend::reload (and rediscover): initialize() under the write   *)
(* lock, with every exception caught and logged.                          *)
Reload(i) ==
    /\ i \in live
    /\ \E g2 \in {GlobalAfter(gfmt[i], cfg)} :
          /\ Initialize(cfg, g2)
          /\ gfmt' = [gfmt EXCEPT ![i] = g2]
    /\ UNCHANGED <<cfg, rc, live, result>>

(* GeoIPBackend::lookup under the read lock: it throws while d_result   *)
(* still holds records, and fills d_result from a domain of s_domains.   *)
Lookup(i) ==
    /\ i \in live
    /\ ~result[i]
    /\ domains # {}
    /\ result' = [result EXCEPT ![i] = TRUE]
    /\ UNCHANGED <<cfg, rc, live, files, domains, gfmt>>

(* GeoIPBackend::get: hands out the records of d_result until it is empty.*)
Get(i) ==
    /\ result[i]
    /\ result' = [result EXCEPT ![i] = FALSE]
    /\ UNCHANGED <<cfg, rc, live, files, domains, gfmt>>

(* The operator edits the zones-file or the database files on disk.      *)
EditConfig ==
    /\ cfg' \in Configs \ {cfg}
    /\ UNCHANGED <<rc, live, files, domains, gfmt, result>>

Next ==
    \/ \E i \in Instances :
          Construct(i) \/ Destroy(i) \/ Reload(i) \/ Lookup(i) \/ Get(i)
    \/ EditConfig

Spec == Init /\ [][Next]_vars

(* The abstract specification, seen through the backend's shared state:  *)
(* the served domains are s_domains and the users are s_rc.               *)
Load == INSTANCE GeoIPLoad WITH served <- domains, users <- rc,
                                MaxInstances <- Cardinality(Instances)

(* The backend implements atomic loading: every reload either serves the *)
(* domains the configuration on disk defines, each with its own formats  *)
(* or the global ones of that same configuration, or leaves the served   *)
(* domains as they were.  Initialize() and reload() are what it is about. *)
ImplementsAtomicLoad == Load!Spec

================================================================================
