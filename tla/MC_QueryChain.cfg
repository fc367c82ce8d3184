\* A fixed zone with an 11-CNAME chain and a CNAME loop; A queries for
\* every name on the chain.
CONSTANTS
    Zones <- MCZones
    FixedRecords <- ChainRecords
    OptionalRecords = {}
    Unrectified = {}
    SecuredZones = {}
    DnssecOk = FALSE
    ResolveAcrossZones = FALSE
    DoDNAME = TRUE
    DoesDNSSEC = TRUE
    Queries <- MCQueries
    MaxNameLabels = 3
    NoZone = NoZone
    SignalingZones = {}
    PresignedZones = {}
    NSEC3NarrowZones = {}
    PublishCDS <- NoPublish
    PublishCDNSKEY <- NoPublish
    EntryPointZones = {}
    DirectDNSKEY = FALSE

SPECIFICATION FairSpec

INVARIANT RedirectLimit
PROPERTY ResolutionTerminates
