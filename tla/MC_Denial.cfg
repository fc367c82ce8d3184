\* The zones signed with NSEC, NSEC3 with opt-out, and NSEC3 narrow.
CONSTANTS
    Zones <- MCZones
    FixedRecords <- MCFixedRecords
    OptionalRecords <- MCOptionalRecords
    Unrectified = {}
    SecuredZones <- MCZones
    DnssecOk = TRUE
    ResolveAcrossZones = FALSE
    DoDNAME = TRUE
    DoesDNSSEC = TRUE
    Queries <- MCQueries
    MaxNameLabels = 3
    NoZone = NoZone
    SignalingZones = {}
    PresignedZones = {}
    NSEC3NarrowZones = {}
    PublishCDS <- NoPublish
    PublishCDNSKEY <- NoPublish
    EntryPointZones = {}
    DirectDNSKEY = FALSE
    NSEC3Settings <- MCNSEC3Settings
    NoNSEC3 = NoNSEC3
    LabelRank <- MCLabelRank
    NSEC3Hash <- MCHash
    HashSpace <- MCHashSpace

SPECIFICATION DenialSpec

INVARIANT DenialProofsComplete
INVARIANT DenialRecordsTruthful
