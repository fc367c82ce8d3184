\* Zone-data shapes x query names x query types, DNSSEC requested, a
\* secured parent zone, resolve-across-zones off; a signaling zone,
\* the presigned zone other., and key-store settings for the child and parent.
CONSTANTS
    Zones <- MCZones
    FixedRecords <- MCFixedRecords
    OptionalRecords <- MCOptionalRecords
    Unrectified <- MCUnrectified
    SecuredZones <- MCZones
    DnssecOk = TRUE
    ResolveAcrossZones = FALSE
    DoDNAME = TRUE
    DoesDNSSEC = TRUE
    Queries <- MCQueries
    MaxNameLabels = 3
    NoZone = NoZone
    SignalingZones <- MCSignalingZones
    PresignedZones <- MCPresignedZones
    NSEC3NarrowZones <- MCSignalingZones
    PublishCDS <- MCPublishCDS
    PublishCDNSKEY <- MCPublishCDNSKEY
    EntryPointZones <- MCEntryPointZones
    DirectDNSKEY = FALSE

SPECIFICATION FairSpec

INVARIANT TypeOK
INVARIANT NXDomainOnlyForNonexistentNames
INVARIANT WildcardFromClosestEncloser
INVARIANT DelegatedNamesGetReferrals
INVARIANT DSAtDelegationAnsweredByParent
INVARIANT NoForeignDataWhenNotResolvingAcrossZones
INVARIANT SignalAnswersMirrorChild

