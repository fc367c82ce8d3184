CONSTANTS
    Handlers = {h1, h2}
    Comm = comm
    Zones = {"zk", "zp", "zn"}
    Remotes = {"r1", "r2", "px"}
    Keys = {"k1", "k2"}
    NoKey = NoKey
    DnssecDb = TRUE
    NoAlgorithm = NoAlgorithm
    EmptySecret = ""
    TSIGKeys <- MCTSIGKeys
    NoECS = NoECS
    Packets <- MCPackets
    InitDomains <- MCInitDomains
    InitMetadata <- MCInitMetadata
    AllowNotifyFrom = {"r1"}
    TrustedProxies = {"px"}
    AutoPrimaries = {"r1"}
    Settings <- MCSettings
    EightBitDNS = FALSE
    BackendFaults = TRUE
    MaxPackets = 3

SPECIFICATION FairSpec

INVARIANT TypeOK
INVARIANT NotifyAcceptedOnlyWhenAuthorised
INVARIANT AutoPrimaryOnlyWhenAuthorised
INVARIANT UnsignedStrangerRefused
PROPERTY CreatedZoneEventuallyCached
