\* Two threads, in two servers: one whose threads call insert(),
\* purgeExact(), purge(match$) and cleanup(), and one whose threads call
\* insert() and purge().
CONSTANTS
    Threads = {t1, t2}
    Names <- MCNames
    NumShards = 2
    ShardOf <- MCShardOf
    Matches = {"example$"}
    SuffixMatch <- MCSuffixMatch
    MaxEntries = 2
    GaugeModulus = 16
    OpsSettings <- MCOpsSettings
    NoThread = NoThread

SPECIFICATION QCSpec

INVARIANT TypeOK
INVARIANT GaugeMatchesEntriesWithoutPurge
INVARIANT CapacityBound
