\* Every call, purge() included: the gauge against the entries.
CONSTANTS
    Threads = {t1, t2}
    Names <- MCNames
    NumShards = 2
    ShardOf <- MCShardOf
    Matches = {"example$"}
    SuffixMatch <- MCSuffixMatch
    MaxEntries = 2
    GaugeModulus = 16
    OpsSettings = {{"insert", "purge", "purgeExact", "purgeSuffix", "cleanup"}}
    NoThread = NoThread

SPECIFICATION QCSpec

INVARIANT GaugeMatchesEntries
