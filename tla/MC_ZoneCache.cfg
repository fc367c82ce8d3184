CONSTANTS
    Zones <- MCZones
    Ids = {1, 2}
    Shards = {"s1", "s2"}
    ShardOf <- MCShardOf
    NoZone = NoZone
    MaxWrites = 2

SPECIFICATION Spec

INVARIANT TypeOK
PROPERTY ImplementsZoneIndex
INVARIANT GaugeMatchesEntries
