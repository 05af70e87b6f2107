SPECIFICATION CacheSpec
CONSTANTS
    Clients = {c1}
    Keys = {k1, k2, k3}
    Values = {v1, v2}
    NoKey = NoKey
    NoValue = NoValue
    MaxCapacity = 2
PROPERTY
    RestartRecovers
