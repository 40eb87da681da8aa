SPECIFICATION MCSpec
CONSTANTS
    t1 = t1
    i1 = i1
    k1 = k1
    TypeIds = {t1, t2}
    TypeCodes = {k1, k2}
    Items = {i1}
    SeedTypes <- MCSeedTypes
    SeedItems <- MCSeedItems
    Clients = {p1, p2}
    Operations = {"get", "createType", "updateType", "removeType", "removeTypes", "createItem", "updateItem", "removeItem", "removeItems", "create", "update", "remove"}
    MaxWrites = 2
    CacheFaults = {"down", "command", "crash"}
INVARIANT CachedTypeOK
INVARIANT CacheTellsTruth
PROPERTY CacheConverges
