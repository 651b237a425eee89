SPECIFICATION OpSpec
CONSTANTS
    Procs = {p1, p2}
    Savers = {s1, s2}
    Versions = {v1, v2}
    None = None
    MaxRuns = 3
    MaxByHand = 3
    Notes = {1, 2, 3}
    Listings <- MCListings
    Submitted = {{2, 3}}
    PageSize = 1
    TTL = 1
    Ingesters = {p1, p2}
    Builder = build
    Nothing = Nothing
    MaxClock = 2
    MaxChanges = 1
    MaxCrawls = 2
    MaxBuilds = 1
SYMMETRY Symmetry
INVARIANTS IndexesKept OfflineReplaysCrawl ListingsAreWhole MixesKeepTheCount
PROPERTIES AsideNeverSwept ImplementsHeldIndexes
CHECK_DEADLOCK FALSE
