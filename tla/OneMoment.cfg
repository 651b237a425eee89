SPECIFICATION CrawlSpec
CONSTANTS
    Notes = {1, 2, 3}
    Listings <- MCListings
    Submitted = {{2, 3}}
    PageSize = 1
    TTL = 1
    Ingesters = {i1}
    Builder = build
    Nothing = Nothing
    MaxClock = 2
    MaxChanges = 1
    MaxCrawls = 3
    MaxBuilds = 0
INVARIANT OneMoment
CHECK_DEADLOCK FALSE
