SPECIFICATION FairSpec
CONSTANTS
    Versions = {"v1", "v2"}
    None = None
    Ids <- MCIds
    Native <- MCNative
    NoNative = "none"
    Holds <- MCHolds
    BuiltWithout <- MCBuiltWithout
    Merges <- MCMerges
    Lists <- MCLists
    ListRequired = FALSE
    MaxLoads = 3
    MaxChanges = 3
INVARIANTS LatestListApplies
PROPERTIES TakedownsHold OtherIdsStayWithheld ReloadsSettle
CHECK_DEADLOCK FALSE
