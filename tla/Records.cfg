SPECIFICATION Spec
CONSTANTS
    Versions = {"v1", "v2"}
    Inputs <- MCInputs
    Facts <- MCFacts
    Strings <- MCStrings
    Reads <- MCReads
    Unreadable = "unreadable"
    Identifications <- MCIdentifications
    Texts <- MCTexts
    Values <- MCValues
    Filters <- MCFilters
    Excluded <- MCExcluded
    Refuses <- MCRefuses
    None = None
    Threads = {t1, t2}
    RecordIds = {i1, i2, i3}
    Burst = 3
    MaxBytes = 1
    InsertTries = 2
    MaxIds = 4
    MaxEntries = 2
    QueryVersions = {1, 2}
    MaxEvents = 2
SYMMETRY Symmetry
INVARIANTS SavesLimited HonestReplays ReplayIsExact MemoSound
CHECK_DEADLOCK FALSE
