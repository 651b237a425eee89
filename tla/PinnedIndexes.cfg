SPECIFICATION MCFairSpec
CONSTANTS
    Threads = {t1, t2}
    Versions = {v1, v2}
    DiskStates = {"ok", "absent", "tampered"}
    Locks = {l1, l2}
    None = None
    Keep = 1
    MaxRefusals = 1
    RefusalTicks = 1
    MaxClock = 1
    MaxChanges = 1
    Exporters = {t1}
INVARIANTS OneOpenAtATime LocksComeBack
PROPERTIES FaultsOutliveAbsents EveryRequestAnswered
