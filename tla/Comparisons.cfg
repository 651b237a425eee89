SPECIFICATION Spec
CONSTANTS
    Requests = {r1, r2, r3}
    Networks <- MCNetworks
    None = None
    Slots = 2
    Factor = 2
    UploadWeight = 2
    UploadTicks = 1
    MaxNetworks = 2
    HeapSlack = 1
    MaxClock = 5
SYMMETRY Symmetry
INVARIANTS EntriesComeBack SharesHold
PROPERTIES SoonestForgotten
CHECK_DEADLOCK FALSE
