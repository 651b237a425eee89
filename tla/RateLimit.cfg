SPECIFICATION Spec
CONSTANTS
    Requests = {"r1", "r2"}
    Clients = {"c1", "c2", "c3"}
    Levels = {"client", "network"}
    First = "client"
    Second = "network"
    Keys = {"c1", "c2", "c3", "n1"}
    KeyOf <- MCKeyOf
    Capacity <- MCCapacity
    MaxHeld <- MCMaxHeld
    Weights = {1}
    Totals = {2}
    Debts = {0, 2}
    None = None
    MaxClock = 1
INVARIANTS NoTokenMinted
PROPERTIES EvictionHolds RefusalsHold
