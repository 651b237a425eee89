SPECIFICATION FairClientSpec
CONSTANTS
    Policies <- MCPolicies
    Hints = {0, 1, 4, 6}
    Resets = {1, 6}
    NoReset = 3
    Unnamed = Unnamed
INVARIANTS WaitsHold
PROPERTIES RequestsEnd
