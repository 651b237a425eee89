SPECIFICATION SearchSpec
CONSTANTS
  c1 = c1
  c2 = c2
  c3 = c3
  NoClause = NoClause
  Requests = {r1, r2}
  Clauses = {c1, c2, c3}
  Bare = {c3}
  Queries <- MCQueries
  Weight <- MCWeight
  Budget = 0
  Slots = 1
  Searches = {r1, r2}
  Workers = {w1, w2}
  None = None
  Trees <- MCTrees
  Conjuncts <- MCConjuncts
  Needs <- MCNeeds
SYMMETRY Symmetry
INVARIANTS
  WorkersNeverVerify
  VerifiedOnce
  MemoBounded
  QueuedJobsFirst
  CountsAreWhole
  PoolNeverLocksUp
CHECK_DEADLOCK FALSE
