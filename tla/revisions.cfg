SPECIFICATION Spec
CONSTANTS
  k1 = k1
  k2 = k2
  v1 = v1
  v2 = v2
  Absent = Absent
  Keys <- TwoKeys
  Vals <- OneVal
  Stored <- Full
  MaxRevisions = 2
  MaxProposals = 3
  DefaultRootHash = TRUE
  Viewed <- EmptyOrFull
  PersistFaults = TRUE
SYMMETRY KeySymmetry
INVARIANTS HistoryIsChain ChildrenReparented
PROPERTIES RebaseKeepsBoth ViewFindsLatest
