SPECIFICATION Spec
CONSTANTS
  k1 = k1
  k2 = k2
  v1 = v1
  v2 = v2
  Absent = Absent
  Keys <- OneKey
  Vals <- TwoVals
  Stored <- Empty
  MaxRevisions = 3
  MaxProposals = 4
  DefaultRootHash = TRUE
  Viewed <- NoContents
  PersistFaults = FALSE
SYMMETRY ValSymmetry
INVARIANT RetainedIndexed
