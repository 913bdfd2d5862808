SPECIFICATION Spec
CONSTANTS
  l1 = l1
  l2 = l2
  Scenarios <- StorageScenarios
  MaxAreas = 14
SYMMETRY LeafSymmetry
INVARIANTS CrashImageSound RetainedReadable AllocatorSound NoLeak
