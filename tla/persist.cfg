SPECIFICATION FairSpec
CONSTANTS
  MaxPersistenceGap = 3
  MaxRevisions = 4
  MaxCommits = 4
  Histories = {{0, 3}, {2, 4}}
  Faults = {"io", "rootstore", "panic"}
PROPERTIES ImplementsDeferredDurability FailStop CallsReturn CheckpointFollows
INVARIANTS GapBounded ReapedBehindCheckpoint CloseIsDurable ArchiveComplete
