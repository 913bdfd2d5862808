SPECIFICATION Spec
CONSTANTS
  MaxPersistenceGap = 1
  MaxRevisions = 2
  MaxCommits = 3
  Histories = {{}}
  Faults = {"panic"}
INVARIANT SubmitErrorsAfterShutdown
