SPECIFICATION Spec
CONSTANTS
  Event <- MCEvent
  SessionId = {1}
  AgentRun = {1, 3}
  EmbedderRun = {2}
  Delivery <- MCDelivery
  Embedder = {m1}
  ReleasedFiles <- MCReleasedFiles
  BusyFiles <- MCBusyFiles
  OddFiles <- MCOddFiles
  Debounce = 0
  MaxBatch = 1
  MaxTime = 2
  ClockMax = 1
  MaxEdits = 1
  MaxUpdates = 2
INVARIANTS
  StaleSaveChangesNothing
  MergesAreValid
  ConfirmedCompletionStands
  FilesAreReadInFull
PROPERTIES
  SaveOnlyAdds
  UnreadableFileIsKept
CHECK_DEADLOCK FALSE
