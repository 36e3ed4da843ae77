CONSTANTS
  ServerBundle <- MCBundle
  ChunksPerUpdate = 2
  Timeout = 2
SPECIFICATION Spec
INVARIANTS TypeOK ReadyIsJoined
PROPERTIES NoChunkRefused FailureIsFinal SyncSettles
CHECK_DEADLOCK FALSE
