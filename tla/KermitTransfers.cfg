SPECIFICATION Spec
CONSTANTS
  Batch <- MCBatch
  Scenarios <- MCScenarios
  WindowSize = 3
  SeqCount = 8
  TimeoutMax = 3
  LineRoom = 3
  MaxFaults = 2
INVARIANTS TypeOK Consecutive NothingMissing OnDiskOnceIfKept NoFalseSuccess NothingLost
PROPERTIES Stops SucceedsIfClean
