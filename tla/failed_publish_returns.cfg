\* Everything stops when a publish hangs and the radio loop wants the mutex.
CHECK_DEADLOCK FALSE
CONSTANTS
  MaxRows = 1
  MaxFaults = 1
SPECIFICATION UplinkFairSpec
PROPERTY FailedPublishReturns
