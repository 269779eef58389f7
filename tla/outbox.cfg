\* Everything stops when a publish hangs and the radio loop wants the mutex.
CHECK_DEADLOCK FALSE
CONSTANTS
  MaxRows = 3
  MaxFaults = 3
SPECIFICATION UplinkFairSpec
INVARIANT UplinkInv
INVARIANT QueueInv
INVARIANT NoUnsentLoss
INVARIANT RepeatsNeedFaults
PROPERTY RefinesQueue
PROPERTY ImplementsOutbox
PROPERTY StoredIsHanded
PROPERTY LoopGetsMutex
