\* Everything stops when a publish hangs and the radio loop wants the mutex.
CHECK_DEADLOCK FALSE
CONSTANTS
  g1 = g1
  b1 = b1
  Good = {g1}
  Bad = {b1}
  Reports = {g1, b1}
  EventOne = {g1, b1}
  Reserved = {g1, b1}
  Broadcast = Broadcast
  Ack = Ack
  Blank = Blank
  FifoCells = 1
  WaitCount = 0
  MaxHeard = 2
  MaxRows = 2
  MaxFaults = 2
SPECIFICATION SystemSpec
INVARIANT SystemInv
INVARIANT AckedIsStored
INVARIANT StoredIsGenuine
PROPERTY AckedIsForwarded
PROPERTY StoringEnds
