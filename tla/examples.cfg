\* Three of the programs end, and rx_main waits for ever.
CHECK_DEADLOCK FALSE
CONSTANTS
  g1 = g1
  g2 = g2
  b1 = b1
  Good = {g1, g2}
  Bad = {b1}
  Broadcast = Broadcast
  Ack = Ack
  Blank = Blank
  FifoCells = 2
  MaxHeard = 3
SPECIFICATION Spec
INVARIANT ExamplesInv
INVARIANT EndsAsleep
INVARIANT SentWhole
INVARIANT PrintedInOrder
INVARIANT PrintedIsWhole
PROPERTY ProgramEnds
PROPERTY FrameWakesLoop
