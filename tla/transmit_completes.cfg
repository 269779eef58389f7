CONSTANTS
  g1 = g1
  g2 = g2
  n1 = n1
  b1 = b1
  Good = {g1}
  Bad = {b1}
  Reports = {g1, g2, b1}
  EventOne = {g1, b1}
  Reserved = {g1, b1}
  Broadcast = Broadcast
  Ack = Ack
  Blank = Blank
  FifoCells = 2
  WaitCount = 0
  MaxHeard = 1
SPECIFICATION TimedSpec
PROPERTY TransmitCompletes
