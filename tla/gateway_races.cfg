CONSTANTS
  g1 = g1
  g2 = g2
  n1 = n1
  b1 = b1
  Good = {g1, g2, n1}
  Bad = {b1}
  Reports = {g1, g2, b1}
  EventOne = {g1, b1}
  Reserved = {g1, b1}
  Broadcast = Broadcast
  Ack = Ack
  Blank = Blank
  FifoCells = 2
  WaitCount = 1
  MaxHeard = 2
SPECIFICATION TimedSpec
INVARIANT TxDoneIsGenuine
INVARIANT TimedInv
INVARIANT GenuineReport
INVARIANT FreshReport
INVARIANT HonestVerdict
INVARIANT PromptListens
INVARIANT PromptOnAir
PROPERTY WindowCloses
PROPERTY PromptCompletes
PROPERTY PromptAnswers
