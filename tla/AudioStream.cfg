SPECIFICATION FairSpec
CONSTANTS
  Assets = {10}
  PageCount = 2
  PagePackets = {6}
  FifoSize = 7
  LowWater = 6
  HighWater = 7
  Burst = 4
  QueueSize = 2
  Levels = {0, 4}
  Segment = 1
  MaxSilence = 1
INVARIANTS OfferIsNext EofIsComplete
PROPERTIES ActiveImmutable SessionEnds
