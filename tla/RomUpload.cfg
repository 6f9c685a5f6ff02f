SPECIFICATION Spec
CONSTANTS
  blank = blank
  low = low
  PageBlocks = 2
  SectorBlocks = 2
  Capacity = 4
  SpillPages = 1
  Overhead = 1
  Data = {blank, low}
  HostData <- MCHostData
  Blank = blank
  HighBit = {blank}
  Unwritten = Unwritten
  Directories <- MCDirectories
  Fats <- MCFats
INVARIANTS ReadsBack Delivered
 
