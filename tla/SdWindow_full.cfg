SPECIFICATION FairWindowSpec
CONSTANTS
  Size = 2
  Room = FALSE
  Chip = "FX3"
  StopIrq = FALSE
  CpuWrites = {"go"}
  CpuReads = {}
PROPERTIES AccessServed
