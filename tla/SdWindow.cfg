SPECIFICATION FairWindowSpec
CONSTANTS
  Size = 2
  Room = TRUE
  Chip = "FX3"
  StopIrq = FALSE
  CpuWrites = {"go"}
  CpuReads = {"read_sfrh"}
INVARIANTS XipQuiet WindowExclusive
PROPERTIES OrderedThroughWindow AccessServed ExchangeEnds
