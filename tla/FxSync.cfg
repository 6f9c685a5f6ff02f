SPECIFICATION FairSpec
CONSTANTS
  Size = 2
  Chip = "FX3"
  StopIrq = TRUE
  CpuWrites = {"go", "sfr_stop"}
  CpuReads = {"read_sfrh"}
INVARIANTS FxStateExclusive NothingStranded VideoExclusive
PROPERTIES AccessesFinish ClearHonoured
