SPECIFICATION IrqSpec
CONSTANTS
  Size = 3
  Chip = "GSU"
  StopIrq = TRUE
  CpuWrites = {"sfr_go", "scmr_gsu"}
  CpuReads = {"read_sfrh", "read_reg"}
INVARIANTS SnapshotsSettled 
PROPERTIES OrderedCommands UnseenIrqKept
