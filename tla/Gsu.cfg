SPECIFICATION Spec
CONSTANTS
    RamBanks = {0, 1}
    Offsets = {0, 1}
    Pixels = {0, 1}
    Rows = {0, 1}
    ClearByte = {0}
    ProgramBanks = {0, 1}
    RomBanks = {0, 1}
    RomOffsets = {0, 1}
    PcSpace = 6
    Short = 1
    Long = 5
    LineSize = 2
    Lines = 2
    Families <- Kinds
    StoreBytes <- Uniform
    HostRam <- Shared
    Entries = {0}
INVARIANT CompletionIsTrue
 
