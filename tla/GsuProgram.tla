----------------------------- MODULE GsuProgram -----------------------------
(***************************************************************************)
(* What a SuperFX3 program may rely on: instructions take effect one after *)
(* the other, at once.  A load returns what was stored last, RPIX what was *)
(* plotted last, GETB the byte the last write of R14 points at, in the     *)
(* bank that was selected then, and the instruction stream is the program, *)
(* with one delay slot after a jump.  There are no delayed writes, no      *)
(* fetch in progress, no pixel caches and no code cache here: Gsu has      *)
(* them, and implements this.                                              *)
(***************************************************************************)
EXTENDS Integers

CONSTANTS
    RamBanks, Offsets,  \* a byte of the GSU's RAM is <<bank, offset>>
    Pixels,             \* the bits of a byte, which is a SUBSET Pixels
    Rows,               \* offsets of bank 1 that are rows of the screen
    ClearByte,          \* what CLEAR writes
    StoreBytes,         \* what the program and the SNES store
    ProgramBanks, RomBanks, RomOffsets,
    PcSpace             \* R15 counts modulo PcSpace

VARIABLES
    mem,                \* the RAM as the program knows it
    now,                \* the program byte executed next: <<bank, R15>>, or Nop
    pbr, r15,           \* where the byte after it is
    ramb, romb,         \* RAMB and ROMB
    pointed,            \* the ROM byte that GETB returns
    loaded, got,        \* what the last instruction read from RAM, from ROM
    saved,              \* the RAM that this session's SAVE stored
    running             \* GO
vars == <<mem, now, pbr, r15, ramb, romb, pointed, loaded, got, saved, running>>

Ram == RamBanks \X Offsets
Pcs == 0..(PcSpace - 1)
Nop == <<>>
Plus(a, n) == (a + n) % PcSpace

Init ==
    /\ mem = [a \in Ram |-> {}]
    /\ now = Nop
    /\ pbr \in ProgramBanks
    /\ r15 = 0
    /\ ramb = 0
    /\ romb = 0
    /\ pointed = <<>>
    /\ loaded = <<>>
    /\ got = <<>>
    /\ saved = <<>>
    /\ running = FALSE

-----------------------------------------------------------------------------
\* One instruction: the byte at R15 is next, and R15 moves on.
Executes == running /\ now' = <<pbr, r15>>
Ends == r15' = Plus(r15, 1) /\ UNCHANGED pbr
Reads(ram, rom) == loaded' = ram /\ got' = rom
Quiet == Reads(<<>>, <<>>)
Keeps == UNCHANGED <<ramb, romb, pointed, saved, running>>

Plain == Executes /\ Ends /\ Quiet /\ Keeps /\ UNCHANGED mem

Other(o) == CHOOSE p \in Offsets : (Offsets = {o}) \/ p # o

Store(o, v) ==
    /\ now # Nop
    /\ Executes /\ Ends /\ Quiet /\ Keeps
    /\ mem' = [mem EXCEPT ![<<ramb, o>>] = v]

StoreWord(o, v, w) ==
    /\ now # Nop
    /\ Executes /\ Ends /\ Quiet /\ Keeps
    /\ mem' = [mem EXCEPT ![<<ramb, o>>] = v, ![<<ramb, Other(o)>>] = w]

Load(o) ==
    /\ now # Nop
    /\ Executes /\ Ends /\ Keeps
    /\ Reads(<<mem[<<ramb, o>>], mem[<<ramb, Other(o)>>]>>, <<>>)
    /\ UNCHANGED mem

SelectRam(b) ==
    /\ now # Nop
    /\ Executes /\ Ends /\ Quiet
    /\ ramb' = b
    /\ UNCHANGED <<mem, romb, pointed, saved, running>>

SelectRom(b) ==
    /\ now # Nop
    /\ Executes /\ Ends /\ Quiet
    /\ romb' = b
    /\ UNCHANGED <<mem, ramb, pointed, saved, running>>

Point(a) ==
    /\ now # Nop
    /\ Executes /\ Ends /\ Quiet
    /\ pointed' = <<romb, a>>
    /\ UNCHANGED <<mem, ramb, romb, saved, running>>

GetByte ==
    /\ now # Nop
    /\ Executes /\ Ends /\ Keeps
    /\ Reads(<<>>, pointed)
    /\ UNCHANGED mem

Painted(byte, x, on) == IF on THEN byte \union {x} ELSE byte \ {x}

Plot(x, y, on) ==
    /\ now # Nop
    /\ Executes /\ Ends /\ Quiet /\ Keeps
    /\ mem' = [mem EXCEPT ![<<1, y>>] = Painted(@, x, on)]

ReadPixel(x, y) ==
    /\ now # Nop
    /\ Executes /\ Ends /\ Keeps
    /\ Reads(<<mem[<<1, y>>] \intersect {x}>>, <<>>)
    /\ UNCHANGED mem

Clear(y) ==
    /\ now # Nop
    /\ Executes /\ Ends /\ Quiet /\ Keeps
    /\ mem' = [mem EXCEPT ![<<1, y>>] = ClearByte]

Jump(a) ==
    /\ now # Nop
    /\ Executes /\ Quiet /\ Keeps
    /\ r15' = a
    /\ UNCHANGED <<mem, pbr>>

LongJump(b, a) ==
    /\ now # Nop
    /\ Executes /\ Quiet /\ Keeps
    /\ pbr' = b
    /\ r15' = a
    /\ UNCHANGED mem

\* One operand byte, which is the byte at R15, and the jump it may cause.
Operand(a) ==
    /\ now # Nop
    /\ running
    /\ now' = <<pbr, Plus(r15, 1)>>
    /\ Reads(<<>>, <<pbr, r15>>)
    /\ r15' = a
    /\ Keeps
    /\ UNCHANGED <<mem, pbr>>

Halts == running /\ running' = FALSE /\ now' = Nop /\ Quiet

\* STOP: R15 becomes 0.
Stop ==
    /\ now # Nop
    /\ Halts
    /\ r15' = 0
    /\ UNCHANGED <<mem, pbr, ramb, romb, pointed, saved>>

\* SAVE_AND_STOP: R15 becomes 0 when the RAM as the program knows it is stored,
\* and not if the save fails.
Save ==
    /\ now # Nop
    /\ Halts
    /\ r15' = 0
    /\ saved' = mem
    /\ UNCHANGED <<mem, pbr, ramb, romb, pointed>>

SaveFails ==
    /\ now # Nop
    /\ Halts
    /\ r15' # 0
    /\ UNCHANGED <<mem, pbr, ramb, romb, pointed, saved>>

-----------------------------------------------------------------------------
\* The SNES.
Go(a) ==
    /\ ~running
    /\ running' = TRUE
    /\ r15' = a
    /\ saved' = <<>>
    /\ Quiet
    /\ UNCHANGED <<mem, now, pbr, ramb, romb, pointed>>

Abort ==
    /\ running
    /\ running' = FALSE
    /\ Quiet
    /\ UNCHANGED <<mem, now, pbr, r15, ramb, romb, pointed, saved>>

SetProgramBank(b) ==
    /\ ~running
    /\ pbr' = b
    /\ Quiet
    /\ UNCHANGED <<mem, now, r15, ramb, romb, pointed, saved, running>>

HostPoint(a) ==
    /\ ~running
    /\ pointed' = <<romb, a>>
    /\ Quiet
    /\ UNCHANGED <<mem, now, pbr, r15, ramb, romb, saved, running>>

HostStore(a, v) ==
    /\ ~running
    /\ mem' = [mem EXCEPT ![a] = v]
    /\ Quiet
    /\ UNCHANGED <<now, pbr, r15, ramb, romb, pointed, saved, running>>

Next ==
    \/ Plain
    \/ \E o \in Offsets, v, w \in StoreBytes : Store(o, v) \/ StoreWord(o, v, w)
    \/ \E o \in Offsets : Load(o)
    \/ \E b \in RamBanks : SelectRam(b)
    \/ \E b \in RomBanks : SelectRom(b)
    \/ \E a \in RomOffsets : Point(a) \/ HostPoint(a)
    \/ GetByte
    \/ \E x \in Pixels, y \in Rows, on \in BOOLEAN : Plot(x, y, on)
    \/ \E x \in Pixels, y \in Rows : ReadPixel(x, y)
    \/ \E y \in Rows : Clear(y)
    \/ \E a \in Pcs : Jump(a) \/ Operand(a) \/ Go(a)
    \/ \E b \in ProgramBanks, a \in Pcs : LongJump(b, a)
    \/ Stop
    \/ Save
    \/ SaveFails
    \/ Abort
    \/ \E b \in ProgramBanks : SetProgramBank(b)
    \/ \E a \in Ram, v \in StoreBytes : HostStore(a, v)

Spec == Init /\ [][Next]_vars
=============================================================================
