-------------------------------- MODULE Gsu --------------------------------
(***************************************************************************)
(* The FX3's execution core (src/src/fx): the delayed RAM write, the ROM   *)
(* byte that a write of R14 fetches, the two pixel caches, the program     *)
(* cache and the prefetched byte, and how much emulated time each          *)
(* operation gives the others.  An instruction is one action: only core 1  *)
(* touches this state while it executes, and FxSync says when the SNES     *)
(* may.                                                                    *)
(*                                                                         *)
(* Registers other than R14 and R15, flags and prefixes are data: an       *)
(* instruction's operands are any.  A program byte is the place it was     *)
(* fetched from.  Programs are in ROM.  A row of the screen is one byte,   *)
(* one bit for each of its pixels: the planes of a row are written alike.  *)
(***************************************************************************)
EXTENDS Integers

CONSTANTS
    RamBanks, Offsets, Pixels, Rows, ClearByte,
    ProgramBanks, RomBanks, RomOffsets, PcSpace,    \* as in GsuProgram
    Short, Long,        \* the cycles of a cached and of a memory access
    LineSize, Lines,    \* geometry of the program cache
    Families,           \* sets of instructions a program may consist of
    StoreBytes,         \* the bytes it stores
    HostRam,            \* the places the SNES writes
    Entries             \* the places it starts programs at

ASSUME TimeAssumption == Short \in Nat \ {0} /\ Long \in Nat \ {0}
ASSUME CacheAssumption ==
    /\ LineSize \in Nat \ {0} /\ Lines \in Nat \ {0}
    /\ PcSpace \in Nat \ {0, 1} /\ PcSpace % LineSize = 0
    /\ LineSize * Lines <= PcSpace
ASSUME MemoryAssumption ==
    /\ RamBanks = {0, 1} /\ Offsets = {0, 1}
    /\ Rows \subseteq Offsets /\ Rows # {}
    /\ ClearByte \subseteq Pixels /\ StoreBytes \subseteq SUBSET Pixels
    /\ HostRam \subseteq RamBanks \X Offsets
    /\ Entries \subseteq 0..(PcSpace - 1)
    /\ 0 \in ProgramBanks /\ 0 \in RomBanks /\ 0 \in RomOffsets

\* A program reads what it plotted by RPIX, not by a load, and does not mix RPIX
\* with stores, for which RPIX does not wait (fx_graphics.cpp:45-58).
ASSUME FamiliesAssumption == \A f \in Families :
    /\ "PLOT" \in f => f \intersect {"Store", "Load"} = {}
    /\ "RPIX" \in f => "Store" \notin f

VARIABLES
    pipe,       \* RAM, the write on its way there, and the ROM buffer
    code,       \* program bank, R15, program cache, prefetched byte
    plot,       \* primary and secondary pixel cache
    running,
    ended,      \* how the last session ended: "no", "stop", "save", "failed"
    loaded, got,    \* what the last instruction read from RAM, from ROM
    saved,      \* what this session's SAVE wrote to flash
    family      \* the instructions of this program
vars == <<pipe, code, plot, running, ended, loaded, got, saved, family>>

Ram == RamBanks \X Offsets
Byte == SUBSET Pixels
Pcs == 0..(PcSpace - 1)
Nop == <<>>         \* the byte $01, which belongs to no program
Nothing == <<>>     \* no save
Invalid == <<>>     \* a line of the program cache that is not valid
LineNumbers == 0..(Lines - 1)
Plus(a, n) == (a + n) % PcSpace
NoLines == [l \in LineNumbers |-> Invalid]

-----------------------------------------------------------------------------
\* The memory pipelines.  An operator takes the pipeline and returns it after
\* the operation.

RomAdvanced(p, n) ==
    IF p.romDelay > n THEN [p EXCEPT !.romDelay = @ - n]
    ELSE IF p.romDelay > 0
         THEN [p EXCEPT !.romDelay = 0, !.romBuffer = <<p.romb, p.r14>>]
         ELSE p

RamAdvanced(p, n) ==
    IF p.ramDelay > n THEN [p EXCEPT !.ramDelay = @ - n]
    ELSE IF p.ramDelay > 0
         THEN [p EXCEPT !.ramDelay = 0, !.ram[<<p.ramb, p.ramAddress>>] = p.ramValue]
         ELSE p

step(p, n) == RamAdvanced(RomAdvanced(p, n), n)

wait_rom_operation(p) == step(p, p.romDelay)
wait_ram_operation(p) == step(p, p.ramDelay)

write_ram(p, o, v) ==
    [wait_ram_operation(p) EXCEPT !.ramDelay = Long, !.ramAddress = o, !.ramValue = v]

write_r14(p, a) == [p EXCEPT !.r14 = a, !.romDelay = Long]

-----------------------------------------------------------------------------
\* Program fetch: what it returns is the byte, and the code and pipeline after.

fill_cache_line(c, p, l) ==
    [code |-> [c EXCEPT !.lines[l] = <<c.pbr, Plus(c.base, l * LineSize)>>],
     pipe |-> step(wait_rom_operation(p), Long * LineSize)]

CacheAddress(c) == (c.r15 - c.base) % PcSpace

read_program_byte(c, p) ==
    LET at == CacheAddress(c)
        l == at \div LineSize
        filled == IF c.lines[l] = Invalid
                  THEN fill_cache_line(c, p, l) ELSE [code |-> c, pipe |-> p]
        line == filled.code.lines[l]
    IN IF at < LineSize * Lines
       THEN [byte |-> <<line[1], Plus(line[2], at % LineSize)>>,
             code |-> filled.code,
             pipe |-> step(filled.pipe, Short)]
       ELSE [byte |-> <<c.pbr, c.r15>>,
             code |-> c,
             pipe |-> step(wait_rom_operation(p), Long)]

\* The prefetched byte is consumed and the one at R15 takes its place.
read_opcode(c, p) ==
    LET f == read_program_byte(c, p)
    IN [code |-> [f.code EXCEPT !.buffer = f.byte], pipe |-> f.pipe]

read_operand(c, p) == read_opcode([c EXCEPT !.r15 = Plus(@, 1)], p)

Fetched == read_opcode(code, pipe)

Incremented(c) == [c EXCEPT !.r15 = Plus(@, 1)]
invalidate_cache(c) == [c EXCEPT !.lines = NoLines]

-----------------------------------------------------------------------------
\* The pixel caches.  A cache holds the row, the valid pixels and which of
\* them are lit.

EmptyCache(y) == [row |-> y, valid |-> {}, lit |-> {}]

Merged(byte, k) == (byte \ k.valid) \union (k.lit \intersect k.valid)

\* A row with all its pixels is written; any other is merged with the byte in
\* RAM, for which one more access is made.
write_pixel_cache(p, k) ==
    IF k.valid = {} THEN p
    ELSE LET fetched == IF k.valid # Pixels THEN step(p, Long) ELSE p
             value == Merged(fetched.ram[<<1, k.row>>], k)
         IN [step(fetched, Long) EXCEPT !.ram[<<1, k.row>>] = value]

flush_primary_cache(s, y) ==
    [pipe |-> write_pixel_cache(s.pipe, s.plot.secondary),
     plot |-> [secondary |-> s.plot.primary, primary |-> EmptyCache(y)]]

WithPixel(k, x, on) ==
    [k EXCEPT !.valid = @ \union {x}, !.lit = IF on THEN @ \union {x} ELSE @ \ {x}]

Drawn(s, x, on) == [s EXCEPT !.plot.primary = WithPixel(s.plot.primary, x, on)]

draw_pixel(s, x, y, on) ==
    LET here == IF s.plot.primary.row # y THEN flush_primary_cache(s, y) ELSE s
        drawn == Drawn(here, x, on)
    IN IF drawn.plot.primary.valid = Pixels THEN flush_primary_cache(drawn, y) ELSE drawn

\* Both caches reach RAM, the older one first.
Flushed(p) == write_pixel_cache(write_pixel_cache(p, plot.secondary), plot.primary)
Cleared(k) == [k EXCEPT !.valid = {}, !.lit = {}]
Emptied == [primary |-> Cleared(plot.primary), secondary |-> Cleared(plot.secondary)]

-----------------------------------------------------------------------------
Init ==
    /\ pipe = [ram |-> [a \in Ram |-> {}], ramDelay |-> 0, ramAddress |-> 0, ramValue |-> {},
               ramb |-> 0, romb |-> 0, r14 |-> 0, romDelay |-> 0, romBuffer |-> <<>>]
    /\ code = [pbr |-> 0, r15 |-> 0, base |-> 0, lines |-> NoLines, buffer |-> Nop]
    /\ plot = [primary |-> EmptyCache(0), secondary |-> EmptyCache(0)]
    /\ running = FALSE
    /\ ended = "no"
    /\ loaded = <<>>
    /\ got = <<>>
    /\ saved = Nothing
    /\ family \in Families

\* execute(): the old byte is carried out while the next is fetched.
Executes(kind) == running /\ kind \in family /\ code.buffer # Nop
Reads(ram, rom) == loaded' = ram /\ got' = rom
Quiet == Reads(<<>>, <<>>)
Session == UNCHANGED <<running, ended, saved, family>>

Straight(p) == code' = Incremented(Fetched.code) /\ pipe' = p

\* Instructions that touch neither memory nor R15; extra is the multiplier's time.
Plain(extra) ==
    /\ running
    /\ extra > 0 => Executes("MULT")
    /\ Straight(step(Fetched.pipe, extra))
    /\ Quiet /\ Session /\ UNCHANGED plot

Store(o, v) ==
    /\ Executes("Store")
    /\ Straight(write_ram(Fetched.pipe, o, v))
    /\ Quiet /\ Session /\ UNCHANGED plot

StoreWord(o, v, w) ==
    /\ Executes("Store")
    /\ Straight(write_ram(write_ram(Fetched.pipe, o, v), 1 - o, w))
    /\ Quiet /\ Session /\ UNCHANGED plot

Load(o) ==
    /\ Executes("Load")
    /\ Straight(wait_ram_operation(Fetched.pipe))
    /\ Reads(<<pipe'.ram[<<pipe'.ramb, o>>], pipe'.ram[<<pipe'.ramb, 1 - o>>]>>, <<>>)
    /\ Session /\ UNCHANGED plot

\* Mutant: the store on its way goes to the new bank.
op_ramb_Unwaited(b) ==
    /\ Executes("RAMB")
    /\ Straight([Fetched.pipe EXCEPT !.ramb = b])
    /\ Quiet /\ Session /\ UNCHANGED plot

op_ramb(b) ==
    /\ Executes("RAMB")
    /\ Straight([wait_ram_operation(Fetched.pipe) EXCEPT !.ramb = b])
    /\ Quiet /\ Session /\ UNCHANGED plot

op_romb(b) ==
    /\ Executes("ROMB")
    /\ Straight([wait_rom_operation(Fetched.pipe) EXCEPT !.romb = b])
    /\ Quiet /\ Session /\ UNCHANGED plot

WriteR14(a) ==
    /\ Executes("R14")
    /\ Straight(write_r14(Fetched.pipe, a))
    /\ Quiet /\ Session /\ UNCHANGED plot

op_getb ==
    /\ Executes("GETB")
    /\ Straight(wait_rom_operation(Fetched.pipe))
    /\ Reads(<<>>, pipe'.romBuffer)
    /\ Session /\ UNCHANGED plot

op_plot(x, y, on) ==
    /\ Executes("PLOT")
    /\ code' = Incremented(Fetched.code)
    /\ LET s == draw_pixel([pipe |-> Fetched.pipe, plot |-> plot], x, y, on)
       IN pipe' = s.pipe /\ plot' = s.plot
    /\ Quiet /\ Session

\* RPIX.  The row is read at once, before the access is paid for.
op_rpix(x, y) ==
    /\ Executes("RPIX")
    /\ code' = Incremented(Fetched.code)
    /\ LET p == Flushed(Fetched.pipe)
       IN pipe' = step(p, Long) /\ Reads(<<p.ram[<<1, y>>] \intersect {x}>>, <<>>)
    /\ plot' = Emptied
    /\ Session

\* MERGE commands 3 to 5, a third being one row here.
fx3_clear(y) ==
    /\ Executes("CLEAR")
    /\ Straight([Flushed(wait_ram_operation(Fetched.pipe)) EXCEPT !.ram[<<1, y>>] = ClearByte])
    /\ plot' = Emptied
    /\ Quiet /\ Session

-----------------------------------------------------------------------------
\* JMP, LOOP, and moves into R15.
op_jmp(a) ==
    /\ Executes("Jump")
    /\ code' = [Fetched.code EXCEPT !.r15 = a]
    /\ pipe' = Fetched.pipe
    /\ Quiet /\ Session /\ UNCHANGED plot

op_ljmp(b, a) ==
    /\ Executes("Jump")
    /\ code' = [invalidate_cache(Fetched.code) EXCEPT
                    !.pbr = b, !.r15 = a, !.base = a - (a % LineSize)]
    /\ pipe' = Fetched.pipe
    /\ Quiet /\ Session /\ UNCHANGED plot

\* A branch, taken to a or not taken; an immediate load is one not taken.
op_branch(taken, a) ==
    /\ Executes("Branch")
    /\ LET f == Fetched
           g == read_operand(f.code, f.pipe)
       IN /\ code' = IF taken THEN [g.code EXCEPT !.r15 = a] ELSE Incremented(g.code)
          /\ pipe' = g.pipe
          /\ Reads(<<>>, f.code.buffer)
    /\ Session /\ UNCHANGED plot

op_cache ==
    /\ Executes("Jump")
    /\ LET c == Fetched.code
           b == c.r15 - (c.r15 % LineSize)
       IN code' = Incremented(IF c.base = b THEN c ELSE [invalidate_cache(c) EXCEPT !.base = b])
    /\ pipe' = Fetched.pipe
    /\ Quiet /\ Session /\ UNCHANGED plot

Halted(c, r) == [c EXCEPT !.buffer = Nop, !.r15 = r]

\* Mutant: R15 = 0 is published over a store that is still on its way.
op_stop_Early ==
    /\ Executes("Stop")
    /\ code' = Halted(Fetched.code, 0)
    /\ pipe' = Fetched.pipe
    /\ running' = FALSE
    /\ ended' = "stop"
    /\ Quiet /\ UNCHANGED <<plot, saved, family>>

op_stop ==
    /\ Executes("Stop")
    /\ code' = Halted(Fetched.code, 0)
    /\ pipe' = wait_ram_operation(Fetched.pipe)
    /\ running' = FALSE
    /\ ended' = "stop"
    /\ Quiet /\ UNCHANGED <<plot, saved, family>>

\* SAVE_AND_STOP; ok says whether the backend's save succeeds.
op_save(ok) ==
    /\ Executes("Save")
    /\ LET p == Flushed(wait_ram_operation(Fetched.pipe))
       IN pipe' = wait_rom_operation(wait_ram_operation(p))
    /\ plot' = Emptied
    /\ running' = FALSE
    /\ LET r == Fetched.code.r15
       IN IF ok
          THEN /\ code' = Halted(Fetched.code, 0)
               /\ saved' = pipe'.ram
               /\ ended' = "save"
          ELSE /\ code' = Halted(Fetched.code, IF r # 0 THEN r ELSE PcSpace - 1)
               /\ ended' = "failed"
               /\ UNCHANGED saved
    /\ Quiet /\ UNCHANGED family

-----------------------------------------------------------------------------
\* The SNES's register and RAM writes, which FxSync serialises with execution.
\* Cycles pass only while the core runs.  The SNES sets only what the program at
\* hand goes on to use.

\* R15, or SFR with GO, in which case R15 is what it was.
Go(a) ==
    /\ ~running
    /\ code' = [code EXCEPT !.r15 = a]
    /\ running' = TRUE
    /\ ended' = "no"
    /\ saved' = Nothing
    /\ Quiet /\ UNCHANGED <<pipe, plot, family>>

\* SFR without GO.
Abort ==
    /\ running
    /\ code' = [invalidate_cache(code) EXCEPT !.base = 0]
    /\ running' = FALSE
    /\ ended' = "no"
    /\ Quiet /\ UNCHANGED <<pipe, plot, saved, family>>

SetProgramBank(b) ==
    /\ ~running /\ "Jump" \in family
    /\ code' = [invalidate_cache(code) EXCEPT !.pbr = b]
    /\ Quiet /\ Session /\ UNCHANGED <<pipe, plot>>

SetR14(a) ==
    /\ ~running /\ "R14" \in family
    /\ pipe' = write_r14(pipe, a)
    /\ Quiet /\ Session /\ UNCHANGED <<code, plot>>

\* The SNES writes RAM when the GSU has finished, and the screen only when the
\* GSU finished with a save.
cpu_ram_write(a, v) ==
    /\ ended \in {"stop", "save"}
    /\ a[1] = 1 => ended = "save"
    /\ pipe' = [pipe EXCEPT !.ram[a] = v]
    /\ Quiet /\ Session /\ UNCHANGED <<code, plot>>

Next ==
    \/ \E extra \in {0, Long} : Plain(extra)
    \/ \E o \in Offsets, v, w \in StoreBytes : Store(o, v) \/ StoreWord(o, v, w)
    \/ \E o \in Offsets : Load(o)
    \/ \E b \in RamBanks : op_ramb(b)
    \/ \E b \in RomBanks : op_romb(b)
    \/ \E a \in RomOffsets : WriteR14(a) \/ SetR14(a)
    \/ op_getb
    \/ \E x \in Pixels, y \in Rows, on \in BOOLEAN : op_plot(x, y, on)
    \/ \E x \in Pixels, y \in Rows : op_rpix(x, y)
    \/ \E y \in Rows : fx3_clear(y)
    \/ \E a \in Pcs : op_jmp(a)
    \/ \E a \in Entries \union {code.r15} : Go(a)
    \/ \E b \in ProgramBanks, a \in Pcs : op_ljmp(b, a)
    \/ \E taken \in BOOLEAN, a \in Pcs : op_branch(taken, a)
    \/ op_cache
    \/ op_stop
    \/ \E ok \in BOOLEAN : op_save(ok)
    \/ Abort
    \/ \E b \in ProgramBanks : SetProgramBank(b)
    \/ \E a \in HostRam, v \in StoreBytes : cpu_ram_write(a, v)

Spec == Init /\ [][Next]_vars

-----------------------------------------------------------------------------
Pipelines == [ram : [Ram -> Byte], ramDelay : 0..Long, ramAddress : Offsets,
              ramValue : Byte, ramb : RamBanks, romb : RomBanks, r14 : RomOffsets,
              romDelay : 0..Long, romBuffer : {<<>>} \union (RomBanks \X RomOffsets)]
Codes == [pbr : ProgramBanks, r15 : Pcs, base : Pcs,
          lines : [LineNumbers -> {Invalid} \union (ProgramBanks \X Pcs)],
          buffer : {Nop} \union (ProgramBanks \X Pcs)]
PixelCaches == [row : {0} \union Rows, valid : SUBSET Pixels, lit : SUBSET Pixels]
Plots == [primary : PixelCaches, secondary : PixelCaches]

TypeOK ==
    /\ pipe \in Pipelines
    /\ code \in Codes
    /\ plot \in Plots
    /\ running \in BOOLEAN
    /\ ended \in {"no", "stop", "save", "failed"}
    /\ saved \in {Nothing} \union [Ram -> Byte]
    /\ family \in Families

\* What the program knows the RAM to be: the RAM, the write on its way there,
\* the older and the newer pixels.
Written(p) == step(p, p.ramDelay).ram
Pointed(p) == step(p, p.romDelay).romBuffer
Under(ram, k) == [ram EXCEPT ![<<1, k.row>>] = Merged(@, k)]
Known == Under(Under(Written(pipe), plot.secondary), plot.primary)

Program == INSTANCE GsuProgram WITH
    mem <- Known, now <- code.buffer, pbr <- code.pbr, r15 <- code.r15,
    ramb <- pipe.ramb, romb <- pipe.romb,
    pointed <- Pointed(pipe)

\* Each step is the step of GsuProgram that bears its name (GsuProofs).
Steps ==
    /\ \A extra \in {0, Long} : Plain(extra) => Program!Plain
    /\ \A o \in Offsets, v \in StoreBytes : Store(o, v) => Program!Store(o, v)
    /\ \A o \in Offsets, v, w \in StoreBytes : StoreWord(o, v, w) => Program!StoreWord(o, v, w)
    /\ \A o \in Offsets : Load(o) => Program!Load(o)
    /\ \A b \in RamBanks : op_ramb(b) => Program!SelectRam(b)
    /\ \A b \in RomBanks : op_romb(b) => Program!SelectRom(b)
    /\ \A a \in RomOffsets :
        (WriteR14(a) => Program!Point(a)) /\ (SetR14(a) => Program!HostPoint(a))
    /\ op_getb => Program!GetByte
    /\ \A x \in Pixels, y \in Rows :
        /\ op_rpix(x, y) => Program!ReadPixel(x, y)
        /\ \A on \in BOOLEAN : op_plot(x, y, on) => Program!Plot(x, y, on)
    /\ \A y \in Rows : fx3_clear(y) => Program!Clear(y)
    /\ \A a \in Pcs :
        /\ op_jmp(a) => Program!Jump(a)
        /\ Go(a) => Program!Go(a)
        /\ op_branch(TRUE, a) => Program!Operand(a)
        /\ \A b \in ProgramBanks : op_ljmp(b, a) => Program!LongJump(b, a)
    /\ op_branch(FALSE, 0) => Program!Operand(Plus(code.r15, 2))
    /\ op_cache => Program!Plain
    /\ op_stop => Program!Stop
    /\ op_save(TRUE) => Program!Save
    /\ op_save(FALSE) => Program!SaveFails
    /\ Abort => Program!Abort
    /\ \A b \in ProgramBanks : SetProgramBank(b) => Program!SetProgramBank(b)
    /\ \A a \in HostRam, v \in StoreBytes : cpu_ram_write(a, v) => Program!HostStore(a, v)

\* A program sees its own stores, pixels, ROM bytes and instructions in program
\* order, and so does a SNES that waits for the end of the program: the delayed
\* write, the fetch in progress, both pixel caches, the program cache and the
\* prefetch never show.
InProgramOrder == Program!Spec

\* R15 = 0 is published when the program's stores are in RAM; after a save its
\* pixels are there too, and nothing is on its way (fx_ops_control.cpp:17-26).  A
\* save that failed shows another R15.
CompletionIsTrue ==
    /\ ended \in {"stop", "save"} => code.r15 = 0 /\ pipe.ramDelay = 0
    /\ ended = "save" => plot.primary.valid = {} /\ plot.secondary.valid = {}
    /\ ended = "failed" => code.r15 # 0

-----------------------------------------------------------------------------
\* The inductive invariant of the proofs.

\* A valid line of the program cache holds the sixteen bytes the program has at
\* the line's place behind CBR, in the present program bank.
LinesCurrent ==
    \A l \in LineNumbers :
        code.lines[l] # Invalid => code.lines[l] = <<code.pbr, Plus(code.base, l * LineSize)>>

\* What a program does not use is at rest.
FamilyRests ==
    /\ "Store" \notin family => pipe.ramDelay = 0
    /\ "PLOT" \notin family => plot.primary.valid = {} /\ plot.secondary.valid = {}

EndedStopped == ended # "no" => ~running

GsuInv == TypeOK /\ LinesCurrent /\ FamilyRests /\ EndedStopped /\ CompletionIsTrue
=============================================================================
