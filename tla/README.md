# A verification of the SuperFX3 firmware

SuperFX3 is firmware for a Super Nintendo cartridge with an RP2350: core 0
serves the SNES bus from PIO interrupts, core 1 executes SuperFX (GSU)
instructions and streams audio and video from an SD card, and both share one
QSPI flash chip with the card, the SRAM saves and the ROM installer.  There is
no operating system, and most of the difficulty is in who may touch what, when,
and what happens if the console resets, the power goes or a wait times out in
between.  These modules model that.  TLC checks them on small instances.  TLAPS
proves, for every value of the constants, the safety of the hand-off between the
cores (with its refinement of an ordered command bus, also through the card's
windows on the flash), of interrupt delivery, of the save journal and the save
policy, of the audio and the video stream, of the upload and the installation of
a ROM, and that the GSU core's delays and caches do not show to a program.

Paths are relative to the repository; `fx_sync.cpp` and its neighbours are in
`src/platform/rp2350/`.

## Inventory

| Component | State | Operations | Talks to | What is hard | What makes it correct |
|---|---|---|---|---|---|
| GSU state hand-off, `fx_sync.cpp` | the FxState and its owner, gate, command ring, published snapshots, deferred IRQ clear, video lock | register and RAM reads and writes, reset, core 1's service, video acquire and release | bus handlers (core 0), GSU (core 1), video | no lock is held while core 1 executes; interrupts spin; queued against direct writes | one owner; nothing stranded when the owner changes; bus order kept; handlers return |
| GSU interrupt, `fx_sync.cpp`, `fx/fx_registers.cpp` | IRQ bit, snapshot of it, pending clear, the line | STOP, read of $3031, reset | SNES CPU | the clear is carried out later than the read it belongs to | an IRQ the CPU has not seen is not lost; the line follows the bit |
| QSPI window, `qspi_bus.cpp`, `qspi_sd.cpp`, second half of `snes_pio.cpp` | phase, bus owner, cancellation, installed handlers | open, transfer, end, poll; timeouts | both cores, SD card | core 0 executes from the flash whose pins the card takes | nobody fetches from flash meanwhile; no command is lost or reordered |
| Save journal, `storage/fx3_save_journal.cpp` | 4 slots of header and payload | restore, append | flash | power loss inside any erase or program; sequence wrap | an acknowledged save survives |
| Save policy, `qspi_save.cpp`, `qspi_rom.cpp` | enabled, last result, remembered CRC, edges | SAVE_AND_STOP, fallback save, program | journal, both cores, card | three claimants for one flash, parking the other core | exclusive flash; success means stored; the console is let go |
| Audio stream, `audio/fx3_audio_stream.cpp` | queue, FIFO, 4 HDMA pages, offer, active page, credit | play, stop, pause, resume, reset, claim, release, report, core 1's service | console, card | claims race builds and resets; blocks, water marks, silence, end | packets in order exactly once; active tables immutable; EOF complete |
| Video stream, `video/fx3_video_stream.cpp` | command slot, lock, 2 pages in GSU RAM, decoder | play, stop, release, reset, claim, core 1's service | console, card, GSU RAM | decoder cut anywhere by reads and services; RAM given back too early | frames in order and complete; lock and page kept until released |
| GSU core, `fx/*.cpp`, with FX3's graphics and commands, `fx/fx3_*.cpp` | registers, delayed RAM write, ROM buffer, pixel caches, program cache, prefetched byte | one step per instruction; register and RAM accesses of the SNES | hand-off, ROM, RAM, save policy | four delays that must not show; what STOP and SAVE leave behind | a program sees its instructions one after the other; R15 = 0 means done |
| ROM installer, `storage/snes_rom_installer.cpp` | upload pages, staging sector, erased sectors, progress | begin, stage, flush, read, finish, process, abort | USB volume, parallel flash | sectors rewritten in any order; permutes and remaps the image inside the flash it reads from; cancellation | the drive reads back; descriptor last; a complete image is the mapped file |
| USB volume and loader, `storage/usb_rom_volume.cpp`, `usb/usb_rom_loader.cpp` | FAT, directory, sectors received, session | block reads and writes, synchronise, eject, enable | installer, host computer, main loop | hosts write FAT, directory and data in any order | only a finished file that was received whole is installed |
| Parallel flash, `storage/parallel_rom_programmer.cpp`, `parallel_rom_gpio.cpp` | chip commands | erase, program, verify, wait | installer | polling with timeouts; the bus is cut off while a console is there | success means the cell holds the value |
| ROM layout, `storage/snes_rom_layout.cpp` | none | detect, map, descriptor | installer, backend | header scoring, mirrors | every mapped address has one source |
| SNES bus, `snes_bus.cpp`, `snes_pio.cpp`, `snes_bus.pio` | console presence, reset edges, PIO programs, DMA | bus service, reset, mode changes | everything on core 0 | mode changes under a running bus | the flash is programmed only while isolated |
| SD source, `sd_audio_source.cpp`, `fx3_audio_sd.cpp`, `fx3_video_sd.cpp` | mounted card, sector buffer, retry counter, two open files | open, read, close | card, audio, video | two streams share the buffer, the counter and the volume; loops in FAT chains; retries; a changed card | bytes in file order, or an error |
| FX backend, `fx_backend.cpp` | two pointers | fetch | GSU core | nothing | table look-ups |
| Build, USB descriptors, tools, `testrom`, `examples`, `boards` | none | | | | |

Interaction in one paragraph.  Core 0 runs PIO interrupt handlers for SNES
reads, writes and resets, which call `fx_sync_*`, `fx3_audio_host_*` and
`fx3_video_host_*`; its main loop calls `qspi_bus_core0_service`,
`qspi_save_task`, the USB task and `snes_bus_service`.  Core 1 loops over
`fx_sync_core1_service`, `fx3_audio_task` and `fx3_video_task`; the last two
read the card through `qspi_bus_audio_*`, which needs core 0's cooperation, and
SAVE_AND_STOP reaches `qspi_save_now` from inside a GSU instruction.

## Modules

| Module | What it is |
|---|---|
| `FxSync` | the hand-off, one action per access to a shared atomic; the properties of one GSU session |
| `FxSyncIrq` | `FxSync` with history of what the SNES CPU has been shown |
| `FxCommandBus` | the abstract bus: writes and resets take effect one at a time in bus order; `FxSync` and `SdWindow` refine it |
| `SdWindow` | extends `FxSync` by the card's window, core 0's main loop and the SRAM handlers |
| `DurableSave` | the abstract save: a cell that survives power loss |
| `SaveJournal` | the journal, which refines `DurableSave` |
| `QspiSave` | the save policy over the abstract cell, with all owners of the flash |
| `AudioStream` | the audio stream between core 1 and the console |
| `VideoStream`, `MCVideoStream` | the video stream, and movies for TLC |
| `SdSource`, `MCSdSource` | the files under both streams, and cards for TLC |
| `GsuProgram` | the abstract machine a GSU program may rely on: instructions take effect one after the other |
| `Gsu`, `MCGsu` | the core with its delays, caches and prefetch, which refines `GsuProgram`; kinds of programs for TLC |
| `RomUpload`, `MCRomUpload` | the drive, the staging of its blocks in the flash, the main loop around them; hosts for TLC |
| `RomLayout` | which unit of an image the SNES sees at which address |
| `RomInstall`, `MCRomInstall` | the installation of an uploaded ROM in place, and uploads for TLC |
| `FxSyncProofs` | the proofs about `FxSync`, `FxSyncIrq` and `SdWindow`, and that the first and the last refine `FxCommandBus` |
| `SaveProofs` | the proofs about `SaveJournal`, with the refinement of `DurableSave`, and about `QspiSave` |
| `GsuProofs`, `AudioStreamProofs`, `VideoStreamProofs`, `SdSourceProofs`, `RomUploadProofs`, `RomInstallProofs` | the proofs about the modules of those names, with the refinement of `GsuProgram` |

How they compose: `FxSyncIrq` and `SdWindow` extend `FxSync`, and so do their
proofs: one module has the three.  `QspiSave` uses the
journal as the cell of `DurableSave`, which `SaveJournal` is shown to be.
`RomUpload` ends where `RomInstall` begins.  `SdSource` is the file that
`AudioStream` and `VideoStream` read through actions that may answer late,
short, or with an error.  `Gsu` is one step of `FxSync`'s core 1.

### FxSync

The FxState is reduced to what the two cores can tell apart: running, IRQ, the
prefetched NOP, the bus grants of SCMR, and one bit for all registers that only
a stopped GSU accepts.  Core 0's handler has a program counter `pc0` and the
access `op0` it serves; core 1 has `pc1`, the command it popped and the
snapshot it will publish.  `gate` is the critical section.  Each action is what
happens between two accesses the other core can tell apart, so handlers that
take the gate twice, the check of `owner` before a queue, and the publication
after the release are all exposed.  A full ring makes the handler leave the
gate and come back (`WriteFull`, `ResetFull`).  The video lock is taken and
given by core 1 (`VideoAcquire`, `VideoRelease`).

`FxSyncIrq` adds `unseen` (an IRQ that no read has returned yet) and `paced`.
The code notes that a deferred clear has no event-level identity
(`fx_sync.cpp:284-285`): a CPU that polls $3031 faster than core 1 republishes
may arm a second clear from the same snapshot, and the line is lowered outside
the gate.  What is said of single interrupts is therefore said of a CPU that
has waited for its accesses to settle and acknowledged an IRQ before it started
the GSU again.  The other interleavings are still explored.

### SdWindow

Phases Idle, Requested, Preparing, Active, Ending are those of `qspi_bus.cpp`.
Core 1's exchange is `win`, core 0's main loop `main`, the handlers that copy
the normal ones in SRAM are `sd`, and the drain `dr`.  Interrupts preempt the
main loop only.  Bits on the wire, pin switching and the card's command set are
one step.  `SdAccess` does not start while a console reset is pending, because
the reset interrupt has priority.  `SdResetPulse` is bounded: the console
does not pulse its reset again while one waits for a full ring.  Two assumptions
have names, and are made with `Room = TRUE` only: no write arrives for which the
ring has no slot while core 0 prepares a window (`RoomToPrepare`), and the
console does not pulse its reset again before core 1 has taken the last one
(`ResetApart`).

### SaveJournal

A slot is erased, torn or whole, separately for header and payload.  A power
loss may come between any two flash operations and inside each.  The header
sequence that the CRC does not cover is never read from a torn header, a header
whose programming fails is torn, and the read-back compare is exact.  Sequence
numbers wrap at `SeqMod`, compared by signed difference as in the code.

### QspiSave

Three owners ask for the flash: core 0 (`c0`: fallback saves on a reset or
disconnect edge, and programming), core 1 (`c1`: SAVE_AND_STOP, card windows)
and the window itself.  `flashing` parks the other core.  The journal is the
atomic cell of `DurableSave`; `since0` and `since1` are the contents SRAM has
had since a save was asked for, and say what that save may store.  The reset
pin is read and the reset output asserted in one step.  `Loader` re-enables
saving when an installation ends, without owning the bus.  That none ends while
a SAVE_AND_STOP is under way is a bound on the environment: receiving an image
outlasts the second that a save begun before the console went away can take
(see the hazard at `qspi_save.cpp:111`).

### AudioStream

An asset is its length in packets of 3 bytes; contents are positions in it.
`stream` is core 1's private state, `pages`, `offered` and `active` change
hands under `g_page_gate`.  Core 1's `fx3_audio_task` is cut where core 0 can
see it: a command, a refill, selecting, filling and offering a page, the
status.  A scan of the pages outside the gate is one step, because only core 1
makes a page non-free or ready: whatever the scan finds was true at one of its
reads.  Fill level and rate phase choose a page's size, so the size is any of
`PagePackets`.  `credit` is what the SPC can still take.  `heard` and `strobe`
remember what the console has claimed in this session.  `MaxSilence` bounds
silent pages per session; a starved session beyond it waits, as one that has a
page ready does.

### VideoStream

A movie is a sequence of units.  A header is two units, so that a read can cut
it; stored bytes are one each, and PackBits runs on real tags.  The decoder is
one action per tag, repeated byte and output byte, with the state that survives
a read or a service (`run`, `repeat`, `need`, `stored`).  `fail`, `stop` and
`release` are those of the code: the first two keep the page on display and
the lock.  `owner` says whose the GSU RAM is; that video gets it only from a
stopped GSU is `FxSync`'s `VideoAcquire`.

`FormatAssumption` is what a file is, whatever is damaged in it: a header, then
frames of a header and as many stored bytes as it says, cut anywhere, with nothing
known behind a header that is not sound.  Whether a movie is damaged is not a
list but computed: `Valid` unpacks the stored bytes with a PackBits that takes a
byte whole (`Unpack`), without reads, services or the decoder's four variables,
and wants of each frame what the format asks.  `VerdictIsRight` compares the
code's verdict with it.

### RomInstall

`SnesRomInstaller::process` turns an uploaded file into the image the console
sees, inside the flash that holds the file.  `RomLayout` has the address maps,
the mirroring, and the image sizes for which detection looks for each map
(`DetectedMaps`); which of these a file is found to be is part of the upload.
A cell is 32 KiB, half a bank: every map, every accepted
size and every boundary of `install` is a multiple of it, and the erase sector
is four cells.  Contents are positions in the image, so that a misplaced unit
always shows.  What the program does page by page inside a cell is one step.

* `Swap` is `materialize_upload`: the next page that is not in its place changes
  places with the one that is there, and `Moved` follows the source of the
  page that had to go.  The staging sector of `write_staged` is a cache of this
  and does not appear; a swap that fails (`SwapFails`) leaves at most one
  sector torn.  The four spill pages are one more cell behind the flash.
* `Check`, `CopyErase`, `CopyBurn`: detection, `mapping_fits`, and the copier
  header that `copy_to_temp` strips by moving everything down.
* `FxProgram`: the part for the GSU in the QSPI flash.
* `Erase`, `Burn`, `Programmed`: `program_range` in the order of `ProgramOrder`,
  with `rep` and `final`; then `build_representatives`.
* `DescriptorWords`, `DescriptorMagic`: the descriptor, its magic last.
* `FlashFails`, `FxFails`, `DescriptorFails`: an erase, a program or a
  verification that fails, anywhere.  `Console` toggles the presence of a
  console at any time, and `Unmount` aborts wherever `hooks_.service` runs.

The upload is what `finish` accepts (`Init`), which `RomUpload` is about.  How a
header is scored is not part of the module; a dump has no 256-byte trailer; a
FAT chain is scattered by cells.  The properties say nothing of an interrupted
installation but that its own descriptor is not valid.  An upload that does not
reach the descriptor's sector and is interrupted before it is programmed leaves
the descriptor of the ROM before it; README.md:320 says that an interruption
requires uploading again.

The model is one call of `process()`, which returns, so the run allows a
deadlock at the end.

### RomUpload

The host's writes go to `disk` (what it has written since the drive was
mounted), `fat` and `root`.  `at` is where the main loop is (`Cancel`,
`Service`, `Enable`, the USB task and inside it one callback, `Process`).  A data write
is `Stage`: it flushes the buffered sector when another one is touched, and
loads the new one from the flash, or as blank if it was not erased in this
session.  A flush is `Erase` and, block by block, `Burn`; either may fail or be
torn, and while the presence pin is active nothing reaches the chip and nobody
is told (`parallel_rom_gpio.cpp:54`).  `Eject` checks the directory, the chain
and that every block was received before `finish`.  Blocks have the contents the
properties need: the erased one and one other, one of which has DQ7 set, since
the poll compares that bit.  What becomes of a file that was accepted is
`RomInstall`; here it is one step that succeeds or fails.

### Gsu and GsuProgram

The core pipelines what a program must not notice: a store reaches RAM, and a
write of R14 fetches its ROM byte, `Long` cycles later; plotted pixels wait in
two caches of a row each; program bytes come from a cache of lines; and the
next byte is fetched while one executes.  An instruction is an action, which
returns the pipeline after the operations that `fx_memory.cpp` performs, in their
order.  Time passes only as those operations let it.  The operands of an
instruction are any, so that every program of its `family` is covered; the
program byte executed is identified by its place.  `GsuProgram` has the same
actions without any delay, and `InProgramOrder` is the refinement: `mem` is RAM
with the write on its way and both pixel caches applied, `pointed` is the byte
the ROM buffer holds or will hold, `now` is the prefetched byte.
`CompletionIsTrue` is about the end: R15 = 0 is what the SNES polls for, and by
then the RAM is what the program left.  Abort by SFR and restart are actions.

A row of the screen is one byte and its planes are written alike.  Programs keep
two ways to the screen apart (`FamiliesAssumption`): one that plots reads back by
RPIX and neither stores nor loads, because a load does not see the pixel caches;
and STORE does not meet RPIX, because RPIX right after a STORE into the same row
reads the first plane before the store arrives, as MesenCE does, which no program
can rely on.  `Steps` says of each action by name which action of `GsuProgram` it
is.  A plain STOP leaves pixels in the caches; only SAVE_AND_STOP drains them,
so that the SNES writes to the screen only after a save in the model.  After an
abort by SFR no cycle passes until the restart, so that a pending store stays
pending and the byte prefetched is the first to be executed.

### SdSource

The calls of both streams run on core 1, one at a time (`call`), a step for each
sector they need.  A sector comes from the buffer if `cached` says so, else the
read is `Fetched`, `PutOff`, `Failed` (retried until `errors`, which both
streams share, is at its limit) or `Refused` (the card has to be initialised
anew).  `cached` is what the code believes, `buffer` what the buffer really
holds, and a unit copied carries the card and sector it came from.
`FollowChain` has the code's cycle detection.  `ChangeCard` takes the card out,
or puts another one in, at any moment.  Mounting (card identification, partition
table, boot sector) is one step that succeeds or fails.

## Runs

| Run | Question | Bounds, and why they suffice |
|---|---|---|
| `FxSync` | one owner, nothing stranded, video excluded, and every handler, queued command and armed clear ends | ring of 2 slots (one command fills it), FX3, GO and STOP writes, reads of $3031, resets at any time |
| `FxSyncIrq` | refinement of the ordered bus, settled snapshots, unseen IRQs | ring of 3 (two commands, so that order matters), GSU profile with STOP interrupt, SFR and SCMR writes |
| `SdWindow` | nothing fetches from flash while the card has the pins; one owner; order through a window; every access is served and every exchange ends | ring of 2, which with the command core 1 holds and a waiting reset makes three to keep in order; `Room = TRUE`, resets apart; safety with `Room = FALSE` and in larger rings is proved |
| `SdWindow_full` | the same liveness without room: violated | ring of 2, `Room = FALSE` |
| `SaveJournal` | an acknowledged save survives | 4 slots as in the code, two contents, sequence numbers modulo 8 (more than twice the slots, so that the signed comparison is meaningful, and wrapping within the run) |
| `QspiSave` | one flash owner, skipped saves are safe, OK means stored, the console is let go, SAVE_AND_STOP ends | two contents of SRAM: one that is saved, one that differs |
| `AudioStream` | the offered page is next, EOF is complete, active tables do not change, sessions end | 2 pages (one active, one built), an asset of 10 packets with pages of 6 (two BRR blocks of 3 packets; the asset ends inside a block, so the last page is shorter and the odd packet is dropped), a ring of two slots (one queued command), low water of one page, SPC segments of one packet, of which four start it and seven fill it |
| `VideoStream` | frames come complete and in order, verdicts are right, page and lock are kept, RELEASE unlocks, movies end | the code's two pages, three frames, so that pages are reused; reads of 1 to 3 units and services of 2 bytes cut every header and run everywhere; a damaged movie for each check of the format |
| `SdSource` | bytes in order, errors only for damage, no stream waits for ever for a dead card | a volume of 7 clusters of 2 sectors of 2 units; two cards, with a fragmented file of three clusters, one whose chain leaves the volume, one whose chain loops, and one that is missing; requests of 3 units, which cross sectors and clusters; the error counter stops at its limit |
| `Gsu` | the core implements `GsuProgram`; R15 = 0 means done | two RAM banks and offsets, two ROM bytes and banks, two rows of two pixels, 6 program places with a cache of 2 lines of 2 (a third of it is outside); a cached access takes 1 cycle and a memory access 5, so that every delay may end at every later instruction; five families of instructions: stores and loads, ROM bytes, pixels, CLEAR over stores, jumps |
| `RomUpload` | the drive reads back what was written, the installer gets exactly the file, the flash changes only in isolation | pages and sectors of 2 blocks, a flash of two sectors and a spill page behind it, two contents in one sector (a rewrite), two directories (one with two files, one refused) and two FATs (in order, and scattered) |
| `RomInstall` | a finished installation or a valid descriptor means a complete image, in both flashes, that reads back; what fits is installed; an abort is final; bringing the upload into file order ends | 19 images in order (each map; full, partial and odd sizes, on devices of 1 to 16 MiB), and headers, dumps, raw images, a file that is not detected, and every order of three scattered pages of a small file; real sector geometry |

Type invariants are not in the configurations: those of `FxSync`, `SdWindow`,
`SaveJournal`, `QspiSave`, `AudioStream`, `RomUpload` and `SdSource` are proved as
theorems of their own, those of `FxSyncIrq`, `VideoStream`, `RomInstall` and `Gsu`
as part of their inductive invariants.

### What the violation says

`SdWindow_full`: core 1 waits in `qspi_bus_audio_begin` for Active and does not
drain the ring.  If the ring fills while core 0 is between Preparing and Active,
a write handler spins for a slot, core 0 never stores Active, and core 1's
timeout only works from Requested.  The comment at `qspi_bus.cpp:96` means to
exclude exactly this.

### Fairness

* `FxSync`: strong fairness of core 0's handler and of core 1's service: both
  are loops that nothing blocks, and the gate between them is held for a few
  instructions with interrupts off, so neither is locked out for ever.  Nothing
  is assumed of the SNES or of the GSU program.  `ClearHonoured` assumes that
  core 1's drain loop ends (`DrainEnds`): the SNES writes at most once per few
  hundred nanoseconds and core 1 applies much faster, but the loop itself has no
  bound.
* `SdWindow`: also of core 0's main loop, which moves between interrupts, and of
  core 1's steps of an exchange; core 1 makes finitely many exchanges before it
  serves the GSU again (main.cpp:64-70).
* `QspiSave`: strong fairness of each core's own steps; a core is disabled only
  while the other parks it for a flash operation, which ends.  Nothing makes the
  guest save or read the card.
* `AudioStream`, `VideoStream`: weak fairness of core 1's task; strong fairness
  of a read that answers, since the card returns "retry" only while busy; weak
  fairness of the console's claim of the page it is offered.  Audio also has
  the console release pages and let the SPC run empty, as README.md:114 asks of
  a player.
* `SdSource`: weak fairness of the steps that need no card; for each stream,
  strong fairness of a sector read that comes to an answer, since the bus is not
  busy for ever; and a stream with a file goes on reading it or closes it, which
  is what the two stream tasks do.  Nothing is assumed of the card.
* `Gsu`, `RomUpload`, `RomInstall`, `SaveJournal`: safety only.  Programs, hosts
  and power supplies may do nothing.

## Proofs

Each theorem holds for every value of the constants that meets the module's
`ASSUME`s, which TLC evaluates in each run.  None of the safety properties is
inductive.  Each module of proofs states the invariant that is, has one lemma
per action or kind of action, and combines them with PTL.  TLC checked each
invariant before it was proved.

`FxSyncProofs` (every ring of at least 2 slots, chip and set of accesses):
`TypeCorrect`, `InductiveInvariant`, `Exclusive`, `Stranded`, `VideoRam`,
`SettledSnapshots`.

* `IInv` says who holds the gate at each program counter (`GateHeld`), that core
  1's places past the hand-over imply `owner`, that a core 0 between its test of
  `owner` and its direct access holds the gate, and that a state released has an
  empty ring (`Handover`).
* `Published` is why a snapshot can be trusted: it says at each place of core 1's
  release, and of core 0's direct accesses, which parts of the published state
  are already those of the FxState.

`CommandsInOrder` is the refinement `Spec => OrderedCommands`.  The abstract
backlog is the ring from its read to its write index, with the command core 1 has
popped but not yet applied in front.  Lemmas about the ring as a sequence (an
empty one, a push, a pop, for indices that wrap) come first; every step of
`FxSync` then is a push, the head taking effect, a direct access with the backlog
empty, or a stutter.  That last case is where `IInv` is needed: core 0 touches the
state itself only if nothing is queued.

`IrqInvariant`, `LineShows` and `UnseenIrqStays` are about `FxSyncIrq`, for the
CPU that its section describes.

* `IrqInv` adds to `IInv` what is true of every CPU (`IrqBase`: an IRQ on the line
  or unseen is in the FxState, and core 1 keeps a stopped GSU only for a command
  or a clear), and three parts for a paced one.  Nothing on its way to core 1
  starts the GSU (`StartsDirect`); while the GSU runs there is no IRQ that anybody
  could be clearing, unless a reset is coming (`RunsUnmarked`); and whoever takes
  an IRQ away or lowers the line does so for one that was seen, or before a reset
  (`ClearsSeen`).
* The middle part is the reason: an IRQ is raised by a running GSU, so that no
  clear that was armed for an older one can meet it.

`WindowTypeCorrect`, `WindowXipQuiet`, `WindowStranded`, `WindowSettled`,
`WindowIsExclusive`, `QueueInvariant` and `WindowInOrder` are about `SdWindow`,
also with `Room = FALSE`.

* `WindowInv` ties the phase, the bus owner and core 1's place in an exchange to
  core 0's main loop and the installed handlers (`Protocol`), and has the gate
  for the SRAM handlers.  A cancelled or timed-out request is what makes the
  protocol part long: core 0 may still be preparing for a core 1 that gave up.
* `HandoffInv` carries `Handover` and `Published` through a window, in which core
  0's handlers clear an IRQ without publishing it: core 1 owns the state
  throughout and publishes before it gives it up.
* `QueueInv` is about the reset that found the ring full.  Its place
  (`sdPosition`) is always among what is queued, and none is remembered once the
  window is over (`Marked`).  The second part is a matter of counting: the last
  drain takes at most `Size` commands, fewer than `Size` are in front of the
  reset, and none joins them there, so that the drain reaches it.
* `WindowInOrder` refines `FxCommandBus` with the ring, the remembered reset put
  into its place among the commands, and the command in hand in front.  Steps of
  `FxSync` outside a window are the steps of `BusStep`; inside, a push, a mark, a
  pop and the two ways to apply are matched by lemmas on putting an element into
  a sequence (`InsertFirst`, `InsertLast`, `InsertBehind`, `InsertBefore`).

`SaveProofs`, the journal (every set of contents, every modulus of at least 8):
`JournalTypeCorrect`, `JournalOrdered` (the inductive invariant),
`NewestIsUntouched`, and `JournalIsDurable`: the journal implements `DurableSave`.
The invariant says that valid records carry sequence numbers whose distances
follow their slots, so that the scan's signed comparisons are transitive although
sequence numbers wrap.

`SaveProofs`, the policy (every set of contents): `SaveTypeCorrect`, `SaveInvariant`,
`SaveFlashExclusive`, `SaveSkipIsSafe`, `SaveOkMeansDurable`.  `Inv` adds at which
places a core owns the chip or writes it (`Owners`), where both cores are in each
phase of a window (`Window`), and that a save still to be written writes what
SRAM has held since its request (`Fresh`).

`AudioStreamProofs` (every asset, number and size of pages, FIFO, queue and water
marks): `StreamInvariant`, `StreamTypeCorrect`, `StreamOfferIsNext`,
`StreamEofIsComplete`, `StreamActiveImmutable`.  The heart of `AInv` is `Chain`:
the pages between core 1 and the console, ordered by generation, form a chain
without a gap from the last packet claimed to the last that left the FIFO.
`OfferIsNext` alone says nothing of the pages behind the one offered, which are
offered later, nor of the one being filled.

`VideoStreamProofs` (every set of movies that meets `FormatAssumption`, every size
of a read and of a service): `VideoInvariant`, `VideoLockCoversPages`,
`VideoActiveKept`, `VideoData`, `VideoOfferedIsNext`, `VideoValid`,
`VideoVerdictIsRight`.  Three invariants, each on the one before.

* `VInv` says where a file is open and the RAM empty, that the marks in the pages
  agree with `active` and `g_building`, and that the ready pages carry the numbers
  from the next frame to the last one staged, one each.
* `DataInv` adds the place in the file.  What is read and not yet used and what is
  not yet read are the last units of the file (`InPlace`); between frames the
  place is where the headers passed are as many as the frames staged, and within
  one it is among the bytes of the next frame (`Progress`).  So a page that
  becomes ready holds the frame of its number, and `OfferedIsNext` follows.
* `ValidInv` adds the decoder.  `Agrees` relates its page, run, `repeat`, `need` and
  `value` to the reference after the same bytes: the reference has written a
  repeated run as soon as it has its byte, and is ahead by what is left of it.
  Then a tag that is refused, a frame that ends too soon or too late, and a CRC
  that differs are so for the reference too, and the movie is damaged; and one
  that ends has only valid frames (`Told`).

`SdSourceProofs` (every set of cards, FATs, files, and sizes of sectors and
clusters): `SourceInvariant`, `SourceTypeCorrect`, `BytesHold`, `VerdictHolds`.

* `SInv` says where a call may be (`Control`), that the buffer holds the sector it
  is said to hold, from the card that is initialised and that every open file is
  on (`Cached`), and that a file's record follows its chain (`Tracks`): the cluster
  is the one its position lies in, and the remembered cluster was not met again.
* `BytesInOrder` then is arithmetic (`UnitOf`): the sector and the place in it that
  `read_file` computes from its offset in the cluster are those of the position.
* `ChainVerdict` has two halves.  `Verdicts` is what makes the first one inductive:
  a file that was lost has a reason, also before its stream is told.  The second
  bounds Brent's search for a loop.  A walk that has not come by a remembered place
  again has met as many places as it passed before or since (`NoMeeting`); so
  neither the power of two nor the steps after it can outgrow the clusters.

`RomUploadProofs` (every geometry, host, directory and FAT): `UploadTypeCorrect`,
`UploadReadsBack`, `UploadDelivers`, `UploadIsolated`.  `UploadInv` says that the
drive is enabled only while the console is disconnected, but for the moment
before the main loop takes it away (`Owned`), that an upload belongs to a mounted
drive (`InSession`), and that a clean buffer is a verified sector of the flash
(`Buffered`).  `DeliverInv` adds what the checks of an ejection have established
by the time `finish` runs.

`RomInstallProofs` (every set of uploads: map, size, device, order of the file's
pages, with and without a copier header, plain or a dump): `InstallInvariant`,
`InstalledHolds`, `AbortFinal`, `SwapsAlwaysConverge`, `NeverRefusedHolds`.

* `RInv` says at each place of `process()` where the image is.  While pages are
  swapped, `pages` and the flash agree and no two parts of the file share a page
  (`FileInPages`); while the copier header is removed, what is in front of the
  present sector is in place and what is behind it is still shifted (`Copied`);
  while the map is programmed, sectors not yet final hold the part of the image
  that was uploaded there (`SourcesLeft`), final ones show the image
  (`FinalShows`), and a unit with a representative is found there
  (`Representing`).
* `Committed`: a descriptor in the flash means the end of an installation, over a
  flash that shows the whole image (`Whole`).
* `SwapsConverge`: a swap brings one more page to its place, because the page it
  takes the place of was not in its own.
* `NeverRefused` needs an invariant of its own, `NRInv`: past `mapping_fits` the
  image is one that the device can show (`Fits`: a unit of the flash has at most
  one unit of the image to show), and whatever a final sector shows has a
  representative (`AllRepresented`).  That leaves one question, about
  `ProgramOrder` alone: may a sector need a page which has been overwritten and
  which no final sector shows?  `NoneLost` answers it map by map.
  - LoROM, downwards: what a place shows never lies above it, so that the page is
    still there (`LoRomFound`).
  - HiROM: up to 4 MiB a place shows what was uploaded to it, so that a page that
    is programmed over is shown where it was (`HiRomStays`); on larger devices the
    odd quarters come first (`OddQuartersFirst`) and show the whole image
    (`HiRomFound`).
  - ExLoROM and ExHiROM need the 16 MiB device (`ExtendedNeeds`), whose upper half
    comes first (`UpperHalfFirst`): a unit is shown there, or in the lower half not
    above the page it was uploaded to (`ExtendedFound`).
  - FX3: the half that does not hold the upload comes first, and its upper part
    shows the image as a linear one (`Fx3Found`); on smaller devices only an image
    of one unit fits (`Fx3Small`).
* The proof found what `NeverRefused` rests on besides the order: that detection
  gives an extended map only to an image of more than 4 MiB.  `DetectedMaps` has
  the sizes at which `snes_rom_detect` looks for each map, and
  `UploadsAssumption` asks them of a detected upload.
* That a unit's mirrored offset lies in the image, and is the position itself
  where the image has one, is a recursive computation; `MirrorAssumption` states
  it and TLC evaluates it for all 512 sizes and every offset that a map asks for,
  so that nothing is assumed.

`GsuProofs` (every geometry of the program cache, access times, program space and
family that meets `FamiliesAssumption`): `Invariant`, `CompletionHolds`,
`Refinement`, `StepByStep`.

* `GsuInv` is small: types; a valid line of the program cache holds the bytes the
  program has there (`LinesCurrent`); a write buffer or a pixel cache that the
  family does not use is empty (`FamilyRests`); an ended program does not run;
  and `CompletionIsTrue`, which is inductive with them.
* The refinement is about what time does.  `Known` is RAM with the write on its
  way (`Written`), the older and the newer pixels (`Under`) applied; `Pointed` is
  the byte that the ROM buffer will hold.  `StepLater` says that time passing
  leaves both alone (`Later`), and each of the memory operations is shown to
  change them as the instruction should or not at all; then there is a lemma per
  instruction.

Only model-checked: all liveness (`AccessesFinish`, `ClearHonoured`,
`AccessServed`, `ExchangeEnds`, `SavesEnd`, `SessionEnds`, `SessionsEnd`,
`DeadCardNoticed`).  Liveness under fairness and ENABLED are out of the prover's
reach; every invariant and every action property that a run checks is a theorem.

The library's induction over numbers takes a predicate as a parameter, which the
provers cannot instantiate; `SdSourceProofs` and `VideoStreamProofs` have it for a
set instead, from a least element (`Induction`), and prove with it what their
recursive functions hold (`Chain`, `Unpacked`).

## Not modelled, and limits

General:

* A torn register snapshot: R0-R15 are published one atomic at a time
  (`fx_sync.cpp:119`, a FIXME).  Register values are data here.
* Arithmetic, flags and prefixes of GSU instructions; programs in RAM; uploads
  into the program cache's window; the WAIT of the GSU1/2 profiles
  (`fx_memory.cpp:79-80` notes what it lacks); reset in the middle of a program;
  planes of a row that are written one by one.
* `fx_backend.cpp`: look-ups behind callbacks, with no behaviour of its own.
* Header scoring of ROM images; the FAT12 and FAT16 packing of the drive, its boot
  sector and readme; the command bytes and timing of the parallel flash; the PIO
  programs and DMA of `snes_pio.cpp`; USB descriptors, tools, test ROM, examples.
* Error codes and statistics of the audio stream, palette and map checks of
  video frames, the strobe's wrap at 256.
* `SdSource`: mounting is one step, directories have one sector.

Behaviour that the models follow, and that a maintainer may want to know of
although no document of the repository contradicts it, or no run refutes it:

* Commands queued between the request and the service of an audio or video
  reset are dropped with the older ones (`fx3_audio_stream.cpp:435`).
* `qspi_save_task` consumes a reset or disconnect edge and saves once.  If a card
  exchange has the bus it is refused, nothing retries, and `qspi_save_last_ok()`
  keeps the result of the save before it (`qspi_save.cpp:134`).
* `qspi_save_set_enabled` stores the result without owning the bus
  (`qspi_save.cpp:111`).  `Loader` has no installation end during a SAVE_AND_STOP,
  since receiving an image outlasts the second such a save can take.
* A sector is erased before `active()` is looked at (`snes_rom_installer.cpp:376`
  and `:381`), so that a host that disconnects during the GSU's part still has
  one sector of the parallel flash erased; the flash of the tests asserts busy
  (`snes_rom_installer_tests.cpp:68`).  The descriptor is not written.
* The pin may become inactive between the reads at `main.cpp:120` and `:122`, so
  that `snes_bus_service` reconnects the console before the loader is cancelled
  at `:124`.  No flash write happens in between (`IsolatedWrites`).
* Commands to the parallel flash are dropped silently while the pin is active;
  verification finds out (`ReadsBack`).
* After the host unmounts or an upload is aborted every data write fails until
  the drive is disabled and enabled again.
* `g_read_errors` is shared: a bad sector of one stream is retried for as long as
  the other stream reads a new one between every two tries.  The test of
  "persistent CRC error" has one stream.  In practice video rests.
* An error of one stream unmounts the volume and ends the other one, and an open
  that finds the bus busy fails instead of being retried.
* The cycle detection lets a loop of two be replayed before it is refused.

## Plan

Done: `FxSync`, `FxSyncIrq`, `FxCommandBus`, `SdWindow`, `SaveJournal`,
`QspiSave`, `AudioStream`, `VideoStream`, `SdSource`, `Gsu`, `RomUpload`,
`RomLayout` and `RomInstall`, and the proofs above.

Next, in this order:

1. `ParallelRom`: the command sequences and both polling modes against a chip that
   toggles, shown to implement the one-step chip of `RomUpload`.
2. `SnesBus`: presence, reset edges and mode changes with the DMA set-up.
3. `FxFlags`: flag and arithmetic operators against reference definitions, TLC only.
