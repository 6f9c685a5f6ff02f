----------------------------- MODULE RomUpload ------------------------------
(***************************************************************************)
(* The upload of a ROM over USB: the FAT drive (storage/usb_rom_volume.cpp)*)
(* with its callbacks (usb/usb_rom_loader.cpp), the staging of its blocks  *)
(* in the parallel flash (begin, stage, flush, read and finish of          *)
(* storage/snes_rom_installer.cpp over parallel_rom_programmer.cpp), and   *)
(* the main loop, which connects and disconnects the drive.                *)
(*                                                                         *)
(* A host writes data, FAT and directory in any order.  Data goes into one *)
(* sector buffer; a block of another sector flushes it.  What the drive    *)
(* holds when the host ejects it is handed to the installation, which is   *)
(* module RomInstall and one step here.                                    *)
(*                                                                         *)
(* The console's presence pin may change at any time, for any duration.    *)
(* While it is active the flash receives nothing (parallel_rom_gpio.cpp),  *)
(* and nobody is told so.  A callback runs to its end before the next one: *)
(* inside a callback the host is not served (g_in_msc_callback).           *)
(***************************************************************************)
EXTENDS Integers, FiniteSets, Sequences

CONSTANTS
  PageBlocks,    \* blocks of a cluster, which is a page
  SectorBlocks,  \* blocks of an erase sector
  Capacity,      \* blocks of the flash
  SpillPages,    \* pages kept in RAM behind it
  Overhead,      \* blocks a file may be larger than the flash
  Data,          \* contents of a block
  HostData,      \* what hosts write to each block
  Blank,         \* the erased content
  HighBit,       \* contents whose first byte has DQ7 set
  Unwritten,     \* not a content
  Directories,   \* what hosts write into the root directory
  Fats           \* what they write into the FAT

None == -1                                    \* INVALID_ADDRESS
End == -1                                     \* an end-of-chain mark
Invalid == -2                                 \* any other number that is no data cluster

BlockCount == Capacity + SpillPages * PageBlocks
Blocks == 0 .. BlockCount - 1
FlashBlocks == 0 .. Capacity - 1
PageCount == Capacity \div PageBlocks + SpillPages
Pages == 0 .. PageCount - 1                   \* cluster - 3
SectorOf(b) == b \div SectorBlocks
InSector(s) == {b \in FlashBlocks : SectorOf(b) = s}
Sectors == {SectorOf(b) : b \in FlashBlocks}
BlockOf(page, j) == page * PageBlocks + j

Types == {"Sfc", "Smc", "Raw"}
Entries == [type : Types \cup {"Other"}, size : Nat, first : Pages \cup {Invalid}]

ASSUME GeometryAssumption ==
  /\ PageBlocks \in Nat \ {0} /\ SectorBlocks \in Nat \ {0}
  /\ Capacity \in Nat \ {0} /\ SpillPages \in Nat /\ Overhead \in Nat
ASSUME DataAssumption ==
  /\ Blank \in Data /\ HighBit \subseteq Data /\ Unwritten \notin Data
  /\ HostData \in [Blocks -> SUBSET Data]
ASSUME MetadataAssumption ==
  /\ Fats \subseteq [Pages -> Pages \cup {End, Invalid}]
  /\ Directories \subseteq Seq(Entries)

VARIABLES
  pin,         \* the console's presence pin
  present,     \* g_console_present: the translators are connected
  enabled,     \* g_enabled of the loader
  at,          \* where the main loop or the callback is
  todo,        \* the callback under way
  k,           \* the block that flush is programming
  fat, root,   \* the drive's metadata
  received,    \* blocks written
  started,     \* sink_started_
  sent,        \* completion_sent_
  status,      \* status_
  busy,        \* busy_, and the busy IRQ
  sector,      \* staging_sector_
  dirty,       \* staging_dirty_
  buffer,      \* sector_buffer_
  erased,      \* erased_sectors_
  spill,       \* spill_
  upload,      \* what finish() has been given
  flash,       \* the parallel flash
  disk         \* history: what the host has written since the drive was enabled

volume == <<fat, root, received, started, sent>>
installer == <<status, busy, sector, dirty, buffer, erased, spill, upload>>
loop == <<pin, present, enabled>>
vars == <<loop, at, todo, k, volume, installer, flash, disk>>

-----------------------------------------------------------------------------
(* The installer's state.                                                  *)

Failures == {"InvalidFile", "UnsupportedFlash", "FlashError", "Aborted"}
Statuses == {"Idle", "Receiving", "Ready", "Programming", "Complete"} \cup Failures

NoBuffer == [b \in {} |-> Blank]
NoUpload == [type |-> "Sfc", size |-> 0, pages |-> <<>>]
Nothing == [op |-> "none"]
Writes == {w \in [op : {"write"}, block : Blocks, data : Data] : w.data \in HostData[w.block]}

\* Mutant: presence is what the pin says now.
UsbMode_Pin == ~pin

UsbMode == ~present /\ ~pin                   \* snes_bus_usb_mode
Active == busy /\ UsbMode                     \* SnesRomInstaller::active

Fail(as) ==
  /\ status' = as /\ busy' = FALSE
  /\ sector' = None /\ dirty' = FALSE /\ buffer' = NoBuffer
  /\ UNCHANGED <<erased, spill, upload>>

\* SnesRomInstaller::abort.
AbortUpload ==
  IF busy \/ status = "Ready" THEN Fail("Aborted") ELSE UNCHANGED installer

\* SnesRomInstaller::read_staged.
Staged(b) ==
  IF b >= Capacity THEN spill[b]
  ELSE IF sector = SectorOf(b) THEN buffer[b]
  ELSE IF SectorOf(b) \in erased THEN flash[b] ELSE Blank

Return == at' = "usb" /\ todo' = Nothing

-----------------------------------------------------------------------------
(* The directory and the FAT as eject() reads them.                        *)

Candidates(dir) == {i \in DOMAIN dir : dir[i].type # "Other"}
PagesOf(size) == (size + PageBlocks - 1) \div PageBlocks

\* The clusters of a chain of n pages, and what follows them.
Chain(first, n) ==
  LET c[i \in 0 .. n] == IF i = 0 THEN first
                         ELSE IF c[i - 1] \in Pages THEN fat[c[i - 1]] ELSE Invalid
  IN c

\* The blocks of the file's page i.
FileBlocks(page, i, size) ==
  {BlockOf(page, j) : j \in {n \in 0 .. PageBlocks - 1 : i * PageBlocks + n < size}}

\* The walk of UsbRomVolume::eject along the chain of its only candidate.
Acceptable(f, chain) ==
  LET n == PagesOf(f.size) IN
  /\ f.size \in 1 .. Capacity + Overhead
  /\ \A i \in 0 .. n - 1 : chain[i] \in Pages
  /\ \A i, j \in 0 .. n - 1 : i # j => chain[i] # chain[j]
  /\ \A i \in 0 .. n - 1 : FileBlocks(chain[i], i, f.size) \subseteq received
  /\ chain[n] = End

TheFile == root[CHOOSE i \in Candidates(root) : TRUE]
TheChain == Chain(TheFile.first, PagesOf(TheFile.size))
Ejectable == /\ Cardinality(Candidates(root)) = 1 /\ started
             /\ Acceptable(TheFile, TheChain)

-----------------------------------------------------------------------------
(* The main loop.                                                          *)

\* Mutant: the drive keeps what an earlier session has received.
ResetVolume_Received ==
  /\ fat' = [p \in Pages |-> Invalid] /\ root' = <<>> /\ UNCHANGED received
  /\ started' = FALSE /\ sent' = FALSE
  /\ disk' = [b \in Blocks |-> Unwritten]

\* UsbRomVolume::reset, by set_capacity.
ResetVolume ==
  /\ fat' = [p \in Pages |-> Invalid] /\ root' = <<>> /\ received' = {}
  /\ started' = FALSE /\ sent' = FALSE
  /\ disk' = [b \in Blocks |-> Unwritten]

\* usb_rom_loader_set_enabled; the flash may not answer the probe.
SetEnabled(on) ==
  IF on = enabled THEN UNCHANGED <<enabled, volume, installer, disk>>
  ELSE IF on THEN \/ enabled' = TRUE /\ ResetVolume /\ UNCHANGED installer
                  \/ UNCHANGED <<enabled, volume, installer, disk>>
  ELSE enabled' = FALSE /\ AbortUpload /\ UNCHANGED <<volume, disk>>

Init ==
  /\ pin \in BOOLEAN /\ present = pin /\ enabled = FALSE
  /\ at = "start" /\ todo = Nothing /\ k = 0
  /\ fat = [p \in Pages |-> Invalid] /\ root = <<>> /\ received = {}
  /\ started = FALSE /\ sent = FALSE
  /\ status = "Idle" /\ busy = FALSE
  /\ sector = None /\ dirty = FALSE /\ buffer = NoBuffer
  /\ erased = {} /\ spill = [b \in Blocks \ FlashBlocks |-> Blank]
  /\ upload = NoUpload
  /\ flash \in [FlashBlocks -> Data]
  /\ disk = [b \in Blocks |-> Unwritten]

Start ==
  /\ at = "start" /\ at' = "cancel"
  /\ SetEnabled(UsbMode)
  /\ UNCHANGED <<pin, present, todo, k, flash>>

\* "Cancel and release storage ownership before reconnecting translators."
Cancel ==
  /\ at = "cancel" /\ at' = "service"
  /\ IF pin THEN SetEnabled(FALSE) ELSE UNCHANGED <<enabled, volume, installer, disk>>
  /\ UNCHANGED <<pin, present, todo, k, flash>>

\* snes_bus_service enters console or standalone mode.
Service ==
  /\ at = "service" /\ at' = "enable"
  /\ present' = pin
  /\ UNCHANGED <<pin, enabled, todo, k, volume, installer, flash, disk>>

Enable ==
  /\ at = "enable" /\ at' = "usb"
  /\ SetEnabled(UsbMode)
  /\ UNCHANGED <<pin, present, todo, k, flash>>

\* tud_task has no more events, or is not called.
UsbIdle ==
  /\ at = "usb" /\ at' = "process"
  /\ UNCHANGED <<loop, todo, k, volume, installer, flash, disk>>

\* process(), which is RomInstall, once an upload is ready.
Process ==
  /\ at = "process"
  /\ IF status # "Ready" \/ ~enabled
     THEN at' = "cancel" /\ UNCHANGED installer
     ELSE IF ~Active THEN at' = "cancel" /\ Fail("Aborted")
     ELSE /\ at' = "processing" /\ status' = "Programming"
          /\ UNCHANGED <<busy, sector, dirty, buffer, erased, spill, upload>>
  /\ UNCHANGED <<loop, todo, k, volume, flash, disk>>

\* A host that was served meanwhile may have disconnected.
ProcessEnds ==
  /\ at = "processing" /\ at' = "cancel"
  /\ busy' = FALSE
  /\ status' \in IF busy THEN {"Complete", "InvalidFile", "FlashError", "Aborted"} ELSE {"Aborted"}
  /\ sector' = None /\ dirty' = FALSE /\ buffer' = NoBuffer
  /\ UNCHANGED <<erased, spill, upload>>
  /\ UNCHANGED <<loop, todo, k, volume, flash, disk>>

\* The pin changes.
Pin ==
  /\ pin' = ~pin
  /\ UNCHANGED <<present, enabled, at, todo, k, volume, installer, flash, disk>>

\* Power goes and returns: only the flash keeps its contents.
PowerCycle ==
  /\ pin' \in BOOLEAN /\ present' = pin' /\ enabled' = FALSE
  /\ at' = "start" /\ todo' = Nothing /\ k' = 0
  /\ ResetVolume
  /\ status' = "Idle" /\ busy' = FALSE
  /\ sector' = None /\ dirty' = FALSE /\ buffer' = NoBuffer
  /\ erased' = {} /\ spill' = [b \in Blocks \ FlashBlocks |-> Blank]
  /\ upload' = NoUpload
  /\ UNCHANGED flash

-----------------------------------------------------------------------------
(* Callbacks from the host.                                                *)

\* The loader answers only while the drive is connected and holds no upload.
Mounted == at = "usb" /\ enabled /\ UsbMode
Writable == Mounted /\ ~sent

WriteFat ==
  /\ Writable
  /\ fat' \in Fats
  /\ UNCHANGED <<loop, at, todo, k, root, received, started, sent, installer, flash, disk>>

WriteRoot ==
  /\ Writable
  /\ root' \in Directories
  /\ UNCHANGED <<loop, at, todo, k, fat, received, started, sent, installer, flash, disk>>

\* SnesRomInstaller::begin, at the first block of data; the probe may fail.
Begin ==
  /\ ~busy
  /\ sector' = None /\ dirty' = FALSE /\ buffer' = NoBuffer
  /\ erased' = {} /\ spill' = [b \in Blocks \ FlashBlocks |-> Blank]
  /\ upload' = NoUpload
  /\ \/ status' = "Receiving" /\ busy' = TRUE /\ started' = TRUE
     \/ status' = "UnsupportedFlash" /\ busy' = FALSE /\ started' = FALSE

\* UsbRomVolume::write of a data block.
WriteData ==
  /\ Writable
  /\ \E w \in Writes :
       IF started
       THEN at' = "stage" /\ todo' = w /\ UNCHANGED <<started, installer>>
       ELSE /\ Begin
            /\ IF started' THEN at' = "stage" /\ todo' = w ELSE Return
  /\ UNCHANGED <<loop, k, fat, root, received, sent, flash, disk>>

\* The block is in the drive.
Accept(b, v) ==
  /\ received' = received \cup {b}
  /\ disk' = [disk EXCEPT ![b] = v]
  /\ Return

Flush == at' = "erase" /\ UNCHANGED <<todo, received, disk, installer>>

\* load_staging_sector.
Loaded(s) == [b \in InSector(s) |-> IF s \in erased THEN flash[b] ELSE Blank]

\* stage and write_staged: into the spill pages, or into the sector buffer,
\* which may have to be flushed first.
Stage ==
  /\ at = "stage"
  /\ LET b == todo.block
         s == SectorOf(b)
     IN IF ~Active THEN AbortUpload /\ Return /\ UNCHANGED <<received, disk>>
        ELSE IF status # "Receiving" THEN Return /\ UNCHANGED <<received, disk, installer>>
        ELSE IF b >= Capacity
        THEN /\ spill' = [spill EXCEPT ![b] = todo.data]
             /\ Accept(b, todo.data)
             /\ UNCHANGED <<status, busy, sector, dirty, buffer, erased, upload>>
        ELSE IF sector # s /\ dirty THEN Flush
        ELSE /\ buffer' = [(IF sector = s THEN buffer ELSE Loaded(s)) EXCEPT ![b] = todo.data]
             /\ sector' = s /\ dirty' = TRUE
             /\ Accept(b, todo.data)
             /\ UNCHANGED <<status, busy, erased, spill, upload>>
  /\ UNCHANGED <<loop, k, fat, root, started, sent, flash>>

\* SYNCHRONIZE CACHE.
Synchronize ==
  /\ Mounted /\ started
  /\ IF ~Active THEN AbortUpload /\ Return
     ELSE IF dirty THEN at' = "erase" /\ todo' = [op |-> "sync"] /\ UNCHANGED installer
     ELSE Return /\ UNCHANGED installer
  /\ UNCHANGED <<loop, k, volume, flash, disk>>

\* START STOP UNIT: the host ejects.
Eject ==
  /\ Mounted /\ ~sent /\ Ejectable
  /\ IF ~Active THEN AbortUpload /\ Return
     ELSE /\ todo' = [op |-> "eject"] /\ UNCHANGED installer
          /\ at' = IF dirty THEN "erase" ELSE "finish"
  /\ UNCHANGED <<loop, k, volume, flash, disk>>

\* finish(): the chain becomes the upload.
Finish ==
  /\ at = "finish" /\ Return
  /\ IF ~Active THEN AbortUpload /\ UNCHANGED sent
     ELSE IF \/ status # "Receiving"
             \/ TheFile.type = "Raw" /\ TheFile.size > Capacity
     THEN UNCHANGED <<installer, sent>>
     ELSE /\ status' = "Ready" /\ sent' = TRUE
          /\ upload' = [type |-> TheFile.type, size |-> TheFile.size,
                        pages |-> [i \in 1 .. PagesOf(TheFile.size) |-> TheChain[i - 1]]]
          /\ UNCHANGED <<busy, sector, dirty, buffer, erased, spill>>
  /\ UNCHANGED <<loop, k, fat, root, received, started, flash, disk>>

\* The host resets the bus or is unplugged (tud_umount_cb).
Unmount ==
  /\ at \in {"usb", "processing"} /\ enabled
  /\ AbortUpload
  /\ UNCHANGED <<loop, at, todo, k, volume, flash, disk>>

-----------------------------------------------------------------------------
(* flush(): the sector buffer into the flash.                              *)

FlushFails(as) == Fail(as) /\ Return

\* erase_sector: any part of the sector may have been erased, and wait_ready
\* looks at one bit of one byte, or gives up.
Erase ==
  /\ at = "erase"
  /\ LET first == SectorBlocks * sector IN
     \E done \in SUBSET InSector(sector) :
       /\ pin => done = {}
       /\ flash' = [b \in FlashBlocks |-> IF b \in done THEN Blank ELSE flash[b]]
       /\ \/ /\ flash'[first] \in HighBit
             /\ at' = "burn" /\ k' = first
             /\ UNCHANGED <<todo, installer>>
          \/ FlushFails("FlashError") /\ UNCHANGED k
  /\ UNCHANGED <<loop, volume, disk>>

\* The next block; blank ones are left out.  program_byte reads back.
BurnBlock ==
  /\ at = "burn" /\ k \in InSector(sector)
  /\ IF ~Active THEN Fail("Aborted") /\ Return /\ UNCHANGED <<k, flash>>
     ELSE IF buffer[k] = Blank
     THEN k' = k + 1 /\ UNCHANGED <<at, todo, installer, flash>>
     ELSE \E v \in Data :
            /\ flash' = [flash EXCEPT ![k] = v]
            /\ \/ v = buffer[k] /\ k' = k + 1 /\ UNCHANGED <<at, todo, installer>>
               \/ FlushFails("FlashError") /\ UNCHANGED k
  /\ UNCHANGED <<loop, volume, disk>>

\* What follows a flush depends on the callback.
AfterFlush ==
  IF todo.op = "sync" THEN Return
  ELSE at' = (IF todo.op = "write" THEN "stage" ELSE "finish") /\ UNCHANGED todo

\* Mutant: what was programmed is not compared.
Verify_Trusting ==
  /\ at = "burn" /\ k \notin InSector(sector)
  /\ erased' = erased \cup {sector} /\ dirty' = FALSE
  /\ AfterFlush
  /\ UNCHANGED <<status, busy, sector, buffer, spill, upload>>
  /\ UNCHANGED <<loop, k, volume, flash, disk>>

Verify ==
  /\ at = "burn" /\ k \notin InSector(sector)
  /\ IF \A b \in InSector(sector) : flash[b] = buffer[b]
     THEN /\ erased' = erased \cup {sector} /\ dirty' = FALSE
          /\ AfterFlush
          /\ UNCHANGED <<status, busy, sector, buffer, spill, upload>>
     ELSE FlushFails("FlashError")
  /\ UNCHANGED <<loop, k, volume, flash, disk>>

Host == WriteFat \/ WriteRoot \/ WriteData \/ Synchronize \/ Eject \/ Unmount
Callback == Stage \/ Erase \/ BurnBlock \/ Verify \/ Finish
MainLoop == Start \/ Cancel \/ Service \/ Enable \/ UsbIdle \/ Process \/ ProcessEnds

Next == Host \/ Callback \/ MainLoop \/ Pin \/ PowerCycle

Spec == Init /\ [][Next]_vars

-----------------------------------------------------------------------------
(* Properties.                                                             *)

TypeOK ==
  /\ pin \in BOOLEAN /\ present \in BOOLEAN /\ enabled \in BOOLEAN
  /\ at \in {"start", "cancel", "service", "enable", "usb", "process", "processing",
             "stage", "erase", "burn", "finish"}
  /\ todo \in {Nothing, [op |-> "sync"], [op |-> "eject"]} \cup Writes
  /\ k \in Nat
  /\ fat \in [Pages -> Pages \cup {End, Invalid}] /\ root \in Seq(Entries)
  /\ received \subseteq Blocks /\ started \in BOOLEAN /\ sent \in BOOLEAN
  /\ status \in Statuses /\ busy \in BOOLEAN
  /\ sector \in {None} \cup Sectors /\ dirty \in BOOLEAN
  /\ buffer \in IF sector = None THEN {NoBuffer} ELSE [InSector(sector) -> Data]
  /\ erased \subseteq Sectors /\ spill \in [Blocks \ FlashBlocks -> Data]
  /\ upload.type \in Types /\ upload.size \in Nat
  /\ flash \in [FlashBlocks -> Data]
  /\ disk \in [Blocks -> Data \cup {Unwritten}]

\* For as long as an upload is being received, a read through the drive returns
\* for every block what the host has written there last, whatever sector is
\* buffered, half programmed or still holds an older ROM: "if (erased_sectors_
\* ...)" and the buffer hide the flash until it has been verified.
ReadsBack ==
  status \in {"Receiving", "Ready"} =>
    \A b \in Blocks : Staged(b) = IF disk[b] = Unwritten THEN Blank ELSE disk[b]

\* What is handed to the installation is the drive's only candidate, in the
\* order of its FAT chain, each block as the host wrote it last since this
\* drive was mounted: metadata may have come before or after the data, and a
\* sector may have been flushed any number of times over an unreliable bus.
FileOf(up) ==
  /\ \E i \in Candidates(root) :
       /\ Candidates(root) = {i}
       /\ root[i].type = up.type /\ root[i].size = up.size
       /\ up.pages[1] = root[i].first
  /\ \A i \in 1 .. Len(up.pages) :
       fat[up.pages[i]] = IF i = Len(up.pages) THEN End ELSE up.pages[i + 1]
  /\ \A n \in 0 .. up.size - 1 :
       LET b == BlockOf(up.pages[(n \div PageBlocks) + 1], n % PageBlocks)
       IN disk[b] # Unwritten /\ Staged(b) = disk[b]

Delivered == status = "Ready" => FileOf(upload)

\* The parallel flash changes only while the console is isolated, and told so
\* by the busy IRQ, whenever its pin moves: "Cancel and release storage
\* ownership before reconnecting translators" (main.cpp:119).
IsolatedWrites == [][flash' # flash => enabled /\ busy /\ ~present]_vars

=============================================================================
