----------------------------- MODULE RomInstall -----------------------------
(***************************************************************************)
(* The installation of an uploaded ROM (storage/snes_rom_installer.cpp).   *)
(*                                                                         *)
(* The file lies in the parallel flash, in the pages the host's FAT gave   *)
(* it, and SnesRomInstaller::process turns it into the image the console   *)
(* sees, in the same flash: it puts the pages into file order, strips a    *)
(* copier header by moving everything down, copies the GSU's part to the   *)
(* QSPI flash, and programs each sector from pages of which some have been *)
(* overwritten by then.  A page that has been overwritten is taken from    *)
(* where an earlier sector has put it (representative_).                   *)
(*                                                                         *)
(* The main loop is inside process() all the time.  The host is served     *)
(* from it (hooks_.service), and can only disconnect; a console can appear *)
(* and disappear at any time.                                              *)
(*                                                                         *)
(* A cell is 32 KiB; the upload's pages are cells, and the four spill      *)
(* pages are one more.  Contents are positions in the image, and no two    *)
(* are equal.  What detection finds is part of the upload.                 *)
(***************************************************************************)
EXTENDS RomLayout, Integers, Sequences, FiniteSetsExt

CONSTANT Uploads     \* what a host may have uploaded, and to which device

VARIABLES
  upload,      \* the upload: a member of Uploads
  status,      \* status_
  busy,        \* busy_, and the busy IRQ
  usb,         \* hooks_.usb_mode: no console is attached
  pc, k,       \* where process() is; the position in its loop
  pages,       \* upload_pages_
  cells,       \* the parallel flash, and the spill pages behind it
  buffer,      \* sector_buffer_, what a sector is programmed to
  rep,         \* representative_
  final,       \* final_sectors_
  fxrom,       \* the GSU's ROM in the QSPI flash
  disturbed    \* history: a flash operation failed, a console or host left

vars == <<upload, status, busy, usb, pc, k, pages, cells, buffer, rep, final, fxrom, disturbed>>
progress == <<pages, buffer, rep, final, fxrom>>

-----------------------------------------------------------------------------
(* The file and its parts.                                                 *)

Statuses == {"Ready", "Programming", "Complete", "InvalidFile", "FlashError", "Aborted"}

SectorUnits == 4                       \* SECTOR_SIZE
FxUnits == 3 * MiB                     \* the part the GSU sees
DescriptorAt == 252                    \* SNES_ROM_DESCRIPTOR_ADDRESS, bank $7E
None == -1                             \* INVALID_ADDRESS

\* Cell contents besides the units of the image, 0 .. size - 1.
Blank == -1                            \* erased
Torn == -2                             \* being erased or programmed
Before == -3                           \* left by an earlier installation
DescriptorPart == -4                   \* the new descriptor but for its magic
Descriptor == -5                       \* the new descriptor
Striped == -6                          \* a header-shifted stripe of a dump
Shifted(d) == 1000 + d                 \* unit d shifted up by a copier header

Capacity == upload.capacity
DataAt == IF upload.dump THEN 4 * MiB ELSE 0     \* info.data_offset but for the header
FileCells(up) == (IF up.dump THEN 4 * MiB ELSE 0) + up.size + (IF up.header THEN 1 ELSE 0)

\* A dump is the image in stripes, as a console reads it, and then the image.
FileCell(up, c) ==
  LET at == IF up.dump THEN 4 * MiB ELSE 0 IN
  IF c >= at THEN IF up.header THEN Shifted(c - at) ELSE c - at
  ELSE IF up.header THEN Striped ELSE c \div 2

ASSUME UploadsAssumption ==
  \A up \in Uploads :
    /\ up.type \in {"Sfc", "Raw"} /\ up.map \in Maps /\ up.detected \in BOOLEAN
    /\ up.size \in 1 .. BusUnits /\ up.header \in BOOLEAN /\ up.dump \in BOOLEAN
    /\ up.capacity \in {32, 64, 128, 256, 512}
    /\ up.chain \in [0 .. FileCells(up) - 1 -> 0 .. up.capacity]
    /\ Cardinality(Range(up.chain)) = FileCells(up)
    /\ \A i \in DOMAIN up.chain :        \* only part of a cell fits the spill pages
         up.chain[i] = up.capacity => up.header /\ i = FileCells(up) - 1
    /\ up.dump => up.map = "Fx3" /\ up.size = 4 * MiB
    /\ up.type = "Sfc" /\ up.detected => up.map \in DetectedMaps(up.size)

Sector(p) == p \div SectorUnits
UnitsOf(s) == SectorUnits * s .. SectorUnits * s + SectorUnits - 1
Sectors == 0 .. Sector(Capacity) - 1
ImageSources(p) == Sources(upload.map, upload.size, Capacity, p)

TypeOK ==
  /\ upload \in Uploads
  /\ status \in Statuses
  /\ busy = (status \in {"Ready", "Programming"})
  /\ usb \in BOOLEAN /\ disturbed \in BOOLEAN
  /\ pc \in {"ready", "swap", "check", "raw", "copy", "copyburn", "fx",
             "program", "burn", "words", "magic", "done"}
  /\ k \in 0 .. BusUnits
  /\ DOMAIN pages = 0 .. FileCells(upload) - 1
  /\ DOMAIN cells = 0 .. Capacity
  /\ DOMAIN buffer \in {{}} \cup {UnitsOf(s) : s \in Sectors}
  /\ \A o \in DOMAIN rep : rep[o] \in {None} \cup 0 .. Capacity - 1
  /\ final \subseteq Sectors

NoBuffer == [u \in {} |-> Blank]

\* finish() has accepted the upload, which eject() has flushed.
Init ==
  /\ upload \in Uploads
  /\ status = "Ready" /\ busy = TRUE /\ usb = TRUE
  /\ pc = "ready" /\ k = 0
  /\ pages = upload.chain
  /\ cells = [c \in 0 .. Capacity |->
                IF \E i \in DOMAIN pages : pages[i] = c
                THEN FileCell(upload, CHOOSE i \in DOMAIN pages : pages[i] = c)
                ELSE Before]
  /\ buffer = NoBuffer
  /\ rep = [o \in 0 .. upload.size - 1 |-> None]
  /\ final = {}
  /\ fxrom = [f \in 0 .. FxUnits - 1 |-> Before]
  /\ disturbed = FALSE

-----------------------------------------------------------------------------
(* Ends.                                                                   *)

\* SnesRomInstaller::active.
Active == busy /\ usb

Go(to) == pc' = to /\ UNCHANGED <<upload, usb>>

\* SnesRomInstaller::fail, and process() returns.
Fail(as) ==
  /\ Go("done")
  /\ status' = as /\ busy' = FALSE
  /\ UNCHANGED <<k, progress>>

\* process() after a step that returned false.
Failed == Fail(IF Active THEN "FlashError" ELSE "Aborted")

\* The same for a step that has called fail() itself: busy_ is gone by then.
FailedInside == Fail("Aborted")

Continue(to) == Go(to) /\ UNCHANGED <<status, busy, disturbed>>

\* A step that the flash or a console has spoilt.
Spoilt == Failed /\ disturbed' = TRUE

-----------------------------------------------------------------------------
(* Materializing the upload: its pages in file order.                      *)

Start ==
  /\ pc = "ready" /\ status = "Ready"
  /\ IF Active
     THEN /\ Go("swap") /\ status' = "Programming"
          /\ UNCHANGED <<busy, k, progress>>
     ELSE Fail("Aborted")
  /\ UNCHANGED <<cells, disturbed>>

Misplaced == {i \in DOMAIN pages : pages[i] # i}

\* Mutant: the page that has been put in its place keeps its old source.
Moved_Unplaced(dest, source) ==
  [i \in DOMAIN pages |-> IF pages[i] = dest THEN source ELSE pages[i]]

\* pages after a swap: whoever was to come from dest comes from source now.
Moved(dest, source) ==
  [i \in DOMAIN pages |-> IF i = dest THEN dest
                          ELSE IF pages[i] = dest THEN source ELSE pages[i]]

Swap ==
  /\ pc = "swap" /\ Misplaced # {} /\ Active
  /\ LET dest == Min(Misplaced)
         source == pages[dest]
     IN /\ cells' = [cells EXCEPT ![dest] = cells[source], ![source] = cells[dest]]
        /\ pages' = Moved(dest, source)
  /\ Continue("swap")
  /\ UNCHANGED <<k, buffer, rep, final, fxrom>>

\* A flush on the way fails, or finds that the installation has been stopped.
SwapFails ==
  /\ pc = "swap"
  /\ \E torn \in SUBSET {Sector(p) : p \in UNION {{i, pages[i]} : i \in Misplaced}} :
       /\ Cardinality(torn) <= 1
       /\ cells' = [c \in DOMAIN cells |->
                      IF c < Capacity /\ Sector(c) \in torn THEN Torn ELSE cells[c]]
  /\ FailedInside /\ disturbed' = TRUE

SwapsDone ==
  /\ pc = "swap" /\ Misplaced = {} /\ Active
  /\ Continue(IF upload.type = "Raw" THEN "raw" ELSE "check")
  /\ UNCHANGED <<k, progress, cells>>

\* verify_raw: a bus image has the size of the device.
VerifyRaw ==
  /\ pc = "raw"
  /\ IF Active /\ FileCells(upload) = Capacity
     THEN /\ Go("done") /\ status' = "Complete" /\ busy' = FALSE
          /\ UNCHANGED <<k, progress>>
     ELSE Fail(IF Active THEN "InvalidFile" ELSE "Aborted")
  /\ UNCHANGED <<cells, disturbed>>

-----------------------------------------------------------------------------
(* install(): checks, and the copier header.                               *)

\* Unit o of the image as read_staged finds it before the header is gone.
Unshifted(o) ==
  LET c == DataAt + o IN
  IF ~upload.header THEN cells[c]
  ELSE IF \E d \in 0 .. upload.size : cells[c] = Shifted(d) /\ cells[c + 1] = Shifted(d + 1)
       THEN cells[c] - Shifted(0)
       ELSE Torn

\* mapping_fits: all that one unit of the flash is to show is the same.
MappingFits ==
  \A p \in 0 .. Capacity - 1 : Cardinality({Unshifted(o) : o \in ImageSources(p)}) <= 1

AfterCopy == IF upload.map = "Fx3" THEN "fx" ELSE "program"

Check ==
  /\ pc = "check"
  /\ IF ~upload.detected THEN Fail("InvalidFile")
     ELSE IF ~MappingFits THEN Failed
     ELSE /\ Go(IF upload.header THEN "copy" ELSE AfterCopy)
          /\ UNCHANGED <<status, busy, k, progress>>
  /\ UNCHANGED <<cells, disturbed>>

CopySectors == (upload.size + SectorUnits - 1) \div SectorUnits

CopySector == Sector(DataAt) + k

\* Erasing a sector; the flash takes no command while a console is attached.
Erased(s) == [c \in DOMAIN cells |-> IF usb /\ Sector(c) = s /\ c < Capacity THEN Torn ELSE cells[c]]

CopyErase ==
  /\ pc = "copy" /\ k < CopySectors
  /\ buffer' = [c \in UnitsOf(CopySector) |->
                  IF c - DataAt < upload.size THEN Unshifted(c - DataAt) ELSE Blank]
  /\ cells' = Erased(CopySector)
  /\ Continue("copyburn")
  /\ UNCHANGED <<k, pages, rep, final, fxrom>>

\* Every byte programmed, each after a look at active(), and verified.
Burnt ==
  /\ Active
  /\ \A c \in DOMAIN buffer : cells[c] = Torn
  /\ cells' = [c \in DOMAIN cells |-> IF c \in DOMAIN buffer THEN buffer[c] ELSE cells[c]]
  /\ buffer' = NoBuffer
  /\ k' = k + 1

CopyBurn ==
  /\ pc = "copyburn" /\ Burnt
  /\ Continue("copy")
  /\ UNCHANGED <<pages, rep, final, fxrom>>

CopyDone ==
  /\ pc = "copy" /\ k = CopySectors
  /\ Continue(AfterCopy) /\ k' = 0
  /\ UNCHANGED <<progress, cells>>

\* An erase, a program or a verification fails, or active() is found false.
FlashFails ==
  /\ pc \in {"copyburn", "burn"}
  /\ Spoilt /\ UNCHANGED cells

-----------------------------------------------------------------------------
(* install(): the GSU's part, the image, the descriptor.                   *)

\* Mutant: a page is always read where the upload has put it.
SourceCell_InPlace(o) == DataAt + o

\* read_install_source: where unit o of the image is now.
SourceCell(o) == IF Sector(DataAt + o) \in final THEN rep[o] ELSE DataAt + o

\* One unit of the window banks $40-$6F, which small images fill repeatedly.
FxProgram ==
  /\ pc = "fx" /\ k < FxUnits /\ Active
  /\ LET o == SourceOffset(upload.map, upload.size, 4 * MiB + k) IN
       /\ SourceCell(o) # None
       /\ fxrom' = [fxrom EXCEPT ![k] = cells[SourceCell(o)]]
  /\ Continue("fx") /\ k' = k + 1
  /\ UNCHANGED <<cells, pages, buffer, rep, final>>

\* active() is false, or qspi_rom_program fails.
FxFails ==
  /\ pc = "fx" /\ k < FxUnits
  /\ Spoilt /\ UNCHANGED cells

FxDone ==
  /\ pc = "fx" /\ k = FxUnits
  /\ Continue("program") /\ k' = 0
  /\ UNCHANGED <<progress, cells>>

\* program_range: the sectors of [from, to), upwards or downwards.
Up(from, to) == [i \in 1 .. Sector(to - from) |-> Sector(from) + i - 1]
Down(from, to) == [i \in 1 .. Sector(to - from) |-> Sector(to) - i]

\* Mutant: every map is programmed from the bottom.
ProgramOrder_Ascending == Up(0, Capacity)

\* The order in which install() programs the sectors: one that reads every
\* page before it is overwritten, or after it has been put somewhere else.
ProgramOrder ==
  LET half == Capacity \div 2
      high == Capacity > 8 * MiB
      HalvesFrom(first) == IF first = 0 THEN Up(0, half) \o Up(half, Capacity)
                           ELSE Up(half, Capacity) \o Up(0, half)
  IN CASE upload.map = "LoRom" -> Down(0, Capacity)
       [] upload.map = "HiRom" /\ Capacity > 4 * MiB ->
            Up(4 * MiB, 8 * MiB) \o (IF high THEN Up(12 * MiB, Capacity) ELSE <<>>)
            \o Up(0, 4 * MiB) \o (IF high THEN Up(8 * MiB, 12 * MiB) ELSE <<>>)
       [] upload.map \in {"ExLoRom", "ExHiRom"} -> HalvesFrom(half)
       [] upload.map = "Fx3" -> HalvesFrom(IF DataAt >= half THEN 0 ELSE half)
       [] OTHER -> Up(0, Capacity)

Current == ProgramOrder[k + 1]

\* program_sector reads every alias of every byte before it erases.
SectorReadable(s) ==
  \A p \in UnitsOf(s) :
    LET from == {SourceCell(o) : o \in ImageSources(p)} IN
      None \notin from /\ Cardinality({cells[c] : c \in from}) <= 1

SectorContents(s) ==
  [p \in UnitsOf(s) |->
     IF ImageSources(p) = {} THEN Blank
     ELSE cells[SourceCell(CHOOSE o \in ImageSources(p) : TRUE)]]

Erase ==
  /\ pc = "program" /\ k < Len(ProgramOrder)
  /\ IF SectorReadable(Current)
     THEN /\ buffer' = SectorContents(Current)
          /\ cells' = Erased(Current)
          /\ Continue("burn")
          /\ UNCHANGED <<k, pages, rep, final, fxrom>>
     ELSE Failed /\ UNCHANGED <<cells, disturbed>>

\* Where the units of ps show the image, the last place winning.
Represented(ps, else) ==
  LET shown == [p \in ps |-> ImageSources(p)] IN
  [o \in DOMAIN rep |->
     LET at == {p \in ps : o \in shown[p]} IN IF at = {} THEN else[o] ELSE Max(at)]

\* Mutant: the bytes are programmed without looking at active().
Burn_Unowned ==
  /\ pc = "burn" /\ usb
  /\ cells' = [c \in DOMAIN cells |-> IF c \in DOMAIN buffer THEN buffer[c] ELSE cells[c]]
  /\ buffer' = NoBuffer
  /\ k' = k + 1
  /\ rep' = Represented(UnitsOf(Current), rep)
  /\ final' = final \cup {Current}
  /\ Continue("program")
  /\ UNCHANGED <<pages, fxrom>>

Burn ==
  /\ pc = "burn" /\ Burnt
  /\ rep' = Represented(UnitsOf(Current), rep)
  /\ final' = final \cup {Current}
  /\ Continue("program")
  /\ UNCHANGED <<pages, fxrom>>

Complete == status' = "Complete" /\ busy' = FALSE /\ Go("done")

\* build_representatives; only a full-size device has room for a descriptor.
Programmed ==
  /\ pc = "program" /\ k = Len(ProgramOrder)
  /\ rep' = Represented(0 .. Capacity - 1, [o \in DOMAIN rep |-> None])
  /\ IF Capacity = BusUnits THEN Continue("words") ELSE Complete /\ UNCHANGED disturbed
  /\ UNCHANGED <<k, pages, cells, buffer, final, fxrom>>

\* The descriptor is programmed with its magic last.
DescriptorWords ==
  /\ pc = "words" /\ Active
  /\ cells' = [cells EXCEPT ![DescriptorAt] = DescriptorPart]
  /\ Continue("magic")
  /\ UNCHANGED <<k, progress>>

DescriptorMagic ==
  /\ pc = "magic" /\ Active
  /\ cells' = [cells EXCEPT ![DescriptorAt] = Descriptor]
  /\ Complete
  /\ UNCHANGED <<k, progress, disturbed>>

DescriptorFails ==
  /\ pc \in {"words", "magic"}
  /\ \E d \in {cells[DescriptorAt], DescriptorPart} \cup (IF pc = "magic" THEN {Descriptor} ELSE {}) :
       cells' = [cells EXCEPT ![DescriptorAt] = d]
  /\ Spoilt

-----------------------------------------------------------------------------
(* What happens around process().                                          *)

\* The host is served at the start of every 256 bytes, and after each page
\* of the GSU's part; a disconnect aborts.
Served == pc \in {"ready", "swap", "raw", "copyburn", "burn"} \/ (pc = "fx" /\ k > 0)

Unmount ==
  /\ Served /\ busy
  /\ status' = "Aborted" /\ busy' = FALSE /\ disturbed' = TRUE
  /\ pc' = IF pc = "ready" THEN "done" ELSE pc
  /\ UNCHANGED <<upload, usb, k, progress, cells>>

\* A console appears or disappears.
Console ==
  /\ pc # "done"
  /\ usb' = ~usb /\ disturbed' = TRUE
  /\ UNCHANGED <<upload, status, busy, pc, k, progress, cells>>

Process ==
  \/ Start \/ Swap \/ SwapFails \/ SwapsDone \/ VerifyRaw
  \/ Check \/ CopyErase \/ CopyBurn \/ CopyDone \/ FlashFails
  \/ FxProgram \/ FxFails \/ FxDone
  \/ Erase \/ Burn \/ Programmed
  \/ DescriptorWords \/ DescriptorMagic \/ DescriptorFails

Next == Process \/ Unmount \/ Console

Spec == Init /\ [][Next]_vars

-----------------------------------------------------------------------------
(* Properties.                                                             *)

\* Every bus address of the map shows its unit of the image.
ShowsImage ==
  \A u \in 0 .. BusUnits - 1 :
    HasSource(upload.map, u) =>
      cells[u % Capacity] = SourceOffset(upload.map, upload.size, u)

\* The GSU sees what the console sees in banks $40-$6F.
FxShowsImage ==
  upload.map = "Fx3" =>
    \A f \in 0 .. FxUnits - 1 :
      fxrom[f] = SourceOffset(upload.map, upload.size, 4 * MiB + f)

\* SnesRomInstaller::read: the host reads its file back, unit by unit, but
\* for units that no bus address shows.
FileSource(c) == IF c < DataAt THEN c \div 2 ELSE c - DataAt
ReadsBack ==
  \A c \in 0 .. DataAt + upload.size - 1 :
    LET o == FileSource(c) IN
    IF \E u \in 0 .. BusUnits - 1 : HasSource(upload.map, u) /\ SourceOffset(upload.map, upload.size, u) = o
    THEN rep[o] # None /\ cells[rep[o]] = o
    ELSE rep[o] = None

\* "Commit the map descriptor only after all mapped bytes have verified"
\* (snes_rom_installer.cpp:496): at any moment, a power cut included, the
\* descriptor of this ROM is valid only if the flash shows all of it, and an
\* installation reports success only then, whatever the order in which
\* sectors have been overwritten with pages they were themselves to supply.
Installed ==
  IF upload.type = "Raw"
  THEN status = "Complete" => \A c \in 0 .. Capacity - 1 : cells[c] = FileCell(upload, c)
  ELSE status = "Complete" \/ cells[Min({DescriptorAt, Capacity})] = Descriptor
         => ShowsImage /\ FxShowsImage /\ ReadsBack

\* A ROM that the device can show is installed unless the flash, a console or
\* the host gets in the way: no order of programming leaves a page that is
\* still needed overwritten and nowhere else.
NeverRefused ==
  status \in {"FlashError", "InvalidFile"} /\ ~disturbed =>
    \/ ~upload.detected
    \/ upload.type = "Raw" /\ FileCells(upload) # Capacity
    \/ \E p \in 0 .. Capacity - 1 : Cardinality(ImageSources(p)) > 1

\* Once the host has disconnected, the installation neither ends in success
\* nor commits its map, wherever process() was.
AbortIsFinal ==
  [][status = "Aborted" =>
       status' = "Aborted" /\ cells'[Min({DescriptorAt, Capacity})] # Descriptor]_vars

\* materialize_upload ends: every swap brings a page to its place and moves none
\* that is in its place already.
SwapsConverge ==
  [][pages' # pages => Misplaced' \subseteq Misplaced /\ Misplaced' # Misplaced]_vars
=============================================================================
