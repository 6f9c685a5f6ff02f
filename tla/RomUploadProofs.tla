-------------------------- MODULE RomUploadProofs ---------------------------
(***************************************************************************)
(* Proofs about RomUpload for every geometry of pages and sectors, every   *)
(* content and every directory and FAT a host writes.                      *)
(***************************************************************************)
EXTENDS RomUpload, FiniteSetTheorems, WellFoundedInduction, TLAPS

InCallback == {"stage", "erase", "burn", "finish"}

\* The drive is enabled only while the translators are disconnected, except in
\* the moment before the main loop takes it away.
Owned ==
  /\ at # "enable" => (enabled => ~present)
  /\ at \in InCallback => enabled /\ started
  /\ at \in {"erase", "burn"} => busy /\ dirty
  /\ at = "stage" => todo \in Writes

\* An upload begins with the first block of a mounted drive.
InSession ==
  /\ status \in {"Receiving", "Ready"} => busy /\ enabled /\ started
  /\ ~started => \A b \in Blocks : disk[b] = Unwritten

\* A clean buffer is a verified sector of the flash.
Buffered ==
  /\ dirty => sector # None
  /\ ~dirty /\ sector # None =>
       sector \in erased /\ \A b \in InSector(sector) : flash[b] = buffer[b]

UploadInv == TypeOK /\ Owned /\ InSession /\ Buffered /\ ReadsBack

-----------------------------------------------------------------------------
(* Blocks and sectors.                                                     *)

\* Every block of the flash lies in a sector, and a sector's number is one.
LEMMA SectorType ==
  /\ \A b \in FlashBlocks : SectorOf(b) \in Sectors /\ b \in InSector(SectorOf(b))
  /\ \A s \in Sectors : s \in Nat
  /\ \A s : InSector(s) \subseteq FlashBlocks
  /\ \A s : \A b \in InSector(s) : SectorOf(b) = s
  /\ FlashBlocks \subseteq Blocks
  /\ \A b \in Blocks : b \in FlashBlocks <=> ~(b >= Capacity)
<1> USE GeometryAssumption
<1>1. \A b \in FlashBlocks : SectorOf(b) \in Nat
  BY DEF FlashBlocks, SectorOf
<1>2. FlashBlocks \subseteq Blocks
  <2>1. SpillPages * PageBlocks \in Nat
    OBVIOUS
  <2>2. QED
    BY <2>1 DEF FlashBlocks, Blocks, BlockCount
<1>3. \A b \in Blocks : b \in FlashBlocks <=> ~(b >= Capacity)
  <2>1. SpillPages * PageBlocks \in Nat
    OBVIOUS
  <2>2. QED
    BY <2>1 DEF FlashBlocks, Blocks, BlockCount
<1>4. QED
  BY <1>1, <1>2, <1>3 DEF Sectors, InSector

\* The buffer of a sector, loaded from the flash, is a buffer.
LEMMA LoadedType ==
  ASSUME TypeOK, NEW s \in Sectors
  PROVE  Loaded(s) \in [InSector(s) -> Data]
BY SectorType, DataAssumption DEF TypeOK, Loaded

-----------------------------------------------------------------------------
(* Steps shared by the actions.                                            *)

\* The part of the type invariant about the installer.
InstallerOK ==
  /\ status \in Statuses /\ busy \in BOOLEAN
  /\ sector \in {None} \cup Sectors /\ dirty \in BOOLEAN
  /\ buffer \in IF sector = None THEN {NoBuffer} ELSE [InSector(sector) -> Data]
  /\ erased \subseteq Sectors /\ spill \in [Blocks \ FlashBlocks -> Data]
  /\ upload.type \in Types /\ upload.size \in Nat

\* An upload that is given up is neither received nor ready, and no sector is
\* buffered.
LEMMA FailStep ==
  ASSUME TypeOK, NEW as \in Failures, Fail(as)
  PROVE  /\ InstallerOK' /\ Buffered' /\ ~busy'
         /\ status' \notin {"Receiving", "Ready"}
<1>1. InstallerOK'
  BY DEF Fail, TypeOK, Statuses, InstallerOK
<1>2. Buffered' /\ ~busy'
  BY DEF Fail, Buffered
<1>3. status' \notin {"Receiving", "Ready"}
  BY DEF Fail, Failures
<1>4. QED
  BY <1>1, <1>2, <1>3

LEMMA AbortStep ==
  ASSUME TypeOK, InSession, Buffered, AbortUpload, flash' = flash
  PROVE  /\ InstallerOK' /\ Buffered'
         /\ status' \notin {"Receiving", "Ready"}
<1>1. CASE busy \/ status = "Ready"
  <2>1. Fail("Aborted")
    BY <1>1 DEF AbortUpload
  <2>2. QED
    BY <2>1, FailStep DEF Failures
<1>2. CASE ~(busy \/ status = "Ready")
  <2>1. UNCHANGED installer
    BY <1>2 DEF AbortUpload
  <2>2. InstallerOK' /\ Buffered'
    BY <2>1 DEF installer, InstallerOK, TypeOK, Buffered, InSector, FlashBlocks, SectorOf
  <2>3. status' \notin {"Receiving", "Ready"}
    BY <1>2, <2>1 DEF installer, InSession
  <2>4. QED
    BY <2>2, <2>3
<1>3. QED
  BY <1>1, <1>2

\* While nothing of the upload, the drive's blocks and the flash changes, what
\* is read back does not change.
LEMMA SameReads ==
  ASSUME UploadInv, UNCHANGED <<installer, disk, flash>>
  PROVE  InstallerOK' /\ Buffered' /\ ReadsBack'
<1>1. InstallerOK'
  BY DEF UploadInv, installer, InstallerOK, TypeOK
<1>2. Buffered'
  BY DEF UploadInv, installer, Buffered, InSector, FlashBlocks, SectorOf
<1>3. ReadsBack'
  BY DEF UploadInv, installer, ReadsBack, Staged, SectorOf, Blocks, BlockCount
<1>4. QED
  BY <1>1, <1>2, <1>3

\* Mounting begins with an empty drive, unmounting gives the upload up.
LEMMA EnableStep ==
  ASSUME UploadInv, NEW on \in BOOLEAN, SetEnabled(on), flash' = flash
  PROVE  /\ InstallerOK' /\ InSession' /\ Buffered' /\ ReadsBack'
         /\ fat' \in [Pages -> Pages \cup {End, Invalid}] /\ root' \in Seq(Entries)
         /\ received' \subseteq Blocks /\ started' \in BOOLEAN /\ sent' \in BOOLEAN
         /\ disk' \in [Blocks -> Data \cup {Unwritten}]
         /\ enabled' \in BOOLEAN /\ (enabled' => on)
<1> USE DEF UploadInv
<1>1. CASE UNCHANGED <<enabled, volume, installer, disk>> /\ (enabled => on)
  <2>1. InstallerOK' /\ Buffered' /\ ReadsBack'
    BY <1>1, SameReads
  <2>2. InSession'
    BY <1>1 DEF InSession, volume, installer, Blocks, BlockCount
  <2>3. QED
    BY <1>1, <2>1, <2>2 DEF TypeOK, volume
<1>2. CASE on /\ ~enabled /\ enabled' = TRUE /\ ResetVolume /\ UNCHANGED installer
  <2>1. InstallerOK' /\ Buffered'
    BY <1>2 DEF TypeOK, InstallerOK, installer, Buffered, InSector, FlashBlocks, SectorOf
  <2>2. status' \notin {"Receiving", "Ready"}
    BY <1>2 DEF InSession, installer
  <2>3. ReadsBack'
    BY <2>2 DEF ReadsBack
  <2>4. InSession'
    BY <1>2, <2>2 DEF ResetVolume, InSession, Blocks, BlockCount
  <2>5. root' \in Seq(Entries)
    BY <1>2 DEF ResetVolume
  <2>6. QED
    BY <1>2, <2>1, <2>3, <2>4, <2>5 DEF ResetVolume
<1>3. CASE ~on /\ enabled' = FALSE /\ AbortUpload /\ UNCHANGED <<volume, disk>>
  <2>1. InstallerOK' /\ Buffered' /\ status' \notin {"Receiving", "Ready"}
    BY <1>3, AbortStep
  <2>2. ReadsBack'
    BY <2>1 DEF ReadsBack
  <2>3. InSession'
    BY <1>3, <2>1 DEF InSession, volume, Blocks, BlockCount
  <2>4. QED
    BY <1>3, <2>1, <2>2, <2>3 DEF TypeOK, volume
<1>4. QED
  BY <1>1, <1>2, <1>3 DEF SetEnabled, TypeOK

-----------------------------------------------------------------------------
(* The invariant.                                                          *)

LEMMA InitUploadInv == Init => UploadInv
<1> SUFFICES ASSUME Init PROVE UploadInv
  OBVIOUS
<1> USE DEF Init
<1>1. TypeOK
  <2>1. NoUpload.type \in Types /\ NoUpload.size \in Nat
    BY DEF NoUpload, Types
  <2>2. root \in Seq(Entries)
    OBVIOUS
  <2>3. QED
    BY <2>1, <2>2, DataAssumption DEF TypeOK, Statuses
<1>2. Owned
  BY DEF Owned, InCallback
<1>3. InSession /\ Buffered /\ ReadsBack
  BY DEF InSession, Buffered, ReadsBack
<1>4. QED
  BY <1>1, <1>2, <1>3 DEF UploadInv

\* The main loop: only its enabling and disabling of the drive matters.
LEMMA LoopStep == UploadInv /\ (MainLoop \/ Pin \/ PowerCycle) => UploadInv'
<1> SUFFICES ASSUME UploadInv, MainLoop \/ Pin \/ PowerCycle PROVE UploadInv'
  OBVIOUS
<1> USE DEF UploadInv
<1>t. UsbMode \in BOOLEAN /\ (UsbMode => ~present /\ ~pin)
  BY DEF UsbMode, TypeOK
<1>1. CASE Start
  <2>1. SetEnabled(UsbMode) /\ flash' = flash
    BY <1>1 DEF Start
  <2>2. InstallerOK' /\ InSession' /\ Buffered' /\ ReadsBack'
    BY <2>1, <1>t, EnableStep
  <2>3. TypeOK'
    BY <1>1, <2>1, <1>t, EnableStep DEF Start, TypeOK, InstallerOK
  <2>4. Owned'
    BY <1>1, <2>1, <1>t, EnableStep DEF Start, Owned, InCallback
  <2>5. QED
    BY <2>2, <2>3, <2>4
<1>2. CASE Cancel
  <2>1. CASE pin
    <3>1. SetEnabled(FALSE) /\ flash' = flash
      BY <1>2, <2>1 DEF Cancel
    <3>2. InstallerOK' /\ InSession' /\ Buffered' /\ ReadsBack'
      BY <3>1, EnableStep
    <3>3. TypeOK'
      BY <1>2, <3>1, EnableStep DEF Cancel, TypeOK, InstallerOK
    <3>4. Owned'
      BY <1>2, <3>1, EnableStep DEF Cancel, Owned, InCallback
    <3>5. QED
      BY <3>2, <3>3, <3>4
  <2>2. CASE ~pin
    <3>1. UNCHANGED <<enabled, volume, installer, disk, flash>>
      BY <1>2, <2>2 DEF Cancel
    <3>2. InstallerOK' /\ Buffered' /\ ReadsBack'
      BY <3>1, SameReads
    <3>3. TypeOK' /\ InSession'
      BY <1>2, <3>1, <3>2 DEF Cancel, TypeOK, InstallerOK, InSession, volume, installer,
         Blocks, BlockCount
    <3>4. Owned'
      BY <1>2, <3>1 DEF Cancel, Owned, InCallback
    <3>5. QED
      BY <3>2, <3>3, <3>4
  <2>3. QED
    BY <2>1, <2>2
<1>3. CASE Service \/ UsbIdle \/ Pin
  <2>1. UNCHANGED <<enabled, volume, installer, disk, flash>>
    BY <1>3 DEF Service, UsbIdle, Pin, loop
  <2>2. InstallerOK' /\ Buffered' /\ ReadsBack'
    BY <2>1, SameReads
  <2>3. TypeOK' /\ InSession'
    BY <1>3, <2>1, <2>2, ZenonT(60) DEF Service, UsbIdle, Pin, loop, TypeOK, InstallerOK, InSession,
       volume, installer, Blocks, BlockCount
  <2>4. Owned'
    BY <1>3, <2>1 DEF Service, UsbIdle, Pin, loop, Owned, InCallback, volume, installer
  <2>5. QED
    BY <2>2, <2>3, <2>4
<1>4. CASE Enable
  <2>1. SetEnabled(UsbMode) /\ flash' = flash
    BY <1>4 DEF Enable
  <2>2. InstallerOK' /\ InSession' /\ Buffered' /\ ReadsBack'
    BY <2>1, <1>t, EnableStep
  <2>3. TypeOK'
    BY <1>4, <2>1, <1>t, EnableStep DEF Enable, TypeOK, InstallerOK
  <2>4. Owned'
    BY <1>4, <2>1, <1>t, EnableStep DEF Enable, Owned, InCallback
  <2>5. QED
    BY <2>2, <2>3, <2>4
<1>5. CASE Process
  <2>u. UNCHANGED <<loop, todo, k, volume, flash, disk>> /\ at' \in {"cancel", "processing"}
    BY <1>5 DEF Process
  <2>o. Owned'
    BY <2>u, <1>5 DEF Process, loop, volume, Owned, InCallback
  <2>t. InstallerOK' => TypeOK'
    BY <2>u DEF loop, volume, TypeOK, InstallerOK
  <2>s. status' \notin {"Receiving", "Ready"} => InSession' /\ ReadsBack'
    BY <2>u DEF loop, volume, InSession, ReadsBack, Blocks, BlockCount
  <2>1. CASE UNCHANGED installer
    <3>1. InstallerOK' /\ Buffered' /\ ReadsBack'
      BY <2>1, <2>u, SameReads
    <3>2. InSession'
      BY <2>u, <2>1 DEF loop, volume, installer, InSession, Blocks, BlockCount
    <3>3. QED
      BY <2>o, <2>t, <3>1, <3>2
  <2>2. CASE Fail("Aborted")
    <3>1. InstallerOK' /\ Buffered' /\ status' \notin {"Receiving", "Ready"}
      BY <2>2, FailStep DEF Failures
    <3>2. QED
      BY <2>o, <2>t, <2>s, <3>1
  <2>3. CASE /\ status' = "Programming"
             /\ UNCHANGED <<busy, sector, dirty, buffer, erased, spill, upload>>
    <3>1. InstallerOK' /\ Buffered'
      BY <2>3, <2>u DEF TypeOK, InstallerOK, Statuses, Buffered, InSector, FlashBlocks, SectorOf
    <3>2. QED
      BY <2>o, <2>t, <2>s, <2>3, <3>1
  <2>4. QED
    BY <1>5, <2>1, <2>2, <2>3 DEF Process
<1>6. CASE ProcessEnds
  <2>1. InstallerOK' /\ Buffered' /\ status' \notin {"Receiving", "Ready"}
    BY <1>6 DEF ProcessEnds, TypeOK, InstallerOK, Statuses, Failures, Buffered
  <2>2. QED
    BY <1>6, <2>1 DEF ProcessEnds, loop, TypeOK, InstallerOK, Owned, InCallback, InSession,
       volume, Blocks, BlockCount, ReadsBack
<1>7. CASE PowerCycle
  <2>1. InstallerOK' /\ Buffered' /\ status' \notin {"Receiving", "Ready"}
    BY <1>7, DataAssumption DEF PowerCycle, TypeOK, InstallerOK, Statuses, NoUpload, Types, Buffered
  <2>2. Owned' /\ InSession' /\ ReadsBack'
    BY <1>7, <2>1 DEF PowerCycle, ResetVolume, Owned, InCallback, InSession,
       Blocks, BlockCount, ReadsBack
  <2>3. root' \in Seq(Entries)
    BY <1>7 DEF PowerCycle, ResetVolume
  <2>4. TypeOK'
    BY <1>7, <2>1, <2>3 DEF PowerCycle, ResetVolume, TypeOK, InstallerOK
  <2>5. QED
    BY <2>1, <2>2, <2>4
<1>8. QED
  BY <1>1, <1>2, <1>3, <1>4, <1>5, <1>6, <1>7 DEF MainLoop

\* A callback that ends, or is interrupted, with the upload given up.
LEMMA GivesUp ==
  ASSUME UploadInv, InstallerOK', Buffered', status' \notin {"Receiving", "Ready"},
         UNCHANGED <<loop, volume, disk>>, at # "enable", at' \in {"usb", "processing"},
         todo' \in {Nothing, todo}, k' = k, flash' \in [FlashBlocks -> Data]
  PROVE  UploadInv'
<1> USE DEF UploadInv
<1>1. TypeOK'
  BY DEF TypeOK, InstallerOK, loop, volume
<1>2. Owned' /\ ReadsBack'
  BY DEF Owned, InCallback, ReadsBack, loop
<1>3. InSession'
  BY DEF InSession, volume, Blocks, BlockCount
<1>4. QED
  BY <1>1, <1>2, <1>3

LEMMA AbortGivesUp ==
  ASSUME UploadInv, AbortUpload, UNCHANGED <<loop, volume, disk, flash>>, at # "enable",
         at' \in {"usb", "processing"}, todo' \in {Nothing, todo}, k' = k
  PROVE  UploadInv'
<1>1. InstallerOK' /\ Buffered' /\ status' \notin {"Receiving", "Ready"}
  BY AbortStep DEF UploadInv
<1>2. QED
  BY <1>1, GivesUp DEF UploadInv, TypeOK

\* A callback that changes nothing of the upload and the flash.
LEMMA Untouched ==
  ASSUME UploadInv, UNCHANGED <<loop, k, received, started, installer, flash, disk>>,
         fat' \in [Pages -> Pages \cup {End, Invalid}], root' \in Seq(Entries),
         at # "enable", at' # "enable", at' \in {"usb", "process"} \cup InCallback,
         todo' \in {Nothing, todo, [op |-> "sync"], [op |-> "eject"]} \cup Writes,
         at' \in InCallback => enabled /\ started,
         at' \in {"erase", "burn"} => busy /\ dirty,
         at' = "stage" => todo' \in Writes,
         sent' \in BOOLEAN
  PROVE  UploadInv'
<1> USE DEF UploadInv
<1>1. InstallerOK' /\ Buffered' /\ ReadsBack'
  BY SameReads
<1>2. TypeOK'
  BY <1>1 DEF TypeOK, InstallerOK, loop, InCallback
<1>3. Owned'
  BY DEF Owned, InCallback, loop, installer
<1>4. InSession'
  BY DEF InSession, installer, loop, Blocks, BlockCount
<1>5. QED
  BY <1>1, <1>2, <1>3, <1>4

LEMMA HostStep == UploadInv /\ Host => UploadInv'
<1> SUFFICES ASSUME UploadInv, Host PROVE UploadInv'
  OBVIOUS
<1> USE DEF UploadInv
<1>1. CASE WriteFat \/ WriteRoot
  <2>1. fat' \in [Pages -> Pages \cup {End, Invalid}] /\ root' \in Seq(Entries)
    BY <1>1, MetadataAssumption DEF WriteFat, WriteRoot, TypeOK
  <2>2. QED
    BY <1>1, <2>1, Untouched DEF WriteFat, WriteRoot, Writable, Mounted, TypeOK, InCallback
<1>2. CASE WriteData
  <2>m. /\ at = "usb" /\ enabled
        /\ UNCHANGED <<loop, k, fat, root, received, sent, flash, disk>>
    BY <1>2 DEF WriteData, Writable, Mounted
  <2> PICK w \in Writes :
       IF started
       THEN at' = "stage" /\ todo' = w /\ UNCHANGED <<started, installer>>
       ELSE /\ Begin
            /\ IF started' THEN at' = "stage" /\ todo' = w ELSE Return
    BY <1>2 DEF WriteData
  <2>1. CASE started
    BY <2>1, <2>m, Untouched DEF TypeOK, InCallback
  <2>2. CASE ~started
    <3>1. Begin /\ at' \in {"stage", "usb"} /\ (at' = "stage" => started')
          /\ todo' \in {Nothing} \cup Writes /\ (at' = "stage" => todo' \in Writes)
      BY <2>2 DEF Return
    <3>2. InstallerOK'
      BY <3>1, DataAssumption DEF Begin, InstallerOK, Statuses, Failures, NoUpload, Types
    <3>3. \A b \in Blocks : disk'[b] = Unwritten
      BY <2>2, <2>m DEF InSession
    <3>4. ReadsBack'
      <4>1. \A b \in Blocks : Staged(b)' = Blank
        BY <3>1, SectorType DEF Begin, Staged, None
      <4>2. QED
        BY <3>3, <4>1 DEF ReadsBack, Blocks, BlockCount
    <3>5. Buffered'
      BY <3>1 DEF Begin, Buffered
    <3>6. InSession'
      BY <3>1, <3>3, <2>m DEF Begin, InSession, loop, Blocks, BlockCount
    <3>7. Owned'
      BY <3>1, <2>m DEF Owned, InCallback, loop
    <3>8. TypeOK'
      BY <3>1, <3>2, <2>m DEF Begin, TypeOK, InstallerOK, loop
    <3>9. QED
      BY <3>4, <3>5, <3>6, <3>7, <3>8
  <2>3. QED
    BY <2>1, <2>2
<1>3. CASE Synchronize
  <2>1. CASE ~Active
    BY <1>3, <2>1, AbortGivesUp DEF Synchronize, Mounted, Return
  <2>2. CASE Active
    BY <1>3, <2>2, Untouched DEF Synchronize, Mounted, Return, Active, TypeOK, InCallback, volume
  <2>3. QED
    BY <2>1, <2>2
<1>4. CASE Eject
  <2>1. CASE ~Active
    BY <1>4, <2>1, AbortGivesUp DEF Eject, Mounted, Return
  <2>2. CASE Active
    BY <1>4, <2>2, Untouched
       DEF Eject, Ejectable, Mounted, Return, Active, TypeOK, InCallback, volume
  <2>3. QED
    BY <2>1, <2>2
<1>5. CASE Unmount
  <2>1. /\ AbortUpload /\ UNCHANGED <<loop, volume, disk, flash>> /\ k' = k /\ todo' = todo
        /\ at \in {"usb", "processing"} /\ at' = at
    BY <1>5 DEF Unmount
  <2>2. at # "enable" /\ at' \in {"usb", "processing"} /\ todo' \in {Nothing, todo}
    BY <2>1
  <2>3. QED
    BY <2>1, <2>2, AbortGivesUp
<1>6. QED
  BY <1>1, <1>2, <1>3, <1>4, <1>5 DEF Host

\* Between loading the buffer and flushing it, the buffer hides the flash.
LEMMA StageStep == UploadInv /\ Stage => UploadInv'
<1> SUFFICES ASSUME UploadInv, Stage PROVE UploadInv'
  OBVIOUS
<1> USE DEF UploadInv
<1> DEFINE b == todo.block
           s == SectorOf(b)
<1>m. /\ at = "stage" /\ enabled /\ started
      /\ UNCHANGED <<loop, k, fat, root, started, sent, flash>>
  BY DEF Stage, Owned, InCallback
<1>w. b \in Blocks /\ todo.data \in Data /\ todo.data # Unwritten
  BY <1>m, DataAssumption DEF Owned, Writes
<1>1. CASE ~Active
  <2>1. AbortUpload /\ Return /\ UNCHANGED <<received, disk>>
    BY <1>1 DEF Stage
  <2>2. QED
    BY <1>m, <2>1, AbortGivesUp DEF Return, volume
<1>2. CASE Active /\ status # "Receiving"
  <2>1. Return /\ UNCHANGED <<received, disk, installer>>
    BY <1>2 DEF Stage
  <2>2. QED
    BY <1>m, <2>1, Untouched DEF Return, TypeOK, InCallback
<1>3. CASE Active /\ status = "Receiving" /\ ~(b >= Capacity) /\ sector # s /\ dirty
  <2>1. Flush
    BY <1>3 DEF Stage
  <2>2. QED
    BY <1>3, <1>m, <2>1, Untouched DEF Flush, Active, TypeOK, InCallback, installer
<1>4. CASE Active /\ status = "Receiving" /\ b >= Capacity
  <2>1. /\ spill' = [spill EXCEPT ![b] = todo.data] /\ Accept(b, todo.data)
        /\ UNCHANGED <<status, busy, sector, dirty, buffer, erased, upload>>
    BY <1>4 DEF Stage
  <2>2. b \in Blocks \ FlashBlocks
    BY <1>4, <1>w, SectorType
  <2>3. TypeOK'
    BY <1>m, <1>w, <2>1, <2>2 DEF TypeOK, Accept, Return, loop
  <2>4. Owned' /\ InSession'
    BY <1>m, <2>1 DEF Accept, Return, loop, Owned, InCallback, InSession
  <2>5. Buffered'
    BY <1>m, <2>1 DEF Buffered, InSector, FlashBlocks, SectorOf
  <2>6. ASSUME NEW c \in Blocks
        PROVE  Staged(c)' = IF disk'[c] = Unwritten THEN Blank ELSE disk'[c]
    <3>1. Staged(c) = IF disk[c] = Unwritten THEN Blank ELSE disk[c]
      BY <1>4 DEF ReadsBack
    <3>2. CASE c = b
      BY <1>4, <1>w, <2>1, <2>2, <3>2 DEF Staged, Accept, TypeOK
    <3>3. CASE c # b
      <4>1. spill'[c] = spill[c] /\ disk'[c] = disk[c]
        BY <2>1, <3>3, <2>2 DEF Accept, TypeOK
      <4>2. QED
        BY <1>m, <2>1, <3>1, <4>1 DEF Staged, SectorOf
    <3>4. QED
      BY <3>2, <3>3
  <2>7. QED
    BY <2>3, <2>4, <2>5, <2>6 DEF ReadsBack, Blocks, BlockCount
<1>5. CASE Active /\ status = "Receiving" /\ ~(b >= Capacity) /\ ~(sector # s /\ dirty)
  <2>1. /\ buffer' = [(IF sector = s THEN buffer ELSE Loaded(s)) EXCEPT ![b] = todo.data]
        /\ sector' = s /\ dirty' = TRUE /\ Accept(b, todo.data)
        /\ UNCHANGED <<status, busy, erased, spill, upload>>
    BY <1>5 DEF Stage
  <2>2. b \in FlashBlocks /\ s \in Sectors /\ b \in InSector(s) /\ s # None
    BY <1>5, <1>w, SectorType DEF None
  <2> DEFINE old == IF sector = s THEN buffer ELSE Loaded(s)
  <2>3. old \in [InSector(s) -> Data]
    BY <2>2, LoadedType DEF TypeOK
  <2>4. buffer' \in [InSector(s) -> Data] /\ buffer' = [old EXCEPT ![b] = todo.data]
    BY <2>1, <2>2, <2>3, <1>w
  <2>5. TypeOK'
    BY <1>m, <1>w, <2>1, <2>2, <2>4 DEF TypeOK, Accept, Return, loop, InSector, FlashBlocks,
       SectorOf
  <2>6. Owned' /\ InSession'
    BY <1>m, <2>1 DEF Accept, Return, loop, Owned, InCallback, InSession
  <2>7. Buffered'
    BY <2>1, <2>2 DEF Buffered
  <2>8. ASSUME NEW c \in Blocks
        PROVE  Staged(c)' = IF disk'[c] = Unwritten THEN Blank ELSE disk'[c]
    <3>1. Staged(c) = IF disk[c] = Unwritten THEN Blank ELSE disk[c]
      BY <1>5 DEF ReadsBack
    <3>2. CASE c = b
      BY <1>5, <1>w, <2>1, <2>2, <2>3, <2>4, <3>2 DEF Staged, Accept, TypeOK, SectorOf
    <3>3. CASE c # b
      <4>1. disk'[c] = disk[c]
        BY <2>1, <3>3 DEF Accept, TypeOK
      <4>2. CASE c >= Capacity
        BY <2>1, <3>1, <4>1, <4>2 DEF Staged
      <4>3. CASE ~(c >= Capacity) /\ SectorOf(c) = s
        <5>1. c \in InSector(s)
          BY <4>3, SectorType
        <5>2. buffer'[c] = old[c]
          BY <2>3, <2>4, <3>3, <5>1
        <5>3. old[c] = Staged(c)
          BY <4>3, <5>1 DEF Staged, Loaded
        <5>4. Staged(c)' = buffer'[c]
          BY <2>1, <4>3 DEF Staged, SectorOf
        <5>5. QED
          BY <3>1, <4>1, <5>2, <5>3, <5>4
      <4>4. CASE ~(c >= Capacity) /\ SectorOf(c) # s
        <5>1. Staged(c)' = IF SectorOf(c) \in erased THEN flash[c] ELSE Blank
          BY <1>m, <2>1, <4>4 DEF Staged, SectorOf
        <5>2. Staged(c) = IF SectorOf(c) \in erased THEN flash[c] ELSE Blank
          <6>1. CASE SectorOf(c) = sector
            <7>1. ~dirty /\ sector # None /\ c \in InSector(sector)
              BY <1>5, <4>4, <6>1, <2>2, SectorType DEF None
            <7>2. sector \in erased /\ flash[c] = buffer[c]
              BY <7>1 DEF Buffered
            <7>3. QED
              BY <4>4, <6>1, <7>2 DEF Staged
          <6>2. CASE SectorOf(c) # sector
            BY <4>4, <6>2 DEF Staged
          <6>3. QED
            BY <6>1, <6>2
        <5>3. QED
          BY <3>1, <4>1, <5>1, <5>2
      <4>5. QED
        BY <4>2, <4>3, <4>4
    <3>4. QED
      BY <3>2, <3>3
  <2>9. QED
    BY <2>5, <2>6, <2>7, <2>8 DEF ReadsBack, Blocks, BlockCount
<1>6. QED
  BY <1>1, <1>2, <1>3, <1>4, <1>5

\* Erasing and programming change only blocks that the buffer hides; a verified
\* sector equals its buffer.
LEMMA FlushStep == UploadInv /\ (Erase \/ BurnBlock \/ Verify) => UploadInv'
<1> SUFFICES ASSUME UploadInv, Erase \/ BurnBlock \/ Verify PROVE UploadInv'
  OBVIOUS
<1> USE DEF UploadInv
<1>m. /\ at \in {"erase", "burn"} /\ busy /\ dirty /\ enabled /\ started
      /\ UNCHANGED <<loop, volume, disk>> /\ sector \in Sectors /\ sector # None
  <2>1. at \in {"erase", "burn"} /\ UNCHANGED <<loop, volume, disk>>
    BY DEF Erase, BurnBlock, Verify
  <2>2. QED
    BY <2>1 DEF Owned, InCallback, Buffered, TypeOK
<1>f. ASSUME NEW as \in Failures, FlushFails(as), k' = k, flash' \in [FlashBlocks -> Data]
      PROVE  UploadInv'
  <2>1. Fail(as) /\ Return
    BY <1>f DEF FlushFails
  <2>2. InstallerOK' /\ Buffered' /\ status' \notin {"Receiving", "Ready"}
    BY <2>1, FailStep
  <2>3. at # "enable" /\ at' \in {"usb", "processing"} /\ todo' \in {Nothing, todo}
    BY <1>m, <2>1 DEF Return
  <2>4. QED
    BY <1>m, <1>f, <2>2, <2>3, GivesUp
<1>h. ASSUME flash' \in [FlashBlocks -> Data], k' \in Nat, at' = "burn",
             \A b \in FlashBlocks \ InSector(sector) : flash'[b] = flash[b],
             UNCHANGED <<todo, installer>>
      PROVE  UploadInv'
  <2>1. TypeOK'
    BY <1>h, <1>m DEF loop, volume, installer, TypeOK, InSector, FlashBlocks, SectorOf
  <2>2. Owned' /\ InSession' /\ Buffered'
    BY <1>h, <1>m DEF loop, volume, installer, Owned, InCallback, InSession, Buffered
  <2>3. ASSUME NEW c \in Blocks PROVE Staged(c)' = Staged(c)
    <3>1. CASE c >= Capacity
      BY <1>h, <3>1 DEF Staged, installer
    <3>2. CASE ~(c >= Capacity) /\ sector = SectorOf(c)
      BY <1>h, <3>2 DEF Staged, installer, SectorOf
    <3>3. CASE ~(c >= Capacity) /\ sector # SectorOf(c)
      <4>1. c \in FlashBlocks \ InSector(sector)
        BY <3>3, SectorType
      <4>2. QED
        BY <1>h, <3>3, <4>1 DEF Staged, installer, SectorOf
    <3>4. QED
      BY <3>1, <3>2, <3>3
  <2>4. ReadsBack'
    BY <1>h, <1>m, <2>3 DEF ReadsBack, installer, Blocks, BlockCount
  <2>5. QED
    BY <2>1, <2>2, <2>4
<1>1. CASE Erase
  <2> PICK done \in SUBSET InSector(sector) :
        /\ flash' = [b \in FlashBlocks |-> IF b \in done THEN Blank ELSE flash[b]]
        /\ \/ /\ at' = "burn" /\ k' = SectorBlocks * sector
              /\ UNCHANGED <<todo, installer>>
           \/ FlushFails("FlashError") /\ UNCHANGED k
    BY <1>1 DEF Erase
  <2>1. /\ flash' \in [FlashBlocks -> Data]
        /\ \A b \in FlashBlocks \ InSector(sector) : flash'[b] = flash[b]
    BY DataAssumption DEF TypeOK
  <2>2. SectorBlocks * sector \in Nat
    BY <1>m, SectorType, GeometryAssumption
  <2>3. CASE /\ at' = "burn" /\ k' = SectorBlocks * sector
             /\ UNCHANGED <<todo, installer>>
    BY <2>1, <2>2, <2>3, <1>h
  <2>4. CASE FlushFails("FlashError") /\ UNCHANGED k
    BY <2>1, <2>4, <1>f DEF Failures
  <2>5. QED
    BY <2>3, <2>4
<1>2. CASE BurnBlock
  <2>1. at = "burn" /\ k \in InSector(sector) /\ k \in FlashBlocks /\ k + 1 \in Nat
    BY <1>2, SectorType DEF BurnBlock, TypeOK
  <2>2. CASE Fail("Aborted") /\ Return /\ UNCHANGED <<k, flash>>
    BY <2>2, <1>f DEF FlushFails, Failures, TypeOK
  <2>3. CASE k' = k + 1 /\ UNCHANGED <<at, todo, installer, flash>>
    BY <2>1, <2>3, <1>h DEF TypeOK
  <2>4. CASE \E v \in Data :
               /\ flash' = [flash EXCEPT ![k] = v]
               /\ \/ v = buffer[k] /\ k' = k + 1 /\ UNCHANGED <<at, todo, installer>>
                  \/ FlushFails("FlashError") /\ UNCHANGED k
    <3> PICK v \in Data :
          /\ flash' = [flash EXCEPT ![k] = v]
          /\ \/ k' = k + 1 /\ UNCHANGED <<at, todo, installer>>
             \/ FlushFails("FlashError") /\ UNCHANGED k
      BY <2>4
    <3>1. /\ flash' \in [FlashBlocks -> Data]
          /\ \A b \in FlashBlocks \ InSector(sector) : flash'[b] = flash[b]
      BY <2>1 DEF TypeOK
    <3>2. CASE k' = k + 1 /\ UNCHANGED <<at, todo, installer>>
      BY <2>1, <3>1, <3>2, <1>h
    <3>3. CASE FlushFails("FlashError") /\ UNCHANGED k
      BY <3>1, <3>3, <1>f DEF Failures
    <3>4. QED
      BY <3>2, <3>3
  <2>5. QED
    BY <1>2, <2>2, <2>3, <2>4 DEF BurnBlock
<1>3. CASE Verify
  <2>1. UNCHANGED <<k, flash>>
    BY <1>3 DEF Verify
  <2>2. CASE FlushFails("FlashError")
    BY <2>1, <2>2, <1>f DEF Failures, TypeOK
  <2>3. CASE /\ \A b \in InSector(sector) : flash[b] = buffer[b]
             /\ erased' = erased \cup {sector} /\ dirty' = FALSE
             /\ AfterFlush
             /\ UNCHANGED <<status, busy, sector, buffer, spill, upload>>
    <3>1. /\ at' \in {"usb", "stage", "finish"} /\ todo' \in {Nothing, todo}
          /\ at' = "stage" => todo' \in Writes
      BY <2>3 DEF AfterFlush, Return, TypeOK, Nothing
    <3>2. TypeOK'
      BY <1>m, <2>1, <2>3, <3>1 DEF loop, volume, TypeOK, InSector, FlashBlocks, SectorOf
    <3>3. Owned' /\ InSession'
      BY <1>m, <2>3, <3>1 DEF loop, volume, Owned, InCallback, InSession
    <3>4. Buffered'
      BY <1>m, <2>1, <2>3 DEF Buffered, InSector, FlashBlocks, SectorOf
    <3>5. ASSUME NEW c \in Blocks PROVE Staged(c)' = Staged(c)
      BY <2>1, <2>3 DEF Staged, SectorOf
    <3>6. ReadsBack'
      BY <1>m, <2>3, <3>5 DEF ReadsBack, Blocks, BlockCount
    <3>7. QED
      BY <3>2, <3>3, <3>4, <3>6
  <2>4. QED
    BY <1>3, <2>2, <2>3 DEF Verify
<1>4. QED
  BY <1>1, <1>2, <1>3

-----------------------------------------------------------------------------
(* The chain of a file.                                                    *)

\* Induction, for a set of numbers: the order of the naturals is well-founded.
LEMMA SetInduction ==
  ASSUME NEW S, 0 \in S, \A n \in Nat : n \in S => n + 1 \in S
  PROVE  Nat \subseteq S
<1> DEFINE T == Nat \ S
           R == OpToRel(<, Nat)
<1>1. SUFFICES ASSUME T # {} PROVE FALSE
  OBVIOUS
<1>2. IsWellFoundedOn(R, Nat)
  BY NatLessThanWellFounded
<1>3. \E x \in T : \A y \in T : ~(<<y, x>> \in R)
  <2> HIDE DEF R, T
  <2>1. T \subseteq Nat
    BY DEF T
  <2>2. QED
    BY <1>1, <1>2, <2>1, WFMin
<1>4. PICK x \in T : \A y \in T : ~(<<y, x>> \in R)
  BY <1>3
<1>5. \A y \in T : ~(y < x)
  BY <1>4 DEF OpToRel
<1>6. x \in Nat /\ x \notin S /\ \A y \in Nat : y \notin S => ~(y < x)
  BY <1>4, <1>5
<1> HIDE DEF T, R
<1>7. QED
  <2>1. x # 0
    BY <1>6
  <2>2. x - 1 \in Nat /\ (x - 1) + 1 = x /\ x - 1 < x
    BY <1>6, <2>1
  <2>3. QED
    BY <1>6, <2>2

\* The walk along the FAT, for every length: it begins with the first cluster,
\* and each one that is a cluster is followed by its entry.
LEMMA ChainWalk ==
  ASSUME NEW first, NEW n \in Nat
  PROVE  /\ Chain(first, n)[0] = first
         /\ \A i \in 1 .. n : Chain(first, n)[i - 1] \in Pages =>
              Chain(first, n)[i] = fat[Chain(first, n)[i - 1]]
<1> DEFINE Walk(c, m) == c = [i \in 0 .. m |-> IF i = 0 THEN first
                                ELSE IF c[i - 1] \in Pages THEN fat[c[i - 1]] ELSE Invalid]
           S == {m \in Nat : \E c : Walk(c, m)}
<1>1. 0 \in S
  <2>1. Walk([i \in 0 .. 0 |-> first], 0)
    OBVIOUS
  <2>2. QED
    BY <2>1
<1>2. ASSUME NEW m \in Nat, m \in S PROVE m + 1 \in S
  <2>1. PICK c : Walk(c, m)
    BY <1>2
  <2> DEFINE d == [i \in 0 .. m + 1 |->
                     IF i = m + 1 THEN IF c[m] \in Pages THEN fat[c[m]] ELSE Invalid ELSE c[i]]
  <2>2. ASSUME NEW i \in 0 .. m + 1
        PROVE  d[i] = IF i = 0 THEN first
                      ELSE IF d[i - 1] \in Pages THEN fat[d[i - 1]] ELSE Invalid
    <3>1. CASE i = m + 1
      BY <3>1
    <3>2. CASE i # m + 1
      <4>1. i \in 0 .. m /\ d[i] = c[i] /\ (i # 0 => d[i - 1] = c[i - 1])
        BY <3>2
      <4>2. QED
        BY <2>1, <4>1
    <3>3. QED
      BY <3>1, <3>2
  <2>3. Walk(d, m + 1)
    BY <2>2
  <2> HIDE DEF d
  <2>4. QED
    BY <2>3
<1>3. n \in S
  <2> HIDE DEF S
  <2>1. QED
    BY <1>1, <1>2, SetInduction
<1>4. \E c : Walk(c, n)
  BY <1>3
<1>5. Walk(Chain(first, n), n)
  BY <1>4 DEF Chain
<1> HIDE DEF S
<1>6. QED
  BY <1>5

-----------------------------------------------------------------------------
(* What is handed to the installation.                                     *)

\* FileOf, without what the drive reads back: metadata and received blocks.
Written(up) ==
  /\ \E i \in Candidates(root) :
       /\ Candidates(root) = {i}
       /\ root[i].type = up.type /\ root[i].size = up.size
       /\ up.pages[1] = root[i].first
  /\ \A i \in 1 .. Len(up.pages) :
       fat[up.pages[i]] = IF i = Len(up.pages) THEN End ELSE up.pages[i + 1]
  /\ \A n \in 0 .. up.size - 1 :
       BlockOf(up.pages[(n \div PageBlocks) + 1], n % PageBlocks) \in received

\* From the host's eject on, nothing changes what was found acceptable; a ready
\* upload was acceptable, and the drive takes no more writes.
DeliverInv ==
  /\ at = "finish" \/ (at \in {"erase", "burn"} /\ todo.op \notin {"sync", "write"}) => Ejectable
  /\ received = {b \in Blocks : disk[b] # Unwritten}
  /\ status = "Ready" => sent /\ Written(upload)

\* A block's number splits into a page of the file and a place in it.
LEMMA PageArithmetic ==
  ASSUME NEW size \in Nat \ {0}, NEW n \in 0 .. size - 1
  PROVE  /\ n \div PageBlocks \in 0 .. PagesOf(size) - 1
         /\ n % PageBlocks \in 0 .. PageBlocks - 1
         /\ (n \div PageBlocks) * PageBlocks + (n % PageBlocks) = n
         /\ PagesOf(size) \in Nat \ {0}
<1> DEFINE p == PageBlocks
           q == n \div p
           r == n % p
           m == size + p - 1
           Q == m \div p
           R == m % p
<1>1. p \in Nat \ {0} /\ n \in Nat /\ m \in Nat /\ n + p <= m
  BY GeometryAssumption
<1> HIDE DEF p, m
<1>2. q \in Nat /\ r \in 0 .. p - 1 /\ q * p + r = n
  BY <1>1
<1>3. Q \in Nat /\ R \in 0 .. p - 1 /\ Q * p + R = m
  BY <1>1
<1> HIDE DEF q, r, Q, R
<1>4. q < Q
  <2>1. SUFFICES ASSUME Q <= q PROVE FALSE
    BY <1>2, <1>3
  <2>2. Q * p <= q * p
    <3>1. PICK d \in Nat : q = Q + d
      <4>1. q = Q + (q - Q) /\ q - Q \in Nat
        BY <1>2, <1>3, <2>1
      <4>2. QED
        BY <4>1
    <3>2. q * p = Q * p + d * p /\ d * p \in Nat /\ Q * p \in Nat
      BY <3>1, <1>1, <1>3
    <3>3. QED
      BY <3>2
  <2>3. q * p \in Nat /\ Q * p \in Nat
    BY <1>1, <1>2, <1>3
  <2>4. QED
    BY <1>1, <1>2, <1>3, <2>2, <2>3
<1>5. PagesOf(size) = Q
  BY DEF PagesOf, Q, m, p
<1>6. QED
  BY <1>2, <1>3, <1>4, <1>5 DEF q, r, p

LEMMA FinishStep == UploadInv /\ DeliverInv /\ Finish => UploadInv' /\ DeliverInv'
<1> SUFFICES ASSUME UploadInv, DeliverInv, Finish PROVE UploadInv' /\ DeliverInv'
  OBVIOUS
<1>m. /\ at = "finish" /\ at' = "usb" /\ todo' = Nothing /\ enabled /\ started
      /\ UNCHANGED <<loop, k, fat, root, received, started, flash, disk>>
  BY DEF Finish, Return, UploadInv, Owned, InCallback
<1>e. Ejectable
  BY <1>m DEF DeliverInv
<1>1. CASE AbortUpload /\ UNCHANGED sent
  <2>1. UploadInv'
    BY <1>m, <1>1, AbortGivesUp DEF volume
  <2>2. status' # "Ready"
    BY <1>m, <1>1, AbortStep DEF UploadInv
  <2>3. QED
    BY <1>m, <2>1, <2>2 DEF DeliverInv, Blocks, BlockCount
<1>2. CASE UNCHANGED <<installer, sent>>
  <2>1. UploadInv'
    BY <1>m, <1>2, Untouched DEF UploadInv, TypeOK, InCallback
  <2>2. DeliverInv'
    BY <1>m, <1>2 DEF DeliverInv, installer, Written, Candidates, BlockOf, Blocks, BlockCount
  <2>3. QED
    BY <2>1, <2>2
<1>3. CASE /\ status = "Receiving" /\ status' = "Ready" /\ sent' = TRUE
           /\ upload' = [type |-> TheFile.type, size |-> TheFile.size,
                         pages |-> [i \in 1 .. PagesOf(TheFile.size) |-> TheChain[i - 1]]]
           /\ UNCHANGED <<busy, sector, dirty, buffer, erased, spill>>
  <2> DEFINE f == TheFile
             n == PagesOf(f.size)
             c == TheChain
  <2>1. PICK i \in Candidates(root) : Candidates(root) = {i}
    <3>1. IsFiniteSet(Candidates(root))
      <4>1. DOMAIN root = 1 .. Len(root) /\ Len(root) \in Nat
        BY DEF UploadInv, TypeOK
      <4>2. Candidates(root) \in SUBSET (1 .. Len(root)) /\ IsFiniteSet(1 .. Len(root))
        BY <4>1, FS_Interval DEF Candidates
      <4>3. QED
        BY <4>2, FS_Subset
    <3>2. QED
      BY <1>e, <3>1, FS_Singleton DEF Ejectable
  <2>2. f = root[i] /\ i \in DOMAIN root /\ f.type # "Other"
    BY <2>1 DEF TheFile, Candidates
  <2>3. f \in Entries /\ f.type \in Types
    <3>1. root \in Seq(Entries) /\ root[i] \in Entries
      BY <2>2 DEF UploadInv, TypeOK
    <3>2. QED
      BY <2>2, <3>1 DEF Entries
  <2>4. Acceptable(f, c)
    BY <1>e DEF Ejectable
  <2>5. f.size \in Nat \ {0}
    BY <2>4, GeometryAssumption DEF Acceptable
  <2>6. n \in Nat \ {0}
    <3>1. 0 \in 0 .. f.size - 1
      BY <2>5
    <3>2. QED
      BY <2>5, <3>1, PageArithmetic
  <2>7. UploadInv'
    <3>1. TypeOK'
      BY <1>m, <1>3, <2>3, <2>5 DEF UploadInv, TypeOK, loop, Statuses
    <3>2. Owned' /\ InSession' /\ Buffered'
      BY <1>m, <1>3 DEF UploadInv, Owned, InCallback, InSession, Buffered, loop,
         Blocks, BlockCount, InSector, FlashBlocks, SectorOf
    <3>3. ReadsBack'
      BY <1>m, <1>3 DEF UploadInv, ReadsBack, Staged, SectorOf, Blocks, BlockCount
    <3>4. QED
      BY <3>1, <3>2, <3>3 DEF UploadInv
  <2>8. /\ upload'.type = f.type /\ upload'.size = f.size
        /\ upload'.pages = [j \in 1 .. n |-> c[j - 1]]
    BY <1>3
  <2>9. Len(upload'.pages) = n
    BY <2>6, <2>8
  <2>10. /\ c[0] = f.first
         /\ \A j \in 1 .. n : c[j - 1] \in Pages => c[j] = fat[c[j - 1]]
    BY <2>6, ChainWalk DEF TheChain
  <2> HIDE DEF f, n, c
  <2>11. /\ \A j \in 0 .. n - 1 : c[j] \in Pages
         /\ \A j \in 0 .. n - 1 : FileBlocks(c[j], j, f.size) \subseteq received
         /\ c[n] = End
    BY <2>4 DEF Acceptable, n
  <2>12. \A j \in 1 .. Len(upload'.pages) :
           fat[upload'.pages[j]] = IF j = Len(upload'.pages) THEN End ELSE upload'.pages[j + 1]
    <3>1. ASSUME NEW j \in 1 .. n
          PROVE  fat[c[j - 1]] = IF j = n THEN End ELSE c[j]
      <4>1. j - 1 \in 0 .. n - 1
        BY <2>6
      <4>2. QED
        BY <4>1, <2>10, <2>11
    <3>2. ASSUME NEW j \in 1 .. n
          PROVE  /\ upload'.pages[j] = c[j - 1]
                 /\ j # n => upload'.pages[j + 1] = c[j]
      <4>1. j # n => j + 1 \in 1 .. n /\ (j + 1) - 1 = j
        BY <2>6
      <4>2. QED
        BY <2>8, <4>1
    <3>3. QED
      BY <2>9, <3>1, <3>2
  <2>13. ASSUME NEW m \in 0 .. f.size - 1
         PROVE  BlockOf(upload'.pages[(m \div PageBlocks) + 1], m % PageBlocks) \in received
    <3> DEFINE q == m \div PageBlocks
               r == m % PageBlocks
    <3>1. q \in 0 .. n - 1 /\ r \in 0 .. PageBlocks - 1 /\ q * PageBlocks + r = m
      BY <2>5, PageArithmetic DEF n
    <3> HIDE DEF q, r
    <3>2. BlockOf(c[q], r) \in FileBlocks(c[q], q, f.size)
      BY <3>1, <2>5 DEF FileBlocks
    <3>3. upload'.pages[q + 1] = c[q]
      <4>1. q + 1 \in 1 .. n /\ (q + 1) - 1 = q
        BY <3>1, <2>6
      <4>2. QED
        BY <4>1, <2>8
    <3>4. QED
      BY <2>11, <3>1, <3>2, <3>3 DEF q, r
  <2>14. upload'.pages[1] = f.first
    <3>1. 1 \in 1 .. n /\ 1 - 1 = 0
      BY <2>6
    <3>2. QED
      BY <3>1, <2>8, <2>10
  <2>15. Written(upload')
    BY <2>1, <2>2, <2>8, <2>12, <2>13, <2>14 DEF Written
  <2>16. Written(upload)'
    BY <1>m, <2>15 DEF Written, Candidates, BlockOf
  <2>17. DeliverInv'
    BY <1>m, <1>3, <2>16 DEF DeliverInv, Blocks, BlockCount
  <2>18. QED
    BY <2>7, <2>17
<1>4. QED
  BY <1>1, <1>2, <1>3 DEF Finish

\* While metadata and blocks stay, what was acceptable and written stays so.
LEMMA SameMetadata ==
  ASSUME UNCHANGED <<fat, root, received, started>>
  PROVE  Ejectable' = Ejectable /\ \A up : Written(up)' = Written(up)
<1>1. Ejectable' = Ejectable
  BY DEF Ejectable, Acceptable, TheFile, TheChain, Chain, Candidates, FileBlocks, BlockOf,
     PagesOf, Pages, PageCount
<1>2. \A up : Written(up)' = Written(up)
  BY DEF Written, Candidates, BlockOf
<1>3. QED
  BY <1>1, <1>2

\* Every other action.
LEMMA DeliverStep ==
  UploadInv /\ DeliverInv /\ [Next]_vars /\ ~Finish => DeliverInv'
<1> SUFFICES ASSUME UploadInv, DeliverInv, [Next]_vars, ~Finish PROVE DeliverInv'
  OBVIOUS
<1> USE DEF UploadInv
<1>a. ASSUME AbortUpload \/ (\E as \in Failures : Fail(as)) PROVE status' # "Ready"
  BY <1>a DEF AbortUpload, Fail, Failures, installer
<1>q. ASSUME UNCHANGED <<fat, root, received, started, disk>>, status' = "Ready" => status = "Ready" /\ sent' = sent /\ upload' = upload,
             at' \notin {"erase", "burn", "finish"}
      PROVE  DeliverInv'
  BY <1>q, SameMetadata DEF DeliverInv, Blocks, BlockCount
<1>v. ASSUME NEW on \in BOOLEAN, SetEnabled(on), at' \notin {"erase", "burn", "finish"}
      PROVE  DeliverInv'
  <2>1. CASE UNCHANGED <<enabled, volume, installer, disk>>
    BY <1>v, <2>1, <1>q DEF volume, installer
  <2>2. CASE ~enabled /\ ResetVolume /\ UNCHANGED installer
    BY <1>v, <2>2 DEF ResetVolume, DeliverInv, InSession, installer, Blocks, BlockCount
  <2>3. CASE AbortUpload /\ UNCHANGED <<volume, disk>>
    BY <1>v, <2>3, <1>a, <1>q DEF volume
  <2>4. QED
    BY <1>v, <2>1, <2>2, <2>3 DEF SetEnabled, TypeOK
<1>t. UsbMode \in BOOLEAN
  BY DEF UsbMode, TypeOK
<1>1. CASE Start
  BY <1>1, <1>t, <1>v DEF Start
<1>2. CASE Cancel
  BY <1>2, <1>v, <1>q DEF Cancel, volume, installer
<1>3. CASE Service \/ UsbIdle
  BY <1>3, <1>q DEF Service, UsbIdle, volume, installer
<1>4. CASE Enable
  BY <1>4, <1>t, <1>v DEF Enable
<1>5. CASE Process
  BY <1>5, <1>a, <1>q DEF Process, Failures, volume, installer
<1>6. CASE ProcessEnds
  BY <1>6, <1>q DEF ProcessEnds, volume
<1>7. CASE PowerCycle
  BY <1>7 DEF PowerCycle, ResetVolume, DeliverInv, Blocks, BlockCount
<1>8. CASE Pin \/ UNCHANGED vars
  <2>1. UNCHANGED <<at, todo, volume, installer, disk>>
    BY <1>8 DEF Pin, vars
  <2>2. QED
    BY <2>1, SameMetadata DEF DeliverInv, volume, installer, Blocks, BlockCount
<1>9. CASE WriteFat \/ WriteRoot
  <2>1. /\ at = "usb" /\ at' = "usb" /\ ~sent
        /\ UNCHANGED <<received, started, sent, installer, disk>>
    BY <1>9 DEF WriteFat, WriteRoot, Writable, Mounted
  <2>2. QED
    BY <2>1 DEF DeliverInv, installer, Blocks, BlockCount
<1>10. CASE WriteData
  <2>1. /\ at' \in {"stage", "usb"} /\ UNCHANGED <<received, disk>> /\ ~sent
        /\ (status' = status \/ status' # "Ready")
    BY <1>10 DEF WriteData, Writable, Mounted, Begin, Return, installer
  <2>2. QED
    BY <2>1 DEF DeliverInv, Blocks, BlockCount
<1>11. CASE Synchronize
  <2>1. at = "usb" /\ UNCHANGED <<volume, disk>>
    BY <1>11 DEF Synchronize, Mounted
  <2>2. CASE AbortUpload /\ Return
    BY <2>1, <2>2, <1>a, <1>q DEF Return, volume
  <2>3. CASE at' = "erase" /\ todo' = [op |-> "sync"] /\ UNCHANGED installer
    BY <2>1, <2>3, SameMetadata DEF DeliverInv, volume, installer, Blocks, BlockCount
  <2>4. CASE Return /\ UNCHANGED installer
    BY <2>1, <2>4, <1>q DEF Return, volume, installer
  <2>5. QED
    BY <1>11, <2>2, <2>3, <2>4 DEF Synchronize
<1>12. CASE Eject
  <2>1. Ejectable /\ UNCHANGED <<volume, disk>>
    BY <1>12 DEF Eject
  <2>2. CASE AbortUpload /\ Return
    BY <2>1, <2>2, <1>a, <1>q DEF Return, volume
  <2>3. CASE UNCHANGED installer
    BY <2>1, <2>3, SameMetadata DEF DeliverInv, volume, installer, Blocks, BlockCount
  <2>4. QED
    BY <1>12, <2>2, <2>3 DEF Eject
<1>13. CASE Unmount
  <2>1. at \in {"usb", "processing"} /\ at' = at /\ UNCHANGED <<volume, disk>> /\ AbortUpload
    BY <1>13 DEF Unmount
  <2>2. QED
    BY <2>1, <1>a, <1>q DEF volume
<1>14. CASE Stage
  <2>w. /\ at = "stage" /\ todo.block \in Blocks /\ todo.data # Unwritten /\ todo.op = "write"
        /\ UNCHANGED <<fat, root, started, sent>>
    BY <1>14, DataAssumption DEF Stage, Owned, Writes
  <2>1. CASE AbortUpload /\ Return /\ UNCHANGED <<received, disk>>
    BY <2>w, <2>1, <1>a, <1>q DEF Return
  <2>2. CASE Return /\ UNCHANGED <<received, disk, installer>>
    BY <2>w, <2>2, <1>q DEF Return, installer
  <2>3. CASE Flush
    BY <2>w, <2>3, SameMetadata DEF Flush, DeliverInv, installer, Blocks, BlockCount
  <2>4. CASE status = "Receiving" /\ status' = status /\ Accept(todo.block, todo.data)
    <3>1. received' = {b \in Blocks : disk'[b] # Unwritten}
      BY <2>w, <2>4 DEF Accept, DeliverInv, TypeOK
    <3>2. QED
      BY <2>4, <3>1 DEF Accept, Return, DeliverInv, Blocks, BlockCount
  <2>5. QED
    BY <1>14, <2>1, <2>2, <2>3, <2>4 DEF Stage
<1>15. CASE Erase \/ BurnBlock \/ Verify
  <2>1. at \in {"erase", "burn"} /\ UNCHANGED <<volume, disk>>
    BY <1>15 DEF Erase, BurnBlock, Verify
  <2>2. \/ at' \in {"erase", "burn"} /\ UNCHANGED <<todo, installer>>
        \/ Return /\ \E as \in Failures : Fail(as)
        \/ AfterFlush /\ UNCHANGED <<status, upload>>
    BY <1>15 DEF Erase, BurnBlock, Verify, FlushFails, Failures
  <2>3. CASE at' \in {"erase", "burn"} /\ UNCHANGED <<todo, installer>>
    BY <2>1, <2>3, SameMetadata DEF DeliverInv, volume, installer, Blocks, BlockCount
  <2>4. CASE Return /\ \E as \in Failures : Fail(as)
    BY <2>1, <2>4, <1>a, <1>q DEF Return, volume
  <2>5. CASE AfterFlush /\ UNCHANGED <<status, upload>>
    BY <2>1, <2>5, SameMetadata DEF AfterFlush, Return, DeliverInv, volume, Blocks, BlockCount
  <2>6. QED
    BY <2>2, <2>3, <2>4, <2>5
<1>16. QED
  BY <1>1, <1>2, <1>3, <1>4, <1>5, <1>6, <1>7, <1>8, <1>9, <1>10, <1>11, <1>12, <1>13, <1>14,
     <1>15 DEF Next, Host, Callback, MainLoop

\* Stuttering keeps the invariant.
LEMMA StutterStep == UploadInv /\ UNCHANGED vars => UploadInv'
<1> SUFFICES ASSUME UploadInv, UNCHANGED vars PROVE UploadInv'
  OBVIOUS
<1>1. UNCHANGED <<loop, at, todo, k, volume, installer, flash, disk>>
  BY DEF vars
<1>2. InstallerOK' /\ Buffered' /\ ReadsBack'
  BY <1>1, SameReads
<1>3. TypeOK'
  BY <1>1 DEF UploadInv, TypeOK, loop, volume, installer, InSector, FlashBlocks, SectorOf
<1>4. Owned' /\ InSession'
  BY <1>1 DEF UploadInv, Owned, InCallback, InSession, loop, volume, installer, Blocks, BlockCount
<1>5. QED
  BY <1>2, <1>3, <1>4 DEF UploadInv

\* The invariant of every step.
LEMMA UploadStep ==
  UploadInv /\ DeliverInv /\ [Next]_vars => UploadInv' /\ DeliverInv'
<1> SUFFICES ASSUME UploadInv, DeliverInv, [Next]_vars PROVE UploadInv' /\ DeliverInv'
  OBVIOUS
<1>1. CASE Finish
  BY <1>1, FinishStep
<1>2. CASE ~Finish
  <2>1. DeliverInv'
    BY <1>2, DeliverStep
  <2>2. UploadInv'
    BY <1>2, LoopStep, HostStep, StageStep, FlushStep, StutterStep DEF Next, Callback
  <2>3. QED
    BY <2>1, <2>2
<1>3. QED
  BY <1>1, <1>2

LEMMA UploadInvariant == Spec => [](UploadInv /\ DeliverInv)
<1>1. Init => UploadInv /\ DeliverInv
  BY InitUploadInv DEF Init, DeliverInv
<1>2. QED
  BY <1>1, UploadStep, PTL DEF Spec

\* Every variable of the upload keeps its type.
THEOREM UploadTypeCorrect == Spec => []TypeOK
BY UploadInvariant, PTL DEF UploadInv

\* Whatever the geometry, the data and the failures of the bus, the drive reads
\* back what the host has written last: the sector buffer hides the flash until
\* a sector is verified.
THEOREM UploadReadsBack == Spec => []ReadsBack
BY UploadInvariant, PTL DEF UploadInv

\* The upload handed to the installation is the drive's only candidate in the
\* order of its FAT chain, of any length, with the data written last.
THEOREM UploadDelivers == Spec => []Delivered
<1>1. UploadInv /\ DeliverInv => Delivered
  <2> SUFFICES ASSUME UploadInv, DeliverInv, status = "Ready" PROVE FileOf(upload)
    BY DEF Delivered
  <2>1. Written(upload)
    BY DEF DeliverInv
  <2>2. ASSUME NEW b \in received PROVE disk[b] # Unwritten /\ Staged(b) = disk[b]
    BY DEF DeliverInv, UploadInv, ReadsBack
  <2>3. QED
    BY <2>1, <2>2 DEF Written, FileOf
<1>2. QED
  BY <1>1, UploadInvariant, PTL

\* The flash changes only while the console is isolated and told so.
THEOREM UploadIsolated == Spec => IsolatedWrites
<1>1. UploadInv /\ [Next]_vars => [flash' # flash => enabled /\ busy /\ ~present]_vars
  <2> SUFFICES ASSUME UploadInv, Next, flash' # flash PROVE enabled /\ busy /\ ~present
    OBVIOUS
  <2>1. Erase \/ BurnBlock
    BY DEF Next, Host, Callback, MainLoop, Start, Cancel, Service, Enable, UsbIdle, Process,
       ProcessEnds, Pin, PowerCycle, WriteFat, WriteRoot, WriteData, Synchronize, Eject, Unmount,
       Stage, Verify, Finish
  <2>2. at \in {"erase", "burn"}
    BY <2>1 DEF Erase, BurnBlock
  <2>3. QED
    BY <2>2 DEF UploadInv, Owned, InCallback
<1>2. QED
  BY <1>1, UploadInvariant, PTL DEF Spec, IsolatedWrites
=============================================================================
