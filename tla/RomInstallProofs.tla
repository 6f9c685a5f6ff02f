--------------------------- MODULE RomInstallProofs ---------------------------
(***************************************************************************)
(* Proofs about RomInstall for every set of uploads: every map, image      *)
(* size, device, order of the file's pages, with and without a copier      *)
(* header, plain or as a dump.                                             *)
(***************************************************************************)
EXTENDS RomInstall, FiniteSetTheorems, FunctionTheorems, TLAPS

Files == 0 .. FileCells(upload) - 1
Units == 0 .. upload.size - 1

-----------------------------------------------------------------------------
(* The inductive invariant.                                                *)

Contentful == Int \ {Descriptor}

Types ==
  /\ upload \in Uploads
  /\ status \in Statuses
  /\ busy \in BOOLEAN /\ (busy <=> status \in {"Ready", "Programming"})
  /\ usb \in BOOLEAN
  /\ k \in Nat
  /\ pages \in [Files -> 0 .. Capacity]
  /\ cells \in [0 .. Capacity -> Int]
  /\ rep \in [Units -> {None} \cup 0 .. Capacity - 1]
  /\ final \in SUBSET Sectors
  /\ fxrom \in [0 .. FxUnits - 1 -> Int]

\* Where process() is, and what it knows: once the upload is aborted it does
\* not get to where success is reported or the map committed.
Placed ==
  /\ pc \in {"ready", "swap", "check", "raw", "copy", "copyburn", "fx",
             "program", "burn", "words", "magic", "done"}
  /\ pc = "ready" <=> status = "Ready"
  /\ pc = "done" => ~busy
  /\ pc # "done" => status \in {"Ready", "Programming", "Aborted"}
  /\ pc \in {"check", "copy", "words", "magic"} => busy
  /\ pc = "program" /\ k > 0 => busy
  /\ pc \in {"ready", "swap", "raw", "check"} => k = 0
  /\ pc = "raw" => upload.type = "Raw"
  /\ pc \in {"check", "copy", "copyburn", "fx", "program", "burn", "words", "magic"} =>
       upload.type = "Sfc"
  /\ pc \in {"copy", "copyburn"} => upload.header
  /\ pc = "fx" => upload.map = "Fx3"
  /\ pc \in {"words", "magic"} => Capacity = BusUnits

\* While pages are swapped: they say where each part of the file is.
FileInPages ==
  /\ \A i, j \in Files : pages[i] = pages[j] => i = j
  /\ \A i \in Files : cells[pages[i]] = FileCell(upload, i)

FileInOrder == \A i \in Files : i \in 0 .. Capacity /\ cells[i] = FileCell(upload, i)

\* While the copier header is removed: units before position k are in place,
\* the others still shifted.
Copied ==
  /\ k \in 0 .. CopySectors
  /\ \A o \in Units : o < SectorUnits * k => cells[DataAt + o] = o
  /\ \A o \in 0 .. upload.size :
       SectorUnits * k <= o /\ ~(pc = "copyburn" /\ Sector(DataAt + o) = CopySector) =>
         cells[DataAt + o] = Shifted(o)

CopyBuffered ==
  /\ k < CopySectors
  /\ buffer \in [UnitsOf(CopySector) -> Contentful]
  /\ \A c \in UnitsOf(CopySector) : c - DataAt \in Units => buffer[c] = c - DataAt

\* Sectors that are not final still hold the part of the image that the upload
\* has put there, but for the sector being programmed.
SourcesLeft ==
  \A o \in Units :
    Sector(DataAt + o) \notin final /\ ~(pc = "burn" /\ Sector(DataAt + o) = Current) =>
      cells[DataAt + o] = o

\* Final sectors show the image, and the representatives are in them.
FinalShows ==
  \A s \in final : \A p \in UnitsOf(s) : \A o \in ImageSources(p) : cells[p] = o

Representing ==
  \A o \in Units : rep[o] # None => Sector(rep[o]) \in final /\ o \in ImageSources(rep[o])

\* Every unit of the image that is shown anywhere is represented.
Represents ==
  \A p \in 0 .. Capacity - 1 : \A o \in ImageSources(p) : rep[o] # None

FxFilled(n) ==
  upload.map = "Fx3" =>
    \A f \in 0 .. FxUnits - 1 :
      f < n => fxrom[f] = SourceOffset(upload.map, upload.size, 4 * MiB + f)

Buffered ==
  /\ k < Len(ProgramOrder)
  /\ buffer \in [UnitsOf(Current) -> Contentful]
  /\ \A p \in UnitsOf(Current) : \A o \in ImageSources(p) : buffer[p] = o

Fresh == final = {} /\ \A o \in Units : rep[o] = None

\* The sectors programmed so far.
Done(n) == {ProgramOrder[i] : i \in 1 .. n}

Programming ==
  /\ k \in 0 .. Len(ProgramOrder)
  /\ final = Done(k)
  /\ SourcesLeft /\ FinalShows /\ Representing /\ FxFilled(FxUnits)

\* The whole flash shows the image.
Whole == final = Sectors /\ FinalShows /\ Representing /\ Represents /\ FxFilled(FxUnits)

\* An installation that reports success has done what Installed asks for.
Success == IF upload.type = "Raw" THEN \A c \in 0 .. Capacity - 1 : cells[c] = FileCell(upload, c)
                                  ELSE Whole

Contents ==
  /\ pc \in {"ready", "swap", "raw", "check", "copy", "copyburn", "fx"} => Fresh
  /\ pc \in {"ready", "swap"} => FileInPages
  /\ pc \in {"raw", "check"} => FileInOrder
  /\ pc \in {"copy", "copyburn"} => Copied
  /\ pc = "copyburn" => CopyBuffered
  /\ pc = "fx" => SourcesLeft /\ k \in 0 .. FxUnits /\ FxFilled(k)
  /\ pc \in {"program", "burn"} => Programming
  /\ pc = "burn" => Buffered
  /\ pc \in {"words", "magic"} => Whole
  /\ status = "Complete" => Success

\* The map is committed at the end of an installation only, over a flash that
\* shows the image.
Uncommitted == \A c \in 0 .. Capacity : cells[c] # Descriptor
Committed == Uncommitted \/ (pc = "done" /\ upload.type = "Sfc" /\ Whole)

RInv == Types /\ Placed /\ Contents /\ Committed
-----------------------------------------------------------------------------
(* The shape of an upload.                                                 *)

\* What UploadsAssumption says of the upload at hand.
LEMMA UploadFacts ==
  ASSUME upload \in Uploads
  PROVE  /\ upload.type \in {"Sfc", "Raw"} /\ upload.map \in Maps
         /\ upload.header \in BOOLEAN /\ upload.dump \in BOOLEAN
         /\ upload.size \in 1 .. 512
         /\ Capacity \in {32, 64, 128, 256, 512}
         /\ DataAt \in {0, 128}
         /\ upload.dump <=> DataAt = 128
         /\ upload.dump => upload.map = "Fx3" /\ upload.size = 128
         /\ FileCells(upload) = DataAt + upload.size + (IF upload.header THEN 1 ELSE 0)
         /\ FileCells(upload) \in Nat
         /\ upload.chain \in [Files -> 0 .. Capacity]
         /\ \A i \in Files : upload.chain[i] = Capacity => upload.header
         /\ Cardinality(Range(upload.chain)) = FileCells(upload)
<1>1. /\ upload.type \in {"Sfc", "Raw"} /\ upload.map \in Maps
      /\ upload.size \in 1 .. 512 /\ upload.header \in BOOLEAN /\ upload.dump \in BOOLEAN
      /\ Capacity \in {32, 64, 128, 256, 512}
      /\ upload.chain \in [Files -> 0 .. Capacity]
      /\ Cardinality(Range(upload.chain)) = FileCells(upload)
      /\ \A i \in DOMAIN upload.chain :
           upload.chain[i] = Capacity => upload.header /\ i = FileCells(upload) - 1
      /\ upload.dump => upload.map = "Fx3" /\ upload.size = 128
  BY UploadsAssumption DEF Capacity, Files, MiB, BusUnits
<1>2. /\ DataAt = IF upload.dump THEN 128 ELSE 0
      /\ FileCells(upload) = DataAt + upload.size + (IF upload.header THEN 1 ELSE 0)
  BY DEF DataAt, FileCells, MiB
<1>3. DataAt \in {0, 128} /\ (upload.dump <=> DataAt = 128)
  BY <1>1, <1>2
<1>4. FileCells(upload) \in Nat
  BY <1>1, <1>2, <1>3, SMTT(30)
<1>5. \A i \in Files : upload.chain[i] = Capacity => upload.header
  BY <1>1
<1>6. QED
  BY <1>1, <1>2, <1>3, <1>4, <1>5

\* The pages of the file are distinct.
LEMMA ChainInjective ==
  ASSUME upload \in Uploads
  PROVE  upload.chain \in Injection(Files, 0 .. Capacity)
<1> DEFINE R == Range(upload.chain)
<1>1. upload.chain \in [Files -> 0 .. Capacity] /\ FileCells(upload) \in Nat
  BY UploadFacts
<1>2. upload.chain \in Surjection(Files, R)
  BY <1>1, Fun_RangeProperties
<1>3. IsFiniteSet(Files) /\ Cardinality(Files) = FileCells(upload)
  BY <1>1, FS_Interval, SMTT(30) DEF Files
<1>4. Cardinality(R) = Cardinality(Files)
  BY <1>3, UploadFacts
<1>5. upload.chain \in Injection(Files, R)
  BY <1>2, <1>3, <1>4, FS_Surjection
<1>6. QED
  BY <1>1, <1>5 DEF Injection, IsInjective

\* The device holds the image; only its last page may be among the spill pages.
LEMMA ImageFits ==
  ASSUME upload \in Uploads
  PROVE  DataAt + upload.size <= Capacity
<1> DEFINE last == IF upload.header THEN Capacity ELSE Capacity - 1
<1>a. /\ Capacity \in Nat /\ Capacity > 0 /\ upload.header \in BOOLEAN
      /\ DataAt \in Nat /\ upload.size \in Nat /\ FileCells(upload) \in Nat
      /\ FileCells(upload) = DataAt + upload.size + (IF upload.header THEN 1 ELSE 0)
  BY UploadFacts
<1>1. last \in Int /\ last >= 0
  BY <1>a
<1>2. upload.chain \in Injection(Files, 0 .. last)
  BY <1>a, UploadFacts, ChainInjective DEF Injection, IsInjective
<1> HIDE DEF last
<1>3. IsFiniteSet(0 .. last) /\ Cardinality(0 .. last) = last + 1
  BY <1>1, FS_Interval
<1>b. FileCells(upload) \in Nat
  BY <1>a
<1>4. IsFiniteSet(Files) /\ Cardinality(Files) = FileCells(upload)
  BY <1>b, FS_Interval, SMTT(30) DEF Files
<1>5. Cardinality(Files) <= Cardinality(0 .. last)
  BY <1>2, <1>3, FS_Injection
<1>6. QED
  BY <1>a, <1>1, <1>3, <1>4, <1>5 DEF last

-----------------------------------------------------------------------------
(* The maps.                                                               *)

LEMMA LinearInBus ==
  ASSUME NEW map \in Maps, NEW u \in 0 .. 511
  PROVE  Linear(map, u) \in 0 .. 255
<1>1. u \div 2 \in 0 .. 255 /\ u % 2 \in 0 .. 1
  OBVIOUS
<1> DEFINE b == (u \div 2) % 128
<1>2. b \in 0 .. 127 /\ b % 64 \in 0 .. 63
  BY <1>1
<1>3. ((u \div 2) + 128) % 256 \in 0 .. 255
  BY <1>1
<1> HIDE DEF b
<1>4. CASE map = "LoRom"
  BY <1>2, <1>4 DEF Linear, Bank, b
<1>5. CASE map = "HiRom"
  BY <1>1, <1>2, <1>5 DEF Linear, Bank, b
<1>6. CASE map = "ExLoRom"
  BY <1>3, <1>6 DEF Linear, Bank
<1>7. CASE map = "ExHiRom"
  BY <1>1, <1>2, <1>7 DEF Linear, Bank, MiB, b
<1>8. CASE map = "Fx3"
  BY <1>1, <1>2, <1>8 DEF Linear, Bank, b
<1>9. QED
  BY <1>4, <1>5, <1>6, <1>7, <1>8 DEF Maps

LEMMA OffsetInImage ==
  ASSUME NEW map \in Maps, NEW size \in 1 .. 512, NEW u \in 0 .. 511
  PROVE  SourceOffset(map, size, u) \in 0 .. size - 1
<1>1. Linear(map, u) \in 0 .. 255
  BY LinearInBus
<1>2. BusUnits = 512
  BY DEF BusUnits, MiB
<1>3. \A s \in 1 .. 512, o \in 0 .. 255 : MirrorOffset[s][o] \in 0 .. s - 1
  BY <1>2, MirrorAssumption, ZenonT(60)
<1>4. MirrorOffset[size][Linear(map, u)] \in 0 .. size - 1
  BY <1>1, <1>3, Zenon
<1>5. QED
  BY <1>4, SMTT(30) DEF SourceOffset

\* What a place of the flash shows is part of the image, and is what the bus
\* addresses it answers ask for.
LEMMA SourcesAre ==
  ASSUME upload \in Uploads, NEW p \in 0 .. Capacity - 1
  PROVE  /\ ImageSources(p) \subseteq Units
         /\ \A o \in ImageSources(p) :
              \E u \in 0 .. 511 : HasSource(upload.map, u)
                                  /\ SourceOffset(upload.map, upload.size, u) = o
<1>1. /\ upload.map \in Maps /\ upload.size \in 1 .. 512
      /\ Capacity \in {32, 64, 128, 256, 512}
  BY UploadFacts
<1>2. Aliases(Capacity, p) \subseteq 0 .. 511
  <2> SUFFICES ASSUME NEW n \in 0 .. (512 \div Capacity) - 1
               PROVE  p + n * Capacity \in 0 .. 511
    BY DEF Aliases, BusUnits, MiB
  <2>1. CASE Capacity = 32
    BY <2>1
  <2>2. CASE Capacity = 64
    BY <2>2
  <2>3. CASE Capacity = 128
    BY <2>3
  <2>4. CASE Capacity = 256
    BY <2>4
  <2>5. CASE Capacity = 512
    BY <2>5
  <2>6. QED
    BY <1>1, <2>1, <2>2, <2>3, <2>4, <2>5
<1>3. ASSUME NEW o \in ImageSources(p)
      PROVE  /\ o \in Units
             /\ \E u \in 0 .. 511 : HasSource(upload.map, u)
                                    /\ SourceOffset(upload.map, upload.size, u) = o
  <2>1. PICK u \in Aliases(Capacity, p) :
               HasSource(upload.map, u) /\ SourceOffset(upload.map, upload.size, u) = o
    BY DEF ImageSources, Sources
  <2>2. u \in 0 .. 511
    BY <1>2, <2>1
  <2>3. SourceOffset(upload.map, upload.size, u) \in 0 .. upload.size - 1
    <3> DEFINE m == upload.map
               n == upload.size
    <3>1. m \in Maps /\ n \in 1 .. 512
      BY <1>1
    <3> HIDE DEF m, n
    <3>2. SourceOffset(m, n, u) \in 0 .. n - 1
      BY <2>2, <3>1, OffsetInImage, ZenonT(60)
    <3>3. QED
      BY <3>2 DEF m, n
  <2>4. QED
    BY <2>1, <2>2, <2>3 DEF Units
<1>4. QED
  BY <1>3

\* Every bus address is answered by a place that shows what it asks for.
LEMMA AddressShown ==
  ASSUME upload \in Uploads, NEW u \in 0 .. 511, HasSource(upload.map, u)
  PROVE  /\ u % Capacity \in 0 .. Capacity - 1
         /\ SourceOffset(upload.map, upload.size, u) \in ImageSources(u % Capacity)
<1>1. Capacity \in {32, 64, 128, 256, 512}
  BY UploadFacts
<1>2. \E n \in 0 .. (512 \div Capacity) - 1 :
        u % Capacity \in 0 .. Capacity - 1 /\ u = (u % Capacity) + n * Capacity
  <2> SUFFICES /\ u % Capacity \in 0 .. Capacity - 1
               /\ u \div Capacity \in 0 .. (512 \div Capacity) - 1
               /\ u = (u % Capacity) + (u \div Capacity) * Capacity
    OBVIOUS
  <2>1. CASE Capacity = 32
    BY <2>1
  <2>2. CASE Capacity = 64
    BY <2>2
  <2>3. CASE Capacity = 128
    BY <2>3
  <2>4. CASE Capacity = 256
    BY <2>4
  <2>5. CASE Capacity = 512
    BY <2>5
  <2>6. QED
    BY <1>1, <2>1, <2>2, <2>3, <2>4, <2>5
<1>3. u \in Aliases(Capacity, u % Capacity)
  BY <1>2 DEF Aliases, BusUnits, MiB
<1>4. QED
  BY <1>2, <1>3 DEF ImageSources, Sources

\* The place of the descriptor is shown at no address.
LEMMA DescriptorHidden ==
  ASSUME Capacity = BusUnits
  PROVE  ImageSources(DescriptorAt) = {}
<1>1. Aliases(512, 252) = {252}
  BY DEF Aliases, BusUnits, MiB
<1>2. ~HasSource(upload.map, 252)
  BY DEF HasSource, Bank
<1>3. QED
  BY <1>1, <1>2 DEF ImageSources, Sources, DescriptorAt, BusUnits, MiB

-----------------------------------------------------------------------------
(* The order of programming.                                               *)

\* q counts up to n, in some order.
Enumerates(q, n) ==
  /\ q \in Seq(Nat) /\ Len(q) = n
  /\ \A i \in 1 .. n : q[i] \in 0 .. n - 1
  /\ \A i, j \in 1 .. n : q[i] = q[j] => i = j
  /\ \A s \in 0 .. n - 1 : \E i \in 1 .. n : q[i] = s

\* An ascending run of sectors, of a range that is made of sectors.
LEMMA UpIs ==
  ASSUME NEW a \in Nat, NEW n \in Nat
  PROVE  /\ Up(4 * a, 4 * a + 4 * n) \in Seq(Nat)
         /\ Len(Up(4 * a, 4 * a + 4 * n)) = n
         /\ \A i \in 1 .. n : Up(4 * a, 4 * a + 4 * n)[i] = a + i - 1
<1>1. Sector(4 * a) = a /\ Sector((4 * a + 4 * n) - 4 * a) = n
  BY DEF Sector, SectorUnits
<1>2. Up(4 * a, 4 * a + 4 * n) = [i \in 1 .. n |-> a + i - 1]
  BY <1>1 DEF Up
<1>3. \A i \in 1 .. n : a + i - 1 \in Nat
  OBVIOUS
<1>4. QED
  BY <1>2, <1>3

\* The same downwards from the end.
LEMMA DownIs ==
  ASSUME NEW n \in Nat
  PROVE  /\ Down(0, 4 * n) \in Seq(Nat)
         /\ Len(Down(0, 4 * n)) = n
         /\ \A i \in 1 .. n : Down(0, 4 * n)[i] = n - i
<1>1. Sector(4 * n) = n /\ Sector(4 * n - 0) = n
  BY DEF Sector, SectorUnits
<1>2. Down(0, 4 * n) = [i \in 1 .. n |-> n - i]
  BY <1>1 DEF Down
<1>3. \A i \in 1 .. n : n - i \in Nat
  OBVIOUS
<1>4. QED
  BY <1>2, <1>3

\* Two runs one after the other.
LEMMA Joined ==
  ASSUME NEW q \in Seq(Nat), NEW r \in Seq(Nat)
  PROVE  /\ q \o r \in Seq(Nat) /\ Len(q \o r) = Len(q) + Len(r)
         /\ \A i \in 1 .. Len(q) + Len(r) :
              (q \o r)[i] = IF i <= Len(q) THEN q[i] ELSE r[i - Len(q)]
  OBVIOUS

\* The halves of a device in the one order and in the other.
LEMMA HalvesOrder ==
  ASSUME NEW h \in Nat
  PROVE  /\ Up(4 * h, 8 * h) \o Up(0, 4 * h) \in Seq(Nat)
         /\ Len(Up(4 * h, 8 * h) \o Up(0, 4 * h)) = 2 * h
         /\ \A i \in 1 .. 2 * h : i <= h => (Up(4 * h, 8 * h) \o Up(0, 4 * h))[i] = h + i - 1
         /\ \A i \in 1 .. 2 * h : i > h => (Up(4 * h, 8 * h) \o Up(0, 4 * h))[i] = i - h - 1
         /\ Up(0, 4 * h) \o Up(4 * h, 8 * h) \in Seq(Nat)
         /\ Len(Up(0, 4 * h) \o Up(4 * h, 8 * h)) = 2 * h
         /\ \A i \in 1 .. 2 * h : (Up(0, 4 * h) \o Up(4 * h, 8 * h))[i] = i - 1
<1> DEFINE hi == Up(4 * h, 8 * h)
           lo == Up(0, 4 * h)
<1>1. /\ hi \in Seq(Nat) /\ Len(hi) = h
      /\ \A i \in 1 .. h : hi[i] = h + i - 1
  <2>1. 8 * h = 4 * h + 4 * h
    OBVIOUS
  <2>2. QED
    BY <2>1, UpIs
<1>2. /\ lo \in Seq(Nat) /\ Len(lo) = h
      /\ \A i \in 1 .. h : lo[i] = i - 1
  <2>1. 4 * 0 = 0 /\ 4 * 0 + 4 * h = 4 * h
    OBVIOUS
  <2>2. /\ Up(4 * 0, 4 * 0 + 4 * h) \in Seq(Nat)
        /\ Len(Up(4 * 0, 4 * 0 + 4 * h)) = h
        /\ \A i \in 1 .. h : Up(4 * 0, 4 * 0 + 4 * h)[i] = 0 + i - 1
    BY UpIs
  <2>3. QED
    BY <2>1, <2>2
<1> HIDE DEF hi, lo
<1>3. /\ hi \o lo \in Seq(Nat) /\ Len(hi \o lo) = 2 * h
      /\ \A i \in 1 .. 2 * h : i <= h => (hi \o lo)[i] = h + i - 1
      /\ \A i \in 1 .. 2 * h : i > h => (hi \o lo)[i] = i - h - 1
  <2> DEFINE q == hi \o lo
  <2>a. /\ q \in Seq(Nat) /\ Len(q) = Len(hi) + Len(lo)
        /\ \A i \in 1 .. Len(hi) + Len(lo) :
             q[i] = IF i <= Len(hi) THEN hi[i] ELSE lo[i - Len(hi)]
    BY <1>1, <1>2, Joined
  <2> HIDE DEF q
  <2>b. Len(q) = 2 * h
    BY <1>1, <1>2, <2>a
  <2>c. \A i \in 1 .. 2 * h : i <= h => q[i] = h + i - 1
    BY <1>1, <1>2, <2>a
  <2>d. \A i \in 1 .. 2 * h : i > h => q[i] = i - h - 1
    BY <1>1, <1>2, <2>a
  <2>1. QED
    BY <2>a, <2>b, <2>c, <2>d DEF q
<1>4. /\ lo \o hi \in Seq(Nat) /\ Len(lo \o hi) = 2 * h
      /\ \A i \in 1 .. 2 * h : (lo \o hi)[i] = i - 1
  <2> DEFINE q == lo \o hi
  <2>a. /\ q \in Seq(Nat) /\ Len(q) = Len(lo) + Len(hi)
        /\ \A i \in 1 .. Len(lo) + Len(hi) :
             q[i] = IF i <= Len(lo) THEN lo[i] ELSE hi[i - Len(lo)]
    BY <1>1, <1>2, Joined
  <2> HIDE DEF q
  <2>b. Len(q) = 2 * h
    BY <1>1, <1>2, <2>a
  <2>c. \A i \in 1 .. 2 * h : i <= h => q[i] = i - 1
    BY <1>1, <1>2, <2>a
  <2>d. \A i \in 1 .. 2 * h : i > h => q[i] = i - 1
    BY <1>1, <1>2, <2>a
  <2>e. ASSUME NEW i \in 1 .. 2 * h
        PROVE  q[i] = i - 1
    <3>1. i <= h \/ i > h
      OBVIOUS
    <3>2. QED
      BY <2>c, <2>d, <3>1, Zenon
  <2>1. QED
    BY <2>a, <2>b, <2>e DEF q
<1>5. QED
  BY <1>3, <1>4 DEF hi, lo

\* Both halves, the upper one first, cover everything, and so do both halves
\* in order.
LEMMA HalvesEnumerate ==
  ASSUME NEW h \in Nat
  PROVE  /\ Enumerates(Up(4 * h, 8 * h) \o Up(0, 4 * h), 2 * h)
         /\ Enumerates(Up(0, 4 * h) \o Up(4 * h, 8 * h), 2 * h)
<1>1. Enumerates(Up(4 * h, 8 * h) \o Up(0, 4 * h), 2 * h)
  <2> DEFINE q == Up(4 * h, 8 * h) \o Up(0, 4 * h)
  <2>1. /\ q \in Seq(Nat) /\ Len(q) = 2 * h
        /\ \A i \in 1 .. 2 * h : i <= h => q[i] = h + i - 1
        /\ \A i \in 1 .. 2 * h : i > h => q[i] = i - h - 1
    BY HalvesOrder
  <2> HIDE DEF q
  <2>2. \A s \in 0 .. 2 * h - 1 : \E i \in 1 .. 2 * h : q[i] = s
    <3> TAKE s \in 0 .. 2 * h - 1
    <3>1. CASE s >= h
      <4>1. s - h + 1 \in 1 .. 2 * h /\ q[s - h + 1] = s
        BY <2>1, <3>1
      <4>2. QED
        BY <4>1
    <3>2. CASE s < h
      <4>1. s + h + 1 \in 1 .. 2 * h /\ q[s + h + 1] = s
        BY <2>1, <3>2
      <4>2. QED
        BY <4>1
    <3>3. QED
      BY <3>1, <3>2
  <2>e. ASSUME NEW i \in 1 .. 2 * h
        PROVE  (i <= h /\ q[i] = h + i - 1) \/ (i > h /\ q[i] = i - h - 1)
    <3>1. i <= h \/ i > h
      OBVIOUS
    <3>2. QED
      BY <2>1, <3>1, Zenon
  <2>f. \A i \in 1 .. 2 * h : q[i] \in 0 .. 2 * h - 1
    BY <2>e
  <2>g. ASSUME NEW i \in 1 .. 2 * h, NEW j \in 1 .. 2 * h, q[i] = q[j]
        PROVE  i = j
    BY <2>e, <2>g
  <2>3. /\ \A i \in 1 .. 2 * h : q[i] \in 0 .. 2 * h - 1
        /\ \A i, j \in 1 .. 2 * h : q[i] = q[j] => i = j
    BY <2>f, <2>g
  <2>4. Enumerates(q, 2 * h)
    BY <2>1, <2>2, <2>3 DEF Enumerates
  <2>5. QED
    BY <2>4 DEF q
<1>2. Enumerates(Up(0, 4 * h) \o Up(4 * h, 8 * h), 2 * h)
  <2> DEFINE q == Up(0, 4 * h) \o Up(4 * h, 8 * h)
  <2>1. q \in Seq(Nat) /\ Len(q) = 2 * h /\ \A i \in 1 .. 2 * h : q[i] = i - 1
    BY HalvesOrder
  <2> HIDE DEF q
  <2>2. \A s \in 0 .. 2 * h - 1 : \E i \in 1 .. 2 * h : q[i] = s
    <3> TAKE s \in 0 .. 2 * h - 1
    <3>1. s + 1 \in 1 .. 2 * h /\ q[s + 1] = s
      BY <2>1
    <3>2. QED
      BY <3>1
  <2>3. /\ \A i \in 1 .. 2 * h : q[i] \in 0 .. 2 * h - 1
        /\ \A i, j \in 1 .. 2 * h : q[i] = q[j] => i = j
    BY <2>1, SMTT(30)
  <2>4. Enumerates(q, 2 * h)
    BY <2>1, <2>2, <2>3 DEF Enumerates
  <2>5. QED
    BY <2>4 DEF q
<1>3. QED
  BY <1>1, <1>2

\* Everything from either end.
LEMMA RunsEnumerate ==
  ASSUME NEW n \in Nat
  PROVE  Enumerates(Up(0, 4 * n), n) /\ Enumerates(Down(0, 4 * n), n)
<1>1. Enumerates(Up(0, 4 * n), n)
  <2>1. 4 * 0 = 0 /\ 4 * 0 + 4 * n = 4 * n
    OBVIOUS
  <2>2. /\ Up(4 * 0, 4 * 0 + 4 * n) \in Seq(Nat)
        /\ Len(Up(4 * 0, 4 * 0 + 4 * n)) = n
        /\ \A i \in 1 .. n : Up(4 * 0, 4 * 0 + 4 * n)[i] = 0 + i - 1
    BY UpIs
  <2> DEFINE q == Up(0, 4 * n)
  <2>3. q \in Seq(Nat) /\ Len(q) = n /\ \A i \in 1 .. n : q[i] = i - 1
    BY <2>1, <2>2
  <2> HIDE DEF q
  <2>4. \A s \in 0 .. n - 1 : s + 1 \in 1 .. n /\ q[s + 1] = s
    BY <2>3
  <2>5. \A s \in 0 .. n - 1 : \E i \in 1 .. n : q[i] = s
    BY <2>4
  <2>6. Enumerates(q, n)
    BY <2>3, <2>5 DEF Enumerates
  <2>7. QED
    BY <2>6 DEF q
<1>2. Enumerates(Down(0, 4 * n), n)
  <2> DEFINE q == Down(0, 4 * n)
  <2>1. q \in Seq(Nat) /\ Len(q) = n /\ \A i \in 1 .. n : q[i] = n - i
    BY DownIs
  <2> HIDE DEF q
  <2>2. \A s \in 0 .. n - 1 : n - s \in 1 .. n /\ q[n - s] = s
    BY <2>1
  <2>3. \A s \in 0 .. n - 1 : \E i \in 1 .. n : q[i] = s
    BY <2>2
  <2>4. Enumerates(q, n)
    BY <2>1, <2>3, SMTT(30) DEF Enumerates
  <2>5. QED
    BY <2>4 DEF q
<1>3. QED
  BY <1>1, <1>2

\* The four quarters of the largest device in the order of HiROM.
Quarters == Up(128, 256) \o Up(384, 512) \o Up(0, 128) \o Up(256, 384)

LEMMA QuartersOrder ==
  /\ Quarters \in Seq(Nat) /\ Len(Quarters) = 128
  /\ \A i \in 1 .. 128 :
       \/ i <= 32 /\ Quarters[i] = i + 31
       \/ i > 32 /\ i <= 64 /\ Quarters[i] = i + 63
       \/ i > 64 /\ i <= 96 /\ Quarters[i] = i - 65
       \/ i > 96 /\ Quarters[i] = i - 33
<1> DEFINE a == Up(128, 256)
           b == Up(384, 512)
           c == Up(0, 128)
           d == Up(256, 384)
<1>1. a \in Seq(Nat) /\ Len(a) = 32 /\ \A i \in 1 .. 32 : a[i] = 32 + i - 1
  <2> DEFINE at == 32
             n == 32
  <2>1. at \in Nat /\ n \in Nat
    OBVIOUS
  <2>2. 4 * at = 128 /\ 4 * at + 4 * n = 256
    OBVIOUS
  <2> HIDE DEF at, n
  <2>3. /\ Up(4 * at, 4 * at + 4 * n) \in Seq(Nat) /\ Len(Up(4 * at, 4 * at + 4 * n)) = n
        /\ \A i \in 1 .. n : Up(4 * at, 4 * at + 4 * n)[i] = at + i - 1
    BY <2>1, UpIs, Zenon
  <2>4. QED
    BY <2>2, <2>3 DEF at, n
<1>2. b \in Seq(Nat) /\ Len(b) = 32 /\ \A i \in 1 .. 32 : b[i] = 96 + i - 1
  <2> DEFINE at == 96
             n == 32
  <2>1. at \in Nat /\ n \in Nat
    OBVIOUS
  <2>2. 4 * at = 384 /\ 4 * at + 4 * n = 512
    OBVIOUS
  <2> HIDE DEF at, n
  <2>3. /\ Up(4 * at, 4 * at + 4 * n) \in Seq(Nat) /\ Len(Up(4 * at, 4 * at + 4 * n)) = n
        /\ \A i \in 1 .. n : Up(4 * at, 4 * at + 4 * n)[i] = at + i - 1
    BY <2>1, UpIs, Zenon
  <2>4. QED
    BY <2>2, <2>3 DEF at, n
<1>3. c \in Seq(Nat) /\ Len(c) = 32 /\ \A i \in 1 .. 32 : c[i] = 0 + i - 1
  <2>1. 4 * 0 = 0 /\ 4 * 0 + 4 * 32 = 128
    OBVIOUS
  <2>2. /\ Up(4 * 0, 4 * 0 + 4 * 32) \in Seq(Nat) /\ Len(Up(4 * 0, 4 * 0 + 4 * 32)) = 32
        /\ \A i \in 1 .. 32 : Up(4 * 0, 4 * 0 + 4 * 32)[i] = 0 + i - 1
    BY UpIs
  <2>3. QED
    BY <2>1, <2>2
<1>4. d \in Seq(Nat) /\ Len(d) = 32 /\ \A i \in 1 .. 32 : d[i] = 64 + i - 1
  <2> DEFINE at == 64
             n == 32
  <2>1. at \in Nat /\ n \in Nat
    OBVIOUS
  <2>2. 4 * at = 256 /\ 4 * at + 4 * n = 384
    OBVIOUS
  <2> HIDE DEF at, n
  <2>3. /\ Up(4 * at, 4 * at + 4 * n) \in Seq(Nat) /\ Len(Up(4 * at, 4 * at + 4 * n)) = n
        /\ \A i \in 1 .. n : Up(4 * at, 4 * at + 4 * n)[i] = at + i - 1
    BY <2>1, UpIs, Zenon
  <2>4. QED
    BY <2>2, <2>3 DEF at, n
<1> HIDE DEF a, b, c, d
<1> DEFINE ab == a \o b
           abc == ab \o c
           q == abc \o d
<1>5. /\ ab \in Seq(Nat) /\ Len(ab) = 64
      /\ \A i \in 1 .. 64 : i <= 32 => ab[i] = i + 31
      /\ \A i \in 1 .. 64 : i > 32 => ab[i] = i + 63
  <2>1. /\ ab \in Seq(Nat) /\ Len(ab) = Len(a) + Len(b)
        /\ \A i \in 1 .. Len(a) + Len(b) : ab[i] = IF i <= Len(a) THEN a[i] ELSE b[i - Len(a)]
    BY <1>1, <1>2, Joined
  <2> HIDE DEF ab
  <2>2. QED
    BY <1>1, <1>2, <2>1
<1> HIDE DEF ab
<1>6. /\ abc \in Seq(Nat) /\ Len(abc) = 96
      /\ \A i \in 1 .. 96 : i <= 64 => abc[i] = ab[i]
      /\ \A i \in 1 .. 96 : i > 64 => abc[i] = i - 65
  <2>1. /\ abc \in Seq(Nat) /\ Len(abc) = Len(ab) + Len(c)
        /\ \A i \in 1 .. Len(ab) + Len(c) : abc[i] = IF i <= Len(ab) THEN ab[i] ELSE c[i - Len(ab)]
    BY <1>3, <1>5, Joined
  <2> HIDE DEF abc
  <2>2. QED
    BY <1>3, <1>5, <2>1
<1> HIDE DEF abc
<1>7. /\ q \in Seq(Nat) /\ Len(q) = 128
      /\ \A i \in 1 .. 128 : i <= 96 => q[i] = abc[i]
      /\ \A i \in 1 .. 128 : i > 96 => q[i] = i - 33
  <2>1. /\ q \in Seq(Nat) /\ Len(q) = Len(abc) + Len(d)
        /\ \A i \in 1 .. Len(abc) + Len(d) : q[i] = IF i <= Len(abc) THEN abc[i] ELSE d[i - Len(abc)]
    BY <1>4, <1>6, Joined, ZenonT(60)
  <2> HIDE DEF q
  <2>2. QED
    BY <1>4, <1>6, <2>1
<1> HIDE DEF q
<1>8. ASSUME NEW i \in 1 .. 128
      PROVE  \/ i <= 32 /\ q[i] = i + 31
             \/ i > 32 /\ i <= 64 /\ q[i] = i + 63
             \/ i > 64 /\ i <= 96 /\ q[i] = i - 65
             \/ i > 96 /\ q[i] = i - 33
  <2>1. CASE i <= 32
    <3>1. i \in 1 .. 96 /\ i \in 1 .. 64 /\ i <= 96 /\ i <= 64
      BY <2>1
    <3>2. q[i] = abc[i]
      BY <3>1, <1>7, Zenon
    <3>3. abc[i] = ab[i]
      BY <3>1, <1>6, Zenon
    <3>4. ab[i] = i + 31
      BY <2>1, <3>1, <1>5
    <3>5. QED
      BY <2>1, <3>2, <3>3, <3>4
  <2>2. CASE i > 32 /\ i <= 64
    <3>1. i \in 1 .. 96 /\ i \in 1 .. 64 /\ i <= 96 /\ i <= 64
      BY <2>2
    <3>2. q[i] = abc[i]
      BY <3>1, <1>7, Zenon
    <3>3. abc[i] = ab[i]
      BY <3>1, <1>6, Zenon
    <3>4. ab[i] = i + 63
      BY <2>2, <3>1, <1>5
    <3>5. QED
      BY <2>2, <3>2, <3>3, <3>4
  <2>3. CASE i > 64 /\ i <= 96
    <3>1. i \in 1 .. 96 /\ i <= 96 /\ i > 64
      BY <2>3
    <3>2. q[i] = abc[i]
      BY <3>1, <1>7, Zenon
    <3>3. abc[i] = i - 65
      BY <2>3, <3>1, <1>6
    <3>4. QED
      BY <2>3, <3>2, <3>3
  <2>4. CASE i > 96
    BY <1>5, <1>6, <1>7, <2>4
  <2>5. QED
    BY <2>1, <2>2, <2>3, <2>4
<1>9. q = Quarters
  BY DEF q, abc, ab, a, b, c, d, Quarters
<1>10. QED
  BY <1>7, <1>8, <1>9

LEMMA QuartersEnumerate == Enumerates(Quarters, 128)
<1> DEFINE q == Quarters
<1>7. q \in Seq(Nat) /\ Len(q) = 128
  BY QuartersOrder
<1>8. \A i \in 1 .. 128 :
        \/ i <= 32 /\ q[i] = i + 31
        \/ i > 32 /\ i <= 64 /\ q[i] = i + 63
        \/ i > 64 /\ i <= 96 /\ q[i] = i - 65
        \/ i > 96 /\ q[i] = i - 33
  BY QuartersOrder
<1> HIDE DEF q
<1>9. ASSUME NEW s \in 0 .. 128 - 1
      PROVE  \E i \in 1 .. 128 : q[i] = s
  <2>1. CASE s < 32
    <3>1. s + 65 \in 1 .. 128 /\ q[s + 65] = s
      BY <1>8, <2>1
    <3>2. QED
      BY <3>1
  <2>2. CASE s >= 32 /\ s < 64
    <3>1. s - 31 \in 1 .. 128 /\ q[s - 31] = s
      BY <1>8, <2>2
    <3>2. QED
      BY <3>1
  <2>3. CASE s >= 64 /\ s < 96
    <3>1. s + 33 \in 1 .. 128 /\ q[s + 33] = s
      BY <1>8, <2>3
    <3>2. QED
      BY <3>1
  <2>4. CASE s >= 96
    <3>1. s - 63 \in 1 .. 128 /\ q[s - 63] = s
      BY <1>8, <2>4
    <3>2. QED
      BY <3>1
  <2>5. QED
    BY <2>1, <2>2, <2>3, <2>4
<1>10. \A i \in 1 .. 128 : q[i] \in 0 .. 128 - 1
  BY <1>8
<1>a. ASSUME NEW i \in 1 .. 128
      PROVE  /\ q[i] < 32 => i = q[i] + 65
             /\ q[i] >= 32 /\ q[i] < 64 => i = q[i] - 31
             /\ q[i] >= 64 /\ q[i] < 96 => i = q[i] + 33
             /\ q[i] >= 96 => i = q[i] - 63
  BY <1>8
<1>11. ASSUME NEW i \in 1 .. 128, NEW j \in 1 .. 128, q[i] = q[j]
       PROVE  i = j
  <2>1. q[i] \in 0 .. 127
    <3>1. q[i] \in 0 .. 128 - 1
      BY <1>10, ZenonT(60)
    <3>2. QED
      BY <3>1
  <2>2. /\ q[i] < 32 => i = q[i] + 65 /\ j = q[i] + 65
        /\ q[i] >= 32 /\ q[i] < 64 => i = q[i] - 31 /\ j = q[i] - 31
        /\ q[i] >= 64 /\ q[i] < 96 => i = q[i] + 33 /\ j = q[i] + 33
        /\ q[i] >= 96 => i = q[i] - 63 /\ j = q[i] - 63
    BY <1>a, <1>11
  <2>3. QED
    BY <2>1, <2>2
<1>12. Enumerates(q, 128)
  BY <1>7, <1>9, <1>10, <1>11 DEF Enumerates
<1>13. QED
  BY <1>12 DEF q

LEMMA JoinedEmpty ==
  ASSUME NEW q \in Seq(Nat)
  PROVE  q \o <<>> = q
  OBVIOUS

\* HiROM on the device that has just two of its quarters.
LEMMA HiRomHalves ==
  ASSUME upload.map = "HiRom", Capacity = 256
  PROVE  ProgramOrder = Up(128, 256) \o Up(0, 128)
<1>1. ProgramOrder = Up(128, 256) \o <<>> \o Up(0, 128) \o <<>>
  BY DEF ProgramOrder, MiB
<1>2. Up(128, 256) \in Seq(Nat) /\ Up(0, 128) \in Seq(Nat)
  <2>1. 4 * 32 = 128 /\ 4 * 32 + 4 * 32 = 256 /\ 4 * 0 = 0 /\ 4 * 0 + 4 * 32 = 128
    OBVIOUS
  <2>2. Up(4 * 32, 4 * 32 + 4 * 32) \in Seq(Nat) /\ Up(4 * 0, 4 * 0 + 4 * 32) \in Seq(Nat)
    BY UpIs
  <2>3. QED
    BY <2>1, <2>2
<1>3. Up(128, 256) \o Up(0, 128) \in Seq(Nat)
  BY <1>2, Joined
<1>4. QED
  BY <1>1, <1>2, <1>3, JoinedEmpty

\* install() programs every sector of the device, and none twice.
LEMMA OrderEnumerates ==
  ASSUME upload \in Uploads
  PROVE  Enumerates(ProgramOrder, Sector(Capacity))
<1>1. upload.map \in Maps /\ Capacity \in {32, 64, 128, 256, 512}
  BY UploadFacts
<1>2. PICK h \in Nat : Capacity = 8 * h /\ Capacity \div 2 = 4 * h /\ Sector(Capacity) = 2 * h
  <2>1. Capacity = 8 * (Capacity \div 8) /\ Capacity \div 2 = 4 * (Capacity \div 8)
        /\ Capacity \div 4 = 2 * (Capacity \div 8) /\ Capacity \div 8 \in Nat
    BY <1>1
  <2>2. QED
    BY <2>1 DEF Sector, SectorUnits
<1>3. Enumerates(Up(0, Capacity), Sector(Capacity)) /\ Enumerates(Down(0, Capacity), Sector(Capacity))
  <2>1. 2 * h \in Nat /\ Capacity = 4 * (2 * h)
    BY <1>2
  <2>2. QED
    BY <1>2, <2>1, RunsEnumerate
<1> DEFINE half == Capacity \div 2
<1>4. /\ Enumerates(Up(half, Capacity) \o Up(0, half), Sector(Capacity))
      /\ Enumerates(Up(0, half) \o Up(half, Capacity), Sector(Capacity))
  BY <1>2, HalvesEnumerate
<1>5. half # 0
  BY <1>1
<1>6. CASE upload.map = "LoRom"
  <2>1. ProgramOrder = Down(0, Capacity)
    BY <1>6 DEF ProgramOrder
  <2>2. QED
    BY <1>3, <2>1
<1>7. CASE upload.map \in {"ExLoRom", "ExHiRom"}
  <2>1. ProgramOrder = Up(half, Capacity) \o Up(0, half)
    BY <1>5, <1>7 DEF ProgramOrder
  <2>2. QED
    BY <1>4, <2>1
<1>8. CASE upload.map = "Fx3"
  <2>1. \/ ProgramOrder = Up(half, Capacity) \o Up(0, half)
        \/ ProgramOrder = Up(0, half) \o Up(half, Capacity)
    BY <1>5, <1>8 DEF ProgramOrder
  <2>2. QED
    BY <1>4, <2>1
<1>9. CASE upload.map = "HiRom" /\ Capacity \in {32, 64, 128}
  <2>1. ProgramOrder = Up(0, Capacity)
    BY <1>9 DEF ProgramOrder, MiB
  <2>2. QED
    BY <1>3, <2>1
<1>10. CASE upload.map = "HiRom" /\ Capacity = 256
  <2>1. ProgramOrder = Up(128, 256) \o Up(0, 128)
    BY <1>10, HiRomHalves
  <2>2. half = 128 /\ Capacity = 256
    BY <1>10
  <2>3. QED
    BY <1>4, <2>1, <2>2
<1>11. CASE upload.map = "HiRom" /\ Capacity = 512
  <2>1. ProgramOrder = Up(128, 256) \o Up(384, 512) \o Up(0, 128) \o Up(256, 384)
    BY <1>11 DEF ProgramOrder, MiB
  <2>2. Sector(Capacity) = 128
    BY <1>11 DEF Sector, SectorUnits
  <2>3. QED
    BY <2>1, <2>2, QuartersEnumerate DEF Quarters
<1>12. QED
  BY <1>1, <1>6, <1>7, <1>8, <1>9, <1>10, <1>11 DEF Maps

-----------------------------------------------------------------------------
(* Least and greatest elements.                                            *)

LEMMA LeastOf ==
  ASSUME NEW S \in SUBSET Nat, S # {}
  PROVE  Min(S) \in S /\ \A n \in S : Min(S) <= n
<1> DEFINE R == OpToRel(<, Nat)
<1>1. IsWellFoundedOn(R, Nat)
  BY NatLessThanWellFounded
<1>2. \E m \in S : \A n \in S : ~(<<n, m>> \in R)
  <2> HIDE DEF R
  <2>1. QED
    BY <1>1, WFMin
<1>3. PICK m \in S : \A n \in S : ~(<<n, m>> \in R)
  BY <1>2
<1>4. \A n \in S : ~(n < m)
  BY <1>3 DEF OpToRel
<1> HIDE DEF R
<1>5. \A n \in S : m <= n
  BY <1>4
<1>6. \A x \in S : (\A n \in S : x <= n) => x = m
  BY <1>5
<1>7. QED
  BY <1>5, <1>6 DEF Min

LEMMA GreatestOf ==
  ASSUME NEW b \in Nat, NEW S \in SUBSET (0 .. b), S # {}
  PROVE  Max(S) \in S /\ \A n \in S : Max(S) >= n
<1> DEFINE T == {b - n : n \in S}
<1>1. T \in SUBSET Nat /\ T # {}
  <2>1. \A n \in S : b - n \in Nat
    OBVIOUS
  <2>2. QED
    BY <2>1
<1>2. PICK m \in S : Min(T) = b - m
  BY <1>1, LeastOf
<1>3. \A n \in S : b - m <= b - n
  BY <1>1, <1>2, LeastOf
<1>4. \A n \in S : m >= n
  BY <1>3
<1>5. QED
  BY <1>4 DEF Max

\* The place whose content says that the map is committed.
DescriptorCell == Min({DescriptorAt, Capacity})

LEMMA DescriptorCellIs ==
  ASSUME upload \in Uploads
  PROVE  /\ DescriptorCell \in 0 .. Capacity
         /\ Capacity = BusUnits => DescriptorCell = DescriptorAt
<1>1. Capacity \in Nat /\ DescriptorAt = 252 /\ BusUnits = 512
  BY UploadFacts DEF DescriptorAt, BusUnits, MiB
<1>2. /\ DescriptorCell \in {DescriptorAt, Capacity}
      /\ DescriptorCell <= DescriptorAt /\ DescriptorCell <= Capacity
  BY <1>1, LeastOf DEF DescriptorCell
<1>3. QED
  BY <1>1, <1>2

-----------------------------------------------------------------------------
(* The file in the flash.                                                  *)

LEMMA FileCellIs ==
  ASSUME upload \in Uploads
  PROVE  /\ Files \subseteq 0 .. Capacity
         /\ \A i \in Files : FileCell(upload, i) \in Int \ {Descriptor}
         /\ \A o \in Units : /\ DataAt + o \in Files
                             /\ FileCell(upload, DataAt + o) = IF upload.header THEN Shifted(o) ELSE o
         /\ upload.header => /\ DataAt + upload.size \in Files
                             /\ FileCell(upload, DataAt + upload.size) = Shifted(upload.size)
<1>1. /\ upload.size \in 1 .. 512 /\ upload.header \in BOOLEAN /\ DataAt \in {0, 128}
      /\ FileCells(upload) = DataAt + upload.size + (IF upload.header THEN 1 ELSE 0)
      /\ Capacity \in {32, 64, 128, 256, 512} /\ DataAt + upload.size <= Capacity
  BY UploadFacts, ImageFits
<1> DEFINE size == upload.size
<1>2. \A c : FileCell(upload, c) = IF c >= DataAt THEN IF upload.header THEN 1000 + (c - DataAt) ELSE c - DataAt
                                   ELSE IF upload.header THEN -6 ELSE c \div 2
  BY DEF FileCell, DataAt, Shifted, Striped
<1>3. \A i \in Files : i \in Int /\ i >= 0 /\ i < FileCells(upload)
  BY <1>1, SMTT(30) DEF Files
<1>4. \A i \in Files : FileCell(upload, i) \in Int \ {Descriptor}
  <2> TAKE i \in Files
  <2>1. CASE i >= DataAt /\ upload.header
    <3>1. FileCell(upload, i) = 1000 + (i - DataAt)
      BY <1>2, <2>1
    <3>2. QED
      BY <1>1, <1>3, <2>1, <3>1 DEF Descriptor
  <2>2. CASE i >= DataAt /\ ~upload.header
    <3>1. FileCell(upload, i) = i - DataAt
      BY <1>2, <2>2
    <3>2. QED
      BY <1>1, <1>3, <2>2, <3>1 DEF Descriptor
  <2>3. CASE ~(i >= DataAt) /\ upload.header
    <3>1. FileCell(upload, i) = -6
      BY <1>2, <2>3
    <3>2. QED
      BY <3>1 DEF Descriptor
  <2>4. CASE ~(i >= DataAt) /\ ~upload.header
    <3>1. FileCell(upload, i) = i \div 2
      BY <1>2, <2>4
    <3>2. QED
      BY <1>3, <3>1 DEF Descriptor
  <2>5. QED
    BY <1>1, <2>1, <2>2, <2>3, <2>4
<1>5. ASSUME NEW o \in 0 .. upload.size
      PROVE  FileCell(upload, DataAt + o) = IF upload.header THEN Shifted(o) ELSE o
  <2>1. DataAt + o >= DataAt /\ (DataAt + o) - DataAt = o
    BY <1>1
  <2>2. QED
    BY <1>2, <2>1 DEF Shifted
<1>6. Files \subseteq 0 .. Capacity
  BY <1>1, SMTT(30) DEF Files
<1>7. \A o \in Units : DataAt + o \in Files
  BY <1>1, SMTT(30) DEF Files, Units
<1>8. upload.header => DataAt + upload.size \in Files
  BY <1>1, SMTT(30) DEF Files
<1>9. \A o \in Units : o \in 0 .. upload.size
  BY <1>1 DEF Units
<1>10. upload.size \in 0 .. upload.size
  BY <1>1
<1>11. QED
  BY <1>4, <1>5, <1>6, <1>7, <1>8, <1>9, <1>10

LEMMA Fixed ==
  ASSUME upload' = upload
  PROVE  /\ Capacity' = Capacity /\ DataAt' = DataAt /\ Files' = Files /\ Units' = Units
         /\ Sectors' = Sectors /\ ProgramOrder' = ProgramOrder /\ CopySectors' = CopySectors
         /\ \A p : (ImageSources(p))' = ImageSources(p)
  BY DEF Capacity, DataAt, Files, Units, Sectors, ProgramOrder, CopySectors, ImageSources

-----------------------------------------------------------------------------
(* The invariant holds at first.                                           *)

LEMMA StartsInvariant == Init => RInv
<1> SUFFICES ASSUME Init PROVE RInv
  OBVIOUS
<1> USE DEF Init
<1>1. upload \in Uploads
  OBVIOUS
<1>2. pages \in [Files -> 0 .. Capacity] /\ \A i, j \in Files : pages[i] = pages[j] => i = j
  BY <1>1, ChainInjective DEF Injection, IsInjective
<1>3. \A i \in Files : i \in DOMAIN pages /\ FileCell(upload, i) \in Int \ {Descriptor}
  BY <1>1, <1>2, FileCellIs
<1>4. ASSUME NEW c \in 0 .. Capacity
      PROVE  /\ cells[c] \in Int \ {Descriptor}
             /\ \A i \in Files : pages[i] = c => cells[c] = FileCell(upload, i)
  <2>1. CASE \E i \in Files : pages[i] = c
    <3>1. PICK i \in Files : pages[i] = c
      BY <2>1
    <3>2. i = CHOOSE j \in DOMAIN pages : pages[j] = c
      BY <1>2, <3>1
    <3>3. cells[c] = FileCell(upload, i)
      BY <1>2, <3>1, <3>2
    <3>4. QED
      BY <1>2, <1>3, <3>1, <3>3
  <2>2. CASE ~ \E i \in Files : pages[i] = c
    BY <1>2, <2>2 DEF Before, Descriptor
  <2>3. QED
    BY <2>1, <2>2
<1>5. cells \in [0 .. Capacity -> Int] /\ Uncommitted
  BY <1>4 DEF Uncommitted
<1>6. FileInPages
  BY <1>2, <1>4 DEF FileInPages
<1>7. Fresh
  BY DEF Fresh, Units
<1>8. Types
  <2>1. rep \in [Units -> {None} \cup 0 .. Capacity - 1]
    BY DEF Units
  <2>2. fxrom \in [0 .. FxUnits - 1 -> Int]
    BY DEF Before
  <2>3. QED
    BY <1>1, <1>2, <1>5, <2>1, <2>2 DEF Types, Statuses
<1>9. Placed
  BY DEF Placed
<1>10. Contents
  BY <1>6, <1>7 DEF Contents
<1>11. QED
  BY <1>5, <1>8, <1>9, <1>10 DEF RInv, Committed

-----------------------------------------------------------------------------
(* The steps.                                                              *)

Ends == {"Aborted", "FlashError", "InvalidFile"}

\* What a step has to keep: the invariant, and that only the last two commit
\* the map.
Kept == RInv' /\ (pc \notin {"words", "magic"} => Uncommitted')

\* An installation that gives up keeps the invariant whatever it leaves in the
\* flash, but for a descriptor.
LEMMA FailKeeps ==
  ASSUME RInv, NEW as \in Ends, Fail(as), cells' \in [0 .. Capacity -> Int], Uncommitted'
  PROVE  Kept
<1>1. upload' = upload /\ usb' = usb /\ pc' = "done" /\ status' = as /\ busy' = FALSE
      /\ UNCHANGED <<k, pages, buffer, rep, final, fxrom>>
  BY DEF Fail, Go, progress
<1>2. /\ Capacity' = Capacity /\ Files' = Files /\ Units' = Units /\ Sectors' = Sectors
  BY <1>1, Fixed
<1>3. Types'
  <2>1. status' \in Statuses /\ busy' \in BOOLEAN /\ (busy' <=> status' \in {"Ready", "Programming"})
    BY <1>1 DEF Ends, Statuses
  <2>2. QED
    BY <1>1, <1>2, <2>1 DEF RInv, Types
<1>4. Placed'
  BY <1>1 DEF RInv, Placed, Ends
<1>5. Contents'
  BY <1>1 DEF Contents, Ends
<1>6. QED
  BY <1>3, <1>4, <1>5 DEF RInv, Committed, Kept

\* A step that leaves the flash alone.
LEMMA FailInPlace ==
  ASSUME RInv, NEW as \in Ends, Fail(as), cells' = cells, pc # "done"
  PROVE  Kept
<1>1. upload' = upload
  BY DEF Fail, Go
<1>2. Capacity' = Capacity
  BY <1>1, Fixed
<1>3. Uncommitted'
  BY <1>2 DEF RInv, Committed, Uncommitted
<1>4. cells' \in [0 .. Capacity -> Int]
  BY DEF RInv, Types
<1>5. QED
  BY <1>3, <1>4, FailKeeps

LEMMA StartKeeps == ASSUME RInv, Start PROVE Kept
<1>1. upload \in Uploads /\ pc = "ready" /\ cells' = cells
  BY DEF RInv, Types, Start
<1>2. CASE Active
  <2>1. upload' = upload /\ usb' = usb /\ pc' = "swap" /\ status' = "Programming"
        /\ UNCHANGED <<busy, k, pages, buffer, rep, final, fxrom>>
    BY <1>2 DEF Start, Go, progress
  <2>2. /\ Capacity' = Capacity /\ Files' = Files /\ Units' = Units /\ Sectors' = Sectors
    BY <2>1, Fixed
  <2>3. Types'
    BY <1>1, <1>2, <2>1, <2>2 DEF RInv, Types, Statuses, Active
  <2>4. Placed'
    BY <1>1, <1>2, <2>1 DEF RInv, Placed, Active
  <2>5. Fresh' /\ FileInPages'
    BY <1>1, <2>1, <2>2 DEF RInv, Contents, Fresh, FileInPages, FileCell
  <2>6. Contents'
    BY <2>1, <2>5 DEF Contents
  <2>7. Uncommitted'
    BY <1>1, <2>1, <2>2 DEF RInv, Committed, Uncommitted
  <2>8. QED
    BY <2>3, <2>4, <2>6, <2>7 DEF RInv, Committed, Kept
<1>3. CASE ~Active
  BY <1>1, <1>3, FailInPlace DEF Start, Ends
<1>4. QED
  BY <1>2, <1>3

\* A swap exchanges two pages and what the others have to know of it.
LEMMA SwapKeeps == ASSUME RInv, Swap PROVE Kept
<1> DEFINE dest == Min(Misplaced)
           source == pages[dest]
<1>1. upload \in Uploads /\ pc = "swap" /\ Misplaced # {} /\ Active
      /\ cells \in [0 .. Capacity -> Int] /\ pages \in [Files -> 0 .. Capacity]
  BY DEF RInv, Types, Swap
<1>2. dest \in Files /\ dest \in 0 .. Capacity /\ source # dest /\ source \in 0 .. Capacity
  <2>1. Misplaced \in SUBSET Nat
    BY <1>1 DEF Misplaced, Files
  <2>2. dest \in Misplaced
    BY <1>1, <2>1, LeastOf
  <2>3. QED
    BY <1>1, <2>2, FileCellIs DEF Misplaced
<1>3. upload' = upload /\ usb' = usb /\ pc' = "swap" /\ UNCHANGED <<status, busy, k, buffer, rep, final, fxrom>>
      /\ cells' = [cells EXCEPT ![dest] = cells[source], ![source] = cells[dest]]
      /\ pages' = Moved(dest, source)
  BY DEF Swap, Continue, Go
<1> HIDE DEF dest, source
<1>4. /\ Capacity' = Capacity /\ Files' = Files /\ Units' = Units /\ Sectors' = Sectors
  BY <1>3, Fixed
<1>5. /\ cells' \in [0 .. Capacity -> Int]
      /\ cells'[dest] = cells[source] /\ cells'[source] = cells[dest]
      /\ \A c \in 0 .. Capacity : c # dest /\ c # source => cells'[c] = cells[c]
  <2> DEFINE one == [cells EXCEPT ![dest] = cells[source]]
  <2>1. one \in [0 .. Capacity -> Int]
    BY <1>1, <1>2
  <2>2. cells' = [one EXCEPT ![source] = cells[dest]]
    BY <1>1, <1>2, <1>3
  <2>3. QED
    BY <1>1, <1>2, <2>1, <2>2
<1>6. /\ pages' \in [Files -> 0 .. Capacity]
      /\ pages'[dest] = dest
      /\ \A i \in Files : i # dest /\ pages[i] = dest => pages'[i] = source
      /\ \A i \in Files : i # dest /\ pages[i] # dest => pages'[i] = pages[i]
  BY <1>1, <1>2, <1>3 DEF Moved
<1>7. FileInPages
  BY <1>1 DEF RInv, Contents
<1>8. source = pages[dest]
  BY DEF source
<1>9. FileInPages'
  <2>1. ASSUME NEW i \in Files, NEW j \in Files, pages'[i] = pages'[j]
        PROVE  i = j
    <3>1. \A n \in Files : \/ n = dest /\ pages'[n] = dest
                           \/ n # dest /\ pages[n] = dest /\ pages'[n] = source
                           \/ n # dest /\ pages[n] # dest /\ pages'[n] = pages[n] /\ pages[n] # source
      BY <1>2, <1>6, <1>7, <1>8 DEF FileInPages
    <3>2. QED
      BY <1>2, <1>7, <2>1, <3>1 DEF FileInPages
  <2>2. ASSUME NEW i \in Files
        PROVE  cells'[pages'[i]] = FileCell(upload, i)
    <3>1. CASE i = dest
      BY <1>5, <1>6, <1>7, <1>8, <3>1 DEF FileInPages
    <3>2. CASE i # dest /\ pages[i] = dest
      BY <1>5, <1>6, <1>7, <3>2 DEF FileInPages
    <3>3. CASE i # dest /\ pages[i] # dest
      <4>1. pages[i] # source /\ pages[i] \in 0 .. Capacity
        BY <1>1, <1>2, <1>7, <1>8, <3>3 DEF FileInPages
      <4>2. QED
        BY <1>5, <1>6, <1>7, <3>3, <4>1 DEF FileInPages
    <3>4. QED
      BY <3>1, <3>2, <3>3
  <2>3. QED
    BY <1>3, <1>4, <2>1, <2>2 DEF FileInPages
<1>10. Types'
  BY <1>3, <1>4, <1>5, <1>6 DEF RInv, Types
<1>11. Placed'
  BY <1>1, <1>3 DEF RInv, Placed
<1>12. Fresh'
  BY <1>1, <1>3, <1>4 DEF RInv, Contents, Fresh
<1>13. Contents'
  BY <1>1, <1>3, <1>9, <1>12 DEF RInv, Placed, Contents
<1>14. Uncommitted'
  <2>1. \A c \in 0 .. Capacity : cells[c] # Descriptor
    BY <1>1 DEF RInv, Committed, Uncommitted
  <2>2. \A c \in 0 .. Capacity : cells'[c] # Descriptor
    BY <1>2, <1>5, <2>1
  <2>3. QED
    BY <1>4, <2>2 DEF Uncommitted
<1>15. QED
  BY <1>10, <1>11, <1>13, <1>14 DEF RInv, Committed, Kept

\* A page that is torn by a failing flush.
LEMMA SwapFailsKeeps == ASSUME RInv, SwapFails PROVE Kept
<1>1. PICK torn : cells' = [c \in DOMAIN cells |->
                             IF c < Capacity /\ Sector(c) \in torn THEN Torn ELSE cells[c]]
  BY DEF SwapFails
<1>2. pc = "swap" /\ cells \in [0 .. Capacity -> Int] /\ Uncommitted
  BY DEF SwapFails, RInv, Types, Committed
<1>3. Fail("Aborted") /\ upload' = upload
  BY DEF SwapFails, FailedInside, Fail, Go
<1>4. \A c \in 0 .. Capacity : cells'[c] \in Int /\ cells'[c] # Descriptor
  BY <1>1, <1>2 DEF Uncommitted, Torn, Descriptor
<1>5. cells' \in [0 .. Capacity -> Int]
  BY <1>1, <1>2, <1>4
<1>6. Uncommitted'
  BY <1>3, <1>4, Fixed DEF Uncommitted
<1>7. QED
  BY <1>3, <1>5, <1>6, FailKeeps DEF Ends

LEMMA SwapsDoneKeeps == ASSUME RInv, SwapsDone PROVE Kept
<1> DEFINE to == IF upload.type = "Raw" THEN "raw" ELSE "check"
<1>1. upload \in Uploads /\ pc = "swap" /\ Misplaced = {} /\ Active
      /\ pages \in [Files -> 0 .. Capacity] /\ cells' = cells
      /\ upload.type \in {"Sfc", "Raw"}
  BY UploadFacts DEF RInv, Types, SwapsDone
<1>2. upload' = upload /\ usb' = usb /\ pc' = to
      /\ UNCHANGED <<status, busy, k, pages, buffer, rep, final, fxrom>>
  BY DEF SwapsDone, Continue, Go, progress
<1>3. /\ Capacity' = Capacity /\ Files' = Files /\ Units' = Units /\ Sectors' = Sectors
  BY <1>2, Fixed
<1>4. Types'
  BY <1>1, <1>2, <1>3 DEF RInv, Types
<1>5. Placed'
  BY <1>1, <1>2 DEF RInv, Placed, Active
<1>6. FileInOrder'
  <2>1. \A i \in Files : pages[i] = i
    BY <1>1 DEF Misplaced
  <2>2. QED
    BY <1>1, <1>2, <1>3, <2>1 DEF RInv, Contents, FileInPages, FileInOrder
<1>7. Fresh'
  BY <1>1, <1>2, <1>3 DEF RInv, Contents, Fresh
<1>8. Contents'
  <2>1. status' # "Complete"
    BY <1>1, <1>2 DEF RInv, Placed
  <2>2. pc' \in {"raw", "check"}
    BY <1>2
  <2>3. QED
    BY <1>6, <1>7, <2>1, <2>2 DEF Contents
<1>9. Uncommitted'
  BY <1>1, <1>3 DEF RInv, Committed, Uncommitted
<1>10. QED
  BY <1>4, <1>5, <1>8, <1>9 DEF RInv, Committed, Kept

\* Success of a bus image, which is not changed any more.
LEMMA VerifyRawKeeps == ASSUME RInv, VerifyRaw PROVE Kept
<1>1. upload \in Uploads /\ pc = "raw" /\ cells' = cells /\ upload.type = "Raw"
  BY DEF RInv, Types, Placed, VerifyRaw
<1>2. CASE Active /\ FileCells(upload) = Capacity
  <2>1. upload' = upload /\ usb' = usb /\ pc' = "done" /\ status' = "Complete" /\ busy' = FALSE
        /\ UNCHANGED <<k, pages, buffer, rep, final, fxrom>>
    BY <1>2 DEF VerifyRaw, Go, progress
  <2>2. /\ Capacity' = Capacity /\ Files' = Files /\ Units' = Units /\ Sectors' = Sectors
    BY <2>1, Fixed
  <2>3. Types'
    <3>1. status' \in Statuses /\ busy' \in BOOLEAN /\ (busy' <=> status' \in {"Ready", "Programming"})
      BY <2>1 DEF Statuses
    <3>2. QED
      BY <1>1, <2>1, <2>2, <3>1 DEF RInv, Types
  <2>4. Placed'
    BY <1>1, <2>1 DEF RInv, Placed
  <2>5. \A c \in 0 .. Capacity - 1 : cells[c] = FileCell(upload, c)
    BY <1>1, <1>2 DEF RInv, Contents, FileInOrder, Files
  <2>6. Success'
    BY <1>1, <2>1, <2>2, <2>5 DEF Success, FileCell
  <2>7. Contents'
    BY <2>1, <2>6 DEF Contents
  <2>8. Uncommitted'
    BY <1>1, <2>2 DEF RInv, Committed, Uncommitted
  <2>9. QED
    BY <2>3, <2>4, <2>7, <2>8 DEF RInv, Committed, Kept
<1>3. CASE ~(Active /\ FileCells(upload) = Capacity)
  BY <1>1, <1>3, FailInPlace DEF VerifyRaw, Ends
<1>4. QED
  BY <1>2, <1>3

\* The image lies in place: the GSU's part, or the first sector, comes next.
LEMMA AfterCopyKeeps ==
  ASSUME RInv, upload.type = "Sfc", pc \in {"check", "copy"},
         \A o \in Units : cells[DataAt + o] = o,
         upload' = upload, usb' = usb, pc' = AfterCopy, k' = 0,
         UNCHANGED <<status, busy, cells, pages, buffer, rep, final, fxrom>>
  PROVE  Kept
<1>1. upload \in Uploads /\ status # "Complete" /\ Fresh /\ Uncommitted
  BY DEF RInv, Types, Placed, Contents, Committed
<1>2. /\ Capacity' = Capacity /\ Files' = Files /\ Units' = Units /\ Sectors' = Sectors
      /\ DataAt' = DataAt /\ ProgramOrder' = ProgramOrder
  BY Fixed
<1>3. Types'
  BY <1>2 DEF RInv, Types
<1>4. pc' \in {"fx", "program"} /\ (pc' = "fx" <=> upload.map = "Fx3")
  BY DEF AfterCopy
<1>5. Placed'
  BY <1>4 DEF RInv, Placed
<1>6. Fresh'
  BY <1>1, <1>2 DEF Fresh
<1>7. SourcesLeft'
  BY <1>2, <1>4 DEF SourcesLeft
<1>8. CASE upload.map = "Fx3"
  <2>1. (k \in 0 .. FxUnits)' /\ FxFilled(k)'
    BY DEF FxFilled, FxUnits, MiB
  <2>2. Contents'
    BY <1>1, <1>4, <1>6, <1>7, <1>8, <2>1 DEF Contents
  <2>3. QED
    BY <1>1, <1>2, <1>3, <1>5, <2>2 DEF RInv, Committed, Uncommitted, Kept
<1>9. CASE upload.map # "Fx3"
  <2>1. FxFilled(FxUnits)'
    BY <1>9 DEF FxFilled
  <2>2. (k \in 0 .. Len(ProgramOrder) /\ final = Done(k) /\ FinalShows)'
    <3>1. Len(ProgramOrder) \in Nat
      BY <1>1, OrderEnumerates DEF Enumerates
    <3>2. Done(0)' = {}
      BY DEF Done
    <3>3. final' = {}
      BY <1>1 DEF Fresh
    <3>4. QED
      BY <1>2, <3>1, <3>2, <3>3 DEF FinalShows
  <2>3. Representing'
    BY <1>6 DEF Fresh, Representing
  <2>4. Programming'
    BY <1>7, <2>1, <2>2, <2>3 DEF Programming
  <2>5. Contents'
    BY <1>1, <1>4, <1>9, <2>4 DEF Contents
  <2>6. QED
    BY <1>1, <1>2, <1>3, <1>5, <2>5 DEF RInv, Committed, Uncommitted, Kept
<1>10. QED
  BY <1>8, <1>9

LEMMA CheckKeeps == ASSUME RInv, Check PROVE Kept
<1>1. /\ upload \in Uploads /\ pc = "check" /\ cells' = cells /\ busy /\ upload.type = "Sfc"
      /\ k = 0 /\ FileInOrder /\ Fresh /\ Uncommitted /\ status # "Complete" /\ upload.header \in BOOLEAN
  BY UploadFacts DEF RInv, Types, Placed, Contents, Committed, Check
<1>2. CASE ~upload.detected
  BY <1>1, <1>2, FailInPlace DEF Check, Ends
<1>3. CASE upload.detected /\ ~MappingFits
  BY <1>1, <1>3, FailInPlace DEF Check, Failed, Ends
<1>4. CASE upload.detected /\ MappingFits
  <2>1. /\ upload' = upload /\ usb' = usb /\ pc' = (IF upload.header THEN "copy" ELSE AfterCopy)
        /\ UNCHANGED <<status, busy, k, pages, buffer, rep, final, fxrom>>
    BY <1>4 DEF Check, Go, progress
  <2>2. /\ Capacity' = Capacity /\ Files' = Files /\ Units' = Units /\ Sectors' = Sectors
        /\ DataAt' = DataAt /\ CopySectors' = CopySectors
    BY <2>1, Fixed
  <2>3. CASE upload.header
    <3>1. pc' = "copy"
      BY <2>1, <2>3
    <3>2. Types'
      BY <1>1, <2>1, <2>2 DEF RInv, Types
    <3>3. Placed'
      BY <1>1, <2>1, <2>3, <3>1 DEF RInv, Placed
    <3>4. Copied'
      <4>1. upload.size \in 1 .. 512 /\ CopySectors \in Nat
        BY <1>1, UploadFacts DEF CopySectors, SectorUnits
      <4>2. \A o \in 0 .. upload.size : cells[DataAt + o] = Shifted(o)
        <5>1. \A o \in 0 .. upload.size : o \in Units \/ o = upload.size
          BY <4>1 DEF Units
        <5>2. QED
          BY <1>1, <2>3, <5>1, FileCellIs DEF FileInOrder
      <4>3. \A o \in Units : ~(o < SectorUnits * 0)
        BY <4>1 DEF Units, SectorUnits
      <4>4. QED
        BY <1>1, <2>1, <2>2, <4>1, <4>2, <4>3 DEF Copied
    <3>5. Fresh'
      BY <1>1, <2>1, <2>2 DEF Fresh
    <3>6. Contents'
      BY <1>1, <2>1, <3>1, <3>4, <3>5 DEF Contents
    <3>7. Uncommitted'
      BY <1>1, <2>2 DEF Uncommitted
    <3>8. QED
      BY <3>2, <3>3, <3>6, <3>7 DEF RInv, Committed, Kept
  <2>4. CASE ~upload.header
    <3>1. \A o \in Units : cells[DataAt + o] = o
      BY <1>1, <2>4, FileCellIs DEF FileInOrder
    <3>2. QED
      BY <1>1, <2>1, <2>4, <3>1, AfterCopyKeeps
  <2>5. QED
    BY <1>1, <2>3, <2>4
<1>5. QED
  BY <1>2, <1>3, <1>4

LEMMA UnitsOfIs ==
  ASSUME NEW s \in Nat
  PROVE  /\ \A c \in Nat : c \in UnitsOf(s) <=> Sector(c) = s
         /\ \A c \in UnitsOf(s) : c \in Nat
  BY DEF UnitsOf, Sector, SectorUnits

\* An erase spoils its sector, if anything.
LEMMA ErasedIs ==
  ASSUME RInv, NEW s \in Nat, cells' = Erased(s), upload' = upload
  PROVE  /\ cells' \in [0 .. Capacity -> Int]
         /\ \A c \in 0 .. Capacity : Sector(c) # s => cells'[c] = cells[c]
         /\ Uncommitted => Uncommitted'
<1>1. cells \in [0 .. Capacity -> Int] /\ Capacity' = Capacity
  BY Fixed DEF RInv, Types
<1>2. \A c \in 0 .. Capacity : /\ cells'[c] \in {cells[c], Torn}
                               /\ Sector(c) # s => cells'[c] = cells[c]
  BY <1>1 DEF Erased
<1>3. cells' \in [0 .. Capacity -> Int]
  BY <1>1, <1>2 DEF Erased, Torn
<1>4. Uncommitted => Uncommitted'
  BY <1>1, <1>2 DEF Uncommitted, Torn, Descriptor
<1>5. QED
  BY <1>2, <1>3, <1>4

\* A sector is programmed to what the buffer holds.
LEMMA BurntIs ==
  ASSUME RInv, NEW s \in Sectors, Burnt, buffer \in [UnitsOf(s) -> Contentful], upload' = upload
  PROVE  /\ cells' \in [0 .. Capacity -> Int]
         /\ \A c \in UnitsOf(s) : cells'[c] = buffer[c]
         /\ \A c \in 0 .. Capacity : Sector(c) # s => cells'[c] = cells[c]
         /\ Uncommitted => Uncommitted'
         /\ Active /\ k' = k + 1
<1>1. cells \in [0 .. Capacity -> Int] /\ Capacity' = Capacity
  BY Fixed DEF RInv, Types
<1>2. Capacity \in {32, 64, 128, 256, 512}
  BY UploadFacts DEF RInv, Types
<1>3. s \in Nat /\ UnitsOf(s) \subseteq 0 .. Capacity
  BY <1>2 DEF Sectors, Sector, SectorUnits, UnitsOf
<1>4. cells' = [c \in 0 .. Capacity |-> IF c \in UnitsOf(s) THEN buffer[c] ELSE cells[c]]
  BY <1>1 DEF Burnt
<1>5. \A c \in 0 .. Capacity : Sector(c) # s => c \notin UnitsOf(s)
  BY <1>2, <1>3, UnitsOfIs
<1>6. \A c \in UnitsOf(s) : buffer[c] \in Int /\ buffer[c] # Descriptor
  BY DEF Contentful
<1>7. cells' \in [0 .. Capacity -> Int]
  BY <1>1, <1>4, <1>6
<1>8. Uncommitted => Uncommitted'
  BY <1>1, <1>4, <1>6 DEF Uncommitted
<1>9. QED
  BY <1>3, <1>4, <1>5, <1>7, <1>8 DEF Burnt

\* The sector at position n of the copy lies within the image's own sectors.
LEMMA CopyPlace ==
  ASSUME upload \in Uploads, NEW n \in Nat
  PROVE  /\ Sector(DataAt) + n \in Nat
         /\ \A o \in Nat : /\ Sector(DataAt + o) = Sector(DataAt) + n <=> SectorUnits * n <= o /\ o < SectorUnits * (n + 1)
                           /\ SectorUnits * n <= o => Sector(DataAt + o) >= Sector(DataAt) + n
         /\ \A c \in UnitsOf(Sector(DataAt) + n) : c - DataAt \in Nat /\ SectorUnits * n <= c - DataAt
                                                   /\ c = DataAt + (c - DataAt)
         /\ CopySectors \in Nat
         /\ n < CopySectors => Sector(DataAt) + n \in Sectors
         /\ \A o \in Units : o < SectorUnits * CopySectors
<1>1. DataAt \in {0, 128} /\ upload.size \in 1 .. 512 /\ DataAt + upload.size <= Capacity
      /\ Capacity \in {32, 64, 128, 256, 512}
  BY UploadFacts, ImageFits
<1>2. DataAt = 4 * Sector(DataAt) /\ Sector(DataAt) \in Nat
  BY <1>1 DEF Sector, SectorUnits
<1>3. Sector(DataAt) + n \in Nat
  BY <1>2
<1>4. \A o \in Nat : Sector(DataAt + o) = Sector(DataAt) + (o \div 4)
  BY <1>2 DEF Sector, SectorUnits
<1>5. \A o \in Nat : /\ o \div 4 = n <=> 4 * n <= o /\ o < 4 * (n + 1)
                     /\ 4 * n <= o => o \div 4 >= n
                     /\ o \div 4 \in Nat
  OBVIOUS
<1>6. \A o \in Nat : /\ Sector(DataAt + o) = Sector(DataAt) + n <=> SectorUnits * n <= o /\ o < SectorUnits * (n + 1)
                     /\ SectorUnits * n <= o => Sector(DataAt + o) >= Sector(DataAt) + n
  <2> TAKE o \in Nat
  <2> DEFINE q == o \div 4
             d == Sector(DataAt)
  <2>1. /\ q = n <=> 4 * n <= o /\ o < 4 * (n + 1)
        /\ 4 * n <= o => q >= n
        /\ q \in Nat /\ d \in Nat /\ Sector(DataAt + o) = d + q
    BY <1>2, <1>4, <1>5
  <2> HIDE DEF q, d
  <2>2. /\ d + q = d + n <=> q = n
        /\ q >= n => d + q >= d + n
    BY <2>1
  <2>3. /\ Sector(DataAt + o) = d + n <=> 4 * n <= o /\ o < 4 * (n + 1)
        /\ 4 * n <= o => Sector(DataAt + o) >= d + n
    BY <2>1, <2>2
  <2>4. QED
    BY <2>3 DEF d, SectorUnits
<1>7. \A c \in UnitsOf(Sector(DataAt) + n) : c - DataAt \in Nat /\ SectorUnits * n <= c - DataAt
                                             /\ c = DataAt + (c - DataAt)
  BY <1>2 DEF UnitsOf, SectorUnits
<1>8. CopySectors \in Nat /\ \A o \in Units : o < SectorUnits * CopySectors
  BY <1>1, SMTT(30) DEF CopySectors, SectorUnits, Units
<1>9. n < CopySectors => Sector(DataAt) + n \in Sectors
  <2>1. n < CopySectors => 4 * n < upload.size
    BY <1>1 DEF CopySectors, SectorUnits
  <2>2. n < CopySectors => 4 * (Sector(DataAt) + n) < Capacity
    BY <1>1, <1>2, <2>1, SMTT(30)
  <2>3. Sector(Capacity) \in Nat /\ Capacity = 4 * Sector(Capacity)
    BY <1>1 DEF Sector, SectorUnits
  <2>4. QED
    BY <1>2, <2>2, <2>3 DEF Sectors
<1>10. QED
  BY <1>3, <1>6, <1>7, <1>8, <1>9

\* What read_staged finds below a copier header.
LEMMA UnshiftedIs ==
  ASSUME upload.header, NEW o \in Units, upload.size \in 1 .. 512,
         cells[DataAt + o] = Shifted(o), cells[DataAt + o + 1] = Shifted(o + 1)
  PROVE  Unshifted(o) = o
<1>1. o \in 0 .. upload.size
  BY DEF Units
<1>2. \E d \in 0 .. upload.size : cells[DataAt + o] = Shifted(d) /\ cells[DataAt + o + 1] = Shifted(d + 1)
  BY <1>1
<1>3. Unshifted(o) = cells[DataAt + o] - Shifted(0)
  BY <1>2 DEF Unshifted
<1>4. QED
  BY <1>1, <1>3 DEF Shifted

LEMMA CopyEraseKeeps == ASSUME RInv, CopyErase PROVE Kept
<1>1. /\ upload \in Uploads /\ pc = "copy" /\ k < CopySectors /\ busy /\ upload.type = "Sfc" /\ upload.header
      /\ Copied /\ Fresh /\ Uncommitted /\ status # "Complete" /\ upload.size \in 1 .. 512
  BY UploadFacts DEF RInv, Types, Placed, Contents, Committed, CopyErase
<1>2. /\ upload' = upload /\ usb' = usb /\ pc' = "copyburn"
      /\ UNCHANGED <<status, busy, k, pages, rep, final, fxrom>>
      /\ cells' = Erased(CopySector)
      /\ buffer' = [c \in UnitsOf(CopySector) |->
                      IF c - DataAt < upload.size THEN Unshifted(c - DataAt) ELSE Blank]
  BY DEF CopyErase, Continue, Go
<1>3. /\ Capacity' = Capacity /\ Files' = Files /\ Units' = Units /\ Sectors' = Sectors
      /\ DataAt' = DataAt /\ CopySectors' = CopySectors
  BY <1>2, Fixed
<1>4. CopySector' = CopySector /\ k \in Nat /\ CopySector = Sector(DataAt) + k
  BY <1>2, <1>3 DEF CopySector, RInv, Types
<1>5. CopySector \in Nat /\ CopySector \in Sectors
  BY <1>1, <1>4, CopyPlace
<1>6. /\ cells' \in [0 .. Capacity -> Int]
      /\ \A c \in 0 .. Capacity : Sector(c) # CopySector => cells'[c] = cells[c]
      /\ Uncommitted'
  BY <1>1, <1>2, <1>5, ErasedIs
<1>7. \A o \in 0 .. upload.size : DataAt + o \in 0 .. Capacity /\ o \in Nat
  BY <1>1, UploadFacts, ImageFits
<1>8. ASSUME NEW c \in UnitsOf(CopySector), c - DataAt < upload.size
      PROVE  c - DataAt \in Units /\ Unshifted(c - DataAt) = c - DataAt
  <2> DEFINE o == c - DataAt
  <2>1. o \in Nat /\ SectorUnits * k <= o
    BY <1>1, <1>4, CopyPlace
  <2> HIDE DEF o
  <2>2. o < upload.size
    BY <1>8 DEF o
  <2>3. o \in Units /\ o \in 0 .. upload.size /\ o + 1 \in 0 .. upload.size
        /\ SectorUnits * k <= o + 1
    BY <1>1, <1>4, <2>1, <2>2, SMTT(30) DEF Units, SectorUnits
  <2>4. cells[DataAt + o] = Shifted(o) /\ cells[DataAt + (o + 1)] = Shifted(o + 1)
    BY <1>1, <2>1, <2>3 DEF Copied
  <2>5. DataAt + (o + 1) = DataAt + o + 1
    BY <1>1, <2>1, UploadFacts
  <2>6. Unshifted(o) = o
    BY <1>1, <2>3, <2>4, <2>5, UnshiftedIs
  <2>7. QED
    BY <2>3, <2>6 DEF o
<1>9. CopyBuffered'
  <2>1. \A c \in UnitsOf(CopySector) : buffer'[c] \in Contentful
    <3> TAKE c \in UnitsOf(CopySector)
    <3>1. CASE c - DataAt < upload.size
      <4>1. buffer'[c] = c - DataAt /\ c - DataAt \in Units
        BY <1>2, <1>8, <3>1
      <4>2. QED
        BY <1>1, <4>1 DEF Units, Contentful, Descriptor
    <3>2. CASE ~(c - DataAt < upload.size)
      BY <1>2, <3>2 DEF Contentful, Descriptor, Blank
    <3>3. QED
      BY <3>1, <3>2
  <2>2. buffer' \in [UnitsOf(CopySector) -> Contentful]
    BY <1>2, <2>1
  <2>3. \A c \in UnitsOf(CopySector) : c - DataAt \in Units => buffer'[c] = c - DataAt
    <3> TAKE c \in UnitsOf(CopySector)
    <3>1. c - DataAt \in Units => c - DataAt < upload.size
      BY <1>1 DEF Units
    <3>2. QED
      BY <1>2, <1>8, <3>1
  <2>4. QED
    BY <1>1, <1>2, <1>3, <1>4, <2>2, <2>3 DEF CopyBuffered
<1>10. Copied'
  <2>1. \A o \in Units : o < SectorUnits * k => cells'[DataAt + o] = o
    <3> SUFFICES ASSUME NEW o \in Units, o < SectorUnits * k
                 PROVE  cells'[DataAt + o] = o
      OBVIOUS
    <3>1. o \in 0 .. upload.size /\ o \in Nat
      BY <1>1 DEF Units
    <3>2. ~(SectorUnits * k <= o)
      BY <1>4, <3>1 DEF SectorUnits
    <3>3. Sector(DataAt + o) # CopySector
      BY <1>1, <1>4, <3>1, <3>2, CopyPlace
    <3>4. QED
      BY <1>1, <1>6, <1>7, <3>1, <3>3 DEF Copied
  <2>2. \A o \in 0 .. upload.size :
          SectorUnits * k <= o /\ Sector(DataAt + o) # CopySector => cells'[DataAt + o] = Shifted(o)
    BY <1>1, <1>6, <1>7 DEF Copied
  <2>3. k \in 0 .. CopySectors
    BY <1>1 DEF Copied
  <2>4. QED
    BY <1>2, <1>3, <1>4, <2>1, <2>2, <2>3 DEF Copied
<1>11. Types'
  BY <1>2, <1>3, <1>6 DEF RInv, Types
<1>12. Placed'
  BY <1>1, <1>2 DEF RInv, Placed
<1>13. Fresh'
  BY <1>1, <1>2, <1>3 DEF Fresh
<1>14. Contents'
  BY <1>1, <1>2, <1>9, <1>10, <1>13 DEF Contents
<1>15. QED
  BY <1>6, <1>11, <1>12, <1>14 DEF RInv, Committed, Kept

LEMMA CopyBurnKeeps == ASSUME RInv, CopyBurn PROVE Kept
<1>1. /\ upload \in Uploads /\ pc = "copyburn" /\ upload.type = "Sfc" /\ upload.header
      /\ Copied /\ CopyBuffered /\ Fresh /\ Uncommitted /\ status # "Complete"
      /\ upload.size \in 1 .. 512
  BY UploadFacts DEF RInv, Types, Placed, Contents, Committed, CopyBurn
<1>2. /\ upload' = upload /\ usb' = usb /\ pc' = "copy" /\ Burnt
      /\ UNCHANGED <<status, busy, pages, rep, final, fxrom>>
  BY DEF CopyBurn, Continue, Go
<1>3. /\ Capacity' = Capacity /\ Files' = Files /\ Units' = Units /\ Sectors' = Sectors
      /\ DataAt' = DataAt /\ CopySectors' = CopySectors
  BY <1>2, Fixed
<1>4. k \in Nat /\ CopySector = Sector(DataAt) + k /\ k < CopySectors /\ CopySectors \in Nat
  BY <1>1, CopyPlace DEF CopySector, CopyBuffered, RInv, Types
<1>5. CopySector \in Nat /\ CopySector \in Sectors
  BY <1>1, <1>4, CopyPlace
<1>6. /\ cells' \in [0 .. Capacity -> Int]
      /\ \A c \in UnitsOf(CopySector) : cells'[c] = buffer[c]
      /\ \A c \in 0 .. Capacity : Sector(c) # CopySector => cells'[c] = cells[c]
      /\ Uncommitted' /\ Active /\ k' = k + 1
  BY <1>1, <1>2, <1>5, BurntIs DEF CopyBuffered
<1>7. \A o \in 0 .. upload.size :
        DataAt + o \in 0 .. Capacity /\ DataAt + o \in Nat /\ o \in Nat /\ (DataAt + o) - DataAt = o
  BY <1>1, UploadFacts, ImageFits
<1>8. Copied'
  <2>1. ASSUME NEW o \in Units, o < SectorUnits * (k + 1)
        PROVE  cells'[DataAt + o] = o
    <3>1. o \in 0 .. upload.size /\ o \in Nat
      BY <1>1 DEF Units
    <3>2. CASE o < SectorUnits * k
      <4>1. ~(SectorUnits * k <= o)
        BY <1>4, <3>1, <3>2 DEF SectorUnits
      <4>2. Sector(DataAt + o) # CopySector
        BY <1>1, <1>4, <3>1, <4>1, CopyPlace
      <4>3. QED
        BY <1>1, <1>6, <1>7, <3>1, <3>2, <4>2 DEF Copied
    <3>3. CASE ~(o < SectorUnits * k)
      <4>1. SectorUnits * k <= o
        BY <1>4, <3>1, <3>3 DEF SectorUnits
      <4>2. Sector(DataAt + o) = CopySector
        BY <1>1, <1>4, <2>1, <3>1, <4>1, CopyPlace
      <4>3. DataAt + o \in UnitsOf(CopySector)
        BY <1>5, <1>7, <3>1, <4>2, UnitsOfIs
      <4>4. buffer[DataAt + o] = o
        BY <1>1, <1>7, <3>1, <4>3 DEF CopyBuffered
      <4>5. QED
        BY <1>6, <4>3, <4>4
    <3>4. QED
      BY <3>2, <3>3
  <2>2. ASSUME NEW o \in 0 .. upload.size, SectorUnits * (k + 1) <= o
        PROVE  cells'[DataAt + o] = Shifted(o)
    <3>1. o \in Nat /\ SectorUnits * k <= o /\ ~(o < SectorUnits * (k + 1))
      BY <1>4, <1>7, <2>2 DEF SectorUnits
    <3>2. Sector(DataAt + o) # CopySector
      BY <1>1, <1>4, <3>1, CopyPlace
    <3>3. QED
      BY <1>1, <1>6, <1>7, <3>1, <3>2 DEF Copied
  <2>3. k + 1 \in 0 .. CopySectors
    BY <1>4
  <2>4. QED
    BY <1>2, <1>3, <1>6, <2>1, <2>2, <2>3 DEF Copied
<1>9. Types'
  BY <1>2, <1>3, <1>4, <1>6 DEF RInv, Types
<1>10. Placed'
  BY <1>1, <1>2, <1>6 DEF RInv, Placed, Active
<1>11. Fresh'
  BY <1>1, <1>2, <1>3 DEF Fresh
<1>12. Contents'
  BY <1>1, <1>2, <1>8, <1>11 DEF Contents
<1>13. QED
  BY <1>6, <1>9, <1>10, <1>12 DEF RInv, Committed, Kept

LEMMA CopyDoneKeeps == ASSUME RInv, CopyDone PROVE Kept
<1>1. /\ upload \in Uploads /\ pc = "copy" /\ k = CopySectors /\ k \in Nat /\ upload.type = "Sfc" /\ Copied
  BY DEF RInv, Types, Placed, Contents, CopyDone
<1>2. \A o \in Units : cells[DataAt + o] = o
  BY <1>1, CopyPlace DEF Copied
<1>3. /\ upload' = upload /\ usb' = usb /\ pc' = AfterCopy /\ k' = 0
      /\ UNCHANGED <<status, busy, cells, pages, buffer, rep, final, fxrom>>
  BY DEF CopyDone, Continue, Go, progress
<1>4. QED
  BY <1>1, <1>2, <1>3, AfterCopyKeeps

LEMMA FlashFailsKeeps == ASSUME RInv, FlashFails PROVE Kept
  BY FailInPlace DEF FlashFails, Spoilt, Failed, Ends

LEMMA FxFailsKeeps == ASSUME RInv, FxFails PROVE Kept
  BY FailInPlace DEF FxFails, Spoilt, Failed, Ends

\* One more unit of the GSU's part, from where the upload has put it.
LEMMA FxProgramKeeps == ASSUME RInv, FxProgram PROVE Kept
<1> DEFINE u == 4 * MiB + k
           o == SourceOffset(upload.map, upload.size, u)
<1>1. /\ upload \in Uploads /\ pc = "fx" /\ k \in Nat /\ k < FxUnits /\ Active /\ upload.map = "Fx3"
      /\ Fresh /\ SourcesLeft /\ FxFilled(k) /\ Uncommitted /\ status # "Complete"
      /\ fxrom \in [0 .. FxUnits - 1 -> Int] /\ cells \in [0 .. Capacity -> Int]
  BY DEF RInv, Types, Placed, Contents, Committed, FxProgram
<1>2. /\ upload' = upload /\ usb' = usb /\ pc' = "fx" /\ k' = k + 1
      /\ UNCHANGED <<status, busy, cells, pages, buffer, rep, final>>
      /\ fxrom' = [fxrom EXCEPT ![k] = cells[SourceCell(o)]]
  BY DEF FxProgram, Continue, Go
<1>3. /\ Capacity' = Capacity /\ Files' = Files /\ Units' = Units /\ Sectors' = Sectors
      /\ DataAt' = DataAt
  BY <1>2, Fixed
<1>4. u \in 0 .. 511 /\ FxUnits = 96
  BY <1>1 DEF MiB, FxUnits
<1> HIDE DEF u
<1>5. o \in Units
  <2> DEFINE m == upload.map
             n == upload.size
  <2>1. m \in Maps /\ n \in 1 .. 512
    BY <1>1, UploadFacts
  <2> HIDE DEF m, n
  <2>2. SourceOffset(m, n, u) \in 0 .. n - 1
    BY <1>4, <2>1, OffsetInImage, ZenonT(60)
  <2>3. QED
    BY <2>2 DEF m, n, Units
<1> HIDE DEF o
<1>6. SourceCell(o) = DataAt + o /\ cells[DataAt + o] = o
  BY <1>1, <1>5 DEF Fresh, SourceCell, SourcesLeft
<1>7. o \in Int
  BY <1>1, <1>5, UploadFacts DEF Units
<1>8. /\ fxrom' \in [0 .. FxUnits - 1 -> Int]
      /\ fxrom'[k] = o
      /\ \A f \in 0 .. FxUnits - 1 : f # k => fxrom'[f] = fxrom[f]
  <2>1. fxrom' = [fxrom EXCEPT ![k] = o]
    BY <1>2, <1>6
  <2>2. k \in 0 .. FxUnits - 1
    BY <1>1, <1>4
  <2>3. QED
    BY <1>1, <1>7, <2>1, <2>2
<1>9. FxFilled(k)'
  <2>1. \A f \in 0 .. FxUnits - 1 : f < k + 1 => f < k \/ f = k
    BY <1>1, <1>4
  <2>2. \A f \in 0 .. FxUnits - 1 :
          f < k + 1 => fxrom'[f] = SourceOffset(upload.map, upload.size, 4 * MiB + f)
    BY <1>1, <1>8, <2>1 DEF FxFilled, o, u
  <2>3. QED
    BY <1>2, <2>2 DEF FxFilled
<1>10. (k \in 0 .. FxUnits)'
  BY <1>1, <1>2, <1>4
<1>11. SourcesLeft'
  BY <1>1, <1>2, <1>3 DEF SourcesLeft
<1>12. Types'
  BY <1>1, <1>2, <1>3, <1>8 DEF RInv, Types
<1>13. Placed'
  BY <1>1, <1>2 DEF RInv, Placed
<1>14. Fresh'
  BY <1>1, <1>2, <1>3 DEF Fresh
<1>15. Contents'
  BY <1>1, <1>2, <1>9, <1>10, <1>11, <1>14 DEF Contents
<1>16. Uncommitted'
  BY <1>1, <1>2, <1>3 DEF Uncommitted
<1>17. QED
  BY <1>12, <1>13, <1>15, <1>16 DEF RInv, Committed, Kept

LEMMA FxDoneKeeps == ASSUME RInv, FxDone PROVE Kept
<1>1. /\ upload \in Uploads /\ pc = "fx" /\ k = FxUnits /\ upload.map = "Fx3" /\ upload.type = "Sfc"
      /\ Fresh /\ SourcesLeft /\ FxFilled(FxUnits) /\ Uncommitted /\ status # "Complete"
  BY DEF RInv, Types, Placed, Contents, Committed, FxDone
<1>2. /\ upload' = upload /\ usb' = usb /\ pc' = "program" /\ k' = 0
      /\ UNCHANGED <<status, busy, cells, pages, buffer, rep, final, fxrom>>
  BY DEF FxDone, Continue, Go, progress
<1>3. /\ Capacity' = Capacity /\ Files' = Files /\ Units' = Units /\ Sectors' = Sectors
      /\ DataAt' = DataAt /\ ProgramOrder' = ProgramOrder
  BY <1>2, Fixed
<1>4. Types'
  BY <1>2, <1>3 DEF RInv, Types
<1>5. Placed'
  BY <1>1, <1>2 DEF RInv, Placed
<1>6. (k \in 0 .. Len(ProgramOrder) /\ final = Done(k) /\ FinalShows)'
  <2>1. Len(ProgramOrder) \in Nat
    BY <1>1, OrderEnumerates DEF Enumerates
  <2>2. Done(0)' = {}
    BY DEF Done
  <2>3. final' = {}
    BY <1>1, <1>2 DEF Fresh
  <2>4. QED
    BY <1>2, <1>3, <2>1, <2>2, <2>3 DEF FinalShows
<1>7. SourcesLeft' /\ Representing' /\ FxFilled(FxUnits)'
  BY <1>1, <1>2, <1>3 DEF SourcesLeft, Representing, FxFilled, Fresh
<1>8. Contents'
  BY <1>1, <1>2, <1>6, <1>7 DEF Contents, Programming
<1>9. Uncommitted'
  BY <1>1, <1>2, <1>3 DEF Uncommitted
<1>10. QED
  BY <1>4, <1>5, <1>8, <1>9 DEF RInv, Committed, Kept

\* Every step of the programming takes a sector that was not yet taken.
LEMMA CurrentIs ==
  ASSUME upload \in Uploads, k \in Nat, k < Len(ProgramOrder)
  PROVE  /\ Current \in Sectors /\ Current \in Nat /\ Current \notin Done(k)
         /\ Done(k + 1) = Done(k) \cup {Current}
         /\ Len(ProgramOrder) \in Nat
<1> DEFINE n == Sector(Capacity)
           q == ProgramOrder
<1>1. n \in Nat
  BY UploadFacts DEF Sector, SectorUnits
<1>2. Enumerates(q, n)
  BY OrderEnumerates
<1> HIDE DEF n, q
<1>3. /\ Len(q) = n
      /\ \A i \in 1 .. n : q[i] \in 0 .. n - 1
      /\ \A i, j \in 1 .. n : q[i] = q[j] => i = j
  BY <1>2 DEF Enumerates
<1>4. k + 1 \in 1 .. n
  BY <1>1, <1>3 DEF q
<1>5. Current = q[k + 1]
  BY DEF Current, q
<1>6. Current \in 0 .. n - 1 /\ Current \in Nat
  BY <1>1, <1>3, <1>4, <1>5
<1>7. \A i \in 1 .. k : q[i] # Current
  <2>1. \A i \in 1 .. k : i \in 1 .. n /\ i # k + 1
    BY <1>1, <1>4
  <2>2. QED
    BY <1>3, <1>4, <1>5, <2>1
<1>8. Current \notin Done(k)
  BY <1>7 DEF Done, q
<1>9. Done(k + 1) = Done(k) \cup {Current}
  <2>1. \A i : i \in 1 .. k + 1 <=> i \in 1 .. k \/ i = k + 1
    OBVIOUS
  <2>2. Done(k + 1) = {q[i] : i \in 1 .. k + 1} /\ Done(k) = {q[i] : i \in 1 .. k}
    BY DEF Done, q
  <2>3. QED
    BY <1>5, <2>1, <2>2
<1>10. QED
  BY <1>1, <1>3, <1>6, <1>8, <1>9 DEF Sectors, n, q

LEMMA AtMostOne ==
  ASSUME NEW S, IsFiniteSet(S), Cardinality(S) <= 1, NEW x \in S, NEW y \in S
  PROVE  x = y
<1>1. SUFFICES ASSUME x # y PROVE FALSE
  OBVIOUS
<1>2. IsFiniteSet({x}) /\ Cardinality({x}) = 1
  BY FS_Singleton
<1>3. IsFiniteSet({x} \cup {y}) /\ Cardinality({x} \cup {y}) = 2
  <2>1. y \notin {x}
    BY <1>1
  <2>2. Cardinality({x} \cup {y}) = Cardinality({x}) + 1 /\ IsFiniteSet({x} \cup {y})
    BY <1>2, <2>1, FS_AddElement
  <2>3. QED
    BY <1>2, <2>2
<1>4. {x} \cup {y} \in SUBSET S
  OBVIOUS
<1>5. Cardinality({x} \cup {y}) <= Cardinality(S)
  BY <1>4, FS_Subset
<1>6. Cardinality(S) \in Nat
  BY FS_CardinalityType
<1>7. QED
  BY <1>3, <1>5, <1>6

\* read_install_source finds the unit it looks for.
LEMMA SourceHolds ==
  ASSUME RInv, pc = "program", NEW o \in Units, SourceCell(o) # None
  PROVE  cells[SourceCell(o)] = o
<1>1. /\ upload \in Uploads /\ SourcesLeft /\ FinalShows /\ Representing
      /\ rep \in [Units -> {None} \cup 0 .. Capacity - 1] /\ final \in SUBSET Sectors
  BY DEF RInv, Types, Contents, Programming
<1>2. CASE Sector(DataAt + o) \in final
  <2> DEFINE p == rep[o]
  <2>1. SourceCell(o) = p /\ p # None /\ p \in {None} \cup 0 .. Capacity - 1
    BY <1>1, <1>2 DEF SourceCell
  <2> HIDE DEF p
  <2>2. p \in Nat
    BY <1>1, <2>1, UploadFacts
  <2>3. Sector(p) \in final /\ o \in ImageSources(p)
    BY <1>1, <2>1 DEF Representing, p
  <2>4. Sector(p) \in Nat /\ p \in UnitsOf(Sector(p))
    <3>1. Sector(p) \in Nat
      BY <2>2 DEF Sector, SectorUnits
    <3>2. QED
      BY <2>2, <3>1, UnitsOfIs
  <2>5. QED
    BY <1>1, <2>1, <2>3, <2>4 DEF FinalShows
<1>3. CASE Sector(DataAt + o) \notin final
  BY <1>1, <1>3 DEF SourceCell, SourcesLeft
<1>4. QED
  BY <1>2, <1>3

LEMMA EraseKeeps == ASSUME RInv, Erase PROVE Kept
<1>1. /\ upload \in Uploads /\ pc = "program" /\ k < Len(ProgramOrder) /\ upload.type = "Sfc" /\ k \in Nat
      /\ Programming /\ Uncommitted /\ status # "Complete" /\ final = Done(k)
  BY DEF RInv, Types, Placed, Contents, Committed, Erase, Programming
<1>2. CASE ~SectorReadable(Current)
  BY <1>1, <1>2, FailInPlace DEF Erase, Failed, Ends
<1>3. CASE SectorReadable(Current)
  <2>1. /\ upload' = upload /\ usb' = usb /\ pc' = "burn"
        /\ UNCHANGED <<status, busy, k, pages, rep, final, fxrom>>
        /\ cells' = Erased(Current) /\ buffer' = SectorContents(Current)
    BY <1>3 DEF Erase, Continue, Go
  <2>2. /\ Capacity' = Capacity /\ Files' = Files /\ Units' = Units /\ Sectors' = Sectors
        /\ DataAt' = DataAt /\ ProgramOrder' = ProgramOrder
        /\ \A p : (ImageSources(p))' = ImageSources(p)
    BY <2>1, Fixed
  <2>3. Current' = Current
    BY <2>1, <2>2 DEF Current
  <2>4. Current \in Sectors /\ Current \in Nat /\ Current \notin final
    BY <1>1, CurrentIs
  <2>5. /\ cells' \in [0 .. Capacity -> Int] /\ Uncommitted'
        /\ \A c \in 0 .. Capacity : Sector(c) # Current => cells'[c] = cells[c]
    BY <1>1, <2>1, <2>4, ErasedIs
  <2>6. UnitsOf(Current) \subseteq 0 .. Capacity - 1
    <3>1. Capacity \in {32, 64, 128, 256, 512}
      BY <1>1, UploadFacts
    <3>2. QED
      BY <2>4, <3>1 DEF Sectors, Sector, SectorUnits, UnitsOf
  <2>7. ASSUME NEW p \in UnitsOf(Current), NEW o \in ImageSources(p)
        PROVE  o \in Units /\ cells[SourceCell(o)] = o
    <3>1. o \in Units
      BY <1>1, <2>6, SourcesAre
    <3>2. SourceCell(o) # None
      BY <1>3 DEF SectorReadable
    <3>3. QED
      BY <1>1, <3>1, <3>2, SourceHolds
  <2>8. ASSUME NEW p \in UnitsOf(Current)
        PROVE  /\ buffer'[p] \in Contentful
               /\ \A o \in ImageSources(p) : buffer'[p] = o
    <3> DEFINE any == CHOOSE o \in ImageSources(p) : TRUE
               read == {cells[c] : c \in {SourceCell(o) : o \in ImageSources(p)}}
    <3>1. buffer'[p] = IF ImageSources(p) = {} THEN Blank ELSE cells[SourceCell(any)]
      BY <2>1 DEF SectorContents
    <3>2. read = ImageSources(p)
      BY <2>7
    <3>3. Cardinality(read) <= 1
      BY <1>3 DEF SectorReadable
    <3>4. IsFiniteSet(ImageSources(p))
      <4>1. ImageSources(p) \in SUBSET Units
        BY <2>7
      <4>2. IsFiniteSet(Units)
        <5>a. upload.size \in 1 .. 512
          BY <1>1, UploadFacts
        <5>1. 0 \in Int /\ upload.size - 1 \in Int
          BY <5>a
        <5>2. QED
          BY <5>1, FS_Interval DEF Units
      <4>3. QED
        BY <4>1, <4>2, FS_Subset
    <3> HIDE DEF read
    <3>5. CASE ImageSources(p) = {}
      BY <3>1, <3>5 DEF Contentful, Blank, Descriptor
    <3>6. CASE ImageSources(p) # {}
      <4>1. any \in ImageSources(p)
        BY <3>6
      <4> HIDE DEF any
      <4>2. \A o \in ImageSources(p) : o = any
        BY <3>2, <3>3, <3>4, <4>1, AtMostOne
      <4>3. buffer'[p] = any /\ any \in Units
        BY <2>7, <3>1, <3>6, <4>1
      <4>4. any \in Nat
        BY <1>1, <4>3, UploadFacts DEF Units
      <4>5. QED
        BY <4>2, <4>3, <4>4 DEF Contentful, Descriptor
    <3>7. QED
      BY <3>5, <3>6
  <2>9. Buffered'
    <3>1. buffer' \in [UnitsOf(Current) -> Contentful]
      BY <2>1, <2>8 DEF SectorContents
    <3>2. \A p \in UnitsOf(Current) : \A o \in ImageSources(p) : buffer'[p] = o
      BY <2>8
    <3>3. QED
      BY <1>1, <2>1, <2>2, <2>3, <3>1, <3>2 DEF Buffered
  <2>10. SourcesLeft'
    <3>1. \A o \in Units : DataAt + o \in 0 .. Capacity
      BY <1>1, FileCellIs
    <3>2. \A o \in Units : Sector(DataAt + o) \notin final /\ Sector(DataAt + o) # Current =>
                             cells'[DataAt + o] = o
      BY <1>1, <2>5, <3>1 DEF Programming, SourcesLeft
    <3>3. QED
      BY <2>1, <2>2, <2>3, <3>2 DEF SourcesLeft
  <2>11. FinalShows'
    <3>1. ASSUME NEW s \in final, NEW p \in UnitsOf(s)
          PROVE  p \in 0 .. Capacity /\ Sector(p) # Current
      <4>1. s \in Nat /\ s \in Sectors
        <5>1. s \in Sectors
          BY DEF RInv, Types
        <5>2. QED
          BY <1>1, <5>1, UploadFacts DEF Sectors
      <4>2. p \in Nat /\ Sector(p) = s
        BY <4>1, UnitsOfIs
      <4>3. p \in 0 .. Capacity
        <5>1. Capacity \in {32, 64, 128, 256, 512}
          BY <1>1, UploadFacts
        <5>2. QED
          BY <4>1, <5>1 DEF Sectors, Sector, SectorUnits, UnitsOf
      <4>4. QED
        BY <2>4, <4>2, <4>3
    <3>2. \A s \in final : \A p \in UnitsOf(s) : \A o \in ImageSources(p) : cells'[p] = o
      BY <1>1, <2>5, <3>1 DEF Programming, FinalShows
    <3>3. QED
      BY <2>1, <2>2, <3>2 DEF FinalShows
  <2>12. Programming'
    <3>1. Representing' /\ FxFilled(FxUnits)' /\ Done(k)' = Done(k)
      BY <1>1, <2>1, <2>2 DEF Programming, Representing, FxFilled, Done
    <3>2. QED
      BY <1>1, <2>1, <2>2, <2>10, <2>11, <3>1 DEF Programming
  <2>13. Types'
    BY <2>1, <2>2, <2>5 DEF RInv, Types
  <2>14. Placed'
    BY <1>1, <2>1 DEF RInv, Placed
  <2>15. Contents'
    BY <1>1, <2>1, <2>9, <2>12 DEF Contents
  <2>16. QED
    BY <2>5, <2>13, <2>14, <2>15 DEF RInv, Committed, Kept
<1>4. QED
  BY <1>2, <1>3

\* Representatives are places that show what they represent.
LEMMA RepresentedIs ==
  ASSUME upload \in Uploads, rep \in [Units -> {None} \cup 0 .. Capacity - 1],
         NEW ps \in SUBSET (0 .. Capacity - 1), NEW else \in [Units -> {None} \cup 0 .. Capacity - 1]
  PROVE  /\ Represented(ps, else) \in [Units -> {None} \cup 0 .. Capacity - 1]
         /\ \A o \in Units :
              \/ Represented(ps, else)[o] \in ps /\ o \in ImageSources(Represented(ps, else)[o])
              \/ Represented(ps, else)[o] = else[o] /\ \A p \in ps : o \notin ImageSources(p)
<1> DEFINE r == Represented(ps, else)
<1>1. Capacity \in {32, 64, 128, 256, 512}
  BY UploadFacts
<1>2. ASSUME NEW o \in Units
      PROVE  \/ r[o] \in ps /\ o \in ImageSources(r[o])
             \/ r[o] = else[o] /\ \A p \in ps : o \notin ImageSources(p)
  <2> DEFINE at == {p \in ps : o \in ImageSources(p)}
  <2>1. r[o] = IF at = {} THEN else[o] ELSE Max(at)
    <3>1. at = {p \in ps : o \in [q \in ps |-> ImageSources(q)][p]}
      OBVIOUS
    <3>2. QED
      BY <3>1 DEF Represented
  <2>2. CASE at = {}
    BY <2>1, <2>2
  <2>3. CASE at # {}
    <3>1. at \in SUBSET (0 .. Capacity - 1)
      OBVIOUS
    <3> HIDE DEF at
    <3>2. Max(at) \in at
      <4>1. Capacity - 1 \in Nat
        BY <1>1
      <4>2. QED
        BY <2>3, <3>1, <4>1, GreatestOf
    <3>3. r[o] \in at
      BY <2>1, <2>3, <3>2
    <3>4. QED
      BY <3>3 DEF at
  <2>4. QED
    BY <2>2, <2>3
<1>3. r = [o \in Units |-> r[o]]
  BY DEF Represented
<1>4. \A o \in Units : r[o] \in {None} \cup 0 .. Capacity - 1
  BY <1>2
<1> HIDE DEF r
<1>5. r \in [Units -> {None} \cup 0 .. Capacity - 1]
  BY <1>3, <1>4
<1>6. QED
  BY <1>2, <1>5 DEF r

LEMMA SectorInFlash ==
  ASSUME upload \in Uploads, NEW s \in Sectors
  PROVE  /\ s \in Nat
         /\ UnitsOf(s) \subseteq 0 .. Capacity - 1
         /\ \A p \in UnitsOf(s) : p \in 0 .. Capacity /\ Sector(p) = s
<1>1. Capacity \in {32, 64, 128, 256, 512}
  BY UploadFacts
<1>2. s \in Nat
  BY <1>1 DEF Sectors
<1>3. UnitsOf(s) \subseteq 0 .. Capacity - 1
  BY <1>1 DEF Sectors, Sector, SectorUnits, UnitsOf
<1>4. \A p \in UnitsOf(s) : p \in 0 .. Capacity
  BY <1>1, <1>3
<1>5. QED
  BY <1>2, <1>3, <1>4, UnitsOfIs

LEMMA BurnKeeps == ASSUME RInv, Burn PROVE Kept
<1>1. /\ upload \in Uploads /\ pc = "burn" /\ k < Len(ProgramOrder) /\ upload.type = "Sfc" /\ k \in Nat
      /\ Programming /\ Buffered /\ Uncommitted /\ status # "Complete" /\ final = Done(k)
      /\ rep \in [Units -> {None} \cup 0 .. Capacity - 1] /\ final \in SUBSET Sectors
  BY DEF RInv, Types, Placed, Contents, Committed, Burn, Programming, Buffered
<1>2. /\ upload' = upload /\ usb' = usb /\ pc' = "program" /\ Burnt
      /\ UNCHANGED <<status, busy, pages, fxrom>>
      /\ rep' = Represented(UnitsOf(Current), rep) /\ final' = final \cup {Current}
  BY DEF Burn, Continue, Go
<1>3. /\ Capacity' = Capacity /\ Files' = Files /\ Units' = Units /\ Sectors' = Sectors
      /\ DataAt' = DataAt /\ ProgramOrder' = ProgramOrder
      /\ \A p : (ImageSources(p))' = ImageSources(p)
  BY <1>2, Fixed
<1>4. /\ Current \in Sectors /\ Current \in Nat /\ Current \notin final
      /\ Done(k + 1) = final \cup {Current} /\ Len(ProgramOrder) \in Nat
  BY <1>1, CurrentIs
<1>5. /\ cells' \in [0 .. Capacity -> Int] /\ Uncommitted'
      /\ \A c \in UnitsOf(Current) : cells'[c] = buffer[c]
      /\ \A c \in 0 .. Capacity : Sector(c) # Current => cells'[c] = cells[c]
      /\ Active /\ k' = k + 1
  BY <1>1, <1>2, <1>4, BurntIs DEF Buffered
<1>6. /\ rep' \in [Units -> {None} \cup 0 .. Capacity - 1]
      /\ \A o \in Units :
           \/ rep'[o] \in UnitsOf(Current) /\ o \in ImageSources(rep'[o])
           \/ rep'[o] = rep[o]
  <2> DEFINE ps == UnitsOf(Current)
  <2>1. ps \in SUBSET (0 .. Capacity - 1)
    BY <1>1, <1>4, SectorInFlash
  <2>2. rep' = Represented(ps, rep)
    BY <1>2
  <2> HIDE DEF ps
  <2>3. /\ Represented(ps, rep) \in [Units -> {None} \cup 0 .. Capacity - 1]
        /\ \A o \in Units :
             \/ Represented(ps, rep)[o] \in ps /\ o \in ImageSources(Represented(ps, rep)[o])
             \/ Represented(ps, rep)[o] = rep[o] /\ \A p \in ps : o \notin ImageSources(p)
    BY <1>1, <2>1, RepresentedIs
  <2>4. QED
    BY <2>2, <2>3 DEF ps
<1>7. SourcesLeft'
  <2>1. \A o \in Units : DataAt + o \in 0 .. Capacity
    BY <1>1, FileCellIs
  <2>2. \A o \in Units : Sector(DataAt + o) \notin final \cup {Current} => cells'[DataAt + o] = o
    BY <1>1, <1>5, <2>1 DEF Programming, SourcesLeft
  <2>3. QED
    BY <1>2, <1>3, <2>2 DEF SourcesLeft
<1>8. FinalShows'
  <2>1. ASSUME NEW s \in final, NEW p \in UnitsOf(s), NEW o \in ImageSources(p)
        PROVE  cells'[p] = o
    <3>1. p \in 0 .. Capacity /\ Sector(p) # Current
      BY <1>1, <1>4, SectorInFlash
    <3>2. QED
      BY <1>1, <1>5, <3>1 DEF Programming, FinalShows
  <2>2. ASSUME NEW p \in UnitsOf(Current), NEW o \in ImageSources(p)
        PROVE  cells'[p] = o
    BY <1>1, <1>5 DEF Buffered
  <2>3. QED
    BY <1>2, <1>3, <2>1, <2>2 DEF FinalShows
<1>9. Representing'
  <2>1. ASSUME NEW o \in Units, rep'[o] # None
        PROVE  Sector(rep'[o]) \in final \cup {Current} /\ o \in ImageSources(rep'[o])
    <3>1. CASE rep'[o] \in UnitsOf(Current) /\ o \in ImageSources(rep'[o])
      BY <1>1, <1>4, <3>1, SectorInFlash
    <3>2. CASE rep'[o] = rep[o]
      BY <1>1, <2>1, <3>2 DEF Programming, Representing
    <3>3. QED
      BY <1>6, <3>1, <3>2
  <2>2. QED
    BY <1>2, <1>3, <2>1 DEF Representing
<1>10. Programming'
  <2>1. k + 1 \in 0 .. Len(ProgramOrder)
    BY <1>1, <1>4
  <2>2. Done(k)' = Done(k + 1)
    BY <1>3, <1>5 DEF Done
  <2>3. FxFilled(FxUnits)'
    BY <1>1, <1>2 DEF Programming, FxFilled
  <2>4. QED
    BY <1>2, <1>3, <1>4, <1>5, <1>7, <1>8, <1>9, <2>1, <2>2, <2>3 DEF Programming
<1>11. Types'
  <2>1. final' \in SUBSET Sectors
    BY <1>1, <1>2, <1>4
  <2>2. k' \in Nat
    BY <1>1, <1>5
  <2>3. QED
    BY <1>2, <1>3, <1>5, <1>6, <2>1, <2>2 DEF RInv, Types
<1>12. Placed'
  BY <1>1, <1>2, <1>5 DEF RInv, Placed, Active
<1>13. Contents'
  BY <1>1, <1>2, <1>10 DEF Contents
<1>14. QED
  BY <1>5, <1>11, <1>12, <1>13 DEF RInv, Committed, Kept

\* A flash whose sectors have all been programmed shows the image, and
\* build_representatives finds a place for every unit that is shown.
LEMMA ProgrammedKeeps == ASSUME RInv, Programmed PROVE Kept
<1>1. /\ upload \in Uploads /\ pc = "program" /\ k = Len(ProgramOrder) /\ upload.type = "Sfc" /\ k \in Nat
      /\ Programming /\ Uncommitted /\ status # "Complete" /\ final = Done(k) /\ (k > 0 => busy)
      /\ rep \in [Units -> {None} \cup 0 .. Capacity - 1]
  BY DEF RInv, Types, Placed, Contents, Committed, Programmed, Programming
<1>2. /\ upload' = upload /\ usb' = usb
      /\ UNCHANGED <<k, cells, pages, fxrom, final, buffer>>
      /\ rep' = Represented(0 .. Capacity - 1, [o \in DOMAIN rep |-> None])
  BY DEF Programmed, Continue, Complete, Go
<1>3. /\ Capacity' = Capacity /\ Files' = Files /\ Units' = Units /\ Sectors' = Sectors
      /\ DataAt' = DataAt /\ ProgramOrder' = ProgramOrder
      /\ \A p : (ImageSources(p))' = ImageSources(p)
  BY <1>2, Fixed
<1>4. final = Sectors /\ k > 0
  <2> DEFINE n == Sector(Capacity)
             q == ProgramOrder
  <2>1. n \in Nat /\ n > 0
    BY <1>1, UploadFacts DEF Sector, SectorUnits
  <2>2. Enumerates(q, n)
    BY <1>1, OrderEnumerates
  <2> HIDE DEF n, q
  <2>3. /\ Len(q) = n
        /\ \A i \in 1 .. n : q[i] \in 0 .. n - 1
        /\ \A s \in 0 .. n - 1 : \E i \in 1 .. n : q[i] = s
    BY <2>2 DEF Enumerates
  <2>4. k = n /\ final = {q[i] : i \in 1 .. n}
    BY <1>1, <2>3 DEF Done, q
  <2>5. QED
    BY <2>1, <2>3, <2>4 DEF Sectors, n
<1>5. /\ rep' \in [Units -> {None} \cup 0 .. Capacity - 1]
      /\ \A o \in Units :
           \/ rep'[o] \in 0 .. Capacity - 1 /\ o \in ImageSources(rep'[o])
           \/ rep'[o] = None /\ \A p \in 0 .. Capacity - 1 : o \notin ImageSources(p)
  <2> DEFINE ps == 0 .. Capacity - 1
             none == [o \in DOMAIN rep |-> None]
  <2>1. ps \in SUBSET (0 .. Capacity - 1) /\ none = [o \in Units |-> None]
    BY <1>1
  <2>2. rep' = Represented(ps, none)
    BY <1>2
  <2> HIDE DEF ps, none
  <2>3. none \in [Units -> {None} \cup 0 .. Capacity - 1] /\ \A o \in Units : none[o] = None
    BY <2>1
  <2>4. /\ Represented(ps, none) \in [Units -> {None} \cup 0 .. Capacity - 1]
        /\ \A o \in Units :
             \/ Represented(ps, none)[o] \in ps /\ o \in ImageSources(Represented(ps, none)[o])
             \/ Represented(ps, none)[o] = none[o] /\ \A p \in ps : o \notin ImageSources(p)
    BY <1>1, <2>1, <2>3, RepresentedIs
  <2>5. QED
    BY <2>2, <2>3, <2>4 DEF ps
<1>6. FinalShows' /\ FxFilled(FxUnits)'
  BY <1>1, <1>2, <1>3 DEF Programming, FinalShows, FxFilled
<1>7. Representing'
  <2>1. \A o \in Units : rep'[o] # None => rep'[o] \in 0 .. Capacity - 1 /\ o \in ImageSources(rep'[o])
    BY <1>5
  <2>2. \A p \in 0 .. Capacity - 1 : Sector(p) \in Sectors
    <3>1. Capacity \in {32, 64, 128, 256, 512}
      BY <1>1, UploadFacts
    <3>2. QED
      BY <3>1 DEF Sectors, Sector, SectorUnits
  <2>3. QED
    BY <1>2, <1>3, <1>4, <2>1, <2>2 DEF Representing
<1>8. Represents'
  <2>1. ASSUME NEW p \in 0 .. Capacity - 1, NEW o \in ImageSources(p)
        PROVE  rep'[o] # None
    <3>1. o \in Units
      BY <1>1, SourcesAre
    <3>2. rep'[o] \in 0 .. Capacity - 1
      BY <1>5, <3>1
    <3>3. QED
      BY <1>1, <3>2, UploadFacts DEF None
  <2>2. QED
    BY <1>2, <1>3, <2>1 DEF Represents
<1>9. Whole'
  BY <1>2, <1>3, <1>4, <1>6, <1>7, <1>8 DEF Whole
<1>10. Uncommitted'
  BY <1>1, <1>2, <1>3 DEF Uncommitted
<1>11. CASE Capacity = BusUnits
  <2>1. pc' = "words" /\ UNCHANGED <<status, busy>>
    BY <1>11 DEF Programmed, Continue, Go
  <2>2. Types'
    BY <1>2, <1>3, <1>5, <2>1 DEF RInv, Types
  <2>3. Placed'
    BY <1>1, <1>2, <1>3, <1>4, <1>11, <2>1 DEF RInv, Placed
  <2>4. Contents'
    BY <1>1, <1>2, <1>9, <2>1 DEF Contents
  <2>5. QED
    BY <1>10, <2>2, <2>3, <2>4 DEF RInv, Committed, Kept
<1>12. CASE Capacity # BusUnits
  <2>1. pc' = "done" /\ status' = "Complete" /\ busy' = FALSE
    BY <1>12 DEF Programmed, Complete, Go
  <2>2. Types'
    BY <1>2, <1>3, <1>5, <2>1 DEF RInv, Types, Statuses
  <2>3. Placed'
    BY <1>1, <1>2, <2>1 DEF RInv, Placed
  <2>4. Contents'
    BY <1>1, <1>2, <1>9, <2>1 DEF Contents, Success
  <2>5. QED
    BY <1>10, <2>2, <2>3, <2>4 DEF RInv, Committed, Kept
<1>13. QED
  BY <1>11, <1>12

\* The descriptor lies where no bus address shows anything.
LEMMA WholeKept ==
  ASSUME upload \in Uploads, Whole, Capacity = BusUnits, cells \in [0 .. Capacity -> Int], NEW d,
         cells' = [cells EXCEPT ![DescriptorAt] = d], UNCHANGED <<upload, rep, final, fxrom>>
  PROVE  Whole' /\ (d \in Int => cells' \in [0 .. Capacity -> Int])
<1>1. /\ Capacity' = Capacity /\ Units' = Units /\ Sectors' = Sectors
      /\ \A p : (ImageSources(p))' = ImageSources(p)
  BY Fixed
<1>2. \A c \in 0 .. Capacity : c # DescriptorAt => cells'[c] = cells[c]
  OBVIOUS
<1>3. ASSUME NEW s \in Sectors, NEW p \in UnitsOf(s), NEW o \in ImageSources(p)
      PROVE  p \in 0 .. Capacity /\ p # DescriptorAt
  <2>1. p # DescriptorAt
    BY DescriptorHidden
  <2>2. QED
    BY <2>1, SectorInFlash
<1>4. FinalShows'
  <2>1. \A s \in final : \A p \in UnitsOf(s) : \A o \in ImageSources(p) : cells'[p] = o
    BY <1>2, <1>3 DEF Whole, FinalShows
  <2>2. QED
    BY <1>1, <2>1 DEF FinalShows
<1>5. Representing' /\ Represents' /\ FxFilled(FxUnits)'
  BY <1>1 DEF Whole, Representing, Represents, FxFilled
<1>6. Whole'
  BY <1>1, <1>4, <1>5 DEF Whole
<1>7. d \in Int => cells' \in [0 .. Capacity -> Int]
  OBVIOUS
<1>8. QED
  BY <1>6, <1>7

LEMMA DescriptorWordsKeeps == ASSUME RInv, DescriptorWords PROVE Kept
<1>1. /\ upload \in Uploads /\ pc = "words" /\ upload.type = "Sfc" /\ Capacity = BusUnits
      /\ Whole /\ Uncommitted /\ status # "Complete" /\ cells \in [0 .. Capacity -> Int]
  BY DEF RInv, Types, Placed, Contents, Committed, DescriptorWords
<1>2. /\ upload' = upload /\ usb' = usb /\ pc' = "magic"
      /\ UNCHANGED <<status, busy, k, pages, buffer, rep, final, fxrom>>
      /\ cells' = [cells EXCEPT ![DescriptorAt] = DescriptorPart]
  BY DEF DescriptorWords, Continue, Go, progress
<1>3. Capacity' = Capacity /\ Files' = Files /\ Units' = Units /\ Sectors' = Sectors
  BY <1>2, Fixed
<1>4. DescriptorPart \in Int /\ DescriptorPart # Descriptor
  BY DEF DescriptorPart, Descriptor
<1>5. Whole' /\ cells' \in [0 .. Capacity -> Int]
  BY <1>1, <1>2, <1>4, WholeKept
<1>6. Uncommitted'
  BY <1>1, <1>2, <1>3, <1>4 DEF Uncommitted
<1>7. Types'
  BY <1>2, <1>3, <1>5 DEF RInv, Types
<1>8. Placed'
  BY <1>1, <1>2, <1>3 DEF RInv, Placed
<1>9. Contents'
  BY <1>1, <1>2, <1>5 DEF Contents
<1>10. QED
  BY <1>6, <1>7, <1>8, <1>9 DEF RInv, Committed, Kept

LEMMA DescriptorMagicKeeps == ASSUME RInv, DescriptorMagic PROVE Kept
<1>1. /\ upload \in Uploads /\ pc = "magic" /\ upload.type = "Sfc" /\ Capacity = BusUnits
      /\ Whole /\ cells \in [0 .. Capacity -> Int]
  BY DEF RInv, Types, Placed, Contents, DescriptorMagic
<1>2. /\ upload' = upload /\ usb' = usb /\ pc' = "done" /\ status' = "Complete" /\ busy' = FALSE
      /\ UNCHANGED <<k, pages, buffer, rep, final, fxrom>>
      /\ cells' = [cells EXCEPT ![DescriptorAt] = Descriptor]
  BY DEF DescriptorMagic, Complete, Go, progress
<1>3. Capacity' = Capacity /\ Files' = Files /\ Units' = Units /\ Sectors' = Sectors
  BY <1>2, Fixed
<1>4. Whole' /\ cells' \in [0 .. Capacity -> Int]
  <2>1. Descriptor \in Int
    BY DEF Descriptor
  <2>2. QED
    BY <1>1, <1>2, <2>1, WholeKept
<1>5. Types'
  BY <1>2, <1>3, <1>4 DEF RInv, Types, Statuses
<1>6. Placed'
  BY <1>1, <1>2 DEF RInv, Placed
<1>7. Contents'
  BY <1>1, <1>2, <1>4 DEF Contents, Success
<1>8. Committed'
  BY <1>1, <1>2, <1>4 DEF Committed
<1>9. QED
  BY <1>1, <1>5, <1>6, <1>7, <1>8 DEF RInv, Kept

LEMMA DescriptorFailsKeeps == ASSUME RInv, DescriptorFails PROVE Kept
<1>1. /\ upload \in Uploads /\ pc \in {"words", "magic"} /\ upload.type = "Sfc" /\ Capacity = BusUnits
      /\ Whole /\ cells \in [0 .. Capacity -> Int]
  BY DEF RInv, Types, Placed, Contents, DescriptorFails
<1>2. PICK d \in {cells[DescriptorAt], DescriptorPart} \cup (IF pc = "magic" THEN {Descriptor} ELSE {}) :
        cells' = [cells EXCEPT ![DescriptorAt] = d]
  BY DEF DescriptorFails
<1>3. /\ upload' = upload /\ usb' = usb /\ pc' = "done" /\ status' \in Ends /\ busy' = FALSE
      /\ UNCHANGED <<k, pages, buffer, rep, final, fxrom>>
  BY DEF DescriptorFails, Spoilt, Failed, Fail, Go, progress, Ends
<1>4. Capacity' = Capacity /\ Files' = Files /\ Units' = Units /\ Sectors' = Sectors
  BY <1>3, Fixed
<1>5. Whole' /\ cells' \in [0 .. Capacity -> Int]
  <2>1. DescriptorAt \in 0 .. Capacity
    BY <1>1 DEF DescriptorAt, BusUnits, MiB
  <2>2. d \in Int
    BY <1>1, <2>1 DEF DescriptorPart, Descriptor
  <2>3. QED
    BY <1>1, <1>2, <1>3, <2>2, WholeKept
<1>6. Types'
  BY <1>3, <1>4, <1>5 DEF RInv, Types, Ends, Statuses
<1>7. Placed'
  BY <1>1, <1>3 DEF RInv, Placed, Ends
<1>8. Contents'
  BY <1>3 DEF Contents, Ends
<1>9. Committed'
  BY <1>1, <1>3, <1>5 DEF Committed
<1>10. QED
  BY <1>1, <1>6, <1>7, <1>8, <1>9 DEF RInv, Kept

\* What does not touch the installation's own state keeps what is said of it.
LEMMA Untouched ==
  ASSUME RInv, UNCHANGED <<upload, pc, k, pages, cells, buffer, rep, final, fxrom>>,
         status' \in {status, "Aborted"}
  PROVE  /\ Contents' /\ Committed' /\ (Uncommitted => Uncommitted')
         /\ Capacity' = Capacity /\ Files' = Files /\ Units' = Units /\ Sectors' = Sectors
<1>1. /\ Capacity' = Capacity /\ Files' = Files /\ Units' = Units /\ Sectors' = Sectors
      /\ DataAt' = DataAt /\ ProgramOrder' = ProgramOrder /\ CopySectors' = CopySectors
      /\ \A p : (ImageSources(p))' = ImageSources(p)
  BY Fixed
<1>2. Current' = Current /\ CopySector' = CopySector /\ Done(k)' = Done(k)
  BY <1>1 DEF Current, CopySector, Done
<1>3. Fresh => Fresh'
  BY <1>1 DEF Fresh
<1>4. FileInPages => FileInPages'
  BY <1>1 DEF FileInPages
<1>5. FileInOrder => FileInOrder'
  BY <1>1 DEF FileInOrder
<1>6. (Copied => Copied') /\ (CopyBuffered => CopyBuffered')
  BY <1>1, <1>2 DEF Copied, CopyBuffered
<1>7. (SourcesLeft => SourcesLeft') /\ (Buffered => Buffered')
  BY <1>1, <1>2 DEF SourcesLeft, Buffered
<1>8. (FinalShows => FinalShows') /\ (Representing => Representing') /\ (Represents => Represents')
  BY <1>1 DEF FinalShows, Representing, Represents
<1>9. (FxFilled(k) => FxFilled(k)') /\ (FxFilled(FxUnits) => FxFilled(FxUnits)')
  BY DEF FxFilled
<1>10. Programming => Programming'
  BY <1>1, <1>2, <1>7, <1>8, <1>9 DEF Programming
<1>11. Whole => Whole'
  BY <1>1, <1>8, <1>9 DEF Whole
<1>12. Success => Success'
  BY <1>1, <1>11 DEF Success
<1>13. Contents'
  <2>1. Contents
    BY DEF RInv
  <2>2. /\ pc \in {"ready", "swap", "raw", "check", "copy", "copyburn", "fx"} => Fresh'
        /\ pc \in {"ready", "swap"} => FileInPages'
        /\ pc \in {"raw", "check"} => FileInOrder'
        /\ pc \in {"copy", "copyburn"} => Copied'
        /\ pc = "copyburn" => CopyBuffered'
        /\ pc = "fx" => SourcesLeft' /\ k \in 0 .. FxUnits /\ FxFilled(k)'
    BY <2>1, <1>3, <1>4, <1>5, <1>6, <1>7, <1>9 DEF Contents
  <2>3. /\ pc \in {"program", "burn"} => Programming'
        /\ pc = "burn" => Buffered'
        /\ pc \in {"words", "magic"} => Whole'
        /\ status' = "Complete" => Success'
    BY <2>1, <1>7, <1>10, <1>11, <1>12 DEF Contents
  <2>4. QED
    BY <2>2, <2>3 DEF Contents
<1>14. Uncommitted => Uncommitted'
  BY <1>1 DEF Uncommitted
<1>15. Committed'
  BY <1>11, <1>14 DEF RInv, Committed
<1>16. QED
  BY <1>1, <1>13, <1>14, <1>15

LEMMA UnmountKeeps == ASSUME RInv, Unmount PROVE Kept
<1>1. CASE pc = "ready"
  <2>1. Fail("Aborted") /\ cells' = cells
    BY <1>1 DEF Unmount, Fail, Go
  <2>2. QED
    BY <1>1, <2>1, FailInPlace DEF Ends
<1>2. CASE pc # "ready"
  <2>1. /\ UNCHANGED <<upload, usb, pc, k, pages, cells, buffer, rep, final, fxrom>>
        /\ status' = "Aborted" /\ busy' = FALSE /\ Served /\ busy
    BY <1>2 DEF Unmount, progress
  <2>2. /\ Contents' /\ Committed' /\ (Uncommitted => Uncommitted')
        /\ Capacity' = Capacity /\ Files' = Files /\ Units' = Units /\ Sectors' = Sectors
    BY <2>1, Untouched
  <2>3. Types'
    BY <2>1, <2>2 DEF RInv, Types, Statuses
  <2>4. Placed'
    BY <1>2, <2>1, <2>2 DEF RInv, Placed, Served
  <2>5. Uncommitted
    BY <2>1 DEF RInv, Placed, Committed
  <2>6. QED
    BY <2>2, <2>3, <2>4, <2>5 DEF RInv, Kept
<1>3. QED
  BY <1>1, <1>2

LEMMA ConsoleKeeps == ASSUME RInv, Console PROVE Kept
<1>1. /\ UNCHANGED <<upload, status, busy, pc, k, pages, cells, buffer, rep, final, fxrom>>
      /\ usb' = ~usb /\ pc # "done"
  BY DEF Console, progress
<1>2. /\ Contents' /\ Committed' /\ (Uncommitted => Uncommitted')
      /\ Capacity' = Capacity /\ Files' = Files /\ Units' = Units /\ Sectors' = Sectors
  BY <1>1, Untouched
<1>3. Types'
  BY <1>1, <1>2 DEF RInv, Types
<1>4. Placed'
  BY <1>1, <1>2 DEF RInv, Placed
<1>5. Uncommitted
  BY <1>1 DEF RInv, Committed
<1>6. QED
  BY <1>2, <1>3, <1>4, <1>5 DEF RInv, Kept

\* Every step keeps the invariant, and none but the descriptor's own commits.
LEMMA StepKeeps == ASSUME RInv, Next PROVE Kept
<1>1. CASE Start
  BY <1>1, StartKeeps
<1>2. CASE Swap
  BY <1>2, SwapKeeps
<1>3. CASE SwapFails
  BY <1>3, SwapFailsKeeps
<1>4. CASE SwapsDone
  BY <1>4, SwapsDoneKeeps
<1>5. CASE VerifyRaw
  BY <1>5, VerifyRawKeeps
<1>6. CASE Check
  BY <1>6, CheckKeeps
<1>7. CASE CopyErase
  BY <1>7, CopyEraseKeeps
<1>8. CASE CopyBurn
  BY <1>8, CopyBurnKeeps
<1>9. CASE CopyDone
  BY <1>9, CopyDoneKeeps
<1>10. CASE FlashFails
  BY <1>10, FlashFailsKeeps
<1>11. CASE FxProgram
  BY <1>11, FxProgramKeeps
<1>12. CASE FxFails
  BY <1>12, FxFailsKeeps
<1>13. CASE FxDone
  BY <1>13, FxDoneKeeps
<1>14. CASE Erase
  BY <1>14, EraseKeeps
<1>15. CASE Burn
  BY <1>15, BurnKeeps
<1>16. CASE Programmed
  BY <1>16, ProgrammedKeeps
<1>17. CASE DescriptorWords
  BY <1>17, DescriptorWordsKeeps
<1>18. CASE DescriptorMagic
  BY <1>18, DescriptorMagicKeeps
<1>19. CASE DescriptorFails
  BY <1>19, DescriptorFailsKeeps
<1>20. CASE Unmount
  BY <1>20, UnmountKeeps
<1>21. CASE Console
  BY <1>21, ConsoleKeeps
<1>22. QED
  BY <1>1, <1>2, <1>3, <1>4, <1>5, <1>6, <1>7, <1>8, <1>9, <1>10, <1>11, <1>12, <1>13, <1>14,
     <1>15, <1>16, <1>17, <1>18, <1>19, <1>20, <1>21 DEF Next, Process

\* The inductive invariant: where process() is, what it has done to the flash,
\* and where each part of the file and of the image lies meanwhile.
THEOREM InstallInvariant == Spec => []RInv
<1>1. Init => RInv
  BY StartsInvariant
<1>2. RInv /\ [Next]_vars => RInv'
  <2>1. ASSUME RInv, Next PROVE RInv'
    BY <2>1, StepKeeps DEF Kept
  <2>2. ASSUME RInv, UNCHANGED vars PROVE RInv'
    <3>1. UNCHANGED <<upload, status, busy, usb, pc, k, pages, cells, buffer, rep, final, fxrom>>
      BY <2>2 DEF vars
    <3>2. /\ Contents' /\ Committed'
          /\ Capacity' = Capacity /\ Files' = Files /\ Units' = Units /\ Sectors' = Sectors
      BY <2>2, <3>1, Untouched
    <3>3. Types' /\ Placed'
      BY <2>2, <3>1, <3>2 DEF RInv, Types, Placed
    <3>4. QED
      BY <3>2, <3>3 DEF RInv
  <2>3. QED
    BY <2>1, <2>2
<1>3. QED
  BY <1>1, <1>2, PTL DEF Spec

-----------------------------------------------------------------------------
(* What an installed image is.                                             *)

\* A unit of the flash lies in a sector, and that sector is of the device.
LEMMA InItsSector ==
  ASSUME upload \in Uploads, NEW p \in 0 .. Capacity - 1
  PROVE  Sector(p) \in Sectors /\ p \in UnitsOf(Sector(p)) /\ p \in Nat
<1>1. Capacity \in {32, 64, 128, 256, 512}
  BY UploadFacts
<1>2. p \in Nat /\ Sector(p) \in Nat /\ Sector(p) \in Sectors
  BY <1>1 DEF Sectors, Sector, SectorUnits
<1>3. QED
  BY <1>2, UnitsOfIs

LEMMA WholeIsInstalled ==
  ASSUME RInv, Whole
  PROVE  ShowsImage /\ FxShowsImage /\ ReadsBack
<1>1. upload \in Uploads /\ rep \in [Units -> {None} \cup 0 .. Capacity - 1]
  BY DEF RInv, Types
<1>2. \A p \in 0 .. Capacity - 1 : \A o \in ImageSources(p) : cells[p] = o
  BY <1>1, InItsSector DEF Whole, FinalShows
<1>3. ShowsImage
  <2> SUFFICES ASSUME NEW u \in 0 .. BusUnits - 1, HasSource(upload.map, u)
               PROVE  cells[u % Capacity] = SourceOffset(upload.map, upload.size, u)
    BY DEF ShowsImage
  <2>1. u \in 0 .. 511
    BY SMTT(30) DEF BusUnits, MiB
  <2>2. /\ u % Capacity \in 0 .. Capacity - 1
        /\ SourceOffset(upload.map, upload.size, u) \in ImageSources(u % Capacity)
    BY <1>1, <2>1, AddressShown
  <2>3. QED
    BY <1>2, <2>2
<1>4. FxShowsImage
  <2>1. \A f \in 0 .. FxUnits - 1 : f < FxUnits
    BY DEF FxUnits, MiB
  <2>2. QED
    BY <2>1 DEF Whole, FxFilled, FxShowsImage
<1>5. ReadsBack
  <2> SUFFICES ASSUME NEW c \in 0 .. DataAt + upload.size - 1
               PROVE  LET o == FileSource(c) IN
                      IF \E u \in 0 .. BusUnits - 1 :
                           HasSource(upload.map, u) /\ SourceOffset(upload.map, upload.size, u) = o
                      THEN rep[o] # None /\ cells[rep[o]] = o
                      ELSE rep[o] = None
    BY DEF ReadsBack
  <2> DEFINE o == FileSource(c)
             p == rep[o]
  <2>1. o \in Units
    <3> DEFINE n == upload.size
    <3>1. n \in 1 .. 512 /\ DataAt \in {0, 128} /\ (DataAt = 128 => n = 128)
      BY <1>1, UploadFacts
    <3> HIDE DEF n
    <3>2. c \in 0 .. DataAt + n - 1
      BY DEF n
    <3>3. FileSource(c) \in 0 .. n - 1
      BY <3>1, <3>2 DEF FileSource
    <3>4. QED
      BY <3>3 DEF n, Units
  <2> HIDE DEF o
  <2>2. p \in {None} \cup 0 .. Capacity - 1
    BY <1>1, <2>1
  <2>3. p # None => o \in ImageSources(p)
    BY <2>1 DEF Whole, Representing
  <2> HIDE DEF p
  <2>4. CASE \E u \in 0 .. BusUnits - 1 :
               HasSource(upload.map, u) /\ SourceOffset(upload.map, upload.size, u) = o
    <3>1. PICK u \in 0 .. 511 : HasSource(upload.map, u) /\ SourceOffset(upload.map, upload.size, u) = o
      BY <2>4 DEF BusUnits, MiB
    <3>2. u % Capacity \in 0 .. Capacity - 1 /\ o \in ImageSources(u % Capacity)
      BY <1>1, <3>1, AddressShown
    <3>3. p # None
      BY <3>2 DEF Whole, Represents, p
    <3>4. cells[p] = o
      BY <1>2, <2>2, <2>3, <3>3
    <3>5. QED
      BY <2>4, <3>3, <3>4 DEF o, p
  <2>5. CASE ~\E u \in 0 .. BusUnits - 1 :
               HasSource(upload.map, u) /\ SourceOffset(upload.map, upload.size, u) = o
    <3>1. SUFFICES ASSUME p # None PROVE FALSE
      BY <2>5 DEF o, p
    <3>2. p \in 0 .. Capacity - 1 /\ o \in ImageSources(p)
      BY <2>2, <2>3, <3>1
    <3>3. \E u \in 0 .. 511 : HasSource(upload.map, u) /\ SourceOffset(upload.map, upload.size, u) = o
      BY <1>1, <3>2, SourcesAre
    <3>4. QED
      BY <2>5, <3>3 DEF BusUnits, MiB
  <2>6. QED
    BY <2>4, <2>5
<1>6. QED
  BY <1>3, <1>4, <1>5

\* An installation that reports success, and a flash that holds its valid
\* descriptor, show all of the image to the console and to the GSU, and give
\* the host its file back.
THEOREM InstalledHolds == Spec => []Installed
<1>1. RInv => Installed
  <2> SUFFICES ASSUME RInv PROVE Installed
    OBVIOUS
  <2>1. upload \in Uploads /\ (status = "Complete" => Success)
    BY DEF RInv, Types, Contents
  <2>2. CASE upload.type = "Raw"
    BY <2>1, <2>2 DEF Installed, Success
  <2>3. CASE upload.type # "Raw"
    <3>1. status = "Complete" => Whole
      BY <2>1, <2>3 DEF Success
    <3>2. cells[DescriptorCell] = Descriptor => Whole
      <4>1. DescriptorCell \in 0 .. Capacity
        BY <2>1, DescriptorCellIs
      <4>2. QED
        BY <4>1 DEF RInv, Committed, Uncommitted
    <3>3. status = "Complete" \/ cells[DescriptorCell] = Descriptor
             => ShowsImage /\ FxShowsImage /\ ReadsBack
      BY <3>1, <3>2, WholeIsInstalled
    <3>4. QED
      BY <2>3, <3>3 DEF Installed, DescriptorCell
  <2>4. QED
    BY <2>2, <2>3
<1>2. QED
  BY <1>1, InstallInvariant, PTL

-----------------------------------------------------------------------------
(* An abort is final.                                                      *)

\* From an aborted installation no step reports success, and none commits.
LEMMA AbortedStays ==
  ASSUME RInv, Next, status = "Aborted"
  PROVE  status' = "Aborted" /\ cells'[DescriptorCell] # Descriptor
<1>1. /\ upload \in Uploads /\ ~busy /\ pc \notin {"ready", "check", "copy", "words", "magic"}
      /\ (pc = "program" => k = 0) /\ k \in Nat
  <2>1. Types /\ Placed
    BY DEF RInv
  <2>2. QED
    BY <2>1 DEF Types, Placed
<1>2. pc # "done"
  BY DEF Next, Process, Start, Swap, SwapFails, SwapsDone, VerifyRaw, Check, CopyErase, CopyBurn,
         CopyDone, FlashFails, FxProgram, FxFails, FxDone, Erase, Burn, Programmed,
         DescriptorWords, DescriptorMagic, DescriptorFails, Unmount, Served, Console
<1>3. ~Active
  BY <1>1 DEF Active
<1>4. ~Programmed
  <2>1. SUFFICES ASSUME Programmed PROVE FALSE
    OBVIOUS
  <2>2. Len(ProgramOrder) = 0 /\ Len(ProgramOrder) = Sector(Capacity)
    BY <1>1, <2>1, OrderEnumerates DEF Programmed, Enumerates
  <2>3. Capacity \in {32, 64, 128, 256, 512}
    BY <1>1, UploadFacts
  <2>4. QED
    BY <2>2, <2>3 DEF Sector, SectorUnits
<1>5. status' = "Aborted"
  BY <1>1, <1>3, <1>4
     DEF Next, Process, Start, Swap, SwapFails, SwapsDone, VerifyRaw, Check, CopyErase, CopyBurn,
         CopyDone, FlashFails, FxProgram, FxFails, FxDone, Erase, Burn, Burnt,
         DescriptorWords, DescriptorMagic, DescriptorFails, Unmount, Console,
         Continue, Spoilt, Failed, FailedInside, Fail
<1>6. Uncommitted'
  BY <1>1, StepKeeps DEF Kept
<1>7. upload' = upload
  BY DEF Next, Process, Start, Swap, SwapFails, SwapsDone, VerifyRaw, Check, CopyErase, CopyBurn,
         CopyDone, FlashFails, FxProgram, FxFails, FxDone, Erase, Burn, Programmed,
         DescriptorWords, DescriptorMagic, DescriptorFails, Unmount, Console,
         Continue, Complete, Spoilt, Failed, FailedInside, Fail, Go
<1>8. QED
  <2>1. DescriptorCell \in 0 .. Capacity /\ Capacity' = Capacity
    BY <1>1, <1>7, DescriptorCellIs, Fixed
  <2>2. QED
    BY <1>5, <1>6, <2>1 DEF Uncommitted

\* Once the host has disconnected, the installation neither reports success
\* nor commits its map, wherever process() was.
THEOREM AbortFinal == Spec => AbortIsFinal
<1>1. RInv /\ [Next]_vars =>
        [status = "Aborted" =>
           status' = "Aborted" /\ cells'[Min({DescriptorAt, Capacity})] # Descriptor]_vars
  <2>1. ASSUME RInv, Next
        PROVE  status = "Aborted" =>
                 status' = "Aborted" /\ cells'[Min({DescriptorAt, Capacity})] # Descriptor
    BY <2>1, AbortedStays DEF DescriptorCell
  <2>2. QED
    BY <2>1
<1>2. QED
  BY <1>1, InstallInvariant, PTL DEF Spec, AbortIsFinal

-----------------------------------------------------------------------------
(* The swaps end.                                                          *)

LEMMA SwapConverges ==
  ASSUME RInv, Swap
  PROVE  Misplaced' \subseteq Misplaced /\ Misplaced' # Misplaced
<1> DEFINE dest == Min(Misplaced)
<1>1. pages \in [Files -> 0 .. Capacity] /\ upload \in Uploads
  BY DEF RInv, Types
<1>2. dest \in Misplaced
  <2>1. Misplaced \subseteq Files
    BY <1>1 DEF Misplaced
  <2>2. Files \subseteq Nat
    BY <1>1, UploadFacts DEF Files
  <2>3. Misplaced \in SUBSET Nat
    BY <2>1, <2>2
  <2>4. QED
    BY <2>3, LeastOf DEF Swap
<1>3. pages' = Moved(dest, pages[dest])
  BY DEF Swap
<1> HIDE DEF dest
<1>4. /\ DOMAIN pages' = DOMAIN pages /\ pages'[dest] = dest
      /\ \A i \in DOMAIN pages : pages[i] = i => pages'[i] = i
  BY <1>2, <1>3 DEF Moved, Misplaced
<1>5. QED
  BY <1>2, <1>4 DEF Misplaced

\* Every swap brings a page to its place and moves none that is in its place
\* already, so that putting the pages in order ends.
THEOREM SwapsAlwaysConverge == Spec => SwapsConverge
<1>1. RInv /\ [Next]_vars =>
        [pages' # pages => Misplaced' \subseteq Misplaced /\ Misplaced' # Misplaced]_vars
  <2>1. ASSUME RInv, Next, pages' # pages
        PROVE  Misplaced' \subseteq Misplaced /\ Misplaced' # Misplaced
    <3>1. Swap
      BY <2>1
         DEF Next, Process, Start, SwapFails, SwapsDone, VerifyRaw, Check, CopyErase, CopyBurn,
             CopyDone, FlashFails, FxProgram, FxFails, FxDone, Erase, Burn, Programmed,
             DescriptorWords, DescriptorMagic, DescriptorFails, Unmount, Console,
             Spoilt, Failed, FailedInside, Fail, progress
    <3>2. QED
      BY <2>1, <3>1, SwapConverges
  <2>2. QED
    BY <2>1
<1>2. QED
  BY <1>1, InstallInvariant, PTL DEF Spec, SwapsConverge

-----------------------------------------------------------------------------
(* No order of programming overwrites a page that is still needed.         *)

\* Every unit of the flash has at most one unit of the image to show.
Fits == \A p \in 0 .. Capacity - 1 : Cardinality(ImageSources(p)) <= 1

LEMMA SourcesFinite ==
  ASSUME upload \in Uploads, NEW p \in 0 .. Capacity - 1
  PROVE  IsFiniteSet(ImageSources(p))
<1>1. ImageSources(p) \in SUBSET Units
  BY SourcesAre
<1>2. 0 \in Int /\ upload.size - 1 \in Int
  <2>1. upload.size \in 1 .. 512
    BY UploadFacts
  <2>2. QED
    BY <2>1
<1>3. IsFiniteSet(Units)
  BY <1>2, FS_Interval DEF Units
<1>4. QED
  BY <1>1, <1>3, FS_Subset

LEMMA OneSource ==
  ASSUME upload \in Uploads, Fits, NEW p \in 0 .. Capacity - 1,
         NEW a \in ImageSources(p), NEW b \in ImageSources(p)
  PROVE  a = b
<1>1. IsFiniteSet(ImageSources(p)) /\ Cardinality(ImageSources(p)) <= 1
  BY SourcesFinite DEF Fits
<1>2. QED
  BY <1>1, AtMostOne

LEMMA OneSourceOnly ==
  ASSUME upload \in Uploads, Fits, NEW p \in 0 .. Capacity - 1
  PROVE  \A a, b : a \in ImageSources(p) /\ b \in ImageSources(p) => a = b
BY OneSource, Zenon

\* A position is shown itself where the image has it, and else one before it.
LEMMA MirrorIs ==
  ASSUME NEW size \in 1 .. 512, NEW x \in 0 .. 255
  PROVE  /\ MirrorOffset[size][x] \in 0 .. size - 1
         /\ MirrorOffset[size][x] \in 0 .. x
         /\ x < size => MirrorOffset[size][x] = x
<1> DEFINE m == MirrorOffset[size][x]
<1>1. BusUnits = 512
  BY DEF BusUnits, MiB
<1>2. \A s \in 1 .. 512, o \in 0 .. 255 :
        MirrorOffset[s][o] \in 0 .. s - 1 /\ (o < s => MirrorOffset[s][o] = o)
  BY <1>1, MirrorAssumption, Zenon
<1>3. m \in 0 .. size - 1 /\ (x < size => m = x)
  BY <1>2, Zenon
<1> HIDE DEF m
<1>4. m \in 0 .. x
  BY <1>3
<1>5. QED
  BY <1>3, <1>4 DEF m

\* The bus addresses that every map fills.
LEMMA Mapped ==
  ASSUME NEW map \in Maps, NEW u \in 0 .. 511, u \notin 252 .. 255
  PROVE  /\ u \in 128 .. 251 \/ u \in 384 .. 511 => HasSource(map, u)
         /\ u % 2 = 1 \/ map = "Fx3" => HasSource(map, u)
<1>1. u \div 2 \notin {126, 127}
  OBVIOUS
<1>2. u \in 128 .. 251 \/ u \in 384 .. 511 => (u \div 2) % 128 >= 64
  OBVIOUS
<1>3. QED
  BY <1>1, <1>2 DEF HasSource, Bank, UpperHalf

\* A bus address that is the cartridge's whatever the map.
Answered(u) ==
  /\ u \in 0 .. 511
  /\ u \notin 252 .. 255
  /\ u \in 128 .. 251 \/ u \in 384 .. 511 \/ u % 2 = 1

\* Every map has a position of the image for such an address.
LEMMA AnsweredBy ==
  ASSUME NEW map \in Maps, NEW u, Answered(u)
  PROVE  HasSource(map, u)
BY Mapped DEF Answered

\* The parts of a bus address.
Local(u) == Bank(u) % 128

Parts(u) ==
  /\ Bank(u) = u \div 2 /\ Local(u) = (u \div 2) % 128 /\ Local(u) \in 0 .. 127
  /\ 2 * (Local(u) % 64) + (u % 2) = u % 128
  /\ Bank(u) < 128 <=> u < 256
  /\ Local(u) < 64 <=> u % 256 < 128
  /\ u % 256 < 128 => Local(u) = (u % 256) \div 2
  /\ u % 256 >= 128 => 2 * (Local(u) - 64) + (u % 2) = (u % 256) - 128

LEMMA AddressParts ==
  ASSUME NEW u \in 0 .. 511
  PROVE  Parts(u)
<1> DEFINE b == (u \div 2) % 128
<1>a. u \div 2 \in 0 .. 255 /\ u % 2 \in 0 .. 1 /\ u = 2 * (u \div 2) + (u % 2)
  OBVIOUS
<1>b. ASSUME NEW c \in 0 .. 255, NEW h \in 0 .. 1
      PROVE  /\ 2 * ((c % 128) % 64) + h = (2 * c + h) % 128
             /\ (c % 128) = ((2 * c + h) % 256) \div 2
             /\ 2 * (c % 128) + h = (2 * c + h) % 256
  <2>1. c = 64 * (c \div 64) + (c % 64) /\ c % 64 \in 0 .. 63 /\ c \div 64 \in 0 .. 3
    OBVIOUS
  <2>2. (c % 128) % 64 = c % 64
    BY <2>1
  <2>3. 2 * c + h = 128 * (c \div 64) + (2 * (c % 64) + h) /\ 2 * (c % 64) + h \in 0 .. 127
    BY <2>1
  <2>4. (2 * c + h) % 128 = 2 * (c % 64) + h
    BY <2>1, <2>3
  <2>5. c = 128 * (c \div 128) + (c % 128) /\ c % 128 \in 0 .. 127 /\ c \div 128 \in 0 .. 1
    OBVIOUS
  <2>6. 2 * c + h = 256 * (c \div 128) + (2 * (c % 128) + h) /\ 2 * (c % 128) + h \in 0 .. 255
    BY <2>5
  <2>7. (2 * c + h) % 256 = 2 * (c % 128) + h
    BY <2>5, <2>6
  <2>8. (2 * (c % 128) + h) \div 2 = c % 128
    BY <2>5
  <2>9. QED
    BY <2>2, <2>4, <2>7, <2>8
<1>c. 2 * (b % 64) + (u % 2) = u % 128 /\ b = (u % 256) \div 2 /\ 2 * b + (u % 2) = u % 256
  BY <1>a, <1>b
<1>1. 2 * (b % 64) + (u % 2) = u % 128
  BY <1>c
<1>2. u \div 2 < 128 <=> u < 256
  OBVIOUS
<1>3. b < 64 <=> u % 256 < 128
  OBVIOUS
<1>4. u % 256 < 128 => b = (u % 256) \div 2
  BY <1>c
<1>5. u % 256 >= 128 => 2 * (b - 64) + (u % 2) = (u % 256) - 128
  BY <1>a, <1>c
<1>6. b \in 0 .. 127
  OBVIOUS
<1>7. b = Local(u) /\ Bank(u) = u \div 2
  BY DEF Local, Bank
<1>8. QED
  BY <1>1, <1>2, <1>3, <1>4, <1>5, <1>6, <1>7 DEF Parts

\* The position that each map asks for.
LEMMA LoRomIs ==
  ASSUME NEW u \in 0 .. 511
  PROVE  Linear("LoRom", u) = (u \div 2) % 128
BY DEF Linear, Bank
LEMMA HiRomIs ==
  ASSUME NEW u \in 0 .. 511
  PROVE  Linear("HiRom", u) = u % 128
<1>1. Linear("HiRom", u) = 2 * (Local(u) % 64) + (u % 2)
  BY DEF Linear, Local
<1>2. 2 * (Local(u) % 64) + (u % 2) = u % 128
  <2>1. Parts(u)
    BY AddressParts
  <2>2. QED
    BY <2>1 DEF Parts
<1>3. QED
  BY <1>1, <1>2, ZenonT(60)
LEMMA ExLoRomIs ==
  ASSUME NEW u \in 0 .. 511
  PROVE  Linear("ExLoRom", u) = ((u \div 2) + 128) % 256
BY DEF Linear, Bank
LEMMA ExHiRomIs ==
  ASSUME NEW u \in 0 .. 511
  PROVE  Linear("ExHiRom", u) = (u % 128) + (IF u < 256 THEN 128 ELSE 0)
<1>1. Linear("ExHiRom", u) = 2 * (Local(u) % 64) + (u % 2) + (IF Bank(u) < 128 THEN 128 ELSE 0)
  BY SMTT(30) DEF Linear, Local, MiB
<1>2. 2 * (Local(u) % 64) + (u % 2) = u % 128 /\ (Bank(u) < 128 <=> u < 256)
  <2>1. Parts(u)
    BY AddressParts
  <2>2. QED
    BY <2>1 DEF Parts
<1>3. QED
  BY <1>1, <1>2, Zenon
LEMMA Fx3Is ==
  ASSUME NEW u \in 0 .. 511
  PROVE  /\ u % 256 >= 128 => Linear("Fx3", u) = (u % 256) - 128
         /\ u % 256 < 128 => Linear("Fx3", u) = (u % 256) \div 2
<1>1. Linear("Fx3", u) = IF Local(u) < 64 THEN Local(u) ELSE 2 * (Local(u) - 64) + (u % 2)
  BY SMTT(30) DEF Linear, Local
<1>2. /\ (Local(u) < 64 <=> u % 256 < 128)
      /\ u % 256 < 128 => Local(u) = (u % 256) \div 2
      /\ u % 256 >= 128 => 2 * (Local(u) - 64) + (u % 2) = (u % 256) - 128
  <2>1. Parts(u)
    BY AddressParts
  <2>2. QED
    BY <2>1 DEF Parts
<1>3. u % 256 >= 128 => ~(u % 256 < 128)
  OBVIOUS
<1>4. QED
  BY <1>1, <1>2, <1>3, Zenon
\* The unit of the image at a position; bus address u asks place q for position x.
Offered(x) == MirrorOffset[upload.size][x]
Asks(u, x, q) ==
  /\ u \in 0 .. 511 /\ HasSource(upload.map, u)
  /\ x \in 0 .. 255 /\ x = Linear(upload.map, u)
  /\ q = u % Capacity

Shows(q, o) ==
  \E u \in 0 .. 511, x \in 0 .. 255 : Asks(u, x, q) /\ o = Offered(x) /\ o \in 0 .. x

LEMMA OfferedIs ==
  ASSUME upload \in Uploads, NEW x \in 0 .. 255
  PROVE  /\ Offered(x) \in 0 .. upload.size - 1
         /\ Offered(x) \in 0 .. x
         /\ x < upload.size => Offered(x) = x
<1> DEFINE size == upload.size
<1>1. size \in 1 .. 512
  BY UploadFacts
<1> HIDE DEF size
<1>2. /\ MirrorOffset[size][x] \in 0 .. size - 1
      /\ MirrorOffset[size][x] \in 0 .. x
      /\ x < size => MirrorOffset[size][x] = x
  BY <1>1, MirrorIs, Zenon
<1>3. QED
  BY <1>2 DEF size, Offered

\* What a bus address asks for is shown by the place that answers, and nothing else.
LEMMA Shown ==
  ASSUME upload \in Uploads, NEW u, NEW x, NEW q, Asks(u, x, q)
  PROVE  /\ Offered(x) \in ImageSources(q)
         /\ x < upload.size => x \in ImageSources(q)
         /\ q \in 0 .. Capacity - 1
<1>1. u \in 0 .. 511 /\ HasSource(upload.map, u)
  BY DEF Asks
<1>2. /\ SourceOffset(upload.map, upload.size, u) \in ImageSources(u % Capacity)
      /\ u % Capacity \in 0 .. Capacity - 1
  BY <1>1, AddressShown, ZenonT(60)
<1>3. Offered(x) \in ImageSources(q) /\ q \in 0 .. Capacity - 1 /\ x \in 0 .. 255
  BY <1>2 DEF Asks, SourceOffset, Offered
<1>4. x < upload.size => Offered(x) = x
  BY <1>3, OfferedIs
<1>5. QED
  BY <1>3, <1>4

LEMMA ShownOnly ==
  ASSUME upload \in Uploads, NEW p \in 0 .. Capacity - 1, NEW o \in ImageSources(p)
  PROVE  Shows(p, o)
<1>1. Capacity \in {32, 64, 128, 256, 512} /\ upload.map \in Maps
  BY UploadFacts
<1>2. PICK u \in Aliases(Capacity, p) :
             HasSource(upload.map, u) /\ SourceOffset(upload.map, upload.size, u) = o
  BY DEF ImageSources, Sources
<1>3. PICK n \in 0 .. (512 \div Capacity) - 1 : u = p + n * Capacity
  BY <1>2 DEF Aliases, BusUnits, MiB
<1>4. u \in 0 .. 511 /\ u % Capacity = p
  <2>1. CASE Capacity = 32
    BY <1>3, <2>1
  <2>2. CASE Capacity = 64
    BY <1>3, <2>2
  <2>3. CASE Capacity = 128
    BY <1>3, <2>3
  <2>4. CASE Capacity = 256
    BY <1>3, <2>4
  <2>5. CASE Capacity = 512
    BY <1>3, <2>5
  <2>6. QED
    BY <1>1, <2>1, <2>2, <2>3, <2>4, <2>5
<1>5. Linear(upload.map, u) \in 0 .. 255
  <2> DEFINE map == upload.map
  <2>1. map \in Maps /\ u \in 0 .. 511
    BY <1>1, <1>4, SMTT(30)
  <2> HIDE DEF map
  <2>2. Linear(map, u) \in 0 .. 255
    BY <2>1, LinearInBus
  <2>3. QED
    BY <2>2 DEF map
<1> DEFINE x == Linear(upload.map, u)
<1>6. Asks(u, x, p) /\ o = Offered(x)
  BY <1>2, <1>4, <1>5 DEF SourceOffset, Asks, Offered
<1>7. x \in 0 .. 255
  BY <1>5
<1> HIDE DEF x
<1>8. o \in 0 .. x
  BY <1>6, <1>7, OfferedIs
<1>9. QED
  BY <1>4, <1>6, <1>7, <1>8, Zenon DEF Shows

LEMMA PlainNumbers ==
  ASSUME NEW u \in 0 .. 511
  PROVE  /\ (u \div 2) % 128 \in 0 .. 127 /\ u % 128 \in 0 .. 127
         /\ u % 256 >= 128 => (u % 256) - 128 \in 0 .. 127
         /\ u % 256 < 128 => (u % 256) \div 2 \in 0 .. 127
         /\ u % 256 >= 128 \/ u % 256 < 128
OBVIOUS

PlainMaps == {"LoRom", "HiRom", "Fx3"}
ExtendedMaps == {"ExLoRom", "ExHiRom"}

LEMMA PlainLinear ==
  ASSUME NEW map \in PlainMaps, NEW u \in 0 .. 511
  PROVE  Linear(map, u) \in 0 .. 127
<1>1. CASE map = "LoRom"
  <2>1. Linear("LoRom", u) \in 0 .. 127
    BY LoRomIs, PlainNumbers
  <2>2. QED
    BY <1>1, <2>1
<1>2. CASE map = "HiRom"
  <2>1. Linear("HiRom", u) \in 0 .. 127
    BY HiRomIs, PlainNumbers
  <2>2. QED
    BY <1>2, <2>1
<1>3. CASE map = "Fx3"
  <2>a. /\ u % 256 >= 128 => Linear("Fx3", u) = (u % 256) - 128
        /\ u % 256 < 128 => Linear("Fx3", u) = (u % 256) \div 2
    BY Fx3Is
  <2>1. Linear("Fx3", u) \in 0 .. 127
    <3>1. /\ u % 256 >= 128 => (u % 256) - 128 \in 0 .. 127
          /\ u % 256 < 128 => (u % 256) \div 2 \in 0 .. 127
          /\ u % 256 >= 128 \/ u % 256 < 128
      BY PlainNumbers
    <3>2. CASE u % 256 >= 128
      BY <2>a, <3>1, <3>2, SMT
    <3>3. CASE u % 256 < 128
      BY <2>a, <3>1, <3>3, SMT
    <3>4. QED
      BY <3>1, <3>2, <3>3, Zenon
  <2>2. QED
    BY <1>3, <2>1
<1>4. QED
  BY <1>1, <1>2, <1>3 DEF PlainMaps

LEMMA UpToBound ==
  ASSUME NEW x \in 0 .. 127, NEW o \in 0 .. x
  PROVE  o \in 0 .. 127
OBVIOUS

LEMMA PlainPositions ==
  ASSUME upload \in Uploads, upload.map \in PlainMaps,
         NEW p \in 0 .. Capacity - 1, NEW o \in ImageSources(p)
  PROVE  o \in 0 .. 127
<1>1. Shows(p, o)
  BY ShownOnly, Zenon
<1>2. PICK u \in 0 .. 511, x \in 0 .. 255 : Asks(u, x, p) /\ o = Offered(x) /\ o \in 0 .. x
  BY <1>1, Zenon DEF Shows
<1>3. x = Linear(upload.map, u)
  BY <1>2 DEF Asks
<1>4. Linear(upload.map, u) \in 0 .. 127
  BY PlainLinear, Zenon
<1>5. x \in 0 .. 127 /\ o \in 0 .. x
  BY <1>2, <1>3, <1>4, Zenon
<1>6. QED
  BY <1>5, UpToBound, Zenon

LEMMA ExtendedLinear ==
  ASSUME NEW map \in ExtendedMaps, NEW u \in 0 .. 511, u >= 256
  PROVE  Linear(map, u) \in 0 .. 127
<1>1. CASE map = "ExLoRom"
  <2>1. ((u \div 2) + 128) % 256 \in 0 .. 127
    OBVIOUS
  <2>2. Linear("ExLoRom", u) \in 0 .. 127
    BY <2>1, ExLoRomIs
  <2>3. QED
    BY <1>1, <2>2
<1>2. CASE map = "ExHiRom"
  <2>1. (u % 128) + (IF u < 256 THEN 128 ELSE 0) \in 0 .. 127
    OBVIOUS
  <2>2. Linear("ExHiRom", u) \in 0 .. 127
    BY <2>1, ExHiRomIs
  <2>3. QED
    BY <1>2, <2>2
<1>3. QED
  BY <1>1, <1>2 DEF ExtendedMaps

\* What place p shows when it answers one address only, on the largest device.
\* What an extended map asks of the lower and of the upper half of the bus.
Within(p, o) == o \in 0 .. 255 /\ (p >= 256 => o \in 0 .. 127)
OnLargest(p) == Capacity = 512 /\ p \in 0 .. 511

LEMMA ExtendedPositions ==
  ASSUME upload \in Uploads, upload.map \in ExtendedMaps,
         NEW p, OnLargest(p), NEW o \in ImageSources(p)
  PROVE  Within(p, o)
<1>a. Capacity = 512 /\ p \in 0 .. 511
  BY DEF OnLargest
<1>0. p \in 0 .. Capacity - 1
  BY <1>a
<1>1. Shows(p, o)
  BY <1>0, ShownOnly, Zenon
<1>2. PICK u \in 0 .. 511, x \in 0 .. 255 : Asks(u, x, p) /\ o = Offered(x) /\ o \in 0 .. x
  BY <1>1, Zenon DEF Shows
<1>3. u = p
  <2>1. p = u % 512
    BY <1>2, <1>a DEF Asks
  <2>2. u % 512 = u
    OBVIOUS
  <2>3. QED
    BY <2>1, <2>2, Zenon
<1>4. x = Linear(upload.map, u) /\ o \in 0 .. x
  BY <1>2 DEF Asks
<1>5. p >= 256 => x \in 0 .. 127
  <2>1. p >= 256 => Linear(upload.map, p) \in 0 .. 127
    BY <1>a, ExtendedLinear, Zenon
  <2>2. QED
    BY <1>3, <1>4, <2>1, Zenon
<1>6. p >= 256 => o \in 0 .. 127
  BY <1>4, <1>5, UpToBound, Zenon
<1>7. o \in 0 .. 255
  BY <1>4
<1>8. QED
  BY <1>6, <1>7 DEF Within

\* What is programmed is part of the flash.
LEMMA DoneInFlash ==
  ASSUME upload \in Uploads, k \in Nat, k < Len(ProgramOrder)
  PROVE  Done(k) \subseteq Sectors
<1> DEFINE n == Sector(Capacity)
           q == ProgramOrder
<1>1. n \in Nat
  BY UploadFacts DEF Sector, SectorUnits
<1>2. Enumerates(q, n)
  BY OrderEnumerates
<1> HIDE DEF n, q
<1>3. Len(q) = n /\ \A i \in 1 .. n : q[i] \in 0 .. n - 1
  BY <1>2 DEF Enumerates
<1>4. k < n
  BY <1>3 DEF q
<1>5. \A i \in 1 .. k : i \in 1 .. n
  BY <1>1, <1>4
<1>6. QED
  BY <1>3, <1>5 DEF Done, Sectors, n, q

\* LoROM: the sectors programmed are those above the current one.
LEMMA DownDone ==
  ASSUME upload \in Uploads, upload.map = "LoRom", k \in Nat, k < Len(ProgramOrder),
         NEW s \in Done(k)
  PROVE  s > Current
<1> DEFINE n == Sector(Capacity)
           q == Down(0, 4 * n)
<1>1. n \in Nat /\ Capacity = 4 * n
  <2>1. Capacity \in {32, 64, 128, 256, 512}
    BY UploadFacts
  <2>2. QED
    BY <2>1 DEF Sector, SectorUnits
<1>2. ProgramOrder = q
  <2>1. ProgramOrder = Down(0, Capacity)
    BY DEF ProgramOrder
  <2>2. QED
    BY <1>1, <2>1
<1> HIDE DEF n
<1>3. Len(q) = n /\ \A i \in 1 .. n : q[i] = n - i
  BY <1>1, DownIs
<1> HIDE DEF q
<1>4. k + 1 \in 1 .. n /\ Current = q[k + 1]
  BY <1>1, <1>2, <1>3 DEF Current
<1>5. PICK i \in 1 .. k : s = q[i]
  BY <1>2 DEF Done
<1>6. i \in 1 .. n /\ q[i] = n - i /\ q[k + 1] = n - (k + 1)
  BY <1>1, <1>3, <1>4
<1>7. QED
  BY <1>1, <1>4, <1>5, <1>6

\* The upper half first: what is programmed before a sector of each half.
LEMMA HalvesDone ==
  ASSUME k \in Nat, k < Len(ProgramOrder), NEW h \in Nat, Capacity = 8 * h,
         ProgramOrder = Up(4 * h, 8 * h) \o Up(0, 4 * h)
  PROVE  /\ Current \in 0 .. 2 * h - 1
         /\ Current >= h => \A s \in Done(k) : s >= h
         /\ Current < h => \A s \in 0 .. 2 * h - 1 : s \in Done(k) <=> s >= h \/ s < Current
<1> DEFINE q == Up(4 * h, 8 * h) \o Up(0, 4 * h)
<1>1. /\ Len(q) = 2 * h
      /\ \A i \in 1 .. 2 * h : i <= h => q[i] = h + i - 1
      /\ \A i \in 1 .. 2 * h : i > h => q[i] = i - h - 1
  BY HalvesOrder
<1>2. ProgramOrder = q
  OBVIOUS
<1> HIDE DEF q
<1>3. k + 1 \in 1 .. 2 * h /\ Current = q[k + 1]
  <2>1. Len(ProgramOrder) = 2 * h
    BY <1>1, <1>2
  <2>2. k + 1 \in 1 .. 2 * h
    BY <2>1
  <2>3. QED
    BY <1>2, <2>2 DEF Current
<1>4. \A s : s \in Done(k) <=> \E i \in 1 .. k : s = q[i]
  BY <1>2 DEF Done
<1>5. k + 1 <= h => Current = h + k
  BY <1>1, <1>3
<1>6. k + 1 > h => Current = k - h
  BY <1>1, <1>3
<1>7. Current \in 0 .. 2 * h - 1
  BY <1>3, <1>5, <1>6
<1>8. ASSUME Current >= h, NEW s \in Done(k)
      PROVE  s >= h
  <2>1. k + 1 <= h
    BY <1>3, <1>6, <1>8
  <2>2. PICK i \in 1 .. k : s = q[i]
    BY <1>4, <1>8
  <2>3. i \in 1 .. 2 * h /\ i <= h
    BY <1>3, <2>1
  <2>4. q[i] = h + i - 1
    BY <1>1, <2>3
  <2>5. QED
    BY <2>2, <2>3, <2>4
<1>9. ASSUME Current < h, NEW s \in 0 .. 2 * h - 1
      PROVE  s \in Done(k) <=> s >= h \/ s < Current
  <2>1. k + 1 > h /\ Current = k - h
    BY <1>3, <1>5, <1>6, <1>9
  <2>2. ASSUME NEW i \in 1 .. k
        PROVE  /\ i <= h => q[i] >= h
               /\ i > h => q[i] < Current
    <3>1. i \in 1 .. 2 * h
      BY <1>3
    <3>2. i <= h => q[i] = h + i - 1
      BY <1>1, <3>1
    <3>3. i > h => q[i] = i - h - 1
      BY <1>1, <3>1
    <3>4. QED
      BY <2>1, <3>2, <3>3
  <2>3. ASSUME s \in Done(k)
        PROVE  s >= h \/ s < Current
    <3>1. PICK i \in 1 .. k : s = q[i]
      BY <1>4, <2>3
    <3>2. QED
      BY <2>2, <3>1
  <2>4. CASE s >= h
    <3>1. s - h + 1 \in 1 .. 2 * h /\ s - h + 1 <= h /\ s - h + 1 \in 1 .. k
      BY <2>1, <2>4
    <3>2. q[s - h + 1] = h + (s - h + 1) - 1
      BY <1>1, <3>1
    <3>3. q[s - h + 1] = s
      BY <3>2
    <3>4. s \in Done(k)
      BY <1>4, <3>1, <3>3
    <3>5. QED
      BY <2>4, <3>4
  <2>5. CASE s < Current
    <3>1. s + h + 1 \in 1 .. 2 * h /\ s + h + 1 > h /\ s + h + 1 \in 1 .. k
      BY <1>3, <2>1, <2>5
    <3>2. q[s + h + 1] = (s + h + 1) - h - 1
      BY <1>1, <3>1
    <3>3. q[s + h + 1] = s
      BY <3>2
    <3>4. s \in Done(k)
      BY <1>4, <3>1, <3>3
    <3>5. QED
      BY <2>5, <3>4
  <2>6. QED
    BY <2>3, <2>4, <2>5
<1>10. QED
  BY <1>7, <1>8, <1>9

\* The maps and devices that are programmed with the upper half first.
LEMMA UpperHalfFirst ==
  ASSUME upload \in Uploads, k \in Nat, k < Len(ProgramOrder), NEW h \in {32, 64}, Capacity = 8 * h,
         \/ upload.map \in {"ExLoRom", "ExHiRom"}
         \/ upload.map = "HiRom" /\ Capacity = 256
         \/ upload.map = "Fx3" /\ DataAt < 4 * h
  PROVE  /\ Current \in 0 .. 2 * h - 1
         /\ Current >= h => \A s \in Done(k) : s >= h
         /\ Current < h => \A s \in 0 .. 2 * h - 1 : s \in Done(k) <=> s >= h \/ s < Current
<1>1. Capacity \div 2 = 4 * h /\ 4 * h # 0 /\ h \in Nat
  OBVIOUS
<1>2. CASE upload.map \in {"ExLoRom", "ExHiRom"}
  <2>1. ProgramOrder = Up(4 * h, 8 * h) \o Up(0, 4 * h)
    BY <1>1, <1>2 DEF ProgramOrder
  <2>2. QED
    BY <1>1, <2>1, HalvesDone
<1>3. CASE upload.map = "HiRom" /\ Capacity = 256
  <2>1. ProgramOrder = Up(128, 256) \o Up(0, 128)
    BY <1>3, HiRomHalves
  <2>2. 4 * h = 128 /\ 8 * h = 256
    BY <1>3
  <2>3. ProgramOrder = Up(4 * h, 8 * h) \o Up(0, 4 * h)
    BY <2>1, <2>2
  <2>4. QED
    BY <1>1, <2>3, HalvesDone
<1>4. CASE upload.map = "Fx3" /\ DataAt < 4 * h
  <2>1. DataAt \in Nat
    BY UploadFacts
  <2>2. ~(DataAt >= Capacity \div 2) /\ Capacity \div 2 # 0
    BY <1>1, <1>4, <2>1
  <2>a. ProgramOrder = Up(Capacity \div 2, Capacity) \o Up(0, Capacity \div 2)
    BY <1>4, <2>2 DEF ProgramOrder
  <2>3. ProgramOrder = Up(4 * h, 8 * h) \o Up(0, 4 * h)
    BY <1>1, <2>a
  <2>4. QED
    BY <1>1, <2>3, HalvesDone
<1>5. QED
  BY <1>2, <1>3, <1>4

\* The quarters that come first.
LEMMA QuarterOf ==
  \A i \in 1 .. 128 : Quarters[i] \in Nat /\ (i <= 64 <=> Quarters[i] % 64 >= 32)
<1> DEFINE q == Quarters
<1>1. \A i \in 1 .. 128 :
        \/ i <= 32 /\ q[i] = i + 31
        \/ i > 32 /\ i <= 64 /\ q[i] = i + 63
        \/ i > 64 /\ i <= 96 /\ q[i] = i - 65
        \/ i > 96 /\ q[i] = i - 33
  BY QuartersOrder
<1> HIDE DEF q
<1>2. ASSUME NEW i \in 1 .. 128
      PROVE  q[i] \in Nat /\ (i <= 64 <=> q[i] % 64 >= 32)
  <2>1. CASE i <= 32
    <3>1. q[i] = i + 31
      BY <1>1, <2>1
    <3>2. QED
      BY <2>1, <3>1
  <2>2. CASE i > 32 /\ i <= 64
    <3>1. q[i] = i + 63
      BY <1>1, <2>2
    <3>2. QED
      BY <2>2, <3>1
  <2>3. CASE i > 64 /\ i <= 96
    <3>1. q[i] = i - 65
      BY <1>1, <2>3
    <3>2. QED
      BY <2>3, <3>1
  <2>4. CASE i > 96
    <3>1. q[i] = i - 33
      BY <1>1, <2>4
    <3>2. QED
      BY <2>4, <3>1
  <2>5. QED
    BY <2>1, <2>2, <2>3, <2>4
<1>3. QED
  BY <1>2 DEF q

ComesFirst(s) == \E i \in 1 .. 64 : s = Quarters[i]

LEMMA QuarterAt ==
  ASSUME NEW s \in 0 .. 127, s % 64 >= 32
  PROVE  ComesFirst(s)
<1> DEFINE q == Quarters
<1>1. \A i \in 1 .. 128 :
        \/ i <= 32 /\ q[i] = i + 31
        \/ i > 32 /\ i <= 64 /\ q[i] = i + 63
        \/ i > 64 /\ i <= 96 /\ q[i] = i - 65
        \/ i > 96 /\ q[i] = i - 33
  BY QuartersOrder
<1> HIDE DEF q
<1>3. \E i \in 1 .. 64 : s = q[i]
  <2>1. CASE s < 64
    <3>1. s >= 32 /\ s - 31 \in 1 .. 64 /\ s - 31 \in 1 .. 128 /\ s - 31 <= 32
      BY <2>1
    <3>2. q[s - 31] = s
      BY <1>1, <3>1
    <3>3. QED
      BY <3>1, <3>2
  <2>2. CASE s >= 64
    <3>1. s >= 96 /\ s - 63 \in 1 .. 64 /\ s - 63 \in 1 .. 128 /\ s - 63 > 32
      BY <2>2
    <3>2. q[s - 63] = s
      BY <1>1, <3>1
    <3>3. QED
      BY <3>1, <3>2
  <2>3. QED
    BY <2>1, <2>2
<1>4. QED
  BY <1>3 DEF q, ComesFirst

\* HiROM on the larger devices: the odd quarters first.
LEMMA OddQuartersFirst ==
  ASSUME upload \in Uploads, k \in Nat, k < Len(ProgramOrder),
         upload.map = "HiRom", Capacity \in {256, 512}
  PROVE  /\ Current \in Nat
         /\ Current % 64 >= 32 => \A s \in Done(k) : s % 64 >= 32
         /\ Current % 64 < 32 => \A s \in Sectors : s % 64 >= 32 => s \in Done(k)
<1>1. CASE Capacity = 256
  <2> DEFINE h == 32
  <2>1. h \in {32, 64} /\ Capacity = 8 * h
    BY <1>1
  <2>2. Sectors = 0 .. 63
    BY <1>1 DEF Sectors, Sector, SectorUnits
  <2>a. Done(k) \subseteq Sectors
    BY DoneInFlash
  <2>3. /\ Current \in 0 .. 2 * h - 1
        /\ Current >= h => \A s \in Done(k) : s >= h
        /\ Current < h => \A s \in 0 .. 2 * h - 1 : s \in Done(k) <=> s >= h \/ s < Current
    <3> HIDE DEF h
    <3>1. QED
      BY <1>1, <2>1, UpperHalfFirst
  <2>4. /\ Current \in 0 .. 63
        /\ Current >= 32 => \A s \in Done(k) : s >= 32
        /\ Current < 32 => \A s \in 0 .. 63 : s >= 32 => s \in Done(k)
    BY <2>3
  <2>5. \A s \in 0 .. 63 : s % 64 = s
    OBVIOUS
  <2>6. Current \in 0 .. 63 /\ Current % 64 = Current
    BY <2>4, <2>5, Zenon
  <2>b. Current \in Nat
    BY <2>6
  <2>7. ASSUME Current % 64 >= 32, NEW s \in Done(k)
        PROVE  s % 64 >= 32
    <3>1. Current >= 32
      BY <2>6, <2>7
    <3>2. s >= 32
      BY <2>4, <3>1, Zenon
    <3>3. s \in 0 .. 63
      BY <2>2, <2>a
    <3>4. s % 64 = s
      BY <2>5, <3>3, Zenon
    <3>5. QED
      BY <3>2, <3>4
  <2>8. ASSUME Current % 64 < 32, NEW s \in Sectors, s % 64 >= 32
        PROVE  s \in Done(k)
    <3>1. Current < 32
      BY <2>6, <2>8
    <3>2. s \in 0 .. 63
      BY <2>2
    <3>3. s % 64 = s
      BY <2>5, <3>2, Zenon
    <3>4. s >= 32
      BY <2>8, <3>3
    <3>5. QED
      BY <2>4, <3>1, <3>2, <3>4, Zenon
  <2>9. QED
    BY <2>b, <2>7, <2>8, Zenon
<1>2. CASE Capacity = 512
  <2>1. ProgramOrder = Quarters
    BY <1>2 DEF ProgramOrder, MiB, Quarters
  <2>2. Sectors = 0 .. 127
    BY <1>2 DEF Sectors, Sector, SectorUnits
  <2>3. k < 128 /\ Current = Quarters[k + 1]
    <3>1. Len(ProgramOrder) = 128
      BY <2>1, QuartersOrder
    <3>2. QED
      BY <2>1, <3>1 DEF Current
  <2>4. \A s : s \in Done(k) <=> \E i \in 1 .. k : s = Quarters[i]
    BY <2>1 DEF Done
  <2>5. \A i \in 1 .. 128 : Quarters[i] \in Nat /\ (i <= 64 <=> Quarters[i] % 64 >= 32)
    BY QuarterOf, Zenon
  <2>6. k + 1 \in 1 .. 128 /\ \A i \in 1 .. k : i \in 1 .. 128
    BY <2>3
  <2>7. Current \in Nat /\ (k + 1 <= 64 <=> Current % 64 >= 32)
    <3> DEFINE i == k + 1
    <3>1. i \in 1 .. 128
      BY <2>6
    <3> HIDE DEF i
    <3>2. Quarters[i] \in Nat /\ (i <= 64 <=> Quarters[i] % 64 >= 32)
      BY <2>5, <3>1, ZenonT(60)
    <3>3. QED
      BY <2>3, <3>2 DEF i
  <2>8. ASSUME Current % 64 >= 32, NEW s \in Done(k)
        PROVE  s % 64 >= 32
    <3>1. PICK i \in 1 .. k : s = Quarters[i]
      BY <2>4, <2>8
    <3>2. i \in 1 .. 128 /\ i <= 64
      BY <2>6, <2>7, <2>8
    <3>3. QED
      BY <2>5, <3>1, <3>2, ZenonT(60)
  <2>9. ASSUME Current % 64 < 32, NEW s \in Sectors, s % 64 >= 32
        PROVE  s \in Done(k)
    <3>1. k + 1 > 64
      BY <2>6, <2>7, <2>9
    <3>a. s \in 0 .. 127
      BY <2>2
    <3>b. s % 64 >= 32
      BY <2>9
    <3>c. ComesFirst(s)
      BY <3>a, <3>b, QuarterAt
    <3>2. PICK i \in 1 .. 64 : s = Quarters[i]
      BY <3>c DEF ComesFirst
    <3>3. i \in 1 .. k
      BY <3>1
    <3>4. QED
      BY <2>4, <3>2, <3>3
  <2>10. QED
    BY <2>7, <2>8, <2>9
<1>3. QED
  BY <1>1, <1>2

LEMMA BelowSize ==
  ASSUME NEW n \in 1 .. 512, NEW o \in 0 .. n - 1
  PROVE  o < n
OBVIOUS

\* The place p of the sector to be programmed, and o of the image which it shows.
LEMMA AtCurrent ==
  ASSUME upload \in Uploads, k \in Nat, k < Len(ProgramOrder),
         NEW p \in UnitsOf(Current), NEW o \in ImageSources(p)
  PROVE  /\ p \in 0 .. Capacity - 1 /\ Sector(p) = Current
         /\ o \in 0 .. upload.size - 1 /\ upload.size \in 1 .. 512 /\ o < upload.size
         /\ Capacity \in {32, 64, 128, 256, 512} /\ DataAt + upload.size <= Capacity
         /\ DataAt \in {0, 128} /\ (DataAt = 128 => upload.map = "Fx3" /\ upload.size = 128)
<1>1. /\ upload.size \in 1 .. 512 /\ Capacity \in {32, 64, 128, 256, 512} /\ DataAt \in {0, 128}
      /\ (DataAt = 128 => upload.map = "Fx3" /\ upload.size = 128) /\ DataAt + upload.size <= Capacity
  BY UploadFacts, ImageFits
<1>2. p \in 0 .. Capacity - 1 /\ Sector(p) = Current
  BY CurrentIs, SectorInFlash
<1>3. o \in 0 .. upload.size - 1
  <2>1. ImageSources(p) \subseteq Units
    BY <1>2, SourcesAre
  <2>2. QED
    BY <2>1 DEF Units
<1>a. upload.size \in 1 .. 512
  BY <1>1
<1>4. o < upload.size
  BY <1>3, <1>a, BelowSize, Zenon
<1>5. QED
  BY <1>1, <1>2, <1>3, <1>4

LEMMA PlainCurrent ==
  ASSUME upload \in Uploads, k \in Nat, k < Len(ProgramOrder), upload.map \in PlainMaps,
         NEW p \in UnitsOf(Current), NEW o \in ImageSources(p)
  PROVE  o \in 0 .. 127
<1>1. p \in 0 .. Capacity - 1
  BY AtCurrent
<1>2. QED
  BY <1>1, PlainPositions, Zenon

LEMMA SectorIs == \A c \in Nat : Sector(c) = c \div 4
BY DEF Sector, SectorUnits

LEMMA MapsAre ==
  "LoRom" \in Maps /\ "HiRom" \in Maps /\ "ExLoRom" \in Maps /\ "ExHiRom" \in Maps /\ "Fx3" \in Maps
BY DEF Maps

SmallSizes == {32, 64, 128}

\* The upper halves w and q of the banks of a bus address u and of its place p,
\* which is in bank y.
Odd(c, u, p, w, q, y) ==
  /\ w \in 0 .. 511 /\ (w \div 2) = (u \div 2) /\ (w % 2) = 1 /\ (w % c) = q
  /\ q \in 0 .. c - 1 /\ q \in 0 .. 127 /\ (q % 2) = 1 /\ (q % c) = q
  /\ (q \div 2) = y /\ y \in 0 .. 63 /\ y <= p

LEMMA HalvesOf ==
  ASSUME NEW n \in Nat
  PROVE  /\ (2 * (n \div 2) + 1) \div 2 = n \div 2
         /\ (2 * (n \div 2) + 1) % 2 = 1
         /\ n \div 2 \in Nat /\ 2 * (n \div 2) <= n /\ n <= 2 * (n \div 2) + 1
OBVIOUS

\* A remainder by an even number keeps the half of the bank.
LEMMA HalvesOfRemainder ==
  ASSUME NEW u \in 0 .. 511
  PROVE  /\ (2 * (u \div 2) + 1) % 32 = 2 * ((u % 32) \div 2) + 1
         /\ (2 * (u \div 2) + 1) % 64 = 2 * ((u % 64) \div 2) + 1
         /\ (2 * (u \div 2) + 1) % 128 = 2 * ((u % 128) \div 2) + 1
<1>1. (2 * (u \div 2) + 1) % 32 = 2 * ((u % 32) \div 2) + 1
  OBVIOUS
<1>2. (2 * (u \div 2) + 1) % 64 = 2 * ((u % 64) \div 2) + 1
  OBVIOUS
<1>3. (2 * (u \div 2) + 1) % 128 = 2 * ((u % 128) \div 2) + 1
  OBVIOUS
<1>4. QED
  BY <1>1, <1>2, <1>3

\* On the smaller devices a place answers the upper half of its bank, too.
LEMMA OddPlace ==
  ASSUME NEW c \in SmallSizes, NEW u \in 0 .. 511, NEW p, p = u % c
  PROVE  \E w, q, y : Odd(c, u, p, w, q, y)
<1> DEFINE w == 2 * (u \div 2) + 1
           q == 2 * (p \div 2) + 1
           y == p \div 2
<1>1. c \in {32, 64, 128}
  BY DEF SmallSizes
<1>2. p \in Nat /\ p <= c - 1 /\ p <= 127
  BY <1>1
<1>3. w % c = q
  BY <1>1, HalvesOfRemainder
<1>4. /\ w \div 2 = u \div 2 /\ w % 2 = 1 /\ u \div 2 \in Nat /\ 2 * (u \div 2) <= u
  BY HalvesOf
<1>5. /\ q \div 2 = y /\ q % 2 = 1 /\ y \in Nat /\ 2 * y <= p
  BY <1>2, HalvesOf
<1>6. w \in 0 .. 511
  BY <1>4
<1>7. q = 2 * y + 1
  OBVIOUS
<1> HIDE DEF w, q, y
<1>8. q <= c - 1
  <2>1. y \in 0 .. 63 /\ y <= p /\ q \in Nat
    BY <1>2, <1>5, <1>7
  <2>2. CASE c = 32
    BY <1>2, <1>5, <1>7, <2>1, <2>2
  <2>3. CASE c = 64
    BY <1>2, <1>5, <1>7, <2>1, <2>3
  <2>4. CASE c = 128
    BY <1>2, <1>5, <1>7, <2>1, <2>4
  <2>5. QED
    BY <1>1, <2>2, <2>3, <2>4
<1>9. y \in 0 .. 63 /\ y <= p /\ q \in Nat
  BY <1>2, <1>5, <1>7
<1>10. q \in 0 .. c - 1 /\ q \in 0 .. 127
  BY <1>1, <1>8, <1>9
<1>11. q % c = q
  BY <1>1, <1>10
<1>12. Odd(c, u, p, w, q, y)
  BY <1>3, <1>4, <1>5, <1>6, <1>9, <1>10, <1>11 DEF Odd
<1>13. QED
  BY <1>12

LEMMA BankIs ==
  ASSUME NEW u \in 0 .. 511
  PROVE  (u \div 2) % 128 <= u % 256 /\ (u \div 2) % 128 <= u % 512
OBVIOUS

\* LoROM: what a place shows does not lie above it.
LEMMA LoRomBelow ==
  ASSUME upload \in Uploads, Fits, upload.map = "LoRom", Capacity \in {32, 64, 128, 256, 512},
         NEW p \in 0 .. Capacity - 1, NEW o \in ImageSources(p)
  PROVE  o \in 0 .. p
<1>a. Shows(p, o)
  BY ShownOnly, Zenon
<1>1. PICK u \in 0 .. 511, x \in 0 .. 255 : Asks(u, x, p) /\ o = Offered(x) /\ o \in 0 .. x
  BY <1>a, Zenon DEF Shows
<1>2. /\ u \in 0 .. 511 /\ HasSource("LoRom", u) /\ x \in 0 .. 255
      /\ x = Linear("LoRom", u) /\ p = u % Capacity
  BY <1>1 DEF Asks
<1>3. x = (u \div 2) % 128
  BY <1>2, LoRomIs, Zenon
<1>4. o \in 0 .. x
  BY <1>1
<1>5. CASE Capacity = 256
  <2>1. x <= p
    <3>1. p = u % 256
      BY <1>2, <1>5
    <3>2. QED
      BY <1>3, <3>1, BankIs
  <2>2. QED
    BY <1>2, <1>4, <2>1
<1>6. CASE Capacity = 512
  <2>1. x <= p
    <3>1. p = u % 512
      BY <1>2, <1>6
    <3>2. QED
      BY <1>3, <3>1, BankIs
  <2>2. QED
    BY <1>2, <1>4, <2>1
<1>7. CASE Capacity \in SmallSizes
  <2>a. PICK w, q, y : Odd(Capacity, u, p, w, q, y)
    BY <1>2, <1>7, OddPlace, Zenon
  <2>1. /\ w \in 0 .. 511 /\ (w \div 2) = (u \div 2) /\ (w % 2) = 1 /\ (w % Capacity) = q
        /\ q \in 0 .. Capacity - 1 /\ q \in 0 .. 127 /\ (q % 2) = 1 /\ (q % Capacity) = q
        /\ (q \div 2) = y /\ y \in 0 .. 63 /\ y <= p
    BY <2>a, Zenon DEF Odd
  <2>2. HasSource("LoRom", w)
    <3>1. (w \div 2) \notin {126, 127}
      BY <1>2, <2>1 DEF HasSource, Bank
    <3>2. QED
      BY <2>1, <3>1 DEF HasSource, Bank, UpperHalf
  <2>3. Linear("LoRom", w) = x
    <3>1. Linear("LoRom", w) = (w \div 2) % 128
      BY <2>1, LoRomIs, ZenonT(60)
    <3>2. QED
      BY <1>3, <2>1, <3>1
  <2>4. HasSource("LoRom", q) /\ q \in 0 .. 511
    <3>1. q \in 0 .. 511
      BY <2>1
    <3>2. Answered(q)
      BY <2>1, <3>1 DEF Answered
    <3>3. QED
      BY <3>1, <3>2, MapsAre, AnsweredBy
  <2>5. Linear("LoRom", q) = y
    <3>1. Linear("LoRom", q) = (q \div 2) % 128
      BY <2>4, LoRomIs, ZenonT(60)
    <3>2. QED
      BY <2>1, <3>1
  <2>6. Asks(w, x, q)
    BY <1>2, <2>1, <2>2, <2>3 DEF Asks
  <2>7. y \in 0 .. 255
    BY <2>1
  <2>8. Asks(q, y, q)
    BY <2>1, <2>4, <2>5, <2>7 DEF Asks
  <2>9. o \in ImageSources(q) /\ Offered(y) \in ImageSources(q) /\ q \in 0 .. Capacity - 1
    BY <1>1, <2>6, <2>8, Shown
  <2>10. o = Offered(y)
    BY <2>9, OneSource
  <2>11. o \in 0 .. y
    BY <2>7, <2>10, OfferedIs
  <2>12. QED
    BY <2>1, <2>11
<1>8. QED
  BY <1>5, <1>6, <1>7 DEF SmallSizes

LEMMA LoRomFound ==
  ASSUME upload \in Uploads, Fits, k \in Nat, k < Len(ProgramOrder), upload.map = "LoRom",
         NEW p \in UnitsOf(Current), NEW o \in ImageSources(p)
  PROVE  Sector(DataAt + o) \notin Done(k)
<1>1. /\ p \in 0 .. Capacity - 1 /\ Sector(p) = Current
      /\ Capacity \in {32, 64, 128, 256, 512} /\ DataAt = 0
  BY AtCurrent
<1>2. o \in 0 .. p
  <2> DEFINE c == Capacity
  <2>1. c \in {32, 64, 128, 256, 512} /\ p \in 0 .. c - 1 /\ Capacity = c
    BY <1>1
  <2> HIDE DEF c
  <2>2. QED
    BY <2>1, LoRomBelow, Zenon
<1>3. p \in Nat /\ o \in Nat /\ o <= p /\ DataAt + o = o
  BY <1>1, <1>2
<1>4. Sector(DataAt + o) = o \div 4 /\ Current = p \div 4
  BY <1>1, <1>3, SectorIs
<1>5. ~(Sector(DataAt + o) > Current)
  BY <1>3, <1>4
<1>6. QED
  BY <1>5, DownDone

\* One of these sectors shows o.
Found(done, o) == \E p \in 0 .. Capacity - 1 : o \in ImageSources(p) /\ Sector(p) \in done

AboveMaps == {"HiRom", "ExHiRom", "Fx3"}

LEMMA AboveLinear ==
  ASSUME NEW map \in AboveMaps, NEW x \in 0 .. 127
  PROVE  Linear(map, 384 + x) = x
<1> DEFINE u == 384 + x
<1>1. u \in 0 .. 511
  OBVIOUS
<1>2. CASE map = "HiRom"
  <2>1. Linear("HiRom", u) = u % 128
    BY <1>1, HiRomIs, ZenonT(60)
  <2>2. u % 128 = x
    OBVIOUS
  <2>3. QED
    BY <1>2, <2>1, <2>2
<1>3. CASE map = "ExHiRom"
  <2>1. Linear("ExHiRom", u) = (u % 128) + (IF u < 256 THEN 128 ELSE 0)
    BY <1>1, ExHiRomIs, ZenonT(60)
  <2>2. u % 128 = x /\ ~(u < 256)
    OBVIOUS
  <2>3. QED
    BY <1>3, <2>1, <2>2
<1>4. CASE map = "Fx3"
  <2>1. u % 256 >= 128 /\ (u % 256) - 128 = x
    OBVIOUS
  <2>2. Linear("Fx3", u) = (u % 256) - 128
    BY <1>1, <2>1, Fx3Is
  <2>3. QED
    BY <1>4, <2>1, <2>2
<1>5. QED
  BY <1>2, <1>3, <1>4 DEF AboveMaps

\* The place that the last bus addresses have for a position.
Above(x) == (384 + x) % Capacity

\* The maps with the image's first part in the last bus addresses.
LEMMA ShownAbove ==
  ASSUME upload \in Uploads, upload.map \in AboveMaps,
         NEW x \in 0 .. 127, x < upload.size
  PROVE  /\ Above(x) \in 0 .. Capacity - 1
         /\ x \in ImageSources(Above(x))
<1>a. Linear(upload.map, 384 + x) = x
  BY AboveLinear, ZenonT(60)
<1> DEFINE u == 384 + x
<1>1. u \in 0 .. 511 /\ u \in 384 .. 511 /\ u \notin 252 .. 255 /\ x \in 0 .. 255
      /\ u = 384 + x
  OBVIOUS
<1> HIDE DEF u
<1>2. HasSource(upload.map, u)
  <2>1. upload.map \in Maps
    BY MapsAre DEF AboveMaps
  <2>2. QED
    <3>1. Answered(u)
      BY <1>1 DEF Answered
    <3>2. QED
      BY <2>1, <3>1, AnsweredBy, ZenonT(60)
<1>3. Linear(upload.map, u) = x
  BY <1>a DEF u
<1>4. Asks(u, x, u % Capacity)
  BY <1>1, <1>2, <1>3 DEF Asks
<1>5. u % Capacity \in 0 .. Capacity - 1 /\ x \in ImageSources(u % Capacity)
  BY <1>4, Shown
<1>6. QED
  BY <1>5 DEF u, Above

\* HiROM on the smaller devices: every unit of the image stays where it is.
LEMMA HiRomStays ==
  ASSUME upload \in Uploads, upload.map = "HiRom", Capacity \in {32, 64, 128},
         NEW done, NEW o \in 0 .. upload.size - 1, Sector(DataAt + o) \in done
  PROVE  Found(done, o)
<1>1. DataAt = 0 /\ upload.size \in 1 .. 512 /\ upload.size <= Capacity
  BY UploadFacts, ImageFits
<1>2. o \in 0 .. 127 /\ o < upload.size /\ o < Capacity
  BY <1>1
<1>3. Above(o) = o
  <2>1. CASE Capacity = 32
    BY <1>2, <2>1 DEF Above
  <2>2. CASE Capacity = 64
    BY <1>2, <2>2 DEF Above
  <2>3. CASE Capacity = 128
    BY <1>2, <2>3 DEF Above
  <2>4. QED
    BY <2>1, <2>2, <2>3
<1>4. o \in 0 .. Capacity - 1 /\ o \in ImageSources(o)
  <2>1. o \in ImageSources(Above(o))
    BY <1>2, ShownAbove DEF AboveMaps
  <2>2. QED
    BY <1>2, <1>3, <2>1
<1>5. DataAt + o = o
  BY <1>1, <1>2
<1>6. QED
  BY <1>4, <1>5 DEF Found

LEMMA LastQuarter ==
  ASSUME NEW o \in 0 .. 127
  PROVE  /\ (128 + o) \div 4 \in 0 .. 63 /\ ((128 + o) \div 4) % 64 >= 32
         /\ (384 + o) \div 4 \in 0 .. 127 /\ ((384 + o) \div 4) % 64 >= 32
         /\ ~((o \div 4) % 64 >= 32)
OBVIOUS

\* HiROM on the larger devices: the odd quarters show everything.
LEMMA HiRomFound ==
  ASSUME upload \in Uploads, k \in Nat, k < Len(ProgramOrder), upload.map = "HiRom",
         Capacity \in {256, 512}, NEW p \in 0 .. 511, p \in UnitsOf(Current),
         NEW o \in 0 .. 511, o \in ImageSources(p),
         Sector(DataAt + o) \in Done(k)
  PROVE  Found(Done(k), o)
<1>1. /\ p \in 0 .. Capacity - 1 /\ o \in 0 .. upload.size - 1 /\ upload.size \in 1 .. 512 /\ DataAt = 0
      /\ o < upload.size
  BY AtCurrent
<1>2. o \in 0 .. 127 /\ o < upload.size
  <2>1. upload.map \in PlainMaps
    BY DEF PlainMaps
  <2>2. o \in 0 .. 127
    BY <2>1, PlainCurrent
  <2>3. QED
    BY <1>1, <2>2
<1> DEFINE q == Above(o)
<1>b. upload.map \in AboveMaps
  BY DEF AboveMaps
<1>3. q \in 0 .. Capacity - 1 /\ o \in ImageSources(q)
  BY <1>2, <1>b, ShownAbove, ZenonT(60)
<1>4. Sector(q) \in Sectors /\ Sector(q) % 64 >= 32
  <2>0. Sector(q) = q \div 4 /\ Sectors = 0 .. (Capacity \div 4) - 1
    <3> HIDE DEF q
    <3>1. q \in Nat /\ Capacity \in Nat
      BY <1>3
    <3>2. QED
      BY <3>1, SectorIs DEF Sectors
  <2>1. CASE Capacity = 256
    <3>1. q = 128 + o
      BY <1>2, <2>1 DEF Above
    <3> HIDE DEF q
    <3>2. QED
      BY <1>2, <2>0, <2>1, <3>1, LastQuarter
  <2>2. CASE Capacity = 512
    <3>1. q = 384 + o
      BY <1>2, <2>2 DEF Above
    <3> HIDE DEF q
    <3>2. QED
      BY <1>2, <2>0, <2>2, <3>1, LastQuarter
  <2>3. QED
    BY <2>1, <2>2
<1> HIDE DEF q
<1>5. ~(Sector(DataAt + o) % 64 >= 32)
  <2>1. DataAt + o = o /\ o \in Nat
    BY <1>1, <1>2
  <2>2. Sector(DataAt + o) = o \div 4
    BY <2>1, SectorIs
  <2>3. QED
    BY <1>2, <2>2, LastQuarter
<1>6. Current % 64 < 32
  <2>1. Current \in Nat /\ (Current % 64 >= 32 => \A s \in Done(k) : s % 64 >= 32)
    BY OddQuartersFirst
  <2>2. ~(Current % 64 >= 32)
    BY <1>5, <2>1
  <2>3. QED
    BY <2>1, <2>2
<1>7. Sector(q) \in Done(k)
  BY <1>4, <1>6, OddQuartersFirst
<1>8. QED
  BY <1>3, <1>7 DEF Found

LEMMA AskedIs ==
  ASSUME upload \in Uploads, NEW u \in 0 .. 511, u \notin 252 .. 255, NEW x \in 0 .. 255,
         u \in 128 .. 251 \/ u \in 384 .. 511 \/ (u % 2) = 1 \/ upload.map = "Fx3",
         x = Linear(upload.map, u), NEW q, q = u % Capacity
  PROVE  Asks(u, x, q)
<1>1. upload.map \in Maps
  BY UploadFacts
<1>2. HasSource(upload.map, u)
  <2>1. CASE upload.map = "Fx3"
    BY <1>1, <2>1, Mapped
  <2>2. CASE upload.map # "Fx3"
    <3>1. Answered(u)
      BY <2>2 DEF Answered
    <3>2. QED
      BY <1>1, <3>1, AnsweredBy
  <2>3. QED
    BY <2>1, <2>2
<1>3. QED
  BY <1>2 DEF Asks

\* An extended image larger than 4 MiB needs the largest device.
LEMMA ExtendedNeeds ==
  ASSUME upload \in Uploads, Fits, upload.map \in ExtendedMaps, upload.size > 128
  PROVE  Capacity = 512 /\ DataAt = 0
<1>1. Capacity \in {32, 64, 128, 256, 512} /\ upload.size \in 1 .. 512 /\ upload.size <= Capacity /\ DataAt = 0
  BY UploadFacts, ImageFits DEF ExtendedMaps
<1>2. ASSUME Capacity = 256
      PROVE  FALSE
  <2>1. CASE upload.map = "ExLoRom"
    <3>1. Linear("ExLoRom", 1) = 128 /\ Linear("ExLoRom", 257) = 0
      BY DEF Linear, Bank
    <3>2. Asks(1, 128, 1) /\ Asks(257, 0, 1)
      <4>1. HasSource("ExLoRom", 1) /\ HasSource("ExLoRom", 257)
        BY DEF HasSource, Bank, UpperHalf
      <4>2. 1 = 1 % Capacity /\ 1 = 257 % Capacity
        BY <1>2
      <4>3. QED
        BY <2>1, <3>1, <4>1, <4>2 DEF Asks
    <3>3. 128 \in ImageSources(1) /\ 0 \in ImageSources(1) /\ 1 \in 0 .. Capacity - 1
      BY <1>1, <3>2, Shown
    <3>4. \A a, b : a \in ImageSources(1) /\ b \in ImageSources(1) => a = b
      BY <3>3, OneSource, Zenon
    <3>5. QED
      BY <3>3, <3>4
  <2>2. CASE upload.map = "ExHiRom"
    <3>1. Linear("ExHiRom", 128) = 128 /\ Linear("ExHiRom", 384) = 0
      BY DEF Linear, Bank, MiB
    <3>2. Asks(128, 128, 128) /\ Asks(384, 0, 128)
      <4>1. HasSource("ExHiRom", 128) /\ HasSource("ExHiRom", 384)
        BY DEF HasSource, Bank, UpperHalf
      <4>2. 128 = 128 % Capacity /\ 128 = 384 % Capacity
        BY <1>2
      <4>3. QED
        BY <2>2, <3>1, <4>1, <4>2 DEF Asks
    <3>3. 128 \in ImageSources(128) /\ 0 \in ImageSources(128) /\ 128 \in 0 .. Capacity - 1
      BY <1>1, <3>2, Shown
    <3>4. \A a, b : a \in ImageSources(128) /\ b \in ImageSources(128) => a = b
      BY <3>3, OneSource, Zenon
    <3>5. QED
      BY <3>3, <3>4
  <2>3. QED
    BY <2>1, <2>2 DEF ExtendedMaps
<1>3. QED
  BY <1>1, <1>2

\* With the upper half first: the sectors programmed before that at `at'.
UpperFirst(done, at) ==
  /\ at \in 0 .. 127
  /\ at >= 64 => \A s \in done : s >= 64
  /\ at < 64 => \A s \in 0 .. 127 : s \in done <=> s >= 64 \/ s < at

\* The places of the upper half, and those not above o.
ShownDone(done, o) == \A w \in 0 .. 511 : w >= 256 \/ w <= o => Sector(w) \in done

LEMMA UpperFirstDone ==
  ASSUME NEW done, NEW p \in 0 .. 511, UpperFirst(done, Sector(p)),
         NEW o \in 0 .. 255, p >= 256 => o \in 0 .. 127, Sector(o) \in done
  PROVE  o \in 0 .. 251 /\ ShownDone(done, o)
<1> DEFINE at == p \div 4
<1>0. /\ at \in 0 .. 127
      /\ at >= 64 => \A s \in done : s >= 64
      /\ at < 64 => \A s \in 0 .. 127 : s \in done <=> s >= 64 \/ s < at
      /\ o \div 4 \in done
  BY SectorIs DEF UpperFirst
<1>1. at < 64
  <2>1. SUFFICES ASSUME at >= 64 PROVE FALSE
    BY <1>0
  <2>2. o \in 0 .. 127
    BY <1>0, <2>1
  <2>3. o \div 4 >= 64
    BY <1>0, <2>1
  <2>4. QED
    BY <2>2, <2>3
<1>2. o \div 4 \in 0 .. 63
  OBVIOUS
<1>3. o \div 4 < at
  BY <1>0, <1>1, <1>2
<1>4. o \in 0 .. 251
  BY <1>1, <1>3
<1>5. ASSUME NEW w \in 0 .. 511, w >= 256 \/ w <= o
      PROVE  Sector(w) \in done
  <2>1. w \div 4 \in 0 .. 127 /\ (w \div 4 >= 64 \/ w \div 4 <= o \div 4)
    BY <1>5
  <2>2. w \div 4 >= 64 \/ w \div 4 < at
    BY <1>0, <1>2, <1>3, <2>1
  <2>3. Sector(w) = w \div 4
    BY SectorIs
  <2>4. QED
    BY <1>0, <1>1, <2>1, <2>2, <2>3
<1>6. QED
  BY <1>4, <1>5 DEF ShownDone

LEMMA AtZero ==
  ASSUME DataAt = 0, NEW o \in 0 .. 255
  PROVE  DataAt + o = o
OBVIOUS

LEMMA OddSource ==
  ASSUME NEW map \in Maps, NEW w \in 0 .. 511, w \notin 252 .. 255, w % 2 = 1
  PROVE  HasSource(map, w)
<1>1. Answered(w)
  BY DEF Answered
<1>2. QED
  BY <1>1, AnsweredBy

\* The extended maps, on the largest device.
LEMMA ExtendedCurrent ==
  ASSUME upload \in Uploads, Fits, k \in Nat, k < Len(ProgramOrder), upload.map \in ExtendedMaps,
         upload.size > 128, NEW p \in UnitsOf(Current), NEW o \in ImageSources(p),
         Sector(DataAt + o) \in Done(k)
  PROVE  Capacity = 512 /\ o \in 0 .. 251 /\ o < upload.size /\ ShownDone(Done(k), o)
<1>1. Capacity = 512 /\ DataAt = 0
  BY ExtendedNeeds, Zenon
<1>2. p \in 0 .. 511 /\ Sector(p) = Current /\ o < upload.size
  BY <1>1, AtCurrent
<1>3. o \in 0 .. 255 /\ (p >= 256 => o \in 0 .. 127)
  <2>1. OnLargest(p)
    BY <1>1, <1>2 DEF OnLargest
  <2>2. Within(p, o)
    BY <2>1, ExtendedPositions, ZenonT(60)
  <2>3. QED
    BY <2>2 DEF Within
<1>4. UpperFirst(Done(k), Current)
  <2> DEFINE h == 64
  <2>1. h \in {32, 64} /\ Capacity = 8 * h
    BY <1>1
  <2>2. upload.map \in {"ExLoRom", "ExHiRom"}
    BY DEF ExtendedMaps
  <2> HIDE DEF h
  <2>3. /\ Current \in 0 .. 2 * h - 1
        /\ Current >= h => \A s \in Done(k) : s >= h
        /\ Current < h => \A s \in 0 .. 2 * h - 1 : s \in Done(k) <=> s >= h \/ s < Current
    BY <2>1, <2>2, UpperHalfFirst
  <2>4. QED
    BY <2>3 DEF h, UpperFirst
<1>5. DataAt + o = o
  <2>1. DataAt = 0 /\ o \in 0 .. 255
    BY <1>1, <1>3
  <2>2. QED
    BY <2>1, AtZero, Zenon
<1>6. Sector(o) \in Done(k)
  BY <1>5, Zenon
<1>7. o \in 0 .. 251 /\ ShownDone(Done(k), o)
  <2>1. UpperFirst(Done(k), Sector(p)) /\ p \in 0 .. 511
    BY <1>2, <1>4
  <2>2. QED
    BY <1>3, <1>6, <2>1, UpperFirstDone, Zenon
<1>8. QED
  BY <1>1, <1>2, <1>7, Zenon

\* Where the whole of an extended image is shown.
ShownIn(o) == \E w \in 0 .. 511 : (w >= 256 \/ w <= o) /\ o \in ImageSources(w)

\* The odd quarter w that shows quarter o of an ExLoRom image.
OddOf(w, o) ==
  /\ w \in 0 .. 511 /\ w \notin 252 .. 255 /\ w % 2 = 1 /\ w = w % 512
  /\ ((w \div 2) + 128) % 256 = o
  /\ w >= 256 \/ w <= o

\* The place that shows position o of an ExLoROM image.
LEMMA ExLoRomPlace ==
  ASSUME NEW o \in 0 .. 251
  PROVE  \E w : OddOf(w, o)
<1> DEFINE a == 257 + 2 * o
           b == 2 * (o - 128) + 1
<1>1. CASE o < 128
  <2>1. a \in 0 .. 511 /\ a \notin 252 .. 255 /\ a % 2 = 1 /\ a = a % 512
        /\ ((a \div 2) + 128) % 256 = o /\ a >= 256
    BY <1>1
  <2> HIDE DEF a
  <2>2. OddOf(a, o)
    BY <2>1 DEF OddOf
  <2>3. QED
    BY <2>2, Zenon
<1>2. CASE o >= 128
  <2>1. b \in 0 .. 511 /\ b \notin 252 .. 255 /\ b % 2 = 1 /\ b = b % 512
        /\ ((b \div 2) + 128) % 256 = o /\ b <= o
    BY <1>2
  <2> HIDE DEF b
  <2>2. OddOf(b, o)
    BY <2>1 DEF OddOf
  <2>3. QED
    BY <2>2, Zenon
<1>3. QED
  BY <1>1, <1>2

LEMMA ExLoRomShown ==
  ASSUME upload \in Uploads, upload.map = "ExLoRom", Capacity = 512,
         NEW o \in 0 .. 251, o < upload.size
  PROVE  ShownIn(o)
<1>0. "ExLoRom" \in Maps
  BY MapsAre
<1>a. PICK w : OddOf(w, o)
  BY ExLoRomPlace, Zenon
<1>1. /\ w \in 0 .. 511 /\ w \notin 252 .. 255 /\ w % 2 = 1 /\ w = w % 512
      /\ ((w \div 2) + 128) % 256 = o
      /\ w >= 256 \/ w <= o
  BY <1>a DEF OddOf
<1>2. Linear("ExLoRom", w) = ((w \div 2) + 128) % 256
  <2>1. w \in 0 .. 511
    BY <1>1
  <2>2. QED
    BY <2>1, ExLoRomIs
<1>3. HasSource("ExLoRom", w)
  <2>1. w \in 0 .. 511 /\ w \notin 252 .. 255 /\ w % 2 = 1
    BY <1>1
  <2>2. QED
    BY <1>0, <2>1, OddSource
<1>4. o \in 0 .. 255
  OBVIOUS
<1>5. Asks(w, o, w)
  <2>1. o = Linear(upload.map, w)
    BY <1>1, <1>2
  <2>2. HasSource(upload.map, w)
    BY <1>3
  <2>3. w = w % Capacity
    BY <1>1
  <2>4. QED
    BY <1>1, <1>4, <2>1, <2>2, <2>3 DEF Asks
<1>6. o \in ImageSources(w)
  BY <1>5, Shown, ZenonT(60)
<1>7. QED
  BY <1>1, <1>6 DEF ShownIn

LEMMA ExHiRomShown ==
  ASSUME upload \in Uploads, upload.map = "ExHiRom", Capacity = 512,
         NEW o \in 0 .. 251, o < upload.size
  PROVE  ShownIn(o)
<1>1. CASE o < 128
  <2>1. upload.map \in AboveMaps /\ o \in 0 .. 127
    BY <1>1 DEF AboveMaps
  <2>2. o \in ImageSources(Above(o))
    BY <2>1, ShownAbove, ZenonT(60)
  <2>3. Above(o) \in 0 .. 511 /\ Above(o) >= 256
    BY <1>1 DEF Above
  <2>4. QED
    BY <2>2, <2>3, ZenonT(60) DEF ShownIn
<1>2. CASE o >= 128
  <2>1. /\ o \in 0 .. 511 /\ o \in 128 .. 251 /\ o \notin 252 .. 255 /\ o = o % 512 /\ o <= o
        /\ (o % 128) + (IF o < 256 THEN 128 ELSE 0) = o /\ o \in 0 .. 255
    BY <1>2
  <2>2. Linear("ExHiRom", o) = (o % 128) + (IF o < 256 THEN 128 ELSE 0)
    BY <2>1, ExHiRomIs
  <2>3. HasSource("ExHiRom", o)
    <3>1. Answered(o)
      BY <2>1 DEF Answered
    <3>2. QED
      BY <3>1, MapsAre, AnsweredBy, ZenonT(60)
  <2>4. Asks(o, o, o)
    BY <2>1, <2>2, <2>3 DEF Asks
  <2>5. o \in ImageSources(o)
    BY <2>4, Shown, Zenon
  <2>6. QED
    BY <2>1, <2>5 DEF ShownIn
<1>3. QED
  BY <1>1, <1>2

\* The extended maps: what is needed is shown in the upper half, or not above it.
LEMMA ExtendedFound ==
  ASSUME upload \in Uploads, Fits, k \in Nat, k < Len(ProgramOrder), upload.map \in ExtendedMaps,
         upload.size > 128, NEW p \in UnitsOf(Current), NEW o \in ImageSources(p),
         Sector(DataAt + o) \in Done(k)
  PROVE  Found(Done(k), o)
<1>1. Capacity = 512 /\ o \in 0 .. 251 /\ o < upload.size /\ ShownDone(Done(k), o)
  BY ExtendedCurrent, Zenon
<1>2. ShownIn(o)
  <2>1. upload.map = "ExLoRom" => ShownIn(o)
    BY <1>1, ExLoRomShown, Zenon
  <2>2. upload.map = "ExHiRom" => ShownIn(o)
    BY <1>1, ExHiRomShown, Zenon
  <2>3. QED
    BY <2>1, <2>2 DEF ExtendedMaps
<1>3. PICK w \in 0 .. 511 : (w >= 256 \/ w <= o) /\ o \in ImageSources(w)
  BY <1>2, Zenon DEF ShownIn
<1>4. Sector(w) \in Done(k)
  BY <1>1, <1>3, Zenon DEF ShownDone
<1>5. w \in 0 .. Capacity - 1
  BY <1>1
<1>6. QED
  BY <1>3, <1>4, <1>5, Zenon DEF Found

\* FX3 on the smaller devices: one unit, which stays where it is.
LEMMA Fx3Small ==
  ASSUME upload \in Uploads, Fits, upload.map = "Fx3", Capacity \in {32, 64, 128}, DataAt = 0
  PROVE  upload.size = 1 /\ 0 \in ImageSources(0)
<1>1. upload.size \in 1 .. 512
  BY UploadFacts
<1>2. HasSource("Fx3", 0) /\ HasSource("Fx3", 1) /\ HasSource("Fx3", 129)
  BY DEF HasSource, Bank
<1>3. Linear("Fx3", 0) = 0 /\ Linear("Fx3", 1) = 0 /\ Linear("Fx3", 129) = 1
  BY DEF Linear, Bank
<1>4. 0 = 0 % Capacity /\ 1 = 1 % Capacity /\ 1 = 129 % Capacity
  OBVIOUS
<1>5. Asks(0, 0, 0) /\ Asks(1, 0, 1) /\ Asks(129, 1, 1)
  BY <1>2, <1>3, <1>4 DEF Asks
<1>6. /\ 0 \in ImageSources(0)
      /\ 0 \in ImageSources(1) /\ 1 \in 0 .. Capacity - 1
      /\ 1 < upload.size => 1 \in ImageSources(1)
  BY <1>1, <1>5, Shown
<1>7. \A a, b : a \in ImageSources(1) /\ b \in ImageSources(1) => a = b
  BY <1>6, OneSourceOnly
<1>8. ~(1 < upload.size)
  BY <1>6, <1>7
<1>9. QED
  BY <1>1, <1>6, <1>8

\* FX3 on the larger devices: the sectors of the dump and of the image.
LEMMA Fx3Sectors ==
  ASSUME NEW o \in 0 .. 127
  PROVE  /\ Sector(0 + o) \in 0 .. 31
         /\ Sector(128 + o) \in 32 .. 63
         /\ Sector(384 + o) \in 96 .. 127
<1>1. Sector(0 + o) = (0 + o) \div 4 /\ Sector(128 + o) = (128 + o) \div 4 /\ Sector(384 + o) = (384 + o) \div 4
  BY SectorIs
<1>2. QED
  BY <1>1

\* The upper half of a device of 8 or 16 MiB starts with sector h.
HalfOf(h) == h \in {32, 64} /\ Capacity = 8 * h

LEMMA AboveSector ==
  ASSUME NEW h, HalfOf(h), NEW o \in 0 .. 127
  PROVE  Sector(Above(o)) \in 0 .. 2 * h - 1 /\ Sector(Above(o)) >= h
<1> DEFINE q == Above(o)
<1>a. h \in {32, 64} /\ Capacity = 8 * h
  BY DEF HalfOf
<1>1. CASE h = 32
  <2>1. q = 128 + o
    BY <1>1, <1>a DEF Above
  <2>2. Sector(q) \in 32 .. 63
    BY <2>1, Fx3Sectors
  <2>3. QED
    BY <1>1, <2>2
<1>2. CASE h = 64
  <2>1. q = 384 + o
    BY <1>2, <1>a DEF Above
  <2>2. Sector(q) \in 96 .. 127
    BY <2>1, Fx3Sectors
  <2>3. QED
    BY <1>2, <2>2
<1>3. QED
  BY <1>1, <1>2, <1>a

LEMMA BelowSector ==
  ASSUME NEW h \in {32, 64}, DataAt \in {0, 128}, DataAt < 4 * h, NEW o \in 0 .. 127
  PROVE  Sector(DataAt + o) < h /\ Sector(DataAt + o) \in Nat
<1>1. CASE DataAt = 0
  <2>1. Sector(DataAt + o) \in 0 .. 31
    BY <1>1, Fx3Sectors
  <2>2. QED
    BY <2>1
<1>2. CASE DataAt = 128
  <2>1. Sector(DataAt + o) \in 32 .. 63 /\ h = 64
    BY <1>2, Fx3Sectors
  <2>2. QED
    BY <2>1
<1>3. QED
  BY <1>1, <1>2

\* The upper half first: what has been programmed below it is shown above.
LEMMA AboveFound ==
  ASSUME upload \in Uploads, k \in Nat, k < Len(ProgramOrder), upload.map \in AboveMaps,
         NEW h \in {32, 64}, Capacity = 8 * h,
         Current \in 0 .. 2 * h - 1,
         Current >= h => \A s \in Done(k) : s >= h,
         Current < h => \A s \in 0 .. 2 * h - 1 : s \in Done(k) <=> s >= h \/ s < Current,
         NEW o \in 0 .. 127, o < upload.size, Sector(DataAt + o) < h, Sector(DataAt + o) \in Nat,
         Sector(DataAt + o) \in Done(k)
  PROVE  Found(Done(k), o)
<1> DEFINE q == Above(o)
<1>1. q \in 0 .. Capacity - 1 /\ o \in ImageSources(q)
  BY ShownAbove, ZenonT(60)
<1>2. Sector(q) \in 0 .. 2 * h - 1 /\ Sector(q) >= h
  <2>1. HalfOf(h)
    BY DEF HalfOf
  <2>2. QED
    BY <2>1, AboveSector, ZenonT(60)
<1> HIDE DEF q
<1>3. Current < h
  OBVIOUS
<1>4. Sector(q) \in Done(k)
  BY <1>2, <1>3
<1>5. QED
  BY <1>1, <1>4, Zenon DEF Found

LEMMA Fx3Found ==
  ASSUME upload \in Uploads, Fits, k \in Nat, k < Len(ProgramOrder), upload.map = "Fx3",
         NEW p \in UnitsOf(Current), NEW o \in ImageSources(p),
         Sector(DataAt + o) \in Done(k)
  PROVE  Found(Done(k), o)
<1>1. /\ o < upload.size /\ o \in 0 .. upload.size - 1 /\ upload.size \in 1 .. 512
      /\ Capacity \in {32, 64, 128, 256, 512} /\ DataAt + upload.size <= Capacity
      /\ DataAt \in {0, 128} /\ (DataAt = 128 => upload.size = 128)
  BY AtCurrent
<1>2. o \in 0 .. 127
  <2>1. upload.map \in PlainMaps
    BY DEF PlainMaps
  <2>2. QED
    BY <2>1, PlainCurrent
<1>a. upload.map \in AboveMaps
  BY DEF AboveMaps
<1>3. CASE Capacity \in {32, 64, 128}
  <2>1. DataAt = 0
    BY <1>1, <1>3
  <2>2. upload.size = 1 /\ 0 \in ImageSources(0)
    BY <1>3, <2>1, Fx3Small
  <2>3. o = 0
    BY <1>1, <2>2
  <2>4. Sector(0) \in Done(k) /\ 0 \in 0 .. Capacity - 1
    BY <1>3, <2>1, <2>3
  <2>5. QED
    BY <2>2, <2>3, <2>4 DEF Found
<1>4. CASE Capacity = 256 /\ DataAt = 128
  <2>1. Above(o) = DataAt + o
    BY <1>2, <1>4 DEF Above
  <2>2. Above(o) \in 0 .. Capacity - 1 /\ o \in ImageSources(Above(o))
    BY <1>1, <1>2, <1>a, ShownAbove, ZenonT(60)
  <2>3. QED
    BY <2>1, <2>2 DEF Found
<1>5. ASSUME NEW h \in {32, 64}, Capacity = 8 * h, DataAt < 4 * h
      PROVE  Found(Done(k), o)
  <2>1. /\ Current \in 0 .. 2 * h - 1
        /\ Current >= h => \A s \in Done(k) : s >= h
        /\ Current < h => \A s \in 0 .. 2 * h - 1 : s \in Done(k) <=> s >= h \/ s < Current
    BY <1>5, UpperHalfFirst
  <2>2. Sector(DataAt + o) < h /\ Sector(DataAt + o) \in Nat
    <3>1. DataAt \in {0, 128}
      BY <1>1
    <3>2. QED
      BY <1>2, <1>5, <3>1, BelowSector, ZenonT(60)
  <2>3. QED
    BY <1>1, <1>2, <1>5, <1>a, <2>1, <2>2, AboveFound
<1>6. CASE Capacity = 256 /\ DataAt = 0
  <2> DEFINE h == 32
  <2>1. h \in {32, 64} /\ Capacity = 8 * h /\ DataAt < 4 * h
    BY <1>6
  <2> HIDE DEF h
  <2>2. QED
    BY <1>5, <2>1
<1>7. CASE Capacity = 512
  <2> DEFINE h == 64
  <2>1. h \in {32, 64} /\ Capacity = 8 * h /\ DataAt < 4 * h
    BY <1>1, <1>7
  <2> HIDE DEF h
  <2>2. QED
    BY <1>5, <2>1
<1>8. QED
  BY <1>1, <1>3, <1>4, <1>6, <1>7

-----------------------------------------------------------------------------
(* Every sector can be read when it is its turn.                           *)

\* Detection gives an extended map only to an image that needs it.
LEMMA DetectedSize ==
  ASSUME upload \in Uploads, upload.type = "Sfc", upload.detected, upload.map \in ExtendedMaps
  PROVE  upload.size > 128
<1>1. upload.map \in DetectedMaps(upload.size) /\ upload.size \in 1 .. 512
  BY UploadsAssumption, UploadFacts
<1>2. upload.map \in {"ExLoRom", "ExHiRom"}
  BY DEF ExtendedMaps
<1>3. SUFFICES ASSUME upload.size <= 128 PROVE FALSE
  BY <1>1
<1>4. upload.map \in {"LoRom", "Fx3", "HiRom"}
  BY <1>1, <1>3 DEF DetectedMaps, MiB
<1>5. QED
  BY <1>2, <1>4

LEMMA WithinBus ==
  ASSUME NEW c \in {32, 64, 128, 256, 512}, NEW n \in 1 .. 512,
         NEW p \in 0 .. c - 1, NEW o \in 0 .. n - 1
  PROVE  p \in 0 .. 511 /\ o \in 0 .. 511
OBVIOUS

LEMMA HiRomAllFound ==
  ASSUME upload \in Uploads, k \in Nat, k < Len(ProgramOrder), upload.map = "HiRom",
         NEW p \in UnitsOf(Current), NEW o \in ImageSources(p), Sector(DataAt + o) \in Done(k)
  PROVE  Found(Done(k), o)
<1> DEFINE done == Done(k)
<1>1. /\ p \in 0 .. Capacity - 1 /\ o \in 0 .. upload.size - 1 /\ upload.size \in 1 .. 512
      /\ Capacity \in {32, 64, 128, 256, 512}
  BY AtCurrent
<1>2. CASE Capacity \in {32, 64, 128}
  <2>1. Sector(DataAt + o) \in done /\ o \in 0 .. upload.size - 1
    BY <1>1
  <2> HIDE DEF done
  <2>2. Found(done, o)
    BY <1>2, <2>1, HiRomStays, ZenonT(60)
  <2>3. QED
    BY <2>2 DEF done
<1>3. CASE Capacity \in {256, 512}
  <2> DEFINE cap == Capacity
             size == upload.size
  <2>1. p \in 0 .. 511 /\ o \in 0 .. 511
    <3>1. cap \in {32, 64, 128, 256, 512} /\ size \in 1 .. 512
          /\ p \in 0 .. cap - 1 /\ o \in 0 .. size - 1
      BY <1>1
    <3> HIDE DEF cap, size
    <3>2. QED
      BY <3>1
  <2>2. QED
    BY <1>3, <2>1, HiRomFound, ZenonT(60)
<1>4. QED
  BY <1>1, <1>2, <1>3

\* Where a sector needs a page that has been overwritten, an earlier sector
\* shows it.
LEMMA NoneLost ==
  ASSUME upload \in Uploads, Fits, upload.type = "Sfc", upload.detected,
         k \in Nat, k < Len(ProgramOrder),
         NEW p \in UnitsOf(Current), NEW o \in ImageSources(p), Sector(DataAt + o) \in Done(k)
  PROVE  Found(Done(k), o)
<1>1. CASE upload.map = "LoRom"
  BY <1>1, LoRomFound
<1>2. CASE upload.map = "HiRom"
  BY <1>2, HiRomAllFound
<1>3. CASE upload.map = "Fx3"
  BY <1>3, Fx3Found
<1>4. CASE upload.map \in ExtendedMaps
  <2>1. upload.size > 128
    BY <1>4, DetectedSize
  <2>2. QED
    BY <1>4, <2>1, ExtendedFound
<1>5. upload.map \in Maps
  BY UploadFacts
<1>6. QED
  BY <1>1, <1>2, <1>3, <1>4, <1>5 DEF Maps, ExtendedMaps

\* Past its checks, an installation is of an image the device can show.
Later == {"copy", "copyburn", "fx", "program", "burn", "words", "magic"}
Checked == pc \in Later => upload.detected /\ Fits

\* Whatever a final sector shows is represented.
AllRepresented ==
  \A s \in final : \A p \in UnitsOf(s) : \A o \in ImageSources(p) : rep[o] # None
RepComplete == pc \in {"program", "burn"} => AllRepresented

\* Why an installation may be refused.
Excused ==
  \/ ~upload.detected
  \/ upload.type = "Raw" /\ FileCells(upload) # Capacity
  \/ \E p \in 0 .. Capacity - 1 : Cardinality(ImageSources(p)) > 1

NRInv == Checked /\ RepComplete /\ NeverRefused

LEMMA UnfitExcused ==
  ASSUME upload \in Uploads, ~Fits
  PROVE  Excused
<1>1. PICK p \in 0 .. Capacity - 1 : ~(Cardinality(ImageSources(p)) <= 1)
  BY DEF Fits
<1>2. Cardinality(ImageSources(p)) \in Nat
  BY SourcesFinite, FS_CardinalityType
<1>3. Cardinality(ImageSources(p)) > 1
  BY <1>1, <1>2
<1>4. QED
  BY <1>3 DEF Excused

\* program_sector finds all it needs, and finds it unambiguous.
LEMMA AlwaysReadable ==
  ASSUME RInv, Checked, AllRepresented, pc = "program", k < Len(ProgramOrder)
  PROVE  SectorReadable(Current)
<1>1. /\ upload \in Uploads /\ k \in Nat /\ upload.type = "Sfc" /\ upload.detected /\ Fits
      /\ final = Done(k)
  BY DEF RInv, Types, Placed, Contents, Programming, Checked, Later
<1>2. ASSUME NEW p \in UnitsOf(Current), NEW o \in ImageSources(p)
      PROVE  SourceCell(o) # None /\ cells[SourceCell(o)] = o
  <2>1. /\ o \in 0 .. upload.size - 1 /\ DataAt \in {0, 128} /\ upload.size \in 1 .. 512
    BY <1>1, AtCurrent
  <2>2. o \in Units
    BY <2>1 DEF Units
  <2>3. CASE Sector(DataAt + o) \in final
    <3>1. Found(Done(k), o)
      BY <1>1, <2>3, NoneLost
    <3>2. PICK q \in 0 .. Capacity - 1 : o \in ImageSources(q) /\ Sector(q) \in final
      BY <1>1, <3>1 DEF Found
    <3>3. q \in UnitsOf(Sector(q))
      BY <1>1, InItsSector
    <3>4. rep[o] # None
      BY <3>2, <3>3 DEF AllRepresented
    <3>5. SourceCell(o) = rep[o]
      BY <2>3 DEF SourceCell
    <3>6. QED
      BY <2>2, <3>4, <3>5, SourceHolds
  <2>4. CASE Sector(DataAt + o) \notin final
    <3>1. SourceCell(o) = DataAt + o
      BY <2>4 DEF SourceCell
    <3>2. SourceCell(o) # None
      BY <2>1, <3>1 DEF None
    <3>3. QED
      BY <2>2, <3>2, SourceHolds
  <2>5. QED
    BY <2>3, <2>4
<1>3. ASSUME NEW p \in UnitsOf(Current)
      PROVE  /\ None \notin {SourceCell(o) : o \in ImageSources(p)}
             /\ {cells[c] : c \in {SourceCell(o) : o \in ImageSources(p)}} = ImageSources(p)
  BY <1>2
<1>4. \A p \in UnitsOf(Current) : Cardinality(ImageSources(p)) <= 1
  <2>1. Current \in Sectors
    BY <1>1, CurrentIs
  <2>2. UnitsOf(Current) \subseteq 0 .. Capacity - 1
    BY <1>1, <2>1, SectorInFlash
  <2>3. QED
    BY <1>1, <2>2 DEF Fits
<1>5. QED
  BY <1>3, <1>4 DEF SectorReadable

\* mapping_fits, run over the uploaded pages, decides whether the device can
\* show the image.
LEMMA MappingDecides ==
  ASSUME RInv, pc = "check"
  PROVE  MappingFits <=> Fits
<1>1. /\ upload \in Uploads /\ FileInOrder /\ upload.size \in 1 .. 512 /\ upload.header \in BOOLEAN
      /\ DataAt \in {0, 128}
  BY UploadFacts DEF RInv, Types, Contents
<1>2. ASSUME NEW o \in Units
      PROVE  Unshifted(o) = o
  <2>1. DataAt + o \in Files
        /\ cells[DataAt + o] = (IF upload.header THEN Shifted(o) ELSE o)
    BY <1>1, FileCellIs DEF FileInOrder
  <2>2. CASE ~upload.header
    BY <2>1, <2>2 DEF Unshifted
  <2>3. CASE upload.header
    <3>1. o + 1 \in Units \/ o + 1 = upload.size
      BY <1>1 DEF Units
    <3>2. cells[DataAt + (o + 1)] = Shifted(o + 1)
      <4>1. CASE o + 1 \in Units
        BY <1>1, <2>3, <4>1, FileCellIs DEF FileInOrder
      <4>2. CASE o + 1 = upload.size
        BY <1>1, <2>3, <4>2, FileCellIs DEF FileInOrder
      <4>3. QED
        BY <3>1, <4>1, <4>2
    <3>3. DataAt + (o + 1) = DataAt + o + 1
      BY <1>1 DEF Units
    <3>4. QED
      BY <1>1, <2>1, <2>3, <3>2, <3>3, UnshiftedIs
  <2>4. QED
    BY <1>1, <2>2, <2>3
<1>3. \A p \in 0 .. Capacity - 1 : ImageSources(p) \subseteq Units
  BY <1>1, SourcesAre
<1>4. \A p \in 0 .. Capacity - 1 : {Unshifted(o) : o \in ImageSources(p)} = ImageSources(p)
  BY <1>2, <1>3
<1>5. QED
  BY <1>4 DEF MappingFits, Fits

-----------------------------------------------------------------------------
(* No installation is refused without a reason.                            *)

\* Only the check lets an installation past its checks.
LEMMA LaterStays ==
  ASSUME Next, ~Check, pc' \in Later
  PROVE  pc \in Later /\ upload' = upload
<1>1. upload' = upload
  BY DEF Next, Process, Start, Swap, SwapFails, SwapsDone, VerifyRaw, Check, CopyErase, CopyBurn,
         CopyDone, FlashFails, FxProgram, FxFails, FxDone, Erase, Burn, Programmed,
         DescriptorWords, DescriptorMagic, DescriptorFails, Unmount, Console,
         Continue, Complete, Spoilt, Failed, FailedInside, Fail, Go
<1>2. pc \in Later
  BY DEF Later, Next, Process, Start, Swap, SwapFails, SwapsDone, VerifyRaw, CopyErase, CopyBurn,
         CopyDone, FlashFails, FxProgram, FxFails, FxDone, Erase, Burn, Programmed,
         DescriptorWords, DescriptorMagic, DescriptorFails, Unmount, Console,
         Continue, Complete, Spoilt, Failed, FailedInside, Fail, Go
<1>3. QED
  BY <1>1, <1>2

\* Only Burn changes what is final and represented while sectors are programmed.
LEMMA FinalStays ==
  ASSUME Next, ~Burn, pc' \in {"program", "burn"}
  PROVE  /\ UNCHANGED <<upload, final, rep>>
         /\ pc \in {"check", "copy", "fx", "program", "burn"}
<1>1. UNCHANGED <<upload, final, rep>>
  BY DEF Next, Process, Start, Swap, SwapFails, SwapsDone, VerifyRaw, Check, CopyErase, CopyBurn,
         CopyDone, FlashFails, FxProgram, FxFails, FxDone, Erase, Programmed,
         DescriptorWords, DescriptorMagic, DescriptorFails, Unmount, Console, progress,
         Continue, Complete, Spoilt, Failed, FailedInside, Fail, Go
<1>2. pc \in {"check", "copy", "fx", "program", "burn"}
  BY DEF Next, Process, Start, Swap, SwapFails, SwapsDone, VerifyRaw, Check, CopyErase, CopyBurn,
         CopyDone, FlashFails, FxProgram, FxFails, FxDone, Erase, Programmed,
         DescriptorWords, DescriptorMagic, DescriptorFails, Unmount, Console,
         Continue, Complete, Spoilt, Failed, FailedInside, Fail, Go
<1>3. QED
  BY <1>1, <1>2

\* The steps that refuse an installation which nobody has disturbed.
LEMMA OthersAccept ==
  ASSUME Next, ~Check, ~VerifyRaw, ~Erase
  PROVE  status' \in {status, "Programming", "Complete", "Aborted"} \/ disturbed' = TRUE
<1>1. CASE Start
  BY <1>1 DEF Start, Fail
<1>2. CASE Swap \/ SwapsDone \/ CopyErase \/ CopyBurn \/ CopyDone \/ FxProgram \/ FxDone \/ Burn
        \/ DescriptorWords
  BY <1>2 DEF Swap, SwapsDone, CopyErase, CopyBurn, CopyDone, FxProgram, FxDone, Burn,
              DescriptorWords, Continue
<1>3. CASE SwapFails \/ FlashFails \/ FxFails \/ DescriptorFails \/ Unmount \/ Console
  BY <1>3 DEF SwapFails, FlashFails, FxFails, DescriptorFails, Unmount, Console, Spoilt
<1>4. CASE Programmed \/ DescriptorMagic
  BY <1>4 DEF Programmed, DescriptorMagic, Continue, Complete
<1>5. QED
  BY <1>1, <1>2, <1>3, <1>4 DEF Next, Process

\* A sector that has been burnt is represented, and so is what was before.
LEMMA BurnRepresents ==
  ASSUME RInv, AllRepresented, Burn
  PROVE  AllRepresented'
<1>1. /\ upload \in Uploads /\ k \in Nat /\ k < Len(ProgramOrder)
      /\ rep \in [Units -> {None} \cup 0 .. Capacity - 1] /\ final \in SUBSET Sectors
  BY DEF RInv, Types, Contents, Burn, Buffered
<1>2. /\ upload' = upload /\ rep' = Represented(UnitsOf(Current), rep)
      /\ final' = final \cup {Current}
  BY DEF Burn, Continue, Go
<1>3. \A p : (ImageSources(p))' = ImageSources(p)
  BY <1>2, Fixed
<1>4. Current \in Sectors
  BY <1>1, CurrentIs
<1> DEFINE ps == UnitsOf(Current)
           r == Represented(ps, rep)
<1>5. ps \in SUBSET (0 .. Capacity - 1)
  BY <1>1, <1>4, SectorInFlash
<1>6. rep' = r
  BY <1>2
<1> HIDE DEF ps
<1>7. \A o \in Units :
        \/ r[o] \in ps /\ o \in ImageSources(r[o])
        \/ r[o] = rep[o] /\ \A p \in ps : o \notin ImageSources(p)
  BY <1>1, <1>5, RepresentedIs
<1> HIDE DEF r
<1>8. None \notin ps
  BY <1>1, <1>5, UploadFacts DEF None
<1>9. ASSUME NEW s \in final \cup {Current}, NEW p \in UnitsOf(s), NEW o \in ImageSources(p)
      PROVE  r[o] # None
  <2>1. s \in Sectors
    BY <1>1, <1>4
  <2>2. p \in 0 .. Capacity - 1
    BY <1>1, <2>1, SectorInFlash
  <2>3. o \in Units
    BY <1>1, <2>2, SourcesAre
  <2>4. CASE r[o] \in ps
    BY <1>8, <2>4
  <2>5. CASE r[o] = rep[o] /\ \A q \in ps : o \notin ImageSources(q)
    <3>1. p \notin ps
      BY <2>5
    <3>2. s \in final
      BY <3>1 DEF ps
    <3>3. QED
      BY <2>5, <3>2 DEF AllRepresented
  <2>6. QED
    BY <1>7, <2>3, <2>4, <2>5
<1>10. QED
  BY <1>2, <1>3, <1>6, <1>9 DEF AllRepresented

LEMMA RepCompleteKept ==
  ASSUME RInv, RepComplete, Next
  PROVE  RepComplete'
<1>1. SUFFICES ASSUME pc' \in {"program", "burn"} PROVE AllRepresented'
  BY DEF RepComplete
<1>2. CASE Burn
  <2>1. pc = "burn"
    BY <1>2 DEF Burn
  <2>2. QED
    BY <1>2, <2>1, BurnRepresents DEF RepComplete
<1>3. CASE ~Burn
  <2>1. UNCHANGED <<upload, final, rep>> /\ pc \in {"check", "copy", "fx", "program", "burn"}
    BY <1>1, <1>3, FinalStays
  <2>2. AllRepresented
    <3>1. CASE pc \in {"check", "copy", "fx"}
      BY <3>1 DEF RInv, Contents, Fresh, AllRepresented
    <3>2. CASE pc \in {"program", "burn"}
      BY <3>2 DEF RepComplete
    <3>3. QED
      BY <2>1, <3>1, <3>2
  <2>3. \A p : (ImageSources(p))' = ImageSources(p)
    BY <2>1, Fixed
  <2>4. QED
    BY <2>1, <2>2, <2>3 DEF AllRepresented
<1>4. QED
  BY <1>2, <1>3

LEMMA FitsStays ==
  ASSUME upload' = upload
  PROVE  (Fits <=> Fits') /\ (Excused <=> Excused')
<1>1. Capacity' = Capacity /\ \A p : (ImageSources(p))' = ImageSources(p)
  BY Fixed
<1>2. QED
  BY <1>1 DEF Fits, Excused, FileCells

LEMMA CheckedKept ==
  ASSUME RInv, Checked, Next
  PROVE  Checked'
<1>1. SUFFICES ASSUME pc' \in Later PROVE upload'.detected /\ Fits'
  BY DEF Checked
<1>2. CASE Check
  <2>1. pc = "check" /\ upload' = upload
    BY <1>2 DEF Check, Fail, Failed, Go
  <2>2. upload.detected /\ MappingFits
    BY <1>1, <1>2 DEF Check, Fail, Failed, Go, Later
  <2>3. QED
    BY <2>1, <2>2, MappingDecides, FitsStays
<1>3. CASE ~Check
  <2>1. pc \in Later /\ upload' = upload
    BY <1>1, <1>3, LaterStays
  <2>2. QED
    BY <2>1, FitsStays DEF Checked
<1>4. QED
  BY <1>2, <1>3

\* No step refuses an installation but for a reason.
LEMMA NoneRefused ==
  ASSUME RInv, NRInv, Next
  PROVE  NeverRefused'
<1>1. SUFFICES ASSUME status' \in {"FlashError", "InvalidFile"}, ~disturbed'
               PROVE  Excused'
  BY DEF NeverRefused, Excused
<1>2. upload \in Uploads /\ Checked /\ RepComplete
  BY DEF RInv, Types, NRInv
<1>3. CASE Check
  <2>1. pc = "check" /\ upload' = upload
    BY <1>3 DEF Check, Fail, Failed, Go
  <2>2. status \notin {"FlashError", "InvalidFile"}
    BY <2>1 DEF RInv, Placed
  <2>3. ~upload.detected \/ ~MappingFits
    BY <1>1, <1>3, <2>2 DEF Check
  <2>4. Excused
    BY <1>2, <2>1, <2>3, MappingDecides, UnfitExcused DEF Excused
  <2>5. QED
    BY <2>1, <2>4, FitsStays
<1>4. CASE VerifyRaw
  <2>1. pc = "raw" /\ upload' = upload
    BY <1>4 DEF VerifyRaw, Fail, Go
  <2>2. upload.type = "Raw"
    BY <2>1 DEF RInv, Placed
  <2>3. FileCells(upload) # Capacity
    BY <1>1, <1>4 DEF VerifyRaw, Fail
  <2>4. Excused
    BY <2>2, <2>3 DEF Excused
  <2>5. QED
    BY <2>1, <2>4, FitsStays
<1>5. CASE Erase
  <2>1. pc = "program" /\ k < Len(ProgramOrder)
    BY <1>5 DEF Erase
  <2>2. SectorReadable(Current)
    BY <1>2, <2>1, AlwaysReadable DEF RepComplete
  <2>3. status' = status
    BY <1>5, <2>2 DEF Erase, Continue
  <2>4. QED
    BY <1>1, <2>1, <2>3 DEF RInv, Placed
<1>6. CASE ~Check /\ ~VerifyRaw /\ ~Erase
  <2>1. status' = status
    BY <1>1, <1>6, OthersAccept
  <2>2. status \in {"FlashError", "InvalidFile"}
    BY <1>1, <2>1
  <2>3. pc = "done" /\ ~busy
    BY <2>2 DEF RInv, Placed, Types
  <2>4. QED
    BY <2>3
       DEF Next, Process, Start, Swap, SwapFails, SwapsDone, VerifyRaw, Check, CopyErase, CopyBurn,
           CopyDone, FlashFails, FxProgram, FxFails, FxDone, Erase, Burn, Programmed,
           DescriptorWords, DescriptorMagic, DescriptorFails, Unmount, Served, Console
<1>7. QED
  BY <1>3, <1>4, <1>5, <1>6

\* A ROM that the device can show is installed unless the flash, a console or
\* the host gets in the way: for every map, size, device and order of the
\* file's pages, no sector that is programmed overwrites a page which a later
\* one needs and no earlier one shows.
THEOREM NeverRefusedHolds == Spec => []NeverRefused
<1>1. Init => NRInv
  BY DEF Init, NRInv, Checked, Later, RepComplete, NeverRefused
<1>2. RInv /\ NRInv /\ [Next]_vars => NRInv'
  <2>1. ASSUME RInv, NRInv, Next PROVE NRInv'
    BY <2>1, CheckedKept, RepCompleteKept, NoneRefused DEF NRInv
  <2>2. ASSUME NRInv, UNCHANGED vars PROVE NRInv'
    <3>1. UNCHANGED <<upload, status, pc, rep, final, disturbed>>
      BY <2>2 DEF vars
    <3>2. Capacity' = Capacity /\ \A p : (ImageSources(p))' = ImageSources(p)
      BY <3>1, Fixed
    <3>3. QED
      BY <2>2, <3>1, <3>2, FitsStays
         DEF NRInv, Checked, RepComplete, AllRepresented, NeverRefused, Excused
  <2>3. QED
    BY <2>1, <2>2
<1>3. NRInv => NeverRefused
  BY DEF NRInv
<1>4. QED
  BY <1>1, <1>2, <1>3, InstallInvariant, PTL DEF Spec

=============================================================================
