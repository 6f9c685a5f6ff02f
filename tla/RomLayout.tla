----------------------------- MODULE RomLayout ------------------------------
(***************************************************************************)
(* Which part of a ROM image the SNES sees at which address                *)
(* (storage/snes_rom_layout.cpp), in units of 32 KiB: half a bank, the     *)
(* granularity of every map and of every accepted image size.              *)
(***************************************************************************)
EXTENDS Naturals, FiniteSets

MiB == 32
BusUnits == 16 * MiB                    \* ParallelRomProgrammer::MAX_CAPACITY

Maps == {"LoRom", "HiRom", "ExLoRom", "ExHiRom", "Fx3"}

Bank(u) == u \div 2
UpperHalf(u) == u % 2 = 1

TopBit[n \in Nat] == IF n <= 1 THEN n ELSE 2 * TopBit[n \div 2]

\* An image that is not a power of two is a larger and a smaller part; the
\* smaller one repeats up to the size of the larger one.
MirrorOffset[size \in Nat] ==
  [offset \in Nat |->
     LET mask == TopBit[offset] IN
     IF offset < size THEN offset
     ELSE IF size <= mask THEN MirrorOffset[size][offset - mask]
     ELSE mask + MirrorOffset[size - mask][offset - mask]]

\* What is computed lies in the image, and is the position itself where the
\* image has one, for every size and every position the maps below ask for.
ASSUME MirrorAssumption ==
  \A size \in 1 .. BusUnits, offset \in 0 .. 255 :
    /\ MirrorOffset[size][offset] \in 0 .. size - 1
    /\ offset < size => MirrorOffset[size][offset] = offset

\* The maps that detection tells apart in an image of this size: the extended
\* ones are those of images that the plain ones cannot hold.
DetectedMaps(size) ==
  IF size <= 4 * MiB THEN {"LoRom", "Fx3"} \cup (IF size > 1 THEN {"HiRom"} ELSE {})
  ELSE IF size <= 8 * MiB THEN {"ExLoRom"} \cup (IF size > 4 * MiB + 1 THEN {"ExHiRom"} ELSE {})
  ELSE {}

\* Banks $7E and $7F are the console's RAM; the lower halves of the system
\* banks are its registers, except that the FX3 map fills them too.
HasSource(map, u) ==
  /\ Bank(u) \notin {126, 127}
  /\ map = "Fx3" \/ UpperHalf(u) \/ Bank(u) % 128 >= 64

Linear(map, u) ==
  LET half == u % 2
      b == Bank(u) % 128
  IN CASE map = "LoRom"   -> b
       [] map = "HiRom"   -> 2 * (b % 64) + half
       [] map = "ExLoRom" -> (Bank(u) + 128) % 256
       [] map = "ExHiRom" -> 2 * (b % 64) + half + (IF Bank(u) < 128 THEN 4 * MiB ELSE 0)
       [] map = "Fx3"     -> IF b < 64 THEN b ELSE 2 * (b - 64) + half

SourceOffset(map, size, u) == MirrorOffset[size][Linear(map, u)]

\* The bus addresses that a device of this capacity answers with its unit p,
\* and the units of the image they show.
Aliases(capacity, p) == {p + k * capacity : k \in 0 .. (BusUnits \div capacity) - 1}

Sources(map, size, capacity, p) ==
  {SourceOffset(map, size, u) : u \in {a \in Aliases(capacity, p) : HasSource(map, a)}}
=============================================================================
