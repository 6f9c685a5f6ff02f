---------------------------- MODULE MCRomInstall ----------------------------
(* Uploads for the model checker: every map with images of a full, a partial *)
(* and an odd size on the devices that hold them, dumps, copier headers, and *)
(* files whose pages are scattered.                                          *)
EXTENDS RomInstall

Rom(map, size, capacity) ==
  [type |-> "Sfc", map |-> map, size |-> size, capacity |-> capacity,
   header |-> FALSE, dump |-> FALSE, detected |-> TRUE]

WithChain(up, chain) ==
  [type |-> up.type, map |-> up.map, size |-> up.size, capacity |-> up.capacity,
   header |-> up.header, dump |-> up.dump, detected |-> up.detected, chain |-> chain]

InOrder(up) == WithChain(up, [i \in 0 .. FileCells(up) - 1 |-> i])
Headered(up) == [up EXCEPT !.header = TRUE]

\* A small file whose pages are anywhere in the first cells, or far behind.
Scattered(up) ==
  {WithChain(up, [i \in 0 .. FileCells(up) - 1 |-> order[i + 1]]) :
     order \in {q \in [1 .. FileCells(up) -> {0, 1, 2, 7}] : Cardinality(Range(q)) = FileCells(up)}}

Plain ==
  {Rom("LoRom", 1, 32), Rom("LoRom", 16, 32), Rom("LoRom", 40, 512), Rom("LoRom", 96, 256), Rom("LoRom", 128, 512),
   Rom("HiRom", 32, 32), Rom("HiRom", 96, 128), Rom("HiRom", 128, 128), Rom("HiRom", 128, 256), Rom("HiRom", 72, 512),
   Rom("ExLoRom", 192, 512), Rom("ExLoRom", 256, 512), Rom("ExLoRom", 161, 512),
   Rom("ExHiRom", 192, 512), Rom("ExHiRom", 256, 512),
   Rom("Fx3", 32, 512), Rom("Fx3", 96, 512), Rom("Fx3", 128, 512), Rom("Fx3", 128, 256)}

Dump == [Rom("Fx3", 128, 256) EXCEPT !.dump = TRUE]
RawImage == [Rom("LoRom", 32, 32) EXCEPT !.type = "Raw"]

MCUploads ==
  {InOrder(up) : up \in Plain}
  \cup {InOrder(Headered(Rom("LoRom", 128, 512))), InOrder(Headered(Rom("HiRom", 66, 256))),
        InOrder(Headered(Rom("HiRom", 128, 128))), InOrder(Headered(Rom("ExHiRom", 256, 512)))}
  \cup {InOrder(Dump), InOrder(Headered(Dump)), InOrder([Dump EXCEPT !.capacity = 512])}
  \cup {WithChain(RawImage, [i \in 0 .. 31 |-> 31 - i]), InOrder([RawImage EXCEPT !.size = 16]),
        InOrder([Rom("LoRom", 2, 32) EXCEPT !.detected = FALSE]), InOrder(Rom("LoRom", 32, 32))}
  \cup Scattered(Headered(Rom("LoRom", 2, 32)))
=============================================================================
