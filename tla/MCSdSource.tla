----------------------------- MODULE MCSdSource -----------------------------
(***************************************************************************)
(* Two cards for SdSource.  One holds a fragmented audio file beside a     *)
(* video file whose chain leaves the volume after a cluster; the other no  *)
(* audio file, and a video file whose chain enters a loop of two and whose *)
(* size is that of the volume.                                             *)
(***************************************************************************)
EXTENDS SdSource

CONSTANTS broken, looped      \* the cards

MCCards == {broken, looped}
MCClusters == 2 .. 8

ByCard(b, l) == [c \in MCCards |-> IF c = broken THEN b ELSE l]
Chained(links) == [k \in MCClusters |-> IF k \in DOMAIN links THEN links[k] ELSE 0]
MCFat == ByCard(Chained(<<0, 5, 0, 0, 7>>), Chained(<<0, 0, 4, 3>>))

Entry(first, size) == [first |-> first, size |-> size]
Files(audio, video) == [s \in Streams |-> IF s = "audio" THEN audio ELSE video]
MCFile == ByCard(Files(Entry(2, 9), Entry(4, 5)), Files(Missing, Entry(3, 28)))
=============================================================================
