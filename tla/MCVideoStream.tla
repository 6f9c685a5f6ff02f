--------------------------- MODULE MCVideoStream ----------------------------
(***************************************************************************)
(* Movies small enough for TLC: a good one of three frames, one of them    *)
(* packed, and a damaged movie of every kind.                              *)
(***************************************************************************)
EXTENDS VideoStream

Lead == [kind |-> "lead"]
MovieHeader(count, duration) ==
  <<Lead, [kind |-> "file", sound |-> TRUE, count |-> count, duration |-> duration]>>
FrameHeader(codec, stored, crc, pts, duration) ==
  <<Lead, [kind |-> "frame", sound |-> TRUE, codec |-> codec, stored |-> stored,
           size |-> Len(crc), crc |-> crc, pts |-> pts, duration |-> duration]>>
Bytes(s) == [i \in DOMAIN s |-> [kind |-> "byte", byte |-> s[i]]]

Frame(codec, bytes, crc, pts, duration) ==
  FrameHeader(codec, Len(bytes), crc, pts, duration) \o Bytes(bytes)

Plain(pts, duration) == Frame(0, <<5>>, <<5>>, pts, duration)

\* A run of two, and one literal.
Packed(pts, duration) == Frame(1, <<255, 7, 0, 9>>, <<7, 7, 9>>, pts, duration)

MCFile ==
  [good      |-> MovieHeader(3, 4) \o Plain(0, 1) \o Packed(1, 2) \o Plain(3, 1),
   badTag    |-> MovieHeader(1, 1) \o Frame(1, <<128, 7>>, <<7>>, 0, 1),
   longRun   |-> MovieHeader(1, 1) \o Frame(1, <<254, 7>>, <<7, 7>>, 0, 1),
   surplus   |-> MovieHeader(1, 1) \o Frame(1, <<255, 7, 0>>, <<7, 7>>, 0, 1),
   shortData |-> MovieHeader(1, 1) \o Frame(1, <<255, 7, 0>>, <<7, 7, 9>>, 0, 1),
   badCrc    |-> MovieHeader(1, 1) \o Frame(0, <<5>>, <<6>>, 0, 1),
   gap       |-> MovieHeader(2, 3) \o Plain(0, 1) \o Plain(2, 1),
   longMovie |-> MovieHeader(1, 2) \o Plain(0, 1),
   noMovie   |-> <<Lead, [kind |-> "file", sound |-> FALSE]>>]

MCMovies == DOMAIN MCFile
=============================================================================
