------------------------------ MODULE SdSource ------------------------------
(***************************************************************************)
(* The files on the SD card (src/platform/rp2350/sd_audio_source.cpp): the *)
(* audio and the video stream each read one file, through one sector       *)
(* buffer, one error counter and one mounted volume that they share.  A    *)
(* sector read may be put off (the bus is busy or the exchange cancelled), *)
(* fail (no answer, or a wrong CRC) or be refused, and the card may be     *)
(* pulled or changed at any time.                                          *)
(*                                                                         *)
(* All of it runs on core 1, one call at a time; a call is a step for each *)
(* sector it needs.                                                        *)
(***************************************************************************)
EXTENDS Integers, Sequences, FiniteSets

CONSTANTS
  Cards,           (* the cards                                            *)
  NoCard,
  Clusters,        (* the volume's clusters (valid_cluster)                *)
  Fat,             (* Fat[c][k]: the cluster after k, or an end mark       *)
  File,            (* File[c][s]: first cluster and size of stream s' file *)
  Missing,         (* ... or this                                          *)
  SectorUnits,     (* a sector, in units of data                           *)
  ClusterSectors,  (* sectors_per_cluster                                  *)
  FatEntries,      (* FAT entries in a sector                              *)
  Requests         (* how many units a stream asks for                     *)

Streams == {"audio", "video"}            \* slots 0 and 1
Other(s) == IF s = "audio" THEN "video" ELSE "audio"
ClusterUnits == ClusterSectors * SectorUnits

ASSUME SectorAssumption ==
  /\ SectorUnits \in Nat \ {0} /\ ClusterSectors \in Nat \ {0} /\ FatEntries \in Nat \ {0}
  /\ Requests \subseteq Nat \ {0}
ASSUME CardAssumption ==
  /\ NoCard \notin Cards
  /\ Clusters \subseteq Nat \ {0, 1} /\ IsFiniteSet(Clusters)

\* open_file refuses a file that is larger than the volume, and find_entry one
\* that starts outside it.
ASSUME FileAssumption == \A c \in Cards, s \in Streams :
  File[c][s] # Missing =>
    /\ File[c][s].size \in 0 .. Cardinality(Clusters) * ClusterUnits
    /\ File[c][s].first \in Clusters \/ File[c][s].size = 0

VARIABLES
  card, ready,     (* the card in its slot; it is initialised              *)
  mounted, open,   (* g_mounted, g_open                                    *)
  file,            (* g_files                                              *)
  cached, buffer,  (* g_cached_sector; whose sector g_sector really holds  *)
  errors,          (* g_read_errors                                        *)
  call,            (* the call that is running                             *)
  using, result,   (* the streams: they have opened a file; the answer to  *)
                   (* their last call                                      *)
  chunk,           (* history: the units last copied to each stream        *)
  origin, hurt     (* history: the card a stream's file was opened on; the *)
                   (* card or the other file has failed since then         *)

cardVars == <<card, ready>>
cache == <<cached, buffer, errors>>
history == <<chunk, origin, hurt>>
vars == <<cardVars, mounted, open, file, cache, call, using, result, history>>

NoSector == <<"none", 0, 0>>
BootSector == <<"boot", 0, 0>>
RootSector == <<"root", 0, 0>>
DirSector(s) == <<"dir", IF s = "audio" THEN 0 ELSE 1, 0>>
FatSector(k) == <<"fat", k \div FatEntries, 0>>
DataSector(k, i) == <<"data", k, i>>

Idle == [at |-> "idle", stream |-> "audio", want |-> 0, copied |-> 0]
Closed == [cluster |-> 0, size |-> 0, position |-> 0, offset |-> 0,
           anchor |-> 0, power |-> 1, steps |-> 0]

Init ==
  /\ card \in Cards /\ ready = FALSE
  /\ mounted = FALSE /\ open = [s \in Streams |-> FALSE]
  /\ file = [s \in Streams |-> Closed]
  /\ cached = NoSector /\ buffer = <<NoCard, NoSector>> /\ errors = 0
  /\ call = Idle
  /\ using = [s \in Streams |-> FALSE] /\ result = [s \in Streams |-> "none"]
  /\ chunk = [s \in Streams |-> <<>>]
  /\ origin = [s \in Streams |-> card] /\ hurt = [s \in Streams |-> FALSE]

AllHurt == [s \in Streams |-> TRUE]

-----------------------------------------------------------------------------
(* The card.                                                               *)

ChangeCard ==
  /\ card' \in (Cards \union {NoCard}) \ {card} /\ ready' = FALSE
  /\ hurt' = AllHurt
  /\ UNCHANGED <<mounted, open, file, cache, call, using, result, chunk, origin>>

-----------------------------------------------------------------------------
(* Opening: mount, the root directory, the stream's directory.             *)

Return(s, r) == call' = Idle /\ result' = [result EXCEPT ![s] = r]

\* Mutant: a second stream always mounts the volume again.
InUse_Never(s) == FALSE

\* A volume that the other stream reads from is not mounted again.  (An audio
\* file that is being opened is not open.)
InUse(s) == mounted /\ (open["video"] \/ (s = "video" /\ open["audio"]))

OpenBegin(s) ==
  /\ call = Idle /\ ~using[s]
  /\ call' = [Idle EXCEPT !.at = IF InUse(s) THEN "root" ELSE "mount", !.stream = s]
  /\ IF InUse(s)
     THEN open' = [open EXCEPT ![s] = FALSE] /\ UNCHANGED <<mounted, cache>>
     ELSE /\ mounted' = FALSE /\ open' = [t \in Streams |-> FALSE]
          /\ cached' = NoSector /\ errors' = 0 /\ UNCHANGED buffer
  /\ UNCHANGED <<cardVars, file, using, result, history>>

\* initialize_card, then the boot sector of the volume.
Mount ==
  /\ call.at = "mount" /\ card # NoCard
  /\ ready' = TRUE /\ mounted' = TRUE
  /\ cached' = BootSector /\ buffer' = <<card, BootSector>> /\ errors' = 0
  /\ call' = [call EXCEPT !.at = "root"]
  /\ UNCHANGED <<card, open, file, using, result, history>>

MountFails ==
  /\ call.at = "mount"
  /\ ready' = FALSE
  /\ Return(call.stream, "failed")
  /\ UNCHANGED <<card, mounted, open, file, cache, using, history>>

-----------------------------------------------------------------------------
(* read_sector.                                                            *)

\* The sector the running call needs next.
Current == file[call.stream]
ReadOn == call.copied < call.want /\ Current.position < Current.size
Needed ==
  IF call.at = "root" THEN RootSector
  ELSE IF call.at = "dir" THEN DirSector(call.stream)
  ELSE IF Current.offset = ClusterUnits THEN FatSector(Current.cluster)
  ELSE DataSector(Current.cluster, Current.offset \div SectorUnits)

Fetching == call.at \in {"root", "dir"} \/ (call.at = "read" /\ ReadOn)
Missed == Fetching /\ cached # Needed
Has(at) == call.at = at /\ Fetching /\ cached = Needed

Fetched ==
  /\ Missed /\ ready
  /\ cached' = Needed /\ buffer' = <<card, Needed>> /\ errors' = 0
  /\ UNCHANGED <<cardVars, mounted, open, file, call, using, result, history>>

\* The end of a call without its sector: an open fails, a read returns what it
\* has, or fails and takes the volume with it.
GiveUp(error) ==
  LET s == call.stream IN
  IF call.at # "read"
  THEN Return(s, "failed") /\ UNCHANGED <<mounted, open>>
  ELSE /\ IF error THEN mounted' = FALSE /\ open' = [open EXCEPT ![s] = FALSE]
                   ELSE UNCHANGED <<mounted, open>>
       /\ Return(s, IF call.copied > 0 THEN "data" ELSE IF error THEN "error" ELSE "retry")

\* Mutant: the buffer keeps the name of the sector it held.
Spoiled_Named == buffer' = <<NoCard, NoSector>> /\ UNCHANGED cached

\* The transfer has filled a part of the buffer.
Spoiled == cached' = NoSector /\ buffer' = <<NoCard, NoSector>>

\* The bus is busy, or the exchange was cancelled.
PutOff ==
  /\ Missed
  /\ Spoiled /\ UNCHANGED errors
  /\ GiveUp(FALSE)
  /\ UNCHANGED <<cardVars, file, using, history>>

\* Mutant: a failure is not counted.
Failed_Uncounted ==
  /\ Missed
  /\ Spoiled /\ UNCHANGED errors
  /\ GiveUp(FALSE)
  /\ UNCHANGED <<cardVars, file, using, history>>

\* No answer or a wrong CRC; the third one in a row is an error.  Bound: the
\* counter stays at three, where every failure is an error.
Failed ==
  /\ Missed
  /\ Spoiled /\ errors' = (IF errors < 3 THEN errors + 1 ELSE 3)
  /\ GiveUp(errors' = 3)
  /\ hurt' = (IF errors' = 3 THEN AllHurt ELSE hurt)
  /\ UNCHANGED <<cardVars, file, using, chunk, origin>>

\* The card answers with an error, or not at all to a strange command.
Refused ==
  /\ Missed
  /\ Spoiled /\ UNCHANGED errors
  /\ GiveUp(TRUE)
  /\ hurt' = AllHurt
  /\ UNCHANGED <<cardVars, file, using, chunk, origin>>

-----------------------------------------------------------------------------
(* find_entry.  Bound: each directory is one sector.                       *)

RootFound ==
  /\ Has("root")
  /\ call' = [call EXCEPT !.at = "dir"]
  /\ UNCHANGED <<cardVars, mounted, open, file, cache, using, result, history>>

FileFound ==
  LET s == call.stream
      f == File[buffer[1]][s]
  IN  /\ Has("dir") /\ f # Missing
      /\ file' = [file EXCEPT ![s] = [Closed EXCEPT !.cluster = f.first, !.size = f.size,
                                                    !.anchor = f.first]]
      /\ open' = [open EXCEPT ![s] = TRUE] /\ using' = [using EXCEPT ![s] = TRUE]
      /\ Return(s, "opened")
      /\ chunk' = [chunk EXCEPT ![s] = <<>>]
      /\ origin' = [origin EXCEPT ![s] = buffer[1]]
      /\ hurt' = [hurt EXCEPT ![s] = card # buffer[1] \/ ~ready]
      /\ UNCHANGED <<cardVars, mounted, cache>>

FileMissing ==
  /\ Has("dir") /\ File[buffer[1]][call.stream] = Missing
  /\ Return(call.stream, "failed")
  /\ UNCHANGED <<cardVars, mounted, open, file, cache, using, history>>

-----------------------------------------------------------------------------
(* read_file and close.                                                    *)

\* A stream that was told of an error closes its file.
ReadBegin(s, n) ==
  /\ call = Idle /\ using[s] /\ result[s] \notin {"error", "eof"}
  /\ IF mounted /\ open[s]
     THEN call' = [at |-> "read", stream |-> s, want |-> n, copied |-> 0] /\ UNCHANGED result
     ELSE Return(s, "error")
  /\ UNCHANGED <<cardVars, mounted, open, file, cache, using, history>>

ReadDone ==
  /\ call.at = "read" /\ ~ReadOn
  /\ Return(call.stream, IF call.copied = 0 THEN "eof" ELSE "data")
  /\ UNCHANGED <<cardVars, mounted, open, file, cache, using, history>>

\* A loop in the chain meets a cluster that was remembered after 1, 2, 4, ...
\* clusters (Brent's algorithm).
NextCluster == Fat[buffer[1]][Current.cluster]

Advanced(f, next) ==
  IF f.steps + 1 = f.power
  THEN [f EXCEPT !.cluster = next, !.offset = 0, !.anchor = next, !.steps = 0, !.power = 2 * @]
  ELSE [f EXCEPT !.cluster = next, !.offset = 0, !.steps = @ + 1]

AtCluster == Has("read") /\ Current.offset = ClusterUnits

FollowChain ==
  /\ AtCluster
  /\ NextCluster \in Clusters \ {Current.cluster, Current.anchor}
  /\ file' = [file EXCEPT ![call.stream] = Advanced(Current, NextCluster)]
  /\ UNCHANGED <<cardVars, mounted, open, cache, call, using, result, history>>

ChainBroken ==
  /\ AtCluster
  /\ NextCluster \notin Clusters \ {Current.cluster, Current.anchor}
  /\ GiveUp(TRUE)
  /\ hurt' = [hurt EXCEPT ![Other(call.stream)] = TRUE]
  /\ UNCHANGED <<cardVars, file, cache, using, chunk, origin>>

Least(a, b) == IF a < b THEN a ELSE b

CopyData ==
  LET s == call.stream
      at == Current.offset % SectorUnits
      n == Least(SectorUnits - at,
                 Least(call.want - call.copied, Current.size - Current.position))
  IN  /\ Has("read") /\ Current.offset # ClusterUnits
      /\ file' = [file EXCEPT ![s].position = @ + n, ![s].offset = @ + n]
      /\ call' = [call EXCEPT !.copied = @ + n]
      /\ chunk' = [chunk EXCEPT ![s] = [i \in 1 .. n |-> <<buffer, at + i - 1>>]]
      /\ UNCHANGED <<cardVars, mounted, open, cache, using, result, origin, hurt>>

Close(s) ==
  /\ call = Idle /\ using[s]
  /\ open' = [open EXCEPT ![s] = FALSE] /\ cached' = NoSector
  /\ using' = [using EXCEPT ![s] = FALSE] /\ result' = [result EXCEPT ![s] = "none"]
  /\ file' = [file EXCEPT ![s] = Closed] /\ chunk' = [chunk EXCEPT ![s] = <<>>]
  /\ UNCHANGED <<cardVars, mounted, buffer, errors, call, origin, hurt>>

-----------------------------------------------------------------------------
Working == \/ Mount \/ MountFails \/ RootFound \/ FileFound \/ FileMissing
           \/ ReadDone \/ FollowChain \/ ChainBroken \/ CopyData
Reading == Fetched \/ PutOff \/ Failed \/ Refused
Stream(s) == OpenBegin(s) \/ Close(s) \/ \E n \in Requests : ReadBegin(s, n)

Next == ChangeCard \/ Working \/ Reading \/ \E s \in Streams : Stream(s)
Spec == Init /\ [][Next]_vars

-----------------------------------------------------------------------------
(* Properties.                                                             *)

TypeOK ==
  /\ card \in Cards \union {NoCard} /\ buffer[1] \in Cards \union {NoCard}
  /\ {ready, mounted} \subseteq BOOLEAN
  /\ {open, using, hurt} \subseteq [Streams -> BOOLEAN]
  /\ \A s \in Streams :
       /\ file[s].size > 0 => {file[s].cluster, file[s].anchor} \subseteq Clusters
       /\ file[s].position \in 0 .. file[s].size /\ file[s].offset \in 0 .. ClusterUnits
       /\ open[s] => using[s]
  /\ errors \in 0 .. 3
  /\ call.at \in {"idle", "mount", "root", "dir", "read"} /\ call.stream \in Streams
  /\ call.copied \in 0 .. call.want
  /\ result \in [Streams -> {"none", "failed", "opened", "data", "retry", "error", "eof"}]
  /\ origin \in [Streams -> Cards \union {NoCard}]

\* The clusters of a file, as its card's FAT chains them.
Chain(c, s) ==
  LET link[k \in 0 .. Cardinality(Clusters)] ==
        IF k = 0 THEN File[c][s].first
        ELSE IF link[k - 1] \in Clusters THEN Fat[c][link[k - 1]] ELSE 0
  IN  link
UnitAt(c, s, p) ==
  << <<c, DataSector(Chain(c, s)[p \div ClusterUnits], (p % ClusterUnits) \div SectorUnits)>>,
     p % SectorUnits >>

\* Each stream is given its own file, unit after unit, from the card the file
\* was opened on: whatever the other stream reads in between, however often a
\* sector is read again, and whichever card is in the slot.
BytesInOrder == \A s \in Streams :
  using[s] =>
    \A i \in 1 .. Len(chunk[s]) :
      chunk[s][i] = UnitAt(origin[s], s, file[s].position - Len(chunk[s]) + i - 1)

\* The clusters that a file of its size needs, and whether they are all there.
NeededClusters(c, s) == (File[c][s].size + ClusterUnits - 1) \div ClusterUnits
Sound(c, s) ==
  \A k \in 0 .. NeededClusters(c, s) - 1 :
    /\ Chain(c, s)[k] \in Clusters
    /\ \A j \in 0 .. k - 1 : Chain(c, s)[j] # Chain(c, s)[k]

\* A stream is told of an error only if the card or a file on it is damaged; a
\* file whose chain leaves the volume is not read past its end, and one whose
\* chain loops is left before it was read three times over.
ChainVerdict == \A s \in Streams : using[s] =>
  /\ result[s] = "error" => hurt[s] \/ ~Sound(origin[s], s)
  /\ file[s].position <=
       3 * ClusterUnits * Cardinality({Chain(origin[s], s)[k] : k \in DOMAIN Chain(origin[s], s)} \cap Clusters)

\* Core 1 runs, the bus is not busy for ever, and a stream with a file goes on
\* reading it or closes it.
Fairness == /\ WF_vars(Working)
            /\ \A s \in Streams : SF_vars(call.stream = s /\ (Fetched \/ Failed \/ Refused))
            /\ \A s \in Streams : SF_vars(\E n \in Requests : ReadBegin(s, n))
FairSpec == Spec /\ Fairness

\* A card that does not give another sector is not waited for: every stream
\* comes to the end of its file or is told of an error.
NothingRead == cached' \in {cached, NoSector}
DeadCardNoticed == \A s \in Streams :
  <>[][NothingRead]_vars => []<>(~open[s] \/ result[s] \in {"eof", "error"})
=============================================================================
