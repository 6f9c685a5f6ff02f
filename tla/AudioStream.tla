---------------------------- MODULE AudioStream -----------------------------
(***************************************************************************)
(* The audio stream from the SD card to the console (audio/                *)
(* fx3_audio_stream.cpp, built with SUPERFX3_AUDIO_SD).                    *)
(*                                                                         *)
(* Core 1's fx3_audio_task reads an asset into a FIFO, cuts it into HDMA   *)
(* pages, one per frame, and offers the oldest finished page.  The console *)
(* claims the offered page through core 0's bus handlers, at VBlank, and   *)
(* plays it until it claims the next one or releases it.  Pages change     *)
(* hands under g_page_gate; the page states themselves are also read and   *)
(* exchanged outside it, so each of core 1's steps here has one effect     *)
(* that core 0 can see.  Core 0's handlers run one at a time.              *)
(*                                                                         *)
(* An asset is its length in packets of 3 bytes; a BRR block is 3 packets, *)
(* a byte count within a packet is not modelled.  Contents are positions   *)
(* in the asset.  g_error and the statistics only inform the console and   *)
(* are left out.                                                           *)
(***************************************************************************)
EXTENDS Naturals, Sequences, FiniteSetsExt

CONSTANTS
  Assets,       (* the assets on the card, as their lengths                *)
  PageCount,    (* HDMA_PAGE_COUNT                                         *)
  PagePackets,  (* the packets a page may get: whole blocks (by the frame  *)
                (* rate, the SPC level and the rate phase)                 *)
  FifoSize, LowWater, HighWater, Burst,     (* of the FIFO, in packets     *)
  QueueSize,    (* COMMAND_COUNT: slots of the queue, one stays free       *)
  Levels,       (* the levels the console reports, segments in the SPC     *)
  Segment,      (* SPC_SEGMENT_BYTES, in packets                           *)
  MaxSilence    (* bound: silent pages of one session                      *)

Block == 3
PrimingSegments == 4
SpcSegments == 7

ASSUME AssetsAssumption == Assets \subseteq Nat \ {0}
ASSUME PagesAssumption ==
  /\ PageCount \in Nat \ {0}
  /\ PagePackets # {} /\ \A n \in PagePackets : n \in Nat \ {0} /\ n % Block = 0
ASSUME FifoAssumption ==
  /\ {FifoSize, LowWater, HighWater, Burst, MaxSilence} \subseteq Nat
  /\ 0 < Burst /\ Burst <= HighWater /\ LowWater <= HighWater /\ HighWater <= FifoSize
  /\ \A n \in PagePackets : n <= LowWater
ASSUME QueueAssumption == QueueSize \in Nat /\ QueueSize > 1
ASSUME SpcAssumption == Levels \subseteq 0 .. 8 /\ Segment \in Nat

Pages == 0 .. PageCount - 1
NoPage == PageCount

Commands == [op : {"stop", "pause", "resume"}] \union [op : {"play"}, asset : Assets]

VARIABLES
  commands,     (* g_commands, the queued ones                             *)
  resetRequested,
  status,       (* g_status                                                *)
  level, credit,                   (* g_spc_level, g_spc_credit (packets)  *)
  pages, offered, active,          (* g_pages, g_offered_page, g_active_page *)
  stream,       (* core 1's own state of the session                       *)
  pc1, served,  (* core 1: where it is; commands taken by this service     *)
  heard, strobe (* history: packets of the asset, and all packets, claimed *)
                (* in this session                                         *)

shared == <<commands, resetRequested, status, level, credit>>
pageVars == <<pages, offered, active>>
history == <<heard, strobe>>
vars == <<shared, pageVars, stream, pc1, served, history>>

\* first, packets: the part of the asset a page holds, unless it is silent.
\* sequence: the strobe of its first packet.  Nobody reads a free page again
\* before it is built anew, so a page that becomes free is forgotten.
FreePage == [state |-> "Free", generation |-> 0, first |-> 0, packets |-> 0,
             sequence |-> 0, silent |-> FALSE]

\* reset_stream without the pages.  fifo packets wait, read of the asset after
\* the out packets that have left.
Closed == [open |-> FALSE, asset |-> 0, eof |-> FALSE, fifo |-> 0, out |-> 0,
           refilling |-> FALSE, paused |-> FALSE, started |-> FALSE,
           starved |-> FALSE, generation |-> 0, sequence |-> 0, silences |-> 0]

Statuses == {"Idle", "Opening", "Priming", "Playing", "Draining", "Eof",
             "Error", "Underrun", "Paused"}
Streaming == Statuses \ {"Idle", "Eof", "Error"}

PageStates == [state : {"Free", "Building", "Ready", "Active"}, generation : Nat,
               first : Nat, packets : Nat, sequence : Nat, silent : BOOLEAN]

Streams == [open : BOOLEAN, asset : Nat, eof : BOOLEAN, fifo : 0 .. FifoSize, out : Nat,
            refilling : BOOLEAN, paused : BOOLEAN, started : BOOLEAN,
            starved : BOOLEAN, generation : Nat, sequence : Nat, silences : Nat]

TypeOK ==
  /\ commands \in Seq(Commands) /\ Len(commands) < QueueSize
  /\ resetRequested \in BOOLEAN
  /\ status \in Statuses /\ level \in 0 .. 8 /\ credit \in Nat
  /\ pages \in [Pages -> PageStates]
  /\ {offered, active} \subseteq Pages \union {NoPage}
  /\ stream \in Streams
  /\ pc1 \in {"top", "drop", "commands", "opening", "refill", "build", "fill",
              "ready", "offer", "last", "status"}
  /\ served \in 0 .. QueueSize
  /\ heard \in Nat /\ strobe \in Nat

Init ==
  /\ commands = <<>> /\ resetRequested = FALSE
  /\ status = "Idle" /\ level = 0 /\ credit = SpcSegments * Segment
  /\ pages = [i \in Pages |-> FreePage] /\ offered = NoPage /\ active = NoPage
  /\ stream = Closed
  /\ pc1 = "top" /\ served = 0
  /\ heard = 0 /\ strobe = 0

-----------------------------------------------------------------------------
(* Core 0: the console's accesses.                                         *)

UNCHANGED1 == UNCHANGED <<stream, pc1, served>>

\* queue_command; a full queue refuses the command.
HostCommand(c) ==
  /\ Len(commands) < QueueSize - 1
  /\ commands' = Append(commands, c)
  /\ UNCHANGED <<resetRequested, status, level, credit, pageVars, history>> /\ UNCHANGED1

RequestReset ==
  /\ resetRequested' = TRUE
  /\ UNCHANGED <<commands, status, level, credit, pageVars, history>> /\ UNCHANGED1

\* The SPC level; one segment stays free for a partially written block.
HostReport(n) ==
  /\ level' = n
  /\ credit' = IF n >= SpcSegments THEN 0 ELSE (SpcSegments - n) * Segment
  /\ UNCHANGED <<commands, resetRequested, status, pageVars, history>> /\ UNCHANGED1

\* offered_page.
Claimable(i) ==
  /\ i = offered /\ i # NoPage
  /\ status \in {"Priming", "Playing", "Draining", "Underrun"}
  /\ pages[i].state = "Ready"
  /\ credit >= pages[i].packets

\* claim_page: the page offered becomes active, the one before it is free.
HostClaim(i) ==
  /\ Claimable(i)
  /\ pages' = [j \in Pages |-> IF j = i THEN [pages[i] EXCEPT !.state = "Active"]
                               ELSE IF j = active THEN FreePage
                               ELSE pages[j]]
  /\ offered' = NoPage /\ active' = i
  /\ credit' = credit - pages[i].packets
  /\ heard' = heard + (IF pages[i].silent THEN 0 ELSE pages[i].packets)
  /\ strobe' = strobe + pages[i].packets
  /\ UNCHANGED <<commands, resetRequested, status, level>> /\ UNCHANGED1

\* claim_page(NO_PAGE): release_active_page.
HostRelease ==
  /\ active # NoPage /\ active' = NoPage
  /\ pages' = [pages EXCEPT ![active] = FreePage]
  /\ UNCHANGED <<shared, offered, history>> /\ UNCHANGED1

-----------------------------------------------------------------------------
(* Core 1: fx3_audio_task.                                                 *)

Go(from, to) == pc1 = from /\ pc1' = to

\* Mutant: clear_pages frees every page.
ClearPages_All ==
  /\ pages' = [i \in Pages |-> FreePage]
  /\ offered' = NoPage

\* clear_pages: an active page stays until the console lets it go.
ClearPages ==
  /\ pages' = [i \in Pages |-> IF pages[i].state = "Active" THEN pages[i]
                               ELSE FreePage]
  /\ offered' = NoPage

\* reset_stream, as stop, fail and play use it.  No page can be claimed once
\* they are cleared, so the status that follows is part of the step.
ResetStream(next) ==
  /\ ClearPages
  /\ stream' = Closed
  /\ status' = next
  /\ heard' = 0 /\ strobe' = 0
  /\ UNCHANGED active

\* process_command, the reset: commands queued before it, and those queued
\* until it is served, are forgotten.
TakeReset ==
  /\ resetRequested /\ resetRequested' = FALSE
  /\ Go("top", "drop")
  /\ UNCHANGED <<commands, status, level, credit, pageVars, stream, served, history>>

DropCommands ==
  /\ Go("drop", "commands")
  /\ commands' = <<>>
  /\ ResetStream("Idle")
  /\ UNCHANGED <<resetRequested, level, credit, served>>

TakeNoReset ==
  /\ ~resetRequested
  /\ Go("top", "commands")
  /\ UNCHANGED <<shared, pageVars, stream, served, history>>

\* The next command, of kind op; one service takes at most QueueSize.
Take(op, to) ==
  /\ Go("commands", to)
  /\ commands # <<>> /\ served < QueueSize
  /\ Head(commands).op = op
  /\ commands' = Tail(commands) /\ served' = served + 1
  /\ UNCHANGED <<resetRequested, level, credit>>

TakeStop == Take("stop", "commands") /\ ResetStream("Idle")

\* play: refused while a session is under way ...
TakePlayBusy ==
  /\ Take("play", "commands")
  /\ status \in Streaming
  /\ UNCHANGED <<status, pageVars, stream, history>>

\* ... else the asset is opened.
TakePlay ==
  /\ Take("play", "opening")
  /\ status \notin Streaming
  /\ ClearPages
  /\ stream' = [Closed EXCEPT !.asset = Head(commands).asset]
  /\ status' = "Opening"
  /\ heard' = 0 /\ strobe' = 0
  /\ UNCHANGED active

\* The card has no such asset, or cannot be read; or it is open.
OpenFails ==
  /\ Go("opening", "commands")
  /\ ResetStream("Error")
  /\ UNCHANGED <<commands, resetRequested, level, credit, served>>

Open ==
  /\ Go("opening", "commands")
  /\ stream' = [stream EXCEPT !.open = TRUE]
  /\ status' = "Priming"
  /\ UNCHANGED <<commands, resetRequested, level, credit, pageVars, served, history>>

TakePause ==
  /\ Take("pause", "commands")
  /\ IF stream.open \/ (stream.eof /\ status # "Eof")
     THEN stream' = [stream EXCEPT !.paused = TRUE] /\ status' = "Paused"
     ELSE UNCHANGED <<stream, status>>
  /\ UNCHANGED <<pageVars, history>>

TakeResume ==
  /\ Take("resume", "commands")
  /\ stream' = [stream EXCEPT !.paused = FALSE]
  /\ UNCHANGED <<status, pageVars, history>>

CommandsDone ==
  /\ commands = <<>> \/ served = QueueSize
  /\ Go("commands", IF status \in Streaming \ {"Opening"} /\ ~stream.paused
                    THEN "refill" ELSE "top")
  /\ served' = 0
  /\ UNCHANGED <<shared, pageVars, stream, history>>

-----------------------------------------------------------------------------
(* refill_fifo: one read of at most Burst, between the low and the high    *)
(* water mark; then the SPC level may start the playback.                  *)

Refilling == stream.refilling \/ stream.fifo < LowWater
Wanted == Min({HighWater - stream.fifo, Burst})
Unread == stream.asset - stream.out - stream.fifo
Reads == stream.open /\ Refilling /\ stream.fifo < HighWater

Refilled(s) ==
  /\ Go("refill", "build")
  /\ stream' = [s EXCEPT !.started = @ \/ level >= PrimingSegments]
  /\ UNCHANGED <<shared, pageVars, served, history>>

NoRead ==
  /\ ~Reads
  /\ Refilled([stream EXCEPT !.refilling = stream.open /\ Refilling /\ stream.fifo < HighWater])

\* The card is busy: try again with the next service.
ReadRetry == Reads /\ Refilled([stream EXCEPT !.refilling = TRUE])

\* A read may be shorter than what was asked for.
ReadData ==
  /\ Reads
  /\ \E n \in 1 .. Min({Wanted, Unread}) :
        Refilled([stream EXCEPT !.fifo = @ + n, !.refilling = stream.fifo + n < HighWater])

ReadEof ==
  /\ Reads /\ Unread = 0
  /\ Refilled([stream EXCEPT !.open = FALSE, !.eof = TRUE, !.refilling = FALSE])

ReadFails ==
  /\ Reads
  /\ Go("refill", "top")
  /\ ResetStream("Error")
  /\ UNCHANGED <<commands, resetRequested, level, credit, served>>

-----------------------------------------------------------------------------
(* while (build_page()) {}                                                 *)

\* build_page's selected: only core 1 builds, one page at a time.
Built == CHOOSE i \in Pages : pages[i].state = "Building"

Select ==
  /\ \/ \E i \in Pages : /\ pages[i].state = "Free"
                         /\ pages' = [pages EXCEPT ![i].state = "Building"]
                         /\ Go("build", "fill")
     \/ /\ \A i \in Pages : pages[i].state # "Free"
        /\ Go("build", "last")
        /\ UNCHANGED pages
  /\ UNCHANGED <<shared, offered, active, stream, served, history>>

\* Nothing to build: the page is free again.
GiveUp(s) ==
  /\ Go("fill", "last")
  /\ pages' = [pages EXCEPT ![Built] = FreePage]
  /\ stream' = s
  /\ UNCHANGED <<shared, offered, active, served, history>>

\* The page gets the next n packets of the asset, or of silence.
Fill(n, silence) ==
  LET taken == IF silence THEN 0 ELSE n IN
  /\ Go("fill", "ready")
  /\ pages' = [pages EXCEPT ![Built] =
                 [state |-> "Building", generation |-> stream.generation,
                  first |-> stream.out, packets |-> n,
                  sequence |-> stream.sequence, silent |-> silence]]
  /\ stream' = [stream EXCEPT !.generation = @ + 1, !.sequence = @ + n,
                              !.fifo = @ - taken, !.out = @ + taken,
                              !.starved = silence,
                              !.silences = @ + (IF silence THEN 1 ELSE 0)]
  /\ UNCHANGED <<shared, offered, active, served, history>>

SomeReady == \E i \in Pages : pages[i].state = "Ready"
Blocks == stream.fifo \div Block

\* Mutant: the rest of a block stays in the FIFO.
FillPage_RestKept ==
  \E n \in PagePackets :
    \/ stream.eof /\ Blocks > 0 /\ Fill(Min({n, Blocks * Block}), FALSE)
    \/ stream.eof /\ Blocks = 0 /\ GiveUp(stream)
    \/ ~stream.eof /\ stream.fifo >= n /\ Fill(n, FALSE)
    \/ ~stream.eof /\ stream.fifo < n /\ GiveUp(stream)

\* At the end of the asset a page may be shorter, and the rest of a block is
\* dropped; before it, a page that would start the console's next frame late
\* is silent instead.
FillPage ==
  \E n \in PagePackets :
    \/ /\ stream.eof /\ Blocks > 0
       /\ Fill(Min({n, Blocks * Block}), FALSE)
    \/ /\ stream.eof /\ Blocks = 0
       /\ GiveUp([stream EXCEPT !.fifo = 0, !.out = @ + stream.fifo])
    \/ /\ ~stream.eof /\ stream.fifo >= n
       /\ Fill(n, FALSE)
    \/ /\ ~stream.eof /\ stream.fifo < n
       /\ IF stream.started /\ ~SomeReady /\ stream.silences < MaxSilence
          THEN Fill(n, TRUE) ELSE GiveUp(stream)

PageReady ==
  /\ Go("ready", "offer")
  /\ pages' = [pages EXCEPT ![Built].state = "Ready"]
  /\ UNCHANGED <<shared, offered, active, stream, served, history>>

ReadyPages == {i \in Pages : pages[i].state = "Ready"}

\* Mutant: the page built last is offered, not the oldest.
RefreshOffer_Newest ==
  offered' = IF offered # NoPage \/ ReadyPages = {} THEN offered
             ELSE CHOOSE i \in ReadyPages :
                    \A j \in ReadyPages : pages[i].generation >= pages[j].generation

\* refresh_offer: the oldest page that is ready, unless one is offered.
RefreshOffer ==
  offered' = IF offered # NoPage \/ ReadyPages = {} THEN offered
             ELSE CHOOSE i \in ReadyPages :
                    \A j \in ReadyPages : pages[i].generation <= pages[j].generation

Offer ==
  /\ Go("offer", "build") \/ Go("last", "status")
  /\ RefreshOffer
  /\ UNCHANGED <<shared, pages, active, stream, served, history>>

Pending == \E i \in Pages : pages[i].state # "Free"

\* Mutant: the end does not wait for the pages.
StatusNow_Early ==
  IF stream.eof THEN IF stream.fifo = 0 /\ level = 0 THEN "Eof" ELSE "Draining"
  ELSE IF ~stream.started THEN "Priming"
  ELSE IF stream.starved THEN "Underrun" ELSE "Playing"

\* update_status.
StatusNow ==
  IF stream.eof THEN IF stream.fifo = 0 /\ ~Pending /\ level = 0 THEN "Eof" ELSE "Draining"
  ELSE IF ~stream.started THEN "Priming"
  ELSE IF stream.starved THEN "Underrun" ELSE "Playing"

UpdateStatus ==
  /\ Go("status", "top")
  /\ status' = StatusNow
  /\ UNCHANGED <<commands, resetRequested, level, credit, pageVars, stream, served, history>>

-----------------------------------------------------------------------------
Host == \/ \E c \in Commands : HostCommand(c)
        \/ RequestReset
        \/ \E n \in Levels : HostReport(n)
        \/ \E i \in Pages : HostClaim(i)
        \/ HostRelease

Task == \/ TakeReset \/ DropCommands \/ TakeNoReset
        \/ TakeStop \/ TakePlayBusy \/ TakePlay \/ OpenFails \/ Open
        \/ TakePause \/ TakeResume \/ CommandsDone
        \/ NoRead \/ ReadRetry \/ ReadData \/ ReadEof \/ ReadFails
        \/ Select \/ FillPage \/ PageReady \/ Offer \/ UpdateStatus

Next == Host \/ Task
Spec == Init /\ [][Next]_vars

-----------------------------------------------------------------------------
(* Safety.                                                                 *)

\* The page the console may claim continues exactly where the last one it
\* claimed ended, in the asset and in the strobes: across claims, releases,
\* silence and pages built ahead, no packet is lost, repeated or out of order
\* ("Never replay a table", README.md:114), and nothing of an earlier session
\* is offered in a later one.
OfferIsNext ==
  offered # NoPage =>
    /\ pages[offered].state = "Ready"
    /\ pages[offered].sequence = strobe
    /\ ~pages[offered].silent => pages[offered].first = heard

\* "STOP/errors retain ACTIVE data until release" (README.md:114): whatever
\* core 1 does meanwhile, an active table only changes by the console's claim
\* or release.
ActiveImmutable ==
  [][\A i \in Pages : pages[i].state = "Active" =>
       pages'[i] = pages[i] \/ (active = i /\ active' # i)]_vars

\* EOF is reported only when the console has been given every complete block
\* of the asset and holds none of its pages any more.
EofIsComplete ==
  status = "Eof" => heard = stream.asset - (stream.asset % Block) /\ ~Pending

-----------------------------------------------------------------------------
(* Liveness.                                                               *)

\* Core 1 runs; a card that is busy eventually answers; the console goes on
\* claiming and releasing pages and lets the SPC run empty, as the README asks of it.
Fairness ==
  /\ WF_vars(Task) /\ SF_vars(ReadData \/ ReadEof \/ ReadFails)
  /\ WF_vars(\E i \in Pages : HostClaim(i)) /\ WF_vars(HostRelease) /\ WF_vars(HostReport(0))
FairSpec == Spec /\ Fairness

\* A session comes to its end, however often it starved, when the console does
\* not keep it paused and plays what it claims.
SessionEnds ==
  <>[](level = 0 /\ ~stream.paused) => (status \in Streaming ~> status \notin Streaming)
=============================================================================
