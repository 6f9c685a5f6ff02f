---------------------------- MODULE VideoStream -----------------------------
(***************************************************************************)
(* Full-screen video from the SD card (video/fx3_video_stream.cpp, built   *)
(* with SUPERFX3_AUDIO_SD).                                                *)
(*                                                                         *)
(* Core 1's fx3_video_task takes the GSU RAM from the stopped GSU, reads a *)
(* movie in bounded pieces, unpacks frame after frame into two pages of    *)
(* that RAM, and closes the file when the last frame is staged.  The       *)
(* console claims the lowest frame that is ready through core 0's bus      *)
(* handlers and displays it until it claims the next one.  Neither STOP,   *)
(* an error nor the end of the movie gives the RAM back: only RELEASE and  *)
(* a reset do.                                                             *)
(*                                                                         *)
(* A movie is a sequence of units, which stand for the bytes of the file:  *)
(* a header is two units, its "lead" and the record with its fields, and a *)
(* stored byte is one.  Frames are a few bytes long and PackBits works on  *)
(* the real tags.  The CRC-32 compares exactly.  Core 0's handlers run one *)
(* at a time.                                                              *)
(***************************************************************************)
EXTENDS Naturals, Sequences, SequencesExt, FiniteSetsExt

CONSTANTS
  Movies,      (* the movies on the card                                   *)
  File,        (* [Movies -> the units of the movie]                       *)
  ReadSize,    (* the most units one read returns                          *)
  WorkLimit    (* the most bytes one service decodes                       *)

ASSUME LimitsAssumption == {ReadSize, WorkLimit} \subseteq Nat \ {0}

\* Where the headers of frames are, and where what a header announces ends.
Headers(m) == {i \in DOMAIN File[m] : File[m][i].kind = "frame"}
UpTo(m, p) == {i \in Headers(m) : i <= p}
Ends(m) == {2} \union {h + File[m][h].stored : h \in {i \in Headers(m) : File[m][i].sound}}

\* The format, whatever is damaged in it: a header of two units, then frames,
\* each of a header of two units and the bytes it says are stored.  A movie may
\* be cut anywhere, and after a header that is not sound nothing is known.
FormatAssumption ==
  \A m \in Movies :
    /\ File[m] \in Seq(Range(File[m]))
    /\ {1, 2} \intersect Headers(m) = {}
    /\ Len(File[m]) >= 2 /\ File[m][2].sound =>
         File[m][2].count \in Nat \ {0} /\ File[m][2].duration \in Nat
    /\ \A h \in Headers(m) : File[m][h].sound =>
         /\ {File[m][h].stored, File[m][h].pts, File[m][h].duration} \subseteq Nat
         /\ File[m][h].size \in Nat \ {0} /\ File[m][h].codec \in {0, 1}
         /\ UpTo(m, h + File[m][h].stored) = UpTo(m, h)
         /\ \A k \in 1 .. File[m][h].stored :
               h + k <= Len(File[m]) => File[m][h + k].byte \in 0 .. 255
    /\ \A p \in Ends(m) :
         p + 2 \in DOMAIN File[m] => p + 1 \notin Headers(m) /\ p + 2 \in Headers(m)

ASSUME FormatAssumption

Pages == 0 .. 1
NoPage == 2
Commands == [op : {"stop", "release"}] \union [op : {"play"}, movie : Movies]
NoCommand == [op |-> "none"]

VARIABLES
  command, resetRequested,         (* g_command, one slot; g_reset         *)
  status, error,
  pages, active,                   (* g_pages, g_active                    *)
  locked, owner,                   (* g_locked; whose the GSU RAM is       *)
  stream,                          (* core 1's own state of the movie      *)
  pc1, resume,                     (* core 1; where release returns to     *)
  claimed                          (* history: frames claimed so far       *)

requests == <<command, resetRequested>>
results == <<status, error>>
ram == <<locked, owner>>
vars == <<requests, results, pages, active, ram, stream, pc1, resume, claimed>>

\* The contents of a page that is free are forgotten.
FreePage == [state |-> "Free", number |-> 0, data |-> <<>>]

NoFrame == [size |-> 0, stored |-> 0, codec |-> 0, crc |-> <<>>, pts |-> 0,
            duration |-> 0, sound |-> TRUE]

\* left: the units not yet read.  lead: g_header_used.  total: the file header.
\* frame: the frame header, frame.size = 0 before it is read (g_decoded).
\* stored: the bytes of the frame not yet taken.
Closed == [open |-> FALSE, movie |-> "none", left |-> <<>>, input |-> <<>>,
           lead |-> FALSE, total |-> [count |-> 0, duration |-> 0],
           frames |-> 0, end |-> 0, building |-> NoPage,
           frame |-> NoFrame, stored |-> 0, run |-> 0, repeat |-> FALSE,
           need |-> FALSE, value |-> 0, work |-> 0]

FileHeader == stream.total.count = 0

Init ==
  /\ command = NoCommand /\ resetRequested = FALSE
  /\ status = "Idle" /\ error = "None"
  /\ pages = [i \in Pages |-> FreePage] /\ active = NoPage
  /\ locked = FALSE /\ owner = "free"
  /\ stream = Closed /\ pc1 = "top" /\ resume = "top"
  /\ claimed = 0

TypeOK ==
  /\ command \in Commands \union {NoCommand}
  /\ {resetRequested, locked, stream.open, stream.lead, stream.need} \subseteq BOOLEAN
  /\ status \in {"Idle", "Opening", "Streaming", "Eof", "Error"}
  /\ error \in {"None", "Busy", "OpenFailed", "ReadFailed", "InvalidFormat", "BadCrc"}
  /\ \A i \in Pages : /\ pages[i].state \in {"Free", "Building", "Ready", "Active"}
                      /\ stream.building = i => Len(pages[i].data) <= stream.frame.size
  /\ {active, stream.building} \subseteq Pages \union {NoPage}
  /\ owner \in {"free", "gsu", "video"}
  /\ Len(stream.input) <= ReadSize
  /\ stream.run <= stream.frame.size /\ stream.work <= WorkLimit
  /\ pc1 \in {"top", "clear", "command", "free", "unlock", "give", "acquire", "lock",
              "open", "stage", "read", "parse", "decode", "check", "ready", "eof"}
  /\ claimed <= stream.frames \/ ~stream.open

-----------------------------------------------------------------------------
(* Core 0: the console's accesses, and the GSU.                            *)

UNCHANGED1 == UNCHANGED <<stream, pc1, resume>>

\* One command may wait; another one is refused.
HostCommand(c) ==
  /\ IF command = NoCommand THEN command' = c /\ UNCHANGED error
                            ELSE error' = "Busy" /\ UNCHANGED command
  /\ UNCHANGED <<resetRequested, status, pages, active, ram, claimed>> /\ UNCHANGED1

RequestReset ==
  /\ resetRequested' = TRUE
  /\ UNCHANGED <<command, results, pages, active, ram, claimed>> /\ UNCHANGED1

Ready == {i \in Pages : pages[i].state = "Ready"}

\* Mutant: the pages are offered in the order of their index.
Offered_ByIndex == IF Ready = {} THEN NoPage ELSE Min(Ready)

\* offered: the lowest frame that is ready.
Offered == IF Ready = {} THEN NoPage
           ELSE CHOOSE i \in Ready : \A j \in Ready : pages[i].number <= pages[j].number

\* Mutant: the page replaced is never free again.
HostClaim_Kept(i) ==
  /\ i = Offered /\ i # NoPage
  /\ active' = i
  /\ pages' = [pages EXCEPT ![i].state = "Active"]
  /\ claimed' = claimed + 1
  /\ UNCHANGED <<requests, results, ram>> /\ UNCHANGED1

\* A claim replaces the active page, but only by the page offered.
HostClaim(i) ==
  /\ i = Offered /\ i # NoPage
  /\ active' = i
  /\ pages' = [j \in Pages |-> IF j = i THEN [pages[i] EXCEPT !.state = "Active"]
                               ELSE IF j = active THEN FreePage ELSE pages[j]]
  /\ claimed' = claimed + 1
  /\ UNCHANGED <<requests, results, ram>> /\ UNCHANGED1

HostRelease ==
  /\ active # NoPage /\ active' = NoPage
  /\ pages' = [pages EXCEPT ![active] = FreePage]
  /\ UNCHANGED <<requests, results, ram, claimed>> /\ UNCHANGED1

\* The GSU is started, or about to be, unless video has its RAM; it stops.
GsuRuns ==
  /\ owner \in {"free", "gsu"}
  /\ owner' = IF owner = "free" THEN "gsu" ELSE "free"
  /\ UNCHANGED <<requests, results, pages, active, locked, claimed>> /\ UNCHANGED1

-----------------------------------------------------------------------------
(* Core 1: fx3_video_task.                                                 *)

Go(from, to) == pc1 = from /\ pc1' = to

\* Mutant: STOP and errors free the page on display as well.
StopStream_All ==
  /\ pages' = [i \in Pages |-> FreePage]
  /\ stream' = Closed

\* stop: close the file; a page on display stays until it is replaced.
StopStream ==
  /\ pages' = [i \in Pages |-> IF pages[i].state = "Active" THEN pages[i] ELSE FreePage]
  /\ stream' = [Closed EXCEPT !.movie = stream.movie]

\* Mutant: an error gives the RAM back to the GSU.
Fail_Unlocks(from, to, e) ==
  /\ Go(from, to) /\ StopStream
  /\ status' = "Error" /\ error' = e
  /\ locked' = FALSE /\ owner' = IF locked THEN "free" ELSE owner
  /\ UNCHANGED <<requests, active, resume, claimed>>

\* fail.
Fail(from, to, e) ==
  /\ Go(from, to) /\ StopStream
  /\ status' = "Error" /\ error' = e
  /\ UNCHANGED <<requests, active, ram, resume, claimed>>

TakeReset ==
  /\ resetRequested /\ resetRequested' = FALSE
  /\ Go("top", "clear")
  /\ UNCHANGED <<command, results, pages, active, ram, stream, resume, claimed>>

TakeNoReset ==
  /\ ~resetRequested
  /\ Go("top", "command")
  /\ UNCHANGED <<requests, results, pages, active, ram, stream, resume, claimed>>

ClearCommand ==
  /\ Go("clear", "free") /\ resume' = "command"
  /\ command' = NoCommand
  /\ StopStream /\ status' = "Idle"
  /\ UNCHANGED <<resetRequested, error, active, ram, claimed>>

TakeNoCommand ==
  /\ command = NoCommand
  /\ Go("command", "stage")
  /\ UNCHANGED <<requests, results, pages, active, ram, stream, resume, claimed>>

\* g_command.exchange, of kind op.
Take(op, to) ==
  /\ command.op = op /\ command' = NoCommand
  /\ Go("command", to)
  /\ UNCHANGED resetRequested

TakeStop ==
  /\ Take("stop", "stage")
  /\ StopStream /\ status' = "Idle"
  /\ UNCHANGED <<error, active, ram, resume, claimed>>

TakeRelease ==
  /\ Take("release", "free") /\ resume' = "stage"
  /\ StopStream /\ status' = "Idle"
  /\ UNCHANGED <<error, active, ram, claimed>>

\* release, after stop: the page on display, the lock, the RAM.
FreeAll ==
  /\ Go("free", "unlock")
  /\ active' = NoPage /\ pages' = [i \in Pages |-> FreePage]
  /\ UNCHANGED <<requests, results, ram, stream, resume, claimed>>

Unlock ==
  /\ Go("unlock", IF locked THEN "give" ELSE resume)
  /\ locked' = FALSE
  /\ UNCHANGED <<requests, results, pages, active, owner, stream, resume, claimed>>

Give ==
  /\ Go("give", resume)
  /\ owner' = "free"
  /\ UNCHANGED <<requests, results, pages, active, locked, stream, resume, claimed>>

\* play: refused while the RAM is locked, whatever became of the movie.
TakePlayLocked ==
  /\ Take("play", "stage")
  /\ locked /\ error' = "Busy"
  /\ UNCHANGED <<status, pages, active, ram, stream, resume, claimed>>

TakePlay ==
  /\ Take("play", "acquire")
  /\ ~locked /\ error' = "None"
  /\ stream' = [stream EXCEPT !.movie = command.movie]
  /\ UNCHANGED <<status, pages, active, ram, resume, claimed>>

AcquireFails == owner # "free" /\ Fail("acquire", "stage", "Busy")

Acquire ==
  /\ Go("acquire", "lock")
  /\ owner = "free" /\ owner' = "video"
  /\ UNCHANGED <<requests, results, pages, active, locked, stream, resume, claimed>>

Lock ==
  /\ Go("lock", "open")
  /\ locked' = TRUE /\ status' = "Opening"
  /\ UNCHANGED <<requests, error, pages, active, owner, stream, resume, claimed>>

OpenFails == Fail("open", "stage", "OpenFailed")

Open ==
  /\ Go("open", "stage")
  /\ stream' = [Closed EXCEPT !.open = TRUE, !.movie = stream.movie,
                              !.left = File[stream.movie]]
  /\ claimed' = 0
  /\ UNCHANGED <<requests, results, pages, active, ram, resume>>

-----------------------------------------------------------------------------
(* Staging: a page, a read if all input is used, a header or some bytes.   *)

Free == {i \in Pages : pages[i].state = "Free"}
NeedsPage == ~FileHeader /\ stream.building = NoPage

\* No file, or no page to build in.
Rest ==
  /\ ~stream.open \/ (NeedsPage /\ Free = {})
  /\ Go("stage", "top")
  /\ UNCHANGED <<requests, results, pages, active, ram, stream, resume, claimed>>

Select ==
  /\ stream.open /\ (NeedsPage => Free # {})
  /\ Go("stage", "read")
  /\ IF NeedsPage
     THEN /\ pages' = [pages EXCEPT ![Min(Free)].state = "Building"]
          /\ stream' = [stream EXCEPT !.building = Min(Free), !.frame = NoFrame]
     ELSE UNCHANGED <<pages, stream>>
  /\ UNCHANGED <<requests, results, active, ram, resume, claimed>>

InputLeft ==
  /\ stream.input # <<>>
  /\ Go("read", "parse")
  /\ UNCHANGED <<requests, results, pages, active, ram, stream, resume, claimed>>

\* The card is busy: try again with the next service.
ReadRetry ==
  /\ stream.input = <<>>
  /\ Go("read", "top")
  /\ UNCHANGED <<requests, results, pages, active, ram, stream, resume, claimed>>

\* A read may be shorter than what was asked for.
ReadData ==
  /\ stream.input = <<>>
  /\ Go("read", "parse")
  /\ \E n \in 1 .. Min({ReadSize, Len(stream.left)}) :
        stream' = [stream EXCEPT !.input = SubSeq(stream.left, 1, n),
                                 !.left = SubSeq(stream.left, n + 1, Len(stream.left))]
  /\ UNCHANGED <<requests, results, pages, active, ram, resume, claimed>>

\* The card fails, or the file ends before the movie.
ReadFails == stream.input = <<>> /\ Fail("read", "top", "ReadFailed")

ParseHeader == pc1 = "parse" /\ (FileHeader \/ stream.frame.size = 0)
Unit == Head(stream.input)
Used == [stream EXCEPT !.input = Tail(@)]

\* The first part of a header; input that is used up ends the service.
HeaderLead ==
  /\ ParseHeader /\ ~stream.lead
  /\ pc1' = IF Len(stream.input) > 1 THEN "parse" ELSE "top"
  /\ stream' = [Used EXCEPT !.lead = TRUE]
  /\ UNCHANGED <<requests, results, pages, active, ram, resume, claimed>>

FileHeaderDone ==
  /\ ParseHeader /\ stream.lead /\ FileHeader
  /\ Unit.sound
  /\ pc1' = "top"
  /\ stream' = [Used EXCEPT !.lead = FALSE,
                            !.total = [count |-> Unit.count, duration |-> Unit.duration]]
  /\ status' = "Streaming"
  /\ UNCHANGED <<requests, error, pages, active, ram, resume, claimed>>

\* header, for a frame: frames follow each other without a gap.
FrameFits(f) ==
  /\ f.sound /\ f.duration > 0
  /\ f.codec = 0 => f.stored = f.size
  /\ f.pts = stream.end /\ f.pts < stream.total.duration
  /\ f.duration <= stream.total.duration - f.pts

FrameHeaderDone ==
  /\ ParseHeader /\ stream.lead /\ ~FileHeader
  /\ FrameFits(Unit)
  /\ pc1' = "decode"
  /\ stream' = [Used EXCEPT !.lead = FALSE, !.frame = Unit, !.stored = Unit.stored,
                            !.run = 0, !.need = FALSE, !.work = 0]
  /\ pages' = [pages EXCEPT ![stream.building].number = stream.frames]
  /\ UNCHANGED <<requests, results, active, ram, resume, claimed>>

HeaderBad ==
  /\ ParseHeader /\ stream.lead
  /\ IF FileHeader THEN ~Unit.sound ELSE ~FrameFits(Unit)
  /\ Fail("parse", "top", "InvalidFormat")

\* Mutant: a run does not survive the end of a service.
ParseBytes_RunLost ==
  /\ ~ParseHeader
  /\ Go("parse", "decode")
  /\ stream' = [stream EXCEPT !.work = 0, !.run = 0]
  /\ UNCHANGED <<requests, results, pages, active, ram, resume, claimed>>

ParseBytes ==
  /\ ~ParseHeader
  /\ Go("parse", "decode")
  /\ stream' = [stream EXCEPT !.work = 0]
  /\ UNCHANGED <<requests, results, pages, active, ram, resume, claimed>>

-----------------------------------------------------------------------------
(* PackBits: a tag starts a run of literals or of one byte, which may be   *)
(* cut anywhere by the end of the input or of the service's work.          *)

Data == pages[stream.building].data
Decoding == pc1 = "decode" /\ stream.work < WorkLimit /\ Len(Data) < stream.frame.size
NeedsByte == \/ stream.frame.codec = 0 \/ stream.run = 0 \/ stream.need \/ ~stream.repeat
HasByte == stream.stored > 0 /\ stream.input # <<>>

\* One stored byte is taken.
Taken == [Used EXCEPT !.stored = @ - 1]

\* The loop ends: work done, frame complete, or no byte to go on with.
DecodeEnds ==
  /\ Go("decode", "check")
  /\ ~Decoding \/ (NeedsByte /\ ~HasByte)
  /\ UNCHANGED <<requests, results, pages, active, ram, stream, resume, claimed>>

RunLength(tag) == IF tag > 128 THEN 257 - tag ELSE tag + 1

TagFits(tag) == tag # 128 /\ RunLength(tag) <= stream.frame.size - Len(Data)
AtTag == Decoding /\ stream.frame.codec = 1 /\ stream.run = 0 /\ HasByte

DecodeTag ==
  /\ AtTag /\ TagFits(Unit.byte)
  /\ stream' = [Taken EXCEPT !.run = RunLength(Unit.byte), !.repeat = Unit.byte > 128,
                             !.need = Unit.byte > 128]
  /\ UNCHANGED <<requests, results, pages, active, ram, pc1, resume, claimed>>

DecodeBadTag == AtTag /\ ~TagFits(Unit.byte) /\ Fail("decode", "top", "InvalidFormat")

\* The byte a run repeats.
DecodeRepeat ==
  /\ Decoding /\ stream.frame.codec = 1 /\ stream.run > 0 /\ stream.need /\ HasByte
  /\ stream' = [Taken EXCEPT !.value = Unit.byte, !.need = FALSE]
  /\ UNCHANGED <<requests, results, pages, active, ram, pc1, resume, claimed>>

Output(s, byte) ==
  /\ pages' = [pages EXCEPT ![stream.building].data = Append(@, byte)]
  /\ stream' = [s EXCEPT !.work = @ + 1, !.run = IF stream.frame.codec = 0 THEN 0 ELSE @ - 1]
  /\ UNCHANGED <<requests, results, active, ram, pc1, resume, claimed>>

DecodeLiteral ==
  /\ Decoding /\ HasByte
  /\ stream.frame.codec = 0 \/ (stream.run > 0 /\ ~stream.repeat)
  /\ Output(Taken, Unit.byte)

DecodeCopy ==
  /\ Decoding /\ stream.frame.codec = 1 /\ stream.run > 0 /\ stream.repeat /\ ~stream.need
  /\ Output(stream, stream.value)

-----------------------------------------------------------------------------
Complete == Len(Data) = stream.frame.size
CanGoOn == stream.stored > 0 \/ (stream.run > 0 /\ stream.repeat /\ ~stream.need)

\* More input is needed, unless none can complete the frame.
CheckMore ==
  /\ Go("check", "top")
  /\ ~Complete /\ CanGoOn
  /\ UNCHANGED <<requests, results, pages, active, ram, stream, resume, claimed>>

CheckLength ==
  /\ pc1 = "check"
  /\ IF Complete THEN stream.stored > 0 \/ stream.run > 0 ELSE ~CanGoOn
  /\ Fail("check", "top", "InvalidFormat")

Exact == pc1 = "check" /\ Complete /\ stream.stored = 0 /\ stream.run = 0

CheckCrc == Exact /\ Data # stream.frame.crc /\ Fail("check", "top", "BadCrc")

\* validate_frame reads map and palette entries the model does not have; an
\* entry that is out of range is part of frame.sound.
CheckDone ==
  /\ Exact /\ Data = stream.frame.crc
  /\ Go("check", "ready")
  /\ UNCHANGED <<requests, results, pages, active, ram, stream, resume, claimed>>

\* The frame is offered.  After the last one the file is closed, and only the
\* console knows when that frame has been seen.
PageReady ==
  /\ Go("ready", IF stream.frames + 1 = stream.total.count THEN "eof" ELSE "top")
  /\ pages' = [pages EXCEPT ![stream.building].state = "Ready"]
  /\ stream' = [stream EXCEPT !.building = NoPage, !.frames = @ + 1,
                              !.end = stream.frame.pts + stream.frame.duration,
                              !.frame = NoFrame, !.stored = 0, !.run = 0]
  /\ UNCHANGED <<requests, results, active, ram, resume, claimed>>

EofDone ==
  /\ Go("eof", "top")
  /\ stream.end = stream.total.duration
  /\ stream' = [stream EXCEPT !.open = FALSE]
  /\ status' = "Eof"
  /\ UNCHANGED <<requests, error, pages, active, ram, resume, claimed>>

EofBad ==
  /\ stream.end # stream.total.duration
  /\ Fail("eof", "top", "InvalidFormat")

-----------------------------------------------------------------------------
Host == \/ \E c \in Commands : HostCommand(c)
        \/ RequestReset \/ GsuRuns
        \/ \E i \in Pages : HostClaim(i)
        \/ HostRelease

Task == \/ TakeReset \/ TakeNoReset \/ ClearCommand
        \/ TakeNoCommand \/ TakeStop \/ TakeRelease \/ FreeAll \/ Unlock \/ Give
        \/ TakePlayLocked \/ TakePlay \/ AcquireFails \/ Acquire \/ Lock
        \/ OpenFails \/ Open
        \/ Rest \/ Select \/ InputLeft \/ ReadRetry \/ ReadData \/ ReadFails
        \/ HeaderLead \/ FileHeaderDone \/ FrameHeaderDone \/ HeaderBad \/ ParseBytes
        \/ DecodeEnds \/ DecodeTag \/ DecodeBadTag \/ DecodeRepeat
        \/ DecodeLiteral \/ DecodeCopy
        \/ CheckMore \/ CheckLength \/ CheckCrc \/ CheckDone
        \/ PageReady \/ EofDone \/ EofBad

Next == Host \/ Task
Spec == Init /\ [][Next]_vars

-----------------------------------------------------------------------------
(* Safety.                                                                 *)

\* The n-th frame of a movie, as its header describes it.
HeaderOf(m, n) == CHOOSE h \in Headers(m) : Cardinality(UpTo(m, h)) = n
FrameOf(m, n) == File[m][HeaderOf(m, n)]

\* The page the console may claim holds the movie's next frame, complete: none
\* is lost, repeated or shown in part, however the reads cut the file and
\* whatever happened to an earlier movie.
OfferedIsNext ==
  Offered # NoPage =>
    /\ pages[Offered].number = claimed
    /\ pages[Offered].data = FrameOf(stream.movie, claimed + 1).crc

\* "STOP retains ACTIVE and lock": nothing but a claim, a release or a reset
\* touches the page on display.
ActiveKept ==
  [][active # NoPage /\ active' = active => pages'[active] = pages[active]]_vars

\* Pages are staged, offered and displayed only in RAM the GSU cannot touch.
LockCoversPages ==
  stream.open \/ (\E i \in Pages : pages[i].state # "Free") => locked /\ owner = "video"

\* PackBits, a whole byte at a time: what the bytes so far stand for, and the
\* bytes that the last tag still announces.
Whole(data) == [out |-> data, literals |-> 0, repeats |-> 0, valid |-> TRUE]
Nothing == Whole(<<>>)

Unpack(codec, s, byte) ==
  CASE codec = 0      -> [s EXCEPT !.out = Append(@, byte)]
    [] codec = 1 /\ s.repeats > 0 ->
         [s EXCEPT !.out = @ \o [i \in 1 .. s.repeats |-> byte], !.repeats = 0]
    [] codec = 1 /\ s.repeats = 0 /\ s.literals > 0 ->
         [s EXCEPT !.out = Append(@, byte), !.literals = @ - 1]
    [] OTHER ->
         IF byte = 128 THEN [s EXCEPT !.valid = FALSE]
         ELSE IF byte > 128 THEN [s EXCEPT !.repeats = 257 - byte]
         ELSE [s EXCEPT !.literals = byte + 1]

\* After the first k bytes that are stored behind the header at h.
Unpacked(m, h) ==
  LET u[k \in 0 .. File[m][h].stored] ==
        IF k = 0 THEN Nothing ELSE Unpack(File[m][h].codec, u[k - 1], File[m][h + k].byte)
  IN u

Fits(s, size) == s.valid /\ Len(s.out) + s.literals + s.repeats <= size

\* The bytes stored for the frame at h stand for it, all of them and no others.
BytesValid(m, h) ==
  LET f == File[m][h]
  IN /\ h + f.stored <= Len(File[m])
     /\ \A k \in 0 .. f.stored : Fits(Unpacked(m, h)[k], f.size)
     /\ Unpacked(m, h)[f.stored] = Whole(f.crc)
     /\ Len(f.crc) = f.size

EndOf(m, n) == IF n = 0 THEN 0 ELSE FrameOf(m, n).pts + FrameOf(m, n).duration

\* Each frame takes up where the one before it ends, and is in the movie's time.
FrameValid(m, n) ==
  LET f == FrameOf(m, n)
  IN /\ f.sound /\ f.duration > 0 /\ (f.codec = 0 => f.stored = f.size)
     /\ f.pts = EndOf(m, n - 1) /\ EndOf(m, n) <= File[m][2].duration
     /\ BytesValid(m, HeaderOf(m, n))

Valid(m) ==
  /\ Len(File[m]) >= 2 /\ File[m][2].sound
  /\ File[m][2].count <= Cardinality(Headers(m))
  /\ \A n \in 1 .. File[m][2].count : FrameValid(m, n)
  /\ EndOf(m, File[m][2].count) = File[m][2].duration

Damaged == {m \in Movies : ~Valid(m)}

\* A movie is found invalid only if it is, and ended only if it is not and
\* every frame of it was staged: PackBits and the headers come out the same
\* wherever a read or a service ends.
VerdictIsRight ==
  /\ error \in {"InvalidFormat", "BadCrc"} => stream.movie \in Damaged
  /\ status = "Eof" =>
       /\ stream.movie \notin Damaged
       /\ claimed + Cardinality(Ready) = File[stream.movie][2].count

-----------------------------------------------------------------------------
(* Liveness.                                                               *)

\* Core 1 runs, a card that is busy eventually answers, and the console claims
\* the page that is offered.
Fairness == /\ WF_vars(Task) /\ SF_vars(ReadData \/ ReadFails)
            /\ WF_vars(\E i \in Pages : HostClaim(i))
FairSpec == Spec /\ Fairness

\* A movie comes to its end, an error or a stop; and a RELEASE that was accepted
\* gives the RAM back, whatever core 1 was doing.
MovieEnds == status \in {"Opening", "Streaming"} ~> status \notin {"Opening", "Streaming"}
ReleaseUnlocks == command.op = "release" ~> ~locked
SessionsEnd == MovieEnds /\ ReleaseUnlocks
=============================================================================
