------------------------- MODULE AudioStreamProofs --------------------------
(***************************************************************************)
(* Proofs about AudioStream for every asset, page count, page size, FIFO   *)
(* and queue.                                                              *)
(***************************************************************************)
EXTENDS AudioStream, TLAPS

-----------------------------------------------------------------------------
(* The inductive invariant.                                                *)

Working == {"refill", "build", "fill", "ready", "offer", "last", "status"}

\* Where core 1 is, what it has open, and whether the session is under way.
Placed ==
  /\ pc1 \in Working => status \in Streaming
  /\ pc1 = "opening" => ~stream.eof /\ ~stream.open
  /\ stream.eof => ~stream.open

\* One page is being built, from its selection until it is ready; the active
\* page is the one the console holds.
OneOfAKind ==
  /\ \A i \in Pages : pages[i].state = "Building" => pc1 \in {"fill", "ready"}
  /\ pc1 \in {"fill", "ready"} => \E i \in Pages : pages[i].state = "Building"
  /\ \A i, j \in Pages :
        pages[i].state = "Building" /\ pages[j].state = "Building" => i = j
  /\ \A i \in Pages : pages[i].state = "Active" <=> i = active

\* Only whole blocks leave the FIFO, but for the rest of the asset at its end;
\* at its end every packet has left the FIFO or is in it.
Position ==
  /\ stream.out % Block = 0 \/ (stream.eof /\ stream.fifo = 0)
  /\ stream.eof => stream.out + stream.fifo = stream.asset

\* The packets of the asset that have gone into pages.
Cut == stream.out - (stream.out % Block)

\* The pages between core 1 and the console.
Filled(i) == pages[i].state = "Ready" \/ (pages[i].state = "Building" /\ pc1 = "ready")
Taken(i) == IF pages[i].silent THEN 0 ELSE pages[i].packets

\* Page i is the next to be claimed.
Oldest(i) ==
  /\ Filled(i) /\ pages[i].sequence = strobe /\ pages[i].first = heard
  /\ \A j \in Pages : Filled(j) => pages[i].generation <= pages[j].generation

\* Page i ends where the next page will begin.
Youngest(i) ==
  /\ Filled(i) /\ pages[i].generation + 1 = stream.generation
  /\ pages[i].sequence + pages[i].packets = stream.sequence
  /\ pages[i].first + Taken(i) = Cut

\* Page j begins where page i ends.
Follows(i, j) ==
  /\ Filled(j) /\ pages[j].generation = pages[i].generation + 1
  /\ pages[j].sequence = pages[i].sequence + pages[i].packets
  /\ pages[j].first = pages[i].first + Taken(i)

\* They are a chain without a gap, from the last packet claimed to the last
\* one that left the FIFO.
Chain ==
  /\ \A i \in Pages : Filled(i) => pages[i].generation < stream.generation
  /\ \A i, j \in Pages :
        Filled(i) /\ Filled(j) /\ pages[i].generation = pages[j].generation => i = j
  /\ \A i \in Pages : Filled(i) => Youngest(i) \/ \E j \in Pages : Follows(i, j)
  /\ IF \E i \in Pages : Filled(i)
     THEN (\E i \in Pages : Oldest(i)) /\ (\E i \in Pages : Youngest(i))
     ELSE strobe = stream.sequence /\ heard = Cut

OfferOldest == offered # NoPage => pages[offered].state = "Ready" /\ Oldest(offered)

EofDone == status = "Eof" => stream.eof /\ stream.fifo = 0 /\ ~Pending

AInv == TypeOK /\ Placed /\ OneOfAKind /\ Position /\ Chain /\ OfferOldest /\ EofDone

-----------------------------------------------------------------------------
(* Arithmetic of blocks.                                                   *)

LEMMA Least == \A a, b \in Int : Min({a, b}) = IF a <= b THEN a ELSE b
<1> SUFFICES ASSUME NEW a \in Int, NEW b \in Int
             PROVE  Min({a, b}) = IF a <= b THEN a ELSE b
  OBVIOUS
<1> DEFINE m == IF a <= b THEN a ELSE b
<1>1. m \in {a, b} /\ \A y \in {a, b} : m <= y
  OBVIOUS
<1>2. \A x \in {a, b} : (\A y \in {a, b} : x <= y) => x = m
  OBVIOUS
<1> HIDE DEF m
<1>3. Min({a, b}) = m
  BY <1>1, <1>2 DEF Min
<1>4. QED
  BY <1>3 DEF m

LEMMA Sums == \A a, b \in Nat : a % 3 = 0 /\ b % 3 = 0 => (a + b) % 3 = 0
  OBVIOUS

LEMMA Whole == \A a \in Nat : ((a \div 3) * 3) % 3 = 0 /\ (a \div 3) * 3 <= a
                              /\ (a \div 3 > 0 => (a \div 3) * 3 > 0)
                              /\ (a \div 3 = 0 => a < 3)
                              /\ a \div 3 \in Nat
  OBVIOUS

LEMMA Rest == \A a, b \in Nat : a % 3 = 0 /\ b < 3 => (a + b) - ((a + b) % 3) = a
  OBVIOUS

-----------------------------------------------------------------------------
(* Types.                                                                  *)

LEMMA ConstantTypes ==
  /\ PageCount \in Nat \ {0} /\ NoPage \notin Pages /\ 3 \in Nat
  /\ \A n \in PagePackets : n \in Nat \ {0} /\ n % 3 = 0 /\ n <= FifoSize
  /\ Burst \in Nat /\ HighWater \in Nat /\ FifoSize \in Nat /\ HighWater <= FifoSize
  /\ Segment \in Nat /\ QueueSize \in Nat
  BY PagesAssumption, FifoAssumption, QueueAssumption, SpcAssumption
     DEF NoPage, Pages, Block

LEMMA PageTypes == FreePage \in PageStates /\ Closed \in Streams
  BY ConstantTypes DEF FreePage, PageStates, Closed, Streams

\* The parts of a command and of the session a step may change.
LEMMA StreamUpdates ==
  ASSUME NEW s \in Streams
  PROVE  /\ \A n \in Nat : s.fifo + n <= FifoSize =>
               \A b \in BOOLEAN : [s EXCEPT !.fifo = @ + n, !.refilling = b] \in Streams
         /\ \A b \in BOOLEAN : /\ [s EXCEPT !.refilling = b] \in Streams
                               /\ [s EXCEPT !.paused = b] \in Streams
                               /\ [s EXCEPT !.open = b] \in Streams
                               /\ [s EXCEPT !.started = @ \/ b] \in Streams
         /\ \A a \in Nat : [s EXCEPT !.asset = a] \in Streams
         /\ [s EXCEPT !.open = FALSE, !.eof = TRUE, !.refilling = FALSE] \in Streams
         /\ [s EXCEPT !.fifo = 0, !.out = @ + s.fifo] \in Streams
<1>1. /\ s.fifo \in 0 .. FifoSize /\ s.out \in Nat /\ 0 \in 0 .. FifoSize
      /\ s.out + s.fifo \in Nat
  BY ConstantTypes DEF Streams
<1>2. \A n \in Nat : s.fifo + n <= FifoSize => s.fifo + n \in 0 .. FifoSize
  BY <1>1, ConstantTypes
<1>3. QED
  BY <1>1, <1>2 DEF Streams

LEMMA CommandTypes ==
  ASSUME TypeOK, commands # <<>>
  PROVE  /\ Head(commands) \in Commands
         /\ Tail(commands) \in Seq(Commands) /\ Len(Tail(commands)) < QueueSize
         /\ Head(commands).op = "play" => Head(commands).asset \in Nat
<1>1. Head(commands) \in Commands /\ Tail(commands) \in Seq(Commands)
      /\ Len(Tail(commands)) < QueueSize
  BY ConstantTypes DEF TypeOK
<1>2. QED
  BY <1>1, AssetsAssumption DEF Commands

\* The page that is being built, and the pages without it.
LEMMA BuiltPage ==
  ASSUME OneOfAKind, pc1 \in {"fill", "ready"}
  PROVE  /\ Built \in Pages /\ pages[Built].state = "Building"
         /\ \A i \in Pages : pages[i].state = "Building" => i = Built
  BY DEF OneOfAKind, Built

\* What FillPage does, in one of three ways.
LEMMA FillCases ==
  ASSUME TypeOK, FillPage
  PROVE  \/ GiveUp(stream)
         \/ /\ GiveUp([stream EXCEPT !.fifo = 0, !.out = @ + stream.fifo])
            /\ stream.eof /\ stream.fifo < 3
         \/ \E n \in Nat \ {0}, silence \in BOOLEAN :
              /\ Fill(n, silence) /\ n % 3 = 0 /\ ~(stream.eof /\ stream.fifo = 0)
              /\ ~silence => n <= stream.fifo
<1>1. PICK n \in PagePackets :
        \/ stream.eof /\ Blocks > 0 /\ Fill(Min({n, Blocks * Block}), FALSE)
        \/ /\ stream.eof /\ Blocks = 0
           /\ GiveUp([stream EXCEPT !.fifo = 0, !.out = @ + stream.fifo])
        \/ ~stream.eof /\ stream.fifo >= n /\ Fill(n, FALSE)
        \/ ~stream.eof /\ (Fill(n, TRUE) \/ GiveUp(stream))
  BY DEF FillPage
<1>2. n \in Nat \ {0} /\ n % 3 = 0
  BY ConstantTypes
<1>3. stream.fifo \in Nat
  BY DEF TypeOK, Streams
<1>4. CASE stream.eof /\ Blocks > 0 /\ Fill(Min({n, Blocks * Block}), FALSE)
  <2> DEFINE m == Blocks * Block
             k == Min({n, m})
  <2>1. m \in Nat \ {0} /\ m % 3 = 0 /\ m <= stream.fifo
    BY <1>3, <1>4, Whole DEF Blocks, Block
  <2>2. k = IF n <= m THEN n ELSE m
    BY <1>2, <2>1, Least
  <2>3. k \in Nat \ {0} /\ k % 3 = 0 /\ k <= stream.fifo /\ stream.fifo # 0
    BY <1>2, <1>3, <2>1, <2>2
  <2> HIDE DEF k, m
  <2>4. Fill(k, FALSE)
    BY <1>4 DEF k, m
  <2>5. QED
    BY <2>3, <2>4
<1>5. CASE stream.eof /\ Blocks = 0
           /\ GiveUp([stream EXCEPT !.fifo = 0, !.out = @ + stream.fifo])
  BY <1>3, <1>5, Whole DEF Blocks, Block
<1>6. CASE ~stream.eof /\ stream.fifo >= n /\ Fill(n, FALSE)
  BY <1>2, <1>3, <1>6
<1>7. CASE ~stream.eof /\ (Fill(n, TRUE) \/ GiveUp(stream))
  BY <1>2, <1>7
<1>8. QED
  BY <1>1, <1>4, <1>5, <1>6, <1>7

\* The pages stay pages.
LEMMA PagesTyped ==
  ASSUME pages \in [Pages -> PageStates]
  PROVE  /\ \A i \in Pages, t \in {"Free", "Building", "Ready", "Active"} :
              [pages EXCEPT ![i].state = t] \in [Pages -> PageStates]
         /\ \A i \in Pages, p \in PageStates : [pages EXCEPT ![i] = p] \in [Pages -> PageStates]
         /\ ClearPages => pages' \in [Pages -> PageStates]
         /\ \A i \in Pages : HostClaim(i) => pages' \in [Pages -> PageStates]
<1>1. \A i \in Pages, t \in {"Free", "Building", "Ready", "Active"} :
         [pages[i] EXCEPT !.state = t] \in PageStates
  BY DEF PageStates
<1>2. QED
  BY <1>1, PageTypes DEF ClearPages, HostClaim

LEMMA TypeStep == TypeOK /\ OneOfAKind /\ [Next]_vars => TypeOK'
<1> SUFFICES ASSUME TypeOK, OneOfAKind, [Next]_vars PROVE TypeOK'
  OBVIOUS
<1> USE ConstantTypes, PageTypes
<1>1. ASSUME NEW c \in Commands, HostCommand(c) PROVE TypeOK'
  <2>1. Len(commands) < QueueSize - 1 /\ commands' = Append(commands, c)
    BY <1>1 DEF HostCommand
  <2>2. commands' \in Seq(Commands) /\ Len(commands') < QueueSize
    BY <2>1 DEF TypeOK
  <2>3. QED
    BY <1>1, <2>2 DEF TypeOK, HostCommand, UNCHANGED1, pageVars, history
<1>2. CASE RequestReset
  BY <1>2 DEF TypeOK, RequestReset, UNCHANGED1, pageVars, history
<1>3. ASSUME NEW n \in Levels, HostReport(n) PROVE TypeOK'
  <2>1. n \in 0 .. 8 /\ (n < 7 => (7 - n) * Segment \in Nat)
    BY SpcAssumption
  <2>2. QED
    BY <1>3, <2>1 DEF TypeOK, HostReport, UNCHANGED1, pageVars, history, SpcSegments
<1>4. ASSUME NEW i \in Pages, HostClaim(i) PROVE TypeOK'
  <2>1. pages' \in [Pages -> PageStates] /\ pages[i] \in PageStates
    BY <1>4, PagesTyped DEF TypeOK
  <2>2. pages[i].packets \in Nat
    BY <2>1 DEF PageStates
  <2>3. /\ credit' \in Nat /\ heard' \in Nat /\ strobe' \in Nat
    <3>1. /\ credit' = credit - pages[i].packets /\ credit >= pages[i].packets
          /\ heard' = heard + (IF pages[i].silent THEN 0 ELSE pages[i].packets)
          /\ strobe' = strobe + pages[i].packets
      BY <1>4, Zenon DEF HostClaim, Claimable
    <3>2. credit \in Nat /\ heard \in Nat /\ strobe \in Nat
      BY Zenon DEF TypeOK
    <3>3. QED
      BY <2>2, <3>1, <3>2
  <2>4. QED
    BY <1>4, <2>1, <2>3 DEF HostClaim, TypeOK, UNCHANGED1
<1>5. CASE HostRelease
  <2>1. active \in Pages
    BY <1>5 DEF HostRelease, TypeOK
  <2>2. QED
    BY <1>5, <2>1, PagesTyped DEF HostRelease, TypeOK, UNCHANGED1, shared, history
<1>6. CASE TakeReset \/ TakeNoReset
  BY <1>6 DEF TypeOK, TakeReset, TakeNoReset, Go, pageVars, history, shared
<1>7. CASE DropCommands
  <2>1. <<>> \in Seq(Commands) /\ Len(<<>>) < QueueSize
    BY QueueAssumption
  <2>2. QED
    BY <1>7, <2>1, PagesTyped DEF TypeOK, DropCommands, ResetStream, ClearPages, Go, Statuses
<1>8. CASE TakeStop
  BY <1>8, CommandTypes, PagesTyped, SMTT(30) DEF TypeOK, TakeStop, Take, ResetStream, ClearPages, Go, Statuses
<1>9. CASE TakePlayBusy
  BY <1>9, CommandTypes DEF TypeOK, TakePlayBusy, Take, Go, pageVars, history
<1>10. CASE TakePlay
  <2>1. Head(commands).asset \in Nat
    BY <1>10, CommandTypes DEF TakePlay, Take
  <2>2. stream' \in Streams
    BY <1>10, <2>1, StreamUpdates DEF TakePlay
  <2>3. QED
    BY <1>10, <2>2, CommandTypes, PagesTyped, SMTT(30) DEF TypeOK, TakePlay, Take, ClearPages, Go, Statuses
<1>11. CASE OpenFails
  BY <1>11, PagesTyped DEF TypeOK, OpenFails, ResetStream, ClearPages, Go, Statuses
<1>12. CASE Open
  BY <1>12, StreamUpdates DEF TypeOK, Open, Go, Statuses, pageVars, history
<1>13. CASE TakePause
  <2>1. stream' \in Streams /\ status' \in Statuses
    BY <1>13, StreamUpdates DEF TypeOK, TakePause, Statuses
  <2>2. QED
    BY <1>13, <2>1, CommandTypes, SMTT(30) DEF TypeOK, TakePause, Take, Go, pageVars, history
<1>14. CASE TakeResume
  <2>1. stream' \in Streams
    BY <1>14, StreamUpdates DEF TypeOK, TakeResume
  <2>2. QED
    BY <1>14, <2>1, CommandTypes, SMTT(30) DEF TypeOK, TakeResume, Take, Go, pageVars, history
<1>15. CASE CommandsDone
  BY <1>15 DEF TypeOK, CommandsDone, Go, shared, pageVars, history
<1>16. ASSUME NEW s \in Streams, Refilled(s) PROVE TypeOK'
  <2>1. stream' \in Streams
    BY <1>16, StreamUpdates DEF Refilled, TypeOK
  <2>2. QED
    BY <1>16, <2>1 DEF TypeOK, Refilled, Go, shared, pageVars, history
<1>17. CASE NoRead \/ ReadRetry
  <2>1. PICK b \in BOOLEAN : Refilled([stream EXCEPT !.refilling = b])
    BY <1>17 DEF NoRead, ReadRetry, TypeOK, Streams
  <2>2. QED
    BY <1>16, <2>1, StreamUpdates DEF TypeOK
<1>18. CASE ReadData
  <2>1. stream.fifo \in Nat /\ stream.fifo < HighWater
    BY <1>18 DEF ReadData, Reads, TypeOK, Streams
  <2>2. PICK n \in 1 .. Min({Wanted, Unread}) :
          Refilled([stream EXCEPT !.fifo = @ + n, !.refilling = stream.fifo + n < HighWater])
    BY <1>18 DEF ReadData
  <2>3. Wanted \in Int /\ Wanted <= HighWater - stream.fifo
    BY <2>1, Least DEF Wanted
  <2>4. Unread \in Int
    BY SMTT(30) DEF Unread, TypeOK, Streams
  <2>5. Min({Wanted, Unread}) \in Int /\ Min({Wanted, Unread}) <= Wanted
    BY <2>3, <2>4, Least
  <2>6. n \in Nat /\ stream.fifo + n <= FifoSize
    BY <2>1, <2>2, <2>3, <2>5
  <2>7. [stream EXCEPT !.fifo = @ + n, !.refilling = stream.fifo + n < HighWater] \in Streams
    <3>1. ASSUME NEW b \in BOOLEAN
          PROVE  [stream EXCEPT !.fifo = @ + n, !.refilling = b] \in Streams
      BY <2>6, StreamUpdates DEF TypeOK
    <3>2. (stream.fifo + n < HighWater) \in BOOLEAN
      OBVIOUS
    <3>3. QED
      BY <3>1, <3>2
  <2>8. QED
    BY <1>16, <2>2, <2>7
<1>19. CASE ReadEof
  BY <1>16, <1>19, StreamUpdates DEF ReadEof, TypeOK
<1>20. CASE ReadFails
  BY <1>20, PagesTyped DEF TypeOK, ReadFails, ResetStream, ClearPages, Go, Statuses
<1>21. CASE Select
  <2>1. pages' \in [Pages -> PageStates]
    <3>1. CASE pages' = pages
      BY <3>1 DEF TypeOK
    <3>2. CASE \E i \in Pages : pages' = [pages EXCEPT ![i].state = "Building"]
      <4>1. PICK i \in Pages : pages' = [pages EXCEPT ![i].state = "Building"]
        BY <3>2
      <4>2. [pages EXCEPT ![i].state = "Building"] \in [Pages -> PageStates]
        BY PagesTyped DEF TypeOK
      <4>3. QED
        BY <4>1, <4>2
    <3>3. QED
      BY <1>21, <3>1, <3>2 DEF Select
  <2>2. QED
    BY <1>21, <2>1 DEF TypeOK, Select, Go, shared, history
<1>22. ASSUME NEW s \in Streams, GiveUp(s) PROVE TypeOK'
  <2>1. pages' \in [Pages -> PageStates]
    BY <1>22, BuiltPage, PagesTyped DEF TypeOK, GiveUp, Go
  <2>2. QED
    BY <1>22, <2>1 DEF TypeOK, GiveUp, Go, shared, history
<1>23. ASSUME NEW n \in Nat \ {0}, NEW silence \in BOOLEAN, Fill(n, silence),
              ~silence => n <= stream.fifo
       PROVE  TypeOK'
  <2> DEFINE p == [state |-> "Building", generation |-> stream.generation,
                   first |-> stream.out, packets |-> n,
                   sequence |-> stream.sequence, silent |-> silence]
             t == IF silence THEN 0 ELSE n
  <2>1. p \in PageStates
    BY DEF PageStates, TypeOK, Streams
  <2>2. t \in Nat /\ t <= stream.fifo
    BY <1>23 DEF TypeOK, Streams
  <2>3. pages' = [pages EXCEPT ![Built] = p]
    BY <1>23 DEF Fill
  <2> HIDE DEF p
  <2>4. pages' \in [Pages -> PageStates]
    BY <1>23, <2>1, <2>3, BuiltPage, PagesTyped DEF TypeOK, Fill, Go
  <2>5. stream' = [stream EXCEPT !.generation = @ + 1, !.sequence = @ + n,
                                 !.fifo = @ - t, !.out = @ + t,
                                 !.starved = silence,
                                 !.silences = @ + (IF silence THEN 1 ELSE 0)]
    BY <1>23 DEF Fill
  <2> HIDE DEF t
  <2>6. stream' \in Streams
    <3>1. /\ stream.fifo - t \in 0 .. FifoSize /\ stream.out + t \in Nat
          /\ stream.generation + 1 \in Nat /\ stream.sequence + n \in Nat
          /\ stream.silences + (IF silence THEN 1 ELSE 0) \in Nat
      <4>1. /\ stream.fifo \in 0 .. FifoSize /\ stream.out \in Nat
            /\ stream.generation \in Nat /\ stream.sequence \in Nat /\ stream.silences \in Nat
        BY DEF TypeOK, Streams
      <4>2. QED
        BY <2>2, <4>1
    <3>2. QED
      BY <2>5, <3>1 DEF TypeOK, Streams
  <2>7. QED
    BY <1>23, <2>4, <2>6 DEF TypeOK, Fill, Go, shared, history
<1>24. CASE FillPage
  BY <1>22, <1>23, <1>24, FillCases, StreamUpdates DEF TypeOK
<1>25. CASE PageReady
  BY <1>25, BuiltPage, PagesTyped DEF TypeOK, PageReady, Go, shared, history
<1>26. CASE Offer
  <2>1. offered' \in Pages \union {NoPage}
    BY <1>26 DEF Offer, RefreshOffer, TypeOK, ReadyPages
  <2>2. QED
    BY <1>26, <2>1 DEF TypeOK, Offer, Go, shared, history
<1>27. CASE UpdateStatus
  BY <1>27 DEF TypeOK, UpdateStatus, StatusNow, Statuses, Go, pageVars, history
<1>28. CASE UNCHANGED vars
  BY <1>28 DEF TypeOK, vars, shared, pageVars, history
<1>29. QED
  BY <1>1, <1>2, <1>3, <1>4, <1>5, <1>6, <1>7, <1>8, <1>9, <1>10, <1>11, <1>12,
     <1>13, <1>14, <1>15, <1>17, <1>18, <1>19, <1>20, <1>21, <1>24, <1>25, <1>26,
     <1>27, <1>28 DEF Next, Host, Task

-----------------------------------------------------------------------------
(* Most steps do nothing to the pages, or clear them.                      *)

Building == pc1 \in {"fill", "ready"}

Calm ==
  /\ UNCHANGED <<pages, offered, active, heard, strobe>>
  /\ stream'.out = stream.out /\ stream'.generation = stream.generation
  /\ stream'.sequence = stream.sequence
  /\ pc1' = "ready" <=> pc1 = "ready"
  /\ Building' <=> Building

Cleared ==
  /\ ClearPages /\ active' = active
  /\ stream'.out = 0 /\ stream'.generation = 0 /\ stream'.sequence = 0
  /\ heard' = 0 /\ strobe' = 0
  /\ ~Building /\ ~Building'

LEMMA StepKinds ==
  ASSUME TypeOK, [Next]_vars
  PROVE  \/ Calm \/ Cleared
         \/ \E i \in Pages : HostClaim(i)
         \/ HostRelease \/ Select \/ FillPage \/ PageReady \/ Offer
<1> USE DEF Calm, Building, pageVars, history, Go
<1>1. CASE UNCHANGED vars
  BY <1>1 DEF vars
<1>2. CASE (\E c \in Commands : HostCommand(c)) \/ RequestReset
           \/ \E n \in Levels : HostReport(n)
  BY <1>2 DEF HostCommand, RequestReset, HostReport, UNCHANGED1
<1>3. CASE TakeReset \/ TakeNoReset \/ TakePlayBusy \/ CommandsDone \/ UpdateStatus
  BY <1>3 DEF TakeReset, TakeNoReset, TakePlayBusy, Take, CommandsDone, UpdateStatus
<1>4. CASE TakePause \/ TakeResume \/ Open
  <2>1. /\ stream'.out = stream.out /\ stream'.generation = stream.generation
        /\ stream'.sequence = stream.sequence
    BY <1>4 DEF TakePause, TakeResume, Open, TypeOK, Streams
  <2>2. QED
    BY <1>4, <2>1 DEF TakePause, TakeResume, Open, Take
<1>5. CASE NoRead \/ ReadRetry \/ ReadData \/ ReadEof
  <2>1. /\ stream'.out = stream.out /\ stream'.generation = stream.generation
        /\ stream'.sequence = stream.sequence
    BY <1>5 DEF NoRead, ReadRetry, ReadData, ReadEof, Refilled, TypeOK, Streams
  <2>2. QED
    BY <1>5, <2>1 DEF NoRead, ReadRetry, ReadData, ReadEof, Refilled
<1>6. CASE DropCommands \/ TakeStop \/ OpenFails \/ ReadFails
  BY <1>6 DEF DropCommands, TakeStop, OpenFails, ReadFails, Take, ResetStream, Cleared, Closed
<1>7. CASE TakePlay
  BY <1>7 DEF TakePlay, Take, Cleared, Closed
<1>8. QED
  BY <1>1, <1>2, <1>3, <1>4, <1>5, <1>6, <1>7 DEF Next, Host, Task

LEMMA KindStep == TypeOK /\ OneOfAKind /\ [Next]_vars => OneOfAKind'
<1> SUFFICES ASSUME TypeOK, OneOfAKind, [Next]_vars PROVE OneOfAKind'
  OBVIOUS
<1> USE ConstantTypes
<1>1. CASE Calm
  BY <1>1 DEF OneOfAKind, Calm, Building
<1>2. CASE Cleared
  BY <1>2 DEF OneOfAKind, Cleared, ClearPages, Building, FreePage, TypeOK
<1>3. ASSUME NEW i \in Pages, HostClaim(i) PROVE OneOfAKind'
  <2>1. /\ pages[i].state = "Ready" /\ active' = i /\ pc1' = pc1 /\ i # active
        /\ \A j \in Pages : pages'[j].state = IF j = i THEN "Active"
                                              ELSE IF j = active THEN "Free" ELSE pages[j].state
    BY <1>3 DEF HostClaim, Claimable, UNCHANGED1, TypeOK, PageStates, FreePage, OneOfAKind
  <2>2. QED
    BY <2>1 DEF OneOfAKind
<1>4. CASE HostRelease
  <2>1. /\ active \in Pages /\ active' = NoPage /\ pc1' = pc1
        /\ \A j \in Pages : pages'[j].state = IF j = active THEN "Free" ELSE pages[j].state
    BY <1>4 DEF HostRelease, UNCHANGED1, TypeOK, FreePage
  <2>2. QED
    BY <2>1 DEF OneOfAKind
<1>5. CASE Select
  <2>1. CASE pages' = pages /\ pc1 = "build" /\ pc1' = "last"
    BY <1>5, <2>1 DEF Select, OneOfAKind
  <2>2. CASE \E i \in Pages : /\ pages[i].state = "Free"
                              /\ pages' = [pages EXCEPT ![i].state = "Building"]
                              /\ pc1 = "build" /\ pc1' = "fill"
    <3>1. PICK i \in Pages : /\ pages[i].state = "Free"
                             /\ pages' = [pages EXCEPT ![i].state = "Building"]
                             /\ pc1 = "build" /\ pc1' = "fill"
      BY <2>2
    <3>2. \A j \in Pages : pages'[j].state = IF j = i THEN "Building" ELSE pages[j].state
      BY <3>1 DEF TypeOK, PageStates
    <3>3. active' = active
      BY <1>5 DEF Select
    <3>4. QED
      BY <3>1, <3>2, <3>3 DEF OneOfAKind
  <2>3. QED
    BY <1>5, <2>1, <2>2 DEF Select, Go
<1>6. ASSUME NEW to, NEW t, pc1 \in {"fill", "ready"}, pc1' = to, active' = active,
             \A j \in Pages : pages'[j].state = IF j = Built THEN t ELSE pages[j].state,
             \/ to = "ready" /\ t = "Building"
             \/ to \in {"offer", "last"} /\ t \in {"Free", "Ready"}
      PROVE  OneOfAKind'
  <2>1. /\ Built \in Pages /\ pages[Built].state = "Building"
        /\ \A j \in Pages : pages[j].state = "Building" => j = Built
    BY <1>6, BuiltPage
  <2>2. QED
    BY <1>6, <2>1 DEF OneOfAKind
<1>7. ASSUME NEW s, GiveUp(s) PROVE OneOfAKind'
  <2>1. \A j \in Pages : pages'[j].state = IF j = Built THEN "Free" ELSE pages[j].state
    BY <1>7 DEF GiveUp, TypeOK, FreePage
  <2>2. QED
    BY <1>6, <1>7, <2>1 DEF GiveUp, Go
<1>8. ASSUME NEW n, NEW silence, Fill(n, silence) PROVE OneOfAKind'
  <2>1. \A j \in Pages : pages'[j].state = IF j = Built THEN "Building" ELSE pages[j].state
    BY <1>8 DEF Fill, TypeOK
  <2>2. QED
    BY <1>6, <1>8, <2>1 DEF Fill, Go
<1>9. CASE FillPage
  BY <1>7, <1>8, <1>9, FillCases
<1>10. CASE PageReady
  <2>1. \A j \in Pages : pages'[j].state = IF j = Built THEN "Ready" ELSE pages[j].state
    BY <1>10 DEF PageReady, TypeOK, PageStates
  <2>2. QED
    BY <1>6, <1>10, <2>1 DEF PageReady, Go
<1>11. CASE Offer
  BY <1>11 DEF Offer, Go, OneOfAKind
<1>12. QED
  BY <1>1, <1>2, <1>3, <1>4, <1>5, <1>9, <1>10, <1>11, StepKinds

\* A step leaves the state of core 1 as it was, unless it is core 1's own.
LEMMA PlacedStep == TypeOK /\ Placed /\ [Next]_vars => Placed'
<1> SUFFICES ASSUME TypeOK, Placed, [Next]_vars PROVE Placed'
  OBVIOUS
<1> USE DEF Placed, Working, Go, shared
<1>1. CASE Host \/ UNCHANGED vars
  BY <1>1 DEF Host, HostCommand, RequestReset, HostReport, HostClaim, HostRelease,
     UNCHANGED1, vars
<1>2. CASE TakeReset \/ TakeNoReset \/ DropCommands \/ TakeStop \/ TakePlayBusy \/ TakePlay
  BY <1>2 DEF TakeReset, TakeNoReset, DropCommands, TakeStop, TakePlayBusy, TakePlay, Take,
     ResetStream, Closed
<1>3. CASE OpenFails \/ Open
  BY <1>3 DEF OpenFails, Open, ResetStream, Closed, TypeOK, Streams
<1>4. CASE TakePause \/ TakeResume
  <2>1. stream'.eof = stream.eof /\ stream'.open = stream.open
    BY <1>4 DEF TakePause, TakeResume, TypeOK, Streams
  <2>2. QED
    BY <1>4, <2>1 DEF TakePause, TakeResume, Take
<1>5. CASE CommandsDone
  BY <1>5 DEF CommandsDone
<1>6. CASE NoRead \/ ReadRetry \/ ReadData
  <2>1. stream'.eof = stream.eof /\ stream'.open = stream.open
    BY <1>6 DEF NoRead, ReadRetry, ReadData, Refilled, TypeOK, Streams
  <2>2. QED
    BY <1>6, <2>1 DEF NoRead, ReadRetry, ReadData, Refilled
<1>7. CASE ReadEof
  <2>1. stream'.open = FALSE
    BY <1>7 DEF ReadEof, Refilled, TypeOK, Streams
  <2>2. QED
    BY <1>7, <2>1 DEF ReadEof, Refilled
<1>8. CASE ReadFails
  BY <1>8 DEF ReadFails, ResetStream, Closed
<1>9. CASE Select \/ PageReady \/ Offer
  BY <1>9 DEF Select, PageReady, Offer
<1>10. CASE FillPage
  <2>1. ASSUME NEW s, GiveUp(s), s.eof = stream.eof, s.open = stream.open PROVE Placed'
    BY <2>1 DEF GiveUp
  <2>2. ASSUME NEW n, NEW silence, Fill(n, silence) PROVE Placed'
    <3>1. stream'.eof = stream.eof /\ stream'.open = stream.open
      BY <2>2 DEF Fill, TypeOK, Streams
    <3>2. QED
      BY <2>2, <3>1 DEF Fill
  <2>3. LET s == [stream EXCEPT !.fifo = 0, !.out = @ + stream.fifo]
        IN  s.eof = stream.eof /\ s.open = stream.open
    BY DEF TypeOK, Streams
  <2>4. QED
    BY <1>10, <2>1, <2>2, <2>3, FillCases
<1>11. CASE UpdateStatus
  BY <1>11 DEF UpdateStatus
<1>12. QED
  BY <1>1, <1>2, <1>3, <1>4, <1>5, <1>6, <1>7, <1>8, <1>9, <1>10, <1>11 DEF Next, Task

LEMMA PositionStep == TypeOK /\ Placed /\ Position /\ [Next]_vars => Position'
<1> SUFFICES ASSUME TypeOK, Placed, Position, [Next]_vars PROVE Position'
  OBVIOUS
<1> USE DEF Position, Placed, Block, Go, shared
<1>1. CASE UNCHANGED <<stream>>
  BY <1>1
<1>2. CASE Host \/ UNCHANGED vars
  BY <1>1, <1>2 DEF Host, HostCommand, RequestReset, HostReport, HostClaim, HostRelease,
     UNCHANGED1, vars
<1>3. CASE TakeReset \/ TakeNoReset \/ TakePlayBusy \/ CommandsDone \/ Select \/ PageReady
           \/ Offer \/ UpdateStatus
  BY <1>1, <1>3 DEF TakeReset, TakeNoReset, TakePlayBusy, CommandsDone, Select, PageReady,
     Offer, UpdateStatus
<1>4. ASSUME stream'.out = 0, stream'.eof = FALSE PROVE Position'
  BY <1>4
<1>5. CASE DropCommands \/ TakeStop \/ TakePlay \/ OpenFails \/ ReadFails
  BY <1>4, <1>5 DEF DropCommands, TakeStop, TakePlay, OpenFails, ReadFails, ResetStream, Closed
<1>6. CASE Open \/ TakePause \/ TakeResume \/ NoRead \/ ReadRetry
  <2>1. /\ stream'.eof = stream.eof /\ stream'.out = stream.out
        /\ stream'.fifo = stream.fifo /\ stream'.asset = stream.asset
    BY <1>6 DEF Open, TakePause, TakeResume, NoRead, ReadRetry, Refilled, TypeOK, Streams
  <2>2. QED
    BY <2>1
<1>7. CASE ReadData
  <2>1. stream'.eof = stream.eof /\ stream'.out = stream.out /\ ~stream.eof
    BY <1>7 DEF ReadData, Reads, Refilled, TypeOK, Streams
  <2>2. QED
    BY <2>1
<1>8. CASE ReadEof
  <2>1. /\ stream'.out = stream.out /\ stream'.fifo = stream.fifo
        /\ stream'.asset = stream.asset /\ ~stream.eof
        /\ stream.asset - stream.out - stream.fifo = 0
    BY <1>8 DEF ReadEof, Reads, Unread, Refilled, TypeOK, Streams
  <2>2. stream.out \in Nat /\ stream.fifo \in Nat /\ stream.asset \in Nat
    BY DEF TypeOK, Streams
  <2>3. stream.out + stream.fifo = stream.asset
    BY <2>1, <2>2
  <2>4. QED
    BY <2>1, <2>3
<1>9. CASE FillPage
  <2>1. CASE GiveUp(stream)
    BY <1>1, <2>1 DEF GiveUp
  <2>2. CASE /\ GiveUp([stream EXCEPT !.fifo = 0, !.out = @ + stream.fifo])
             /\ stream.eof /\ stream.fifo < 3
    <3>1. /\ stream'.out = stream.out + stream.fifo /\ stream'.fifo = 0
          /\ stream'.eof /\ stream'.asset = stream.asset
      BY <2>2 DEF GiveUp, TypeOK, Streams
    <3>2. QED
      BY <2>2, <3>1 DEF TypeOK, Streams
  <2>3. ASSUME NEW n \in Nat \ {0}, NEW silence \in BOOLEAN, Fill(n, silence), n % 3 = 0,
               ~(stream.eof /\ stream.fifo = 0)
        PROVE  Position'
    <3> DEFINE t == IF silence THEN 0 ELSE n
    <3>1. /\ stream'.out = stream.out + t /\ stream'.fifo = stream.fifo - t
          /\ stream'.eof = stream.eof /\ stream'.asset = stream.asset
      BY <2>3 DEF Fill, TypeOK, Streams
    <3>2. t \in Nat /\ t % 3 = 0 /\ stream.out \in Nat /\ stream.fifo \in Nat
      BY <2>3 DEF TypeOK, Streams
    <3> HIDE DEF t
    <3>3. stream'.out % 3 = 0
      BY <2>3, <3>1, <3>2, Sums
    <3>4. QED
      <4>1. stream.fifo \in Nat /\ stream.asset \in Nat
        BY DEF TypeOK, Streams
      <4>2. stream.eof => stream.out + stream.fifo = stream.asset
        OBVIOUS
      <4>3. stream'.eof => stream'.out + stream'.fifo = stream'.asset
        BY <3>1, <3>2, <4>1, <4>2
      <4>4. QED
        BY <3>3, <4>3
  <2>4. QED
    BY <1>9, <2>1, <2>2, <2>3, FillCases
<1>10. QED
  BY <1>2, <1>3, <1>5, <1>6, <1>7, <1>8, <1>9 DEF Next, Task

LEMMA EofStep == TypeOK /\ Placed /\ OneOfAKind /\ EofDone /\ [Next]_vars => EofDone'
<1> SUFFICES ASSUME TypeOK, Placed, OneOfAKind, EofDone, [Next]_vars, status' = "Eof"
             PROVE  EofDone'
  BY DEF EofDone
<1> USE DEF EofDone, Pending, Placed, Go, shared, Working, Streaming
<1>1. CASE UNCHANGED <<stream, pages, status>>
  BY <1>1
<1>2. CASE (\E c \in Commands : HostCommand(c)) \/ RequestReset
           \/ (\E n \in Levels : HostReport(n)) \/ UNCHANGED vars
  BY <1>1, <1>2 DEF HostCommand, RequestReset, HostReport, UNCHANGED1, vars, pageVars
<1>3. ~ \E i \in Pages : HostClaim(i)
  BY DEF HostClaim, Claimable
<1>4. CASE HostRelease
  BY <1>4 DEF HostRelease, UNCHANGED1, TypeOK, OneOfAKind
<1>5. CASE TakeReset \/ TakeNoReset \/ TakePlayBusy \/ CommandsDone
  BY <1>1, <1>5 DEF TakeReset, TakeNoReset, TakePlayBusy, CommandsDone, pageVars
<1>6. ~(DropCommands \/ TakeStop \/ TakePlay \/ OpenFails \/ Open \/ ReadFails)
  BY DEF DropCommands, TakeStop, TakePlay, OpenFails, Open, ReadFails, ResetStream
<1>7. CASE TakePause
  BY <1>1, <1>7 DEF TakePause, pageVars
<1>8. CASE TakeResume
  <2>1. stream'.eof = stream.eof /\ stream'.fifo = stream.fifo
    BY <1>8 DEF TakeResume, TypeOK, Streams
  <2>2. QED
    BY <1>8, <2>1 DEF TakeResume, pageVars
<1>9. ~(NoRead \/ ReadRetry \/ ReadData \/ ReadEof \/ Select \/ PageReady \/ Offer)
  BY DEF NoRead, ReadRetry, ReadData, ReadEof, Refilled, Select, PageReady, Offer
<1>10. ~FillPage
  BY FillCases DEF GiveUp, Fill
<1>11. CASE UpdateStatus
  BY <1>11 DEF UpdateStatus, StatusNow, pageVars
<1>12. QED
  BY <1>2, <1>3, <1>4, <1>5, <1>6, <1>7, <1>8, <1>9, <1>10, <1>11 DEF Next, Host, Task

-----------------------------------------------------------------------------
(* The chain of pages.                                                     *)

\* Cut moves with the packets that go into pages, and only with them.
LEMMA Cuts ==
  ASSUME TypeOK, Position
  PROVE  /\ ~(stream.eof /\ stream.fifo = 0) => Cut = stream.out
         /\ Cut \in Nat
<1>1. stream.out \in Nat
  BY DEF TypeOK, Streams
<1>2. QED
  BY <1>1 DEF Cut, Position, Block

\* The same pages, seen from the same place.
LEMMA SameChain ==
  ASSUME Chain, UNCHANGED <<heard, strobe, Cut>>,
         stream'.generation = stream.generation, stream'.sequence = stream.sequence,
         \A i \in Pages :
           /\ Filled(i)' <=> Filled(i)
           /\ Filled(i) => /\ pages'[i].generation = pages[i].generation
                           /\ pages'[i].first = pages[i].first
                           /\ pages'[i].packets = pages[i].packets
                           /\ pages'[i].sequence = pages[i].sequence
                           /\ pages'[i].silent = pages[i].silent
  PROVE  Chain' /\ \A i \in Pages : Oldest(i) => Oldest(i)'
<1>1. \A i \in Pages : (Oldest(i) => Oldest(i)') /\ (Youngest(i) => Youngest(i)')
  BY DEF Oldest, Youngest, Taken
<1>2. \A i, j \in Pages : Filled(i) /\ Follows(i, j) => Follows(i, j)'
  BY DEF Follows, Taken
<1>3. QED
  BY <1>1, <1>2 DEF Chain

\* An empty chain.
LEMMA EmptyChain ==
  ASSUME \A i \in Pages : ~Filled(i)', strobe' = stream'.sequence, heard' = Cut'
  PROVE  Chain'
  BY DEF Chain

\* The page just filled is the new end of the chain.
LEMMA LongerChain ==
  ASSUME TypeOK, OneOfAKind, Position, Chain,
         NEW n \in Nat \ {0}, NEW silence \in BOOLEAN, Fill(n, silence), n % 3 = 0,
         ~(stream.eof /\ stream.fifo = 0)
  PROVE  /\ Chain'
         /\ \A i \in Pages : Oldest(i) => Oldest(i)'
<1> DEFINE t == IF silence THEN 0 ELSE n
<1>0. PICK b \in Pages : b = Built
  BY BuiltPage DEF Fill, Go
<1>1. /\ pages[b].state = "Building"
      /\ \A j \in Pages : pages[j].state = "Building" => j = b
      /\ pc1 = "fill" /\ pc1' = "ready" /\ heard' = heard /\ strobe' = strobe
  BY <1>0, BuiltPage DEF Fill, Go, history
<1>2. /\ pages'[b].state = "Building" /\ pages'[b].generation = stream.generation
      /\ pages'[b].first = stream.out /\ pages'[b].packets = n
      /\ pages'[b].sequence = stream.sequence /\ pages'[b].silent = silence
      /\ \A i \in Pages : i # b => pages'[i] = pages[i]
  BY <1>0, <1>1 DEF Fill, TypeOK
<1>3. /\ stream'.generation = stream.generation + 1
      /\ stream'.sequence = stream.sequence + n
      /\ stream'.out = stream.out + t
  BY DEF Fill, TypeOK, Streams
<1>4. Cut = stream.out /\ Cut' = Cut + t /\ stream.generation \in Nat /\ stream.sequence \in Nat
  <2>1. stream.out \in Nat /\ t \in Nat /\ t % 3 = 0
    BY DEF TypeOK, Streams
  <2>2. stream.out % 3 = 0
    BY DEF Position, Block
  <2> HIDE DEF t
  <2>3. (stream.out + t) % 3 = 0
    BY <2>1, <2>2, Sums
  <2>4. QED
    BY <1>3, <2>1, <2>2, <2>3 DEF Cut, Block, TypeOK, Streams
<1>5. /\ Filled(b)' /\ ~Filled(b)
      /\ \A i \in Pages : i # b => (Filled(i)' <=> Filled(i))
  BY <1>1, <1>2 DEF Filled
<1>6. \A i \in Pages : pages[i].generation \in Nat
  BY DEF TypeOK, PageStates
<1>7. Taken(b)' = t
  BY <1>2 DEF Taken
<1>8. \A i \in Pages : i # b => Taken(i)' = Taken(i)
  BY <1>2 DEF Taken
<1> HIDE DEF t
<1>9. Youngest(b)'
  BY <1>2, <1>3, <1>4, <1>5, <1>7 DEF Youngest
<1>10. \A i \in Pages : Youngest(i) => Follows(i, b)'
  BY <1>2, <1>3, <1>4, <1>5, <1>8 DEF Youngest, Follows
<1>11. \A i, j \in Pages : Filled(i) /\ Follows(i, j) => Follows(i, j)'
  BY <1>2, <1>5, <1>8 DEF Follows
<1>12. \A i \in Pages : Oldest(i) => Oldest(i)'
  BY <1>1, <1>2, <1>4, <1>5, <1>6 DEF Oldest, Chain
<1>13. \E i \in Pages : Oldest(i)'
  <2>1. CASE \E i \in Pages : Filled(i)
    BY <1>12, <2>1 DEF Chain
  <2>2. CASE \A i \in Pages : ~Filled(i)
    BY <1>1, <1>2, <1>4, <1>5, <2>2 DEF Chain, Oldest
  <2>3. QED
    BY <2>1, <2>2
<1>14. /\ \A i \in Pages : Filled(i)' => pages'[i].generation < stream'.generation
       /\ \A i, j \in Pages : Filled(i)' /\ Filled(j)'
             /\ pages'[i].generation = pages'[j].generation => i = j
  BY <1>2, <1>3, <1>4, <1>5, <1>6 DEF Chain
<1>15. \A i \in Pages : Filled(i)' => Youngest(i)' \/ \E j \in Pages : Follows(i, j)'
  BY <1>1, <1>5, <1>9, <1>10, <1>11 DEF Chain
<1>16. QED
  BY <1>1, <1>5, <1>9, <1>12, <1>13, <1>14, <1>15 DEF Chain

\* A claim takes the oldest page; the next one begins where it ended.
LEMMA ShorterChain ==
  ASSUME TypeOK, OneOfAKind, Chain, OfferOldest, NEW c \in Pages, HostClaim(c)
  PROVE  Chain'
<1>1. /\ pages[c].state = "Ready" /\ pages'[c].state = "Active" /\ c # active
      /\ stream' = stream /\ pc1' = pc1
      /\ heard' = heard + Taken(c) /\ strobe' = strobe + pages[c].packets
      /\ \A i \in Pages : i # c /\ i # active => pages'[i] = pages[i]
      /\ \A i \in Pages : i = active => pages'[i].state = "Free" /\ pages[i].state = "Active"
  BY DEF HostClaim, Claimable, UNCHANGED1, TypeOK, PageStates, FreePage, OneOfAKind, Taken
<1>2. Oldest(c)
  BY DEF HostClaim, Claimable, OfferOldest
<1>3. /\ \A i \in Pages : Filled(i)' <=> Filled(i) /\ i # c
      /\ \A i \in Pages : Filled(i)' => pages'[i] = pages[i]
  BY <1>1 DEF Filled
<1>4. \A i \in Pages : pages[i].generation \in Nat
  BY DEF TypeOK, PageStates
<1>5. Cut' = Cut
  BY <1>1 DEF Cut
<1>6. \A i \in Pages : Youngest(i) /\ i # c => Youngest(i)'
  BY <1>1, <1>3, <1>5 DEF Youngest, Taken
<1>7. ASSUME NEW i \in Pages, NEW j \in Pages, Filled(i), i # c, Follows(i, j)
      PROVE  Follows(i, j)'
  <2>1. j # c
    BY <1>2, <1>4, <1>7 DEF Follows, Oldest
  <2>2. QED
    BY <1>3, <1>7, <2>1 DEF Follows, Taken
<1>8. CASE Youngest(c)
  <2>1. \A i \in Pages : Filled(i) => i = c
    BY <1>2, <1>4, <1>8, SMTT(30) DEF Chain, Youngest, Oldest, TypeOK, Streams
  <2>2. strobe' = stream'.sequence /\ heard' = Cut'
    BY <1>1, <1>2, <1>5, <1>8 DEF Youngest, Oldest
  <2>3. QED
    BY <1>3, <2>1, <2>2, EmptyChain
<1>9. ASSUME NEW d \in Pages, Follows(c, d) PROVE Chain'
  <2>1. d # c
    BY <1>4, <1>9 DEF Follows
  <2>2. \A i \in Pages : Filled(i) /\ i # c => pages[d].generation <= pages[i].generation
    BY <1>2, <1>4, <1>9 DEF Chain, Follows, Oldest
  <2>3. Oldest(d)'
    BY <1>1, <1>2, <1>3, <1>9, <2>1, <2>2 DEF Oldest, Follows
  <2>4. ~Youngest(c)
    BY <1>4, <1>9 DEF Chain, Youngest, Follows, TypeOK, Streams
  <2>5. \E i \in Pages : Youngest(i)'
    BY <1>2, <1>6, <2>4 DEF Chain, Oldest
  <2>6. /\ \A i \in Pages : Filled(i)' => pages'[i].generation < stream'.generation
        /\ \A i, j \in Pages : Filled(i)' /\ Filled(j)'
              /\ pages'[i].generation = pages'[j].generation => i = j
    BY <1>1, <1>3 DEF Chain
  <2>7. \A i \in Pages : Filled(i)' => Youngest(i)' \/ \E j \in Pages : Follows(i, j)'
    BY <1>3, <1>6, <1>7 DEF Chain
  <2>8. QED
    BY <1>3, <1>9, <2>1, <2>3, <2>5, <2>6, <2>7 DEF Chain, Follows
<1>10. QED
  BY <1>2, <1>8, <1>9 DEF Chain, Oldest

\* What a step does to the chain and to the offer.
LEMMA ChainStep ==
  TypeOK /\ OneOfAKind /\ Position /\ Chain /\ OfferOldest /\ [Next]_vars
    => Chain' /\ OfferOldest'
<1> SUFFICES ASSUME TypeOK, OneOfAKind, Position, Chain, OfferOldest, [Next]_vars
             PROVE  Chain' /\ OfferOldest'
  OBVIOUS
<1>1. ASSUME UNCHANGED <<heard, strobe, Cut, offered>>,
             stream'.generation = stream.generation, stream'.sequence = stream.sequence,
             \A i \in Pages :
               /\ Filled(i)' <=> Filled(i)
               /\ pages[i].state = "Ready" => pages'[i].state = "Ready"
               /\ Filled(i) => /\ pages'[i].generation = pages[i].generation
                               /\ pages'[i].first = pages[i].first
                               /\ pages'[i].packets = pages[i].packets
                               /\ pages'[i].sequence = pages[i].sequence
                               /\ pages'[i].silent = pages[i].silent
      PROVE  Chain' /\ OfferOldest'
  <2>1. Chain' /\ \A i \in Pages : Oldest(i) => Oldest(i)'
    BY <1>1, SameChain
  <2>2. ASSUME offered # NoPage PROVE pages'[offered].state = "Ready" /\ Oldest(offered)'
    <3>1. PICK o \in Pages : o = offered
      BY <2>2 DEF TypeOK
    <3>2. pages'[o].state = "Ready" /\ Oldest(o)'
      BY <1>1, <2>1, <2>2, <3>1 DEF OfferOldest
    <3>3. QED
      BY <1>1, <3>1, <3>2 DEF Oldest
  <2>3. QED
    BY <1>1, <2>1, <2>2 DEF OfferOldest
<1>2. CASE Calm
  <2>1. Cut' = Cut
    BY <1>2 DEF Calm, Cut
  <2>2. QED
    BY <1>1, <1>2, <2>1 DEF Calm, Filled
<1>3. CASE Cleared
  <2>1. \A i \in Pages : ~Filled(i)'
    BY <1>3 DEF Cleared, ClearPages, Building, Filled, FreePage, TypeOK, OneOfAKind
  <2>2. Cut' = 0
    BY <1>3 DEF Cleared, Cut, Block
  <2>3. offered' = NoPage
    BY <1>3 DEF Cleared, ClearPages
  <2>4. QED
    BY <1>3, <2>1, <2>2, <2>3, EmptyChain DEF Cleared, OfferOldest
<1>4. ASSUME NEW c \in Pages, HostClaim(c) PROVE Chain' /\ OfferOldest'
  BY <1>4, ShorterChain DEF HostClaim, OfferOldest
<1>5. CASE HostRelease
  <2>1. /\ active \in Pages /\ pages[active].state = "Active"
        /\ pages'[active].state = "Free" /\ UNCHANGED <<stream, pc1, heard, strobe, offered>>
        /\ \A i \in Pages : i # active => pages'[i] = pages[i]
    BY <1>5 DEF HostRelease, UNCHANGED1, TypeOK, FreePage, OneOfAKind, history
  <2>2. QED
    BY <1>1, <2>1 DEF Filled, Cut
<1>6. CASE Select
  <2>1. \A i \in Pages : pages'[i] = pages[i]
                         \/ (pages[i].state = "Free" /\ pages'[i].state = "Building")
    <3>1. CASE pages' = pages
      BY <3>1
    <3>2. CASE \E i \in Pages : pages[i].state = "Free"
                               /\ pages' = [pages EXCEPT ![i].state = "Building"]
      <4>1. PICK i \in Pages : /\ pages[i].state = "Free"
                               /\ pages' = [pages EXCEPT ![i].state = "Building"]
        BY <3>2
      <4>2. /\ pages'[i].state = "Building"
            /\ \A j \in Pages : j # i => pages'[j] = pages[j]
        BY <4>1 DEF TypeOK, PageStates
      <4>3. QED
        BY <4>1, <4>2
    <3>3. QED
      BY <1>6, <3>1, <3>2 DEF Select
  <2>2. QED
    BY <1>1, <1>6, <2>1 DEF Select, Go, Filled, Cut, history
<1>7. CASE FillPage
  <2>1. ASSUME NEW s, GiveUp(s), s.generation = stream.generation,
               s.sequence = stream.sequence,
               s.out - (s.out % 3) = Cut
        PROVE  Chain' /\ OfferOldest'
    <3>1. PICK b \in Pages : b = Built
      BY <2>1, BuiltPage DEF GiveUp, Go
    <3>2. /\ pages[b].state = "Building" /\ pages'[b].state = "Free"
          /\ \A i \in Pages : i # b => pages'[i] = pages[i]
      BY <2>1, <3>1, BuiltPage DEF GiveUp, Go, TypeOK, FreePage
    <3>3. Cut' = Cut
      BY <2>1 DEF GiveUp, Cut, Block
    <3>4. QED
      BY <1>1, <2>1, <3>2, <3>3 DEF GiveUp, Go, Filled, OneOfAKind, history
  <2>2. CASE GiveUp(stream)
    BY <2>1, <2>2 DEF Cut, Block
  <2>3. CASE /\ GiveUp([stream EXCEPT !.fifo = 0, !.out = @ + stream.fifo])
             /\ stream.eof /\ stream.fifo < 3
    <3> DEFINE s == [stream EXCEPT !.fifo = 0, !.out = @ + stream.fifo]
    <3>1. /\ s.generation = stream.generation /\ s.sequence = stream.sequence
          /\ s.out = stream.out + stream.fifo
      BY DEF TypeOK, Streams
    <3>2. stream.out \in Nat /\ stream.fifo \in Nat
      BY DEF TypeOK, Streams
    <3>3. CASE stream.fifo = 0
      <4>1. s.out = stream.out
        BY <3>1, <3>2, <3>3
      <4>2. QED
        BY <2>1, <2>3, <3>1, <4>1 DEF Cut, Block
    <3>4. CASE stream.fifo # 0
      <4>1. stream.out % 3 = 0 /\ Cut = stream.out
        BY <3>4, Cuts DEF Position, Block
      <4>2. (stream.out + stream.fifo) - ((stream.out + stream.fifo) % 3) = stream.out
        BY <2>3, <3>2, <4>1, Rest
      <4>3. QED
        BY <2>1, <2>3, <3>1, <4>1, <4>2
    <3>5. QED
      BY <3>3, <3>4
  <2>4. ASSUME NEW n \in Nat \ {0}, NEW silence \in BOOLEAN, Fill(n, silence), n % 3 = 0,
               ~(stream.eof /\ stream.fifo = 0)
        PROVE  Chain' /\ OfferOldest'
    <3>1. Chain' /\ \A i \in Pages : Oldest(i) => Oldest(i)'
      BY <2>4, LongerChain
    <3>2. CASE offered = NoPage
      BY <2>4, <3>1, <3>2 DEF Fill, OfferOldest
    <3>3. CASE offered # NoPage
      <4>1. PICK o \in Pages : o = offered
        BY <3>3 DEF TypeOK
      <4>2. pages[o].state = "Ready" /\ o # Built /\ offered' = offered
        BY <2>4, <3>3, <4>1, BuiltPage DEF OfferOldest, Fill, Go
      <4>3. pages'[o].state = "Ready"
        BY <2>4, <4>2 DEF Fill, TypeOK
      <4>4. Oldest(o)'
        BY <3>1, <3>3, <4>1 DEF OfferOldest
      <4>5. QED
        BY <3>1, <4>1, <4>2, <4>3, <4>4 DEF OfferOldest, Oldest
    <3>4. QED
      BY <3>2, <3>3
  <2>5. QED
    BY <1>7, <2>2, <2>3, <2>4, FillCases
<1>8. CASE PageReady
  <2>1. PICK b \in Pages : b = Built
    BY <1>8, BuiltPage DEF PageReady, Go
  <2>2. /\ pages[b].state = "Building" /\ pages'[b] = [pages[b] EXCEPT !.state = "Ready"]
        /\ \A i \in Pages : i # b => pages'[i] = pages[i] /\ pages[i].state # "Building"
        /\ pc1 = "ready" /\ pc1' = "offer"
    BY <1>8, <2>1, BuiltPage DEF PageReady, Go, TypeOK
  <2>3. \A i \in Pages :
           /\ Filled(i)' <=> Filled(i)
           /\ pages[i].state = "Ready" => pages'[i].state = "Ready"
           /\ pages'[i].generation = pages[i].generation
           /\ pages'[i].first = pages[i].first
           /\ pages'[i].packets = pages[i].packets
           /\ pages'[i].sequence = pages[i].sequence
           /\ pages'[i].silent = pages[i].silent
    <3>1. pages[b] \in PageStates
      BY DEF TypeOK
    <3>2. /\ pages'[b].state = "Ready"
          /\ pages'[b].generation = pages[b].generation
          /\ pages'[b].first = pages[b].first
          /\ pages'[b].packets = pages[b].packets
          /\ pages'[b].sequence = pages[b].sequence
          /\ pages'[b].silent = pages[b].silent
      BY <2>2, <3>1 DEF PageStates
    <3>3. QED
      BY <2>2, <3>2 DEF Filled
  <2>4. QED
    BY <1>1, <1>8, <2>3 DEF PageReady, Cut, history
<1>9. CASE Offer
  <2>1. /\ UNCHANGED <<pages, stream, heard, strobe>> /\ ~Building /\ ~Building'
        /\ RefreshOffer
    BY <1>9 DEF Offer, Go, Building, history
  <2>2. \A i \in Pages : (Filled(i)' <=> Filled(i)) /\ (Filled(i) <=> i \in ReadyPages)
    BY <2>1 DEF Building, Filled, ReadyPages
  <2>3. Cut' = Cut
    BY <2>1 DEF Cut
  <2>4. Chain' /\ \A i \in Pages : Oldest(i) => Oldest(i)'
    BY <2>1, <2>2, <2>3, SameChain
  <2>5. CASE offered' = offered
    BY <1>1, <2>1, <2>2, <2>3, <2>5
  <2>6. CASE offered = NoPage /\ ReadyPages # {}
    <3>1. PICK i \in Pages : Oldest(i)
      BY <2>2, <2>6 DEF Chain, ReadyPages
    <3>2. i \in ReadyPages /\ \A j \in ReadyPages : pages[i].generation <= pages[j].generation
      BY <2>2, <3>1 DEF Oldest, ReadyPages
    <3>3. offered' \in ReadyPages
          /\ \A j \in ReadyPages : pages[offered'].generation <= pages[j].generation
      BY <2>1, <2>6, <3>2 DEF RefreshOffer
    <3>4. \A j \in Pages : pages[j].generation \in Nat
      BY DEF TypeOK, PageStates
    <3>5. offered' \in Pages /\ pages[offered'].generation = pages[i].generation
      BY <3>2, <3>3, <3>4 DEF ReadyPages
    <3>6. offered' = i
      BY <2>2, <3>2, <3>3, <3>5 DEF Chain
    <3>7. Oldest(i)' /\ pages'[i].state = "Ready"
      BY <2>1, <2>4, <3>1, <3>2 DEF ReadyPages
    <3>8. QED
      BY <2>4, <3>6, <3>7 DEF OfferOldest, Oldest
  <2>7. QED
    BY <2>1, <2>5, <2>6 DEF RefreshOffer
<1>10. QED
  BY <1>2, <1>3, <1>4, <1>5, <1>6, <1>7, <1>8, <1>9, StepKinds

-----------------------------------------------------------------------------
(* The theorems.                                                           *)

LEMMA InitAInv == Init => AInv
<1> SUFFICES ASSUME Init PROVE AInv
  OBVIOUS
<1>1. TypeOK
  <2>1. <<>> \in Seq(Commands) /\ Len(<<>>) < QueueSize
    BY QueueAssumption
  <2>2. 7 * Segment \in Nat
    BY ConstantTypes
  <2>3. pages \in [Pages -> PageStates] /\ stream \in Streams
    BY PageTypes DEF Init
  <2>4. credit \in Nat /\ served \in 0 .. QueueSize
    BY <2>2, ConstantTypes DEF Init, SpcSegments
  <2>5. commands \in Seq(Commands) /\ Len(commands) < QueueSize
    BY <2>1 DEF Init
  <2>6. resetRequested \in BOOLEAN /\ status \in Statuses
        /\ {offered, active} \subseteq Pages \union {NoPage}
    BY Zenon DEF Init, Statuses
  <2>7. level \in 0 .. 8 /\ heard \in Nat /\ strobe \in Nat
    BY DEF Init
  <2>8. QED
    BY <2>3, <2>4, <2>5, <2>6, <2>7 DEF Init, TypeOK
<1>2. Placed /\ OneOfAKind /\ Position
  BY ConstantTypes DEF Init, Placed, OneOfAKind, Position, Working, Closed, FreePage, Block
<1>3. Chain /\ OfferOldest /\ EofDone
  BY DEF Init, Chain, OfferOldest, EofDone, Filled, FreePage, Closed, Cut, Block
<1>4. QED
  BY <1>1, <1>2, <1>3 DEF AInv

\* The invariant: the pages between core 1 and the console are a chain without
\* a gap, from what the console has claimed to what has left the FIFO.
THEOREM StreamInvariant == Spec => []AInv
<1>1. AInv /\ [Next]_vars => AInv'
  BY TypeStep, PlacedStep, KindStep, PositionStep, ChainStep, EofStep DEF AInv
<1>2. QED
  BY InitAInv, <1>1, PTL DEF Spec

\* Every variable keeps its type; in particular the FIFO never overflows.
THEOREM StreamTypeCorrect == Spec => []TypeOK
<1>1. AInv => TypeOK
  BY DEF AInv
<1>2. QED
  BY <1>1, StreamInvariant, PTL

\* The page offered continues where the last page claimed ended.
THEOREM StreamOfferIsNext == Spec => []OfferIsNext
<1>1. AInv => OfferIsNext
  BY DEF AInv, OfferOldest, Oldest, OfferIsNext
<1>2. QED
  BY <1>1, StreamInvariant, PTL

\* EOF is reported only when every complete block has been claimed.
THEOREM StreamEofIsComplete == Spec => []EofIsComplete
<1>1. AInv => EofIsComplete
  <2> SUFFICES ASSUME AInv, status = "Eof"
               PROVE  heard = stream.asset - (stream.asset % Block) /\ ~Pending
    BY DEF EofIsComplete
  <2>1. stream.eof /\ stream.fifo = 0 /\ ~Pending
    BY DEF AInv, EofDone
  <2>2. stream.out \in Nat /\ stream.asset \in Nat
    BY DEF AInv, TypeOK, Streams
  <2>3. stream.out = stream.asset
    BY <2>1, <2>2 DEF AInv, Position
  <2>4. \A i \in Pages : ~Filled(i)
    BY <2>1 DEF Pending, Filled
  <2>5. heard = Cut
    BY <2>4 DEF AInv, Chain
  <2>6. QED
    BY <2>1, <2>3, <2>5 DEF Cut
<1>2. QED
  BY <1>1, StreamInvariant, PTL

\* Only the console's claim or release changes an active page.
THEOREM StreamActiveImmutable == Spec => ActiveImmutable
<1> DEFINE Kept(i) == pages[i].state = "Active" =>
                        pages'[i] = pages[i] \/ (active = i /\ active' # i)
<1>1. AInv /\ [Next]_vars => [\A i \in Pages : Kept(i)]_vars
  <2> SUFFICES ASSUME AInv, [Next]_vars, NEW i \in Pages, pages[i].state = "Active"
               PROVE  pages'[i] = pages[i] \/ (active = i /\ active' # i)
    OBVIOUS
  <2> USE DEF AInv
  <2>1. active = i /\ active \in Pages
    BY DEF OneOfAKind
  <2>2. CASE Calm \/ Cleared
    BY <2>2 DEF Calm, Cleared, ClearPages, TypeOK
  <2>3. CASE (\E c \in Pages : HostClaim(c)) \/ HostRelease
    BY <2>1, <2>3, ConstantTypes DEF HostClaim, Claimable, HostRelease
  <2>4. CASE Select
    BY <2>4 DEF Select, TypeOK
  <2>5. ASSUME pc1 \in {"fill", "ready"} PROVE i # Built
    BY <2>5, BuiltPage
  <2>6. CASE FillPage
    BY <2>5, <2>6, FillCases DEF GiveUp, Fill, Go, TypeOK
  <2>7. CASE PageReady
    BY <2>5, <2>7 DEF PageReady, Go, TypeOK
  <2>8. CASE Offer
    BY <2>8 DEF Offer
  <2>9. QED
    BY <2>2, <2>3, <2>4, <2>6, <2>7, <2>8, StepKinds
<1>2. QED
  BY <1>1, StreamInvariant, PTL DEF Spec, ActiveImmutable
=============================================================================
