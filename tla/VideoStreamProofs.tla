------------------------- MODULE VideoStreamProofs --------------------------
(***************************************************************************)
(* For every set of movies, whatever is damaged in them, and every size of *)
(* a read and of a service: the pages are covered by the lock, the page on *)
(* display is kept, the page offered holds the next frame of the movie,    *)
(* and a movie is found invalid only if it is.                             *)
(*                                                                         *)
(* The first invariant, VInv, is about pages and knows nothing of files.   *)
(* DataInv adds the place in the file: headers passed and frames staged    *)
(* are in step.  ValidInv adds what was decoded: the decoder, which takes  *)
(* a run apart as reads and services end, agrees with the reference, which *)
(* takes a byte whole.                                                     *)
(***************************************************************************)
EXTENDS VideoStream, FiniteSetTheorems, WellFoundedInduction, TLAPS

Places == {"top", "clear", "command", "free", "unlock", "give", "acquire", "lock",
           "open", "stage", "read", "parse", "decode", "check", "ready", "eof"}
Fields == {"open", "movie", "left", "input", "lead", "total", "frames", "end",
           "building", "frame", "stored", "run", "repeat", "need", "value", "work"}

\* The fields a record has, and the types of those that matter here.
Shape ==
  /\ DOMAIN stream = Fields
  /\ DOMAIN pages = Pages
  /\ \A i \in Pages : /\ DOMAIN pages[i] = {"state", "number", "data"}
                      /\ pages[i].state \in {"Free", "Building", "Ready", "Active"}
  /\ {active, stream.building} \subseteq Pages \union {NoPage}
  /\ locked \in BOOLEAN /\ stream.open \in BOOLEAN
  /\ owner \in {"free", "gsu", "video"}
  /\ stream.frames \in Nat /\ claimed \in Nat
  /\ pc1 \in Places /\ resume \in {"command", "stage", "top"}

\* A file is open wherever core 1 stages, and closed where it gives the RAM back
\* or has yet to open one.
OpenPlaces ==
  /\ pc1 \in {"read", "parse", "decode", "check", "ready", "eof"} => stream.open
  /\ pc1 \in {"free", "unlock", "give", "acquire", "lock", "open"} => ~stream.open

AllFree == \A i \in Pages : pages[i].state = "Free"

\* Where the RAM is taken and given back nothing is in it.
LockPlaces ==
  /\ locked => owner = "video"
  /\ pc1 = "free" => \A i \in Pages : pages[i].state \in {"Free", "Active"}
  /\ pc1 \in {"unlock", "give", "acquire", "lock", "open"} => AllFree
  /\ pc1 \in {"give", "acquire", "lock"} => ~locked
  /\ pc1 \in {"give", "lock"} => owner = "video"
  /\ pc1 = "open" => locked

\* The marks in the pages say the same as active and g_building.
Marks ==
  /\ active # NoPage => pages[active].state = "Active"
  /\ stream.building # NoPage => pages[stream.building].state = "Building"
  /\ ~stream.open \/ pc1 = "eof" => stream.building = NoPage
  /\ pc1 \in {"read", "parse"} /\ stream.total.count # 0 => stream.building # NoPage
  /\ pc1 \in {"decode", "check", "ready"} => stream.building # NoPage

\* The pages that are ready carry the frames from the next one the console
\* claims to the last one staged, one each.
Numbers ==
  /\ stream.open => claimed <= stream.frames
  /\ \A i \in Ready : pages[i].number \in Nat /\ claimed <= pages[i].number
                                              /\ pages[i].number < stream.frames
  /\ \A i, j \in Ready : pages[i].number = pages[j].number => i = j
  /\ \A n \in Nat : (claimed <= n /\ n < stream.frames) =>
                       \E i \in Ready : pages[i].number = n
  /\ stream.building # NoPage /\ (pc1 \in {"decode", "check", "ready"}
                                  \/ stream.frame.size # 0)
        => pages[stream.building].number = stream.frames

VInv == Shape /\ OpenPlaces /\ LockPlaces /\ LockCoversPages /\ Marks /\ Numbers

-----------------------------------------------------------------------------
(* What a step changes of core 1's state.                                  *)

\* A step leaves the other fields of core 1's state alone.
Changes(S) == /\ DOMAIN stream' = Fields
              /\ \A x \in Fields \ S : stream'[x] = stream[x]

LEMMA UsedFields ==
  ASSUME DOMAIN stream = Fields
  PROVE  /\ DOMAIN Used = Fields /\ Used.input = Tail(stream.input)
         /\ \A x \in Fields \ {"input"} : Used[x] = stream[x]
  BY DEF Used, Fields

LEMMA TakenFields ==
  ASSUME DOMAIN stream = Fields
  PROVE  /\ DOMAIN Taken = Fields /\ Taken.input = Tail(stream.input)
         /\ Taken.stored = stream.stored - 1
         /\ \A x \in Fields \ {"input", "stored"} : Taken[x] = stream[x]
  BY UsedFields DEF Taken, Fields

LEMMA StepFields ==
  ASSUME DOMAIN stream = Fields
  PROVE  /\ Select => Changes({"building", "frame"})
         /\ ReadData => Changes({"input", "left"})
         /\ HeaderLead \/ FileHeaderDone => Changes({"input", "lead", "total"})
         /\ FrameHeaderDone =>
              Changes({"input", "lead", "frame", "stored", "run", "need", "work"})
         /\ ParseBytes \/ DecodeTag \/ DecodeRepeat \/ DecodeLiteral \/ DecodeCopy =>
              Changes({"input", "stored", "run", "repeat", "need", "value", "work"})
         /\ PageReady => Changes({"building", "frames", "end", "frame", "stored", "run"})
         /\ EofDone => Changes({"open"})
<1>1. Select => Changes({"building", "frame"})
  BY DEF Select, Changes, Fields
<1>2. ReadData => Changes({"input", "left"})
  BY DEF ReadData, Changes, Fields
<1>3. HeaderLead \/ FileHeaderDone => Changes({"input", "lead", "total"})
  BY UsedFields DEF HeaderLead, FileHeaderDone, Changes, Fields
<1>4. FrameHeaderDone => Changes({"input", "lead", "frame", "stored", "run", "need", "work"})
  BY UsedFields DEF FrameHeaderDone, Changes, Fields
<1>5. ParseBytes \/ DecodeTag \/ DecodeRepeat \/ DecodeLiteral \/ DecodeCopy =>
        Changes({"input", "stored", "run", "repeat", "need", "value", "work"})
  BY TakenFields
     DEF ParseBytes, DecodeTag, DecodeRepeat, DecodeLiteral, DecodeCopy, Output, Changes, Fields
<1>6. PageReady => Changes({"building", "frames", "end", "frame", "stored", "run"})
  BY DEF PageReady, Changes, Fields
<1>7. EofDone => Changes({"open"})
  BY DEF EofDone, Changes, Fields
<1>8. QED
  BY <1>1, <1>2, <1>3, <1>4, <1>5, <1>6, <1>7

-----------------------------------------------------------------------------
(* Choices among the pages.                                                *)

\* The page offered is one that is ready, and has the lowest number of those.
LEMMA Lowest ==
  ASSUME Shape, Ready # {}, \A i \in Ready : pages[i].number \in Nat
  PROVE  Offered \in Ready /\ \A j \in Ready : pages[Offered].number <= pages[j].number
<1>1. Ready \subseteq {0, 1}
  BY DEF Ready, Pages
<1>2. \E i \in Ready : \A j \in Ready : pages[i].number <= pages[j].number
  <2>1. CASE 0 \in Ready /\ 1 \in Ready
    <3>1. pages[0].number <= pages[1].number \/ pages[1].number <= pages[0].number
      BY <2>1
    <3>2. QED
      BY <1>1, <2>1, <3>1
  <2>2. CASE ~(0 \in Ready /\ 1 \in Ready)
    <3>1. PICK i \in Ready : \A j \in Ready : j = i
      BY <1>1, <2>2
    <3>2. pages[i].number <= pages[i].number
      OBVIOUS
    <3>3. QED
      BY <3>1, <3>2
  <2>3. QED
    BY <2>1, <2>2
<1>3. QED
  BY <1>2 DEF Offered

LEMMA FirstFree == Free # {} => Min(Free) \in Free
<1>1. SUFFICES ASSUME Free # {}
               PROVE  \E i \in Free : \A j \in Free : i <= j
  BY DEF Min
<1>2. Free \subseteq {0, 1}
  BY DEF Free, Pages
<1>3. CASE 0 \in Free
  BY <1>2, <1>3
<1>4. CASE 0 \notin Free
  <2>1. 1 \in Free /\ \A j \in Free : j = 1
    BY <1>1, <1>2, <1>4
  <2>2. QED
    BY <2>1
<1>5. QED
  BY <1>3, <1>4

-----------------------------------------------------------------------------
(* Steps of a kind.                                                        *)

\* What the proofs look at in core 1's own state.
SameStream ==
  /\ DOMAIN stream' = Fields
  /\ stream'.open = stream.open /\ stream'.building = stream.building
  /\ stream'.frames = stream.frames /\ stream'.frame = stream.frame

\* Core 1 goes on with what it has, or starts again.
Moves ==
  \/ pc1' = pc1
  \/ pc1' \in {"top", "clear", "command", "stage"}
  \/ pc1 = "read" /\ pc1' = "parse"
  \/ /\ pc1 = "parse" /\ pc1' = "decode"
     /\ stream.total.count # 0 /\ stream.frame.size # 0
  \/ pc1 = "decode" /\ pc1' = "check"
  \/ pc1 = "check" /\ pc1' = "ready"

\* A step that touches neither a page nor the RAM.
LEMMA QuietStep ==
  ASSUME VInv, UNCHANGED <<pages, active, ram, claimed, resume>>, SameStream, Moves,
         stream'.total = stream.total \/ pc1' = "top"
  PROVE  VInv'
<1> USE DEF SameStream, Moves, ram
<1>1. Shape'
  BY DEF VInv, Shape, Places
<1>2. OpenPlaces'
  BY DEF VInv, OpenPlaces
<1>3. LockPlaces' /\ LockCoversPages'
  BY DEF VInv, LockPlaces, LockCoversPages, AllFree
<1>4. Marks'
  BY DEF VInv, Marks
<1>5. Numbers'
  BY DEF VInv, Numbers, Marks, Ready
<1>6. QED
  BY <1>1, <1>2, <1>3, <1>4, <1>5 DEF VInv

LEMMA StopFields ==
  ASSUME StopStream
  PROVE  /\ DOMAIN stream' = Fields /\ stream'.building = NoPage /\ stream'.frames = 0
         /\ stream'.open = FALSE /\ stream'.open \in BOOLEAN
  BY DEF StopStream, Closed, Fields

\* A step that closes the file: stop, release, an error, a reset.
LEMMA StopStep ==
  ASSUME VInv, StopStream, UNCHANGED <<active, ram, claimed>>,
         pc1' \in {"top", "stage", "free"}, resume' \in {"command", "stage", "top"}
  PROVE  VInv'
<1> USE DEF ram, Pages, NoPage
<1>1. /\ DOMAIN pages' = Pages
      /\ \A i \in Pages : /\ pages'[i] = IF pages[i].state = "Active" THEN pages[i] ELSE FreePage
                          /\ pages'[i].state \in {"Free", "Active"}
                          /\ DOMAIN pages'[i] = {"state", "number", "data"}
                          /\ pages'[i].state # "Free" => pages[i].state # "Free"
  BY DEF StopStream, FreePage, VInv, Shape
<1>2. Shape'
  <2>1. {active, stream.building}' \subseteq Pages \union {NoPage}
    BY StopFields DEF VInv, Shape
  <2>2. (locked \in BOOLEAN /\ claimed \in Nat /\ owner \in {"free", "gsu", "video"})'
    BY StopFields DEF VInv, Shape
  <2>3. (pc1 \in Places /\ resume \in {"command", "stage", "top"})'
    BY DEF Places
  <2>4. stream'.open \in BOOLEAN /\ stream'.frames \in Nat
    BY StopFields
  <2>5. \A i \in Pages : pages'[i].state \in {"Free", "Building", "Ready", "Active"}
    BY <1>1
  <2> HIDE DEF Pages, NoPage
  <2>6. QED
    BY <1>1, <2>1, <2>2, <2>3, <2>4, <2>5, StopFields DEF Shape
<1>3. OpenPlaces'
  BY StopFields DEF VInv, OpenPlaces
<1>4. LockPlaces' /\ LockCoversPages'
  BY <1>1, StopFields DEF VInv, LockPlaces, LockCoversPages, AllFree
<1>5. Marks'
  BY <1>1, StopFields DEF VInv, Marks, Shape
<1>6. Ready' = {}
  BY <1>1 DEF Ready
<1>7. Numbers'
  <2>1. ~stream'.open
    BY StopFields
  <2>2. stream'.frames = 0 /\ stream'.building = NoPage
    BY StopFields
  <2>3. QED
    BY <1>6, <2>1, <2>2 DEF Numbers
<1>8. QED
  BY <1>2, <1>3, <1>4, <1>5, <1>7 DEF VInv

-----------------------------------------------------------------------------
(* Giving the RAM back, and taking it.                                     *)

LEMMA FreeAllStep == ASSUME VInv, FreeAll PROVE VInv'
<1> USE DEF FreeAll, Go, ram
<1>1. \A i \in Pages : pages'[i] = FreePage /\ pages'[i].state = "Free"
  BY DEF FreePage
<1>2. Shape'
  BY <1>1 DEF VInv, Shape, Places, FreePage
<1>3. OpenPlaces' /\ LockPlaces' /\ LockCoversPages'
  BY <1>1 DEF VInv, OpenPlaces, LockPlaces, LockCoversPages, AllFree
<1>4. Marks'
  BY <1>1 DEF VInv, Marks, OpenPlaces, Shape, NoPage, Pages
<1>5. Ready' = {} /\ Ready \subseteq {i \in Pages : pages[i].state = "Ready"}
  BY <1>1 DEF Ready
<1>6. Ready = {} /\ stream.building = NoPage
  BY DEF VInv, LockPlaces, Ready, Marks, OpenPlaces
<1>7. Numbers'
  BY <1>5, <1>6 DEF VInv, Numbers, Marks
<1>8. QED
  BY <1>2, <1>3, <1>4, <1>7 DEF VInv

\* Steps that change whose the RAM is, while nothing is in it.
LEMMA UnlockStep == ASSUME VInv, Unlock \/ Give \/ Acquire \/ Lock \/ GsuRuns PROVE VInv'
<1> USE DEF Unlock, Give, Acquire, Lock, GsuRuns, Go, ram, UNCHANGED1
<1>1. Shape'
  BY DEF VInv, Shape, Places
<1>2. OpenPlaces'
  BY DEF VInv, OpenPlaces, Shape
<1>3. LockPlaces'
  BY DEF VInv, LockPlaces, AllFree, Shape
<1>4. LockCoversPages'
  BY DEF VInv, LockPlaces, LockCoversPages, AllFree, OpenPlaces
<1>5. Marks'
  BY DEF VInv, Marks, OpenPlaces, Shape
<1>6. Numbers'
  BY DEF VInv, Numbers, Marks, Ready, OpenPlaces, Shape
<1>7. QED
  BY <1>1, <1>2, <1>3, <1>4, <1>5, <1>6 DEF VInv

LEMMA TakePlayStep == ASSUME VInv, TakePlay PROVE VInv'
<1> USE DEF TakePlay, Take, Go, ram
<1>1. ~stream.open /\ AllFree /\ SameStream
  BY DEF VInv, LockCoversPages, AllFree, Shape, SameStream, Fields
<1>2. Shape'
  BY <1>1 DEF VInv, Shape, Places, SameStream
<1>3. OpenPlaces' /\ LockPlaces' /\ LockCoversPages'
  BY <1>1 DEF VInv, OpenPlaces, LockPlaces, LockCoversPages, AllFree, SameStream
<1>4. Marks'
  BY <1>1 DEF VInv, Marks, SameStream
<1>5. Numbers'
  BY <1>1 DEF VInv, Numbers, Marks, Ready, SameStream
<1>6. QED
  BY <1>2, <1>3, <1>4, <1>5 DEF VInv

LEMMA OpenStep == ASSUME VInv, Open PROVE VInv'
<1> USE DEF Open, Go, ram
<1>1. /\ DOMAIN stream' = Fields /\ stream'.open = TRUE /\ stream'.building = NoPage
      /\ stream'.frames = 0
  BY DEF Closed, Fields
<1>2. Shape'
  BY <1>1 DEF VInv, Shape, Places
<1>3. OpenPlaces' /\ LockPlaces' /\ LockCoversPages'
  BY <1>1 DEF VInv, OpenPlaces, LockPlaces, LockCoversPages, AllFree
<1>4. Marks'
  BY <1>1 DEF VInv, Marks, LockPlaces, AllFree
<1>5. Ready' = {}
  BY DEF VInv, LockPlaces, AllFree, Ready
<1>6. Numbers'
  BY <1>1, <1>5 DEF Numbers
<1>7. QED
  BY <1>2, <1>3, <1>4, <1>6 DEF VInv

-----------------------------------------------------------------------------
(* Building a page.                                                        *)

LEMMA SelectStep == ASSUME VInv, Select PROVE VInv'
<1> USE DEF Go, ram
<1>1. CASE ~NeedsPage
  <2>1. Shape'
    BY <1>1 DEF Select, VInv, Shape, Places
  <2>2. OpenPlaces' /\ LockPlaces' /\ LockCoversPages'
    BY <1>1 DEF Select, VInv, OpenPlaces, LockPlaces, LockCoversPages, AllFree
  <2>3. Marks' /\ Numbers'
    BY <1>1 DEF Select, VInv, Marks, Numbers, Ready, NeedsPage, FileHeader
  <2>4. QED
    BY <2>1, <2>2, <2>3 DEF VInv
<1>2. CASE NeedsPage
  <2> DEFINE p == Min(Free)
  <2>1. p \in Pages /\ pages[p].state = "Free" /\ p # active /\ p # NoPage
    BY <1>2, FirstFree DEF Select, Free, VInv, Marks, Pages, NoPage
  <2>2. /\ DOMAIN stream' = Fields /\ stream'.open = TRUE /\ stream'.building = p
        /\ stream'.frames = stream.frames /\ stream'.frame = NoFrame
        /\ stream'.total = stream.total /\ stream.building = NoPage
    BY <1>2 DEF Select, NeedsPage, VInv, Shape, Fields
  <2>3. pages' = [pages EXCEPT ![p].state = "Building"]
    BY <1>2 DEF Select
  <2> HIDE DEF p
  <2>4. /\ DOMAIN pages' = Pages
        /\ \A i \in Pages : /\ i # p => pages'[i] = pages[i]
                            /\ DOMAIN pages'[i] = {"state", "number", "data"}
        /\ pages'[p].state = "Building"
    BY <2>1, <2>3 DEF VInv, Shape
  <2>5. Shape'
    BY <2>1, <2>2, <2>4 DEF Select, VInv, Shape, Places
  <2>6. OpenPlaces' /\ LockPlaces' /\ LockCoversPages'
    BY <2>1, <2>2, <2>4 DEF Select, VInv, OpenPlaces, LockPlaces, LockCoversPages, AllFree
  <2>7. Marks'
    BY <2>1, <2>2, <2>4 DEF Select, VInv, Marks, Shape
  <2>8. Ready' = Ready /\ \A i \in Ready : pages'[i] = pages[i]
    BY <2>1, <2>4 DEF Ready
  <2>9. Numbers'
    BY <2>2, <2>8 DEF Select, VInv, Numbers, NoFrame
  <2>10. QED
    BY <2>5, <2>6, <2>7, <2>9 DEF VInv
<1>3. QED
  BY <1>1, <1>2

\* Steps that write to the page being built, and leave its mark.
LEMMA BuildStep ==
  ASSUME VInv, stream.open, stream.building # NoPage,
         UNCHANGED <<active, ram, claimed, resume>>, DOMAIN stream' = Fields,
         stream'.open = stream.open, stream'.building = stream.building,
         stream'.frames = stream.frames, stream'.total = stream.total,
         DOMAIN pages' = Pages, \A i \in Pages \ {stream.building} : pages'[i] = pages[i],
         DOMAIN pages'[stream.building] = {"state", "number", "data"},
         pages'[stream.building].state = pages[stream.building].state,
         pages'[stream.building].number = stream.frames
           \/ (/\ pages'[stream.building].number = pages[stream.building].number
               /\ stream'.frame = stream.frame /\ pc1 = "decode"),
         (pc1 = "parse" /\ stream.total.count # 0) \/ pc1 = "decode", pc1' = "decode"
  PROVE  VInv'
<1> DEFINE b == stream.building
<1>1. b \in Pages /\ pages[b].state = "Building"
  BY DEF VInv, Shape, Marks
<1>2. \A i \in Pages : pages'[i].state = pages[i].state
  BY <1>1
<1>3. Shape'
  BY <1>1, <1>2 DEF VInv, Shape, Places, ram
<1>4. OpenPlaces' /\ LockPlaces' /\ LockCoversPages'
  BY <1>2 DEF VInv, OpenPlaces, LockPlaces, LockCoversPages, AllFree, ram
<1>5. Marks'
  BY <1>1, <1>2 DEF VInv, Marks, Shape
<1>6. Ready' = Ready /\ \A i \in Ready : pages'[i] = pages[i]
  BY <1>1, <1>2 DEF Ready
<1>7. Numbers'
  BY <1>6 DEF VInv, Numbers
<1>8. QED
  BY <1>3, <1>4, <1>5, <1>7 DEF VInv

LEMMA FrameHeaderStep == ASSUME VInv, FrameHeaderDone PROVE VInv'
<1>1. stream.open /\ stream.building # NoPage /\ stream.building \in Pages
      /\ pc1 = "parse" /\ stream.total.count # 0 /\ pc1' = "decode"
  BY DEF FrameHeaderDone, ParseHeader, FileHeader, VInv, OpenPlaces, Marks, Shape
<1>2. /\ DOMAIN stream' = Fields /\ stream'.open = stream.open
      /\ stream'.building = stream.building /\ stream'.frames = stream.frames
      /\ stream'.total = stream.total
  BY DEF FrameHeaderDone, Used, VInv, Shape, Fields
<1>3. /\ DOMAIN pages' = Pages
      /\ \A i \in Pages \ {stream.building} : pages'[i] = pages[i]
      /\ DOMAIN pages'[stream.building] = {"state", "number", "data"}
      /\ pages'[stream.building].state = pages[stream.building].state
      /\ pages'[stream.building].number = stream.frames
  BY <1>1 DEF FrameHeaderDone, VInv, Shape
<1>4. UNCHANGED <<active, ram, claimed, resume>>
  BY DEF FrameHeaderDone
<1>5. QED
  BY <1>1, <1>2, <1>3, <1>4, BuildStep

LEMMA OutputStep == ASSUME VInv, DecodeLiteral \/ DecodeCopy PROVE VInv'
<1>1. /\ stream.open /\ stream.building # NoPage /\ stream.building \in Pages
      /\ pc1 = "decode" /\ pc1' = "decode" /\ pages[stream.building].number = stream.frames
  BY DEF DecodeLiteral, DecodeCopy, Decoding, Output, VInv, OpenPlaces, Marks, Shape, Numbers
<1>2. /\ DOMAIN stream' = Fields /\ stream'.open = stream.open
      /\ stream'.building = stream.building /\ stream'.frames = stream.frames
      /\ stream'.total = stream.total
  BY DEF DecodeLiteral, DecodeCopy, Output, Taken, Used, VInv, Shape, Fields
<1>3. /\ DOMAIN pages' = Pages
      /\ \A i \in Pages \ {stream.building} : pages'[i] = pages[i]
      /\ DOMAIN pages'[stream.building] = {"state", "number", "data"}
      /\ pages'[stream.building].state = pages[stream.building].state
      /\ pages'[stream.building].number = pages[stream.building].number
  BY <1>1 DEF DecodeLiteral, DecodeCopy, Output, VInv, Shape
<1>4. UNCHANGED <<active, ram, claimed, resume>>
  BY DEF DecodeLiteral, DecodeCopy, Output
<1>5. QED
  BY <1>1, <1>2, <1>3, <1>4, BuildStep

LEMMA PageReadyStep == ASSUME VInv, PageReady PROVE VInv'
<1> DEFINE b == stream.building
<1>1. /\ b \in Pages /\ b # NoPage /\ pages[b].state = "Building" /\ active # b
      /\ pages[b].number = stream.frames /\ stream.open /\ pc1' \in {"eof", "top"}
      /\ stream.frames \in Nat /\ claimed' = claimed /\ claimed \in Nat
  BY DEF PageReady, Go, VInv, Shape, Marks, Numbers, OpenPlaces
<1>2. /\ DOMAIN stream' = Fields /\ stream'.open = stream.open
      /\ stream'.building = NoPage /\ stream'.frames = stream.frames + 1
  BY DEF PageReady, VInv, Shape, Fields
<1>3. /\ DOMAIN pages' = Pages /\ pages'[b].state = "Ready"
      /\ pages'[b].number = stream.frames
      /\ \A i \in Pages : /\ i # b => pages'[i] = pages[i]
                          /\ DOMAIN pages'[i] = {"state", "number", "data"}
                          /\ pages'[i].state \in {"Free", "Building", "Ready", "Active"}
  BY <1>1 DEF PageReady, VInv, Shape
<1>4. Shape'
  <2>1. UNCHANGED <<active, locked, owner, resume>> /\ pc1' \in Places
    BY <1>1 DEF PageReady, ram, Places
  <2>2. stream'.frames \in Nat /\ stream'.open \in BOOLEAN
    BY <1>1, <1>2 DEF VInv, Shape
  <2>3. QED
    BY <1>1, <1>2, <1>3, <2>1, <2>2 DEF VInv, Shape
<1>5. OpenPlaces' /\ LockPlaces' /\ LockCoversPages'
  BY <1>1, <1>2, <1>3 DEF PageReady, VInv, OpenPlaces, LockPlaces, LockCoversPages, ram
<1>6. Marks'
  BY <1>1, <1>2, <1>3 DEF PageReady, VInv, Marks, Shape
<1>7. Ready' = Ready \union {b} /\ b \notin Ready /\ \A i \in Ready : pages'[i] = pages[i]
  BY <1>1, <1>3 DEF Ready
<1>8. claimed <= stream.frames
  BY <1>1 DEF VInv, Numbers
<1>9. Numbers'
  <2>1. \A i \in Ready : /\ pages'[i].number \in Nat /\ claimed <= pages'[i].number
                         /\ pages'[i].number < stream.frames
    BY <1>7 DEF VInv, Numbers
  <2>2. \A n \in Nat : (claimed <= n /\ n < stream.frames + 1) =>
                           \E i \in Ready' : pages'[i].number = n
    <3> SUFFICES ASSUME NEW n \in Nat, claimed <= n, n < stream.frames + 1
                 PROVE  \E i \in Ready' : pages'[i].number = n
      OBVIOUS
    <3>1. CASE n = stream.frames
      BY <1>3, <1>7, <3>1
    <3>2. CASE n # stream.frames
      <4>1. n < stream.frames
        BY <1>1, <3>2
      <4>2. PICK i \in Ready : pages[i].number = n
        BY <4>1 DEF VInv, Numbers
      <4>3. QED
        BY <1>7, <4>2
    <3>3. QED
      BY <3>1, <3>2
  <2>3. \A i, j \in Ready' : pages'[i].number = pages'[j].number => i = j
    <3>1. \A i, j \in Ready : pages'[i].number = pages'[j].number => i = j
      BY <1>7 DEF VInv, Numbers
    <3>2. \A i \in Ready : pages'[i].number # stream.frames
      BY <1>1, <2>1
    <3>3. QED
      BY <1>3, <1>7, <3>1, <3>2
  <2>4. \A i \in Ready' : /\ pages'[i].number \in Nat /\ claimed <= pages'[i].number
                          /\ pages'[i].number < stream.frames + 1
    BY <1>1, <1>3, <1>7, <1>8, <2>1
  <2>5. QED
    BY <1>1, <1>2, <1>8, <2>2, <2>3, <2>4 DEF Numbers
<1>10. QED
  BY <1>4, <1>5, <1>6, <1>9 DEF VInv

LEMMA EofDoneStep == ASSUME VInv, EofDone PROVE VInv'
<1> USE DEF EofDone, Go, ram
<1>1. /\ DOMAIN stream' = Fields /\ stream'.open = FALSE /\ stream'.open \in BOOLEAN
      /\ stream'.building = NoPage /\ stream'.frames = stream.frames
      /\ stream.building = NoPage
  BY DEF VInv, Shape, Fields, Marks
<1>2. Shape'
  BY <1>1 DEF VInv, Shape, Places
<1>3. OpenPlaces' /\ LockPlaces' /\ LockCoversPages'
  BY <1>1 DEF VInv, OpenPlaces, LockPlaces, LockCoversPages
<1>4. Marks' /\ Numbers'
  BY <1>1 DEF VInv, Marks, Numbers, Ready
<1>5. QED
  BY <1>2, <1>3, <1>4 DEF VInv

-----------------------------------------------------------------------------
(* The console's steps.                                                    *)

LEMMA ClaimStep == ASSUME VInv, NEW p \in Pages, HostClaim(p) PROVE VInv'
<1>1. p = Offered /\ Ready # {}
  BY DEF HostClaim, Offered, NoPage, Pages
<1>2. p \in Ready /\ \A j \in Ready : pages[p].number <= pages[j].number
  BY <1>1, Lowest DEF VInv, Numbers
<1>3. pages[p].state = "Ready" /\ p # active /\ p # stream.building
  BY <1>2 DEF Ready, VInv, Marks, Pages, NoPage
<1>4. /\ active # NoPage => active \in Pages /\ active # stream.building
      /\ stream.building # NoPage => stream.building \in Pages
  BY DEF VInv, Marks, Shape
<1>5. /\ DOMAIN pages' = Pages /\ pages'[p].state = "Active"
      /\ \A i \in Pages : /\ i \notin {p, active} => pages'[i] = pages[i]
                          /\ i = active => pages'[i] = FreePage /\ pages'[i].state = "Free"
                          /\ DOMAIN pages'[i] = {"state", "number", "data"}
                          /\ pages'[i].state \in {"Free", "Building", "Ready", "Active"}
  BY <1>3 DEF HostClaim, FreePage, VInv, Shape
<1>6. /\ UNCHANGED <<stream, pc1, resume, locked, owner>> /\ active' = p
      /\ claimed' = claimed + 1 /\ claimed \in Nat
  BY DEF HostClaim, UNCHANGED1, ram, VInv, Shape
<1>7. Shape'
  BY <1>5, <1>6 DEF VInv, Shape
<1>8. OpenPlaces' /\ LockPlaces' /\ LockCoversPages'
  BY <1>3, <1>5, <1>6 DEF VInv, OpenPlaces, LockPlaces, LockCoversPages, AllFree
<1>9. Marks'
  BY <1>3, <1>4, <1>5, <1>6 DEF VInv, Marks, NoPage, Pages
<1>10. Ready' = Ready \ {p} /\ \A i \in Ready' : pages'[i] = pages[i]
  BY <1>3, <1>5 DEF Ready, VInv, Marks, NoPage, Pages
<1>11. /\ \A i \in Ready : pages[i].number \in Nat /\ claimed <= pages[i].number
       /\ \A i \in Ready : pages[i].number = pages[p].number => i = p
       /\ stream.frames \in Nat /\ pages[p].number < stream.frames
  BY <1>2 DEF VInv, Numbers, Shape
<1>12. pages[p].number = claimed
  BY <1>2, <1>6, <1>11 DEF VInv, Numbers
<1>13. Numbers'
  BY <1>4, <1>3, <1>5, <1>6, <1>10, <1>11, <1>12 DEF VInv, Numbers
<1>14. QED
  BY <1>7, <1>8, <1>9, <1>13 DEF VInv

LEMMA HostReleaseStep == ASSUME VInv, HostRelease PROVE VInv'
<1>1. /\ UNCHANGED <<stream, pc1, resume, locked, owner, claimed>> /\ active' = NoPage
      /\ active \in Pages /\ active # stream.building /\ pages[active].state = "Active"
  BY DEF HostRelease, UNCHANGED1, ram, VInv, Shape, Marks
<1>2. /\ DOMAIN pages' = Pages /\ pages'[active] = FreePage
      /\ \A i \in Pages : /\ i # active => pages'[i] = pages[i]
                          /\ DOMAIN pages'[i] = {"state", "number", "data"}
                          /\ pages'[i].state \in {"Free", "Building", "Ready", "Active"}
      /\ pages'[active].state = "Free"
  BY <1>1 DEF HostRelease, FreePage, VInv, Shape
<1>3. Shape'
  BY <1>1, <1>2 DEF VInv, Shape
<1>4. OpenPlaces' /\ LockPlaces' /\ LockCoversPages'
  BY <1>1, <1>2 DEF VInv, OpenPlaces, LockPlaces, LockCoversPages, AllFree
<1>5. Marks'
  BY <1>1, <1>2 DEF VInv, Marks, Shape
<1>6. Ready' = Ready /\ \A i \in Ready : pages'[i] = pages[i]
  BY <1>1, <1>2 DEF Ready
<1>7. Numbers'
  BY <1>1, <1>2, <1>6 DEF VInv, Numbers, Shape
<1>8. QED
  BY <1>3, <1>4, <1>5, <1>7 DEF VInv

-----------------------------------------------------------------------------
(* Every step.                                                             *)

LEMMA QuietSteps ==
  ASSUME VInv,
         \/ \E c \in Commands : HostCommand(c)
         \/ RequestReset \/ TakeReset \/ TakeNoReset \/ TakeNoCommand \/ TakePlayLocked
         \/ Rest \/ InputLeft \/ ReadRetry \/ ReadData \/ HeaderLead \/ FileHeaderDone
         \/ ParseBytes \/ DecodeEnds \/ DecodeTag \/ DecodeRepeat
         \/ CheckMore \/ CheckDone
  PROVE  VInv'
<1>1. UNCHANGED <<pages, active, ram, claimed, resume>>
  BY DEF HostCommand, RequestReset, TakeReset, TakeNoReset, TakeNoCommand, TakePlayLocked,
         Rest, InputLeft, ReadRetry, ReadData, HeaderLead, FileHeaderDone, ParseBytes,
         DecodeEnds, DecodeTag, DecodeRepeat, CheckMore, CheckDone, UNCHANGED1
<1>2. SameStream
  <2>1. CASE UNCHANGED stream
    BY <2>1 DEF SameStream, VInv, Shape
  <2>2. CASE ReadData
    <3>1. Changes({"input", "left"})
      BY <2>2, StepFields DEF VInv, Shape
    <3>2. QED
      BY <3>1 DEF SameStream, Changes, Fields
  <2>3. CASE HeaderLead \/ FileHeaderDone
    <3>1. Changes({"input", "lead", "total"})
      BY <2>3, StepFields DEF VInv, Shape
    <3>2. QED
      BY <3>1 DEF SameStream, Changes, Fields
  <2>4. CASE ParseBytes \/ DecodeTag \/ DecodeRepeat
    <3>1. Changes({"input", "stored", "run", "repeat", "need", "value", "work"})
      BY <2>4, StepFields DEF VInv, Shape
    <3>2. QED
      BY <3>1 DEF SameStream, Changes, Fields
  <2>5. QED
    BY <2>1, <2>2, <2>3, <2>4
       DEF HostCommand, RequestReset, TakeReset, TakeNoReset, TakeNoCommand, TakePlayLocked,
           Rest, InputLeft, ReadRetry, DecodeEnds, CheckMore, CheckDone, UNCHANGED1
<1>3. Moves
  BY DEF Moves, HostCommand, RequestReset, TakeReset, TakeNoReset, TakeNoCommand,
         TakePlayLocked, Take, Rest, InputLeft, ReadRetry, ReadData, HeaderLead,
         FileHeaderDone, ParseBytes, ParseHeader, FileHeader, DecodeEnds, DecodeTag,
         DecodeRepeat, CheckMore, CheckDone, Go, UNCHANGED1
<1>4. stream'.total = stream.total \/ pc1' = "top"
  <2>1. CASE UNCHANGED stream
    BY <2>1
  <2>2. CASE ReadData \/ HeaderLead \/ FileHeaderDone \/ ParseBytes
    BY <2>2 DEF ReadData, HeaderLead, FileHeaderDone, ParseBytes, Used, VInv, Shape, Fields
  <2>3. CASE DecodeTag \/ DecodeRepeat
    BY <2>3 DEF DecodeTag, DecodeRepeat, Taken, Used, VInv, Shape, Fields
  <2>4. QED
    BY <2>1, <2>2, <2>3
       DEF HostCommand, RequestReset, TakeReset, TakeNoReset, TakeNoCommand, TakePlayLocked,
           Rest, InputLeft, ReadRetry, DecodeEnds, CheckMore, CheckDone, UNCHANGED1
<1>5. QED
  BY <1>1, <1>2, <1>3, <1>4, QuietStep

Stops == \/ ClearCommand \/ TakeStop \/ TakeRelease \/ AcquireFails \/ OpenFails \/ ReadFails
         \/ HeaderBad \/ DecodeBadTag \/ CheckLength \/ CheckCrc \/ EofBad

LEMMA StopsStop ==
  ASSUME VInv, Stops
  PROVE  /\ StopStream /\ UNCHANGED <<active, ram, claimed>>
         /\ pc1' \in {"top", "stage", "free"} /\ resume' \in {"command", "stage", "top"}
  BY DEF Stops, ClearCommand, TakeStop, TakeRelease, Take, AcquireFails, OpenFails, ReadFails,
         HeaderBad, DecodeBadTag, CheckLength, CheckCrc, EofBad, Fail, Go, VInv, Shape

LEMMA VInit == Init => VInv
<1> SUFFICES ASSUME Init PROVE VInv
  OBVIOUS
<1> USE DEF Init
<1>1. Shape
  BY DEF Shape, Places, Closed, Fields, FreePage, NoPage, Pages
<1>2. OpenPlaces /\ LockPlaces /\ LockCoversPages
  BY DEF OpenPlaces, LockPlaces, LockCoversPages, Closed, FreePage
<1>3. Ready = {} /\ stream.frames = 0 /\ stream.building = NoPage /\ ~stream.open
  BY DEF Ready, Closed, FreePage
<1>4. Marks /\ Numbers
  BY <1>3 DEF Marks, Numbers
<1>5. QED
  BY <1>1, <1>2, <1>4 DEF VInv

LEMMA VStep == VInv /\ [Next]_vars => VInv'
<1> SUFFICES ASSUME VInv, [Next]_vars PROVE VInv'
  OBVIOUS
<1>1. CASE Stops
  BY <1>1, StopsStop, StopStep
<1>2. CASE \E p \in Pages : HostClaim(p)
  BY <1>2, ClaimStep
<1>3. CASE UNCHANGED vars
  BY <1>3 DEF vars, requests, results, ram, VInv, Shape, OpenPlaces, LockPlaces,
              LockCoversPages, AllFree, Marks, Numbers, Ready
<1>4. QED
  BY <1>1, <1>2, <1>3, QuietSteps, FreeAllStep, UnlockStep, TakePlayStep, OpenStep,
     SelectStep, FrameHeaderStep, OutputStep, PageReadyStep, EofDoneStep, HostReleaseStep
     DEF Next, Host, Task, Stops

\* The invariant holds in every reachable state.
THEOREM VideoInvariant == Spec => []VInv
  BY VInit, VStep, PTL DEF Spec

\* Pages are staged, offered and displayed only in RAM the GSU cannot touch.
THEOREM VideoLockCoversPages == Spec => []LockCoversPages
<1>1. VInv => LockCoversPages
  BY DEF VInv
<1>2. QED
  BY <1>1, VideoInvariant, PTL

\* The page the console may claim is the frame after the last one it claimed,
\* whatever came in between: the order of OfferedIsNext, for every movie.
OfferedInOrder == Offered # NoPage => pages[Offered].number = claimed

LEMMA OfferedOrder == VInv => OfferedInOrder
<1> SUFFICES ASSUME VInv, Offered # NoPage PROVE pages[Offered].number = claimed
  BY DEF OfferedInOrder
<1>1. Ready # {}
  BY DEF Offered
<1>2. Offered \in Ready /\ \A j \in Ready : pages[Offered].number <= pages[j].number
  BY <1>1, Lowest DEF VInv, Numbers
<1>3. claimed \in Nat /\ claimed < stream.frames /\ claimed <= pages[Offered].number
      /\ pages[Offered].number \in Nat
  BY <1>2 DEF VInv, Numbers, Shape
<1>4. PICK i \in Ready : pages[i].number = claimed
  BY <1>3 DEF VInv, Numbers
<1>5. QED
  BY <1>2, <1>3, <1>4

-----------------------------------------------------------------------------
(* The page on display.                                                    *)

Kept == active # NoPage /\ active' = active => pages'[active] = pages[active]

LEMMA KeptStep == ASSUME VInv, [Next]_vars PROVE Kept
<1> SUFFICES ASSUME active # NoPage, active' = active PROVE pages'[active] = pages[active]
  BY DEF Kept
<1>1. /\ active \in Pages /\ DOMAIN pages = Pages /\ pages[active].state = "Active"
      /\ active # stream.building
  BY DEF VInv, Shape, Marks
<1>2. CASE Stops
  BY <1>1, <1>2, StopsStop DEF StopStream
<1>3. CASE \E p \in Pages : HostClaim(p)
  <2>1. PICK p \in Pages : HostClaim(p)
    BY <1>3
  <2>2. Ready # {} /\ p \in Ready
    BY <2>1, Lowest DEF HostClaim, Offered, VInv, Numbers
  <2>3. QED
    BY <1>1, <2>1, <2>2 DEF HostClaim, Ready
<1>4. CASE Select
  <2>1. NeedsPage => Min(Free) \in Free
    BY <1>4, FirstFree DEF Select
  <2>2. QED
    BY <1>1, <1>4, <2>1 DEF Select, Free
<1>5. CASE FrameHeaderDone \/ PageReady
  BY <1>1, <1>5 DEF FrameHeaderDone, PageReady
<1>6. CASE DecodeLiteral \/ DecodeCopy
  BY <1>1, <1>6 DEF DecodeLiteral, DecodeCopy, Output
<1>7. CASE FreeAll \/ HostRelease
  BY <1>7 DEF FreeAll, HostRelease
<1>8. CASE UNCHANGED pages
  BY <1>8
<1>9. QED
  <2>1. CASE \/ \E c \in Commands : HostCommand(c)
             \/ RequestReset \/ GsuRuns \/ TakeReset \/ TakeNoReset \/ TakeNoCommand
             \/ Unlock \/ Give \/ TakePlayLocked \/ TakePlay \/ Acquire \/ Lock \/ Open
    BY <1>8, <2>1
       DEF HostCommand, RequestReset, GsuRuns, TakeReset, TakeNoReset, TakeNoCommand,
           Unlock, Give, TakePlayLocked, TakePlay, Acquire, Lock, Open
  <2>2. CASE \/ Rest \/ InputLeft \/ ReadRetry \/ ReadData \/ HeaderLead \/ FileHeaderDone
             \/ ParseBytes \/ DecodeEnds \/ DecodeTag \/ DecodeRepeat
             \/ CheckMore \/ CheckDone \/ EofDone
    BY <1>8, <2>2
       DEF Rest, InputLeft, ReadRetry, ReadData, HeaderLead, FileHeaderDone, ParseBytes,
           DecodeEnds, DecodeTag, DecodeRepeat, CheckMore, CheckDone, EofDone
  <2>3. QED
    BY <1>2, <1>3, <1>4, <1>5, <1>6, <1>7, <1>8, <2>1, <2>2
       DEF Next, Host, Task, Stops, vars

\* STOP, an error, the end of the movie and the frames staged meanwhile leave
\* the page on display as it is.
THEOREM VideoActiveKept == Spec => ActiveKept
<1>1. VInv /\ [Next]_vars =>
        [active # NoPage /\ active' = active => pages'[active] = pages[active]]_vars
  BY KeptStep DEF Kept
<1>2. QED
  BY <1>1, VideoInvariant, PTL DEF Spec, ActiveKept

-----------------------------------------------------------------------------
(* Files: where the headers of the frames are.                             *)

LEMMA FileOf ==
  ASSUME NEW m \in Movies
  PROVE  /\ File[m] \in Seq(Range(File[m])) /\ Len(File[m]) \in Nat
         /\ DOMAIN File[m] = 1 .. Len(File[m])
         /\ Headers(m) \subseteq 1 .. Len(File[m])
<1>1. File[m] \in Seq(Range(File[m]))
  BY FormatAssumption, ZenonT(60) DEF FormatAssumption
<1>2. Len(File[m]) \in Nat /\ DOMAIN File[m] = 1 .. Len(File[m])
  BY <1>1
<1>3. QED
  BY <1>1, <1>2 DEF Headers

\* The fields of a frame header that parses are numbers, and its codec is known.
LEMMA SoundNumbers ==
  ASSUME NEW m \in Movies, NEW h \in Headers(m), File[m][h].sound
  PROVE  /\ File[m][h].pts \in Nat /\ File[m][h].duration \in Nat
         /\ File[m][h].codec \in {0, 1}
<1> DEFINE s == File[m][h]
<1>1. {s.stored, s.pts, s.duration} \subseteq Nat /\ s.codec \in {0, 1}
  BY FormatAssumption, ZenonT(60) DEF FormatAssumption
<1> HIDE DEF s
<1>2. s.pts \in Nat /\ s.duration \in Nat /\ s.codec \in {0, 1}
  BY <1>1
<1>3. QED
  BY <1>2 DEF s

\* The file header, when it parses, names at least one frame.
LEMMA FirstHeader ==
  ASSUME NEW m \in Movies, Len(File[m]) >= 2, File[m][2].sound
  PROVE  File[m][2].count \in Nat \ {0} /\ File[m][2].duration \in Nat
BY FormatAssumption, ZenonT(60) DEF FormatAssumption

\* No frame header is among the first two units: they lead to the file header.
LEMMA NoEarlyHeader ==
  ASSUME NEW m \in Movies
  PROVE  1 \notin Headers(m) /\ 2 \notin Headers(m)
<1>1. {1, 2} \intersect Headers(m) = {}
  BY FormatAssumption, ZenonT(60) DEF FormatAssumption
<1>2. QED
  BY <1>1

LEMMA Counted ==
  ASSUME NEW m \in Movies, NEW p
  PROVE  IsFiniteSet(UpTo(m, p)) /\ Cardinality(UpTo(m, p)) \in Nat
<1>1. UpTo(m, p) \subseteq 1 .. Len(File[m])
  BY FileOf DEF UpTo
<1>2. IsFiniteSet(1 .. Len(File[m]))
  <2>1. Len(File[m]) \in Int /\ 1 \in Int
    BY FileOf
  <2>2. QED
    BY <2>1, FS_Interval
<1>3. IsFiniteSet(UpTo(m, p))
  BY <1>1, <1>2, FS_Subset
<1>4. QED
  BY <1>3, FS_CardinalityType

\* The header of a frame is found by its number.
LEMMA FrameAt ==
  ASSUME NEW m \in Movies, NEW h \in Headers(m)
  PROVE  /\ HeaderOf(m, Cardinality(UpTo(m, h))) = h
         /\ FrameOf(m, Cardinality(UpTo(m, h))) = File[m][h]
<1>1. ASSUME NEW g \in Headers(m), NEW k \in Headers(m), g < k
      PROVE  Cardinality(UpTo(m, g)) < Cardinality(UpTo(m, k))
  <2>1. g \in Nat /\ k \in Nat /\ Headers(m) \subseteq Nat
    BY FileOf
  <2>2. UpTo(m, g) \union {k} \subseteq UpTo(m, k) /\ k \notin UpTo(m, g)
    BY <1>1, <2>1 DEF UpTo
  <2>3. Cardinality(UpTo(m, g) \union {k}) = Cardinality(UpTo(m, g)) + 1
    BY <2>2, Counted, FS_AddElement
  <2>4. Cardinality(UpTo(m, g) \union {k}) <= Cardinality(UpTo(m, k))
    BY <2>2, Counted, FS_Subset
  <2>5. QED
    BY <2>3, <2>4, Counted
<1>2. ASSUME NEW g \in Headers(m), Cardinality(UpTo(m, g)) = Cardinality(UpTo(m, h))
      PROVE  g = h
  <2>1. g \in Nat /\ h \in Nat
    BY FileOf
  <2>2. Cardinality(UpTo(m, g)) \in Nat
    BY Counted
  <2>3. ~(g < h)
    BY <1>1, <1>2, <2>2
  <2>4. ~(h < g)
    BY <1>1, <1>2, <2>2
  <2>5. QED
    BY <2>1, <2>3, <2>4
<1>3. QED
  BY <1>2 DEF FrameOf, HeaderOf

\* After the file header or the bytes of a frame the next header is that of the
\* next frame.
LEMMA NextHeader ==
  ASSUME NEW m \in Movies, NEW p \in Ends(m), p \in Nat, p + 2 \in DOMAIN File[m]
  PROVE  /\ p + 2 \in Headers(m)
         /\ Cardinality(UpTo(m, p + 2)) = Cardinality(UpTo(m, p)) + 1
<1>1. p + 1 \notin Headers(m) /\ p + 2 \in Headers(m) /\ Headers(m) \subseteq Nat
  <2>1. p + 1 \notin Headers(m) /\ p + 2 \in Headers(m)
    BY FormatAssumption, ZenonT(60) DEF FormatAssumption
  <2>2. QED
    BY <2>1, FileOf
<1>2. UpTo(m, p + 2) = UpTo(m, p) \union {p + 2} /\ p + 2 \notin UpTo(m, p)
  <2>1. \A i \in Nat : i <= p + 2 <=> i <= p \/ i = p + 1 \/ i = p + 2
    OBVIOUS
  <2>2. ~(p + 2 <= p)
    OBVIOUS
  <2>3. QED
    BY <1>1, <2>1, <2>2 DEF UpTo
<1>3. QED
  BY <1>1, <1>2, Counted, FS_AddElement

LEMMA SoundFrame ==
  ASSUME NEW m \in Movies, NEW h \in Headers(m), File[m][h].sound
  PROVE  /\ File[m][h].stored \in Nat /\ File[m][h].size \in Nat \ {0}
         /\ h \in Nat /\ h + File[m][h].stored \in Ends(m)
         /\ UpTo(m, h + File[m][h].stored) = UpTo(m, h)
<1>1. /\ File[m][h].stored \in Nat /\ File[m][h].size \in Nat \ {0}
      /\ UpTo(m, h + File[m][h].stored) = UpTo(m, h)
  <2>1. {File[m][h].stored, File[m][h].pts, File[m][h].duration} \subseteq Nat
    BY FormatAssumption, ZenonT(60) DEF FormatAssumption
  <2>2. File[m][h].size \in Nat \ {0}
    BY FormatAssumption DEF FormatAssumption
  <2>3. UpTo(m, h + File[m][h].stored) = UpTo(m, h)
    BY FormatAssumption, ZenonT(60) DEF FormatAssumption
  <2>4. QED
    BY <2>1, <2>2, <2>3, Zenon
<1>2. h \in Nat /\ h + File[m][h].stored \in Ends(m)
  BY FileOf DEF Ends
<1>3. QED
  BY <1>1, <1>2

-----------------------------------------------------------------------------
(* What is read and not yet used, and what is not yet read.                *)

\* The last units of the file, cut in two.
Cut(file, input, left) ==
  /\ input \in Seq(Range(file)) /\ left \in Seq(Range(file))
  /\ Len(input) + Len(left) <= Len(file)
  /\ \A k \in 1 .. Len(input) : input[k] = file[(Len(file) - Len(left) - Len(input)) + k]
  /\ \A k \in 1 .. Len(left) : left[k] = file[(Len(file) - Len(left)) + k]

LEMMA Remaining ==
  ASSUME NEW a \in Nat, NEW b \in Nat, NEW c \in Nat, c + b <= a
  PROVE  a - b - c \in Nat /\ a - b - (c - 1) = (a - b - c) + 1
  OBVIOUS

LEMMA CutLengths ==
  ASSUME NEW S, NEW file \in Seq(S), NEW input, NEW left, Cut(file, input, left)
  PROVE  /\ Len(file) \in Nat /\ Len(left) \in Nat /\ Len(input) \in Nat
         /\ Len(input) + Len(left) <= Len(file)
         /\ Len(file) - Len(left) - Len(input) \in Nat
<1>1. input \in Seq(Range(file)) /\ left \in Seq(Range(file))
  BY DEF Cut
<1>2. Len(left) \in Nat /\ Len(input) \in Nat /\ Len(file) \in Nat
  BY <1>1
<1>3. Len(input) + Len(left) <= Len(file)
  BY DEF Cut
<1>4. QED
  BY <1>2, <1>3, Remaining

LEMMA CutOpened ==
  ASSUME NEW S, NEW file \in Seq(S), file \in Seq(Range(file))
  PROVE  Cut(file, <<>>, file)
  BY DEF Cut

LEMMA CutUse ==
  ASSUME NEW S, NEW file \in Seq(S), NEW input, NEW left, Cut(file, input, left), input # <<>>
  PROVE  /\ Cut(file, Tail(input), left) /\ Len(Tail(input)) = Len(input) - 1
         /\ Head(input) = file[(Len(file) - Len(left) - Len(input)) + 1]
         /\ (Len(file) - Len(left) - Len(input)) + 1 \in DOMAIN file
         /\ Len(input) > 1 => Tail(input) # <<>>
<1> DEFINE R == Range(file)
<1>1. /\ input \in Seq(R) /\ left \in Seq(R) /\ Len(file) \in Nat
      /\ Len(input) \in Nat \ {0} /\ Len(left) \in Nat /\ Len(input) + Len(left) <= Len(file)
  BY DEF Cut
<1> HIDE DEF R
<1>2. /\ Tail(input) \in Seq(R) /\ Len(Tail(input)) = Len(input) - 1
      /\ \A k \in 1 .. Len(input) - 1 : Tail(input)[k] = input[k + 1]
      /\ Head(input) = input[1]
  BY <1>1
<1>3. \A k \in 1 .. Len(input) : input[k] = file[(Len(file) - Len(left) - Len(input)) + k]
  BY DEF Cut
<1>4. Head(input) = file[(Len(file) - Len(left) - Len(input)) + 1]
  BY <1>1, <1>2, <1>3
<1>5. ASSUME NEW k \in 1 .. Len(Tail(input))
      PROVE  Tail(input)[k] = file[(Len(file) - Len(left) - Len(Tail(input))) + k]
  <2>1. k + 1 \in 1 .. Len(input) /\ k \in 1 .. Len(input) - 1
    BY <1>1, <1>2
  <2>2. Tail(input)[k] = file[(Len(file) - Len(left) - Len(input)) + (k + 1)]
    BY <1>2, <1>3, <2>1
  <2>3. (Len(file) - Len(left) - Len(input)) + (k + 1)
          = (Len(file) - Len(left) - Len(Tail(input))) + k
    BY <1>1, <1>2, <2>1
  <2>4. QED
    BY <2>2, <2>3
<1>6. Cut(file, Tail(input), left)
  BY <1>1, <1>2, <1>5 DEF Cut, R
<1>7. (Len(file) - Len(left) - Len(input)) + 1 \in DOMAIN file
  <2>1. (Len(file) - Len(left) - Len(input)) + 1 \in 1 .. Len(file)
    BY <1>1
  <2>2. DOMAIN file = 1 .. Len(file)
    OBVIOUS
  <2>3. QED
    BY <2>1, <2>2
<1>8. ASSUME NEW t, t = Tail(input), Len(input) > 1 PROVE t # <<>>
  <2>1. Len(t) = Len(input) - 1
    BY <1>2, <1>8
  <2>2. Len(input) - 1 # 0
    BY <1>1, <1>8
  <2>3. Len(t) # 0
    BY <2>1, <2>2
  <2>4. QED
    BY <2>3
<1>9. QED
  BY <1>2, <1>4, <1>6, <1>7, <1>8

LEMMA CutRead ==
  ASSUME NEW S, NEW file \in Seq(S), NEW left, Cut(file, <<>>, left), NEW n \in 1 .. Len(left)
  PROVE  /\ Cut(file, SubSeq(left, 1, n), SubSeq(left, n + 1, Len(left)))
         /\ SubSeq(left, 1, n) # <<>>
         /\ Len(SubSeq(left, 1, n)) + Len(SubSeq(left, n + 1, Len(left))) = Len(left)
<1> DEFINE R == Range(file)  a == SubSeq(left, 1, n)  b == SubSeq(left, n + 1, Len(left))
<1>1. left \in Seq(R) /\ Len(file) \in Nat /\ Len(left) \in Nat /\ Len(left) <= Len(file)
  BY DEF Cut
<1>2. \A k \in 1 .. Len(left) : left[k] = file[(Len(file) - Len(left)) + k]
  BY DEF Cut
<1> HIDE DEF R
<1>3. a \in Seq(R) /\ Len(a) = n /\ \A k \in 1 .. n : a[k] = left[k]
  BY <1>1
<1>4. b \in Seq(R) /\ Len(b) = Len(left) - n /\ \A k \in 1 .. Len(left) - n : b[k] = left[n + k]
  BY <1>1
<1> HIDE DEF a, b
<1>5. ASSUME NEW k \in 1 .. Len(a) PROVE a[k] = file[(Len(file) - Len(b) - Len(a)) + k]
  <2>1. (Len(file) - Len(b) - Len(a)) + k = (Len(file) - Len(left)) + k
    BY <1>1, <1>3, <1>4
  <2>2. k \in 1 .. n /\ k \in 1 .. Len(left)
    BY <1>1, <1>3
  <2>3. a[k] = file[(Len(file) - Len(left)) + k]
    BY <1>2, <1>3, <2>2
  <2>4. QED
    BY <2>1, <2>3
<1>6. ASSUME NEW k \in 1 .. Len(b) PROVE b[k] = file[(Len(file) - Len(b)) + k]
  <2>1. (Len(file) - Len(b)) + k = (Len(file) - Len(left)) + (n + k) /\ n + k \in 1 .. Len(left)
    BY <1>1, <1>4
  <2>2. QED
    BY <1>1, <1>2, <1>4, <2>1
<1>7. Len(a) + Len(b) = Len(left) /\ Len(a) # 0
  BY <1>1, <1>3, <1>4
<1>8. Cut(file, a, b) /\ a # <<>>
  BY <1>1, <1>3, <1>4, <1>5, <1>6, <1>7 DEF Cut, R
<1>9. QED
  BY <1>7, <1>8 DEF a, b

-----------------------------------------------------------------------------
(* The place in the file.                                                  *)

\* The units used up.
Pos == Len(File[stream.movie]) - Len(stream.left) - Len(stream.input)

Session ==
  /\ command \in Commands \union {NoCommand}
  /\ stream.open \/ pc1 \in {"acquire", "lock", "open"} => stream.movie \in Movies

InPlace ==
  stream.open => /\ Cut(File[stream.movie], stream.input, stream.left)
                 /\ pc1 = "parse" => stream.input # <<>>

LeadTaken == IF stream.lead THEN 1 ELSE 0

\* Where the header of the frame being decoded is.
HeaderPos == (Pos + stream.stored) - stream.frame.stored

AtFile == Pos = LeadTaken /\ stream.frames = 0 /\ stream.building = NoPage

AtHeader == /\ Pos - LeadTaken \in Ends(stream.movie)
            /\ Cardinality(UpTo(stream.movie, Pos - LeadTaken)) = stream.frames

InFrame ==
  /\ ~stream.lead /\ stream.stored \in Nat
  /\ HeaderPos \in Headers(stream.movie)
  /\ File[stream.movie][HeaderPos] = stream.frame /\ stream.frame.sound
  /\ Cardinality(UpTo(stream.movie, HeaderPos)) = stream.frames + 1

\* Frames staged and headers passed are in step, wherever a read ended.
Progress ==
  stream.open =>
    /\ FileHeader => AtFile
    /\ ~FileHeader /\ stream.frame.size = 0 => AtHeader
    /\ stream.frame.size # 0 => InFrame /\ ~FileHeader
    /\ stream.building = NoPage => stream.frame.size = 0
    /\ pc1 \in {"decode", "check", "ready"} => stream.frame.size # 0

\* What was compared with the CRC is what is offered, and belongs to its number.
Staged ==
  /\ pc1 = "ready" => /\ stream.stored = 0
                      /\ pages[stream.building].data = stream.frame.crc
  /\ \A i \in Ready : pages[i].data = FrameOf(stream.movie, pages[i].number + 1).crc

DataInv == VInv /\ Session /\ InPlace /\ Progress /\ Staged

LEMMA DInit == Init => Session /\ InPlace /\ Progress /\ Staged
<1> SUFFICES ASSUME Init PROVE Session /\ InPlace /\ Progress /\ Staged
  OBVIOUS
<1>1. stream.open = FALSE /\ Ready = {} /\ pc1 = "top" /\ command = NoCommand
  BY DEF Init, Closed, Ready, FreePage
<1>2. QED
  BY <1>1 DEF Session, InPlace, Progress, Staged

\* One unit is used up.
LEMMA UseStep ==
  ASSUME Session, InPlace, stream.open, stream.input # <<>>,
         stream'.input = Tail(stream.input), stream'.left = stream.left,
         stream'.movie = stream.movie
  PROVE  /\ Cut(File[stream'.movie], stream'.input, stream'.left)
         /\ Pos \in Nat /\ Pos' = Pos + 1 /\ stream.movie \in Movies
         /\ Unit = File[stream.movie][Pos + 1] /\ Pos + 1 \in DOMAIN File[stream.movie]
         /\ Len(stream.input) > 1 => stream'.input # <<>>
<1> DEFINE f == File[stream.movie]
<1>1. stream.movie \in Movies /\ Cut(f, stream.input, stream.left)
  BY DEF Session, InPlace
<1>2. f \in Seq(Range(f))
  BY <1>1, FileOf
<1> HIDE DEF f
<1>3. /\ Cut(f, Tail(stream.input), stream.left)
      /\ Len(Tail(stream.input)) = Len(stream.input) - 1
      /\ Head(stream.input) = f[(Len(f) - Len(stream.left) - Len(stream.input)) + 1]
      /\ (Len(f) - Len(stream.left) - Len(stream.input)) + 1 \in DOMAIN f
      /\ Len(stream.input) > 1 => Tail(stream.input) # <<>>
  BY <1>1, <1>2, CutUse
<1>4. /\ Len(f) \in Nat /\ Len(stream.left) \in Nat /\ Len(stream.input) \in Nat
      /\ Len(stream.input) + Len(stream.left) <= Len(f)
  BY <1>1, <1>2, CutLengths
<1>5. Pos = Len(f) - Len(stream.left) - Len(stream.input)
  BY DEF Pos, f
<1>6. Pos' = Len(f) - Len(stream.left) - (Len(stream.input) - 1)
  BY <1>3 DEF Pos, f
<1>7. Pos \in Nat /\ Pos' = Pos + 1
  BY <1>4, <1>5, <1>6, Remaining
<1>8. /\ Unit = f[Pos + 1] /\ Pos + 1 \in DOMAIN f
      /\ Len(stream.input) > 1 => stream'.input # <<>>
  BY <1>3, <1>5 DEF Unit
<1>9. QED
  BY <1>1, <1>3, <1>7, <1>8 DEF f

\* Nothing of core 1's state of the movie changes.
LEMMA StillStep ==
  ASSUME InPlace, Progress, Staged, UNCHANGED stream,
         pc1' \in {"decode", "check", "ready"} => pc1 \in {"decode", "check", "ready"},
         pc1' = "parse" => pc1 = "parse" \/ stream.input # <<>>,
         pc1' = "ready" => /\ stream.stored = 0
                           /\ pages'[stream.building].data = stream.frame.crc,
         \A i \in Ready' : i \in Ready /\ pages'[i] = pages[i]
  PROVE  InPlace' /\ Progress' /\ Staged'
<1>1. InPlace'
  BY DEF InPlace
<1>2. Progress'
  BY DEF Progress, FileHeader, AtFile, AtHeader, InFrame, HeaderPos, LeadTaken, Pos
<1>3. Staged'
  BY DEF Staged
<1>4. QED
  BY <1>1, <1>2, <1>3

\* The file is closed; the pages that are ready stay with the movie or go.
LEMMA ClosedStep ==
  ASSUME Staged, ~stream'.open, pc1' \notin {"parse", "ready"},
         Ready' = {} \/ (UNCHANGED pages /\ stream'.movie = stream.movie)
  PROVE  InPlace' /\ Progress' /\ Staged'
<1>1. InPlace' /\ Progress'
  BY DEF InPlace, Progress
<1>2. Staged'
  BY DEF Staged, Ready
<1>3. QED
  BY <1>1, <1>2

LEMMA OpenData == ASSUME VInv, Session, Open PROVE InPlace' /\ Progress' /\ Staged'
<1>1. /\ stream'.open = TRUE /\ stream'.movie = stream.movie /\ stream'.input = <<>>
      /\ stream'.left = File[stream.movie] /\ stream'.lead = FALSE /\ stream'.frames = 0
      /\ stream'.building = NoPage /\ stream'.total.count = 0 /\ stream'.frame.size = 0
      /\ pc1 = "open" /\ pc1' = "stage" /\ UNCHANGED pages
  BY DEF Open, Go, Closed, NoFrame
<1>2. stream.movie \in Movies
  BY <1>1 DEF Session
<1>3. File[stream.movie] \in Seq(Range(File[stream.movie]))
  BY <1>2, FileOf
<1>4. Cut(File[stream.movie], <<>>, File[stream.movie])
  BY <1>3, CutOpened
<1>5. InPlace'
  BY <1>1, <1>4 DEF InPlace
<1>6. Pos' = 0
  <2> DEFINE n == Len(File[stream.movie])
  <2>1. Len(stream'.left) = n /\ Len(stream'.input) = 0 /\ n \in Nat
    BY <1>1, <1>2, FileOf
  <2>2. Pos' = n - Len(stream'.left) - Len(stream'.input)
    BY <1>1 DEF Pos
  <2> HIDE DEF n
  <2>3. QED
    BY <2>1, <2>2
<1>7. Progress'
  BY <1>1, <1>6 DEF Progress, FileHeader, AtFile, LeadTaken
<1>8. Ready' = {}
  BY <1>1 DEF VInv, LockPlaces, AllFree, Ready
<1>9. Staged'
  BY <1>1, <1>8 DEF Staged
<1>10. QED
  BY <1>5, <1>7, <1>9

\* Core 1 stays where it is in the movie.
LEMMA SamePlace ==
  ASSUME Progress, Pos' = Pos, stream'.open = stream.open, stream'.movie = stream.movie,
         stream'.lead = stream.lead, stream'.frames = stream.frames,
         stream'.building = stream.building, stream'.total = stream.total,
         stream'.frame = stream.frame, stream'.stored = stream.stored,
         pc1' \in {"decode", "check", "ready"} => stream.frame.size # 0
  PROVE  Progress'
  BY DEF Progress, FileHeader, AtFile, AtHeader, InFrame, HeaderPos, LeadTaken

\* A stored byte is taken, or none.
LEMMA FrameStep ==
  ASSUME Progress, stream.open, stream.frame.size # 0, Pos \in Nat,
         stream'.open = stream.open, stream'.movie = stream.movie,
         stream'.lead = stream.lead, stream'.frames = stream.frames,
         stream'.building = stream.building, stream'.total = stream.total,
         stream'.frame = stream.frame,
         \/ Pos' = Pos /\ stream'.stored = stream.stored
         \/ Pos' = Pos + 1 /\ stream.stored > 0 /\ stream'.stored = stream.stored - 1
  PROVE  Progress'
<1>1. InFrame /\ ~FileHeader /\ stream.building # NoPage
  BY DEF Progress
<1>2. stream.stored \in Nat
  BY <1>1 DEF InFrame
<1>3. stream'.stored \in Nat /\ Pos' + stream'.stored = Pos + stream.stored
  BY <1>2
<1>4. HeaderPos' = HeaderPos
  BY <1>3 DEF HeaderPos
<1>5. InFrame'
  BY <1>1, <1>3, <1>4 DEF InFrame
<1>6. QED
  BY <1>1, <1>5 DEF Progress, FileHeader

\* The pages that are ready are the same.
LEMMA SameReady ==
  ASSUME Staged, stream'.movie = stream.movie, pc1' # "ready",
         \A i \in Ready' : i \in Ready /\ pages'[i] = pages[i]
  PROVE  Staged'
  BY DEF Staged

LEMMA ReadDataStep ==
  ASSUME DataInv, ReadData PROVE InPlace' /\ Progress' /\ Staged' /\ Pos' = Pos
<1>1. /\ stream.open /\ stream.input = <<>> /\ pc1' = "parse" /\ UNCHANGED pages
      /\ stream.movie \in Movies
  BY DEF ReadData, Go, DataInv, VInv, OpenPlaces, Session
<1>2. PICK n \in 1 .. Min({ReadSize, Len(stream.left)}) :
        stream' = [stream EXCEPT !.input = SubSeq(stream.left, 1, n),
                                 !.left = SubSeq(stream.left, n + 1, Len(stream.left))]
  BY DEF ReadData
<1> DEFINE a == SubSeq(stream.left, 1, n)  f == File[stream.movie]
           b == SubSeq(stream.left, n + 1, Len(stream.left))
<1>3. /\ stream'.open = stream.open /\ stream'.movie = stream.movie
      /\ stream'.lead = stream.lead /\ stream'.frames = stream.frames
      /\ stream'.building = stream.building /\ stream'.total = stream.total
      /\ stream'.frame = stream.frame /\ stream'.stored = stream.stored
      /\ stream'.input = a /\ stream'.left = b
  BY <1>2 DEF DataInv, VInv, Shape, Fields
<1>4. f \in Seq(Range(f)) /\ Cut(f, <<>>, stream.left)
  BY <1>1, FileOf DEF DataInv, InPlace
<1>5. n \in 1 .. Len(stream.left)
  <2> DEFINE l == Len(stream.left)  k == Min({ReadSize, l})
  <2>1. ReadSize \in Nat /\ l \in Nat
    BY <1>4, LimitsAssumption, CutLengths
  <2> HIDE DEF l
  <2>2. \E x \in {ReadSize, l} : \A y \in {ReadSize, l} : x <= y
    BY <2>1
  <2>3. k \in {ReadSize, l} /\ k <= l
    BY <2>2 DEF Min
  <2>4. n \in 1 .. k
    BY <1>2 DEF l
  <2> HIDE DEF k
  <2>5. n \in 1 .. l
    BY <2>1, <2>3, <2>4
  <2>6. QED
    BY <2>5 DEF l
<1>6. /\ Cut(f, a, b) /\ a # <<>> /\ Len(a) + Len(b) = Len(stream.left)
  BY <1>4, <1>5, CutRead
<1>7. /\ Len(f) \in Nat /\ Len(a) \in Nat /\ Len(b) \in Nat
  BY <1>4, <1>6, CutLengths
<1>8. Pos = Len(f) - Len(stream.left) - Len(<<>>)
  BY <1>1 DEF Pos
<1>9. Pos' = Len(f) - Len(b) - Len(a)
  BY <1>3 DEF Pos
<1> HIDE DEF a, b, f
<1>10. Pos' = Pos
  <2> DEFINE l == Len(stream.left)  x == Len(a)  y == Len(b)  z == Len(f)
  <2>1. x \in Nat /\ y \in Nat /\ z \in Nat /\ l = x + y /\ Pos = z - l - Len(<<>>)
        /\ Pos' = z - y - x /\ Len(<<>>) = 0
    BY <1>6, <1>7, <1>8, <1>9
  <2> HIDE DEF l, x, y, z
  <2>2. QED
    BY <2>1
<1>11. InPlace'
  BY <1>1, <1>3, <1>6 DEF InPlace, f
<1>12. Progress'
  BY <1>1, <1>3, <1>10, SamePlace DEF DataInv
<1>13. Staged'
  BY <1>1, <1>3, SameReady DEF DataInv, Ready
<1>14. QED
  BY <1>10, <1>11, <1>12, <1>13

\* The first part of a header.
LEMMA LeadStep == ASSUME DataInv, HeaderLead PROVE InPlace' /\ Progress' /\ Staged'
<1>1. /\ stream.open /\ pc1 = "parse" /\ (FileHeader \/ stream.frame.size = 0)
      /\ ~stream.lead /\ UNCHANGED pages /\ stream.input # <<>>
      /\ pc1' = IF Len(stream.input) > 1 THEN "parse" ELSE "top"
  BY DEF HeaderLead, ParseHeader, DataInv, VInv, OpenPlaces, InPlace
<1>2. /\ stream'.open = stream.open /\ stream'.movie = stream.movie
      /\ stream'.lead = TRUE /\ stream'.frames = stream.frames
      /\ stream'.building = stream.building /\ stream'.total = stream.total
      /\ stream'.frame = stream.frame /\ stream'.stored = stream.stored
      /\ stream'.input = Tail(stream.input) /\ stream'.left = stream.left
  BY DEF HeaderLead, Used, DataInv, VInv, Shape, Fields
<1>3. /\ Cut(File[stream'.movie], stream'.input, stream'.left)
      /\ Pos \in Nat /\ Pos' = Pos + 1
      /\ Len(stream.input) > 1 => stream'.input # <<>>
  BY <1>1, <1>2, UseStep DEF DataInv
<1>4. InPlace'
  BY <1>1, <1>3 DEF InPlace
<1>5. Pos' - LeadTaken' = Pos - LeadTaken /\ (Pos = LeadTaken => Pos' = LeadTaken')
  BY <1>1, <1>2, <1>3 DEF LeadTaken
<1>6. stream.frame.size = 0
  BY <1>1 DEF DataInv, Progress
<1>7. Progress'
  BY <1>1, <1>2, <1>5, <1>6 DEF DataInv, Progress, FileHeader, AtFile, AtHeader
<1>8. Staged'
  BY <1>1, <1>2, SameReady DEF DataInv, Ready
<1>9. QED
  BY <1>4, <1>7, <1>8

-----------------------------------------------------------------------------
(* Headers, the bytes of a frame, the page that is ready.                  *)

\* The unit that is used next.
LEMMA UnitAt ==
  ASSUME DataInv, stream.open, stream.input # <<>>
  PROVE  /\ stream.movie \in Movies /\ Pos \in Nat
         /\ Unit = File[stream.movie][Pos + 1] /\ Pos + 1 \in DOMAIN File[stream.movie]
<1> DEFINE f == File[stream.movie]
<1>1. stream.movie \in Movies /\ Cut(f, stream.input, stream.left)
  BY DEF DataInv, Session, InPlace
<1>2. f \in Seq(Range(f))
  BY <1>1, FileOf
<1> HIDE DEF f
<1>3. /\ Head(stream.input) = f[(Len(f) - Len(stream.left) - Len(stream.input)) + 1]
      /\ (Len(f) - Len(stream.left) - Len(stream.input)) + 1 \in DOMAIN f
      /\ Len(f) - Len(stream.left) - Len(stream.input) \in Nat
  BY <1>1, <1>2, CutUse, CutLengths
<1>4. Pos = Len(f) - Len(stream.left) - Len(stream.input)
  BY DEF Pos, f
<1>5. QED
  BY <1>1, <1>3, <1>4 DEF Unit, f

\* A header that is complete is the file's, or that of the next frame.
LEMMA NextUnit ==
  ASSUME DataInv, ParseHeader, stream.lead
  PROVE  /\ stream.open /\ stream.movie \in Movies /\ Pos \in Nat
         /\ FileHeader => /\ Pos = 1 /\ stream.frames = 0 /\ stream.frame.size = 0
                          /\ Unit = File[stream.movie][2] /\ Len(File[stream.movie]) >= 2
         /\ ~FileHeader => /\ Pos + 1 \in Headers(stream.movie)
                           /\ Unit = File[stream.movie][Pos + 1]
                           /\ Cardinality(UpTo(stream.movie, Pos + 1)) = stream.frames + 1
                           /\ FrameOf(stream.movie, stream.frames + 1) = Unit
<1> DEFINE m == stream.movie
<1>1. stream.open /\ stream.input # <<>> /\ (FileHeader \/ stream.frame.size = 0)
  BY DEF ParseHeader, DataInv, VInv, OpenPlaces, InPlace
<1>2. m \in Movies /\ Pos \in Nat /\ Unit = File[m][Pos + 1] /\ Pos + 1 \in DOMAIN File[m]
  BY <1>1, UnitAt
<1>3. ASSUME FileHeader
      PROVE  /\ Pos = 1 /\ stream.frames = 0 /\ stream.frame.size = 0
             /\ Unit = File[m][2] /\ Len(File[m]) >= 2
  <2>1. Pos = 1 /\ stream.frames = 0 /\ stream.frame.size = 0
    BY <1>1, <1>3 DEF DataInv, Progress, AtFile, LeadTaken
  <2>2. Unit = File[m][2] /\ Len(File[m]) >= 2
    BY <1>2, <2>1, FileOf
  <2>3. QED
    BY <2>1, <2>2
<1>4. ASSUME ~FileHeader
      PROVE  Pos + 1 \in Headers(m) /\ Cardinality(UpTo(m, Pos + 1)) = stream.frames + 1
  <2>1. Pos - 1 \in Ends(m) /\ Cardinality(UpTo(m, Pos - 1)) = stream.frames
    BY <1>1, <1>4 DEF DataInv, Progress, AtHeader, LeadTaken
  <2>2. Pos - 1 \in Nat
    <3>1. \A p \in Ends(m) : p \in Nat
      <4>1. \A h \in Headers(m) : File[m][h].sound => h + File[m][h].stored \in Nat
        BY <1>2, SoundFrame
      <4>2. QED
        BY <4>1 DEF Ends
    <3>2. QED
      BY <2>1, <3>1
  <2>3. (Pos - 1) + 2 = Pos + 1
    BY <1>2
  <2>4. (Pos - 1) + 2 \in DOMAIN File[m]
    BY <1>2, <2>3
  <2>5. /\ (Pos - 1) + 2 \in Headers(m)
        /\ Cardinality(UpTo(m, (Pos - 1) + 2)) = Cardinality(UpTo(m, Pos - 1)) + 1
    BY <1>2, <2>1, <2>2, <2>4, NextHeader
  <2>6. QED
    BY <2>1, <2>3, <2>5
<1>5. ~FileHeader => FrameOf(m, stream.frames + 1) = Unit
  BY <1>2, <1>4, FrameAt
<1>6. QED
  BY <1>1, <1>2, <1>3, <1>4, <1>5

LEMMA FileHeaderStep == ASSUME DataInv, FileHeaderDone PROVE InPlace' /\ Progress' /\ Staged'
<1> DEFINE m == stream.movie
<1>1. /\ stream.open /\ stream.lead /\ FileHeader /\ Unit.sound /\ pc1' = "top"
      /\ UNCHANGED pages /\ stream.input # <<>>
  BY DEF FileHeaderDone, ParseHeader, DataInv, VInv, OpenPlaces, InPlace
<1>2. /\ stream'.open = stream.open /\ stream'.movie = stream.movie
      /\ stream'.lead = FALSE /\ stream'.frames = stream.frames
      /\ stream'.building = stream.building /\ stream'.total.count = Unit.count
      /\ stream'.frame = stream.frame
      /\ stream'.input = Tail(stream.input) /\ stream'.left = stream.left
  BY DEF FileHeaderDone, Used, DataInv, VInv, Shape, Fields
<1>3. /\ Cut(File[stream'.movie], stream'.input, stream'.left) /\ m \in Movies
      /\ Pos \in Nat /\ Pos' = Pos + 1 /\ Unit = File[m][Pos + 1] /\ Pos + 1 \in DOMAIN File[m]
  BY <1>1, <1>2, UseStep DEF DataInv
<1>4. InPlace'
  BY <1>1, <1>3 DEF InPlace
<1>5. Pos = 1 /\ stream.frames = 0 /\ stream.frame.size = 0
  BY <1>1, NextUnit DEF FileHeaderDone
<1>6. Unit = File[m][2] /\ Len(File[m]) >= 2 /\ Pos' = 2
  BY <1>1, <1>3, <1>5, NextUnit DEF FileHeaderDone
<1>7. stream'.total.count # 0
  <2>1. stream'.total.count = File[m][2].count /\ File[m][2].sound
    BY <1>1, <1>2, <1>6
  <2>2. QED
    BY <1>3, <1>6, <2>1, FirstHeader
<1>8. UpTo(m, 2) = {}
  <2>1. Headers(m) \subseteq Nat \ {0} /\ 1 \notin Headers(m) /\ 2 \notin Headers(m)
    BY <1>3, FileOf, NoEarlyHeader
  <2>2. QED
    BY <2>1 DEF UpTo
<1>9. Pos' - LeadTaken' = 2 /\ 2 \in Ends(m) /\ Cardinality(UpTo(m, 2)) = 0
  <2>1. Pos' - LeadTaken' = 2 /\ 2 \in Ends(m)
    BY <1>2, <1>6 DEF LeadTaken, Ends
  <2>2. Cardinality(UpTo(m, 2)) = 0
    BY <1>8, FS_EmptySet
  <2>3. QED
    BY <2>1, <2>2
<1>10. Progress'
  BY <1>1, <1>2, <1>5, <1>7, <1>9 DEF DataInv, Progress, FileHeader, AtHeader
<1>11. Staged'
  BY <1>1, <1>2, SameReady DEF DataInv, Ready
<1>12. QED
  BY <1>4, <1>10, <1>11

LEMMA FrameHeaderData ==
  ASSUME DataInv, FrameHeaderDone PROVE InPlace' /\ Progress' /\ Staged'
<1> DEFINE m == stream.movie  b == stream.building
<1>1. /\ stream.open /\ stream.lead /\ ~FileHeader /\ stream.frame.size = 0 /\ Unit.sound
      /\ pc1' = "decode" /\ stream.input # <<>> /\ b # NoPage /\ pages[b].state = "Building"
      /\ pages' = [pages EXCEPT ![b].number = stream.frames]
  BY DEF FrameHeaderDone, FrameFits, ParseHeader, FileHeader, DataInv, VInv, OpenPlaces,
         Marks, InPlace
<1>2. /\ stream'.open = stream.open /\ stream'.movie = stream.movie
      /\ stream'.lead = FALSE /\ stream'.frames = stream.frames
      /\ stream'.building = b /\ stream'.total = stream.total
      /\ stream'.frame = Unit /\ stream'.stored = Unit.stored
      /\ stream'.input = Tail(stream.input) /\ stream'.left = stream.left
  BY DEF FrameHeaderDone, Used, DataInv, VInv, Shape, Fields
<1>3. /\ Cut(File[stream'.movie], stream'.input, stream'.left) /\ m \in Movies
      /\ Pos \in Nat /\ Pos' = Pos + 1 /\ Unit = File[m][Pos + 1] /\ Pos + 1 \in DOMAIN File[m]
  BY <1>1, <1>2, UseStep DEF DataInv
<1>4. InPlace'
  BY <1>1, <1>3 DEF InPlace
<1>5. Pos + 1 \in Headers(m) /\ Cardinality(UpTo(m, Pos + 1)) = stream.frames + 1
  BY <1>1, NextUnit DEF FrameHeaderDone
<1>6. Unit.stored \in Nat /\ Unit.size \in Nat \ {0}
  BY <1>1, <1>3, <1>5, SoundFrame
<1>7. HeaderPos' = Pos + 1
  <2>1. HeaderPos' = (Pos' + Unit.stored) - Unit.stored
    BY <1>2 DEF HeaderPos
  <2>2. QED
    BY <1>3, <1>6, <2>1
<1>8. InFrame'
  BY <1>1, <1>2, <1>3, <1>5, <1>6, <1>7 DEF InFrame
<1>9. Progress'
  BY <1>1, <1>2, <1>6, <1>8 DEF Progress, FileHeader
<1>10. \A i \in Ready' : i \in Ready /\ pages'[i] = pages[i]
  BY <1>1 DEF Ready, DataInv, VInv, Shape
<1>11. Staged'
  BY <1>1, <1>2, <1>10, SameReady DEF DataInv
<1>12. QED
  BY <1>4, <1>9, <1>11

\* PackBits takes stored bytes one at a time, and appends to the page.
LEMMA DecodeStep ==
  ASSUME DataInv, ParseBytes \/ DecodeTag \/ DecodeRepeat \/ DecodeLiteral \/ DecodeCopy
  PROVE  InPlace' /\ Progress' /\ Staged'
<1>1. /\ stream.open /\ pc1' = "decode" /\ stream.frame.size # 0
      /\ pages[stream.building].state = "Building"
  BY DEF ParseBytes, ParseHeader, DecodeTag, AtTag, DecodeRepeat, DecodeLiteral, DecodeCopy,
         Decoding, Output, Go, DataInv, VInv, OpenPlaces, Marks, Progress
<1>2. /\ stream'.open = stream.open /\ stream'.movie = stream.movie
      /\ stream'.lead = stream.lead /\ stream'.frames = stream.frames
      /\ stream'.building = stream.building /\ stream'.total = stream.total
      /\ stream'.frame = stream.frame /\ stream'.left = stream.left
  BY StepFields DEF Changes, DataInv, VInv, Shape, Fields
<1>3. \/ stream'.input = stream.input /\ stream'.stored = stream.stored
      \/ /\ stream.input # <<>> /\ stream'.input = Tail(stream.input)
         /\ stream.stored > 0 /\ stream'.stored = stream.stored - 1
  <2>1. CASE ParseBytes \/ DecodeCopy
    BY <2>1 DEF ParseBytes, DecodeCopy, Output, DataInv, VInv, Shape, Fields
  <2>2. CASE DecodeTag \/ DecodeRepeat \/ DecodeLiteral
    <3>1. stream'.input = Taken.input /\ stream'.stored = Taken.stored
      BY <2>2, TakenFields, ZenonT(60)
         DEF DecodeTag, DecodeRepeat, DecodeLiteral, Output, DataInv, VInv, Shape, Fields
    <3>2. stream.input # <<>> /\ stream.stored > 0
      BY <2>2 DEF DecodeTag, AtTag, DecodeRepeat, DecodeLiteral, HasByte
    <3>3. QED
      BY <3>1, <3>2, TakenFields DEF DataInv, VInv, Shape
  <2>3. QED
    BY <2>1, <2>2
<1>4. \A i \in Ready' : i \in Ready /\ pages'[i] = pages[i]
  BY <1>1 DEF ParseBytes, DecodeTag, DecodeRepeat, DecodeLiteral, DecodeCopy, Output,
              Ready, DataInv, VInv, Shape
<1>5. Staged'
  BY <1>1, <1>2, <1>4, SameReady DEF DataInv
<1>6. CASE stream'.input = stream.input /\ stream'.stored = stream.stored
  <2>1. InPlace' /\ Pos' = Pos
    BY <1>1, <1>2, <1>6 DEF DataInv, InPlace, Pos
  <2>2. Progress'
    BY <1>1, <1>2, <1>6, <2>1, SamePlace DEF DataInv
  <2>3. QED
    BY <1>5, <2>1, <2>2
<1>7. CASE /\ stream.input # <<>> /\ stream'.input = Tail(stream.input)
           /\ stream.stored > 0 /\ stream'.stored = stream.stored - 1
  <2>1. /\ Cut(File[stream'.movie], stream'.input, stream'.left)
        /\ Pos \in Nat /\ Pos' = Pos + 1
    BY <1>1, <1>2, <1>7, UseStep DEF DataInv
  <2>2. InPlace'
    BY <1>1, <2>1 DEF InPlace
  <2>3. Progress'
    BY <1>1, <1>2, <1>7, <2>1, FrameStep DEF DataInv
  <2>4. QED
    BY <1>5, <2>2, <2>3
<1>8. QED
  BY <1>3, <1>6, <1>7

LEMMA SelectData == ASSUME DataInv, Select PROVE InPlace' /\ Progress' /\ Staged'
<1>1. stream.open /\ pc1' = "read"
  BY DEF Select, Go
<1>2. CASE ~NeedsPage
  BY <1>1, <1>2, StillStep DEF Select, DataInv, Ready
<1>3. CASE NeedsPage
  <2> DEFINE p == Min(Free)
  <2>1. p \in Pages /\ pages[p].state = "Free" /\ pages' = [pages EXCEPT ![p].state = "Building"]
    BY <1>3, FirstFree DEF Select, Free
  <2>2. /\ stream'.open = stream.open /\ stream'.movie = stream.movie
        /\ stream'.lead = stream.lead /\ stream'.frames = stream.frames
        /\ stream'.total = stream.total /\ stream'.frame = NoFrame
        /\ stream'.input = stream.input /\ stream'.left = stream.left
    BY <1>3 DEF Select, DataInv, VInv, Shape, Fields
  <2>3. InPlace' /\ Pos' = Pos
    BY <1>1, <2>2 DEF DataInv, InPlace, Pos
  <2>4. ~FileHeader /\ AtHeader /\ stream'.frame.size = 0
    BY <1>1, <1>3, <2>2 DEF DataInv, Progress, NeedsPage, NoFrame
  <2>5. Progress'
    BY <1>1, <2>2, <2>3, <2>4 DEF Progress, AtHeader, LeadTaken, FileHeader
  <2>6. \A i \in Ready' : i \in Ready /\ pages'[i] = pages[i]
    BY <2>1 DEF Ready, DataInv, VInv, Shape
  <2>7. Staged'
    BY <1>1, <2>2, <2>6, SameReady DEF DataInv
  <2>8. QED
    BY <2>3, <2>5, <2>7
<1>4. QED
  BY <1>2, <1>3

LEMMA PageReadyData == ASSUME DataInv, PageReady PROVE InPlace' /\ Progress' /\ Staged'
<1> DEFINE m == stream.movie  b == stream.building  h == HeaderPos
<1>1. /\ stream.open /\ pc1 = "ready" /\ pc1' \in {"eof", "top"} /\ m \in Movies
      /\ stream.stored = 0 /\ pages[b].data = stream.frame.crc /\ b # NoPage
      /\ pages[b].number = stream.frames /\ stream.frames \in Nat /\ b \in Pages
      /\ pages' = [pages EXCEPT ![b].state = "Ready"]
  BY DEF PageReady, Go, DataInv, VInv, OpenPlaces, Marks, Numbers, Shape, Session, Staged
<1>2. /\ stream'.open = stream.open /\ stream'.movie = stream.movie
      /\ stream'.lead = stream.lead /\ stream'.frames = stream.frames + 1
      /\ stream'.building = NoPage /\ stream'.total = stream.total
      /\ stream'.frame = NoFrame
      /\ stream'.input = stream.input /\ stream'.left = stream.left
  BY DEF PageReady, DataInv, VInv, Shape, Fields
<1>3. InPlace' /\ Pos' = Pos
  BY <1>1, <1>2 DEF DataInv, InPlace, Pos
<1>4. InFrame /\ ~FileHeader
  BY <1>1 DEF DataInv, Progress
<1>5. /\ h \in Headers(m) /\ File[m][h] = stream.frame /\ File[m][h].sound
      /\ Cardinality(UpTo(m, h)) = stream.frames + 1 /\ ~stream.lead
  BY <1>4 DEF InFrame
<1>6. /\ stream.frame.stored \in Nat /\ h + stream.frame.stored \in Ends(m)
      /\ UpTo(m, h + stream.frame.stored) = UpTo(m, h) /\ h \in Nat
  BY <1>1, <1>5, SoundFrame
<1>7. Pos \in Nat
  <2> DEFINE f == File[m]
  <2>1. f \in Seq(Range(f)) /\ Cut(f, stream.input, stream.left)
    BY <1>1, FileOf DEF DataInv, InPlace
  <2> HIDE DEF f
  <2>2. Len(f) - Len(stream.left) - Len(stream.input) \in Nat
    BY <2>1, CutLengths
  <2>3. Pos = Len(f) - Len(stream.left) - Len(stream.input)
    BY DEF Pos, f
  <2>4. QED
    BY <2>2, <2>3
<1>8. h + stream.frame.stored = Pos
  BY <1>1, <1>6, <1>7 DEF HeaderPos
<1>9. AtHeader' /\ stream'.frame.size = 0
  <2>1. Pos - 0 = Pos
    BY <1>7
  <2>2. QED
    BY <1>2, <1>3, <1>5, <1>6, <1>8, <2>1 DEF AtHeader, LeadTaken, NoFrame
<1>10. Progress'
  BY <1>1, <1>2, <1>4, <1>9 DEF Progress, FileHeader
<1>11. FrameOf(m, stream.frames + 1) = stream.frame
  BY <1>1, <1>5, FrameAt
<1>12. \A i \in Ready' : /\ i = b => /\ pages'[i].number = stream.frames
                                     /\ pages'[i].data = stream.frame.crc
                         /\ i # b => i \in Ready /\ pages'[i] = pages[i]
  BY <1>1 DEF Ready, DataInv, VInv, Shape
<1>13. Staged'
  BY <1>1, <1>2, <1>11, <1>12 DEF DataInv, Staged
<1>14. QED
  BY <1>3, <1>10, <1>13

-----------------------------------------------------------------------------
(* Every step.                                                             *)

LEMMA SessionStep == ASSUME VInv, Session, [Next]_vars PROVE Session'
<1>1. command' \in Commands \union {NoCommand}
  BY DEF Session, Next, Host, Task, vars, requests, HostCommand, RequestReset, GsuRuns,
         HostClaim, HostRelease, TakeReset, TakeNoReset, ClearCommand, TakeNoCommand, Take,
         TakeStop, TakeRelease, FreeAll, Unlock, Give, TakePlayLocked, TakePlay,
         AcquireFails, Acquire, Lock, OpenFails, Open, Rest, Select, InputLeft, ReadRetry,
         ReadData, ReadFails, HeaderLead, FileHeaderDone, FrameHeaderDone, HeaderBad,
         ParseBytes, DecodeEnds, DecodeTag, DecodeBadTag, DecodeRepeat, DecodeLiteral,
         DecodeCopy, Output, CheckMore, CheckLength, CheckCrc, CheckDone, PageReady,
         EofDone, EofBad, Fail
<1>2. CASE Stops
  BY <1>1, <1>2, StopsStop, StopFields DEF Session
<1>3. CASE TakePlay
  <2>1. command \in Commands /\ command.op = "play"
    BY <1>3 DEF TakePlay, Take, Session, NoCommand
  <2>2. command.movie \in Movies
    BY <2>1 DEF Commands
  <2>3. stream'.movie = command.movie
    BY <1>3 DEF TakePlay, VInv, Shape, Fields
  <2>4. QED
    BY <1>1, <2>2, <2>3 DEF Session
<1>4. CASE Open
  <2>1. pc1 = "open" /\ stream'.movie = stream.movie
    BY <1>4 DEF Open, Go, Closed
  <2>2. QED
    BY <1>1, <2>1 DEF Session
<1>5. CASE \/ Select \/ ReadData \/ HeaderLead \/ FileHeaderDone \/ FrameHeaderDone
           \/ ParseBytes \/ DecodeTag \/ DecodeRepeat \/ DecodeLiteral \/ DecodeCopy
           \/ PageReady \/ EofDone
  <2>1. stream.open /\ stream'.movie = stream.movie
    <3>1. stream.open
      BY <1>5 DEF Select, ReadData, HeaderLead, FileHeaderDone, FrameHeaderDone, ParseHeader,
                  ParseBytes, DecodeTag, AtTag, DecodeRepeat, DecodeLiteral, DecodeCopy,
                  Decoding, PageReady, EofDone, Go, VInv, OpenPlaces
    <3>2. stream'.movie = stream.movie
      BY <1>5, StepFields DEF Changes, VInv, Shape, Fields
    <3>3. QED
      BY <3>1, <3>2
  <2>2. QED
    BY <1>1, <2>1 DEF Session
<1>6. CASE UNCHANGED stream /\ (pc1' \in {"acquire", "lock", "open"} =>
                                   pc1 \in {"acquire", "lock", "open"})
  BY <1>1, <1>6 DEF Session
<1>7. QED
  <2>1. CASE \/ \E c \in Commands : HostCommand(c)
             \/ RequestReset \/ GsuRuns \/ (\E p \in Pages : HostClaim(p)) \/ HostRelease
             \/ UNCHANGED vars
    BY <1>6, <2>1 DEF HostCommand, RequestReset, GsuRuns, HostClaim, HostRelease,
                      UNCHANGED1, vars
  <2>2. CASE \/ TakeReset \/ TakeNoReset \/ TakeNoCommand \/ FreeAll \/ Unlock \/ Give
             \/ TakePlayLocked \/ Acquire \/ Lock \/ Rest \/ InputLeft \/ ReadRetry
             \/ DecodeEnds \/ CheckMore \/ CheckDone
    BY <1>6, <2>2 DEF TakeReset, TakeNoReset, TakeNoCommand, FreeAll, Unlock, Give, Take,
                      TakePlayLocked, Acquire, Lock, Rest, InputLeft, ReadRetry,
                      DecodeEnds, CheckMore, CheckDone, Go, VInv, Shape
  <2>3. QED
    BY <1>2, <1>3, <1>4, <1>5, <2>1, <2>2 DEF Next, Host, Task, Stops

\* Steps that leave core 1's state of the movie alone.
LEMMA StillSteps ==
  ASSUME DataInv,
         \/ \E c \in Commands : HostCommand(c)
         \/ RequestReset \/ GsuRuns \/ (\E p \in Pages : HostClaim(p)) \/ HostRelease
         \/ TakeReset \/ TakeNoReset \/ TakeNoCommand \/ FreeAll \/ Unlock \/ Give
         \/ TakePlayLocked \/ Acquire \/ Lock \/ Rest \/ InputLeft \/ ReadRetry
         \/ DecodeEnds \/ CheckMore \/ CheckDone \/ UNCHANGED vars
  PROVE  InPlace' /\ Progress' /\ Staged'
<1>1. CASE \/ \E c \in Commands : HostCommand(c)
           \/ RequestReset \/ GsuRuns \/ UNCHANGED vars
  BY <1>1, StillStep DEF DataInv, Staged, HostCommand, RequestReset, GsuRuns, UNCHANGED1,
                         vars, Ready
<1>2. CASE (\E p \in Pages : HostClaim(p)) \/ HostRelease
  <2>1. UNCHANGED stream /\ pc1' = pc1
    BY <1>2 DEF HostClaim, HostRelease, UNCHANGED1
  <2>2. CASE HostRelease
    <3>1. /\ active \in Pages /\ pages' = [pages EXCEPT ![active] = FreePage]
          /\ stream.building # NoPage => stream.building # active
      BY <2>2 DEF HostRelease, DataInv, VInv, Shape, Marks
    <3>2. \A i \in Ready' : i \in Ready /\ pages'[i] = pages[i]
      BY <3>1 DEF Ready, FreePage, DataInv, VInv, Shape
    <3>3. pc1 = "ready" => stream.building # NoPage /\ stream.building \in Pages
      BY DEF DataInv, VInv, Marks, Shape
    <3>4. pc1 = "ready" => pages'[stream.building] = pages[stream.building]
      BY <3>1, <3>3 DEF DataInv, VInv, Shape
    <3>5. QED
      BY <2>1, <3>2, <3>4, StillStep DEF DataInv, Staged
  <2>3. CASE \E p \in Pages : HostClaim(p)
    <3>1. PICK p \in Pages : HostClaim(p)
      BY <2>3
    <3>2. p = Offered /\ Ready # {}
      BY <3>1 DEF HostClaim, Offered, NoPage, Pages
    <3>3. p \in Ready
      BY <3>2, Lowest DEF DataInv, VInv, Numbers
    <3>4. pages' = [j \in Pages |-> IF j = p THEN [pages[p] EXCEPT !.state = "Active"]
                                    ELSE IF j = active THEN FreePage ELSE pages[j]]
      BY <3>1 DEF HostClaim
    <3>5. \A i \in Ready' : i \in Ready /\ pages'[i] = pages[i]
      BY <3>4 DEF Ready, FreePage, DataInv, VInv, Shape
    <3>6. pc1 = "ready" => /\ stream.building \in Pages
                           /\ pages[stream.building].state = "Building"
                           /\ stream.building # active
      BY DEF DataInv, VInv, Marks, Shape
    <3>7. pc1 = "ready" => pages'[stream.building] = pages[stream.building]
      BY <3>3, <3>4, <3>6 DEF Ready
    <3>8. QED
      BY <2>1, <3>5, <3>7, StillStep DEF DataInv, Staged
  <2>4. QED
    BY <1>2, <2>2, <2>3
<1>3. CASE FreeAll
  <2>1. UNCHANGED stream /\ pc1' = "unlock" /\ Ready' = {}
    BY <1>3 DEF FreeAll, Go, Ready, FreePage
  <2>2. QED
    BY <2>1, StillStep DEF DataInv
<1>4. CASE CheckDone
  <2>1. /\ UNCHANGED <<stream, pages>> /\ pc1 = "check" /\ pc1' = "ready"
        /\ stream.stored = 0 /\ pages[stream.building].data = stream.frame.crc
    BY <1>4 DEF CheckDone, Exact, Data, Go
  <2>2. QED
    BY <2>1, StillStep DEF DataInv, Ready
<1>5. CASE \/ TakeReset \/ TakeNoReset \/ TakeNoCommand \/ Unlock \/ Give
           \/ TakePlayLocked \/ Acquire \/ Lock \/ Rest \/ InputLeft \/ ReadRetry
           \/ DecodeEnds \/ CheckMore
  <2>1. UNCHANGED <<stream, pages>>
    BY <1>5 DEF TakeReset, TakeNoReset, TakeNoCommand, Unlock, Give, TakePlayLocked, Acquire,
                Lock, Rest, InputLeft, ReadRetry, DecodeEnds, CheckMore
  <2>2. pc1' \in {"decode", "check", "ready"} => pc1 = "decode" /\ pc1' = "check"
    BY <1>5 DEF TakeReset, TakeNoReset, TakeNoCommand, Unlock, Give, TakePlayLocked, Acquire,
                Lock, Rest, InputLeft, ReadRetry, DecodeEnds, CheckMore, Go, Take,
                DataInv, VInv, Shape
  <2>3. pc1' = "parse" => stream.input # <<>>
    BY <1>5 DEF TakeReset, TakeNoReset, TakeNoCommand, Unlock, Give, TakePlayLocked, Acquire,
                Lock, Rest, InputLeft, ReadRetry, DecodeEnds, CheckMore, Go, Take,
                DataInv, VInv, Shape
  <2>4. QED
    BY <2>1, <2>2, <2>3, StillStep DEF DataInv, Ready
<1>6. QED
  BY <1>1, <1>2, <1>3, <1>4, <1>5

\* Steps after which no file is open.
LEMMA ClosedSteps ==
  ASSUME DataInv, Stops \/ TakePlay \/ EofDone
  PROVE  InPlace' /\ Progress' /\ Staged'
<1>1. CASE Stops
  <2>1. StopStream /\ pc1' \in {"top", "stage", "free"}
    BY <1>1, StopsStop DEF DataInv
  <2>2. ~stream'.open
    BY <2>1, StopFields
  <2>3. \A i \in Pages : pages'[i].state # "Ready"
    BY <2>1 DEF StopStream, FreePage, DataInv, VInv, Shape
  <2>4. Ready' = {}
    BY <2>3 DEF Ready
  <2>5. QED
    BY <2>1, <2>2, <2>4, ClosedStep DEF DataInv
<1>2. CASE TakePlay
  <2>1. ~stream.open /\ AllFree
    BY <1>2 DEF TakePlay, DataInv, VInv, LockCoversPages, AllFree
  <2>2. Ready' = {} /\ ~stream'.open /\ pc1' = "acquire"
    BY <1>2, <2>1 DEF TakePlay, Take, Go, AllFree, Ready, DataInv, VInv, Shape, Fields
  <2>3. QED
    BY <2>2, ClosedStep DEF DataInv
<1>3. CASE EofDone
  <2>1. ~stream'.open /\ stream'.movie = stream.movie /\ UNCHANGED pages /\ pc1' = "top"
    BY <1>3 DEF EofDone, Go, DataInv, VInv, Shape, Fields
  <2>2. QED
    BY <2>1, ClosedStep DEF DataInv
<1>4. QED
  BY <1>1, <1>2, <1>3

LEMMA DataStep == DataInv /\ [Next]_vars => DataInv'
<1> SUFFICES ASSUME DataInv, [Next]_vars PROVE DataInv'
  OBVIOUS
<1>1. VInv' /\ Session'
  BY VStep, SessionStep DEF DataInv
<1>2. InPlace' /\ Progress' /\ Staged'
  BY StillSteps, ClosedSteps, OpenData, SelectData, ReadDataStep, LeadStep, FileHeaderStep,
     FrameHeaderData, DecodeStep, PageReadyData
     DEF Next, Host, Task, Stops, DataInv
<1>3. QED
  BY <1>1, <1>2 DEF DataInv

THEOREM VideoData == Spec => []DataInv
<1>1. Init => DataInv
  BY VInit, DInit DEF DataInv
<1>2. QED
  BY <1>1, DataStep, PTL DEF Spec

\* For every movie, however it is damaged, and however the reads cut it: the
\* page the console may claim holds the next frame of that movie, complete and
\* as its header describes it.
THEOREM VideoOfferedIsNext == Spec => []OfferedIsNext
<1>1. VInv => OfferedInOrder
  BY OfferedOrder
<1>2. DataInv => OfferedIsNext
  <2> SUFFICES ASSUME DataInv, Offered # NoPage
               PROVE  /\ pages[Offered].number = claimed
                      /\ pages[Offered].data = FrameOf(stream.movie, claimed + 1).crc
    BY DEF OfferedIsNext
  <2>1. pages[Offered].number = claimed
    BY <1>1 DEF OfferedInOrder, DataInv
  <2>2. Offered \in Ready
    BY Lowest DEF Offered, DataInv, VInv, Numbers
  <2>3. QED
    BY <2>1, <2>2 DEF DataInv, Staged
<1>3. QED
  BY <1>2, VideoData, PTL

-----------------------------------------------------------------------------
(* The reference of PackBits, byte by byte.                                *)

Less == OpToRel(<, Nat)

\* A set that holds 0 and the successor of every number it holds.
LEMMA Induction ==
  ASSUME NEW S, 0 \in S, \A n \in Nat : n \in S => n + 1 \in S
  PROVE  Nat \subseteq S
<1>1. SUFFICES ASSUME Nat \ S # {} PROVE FALSE
  OBVIOUS
<1>2. IsWellFoundedOn(Less, Nat)
  BY NatLessThanWellFounded DEF Less
<1>3. PICK x \in Nat \ S : \A k \in Nat \ S : ~(<<k, x>> \in Less)
  <2>1. Nat \ S \subseteq Nat
    OBVIOUS
  <2>2. QED
    BY <1>1, <1>2, <2>1, WFMin, Zenon
<1>4. x - 1 \in Nat /\ (x - 1) + 1 = x /\ x - 1 < x
  BY <1>1, <1>3
<1>5. x - 1 \in S
  BY <1>3, <1>4 DEF Less, OpToRel
<1>6. QED
  BY <1>1, <1>3, <1>4, <1>5

After(m, h, k, u) ==
  IF k = 0 THEN Nothing ELSE Unpack(File[m][h].codec, u[k - 1], File[m][h + k].byte)

UnpackedUpTo(m, h, n, u) == u = [k \in 0 .. n |-> After(m, h, k, u)]

LEMMA UnpackedExists ==
  ASSUME NEW m, NEW h, NEW n \in Nat
  PROVE  \E u : UnpackedUpTo(m, h, n, u)
<1> DEFINE S == {i \in Nat : \E u : UnpackedUpTo(m, h, i, u)}
<1>1. 0 \in S
  <2> DEFINE u == [k \in 0 .. 0 |-> Nothing]
  <2>1. \A k \in 0 .. 0 : After(m, h, k, u) = Nothing
    BY DEF After
  <2>2. u = [k \in 0 .. 0 |-> After(m, h, k, u)]
    BY <2>1
  <2>3. QED
    BY <2>2 DEF UnpackedUpTo
<1>2. ASSUME NEW i \in Nat, i \in S PROVE i + 1 \in S
  <2>1. PICK u : u = [k \in 0 .. i |-> After(m, h, k, u)]
    BY <1>2 DEF UnpackedUpTo
  <2> DEFINE v == [k \in 0 .. i + 1 |-> IF k <= i THEN u[k] ELSE After(m, h, k, u)]
  <2>2. \A k \in 0 .. i + 1 : v[k] = After(m, h, k, v)
    <3> TAKE k \in 0 .. i + 1
    <3>1. k # 0 => v[k - 1] = u[k - 1]
      OBVIOUS
    <3>2. After(m, h, k, v) = After(m, h, k, u)
      BY <3>1 DEF After
    <3>3. k <= i => u[k] = After(m, h, k, u)
      BY <2>1
    <3>4. QED
      BY <3>2, <3>3
  <2>3. v = [k \in 0 .. i + 1 |-> After(m, h, k, v)]
    BY <2>2
  <2>4. UnpackedUpTo(m, h, i + 1, v)
    BY <2>3 DEF UnpackedUpTo
  <2>5. QED
    BY <2>4
<1>3. Nat \subseteq S
  BY <1>1, <1>2, Induction
<1>4. QED
  BY <1>3

LEMMA UnpackedSteps ==
  ASSUME NEW m, NEW h, File[m][h].stored \in Nat
  PROVE  /\ Unpacked(m, h)[0] = Nothing
         /\ \A k \in 0 .. File[m][h].stored - 1 :
              Unpacked(m, h)[k + 1]
                = Unpack(File[m][h].codec, Unpacked(m, h)[k], File[m][h + (k + 1)].byte)
<1> DEFINE n == File[m][h].stored
<1>1. PICK u : UnpackedUpTo(m, h, n, u)
  BY UnpackedExists
<1>2. u = [k \in 0 .. n |-> After(m, h, k, u)]
  BY <1>1 DEF UnpackedUpTo
<1>3. Unpacked(m, h) = [k \in 0 .. n |-> After(m, h, k, Unpacked(m, h))]
  BY <1>2, Zenon DEF Unpacked, After
<1>4. \A k \in 0 .. n : Unpacked(m, h)[k] = After(m, h, k, Unpacked(m, h))
  BY <1>3
<1> HIDE DEF n
<1>5. n \in Nat
  BY DEF n
<1>6. \A k \in 0 .. n - 1 : k + 1 \in 0 .. n /\ k + 1 # 0 /\ (k + 1) - 1 = k
  BY <1>5
<1>7. Unpacked(m, h)[0] = Nothing
  BY <1>4, <1>5 DEF After
<1>8. \A k \in 0 .. n - 1 :
        Unpacked(m, h)[k + 1]
          = Unpack(File[m][h].codec, Unpacked(m, h)[k], File[m][h + (k + 1)].byte)
  BY <1>4, <1>6 DEF After
<1>9. QED
  BY <1>7, <1>8 DEF n

-----------------------------------------------------------------------------
(* The decoder and the reference agree.                                    *)

Byte == 0 .. 255

Unpackings == [out : Seq(Byte), literals : Nat, repeats : Nat, valid : BOOLEAN]

\* The first part of out is data, and the rest is the byte v.
Followed(data, out, v) ==
  \A i \in 1 .. Len(out) : out[i] = IF i <= Len(data) THEN data[i] ELSE v

\* The reference has taken as many bytes, and is ahead by what is left of a run.
Agrees(s, data, run, repeat, need, value) ==
  /\ s \in Unpackings /\ data \in Seq(Byte) /\ run \in Nat
  /\ need => run > 0 /\ repeat
  /\ s.valid
  /\ s.repeats = IF need THEN run ELSE 0
  /\ s.literals = IF repeat THEN 0 ELSE run
  /\ Len(s.out) = Len(data) + (IF repeat /\ ~need THEN run ELSE 0)
  /\ Followed(data, s.out, value)

\* Where no repeats are ahead the two have written the same.
LEMMA SameOut ==
  ASSUME NEW s, NEW data, NEW run, NEW repeat, NEW need, NEW value,
         Agrees(s, data, run, repeat, need, value), run = 0 \/ ~repeat \/ need
  PROVE  s.out = data
<1>1. s.out \in Seq(Byte) /\ data \in Seq(Byte)
  BY DEF Agrees, Unpackings
<1>2. Len(s.out) = Len(data)
  <2>1. Len(data) \in Nat
    BY <1>1
  <2>2. QED
    BY <2>1 DEF Agrees
<1>3. \A i \in 1 .. Len(s.out) : s.out[i] = data[i]
  BY <1>1, <1>2 DEF Agrees, Followed
<1>4. QED
  BY <1>1, <1>2, <1>3

LEMMA AgreesLengths ==
  ASSUME NEW s, NEW data, NEW run, NEW repeat, NEW need, NEW value,
         Agrees(s, data, run, repeat, need, value)
  PROVE  /\ run \in Nat /\ Len(data) \in Nat /\ Len(s.out) \in Nat
         /\ Len(s.out) + s.literals + s.repeats = Len(data) + run
<1>1. /\ s.out \in Seq(Byte) /\ data \in Seq(Byte) /\ run \in Nat
  BY DEF Agrees, Unpackings
<1>2. Len(data) \in Nat /\ Len(s.out) \in Nat
  BY <1>1
<1>3. /\ s.repeats = IF need THEN run ELSE 0
      /\ s.literals = IF repeat THEN 0 ELSE run
      /\ Len(s.out) = Len(data) + (IF repeat /\ ~need THEN run ELSE 0)
      /\ need => repeat
  BY DEF Agrees
<1>4. CASE need
  <2>1. s.repeats = run /\ s.literals = 0 /\ Len(s.out) = Len(data) + 0
    BY <1>3, <1>4
  <2>2. QED
    BY <1>1, <1>2, <2>1
<1>5. CASE ~need /\ repeat
  <2>1. s.repeats = 0 /\ s.literals = 0 /\ Len(s.out) = Len(data) + run
    BY <1>3, <1>5
  <2>2. QED
    BY <1>1, <1>2, <2>1
<1>6. CASE ~need /\ ~repeat
  <2>1. s.repeats = 0 /\ s.literals = run /\ Len(s.out) = Len(data) + 0
    BY <1>3, <1>6
  <2>2. QED
    BY <1>1, <1>2, <2>1
<1>7. QED
  BY <1>4, <1>5, <1>6

LEMMA AgreesFirst ==
  ASSUME NEW repeat, NEW value
  PROVE  Agrees(Nothing, <<>>, 0, repeat, FALSE, value)
  BY DEF Agrees, Nothing, Whole, Unpackings, Followed

LEMMA RunLengths ==
  ASSUME NEW b \in Byte, b # 128
  PROVE  RunLength(b) \in Nat \ {0}
  BY DEF RunLength, Byte

\* A tag: if it is accepted the two agree, and if it is refused the reference
\* does not fit.
LEMMA AgreesTag ==
  ASSUME NEW s, NEW data, NEW repeat, NEW need, NEW value, NEW b \in Byte,
         Agrees(s, data, 0, repeat, need, value), b # 128
  PROVE  Agrees(Unpack(1, s, b), data, RunLength(b), b > 128, b > 128, value)
<1> DEFINE t == Unpack(1, s, b)  r == RunLength(b)
<1>1. /\ s \in Unpackings /\ s.repeats = 0 /\ s.literals = 0 /\ s.valid
      /\ data \in Seq(Byte) /\ s.out = data
  BY SameOut DEF Agrees
<1>2. r \in Nat \ {0} /\ r = IF b > 128 THEN 257 - b ELSE b + 1
  BY RunLengths DEF RunLength
<1>3. t = IF b > 128 THEN [s EXCEPT !.repeats = 257 - b] ELSE [s EXCEPT !.literals = b + 1]
  BY <1>1 DEF Unpack
<1>4. /\ t \in Unpackings /\ t.out = data /\ t.valid
      /\ t.repeats = (IF b > 128 THEN r ELSE 0) /\ t.literals = (IF b > 128 THEN 0 ELSE r)
  BY <1>1, <1>2, <1>3 DEF Unpackings, Byte
<1> HIDE DEF t, r
<1>5. Len(data) \in Nat /\ Followed(data, data, value)
  BY <1>1 DEF Followed
<1>6. Agrees(t, data, r, b > 128, b > 128, value)
  <2>1. Len(t.out) = Len(data) + 0
    BY <1>4, <1>5
  <2>2. r > 0
    BY <1>2
  <2>3. QED
    BY <1>1, <1>2, <1>4, <1>5, <2>1, <2>2 DEF Agrees
<1>7. QED
  BY <1>6 DEF t, r

LEMMA TagRefused ==
  ASSUME NEW s, NEW data, NEW repeat, NEW need, NEW value, NEW b \in Byte, NEW size \in Nat,
         Agrees(s, data, 0, repeat, need, value),
         ~(b # 128 /\ RunLength(b) <= size - Len(data))
  PROVE  ~Fits(Unpack(1, s, b), size)
<1>1. CASE b = 128
  <2>1. s \in Unpackings /\ s.repeats = 0 /\ s.literals = 0
    BY DEF Agrees
  <2>2. Unpack(1, s, b) = [s EXCEPT !.valid = FALSE]
    BY <1>1, <2>1 DEF Unpack
  <2>3. ~Unpack(1, s, b).valid
    BY <2>1, <2>2 DEF Unpackings
  <2>4. QED
    BY <2>3 DEF Fits
<1>2. CASE b # 128
  <2> DEFINE t == Unpack(1, s, b)
  <2>1. Len(t.out) + t.literals + t.repeats = Len(data) + RunLength(b)
    <3>1. Agrees(t, data, RunLength(b), b > 128, b > 128, value)
      BY <1>2, AgreesTag
    <3> HIDE DEF t
    <3>2. QED
      BY <3>1, AgreesLengths
  <2>2. Len(data) \in Nat /\ RunLength(b) \in Nat
    BY <1>2, AgreesLengths, RunLengths
  <2> HIDE DEF t
  <2>3. ~(Len(t.out) + t.literals + t.repeats <= size)
    BY <1>2, <2>1, <2>2
  <2>4. QED
    BY <2>3 DEF Fits, t
<1>3. QED
  BY <1>1, <1>2

\* A reference that agrees fits as long as the decoder's run does.
LEMMA AgreesFits ==
  ASSUME NEW s, NEW data, NEW run, NEW repeat, NEW need, NEW value, NEW size \in Nat,
         Agrees(s, data, run, repeat, need, value)
  PROVE  Fits(s, size) <=> Len(data) + run <= size
<1>1. s.valid
  BY DEF Agrees
<1>2. Len(s.out) + s.literals + s.repeats = Len(data) + run
  BY AgreesLengths
<1>3. QED
  BY <1>1, <1>2 DEF Fits

\* The byte that a run repeats: the reference writes the whole run.
LEMMA AgreesRepeat ==
  ASSUME NEW s, NEW data, NEW run, NEW repeat, NEW need, NEW value, NEW b \in Byte,
         Agrees(s, data, run, repeat, need, value), need
  PROVE  Agrees(Unpack(1, s, b), data, run, repeat, FALSE, b)
<1> DEFINE t == Unpack(1, s, b)  w == [i \in 1 .. run |-> b]
<1>1. /\ s \in Unpackings /\ data \in Seq(Byte) /\ run \in Nat /\ run > 0 /\ repeat
      /\ s.repeats = run /\ s.literals = 0 /\ s.valid
  BY DEF Agrees
<1>2. s.out = data
  BY SameOut
<1>3. t = [s EXCEPT !.out = s.out \o w, !.repeats = 0]
  BY <1>1 DEF Unpack
<1>4. w \in Seq(Byte) /\ Len(w) = run /\ \A i \in 1 .. run : w[i] = b
  BY <1>1
<1> HIDE DEF w
<1>5. /\ data \o w \in Seq(Byte) /\ Len(data \o w) = Len(data) + run /\ Len(data) \in Nat
      /\ \A i \in 1 .. Len(data) : (data \o w)[i] = data[i]
      /\ \A i \in Len(data) + 1 .. Len(data) + run : (data \o w)[i] = b
  BY <1>1, <1>4
<1> DEFINE o == data \o w
<1>6. t \in Unpackings /\ t.out = o /\ t.repeats = 0 /\ t.literals = 0 /\ t.valid
  <2>1. t = [s EXCEPT !.out = o, !.repeats = 0] /\ o \in Seq(Byte)
    BY <1>2, <1>3, <1>5
  <2> HIDE DEF t, o
  <2>2. QED
    BY <1>1, <2>1 DEF Unpackings
<1> HIDE DEF t
<1>7. Followed(data, o, b)
  BY <1>1, <1>5 DEF Followed
<1>8. Len(o) = Len(data) + run
  BY <1>5
<1> HIDE DEF o
<1>9. Agrees(t, data, run, repeat, FALSE, b)
  BY <1>1, <1>6, <1>7, <1>8 DEF Agrees
<1>10. QED
  BY <1>9 DEF t

LEMMA Appended ==
  ASSUME NEW data \in Seq(Byte), NEW b \in Byte
  PROVE  /\ Append(data, b) \in Seq(Byte) /\ Len(data) \in Nat
         /\ Len(Append(data, b)) = Len(data) + 1
         /\ \A i \in 1 .. Len(data) : Append(data, b)[i] = data[i]
         /\ Append(data, b)[Len(data) + 1] = b
  OBVIOUS

LEMMA AgreesLiteral ==
  ASSUME NEW s, NEW data, NEW run, NEW repeat, NEW need, NEW value, NEW b \in Byte,
         Agrees(s, data, run, repeat, need, value), run > 0, ~repeat
  PROVE  Agrees(Unpack(1, s, b), Append(data, b), run - 1, repeat, need, value)
<1> DEFINE t == Unpack(1, s, b)  o == Append(data, b)
<1>1. /\ s \in Unpackings /\ data \in Seq(Byte) /\ run \in Nat /\ ~need
      /\ s.repeats = 0 /\ s.literals = run /\ s.valid
  BY DEF Agrees
<1>2. s.out = data
  BY SameOut
<1>3. t = [s EXCEPT !.out = o, !.literals = run - 1]
  BY <1>1, <1>2 DEF Unpack
<1>4. o \in Seq(Byte) /\ Len(o) \in Nat /\ run - 1 \in Nat
  BY <1>1
<1> HIDE DEF o
<1>5. t \in Unpackings /\ t.out = o /\ t.repeats = 0 /\ t.literals = run - 1 /\ t.valid
  BY <1>1, <1>3, <1>4 DEF Unpackings
<1> HIDE DEF t
<1>6. Followed(o, o, value) /\ Len(o) = Len(o) + 0
  BY <1>4 DEF Followed
<1>7. Agrees(t, o, run - 1, repeat, need, value)
  BY <1>1, <1>4, <1>5, <1>6 DEF Agrees
<1>8. QED
  BY <1>7 DEF t, o

LEMMA AgreesPlain ==
  ASSUME NEW s, NEW data, NEW repeat, NEW need, NEW value, NEW b \in Byte,
         Agrees(s, data, 0, repeat, need, value)
  PROVE  Agrees(Unpack(0, s, b), Append(data, b), 0, repeat, need, value)
<1> DEFINE t == Unpack(0, s, b)  o == Append(data, b)
<1>1. /\ s \in Unpackings /\ data \in Seq(Byte) /\ ~need
      /\ s.repeats = 0 /\ s.literals = 0 /\ s.valid
  BY DEF Agrees
<1>2. s.out = data
  BY SameOut
<1>3. t = [s EXCEPT !.out = o]
  BY <1>1, <1>2 DEF Unpack
<1>4. o \in Seq(Byte) /\ Len(o) \in Nat
  BY <1>1
<1> HIDE DEF o
<1>5. t \in Unpackings /\ t.out = o /\ t.repeats = 0 /\ t.literals = 0 /\ t.valid
  BY <1>1, <1>3, <1>4 DEF Unpackings
<1> HIDE DEF t
<1>6. Followed(o, o, value) /\ Len(o) = Len(o) + 0
  BY <1>4 DEF Followed
<1>7. Agrees(t, o, 0, repeat, need, value)
  BY <1>1, <1>4, <1>5, <1>6 DEF Agrees
<1>8. QED
  BY <1>7 DEF t, o

\* A byte of a run that repeats: the reference has written it already.
LEMMA AgreesCopy ==
  ASSUME NEW s, NEW data, NEW run, NEW repeat, NEW need, NEW value,
         Agrees(s, data, run, repeat, need, value), run > 0, repeat, ~need
  PROVE  Agrees(s, Append(data, value), run - 1, repeat, need, value)
<1> DEFINE o == Append(data, value)
<1>1. /\ s \in Unpackings /\ data \in Seq(Byte) /\ run \in Nat /\ s.out \in Seq(Byte)
      /\ s.repeats = 0 /\ s.literals = 0 /\ s.valid /\ Len(s.out) = Len(data) + run
      /\ Followed(data, s.out, value)
  BY DEF Agrees, Unpackings
<1>2. Len(data) \in Nat /\ run - 1 \in Nat
  BY <1>1
<1>3. Len(data) + 1 \in 1 .. Len(s.out) /\ ~(Len(data) + 1 <= Len(data))
  BY <1>1, <1>2
<1>4. value \in Byte
  <2>1. s.out[Len(data) + 1] = value
    BY <1>1, <1>3 DEF Followed
  <2>2. QED
    BY <1>1, <1>3, <2>1
<1>5. /\ o \in Seq(Byte) /\ Len(o) = Len(data) + 1
      /\ \A i \in 1 .. Len(data) : o[i] = data[i]
      /\ o[Len(data) + 1] = value
  BY <1>1, <1>4, Appended
<1> HIDE DEF o
<1>6. Followed(o, s.out, value)
  <2> SUFFICES ASSUME NEW i \in 1 .. Len(s.out)
               PROVE  s.out[i] = IF i <= Len(o) THEN o[i] ELSE value
    BY DEF Followed
  <2>1. s.out[i] = IF i <= Len(data) THEN data[i] ELSE value
    BY <1>1 DEF Followed
  <2>2. CASE i <= Len(data)
    <3>1. i \in 1 .. Len(data) /\ i <= Len(o)
      BY <1>1, <1>2, <1>5, <2>2
    <3>2. QED
      BY <1>5, <2>1, <2>2, <3>1
  <2>3. CASE i = Len(data) + 1
    <3>1. i <= Len(o) /\ ~(i <= Len(data))
      BY <1>2, <1>5, <2>3
    <3>2. QED
      BY <1>5, <2>1, <2>3, <3>1
  <2>4. CASE i > Len(data) + 1
    <3>1. ~(i <= Len(o)) /\ ~(i <= Len(data))
      BY <1>1, <1>2, <1>5, <2>4
    <3>2. QED
      BY <2>1, <3>1
  <2>5. QED
    BY <1>1, <1>2, <2>2, <2>3, <2>4
<1>7. Len(s.out) = Len(o) + (run - 1)
  BY <1>1, <1>2, <1>5
<1>8. Agrees(s, o, run - 1, repeat, need, value)
  BY <1>1, <1>2, <1>5, <1>6, <1>7 DEF Agrees
<1>9. QED
  BY <1>8 DEF o

-----------------------------------------------------------------------------
(* What was decoded, against what the file stands for.                     *)

\* The file header was read as it is, and every frame staged is valid.
Timing ==
  stream.open =>
    /\ FileHeader => stream.end = 0 /\ pc1 # "eof"
    /\ ~FileHeader =>
         /\ Len(File[stream.movie]) >= 2 /\ File[stream.movie][2].sound
         /\ stream.total.count = File[stream.movie][2].count
         /\ stream.total.duration = File[stream.movie][2].duration
         /\ stream.end = EndOf(stream.movie, stream.frames)
         /\ \A n \in 1 .. stream.frames : FrameValid(stream.movie, n)
         /\ IF pc1 = "eof" THEN stream.frames = stream.total.count
                           ELSE stream.frames < stream.total.count

\* A page is empty until its frame's header was read.
Empty ==
  /\ \A i \in Pages : pages[i].state = "Free" => pages[i].data = <<>>
  /\ stream.open /\ stream.building # NoPage /\ stream.frame.size = 0
        => pages[stream.building].data = <<>>

\* The bytes taken of those stored for the frame.
Consumed == stream.frame.stored - stream.stored

InTime(m, n, f) ==
  /\ f.duration > 0 /\ (f.codec = 0 => f.stored = f.size)
  /\ f.pts = EndOf(m, n) /\ f.pts + f.duration <= File[m][2].duration

Decoded ==
  /\ stream.open /\ stream.frame.size # 0 =>
       /\ stream.stored <= stream.frame.stored
       /\ InTime(stream.movie, stream.frames, stream.frame)
       /\ stream.frame.codec = 0 => stream.run = 0 /\ Len(Data) = Consumed
       /\ \A k \in 0 .. Consumed : Fits(Unpacked(stream.movie, HeaderPos)[k], stream.frame.size)
       /\ Agrees(Unpacked(stream.movie, HeaderPos)[Consumed], Data, stream.run, stream.repeat,
                 stream.need, stream.value)
  /\ pc1 = "ready" => stream.run = 0 /\ Complete

\* The verdicts that were given.
Told ==
  /\ error \in {"InvalidFormat", "BadCrc"} => stream.movie \in Damaged
  /\ status = "Eof" =>
       /\ ~stream.open /\ locked /\ pc1 \in {"top", "clear", "command", "stage"}
       /\ stream.movie \in Movies \ Damaged
       /\ stream.frames = File[stream.movie][2].count /\ claimed <= stream.frames

ValidInv == DataInv /\ Timing /\ Empty /\ Decoded /\ Told

\* The frame that is being decoded, and the bytes of it that were taken.
LEMMA FrameFacts ==
  ASSUME DataInv, Decoded, stream.open, stream.frame.size # 0
  PROVE  /\ stream.movie \in Movies /\ HeaderPos \in Headers(stream.movie)
         /\ File[stream.movie][HeaderPos] = stream.frame /\ stream.frame.sound
         /\ stream.frame.stored \in Nat /\ stream.stored \in Nat
         /\ Consumed \in Nat /\ stream.stored + Consumed = stream.frame.stored
         /\ HeaderPos \in Nat /\ Pos \in Nat /\ Pos = HeaderPos + Consumed
         /\ Pos <= Len(File[stream.movie])
         /\ stream.frame.size \in Nat \ {0} /\ stream.frame.codec \in {0, 1}
         /\ stream.frame.pts \in Nat /\ stream.frame.duration \in Nat
         /\ HeaderOf(stream.movie, stream.frames + 1) = HeaderPos
         /\ FrameOf(stream.movie, stream.frames + 1) = stream.frame
         /\ stream.building \in Pages
<1> DEFINE m == stream.movie  h == HeaderPos  f == File[m]
<1>1. m \in Movies /\ InFrame /\ stream.building # NoPage /\ Cut(f, stream.input, stream.left)
  BY DEF DataInv, Session, Progress, InPlace
<1>2. /\ h \in Headers(m) /\ File[m][h] = stream.frame /\ stream.frame.sound
      /\ Cardinality(UpTo(m, h)) = stream.frames + 1 /\ stream.stored \in Nat
  BY <1>1 DEF InFrame
<1>3. HeaderOf(m, stream.frames + 1) = h /\ FrameOf(m, stream.frames + 1) = stream.frame
  BY <1>1, <1>2, FrameAt
<1>4. /\ stream.frame.stored \in Nat /\ stream.frame.size \in Nat \ {0} /\ h \in Nat
  BY <1>1, <1>2, SoundFrame
<1>5. /\ stream.frame.codec \in {0, 1}
      /\ stream.frame.pts \in Nat /\ stream.frame.duration \in Nat
  BY <1>1, <1>2, SoundNumbers
<1>6. stream.stored <= stream.frame.stored
  BY DEF Decoded
<1>7. Consumed \in Nat /\ stream.stored + Consumed = stream.frame.stored
  BY <1>2, <1>4, <1>6 DEF Consumed
<1>8. Pos \in Nat /\ Pos <= Len(f)
  <2>1. f \in Seq(Range(f))
    BY <1>1, FileOf
  <2> HIDE DEF f
  <2>2. /\ Len(f) - Len(stream.left) - Len(stream.input) \in Nat
        /\ Len(f) \in Nat /\ Len(stream.left) \in Nat /\ Len(stream.input) \in Nat
    BY <1>1, <2>1, CutLengths
  <2>3. Pos = Len(f) - Len(stream.left) - Len(stream.input)
    BY DEF Pos, f
  <2> DEFINE x == Len(f)  y == Len(stream.left)  z == Len(stream.input)
  <2>4. x \in Nat /\ y \in Nat /\ z \in Nat /\ Pos = x - y - z /\ x - y - z \in Nat
    BY <2>2, <2>3
  <2> HIDE DEF x, y, z
  <2>5. Pos \in Nat /\ Pos <= x
    BY <2>4
  <2>6. QED
    BY <2>5 DEF x
<1>9. Pos = h + Consumed
  <2>1. h = (Pos + stream.stored) - stream.frame.stored
    BY DEF HeaderPos
  <2> HIDE DEF h
  <2>2. QED
    BY <1>2, <1>4, <1>7, <1>8, <2>1
<1>10. stream.building \in Pages
  BY <1>1 DEF DataInv, VInv, Shape
<1>11. QED
  BY <1>1, <1>2, <1>3, <1>4, <1>5, <1>7, <1>8, <1>9, <1>10

LEMMA StoredBytes ==
  ASSUME NEW m \in Movies, NEW h \in Headers(m), File[m][h].sound
  PROVE  \A k \in 1 .. File[m][h].stored :
           h + k <= Len(File[m]) => File[m][h + k].byte \in Byte
  BY FormatAssumption, ZenonT(60) DEF FormatAssumption, Byte

\* The byte the decoder takes is the one the reference takes.
LEMMA TakenByte ==
  ASSUME DataInv, Decoded, stream.open, stream.frame.size # 0, HasByte
  PROVE  /\ Unit.byte \in Byte /\ Consumed + 1 \in Nat /\ Consumed + 1 <= stream.frame.stored
         /\ Unpacked(stream.movie, HeaderPos)[Consumed + 1]
              = Unpack(stream.frame.codec, Unpacked(stream.movie, HeaderPos)[Consumed],
                       Unit.byte)
<1> DEFINE m == stream.movie  h == HeaderPos  k == Consumed  f == File[m]
<1>1. /\ m \in Movies /\ h \in Headers(m) /\ File[m][h] = stream.frame /\ stream.frame.sound
      /\ stream.frame.stored \in Nat /\ stream.stored \in Nat /\ h \in Nat
      /\ k \in Nat /\ stream.stored + k = stream.frame.stored /\ Pos = h + k
  BY FrameFacts
<1>2. stream.stored > 0 /\ stream.input # <<>>
  BY DEF HasByte
<1>3. Unit = f[Pos + 1] /\ Pos + 1 \in DOMAIN f
  BY <1>2, UnitAt
<1>4. /\ k + 1 \in 1 .. stream.frame.stored /\ k \in 0 .. stream.frame.stored - 1
      /\ h + (k + 1) = Pos + 1
  BY <1>1, <1>2
<1>5. h + (k + 1) <= Len(f) /\ Unit = f[h + (k + 1)]
  BY <1>1, <1>3, <1>4, FileOf
<1>6. Unit.byte \in Byte
  <2>1. f[h + (k + 1)].byte \in Byte
    BY <1>1, <1>4, <1>5, StoredBytes
  <2>2. QED
    BY <1>5, <2>1
<1>7. Unpacked(m, h)[k + 1] = Unpack(File[m][h].codec, Unpacked(m, h)[k], f[h + (k + 1)].byte)
  BY <1>1, <1>4, UnpackedSteps
<1>8. QED
  BY <1>1, <1>4, <1>5, <1>6, <1>7

-----------------------------------------------------------------------------
(* Decoding keeps up with the reference.                                   *)

\* Nothing is taken and nothing is written.
LEMMA DecodedSame ==
  ASSUME Decoded, Pos' = Pos, stream'.open = stream.open, stream'.movie = stream.movie,
         stream'.frame = stream.frame, stream'.frames = stream.frames,
         stream'.building = stream.building, stream'.stored = stream.stored,
         stream'.run = stream.run, stream'.repeat = stream.repeat,
         stream'.need = stream.need, stream'.value = stream.value,
         stream.open /\ stream.frame.size # 0
           => pages'[stream.building] = pages[stream.building],
         pc1' = "ready" => /\ stream.run = 0 /\ Complete
                           /\ pages'[stream.building] = pages[stream.building]
  PROVE  Decoded'
<1>1. HeaderPos' = HeaderPos /\ Consumed' = Consumed
  BY DEF HeaderPos, Consumed
<1>2. stream.open /\ stream.frame.size # 0 => Data' = Data
  BY DEF Data
<1>3. pc1' = "ready" => stream'.run = 0 /\ Complete'
  BY DEF Complete, Data
<1>4. QED
  BY <1>1, <1>2, <1>3 DEF Decoded

LEMMA DecodedNone ==
  ASSUME ~stream'.open \/ stream'.frame.size = 0, pc1' # "ready"
  PROVE  Decoded'
  BY DEF Decoded

\* A byte is taken, and the reference takes it too.
LEMMA ByteDecoded ==
  ASSUME DataInv, Decoded, stream.open, stream.frame.size # 0, HasByte, pc1' = "decode",
         Pos' = Pos + 1, stream'.stored = stream.stored - 1,
         stream'.open = stream.open, stream'.movie = stream.movie,
         stream'.frame = stream.frame, stream'.frames = stream.frames,
         stream'.building = stream.building,
         Agrees(Unpack(stream.frame.codec, Unpacked(stream.movie, HeaderPos)[Consumed],
                       Unit.byte),
                Data', stream'.run, stream'.repeat, stream'.need, stream'.value),
         Len(Data') + stream'.run <= stream.frame.size,
         stream.frame.codec = 0 => stream'.run = 0 /\ Len(Data') = Consumed + 1
  PROVE  Decoded'
<1> DEFINE u == Unpacked(stream.movie, HeaderPos)
<1>1. /\ stream.frame.stored \in Nat /\ stream.stored \in Nat /\ Consumed \in Nat
      /\ Pos \in Nat /\ stream.stored + Consumed = stream.frame.stored
      /\ stream.frame.size \in Nat
  BY FrameFacts
<1>2. stream.stored > 0
  BY DEF HasByte
<1>3. HeaderPos' = HeaderPos
  <2>1. Pos' + stream'.stored = Pos + stream.stored
    BY <1>1
  <2>2. QED
    BY <2>1 DEF HeaderPos
<1>4. Consumed' = Consumed + 1 /\ stream'.stored <= stream.frame.stored
  <2>1. stream.frame.stored - (stream.stored - 1) = (stream.frame.stored - stream.stored) + 1
        /\ stream.stored - 1 <= stream.frame.stored
    BY <1>1
  <2>2. QED
    BY <2>1 DEF Consumed
<1>5. /\ u[Consumed + 1] = Unpack(stream.frame.codec, u[Consumed], Unit.byte)
  BY TakenByte
<1>6. Agrees(u[Consumed + 1], Data', stream'.run, stream'.repeat, stream'.need, stream'.value)
  BY <1>5
<1>7. Fits(u[Consumed + 1], stream.frame.size)
  BY <1>1, <1>6, AgreesFits
<1>8. \A k \in 0 .. Consumed : Fits(u[k], stream.frame.size)
  BY DEF Decoded
<1> HIDE DEF u
<1>9. \A k \in 0 .. Consumed + 1 : Fits(u[k], stream.frame.size)
  <2>1. \A k \in 0 .. Consumed + 1 : k \in 0 .. Consumed \/ k = Consumed + 1
    BY <1>1
  <2>2. QED
    BY <1>7, <1>8, <2>1
<1>10. InTime(stream.movie, stream.frames, stream.frame)
  BY DEF Decoded
<1>11. QED
  BY <1>3, <1>4, <1>6, <1>9, <1>10 DEF Decoded, u

\* What holds where a byte may be taken.
LEMMA Here ==
  ASSUME DataInv, Decoded, pc1 = "decode"
  PROVE  /\ stream.open /\ stream.frame.size # 0 /\ stream.building \in Pages
         /\ Agrees(Unpacked(stream.movie, HeaderPos)[Consumed], Data, stream.run,
                   stream.repeat, stream.need, stream.value)
         /\ stream.frame.codec = 0 => stream.run = 0 /\ Len(Data) = Consumed
         /\ Len(Data) \in Nat /\ Len(Data) + stream.run <= stream.frame.size
         /\ stream.frame.size \in Nat /\ stream.run \in Nat /\ Data \in Seq(Byte)
         /\ stream.movie \in Movies
<1>1. stream.open /\ stream.frame.size # 0
  BY DEF DataInv, VInv, OpenPlaces, Progress
<1>2. /\ stream.building \in Pages /\ Consumed \in Nat /\ stream.frame.size \in Nat
      /\ stream.movie \in Movies
  BY <1>1, FrameFacts
<1>3. /\ Agrees(Unpacked(stream.movie, HeaderPos)[Consumed], Data, stream.run, stream.repeat,
                stream.need, stream.value)
      /\ Fits(Unpacked(stream.movie, HeaderPos)[Consumed], stream.frame.size)
      /\ stream.frame.codec = 0 => stream.run = 0 /\ Len(Data) = Consumed
  BY <1>1, <1>2 DEF Decoded
<1>4. Len(Data) + stream.run <= stream.frame.size
  BY <1>2, <1>3, AgreesFits
<1>5. Len(Data) \in Nat /\ stream.run \in Nat
  BY <1>3, AgreesLengths
<1>6. Data \in Seq(Byte)
  BY <1>3 DEF Agrees
<1>7. QED
  BY <1>1, <1>2, <1>3, <1>4, <1>5, <1>6

\* The fields of a step that takes a stored byte.
Takes ==
  /\ stream'.open = stream.open /\ stream'.movie = stream.movie
  /\ stream'.frame = stream.frame /\ stream'.frames = stream.frames
  /\ stream'.building = stream.building /\ stream'.left = stream.left
  /\ stream'.input = Tail(stream.input) /\ stream'.stored = stream.stored - 1

LEMMA TakesPlace ==
  ASSUME DataInv, stream.open, HasByte, Takes
  PROVE  Pos' = Pos + 1
  BY UseStep DEF Takes, HasByte, DataInv

LEMMA TagDecoded == ASSUME DataInv, Decoded, DecodeTag PROVE Decoded'
<1> DEFINE s == Unpacked(stream.movie, HeaderPos)[Consumed]  b == Unit.byte
<1>1. /\ pc1 = "decode" /\ pc1' = "decode" /\ HasByte /\ stream.frame.codec = 1
      /\ stream.run = 0 /\ b # 128 /\ RunLength(b) <= stream.frame.size - Len(Data)
      /\ UNCHANGED pages
  BY DEF DecodeTag, AtTag, Decoding, TagFits
<1>2. /\ Takes /\ stream'.run = RunLength(b) /\ stream'.repeat = (b > 128)
      /\ stream'.need = (b > 128) /\ stream'.value = stream.value
  BY DEF DecodeTag, Taken, Used, Takes, DataInv, VInv, Shape, Fields
<1>3. /\ stream.open /\ stream.frame.size # 0 /\ Len(Data) \in Nat /\ stream.frame.size \in Nat
      /\ Agrees(s, Data, 0, stream.repeat, stream.need, stream.value)
  BY <1>1, Here
<1>4. b \in Byte
  BY <1>1, <1>3, TakenByte
<1>5. Agrees(Unpack(1, s, b), Data, RunLength(b), b > 128, b > 128, stream.value)
  BY <1>1, <1>3, <1>4, AgreesTag, ZenonT(60)
<1>6. Data' = Data
  BY <1>1, <1>2 DEF Data, Takes
<1>7. Len(Data) + RunLength(b) <= stream.frame.size
  BY <1>1, <1>3, <1>4, RunLengths
<1>8. Agrees(Unpack(stream.frame.codec, s, b), Data', stream'.run, stream'.repeat,
             stream'.need, stream'.value)
  BY <1>1, <1>2, <1>5, <1>6
<1>9. Pos' = Pos + 1
  BY <1>1, <1>2, <1>3, TakesPlace
<1>10. QED
  BY <1>1, <1>2, <1>3, <1>6, <1>7, <1>8, <1>9, ByteDecoded DEF Takes

LEMMA RepeatDecoded == ASSUME DataInv, Decoded, DecodeRepeat PROVE Decoded'
<1> DEFINE s == Unpacked(stream.movie, HeaderPos)[Consumed]  b == Unit.byte
<1>1. /\ pc1 = "decode" /\ pc1' = "decode" /\ HasByte /\ stream.frame.codec = 1
      /\ stream.run > 0 /\ stream.need /\ UNCHANGED pages
  BY DEF DecodeRepeat, Decoding
<1>2. /\ Takes /\ stream'.run = stream.run /\ stream'.repeat = stream.repeat
      /\ stream'.need = FALSE /\ stream'.value = b
  BY DEF DecodeRepeat, Taken, Used, Takes, DataInv, VInv, Shape, Fields
<1>3. /\ stream.open /\ stream.frame.size # 0
      /\ Len(Data) + stream.run <= stream.frame.size
      /\ Agrees(s, Data, stream.run, stream.repeat, stream.need, stream.value)
  BY <1>1, Here
<1>4. b \in Byte
  BY <1>1, <1>3, TakenByte
<1>5. Agrees(Unpack(1, s, b), Data, stream.run, stream.repeat, FALSE, b)
  BY <1>1, <1>3, <1>4, AgreesRepeat
<1>6. Data' = Data
  BY <1>1, <1>2 DEF Data, Takes
<1>7. Agrees(Unpack(stream.frame.codec, s, b), Data', stream'.run, stream'.repeat,
             stream'.need, stream'.value)
  BY <1>1, <1>2, <1>5, <1>6
<1>8. Pos' = Pos + 1
  BY <1>1, <1>2, <1>3, TakesPlace
<1>9. QED
  BY <1>1, <1>2, <1>3, <1>6, <1>7, <1>8, ByteDecoded DEF Takes

LEMMA LiteralDecoded == ASSUME DataInv, Decoded, DecodeLiteral PROVE Decoded'
<1> DEFINE s == Unpacked(stream.movie, HeaderPos)[Consumed]  b == Unit.byte
<1>1. /\ pc1 = "decode" /\ pc1' = "decode" /\ HasByte
      /\ stream.frame.codec = 0 \/ (stream.run > 0 /\ ~stream.repeat)
      /\ Len(Data) < stream.frame.size
      /\ pages' = [pages EXCEPT ![stream.building].data = Append(Data, b)]
  BY DEF DecodeLiteral, Decoding, Output, Data
<1>2. /\ Takes /\ stream'.run = IF stream.frame.codec = 0 THEN 0 ELSE stream.run - 1
      /\ stream'.repeat = stream.repeat
      /\ stream'.need = stream.need /\ stream'.value = stream.value
  BY DEF DecodeLiteral, Output, Taken, Used, Takes, DataInv, VInv, Shape, Fields
<1>3. /\ stream.open /\ stream.frame.size # 0 /\ stream.building \in Pages
      /\ Agrees(s, Data, stream.run, stream.repeat, stream.need, stream.value)
      /\ stream.frame.codec = 0 => stream.run = 0 /\ Len(Data) = Consumed
      /\ Len(Data) \in Nat /\ Len(Data) + stream.run <= stream.frame.size
      /\ stream.frame.size \in Nat /\ stream.run \in Nat /\ Data \in Seq(Byte)
  BY <1>1, Here
<1>4. b \in Byte /\ stream.frame.codec \in {0, 1}
  BY <1>1, <1>3, TakenByte, FrameFacts
<1>5. Data' = Append(Data, b) /\ Len(Data') = Len(Data) + 1
  <2>1. Data' = Append(Data, b)
    BY <1>1, <1>2, <1>3 DEF Data, Takes, DataInv, VInv, Shape
  <2>2. QED
    BY <1>3, <1>4, <2>1, Appended
<1>6. Pos' = Pos + 1
  BY <1>1, <1>2, <1>3, TakesPlace
<1>7. CASE stream.frame.codec = 0
  <2>1. Agrees(Unpack(0, s, b), Append(Data, b), 0, stream.repeat, stream.need, stream.value)
    BY <1>3, <1>4, <1>7, AgreesPlain
  <2>2. Agrees(Unpack(stream.frame.codec, s, b), Data', stream'.run, stream'.repeat,
               stream'.need, stream'.value)
    BY <1>2, <1>5, <1>7, <2>1
  <2>3. stream'.run = 0 /\ Len(Data') + stream'.run <= stream.frame.size
    BY <1>1, <1>2, <1>3, <1>5, <1>7
  <2>4. QED
    BY <1>1, <1>2, <1>3, <1>5, <1>6, <1>7, <2>2, <2>3, ByteDecoded DEF Takes
<1>8. CASE stream.frame.codec = 1
  <2>1. stream.run > 0 /\ ~stream.repeat
    BY <1>1, <1>8
  <2>2. Agrees(Unpack(1, s, b), Append(Data, b), stream.run - 1, stream.repeat, stream.need,
               stream.value)
    BY <1>3, <1>4, <2>1, AgreesLiteral
  <2>3. Agrees(Unpack(stream.frame.codec, s, b), Data', stream'.run, stream'.repeat,
               stream'.need, stream'.value)
    BY <1>2, <1>5, <1>8, <2>2
  <2>4. Len(Data') + stream'.run <= stream.frame.size
    BY <1>2, <1>3, <1>5, <1>8, <2>1
  <2>5. QED
    BY <1>1, <1>2, <1>3, <1>5, <1>6, <1>8, <2>3, <2>4, ByteDecoded DEF Takes
<1>9. QED
  BY <1>4, <1>7, <1>8

LEMMA CopyDecoded == ASSUME DataInv, Decoded, DecodeCopy PROVE Decoded'
<1> DEFINE s == Unpacked(stream.movie, HeaderPos)[Consumed]  v == stream.value
<1>1. /\ pc1 = "decode" /\ pc1' = "decode" /\ stream.frame.codec = 1
      /\ stream.run > 0 /\ stream.repeat /\ ~stream.need
      /\ pages' = [pages EXCEPT ![stream.building].data = Append(Data, v)]
  BY DEF DecodeCopy, Decoding, Output, Data
<1>2. /\ stream'.open = stream.open /\ stream'.movie = stream.movie
      /\ stream'.frame = stream.frame /\ stream'.frames = stream.frames
      /\ stream'.building = stream.building /\ stream'.stored = stream.stored
      /\ stream'.input = stream.input /\ stream'.left = stream.left
      /\ stream'.run = stream.run - 1 /\ stream'.repeat = stream.repeat
      /\ stream'.need = stream.need /\ stream'.value = v
  <2>1. stream' = [stream EXCEPT !.work = @ + 1,
                                 !.run = IF stream.frame.codec = 0 THEN 0 ELSE @ - 1]
    BY DEF DecodeCopy, Output
  <2>2. DOMAIN stream = Fields
    BY DEF DataInv, VInv, Shape
  <2>3. stream.frame.codec # 0
    BY <1>1
  <2>4. stream'.run = stream.run - 1
    BY <2>1, <2>2, <2>3 DEF Fields
  <2>5. QED
    BY <2>1, <2>2, <2>4 DEF Fields
<1>3. /\ stream.open /\ stream.frame.size # 0 /\ stream.building \in Pages
      /\ Agrees(s, Data, stream.run, stream.repeat, stream.need, v)
  BY <1>1, Here
<1>4. Data' = Append(Data, v)
  BY <1>1, <1>2, <1>3 DEF Data, DataInv, VInv, Shape
<1>5. Agrees(s, Append(Data, v), stream.run - 1, stream.repeat, stream.need, v)
  BY <1>1, <1>3, AgreesCopy
<1>6. Agrees(s, Data', stream'.run, stream'.repeat, stream'.need, stream'.value)
  BY <1>2, <1>4, <1>5
<1> HIDE DEF s, v
<1>7. HeaderPos' = HeaderPos /\ Consumed' = Consumed
  BY <1>2 DEF HeaderPos, Consumed, Pos
<1>8. /\ stream.stored <= stream.frame.stored
      /\ InTime(stream.movie, stream.frames, stream.frame)
      /\ \A k \in 0 .. Consumed :
            Fits(Unpacked(stream.movie, HeaderPos)[k], stream.frame.size)
  BY <1>3 DEF Decoded
<1>9. /\ stream'.stored <= stream'.frame.stored
      /\ InTime(stream'.movie, stream'.frames, stream'.frame)
      /\ stream'.frame.codec # 0 /\ pc1' # "ready"
  BY <1>1, <1>2, <1>8
<1>10. \A k \in 0 .. Consumed' :
          Fits(Unpacked(stream'.movie, HeaderPos')[k], stream'.frame.size)
  BY <1>2, <1>7, <1>8
<1>11. Agrees(Unpacked(stream'.movie, HeaderPos')[Consumed'], Data', stream'.run,
              stream'.repeat, stream'.need, stream'.value)
  BY <1>2, <1>6, <1>7 DEF s
<1>12. QED
  BY <1>9, <1>10, <1>11 DEF Decoded

\* The header of a frame: the reference starts as well.
LEMMA HeaderDecoded ==
  ASSUME DataInv, Timing, Empty, FrameHeaderDone PROVE Decoded'
<1> DEFINE m == stream.movie  h == HeaderPos'
<1>1. /\ stream.open /\ ~FileHeader /\ stream.frame.size = 0 /\ FrameFits(Unit)
      /\ stream.building # NoPage /\ stream.building \in Pages /\ m \in Movies
      /\ pc1' = "decode"
      /\ pages' = [pages EXCEPT ![stream.building].number = stream.frames]
  BY DEF FrameHeaderDone, ParseHeader, FileHeader, DataInv, VInv, OpenPlaces, Marks, Shape,
         Session
<1>2. /\ stream'.open = stream.open /\ stream'.movie = m /\ stream'.frames = stream.frames
      /\ stream'.building = stream.building /\ stream'.frame = Unit
      /\ stream'.stored = Unit.stored /\ stream'.run = 0 /\ stream'.need = FALSE
      /\ stream'.repeat = stream.repeat /\ stream'.value = stream.value
  BY DEF FrameHeaderDone, Used, DataInv, VInv, Shape, Fields
<1>3. Progress'
  BY FrameHeaderData
<1>4. InFrame' /\ stream'.frame.size # 0
  BY <1>1, <1>2, <1>3 DEF Progress
<1>5. h \in Headers(m) /\ File[m][h] = Unit /\ Unit.sound
  BY <1>2, <1>4 DEF InFrame
<1>6. Unit.stored \in Nat /\ Unit.size \in Nat
  BY <1>1, <1>5, SoundFrame
<1>7. Unit.duration \in Nat /\ Unit.pts \in Nat
  BY <1>1, <1>5, SoundNumbers
<1>8. Consumed' = 0 /\ stream'.stored <= stream'.frame.stored
  BY <1>2, <1>6 DEF Consumed
<1>9. Data' = <<>>
  BY <1>1, <1>2 DEF Data, Empty, DataInv, VInv, Shape
<1>10. InTime(m, stream.frames, Unit)
  <2>1. stream.end = EndOf(m, stream.frames) /\ stream.total.duration = File[m][2].duration
        /\ Len(File[m]) >= 2 /\ File[m][2].sound
    BY <1>1 DEF Timing
  <2>2. File[m][2].duration \in Nat
    BY <1>1, <2>1, FirstHeader
  <2>3. /\ Unit.duration > 0 /\ (Unit.codec = 0 => Unit.stored = Unit.size)
        /\ Unit.pts = stream.end /\ Unit.duration <= stream.total.duration - Unit.pts
    BY <1>1 DEF FrameFits
  <2>4. Unit.pts + Unit.duration <= File[m][2].duration
    BY <1>7, <2>1, <2>2, <2>3
  <2>5. QED
    BY <2>1, <2>3, <2>4 DEF InTime
<1>11. Unpacked(m, h)[0] = Nothing
  BY <1>5, <1>6, UnpackedSteps
<1>12. Fits(Nothing, Unit.size)
  BY <1>6 DEF Fits, Nothing, Whole
<1> HIDE DEF h
<1>13. \A k \in 0 .. Consumed' : Fits(Unpacked(m, h)[k], Unit.size)
  BY <1>8, <1>11, <1>12
<1>14. Agrees(Unpacked(m, h)[Consumed'], Data', stream'.run, stream'.repeat, stream'.need,
              stream'.value)
  BY <1>2, <1>8, <1>9, <1>11, AgreesFirst
<1>15. stream'.run = 0 /\ Len(Data') = Consumed' /\ pc1' # "ready"
  BY <1>1, <1>2, <1>8, <1>9
<1>16. QED
  BY <1>2, <1>8, <1>10, <1>13, <1>14, <1>15 DEF Decoded, h

\* The page that is being built is not one the console touches.
LEMMA BuildingKept ==
  ASSUME DataInv, (\E p \in Pages : HostClaim(p)) \/ HostRelease, stream.building # NoPage
  PROVE  pages'[stream.building] = pages[stream.building]
<1>1. /\ stream.building \in Pages /\ pages[stream.building].state = "Building"
      /\ stream.building # active
  BY DEF DataInv, VInv, Marks, Shape
<1>2. CASE HostRelease
  <2>1. active \in Pages /\ pages' = [pages EXCEPT ![active] = FreePage]
    BY <1>2 DEF HostRelease, DataInv, VInv, Shape
  <2>2. QED
    BY <1>1, <2>1 DEF DataInv, VInv, Shape
<1>3. CASE \E p \in Pages : HostClaim(p)
  <2>1. PICK p \in Pages : HostClaim(p)
    BY <1>3
  <2>2. p = Offered /\ Ready # {}
    BY <2>1 DEF HostClaim, Offered, NoPage, Pages
  <2>3. p \in Ready
    BY <2>2, Lowest DEF DataInv, VInv, Numbers
  <2>4. pages' = [j \in Pages |-> IF j = p THEN [pages[p] EXCEPT !.state = "Active"]
                                  ELSE IF j = active THEN FreePage ELSE pages[j]]
    BY <2>1 DEF HostClaim
  <2>5. QED
    BY <1>1, <2>3, <2>4 DEF Ready
<1>4. QED
  BY <1>2, <1>3

\* The steps that leave core 1's state of the movie alone.
Still ==
  \/ \E c \in Commands : HostCommand(c)
  \/ RequestReset \/ GsuRuns \/ (\E p \in Pages : HostClaim(p)) \/ HostRelease
  \/ TakeReset \/ TakeNoReset \/ TakeNoCommand \/ FreeAll \/ Unlock \/ Give
  \/ TakePlayLocked \/ Acquire \/ Lock \/ Rest \/ InputLeft \/ ReadRetry
  \/ DecodeEnds \/ CheckMore \/ CheckDone \/ UNCHANGED vars

LEMMA StillFacts ==
  ASSUME DataInv, Still
  PROVE  /\ UNCHANGED stream
         /\ stream.building # NoPage => pages'[stream.building] = pages[stream.building]
         /\ pc1' = "ready" => pc1 = "ready" \/ (stream.run = 0 /\ Complete)
         /\ pc1' = "eof" <=> pc1 = "eof"
<1>1. CASE \/ \E c \in Commands : HostCommand(c)
           \/ RequestReset \/ GsuRuns \/ UNCHANGED vars
  BY <1>1 DEF HostCommand, RequestReset, GsuRuns, UNCHANGED1, vars
<1>2. CASE (\E p \in Pages : HostClaim(p)) \/ HostRelease
  <2>1. UNCHANGED stream /\ pc1' = pc1
    BY <1>2 DEF HostClaim, HostRelease, UNCHANGED1
  <2>2. QED
    BY <1>2, <2>1, BuildingKept
<1>3. CASE FreeAll
  <2>1. UNCHANGED stream /\ pc1 = "free" /\ pc1' = "unlock"
    BY <1>3 DEF FreeAll, Go
  <2>2. stream.building = NoPage
    BY <2>1 DEF DataInv, VInv, OpenPlaces, Marks
  <2>3. QED
    BY <2>1, <2>2
<1>4. CASE CheckDone
  BY <1>4 DEF CheckDone, Exact, Go
<1>5. CASE \/ TakeReset \/ TakeNoReset \/ TakeNoCommand \/ Unlock \/ Give
           \/ TakePlayLocked \/ Acquire \/ Lock \/ Rest \/ InputLeft \/ ReadRetry
           \/ DecodeEnds \/ CheckMore
  <2>1. UNCHANGED <<stream, pages>>
    BY <1>5 DEF TakeReset, TakeNoReset, TakeNoCommand, Unlock, Give, TakePlayLocked, Acquire,
                Lock, Rest, InputLeft, ReadRetry, DecodeEnds, CheckMore
  <2>2. pc1' \notin {"ready", "eof"} /\ pc1 # "eof"
    BY <1>5 DEF TakeReset, TakeNoReset, TakeNoCommand, Unlock, Give, TakePlayLocked, Acquire,
                Lock, Rest, InputLeft, ReadRetry, DecodeEnds, CheckMore, Go, Take,
                DataInv, VInv, Shape
  <2>3. QED
    BY <2>1, <2>2
<1>6. QED
  BY <1>1, <1>2, <1>3, <1>4, <1>5 DEF Still

LEMMA StillDecoded == ASSUME DataInv, Decoded, Still PROVE Decoded'
<1>1. /\ UNCHANGED stream
      /\ stream.building # NoPage => pages'[stream.building] = pages[stream.building]
      /\ pc1' = "ready" => pc1 = "ready" \/ (stream.run = 0 /\ Complete)
  BY StillFacts
<1>2. Pos' = Pos
  BY <1>1 DEF Pos
<1>3. stream.open /\ stream.frame.size # 0 => stream.building # NoPage
  BY DEF DataInv, Progress
<1>4. pc1' = "ready" => stream.run = 0 /\ Complete
  BY <1>1 DEF Decoded
<1>5. pc1' = "ready" => stream.building # NoPage
  <2>1. pc1' = "ready" => pc1 \in {"check", "ready"}
    BY DEF Still, HostCommand, RequestReset, GsuRuns, HostClaim, HostRelease, UNCHANGED1, vars,
           TakeReset, TakeNoReset, TakeNoCommand, FreeAll, Unlock, Give, Take,
           TakePlayLocked, Acquire, Lock, Rest, InputLeft, ReadRetry,
           DecodeEnds, CheckMore, CheckDone, Exact, Go, DataInv, VInv, Shape
  <2>2. QED
    BY <2>1 DEF DataInv, VInv, Marks
<1>6. QED
  BY <1>1, <1>2, <1>3, <1>4, <1>5, DecodedSame

LEMMA DecodedStep == ASSUME ValidInv, [Next]_vars PROVE Decoded'
<1> USE DEF ValidInv
<1>1. CASE Still
  BY <1>1, StillDecoded
<1>2. CASE Stops
  <2>1. StopStream /\ pc1' # "ready"
    BY <1>2, StopsStop DEF DataInv
  <2>2. QED
    BY <2>1, StopFields, DecodedNone
<1>3. CASE TakePlay \/ Open \/ HeaderLead \/ FileHeaderDone \/ PageReady \/ EofDone
  <2>1. pc1' # "ready"
    BY <1>3 DEF TakePlay, Take, Open, HeaderLead, FileHeaderDone, PageReady, EofDone, Go
  <2>2. CASE TakePlay \/ EofDone
    <3>1. stream'.open = FALSE
      BY <2>2 DEF TakePlay, Take, EofDone, Go, DataInv, VInv, Shape, Fields,
                  LockCoversPages
    <3>2. QED
      BY <2>1, <3>1, DecodedNone
  <2>3. CASE Open \/ PageReady
    <3>1. stream'.frame = NoFrame
      BY <2>3 DEF Open, PageReady, Closed, DataInv, VInv, Shape, Fields
    <3>2. QED
      BY <2>1, <3>1, DecodedNone DEF NoFrame
  <2>4. CASE HeaderLead \/ FileHeaderDone
    <3>1. stream'.frame = stream.frame
      BY <2>4 DEF HeaderLead, FileHeaderDone, Used, DataInv, VInv, Shape, Fields
    <3>2. stream.open /\ stream.frame.size = 0
      BY <2>4 DEF HeaderLead, FileHeaderDone, ParseHeader, DataInv, VInv, OpenPlaces, Progress
    <3>3. QED
      BY <2>1, <3>1, <3>2, DecodedNone
  <2>5. QED
    BY <1>3, <2>2, <2>3, <2>4
<1>4. CASE FrameHeaderDone
  BY <1>4, HeaderDecoded
<1>5. CASE DecodeTag \/ DecodeRepeat \/ DecodeLiteral \/ DecodeCopy
  BY <1>5, TagDecoded, RepeatDecoded, LiteralDecoded, CopyDecoded
<1>6. CASE Select
  <2>1. stream.open /\ pc1' = "read"
    BY <1>6 DEF Select, Go
  <2>2. CASE ~NeedsPage
    <3>1. UNCHANGED <<stream, pages>>
      BY <1>6, <2>2 DEF Select
    <3>2. Pos' = Pos
      BY <3>1 DEF Pos
    <3>3. QED
      BY <2>1, <3>1, <3>2, DecodedSame
  <2>3. CASE NeedsPage
    <3>1. stream'.frame = NoFrame
      BY <1>6, <2>3 DEF Select, DataInv, VInv, Shape, Fields
    <3>2. QED
      BY <2>1, <3>1, DecodedNone DEF NoFrame
  <2>4. QED
    BY <2>2, <2>3
<1>7. CASE ReadData \/ ParseBytes
  <2>1. /\ stream'.open = stream.open /\ stream'.movie = stream.movie
        /\ stream'.frame = stream.frame /\ stream'.frames = stream.frames
        /\ stream'.building = stream.building /\ stream'.stored = stream.stored
        /\ stream'.run = stream.run /\ stream'.repeat = stream.repeat
        /\ stream'.need = stream.need /\ stream'.value = stream.value
        /\ UNCHANGED pages /\ pc1' # "ready"
    <3>1. CASE ReadData
      BY <3>1, StepFields DEF ReadData, Go, Changes, DataInv, VInv, Shape, Fields
    <3>2. CASE ParseBytes
      BY <3>2 DEF ParseBytes, Go, DataInv, VInv, Shape, Fields
    <3>3. QED
      BY <1>7, <3>1, <3>2
  <2>2. CASE ReadData
    BY <2>1, <2>2, ReadDataStep, DecodedSame
  <2>3. CASE ParseBytes
    <3>1. Pos' = Pos
      BY <2>3 DEF ParseBytes, Pos, DataInv, VInv, Shape, Fields
    <3>2. QED
      BY <2>1, <3>1, DecodedSame
  <2>4. QED
    BY <1>7, <2>2, <2>3
<1>8. QED
  BY <1>1, <1>2, <1>3, <1>4, <1>5, <1>6, <1>7 DEF Next, Host, Task, Still, Stops

-----------------------------------------------------------------------------
(* A page is empty before its frame.                                       *)

LEMMA EmptyStep == ASSUME ValidInv, [Next]_vars PROVE Empty'
<1> USE DEF ValidInv
<1>1. CASE Still
  <2>1. /\ UNCHANGED stream
        /\ stream.building # NoPage => pages'[stream.building] = pages[stream.building]
    BY <1>1, StillFacts
  <2>2. \A i \in Pages : pages'[i].state = "Free" => pages'[i].data = <<>>
    <3>1. CASE UNCHANGED pages
      BY <3>1 DEF Empty
    <3>2. CASE HostRelease
      <4>1. active \in Pages /\ pages' = [pages EXCEPT ![active] = FreePage]
        BY <3>2 DEF HostRelease, DataInv, VInv, Shape
      <4>2. QED
        BY <4>1 DEF Empty, FreePage, DataInv, VInv, Shape
    <3>3. CASE \E p \in Pages : HostClaim(p)
      <4>1. PICK p \in Pages : HostClaim(p)
        BY <3>3
      <4>2. pages' = [j \in Pages |-> IF j = p THEN [pages[p] EXCEPT !.state = "Active"]
                                      ELSE IF j = active THEN FreePage ELSE pages[j]]
        BY <4>1 DEF HostClaim
      <4>3. pages'[p].state = "Active"
        BY <4>2 DEF DataInv, VInv, Shape
      <4>4. QED
        BY <4>2, <4>3 DEF Empty, FreePage
    <3>4. CASE FreeAll
      BY <3>4 DEF FreeAll, FreePage
    <3>5. QED
      BY <1>1, <3>1, <3>2, <3>3, <3>4
         DEF Still, HostCommand, RequestReset, GsuRuns, UNCHANGED1, vars, TakeReset,
             TakeNoReset, TakeNoCommand, Unlock, Give, TakePlayLocked, Acquire, Lock, Rest,
             InputLeft, ReadRetry, DecodeEnds, CheckMore, CheckDone
  <2>3. QED
    BY <2>1, <2>2 DEF Empty
<1>2. CASE Stops
  <2>1. StopStream
    BY <1>2, StopsStop DEF DataInv
  <2>2. stream'.open = FALSE
    BY <2>1, StopFields
  <2>3. \A i \in Pages : pages'[i].state = "Free" => pages'[i].data = <<>>
    BY <2>1 DEF StopStream, FreePage
  <2>4. QED
    BY <2>2, <2>3 DEF Empty
<1>3. CASE TakePlay \/ Open \/ EofDone
  <2>1. UNCHANGED pages /\ (stream'.open = FALSE \/ stream'.building = NoPage)
    BY <1>3 DEF TakePlay, Take, Open, EofDone, Go, Closed, DataInv, VInv, Shape, Fields,
                LockCoversPages, Marks
  <2>2. QED
    BY <2>1 DEF Empty
<1>4. CASE Select
  <2>1. CASE ~NeedsPage
    BY <1>4, <2>1 DEF Select, Empty
  <2>2. CASE NeedsPage
    <3> DEFINE p == Min(Free)
    <3>1. p \in Pages /\ pages[p].state = "Free" /\ pages' = [pages EXCEPT ![p].state = "Building"]
          /\ stream'.building = p
      BY <1>4, <2>2, FirstFree DEF Select, Free, DataInv, VInv, Shape, Fields
    <3> HIDE DEF p
    <3>2. pages'[p].data = <<>>
      BY <3>1 DEF Empty, DataInv, VInv, Shape
    <3>3. \A i \in Pages : pages'[i].state = "Free" => pages'[i].data = <<>>
      BY <3>1 DEF Empty, DataInv, VInv, Shape
    <3>4. QED
      BY <3>1, <3>2, <3>3 DEF Empty
  <2>3. QED
    BY <2>1, <2>2
<1>5. CASE ReadData \/ HeaderLead \/ FileHeaderDone \/ ParseBytes \/ DecodeTag \/ DecodeRepeat
  <2>1. /\ UNCHANGED pages /\ stream'.open = stream.open /\ stream'.frame = stream.frame
        /\ stream'.building = stream.building
    BY <1>5, StepFields
       DEF ReadData, HeaderLead, FileHeaderDone, ParseBytes, DecodeTag, DecodeRepeat, Changes,
           DataInv, VInv, Shape, Fields
  <2>2. QED
    BY <2>1 DEF Empty
<1>6. CASE FrameHeaderDone \/ DecodeLiteral \/ DecodeCopy
  <2>1. pc1' = "decode" /\ stream.building \in Pages /\ pages[stream.building].state = "Building"
    BY <1>6 DEF FrameHeaderDone, ParseHeader, DecodeLiteral, DecodeCopy, Decoding, Output,
                FileHeader, DataInv, VInv, Shape, Marks
  <2>2. \A i \in Pages : /\ pages'[i].state = pages[i].state
                         /\ i # stream.building => pages'[i] = pages[i]
    BY <1>6 DEF FrameHeaderDone, DecodeLiteral, DecodeCopy, Output, DataInv, VInv, Shape
  <2>3. Progress'
    BY <1>6, FrameHeaderData, DecodeStep
  <2>4. stream'.open => stream'.frame.size # 0
    BY <2>1, <2>3 DEF Progress
  <2>5. QED
    BY <2>1, <2>2, <2>4 DEF Empty
<1>7. CASE PageReady
  <2>1. /\ stream'.building = NoPage /\ stream.building \in Pages
        /\ pages' = [pages EXCEPT ![stream.building].state = "Ready"]
    BY <1>7 DEF PageReady, Go, DataInv, VInv, Shape, Fields, Marks
  <2>2. QED
    BY <2>1 DEF Empty, DataInv, VInv, Shape
<1>8. QED
  BY <1>1, <1>2, <1>3, <1>4, <1>5, <1>6, <1>7 DEF Next, Host, Task, Still, Stops

-----------------------------------------------------------------------------
(* What was staged is valid.                                               *)

LEMMA ReadyValid ==
  ASSUME DataInv, Timing, Decoded, pc1 = "ready"
  PROVE  /\ FrameValid(stream.movie, stream.frames + 1)
         /\ EndOf(stream.movie, stream.frames + 1) = stream.frame.pts + stream.frame.duration
<1> DEFINE m == stream.movie  h == HeaderPos  n == stream.frames + 1  f == stream.frame
           s == Unpacked(m, h)[f.stored]
<1>1. stream.open /\ f.size # 0 /\ stream.stored = 0 /\ Data = f.crc
  BY DEF DataInv, VInv, OpenPlaces, Progress, Staged, Data
<1>2. stream.run = 0 /\ Len(Data) = f.size
  BY DEF Decoded, Complete
<1>3. /\ File[m][h] = f /\ f.sound /\ f.stored \in Nat /\ Consumed \in Nat
      /\ stream.stored + Consumed = f.stored /\ Pos = h + Consumed /\ Pos <= Len(File[m])
      /\ HeaderOf(m, n) = h /\ FrameOf(m, n) = f
  BY <1>1, FrameFacts
<1>4. n \in Nat /\ n # 0 /\ n - 1 = stream.frames
  BY DEF DataInv, VInv, Shape
<1>5. Consumed = f.stored /\ h + f.stored <= Len(File[m])
  BY <1>1, <1>3
<1>6. /\ InTime(m, stream.frames, f)
      /\ \A k \in 0 .. f.stored : Fits(Unpacked(m, h)[k], f.size)
      /\ Agrees(s, Data, 0, stream.repeat, stream.need, stream.value)
  BY <1>1, <1>2, <1>5 DEF Decoded
<1>7. s = Whole(f.crc)
  <2>1. s.out = f.crc
    BY <1>1, <1>6, SameOut
  <2>2. s \in Unpackings /\ s.valid /\ s.literals = 0 /\ s.repeats = 0
    BY <1>6 DEF Agrees
  <2> HIDE DEF s
  <2>3. s.valid = TRUE
    BY <2>2 DEF Unpackings
  <2>4. s = [out |-> s.out, literals |-> s.literals, repeats |-> s.repeats, valid |-> s.valid]
    BY <2>2 DEF Unpackings
  <2>5. QED
    BY <2>1, <2>2, <2>3, <2>4 DEF Whole
<1>8. BytesValid(m, h)
  BY <1>1, <1>2, <1>3, <1>5, <1>6, <1>7 DEF BytesValid
<1>9. EndOf(m, n) = f.pts + f.duration
  BY <1>3, <1>4 DEF EndOf
<1>10. FrameValid(m, n)
  BY <1>3, <1>4, <1>6, <1>8, <1>9 DEF FrameValid, InTime
<1>11. QED
  BY <1>9, <1>10

\* Steps that stay in the movie.
LEMMA TimingSame ==
  ASSUME Timing, stream'.open = stream.open, stream'.movie = stream.movie,
         stream'.total = stream.total, stream'.end = stream.end,
         stream'.frames = stream.frames, pc1' = "eof" <=> pc1 = "eof"
  PROVE  Timing'
  BY DEF Timing, FileHeader

LEMMA TimingStep == ASSUME ValidInv, [Next]_vars PROVE Timing'
<1> USE DEF ValidInv
<1>1. CASE Still
  BY <1>1, StillFacts, TimingSame
<1>2. CASE Stops \/ TakePlay \/ EofDone
  <2>1. CASE Stops
    BY <2>1, StopsStop, StopFields DEF DataInv, Timing
  <2>2. CASE TakePlay \/ EofDone
    <3>1. stream'.open = FALSE
      BY <2>2 DEF TakePlay, Take, EofDone, Go, DataInv, VInv, Shape, Fields, LockCoversPages
    <3>2. QED
      BY <3>1 DEF Timing
  <2>3. QED
    BY <1>2, <2>1, <2>2
<1>3. CASE Open
  <2>1. stream'.end = 0 /\ FileHeader' /\ pc1' = "stage"
    BY <1>3 DEF Open, Go, Closed, FileHeader
  <2>2. QED
    BY <2>1 DEF Timing
<1>4. CASE \/ Select \/ ReadData \/ HeaderLead \/ FrameHeaderDone
           \/ ParseBytes \/ DecodeTag \/ DecodeRepeat \/ DecodeLiteral \/ DecodeCopy
  <2>1. /\ stream'.open = stream.open /\ stream'.movie = stream.movie
        /\ stream'.total = stream.total /\ stream'.end = stream.end
        /\ stream'.frames = stream.frames
    <3>1. CASE Select \/ ReadData \/ FrameHeaderDone
      BY <3>1, StepFields DEF Changes, DataInv, VInv, Shape, Fields
    <3>2. CASE HeaderLead
      BY <3>2, UsedFields DEF HeaderLead, DataInv, VInv, Shape, Fields
    <3>3. CASE ParseBytes \/ DecodeTag \/ DecodeRepeat \/ DecodeLiteral \/ DecodeCopy
      BY <3>3, StepFields DEF Changes, DataInv, VInv, Shape, Fields
    <3>4. QED
      BY <1>4, <3>1, <3>2, <3>3
  <2>2. pc1 # "eof" /\ pc1' # "eof"
    BY <1>4 DEF Select, ReadData, HeaderLead, FrameHeaderDone, ParseHeader, ParseBytes,
                DecodeTag, AtTag, DecodeRepeat, DecodeLiteral, DecodeCopy, Output, Decoding, Go
  <2>3. QED
    BY <2>1, <2>2, TimingSame
<1>5. CASE FileHeaderDone
  <2> DEFINE m == stream.movie
  <2>1. ParseHeader /\ stream.lead /\ FileHeader /\ Unit.sound /\ pc1' = "top"
    BY <1>5 DEF FileHeaderDone
  <2>2. /\ stream'.movie = m /\ stream'.frames = stream.frames /\ stream'.end = stream.end
        /\ stream'.total = [count |-> Unit.count, duration |-> Unit.duration]
    BY <1>5 DEF FileHeaderDone, Used, DataInv, VInv, Shape, Fields
  <2>3. /\ stream.open /\ m \in Movies /\ stream.frames = 0 /\ Unit = File[m][2]
        /\ Len(File[m]) >= 2
    BY <2>1, NextUnit
  <2>4. stream.end = 0 /\ EndOf(m, 0) = 0
    BY <2>1, <2>3 DEF Timing, EndOf
  <2>5. File[m][2].count \in Nat \ {0}
    BY <2>1, <2>3, FirstHeader
  <2>6. /\ stream'.total.count = File[m][2].count
        /\ stream'.total.duration = File[m][2].duration
    BY <2>2, <2>3
  <2>7. \A n \in 1 .. stream'.frames : FrameValid(m, n)
    BY <2>2, <2>3
  <2>8. stream'.frames < stream'.total.count /\ ~FileHeader'
    BY <2>2, <2>3, <2>5, <2>6 DEF FileHeader
  <2>9. QED
    BY <2>1, <2>2, <2>3, <2>4, <2>6, <2>7, <2>8 DEF Timing
<1>6. CASE PageReady
  <2> DEFINE m == stream.movie
  <2>1. /\ pc1 = "ready" /\ stream.open /\ stream.frames \in Nat /\ ~FileHeader
        /\ pc1' = IF stream.frames + 1 = stream.total.count THEN "eof" ELSE "top"
    BY <1>6 DEF PageReady, Go, DataInv, VInv, OpenPlaces, Shape, Progress
  <2>2. /\ stream'.movie = m /\ stream'.frames = stream.frames + 1
        /\ stream'.total = stream.total
        /\ stream'.end = stream.frame.pts + stream.frame.duration
    BY <1>6 DEF PageReady, DataInv, VInv, Shape, Fields
  <2>3. FrameValid(m, stream.frames + 1) /\ stream'.end = EndOf(m, stream.frames + 1)
    BY <2>1, <2>2, ReadyValid
  <2>4. /\ Len(File[m]) >= 2 /\ File[m][2].sound /\ stream.total.count = File[m][2].count
        /\ stream.total.duration = File[m][2].duration
        /\ \A n \in 1 .. stream.frames : FrameValid(m, n)
        /\ stream.frames < stream.total.count
    BY <2>1 DEF Timing
  <2>5. stream.total.count \in Nat
    BY <2>1, <2>4, FirstHeader DEF DataInv, Session
  <2>6. \A n \in 1 .. stream.frames + 1 : FrameValid(m, n)
    <3>1. \A n \in 1 .. stream.frames + 1 : n \in 1 .. stream.frames \/ n = stream.frames + 1
      BY <2>1
    <3>2. QED
      BY <2>3, <2>4, <3>1
  <2>7. IF pc1' = "eof" THEN stream.frames + 1 = stream.total.count
                        ELSE stream.frames + 1 < stream.total.count
    BY <2>1, <2>4, <2>5
  <2>8. ~FileHeader'
    BY <2>1, <2>2 DEF FileHeader
  <2>9. QED
    BY <2>2, <2>3, <2>4, <2>6, <2>7, <2>8 DEF Timing
<1>7. QED
  BY <1>1, <1>2, <1>3, <1>4, <1>5, <1>6 DEF Next, Host, Task, Still, Stops

-----------------------------------------------------------------------------
(* The verdicts.                                                           *)

\* A frame that is not valid damages the movie it is announced in.
LEMMA BadFrame ==
  ASSUME DataInv, Timing, stream.open, ~FileHeader, pc1 # "eof",
         ~FrameValid(stream.movie, stream.frames + 1)
  PROVE  stream.movie \in Damaged
<1> DEFINE m == stream.movie
<1>1. m \in Movies /\ stream.frames \in Nat
  BY DEF DataInv, VInv, Shape, Session
<1>2. /\ Len(File[m]) >= 2 /\ File[m][2].sound /\ stream.total.count = File[m][2].count
      /\ stream.frames < stream.total.count
  BY DEF Timing
<1>3. File[m][2].count \in Nat
  BY <1>1, <1>2, FirstHeader
<1>4. stream.frames + 1 \in 1 .. File[m][2].count
  BY <1>1, <1>2, <1>3
<1>5. QED
  BY <1>1, <1>4 DEF Damaged, Valid

LEMMA HeaderRefused == ASSUME ValidInv, HeaderBad PROVE stream.movie \in Damaged
<1> DEFINE m == stream.movie  n == stream.frames + 1
<1>1. /\ ParseHeader /\ stream.lead /\ pc1 = "parse"
      /\ IF FileHeader THEN ~Unit.sound ELSE ~FrameFits(Unit)
  BY DEF HeaderBad, ParseHeader
<1>2. m \in Movies /\ stream.open
  BY <1>1, NextUnit DEF ValidInv
<1>3. CASE FileHeader
  <2>1. ~File[m][2].sound
    BY <1>1, <1>3, NextUnit DEF ValidInv
  <2>2. QED
    BY <1>2, <2>1 DEF Damaged, Valid
<1>4. CASE ~FileHeader
  <2>1. /\ FrameOf(m, n) = Unit /\ Pos + 1 \in Headers(m) /\ Unit = File[m][Pos + 1]
    BY <1>1, <1>4, NextUnit DEF ValidInv
  <2>2. /\ stream.end = EndOf(m, stream.frames) /\ stream.total.duration = File[m][2].duration
        /\ Len(File[m]) >= 2 /\ File[m][2].sound
    BY <1>2, <1>4 DEF ValidInv, Timing
  <2>3. File[m][2].duration \in Nat
    BY <1>2, <2>2, FirstHeader
  <2>4. n \in Nat /\ n # 0 /\ n - 1 = stream.frames
    BY DEF ValidInv, DataInv, VInv, Shape
  <2>5. ASSUME FrameValid(m, n) PROVE FALSE
    <3>1. /\ Unit.sound /\ Unit.duration > 0 /\ (Unit.codec = 0 => Unit.stored = Unit.size)
          /\ Unit.pts = stream.end /\ EndOf(m, n) <= stream.total.duration
      BY <2>1, <2>2, <2>4, <2>5 DEF FrameValid
    <3>2. EndOf(m, n) = Unit.pts + Unit.duration
      BY <2>1, <2>4 DEF EndOf
    <3>3. Unit.pts \in Nat /\ Unit.duration \in Nat
      BY <1>2, <2>1, <3>1, SoundNumbers
    <3>4. /\ Unit.pts < stream.total.duration
          /\ Unit.duration <= stream.total.duration - Unit.pts
      BY <2>2, <2>3, <3>1, <3>2, <3>3
    <3>5. QED
      BY <1>1, <1>4, <3>1, <3>4 DEF FrameFits
  <2>6. QED
    BY <1>1, <1>2, <1>4, <2>5, BadFrame DEF ValidInv
<1>5. QED
  BY <1>3, <1>4

\* A valid frame, as the decoder sees it.
LEMMA IfValid ==
  ASSUME DataInv, Decoded, stream.open, stream.frame.size # 0,
         FrameValid(stream.movie, stream.frames + 1)
  PROVE  /\ HeaderPos + stream.frame.stored <= Len(File[stream.movie])
         /\ \A k \in 0 .. stream.frame.stored :
              Fits(Unpacked(stream.movie, HeaderPos)[k], stream.frame.size)
         /\ Unpacked(stream.movie, HeaderPos)[stream.frame.stored] = Whole(stream.frame.crc)
         /\ Len(stream.frame.crc) = stream.frame.size
         /\ stream.frame.codec = 0 => stream.frame.stored = stream.frame.size
<1>1. /\ HeaderOf(stream.movie, stream.frames + 1) = HeaderPos
      /\ FrameOf(stream.movie, stream.frames + 1) = stream.frame
      /\ File[stream.movie][HeaderPos] = stream.frame
  BY FrameFacts
<1>2. BytesValid(stream.movie, HeaderPos)
  BY <1>1 DEF FrameValid
<1>3. stream.frame.codec = 0 => stream.frame.stored = stream.frame.size
  BY <1>1 DEF FrameValid
<1>4. QED
  BY <1>1, <1>2, <1>3 DEF BytesValid

\* A byte that is no tag the frame has room for, where a tag is due.
LEMMA NotATag ==
  ASSUME DataInv, Decoded, stream.open, stream.frame.size # 0,
         stream.frame.codec = 1, stream.run = 0, NEW b \in Byte, stream.stored > 0,
         b = File[stream.movie][HeaderPos + (Consumed + 1)].byte,
         ~(b # 128 /\ RunLength(b) <= stream.frame.size - Len(Data))
  PROVE  ~FrameValid(stream.movie, stream.frames + 1)
<1> DEFINE u == Unpacked(stream.movie, HeaderPos)
<1>1. /\ stream.movie \in Movies /\ HeaderPos \in Headers(stream.movie)
      /\ File[stream.movie][HeaderPos] = stream.frame
      /\ stream.frame.stored \in Nat /\ stream.stored \in Nat /\ Consumed \in Nat
      /\ stream.stored + Consumed = stream.frame.stored /\ stream.frame.size \in Nat
  BY FrameFacts
<1>2. Consumed \in 0 .. stream.frame.stored - 1 /\ Consumed + 1 \in 0 .. stream.frame.stored
  BY <1>1
<1>3. Agrees(u[Consumed], Data, 0, stream.repeat, stream.need, stream.value)
  BY DEF Decoded
<1>4. u[Consumed + 1] = Unpack(1, u[Consumed], b)
  BY <1>1, <1>2, UnpackedSteps
<1> HIDE DEF u
<1>5. ~Fits(Unpack(1, u[Consumed], b), stream.frame.size)
  BY <1>1, <1>3, TagRefused
<1>6. ASSUME FrameValid(stream.movie, stream.frames + 1) PROVE FALSE
  <2>1. Fits(u[Consumed + 1], stream.frame.size)
    BY <1>2, <1>6, IfValid DEF u
  <2>2. QED
    BY <1>4, <1>5, <2>1
<1>7. QED
  BY <1>6

LEMMA TagIsRefused == ASSUME ValidInv, DecodeBadTag PROVE stream.movie \in Damaged
<1> USE DEF ValidInv
<1>1. /\ pc1 = "decode" /\ HasByte /\ stream.stored > 0 /\ stream.input # <<>>
      /\ stream.frame.codec = 1 /\ stream.run = 0
      /\ ~(Unit.byte # 128 /\ RunLength(Unit.byte) <= stream.frame.size - Len(Data))
  BY DEF DecodeBadTag, AtTag, Decoding, TagFits, HasByte
<1>2. stream.open /\ stream.frame.size # 0 /\ ~FileHeader
  BY <1>1 DEF DataInv, VInv, OpenPlaces, Progress
<1>3. Unit.byte \in Byte
  BY <1>1, <1>2, TakenByte
<1>4. Unit = File[stream.movie][HeaderPos + (Consumed + 1)]
  <2>1. Unit = File[stream.movie][Pos + 1]
    BY <1>1, <1>2, UnitAt
  <2>2. Pos + 1 = HeaderPos + (Consumed + 1)
    BY <1>2, FrameFacts
  <2>3. QED
    BY <2>1, <2>2
<1>5. ~FrameValid(stream.movie, stream.frames + 1)
  BY <1>1, <1>2, <1>3, <1>4, NotATag
<1>6. QED
  BY <1>1, <1>2, <1>5, BadFrame

LEMMA LengthIsWrong == ASSUME ValidInv, CheckLength PROVE stream.movie \in Damaged
<1> USE DEF ValidInv
<1> DEFINE m == stream.movie  f == stream.frame  u == Unpacked(m, HeaderPos)
<1>1. /\ pc1 = "check" /\ stream.open /\ f.size # 0 /\ ~FileHeader
      /\ IF Complete THEN stream.stored > 0 \/ stream.run > 0 ELSE ~CanGoOn
  BY DEF CheckLength, DataInv, VInv, OpenPlaces, Progress
<1>2. /\ m \in Movies /\ HeaderPos \in Headers(m) /\ File[m][HeaderPos] = f /\ f.sound
      /\ f.stored \in Nat /\ stream.stored \in Nat /\ Consumed \in Nat
      /\ stream.stored + Consumed = f.stored /\ f.size \in Nat /\ f.codec \in {0, 1}
  BY <1>1, FrameFacts
<1>3. /\ Agrees(u[Consumed], Data, stream.run, stream.repeat, stream.need, stream.value)
      /\ Fits(u[Consumed], f.size)
      /\ f.codec = 0 => stream.run = 0 /\ Len(Data) = Consumed
  BY <1>1, <1>2 DEF Decoded
<1>4. stream.run \in Nat /\ Len(Data) \in Nat /\ Len(Data) + stream.run <= f.size
  BY <1>2, <1>3, AgreesLengths, AgreesFits
<1>5. ASSUME FrameValid(m, stream.frames + 1) PROVE FALSE
  <2>1. /\ HeaderPos + f.stored <= Len(File[m])
        /\ u[f.stored] = Whole(f.crc) /\ Len(f.crc) = f.size
        /\ f.codec = 0 => f.stored = f.size
    BY <1>1, <1>5, IfValid
  <2>2. CASE Complete
    <3>1. Len(Data) = f.size /\ stream.run = 0 /\ stream.stored > 0
      BY <1>1, <1>2, <1>4, <2>2 DEF Complete
    <3>2. f.codec = 1
      BY <1>2, <1>3, <2>1, <3>1
    <3> DEFINE b == File[m][HeaderPos + (Consumed + 1)].byte
    <3>3. b \in Byte
      <4>1. HeaderPos \in Nat /\ Consumed + 1 \in 1 .. f.stored /\ Len(File[m]) \in Nat
        BY <1>1, <1>2, <3>1, FrameFacts, FileOf
      <4>2. HeaderPos + (Consumed + 1) <= Len(File[m])
        BY <1>2, <2>1, <4>1
      <4>3. QED
        BY <1>2, <4>1, <4>2, StoredBytes
    <3>4. ~(b # 128 /\ RunLength(b) <= f.size - Len(Data))
      BY <1>2, <3>1, <3>3, RunLengths
    <3>5. ~FrameValid(m, stream.frames + 1)
      BY <1>1, <3>1, <3>2, <3>3, <3>4, NotATag
    <3>6. QED
      BY <1>5, <3>5
  <2>3. CASE ~Complete
    <3>1. stream.stored = 0 /\ ~(stream.run > 0 /\ stream.repeat /\ ~stream.need)
      BY <1>1, <1>2, <2>3 DEF CanGoOn
    <3>2. u[Consumed] = Whole(f.crc)
      <4>1. Consumed = f.stored
        BY <1>2, <3>1
      <4>2. QED
        BY <2>1, <4>1
    <3> DEFINE s == u[Consumed]
    <3>3. s.literals = 0 /\ s.repeats = 0 /\ Len(s.out) = f.size
      BY <2>1, <3>2 DEF Whole
    <3> HIDE DEF s
    <3>4. Len(s.out) + s.literals + s.repeats = Len(Data) + stream.run
      BY <1>3, AgreesLengths DEF s
    <3>5. f.size = Len(Data) + stream.run
      BY <1>2, <1>4, <3>3, <3>4
    <3>6. /\ s.repeats = IF stream.need THEN stream.run ELSE 0
          /\ s.literals = IF stream.repeat THEN 0 ELSE stream.run
      BY <1>3 DEF Agrees, s
    <3>7. stream.run = 0
      <4>1. CASE stream.need
        BY <3>3, <3>6, <4>1
      <4>2. CASE ~stream.repeat
        BY <3>3, <3>6, <4>2
      <4>3. CASE stream.repeat /\ ~stream.need
        BY <1>4, <3>1, <4>3
      <4>4. QED
        BY <4>1, <4>2, <4>3
    <3>8. QED
      BY <1>4, <2>3, <3>5, <3>7 DEF Complete
  <2>4. QED
    BY <2>2, <2>3
<1>6. QED
  BY <1>1, <1>5, BadFrame

LEMMA CrcIsWrong == ASSUME ValidInv, CheckCrc PROVE stream.movie \in Damaged
<1> USE DEF ValidInv
<1> DEFINE m == stream.movie  f == stream.frame  s == Unpacked(m, HeaderPos)[Consumed]
<1>1. /\ pc1 = "check" /\ stream.open /\ f.size # 0 /\ ~FileHeader
      /\ stream.stored = 0 /\ stream.run = 0 /\ Data # f.crc
  BY DEF CheckCrc, Exact, DataInv, VInv, OpenPlaces, Progress
<1>2. Consumed = f.stored
  BY <1>1, FrameFacts
<1>3. Agrees(s, Data, 0, stream.repeat, stream.need, stream.value)
  BY <1>1 DEF Decoded
<1>4. s.out = Data
  BY <1>3, SameOut
<1>5. ASSUME FrameValid(m, stream.frames + 1) PROVE FALSE
  <2>1. s = Whole(f.crc)
    BY <1>1, <1>2, <1>5, IfValid
  <2>2. s.out = f.crc
    BY <2>1 DEF Whole
  <2>3. QED
    BY <1>1, <1>4, <2>2
<1>6. QED
  BY <1>1, <1>5, BadFrame

\* At the end of a movie all its frames were staged.
LEMMA AtTheEnd ==
  ASSUME ValidInv, pc1 = "eof"
  PROVE  /\ stream.open /\ stream.movie \in Movies
         /\ stream.frames = File[stream.movie][2].count /\ claimed <= stream.frames
         /\ stream.total.duration = File[stream.movie][2].duration
         /\ Valid(stream.movie) <=> stream.end = stream.total.duration
<1> USE DEF ValidInv
<1> DEFINE m == stream.movie
<1>1. /\ stream.open /\ m \in Movies /\ stream.building = NoPage /\ claimed <= stream.frames
  BY DEF DataInv, VInv, OpenPlaces, Marks, Numbers, Session
<1>2. /\ ~FileHeader /\ Len(File[m]) >= 2 /\ File[m][2].sound
      /\ stream.frames = File[m][2].count /\ stream.total.duration = File[m][2].duration
      /\ stream.end = EndOf(m, stream.frames)
      /\ \A n \in 1 .. stream.frames : FrameValid(m, n)
  BY <1>1 DEF Timing
<1>3. Cardinality(UpTo(m, Pos - LeadTaken)) = stream.frames
  BY <1>1, <1>2 DEF DataInv, Progress, AtHeader
<1>4. stream.frames <= Cardinality(Headers(m))
  <2>1. Len(File[m]) \in Nat /\ Headers(m) \subseteq 1 .. Len(File[m])
    BY <1>1, FileOf
  <2>2. IsFiniteSet(1 .. Len(File[m]))
    <3>1. Len(File[m]) \in Int /\ 1 \in Int
      BY <2>1
    <3>2. QED
      BY <3>1, FS_Interval
  <2>3. IsFiniteSet(Headers(m))
    BY <2>1, <2>2, FS_Subset
  <2>4. UpTo(m, Pos - LeadTaken) \subseteq Headers(m)
    BY DEF UpTo
  <2>5. QED
    BY <1>3, <2>3, <2>4, FS_Subset
<1>5. Valid(m) <=> EndOf(m, stream.frames) = File[m][2].duration
  BY <1>2, <1>4 DEF Valid
<1>6. QED
  BY <1>1, <1>2, <1>5

\* A stop tells of a movie, if it tells anything, what is so.
LEMMA ToldStop == ASSUME ValidInv, Stops PROVE Told'
<1> USE DEF ValidInv
<1>1. stream'.movie = stream.movie
  BY StopsStop DEF DataInv, StopStream, Closed
<1>2. status' # "Eof"
  BY DEF Stops, ClearCommand, TakeStop, TakeRelease, AcquireFails, OpenFails, ReadFails,
         HeaderBad, DecodeBadTag, CheckLength, CheckCrc, EofBad, Fail
<1>3. error' \in {"InvalidFormat", "BadCrc"} => stream.movie \in Damaged
  <2>1. CASE ClearCommand \/ TakeStop \/ TakeRelease
    BY <2>1 DEF ClearCommand, TakeStop, TakeRelease, Told
  <2>2. CASE AcquireFails \/ OpenFails \/ ReadFails
    BY <2>2 DEF AcquireFails, OpenFails, ReadFails, Fail
  <2>3. CASE HeaderBad \/ DecodeBadTag \/ CheckLength \/ CheckCrc
    BY <2>3, HeaderRefused, TagIsRefused, LengthIsWrong, CrcIsWrong
  <2>4. CASE EofBad
    <3>1. pc1 = "eof" /\ stream.end # stream.total.duration
      BY <2>4 DEF EofBad, Fail, Go
    <3>2. QED
      BY <3>1, AtTheEnd DEF Damaged
  <2>5. QED
    BY <2>1, <2>2, <2>3, <2>4 DEF Stops
<1>4. QED
  BY <1>1, <1>2, <1>3 DEF Told

\* After the end only the console goes on with the movie.
LEMMA ToldStill == ASSUME ValidInv, Still PROVE Told'
<1> USE DEF ValidInv
<1>1. UNCHANGED stream
  BY StillFacts
<1>2. error' = error \/ error' = "Busy"
  BY DEF Still, HostCommand, RequestReset, GsuRuns, HostClaim, HostRelease, UNCHANGED1, vars,
         results, TakeReset, TakeNoReset, TakeNoCommand, FreeAll, Unlock, Give, Take,
         TakePlayLocked, Acquire, Lock, Rest, InputLeft, ReadRetry,
         DecodeEnds, CheckMore, CheckDone
<1>3. ASSUME status' = "Eof"
      PROVE  /\ status = "Eof" /\ locked' /\ pc1' \in {"top", "clear", "command", "stage"}
             /\ claimed' <= stream.frames
  <2>1. status = "Eof"
    BY <1>3 DEF Still, HostCommand, RequestReset, GsuRuns, HostClaim, HostRelease, UNCHANGED1,
         vars, results, TakeReset, TakeNoReset, TakeNoCommand, FreeAll, Unlock, Give, Take,
         TakePlayLocked, Acquire, Lock, Rest, InputLeft, ReadRetry,
         DecodeEnds, CheckMore, CheckDone
  <2>2. /\ ~stream.open /\ locked /\ pc1 \in {"top", "clear", "command", "stage"}
        /\ claimed <= stream.frames
    BY <2>1 DEF Told
  <2>3. CASE \E p \in Pages : HostClaim(p)
    <3>1. PICK p \in Pages : HostClaim(p)
      BY <2>3
    <3>2. p = Offered /\ Ready # {} /\ claimed' = claimed + 1 /\ UNCHANGED <<locked, pc1>>
      BY <3>1 DEF HostClaim, Offered, NoPage, Pages, ram, UNCHANGED1
    <3>3. p \in Ready
      BY <3>2, Lowest DEF DataInv, VInv, Numbers
    <3>4. /\ pages[p].number \in Nat /\ claimed <= pages[p].number
          /\ pages[p].number < stream.frames /\ claimed \in Nat /\ stream.frames \in Nat
      BY <3>3 DEF DataInv, VInv, Numbers, Shape
    <3>5. QED
      BY <2>1, <2>2, <3>2, <3>4
  <2>4. CASE ~\E p \in Pages : HostClaim(p)
    <3>1. claimed' = claimed
      BY <2>4 DEF Still, HostCommand, RequestReset, GsuRuns, HostRelease, vars, TakeReset,
           TakeNoReset, TakeNoCommand, FreeAll, Unlock, Give, Take, TakePlayLocked, Acquire,
           Lock, Rest, InputLeft, ReadRetry, DecodeEnds, CheckMore, CheckDone
    <3>2. locked' /\ pc1' \in {"top", "clear", "command", "stage"}
      BY <2>2, <2>4 DEF Still, HostCommand, RequestReset, GsuRuns, HostRelease, vars, ram,
           UNCHANGED1, TakeReset, TakeNoReset, TakeNoCommand, FreeAll, Unlock, Give, Take,
           TakePlayLocked, Acquire, Lock, Rest, InputLeft, ReadRetry, DecodeEnds, CheckMore,
           CheckDone, Exact, Go
    <3>3. QED
      BY <2>1, <2>2, <3>1, <3>2
  <2>5. QED
    BY <2>3, <2>4
<1>4. error' \in {"InvalidFormat", "BadCrc"} => stream.movie \in Damaged
  BY <1>2 DEF Told
<1>5. QED
  BY <1>1, <1>3, <1>4 DEF Told

LEMMA ToldStep == ASSUME ValidInv, [Next]_vars PROVE Told'
<1> USE DEF ValidInv
<1>1. CASE Still
  BY <1>1, ToldStill
<1>2. CASE Stops
  BY <1>2, ToldStop
<1>3. CASE TakePlay
  <2>1. ~locked /\ error' = "None" /\ status' = status
    BY <1>3 DEF TakePlay
  <2>2. QED
    BY <2>1 DEF Told
<1>4. CASE EofDone
  <2>1. /\ pc1 = "eof" /\ pc1' = "top" /\ stream.end = stream.total.duration
        /\ status' = "Eof" /\ error' = error /\ UNCHANGED <<claimed, locked>>
    BY <1>4 DEF EofDone, Go, ram
  <2>2. stream'.open = FALSE /\ stream'.movie = stream.movie /\ stream'.frames = stream.frames
    BY <1>4 DEF EofDone, DataInv, VInv, Shape, Fields
  <2>3. /\ stream.open /\ stream.movie \in Movies /\ stream.movie \notin Damaged
        /\ stream.frames = File[stream.movie][2].count /\ claimed <= stream.frames
    BY <2>1, AtTheEnd DEF Damaged
  <2>4. locked
    BY <2>3 DEF DataInv, VInv, LockCoversPages
  <2>5. QED
    BY <2>1, <2>2, <2>3, <2>4 DEF Told
<1>5. CASE \/ Open \/ Select \/ ReadData \/ HeaderLead \/ FileHeaderDone \/ FrameHeaderDone
           \/ ParseBytes \/ DecodeTag \/ DecodeRepeat \/ DecodeLiteral \/ DecodeCopy
           \/ PageReady
  <2>1. stream.open \/ pc1 = "open"
    BY <1>5 DEF Open, Select, ReadData, HeaderLead, FileHeaderDone, FrameHeaderDone,
                ParseHeader, ParseBytes, DecodeTag, AtTag, DecodeRepeat, DecodeLiteral,
                DecodeCopy, Decoding, PageReady, Go, DataInv, VInv, OpenPlaces
  <2>2. /\ error' = error /\ (status' = status \/ status' = "Streaming")
        /\ stream'.movie = stream.movie
    <3>1. error' = error /\ (status' = status \/ status' = "Streaming")
      BY <1>5 DEF Open, Select, ReadData, HeaderLead, FileHeaderDone, FrameHeaderDone,
                  ParseBytes, DecodeTag, DecodeRepeat, DecodeLiteral, DecodeCopy, Output,
                  PageReady, results
    <3>2. CASE Open
      BY <3>1, <3>2 DEF Open, Closed
    <3>3. CASE ~Open
      BY <1>5, <3>1, <3>3, StepFields DEF Changes, DataInv, VInv, Shape, Fields
    <3>4. QED
      BY <3>2, <3>3
  <2>3. QED
    BY <2>1, <2>2 DEF Told
<1>6. QED
  BY <1>1, <1>2, <1>3, <1>4, <1>5 DEF Next, Host, Task, Still, Stops

LEMMA ValidInit == Init => ValidInv
<1> SUFFICES ASSUME Init PROVE ValidInv
  OBVIOUS
<1>1. DataInv
  BY VInit, DInit DEF DataInv
<1>2. /\ stream.open = FALSE /\ pc1 = "top" /\ error = "None" /\ status = "Idle"
      /\ \A i \in Pages : pages[i].data = <<>>
  BY DEF Init, Closed, FreePage
<1>3. QED
  BY <1>1, <1>2 DEF ValidInv, Timing, Empty, Decoded, Told

THEOREM VideoValid == Spec => []ValidInv
<1>1. ValidInv /\ [Next]_vars => ValidInv'
  <2> SUFFICES ASSUME ValidInv, [Next]_vars PROVE ValidInv'
    OBVIOUS
  <2>1. DataInv'
    BY DataStep DEF ValidInv
  <2>2. QED
    BY <2>1, TimingStep, EmptyStep, DecodedStep, ToldStep DEF ValidInv
<1>2. QED
  BY ValidInit, <1>1, PTL DEF Spec

\* As many pages are ready as frames were staged and not yet claimed.
LEMMA ReadyCount ==
  ASSUME VInv, claimed <= stream.frames
  PROVE  claimed + Cardinality(Ready) = stream.frames
<1> DEFINE N == claimed .. stream.frames - 1  g == [i \in Ready |-> pages[i].number]
<1>1. claimed \in Nat /\ stream.frames \in Nat
  BY DEF VInv, Shape
<1>2. \A i \in Ready : pages[i].number \in N
  BY <1>1 DEF VInv, Numbers
<1>3. g \in [Ready -> N]
  BY <1>2
<1>4. \A i, j \in Ready : g[i] = g[j] => i = j
  BY DEF VInv, Numbers
<1>5. \A n \in N : \E i \in Ready : g[i] = n
  <2>1. \A n \in N : n \in Nat /\ claimed <= n /\ n < stream.frames
    BY <1>1
  <2> HIDE DEF N
  <2>2. QED
    BY <2>1 DEF VInv, Numbers
<1>6. g \in Bijection(Ready, N)
  <2> HIDE DEF g, N
  <2>1. g \in Injection(Ready, N)
    BY <1>3, <1>4 DEF Injection, IsInjective
  <2>2. g \in Surjection(Ready, N)
    BY <1>3, <1>5 DEF Surjection
  <2>3. QED
    BY <2>1, <2>2 DEF Bijection
<1>7. IsFiniteSet(N) /\ Cardinality(N) = stream.frames - claimed
  <2>1. claimed \in Int /\ stream.frames - 1 \in Int
    BY <1>1
  <2>2. /\ IsFiniteSet(N)
        /\ Cardinality(N) = IF claimed > stream.frames - 1 THEN 0
                            ELSE (stream.frames - 1) - claimed + 1
    BY <2>1, FS_Interval
  <2> HIDE DEF N
  <2>3. QED
    BY <1>1, <2>2
<1>8. Cardinality(Ready) = Cardinality(N)
  <2>1. Ready \subseteq Pages /\ IsFiniteSet(Pages)
    <3>1. 0 \in Int /\ 1 \in Int
      OBVIOUS
    <3>2. IsFiniteSet(0 .. 1)
      BY <3>1, FS_Interval
    <3>3. QED
      BY <3>2 DEF Ready, Pages
  <2>2. IsFiniteSet(Ready)
    BY <2>1, FS_Subset
  <2> HIDE DEF g, N
  <2>3. ExistsBijection(Ready, N)
    BY <1>6 DEF ExistsBijection
  <2>4. QED
    BY <1>7, <2>2, <2>3, FS_Bijection
<1>9. QED
  BY <1>1, <1>7, <1>8

\* For every movie and however the reads and the services cut it: it is found
\* invalid only if it is, and ended only if it is not, with every frame staged.
THEOREM VideoVerdictIsRight == Spec => []VerdictIsRight
<1>1. ValidInv => VerdictIsRight
  <2> SUFFICES ASSUME ValidInv PROVE VerdictIsRight
    OBVIOUS
  <2>1. error \in {"InvalidFormat", "BadCrc"} => stream.movie \in Damaged
    BY DEF ValidInv, Told
  <2>2. ASSUME status = "Eof"
        PROVE  /\ stream.movie \notin Damaged
               /\ claimed + Cardinality(Ready) = File[stream.movie][2].count
    <3>1. /\ stream.movie \notin Damaged /\ claimed <= stream.frames
          /\ stream.frames = File[stream.movie][2].count
      BY <2>2 DEF ValidInv, Told
    <3>2. claimed + Cardinality(Ready) = stream.frames
      BY <3>1, ReadyCount DEF ValidInv, DataInv
    <3>3. QED
      BY <3>1, <3>2
  <2>3. QED
    BY <2>1, <2>2 DEF VerdictIsRight
<1>2. QED
  BY <1>1, VideoValid, PTL

=============================================================================
