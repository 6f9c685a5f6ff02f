----------------------------- MODULE SaveProofs -----------------------------
(***************************************************************************)
(* Proofs about the saves.  SaveJournal, for every set of snapshots and    *)
(* every width of the sequence numbers; and QspiSave, for every set of     *)
(* contents: the flash chip is written by the core that owns it and never  *)
(* beside an open window, a snapshot that is skipped is already stored,    *)
(* and a save reported good is durable.                                    *)
(***************************************************************************)
EXTENDS SaveJournal, QspiSave, TLAPS

LEMMA FourSlots == JournalSlots = {0, 1, 2, 3}
  BY DEF JournalSlots, SlotCount

Flashes == [JournalSlots -> SlotStates]

LEMMA NoDataType == NoData \in Snapshots
  BY SnapshotsAssumption DEF NoData

-----------------------------------------------------------------------------
(* scan finds the newest record.                                           *)

\* What the loop of scan holds: no slot, or a valid one.
Candidate(f, b) == b = -1 \/ (b \in JournalSlots /\ ValidRecord(f, b))

LEMMA BetterType ==
  ASSUME NEW f, NEW b, Candidate(f, b), NEW i \in JournalSlots
  PROVE  Candidate(f, Better(f, b, i))
BY DEF Candidate, Better

\* No slot is better than the newest record ...
LEMMA BetterKeeps ==
  ASSUME NEW f \in Flashes, NEW j \in JournalSlots, IsNewest(f, j), NEW i \in JournalSlots
  PROVE  Better(f, j, i) = j
<1>1. f[i].seq \in Sequences /\ f[j].seq \in Sequences
  BY DEF Flashes, SlotStates
<1>2. CASE i = j
  BY <1>2 DEF Better
<1>3. CASE i # j /\ ValidRecord(f, i)
  <2>1. Older(f, i, j)
    BY <1>3 DEF IsNewest
  <2>2. Behind(i, j) \in 1 .. 3
    BY <1>3, FourSlots DEF Behind, SlotCount
  <2>3. ~Newer(f[i].seq, f[j].seq)
    BY <1>1, <2>1, <2>2, SeqAssumption DEF Older, Age, Minus, Newer, Sequences
  <2>4. j # -1
    BY FourSlots
  <2>5. QED
    BY <2>3, <2>4 DEF Better
<1>4. CASE ~ValidRecord(f, i)
  BY <1>4 DEF Better
<1>5. QED
  BY <1>2, <1>3, <1>4

\* ... which is better than any other.
LEMMA BetterTakes ==
  ASSUME NEW f \in Flashes, NEW j \in JournalSlots, IsNewest(f, j), NEW b, Candidate(f, b)
  PROVE  Better(f, b, j) = j
<1>1. CASE b = -1
  BY <1>1 DEF Better, IsNewest
<1>2. CASE b = j
  BY <1>2 DEF Better
<1>3. CASE b \in JournalSlots \ {j} /\ ValidRecord(f, b)
  <2>1. f[b].seq \in Sequences /\ f[j].seq \in Sequences
    BY <1>3 DEF Flashes, SlotStates
  <2>2. Older(f, b, j)
    BY <1>3 DEF IsNewest
  <2>3. Behind(b, j) \in 1 .. 3
    BY <1>3, FourSlots DEF Behind, SlotCount
  <2>4. Newer(f[j].seq, f[b].seq)
    BY <2>1, <2>2, <2>3, SeqAssumption DEF Older, Age, Minus, Newer, Sequences
  <2>5. QED
    BY <2>4 DEF Better, IsNewest
<1>4. QED
  BY <1>1, <1>2, <1>3 DEF Candidate

LEMMA ScanNewest ==
  ASSUME NEW f \in Flashes, NEW j \in JournalSlots, IsNewest(f, j)
  PROVE  Scan(f) = j
<1> DEFINE b0 == Better(f, -1, 0)
           b1 == Better(f, b0, 1)
           b2 == Better(f, b1, 2)
<1>1. /\ 0 \in JournalSlots /\ 1 \in JournalSlots
      /\ 2 \in JournalSlots /\ 3 \in JournalSlots
  BY FourSlots
<1>2. Candidate(f, -1) /\ Candidate(f, b0) /\ Candidate(f, b1) /\ Candidate(f, b2)
  <2>1. Candidate(f, -1)
    BY DEF Candidate
  <2>2. Candidate(f, b0)
    BY <1>1, <2>1, BetterType
  <2>3. Candidate(f, b1)
    BY <1>1, <2>2, BetterType
  <2>4. Candidate(f, b2)
    BY <1>1, <2>3, BetterType
  <2>5. QED
    BY <2>1, <2>2, <2>3, <2>4
<1>3. \A b : Candidate(f, b) => Better(f, b, j) = j
  BY BetterTakes
<1>4. \A i \in JournalSlots : Better(f, j, i) = j
  BY BetterKeeps
<1>5. Better(f, b2, 3) = j
  <2> HIDE DEF b0, b1, b2
  <2>1. j = 0 => b0 = j
    BY <1>2, <1>3 DEF b0
  <2>2. j \in {0, 1} => b1 = j
    BY <2>1, <1>1, <1>2, <1>3, <1>4 DEF b1
  <2>3. j \in {0, 1, 2} => b2 = j
    BY <2>2, <1>1, <1>2, <1>3, <1>4 DEF b2
  <2>4. QED
    BY <2>3, <1>1, <1>2, <1>3, <1>4, FourSlots
<1>6. QED
  BY <1>5 DEF Scan

LEMMA ScanNone ==
  ASSUME NEW f, NoRecord(f)
  PROVE  Scan(f) = -1
<1>1. \A i \in JournalSlots : ~ValidRecord(f, i)
  BY DEF NoRecord
<1>2. QED
  BY <1>1, FourSlots DEF Scan, Better

-----------------------------------------------------------------------------
(* append chooses its slot and its sequence number.                        *)

LEMMA TargetType ==
  ASSUME NEW f, NEW i \in JournalSlots
  PROVE  Target(f, i) \in JournalSlots
BY FourSlots DEF Target, Advance, SlotCount

\* The chosen slot comes next after the newest record, and when no slot is
\* erased it is the very next one.
LEMMA TargetNext ==
  ASSUME NEW f, NEW j \in JournalSlots, IsNewest(f, j)
  PROVE  NextAfter(f, j, Target(f, Advance(j, 1)))
<1> DEFINE t == Target(f, Advance(j, 1))
<1>1. /\ ValidRecord(f, j) /\ ~SlotErased(f, j)
      /\ \A i \in JournalSlots \ {j} : SlotErased(f, i) =>
           \A k \in JournalSlots : Between(j, k, i) => ~ValidRecord(f, k)
  BY DEF IsNewest, ValidRecord, SlotErased
<1>2. \/ SlotErased(f, t) /\ \A k \in JournalSlots : Between(j, k, t) => ~SlotErased(f, k)
      \/ t = Advance(j, 1)
  BY FourSlots, <1>1 DEF Target, Advance, SlotCount, Between, Behind
<1>3. t # j
  BY <1>1, <1>2, FourSlots DEF Advance, SlotCount
<1>4. t \in JournalSlots
  BY FourSlots, TargetType DEF Advance, SlotCount
<1>5. CASE t = Advance(j, 1)
  <2>1. \A k \in JournalSlots : ~Between(j, k, t)
    BY <1>5, FourSlots DEF Advance, SlotCount, Between, Behind
  <2>2. QED
    BY <1>3, <2>1 DEF NextAfter
<1>6. CASE SlotErased(f, t) /\ \A k \in JournalSlots : Between(j, k, t) => ~SlotErased(f, k)
  BY <1>1, <1>3, <1>4, <1>6 DEF NextAfter
<1>7. QED
  BY <1>2, <1>5, <1>6

LEMMA InTurnTarget ==
  ASSUME NEW f \in Flashes, NoRecord(f) \/ \E j \in JournalSlots : IsNewest(f, j)
  PROVE  LET n == IF Scan(f) = -1 THEN 0 ELSE Successor(f[Scan(f)].seq)
         IN  /\ n \in Sequences
             /\ Target(f, FirstSlot(f)) \in JournalSlots
             /\ InTurn(f, Target(f, FirstSlot(f)), n)
<1>1. CASE NoRecord(f)
  <2>1. Scan(f) = -1
    BY <1>1, ScanNone
  <2>2. 0 \in Sequences /\ 0 \in JournalSlots
    BY SeqAssumption, FourSlots DEF Sequences
  <2>3. QED
    BY <1>1, <2>1, <2>2, TargetType DEF FirstSlot, InTurn
<1>2. ASSUME NEW j \in JournalSlots, IsNewest(f, j)
      PROVE  LET n == IF Scan(f) = -1 THEN 0 ELSE Successor(f[Scan(f)].seq)
             IN  /\ n \in Sequences
                 /\ Target(f, FirstSlot(f)) \in JournalSlots
                 /\ InTurn(f, Target(f, FirstSlot(f)), n)
  <2>1. Scan(f) = j /\ j # -1
    BY <1>2, ScanNewest, FourSlots
  <2>2. Successor(f[j].seq) \in Sequences
    <3>1. f[j].seq \in Sequences
      BY <1>2 DEF Flashes, SlotStates
    <3>2. QED
      BY <3>1, SeqAssumption DEF Sequences, Successor
  <2>3. Advance(j, 1) \in JournalSlots
    BY <1>2, FourSlots DEF Advance, SlotCount
  <2>4. QED
    BY <1>2, <2>1, <2>2, <2>3, TargetType, TargetNext DEF FirstSlot, InTurn
<1>3. QED
  BY <1>1, <1>2

-----------------------------------------------------------------------------
(* The flash before (f) and after (g) a change to slot t alone.            *)

SameBut(f, g, t) == \A i \in JournalSlots \ {t} : g[i] = f[i]

\* As long as slot t holds no record, the newest record stays, and t stays in
\* turn.
LEMMA NewestStays ==
  ASSUME NEW f, NEW g, NEW t \in JournalSlots, SameBut(f, g, t),
         NEW j \in JournalSlots, IsNewest(f, j), NextAfter(f, j, t), ~ValidRecord(g, t)
  PROVE  IsNewest(g, j) /\ NextAfter(g, j, t) /\ g[j] = f[j]
<1>1. g[j] = f[j] /\ t # j
  BY DEF NextAfter, SameBut
<1>2. \A k \in JournalSlots : Between(j, k, t) => k # t
  BY FourSlots DEF Between, Behind, SlotCount
<1>3. \A k \in JournalSlots : Between(j, k, t) => ~ValidRecord(g, k) /\ ~SlotErased(g, k)
  BY <1>2 DEF NextAfter, SameBut, ValidRecord, SlotErased
<1>4. ValidRecord(g, j)
  BY <1>1 DEF IsNewest, ValidRecord
<1>5. ASSUME NEW i \in JournalSlots \ {j}, ValidRecord(g, i)
      PROVE  Older(g, i, j)
  <2>1. i # t /\ g[i] = f[i]
    BY <1>5 DEF SameBut
  <2>2. ValidRecord(f, i)
    BY <2>1, <1>5 DEF ValidRecord
  <2>3. Older(f, i, j)
    BY <2>2 DEF IsNewest
  <2>4. QED
    BY <2>3, <2>1, <1>1 DEF Older, Age
<1>6. ASSUME NEW i \in JournalSlots \ {j}, SlotErased(g, i),
             NEW k \in JournalSlots, Between(j, k, i)
      PROVE  ~ValidRecord(g, k)
  <2>1. CASE i = t
    BY <2>1, <1>6, <1>3
  <2>2. CASE i # t
    <3>1. SlotErased(f, i)
      BY <2>2, <1>6 DEF SlotErased, SameBut
    <3>2. ~ValidRecord(f, k)
      BY <3>1, <1>6 DEF IsNewest
    <3>3. QED
      BY <3>2 DEF SameBut, ValidRecord
  <2>3. QED
    BY <2>1, <2>2
<1>7. IsNewest(g, j)
  BY <1>4, <1>5, <1>6 DEF IsNewest
<1>8. QED
  BY <1>1, <1>3, <1>7 DEF NextAfter

LEMMA NoneStays ==
  ASSUME NEW f, NEW g, NEW t \in JournalSlots, SameBut(f, g, t),
         NoRecord(f), ~ValidRecord(g, t)
  PROVE  NoRecord(g)
BY DEF NoRecord, SameBut, ValidRecord

\* Hence neither the turn nor what a restore finds changes.
LEMMA InTurnStays ==
  ASSUME NEW f \in Flashes, NEW g \in Flashes, NEW t \in JournalSlots, NEW n,
         SameBut(f, g, t), InTurn(f, t, n), ~ValidRecord(g, t)
  PROVE  InTurn(g, t, n) /\ Restored(g) = Restored(f) /\ Scan(g) # t
<1>1. CASE NoRecord(f) /\ n = 0
  <2>1. NoRecord(g)
    BY <1>1, NoneStays
  <2>2. Scan(f) = -1 /\ Scan(g) = -1
    BY <1>1, <2>1, ScanNone
  <2>3. t # -1
    BY FourSlots
  <2>4. QED
    BY <1>1, <2>1, <2>2, <2>3 DEF InTurn, Restored
<1>2. ASSUME NEW j \in JournalSlots, IsNewest(f, j), NextAfter(f, j, t),
             n = Successor(f[j].seq)
      PROVE  InTurn(g, t, n) /\ Restored(g) = Restored(f) /\ Scan(g) # t
  <2>1. IsNewest(g, j) /\ NextAfter(g, j, t) /\ g[j] = f[j]
    BY <1>2, NewestStays
  <2>2. Scan(f) = j /\ Scan(g) = j
    BY <1>2, <2>1, ScanNewest
  <2>3. j # -1 /\ j # t
    BY <1>2, FourSlots DEF NextAfter
  <2>4. QED
    BY <1>2, <2>1, <2>2, <2>3 DEF InTurn, Restored
<1>3. QED
  BY <1>1, <1>2 DEF InTurn

\* Once its header is whole, slot t holds the newest record.
LEMMA Committed ==
  ASSUME NEW f \in Flashes, NEW g, NEW t \in JournalSlots, NEW n,
         SameBut(f, g, t), InTurn(f, t, n), ValidRecord(g, t), g[t].seq = n
  PROVE  IsNewest(g, t)
<1>1. CASE NoRecord(f)
  <2>1. \A k \in JournalSlots \ {t} : ~ValidRecord(g, k)
    BY <1>1 DEF NoRecord, SameBut, ValidRecord
  <2>2. \A i \in JournalSlots, k \in JournalSlots : Between(t, k, i) => k # t
    BY FourSlots DEF Between, Behind, SlotCount
  <2>3. QED
    BY <2>1, <2>2 DEF IsNewest
<1>2. ASSUME NEW j \in JournalSlots, IsNewest(f, j), NextAfter(f, j, t),
             n = Successor(f[j].seq)
      PROVE  IsNewest(g, t)
  <2>1. j # t /\ g[j] = f[j]
    BY <1>2 DEF NextAfter, SameBut
  <2>2. ASSUME NEW i \in JournalSlots \ {t}, ValidRecord(g, i)
        PROVE  Older(g, i, t)
    <3>1. g[i] = f[i] /\ ValidRecord(f, i)
      BY <2>2 DEF SameBut, ValidRecord
    <3>2. /\ f[i].seq \in Sequences /\ f[j].seq \in Sequences
          /\ Age(g, i, t) = Minus(Successor(f[j].seq), f[i].seq)
      BY <1>2, <3>1 DEF Flashes, SlotStates, Age
    <3>3. CASE i = j
      <4>1. Age(g, i, t) = 1
        BY <3>2, <3>3, SeqAssumption DEF Minus, Successor, Sequences
      <4>2. Behind(i, t) >= 1
        BY <2>2, FourSlots DEF Behind, SlotCount
      <4>3. QED
        BY <4>1, <4>2 DEF Older
    <3>4. CASE i # j
      <4>1. Older(f, i, j) /\ ~Between(j, i, t)
        BY <3>1, <3>4, <1>2 DEF IsNewest, NextAfter
      <4>2. /\ Behind(i, j) \in 1 .. 3 /\ Behind(i, t) \in Nat
            /\ Behind(i, j) + 1 <= Behind(i, t)
        BY <4>1, <3>4, <2>1, <2>2, FourSlots DEF Between, Behind, SlotCount
      <4>3. Age(g, i, t) = Age(f, i, j) + 1
        BY <3>2, <4>1, <4>2, SeqAssumption DEF Age, Minus, Successor, Sequences, Older
      <4>4. Age(f, i, j) \in Int
        BY <3>2, SeqAssumption DEF Age, Minus, Sequences
      <4>5. QED
        BY <4>1, <4>2, <4>3, <4>4 DEF Older
    <3>5. QED
      BY <3>3, <3>4
  <2>3. ASSUME NEW i \in JournalSlots \ {t}, SlotErased(g, i),
               NEW k \in JournalSlots, Between(t, k, i)
        PROVE  ~ValidRecord(g, k)
    <3>1. SlotErased(f, i) /\ i # j
      BY <2>1, <2>3, <1>2 DEF SameBut, SlotErased, IsNewest, ValidRecord
    <3>2. ~Between(j, i, t)
      BY <3>1, <1>2 DEF NextAfter
    <3>3. Between(j, k, i) /\ k # t
      BY <3>1, <3>2, <2>1, <2>3, FourSlots DEF Between, Behind, SlotCount
    <3>4. ~ValidRecord(f, k)
      BY <3>1, <3>3, <1>2 DEF IsNewest
    <3>5. QED
      BY <3>3, <3>4 DEF SameBut, ValidRecord
  <2>4. QED
    BY <1>2, <2>2, <2>3 DEF IsNewest
<1>3. QED
  BY <1>1, <1>2 DEF InTurn
-----------------------------------------------------------------------------
(* Every step keeps the invariant, and no step but HeaderDone changes what *)
(* a restore finds.                                                        *)

LEMMA SlotWrite ==
  ASSUME NEW f \in Flashes, NEW t \in JournalSlots, NEW r \in SlotStates
  PROVE  LET g == [f EXCEPT ![t] = r]
         IN  g \in Flashes /\ SameBut(f, g, t) /\ g[t] = r
BY DEF Flashes, SameBut

LEMMA InitJournalInv == JournalInit => JournalInv /\ Restored(flash) = NoSave
<1> SUFFICES ASSUME JournalInit
             PROVE  JournalInv /\ Restored(flash) = NoSave
  OBVIOUS
<1>1. ErasedSlot \in SlotStates
  BY NoDataType, SeqAssumption DEF ErasedSlot, SlotStates, Ranges, Sequences
<1>2. JournalTypeOK
  BY <1>1, NoDataType, SeqAssumption, FourSlots DEF JournalInit, JournalTypeOK, Steps, Sequences
<1>3. NoRecord(flash)
  BY DEF JournalInit, NoRecord, ValidRecord, ErasedSlot
<1>4. RecordsInOrder /\ AppendInOrder
  BY <1>3 DEF RecordsInOrder, AppendInOrder, JournalInit, Uncommitted, Appending
<1>5. QED
  BY <1>2, <1>3, <1>4, ScanNone DEF JournalInv, Restored

\* The flash in a type-correct state.
LEMMA FlashType ==
  JournalTypeOK => /\ flash \in Flashes /\ target \in JournalSlots
                   /\ flash[target] \in SlotStates
BY DEF JournalTypeOK, Flashes

\* What is left to show of a step that changes the target slot to r and has
\* not committed.
LEMMA StillUncommitted ==
  ASSUME JournalInv, step \in Uncommitted, step' \in Uncommitted, step' # "erase", Keep,
         NEW r \in SlotStates, flash' = [flash EXCEPT ![target] = r],
         ~(r.header = "whole" /\ r.payload = "whole"),
         step' = "payload" => r.header = "erased" /\ r.payload = "erased",
         step' \in {"programming", "header"} => r.header = "erased",
         step' \in {"header", "committing"} => r.data = snapshot
  PROVE  JournalInv' /\ Restored(flash') = Restored(flash)
<1>1. /\ JournalTypeOK /\ flash \in Flashes /\ target \in JournalSlots
      /\ InTurn(flash, target, sequence)
  BY FlashType DEF JournalInv, AppendInOrder
<1>2. flash' \in Flashes /\ SameBut(flash, flash', target) /\ flash'[target] = r
  BY <1>1, SlotWrite
<1>3. ~ValidRecord(flash', target)
  BY <1>2 DEF ValidRecord
<1>4. InTurn(flash', target, sequence) /\ Restored(flash') = Restored(flash)
  BY <1>1, <1>2, <1>3, InTurnStays
<1>5. JournalTypeOK'
  BY <1>1, <1>2 DEF JournalTypeOK, Flashes, Keep, Uncommitted, Appending
<1>6. RecordsInOrder'
  BY <1>4 DEF RecordsInOrder, InTurn
<1>7. AppendInOrder'
  BY <1>2, <1>3, <1>4 DEF AppendInOrder, Keep, SlotErased, Uncommitted
<1>8. QED
  BY <1>4, <1>5, <1>6, <1>7 DEF JournalInv

LEMMA UncommittedStep ==
  ASSUME JournalInv, EraseStart \/ EraseDone \/ PayloadStart \/ PayloadDone \/ HeaderStart
  PROVE  JournalInv' /\ Restored(flash') = Restored(flash)
<1>1. /\ JournalTypeOK /\ flash \in Flashes /\ target \in JournalSlots
      /\ flash[target] \in SlotStates /\ snapshot \in Snapshots
  BY FlashType DEF JournalInv, JournalTypeOK
<1>2. CASE EraseStart
  <2>1. PICK h \in {flash[target].header, "torn", "erased"} :
          flash' = [flash EXCEPT ![target].header = h, ![target].payload = "torn"]
    BY <1>2 DEF EraseStart
  <2> DEFINE r == [flash[target] EXCEPT !.header = h, !.payload = "torn"]
  <2>2. r \in SlotStates /\ r.payload = "torn"
    BY <1>1, <2>1 DEF SlotStates, Ranges
  <2>3. flash' = [flash EXCEPT ![target] = r]
    BY <1>1, <2>1 DEF Flashes
  <2>4. step = "erase" /\ step' = "erasing" /\ Keep
    BY <1>2 DEF EraseStart, Moves
  <2> HIDE DEF r
  <2>5. QED
    BY <2>2, <2>3, <2>4, StillUncommitted DEF Uncommitted, Appending, Steps
<1>3. CASE EraseDone
  <2>1. ErasedSlot \in SlotStates /\ ErasedSlot.header = "erased" /\ ErasedSlot.payload = "erased"
    BY NoDataType, SeqAssumption DEF ErasedSlot, SlotStates, Ranges, Sequences
  <2>2. /\ step = "erasing" /\ step' = "payload" /\ Keep
        /\ flash' = [flash EXCEPT ![target] = ErasedSlot]
    BY <1>3 DEF EraseDone, Moves
  <2>3. QED
    BY <2>1, <2>2, StillUncommitted DEF Uncommitted, Appending, Steps
<1>4. CASE PayloadStart
  <2> DEFINE r == [flash[target] EXCEPT !.payload = "torn"]
  <2>1. step = "payload" /\ step' = "programming" /\ Keep
    BY <1>4 DEF PayloadStart, Moves
  <2>2. flash[target].header = "erased"
    BY <2>1 DEF JournalInv, AppendInOrder, SlotErased
  <2>3. r \in SlotStates /\ r.payload = "torn" /\ r.header = "erased"
    BY <1>1, <2>2 DEF SlotStates, Ranges
  <2>4. flash' = [flash EXCEPT ![target] = r]
    BY <1>1, <1>4 DEF Flashes, PayloadStart, Write
  <2> HIDE DEF r
  <2>5. QED
    BY <2>1, <2>3, <2>4, StillUncommitted DEF Uncommitted, Appending, Steps
<1>5. CASE PayloadDone
  <2>1. PICK q \in {"torn", "whole"} :
          flash' = [flash EXCEPT ![target].payload = q, ![target].data = snapshot]
    BY <1>5 DEF PayloadDone
  <2> DEFINE r == [flash[target] EXCEPT !.payload = q, !.data = snapshot]
  <2>2. step = "programming" /\ step' = "header" /\ Keep
    BY <1>5 DEF PayloadDone, Moves
  <2>3. flash[target].header = "erased"
    BY <2>2 DEF JournalInv, AppendInOrder
  <2>4. r \in SlotStates /\ r.header = "erased" /\ r.data = snapshot
    BY <1>1, <2>1, <2>3 DEF SlotStates, Ranges
  <2>5. flash' = [flash EXCEPT ![target] = r]
    BY <1>1, <2>1 DEF Flashes
  <2> HIDE DEF r
  <2>6. QED
    BY <2>2, <2>4, <2>5, StillUncommitted DEF Uncommitted, Appending, Steps
<1>6. CASE HeaderStart
  <2> DEFINE r == [flash[target] EXCEPT !.header = "torn"]
  <2>1. step = "header" /\ step' = "committing" /\ Keep
    BY <1>6 DEF HeaderStart, Moves
  <2>2. flash[target].data = snapshot
    BY <2>1 DEF JournalInv, AppendInOrder
  <2>3. r \in SlotStates /\ r.header = "torn" /\ r.data = snapshot
    BY <1>1, <2>2 DEF SlotStates, Ranges
  <2>4. flash' = [flash EXCEPT ![target] = r]
    BY <1>1, <1>6 DEF Flashes, HeaderStart, Write
  <2> HIDE DEF r
  <2>5. QED
    BY <2>1, <2>3, <2>4, StillUncommitted DEF Uncommitted, Appending, Steps
<1>7. QED
  BY <1>2, <1>3, <1>4, <1>5, <1>6

\* The step that commits: a restore finds the new snapshot from then on, or
\* still the old one.
LEMMA HeaderStep ==
  ASSUME JournalInv, HeaderDone
  PROVE  JournalInv' /\ Restored(flash') \in {Restored(flash), snapshot}
<1>1. /\ JournalTypeOK /\ flash \in Flashes /\ target \in JournalSlots
      /\ flash[target] \in SlotStates /\ sequence \in Sequences
  BY FlashType DEF JournalInv, JournalTypeOK
<1>2. PICK h \in {"torn", "whole"} :
        flash' = [flash EXCEPT ![target].header = h, ![target].seq = sequence]
  BY DEF HeaderDone
<1> DEFINE r == [flash[target] EXCEPT !.header = h, !.seq = sequence]
<1>3. step = "committing" /\ step' = "verify" /\ Keep
  BY DEF HeaderDone, Moves
<1>4. flash[target].data = snapshot /\ InTurn(flash, target, sequence)
  BY <1>3 DEF JournalInv, AppendInOrder, Uncommitted, Appending, Steps
<1>5. r \in SlotStates /\ r.seq = sequence /\ r.data = snapshot
  BY <1>1, <1>2, <1>4 DEF SlotStates, Ranges
<1>6. flash' = [flash EXCEPT ![target] = r]
  BY <1>1, <1>2 DEF Flashes
<1> HIDE DEF r
<1>7. flash' \in Flashes /\ SameBut(flash, flash', target) /\ flash'[target] = r
  BY <1>1, <1>5, <1>6, SlotWrite
<1>8. JournalTypeOK'
  BY <1>1, <1>3, <1>7 DEF JournalTypeOK, Flashes, Keep, Steps
<1>9. CASE ValidRecord(flash', target)
  <2>1. IsNewest(flash', target)
    BY <1>1, <1>4, <1>5, <1>7, <1>9, Committed
  <2>2. Scan(flash') = target /\ target # -1
    BY <1>1, <1>7, <2>1, ScanNewest, FourSlots
  <2>3. Restored(flash') = snapshot
    BY <1>5, <1>7, <2>2 DEF Restored
  <2>4. RecordsInOrder' /\ AppendInOrder'
    BY <1>1, <1>3, <1>5, <1>7, <2>1 DEF RecordsInOrder, AppendInOrder, Keep, Uncommitted
  <2>5. QED
    BY <1>8, <2>3, <2>4 DEF JournalInv
<1>10. CASE ~ValidRecord(flash', target)
  <2>1. InTurn(flash', target, sequence) /\ Restored(flash') = Restored(flash)
    BY <1>1, <1>4, <1>7, <1>10, InTurnStays
  <2>2. RecordsInOrder' /\ AppendInOrder'
    BY <1>3, <1>5, <1>7, <1>10, <2>1
    DEF RecordsInOrder, InTurn, AppendInOrder, Keep, Uncommitted
  <2>3. QED
    BY <1>8, <2>1, <2>2 DEF JournalInv
<1>11. QED
  BY <1>9, <1>10

LEMMA BeginStep ==
  ASSUME JournalInv, NEW p \in Snapshots, AppendBegin(p)
  PROVE  JournalInv'
<1> DEFINE n == IF Scan(flash) = -1 THEN 0 ELSE Successor(flash[Scan(flash)].seq)
           t == Target(flash, FirstSlot(flash))
<1>1. /\ JournalTypeOK /\ flash \in Flashes
      /\ NoRecord(flash) \/ \E j \in JournalSlots : IsNewest(flash, j)
  BY FlashType DEF JournalInv, RecordsInOrder
<1>2. n \in Sequences /\ t \in JournalSlots /\ InTurn(flash, t, n)
  BY <1>1, InTurnTarget
<1>3. /\ target' = t /\ sequence' = n /\ snapshot' = p /\ result' = "none" /\ flash' = flash
      /\ step' = IF SlotErased(flash, t) THEN "payload" ELSE "erase"
  BY DEF AppendBegin
<1> HIDE DEF n, t
<1>4. JournalTypeOK'
  BY <1>1, <1>2, <1>3 DEF JournalTypeOK, Steps
<1>5. RecordsInOrder'
  BY <1>3 DEF JournalInv, RecordsInOrder
<1>6. SlotErased(flash, t) => ~ValidRecord(flash, t)
  BY DEF SlotErased, ValidRecord
<1>7. AppendInOrder'
  BY <1>2, <1>3, <1>6 DEF AppendInOrder, Uncommitted, Appending
<1>8. QED
  BY <1>4, <1>5, <1>7 DEF JournalInv

LEMMA OtherStep ==
  ASSUME JournalInv, PowerOn \/ PowerLoss \/ AppendFails \/ Verified \/ UNCHANGED journalVars
  PROVE  JournalInv' /\ flash' = flash
<1>1. flash' = flash
  BY DEF PowerOn, PowerLoss, AppendFails, Verified, journalVars
<1>2. RecordsInOrder'
  BY <1>1 DEF JournalInv, RecordsInOrder
<1>3. CASE UNCHANGED journalVars
  BY <1>3 DEF JournalInv, JournalTypeOK, RecordsInOrder, AppendInOrder, journalVars
<1>4. CASE PowerOn \/ PowerLoss \/ AppendFails \/ Verified
  <2>1. step' \in {"idle", "off"}
    BY <1>4 DEF PowerOn, PowerLoss, AppendFails, Verified, Return
  <2>2. AppendInOrder'
    BY <2>1 DEF AppendInOrder, Uncommitted, Appending
  <2>3. JournalTypeOK'
    <3>1. 0 \in Sequences /\ 0 \in JournalSlots
      BY SeqAssumption, FourSlots DEF Sequences
    <3>2. QED
      BY <1>1, <1>4, <2>1, <3>1, NoDataType
      DEF JournalInv, JournalTypeOK, PowerOn, PowerLoss, AppendFails, Verified, Return, Steps
  <2>4. QED
    BY <1>1, <1>2, <2>2, <2>3 DEF JournalInv
<1>5. QED
  BY <1>1, <1>3, <1>4

LEMMA StepJournalInv == JournalInv /\ [JournalNext]_journalVars => JournalInv'
BY UncommittedStep, HeaderStep, BeginStep, OtherStep DEF JournalNext, AppendStep

-----------------------------------------------------------------------------
(* The theorems.                                                           *)

\* The journal's records stay in order and an append writes where it may, in
\* every reachable state: after any interrupted, failed and completed appends.
THEOREM JournalOrdered == JournalSpec => []JournalInv
<1>1. JournalInit => JournalInv
  BY InitJournalInv
<1>2. QED
  BY <1>1, StepJournalInv, PTL DEF JournalSpec

\* The flash, the append's variables and its result stay in their types; a
\* sequence number stays a uint32_t.
THEOREM JournalTypeCorrect == JournalSpec => []JournalTypeOK
<1>1. JournalInv => JournalTypeOK
  BY DEF JournalInv
<1>2. QED
  BY <1>1, JournalOrdered, PTL

\* append never erases or programs the slot a restore would read.
THEOREM NewestIsUntouched == JournalSpec => []NewestUntouched
<1>1. JournalInv => NewestUntouched
  <2> SUFFICES ASSUME JournalInv, step \in Uncommitted
               PROVE  Scan(flash) # target
    BY DEF NewestUntouched, Uncommitted
  <2>1. flash \in Flashes /\ target \in JournalSlots /\ InTurn(flash, target, sequence)
    BY FlashType DEF JournalInv, AppendInOrder
  <2>2. CASE NoRecord(flash)
    BY <2>1, <2>2, ScanNone, FourSlots
  <2>3. ASSUME NEW j \in JournalSlots, IsNewest(flash, j), NextAfter(flash, j, target)
        PROVE  Scan(flash) # target
    BY <2>1, <2>3, ScanNewest DEF NextAfter
  <2>4. QED
    BY <2>1, <2>2, <2>3 DEF InTurn
<1>2. QED
  BY <1>1, JournalOrdered, PTL

-----------------------------------------------------------------------------
(* The journal implements the atomic cell.                                 *)

restored == Restored(flash)
saving == IF step \in Appending THEN snapshot ELSE NoSave

LEMMA CellInit == JournalInit => Cell!Init
BY InitJournalInv DEF JournalInit, Cell!Init, Appending

LEMMA CellStep ==
  ASSUME JournalInv, [JournalNext]_journalVars
  PROVE  [Cell!Next]_<<restored, saving, result>>
<1>1. snapshot \in Snapshots /\ snapshot # NoSave
  BY SnapshotsAssumption DEF JournalInv, JournalTypeOK
<1>2. CASE UNCHANGED journalVars
  BY <1>2 DEF restored, saving, journalVars
<1>3. CASE PowerOn
  BY <1>3 DEF PowerOn, restored, saving, Appending
<1>4. CASE PowerLoss
  BY <1>4 DEF PowerLoss, Cell!Next, Cell!Crash, restored, saving, Appending
<1>5. ASSUME NEW p \in Snapshots, AppendBegin(p)
      PROVE  Cell!Begin(p)
  <2>1. /\ step = "idle" /\ step' \in {"payload", "erase"}
        /\ snapshot' = p /\ result' = "none" /\ flash' = flash
    BY <1>5 DEF AppendBegin
  <2>2. QED
    BY <2>1 DEF Cell!Begin, Appending, Steps
<1>6. CASE EraseStart \/ EraseDone \/ PayloadStart \/ PayloadDone \/ HeaderStart
  <2>1. restored' = restored
    BY <1>6, UncommittedStep DEF restored
  <2>2. step \in Appending /\ step' \in Appending /\ snapshot' = snapshot /\ result' = result
    BY <1>6 DEF EraseStart, EraseDone, PayloadStart, PayloadDone, HeaderStart, Moves, Keep,
                Appending, Steps
  <2>3. QED
    BY <2>1, <2>2 DEF saving
<1>7. CASE HeaderDone
  <2>1. restored' = restored \/ restored' = snapshot
    BY <1>7, HeaderStep DEF restored
  <2>2. step \in Appending /\ step' \in Appending /\ snapshot' = snapshot /\ result' = result
    BY <1>7 DEF HeaderDone, Moves, Keep, Appending, Steps
  <2>3. QED
    BY <1>1, <2>1, <2>2 DEF Cell!Next, Cell!Commit, restored, saving
<1>8. CASE AppendFails
  <2>1. step \in Appending /\ step' = "idle" /\ result' = "failed" /\ flash' = flash
    BY <1>8 DEF AppendFails, Return, Appending, Steps
  <2>2. QED
    BY <1>1, <2>1 DEF Cell!Next, Cell!Fail, restored, saving, Appending
<1>9. CASE Verified
  <2>1. /\ step = "verify" /\ step' = "idle" /\ result' = "ok" /\ flash' = flash
        /\ ValidRecord(flash, target)
    BY <1>9 DEF Verified, Return
  <2>2. /\ flash \in Flashes /\ target \in JournalSlots
        /\ IsNewest(flash, target) /\ flash[target].data = snapshot
    BY <2>1, FlashType DEF JournalInv, AppendInOrder
  <2>3. Scan(flash) = target /\ target # -1
    BY <2>2, ScanNewest, FourSlots
  <2>4. restored = snapshot
    BY <2>2, <2>3 DEF restored, Restored
  <2>5. QED
    BY <1>1, <2>1, <2>4 DEF Cell!Next, Cell!Succeed, restored, saving, Appending, Steps
<1>10. QED
  BY <1>2, <1>3, <1>4, <1>5, <1>6, <1>7, <1>8, <1>9 DEF JournalNext, AppendStep, Cell!Next

\* A save through the journal is atomic: what a restore finds changes in one
\* step, only to the snapshot being saved, and a save that reports success has
\* made that change; a failed save and a power loss at any moment keep it.
THEOREM JournalIsDurable == JournalSpec => Durable
<1>1. JournalInit => Cell!Init
  BY CellInit
<1>2. JournalInv /\ [JournalNext]_journalVars
        => [Cell!Next]_<<Restored(flash), IF step \in Appending THEN snapshot ELSE NoSave, result>>
  BY CellStep DEF restored, saving
<1>3. QED
  BY <1>1, <1>2, JournalOrdered, PTL DEF JournalSpec, Durable, Cell!Spec

-----------------------------------------------------------------------------
(* The save policy and the owner of the flash: QspiSave.                   *)

\* The chip's owner is in one of the places between taking and freeing it, and
\* the core that writes the flash is in the callback.
Owners ==
  /\ owner = "core0" <=> c0 \in {"lock", "flash", "release"}
  /\ owner = "core1" <=> c1 \in {"lock", "flash", "release"}
  /\ owner = "sd" <=> c1 \in {"ask", "open"}
  /\ flashing = "core0" <=> c0 = "flash"
  /\ flashing = "core1" <=> c1 = "flash"

\* The places a window can be at, for both cores.
Window ==
  /\ phase = "Requested" => c1 = "ask"
  /\ phase = "Active" => c1 \in {"ask", "open"} /\ c0 = "window"
  /\ phase = "Ending" => c1 = "end" /\ c0 = "window"
  /\ c0 = "window" => phase \in {"Active", "Ending"}
  /\ c1 = "open" => phase = "Active"

\* A save that is still to be written writes what SRAM held since its request.
Fresh ==
  /\ c0 \in {"acquire", "lock", "flash"} /\ job = "save" => ram \in since0
  /\ c1 \in {"acquire", "lock", "flash", "release"} => guest = "saving"
  /\ guest \in {"saving", "saved"} => ram \in since1
  /\ c1 = "release" /\ ok => stored \in since1

Inv == TypeOK /\ Owners /\ Window /\ SkipIsSafe /\ Fresh /\ OkMeansDurable

\* The Boolean part of TypeOK.
Flags ==
  /\ enabled \in BOOLEAN /\ haveSave \in BOOLEAN /\ ok \in BOOLEAN
  /\ lastUsb \in BOOLEAN /\ lastReset \in BOOLEAN /\ usb0 \in BOOLEAN
  /\ detected \in BOOLEAN /\ resetLow \in BOOLEAN
  /\ present \in BOOLEAN /\ held \in BOOLEAN

\* The rest of it.
Places ==
  /\ ram \in Contents /\ stored \in Contents \union {Nothing} /\ savedCrc \in Contents
  /\ owner \in Cores \union {"free", "sd"}
  /\ phase \in {"Idle", "Requested", "Active", "Ending"}
  /\ flashing \in Cores \union {"none"}
  /\ c0 \in {"service", "window", "bus", "task", "acquire", "lock", "flash", "release", "finish", "loader"}
  /\ job \in {"save", "program"}
  /\ c1 \in {"loop", "ask", "open", "end", "acquire", "lock", "flash", "release"}
  /\ guest \in {"running", "saving", "saved", "failed", "halted"}
  /\ since0 \subseteq Contents /\ since1 \subseteq Contents

LEMMA TypeParts == /\ TypeOK <=> Flags /\ Places
                   /\ TypeOK' <=> Flags' /\ Places'
  BY DEF TypeOK, Flags, Places, Cores

USE DEF journal, edges, console, core0, core1, vars, Unchanged0, Unchanged1,
        Runs0, Runs1, Cores, UsbMode

\* Every state the flash owner reaches is of its type.
LEMMA InitInv == Init => Inv
  BY ContentsAssumption
  DEF Init, Inv, TypeOK, Owners, Window, SkipIsSafe, Fresh, OkMeansDurable

\* What a save leaves behind: a journal that agrees with the remembered CRC,
\* and SRAM itself if g_ok is set.
LEMMA SnapshotStored ==
  ASSUME TypeOK, SkipIsSafe, SaveSnapshot
  PROVE  /\ stored' \in Contents \union {Nothing} /\ savedCrc' \in Contents
         /\ haveSave' \in BOOLEAN /\ ok' \in BOOLEAN
         /\ haveSave' => stored' = savedCrc'
         /\ ok' => stored' = ram
         /\ stored' = stored \/ stored' = ram
<1>1. ram \in Contents /\ stored \in Contents \union {Nothing} /\ savedCrc \in Contents
  BY DEF TypeOK
<1>2. haveSave \in BOOLEAN /\ ok \in BOOLEAN
  BY Zenon DEF TypeOK
<1>3. haveSave' \in BOOLEAN /\ ok' \in BOOLEAN
  BY <1>2 DEF SaveSnapshot
<1>4. (haveSave' => stored' = savedCrc') /\ (ok' => stored' = ram)
  BY DEF SaveSnapshot, SkipIsSafe
<1>5. /\ stored' \in Contents \union {Nothing} /\ savedCrc' \in Contents
      /\ stored' = stored \/ stored' = ram
  BY <1>1 DEF SaveSnapshot
<1>6. QED
  BY <1>3, <1>4, <1>5

\* What a step does to the types of the state.
LEMMA FlagsStep == TypeOK /\ SkipIsSafe /\ [Next]_vars => Flags'
<1> SUFFICES ASSUME TypeOK, SkipIsSafe, [Next]_vars
             PROVE  Flags'
  OBVIOUS
<1>0. UNCHANGED vars => Flags'
  BY DEF TypeOK, Flags
<1>1. CASE BusService
  BY <1>1, Zenon DEF BusService, TypeOK, Flags
<1>2. CASE WindowEnds
  BY <1>2, Zenon DEF WindowEnds, TypeOK, Flags
<1>3. CASE FollowPresence
  BY <1>3, Zenon DEF FollowPresence, TypeOK, Flags
<1>4. CASE SaveTask
  BY <1>4, Zenon DEF SaveTask, TypeOK, Flags
<1>5. CASE Loader
  BY <1>5, Zenon DEF Loader, TypeOK, Flags
<1>6. CASE Acquire0
  BY <1>6, ZenonT(60) DEF Acquire0, TypeOK, Flags
<1>7. CASE Lock0
  BY <1>7, Zenon DEF Lock0, TypeOK, Flags
<1>8. CASE Flash0
  BY <1>8, SnapshotStored, Zenon DEF Flash0, TypeOK, Flags
<1>9. CASE Release0
  BY <1>9, Zenon DEF Release0, TypeOK, Flags
<1>10. CASE Finish0
  BY <1>10, Zenon DEF Finish0, TypeOK, Flags
<1>11. CASE Acquire1
  BY <1>11, Zenon DEF Acquire1, TypeOK, Flags
<1>12. CASE Lock1
  BY <1>12, Zenon DEF Lock1, TypeOK, Flags
<1>13. CASE Flash1
  BY <1>13, SnapshotStored, Zenon DEF Flash1, TypeOK, Flags
<1>14. CASE Release1
  BY <1>14, Zenon DEF Release1, TypeOK, Flags
<1>15. CASE SdAnswered
  BY <1>15, Zenon DEF SdAnswered, TypeOK, Flags
<1>16. CASE SdEnd
  BY <1>16, Zenon DEF SdEnd, TypeOK, Flags
<1>17. CASE SdEnded
  BY <1>17, Zenon DEF SdEnded, TypeOK, Flags
<1>18. CASE SaveAndStop
  BY <1>18, Zenon DEF SaveAndStop, TypeOK, Flags
<1>19. CASE SdAsk
  BY <1>19, Zenon DEF SdAsk, TypeOK, Flags
<1>20. CASE Console
  BY <1>20, Zenon DEF Console, TypeOK, Flags
<1>21. CASE Go
  BY <1>21, Zenon DEF Go, TypeOK, Flags
<1>22. CASE ResetGuest
  BY <1>22, Zenon DEF ResetGuest, TypeOK, Flags
<1>23. ASSUME NEW p \in Contents, CpuStore(p) \/ GuestStore(p)
      PROVE  Flags'
  BY <1>23 DEF CpuStore, GuestStore, StoreRam, TypeOK, Flags
<1>24. QED
  BY <1>0, <1>1, <1>2, <1>3, <1>4, <1>5, <1>6, <1>7, <1>8, <1>9, <1>10, <1>11, <1>12, <1>13, <1>14, <1>15, <1>16, <1>17, <1>18, <1>19, <1>20, <1>21, <1>22, <1>23 DEF Next, Core0Step, Core1Step

LEMMA TypeStep == TypeOK /\ SkipIsSafe /\ [Next]_vars => TypeOK'
<1> SUFFICES ASSUME Places, TypeOK, SkipIsSafe, [Next]_vars
             PROVE  Places'
  BY FlagsStep, TypeParts
<1>0. UNCHANGED vars => Places'
  BY DEF Places
<1>1. CASE BusService
  BY <1>1 DEF BusService, Places
<1>2. CASE WindowEnds
  BY <1>2 DEF WindowEnds, Places
<1>3. CASE FollowPresence
  BY <1>3 DEF FollowPresence, Places
<1>4. CASE SaveTask
  BY <1>4 DEF SaveTask, Places
<1>5. CASE Loader
  BY <1>5 DEF Loader, Places
<1>6. CASE Acquire0
  BY <1>6, ZenonT(60) DEF Acquire0, Places
<1>7. CASE Lock0
  <2>1. /\ flashing' \in {"core0", flashing} /\ c0' \in {"flash", "release"}
        /\ UNCHANGED <<journal, owner, phase, job, since0>> /\ Unchanged0
    BY <1>7 DEF Lock0
  <2>2. UNCHANGED <<ram, stored, savedCrc, c1, guest, since1>>
    BY <2>1 DEF Unchanged0, journal, core1
  <2>3. QED
    BY <2>1, <2>2 DEF Places
<1>8. CASE Flash0
  BY <1>8, SnapshotStored DEF Flash0, Places
<1>9. CASE Release0
  BY <1>9 DEF Release0, Places
<1>10. CASE Finish0
  BY <1>10 DEF Finish0, Places
<1>11. CASE Acquire1
  BY <1>11 DEF Acquire1, Places
<1>12. CASE Lock1
  BY <1>12 DEF Lock1, Places
<1>13. CASE Flash1
  BY <1>13, SnapshotStored DEF Flash1, Places
<1>14. CASE Release1
  BY <1>14 DEF Release1, Places
<1>15. CASE SdAnswered
  BY <1>15 DEF SdAnswered, Places
<1>16. CASE SdEnd
  BY <1>16 DEF SdEnd, Places
<1>17. CASE SdEnded
  BY <1>17 DEF SdEnded, Places
<1>18. CASE SaveAndStop
  BY <1>18 DEF SaveAndStop, Places
<1>19. CASE SdAsk
  BY <1>19 DEF SdAsk, Places
<1>20. CASE Console
  BY <1>20 DEF Console, Places
<1>21. CASE Go
  BY <1>21 DEF Go, Places
<1>22. CASE ResetGuest
  BY <1>22 DEF ResetGuest, Places
<1>23. ASSUME NEW p \in Contents, CpuStore(p) \/ GuestStore(p)
      PROVE  Places'
  BY <1>23 DEF CpuStore, GuestStore, StoreRam, Places
<1>24. QED
  BY <1>0, <1>1, <1>2, <1>3, <1>4, <1>5, <1>6, <1>7, <1>8, <1>9, <1>10, <1>11, <1>12, <1>13, <1>14, <1>15, <1>16, <1>17, <1>18, <1>19, <1>20, <1>21, <1>22, <1>23 DEF Next, Core0Step, Core1Step

\* The ownership of the chip, the window's phases and the freshness of what a
\* save writes survive every step.
LEMMA InvStep == Inv /\ [Next]_vars => (Owners /\ Window /\ SkipIsSafe /\ Fresh /\ OkMeansDurable)'
<1> SUFFICES ASSUME Inv, [Next]_vars
             PROVE  (Owners /\ Window /\ SkipIsSafe /\ Fresh /\ OkMeansDurable)'
  OBVIOUS
<1> USE DEF Inv, Owners, Window, SkipIsSafe, Fresh, OkMeansDurable
<1>t. Places
  BY TypeParts
<1>0. CASE UNCHANGED vars
  BY <1>0
<1>1. CASE BusService
  BY <1>1, <1>t DEF Places, BusService
<1>2. CASE WindowEnds
  BY <1>2, <1>t DEF Places, WindowEnds
<1>3. CASE FollowPresence
  BY <1>3, <1>t DEF Places, FollowPresence
<1>4. CASE SaveTask
  BY <1>4, <1>t DEF Places, SaveTask
<1>5. CASE Loader
  BY <1>5, <1>t DEF Places, Loader
<1>6. CASE Acquire0
  BY <1>6, <1>t DEF Places, Acquire0
<1>7. CASE Lock0
  BY <1>7, <1>t DEF Places, Lock0
<1>8. CASE Flash0
  BY <1>8, <1>t, SnapshotStored DEF Flash0
<1>9. CASE Release0
  BY <1>9, <1>t DEF Places, Release0
<1>10. CASE Finish0
  BY <1>10, <1>t DEF Places, Finish0
<1>11. CASE Acquire1
  BY <1>11, <1>t DEF Places, Acquire1
<1>12. CASE Lock1
  BY <1>12, <1>t DEF Places, Lock1
<1>13. CASE Flash1
  BY <1>13, <1>t, SnapshotStored DEF Flash1
<1>14. CASE Release1
  BY <1>14, <1>t DEF Places, Release1
<1>15. CASE SdAnswered
  BY <1>15, <1>t DEF Places, SdAnswered
<1>16. CASE SdEnd
  BY <1>16, <1>t DEF Places, SdEnd
<1>17. CASE SdEnded
  BY <1>17, <1>t DEF Places, SdEnded
<1>18. CASE SaveAndStop
  BY <1>18, <1>t DEF Places, SaveAndStop
<1>19. CASE SdAsk
  BY <1>19, <1>t DEF Places, SdAsk
<1>20. CASE Console
  BY <1>20, <1>t DEF Places, Console
<1>21. CASE Go
  BY <1>21, <1>t DEF Places, Go
<1>22. CASE ResetGuest
  BY <1>22, <1>t DEF Places, ResetGuest
<1>23. ASSUME NEW p \in Contents, CpuStore(p) \/ GuestStore(p)
      PROVE  (Owners /\ Window /\ SkipIsSafe /\ Fresh /\ OkMeansDurable)'
  BY <1>23, <1>t DEF Places, CpuStore, GuestStore, StoreRam
<1>24. QED
  BY <1>0, <1>1, <1>2, <1>3, <1>4, <1>5, <1>6, <1>7, <1>8, <1>9, <1>10, <1>11, <1>12, <1>13, <1>14, <1>15, <1>16, <1>17, <1>18, <1>19, <1>20, <1>21, <1>22, <1>23 DEF Next, Core0Step, Core1Step

\* Every state core 0 and core 1 can reach is of its type.
THEOREM SaveTypeCorrect == Spec => []TypeOK
<1>1. Inv /\ [Next]_vars => Inv'
  BY TypeStep, InvStep DEF Inv
<1>2. Inv => TypeOK
  BY DEF Inv
<1>3. QED
  BY InitInv, <1>1, <1>2, PTL DEF Spec

THEOREM SaveInvariant == Spec => []Inv
<1>1. Inv /\ [Next]_vars => Inv'
  BY TypeStep, InvStep DEF Inv
<1>2. QED
  BY InitInv, <1>1, PTL DEF Spec

\* The flash is only written by the core that owns the chip, and never while
\* core 0 serves the console in a window of the SD card.
THEOREM SaveFlashExclusive == Spec => []FlashExclusive
<1>1. Inv => FlashExclusive
  BY DEF Inv, TypeOK, Owners, Window, FlashExclusive
<1>2. QED
  BY SaveInvariant, <1>1, PTL

\* The snapshot a save leaves out is the one the journal would restore.
THEOREM SaveSkipIsSafe == Spec => []SkipIsSafe
<1>1. Inv => SkipIsSafe
  BY DEF Inv
<1>2. QED
  BY SaveInvariant, <1>1, PTL

\* A save that reports success has stored what SRAM held at or after the
\* request, also if it lost the chip, the other core or the append before.
THEOREM SaveOkMeansDurable == Spec => []OkMeansDurable
<1>1. Inv => OkMeansDurable
  BY DEF Inv
<1>2. QED
  BY SaveInvariant, <1>1, PTL
=============================================================================
