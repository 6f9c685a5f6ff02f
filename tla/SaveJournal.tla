---------------------------- MODULE SaveJournal -----------------------------
(***************************************************************************)
(* The append-only SRAM save journal in QSPI flash                         *)
(* (src/storage/fx3_save_journal.cpp): four slots, each a header page and  *)
(* the snapshot.  An append erases a slot if none is erased, programs the  *)
(* snapshot, then the header that commits it, and reads the record back.   *)
(* Power may be lost before, during and after each of these, and the flash *)
(* may refuse to erase or program.                                         *)
(***************************************************************************)
EXTENDS Integers

CONSTANTS
  Snapshots,   (* the SRAM contents, as model values                       *)
  NoSave,      (* what a restore finds in a journal without a valid record *)
  SeqMod       (* sequence numbers are uint32_t: 2^32                      *)

ASSUME SnapshotsAssumption == NoSave \notin Snapshots /\ Snapshots # {}
ASSUME SeqAssumption == SeqMod \in Nat /\ SeqMod >= 8

SlotCount == 4                       \* static_assert at fx3_save_journal.h:26
JournalSlots == 0 .. SlotCount - 1
Sequences == 0 .. SeqMod - 1

VARIABLES
  flash,       (* the journal's slots                                      *)
  step,        (* how far the append has got; "idle"; or "off"             *)
  target,      (* append's target_slot                                     *)
  sequence,    (* append's sequence                                        *)
  snapshot,    (* append's snapshot                                        *)
  result       (* what the last append returned                            *)

journalVars == <<flash, step, target, sequence, snapshot, result>>

\* A page range is erased, torn (its bits are not those of any record), or
\* whole.  A snapshot that is torn does not have the CRC its header names.
Ranges == {"erased", "torn", "whole"}
NoData == CHOOSE p \in Snapshots : TRUE
SlotStates == [header : Ranges, seq : Sequences, payload : Ranges, data : Snapshots]

ErasedSlot == [header |-> "erased", seq |-> 0, payload |-> "erased", data |-> NoData]

-----------------------------------------------------------------------------
(* The helpers of fx3_save_journal.cpp.                                    *)

\* lhs - rhs in uint32_t, and its sign as int32_t.
Minus(lhs, rhs) == IF lhs >= rhs THEN lhs - rhs ELSE lhs - rhs + SeqMod
Newer(lhs, rhs) == lhs # rhs /\ 2 * Minus(lhs, rhs) < SeqMod

Successor(seq)  == IF seq = SeqMod - 1 THEN 0 ELSE seq + 1

ValidRecord(f, i) == f[i].header = "whole" /\ f[i].payload = "whole"
SlotErased(f, i)  == f[i].header = "erased" /\ f[i].payload = "erased"

\* The loop of scan: the newest slot so far, or -1, against slot i.
Better(f, best, i) ==
  IF ValidRecord(f, i) /\ (best = -1 \/ Newer(f[i].seq, f[best].seq)) THEN i ELSE best
Scan(f) == Better(f, Better(f, Better(f, Better(f, -1, 0), 1), 2), 3)

\* What restore copies to SRAM.
Restored(f) == IF Scan(f) = -1 THEN NoSave ELSE f[Scan(f)].data

\* The slot k places after slot i, and append's choice of a slot: the first
\* erased one after the newest record, otherwise the next one.
Advance(i, k) == IF i + k < SlotCount THEN i + k ELSE i + k - SlotCount

FirstSlot(f) == IF Scan(f) = -1 THEN 0 ELSE Advance(Scan(f), 1)
Target(f, first) ==
  IF SlotErased(f, first) THEN first
  ELSE IF SlotErased(f, Advance(first, 1)) THEN Advance(first, 1)
  ELSE IF SlotErased(f, Advance(first, 2)) THEN Advance(first, 2)
  ELSE IF SlotErased(f, Advance(first, 3)) THEN Advance(first, 3)
  ELSE first

-----------------------------------------------------------------------------
Steps == {"off", "idle", "erase", "erasing", "payload", "programming",
          "header", "committing", "verify"}
Appending == Steps \ {"off", "idle"}

JournalTypeOK ==
  /\ flash \in [JournalSlots -> SlotStates]
  /\ step \in Steps
  /\ target \in JournalSlots /\ sequence \in Sequences /\ snapshot \in Snapshots
  /\ result \in {"none", "ok", "failed"}

JournalInit ==
  /\ flash = [i \in JournalSlots |-> ErasedSlot]
  /\ step = "off"
  /\ target = 0 /\ sequence = 0 /\ snapshot = NoData
  /\ result = "none"

\* Power on; what boot restores is Restored(flash).
PowerOn ==
  /\ step = "off" /\ step' = "idle"
  /\ UNCHANGED <<flash, target, sequence, snapshot, result>>

AppendBegin(p) ==
  /\ step = "idle"
  /\ snapshot' = p
  /\ target' = Target(flash, FirstSlot(flash))
  /\ sequence' = IF Scan(flash) = -1 THEN 0 ELSE Successor(flash[Scan(flash)].seq)
  /\ step' = IF SlotErased(flash, target') THEN "payload" ELSE "erase"
  /\ result' = "none"
  /\ UNCHANGED flash

Write(range, value) == flash' = [flash EXCEPT ![target][range] = value]
Moves(from, to) == step = from /\ step' = to
Keep == UNCHANGED <<target, sequence, snapshot, result>>

\* The erase runs over the slot's sectors, the header's first: from here on
\* the header is whatever a half-done erase leaves, the payload no record's.
EraseStart ==
  /\ Moves("erase", "erasing")
  /\ \E h \in {flash[target].header, "torn", "erased"} :
       flash' = [flash EXCEPT ![target].header = h, ![target].payload = "torn"]
  /\ Keep

EraseDone ==
  /\ Moves("erasing", "payload")
  /\ flash' = [flash EXCEPT ![target] = ErasedSlot]
  /\ Keep

\* A program that the flash reports as done may still have left torn bits.
PayloadStart == Moves("payload", "programming") /\ Write("payload", "torn") /\ Keep

PayloadDone ==
  /\ Moves("programming", "header")
  /\ \E r \in {"torn", "whole"} :
       flash' = [flash EXCEPT ![target].payload = r, ![target].data = snapshot]
  /\ Keep

HeaderStart == Moves("header", "committing") /\ Write("header", "torn") /\ Keep

HeaderDone ==
  /\ Moves("committing", "verify")
  /\ \E r \in {"torn", "whole"} :
       flash' = [flash EXCEPT ![target].header = r, ![target].seq = sequence]
  /\ Keep

Return(value) == step' = "idle" /\ result' = value /\ UNCHANGED <<target, sequence, snapshot>>

\* The flash refuses to erase or program, or the record does not read back.
AppendFails ==
  /\ \/ step \in {"erasing", "programming", "committing"}
     \/ /\ step = "verify"
        /\ ~(ValidRecord(flash, target) /\ flash[target].seq = sequence)
  /\ Return("failed")
  /\ UNCHANGED flash

\* Mutant: append does not read the record back.
Verified_Unchecked ==
  /\ step = "verify"
  /\ Return("ok")
  /\ UNCHANGED flash

Verified ==
  /\ step = "verify"
  /\ ValidRecord(flash, target) /\ flash[target].seq = sequence
  /\ Return("ok")
  /\ UNCHANGED flash

PowerLoss ==
  /\ step # "off" /\ step' = "off"
  /\ result' = "none"
  /\ target' = 0 /\ sequence' = 0 /\ snapshot' = NoData
  /\ UNCHANGED flash

AppendStep == \/ EraseStart \/ EraseDone \/ PayloadStart \/ PayloadDone
              \/ HeaderStart \/ HeaderDone \/ AppendFails \/ Verified

JournalNext == \/ PowerOn \/ PowerLoss \/ AppendStep
               \/ \E p \in Snapshots : AppendBegin(p)

JournalSpec == JournalInit /\ [][JournalNext]_journalVars

-----------------------------------------------------------------------------
(* The journal implements a cell that is replaced atomically.              *)
Cell == INSTANCE DurableSave WITH
  stored  <- Restored(flash),
  saving  <- IF step \in Appending THEN snapshot ELSE NoSave,
  outcome <- result
Durable == Cell!Spec

\* "Reclaim only the next slot, never the newest committed snapshot"
\* (fx3_save_journal.cpp:154): while an append works on its slot, that slot is
\* not the one a restore would read, until its own header is whole.
NewestUntouched == step \in Appending \ {"verify"} => Scan(flash) # target

-----------------------------------------------------------------------------
(* The inductive invariant behind both.                                    *)

\* How many slots i lies before slot j, going round the ring, and how many
\* saves its record is older.
Behind(i, j) == IF j >= i THEN j - i ELSE j - i + SlotCount
Age(f, i, j) == Minus(f[j].seq, f[i].seq)

Older(f, i, j) == Age(f, i, j) >= 1 /\ Age(f, i, j) <= Behind(i, j)
Between(j, k, i) == Behind(j, k) > 0 /\ Behind(j, k) < Behind(j, i)

\* Slot j holds the newest record: every other record is older by at least one
\* save and by at most as many saves as it lies slots behind, and no record
\* lies between j and a slot that is still erased.
IsNewest(f, j) ==
  /\ ValidRecord(f, j)
  /\ \A i \in JournalSlots \ {j} :
       /\ ValidRecord(f, i) => Older(f, i, j)
       /\ SlotErased(f, i) =>
            \A k \in JournalSlots : Between(j, k, i) => ~ValidRecord(f, k)

NoRecord(f) == \A i \in JournalSlots : ~ValidRecord(f, i)

RecordsInOrder == NoRecord(flash) \/ \E j \in JournalSlots : IsNewest(flash, j)

\* Slot i is where an append after the record in slot j may write: every slot
\* between them is neither erased nor a record.
NextAfter(f, j, i) ==
  /\ i # j
  /\ \A k \in JournalSlots : Between(j, k, i) => ~ValidRecord(f, k) /\ ~SlotErased(f, k)

\* The slot t and the sequence number n follow the newest record.
InTurn(f, t, n) ==
  \/ NoRecord(f) /\ n = 0
  \/ \E j \in JournalSlots : /\ IsNewest(f, j) /\ NextAfter(f, j, t)
                             /\ n = Successor(f[j].seq)

\* An append works on the slot in turn until its header is whole; the record
\* in that slot, if it reads back, is then the newest.
Uncommitted == Appending \ {"verify"}
AppendInOrder ==
  /\ step \in Uncommitted =>
       /\ step = "erase" \/ ~ValidRecord(flash, target)
       /\ InTurn(flash, target, sequence)
  /\ step = "payload" => SlotErased(flash, target)
  /\ step \in {"programming", "header"} => flash[target].header = "erased"
  /\ step \in {"header", "committing", "verify"} => flash[target].data = snapshot
  /\ step = "verify" /\ ValidRecord(flash, target) => IsNewest(flash, target)

JournalInv == JournalTypeOK /\ RecordsInOrder /\ AppendInOrder
=============================================================================
