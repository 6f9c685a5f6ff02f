---------------------------- MODULE DurableSave -----------------------------
(***************************************************************************)
(* What the QSPI save journal promises: one cell that holds a snapshot.  A *)
(* save replaces its contents in one step or not at all, a successful save *)
(* has replaced them, and neither a failed save nor a power loss at any    *)
(* moment can bring back an older snapshot or lose the current one.        *)
(***************************************************************************)
CONSTANTS Snapshots,   (* the SRAM contents that can be saved              *)
          NoSave       (* "no snapshot"                                    *)

VARIABLES stored,      (* what a restore would return now                  *)
          saving,      (* the snapshot being saved                         *)
          outcome      (* what the last save reported                      *)

Init == stored = NoSave /\ saving = NoSave /\ outcome = "none"

Begin(p) ==
  /\ saving = NoSave
  /\ saving' = p /\ outcome' = "none"
  /\ UNCHANGED stored

Commit ==
  /\ saving # NoSave
  /\ stored' = saving
  /\ UNCHANGED <<saving, outcome>>

Succeed ==
  /\ saving # NoSave /\ stored = saving
  /\ saving' = NoSave /\ outcome' = "ok"
  /\ UNCHANGED stored

Fail ==
  /\ saving # NoSave
  /\ saving' = NoSave /\ outcome' = "failed"
  /\ UNCHANGED stored

\* Power is lost; only the cell survives.
Crash ==
  /\ saving' = NoSave /\ outcome' = "none"
  /\ UNCHANGED stored

Next == (\E p \in Snapshots : Begin(p)) \/ Commit \/ Succeed \/ Fail \/ Crash

Spec == Init /\ [][Next]_<<stored, saving, outcome>>
=============================================================================
