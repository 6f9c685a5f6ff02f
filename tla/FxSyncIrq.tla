----------------------------- MODULE FxSyncIrq ------------------------------
(***************************************************************************)
(* STOP interrupts across the ownership hand-off.  Two history variables   *)
(* add to FxSync what the SNES CPU has been told: whether the last STOP    *)
(* IRQ has been shown to it by a read of the high SFR byte, and whether it *)
(* has paced its accesses.                                                 *)
(*                                                                         *)
(* A deferred clear has no "event-level identity" (fx_sync.cpp:285): a CPU *)
(* that reads $3031 twice before core 1 has published the first clear arms *)
(* a second one from the same stale snapshot, and that one may take a      *)
(* later IRQ away.  What is said about single interrupts is therefore said *)
(* of a CPU that waits for its accesses to settle; all interleavings of    *)
(* any other CPU are explored too, for the other properties.               *)
(***************************************************************************)
EXTENDS FxSync

VARIABLES
  unseen,      \* the IRQ bit is set and no read has returned it yet
  paced        \* so far the CPU has waited and acknowledged, see Settled

Starts == {"go", "sfr_go"}
Starting == (pc1 = "apply" /\ cmd1 \in Starts)
            \/ \E k \in 1 .. RingCount : Ring[k] \in Starts

\* Core 1 has carried out and published what earlier accesses asked for.
Settled == RingEmpty /\ ~irqClear /\ pc1 = "top"

\* The GSU has stopped and its IRQ is gone.
Acknowledged == ~line /\ ~fx.irq /\ ~irqClear /\ ~fx.running /\ ~Starting

PacedStep == pc0 = "idle" /\ op0' # None =>
                Settled /\ (op0' \in Starts => Acknowledged)

Raised == fx'.irq /\ ~fx.irq

\* A read returned the IRQ bit, or a console reset was accepted.
Shown ==
  \/ pc0 = "rd_snap" /\ pc0' = "rd_arm"
  \/ pc0 = "rd_direct" /\ pc0' = "idle" /\ op0 = "read_sfrh"
  \/ resetPending /\ ~resetPending'

IrqInit == Init /\ unseen = FALSE /\ paced = TRUE
IrqNext ==
  /\ Next
  /\ unseen' = (Raised \/ (unseen /\ fx'.irq /\ ~Shown))
  /\ paced' = (paced /\ PacedStep)
IrqSpec == IrqInit /\ [][IrqNext]_<<vars, unseen, paced>>

ResetWaiting == \/ pc0 = "r_direct" \/ (pc1 = "apply" /\ cmd1 = "Reset")
                \/ \E k \in 1 .. RingCount : Ring[k] = "Reset"

\* An IRQ that no read has returned is taken away by nothing but a console
\* reset.  "Arming a deferred clear from an IRQ=0 read could erase a later STOP
\* IRQ that occurs after the CPU's read" (fx_sync.cpp:282) is what the snapshot
\* test of the read is there to prevent.
UnseenIrqKept ==
  [][paced /\ unseen /\ fx.irq /\ ~fx'.irq => Shown \/ ResetWaiting]_vars

\* For as long as the CPU has not seen the IRQ the line is high, although core
\* 0 lowers it outside the gate (fx_sync.cpp:292-293) while core 1 may be
\* executing the next STOP; and with nobody in the middle of an access it shows
\* the IRQ bit, whatever mix of direct and deferred clears, resets and STOPs
\* has led there.
UnseenIrqOnLine == unseen => line \/ ResetWaiting
LineFollowsIrq == ~owner /\ pc0 = "idle" => line = fx.irq
LineShowsIrq == paced => UnseenIrqOnLine /\ LineFollowsIrq
=============================================================================
