---------------------------- MODULE FxCommandBus ----------------------------
(***************************************************************************)
(* What fx_sync.cpp promises the SNES CPU: the register writes and resets  *)
(* it puts on the bus reach the SuperFX core one at a time and in order,   *)
(* whichever core applies them.  There is no ring, no gate and no owner    *)
(* here, only the commands that have been accepted and not applied yet.    *)
(***************************************************************************)
EXTENDS Naturals, Sequences

CONSTANTS
  Command,         (* register writes and "Reset"                          *)
  Chip,            (* "FX3" or "GSU"                                       *)
  StopIrq,         (* STOP may raise an IRQ                                *)
  ResetFx,         (* the FxState after a reset                            *)
  Apply(_, _),     (* Apply(f, c): the FxState f after command c           *)
  ReadSfrHigh(_),  (* the FxState after its high SFR byte was read         *)
  Plain(_),        (* the FxState after an instruction other than STOP     *)
  Stop(_, _)       (* the FxState after STOP, with or without an IRQ       *)

VARIABLES
  fx,              (* the FxState                                          *)
  video,           (* full-screen video owns the GSU RAM                   *)
  backlog          (* accepted commands that are still to be applied       *)

Init == fx = ResetFx /\ video = FALSE /\ backlog = <<>>

\* While video owns the RAM only resets are accepted.
Admitted(c) == video => c = "Reset"

Accept(c) ==
  /\ Admitted(c)
  /\ backlog' = Append(backlog, c)
  /\ UNCHANGED <<fx, video>>

ApplyOldest ==
  /\ backlog # <<>>
  /\ fx' = Apply(fx, Head(backlog))
  /\ backlog' = Tail(backlog)
  /\ UNCHANGED video

\* A command may take effect at once only if none is waiting.
AcceptAndApply(c) ==
  /\ Admitted(c)
  /\ backlog = <<>>
  /\ fx' = Apply(fx, c)
  /\ UNCHANGED <<video, backlog>>

ClearIrq ==
  /\ fx' = ReadSfrHigh(fx)
  /\ UNCHANGED <<video, backlog>>

Execute ==
  /\ fx.running
  /\ \/ fx' = Plain(fx)
     \/ \E raise \in BOOLEAN : (raise => StopIrq) /\ ~fx.nop /\ fx' = Stop(fx, raise)
  /\ UNCHANGED <<video, backlog>>

\* Video takes the RAM of a stopped GSU that has nothing waiting for it.
VideoAcquire ==
  /\ Chip = "FX3" /\ ~video /\ ~fx.running /\ backlog = <<>>
  /\ video' = TRUE
  /\ UNCHANGED <<fx, backlog>>

VideoRelease ==
  /\ video
  /\ video' = FALSE
  /\ UNCHANGED <<fx, backlog>>

Next == \/ \E c \in Command : Accept(c) \/ AcceptAndApply(c)
        \/ ApplyOldest \/ ClearIrq \/ Execute
        \/ VideoAcquire \/ VideoRelease

Spec == Init /\ [][Next]_<<fx, video, backlog>>
=============================================================================
