------------------------------ MODULE SdWindow ------------------------------
(***************************************************************************)
(* SD exchanges beside the SuperFX hand-off (qspi_bus.cpp, with the sd_*   *)
(* halves of fx_sync.cpp and snes_pio.cpp).                                *)
(*                                                                         *)
(* The SD card shares its pins with the QSPI flash both cores execute      *)
(* from.  Core 1 asks for a window; core 0 stops in a loop in SRAM, gives  *)
(* the FxState to core 1 and serves the bus from a second set of           *)
(* interrupt handlers; core 1 exchanges bytes with the card, ends the      *)
(* window, and drains what the handlers queued until core 0 is back.       *)
(*                                                                         *)
(* Core 0's interrupt handlers preempt its main loop: "main" only moves    *)
(* while no handler is active (pc0 and sd are idle).                       *)
(***************************************************************************)
EXTENDS FxSync
SX == INSTANCE SequencesExt

CONSTANT Room      (* see RoomToPrepare                                    *)
ASSUME RoomAssumption == Room \in BOOLEAN

VARIABLES
  phase,      (* g_audio_phase                                             *)
  bus,        (* g_owner of qspi_bus.cpp: who holds the QSPI bus           *)
  cancelled,  (* g_audio_cancelled                                         *)
  main,       (* core 0's main loop                                        *)
  win,        (* core 1: where it is in an exchange, "out" without one     *)
  handlers,   (* the installed interrupt handlers                          *)
  sd,         (* core 0: where its SD handler is                           *)
  sdReset,    (* g_sd_reset                                                *)
  sdPosition, (* g_sd_reset_position                                       *)
  dr,         (* core 1: where it is in fx_sync_sd_drain_writes            *)
  drained     (* the loop counter there                                    *)

busVars == <<phase, bus, cancelled, main, win, handlers>>
sdVars  == <<sd, sdReset, sdPosition, dr, drained>>
allVars == <<vars, busVars, sdVars>>

WindowTypeOK ==
  /\ TypeOK
  /\ phase \in {"Idle", "Requested", "Preparing", "Active", "Ending"}
  /\ bus \in {"free", "core0", "core1"}
  /\ cancelled \in BOOLEAN
  /\ main \in {"loop", "save", "prep", "begun", "wait", "left"}
  /\ win \in {"out", "got", "wait", "giveup", "xfer", "done", "ending", "endwait", "final"}
  /\ handlers \in {"normal", "sd"}
  /\ sd \in {"idle", "write", "read", "touch", "mark"}
  /\ sdReset \in BOOLEAN /\ sdPosition \in Slots
  /\ dr \in {"no", "check", "rlock", "rtouch", "rclear", "alock", "atouch"}
  /\ drained \in 0 .. Size

WindowInit ==
  /\ Init
  /\ phase = "Idle" /\ bus = "free" /\ cancelled = FALSE
  /\ main = "loop" /\ win = "out" /\ handlers = "normal"
  /\ sd = "idle" /\ sdReset = FALSE /\ sdPosition = 0
  /\ dr = "no" /\ drained = 0

-----------------------------------------------------------------------------
(* Core 0's main loop.                                                     *)

NoHandler == pc0 = "idle" /\ sd = "idle"
Main(from, to) == NoHandler /\ main = from /\ main' = to

\* qspi_save_now from qspi_save_task; a busy bus refuses the save.
SaveStart ==
  /\ Main("loop", "save")
  /\ bus = "free" /\ bus' = "core0"
  /\ UNCHANGED <<vars, phase, cancelled, win, handlers, sdVars>>

SaveEnd ==
  /\ Main("save", "loop")
  /\ bus' = "free"
  /\ UNCHANGED <<vars, phase, cancelled, win, handlers, sdVars>>

\* The compare-exchange of qspi_bus_core0_service.
Prepare ==
  /\ Main("loop", "prep")
  /\ phase = "Requested" /\ phase' = "Preparing"
  /\ UNCHANGED <<vars, bus, cancelled, win, handlers, sdVars>>

\* Mutant: a refusal does not give the request back.
PrepareRefused_Silent ==
  /\ Main("prep", "loop")
  /\ resetPending \/ Chip # "FX3"
  /\ cancelled' = TRUE
  /\ UNCHANGED <<vars, phase, bus, win, handlers, sdVars>>

\* snes_pio_sd_begin refuses while a console reset waits, or on another chip.
PrepareRefused ==
  /\ Main("prep", "loop")
  /\ resetPending \/ Chip # "FX3"
  /\ cancelled' = TRUE /\ phase' = "Idle"
  /\ UNCHANGED <<vars, bus, win, handlers, sdVars>>

\* snes_pio_sd_begin from the line that disables interrupts: fx_sync_sd_begin
\* makes core 1 the owner, publishes, and the SD handlers are installed.
Prepared ==
  /\ Main("prep", "begun")
  /\ Chip = "FX3" /\ gate = "free"
  /\ owner' = TRUE
  /\ Publish0(fx, irqClear)
  /\ handlers' = "sd"
  /\ UNCHANGED <<fx, video, irqClear, gate, ringVars, line, core0Vars, core1Vars,
                 phase, bus, cancelled, win, sdVars>>

\* qspi_bus_core0_wait.
Activate ==
  /\ Main("begun", "wait")
  /\ phase' = "Active"
  /\ UNCHANGED <<vars, bus, cancelled, win, handlers, sdVars>>

\* The console was disconnected, or its reset line is low.
WaitCancel ==
  /\ Main("wait", "wait")
  /\ phase = "Active" /\ ~cancelled
  /\ cancelled' = TRUE
  /\ UNCHANGED <<vars, phase, bus, win, handlers, sdVars>>

\* Mutant: core 0 leaves the wait loop as soon as it has cancelled.
Leave_Cancelled ==
  /\ Main("wait", "left")
  /\ phase # "Active" \/ cancelled
  /\ handlers' = "normal"
  /\ UNCHANGED <<vars, phase, bus, cancelled, win, sdVars>>

\* core0_wait returns; snes_pio_sd_end puts the handlers back, ...
Leave ==
  /\ Main("wait", "left")
  /\ phase # "Active"
  /\ handlers' = "normal"
  /\ UNCHANGED <<vars, phase, bus, cancelled, win, sdVars>>

\* ... and core 0 is back in its main loop.
Back ==
  /\ Main("left", "loop")
  /\ phase' = "Idle"
  /\ UNCHANGED <<vars, bus, cancelled, win, handlers, sdVars>>

-----------------------------------------------------------------------------
(* Core 0's SD interrupt handlers.                                         *)

\* A register access.  A console reset that was recorded before the handlers
\* were changed keeps the SNES off the bus until its window has closed: the
\* reset line stays low for milliseconds, and the wait loop cancels on it.
SdAccess(op) ==
  /\ handlers = "sd" /\ NoHandler /\ ~resetPending
  /\ op0' = op
  /\ sd' = IF op \in Reads THEN "read" ELSE "write"
  /\ UNCHANGED <<stateVars, ringVars, pubVars, core1Vars, pc0, resetPending,
                 busVars, sdReset, sdPosition, dr, drained>>

PushSd(c) ==
  /\ commands' = [commands EXCEPT ![writeIndex] = c]
  /\ writeIndex' = NextSlot(writeIndex)

\* fx_sync_sd_cpu_write; a ring that is half full ends the window.
SdWrite ==
  /\ sd = "write" /\ sd' = "idle" /\ op0' = None
  /\ \/ video /\ UNCHANGED <<ringVars, cancelled>>
     \/ /\ ~video /\ ~RingFull
        /\ PushSd(op0)
        /\ UNCHANGED readIndex
        /\ cancelled' = (cancelled \/ RingCount + 1 >= Size \div 2)
  /\ UNCHANGED <<stateVars, pubVars, core1Vars, pc0, resetPending, phase, bus, main,
                 win, handlers, sdReset, sdPosition, dr, drained>>

\* The ring is full: the handler spins.
SdWriteFull ==
  /\ sd = "write" /\ ~video /\ RingFull
  /\ cancelled' = TRUE
  /\ UNCHANGED <<vars, phase, bus, main, win, handlers, sdVars>>

\* Mutant: the read does not wait for the gate.
SdReadLock_Ungated ==
  /\ sd = "read" /\ sd' = "touch"
  /\ gate' = "core0"
  /\ UNCHANGED <<fx, owner, video, irqClear, ringVars, pubVars, core0Vars, core1Vars,
                 busVars, sdReset, sdPosition, dr, drained>>

\* fx_sync_sd_cpu_read reads the core itself, under the gate.
SdReadLock ==
  /\ sd = "read" /\ sd' = "touch"
  /\ gate = "free" /\ gate' = "core0"
  /\ UNCHANGED <<fx, owner, video, irqClear, ringVars, pubVars, core0Vars, core1Vars,
                 busVars, sdReset, sdPosition, dr, drained>>

SdRead ==
  /\ sd = "touch" /\ sd' = "idle"
  /\ gate' = "free" /\ op0' = None
  /\ IF op0 = "read_sfrh" THEN fx' = ReadSfrHigh(fx) /\ line' = FALSE
                          ELSE UNCHANGED <<fx, line>>
  /\ UNCHANGED <<owner, video, irqClear, ringVars, runtime, access, pc0, resetPending,
                 core1Vars, busVars, sdReset, sdPosition, dr, drained>>

\* With Room, the console does not pulse reset again before core 1 took the reset
\* it asked for, some microseconds later.
ResetApart == Room => \A k \in 1 .. RingCount : Ring[k] # "Reset"

\* fx_sync_sd_reset.  Bound: two resets never wait for a full ring.
SdResetPulse ==
  /\ handlers = "sd" /\ NoHandler /\ ~sdReset /\ ResetApart
  /\ \/ ~RingFull /\ PushSd("Reset") /\ cancelled' = TRUE /\ UNCHANGED <<readIndex, sd>>
     \/ RingFull /\ sd' = "mark" /\ UNCHANGED <<ringVars, cancelled>>
  /\ UNCHANGED <<stateVars, pubVars, core0Vars, core1Vars, phase, bus, main, win,
                 handlers, sdReset, sdPosition, dr, drained>>

\* Mutant: the reset takes its place before the writes.
SdResetMark_First ==
  /\ sd = "mark" /\ sd' = "idle"
  /\ sdPosition' = readIndex /\ sdReset' = TRUE
  /\ cancelled' = TRUE
  /\ UNCHANGED <<vars, phase, bus, main, win, handlers, dr, drained>>

\* The ring had no room: remember the reset and its place among the writes.
SdResetMark ==
  /\ sd = "mark" /\ sd' = "idle"
  /\ sdPosition' = writeIndex /\ sdReset' = TRUE
  /\ cancelled' = TRUE
  /\ UNCHANGED <<vars, phase, bus, main, win, handlers, dr, drained>>

-----------------------------------------------------------------------------
(* Core 1: one exchange, from its audio or video task.                     *)

Win(from, to) == win = from /\ win' = to

BeginAcquire ==
  /\ pc1 = "top" /\ Win("out", "got")
  /\ bus = "free" /\ bus' = "core1"
  /\ cancelled' = FALSE
  /\ UNCHANGED <<vars, phase, main, handlers, sdVars>>

BeginRequest ==
  /\ Win("got", "wait")
  /\ phase' = "Requested"
  /\ UNCHANGED <<vars, bus, cancelled, main, handlers, sdVars>>

BeginActive ==
  /\ phase = "Active"
  /\ Win("wait", "xfer")
  /\ UNCHANGED <<vars, phase, bus, cancelled, main, handlers, sdVars>>

BeginRefused ==
  /\ phase = "Idle"
  /\ Win("wait", "giveup")
  /\ UNCHANGED <<vars, phase, bus, cancelled, main, handlers, sdVars>>

\* After 100 ms: withdraw the request if core 0 has not taken it ...
BeginTimeout ==
  /\ phase = "Requested" /\ phase' = "Idle"
  /\ Win("wait", "giveup")
  /\ UNCHANGED <<vars, bus, cancelled, main, handlers, sdVars>>

\* ... and only cancel the exchange if it has.
BeginLate ==
  /\ phase \in {"Preparing", "Active"} /\ ~cancelled
  /\ Win("wait", "wait")
  /\ cancelled' = TRUE
  /\ UNCHANGED <<vars, phase, bus, main, handlers, sdVars>>

BeginGiveUp ==
  /\ Win("giveup", "out")
  /\ bus' = "free"
  /\ UNCHANGED <<vars, phase, cancelled, main, handlers, sdVars>>

\* The exchange ends: done, failed, cancelled, or after its own 25 ms.
Transfer ==
  /\ Win("xfer", "done")
  /\ UNCHANGED <<vars, phase, bus, cancelled, main, handlers, sdVars>>

\* qspi_bus_audio_end.
EndRelease ==
  /\ Win("done", "ending")
  /\ bus' = "free"
  /\ UNCHANGED <<vars, phase, cancelled, main, handlers, sdVars>>

EndPhase ==
  /\ Win("ending", "endwait")
  /\ phase' = "Ending"
  /\ UNCHANGED <<vars, bus, cancelled, main, handlers, sdVars>>

\* Mutant: core 1 drains only once core 0 is back.
EndDrain_Late ==
  /\ dr = "no" /\ dr' = "check" /\ drained' = 0
  /\ phase = "Idle" /\ Win("endwait", "final")
  /\ UNCHANGED <<vars, phase, bus, cancelled, main, handlers, sd, sdReset, sdPosition>>

\* One more drain: the last one once core 0 is back.
EndDrain ==
  /\ dr = "no" /\ dr' = "check" /\ drained' = 0
  /\ Win("endwait", IF phase = "Idle" THEN "final" ELSE "endwait")
  /\ UNCHANGED <<vars, phase, bus, cancelled, main, handlers, sd, sdReset, sdPosition>>

-----------------------------------------------------------------------------
(* fx_sync_sd_drain_writes.                                                *)

Dr(from, to) == dr = from /\ dr' = to
ResetDue == sdReset /\ readIndex = sdPosition

DrainReset ==
  /\ ResetDue
  /\ Dr("check", "rlock")
  /\ UNCHANGED <<vars, busVars, sd, sdReset, sdPosition, drained>>

DrainLock ==
  /\ Dr("rlock", "rtouch") \/ Dr("alock", "atouch")
  /\ gate = "free" /\ gate' = "core1"
  /\ UNCHANGED <<fx, owner, video, irqClear, ringVars, pubVars, core0Vars, core1Vars,
                 busVars, sd, sdReset, sdPosition, drained>>

\* Apply a command to the core, publish, leave the gate.
DrainApply(c) ==
  /\ fx' = Apply(fx, c)
  /\ line' = (line /\ c # "Reset")
  /\ Publish0(fx', irqClear)
  /\ gate' = "free"
  /\ UNCHANGED <<owner, video, irqClear, ringVars, core0Vars, core1Vars,
                 busVars, sd, sdReset, sdPosition, drained>>

DrainTouch == \/ Dr("rtouch", "rclear") /\ DrainApply("Reset")
              \/ Dr("atouch", "check") /\ DrainApply(cmd1)

DrainForget ==
  /\ Dr("rclear", "check")
  /\ sdReset' = FALSE
  /\ UNCHANGED <<vars, busVars, sd, sdPosition, drained>>

DrainPop ==
  /\ ~ResetDue /\ drained < Size /\ ~RingEmpty
  /\ Dr("check", "alock")
  /\ cmd1' = commands[readIndex]
  /\ readIndex' = NextSlot(readIndex)
  /\ drained' = drained + 1
  /\ UNCHANGED <<stateVars, commands, writeIndex, pubVars, core0Vars, pc1, snap1,
                 busVars, sd, sdReset, sdPosition>>

DrainDone ==
  /\ ~ResetDue /\ (drained = Size \/ RingEmpty)
  /\ Dr("check", "no")
  /\ win' = IF win = "final" THEN "out" ELSE win
  /\ drained' = 0
  /\ UNCHANGED <<vars, phase, bus, cancelled, main, handlers, sd, sdReset, sdPosition>>

-----------------------------------------------------------------------------
(* The steps of FxSync: interrupts through the ordinary handlers, console  *)
(* resets from the main loop, and core 1 outside an exchange.              *)

\* With Room, no write that the ring has no slot for arrives while core 0 has
\* taken core 1's request (qspi_bus.cpp:107) and has not answered it (:26).
RoomToPrepare(op) ==
  Room /\ main \in {"prep", "begun"} /\ op \in CpuWrites =>
    RingCount + (IF resetPending THEN 2 ELSE 1) < Size

NormalInterrupt ==
  /\ handlers = "normal" /\ sd = "idle"
  /\ \/ \E op \in CpuWrites \cup CpuReads : RoomToPrepare(op) /\ BusAccess(op)
     \/ ResetApart /\ ConsoleReset
  /\ UNCHANGED <<busVars, sdVars>>
MainReset == main = "loop" /\ ServiceReset /\ UNCHANGED <<busVars, sdVars>>
NormalHandler == Handler0 /\ UNCHANGED <<busVars, sdVars>>
Core1 == win = "out" /\ Service1 /\ UNCHANGED <<busVars, sdVars>>
Core1Video == win = "out" /\ Video1 /\ UNCHANGED <<busVars, sdVars>>

MainStep == \/ SaveStart \/ SaveEnd \/ Prepare \/ PrepareRefused \/ Prepared
            \/ Activate \/ WaitCancel \/ Leave \/ Back
SdInterrupt == \/ \E op \in CpuWrites \cup CpuReads : RoomToPrepare(op) /\ SdAccess(op)
               \/ SdResetPulse
SdHandler == SdWrite \/ SdWriteFull \/ SdReadLock \/ SdRead \/ SdResetMark
Exchange == \/ BeginAcquire \/ BeginRequest \/ BeginActive \/ BeginRefused
            \/ BeginTimeout \/ BeginLate \/ BeginGiveUp \/ Transfer
            \/ EndRelease \/ EndPhase \/ EndDrain
Drain == DrainReset \/ DrainLock \/ DrainTouch \/ DrainForget \/ DrainPop \/ DrainDone

WindowNext == \/ NormalInterrupt \/ MainReset \/ NormalHandler \/ Core1 \/ Core1Video
              \/ MainStep \/ SdInterrupt \/ SdHandler \/ Exchange \/ Drain

WindowSpec == WindowInit /\ [][WindowNext]_allVars

-----------------------------------------------------------------------------
(* Safety.                                                                 *)

\* While core 1 drives the flash pins, core 0 executes nothing from flash: its
\* main loop is in the SRAM wait loop and only the SRAM handlers are installed,
\* no save runs, and core 1 alone holds the QSPI bus.
XipQuiet ==
  win = "xfer" => main = "wait" /\ handlers = "sd" /\ pc0 = "idle" /\ bus = "core1"

\* The FxState still has one user at a time: in a window it changes hands under
\* the gate, although core 1 owns it throughout and core 0 reads it.
Core0Touches == pc0 \in Core0Direct \/ sd = "touch"
Core1Touches == pc1 \in Core1Access \/ dr \in {"rtouch", "atouch"}
WindowExclusive == ~(Core0Touches /\ Core1Touches)

\* Writes and resets keep their order through a window, also a reset that found
\* the ring full and waits for its place among the writes.
Waiting == IF sdReset /\ dr # "rclear"
           THEN LET k == CHOOSE k \in 0 .. RingCount : SlotAfter(k) = sdPosition
                IN SX!InsertAt(Ring, k + 1, "Reset")
           ELSE Ring
WindowBacklog == IF pc1 = "apply" \/ dr \in {"alock", "atouch"} THEN <<cmd1>> \o Waiting
                 ELSE Waiting
WindowBus == INSTANCE FxCommandBus WITH backlog <- WindowBacklog
OrderedThroughWindow == WindowBus!Spec

-----------------------------------------------------------------------------
(* Liveness.                                                               *)

Ending == \/ BeginRequest \/ BeginActive \/ BeginRefused \/ BeginTimeout \/ BeginGiveUp
          \/ Transfer \/ EndRelease \/ EndPhase \/ EndDrain \/ Drain
Settling == \/ SaveEnd \/ Prepare \/ PrepareRefused \/ Prepared
            \/ Activate \/ Leave \/ Back

\* Neither core stops; core 0's main loop moves between interrupts; a task of
\* core 1 makes finitely many exchanges before core 1 services the GSU again
\* (main.cpp:64-70); and neither core is locked out of the gate for ever.
WindowFairness ==
  /\ SF_allVars(NormalHandler \/ SdHandler)
  /\ SF_allVars(Settling)
  /\ SF_allVars(Ending) /\ SF_allVars(Core1)
FairWindowSpec == WindowSpec /\ WindowFairness

\* Every bus access is served: a full ring never keeps a handler of core 0
\* waiting for a core 1 that waits for core 0 (qspi_bus.cpp:96).
AccessServed == []<>(pc0 = "idle" /\ sd = "idle")

\* Core 1 always gets out of an exchange, so that the GSU runs on.
ExchangeEnds == []<>(win = "out")
=============================================================================
