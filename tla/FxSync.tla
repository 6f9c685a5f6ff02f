------------------------------- MODULE FxSync -------------------------------
(***************************************************************************)
(* The hand-off of the SuperFX state between the two RP2350 cores          *)
(* (src/platform/rp2350/fx_sync.cpp).                                      *)
(*                                                                         *)
(* Core 0 serves the SNES bus from PIO interrupt handlers: it writes and   *)
(* reads GSU registers and GSU RAM, and resets the GSU.  Core 1 executes   *)
(* GSU instructions.  Whoever owns the FxState may touch it: core 0 while  *)
(* "owner" is FALSE, under the gate; core 1 while it is TRUE, without the  *)
(* gate.  While core 1 owns it, core 0 queues its writes in a ring and     *)
(* answers reads from published snapshots.                                 *)
(*                                                                         *)
(* Every load, store and exchange of a shared atomic that the other core   *)
(* can tell apart is a step of its own.                                    *)
(***************************************************************************)
EXTENDS Naturals, Sequences

CONSTANTS
  Size,        (* FX_SYNC_COMMAND_COUNT: slots of the ring, one stays free *)
  Chip,        (* "FX3", or "GSU" for the legacy GSU1/GSU2 profiles        *)
  StopIrq,     (* STOP raises an IRQ: legacy chips, or fx3_completion_irq  *)
  CpuWrites,   (* the register writes the SNES CPU issues                  *)
  CpuReads     (* the register reads the SNES CPU issues                   *)

WriteKinds == {"go",        \* R15 high byte: start execution
               "sfr_go",    \* SFR with the GO bit set
               "sfr_stop",  \* SFR with the GO bit clear
               "scmr_gsu",  \* SCMR giving ROM and RAM to the GSU
               "scmr_cpu",  \* SCMR giving ROM and RAM to the SNES CPU
               "parm"}      \* any register that only a stopped GSU accepts
Reads == {"read_sfrh",      \* $3031, the high SFR byte
          "read_reg"}       \* any register that the snapshots do not cover

ASSUME SizeAssumption == Size \in Nat /\ Size >= 2
ASSUME ChipAssumption == Chip \in {"FX3", "GSU"} /\ StopIrq \in BOOLEAN
ASSUME AccessAssumption == CpuWrites \subseteq WriteKinds /\ CpuReads \subseteq Reads

VARIABLES
  fx,          (* the abstracted FxState                                   *)
  owner,       (* g_core1_owns_fx                                          *)
  video,       (* g_video_owns_ram                                         *)
  irqClear,    (* g_irq_clear_pending                                      *)
  gate,        (* holder of g_state_gate                                   *)
  commands,    (* g_commands                                               *)
  writeIndex,  (* g_command_write                                          *)
  readIndex,   (* g_command_read                                           *)
  runtime,     (* g_runtime_snapshot: the RUNNING and IRQ bits             *)
  access,      (* g_access_snapshot                                        *)
  line,        (* the GSU IRQ line, as set_irq last drove it               *)
  resetPending,(* g_reset_pending of snes_pio.cpp                          *)
  pc0, op0,    (* core 0: where its handler is, and the access it serves   *)
  pc1, cmd1,   (* core 1: where it is, and the command it popped           *)
  snap1        (* core 1: the snapshot it is about to publish              *)

stateVars == <<fx, owner, video, irqClear, gate>>
ringVars  == <<commands, writeIndex, readIndex>>
pubVars   == <<runtime, access, line>>
core0Vars == <<pc0, op0, resetPending>>
core1Vars == <<pc1, cmd1, snap1>>
vars == <<stateVars, ringVars, pubVars, core0Vars, core1Vars>>

-----------------------------------------------------------------------------
(* The abstracted SuperFX core.                                            *)

\* running, irq: SFR bits.  rom, ram: SCMR gives the GSU the bus.
\* nop: the prefetch buffer still holds the NOP that reset and STOP put there.
FxStates == [running : BOOLEAN, irq : BOOLEAN, nop : BOOLEAN,
             rom : BOOLEAN, ram : BOOLEAN, parm : BOOLEAN]

ResetFx == [running |-> FALSE, irq |-> FALSE, nop |-> TRUE,
            rom |-> FALSE, ram |-> FALSE, parm |-> FALSE]

\* SuperFx::cpu_write: a running GSU accepts only SFR and SCMR.
CpuWrite(f, w) ==
  IF f.running /\ w \in {"go", "parm"} THEN f
  ELSE [f EXCEPT
          !.running = IF w \in {"go", "sfr_go"} THEN TRUE
                      ELSE IF w = "sfr_stop" THEN FALSE ELSE @,
          !.rom  = IF w = "scmr_gsu" THEN TRUE ELSE IF w = "scmr_cpu" THEN FALSE ELSE @,
          !.ram  = IF w = "scmr_gsu" THEN TRUE ELSE IF w = "scmr_cpu" THEN FALSE ELSE @,
          !.parm = IF w = "parm" THEN TRUE ELSE @]

\* SuperFx::cpu_read(0x3031): reading the high SFR byte clears the IRQ.
ReadSfrHigh(f) == [f EXCEPT !.irq = FALSE]

\* One instruction that is not STOP; the first one after a reset or a STOP
\* is the prefetched NOP.
Plain(f) == [f EXCEPT !.nop = FALSE]

\* op_stop: halts, refills the prefetch buffer with NOP, and raises the IRQ
\* unless it is disabled (or a SAVE_AND_STOP failed).
Stop(f, raise) == [f EXCEPT !.running = FALSE, !.nop = TRUE, !.irq = @ \/ raise]

Command == {"Reset"} \cup CpuWrites

Apply(f, c) == IF c = "Reset" THEN ResetFx ELSE CpuWrite(f, c)

\* fx_sync_access_state: what the SNES CPU may access.
AccessState(f) == [rom |-> Chip = "FX3" \/ ~f.running \/ ~f.rom,
                   ram |-> Chip = "FX3" \/ ~f.running \/ ~f.ram]

\* The runtime snapshot hides an IRQ whose clear is still pending.
Snapshot(f, clearing) == [running |-> f.running, irq |-> f.irq /\ ~clearing]

-----------------------------------------------------------------------------
(* The ring.                                                               *)

Slots == 0 .. Size - 1

NextSlot(i) == IF i = Size - 1 THEN 0 ELSE i + 1

RingEmpty == readIndex = writeIndex
RingFull  == NextSlot(writeIndex) = readIndex
RingCount == IF writeIndex >= readIndex THEN writeIndex - readIndex
             ELSE writeIndex + Size - readIndex

\* The slot k places after the read index, and the commands in queue order.
SlotAfter(k) == IF readIndex + k < Size THEN readIndex + k ELSE readIndex + k - Size
Ring == [k \in 1 .. RingCount |-> commands[SlotAfter(k - 1)]]

-----------------------------------------------------------------------------
None == "none"
RamWrites == {"ram_low", "ram_high"}      \* bank $70, bank $71

Core0Direct == {"w_direct", "r_direct", "rd_direct", "rd_clear", "m_direct"}
Core0Gated  == Core0Direct \cup
               {"w_gate", "w_push", "r_gate", "r_push", "r_mark",
                "rd_gate", "rd_gate2", "m_gate"}
Core0Places == Core0Gated \cup
               {"idle", "w_lock", "r_lock", "rd_lock", "rd_snap",
                "rd_arm", "rd_line", "rd_lock2", "m_lock", "m_snap", "m_land"}

Core1Access == {"clearfx", "apply", "run", "publish"}
Core1Places == Core1Access \cup {"top", "clear", "drain", "uncleared", "store", "rel", "relgate", "relstore"}

Snapshots == [running : BOOLEAN, irq : BOOLEAN]

TypeOK ==
  /\ fx \in FxStates
  /\ owner \in BOOLEAN /\ video \in BOOLEAN /\ irqClear \in BOOLEAN
  /\ gate \in {"free", "core0", "core1"}
  /\ commands \in [Slots -> Command]
  /\ writeIndex \in Slots /\ readIndex \in Slots
  /\ runtime \in Snapshots /\ snap1 \in Snapshots
  /\ access \in [rom : BOOLEAN, ram : BOOLEAN]
  /\ line \in BOOLEAN /\ resetPending \in BOOLEAN
  /\ pc0 \in Core0Places
  /\ op0 \in {None} \cup CpuWrites \cup Reads \cup RamWrites
  /\ pc1 \in Core1Places
  /\ cmd1 \in Command

Init ==
  /\ fx = ResetFx
  /\ owner = FALSE /\ video = FALSE /\ irqClear = FALSE
  /\ gate = "free"
  /\ commands = [i \in Slots |-> "Reset"]
  /\ writeIndex = 0 /\ readIndex = 0
  /\ runtime = Snapshot(ResetFx, FALSE)
  /\ access = AccessState(ResetFx)
  /\ line = FALSE /\ resetPending = FALSE
  /\ pc0 = "idle" /\ op0 = None
  /\ pc1 = "top" /\ cmd1 = "Reset"
  /\ snap1 = Snapshot(ResetFx, FALSE)

-----------------------------------------------------------------------------
(* Core 0.                                                                 *)

Go0(from, to) == pc0 = from /\ pc0' = to

\* critical_section_enter_blocking / critical_section_exit on core 0.
Enter0(from, to) == Go0(from, to) /\ gate = "free" /\ gate' = "core0"
Exit0(from, to)  == Go0(from, to) /\ gate' = "free"

\* The handler returns: the access it served is over.
Return0(from) == Exit0(from, "idle") /\ op0' = None

\* fx_sync_publish_state run by core 0, which is the only reader.
Publish0(f, clearing) ==
  /\ runtime' = Snapshot(f, clearing)
  /\ access' = AccessState(f)

\* A PIO interrupt: the SNES CPU accesses the cartridge.  A register or RAM
\* write first spins until a pending console reset has been accepted.
BusAccess(op) ==
  /\ pc0 = "idle"
  /\ op0' = op
  /\ pc0' = IF op \in Reads THEN "rd_lock"
            ELSE IF resetPending THEN "r_lock"
            ELSE IF op \in CpuWrites THEN "w_lock" ELSE "m_lock"
  /\ UNCHANGED <<stateVars, ringVars, pubVars, core1Vars, resetPending>>

\* The console pulses /RESET; the control interrupt only records it.
ConsoleReset ==
  /\ pc0 = "idle" /\ ~resetPending
  /\ resetPending' = TRUE
  /\ UNCHANGED <<stateVars, ringVars, pubVars, core1Vars, pc0, op0>>

\* snes_bus_service on core 0's main loop offers the pending reset.
ServiceReset ==
  /\ resetPending
  /\ Go0("idle", "r_lock")
  /\ UNCHANGED <<stateVars, ringVars, pubVars, core1Vars, op0, resetPending>>

WriteLock ==
  /\ Enter0("w_lock", "w_gate")
  /\ UNCHANGED <<fx, owner, video, irqClear, ringVars, pubVars, core1Vars, op0, resetPending>>

\* Full-screen video owns the GSU RAM: the write is swallowed.
WriteDropped ==
  /\ video
  /\ Return0("w_gate")
  /\ UNCHANGED <<fx, owner, video, irqClear, ringVars, pubVars, core1Vars, resetPending>>

\* Core 1 owns the state: fill the slot ...
WriteQueue ==
  /\ ~video /\ owner /\ ~RingFull
  /\ Go0("w_gate", "w_push")
  /\ commands' = [commands EXCEPT ![writeIndex] = op0]
  /\ UNCHANGED <<stateVars, writeIndex, readIndex, pubVars, core1Vars, op0, resetPending>>

\* ... then publish it.
WritePush ==
  /\ Return0("w_push")
  /\ writeIndex' = NextSlot(writeIndex)
  /\ UNCHANGED <<fx, owner, video, irqClear, commands, readIndex, pubVars, core1Vars, resetPending>>

\* The ring is full: the handler leaves the gate and spins.
WriteFull ==
  /\ ~video /\ owner /\ RingFull
  /\ Exit0("w_gate", "w_lock")
  /\ UNCHANGED <<fx, owner, video, irqClear, ringVars, pubVars, core1Vars, op0, resetPending>>

\* Mutant: the write does not look at g_core1_owns_fx.
WriteDirect_Unowned ==
  /\ ~video
  /\ Go0("w_gate", "w_direct")
  /\ UNCHANGED <<stateVars, ringVars, pubVars, core1Vars, op0, resetPending>>

WriteDirect ==
  /\ ~video /\ ~owner
  /\ Go0("w_gate", "w_direct")
  /\ UNCHANGED <<stateVars, ringVars, pubVars, core1Vars, op0, resetPending>>

\* Core 0 owns the state: apply, publish, and hand a started GSU to core 1.
WriteApply ==
  /\ Return0("w_direct")
  /\ fx' = CpuWrite(fx, op0)
  /\ Publish0(fx', irqClear)
  /\ owner' = (owner \/ fx'.running)
  /\ UNCHANGED <<video, irqClear, ringVars, line, core1Vars, resetPending>>

-----------------------------------------------------------------------------
(* fx_sync_reset, called by snes_pio_service_reset.                        *)

\* An accepted reset lets a waiting write proceed.
ResetAccepted(from) ==
  /\ gate' = "free"
  /\ pc0 = from
  /\ pc0' = IF op0 = None THEN "idle"
            ELSE IF op0 \in CpuWrites THEN "w_lock" ELSE "m_lock"
  /\ resetPending' = FALSE
  /\ UNCHANGED op0

ResetLock ==
  /\ Enter0("r_lock", "r_gate")
  /\ UNCHANGED <<fx, owner, video, irqClear, ringVars, pubVars, core1Vars, op0, resetPending>>

ResetQueue ==
  /\ owner /\ ~RingFull
  /\ Go0("r_gate", "r_push")
  /\ commands' = [commands EXCEPT ![writeIndex] = "Reset"]
  /\ UNCHANGED <<stateVars, writeIndex, readIndex, pubVars, core1Vars, op0, resetPending>>

ResetPush ==
  /\ Go0("r_push", "r_mark")
  /\ writeIndex' = NextSlot(writeIndex)
  /\ UNCHANGED <<stateVars, commands, readIndex, pubVars, core1Vars, op0, resetPending>>

\* The queued reset takes the IRQ away at once.
ResetMark ==
  /\ ResetAccepted("r_mark")
  /\ irqClear' = TRUE
  /\ line' = FALSE
  /\ UNCHANGED <<fx, owner, video, ringVars, runtime, access, core1Vars>>

\* The ring is full: a waiting write spins, the main loop tries again later.
ResetFull ==
  /\ owner /\ RingFull
  /\ Exit0("r_gate", IF op0 = None THEN "idle" ELSE "r_lock")
  /\ UNCHANGED <<fx, owner, video, irqClear, ringVars, pubVars, core1Vars, op0, resetPending>>

ResetDirect ==
  /\ ~owner
  /\ Go0("r_gate", "r_direct")
  /\ UNCHANGED <<stateVars, ringVars, pubVars, core1Vars, op0, resetPending>>

ResetApply ==
  /\ ResetAccepted("r_direct")
  /\ fx' = ResetFx
  /\ line' = FALSE
  /\ irqClear' = FALSE
  /\ Publish0(fx', FALSE)
  /\ UNCHANGED <<owner, video, ringVars, core1Vars>>

-----------------------------------------------------------------------------
(* fx_sync_cpu_read.                                                       *)

ReadLock ==
  /\ Enter0("rd_lock", "rd_gate") \/ Enter0("rd_lock2", "rd_gate2")
  /\ UNCHANGED <<fx, owner, video, irqClear, ringVars, pubVars, core1Vars, op0, resetPending>>

ReadDirect ==
  /\ ~owner
  /\ \/ Go0("rd_gate", "rd_direct")
     \/ Go0("rd_gate2", IF op0 = "read_sfrh" THEN "rd_clear" ELSE "rd_direct")
  /\ UNCHANGED <<stateVars, ringVars, pubVars, core1Vars, op0, resetPending>>

\* Mutant: the read leaves the interrupt line up.
ReadApply_LineKept ==
  /\ Return0("rd_direct")
  /\ fx' = (IF op0 = "read_sfrh" THEN ReadSfrHigh(fx) ELSE fx)
  /\ Publish0(fx', irqClear)
  /\ UNCHANGED <<owner, video, irqClear, ringVars, line, core1Vars, resetPending>>

\* Mutant: the read does not publish the state it has changed.
ReadApply_Unpublished ==
  /\ Return0("rd_direct")
  /\ IF op0 = "read_sfrh"
     THEN fx' = ReadSfrHigh(fx) /\ line' = FALSE
     ELSE UNCHANGED <<fx, line>>
  /\ UNCHANGED <<owner, video, irqClear, ringVars, runtime, access, core1Vars, resetPending>>

ReadApply ==
  /\ Return0("rd_direct")
  /\ IF op0 = "read_sfrh"
     THEN fx' = ReadSfrHigh(fx) /\ line' = FALSE
     ELSE UNCHANGED <<fx, line>>
  /\ Publish0(fx', irqClear)
  /\ UNCHANGED <<owner, video, irqClear, ringVars, core1Vars, resetPending>>

\* Core 1 owns the state: answer from the snapshot.
ReadOwned ==
  /\ owner
  /\ Exit0("rd_gate", "rd_snap")
  /\ UNCHANGED <<fx, owner, video, irqClear, ringVars, pubVars, core1Vars, op0, resetPending>>

\* Mutant: every read of the high SFR byte arms a clear.
ReadSnapshot_AlwaysArms ==
  /\ \/ op0 = "read_sfrh" /\ Go0("rd_snap", "rd_arm") /\ UNCHANGED op0
     \/ op0 = "read_reg" /\ ~runtime.running /\ Go0("rd_snap", "rd_lock2") /\ UNCHANGED op0
     \/ op0 = "read_reg" /\ Go0("rd_snap", "idle") /\ op0' = None
  /\ UNCHANGED <<stateVars, ringVars, pubVars, core1Vars, resetPending>>

\* A snapshot with the IRQ set arms a deferred clear; a stopped snapshot
\* makes an ordinary register worth one more try; otherwise the read ends
\* (R15, the low SFR byte and VCR always come from the snapshot).
ReadSnapshot ==
  /\ \/ op0 = "read_sfrh" /\ runtime.irq /\ Go0("rd_snap", "rd_arm") /\ UNCHANGED op0
     \/ op0 = "read_reg" /\ ~runtime.running /\ Go0("rd_snap", "rd_lock2") /\ UNCHANGED op0
     \/ /\ op0 = "read_sfrh" => ~runtime.irq
        /\ Go0("rd_snap", "idle") /\ op0' = None
  /\ UNCHANGED <<stateVars, ringVars, pubVars, core1Vars, resetPending>>

ReadArm ==
  /\ Go0("rd_arm", "rd_line")
  /\ irqClear' = TRUE
  /\ UNCHANGED <<fx, owner, video, gate, ringVars, pubVars, core1Vars, op0, resetPending>>

ReadLine ==
  /\ Go0("rd_line", "rd_lock2")
  /\ line' = FALSE
  /\ UNCHANGED <<stateVars, ringVars, runtime, access, core1Vars, op0, resetPending>>

\* Core 1 still owns the state: the clear stays with it (or $FF is returned).
ReadDeferred ==
  /\ owner
  /\ Return0("rd_gate2")
  /\ UNCHANGED <<fx, owner, video, irqClear, ringVars, pubVars, core1Vars, resetPending>>

\* Core 1 released the state in between: core 0 clears the IRQ itself.
ReadClear ==
  /\ Return0("rd_clear")
  /\ fx' = ReadSfrHigh(fx)
  /\ line' = FALSE
  /\ irqClear' = FALSE
  /\ Publish0(fx', FALSE)
  /\ UNCHANGED <<owner, video, ringVars, core1Vars, resetPending>>

-----------------------------------------------------------------------------
(* fx_sync_cpu_ram_write; the byte itself is not modelled.                 *)

RamLock ==
  /\ Enter0("m_lock", "m_gate")
  /\ UNCHANGED <<fx, owner, video, irqClear, ringVars, pubVars, core1Vars, op0, resetPending>>

RamGate ==
  /\ \/ op0 = "ram_high" /\ video /\ Return0("m_gate")
     \/ ~(op0 = "ram_high" /\ video) /\ owner /\ Exit0("m_gate", "m_snap") /\ UNCHANGED op0
     \/ /\ ~(op0 = "ram_high" /\ video) /\ ~owner
        /\ Go0("m_gate", "m_direct") /\ UNCHANGED <<gate, op0>>
  /\ UNCHANGED <<fx, owner, video, irqClear, ringVars, pubVars, core1Vars, resetPending>>

RamDirect ==
  /\ Return0("m_direct")
  /\ UNCHANGED <<fx, owner, video, irqClear, ringVars, pubVars, core1Vars, resetPending>>

RamSnapshot ==
  /\ \/ access.ram /\ Go0("m_snap", "m_land") /\ UNCHANGED op0
     \/ ~access.ram /\ Go0("m_snap", "idle") /\ op0' = None
  /\ UNCHANGED <<stateVars, ringVars, pubVars, core1Vars, resetPending>>

\* The backend write, outside the gate.
RamLand ==
  /\ Go0("m_land", "idle")
  /\ op0' = None
  /\ UNCHANGED <<stateVars, ringVars, pubVars, core1Vars, resetPending>>

-----------------------------------------------------------------------------
(* Core 1: fx_sync_core1_service, and the video requests between services. *)

Go1(from, to) == pc1 = from /\ pc1' = to

Service ==
  /\ owner
  /\ Go1("top", "clear")
  /\ UNCHANGED <<stateVars, ringVars, pubVars, core0Vars, cmd1, snap1>>

ExchangeClear ==
  /\ Go1("clear", IF irqClear THEN "clearfx" ELSE "drain")
  /\ irqClear' = FALSE
  /\ UNCHANGED <<fx, owner, video, gate, ringVars, pubVars, core0Vars, cmd1, snap1>>

ClearIrq ==
  /\ Go1("clearfx", "drain")
  /\ fx' = ReadSfrHigh(fx)
  /\ line' = FALSE
  /\ UNCHANGED <<owner, video, irqClear, gate, ringVars, runtime, access, core0Vars, cmd1, snap1>>

\* Mutant: the read index stays.
Pop_Kept ==
  /\ ~RingEmpty
  /\ Go1("drain", "apply")
  /\ cmd1' = commands[readIndex]
  /\ UNCHANGED <<stateVars, ringVars, pubVars, core0Vars, snap1>>

Pop ==
  /\ ~RingEmpty
  /\ Go1("drain", "apply")
  /\ cmd1' = commands[readIndex]
  /\ readIndex' = NextSlot(readIndex)
  /\ UNCHANGED <<stateVars, commands, writeIndex, pubVars, core0Vars, snap1>>

ApplyCommand ==
  /\ Go1("apply", IF cmd1 = "Reset" THEN "uncleared" ELSE "drain")
  /\ fx' = Apply(fx, cmd1)
  /\ line' = (line /\ cmd1 # "Reset")
  /\ UNCHANGED <<owner, video, irqClear, gate, ringVars, runtime, access, core0Vars, cmd1, snap1>>

\* A reset has also cleared the IRQ that a read asked to clear.
ForgetClear ==
  /\ Go1("uncleared", "drain")
  /\ irqClear' = FALSE
  /\ UNCHANGED <<fx, owner, video, gate, ringVars, pubVars, core0Vars, cmd1, snap1>>

Drained ==
  /\ RingEmpty
  /\ Go1("drain", IF fx.running THEN "run" ELSE "publish")
  /\ UNCHANGED <<stateVars, ringVars, pubVars, core0Vars, cmd1, snap1>>

Execute ==
  /\ Go1("run", "publish")
  /\ fx' = Plain(fx)
  /\ UNCHANGED <<owner, video, irqClear, gate, ringVars, pubVars, core0Vars, cmd1, snap1>>

ExecuteStop ==
  /\ Go1("run", "publish")
  /\ ~fx.nop
  /\ \E raise \in BOOLEAN :
        /\ raise => StopIrq
        /\ fx' = Stop(fx, raise)
        /\ line' = (line \/ raise)
  /\ UNCHANGED <<owner, video, irqClear, gate, ringVars, runtime, access, core0Vars, cmd1, snap1>>

\* fx_sync_publish_state on core 1: the access word first ...
PublishAccess ==
  /\ Go1("publish", "store")
  /\ snap1' = Snapshot(fx, irqClear)
  /\ access' = AccessState(fx)
  /\ UNCHANGED <<stateVars, ringVars, runtime, line, core0Vars, cmd1>>

\* ... the runtime word last.  A running GSU keeps the state.
PublishRuntime ==
  /\ Go1("store", IF fx.running THEN "top" ELSE "rel")
  /\ runtime' = snap1
  /\ UNCHANGED <<stateVars, ringVars, access, line, core0Vars, cmd1, snap1>>

ReleaseLock ==
  /\ Go1("rel", "relgate")
  /\ gate = "free" /\ gate' = "core1"
  /\ UNCHANGED <<fx, owner, video, irqClear, ringVars, pubVars, core0Vars, cmd1, snap1>>

ReleaseKeep ==
  /\ Go1("relgate", "top")
  /\ ~RingEmpty \/ irqClear
  /\ gate' = "free"
  /\ UNCHANGED <<fx, owner, video, irqClear, ringVars, pubVars, core0Vars, cmd1, snap1>>

\* Mutants: the state is given up without a look at the ring and at the
\* deferred clear, or without a look at the clear.
ReleaseDecide_Unchecked ==
  /\ Go1("relgate", "relstore")
  /\ UNCHANGED <<stateVars, ringVars, pubVars, core0Vars, cmd1, snap1>>

ReleaseDecide_ClearIgnored ==
  /\ Go1("relgate", "relstore")
  /\ RingEmpty
  /\ UNCHANGED <<stateVars, ringVars, pubVars, core0Vars, cmd1, snap1>>

ReleaseDecide ==
  /\ Go1("relgate", "relstore")
  /\ RingEmpty /\ ~irqClear
  /\ UNCHANGED <<stateVars, ringVars, pubVars, core0Vars, cmd1, snap1>>

ReleaseStore ==
  /\ Go1("relstore", "top")
  /\ owner' = FALSE
  /\ gate' = "free"
  /\ UNCHANGED <<fx, video, irqClear, ringVars, pubVars, core0Vars, cmd1, snap1>>

\* Mutant: video does not look at the owner and the ring.
VideoAcquire_Stopped ==
  /\ pc1 = "top" /\ gate = "free"
  /\ Chip = "FX3" /\ ~fx.running /\ ~video
  /\ video' = TRUE
  /\ UNCHANGED <<fx, owner, irqClear, gate, ringVars, pubVars, core0Vars, core1Vars>>

\* fx_sync_video_acquire: only from a stopped GSU that nobody is handing over.
VideoAcquire ==
  /\ pc1 = "top" /\ gate = "free"
  /\ Chip = "FX3" /\ ~fx.running /\ ~owner /\ ~video /\ RingEmpty
  /\ video' = TRUE
  /\ UNCHANGED <<fx, owner, irqClear, gate, ringVars, pubVars, core0Vars, core1Vars>>

VideoRelease ==
  /\ pc1 = "top" /\ video
  /\ video' = FALSE
  /\ UNCHANGED <<fx, owner, irqClear, gate, ringVars, pubVars, core0Vars, core1Vars>>

-----------------------------------------------------------------------------
Bus == \/ \E op \in CpuWrites \cup CpuReads \cup RamWrites : BusAccess(op)
       \/ ConsoleReset \/ ServiceReset

Handler0 ==
  \/ WriteLock \/ WriteDropped \/ WriteQueue \/ WritePush \/ WriteFull
  \/ WriteDirect \/ WriteApply
  \/ ResetLock \/ ResetQueue \/ ResetPush \/ ResetMark \/ ResetFull
  \/ ResetDirect \/ ResetApply
  \/ ReadLock \/ ReadDirect \/ ReadApply \/ ReadOwned \/ ReadSnapshot
  \/ ReadArm \/ ReadLine \/ ReadDeferred \/ ReadClear
  \/ RamLock \/ RamGate \/ RamDirect \/ RamSnapshot \/ RamLand

Service1 ==
  \/ Service \/ ExchangeClear \/ ClearIrq \/ Pop \/ ApplyCommand \/ ForgetClear
  \/ Drained \/ Execute \/ ExecuteStop \/ PublishAccess \/ PublishRuntime
  \/ ReleaseLock \/ ReleaseKeep \/ ReleaseDecide \/ ReleaseStore

Video1 == VideoAcquire \/ VideoRelease

Next == Bus \/ Handler0 \/ Service1 \/ Video1

Spec == Init /\ [][Next]_vars

-----------------------------------------------------------------------------
(* Safety.                                                                 *)

\* The two cores never touch the FxState at the same time: core 0 only while
\* it holds the gate and core 1 does not own the state, core 1 only as owner.
FxStateExclusive == ~(pc0 \in Core0Direct /\ pc1 \in Core1Access)

\* "The gate closes the ownership handoff race" (fx_sync.cpp:220): once core 1
\* has given the state up, no queued write or reset, no running GSU and no
\* deferred IRQ clear is left behind for a core 1 that will not look at them.
NothingStranded ==
  ~owner => /\ RingEmpty
            /\ ~fx.running
            /\ irqClear => pc0 \in {"rd_line", "rd_lock2", "rd_gate2", "rd_clear"}

\* Full-screen video owns the GSU RAM only while the GSU is stopped, and no
\* register write can be on its way to start it.
VideoExclusive ==
  video => /\ ~fx.running
           /\ \A k \in 1 .. RingCount : Ring[k] = "Reset"
           /\ pc1 = "apply" => cmd1 = "Reset"

\* Once core 1 has given the state up, what the next bus access would read
\* from the snapshots, and what the read path takes for ROM ownership, is the
\* state itself.
SnapshotsSettled ==
  ~owner /\ gate = "free" => /\ runtime = Snapshot(fx, FALSE)
                            /\ access = AccessState(fx)

\* The ring refines the bus as the SNES CPU sees it: register writes and
\* resets take effect one at a time, in bus order, and one that takes effect
\* at once never overtakes one that is queued.
Backlog == IF pc1 = "apply" THEN <<cmd1>> \o Ring ELSE Ring
Bus_ == INSTANCE FxCommandBus WITH backlog <- Backlog
OrderedCommands == Bus_!Spec

-----------------------------------------------------------------------------
(* The inductive invariant behind the properties above.                    *)

WritePlaces == {"w_lock", "w_gate", "w_push", "w_direct"}
ResetPlaces == {"r_lock", "r_gate", "r_push", "r_mark", "r_direct"}
RamPlaces   == {"m_lock", "m_gate", "m_direct", "m_snap", "m_land"}
ClearPlaces == {"rd_arm", "rd_line", "rd_clear"}      \* only for $3031

\* Each handler serves an access of its own kind.
OpPlaced ==
  /\ pc0 = "idle" => op0 = None
  /\ pc0 \in WritePlaces => op0 \in CpuWrites
  /\ pc0 \in RamPlaces => op0 \in RamWrites
  /\ pc0 \in ResetPlaces => op0 \notin Reads
  /\ pc0 \in ClearPlaces => op0 = "read_sfrh"

\* Slot i holds a command that core 1 has not taken.
Queued(i) == IF readIndex <= writeIndex
             THEN readIndex <= i /\ i < writeIndex
             ELSE readIndex <= i \/ i < writeIndex

Releasing == {"rel", "relgate", "relstore"}

\* Who holds the gate, by where the two cores are.
GateHeld ==
  /\ gate = "core0" <=> pc0 \in Core0Gated
  /\ gate = "core1" <=> pc1 \in {"relgate", "relstore"}

\* Who owns the FxState.  The last two parts say what the gate guarantees: from
\* the moment core 1 has looked (relstore), nothing can be queued before it
\* gives the state up, and a read that arms a clear after that look still
\* finishes it by itself.
Handover ==
  /\ pc1 # "top" => owner
  /\ pc0 \in Core0Direct => ~owner
  /\ pc0 \in {"w_push", "r_push", "r_mark"} => owner
  /\ pc1 \in Releasing => ~fx.running
  /\ pc1 = "relstore" => RingEmpty
  /\ ~owner => RingEmpty /\ ~fx.running
  /\ irqClear /\ (pc1 = "relstore" \/ ~owner) =>
        op0 = "read_sfrh" /\ pc0 \in {"rd_line", "rd_lock2", "rd_gate2", "rd_clear"}

\* A snapshot of the state as it is now; it may hide an IRQ only for a clear
\* that is still pending.
Current(s) == s = Snapshot(fx, FALSE) \/ (irqClear /\ s = Snapshot(fx, TRUE))

\* Core 1 gives up only a state that it has published whole.
Published ==
  /\ pc1 = "store" => access = AccessState(fx) /\ Current(snap1)
  /\ pc1 \in Releasing => access = AccessState(fx) /\ Current(runtime)
  /\ pc1 = "relstore" => runtime = Snapshot(fx, FALSE)
  /\ ~owner => access = AccessState(fx) /\ runtime = Snapshot(fx, FALSE)

\* While video owns the RAM every command on its way is a reset.
ResetsOnly ==
  /\ video => /\ ~fx.running
              /\ pc0 \notin {"w_push", "w_direct"}
              /\ pc1 = "apply" => cmd1 = "Reset"
              /\ \A i \in Slots : Queued(i) => commands[i] = "Reset"
  /\ pc0 = "r_push" => commands[writeIndex] = "Reset" /\ ~RingFull
  /\ pc0 = "w_push" => ~RingFull

IInv == TypeOK /\ OpPlaced /\ GateHeld /\ Handover /\ ResetsOnly /\ Published

-----------------------------------------------------------------------------
(* Liveness.                                                               *)

\* Neither core stops, and neither is locked out of the gate for ever: the
\* gate is held for a few instructions, with interrupts off.
Fairness == SF_vars(Handler0) /\ SF_vars(Service1)
FairSpec == Spec /\ Fairness

\* A bus access is always served, also when the ring is full and its handler
\* spins: core 1 keeps making room (FIXME at fx_sync.cpp:132); and the oldest
\* queued command is always taken, however many follow it.
HandlerReturns == (pc0 # "idle") ~> (pc0 = "idle")
CommandsAdvance == \A i \in Slots : (readIndex = i /\ ~RingEmpty) ~> (readIndex # i)
AccessesFinish == HandlerReturns /\ CommandsAdvance

\* A deferred IRQ clear is always carried out, provided that the drain loop of
\* core 1 ends.  It has no bound of its own (fx_sync.cpp:197); it ends because
\* the SNES issues at most one register write per instruction of a few MHz,
\* which core 1 applies at 150 MHz.
DrainEnds == []<>(pc1 \notin {"drain", "apply", "uncleared"})
ClearHonoured == DrainEnds => (irqClear ~> ~irqClear)
=============================================================================
