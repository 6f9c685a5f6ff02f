------------------------------ MODULE QspiSave ------------------------------
(***************************************************************************)
(* Who saves SRAM, and when (src/platform/rp2350/qspi_save.cpp): core 1    *)
(* for SAVE_AND_STOP, core 0 when the console resets or goes away.  Both   *)
(* share the flash chip with the SD card's windows (qspi_bus.cpp, abstract *)
(* here, in detail in SdWindow) and with the ROM installer                 *)
(* (qspi_rom.cpp).  A save that is allowed to run parks the other core for *)
(* as long as the flash is being written.  What the journal does with a    *)
(* snapshot is the atomic cell of DurableSave.                             *)
(***************************************************************************)
CONSTANTS
  Contents,    (* the contents of SRAM, as model values                    *)
  Nothing      (* what an empty journal restores                           *)

ASSUME ContentsAssumption == Contents # {} /\ Nothing \notin Contents

VARIABLES
  ram,         (* g_ram                                                    *)
  stored,      (* what the journal would restore                           *)
  enabled, haveSave, savedCrc, ok,          (* g_enabled, g_have_save, ... *)
  lastUsb, lastReset,                       (* g_last_usb, g_last_reset    *)
  owner,       (* who holds g_owner of qspi_bus.cpp                        *)
  phase,       (* g_audio_phase, without Preparing                         *)
  flashing,    (* the core inside flash_safe_execute's callback            *)
  detected, resetLow,          (* the console: its presence, its reset pin *)
  present,     (* g_console_present                                        *)
  held,        (* core 0 holds SNES_O_RESET_N low and the PIO is paused    *)
  c0, usb0, job,               (* core 0's place, usb in qspi_save_task,   *)
                               (* and what it has the flash for            *)
  c1, guest,   (* core 1's place; the GSU after its last STOP, or running  *)
  since0,      (* history: contents of SRAM since core 0 saw the edge      *)
  since1       (* history: contents of SRAM since SAVE_AND_STOP            *)

journal == <<stored, haveSave, savedCrc>>
edges == <<lastUsb, lastReset>>
console == <<detected, resetLow>>
core0 == <<c0, usb0, job>>
core1 == <<c1, guest>>
vars == <<ram, journal, enabled, ok, edges, owner, phase, flashing, console,
          present, held, core0, core1, since0, since1>>

Cores == {"core0", "core1"}

TypeOK ==
  /\ ram \in Contents /\ stored \in Contents \union {Nothing} /\ savedCrc \in Contents
  /\ enabled \in BOOLEAN /\ haveSave \in BOOLEAN /\ ok \in BOOLEAN
  /\ lastUsb \in BOOLEAN /\ lastReset \in BOOLEAN /\ usb0 \in BOOLEAN
  /\ detected \in BOOLEAN /\ resetLow \in BOOLEAN
  /\ present \in BOOLEAN /\ held \in BOOLEAN
  /\ owner \in Cores \union {"free", "sd"}
  /\ phase \in {"Idle", "Requested", "Active", "Ending"}
  /\ flashing \in Cores \union {"none"}
  /\ c0 \in {"service", "window", "bus", "task", "acquire", "lock", "flash", "release", "finish", "loader"}
  /\ job \in {"save", "program"}
  /\ c1 \in {"loop", "ask", "open", "end", "acquire", "lock", "flash", "release"}
  /\ guest \in {"running", "saving", "saved", "failed", "halted"}
  /\ since0 \subseteq Contents /\ since1 \subseteq Contents

\* qspi_save_init: SRAM holds what the journal restores, or zeros.
Init ==
  /\ ram \in Contents
  /\ stored \in {ram, Nothing} /\ enabled \in BOOLEAN
  /\ haveSave = (enabled /\ stored # Nothing) /\ savedCrc = ram
  /\ ok = TRUE
  /\ detected \in BOOLEAN /\ resetLow = FALSE /\ present = detected
  /\ lastUsb = ~detected /\ lastReset = FALSE
  /\ owner = "free" /\ phase = "Idle" /\ flashing = "none"
  /\ held = FALSE
  /\ c0 = "service" /\ usb0 = FALSE /\ job = "save"
  /\ c1 = "loop" /\ guest = "halted"
  /\ since0 = {} /\ since1 = {}

UsbMode == ~present /\ ~detected

\* A core runs while the other one is not writing the flash, and it is not
\* waiting for it to be parked.
Runs0(at) == c0 = at /\ flashing # "core1"
Runs1(at) == c1 = at /\ flashing # "core0"

-----------------------------------------------------------------------------
(* SRAM and the console.                                                   *)

StoreRam(p) ==
  /\ ram' = p /\ since0' = since0 \union {p} /\ since1' = since1 \union {p}

\* A PIO handler on core 0 stores a byte for the console.
CpuStore(p) ==
  /\ present /\ detected /\ ~resetLow /\ ~held /\ flashing = "none"
  /\ StoreRam(p)
  /\ UNCHANGED <<journal, enabled, ok, edges, owner, phase, flashing, console, present,
                 held, core0, core1>>

GuestStore(p) ==
  /\ Runs1("loop") /\ guest = "running"
  /\ StoreRam(p)
  /\ UNCHANGED <<journal, enabled, ok, edges, owner, phase, flashing, console, present,
                 held, core0, core1>>

Console ==
  /\ \/ detected' = ~detected /\ resetLow' = FALSE
     \/ detected /\ resetLow' = ~resetLow /\ UNCHANGED detected
  /\ UNCHANGED <<ram, journal, enabled, ok, edges, owner, phase, flashing, present,
                 held, core0, core1, since0, since1>>

\* The console's GO command reaches core 1 between two services.
Go ==
  /\ Runs1("loop") /\ guest # "running" /\ present /\ ~held
  /\ guest' = "running"
  /\ UNCHANGED <<ram, journal, enabled, ok, edges, owner, phase, flashing, console, present,
                 held, core0, c1, since0, since1>>

\* The reset of the console, or of a cartridge without one, reaches core 1.
ResetGuest ==
  /\ Runs1("loop") /\ guest # "halted" /\ (~present \/ resetLow)
  /\ guest' = "halted"
  /\ UNCHANGED <<ram, journal, enabled, ok, edges, owner, phase, flashing, console, present,
                 held, core0, c1, since0, since1>>

-----------------------------------------------------------------------------
(* flash_safe_execute around save_snapshot or program_sector.              *)

\* Mutant: a failed append is remembered as a save.
SaveSnapshot_CrcFirst ==
  \/ /\ haveSave /\ ram = savedCrc
     /\ UNCHANGED <<journal, ok>>
  \/ /\ ~haveSave \/ ram # savedCrc
     /\ ok' = TRUE /\ haveSave' = TRUE
     /\ stored' = ram /\ savedCrc' = ram
  \/ /\ ~haveSave \/ ram # savedCrc
     /\ ok' = FALSE /\ savedCrc' = ram
     /\ UNCHANGED <<stored, haveSave>>

\* The append succeeds and replaces the stored snapshot, or fails; a snapshot
\* with the CRC of the last save is not written.
SaveSnapshot ==
  \/ /\ haveSave /\ ram = savedCrc
     /\ UNCHANGED <<journal, ok>>
  \/ /\ ~haveSave \/ ram # savedCrc
     /\ ok' = TRUE /\ haveSave' = TRUE
     /\ stored' = ram /\ savedCrc' = ram
  \/ /\ ~haveSave \/ ram # savedCrc
     /\ ok' = FALSE
     /\ UNCHANGED journal

-----------------------------------------------------------------------------
(* Core 0: the loop of main.                                               *)

Unchanged0 == UNCHANGED <<ram, enabled, console, core1, since1>>

\* qspi_bus_core0_service: opens the window that core 1 asked for, or refuses
\* it; and the way back from it.
BusService ==
  /\ Runs0("service")
  /\ IF phase # "Requested" THEN c0' = "bus" /\ UNCHANGED phase
     ELSE \/ phase' = "Active" /\ c0' = "window"
          \/ phase' = "Idle" /\ c0' = "bus"
  /\ Unchanged0
  /\ UNCHANGED <<journal, ok, edges, owner, flashing, present, held, usb0, job, since0>>

WindowEnds ==
  /\ Runs0("window") /\ phase = "Ending"
  /\ phase' = "Idle" /\ c0' = "bus"
  /\ Unchanged0
  /\ UNCHANGED <<journal, ok, edges, owner, flashing, present, held, usb0, job, since0>>

\* snes_bus_service follows the console's presence.
FollowPresence ==
  /\ Runs0("bus")
  /\ present' = detected /\ c0' = "task"
  /\ Unchanged0
  /\ UNCHANGED <<journal, ok, edges, owner, phase, flashing, held, usb0, job, since0>>

\* qspi_save_task up to qspi_save_now.
SaveTask ==
  LET reset == ~UsbMode /\ resetLow
      requested == (~lastUsb /\ UsbMode) \/ (~lastReset /\ reset)
  IN  /\ Runs0("task")
      /\ lastUsb' = (IF enabled THEN UsbMode ELSE lastUsb)
      /\ lastReset' = (IF enabled THEN reset ELSE lastReset)
      /\ IF enabled /\ requested
         THEN /\ usb0' = UsbMode /\ held' = ~UsbMode
              /\ since0' = {ram}
              /\ c0' = "acquire" /\ job' = "save"
         ELSE c0' = "loader" /\ UNCHANGED <<usb0, held, job, since0>>
      /\ Unchanged0
      /\ UNCHANGED <<journal, ok, owner, phase, flashing, present>>

\* usb_rom_loader_task: the installer programs a sector of the FX ROM, or
\* finishes an installation and calls qspi_save_set_enabled.  Bound: receiving
\* a whole image outlasts the second that a SAVE_AND_STOP begun before the
\* console went away can take; set_enabled does not wait for it.
Loader ==
  /\ Runs0("loader")
  /\ \/ /\ c0' = "service"
        /\ UNCHANGED <<enabled, ok, edges, job>>
     \/ /\ UsbMode
        /\ c0' = "acquire" /\ job' = "program"
        /\ UNCHANGED <<enabled, ok, edges>>
     \/ /\ UsbMode /\ guest # "saving"
        /\ enabled' \in BOOLEAN
        /\ lastUsb' = TRUE /\ lastReset' = FALSE /\ ok' = TRUE
        /\ c0' = "service"
        /\ UNCHANGED job
  /\ UNCHANGED <<ram, journal, owner, phase, flashing, console, present, held, usb0,
                 core1, since0, since1>>

\* A refused save is over: its result is lost and ok stays as it was.
Acquire0 ==
  /\ Runs0("acquire")
  /\ IF owner = "free"
     THEN /\ owner' = "core0" /\ ok' = (IF job = "save" THEN TRUE ELSE ok)
          /\ c0' = "lock"
     ELSE /\ c0' = "finish"
          /\ UNCHANGED <<owner, ok>>
  /\ Unchanged0
  /\ UNCHANGED <<journal, edges, phase, flashing, present, held, usb0, job, since0>>

\* The other core is parked, or does not answer within the second.
Lock0 ==
  /\ Runs0("lock")
  /\ \/ flashing' = "core0" /\ c0' = "flash" /\ UNCHANGED ok
     \/ /\ c0' = "release" /\ ok' = (IF job = "save" THEN FALSE ELSE ok)
        /\ UNCHANGED flashing
  /\ Unchanged0
  /\ UNCHANGED <<journal, edges, owner, phase, present, held, usb0, job, since0>>

Flash0 ==
  /\ Runs0("flash")
  /\ IF job = "save" THEN SaveSnapshot ELSE UNCHANGED <<journal, ok>>
  /\ flashing' = "none" /\ c0' = "release"
  /\ Unchanged0
  /\ UNCHANGED <<edges, owner, phase, present, held, usb0, job, since0>>

Release0 ==
  /\ Runs0("release")
  /\ owner' = "free" /\ c0' = "finish"
  /\ Unchanged0
  /\ UNCHANGED <<journal, ok, edges, phase, flashing, present, held, usb0, job, since0>>

\* Mutant: only a successful save lets the console go.
Finish0_OnSuccess ==
  /\ Runs0("finish")
  /\ c0' = (IF job = "save" THEN "loader" ELSE "service")
  /\ held' = (IF job = "save" /\ ~usb0 /\ ok THEN FALSE ELSE held)
  /\ Unchanged0
  /\ UNCHANGED <<journal, ok, edges, owner, phase, flashing, present, usb0, job, since0>>

\* The end of qspi_save_task, or of the installer's sector.
Finish0 ==
  /\ Runs0("finish")
  /\ c0' = (IF job = "save" THEN "loader" ELSE "service")
  /\ held' = (IF job = "save" /\ ~usb0 THEN FALSE ELSE held)
  /\ Unchanged0
  /\ UNCHANGED <<journal, ok, edges, owner, phase, flashing, present, usb0, job, since0>>

-----------------------------------------------------------------------------
(* Core 1: op_stop's save, and the exchanges with the SD card.             *)

Unchanged1 == UNCHANGED <<ram, enabled, edges, console, present, held, core0, since0>>

\* A disabled save is a success that writes nothing.
SaveAndStop ==
  /\ Runs1("loop") /\ guest = "running"
  /\ IF enabled
     THEN guest' = "saving" /\ c1' = "acquire" /\ since1' = {ram}
     ELSE guest' = "halted" /\ c1' = "loop" /\ since1' = {}
  /\ Unchanged1
  /\ UNCHANGED <<journal, ok, owner, phase, flashing>>

Acquire1 ==
  /\ Runs1("acquire")
  /\ IF owner = "free"
     THEN owner' = "core1" /\ ok' = TRUE /\ c1' = "lock" /\ UNCHANGED guest
     ELSE c1' = "loop" /\ guest' = "failed" /\ UNCHANGED <<owner, ok>>
  /\ Unchanged1
  /\ UNCHANGED <<journal, phase, flashing, since1>>

\* Mutant: a core 0 that does not answer goes unnoticed.
Lock1_TimeoutIgnored ==
  /\ Runs1("lock")
  /\ \/ flashing' = "core1" /\ c1' = "flash"
     \/ c1' = "release" /\ UNCHANGED flashing
  /\ Unchanged1
  /\ UNCHANGED <<journal, ok, owner, phase, guest, since1>>

Lock1 ==
  /\ Runs1("lock")
  /\ \/ flashing' = "core1" /\ c1' = "flash" /\ UNCHANGED ok
     \/ ok' = FALSE /\ c1' = "release" /\ UNCHANGED flashing
  /\ Unchanged1
  /\ UNCHANGED <<journal, owner, phase, guest, since1>>

Flash1 ==
  /\ Runs1("flash")
  /\ SaveSnapshot
  /\ flashing' = "none" /\ c1' = "release"
  /\ Unchanged1
  /\ UNCHANGED <<owner, phase, guest, since1>>

\* qspi_save_now returns; R15 becomes zero if the save is durable.
Release1 ==
  /\ Runs1("release")
  /\ owner' = "free" /\ c1' = "loop"
  /\ guest' = (IF ok THEN "saved" ELSE "failed")
  /\ Unchanged1
  /\ UNCHANGED <<journal, ok, phase, flashing, since1>>

\* Mutant: an exchange takes the flash chip from a save.
SdAsk_Unowned ==
  /\ Runs1("loop")
  /\ owner' = "sd" /\ phase' = "Requested" /\ c1' = "ask"
  /\ Unchanged1
  /\ UNCHANGED <<journal, ok, flashing, guest, since1>>

\* qspi_bus_audio_begin: asks core 0 for a window, waits for its answer and
\* gives up after 100 ms.
SdAsk ==
  /\ Runs1("loop") /\ owner = "free"
  /\ owner' = "sd" /\ phase' = "Requested" /\ c1' = "ask"
  /\ Unchanged1
  /\ UNCHANGED <<journal, ok, flashing, guest, since1>>

SdAnswered ==
  /\ Runs1("ask")
  /\ \/ phase = "Active" /\ c1' = "open" /\ UNCHANGED <<owner, phase>>
     \/ phase = "Idle" /\ c1' = "loop" /\ owner' = "free" /\ UNCHANGED phase
     \/ phase = "Requested" /\ c1' = "loop" /\ owner' = "free" /\ phase' = "Idle"
  /\ Unchanged1
  /\ UNCHANGED <<journal, ok, flashing, guest, since1>>

\* qspi_bus_audio_end.
SdEnd ==
  /\ Runs1("open")
  /\ owner' = "free" /\ phase' = "Ending" /\ c1' = "end"
  /\ Unchanged1
  /\ UNCHANGED <<journal, ok, flashing, guest, since1>>

SdEnded ==
  /\ Runs1("end") /\ phase = "Idle"
  /\ c1' = "loop"
  /\ Unchanged1
  /\ UNCHANGED <<journal, ok, owner, phase, flashing, guest, since1>>

-----------------------------------------------------------------------------
Core0Step == \/ BusService \/ WindowEnds \/ FollowPresence \/ SaveTask \/ Loader
             \/ Acquire0 \/ Lock0 \/ Flash0 \/ Release0 \/ Finish0
Core1Step == \/ Acquire1 \/ Lock1 \/ Flash1 \/ Release1
             \/ SdAnswered \/ SdEnd \/ SdEnded

Next == \/ Core0Step \/ Core1Step
        \/ SaveAndStop \/ SdAsk \/ Console \/ Go \/ ResetGuest
        \/ \E p \in Contents : CpuStore(p) \/ GuestStore(p)

Spec == Init /\ [][Next]_vars

\* Both cores keep running between the times the other one parks them; nothing
\* makes the guest save or read the card.
FairSpec == Spec /\ SF_vars(Core0Step) /\ SF_vars(Core1Step)

-----------------------------------------------------------------------------
(* Properties.                                                             *)

\* While a core writes the flash, it owns the chip and core 0 is not serving
\* the console in a window of the SD card (qspi_save.cpp:70-75).
FlashExclusive == flashing # "none" => owner = flashing /\ phase # "Active" /\ c0 # "window"

\* "A snapshot with the CRC of the last save" is the one in the journal, so
\* that skipping it (qspi_save.cpp:80) loses nothing, even after failed saves.
SkipIsSafe == haveSave => stored = savedCrc

\* A save that has run and left g_ok set has stored what SRAM held at or after
\* the request; in particular a SAVE_AND_STOP that publishes its completion.
OkMeansDurable ==
  /\ c0 = "release" /\ job = "save" /\ ok => stored \in since0
  /\ guest = "saved" => stored \in since1

\* A reset that core 0 holds for a save ends: core 0 waits neither for a core 1
\* that waits for it nor for a card's window.  And SAVE_AND_STOP returns, saved
\* or failed.
HeldReleased == held ~> ~held
SaveReturns == guest = "saving" ~> guest # "saving"
SavesEnd == HeldReleased /\ SaveReturns
=============================================================================
