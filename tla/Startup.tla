------------------------------- MODULE Startup --------------------------------
(***************************************************************************)
(* The tasks of the ESP32 firmware and the event bits they wait for.       *)
(*                                                                         *)
(* app_main creates the tasks.  i386_task builds the PC, publishes it in   *)
(* globals.pc, copies the ROM images out of flash and runs the guest;      *)
(* vga_task shows the logo and later the guest's screen; i2s_task plays    *)
(* the boot music and later mixes the guest's sound.  A failed assertion   *)
(* or an abort() panics, and the panic handler restarts the chip.          *)
(***************************************************************************)
EXTENDS Naturals

CONSTANTS
  MmuMaps,     \* flash mappings the MMU has room for
  CanReset,    \* BOOLEAN: the guest may ask for a reset of the machine
  CanFail      \* BOOLEAN: the steps that may fail do fail

ASSUME StartupAssumption ==
  MmuMaps \in Nat /\ CanReset \in BOOLEAN /\ CanFail \in BOOLEAN

VARIABLES
  at,       \* where each task stands
  ev,       \* the bits of global_event_group
  pc,       \* globals.pc points to a PC
  maps,     \* mappings made by partition_mmap_copy and never given back
  seen,     \* pc->boot_sector_seen
  reset     \* pc->reset_request

vars == <<at, ev, pc, maps, seen, reset>>

Events == {"PC_READY", "SPLASH_DONE", "AUDIO_DONE", "LOGO_READY", "BOOT_SECTOR"}
Tasks == {"app", "i386", "i2s", "vga"}
AppPlaces == {"start", "config", "create_i386", "create_vga", "done", "panic"}
I386Places == {"none", "logo", "parse", "load_bios", "copy_bios", "load_vga_bios",
               "copy_vga_bios", "ready", "loop", "step", "signal", "turn", "gone"}
I2sPlaces == {"none", "logo", "music", "silence", "mix"}
VgaPlaces == {"none", "logo", "splash", "boot", "delay", "step"}
Places == AppPlaces \cup I386Places \cup I2sPlaces \cup VgaPlaces

\* The tasks before app_main runs.
AtBoot == [t \in Tasks |-> IF t = "app" THEN "start" ELSE "none"]

\* Task t goes on from one place to the next, unless the chip has panicked.
Move(t, from, to) ==
  /\ at["app"] # "panic"
  /\ at[t] = from
  /\ at' = [at EXCEPT ![t] = to]

Panic == at' = [at EXCEPT !["app"] = "panic"] /\ UNCHANGED <<ev, pc, maps, seen, reset>>

\* xEventGroupSetBits, and the condition xEventGroupWaitBits waits for.
SetBit(b) == ev' = ev \cup {b}
Bit(b) == b \in ev

-------------------------------------------------------------------------------
(* app_main *)

\* The resources are mapped; i2s_main creates i2s_task.
AppI2s ==
  /\ at["app"] = "start"
  /\ at' = [at EXCEPT !["app"] = "config", !["i2s"] = "logo"]
  /\ UNCHANGED <<ev, pc, maps, seen, reset>>

\* PSRAM is there and a configuration was found, or an assertion fails.
AppConfig == Move("app", "config", "create_i386") /\ UNCHANGED <<ev, pc, maps, seen, reset>>
AppFails == CanFail /\ at["app"] = "config" /\ Panic

\* i386_task may run on the other core before vga_task exists.
AppI386 ==
  /\ at["app"] = "create_i386"
  /\ at' = [at EXCEPT !["app"] = "create_vga", !["i386"] = "logo"]
  /\ UNCHANGED <<ev, pc, maps, seen, reset>>

AppVga ==
  /\ at["app"] = "create_vga"
  /\ at' = [at EXCEPT !["app"] = "done", !["vga"] = "logo"]
  /\ UNCHANGED <<ev, pc, maps, seen, reset>>

\* The panic handler restarts the chip.
Reboot ==
  /\ at["app"] = "panic"
  /\ at' = AtBoot
  /\ ev' = {} /\ pc' = FALSE /\ maps' = 0 /\ seen' = FALSE /\ reset' = FALSE

-------------------------------------------------------------------------------
(* i386_task *)

\* pc_main is entered once the logo is drawn.
I386Start ==
  /\ Bit("LOGO_READY") /\ Move("i386", "logo", "parse")
  /\ UNCHANGED <<ev, pc, maps, seen, reset>>

\* A configuration that does not parse ends the task; nobody is told.
I386BadConfig ==
  /\ CanFail /\ Move("i386", "parse", "gone")
  /\ UNCHANGED <<ev, pc, maps, seen, reset>>

\* console_init and pc_new abort for want of memory, or build the PC, which is
\* published before its ROMs are loaded.
I386NoMemory == CanFail /\ at["app"] # "panic" /\ at["i386"] = "parse" /\ Panic

\* Mutant: the PC is called ready when it is published.
I386PublishReady ==
  /\ Move("i386", "parse", "load_bios")
  /\ pc' = TRUE
  /\ SetBit("PC_READY")
  /\ UNCHANGED <<maps, seen, reset>>

I386Publish ==
  /\ Move("i386", "parse", "load_bios")
  /\ pc' = TRUE
  /\ UNCHANGED <<ev, maps, seen, reset>>

\* Mutant: a mapping that fails is not noticed.
MapRomAnyway(from, to) ==
  /\ Move("i386", from, to)
  /\ maps' = maps + 1
  /\ UNCHANGED <<ev, pc, seen, reset>>

\* partition_mmap_copy: a mapping that is kept, then the copy.  load_rom aborts
\* when the mapping fails.
MapRom(from, to) ==
  /\ maps < MmuMaps /\ Move("i386", from, to)
  /\ maps' = maps + 1
  /\ UNCHANGED <<ev, pc, seen, reset>>

I386MapBios == MapRom("load_bios", "copy_bios")
I386CopyBios ==
  /\ Move("i386", "copy_bios", "load_vga_bios")
  /\ UNCHANGED <<ev, pc, maps, seen, reset>>
I386MapVgaBios == MapRom("load_vga_bios", "copy_vga_bios")

I386MapFails ==
  /\ at["app"] # "panic" /\ at["i386"] \in {"load_bios", "load_vga_bios"}
  /\ maps = MmuMaps \/ CanFail
  /\ Panic

\* load_bios_and_reset returns to pc_main at boot, to pc_step later.
I386Loaded ==
  /\ Move("i386", "copy_vga_bios", IF Bit("PC_READY") THEN "step" ELSE "ready")
  /\ UNCHANGED <<ev, pc, maps, seen, reset>>

I386Ready ==
  /\ Move("i386", "ready", "loop")
  /\ SetBit("PC_READY")
  /\ UNCHANGED <<pc, maps, seen, reset>>

\* pc_step begins with the reset that was asked for ...
I386Reset ==
  /\ reset /\ Move("i386", "loop", "load_bios")
  /\ reset' = FALSE
  /\ UNCHANGED <<ev, pc, maps, seen>>

\* ... and runs the guest, which may print the boot message or ask for a reset.
I386Step ==
  /\ ~reset /\ Move("i386", "loop", "step")
  /\ UNCHANGED <<ev, pc, maps, seen, reset>>
I386Guest ==
  /\ Move("i386", "step", "signal")
  /\ seen' = TRUE \/ UNCHANGED seen
  /\ (CanReset /\ reset' = TRUE) \/ UNCHANGED reset
  /\ UNCHANGED <<ev, pc, maps>>

\* Mutant: the display is not told.
I386SignalNever == Move("i386", "signal", "turn") /\ UNCHANGED <<ev, pc, maps, seen, reset>>

\* Mutant: the display is told before the guest has booted.
I386SignalSoon ==
  /\ Move("i386", "signal", "turn")
  /\ SetBit("BOOT_SECTOR")
  /\ UNCHANGED <<pc, maps, seen, reset>>

\* Once the guest has booted, vga_task is told.
I386Signal ==
  /\ Move("i386", "signal", "turn")
  /\ IF seen THEN SetBit("BOOT_SECTOR") ELSE UNCHANGED ev
  /\ UNCHANGED <<pc, maps, seen, reset>>

\* Round again, or out of the loop when the guest has asked for power-off.
I386Turn ==
  /\ \E next \in {"loop", "gone"} : Move("i386", "turn", next)
  /\ UNCHANGED <<ev, pc, maps, seen, reset>>

-------------------------------------------------------------------------------
(* i2s_task *)

I2sLogo ==
  /\ Bit("LOGO_READY") /\ Move("i2s", "logo", "music")
  /\ UNCHANGED <<ev, pc, maps, seen, reset>>

I2sMusic ==
  /\ Move("i2s", "music", "silence")
  /\ SetBit("AUDIO_DONE")
  /\ UNCHANGED <<pc, maps, seen, reset>>

\* The task's loops: a buffer of silence for as long as the PC is not ready ...
I2sSilence == ~Bit("PC_READY") /\ Move("i2s", "silence", "silence") /\ UNCHANGED vars
I2sMixed == Move("i2s", "mix", "mix") /\ UNCHANGED vars

\* ... and then a buffer from mixer_callback(globals.pc), for ever.
I2sMix ==
  /\ Bit("PC_READY") /\ Move("i2s", "silence", "mix")
  /\ UNCHANGED <<ev, pc, maps, seen, reset>>

-------------------------------------------------------------------------------
(* vga_task *)

\* Mutant: the logo waits for the PC.
VgaLogoLate ==
  /\ Bit("PC_READY") /\ Move("vga", "logo", "splash")
  /\ SetBit("LOGO_READY")
  /\ UNCHANGED <<pc, maps, seen, reset>>

\* The panel is up; the others go on whether or not the logo could be drawn.
VgaLogo ==
  /\ Move("vga", "logo", "splash")
  /\ SetBit("LOGO_READY")
  /\ UNCHANGED <<pc, maps, seen, reset>>

\* A panel that does not answer fails an ESP_ERROR_CHECK.
VgaFails == CanFail /\ at["app"] # "panic" /\ at["vga"] = "logo" /\ Panic

VgaSplash ==
  /\ Move("vga", "splash", "boot")
  /\ SetBit("SPLASH_DONE")
  /\ UNCHANGED <<pc, maps, seen, reset>>

VgaBoot ==
  /\ Bit("BOOT_SECTOR") /\ Move("vga", "boot", "delay")
  /\ UNCHANGED <<ev, pc, maps, seen, reset>>

\* pc_vga_step(globals.pc), then vTaskDelay.
VgaStep == Move("vga", "delay", "step") /\ UNCHANGED <<ev, pc, maps, seen, reset>>
VgaStepped == Move("vga", "step", "delay") /\ UNCHANGED <<ev, pc, maps, seen, reset>>

-------------------------------------------------------------------------------

Init ==
  /\ at = AtBoot
  /\ ev = {} /\ pc = FALSE /\ maps = 0 /\ seen = FALSE /\ reset = FALSE

App == AppI2s \/ AppConfig \/ AppI386 \/ AppVga
I386 == \/ I386Start \/ I386Publish \/ I386MapBios \/ I386CopyBios \/ I386MapVgaBios
        \/ I386Loaded \/ I386Ready \/ I386Reset \/ I386Step \/ I386Guest \/ I386Signal
        \/ I386Turn
I2s == I2sLogo \/ I2sMusic \/ I2sSilence \/ I2sMix \/ I2sMixed
Vga == VgaLogo \/ VgaSplash \/ VgaBoot \/ VgaStep \/ VgaStepped
Fails == AppFails \/ I386BadConfig \/ I386NoMemory \/ I386MapFails \/ VgaFails

Next == App \/ I386 \/ I2s \/ Vga \/ Fails \/ Reboot

\* Each task runs on: no task that is ready waits for ever, since the tasks of
\* core 0 share a priority and i386_task yields to its core's idle task only.
Fairness == WF_vars(App) /\ WF_vars(I386) /\ WF_vars(I2s) /\ WF_vars(Vga)

Spec == Init /\ [][Next]_vars /\ Fairness

-------------------------------------------------------------------------------
(* Properties *)

TypeOK ==
  /\ at \in [Tasks -> Places]
  /\ at["app"] \in AppPlaces /\ at["i386"] \in I386Places
  /\ at["i2s"] \in I2sPlaces /\ at["vga"] \in VgaPlaces
  /\ ev \in SUBSET Events
  /\ pc \in BOOLEAN /\ seen \in BOOLEAN /\ reset \in BOOLEAN
  /\ maps \in 0 .. MmuMaps

Copying == at["i386"] \in {"copy_bios", "copy_vga_bios"}
Drawing == at["vga"] = "step"

\* The tasks on core 0 take the PC from globals.pc without a check: by the time
\* one of them does, i386_task has published it and loaded both ROMs once.
PcPublished ==
  at["i2s"] = "mix" \/ at["vga"] \in {"delay", "step"} =>
    /\ pc /\ maps >= 2
    /\ Copying => maps > 2

\* esp_main.c: partition_mmap_copy must not run concurrently with pc_vga_step.
NoCopyWhileDrawing == ~(Copying /\ Drawing)

\* The bits are set in the order the tasks rely on, each by its own task.
BitsInOrder ==
  /\ Bit("PC_READY") => Bit("LOGO_READY")
  /\ Bit("BOOT_SECTOR") => Bit("PC_READY") /\ seen

\* What every task may rely on when the event group lets it go on: its types, the
\* PC with its ROMs, and the order of the bits.
TasksSound == TypeOK /\ PcPublished /\ BitsInOrder

\* A guest that boots is shown: pc_main tells vga_task before it leaves its loop.
BootShown == seen ~> (Drawing \/ at["app"] = "panic")

\* The tasks do not wait for each other in a circle: the guest gets to run, or
\* its configuration is bad, or a step fails and the chip restarts.
StartsUp == at["app"] = "start" ~> (at["i386"] \in {"step", "gone"} \/ at["app"] = "panic")

===============================================================================
