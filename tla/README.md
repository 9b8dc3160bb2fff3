# A formal model of tiny386hen

tiny386hen is a 386 PC emulator for an ESP32-S3 board: an interpreter with a JIT
for the Xtensa LX7, IDE disks and CD-ROM, VGA on an SPI panel, sound, USB input, and the
FreeRTOS tasks that tie them to the board. This directory holds TLA+ modules translated
from its source, TLC configurations that check them on small instances, and theorems
checked by TLAPS. `PROJECT.json` lists components, runs, mutants, the source lines each
definition stands for, the hazards and the theorems.

To check a run: `tlc -config JitCache.cfg MCJitCache`. To check proofs:
`tlapm JitCacheProofs.tla`. No run takes more than four minutes with
two workers, and with the coverage report on.

Paths below are relative to the repository's `src/` directory.

## 1. The system

### How the parts fit

`app_main` (esp_main.c) creates three long-running tasks: `i386_task` alone on core 1 runs
the PC; `vga_task` and `i2s_task` on core 0 draw its screen and mix its sound through
the pointer `globals.pc`; `global_event_group` orders their start. A fourth,
`debugcon_task`, prints what the guest writes to the debug port. Inside `i386_task`,
`pc_step` runs the CPU for some instructions and lets the devices catch up. The CPU calls
devices through `pc_io_read`/`pc_io_write` and the string variants, devices raise
interrupts through callbacks, the IDE channel reads and writes a block device, and a block
device is a file on the SD card (behind the sector cache) or a flash partition.

### Components

| Component | State | Operations | What is hard | What makes it correct |
|---|---|---|---|---|
| JIT block cache (jit_lx7.c) | block slots, link of each block, pool mark, SMC page bitmap, NOJIT and hot tables, cooldown | try, translate, invalidate range, invalidate all | invalidation must be exact while links, evictions and pool flushes move blocks | a block that may run is the code in memory; a link never dangles |
| Stores of the core (i386.c) | guest RAM, TLB | store8/16/32, REP INS, CR0/CR3 loads, CS loads | every write to RAM must reach the cache | no write past the hooks |
| JIT decoder and emitter (jit_x86.h, jit_lx7.c) | the block under construction | scan, drop dead flags, emit | a block cut short after flags were dropped | host code does what the guest code does |
| i386 core (i386.c) | registers, lazy flags, segments, TLB, fetch cache | step, exceptions, task switch | faults in the middle of an instruction; flags computed later; forged frames; interrupts between any two instructions | an instruction happens whole or faults; results, flags, levels and returns are the architecture's |
| IDE channel (ide.c) | task file, status, data phase (`data_index`, `data_end`, `end_transfer_func`), selected drive, irq | port reads and writes, data accesses, media callbacks | any access at any time; a reset in a transfer; counts modulo 256 | buffer bounds, status tells the truth, a driver can finish |
| ATAPI CD-ROM (ide.c) | packet phase, sense, media change | packet commands | byte count limits, tray and media change | the same, and sense reaches the guest |
| Block devices (ide.c) | file, snapshot tables, CISO index | read, write, change | errors that nobody looks at | what was written is read |
| PC board (pc.c) | port map, reset request, boot matcher | `pc_step`, I/O dispatch, reset | reset while other tasks use the PC | order of reset, load and drawing |
| PIC, PIT, CMOS, DMA, i8042, sound, network, PCI | (a git submodule, not in the tree) | | | |
| Start-up and tasks (esp_main.c, i2s.c, lcd_ili9341.c) | event bits, `globals.pc` | the tasks' main loops | four tasks on two cores, each may fail | nobody uses what is not ready; no circular wait |
| SD sector cache (sdmmc_crc_wrap.c) | sets of ways, ages, mutex | read, write | the mutex is released around the card | the cache never disagrees with the card |
| Flash files (flash_stdio.c) | position | read, write, seek | erase blocks larger than sectors; power cuts | damage is confined to one block |
| Debug console (debugcon.c) | ring, head, tail | write a character; print | two cores, no lock, both move `tail` | nothing unwritten is printed; nothing is lost without overflow |
| Display driver and redraw | strip buffer | draw | DMA still reading | (timing) |
| USB input (usb_input.c) | event queue, device being opened, previous keys | plug, pull, open, reports | a device pulled while it is opened; a full queue; shared `prev_keys` | every device is opened; the guest holds the keys of the last report |
| VGA (vga.c; lightvga.c is not compiled) | register file, latches, planes, display interface, DAC | port and memory accesses, render | latch and write-mode logic; registers written in any order; ports with a hidden position | pixels get the colours written; the screen drawn is the one asked for |
| Audio, splash, storage, Wi-Fi, time stamps, JIT self-test, OPL2 | | | | see `PROJECT.json` |

`PROJECT.json` gives each component's status (modelled, partly, not modelled) with the
reason, and lists the hazards at the line where each bites, with the properties that
cover it or a note why none does yet.

## 2. The modules

### JitCache: the translated-block cache

`JitCache` models `jit_try_execute`, `jit_translate`, the invalidation functions and
the hooks in the core. A slot of `blocks` is a `JITBlock` with its status, address range, place
in the pool and link; the host code is represented by the guest bytes it was compiled
from (`code`), and a direct call to a successor by the successor's code at the time the
call was emitted (`lcode`). This is what makes staleness visible: running a block is running
`code`, whatever memory holds by then. `pages`, `nojit`, `hot`, `pool`, `cool` are the
other fields of `JITState`; `code16`, `pg` and `mem` belong to the core.

`Store` and `StoreSplit` are store8/16/32 inside a page and across two; `InsString` is the
fast path of REP INS; `MovCr0`, `MovCr3`, `SetSegCS` the flushes; `Reset` the reload of ROM images.
`TryCooldown`, `TryNojit`, `TryCold` and `TryTranslate` are the exits of
`jit_try_execute` in the order of the code (a hit changes nothing in this state);
`TryTranslate` has the three ends of `jit_translate`. The decoder is a parameter: the
length of the instruction an opcode byte starts, and whether it ends the block.
`Insns` is the scan as a recursive function. The variable `raw` is a history: bytes
written past the hooks, so that `Coherent` can say exactly what the hooks achieve. `orphans` is another: the
slots of blocks whose successor was overwritten by the mark of an address outside RAM, before the eviction that would have
dropped them (jit_lx7.c:3261). `LinkSound` is about the links of all other blocks; `LinksCleared` is the claim of the
repository's own document, without the exception.

The guest may fetch outside RAM (`FetchTop`). The host code pool exists: `jit_acquire_pool` returns none that is not mapped for
execution, so the exit of `jit_translate` for a pool without `pool_exec` cannot be taken and is left out.

`MCJitCache` gives the parameters small values and holds `ScanLoop`, the loop of
`jit_invalidate_range` as it is written, against which the closed form `InvalidateRange` is checked.

### JitBlock and JitDecode: one block, from guest bytes to a run of host code

`JitDecode` is `decode_x86_insn`: every opcode it knows, with every addressing form, gives
an action or is refused, and `Admit` is the scan's decision to take it. The reference is how
the interpreter fetches the same bytes (operand size, ModRM and SIB, length of the
immediate). `JitBlock` follows decoded actions through `jit_translate`: `Scan` collects,
`DeadFlags` drops the flags nobody reads, `Emit` appends the host code of one action and
stops when the buffer of 256 bytes may not hold the next, `RoomForExit`, `Exit`, `GiveUp`
and `Finish` are the ends. Host code is a list of symbolic Xtensa instructions with their sizes;
`Execute` enters it as `jit_try_execute` does, runs it (`HostStep`), and the registers, memory
and flags are compared with what the interpreter makes of the emitted actions. `Junk` is what a host
register holds that nobody loaded, or that a windowed call left in a caller-saved one.
Words have four bits and bytes one; addresses keep their base, index and scale.

The constant `Level` and the variable `inline` stand for the build's gates. The actions are those the gates can let
through at all: INC, DEC and shifts by CL are decoded but enabled by none. The default build
(make/esp-ili9341/main/CMakeLists.txt:70-84) sets level 3 with jumps, linking and fused
compares, and leaves memory helpers, inline memory and PUSH imm8 off; the instance has both kinds of memory
access on, so it covers more than the default build.

### CpuFlags, Mmu, CpuString, CpuStack, Protect: the interpreter

The core is modelled in five modules, as its state splits: each keeps what its
instructions share and leaves the rest out.

- `CpuFlags`: the ALU instructions, multiplication, division, shifts, rotations, bit tests and
  decimal adjustments, with `cpu->cc` as they leave it and `get_CF` .. `get_OF` as they are derived later. `eager`
  are the flags of a processor that computes them at once, `defined` those the architecture defines. Every sequence of
  instructions runs, so that flags kept from one before the last are read too. `product` is a history of the reference, not of the code:
  "split" once CF was written alone after a MUL or IMUL, the one case in which OF is not claimed (section 3).
- `Mmu`: page walk, TLB refill, accesses over a page border, the fetch page, CR0, CR3, INVLPG and changes of
  ring. The guest edits its tables and flushes when it takes a right away, not when it grants one.
- `CpuString`: STOS, LODS, SCAS, MOVS, CMPS, INS, OUTS with their prefixes, on the fast path, which moves what fits in a
  page, and on the slow one; pages may be missing and are mapped by the fault handler, after which the instruction goes on. Segments
  begin at a page or inside one (`Bases`).
- `CpuStack`: operands, PUSH and POP of everything, CALL, RET, ENTER, LEAVE, LOOP, far transfers and IRET in
  real mode. An instruction is a plan of fallible steps, with the machine as each step's failure leaves it.
- `Protect`: segment loads, far transfers, gates, interrupts, task switches, virtual-8086 mode, returns, SYSENTER,
  POPF, STI, CLI, HLT and the interrupt shadow. A handler's stack is memory the guest may forge (`ForgeFrame`). A fault ends
  the step; `Deliver` is what `cpui386_step` does with it, and may fail in turn. Returns run at any depth; under a stack's bottom
  there are zeros. `ret` is a history of a return through the frame an entry made: what it should have restored, what it did, and
  the exception if it was refused.

### IdeChannel, IdeDriver, BlockDisk: a channel, its driver, and what it promises

`IdeChannel` models one channel with up to two hard disks: each register write, command,
status read, device control and data access is an action, and an action has several
outcomes where the medium may fail. `drives[d]` holds the fields of `IDEState`, among them `func`, which
stands for `end_transfer_func`, and `index`/`end`, the data phase. Block devices answer
from inside the call in this build, so a callback is part of the handler's action.
`NMod` and `LbaMod` are the widths of the count and the address; CHS addresses are
reduced to sector numbers and the contents of IDENTIFY to one value.

`IdeDriver` composes the channel with a guest driver: the procedure of an
interrupt-driven driver, with word, long and string accesses in any mix, which may give
up in the middle and reset the channel. The driver is not in the repository; it is marked
external. `BlockDisk` is what such a guest expects, a disk with one request at a time whose
writes reach the medium front to back. The refinement mapping reads the progress of a write off
the address register of the drive, so `ImplementsDisk` also says that this register is
right at every moment.

### Atapi: the CD-ROM

`Atapi` models the packet interface: `Command` (PACKET, IDENTIFY PACKET DEVICE, DEVICE RESET), `PacketWrite`, the packet commands
(`ide_atapi_cmd`), and `ide_atapi_cmd_reply_end`, which cuts a reply into bursts of the guest's byte count and refills the buffer sector by
sector. `SoftReset` and `ide_change_cd` may come at any time. Bytes are known by where they come from, so that
`want`, a history of what the guest asked for, can be compared with what it `got`. Both backends are there: an image in a
file, which gives any bytes past its end, and one that fails. A sector number is an int, as in the code, so 0xffffffff is -1, the
code's mark for "no sector" (`NoLba`); the data port may then pass the end of `io_buffer`, and what lies there is not modelled (`At`). `polite` is whether the guest has kept to
the protocol since the command.

### Startup: the tasks of the firmware

`Startup` has one place per task between two calls that other tasks can see. `at` is where each
task stands, `ev` the event group, `pc` whether `globals.pc` is set, `maps` the flash mappings
`partition_mmap_copy` keeps, `seen` and `reset` two flags of the PC. The failing steps
(an assertion, out of memory, no mapping left, a panel that does not answer) panic or
end the task, and a panic restarts the chip. `CanReset` and `CanFail` say whether the guest may reset the
machine and whether these steps do fail.

### SdCache: the SD sector cache

`SdCache` models the wrapped read and write of `sdmmc_crc_wrap.c` from the mutex's point
of view: a read locks, copies hits, gives the mutex up to read the missing run from the card, locks again and inserts what it read, sector by sector;
a write writes the card first and updates the cache under the mutex afterwards, again sector by sector. Ages wrap.
The card may fail, and a failed write leaves any part of its data. The history `may` is
what a sector may hold given the writes so far.

### FlashFile: a disk in a flash partition

`FlashFile` models `__wrap_fread`, `__wrap_fwrite` and `__wrap_fseeko` as `BlockDeviceFile` uses
them. A request may be for any sector, as nobody compares it with the size of the disk: `OffT` is the conversion to `off_t` with the header
of the image in front (`Start`), and `SeekTo` refuses what lies outside the partition and leaves the position, which the caller does not notice. A write
goes block by block through read-and-merge, erase and program; each may fail, and the
power may go between them. `old` is the partition when the request was made.

### DebugconRing: the debug console

`DebugconRing` models the writer and the printing task one shared access at a time. A
character is its number, so `Faithful` can compare the output with the input. Memory is sequentially
consistent: the indices are published with release and read with acquire, so a
character is visible with the head that covers it; a weaker order of the
remaining accesses is not modelled.

### VgaMemory, VgaModes, VgaPorts: the VGA

`VgaMemory` is what the guest's accesses to the window at 0xa0000 and to the linear frame buffer do to the four planes: memory maps
and bank, chain-4, odd/even and planar addressing, four write modes, logic functions, masks and latch, two read modes, and the
word, long and string paths of pc.c and vga.c. A byte is the set of its one bits, a register of planes a set of planes.
`VgaModes` is the Bochs display interface: `WriteEnable`, `WriteGeometry` and `WriteBank` with the rounding of `vbe_fixup_regs` and the registers
`vbe_update_vgaregs` sets, and `Drawn`, the geometry `vga_graphic_refresh` takes from them; the CRT controller and the planar registers may
be written in between. `VgaPorts` has the DAC with its shared sub-index and the attribute controller with its flip-flop. `Heard` says which reads of a status port
reach the VGA: pc.c passes on 0x3c0 to 0x3df, so the port of mono emulation (0x3ba) never does.

### PcPorts: the board's text ports

`PcPorts` has the debug port 0x402, where the board recognises the line that announces a boot, and port 0x8900, where a word ends the
emulation. Characters are positions in these texts. A matcher that has matched completely stands on the terminator and may then read behind its
text: `Finds` and `Ends` leave open what it finds there.

### UsbInput: keyboards and mice

`UsbInput` composes `usb_setup`, `usb_lib_task`, the HID driver's task and `usb_event_task`. `Plug` announces a device through the queue,
`Receive`, `Open` and `StartReports` are the calls of `hid_device_event`, each of which aborts when the library refuses; `Pull` may come between
them, and the handle may be used again. `KeyReport` and `MouseReport` are the report callbacks. The USB host
library is external: what is assumed of it is said at the head of the module.

### Modules that put several parts in one run

`MCCpuCore`, `MCDisks`, `MCFirmware` and `MCJitBlock` hold several parts: the variable `unit` (in `MCJitBlock`, `phase`) chooses
one for a behaviour, and the variables of the others stay as they are. The parts do not interact there; a
merged run is the union of their state graphs, and its properties are named for what they say about each part:

| Property | Conjunction of |
|---|---|
| `TranslationExact` | host code does what the interpreter does with the emitted actions: registers, exits, flags (`JitBlock!BlockExact`); decoded actions are the bytes' own, inside the page (`JitDecode!DecodeExact`, `InsidePage`) |
| `ChannelSound` | types, data port inside `io_buffer`, DRQ served, write blocks sized, BUSY only in reset (`IdeChannel`) |
| `CacheSound` | types, `Coherent`, `CachedOnce`, `ReadsFresh` (`SdCache`) |
| `FlashSound` | types, `DamageConfined`, `WrittenExactly` (`FlashFile`) |
| `InStep` | types, registers and data phase of the drive as the driver's own count has them, no unexpected status, `NoSpuriousInterrupt` (`IdeDriver`) |
| `TransferExact` | bytes, bursts and phases (`Atapi`) |
| `TasksSound` | types, `PcPublished`, `BitsInOrder` (`Startup`) |
| `RingSound` | types, `Faithful`, `OnlyWritten` (`DebugconRing`) |
| `PortsExact` | `PaletteExact`, `PairExact` (`VgaPorts`) |
| `BoardSound` | `LineSeen`, `WordEnds` (`PcPorts`) |
| `DevicesSound` | `Announced`, `SurvivesPlugging`, `MouseExact` (`UsbInput`) |
| `VideoExact` | pixels of byte accesses; wide accesses as bytes (`VgaMemory`) |
| `TranslationSound` | `GrantSound`, `DirtyTracked`, `FetchSound`: no right the tables do not give, dirty bits, fetch page (`Mmu`) |
| `FaultsReported` | `FaultOnce`, `CrossingReport`: faults taken once, at the first page that denies the access, with a true error code (`Mmu`) |
| `InstructionsExact` | flags, results, branches after comparisons, decimal adjustments (`CpuFlags`); memory, registers and port data of a string instruction against an element-by-element reference (`CpuString`) |
| `StackSound`, `StackPrecise` | balance and widths; a failed instruction changes nothing (`CpuStack`) |
| `Confined` | `RingEntry`, `FlagsGuard`, `NoInnerData`: entry points, IOPL and IF, inner segments (`Protect`) |

The others stand alone: `KeysExact` (the guest holds the keys of the last report), `ModeShown` (the screen drawn is the one asked for),
`CodeSane` (CS is present code of the current level), `ReturnsExactly` (a return restores what the entry saved),
`ShadowHolds` (no interrupt in the shadow of STI or MOV SS), and those of the JIT's cache.

## 3. The runs

| Run | What it asks | Instance |
|---|---|---|
| `jit_cache` | coherence, links, bitmap, pool, order of the scan | 3 bytes of RAM in 2 pages, two addresses outside, 3 slots, pool of 3 blocks, two-byte jumps, hot threshold 2, cooldown 1 |
| `jit_rep_ins` | *violated:* strict coherence | 4 bytes in 2 pages, 2 slots, pool of 2 blocks, one-byte instructions and bytes that do not decode |
| `jit_link` | *violated:* links are cleared whenever their target is replaced | the same, with two addresses outside RAM |
| `jit_block` | block against interpreter; emitter inside its buffer; decoder against fetch | up to 3 actions of 45, 2 entry states, inline or helper; all opcodes, 3 registers, 2 scales, 5, 6 or 8 bytes to the page's end |
| `jit_block_kept` | *violated:* registers the block does not write keep their value | as `jit_block` |
| `disks` | channel under any guest; sector cache; flash file | one disk of one sector, blocks of up to 2 sectors of 4 bytes, count modulo 3; 2 callers, 3 sectors in one set of 2 ways, ages modulo 2; 2 erase blocks of 2 sectors, a header of 1, an `off_t` of 10 values, requests of up to 2 sectors for one on the disk and two beyond it |
| `ide_driver` | refinement, registers and interrupts in step, completion | two disks of 3 sectors of 2 bytes, 2 requests, 1 reset, count modulo 3 |
| `atapi` | bytes, bursts, phases, media change, progress | 2 sectors of 4 bytes, buffer of 6, limits 1, 3 and 6, 21 packets, 2 commands, 2 discs |
| `firmware` | start-up, debug ring, text ports, USB, VGA | 5 mappings; ring of 3, indices modulo 24; texts of 3 letters; 2 handles, queue of 1, reports of 2 keys, 5 events; 4 pixels per byte, window of 8 bytes, 2 accesses from 29 register files; 4 register writes; 7 port accesses |
| `startup_reset` | *violated:* no ROM copy while drawing | guest resets allowed |
| `cpu_core` | translation, flags, strings, stack | 2 pages, 1 TLB entry, 2 frames; words of 8 bits and bytes of 4, 3 instructions; pages of 4 bytes, 2 segment bases, counts to 4; 16-bit values of 8 values, 3 instructions |
| `cpu_protect` | levels, returns, shadow, confinement | 3 rings and virtual-8086 mode, gates of each kind, 2 tasks, stacks of depth 14, 4 instructions in steps of 2 |

Why the bounds are enough to be of interest:

- *JIT cache.* Two slots give one link, an eviction of its target and of its source, and reuse of a slot; three
  give a chain if the code ever made one, which the order of the scan depends on. Two pages
  give blocks that touch a page's end, stores that straddle pages, and a bitmap in which a
  block needs its own bit. A pool of three blocks is flushed by the fourth. Of the two addresses outside RAM each shares its slot with
  one inside. `RawMax` keeps at most one byte stale at a time; without it the instances grow and the properties look
  at each byte separately. The hash's multiplier and the sizes of the tables are free in the proofs.
- *JIT block.* Three actions give a writer of flags, one in between and a reader, a compare fused with its jump and one that is not, and a
  full buffer after any of them. Registers 0 and 7 are one that survives a windowed call and one that does not.
- *IDE.* A count modulo 3 makes the register 0 that stands for the largest count appear, and with up to two
  sectors per block a multiple transfer has a short last block. Sectors of 4 bytes let word,
  long and string accesses end at and in front of a sector's end. Two requests are what it takes for one to
  see what another left behind; the driver stops after them, so that run does not check for deadlock.
- *ATAPI.* Limits 1, 3 and 6 are below a word, odd, and longer than a sector; two commands leave state behind for each other. READs begin on the disc, behind it,
  at sector 0xffffffff and one in front of it.
- *SD cache, flash.* One set of two ways for three sectors forces replacement; ages wrap with every second use. The two callers have sectors of
  their own, see below. Behind a header of one sector, a request of two crosses the border of a block. A sector
  behind the disk is refused by the seek; one far behind it wraps onto the header.
- *Ring.* Eight characters overflow a ring of three more than once; the indices start at 20 of 24 so that they wrap.
- *Core.* One TLB entry for two pages is refilled all the time; three flag instructions are a writer, one that keeps some flags, and a reader;
  strings of four elements over pages of four bytes cross a border in both directions, and indices wrap at eight, at a page's border or, with the
  second base, inside a page; the stack pointer 17 has a half above the 16-bit stack pointer's eight values, which must stay. Four instructions in
  protected mode enter, nest and return: from level 3, inside the kernel, out of conforming code, and from virtual-8086 mode, each through the very frame the entry made.
- *VGA.* A window of eight bytes with video memory of the same size has every byte of two planar words; two accesses are a read that fills the latch and
  the write that uses it. The 29 register files have every write mode with every function that differs, partial planes and banks.
  Four writes of display registers are two before and two after enabling.
- *USB.* A queue of one is full when a second device comes; two keys in a report change places; five events are enough to plug, pull and replug a handle and to
  send from two keyboards.

`MaxCount`, `Asked`, `RawMax`, `Requests`, `Resets`, `MaxCmds`, `MaxDiscs`, `MaxSteps`, `FlagSteps`, `MaxChars`, `MaxLetters`, `MaxUsb`, `MaxOps`, `MaxWrites` and `MaxPorts` are bounds of the
runs and appear in guards or in the sets inputs are drawn from; where a behaviour ends at one, the cfg does not check for deadlock (`IdeDriver.cfg`, `Firmware.cfg`, `CpuCore.cfg`,
`Protect.cfg`, `JitBlock.cfg`). `MmuMaps` is a resource the code really runs out of.

Each property of a passing run has a mutant in `PROJECT.json`, merged properties one for each part: a definition of the model
changed as a plausible bug would change the code, under which that property fails.

### Fairness

- `IdeDriver`: weak fairness of the driver's next step. The guest keeps executing its own driver; making a
  request or giving one up is its choice. The channel needs no fairness, as it acts only inside accesses.
- `Startup`: weak fairness of each task. The tasks of core 0 that wait here have the same priority
  and sleep or block in their loops; `i386_task` is alone on core 1. Failing steps, the restart, and a boot sector to be
  seen are never forced: `GuestShown` and `AllStart` allow for a panic.
- `DebugconRing`: weak fairness of the printing task, and of a write once begun. The guest need not write.

- `UsbInput`: weak fairness of `usb_event_task`, which waits for nothing but its queue. Devices need not come.
- `CpuString`: weak fairness of the next step: the core goes on executing, and the guest's handler maps the page it was asked for.
- `Atapi`: weak fairness of a guest that writes its packet and reads its data in words while DRQ is up.

The other modules state safety only.

### What the violated runs show

- `jit_rep_ins`: `INS_helper2` (tiny386/i386.c:2996) writes disk data into RAM by `io_read_string`, past the store hooks,
  so a block over those bytes stays valid. docs/jit-dev-plan.md:816 asks for IDE and DMA writes to be hooked.
- `jit_link`: `jit_translate` (esp/main/jit_lx7.c:3261) marks the slot of an address outside RAM before it comes to the eviction of lines 3276-3279. The block that
  was there is gone without its links: a later store over its bytes finds no valid block, and the block linked to it keeps calling the old host code until
  a flush. docs/jit-dev-plan.md:775 has links cleared on conflict or replacement of the target.
- `jit_block_kept`: `jit_action_reg_masks` (esp/main/jit_lx7.c:1174) takes `dst & 3` for the register of a 32-bit load too, so a load into
  ESP .. EDI marks EAX .. EBX as written, and the epilogue stores a host register nobody loaded. The masks are also taken over the whole scan,
  although a block cut at 256 bytes emits less of it. The first way needs the memory gates, which the default build has off.
- `startup_reset`: a guest reset makes `pc_step` (tiny386/pc.c:663) copy the ROMs on core 1 while `vga_task` may be
  drawing on core 0, which the comment at esp/main/esp_main.c:363 says must not happen. Only the first load is ordered.

### Observed while modelling, without a run of their own

No document or test of the repository speaks of these. Where a property would fail by one of them, its comment names the exception, the run reaches it, and
nothing else is excused.

- *JIT.* A shift by 0 counts as a writer of flags (line 3426), so an earlier one's may be dropped;
  `BlockExact` leaves out what this loses. Helpers and inline accesses use DS also for ESP and EBP, and ignore faults, segment
  bases and paging; the model gives them a flat memory.
- *IDE, ATAPI.* `bf_write_async` ignores the results of `fwrite` and `fseeko`, and no request is compared with the size of the disk (ide.c:640-652): a write behind the end of a
  flash partition goes to where the last request ended (`Due` in `FlashSound`). A disk in flash is read with `esp_partition_read` on core 1
  (flash_stdio.c:103), the call the comment above `partition_mmap_copy` warns of. A byte count limit of 0 or 1 gives empty bursts, and an odd
  size leaves a byte no word access drains (`Drained` excuses exactly these). Sector number 0xffffffff is taken for "none", so the bursts of a READ that
  comes to it are not cut to the sector and end behind `io_buffer` (`CdWithinBuffer` excuses exactly such a READ). The CD's `nb_sectors` is never set, so GET CONFIGURATION always says that there is no medium. `ide_change_cd`, which nothing calls, signals a change even when
  the image cannot be attached, and a failing read replaces the sense of a pending attention. The data port looks neither at DRQ nor at the direction,
  and a reset does not end the data phase.
- *Core.* `get_OF` after MUL and IMUL is `get_CF` (i386.c:575), also when CLC, STC, CMC, SAHF or BT has written CF since (`FlagsExact` leaves out this OF, after such an instruction, and no other flag); ROL and ROR by a multiple of 32 set flags; AAM 0 and the division of the smallest 64-bit integer by -1
  are undefined on the host. The REP fast path does not see a 16-bit index wrap inside a page (i386.c:2779, 2896), which
  a segment base off a page's border makes possible (`OnTrajectory` claims the counts then, not what was moved). An interrupt out of conforming code at level 3 cannot return: `check_cs_outer` (i386.c:5041)
  asks a DPL above the handler's level (`ReturnsExactly` names this case). Segment limits are not checked. The fetch page is kept across a change of ring.
  `task_switch` loads EFLAGS without clearing the mask of lazy flags. IRET with VM set from an outer ring, and gates of unknown type, end
  the emulation (`cpu_abort`), as does a fault whose delivery faults twice. LSS casts no interrupt shadow; a guest that
  executes nothing but STI never lets the step end.
- *VGA.* In mono emulation no read sets the attribute flip-flop back, as pc.c:212-221 does not pass 0x3ba on; `PortsExact` promises something to a guest that has synchronised at
  0x3da in colour emulation. A wide access in chain-4 mode looks at the plane of its first byte only (`WideStep` excuses masks that differ). `bank_offset` is reset when the
  interface is written again, while its register keeps its value; chain-4 stays on in 4-bit modes; the clear on enabling (vga.c:1822) is not bounded
  by the size of video memory. The display registers are read on core 0 while the guest writes them on core 1: a torn frame is
  not modelled, as the next one is whole.
- *Ports.* A character after the shutdown word in the same `pc_step` sets `shutdown_state` back before `pc_main` looks, and a wrong letter of the word is ignored.
- *USB.* Keyboards share `prev_keys`; pulling one leaves its keys held; a report of too many keys releases all. A device that is pulled while it is opened,
  a handle used again with its event still queued, and a host library that takes longer than two seconds each end in an abort. A queue of
  16 drops events silently, and when the event task cannot be created the driver runs with nobody to open its devices.
- *Start-up, SD.* Each reset keeps two more flash mappings until `load_rom` aborts (the comment at esp_main.c:139-145 assumes one load); with two tasks on the
  same sectors, a reader can insert into the SD cache what it fetched before another's write, and the copy stays stale (the firmware has one caller at
  a time, so the run gives the callers disjoint sectors).

## 4. The proofs

| Theorem | Statement | Under |
|---|---|---|
| `JitCacheProofs!TypeCorrect` | `Spec => []TypeOK` | the assumptions on the constants |
| `JitCacheProofs!CoherentAlways` | `Spec => []Coherent` | the same |
| `JitCacheProofs!MarkedAlways` | `Spec => []Marked` | the same |
| `JitCacheProofs!HostAlways` | `Spec => [](Findable /\ PoolSound)` | the same |
| `JitCacheProofs!LinkAlways` | `Spec => []LinkSound` | the same |
| `JitBlockProofs!BlockWithinBuffer` | `Spec => []WithinBuffer`: no host code past `JIT_BLOCK_MAXBYTES` | `DecodedActions`, `BlockSizes` |
| `IdeProofs!ChannelSafe` | `Spec => []ChannelSound`: types, `WithinBuffer`, `DrqServed`, `WriteSized`, `BusyOnlyInReset` | the assumptions on the constants |
| `IdeProofs!DriverInStep` | `DriverSpec => []InStep` | the same and `DriverSizes` |
| `IdeProofs!DriverRefines` | `DriverSpec => ImplementsDisk` | the same |
| `AtapiProofs!CdSafe` | `ASpec => []CdWithinBuffer` | `AtapiSizes` |
| `AtapiProofs!TransferSafe` | `ASpec => []TransferExact` | the same |
| `AtapiProofs!ChangeSafe` | `ASpec => ChangeReported`, an action property | the same |
| `DiskProofs!FlashSafe` | `FlashSpec => []FlashSound` | the sizes of `FlashSizes` |
| `DiskProofs!CacheSafe` | `SdSpec => []CacheSound`: types, `Coherent`, `CachedOnce`, `ReadsFresh` | `CacheSizes`, `CallersApart` |
| `DiskProofs!CacheExclusive` | `SdSpec => []Exclusive`: who uses the cache holds the mutex | the same |
| `BoardProofs!StartupSafe` | `Spec => []TasksSound`: types, `PcPublished`, `BitsInOrder` | any number of mappings, any failures and resets |
| `BoardProofs!BootCopySafe` | `Spec => []NoCopyWhileDrawing` | the guest never resets (`~CanReset`) |
| `BoardProofs!RingSafe` | `RingSpec => []RingSound` | `RingSizes` |
| `BoardProofs!BoardSafe` | `BoardSpec => []BoardSound` | `PortTexts` |
| `BoardProofs!DevicesSafe` | `UsbSpec => []DevicesSound` | `UsbSizes` |
| `BoardProofs!KeysSafe` | `UsbSpec => []KeysExact` | `UsbSizes` |
| `CoreProofs!TranslationSafe` | `MmuSpec => []TranslationSound` | the guest flushes when it takes a right or a frame away |
| `CoreProofs!FaultsTrue` | `MmuSpec => []FaultsReported` | the same |
| `CoreProofs!StackSafe` | `StackSpec => []StackSound` | `StackSizes` |
| `CoreProofs!PreciseFaults` | `StackSpec => StackPrecise`, an action property | `StackSizes`, `NoSpOperand` |
| `ProtectProofs!CodeSafe` | `PSpec => []CodeSane` | `TablesSane` |
| `ProtectProofs!Confinement` | `PSpec => Confined`, an action property | `TablesSane` |
| `ProtectProofs!ShadowSafe` | `PSpec => []ShadowHolds` | `TablesSane` (only `Batch > 0`) |
| `BoardProofs!ScreenAsked` | `ModesSpec => []ModeShown` | any values written (`ModesSizes`) |
| `BoardProofs!PortsSafe` | `PortsSpec => []PortsExact` | `PortsSizes` |
| `BoardProofs!VideoSafe` | `VgaSpec => VideoExact`, an action property | `VideoSizes` |

What the assumptions ask, beyond sizes that are not zero:

- `DecodedActions`: an instruction comes from the decoder, which clears `flags_dead` (`memset`, jit_lx7.c:1259). `BlockSizes`: an empty block fits the buffer (27 bytes of
  256), since no guard protects the prologue. Level, scan limit and the code are free.
- `DriverSizes`: a disk is smaller than its address registers reach (`LbaMod` is 2^28), and a byte the driver writes is a byte.
- `AtapiSizes`: a sector, a packet and every reply fit `io_buffer`. The sectors of a READ times their size fit an int (ide.c:1107 multiplies them). The limits, the accesses and
  the first sector a packet asks for, any int, are free.
- `CallersApart`: callers of the SD driver keep to sectors of their own. A single caller may have the whole card, which is how the firmware uses it; without the
  assumption the theorem is false (section 3).
- `RingSizes`: the modulus of the indices (2^32) is a multiple of the ring's length and more than twice the characters of a behaviour, so that a
  lag is never taken for a lead.
- `PortTexts`: the boot line begins with a letter that is nowhere else in it, and the letters of the shutdown word are all different; both hold of the texts in pc.c.
- `UsbSizes`: no two keys share a code (except 0, of those the table does not know), no modifier stands among the keys of a report, and reports are bytes. Places, usages and bits are free.
- `StackSizes`: the operands are well formed, and half a register counts more than seven values (2^16 in the source), so that the longest single access is shorter than a stack.
  `NoSpOperand`: no operand is ESP itself, which would set all of it, as on hardware. The values, the stack pointers a guest sets and the operands' addresses are free.
  The guest does not overrun its stack: `Pushes` has no step once the entries would go round a 16-bit or 32-bit stack and over each other.
- `VideoSizes`: registers hold what their bits can, guest addresses lie in the window, and video memory is a whole number of banks; a byte has at least four bits, for the planes of write mode 2.
- `TablesSane`: what a kernel owes its processor: the saved tasks and the selectors SYSENTER and SYSEXIT use name present code of their own level, no gate of
  the IDT is a task gate. The gates' targets, the stacks and everything the guest forges are free.

*JIT.* `Coherent` is not inductive: the hook skips the scan when the bitmap says so. `CodeInv` adds `Marked`, whose step in turn needs that
a block lies in one page and that the scanner stays in it (`SamePage`, `ScanRange`, `BoundaryRange`); the scan itself
is a recursive function of which only its range is used. `HostAlways` needs `Findable` for the slot a new block
replaces. `LinkAlways` adds that invalidation and allocation only lose blocks, together with those linked to them, and that
nobody but an orphan is linked to a slot that is free (`LinksAlloc`, `LinksFill`): so the exception of `LinkSound` does not spread, wherever the guest fetches.

*One block.* A block fits its buffer because each action's `GUARD` and the 40 and 80 bytes kept for an exit cover the worst case of what follows, a literal at its
longest and all eight registers stored and loaded. `Bytes` is a recursive function over the code: `SumExists` shows, from the well-foundedness of the natural numbers, that its recursion has a
solution, `BytesCat` that it adds up over concatenation. Each piece the emitter is built from then has a bound (`Fits`): 24 bytes for a set of registers, 27 for an address, 66 around the arguments of a helper
call, 25 for the lazy flags, 42 for an exit; `ActionFits` compares their sums with the guards, type by type, both ways a memory access is made. The invariant adds that
scanned actions are of the types the gates admit: `Guard` has none for the others.

*IDE.* `DriveSafe` strengthens the properties drive by drive: what each `func` implies for the data phase and the
count. A handler's outcomes satisfy `OutcomeOK` from a safe drive; there is one lemma per routine, following the
call structure of ide.c, and one step per guest access in `NextHolds`.

*Driver and disk.* `DInv` says, for each place of the driver, where the drive stands: at a sector `p` of the request (`RegsAt`), with the block at
`p` in `io_buffer` and the registers behind it (`ReadArmed`), or with the bytes of the block at `p` collected so far and the registers still in front of it (`WriteArmed`). Before the status
is read it is one of three things (`Asked`: a block is ready, all is stored, or the medium failed), during a transfer the block in progress (`Moving`). One lemma per callback
of ide.c gives its outcomes in these terms (`ReadBegun`, `StoreOutcome`, `ReadOutcome`, `WriteOutcome`). For the
refinement each step is mapped to one of `BlockDisk`: `BeginRequest` to its `Begin`; the access that completes a written block to `StoreBlock`, with exactly the driver's bytes; the last byte of a
read, or the interrupt after the last block of a write, to `Finish`; an error or `GiveUp` to `Fail`; every other step is a stutter, which needs that nothing in it moves the address register of a write.
No fairness is involved: `BlockDisk` promises safety only.

*CD-ROM.* `PhaseInv` is about any guest: a reply has its window end where its counter `io` is, a reply not cut into sectors ends inside `io_buffer`, a sector read stays
inside one sector, or the READ is one that comes to sector 0xffffffff, and the packet phase is only complete with a packet. It says nothing of DRQ, which the data port does not look at. `DeliveryInv` is about a guest that has kept to the protocol: `Served` relates the bytes
handed to the port so far with `lba`, `io` and what is left, and says that the rest of the sector or of the reply lies in the buffer; `Shown`, that the window holds what comes next; and `due` is
what is left of the burst. `ReplyEndIs` gives the three ends of `ide_atapi_cmd_reply_end` (over, failed, gone on), `CommandIs` the four of `ide_atapi_cmd` (refused, done, a reply, a read); every
action goes through these two. `NextServed` and `OfferServed` carry `Served` over a border of a sector and over a burst. `ChangeSafe` needs of `PhaseInv` that an unreported change is still the pending sense.

*Start-up.* `I386Inv` says what has been set up at each place of `i386_task`, `BitsInv` what a bit implies and which
bits the other tasks have waited for. `BootCopySafe` adds `LoadedOnce`: without resets the loading places are behind
`i386_task` once `PC_READY` is set.

*Translation.* `GrantSound` looks at the access a translation lets through; what is inductive is `TlbAgrees`: an entry of the TLB
stands for a page that is present in the current tables, in its slot, with the page's frame, and denies at least what the tables
deny. It may deny more, after a grant without a flush, which is why `FaultOnce` has a case for a stale entry. `TranslateKeeps` and `TranslateAnswers` say once what a
translation leaves behind and returns; an access over a border cites them twice.

*Stack.* `Lifo` says that each entry's cells hold its value, and is not inductive: it does not say where SP is, nor that the entries are apart. `StackInv` adds `Layout`: `Shape` (the depth of an entry is its own size plus
what lies under it, with a gap where a frame was made), `Placed` (it lies at SP plus the depth of the stack minus its own, modulo the width of the stack) and `Held`. `CellsApart` and `StoreBelow` carry it over a push: cells
less than a stack width apart are different, on a 16-bit stack as well, where the upper half of ESP only shifts all of them. `LayoutPush` and `LayoutPop` are about one entry; PUSHA, POPA and nested ENTER are runs of a recursive function of the
entries so far, which exists by the well-foundedness of the natural numbers (`RunExists`), and LEAVE takes off the entries down to the nearest frame (`FrameIs`). For `PreciseFaults` each routine is `Fine`: it lists the machine at
every place it can fail, and all of these are the one it began with. `Undone` is the case that needs the code's care: POP_helper moves SP before it stores, and puts it back if the store fails.

*Protection.* `CodeSafe` and `Confinement` share one invariant, `Levels`: the current level is that of the code in CS, or 3 in virtual-8086 mode, and so it is for every
task that may be switched to. Each routine of i386.c (segment load, push, far transfer, gate, interrupt, IRET, task switch, SYSENTER) has a lemma that states its `Outcome` against the context its instruction began
with: sane unless it aborts, a level gained only at an entry point, no IF above IOPL, no inner data segment left. They are composed as the handlers call each other, including faults while a fault is delivered.
`ShadowSafe` needs that an exception ends the shadow and that an instruction that casts it does not end the batch.

*Flash.* `WrittenExactly` speaks of the end of a write; `ProgressOK` says what is on flash at each of the three steps of a
block, and that the merged block is the current block as it is to become. `RequestOK` says that a write stands at `Due`, within the partition, and the position
with it until it ends. The arithmetic of blocks and offsets is in `BlockFits` and `ChunkFits`.

*SD cache.* `SdInv` follows a request from place to place (`Progress`: which of its sectors the buffer has; `Fresh`: each is what the sector may hold) and says what it still owes the cache:
`Owed` are the sectors written to the card and not yet to the cache, `Missed` those being fetched, which `Absent` keeps out of the cache until they are inserted. `sd_cache_insert` does not look whether its sector is
cached already, so it is `Absent` that makes it safe over the gap in the mutex: what could break it, an insertion by another task in the gap, is of another region. `Placed` (a copy lies in the set of its sector, and only once) is `CachedOnce` in
inductive form. `StepHolds` says what a step of one task has to show, `StoreHolds` specialises it to the two steps that store a sector, `WriteHolds` to those that write the card; `InsertStores` and
`UpdateStores` say what the two functions leave, from `LeastIs`, which gets the least way or age from the well-foundedness of the natural numbers.

*VGA* (in `BoardProofs`). `ModeShown` compares the geometry drawn with the one read back; `ModesInv` says that enabled registers are valid, and
that the VGA's own registers hold what `vbe_update_vgaregs` passed on while the guest left them alone. `PortsExact` speaks of whole palette entries and pairs;
`DacInv` says what of an entry is in the cache while a writer or a reader is in the middle of one, `AttrInv` what the flip-flop means for the next access. `VideoExact` needs only the types (`VideoInv`): the rest is
what one access does. `LatchedBit` takes the word a planar write offers apart, bit by bit; `CombineBit` turns the logic of bytes into that of colours; `NewColour` puts the bits into memory, which needs that the four
planes of a byte are all there (`CellsOf`). `ChainedIs` shows that two bytes put at once are two put one by one, where the window maps both (`NextOffset`): TLC's addresses had not shown that a chain-4 access from
below a map into it is lost as a whole, which `WideStep` now leaves out.

*Ring.* `RingInv` measures every index by its distance behind the head, modulo the width of the indices. `Behind`: no tail, also one a side holds and will store
late, is further behind than what was sent; `Filled` and `Copied`: every slot in between, and every character in the reader's hand, has been written; `Framed`, as long as
nothing was dropped: the tail is the reader's own, and what lies behind it is the end of what was sent, in order. That a stale tail may be stored by either side is why `Behind` speaks of all of them.

*Text ports.* `DebugInv`: the matcher of the boot line stands at the only prefix of the line that ends what was written, or on the terminator. `PowerInv`: the matcher of the shutdown word is at least as
far as the longest such prefix, and the letters it has passed stand in what was written in this order.

*USB.* `Announced` is inductive only with the types of the queue and of the device at hand. `SurvivesPlugging` needs `Untouched`: while nothing has been pulled, a device is in the queue once,
nobody but the event task opens it, and so the library refuses nothing. `KeysExact` needs, while a report is compared, what the guest holds between two rounds of the loops: `DownAfter` takes the bits and places compared so far from the new report and the rest
from the old one. `BitRound` and `PlaceRound` say that a round leads from one to the next and that its events mean one each, `ComparedIs` carries this through both loops.

Only model-checked:

- Liveness (`Completes`, `GuestShown`, `AllStart`, `LastWords`, `AllOpened`, `Terminates`, `Drained`): out of reach of the proof system as used here.
- `ScanOrder`, `TranslationExact`, `InstructionsExact`: they compare with recursive definitions over data, which would need induction with an operator as parameter; `CpuFlags` also
  rests on bitwise operations.
- `ReturnsExactly`: it compares a return with an entry any number of instructions ago; the invariant would have to describe every frame of nested entries on memory the guest may write.

## 5. What is not modelled

Within the modelled components:

- *JIT:* bit encodings of host instructions, segment bases and page tables behind the JIT's addresses (a hazard with a note), statistics.
- *Core:* the FPU, MSRs other than SYSENTER's, debug registers, LAR, LSL, VERR, VERW, CPUID; segment limits; the five parts of the interpreter are not composed.
- *Disks:* CHS arithmetic, the contents of IDENTIFY and of the ATAPI replies, snapshot tables, CISO decompression and re-attachment, the table of open flash files.
- *Firmware:* the choice and parsing of the configuration, allocation, the relative order of the ring's plain memory accesses below sequential
  consistency, the first call of `sd_cache_init` (before the tasks exist), the table of USB keycodes (only that it gives no two keys one code).
- *VGA:* drawing of text and pixels, cursor and retrace timing. They are output, depend on the time, and change no state the guest can read but the retrace bits.
- *Board:* dispatch to the devices of the missing submodule, the mixer, the ini reader.

Not at all: sound synthesis, mounting of the card, Wi-Fi (a thin client of the SDK's event loop, switched off in this board's build), formatting of logs, the JIT's self-test (a test program),
`lightvga.c` (not compiled), vendored code, and the devices of the missing submodule.

## 6. The plan

Done: the block cache, block and decoder of the JIT; the interpreter in five modules; the IDE channel with its driver and abstract disk; the CD-ROM; the SD
cache and flash files; the tasks, the ring, USB input, the text ports and the VGA; proofs of the block cache, the size of a block, the IDE channel and its driver with the refinement, the CD-ROM, address translation, protection, the stack, flash files,
the SD cache, and of the tasks, the ring, the text ports, USB devices and the VGA with its memory.

Left to do: the JIT's cache composed with `Mmu`, for the hazard at jit_lx7.c:3226; the FPU; snapshots and re-attachment under `BlockDisk`.
