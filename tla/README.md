# A TLA+ model of VICE's emulation core

VICE emulates Commodore computers cycle by cycle. This repository is the C64 (and C128,
VIC-20, Plus/4) emulator as built for the PlayStation 3. The modules here model two things that
no unit test reaches well. The first is **time**: the clock of each emulated CPU, the alarms that
devices set on it, the subtraction that keeps the 32-bit clock from overflowing, the drives' CPUs
that follow the main CPU in bursts, timers that are computed only when somebody looks, and the
interrupts the devices raise, with resets, traps and snapshots in between. The second is
**what comes from outside**: keys, typed commands, recordings, a second host on the network, tape,
devices on the serial bus, and the samples that leave through the sound device's thread.

Paths below are relative to `src/src/`, the emulator's sources; `src/doc/` is its manual.

1. [Inventory](#1-inventory)
2. [Modules and code](#2-modules-and-code)
3. [Runs](#3-runs)
4. [Bounds](#4-bounds)
5. [Fairness](#5-fairness)
6. [Proofs](#6-proofs)
7. [What the models showed about the code](#7-what-the-models-showed-about-the-code)
8. [What is not modelled](#8-what-is-not-modelled)
9. [Plan](#9-plan)

## 1. Inventory

Almost everything runs in one thread: the CPU loop in `maincpu.c`/`6510core.c` executes one
instruction at a time, calls the devices through their registers, and dispatches alarms between
instructions. What looks sequential is nevertheless concurrent in emulated time: a device's handler
runs at a clock that may lie a whole instruction in the past, and a handler may call another
component (the end of a frame calls the clock guard and the drives from inside the video chip's
alarm). Really concurrent are only the sound port's thread and, in a network game, the other host.

| Component | State | Operations | Interacts with | What makes it correct |
|---|---|---|---|---|
| Alarm context (`alarm.c/h`) | array of pending alarms, cached earliest one, each alarm's own slot | `alarm_set`, `alarm_unset`, `alarm_context_dispatch`, `..._time_warp` | every device; the CPU loop reads the cache | slots and alarms point at each other; the cache is the earliest; no alarm is lost |
| Clock guard (`clkguard.c`) | pointer to a clock, limit, list of callbacks | `clk_guard_prevent_overflow` once per frame | every component that keeps a clock value | after it, all clock values are on one time scale |
| CIA and VIA timers (`core/`) | counters, latches, pipeline, private alarm clocks, interrupt flags | register accesses, underflow alarms, overflow callback | alarm context, interrupt status, guard | the program cannot tell the lazily updated timer from the chip |
| VIC-II (`vicii/`, `raster/`) | beam position, clocks of the next line, fetch and raster interrupt | line alarm, register accesses | alarms, interrupts, steals CPU cycles, end-of-frame hook | the beam never runs away from its alarm; frames keep coming |
| Interrupt status (`interrupt.c/h`) | line state per device, counts, pending kinds, clocks of the last IRQ and NMI, the trap | `interrupt_set_irq/nmi`, `..._trigger_trap/reset`, `..._monitor_trap_on/off`, snapshot | devices, user interface, CPU loop | counts match lines; an NMI is an edge; nothing asked for is forgotten |
| CPU loop (`6510core.c`, `maincpu.c`) | registers (C locals), clock, what the last opcode did to the I flag | `DO_INTERRUPT`, opcodes, `cpu_reset` | all of the above | handlers are entered only when the chip would |
| Drive CPUs (`drive/drivecpu.c`) | own clock, target clock, main clock up to which they ran, fractional cycles | `drivecpu_execute(_all)`, `..._prevent_clk_overflow`, resets, enable | main clock, IEC bus, two clock guards | no cycle is lost or executed twice; a drive is never ahead |
| Snapshots (`c64/c64-snapshot.c`, ...) | a file | write and read modules in order, fail half way | everything | the loaded machine is the saved one |
| Serial bus and its devices (`iecbus/`, `serial/`) | line levels, each device's protocol state, one name buffer | port reads and writes, which also make the devices move | CIA2, the Kernal, file systems | what the bus says of a transfer is true; handshakes end |
| Keyboard, restore key (`keyboard.c`, `arch/ps3/kbd.c`, `joy.cpp`) | matrix, latched matrix, two alarms, who holds what | three sources of key events, polled once a frame; alarms | CIA1, NMI | every event arrives, in order; no key stays down |
| Key buffer and autostart (`kbdbuf.c`, `autostart.c`) | ring of characters; state machine, remembered settings | once per frame: look at the screen, type; serial trap callbacks | Kernal, reset, warp, true drive emulation | commands are typed whole and once; settings are given back |
| Datasette (`datasette.c`) | place on the tape, rest of a gap, motor, one alarm | motor line, keys, alarm | CIA1, tape image | flux changes at the right clock; the tape knows where it is |
| Event record/playback (`event.c`) | list of (clock, event), alarm | record, playback alarm, milestones, taking over | snapshots, guard, reset | played back at the very cycle they were recorded |
| Network play (`network.c`) | connection, ring of event lists per frame | connect, measure the delay, send and receive per frame, suspend, leave | event lists, snapshots, traps | two hosts are one machine and never both wait |
| Sound (`sound.c`, `sounddrv/soundps3.cpp`, `stream.hpp`) | the chip's buffer, the device, the port's queue and thread | run the SID, flush, open, close, suspend | vsync, settings, the audio hardware | samples arrive once and in order; the emulator is never held up for ever |
| Monitor, cartridges, flash, REU, ACIA, vsync, disk images, virtual drive, parallel bus, resources | | | | see section 8 |

Hard behaviours, each listed with its source line in `PROJECT.json` (`hazards`):

* **Ordering across time scales.** The guard sets the clock back first and tells the devices one
  by one afterwards. Until the last callback has run, clock, alarm table and private copies are on
  different scales, and some callbacks arm alarms.
* **Work inside a handler.** The guard runs inside the raster alarm; snapshots can run inside it.
* **Two clocks that are set back independently**, the main CPU's and each drive's, and
  **fixed-point arithmetic** between them.
* **Lazy evaluation**: timers and serial devices are brought up to date when somebody looks.
* **Edges and counts** of shared, wired-or lines that devices pull and release between two looks,
  and of keys and shifts that three sources hold.
* **Partial failure**: a snapshot that fails to load half way, a byte the drive refuses, a host
  that leaves.
* **One slot, one buffer for requests of several parts** (traps, the name on the serial bus).
* **Requests that take effect later** (a reset, a restore key, autostart's callbacks) with the old
  machine going on in between.
* **Waiting**: two hosts for each other, the Kernal for a device, the writer for the port.

## 2. Modules and code

```
TimerQueue            what a device is promised (abstract)
   ^ refined by
MainClock   --EXTENDS--> AlarmContext, ClkGuard      main CPU
DriveAlarms --EXTENDS--> AlarmContext, ClkGuard      a drive's alarms
DriveClock  --EXTENDS--> ClkGuard                    drives against the main CPU
Interrupt   --EXTENDS--> ClkGuard                    interrupt lines and the CPU loop
CiaTimer <-- CiaTimerTurns, Cia                      a timer; its skips; two of them and ICR
Keyboard                                             keys, pads, on-screen keyboard
KbdBuf   <-- Autostart                               typed text, and who types it
EventHistory --EXTENDS--> ClkGuard                   recordings
Netplay                                              two hosts
Datasette                                            the tape
IecLines <-- SerialIecDevice <-- SerialTransfer      serial bus, a device, the Kernal against it
AudioPort <-- Sound                                  the port's threads; the SID's samples

AlarmContext_proofs <-- MainClock_proofs, DriveAlarms_proofs
DriveClock_proofs, Interrupt_proofs, Netplay_proofs
Input_proofs             Autostart and its key buffer
Devices_proofs           Datasette and Sound
MC_*                     instances for TLC
```

The abbreviations in the modules follow the code's names wherever TLA+ allows; `PROJECT.json`
(`map`) gives the lines of every definition. Operators commented "Mutant" are plausible mistakes:
each property of a passing run is shown to fail when one of them replaces the definition after it.

### Time

**`AlarmContext`** (alarm.c, alarm.h) has no variables: the table is a record and each C function
an operator from table to table, because one device handler calls several of them in a row. The
scan's `<=`, the dropped request when the table is full, the move of the last slot into the hole
and the uninitialised `next_pending_alarm_idx` of a new context (`garbage`) are as in the code.

**`ClkGuard`** (clkguard.c): the amount taken away and when.

**`MainClock`** composes both with three kinds of device: the raster line alarm, CIA timers with
their private copy of the alarm clock, and one-shot alarms (keyboard). One action is one
instruction, one access of the program to a device, one alarm handler, or, while the guard runs,
**one callback**; `todo` is the rest of the callback list. `HookSteps` is the list's order:
callbacks are added at its head and `machine_early_init` registers the table's first, so it comes
last. `cia_update_ta` is a separate action per underflow, the loop of `ciacore.c:145-160`. What
decides whether an underflow re-arms the alarm (ICR, serial port, timer B) is a free choice. A
timer's counter pipeline is abstracted to "the next underflow is 1 .. Period cycles away"; it is
modelled in `CiaTimer`.

| Variable | Code |
|---|---|
| `clk` | `maincpu_clk` |
| `ctx` | `maincpu_alarm_context` |
| `line`, `draw_clk` | `vicii.raster.current_line`, `vicii.draw_clk` |
| `alarmclk[t]` | `ciat_t.alarmclk` |
| `todo`, `sub` | where `clk_guard_prevent_overflow` is in its list, and its amount |
| `stores` | none: bounds the accesses of the program |

**`TimerQueue`** states what the alarm system promises without clocks: an armed alarm has a number
of cycles left, cycles pass only while none is due, a due alarm is served before the next
instruction. `MainClock!ImplementsTimerQueue` is the refinement: `armed` is the set of pending
alarms and `left` the distance between their clocks and the clock, on the time scale the table is
on. A subtraction is a stuttering step, so no device can notice it. `SafeSpec` is `Spec` without
its fairness.

**`DriveClock`** (drivecpu.c, drive.c, drive-resources.c): a record per drive with `last_clk`,
`stop_clk`, `cycle_accum`, its clock and a pending reset. `drivecpu_execute` is `wake_up`, then
`Grant` (the fixed-point conversion), then `RunCpu` (the signed comparison, ending up to one
instruction late: `over`). `machine_vsync_hook` is `c64.c:493`: the drives catch up and the main
guard acts; then each drive follows the subtraction and applies its own guard
(`drivecpu_prevent_clk_overflow_all`), one step per drive, `guard` saying which is next. The fields
`lag` and `due` are history variables: the cycles that really passed and were not given to the
drive, and those given but not executed.

**`DriveAlarms`** (drive-overflow.c, ciacore.c, viacore.c): a drive's alarm table under its guard.
It differs from `MainClock` in the order of the callbacks, in that the guard may find alarms still
due, and in that the table can be empty. `serving` says that the CPU loop has called a handler and
not yet executed an instruction, `Continues` that the guard is not overdue by more than a frame
(`FrameCycles`): it is visited once per frame.

**`Interrupt`** (interrupt.c/h, 6510core.c, maincpu.c): `cs` is `interrupt_cpu_status_t`, `cpu` the
clock, the I flag (which stands for the registers), its copy in `maincpu_regs` (`exported`) and
`last_opcode_info`. `DO_INTERRUPT` is the whole macro: NMI, else IRQ, then the trap, then a reset
(also one the trap asked for), then the monitor, then the loop's clean-up of `IK_IRQPEND`. Opcodes
are actions by what they do to the I flag and the interrupt delay. An instruction that accesses a
device is two steps, so that a line can move in its middle. `image` is the snapshot on disk;
`h` is history, described in the module.

**`CiaTimer`** (ciatimer.h/c): one timer as the chip does it, cycle by cycle (`Inc`), and as the
program does it, many cycles at once (`ciat_update`) with the underflow foretold
(`ciat_set_alarm`). **`CiaTimerTurns`** drives it by its registers and compares the two in every
state it reaches. **`Cia`** (ciacore.c) is both timers with cascade, ICR and the interrupt line:
`cia` is what the program keeps, updated late and with alarms asked for only when somebody waits;
`chip` is the reference that makes every cycle and has an interrupt logic of its own: bit 7 of ICR
comes with the line, a cycle after the flag (`Pulled`). The code gets there by asking whether ICR is
being read in that very cycle (`rdi`, `ciacore.c:200`); alarms that are served later for an earlier
clock ask the same. A register is read at most once in a cycle and not in a cycle in which alarms
are served (`free`): an instruction that is over takes a cycle at least to be followed by the next.

### Input, media and output

**`Keyboard`** (keyboard.c, kbd.c, joy.cpp): `kb` is the latched and the emulated matrix with their
alarms, the shifts and the restore key; `keysdown`/`mkey`, `pad`, `osk` are the three sources.
One action is the polling of all three at the end of a frame, in the code's order; the alarms come
in between.

**`KbdBuf`** (kbdbuf.c) is the ring as a record with operators; **`Autostart`** (autostart.c) the
state machine that is called once a frame, after the queue was flushed and the pads polled
(`vsync_do_vsync`). The Kernal is external: it boots, reads characters, prints what autostart looks
for, calls the serial traps. `past` is history: what was fed, which lines BASIC was given, and what
warp and true drive emulation would be if autostart had not been.

**`EventHistory`** (event.c): `list` is the recorded history, `clk` the machine's clock with
subtractions and resets; `history.log` is what was recorded with its true time and `history.played`
what the machine was given in the replay.

**`Netplay`** (network.c): per host `net[h]` (the connection, the ring `lists`, `current_frame`),
`chan[h]` what is on the way to it, `peer[h]` its socket, `world[h]` the inputs its machine was
given since the common start, `made[h]` what its user did. An event list is a record: the sync test
(the machine's state when the trap records it) and the inputs. Both sides' blocking `recv` is an
action that is enabled when something has come. `RecvFails` is a receive that is checked;
`DeltaFails` the client's last one in `network_test_delay`, which is not (`network.c:341`): it goes
on with whatever the uninitialised `new_frame_delta` holds (`StackBytes`).

**`Datasette`** (datasette.c): `ds` is the static state with clocks relative to `maincpu_clk`;
`seen` is history (what the tape and the motor line really did). The tape is given by the places of
its flux changes (`Flux`, `Place`); the image's gaps are the distances between them.

**`IecLines`**, **`SerialIecDevice`**, **`SerialTransfer`** (iecbus.h, c64iec.c,
serial-iec-device.c, fsdrive.c): the wired-and; a device as operators on a record; the Kernal's
routines (external, from how the devices have to answer them) as sequences of port accesses, each of
which makes every device move once. Time passes only in accesses, in units of 20 us. Resets and
devices switched on or off may come between any two accesses.

**`AudioPort`** (stream.hpp) is the port's queue with the writer, the port's thread and the
hardware; the condition has no memory, so a signal nobody waits for is lost. **`Sound`** (sound.c,
soundps3.cpp) is the emulator's thread; `steps` is what is left of the call it is in, since the
port's thread runs in between. The last step of a call may be a write that sleeps: the next call
begins only when the thread is `Idle`. A half fragment is a number and each of its two blocks is
too, so that order and loss show.

### Instances

`MC_Input`, `MC_Chips` and `MC_Devices` each EXTEND several components that share no variable, and
check them side by side: `part` says which one runs, chosen initially, and the others keep their
initial state (`PartSpec`). Their properties are the components' own. `MC_Live` does the same for
two components with fairness, each conjunct of which is about the steps of the part that runs.
`MC_Serial` holds the programs and the file for `SerialTransfer`. `MC_DriveClock!QuietSpec` is
`DriveClock` without resets and switches: the liveness property is about a drive that is left alone.

## 3. Runs

Passing runs. A property that has parts is named with them; the module's comments say what each
part means.

| Run | Shows |
|---|---|
| `main_clock` | The clock is set back again and again, with accesses, dispatches and the guard's callbacks interleaved. The table stays consistent (`TableConsistent`), no alarm is stranded or made overdue (`AlarmsNearClock`), timers and beam stay with their alarms (`DevicesInStep` = `TimersMirrorAlarms`, `RasterMirrorsAlarm`), the clock stays within its width (`TypeOK`). `MainClock` implements `TimerQueue`, liveness included; armed keys arrive and frames never stop (`EventsArrive`). |
| `drive_clock` | One drive that is left alone: the difference of `maincpu_clk` and `last_clk` is exactly what passed and the drive is never ahead by more than an instruction (`CyclesAccounted` = `LastClkMirrorsMain`, `NeverAhead`); again and again it is given cycles and reaches their end, also across wraps of its clocks (`DriveKeepsRunning`). |
| `interrupt` | Two IRQ devices, an NMI device and the restore key, with traps, resets, breakpoints and the guard: `LinesCounted`, `NmiIsEdge`, `EntriesJustified`, and `RequestsSurvive` = `MonitorStays`, `TrapNotForgotten`, `IntClksPast`. |
| `interrupt_snapshot` | Snapshots saved and loaded by traps and from the in-game menu, loads that fail included: `LoadedStateFits`, and what a trap saved is whole (`TrapSnapshotIsWhole`). |
| `live` | Every NMI is answered and a held IRQ is served again and again, resets and jams in between (`InterruptsServed`); whatever the emulator's thread begins with the sound device it ends (`EmulatorGoesOn`). |
| `input` | Part *keyboard*: `KeysArrive` = no key stays down, the latch and the restore key are delivered, texts are typed whole. Part *autostart*: `TypedWhole` = nothing lost, nothing too early, each command whole and once; `SettingsGivenBack` = unless other text was typed: warp, true drive emulation, no callback left over. Part *events*: `ReplayIsExact` = same inputs at the same cycles, none late, the seconds counted. Part *network*: `HostsAgree` = one machine, same frame same state; `InputsCountOnce`; `NeitherStalls`. |
| `chips` | Part *drive*: after the guard the table is whole and a chip that only subtracts knows its alarm (`DriveChipsInStep`). Part *cia*: the program cannot tell the lazy CIA from the chip (`AsOnChip`). Part *timer*: every skip of up to nine cycles, from every state, is what the cycles would have done (`TimerAsChip`). Part *audio*: samples are heard in order and once, or thrown away on purpose, and the port outlives its thread (`SoundArrives`). |
| `devices` | Part *drive*: `LastClkMirrorsMain` with resets, the monitor's reset, true drive emulation toggled and a drive that skips cycles. Part *datasette*: `TapeInStep` = the tape knows where it is, flux changes on time, the motor keeps its delay. Part *serial*: `StatusIsTrue`, `DataIsWhole`, `BusComesFree`. |

Runs that find a violation, each explained in section 7: `drive_stall`, `drive_cia`,
`interrupt_menu`, `datasette_motor`.

## 4. Bounds

Clocks are narrow so that they are set back many times in a run. What matters is not their width
but the ratios that the code's guards compare, and these are kept:

* `MainClock`: `CLOCK_MAX` 57, `CLKGUARD_SUB_MIN` 14, limit 43 = `CLOCK_MAX - CLKGUARD_SUB_MIN` as
  in `machine_early_init`. The room assumption (`RoomAssumption`: a frame, an instruction and the
  farthest alarm fit into `CLKGUARD_SUB_MIN`) is the code's: 0xfffff cycles against a frame of some
  20000. Two lines per frame are the least for which a frame does not end with every line; a timer
  period of three cycles makes several underflows due at once when a two cycle instruction follows
  a two cycle line. `MaxStores` = 3 accesses in a behaviour; the proofs have no such bound.
* `DriveClock`: clocks of 32 (24) values, a ratio of 5/4 (1/1), so that remainders of every size
  occur. `DueBound` caps the history variable, and only that. `SkipLag` and `SkipClk` keep their
  place: more than a frame, less than the clock's range.
* `DriveAlarms`: one CIA and one VIA timer, periods up to three cycles; `CLOCK_MAX` 48,
  `CLKGUARD_SUB_MIN` 12, which leaves room for a frame, two instructions and two periods
  (`DriveAlarmsAssumption`), as 0xfffff does.
* `Interrupt`: two or three lines; instructions of one or two cycles against a delay of two, so
  that a line can move before, within and after the window. In `interrupt_snapshot` the constraint
  `FewImages` follows only behaviours whose snapshot was taken in a few representative states:
  without it the product of two machine states is too large. The theorems of section 6 cover all
  of them, and the proof did find a state the constraint had hidden.
* `Keyboard`: one plain key that two sources share and that ignores shifts, one shifted key, a
  shift, RESTORE; one pad button that can be remapped; USB reports of three kinds.
* `Autostart`: commands of three and two characters against a Kernal buffer of two and a ring of
  five, so that commands are fed in chunks and the ring wraps; three starts or resets. The theorems hold for every size and
  every pair of commands; a chunk of one character makes a difference (section 7).
* `EventHistory`: two inputs, ten cycles, a second of three cycles, subtractions of ten.
* `Netplay`: delays of one to three frames, five frames of each host, an input each, two test
  packets, a failed snapshot and a host that leaves. With five frames each slot of the ring is
  used again. A client that was never told the delay finds 0, 1 or 2 in its place. A measured delay
  is never 0 (`NetAssumption`): 5 + (BYTE) of the measurement, in a byte, would have to wrap, which
  takes a round trip of five seconds. The theorems have no bound.
* `Datasette`: four gaps, some of them longer than the longest alarm; alarms up to two cycles late.
* `Cia`: latch 1 and two control values per timer, alarms at most one cycle late and the timers two
  behind, so that an alarm is served in the cycle of a read or before it; `CiaTimerTurns`: latches 0, 1 and 3, every control value, skips of up to nine cycles.
* `Sound`: a fragment of two blocks, a queue of six, so that a flush fills it and sleeps; two half
  fragments are made. The theorems have no bound.
* `SerialTransfer`: four bits per byte, two units, programs that read a file in two turns, write,
  open what does not exist, and address a unit that is not there; one reset or switch at any access.

## 5. Fairness

The emulator is a loop without an exit, so weak fairness of "execute an instruction" and of "run
the handler that is due" is justified: at any time exactly one of them is enabled and the loop does
it. The program's accesses to devices, the user and the devices' decisions have no fairness.
`DriveClock` assumes that the main CPU runs and frames end (`WF(Advance)`), which
`FramesKeepComing` shows. `Interrupt` adds that the guard is visited; the served IRQ has premises:
the line stays low, no other line moves, the program leaves interrupts enabled infinitely often.
Without the second one the delay can be restarted for ever in the model (see the hazard at
`interrupt.h:152`).

`Sound` assumes that both threads run and that the hardware goes on asking for blocks while the
port is open. The last is what rescues a lost signal: a writer that missed one is woken by the next.

Two properties that are liveness in spirit are invariants here: the two network hosts never both
wait with nothing on the way (`NeitherStalls`), and on the serial bus no look in vain leaves
everything as it was (`NeverStuck`). The user's part in them, a key or a reset, has no fairness that
could be assumed.

## 6. Proofs

TLAPS checks the following for all values of the constants that satisfy the modules' assumptions:
any number of alarms, drives, lines and frames, any clock width, any tape, any size of a buffer.
The bounds of section 4 are constants of the modules or of the instances; no theorem assumes one.

**`AlarmContext_proofs`.** Each operation on the table keeps it consistent (`SetConsistent`,
`UnsetConsistent`, `WarpConsistent`) and touches no alarm but its own (`SetEffect`,
`UnsetEffect`). The hard case is `alarm_unset`, where last slot, emptied slot and cached slot may
coincide in any combination. `WarpConsistent` needs two hypotheses, that something is pending
and that no clock lies below the amount; section 7 shows that the drives' CPUs meet neither.
For them there are weaker facts of a table whose cache may be stale: it is `Whole` (slots and alarms
point at each other) and its cached clock is `NotLate` (no slot is earlier). `SetKeeps`, `UnsetKeeps`
and `WarpKeeps` say that each operation keeps both, and a right cache too; the theorems about
`Consistent` tables follow from them.

**`MainClock_proofs`.** `TypeOK`, `TableConsistent`, `AlarmsNearClock` and `DevicesInStep` are
invariants, without a bound on accesses. None of them is inductive alone. An alarm can be stranded
if the clock has wrapped, the clock wraps if the guard is not visited in time, and it is visited in
time because the raster alarm is always armed, near the clock. `MainClockInv` therefore
conjoins them with `ClockNearLimit`: outside the hook, `draw_clk` exceeds the guard's limit by no
more than the lines drawn since the last visit took; inside, the clock as it was does so by at
most a frame, and the copies of the video chip are on the scale `todo` says. The proof has a
lemma per action, under which `OutsideHook` and `InHook` restate the invariant for the two
situations and `Arm`, `Disarm` bring in the table's lemmas. Assumptions: `GuardAssumption`,
`TimingAssumption`, `RoomAssumption`, `StartAssumption`, `SlotsSufficeAssumption`,
`AlarmsAssumption` and those of `AlarmContext`. That the slots suffice is an assumption about the
machine: a full table drops a request without a word (`alarm.h:162`).

`RefinesTimerQueue`, in the same module: with `Pending` and `CyclesLeft` for the abstract variables
every step of `MainClock` is a `Tick`, `Serve`, `Arm` or `Disarm` of `TimerQueue`, or a stutter.
This is the safety half of `ImplementsTimerQueue`; its fairness stays with the run.
`SetEffect`/`UnsetEffect` carry the argument: a device's request moves `left` of its own alarm and of
no other.

**`DriveAlarms_proofs`.** `DriveTypes` (`TypeOK`) and `DriveChipsStayInStep` (`DriveChipsInStep`),
for any set of CIA and VIA timers. `DriveInv` says on which scale each clock is while the guard's
callbacks run (`TableClk` for the table, `CopyClk` for a chip's copies); that a VIA's copy is as far
from its scale as the table's clock is from the table's, while a CIA's table clock may only be
*later* (`TimerFits`: the finding `drive_cia` is this inequality being strict); that the cache is
the earliest clock, or stale for less than a period since an empty table was warped (`CacheFits`);
and that nothing is overdue by more than an instruction but what the loop is serving or a CIA is
catching up with (`NothingOverdue`), without which a warp could take the table's clocks below zero.
The type invariant needs all of it: a clock that wrapped would be `TypeOK` and wrong.

**`DriveClock_proofs`.** `DriveInvariant`/`DriveTypes`: no clock leaves its range, for any number
of drives and whatever the user does. `MirrorInvariant` strengthens `LastClkMirrorsMain` to the
states *within* a subtraction: a drive that has not had its turn is `guard.sub` behind, one that
had is not (`Pending`). `LastClkStaysInStep` has the hypothesis that all drives idle in the same
way (`Skippers = {}` or all of them); TLC refutes the property without it, see section 7.
`CyclesStayAccounted` adds what the drive executed: `AccountInv` bounds the signed distance of
`clk` and `stop_clk` by what is due, for drives kept up to date (`Skippers = {}`) through resets of
the machine (`Events \subseteq {"reset"}`; toggling and the monitor's reset break it, section 7).

**`Interrupt_proofs`.** One invariant, `IInv`, for every choice of lines and events: what is in a
snapshot is as good as what is in the machine, and the machine is of the right types, has its delays
in the past, and *fits* (`Fits`): counts are numbers of lines and an NMI is an edge, or there is a
device whose line is saved by nobody, or a failed load from the menu waits for its reset. From it:
`InterruptTypes`, `DelaysFromPast` (`IntClksPast`) without hypotheses; `LoadedStaysFit` when every
device saves its line (`SavedLines = Lines`); `LinesStayCounted` and `NmiStaysEdge` when snapshots
are also taken only in traps (`"menu" \notin Events`).

The action properties and what history says, in the same module: `TrapSnapshotsWhole`
has no hypotheses; `SnapshotsWhole` without the menu (the run `interrupt_menu` is the
counterexample with it). `RequestsStay` (`RequestsSurvive`) for one trap at a time, when no jam
drops it and snapshots, which know nothing of breakpoints, are not loaded while there are some.
`EntriesStayJustified` when lines are saved and there is no menu.

**`Netplay_proofs`.** `HostsStayTogether` (`HostsAgree`), `HostsNeverStall` (`NeitherStalls`) and
`InputsCountedOnce` (`InputsCountOnce`) for every `frame_delta`, any number of frames and inputs, with
hosts that quit at any time, a snapshot that cannot be read, and a client that goes on with a delta it
was never told; no hypothesis beyond `NetAssumption`.
`NetworkInvariant` says

* of each host: slot `i` of its ring holds the list of frame `FrameOf(i)`, and the sync test of each
  list it has sent is its machine after `RoundsAt(frame, frame_delta)` rounds (`SyncsOk`);
* of the two: the rounds they have played are the same as far as both have played them, each being
  the lists of one frame of both hosts in the same order (`Same`, `Grows`, `RoundsOk`);
* of the streams: what is on the way to a host is exactly what the other has sent and it has not
  played, list by list, with `suspend` messages before them (`Stream`).

Three strengthenings were needed: a host whose partner has left still plays what was
on the way, so the partner's frozen history must stay in the invariant; a client whose delay is being
measured keeps the server's lists behind the `delta` message, and without that message the server
has sent none (which is what makes the lone client harmless); and the snapshot on its way to a
client may be that of a server that has already left.

`CountInv` adds what becomes of an input, relative to that invariant: a list that was sent holds
what its host did in its frame, each input once and in order (`ListsCount`), the list being recorded
what it has done so far (`Recording`), and a machine after `r` rounds what both hosts did before
frame `r` (`Given`). A round appends the two lists of one frame (`GivenMore`); that what is given
keeps its order comes from the inputs of a host being numbered and its frames never going back.
`InputsCountOnce` speaks of the places of a host's inputs in what a machine was given, and of sets:
a filter over the sequence (`SelectSeq`) is recursive and could not be proved about.

**`Input_proofs`.** `CharactersArrive` (`TypedWhole`), `SettingsReturn` (`SettingsGivenBack`) and
`AutoTypes` for every ring, every Kernal buffer, every two commands that end with return and have
none before (`CommandAssumption`), and any number of starts and resets. The invariant `AutoInv` has
three parts.

* `Kept`: the Kernal's buffer followed by the ring is what was fed. `SlotIs` and `PendingIs` turn
  the ring's modular arithmetic into sequences; `PutAdds` and `FlushKeeps` say what the two
  operations, written character by character in C, do to them. The memory of a Kernal that boots is
  safe because the queue is flushed only when the clock is past the boot.
* `Settings`: while an autostart is under way that asked for warp, warp is on and `orig_warp` is what
  it would be without it; when it is over, warp is that. True drive emulation is changed only between
  the typing of LOAD and the end of its file, and remembered meanwhile.
* `Text`: the lines BASIC was given, the one it is reading and what is still queued make up a
  `Script` that fits the mode, as long as the commands are the only text. Callbacks are awaited only in
  `LOADINGDISK`, before LOAD has been executed or before its file has ended.

Warp and callbacks cannot be had from the settings alone: `disk_eof_callback` ends the autostart
whoever waits for it, so what keeps a stale one from being called is the text that can be typed.
With other text it is called, see section 7.

**`Devices_proofs`, the datasette.** `TapeStaysInStep` (`TapeInStep`) and `DatasetteTypes` for every
tape, every longest chunk and every delay. `DsInv` says where the head can be: at a flux change
or in a gap, with what was passed of it and what is left adding up to the distance of two
neighbouring places (`InGap`, `Passing`, either direction); that the counter is at a constant distance
from the head (`Offset`), which no chunk changes; and that the alarm, the next change as the tape
has it and the delay of the motor belong together (`AlarmFits`, `DueFits`, `StopCounts`). The tape is
given by the places of its changes and not by gaps to be summed: a sum over a sequence is recursive
and could not be proved about.

**`Devices_proofs`, the sound.** `SoundIsHeard` (`SoundArrives`) and `SoundTypes` for fragments, queues
and buffers of every size, any settings changed at any time, a SID that fails and a condition that
loses signals. `SoundInv` has these parts.

* `StepsFit`: what is left of the emulator's call is one of the orders the code can be in
  (`GoodSteps`, built from `MayFollow`); only then do opening and closing alternate.
* `DeviceFits`: sound.c's two notions of an open device and the port's state agree but for the step
  that is about to change one of them (`Todo`).
* `PortFits`, `BufferFits`: the port outlives its thread; the chip's buffer holds whole half fragments
  made in order, never more than `SOUND_BUFSIZE`.
* `WayFits`: the numbers at each place on the way (heard, put out, in the resampler, in the queue, in the
  rest of a write, in the chip's buffer) rise, all those of one place come before those of the next,
  and together with what was thrown away they are all that was made. `PlayedInOrder` speaks of the
  concatenation of the places; stated place by place it can be kept by steps that move blocks from
  one to the next.

The proof found that the model let the emulator begin another call while it slept in the write that
ended the last one; `Idle` was added for it.

Only model-checked, and why:

* Liveness (`EventsArrive`, `DriveKeepsRunning`, `InterruptsServed`, `EmulatorGoesOn`, the fairness
  of `ImplementsTimerQueue`): the provers reason about neither fairness nor `ENABLED`.
* What a recursive computation over data returns: `TimerAsChip`, `AsOnChip` (cycles one by one),
  `StatusIsTrue` and `DataIsWhole` (bits and bytes folded into what a program read). The library's
  induction theorems take an operator as a parameter, which the installed provers cannot instantiate.
* `KeysArrive`, `ReplayIsExact` and `BusComesFree`, and the types of the modules without a proof
  module: not attempted.

## 7. What the models showed about the code

Four have a run; `PROJECT.json` (`findings`) quotes the text they are held against.

* `drive_stall`: `stop_clk`, the drive clock at which a burst ends, is not set back with the
  drive's clock (`drivecpu.c:323`). Seen through the signed comparison the clock is then far ahead
  of its target and the drive stands still until `stop_clk` has caught up.
* `drive_cia`: "Order is supposed not to matter" in the guard's list (`clkguard.c:84`); for a
  drive's CIA it does, because `drive_init` registers the callback that warps the table last, so
  that it comes first, and the CIA then arms an underflow on the old time scale.
* `interrupt_menu`: snapshots from the in-game menu are taken in the middle of an alarm and hold
  registers that are not the program's.
* `datasette_motor`: the alarm that was to stop the motor can be unset with the tape's
  (`datasette.c:744`); the motor then runs on.

The following appear when a configuration is changed as given; the passing runs and the theorems'
hypotheses exclude the circumstance:

| Configuration | Change | Property | What happens |
|---|---|---|---|
| `MC_DriveClock` | `SPECIFICATION Spec`, `DRIVE_NUM = 2`, `Skippers = {1}` | `LastClkMirrorsMain` | catching up drive 1 in the middle of a subtraction also runs drive 0, which was moved already, for some two million cycles that never passed (`drivecpu.c:314`) |
| `MC_DriveClock` | `SPECIFICATION Spec`, `Events = {"monitor"}` | `NeverAhead` | the monitor's `reset 8` restarts the clock but not `stop_clk` (`drivecpu.c:237`): the drive executes its past once more |
| `MC_DriveStall` | `SPECIFICATION Spec`, `Events = {"toggle"}` | `CaughtUp` | true drive emulation switched on again restarts `stop_clk` but not the clock (`drivecpu.c:214`): the drive stands still, or, if its clock was past half the range, runs for up to 2^31 cycles at once |
| `MC_DriveClock` | `Skippers = {0}` | `NeverAhead` | while the guard acts, the test for a long sleep reads the decremented `maincpu_clk` (`drivecpu.c:293`) |
| `MC_DriveCia` | `CiaTimers = {}`, `ViaTimers = Alarms = {v1, v2}` | `SomethingToDispatch` | warping an empty table leaves a next-pending clock with no alarm behind it (`alarm.c:96`) |
| `MC_InterruptSnapshot` | `NmiLines = {cia2, cart}`, `INVARIANT LinesCounted` | `LinesCounted` | the freeze button's NMI line is counted in a snapshot but restored by nobody (`c64-snapshot.c:70`) |
| `MC_InterruptSnapshot` | no constraint, `INVARIANT NmiIsEdge` | `NmiIsEdge` | after a failed read in the menu the count of NMI lines is the file's and the lines are none, so an edge goes unnoticed until the reset that was asked for |
| `MC_Input` | `Parts = {"autostart"}`, `buffer_size = 1`, `INVARIANT WarpGivenBack` | `WarpGivenBack` | an old RUN, left in the queue, starts a program before the new LOAD is typed; the reset that ends this autostart leaves its callbacks registered and LOAD in the queue, and the LOAD of a machine nobody autostarts then calls `disk_eof_callback` (`autostart.c:539`), which turns off the warp mode the user has turned on. Found by the proof: within the run's bounds, with chunks of two, it does not occur. |
| `MC_Interrupt` | `Traps = {"save", "other"}`, `Events = {"trap"}` | `TrapNotForgotten` | a second trap replaces the first (`interrupt.c:287`) |
| `MC_Interrupt` | `Events = {"jam", "trap"}` | `TrapNotForgotten` | the reset after a jam clears a trap that is pending (`interrupt.c:66`) |
| `MC_Interrupt` | `Traps = {"save", "load"}`, `Events = {"trap", "monitor"}` | `MonitorStays` | loading a snapshot turns existing breakpoints off (`interrupt.c:373`) |

Others were met while reading and modelling. They are in the models as the code has them (history
variables such as `remapped`, `disturbed`, `muddled`, `switched`, `leftover` mark the states that
the properties except), or in the parts left out:

* *Keyboard.* A text shorter than the last one types a stale character (`kbd.c:362`); a pad button
  remapped while it is held leaves its old key down (`joy.cpp:195`); a restore key pressed again
  before the delivery of its release loses the release; a reset warps neither the keyboard's alarms
  nor the restore key's (`maincpu.c:341`); a snapshot restores `keyarr` but not `latch_keyarr`.
* *Autostart.* A file that is not found leaves `LOADINGDISK` for ever; what is left in the queue
  survives a reset, so an old RUN can be typed into a new start; the remembered true drive emulation
  is that of an earlier start when a tape or a jam comes in between; warp is not given back after a
  snapshot or a jam; a serial trap may still call back after a reset ended the autostart; an error
  counts as "in progress" for the pads (`autostart.c:1162` against `joy.cpp:215`), which are then not
  polled until the next start.
* *Recordings.* An input between the request of a reset and the reset is played late; so is one
  whose alarm comes due then; an overflow in that gap, and two inputs at the very boundary of a
  subtraction (`event.c:345`), confuse `next_alarm_set`'s guess.
* *Network.* After a FIN in the middle of a receive `recv` is asked again for ever
  (`network.c:254`); a client that cannot read the snapshot does not close its socket, and the
  server waits; a failed send disconnects twice and leaves IDLE; an error between the
  test packets leaves no event lists; the client's receive of the delta is not checked
  (`network.c:341`): when the server is gone it takes what its uninitialised variable holds for the
  delta, makes that many lists, says so on the screen and plays alone until its first send fails; had
  it held 0, the next frame would divide by zero (`network.c:178`; the model lets the host stop as if
  without lists); a second receive error returns without disconnecting (`network.c:727-731`);
  the sync test is a trap and shares the one slot with all others.
* *Datasette.* A tape detached with the motor on lets the next one play with the line off
  (`datasette.c:731`); `long_gap_elapsed` and `last_direction` are stale after RECORD; an alarm
  later than a gap is forgiven.
* *CIA.* PB6/PB7 are toggled before the timer is brought up to date (`ciacore.c:480`, `513`), so a
  late underflow toggles them once more (ports are not modelled); a timer stopped or switched in the
  very cycle of a step keeps the step; when ICR is read in the cycle in which timer A underflows
  while an alarm of timer B from an earlier cycle is still to come, B is served after A, for its own
  clock, finds A's flag and sets bit 7 a cycle early (`Overtaken`, the one exception in `AsOnChip`);
  an interrupt may be dated off by the lateness of the alarms
  when both timers are due.
* *Serial bus.* A reset, or a unit switched off, in the middle of an OPEN leaves the half name in
  the one buffer (`fsdrive.c`), and it prefixes the next name; a unit switched off in a transfer can
  hang the Kernal in an unlimited wait; a reset clears the status of 15 of 16 channels
  (`serial-iec-device.c:241`); writing the bus runs only the drive the configuration names
  (`iecbus.c:228`).
* *Sound.* The port's condition is waited on without a predicate and signalled without its lock, so
  signals get lost; "number of samples" (`sound.h:67`) is taken for frames, so that a fill or a
  refill writes more than the queue holds and the emulator sleeps in it, which a comment says must
  not happen (`sound.c:1015`); with no space `nr` is 0 and `sound.c:1045` reads `buffer[-1]`; the
  device is unloaded before it is closed.
* *Vsync.* "0,25 second" is an eighth (`vsync.c:442-444`).

## 8. What is not modelled

* *Drawing, sound synthesis, disk rotation*: numeric signal processing without control that
  these methods would help with.
* *File formats, host input and output, configuration, translation*: parsing and I/O.
* *The other machines'* own chips; they share the components above.
* *Virtual drive and its BAM, the flash chip, the parallel bus, the monitor's parser, ACIA.*
* Of the modelled components: IK_DMA and cycles stolen by the video chip
  (`interrupt_fixup_int_clk`); ROM traps; the effect of opcodes other than on I and time; the CIA's
  ports, flag line, TOD and shift register; the VIC-II's fetch and interrupt alarms; a change of
  the drives' `sync_factor`; the true drives' lines on the serial bus; names of more than
  `SERIAL_NAMELENGTH` characters, which are cut (`fsdrive.c:259`; the Kernal's `OPEN` has a byte for
  the length), and units without a driver (`fsdrive.c:267`); the other CIA models; a reset in `MainClock` (it is
  in `Interrupt` and `DriveClock`); writing to tape; `alarm_new`/`alarm_destroy` while running.

Network play is not compiled into this port (`HAVE_NETWORK`, `arch/ps3/config.h:92`); it is modelled
as other ports build it. `PROJECT.json` (`components`) has the full list with reasons.

The map covers a small share of the repository's lines: most of them are the tables, other machines,
libraries and I/O named above.

## 9. Plan

Proofs: the keyboard's parts but for the shared shifts; `ReplayIsExact`; `BusComesFree`.

Models: `Interrupt` with DMA; the true drives on the serial bus together with `DriveClock` (who sees
which level at which clock); block allocation of the virtual drive; the flash chip's command state
machine; the parallel bus handshake.
