# A TLA+ model of SVMM

SVMM is a user-space virtual machine monitor for Windows: one process that runs
one virtual CPU through the GVM (KVM-like) driver and emulates the devices of an
i440FX/PIIX3 PC.  This directory holds TLA+ modules of its devices, the TLC
configurations that check them on small instances, and TLAPS proofs.

## 1. The system

`main` (`SVMM.c`) initialises every device and then loops: it enters the guest
with the driver's RUN call and dispatches on the exit reason.  Every
device handler runs on that one thread, so a handler is atomic; what interleaves
is the *order* of exits (guest port and MMIO accesses, timer exits,
interrupt-window exits), which no code controls.  The window procedures run on a
second thread (`UIThread`) and share the bitmap and the ring of input events with
the main thread.  The debugger server blocks the main thread while it serves.

| Component | State | Operations | Interacts with |
|---|---|---|---|
| main loop `SVMM.c` | `svmm_events`, `kvm_run->request_interrupt_window` | exit dispatch, interrupt injection | all devices |
| 8259 PICs `pic.c` | two chips: IMR, IRR, ISR, pins, priority, offset, mode, init state | raise/lower a line, ports 20h/21h/A0h/A1h, acknowledge | IOAPIC (every line is forwarded), main loop, PIIX3 (ELCR) |
| local APIC `apic.c` | IRR/ISR/TMR, TPR, LVT, timer, ICR, DFR/LDR | MMIO page, acknowledge, EOI, bus delivery, timer | IOAPIC, main loop |
| I/O APIC `ioapic.c` | 24 redirection entries, pin levels | MMIO window, raise/lower, EOI | local APIC |
| timer service `timer.c` | 32 timers, the clock | create, register, activate, tick | PIT, CMOS, PS/2, HPET, IDE, ACPI, VGA |
| PIT `pit.c` | 3 counters, latches | ports 40h-43h, 61h, timer | timer service, PIC line 0 |
| CMOS/RTC `cmos.c` | 128 registers, time | ports 70h-71h, three timers | timer service, PIC line 8 |
| PS/2 `ps2.c` | controller registers, two byte queues | ports 60h/64h, timer | PIC lines 1 and 12 |
| HPET `hpet.c` | main counter, 3 comparators | MMIO, timer | PIC, IOAPIC |
| DMA `dma.c` | two controllers, 8 channels | ports, hold request/acknowledge | memory |
| PCI `pci.c`, PIIX3, i440FX | configuration space, port and MMIO handler registries, IRQ routing | CF8h/CFCh, BAR writes | every PCI device, PIC, IOAPIC |
| IDE/ATA/ATAPI `ide.c`, `harddisk.c`, `cdrom.c` | task file, buffers, bus master | ports 1F0h.., PRD transfer on a timer | PIC lines 14/15, images |
| images `vhd.c`, `sparse.c` | block tables | seek, read, write | disk |
| flash `flash.c` | command state | MMIO | - |
| ACPI `acpi.c` | PM registers, PM timer | ports, timer | PIC line 9 (SCI) |
| BIOS messages `bios.c` | two message buffers | ports 400h-403h, 500h | - |
| VGA `vga.c`, `vgacore.c` | register file, four planes, marks of changed tiles | ports, memory windows, redraw timer | GUI |
| GUI `gui.c`, `win32gui.c` | bitmap, text snapshot, font, palette, ring of input events, modifier keys, mouse capture | draw, flush, `WM_PAINT`, key and mouse messages, event timer | VGA, PS/2 |
| memory slots `gvm.c` | table of memory regions | insert, search, alias, protect | i440FX, PCI |
| debugger `SvmmDbgServer.c` | packet id | packets over a socket | CPU state |

What makes each hard:

- **Interrupt path.**  One event bit and one window request stand for all pending
  lines of a controller.  A handler that consumes them must re-arm them for what
  is left, and every early return in front of that is a possible lost interrupt.
  The PIC's line 2 carries a whole second chip through an edge detector.
- **Re-initialisation and modes.**  A guest reprograms the controllers while
  devices keep raising lines.
- **Stale choices.**  The PIC chooses a line in one exit and acknowledges it in
  another.
- **BYTE arithmetic** on vectors, used as shift counts.
- **Timers** are a table indexed by ids that several devices never set.
- **Moving windows.**  A guest moves port ranges over one another and aliases
  memory; what was there before has to come back.
- **Transfers in pieces.**  A disk command runs over many port accesses; its
  registers, buffer index and status bits have to stay in step through resets,
  drive selects and timer expiries between any two of them.
- **The screen** is brought up to date from marks set at each write; a wrong mark
  is a stale tile.  The window thread paints from the same bitmap.

Properties that make each component correct: no deliverable interrupt without
its event and window request (PIC, APIC); pins follow their devices; priorities
are given back; a level interrupt is redelivered while its line is up (IOAPIC);
a one-shot timer fires once and can be re-armed (timers); queues stay within
their bounds (PS/2); handlers are found exactly at the ports a BAR names (PCI);
a transfer hands over what was asked for, in order, and ends with it (disk);
memory of the system management mode stays hidden (i440FX); whatever the screen
lacks is marked (VGA); input arrives once and in order (GUI).

## 2. Plan

1. `Pic`: done (section 3).
2. `LocalApic`, `IoApic`, composed in `ApicBus`: done (section 4).
3. `IntrSystem`, both controllers and the main loop that shares one window
   request between them: done (section 5).
4. `Ps2` and `Cmos`, composed in `RtcKeyboard`: done (section 6).
5. `TimerTable`, `Pit` and `Hpet`, composed in `Timers`: done (section 7).
6. `Ata`, `Atapi` and `Ide`, composed in `Disk`: done (section 8).
7. `Gvm`, `Pci`, `Acpi`, `Piix3`, `I440fx`, `Dma` and `Bios`, composed in
   `Chipset`: done (section 9).
8. `VgaCore`, `VgaPorts`, `Gui` and `Win32Gui`, composed in `Display`: done
   (section 10).
9. Proofs for `Timers` (`TimersProofs`), `Chipset` (`ChipsetProofs`) and `Disk`
   (`DiskProofs`), with the facts about loops in `Rounds`: done.
10. Proofs for `Display` (`DisplayProofs`), the input and the screen: done.
11. Proofs for the whole interrupt path, of `PicNotStarved` (in `PicProofs`) and
    of `LapicNests` (in `ApicProofs`): done.
12. Not proved: `StaleIsMarked` and `TextShown`.  They hold in the sessions of
    the run and not in every session the constants allow (section 10).

**Sessions.**  The compositions of sections 7 to 10 have so many registers that
all of them moving at once is out of reach.  Their guest is in one of several
*sessions*: the devices it uses and the values it writes.  A session bounds the
inputs and, for the display, gives the mode to start in; the handlers and the
properties are the same in all of them (only the derived values of the CRT
controller are not compared where the mode to start in does not have them from
its registers), and a session holds together whatever interacts.  The proofs
hold for any set of sessions.

## 3. The 8259 pair: `Pic`

**State.** `pic[0..1]` is the array `Pic[2]`; the byte registers are sets of line
numbers, `State` is the initialisation state, `Mode` the set of mode bits.
`RequestIcw4` and `Cascade` are the bits of `InitCmd[0]` and `InitCmd[2]` that
the code tests, `ReadSelect` the two low bits of `OperationCmd[2]`.  `events` and
`window` are `svmm_events` and `request_interrupt_window`.  `wire` is the
environment (the level each device last drove) and `settled` a history variable:
the chip has been serviced since the last write that changes what is deliverable
without calling `PicService`.

**Handlers as operators.** `PicService`, `PicIAC`, `PicRaiseIrq`, ... are
operators from a machine record to a machine record, so that nested calls (a
slave service raising line 2, an acknowledge servicing both chips) are one step,
as in the code.  The scan loops are set expressions: `Deliverable` is what the
nested scan may stop at and `Lowest` where it stops.  An action is a guest port
write, a device edge or the interrupt-window exit.

**External.** Whether the GVM_INTERRUPT call succeeds is the input `accepts`.

**Not in the model.** The IOAPIC forwarding in `PicRaiseIrq`/`PicLowerIrq`
(it is in `IntrSystem`), the HAXM variant (the build defines GVM), and the
endless scan with `CurrentPriority` 255 (a hang, not a state).

### Runs

| Run | Shows |
|---|---|
| `pic_nested` | lines 1 (master) and 9 (slave, behind line 2), any order of edges, initialisation, masks, EOIs and acknowledges, with special mask mode, a level line, a vector offset that wraps around 255 and a hypervisor that refuses one line: `CascadeLatched`, `MasterSignalled`, `SlaveSignalled`, `PriorityReleased`, and `HighestServed` (the highest-priority master line does not wait forever) |

**Bounds.** The two lines give every relation the properties speak of: line 1 is
above the cascade on the master, and line 9 is behind it.  Masks are "all open"
and "all closed", so that unmasking a pending line happens.  Register widths are
the real ones; nothing is capped.  Other lines, offsets and guests without a
cascade bit are covered by the proofs below.

**Fairness** (`FairSpec`, in `pic_nested`).  The driver exits once a requested
window opens, and a guest's handler ends with a non-specific EOI while a line is
in service.  Weak fairness is written out with its enabling condition.
`HighestServed` allows the line to wait while it is itself in service, and must:
a non-specific EOI may keep ending the interrupts of a lesser line instead
(section 12), so with two busy master lines the better one can starve.

### Proofs

`PicProofs` proves, for all lines, offsets, register values and guests,
`TypeCorrect`, `MasterNoLostWakeup` and `MasterEdgesSeen` (`MasterPinsFollow`).  The inductive
invariant `Inv` adds `SettledReady` to the three: without "a settled chip is
initialised", ICW4 could make a settled chip nested and its old requests
deliverable.  The proof describes a call of `PicService` by a relation between
machines (`Grown`), shows that a service of the master establishes `Asked`, and
covers the actions by two lemmas, "update a chip and service it" and "update a
chip and leave it".

Its second part proves `CascadeStaysLatched` and `SlaveNoLostWakeup` for
guests that set the cascade bit in ICW3 and do not use the special mask mode
(TLC finds counterexamples without either).  The invariant `CascadeInv` needs
that a pending event was raised by an initialised master which chose one of its
own lines: only then does the acknowledge compute that line back and drop
request 2 together with pin 2.

Its last part proves `PriorityIsReleased` (`PriorityReleased`) for such guests if
they also end interrupts with the non-specific EOI and give the slave one vector
base.  Neither can be left out: a specific EOI leaves the level at the ended line,
and for a guest that initialises the slave with a second base TLC finds a
counterexample: the request at line 2 of the master outlives the slave's ICW1, and
`PicIAC` subtracts the new base from the old vector, so the level is no line at
all.  The invariant `PriorityInv` needs `Backed`: behind a request at line 2, and
behind a choice of it, is a line the slave chose with the base it still has.

Only model-checked: the liveness property `HighestServed` (fairness is outside the
proof system).

## 4. The APICs: `LocalApic`, `IoApic`, `ApicBus`

**Modules.** `LocalApic` and `IoApic` hold the handlers of `apic.c` and
`ioapic.c` as operators on machine records; `ApicBus` gives them state and
actions (device lines, every register the guest writes, the timer's expiry, the
window exit).  `PriorityNesting` is the abstract specification: two sets,
`pending` and `active`; the highest pending vector is delivered, only above the
classes in service, and interrupts end in the reverse order of delivery.

**State.** `lapic` is `Lapic[0]` (`NUM_LOCAL_APICS` is 1): 256-bit registers are
sets of vectors, destinations are sets of bits, priorities are the upper four
bits the code compares.  `ioapic` is `IoApic` with the redirection table split
into its low and high halves, as the guest writes them.  `Timer` is the state of
the APIC timer's entry in the timer table (off, one-shot, periodic); when it
expires is left open, so `TimerExpires` may happen whenever it is on.

**The loop over the pins.** `IoApicService` calls `IoApicSetIntr` for every
pending pin.  The model states the joint effect as sets (`Sending`, `Fresh`,
`Arrived`, `Sent`), which is what the other proofs reason about; `Loop` is the
loop as it is written, one `Turn` per pin, and `ServiceIsLoop` says that the two
agree, in every reachable state and with any lines raised on top.

**Abstracted or excluded.** Register reads without effect; the timer's period
and current count; LVT entries other than the timer's, which are only stored;
`MsrEnable`, which is always set.  The driver calls for SMI, NMI and INIT are
external and the modes that only make them are one value, `"other"`.  The
guest is assumed not to use the reserved delivery mode (the process exits) and
to leave the destination of a self IPI zero (it is used as an index).

### Runs

| Run | Shows |
|---|---|
| `apic_nested` | two pins, edge and level entries, two vectors of one class and one of another, a self IPI, a moving task priority: `LapicSignalled`, `RequestOutranks`, and the refinement `NestsByPriority` |
| `apic_routes` | logical destinations, refused low-priority messages, an illegal and a shared vector: `ServiceIsLoop` |
| `apic_ipi` | IPIs with every shorthand, the timer in both modes, ESR, SVR: `HighestAcknowledged` under `FairSpec` |

**Bounds.** Vectors 48, 49 (one class), 64, 80: a class above, the same class,
and a class below.  Two pins are what a shared vector and the order of the loop
need.  The register widths are the real ones.

**Fairness** (`apic_ipi`).  The hypervisor exits when the requested window
opens, and a guest in an interrupt handler ends it with an EOI.  Nothing is
assumed of devices.  The property is conditional on the guest leaving the task
priority at 0, and speaks of the highest vector in use: a lower one may starve.

### Proofs

`ApicProofs` proves for all constants `TypeCorrect`, `LapicNoLostWakeup`,
`EventOutranks`, `ServiceNests`, `EdgesGoOut` and the refinement
`ImplementsNesting`, from `ApicBusAssumption` (the values a guest writes fit the
registers).  The invariant is `Good(Machine) /\ EdgeClear(ioapic)`; `Good` says

- window and event go together (`ApicService` tests both, `apic.c:104`; were
  only one of them set, it could return without the other),
- the event stands for a request above everything in service,
- the classes in service are distinct, and
- a request above the processor priority has the event.

`LapicSignalled` alone is not inductive: an acknowledge clears the event, and
only the second conjunct says that what it moves is a request above the rest.
Each handler is one lemma over arbitrary machine records (`LocalStep`, `Step`);
that records are updated field by field makes the lemmas independent of the
action that calls them.  The first conjunct holds because only the local APIC
asks for windows in `ApicBus`.  Section 5 shows what happens when that is not so.

`LoopIsService` justifies the joint effect: `ServiceIsLoop` holds always.  `UpTo(m,
k)` describes the machine after the turns of the pins below `k` by three sets of
pins (whose message reaches the local APIC, is taken, is refused).  One turn adds
its pin to these sets (`TurnStep`): its vector is illegal, requested already, or a
request of its own (`ArriveNext`), and a second `ApicService` never undoes the
first (`MadeAgain`).  The loop is a function on the 25 turn counts; a least count
at which it left `UpTo` would contradict `TurnStep` (`LoopIs`).

Only model-checked: the liveness property.

## 5. The interrupt path: `IntrSystem`

`IntrSystem` extends `Pic` and instantiates `ApicBus` over the same lines, the
same `events` and the same `window`, as `svmm_events` and
`request_interrupt_window` are shared in the program.  A line a device drives goes
to the I/O APIC and then to the 8259 pair (`pic.c:207`, `pic.c:224`); the window
exit serves the 8259 pair if its event is pending and the local APIC otherwise.

| Run | Shows |
|---|---|
| `intr_shared` | one line wired to both, an IPI, both controllers reprogrammed: the 8259 pair loses no wake-up (`PicNotStarved`), and delivery still implements nesting by priority (`LapicNests`) |
| `intr_starved` | violation: the local APIC does lose wake-ups, because `ApicService` records nothing while the other controller holds the window |

So `LapicSignalled`, proved for the APICs alone, is exactly what does not survive
the composition.

**Proofs.** `PicProofs` ends with `PicNeverStarved`: `PicNotStarved` holds for all
lines, register values and guests of both controllers.  The invariant is that of
the 8259 pair alone (section 3).  Two facts carry it over: the handlers of `pic.c`
do the same to a machine record with the APICs in it (`Full`), and those of the
APICs leave the chips alone, keep the event of the pair and never close the window
(`Beside`).

`ApicProofs` ends with `SystemNests`: `LapicNests` holds, although the invariant
of section 4 does not (the main loop closes the window for the 8259 pair and
leaves the event of the local APIC behind).  The proof runs a machine of the APICs
alone along with the system, its *shadow*: the same two controllers, at least the
pending event, and a window that only the local APIC asks for.  Every handler of
the APICs keeps the shadow when both take it (`ShadowService` to `ShadowEoi`); a
handler of the 8259 pair changes neither controller and never records the event of
the local APIC, so the shadow stands still (`BesideService` to `BesideWrites`); the
acknowledge finds the event in the shadow, too (`WindowFollowed`).  The shadow
keeps the invariant of section 4, and its registers, which are those of the
system, nest.  `SameService` to `SameIo` say that the handlers of the instance are
those of `ApicBus`.

## 6. Keyboard and clock: `Ps2`, `Cmos`, `RtcKeyboard`

**Modules.** `Ps2` and `Cmos` are the handlers of `ps2.c` and `cmos.c` as
operators on machine records; `TIMER` in `Ps2` is a slot of the timer table;
`RtcKeyboard` gives them state and actions.  They belong together because they share a slot:
`Ps2.TimerId` and `PeriodicTimerIndex` are never assigned and so name slot 0,
which is the update timer of the clock, and two counters of the PIT do the same.

**State.** `ps2` is `Ps2` with the keyboard inside.  Registers are sets of bits;
the bytes in the controller's queue and the keyboard's memory are counted, and of
the output buffer it is kept whether its byte is unread.  `cmos` keeps the status
registers, the selected address and whether the time registers show the clock
(`Time`) or a time the guest wrote under SET.  `timer0` is `Timers[0]`, `lines`
the PIC lines the two devices drive, `exited` records `exit(-1)`.

**Actions.** One per port access (read and write of 60h, 64h, 70h, 71h), a key
press (`win32gui.c:1431`), the two ticks (`UipTick` for slot 0, `Ps2Tick` for the
keyboard's own slot), the PIT's use of slot 0 and the HPET's legacy switch.
`TimerTick` handles its slots one after the other without touching anything else,
so each slot is an action of its own.

**Abstracted.** What the bytes are: scan code tables, the output port, LEDs,
typematic rate.  When a slot is due: an active one may be due at any tick.

| Run | Shows |
|---|---|
| `keyboard` | `KeyboardNotStranded`: a key the keyboard could hand over always has a tick asked for; `OnlyResetConfuses`: buffer, flags and queue stay in step except through a keyboard reset; `KeyboardDrains` under `FairSpec` |
| `rtc` | `RtcLineHasReason`: IRQ 8 is up only with a reason in register C; `OnlyTrespassDisturbs`: through every register write and tick slot 0 agrees with registers A and B, unless one of the others uses it |

**Bounds.** `keyboard` has a queue of one byte and a memory of two, so that both
are empty, partly filled and full, overflow, and `exit(-1)` happens; a key has
two bytes, so that one is cut.  The bytes written serve both as keyboard commands
and as operands: they clear and set every mode bit.  Deadlock is not checked
there, because the monitor may have exited.  `rtc` uses the real sizes and bytes
that set and clear every bit of registers A and B the code tests.

**Fairness** (`keyboard`).  `TimerTick` runs at every timer exit and the
keyboard's slot is never stopped, so a tick that is asked for comes; and the guest
reads port 60h while the output buffer is full.  `KeyboardDrains` is conditional
on the guest doing nothing else any more: one that keeps resetting the keyboard
loses its keys.

**Proofs.** `RtcKeyboardProofs` proves, for every queue and memory size and all
bytes, `TypeCorrect`, `KeysNeverStranded` and `RtcLineReasoned`.  The invariant is
their conjunction on the machine record, `Good(Machine)`; it is inductive as it
stands because every handler that stores a key, empties the buffer or starts the
clock asks for a tick.  There is one lemma per handler (`QueueByteGood`,
`SetModeGood`, `CrbChangeGood`, ...), so that a handler called by another is
treated once.

The action properties are `ResetAloneConfuses` (`OnlyResetConfuses`) and
`TrespassersAloneDisturb` (`OnlyTrespassDisturbs`).  Each names what must hold
before a step and then holds after it (`Coherent`, `PeriodicAgrees`) unless the
step is the one exception the code makes; the proofs show that no other handler
breaks it.  Only model-checked: the liveness.

## 7. Timers: `TimerTable`, `Pit`, `Hpet`, `Timers`

**Modules.** `TimerTable` is `timer.c`; `Pit` and `Hpet` are the handlers of
`pit.c` and `hpet.c` on it; `Timers` gives them state, the guest's accesses and
the tick.  `TIMER` (section 6) stays as the one slot that the clock and the
keyboard share, because the proofs there need no more.

**State.** `slots` is `Timers[]`, with the time left of each wait instead of an
absolute clock; `pit` and `hpet` the devices, `rtc` is `Cmos.InterruptEnabled`,
which the HPET switches; `lines` the PIC lines.  `fired` are the slots whose
handler the last step called, and `parity` counts ticks modulo 2, so that a tick
that changes nothing else is a step.

**Abstracted.** A byte has `BYTE` values.  Of the time since a load of a PIT
counter the model keeps which transition of the output has been reached; what a
running count shows is arbitrary, and so is how far away the next transition or
expiry is (up to `MaxWait`).  Reads of the HPET have no effect and are left out.

Run `timers`:

- `TimersConsistent`: types, and the interval timer and the clock have their lines
  exactly when the HPET does not replace them;
- `DiesUnloadedOrWide`: the divisions by a count (`pit.c:88`) fail only for a
  counter that was never loaded, or loaded last with a value of more than two
  bytes.  The second case is real: the main loop passes the whole double word of
  an OUT of any size (`SVMM.c:848`), `PitWriteHandler` passes it on to
  `PitLoadCount` when one byte is loaded (`pit.c:364`, `pit.c:367`), and there
  `!Value ? 0x10000 : Value & 0xffff` (`pit.c:249`) makes a count of zero of
  0x10000.  `wide` in a counter records such a load, for the property alone;
- `LatchedCountKept`: what was latched is what is read, whatever is written
  between the two bytes;
- `PendingRaises`: a level interrupt of the HPET that becomes pending raises its
  line and the line stays up until the guest clears it, whether the write that
  unmasks it or the tick comes first.  It is stated for a timer that shares its
  line with no other timer of the HPET (`OwnLine`): two that share one take it
  from each other (section 12);
- `SlotsFire`: a slot that stays active fires again and again, however often its
  device starts it anew.

**Bounds.** Four slots (the shared slot 0, the PIT's, two of the HPET), waits of
up to two ticks, one routing of the HPET's timers.  Two timers are what sharing a
line and legacy replacement need; timer 2 is treated as timer 1 is.  Six
sessions, one of which writes words and double words to a port (a byte has two
values there, a double word sixteen).  Deadlock is not checked, because the monitor may have died.

**Fairness.** `WF_parity(TicksGoOn)`: the hypervisor's timer exit comes again and
again (`SVMM.c:1034`) as long as the process lives.  Nothing is assumed of the
guest.

**Proofs.** `TimersProofs` proves `TimersStayConsistent`,
`DeathIsUnloadedOrWide`, `LatchStays` (`LatchedCountKept`) and `PendingKeepsLine` (`PendingRaises`) for
every number of slots, width of a byte, set of HPET timers, routes, waits and
guests.  The assumptions are those of the modules: the slot of the PIT is not
slot 0 and belongs to no HPET timer, and a guest writes double words.  The invariant
`TimersInv` is `Sound` and `Replaces` of the machine record.  `Sound` adds two
facts to the types and to `DiesUnloadedOrWide`:

- `Loaded`: a count of zero was never written or is that of a wide load
  (`PitLoadCount` turns a written zero into the full period); without it a
  division by zero says nothing about the counter;
- `Awake`: while the slot of the PIT is active, its counter has a next transition,
  so the handler never takes "never" for a time.

Each handler is shown to be `Smooth`: it keeps `Sound`, the configuration of the
HPET, the latched counts, and the line of every pending level interrupt that
shares its line with none.  `Smooth` composes (`SmoothTwice`), so a tick is the
induction over its rounds (`TickSmooth`), and the action properties are facts
about one `Step`.  Two writes are not `Smooth` and are treated on their own:
`WriteConfigure`, which takes lines away before it disables the HPET
(`DisableCalm`), and `WriteTimerConfig`.  Reading a data port gives a latch up
and is only a `Step`.  `SlotsFire` is liveness and stays with TLC.

**Loops.** What a loop of the code computes is a recursive function of the number
of its rounds.  `Rounds` has the two facts that make such a function usable
without an induction rule that takes a predicate: a set of numbers has a least
element, and a set that holds 0 and with each number the next holds all of them.
The first round that fails is then a contradiction.  `TickRounds` shows that the
rounds of `TimerTick` exist, `TickSmooth` what they keep; `Chipset` uses the same
for moving a register and for the search by halves.

## 8. Disks: `Ata`, `Atapi`, `Ide`, `Disk`

**Modules.** `Ata` has the drive, its addressing, the sector transfers and status
changes of `harddisk.c`, and the command, control and data ports; `Atapi` the
packets of `cdrom.c` and `harddisk.c`; `Ide` the bus master of `ide.c`;
`Disk` composes two channels, one with a disk and one with a CD-ROM drive.

**State.** `ata` is both channels with two drives each (the second absent), `bm`
the bus masters, `lines` IRQ 14 and 15.  `request` and `proper` are history: the
read the guest asked for, and whether it keeps to the protocol: it moves data only
when the drive asks, and sets a byte-count limit before a packet.  A sector's
content is its address, so "the data is right" reads as "the addresses are";
status, error and control bits are sets.

**External.** Seek and read of a VHD image are a seek and a read that ends the
process in an unallocated block (`dies`); a write stores nothing, as `VhdWrite`
does.  Contents of identity pages and packet replies are their lengths.

Run `disk`:

- `ReadsAsAsked`: a read in LBA mode runs through exactly the sectors asked for,
  through carries between the address registers and a count of 0 (256), and its
  request ends with the last of them;
- `DrqHasCommand`: whatever ends a command takes its request for data back;
- `BufferHasRoom`: while the disk asks for the data of a read or write, the index is
  inside the block and the block inside the buffer of `MAX_MULTIPLE_SECTORS` sectors,
  so a guest that waits for the request never meets the data port's `exit(-1)`.  The
  guest `Honours` words 47 and 59 of the identity, which name that number; one that
  does not is let past by SET MULTIPLE (section 12);
- `ReplyConserved`: a packet's reply is handed over in chunks that never exceed
  what is left of it;
- `DrivesConsistent`: types, the identity on record names the transfer mode in
  force, and the drive that is not there asks for nothing.  It can report an
  error: `DataReady` of the bus master is never taken back, so a guest that
  selects the absent drive after a transfer can have the bus master read from it.

**Bounds.** Sectors of two accesses, registers of eight values, two heads and
three sectors per track, a buffer of two sectors (so SET MULTIPLE can ask for one
more than there is room for), an image of nine sectors of which the last is
unallocated: carries into the next register, the wrap of the count, the end of the
disk and a failing read all happen, and a write goes through all of its blocks.
`IndexBound` stops a guest that
reads past the buffer without looking at the status.  Eight sessions pair the
commands that share state.

**Proofs.** `DiskProofs` proves the five invariants, for every image and geometry,
width of a register, size of a sector, packet and frame, descriptor table and set
of sessions (`DrivesStayConsistent`, `DrqAlwaysHasCommand`,
`BufferAlwaysHasRoom`, `ReadsAlwaysAsAsked`, `ReplyAlwaysConserved`).  The
assumptions are those of the modules: sizes are positive, the address registers
can hold the capacity, and the descriptor table ends with a marked entry.  None of
the five is inductive; `Inv` (theorem `DiskInvariant`) has three parts.

- `Fine`, for each drive: a data request belongs to a command that moves data and
  has room for it (`Asks`), and a multiple transfer has a block size, without which
  the next block could be empty, that fits the buffer (`Several`); a packet that asks has a chunk in
  hand and a limit for the next (`Replies`); a drive is never in a command of the
  other kind of drive, and only the disk counts sectors, so that the data port
  takes the branch the request was made for.
- `Pair`, for each channel: both drives see a reset alike, and a drive does not
  ask while the other one is selected.  The second part, like `Replies`, holds
  only for a guest that keeps to the protocol (`proper`); it is what rules out
  that a data request of one drive survives a command given to the other.
- `Recorded`: while a read is on record the disk is still in it, and its registers
  are at the first sector asked for plus those counted off (`At`).  `At` says
  nothing past the end of the disk, where `HardDiskIncrementAddress` goes on but
  the read does not.

Every handler has a lemma that it takes a good machine to a good one (the names end
in `Good`); the flag `proper` is a parameter of `Good`, so one proof serves both
guests.  A transfer of several sectors and the bus master's walk are loops; what
they keep is shown by induction on the rounds with the facts of `Rounds`.

## 9. The chip set: `Gvm`, `Pci`, `Acpi`, `Piix3`, `I440fx`, `Dma`, `Bios`, `Chipset`

**Modules.** `Gvm` is the sorted table of memory regions of `gvm.c` with its
search by halves; `Pci` the registry of ports, the configuration ports and the
base address registers (BARs); `Acpi`, `Piix3`, `I440fx` and `Dma` the
handlers of their files, `Bios` the flash memory and the message ports; `Chipset` composes them, since a
configuration write moves ports, routes interrupts and remaps memory.

**State.** `ports` maps each port to its handler, `bar` the BARs; `pins` and
`lines` are interrupt inputs; `slots` the memory regions.  The rest is one record
per device.  The count of the PM timer is abstracted to whether it has
overflowed; the contents of memory, of the flash and of DMA addresses to which
region, whether written, and a byte of two values.

Run `chipset`:

- `PortsLead`: the ports a BAR is set to lead to its device and the fixed ports
  to theirs, however the guest moves the BARs over one another;
- `RestoreIsTransparent`: sizing a BAR and writing its address back changes no
  port and does not end the monitor;
- `SmramHidden`: closed system management memory is not mapped anywhere and the
  display's window is the display's;
- `SciFollows`: the system control interrupt is up only with its event, and when
  enabled and down, the timer that will raise it runs.  It is sent to the pin that
  the guest's pin register names (`acpi.c:56`; `acpi.c:95` and `pci.c:246` write
  it).  A change of the register moves no level, so the pins before and after are
  recorded in the ghost field `left` and exempt until `AcpiPmUpdateSci` sets them
  again; one the register never returns to keeps its level, which is what the code
  does and no promise is made about;
- `HoldFollows`: the request for the bus is up for every unmasked request of the
  chained controllers and down without one;
- `ChipsetConsistent`: types (a firmware message stays within its buffer), the
  search finds the region that holds an address, a routed PCI line is registered
  with its interrupt, and reads of the flash see the firmware.

**Bounds.** A port space of 32, double words of 256 values, the three port BARs
and the two bases of the ACPI function with spans that overlap when moved, memory
of 64 units, two DMA channels per controller, messages of three bytes.  Twelve
sessions.  Deadlock is not checked, because several writes end the monitor.

**Proofs.** `ChipsetProofs` proves all six invariants for every port space, set of
registers, memory layout, firmware and guest: `ChipsetStaysConsistent`,
`PortsLeadToDevices`, `SizingIsTransparent`, `SciFollowsEvent`,
`SmramStaysHidden` and `HoldFollowsRequests`.  The invariant `ChipsetInv` is
`Good(Machine)`, a conjunction of one part per registry or device:

- `PortsGood`: addresses of registers are aligned (`Aligned`), the fixed ports
  have their devices (`Kept`), a register that is set has all its ports (`Owned`),
  and no two set registers overlap (`Apart`).  `PortsLead` alone is not inductive:
  that a register may be taken off its ports without touching another one needs
  `Apart`, which holds because `RegisterPortIoHandler` ends the monitor on a port
  that is taken;
- `SlotsGood`: the regions lie one behind the other without gaps at their places
  (`Layout`), from which `EndsFound` derives that the search by halves finds
  every one of them, by induction over its rounds;
- `SciGood`, `HoldGood`, `RoutesGood`, `FlashGood`: the relation of a line, a
  request, a route and the state of the flash to what they stand for.

The assumptions on the constants are what the code's tables give: sizes and masks
of the registers, double words of whole words, a fixed device at every port that
has one, guests that write one, two or four bytes, and byte writes only outside
the ports' registers (`ChipsetAssumption`).

## 10. The display: `VgaCore`, `VgaPorts`, `Gui`, `Win32Gui`, `Display`

**Modules.** `VgaCore` has the memory windows, the addressing of every mode, the
marking of tiles and the update of `vgacore.c`; `VgaPorts` its register ports;
`Gui` drawing, invalidation, text, fonts and palette (`gui.c` and the drawing part
of `win32gui.c`); `Win32Gui` the ring of input events, modifier keys and mouse
capture; `Display` composes them.

**Threads.** Port and memory accesses, the redraw timer and the event timer run on
the main thread, each atomically.  The window procedures run on `UIThread`.  What
is split into steps is what the other thread can see half done: `flush` and
`WM_PAINT` around the update rectangle, the three steps in which `UIThread` makes
`MemoryBitmap`, sets `UIinited` and clears the screen (`CreateBitmap`,
`SetUIinited`, `ClearFirst`) while the main thread may already draw, and
`enq_key_event`/`deq_key_event`, where the slot is given back before its event is
read.

**State.** `vga`, `gui` and `win` are the structures.  The screen is a colour or
the pixel of a character for every member of `Pixels` in `MemoryBitmap` (`bitmap`)
and on the window (`window`), with the rectangle `updated_area`, what Windows has
been asked to paint (`invalid`) and how far `UIThread` is (`thread`).  Tiles and
characters both go into `MemoryBitmap` and widen the rectangle
(`graphics_tile_update`, `DrawBitmap`), and `WM_PAINT` copies from there, so "stale"
is a comparison.  A character is placed pixel by pixel as `text_update_common` does
it, with panning, a split and a cut last row (`Place`); its picture is the code,
the attribute, the rows of the font and the colours it was drawn with (`CharPixel`).
History: `missed` (the screen changed in one of the ways of `Silent` or `Unmarked`,
which the VGA does not redraw, or was drawn before `UIThread` cleared it; section
12), in `gui` the pixels that were last drawn while the screen was stretched
(`stretched`) and whether plane 2 may have been written past the copy of the font
(`bypassed`), and in `win` the events put into the ring and not handled (`owed`), the
modifiers of which a press was the last event passed on (`handed`), those whose
make code the keyboard has been given (`guest`), those an event of which was
dropped (`lost`), and whether two threads have met in `enq_key_event` (`raced`).

**External.** `Expose`, another window uncovering ours, and the GDI calls.

Run `display`:

- `StaleIsMarked`: a tile of which `MemoryBitmap` shows anything else than what
  memory, start address, split and palette make of it is marked for the next
  update, in the modes of `ConsistentMode`.  It is claimed while the screen lies
  inside of the planes (`PixelOffset`) and until something is `missed`;
- `PaintCovers`: every pixel in which the bitmap and the window differ is inside a
  rectangle that will be painted, be it of a tile, a character or a cleared screen.
  Excepted is what was drawn while the screen was stretched: `updateUpdated`
  multiplies the rectangle, the drawing itself is not stretched;
- `TextShown`: the snapshot that text updates compare with does not run ahead of
  what is in `MemoryBitmap`, so every character there is that of the memory in the
  present font and palette.  The exceptions are those of the code: the cursor's
  colours stay where it was, a cell at the cursor may keep the picture of the
  complement it is marked with, and black characters of value 0 and those past the
  end of the copied part are not redrawn;
- `AluIsRasterOp`: the code's write modes, rotation, set/reset, function and mask
  are the textbook raster operation, bit by bit;
- `EventsInOrder`: every event that got into the ring comes out once and in order;
- `ModifiersInStep`: a modifier that `enq_key_event` has as pressed is one whose
  last event passed on, or still in the ring, is a press, and the other way round,
  except where an event was dropped; and the keyboard has been given a make code of
  it, or will be.  What the guest has is not the same: `Ps2GenerateScancode` returns
  for every release (`ps2.c:416`), so the guest is never told that a key is up;
- `DisplayConsistent`: types, the second copy of the font as long as no write has
  bypassed it, and the values derived from the CRT controller's registers, once
  they have been (`Derived`): those of `VgaCoreInitialize` have not.

**Bounds.** Two by two tiles of 16 by 2 pixels, so that a tile has neighbours in
both directions and a line crosses one; bytes of two bits and a palette of two;
text of two by two characters; a ring of three, so that it fills.  Addresses within
the planes are the real ones.  Of each tile, pixels of two neighbouring bytes in
every mode are kept track of, and those at the edges of tiles and characters
(`MCPixels`).  The sessions give each way of addressing, and each register group,
its own start mode; one graphics and one text session start while the window is
still being made.  A screen as large as the desktop, which sets the stretched size
apart, is left out.

**Proofs** (`DisplayProofs`), for any sizes of the screen, the ring and the
palette, any keys, and any accesses of the guest.  The first half is the input.
That the events come out in order is not inductive: an event is in the ring before
the tail has moved, and out of it while its slot is still to be read.  The
invariant `WinInv` adds who may be where (`Threads`): keyCS belongs to the main
thread while it has a slot it has not read, that slot is the one before the head,
and a thread that has found room still has it, because a full ring is one slot
short of the buffer and nothing but the head can move meanwhile; so the slot
given back cannot be the one stored into.  `Order` then says slot by slot that the
ring is what is owed.  For the modifiers, `Flagged` says that the flags are ahead
of the events on their way into the ring and `InStep` compares the keys that have
none; `handed` is always part of `guest`, as only presses add to either.  Two threads in `enq_key_event` at once set `raced`, and everything but
types is claimed only before that.

The second half is the screen.  `ScreenInv` joins the ranges of all registers
(`VGA`), the window (`GuiOK`: ranges, and `Covers`, the statement of `PaintCovers`),
the copy of the font (`Follows`) and the derived values (`Derived`).  Most
handlers leave memory, font and CRT controller alone (`Plain`); a port write may
also say what is to be done after it (`PortOK`), which is done in the order of the
code (`AppliedFollows`).  A write to the memory leaves the registers alone
(`WriteSteady`) and reaches the font only in the byte of plane 2 that
`set_text_charbyte` is given, unless it is chained or goes past the end of a plane
(`WriteFont`).  The derived values are proved register by register over `Follow`,
from the bits of each register they take.  The loop over the tiles is the function
`DrawTiles`; that it covers what it draws is shown with `Rounds`, for any number of
tiles.  The rectangle of an update of text is that of the least and the greatest
edges of the characters drawn (`DrawCharacters`), which are finitely many, so that
both exist (`Extremes`, `DrawnOK`); a screen with no whole row, where the code's
loops do not end, is no step of the model (`Endless`).  `AluIsRasterOp` follows from the ranges alone (`RasterOpOfWrite`).

`StaleIsMarked` and `TextShown` are checked by TLC only, in the sessions of the run:
both compare a picture with what its addressing makes of the memory, and a proof
would have to invert each of the ways of addressing.  Where the code does not
keep them, the statement says so (above and in `ConsistentMode`, `Silent` and
`Unmarked`); section 12 lists each case.

## 11. Not modelled, and what is only model-checked

- **Kernel debugger** (`SvmmDbgServer.c`, `windbg.c`): a blocking loop over one
  socket while the guest stands still; what could go wrong is the layout of the
  WinDbg wire format.
- **Serial and parallel ports**: handlers without state.
- **Images**: opening and checking of VHD files is file I/O; sparse images have no
  caller.
- **Main loop**: loading of ROM images, register set-up and address translation
  (`SVMM.c` 62-269, 453-520).
- **Hypervisor bindings**: driver calls, the slots of the SMM address space
  (`gvm.c` 284-320); `haxm.c` is not part of the build.
- **VBE**: its handlers are empty, so `VgaUpdate` is never called.
- **GUI**: tool bar, status bar, clipboard, dialogs, scan code tables.

Out of the prover's reach are liveness properties (`HighestServed`,
`HighestAcknowledged`, `KeyboardDrains`, `SlotsFire`).  `StaleIsMarked` and
`TextShown` are checked by TLC only, in the run's sessions; the proofs of sections 3 to 10 hold for all
values of the constants.  The type invariants of
`Pic`, `ApicBus` and `RtcKeyboard`, and `MasterPinsFollow`, `InServiceNested` and
`EdgeNotHeldBack`, are proved and have no run of their own.

## 12. Deviations

Where the code departs from what its own comments say, or from the hardware, the
model follows the code.  One departure has a run of its own, `intr_starved`.  The
others, met while modelling:

**Interrupt controllers**

- Of two nested interrupts a non-specific EOI can end the one of lower priority
  (`pic.c:320`, against "clear_highest_interrupt" in line 329).
- `PicIAC` puts the line chosen by an earlier `PicService` in service without
  looking at its request or mask again (`pic.c:167`).
- A specific EOI leaves `CurrentPriority` at the ended line (`pic.c:344`); the
  run of `PriorityReleased` uses the non-specific EOI.
- ICW1 of the slave leaves its request at line 2 of the master, so after an ICW2
  with another base `PicIAC` computes a line from the old vector and the new base
  (`pic.c:179`); `PriorityReleased` holds for guests that keep one base.
- `PicLowerIrq` returns for every line above 7 (`pic.c:211`), so a slave pin never
  goes low and its second edge is not seen until the slave is initialised again.
- In special mask mode the scan skips the open lines (`pic.c:93`).
- The IRR cannot be selected for reading, because the test for the ISR comes
  first and shares a bit with it (`pic.c:259`).
- A vector of exactly the class the task priority was raised to after its
  request is still delivered (`apic.c:278`).
- A level line that is still up at the EOI is not delivered again
  (`ioapic.c:93`, against "Clear ISR, TMR  request next INTR" in `apic.c:114`).
- A level interrupt sent while its vector is requested loses its trigger mode,
  so its end never reaches the I/O APIC (`apic.c:177`), and fixed delivery to a
  physical destination that does not exist counts as taken (`apic.c:314`).

**Keyboard and clock**

- Key releases are never sent: the release bit makes the key number exceed the
  bound tested first (`ps2.c:416`).
- The interrupt-enable bits of the PS/2 mode register double as the pending
  interrupts (`ps2.c:306`, `ps2.c:449`): a mode write may raise a line without a
  byte or forget a byte's interrupt, and interrupts cannot be disabled.
- A keyboard reset clears the full flag only (`ps2.c:216`); bytes left in the
  queue come out later as those of the device read then (`ps2.c:101`).
- A make code is cut where the keyboard's memory ends (`ps2.c:190`).
- The one-second and the periodic timer of the clock are never registered
  (`cmos.c:445`): the time does not advance, the periodic interrupt never comes,
  and enabling it arms the update timer instead.
- The tick overwrites the time a guest is setting with SET (`cmos.c:173`, against
  "Dont update CMOS user copy of time/date if CRB bit7 is 1" in line 157).
- Register C is cleared before it is read (`cmos.c:271`), so the guest always
  reads 0; a write of the hours in 12-hour mode keeps the tens only
  (`cmos.c:102`).

**Timers**

- Data written to port 41h goes to counter 0 (the test is `Address & 2`), and
  counters 1 and 2 use slot 0; any counter drives IRQ 0.
- Unlatched two-byte reads return the low byte only once; the status latch shows
  the output as of the load.
- Modes 2 and 3 divide by a count that is 0 before the first load, and after a load
  of one byte by a wider OUT whose two low bytes are zero (section 7).
- Absolute times are passed to the timer service as periods.
- `TimerTick` stops a one-shot slot after its handler, which may just have started
  it again (`timer.c:137`), and the HPET passes its periodic flag as the one-shot
  flag (`hpet.c:57`); `TimerDeactivate` clears the slot behind the last.
- The HPET looks the legacy bit up in the timer's configuration, where it means
  level-triggered (`hpet.c:24`); in level mode timers 1 and 2 share IRQ 8;
  enabling the HPET lowers the line of a pending interrupt (`hpet.c:132`), and
  masking a timer does not lower its line.

**Disks**

- A write sends the buffer before the guest has filled it (`harddisk.c:1178`), and
  `VhdWrite` stores nothing.
- `ReadSector` has no range check and wraps to address 0 (`harddisk.c:393`); the
  CHS increment compares the sector with the number of heads (`harddisk.c:192`).
- `SeekTimer` is never registered: SEEK, READ DMA and the packet reads stay busy
  until a reset.
- IDENTIFY does not reset `BufferIndex`; SET MULTIPLE accepts more sectors than
  the buffer has (`harddisk.c:1547`); an unknown SET FEATURES is neither done nor
  refused (`harddisk.c:1540`); the first block of a read raises no interrupt
  (`harddisk.c:1116`).
- `IdeTimer` takes success for an error (`ide.c:163`), the test in
  `BmdmaWriteSector` is inverted (`harddisk.c:371`), and the end of a transfer
  clears BSY during a reset, too (`ide.c:180`).
- A byte-count limit of zero leaves the state of the last reply
  (`harddisk.c:276`), and a write after the packet executes it again
  (`harddisk.c:557`).

**Chip set**

- PIIX3 routes cannot be switched off and the old interrupt keeps its bit; the
  bytes of a longer write are shifted by bits.
- Zeroing a BAR removes one port only; a 16-bit size probe, or ones written to the
  ACPI base, end the monitor; writes to the upper half of a BAR reach its
  neighbour.
- The SCI is computed from the status alone, arrives at pin 1 of the I/O APIC, and
  at another pin once the guest writes the pin register; the old pin then stays as
  it was (section 9).  The threshold of the overflow never moves; spans of the PM and SM blocks are
  swapped; the suspend bit is masked before it is tested.
- A20 is never cleared; interrupt pins of PCI devices do not share lines.
- The DMA acknowledge is never called (`SVMM.c:859`), the disable bit is looked up
  in the status, port 0Fh is not registered, and clearing a request of the second
  controller drops the pending one of the first.
- The flash's first cycle looks at the command in force and not at the one
  written, so it never leaves the read mode.

**Display and input**

- Changes of GC 5, SEQ 4, CRTC 1 and 12 and ATTR 10 cause no redraw (`Silent`);
  neither does a move of text.  A change to or from graphics forgets the last
  resolution first, so its redraw does nothing.
- Tiles are marked wrongly in the modes outside `ConsistentMode`: CGA with halved
  dot clock, word and double-word unchained modes, a split at an even line with
  double scan, and lines that overlap because the offset is less than the width.
- A line offset of 0 divides by zero in an unchained write (`vgacore.c:1017`).
- In the window of 128K an offset past 64K reaches the next plane, and from plane 3
  the bytes behind the memory that was allocated (`vgacore.c:1909`); the model
  takes them for memory.
- The first write of 0 to a CRT controller register is dropped, so the initial
  line compare stays.
- The cell of the old cursor is not drawn anew, because the address is compared
  with itself (`gui.c:1271`, against "invalidate character at previous and new
  cursor location" in line 1270).  A cell whose character was replaced by its
  complement while the cursor left it keeps the old picture.
- What is drawn before `UIThread` clears the screen (`win32gui.c:2020`) is lost: the
  main thread waits half a second and goes on (`win32gui.c:773`, against "Wait until
  UI init is ready before continuing" in line 772).  A tile drawn before there is a
  `MemoryBitmap` is unmarked all the same, and a character drawn before `UIinited`
  is in the snapshot.
- A text of less than one row, or narrower than one character, runs off the memory:
  the loops count down before they compare (`gui.c:1375`, `gui.c:1391`); the model
  has no step there (`Endless`).
- Drawing does not stretch, but the rectangle to be painted does
  (`win32gui.c:1806`), so with a factor of 2 the wrong part is painted.
- Fonts written through chained or CGA windows are not copied.
- A change of focus clears the modifier flags but the guest's keys stay pressed
  (`win32gui.c:1418`); an event is dropped after its flags have changed
  (`win32gui.c:1338`).
- `WM_KILLFOCUS` and `set_fullscreen_mode` enqueue without `keyCS`
  (`win32gui.c:824`, `win32gui.c:560`), the latter also on the main thread.
- A middle click without Ctrl leaves its bit in the toggle state, so every later
  Ctrl switches the capture; full screen is never left; mouse motion and buttons
  never reach the guest.
