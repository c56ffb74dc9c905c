------------------------------ MODULE Chipset ------------------------------
(***************************************************************************)
(* The chip set of SVMM: the configuration space of the PCI devices and    *)
(* what the guest sets through it, the host bridge, the ISA bridge, power  *)
(* management, the DMA controllers, and the flash memory and the message   *)
(* ports of the firmware.  The guest keeps to one of the Sessions.         *)
(***************************************************************************)
EXTENDS Acpi, Piix3, I440fx, Dma, Bios

CONSTANTS
    Sessions    \* what the guest is at

ASSUME ChipsetAssumption ==
    /\ {"PM", "SM"} \subseteq Bars
    /\ \A s \in Sessions :
           /\ s.targets \subseteq Targets
           /\ s.lengths \subseteq {1, 2, 4}
           /\ s.targets \cap Bars # {} => 1 \notin s.lengths
           /\ s.values \subseteq 0..(DWORD - 1)
           /\ s.ports \subseteq Ports

VARIABLES
    ports, bar,     \* the port handlers and the base address registers
    pins, lines,    \* of the I/O APIC and of the PIC
    slots, smbase,  \* mem_slots and Registers.smbase
    acpi, smi,      \* Acpi, and whether an SMI has been sent
    piix3, i440fx, dma, flash, bios,
    event,          \* EVENT_DMA
    exited,         \* the monitor is gone
    session         \* of the guest

vars == <<ports, bar, pins, lines, slots, smbase, acpi, smi, piix3, i440fx,
          dma, flash, bios, event, exited, session>>
Machine ==
    [ports |-> ports, bar |-> bar, pins |-> pins, lines |-> lines, slots |-> slots,
     smbase |-> smbase, acpi |-> acpi, smi |-> smi, piix3 |-> piix3,
     i440fx |-> i440fx, dma |-> dma, flash |-> flash, bios |-> bios,
     event |-> event, exited |-> exited]
Become(m) ==
    /\ ports' = m.ports
    /\ bar' = m.bar
    /\ pins' = m.pins
    /\ lines' = m.lines
    /\ slots' = m.slots
    /\ smbase' = m.smbase
    /\ acpi' = m.acpi
    /\ smi' = m.smi
    /\ piix3' = m.piix3
    /\ i440fx' = m.i440fx
    /\ dma' = m.dma
    /\ flash' = m.flash
    /\ bios' = m.bios
    /\ event' = m.event
    /\ exited' = m.exited
    /\ UNCHANGED session

Init ==
    /\ session \in Sessions
    /\ ports = PortsInitial
    /\ bar = [b \in Bars |-> PciSetBarIo]
    /\ pins = {} /\ lines = {}
    /\ slots = gvm_register_mmio(gvm_init, VgaWindow, SMM_RAM_SIZE)
    /\ smbase = 3
    /\ acpi = AcpiInitialize /\ smi = FALSE
    /\ piix3 = Piix3Initialize
    /\ i440fx = I440fxInitialize(CHOOSE t \in Targets : TRUE)
    /\ dma = DmaInitialize /\ event = FALSE
    /\ flash = FlashInitialize
    /\ bios = BiosInitialize
    /\ exited = FALSE

-----------------------------------------------------------------------------
(***************************************************************************)
(* Configuration space.                                                    *)
(***************************************************************************)

\* Of a device that does not exist and past the end nothing is written, and the
\* expansion ROM has no effect.  A longer write reaches
\* the attribute register PAM as its second byte.
PciWriteConfHandler(m, t, length, value) ==
    CASE t \in Bars -> PciWriteBar(m, t, length, value)
      [] t = "PM_BASE" -> AcpiWriteBase(m, "PM", value)
      [] t = "SM_BASE" -> AcpiWriteBase(m, "SM", value)
      [] t \in {"PMIOSE", "IOSE", "SMBUS", "SMI"} -> AcpiWriteConf(m, t, value # 0)
      [] t = "ROUTE" -> AcpiWriteRoute(m, {i \in 0..3 : (value \div 2^i) % 2 = 1})
      [] t = "PIN" -> AcpiWritePin(m, value % 256)
      [] t = "LINE" -> AcpiWritePin(m, PCI_INTA)
      [] t = "SMRAM" -> I440fxWriteSmram(m, value # 0)
      [] t = "PAM" -> I440fxWritePam(m, {b \in 0..8 : (value \div 2^b) % 2 = 1},
                                     IF length = 4 THEN 1 ELSE 0)
      [] t \in Rows -> I440fxWriteRow(m, t, value % 2)
      [] t = "PIRQ" -> [m EXCEPT !.piix3 = Piix3WriteRoutes(@, length, value)]
      [] OTHER -> m

\* Past the end of a device's configuration a read ends the monitor.
PciReadConfHandler(m, t) == IF t = "END" THEN Exit(m) ELSE m

WriteConfAddress ==
    \E t \in session.targets \ {i440fx.confAddress} :
        Become(I440fxWriteAddress(Machine, t))
WriteConfData ==
    /\ i440fx.confAddress \in session.targets
    /\ \E length \in session.lengths, v \in session.values :
           Become(PciWriteConfHandler(Machine, i440fx.confAddress, length, v))
ReadConfData ==
    /\ i440fx.confAddress \in session.targets
    /\ Become(PciReadConfHandler(Machine, i440fx.confAddress))

-----------------------------------------------------------------------------
(***************************************************************************)
(* Ports and memory.                                                       *)
(***************************************************************************)

WritePort ==
    \E a \in session.ports, v \in 0..1, over \in BOOLEAN :
        Become(CASE PortHandler(Machine, a) = "ACPI" ->
                        AcpiWritePortIoHandler(Machine, a, v, over)
                 [] PortHandler(Machine, a) = NoHandler -> Exit(Machine)
                 [] OTHER -> Machine)
ReadPort ==
    \E a \in session.ports, over \in BOOLEAN :
        Become(CASE PortHandler(Machine, a) = "ACPI" ->
                        AcpiReadPortIoHandler(Machine, a, over)
                 [] PortHandler(Machine, a) = NoHandler -> Exit(Machine)
                 [] OTHER -> Machine)
AcpiTick ==
    /\ acpi.Active
    /\ \E over \in BOOLEAN : Become(AcpiTimerHandler(Machine, over))

WritePort92 ==
    /\ "PORT92" \in session.devices
    /\ \E a20 \in BOOLEAN : Become(I440fxWritePort92(Machine, a20))
WritePiix3 ==
    /\ "PIIX3" \in session.devices
    /\ \/ \E v \in {"NONE", "ACPI_ENABLE", "ACPI_DISABLE"} :
              Become(AcpiGenerateAcpi([Machine EXCEPT !.piix3.APMControl = v], v))
       \/ \E v \in 0..1 : Become([Machine EXCEPT !.piix3 = Piix3WriteStatus(@, v)])
       \/ \E e \in {1, 2}, levels \in {{}, {1, 5}} :
              Become([Machine EXCEPT !.piix3 = Piix3WriteTrigger(@, e, levels)])
       \/ Become([Machine EXCEPT !.piix3 = Piix3WriteReset(@)])

WriteDmaWords ==
    /\ "DMA_WORDS" \in session.devices
    /\ \E v \in 0..(DMA_BYTE - 1), c \in Channels :
           \/ Become(DmaWriteAddress(Machine, 0, c, v))
           \/ Become(DmaWriteCount(Machine, 0, c, v))
           \/ Become(DmaReadWord(Machine, 0))
           \/ Become(DmaClearFlipFlop(Machine, 0))
WriteDmaPages ==
    /\ "DMA_PAGES" \in session.devices
    /\ \E v \in 0..1, d \in Controller, c \in Channels :
           \/ Become(DmaWritePage(Machine, d, c, v))
           \/ Become(DmaWriteHiPage(Machine, d, c, v))
           \/ Become(DmaWriteMode(Machine, d, c, v))
WriteDmaControl ==
    /\ "DMA" \in session.devices
    /\ \E d \in Controller, on \in BOOLEAN :
           \/ Become(DmaWriteRequest(Machine, d, on))
           \/ Become(DmaWriteCommand(Machine, d))
           \/ Become(DmaWriteMasks(Machine, d, on))
           \/ \E c \in Channels : Become(DmaWriteMask(Machine, d, c, on))

AccessFlash ==
    /\ "FLASH" \in session.devices
    /\ \/ \E data \in Command, fits \in BOOLEAN :
              Become(FlashWriteMmioHandler(Machine, data, fits))
       \/ Become(FlashReadMmioHandler(Machine))
WriteMessage ==
    /\ "BIOS" \in session.devices
    /\ \E b \in Firmware, flag \in BOOLEAN :
           \/ Become(BiosWritePanic(Machine, b, flag))
           \/ Become(BiosWriteByte(Machine, b, flag))

Next ==
    /\ ~exited
    /\ \/ WriteConfAddress
       \/ WriteConfData
       \/ ReadConfData
       \/ WritePort
       \/ ReadPort
       \/ AcpiTick
       \/ WritePort92
       \/ WritePiix3
       \/ WriteDmaWords
       \/ WriteDmaPages
       \/ WriteDmaControl
       \/ AccessFlash
       \/ WriteMessage

Spec == Init /\ [][Next]_vars

-----------------------------------------------------------------------------
(***************************************************************************)
(* Properties.                                                             *)
(***************************************************************************)

\* The state stays in the ranges of the code's structures; above all, a message
\* of the firmware stays within its buffer.
TypeOK ==
    /\ ports \in [Ports -> Handlers]
    /\ bar \in [Bars -> BAR]
    /\ pins \subseteq Nat /\ lines \subseteq Irq
    /\ slots \in [0..mem_slots_num -> SLOT] /\ smbase \in Nat
    /\ acpi \in ACPI /\ smi \in BOOLEAN
    /\ piix3 \in PIIX3
    /\ i440fx \in I440FX
    /\ dma \in [Controller -> DMA_CONTROLLER] /\ event \in BOOLEAN
    /\ flash \in FLASH
    /\ bios \in [Firmware -> MESSAGE]
    /\ exited \in BOOLEAN

\* The ports that a base address register is set to lead to its device, however
\* the guest moves the registers over one another.
BarOwnsPorts ==
    ~exited => \A b \in Bars :
        bar[b].addr # 0 => \A i \in Cells(b) : ports[bar[b].addr + i] = HandlerOf(b)

\* The ports of the devices that never move stay with them.
FixedKept == \A p \in DOMAIN Fixed : ports[p] = Fixed[p]

\* Every access of a port reaches the device the guest has put there or that was
\* there from the start (PciMovePort, RegisterPortIoHandler).
PortsLead == BarOwnsPorts /\ FixedKept

\* A guest that asks for the size of a register and then writes the address
\* back leaves every port as it was, and the monitor running.
RestoreIsTransparent ==
    ~exited => \A b \in Bars :
        LET back == PciWriteBar(PciWriteBar(Machine, b, 4, DWORD - 1), b, 4, bar[b].addr)
        IN  bar[b].addr # 0 => back.ports = ports /\ ~back.exited

\* A pin is up only for the system control interrupt, while its event is in the
\* status; but a pin that the guest took the interrupt away from, or gave it to, is
\* as it was until the interrupt is next set there.
SciJustified == \A p \in pins \ acpi.left : p \in SciPins(acpi) /\ TMROF \in acpi.PmStatus

\* While the interrupt is enabled and its pin is down, the timer that will raise it
\* runs.
SciArmed ==
    \A p \in SciPins(acpi) \ acpi.left :
        TMROF \in acpi.PmEnable /\ p \notin pins => acpi.Active

\* The system control interrupt follows its event, at the pin that the guest's
\* register names: up only with it, and never enabled and down without the timer
\* that will raise it (AcpiPmUpdateSci, acpi.c:56).
SciFollows == SciJustified /\ SciArmed

\* While system management memory is closed the guest reaches none of it, and
\* the window of the display is the display's.
SmramHidden ==
    LET shown == {i \in 0..mem_slots_num : slots[i].mapped}
    IN  ~i440fx.smram =>
            \A i \in shown : slots[i].host # "SMRAM" /\ slots[i].gpa # VgaWindow

\* The search by halves finds the region that holds an address range.
SlotFound ==
    \A i \in 0..(mem_slots_num - 1) :
        \A a \in {slots[i].gpa, End(slots[i]) - 1} : Slot(slots, a, 1) = i

\* The request for the bus is up while an unmasked request asks for it, and down
\* when the second controller has none.
HoldFollows ==
    /\ Unmasked(Machine, 1) => event
    /\ event => dma[1].Request # {}

\* An interrupt that a PCI line is routed to knows of the line.
RouteRegistered ==
    \A r \in Pirq : piix3.route[r] # 0 => r \in piix3.irqRegister[piix3.route[r]]

\* The firmware in the flash memory is never changed, and reads see it.
FlashReadsArray == ReadsArray(flash) /\ flash.Storage = "ROM"

\* The tables of the chip set agree with the registers they are kept for: the
\* sorted regions with the search by halves (gvm.c), the routes with the table of
\* their interrupts (piix3.c), and the flash memory with its image (flash.c).
ChipsetConsistent == TypeOK /\ SlotFound /\ RouteRegistered /\ FlashReadsArray
=============================================================================
