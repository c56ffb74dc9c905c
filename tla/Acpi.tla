-------------------------------- MODULE Acpi --------------------------------
(***************************************************************************)
(* The power management device of SVMM (acpi.c): the event registers that  *)
(* raise the system control interrupt, and the registers of its SM bus.    *)
(* The machine m has the fields of module Pci, acpi and smi.               *)
(***************************************************************************)
EXTENDS Pci

CONSTANTS
    PmSpan, SmSpan,     \* the ports that are decoded above PmBase and SmBase
    PmRegister(_),      \* what the PM register at an offset is
    SmRegister(_),      \* what the SM register at an offset is
    SmData              \* the length of the data of the SM bus

ASSUME AcpiAssumption ==
    /\ PmSpan \in Nat \ {0} /\ SmSpan \in Nat \ {0} /\ SmData \in Nat \ {0}
    /\ \A r \in 0..(PmSpan - 1) :
           /\ PmRegister(r) \in {"STATUS", "ENABLE", "CONTROL", "IGNORED", "DATA"}
           /\ SmRegister(r) \in {"RESET", "DATA", "OTHER", "NONE"}

TMROF == "TMROF"
SCI_EN == "SCI_EN"
DEVICE == 1                     \* the slot of the device
PCI_INTA == 1

PINS == 0..(IOAPIC_NUM_PINS - 1)

\* struct ACPI and the configuration registers it reads.  What is written to
\* the SM bus ends in Data, all its other registers stay zero.  The timer is
\* registered, not created: it runs from the start.
ACPI ==
    [PmBase : 0..(DWORD - 1), SmBase : 0..(DWORD - 1),
     PmStatus : SUBSET {TMROF},
     PmEnable : SUBSET {TMROF},
     PmControl : SUBSET {SCI_EN},
     PmRegisters : 0..1,
     SmIndex : 0..(SmData - 1),
     Active : BOOLEAN,          \* the timer TimerId is
     conf : SUBSET {"PMIOSE", "IOSE", "SMBUS", "SMI"},
     pin : 0..255,              \* conf[0x3d], which the guest may write
     left : SUBSET PINS,        \* for the properties: see AcpiWritePin
     route : [0..3 -> {0, 9, 96}]]  \* conf[0x60] to conf[0x63]
AcpiInitialize ==
    [PmBase |-> 0, SmBase |-> 0, PmStatus |-> {}, PmEnable |-> {},
     PmControl |-> {}, PmRegisters |-> 0, SmIndex |-> 0, Active |-> TRUE,
     conf |-> {}, pin |-> PCI_INTA, left |-> {},
     route |-> [i \in 0..3 |-> IF i = 3 THEN 96 ELSE 0]]

Overflow(over) == IF over THEN {TMROF} ELSE {}
\* The pin that the interrupt is sent to, if there is one.
SciPins(a) == PciPins(DEVICE, a.pin)

\* The level is that of the status before the time was looked at.
AcpiPmUpdateSci(m, over) ==
    LET Status == m.acpi.PmStatus
        n == PciSetIrq(m, DEVICE, m.acpi.pin, m.acpi.route, TMROF \in Status)
    IN  [n EXCEPT !.acpi.PmStatus = Status \cup Overflow(over),
                  !.acpi.left = @ \ SciPins(m.acpi),
                  !.acpi.Active = TMROF \in m.acpi.PmEnable /\ TMROF \notin Status]
AcpiTimerHandler(m, over) == AcpiPmUpdateSci(m, over)

AcpiGenerateAcpi(m, value) ==
    [m EXCEPT !.acpi.PmControl =
                  CASE value = "ACPI_ENABLE" -> @ \cup {SCI_EN}
                    [] value = "ACPI_DISABLE" -> @ \ {SCI_EN}
                    [] OTHER -> @,
              !.smi = @ \/ "SMI" \in m.acpi.conf]

\* Configuration registers 0x40 and 0x90 set the base address register and the
\* base that the ports are decoded with.
EvenOf(value) == value - (value % 2)
AcpiWriteBase(m, b, value) ==
    LET n == PciWriteBar(m, b, 4, EvenOf(value))
    IN  IF n.exited THEN n
        ELSE IF b = "PM" THEN [n EXCEPT !.acpi.PmBase = EvenOf(value)]
        ELSE [n EXCEPT !.acpi.SmBase = EvenOf(value)]
AcpiWriteConf(m, bit, on) ==
    [m EXCEPT !.acpi.conf = IF on THEN @ \cup {bit} ELSE @ \ {bit}]

\* Any write to 0x60 stores four bytes; here each is 0 or 9.
AcpiWriteRoute(m, nines) ==
    [m EXCEPT !.acpi.route = [i \in 0..3 |-> IF i \in nines THEN 9 ELSE 0]]

\* The pin of the interrupt changes, and nothing is raised or lowered: left are the
\* pins before and after, until AcpiPmUpdateSci sets them again.  A write to the
\* interrupt line at 0x3c sets the pin to that of the start.
AcpiWritePin(m, pin) ==
    LET a == [m.acpi EXCEPT !.pin = pin]
        moved == IF SciPins(a) = SciPins(m.acpi) THEN {} ELSE SciPins(a) \cup SciPins(m.acpi)
    IN  [m EXCEPT !.acpi = [a EXCEPT !.left = @ \cup moved]]

-----------------------------------------------------------------------------
(***************************************************************************)
(* The ports.  The PM registers come first where both bases match.         *)
(***************************************************************************)

IsPm(m, a) == a - (a % PmSpan) = m.acpi.PmBase
IsSm(m, a) == ~IsPm(m, a) /\ a - (a % SmSpan) = m.acpi.SmBase
Reg(a) == a % PmSpan

AcpiClearStatus(m, over) == AcpiPmUpdateSci([m EXCEPT !.acpi.PmStatus = {}], over)

\* Mutant: the timer is not looked at when the guest enables the interrupt.
AcpiWriteEnableQuiet(m, value, over) == [m EXCEPT !.acpi.PmEnable = value]
AcpiWriteEnable(m, value, over) ==
    AcpiPmUpdateSci([m EXCEPT !.acpi.PmEnable = value], over)

\* Suspend: its bit is cleared before it is tested.
AcpiWriteControl(m, value) == [m EXCEPT !.acpi.PmControl = value]
AcpiWritePm(m, a, value, over) ==
    LET r == PmRegister(Reg(a))
        bits(bit) == IF value = 1 THEN {bit} ELSE {}
    IN  IF "PMIOSE" \notin m.acpi.conf THEN m
        ELSE CASE r = "STATUS" -> AcpiClearStatus(m, over)
               [] r = "ENABLE" -> AcpiWriteEnable(m, bits(TMROF), over)
               [] r = "CONTROL" -> AcpiWriteControl(m, bits(SCI_EN))
               [] r = "DATA" -> [m EXCEPT !.acpi.PmRegisters = value]
               [] OTHER -> m

\* A write to any register up to that of the data falls through to it.
AcpiWriteSm(m, a) ==
    LET r == SmRegister(Reg(a))
    IN  IF m.acpi.conf \cap {"IOSE", "SMBUS"} = {} THEN m
        ELSE IF r \in {"RESET", "OTHER", "DATA"}
        THEN [m EXCEPT !.acpi.SmIndex = (@ + 1) % SmData]
        ELSE m
AcpiWritePortIoHandler(m, a, value, over) ==
    IF IsPm(m, a) THEN AcpiWritePm(m, a, value, over)
    ELSE IF IsSm(m, a) THEN AcpiWriteSm(m, a)
    ELSE m

AcpiReadPm(m, a, over) ==
    IF "PMIOSE" \in m.acpi.conf /\ PmRegister(Reg(a)) = "STATUS"
    THEN [m EXCEPT !.acpi.PmStatus = @ \cup Overflow(over)]
    ELSE m
AcpiReadSm(m, a) ==
    CASE SmRegister(Reg(a)) = "RESET" -> [m EXCEPT !.acpi.SmIndex = 0]
      [] SmRegister(Reg(a)) = "DATA" -> [m EXCEPT !.acpi.SmIndex = (@ + 1) % SmData]
      [] OTHER -> m
AcpiReadPortIoHandler(m, a, over) ==
    IF IsPm(m, a) THEN AcpiReadPm(m, a, over)
    ELSE IF IsSm(m, a) THEN AcpiReadSm(m, a)
    ELSE m
=============================================================================
