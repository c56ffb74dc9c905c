----------------------------- MODULE MCChipset -----------------------------
(***************************************************************************)
(* Chipset with 31 ports, configuration registers of eight bits, three base  *)
(* address registers (one leaves two of its ports alone), and decoders     *)
(* that span eight and four ports.                                         *)
(***************************************************************************)
EXTENDS Chipset

AllBars == {"PM", "SM", "BM"}
FixedPorts == [p \in {1, 14} |-> "ISA"]
SizeOf(b) == CASE b = "PM" -> 4 [] b = "SM" -> 8 [] b = "BM" -> 4
MaskOf(b) == IF b = "BM" THEN {1, 3} ELSE {}
DeviceOf(b) == IF b = "BM" THEN "IDE" ELSE "ACPI"
PmRegisterAt(r) ==
    CASE r = 0 -> "STATUS" [] r = 1 -> "ENABLE" [] r = 2 -> "CONTROL" [] r = 3 -> "DATA"
      [] OTHER -> "IGNORED"
SmRegisterAt(r) ==
    CASE r = 0 -> "OTHER" [] r = 1 -> "RESET" [] r = 2 -> "DATA" [] OTHER -> "NONE"

AllTargets ==
    AllBars \cup {"PM_BASE", "SM_BASE", "PMIOSE", "IOSE", "SMBUS", "SMI", "ROUTE", "PIN", "LINE",
                  "SMRAM", "PAM", "ROW", "PIRQ", "END", "ROM"}
Conf(targets, lengths, values) ==
    [targets |-> targets, lengths |-> lengths, values |-> values, ports |-> {},
     devices |-> {}]
Device(devices) ==
    [targets |-> {}, lengths |-> {}, values |-> {}, ports |-> {}, devices |-> devices]

GuestSessions ==
    {Conf(AllBars \cup {"END"}, {2, 4}, {0, 8, 12, 16, 24, 31, 255}),
     Conf({"PM", "BM", "PM_BASE", "SM_BASE"}, {4}, {0, 8, 16, 20, 255}),
     [Conf({"PM_BASE", "SM_BASE", "PMIOSE", "IOSE", "ROUTE"}, {4}, {0, 8, 16}) EXCEPT
        !.ports = {8, 9, 10, 11, 16, 17, 18}],
     [Conf({"PM_BASE", "PMIOSE", "ROUTE", "PIN", "LINE"}, {4}, {0, 9, 254}) EXCEPT
        !.ports = {8, 9}],
     Conf({"SMRAM", "ROM"}, {1}, {0, 1}),
     Conf({"PAM", "ROW"}, {1, 4}, {0, 3, 48}),
     [Conf({"PIRQ", "SMI", "SMBUS"}, {1, 4}, {0, 9, 137}) EXCEPT !.devices = {"PIIX3"}],
     Conf({"PIRQ"}, {1, 4}, {9, 11}),
     Device({"DMA"}), Device({"DMA_WORDS"}), Device({"DMA_PAGES"}),
     Device({"FLASH", "BIOS", "PORT92"})}
=============================================================================
