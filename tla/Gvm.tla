-------------------------------- MODULE Gvm --------------------------------
(***************************************************************************)
(* The memory regions that SVMM hands to the hypervisor (gvm.c).  Guest    *)
(* addresses and sizes are in blocks of 64 KB.                             *)
(***************************************************************************)
EXTENDS Integers

CONSTANT RamSize   \* blocks of guest memory

ASSUME GvmAssumption == RamSize \in 18..4096

VgaWindow == 10                              \* 0xa0000
Host == {"RAM", "ROM", "SMRAM", "NONE"}      \* what backs a region

\* mem_slots: sorted, the entry after the last is blank.  A region the
\* hypervisor has no memory for is one it reports accesses to.
SLOT == [gpa : Nat, size : Nat, host : Host, mapped : BOOLEAN]
Region(gpa, size, host) == [gpa |-> gpa, size |-> size, host |-> host, mapped |-> TRUE]
mem_slots_num == 8
gvm_init ==
    [i \in 0..mem_slots_num |->
        CASE i = 0 -> Region(0, 3, "RAM")
          [] i = 1 -> Region(3, 2, "RAM")
          [] i = 2 -> Region(5, 5, "RAM")
          [] i = 3 -> Region(VgaWindow, 2, "ROM")
          [] i = 4 -> Region(12, 2, "ROM")
          [] i = 5 -> Region(14, 2, "ROM")
          [] i = 6 -> Region(16, RamSize - 16, "RAM")
          [] i = 7 -> Region(65534, 2, "ROM")
          [] OTHER -> [gpa |-> 0, size |-> 0, host |-> "NONE", mapped |-> FALSE]]

End(s) == s.gpa + s.size
Holds(s, address, size) == s.gpa <= address /\ address + size <= End(s)

\* Mutant: an address at the end of a region is taken to be inside.
BehindStrictly(s, address) == End(s) < address
Behind(s, address) == End(s) <= address

\* A round of the search by halves; after its last round it is at rest.
SlotRound(slots, address, size, w) ==
    LET i == (w.left + w.right) \div 2
    IN  IF w.found \/ w.left > w.right THEN w
        ELSE IF Behind(slots[i], address)
        THEN [left |-> i + 1, right |-> w.right, i |-> i, found |-> FALSE]
        ELSE IF Holds(slots[i], address, size)
        THEN [left |-> w.left, right |-> w.right, i |-> i, found |-> TRUE]
        ELSE [left |-> w.left, right |-> i - 1, i |-> i, found |-> FALSE]

\* Every round drops an entry; the one that was looked at last is the result.
Slot(slots, address, size) ==
    LET start == [left |-> 0, right |-> mem_slots_num, i |-> 0, found |-> FALSE]
        f[n \in 0..(mem_slots_num + 1)] ==
            IF n = 0 THEN start ELSE SlotRound(slots, address, size, f[n - 1])
    IN  f[mem_slots_num + 1].i

gvm_unmap_memory(slots, address, size) ==
    LET i == Slot(slots, address, size)
    IN  IF slots[i].gpa > address \/ End(slots[i]) < address THEN slots
        ELSE [slots EXCEPT ![i].mapped = FALSE]
gvm_map_memory(slots, address, size, host) ==
    LET i == Slot(slots, address, size)
    IN  [slots EXCEPT ![i].host = host, ![i].mapped = TRUE]
gvm_register_mmio(slots, address, size) == gvm_unmap_memory(slots, address, size)
=============================================================================
