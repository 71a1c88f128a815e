-------------------------------- MODULE Pci ---------------------------------
(***************************************************************************)
(* pci_driver.c and the configuration space it reads and writes: the       *)
(* search for a device, the walk along its capabilities, the sizing and    *)
(* the assignment of a BAR.  GpuSetup composes the calls.                  *)
(*                                                                         *)
(* A 32-bit register holds a number below RegSpace, of which the last four *)
(* bits (16) are flags; a 64-bit address is high * RegSpace + low.  Sizes  *)
(* are powers of two, as the specification of PCI has them.  The machine   *)
(* is a record that never changes:                                         *)
(*   functions  what the search meets, in its order: "gpu" or "other"      *)
(*   first      the offset of the GPU's first capability                   *)
(*   caps       offset -> [vendor, cfg_type, next, bar, offset, off]; next *)
(*              is 0 at the end; off is the distance of the queue's        *)
(*              notification address                                       *)
(*   bars       for the six BARs their flags and size; size 0: none        *)
(*   features   the feature bits the device offers on pages 0 and 1        *)
(***************************************************************************)
EXTENDS Integers, Sequences, FiniteSets

CONSTANTS
  RegSpace,            \* 2^32
  PageSize,            \* 4096
  IoBase, IoSize,      \* CPU_PCI_IO_..., and below BUS_PCI_IO_BASE_ADDRESS = 0
  MemBase, MemSize,    \* CPU_PCI_MEMORY_NON_PREFETCHABLE_..., the same on the bus
  PrefBase, PrefSize,  \* CPU_PCI_MEMORY_PREFETCHABLE_..., the same on the bus
  Machines

BarIndices == 0 .. 5

\* The machine keeps to the specification of PCI: sizes are powers of two and
\* registers can tell them, a 64-bit BAR has the next register for itself, and a
\* capability names a BAR and not the upper half of one.  Addresses have 64 bits.
ASSUME PciAssumption ==
  /\ {RegSpace, PageSize, IoBase, IoSize, MemBase, MemSize, PrefBase, PrefSize}
       \subseteq Nat \ {0}
  /\ RegSpace % 16 = 0 /\ PrefBase % RegSpace = 0
  /\ PrefBase + PrefSize <= RegSpace * RegSpace
  /\ \A m \in Machines :
       /\ m.functions \in Seq({"gpu", "other"})
       /\ IsFiniteSet(DOMAIN m.caps) /\ m.first \in DOMAIN m.caps
       /\ \A o \in DOMAIN m.caps :
            LET c == m.caps[o]
            IN  /\ c.next = 0 \/ c.next \in DOMAIN m.caps
                /\ c.bar \in BarIndices /\ c.offset \in Nat /\ c.off \in Nat
                /\ c.bar > 0 => m.bars[c.bar - 1].flags \notin {4, 12}
       /\ \A i \in BarIndices :
            LET b == m.bars[i]
            IN  /\ b.flags \in {0, 1, 4, 8, 12} /\ b.size \in Nat
                /\ b.size # 0 => b.size >= 16 /\ b.size % 16 = 0 /\ b.size < RegSpace * RegSpace
                /\ b.size \in 1 .. RegSpace => RegSpace % b.size = 0
                /\ b.size > RegSpace => /\ b.flags \in {4, 12}
                                        /\ b.size % RegSpace = 0
                                        /\ RegSpace % (b.size \div RegSpace) = 0
                /\ b.flags \in {4, 12} => i # 5 /\ m.bars[i + 1].size = 0

VARIABLES
  machine,
  command,    \* the device's command register: the bits that are set
  bar,        \* its BARs
  pc,         \* where the driver is
  bdf,        \* search_pci_device's loop, then the device it has found
  cfg_type,   \* get_pci_capability's argument
  cap,        \* ... and where in the list it is, then what it returns
  before,     \* BAR_size's copies of the BARs and of the command register
  size,       \* bar_size
  mapped,     \* the ranges given to register_device_memory: << first, length >>
  ret         \* what alloc_bar_memory returns

pciVars == << machine, command, bar, pc, bdf, cfg_type, cap, before, size, mapped, ret >>

-----------------------------------------------------------------------------
\* The device's side of a BAR.
Bar(i) == machine.bars[i]
Wide(i) == (Bar(i).flags \div 2) % 4 = 2  \* 64 bit: the next BAR is its upper half
Upper(i) == i > 0 /\ Wide(i - 1) /\ Bar(i - 1).size # 0

\* The address bits below the size are wired to zero, the flags to their values.
Latched(i, value) ==
  IF Upper(i)
    THEN IF Bar(i - 1).size <= RegSpace THEN value
         ELSE value - (value % (Bar(i - 1).size \div RegSpace))
  ELSE IF Bar(i).size = 0 THEN 0
  ELSE Bar(i).flags + IF Bar(i).size >= RegSpace THEN 0 ELSE value - (value % Bar(i).size)

\* The address the device compares with.
Address(i) == (bar[i] - Bar(i).flags) + IF Wide(i) THEN bar[i + 1] * RegSpace ELSE 0

InitPci ==
  /\ machine \in Machines
  /\ command = {}
  /\ bar = [i \in BarIndices |-> Latched(i, 0)]
  /\ pc = "search"
  /\ bdf = 1 /\ cfg_type = 1 /\ cap = machine.first
  /\ before = [bar |-> bar, command |-> command]
  /\ size = 0 /\ mapped = {} /\ ret = 0

-----------------------------------------------------------------------------
\* search_pci_device, one function of a device after the other.
search_pci_device ==
  /\ pc = "search"
  /\ \/ bdf > Len(machine.functions)
        /\ pc' = "undefined" /\ bdf' = bdf  \* the end without a return
     \/ bdf <= Len(machine.functions)
        /\ IF machine.functions[bdf] = "gpu"
             THEN pc' = "device" /\ bdf' = bdf
             ELSE pc' = pc /\ bdf' = bdf + 1
  /\ UNCHANGED << machine, command, bar, cfg_type, cap, before, size, mapped, ret >>

\* The call of get_pci_capability(bdf, type).
GetCapability(type) ==
  /\ pc' = "walk"
  /\ cfg_type' = type
  /\ cap' = machine.first

\* One round of the loop.  Whose capability it is, is not looked at; at the end
\* of the list the last one is returned.
get_pci_capability ==
  /\ pc = "walk"
  /\ LET c == machine.caps[cap]
     IN  IF c.cfg_type = cfg_type \/ c.next = 0
           THEN pc' = "capability" /\ cap' = cap
           ELSE pc' = pc /\ cap' = c.next
  /\ UNCHANGED << machine, command, bar, bdf, cfg_type, before, size, mapped, ret >>

-----------------------------------------------------------------------------
bar_index == machine.caps[cap].bar
Flags(i) == bar[i] % 16

\* A mutant of Silence: only the I/O bit is cleared.
Silence_io ==
  /\ pc = "sizing"
  /\ before' = [bar |-> bar, command |-> command]
  /\ command' = command \ {"io"}
  /\ pc' = "silent"
  /\ UNCHANGED << machine, bar, bdf, cfg_type, cap, size, mapped, ret >>

\* BAR_size: the device is silenced, ...
Silence ==
  /\ pc = "sizing"
  /\ before' = [bar |-> bar, command |-> command]
  /\ command' = command \ {"io", "memory"}
  /\ pc' = "silent"
  /\ UNCHANGED << machine, bar, bdf, cfg_type, cap, size, mapped, ret >>

\* ... ones are written to the BAR (or the two of a 64-bit one), ...
Probe ==
  /\ pc = "silent"
  /\ LET i == bar_index
         ones == RegSpace - 1
     IN  bar' = CASE Flags(i) % 8 = 0 -> [bar EXCEPT ![i] = Latched(i, ones)]
                  [] Flags(i) % 8 = 4 -> [bar EXCEPT ![i] = Latched(i, ones),
                                                     ![i + 1] = Latched(i + 1, ones)]
                  [] OTHER -> bar
  /\ pc' = "probed"
  /\ UNCHANGED << machine, command, bdf, cfg_type, cap, before, size, mapped, ret >>

\* A mutant of Measure: the two's complement is one short.
Measure_no_increment ==
  LET i == bar_index
      low == bar[i] - Flags(i)
  IN  CASE Flags(i) % 8 = 0 -> (RegSpace - low) - 1
        [] Flags(i) % 8 = 4 -> (RegSpace * RegSpace - (bar[i + 1] * RegSpace + low)) - 1
        [] OTHER -> 0

\* ... the bits that have stayed zero are the size (2^32 for a BAR that does not
\* exist, 0 for I/O and other types), ...
Measure ==
  LET i == bar_index
      low == bar[i] - Flags(i)
  IN  CASE Flags(i) % 8 = 0 -> RegSpace - low
        [] Flags(i) % 8 = 4 -> (RegSpace * RegSpace - (bar[i + 1] * RegSpace + low)) % (RegSpace * RegSpace)
        [] OTHER -> 0

RestoreBar ==
  /\ pc = "probed"
  /\ size' = Measure
  /\ bar' = [i \in BarIndices |-> Latched(i, before.bar[i])]
  /\ pc' = "restored"
  /\ UNCHANGED << machine, command, bdf, cfg_type, cap, before, mapped, ret >>

\* ... and all is as before.
RestoreCommand ==
  /\ pc = "restored"
  /\ command' = before.command
  /\ pc' = "sized"
  /\ UNCHANGED << machine, bar, bdf, cfg_type, cap, before, size, mapped, ret >>

-----------------------------------------------------------------------------
\* The windows of alloc_bar_memory: by the type of the BAR's memory, if its
\* length is the one that is implemented.
Windows ==
  LET flags == Flags(bar_index)
      Window(base, length, bus, scale) ==
        [base |-> base, length |-> length, bus |-> bus, scale |-> scale]
  IN  CASE flags % 2 = 1 -> IF (flags \div 2) % 4 = 0 THEN {Window(IoBase, IoSize, 0, 8)} ELSE {}
        [] flags % 2 = 0 /\ flags \div 8 = 1 ->
             IF (flags \div 2) % 4 = 2 THEN {Window(PrefBase, PrefSize, PrefBase, 1)} ELSE {}
        [] OTHER -> IF (flags \div 2) % 4 = 0 THEN {Window(MemBase, MemSize, MemBase, 8)} ELSE {}

\* The place in the window: as far from its start as the BAR is large.
Fits(w) == w.base + size + size < w.base + w.length

\* The call of register_device_memory, whose size is a uint32_t and whose loop
\* counts down page by page to exactly 0.
Map ==
  /\ pc = "sized"
  /\ LET length == size % RegSpace
     IN  IF ~\E w \in Windows : Fits(w)
           THEN pc' = "undefined" /\ mapped' = mapped  \* a message or nothing, and no return
         ELSE IF length % PageSize # 0
           THEN pc' = "endless" /\ mapped' = mapped
         ELSE /\ pc' = "mapped"
              /\ mapped' = mapped \cup {<< w.base + size, length >> : w \in Windows}
  /\ UNCHANGED << machine, command, bar, bdf, cfg_type, cap, before, size, ret >>

\* A mutant of WriteBar: the lower half is not cut off at 32 bits.
WriteBar_whole(w) ==
  LET i == bar_index
      address == w.bus + size
  IN  [bar EXCEPT ![i] = Latched(i, address), ![i + 1] = Latched(i + 1, address \div RegSpace)]

\* A mutant of WriteBar: the halves of a 64-bit address are swapped.
WriteBar_swapped(w) ==
  LET i == bar_index
      address == w.bus + size
  IN  [bar EXCEPT ![i] = Latched(i, address \div RegSpace),
                  ![i + 1] = Latched(i + 1, address % RegSpace)]

\* The I/O and 32-bit branches index the pointer to the BAR once more by
\* bar_index; behind the sixth BAR other registers follow, all but one read only.
WriteBar(w) ==
  LET i == bar_index
      address == w.bus + size
  IN  IF w.scale = 1
        THEN [bar EXCEPT ![i] = Latched(i, address % RegSpace),
                         ![i + 1] = Latched(i + 1, address \div RegSpace)]
        ELSE IF 2 * i \in BarIndices
          THEN [bar EXCEPT ![2 * i] = Latched(2 * i, address % RegSpace)]
          ELSE bar

\* In the same branches the size is added to a pointer to 64-bit words.
Program ==
  /\ pc = "mapped"
  /\ \E w \in Windows :
       /\ bar' = WriteBar(w)
       /\ ret' = w.base + w.scale * size
  /\ pc' = "allocated"
  /\ UNCHANGED << machine, command, bdf, cfg_type, cap, before, size, mapped >>

PciNext ==
  \/ search_pci_device
  \/ get_pci_capability
  \/ Silence \/ Probe \/ RestoreBar \/ RestoreCommand
  \/ Map \/ Program

-----------------------------------------------------------------------------
\* BAR_size finds out the size of a memory BAR of the device and leaves no
\* trace: neither in a BAR nor in the command register.
SizedWithoutTrace ==
  pc = "sized" =>
    /\ bar = before.bar /\ command = before.command
    /\ Bar(bar_index).size # 0 /\ Flags(bar_index) % 8 \in {0, 4}
         => size = Bar(bar_index).size

\* While a BAR holds ones instead of an address, the device listens to no
\* address, neither before they are written nor until they are gone.
SilentWhileProbed ==
  bar # before.bar /\ pc \in {"silent", "probed", "restored", "sized"}
    => command \cap {"io", "memory"} = {}

\* pci_driver.h:80: "Allocate and map CPU-visible memory for a PCI BAR and
\* program the BAR register.": the BAR's address, the range that is mapped and
\* the pointer that is returned are the same.
BarProgrammed ==
  pc = "allocated" => /\ Address(bar_index) = ret
                      /\ \E r \in mapped : r[1] = ret /\ r[2] = size
=============================================================================
