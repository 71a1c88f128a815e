----------------------------- MODULE MCGpuSetup -----------------------------
(***************************************************************************)
(* Registers of 8 bits, pages of 32 bytes, and QEMU's device with          *)
(* everything about it varied.                                             *)
(***************************************************************************)
EXTENDS GpuSetup, TLC

None == [flags |-> 0, size |-> 0]

\* Of BAR 4: 64-bit prefetchable in several sizes (half a page, a page, more,
\* all that a register can tell, too large), the kinds that are implemented
\* otherwise or not at all, and nothing.
BarKinds ==
  [flags : {12}, size : {16, 32, 64, 256, 512}]
    \cup [flags : {0, 1, 8, 4}, size : {32}] \cup {[flags |-> 0, size |-> 128], None}

Cap(vendor, type, next, b, offset, off) ==
  [vendor |-> vendor, cfg_type |-> type, next |-> next, bar |-> b, offset |-> offset, off |-> off]

\* The list of capabilities: at 8 a foreign one, at 4 the notification, at 16
\* the device's configuration, at 12 the common one.
Lists ==
  { (8 :> Cap("msi-x", foreign, 4, 1, 0, 0)) @@ (4 :> Cap("virtio", type2, 16, b, 16, off))
      @@ (16 :> Cap("virtio", 4, 12, 4, 8, 0)) @@ (12 :> Cap("virtio", type1, 0, 4, offset, 0)) :
    foreign \in {0, 1, 2}, type2 \in {2, 9}, type1 \in {1, 9}, b \in {2, 4},
    off \in {4, 24}, offset \in {0, 8} }

Usual ==
  CHOOSE l \in Lists : /\ l[8].cfg_type = 0 /\ l[4].cfg_type = 2 /\ l[12].cfg_type = 1
                       /\ l[4].bar = 4 /\ l[4].off = 4 /\ l[12].offset = 0

Machine(functions, caps, kind, low, high) ==
  [functions |-> functions, first |-> 8, caps |-> caps,
   bars |-> [i \in BarIndices |-> CASE i = 4 -> kind
                                    [] i = 1 -> [flags |-> 0, size |-> 32]
                                    [] OTHER -> None],
   features |-> [p \in 0 .. 1 |-> IF p = 0 THEN low ELSE high]]

Found == << "other", "gpu" >>

\* All lists, all features and all outcomes of the search with all BARs.
MCMachines ==
  {Machine(Found, l, k, {0}, {0}) : l \in Lists, k \in BarKinds}
    \cup {Machine(Found, Usual, k, low, high) :
            k \in BarKinds, low \in {{}, {0}}, high \in {{}, {0}}}
    \cup {Machine(f, Usual, k, {}, {0}) :
            k \in BarKinds, f \in {<< >>, << "other", "other" >>, << "gpu", "other" >>}}
=============================================================================
