------------------------------ MODULE GpuSetup ------------------------------
(***************************************************************************)
(* The constructor of virtio_gpu_driver up to its first notification: it   *)
(* composes the calls of Pci and then shakes hands with the device through *)
(* its common configuration.                                               *)
(*                                                                         *)
(* The pointer to the common configuration is what alloc_bar_memory has    *)
(* returned; whether the device is really there is what the model asks     *)
(* before it lets a store have an effect.  Where it is not, the driver     *)
(* reads and writes something else or takes a fault: "astray".             *)
(***************************************************************************)
EXTENDS Pci

VARIABLES
  common,     \* bar4: the pointer to the common configuration
  status,     \* device_status
  page,       \* driver_feature_select
  accepted,   \* driver_feature, by page
  queue,      \* the first queue: "unset", "placed", "enabled"
  rung        \* the device has got a notification for the first queue

deviceVars == << status, page, accepted, queue, rung >>
vars == << pciVars, common, deviceVars >>

VERSION_1 == 0   \* bit 32: the first of page 1

Mapped(address) == \E r \in mapped : r[1] <= address /\ address < r[1] + r[2]

\* An access to an address meets the device's structure that a capability names.
Meets(c, address) ==
  /\ c.vendor = "virtio"
  /\ Bar(c.bar).size # 0
  /\ "memory" \in command
  /\ Mapped(address)
  /\ Address(c.bar) + c.offset = address

Init ==
  /\ InitPci
  /\ common = 0
  /\ status = {} /\ page = 0 /\ accepted = [p \in 0 .. 1 |-> {}]
  /\ queue = "unset" /\ rung = FALSE

-----------------------------------------------------------------------------
\* The steps of Pci, until alloc_bar_memory returns.
SearchAndSize ==
  /\ PciNext
  /\ UNCHANGED << common, deviceVars >>

\* I/O, memory and bus master on, then the common configuration is looked for.
EnableDevice ==
  /\ pc = "device"
  /\ command' = {"io", "memory", "master"}
  /\ GetCapability(1)
  /\ UNCHANGED << machine, bar, bdf, before, size, mapped, ret, common, deviceVars >>

\* The call of alloc_bar_memory.  Which type the capability has is not looked at.
AllocBar ==
  /\ pc = "capability" /\ cfg_type = 1
  /\ pc' = "sizing"
  /\ UNCHANGED << machine, command, bar, bdf, cfg_type, cap, before, size, mapped, ret,
                  common, deviceVars >>

\* common_cfg = bar4: the offset in the capability is not added.
UseBar ==
  /\ pc = "allocated"
  /\ common' = ret
  /\ pc' = LET c == machine.caps[cap]
           IN  IF c.cfg_type = 1 /\ Meets(c, ret) THEN "reset" ELSE "astray"
  /\ UNCHANGED << machine, command, bar, bdf, cfg_type, cap, before, size, mapped, ret,
                  deviceVars >>

-----------------------------------------------------------------------------
\* The handshake.  Each step leaves what Pci keeps as it is.
Step(from, to) ==
  /\ pc = from /\ pc' = to
  /\ UNCHANGED << machine, command, bar, bdf, cfg_type, cap, before, size, mapped, ret, common >>

\* A status of 0 resets the device.
ResetDevice ==
  /\ Step("reset", "acknowledge")
  /\ status' = {}
  /\ page' = 0 /\ accepted' = [p \in 0 .. 1 |-> {}]
  /\ queue' = "unset" /\ rung' = FALSE

Acknowledge ==
  /\ Step("acknowledge", "features 0")
  /\ status' = status \cup {"acknowledge", "driver"}
  /\ UNCHANGED << page, accepted, queue, rung >>

\* driver_feature_select = features0 & 0, driver_feature = 0.
FeaturesLow ==
  /\ Step("features 0", "features 1")
  /\ page' = 0
  /\ accepted' = [accepted EXCEPT ![0] = {}]
  /\ UNCHANGED << status, queue, rung >>

\* A mutant of FeaturesHigh: the page is not selected.
FeaturesHigh_same_page ==
  /\ Step("features 1", "features ok")
  /\ page' = page
  /\ accepted' = [accepted EXCEPT ![page'] = {VERSION_1}]
  /\ UNCHANGED << status, queue, rung >>

\* driver_feature_select = features1 & 1, driver_feature = 1: what the device
\* offers on page 1 selects the page that is written.
FeaturesHigh ==
  /\ Step("features 1", "features ok")
  /\ page' = IF VERSION_1 \in machine.features[1] THEN 1 ELSE 0
  /\ accepted' = [accepted EXCEPT ![page'] = {VERSION_1}]
  /\ UNCHANGED << status, queue, rung >>

\* The device keeps the bit if it can do what was accepted; one that is no
\* legacy device insists on VERSION_1.  What it keeps is read and only logged.
FeaturesOk ==
  /\ Step("features ok", "queue")
  /\ status' = IF /\ \A p \in 0 .. 1 : accepted[p] \subseteq machine.features[p]
                  /\ VERSION_1 \in machine.features[1] => VERSION_1 \in accepted[1]
                 THEN status \cup {"features_ok"} ELSE status
  /\ UNCHANGED << page, accepted, queue, rung >>

\* A mutant of construct_virtqueue: queue_enable is not set.
construct_virtqueue_not_enabled ==
  /\ \/ Step("queue", "enable") /\ queue' = "placed"
     \/ Step("enable", "driver ok") /\ queue' = queue
  /\ UNCHANGED << status, page, accepted, rung >>

\* The addresses of the three areas, then queue_enable.
construct_virtqueue ==
  /\ \/ Step("queue", "enable") /\ queue' = "placed"
     \/ Step("enable", "driver ok") /\ queue' = "enabled"
  /\ UNCHANGED << status, page, accepted, rung >>

DriverOk ==
  /\ Step("driver ok", "look for notify")
  /\ status' = status \cup {"driver_ok"}
  /\ UNCHANGED << page, accepted, queue, rung >>

FindNotify ==
  /\ pc = "look for notify"
  /\ GetCapability(2)
  /\ UNCHANGED << machine, command, bar, bdf, before, size, mapped, ret, common, deviceVars >>

\* It is in the BAR of the common configuration, whatever the capability says.
queue_notify_address == common + machine.caps[cap].offset + machine.caps[cap].off

\* The first notification; then the driver waits for the answer to come.
Notify ==
  /\ pc = "capability" /\ cfg_type = 2
  /\ pc' = "waiting"
  /\ LET c == machine.caps[cap]
     IN  rung' = (c.cfg_type = 2 /\ Meets([c EXCEPT !.offset = @ + c.off], queue_notify_address))
  /\ UNCHANGED << machine, command, bar, bdf, cfg_type, cap, before, size, mapped, ret,
                  common, status, page, accepted, queue >>

Next ==
  \/ SearchAndSize
  \/ EnableDevice \/ AllocBar \/ UseBar
  \/ ResetDevice \/ Acknowledge \/ FeaturesLow \/ FeaturesHigh \/ FeaturesOk
  \/ construct_virtqueue \/ DriverOk
  \/ FindNotify \/ Notify

\* The boot CPU runs the constructor and nothing else.
Spec == Init /\ [][Next]_vars /\ WF_vars(Next)

-----------------------------------------------------------------------------
TypeOK ==
  /\ command \subseteq {"io", "memory", "master"}
  /\ bar \in [BarIndices -> 0 .. RegSpace - 1]
  /\ bdf \in Nat /\ cfg_type \in {1, 2} /\ cap \in DOMAIN machine.caps
  /\ size \in 0 .. RegSpace * RegSpace - 1 /\ ret \in Nat /\ common \in Nat
  /\ status \subseteq {"acknowledge", "driver", "features_ok", "driver_ok"}
  /\ page \in 0 .. 1 /\ accepted \in [0 .. 1 -> SUBSET {0}]
  /\ queue \in {"unset", "placed", "enabled"} /\ rung \in BOOLEAN

\* The answer to FEATURES_OK is only logged, so the driver drives devices that
\* have not agreed: exactly those that offer neither VERSION_1 nor, at the bit
\* it then writes on page 0, 3D.  Any other has agreed, to VERSION_1 and
\* nothing else if it offers that, or to 3D, which nobody wants.
AgreementExact ==
  "driver_ok" \in status =>
    /\ "features_ok" \in status <=> \E p \in 0 .. 1 : 0 \in machine.features[p]
    /\ accepted = [p \in 0 .. 1 |->
                     IF p = 1 <=> VERSION_1 \in machine.features[1] THEN {0} ELSE {}]

\* The machines the driver is made for: the function is there; the first
\* capability with type 1, whoever's it is, is VirtIO's and describes the start
\* of a 64-bit prefetchable BAR of whole pages that fits into the window and
\* whose size is no multiple of 2^32; the first with type 2 is VirtIO's and in
\* the same BAR, the queue's notification address inside it.
FirstOf(m, type) ==
  LET last == Cardinality(DOMAIN m.caps)
      walk[n \in 0 .. last] ==
        IF n = 0 THEN m.first
        ELSE LET c == m.caps[walk[n - 1]]
             IN  IF c.cfg_type = type \/ c.next = 0 THEN walk[n - 1] ELSE c.next
  IN  m.caps[walk[last]]

Suitable(m) ==
  LET c == FirstOf(m, 1)
      n == FirstOf(m, 2)
      b == m.bars[c.bar]
  IN  /\ \E f \in DOMAIN m.functions : m.functions[f] = "gpu"
      /\ c.vendor = "virtio" /\ c.cfg_type = 1 /\ c.offset = 0
      /\ n.vendor = "virtio" /\ n.cfg_type = 2 /\ n.bar = c.bar /\ n.offset + n.off < b.size
      /\ b.size # 0 /\ b.flags = 12 /\ b.size % PageSize = 0
      /\ b.size % RegSpace # 0 /\ 2 * b.size < PrefSize

\* The device gets the first notification on no other machine, and never
\* before it is driven: driver_ok set, the queue enabled.
NotifiedOnlyWhenReady ==
  rung => Suitable(machine) /\ queue = "enabled" /\ "driver_ok" \in status

\* On every machine the driver is made for the device gets its first notification.
SuitableDeviceComesUp == Suitable(machine) => <>rung
=============================================================================
