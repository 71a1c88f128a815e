-------------------------- MODULE GpuSetup_proofs ---------------------------
(***************************************************************************)
(* What holds of the setup on every machine, for every width of registers  *)
(* and every window.  Agreed carries the features through the handshake;   *)
(* Probing carries the BARs through BAR_size.                              *)
(***************************************************************************)
EXTENDS GpuSetup, FiniteSetTheorems, RecursionTheorems, TLAPS

NoFeatures == [p \in 0 .. 1 |-> {}]

\* What FeaturesHigh asks for: bit 0 of one of the pages.
Asked == [p \in 0 .. 1 |-> IF p = 1 <=> VERSION_1 \in machine.features[1] THEN {0} ELSE {}]

\* The device can do it.
Granted == \E p \in 0 .. 1 : 0 \in machine.features[p]

\* Where the driver is and what it has accepted by then.
Agreed ==
  /\ cfg_type \in {1, 2}
  /\ cfg_type = 2 => pc \in {"walk", "capability", "waiting"}
  /\ "driver_ok" \in status => pc = "look for notify" \/ cfg_type = 2
  /\ pc \in {"acknowledge", "features 0", "features 1"} => accepted = NoFeatures
  /\ pc \in {"acknowledge", "features 0", "features 1", "features ok"} => "features_ok" \notin status
  /\ pc = "features ok" => accepted = Asked
  /\ pc \in {"queue", "enable", "driver ok", "look for notify"} \/ cfg_type = 2
       => accepted = Asked /\ ("features_ok" \in status <=> Granted)

-----------------------------------------------------------------------------
\* Outside the handshake: the features stay, and no action of Pci ends where
\* the handshake begins.
LEMMA AgreedOutside ==
  ASSUME Agreed, SearchAndSize \/ EnableDevice \/ AllocBar \/ UseBar \/ FindNotify \/ Notify
  PROVE  Agreed'
<1>1. UNCHANGED << machine, accepted, status >>
  BY DEF SearchAndSize, PciNext, search_pci_device, get_pci_capability, Silence, Probe, RestoreBar,
         RestoreCommand, Map, Program, EnableDevice, AllocBar, UseBar, FindNotify, Notify,
         GetCapability, deviceVars
<1>7. Asked' = Asked /\ Granted' = Granted
  BY <1>1 DEF Asked, Granted
<1>2. CASE SearchAndSize
  BY <1>1, <1>2, <1>7 DEF Agreed, SearchAndSize, PciNext, search_pci_device, get_pci_capability, Silence,
     Probe, RestoreBar, RestoreCommand, Map, Program
<1>3. CASE EnableDevice
  BY <1>1, <1>3, <1>7 DEF Agreed, EnableDevice, GetCapability
<1>5. CASE AllocBar
  BY <1>1, <1>5, <1>7 DEF Agreed, AllocBar
<1>6. CASE FindNotify
  BY <1>1, <1>6, <1>7 DEF Agreed, FindNotify, GetCapability
<1>4. CASE UseBar \/ Notify
  <2>1. cfg_type' = cfg_type /\ (UseBar => pc = "allocated" /\ pc' \in {"reset", "astray"})
          /\ (Notify => pc = "capability" /\ cfg_type = 2 /\ pc' = "waiting")
    BY <1>4 DEF UseBar, Notify
  <2> QED
    BY <1>1, <1>4, <1>7, <2>1 DEF Agreed
<1> QED
  BY <1>2, <1>3, <1>4, <1>5, <1>6

\* The handshake itself.
LEMMA AgreedHandshake ==
  ASSUME Agreed,
         ResetDevice \/ Acknowledge \/ FeaturesLow \/ FeaturesHigh \/ FeaturesOk
           \/ construct_virtqueue \/ DriverOk
  PROVE  Agreed'
<1>1. UNCHANGED << machine, cfg_type >>
  BY DEF ResetDevice, Acknowledge, FeaturesLow, FeaturesHigh, FeaturesOk, construct_virtqueue,
         DriverOk, Step
<1>2. CASE ResetDevice
  BY <1>1, <1>2 DEF Agreed, ResetDevice, Step, NoFeatures
<1>3. CASE Acknowledge
  BY <1>1, <1>3 DEF Agreed, Acknowledge, Step
<1>4. CASE FeaturesLow
  BY <1>1, <1>4 DEF Agreed, FeaturesLow, Step, NoFeatures
<1>8. Asked' = Asked /\ Granted' = Granted
  BY <1>1 DEF Asked, Granted
<1>5. CASE FeaturesHigh
  <2>1. accepted' = Asked
    <3>1. accepted = NoFeatures
      BY <1>5 DEF Agreed, FeaturesHigh, Step
    <3>2. accepted' = [accepted EXCEPT ![page'] = {VERSION_1}]
          /\ page' = IF VERSION_1 \in machine.features[1] THEN 1 ELSE 0
      BY <1>5 DEF FeaturesHigh
    <3>3. CASE VERSION_1 \in machine.features[1]
      <4>1. accepted' = [[p \in 0 .. 1 |-> {}] EXCEPT ![1] = {0}]
        BY <3>1, <3>2, <3>3 DEF NoFeatures, VERSION_1
      <4>2. Asked = [p \in 0 .. 1 |-> IF p = 1 THEN {0} ELSE {}]
        BY <3>3 DEF Asked
      <4> QED
        BY <4>1, <4>2
    <3>4. CASE VERSION_1 \notin machine.features[1]
      <4>1. accepted' = [[p \in 0 .. 1 |-> {}] EXCEPT ![0] = {0}]
        BY <3>1, <3>2, <3>4 DEF NoFeatures, VERSION_1
      <4>2. Asked = [p \in 0 .. 1 |-> IF p = 1 THEN {} ELSE {0}]
        BY <3>4 DEF Asked
      <4>3. \A p \in 0 .. 1 : accepted'[p] = Asked[p]
        BY <4>1, <4>2
      <4> QED
        BY <4>1, <4>2, <4>3
    <3> QED
      BY <3>3, <3>4
  <2> QED
    BY <1>1, <1>5, <1>8, <2>1 DEF Agreed, FeaturesHigh, Step
<1>6. CASE FeaturesOk
  <2>1. accepted = Asked /\ "features_ok" \notin status
    BY <1>6 DEF Agreed, FeaturesOk, Step
  <2>2. "features_ok" \in status' <=>
          /\ \A p \in 0 .. 1 : accepted[p] \subseteq machine.features[p]
          /\ VERSION_1 \in machine.features[1] => VERSION_1 \in accepted[1]
    BY <1>6, <2>1 DEF FeaturesOk
  <2>3. /\ accepted[0] = IF VERSION_1 \in machine.features[1] THEN {} ELSE {0}
        /\ accepted[1] = IF VERSION_1 \in machine.features[1] THEN {0} ELSE {}
    BY <2>1 DEF Asked
  <2>4. "features_ok" \in status' <=> Granted
    BY <2>2, <2>3 DEF Granted, VERSION_1
  <2>5. accepted' = accepted /\ ("driver_ok" \in status' => "driver_ok" \in status)
    BY <1>6 DEF FeaturesOk
  <2> QED
    BY <1>1, <1>6, <1>8, <2>1, <2>4, <2>5 DEF Agreed, FeaturesOk, Step
<1>7. CASE construct_virtqueue \/ DriverOk
  BY <1>1, <1>7, <1>8 DEF Agreed, construct_virtqueue, DriverOk, Step
<1> QED
  BY <1>2, <1>3, <1>4, <1>5, <1>6, <1>7

\* On every machine the driver drives the device with bit 0 of one page, and
\* without the device's consent exactly where neither page offers that bit,
\* although it does not look at the answer.
THEOREM FeaturesSettled == Spec => []AgreementExact
<1>1. Init => Agreed
  BY DEF Init, InitPci, Agreed
<1>2. Agreed /\ [Next]_vars => Agreed'
  <2>1. CASE Next
    BY <2>1, AgreedOutside, AgreedHandshake DEF Next
  <2>2. CASE UNCHANGED vars
    BY <2>2 DEF Agreed, Asked, Granted, vars, pciVars, deviceVars
  <2> QED
    BY <2>1, <2>2
<1>3. Agreed => AgreementExact
  BY DEF Agreed, AgreementExact, Asked, Granted
<1> QED
  BY <1>1, <1>2, <1>3, PTL DEF Spec

-----------------------------------------------------------------------------
\* Division with remainder, and that it is the only one.
LEMMA Divided ==
  ASSUME NEW a \in Int, NEW s \in Nat \ {0}
  PROVE  /\ a \div s \in Int /\ a % s \in 0 .. s - 1
         /\ a = s * (a \div s) + (a % s)
  BY SMT

LEMMA Unique ==
  ASSUME NEW s \in Nat \ {0}, NEW q \in Int, NEW r \in 0 .. s - 1
  PROVE  (s * q + r) % s = r
<1> DEFINE a == s * q + r
           d == a \div s
           m == a % s
<1>1. a \in Int /\ d \in Int /\ m \in 0 .. s - 1 /\ s * q + r = s * d + m
  BY Divided
<1> HIDE DEF a, d, m
<1>2. ASSUME q > d PROVE FALSE
  <2>1. s * (q - d) = m - r
    BY <1>1, SMT
  <2>2. s * (q - d) >= s
    BY <1>1, <1>2, SMT
  <2> QED
    BY <1>1, <2>1, <2>2, SMT
<1>3. ASSUME d > q PROVE FALSE
  <2>1. s * (d - q) = r - m
    BY <1>1, SMT
  <2>2. s * (d - q) >= s
    BY <1>1, <1>3, SMT
  <2> QED
    BY <1>1, <2>1, <2>2, SMT
<1>4. q = d
  BY <1>1, <1>2, <1>3, SMT
<1> QED
  BY <1>1, <1>4, SMT DEF a, m

\* Cutting an address down to a multiple of s, flags added: once is enough, and
\* the flags can be read back.
LEMMA CutDown ==
  ASSUME NEW v \in Int, NEW s \in Nat \ {0}, NEW f \in Nat, f < s
  PROVE  /\ v - (v % s) \in Int
         /\ (v - (v % s)) % s = 0
         /\ (f + (v - (v % s))) % s = f
         /\ f < 16 /\ s % 16 = 0 => (f + (v - (v % s))) % 16 = f
<1> DEFINE q == v \div s
           w == v - (v % s)
<1>1. q \in Int /\ w = s * q + 0 /\ w \in Int
  BY Divided
<1> HIDE DEF q, w
<1>2. w % s = 0 /\ (f + w) % s = f
  BY <1>1, Unique, SMT
<1>3. ASSUME f < 16, s % 16 = 0 PROVE (f + w) % 16 = f
  <2>1. s \div 16 \in Int /\ s = 16 * (s \div 16)
    BY <1>3, SMT
  <2>2. (s \div 16) * q \in Int /\ f + w = 16 * ((s \div 16) * q) + f
    BY <1>1, <2>1, SMT
  <2> QED
    BY <1>3, <2>2, Unique, SMT
<1> QED
  BY <1>1, <1>2, <1>3 DEF w

\* All ones cut down to a multiple of s, which divides their successor.
LEMMA OnesCutDown ==
  ASSUME NEW r \in Nat \ {0}, NEW s \in Nat \ {0}, r % s = 0
  PROVE  (r - 1) - ((r - 1) % s) = r - s
<1> DEFINE d == r \div s
<1>1. d \in Int /\ r = s * d
  BY Divided, SMT
<1> HIDE DEF d
<1>2. r - 1 = s * (d - 1) + (s - 1)
  BY <1>1, SMT
<1>3. d - 1 \in Int /\ s - 1 \in 0 .. s - 1
  BY <1>1, SMT
<1>4. (s * (d - 1) + (s - 1)) % s = s - 1
  BY <1>3, Unique
<1>5. (r - 1) % s = s - 1
  BY <1>2, <1>4
<1> QED
  BY <1>5, SMT

-----------------------------------------------------------------------------
\* What PciAssumption says of a BAR of the machine.
LEMMA BarKind ==
  ASSUME machine \in Machines, NEW i \in BarIndices
  PROVE  /\ RegSpace \in Nat \ {0} /\ RegSpace % 16 = 0
         /\ Bar(i).flags \in {0, 1, 4, 8, 12} /\ Bar(i).size \in Nat
         /\ Bar(i).size # 0 => Bar(i).size >= 16 /\ Bar(i).size % 16 = 0
         /\ Bar(i).size \in 1 .. RegSpace => RegSpace % Bar(i).size = 0
         /\ Bar(i).size > RegSpace => /\ Bar(i).size % RegSpace = 0
                                      /\ Bar(i).flags \in {4, 12}
                                      /\ RegSpace % (Bar(i).size \div RegSpace) = 0
         /\ Bar(i).size < RegSpace * RegSpace \/ Bar(i).size = 0
         /\ Wide(i) <=> Bar(i).flags \in {4, 12}
         /\ Wide(i) => i # 5 /\ Bar(i + 1).size = 0
<1>1. /\ RegSpace \in Nat \ {0} /\ RegSpace % 16 = 0
      /\ Bar(i).flags \in {0, 1, 4, 8, 12} /\ Bar(i).size \in Nat
      /\ Bar(i).size # 0 => /\ Bar(i).size >= 16 /\ Bar(i).size % 16 = 0
                            /\ Bar(i).size < RegSpace * RegSpace
      /\ Bar(i).size \in 1 .. RegSpace => RegSpace % Bar(i).size = 0
      /\ Bar(i).size > RegSpace => /\ Bar(i).flags \in {4, 12}
                                   /\ Bar(i).size % RegSpace = 0
                                   /\ RegSpace % (Bar(i).size \div RegSpace) = 0
      /\ Bar(i).flags \in {4, 12} => i # 5 /\ Bar(i + 1).size = 0
  <2> DEFINE b == machine.bars[i]
  <2>1. RegSpace \in Nat \ {0} /\ RegSpace % 16 = 0
    BY PciAssumption
  <2>2. /\ b.flags \in {0, 1, 4, 8, 12} /\ b.size \in Nat
        /\ b.size # 0 => b.size >= 16 /\ b.size % 16 = 0 /\ b.size < RegSpace * RegSpace
        /\ b.size \in 1 .. RegSpace => RegSpace % b.size = 0
        /\ b.size > RegSpace => /\ b.flags \in {4, 12}
                                /\ b.size % RegSpace = 0
                                /\ RegSpace % (b.size \div RegSpace) = 0
        /\ b.flags \in {4, 12} => i # 5 /\ machine.bars[i + 1].size = 0
    BY PciAssumption, SMT
  <2> QED
    BY <2>1, <2>2 DEF Bar
<1>2. Wide(i) <=> Bar(i).flags \in {4, 12}
  <2> DEFINE f == Bar(i).flags
  <2>1. f \in {0, 1, 4, 8, 12}
    BY <1>1
  <2> HIDE DEF f
  <2>2. (f \div 2) % 4 = 2 <=> f \in {4, 12}
    BY <2>1, SMT
  <2> QED
    BY <2>2 DEF Wide, f
<1> QED
  BY <1>1, <1>2

\* The quotient of a size above 32 bits.
LEMMA UpperSize ==
  ASSUME machine \in Machines, NEW i \in BarIndices, Bar(i).size > RegSpace
  PROVE  /\ Bar(i).size \div RegSpace \in Nat \ {0}
         /\ Bar(i).size = RegSpace * (Bar(i).size \div RegSpace)
<1> DEFINE s == Bar(i).size
           q == s \div RegSpace
<1>1. RegSpace \in Nat \ {0} /\ s \in Nat /\ s % RegSpace = 0 /\ s > RegSpace
  BY BarKind
<1> s \in Int
  BY <1>1
<1>2. q \in Int /\ s = RegSpace * q + (s % RegSpace)
  BY <1>1, Divided, Zenon
<1> HIDE DEF s, q
<1>3. s = RegSpace * q
  BY <1>1, <1>2, SMT
<1>4. ASSUME q <= 0 PROVE FALSE
  <2>1. RegSpace * q <= 0
    BY <1>1, <1>2, <1>4, SMT
  <2> QED
    BY <1>1, <1>3, <2>1, SMT
<1>5. q \in Nat \ {0}
  BY <1>2, <1>4, SMT
<1> QED
  BY <1>3, <1>5 DEF s, q

\* Writing back what a BAR holds changes nothing.
LEMMA LatchedSettles ==
  ASSUME machine \in Machines, NEW i \in BarIndices, NEW v \in Int
  PROVE  Latched(i, v) \in Int /\ Latched(i, Latched(i, v)) = Latched(i, v)
<1>1. CASE Upper(i) /\ Bar(i - 1).size <= RegSpace
  BY <1>1 DEF Latched
<1>2. CASE Upper(i) /\ ~ (Bar(i - 1).size <= RegSpace)
  <2> DEFINE k == Bar(i - 1).size \div RegSpace
  <2>1. i - 1 \in BarIndices
    BY <1>2 DEF Upper, BarIndices
  <2>2. Bar(i - 1).size > RegSpace
    BY <1>2, <2>1, BarKind
  <2>3. k \in Nat \ {0}
    BY <2>1, <2>2, UpperSize
  <2> HIDE DEF k
  <2>4. \A x : Latched(i, x) = x - (x % k)
    BY <1>2 DEF Latched, k
  <2> DEFINE w == v - (v % k)
  <2>5. 0 \in Nat /\ 0 < k
    BY <2>3
  <2>6. w \in Int /\ w % k = 0
    BY <2>3, <2>5, CutDown, Zenon
  <2>7. Latched(i, v) = w /\ Latched(i, w) = w - (w % k)
    BY <2>4
  <2> QED
    BY <2>6, <2>7
<1>3. CASE ~ Upper(i) /\ (Bar(i).size = 0 \/ Bar(i).size >= RegSpace)
  <2>1. Bar(i).flags \in Int
    BY BarKind
  <2> QED
    BY <1>3, <2>1, SMT DEF Latched
<1>4. CASE ~ Upper(i) /\ Bar(i).size # 0 /\ ~ (Bar(i).size >= RegSpace)
  <2> DEFINE s == Bar(i).size
             f == Bar(i).flags
  <2>1. s \in Nat \ {0} /\ f \in Nat /\ f < s /\ f < 16
    BY <1>4, BarKind
  <2> HIDE DEF s, f
  <2>2. \A x : Latched(i, x) = f + (x - (x % s))
    BY <1>4 DEF Latched, s, f
  <2> DEFINE w == v - (v % s)
  <2>3. w \in Int /\ (f + w) % s = f
    BY <2>1, CutDown, Zenon
  <2>4. Latched(i, v) = f + w /\ Latched(i, f + w) = f + ((f + w) - ((f + w) % s))
    BY <2>2
  <2> HIDE DEF w
  <2> QED
    BY <2>1, <2>3, <2>4
<1> QED
  BY <1>1, <1>2, <1>3, <1>4

\* The flags of a BAR can be read back from it.
LEMMA FlagsRead ==
  ASSUME machine \in Machines, NEW i \in BarIndices, NEW v \in Int,
         ~ Upper(i), Bar(i).size # 0
  PROVE  Latched(i, v) % 16 = Bar(i).flags
<1> DEFINE s == Bar(i).size
           f == Bar(i).flags
<1>1. s \in Nat \ {0} /\ s % 16 = 0 /\ f \in {0, 1, 4, 8, 12} /\ f < s
  BY BarKind
<1>2. CASE s >= RegSpace
  <2>1. Latched(i, v) = f + 0
    BY <1>2 DEF Latched
  <2> HIDE DEF s, f
  <2> QED
    BY <1>1, <2>1, SMT DEF f
<1>3. CASE ~ (s >= RegSpace)
  <2>1. Latched(i, v) = f + (v - (v % s))
    BY <1>3 DEF Latched
  <2>2. f \in Nat /\ f < 16
    BY <1>1
  <2>3. (f + (v - (v % s))) % 16 = f
    BY <1>1, <2>2, CutDown, Zenon
  <2> QED
    BY <2>1, <2>3, Zenon
<1> QED
  BY <1>2, <1>3

\* The BAR a capability names is a whole one.
LEMMA BarIndex ==
  ASSUME machine \in Machines, cap \in DOMAIN machine.caps
  PROVE  bar_index \in BarIndices /\ ~ Upper(bar_index)
<1>1. /\ bar_index \in BarIndices
      /\ bar_index > 0 => machine.bars[bar_index - 1].flags \notin {4, 12}
  BY PciAssumption, SMT DEF bar_index
<1>2. CASE bar_index > 0
  <2>1. bar_index - 1 \in BarIndices
    BY <1>1, <1>2 DEF BarIndices
  <2>2. ~ Wide(bar_index - 1)
    BY <1>1, <1>2, <2>1, BarKind DEF Bar
  <2> QED
    BY <1>1, <2>2 DEF Upper
<1>3. CASE ~ (bar_index > 0)
  BY <1>1, <1>3 DEF Upper
<1> QED
  BY <1>2, <1>3

\* What BAR_size computes from the ones it reads back.
LEMMA MeasureExact ==
  ASSUME machine \in Machines, cap \in DOMAIN machine.caps,
         Bar(bar_index).size # 0,
         Flags(bar_index) % 8 \in {0, 4},
         bar[bar_index] = Latched(bar_index, RegSpace - 1),
         Wide(bar_index) => bar[bar_index + 1] = Latched(bar_index + 1, RegSpace - 1)
  PROVE  Measure = Bar(bar_index).size
<1> DEFINE i == bar_index
           s == Bar(i).size
           f == Bar(i).flags
           low == bar[i] - Flags(i)
<1> i \in BarIndices /\ ~ Upper(i)
  BY BarIndex
<1>1. /\ RegSpace \in Nat \ {0} /\ f \in {0, 1, 4, 8, 12} /\ s \in Nat \ {0} /\ s < RegSpace * RegSpace
      /\ s \in 1 .. RegSpace => RegSpace % s = 0
      /\ Wide(i) <=> f \in {4, 12}
      /\ s > RegSpace => Wide(i)
      /\ Wide(i) => i + 1 \in BarIndices
  BY BarKind DEF BarIndices
<1>2. Flags(i) = f
  <2>1. RegSpace - 1 \in Int
    BY <1>1
  <2> QED
    BY <2>1, FlagsRead DEF Flags
<1>3. low = IF s >= RegSpace THEN 0 ELSE RegSpace - s
  <2>1. CASE s >= RegSpace
    BY <1>1, <1>2, <2>1 DEF Latched
  <2>2. CASE ~ (s >= RegSpace)
    <3>1. low = (f + ((RegSpace - 1) - ((RegSpace - 1) % s))) - f
      BY <1>1, <1>2, <2>2 DEF Latched
    <3>2. RegSpace % s = 0
      BY <1>1, <2>2
    <3>3. (RegSpace - 1) - ((RegSpace - 1) % s) = RegSpace - s
      BY <1>1, <3>2, OnesCutDown, Zenon
    <3> HIDE DEF low, s, f
    <3>4. low = (f + (RegSpace - s)) - f
      BY <3>1, <3>3
    <3> QED
      BY <1>1, <2>2, <3>4
  <2> QED
    BY <2>1, <2>2
<1>4. CASE f % 8 = 0
  <2>1. ~ Wide(i) /\ s <= RegSpace
    BY <1>1, <1>4
  <2>2. Measure = RegSpace - low
    BY <1>2, <1>4 DEF Measure
  <2> HIDE DEF low, s, f, i
  <2> QED
    BY <1>1, <1>3, <2>1, <2>2 DEF s, i
<1>5. CASE f % 8 = 4
  <2> DEFINE high == bar[i + 1]
  <2>1. Wide(i) /\ i + 1 \in BarIndices /\ Upper(i + 1) /\ (i + 1) - 1 = i
    <3>1. Wide(i)
      BY <1>1, <1>5
    <3>2. i + 1 > 0 /\ (i + 1) - 1 = i
      BY DEF BarIndices
    <3> QED
      BY <1>1, <3>1, <3>2 DEF Upper
  <2>2. Measure = (RegSpace * RegSpace - (high * RegSpace + low)) % (RegSpace * RegSpace)
    BY <1>2, <1>5 DEF Measure
  <2>3. RegSpace * RegSpace - (high * RegSpace + low) = s
    <3>1. CASE s <= RegSpace
      <4>1. high = RegSpace - 1
        BY <2>1, <3>1 DEF Latched
      <4>2. low = RegSpace - s
        BY <1>1, <1>3, <3>1
      <4> HIDE DEF low, high, s, f, i
      <4> QED
        BY <1>1, <4>1, <4>2, SMT
    <3>2. CASE s > RegSpace
      <4> DEFINE q == s \div RegSpace
      <4>1. high = (RegSpace - 1) - ((RegSpace - 1) % q)
        BY <1>1, <2>1, <3>2 DEF Latched
      <4>2. q \in Nat \ {0} /\ s = RegSpace * q
        BY <3>2, UpperSize
      <4>3. RegSpace % q = 0
        BY <3>2, BarKind
      <4> HIDE DEF q
      <4>4. high = RegSpace - q
        BY <1>1, <4>1, <4>2, <4>3, OnesCutDown, Zenon
      <4>5. low = 0
        BY <1>1, <1>3, <3>2
      <4> HIDE DEF low, high, s, f, i
      <4> QED
        BY <1>1, <4>2, <4>4, <4>5, SMT
    <3> QED
      BY <1>1, <3>1, <3>2
  <2> HIDE DEF low, high, s, f, i
  <2>4. s % (RegSpace * RegSpace) = s
    <3> DEFINE r == RegSpace * RegSpace
    <3>1. r \in Nat \ {0} /\ s \in 0 .. r - 1
      BY <1>1, SMT
    <3> HIDE DEF r
    <3>2. s = r * 0 + s /\ 0 \in Int
      BY <1>1, <3>1
    <3>3. (r * 0 + s) % r = s
      BY <3>1, <3>2, Unique
    <3> QED
      BY <3>2, <3>3 DEF r
  <2> QED
    BY <2>2, <2>3, <2>4 DEF s, i
<1>6. f % 8 \in {0, 4}
  BY <1>2
<1> QED
  BY <1>4, <1>5, <1>6

-----------------------------------------------------------------------------
\* A BAR holds what it would keep if it were written back.
Settled(b) == /\ b \in [BarIndices -> Int]
              /\ \A i \in BarIndices : Latched(i, b[i]) = b[i]

AllOnes(i) == bar[i] = Latched(i, RegSpace - 1)

\* BAR_size from one step to the next.
Probing ==
  /\ machine \in Machines /\ cap \in DOMAIN machine.caps /\ size \in Int
  /\ Settled(bar) /\ Settled(before.bar)
  /\ pc \in {"silent", "probed", "restored"} => command \cap {"io", "memory"} = {}
  /\ pc \in {"silent", "restored", "sized"} => bar = before.bar
  /\ pc = "probed" /\ Bar(bar_index).size # 0 /\ Flags(bar_index) % 8 \in {0, 4}
       => AllOnes(bar_index) /\ (Wide(bar_index) => AllOnes(bar_index + 1))
  /\ pc \in {"restored", "sized"} /\ Bar(bar_index).size # 0 /\ Flags(bar_index) % 8 \in {0, 4}
       => size = Bar(bar_index).size
  /\ pc = "sized" => command = before.command

\* A step that writes no BAR and is none of BAR_size's.
LEMMA ProbingElsewhere ==
  ASSUME Probing,
         UNCHANGED << machine, bar, before, size >>,
         cap' \in DOMAIN machine.caps,
         pc' \notin {"silent", "probed", "restored", "sized"}
  PROVE  Probing'
<1>1. Settled(bar)' /\ Settled(before.bar)'
  BY DEF Probing, Settled, Latched, Upper, Wide, Bar
<1> QED
  BY <1>1 DEF Probing

\* Whatever is written to registers, the BARs are settled.
LEMMA SettledByWrites ==
  ASSUME machine \in Machines, Settled(bar), machine' = machine,
         bar' \in [BarIndices -> Int],
         \A i \in BarIndices : bar'[i] = bar[i] \/ \E v \in Int : bar'[i] = Latched(i, v)
  PROVE  Settled(bar)'
<1>1. ASSUME NEW i \in BarIndices
      PROVE  Latched(i, bar'[i]) = bar'[i]
  BY LatchedSettles DEF Settled
<1> QED
  BY <1>1 DEF Settled, Latched, Upper, Wide, Bar

\* Only a 64-bit BAR reads as one, and the next register is its upper half.
LEMMA SeenWide ==
  ASSUME machine \in Machines, NEW i \in BarIndices, ~ Upper(i), Settled(bar)
  PROVE  Flags(i) % 8 = 4 => Wide(i) /\ i + 1 \in BarIndices
<1>1. bar[i] \in Int /\ Latched(i, bar[i]) = bar[i]
  BY DEF Settled
<1>2. CASE Bar(i).size = 0
  <2>1. Flags(i) = 0 % 16
    BY <1>1, <1>2 DEF Latched, Flags
  <2> QED
    BY <2>1
<1>3. CASE Bar(i).size # 0
  <2>1. Flags(i) = Bar(i).flags
    BY <1>1, <1>3, FlagsRead DEF Flags
  <2>2. /\ Bar(i).flags \in {0, 1, 4, 8, 12}
        /\ Wide(i) <=> Bar(i).flags \in {4, 12}
        /\ Wide(i) => i # 5
    BY BarKind
  <2> QED
    BY <2>1, <2>2 DEF BarIndices
<1> QED
  BY <1>2, <1>3

LEMMA MeasureInt ==
  ASSUME machine \in Machines, cap \in DOMAIN machine.caps, Settled(bar)
  PROVE  Measure \in Int
<1> DEFINE i == bar_index
<1>1. i \in BarIndices /\ ~ Upper(i)
  BY BarIndex
<1>2. RegSpace \in Nat \ {0} /\ bar[i] \in Int
  BY <1>1, PciAssumption DEF Settled
<1>3. Flags(i) % 8 = 4 => bar[i + 1] \in Int
  BY <1>1, SeenWide DEF Settled
<1>4. RegSpace * RegSpace \in Nat \ {0} /\ Flags(i) \in Int
  BY <1>2, SMT DEF Flags
<1>5. \A a \in Int : a % (RegSpace * RegSpace) \in Int
  BY <1>4, Divided
<1> HIDE DEF i
<1> QED
  BY <1>2, <1>3, <1>4, <1>5, SMT DEF Measure, i

\* The steps of BAR_size.
LEMMA ProbingSteps ==
  ASSUME Probing, Silence \/ Probe \/ RestoreBar \/ RestoreCommand
  PROVE  Probing'
<1> DEFINE i == bar_index
<1>1. i \in BarIndices /\ ~ Upper(i)
  BY BarIndex DEF Probing
<1>2. UNCHANGED << machine, cap >> /\ bar_index' = bar_index
  BY DEF Silence, Probe, RestoreBar, RestoreCommand, bar_index
<1>3. \A j : Bar(j)' = Bar(j) /\ Wide(j)' = Wide(j) /\ \A v : Latched(j, v)' = Latched(j, v')
  BY <1>2 DEF Bar, Wide, Latched, Upper
<1>4. CASE Silence
  <2>1. Settled(bar)' /\ Settled(before.bar)'
    BY <1>2, <1>4 DEF Silence, Probing, Settled, Latched, Upper, Wide, Bar
  <2> QED
    BY <1>2, <1>4, <2>1 DEF Silence, Probing
<1>5. CASE Probe
  <2>1. RegSpace - 1 \in Int
    BY PciAssumption
  <2>2. Settled(before.bar)'
    BY <1>2, <1>5 DEF Probe, Probing, Settled, Latched, Upper, Wide, Bar
  <2>3. /\ bar' \in [BarIndices -> Int]
        /\ \A j \in BarIndices : bar'[j] = bar[j] \/ bar'[j] = Latched(j, RegSpace - 1)
    BY <1>1, <1>5, <2>1, LatchedSettles, SeenWide DEF Probe, Probing, Settled
  <2>4. Settled(bar)'
    BY <1>2, <2>1, <2>3, SettledByWrites DEF Probing
  <2>5. ASSUME Bar(i).size # 0, Flags(i)' % 8 \in {0, 4}
        PROVE  bar'[i] = Latched(i, RegSpace - 1)
                 /\ (Wide(i) => bar'[i + 1] = Latched(i + 1, RegSpace - 1))
    <3>1. Flags(i) = Bar(i).flags
      <4>1. bar[i] \in Int /\ Latched(i, bar[i]) = bar[i]
        BY <1>1 DEF Probing, Settled
      <4> QED
        BY <1>1, <2>5, <4>1, FlagsRead DEF Flags, Probing
    <3>2. Flags(i)' = Bar(i).flags
      <4>1. bar'[i] \in Int /\ Latched(i, bar'[i]) = bar'[i]
        BY <1>1, <1>3, <2>4 DEF Settled
      <4>2. Flags(i)' = Latched(i, bar'[i]) % 16
        BY <1>2, <4>1 DEF Flags
      <4> QED
        BY <1>1, <2>5, <4>1, <4>2, FlagsRead DEF Probing
    <3>3. Flags(i) % 8 \in {0, 4} /\ (Wide(i) <=> Flags(i) % 8 = 4)
      <4>1. Bar(i).flags \in {0, 1, 4, 8, 12} /\ (Wide(i) <=> Bar(i).flags \in {4, 12})
        BY <1>1, BarKind DEF Probing
      <4> QED
        BY <2>5, <3>1, <3>2, <4>1
    <3>4. Wide(i) => i + 1 \in BarIndices
      BY <1>1, <3>3, SeenWide DEF Probing
    <3> QED
      BY <1>1, <1>5, <3>3, <3>4 DEF Probe, Probing, Settled, BarIndices
  <2> QED
    BY <1>2, <1>3, <1>5, <2>2, <2>4, <2>5 DEF Probe, Probing, AllOnes
<1>6. CASE RestoreBar
  <2>1. bar' = before.bar
    BY <1>6 DEF RestoreBar, Probing, Settled
  <2>2. Settled(bar)' /\ Settled(before.bar)'
    BY <1>2, <1>6, <2>1 DEF RestoreBar, Probing, Settled, Latched, Upper, Wide, Bar
  <2>3. size' \in Int
    BY <1>6, MeasureInt DEF RestoreBar, Probing
  <2>4. ASSUME Bar(i).size # 0, Flags(i)' % 8 \in {0, 4}
        PROVE  size' = Bar(i).size
    <3>1. Flags(i) = Bar(i).flags
      <4>1. bar[i] \in Int /\ Latched(i, bar[i]) = bar[i]
        BY <1>1 DEF Probing, Settled
      <4> QED
        BY <1>1, <2>4, <4>1, FlagsRead DEF Flags, Probing
    <3>2. Flags(i)' = Bar(i).flags
      <4>1. bar'[i] \in Int /\ Latched(i, bar'[i]) = bar'[i]
        BY <1>1, <1>3, <2>2 DEF Settled
      <4>2. Flags(i)' = Latched(i, bar'[i]) % 16
        BY <1>2, <4>1 DEF Flags
      <4> QED
        BY <1>1, <2>4, <4>1, <4>2, FlagsRead DEF Probing
    <3>3. Flags(i) % 8 \in {0, 4}
      BY <2>4, <3>1, <3>2
    <3>4. bar[i] = Latched(i, RegSpace - 1) /\ (Wide(i) => bar[i + 1] = Latched(i + 1, RegSpace - 1))
      BY <1>6, <2>4, <3>3 DEF RestoreBar, Probing, AllOnes
    <3> QED
      BY <1>6, <2>4, <3>3, <3>4, MeasureExact DEF RestoreBar, Probing
  <2> QED
    BY <1>2, <1>3, <1>6, <2>1, <2>2, <2>3, <2>4 DEF RestoreBar, Probing
<1>7. CASE RestoreCommand
  <2>1. Settled(bar)' /\ Settled(before.bar)'
    BY <1>2, <1>7 DEF RestoreCommand, Probing, Settled, Latched, Upper, Wide, Bar
  <2>2. Flags(i)' = Flags(i)
    BY <1>2, <1>7 DEF RestoreCommand, Flags
  <2> QED
    BY <1>2, <1>3, <1>7, <2>1, <2>2 DEF RestoreCommand, Probing
<1> QED
  BY <1>4, <1>5, <1>6, <1>7

\* Programming the BAR.
LEMMA ProbingProgram ==
  ASSUME Probing, Program
  PROVE  Probing'
<1>1. UNCHANGED << machine, cap, before, size >> /\ pc' = "allocated"
  BY DEF Program
<1>2. PICK w \in Windows : bar' = WriteBar(w)
  BY DEF Program
<1>3. w.bus \in Int
  <2>1. {0, MemBase, PrefBase} \subseteq Int
    BY PciAssumption
  <2>2. w.bus \in {0, MemBase, PrefBase}
    BY <1>2 DEF Windows
  <2> QED
    BY <2>1, <2>2
<1> DEFINE address == w.bus + size
           low == address % RegSpace
           high == address \div RegSpace
<1>4. low \in Int /\ high \in Int
  <2>1. address \in Int /\ RegSpace \in Nat \ {0}
    BY <1>3, PciAssumption DEF Probing
  <2> HIDE DEF address
  <2> QED
    BY <2>1, Divided DEF low, high
<1>5. \A i \in BarIndices : bar'[i] \in {bar[i], Latched(i, low), Latched(i, high)}
  BY <1>2, Zenon DEF WriteBar, Probing, Settled
<1>6. bar' \in [BarIndices -> Int]
  <2>1. DOMAIN bar' = BarIndices /\ bar' = [i \in BarIndices |-> bar'[i]]
    BY <1>2 DEF WriteBar, Probing, Settled
  <2>2. \A i \in BarIndices : bar'[i] \in Int
    BY <1>4, <1>5, LatchedSettles DEF Probing, Settled
  <2> QED
    BY <2>1, <2>2
<1>7. Settled(bar)'
  BY <1>1, <1>4, <1>5, <1>6, SettledByWrites, Zenon DEF Probing
<1>8. Settled(before.bar)'
  BY <1>1 DEF Probing, Settled, Latched, Upper, Wide, Bar
<1> QED
  BY <1>1, <1>7, <1>8 DEF Probing

\* The other actions.
LEMMA ProbingOthers ==
  ASSUME Probing, Next
  PROVE  \/ Silence \/ Probe \/ RestoreBar \/ RestoreCommand \/ Program
         \/ Probing'
<1>1. CASE search_pci_device
  <2>1. pc' \in {"search", "device", "undefined"}
    BY <1>1 DEF search_pci_device
  <2> QED
    BY <1>1, <2>1, ProbingElsewhere DEF search_pci_device, Probing
<1>2. CASE get_pci_capability
  <2>1. cap' \in DOMAIN machine.caps /\ pc' \in {"walk", "capability"}
    <3>1. LET c == machine.caps[cap] IN c.next = 0 \/ c.next \in DOMAIN machine.caps
      BY PciAssumption, SMT DEF Probing
    <3> QED
      BY <1>2, <3>1 DEF get_pci_capability, Probing
  <2> QED
    BY <1>2, <2>1, ProbingElsewhere DEF get_pci_capability
<1>3. CASE Map
  <2>1. pc' \in {"undefined", "endless", "mapped"}
    BY <1>3, Zenon DEF Map
  <2>2. UNCHANGED << machine, bar, before, size, cap >>
    BY <1>3 DEF Map
  <2> QED
    BY <2>1, <2>2, ProbingElsewhere DEF Probing
<1>4. CASE EnableDevice \/ FindNotify
  <2>1. UNCHANGED << machine, bar, before, size >> /\ cap' = machine.first /\ pc' = "walk"
    BY <1>4 DEF EnableDevice, FindNotify, GetCapability
  <2>2. machine.first \in DOMAIN machine.caps
    BY PciAssumption DEF Probing
  <2> QED
    BY <2>1, <2>2, ProbingElsewhere
<1>5. CASE AllocBar \/ UseBar \/ Notify
  <2>1. UNCHANGED << machine, bar, before, size, cap >> /\ pc' \in {"sizing", "reset", "astray", "waiting"}
    BY <1>5 DEF AllocBar, UseBar, Notify
  <2> QED
    BY <2>1, ProbingElsewhere DEF Probing
<1>6. CASE ResetDevice \/ Acknowledge \/ FeaturesLow \/ FeaturesHigh \/ FeaturesOk
             \/ construct_virtqueue \/ DriverOk
  <2>1. /\ UNCHANGED << machine, bar, before, size, cap >>
        /\ pc' \in {"acknowledge", "features 0", "features 1", "features ok", "queue", "enable",
                    "driver ok", "look for notify"}
    BY <1>6 DEF ResetDevice, Acknowledge, FeaturesLow, FeaturesHigh, FeaturesOk,
       construct_virtqueue, DriverOk, Step
  <2> QED
    BY <2>1, ProbingElsewhere DEF Probing
<1> QED
  BY <1>1, <1>2, <1>3, <1>4, <1>5, <1>6 DEF Next, SearchAndSize, PciNext

LEMMA ProbingInvariant == Spec => []Probing
<1>1. Init => Probing
  <2> SUFFICES ASSUME Init PROVE Probing
    OBVIOUS
  <2>1. machine \in Machines /\ 0 \in Int /\ cap \in DOMAIN machine.caps
    BY PciAssumption DEF Init, InitPci
  <2>2. Settled(bar)
    BY <2>1, LatchedSettles DEF Init, InitPci, Settled
  <2> QED
    BY <2>1, <2>2 DEF Init, InitPci, Probing
<1>2. Probing /\ [Next]_vars => Probing'
  <2>1. CASE Next
    BY <2>1, ProbingOthers, ProbingSteps, ProbingProgram
  <2>2. ASSUME Probing, UNCHANGED vars PROVE Probing'
    BY <2>2 DEF Probing, Settled, AllOnes, Latched, Upper, Wide, Bar, Flags, bar_index, vars, pciVars
  <2> QED
    BY <2>1, <2>2
<1> QED
  BY <1>1, <1>2, PTL DEF Spec

\* On every machine, for every BAR of memory: BAR_size returns what the device
\* decodes, for both kinds of memory BARs and below and above 32 bits, and leaves the
\* BARs and the command register as they were.
THEOREM BarSizeExact == Spec => []SizedWithoutTrace
<1>1. Probing => SizedWithoutTrace
  BY DEF Probing, SizedWithoutTrace
<1> QED
  BY <1>1, ProbingInvariant, PTL

\* While a BAR does not hold its address, the device is silent.
THEOREM SilentThroughout == Spec => []SilentWhileProbed
<1>1. Probing => SilentWhileProbed
  BY DEF Probing, SilentWhileProbed
<1> QED
  BY <1>1, ProbingInvariant, PTL

-----------------------------------------------------------------------------
\* What the registers hold is a number of a register's width.
Registers == [BarIndices -> 0 .. RegSpace - 1]

\* TypeOK, and what a step of it needs of the machine and of BAR_size's copies.
Typed ==
  /\ TypeOK
  /\ machine \in Machines
  /\ before.bar \in Registers
  /\ before.command \subseteq {"io", "memory", "master"}

LEMMA Sizes ==
  /\ RegSpace \in Nat \ {0} /\ RegSpace >= 16
  /\ RegSpace * RegSpace \in Nat \ {0} /\ RegSpace < RegSpace * RegSpace
<1>1. RegSpace \in Nat \ {0} /\ RegSpace % 16 = 0
  BY PciAssumption
<1>2. RegSpace >= 16
  BY <1>1
<1> QED
  BY <1>1, <1>2, SMT

\* Rounding down stays between zero and the number.
LEMMA RoundedDown ==
  ASSUME NEW v \in Nat, NEW s \in Nat \ {0}
  PROVE  v - (v % s) \in 0 .. v
<1> DEFINE q == v \div s
           r == v % s
<1>1. q \in Int /\ r \in 0 .. s - 1 /\ v = s * q + r
  BY Divided
<1> HIDE DEF q, r
<1>2. q >= 0
  <2> SUFFICES ASSUME q <= -1 PROVE FALSE
    BY <1>1
  <2>1. s * q <= -s
    BY <1>1, SMT
  <2> QED
    BY <1>1, <2>1
<1>3. s * q >= 0
  BY <1>1, <1>2, SMT
<1> QED
  BY <1>1, <1>3 DEF r

\* A register takes no number that it cannot hold.
LEMMA LatchedFits ==
  ASSUME machine \in Machines, NEW i \in BarIndices, NEW v \in 0 .. RegSpace - 1
  PROVE  Latched(i, v) \in 0 .. RegSpace - 1
<1>1. CASE Upper(i) /\ Bar(i - 1).size <= RegSpace
  BY <1>1 DEF Latched
<1>2. CASE Upper(i) /\ ~ (Bar(i - 1).size <= RegSpace)
  <2> DEFINE k == Bar(i - 1).size \div RegSpace
  <2>1. i - 1 \in BarIndices
    BY <1>2 DEF Upper, BarIndices
  <2>2. Bar(i - 1).size > RegSpace
    BY <1>2, <2>1, BarKind
  <2>3. k \in Nat \ {0}
    BY <2>1, <2>2, UpperSize
  <2>4. Latched(i, v) = v - (v % k)
    BY <1>2 DEF Latched
  <2> HIDE DEF k
  <2>5. v - (v % k) \in 0 .. v
    BY <2>3, RoundedDown, Sizes
  <2> QED
    BY <2>4, <2>5, Sizes
<1>3. CASE ~ Upper(i) /\ (Bar(i).size = 0 \/ Bar(i).size >= RegSpace)
  <2>1. Bar(i).flags \in 0 .. 12
    BY BarKind
  <2> QED
    BY <1>3, <2>1, Sizes DEF Latched
<1>4. CASE ~ Upper(i) /\ Bar(i).size # 0 /\ ~ (Bar(i).size >= RegSpace)
  <2> DEFINE s == Bar(i).size
             f == Bar(i).flags
             q == v \div s
             d == RegSpace \div s
  <2>1. s \in Nat \ {0} /\ s >= 16 /\ f \in 0 .. 12 /\ s < RegSpace /\ RegSpace % s = 0
    BY <1>4, BarKind
  <2>2. Latched(i, v) = f + (v - (v % s))
    BY <1>4 DEF Latched
  <2>3. v - (v % s) \in 0 .. v
    BY <2>1, RoundedDown, Sizes
  <2> v \in Int /\ RegSpace \in Int
    BY Sizes
  <2>4. q \in Int /\ v = s * q + (v % s) /\ v % s \in 0 .. s - 1
    BY <2>1, Divided, Zenon
  <2>5. d \in Int /\ RegSpace = s * d
    <3>1. d \in Int /\ RegSpace = s * d + (RegSpace % s)
      BY <2>1, Divided, Zenon
    <3> HIDE DEF s, d
    <3> QED
      BY <2>1, <3>1
  <2> HIDE DEF s, f, q, d
  <2>6. s * q <= s * (d - 1)
    <3>1. q <= d - 1
      <4> SUFFICES ASSUME q >= d PROVE FALSE
        BY <2>4, <2>5
      <4>1. s * q >= s * d
        BY <2>1, <2>4, <2>5, SMT
      <4>2. v >= RegSpace
        BY <2>1, <2>4, <2>5, <4>1, SMT
      <4> QED
        BY <4>2, Sizes
    <3> QED
      BY <2>1, <2>4, <2>5, <3>1, SMT
  <2>7. s * (d - 1) = RegSpace - s
    BY <2>1, <2>5, SMT
  <2>8. s * q \in Int
    BY <2>1, <2>4
  <2>9. v - (v % s) <= RegSpace - s
    BY <2>1, <2>4, <2>6, <2>7, <2>8, Sizes
  <2> HIDE DEF q
  <2>10. v - (v % s) \in Int
    BY <2>3
  <2> QED
    BY <2>1, <2>2, <2>3, <2>9, <2>10, Sizes
<1> QED
  BY <1>1, <1>2, <1>3, <1>4

LEMMA MeasureFits ==
  ASSUME machine \in Machines, cap \in DOMAIN machine.caps, Settled(bar), bar \in Registers
  PROVE  Measure \in 0 .. RegSpace * RegSpace - 1
<1> DEFINE i == bar_index
           low == bar[i] - Flags(i)
           r == RegSpace * RegSpace
<1>1. i \in BarIndices /\ ~ Upper(i)
  BY BarIndex
<1>2. bar[i] \in 0 .. RegSpace - 1
  BY <1>1 DEF Registers
<1>3. low \in 0 .. RegSpace - 1
  <2>1. bar[i] \in Nat /\ 16 \in Nat \ {0}
    BY <1>2, Sizes
  <2>2. bar[i] - (bar[i] % 16) \in 0 .. bar[i]
    BY <2>1, RoundedDown, Zenon
  <2> QED
    BY <1>2, <2>2, Sizes DEF Flags
<1>4. r \in Nat \ {0} /\ RegSpace < r
  BY Sizes
<1>5. CASE Flags(i) % 8 = 0
  <2>1. Measure = RegSpace - low
    BY <1>5 DEF Measure
  <2> HIDE DEF low, i, r
  <2>2. RegSpace - low \in 0 .. r - 1
    BY <1>3, <1>4, Sizes
  <2> QED
    BY <2>1, <2>2 DEF r
<1>6. CASE Flags(i) % 8 = 4
  <2> DEFINE a == r - (bar[i + 1] * RegSpace + low)
  <2>1. bar[i + 1] \in Int
    BY <1>1, <1>6, SeenWide DEF Settled
  <2>2. Measure = a % r
    BY <1>6 DEF Measure
  <2> HIDE DEF low, i, r
  <2>3. bar[i + 1] * RegSpace \in Int
    BY <2>1, Sizes
  <2>4. a \in Int
    BY <1>3, <1>4, <2>3
  <2> HIDE DEF a
  <2>5. a % r \in 0 .. r - 1
    BY <1>4, <2>4, Divided
  <2> QED
    BY <2>2, <2>5 DEF r
<1>7. CASE Flags(i) % 8 \notin {0, 4}
  <2>1. Measure = 0
    BY <1>7 DEF Measure
  <2> HIDE DEF r
  <2>2. 0 \in 0 .. r - 1
    BY <1>4
  <2> QED
    BY <2>1, <2>2 DEF r
<1> QED
  BY <1>5, <1>6, <1>7

-----------------------------------------------------------------------------
\* The machine is one of the driver's where the first notification arrives:
\* the argument follows the walk along the capabilities, the BAR that is
\* placed, and what is known of it when the handshake begins.

\* A capability at which get_pci_capability stops.
Stops(o) == machine.caps[o].cfg_type = cfg_type \/ machine.caps[o].next = 0

\* The walk up to cap has met every capability once, ...
IsWalk(n, path) ==
  /\ path \in [0 .. n -> DOMAIN machine.caps]
  /\ path[0] = machine.first /\ path[n] = cap
  /\ \A k \in 0 .. n - 1 : ~ Stops(path[k]) /\ path[k + 1] = machine.caps[path[k]].next
  /\ \A j, k \in 0 .. n : path[j] = path[k] => j = k

Walked == \E n \in Nat : \E path : IsWalk(n, path)

\* ... or goes round for ever.
Circling ==
  \E loop \in SUBSET DOMAIN machine.caps :
    cap \in loop /\ \A o \in loop : ~ Stops(o) /\ machine.caps[o].next \in loop

BeforeMap == {"sizing", "silent", "probed", "restored", "sized"}

Walking ==
  /\ Walked \/ Circling
  /\ pc \in {"capability", "mapped", "allocated"} \cup BeforeMap => Stops(cap)

\* The search has met the device.
Found ==
  /\ bdf \in Nat \ {0}
  /\ pc \notin {"search", "undefined"} =>
       \E f \in DOMAIN machine.functions : machine.functions[f] = "gpu"

\* No BAR has an address.
Unassigned(b) == \A i \in BarIndices : b[i] = Latched(i, 0)

\* Nothing of a BAR is in the way of what is returned for the one at i.
Placed(i) ==
  /\ 2 * size < PrefSize /\ (size % RegSpace) % PageSize = 0 /\ size % RegSpace # 0
  /\ mapped = {<< ret, size % RegSpace >>} /\ ret = PrefBase + size
  /\ Bar(i).size # 0 =>
       /\ Bar(i).flags = 12 /\ size = Bar(i).size
       /\ bar[i] = Latched(i, (PrefBase + size) % RegSpace)
       /\ bar[i + 1] = Latched(i + 1, (PrefBase + size) \div RegSpace)
  /\ \A j \in BarIndices \ {i, i + 1} : bar[j] = Latched(j, 0)

Placing ==
  /\ pc \in {"search", "device", "walk", "capability"} \cup BeforeMap /\ cfg_type = 1 =>
       mapped = {} /\ Unassigned(IF pc = "probed" THEN before.bar ELSE bar)
  /\ pc = "mapped" =>
       /\ Unassigned(bar)
       /\ Bar(bar_index).size # 0 /\ Flags(bar_index) % 8 \in {0, 4} => size = Bar(bar_index).size
       /\ (size % RegSpace) % PageSize = 0
       /\ \E w \in Windows : Fits(w) /\ mapped = {<< w.base + size, size % RegSpace >>}
  /\ pc = "allocated" /\ Mapped(ret) => Placed(bar_index)

\* What the driver has when it resets the device, and keeps.
Driven ==
  LET c == FirstOf(machine, 1)
  IN  /\ c.vendor = "virtio" /\ c.cfg_type = 1 /\ c.bar \in BarIndices /\ c.offset = 0
      /\ Bar(c.bar).flags = 12 /\ Bar(c.bar).size = size
      /\ size \in 1 .. RegSpace - 1 /\ size % PageSize = 0 /\ 2 * size < PrefSize
      /\ common = PrefBase + size /\ mapped = {<< common, size >>}
      /\ \A j \in BarIndices \ {c.bar} : ~ Upper(j) /\ Bar(j).size # 0 => Address(j) = 0

Handshake == {"reset", "acknowledge", "features 0", "features 1", "features ok", "queue", "enable",
              "driver ok", "look for notify"}

Driving ==
  /\ pc \in Handshake \/ cfg_type = 2 => Driven
  /\ pc \in {"driver ok", "look for notify"} \/ cfg_type = 2 => queue = "enabled"
  /\ pc = "look for notify" \/ cfg_type = 2 => "driver_ok" \in status
  /\ rung => pc = "waiting" /\ cfg_type = 2 /\ Suitable(machine)

Setup == Agreed /\ Probing /\ Typed /\ Found /\ Walking /\ Placing /\ Driving

\* The steps of Pci that write the registers or measure.
LEMMA TypedByProbing ==
  ASSUME Typed, Probing, Silence \/ Probe \/ RestoreBar \/ RestoreCommand,
         UNCHANGED << common, deviceVars >>
  PROVE  Typed'
<1>1. UNCHANGED << machine, cap, bdf, cfg_type, ret, common, status, page, accepted, queue, rung >>
  BY DEF Silence, Probe, RestoreBar, RestoreCommand, deviceVars
<1>2. machine \in Machines /\ bar \in Registers /\ before.bar \in Registers
  BY DEF Typed, TypeOK, Registers
<1>3. CASE Silence \/ RestoreCommand
  <2>1. /\ bar' = bar /\ size' = size
        /\ before' = before \/ before' = [bar |-> bar, command |-> command]
        /\ command' \subseteq {"io", "memory", "master"}
    BY <1>3 DEF Silence, RestoreCommand, Typed, TypeOK
  <2>2. before.bar' \in Registers /\ before.command' \subseteq {"io", "memory", "master"}
    <3>1. command \subseteq {"io", "memory", "master"}
            /\ before.command \subseteq {"io", "memory", "master"}
      BY DEF Typed, TypeOK
    <3>2. Registers' = Registers
      BY DEF Registers
    <3>3. CASE before' = before
      BY <1>2, <3>1, <3>2, <3>3
    <3>4. CASE before' = [bar |-> bar, command |-> command]
      <4>1. before'.bar = bar /\ before'.command = command
        BY <3>4
      <4> QED
        BY <1>2, <3>1, <3>2, <4>1
    <3> QED
      BY <2>1, <3>3, <3>4
  <2> QED
    BY <1>1, <2>1, <2>2 DEF Typed, TypeOK
<1>4. CASE Probe
  <2>1. bar' \in Registers
    <3>1. RegSpace - 1 \in 0 .. RegSpace - 1
      BY Sizes
    <3>2. \A j \in BarIndices : Latched(j, RegSpace - 1) \in 0 .. RegSpace - 1
      BY <1>2, <3>1, LatchedFits
    <3>3. DOMAIN bar' = BarIndices /\ bar' = [j \in BarIndices |-> bar'[j]]
      <4>1. \/ bar' = [bar EXCEPT ![bar_index] = Latched(bar_index, RegSpace - 1)]
            \/ bar' = [bar EXCEPT ![bar_index] = Latched(bar_index, RegSpace - 1),
                                 ![bar_index + 1] = Latched(bar_index + 1, RegSpace - 1)]
            \/ bar' = bar
        <5> DEFINE f == Flags(bar_index) % 8
        <5> f = 0 \/ f = 4 \/ f \notin {0, 4}
          OBVIOUS
        <5> HIDE DEF f
        <5> QED
          BY <1>4 DEF Probe, f
      <4> QED
        BY <1>2, <4>1 DEF Registers
    <3>4. \A j \in BarIndices : bar'[j] = bar[j] \/ bar'[j] = Latched(j, RegSpace - 1)
      BY <1>2, <1>4 DEF Probe, Registers
    <3> QED
      BY <1>2, <3>2, <3>3, <3>4 DEF Registers
  <2> QED
    BY <1>1, <1>4, <2>1 DEF Probe, Typed, TypeOK, Registers
<1>5. CASE RestoreBar
  <2>1. bar' \in Registers
    <3>1. \A j \in BarIndices : Latched(j, before.bar[j]) \in 0 .. RegSpace - 1
      BY <1>2, LatchedFits DEF Registers
    <3> QED
      BY <1>5, <3>1 DEF RestoreBar, Registers
  <2>2. size' \in 0 .. RegSpace * RegSpace - 1
    <3>1. Settled(bar) /\ cap \in DOMAIN machine.caps
      BY DEF Probing
    <3> QED
      BY <1>2, <1>5, <3>1, MeasureFits DEF RestoreBar
  <2> QED
    BY <1>1, <1>5, <2>1, <2>2 DEF RestoreBar, Typed, TypeOK, Registers
<1> QED
  BY <1>3, <1>4, <1>5

\* What a window is, and whether a BAR fits into it.
LEMMA WindowKinds ==
  ASSUME NEW w \in Windows
  PROVE  /\ w.base \in Nat /\ w.bus \in Nat /\ w.scale \in {1, 8} /\ w.length \in Nat
         /\ w.scale = 1 => /\ w = [base |-> PrefBase, length |-> PrefSize, bus |-> PrefBase, scale |-> 1]
                           /\ Flags(bar_index) \div 8 = 1 /\ (Flags(bar_index) \div 2) % 4 = 2
                           /\ Flags(bar_index) % 2 = 0
<1>1. {IoBase, IoSize, MemBase, MemSize, PrefBase, PrefSize} \subseteq Nat
  BY PciAssumption
<1> DEFINE f == Flags(bar_index)
<1>2. CASE f % 2 = 1
  <2>1. (f \div 2) % 4 = 0
    BY <1>2 DEF Windows
  <2>2. w = [base |-> IoBase, length |-> IoSize, bus |-> 0, scale |-> 8]
    BY <1>2, <2>1 DEF Windows
  <2> QED
    BY <1>1, <2>2
<1>3. CASE f % 2 = 0 /\ f \div 8 = 1
  <2>1. (f \div 2) % 4 = 2
    BY <1>3 DEF Windows
  <2>2. w = [base |-> PrefBase, length |-> PrefSize, bus |-> PrefBase, scale |-> 1]
    BY <1>3, <2>1 DEF Windows
  <2> QED
    BY <1>1, <1>3, <2>1, <2>2
<1>4. CASE f % 2 # 1 /\ ~ (f % 2 = 0 /\ f \div 8 = 1)
  <2>1. w = [base |-> MemBase, length |-> MemSize, bus |-> MemBase, scale |-> 8]
    BY <1>4 DEF Windows
  <2> QED
    BY <1>1, <2>1
<1> QED
  BY <1>2, <1>3, <1>4

LEMMA OneWindow ==
  ASSUME NEW v \in Windows, NEW w \in Windows
  PROVE  v = w
<1>1. CASE Flags(bar_index) % 2 = 1
  <2>1. CASE (Flags(bar_index) \div 2) % 4 = 0
    BY <1>1, <2>1 DEF Windows
  <2>2. CASE (Flags(bar_index) \div 2) % 4 # 0
    BY <1>1, <2>2 DEF Windows
  <2> QED
    BY <2>1, <2>2
<1>2. CASE Flags(bar_index) % 2 = 0 /\ Flags(bar_index) \div 8 = 1
  BY <1>2 DEF Windows
<1>3. CASE Flags(bar_index) % 2 # 1 /\ ~ (Flags(bar_index) % 2 = 0 /\ Flags(bar_index) \div 8 = 1)
  BY <1>3 DEF Windows
<1> QED
  BY <1>1, <1>2, <1>3

\* The address given to the BAR and the one that is returned.
LEMMA TypedByProgram ==
  ASSUME Typed, Placing, Program, UNCHANGED << common, deviceVars >>
  PROVE  Typed'
<1>1. PICK w \in Windows : bar' = WriteBar(w) /\ ret' = w.base + w.scale * size
  BY DEF Program
<1>2. w.base \in Nat /\ w.bus \in Nat /\ w.scale \in {1, 8}
  BY <1>1, WindowKinds
<1>3. size \in Nat /\ machine \in Machines /\ bar \in Registers
  BY Sizes DEF Typed, TypeOK, Registers
<1> DEFINE address == w.bus + size
           low == address % RegSpace
           high == address \div RegSpace
           i == bar_index
<1>4. ret' \in Nat /\ address \in Nat
  <2>1. ret' = w.base + size \/ ret' = w.base + 8 * size
    BY <1>1, <1>2, <1>3
  <2> QED
    BY <1>2, <1>3, <2>1
<1>5. low \in 0 .. RegSpace - 1 /\ high \in Int /\ address = RegSpace * high + low
  <2>1. address \in Int /\ RegSpace \in Nat \ {0}
    BY <1>4, Sizes
  <2> HIDE DEF address
  <2> QED
    BY <2>1, Divided
<1>6. ASSUME w.scale = 1 PROVE high \in 0 .. RegSpace - 1
  <2>1. PICK v \in Windows : Fits(v)
    BY DEF Placing, Program
  <2>2. Fits(w)
    BY <1>1, <2>1, OneWindow
  <2>3. w.base = PrefBase /\ w.bus = PrefBase /\ w.length = PrefSize
    BY <1>1, <1>6, WindowKinds
  <2>4. PrefBase \in Nat /\ PrefSize \in Nat /\ PrefBase + PrefSize <= RegSpace * RegSpace
    BY PciAssumption
  <2>5. address < RegSpace * RegSpace
    BY <1>3, <2>2, <2>3, <2>4, Sizes DEF Fits
  <2> HIDE DEF address, low, high
  <2>6. RegSpace * high < RegSpace * RegSpace /\ RegSpace * high > -RegSpace
    BY <1>4, <1>5, <2>5, Sizes
  <2>7. high < RegSpace
    <3> SUFFICES ASSUME high >= RegSpace PROVE FALSE
      BY <1>5, Sizes
    <3>1. RegSpace * high >= RegSpace * RegSpace
      BY <1>5, Sizes, SMT
    <3> QED
      BY <1>5, <2>6, <3>1, Sizes
  <2>8. high > -1
    <3> SUFFICES ASSUME high <= -1 PROVE FALSE
      BY <1>5, Sizes
    <3>1. RegSpace * high <= -RegSpace
      BY <1>5, Sizes, SMT
    <3> QED
      BY <1>5, <2>6, <3>1, Sizes
  <2> QED
    BY <1>5, <2>7, <2>8, Sizes
<1> HIDE DEF address
<1>7. bar' \in Registers
  <2>1. DOMAIN bar' = BarIndices /\ bar' = [j \in BarIndices |-> bar'[j]]
    BY <1>1, <1>3 DEF WriteBar, Registers
  <2>2. \A j \in BarIndices : \/ bar'[j] = bar[j] \/ bar'[j] = Latched(j, low)
                              \/ w.scale = 1 /\ bar'[j] = Latched(j, high)
    BY <1>1, <1>3 DEF WriteBar, Registers, address
  <2> HIDE DEF low, high
  <2>3. ASSUME NEW j \in BarIndices PROVE bar'[j] \in 0 .. RegSpace - 1
    <3>1. bar[j] \in 0 .. RegSpace - 1
      BY <1>3 DEF Registers
    <3>2. Latched(j, low) \in 0 .. RegSpace - 1
      BY <1>3, <1>5, LatchedFits
    <3>3. w.scale = 1 => Latched(j, high) \in 0 .. RegSpace - 1
      BY <1>3, <1>6, LatchedFits
    <3> QED
      BY <2>2, <3>1, <3>2, <3>3
  <2> QED
    BY <2>1, <2>3 DEF Registers
<1> QED
  BY <1>4, <1>7 DEF Typed, TypeOK, Registers, Program, deviceVars

\* The other steps.
LEMMA TypedElsewhere ==
  ASSUME Typed, Found, Next,
         ~ (SearchAndSize /\ (Silence \/ Probe \/ RestoreBar \/ RestoreCommand \/ Program))
  PROVE  Typed'
<1>1. CASE SearchAndSize
  <2>1. /\ UNCHANGED << machine, command, bar, cfg_type, before, size, ret, common, deviceVars >>
        /\ search_pci_device \/ get_pci_capability \/ Map
    BY <1>1 DEF SearchAndSize, PciNext, search_pci_device, get_pci_capability, Map
  <2>2. bdf' \in Nat
    BY <2>1 DEF search_pci_device, get_pci_capability, Map, Found
  <2>3. cap' \in DOMAIN machine.caps
    <3>1. machine \in Machines /\ cap \in DOMAIN machine.caps
      BY DEF Typed, TypeOK
    <3>2. LET c == machine.caps[cap] IN c.next = 0 \/ c.next \in DOMAIN machine.caps
      BY <3>1, PciAssumption, Zenon
    <3> QED
      BY <2>1, <3>1, <3>2 DEF search_pci_device, get_pci_capability, Map
  <2> QED
    BY <2>1, <2>2, <2>3 DEF Typed, TypeOK, deviceVars
<1>2. CASE EnableDevice \/ FindNotify
  <2>1. machine.first \in DOMAIN machine.caps
    BY PciAssumption DEF Typed
  <2> QED
    BY <1>2, <2>1 DEF Typed, TypeOK, EnableDevice, FindNotify, GetCapability, deviceVars
<1>3. CASE AllocBar \/ UseBar
  BY <1>3 DEF Typed, TypeOK, AllocBar, UseBar, deviceVars
<1>4. CASE Notify
  <2>1. rung' \in BOOLEAN
    BY <1>4 DEF Notify
  <2> QED
    BY <1>4, <2>1 DEF Typed, TypeOK, Notify
<1>5. CASE ResetDevice \/ Acknowledge \/ FeaturesLow \/ FeaturesHigh \/ FeaturesOk
             \/ construct_virtqueue \/ DriverOk
  <2>1. UNCHANGED << machine, command, bar, bdf, cfg_type, cap, before, size, mapped, ret, common >>
    BY <1>5 DEF ResetDevice, Acknowledge, FeaturesLow, FeaturesHigh, FeaturesOk,
       construct_virtqueue, DriverOk, Step
  <2>2. /\ status' \subseteq {"acknowledge", "driver", "features_ok", "driver_ok"}
        /\ queue' \in {"unset", "placed", "enabled"} /\ rung' \in BOOLEAN
    BY <1>5 DEF ResetDevice, Acknowledge, FeaturesLow, FeaturesHigh, FeaturesOk,
       construct_virtqueue, DriverOk, Typed, TypeOK
  <2>3. page' \in 0 .. 1 /\ accepted' \in [0 .. 1 -> SUBSET {0}]
    <3> DEFINE All == [0 .. 1 -> SUBSET {0}]
    <3>1. page \in 0 .. 1 /\ accepted \in All
      BY DEF Typed, TypeOK
    <3>2. CASE ResetDevice
      BY <3>2 DEF ResetDevice
    <3>3. CASE FeaturesLow
      <4>1. page' = 0 /\ accepted' = [accepted EXCEPT ![0] = {}]
        BY <3>3, Zenon DEF FeaturesLow
      <4> QED
        BY <3>1, <4>1
    <3>4. CASE FeaturesHigh
      <4>1. page' = 0 \/ page' = 1
        BY <3>4, Zenon DEF FeaturesHigh
      <4>2. accepted' = [accepted EXCEPT ![page'] = {0}]
        BY <3>4 DEF FeaturesHigh, VERSION_1
      <4> QED
        BY <3>1, <4>1, <4>2
    <3>5. CASE Acknowledge \/ FeaturesOk \/ construct_virtqueue \/ DriverOk
      BY <3>1, <3>5 DEF Acknowledge, FeaturesOk, construct_virtqueue, DriverOk
    <3> QED
      BY <1>5, <3>2, <3>3, <3>4, <3>5
  <2> QED
    BY <2>1, <2>2, <2>3 DEF Typed, TypeOK
<1> QED
  BY <1>1, <1>2, <1>3, <1>4, <1>5 DEF Next

LEMMA TypedNext ==
  ASSUME Typed, Probing, Found, Placing, Next
  PROVE  Typed'
<1>1. CASE SearchAndSize /\ (Silence \/ Probe \/ RestoreBar \/ RestoreCommand)
  BY <1>1, TypedByProbing DEF SearchAndSize
<1>2. CASE SearchAndSize /\ Program
  BY <1>2, TypedByProgram DEF SearchAndSize
<1>3. CASE ~ (SearchAndSize /\ (Silence \/ Probe \/ RestoreBar \/ RestoreCommand \/ Program))
  BY <1>3, TypedElsewhere
<1> QED
  BY <1>1, <1>2, <1>3

-----------------------------------------------------------------------------
\* What a walk that has met every capability once has found is what FirstOf says.
LEMMA WalkedToFirst ==
  ASSUME machine \in Machines, Walked, Stops(cap)
  PROVE  FirstOf(machine, cfg_type) = machine.caps[cap]
<1> DEFINE D == DOMAIN machine.caps
           last == Cardinality(D)
           Next1(o) == machine.caps[o].next
           step == [o \in D |-> IF Stops(o) THEN o ELSE Next1(o)]
           walk[k \in 0 .. last] ==
             IF k = 0 THEN machine.first
             ELSE LET c == machine.caps[walk[k - 1]]
                  IN  IF c.cfg_type = cfg_type \/ c.next = 0 THEN walk[k - 1] ELSE c.next
<1>1. FirstOf(machine, cfg_type) = machine.caps[walk[last]]
  BY Zenon DEF FirstOf
<1>2. /\ IsFiniteSet(D) /\ machine.first \in D /\ last \in Nat
      /\ \A o \in D : ~ Stops(o) => Next1(o) \in D
  <2>1. IsFiniteSet(D) /\ machine.first \in D
    BY PciAssumption
  <2>2. \A o \in D : machine.caps[o].next = 0 \/ machine.caps[o].next \in D
    BY PciAssumption
  <2> QED
    BY <2>1, <2>2, FS_CardinalityType DEF Stops
<1>3. step \in [D -> D]
  BY <1>2
<1> PICK n \in Nat : \E path : IsWalk(n, path)
  BY DEF Walked
<1> PICK path : IsWalk(n, path)
  OBVIOUS
<1>4. /\ path \in [0 .. n -> D]
      /\ path[0] = machine.first /\ path[n] = cap
      /\ \A k \in 0 .. n - 1 : ~ Stops(path[k]) /\ path[k + 1] = Next1(path[k])
      /\ \A j, k \in 0 .. n : path[j] = path[k] => j = k
  BY DEF IsWalk
<1> HIDE DEF D, last, Next1, step, walk
<1>5. n < last
  <2>1. path \in Injection(0 .. n, D)
    BY <1>4 DEF Injection, IsInjective
  <2>2. Cardinality(0 .. n) = n + 1
    BY <1>4, FS_Interval
  <2>3. Cardinality(0 .. n) <= Cardinality(D)
    BY <1>2, <2>1, FS_Injection
  <2> QED
    BY <1>2, <1>4, <2>2, <2>3 DEF last
<1>6. PICK g \in [0 .. last -> D] : Iteration(g, machine.first, step, last)
  <2>1. machine.first \in D /\ last \in Nat
    BY <1>2
  <2> QED
    BY <1>3, <2>1, IterationUpTo
<1>7. ASSUME NEW k \in 1 .. last
      PROVE  g[k] = IF Stops(g[k - 1]) THEN g[k - 1] ELSE Next1(g[k - 1])
  <2>1. g[k - 1] \in D
    BY <1>2
  <2> QED
    BY <1>6, <2>1 DEF step, Iteration
<1>8. walk = [k \in 0 .. last |->
                IF k = 0 THEN machine.first
                ELSE LET c == machine.caps[walk[k - 1]]
                     IN  IF c.cfg_type = cfg_type \/ c.next = 0 THEN walk[k - 1] ELSE c.next]
  <2>1. g = [k \in 0 .. last |->
               IF k = 0 THEN machine.first
               ELSE LET c == machine.caps[g[k - 1]]
                    IN  IF c.cfg_type = cfg_type \/ c.next = 0 THEN g[k - 1] ELSE c.next]
    <3>1. \A k \in 0 .. last : g[k] = IF k = 0 THEN machine.first
               ELSE LET c == machine.caps[g[k - 1]]
                    IN  IF c.cfg_type = cfg_type \/ c.next = 0 THEN g[k - 1] ELSE c.next
      <4> SUFFICES ASSUME NEW k \in 0 .. last
                   PROVE  g[k] = IF k = 0 THEN machine.first
                                 ELSE LET c == machine.caps[g[k - 1]]
                                      IN  IF c.cfg_type = cfg_type \/ c.next = 0
                                            THEN g[k - 1] ELSE c.next
        OBVIOUS
      <4>1. CASE k = 0
        BY <1>6, <4>1 DEF Iteration
      <4>2. CASE k # 0
        <5>1. k \in 1 .. last
          BY <1>2, <4>2
        <5> QED
          BY <1>7, <4>2, <5>1 DEF Stops, Next1
      <4> QED
        BY <4>1, <4>2
    <3> QED
      BY <3>1
  <2> QED
    BY <2>1 DEF walk
<1>9. walk[0] = machine.first
  BY <1>2, <1>8
<1>10. ASSUME NEW k \in 1 .. last
       PROVE  walk[k] = IF Stops(walk[k - 1]) THEN walk[k - 1] ELSE Next1(walk[k - 1])
  <2>1. k \in 0 .. last /\ k # 0
    BY <1>2
  <2> QED
    BY <1>8, <2>1 DEF Stops, Next1
<1> DEFINE Same == {k \in Nat : walk[k] = IF k <= n THEN path[k] ELSE cap}
<1>11. 0 \in Same
  BY <1>4, <1>9
<1>12. ASSUME NEW k \in 1 .. last, k - 1 \in Same PROVE k \in Same
  <2>1. walk[k] = IF Stops(walk[k - 1]) THEN walk[k - 1] ELSE Next1(walk[k - 1])
    BY <1>10
  <2>2. CASE k <= n
    <3>1. k - 1 \in 0 .. n - 1 /\ (k - 1) + 1 = k
      BY <1>4, <2>2
    <3>2. walk[k - 1] = path[k - 1]
      BY <1>12, <3>1
    <3>3. ~ Stops(path[k - 1]) /\ path[(k - 1) + 1] = Next1(path[k - 1])
      BY <1>4, <3>1, Zenon
    <3> QED
      BY <2>1, <2>2, <3>1, <3>2, <3>3
  <2>3. CASE ~ (k <= n)
    <3>1. walk[k - 1] = cap
      BY <1>4, <1>12, <2>3
    <3> QED
      BY <2>1, <2>3, <3>1
  <2> QED
    BY <2>2, <2>3
<1>13. last \in Same
  <2> HIDE DEF Same
  <2>1. 0 .. last \subseteq Same
    BY <1>2, <1>11, <1>12, InductionUpTo
  <2> QED
    BY <1>2, <2>1
<1>14. walk[last] = cap
  BY <1>5, <1>13
<1> QED
  BY <1>1, <1>14

\* A walk that stops does not go round.
LEMMA StopsAtFirst ==
  ASSUME machine \in Machines, Walked \/ Circling, Stops(cap)
  PROVE  FirstOf(machine, cfg_type) = machine.caps[cap]
  BY WalkedToFirst DEF Circling

\* One round of get_pci_capability's loop makes the path longer or closes it.
LEMMA WalkedOn ==
  ASSUME machine \in Machines, Walked \/ Circling, ~ Stops(cap), machine' = machine,
         cfg_type' = cfg_type, cap' = machine.caps[cap].next
  PROVE  Walked' \/ Circling'
<1> DEFINE D == DOMAIN machine.caps
           Next1(o) == machine.caps[o].next
<1>1. \A o : Stops(o)' <=> Stops(o)
  BY DEF Stops
<1>2. CASE Circling
  <2>1. PICK loop \in SUBSET D : cap \in loop /\ \A o \in loop : ~ Stops(o) /\ Next1(o) \in loop
    BY <1>2 DEF Circling
  <2>2. cap' \in loop
    BY <2>1
  <2> QED
    BY <1>1, <2>1, <2>2 DEF Circling
<1>3. CASE Walked
  <2> PICK n \in Nat : \E path : IsWalk(n, path)
    BY <1>3 DEF Walked
  <2> PICK path : IsWalk(n, path)
    OBVIOUS
  <2>1. /\ path \in [0 .. n -> D]
        /\ path[0] = machine.first /\ path[n] = cap
        /\ \A k \in 0 .. n - 1 : ~ Stops(path[k]) /\ path[k + 1] = Next1(path[k])
        /\ \A j, k \in 0 .. n : path[j] = path[k] => j = k
    BY DEF IsWalk
  <2> HIDE DEF D, Next1
  <2>2. Next1(cap) \in D
    <3>1. cap \in D
      BY <2>1
    <3>2. \A o \in D : Next1(o) = 0 \/ Next1(o) \in D
      BY PciAssumption DEF D, Next1
    <3> QED
      BY <3>1, <3>2 DEF Stops, Next1
  <2>3. CASE \E k \in 0 .. n : path[k] = Next1(cap)
    <3> DEFINE loop == {path[k] : k \in 0 .. n}
    <3>1. loop \in SUBSET D
      BY <2>1
    <3>2. Next1(cap) \in loop
      BY <2>3
    <3>3. ASSUME NEW k \in 0 .. n PROVE ~ Stops(path[k]) /\ Next1(path[k]) \in loop
      <4>1. CASE k = n
        BY <2>1, <3>2, <4>1
      <4>2. CASE k # n
        <5>1. k \in 0 .. n - 1 /\ k + 1 \in 0 .. n
          BY <2>1, <4>2
        <5> QED
          BY <2>1, <5>1
      <4> QED
        BY <4>1, <4>2
    <3>4. \A o \in loop : ~ Stops(o) /\ Next1(o) \in loop
      BY <3>3
    <3> HIDE DEF loop
    <3> QED
      BY <1>1, <3>1, <3>2, <3>4 DEF Circling, D, Next1
  <2>4. CASE \A k \in 0 .. n : path[k] # Next1(cap)
    <3> DEFINE longer == [k \in 0 .. n + 1 |-> IF k = n + 1 THEN Next1(cap) ELSE path[k]]
    <3>1. n + 1 \in Nat /\ longer \in [0 .. n + 1 -> D]
      BY <2>1, <2>2
    <3>2. longer[n + 1] = Next1(cap) /\ \A k \in 0 .. n : longer[k] = path[k]
      BY <2>1
    <3> HIDE DEF longer
    <3>3. ASSUME NEW k \in 0 .. n
          PROVE  ~ Stops(longer[k]) /\ longer[k + 1] = Next1(longer[k])
      <4>1. CASE k = n
        BY <2>1, <3>2, <4>1
      <4>2. CASE k # n
        <5>1. k \in 0 .. n - 1 /\ k + 1 \in 0 .. n
          BY <2>1, <4>2
        <5> QED
          BY <2>1, <3>2, <5>1
      <4> QED
        BY <4>1, <4>2
    <3>4. ASSUME NEW j \in 0 .. n + 1, NEW k \in 0 .. n + 1, longer[j] = longer[k]
          PROVE  j = k
      <4>1. \A l \in 0 .. n + 1 : l = n + 1 \/ l \in 0 .. n
        BY <2>1
      <4>2. CASE j = n + 1 /\ k = n + 1
        BY <4>2
      <4>3. CASE j = n + 1 /\ k \in 0 .. n
        BY <2>4, <3>2, <3>4, <4>3
      <4>4. CASE j \in 0 .. n /\ k = n + 1
        BY <2>4, <3>2, <3>4, <4>4
      <4>5. CASE j \in 0 .. n /\ k \in 0 .. n
        <5>1. path[j] = path[k]
          BY <3>2, <3>4, <4>5
        <5> QED
          BY <2>1, <4>5, <5>1, Zenon
      <4> QED
        BY <4>1, <4>2, <4>3, <4>4, <4>5
    <3>5. longer[0] = machine.first
      BY <2>1, <3>2
    <3>6. (n + 1) - 1 = n
      BY <2>1
    <3>7. \E m \in Nat : \E q :
            /\ q \in [0 .. m -> D] /\ q[0] = machine.first /\ q[m] = Next1(cap)
            /\ \A k \in 0 .. m - 1 : ~ Stops(q[k]) /\ q[k + 1] = Next1(q[k])
            /\ \A j, k \in 0 .. m : q[j] = q[k] => j = k
      <4> WITNESS n + 1 \in Nat
      <4> WITNESS longer
      <4> QED
        BY <3>1, <3>2, <3>3, <3>4, <3>5, <3>6
    <3> PICK m \in Nat : \E q :
            /\ q \in [0 .. m -> D] /\ q[0] = machine.first /\ q[m] = Next1(cap)
            /\ \A k \in 0 .. m - 1 : ~ Stops(q[k]) /\ q[k + 1] = Next1(q[k])
            /\ \A j, k \in 0 .. m : q[j] = q[k] => j = k
      BY <3>7
    <3>8. PICK q :
            /\ q \in [0 .. m -> D] /\ q[0] = machine.first /\ q[m] = Next1(cap)
            /\ \A k \in 0 .. m - 1 : ~ Stops(q[k]) /\ q[k + 1] = Next1(q[k])
            /\ \A j, k \in 0 .. m : q[j] = q[k] => j = k
      OBVIOUS
    <3>9. IsWalk(m, q)'
      BY <1>1, <3>8 DEF IsWalk, D, Next1
    <3> QED
      BY <3>9 DEF Walked
  <2> QED
    BY <2>3, <2>4
<1> QED
  BY <1>2, <1>3

-----------------------------------------------------------------------------
\* How long the device is known, and the walk correct.
LEMMA FoundNext ==
  ASSUME Found, Typed, Next
  PROVE  Found'
<1>1. machine' = machine
  BY DEF Next, SearchAndSize, PciNext, search_pci_device, get_pci_capability, Silence, Probe,
     RestoreBar, RestoreCommand, Map, Program, EnableDevice, AllocBar, UseBar, ResetDevice,
     Acknowledge, FeaturesLow, FeaturesHigh, FeaturesOk, construct_virtqueue, DriverOk, FindNotify,
     Notify, Step
<1>2. CASE search_pci_device
  <2>1. bdf' \in Nat \ {0}
    BY <1>2 DEF search_pci_device, Found
  <2>2. ASSUME pc' \notin {"search", "undefined"}
        PROVE  bdf \in DOMAIN machine.functions /\ machine.functions[bdf] = "gpu"
    <3>1. bdf <= Len(machine.functions) /\ machine.functions[bdf] = "gpu"
      BY <1>2, <2>2, Zenon DEF search_pci_device
    <3>2. machine.functions \in Seq({"gpu", "other"})
      BY PciAssumption DEF Typed
    <3> QED
      BY <3>1, <3>2 DEF Found
  <2> QED
    BY <1>1, <2>1, <2>2 DEF Found
<1>3. CASE Next /\ ~ search_pci_device
  <2>1. bdf' = bdf /\ pc \notin {"search", "undefined"}
    BY <1>3 DEF Next, SearchAndSize, PciNext, get_pci_capability, Silence, Probe,
       RestoreBar, RestoreCommand, Map, Program, EnableDevice, AllocBar, UseBar, ResetDevice,
       Acknowledge, FeaturesLow, FeaturesHigh, FeaturesOk, construct_virtqueue, DriverOk,
       FindNotify, Notify, Step
  <2> QED
    BY <1>1, <2>1 DEF Found
<1> QED
  BY <1>2, <1>3

\* The walk has just begun.
LEMMA WalkBegins ==
  /\ machine \in Machines /\ cap = machine.first => Walked
  /\ machine \in Machines /\ machine' = machine /\ cap' = machine.first => Walked'
<1> SUFFICES ASSUME machine \in Machines
             PROVE  /\ cap = machine.first => Walked
                    /\ machine' = machine /\ cap' = machine.first => Walked'
  OBVIOUS
<1>1. machine.first \in DOMAIN machine.caps
  BY PciAssumption
<1>2. PICK path : path \in [0 .. 0 -> DOMAIN machine.caps] /\ path[0] = machine.first
  <2> DEFINE start == [k \in 0 .. 0 |-> machine.first]
  <2>1. start \in [0 .. 0 -> DOMAIN machine.caps] /\ start[0] = machine.first
    BY <1>1
  <2> HIDE DEF start
  <2> QED
    BY <2>1
<1>3. cap = machine.first => IsWalk(0, path)
  BY <1>2 DEF IsWalk
<1>4. machine' = machine /\ cap' = machine.first => IsWalk(0, path)'
  BY <1>2 DEF IsWalk
<1> QED
  BY <1>3, <1>4 DEF Walked

LEMMA WalkingNext ==
  ASSUME Walking, Typed, Next
  PROVE  Walking'
<1>1. machine' = machine /\ machine \in Machines
  BY DEF Next, SearchAndSize, PciNext, search_pci_device, get_pci_capability, Silence, Probe,
     RestoreBar, RestoreCommand, Map, Program, EnableDevice, AllocBar, UseBar, ResetDevice,
     Acknowledge, FeaturesLow, FeaturesHigh, FeaturesOk, construct_virtqueue, DriverOk, FindNotify,
     Notify, Step, Typed
<1>2. CASE get_pci_capability
  <2>1. cfg_type' = cfg_type /\ pc' \in {"walk", "capability"}
    BY <1>2 DEF get_pci_capability
  <2>2. CASE Stops(cap)
    <3>1. cap' = cap
      BY <1>2, <2>2 DEF get_pci_capability, Stops
    <3> QED
      BY <1>1, <2>1, <2>2, <3>1 DEF Walking, Walked, IsWalk, Circling, Stops
  <2>3. CASE ~ Stops(cap)
    <3>1. cap' = machine.caps[cap].next /\ pc' = "walk"
      BY <1>2, <2>3 DEF get_pci_capability, Stops
    <3>2. Walked' \/ Circling'
      BY <1>1, <2>1, <2>3, <3>1, WalkedOn DEF Walking
    <3> QED
      BY <3>1, <3>2 DEF Walking, BeforeMap
  <2> QED
    BY <2>2, <2>3
<1>3. CASE EnableDevice \/ FindNotify
  <2>1. cap' = machine.first /\ pc' = "walk"
    BY <1>1, <1>3 DEF EnableDevice, FindNotify, GetCapability
  <2>2. Walked'
    BY <1>1, <2>1, WalkBegins
  <2> QED
    BY <2>1, <2>2 DEF Walking, BeforeMap
<1>4. CASE Next /\ ~ get_pci_capability /\ ~ EnableDevice /\ ~ FindNotify
  <2>1. /\ cap' = cap /\ cfg_type' = cfg_type
        /\ pc' \in {"capability", "mapped", "allocated"} \cup BeforeMap =>
             pc \in {"capability", "mapped", "allocated"} \cup BeforeMap
    BY <1>4, Zenon DEF Next, SearchAndSize, PciNext, search_pci_device, Silence, Probe,
       RestoreBar, RestoreCommand, Map, Program, AllocBar, UseBar, ResetDevice,
       Acknowledge, FeaturesLow, FeaturesHigh, FeaturesOk, construct_virtqueue, DriverOk, Notify,
       Step, BeforeMap
  <2> QED
    BY <1>1, <2>1 DEF Walking, Walked, IsWalk, Circling, Stops
<1> QED
  BY <1>2, <1>3, <1>4

-----------------------------------------------------------------------------
\* A step outside BAR_size and alloc_bar_memory.
LEMMA PlacingElsewhere ==
  ASSUME Placing, UNCHANGED << machine, bar, before, mapped >>,
         pc' \notin {"probed", "mapped", "allocated"},
         pc' \in {"search", "device", "walk", "capability"} \cup BeforeMap /\ cfg_type' = 1 =>
           pc \in ({"search", "device", "walk", "capability"} \cup BeforeMap) \ {"probed"}
             /\ cfg_type = 1
  PROVE  Placing'
<1>1. Unassigned(bar)' <=> Unassigned(bar)
  BY DEF Unassigned, Latched, Upper, Wide, Bar
<1> QED
  BY <1>1 DEF Placing

\* The steps of BAR_size.
LEMMA PlacingBySizing ==
  ASSUME Placing, Probing, Agreed, Silence \/ Probe \/ RestoreBar \/ RestoreCommand
  PROVE  Placing'
<1>1. machine' = machine /\ mapped' = mapped /\ cfg_type' = cfg_type
  BY DEF Silence, Probe, RestoreBar, RestoreCommand
<1>2. \A b : Unassigned(b)' <=> Unassigned(b')
  BY <1>1 DEF Unassigned, Latched, Upper, Wide, Bar
<1>3. pc \in BeforeMap /\ cfg_type = 1 /\ mapped = {}
  BY DEF Silence, Probe, RestoreBar, RestoreCommand, Agreed, Placing, BeforeMap
<1>4. CASE Silence \/ RestoreCommand
  <2>1. bar' = bar /\ pc # "probed" /\ pc' \in {"silent", "sized"}
    BY <1>4 DEF Silence, RestoreCommand
  <2>2. Unassigned(bar)
    BY <1>3, <2>1 DEF Placing
  <2>3. Unassigned(bar)'
    BY <1>1, <2>1, <2>2 DEF Unassigned, Latched, Upper, Wide, Bar
  <2> QED
    BY <1>1, <1>3, <2>1, <2>3 DEF Placing
<1>5. CASE Probe
  <2>1. before' = before /\ pc = "silent" /\ pc' = "probed" /\ bar = before.bar
    BY <1>5 DEF Probe, Probing
  <2>2. Unassigned(before.bar)
    BY <1>3, <2>1 DEF Placing
  <2>3. Unassigned(before.bar)'
    BY <1>1, <2>1, <2>2 DEF Unassigned, Latched, Upper, Wide, Bar
  <2> QED
    BY <1>1, <1>3, <2>1, <2>3 DEF Placing
<1>6. CASE RestoreBar
  <2>1. pc = "probed" /\ pc' = "restored" /\ bar' = [i \in BarIndices |-> Latched(i, before.bar[i])]
    BY <1>6 DEF RestoreBar
  <2>2. Unassigned(before.bar) /\ Settled(before.bar)
    BY <1>3, <2>1 DEF Placing, Probing
  <2>3. \A i \in BarIndices : bar'[i] = Latched(i, 0)
    BY <2>1, <2>2 DEF Unassigned, Settled
  <2>4. Unassigned(bar)'
    BY <1>1, <2>3 DEF Unassigned, Latched, Upper, Wide, Bar
  <2> QED
    BY <1>1, <1>3, <2>1, <2>4 DEF Placing
<1> QED
  BY <1>4, <1>5, <1>6

LEMMA PlacingByMap ==
  ASSUME Placing, Probing, Agreed, Map
  PROVE  Placing'
<1>1. UNCHANGED << machine, bar, cap, size, cfg_type >> /\ pc = "sized"
  BY DEF Map
<1>2. cfg_type = 1 /\ mapped = {} /\ Unassigned(bar)
  BY <1>1 DEF Agreed, Placing, BeforeMap
<1>3. CASE pc' = "mapped"
  <2>1. (\E w \in Windows : Fits(w)) /\ (size % RegSpace) % PageSize = 0
          /\ mapped' = mapped \cup {<< w.base + size, size % RegSpace >> : w \in Windows}
    BY <1>3, Zenon DEF Map
  <2>2. PICK w \in Windows : Fits(w)
    BY <2>1
  <2>3. Windows = {w}
    BY <2>2, OneWindow
  <2>4. mapped' = {<< w.base + size, size % RegSpace >>}
    BY <1>2, <2>1, <2>3
  <2>5. Unassigned(bar)' /\ Windows' = Windows /\ Fits(w)'
    <3>1. Unassigned(bar)'
      BY <1>1, <1>2 DEF Unassigned, Latched, Upper, Wide, Bar
    <3>2. Windows' = Windows
      BY <1>1, Zenon DEF Windows, Flags, bar_index
    <3>3. Fits(w)'
      BY <1>1, <2>2 DEF Fits
    <3> QED
      BY <3>1, <3>2, <3>3
  <2>6. (Bar(bar_index).size # 0 /\ Flags(bar_index) % 8 \in {0, 4} => size = Bar(bar_index).size)'
    BY <1>1 DEF Probing, Bar, Flags, bar_index
  <2>7. (\E v \in Windows : Fits(v) /\ mapped = {<< v.base + size, size % RegSpace >>})'
    <3>1. Fits(w)' /\ w \in Windows' /\ mapped' = {<< w.base + size', size' % RegSpace >>}
      BY <1>1, <2>2, <2>4, <2>5
    <3> QED
      BY <3>1 DEF Fits
  <2>8. (size' % RegSpace) % PageSize = 0
    BY <1>1, <2>1
  <2> QED
    BY <1>3, <2>5, <2>6, <2>7, <2>8 DEF Placing, BeforeMap
<1>4. CASE pc' # "mapped"
  <2>1. pc' \in {"undefined", "endless"}
    BY <1>4, Zenon DEF Map
  <2> QED
    BY <2>1 DEF Placing, BeforeMap
<1> QED
  BY <1>3, <1>4

\* Programming the BAR: what an I/O or 32-bit window would return is not mapped.
LEMMA PlacingByProgram ==
  ASSUME Placing, Probing, Typed, Program
  PROVE  Placing'
<1> DEFINE i == bar_index
           len == size % RegSpace
<1>1. UNCHANGED << machine, cap, size, mapped >> /\ pc = "mapped" /\ pc' = "allocated"
  BY DEF Program
<1>2. PICK w \in Windows : bar' = WriteBar(w) /\ ret' = w.base + w.scale * size
  BY DEF Program
<1>3. /\ Unassigned(bar) /\ len % PageSize = 0
      /\ Bar(i).size # 0 /\ Flags(i) % 8 \in {0, 4} => size = Bar(i).size
      /\ \E v \in Windows : Fits(v) /\ mapped = {<< v.base + size, len >>}
  BY <1>1 DEF Placing
<1>4. Fits(w) /\ mapped = {<< w.base + size, len >>}
  BY <1>2, <1>3, OneWindow
<1>5. i \in BarIndices /\ ~ Upper(i)
  BY BarIndex DEF Probing
<1>6. size \in Nat /\ len \in 0 .. size
  <2>1. size \in Nat
    BY Sizes DEF Typed, TypeOK
  <2>2. size - len \in 0 .. size
    BY <2>1, Sizes, RoundedDown, Zenon
  <2>3. len \in 0 .. RegSpace - 1
    <3>1. size \in Int
      BY <2>1
    <3> QED
      BY <3>1, Sizes, Divided, Zenon
  <2> HIDE DEF len
  <2> QED
    BY <2>1, <2>2, <2>3, Sizes
<1>7. /\ w.base \in Nat /\ w.scale \in {1, 8}
      /\ w.scale = 1 => /\ w = [base |-> PrefBase, length |-> PrefSize, bus |-> PrefBase, scale |-> 1]
                        /\ Flags(i) \div 8 = 1 /\ (Flags(i) \div 2) % 4 = 2 /\ Flags(i) % 2 = 0
  BY WindowKinds
<1>8. ASSUME Mapped(ret)'
      PROVE  w.scale = 1 /\ len > 0
  <2>1. w.base + size <= ret' /\ ret' < (w.base + size) + len
    BY <1>1, <1>4, <1>8 DEF Mapped
  <2> HIDE DEF len
  <2>2. w.scale # 8
    <3> SUFFICES ASSUME w.scale = 8 PROVE FALSE
      OBVIOUS
    <3>1. ret' = w.base + 8 * size
      BY <1>2
    <3> QED
      BY <1>6, <1>7, <2>1, <3>1
  <2>3. w.scale = 1 /\ ret' = w.base + size
    BY <1>2, <1>6, <1>7, <2>2
  <2> QED
    BY <1>6, <1>7, <2>1, <2>3
<1>9. ASSUME w.scale = 1, len > 0
      PROVE  Placed(bar_index)'
  <2>1. w.base = PrefBase /\ w.length = PrefSize /\ w.bus = PrefBase
    BY <1>7, <1>9
  <2>2. ret' = PrefBase + size /\ 2 * size < PrefSize
    <3>1. ret' = PrefBase + size
      BY <1>2, <1>6, <1>9, <2>1
    <3>2. PrefBase + size + size < PrefBase + PrefSize
      BY <1>4, <2>1 DEF Fits
    <3>3. PrefBase \in Nat /\ PrefSize \in Nat
      BY PciAssumption
    <3> QED
      BY <1>6, <3>1, <3>2, <3>3
  <2> DEFINE low == (PrefBase + size) % RegSpace
             high == (PrefBase + size) \div RegSpace
  <2>3. bar' = [bar EXCEPT ![i] = Latched(i, low), ![i + 1] = Latched(i + 1, high)]
    BY <1>2, <1>9, <2>1 DEF WriteBar
  <2>4. DOMAIN bar = BarIndices
    BY DEF Probing, Settled
  <2>5. \A j \in BarIndices \ {i, i + 1} : bar'[j] = Latched(j, 0)
    BY <1>3, <2>3, <2>4 DEF Unassigned
  <2>6. ASSUME Bar(i).size # 0
        PROVE  /\ Bar(i).flags = 12 /\ size = Bar(i).size
               /\ bar'[i] = Latched(i, low) /\ bar'[i + 1] = Latched(i + 1, high)
    <3>1. Flags(i) = Bar(i).flags
      <4>1. bar[i] = Latched(i, 0) /\ 0 \in Int
        BY <1>3, <1>5 DEF Unassigned
      <4> QED
        BY <1>5, <2>6, <4>1, FlagsRead DEF Flags, Probing
    <3>2. Bar(i).flags \in {0, 1, 4, 8, 12} /\ (Wide(i) <=> Bar(i).flags \in {4, 12}) /\ (Wide(i) => i # 5)
      BY <1>5, BarKind DEF Probing
    <3>3. Bar(i).flags = 12 /\ Flags(i) % 8 = 4
      BY <1>7, <1>9, <3>1, <3>2
    <3>4. i + 1 \in BarIndices /\ i \in Int
      BY <1>5, <3>2, <3>3 DEF BarIndices
    <3> HIDE DEF low, high, i
    <3>5. bar'[i] = Latched(i, low) /\ bar'[i + 1] = Latched(i + 1, high)
      BY <1>5, <2>3, <2>4, <3>4
    <3> QED
      BY <1>3, <2>6, <3>3, <3>5
  <2>7. /\ bar_index' = i /\ \A j : Bar(j)' = Bar(j)
        /\ \A j : Latched(j, 0)' = Latched(j, 0) /\ Latched(j, low)' = Latched(j, low)
                  /\ Latched(j, high)' = Latched(j, high)
    BY <1>1 DEF bar_index, Bar, Latched, Upper, Wide
  <2>8. mapped' = {<< ret', len >>}
    BY <1>1, <1>4, <2>1, <2>2
  <2> QED
    BY <1>1, <1>3, <1>6, <1>9, <2>2, <2>5, <2>6, <2>7, <2>8 DEF Placed
<1> QED
  BY <1>1, <1>8, <1>9 DEF Placing, BeforeMap

-----------------------------------------------------------------------------
\* The BAR that is placed has the address that is returned, the others have none.
LEMMA PlacedAddress ==
  ASSUME machine \in Machines, NEW i \in BarIndices, ~ Upper(i), Placed(i), Bar(i).size # 0,
         size \in Nat
  PROVE  /\ size \in 1 .. RegSpace - 1 /\ size % RegSpace = size
         /\ Bar(i).flags = 12 /\ Bar(i).size = size
         /\ Address(i) = PrefBase + size
         /\ \A j \in BarIndices \ {i} : ~ Upper(j) /\ Bar(j).size # 0 => Address(j) = 0
<1>1. /\ Bar(i).flags = 12 /\ size = Bar(i).size /\ size % RegSpace # 0
      /\ bar[i] = Latched(i, (PrefBase + size) % RegSpace)
      /\ bar[i + 1] = Latched(i + 1, (PrefBase + size) \div RegSpace)
      /\ \A j \in BarIndices \ {i, i + 1} : bar[j] = Latched(j, 0)
  BY DEF Placed
<1>2. Wide(i) /\ i + 1 \in BarIndices /\ i \in Int
  BY <1>1, BarKind DEF BarIndices
<1>3. Upper(i + 1) /\ (i + 1) - 1 = i
  BY <1>1, <1>2 DEF Upper, BarIndices
<1>4. size \in 1 .. RegSpace - 1
  <2>1. size > RegSpace => size % RegSpace = 0
    BY <1>1, BarKind
  <2>2. size # RegSpace
    <3>1. (RegSpace * 1 + 0) % RegSpace = 0
      BY Sizes, Unique
    <3>2. RegSpace * 1 + 0 = RegSpace
      BY Sizes
    <3> QED
      BY <1>1, <3>1, <3>2
  <2>3. size # 0
    BY <1>1
  <2> QED
    BY <1>1, <2>1, <2>2, <2>3, Sizes
<1>5. size % RegSpace = size
  <2>1. (RegSpace * 0 + size) % RegSpace = size
    BY <1>4, Sizes, Unique
  <2>2. RegSpace * 0 + size = size
    BY <1>4, Sizes
  <2> QED
    BY <2>1, <2>2
<1> DEFINE q == PrefBase \div RegSpace
           sum == PrefBase + size
<1>6. PrefBase \in Nat \ {0} /\ q \in Int /\ PrefBase = RegSpace * q
  <2>1. PrefBase \in Nat \ {0} /\ PrefBase % RegSpace = 0
    BY PciAssumption
  <2>2. q \in Int /\ PrefBase = RegSpace * q + (PrefBase % RegSpace)
    BY <2>1, Divided, Sizes
  <2> HIDE DEF q
  <2>3. RegSpace * q \in Int
    BY <2>2, Sizes
  <2> QED
    BY <2>1, <2>2, <2>3
<1> HIDE DEF q
<1>7. sum % RegSpace = size /\ sum \div RegSpace = q
  <2>1. sum = RegSpace * q + size
    BY <1>6
  <2>2. sum % RegSpace = size
    BY <1>4, <1>6, <2>1, Sizes, Unique
  <2>3. sum \in Int
    BY <1>4, <1>6
  <2> DEFINE d == sum \div RegSpace
  <2>4. d \in Int /\ sum = RegSpace * d + (sum % RegSpace)
    BY <2>3, Divided, Sizes
  <2> HIDE DEF sum, d
  <2>5. RegSpace * d = RegSpace * q
    <3>1. RegSpace * d \in Int /\ RegSpace * q \in Int
      BY <1>6, <2>4, Sizes
    <3> QED
      BY <1>4, <2>1, <2>2, <2>4, <3>1
  <2>6. d = q
    <3>1. RegSpace * (d - q) = 0
      BY <1>6, <2>4, <2>5, Sizes, SMT
    <3> QED
      BY <1>6, <2>4, <3>1, Sizes, SMT
  <2> QED
    BY <2>2, <2>6 DEF d
<1>8. Address(i) = PrefBase + size
  <2>1. bar[i] = 12 + (size - (size % size))
    BY <1>1, <1>4, <1>7, Sizes DEF Latched
  <2>2. size % size = 0
    <3>1. (size * 1 + 0) % size = 0
      BY <1>4, Unique
    <3>2. size * 1 + 0 = size
      BY <1>4
    <3> QED
      BY <3>1, <3>2
  <2>3. bar[i + 1] = q
    BY <1>1, <1>3, <1>4, <1>7, Sizes DEF Latched
  <2>4. Address(i) = ((12 + (size - 0)) - 12) + q * RegSpace
    BY <1>1, <1>2, <2>1, <2>2, <2>3 DEF Address
  <2>5. q * RegSpace = PrefBase
    BY <1>6, Sizes
  <2> QED
    BY <1>4, <1>6, <2>4, <2>5
<1>9. ASSUME NEW j \in BarIndices \ {i}, ~ Upper(j), Bar(j).size # 0
      PROVE  Address(j) = 0
  <2>1. j # i + 1
    BY <1>3, <1>9
  <2>2. /\ Bar(j).flags \in Nat /\ Bar(j).size \in Nat \ {0}
        /\ Wide(j) => j # 5
    BY <1>9, BarKind
  <2>3. \A s \in Nat \ {0} : 0 % s = 0
    <3> TAKE s \in Nat \ {0}
    <3>1. (s * 0 + 0) % s = 0
      BY Unique
    <3>2. s * 0 + 0 = 0
      OBVIOUS
    <3> QED
      BY <3>1, <3>2
  <2>4. bar[j] = Bar(j).flags + 0
    <3>1. bar[j] = Latched(j, 0)
      BY <1>1, <2>1
    <3>2. 0 - (0 % Bar(j).size) = 0
      BY <2>2, <2>3
    <3> QED
      BY <1>9, <3>1, <3>2 DEF Latched
  <2>5. ASSUME Wide(j) PROVE bar[j + 1] = 0
    <3>1. j + 1 \in BarIndices /\ (j + 1) - 1 = j /\ j + 1 > 0
      BY <2>2, <2>5 DEF BarIndices
    <3>2. Upper(j + 1)
      BY <1>9, <2>5, <3>1 DEF Upper
    <3>3. j + 1 \notin {i, i + 1}
      BY <1>2, <1>9, <3>1, <3>2
    <3>4. bar[j + 1] = Latched(j + 1, 0)
      BY <1>1, <3>1, <3>3
    <3>5. CASE Bar(j).size <= RegSpace
      BY <3>1, <3>2, <3>4, <3>5 DEF Latched
    <3>6. CASE ~ (Bar(j).size <= RegSpace)
      <4>1. Bar(j).size \div RegSpace \in Nat \ {0}
        BY <2>2, <3>6, UpperSize, Sizes
      <4>2. bar[j + 1] = 0 - (0 % (Bar(j).size \div RegSpace))
        BY <3>1, <3>2, <3>4, <3>6 DEF Latched
      <4> QED
        BY <2>3, <4>1, <4>2
    <3> QED
      BY <3>5, <3>6
  <2>6. 0 * RegSpace = 0
    BY Sizes
  <2> QED
    BY <2>2, <2>4, <2>5, <2>6 DEF Address
<1> QED
  BY <1>1, <1>4, <1>5, <1>8, <1>9

\* The step into the handshake.
LEMMA DrivenByUseBar ==
  ASSUME Setup, UseBar, pc' = "reset"
  PROVE  Driven'
<1> DEFINE c == machine.caps[cap]
           i == bar_index
<1>1. /\ pc = "allocated" /\ common' = ret
      /\ c.cfg_type = 1 /\ Meets(c, ret)
      /\ UNCHANGED << machine, bar, size, mapped, ret >>
  BY DEF UseBar
<1>2. cfg_type = 1 /\ machine \in Machines /\ cap \in DOMAIN machine.caps
  BY <1>1 DEF Setup, Agreed, Typed, TypeOK
<1>3. FirstOf(machine, 1) = c
  BY <1>1, <1>2, StopsAtFirst DEF Setup, Walking
<1>4. i \in BarIndices /\ ~ Upper(i) /\ i = c.bar /\ c.offset \in Nat
  <2>1. c.offset \in Nat
    BY <1>2, PciAssumption
  <2> QED
    BY <1>2, <2>1, BarIndex DEF bar_index
<1>5. /\ c.vendor = "virtio" /\ Bar(i).size # 0 /\ Mapped(ret)
      /\ Address(i) + c.offset = ret
  BY <1>1, <1>4 DEF Meets
<1>6. Placed(i)
  BY <1>1, <1>5 DEF Setup, Placing
<1>7. size \in Nat
  BY Sizes DEF Setup, Typed, TypeOK
<1>8. /\ size \in 1 .. RegSpace - 1 /\ size % RegSpace = size
      /\ Bar(i).flags = 12 /\ Bar(i).size = size
      /\ Address(i) = PrefBase + size
      /\ \A j \in BarIndices \ {i} : ~ Upper(j) /\ Bar(j).size # 0 => Address(j) = 0
  BY <1>2, <1>4, <1>5, <1>6, <1>7, PlacedAddress
<1>9. /\ 2 * size < PrefSize /\ size % PageSize = 0
      /\ mapped = {<< ret, size >>} /\ ret = PrefBase + size
  BY <1>6, <1>8 DEF Placed
<1>10. c.offset = 0
  <2>1. PrefBase \in Nat
    BY PciAssumption
  <2> QED
    BY <1>4, <1>5, <1>7, <1>8, <1>9, <2>1
<1>11. FirstOf(machine, 1)' = c /\ \A j : Bar(j)' = Bar(j) /\ Upper(j)' = Upper(j) /\ Address(j)' = Address(j)
  BY <1>1, <1>3 DEF Bar, Upper, Wide, Address
<1> HIDE DEF c, i
<1> QED
  BY <1>1, <1>4, <1>5, <1>8, <1>9, <1>10, <1>11 DEF Driven

LEMMA DrivenKept ==
  ASSUME Driven, UNCHANGED << machine, bar, size, mapped, common >>
  PROVE  Driven'
<1>1. FirstOf(machine, 1)' = FirstOf(machine, 1)
        /\ \A j : Bar(j)' = Bar(j) /\ Upper(j)' = Upper(j) /\ Address(j)' = Address(j)
  BY DEF Bar, Upper, Wide, Address
<1> QED
  BY <1>1 DEF Driven

\* The first notification that arrives.
LEMMA NotifiedMachine ==
  ASSUME Setup, Notify, rung'
  PROVE  Suitable(machine)
<1> DEFINE n == machine.caps[cap]
           c == FirstOf(machine, 1)
           d == n.offset + n.off
<1>1. /\ pc = "capability" /\ cfg_type = 2
      /\ n.cfg_type = 2 /\ Meets([n EXCEPT !.offset = @ + n.off], queue_notify_address)
  BY Zenon DEF Notify
<1>2. machine \in Machines /\ cap \in DOMAIN machine.caps
  BY DEF Setup, Typed, TypeOK
<1>3. FirstOf(machine, 2) = n
  BY <1>1, <1>2, StopsAtFirst DEF Setup, Walking
<1>4. Driven
  BY <1>1 DEF Setup, Driving
<1>5. /\ n.bar \in BarIndices /\ ~ Upper(n.bar) /\ n.offset \in Nat /\ n.off \in Nat
  <2>1. n.offset \in Nat /\ n.off \in Nat
    BY <1>2, PciAssumption
  <2> QED
    BY <1>2, <2>1, BarIndex DEF bar_index
<1>6. /\ n.vendor = "virtio" /\ Bar(n.bar).size # 0
      /\ Mapped(queue_notify_address) /\ Address(n.bar) + d = queue_notify_address
  <2> DEFINE m == [n EXCEPT !.offset = @ + n.off]
  <2>1. m.vendor = n.vendor /\ m.bar = n.bar /\ m.offset = d
    BY <1>2
  <2> QED
    BY <1>1, <2>1 DEF Meets
<1>7. queue_notify_address = common + n.offset + n.off
  BY DEF queue_notify_address
<1>8. /\ c.vendor = "virtio" /\ c.cfg_type = 1 /\ c.bar \in BarIndices /\ c.offset = 0
      /\ Bar(c.bar).flags = 12 /\ Bar(c.bar).size = size
      /\ size \in 1 .. RegSpace - 1 /\ size % PageSize = 0 /\ 2 * size < PrefSize
      /\ common = PrefBase + size /\ mapped = {<< common, size >>}
      /\ \A j \in BarIndices \ {c.bar} : ~ Upper(j) /\ Bar(j).size # 0 => Address(j) = 0
  BY <1>4 DEF Driven
<1>9. PrefBase \in Nat \ {0}
  BY PciAssumption
<1> HIDE DEF n, c
<1>10. n.bar = c.bar
  <2> SUFFICES ASSUME n.bar # c.bar PROVE FALSE
    OBVIOUS
  <2>1. Address(n.bar) = 0
    BY <1>5, <1>6, <1>8
  <2> QED
    BY <1>5, <1>6, <1>7, <1>8, <1>9, <2>1
<1>11. d < size
  <2>1. queue_notify_address < common + size
    BY <1>6, <1>8 DEF Mapped
  <2> QED
    BY <1>5, <1>7, <1>8, <1>9, <2>1
<1>12. size % RegSpace # 0
  <2>1. (RegSpace * 0 + size) % RegSpace = size
    BY <1>8, Sizes, Unique
  <2>2. RegSpace * 0 + size = size
    BY <1>8, Sizes
  <2> QED
    BY <1>8, <2>1, <2>2
<1>13. \E f \in DOMAIN machine.functions : machine.functions[f] = "gpu"
  BY <1>1 DEF Setup, Found
<1>14. machine.bars[c.bar].size = size /\ machine.bars[c.bar].flags = 12
  BY <1>8 DEF Bar
<1> QED
  BY <1>1, <1>3, <1>6, <1>8, <1>10, <1>11, <1>12, <1>13, <1>14 DEF Suitable, n, c

LEMMA PlacingNext ==
  ASSUME Placing, Probing, Agreed, Typed, Next
  PROVE  Placing'
<1>1. CASE SearchAndSize /\ (Silence \/ Probe \/ RestoreBar \/ RestoreCommand)
  BY <1>1, PlacingBySizing
<1>2. CASE SearchAndSize /\ Map
  BY <1>2, PlacingByMap
<1>3. CASE SearchAndSize /\ Program
  BY <1>3, PlacingByProgram
<1>4. CASE search_pci_device \/ get_pci_capability
  <2>1. /\ UNCHANGED << machine, bar, before, mapped, cfg_type >>
        /\ pc \in {"search", "walk"} /\ pc' \in {"search", "device", "undefined", "walk", "capability"}
    BY <1>4 DEF search_pci_device, get_pci_capability
  <2> QED
    BY <2>1, PlacingElsewhere DEF BeforeMap
<1>5. CASE EnableDevice \/ AllocBar \/ FindNotify
  <2>1. /\ UNCHANGED << machine, bar, before, mapped >>
        /\ \/ pc = "device" /\ pc' = "walk"
           \/ pc = "capability" /\ pc' = "sizing" /\ cfg_type = 1
           \/ pc' = "walk" /\ cfg_type' = 2
    BY <1>5 DEF EnableDevice, AllocBar, FindNotify, GetCapability
  <2>2. pc = "device" => cfg_type = 1
    BY DEF Agreed
  <2> QED
    BY <2>1, <2>2, PlacingElsewhere DEF BeforeMap
<1>6. CASE UseBar \/ Notify
  <2>1. UNCHANGED << machine, bar, before, mapped >> /\ pc' \in {"reset", "astray", "waiting"}
    BY <1>6 DEF UseBar, Notify
  <2> QED
    BY <2>1, PlacingElsewhere DEF BeforeMap
<1>7. CASE ResetDevice \/ Acknowledge \/ FeaturesLow \/ FeaturesHigh \/ FeaturesOk
             \/ construct_virtqueue \/ DriverOk
  <2>1. UNCHANGED << machine, bar, before, mapped >> /\ pc' \in Handshake
    BY <1>7 DEF ResetDevice, Acknowledge, FeaturesLow, FeaturesHigh, FeaturesOk,
       construct_virtqueue, DriverOk, Step, Handshake
  <2> QED
    BY <2>1, PlacingElsewhere DEF BeforeMap, Handshake
<1> QED
  BY <1>1, <1>2, <1>3, <1>4, <1>5, <1>6, <1>7 DEF Next, SearchAndSize, PciNext

\* The driver has driven the device when it looks for the notification.
LEMMA DrivingNext ==
  ASSUME Setup, Next
  PROVE  Driving'
<1>1. machine' = machine
  BY DEF Next, SearchAndSize, PciNext, search_pci_device, get_pci_capability, Silence, Probe,
     RestoreBar, RestoreCommand, Map, Program, EnableDevice, AllocBar, UseBar, ResetDevice,
     Acknowledge, FeaturesLow, FeaturesHigh, FeaturesOk, construct_virtqueue, DriverOk, FindNotify,
     Notify, Step
<1>2. Agreed /\ Driving
  BY DEF Setup
<1>3. CASE SearchAndSize
  <2>1. /\ UNCHANGED << common, status, queue, rung, cfg_type >> /\ pc' \notin Handshake
        /\ pc \in {"search", "walk", "sized", "mapped"} \cup BeforeMap
    BY <1>3, Zenon DEF SearchAndSize, PciNext, search_pci_device, get_pci_capability, Silence, Probe,
       RestoreBar, RestoreCommand, Map, Program, deviceVars, Handshake, BeforeMap
  <2>2. cfg_type = 2 => pc = "walk"
    BY <1>2, <2>1 DEF Agreed, BeforeMap
  <2>3. cfg_type = 2 => UNCHANGED << bar, size, mapped >>
    BY <1>3, <2>2 DEF SearchAndSize, PciNext, search_pci_device, get_pci_capability, Silence, Probe,
       RestoreBar, RestoreCommand, Map, Program
  <2>4. cfg_type = 2 => Driven'
    BY <1>1, <1>2, <2>1, <2>3, DrivenKept DEF Driving
  <2>5. ~ rung
    BY <1>2, <2>1 DEF Driving, BeforeMap
  <2> QED
    BY <1>1, <1>2, <2>1, <2>4, <2>5 DEF Driving, Handshake
<1>4. CASE EnableDevice \/ AllocBar
  <2>1. /\ UNCHANGED << status, queue, rung >> /\ cfg_type' = 1 /\ pc' \in {"walk", "sizing"}
        /\ pc # "waiting"
    BY <1>4 DEF EnableDevice, AllocBar, GetCapability, deviceVars
  <2>2. ~ rung' /\ cfg_type' # 2
    <3>1. ~ rung
      BY <1>2, <2>1, Zenon DEF Driving
    <3>2. rung' = rung /\ cfg_type' = 1
      BY <2>1
    <3> QED
      BY <3>1, <3>2
  <2>3. pc' \notin Handshake /\ pc' \notin {"driver ok", "look for notify"} /\ pc' # "look for notify"
    BY <2>1 DEF Handshake
  <2> QED
    BY <2>2, <2>3 DEF Driving
<1>5. CASE UseBar
  <2>1. /\ UNCHANGED << status, queue, rung, cfg_type >> /\ pc = "allocated"
        /\ pc' \in {"reset", "astray"}
    BY <1>5 DEF UseBar, deviceVars
  <2>2. pc' = "reset" => Driven'
    BY <1>5, DrivenByUseBar
  <2>3. cfg_type # 2 /\ ~ rung
    BY <1>2, <2>1 DEF Agreed, Driving
  <2> QED
    BY <2>1, <2>2, <2>3 DEF Driving, Handshake
<1>6. CASE ResetDevice \/ Acknowledge \/ FeaturesLow \/ FeaturesHigh \/ FeaturesOk
             \/ construct_virtqueue \/ DriverOk
  <2>1. /\ UNCHANGED << bar, cfg_type, size, mapped, common >> /\ pc \in Handshake
        /\ rung' = rung \/ rung' = FALSE
    BY <1>6 DEF ResetDevice, Acknowledge, FeaturesLow, FeaturesHigh, FeaturesOk,
       construct_virtqueue, DriverOk, Step, Handshake
  <2>2. Driven' /\ cfg_type # 2 /\ ~ rung'
    <3>1. cfg_type # 2 /\ ~ rung
      BY <1>2, <2>1 DEF Agreed, Driving, Handshake
    <3>2. Driven
      BY <1>2, <2>1 DEF Driving
    <3>3. Driven'
      BY <1>1, <2>1, <3>2, DrivenKept
    <3> QED
      BY <2>1, <3>1, <3>3
  <2>3. pc' \in {"driver ok", "look for notify"} => queue' = "enabled"
    BY <1>2, <1>6 DEF ResetDevice, Acknowledge, FeaturesLow, FeaturesHigh, FeaturesOk,
       construct_virtqueue, DriverOk, Step, Driving
  <2>4. pc' = "look for notify" => "driver_ok" \in status'
    BY <1>6 DEF ResetDevice, Acknowledge, FeaturesLow, FeaturesHigh, FeaturesOk,
       construct_virtqueue, DriverOk, Step
  <2> QED
    BY <2>1, <2>2, <2>3, <2>4 DEF Driving
<1>7. CASE FindNotify
  <2>1. /\ UNCHANGED << bar, size, mapped, common, status, queue, rung >>
        /\ pc = "look for notify" /\ pc' = "walk" /\ cfg_type' = 2
    BY <1>7 DEF FindNotify, GetCapability, deviceVars
  <2>2. Driven' /\ queue = "enabled" /\ "driver_ok" \in status /\ ~ rung
    BY <1>1, <1>2, <2>1, DrivenKept DEF Driving, Handshake
  <2> QED
    BY <2>1, <2>2 DEF Driving
<1>8. CASE Notify
  <2>1. /\ UNCHANGED << bar, size, mapped, common, status, queue, cfg_type >>
        /\ pc' = "waiting" /\ cfg_type = 2
    BY <1>8 DEF Notify
  <2>2. Driven' /\ queue = "enabled" /\ "driver_ok" \in status
    BY <1>1, <1>2, <2>1, DrivenKept DEF Driving
  <2>3. rung' => Suitable(machine)
    BY <1>8, NotifiedMachine
  <2>4. rung' => Suitable(machine')
    BY <1>1, <2>3
  <2> QED
    BY <2>1, <2>2, <2>4 DEF Driving
<1> QED
  BY <1>3, <1>4, <1>5, <1>6, <1>7, <1>8 DEF Next

LEMMA SetupAtStart ==
  ASSUME Init
  PROVE  Setup
<1>1. machine \in Machines /\ cap = machine.first /\ cap \in DOMAIN machine.caps
  BY PciAssumption DEF Init, InitPci
<1>2. Agreed
  BY DEF Init, InitPci, Agreed
<1>3. Settled(bar)
  BY <1>1, LatchedSettles DEF Init, InitPci, Settled
<1>4. Probing
  BY <1>1, <1>3 DEF Init, InitPci, Probing
<1>5. Typed
  <2>1. bar \in Registers
    <3>1. 0 \in 0 .. RegSpace - 1
      BY Sizes
    <3>2. \A i \in BarIndices : Latched(i, 0) \in 0 .. RegSpace - 1
      BY <1>1, <3>1, LatchedFits
    <3> QED
      BY <3>2 DEF Init, InitPci, Registers
  <2>2. 0 \in 0 .. RegSpace * RegSpace - 1
    <3> DEFINE r == RegSpace * RegSpace
    <3>1. r \in Nat \ {0}
      BY Sizes
    <3> HIDE DEF r
    <3>2. 0 \in 0 .. r - 1
      BY <3>1
    <3> QED
      BY <3>2 DEF r
  <2>3. before.bar = bar /\ before.command = {} /\ command = {}
    BY DEF Init, InitPci
  <2>4. accepted \in [0 .. 1 -> SUBSET {0}]
    BY DEF Init
  <2>5. /\ bdf = 1 /\ cfg_type = 1 /\ size = 0 /\ ret = 0 /\ common = 0 /\ status = {} /\ page = 0
        /\ queue = "unset" /\ rung = FALSE
    BY DEF Init, InitPci
  <2>6. TypeOK
    <3>1. bar \in [BarIndices -> 0 .. RegSpace - 1]
      BY <2>1 DEF Registers
    <3>2. size \in 0 .. RegSpace * RegSpace - 1
      BY <2>2, <2>5
    <3>3. page \in 0 .. 1 /\ bdf \in Nat /\ ret \in Nat /\ common \in Nat
      BY <2>5
    <3> QED
      BY <1>1, <2>3, <2>4, <2>5, <3>1, <3>2, <3>3 DEF TypeOK
  <2> QED
    BY <1>1, <2>1, <2>3, <2>6 DEF Typed
<1>6. Found
  BY DEF Init, InitPci, Found
<1>7. Walking
  <2>1. Walked
    BY <1>1, WalkBegins
  <2> QED
    BY <2>1 DEF Init, InitPci, Walking, BeforeMap
<1>8. Placing
  BY DEF Init, InitPci, Placing, Unassigned
<1>9. Driving
  BY DEF Init, InitPci, Driving, Handshake
<1> QED
  BY <1>2, <1>4, <1>5, <1>6, <1>7, <1>8, <1>9 DEF Setup

LEMMA SetupStep ==
  ASSUME Setup, [Next]_vars
  PROVE  Setup'
<1>1. CASE Next
  <2>1. Agreed'
    BY <1>1, AgreedOutside, AgreedHandshake DEF Next, Setup
  <2>2. Probing'
    BY <1>1, ProbingOthers, ProbingSteps, ProbingProgram DEF Setup
  <2>3. Typed' /\ Found' /\ Walking' /\ Placing'
    BY <1>1, TypedNext, FoundNext, WalkingNext, PlacingNext DEF Setup
  <2>4. Driving'
    BY <1>1, DrivingNext
  <2> QED
    BY <2>1, <2>2, <2>3, <2>4 DEF Setup
<1>2. CASE UNCHANGED vars
  <2> USE <1>2 DEF vars, pciVars, deviceVars
  <2>1. Agreed'
    BY DEF Setup, Agreed, Asked, Granted
  <2>2. Probing'
    BY DEF Setup, Probing, Settled, AllOnes, Latched, Upper, Wide, Bar, Flags, bar_index
  <2>3. Typed' /\ Found'
    BY DEF Setup, Typed, TypeOK, Found
  <2>4. Walking'
    BY DEF Setup, Walking, Walked, IsWalk, Circling, Stops
  <2>5. Placing'
    <3>1. /\ \A b : Unassigned(b)' <=> Unassigned(b')
          /\ \A i : Placed(i)' <=> Placed(i')
          /\ Windows' = Windows /\ bar_index' = bar_index /\ (\A w : Fits(w)' <=> Fits(w'))
          /\ \A a : Mapped(a)' <=> Mapped(a')
          /\ \A i : Bar(i)' = Bar(i') /\ Flags(i)' = Flags(i')
      BY DEF Unassigned, Placed, Latched, Upper, Wide, Bar, Windows, Flags, bar_index, Fits, Mapped
    <3> QED
      BY <3>1 DEF Setup, Placing
  <2>6. Driving'
    <3>1. Driven => Driven'
      BY DrivenKept
    <3> QED
      BY <3>1 DEF Setup, Driving
  <2> QED
    BY <2>1, <2>2, <2>3, <2>4, <2>5, <2>6 DEF Setup
<1> QED
  BY <1>1, <1>2

LEMMA SetupInvariant == Spec => []Setup
<1>1. Init => Setup
  BY SetupAtStart
<1>2. Setup /\ [Next]_vars => Setup'
  BY SetupStep
<1> QED
  BY <1>1, <1>2, PTL DEF Spec

\* On every machine the registers hold what fits into them, sizes and addresses
\* stay in 64 bits, and the walk ends at a capability.
THEOREM SetupTypes == Spec => []TypeOK
<1>1. Setup => TypeOK
  BY DEF Setup, Typed
<1> QED
  BY <1>1, SetupInvariant, PTL

\* Whatever the machine, the device gets its first notification only if the
\* machine is one of those the driver is made for, and only when the queue is
\* enabled and driver_ok is set: every other list of capabilities, kind and size
\* of BAR ends before or in an access that meets no device.
THEOREM NotifiedOnlyOnSuitable == Spec => []NotifiedOnlyWhenReady
<1>1. Setup => NotifiedOnlyWhenReady
  BY DEF Setup, Driving, NotifiedOnlyWhenReady
<1> QED
  BY <1>1, SetupInvariant, PTL
=============================================================================
