-------------------------- MODULE VirtQueue_proofs --------------------------
(***************************************************************************)
(* Proofs about the command queue, for every queue of at least three       *)
(* descriptors, every range of the counters, every program of kernel_main  *)
(* and any number of errors: the types, that the device never finds a torn *)
(* chain, and that the queue implements CommandChannel.                    *)
(*                                                                         *)
(* The invariant relates the driver's position in a command (pc) to the    *)
(* device's: outside a command the two counters agree, and inside it the   *)
(* device is in one of four stages.                                        *)
(***************************************************************************)
EXTENDS VirtQueue, FiniteSetTheorems, TLAPS

Last == Len(buffers)

\* The device has nothing to do.
Quiet == device.at = "idle" /\ device.next = avail.idx /\ used = avail.idx

\* The chain of the command that is under way is complete.
Prepared ==
  /\ todo # << >> /\ Head(todo) \in Commands
  /\ Last > 0 /\ buffers[Last].cmd = Head(todo)
  /\ desc[head].serial = Last /\ Whole(head)

\* The four stages of a published command.
Waiting  == device.at = "idle" /\ device.next = used_idx /\ used = used_idx
            /\ Len(executed) = Last - 1
Fetched  == device.at = "fetched" /\ device.next = avail.idx /\ used = used_idx
            /\ device.serial = Last /\ Len(executed) = Last - 1
Answered == /\ Len(executed) = Last
            /\ executed[Last].answer = buffers[Last].answer
Executed == device.at = "executed" /\ device.next = avail.idx /\ used = used_idx
            /\ Answered
Complete == Quiet /\ Answered

Published ==
  /\ avail.ring[used_idx % queue_size] = head
  /\ avail.idx = (used_idx + 1) % IdxSpace
  /\ Waiting \/ Fetched \/ Executed \/ Complete

\* No info is left but the first item, before which nothing has been published.
InfoFirst ==
  \A i \in 1 .. Len(todo) : todo[i] = "info" =>
    /\ i = 1
    /\ pc \in {"run", "snapshot", "ring", "index"} => avail.idx = 0
    /\ pc = "run" => descriptor_index = 0

Phases ==
  /\ pc \in {"run", "overflow"} => Quiet /\ Len(executed) = Last
  /\ pc \in {"snapshot", "ring", "index"} => Quiet /\ Len(executed) = Last - 1
  /\ pc \in {"snapshot", "ring", "index", "notify", "wait", "check"} => Prepared
  /\ pc \in {"ring", "index"} => used_idx = used
  /\ pc = "index" => avail.ring[used_idx % queue_size] = head
  /\ pc \in {"notify", "wait", "check"} => Published
  /\ pc = "check" => Complete

IInv == TypeOK /\ InfoFirst /\ Phases

-----------------------------------------------------------------------------
\* Counting modulo n.
LEMMA NextInRange ==
  ASSUME NEW n \in Nat, n >= 2, NEW x \in 0 .. n - 1
  PROVE  (x + 1) % n \in 0 .. n - 1 /\ (x + 1) % n # x
<1>1. CASE x + 1 < n
  BY <1>1
<1>2. CASE x + 1 = n
  BY <1>2
<1> QED BY <1>1, <1>2

\* The descriptors of a command are different slots of the queue.
LEMMA NextDescriptors ==
  ASSUME NEW i \in Slots
  PROVE  LET j == get_next_descriptor(i)
             k == get_next_descriptor(j)
         IN  j \in Slots /\ k \in Slots /\ i # j /\ j # k /\ i # k
<1>1. queue_size \in Nat /\ queue_size >= 3
  BY VirtQueueAssumption
<1>2. \A x \in Slots : get_next_descriptor(x) = IF x + 1 = queue_size THEN 0 ELSE x + 1
  BY <1>1 DEF Slots, get_next_descriptor
<1> QED BY <1>1, <1>2 DEF Slots

\* The rest of a sequence, with or without the items of a report in front.
LEMMA RestOfTodo ==
  ASSUME NEW s \in Seq(Items), s # << >>,
         \A i \in 1 .. Len(s) : s[i] = "info" => i = 1
  PROVE  /\ Tail(s) \in Seq(Items)
         /\ \A i \in 1 .. Len(Tail(s)) : Tail(s)[i] # "info"
<1>1. Len(s) \in Nat /\ Len(s) > 0 /\ Len(Tail(s)) = Len(s) - 1
  OBVIOUS
<1>2. \A i \in 1 .. Len(Tail(s)) : Tail(s)[i] = s[i + 1] /\ i + 1 \in 1 .. Len(s) /\ i + 1 # 1
  BY <1>1
<1> QED BY <1>1, <1>2

LEMMA ReportOfTodo ==
  ASSUME NEW s \in Seq(Items), \A i \in 1 .. Len(s) : s[i] # "info",
         NEW r \in {<< "transfer", "flush" >>, << "transfer", "flush", "return" >>}
  PROVE  /\ r \o s \in Seq(Items)
         /\ \A i \in 1 .. Len(r \o s) : (r \o s)[i] # "info"
<1>1. r \in Seq(Items) /\ \A i \in 1 .. Len(r) : r[i] # "info"
  <2>1. "transfer" \in Items /\ "flush" \in Items /\ "return" \in Items
    BY DEF Items, Commands
  <2>2. CASE r = << "transfer", "flush" >>
    <3>1. \A i \in 1 .. 2 : i = 1 \/ i = 2
      OBVIOUS
    <3> QED BY <2>1, <2>2, <3>1
  <2>3. CASE r = << "transfer", "flush", "return" >>
    <3>1. \A i \in 1 .. 3 : i = 1 \/ i = 2 \/ i = 3
      OBVIOUS
    <3> QED BY <2>1, <2>3, <3>1
  <2> QED BY <2>2, <2>3
<1>2. Len(r) \in Nat /\ Len(s) \in Nat /\ Len(r \o s) = Len(r) + Len(s)
  BY <1>1
<1>3. \A i \in 1 .. Len(r \o s) :
        (r \o s)[i] = IF i <= Len(r) THEN r[i] ELSE s[i - Len(r)]
  BY <1>1, <1>2
<1>4. \A i \in 1 .. Len(r \o s) : i <= Len(r) \/ i - Len(r) \in 1 .. Len(s)
  BY <1>2
<1> QED BY <1>1, <1>2, <1>3, <1>4

LEMMA LoggingOfTodo ==
  ASSUME NEW s \in Seq(Items), \A i \in 1 .. Len(s) : s[i] # "info"
  PROVE  /\ Logging(s) \in Seq(Items)
         /\ \A i \in 1 .. Len(Logging(s)) : Logging(s)[i] # "info"
<1>1. CASE log_terminal
  BY <1>1, ReportOfTodo DEF Logging
<1>2. CASE ~log_terminal
  BY <1>2 DEF Logging
<1> QED BY <1>1, <1>2

\* An element of a sequence, and a sequence with one element replaced.
LEMMA ElementOfSeq ==
  ASSUME NEW S, NEW s \in Seq(S), NEW i \in 1 .. Len(s)
  PROVE  s[i] \in S
OBVIOUS

LEMMA ReplacedInSeq ==
  ASSUME NEW S, NEW s \in Seq(S), NEW i \in 1 .. Len(s), NEW x \in S
  PROVE  LET t == [s EXCEPT ![i] = x]
         IN  /\ t \in Seq(S) /\ Len(t) = Len(s)
             /\ \A j \in 1 .. Len(s) : t[j] = IF j = i THEN x ELSE s[j]
<1> DEFINE t == [s EXCEPT ![i] = x]
<1>1. /\ Len(s) \in Nat /\ DOMAIN s = 1 .. Len(s) /\ s \in [1 .. Len(s) -> S]
  OBVIOUS
<1>2. t \in [1 .. Len(s) -> S]
  BY <1>1
<1>3. t \in Seq(S) /\ Len(t) = Len(s)
  BY <1>1, <1>2, Len(s) \in Nat
<1> QED BY <1>1, <1>3

-----------------------------------------------------------------------------
LEMMA InitIInv == Init => IInv
<1> SUFFICES ASSUME Init PROVE IInv
  OBVIOUS
<1>1. queue_size \in Nat /\ queue_size >= 3 /\ IdxSpace \in Nat /\ IdxSpace >= 2
  BY VirtQueueAssumption
<1>2. 0 \in Slots /\ 0 \in Indices
  BY <1>1 DEF Slots, Indices
<1>3. TypeOK
  <2>1. desc \in [Slots -> Descriptor]
    BY <1>2 DEF Init, Descriptor, Parts
  <2>2. Program \in Seq(Items)
    BY VirtQueueAssumption
  <2>3. avail \in [idx : Indices, ring : [Slots -> Slots]]
    BY <1>2 DEF Init
  <2>4. device \in [at : {"idle", "fetched", "executed", "broken"}, next : Indices,
                   serial : Nat, notified : BOOLEAN]
    BY <1>2, Zenon DEF Init
  <2>5. gpu \in [resource : BOOLEAN, backing : BOOLEAN]
    BY Zenon DEF Init
  <2>6. buffers \in Seq([cmd : Commands, answer : {"none", "ok", "error"}])
    BY DEF Init
  <2>7. executed \in Seq([cmd : Commands, answer : {"ok", "error"}])
    BY DEF Init
  <2>8. /\ used \in Indices /\ descriptor_index \in Slots /\ head \in Slots
        /\ used_idx \in Indices /\ todo \in Seq(Items)
    BY <1>2, <2>2 DEF Init
  <2>9. /\ pc \in {"run", "snapshot", "ring", "index", "notify", "wait", "check", "overflow"}
        /\ response \in {"none", "ok", "error"} /\ log_terminal \in BOOLEAN
    BY Zenon DEF Init
  <2> QED BY <2>1, <2>3, <2>4, <2>5, <2>6, <2>7, <2>8, <2>9, Zenon DEF TypeOK
<1>4. InfoFirst
  BY VirtQueueAssumption DEF Init, InfoFirst
<1>5. Phases
  BY DEF Init, Phases, Quiet, Last
<1> QED BY <1>3, <1>4, <1>5 DEF IInv

-----------------------------------------------------------------------------
\* What the steps do with the device's side of the queue.
DeviceType == [at : {"idle", "fetched", "executed", "broken"}, next : Indices,
               serial : Nat, notified : BOOLEAN]

LEMMA NotifiedDevice ==
  ASSUME NEW d \in DeviceType, NEW n \in BOOLEAN
  PROVE  LET e == [d EXCEPT !.notified = n]
         IN  /\ e \in DeviceType
             /\ e.at = d.at /\ e.next = d.next /\ e.serial = d.serial
BY DEF DeviceType

LEMMA FetchedDevice ==
  ASSUME NEW d \in DeviceType, NEW i \in Indices, NEW s \in Nat
  PROVE  LET e == [d EXCEPT !.at = "fetched", !.next = i, !.serial = s]
         IN  e \in DeviceType /\ e.at = "fetched" /\ e.next = i /\ e.serial = s
BY DEF DeviceType

LEMMA MovedDevice ==
  ASSUME NEW d \in DeviceType, NEW a \in {"idle", "executed"}
  PROVE  LET e == [d EXCEPT !.at = a]
         IN  /\ e \in DeviceType
             /\ e.at = a /\ e.next = d.next /\ e.serial = d.serial
BY DEF DeviceType

-----------------------------------------------------------------------------
\* A step of a caller of the driver, which only replaces what is left to do.
LEMMA CallerKeeps ==
  ASSUME IInv, pc = "run",
         todo' \in Seq(Items), \A i \in 1 .. Len(todo') : todo'[i] # "info",
         log_terminal' \in BOOLEAN,
         UNCHANGED << queueVars, deviceVars, descriptor_index, pc, head, used_idx, response >>
  PROVE  IInv'
<1>1. TypeOK'
  BY Zenon DEF IInv, TypeOK, queueVars, deviceVars
<1>2. InfoFirst'
  BY DEF InfoFirst
<1>3. Phases'
  BY DEF IInv, Phases, Quiet, Last, queueVars, deviceVars
<1> QED BY <1>1, <1>2, <1>3 DEF IInv

\* Once its first item is done, the rest of the program has no info.
LEMMA RestOfCalls ==
  ASSUME IInv, todo # << >>
  PROVE  /\ Tail(todo) \in Seq(Items)
         /\ \A i \in 1 .. Len(Tail(todo)) : Tail(todo)[i] # "info"
<1>1. todo \in Seq(Items) /\ \A i \in 1 .. Len(todo) : todo[i] = "info" => i = 1
  BY DEF IInv, TypeOK, InfoFirst
<1> QED BY <1>1, RestOfTodo, Zenon

LEMMA InitTerminalIInv == IInv /\ InitTerminal => IInv'
<1> SUFFICES ASSUME IInv, InitTerminal PROVE IInv'
  OBVIOUS
<1>1. /\ todo' \in Seq(Items)
      /\ \A i \in 1 .. Len(todo') : todo'[i] # "info"
  BY RestOfCalls, Zenon DEF InitTerminal, Starts
<1>2. pc = "run" /\ log_terminal' \in BOOLEAN
  BY Zenon DEF InitTerminal, Starts
<1> QED BY <1>1, <1>2, CallerKeeps, Zenon DEF InitTerminal

LEMMA PrintfIInv == IInv /\ Printf => IInv'
<1> SUFFICES ASSUME IInv, Printf PROVE IInv'
  OBVIOUS
<1>1. /\ todo' \in Seq(Items)
      /\ \A i \in 1 .. Len(todo') : todo'[i] # "info"
  <2>1. todo # << >> /\ todo' = << "transfer", "flush" >> \o Tail(todo)
    BY Zenon DEF Printf, Starts
  <2> QED BY <2>1, RestOfCalls, ReportOfTodo
<1>2. pc = "run" /\ log_terminal' \in BOOLEAN
  BY Zenon DEF Printf, Starts, IInv, TypeOK
<1> QED BY <1>1, <1>2, CallerKeeps, Zenon DEF Printf

LEMMA LogIInv == IInv /\ Log => IInv'
<1> SUFFICES ASSUME IInv, Log PROVE IInv'
  OBVIOUS
<1>1. /\ todo' \in Seq(Items)
      /\ \A i \in 1 .. Len(todo') : todo'[i] # "info"
  <2>1. todo # << >> /\ todo' = Logging(Tail(todo))
    BY Zenon DEF Log, Starts
  <2>2. Tail(todo) \in Seq(Items) /\ \A i \in 1 .. Len(Tail(todo)) : Tail(todo)[i] # "info"
    BY <2>1, RestOfCalls, Zenon
  <2> QED BY <2>1, <2>2, LoggingOfTodo, Zenon
<1>2. pc = "run" /\ log_terminal' \in BOOLEAN
  BY Zenon DEF Log, Starts, IInv, TypeOK
<1> QED BY <1>1, <1>2, CallerKeeps, Zenon DEF Log

LEMMA LogReturnsIInv == IInv /\ LogReturns => IInv'
<1> SUFFICES ASSUME IInv, LogReturns PROVE IInv'
  OBVIOUS
<1>1. /\ todo' \in Seq(Items)
      /\ \A i \in 1 .. Len(todo') : todo'[i] # "info"
  BY RestOfCalls, Zenon DEF LogReturns, Starts
<1>2. pc = "run" /\ log_terminal' \in BOOLEAN
  BY Zenon DEF LogReturns, Starts, IInv, TypeOK
<1> QED BY <1>1, <1>2, CallerKeeps, Zenon DEF LogReturns

-----------------------------------------------------------------------------
\* The descriptors a command writes form its chain, and keep the table's type.
LEMMA ChainIsWhole ==
  ASSUME NEW c \in Commands, NEW serial \in Nat, NEW d0 \in Slots,
         desc \in [Slots -> Descriptor], c = "info" => d0 = 0,
         desc' = Chain(c, serial, d0), buffers'[serial].cmd = c
  PROVE  /\ desc' \in [Slots -> Descriptor]
         /\ desc'[d0].serial = serial
         /\ Whole(d0)'
<1> DEFINE d1 == get_next_descriptor(d0)
           d2 == get_next_descriptor(d1)
           request == [serial |-> serial, part |-> "request", next |-> next_field(c, d0)]
           entry   == [serial |-> serial, part |-> "entry", next |-> next_field(c, d1)]
           answer  == [serial |-> serial, part |-> "response", next |-> 0]
<1>1. d1 \in Slots /\ d2 \in Slots /\ d0 # d1 /\ d1 # d2 /\ d0 # d2
  BY NextDescriptors
<1>2. next_field(c, d0) = d1
  BY VirtQueueAssumption DEF next_field, get_next_descriptor
<1>3. c = "attach" => next_field(c, d1) = d2
  BY DEF next_field
<1>4. desc' = IF c = "attach" THEN [desc EXCEPT ![d0] = request, ![d1] = entry, ![d2] = answer]
              ELSE [desc EXCEPT ![d0] = request, ![d1] = answer]
  BY DEF Chain
<1>5. 0 \in Slots
  BY VirtQueueAssumption DEF Slots
<1>6. request \in Descriptor /\ answer \in Descriptor
  BY <1>1, <1>2, <1>5 DEF Descriptor, Parts
<1>7. c = "attach" => entry \in Descriptor
  BY <1>1, <1>3 DEF Descriptor, Parts
<1>8. /\ request.serial = serial /\ request.part = "request" /\ request.next = d1
      /\ entry.serial = serial /\ entry.part = "entry" /\ (c = "attach" => entry.next = d2)
      /\ answer.serial = serial /\ answer.part = "response"
  BY <1>2, <1>3
<1> HIDE DEF d1, d2, request, entry, answer
<1>9. CASE c = "attach"
  <2>1. desc' \in [Slots -> Descriptor]
    BY <1>1, <1>4, <1>6, <1>7, <1>9
  <2>2. desc'[d0] = request /\ desc'[d1] = entry /\ desc'[d2] = answer
    BY <1>1, <1>4, <1>9
  <2> QED BY <1>8, <1>9, <2>1, <2>2 DEF Whole
<1>10. CASE c # "attach"
  <2>1. desc' \in [Slots -> Descriptor]
    BY <1>1, <1>4, <1>6, <1>10
  <2>2. desc'[d0] = request /\ desc'[d1] = answer
    BY <1>1, <1>4, <1>10
  <2> QED BY <1>8, <1>10, <2>1, <2>2 DEF Whole
<1> QED BY <1>9, <1>10

LEMMA FillDescriptorsIInv == IInv /\ FillDescriptors => IInv'
<1> SUFFICES ASSUME IInv, FillDescriptors PROVE IInv'
  OBVIOUS
<1> DEFINE c == Head(todo)
           d1 == get_next_descriptor(descriptor_index)
           d2 == get_next_descriptor(d1)
           d3 == get_next_descriptor(d2)
           B == [cmd : Commands, answer : {"none", "ok", "error"}]
           buffer == [cmd |-> c, answer |-> "none"]
<1>1. /\ c \in Commands /\ todo # << >> /\ todo \in Seq(Items) /\ pc = "run"
      /\ descriptor_index \in Slots /\ buffers \in Seq(B) /\ desc \in [Slots -> Descriptor]
  BY DEF IInv, TypeOK, FillDescriptors
<1>2. c = "info" => descriptor_index = 0 /\ avail.idx = 0
  BY <1>1 DEF IInv, InfoFirst
<1>3. head' = descriptor_index
  BY <1>2 DEF FillDescriptors
<1>4. d2 \in Slots /\ d3 \in Slots
  BY <1>1, NextDescriptors
<1>5. buffer \in B /\ buffer.cmd = c
  BY <1>1
<1> HIDE DEF B
<1>6. /\ buffers' = Append(buffers, buffer) /\ desc' = Chain(c, Last + 1, descriptor_index)
      /\ descriptor_index' = (IF c = "attach" THEN d3 ELSE d2)
      /\ pc' = "snapshot"
      /\ UNCHANGED << avail, used, todo, used_idx, response, log_terminal, deviceVars >>
  BY Zenon DEF FillDescriptors, Last
<1> HIDE DEF c, d1, d2, d3, buffer
<1>7. Last \in Nat /\ Last' = Last + 1 /\ buffers' \in Seq(B) /\ buffers'[Last + 1] = buffer
  BY <1>1, <1>5, <1>6 DEF Last
<1>8. desc' \in [Slots -> Descriptor] /\ desc'[head'].serial = Last' /\ Whole(head)'
  <2>1. PICK d0 \in Slots : d0 = descriptor_index
    BY <1>1
  <2>2. PICK e \in Commands : e = c
    BY <1>1
  <2>3. PICK serial \in Nat : serial = Last + 1
    BY <1>7
  <2>4. /\ e = "info" => d0 = 0
        /\ desc' = Chain(e, serial, d0) /\ buffers'[serial].cmd = e
    BY <1>2, <1>5, <1>6, <1>7, <2>1, <2>2, <2>3
  <2>5. desc' \in [Slots -> Descriptor] /\ desc'[d0].serial = serial /\ Whole(d0)'
    BY <1>1, <2>4, ChainIsWhole
  <2> QED BY <1>3, <1>7, <2>1, <2>3, <2>5 DEF Whole
<1>9. TypeOK'
  <2>1. descriptor_index' \in Slots /\ head' \in Slots
    BY <1>1, <1>3, <1>4, <1>6
  <2> QED BY <1>6, <1>7, <1>8, <2>1, Zenon DEF IInv, TypeOK, deviceVars, B
<1>10. InfoFirst'
  BY <1>1, <1>6 DEF IInv, InfoFirst
<1>11. Prepared'
  <2>1. todo' # << >> /\ Head(todo') = c /\ c \in Commands
    BY <1>1, <1>6 DEF c
  <2>2. Last' > 0 /\ buffers'[Last'].cmd = c
    BY <1>5, <1>7
  <2> QED BY <1>8, <2>1, <2>2 DEF Prepared
<1>12. Quiet' /\ (Len(executed) = Last - 1)'
  BY <1>1, <1>6, <1>7 DEF IInv, Phases, Quiet, deviceVars
<1>13. Phases'
  BY <1>6, <1>11, <1>12 DEF Phases
<1> QED BY <1>9, <1>10, <1>13 DEF IInv

-----------------------------------------------------------------------------
\* A prepared command stays so while nobody touches its memory.
LEMMA PreparedStays ==
  ASSUME Prepared, UNCHANGED << desc, buffers, todo, head >>
  PROVE  Prepared'
BY DEF Prepared, Last, Whole

\* No info is left when a command has been published, but as its first item.
LEMMA InfoStays ==
  ASSUME InfoFirst, UNCHANGED todo,
         pc' \in {"ring", "index", "notify", "wait", "check"},
         pc' \in {"ring", "index"} =>
           pc \in {"snapshot", "ring", "index"} /\ avail.idx' = avail.idx
  PROVE  InfoFirst'
BY DEF InfoFirst

\* While info is the first item, the queue has not been used.
LEMMA InfoMeansUnused ==
  ASSUME IInv, todo # << >>, Head(todo) = "info", pc \in {"snapshot", "ring", "index"}
  PROVE  avail.idx = 0
<1>1. 1 \in 1 .. Len(todo) /\ todo[1] = "info"
  BY DEF IInv, TypeOK
<1> QED BY <1>1 DEF IInv, InfoFirst

LEMMA ReadUsedIInv == IInv /\ ReadUsed => IInv'
<1> SUFFICES ASSUME IInv, ReadUsed PROVE IInv'
  OBVIOUS
<1>1. /\ pc = "snapshot" /\ pc' = "ring" /\ used_idx' = IF Head(todo) = "info" THEN 0 ELSE used
      /\ UNCHANGED << desc, avail, used, buffers, descriptor_index, todo, head, response,
                      log_terminal, device, gpu, executed >>
  BY Zenon DEF ReadUsed, queueVars, deviceVars
<1>2. Prepared /\ Quiet /\ Len(executed) = Last - 1
  BY <1>1 DEF IInv, Phases
<1>3. used_idx' = used
  BY <1>1, <1>2, InfoMeansUnused DEF Prepared, Quiet
<1>4. TypeOK'
  <2>1. used_idx' \in Indices
    BY <1>3 DEF IInv, TypeOK
  <2> QED BY <1>1, <2>1, Zenon DEF IInv, TypeOK
<1>5. InfoFirst'
  BY <1>1, InfoStays DEF IInv
<1>6. Phases'
  BY <1>1, <1>2, <1>3, PreparedStays DEF Phases, Quiet, Last
<1> QED BY <1>4, <1>5, <1>6 DEF IInv

LEMMA PublishHeadIInv == IInv /\ PublishHead => IInv'
<1> SUFFICES ASSUME IInv, PublishHead PROVE IInv'
  OBVIOUS
<1> DEFINE slot == IF Head(todo) = "info" THEN 0 ELSE avail.idx % queue_size
<1>1. /\ pc = "ring" /\ pc' = "index" /\ avail' = [avail EXCEPT !.ring[slot] = head]
      /\ UNCHANGED << desc, used, buffers, descriptor_index, todo, head, used_idx, response,
                      log_terminal, device, gpu, executed >>
  BY Zenon DEF PublishHead, deviceVars
<1>2. Prepared /\ Quiet /\ Len(executed) = Last - 1 /\ used_idx = used
  BY <1>1 DEF IInv, Phases
<1>3. /\ avail \in [idx : Indices, ring : [Slots -> Slots]] /\ head \in Slots
      /\ used_idx \in Indices
  BY DEF IInv, TypeOK
<1>4. slot = used_idx % queue_size
  <2>1. avail.idx = used_idx
    BY <1>2 DEF Quiet
  <2>2. Head(todo) = "info" => avail.idx = 0
    BY <1>1, <1>2, InfoMeansUnused DEF Prepared
  <2>3. 0 % queue_size = 0
    BY VirtQueueAssumption
  <2> QED BY <2>1, <2>2, <2>3
<1>5. slot \in Slots
  <2>1. queue_size \in Nat \ {0} /\ used_idx \in Nat
    BY <1>3, VirtQueueAssumption DEF Indices
  <2> QED BY <1>4, <2>1 DEF Slots
<1> HIDE DEF slot
<1>6. /\ avail' \in [idx : Indices, ring : [Slots -> Slots]]
      /\ avail'.idx = avail.idx /\ avail'.ring[slot] = head
  BY <1>1, <1>3, <1>5
<1>7. TypeOK'
  BY <1>1, <1>6, Zenon DEF IInv, TypeOK
<1>8. InfoFirst'
  BY <1>1, <1>6, InfoStays DEF IInv
<1>9. Phases'
  BY <1>1, <1>2, <1>4, <1>6, PreparedStays DEF Phases, Quiet, Last
<1> QED BY <1>7, <1>8, <1>9 DEF IInv

LEMMA PublishIndexIInv == IInv /\ PublishIndex => IInv'
<1> SUFFICES ASSUME IInv, PublishIndex PROVE IInv'
  OBVIOUS
<1>1. /\ pc = "index" /\ pc' = "notify" /\ avail' = [avail EXCEPT !.idx = next_index(Head(todo))]
      /\ UNCHANGED << desc, used, buffers, descriptor_index, todo, head, used_idx, response,
                      log_terminal, device, gpu, executed >>
  BY Zenon DEF PublishIndex, deviceVars
<1>2. /\ Prepared /\ Quiet /\ Len(executed) = Last - 1 /\ used_idx = used
      /\ avail.ring[used_idx % queue_size] = head
  BY <1>1 DEF IInv, Phases
<1>3. avail \in [idx : Indices, ring : [Slots -> Slots]] /\ used_idx \in Indices
  BY DEF IInv, TypeOK
<1>4. next_index(Head(todo)) = (used_idx + 1) % IdxSpace
  <2>1. avail.idx = used_idx
    BY <1>2 DEF Quiet
  <2>2. Head(todo) = "info" => avail.idx = 0
    BY <1>1, <1>2, InfoMeansUnused DEF Prepared
  <2>3. (0 + 1) % IdxSpace = 1
    BY VirtQueueAssumption
  <2> QED BY <2>1, <2>2, <2>3 DEF next_index
<1>5. (used_idx + 1) % IdxSpace \in Indices
  BY <1>3, NextInRange, VirtQueueAssumption DEF Indices
<1>6. /\ avail' \in [idx : Indices, ring : [Slots -> Slots]]
      /\ avail'.idx = (used_idx + 1) % IdxSpace /\ avail'.ring = avail.ring
  BY <1>1, <1>3, <1>4, <1>5
<1>7. TypeOK'
  BY <1>1, <1>6, Zenon DEF IInv, TypeOK
<1>8. InfoFirst'
  BY <1>1, InfoStays DEF IInv
<1>9. Published'
  <2>1. Waiting'
    BY <1>1, <1>2 DEF Waiting, Quiet, Last
  <2> QED BY <1>1, <1>2, <1>6, <2>1 DEF Published
<1>10. Phases'
  BY <1>1, <1>2, <1>9, PreparedStays DEF Phases
<1> QED BY <1>7, <1>8, <1>10 DEF IInv

LEMMA NotifyIInv == IInv /\ Notify => IInv'
<1> SUFFICES ASSUME IInv, Notify PROVE IInv'
  OBVIOUS
<1>1. /\ pc = "notify" /\ pc' = "wait" /\ device' = [device EXCEPT !.notified = TRUE]
      /\ UNCHANGED << desc, avail, used, buffers, descriptor_index, todo, head, used_idx,
                      response, log_terminal, gpu, executed >>
  BY Zenon DEF Notify, queueVars
<1>2. Prepared /\ Published
  BY <1>1 DEF IInv, Phases
<1>3. TypeOK'
  BY <1>1, NotifiedDevice, Zenon DEF IInv, TypeOK, DeviceType
<1>4. device'.at = device.at /\ device'.next = device.next /\ device'.serial = device.serial
  BY <1>1, NotifiedDevice, Zenon DEF IInv, TypeOK, DeviceType
<1>5. InfoFirst'
  BY <1>1, InfoStays DEF IInv
<1>6. Published'
  BY <1>1, <1>2, <1>4 DEF Published, Waiting, Fetched, Executed, Complete, Quiet, Answered, Last
<1>7. Phases'
  BY <1>1, <1>2, <1>6, PreparedStays DEF Phases
<1> QED BY <1>3, <1>5, <1>7 DEF IInv

\* The counter has moved on only when the device is done with the command.
LEMMA CountedIsComplete ==
  ASSUME Published, used # used_idx
  PROVE  Complete
BY DEF Published, Waiting, Fetched, Executed

LEMMA WaitIInv == IInv /\ Wait => IInv'
<1> SUFFICES ASSUME IInv, Wait PROVE IInv'
  OBVIOUS
<1>1. /\ pc = "wait" /\ pc' = "check" /\ used # used_idx
      /\ UNCHANGED << desc, avail, used, buffers, descriptor_index, todo, head, used_idx,
                      response, log_terminal, device, gpu, executed >>
  BY Zenon DEF Wait, queueVars, deviceVars
<1>2. Prepared /\ Published /\ Complete
  BY <1>1, CountedIsComplete DEF IInv, Phases
<1>3. TypeOK'
  BY <1>1, Zenon DEF IInv, TypeOK
<1>4. InfoFirst'
  BY <1>1, InfoStays DEF IInv
<1>5. Published' /\ Complete'
  BY <1>1, <1>2 DEF Published, Complete, Quiet, Answered, Last
<1>6. Phases'
  BY <1>1, <1>2, <1>5, PreparedStays DEF Phases
<1> QED BY <1>3, <1>4, <1>6 DEF IInv

LEMMA CheckResponseIInv == IInv /\ CheckResponse => IInv'
<1> SUFFICES ASSUME IInv, CheckResponse PROVE IInv'
  OBVIOUS
<1>1. /\ pc = "check" /\ pc' \in {"run", "overflow"} /\ response' = buffers[Last].answer
      /\ todo' = Logging(Tail(todo)) \/ todo' = Tail(todo)
      /\ UNCHANGED << desc, avail, used, buffers, descriptor_index, head, used_idx,
                      log_terminal, device, gpu, executed >>
  BY DEF CheckResponse, Last, queueVars, deviceVars
<1>2. Prepared /\ Complete
  BY <1>1 DEF IInv, Phases
<1>3. response' \in {"none", "ok", "error"}
  <2>1. /\ buffers \in Seq([cmd : Commands, answer : {"none", "ok", "error"}])
        /\ Last \in 1 .. Len(buffers)
    BY <1>2 DEF IInv, TypeOK, Prepared, Last
  <2>2. buffers[Last] \in [cmd : Commands, answer : {"none", "ok", "error"}]
    BY <2>1, ElementOfSeq
  <2> QED BY <1>1, <2>2
<1>4. todo' \in Seq(Items) /\ \A i \in 1 .. Len(todo') : todo'[i] # "info"
  <2>1. todo # << >>
    BY <1>2 DEF Prepared
  <2>2. Tail(todo) \in Seq(Items) /\ \A i \in 1 .. Len(Tail(todo)) : Tail(todo)[i] # "info"
    BY <2>1, RestOfCalls, Zenon
  <2>3. CASE todo' = Tail(todo)
    BY <2>2, <2>3, Zenon
  <2>4. CASE todo' = Logging(Tail(todo))
    BY <2>2, <2>4, LoggingOfTodo, Zenon
  <2> QED BY <1>1, <2>3, <2>4, Zenon
<1>5. TypeOK'
  BY <1>1, <1>3, <1>4, Zenon DEF IInv, TypeOK
<1>6. InfoFirst'
  BY <1>4 DEF InfoFirst
<1>7. Phases'
  BY <1>1, <1>2 DEF Phases, Complete, Answered, Quiet, Last
<1> QED BY <1>5, <1>6, <1>7 DEF IInv

-----------------------------------------------------------------------------
\* The device finds something only when a command waits for it, and that
\* command is whole.
LEMMA FetchFindsTheCommand ==
  ASSUME IInv, device.at = "idle", avail.idx # device.next
  PROVE  /\ pc \in {"notify", "wait"} /\ Waiting
         /\ avail.ring[device.next % queue_size] = head
<1>1. pc \in {"notify", "wait", "check"} /\ ~Quiet /\ ~Complete
  BY DEF IInv, TypeOK, Phases, Quiet, Complete
<1> QED BY <1>1 DEF IInv, Phases, Published, Waiting, Fetched, Executed

LEMMA DeviceFetchIInv == IInv /\ DeviceFetch => IInv'
<1> SUFFICES ASSUME IInv, DeviceFetch PROVE IInv'
  OBVIOUS
<1>1. /\ device.at = "idle" /\ avail.idx # device.next
      /\ UNCHANGED << desc, avail, used, buffers, descriptor_index, todo, pc, head, used_idx,
                      response, log_terminal, gpu, executed >>
  BY Zenon DEF DeviceFetch, queueVars, driverVars
<1>2. /\ pc \in {"notify", "wait"} /\ Waiting
      /\ avail.ring[device.next % queue_size] = head
  BY <1>1, FetchFindsTheCommand
<1>3. Prepared /\ Published
  BY <1>2 DEF IInv, Phases
<1>4. device' = [device EXCEPT !.at = "fetched", !.next = (@ + 1) % IdxSpace, !.serial = Last]
  BY <1>2, <1>3 DEF DeviceFetch, Prepared
<1>5. /\ (device.next + 1) % IdxSpace \in Indices /\ Last \in Nat
      /\ (device.next + 1) % IdxSpace = avail.idx
  BY <1>2, <1>3, NextInRange, VirtQueueAssumption
  DEF IInv, TypeOK, Indices, Last, Waiting, Published
<1>6. /\ device' \in DeviceType /\ device'.at = "fetched" /\ device'.next = avail.idx
      /\ device'.serial = Last
  BY <1>4, <1>5, FetchedDevice, Zenon DEF IInv, TypeOK, DeviceType
<1>7. TypeOK'
  BY <1>1, <1>6, Zenon DEF IInv, TypeOK, DeviceType
<1>8. InfoFirst'
  BY <1>1, <1>2, InfoStays DEF IInv
<1>9. Published'
  BY <1>1, <1>2, <1>3, <1>6 DEF Published, Waiting, Fetched, Last
<1>10. Phases'
  BY <1>1, <1>2, <1>3, <1>9, PreparedStays DEF Phases
<1> QED BY <1>7, <1>8, <1>10 DEF IInv

LEMMA DeviceFindsNothingIInv == IInv /\ DeviceFindsNothing => IInv'
<1> SUFFICES ASSUME IInv, DeviceFindsNothing PROVE IInv'
  OBVIOUS
<1>1. /\ device' = [device EXCEPT !.notified = FALSE]
      /\ UNCHANGED << desc, avail, used, buffers, descriptor_index, todo, pc, head, used_idx,
                      response, log_terminal, gpu, executed >>
  BY Zenon DEF DeviceFindsNothing, queueVars, driverVars
<1>2. TypeOK'
  BY <1>1, NotifiedDevice, Zenon DEF IInv, TypeOK, DeviceType
<1>3. device'.at = device.at /\ device'.next = device.next /\ device'.serial = device.serial
  BY <1>1, NotifiedDevice, Zenon DEF IInv, TypeOK, DeviceType
<1>4. InfoFirst'
  BY <1>1 DEF IInv, InfoFirst
<1>5. Phases'
  BY <1>1, <1>3 DEF IInv, Phases, Prepared, Whole, Published, Waiting, Fetched, Executed,
                    Complete, Quiet, Answered, Last
<1> QED BY <1>2, <1>4, <1>5 DEF IInv

\* The device works only on the command that is under way.
LEMMA WorkIsUnderWay ==
  ASSUME IInv, device.at # "idle"
  PROVE  /\ pc \in {"notify", "wait"} /\ Prepared /\ Published
         /\ Fetched \/ Executed
<1>1. pc \in {"notify", "wait", "check"} /\ ~Quiet /\ ~Complete /\ ~Waiting
  BY DEF IInv, TypeOK, Phases, Quiet, Complete, Waiting
<1> QED BY <1>1 DEF IInv, Phases, Published

\* An answer changes no other part of the buffers and is added to the history.
LEMMA AnswerIsWritten ==
  ASSUME IInv, NEW answer \in {"ok", "error"}, Last > 0, Len(executed) = Last - 1,
         buffers' = [buffers EXCEPT ![Last].answer = answer],
         executed' = Append(executed, [cmd |-> buffers[Last].cmd, answer |-> answer])
  PROVE  /\ buffers' \in Seq([cmd : Commands, answer : {"none", "ok", "error"}])
         /\ executed' \in Seq([cmd : Commands, answer : {"ok", "error"}])
         /\ Last' = Last
         /\ \A i \in 1 .. Last : buffers'[i].cmd = buffers[i].cmd
         /\ Len(executed') = Last
         /\ executed'[Last] = [cmd |-> buffers[Last].cmd, answer |-> answer]
         /\ buffers'[Last].answer = answer
<1> DEFINE B == [cmd : Commands, answer : {"none", "ok", "error"}]
           E == [cmd : Commands, answer : {"ok", "error"}]
           new == [buffers[Last] EXCEPT !.answer = answer]
           entry == [cmd |-> buffers[Last].cmd, answer |-> answer]
<1>1. buffers \in Seq(B) /\ executed \in Seq(E) /\ Last \in 1 .. Len(buffers)
  BY DEF IInv, TypeOK, Last
<1>2. buffers[Last] \in B
  BY <1>1, ElementOfSeq
<1>3. /\ new \in B /\ new.answer = answer /\ new.cmd = buffers[Last].cmd
      /\ entry \in E
  BY <1>2
<1>4. buffers' = [buffers EXCEPT ![Last] = new] /\ executed' = Append(executed, entry)
  OBVIOUS
<1> HIDE DEF B, E, new, entry
<1>5. /\ buffers' \in Seq(B) /\ Len(buffers') = Len(buffers)
      /\ \A i \in 1 .. Len(buffers) : buffers'[i] = IF i = Last THEN new ELSE buffers[i]
  <2>1. LET t == [buffers EXCEPT ![Last] = new]
        IN  /\ t \in Seq(B) /\ Len(t) = Len(buffers)
            /\ \A i \in 1 .. Len(buffers) : t[i] = IF i = Last THEN new ELSE buffers[i]
    BY <1>1, <1>3, ReplacedInSeq
  <2> QED BY <1>4, <2>1, Zenon
<1>6. /\ executed' \in Seq(E) /\ Len(executed') = Len(executed) + 1
      /\ executed'[Len(executed) + 1] = entry
  BY <1>1, <1>3, <1>4
<1>7. Len(executed) + 1 = Last /\ Last = Len(buffers)
  BY <1>1 DEF Last
<1>8. Last' = Last /\ Len(executed') = Last /\ executed'[Last] = entry
  BY <1>5, <1>6, <1>7 DEF Last
<1>9. /\ \A i \in 1 .. Last : buffers'[i].cmd = buffers[i].cmd
      /\ buffers'[Last].answer = answer
  BY <1>1, <1>3, <1>5, <1>7
<1> QED BY <1>5, <1>6, <1>8, <1>9 DEF B, E, entry

LEMMA DeviceExecuteIInv ==
  ASSUME IInv, NEW answer \in {"ok", "error"}, DeviceExecute(answer)
  PROVE  IInv'
<1>1. /\ device.at = "fetched" /\ device' = [device EXCEPT !.at = "executed"]
      /\ UNCHANGED << desc, avail, used, descriptor_index, todo, pc, head, used_idx,
                      response, log_terminal >>
  BY Zenon DEF DeviceExecute, driverVars
<1>2. pc \in {"notify", "wait"} /\ Prepared /\ Published /\ Fetched
  BY <1>1, WorkIsUnderWay DEF Executed
<1>3. Last > 0 /\ Len(executed) = Last - 1 /\ device.serial = Last
  BY <1>2 DEF Prepared, Fetched
<1>4. /\ buffers' = [buffers EXCEPT ![Last].answer = answer]
      /\ executed' = Append(executed, [cmd |-> buffers[Last].cmd, answer |-> answer])
  BY <1>3 DEF DeviceExecute
<1>5. /\ buffers' \in Seq([cmd : Commands, answer : {"none", "ok", "error"}])
      /\ executed' \in Seq([cmd : Commands, answer : {"ok", "error"}])
      /\ Last' = Last
      /\ \A i \in 1 .. Last : buffers'[i].cmd = buffers[i].cmd
      /\ Len(executed') = Last
      /\ executed'[Last] = [cmd |-> buffers[Last].cmd, answer |-> answer]
      /\ buffers'[Last].answer = answer
  BY <1>3, <1>4, AnswerIsWritten
<1>6. /\ device' \in DeviceType
      /\ device'.at = "executed" /\ device'.next = device.next
  BY <1>1, MovedDevice, Zenon DEF IInv, TypeOK, DeviceType
<1>7. gpu' \in [resource : BOOLEAN, backing : BOOLEAN]
  BY Zenon DEF DeviceExecute
<1>8. TypeOK'
  BY <1>1, <1>5, <1>6, <1>7, Zenon DEF IInv, TypeOK, DeviceType
<1>9. InfoFirst'
  BY <1>1, <1>2, InfoStays DEF IInv
<1>10. Last \in 1 .. Last
  BY <1>3 DEF IInv, TypeOK, Last
<1>11. Prepared'
  BY <1>1, <1>2, <1>5, <1>10 DEF Prepared, Whole
<1>12. Published'
  <2>1. Executed'
    BY <1>1, <1>2, <1>5, <1>6 DEF Executed, Answered, Fetched
  <2> QED BY <1>1, <1>2, <2>1 DEF Published
<1>13. Phases'
  BY <1>1, <1>2, <1>11, <1>12 DEF Phases
<1> QED BY <1>8, <1>9, <1>13 DEF IInv

LEMMA DeviceCompleteIInv == IInv /\ DeviceComplete => IInv'
<1> SUFFICES ASSUME IInv, DeviceComplete PROVE IInv'
  OBVIOUS
<1>1. /\ device.at = "executed" /\ device' = [device EXCEPT !.at = "idle"]
      /\ used' = (used + 1) % IdxSpace
      /\ UNCHANGED << desc, avail, buffers, descriptor_index, todo, pc, head, used_idx,
                      response, log_terminal, gpu, executed >>
  BY Zenon DEF DeviceComplete, driverVars
<1>2. pc \in {"notify", "wait"} /\ Prepared /\ Published /\ Executed
  BY <1>1, WorkIsUnderWay DEF Fetched
<1>3. used' = avail.idx /\ used' \in Indices
  BY <1>1, <1>2 DEF IInv, TypeOK, Executed, Published
<1>4. /\ device' \in DeviceType
      /\ device'.at = "idle" /\ device'.next = device.next
  BY <1>1, MovedDevice, Zenon DEF IInv, TypeOK, DeviceType
<1>5. TypeOK'
  BY <1>1, <1>3, <1>4, Zenon DEF IInv, TypeOK, DeviceType
<1>6. InfoFirst'
  BY <1>1, <1>2, InfoStays DEF IInv
<1>7. Published'
  <2>1. Complete'
    BY <1>1, <1>2, <1>3, <1>4 DEF Complete, Quiet, Executed, Answered, Last
  <2> QED BY <1>1, <1>2, <2>1 DEF Published
<1>8. Phases'
  BY <1>1, <1>2, <1>7, PreparedStays DEF Phases
<1> QED BY <1>5, <1>6, <1>8 DEF IInv

-----------------------------------------------------------------------------
\* Every step of the driver and of the device keeps the invariant.
LEMMA NextIInv == IInv /\ [Next]_vars => IInv'
<1> SUFFICES ASSUME IInv, [Next]_vars PROVE IInv'
  OBVIOUS
<1>1. CASE Driver
  BY <1>1, InitTerminalIInv, PrintfIInv, LogIInv, LogReturnsIInv, FillDescriptorsIInv,
     ReadUsedIInv, PublishHeadIInv, PublishIndexIInv, NotifyIInv, WaitIInv, CheckResponseIInv,
     Zenon DEF Driver
<1>2. CASE Device
  BY <1>2, DeviceFetchIInv, DeviceFindsNothingIInv, DeviceExecuteIInv, DeviceCompleteIInv,
     Zenon DEF Device
<1>3. CASE UNCHANGED vars
  <2>1. UNCHANGED << desc, avail, used, buffers, descriptor_index, todo, pc, head, used_idx,
                     response, log_terminal, device, gpu, executed >>
    BY <1>3, Zenon DEF vars, queueVars, driverVars, deviceVars
  <2>2. TypeOK'
    BY <2>1 DEF IInv, TypeOK
  <2>3. InfoFirst'
    BY <2>1 DEF IInv, InfoFirst
  <2>4. Phases'
    BY <2>1 DEF IInv, Phases, Prepared, Whole, Published, Waiting, Fetched, Executed,
                Complete, Quiet, Answered, Last
  <2> QED BY <2>2, <2>3, <2>4 DEF IInv
<1> QED BY <1>1, <1>2, <1>3, Zenon DEF Next

\* In every behaviour the driver and the device are where IInv says.
THEOREM QueueInvariant == Spec => []IInv
<1> QED BY InitIInv, NextIInv, PTL DEF Spec

\* The variables keep their types: indices stay in range however often the
\* rings and the counters wrap, and the answer of a command is always read
\* from a buffer that exists.
THEOREM QueueTypes == Spec => []TypeOK
<1>1. IInv => TypeOK
  BY DEF IInv
<1> QED BY <1>1, QueueInvariant, PTL

\* The device is never broken, because it follows a chain of descriptors only
\* when a command waits, whose chain is whole.
THEOREM NoTornChain == Spec => []ChainsAreWhole
<1>1. IInv => ChainsAreWhole
  BY WorkIsUnderWay DEF ChainsAreWhole, Fetched, Executed
<1> QED BY <1>1, QueueInvariant, PTL

-----------------------------------------------------------------------------
\* A step that keeps what the channel sees.
LEMMA ChannelStutters ==
  ASSUME UNCHANGED << executed, response >>,
         \/ UnderWay /\ UnderWay' /\ buffers' = buffers
         \/ ~UnderWay /\ ~UnderWay'
  PROVE  UNCHANGED Channel!vars
<1>1. (IF UnderWay THEN buffers[Len(buffers)].cmd ELSE "none")'
        = IF UnderWay THEN buffers[Len(buffers)].cmd ELSE "none"
  OBVIOUS
<1>2. (UnderWay /\ Len(executed) = Len(buffers))'
        = (UnderWay /\ Len(executed) = Len(buffers))
  OBVIOUS
<1> QED BY <1>1, <1>2, Zenon DEF Channel!vars

LEMMA DriverImplements ==
  IInv /\ Driver /\ IInv' => Channel!Next \/ UNCHANGED Channel!vars
<1> SUFFICES ASSUME IInv, Driver, IInv'
             PROVE  Channel!Next \/ UNCHANGED Channel!vars
  OBVIOUS
<1>1. CASE InitTerminal \/ Printf \/ Log \/ LogReturns
  <2>1. pc = "run" /\ UNCHANGED << pc, executed, response >>
    BY <1>1, Zenon
    DEF InitTerminal, Printf, Log, LogReturns, Starts, queueVars, deviceVars
  <2> QED BY <2>1, ChannelStutters DEF UnderWay
<1>2. CASE FillDescriptors \/ ReadUsed \/ PublishHead
  <2>1. /\ pc \in {"run", "snapshot", "ring"} /\ pc' \in {"snapshot", "ring", "index"}
        /\ UNCHANGED << executed, response >>
    BY <1>2 DEF FillDescriptors, ReadUsed, PublishHead, deviceVars
  <2> QED BY <2>1, ChannelStutters DEF UnderWay
<1>3. CASE PublishIndex
  <2>1. /\ pc = "index" /\ pc' = "notify" /\ UNCHANGED << executed, response, buffers >>
    BY <1>3 DEF PublishIndex, deviceVars
  <2>2. ~UnderWay /\ UnderWay'
    BY <2>1 DEF UnderWay
  <2>3. Len(executed) # Len(buffers) /\ buffers[Len(buffers)].cmd \in Commands
    BY <2>1 DEF IInv, Phases, Prepared, Last, TypeOK
  <2>4. Channel!Call(buffers[Len(buffers)].cmd)
    BY <2>1, <2>2, <2>3, Zenon DEF Channel!Call
  <2> QED BY <2>3, <2>4, Zenon DEF Channel!Next
<1>4. CASE Notify \/ Wait
  <2>1. /\ pc \in {"notify", "wait"} /\ pc' \in {"wait", "check"}
        /\ UNCHANGED << executed, response, buffers >>
    BY <1>4 DEF Notify, Wait, queueVars, deviceVars
  <2> QED BY <2>1, ChannelStutters DEF UnderWay
<1>5. CASE CheckResponse
  <2>1. /\ pc = "check" /\ pc' \in {"run", "overflow"} /\ UNCHANGED << executed, buffers >>
        /\ response' = buffers[Last].answer
    BY <1>5 DEF CheckResponse, queueVars, deviceVars, Last
  <2>2. UnderWay /\ ~UnderWay'
    BY <2>1 DEF UnderWay
  <2>3. /\ Len(executed) = Len(buffers)
        /\ executed[Len(executed)].answer = buffers[Last].answer
    BY <2>1 DEF IInv, Phases, Complete, Answered, Last
  <2>4. Channel!Return
    BY <2>1, <2>2, <2>3, Zenon DEF Channel!Return
  <2> QED BY <2>4, Zenon DEF Channel!Next
<1> QED BY <1>1, <1>2, <1>3, <1>4, <1>5, Zenon DEF Driver

LEMMA DeviceImplements ==
  IInv /\ Device /\ IInv' => Channel!Next \/ UNCHANGED Channel!vars
<1> SUFFICES ASSUME IInv, Device, IInv'
             PROVE  Channel!Next \/ UNCHANGED Channel!vars
  OBVIOUS
<1>1. CASE DeviceFetch \/ DeviceFindsNothing
  <2>1. UNCHANGED << pc, executed, response, buffers >>
    BY <1>1, Zenon DEF DeviceFetch, DeviceFindsNothing, queueVars, driverVars
  <2> QED BY <2>1, ChannelStutters DEF UnderWay
<1>2. CASE DeviceComplete
  <2>1. UNCHANGED << pc, executed, response, buffers >>
    BY <1>2, Zenon DEF DeviceComplete, driverVars
  <2> QED BY <2>1, ChannelStutters DEF UnderWay
<1>3. ASSUME NEW answer \in {"ok", "error"}, DeviceExecute(answer)
      PROVE  Channel!Next
  <2>1. device.at = "fetched" /\ UNCHANGED << pc, response >>
    BY <1>3, Zenon DEF DeviceExecute, driverVars
  <2>2. pc \in {"notify", "wait"} /\ Prepared /\ Fetched
    BY <2>1, WorkIsUnderWay DEF Executed
  <2>3. /\ buffers' = [buffers EXCEPT ![Last].answer = answer]
        /\ executed' = Append(executed, [cmd |-> buffers[Last].cmd, answer |-> answer])
    BY <1>3, <2>2 DEF DeviceExecute, Fetched
  <2>4. Last > 0 /\ Len(executed) = Last - 1 /\ Last \in 1 .. Last
    BY <2>2 DEF Prepared, Fetched, IInv, TypeOK, Last
  <2>5. /\ Last' = Last /\ buffers'[Last].cmd = buffers[Last].cmd
        /\ Len(executed') = Last
    BY <2>3, <2>4, AnswerIsWritten
  <2>6. UnderWay /\ UnderWay'
    BY <2>1, <2>2 DEF UnderWay
  <2>7. Len(executed) # Len(buffers) /\ buffers[Len(buffers)].cmd # "none"
    BY <2>2, <2>4 DEF Prepared, Commands, Last
  <2>8. Len(executed') = Len(buffers') /\ buffers'[Len(buffers')].cmd = buffers[Len(buffers)].cmd
    BY <2>5 DEF Last
  <2>9. executed' = Append(executed, [cmd |-> buffers[Len(buffers)].cmd, answer |-> answer])
    BY <2>3 DEF Last
  <2>10. Channel!Execute(answer)
    BY <2>1, <2>6, <2>7, <2>8, <2>9, Zenon DEF Channel!Execute
  <2> QED BY <2>10, Zenon DEF Channel!Next
<1> QED BY <1>1, <1>2, <1>3, Zenon DEF Device

\* The queue implements the remote procedure call: each command is carried out
\* once and in order, and its caller returns with its own answer.
THEOREM QueueIsChannel == Spec => ImplementsChannel
<1>1. Init => Channel!Init
  <2> SUFFICES ASSUME Init PROVE Channel!Init
    OBVIOUS
  <2>1. ~UnderWay /\ executed = << >> /\ response = "none"
    BY DEF Init, UnderWay
  <2> QED BY <2>1, Zenon DEF Channel!Init
<1>2. IInv /\ IInv' /\ [Next]_vars => [Channel!Next]_(Channel!vars)
  <2> SUFFICES ASSUME IInv, IInv', [Next]_vars
               PROVE  Channel!Next \/ UNCHANGED Channel!vars
    OBVIOUS
  <2>1. CASE UNCHANGED vars
    <3>1. UNCHANGED << pc, executed, response, buffers >>
      BY <2>1, Zenon DEF vars, queueVars, driverVars, deviceVars
    <3> QED BY <3>1, ChannelStutters DEF UnderWay
  <2> QED BY <2>1, DriverImplements, DeviceImplements, Zenon DEF Next
<1> QED BY <1>1, <1>2, QueueInvariant, PTL DEF Spec, ImplementsChannel, Channel!Spec
-----------------------------------------------------------------------------
(***************************************************************************)
(* Error reports end, unless the set-up of the resource is lost.  What the *)
(* stack of calls holds above the first item that is no transfer, flush or *)
(* return are reports, one for each error so far and at most one log call; *)
(* and every command on it finds what it needs, set up already or by an    *)
(* item in front, so an error needs one of the MaxErrors.                  *)
(***************************************************************************)
Done == pc \in {"notify", "wait", "check"} /\ Len(executed) = Last

\* What the items of s need is there or is set up by an item in front; create
\* and attach are there once, before what they set up.  `done`: the first item's
\* command has been carried out.
Supplied(s, done) ==
  /\ \A j \in 1 .. Len(s) :
       /\ s[j] \in {"attach", "scanout", "transfer", "flush", "printf", "terminal"} =>
            gpu.resource \/ \E i \in 1 .. j - 1 : s[i] = "create"
       /\ s[j] \in {"transfer", "printf", "terminal"} =>
            gpu.backing \/ \E i \in 1 .. j - 1 : s[i] = "attach"
       /\ s[j] = "create" => gpu.resource = (j = 1 /\ done)
       /\ s[j] = "attach" => gpu.backing = (j = 1 /\ done)
  /\ \A c \in {"create", "attach"} : \A i, j \in 1 .. Len(s) :
       s[i] = c /\ s[j] = c => i = j

\* Before the end of a log call there is nothing but what log calls make.
Stacked(s) ==
  \A j \in 1 .. Len(s) : \A i \in 1 .. j - 1 :
    s[j] = "return" => s[i] \in {"transfer", "flush", "return"}

SetUp == (log_terminal => gpu.backing) /\ (gpu.backing => gpu.resource)

Bounded ==
  /\ Depth \in Nat /\ Errors \in Nat
  /\ Depth <= Errors + 1
  /\ Done /\ executed[Last].answer = "error" => Depth <= Errors
  /\ Errors <= MaxErrors

Nested == pc # "overflow" /\ SetUp /\ Supplied(todo, Done) /\ Stacked(todo) /\ Bounded
ReportsEnd == SetupLost \/ Nested

Returns(s) == Cardinality({i \in 1 .. Len(s) : s[i] = "return"})

\* The number of returns, one item after the other.
LEMMA ReturnsOfTail ==
  ASSUME NEW s \in Seq(Items), s # << >>
  PROVE  /\ Returns(s) \in Nat /\ Returns(Tail(s)) \in Nat
         /\ Returns(s) = Returns(Tail(s)) + (IF s[1] = "return" THEN 1 ELSE 0)
<1> DEFINE A == {i \in 1 .. Len(Tail(s)) : Tail(s)[i] = "return"}
           B == {i \in 2 .. Len(s) : s[i] = "return"}
           C == {i \in 1 .. Len(s) : s[i] = "return"}
           f == [i \in A |-> i + 1]
<1>1. Len(s) \in Nat /\ Len(s) > 0 /\ Len(Tail(s)) = Len(s) - 1
  OBVIOUS
<1>2. \A i \in 1 .. Len(Tail(s)) : Tail(s)[i] = s[i + 1]
  BY <1>1
<1>3. IsFiniteSet(1 .. Len(s)) /\ IsFiniteSet(1 .. Len(Tail(s)))
  BY <1>1, FS_Interval
<1>4. A \subseteq 1 .. Len(Tail(s)) /\ B \subseteq 1 .. Len(s)
  BY <1>1
<1>5. IsFiniteSet(A) /\ IsFiniteSet(B)
  BY <1>3, <1>4, FS_Subset
<1>6. \A i \in A : i + 1 \in B
  BY <1>1, <1>2
<1>7. \A b \in B : b - 1 \in A
  BY <1>1, <1>2
<1>8. A \subseteq Int /\ B \subseteq Int
  BY <1>1
<1>9. C = IF s[1] = "return" THEN B \cup {1} ELSE B
  BY <1>1
<1>10. 1 \notin B
  OBVIOUS
<1>11. Returns(Tail(s)) = Cardinality(A) /\ Returns(s) = Cardinality(C)
  BY Zenon DEF Returns
<1> HIDE DEF A, B, C
<1>12. f \in Bijection(A, B)
  <2>1. f \in [A -> B] /\ \A i \in A : f[i] = i + 1
    BY <1>6
  <2>2. \A i, j \in A : f[i] = f[j] => i = j
    BY <1>8, <2>1
  <2>3. \A b \in B : \E i \in A : f[i] = b
    BY <1>7, <1>8, <2>1
  <2> HIDE DEF f
  <2> QED BY <2>1, <2>2, <2>3 DEF Bijection, Injection, Surjection, IsInjective
<1>13. ExistsBijection(A, B)
  BY <1>12, Zenon DEF ExistsBijection
<1>14. Cardinality(A) = Cardinality(B) /\ Cardinality(A) \in Nat /\ Cardinality(B) \in Nat
  BY <1>5, <1>13, FS_Bijection, FS_CardinalityType
<1>15. Cardinality(B \cup {1}) = Cardinality(B) + 1
  BY <1>5, <1>10, FS_AddElement
<1> QED BY <1>9, <1>11, <1>14, <1>15

\* The commands of a report add the return at their end, those of a printf none.
LEMMA ReturnsOfReport ==
  ASSUME NEW s \in Seq(Items)
  PROVE  /\ Returns(s) \in Nat
         /\ Returns(<< "transfer", "flush" >> \o s) = Returns(s)
         /\ Returns(<< "transfer", "flush", "return" >> \o s) = Returns(s) + 1
<1>1. "transfer" \in Items /\ "flush" \in Items /\ "return" \in Items
  BY DEF Items, Commands
<1> DEFINE one(x) == << x >> \o s
           two(x) == << "flush", x >> \o s
           r == << "return" >> \o s
           fr == << "flush" >> \o r
           f == << "flush" >> \o s
<1>2. r \in Seq(Items) /\ r # << >> /\ r[1] = "return" /\ Tail(r) = s
  BY <1>1, SMTT(30)
<1>3. f \in Seq(Items) /\ f # << >> /\ f[1] = "flush" /\ Tail(f) = s
  BY <1>1, SMTT(30)
<1> HIDE DEF r, f
<1>4. fr \in Seq(Items) /\ fr # << >> /\ fr[1] = "flush" /\ Tail(fr) = r
  BY <1>1, <1>2, SMTT(30)
<1> HIDE DEF fr
<1> DEFINE tf == << "transfer" >> \o f
           tfr == << "transfer" >> \o fr
<1>5. tf \in Seq(Items) /\ tf # << >> /\ tf[1] = "transfer" /\ Tail(tf) = f
  BY <1>1, <1>3, SMTT(30)
<1>6. tfr \in Seq(Items) /\ tfr # << >> /\ tfr[1] = "transfer" /\ Tail(tfr) = fr
  BY <1>1, <1>4, SMTT(30)
<1>7. tf = << "transfer", "flush" >> \o s
  BY <1>1, SMTT(30) DEF f
<1>8. tfr = << "transfer", "flush", "return" >> \o s
  BY <1>1, SMTT(30) DEF fr, r
<1> HIDE DEF tf, tfr
<1>9. Returns(s) \in Nat /\ Returns(r) = Returns(s) + 1
  BY <1>2, ReturnsOfTail
<1>10. Returns(f) = Returns(s)
  <2>1. Returns(s) \in Nat /\ Returns(f) = Returns(s) + (IF f[1] = "return" THEN 1 ELSE 0)
    BY <1>3, ReturnsOfTail
  <2> QED BY <1>3, <2>1
<1>11. Returns(fr) = Returns(r)
  <2>1. Returns(r) \in Nat /\ Returns(fr) = Returns(r) + (IF fr[1] = "return" THEN 1 ELSE 0)
    BY <1>4, ReturnsOfTail
  <2> QED BY <1>4, <2>1
<1>12. Returns(tf) = Returns(f)
  <2>1. Returns(f) \in Nat /\ Returns(tf) = Returns(f) + (IF tf[1] = "return" THEN 1 ELSE 0)
    BY <1>5, ReturnsOfTail
  <2> QED BY <1>5, <2>1
<1>13. Returns(tfr) = Returns(fr)
  <2>1. Returns(fr) \in Nat /\ Returns(tfr) = Returns(fr) + (IF tfr[1] = "return" THEN 1 ELSE 0)
    BY <1>6, ReturnsOfTail
  <2> QED BY <1>6, <2>1
<1> QED BY <1>7, <1>8, <1>9, <1>10, <1>11, <1>12, <1>13

-----------------------------------------------------------------------------
\* The first item is done and taken away.
LEMMA SuppliedTail ==
  ASSUME NEW s \in Seq(Items), s # << >>, NEW done, Supplied(s, done),
         s[1] = "create" => gpu.resource, s[1] = "attach" => gpu.backing
  PROVE  Supplied(Tail(s), FALSE)
<1>1. Len(s) \in Nat /\ Len(s) > 0 /\ Len(Tail(s)) = Len(s) - 1
  OBVIOUS
<1>2. \A j \in 1 .. Len(Tail(s)) : Tail(s)[j] = s[j + 1] /\ j + 1 \in 1 .. Len(s) /\ j + 1 # 1
  BY <1>1
<1>3. ASSUME NEW j \in 1 .. Len(Tail(s)), NEW c, \E i \in 1 .. j : s[i] = c
      PROVE  s[1] = c \/ \E i \in 1 .. j - 1 : Tail(s)[i] = c
  <2>1. PICK i \in 1 .. j : s[i] = c
    BY <1>3
  <2>2. CASE i # 1
    <3>1. i - 1 \in 1 .. j - 1 /\ Tail(s)[i - 1] = s[i]
      BY <1>1, <1>2, <2>2
    <3> QED BY <2>1, <3>1
  <2> QED BY <2>1, <2>2
<1>4. \A i, j \in 1 .. Len(Tail(s)) : i + 1 = j + 1 => i = j
  BY <1>1
<1>5. ASSUME NEW j \in 1 .. Len(Tail(s))
      PROVE  /\ Tail(s)[j] = s[j + 1] /\ j + 1 \in 1 .. Len(s) /\ j + 1 # 1
             /\ (j + 1) - 1 = j /\ 1 \in 1 .. Len(s)
  BY <1>1, <1>2
<1>6. ASSUME NEW j \in 1 .. Len(Tail(s)),
             Tail(s)[j] \in {"attach", "scanout", "transfer", "flush", "printf", "terminal"}
      PROVE  gpu.resource \/ \E i \in 1 .. j - 1 : Tail(s)[i] = "create"
  <2>1. gpu.resource \/ \E i \in 1 .. j : s[i] = "create"
    BY <1>5, <1>6 DEF Supplied
  <2> QED BY <1>3, <2>1
<1>7. ASSUME NEW j \in 1 .. Len(Tail(s)), Tail(s)[j] \in {"transfer", "printf", "terminal"}
      PROVE  gpu.backing \/ \E i \in 1 .. j - 1 : Tail(s)[i] = "attach"
  <2>1. gpu.backing \/ \E i \in 1 .. j : s[i] = "attach"
    BY <1>5, <1>7 DEF Supplied
  <2> QED BY <1>3, <2>1
<1>8. ASSUME NEW j \in 1 .. Len(Tail(s))
      PROVE  /\ Tail(s)[j] = "create" => gpu.resource = FALSE
             /\ Tail(s)[j] = "attach" => gpu.backing = FALSE
  BY <1>5 DEF Supplied
<1>9. \A c \in {"create", "attach"} : \A i, j \in 1 .. Len(Tail(s)) :
        Tail(s)[i] = c /\ Tail(s)[j] = c => i = j
  BY <1>4, <1>5 DEF Supplied
<1> QED BY <1>6, <1>7, <1>8, <1>9, Zenon DEF Supplied

LEMMA StackedTail ==
  ASSUME NEW s \in Seq(Items), s # << >>, Stacked(s)
  PROVE  Stacked(Tail(s))
<1>1. Len(s) \in Nat /\ Len(s) > 0 /\ Len(Tail(s)) = Len(s) - 1
  OBVIOUS
<1>2. \A j \in 1 .. Len(Tail(s)) : Tail(s)[j] = s[j + 1] /\ j + 1 \in 1 .. Len(s)
  BY <1>1
<1>3. \A j \in 1 .. Len(Tail(s)) : \A i \in 1 .. j - 1 :
        Tail(s)[i] = s[i + 1] /\ i + 1 \in 1 .. (j + 1) - 1
  BY <1>1, <1>2
<1> QED BY <1>2, <1>3 DEF Stacked

\* Commands come in front that find all they need.
LEMMA ReportKeeps ==
  ASSUME NEW s \in Seq(Items), Supplied(s, FALSE), Stacked(s),
         gpu.backing, gpu.resource,
         NEW r \in {<< "transfer", "flush" >>, << "transfer", "flush", "return" >>}
  PROVE  Supplied(r \o s, FALSE) /\ Stacked(r \o s)
<1> DEFINE n == Len(r)
           t == r \o s
<1>1. n \in {2, 3} /\ \A i \in 1 .. n : r[i] \in {"transfer", "flush", "return"}
  <2>1. CASE r = << "transfer", "flush" >>
    <3>1. \A i \in 1 .. 2 : i = 1 \/ i = 2
      OBVIOUS
    <3> QED BY <2>1, <3>1
  <2>2. CASE r = << "transfer", "flush", "return" >>
    <3>1. \A i \in 1 .. 3 : i = 1 \/ i = 2 \/ i = 3
      OBVIOUS
    <3> QED BY <2>2, <3>1
  <2> QED BY <2>1, <2>2
<1>2. r \in Seq({"transfer", "flush", "return"})
  <2>1. << "transfer", "flush" >> \in Seq({"transfer", "flush", "return"})
    OBVIOUS
  <2>2. << "transfer", "flush", "return" >> \in Seq({"transfer", "flush", "return"})
    OBVIOUS
  <2> QED BY <2>1, <2>2
<1>3. Len(s) \in Nat /\ Len(t) = n + Len(s)
  BY <1>2
<1>4. \A j \in 1 .. Len(t) : t[j] = IF j <= n THEN r[j] ELSE s[j - n]
  BY <1>1, <1>2, <1>3
<1> HIDE DEF n, t
<1>5. \A j \in 1 .. Len(t) : \/ j <= n /\ t[j] \in {"transfer", "flush", "return"}
                             \/ j > n /\ j - n \in 1 .. Len(s) /\ t[j] = s[j - n]
  BY <1>1, <1>3, <1>4
<1>6. ASSUME NEW i \in 1 .. Len(t), NEW j \in 1 .. Len(t), i - n = j - n
      PROVE  i = j
  BY <1>1, <1>3, <1>6
<1>7. Supplied(t, FALSE)
  <2>1. ASSUME NEW j \in 1 .. Len(t)
        PROVE  /\ t[j] = "create" => gpu.resource = (j = 1 /\ FALSE)
               /\ t[j] = "attach" => gpu.backing = (j = 1 /\ FALSE)
    BY <1>5 DEF Supplied
  <2>2. ASSUME NEW c \in {"create", "attach"}, NEW i \in 1 .. Len(t), NEW j \in 1 .. Len(t),
               t[i] = c, t[j] = c
        PROVE  i = j
    <3>1. /\ i - n \in 1 .. Len(s) /\ t[i] = s[i - n]
          /\ j - n \in 1 .. Len(s) /\ t[j] = s[j - n]
      BY <1>5, <2>2
    <3>2. i - n = j - n
      BY <2>2, <3>1 DEF Supplied
    <3> QED BY <1>6, <3>2
  <2> QED BY <2>1, <2>2, Zenon DEF Supplied
<1>8. Stacked(t)
  <2>1. ASSUME NEW j \in 1 .. Len(t), NEW i \in 1 .. j - 1, t[j] = "return"
        PROVE  t[i] \in {"transfer", "flush", "return"}
    <3>1. i \in 1 .. Len(t)
      BY <1>1, <1>3
    <3>2. CASE i > n
      <4>1. i - n \in 1 .. (j - n) - 1 /\ j > n
        BY <1>1, <1>3, <3>1, <3>2
      <4>2. j - n \in 1 .. Len(s) /\ t[j] = s[j - n] /\ t[i] = s[i - n]
        BY <1>1, <1>3, <1>5, <3>1, <3>2, <4>1
      <4> QED BY <2>1, <4>1, <4>2 DEF Stacked
    <3>3. CASE ~(i > n)
      BY <1>5, <3>1, <3>3
    <3> QED BY <3>2, <3>3
  <2> QED BY <2>1, Zenon DEF Stacked
<1> QED BY <1>7, <1>8 DEF t
\* One more answer in the history.
LEMMA ErrorsOfAnswer ==
  ASSUME IInv, NEW e \in [cmd : Commands, answer : {"ok", "error"}],
         executed' = Append(executed, e)
  PROVE  /\ Errors \in Nat
         /\ Errors' = Errors + (IF e.answer = "error" THEN 1 ELSE 0)
         /\ SetupLost => SetupLost'
         /\ e.cmd \in {"create", "attach"} /\ e.answer = "error" => SetupLost'
<1> DEFINE E == {i \in 1 .. Len(executed) : executed[i].answer = "error"}
           n == Len(executed) + 1
<1>1. /\ Len(executed) \in Nat /\ Len(executed') = n /\ executed'[n] = e
      /\ \A i \in 1 .. Len(executed) : executed'[i] = executed[i]
  BY DEF IInv, TypeOK
<1>2. IsFiniteSet(E) /\ n \notin E
  <2>1. IsFiniteSet(1 .. Len(executed))
    BY <1>1, FS_Interval
  <2>2. E \subseteq 1 .. Len(executed) /\ n \notin E
    BY <1>1
  <2> QED BY <2>1, <2>2, FS_Subset
<1>3. Cardinality(E) \in Nat /\ Cardinality(E \cup {n}) = Cardinality(E) + 1
  BY <1>2, FS_CardinalityType, FS_AddElement
<1>4. {i \in 1 .. Len(executed') : executed'[i].answer = "error"}
        = IF e.answer = "error" THEN E \cup {n} ELSE E
  BY <1>1
<1>5. n \in 1 .. Len(executed')
  BY <1>1
<1>6. SetupLost => SetupLost'
  BY <1>1 DEF SetupLost
<1>7. e.cmd \in {"create", "attach"} /\ e.answer = "error" => SetupLost'
  BY <1>1, <1>5 DEF SetupLost
<1>8. /\ Errors = Cardinality(E)
      /\ Errors' = Cardinality({i \in 1 .. Len(executed') : executed'[i].answer = "error"})
  BY Zenon DEF Errors
<1>9. CASE e.answer = "error"
  <2>1. Errors' = Cardinality(E \cup {n})
    BY <1>4, <1>8, <1>9
  <2> HIDE DEF E, n
  <2> QED BY <1>3, <1>6, <1>7, <1>8, <1>9, <2>1
<1>10. CASE e.answer # "error"
  <2>1. Errors' = Cardinality(E)
    BY <1>4, <1>8, <1>10
  <2> HIDE DEF E, n
  <2>2. Errors = Cardinality(E) /\ Cardinality(E) \in Nat
    BY <1>3, <1>8
  <2>3. Errors \in Nat /\ Errors' = Errors + 0
    BY <2>1, <2>2, Z3
  <2> QED BY <1>6, <1>7, <1>10, <2>3
<1> QED BY <1>9, <1>10

LEMMA InitNested == Init => Nested
<1> SUFFICES ASSUME Init PROVE Nested
  OBVIOUS
<1>1. /\ todo = Program /\ pc = "run" /\ log_terminal = FALSE /\ executed = << >>
      /\ gpu = [resource |-> FALSE, backing |-> FALSE]
  BY DEF Init
<1>2. /\ Program \in Seq(Items \ {"return"})
      /\ \A j \in 1 .. Len(Program) : Program[j] # "return"
  BY VirtQueueAssumption, ElementOfSeq
<1>3. SetUp /\ ~Done
  BY <1>1 DEF SetUp, Done
<1>4. Supplied(todo, Done)
  <2>1. gpu.resource = FALSE /\ gpu.backing = FALSE
    BY <1>1
  <2>2. ASSUME NEW j \in 1 .. Len(Program),
               NEW item \in {"attach", "scanout", "transfer", "flush", "printf", "terminal"},
               Program[j] = item
        PROVE  \E i \in 1 .. j - 1 : Program[i] = "create"
    BY <2>2, SetupAssumption DEF Behind
  <2>3. ASSUME NEW j \in 1 .. Len(Program),
               NEW item \in {"transfer", "printf", "terminal"}, Program[j] = item
        PROVE  \E i \in 1 .. j - 1 : Program[i] = "attach"
    BY <2>3, SetupAssumption DEF Behind
  <2>4. \A c \in {"create", "attach"} : \A i, j \in 1 .. Len(Program) :
          Program[i] = c /\ Program[j] = c => i = j
    BY SetupAssumption, Zenon
  <2>5. Supplied(Program, FALSE)
    BY <2>1, <2>2, <2>3, <2>4 DEF Supplied
  <2>6. Done = FALSE
    BY <1>1 DEF Done
  <2> QED BY <1>1, <2>5, <2>6
<1>5. Stacked(todo)
  BY <1>1, <1>2 DEF Stacked
<1>6. Bounded
  <2>1. {i \in 1 .. Len(todo) : todo[i] = "return"} = {}
    BY <1>1, <1>2
  <2>2. {i \in 1 .. Len(executed) : executed[i].answer = "error"} = {}
    BY <1>1
  <2>3. Depth = 0 /\ Errors = 0
    BY <2>1, <2>2, FS_EmptySet DEF Depth, Errors
  <2> QED BY <1>3, <2>3, SetupAssumption, VirtQueueAssumption DEF Bounded
<1> QED BY <1>1, <1>3, <1>4, <1>5, <1>6 DEF Nested

\* What the first item tells when it is none of a report's: no log call is active.
LEMMA FirstIsNoReport ==
  ASSUME todo \in Seq(Items), todo # << >>, Stacked(todo),
         Head(todo) \notin {"transfer", "flush", "return"}
  PROVE  Depth = 0
<1>1. 1 \in 1 .. Len(todo) /\ Head(todo) = todo[1]
  OBVIOUS
<1>2. \A j \in 1 .. Len(todo) : j # 1 => 1 \in 1 .. j - 1
  OBVIOUS
<1>3. {j \in 1 .. Len(todo) : todo[j] = "return"} = {}
  BY <1>1, <1>2 DEF Stacked
<1> QED BY <1>3, FS_EmptySet DEF Depth

\* What the first item needs has been set up.
LEMMA FirstIsSupplied ==
  ASSUME todo \in Seq(Items), todo # << >>, Supplied(todo, Done), SetUp
  PROVE  /\ Head(todo) \in {"attach", "scanout", "transfer", "flush", "printf", "terminal"}
              => gpu.resource
         /\ Head(todo) \in {"transfer", "printf", "terminal"} => gpu.backing
         /\ Head(todo) = "create" => gpu.resource = Done
         /\ Head(todo) = "attach" => gpu.backing = Done
<1>1. 1 \in 1 .. Len(todo) /\ Head(todo) = todo[1] /\ 1 .. 1 - 1 = {}
  OBVIOUS
<1>2. Done \in BOOLEAN
  BY DEF Done
<1>3. ASSUME NEW j \in 1 .. Len(todo), j = 1
      PROVE  1 .. j - 1 = {} /\ (j = 1 /\ Done) = Done
  BY <1>2, <1>3
<1> QED BY <1>1, <1>3 DEF Supplied

-----------------------------------------------------------------------------
\* The callers.  They do not run while a command is under way.
LEMMA CallerKeepsNested ==
  ASSUME IInv, Nested, pc = "run", UNCHANGED << pc, gpu, executed >>,
         log_terminal' => gpu.backing,
         Supplied(todo', FALSE), Stacked(todo'), Depth' \in Nat, Depth' <= Errors + 1
  PROVE  Nested'
<1>1. ~Done /\ ~Done' /\ pc' # "overflow"
  BY DEF Done
<1>2. Errors' = Errors
  BY DEF Errors
<1>3. SetUp' /\ Supplied(todo, Done)'
  BY <1>1 DEF Nested, SetUp, Supplied
<1>4. Bounded'
  BY <1>1, <1>2 DEF Nested, Bounded
<1> QED BY <1>1, <1>3, <1>4 DEF Nested, Stacked

LEMMA CallersNested ==
  ASSUME IInv, Nested, InitTerminal \/ Printf \/ Log \/ LogReturns
  PROVE  Nested'
<1> DEFINE rest == Tail(todo)
<1>1. /\ pc = "run" /\ todo # << >> /\ todo \in Seq(Items)
      /\ UNCHANGED << pc, gpu, executed >>
  BY Zenon DEF InitTerminal, Printf, Log, LogReturns, Starts, IInv, TypeOK, deviceVars
<1>2. ~Done
  BY <1>1 DEF Done
<1>3. /\ Head(todo) \in {"printf", "terminal"} => gpu.resource /\ gpu.backing
      /\ Head(todo) = "attach" => ~gpu.backing
  BY <1>1, <1>2, FirstIsSupplied DEF Nested
<1>4. Head(todo) \in {"terminal", "printf", "log", "return"}
  BY Zenon DEF InitTerminal, Printf, Log, LogReturns, Starts
<1>5. rest \in Seq(Items) /\ Supplied(rest, FALSE) /\ Stacked(rest)
  <2>1. Head(todo) = todo[1] /\ rest \in Seq(Items)
    BY <1>1
  <2>2. todo[1] # "create" /\ todo[1] # "attach"
    BY <1>4, <2>1
  <2>3. Supplied(todo, Done) /\ Stacked(todo)
    BY DEF Nested
  <2>4. Supplied(rest, FALSE)
    BY <1>1, <2>2, <2>3, SuppliedTail
  <2> QED BY <1>1, <2>1, <2>3, <2>4, StackedTail
<1>6. /\ Depth = Returns(todo) /\ Returns(rest) \in Nat
      /\ Returns(todo) = Returns(rest) + (IF Head(todo) = "return" THEN 1 ELSE 0)
  <2>1. Head(todo) = todo[1] /\ Depth = Returns(todo)
    BY <1>1 DEF Depth, Returns
  <2> QED BY <1>1, <2>1, ReturnsOfTail
<1>7. Depth' = Returns(todo')
  BY Zenon DEF Depth, Returns
<1> HIDE DEF rest
<1>8. Depth <= Errors + 1 /\ Errors \in Nat /\ Depth \in Nat
  BY DEF Nested, Bounded
<1>9. CASE InitTerminal
  <2>1. todo' = rest /\ Head(todo) = "terminal"
    BY <1>9 DEF InitTerminal, Starts, rest
  <2> QED BY <1>1, <1>3, <1>5, <1>6, <1>7, <1>8, <2>1, CallerKeepsNested
<1>10. CASE LogReturns
  <2>1. todo' = rest /\ Head(todo) = "return" /\ log_terminal' = log_terminal
    BY <1>10 DEF LogReturns, Starts, rest
  <2> QED BY <1>1, <1>5, <1>6, <1>7, <1>8, <2>1, CallerKeepsNested DEF Nested, SetUp
<1>11. CASE Printf
  <2>1. /\ todo' = << "transfer", "flush" >> \o rest /\ Head(todo) = "printf"
        /\ log_terminal' = log_terminal
    BY <1>11 DEF Printf, Starts, rest
  <2>2. Supplied(todo', FALSE) /\ Stacked(todo')
    BY <1>3, <1>5, <2>1, ReportKeeps
  <2>3. Returns(todo') = Returns(rest)
    BY <1>5, <2>1, ReturnsOfReport
  <2> QED BY <1>1, <1>6, <1>7, <1>8, <2>1, <2>2, <2>3, CallerKeepsNested DEF Nested, SetUp
<1>12. CASE Log
  <2>1. /\ todo' = Logging(rest) /\ Head(todo) = "log" /\ log_terminal' = log_terminal
    BY <1>12 DEF Log, Starts, rest
  <2>2. Depth = 0
    BY <1>1, <2>1, FirstIsNoReport DEF Nested
  <2>3. CASE log_terminal
    <3>1. todo' = << "transfer", "flush", "return" >> \o rest /\ gpu.backing /\ gpu.resource
      BY <2>1, <2>3 DEF Logging, Nested, SetUp
    <3>2. Supplied(todo', FALSE) /\ Stacked(todo')
      BY <1>5, <3>1, ReportKeeps
    <3>3. Returns(todo') = Returns(rest) + 1
      BY <1>5, <3>1, ReturnsOfReport
    <3> QED BY <1>1, <1>6, <1>7, <1>8, <2>1, <2>2, <3>1, <3>2, <3>3, CallerKeepsNested
  <2>4. CASE ~log_terminal
    <3>1. todo' = rest
      BY <2>1, <2>4 DEF Logging
    <3> QED BY <1>1, <1>5, <1>6, <1>7, <1>8, <2>1, <2>4, <3>1, CallerKeepsNested
  <2> QED BY <2>3, <2>4
<1> QED BY <1>9, <1>10, <1>11, <1>12

-----------------------------------------------------------------------------
\* A step inside a command that neither carries it out nor ends it.
LEMMA InsideKeepsNested ==
  ASSUME Nested, UNCHANGED << todo, log_terminal, gpu, executed >>, pc' # "overflow",
         Done' = Done
  PROVE  Nested'
<1>1. Depth' = Depth /\ Errors' = Errors
  BY DEF Depth, Errors
<1>2. SetUp' /\ Supplied(todo, Done)' /\ Stacked(todo)'
  BY DEF Nested, SetUp, Supplied, Stacked
<1>3. Bounded'
  <2>1. Done => executed'[Last'] = executed[Last]
    BY DEF Done
  <2> QED BY <1>1, <2>1 DEF Nested, Bounded
<1> QED BY <1>2, <1>3 DEF Nested

LEMMA InsideNested ==
  ASSUME IInv, Nested,
         \/ FillDescriptors \/ ReadUsed \/ PublishHead \/ PublishIndex \/ Notify \/ Wait
         \/ DeviceFetch \/ DeviceFindsNothing \/ DeviceComplete
  PROVE  Nested'
<1>1. CASE FillDescriptors \/ ReadUsed \/ PublishHead
  <2>1. /\ pc \in {"run", "snapshot", "ring"} /\ pc' \in {"snapshot", "ring", "index"}
        /\ UNCHANGED << todo, log_terminal, gpu, executed >>
    BY <1>1 DEF FillDescriptors, ReadUsed, PublishHead, deviceVars
  <2> QED BY <2>1, InsideKeepsNested DEF Done
<1>2. CASE PublishIndex
  <2>1. /\ pc = "index" /\ pc' = "notify"
        /\ UNCHANGED << todo, log_terminal, gpu, executed, buffers >>
    BY <1>2 DEF PublishIndex, deviceVars
  <2>2. Len(executed) # Last /\ Last' = Last
    BY <2>1 DEF IInv, Phases, Prepared, Last, TypeOK
  <2> QED BY <2>1, <2>2, InsideKeepsNested DEF Done
<1>3. CASE Notify \/ Wait
  <2>1. /\ pc \in {"notify", "wait"} /\ pc' \in {"wait", "check"}
        /\ UNCHANGED << todo, log_terminal, gpu, executed, buffers >>
    BY <1>3 DEF Notify, Wait, queueVars, deviceVars
  <2> QED BY <2>1, InsideKeepsNested DEF Done, Last
<1>4. CASE DeviceFetch \/ DeviceFindsNothing \/ DeviceComplete
  <2>1. UNCHANGED << pc, todo, log_terminal, gpu, executed, buffers >>
    BY <1>4, Zenon DEF DeviceFetch, DeviceFindsNothing, DeviceComplete, queueVars, driverVars
  <2>2. pc' # "overflow" /\ Done' = Done
    BY <2>1 DEF Nested, Done, Last
  <2> QED BY <2>1, <2>2, InsideKeepsNested
<1> QED BY <1>1, <1>2, <1>3, <1>4

\* An error without a reason uses up one of MaxErrors; one for a reason does not
\* happen, because every command finds what it needs.
LEMMA DeviceExecuteNested ==
  ASSUME IInv, IInv', Nested, ~SetupLost', NEW answer \in {"ok", "error"},
         DeviceExecute(answer)
  PROVE  Nested'
<1> DEFINE c == Head(todo)
           e == [cmd |-> c, answer |-> answer]
<1>1. device.at = "fetched" /\ UNCHANGED << todo, pc, log_terminal >>
  BY Zenon DEF DeviceExecute, driverVars
<1>2. pc \in {"notify", "wait"} /\ Prepared /\ Fetched
  BY <1>1, WorkIsUnderWay DEF Executed
<1>3. /\ device.serial = Last /\ buffers[Last].cmd = c /\ c \in Commands
      /\ todo # << >> /\ todo \in Seq(Items)
      /\ Len(executed) = Last - 1 /\ Last > 0
  BY <1>2 DEF Prepared, Fetched, IInv, TypeOK
<1>4. /\ answer = "ok" => Accepts(c)
      /\ answer = "error" => ~Accepts(c) \/ Errors < MaxErrors
      /\ gpu' = [resource |-> gpu.resource \/ (c = "create" /\ answer = "ok"),
                 backing |-> gpu.backing \/ (c = "attach" /\ answer = "ok")]
      /\ executed' = Append(executed, e)
      /\ buffers' = [buffers EXCEPT ![Last].answer = answer]
  BY <1>3 DEF DeviceExecute
<1>5. e \in [cmd : Commands, answer : {"ok", "error"}] /\ e.answer = answer /\ e.cmd = c
  BY <1>3
<1>6. e.cmd \in {"create", "attach"} => answer = "ok"
  BY <1>4, <1>5, ErrorsOfAnswer
<1>7. Errors \in Nat /\ Errors' = Errors + (IF answer = "error" THEN 1 ELSE 0)
  BY <1>4, <1>5, ErrorsOfAnswer
<1>8. ~Done /\ Done'
  <2>1. Last' = Last /\ Len(executed') = Last
    BY <1>2, <1>3, <1>4, AnswerIsWritten
  <2> QED BY <1>1, <1>2, <1>3, <2>1 DEF Done, IInv, TypeOK, Last
<1>9. Accepts(c)
  BY <1>3, <1>8, FirstIsSupplied DEF Nested, Accepts, Commands
<1>10. Depth' = Depth
  BY <1>1 DEF Depth
<1>11. executed'[Last'].answer = answer
  <2>1. Last' = Last /\ executed'[Last] = [cmd |-> buffers[Last].cmd, answer |-> answer]
    BY <1>2, <1>3, <1>4, AnswerIsWritten
  <2> QED BY <2>1
<1>12. Bounded'
  <2>1. Bounded /\ MaxErrors \in Nat
    BY VirtQueueAssumption DEF Nested
  <2>2. answer = "error" => Errors < MaxErrors
    BY <1>4, <1>9
  <2>3. executed'[Last'].answer = "error" => answer = "error"
    BY <1>11
  <2>4. Depth' \in Nat /\ Errors' \in Nat /\ Depth' <= Errors' + 1 /\ Errors' <= MaxErrors
    BY <1>7, <1>10, <2>1, <2>2 DEF Bounded
  <2>5. answer = "error" => Depth' <= Errors'
    BY <1>7, <1>10, <2>1 DEF Bounded
  <2> QED BY <2>3, <2>4, <2>5 DEF Bounded
<1>13. SetUp'
  BY <1>1, <1>3, <1>4, <1>5, <1>8, FirstIsSupplied DEF Nested, SetUp
<1>14. Supplied(todo, Done)'
  <2>1. /\ gpu.resource => gpu'.resource
        /\ gpu.backing => gpu'.backing
        /\ gpu'.resource => gpu.resource \/ c = "create"
        /\ gpu'.backing => gpu.backing \/ c = "attach"
        /\ c = "create" => gpu'.resource
        /\ c = "attach" => gpu'.backing
    BY <1>4, <1>5, <1>6
  <2>2. c = todo[1] /\ 1 \in 1 .. Len(todo)
    BY <1>3
  <2>3. \A j \in 1 .. Len(todo) : todo[j] = c /\ c \in {"create", "attach"} => j = 1
    BY <2>2 DEF Nested, Supplied
  <2>4. ASSUME NEW j \in 1 .. Len(todo')
        PROVE  /\ todo'[j] \in {"attach", "scanout", "transfer", "flush", "printf", "terminal"} =>
                    gpu'.resource \/ \E i \in 1 .. j - 1 : todo'[i] = "create"
               /\ todo'[j] \in {"transfer", "printf", "terminal"} =>
                    gpu'.backing \/ \E i \in 1 .. j - 1 : todo'[i] = "attach"
               /\ todo'[j] = "create" => gpu'.resource = (j = 1 /\ Done')
               /\ todo'[j] = "attach" => gpu'.backing = (j = 1 /\ Done')
    <3>1. j \in 1 .. Len(todo) /\ todo' = todo /\ Supplied(todo, Done)
      BY <1>1 DEF Nested
    <3>2. /\ todo[j] \in {"attach", "scanout", "transfer", "flush", "printf", "terminal"} =>
               gpu'.resource \/ \E i \in 1 .. j - 1 : todo[i] = "create"
          /\ todo[j] \in {"transfer", "printf", "terminal"} =>
               gpu'.backing \/ \E i \in 1 .. j - 1 : todo[i] = "attach"
      BY <2>1, <3>1 DEF Supplied
    <3>3. gpu.resource \in BOOLEAN /\ gpu.backing \in BOOLEAN /\ gpu'.resource \in BOOLEAN
          /\ gpu'.backing \in BOOLEAN
      BY DEF IInv, TypeOK
    <3>4. todo[j] = "create" => gpu'.resource = (j = 1 /\ Done')
      <4>1. CASE j = 1
        BY <1>8, <2>1, <2>2, <3>3, <4>1
      <4>2. CASE j # 1
        BY <1>8, <2>1, <2>3, <3>1, <3>3, <4>2 DEF Supplied
      <4> QED BY <4>1, <4>2
    <3>5. todo[j] = "attach" => gpu'.backing = (j = 1 /\ Done')
      <4>1. CASE j = 1
        BY <1>8, <2>1, <2>2, <3>3, <4>1
      <4>2. CASE j # 1
        BY <1>8, <2>1, <2>3, <3>1, <3>3, <4>2 DEF Supplied
      <4> QED BY <4>1, <4>2
    <3> QED BY <3>1, <3>2, <3>4, <3>5, Zenon
  <2> QED BY <1>1, <2>4 DEF Nested, Supplied
<1> QED BY <1>1, <1>2, <1>12, <1>13, <1>14 DEF Nested, Stacked

\* The report of a command that was reported: the stack has room for it.
LEMMA CheckResponseNested ==
  ASSUME IInv, Nested, CheckResponse
  PROVE  Nested'
<1> DEFINE c == Head(todo)
           rest == Tail(todo)
<1>1. /\ pc = "check" /\ response' = buffers[Last].answer
      /\ UNCHANGED << buffers, log_terminal, gpu, executed >>
  BY DEF CheckResponse, queueVars, deviceVars, Last
<1>2. /\ IF Reports(c, response')
           THEN /\ todo' = Logging(rest)
                /\ pc' = IF log_terminal /\ Depth = StackDepth THEN "overflow" ELSE "run"
           ELSE todo' = rest /\ pc' = "run"
  BY DEF CheckResponse
<1>3. Prepared /\ Complete /\ Done
  BY <1>1 DEF IInv, Phases, Complete, Answered, Done
<1>4. todo # << >> /\ todo \in Seq(Items) /\ c \in Commands
  BY <1>3 DEF Prepared, IInv, TypeOK
<1>5. response' = executed[Last].answer /\ response' \in {"ok", "error"}
  <2>1. Last \in 1 .. Len(executed) /\ executed \in Seq([cmd : Commands, answer : {"ok", "error"}])
    BY <1>3 DEF Complete, Answered, Prepared, IInv, TypeOK, Last
  <2>2. executed[Last] \in [cmd : Commands, answer : {"ok", "error"}]
    BY <2>1, ElementOfSeq
  <2> QED BY <1>1, <1>3, <2>2 DEF Complete, Answered
<1>6. /\ c = "create" => gpu.resource
      /\ c = "attach" => gpu.backing
  BY <1>3, <1>4, FirstIsSupplied DEF Nested
<1>7. rest \in Seq(Items) /\ Supplied(rest, FALSE) /\ Stacked(rest)
  <2>1. Head(todo) = todo[1]
    BY <1>4
  <2>2. \A i \in 1 .. Len(todo) : todo[i] = "info" => i = 1
    BY DEF IInv, InfoFirst
  <2> QED BY <1>4, <1>6, <2>1, <2>2, SuppliedTail, StackedTail, RestOfTodo DEF Nested
<1>8. Depth = Returns(todo) /\ Returns(rest) = Returns(todo) /\ Returns(rest) \in Nat
  <2>1. Head(todo) = todo[1] /\ todo[1] # "return"
    BY <1>4 DEF Commands
  <2>2. Depth = Returns(todo)
    BY Zenon DEF Depth, Returns
  <2>3. Returns(rest) \in Nat /\ Returns(todo) = Returns(rest) + 0
    BY <1>4, <2>1, ReturnsOfTail
  <2> QED BY <2>2, <2>3
<1>9. /\ Depth <= Errors + 1 /\ Errors \in Nat /\ Errors <= MaxErrors
      /\ response' = "error" => Depth <= Errors
  BY <1>3, <1>5 DEF Nested, Bounded
<1>10. Depth' = Returns(todo') /\ Errors' = Errors
  BY <1>1 DEF Depth, Returns, Errors
<1> HIDE DEF c, rest
<1>11. SetUp'
  BY <1>1 DEF Nested, SetUp
<1>12. ASSUME pc' = "run", Supplied(todo', FALSE), Stacked(todo'),
              Returns(todo') \in Nat, Returns(todo') <= Errors + 1
       PROVE  Nested'
  <2>1. ~Done'
    BY <1>12 DEF Done
  <2>2. Supplied(todo, Done)' /\ Stacked(todo)'
    BY <1>1, <1>12, <2>1 DEF Supplied, Stacked
  <2>3. Bounded'
    BY <1>9, <1>10, <1>12, <2>1 DEF Bounded
  <2> QED BY <1>11, <1>12, <2>2, <2>3 DEF Nested
<1>13. CASE Reports(c, response') /\ log_terminal
  <2>1. Depth <= Errors
    <3>1. CASE response' = "error"
      BY <1>9, <3>1
    <3>2. CASE response' = "ok"
      <4>1. c \in {"create", "attach", "scanout"}
        BY <1>13, <3>2 DEF Reports
      <4>2. Depth = 0
        BY <1>4, <4>1, FirstIsNoReport DEF Nested, c
      <4> QED BY <1>9, <4>2
    <3> QED BY <1>5, <3>1, <3>2
  <2>2. pc' = "run"
    BY <1>2, <1>8, <1>9, <1>13, <2>1, SetupAssumption, VirtQueueAssumption
  <2>3. todo' = << "transfer", "flush", "return" >> \o rest /\ gpu.backing /\ gpu.resource
    BY <1>2, <1>13 DEF Logging, Nested, SetUp
  <2>4. Supplied(todo', FALSE) /\ Stacked(todo')
    BY <1>7, <2>3, ReportKeeps
  <2>5. Returns(todo') = Returns(rest) + 1
    BY <1>7, <2>3, ReturnsOfReport
  <2> QED BY <1>8, <1>9, <1>12, <2>1, <2>2, <2>4, <2>5
<1>14. CASE ~(Reports(c, response') /\ log_terminal)
  <2>1. todo' = rest /\ pc' = "run"
    BY <1>2, <1>14 DEF Logging
  <2> QED BY <1>7, <1>8, <1>9, <1>12, <2>1
<1> QED BY <1>13, <1>14

LEMMA NextReportsEnd ==
  IInv /\ IInv' /\ ReportsEnd /\ [Next]_vars => ReportsEnd'
<1> SUFFICES ASSUME IInv, IInv', ReportsEnd, [Next]_vars, ~SetupLost'
             PROVE  Nested'
  BY DEF ReportsEnd
<1>1. \/ executed' = executed
      \/ \E e \in [cmd : Commands, answer : {"ok", "error"}] : executed' = Append(executed, e)
  <2>1. CASE Driver
    BY <2>1, Zenon
    DEF Driver, InitTerminal, Printf, Log, LogReturns, FillDescriptors, ReadUsed, PublishHead,
        PublishIndex, Notify, Wait, CheckResponse, deviceVars
  <2>2. CASE DeviceFetch \/ DeviceFindsNothing \/ DeviceComplete \/ UNCHANGED vars
    BY <2>2, Zenon DEF DeviceFetch, DeviceFindsNothing, DeviceComplete, vars, deviceVars
  <2>3. ASSUME NEW answer \in {"ok", "error"}, DeviceExecute(answer)
        PROVE  \E e \in [cmd : Commands, answer : {"ok", "error"}] :
                 executed' = Append(executed, e)
    <3>1. device.at = "fetched"
      BY <2>3, Zenon DEF DeviceExecute
    <3>2. Prepared /\ Fetched
      BY <3>1, WorkIsUnderWay DEF Executed
    <3>3. executed' = Append(executed, [cmd |-> buffers[Last].cmd, answer |-> answer])
      BY <2>3, <3>2 DEF DeviceExecute, Fetched
    <3>4. buffers[Last].cmd \in Commands
      BY <3>2 DEF Prepared
    <3> QED BY <3>3, <3>4
  <2> QED BY <2>1, <2>2, <2>3, Zenon DEF Next, Device
<1>2. ~SetupLost
  <2>1. CASE executed' = executed
    BY <2>1 DEF SetupLost
  <2>2. CASE \E e \in [cmd : Commands, answer : {"ok", "error"}] : executed' = Append(executed, e)
    BY <2>2, ErrorsOfAnswer
  <2> QED BY <1>1, <2>1, <2>2
<1>3. Nested
  BY <1>2 DEF ReportsEnd
<1>4. CASE Driver
  BY <1>3, <1>4, CallersNested, InsideNested, CheckResponseNested, Zenon DEF Driver
<1>5. CASE Device
  BY <1>3, <1>5, InsideNested, DeviceExecuteNested, Zenon DEF Device
<1>6. CASE UNCHANGED vars
  <2>1. UNCHANGED << pc, todo, log_terminal, gpu, executed, buffers >>
    BY <1>6, Zenon DEF vars, queueVars, driverVars, deviceVars
  <2>2. pc' # "overflow" /\ Done' = Done
    BY <1>3, <2>1 DEF Nested, Done, Last
  <2> QED BY <1>3, <2>1, <2>2, InsideKeepsNested
<1> QED BY <1>4, <1>5, <1>6, Zenon DEF Next

\* The stack is used up by nested error reports only when create or attach has
\* failed: otherwise every report finds what it needs, the errors that happen
\* without a reason are at most MaxErrors, and each adds one log call.
THEOREM ReportsDoNotPileUp == Spec => []OverflowOnlyAfterLostSetup
<1>1. Init => ReportsEnd
  BY InitNested DEF ReportsEnd
<1>2. ReportsEnd => OverflowOnlyAfterLostSetup
  BY DEF ReportsEnd, Nested, OverflowOnlyAfterLostSetup
<1> QED BY <1>1, <1>2, NextReportsEnd, QueueInvariant, PTL DEF Spec
=============================================================================
