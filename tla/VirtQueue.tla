----------------------------- MODULE VirtQueue ------------------------------
(***************************************************************************)
(* The command queue of virtio_gpu_driver.cpp between the kernel and the   *)
(* GPU, which run at the same time and share the queue's memory, with the  *)
(* code that issues commands: kernel_main, terminal::printf and the logger *)
(* the driver reports errors to, which prints to that terminal.            *)
(*                                                                         *)
(* A command's buffers are fresh memory of kalloc and never freed: they    *)
(* are the entry of `buffers` with the command's serial number.  Stores    *)
(* become visible to the device in program order, as under run.sh's QEMU;  *)
(* the driver has no barriers that would ensure it elsewhere.  The device  *)
(* follows the VirtIO specification: it may look at the available ring at  *)
(* any time, and must after a notification.                                *)
(***************************************************************************)
EXTENDS Integers, Sequences, FiniteSets

CONSTANTS
  queue_size,  \* descriptors in the queue, read from the device
  IdxSpace,    \* the indices of both rings count modulo 2^16
  Program,     \* what kernel_main does, see Items
  MaxErrors,   \* bound on the commands the device fails without a reason
  StackDepth   \* bound on the logger calls nested on the kernel's stack

Commands == {"info", "create", "attach", "scanout", "transfer", "flush"}

\* terminal: kernel_logger::init_terminal; printf: terminal::printf; log:
\* kernel_logger::log; return: the end of a log call that used the terminal.
Items == Commands \cup {"terminal", "printf", "log", "return"}

ASSUME VirtQueueAssumption ==
  /\ queue_size \in Nat /\ queue_size >= 3
  /\ IdxSpace \in Nat /\ IdxSpace >= 2
  /\ Program \in Seq(Items \ {"return"})
  \* The constructor runs before the functions of the object it makes.
  /\ \A i \in 1 .. Len(Program) : Program[i] = "info" => i = 1
  /\ MaxErrors \in Nat
  /\ StackDepth \in Nat

\* Every `item` of the program comes behind an item `first`.
Behind(item, first) ==
  \A j \in 1 .. Len(Program) : Program[j] = item => \E i \in 1 .. j - 1 : Program[i] = first

\* kernel_main sets the resource up, once, before it is used or the logger gets a
\* terminal to draw with; and the stack is deeper than the errors can nest.
ASSUME SetupAssumption ==
  /\ \A c \in {"create", "attach"} : \A i, j \in 1 .. Len(Program) :
       Program[i] = c /\ Program[j] = c => i = j
  /\ \A item \in {"attach", "scanout", "transfer", "flush", "printf", "terminal"} :
       Behind(item, "create")
  /\ \A item \in {"transfer", "printf", "terminal"} : Behind(item, "attach")
  /\ MaxErrors < StackDepth

Slots == 0 .. queue_size - 1
Indices == 0 .. IdxSpace - 1

VARIABLES
  desc,              \* virtq.desc
  avail,             \* virtq.avail
  used,              \* virtq.used (the driver uses no more than its index)
  buffers,           \* memory of the commands: what is asked, the answer
  descriptor_index,  \* the next descriptor to use
  todo,              \* what is left to do: kernel_main's rest and the callers'
  pc,                \* where the function that issues a command is
  head, used_idx,    \* its variables descriptor_head_idx and used_idx
  response,          \* the answer it has read last
  log_terminal,      \* the logger has a terminal
  device,            \* the device's side of the queue
  gpu,               \* the device's resources
  executed           \* history: the commands the device has carried out

driverVars == << descriptor_index, todo, pc, head, used_idx, response, log_terminal >>
deviceVars == << device, gpu, executed >>
queueVars == << desc, avail, used, buffers >>
vars == << queueVars, driverVars, deviceVars >>

\* A descriptor points to a part of the buffers of a command.  Its flags follow
\* from the part: only the response, the last, is written by the device.
Parts == {"empty", "request", "entry", "response"}
Descriptor == [serial : Nat, part : Parts, next : Slots]

Init ==
  /\ desc = [i \in Slots |-> [serial |-> 0, part |-> "empty", next |-> 0]]
  /\ avail = [idx |-> 0, ring |-> [i \in Slots |-> 0]]
  /\ used = 0
  /\ buffers = << >>
  /\ descriptor_index = 0
  /\ todo = Program
  /\ pc = "run"
  /\ head = 0
  /\ used_idx = 0
  /\ response = "none"
  /\ log_terminal = FALSE
  /\ device = [at |-> "idle", next |-> 0, serial |-> 0, notified |-> FALSE]
  /\ gpu = [resource |-> FALSE, backing |-> FALSE]
  /\ executed = << >>

-----------------------------------------------------------------------------
\* The callers of the driver.
Starts(item) == pc = "run" /\ todo # << >> /\ Head(todo) = item

InitTerminal ==
  /\ Starts("terminal")
  /\ log_terminal' = TRUE
  /\ todo' = Tail(todo)
  /\ UNCHANGED << queueVars, deviceVars, descriptor_index, pc, head, used_idx, response >>

\* terminal::printf draws (see the README), then transfers and flushes.
Printf ==
  /\ Starts("printf")
  /\ todo' = << "transfer", "flush" >> \o Tail(todo)
  /\ UNCHANGED << queueVars, deviceVars, descriptor_index, pc, head, used_idx, response,
                  log_terminal >>

\* kernel_logger::log: printf of the terminal, if there is one, and the UART.
Logging(rest) ==
  IF log_terminal THEN << "transfer", "flush", "return" >> \o rest ELSE rest

Log ==
  /\ Starts("log")
  /\ todo' = Logging(Tail(todo))
  /\ UNCHANGED << queueVars, deviceVars, descriptor_index, pc, head, used_idx, response,
                  log_terminal >>

LogReturns ==
  /\ Starts("return")
  /\ todo' = Tail(todo)
  /\ UNCHANGED << queueVars, deviceVars, descriptor_index, pc, head, used_idx, response,
                  log_terminal >>

-----------------------------------------------------------------------------
\* get_next_descriptor, called once more after slot i was handed out.
get_next_descriptor(i) == (i + 1) % queue_size

\* A mutant of next_field: every command links as the constructor does.
next_field_hard_coded(c, i) == 1

\* The constructor, which asks for the display info, writes the indices of its
\* two descriptors, of the ring's slot and of the counters as constants.
next_field(c, i) == IF c = "info" THEN 1 ELSE get_next_descriptor(i)

\* The two or three descriptors, from d0 on, that command c writes.
Chain(c, serial, d0) ==
  LET d1 == get_next_descriptor(d0)
      d2 == get_next_descriptor(d1)
      request  == [serial |-> serial, part |-> "request", next |-> next_field(c, d0)]
      entry    == [serial |-> serial, part |-> "entry", next |-> next_field(c, d1)]
      answer   == [serial |-> serial, part |-> "response", next |-> 0]
  IN  IF c = "attach"
        THEN [desc EXCEPT ![d0] = request, ![d1] = entry, ![d2] = answer]
        ELSE [desc EXCEPT ![d0] = request, ![d1] = answer]

\* A command starts: it takes descriptors, allocates its buffers and fills them.
FillDescriptors ==
  /\ pc = "run" /\ todo # << >> /\ Head(todo) \in Commands
  /\ LET c  == Head(todo)
         d1 == get_next_descriptor(descriptor_index)
         d2 == get_next_descriptor(d1)
     IN  /\ buffers' = Append(buffers, [cmd |-> c, answer |-> "none"])
         /\ desc' = Chain(c, Len(buffers) + 1, descriptor_index)
         /\ head' = IF c = "info" THEN 0 ELSE descriptor_index
         /\ descriptor_index' = IF c = "attach" THEN get_next_descriptor(d2) ELSE d2
  /\ pc' = "snapshot"
  /\ UNCHANGED << avail, used, todo, used_idx, response, log_terminal, deviceVars >>

\* int used_idx = virtq_used->idx; the constructor compares with 0 instead.
ReadUsed ==
  /\ pc = "snapshot"
  /\ used_idx' = IF Head(todo) = "info" THEN 0 ELSE used
  /\ pc' = "ring"
  /\ UNCHANGED << queueVars, descriptor_index, todo, head, response, log_terminal,
                  deviceVars >>

PublishHead ==
  /\ pc = "ring"
  /\ avail' = [avail EXCEPT
                 !.ring[IF Head(todo) = "info" THEN 0 ELSE avail.idx % queue_size] = head]
  /\ pc' = "index"
  /\ UNCHANGED << desc, used, buffers, descriptor_index, todo, head, used_idx, response,
                  log_terminal, deviceVars >>

\* A mutant of next_index: a counter that does not wrap at 2^16.
next_index_no_wrap(c) == avail.idx + 1

next_index(c) == IF c = "info" THEN 1 ELSE (avail.idx + 1) % IdxSpace

PublishIndex ==
  /\ pc = "index"
  /\ avail' = [avail EXCEPT !.idx = next_index(Head(todo))]
  /\ pc' = "notify"
  /\ UNCHANGED << desc, used, buffers, descriptor_index, todo, head, used_idx, response,
                  log_terminal, deviceVars >>

\* A mutant of Notify: used_idx is read after the device has been told.
Notify_before_snapshot ==
  /\ pc = "notify"
  /\ device' = [device EXCEPT !.notified = TRUE]
  /\ used_idx' = used
  /\ pc' = "wait"
  /\ UNCHANGED << queueVars, descriptor_index, todo, head, response, log_terminal, gpu,
                  executed >>

\* *queue_notify_address = 0
Notify ==
  /\ pc = "notify"
  /\ device' = [device EXCEPT !.notified = TRUE]
  /\ pc' = "wait"
  /\ UNCHANGED << queueVars, descriptor_index, todo, head, used_idx, response, log_terminal,
                  gpu, executed >>

\* A mutant of Wait: the loop is gone.
Wait_not ==
  /\ pc = "wait"
  /\ pc' = "check"
  /\ UNCHANGED << queueVars, descriptor_index, todo, head, used_idx, response, log_terminal,
                  deviceVars >>

\* The end of the loop while (virtq_used->idx == used_idx)
Wait ==
  /\ pc = "wait"
  /\ used # used_idx
  /\ pc' = "check"
  /\ UNCHANGED << queueVars, descriptor_index, todo, head, used_idx, response, log_terminal,
                  deviceVars >>

\* log calls that are active on the stack.
Depth == Cardinality({i \in 1 .. Len(todo) : todo[i] = "return"})

\* A mutant of Reports: the lines "... worked." are no comments.
Reports_success(c, answer) == c # "info"

\* The driver logs the result of every command but the constructor's (there
\* the answer's type is not looked at); of transfer and flush only an error.
Reports(c, answer) == c \in {"create", "attach", "scanout"} \/ (c # "info" /\ answer # "ok")

CheckResponse ==
  /\ pc = "check"
  /\ response' = buffers[Len(buffers)].answer
  /\ IF Reports(Head(todo), response')
       THEN /\ todo' = Logging(Tail(todo))
            /\ pc' = IF log_terminal /\ Depth = StackDepth THEN "overflow" ELSE "run"
       ELSE todo' = Tail(todo) /\ pc' = "run"
  /\ UNCHANGED << queueVars, descriptor_index, head, used_idx, log_terminal, deviceVars >>

-----------------------------------------------------------------------------
\* The device.
\* What it finds when it follows the descriptors from h is a whole command.
Whole(h) ==
  LET d0 == desc[h]
      d1 == desc[d0.next]
      last == IF d1.part = "entry" THEN desc[d1.next] ELSE d1
  IN  /\ d0.part = "request" /\ last.part = "response"
      /\ d1.serial = d0.serial /\ last.serial = d0.serial
      /\ (buffers[d0.serial].cmd = "attach") <=> (d1.part = "entry")

DeviceFetch ==
  /\ device.at = "idle"
  /\ avail.idx # device.next
  /\ LET h == avail.ring[device.next % queue_size]
     IN  device' = [device EXCEPT !.at = IF Whole(h) THEN "fetched" ELSE "broken",
                                  !.next = (@ + 1) % IdxSpace,
                                  !.serial = desc[h].serial]
  /\ UNCHANGED << queueVars, driverVars, gpu, executed >>

\* The queue it was notified about is empty: it stops looking.
DeviceFindsNothing ==
  /\ device.at = "idle"
  /\ device.notified
  /\ avail.idx = device.next
  /\ device' = [device EXCEPT !.notified = FALSE]
  /\ UNCHANGED << queueVars, driverVars, gpu, executed >>

Errors == Cardinality({i \in 1 .. Len(executed) : executed[i].answer = "error"})

\* The resource commands need what the earlier ones have set up.
Accepts(c) ==
  CASE c = "info" -> TRUE
    [] c = "create" -> ~gpu.resource
    [] c = "attach" -> gpu.resource /\ ~gpu.backing
    [] c = "transfer" -> gpu.backing
    [] OTHER -> gpu.resource

DeviceExecute(answer) ==
  /\ device.at = "fetched"
  /\ LET c == buffers[device.serial].cmd
     IN  /\ answer = "ok" => Accepts(c)
         /\ answer = "error" => ~Accepts(c) \/ Errors < MaxErrors
         /\ gpu' = [resource |-> gpu.resource \/ (c = "create" /\ answer = "ok"),
                    backing |-> gpu.backing \/ (c = "attach" /\ answer = "ok")]
         /\ executed' = Append(executed, [cmd |-> c, answer |-> answer])
  /\ buffers' = [buffers EXCEPT ![device.serial].answer = answer]
  /\ device' = [device EXCEPT !.at = "executed"]
  /\ UNCHANGED << desc, avail, used, driverVars >>

DeviceComplete ==
  /\ device.at = "executed"
  /\ used' = (used + 1) % IdxSpace
  /\ device' = [device EXCEPT !.at = "idle"]
  /\ UNCHANGED << desc, avail, buffers, driverVars, gpu, executed >>

-----------------------------------------------------------------------------
Driver ==
  \/ InitTerminal
  \/ Printf
  \/ Log
  \/ LogReturns
  \/ FillDescriptors
  \/ ReadUsed
  \/ PublishHead
  \/ PublishIndex
  \/ Notify
  \/ Wait
  \/ CheckResponse

Device ==
  \/ DeviceFetch
  \/ DeviceFindsNothing
  \/ \E answer \in {"ok", "error"} : DeviceExecute(answer)
  \/ DeviceComplete

Next == Driver \/ Device

Spec == Init /\ [][Next]_vars

\* The CPU runs on, and the device works on what it was notified about.
Fairness ==
  /\ WF_vars(Driver)
  /\ WF_vars(device.notified /\ DeviceFetch)
  /\ WF_vars(\E answer \in {"ok", "error"} : DeviceExecute(answer))
  /\ WF_vars(DeviceComplete)

FairSpec == Spec /\ Fairness

-----------------------------------------------------------------------------
TypeOK ==
  /\ desc \in [Slots -> Descriptor]
  /\ avail \in [idx : Indices, ring : [Slots -> Slots]]
  /\ used \in Indices
  /\ buffers \in Seq([cmd : Commands, answer : {"none", "ok", "error"}])
  /\ descriptor_index \in Slots
  /\ todo \in Seq(Items)
  /\ pc \in {"run", "snapshot", "ring", "index", "notify", "wait", "check", "overflow"}
  /\ head \in Slots
  /\ used_idx \in Indices
  /\ response \in {"none", "ok", "error"}
  /\ log_terminal \in BOOLEAN
  /\ device \in [at : {"idle", "fetched", "executed", "broken"}, next : Indices,
                 serial : Nat, notified : BOOLEAN]
  /\ gpu \in [resource : BOOLEAN, backing : BOOLEAN]
  /\ executed \in Seq([cmd : Commands, answer : {"ok", "error"}])

\* However commands of two and of three descriptors fall on the ring and wrap
\* around it, and whenever the device looks, it finds a whole command there:
\* no descriptor of the chain has been reused, and none belongs to another one.
ChainsAreWhole == device.at # "broken"

\* The queue is a remote procedure call (CommandChannel): every command is
\* carried out once, in the order of the calls, and no function goes on, on an
\* index that has wrapped or an answer that is not there yet, before its own
\* command has been answered.
UnderWay == pc \in {"notify", "wait", "check"}
Channel == INSTANCE CommandChannel WITH
  NoCommand <- "none",
  request   <- IF UnderWay THEN buffers[Len(buffers)].cmd ELSE "none",
  answered  <- UnderWay /\ Len(executed) = Len(buffers),
  done      <- executed,
  result    <- response
ImplementsChannel == Channel!Spec

\* An error report is itself two commands, which can fail as well.  That ends,
\* unless what has failed is the set-up of the resource, without which every
\* later command fails: then the reports nest until the stack is used up.
SetupLost == \E i \in 1 .. Len(executed) :
  executed[i].cmd \in {"create", "attach"} /\ executed[i].answer = "error"
OverflowOnlyAfterLostSetup == pc = "overflow" => SetupLost

\* No function waits for ever: kernel_main comes to its end (or to the stack's).
KernelMainEnds == <>(pc = "overflow" \/ (pc = "run" /\ todo = << >>))

\* kernel_logger.hpp:13: "When using this class make sure you dont introduce
\* any circular dependencies."  So the logger is not called by what it calls.
NoCircularLogging == Depth <= 1
=============================================================================
