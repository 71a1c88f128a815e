# Selfmade OS: TLA+ models, checks and proofs

Selfmade OS is a small bare-metal AArch64 kernel for QEMU's `virt` board. It
runs one CPU without interrupts, so all of the CPU's code is sequential. What
makes it hard to test is elsewhere:

- the MMU code edits the page tables **through** the mapping they define, and
  allocates the pages of new tables from the allocator whose ranges it is
  mapping;
- the VirtIO GPU runs **at the same time** as the CPU and shares the memory of
  the command queue with it;
- errors are reported to a logger, which prints to a terminal, which uses the
  GPU, which reports errors;
- a reset of the machine keeps the contents of RAM;
- the code takes what the device says (BARs, capabilities, features) and checks little of it.

There are no tests in the repository. The references are the code, `README.md`,
`mmu/mmu.md` and the comments.

## 1. Inventory

| Component | State | Operations | Uses | What must hold |
| --- | --- | --- | --- | --- |
| page allocator (`page_allocator/page_bump_allocator.c`) | `current_free` | `palloc`, `palloc_continuous_block`; `pfree` only logs | logger | whole pages; ranges never overlap; a block of table pages lies under one level-3 table |
| MMU (`mmu/mmu.c`) | the page tables in RAM, three temporary tables, SCTLR_EL1.M | `init_mmu`, `map_addr`, `register_device_memory`, `mmu_map_4kb`, `map_page_for_pagetable`, `map_page_for_table_h`, `zero_out_page` | page allocator, UART driver | the mapping is exactly what was asked for; every access of the MMU code is translated; tables and data stay apart |
| kernel allocator (`kernel_allocator/kernel_allocator.c`) | none | `init_kernel_allocator`, `kalloc`; `kfree` is empty | page allocator, MMU | memory is mapped and cleared when `kalloc` returns |
| boot and layout (`boot.s`, `linker.ld`, `kernel.cpp`) | stack, layout | `_start`, `kernel_main` | everything | the start-up comes to its end |
| VirtIO GPU driver (`virtio_gpu_driver/`) | descriptor table, available ring, `descriptor_index`, frame buffer | constructor (handshake, display info), `init_2D_frame_buffer`, `connect_resource_to_memory`, `set_scanout_param`, `transfer_to_host_2d`, `resource_flush`, drawing | PCI driver, `kalloc`, logger; shares the queue with the device | each command is carried out once and answered before its function returns; no chain is torn; no wait is endless |
| kernel logger (`kernel_logs/`) | `log_terminal` | `log`, `vlog`, `init_terminal`, C wrappers | formatting, terminal, UART | no circular use (`kernel_logger.hpp:13`) |
| terminal (`terminal/`) | 40 lines of 80 characters, `head`, `tail` | constructor, `printf` | formatting, GPU driver, `kalloc` | the window shows the last lines in order |
| formatting (`std/formating.c`) | none | `format_string`, integer conversions | none | the text is right, the buffers are large enough |
| PCI driver (`pci_driver/`) | none of its own; the devices' configuration space | `init_pci_driver`, `search_pci_device`, `get_pci_capability`, `BAR_size`, `alloc_bar_memory` | MMU, logger | the right device, capability and address; a BAR is sized without a trace |
| UART driver (`uart_driver/`) | none | `init_uart`, `uart_send`, `put_uart` | MMU, formatting | the register is mapped before it is used; the UART shows what the terminal shows |
| exception vectors (`exceptions/`, `boot.s`) | none | 16 handlers that log | logger | its report reaches the monitor; it does not fault itself |
| free-list allocator | not built, unfinished | | | |
| debugging helpers (`.gdbinit`, `run*.sh`) | none | `reload`, `reset` | the machine | a reset is a start from the beginning |

Interaction is by function call, except for three places of shared state: the
bump pointer (shared by `kalloc` and the MMU), the page tables (shared by the
MMU code and the hardware that walks them) and the queue (shared by the driver
and the device). `PROJECT.json` lists the hazards at their lines.

## 2. Modules

| Module | Models | Section |
| --- | --- | --- |
| `RangeAllocator` | abstract: what clients need from a page allocator | 3 |
| `PageAllocator` | `page_bump_allocator.c` and `kalloc`'s rounding, byte exact | 3 |
| `PageAllocator_proofs` | theorems about it | 3 |
| `Mmu` | `mmu.c`, `kernel_allocator.c`, `init_uart`, the layout of `linker.ld`, the reset of `.gdbinit` | 4 |
| `Mmu_proofs` | theorems about it: types, tables and data | 4 |
| `MmuMapping_proofs` | theorems about it: what the tables map | 4 |
| `CommandChannel` | abstract: a remote procedure call | 5 |
| `VirtQueue` | the queue code of `virtio_gpu_driver.cpp`, the device, and the callers `kernel_main`, `terminal::printf`, `kernel_logger::log` | 5 |
| `VirtQueue_proofs` | theorems about it | 5 |
| `Drawing` | the drawing functions of `virtio_gpu_driver.cpp`, pixel by pixel | 6 |
| `Terminal` | `terminal.cpp` on `Drawing`, the logger's use of it, failing commands, the handler of a fault | 6 |
| `Terminal_proofs` | theorems about it | 6 |
| `KernelLogger` | `vlog`, `formating.c`, `uart.c` | 7 |
| `KernelLogger_proofs` | theorems about it | 7 |
| `Pci` | `pci_driver.c` and a device's configuration space | 8 |
| `GpuSetup` | the constructor of the GPU driver on `Pci`: handshake and first notification | 8 |
| `GpuSetup_proofs` | theorems about both | 8 |
| `RecursionTheorems` | induction over a set of numbers, existence of recursive functions; for the proofs | 9 |
| `MC...` | values of the constants for TLC | |

| Run | Configuration | Result | Shows |
| --- | --- | --- | --- |
| `page_allocator` | `MCPageAllocator.cfg` | holds, 56,000 states | whole pages, disjoint ranges |
| `page_block` | `MCPageAllocatorBlock.cfg` | violated | a block of tables straddles 2 MB |
| `mmu` | `MCMmu.cfg` | holds, 59,000 states | types, private tables, faults only by the two clashes, exact mapping |
| `mmu_use` | `MCMmuUse.cfg` | violated | `kalloc` faults |
| `mmu_reset` | `MCMmuReset.cfg` | violated | stale tables after a reset |
| `virtqueue` | `MCVirtQueue.cfg` | holds, 20,500 states | the queue is a remote procedure call; the start-up ends |
| `log_cycle` | `MCVirtQueueLog.cfg` | violated | the logger is called by what it calls |
| `terminal` | `MCTerminal.cfg` | holds, 26,000 states | nothing drawn outside, last lines in order, the monitor catches up |
| `terminal_scroll` | `MCTerminalScroll.cfg` | violated | no lines after the ring has wrapped |
| `logger` | `MCKernelLogger.cfg` | holds, 90,000 states | texts, terminators, bytes behind the buffers, what the loop reads |
| `setup` | `MCGpuSetup.cfg` | holds, 16,000 states | the machines that come up, BAR sizing, features |
| `setup_bar` | `MCGpuSetupBar.cfg` | violated | the BAR is not programmed |

Each property of a holding run has a mutant of the code next to the definition
it changes (`PROJECT.json`, `mutants`): with the mutant in place TLC finds the
property violated.

## 3. Page allocator

`PageAllocator` has the variable `current_free` and a history `allocs` of the
ranges handed out. `palloc(size)` is `kalloc`'s call, with the rounding of both
files; `palloc_continuous_block(n)` has its three branches. The heap starts at
a page within `HeapStarts`, because it follows the kernel image.

*Checked* (`MCPageAllocator`: six heap starts, one in the middle of a 2 MB region and
five with one to five pages before its end; sizes 0, 24, a page, a page and a byte, and the frame buffer; five
calls): `WholePages`, and `GrantsAreDisjoint`, the refinement of
`RangeAllocator`. Five calls are enough for a block before, across and after a
boundary with data between; the proofs cover all other sizes and lengths.

*Found*: `pages_left` counts bytes and is compared with pages, so the branch
that moves on to the next 2 MB block is never taken and `BlockInOneL3Table`
(`page_bump_allocator.c:24`) does not hold.

*Proved* (`PageAllocator_proofs`), from the named assumption on the constants:
`AllocatorTypes`, `RangesAreWholePages` and `AllocatorKeepsPromise`. The
inductive invariant adds to the types that the pointer is page aligned and that
every range ends at or below it; a new range starts at or above the pointer,
hence it is apart from all earlier ones.

## 4. MMU

**State.** Addresses are page numbers; a table has `F` entries. The record `m`
is the machine: `mem`, the set of valid descriptors (table, index, target,
attributes) in RAM; `free`, the bump pointer; `on`, whether the MMU is on;
`fault`, what an access has run into; `ret`, the pointer a function returned;
and two histories, `tables` (the pages taken as tables of each level) and
`clash`. `job` is the call that runs, `data`, `image` and `device` are the
pages that were asked for.

**Actions.** The functions of `mmu.c` are operators from one machine state to
the next, composed in the order of the code, so that one call of `mmu_map_4kb`,
with all it calls, is one step: nothing runs between its parts. `MapAddrStep`
and `RegisterDeviceStep` are one round of the two loops; `InitUart`,
`EnableMmu` the rest of `init_mmu`; `kalloc`, `ClearPage`, `Return` the kernel
allocator; `Reset` a reset with RAM kept. `ResetSpec` has `Reset`, `Spec` does not.

**Accesses.** `Touch(s, p)` is an access to page `p`: once the MMU is on it is
translated by the tables of that moment (`Frames`). If nothing is mapped the
access aborts and the model stops; if another page is mapped it stops, too
(`stray`). Every load and store the code makes to a table goes through `Touch`,
which is the point of the model: whether the self-mapping works depends on the
order of the stores.

**The two clashes.** `overwrite`: an entry found free before
`map_page_for_pagetable` is filled by that very call and then overwritten
(`mmu.c:213`, `223`, `235`). `straddle`: the four pages of a block lie under
two level-3 tables, but their entries are written into one.

*Checked* (`MCMmu`: 16 entries per table; RAM, UART, ECAM and BAR in different
level-1 or level-0 entries as on the board; eight heap starts; up to four calls of
one, three or 31 pages or of two devices): `TypeOK`; `TablesPrivate`, no page is both a
table the hardware walks and memory of a caller; `FaultOnlyByClash`, the code
loses access to a page it needs only after one of the two clashes;
`MappingExact`, between calls and as long as no clash has happened, the mapping is one to one and consists of
exactly the initial pages, the image, `kalloc`'s pages and all tables (normal memory) and
the devices (device memory).
Sixteen entries let a few calls cross several level-3 tables and a new level-2
table; the heap starts put blocks at every position before a boundary. Behaviours
with a clash and without a fault, with a fault after a straddle, and
without any clash across several tables all occur. On this layout RAM lies under one level-1
table, as on the board, so the paths that link a *new level-1 or level-2 table
for a block* (`FillL0`, `FillL1`) are not taken; a layout that takes them is
planned.

*Found*: `MappedBeforeUse` (`mmu.md:9`) fails where the first page `kalloc` maps
opens a new 2 MB region in which the block for its table lies as well. After a
reset (`mmu_reset`) `TablesPrivate` fails: new tables are not cleared
(`mmu.c:357`), and the entries RAM has kept from the boot before are walked.

*Proved* (`Mmu_proofs`) for `Spec` and every table size, layout, list of devices and of
requests that satisfies `MmuAssumption`: `MmuTypes` and `TablesStayPrivate`.
`TablesPrivate` alone is not inductive: nothing in it says that what a level-2
entry points to is a level-3 table, or that a new page has no entries yet. The
invariant `IInv` adds `Good`: the pages taken as tables are sorted into four
disjoint levels below the bump pointer, each valid descriptor lies in one of
them and, above level 3, points one level down; and `DataApart`: what `kalloc`
has reserved is below the pointer and in none of them. The proof goes up the
operators: accesses keep `Good`; linking and filling let it grow by pages of
the new block only (`Grown`); a whole `mmu_map_4kb` advances it (`Advances`)
taking tables only from above the old pointer; so no page reserved before
becomes a table. All tables the hardware reaches are tables in this sense. The proof
does not need the absence of clashes: even then tables and data do not mix. That it fails after a reset shows
that the assumption it uses, RAM without descriptors at boot, is needed.

*Proved* (`MmuMapping_proofs`), from the assumption `LayoutAssumption`, too, that one
level-1 entry covers the image and the heap and no registers of a device
(`Reach`, as on the board: 1 GB from `BASE_ADDRESS`): `FaultsOnlyByClash` and
`ExactMapping`. Both say something of the states with `m.free <= RamEnd`, since
nothing in the code keeps the allocator from running out of RAM and into the
addresses of the next entry; `linker.ld` ends the heap after a quarter of it, and the
run never gets there. The invariant `MapInv` has three parts.

1. *The tables are a tree, and every table has its place* (`Shape`). `at[t]` is what is
   left of the addresses a table translates when the indices into it and below
   are dropped. It is a witness, not a variable: `Placed` says that every entry
   points to what belongs to the place of its table and its index, a page or
   a table one level down. So an address translates to itself (`PathToEntry`).
   `Ordered` says that the attribute tells the level, that the first two temporary
   tables are out of use outside of a call, and that only linked tables have entries. The third
   temporary table keeps its old entries in `FillL2` (the code clears the first one
   there), which does no harm only because nothing links it: the definitions leave it out.
2. *What is mapped is counted* (`Sound`): as normal memory the seven initial pages, all linked
   tables, and `Asked`, the part of `image` and `data` that is not `Pending` in
   the running call; as device memory `device`. With the first part every table the code accesses is
   mapped at its own address, hence no access of it faults.
3. *The calls ask for the right pages* (`JobSound`).

The main lemma is `MapSound`: `mmu_map_4kb` on a sound machine notes a clash or leaves a
sound machine with one page more. It rests on `NextTableSound`, one level of the walk, whose
hard case is a new level-3 table under `L2` for the block that has just been allocated: the
seven stores of `FillL2` are followed one by one, through the temporary table that makes
the new one accessible. `FillL0` and `FillL1` cannot happen in this layout, which
is proved, not assumed (`NormalIsUnderL2`, `InReach`). After a straddle nothing is claimed.

*Left out*: the TLB
and break-before-make (each access walks), cache and memory attributes other
than normal and device, the log lines, sizes that are not whole pages, the stack pages' own accesses.

## 5. Command queue

**State.** `desc`, `avail`, `used` are the three areas of the virtqueue;
`buffers` is the memory of the commands, one entry per command since buffers
are never freed or reused; `pc`, `head`, `used_idx` are where the function that issues a command
is, and its variables; `todo` is what is left to do, as a stack of
calls: the rest of `kernel_main`, in front of it what the callers of the
driver still do. `return` in it marks the end of a `log` call that uses the
terminal, so `Depth` is the number of such calls on the stack. `device` is the
device's position, `gpu` its resources, `executed` a history.

**Actions.** A command function is seven steps, one per access the device could
observe: `FillDescriptors`, `ReadUsed`, `PublishHead`, `PublishIndex`,
`Notify`, `Wait`, `CheckResponse`. All six commands have this shape and share
the actions; the constructor's differences (constants instead of counters) are
in `next_field`, `next_index`, `FillDescriptors`, `ReadUsed`, `PublishHead`;
`connect_resource_to_memory` has three descriptors (and reads `used_idx` before it fills
the third one, which the device cannot tell). `InitTerminal`, `Printf`, `Log`,
`LogReturns` are the callers. The device, which is external, follows the VirtIO
specification: it may take a chain as soon as the index is published
(`DeviceFetch`), carries the command out and writes the answer
(`DeviceExecute`), and returns the chain (`DeviceComplete`). A command is
refused if what it needs has not been set up, and up to `MaxErrors` commands fail without
such a reason.

*Checked* (`MCVirtQueue`: five descriptors, counters modulo 8, a program of 12
items, that is 16 commands and more with reports, at most two errors without a reason): `ChainsAreWhole`,
the device always finds a complete chain of one command; `ImplementsChannel`,
the refinement of `CommandChannel` (each command is carried out once, in order, and
its function returns with its own answer, over all wraps);
`OverflowOnlyAfterLostSetup`, nested error reports end unless create or attach
failed; `KernelMainEnds`, under fairness. Five slots and chains of two and
three put a chain at every offset, and 8 is no multiple of 5, so the ring and the counters wrap at
different places. `StackDepth` = 4 is above the depth that two errors and `kernel_main`'s
own last log can reach (3), so an overflow means nesting that does not end.

*Fairness.* Weak fairness of the CPU (`Driver`: it is never
preempted and has no interrupts), of the device taking a chain it **was notified about**, and of
its finishing a command. That a device looks at the queue without a
notification is allowed but not assumed. This is what VirtIO obliges a device
to; the driver has no timeout, so without it nothing could be promised.

*Found* (`log_cycle`): against `kernel_logger.hpp:13`, a `transfer_to_host_2d` or
`resource_flush` that fails is logged to the terminal, which calls both again.

*Proved* (`VirtQueue_proofs`) for every queue of at least three descriptors,
every index space of at least two values, every program in which the constructor's command comes
first and which sets the resource up in the order of `kernel_main` (`SetupAssumption`), any number of
errors and any stack deeper than that number: `QueueTypes`, `NoTornChain`, `ReportsDoNotPileUp`
and `QueueIsChannel`, the refinement of `CommandChannel`. `ChainsAreWhole` says
only that the device has not been broken yet; that it never will be needs
to know where the driver is when the device looks. The invariant `IInv` therefore ties
`pc` to the device (`Phases`): outside a command the device is idle and all
counters agree (`Quiet`); from `FillDescriptors` on the chain at `head` is whole
(`Prepared`); once the index is published, the device is in one of four stages, waiting,
fetched, executed, complete (`Published`), of which only the last one has moved
`used` away from `used_idx`. Two facts carry it: the descriptors of a command
are different slots (`NextDescriptors`, from `queue_size >= 3`), and a counter
differs from its successor (`NextInRange`). `InfoFirst` keeps the
constants the constructor writes equal to the counters. The refinement then maps
`PublishIndex` to `Call`, `DeviceExecute` to `Execute`, `CheckResponse` to
`Return` and every other step to a stutter. For `ReportsDoNotPileUp`
(`OverflowOnlyAfterLostSetup`) the invariant is `ReportsEnd`: unless create or attach has failed,
the `log` calls on the stack are at most the errors that have happened without a reason, and one more for
the last `log` of `kernel_main`; that a command fails *with* a reason is excluded as long as the set-up its
command needs is behind it, which the order of `Program` and what stands on the stack
give. *Only model-checked*, being liveness: `KernelMainEnds`.

*Assumptions*: at least three descriptors (the code does not check the device's number; QEMU
has 64 or more); stores become visible in program order (the driver has no
barriers; under `run.sh` the CPU is emulated). *Left out*: the pages the commands take from the allocator. The handshake in the
constructor is `GpuSetup`, drawing is `Terminal`.

## 6. Terminal and drawing

**State.** `circular_buffer`, `head` and `tail` are the terminal's; `display` is
the frame buffer as a function from pixel indices to colours; `resource` and
`screen` are the device's copy and the monitor, so that "what is on the screen"
can be asked. `todo` is what is left of the calls that have begun, innermost
first. Histories: `lines`, the last texts printed; `printed`, how many there have
been (counted up to one more than the slots); `lost`, whether an error of the current call has had
no terminal to go to.

**Actions.** `Show` is `printf` up to its two commands: format into the slot at `head`,
move `head` and perhaps `tail`, clear, draw every line. `Drawing` has the
drawing functions as functions on pictures, without clipping, as in the code.
`transfer_to_host_2d` and `resource_flush` are one step each (how they reach the
device is `VirtQueue`). `CommandFails` is a command with an error answer: it logs, and
with a terminal that is a whole `printf` before the interrupted one goes on.
`Fault` is an exception in a command (its memory may be the first to meet a broken
mapping, section 4): `sync_exception_current_EL_using_SPEL1` logs its lines and
waits for ever (`wfi`). `log_terminal` may be set at any time, before or after errors.

*Checked* (`MCTerminal`: four slots, a window of two lines of four letters, 16 by 16
pixels, two texts of different length, an error and an exception at any point, any number of
prints): `DrawsInside`, no pixel of a line is outside the frame buffer, whose next page
belongs to someone else; `ShowsLastLines`, pixel for pixel the screen shows some number of the
last lines, in order, the newest at the bottom; behind the end of a text the
slot's old characters may show once the ring has wrapped (`Stale`), since all 80 are drawn; `ScreenUpToDate`, an
error that costs a transfer or a flush brings a `printf` about that makes up for it.
The code has 40 and 20 for the slots and the window; four and two keep the ratio, and
all combinations of `head` and `tail` occur.

*Found* (`terminal_scroll`): `Scrolls` fails when the ring wraps. `head` runs to 40,
`tail` is kept below 20, and C's remainder of a negative difference is negative: after the 40th
line nothing is drawn until `head` is past `tail` again.

*Proved* (`Terminal_proofs`) for all sizes, texts and numbers of errors:
`TerminalInvariant`, `NothingDrawnOutside` and `MonitorCatchesUp`. For the first two the
invariant (`Ring`) says that `head` is a slot, `tail` is below the window's size and `head - tail` at
most the window's size: `tail` follows `head` until the indices wrap, and then the difference is
negative. That is why `draw_lines` never has a line more than the screen has room for.
For the third, `Pending` describes `todo`: only its first item can be a transfer, and a flush follows
it; when a flush is first, `resource` is `display`; when nothing is left, or only the endless wait,
`screen` is `display`; the last two unless `lost`.

`TerminalTypes` and `LastLinesShown` (`TypeOK`, `ShowsLastLines`) need the contents of the ring and
of the picture, too. `Record`: the line printed `age` lines before the newest is in the slot
`age + 1` before `head`, and until the ring has wrapped nothing is behind it; one more line
moves all of this on by one slot (`RecordGoesOn`). `Depicted`: the picture is what `draw_lines`
makes of the ring. `LetterAt`, `TextAt` and `LinesAt` say, pixel by pixel, what the three drawing functions
leave; the last two by induction over letters and lines (`RecursionTheorems`), the first from the
uniqueness of division with remainder: a square that fits the row does not run into the next one.
`Window` says that line `i` drawn is in slot `tail + i`, unwrapped, and is one of the last; `PixelShown` combines them.
It needs that 80 letters fit the width and 20 lines the height, as they do.

*Left out*: characters of 128 and above, which would index behind the font.

## 7. Logger, formatting, UART

**State.** A call of the logger is a list of `pieces`: literal characters and directives
with their arguments, each with the text a reader expects (`shown`): for a number a numeral
that, read from the left digit by digit (`Reading`), is the argument, in decimal without zeros in front
(`IsDecimal`) or in eight or 16 digits of its two's complement (`IsHex`). `input`,
`va_list`, `idx_input`, `output` are `format_string`'s; `terminated` says whether a terminator stands behind
`output`; `pass` says for whom it runs: for `vlog`, then for `uart_send`, which takes the finished text for a
format. `text` is what the terminal shows, `sent` what the UART has transmitted. `overrun` is a history of the
bytes that the conversions store behind their arrays. What the code reads where nobody has written is a choice:
of the constant `Garbage` behind the terminator of a text (from then on part of `input`), in an array without a
terminator, and for the argument of a `%s` or `%c` that has none; of `Leftovers` for a missing number.

**Actions.** One per branch of the loop of `format_string`: `Literal`, `String`,
`Character`, `Unsigned`, `Hex`, `Pointer`, `Percent`, `Unknown`, and two that are easy to forget: `StepOver`, a
`%` at the end of the input, behind which the loop steps over the terminator and goes on, and `Abort`, a `%s` that finds an
address that is not mapped. Then `UartSend` and `put_uart`, which transmits what stands in the array up to a terminator.

*Checked* (`MCKernelLogger`: all formats of one to three out of 15 pieces, a buffer of 24, so that the
cut falls inside and between all of them): `Terminated`, room for the terminator always, and the terminator itself
except for an empty text; `StaysInTheString`, the loop steps over a terminator in no format of the logger's callers, and
in `uart_send` only for a text that ends in half a directive; `TextAsExpected`;
`UartRepeatsText`, what the terminal shows reaches the UART up to its first `%`, and all of it if there is none; and
`OneByteOver`: the arrays of ten and 18 bytes are too small for
ten and 18 characters with their terminator, by that one byte and never more. The properties say exactly how far the code
keeps what its comments promise, which in three places is not all the way:

- `%u`, an "unsigned decimal integer" (`formating.c:28`), shows nothing for 2^31 and more, as `int_to_str` takes an
  int: `PiecesOK` expects no text of such an argument.
- In `uart_send` a `%` of the finished text is a directive without an argument: what follows may be lost, replaced by what
  a register holds, or abort. `UartRepeatsText` bounds the damage by the first `%`.
- For an empty text, as one of `%s` with an empty string is, the loop of `format_string` makes no round and
  stores no terminator; `put_uart`, which looks for it (`uart.c:27`), sends what the stack has held. `Terminated` says that it is so for
  this text only.

*Proved* (`KernelLogger_proofs`), for every format, arguments and size of the buffer: `LoggerTypes`,
`AlwaysTerminated`, `LoopStaysInTheString`, `OnlyTheTerminatorOver`, `TextIsThePieces`, `UartShowsTheSame`. The invariant (`Logging`) ties
the loop to the call: in the logger's pass there is a piece `k` behind which the index stands (`FormatTo`), the
arguments that are left are those of the pieces behind `k` (`Left`), and the output is the text of the first `k`
pieces, cut off (`Cut`). So the loop never meets half a directive there, nor one without an argument (`LogStaysInFormat`), and when it stops,
either all pieces are read or the buffer is full and nothing that follows matters (`CutFull`). In the UART's pass
(`Within`) the number of `%` right before the index is even, as they are read in pairs: the loop can reach the terminator from a `%` only if
the text ends in an odd number of them. `Copied` says of each `n` that the first `n` characters, if no `%` is among them, are copied
character by character before anything else happens; a buffer that is full has room for them, as the text fitted the same size. That no int has more than
ten digits is an induction over powers of ten (`DecimalLength`). `TextIsThePieces` also
needs that the conversions make the numerals a reader expects, for every int and pointer (`DecimalRight`, `HexRight`): they take
the digits from the right, a reader puts them together from the left, and by induction over the digits both pass
the same numbers. `LoggerAssumption`, with `PiecesOK`, is the only assumption; TLC evaluates it on `MCPieces`.

*Left out*: the line break `vlog` sends after the text; the unused `u8_to_hex` and `u16_to_hex`. An empty format is not among
the logged ones: no caller has one.

## 8. PCI and the setup of the GPU

**State.** `machine` is a record that never changes: what the search meets, the list of
capabilities, what the BARs decode, the features on offer. `command` and `bar` are the
device's registers, `pc` and the variables up to `ret` the driver's. `GpuSetup` adds what the device
knows of the handshake (`status`, `page`, `accepted`, `queue`) and `rung`: the device has got its first notification.

**Actions.** In `Pci`: `search_pci_device` and `get_pci_capability`, a round of their loops;
`Silence`, `Probe`, `RestoreBar`, `RestoreCommand`, the stages of `BAR_size`; `Map`
and `Program`, those of `alloc_bar_memory`, with all six combinations of memory type and
length. In `GpuSetup` the constructor, statement by statement, up to the
first notification. The device's side is external: `Latched` (the address bits below the size are
wired to zero), `Address`, and `Meets`: an access to an address reaches a structure of
the device if memory decoding is on, the address is mapped and is the one the BAR decodes.
The end of a behaviour is `waiting`, or `undefined` (a function without a
return), `endless` (the loop of `register_device_memory` over a size that is no multiple of a page) or
`astray` (the driver reads and writes something other than the common configuration).

*Checked* (`MCGpuSetup`: registers of 8 bits, pages of 32 bytes; 1,122 machines: 11 kinds of
BAR with 96 lists of capabilities, and with all features and outcomes of the search):
`SizedWithoutTrace`, `SilentWhileProbed`, `AgreementExact`, which devices have agreed when they are driven and to what; and the two halves of a
characterization: `NotifiedOnlyWhenReady`, the device is notified on no machine but those of `Suitable`, and then
queue and status are ready, and `SuitableDeviceComesUp`, on all of those it is. `Suitable`
is thereby the list of what the driver silently takes for granted: the first capability with
type 1, whoever's it is, is VirtIO's, at offset 0 of a 64-bit prefetchable BAR of whole pages, and the
notification is in the same BAR. QEMU's `virtio-gpu-pci` is such a device.
*Fairness*: weak, of the one CPU.

*Found* (`setup_bar`): for an I/O or 32-bit BAR `alloc_bar_memory` neither programs the BAR
nor returns the memory it has mapped (`pci_driver.h:80`).

The answer to FEATURES_OK is read back to `Check if everything worked properly` (`virtio_gpu_driver.cpp:200`), but has no
consequence, so a device that has refused is driven. `AgreementExact` says which: those without `VERSION_1`, for which the driver writes
its bit on page 0 (line 195), where it asks for 3D, and that do not offer this either.

*Proved* (`GpuSetup_proofs`), for all machines within `PciAssumption` (sizes are powers of two as
PCI has them, a 64-bit BAR has the next register for itself): `BarSizeExact`, `SilentThroughout`, `FeaturesSettled`. `Probing`
carries the first two: the BARs are always settled, that is what they would keep if they were
written back (`LatchedSettles`, so restoring restores); after `Probe` they hold all ones, cut down to their
size, from which `MeasureExact` computes the size by division with remainder (`Unique`, `OnesCutDown`). `Agreed` carries the
third along the steps of the handshake.

`SetupTypes` and `NotifiedOnlyOnSuitable` follow from the invariant `Setup`. `Walking`: the walk has taken some
number of steps along the list, and every structure it went by was no first of its type; a list that ends has no
capability twice, so (pigeonhole) it is shorter than their number and `FirstOf` sees all of it. `Placing`: a mapping is made
for the BAR whose size was measured, and what `alloc_bar_memory` returns is its address only for a 64-bit
prefetchable BAR, which the device then decodes; any other BAR stays unassigned, and the address the driver goes on with is not one it decodes. `Driving`:
from the first access on the machine is a suitable one, and the handshake has got as far as `pc` says. *Only model-checked*:
that suitable devices do come up (`SuitableDeviceComesUp`), which is liveness.

*Left out*: a list of capabilities that closes on itself; the moment between the stores to the halves
of a 64-bit BAR; more than one BAR (a second one of the same size would get the same place).

## 9. Not modelled, and open

Not modelled: the free-list allocator (not built, unfinished); the font's data; `_start`, which sets four registers;
fifteen of the sixteen exception handlers, whose sources are never enabled; the end of the heap
(`kernel_main` stays far below it, and nothing compares the pointer with it); the TLB; weak ordering of stores.

Open, in this order:

1. `Mmu` on layouts that take `FillL0` and `FillL1` with the MMU on.
2. A composition of `Mmu` and `Terminal`, in which a handler's own allocation may fault again.

Every invariant and action property the runs check is proved; what only the model checker shows is liveness.

It stays with TLC: the proof system used here does not reach it. Nor can its provers use the library's induction
theorems, whose parameter is an operator. `RecursionTheorems` has what the proofs
need instead: induction stated for a set of numbers (`InductionUpTo`, from the well-foundedness of the naturals), and, by it, that functions
defined by recursion on a number exist (`RecursionUpTo`, `DescentExists`).

## 10. Running

    tlc -config MCMmu.cfg MCMmu          # and likewise for the other runs
    tlapm MmuMapping_proofs.tla          # and likewise for the other proofs
