------------------------------ MODULE Terminal ------------------------------
(***************************************************************************)
(* terminal.cpp on top of the drawing functions, with the parts of the GPU *)
(* between the frame buffer and the monitor: transfer_to_host_2d copies    *)
(* `display` to the device's resource, resource_flush the resource to the  *)
(* screen.  An error of either is logged, which prints on the same         *)
(* terminal before the interrupted printf goes on; the memory a command    *)
(* allocates may be the first a broken mapping hits, and then the handler  *)
(* of the exception prints, too, and never returns.  How a command reaches *)
(* the device is the subject of VirtQueue: here it is one step.            *)
(*                                                                         *)
(* A text is what format_string has made of the arguments (KernelLogger):  *)
(* at most MAX_TEXT_LENGTH - 1 characters.                                 *)
(***************************************************************************)
EXTENDS Drawing, Sequences

CONSTANTS
  Slots,            \* 40: lines in the circular buffer
  NR_OF_LINES,      \* 20: lines on the screen (the code has the number)
  MAX_TEXT_LENGTH,  \* 80
  Texts,            \* what is printed
  ErrorText,        \* what the driver logs when a command fails
  ReportText,       \* a line of an exception handler ...
  ReportLines,      \* ... which logs 5 of them
  MaxErrors,        \* bound on the commands that fail
  MaxFaults         \* bound on the exceptions

AllTexts == Texts \cup {ErrorText, ReportText}

ASSUME TerminalAssumption ==
  /\ NR_OF_LINES \in Nat \ {0} /\ Slots = 2 * NR_OF_LINES
  /\ MAX_TEXT_LENGTH \in Nat \ {0}
  /\ \A t \in AllTexts : t \in Seq(Chars \ {NUL}) /\ Len(t) < MAX_TEXT_LENGTH
  /\ ReportLines \in Nat \ {0}
  /\ MaxErrors \in Nat /\ MaxFaults \in Nat
  \* 80 letters of 16 pixels and 20 lines 32 pixels apart fit 1280 * 800.
  /\ MAX_TEXT_LENGTH * (2 * GlyphSize) <= screen_width
  /\ NR_OF_LINES * (4 * GlyphSize) <= screen_height

VARIABLES
  circular_buffer, head, tail,  \* the terminal
  log_terminal,                 \* kernel_logger has been given the terminal
  todo,                         \* the rest of the calls that have begun
  display, resource, screen,    \* the picture in memory, in the device, on the monitor
  errors, faults,               \* how many there have been
  lines, printed,               \* history: the last texts, the number of all (up to Slots + 1)
  lost                          \* history: an error of the current call had no terminal to go to

terminalVars == << circular_buffer, head, tail, display, lines, printed >>
gpuVars == << resource, screen >>
vars == << terminalVars, gpuVars, log_terminal, todo, errors, faults, lost >>

Columns == 0 .. MAX_TEXT_LENGTH - 1

Init ==
  /\ circular_buffer = [s \in 0 .. Slots - 1 |-> [k \in Columns |-> NUL]]  \* kalloc clears
  /\ head = 0 /\ tail = 0
  /\ log_terminal = FALSE
  /\ todo = << >>
  \* kernel_main's first picture
  /\ display = draw_rec(clear_screen, 1, 1, 2, 2, "blue")
  /\ resource = display /\ screen = display
  /\ errors = 0 /\ faults = 0
  /\ lines = << >> /\ printed = 0
  /\ lost = FALSE

-----------------------------------------------------------------------------
\* C's remainder, which has the sign of the dividend.
Rem(a, n) == IF a < 0 THEN - ((- a) % n) ELSE a % n

\* What format_string leaves in a slot (no format is empty).
format_string(slot, text) ==
  [k \in Columns |-> IF k < Len(text) THEN text[k + 1]
                     ELSE IF k = Len(text) THEN NUL ELSE slot[k]]

\* A mutant of next_head: the index does not wrap.
next_head_no_wrap(h) == h + 1

next_head(h) == (h + 1) % Slots

\* A mutant of next_tail: the tail follows one line too late.
next_tail_late(h) ==
  IF Rem(h - tail, Slots) > NR_OF_LINES + 1 THEN (tail + 1) % NR_OF_LINES ELSE tail

\* The inner branch of the code, more than 21 lines, only has a comment.
next_tail(h) ==
  IF Rem(h - tail, Slots) = NR_OF_LINES + 1 THEN (tail + 1) % NR_OF_LINES ELSE tail

\* The number of lines drawn (none if the remainder is negative), their places.
Drawn(h, t) == IF Rem(h - t, Slots) < 0 THEN 0 ELSE Rem(h - t, Slots)
Row(i) == i * 4 * GlyphSize

\* A mutant of draw_lines: from the tail's slot for every line.
draw_lines_no_index(buffer, h, t) ==
  LET upto[i \in 0 .. Drawn(h, t)] ==
        IF i = 0 THEN clear_screen
        ELSE draw_text(upto[i - 1], 0, Row(i - 1), buffer[t], MAX_TEXT_LENGTH, "white", 2)
  IN  upto[Drawn(h, t)]

draw_lines(buffer, h, t) ==
  LET upto[i \in 0 .. Drawn(h, t)] ==
        IF i = 0 THEN clear_screen
        ELSE draw_text(upto[i - 1], 0, Row(i - 1), buffer[(t + i - 1) % Slots],
                       MAX_TEXT_LENGTH, "white", 2)
  IN  upto[Drawn(h, t)]

\* terminal::printf up to its two commands.
Show(text) ==
  /\ circular_buffer' = [circular_buffer EXCEPT ![head] = format_string(@, text)]
  /\ head' = next_head(head)
  /\ tail' = next_tail(head')
  /\ display' = draw_lines(circular_buffer', head', tail')
  /\ lines' = LET all == Append(lines, text)
              IN  IF Len(all) > NR_OF_LINES THEN Tail(all) ELSE all
  /\ printed' = IF printed > Slots THEN printed ELSE printed + 1

Commands == << "transfer", "flush" >>

printf(text) ==
  /\ todo = << >>
  /\ Show(text)
  /\ todo' = Commands
  /\ lost' = FALSE
  /\ UNCHANGED << log_terminal, gpuVars, errors, faults >>

init_terminal ==
  /\ todo = << >>
  /\ log_terminal' = TRUE
  /\ UNCHANGED << terminalVars, gpuVars, todo, errors, faults, lost >>

\* A log call on behalf of a call of which `rest` is left.
Log(text, rest) ==
  IF log_terminal
    THEN Show(text) /\ todo' = Commands \o rest /\ lost' = lost
    ELSE todo' = rest /\ lost' = TRUE /\ UNCHANGED terminalVars

log(text) ==
  /\ todo = << >>
  /\ log_terminal  \* without a terminal it only reaches the UART
  /\ Log(text, << >>)
  /\ UNCHANGED << log_terminal, gpuVars, errors, faults >>

Next_command(c) == todo # << >> /\ Head(todo) = c

transfer_to_host_2d ==
  /\ Next_command("transfer")
  /\ resource' = display
  /\ todo' = Tail(todo)
  /\ UNCHANGED << terminalVars, screen, log_terminal, errors, faults, lost >>

resource_flush ==
  /\ Next_command("flush")
  /\ screen' = resource
  /\ todo' = Tail(todo)
  /\ UNCHANGED << terminalVars, resource, log_terminal, errors, faults, lost >>

\* A mutant of CommandFails: an error ends the whole printf.
CommandFails_returns ==
  /\ Next_command("transfer") \/ Next_command("flush")
  /\ errors < MaxErrors
  /\ errors' = errors + 1
  /\ todo' = << >>
  /\ UNCHANGED << terminalVars, gpuVars, log_terminal, faults, lost >>

CommandFails ==
  /\ Next_command("transfer") \/ Next_command("flush")
  /\ errors < MaxErrors
  /\ errors' = errors + 1
  /\ Log(ErrorText, Tail(todo))
  /\ UNCHANGED << gpuVars, log_terminal, faults >>

\* An access to the memory of a command aborts.  The handler of the vector
\* table's fifth entry logs its lines and waits for interrupts for ever.
Fault ==
  /\ Next_command("transfer") \/ Next_command("flush")
  /\ faults < MaxFaults
  /\ faults' = faults + 1
  /\ todo' = [i \in 1 .. ReportLines + 1 |-> IF i <= ReportLines THEN "report" ELSE "wfi"]
  /\ UNCHANGED << terminalVars, gpuVars, log_terminal, errors, lost >>

sync_exception_current_EL_using_SPEL1 ==
  /\ Next_command("report")
  /\ Log(ReportText, Tail(todo))
  /\ UNCHANGED << gpuVars, log_terminal, errors, faults >>

Next ==
  \/ \E text \in Texts : printf(text) \/ log(text)
  \/ init_terminal
  \/ transfer_to_host_2d
  \/ resource_flush
  \/ CommandFails
  \/ Fault
  \/ sync_exception_current_EL_using_SPEL1

Spec == Init /\ [][Next]_vars

-----------------------------------------------------------------------------
TypeOK ==
  /\ circular_buffer \in [0 .. Slots - 1 -> [Columns -> Chars]]
  /\ head \in 0 .. Slots - 1
  /\ tail \in 0 .. NR_OF_LINES - 1
  /\ log_terminal \in BOOLEAN /\ lost \in BOOLEAN
  /\ todo \in Seq({"transfer", "flush", "report", "wfi"})
  /\ display \in Pictures /\ resource \in Pictures /\ screen \in Pictures
  /\ errors \in 0 .. MaxErrors /\ faults \in 0 .. MaxFaults
  /\ lines \in Seq(AllTexts) /\ Len(lines) <= NR_OF_LINES
  /\ printed \in 0 .. Slots + 1

\* draw_pixel stores without a check, and the page behind the frame buffer is
\* the next one kalloc has given away: whatever the indices of the ring have
\* come to, no pixel of a line is outside the frame buffer.
DrawsInside ==
  \A i \in 0 .. Drawn(head, tail) - 1, k \in Columns :
    \A x, y \in 0 .. 2 * GlyphSize - 1 :
      At(k * 2 * GlyphSize + x, Row(i) + y) \in Pixels

\* The pixel at column x and row y of a screen that shows the texts of `shown`,
\* from the first line down, and nothing else.
Lit(shown, x, y) ==
  LET i == y \div (4 * GlyphSize)
      k == x \div (2 * GlyphSize)
  IN  /\ i < Len(shown) /\ y % (4 * GlyphSize) < 2 * GlyphSize
      /\ k < Len(shown[i + 1])
      /\ << (y % (4 * GlyphSize)) \div 2, (x % (2 * GlyphSize)) \div 2 >>
           \in font8x8_basic[shown[i + 1][k + 1]]

\* Behind the end of its text a line may show what its slot held before.
Stale(shown, x, y) ==
  LET i == y \div (4 * GlyphSize)
  IN  /\ printed > Slots
      /\ i < Len(shown) /\ x \div (2 * GlyphSize) >= Len(shown[i + 1])

Shows(shown) ==
  \A x \in 0 .. screen_width - 1, y \in 0 .. screen_height - 1 :
    \/ Stale(shown, x, y)
    \/ display[At(x, y)] = IF Lit(shown, x, y) THEN "white" ELSE "black"

LastLines(n) == SubSeq(lines, Len(lines) - n + 1, Len(lines))

\* The lines on the screen are always the last ones printed, in their order
\* and the newest at the bottom, error and exception reports that came in
\* between included: there may be too few of them (see Scrolls), but never one
\* out of order, twice, or from the round before.
ShowsLastLines == printed > 0 => \E n \in 0 .. Len(lines) : Shows(LastLines(n))

\* Once errors have a terminal to go to, the monitor is up to date whenever no
\* call is under way: an error that loses a transfer or a flush brings another
\* printf about, and that one makes up for it.  The same holds when the handler
\* of an exception has come to its end: its report is on the monitor.
ScreenUpToDate ==
  ~lost /\ (todo = << >> \/ Head(todo) = "wfi") => screen = display

\* README.md: "Implements a graphical scrolling terminal backed by a circular
\* text buffer": the screen shows as many of the last lines as it has room for.
Scrolls == printed > 0 => Shows(LastLines(Len(lines)))
=============================================================================
