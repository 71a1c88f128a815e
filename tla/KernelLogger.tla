---------------------------- MODULE KernelLogger ----------------------------
(***************************************************************************)
(* One call of kernel_logger::vlog: format_string turns the format and its *)
(* arguments into `output`, which the terminal shows as it is (Terminal),  *)
(* and which uart_send gets as a format again.  A step is one round of     *)
(* format_string's loop.  A string is the sequence of its characters       *)
(* before the terminator, so idx_output is Len(output), and the character  *)
(* at Len(input) + 1 of the input is its terminator.  Where the code reads *)
(* what nobody has written, the model chooses what it finds: behind the    *)
(* terminator of a text, in an array without one, for a missing argument.  *)
(***************************************************************************)
EXTENDS Integers, Sequences

CONSTANTS
  MAX_TEXT_LENGTH,  \* 80
  Pieces,           \* what a format is made of, see PiecesOK
  MaxPieces,        \* bound on the length of a format
  Characters,       \* what a char can be
  NUL,              \* the terminator
  Garbage,          \* strings that may stand in memory nobody has written
  Leftovers         \* numbers that may be found for a missing argument

\* The largest int.
IntMax == 2147483647

Digits == << "0", "1", "2", "3", "4", "5", "6", "7", "8", "9", "a", "b", "c", "d", "e", "f" >>

\* A sequence of digits, and how it is read from the left, behind `start`.
Numeral(s, base) == \A i \in 1 .. Len(s) : s[i] \in {Digits[d + 1] : d \in 0 .. base - 1}
Digit(c, base) == CHOOSE d \in 0 .. base - 1 : c = Digits[d + 1]
Reading(s, base, start) ==
  LET f[i \in 0 .. Len(s)] == IF i = 0 THEN start ELSE base * f[i - 1] + Digit(s[i], base)
  IN  f[Len(s)]

\* s is 0x and n hexadecimal digits of the number in two's complement, in which
\* a negative one begins with infinitely many ones: that is -1.
IsHex(s, n, number) ==
  LET t == SubSeq(s, 3, Len(s))
  IN  /\ s = << "0", "x" >> \o t /\ Len(t) = n /\ Numeral(t, 16)
      /\ Reading(t, 16, IF number < 0 THEN -1 ELSE 0) = number

\* s is the number in decimal, without zeros in front.
IsDecimal(s, number) ==
  /\ s # << >> /\ Numeral(s, 10) /\ Reading(s, 10, 0) = number
  /\ Len(s) > 1 => s[1] # "0"

Strings == Seq(Characters \ {NUL})

\* A piece is a literal character or a directive with its argument.  `shown` is
\* the text a reader of the code expects for it: for %u none when the argument
\* is 2^31 or more (negative here), because int_to_str takes an int.
PiecesOK ==
  \A p \in Pieces :
    /\ DOMAIN p = {"directive", "arg", "shown"}
    /\ p.shown \in Strings
    /\ \/ /\ p.directive = "" /\ p.arg \in Strings /\ Len(p.arg) = 1 /\ p.arg[1] # "%"
          /\ p.shown = p.arg
       \/ p.directive = "s" /\ p.arg \in Strings /\ p.shown = p.arg
       \/ p.directive = "c" /\ p.arg \in Strings /\ Len(p.arg) <= 1 /\ p.shown = p.arg
       \/ /\ p.directive = "u" /\ p.arg \in -IntMax - 1 .. IntMax
          /\ IF p.arg >= 0 THEN IsDecimal(p.shown, p.arg) ELSE p.shown = << >>
       \/ p.directive = "x" /\ p.arg \in -IntMax - 1 .. IntMax /\ IsHex(p.shown, 8, p.arg)
       \/ p.directive = "p" /\ p.arg \in Nat /\ IsHex(p.shown, 16, p.arg)
       \/ p.directive = "%" /\ p.shown = << "%" >>

ASSUME LoggerAssumption ==
  /\ MAX_TEXT_LENGTH \in Nat /\ MAX_TEXT_LENGTH >= 2
  /\ \A i \in 1 .. 16 : Digits[i] \in Characters
  /\ {"0", "%", "s", "c", "u", "x", "p"} \subseteq Characters
  /\ NUL \in Characters \ {"%"}
  /\ PiecesOK
  /\ Garbage \subseteq Strings /\ Leftovers \subseteq -IntMax - 1 .. IntMax
  /\ MaxPieces \in Nat

VARIABLES
  pieces,     \* what is logged
  pass,       \* format_string runs for the logger, for uart_send, or is done
  input,      \* the format; behind its terminator, what the loop has got to see
  va_list, idx_input, output,
  terminated, \* output[idx_output] holds a terminator
  text,       \* what the logger's pass has made, and the terminal shows
  sent,       \* what the UART has transmitted
  overrun     \* history: bytes stored behind an array of the conversions

vars == << pieces, pass, input, va_list, idx_input, output, terminated, text, sent, overrun >>

\* Sequences one after the other.
Concat(parts) ==
  LET f[i \in 0 .. Len(parts)] == IF i = 0 THEN << >> ELSE f[i - 1] \o parts[i]
  IN  f[Len(parts)]

\* The format and the arguments of a call.
Format(ps) ==
  Concat([i \in 1 .. Len(ps) |->
            IF ps[i].directive = "" THEN ps[i].arg ELSE << "%", ps[i].directive >>])
Arguments(ps) ==
  Concat([i \in 1 .. Len(ps) |->
            IF ps[i].directive \in {"", "%"} THEN << >> ELSE << ps[i].arg >>])

Init ==
  /\ \E n \in 1 .. MaxPieces : pieces \in [1 .. n -> Pieces]
  /\ pass = "log"
  /\ input = Format(pieces)
  /\ va_list = Arguments(pieces)
  /\ idx_input = 1
  /\ output = << >> /\ terminated = FALSE
  /\ text = << >>
  /\ sent = << >>
  /\ overrun = {}

-----------------------------------------------------------------------------
\* A mutant of int_to_str: zero is not treated apart.
int_to_str_no_zero(value) ==
  LET digits[n \in Nat] ==
        IF n = 0 THEN << >> ELSE Append(digits[n \div 10], Digits[(n % 10) + 1])
  IN  digits[IF value > 0 THEN value ELSE 0]

\* The digits of a positive number; none of a negative one.
int_to_str(value) ==
  LET digits[n \in Nat] ==
        IF n = 0 THEN << >> ELSE Append(digits[n \div 10], Digits[(n % 10) + 1])
  IN  IF value = 0 THEN << "0" >> ELSE digits[IF value > 0 THEN value ELSE 0]

\* A mutant of to_hex: a ninth (seventeenth) digit.
to_hex_one_more(value, n) ==
  LET shifted[k \in 0 .. n] == IF k = 0 THEN value ELSE shifted[k - 1] \div 16
  IN  << "0", "x" >> \o [i \in 1 .. n + 1 |-> Digits[(shifted[n + 1 - i] % 16) + 1]]

\* u32_to_hex with 8, u64_to_hex with 16 digits, of the two's complement.
to_hex(value, n) ==
  LET shifted[k \in 0 .. n] == IF k = 0 THEN value ELSE shifted[k - 1] \div 16
  IN  << "0", "x" >> \o [i \in 1 .. n |-> Digits[(shifted[n - i] % 16) + 1]]

\* A mutant of Room: the terminator is forgotten.
Room_for_all(n) == MAX_TEXT_LENGTH - n

\* Characters that still fit when the output has n.
Room(n) == MAX_TEXT_LENGTH - 1 - n

Put(s) ==
  output' = output \o SubSeq(s, 1, IF Len(s) < Room(Len(output)) THEN Len(s) ELSE Room(Len(output)))

\* A conversion via char string_param[size], of which at most `size` are copied.
Convert(s, size) ==
  /\ Put(IF Len(s) < size THEN s ELSE SubSeq(s, 1, size))
  /\ overrun' = overrun \cup {<< size, i >> : i \in size .. Len(s)}  \* with the terminator

-----------------------------------------------------------------------------
InLoop == pass \in {"log", "uart"} /\ idx_input <= Len(input) /\ Room(Len(output)) > 0

\* What every round ends with: output[idx_output] = '\0'.
Terminate == terminated' = TRUE

Literal ==
  /\ InLoop
  /\ input[idx_input] # "%"
  /\ Put(<< input[idx_input] >>) /\ Terminate
  /\ idx_input' = idx_input + 1
  /\ UNCHANGED << pieces, pass, input, va_list, text, sent, overrun >>

\* A mutant of IsDirective: one character too many is skipped.
IsDirective_skips(c) ==
  /\ InLoop
  /\ input[idx_input] = "%" /\ idx_input < Len(input)
  /\ input[idx_input + 1] = c
  /\ idx_input' = idx_input + 3
  /\ Terminate
  /\ UNCHANGED << pieces, pass, input, text, sent >>

\* A mutant of IsDirective: the directive's letter is not skipped.
IsDirective_stays(c) ==
  /\ InLoop
  /\ input[idx_input] = "%" /\ idx_input < Len(input)
  /\ input[idx_input + 1] = c
  /\ idx_input' = idx_input + 1
  /\ Terminate
  /\ UNCHANGED << pieces, pass, input, text, sent >>

IsDirective(c) ==
  /\ InLoop
  /\ input[idx_input] = "%" /\ idx_input < Len(input)
  /\ input[idx_input + 1] = c
  /\ idx_input' = idx_input + 2
  /\ Terminate
  /\ UNCHANGED << pieces, pass, input, text, sent >>

\* va_arg: the next argument or, behind the last one, what is left in a register.
Argument(left) == IF va_list # << >> THEN {Head(va_list)} ELSE left
Takes == va_list' = IF va_list # << >> THEN Tail(va_list) ELSE << >>

String ==
  /\ IsDirective("s") /\ Takes /\ UNCHANGED overrun
  /\ \E arg \in Argument(Garbage) : Put(arg)
Character ==
  /\ IsDirective("c") /\ Takes /\ UNCHANGED overrun
  /\ \E arg \in Argument({g \in Garbage : Len(g) <= 1}) : Put(arg)
Unsigned ==
  /\ IsDirective("u") /\ Takes
  /\ \E arg \in Argument(Leftovers) : Convert(int_to_str(arg), 10)
Hex ==
  /\ IsDirective("x") /\ Takes
  /\ \E arg \in Argument(Leftovers) : Convert(to_hex(arg, 8), 10)
Pointer ==
  /\ IsDirective("p") /\ Takes
  /\ \E arg \in Argument(Leftovers) : Convert(to_hex(arg, 16), 18)
Percent == IsDirective("%") /\ Put(<< "%" >>) /\ UNCHANGED << va_list, overrun >>

\* A %s without an argument may also lead to an address that is not mapped.
Abort ==
  /\ InLoop
  /\ input[idx_input] = "%" /\ idx_input < Len(input)
  /\ input[idx_input + 1] = "s" /\ va_list = << >>
  /\ pass' = "abort"
  /\ UNCHANGED << pieces, input, va_list, idx_input, output, terminated, text, sent, overrun >>

\* Nothing is printed for any other character.
Unknown ==
  /\ \E c \in {input[i] : i \in 1 .. Len(input)} \ {"s", "c", "u", "x", "p", "%"} : IsDirective(c)
  /\ UNCHANGED << va_list, output, overrun >>

\* Nor for the terminator behind a %, which is stepped over as well: the loop
\* goes on with what stands behind it.
StepOver ==
  /\ InLoop
  /\ input[idx_input] = "%" /\ idx_input = Len(input)
  /\ idx_input' = idx_input + 2
  /\ \E g \in Garbage : input' = (input \o << NUL >>) \o g
  /\ Terminate
  /\ UNCHANGED << pieces, pass, va_list, output, text, sent, overrun >>

Finished(p) == pass = p /\ ~InLoop

\* A mutant of UartSend: the UART gets the format.
UartSend_format ==
  /\ Finished("log")
  /\ text' = output
  /\ pass' = "uart"
  /\ input' = Format(pieces)
  /\ va_list' = << >> /\ idx_input' = 1 /\ output' = << >> /\ terminated' = FALSE
  /\ UNCHANGED << pieces, sent, overrun >>

\* log_terminal->printf("%s", output), then uart_send(output, MAX_TEXT_LENGTH),
\* whose output_string is not initialised.
UartSend ==
  /\ Finished("log")
  /\ text' = output
  /\ pass' = "uart"
  /\ input' = output
  /\ va_list' = << >> /\ idx_input' = 1 /\ output' = << >> /\ terminated' = FALSE
  /\ UNCHANGED << pieces, sent, overrun >>

\* put_uart transmits what is in output_string up to the first terminator: its
\* own or, when format_string has not stored any, one that happens to stand there.
put_uart ==
  /\ Finished("uart")
  /\ pass' = "sent"
  /\ sent' \in IF terminated THEN {output} ELSE Garbage
  /\ UNCHANGED << pieces, input, va_list, idx_input, output, terminated, text, overrun >>

Next ==
  \/ Literal \/ String \/ Character \/ Unsigned \/ Hex \/ Pointer \/ Percent \/ Unknown
  \/ StepOver \/ Abort \/ UartSend \/ put_uart

Spec == Init /\ [][Next]_vars

-----------------------------------------------------------------------------
TypeOK ==
  /\ pass \in {"log", "uart", "sent", "abort"}
  /\ idx_input \in 1 .. Len(input) + 1
  /\ terminated \in BOOLEAN
  /\ overrun \subseteq {10, 18} \X Nat

\* Wherever in a conversion a text is cut off, its terminator fits, and when
\* format_string returns it is there: always in the logger's array, but in
\* uart_send's only for a text that is not empty, since the loop stores it at
\* the end of a round.  Without it put_uart sends what the stack has held.
Terminated ==
  /\ Len(output) < MAX_TEXT_LENGTH
  /\ Finished("log") => terminated
  /\ Finished("uart") => (terminated <=> text # << >>)

Percents(s, first, last) == \A i \in first .. last : s[i] = "%"

\* The number of % at the end of s is odd.
EndsInHalfADirective(s) ==
  \E n \in 0 .. Len(s) :
    /\ 2 * n < Len(s)
    /\ Percents(s, Len(s) - 2 * n, Len(s))
    /\ 2 * n + 1 < Len(s) => s[Len(s) - 2 * n - 1] # "%"

\* The loop steps over a terminator only where uart_send takes a text for a
\* format that ends in a % without a letter; never in a format of the logger's
\* callers, whatever the arguments and wherever directives meet.
StaysInTheString ==
  /\ pass = "log" => input = Format(pieces)
  /\ pass # "log" /\ ~EndsInHalfADirective(text) => input = text

\* What the pieces should read, as far as it fits.
Expected ==
  LET all == Concat([i \in 1 .. Len(pieces) |-> pieces[i].shown])
  IN  SubSeq(all, 1, IF Len(all) < MAX_TEXT_LENGTH THEN Len(all) ELSE MAX_TEXT_LENGTH - 1)

\* The text is the pieces' one after the other and cut off at the end of the
\* buffer, however directives and the cut fall together, and an argument of %u
\* that is no positive int leaves nothing in it, not even a part of a number.
TextAsExpected == pass \in {"uart", "sent", "abort"} => text = Expected

\* The arrays of the number conversions are too small by the terminator, and by
\* no more: one zero byte lands behind them, where an aligned array has padding.
OneByteOver == \A o \in overrun : o[2] = o[1]

\* The UART gets the text the terminal shows up to its first % (from %%, %s or
\* %c), although it is formatted once more on the way: all of it if there is
\* none.  Only what follows may be lost, replaced, or cost an exception.
UartRepeatsText ==
  \A n \in 1 .. Len(text) :
    (\A i \in 1 .. n : text[i] # "%") =>
      /\ pass = "abort" => n < Len(text)
      /\ pass = "sent" => /\ n <= Len(sent) /\ SubSeq(sent, 1, n) = SubSeq(text, 1, n)
                          /\ n = Len(text) => sent = text
=============================================================================
