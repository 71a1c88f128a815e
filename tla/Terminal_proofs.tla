-------------------------- MODULE Terminal_proofs ---------------------------
(***************************************************************************)
(* Theorems about Terminal for every size of screen, ring and line: the    *)
(* indices of the ring, the order of the pictures' copies, and what the    *)
(* picture shows.  For the last, the functions that draw a text and the    *)
(* window by recursion are described pixel by pixel (TextAt, LinesAt), the *)
(* contents of the ring by Record, and PixelShown puts the two together.   *)
(***************************************************************************)
EXTENDS Terminal, SequenceTheorems, RecursionTheorems, TLAPS

-----------------------------------------------------------------------------
\* C's remainder is the number itself if that is less than the divisor.
LEMMA RemSmall ==
  ASSUME NEW a \in Int, NEW n \in Nat \ {0}, - n < a, a < n
  PROVE  Rem(a, n) = a
  BY DEF Rem

\* The ring's indices: the window is never longer than the screen.
Ring ==
  /\ head \in 0 .. Slots - 1
  /\ tail \in 0 .. NR_OF_LINES - 1
  /\ head - tail <= NR_OF_LINES

\* One more line moves the tail by at most one, and never past its own modulus.
LEMMA ShowKeepsRing ==
  ASSUME Ring, NEW text, Show(text)
  PROVE  Ring'
<1>1. Slots = 2 * NR_OF_LINES /\ NR_OF_LINES \in Nat \ {0}
  BY TerminalAssumption
<1>2. head' = (head + 1) % Slots /\ tail' = next_tail(head')
  BY DEF Show, next_head
<1>3. CASE head + 1 < Slots
  <2>1. head' = head + 1
    BY <1>1, <1>2, <1>3 DEF Ring
  <2>2. Rem(head' - tail, Slots) = head' - tail
    BY <1>1, <1>3, <2>1, RemSmall DEF Ring
  <2>3. CASE head' - tail = NR_OF_LINES + 1
    <3>1. tail + 1 < NR_OF_LINES
      BY <1>1, <1>3, <2>1, <2>3 DEF Ring
    <3>2. tail' = tail + 1
      BY <1>1, <1>2, <2>2, <2>3, <3>1 DEF Ring, next_tail
    <3> QED
      BY <1>1, <1>3, <2>1, <2>3, <3>1, <3>2 DEF Ring
  <2>4. CASE head' - tail # NR_OF_LINES + 1
    <3>1. tail' = tail
      BY <1>2, <2>2, <2>4 DEF next_tail
    <3> QED
      BY <1>1, <1>3, <2>1, <2>4, <3>1 DEF Ring
  <2> QED
    BY <2>3, <2>4
<1>4. CASE head + 1 = Slots
  <2>1. head' = 0
    BY <1>1, <1>2, <1>4 DEF Ring
  <2>2. Rem(head' - tail, Slots) = head' - tail
    BY <1>1, <2>1, RemSmall DEF Ring
  <2>3. tail' = tail
    BY <1>1, <1>2, <2>1, <2>2 DEF Ring, next_tail
  <2> QED
    BY <1>1, <2>1, <2>3 DEF Ring
<1> QED
  BY <1>1, <1>3, <1>4 DEF Ring

\* What is left to do, and what the pictures have in common by then.  Only the
\* first item can be a transfer, and a flush follows it.
Pending ==
  /\ todo \in Seq({"transfer", "flush", "report", "wfi"})
  /\ \A i \in 2 .. Len(todo) : todo[i] # "transfer"
  /\ todo # << >> /\ Head(todo) = "transfer" => Len(todo) >= 2 /\ todo[2] = "flush"
  /\ todo # << >> /\ Head(todo) = "flush" => resource = display \/ lost
  /\ todo = << >> => screen = display \/ lost
  /\ todo # << >> /\ Head(todo) = "wfi" => screen = display \/ lost
  /\ lost \in BOOLEAN /\ log_terminal \in BOOLEAN

IInv == Ring /\ Pending

Items == {"transfer", "flush", "report", "wfi"}

LEMMA TailOfTodo ==
  ASSUME Pending, todo # << >>
  PROVE  /\ Tail(todo) \in Seq(Items)
         /\ \A i \in 1 .. Len(Tail(todo)) : Tail(todo)[i] # "transfer"
         /\ Len(Tail(todo)) = Len(todo) - 1
         /\ \A i \in 1 .. Len(Tail(todo)) : Tail(todo)[i] = todo[i + 1]
<1>1. todo \in Seq(Items)
  BY DEF Pending, Items
<1>2. /\ Tail(todo) \in Seq(Items)
      /\ Len(Tail(todo)) = Len(todo) - 1
      /\ \A i \in 1 .. Len(Tail(todo)) : Tail(todo)[i] = todo[i + 1]
  BY <1>1
<1>3. ASSUME NEW i \in 1 .. Len(Tail(todo)) PROVE Tail(todo)[i] # "transfer"
  <2>1. i + 1 \in 2 .. Len(todo)
    BY <1>1, <1>2
  <2> QED
    BY <1>2, <2>1 DEF Pending
<1> QED
  BY <1>2, <1>3

\* A printf in front of calls that are past their transfers.
LEMMA CommandsFirst ==
  ASSUME NEW rest \in Seq(Items), \A i \in 1 .. Len(rest) : rest[i] # "transfer"
  PROVE  LET t == Commands \o rest
         IN  /\ t \in Seq(Items)
             /\ t # << >> /\ Head(t) = "transfer" /\ Len(t) >= 2 /\ t[2] = "flush"
             /\ \A i \in 2 .. Len(t) : t[i] # "transfer"
<1> DEFINE t == Commands \o rest
<1>1. Commands \in Seq(Items) /\ Len(Commands) = 2
      /\ Commands[1] = "transfer" /\ Commands[2] = "flush"
  BY DEF Commands, Items
<1>2. /\ t \in Seq(Items) /\ Len(t) = 2 + Len(rest)
      /\ \A i \in 1 .. Len(t) :
           t[i] = IF i <= Len(Commands) THEN Commands[i] ELSE rest[i - Len(Commands)]
  <2>1. /\ t \in Seq(Items) /\ Len(t) = Len(Commands) + Len(rest)
        /\ \A i \in 1 .. Len(Commands) + Len(rest) :
             t[i] = IF i <= Len(Commands) THEN Commands[i] ELSE rest[i - Len(Commands)]
    BY <1>1, ConcatProperties, Zenon
  <2> QED
    BY <1>1, <2>1
<1>0. Len(rest) \in Nat
  BY LenProperties
<1>3. t[1] = "transfer" /\ t[2] = "flush"
  BY <1>0, <1>1, <1>2
<1>4. ASSUME NEW i \in 2 .. Len(t) PROVE t[i] # "transfer"
  <2>1. CASE i = 2
    BY <1>3, <2>1
  <2>2. CASE i > 2
    <3>1. t[i] = rest[i - 2] /\ i - 2 \in 1 .. Len(rest)
      BY <1>0, <1>1, <1>2, <2>2
    <3> QED
      BY <3>1
  <2> QED
    BY <2>1, <2>2
<1> QED
  BY <1>2, <1>3, <1>4

LEMMA LogKeepsPending ==
  ASSUME Pending, NEW text, NEW rest \in Seq(Items),
         \A i \in 1 .. Len(rest) : rest[i] # "transfer",
         Log(text, rest), UNCHANGED log_terminal
  PROVE  Pending'
<1>1. CASE log_terminal
  <2>1. todo' = Commands \o rest /\ lost' = lost
    BY <1>1 DEF Log
  <2> QED
    BY <2>1, CommandsFirst DEF Pending, Items
<1>2. CASE ~log_terminal
  BY <1>2 DEF Log, Pending, Items
<1> QED
  BY <1>1, <1>2

LEMMA LogKeepsRing ==
  ASSUME Ring, NEW text, NEW rest, Log(text, rest)
  PROVE  Ring'
<1>1. CASE log_terminal
  BY <1>1, ShowKeepsRing DEF Log
<1>2. CASE ~log_terminal
  BY <1>2 DEF Log, Ring, terminalVars
<1> QED
  BY <1>1, <1>2

-----------------------------------------------------------------------------
LEMMA InitIInv == Init => IInv
<1> SUFFICES ASSUME Init PROVE IInv
  OBVIOUS
<1>1. head = 0 /\ tail = 0 /\ todo = << >> /\ screen = display
      /\ lost = FALSE /\ log_terminal = FALSE
  BY DEF Init
<1>2. Ring
  BY <1>1, TerminalAssumption DEF Ring
<1>3. todo \in Seq(Items) /\ \A i \in 2 .. Len(todo) : todo[i] # "transfer"
  BY <1>1
<1>4. Pending
  BY <1>1, <1>3, Zenon DEF Pending, Items
<1> QED
  BY <1>2, <1>4 DEF IInv

LEMMA NextIInv == IInv /\ [Next]_vars => IInv'
<1> SUFFICES ASSUME IInv, [Next]_vars PROVE IInv'
  OBVIOUS
<1> USE DEF IInv
<1>1. ASSUME NEW text \in Texts, printf(text) PROVE IInv'
  <2>1. Show(text) /\ todo' = Commands \o << >> /\ lost' = FALSE /\ UNCHANGED log_terminal
    <3>1. Commands = Commands \o << >>
      BY DEF Commands
    <3> QED
      BY <1>1, <3>1 DEF printf
  <2>2. << >> \in Seq(Items) /\ \A i \in 1 .. Len(<< >>) : << >>[i] # "transfer"
    OBVIOUS
  <2>3. Pending'
    BY <2>1, <2>2, CommandsFirst DEF Pending, Items
  <2> QED
    BY <2>1, <2>3, ShowKeepsRing
<1>2. ASSUME NEW text \in Texts, log(text) PROVE IInv'
  <2>1. << >> \in Seq(Items) /\ \A i \in 1 .. Len(<< >>) : << >>[i] # "transfer"
    OBVIOUS
  <2>2. Log(text, << >>) /\ UNCHANGED log_terminal
    BY <1>2 DEF log
  <2> QED
    BY <2>1, <2>2, LogKeepsPending, LogKeepsRing
<1>3. CASE init_terminal
  BY <1>3 DEF init_terminal, terminalVars, gpuVars, Ring, Pending
<1>4. CASE transfer_to_host_2d
  <2>1. todo # << >> /\ Head(todo) = "transfer" /\ resource' = display /\ todo' = Tail(todo)
        /\ UNCHANGED << head, tail, display, lost, log_terminal >>
    BY <1>4 DEF transfer_to_host_2d, Next_command, terminalVars
  <2>2. todo' # << >> /\ Head(todo') = "flush"
    <3>1. Len(todo) >= 2 /\ todo[2] = "flush"
      BY <2>1 DEF Pending
    <3>2. todo' \in Seq(Items) /\ Len(todo') >= 1 /\ todo'[1] = "flush"
      BY <2>1, <3>1, TailOfTodo
    <3> QED
      BY <3>2
  <2>3. Pending'
    BY <2>1, <2>2, TailOfTodo DEF Pending, Items
  <2> QED
    BY <2>1, <2>3 DEF Ring
<1>5. CASE resource_flush
  <2>1. todo # << >> /\ Head(todo) = "flush" /\ screen' = resource /\ todo' = Tail(todo)
        /\ UNCHANGED << head, tail, display, resource, lost, log_terminal >>
    BY <1>5 DEF resource_flush, Next_command, terminalVars
  <2>2. todo' # << >> => Head(todo') # "transfer"
    <3>1. todo' \in Seq(Items) /\ \A i \in 1 .. Len(todo') : todo'[i] # "transfer"
      BY <2>1, TailOfTodo
    <3> QED
      BY <3>1
  <2>3. resource = display \/ lost
    BY <2>1 DEF Pending
  <2>4. Pending'
    BY <2>1, <2>2, <2>3, TailOfTodo DEF Pending, Items
  <2> QED
    BY <2>1, <2>4 DEF Ring
<1>6. CASE CommandFails
  <2>1. todo # << >> /\ Log(ErrorText, Tail(todo)) /\ UNCHANGED log_terminal
    BY <1>6 DEF CommandFails, Next_command
  <2> QED
    BY <2>1, TailOfTodo, LogKeepsPending, LogKeepsRing
<1>7. CASE Fault
  <2> DEFINE t == [i \in 1 .. ReportLines + 1 |-> IF i <= ReportLines THEN "report" ELSE "wfi"]
  <2>0. ReportLines \in Nat \ {0}
    BY TerminalAssumption
  <2>1. todo' = t /\ UNCHANGED << head, tail, lost, log_terminal >>
    BY <1>7 DEF Fault, terminalVars
  <2>2. t \in Seq(Items) /\ Len(t) = ReportLines + 1
    BY <2>0 DEF Items
  <2>3. Head(t) = "report" /\ t # << >>
    BY <2>0, <2>2
  <2>4. Pending'
    <3>1. \A i \in 1 .. Len(t) : t[i] # "transfer"
      BY <2>2
    <3> HIDE DEF t
    <3>2. \A i \in 2 .. Len(t) : t[i] # "transfer"
      BY <2>0, <2>2, <3>1
    <3> QED
      BY <2>1, <2>2, <2>3, <3>2 DEF Pending, Items
  <2> QED
    BY <2>1, <2>4 DEF Ring
<1>8. CASE sync_exception_current_EL_using_SPEL1
  <2>1. todo # << >> /\ Log(ReportText, Tail(todo)) /\ UNCHANGED log_terminal
    BY <1>8 DEF sync_exception_current_EL_using_SPEL1, Next_command
  <2> QED
    BY <2>1, TailOfTodo, LogKeepsPending, LogKeepsRing
<1>9. CASE UNCHANGED vars
  BY <1>9 DEF vars, terminalVars, gpuVars, Ring, Pending
<1> QED
  BY <1>1, <1>2, <1>3, <1>4, <1>5, <1>6, <1>7, <1>8, <1>9 DEF Next

\* The invariant of all reachable states: the window is never longer than the
\* screen, and whatever is left to do ends with the pictures in step.
THEOREM TerminalInvariant == Spec => []IInv
  BY InitIInv, NextIInv, PTL DEF Spec

-----------------------------------------------------------------------------
\* A pixel inside the rectangle of rows and columns is inside the buffer.
LEMMA Inside ==
  ASSUME NEW W \in Nat, NEW H \in Nat, NEW x \in Nat, NEW y \in Nat, x < W, y < H
  PROVE  y * W + x \in 0 .. W * H - 1
<1>1. H - 1 - y \in Nat
  OBVIOUS
<1>2. (H - 1 - y) * W \in Nat /\ y * W \in Nat
  BY <1>1
<1>3. (H - 1 - y) * W = H * W - W - y * W
  OBVIOUS
<1>4. W * H = H * W /\ W * H \in Nat
  OBVIOUS
<1> QED
  BY <1>2, <1>3, <1>4

\* Column k of n columns of width c.
LEMMA ColumnFits ==
  ASSUME NEW c \in Nat, NEW n \in Nat, NEW k \in 0 .. n - 1, NEW x \in 0 .. c - 1
  PROVE  k * c + x \in Nat /\ k * c + x < n * c
<1>1. (n - 1 - k) * c \in Nat /\ k * c \in Nat
  OBVIOUS
<1>2. (n - 1 - k) * c = n * c - c - k * c
  OBVIOUS
<1> QED
  BY <1>1, <1>2

LEMMA RingDrawsInside == Ring => DrawsInside
<1> SUFFICES ASSUME Ring,
                    NEW i \in 0 .. Drawn(head, tail) - 1, NEW k \in Columns,
                    NEW x \in 0 .. 2 * GlyphSize - 1, NEW y \in 0 .. 2 * GlyphSize - 1
             PROVE  At(k * 2 * GlyphSize + x, Row(i) + y) \in Pixels
  BY DEF DrawsInside
<1>1. GlyphSize \in Nat \ {0} /\ screen_width \in Nat /\ screen_height \in Nat
      /\ MAX_TEXT_LENGTH \in Nat /\ NR_OF_LINES \in Nat \ {0} /\ Slots = 2 * NR_OF_LINES
      /\ MAX_TEXT_LENGTH * (2 * GlyphSize) <= screen_width
      /\ NR_OF_LINES * (4 * GlyphSize) <= screen_height
  BY TerminalAssumption, DrawingAssumption
<1>2. i \in 0 .. NR_OF_LINES - 1
  <2>1. Rem(head - tail, Slots) = head - tail
    BY <1>1, RemSmall DEF Ring
  <2> QED
    BY <1>1, <2>1 DEF Drawn, Ring
<1>3. k * (2 * GlyphSize) + x \in Nat /\ k * (2 * GlyphSize) + x < screen_width
  <2>1. k * (2 * GlyphSize) + x \in Nat /\ k * (2 * GlyphSize) + x < MAX_TEXT_LENGTH * (2 * GlyphSize)
    BY <1>1, ColumnFits DEF Columns
  <2>2. MAX_TEXT_LENGTH * (2 * GlyphSize) \in Nat
        /\ MAX_TEXT_LENGTH * (2 * GlyphSize) <= screen_width
    BY <1>1
  <2> QED
    BY <1>1, <2>1, <2>2
<1>4. i * (4 * GlyphSize) + y \in Nat /\ i * (4 * GlyphSize) + y < screen_height
  <2>1. i * (4 * GlyphSize) + y \in Nat /\ i * (4 * GlyphSize) + y < NR_OF_LINES * (4 * GlyphSize)
    BY <1>1, <1>2, ColumnFits
  <2>2. NR_OF_LINES * (4 * GlyphSize) \in Nat
        /\ NR_OF_LINES * (4 * GlyphSize) <= screen_height
    BY <1>1
  <2> QED
    BY <1>1, <2>1, <2>2
<1>5. k * 2 * GlyphSize = k * (2 * GlyphSize) /\ i * 4 * GlyphSize = i * (4 * GlyphSize)
  BY <1>1, <1>2 DEF Columns
<1> QED
  BY <1>1, <1>3, <1>4, <1>5, Inside DEF At, Row, Pixels

\* No pixel is drawn outside the frame buffer, for any screen on which the
\* lines fit, over all rounds of the ring.
THEOREM NothingDrawnOutside == Spec => []DrawsInside
<1>1. IInv => DrawsInside
  BY RingDrawsInside DEF IInv
<1> QED
  BY <1>1, TerminalInvariant, PTL

\* The monitor is up to date between calls and at the end of an exception's
\* handler, for any number of errors and exceptions in any order.
THEOREM MonitorCatchesUp == Spec => []ScreenUpToDate
<1>1. IInv => ScreenUpToDate
  BY DEF IInv, Pending, ScreenUpToDate
<1> QED
  BY <1>1, TerminalInvariant, PTL

-----------------------------------------------------------------------------
\* Division with remainder has one outcome.
LEMMA Quotient ==
  ASSUME NEW s \in Nat \ {0}, NEW q \in Int, NEW r \in 0 .. s - 1
  PROVE  (s * q + r) % s = r /\ (s * q + r) \div s = q
<1> DEFINE a == s * q + r
           d == a \div s
           m == a % s
<1>1. a \in Int
  BY SMT
<1>2. d \in Int /\ m \in 0 .. s - 1 /\ a = s * d + m
  BY <1>1, SMT
<1> HIDE DEF d, m
<1>3. ASSUME q > d PROVE FALSE
  <2>1. s * (q - d) = m - r
    BY <1>2, SMT
  <2>2. s * (q - d) >= s
    BY <1>2, <1>3, SMT
  <2> QED
    BY <1>2, <2>1, <2>2, SMT
<1>4. ASSUME d > q PROVE FALSE
  <2>1. s * (d - q) = r - m
    BY <1>2, SMT
  <2>2. s * (d - q) >= s
    BY <1>2, <1>4, SMT
  <2> QED
    BY <1>2, <2>1, <2>2, SMT
<1>5. q = d
  BY <1>2, <1>3, <1>4, SMT
<1>6. m = r
  BY <1>2, <1>5, SMT
<1> QED
  BY <1>5, <1>6 DEF d, m

LEMMA QuotientAndRest ==
  ASSUME NEW a \in Nat, NEW s \in Nat \ {0}
  PROVE  /\ a \div s \in Nat /\ a % s \in 0 .. s - 1
         /\ a = s * (a \div s) + (a % s)
  BY SMT

\* The distance of two pixels of which the second is the corner of a square that
\* fits the row: row and column in the square, if the first is in it.
LEMMA SquareOffset ==
  ASSUME NEW w \in Nat \ {0}, NEW n \in Nat \ {0}, NEW x \in 0 .. w - 1, NEW y \in Nat,
         NEW cx \in Nat, NEW cy \in Nat, cx + n <= w,
         NEW off, off = (y * w + x) - (cy * w + cx)
  PROVE  /\ off >= 0 /\ off \div w < n /\ off % w < n
              <=> cx <= x /\ x < cx + n /\ cy <= y /\ y < cy + n
         /\ cx <= x => off \div w = y - cy /\ off % w = x - cx
<1>1. CASE cx <= x
  <2>1. off = w * (y - cy) + (x - cx) /\ y - cy \in Int /\ x - cx \in 0 .. w - 1
    BY <1>1
  <2>2. off \div w = y - cy /\ off % w = x - cx
    BY <2>1, Quotient
  <2>3. off >= 0 <=> y >= cy
    <3>1. CASE y >= cy
      <4>1. w * (y - cy) \in Nat
        BY <3>1
      <4> QED BY <2>1, <3>1, <4>1
    <3>2. CASE y < cy
      <4>1. w * (cy - y - 1) \in Nat
        BY <3>2
      <4>2. w * (y - cy) = - (w * (cy - y - 1)) - w
        BY <3>2
      <4> QED BY <2>1, <3>2, <4>1, <4>2
    <3> QED BY <3>1, <3>2
  <2> QED
    BY <1>1, <2>2, <2>3
<1>2. CASE x < cx
  <2>1. off = w * (y - cy - 1) + (w + x - cx) /\ y - cy - 1 \in Int /\ w + x - cx \in 0 .. w - 1
    BY <1>2
  <2>2. off % w = w + x - cx
    BY <2>1, Quotient
  <2> QED
    BY <1>2, <2>2
<1> QED
  BY <1>1, <1>2

LEMMA LetterIsPicture ==
  ASSUME NEW d \in Pictures, NEW x, NEW y, NEW l, NEW c \in Colors, NEW size
  PROVE  draw_letter(d, x, y, l, c, size) \in Pictures
  BY DEF draw_letter, Pictures, Colors

\* Width of a letter, distance of two lines; the bit of a glyph at a pixel of
\* the letter.
Wide == 2 * GlyphSize
High == 4 * GlyphSize
Bit(l, x, y) == << y \div 2, x \div 2 >> \in font8x8_basic[l]

ScreenX == 0 .. screen_width - 1
ScreenY == 0 .. screen_height - 1

LEMMA Sizes ==
  /\ screen_width \in Nat \ {0} /\ screen_height \in Nat \ {0}
  /\ GlyphSize \in Nat \ {0}
  /\ Wide \in Nat \ {0} /\ Wide = 2 * GlyphSize /\ Wide = GlyphSize * 2
  /\ High \in Nat \ {0} /\ High = 4 * GlyphSize /\ Wide < High
  BY DrawingAssumption DEF Wide, High

LEMMA OnScreen ==
  ASSUME NEW x \in ScreenX, NEW y \in ScreenY
  PROVE  At(x, y) \in Pixels
  BY Sizes, Inside DEF At, Pixels, ScreenX, ScreenY

LEMMA LetterAt ==
  ASSUME NEW d, NEW cx \in Nat, NEW cy \in Nat, cx + Wide <= screen_width,
         NEW l, NEW c, NEW x \in ScreenX, NEW y \in ScreenY
  PROVE  draw_letter(d, cx, cy, l, c, 2)[At(x, y)] =
           IF cx <= x /\ x < cx + Wide /\ cy <= y /\ y < cy + Wide
             THEN IF Bit(l, x - cx, y - cy) THEN c ELSE "black"
             ELSE d[At(x, y)]
<1> DEFINE off == At(x, y) - At(cx, cy)
           Within == cx <= x /\ x < cx + Wide /\ cy <= y /\ y < cy + Wide
<1>1. /\ off >= 0 /\ off \div screen_width < Wide /\ off % screen_width < Wide <=> Within
      /\ cx <= x => off \div screen_width = y - cy /\ off % screen_width = x - cx
  <2>1. x \in 0 .. screen_width - 1 /\ y \in Nat
    BY DEF ScreenX, ScreenY
  <2>2. off = (y * screen_width + x) - (cy * screen_width + cx)
    BY DEF At
  <2> HIDE DEF off
  <2> QED BY <2>1, <2>2, Sizes, SquareOffset
<1>2. draw_letter(d, cx, cy, l, c, 2)[At(x, y)] =
        IF off >= 0 /\ off \div screen_width < Wide /\ off % screen_width < Wide
          THEN IF << (off \div screen_width) \div 2, (off % screen_width) \div 2 >>
                    \in font8x8_basic[l] THEN c ELSE "black"
          ELSE d[At(x, y)]
  BY OnScreen, Sizes, Zenon DEF draw_letter
<1> HIDE DEF off
<1>3. CASE Within
  BY <1>1, <1>2, <1>3, Zenon DEF Bit
<1>4. CASE ~Within
  BY <1>1, <1>2, <1>4, Zenon
<1> QED
  BY <1>3, <1>4

\* The first n letters of a line at height cy.
TextDrawn(after, before, n, cy, string, c) ==
  \A x \in ScreenX, y \in ScreenY :
    after[At(x, y)] = IF x < n * Wide /\ cy <= y /\ y < cy + Wide
                        THEN IF Bit(string[x \div Wide], x % Wide, y - cy) THEN c ELSE "black"
                        ELSE before[At(x, y)]

LEMMA OneMoreLetter ==
  ASSUME NEW d, NEW p, NEW i \in Nat \ {0}, i * Wide <= screen_width, NEW cy \in Nat,
         NEW string, NEW c, TextDrawn(p, d, i - 1, cy, string, c)
  PROVE  TextDrawn(draw_letter(p, (i - 1) * Wide, cy, string[i - 1], c, 2),
                   d, i, cy, string, c)
<1> DEFINE new == draw_letter(p, (i - 1) * Wide, cy, string[i - 1], c, 2)
           cx == (i - 1) * Wide
<1>1. cx \in Nat /\ cx + Wide = i * Wide /\ cx + Wide <= screen_width
  BY Sizes
<1> SUFFICES ASSUME NEW x \in ScreenX, NEW y \in ScreenY
             PROVE  new[At(x, y)] =
                      IF x < i * Wide /\ cy <= y /\ y < cy + Wide
                        THEN IF Bit(string[x \div Wide], x % Wide, y - cy) THEN c ELSE "black"
                        ELSE d[At(x, y)]
  BY DEF TextDrawn
<1>2. new[At(x, y)] =
        IF cx <= x /\ x < cx + Wide /\ cy <= y /\ y < cy + Wide
          THEN IF Bit(string[i - 1], x - cx, y - cy) THEN c ELSE "black"
          ELSE p[At(x, y)]
  BY <1>1, LetterAt
<1>3. p[At(x, y)] =
        IF x < cx /\ cy <= y /\ y < cy + Wide
          THEN IF Bit(string[x \div Wide], x % Wide, y - cy) THEN c ELSE "black"
          ELSE d[At(x, y)]
  BY DEF TextDrawn
<1>4. x \in Nat
  BY DEF ScreenX
<1> HIDE DEF new
<1>5. CASE cx <= x /\ x < cx + Wide
  <2>1. x = Wide * (i - 1) + (x - cx) /\ x - cx \in 0 .. Wide - 1 /\ i - 1 \in Int
    BY <1>1, <1>4, <1>5, Sizes
  <2>2. x \div Wide = i - 1 /\ x % Wide = x - cx
    BY <2>1, Sizes, Quotient
  <2>3. x < i * Wide /\ ~(x < cx)
    BY <1>1, <1>4, <1>5, Sizes
  <2> HIDE DEF cx
  <2> QED
    BY <1>2, <1>3, <1>5, <2>2, <2>3, Zenon
<1>6. CASE ~(cx <= x /\ x < cx + Wide)
  <2>1. x < cx <=> x < i * Wide
    BY <1>1, <1>4, <1>6, Sizes
  <2> HIDE DEF cx
  <2> QED
    BY <1>2, <1>3, <1>6, <2>1, Zenon
<1> QED
  BY <1>5, <1>6

LEMMA TextAt ==
  ASSUME NEW d \in Pictures, NEW n \in Nat, n * Wide <= screen_width, NEW cy \in Nat,
         NEW string, NEW c \in Colors
  PROVE  /\ draw_text(d, 0, cy, string, n, c, 2) \in Pictures
         /\ TextDrawn(draw_text(d, 0, cy, string, n, c, 2), d, n, cy, string, c)
<1> DEFINE Next1(p, i) == draw_letter(p, 0 + (i - 1) * 2 * GlyphSize, cy, string[i - 1], c, 2)
           step == [q \in Pictures \X Nat |-> Next1(q[1], q[2])]
           upto == CHOOSE g : g = [i \in 0 .. n |-> IF i = 0 THEN d ELSE Next1(g[i - 1], i)]
<1>1. \A p \in Pictures, i \in Nat : Next1(p, i) \in Pictures
  BY LetterIsPicture
<1>2. draw_text(d, 0, cy, string, n, c, 2) = upto[n]
  BY DEF draw_text
<1>3. \A i \in Nat \ {0} : 0 + (i - 1) * 2 * GlyphSize = (i - 1) * Wide
  BY Sizes
<1>4. \A p, i : i \in Nat \ {0} => Next1(p, i) = draw_letter(p, (i - 1) * Wide, cy, string[i - 1], c, 2)
  BY <1>3
<1> HIDE DEF Next1
<1>5. step \in [Pictures \X Nat -> Pictures]
      /\ \A p \in Pictures, i \in Nat : step[<< p, i >>] = Next1(p, i)
  BY <1>1
<1> HIDE DEF step
<1>6. PICK g \in [0 .. n -> Pictures] : Recursion(g, d, step, n)
  BY <1>5, RecursionUpTo
<1>7. g = [i \in 0 .. n |-> IF i = 0 THEN d ELSE Next1(g[i - 1], i)]
  <2>1. \A i \in 0 .. n : i # 0 => step[<< g[i - 1], i >>] = Next1(g[i - 1], i)
    <3>1. \A i \in 0 .. n : i # 0 => i - 1 \in 0 .. n /\ i \in Nat
      OBVIOUS
    <3>2. \A i \in 0 .. n : i # 0 => g[i - 1] \in Pictures
      BY <3>1
    <3> QED
      BY <1>5, <3>1, <3>2, Zenon
  <2>2. \A i \in 0 .. n : g[i] = IF i = 0 THEN d ELSE step[<< g[i - 1], i >>]
    <3>1. \A i \in 0 .. n : i = 0 \/ i \in 1 .. n
      OBVIOUS
    <3> QED
      BY <1>6, <3>1, Zenon DEF Recursion
  <2>3. \A i \in 0 .. n : g[i] = IF i = 0 THEN d ELSE Next1(g[i - 1], i)
    BY <2>1, <2>2, Zenon
  <2> QED
    BY <1>6, <2>3, Zenon
<1>8. upto = [i \in 0 .. n |-> IF i = 0 THEN d ELSE Next1(upto[i - 1], i)]
  BY <1>7, Zenon
<1>9. ASSUME NEW f, f = [i \in 0 .. n |-> IF i = 0 THEN d ELSE Next1(f[i - 1], i)]
      PROVE  f[n] \in Pictures /\ TextDrawn(f[n], d, n, cy, string, c)
  <2> DEFINE T == {i \in 0 .. n : f[i] \in Pictures /\ TextDrawn(f[i], d, i, cy, string, c)}
  <2>1. f[0] = d /\ \A i \in 1 .. n : f[i] = Next1(f[i - 1], i)
    <3>1. 0 \in 0 .. n /\ \A i \in 1 .. n : i \in 0 .. n /\ i # 0
      OBVIOUS
    <3> QED
      BY <1>9, <3>1, Zenon
  <2>2. 0 \in T
    <3>1. \A x \in ScreenX : ~(x < 0 * Wide)
      BY Sizes DEF ScreenX
    <3> QED
      BY <2>1, <3>1 DEF TextDrawn
  <2>3. ASSUME NEW i \in 1 .. n, i - 1 \in T PROVE i \in T
    <3>1. f[i] = draw_letter(f[i - 1], (i - 1) * Wide, cy, string[i - 1], c, 2)
      BY <1>4, <2>1
    <3>2. f[i] \in Pictures
      BY <3>1, <2>3, LetterIsPicture
    <3>3. i * Wide <= screen_width
      <4>1. (n - i) * Wide \in Nat
        BY Sizes
      <4>2. (n - i) * Wide = n * Wide - i * Wide
        BY Sizes
      <4> QED
        BY <4>1, <4>2, Sizes
    <3>4. TextDrawn(f[i], d, i, cy, string, c)
      BY <2>3, <3>1, <3>3, OneMoreLetter
    <3> QED
      BY <3>2, <3>4
  <2> HIDE DEF T
  <2>4. n \in T
    BY <2>2, <2>3, InductionUpTo
  <2> QED
    BY <2>4 DEF T
<1> HIDE DEF upto
<1> QED
  BY <1>2, <1>8, <1>9

-----------------------------------------------------------------------------
\* The first n lines, from slot t on, on an empty screen.
LinesDrawn(d, buffer, t, n) ==
  \A x \in ScreenX, y \in ScreenY :
    d[At(x, y)] =
      IF /\ y < n * High /\ y % High < Wide /\ x < MAX_TEXT_LENGTH * Wide
         /\ Bit(buffer[(t + y \div High) % Slots][x \div Wide], x % Wide, y % High)
        THEN "white" ELSE "black"

LEMMA OneMoreLine ==
  ASSUME NEW p, NEW buffer, NEW t \in Nat, NEW i \in Nat \ {0},
         LinesDrawn(p, buffer, t, i - 1),
         NEW new, TextDrawn(new, p, MAX_TEXT_LENGTH, Row(i - 1),
                            buffer[(t + i - 1) % Slots], "white")
  PROVE  LinesDrawn(new, buffer, t, i)
<1> DEFINE cy == (i - 1) * High
<1>1. cy \in Nat /\ cy + High = i * High /\ cy = Row(i - 1)
  BY Sizes DEF Row
<1> SUFFICES ASSUME NEW x \in ScreenX, NEW y \in ScreenY
             PROVE  new[At(x, y)] =
                      IF /\ y < i * High /\ y % High < Wide /\ x < MAX_TEXT_LENGTH * Wide
                         /\ Bit(buffer[(t + y \div High) % Slots][x \div Wide], x % Wide, y % High)
                        THEN "white" ELSE "black"
  BY DEF LinesDrawn
<1>2. new[At(x, y)] =
        IF x < MAX_TEXT_LENGTH * Wide /\ cy <= y /\ y < cy + Wide
          THEN IF Bit(buffer[(t + i - 1) % Slots][x \div Wide], x % Wide, y - cy)
                 THEN "white" ELSE "black"
          ELSE p[At(x, y)]
  BY <1>1, Zenon DEF TextDrawn
<1>3. p[At(x, y)] =
        IF /\ y < cy /\ y % High < Wide /\ x < MAX_TEXT_LENGTH * Wide
           /\ Bit(buffer[(t + y \div High) % Slots][x \div Wide], x % Wide, y % High)
          THEN "white" ELSE "black"
  BY Zenon DEF LinesDrawn
<1>4. y \in Nat
  BY DEF ScreenY
<1>5. CASE cy <= y /\ y < i * High
  <2>1. y = High * (i - 1) + (y - cy) /\ y - cy \in 0 .. High - 1 /\ i - 1 \in Int
    BY <1>1, <1>4, <1>5, Sizes
  <2> HIDE DEF cy
  <2>2. y \div High = i - 1 /\ y % High = y - cy
    <3>1. ASSUME NEW q \in Int, NEW r \in 0 .. High - 1, y = High * q + r
          PROVE  y \div High = q /\ y % High = r
      BY <3>1, Sizes, Quotient
    <3> QED
      BY <2>1, <3>1, Zenon
  <2>3. ~(y < cy) /\ (y - cy < Wide <=> y < cy + Wide)
    BY <1>1, <1>4, <1>5, Sizes DEF cy
  <2>4. t + i - 1 = t + (i - 1)
    OBVIOUS
  <2> QED
    BY <1>2, <1>3, <1>5, <2>2, <2>3, <2>4, Zenon
<1>6. CASE ~(cy <= y /\ y < i * High)
  <2>1. (y < cy <=> y < i * High) /\ ~(cy <= y /\ y < cy + Wide)
    BY <1>1, <1>4, <1>6, Sizes
  <2> HIDE DEF cy
  <2> QED
    BY <1>2, <1>3, <2>1, Zenon
<1> QED
  BY <1>5, <1>6

LEMMA LinesAt ==
  ASSUME NEW buffer, NEW h \in Int, NEW t \in Nat, NEW n \in Nat, n = Drawn(h, t)
  PROVE  /\ draw_lines(buffer, h, t) \in Pictures
         /\ LinesDrawn(draw_lines(buffer, h, t), buffer, t, n)
<1> DEFINE Next1(p, i) == draw_text(p, 0, Row(i - 1), buffer[(t + i - 1) % Slots],
                                    MAX_TEXT_LENGTH, "white", 2)
           step == [q \in Pictures \X Nat |->
                      IF q[2] = 0 THEN q[1] ELSE Next1(q[1], q[2])]
           upto == CHOOSE g : g = [i \in 0 .. n |-> IF i = 0 THEN clear_screen
                                                     ELSE Next1(g[i - 1], i)]
<1>1. ASSUME NEW p \in Pictures, NEW i \in Nat \ {0}
      PROVE  /\ Next1(p, i) \in Pictures
             /\ TextDrawn(Next1(p, i), p, MAX_TEXT_LENGTH, Row(i - 1),
                          buffer[(t + i - 1) % Slots], "white")
  <2>1. MAX_TEXT_LENGTH \in Nat /\ MAX_TEXT_LENGTH * Wide <= screen_width
    BY TerminalAssumption, Sizes
  <2>2. Row(i - 1) \in Nat /\ "white" \in Colors
    BY Sizes DEF Row, Colors
  <2> QED
    BY <2>1, <2>2, TextAt
<1>2. draw_lines(buffer, h, t) = upto[n]
  BY DEF draw_lines
<1>3. clear_screen \in Pictures /\ LinesDrawn(clear_screen, buffer, t, 0)
  <2>1. clear_screen \in Pictures
    BY DEF clear_screen, Pictures, Colors
  <2>2. \A x \in ScreenX, y \in ScreenY : clear_screen[At(x, y)] = "black"
    BY OnScreen DEF clear_screen
  <2>3. \A y \in ScreenY : ~(y < 0 * High)
    BY Sizes DEF ScreenY
  <2> QED
    BY <2>1, <2>2, <2>3, Zenon DEF LinesDrawn
<1> HIDE DEF Next1
<1>5. step \in [Pictures \X Nat -> Pictures]
      /\ \A p \in Pictures, i \in Nat \ {0} : step[<< p, i >>] = Next1(p, i)
  BY <1>1
<1> HIDE DEF step
<1>6. PICK g \in [0 .. n -> Pictures] : Recursion(g, clear_screen, step, n)
  BY <1>3, <1>5, RecursionUpTo
<1>7. g = [i \in 0 .. n |-> IF i = 0 THEN clear_screen ELSE Next1(g[i - 1], i)]
  <2>1. \A i \in 0 .. n : i # 0 => step[<< g[i - 1], i >>] = Next1(g[i - 1], i)
    <3>1. \A i \in 0 .. n : i # 0 => i - 1 \in 0 .. n /\ i \in Nat \ {0}
      OBVIOUS
    <3>2. \A i \in 0 .. n : i # 0 => g[i - 1] \in Pictures
      BY <3>1
    <3> QED
      BY <1>5, <3>1, <3>2, Zenon
  <2>2. \A i \in 0 .. n : g[i] = IF i = 0 THEN clear_screen ELSE step[<< g[i - 1], i >>]
    <3>1. \A i \in 0 .. n : i = 0 \/ i \in 1 .. n
      OBVIOUS
    <3> QED
      BY <1>6, <3>1, Zenon DEF Recursion
  <2>3. \A i \in 0 .. n : g[i] = IF i = 0 THEN clear_screen ELSE Next1(g[i - 1], i)
    BY <2>1, <2>2, Zenon
  <2> QED
    BY <1>6, <2>3, Zenon
<1>8. upto = [i \in 0 .. n |-> IF i = 0 THEN clear_screen ELSE Next1(upto[i - 1], i)]
  BY <1>7, Zenon
<1>9. ASSUME NEW f, f = [i \in 0 .. n |-> IF i = 0 THEN clear_screen ELSE Next1(f[i - 1], i)]
      PROVE  f[n] \in Pictures /\ LinesDrawn(f[n], buffer, t, n)
  <2> DEFINE T == {i \in 0 .. n : f[i] \in Pictures /\ LinesDrawn(f[i], buffer, t, i)}
  <2>1. f[0] = clear_screen /\ \A i \in 1 .. n : f[i] = Next1(f[i - 1], i)
    <3>1. 0 \in 0 .. n /\ \A i \in 1 .. n : i \in 0 .. n /\ i # 0
      OBVIOUS
    <3> QED
      BY <1>9, <3>1, Zenon
  <2>2. 0 \in T
    BY <1>3, <2>1
  <2>3. ASSUME NEW i \in 1 .. n, i - 1 \in T PROVE i \in T
    <3>1. i \in Nat \ {0} /\ f[i - 1] \in Pictures /\ f[i] = Next1(f[i - 1], i)
      BY <2>1, <2>3
    <3>2. LinesDrawn(f[i - 1], buffer, t, i - 1)
      BY <2>3
    <3> HIDE DEF T
    <3>3. f[i] \in Pictures /\ LinesDrawn(f[i], buffer, t, i)
      BY <1>1, <3>1, <3>2, OneMoreLine
    <3> QED
      BY <3>3 DEF T
  <2> HIDE DEF T
  <2>4. 0 .. n \subseteq T
    <3>1. \A i \in 1 .. n : i - 1 \in T => i \in T
      BY <2>3
    <3> QED
      BY <2>2, <3>1, InductionUpTo
  <2> QED
    <3>1. n \in T
      BY <2>4
    <3> QED
      BY <3>1 DEF T
<1> HIDE DEF upto
<1> QED
  BY <1>2, <1>8, <1>9

-----------------------------------------------------------------------------
\* The slot of the line that was printed `age` lines before the newest.
SlotOf(h, age) == IF h - 1 - age >= 0 THEN h - 1 - age ELSE h - 1 - age + Slots

LEMMA SlotsMoveOn ==
  ASSUME NEW h \in 0 .. Slots - 1
  PROVE  /\ next_head(h) \in 0 .. Slots - 1
         /\ h + 1 < Slots => next_head(h) = h + 1
         /\ h + 1 = Slots => next_head(h) = 0
         /\ SlotOf(next_head(h), 0) = h
         /\ \A age \in 1 .. NR_OF_LINES - 1 :
              /\ SlotOf(next_head(h), age) = SlotOf(h, age - 1)
              /\ SlotOf(h, age - 1) \in (0 .. Slots - 1) \ {h}
<1>1. Slots = 2 * NR_OF_LINES /\ NR_OF_LINES \in Nat \ {0}
  BY TerminalAssumption
<1>2. CASE h + 1 < Slots
  <2>1. next_head(h) = h + 1
    BY <1>1, <1>2 DEF next_head
  <2> QED
    BY <1>1, <1>2, <2>1 DEF SlotOf
<1>3. CASE h + 1 = Slots
  <2>1. next_head(h) = 0
    BY <1>1, <1>3 DEF next_head
  <2> QED
    BY <1>1, <1>3, <2>1 DEF SlotOf
<1> QED
  BY <1>1, <1>2, <1>3

\* A slot begins with the text, and is clear behind it if it is clean.
Holds(slot, text, clean) ==
  \A k \in Columns : /\ k < Len(text) => slot[k] = text[k + 1]
                     /\ clean /\ k >= Len(text) => slot[k] = NUL

Clear(slot) == \A k \in Columns : slot[k] = NUL

LEMMA FormatHolds ==
  ASSUME NEW slot \in [Columns -> Chars], NEW text \in AllTexts,
         NEW clean, clean => Clear(slot)
  PROVE  /\ format_string(slot, text) \in [Columns -> Chars]
         /\ Holds(format_string(slot, text), text, clean)
<1>1. text \in Seq(Chars \ {NUL}) /\ Len(text) \in Nat /\ NUL \in Chars
  BY TerminalAssumption, DrawingAssumption
<1>2. \A k \in Columns : k \in Nat
  BY TerminalAssumption DEF Columns
<1>3. \A k \in Columns : k < Len(text) => text[k + 1] \in Chars
  BY <1>1, <1>2
<1>4. format_string(slot, text) \in [Columns -> Chars]
  BY <1>1, <1>3 DEF format_string
<1>5. ASSUME NEW k \in Columns
      PROVE  /\ k < Len(text) => format_string(slot, text)[k] = text[k + 1]
             /\ clean /\ k >= Len(text) => format_string(slot, text)[k] = NUL
  <2>1. format_string(slot, text)[k] =
          IF k < Len(text) THEN text[k + 1] ELSE IF k = Len(text) THEN NUL ELSE slot[k]
    BY DEF format_string
  <2>2. k >= Len(text) => ~(k < Len(text))
    BY <1>1, <1>2
  <2> QED
    BY <2>1, <2>2, Zenon DEF Clear
<1> QED
  BY <1>4, <1>5 DEF Holds

\* The last n lines, when one more comes in.
LastOf(ls, text, n) ==
  LET all == Append(ls, text)
  IN  IF Len(all) > n THEN Tail(all) ELSE all

LEMMA OneMoreText ==
  ASSUME NEW S, NEW ls \in Seq(S), NEW text \in S, NEW n \in Nat \ {0}, Len(ls) <= n,
         NEW new, new = LastOf(ls, text, n)
  PROVE  /\ new \in Seq(S)
         /\ Len(new) = IF Len(ls) < n THEN Len(ls) + 1 ELSE n
         /\ new[Len(new)] = text
         /\ \A age \in 1 .. Len(new) - 1 : new[Len(new) - age] = ls[Len(ls) - (age - 1)]
<1> DEFINE all == Append(ls, text)
<1>1. /\ all \in Seq(S) /\ Len(all) = Len(ls) + 1 /\ Len(ls) \in Nat
      /\ \A i \in 1 .. Len(ls) : all[i] = ls[i]
      /\ all[Len(ls) + 1] = text
  BY AppendProperties
<1>2. new = IF Len(all) > n THEN Tail(all) ELSE all
  BY DEF LastOf
<1> HIDE DEF all
<1>3. CASE Len(ls) < n
  <2>1. new = all
    BY <1>1, <1>2, <1>3
  <2> QED
    BY <1>1, <1>3, <2>1
<1>4. CASE Len(ls) = n
  <2>1. new = Tail(all) /\ all # << >>
    BY <1>1, <1>2, <1>4
  <2>2. /\ new \in Seq(S) /\ Len(new) = Len(all) - 1
        /\ \A i \in 1 .. Len(new) : new[i] = all[i + 1]
    BY <1>1, <2>1
  <2> QED
    BY <1>1, <1>4, <2>2
<1> QED
  BY <1>1, <1>3, <1>4

-----------------------------------------------------------------------------
\* What the ring holds is what was printed: the last lines in the slots before
\* the head, nothing in those that have not been used yet.
Record(buffer, h, ls, count) ==
  /\ buffer \in [0 .. Slots - 1 -> [Columns -> Chars]]
  /\ ls \in Seq(AllTexts)
  /\ Len(ls) = IF count < NR_OF_LINES THEN count ELSE NR_OF_LINES
  /\ count \in 0 .. Slots + 1
  /\ count < Slots => h = count
  /\ \A s \in 0 .. Slots - 1 : s >= count => Clear(buffer[s])
  /\ \A age \in 0 .. Len(ls) - 1 :
       Holds(buffer[SlotOf(h, age)], ls[Len(ls) - age], count <= Slots)

LEMMA RecordGoesOn ==
  ASSUME NEW buffer, NEW h \in 0 .. Slots - 1, NEW ls, NEW count,
         Record(buffer, h, ls, count), NEW text \in AllTexts
  PROVE  Record([buffer EXCEPT ![h] = format_string(@, text)], next_head(h),
                LastOf(ls, text, NR_OF_LINES), IF count > Slots THEN count ELSE count + 1)
<1> DEFINE b == [buffer EXCEPT ![h] = format_string(@, text)]
           new == LastOf(ls, text, NR_OF_LINES)
           n == IF count > Slots THEN count ELSE count + 1
           slot == format_string(buffer[h], text)
<1>1. Slots = 2 * NR_OF_LINES /\ NR_OF_LINES \in Nat \ {0} /\ Slots \in Nat
  BY TerminalAssumption
<1>2. /\ buffer \in [0 .. Slots - 1 -> [Columns -> Chars]] /\ buffer[h] \in [Columns -> Chars]
      /\ ls \in Seq(AllTexts) /\ Len(ls) \in Nat /\ Len(ls) <= NR_OF_LINES
      /\ count \in 0 .. Slots + 1
  BY <1>1 DEF Record
<1>3. n \in 0 .. Slots + 1 /\ (n <= Slots => count < Slots /\ count <= Slots /\ n = count + 1)
  BY <1>1, <1>2
<1>4. n <= Slots => Clear(buffer[h])
  BY <1>1, <1>2, <1>3 DEF Record
<1>5. slot \in [Columns -> Chars] /\ Holds(slot, text, n <= Slots)
  BY <1>2, <1>4, FormatHolds
<1>6. /\ b \in [0 .. Slots - 1 -> [Columns -> Chars]] /\ b[h] = slot
      /\ \A s \in (0 .. Slots - 1) \ {h} : b[s] = buffer[s]
  BY <1>2, <1>5
<1>7. /\ new \in Seq(AllTexts)
      /\ Len(new) = IF Len(ls) < NR_OF_LINES THEN Len(ls) + 1 ELSE NR_OF_LINES
      /\ new[Len(new)] = text
      /\ \A age \in 1 .. Len(new) - 1 : new[Len(new) - age] = ls[Len(ls) - (age - 1)]
  BY <1>1, <1>2, OneMoreText
<1> HIDE DEF b, new, slot
<1>8. Len(new) = IF n < NR_OF_LINES THEN n ELSE NR_OF_LINES
  BY <1>1, <1>2, <1>7 DEF Record
<1>9. ASSUME n < Slots PROVE next_head(h) = n
  <2>1. n = count + 1 /\ h = count /\ h + 1 < Slots
    BY <1>1, <1>2, <1>3, <1>9 DEF Record
  <2> QED
    BY <2>1, SlotsMoveOn
<1>10. ASSUME NEW s \in 0 .. Slots - 1, s >= n PROVE Clear(b[s])
  <2>1. n < Slots /\ n = count + 1 /\ h = count
    BY <1>1, <1>2, <1>10 DEF Record
  <2>2. s # h /\ s >= count
    BY <1>2, <1>10, <2>1
  <2> QED
    BY <1>6, <2>2 DEF Record
<1>11. ASSUME NEW age \in 0 .. Len(new) - 1
       PROVE  Holds(b[SlotOf(next_head(h), age)], new[Len(new) - age], n <= Slots)
  <2>1. CASE age = 0
    <3>1. SlotOf(next_head(h), age) = h /\ new[Len(new) - age] = text
      BY <1>7, <2>1, SlotsMoveOn
    <3> QED
      BY <1>5, <1>6, <3>1
  <2>2. CASE age # 0
    <3>1. age \in 1 .. Len(new) - 1 /\ age \in 1 .. NR_OF_LINES - 1 /\ age - 1 \in 0 .. Len(ls) - 1
      BY <1>1, <1>2, <1>7, <2>2
    <3>2. b[SlotOf(next_head(h), age)] = buffer[SlotOf(h, age - 1)]
      BY <1>6, <3>1, SlotsMoveOn
    <3>3. new[Len(new) - age] = ls[Len(ls) - (age - 1)]
      BY <1>7, <3>1
    <3>4. Holds(buffer[SlotOf(h, age - 1)], ls[Len(ls) - (age - 1)], count <= Slots)
      BY <3>1 DEF Record
    <3> QED
      BY <1>3, <3>2, <3>3, <3>4, Zenon DEF Holds
  <2> QED
    BY <2>1, <2>2
<1> HIDE DEF n
<1>12. Record(b, next_head(h), new, n)
  BY <1>3, <1>6, <1>7, <1>8, <1>9, <1>10, <1>11, Zenon DEF Record
<1> QED
  BY <1>12 DEF b, new, n

-----------------------------------------------------------------------------
\* Block b of blocks of size s, or the block of number a.
LEMMA Block ==
  ASSUME NEW a \in Nat, NEW s \in Nat \ {0}, NEW n \in Nat
  PROVE  a \div s < n <=> a < n * s
<1> DEFINE q == a \div s
<1>1. q \in Nat /\ a % s \in 0 .. s - 1 /\ a = s * q + (a % s)
  BY QuotientAndRest
<1> HIDE DEF q
<1>2. ASSUME q < n PROVE a < n * s
  <2>1. (n - 1 - q) * s \in Nat
    BY <1>1, <1>2
  <2>2. (n - 1 - q) * s = n * s - s - s * q
    BY <1>1
  <2> QED
    BY <1>1, <2>1, <2>2
<1>3. ASSUME q >= n PROVE ~(a < n * s)
  <2>1. (q - n) * s \in Nat
    BY <1>1, <1>3
  <2>2. (q - n) * s = s * q - n * s
    BY <1>1
  <2> QED
    BY <1>1, <2>1, <2>2
<1>4. q < n \/ q >= n
  BY <1>1
<1> QED
  BY <1>2, <1>3, <1>4 DEF q

\* The window: as many lines as there are between tail and head, and no more
\* than have been printed; line i of it is in slot tail + i.
LEMMA Window ==
  ASSUME NEW buffer, NEW h \in 0 .. Slots - 1, NEW t \in 0 .. NR_OF_LINES - 1,
         h - t <= NR_OF_LINES, NEW ls, NEW count, Record(buffer, h, ls, count),
         NEW n, n = Drawn(h, t)
  PROVE  /\ n \in 0 .. Len(ls)
         /\ \A i \in 0 .. n - 1 :
              Holds(buffer[(t + i) % Slots], ls[Len(ls) - n + 1 + i], count <= Slots)
<1>1. Slots = 2 * NR_OF_LINES /\ NR_OF_LINES \in Nat \ {0} /\ Slots \in Nat \ {0}
  BY TerminalAssumption
<1>2. n = IF h - t < 0 THEN 0 ELSE h - t
  <2>1. Rem(h - t, Slots) = h - t
    BY <1>1, RemSmall
  <2> QED
    BY <2>1 DEF Drawn
<1>3. /\ ls \in Seq(AllTexts) /\ count \in 0 .. Slots + 1 /\ Len(ls) \in Nat
      /\ Len(ls) = IF count < NR_OF_LINES THEN count ELSE NR_OF_LINES
      /\ count < Slots => h = count
  BY <1>1 DEF Record
<1>4. n \in 0 .. Len(ls)
  BY <1>1, <1>2, <1>3
<1>5. ASSUME NEW i \in 0 .. n - 1
      PROVE  Holds(buffer[(t + i) % Slots], ls[Len(ls) - n + 1 + i], count <= Slots)
  <2> DEFINE age == n - 1 - i
  <2>0. n > 0 /\ n <= Len(ls) /\ n \in Nat
    BY <1>3, <1>4
  <2>1. n = h - t /\ age \in 0 .. Len(ls) - 1 /\ i \in Nat
    <3>1. n = h - t
      BY <1>2, <2>0
    <3>2. i \in Nat /\ i < n
      BY <2>0
    <3>3. age \in 0 .. Len(ls) - 1
      BY <1>3, <2>0, <3>2
    <3> QED
      BY <3>1, <3>2, <3>3
  <2>2. t + i \in 0 .. Slots - 1 /\ (t + i) % Slots = t + i
    <3>1. t + i \in 0 .. Slots - 1
      BY <1>1, <2>1
    <3> QED
      BY <1>1, <3>1
  <2>3. SlotOf(h, age) = t + i
    BY <1>1, <2>1 DEF SlotOf
  <2>4. Len(ls) - age = Len(ls) - n + 1 + i
    BY <1>3, <2>0, <2>1
  <2> HIDE DEF age
  <2>5. Holds(buffer[SlotOf(h, age)], ls[Len(ls) - age], count <= Slots)
    BY <2>1 DEF Record
  <2> QED
    BY <2>2, <2>3, <2>4, <2>5
<1> QED
  BY <1>4, <1>5

\* A pixel of the picture is the one of the text, unless it is a stale one.
LEMMA PixelShown ==
  ASSUME Ring, Record(circular_buffer, head, lines, printed),
         NEW n, n = Drawn(head, tail), LinesDrawn(display, circular_buffer, tail, n),
         NEW x \in ScreenX, NEW y \in ScreenY
  PROVE  \/ Stale(LastLines(n), x, y)
         \/ display[At(x, y)] = IF Lit(LastLines(n), x, y) THEN "white" ELSE "black"
<1> DEFINE shown == LastLines(n)
           i == y \div High
           k == x \div Wide
           slot == circular_buffer[(tail + i) % Slots]
           text == shown[i + 1]
           Goal == \/ Stale(shown, x, y)
                   \/ display[At(x, y)] = IF Lit(shown, x, y) THEN "white" ELSE "black"
<1>1. /\ n \in 0 .. Len(lines)
      /\ \A j \in 0 .. n - 1 : Holds(circular_buffer[(tail + j) % Slots],
                                     lines[Len(lines) - n + 1 + j], printed <= Slots)
  BY Window DEF Ring
<1>2. lines \in Seq(AllTexts) /\ Len(lines) \in Nat /\ printed \in Nat
      /\ Slots \in Nat /\ MAX_TEXT_LENGTH \in Nat
  BY TerminalAssumption DEF Record
<1>3. /\ Len(shown) = n
      /\ \A j \in 1 .. n : shown[j] = lines[Len(lines) - n + j] /\ shown[j] \in AllTexts
  <2>1. shown = SubSeq(lines, Len(lines) - n + 1, Len(lines))
    BY DEF LastLines
  <2>2. Len(lines) - n + 1 \in 1 .. Len(lines) + 1 /\ Len(lines) \in Len(lines) - n .. Len(lines)
    BY <1>1, <1>2
  <2> QED
    <3>1. \A j \in Len(lines) - n + 1 .. Len(lines) : lines[j] \in AllTexts
      BY <1>1, <1>2
    <3>2. /\ Len(shown) = IF Len(lines) - n + 1 <= Len(lines) THEN Len(lines) - (Len(lines) - n + 1) + 1 ELSE 0
          /\ \A j \in 1 .. Len(lines) - (Len(lines) - n + 1) + 1 :
               shown[j] = lines[Len(lines) - n + 1 + j - 1]
      BY <2>1, <2>2, <3>1, SubSeqProperties
    <3> HIDE DEF shown
    <3>3. Len(shown) = n /\ \A j \in 1 .. n : shown[j] = lines[Len(lines) - n + 1 + j - 1]
      BY <1>1, <1>2, <3>2
    <3>4. \A j \in 1 .. n : /\ Len(lines) - n + 1 + j - 1 = Len(lines) - n + j
                             /\ Len(lines) - n + j \in Len(lines) - n + 1 .. Len(lines)
      BY <1>1, <1>2
    <3> QED
      BY <3>1, <3>3, <3>4
<1> HIDE DEF shown
<1>4. x \in Nat /\ y \in Nat /\ i \in Nat /\ k \in Nat
  BY Sizes, QuotientAndRest DEF ScreenX, ScreenY
<1>5. (i < n <=> y < n * High) /\ (k < MAX_TEXT_LENGTH <=> x < MAX_TEXT_LENGTH * Wide)
  <2>1. n \in Nat
    BY <1>1, <1>2
  <2> QED
    BY <1>2, <1>4, <2>1, Sizes, Block
<1>6. display[At(x, y)] =
        IF /\ i < n /\ y % High < Wide /\ k < MAX_TEXT_LENGTH
           /\ Bit(slot[k], x % Wide, y % High)
          THEN "white" ELSE "black"
  BY <1>5, Zenon DEF LinesDrawn
<1>7. Lit(shown, x, y) <=> /\ i < n /\ y % High < Wide /\ k < Len(text)
                           /\ Bit(text[k + 1], x % Wide, y % High)
  BY <1>3, Zenon DEF Lit, High, Wide, Bit
<1>8. Stale(shown, x, y) <=> printed > Slots /\ i < n /\ k >= Len(text)
  BY <1>3, Zenon DEF Stale, High, Wide
<1>9. ASSUME i < n PROVE Goal
  <2>1. Holds(slot, text, printed <= Slots) /\ text \in AllTexts
    <3>1. i \in 0 .. n - 1 /\ i + 1 \in 1 .. n
          /\ Len(lines) - n + 1 + i = Len(lines) - n + (i + 1)
      BY <1>1, <1>2, <1>4, <1>9
    <3> QED
      BY <1>1, <1>3, <3>1
  <2>2. Len(text) \in Nat /\ Len(text) < MAX_TEXT_LENGTH
    BY <2>1, TerminalAssumption
  <2> HIDE DEF i, k, slot, text
  <2>3. CASE k < Len(text)
    <3>1. k < MAX_TEXT_LENGTH /\ k \in Columns
      BY <1>2, <1>4, <2>2, <2>3 DEF Columns
    <3>2. slot[k] = text[k + 1]
      BY <2>1, <2>3, <3>1 DEF Holds
    <3> QED
      BY <1>6, <1>7, <1>9, <2>3, <3>1, <3>2, Zenon
  <2>4. CASE k >= Len(text) /\ printed <= Slots
    <3>1. ~(k < Len(text))
      BY <1>4, <2>2, <2>4
    <3>2. k < MAX_TEXT_LENGTH => ~Bit(slot[k], x % Wide, y % High)
      <4> SUFFICES ASSUME k < MAX_TEXT_LENGTH PROVE ~Bit(slot[k], x % Wide, y % High)
        OBVIOUS
      <4>1. k \in Columns
        BY <1>2, <1>4 DEF Columns
      <4>2. slot[k] = NUL
        BY <2>1, <2>4, <4>1 DEF Holds
      <4> QED
        BY <4>2, DrawingAssumption DEF Bit
    <3> QED
      BY <1>6, <1>7, <3>1, <3>2, Zenon
  <2>5. CASE k >= Len(text) /\ printed > Slots
    BY <1>8, <1>9, <2>5, Zenon
  <2> QED
    BY <1>2, <1>4, <2>2, <2>3, <2>4, <2>5
<1>10. ASSUME ~(i < n) PROVE Goal
  BY <1>6, <1>7, <1>10, Zenon
<1> QED
  BY <1>9, <1>10 DEF shown

Depicted ==
  /\ display \in Pictures
  /\ printed > 0 => display = draw_lines(circular_buffer, head, tail)

LEMMA PictureShown ==
  ASSUME Ring, Record(circular_buffer, head, lines, printed), Depicted
  PROVE  ShowsLastLines
<1> SUFFICES ASSUME printed > 0
             PROVE  \E n \in 0 .. Len(lines) : Shows(LastLines(n))
  BY DEF ShowsLastLines
<1> DEFINE n == Drawn(head, tail)
<1>1. n \in 0 .. Len(lines)
  BY Window DEF Ring
<1>2. head \in Int /\ tail \in Nat /\ n \in Nat
  <2>1. Len(lines) \in Nat
    BY DEF Record
  <2> QED
    BY <1>1, <2>1, TerminalAssumption DEF Ring
<1>3. LinesDrawn(display, circular_buffer, tail, n)
  BY <1>2, LinesAt DEF Depicted
<1> HIDE DEF n
<1>4. Shows(LastLines(n))
  BY <1>3, PixelShown DEF Shows, ScreenX, ScreenY, n
<1> QED
  BY <1>1, <1>4

-----------------------------------------------------------------------------
\* What a step of the terminal does to the ring and the picture in memory: one
\* more line, or nothing.
LEMMA ShowOrNothing ==
  ASSUME [Next]_vars
  PROVE  UNCHANGED terminalVars \/ \E text \in AllTexts : Show(text)
<1>0. ErrorText \in AllTexts /\ ReportText \in AllTexts /\ Texts \subseteq AllTexts
  BY DEF AllTexts
<1>1. ASSUME NEW text \in AllTexts, NEW rest, Log(text, rest)
      PROVE  UNCHANGED terminalVars \/ Show(text)
  BY <1>1 DEF Log
<1>2. ASSUME NEW text \in Texts, printf(text) \/ log(text)
      PROVE  UNCHANGED terminalVars \/ Show(text)
  BY <1>0, <1>1, <1>2 DEF printf, log
<1>3. CASE init_terminal \/ transfer_to_host_2d \/ resource_flush \/ Fault
  BY <1>3 DEF init_terminal, transfer_to_host_2d, resource_flush, Fault
<1>4. CASE CommandFails \/ sync_exception_current_EL_using_SPEL1
  BY <1>0, <1>1, <1>4 DEF CommandFails, sync_exception_current_EL_using_SPEL1
<1>5. CASE UNCHANGED vars
  BY <1>5 DEF vars
<1> QED
  BY <1>0, <1>2, <1>3, <1>4, <1>5 DEF Next

LEMMA ShowKeepsPicture ==
  ASSUME Ring, Ring', Record(circular_buffer, head, lines, printed),
         NEW text \in AllTexts, Show(text)
  PROVE  Record(circular_buffer, head, lines, printed)' /\ Depicted'
<1>1. head \in 0 .. Slots - 1
  BY DEF Ring
<1>2. /\ circular_buffer' = [circular_buffer EXCEPT ![head] = format_string(@, text)]
      /\ head' = next_head(head)
      /\ lines' = LastOf(lines, text, NR_OF_LINES)
      /\ printed' = IF printed > Slots THEN printed ELSE printed + 1
      /\ display' = draw_lines(circular_buffer', head', tail')
  BY DEF Show, LastOf
<1>3. Record(circular_buffer', head', lines', printed')
  BY <1>1, <1>2, RecordGoesOn
<1>4. head' \in 0 .. Slots - 1 /\ tail' \in 0 .. NR_OF_LINES - 1 /\ head' - tail' <= NR_OF_LINES
  BY DEF Ring
<1>5. Drawn(head', tail') \in 0 .. Len(lines')
  BY <1>3, <1>4, Window
<1>6. head' \in Int /\ tail' \in Nat /\ Drawn(head', tail') \in Nat
  <2>1. Len(lines') \in Nat
    BY <1>3 DEF Record
  <2> QED
    BY <1>4, <1>5, <2>1, TerminalAssumption
<1>7. display' \in Pictures
  BY <1>2, <1>6, LinesAt
<1> QED
  BY <1>2, <1>3, <1>7 DEF Depicted

Pictured == Record(circular_buffer, head, lines, printed) /\ Depicted

\* The rest of the type invariant.
Figures ==
  /\ resource \in Pictures /\ screen \in Pictures
  /\ errors \in 0 .. MaxErrors /\ faults \in 0 .. MaxFaults

LEMMA InitPictured == Init => Pictured /\ Figures
<1> SUFFICES ASSUME Init PROVE Pictured /\ Figures
  OBVIOUS
<1>0. /\ NR_OF_LINES \in Nat \ {0} /\ Slots = 2 * NR_OF_LINES /\ NUL \in Chars
      /\ MaxErrors \in Nat /\ MaxFaults \in Nat
  BY TerminalAssumption, DrawingAssumption
<1>1. /\ circular_buffer = [s \in 0 .. Slots - 1 |-> [k \in Columns |-> NUL]]
      /\ head = 0 /\ lines = << >> /\ printed = 0 /\ errors = 0 /\ faults = 0
      /\ display = draw_rec(clear_screen, 1, 1, 2, 2, "blue")
      /\ resource = display /\ screen = display
  BY DEF Init
<1>2. display \in Pictures
  <2>1. clear_screen \in Pictures
    BY DEF clear_screen, Pictures, Colors
  <2> QED
    BY <1>1, <2>1 DEF draw_rec, Pictures, Colors
<1>3. /\ circular_buffer \in [0 .. Slots - 1 -> [Columns -> Chars]]
      /\ \A s \in 0 .. Slots - 1 : Clear(circular_buffer[s])
  BY <1>0, <1>1 DEF Clear
<1>4. lines \in Seq(AllTexts) /\ Len(lines) = 0
  BY <1>1
<1>5. Record(circular_buffer, head, lines, printed)
  BY <1>0, <1>1, <1>3, <1>4 DEF Record
<1> QED
  BY <1>0, <1>1, <1>2, <1>5 DEF Pictured, Depicted, Figures

LEMMA NextPictured ==
  ASSUME Ring, Ring', Pictured, Figures, [Next]_vars
  PROVE  Pictured' /\ Figures'
<1>1. ASSUME UNCHANGED terminalVars PROVE Pictured'
  <2>1. /\ circular_buffer' = circular_buffer /\ head' = head /\ tail' = tail
        /\ display' = display /\ lines' = lines /\ printed' = printed
    BY <1>1 DEF terminalVars
  <2>2. Record(circular_buffer', head', lines', printed')
    BY <2>1 DEF Pictured
  <2>3. display' \in Pictures /\ (printed' > 0 => display' = draw_lines(circular_buffer', head', tail'))
    BY <2>1 DEF Pictured, Depicted
  <2> QED
    BY <2>2, <2>3 DEF Pictured, Depicted
<1>2. ASSUME NEW text \in AllTexts, Show(text) PROVE Pictured'
  BY <1>2, ShowKeepsPicture DEF Pictured
<1>3. Pictured'
  BY <1>1, <1>2, ShowOrNothing
<1>4. Figures'
  <2>1. MaxErrors \in Nat /\ MaxFaults \in Nat /\ display \in Pictures
    BY TerminalAssumption DEF Pictured, Depicted
  <2>2. resource' \in Pictures /\ screen' \in Pictures
    BY <2>1 DEF Next, vars, gpuVars, Figures, printf, log, init_terminal, transfer_to_host_2d,
                resource_flush, CommandFails, Fault, sync_exception_current_EL_using_SPEL1
  <2>3. UNCHANGED errors \/ (errors < MaxErrors /\ errors' = errors + 1)
    BY DEF Next, vars, printf, log, init_terminal, transfer_to_host_2d,
           resource_flush, CommandFails, Fault, sync_exception_current_EL_using_SPEL1
  <2>4. UNCHANGED faults \/ (faults < MaxFaults /\ faults' = faults + 1)
    BY DEF Next, vars, printf, log, init_terminal, transfer_to_host_2d,
           resource_flush, CommandFails, Fault, sync_exception_current_EL_using_SPEL1
  <2> QED
    BY <2>1, <2>2, <2>3, <2>4 DEF Figures
<1> QED
  BY <1>3, <1>4

\* The invariant of all reachable states: the ring holds the last lines, the
\* picture in memory is the window's, and nothing else has got into either.
LEMMA PicturedAlways == Spec => [](IInv /\ Pictured /\ Figures)
<1>1. Init => IInv /\ Pictured /\ Figures
  BY InitIInv, InitPictured
<1>2. IInv /\ Pictured /\ Figures /\ [Next]_vars => (IInv /\ Pictured /\ Figures)'
  <2>1. IInv /\ [Next]_vars => Ring /\ Ring' /\ IInv'
    BY NextIInv DEF IInv
  <2> QED
    BY <2>1, NextPictured
<1> QED
  BY <1>1, <1>2, PTL DEF Spec

\* Every variable of the terminal keeps its type, over all rounds of the ring,
\* errors and exceptions: a slot is a full line of characters, a picture has
\* one of the three colours at every pixel.
THEOREM TerminalTypes == Spec => []TypeOK
<1>1. IInv /\ Pictured /\ Figures => TypeOK
  <2> SUFFICES ASSUME IInv, Pictured, Figures PROVE TypeOK
    OBVIOUS
  <2>1. lines \in Seq(AllTexts) /\ Len(lines) <= NR_OF_LINES
    BY TerminalAssumption DEF Pictured, Record
  <2> QED
    BY <2>1 DEF IInv, Ring, Pending, Pictured, Depicted, Record, Figures, TypeOK
<1> QED
  BY <1>1, PicturedAlways, PTL

\* Whatever size the screen, the lines and the ring have and however many lines
\* have been printed: the picture in memory is, pixel by pixel, that of the last
\* lines printed, in their order.  None is drawn twice, out of order or from the
\* round before, and no pixel is lit that belongs to no letter of them (but for
\* what a shorter text leaves of the line that had the slot before).
THEOREM LastLinesShown == Spec => []ShowsLastLines
<1>1. IInv /\ Pictured => ShowsLastLines
  BY PictureShown DEF IInv, Pictured
<1> QED
  BY <1>1, PicturedAlways, PTL
=============================================================================
