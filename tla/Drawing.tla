------------------------------- MODULE Drawing ------------------------------
(***************************************************************************)
(* The drawing functions of virtio_gpu_driver.cpp, as functions from one   *)
(* content of the frame buffer `display` to the next.  A pixel is its      *)
(* index; nothing is clipped, as in the code: a column beyond the width    *)
(* comes out in the next row, an index beyond the end is lost here and a   *)
(* store to foreign memory there (see Terminal's DrawsInside).             *)
(***************************************************************************)
EXTENDS Integers

CONSTANTS
  screen_width, screen_height,  \* 1280, 800
  GlyphSize,                    \* 8: a glyph has 8 rows of 8 bits
  Chars, NUL,                   \* characters, among them the terminator
  font8x8_basic                 \* the lit << row, bit >> of each character

ASSUME DrawingAssumption ==
  /\ screen_width \in Nat \ {0} /\ screen_height \in Nat \ {0}
  /\ GlyphSize \in Nat \ {0}
  /\ NUL \in Chars
  /\ font8x8_basic \in [Chars -> SUBSET ((0 .. GlyphSize - 1) \X (0 .. GlyphSize - 1))]
  /\ font8x8_basic[NUL] = {}

Pixels == 0 .. screen_width * screen_height - 1
Colors == {"black", "white", "blue"}
Pictures == [Pixels -> Colors]

At(x, y) == y * screen_width + x

clear_screen == [p \in Pixels |-> "black"]

draw_rec(d, x, y, width, height, c) ==
  LET off(p) == p - At(x, y)
  IN  [p \in Pixels |-> IF /\ off(p) >= 0
                           /\ off(p) % screen_width < width
                           /\ off(p) \div screen_width < height
                          THEN c ELSE d[p]]

\* A mutant of draw_letter: the bits of a row from the wrong end.
draw_letter_mirrored(d, x, y, l, c, size) ==
  LET off(p) == p - At(x, y)
      row(p) == off(p) \div screen_width
      col(p) == off(p) % screen_width
  IN  [p \in Pixels |->
         IF off(p) >= 0 /\ row(p) < GlyphSize * size /\ col(p) < GlyphSize * size
           THEN IF << row(p) \div size, GlyphSize - 1 - col(p) \div size >> \in font8x8_basic[l]
                  THEN c ELSE "black"
           ELSE d[p]]

\* Both the lit and the unlit pixels of the letter's square are drawn.
draw_letter(d, x, y, l, c, size) ==
  LET off(p) == p - At(x, y)
      row(p) == off(p) \div screen_width
      col(p) == off(p) % screen_width
  IN  [p \in Pixels |->
         IF off(p) >= 0 /\ row(p) < GlyphSize * size /\ col(p) < GlyphSize * size
           THEN IF << row(p) \div size, col(p) \div size >> \in font8x8_basic[l]
                  THEN c ELSE "black"
           ELSE d[p]]

\* All string_size characters are drawn, those after the terminator, too.
draw_text(d, x, y, string, string_size, c, text_size) ==
  LET upto[i \in 0 .. string_size] ==
        IF i = 0 THEN d
        ELSE draw_letter(upto[i - 1], x + (i - 1) * text_size * GlyphSize, y,
                         string[i - 1], c, text_size)
  IN  upto[string_size]
=============================================================================
