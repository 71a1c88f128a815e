----------------------------- MODULE MCTerminal -----------------------------
(***************************************************************************)
(* Four slots and a window of two lines of four letters; glyphs of two by *)
(* two bits, no two alike and none symmetric; a short and a long text, so  *)
(* that a short one follows a long one in a slot.                          *)
(***************************************************************************)
EXTENDS Terminal

MCFont == [c \in {"nul", "a", "b"} |->
             CASE c = "nul" -> {}
               [] c = "a" -> {<< 0, 0 >>, << 1, 0 >>, << 1, 1 >>}
               [] c = "b" -> {<< 0, 1 >>}]
MCShort == << "a" >>
MCTexts == {MCShort, << "b", "a", "b" >>}
=============================================================================
