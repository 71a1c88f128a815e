--------------------------- MODULE MCKernelLogger ---------------------------
(***************************************************************************)
(* Formats of up to three pieces of every kind: numbers with the least and *)
(* the most digits, arguments that contain directives of every kind        *)
(* themselves, and a buffer of 24 characters, which all of them fill at    *)
(* some place.  Memory that nobody has written may begin with a terminator *)
(* or with more directives.                                                *)
(***************************************************************************)
EXTENDS KernelLogger

P(d, a, s) == [directive |-> d, arg |-> a, shown |-> s]

MCCharacters == {Digits[i] : i \in 1 .. 16} \cup {"%", "s", "u", "x", "p", "y", "z", "i", "NUL"}

MCGarbage == { << >>, << "z" >>, << "i", "%", "x" >> }
MCLeftovers == {-1, 5}

MCPieces ==
  { P("", << "z" >>, << "z" >>),
    P("s", << "y", "y", "y" >>, << "y", "y", "y" >>),
    P("s", << "%", "i" >>, << "%", "i" >>),
    P("s", << "%", "s", "%", "c" >>, << "%", "s", "%", "c" >>),
    P("s", << "u", "%", "p" >>, << "u", "%", "p" >>),
    P("s", << >>, << >>),
    P("c", << "%" >>, << "%" >>),
    P("%", << >>, << "%" >>),
    P("u", 0, << "0" >>),
    P("u", 120, << "1", "2", "0" >>),
    P("u", 2147483647, << "2", "1", "4", "7", "4", "8", "3", "6", "4", "7" >>),
    P("u", -1, << >>),
    P("x", 175, << "0", "x", "0", "0", "0", "0", "0", "0", "a", "f" >>),
    P("x", -2, << "0", "x", "f", "f", "f", "f", "f", "f", "f", "e" >>),
    P("p", 1073741824, << "0", "x", "0", "0", "0", "0", "0", "0", "0", "0",
                          "4", "0", "0", "0", "0", "0", "0", "0" >>) }
=============================================================================
