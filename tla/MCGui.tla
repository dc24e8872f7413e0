------------------------------- MODULE MCGui -------------------------------
(***************************************************************************)
(* A screen of 3 by 2 pixels with two overlapping windows of 2 by 2, one   *)
(* of them with a title that is wider; glyphs of 1 pixel.                  *)
(***************************************************************************)
EXTENDS Gui

MC_Windows ==
    <<[id |-> 1, x |-> 0, y |-> 0, w |-> 2, h |-> 2, lit |-> FALSE, title |-> <<"c", "c", "c">>],
      [id |-> 2, x |-> 1, y |-> 1, w |-> 2, h |-> 2, lit |-> FALSE, title |-> <<"c">>]>>

MC_Messages == {<< >>, <<"c", "c", NewLine, "c">>, <<NewLine, "c", "c", "c">>}
=============================================================================
