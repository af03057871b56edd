----------------------------- MODULE MCConsole ------------------------------
(***************************************************************************)
(* Console for TLC: screens of 3 by 4 and 2 by 7 pixels in memory that has *)
(* a word of others on each side, the second with rows longer than it is   *)
(* wide; glyphs of 2 by 2 on lines 3 apart, drawn over the right and the   *)
(* lower edge.  Scrolling the second by a line copies rows over rows that  *)
(* are still to be copied.                                                 *)
(***************************************************************************)
EXTENDS Console, TLC

ASSUME MCDrawingFits == DrawingFits

MCFont == (0 :> {<<0, 0>>}) @@ (1 :> {<<1, 0>>, <<0, 1>>})
MCTexts == {<<1, 5>>, <<5, 10, 1>>}
MCGrants == {[width |-> 3, height |-> 4, pitch |-> 3, buffer |-> 101, size |-> 12],
             [width |-> 2, height |-> 7, pitch |-> 3, buffer |-> 1, size |-> 21]}
MCMemory == 0 .. 22
=============================================================================
