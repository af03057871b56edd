------------------------------ MODULE MCTimer -------------------------------
(***************************************************************************)
(* Timer for TLC: lo wraps after four counts and the compare register is   *)
(* set two ahead, so that lo wraps inside reads, sleeps and intervals, and *)
(* interrupts are taken late by more than an interval.                     *)
(***************************************************************************)
EXTENDS Timer

MCDelays == {0, 1, 3}
=============================================================================
