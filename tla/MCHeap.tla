------------------------------- MODULE MCHeap -------------------------------
(***************************************************************************)
(* Heap for TLC.  216 bytes hold up to five blocks.  The sizes give blocks *)
(* of 16, 32 and 48 bytes, so that a hole is too small, exact, taken whole *)
(* or split, and a freed block has free neighbours on both sides.          *)
(***************************************************************************)
EXTENDS Heap

MCSizes == {5, 20, 48}
=============================================================================
