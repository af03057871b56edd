---------------------------- MODULE MCPageAlloc -----------------------------
(***************************************************************************)
(* PageAlloc for TLC: eight pages, of which 8 \div 4 = 2 are the kmalloc   *)
(* heap's, and requests of 0 to 3 pages, so that runs of different lengths *)
(* leave gaps too short for the next request and interrupts free them      *)
(* behind, under and ahead of the scan.                                    *)
(***************************************************************************)
EXTENDS PageAlloc

MCCounts == 0 .. 3
=============================================================================
