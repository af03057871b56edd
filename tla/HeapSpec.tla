------------------------------ MODULE HeapSpec ------------------------------
(***************************************************************************)
(* What kmalloc and kfree of kernel/mm.c promise, with the block list left *)
(* out: a non-NULL result is the address of `size` bytes inside the heap   *)
(* that overlap nobody else's, aligned for the words a header or a caller  *)
(* stores there (the kernel runs with the MMU off, where an unaligned word *)
(* access faults).                                                         *)
(***************************************************************************)
EXTENDS Integers

CONSTANTS
  HeapEnd,     \* the heap's bytes are 0 .. HeapEnd-1, as offsets
  Sizes        \* the sizes callers ask for

VARIABLE
  held         \* the pointers handed out, each with the size asked for

WORD == 8

\* `n` bytes at p keep clear of the `m` bytes at q.
Disjoint(p, n, q, m) == p + n <= q \/ q + m <= p

SpecInit == held = [p \in {} |-> 0]

\* kmalloc(n) returns p.
SpecAlloc(p, n) ==
  /\ p \notin DOMAIN held
  /\ p % WORD = 0
  /\ p + n <= HeapEnd
  /\ \A q \in DOMAIN held : Disjoint(p, n, q, held[q])
  /\ held' = [q \in DOMAIN held \cup {p} |-> IF q = p THEN n ELSE held[q]]

\* kfree(p).
SpecFree(p) ==
  /\ p \in DOMAIN held
  /\ held' = [q \in DOMAIN held \ {p} |-> held[q]]

SpecNext ==
  \/ \E p \in 0 .. HeapEnd, n \in Sizes : SpecAlloc(p, n)
  \/ \E p \in DOMAIN held : SpecFree(p)

HeapSpecification == SpecInit /\ [][SpecNext]_held
=============================================================================
