------------------------------ MODULE PageSpec ------------------------------
(***************************************************************************)
(* What the page allocator of kernel/mm.c promises its callers, with the   *)
(* bitmap and the scan left out: page_alloc(count) hands out a run of      *)
(* contiguous pages nobody else holds, or NULL; page_free takes runs back. *)
(*                                                                         *)
(* The scheduler model (Task) is built on this specification; PageAlloc    *)
(* implements it.                                                          *)
(***************************************************************************)
EXTENDS Integers

CONSTANTS
  UserPages,   \* the pages page_alloc may hand out, a set of integers
  Counts       \* the run lengths callers ask for, a set of natural numbers

VARIABLE
  held         \* the runs handed out and not yet freed

\* A run is what a non-NULL result of page_alloc(count) stands for.
Run(f, c) == [first |-> f, count |-> c]

PagesOf(r) == r.first .. (r.first + r.count - 1)

HeldPages == UNION {PagesOf(r) : r \in held}

SpecInit == held = {}

\* page_alloc(c) returns the run that begins at page f: all of it free.
SpecAlloc(f, c) ==
  /\ c > 0
  /\ PagesOf(Run(f, c)) \subseteq UserPages \ HeldPages
  /\ held' = held \cup {Run(f, c)}

\* page_free of some held runs (a scheduler pass may reap several tasks).
SpecFree(R) ==
  /\ R \subseteq held
  /\ held' = held \ R

SpecNext ==
  \/ \E f \in UserPages, c \in Counts : SpecAlloc(f, c)
  \/ \E R \in SUBSET held : SpecFree(R)

PageSpecification == SpecInit /\ [][SpecNext]_held
=============================================================================
