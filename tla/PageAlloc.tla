----------------------------- MODULE PageAlloc ------------------------------
(***************************************************************************)
(* The page allocator of kernel/mm.c, one action per iteration of its      *)
(* loops.                                                                  *)
(*                                                                         *)
(* page_alloc runs in task context with IRQs enabled and takes no lock.    *)
(* page_free is called only by task_schedule, which the timer interrupt    *)
(* runs: it can land between any two iterations of the scan, or of the     *)
(* marking loop, of a page_alloc in progress, and frees a whole run at     *)
(* once because IRQs stay masked in the handler.  There is one page_alloc  *)
(* in progress at a time (its callers are task_create alone).              *)
(***************************************************************************)
EXTENDS Integers

CONSTANTS
  TotalPages,  \* total_pages, computed by mm_init from the linker's heap
  Counts       \* the values of `count` callers pass (0 is legal)

ASSUME PageAllocAssumption ==
  /\ TotalPages \in Nat
  /\ Counts \subseteq Nat

VARIABLES
  page_map,    \* page_map[]: MEM_FREE, MEM_USED or MEM_KERNEL for each page
  pc,          \* where page_alloc is: idle, scan, mark
  count,       \* its parameter
  i, found, first,  \* its locals in the scanning loop
  j,           \* its index in the marking loop
  held,        \* history: the runs returned and not yet freed
  free0        \* history: the pages that were free when the call began

vars == <<page_map, pc, count, i, found, first, j, held, free0>>
scanVars == <<count, i, found, first>>

Pages == 0 .. (TotalPages - 1)

\* total_pages / 4 pages at the bottom belong to the kmalloc heap.
KernelPages == TotalPages \div 4
UserPages == KernelPages .. (TotalPages - 1)

Abstract == INSTANCE PageSpec
Run(f, c) == Abstract!Run(f, c)
PagesOf(r) == Abstract!PagesOf(r)

FreePages == {p \in Pages : page_map[p] = "FREE"}
-----------------------------------------------------------------------------
\* mm_init, the part that sets up page_map.
Init ==
  /\ page_map = [p \in Pages |-> IF p < KernelPages THEN "KERNEL" ELSE "FREE"]
  /\ pc = "idle"
  /\ count = 0 /\ i = 0 /\ found = 0 /\ first = 0 /\ j = 0
  /\ held = {}
  /\ free0 = {}

\* Where page_alloc's scan begins.  ScanStartTooLate skips a page.
ScanStartTooLate == KernelPages + 1
ScanStart == KernelPages

\* task_create calls page_alloc(c).
PageAllocCall(c) ==
  /\ pc = "idle"
  /\ pc' = "scan"
  /\ count' = c
  /\ i' = ScanStart /\ found' = 0 /\ first' = 0
  /\ free0' = FreePages
  /\ UNCHANGED <<page_map, j, held>>

\* The scan meets a free page: the run grows, and may now be long enough.
ScanFreePage ==
  /\ pc = "scan" /\ i < TotalPages
  /\ page_map[i] = "FREE"
  /\ first' = IF found = 0 THEN i ELSE first
  /\ found' = found + 1
  /\ IF found + 1 = count
       THEN pc' = "mark" /\ j' = first' /\ UNCHANGED i
       ELSE i' = i + 1 /\ UNCHANGED <<pc, j>>
  /\ UNCHANGED <<page_map, count, held, free0>>

\* A run interrupted by a page in use must start over.  KeepsRun forgets to.
ScanBusyPageKeepsRun ==
  /\ pc = "scan" /\ i < TotalPages
  /\ page_map[i] # "FREE"
  /\ i' = i + 1
  /\ UNCHANGED <<page_map, pc, count, found, first, j, held, free0>>

ScanBusyPage ==
  /\ pc = "scan" /\ i < TotalPages
  /\ page_map[i] # "FREE"
  /\ found' = 0
  /\ i' = i + 1
  /\ UNCHANGED <<page_map, pc, count, first, j, held, free0>>

\* The scan has run off the end: page_alloc is about to return NULL.
NoRunFound == pc = "scan" /\ i >= TotalPages

ReturnNull ==
  /\ NoRunFound
  /\ pc' = "idle"
  /\ UNCHANGED <<page_map, scanVars, j, held, free0>>

\* Marks one page more than page_alloc's loop does, and out of the map at its end.
MarkPageOffByOne ==
  /\ pc = "mark" /\ j <= first + count
  /\ page_map' = [p \in DOMAIN page_map \cup {j} |-> IF p = j THEN "USED" ELSE page_map[p]]
  /\ j' = j + 1
  /\ UNCHANGED <<pc, scanVars, held, free0>>

MarkPage ==
  /\ pc = "mark" /\ j < first + count
  /\ page_map' = [page_map EXCEPT ![j] = "USED"]
  /\ j' = j + 1
  /\ UNCHANGED <<pc, scanVars, held, free0>>

ReturnRun ==
  /\ pc = "mark" /\ j >= first + count
  /\ pc' = "idle"
  /\ held' = held \cup {Run(first, count)}
  /\ UNCHANGED <<page_map, scanVars, j, free0>>

\* Frees the page after the run too, as `i <= first + count` would.
PageFreeOneTooMany(r) ==
  /\ page_map' = [p \in Pages |-> IF p \in r.first .. (r.first + r.count)
                                    THEN "FREE" ELSE page_map[p]]
  /\ held' = held \ {r}
  /\ UNCHANGED <<pc, scanVars, j, free0>>

\* The timer interrupt reaps a task and frees its run, whatever page_alloc
\* is doing; or the same from the svc handler, with page_alloc idle.
PageFree(r) ==
  /\ page_map' = [p \in Pages |-> IF p \in PagesOf(r) THEN "FREE" ELSE page_map[p]]
  /\ held' = held \ {r}
  /\ UNCHANGED <<pc, scanVars, j, free0>>

Next ==
  \/ \E c \in Counts : PageAllocCall(c)
  \/ ScanFreePage
  \/ ScanBusyPage
  \/ ReturnNull
  \/ MarkPage
  \/ ReturnRun
  \/ \E r \in held : PageFree(r)

Spec == Init /\ [][Next]_vars
-----------------------------------------------------------------------------
TypeOK ==
  /\ page_map \in [Pages -> {"FREE", "USED", "KERNEL"}]
  /\ pc \in {"idle", "scan", "mark"}
  /\ count \in Nat /\ i \in Nat /\ found \in Nat /\ first \in Nat /\ j \in Nat
  /\ held \subseteq [first : Nat, count : Nat]
  /\ free0 \subseteq Pages

\* The pages a call in progress has marked and not yet returned.
MarkedSoFar == IF pc = "mark" THEN first .. (j - 1) ELSE {}

(***************************************************************************)
(* The bitmap and the callers agree: a page is MEM_USED exactly when it    *)
(* belongs to one run that a caller holds, or to the part of a run already *)
(* marked by the call in progress.  No page leaks, none is handed out      *)
(* twice, and freeing a run frees no page of another, whatever the         *)
(* interleaving of page_alloc (mm.c:97) with the handler's page_free       *)
(* (mm.c:119).                                                             *)
(***************************************************************************)
BitmapMatchesCallers ==
  /\ \A p \in Pages :
       page_map[p] = "USED" <=> \/ \E r \in held : p \in PagesOf(r)
                                \/ p \in MarkedSoFar
  /\ \A r \in held, s \in held : r # s => PagesOf(r) \cap PagesOf(s) = {}
  /\ \A r \in held : PagesOf(r) \cap MarkedSoFar = {}

(***************************************************************************)
(* page_alloc misses no run: while it scans, every run of `count` pages    *)
(* that was free when the call began still lies ahead of (or across) the   *)
(* run being grown; so it returns NULL only when there was no such run,    *)
(* and the run it does return begins no later than any of them, even when  *)
(* interrupts free pages behind the scan (mm.c:102-116).                   *)
(***************************************************************************)
FreeAtCall(f) == PagesOf(Run(f, count)) \subseteq free0

NoMissedRun ==
  count > 0 =>
    /\ NoRunFound => \A f \in Pages : ~ FreeAtCall(f)
    /\ pc = "mark" => \A f \in Pages : FreeAtCall(f) => first <= f

\* The allocator is one that hands out disjoint runs of user pages.
ImplementsPageSpec == Abstract!PageSpecification
=============================================================================
