-------------------------- MODULE PageAllocProofs ---------------------------
(***************************************************************************)
(* What PageAlloc's invariants hold for every heap size and every set of   *)
(* request sizes, and that it implements PageSpec.                         *)
(*                                                                         *)
(* BitmapMatchesCallers is not inductive alone: marking a page and         *)
(* returning a run need to know what the scan established.  IInv adds the  *)
(* loop invariants of page_alloc's two loops, in terms the interrupt's     *)
(* page_free preserves: it only turns USED pages into FREE ones.           *)
(***************************************************************************)
EXTENDS PageAlloc, TLAPS

\* The kmalloc heap's pages are never handed out, and runs are user pages.
KernelPagesKept == \A p \in Pages : page_map[p] = "KERNEL" <=> p < KernelPages

RunsAreUserPages ==
  \A r \in held : /\ r.count > 0
                  /\ KernelPages <= r.first
                  /\ r.first + r.count <= TotalPages

\* The scanning loop: the `found` pages before i are free, and every run
\* that was free at the call still is, and begins no earlier than those.
ScanInvariant ==
  pc = "scan" =>
    /\ count \in Counts
    /\ KernelPages + found <= i /\ i <= TotalPages
    /\ \A p \in (i - found) .. (i - 1) : page_map[p] = "FREE"
    /\ found > 0 => first = i - found
    /\ count > 0 => found < count
    /\ \A p \in free0 : page_map[p] = "FREE"
    /\ count > 0 => \A f \in Pages : FreeAtCall(f) => f >= i - found

\* The marking loop: first .. j-1 is marked, j .. first+count-1 is free.
MarkInvariant ==
  pc = "mark" =>
    /\ count \in Counts /\ count > 0
    /\ KernelPages <= first /\ first <= j
    /\ j <= first + count /\ first + count <= TotalPages
    /\ \A p \in j .. (first + count - 1) : page_map[p] = "FREE"
    /\ \A f \in Pages : FreeAtCall(f) => first <= f

IInv ==
  /\ TypeOK
  /\ BitmapMatchesCallers
  /\ KernelPagesKept
  /\ RunsAreUserPages
  /\ ScanInvariant
  /\ MarkInvariant

\* A quarter of the pages, rounded down, is between none and all of them.
LEMMA KernelPagesBound ==
  TotalPages \in Nat /\ KernelPages \in Nat /\ KernelPages <= TotalPages
BY PageAllocAssumption DEF KernelPages

\* The allocator begins with every user page free and no caller.
THEOREM InitEstablishes == Init => IInv
BY KernelPagesBound, PageAllocAssumption
   DEF Init, IInv, TypeOK, BitmapMatchesCallers, KernelPagesKept,
       RunsAreUserPages, ScanInvariant, MarkInvariant, MarkedSoFar, Pages

\* Each step of page_alloc, and a page_free anywhere in it, keeps IInv.
THEOREM StepPreserves == IInv /\ [Next]_vars => IInv'
<1> SUFFICES ASSUME IInv, [Next]_vars PROVE IInv'
  OBVIOUS
<1> USE KernelPagesBound, PageAllocAssumption
<1>1. ASSUME NEW c \in Counts, PageAllocCall(c) PROVE IInv'
  <2>1. (TypeOK /\ BitmapMatchesCallers /\ KernelPagesKept /\ RunsAreUserPages)'
    BY <1>1 DEF PageAllocCall, IInv, TypeOK, BitmapMatchesCallers, MarkedSoFar,
         KernelPagesKept, RunsAreUserPages, FreePages, ScanStart, Pages
  <2>2. ScanInvariant'
    <3>1. ASSUME NEW f \in Pages, c > 0, FreeAtCall(f)' PROVE f >= KernelPages
      BY <1>1, <3>1 DEF PageAllocCall, IInv, TypeOK, KernelPagesKept, FreeAtCall, FreePages,
           PagesOf, Run, Abstract!PagesOf, Abstract!Run, Pages
    <3> QED
      BY <1>1, <3>1 DEF PageAllocCall, IInv, TypeOK, ScanInvariant, FreePages, ScanStart, Pages
  <2> QED
    BY <1>1, <2>1, <2>2 DEF PageAllocCall, IInv, MarkInvariant
<1>2. ASSUME ScanFreePage PROVE IInv'
  <2>1. (TypeOK /\ BitmapMatchesCallers /\ KernelPagesKept /\ RunsAreUserPages)'
    BY <1>2 DEF ScanFreePage, IInv, TypeOK, BitmapMatchesCallers, MarkedSoFar,
         KernelPagesKept, RunsAreUserPages, Pages, ScanInvariant
  <2>2. ScanInvariant'
    BY SMTT(30), <1>2 DEF ScanFreePage, IInv, TypeOK, ScanInvariant, FreeAtCall, Pages
  <2>3. MarkInvariant'
    BY <1>2 DEF ScanFreePage, IInv, TypeOK, ScanInvariant, MarkInvariant, FreeAtCall, Pages
  <2> QED
    BY <2>1, <2>2, <2>3 DEF IInv
<1>3. ASSUME ScanBusyPage PROVE IInv'
  <2>1. (TypeOK /\ BitmapMatchesCallers /\ KernelPagesKept /\ RunsAreUserPages)'
    BY <1>3 DEF ScanBusyPage, IInv, TypeOK, BitmapMatchesCallers, MarkedSoFar,
         KernelPagesKept, RunsAreUserPages, Pages
  <2>2. ScanInvariant'
    <3>1. ASSUME count > 0, NEW f \in Pages, FreeAtCall(f) PROVE f >= i + 1
      <4>1. f >= i - found /\ found < count
        BY <1>3, <3>1 DEF ScanBusyPage, IInv, ScanInvariant
      <4>2. i \notin PagesOf(Run(f, count))
        BY <1>3, <3>1 DEF ScanBusyPage, IInv, ScanInvariant, FreeAtCall
      <4>3. i \notin f .. (f + count - 1)
        BY <4>2 DEF PagesOf, Run, Abstract!PagesOf, Abstract!Run
      <4> QED
        BY <4>1, <4>3 DEF IInv, TypeOK, Pages
    <3> QED
      BY <1>3, <3>1 DEF ScanBusyPage, IInv, TypeOK, ScanInvariant, FreeAtCall, Pages
  <2> QED
    BY <1>3, <2>1, <2>2 DEF ScanBusyPage, IInv, MarkInvariant
<1>4. ASSUME ReturnNull PROVE IInv'
  BY <1>4 DEF ReturnNull, NoRunFound, IInv, TypeOK, BitmapMatchesCallers, MarkedSoFar, scanVars,
       KernelPagesKept, RunsAreUserPages, ScanInvariant, MarkInvariant
<1>5. ASSUME MarkPage PROVE IInv'
  <2>1. MarkedSoFar' = MarkedSoFar \cup {j} /\ j \in Pages /\ j \notin MarkedSoFar
        /\ page_map[j] = "FREE" /\ pc = "mark" /\ j >= KernelPages
    BY <1>5 DEF MarkPage, IInv, TypeOK, MarkInvariant, MarkedSoFar, scanVars, Pages
  <2>2. TypeOK' /\ KernelPagesKept' /\ RunsAreUserPages'
    BY <1>5, <2>1 DEF MarkPage, IInv, TypeOK, KernelPagesKept, RunsAreUserPages, scanVars, Pages
  <2>3. BitmapMatchesCallers'
    <3>1. \A r \in held : j \notin PagesOf(r)
      BY <2>1 DEF IInv, BitmapMatchesCallers
    <3> QED
      BY <1>5, <2>1, <3>1 DEF MarkPage, IInv, TypeOK, BitmapMatchesCallers
  <2>4. MarkInvariant'
    BY <1>5, <2>1 DEF MarkPage, IInv, TypeOK, MarkInvariant, FreeAtCall, scanVars, Pages
  <2> QED
    BY <1>5, <2>2, <2>3, <2>4 DEF MarkPage, IInv, ScanInvariant
<1>6. ASSUME ReturnRun PROVE IInv'
  <2>1. MarkedSoFar = PagesOf(Run(first, count)) /\ MarkedSoFar' = {}
    BY <1>6 DEF ReturnRun, IInv, TypeOK, MarkInvariant, MarkedSoFar,
         PagesOf, Run, Abstract!PagesOf, Abstract!Run
  <2>2. BitmapMatchesCallers'
    BY <1>6, <2>1 DEF ReturnRun, IInv, BitmapMatchesCallers
  <2>3. (TypeOK /\ KernelPagesKept /\ RunsAreUserPages)'
    BY <1>6 DEF ReturnRun, IInv, TypeOK, MarkInvariant, KernelPagesKept, RunsAreUserPages,
         scanVars, Run, Abstract!Run
  <2> QED
    BY <1>6, <2>2, <2>3 DEF ReturnRun, IInv, ScanInvariant, MarkInvariant
<1>7. ASSUME NEW r \in held, PageFree(r) PROVE IInv'
  <2>1. \A p \in Pages : p \in PagesOf(r) => page_map[p] = "USED"
    BY DEF IInv, BitmapMatchesCallers
  <2>2. \A p \in Pages : page_map'[p] = IF p \in PagesOf(r) THEN "FREE" ELSE page_map[p]
    BY <1>7 DEF PageFree
  <2>3. TypeOK' /\ KernelPagesKept' /\ RunsAreUserPages'
    BY <1>7, <2>1 DEF PageFree, IInv, TypeOK, KernelPagesKept, RunsAreUserPages, scanVars
  <2>4. BitmapMatchesCallers'
    <3>1. MarkedSoFar' = MarkedSoFar
      BY <1>7 DEF PageFree, MarkedSoFar, scanVars
    <3>2. \A s \in held' : s \in held /\ s # r
      BY <1>7 DEF PageFree
    <3> QED
      BY <1>7, <2>1, <2>2, <3>1, <3>2 DEF PageFree, IInv, BitmapMatchesCallers
  <2>5. \A p \in Pages : page_map[p] = "FREE" => page_map'[p] = "FREE"
    BY <2>2
  <2>6. ScanInvariant' /\ MarkInvariant'
    BY <1>7, <2>5 DEF PageFree, IInv, TypeOK, ScanInvariant, MarkInvariant, FreeAtCall, scanVars, Pages
  <2> QED
    BY <2>3, <2>4, <2>6 DEF IInv
<1>8. ASSUME UNCHANGED vars PROVE IInv'
  BY <1>8 DEF vars, IInv, TypeOK, BitmapMatchesCallers, MarkedSoFar, KernelPagesKept,
       RunsAreUserPages, ScanInvariant, MarkInvariant, FreeAtCall
<1> QED
  BY <1>1, <1>2, <1>3, <1>4, <1>5, <1>6, <1>7, <1>8 DEF Next

\* The inductive invariant holds throughout.
THEOREM Invariance == Spec => []IInv
BY InitEstablishes, StepPreserves, PTL DEF Spec

\* Every variable keeps its type.
THEOREM TypeCorrect == Spec => []TypeOK
<1>1. IInv => TypeOK
  BY DEF IInv
<1> QED
  BY <1>1, Invariance, PTL

\* The bitmap and the callers agree on every page, in any interleaving of
\* page_alloc with the interrupt's page_free.
THEOREM BitmapAgrees == Spec => []BitmapMatchesCallers
<1>1. IInv => BitmapMatchesCallers
  BY DEF IInv
<1> QED
  BY <1>1, Invariance, PTL

\* page_alloc returns NULL only when no run was free at the call, and the
\* lowest run it can: first fit, although interrupts free pages meanwhile.
THEOREM MissesNoRun == Spec => []NoMissedRun
<1>1. IInv => NoMissedRun
  <2> SUFFICES ASSUME IInv, count > 0 PROVE
        /\ NoRunFound => \A f \in Pages : ~ FreeAtCall(f)
        /\ pc = "mark" => \A f \in Pages : FreeAtCall(f) => first <= f
    BY DEF NoMissedRun
  <2>1. ASSUME NoRunFound, NEW f \in Pages, FreeAtCall(f) PROVE FALSE
    <3>1. i = TotalPages /\ f >= i - found /\ found < count
      BY <2>1, KernelPagesBound DEF IInv, TypeOK, ScanInvariant, NoRunFound
    <3>2. f + count - 1 \in PagesOf(Run(f, count)) /\ PagesOf(Run(f, count)) \subseteq Pages
      BY <2>1, KernelPagesBound DEF IInv, TypeOK, FreeAtCall, PagesOf, Run, Abstract!PagesOf,
           Abstract!Run, Pages
    <3> QED
      BY <3>1, <3>2, KernelPagesBound DEF IInv, TypeOK, Pages
  <2> QED
    BY <2>1 DEF IInv, MarkInvariant
<1> QED
  BY <1>1, Invariance, PTL

\* Every step of the loops is a step of PageSpec, or changes nothing there.
THEOREM StepRefines == IInv /\ [Next]_vars => [Abstract!SpecNext]_held
<1> SUFFICES ASSUME IInv, Next PROVE Abstract!SpecNext \/ UNCHANGED held
  BY DEF vars
<1>1. ASSUME ReturnRun PROVE Abstract!SpecNext
  <2>1. pc = "mark" /\ count \in Counts /\ count > 0 /\ first \in UserPages
    BY <1>1, KernelPagesBound DEF ReturnRun, IInv, TypeOK, MarkInvariant, UserPages
  <2>2. MarkedSoFar = PagesOf(Run(first, count)) /\ PagesOf(Run(first, count)) \subseteq UserPages
    BY <1>1, KernelPagesBound DEF ReturnRun, IInv, TypeOK, MarkInvariant, MarkedSoFar, UserPages,
         PagesOf, Run, Abstract!PagesOf, Abstract!Run
  <2>3. PagesOf(Run(first, count)) \cap Abstract!HeldPages = {}
    BY <2>2 DEF IInv, BitmapMatchesCallers, Abstract!HeldPages, PagesOf
  <2>4. Abstract!SpecAlloc(first, count)
    BY <1>1, <2>1, <2>2, <2>3 DEF ReturnRun, Abstract!SpecAlloc, PagesOf, Run
  <2> QED
    BY <2>1, <2>4 DEF Abstract!SpecNext
<1>2. ASSUME NEW r \in held, PageFree(r) PROVE Abstract!SpecNext
  <2>1. Abstract!SpecFree({r}) /\ {r} \in SUBSET held
    BY <1>2 DEF PageFree, Abstract!SpecFree
  <2> QED
    BY <2>1 DEF Abstract!SpecNext
<1> QED
  BY <1>1, <1>2 DEF Next, PageAllocCall, ScanFreePage, ScanBusyPage, ReturnNull, MarkPage

\* page_alloc and page_free hand out disjoint runs of user pages.
THEOREM Refinement == Spec => ImplementsPageSpec
<1>1. Init => Abstract!SpecInit
  BY DEF Init, Abstract!SpecInit
<1> QED
  BY <1>1, StepRefines, Invariance, PTL DEF Spec, ImplementsPageSpec, Abstract!PageSpecification
=============================================================================
