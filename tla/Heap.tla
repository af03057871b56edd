-------------------------------- MODULE Heap --------------------------------
(***************************************************************************)
(* kmalloc and kfree of kernel/mm.c: first fit over an address-ordered     *)
(* list of blocks that tile the heap, splitting on allocation, coalescing  *)
(* on every free.  One action is one iteration of a loop.                  *)
(*                                                                         *)
(* Addresses are offsets from kmalloc_base.  A header is named by its      *)
(* address: `blocks` holds the headers on free_list.  Nothing below runs   *)
(* in an interrupt handler, and one caller at a time is in the allocator.  *)
(* Callers free only what they hold, or NULL, which changes nothing.       *)
(***************************************************************************)
EXTENDS Integers

CONSTANTS
  HeapEnd,     \* kmalloc_end - kmalloc_base
  Sizes        \* the values of `size` callers pass, none near SIZE_MAX

HDR == 24      \* sizeof(block_header_t)
NULL == -1

ASSUME HeapAssumption ==
  /\ HeapEnd \in Nat /\ HeapEnd >= HDR
  /\ Sizes \subseteq Nat

VARIABLES
  blocks,      \* header address -> size, free, next
  pc,          \* idle, walk (kmalloc's loop), merge (kfree's loop)
  asked, size, \* kmalloc's argument, and its value once aligned
  curr,        \* the block the loop is at, or NULL
  held         \* history: block address -> bytes asked for

vars == <<blocks, pc, asked, size, curr, held>>

Block(s, f, n) == [size |-> s, free |-> f, next |-> n]

\* ALIGN(n, 16); ALIGNNone is a build without it.
ALIGNNone(n) == n
ALIGN(n) == ((n + 15) \div 16) * 16

Forget(a) == [x \in DOMAIN held \ {a} |-> held[x]]
Hold(a, n) == [x \in DOMAIN held \cup {a} |-> IF x = a THEN n ELSE held[x]]
-----------------------------------------------------------------------------
\* mm_init, the part that sets up the heap: one free block.
Init ==
  /\ blocks = [a \in {0} |-> Block(HeapEnd - HDR, TRUE, NULL)]
  /\ pc = "idle"
  /\ asked = 0 /\ size = 0
  /\ curr = NULL
  /\ held = [a \in {} |-> 0]

KmallocCall(n) ==
  /\ pc = "idle"
  /\ pc' = "walk"
  /\ asked' = n /\ size' = ALIGN(n)
  /\ curr' = 0
  /\ UNCHANGED <<blocks, held>>

Walking == pc = "walk" /\ curr # NULL
Fits == blocks[curr].free /\ blocks[curr].size >= size

\* Worth splitting: room for another header and more than 16 bytes.
\* SplitsAlways does not look.
SplitsAlways == TRUE
Splits == blocks[curr].size > size + HDR + 16

WalkNext ==
  /\ Walking /\ ~ Fits
  /\ curr' = blocks[curr].next
  /\ UNCHANGED <<blocks, pc, asked, size, held>>

\* Gives the new block the header's bytes as well.
WalkSplitHeaderLost ==
  /\ Walking /\ Fits /\ Splits
  /\ LET new == curr + HDR + size IN
       blocks' = [a \in DOMAIN blocks \cup {new} |->
                    CASE a = curr -> Block(size, FALSE, new)
                      [] a = new -> Block(blocks[curr].size - size, TRUE, blocks[curr].next)
                      [] OTHER -> blocks[a]]
  /\ held' = Hold(curr, asked)
  /\ pc' = "idle"
  /\ UNCHANGED <<asked, size, curr>>

\* The block is cut: what is left becomes a free block after it.
WalkSplit ==
  /\ Walking /\ Fits /\ Splits
  /\ LET new == curr + HDR + size IN
       blocks' = [a \in DOMAIN blocks \cup {new} |->
                    CASE a = curr -> Block(size, FALSE, new)
                      [] a = new -> Block(blocks[curr].size - size - HDR, TRUE,
                                          blocks[curr].next)
                      [] OTHER -> blocks[a]]
  /\ held' = Hold(curr, asked)
  /\ pc' = "idle"
  /\ UNCHANGED <<asked, size, curr>>

WalkTake ==
  /\ Walking /\ Fits /\ ~ Splits
  /\ blocks' = [blocks EXCEPT ![curr].free = FALSE]
  /\ held' = Hold(curr, asked)
  /\ pc' = "idle"
  /\ UNCHANGED <<asked, size, curr>>

\* The list is exhausted: kmalloc is about to return NULL.
NoBlockFound == pc = "walk" /\ curr = NULL

ReturnNull ==
  /\ NoBlockFound
  /\ pc' = "idle"
  /\ UNCHANGED <<blocks, asked, size, curr, held>>

KfreeCall(a) ==
  /\ pc = "idle" /\ a \in DOMAIN held
  /\ pc' = "merge"
  /\ blocks' = [blocks EXCEPT ![a].free = TRUE]
  /\ curr' = 0
  /\ held' = Forget(a)
  /\ UNCHANGED <<asked, size>>

Merging == pc = "merge" /\ curr # NULL
NextIsFree(a) ==
  /\ blocks[a].free
  /\ blocks[a].next # NULL
  /\ blocks[blocks[a].next].free

\* Without the `continue`: goes on to the next block at once.
MergeAbsorbAndGo ==
  /\ Merging /\ NextIsFree(curr)
  /\ LET n == blocks[curr].next IN
       /\ blocks' = [a \in DOMAIN blocks \ {n} |->
                       IF a = curr THEN Block(blocks[curr].size + HDR + blocks[n].size, TRUE,
                                              blocks[n].next)
                                   ELSE blocks[a]]
       /\ curr' = blocks[n].next
  /\ UNCHANGED <<pc, asked, size, held>>

\* curr swallows its successor, and looks again from the same place.
MergeAbsorb ==
  /\ Merging /\ NextIsFree(curr)
  /\ LET n == blocks[curr].next IN
       blocks' = [a \in DOMAIN blocks \ {n} |->
                    IF a = curr THEN Block(blocks[curr].size + HDR + blocks[n].size, TRUE,
                                           blocks[n].next)
                                ELSE blocks[a]]
  /\ UNCHANGED <<pc, asked, size, curr, held>>

\* As if the `continue` followed every free block, merged or not.
MergeNextStuck ==
  /\ Merging /\ ~ NextIsFree(curr)
  /\ curr' = IF blocks[curr].free THEN curr ELSE blocks[curr].next
  /\ UNCHANGED <<blocks, pc, asked, size, held>>

MergeNext ==
  /\ Merging /\ ~ NextIsFree(curr)
  /\ curr' = blocks[curr].next
  /\ UNCHANGED <<blocks, pc, asked, size, held>>

KfreeReturn ==
  /\ pc = "merge" /\ curr = NULL
  /\ pc' = "idle"
  /\ UNCHANGED <<blocks, asked, size, curr, held>>

Kmalloc == WalkNext \/ WalkSplit \/ WalkTake \/ ReturnNull
Kfree == MergeAbsorb \/ MergeNext \/ KfreeReturn

Next ==
  \/ \E n \in Sizes : KmallocCall(n)
  \/ \E a \in DOMAIN held : KfreeCall(a)
  \/ Kmalloc
  \/ Kfree

Spec == Init /\ [][Next]_vars

\* A call that has begun keeps running: nothing in either loop waits.
FairSpec == Spec /\ WF_vars(Kmalloc \/ Kfree)
-----------------------------------------------------------------------------
TypeOK ==
  /\ DOMAIN blocks \subseteq 0 .. (HeapEnd - HDR)
  /\ blocks \in [DOMAIN blocks -> [size : Nat, free : BOOLEAN,
                                   next : DOMAIN blocks \cup {NULL}]]
  /\ pc \in {"idle", "walk", "merge"}
  /\ asked \in Nat /\ size \in Nat
  /\ curr \in DOMAIN blocks \cup {NULL}
  /\ DOMAIN held \subseteq DOMAIN blocks
  /\ held \in [DOMAIN held -> Nat]

\* The first byte after a block.
EndOf(a) == a + HDR + blocks[a].size

\* The next pointer of a block is the address where it ends, the last one
\* ends the heap, every byte is in some block and no two blocks overlap.
TilesHeap ==
  /\ 0 \in DOMAIN blocks
  /\ \A a \in DOMAIN blocks :
       blocks[a].next = IF EndOf(a) = HeapEnd THEN NULL ELSE EndOf(a)
  /\ \A x \in 0 .. (HeapEnd - 1) : \E a \in DOMAIN blocks : a <= x /\ x < EndOf(a)
  /\ \A a, b \in DOMAIN blocks : a < b => EndOf(a) <= b

\* The blocks in use are the callers', each with the room asked for.
UsedIsHeld ==
  /\ \A a \in DOMAIN blocks : blocks[a].free <=> a \notin DOMAIN held
  /\ \A a \in DOMAIN held : held[a] <= blocks[a].size

(***************************************************************************)
(* The list tiles the heap whatever kmalloc cuts and kfree joins, and its  *)
(* blocks in use are the callers', none lost and none too small            *)
(* (mm.c:54-64, 84-94).                                                    *)
(***************************************************************************)
Tiled == TilesHeap /\ UsedIsHeld

\* `n` bytes at x meet a block some caller holds.
Occupied(x, n) == \E a \in DOMAIN held : a < x + n /\ x < EndOf(a)

(***************************************************************************)
(* kmalloc returns NULL only when no stretch of the heap clear of the      *)
(* callers' blocks could hold a header and the request, however the frees  *)
(* were ordered: kfree leaves no fragmentation of its own (mm.c:86-94).    *)
(***************************************************************************)
NullOnlyWhenFull ==
  NoBlockFound => \A x \in 0 .. (HeapEnd - HDR - size) : Occupied(x, HDR + size)

(***************************************************************************)
(* Once every caller has freed what it held, the heap is what mm_init made *)
(* of it: one free block (mm.c:41-45).                                     *)
(***************************************************************************)
FullyRestored ==
  pc = "idle" /\ held = [a \in {} |-> 0] =>
    blocks = [a \in {0} |-> Block(HeapEnd - HDR, TRUE, NULL)]

(***************************************************************************)
(* kmalloc and kfree return: neither loop runs in a cycle, kfree's         *)
(* `continue` on the same block included (mm.c:91).                        *)
(***************************************************************************)
CallsReturn == pc # "idle" ~> pc = "idle"

\* A caller's pointer is the byte after its block's header.
Payloads == [p \in {a + HDR : a \in DOMAIN held} |-> held[p - HDR]]
Abstract == INSTANCE HeapSpec WITH held <- Payloads

\* The list hands out disjoint, aligned memory inside the heap.
ImplementsHeapSpec == Abstract!HeapSpecification
=============================================================================
