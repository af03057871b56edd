----------------------------- MODULE HeapProofs -----------------------------
(***************************************************************************)
(* What Heap's invariants hold for every heap size and every set of        *)
(* request sizes, and that it implements HeapSpec.                         *)
(*                                                                         *)
(* Tiled is inductive once headers are known to be aligned.  For           *)
(* NullOnlyWhenFull and FullyRestored the invariant also says how far each *)
(* loop has come: kmalloc has met no block that fits before curr, and      *)
(* kfree leaves no free block before curr with a free successor.           *)
(***************************************************************************)
EXTENDS Heap, TLAPS

Aligned == \A a \in DOMAIN blocks : a % 8 = 0

\* The list before the block the loop is at; all of it once curr is NULL.
Behind(a) == curr = NULL \/ a < curr

WalkInvariant ==
  pc = "walk" =>
    /\ asked \in Sizes /\ size = ALIGN(asked)
    /\ \A a \in DOMAIN blocks : Behind(a) => ~ (blocks[a].free /\ blocks[a].size >= size)

\* Free neighbours exist only during a kfree, at curr or after it.
Coalesced ==
  \A a \in DOMAIN blocks : (pc = "merge" => Behind(a)) => ~ NextIsFree(a)

IInv ==
  /\ TypeOK
  /\ Tiled
  /\ Aligned
  /\ WalkInvariant
  /\ Coalesced

\* A block lies in the heap, and its successor is the first block after it.
LEMMA ListOrder ==
  ASSUME TypeOK, Tiled, NEW a \in DOMAIN blocks
  PROVE  /\ a \in Nat /\ blocks[a].size \in Nat /\ EndOf(a) \in Nat /\ EndOf(a) <= HeapEnd
         /\ EndOf(a) > a
         /\ blocks[a].next # NULL =>
              /\ blocks[a].next \in DOMAIN blocks /\ blocks[a].next = EndOf(a)
              /\ \A b \in DOMAIN blocks : a < b => blocks[a].next <= b
         /\ blocks[a].next = NULL => EndOf(a) = HeapEnd /\ \A b \in DOMAIN blocks : b <= a
<1>1. a \in Nat /\ blocks[a].size \in Nat /\ EndOf(a) \in Nat /\ EndOf(a) > a
  BY HeapAssumption DEF TypeOK, EndOf, HDR
<1>2. \A b \in DOMAIN blocks : b \in Nat /\ b < HeapEnd
  BY HeapAssumption DEF TypeOK, HDR
<1>3. blocks[a].next \in DOMAIN blocks \cup {NULL}
  BY DEF TypeOK
<1>4. blocks[a].next = IF EndOf(a) = HeapEnd THEN NULL ELSE EndOf(a)
  BY DEF Tiled, TilesHeap, UsedIsHeld
<1>5. \A b \in DOMAIN blocks : a < b => EndOf(a) <= b
  BY DEF Tiled, TilesHeap, UsedIsHeld
<1>6. NULL \notin Nat
  BY DEF NULL
<1> QED
  BY <1>1, <1>2, <1>3, <1>4, <1>5, <1>6, HeapAssumption

\* Rounding up to 16: no less than asked, and a multiple of 8.
LEMMA AlignRoundsUp ==
  ASSUME NEW n \in Nat PROVE ALIGN(n) \in Nat /\ ALIGN(n) >= n /\ ALIGN(n) % 8 = 0
BY DEF ALIGN

\* mm_init leaves one free block that is the whole heap.
THEOREM InitEstablishes == Init => IInv
<1> SUFFICES ASSUME Init PROVE IInv
  OBVIOUS
<1>1. DOMAIN blocks = {0} /\ blocks[0] = Block(HeapEnd - HDR, TRUE, NULL)
  BY DEF Init
<1>2. TypeOK
  BY <1>1, HeapAssumption DEF Init, TypeOK, Block, HDR, NULL
<1>3. Tiled
  BY <1>1, HeapAssumption DEF Init, Tiled, TilesHeap, UsedIsHeld, Block, HDR, EndOf
<1>4. Aligned /\ WalkInvariant /\ Coalesced
  BY <1>1 DEF Init, Aligned, WalkInvariant, Coalesced, NextIsFree, Block
<1> QED
  BY <1>2, <1>3, <1>4 DEF IInv

\* A loop that moves to the next block leaves curr, and only it, behind.
LEMMA MovingOn ==
  ASSUME TypeOK, Tiled, curr \in DOMAIN blocks, curr' = blocks[curr].next,
         NEW a \in DOMAIN blocks, Behind(a)'
  PROVE  Behind(a) \/ a = curr
BY ListOrder DEF Behind, NULL

\* A step that changes no block keeps the tiling.
LEMMA BlocksUnchanged ==
  ASSUME IInv, UNCHANGED <<blocks, held>> PROVE Tiled' /\ Aligned'
BY DEF IInv, Tiled, TilesHeap, UsedIsHeld, Aligned, EndOf

\* kmalloc cuts a free block in two: the first part is its result.
LEMMA SplitPreserves == IInv /\ WalkSplit => IInv'
<1> SUFFICES ASSUME IInv, WalkSplit PROVE IInv'
  OBVIOUS
<1> PICK c : c = curr
  OBVIOUS
<1> PICK n : n = size
  OBVIOUS
<1> PICK new : new = c + HDR + n
  OBVIOUS
<1> PICK old : old = blocks[c]
  OBVIOUS
<1>1. /\ pc = "walk" /\ c \in DOMAIN blocks /\ c \in Nat
      /\ n \in Nat /\ n % 8 = 0 /\ asked \in Nat /\ asked <= n
      /\ old.free /\ old.size \in Nat /\ old.size > n + 40
  BY AlignRoundsUp, HeapAssumption
     DEF IInv, TypeOK, WalkSplit, Walking, Fits, Splits, WalkInvariant, HDR, NULL
<1>2. blocks' = [a \in DOMAIN blocks \cup {new} |->
                   CASE a = c -> Block(n, FALSE, new)
                     [] a = new -> Block(old.size - n - HDR, TRUE, old.next)
                     [] OTHER -> blocks[a]]
  BY DEF WalkSplit
<1>3. /\ new \in Nat /\ new > c /\ new + 40 < EndOf(c)
      /\ EndOf(c) <= HeapEnd /\ EndOf(c) \in Nat /\ HeapEnd \in Nat
      /\ EndOf(c) = c + HDR + old.size
  BY <1>1, ListOrder, HeapAssumption DEF IInv, EndOf, HDR
<1>4. new \notin DOMAIN blocks
  BY <1>1, <1>3 DEF IInv, TypeOK, Tiled, TilesHeap, UsedIsHeld
<1>5. /\ DOMAIN blocks' = DOMAIN blocks \cup {new}
      /\ blocks'[c] = Block(n, FALSE, new)
      /\ blocks'[new] = Block(old.size - n - HDR, TRUE, old.next)
      /\ \A a \in DOMAIN blocks : a # c => a # new /\ blocks'[a] = blocks[a]
  BY <1>1, <1>2, <1>3, <1>4
<1>6. held' = Hold(c, asked) /\ asked' = asked /\ size' = size /\ curr' = curr /\ pc' = "idle"
  BY DEF WalkSplit
<1>7. /\ DOMAIN held' = DOMAIN held \cup {c}
      /\ held'[c] = asked
      /\ \A a \in DOMAIN held : a # c => held'[a] = held[a]
  BY <1>6 DEF Hold
<1>8. /\ EndOf(c)' = new
      /\ EndOf(new)' = EndOf(c)
      /\ \A a \in DOMAIN blocks : a # c => EndOf(a)' = EndOf(a)
  <2>1. EndOf(c)' = new
    BY <1>1, <1>5 DEF EndOf, Block
  <2>2. EndOf(new)' = EndOf(c)
    BY <1>1, <1>3, <1>5 DEF EndOf, Block, HDR
  <2>3. \A a \in DOMAIN blocks : a # c => EndOf(a)' = EndOf(a)
    BY <1>5 DEF EndOf
  <2> QED
    BY <2>1, <2>2, <2>3
<1>9. TypeOK'
  <2>1. DOMAIN blocks' \subseteq 0 .. (HeapEnd - HDR)
    BY <1>3, <1>5, HeapAssumption DEF IInv, TypeOK, HDR
  <2>2. \A a \in DOMAIN blocks' :
          blocks'[a] \in [size : Nat, free : BOOLEAN, next : DOMAIN blocks' \cup {NULL}]
    <3>1. \A a \in DOMAIN blocks :
            blocks[a] \in [size : Nat, free : BOOLEAN, next : DOMAIN blocks' \cup {NULL}]
      BY <1>5 DEF IInv, TypeOK
    <3>2. blocks'[c] \in [size : Nat, free : BOOLEAN, next : DOMAIN blocks' \cup {NULL}]
      BY <1>1, <1>5 DEF Block
    <3>3. blocks'[new] \in [size : Nat, free : BOOLEAN, next : DOMAIN blocks' \cup {NULL}]
      <4>1. old.size - n - HDR \in Nat
        BY <1>1 DEF HDR
      <4> QED
        BY <1>1, <1>5, <3>1, <4>1 DEF Block
    <3> QED
      BY <1>5, <3>1, <3>2, <3>3
  <2>3. blocks' \in [DOMAIN blocks' -> [size : Nat, free : BOOLEAN,
                                       next : DOMAIN blocks' \cup {NULL}]]
    <3> DEFINE value(a) == CASE a = c -> Block(n, FALSE, new)
                             [] a = new -> Block(old.size - n - HDR, TRUE, old.next)
                             [] OTHER -> blocks[a]
    <3>1. blocks' = [a \in DOMAIN blocks \cup {new} |-> value(a)]
      BY <1>2
    <3> HIDE DEF value
    <3> QED
      BY <2>2, <3>1
  <2>4. held' \in [DOMAIN held' -> Nat] /\ DOMAIN held' \subseteq DOMAIN blocks'
    BY <1>1, <1>5, <1>6, <1>7 DEF IInv, TypeOK, Hold
  <2> QED
    BY <1>1, <1>5, <1>6, <2>1, <2>3, <2>4 DEF IInv, TypeOK
<1>10. Tiled'
  <2>1. \A a \in DOMAIN blocks' :
          blocks'[a].next = IF EndOf(a)' = HeapEnd THEN NULL ELSE EndOf(a)'
    <3>1. \A a \in DOMAIN blocks : blocks[a].next = IF EndOf(a) = HeapEnd THEN NULL ELSE EndOf(a)
      BY DEF IInv, Tiled, TilesHeap, UsedIsHeld
    <3>2. blocks'[c].next = new /\ blocks'[new].next = old.next
      BY <1>5 DEF Block
    <3> SUFFICES ASSUME NEW a \in DOMAIN blocks'
                 PROVE  blocks'[a].next = IF EndOf(a)' = HeapEnd THEN NULL ELSE EndOf(a)'
      OBVIOUS
    <3>3. CASE a = c
      BY <1>3, <1>8, <3>2, <3>3
    <3>4. CASE a = new
      BY <1>1, <1>8, <3>1, <3>2, <3>4
    <3>5. CASE a \in DOMAIN blocks /\ a # c
      BY <1>5, <1>8, <3>1, <3>5
    <3> QED
      BY <1>5, <3>3, <3>4, <3>5
  <2>2. \A x \in 0 .. (HeapEnd - 1) : \E a \in DOMAIN blocks' : a <= x /\ x < EndOf(a)'
    <3> SUFFICES ASSUME NEW x \in 0 .. (HeapEnd - 1)
                 PROVE  \E a \in DOMAIN blocks' : a <= x /\ x < EndOf(a)'
      OBVIOUS
    <3>1. PICK a \in DOMAIN blocks : a <= x /\ x < EndOf(a)
      BY DEF IInv, Tiled, TilesHeap, UsedIsHeld
    <3>2. CASE a # c
      BY <1>5, <1>8, <3>1, <3>2
    <3>3. CASE a = c /\ x < new
      BY <1>5, <1>8, <3>1, <3>3
    <3>4. CASE a = c /\ ~ (x < new)
      BY <1>3, <1>5, <1>8, <3>1, <3>4
    <3> QED
      BY <3>2, <3>3, <3>4
  <2>3. \A a, b \in DOMAIN blocks' : a < b => EndOf(a)' <= b
    <3>1. \A a, b \in DOMAIN blocks : a < b => EndOf(a) <= b
      BY DEF IInv, Tiled, TilesHeap, UsedIsHeld
    <3>2. \A a \in DOMAIN blocks : a \in Nat /\ EndOf(a) \in Nat /\ EndOf(a) > a
      BY ListOrder DEF IInv
    <3> SUFFICES ASSUME NEW a \in DOMAIN blocks', NEW b \in DOMAIN blocks', a < b
                 PROVE  EndOf(a)' <= b
      OBVIOUS
    <3>3. CASE a \in DOMAIN blocks /\ b \in DOMAIN blocks
      BY <1>1, <1>3, <1>8, <3>1, <3>2, <3>3
    <3>4. CASE a = new
      BY <1>1, <1>3, <1>5, <1>8, <3>1, <3>2, <3>4
    <3>5. CASE b = new /\ a \in DOMAIN blocks
      BY <1>1, <1>3, <1>5, <1>8, <3>1, <3>2, <3>5
    <3> QED
      BY <1>5, <3>3, <3>4, <3>5
  <2>4. \A a \in DOMAIN blocks' : blocks'[a].free <=> a \notin DOMAIN held'
    <3>1. blocks'[c].free = FALSE /\ blocks'[new].free = TRUE
      BY <1>5 DEF Block
    <3>2. \A a \in DOMAIN blocks : blocks[a].free <=> a \notin DOMAIN held
      BY DEF IInv, Tiled, TilesHeap, UsedIsHeld
    <3>3. new \notin DOMAIN held'
      BY <1>3, <1>4, <1>7 DEF IInv, TypeOK
    <3> QED
      BY <1>5, <1>7, <3>1, <3>2, <3>3
  <2>5. \A a \in DOMAIN held' : held'[a] <= blocks'[a].size
    <3>1. blocks'[c].size = n
      BY <1>5 DEF Block
    <3> QED
      BY <1>1, <1>5, <1>7, <3>1 DEF IInv, TypeOK, Tiled, TilesHeap, UsedIsHeld
  <2>6. 0 \in DOMAIN blocks'
    BY <1>5 DEF IInv, Tiled, TilesHeap, UsedIsHeld
  <2> QED
    BY <2>1, <2>2, <2>3, <2>4, <2>5, <2>6 DEF Tiled, TilesHeap, UsedIsHeld
<1>11. Aligned'
  BY <1>1, <1>3, <1>5 DEF IInv, Aligned, HDR
<1>12. WalkInvariant' /\ Coalesced'
  <2>1. \A a \in DOMAIN blocks : ~ NextIsFree(a)
    BY <1>1 DEF IInv, Coalesced
  <2>2. \A a \in DOMAIN blocks : blocks[a].next # new /\ blocks[a].next \in DOMAIN blocks \cup {NULL}
    BY <1>3, <1>4 DEF IInv, TypeOK, NULL
  <2>3. ~ blocks'[c].free /\ blocks'[new].next = old.next
    BY <1>5 DEF Block
  <2>4. \A a \in DOMAIN blocks' : ~ NextIsFree(a)'
    <3> SUFFICES ASSUME NEW a \in DOMAIN blocks', NextIsFree(a)' PROVE FALSE
      OBVIOUS
    <3>1. CASE a = new
      BY ZenonT(60), <1>1, <1>5, <2>1, <2>2, <2>3, <3>1 DEF NextIsFree
    <3>2. CASE a # new
      <4>1. a \in DOMAIN blocks /\ a # c /\ blocks'[a] = blocks[a]
        BY <1>5, <2>3, <3>2 DEF NextIsFree
      <4>2. PICK b : b = blocks[a].next
        OBVIOUS
      <4>3. b \in DOMAIN blocks /\ blocks'[b].free /\ blocks[a].free /\ b # NULL
        BY <2>2, <4>1, <4>2 DEF NextIsFree
      <4>4. blocks[b].free
        BY <1>5, <2>3, <4>3
      <4> QED
        BY <2>1, <4>1, <4>2, <4>3, <4>4 DEF NextIsFree
    <3> QED
      BY <3>1, <3>2
  <2> QED
    BY <1>6, <2>4 DEF WalkInvariant, Coalesced
<1> QED
  BY <1>9, <1>10, <1>11, <1>12 DEF IInv

\* A step that only turns the free flag of block c keeps the tiling's shape.
LEMMA FlagPreserves ==
  ASSUME IInv, NEW c \in DOMAIN blocks, NEW f \in BOOLEAN,
         blocks' = [blocks EXCEPT ![c].free = f]
  PROVE  /\ DOMAIN blocks' = DOMAIN blocks
         /\ blocks' \in [DOMAIN blocks' -> [size : Nat, free : BOOLEAN,
                                            next : DOMAIN blocks' \cup {NULL}]]
         /\ \A a \in DOMAIN blocks :
              /\ blocks'[a].size = blocks[a].size /\ blocks'[a].next = blocks[a].next
              /\ blocks'[a].free = IF a = c THEN f ELSE blocks[a].free
         /\ TilesHeap'
         /\ Aligned'
<1>1. /\ DOMAIN blocks' = DOMAIN blocks
      /\ blocks' \in [DOMAIN blocks' -> [size : Nat, free : BOOLEAN,
                                         next : DOMAIN blocks' \cup {NULL}]]
  BY DEF IInv, TypeOK
<1>2. \A a \in DOMAIN blocks :
        /\ blocks'[a].size = blocks[a].size /\ blocks'[a].next = blocks[a].next
        /\ blocks'[a].free = IF a = c THEN f ELSE blocks[a].free
  BY DEF IInv, TypeOK
<1>3. \A a \in DOMAIN blocks : EndOf(a)' = EndOf(a)
  BY <1>1, <1>2 DEF EndOf
<1>4. TilesHeap' /\ Aligned'
  BY <1>1, <1>2, <1>3 DEF IInv, Tiled, TilesHeap, Aligned
<1> QED
  BY <1>1, <1>2, <1>4

\* kmalloc takes a block whole.
LEMMA TakePreserves == IInv /\ WalkTake => IInv'
<1> SUFFICES ASSUME IInv, WalkTake PROVE IInv'
  OBVIOUS
<1> PICK c : c = curr
  OBVIOUS
<1>1. /\ pc = "walk" /\ c \in DOMAIN blocks /\ blocks[c].free
      /\ asked \in Nat /\ asked <= blocks[c].size /\ blocks[c].size \in Nat
  BY AlignRoundsUp, HeapAssumption
     DEF IInv, TypeOK, WalkTake, Walking, Fits, WalkInvariant, NULL
<1>2. /\ blocks' = [blocks EXCEPT ![c].free = FALSE] /\ held' = Hold(c, asked)
      /\ asked' = asked /\ size' = size /\ curr' = curr /\ pc' = "idle"
  BY DEF WalkTake
<1>3. /\ DOMAIN held' = DOMAIN held \cup {c} /\ held' \in [DOMAIN held' -> Nat]
      /\ held'[c] = asked /\ \A a \in DOMAIN held : a # c => held'[a] = held[a]
  BY <1>1, <1>2 DEF Hold, IInv, TypeOK
<1>4. TypeOK'
  <2>1. /\ DOMAIN blocks' = DOMAIN blocks
        /\ blocks' \in [DOMAIN blocks' -> [size : Nat, free : BOOLEAN,
                                           next : DOMAIN blocks' \cup {NULL}]]
    BY <1>1, <1>2, FlagPreserves
  <2> QED
    BY <1>1, <1>2, <1>3, <2>1 DEF IInv, TypeOK
<1>5. Tiled'
  <2>1. DOMAIN blocks' = DOMAIN blocks /\ TilesHeap'
    BY <1>1, <1>2, FlagPreserves
  <2>2. \A a \in DOMAIN blocks :
          /\ blocks'[a].size = blocks[a].size
          /\ blocks'[a].free = IF a = c THEN FALSE ELSE blocks[a].free
    BY <1>1, <1>2, FlagPreserves
  <2>3. UsedIsHeld'
    BY <1>1, <1>3, <2>1, <2>2 DEF IInv, TypeOK, Tiled, UsedIsHeld
  <2> QED
    BY <2>1, <2>3 DEF Tiled
<1>6. Aligned' /\ WalkInvariant' /\ Coalesced'
  <2>1. \A a \in DOMAIN blocks : ~ NextIsFree(a)
    BY <1>1 DEF IInv, Coalesced
  <2>2. \A a \in DOMAIN blocks : ~ NextIsFree(a)'
    BY <1>1, <1>2, <2>1, FlagPreserves DEF NextIsFree, IInv, TypeOK
  <2> QED
    BY <1>1, <1>2, <2>2, FlagPreserves DEF IInv, Aligned, WalkInvariant, Coalesced
<1> QED
  BY <1>4, <1>5, <1>6 DEF IInv

\* kfree gives a block back, and begins to merge at the first block.
LEMMA KfreeCallPreserves ==
  ASSUME IInv, NEW c \in DOMAIN held, KfreeCall(c) PROVE IInv'
<1>1. c \in DOMAIN blocks
  BY DEF IInv, TypeOK
<1>2. /\ blocks' = [blocks EXCEPT ![c].free = TRUE] /\ held' = Forget(c)
      /\ asked' = asked /\ size' = size /\ curr' = 0 /\ pc' = "merge"
  BY DEF KfreeCall
<1>3. /\ DOMAIN held' = DOMAIN held \ {c} /\ held' \in [DOMAIN held' -> Nat]
      /\ \A a \in DOMAIN held' : held'[a] = held[a]
  BY <1>2 DEF Forget, IInv, TypeOK
<1>4. TypeOK'
  <2>1. /\ DOMAIN blocks' = DOMAIN blocks
        /\ blocks' \in [DOMAIN blocks' -> [size : Nat, free : BOOLEAN,
                                           next : DOMAIN blocks' \cup {NULL}]]
    BY <1>1, <1>2, FlagPreserves
  <2> QED
    BY <1>1, <1>2, <1>3, <2>1 DEF IInv, TypeOK, Tiled, TilesHeap, UsedIsHeld
<1>5. Tiled'
  <2>1. DOMAIN blocks' = DOMAIN blocks /\ TilesHeap'
    BY <1>1, <1>2, FlagPreserves
  <2>2. \A a \in DOMAIN blocks :
          /\ blocks'[a].size = blocks[a].size
          /\ blocks'[a].free = IF a = c THEN TRUE ELSE blocks[a].free
    BY <1>1, <1>2, FlagPreserves
  <2>3. UsedIsHeld'
    BY <1>1, <1>3, <2>1, <2>2 DEF IInv, TypeOK, Tiled, UsedIsHeld
  <2> QED
    BY <2>1, <2>3 DEF Tiled
<1>6. Aligned' /\ WalkInvariant'
  BY <1>1, <1>2, FlagPreserves DEF IInv, Aligned, WalkInvariant
<1>7. Coalesced'
  <2>1. \A a \in DOMAIN blocks' : ~ Behind(a)'
    BY <1>1, <1>2, FlagPreserves DEF IInv, TypeOK, Behind, NULL
  <2> QED
    BY <1>2, <2>1 DEF Coalesced
<1> QED
  BY <1>4, <1>5, <1>6, <1>7 DEF IInv

\* kfree joins the free block at curr with the free block after it.
LEMMA AbsorbPreserves == IInv /\ MergeAbsorb => IInv'
<1> SUFFICES ASSUME IInv, MergeAbsorb PROVE IInv'
  OBVIOUS
<1> PICK c : c = curr
  OBVIOUS
<1> PICK n : n = blocks[c].next
  OBVIOUS
<1> PICK room : room = blocks[c].size + HDR + blocks[n].size
  OBVIOUS
<1>1. /\ pc = "merge" /\ c \in DOMAIN blocks /\ n \in DOMAIN blocks
      /\ blocks[c].free /\ blocks[n].free
  BY DEF IInv, TypeOK, MergeAbsorb, Merging, NextIsFree
<1>2. /\ c \in Nat /\ n \in Nat /\ c < n /\ n = EndOf(c) /\ EndOf(n) > n
      /\ EndOf(n) \in Nat /\ EndOf(n) <= HeapEnd /\ HeapEnd \in Nat
      /\ blocks[c].size \in Nat /\ blocks[n].size \in Nat /\ room \in Nat
      /\ c + HDR + room = EndOf(n)
  <2>1. n # NULL
    BY <1>1 DEF IInv, TypeOK, NULL
  <2>2. /\ c \in Nat /\ n \in Nat /\ c < EndOf(c) /\ n = EndOf(c) /\ EndOf(n) > n
        /\ EndOf(n) \in Nat /\ EndOf(n) <= HeapEnd
        /\ blocks[c].size \in Nat /\ blocks[n].size \in Nat
    BY <1>1, <2>1, ListOrder DEF IInv
  <2> QED
    BY <2>2, HeapAssumption DEF EndOf, HDR
<1>3. /\ DOMAIN blocks' = DOMAIN blocks \ {n}
      /\ blocks'[c] = Block(room, TRUE, blocks[n].next)
      /\ \A a \in DOMAIN blocks' : a # c => blocks'[a] = blocks[a]
      /\ blocks' = [a \in DOMAIN blocks' |->
                      IF a = c THEN Block(room, TRUE, blocks[n].next) ELSE blocks[a]]
  <2>1. blocks' = [a \in DOMAIN blocks \ {n} |->
                     IF a = c THEN Block(room, TRUE, blocks[n].next) ELSE blocks[a]]
    BY DEF MergeAbsorb
  <2> DEFINE value(a) == IF a = c THEN Block(room, TRUE, blocks[n].next) ELSE blocks[a]
  <2>2. blocks' = [a \in DOMAIN blocks \ {n} |-> value(a)]
    BY <2>1
  <2>3. c \in DOMAIN blocks \ {n} /\ value(c) = Block(room, TRUE, blocks[n].next)
        /\ \A a : a # c => value(a) = blocks[a]
    BY <1>1, <1>2
  <2> HIDE DEF value
  <2>4. /\ DOMAIN blocks' = DOMAIN blocks \ {n}
        /\ \A a \in DOMAIN blocks' : blocks'[a] = value(a)
        /\ blocks' = [a \in DOMAIN blocks' |-> value(a)]
    BY <2>2
  <2> QED
    BY <2>3, <2>4 DEF value
<1>4. pc' = pc /\ asked' = asked /\ size' = size /\ curr' = curr /\ held' = held
  BY DEF MergeAbsorb
<1>5. /\ EndOf(c)' = EndOf(n)
      /\ \A a \in DOMAIN blocks' : a # c => EndOf(a)' = EndOf(a)
  <2>1. blocks'[c].size = room
    BY <1>3 DEF Block
  <2>2. EndOf(c)' = c + HDR + room
    BY <2>1 DEF EndOf
  <2> QED
    BY <1>2, <1>3, <2>2 DEF EndOf
<1>6. n \notin DOMAIN held /\ c \notin DOMAIN held
  BY <1>1 DEF IInv, Tiled, TilesHeap, UsedIsHeld
<1>7. \A a \in DOMAIN blocks' : a # c => blocks[a].next # n
  <2> SUFFICES ASSUME NEW a \in DOMAIN blocks, a # c, blocks[a].next = n PROVE FALSE
    BY <1>3
  <2>1. n # NULL
    BY <1>1 DEF IInv, TypeOK, NULL
  <2>2. n = EndOf(a) /\ EndOf(a) > a /\ a \in Nat
    BY <2>1, ListOrder DEF IInv
  <2>3. (a < c => EndOf(a) <= c) /\ (c < a => EndOf(c) <= a)
    BY <1>1 DEF IInv, Tiled, TilesHeap, UsedIsHeld
  <2> QED
    BY <1>2, <2>2, <2>3
<1>8. TypeOK'
  <2>1. \A a \in DOMAIN blocks : blocks[a] \in [size : Nat, free : BOOLEAN,
                                               next : DOMAIN blocks \cup {NULL}]
    BY DEF IInv, TypeOK
  <2>2. blocks[n].next # n /\ blocks[n].next \in DOMAIN blocks \cup {NULL}
    <3>1. blocks[n].next \in DOMAIN blocks \cup {NULL}
      BY <1>1, <2>1
    <3>2. blocks[n].next # NULL => blocks[n].next = EndOf(n)
      BY <1>1, ListOrder DEF IInv
    <3> QED
      BY <1>1, <1>2, <3>1, <3>2 DEF NULL
  <2>3. \A a \in DOMAIN blocks' :
          blocks'[a] \in [size : Nat, free : BOOLEAN, next : DOMAIN blocks' \cup {NULL}]
    <3> SUFFICES ASSUME NEW a \in DOMAIN blocks'
                 PROVE  blocks'[a] \in [size : Nat, free : BOOLEAN,
                                        next : DOMAIN blocks' \cup {NULL}]
      OBVIOUS
    <3>1. CASE a = c
      <4>1. blocks[n].next \in DOMAIN blocks' \cup {NULL}
        BY <1>3, <2>2
      <4>2. blocks'[a] = [size |-> room, free |-> TRUE, next |-> blocks[n].next]
        BY <1>3, <3>1 DEF Block
      <4>3. room \in Nat
        BY <1>2
      <4> QED
        BY <4>1, <4>2, <4>3
    <3>2. CASE a # c
      <4>1. blocks[a].next # n /\ blocks'[a] = blocks[a] /\ a \in DOMAIN blocks
        BY <1>3, <1>7, <3>2
      <4> QED
        BY <1>3, <2>1, <4>1
    <3> QED
      BY <3>1, <3>2
  <2>4. blocks' \in [DOMAIN blocks' -> [size : Nat, free : BOOLEAN,
                                       next : DOMAIN blocks' \cup {NULL}]]
    BY <1>3, <2>3
  <2>5. DOMAIN held \subseteq DOMAIN blocks' /\ c \in DOMAIN blocks'
    BY <1>1, <1>2, <1>3, <1>6 DEF IInv, TypeOK
  <2> QED
    BY <1>3, <1>4, <2>4, <2>5 DEF IInv, TypeOK
<1>9. Tiled'
  <2>1. \A a \in DOMAIN blocks' :
          blocks'[a].next = IF EndOf(a)' = HeapEnd THEN NULL ELSE EndOf(a)'
    <3>1. \A a \in DOMAIN blocks : blocks[a].next = IF EndOf(a) = HeapEnd THEN NULL ELSE EndOf(a)
      BY DEF IInv, Tiled, TilesHeap, UsedIsHeld
    <3>2. blocks'[c].next = blocks[n].next
      BY <1>3 DEF Block
    <3> QED
      BY ZenonT(60), <1>1, <1>3, <1>5, <3>1, <3>2
  <2>2. \A x \in 0 .. (HeapEnd - 1) : \E a \in DOMAIN blocks' : a <= x /\ x < EndOf(a)'
    <3> SUFFICES ASSUME NEW x \in 0 .. (HeapEnd - 1)
                 PROVE  \E a \in DOMAIN blocks' : a <= x /\ x < EndOf(a)'
      OBVIOUS
    <3>1. PICK a \in DOMAIN blocks : a <= x /\ x < EndOf(a)
      BY DEF IInv, Tiled, TilesHeap, UsedIsHeld
    <3>2. c \in DOMAIN blocks'
      BY <1>1, <1>2, <1>3
    <3>3. CASE a = c \/ a = n
      BY <1>2, <1>5, <3>1, <3>2, <3>3
    <3>4. CASE a # c /\ a # n
      BY <1>3, <1>5, <3>1, <3>4
    <3> QED
      BY <3>3, <3>4
  <2>3. \A a, b \in DOMAIN blocks' : a < b => EndOf(a)' <= b
    <3>1. \A a, b \in DOMAIN blocks : a < b => EndOf(a) <= b
      BY DEF IInv, Tiled, TilesHeap, UsedIsHeld
    <3>2. \A a \in DOMAIN blocks : a \in Nat
      BY ListOrder DEF IInv
    <3> SUFFICES ASSUME NEW a \in DOMAIN blocks', NEW b \in DOMAIN blocks', a < b
                 PROVE  EndOf(a)' <= b
      OBVIOUS
    <3>3. CASE a = c
      BY <1>1, <1>2, <1>3, <1>5, <3>1, <3>2, <3>3
    <3>4. CASE a # c
      BY <1>3, <1>5, <3>1, <3>4
    <3> QED
      BY <3>3, <3>4
  <2>4. \A a \in DOMAIN blocks' : blocks'[a].free <=> a \notin DOMAIN held'
    <3>1. blocks'[c].free = TRUE
      BY <1>3 DEF Block
    <3> QED
      BY <1>3, <1>4, <1>6, <3>1 DEF IInv, Tiled, TilesHeap, UsedIsHeld
  <2>5. \A a \in DOMAIN held' : held'[a] <= blocks'[a].size
    BY <1>3, <1>4, <1>6 DEF IInv, TypeOK, Tiled, TilesHeap, UsedIsHeld
  <2>6. 0 \in DOMAIN blocks'
    BY <1>2, <1>3 DEF IInv, Tiled, TilesHeap, UsedIsHeld
  <2> QED
    BY <2>1, <2>2, <2>3, <2>4, <2>5, <2>6 DEF Tiled, TilesHeap, UsedIsHeld
<1>10. Aligned' /\ WalkInvariant'
  BY <1>1, <1>3, <1>4 DEF IInv, Aligned, WalkInvariant
<1>11. Coalesced'
  <2> SUFFICES ASSUME NEW a \in DOMAIN blocks', Behind(a)', NextIsFree(a)' PROVE FALSE
    BY <1>1, <1>4 DEF Coalesced
  <2>1. Behind(a) /\ a # c /\ blocks'[a] = blocks[a] /\ a \in DOMAIN blocks
    BY <1>1, <1>2, <1>3, <1>4 DEF Behind, IInv, TypeOK, NULL
  <2>2. ~ NextIsFree(a)
    BY <1>1, <2>1 DEF IInv, Coalesced
  <2>3. PICK b : b = blocks[a].next
    OBVIOUS
  <2>4. b # NULL /\ b # n /\ b \in DOMAIN blocks /\ b \in DOMAIN blocks' /\ blocks'[b].free
        /\ blocks[a].free
    BY <1>3, <1>7, <2>1, <2>3 DEF NextIsFree, IInv, TypeOK
  <2>5. blocks[b].free
    BY <1>1, <1>3, <2>4
  <2> QED
    BY <2>2, <2>3, <2>4, <2>5 DEF NextIsFree
<1> QED
  BY <1>8, <1>9, <1>10, <1>11 DEF IInv

\* Each step of kmalloc and kfree keeps IInv.
THEOREM StepPreserves == IInv /\ [Next]_vars => IInv'
<1> SUFFICES ASSUME IInv, [Next]_vars PROVE IInv'
  OBVIOUS
<1>1. ASSUME NEW n \in Sizes, KmallocCall(n) PROVE IInv'
  <2>1. TypeOK'
    BY <1>1, AlignRoundsUp, HeapAssumption DEF KmallocCall, IInv, TypeOK, Tiled, TilesHeap, UsedIsHeld
  <2>2. \A a \in DOMAIN blocks : ~ Behind(a)'
    BY <1>1 DEF KmallocCall, IInv, TypeOK, Behind, NULL
  <2> QED
    BY <1>1, <2>1, <2>2, BlocksUnchanged
       DEF KmallocCall, IInv, WalkInvariant, Coalesced, NextIsFree
<1>2. ASSUME WalkNext PROVE IInv'
  <2>1. curr \in DOMAIN blocks /\ pc = "walk"
    BY <1>2 DEF WalkNext, Walking, IInv, TypeOK
  <2>2. TypeOK'
    BY <1>2, <2>1 DEF WalkNext, IInv, TypeOK
  <2>3. WalkInvariant'
    BY <1>2, <2>1, MovingOn DEF WalkNext, Fits, IInv, WalkInvariant
  <2> QED
    BY <1>2, <2>1, <2>2, <2>3, BlocksUnchanged DEF WalkNext, IInv, Coalesced, NextIsFree
<1>3. ASSUME WalkSplit PROVE IInv'
  BY <1>3, SplitPreserves
<1>4. ASSUME WalkTake PROVE IInv'
  BY <1>4, TakePreserves
<1>5. ASSUME ReturnNull PROVE IInv'
  BY <1>5, BlocksUnchanged
     DEF ReturnNull, NoBlockFound, IInv, TypeOK, WalkInvariant, Coalesced, NextIsFree
<1>6. ASSUME NEW a \in DOMAIN held, KfreeCall(a) PROVE IInv'
  BY <1>6, KfreeCallPreserves
<1>7. ASSUME MergeAbsorb PROVE IInv'
  BY <1>7, AbsorbPreserves
<1>8. ASSUME MergeNext PROVE IInv'
  <2>1. curr \in DOMAIN blocks /\ pc = "merge" /\ pc' = "merge" /\ ~ NextIsFree(curr)
    BY <1>8 DEF MergeNext, Merging, IInv, TypeOK
  <2>2. TypeOK'
    BY <1>8, <2>1 DEF MergeNext, IInv, TypeOK
  <2>3. \A a \in DOMAIN blocks : Behind(a)' => ~ NextIsFree(a)
    BY <1>8, <2>1, MovingOn DEF MergeNext, IInv, Coalesced
  <2>4. Coalesced' /\ WalkInvariant'
    BY <1>8, <2>1, <2>3 DEF MergeNext, Coalesced, WalkInvariant, NextIsFree
  <2> QED
    BY <1>8, <2>2, <2>4, BlocksUnchanged DEF MergeNext, IInv
<1>9. ASSUME KfreeReturn PROVE IInv'
  BY <1>9, BlocksUnchanged
     DEF KfreeReturn, IInv, TypeOK, WalkInvariant, Coalesced, NextIsFree, Behind
<1>10. ASSUME UNCHANGED vars PROVE IInv'
  BY <1>10, BlocksUnchanged
     DEF vars, IInv, TypeOK, WalkInvariant, Coalesced, NextIsFree, Behind
<1> QED
  BY <1>1, <1>2, <1>3, <1>4, <1>5, <1>6, <1>7, <1>8, <1>9, <1>10 DEF Next, Kmalloc, Kfree

\* The inductive invariant holds throughout.
THEOREM Invariance == Spec => []IInv
BY InitEstablishes, StepPreserves, PTL DEF Spec

\* Every variable keeps its type.
THEOREM TypeCorrect == Spec => []TypeOK
<1>1. IInv => TypeOK
  BY DEF IInv
<1> QED
  BY <1>1, Invariance, PTL

\* The blocks tile the heap, and the ones in use are the callers'.
THEOREM AlwaysTiled == Spec => []Tiled
<1>1. IInv => Tiled
  BY DEF IInv
<1> QED
  BY <1>1, Invariance, PTL

\* kmalloc fails only when no stretch clear of the callers' blocks is large
\* enough.  A byte of such a stretch lies in a free block; that block is too
\* small, so the stretch runs into the next one, which is in use.
THEOREM FailsOnlyWhenFull == Spec => []NullOnlyWhenFull
<1>1. IInv => NullOnlyWhenFull
  <2> SUFFICES ASSUME IInv, NoBlockFound, NEW x \in 0 .. (HeapEnd - HDR - size)
               PROVE  Occupied(x, HDR + size)
    BY DEF NullOnlyWhenFull
  <2>1. size \in Nat /\ x \in 0 .. (HeapEnd - 1) /\ x + HDR + size <= HeapEnd /\ x \in Nat
    BY HeapAssumption DEF IInv, TypeOK, HDR
  <2>2. PICK a \in DOMAIN blocks : a <= x /\ x < EndOf(a)
    BY <2>1 DEF IInv, Tiled, TilesHeap
  <2>3. a \in Nat /\ blocks[a].size \in Nat /\ EndOf(a) = a + HDR + blocks[a].size
    BY ListOrder DEF IInv, EndOf
  <2>4. CASE a \in DOMAIN held
    BY <2>1, <2>2, <2>3, <2>4 DEF Occupied, HDR
  <2>5. CASE a \notin DOMAIN held
    <3>1. blocks[a].free /\ ~ NextIsFree(a) /\ blocks[a].size < size
      <4>1. pc = "walk" /\ Behind(a)
        BY DEF NoBlockFound, Behind
      <4> QED
        BY <2>1, <2>3, <2>5, <4>1 DEF IInv, Tiled, UsedIsHeld, WalkInvariant, Coalesced
    <3>2. EndOf(a) < x + HDR + size /\ EndOf(a) < HeapEnd
      BY <2>1, <2>2, <2>3, <3>1, HeapAssumption DEF HDR
    <3>3. PICK b : b = blocks[a].next
      OBVIOUS
    <3>4. b \in DOMAIN blocks /\ b = EndOf(a) /\ b # NULL
      BY <3>2, <3>3, ListOrder DEF IInv
    <3>5. b \in DOMAIN held
      BY <3>1, <3>3, <3>4 DEF NextIsFree, IInv, Tiled, UsedIsHeld
    <3>6. EndOf(b) > b
      BY <3>4, ListOrder DEF IInv
    <3>7. b < x + HDR + size /\ x < EndOf(b)
      <4>1. b \in Nat /\ EndOf(b) \in Nat
        BY <3>4, ListOrder DEF IInv
      <4> QED
        BY <2>1, <2>2, <2>3, <3>2, <3>4, <3>6, <4>1
    <3> QED
      BY <2>1, <3>4, <3>5, <3>7 DEF Occupied, HDR, IInv, TypeOK
  <2> QED
    BY <2>4, <2>5
<1> QED
  BY <1>1, Invariance, PTL

\* With nothing held the heap is one free block again.
THEOREM RestoresHeap == Spec => []FullyRestored
<1>1. IInv => FullyRestored
  <2> SUFFICES ASSUME IInv, pc = "idle", held = [a \in {} |-> 0]
               PROVE  blocks = [a \in {0} |-> Block(HeapEnd - HDR, TRUE, NULL)]
    BY DEF FullyRestored
  <2>1. 0 \in DOMAIN blocks /\ \A a \in DOMAIN blocks : blocks[a].free /\ ~ NextIsFree(a)
    BY DEF IInv, Tiled, TilesHeap, UsedIsHeld, Coalesced
  <2>2. blocks[0].next = NULL
    BY <2>1, ListOrder DEF NextIsFree, IInv
  <2>3. EndOf(0) = HeapEnd /\ blocks[0].size \in Nat /\ \A b \in DOMAIN blocks : b <= 0 /\ b \in Nat
    BY <2>1, <2>2, ListOrder DEF IInv
  <2>4. DOMAIN blocks = {0} /\ blocks[0].size = HeapEnd - HDR
    BY <2>1, <2>3, HeapAssumption DEF EndOf, HDR
  <2>5. blocks[0] = Block(HeapEnd - HDR, TRUE, NULL)
    BY <2>1, <2>2, <2>4 DEF IInv, TypeOK, Block
  <2> QED
    BY <2>4, <2>5 DEF IInv, TypeOK
<1> QED
  BY <1>1, Invariance, PTL

\* The pointers handed out are the held blocks' addresses, moved by a header.
LEMMA PayloadOf ==
  ASSUME IInv, NEW p PROVE
    p \in DOMAIN Payloads <=> \E a \in DOMAIN held : p = a + HDR
BY DEF Payloads

\* kmalloc's success is an allocation of HeapSpec.
LEMMA AllocRefines ==
  ASSUME IInv, Walking, Fits, held' = Hold(curr, asked)
  PROVE  \E p \in 0 .. HeapEnd, n \in Sizes : Abstract!SpecAlloc(p, n)
<1> PICK c : c = curr
  OBVIOUS
<1> PICK p : p = c + HDR
  OBVIOUS
<1> PICK n : n = asked
  OBVIOUS
<1>1. /\ c \in DOMAIN blocks /\ c \notin DOMAIN held /\ n \in Sizes /\ n \in Nat
      /\ n <= blocks[c].size /\ c % 8 = 0
  <2>1. c \in DOMAIN blocks /\ blocks[c].free /\ blocks[c].size >= size
    BY DEF IInv, TypeOK, Walking, Fits
  <2>2. n \in Sizes /\ n \in Nat /\ size = ALIGN(n)
    BY HeapAssumption DEF IInv, Walking, WalkInvariant
  <2>3. size \in Nat /\ n <= size /\ blocks[c].size \in Nat
    BY <2>1, <2>2, AlignRoundsUp DEF IInv, TypeOK
  <2>4. c \notin DOMAIN held /\ c % 8 = 0
    BY <2>1 DEF IInv, Tiled, UsedIsHeld, Aligned
  <2> QED
    BY <2>1, <2>2, <2>3, <2>4
<1>2. /\ c \in Nat /\ blocks[c].size \in Nat /\ EndOf(c) = c + HDR + blocks[c].size
      /\ EndOf(c) <= HeapEnd
  BY <1>1, ListOrder DEF IInv, EndOf
<1>3. p \in 0 .. HeapEnd /\ p % 8 = 0 /\ p + n <= HeapEnd
  BY <1>1, <1>2, HeapAssumption DEF HDR
<1>4. \A a \in DOMAIN held : a \in Nat /\ a \in DOMAIN blocks /\ a # c /\ held[a] \in Nat
                             /\ blocks[a].size \in Nat /\ held[a] <= blocks[a].size
                             /\ EndOf(a) = a + HDR + blocks[a].size
  BY <1>1, ListOrder DEF IInv, TypeOK, Tiled, UsedIsHeld, EndOf
<1>5. p \notin DOMAIN Payloads
  BY <1>1, <1>2, <1>4, PayloadOf DEF HDR
<1>6. \A q \in DOMAIN Payloads : Abstract!Disjoint(p, n, q, Payloads[q])
  <2> SUFFICES ASSUME NEW q \in DOMAIN Payloads
               PROVE  p + n <= q \/ q + Payloads[q] <= p
    BY DEF Abstract!Disjoint
  <2>1. PICK a \in DOMAIN held : q = a + HDR
    BY PayloadOf
  <2>2. Payloads[q] = held[a]
    BY <1>4, <2>1 DEF Payloads, HDR
  <2>3. EndOf(c) <= a \/ EndOf(a) <= c
    BY <1>1, <1>2, <1>4 DEF IInv, Tiled, TilesHeap
  <2> QED
    BY <1>1, <1>2, <1>4, <2>1, <2>2, <2>3 DEF HDR
<1>7. Payloads' = [q \in DOMAIN Payloads \cup {p} |-> IF q = p THEN n ELSE Payloads[q]]
  <2>1. held' = [a \in DOMAIN held \cup {c} |-> IF a = c THEN n ELSE held[a]]
    BY DEF Hold
  <2>2. DOMAIN held' = DOMAIN held \cup {c}
    BY <2>1
  <2>3. Payloads' = [q \in {a + HDR : a \in DOMAIN held \cup {c}} |-> held'[q - HDR]]
    BY <2>2 DEF Payloads
  <2>4. {a + HDR : a \in DOMAIN held \cup {c}} = DOMAIN Payloads \cup {p}
    BY PayloadOf
  <2>5. \A q \in DOMAIN Payloads \cup {p} :
          held'[q - HDR] = IF q = p THEN n ELSE Payloads[q]
    <3> SUFFICES ASSUME NEW q \in DOMAIN Payloads \cup {p}
                 PROVE  held'[q - HDR] = IF q = p THEN n ELSE Payloads[q]
      OBVIOUS
    <3>1. CASE q = p
      BY <1>2, <2>1, <3>1 DEF HDR
    <3>2. CASE q # p
      <4>1. PICK a \in DOMAIN held : q = a + HDR
        BY <3>2, PayloadOf
      <4>2. q - HDR = a /\ a # c
        BY <1>4, <4>1 DEF HDR
      <4> QED
        BY <2>1, <3>2, <4>2 DEF Payloads
    <3> QED
      BY <3>1, <3>2
  <2> QED
    BY <2>3, <2>4, <2>5
<1>8. Abstract!SpecAlloc(p, n)
  BY <1>3, <1>5, <1>6, <1>7 DEF Abstract!SpecAlloc, Abstract!WORD
<1> QED
  BY <1>1, <1>3, <1>8

\* kfree's first step is HeapSpec's kfree.
LEMMA FreeRefines ==
  ASSUME IInv, NEW c \in DOMAIN held, KfreeCall(c)
  PROVE  \E p \in DOMAIN Payloads : Abstract!SpecFree(p)
<1> PICK p : p = c + HDR
  OBVIOUS
<1>1. p \in DOMAIN Payloads
  BY PayloadOf
<1>2. held' = [a \in DOMAIN held \ {c} |-> held[a]] /\ DOMAIN held' = DOMAIN held \ {c}
  BY DEF KfreeCall, Forget
<1>3. \A a \in DOMAIN held : a \in Nat
  BY DEF IInv, TypeOK
<1>4. Payloads' = [q \in {a + HDR : a \in DOMAIN held \ {c}} |-> held'[q - HDR]]
  BY <1>2 DEF Payloads
<1>5. {a + HDR : a \in DOMAIN held \ {c}} = DOMAIN Payloads \ {p}
  BY <1>3, PayloadOf DEF HDR
<1>6. \A q \in DOMAIN Payloads \ {p} : held'[q - HDR] = Payloads[q]
  <2> SUFFICES ASSUME NEW q \in DOMAIN Payloads \ {p} PROVE held'[q - HDR] = Payloads[q]
    OBVIOUS
  <2>1. PICK a \in DOMAIN held : q = a + HDR
    BY PayloadOf
  <2>2. q - HDR = a /\ a # c
    BY <1>3, <2>1 DEF HDR
  <2> QED
    BY <1>2, <2>2 DEF Payloads
<1>7. Abstract!SpecFree(p)
  BY <1>1, <1>4, <1>5, <1>6 DEF Abstract!SpecFree
<1> QED
  BY <1>1, <1>7

\* Every step of the loops is a step of HeapSpec, or changes nothing there.
THEOREM StepRefines == IInv /\ [Next]_vars => [Abstract!SpecNext]_Payloads
<1> SUFFICES ASSUME IInv, [Next]_vars PROVE Abstract!SpecNext \/ UNCHANGED Payloads
  OBVIOUS
<1>1. ASSUME WalkSplit \/ WalkTake PROVE Abstract!SpecNext
  <2>1. Walking /\ Fits /\ held' = Hold(curr, asked)
    BY <1>1 DEF WalkSplit, WalkTake
  <2>2. \E p \in 0 .. HeapEnd, n \in Sizes : Abstract!SpecAlloc(p, n)
    BY <2>1, AllocRefines
  <2> QED
    BY <2>2 DEF Abstract!SpecNext
<1>2. ASSUME NEW c \in DOMAIN held, KfreeCall(c) PROVE Abstract!SpecNext
  BY <1>2, FreeRefines DEF Abstract!SpecNext
<1>3. ASSUME UNCHANGED held PROVE UNCHANGED Payloads
  BY <1>3 DEF Payloads
<1> QED
  BY <1>1, <1>2, <1>3 DEF Next, Kmalloc, Kfree, vars, KmallocCall, WalkNext, ReturnNull,
     MergeAbsorb, MergeNext, KfreeReturn

\* kmalloc and kfree hand out disjoint, aligned memory inside the heap.
THEOREM Refinement == Spec => ImplementsHeapSpec
<1>1. Init => Abstract!SpecInit
  BY DEF Init, Abstract!SpecInit, Payloads
<1> QED
  BY <1>1, StepRefines, Invariance, PTL DEF Spec, ImplementsHeapSpec, Abstract!HeapSpecification
=============================================================================
