------------------------------- MODULE Strncpy ------------------------------
(***************************************************************************)
(* strncpy of lib/string.c, one iteration of its two loops at a time: the  *)
(* kernel's own, which vfs.c and task.c fill their arrays of characters    *)
(* with.                                                                   *)
(***************************************************************************)
EXTENDS Integers, Sequences

CONSTANTS
  SIZE,       \* the characters the caller's array has: the n it passes
  Strings     \* what is copied

NUL == "NUL"
FREE == "other"      \* what was in memory before

VARIABLES
  src,        \* the string, without its NUL
  dst,        \* memory from the array's start on
  d,          \* the characters stored so far: where d points
  n,
  pc          \* copy, pad, done

vars == <<src, dst, d, n, pc>>

\* What is after the array is the caller's next variable or field.
Memory == 0 .. SIZE

Init ==
  /\ src \in Strings
  /\ dst = [a \in Memory |-> FREE]
  /\ d = 0
  /\ n = SIZE
  /\ pc = "copy"

Store(c) == dst' = [dst EXCEPT ![d] = c] /\ d' = d + 1

\* while (n && (*d++ = *src++)) n--;  The NUL is stored, but not counted.
Copy ==
  /\ pc = "copy" /\ n > 0
  /\ IF d < Len(src)
       THEN Store(src[d + 1]) /\ n' = n - 1 /\ UNCHANGED pc
       ELSE Store(NUL) /\ pc' = "pad" /\ UNCHANGED n
  /\ UNCHANGED src

CopyFull ==
  /\ pc = "copy" /\ n = 0
  /\ pc' = "done"
  /\ UNCHANGED <<src, dst, d, n>>

\* while (n--) *d++ = '\0';
Pad ==
  /\ pc = "pad" /\ n > 0
  /\ Store(NUL) /\ n' = n - 1
  /\ UNCHANGED <<src, pc>>

PadDone ==
  /\ pc = "pad" /\ n = 0
  /\ pc' = "done"
  /\ UNCHANGED <<src, dst, d, n>>

Next == Copy \/ CopyFull \/ Pad \/ PadDone

Spec == Init /\ [][Next]_vars
-----------------------------------------------------------------------------
(***************************************************************************)
(* A copy to an array, with the array's size, keeps what is next to the    *)
(* array: vfs.c:247-248 and vfs.c:338 call it so, as does task.c:55.       *)
(***************************************************************************)
NeighbourKept == dst[SIZE] = FREE
=============================================================================
