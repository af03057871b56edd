----------------------------- MODULE TaskProofs -----------------------------
(***************************************************************************)
(* Task's safety properties for every number of slots, stack size and set  *)
(* of pages.                                                               *)
(*                                                                         *)
(* The inductive invariant has three independent parts above the types:    *)
(* who owns which stack (Slotwise, Creating, StackOwnership), how long a   *)
(* task has waited against how far the round robin still is from it        *)
(* (Waiting), and what a sleeper's timer says (Sleeping).                  *)
(***************************************************************************)
EXTENDS Task, TLAPS, WellFoundedInduction

\* The kernel's slot is never freed; the current one never looks unused; a
\* slot without a task has no stack, and a task that can run has one, unless
\* task_create is about to give it one.
Slotwise ==
  /\ state[KERNEL] \notin {"UNUSED", "ZOMBIE"} /\ stack_base[KERNEL] = NULL
  /\ state[current_task] # "UNUSED"
  /\ \A s \in Slots \ {KERNEL} :
       /\ state[s] = "UNUSED" => stack_base[s] = NULL
       /\ state[s] \in {"READY", "RUNNING", "SLEEPING"} /\ ~ (pc[KERNEL] = "fill" /\ s = slot)
            => stack_base[s] # NULL

\* The slot in the hands of task_create: unused, and then not filled in yet.
Creating ==
  /\ pc[KERNEL] \in {"alloc", "publish"} => state[slot] = "UNUSED"
  /\ pc[KERNEL] = "fill" => /\ slot # KERNEL /\ stack_base[slot] = NULL
                            /\ state[slot] # "UNUSED" /\ sp[slot] = "none"
                            /\ (current_task = slot => panicked)
  /\ pc[KERNEL] = "kill" => slot # KERNEL
  /\ Unowned => stack # NULL

\* A runnable task is reached within N - waited steps of the round robin.
Waiting ==
  /\ waited[current_task] = 0
  /\ \A s \in Slots :
       /\ waited[s] < N
       /\ Runnable(state, s) => waited[s] + Distance(current_task, s) <= N
       /\ state[s] = "SLEEPING" /\ sleep_left[s] > 0 => waited[s] = 0

\* Whoever is ready or running has slept enough.
Sleeping ==
  \A s \in Slots \ {KERNEL} :
    state[s] \in {"READY", "RUNNING"} => sleep_left[s] = 0

IInv ==
  /\ TypeOK
  /\ StackOwnership
  /\ Slotwise
  /\ Creating
  /\ Waiting
  /\ SleepHonoured
  /\ Sleeping

-----------------------------------------------------------------------------
\* The round robin's distances: 1 to N, and different for different slots.
LEMMA DistanceRange ==
  ASSUME NEW a \in Slots, NEW b \in Slots
  PROVE  Distance(a, b) \in 1 .. N
BY TaskAssumption DEF Slots, Distance

\* Moving on from a to b brings every slot after b closer by the move.
LEMMA DistanceAfter ==
  ASSUME NEW a \in Slots, NEW b \in Slots, NEW c \in Slots, b # c,
         Distance(a, b) <= Distance(a, c)
  PROVE  Distance(b, c) = Distance(a, c) - Distance(a, b)
         /\ Distance(b, c) + 1 <= Distance(a, c)
BY TaskAssumption DEF Slots, Distance

\* find_next_task finds a runnable slot, the nearest, if there is one.
LEMMA NextTaskFinds ==
  ASSUME current_task \in Slots, NEW st
  PROVE  /\ NextTask(st) \in Slots
         /\ (\E s \in Slots : Runnable(st, s)) =>
              /\ Runnable(st, NextTask(st))
              /\ \A t \in Slots : Runnable(st, t) =>
                   Distance(current_task, NextTask(st)) <= Distance(current_task, t)
         /\ ~ (\E s \in Slots : Runnable(st, s)) => NextTask(st) = KERNEL
<1>1. CASE \E s \in Slots : Runnable(st, s)
  <2> DEFINE T == {Distance(current_task, s) : s \in {r \in Slots : Runnable(st, r)}}
  <2>1. T \subseteq Nat /\ T # {}
    BY <1>1, DistanceRange
  <2>2. PICK m \in T : \A y \in T : ~ (<<y, m>> \in OpToRel(<, Nat))
    <3> HIDE DEF T
    <3> QED
      BY <2>1, NatLessThanWellFounded, WFMin
  <2>3. \A y \in T : m <= y
    <3> SUFFICES ASSUME NEW y \in T, ~ (m <= y) PROVE FALSE
      OBVIOUS
    <3>1. y \in Nat /\ m \in Nat /\ y < m
      BY <2>1
    <3> QED
      BY <2>2, <3>1 DEF OpToRel
  <2>4. PICK n \in Slots : Runnable(st, n) /\ m = Distance(current_task, n)
    OBVIOUS
  <2>5. Runnable(st, n) /\ \A t \in Slots : Runnable(st, t) =>
          Distance(current_task, n) <= Distance(current_task, t)
    BY <2>3, <2>4
  <2> HIDE DEF T
  <2> QED
    BY <1>1, <2>5 DEF NextTask
<1>2. CASE ~ \E s \in Slots : Runnable(st, s)
  BY <1>2, TaskAssumption DEF NextTask, KERNEL, Slots
<1> QED
  BY <1>1, <1>2

LEMMA KernelIsASlot == KERNEL \in Slots /\ N \in Nat /\ N > 1
BY TaskAssumption DEF KERNEL, Slots

\* Different stacks are different runs, and a free run is nobody's stack.
LEMMA StackRuns ==
  /\ \A f, g : StackRun(f) = StackRun(g) => f = g
  /\ \A f \in Nat : f \in Pages!PagesOf(StackRun(f))
<1>1. \A f, g : StackRun(f) = StackRun(g) => f = g
  <2> SUFFICES ASSUME NEW f, NEW g, StackRun(f) = StackRun(g) PROVE f = g
    OBVIOUS
  <2>1. StackRun(f).first = f /\ StackRun(g).first = g
    BY DEF StackRun, Pages!Run
  <2> QED
    BY <2>1
<1>2. \A f \in Nat : f \in Pages!PagesOf(StackRun(f))
  BY TaskAssumption DEF StackRun, Pages!Run, Pages!PagesOf
<1> QED
  BY <1>1, <1>2

\* task_init's state.
THEOREM InitEstablishes == Init => IInv
<1> SUFFICES ASSUME Init PROVE IInv
  OBVIOUS
<1> USE KernelIsASlot, TaskAssumption
<1>1. TypeOK
  BY DEF Init, TypeOK, KERNEL, Pages!SpecInit
<1>2. StackOwnership
  BY DEF Init, StackOwnership, Pages!SpecInit, Unowned
<1>3. Slotwise /\ Creating
  BY DEF Init, Slotwise, Creating, Unowned
<1>4. Waiting
  <2>1. \A s \in Slots : Distance(current_task, s) \in 1 .. N
    BY DistanceRange DEF Init
  <2> QED
    BY <2>1 DEF Init, Waiting
<1>5. SleepHonoured /\ Sleeping
  BY DEF Init, SleepHonoured, Sleeping
<1> QED
  BY <1>1, <1>2, <1>3, <1>4, <1>5 DEF IInv

-----------------------------------------------------------------------------
\* Saving the interrupted task: only a running one becomes ready.
LEMMA PreemptedStates ==
  ASSUME TypeOK
  PROVE  /\ Preempted \in [Slots -> {"UNUSED", "READY", "RUNNING", "SLEEPING", "ZOMBIE"}]
         /\ \A s \in Slots : s # current_task => Preempted[s] = state[s]
         /\ Preempted[current_task] = IF state[current_task] = "RUNNING" THEN "READY"
                                      ELSE state[current_task]
BY DEF TypeOK, Preempted

\* Who a pass can choose: a task that can run and has slept enough, or the
\* kernel; never a dead one.
LEMMA Chosen ==
  ASSUME IInv, NEW n, n = NextTask(Preempted)
  PROVE  /\ n \in Slots
         /\ n = KERNEL \/ Runnable(Preempted, n)
         /\ n \notin Reaped(Preempted) /\ Preempted[n] \notin {"UNUSED", "ZOMBIE"}
         /\ n # KERNEL => sleep_left[n] = 0 /\ state[n] \in {"READY", "RUNNING", "SLEEPING"}
<1>1. n \in Slots /\ (n = KERNEL \/ Runnable(Preempted, n))
  BY NextTaskFinds DEF IInv, TypeOK
<1>2. CASE n = KERNEL
  BY <1>1, <1>2, PreemptedStates, KernelIsASlot DEF IInv, Slotwise, Reaped
<1>3. CASE n # KERNEL
  <2>1. Runnable(Preempted, n) /\ n \in Slots \ {KERNEL}
    BY <1>1, <1>3
  <2>2. Preempted[n] \in {"READY", "SLEEPING"}
    BY <2>1 DEF Runnable
  <2>3. state[n] \in {"READY", "RUNNING", "SLEEPING"}
    BY <1>1, <2>2, PreemptedStates DEF IInv
  <2>4. sleep_left[n] = 0
    <3>1. CASE Preempted[n] = "SLEEPING"
      BY <2>1, <3>1 DEF Runnable
    <3>2. CASE Preempted[n] = "READY"
      <4>1. state[n] \in {"READY", "RUNNING"}
        BY <1>1, <3>2, PreemptedStates DEF IInv
      <4> QED
        BY <2>1, <4>1 DEF IInv, Sleeping
    <3> QED
      BY <2>2, <3>1, <3>2
  <2> QED
    BY <1>1, <1>3, <2>1, <2>2, <2>3, <2>4 DEF Reaped
<1> QED
  BY <1>2, <1>3

\* The table after a pass, slot by slot.
LEMMA AfterPass ==
  ASSUME IInv, Schedule, NEW n, n = NextTask(Preempted), NEW dead, dead = Reaped(Preempted)
  PROVE  /\ current_task' = n
         /\ stack_base' = [s \in Slots |-> IF s \in dead THEN NULL ELSE stack_base[s]]
         /\ state' \in [Slots -> {"UNUSED", "READY", "RUNNING", "SLEEPING", "ZOMBIE"}]
         /\ state'[n] = "RUNNING"
         /\ \A s \in Slots : s \in dead => s # n /\ state'[s] = "UNUSED"
         /\ \A s \in Slots : s # n /\ s \notin dead => state'[s] = Preempted[s]
         /\ sp' = [sp EXCEPT ![current_task] = "frame"]
         /\ waited' \in [Slots -> Nat]
         /\ waited'[n] = 0
         /\ \A s \in Slots : s # n => waited'[s] = IF Runnable(Preempted, s) THEN waited[s] + 1
                                                   ELSE waited[s]
         /\ held' = held \ {StackRun(stack_base[s]) : s \in dead}
         /\ torn' = torn \ dead
         /\ panicked' \in BOOLEAN
         /\ sp'[n] = "none" => panicked'
<1>1. n \in Slots /\ n \notin dead
  BY Chosen
<1>2. state' = [s \in Slots |-> CASE s = n -> "RUNNING"
                                  [] s \in dead /\ s # n -> "UNUSED"
                                  [] OTHER -> Preempted[s]]
  BY DEF Schedule
<1>3. waited' = [s \in Slots |-> CASE s = n -> 0
                                   [] Runnable(Preempted, s) /\ s # n -> waited[s] + 1
                                   [] OTHER -> waited[s]]
  BY DEF Schedule
<1>4. /\ state'[n] = "RUNNING"
      /\ \A s \in Slots : s \in dead => s # n /\ state'[s] = "UNUSED"
      /\ \A s \in Slots : s # n /\ s \notin dead => state'[s] = Preempted[s]
  BY <1>1, <1>2
<1>5. \A s \in Slots : state'[s] \in {"UNUSED", "READY", "RUNNING", "SLEEPING", "ZOMBIE"}
  BY <1>1, <1>4, PreemptedStates DEF IInv
<1>6. state' \in [Slots -> {"UNUSED", "READY", "RUNNING", "SLEEPING", "ZOMBIE"}]
  <2> DEFINE value(s) == CASE s = n -> "RUNNING"
                           [] s \in dead /\ s # n -> "UNUSED"
                           [] OTHER -> Preempted[s]
  <2>1. state' = [s \in Slots |-> value(s)]
    BY <1>2
  <2> HIDE DEF value
  <2> QED
    BY <1>5, <2>1
<1>7. /\ waited'[n] = 0
      /\ \A s \in Slots : s # n => waited'[s] = IF Runnable(Preempted, s) THEN waited[s] + 1
                                                ELSE waited[s]
  BY <1>1, <1>3
<1>8. waited' \in [Slots -> Nat]
  <2> DEFINE value(s) == CASE s = n -> 0
                           [] Runnable(Preempted, s) /\ s # n -> waited[s] + 1
                           [] OTHER -> waited[s]
  <2>1. waited' = [s \in Slots |-> value(s)]
    BY <1>3
  <2>2. \A s \in Slots : waited[s] \in Nat
    BY DEF IInv, TypeOK
  <2>3. \A s \in Slots : waited'[s] \in Nat
    BY <1>7, <2>2
  <2> HIDE DEF value
  <2> QED
    BY <2>1, <2>3
<1>9. /\ held' = held \ {StackRun(stack_base[s]) : s \in dead}
      /\ stack_base' = [s \in Slots |-> IF s \in dead THEN NULL ELSE stack_base[s]]
      /\ current_task' = n
      /\ sp' = [sp EXCEPT ![current_task] = "frame"]
      /\ torn' = torn \ dead
  BY DEF Schedule, Pages!SpecFree
<1>10. panicked' \in BOOLEAN /\ (sp'[n] = "none" => panicked')
  <2>1. Resume(sp', n)
    BY <1>9 DEF Schedule
  <2> QED
    BY <2>1 DEF Resume, IInv, TypeOK
<1> QED
  BY <1>4, <1>6, <1>7, <1>8, <1>9, <1>10

\* What a pass does to where the tasks are: nothing, or a svc returns.
PassMoves ==
  \/ pc' = pc
  \/ /\ pc[current_task] \in {"run", "svc"}
     /\ pc' = [pc EXCEPT ![current_task] = "run"]

\* A pass of the scheduler keeps IInv, whatever it interrupts.
LEMMA PassPreserves ==
  ASSUME IInv, ~ panicked, Schedule, PassMoves, UNCHANGED <<sleep_left, slot, stack>>
  PROVE  IInv'
<1> PICK n : n = NextTask(Preempted)
  OBVIOUS
<1> PICK dead : dead = Reaped(Preempted)
  OBVIOUS
<1> PICK c : c = current_task
  OBVIOUS
<1>1. TypeOK /\ c \in Slots /\ n \in Slots /\ KERNEL \in Slots /\ slot \in Slots
      /\ N \in Nat /\ N > 1
  BY Chosen, KernelIsASlot DEF IInv, TypeOK
<1>2. /\ n = KERNEL \/ Runnable(Preempted, n)
      /\ n \notin dead /\ Preempted[n] \notin {"UNUSED", "ZOMBIE"}
      /\ n # KERNEL => sleep_left[n] = 0 /\ state[n] \in {"READY", "RUNNING", "SLEEPING"}
  BY Chosen
<1>3. /\ current_task' = n
      /\ stack_base' = [s \in Slots |-> IF s \in dead THEN NULL ELSE stack_base[s]]
      /\ state' \in [Slots -> {"UNUSED", "READY", "RUNNING", "SLEEPING", "ZOMBIE"}]
      /\ state'[n] = "RUNNING"
      /\ \A s \in Slots : s \in dead => s # n /\ state'[s] = "UNUSED"
      /\ \A s \in Slots : s # n /\ s \notin dead => state'[s] = Preempted[s]
  BY AfterPass
<1>4. /\ sp' = [sp EXCEPT ![c] = "frame"]
      /\ held' = held \ {StackRun(stack_base[s]) : s \in dead}
      /\ torn' = torn \ dead
      /\ panicked' \in BOOLEAN
      /\ sp'[n] = "none" => panicked'
  BY AfterPass
<1>5. /\ waited' \in [Slots -> Nat]
      /\ waited'[n] = 0
      /\ \A s \in Slots : s # n => waited'[s] = IF Runnable(Preempted, s) THEN waited[s] + 1
                                                ELSE waited[s]
  BY AfterPass
<1>6. \A s \in Slots : Preempted[s] = IF s = c /\ state[s] = "RUNNING" THEN "READY" ELSE state[s]
  BY <1>1, PreemptedStates
<1>7. /\ \A s \in dead : s \in Slots /\ stack_base[s] # NULL /\ state[s] = "ZOMBIE"
      /\ \A s \in Slots : state[s] = "ZOMBIE" /\ stack_base[s] # NULL => s \in dead
  BY <1>6 DEF Reaped
<1>8. /\ pc' \in [Slots -> {"run", "svc", "scan", "alloc", "publish", "fill", "kill"}]
      /\ pc'[KERNEL] # pc[KERNEL] => pc[KERNEL] \in {"run", "svc"} /\ pc'[KERNEL] = "run"
      /\ Unowned' <=> Unowned
  BY <1>1 DEF PassMoves, TypeOK, Unowned
<1>9. slot' = slot /\ stack' = stack /\ sleep_left' = sleep_left
  OBVIOUS
<1>10. TypeOK'
  <2>1. stack_base' \in [Slots -> UserPages \cup {NULL}] /\ sp' \in [Slots -> {"none", "top", "frame"}]
    BY <1>1, <1>3, <1>4 DEF TypeOK
  <2> QED
    BY <1>1, <1>3, <1>4, <1>5, <1>8, <1>9, <2>1 DEF TypeOK
<1>11. Slotwise'
  <2>1. KERNEL \notin dead
    BY <1>7 DEF IInv, Slotwise
  <2>2. state'[KERNEL] \notin {"UNUSED", "ZOMBIE"} /\ stack_base'[KERNEL] = NULL
    BY <1>1, <1>3, <1>6, <2>1 DEF IInv, Slotwise
  <2>3. ASSUME NEW s \in Slots \ {KERNEL} PROVE
          /\ state'[s] = "UNUSED" => stack_base'[s] = NULL
          /\ state'[s] \in {"READY", "RUNNING", "SLEEPING"} /\ ~ (pc'[KERNEL] = "fill" /\ s = slot')
               => stack_base'[s] # NULL
    <3>1. CASE s = n
      <4>1. state[s] \in {"READY", "RUNNING", "SLEEPING"} /\ s \notin dead
        BY <1>2, <2>3, <3>1
      <4>2. state'[s] = "RUNNING" /\ stack_base'[s] = stack_base[s]
        BY <1>3, <3>1, <4>1
      <4> QED
        BY <1>8, <1>9, <4>1, <4>2 DEF IInv, Slotwise
    <3>2. CASE s # n /\ s \in dead
      BY <1>3, <3>2
    <3>3. CASE s # n /\ s \notin dead
      <4>1. state'[s] = Preempted[s] /\ stack_base'[s] = stack_base[s]
        BY <1>3, <3>3
      <4>2. /\ state'[s] = "UNUSED" => state[s] = "UNUSED"
            /\ state'[s] \in {"READY", "RUNNING", "SLEEPING"} =>
                 state[s] \in {"READY", "RUNNING", "SLEEPING"}
        BY <1>6, <4>1
      <4> QED
        BY <1>8, <1>9, <4>1, <4>2 DEF IInv, Slotwise
    <3> QED
      BY <3>1, <3>2, <3>3
  <2>4. state'[current_task'] # "UNUSED"
    BY <1>3
  <2> QED
    BY <2>2, <2>3, <2>4 DEF Slotwise
<1>12. Creating'
  <2>1. ASSUME pc'[KERNEL] \in {"alloc", "publish"} PROVE state'[slot] = "UNUSED"
    <3>1. state[slot] = "UNUSED" /\ slot # c
      BY <1>8, <2>1 DEF IInv, Creating, Slotwise
    <3>2. Preempted[slot] = "UNUSED" /\ slot \notin dead
      BY <1>1, <1>6, <1>7, <3>1
    <3> QED
      BY <1>1, <1>2, <1>3, <3>2
  <2>2. ASSUME pc'[KERNEL] = "fill" PROVE
          /\ slot # KERNEL /\ stack_base'[slot] = NULL /\ state'[slot] # "UNUSED"
          /\ sp'[slot] = "none" /\ (n = slot => panicked')
    <3>1. /\ slot # KERNEL /\ stack_base[slot] = NULL /\ state[slot] # "UNUSED"
          /\ sp[slot] = "none" /\ slot # c
      BY <1>8, <2>2 DEF IInv, Creating
    <3>2. slot \notin dead
      BY <1>7, <3>1
    <3>3. stack_base'[slot] = NULL /\ sp'[slot] = "none"
      BY <1>1, <1>3, <1>4, <3>1, <3>2 DEF TypeOK
    <3>4. state'[slot] # "UNUSED"
      BY <1>1, <1>3, <1>6, <3>1, <3>2
    <3> QED
      BY <1>4, <3>1, <3>3, <3>4
  <2> QED
    BY <1>3, <1>8, <1>9, <2>1, <2>2 DEF IInv, Creating
<1>13. StackOwnership'
  <2>1. held' = {StackRun(stack_base'[s]) : s \in {t \in Slots : stack_base'[t] # NULL}}
                  \cup (IF Unowned THEN {StackRun(stack)} ELSE {})
    <3> DEFINE H == {StackRun(stack_base[s]) : s \in {t \in Slots : stack_base[t] # NULL}}
    <3> DEFINE H2 == {StackRun(stack_base'[s]) : s \in {t \in Slots : stack_base'[t] # NULL}}
    <3> DEFINE D == {StackRun(stack_base[s]) : s \in dead}
    <3> DEFINE U == IF Unowned THEN {StackRun(stack)} ELSE {}
    <3>1. held = H \cup U
      BY DEF IInv, StackOwnership
    <3>2. H \ D = H2
      <4>1. ASSUME NEW x \in H, x \notin D PROVE x \in H2
        <5>1. PICK s \in Slots : stack_base[s] # NULL /\ x = StackRun(stack_base[s])
          BY <4>1
        <5>2. s \notin dead
          BY <4>1, <5>1
        <5> QED
          BY <1>3, <5>1, <5>2
      <4>2. ASSUME NEW x \in H2 PROVE x \in H /\ x \notin D
        <5>1. PICK s \in Slots : stack_base'[s] # NULL /\ x = StackRun(stack_base'[s])
          OBVIOUS
        <5>2. s \notin dead /\ stack_base'[s] = stack_base[s]
          BY <1>3, <5>1
        <5>3. ASSUME NEW t \in dead PROVE x # StackRun(stack_base[t])
          <6>1. t \in Slots /\ t # s /\ stack_base[t] # NULL
            BY <1>7, <5>2, <5>3
          <6>2. stack_base[t] # stack_base[s]
            BY <6>1 DEF IInv, StackOwnership
          <6> QED
            BY <5>1, <5>2, <6>2, StackRuns
        <5> QED
          BY <5>1, <5>2, <5>3
      <4> QED
        BY <4>1, <4>2
    <3>3. U \cap D = {}
      <4> SUFFICES ASSUME Unowned, StackRun(stack) \in D PROVE FALSE
        OBVIOUS
      <4>1. PICK s \in dead : StackRun(stack) = StackRun(stack_base[s])
        OBVIOUS
      <4>2. stack = stack_base[s]
        BY <4>1, StackRuns
      <4> QED
        BY <1>7, <4>2 DEF IInv, StackOwnership
    <3>4. held' = held \ D
      BY <1>4
    <3> HIDE DEF H, H2, D, U
    <3>5. held' = H2 \cup U
      BY <3>1, <3>2, <3>3, <3>4
    <3> QED
      BY <3>5 DEF H2, U
  <2>2. \A s, t \in Slots : s # t /\ stack_base'[s] # NULL => stack_base'[s] # stack_base'[t]
    BY <1>3 DEF IInv, StackOwnership
  <2>3. Unowned => \A s \in Slots : stack_base'[s] # stack
    BY <1>3 DEF IInv, StackOwnership, Creating
  <2>4. ASSUME n # KERNEL, ~ panicked' PROVE stack_base'[n] # NULL
    <3>1. ~ (pc[KERNEL] = "fill" /\ n = slot)
      BY <1>8, <1>12, <1>9, <1>3, <2>4 DEF Creating
    <3>2. stack_base[n] # NULL
      BY <1>1, <1>2, <2>4, <3>1 DEF IInv, Slotwise
    <3> QED
      BY <1>1, <1>2, <1>3, <3>2
  <2> QED
    BY <1>3, <1>8, <1>9, <2>1, <2>2, <2>3, <2>4 DEF StackOwnership
<1>14. Waiting'
  <2>1. ASSUME NEW s \in Slots PROVE
          /\ waited'[s] < N
          /\ Runnable(state, s)' => waited'[s] + Distance(n, s) <= N
          /\ state'[s] = "SLEEPING" /\ sleep_left'[s] > 0 => waited'[s] = 0
    <3>1. waited[s] \in Nat /\ waited[s] < N
      BY <1>1, <2>1 DEF IInv, Waiting, TypeOK
    <3>2. CASE s = n
      BY <1>1, <1>3, <1>5, <3>2 DEF Runnable
    <3>3. CASE s # n /\ Runnable(Preempted, s)
      <4>1. Distance(c, n) <= Distance(c, s)
        BY <1>1, <2>1, <3>3, NextTaskFinds DEF TypeOK
      <4>2. Distance(n, s) + 1 <= Distance(c, s)
        BY <1>1, <2>1, <3>3, <4>1, DistanceAfter
      <4>3. waited[s] + Distance(c, s) <= N
        <5>1. CASE Runnable(state, s)
          BY <2>1, <5>1 DEF IInv, Waiting
        <5>2. CASE ~ Runnable(state, s)
          <6>1. s = c
            BY <1>6, <3>3, <5>2 DEF Runnable
          <6>2. waited[s] = 0
            BY <6>1 DEF IInv, Waiting
          <6> QED
            BY <1>1, <6>1, <6>2, DistanceRange
        <5> QED
          BY <5>1, <5>2
      <4>4. Distance(n, s) \in 1 .. N /\ Distance(c, s) \in 1 .. N
        BY <1>1, DistanceRange
      <4>5. waited'[s] = waited[s] + 1 /\ ~ (state'[s] = "SLEEPING" /\ sleep_left'[s] > 0)
        <5>1. state'[s] = "SLEEPING" => Preempted[s] = "SLEEPING"
          BY <1>3, <3>3
        <5> QED
          BY <1>1, <1>5, <1>9, <3>3, <5>1 DEF Runnable, TypeOK
      <4> QED
        BY <1>1, <3>1, <4>2, <4>3, <4>4, <4>5
    <3>4. CASE s # n /\ ~ Runnable(Preempted, s)
      <4>1. waited'[s] = waited[s]
        BY <1>5, <3>4
      <4>2. ~ Runnable(state, s)'
        <5>1. state'[s] \in {"READY", "SLEEPING"} => Preempted[s] = state'[s]
          BY <1>3, <3>4
        <5> QED
          BY <1>9, <3>4, <5>1 DEF Runnable
      <4>3. state'[s] = "SLEEPING" => state[s] = "SLEEPING"
        BY <1>3, <1>6, <3>4
      <4> QED
        BY <1>9, <3>1, <4>1, <4>2, <4>3 DEF IInv, Waiting
    <3> QED
      BY <3>2, <3>3, <3>4
  <2> QED
    BY <1>3, <1>5, <2>1 DEF Waiting, Distance
<1>15. SleepHonoured' /\ Sleeping'
  <2>1. SleepHonoured'
    BY <1>2, <1>3, <1>9 DEF SleepHonoured
  <2>2. ASSUME NEW s \in Slots \ {KERNEL}, state'[s] \in {"READY", "RUNNING"}
        PROVE  sleep_left[s] = 0
    <3>1. CASE s = n
      BY <1>2, <2>2, <3>1
    <3>2. CASE s # n
      <4>1. state[s] \in {"READY", "RUNNING"}
        BY <1>3, <1>6, <2>2, <3>2
      <4> QED
        BY <2>2, <4>1 DEF IInv, Sleeping
    <3> QED
      BY <3>1, <3>2
  <2> QED
    BY <1>9, <2>1, <2>2 DEF Sleeping
<1> QED
  BY <1>10, <1>11, <1>12, <1>13, <1>14, <1>15 DEF IInv

-----------------------------------------------------------------------------
\* Passes: the timer interrupt and the svc.
LEMMA PassesPreserve ==
  ASSUME IInv, Tick \/ \E s \in Slots : Svc(s)
  PROVE  IInv'
<1>1. CASE Tick
  <2>1. ~ panicked /\ Schedule /\ PassMoves /\ UNCHANGED <<sleep_left, slot, stack>>
    BY <1>1 DEF Tick, PassMoves, locals
  <2> QED
    BY <2>1, PassPreserves
<1>2. ASSUME NEW s \in Slots, Svc(s) PROVE IInv'
  <2>1. ~ panicked /\ current_task = s /\ pc[s] \in {"run", "svc"}
    BY <1>2 DEF Svc, Runs
  <2>2. Schedule /\ PassMoves /\ UNCHANGED <<sleep_left, slot, stack>>
    BY <1>2, <2>1 DEF Svc, PassMoves, Goto, locals
  <2> QED
    BY <2>1, <2>2, PassPreserves
<1> QED
  BY <1>1, <1>2

\* A task that stores in its neighbour's stack, or goes where no task is.
LEMMA SharingPreserves ==
  ASSUME IInv, Derail \/ \E s, t \in Slots : Overwrite(s, t)
  PROVE  IInv'
<1> USE DEF IInv
<1>1. /\ UNCHANGED <<state, stack_base, sp, sleep_left, current_task, pc, slot, stack, held, waited>>
      /\ ~ panicked /\ panicked' \in BOOLEAN
  BY DEF Derail, Overwrite, locals, TypeOK
<1>2. torn' \subseteq Slots \ {KERNEL}
  BY DEF Derail, Overwrite, Over, TypeOK
<1>3. TypeOK'
  BY <1>1, <1>2 DEF TypeOK
<1>4. StackOwnership' /\ Slotwise' /\ Creating'
  BY <1>1 DEF StackOwnership, Slotwise, Creating, Unowned
<1>5. Waiting' /\ SleepHonoured' /\ Sleeping'
  BY <1>1 DEF Waiting, SleepHonoured, Sleeping, Runnable, Distance
<1> QED
  BY <1>3, <1>4, <1>5

\* The timer's count: a sleeper may become due, and has not waited yet.
LEMMA TimePreserves ==
  ASSUME IInv, TimePasses
  PROVE  IInv'
<1> USE KernelIsASlot DEF IInv
<1>1. \A s \in Slots : sleep_left'[s] = IF sleep_left[s] > 0 THEN sleep_left[s] - 1 ELSE 0
  BY DEF TimePasses
<1>2. UNCHANGED <<state, stack_base, sp, current_task, pc, slot, stack, held, torn, waited, panicked>>
  BY DEF TimePasses, locals
<1>3. TypeOK'
  <2>1. \A s \in Slots : sleep_left'[s] \in Nat
    BY <1>1 DEF TypeOK
  <2> QED
    BY <1>2, <2>1 DEF TypeOK, TimePasses
<1>4. StackOwnership' /\ Slotwise' /\ Creating'
  BY <1>2 DEF StackOwnership, Slotwise, Creating, Unowned
<1>5. Waiting'
  <2>1. ASSUME NEW s \in Slots PROVE
          /\ waited[s] < N
          /\ Runnable(state, s)' => waited[s] + Distance(current_task, s) <= N
          /\ state[s] = "SLEEPING" /\ sleep_left'[s] > 0 => waited[s] = 0
    <3>1. CASE Runnable(state, s)
      BY <1>1, <2>1, <3>1 DEF Waiting, TypeOK, Runnable
    <3>2. CASE state[s] = "SLEEPING" /\ sleep_left[s] > 0
      <4>1. waited[s] = 0 /\ Distance(current_task, s) \in 1 .. N
        BY <3>2, DistanceRange DEF Waiting, TypeOK
      <4> QED
        BY <4>1
    <3>3. CASE state[s] \notin {"READY", "SLEEPING"}
      BY <1>2, <2>1, <3>3 DEF Waiting, Runnable
    <3> QED
      BY <2>1, <3>1, <3>2, <3>3 DEF Runnable, TypeOK
  <2>2. waited[current_task] = 0
    BY DEF Waiting
  <2> QED
    BY <1>2, <2>1, <2>2 DEF Waiting, Distance
<1>6. SleepHonoured' /\ Sleeping'
  BY <1>1, <1>2 DEF SleepHonoured, Sleeping
<1> QED
  BY <1>3, <1>4, <1>5, <1>6

\* What the current task does to its own slot: it dies or goes to sleep.
LEMMA OwnSlotPreserves ==
  ASSUME IInv, NEW s \in Slots,
         TaskExit(s) \/ KillSelf(s) \/ \E ms \in 0 .. MaxSleep : TaskSleep(s, ms)
  PROVE  IInv'
<1> USE KernelIsASlot DEF IInv
<1>1. /\ ~ panicked /\ current_task = s /\ pc[s] = "run"
      /\ UNCHANGED <<stack_base, sp, current_task, slot, stack, held, torn, waited, panicked>>
  BY DEF TaskExit, KillSelf, TaskSleep, Runs, locals
<1>2. PICK x \in {"ZOMBIE", "SLEEPING"} :
        state' = [state EXCEPT ![s] = x] /\ (x = "ZOMBIE" => s # KERNEL)
  BY DEF TaskExit, KillSelf, TaskSleep
<1>3. PICK l \in {"run", "svc"} :
        /\ pc' = [pc EXCEPT ![s] = l]
        /\ s # KERNEL /\ l = "run" => sleep_left' = sleep_left
  <2>1. CASE TaskExit(s)
    BY <2>1 DEF TaskExit, Goto
  <2>2. CASE KillSelf(s)
    BY <1>1, <2>2 DEF KillSelf, TypeOK
  <2>3. CASE \E ms \in 0 .. MaxSleep : TaskSleep(s, ms)
    BY <2>3 DEF TaskSleep, Goto
  <2> QED
    BY <2>1, <2>2, <2>3
<1>4. sleep_left' \in [Slots -> Nat] /\ \A t \in Slots \ {s} : sleep_left'[t] = sleep_left[t]
  BY TaskAssumption DEF TypeOK, TaskExit, KillSelf, TaskSleep
<1>5. TypeOK'
  BY <1>1, <1>2, <1>3, <1>4 DEF TypeOK
<1>6. (Unowned' <=> Unowned) /\ (pc'[KERNEL] \notin {"run", "svc"} => pc'[KERNEL] = pc[KERNEL])
  BY <1>1, <1>3 DEF TypeOK, Unowned
<1>7. StackOwnership'
  BY <1>1, <1>6 DEF StackOwnership
<1>8. Slotwise'
  <2>1. s # KERNEL => stack_base[s] # NULL
    BY <1>1 DEF StackOwnership
  <2>2. state'[s] = x /\ \A t \in Slots \ {s} : state'[t] = state[t]
    BY <1>2 DEF TypeOK
  <2>3. pc'[KERNEL] = "fill" <=> pc[KERNEL] = "fill"
    BY <1>1, <1>3 DEF TypeOK
  <2>4. state'[KERNEL] \notin {"UNUSED", "ZOMBIE"}
    BY <1>2, <2>2 DEF Slotwise
  <2> QED
    BY <1>1, <2>1, <2>2, <2>3, <2>4 DEF Slotwise
<1>9. Creating'
  <2>1. pc'[KERNEL] \in {"alloc", "publish", "fill", "kill"} => pc'[KERNEL] = pc[KERNEL]
    BY <1>6
  <2>2. pc[KERNEL] = "fill" => slot # s
    BY <1>1 DEF Creating
  <2>3. pc[KERNEL] \in {"alloc", "publish"} => slot # s
    BY <1>1 DEF Creating, Slotwise
  <2>4. \A t \in Slots \ {s} : state'[t] = state[t]
    BY <1>2 DEF TypeOK
  <2> QED
    BY <1>1, <1>6, <2>1, <2>2, <2>3, <2>4 DEF Creating, TypeOK
<1>10. Waiting'
  <2>1. waited[s] = 0 /\ \A t \in Slots : Distance(s, t) \in 1 .. N
    BY <1>1, DistanceRange DEF Waiting
  <2>2. state'[s] = x /\ \A t \in Slots \ {s} : state'[t] = state[t]
    BY <1>2 DEF TypeOK
  <2> QED
    BY <1>1, <1>4, <2>1, <2>2 DEF Waiting, Runnable, Distance
<1>11. SleepHonoured'
  <2>1. s # KERNEL /\ pc'[s] = "run" => sleep_left'[s] = 0
    BY <1>1, <1>3 DEF SleepHonoured, TypeOK
  <2> QED
    BY <1>1, <2>1 DEF SleepHonoured
<1>12. Sleeping'
  BY <1>2, <1>4 DEF Sleeping, TypeOK
<1> QED
  BY <1>5, <1>7, <1>8, <1>9, <1>10, <1>11, <1>12

\* task_kill: the slot it marks is not the kernel's, whatever it has become.
LEMMA KillPreserves ==
  ASSUME IInv, KillStore \/ \E s \in Slots : KillFind(s)
  PROVE  IInv'
<1> USE KernelIsASlot DEF IInv
<1>1. CASE KillStore
  <2>1. /\ ~ panicked /\ pc[KERNEL] = "kill" /\ current_task = KERNEL
        /\ state' = [state EXCEPT ![slot] = "ZOMBIE"]
        /\ pc' = [pc EXCEPT ![KERNEL] = "run"] /\ slot' = 0 /\ stack' = NULL
        /\ UNCHANGED <<stack_base, sp, sleep_left, current_task, held, torn, waited, panicked>>
    BY <1>1 DEF KillStore, Runs, Return, Goto
  <2>2. slot \in Slots /\ slot # KERNEL
    BY <2>1 DEF Creating, TypeOK
  <2>3. state'[slot] = "ZOMBIE" /\ \A s \in Slots \ {slot} : state'[s] = state[s]
    BY <2>1 DEF TypeOK
  <2>4. pc'[KERNEL] = "run" /\ \A s \in Slots \ {KERNEL} : pc'[s] = pc[s]
    BY <2>1 DEF TypeOK
  <2>5. TypeOK'
    BY <2>1 DEF TypeOK, KERNEL
  <2>6. ~ Unowned /\ ~ Unowned'
    BY <2>1, <2>4 DEF Unowned
  <2>7. StackOwnership'
    BY <2>1, <2>6 DEF StackOwnership
  <2>8. Slotwise' /\ Creating'
    BY <2>1, <2>2, <2>3, <2>4, <2>6 DEF Slotwise, Creating
  <2>9. Waiting'
    BY <2>1, <2>3 DEF Waiting, Runnable, Distance
  <2>10. SleepHonoured' /\ Sleeping'
    BY <2>1, <2>3, <2>4 DEF SleepHonoured, Sleeping
  <2> QED
    BY <2>5, <2>7, <2>8, <2>9, <2>10
<1>2. ASSUME NEW s \in Slots, KillFind(s) PROVE IInv'
  <2>1. /\ s # KERNEL /\ pc[KERNEL] = "run" /\ slot' = s
        /\ pc' = [pc EXCEPT ![KERNEL] = "kill"]
        /\ UNCHANGED <<state, stack_base, sp, sleep_left, current_task, stack, held, torn, waited,
                       panicked>>
    BY <1>2 DEF KillFind, Runs, Goto
  <2>2. pc'[KERNEL] = "kill" /\ \A t \in Slots \ {KERNEL} : pc'[t] = pc[t]
    BY <2>1 DEF TypeOK
  <2>3. TypeOK'
    BY <2>1 DEF TypeOK
  <2>4. ~ Unowned /\ ~ Unowned'
    BY <2>1, <2>2 DEF Unowned
  <2>5. StackOwnership' /\ Slotwise' /\ Creating'
    BY <2>1, <2>2, <2>4 DEF StackOwnership, Slotwise, Creating
  <2>6. Waiting' /\ SleepHonoured' /\ Sleeping'
    BY <2>1, <2>2 DEF Waiting, SleepHonoured, Sleeping, Runnable, Distance
  <2> QED
    BY <2>3, <2>5, <2>6
<1> QED
  BY <1>1, <1>2

-----------------------------------------------------------------------------
\* The steps of task_create that only move along, or return.
LEMMA CreateMovesPreserve ==
  ASSUME IInv, CreateCall \/ CreateScan \/ CreateNoStack
  PROVE  IInv'
<1> USE KernelIsASlot DEF IInv
<1>1. /\ UNCHANGED <<state, stack_base, sp, sleep_left, current_task, held, torn, waited, panicked>>
      /\ pc[KERNEL] \in {"run", "scan", "alloc"}
      /\ stack' \in {stack, NULL}
  BY DEF CreateCall, CreateScan, CreateNoStack, Runs, Return, locals
<1>2. PICK l \in {"run", "scan", "alloc"} :
        /\ pc' = [pc EXCEPT ![KERNEL] = l]
        /\ l = "alloc" => slot' = slot /\ state[slot] = "UNUSED"
  <2>1. CASE CreateCall
    BY <2>1 DEF CreateCall, Goto
  <2>2. CASE CreateScan
    <3>1. CASE state[slot] = "UNUSED"
      BY <2>2, <3>1 DEF CreateScan, Goto, locals
    <3>2. CASE state[slot] # "UNUSED" /\ slot < N - 1
      <4>1. pc' = pc /\ pc[KERNEL] = "scan"
        BY <2>2, <3>2 DEF CreateScan, Runs
      <4>2. pc' = [pc EXCEPT ![KERNEL] = "scan"]
        BY <4>1 DEF TypeOK
      <4> QED
        BY <4>2
    <3>3. CASE state[slot] # "UNUSED" /\ ~ (slot < N - 1)
      BY <2>2, <3>3 DEF CreateScan, Return, Goto
    <3> QED
      BY <3>1, <3>2, <3>3
  <2>3. CASE CreateNoStack
    BY <2>3 DEF CreateNoStack, Return, Goto
  <2> QED
    BY <2>1, <2>2, <2>3
<1>3. pc'[KERNEL] = l /\ \A s \in Slots \ {KERNEL} : pc'[s] = pc[s]
  BY <1>2 DEF TypeOK
<1>4. slot' \in Slots
  <2>1. CASE CreateScan
    BY <2>1 DEF CreateScan, Return, TypeOK, Slots, locals
  <2>2. CASE CreateCall \/ CreateNoStack
    BY <2>2 DEF CreateCall, CreateNoStack, Return, KERNEL
  <2> QED
    BY <2>1, <2>2
<1>5. TypeOK'
  BY <1>1, <1>2, <1>4 DEF TypeOK
<1>6. ~ Unowned /\ ~ Unowned'
  BY <1>1, <1>3 DEF Unowned
<1>7. StackOwnership' /\ Slotwise' /\ Creating'
  BY <1>1, <1>2, <1>3, <1>6 DEF StackOwnership, Slotwise, Creating
<1>8. Waiting' /\ Sleeping'
  BY <1>1 DEF Waiting, Sleeping, Runnable, Distance
<1>9. SleepHonoured'
  BY <1>1, <1>3 DEF SleepHonoured
<1> QED
  BY <1>5, <1>7, <1>8, <1>9

\* The new stack is a run that nobody has.
LEMMA CreateAllocPreserves ==
  ASSUME IInv, CreateAlloc
  PROVE  IInv'
<1> USE KernelIsASlot DEF IInv
<1>1. PICK f \in UserPages : Pages!SpecAlloc(f, STACK_PAGES) /\ stack' = f
  BY DEF CreateAlloc
<1>2. /\ pc[KERNEL] = "alloc" /\ pc' = [pc EXCEPT ![KERNEL] = "publish"]
      /\ UNCHANGED <<state, stack_base, sp, sleep_left, current_task, slot, waited, panicked>>
  BY DEF CreateAlloc, Runs, Goto
<1>3. held' = held \cup {StackRun(f)} /\ f \notin Pages!HeldPages /\ f \in Nat
  <2>1. f \in Nat
    BY TaskAssumption
  <2>2. f \in Pages!PagesOf(StackRun(f))
    BY <2>1, StackRuns
  <2> QED
    BY <1>1, <2>1, <2>2 DEF Pages!SpecAlloc, StackRun
<1>4. \A s \in Slots : stack_base[s] # f
  <2> SUFFICES ASSUME NEW s \in Slots, stack_base[s] = f PROVE FALSE
    OBVIOUS
  <2>1. stack_base[s] # NULL
    BY <1>3 DEF NULL
  <2>2. StackRun(f) \in held
    BY <2>1 DEF StackOwnership
  <2>3. f \in Pages!HeldPages
    BY <1>3, <2>2, StackRuns DEF Pages!HeldPages
  <2> QED
    BY <1>3, <2>3
<1>5. pc'[KERNEL] = "publish" /\ \A s \in Slots \ {KERNEL} : pc'[s] = pc[s]
  BY <1>2 DEF TypeOK
<1>6. TypeOK'
  <2>1. torn' \subseteq Slots \ {KERNEL}
    BY DEF CreateAlloc, Over, TypeOK
  <2> QED
    BY <1>1, <1>2, <1>3, <2>1 DEF TypeOK
<1>7. ~ Unowned /\ Unowned'
  BY <1>2, <1>5 DEF Unowned
<1>8. StackOwnership'
  <2>1. held = {StackRun(stack_base[s]) : s \in {t \in Slots : stack_base[t] # NULL}}
    BY <1>7 DEF StackOwnership
  <2>2. held' = {StackRun(stack_base[s]) : s \in {t \in Slots : stack_base[t] # NULL}}
                   \cup {StackRun(stack')}
    BY <1>1, <1>3, <2>1
  <2> QED
    BY <1>1, <1>2, <1>4, <1>7, <2>2 DEF StackOwnership
<1>9. f # NULL
  BY <1>3 DEF NULL
<1>10. Slotwise' /\ Creating'
  BY <1>1, <1>2, <1>5, <1>9 DEF Slotwise, Creating
<1>11. Waiting' /\ Sleeping' /\ SleepHonoured'
  BY <1>2, <1>5 DEF Waiting, Sleeping, SleepHonoured, Runnable, Distance
<1> QED
  BY <1>6, <1>8, <1>10, <1>11

\* The slot becomes visible to passes before it has its stack and its sp.
LEMMA CreatePublishPreserves ==
  ASSUME IInv, CreatePublish
  PROVE  IInv'
<1> USE KernelIsASlot DEF IInv
<1>1. /\ ~ panicked /\ current_task = KERNEL /\ pc[KERNEL] = "publish"
      /\ state' = [state EXCEPT ![slot] = "READY"]
      /\ stack_base' = [stack_base EXCEPT ![slot] = NULL]
      /\ sp' = [sp EXCEPT ![slot] = "none"]
      /\ sleep_left' = [sleep_left EXCEPT ![slot] = 0]
      /\ waited' = [waited EXCEPT ![slot] = 0]
      /\ pc' = [pc EXCEPT ![slot] = "run", ![KERNEL] = "fill"]
      /\ UNCHANGED <<current_task, slot, stack, held, torn, panicked>>
  BY DEF CreatePublish, Runs, locals
<1>2. slot \in Slots /\ slot # KERNEL /\ state[slot] = "UNUSED" /\ stack_base[slot] = NULL
  BY <1>1 DEF TypeOK, Creating, Slotwise
<1>3. /\ state'[slot] = "READY" /\ sp'[slot] = "none" /\ sleep_left'[slot] = 0
      /\ waited'[slot] = 0 /\ pc'[slot] = "run" /\ pc'[KERNEL] = "fill"
  BY <1>1, <1>2 DEF TypeOK
<1>4. \A s \in Slots \ {slot} :
        /\ state'[s] = state[s] /\ sp'[s] = sp[s] /\ sleep_left'[s] = sleep_left[s]
        /\ waited'[s] = waited[s]
  BY <1>1 DEF TypeOK
<1>5. \A s \in Slots \ {slot, KERNEL} : pc'[s] = pc[s]
  BY <1>1 DEF TypeOK
<1>6. stack_base' = stack_base
  BY <1>1, <1>2 DEF TypeOK
<1>7. TypeOK'
  BY <1>1 DEF TypeOK
<1>8. Unowned /\ Unowned'
  BY <1>1, <1>3 DEF Unowned
<1>9. StackOwnership'
  BY <1>1, <1>6, <1>8 DEF StackOwnership
<1>10. Slotwise'
  BY <1>1, <1>2, <1>3, <1>4, <1>6 DEF Slotwise
<1>11. Creating'
  BY <1>1, <1>2, <1>3, <1>6, <1>8 DEF Creating
<1>12. Waiting'
  <2>1. Distance(current_task, slot) \in 1 .. N
    BY <1>1, <1>2, DistanceRange
  <2> QED
    BY <1>1, <1>2, <1>3, <1>4, <2>1 DEF Waiting, Runnable, Distance
<1>13. SleepHonoured' /\ Sleeping'
  BY <1>1, <1>2, <1>3, <1>4, <1>5 DEF SleepHonoured, Sleeping
<1> QED
  BY <1>7, <1>9, <1>10, <1>11, <1>12, <1>13

\* The slot gets its stack: task_create no longer holds it.
LEMMA CreateFillPreserves ==
  ASSUME IInv, CreateFill
  PROVE  IInv'
<1> USE KernelIsASlot DEF IInv
<1>1. /\ ~ panicked /\ current_task = KERNEL /\ pc[KERNEL] = "fill"
      /\ stack_base' = [stack_base EXCEPT ![slot] = stack]
      /\ sp' = [sp EXCEPT ![slot] = "top"]
      /\ pc' = [pc EXCEPT ![KERNEL] = "run"] /\ slot' = 0 /\ stack' = NULL
      /\ UNCHANGED <<state, sleep_left, current_task, held, torn, waited, panicked>>
  BY DEF CreateFill, Runs, Return, Goto
<1>2. /\ slot \in Slots /\ slot # KERNEL /\ stack_base[slot] = NULL /\ state[slot] # "UNUSED"
      /\ stack # NULL
  BY <1>1 DEF TypeOK, Creating, Unowned
<1>3. stack_base'[slot] = stack /\ \A s \in Slots \ {slot} : stack_base'[s] = stack_base[s]
  BY <1>1, <1>2 DEF TypeOK
<1>4. pc'[KERNEL] = "run" /\ \A s \in Slots \ {KERNEL} : pc'[s] = pc[s]
  BY <1>1 DEF TypeOK
<1>5. TypeOK'
  BY <1>1 DEF TypeOK, KERNEL
<1>6. Unowned /\ ~ Unowned'
  BY <1>1, <1>4 DEF Unowned
<1>7. StackOwnership'
  <2>1. held = {StackRun(stack_base[s]) : s \in {t \in Slots : stack_base[t] # NULL}}
                 \cup {StackRun(stack)}
    BY <1>6 DEF StackOwnership
  <2>2. {t \in Slots : stack_base'[t] # NULL} = {t \in Slots : stack_base[t] # NULL} \cup {slot}
    BY <1>2, <1>3
  <2>3. {StackRun(stack_base'[s]) : s \in {t \in Slots : stack_base'[t] # NULL}} = held
    BY <1>2, <1>3, <2>1, <2>2
  <2>4. \A s, t \in Slots : s # t /\ stack_base'[s] # NULL => stack_base'[s] # stack_base'[t]
    BY <1>2, <1>3, <1>6 DEF StackOwnership
  <2> QED
    BY <1>1, <1>6, <2>3, <2>4 DEF StackOwnership
<1>8. Slotwise' /\ Creating'
  BY <1>1, <1>2, <1>3, <1>4, <1>6 DEF Slotwise, Creating
<1>9. Waiting' /\ Sleeping'
  BY <1>1 DEF Waiting, Sleeping, Runnable, Distance
<1>10. SleepHonoured'
  BY <1>1, <1>4 DEF SleepHonoured
<1> QED
  BY <1>5, <1>7, <1>8, <1>9, <1>10

\* Every step of task.c, interrupt entries and exits included, keeps the invariant.
THEOREM StepPreserves == IInv /\ [Next]_vars => IInv'
<1> SUFFICES ASSUME IInv, [Next]_vars PROVE IInv'
  OBVIOUS
<1>1. CASE Tick \/ \E s \in Slots : Svc(s)
  BY <1>1, PassesPreserve
<1>2. CASE TimePasses
  BY <1>2, TimePreserves
<1>3. CASE TaskCreate
  BY <1>3, CreateMovesPreserve, CreateAllocPreserves, CreatePublishPreserves,
     CreateFillPreserves DEF TaskCreate
<1>4. CASE KillStore \/ \E s \in Slots : KillFind(s)
  BY <1>4, KillPreserves
<1>5. CASE \E s \in Slots : TaskExit(s) \/ KillSelf(s) \/ \E ms \in 0 .. MaxSleep : TaskSleep(s, ms)
  BY <1>5, OwnSlotPreserves
<1>6. CASE UNCHANGED vars
  BY <1>6 DEF vars, locals, IInv, TypeOK, StackOwnership, Slotwise, Creating, Waiting,
     SleepHonoured, Sleeping, Unowned, Runnable, Distance
<1>7. CASE Derail \/ \E s, t \in Slots : Overwrite(s, t)
  BY <1>7, SharingPreserves
<1> QED
  BY <1>1, <1>2, <1>3, <1>4, <1>5, <1>6, <1>7 DEF Next

\* The inductive invariant holds in every state of the scheduler.
THEOREM Invariance == Spec => []IInv
BY InitEstablishes, StepPreserves, PTL DEF Spec

\* The fields of the task table keep their ranges, for any number of slots.
THEOREM TypeCorrect == Spec => []TypeOK
<1>1. IInv => TypeOK
  BY DEF IInv
<1> QED
  BY <1>1, Invariance, PTL

\* No run leaks, has two owners or is freed twice, and none is freed while its
\* task can be dispatched (task.c:45-66, 111-117).
THEOREM StacksOwned == Spec => []StackOwnership
<1>1. IInv => StackOwnership
  BY DEF IInv
<1> QED
  BY <1>1, Invariance, PTL

\* find_next_task passes a runnable task over at most N - 1 times.
THEOREM RoundRobin == Spec => []BoundedWait
<1>1. IInv => BoundedWait
  BY DEF IInv, Waiting, BoundedWait
<1> QED
  BY <1>1, Invariance, PTL

\* task_sleep_ms returns to no task, the kernel aside, before its time.
THEOREM SleepsLongEnough == Spec => []SleepHonoured
<1>1. IInv => SleepHonoured
  BY DEF IInv
<1> QED
  BY <1>1, Invariance, PTL

\* One step does not bring back the dead.
LEMMA StepKeepsDead ==
  ASSUME IInv, [Next]_vars, NEW s \in Slots,
         state[s] = "ZOMBIE", state'[s] \notin {"ZOMBIE", "UNUSED"}
  PROVE  s = current_task /\ pc[s] = "run" /\ state'[s] = "SLEEPING"
<1>1. CASE Tick \/ \E t \in Slots : Svc(t)
  <2> PICK n : n = NextTask(Preempted)
    OBVIOUS
  <2> PICK dead : dead = Reaped(Preempted)
    OBVIOUS
  <2>1. Schedule
    BY <1>1 DEF Tick, Svc
  <2>2. Preempted[s] = "ZOMBIE"
    BY PreemptedStates DEF IInv
  <2>3. s # n
    BY <2>2, Chosen
  <2>4. state'[s] \in {"UNUSED", "ZOMBIE"}
    BY <2>1, <2>2, <2>3, AfterPass
  <2> QED
    BY <2>4
<1>2. CASE TimePasses \/ Derail \/ UNCHANGED vars
  BY <1>2 DEF TimePasses, Derail, vars
<1>3. CASE TaskCreate
  <2>1. CASE CreatePublish
    <3>1. s # slot
      BY <2>1 DEF IInv, Creating, CreatePublish, Runs
    <3> QED
      BY <2>1, <3>1 DEF CreatePublish, IInv, TypeOK
  <2> QED
    BY <1>3, <2>1 DEF TaskCreate, CreateCall, CreateScan, CreateAlloc, CreateNoStack, CreateFill
<1>4. CASE KillStore \/ \E t \in Slots : KillFind(t)
  BY <1>4 DEF KillStore, KillFind, IInv, TypeOK
<1>5. ASSUME NEW t \in Slots, TaskExit(t) \/ KillSelf(t) PROVE FALSE
  BY <1>5 DEF TaskExit, KillSelf, IInv, TypeOK
<1>6. ASSUME NEW t \in Slots, NEW ms \in 0 .. MaxSleep, TaskSleep(t, ms)
      PROVE  s = current_task /\ pc[s] = "run" /\ state'[s] = "SLEEPING"
  BY <1>6 DEF TaskSleep, Runs, IInv, TypeOK
<1>7. ASSUME NEW t \in Slots, NEW u \in Slots, Overwrite(t, u) PROVE FALSE
  BY <1>7 DEF Overwrite
<1> QED
  BY <1>1, <1>2, <1>3, <1>4, <1>5, <1>6, <1>7 DEF Next

\* A task that was killed or has exited never runs again (task.c:129, 149).
THEOREM DeadStayDead == Spec => KilledStaysDead
<1>1. IInv /\ [Next]_vars =>
        [\A s \in Slots :
           state[s] = "ZOMBIE" /\ state'[s] \notin {"ZOMBIE", "UNUSED"} =>
             s = current_task /\ pc[s] = "run" /\ state'[s] = "SLEEPING"]_vars
  BY StepKeepsDead
<1> QED
  BY <1>1, Invariance, PTL DEF Spec, KilledStaysDead
=============================================================================
