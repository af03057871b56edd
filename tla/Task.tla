-------------------------------- MODULE Task --------------------------------
(***************************************************************************)
(* The tasks of kernel/task.c and the two handlers of drivers/irq.c that   *)
(* schedule them: one CPU, a table of N slots, round robin on every timer  *)
(* interrupt and on every svc.                                             *)
(*                                                                         *)
(* One action is what runs with IRQs masked (a handler; the part of        *)
(* task_exit and task_sleep_ms between disable_irq and enable_irq), or a   *)
(* stretch of task_create and task_kill between two points where the timer *)
(* interrupt changes what follows: neither masks IRQs.  The kernel task    *)
(* (slot 0) makes those two calls; every task yields, sleeps, exits and    *)
(* may kill itself.  Stacks come from page_alloc as PageSpec describes it. *)
(*                                                                         *)
(* Ids are left out: next_id gives each task its own for 2^32 creations,   *)
(* so task_kill(id) finds the slot of the live task that has it, or none.  *)
(***************************************************************************)
EXTENDS Integers

CONSTANTS
  N,             \* MAX_TASKS
  UserPages,     \* the pages stacks come from
  STACK_PAGES,   \* TASK_STACK_SIZE / PAGE_SIZE
  MaxSleep       \* bound: the longest sleep, in units of the system timer

ASSUME TaskAssumption ==
  /\ N \in Nat /\ N > 1
  /\ UserPages \subseteq Nat
  /\ STACK_PAGES \in Nat /\ STACK_PAGES > 0
  /\ MaxSleep \in Nat

NULL == -1
Slots == 0 .. (N - 1)
KERNEL == 0    \* the slot task_init gives the kernel

VARIABLES
  state,         \* tasks[s].state
  stack_base,    \* tasks[s].stack_base: its first page, or NULL
  sp,            \* what tasks[s].context.sp points at: see Resume
  sleep_left,    \* sleep_until - now for each slot, 0 once it has passed
  current_task,
  pc,            \* where each task is, when it runs
  slot, stack,   \* locals of the kernel's task_create or task_kill, while in it
  held,          \* the runs page_alloc has handed out
  torn,          \* the tasks others have stored in the stack of: see Over
  waited,        \* history: passes a runnable task has been passed over
  panicked       \* the CPU went where no task is

vars == <<state, stack_base, sp, sleep_left, current_task, pc, slot, stack, held,
          torn, waited, panicked>>
locals == <<slot, stack>>

Pages == INSTANCE PageSpec WITH Counts <- {STACK_PAGES}
StackRun(f) == Pages!Run(f, STACK_PAGES)
-----------------------------------------------------------------------------
\* task_init: the kernel runs, nobody else does.
Init ==
  /\ state = [s \in Slots |-> IF s = KERNEL THEN "RUNNING" ELSE "UNUSED"]
  /\ stack_base = [s \in Slots |-> NULL]
  /\ sp = [s \in Slots |-> "none"]
  /\ sleep_left = [s \in Slots |-> 0]
  /\ current_task = KERNEL
  /\ pc = [s \in Slots |-> "run"]
  /\ slot = 0 /\ stack = NULL
  /\ Pages!SpecInit
  /\ torn = {}
  /\ waited = [s \in Slots |-> 0]
  /\ panicked = FALSE

Runs(s, l) == ~ panicked /\ current_task = s /\ pc[s] = l
Goto(s, l) == pc' = [pc EXCEPT ![s] = l]

\* The kernel's call returns, and its locals are gone.
Return == Goto(KERNEL, "run") /\ slot' = 0 /\ stack' = NULL

\* The steps of find_next_task's loop from slot a to slot b: 1 to N.
Distance(a, b) == IF b > a THEN b - a ELSE b - a + N

\* Without find_next_task's test of the clock; without its waking at all.
RunnableAwake(st, s) == st[s] \in {"READY", "SLEEPING"}
RunnableReady(st, s) == st[s] = "READY"

\* Ready, or asleep for long enough for find_next_task to wake it.
Runnable(st, s) ==
  \/ st[s] = "READY"
  \/ st[s] = "SLEEPING" /\ sleep_left[s] = 0

\* find_next_task that always begins at slot 0.
LowestTask(st) ==
  IF \E s \in Slots : Runnable(st, s)
    THEN CHOOSE s \in Slots : /\ Runnable(st, s)
                              /\ \A t \in Slots : Runnable(st, t) => s <= t
    ELSE KERNEL

\* find_next_task: the first runnable slot after the current one, which is
\* itself looked at last; the kernel, whatever its state, when there is none.
NextTask(st) ==
  IF \E s \in Slots : Runnable(st, s)
    THEN CHOOSE s \in Slots :
           /\ Runnable(st, s)
           /\ \A t \in Slots : Runnable(st, t) =>
                Distance(current_task, s) <= Distance(current_task, t)
    ELSE KERNEL

\* Reaps the interrupted task only.
ReapedCurrentOnly(st) ==
  {s \in Slots : s = current_task /\ st[s] = "ZOMBIE" /\ stack_base[s] # NULL}

\* The slots a pass reaps: dead, with a stack still to be freed.
Reaped(st) == {s \in Slots : st[s] = "ZOMBIE" /\ stack_base[s] # NULL}

(***************************************************************************)
(* The handler's return to task n: restore_all_regs loads what saved sp    *)
(* points at.  save_all_regs left a "frame" there, if n ran before.  A new *)
(* task's sp is the "top" of its stack: the registers, with the address to *)
(* return to, are read from whatever memory lies above it, and it may run  *)
(* or not.  A slot that task_create has not filled in yet has "none" (0),  *)
(* where there is the firmware's code and no frame.                        *)
(***************************************************************************)
Resume(saved, n) ==
  \/ saved[n] = "frame" /\ UNCHANGED panicked
  \/ saved[n] = "top" /\ panicked' \in BOOLEAN
  \/ saved[n] = "none" /\ panicked' = TRUE

(***************************************************************************)
(* A new task that does run does not run on its stack: the last line of    *)
(* restore_all_regs takes sp 272 bytes above the top it began at.  From    *)
(* then on the outermost 272 bytes of what it stores, its first saved      *)
(* frame perhaps among them, are in the page above its stack, which is     *)
(* free, or the far end of another task's stack, or given away later.      *)
(***************************************************************************)
Above(s) == stack_base[s] + STACK_PAGES
Over(s) == /\ s # KERNEL /\ stack_base[s] # NULL
           /\ s = current_task \/ sp[s] = "frame"

\* What current_task is once its sp is saved.  AlwaysReady: even if it died.
AlwaysReady == [state EXCEPT ![current_task] = "READY"]
Preempted ==
  [state EXCEPT ![current_task] = IF @ = "RUNNING" THEN "READY" ELSE @]

\* A pass that frees the stacks of the dead and forgets to say so.
ScheduleKeepsStackBase ==
  LET next == NextTask(Preempted)
      dead == Reaped(Preempted)
      saved == [sp EXCEPT ![current_task] = "frame"]
  IN  /\ Pages!SpecFree({StackRun(stack_base[s]) : s \in dead})
      /\ state' = [s \in Slots |-> CASE s = next -> "RUNNING"
                                     [] s \in dead /\ s # next -> "UNUSED"
                                     [] OTHER -> Preempted[s]]
      /\ current_task' = next
      /\ sp' = saved
      /\ torn' = torn \ dead
      /\ waited' = [s \in Slots |-> CASE s = next -> 0
                                      [] Runnable(Preempted, s) /\ s # next -> waited[s] + 1
                                      [] OTHER -> waited[s]]
      /\ Resume(saved, next)
      /\ UNCHANGED stack_base

\* task_schedule, and the return from the handler that called it.
Schedule ==
  LET next == NextTask(Preempted)
      dead == Reaped(Preempted)
      saved == [sp EXCEPT ![current_task] = "frame"]
  IN  /\ Pages!SpecFree({StackRun(stack_base[s]) : s \in dead})
      /\ stack_base' = [s \in Slots |-> IF s \in dead THEN NULL ELSE stack_base[s]]
      /\ state' = [s \in Slots |-> CASE s = next -> "RUNNING"
                                     [] s \in dead /\ s # next -> "UNUSED"
                                     [] OTHER -> Preempted[s]]
      /\ current_task' = next
      /\ sp' = saved
      /\ torn' = torn \ dead
      /\ waited' = [s \in Slots |-> CASE s = next -> 0
                                      [] Runnable(Preempted, s) /\ s # next -> waited[s] + 1
                                      [] OTHER -> waited[s]]
      /\ Resume(saved, next)

\* handle_irq_schedule: the timer interrupt, anywhere IRQs are not masked.
Tick ==
  /\ ~ panicked
  /\ Schedule
  /\ UNCHANGED <<sleep_left, pc, locals>>

\* handle_sync_svc: task_yield called as such, or by task_exit, task_sleep_ms.
Svc(s) ==
  /\ Runs(s, "run") \/ Runs(s, "svc")
  /\ Schedule
  /\ Goto(s, "run")
  /\ UNCHANGED <<sleep_left, locals>>

\* Of two tasks with adjoining stacks, s below t, the one that runs stores in
\* the 272 bytes they share: s from the start, t when its stack is full.
Overwrite(s, t) ==
  /\ ~ panicked
  /\ Over(s) /\ Over(t) /\ stack_base[t] = Above(s)
  /\ current_task \in {s, t}
  /\ torn' = torn \cup ({s, t} \ {current_task})
  /\ UNCHANGED <<state, stack_base, sp, sleep_left, current_task, pc, locals, held, waited, panicked>>

\* A task returns by, or to, a frame that others have stored in.
Derail ==
  /\ ~ panicked /\ current_task \in torn
  /\ panicked' = TRUE
  /\ UNCHANGED <<state, stack_base, sp, sleep_left, current_task, pc, locals, held, torn, waited>>

\* The system timer counts on.
TimePasses ==
  /\ ~ panicked
  /\ \E s \in Slots : sleep_left[s] > 0
  /\ sleep_left' = [s \in Slots |-> IF sleep_left[s] > 0 THEN sleep_left[s] - 1 ELSE 0]
  /\ UNCHANGED <<state, stack_base, sp, current_task, pc, locals, held, torn, waited, panicked>>
-----------------------------------------------------------------------------
\* task_exit up to its svc.
TaskExit(s) ==
  /\ s # KERNEL /\ Runs(s, "run")
  /\ state' = [state EXCEPT ![s] = "ZOMBIE"]
  /\ Goto(s, "svc")
  /\ UNCHANGED <<stack_base, sp, sleep_left, current_task, locals, held, torn, waited, panicked>>

\* task_sleep_ms up to its svc.
TaskSleep(s, ms) ==
  /\ Runs(s, "run")
  /\ state' = [state EXCEPT ![s] = "SLEEPING"]
  /\ sleep_left' = [sleep_left EXCEPT ![s] = ms]
  /\ Goto(s, "svc")
  /\ UNCHANGED <<stack_base, sp, current_task, locals, held, torn, waited, panicked>>

\* task_kill of its own id: the task runs on until the next pass.
KillSelf(s) ==
  /\ s # KERNEL /\ Runs(s, "run")
  /\ state' = [state EXCEPT ![s] = "ZOMBIE"]
  /\ UNCHANGED <<stack_base, sp, sleep_left, current_task, pc, locals, held, torn, waited, panicked>>

\* task_kill finds the slot that has the id ...
KillFind(s) ==
  /\ Runs(KERNEL, "run")
  /\ s # KERNEL /\ state[s] # "UNUSED"
  /\ slot' = s
  /\ Goto(KERNEL, "kill")
  /\ UNCHANGED <<state, stack_base, sp, sleep_left, current_task, stack, held, torn, waited, panicked>>

\* ... and marks it, whatever has happened to it since.
KillStore ==
  /\ Runs(KERNEL, "kill")
  /\ state' = [state EXCEPT ![slot] = "ZOMBIE"]
  /\ Return
  /\ UNCHANGED <<stack_base, sp, sleep_left, current_task, held, torn, waited, panicked>>
-----------------------------------------------------------------------------
CreateCall ==
  /\ Runs(KERNEL, "run")
  /\ slot' = 0
  /\ Goto(KERNEL, "scan")
  /\ UNCHANGED <<state, stack_base, sp, sleep_left, current_task, stack, held, torn, waited, panicked>>

\* Looks for an unused slot one slot too far.
CreateScanOffByOne ==
  /\ Runs(KERNEL, "scan")
  /\ IF slot \in Slots /\ state[slot] = "UNUSED"
       THEN Goto(KERNEL, "alloc") /\ UNCHANGED locals
       ELSE IF slot < N THEN slot' = slot + 1 /\ UNCHANGED <<pc, stack>>
                        ELSE Return
  /\ UNCHANGED <<state, stack_base, sp, sleep_left, current_task, held, torn, waited, panicked>>

\* One iteration of task_create's loop; it returns -1 after the last slot.
CreateScan ==
  /\ Runs(KERNEL, "scan")
  /\ IF state[slot] = "UNUSED"
       THEN Goto(KERNEL, "alloc") /\ UNCHANGED locals
       ELSE IF slot < N - 1 THEN slot' = slot + 1 /\ UNCHANGED <<pc, stack>>
                            ELSE Return
  /\ UNCHANGED <<state, stack_base, sp, sleep_left, current_task, held, torn, waited, panicked>>

\* page_alloc, at the moment it takes effect, and the memset of the stack,
\* with the end of what a task below may have stored there.
CreateAlloc ==
  /\ Runs(KERNEL, "alloc")
  /\ \E f \in UserPages :
       /\ Pages!SpecAlloc(f, STACK_PAGES)
       /\ stack' = f
       /\ torn' = torn \cup {s \in Slots : Over(s) /\ Above(s) = f}
  /\ Goto(KERNEL, "publish")
  /\ UNCHANGED <<state, stack_base, sp, sleep_left, current_task, slot, waited, panicked>>

\* page_alloc returns NULL: task_create returns -1.
CreateNoStack ==
  /\ Runs(KERNEL, "alloc")
  /\ \A f \in UserPages : ~ (Pages!PagesOf(StackRun(f)) \subseteq UserPages \ Pages!HeldPages)
  /\ Return
  /\ UNCHANGED <<state, stack_base, sp, sleep_left, current_task, held, torn, waited, panicked>>

\* The slot is cleared and its state set: from here on it can be scheduled.
CreatePublish ==
  /\ Runs(KERNEL, "publish")
  /\ state' = [state EXCEPT ![slot] = "READY"]
  /\ stack_base' = [stack_base EXCEPT ![slot] = NULL]
  /\ sp' = [sp EXCEPT ![slot] = "none"]
  /\ sleep_left' = [sleep_left EXCEPT ![slot] = 0]
  /\ waited' = [waited EXCEPT ![slot] = 0]
  /\ pc' = [pc EXCEPT ![slot] = "run", ![KERNEL] = "fill"]
  /\ UNCHANGED <<current_task, locals, held, torn, panicked>>

\* The rest of the slot is filled in, and task_create returns.
CreateFill ==
  /\ Runs(KERNEL, "fill")
  /\ stack_base' = [stack_base EXCEPT ![slot] = stack]
  /\ sp' = [sp EXCEPT ![slot] = "top"]
  /\ Return
  /\ UNCHANGED <<state, sleep_left, current_task, held, torn, waited, panicked>>

TaskCreate ==
  CreateCall \/ CreateScan \/ CreateAlloc \/ CreateNoStack \/ CreatePublish \/ CreateFill

Next ==
  \/ Tick
  \/ TimePasses
  \/ Derail
  \/ TaskCreate
  \/ KillStore
  \/ \E s \in Slots :
       \/ Svc(s)
       \/ TaskExit(s)
       \/ \E ms \in 0 .. MaxSleep : TaskSleep(s, ms)
       \/ KillSelf(s)
       \/ KillFind(s)
       \/ \E t \in Slots : Overwrite(s, t)

Spec == Init /\ [][Next]_vars

\* The timer keeps counting and interrupting (timer_handle_irq re-arms it).
FairSpec == Spec /\ WF_vars(Tick) /\ WF_vars(TimePasses)
-----------------------------------------------------------------------------
TypeOK ==
  /\ state \in [Slots -> {"UNUSED", "READY", "RUNNING", "SLEEPING", "ZOMBIE"}]
  /\ stack_base \in [Slots -> UserPages \cup {NULL}]
  /\ sp \in [Slots -> {"none", "top", "frame"}]
  /\ sleep_left \in [Slots -> Nat]
  /\ current_task \in Slots
  /\ pc \in [Slots -> {"run", "svc", "scan", "alloc", "publish", "fill", "kill"}]
  /\ slot \in Slots
  /\ stack \in UserPages \cup {NULL}
  /\ held \subseteq {StackRun(f) : f \in UserPages}
  /\ torn \subseteq Slots \ {KERNEL}
  /\ waited \in [Slots -> Nat]
  /\ panicked \in BOOLEAN

\* task_create has a stack that no slot knows of.
Unowned == pc[KERNEL] \in {"publish", "fill"}

(***************************************************************************)
(* Every run page_alloc handed out is the stack of exactly one slot, or in *)
(* the hands of task_create; and the task the CPU is in still has its run. *)
(* So no stack leaks, none is freed twice or given to two tasks, and none  *)
(* is freed while its task can be dispatched, although a pass frees stacks *)
(* between any two steps of task_create and task_kill, and frees that of   *)
(* the dying task it interrupts while still on it (task.c:45-66, 111-117). *)
(* It is about who owns the runs, not about where sp is: a task that has   *)
(* been dispatched also stores above its run, in memory it does not own,   *)
(* and whose that is the property does not say (see Over).                 *)
(***************************************************************************)
StackOwnership ==
  /\ held = {StackRun(stack_base[s]) : s \in {t \in Slots : stack_base[t] # NULL}}
              \cup (IF Unowned THEN {StackRun(stack)} ELSE {})
  /\ \A s, t \in Slots : s # t /\ stack_base[s] # NULL => stack_base[s] # stack_base[t]
  /\ Unowned => \A s \in Slots : stack_base[s] # stack
  /\ current_task # KERNEL /\ ~ panicked => stack_base[current_task] # NULL

(***************************************************************************)
(* Round robin: a task that is ready, or due to wake, is passed over fewer *)
(* than N times, whoever else is created, wakes, sleeps or dies in the     *)
(* meantime (task.c:76-97).                                                *)
(***************************************************************************)
BoundedWait == \A s \in Slots : waited[s] < N

(***************************************************************************)
(* A task that called task_sleep_ms does not run on before its time, even  *)
(* when the timer interrupts it between enable_irq and svc (task.c:137).   *)
(* The kernel does: find_next_task falls back to it when no task can run   *)
(* (task.c:96).                                                            *)
(***************************************************************************)
SleepHonoured ==
  \A s \in Slots \ {KERNEL} :
    current_task = s /\ pc[s] = "run" => sleep_left[s] = 0

(***************************************************************************)
(* A task that was killed or has exited never runs again: its slot goes    *)
(* back to UNUSED.  The exception is a task that killed itself and goes to *)
(* sleep before a pass notices (task.c:139, 149).                          *)
(***************************************************************************)
KilledStaysDead ==
  [][\A s \in Slots :
       state[s] = "ZOMBIE" /\ state'[s] \notin {"ZOMBIE", "UNUSED"} =>
         s = current_task /\ pc[s] = "run" /\ state'[s] = "SLEEPING"]_vars

(***************************************************************************)
(* Every task that is ready or asleep runs, dies, or the system panics:    *)
(* sleepers wake and nobody starves (task.c:80-90).                        *)
(***************************************************************************)
EveryTaskRuns ==
  \A s \in Slots :
    state[s] \in {"READY", "SLEEPING"} ~>
      (current_task = s \/ state[s] \in {"ZOMBIE", "UNUSED"} \/ panicked)

(***************************************************************************)
(* The stack of a dead task is freed, unless it saves itself by going to   *)
(* sleep, or the system panics (task.c:111-117).                           *)
(***************************************************************************)
DeadStacksFreed ==
  \A s \in Slots :
    state[s] = "ZOMBIE" /\ stack_base[s] # NULL ~>
      (stack_base[s] = NULL \/ state[s] = "SLEEPING" \/ panicked)
=============================================================================
