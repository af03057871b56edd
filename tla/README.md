# LareOS in TLA+

LareOS is a bare-metal AArch64 kernel for the Raspberry Pi 3 and, by the Makefile's target
`rpi4`, the Raspberry Pi 4: one CPU (the others hang in `boot.S`), no MMU, a shell on the
UART and the frame buffer, a RAM file system, preemptive tasks, two memory allocators
and drivers for the timer, the interrupt controller, the mailbox and the frame buffer.
This directory holds TLA+ specifications of its logic, TLC configurations that check
them on small instances, and TLAPS proofs of the main results for every size.

## Inventory

| Component | State | Operations | Meets |
|---|---|---|---|
| Page allocator (`kernel/mm.c`) | `page_map[]`, `total_pages` | `mm_init`, `page_alloc`, `page_free`, `mm_get_info` | called by `task_create`; `page_free` from the interrupt handler |
| kmalloc heap (`kernel/mm.c`) | `free_list` in the heap itself | `mm_init`, `kmalloc`, `kcalloc`, `kfree` | called by the VFS and the shell |
| Tasks (`kernel/task.c`) | `tasks[]`, `current_task`, `next_id` | `task_init`, `task_create`, `task_schedule`, `task_yield`, `task_exit`, `task_sleep_ms`, `task_kill` | run by both handlers; uses pages and the timer |
| Interrupts (`drivers/irq.c`, `boot/boot.S`) | enable registers, the frame on the stack | `irq_init/enable/disable`, `handle_irq_schedule`, `handle_sync_svc` | calls the timer and the scheduler |
| Timer (`drivers/timer.c`) | `system_ticks`; CLO, CHI, C1, CS | `timer_init`, `timer_get_ticks`, `timer_sleep`, `timer_handle_irq` | clock of tasks and files |
| Mailbox, power (`drivers/mailbox.c`, `kernel/power.c`) | the shared buffer `mbox`, the profile | property calls, `power_set_profile` | the VideoCore; shell and `/proc/cpuinfo` |
| VFS (`kernel/vfs.c`) | node tree, `cwd`, `fd_table` | create, remove, resolve, open, read, write, close | the heap, the timer, the power module |
| Shell (`kernel/shell.c`) | the line `cmd`, `history[]`, `history_count`, `commands[]` | `shell_run` (editing, history, dispatch), `parse_args`, the commands | the UART; its commands use everything above |
| Console (`drivers/fb.c`) | `fb` (size, pitch, address), the frame buffer's memory; no cursor | `fb_init`, `fb_putpixel`, `fb_fillrect`, `fb_clear`, `fb_putchar`, `fb_puts`, `fb_draw_progress_bar`, `fb_scroll_up` | the mailbox; called by `kernel_main`'s boot sequence |
| Library (`lib/string.c`, `kernel/printf.c`) | none | memory, strings, numbers, formats | everything |
| UART, GPIO, boot, `kernel_main` | registers | polled I/O, initialisation | everything |

What makes each correct, and where it is hard:

* **Pages.** Every page belongs to at most one caller, none is lost, and a request
  that could be met is.  Hard because `page_alloc` scans and marks with IRQs
  enabled while the timer interrupt reaps a task and calls `page_free`.
* **Heap.** The blocks tile the heap and the callers' memory is disjoint, aligned
  and big enough; `kfree` leaves no fragmentation of its own.  Hard because of the
  arithmetic of splitting and because coalescing must work for every order of
  frees.
* **Tasks.** Every stack has one owner and is not freed while its task can be dispatched
  (a new task then runs 272 bytes above it, which is a hazard of its own); nobody starves; sleepers sleep long enough and wake; the dead stay dead and their
  stacks come back.  Hard because `task_create` and `task_kill` do not mask IRQs,
  so that a pass of the scheduler may run between any two of their steps, and
  because a dying task's stack is freed by a handler that runs on it.
* **Timer.** What is read is what the count was, sleeps last, interrupts keep
  coming.  Hard because the 64-bit count is two 32-bit reads that interrupts and a
  wrap of the low word come between, and because the compare register is re-armed
  relative to a read.
* **Mailbox and power.** A call gets the answer to its own request and returns; the
  clocks are those of the profile that is shown, as near as their range allows.  Hard because there is one buffer
  for all requests, a wait without a bound, and two clock settings per profile of
  which one may fail.
* **VFS.** The nodes are a tree whose paths resolve, no byte and no block is lost,
  a call that fails changes nothing, nothing is used after it is freed.  Hard
  because descriptors share files that grow and move, names are cut, addresses are
  used again, and the heap may be full at any time.
* **Shell.** The command that runs is the one the line names, with the line's words;
  the history holds the last lines, whole; the prompt comes back.  Hard because one
  array is the edited line, the text of the arguments and, never being cleared, the
  remains of all lines before; `parse_args` stores NULs in it; and a full history
  is shifted in place.
* **Console.** Only the frame buffer is written, whatever the coordinates, and what
  shows is what was drawn, clipped at the edges.  Hard because of rows that are
  longer than the screen is wide, unsigned arithmetic at the edges, and a scroll that
  copies memory over itself.
* **Library.** A copy stays in the array it is told the size of.

As shipped, `kernel_main` does not call `task_init` and the Makefile does not link
`task.c` and `vfs.c`: the models are of these files as they stand, with the calls
their interfaces allow.

## Modules

| Module | What it is |
|---|---|
| `PageSpec` | what the page allocator promises: disjoint runs of free pages |
| `PageAlloc` | `page_alloc` one loop iteration at a time, interrupted by `page_free` |
| `PageAllocProofs` | its invariants and its refinement of `PageSpec` |
| `HeapSpec` | what `kmalloc`/`kfree` promise: disjoint, aligned memory in the heap |
| `Heap` | the block list, one loop iteration at a time |
| `HeapProofs` | its invariants and its refinement of `HeapSpec` |
| `Task` | slots, stacks, the round robin, the two handlers; built on `PageSpec` |
| `TaskProofs` | its safety properties |
| `Timer` | the count read in halves, the compare register, the handler, sleeps |
| `TimerProofs` | its safety properties |
| `Power` | the mailbox's buffer and queues, the VideoCore, the profiles |
| `PowerProofs` | its safety properties |
| `Vfs` | the node tree, paths, descriptors, files in heap blocks |
| `VfsProofs` | what it does with memory, contents and failures; that the nodes stay a tree whose paths lead back |
| `ShellSpec` | what the shell promises: a line, a log of lines, commands run with words |
| `Shell` | `shell_run` and `parse_args`, a character or a loop iteration at a time |
| `ShellProofs` | that it stays in its arrays, and its refinement of `ShellSpec` |
| `Screen` | what the drawing functions promise: pixels, and what each call paints |
| `Console` | the functions of `fb.c` in the memory around the frame buffer |
| `ConsoleProofs` | that nothing else is written, and its refinement of `Screen` |
| `Strncpy` | `strncpy`, one character at a time |
| `MCPageAlloc`, `MCHeap`, `MCTask`, `MCTimer`, `MCPower`, `MCVfs`, `MCShell`, `MCConsole`, `MCStrncpy` | instances for TLC |

### PageAlloc

`page_map`, and `i`, `found`, `first`, `j` are the variables of the C; `pc` says
which loop `page_alloc` is in.  Two history variables: `held`, the runs returned and
not yet freed, and `free0`, the pages free when the call began.  `PageFree` is atomic
(the handler masks IRQs) and enabled at every `pc`.  One `page_alloc` at a time:
its only caller is `task_create`, which the kernel task makes.  `count = 0` is
included (`page_alloc(0)` never finds `found == 0` after an increment and returns
NULL).

### Heap

`blocks` maps the address of each header that is on `free_list` to its size, its
flag and its next pointer; addresses are offsets from `kmalloc_base`.  A header that
a merge drops from the list stays in memory in the code and is no longer in `blocks`:
nothing reaches it, as callers free only what they hold.  The magic is therefore
always right and is left out.

### Task

One action is a stretch of code that nothing interrupts, or that it makes no
difference to interrupt:

| Code | Actions |
|---|---|
| `task_schedule` in `handle_irq_schedule` / `handle_sync_svc` | `Tick` / `Svc`, both through `Schedule` |
| `task_exit`, `task_sleep_ms` | `TaskExit`, `TaskSleep` (between `disable_irq` and `enable_irq`), then `Svc` |
| `task_create` | `CreateCall`, `CreateScan` (per slot), `CreateAlloc` or `CreateNoStack`, `CreatePublish` (`memset` and `state`), `CreateFill` (the rest) |
| `task_kill` | `KillFind`, `KillStore`; `KillSelf` for its own id |
| the counter of the system timer | `TimePasses` |

`Schedule` is the whole of `task_schedule`, with `find_next_task` (`NextTask`), the
reaping loop (`Reaped`) and the return from the exception (`Resume`).  `sp` keeps
what a slot's `context.sp` points at: a frame saved by `save_all_regs`, the bare top
of a new stack, or nothing yet.  `restore_all_regs` reads 272 bytes from it
whichever it is.  A new task's registers are thus what lies *above* its stack,
and the model lets its first dispatch go either way; a slot that has no sp yet sends
the CPU to address 0.  If it runs, it does not run on its stack: the last line of
`restore_all_regs` (`boot.S:101`) adds 272 to the sp, which was the stack's top.  From then on
the outermost 272 bytes of what the task stores lie in the page above (`Over`, `Above`).  `torn`
is the set of tasks in whose memory others have stored that way: two tasks with
adjoining stacks store in each other's (`Overwrite`), `task_create` clears a new stack with
the end of its neighbour's below (`CreateAlloc`), and a torn task may return to, or by, what it
finds there (`Derail`).  `panicked` says the CPU is lost.  It is a possible outcome in
this code, not an error of the model: all the properties of tasks hold up to there,
and the liveness ones mention it.  This is also why the runs do not check deadlock:
a panicked system stops.

`sleep_left` is `sleep_until - now`, so that time needs no bound.  All of a pass reads
the clock at once; in the code a sleeper later in the scan can become due during
the pass, which is the same as the time passing just before it.

`StackOwnership` is therefore about who owns which run of pages, not about where sp is: that no
task stores outside its own run is not claimed, because it is not so.

Only the kernel task creates tasks and kills others, so `task_create` has no second
caller here; every task may kill itself.

Left out: ids (each task has its own until `next_id` wraps, so `task_kill(id)` is a
choice of slot), names, `priority` and `cpu_ticks` (nothing reads them to decide),
`TASK_BLOCKED` (never stored).

Not claimed, because the code does not have it: a slot whose task was reaped between
the test and the store of `task_kill` stays a zombie without a stack for ever (a slot
is lost, never a stack); a task that killed itself and then sleeps is alive again
(`KilledStaysDead` and `DeadStacksFreed` name the exception); the kernel's own sleep
may be cut short (`SleepHonoured` excludes slot 0).

### Timer

An action is one access to the registers, or what the code does between two.
`Count` is the device: the count goes up by one, and M1 is set when its low word
meets C1.  `HandleIrq`, `Arm` and `Ack` are the three accesses of
`timer_handle_irq`; `ReadHi` to `RereadLo` those of `timer_get_ticks`, which runs for
itself or within `timer_sleep` (`SleepCall`, `SleepTarget`, `SleepAgain`,
`SleepReturn`).  The handler interrupts the reader anywhere.  Reads of the count by
the handler itself (`find_next_task`) are the case where it does not.

Two timing assumptions are guards of `Count`: the
handler takes less than an interval (10 ms) from its read of CLO to its return, and
a call of `timer_get_ticks` returns before the low word has come round (71
minutes), whatever interrupts it.  Without the second a read can be wrong: the
high word is compared only once.  Both hold by a wide margin.  The initial state is
`timer_init`'s, which leaves a match from before pending; so the very first tick may
be early, and only that one.

### Power

Every function of `mailbox.c` fills the buffer, sends its address, waits and looks
at the response code: `Send`, and `Poll` per mail read.  The functions of `power.c`
are lists of such calls (`todo`).  `Answer`, `AnswerError` and `OtherMail` are the
VideoCore, as the code uses it: it reads the request from the buffer and answers in
it at any time, may refuse, keeps the ARM clock in its range, and may send mails of
other channels.  Requests for data that is only printed (revision, serial, memory,
temperatures) are all `Info`.  The rates are in MHz, and `ProfileRate` wraps where `power.c:28`
does: on a Raspberry Pi 4 three times 1500 MHz do not fit in 32 bits, BALANCED asks for
51 MHz, and the firmware keeps the clock at its minimum.

The code ignores what `mailbox_set_clock_rate` returns and notes the profile all the same.
`failed` is the set of clocks whose last setting was refused; `ProfileShown` says of every
*other* clock that it runs at what the noted profile asks for, within its range, also when
the other call, or the reading of the limits, has failed.

Left out: the wait for room in the mailbox before a request is written (with one request
at a time there is always room) and a number that is no profile, for which
`power_set_profile` sets nothing.

Finding: `power_init` asks for the *maximum* clock rate to fill
`arm_min_clock` (`power.c:14`), so that powersave runs the ARM clock at its maximum,
a third faster than balanced.  The run `powersave` shows it, at the Raspberry Pi 3's rates.

### Vfs

A pointer is the address of a kmalloc block.  `nodes` holds the live nodes and `mem`
the bytes of the files; `held` is what kmalloc has given out.  kmalloc returns any
block that is not held, an old address included, or NULL: what `HeapSpec` promises
and no more.  A call that reads through a pointer to a block that is not a node is
undefined behaviour; the model notes it and stops, which is why its runs do not
check deadlock.  A pointer to a *new* node at the old address is followed.

| Code | Actions |
|---|---|
| `vfs_create`, `vfs_remove`, `vfs_set_cwd` | `VfsCreate`, `VfsRemove`, `VfsSetCwd` |
| `vfs_find_child`, `vfs_resolve_path`, `vfs_get_path` | the operators `FindChild`, `Resolve` (a `Walk` that makes a `Descend` for each component), `GetPath` |
| `vfs_open` | `OpenNode`, `OpenNew`, `OpenMissing`, `OpenDangling` |
| `vfs_fd_read`, `vfs_fd_write` | `VfsFdRead`; `WriteInPlace`, `WriteGrows`, `WriteFails`; `FdRefused`, `FdDangling` |
| the same, by `read_fn` and `write_fn` | `DeviceRead`, `DeviceWrite` |
| `vfs_fd_close` | `VfsFdClose` |

One call is one action: nothing in the handlers uses the file system, and only the
kernel task does.  `Cut` and `Rest` say what becomes of a name of more than 31
characters: `vfs_create` keeps the first part, a path takes the rest for another
component, so that `Descend` looks for two names.
`GetPath` climbs at most `MAX_DEPTH` (32) levels (`Climb`, `Depth`), as `vfs.c:189` does: the
path of a deeper node begins below the root (`Stop`).  `PathsRoundTrip` says that this path
finds the node from where the climb stopped, which is all of the tree when that is the root.  The empty path and slashes at the end of a path are not among `Paths`.
Times and permissions are left out; O_READ and O_WRITE decide nothing in
the code.  The size of `vfs_get_path`'s buffer, which `strcat` does not look at, is left out
(the hazard is listed), and so are calls of `vfs_read` and `vfs_write` that do not come
through a descriptor.  A device is a node whose type is its kind; its functions answer with a
number of bytes and change nothing (`DeviceReads`; what is in them is text, and the
clocks that `/proc/cpuinfo` asks for are `Power`'s).  They ignore the offset, so that
`/proc` has no end.  `Init` is a tree from which callers have removed everything, or all but
one device: what `vfs_init` makes is too big for TLC.

Not claimed, because the code does not have it: a path `/name` that does not exist
is made in the current directory; a file with a name that is too long is made again
by every call (`TreeShape` and `PathsRoundTrip` name the exception); after O_TRUNC another
descriptor's write may leave a hole with old or unwritten bytes (`ContentsKept` is
about bytes written); `vfs_remove` does not look for descriptors
(`OnlyRemovalDangles` says that nothing else makes a pointer dangle).

### Shell

`cmd` is kept character by character, because what is behind the line's end matters;
`pos`, `history`, `history_count`, `argv`, `in_arg` and `i` are the variables of the C
(`argc` is `Len(argv)`), and a string in the history is what `strcpy` copied.

| Code | Actions |
|---|---|
| `uart_getc` and the three branches on its character | `Type`, `Backspace`, `CtrlC`, `EnterEmpty`, `Enter` |
| the loop that shifts a full history, the copy after it | `Shift`, `ShiftDone` |
| `parse_args` | `ParseBlank`, `ParseChar` |
| `strcmp` with `commands[]`, the call | `Dispatch`; `Return` or `Fault` |

The UART is whoever types: any key at any time, bounded by `Lines`, the lines typed,
with corrections and ^C anywhere in them; any key at all once there is no room.
Commands are their names.  `reboot` and `shutdown` do not return, and `peek` may not: it reads
whatever address it is given, and where that faults the handler loops for ever
(`Fault`, pc "panic").  After a reset `boot.S` clears
`.bss`, with the history in it, but not the stack, with `cmd`; after a power-off
nothing happens, which is why the run does not check deadlock.

`ShellSpec` has none of the arrays.  It says what the code does at the edges too: a
line of blanks is logged but runs nothing; the last argument there is room for is the
rest of the line, blanks included; a name must match exactly.  `LogView` is the
history as it will be when the shift is over.  `PromptReturns` says that the shell is done
with every line, and that the prompt comes back unless the line's words are a shutdown or
a peek with an address (`MayHalt`).  The n-th word of a line begins where n - 1
have begun before (`Begin`), however `parse_args` finds it.

### Console

Memory is a function of addresses, one word a pixel, with other people's words
around what the VideoCore grants.  One action is one call: nothing that runs in an
interrupt draws.  `Pixel`, `Rect`, `Char`, `Text`, `Memcpy` and `Memset` are what the
functions do to memory; the loops of `Text` and `Memcpy` keep their order.  The depth is
32, as `kernel.c` asks for and the VideoCore is taken to grant; at another depth a store
of four bytes would reach its neighbour.

`Screen` has no memory and no unsigned numbers: a call is a set of pixels and a color
for each, and what is outside the screen is not painted.  `call` is the last call, a
history variable that both modules have, so that each call must paint what *it*
stands for.  `FbScrollUp` is guarded: by more lines than the screen has,
`height - pixel_lines` wraps and `memcpy` is given nearly 4 GB.  Nothing in the tree
calls it, so the guard is a condition for callers to come.  `DrawingFits` is another: the
places and sizes callers pass are such that no 32-bit sum wraps, a bar is at most 100 %
done and a glyph is no higher than a line.  It is no guard of the model, which wraps as the
code does; the refinement of `Screen` is under it, and TLC evaluates it for its instance
(`MCDrawingFits`).  That only the frame buffer is written does not depend on it.  The first `fb_init` that
succeeds is the last (`kernel_main` calls it once).

### Strncpy

The two loops, a character an action; `dst` has one more cell than the array, for what is
next to it.

Finding: `while (n && (*d++ = *src++)) n--;` stores the NUL of a short string without
counting it, and `while (n--) *d++ = '\0'` fills up from there: n + 1 characters in all
(`string.c:35`).  The run `strncpy` shows it.  In `vfs.c:338`, `vfs.c:248` and
`task.c:55` that is a byte of the next field or variable.  `Vfs` and `Task` do not depend on
it: `type` is stored after `name`, and `stack_base` holds NULL then.

## Runs

| Run | Instance | Shows |
|---|---|---|
| `page_alloc` | 8 pages (2 the heap's), requests of 0 to 3 | `BitmapMatchesCallers`, `NoMissedRun`, refinement of `PageSpec` |
| `heap` | 216 bytes, requests of 5, 20 and 48 bytes | `Tiled`, `NullOnlyWhenFull`, `FullyRestored`, `CallsReturn`, refinement of `HeapSpec` |
| `task` | 3 slots, 4 pages, adjoining stacks of 2, sleeps of 0 to 3 | `StackOwnership`, `BoundedWait`, `SleepHonoured`, `KilledStaysDead` |
| `task_live` | 3 slots, 2 stacks of one page that do not adjoin, sleeps of 0 and 1 | `EveryTaskRuns`, `DeadStacksFreed` |
| `timer` | low word of 4 values, interval 2, 12 counts, sleeps of 0, 1 and 3 | `ReadsTrue`, `SleepLasts`, `AlwaysArmed`, `NoEarlyTick` |
| `power` | Raspberry Pi 4 rates, 3 mails in the queue | `BufferHandedOver`, `ProfileShown`, `CallsReturn` |
| `powersave` | the same with Raspberry Pi 3 rates | `PowersaveIsSlower` is violated |
| `vfs_tree` | 3 blocks, 4 names of which one too long, 1 descriptor, devices, files without bytes, paths of 2 levels | `TreeShape`, `PathsRoundTrip`, `OnlyRemovalDangles` |
| `vfs_files` | 3 blocks, 1 name, 2 descriptors, 2 values, files of up to 3 bytes | `MemoryOwned`, `ContentsKept`, `FailuresAreClean` |
| `shell` | lines of up to 5 characters, a history of 3, 2 arguments, 4 commands | refinement of `ShellSpec`, `PromptReturns` |
| `console` | screens of 3 by 4 and 2 by 7, glyphs of 2 by 2, 3 calls | `OnlyFrameBufferWritten`, refinement of `Screen` |
| `strncpy` | an array of 3, strings of 0 to 4 characters | `NeighbourKept` is violated |

Bounds.  Six user pages hold runs of every length next to gaps that are too short
for the next request, freed before, inside and after the scan.  216 bytes are five
of the smallest blocks, and the three sizes make `Splits` false, true by the least
margin, and true with room; a freed block can have free neighbours on both sides.
Three slots are a kernel and two tasks, enough for one to be created while another
runs, dies or sleeps; four pages hold two adjoining stacks of two, whose tasks store in
each other's, or one in the middle, so that `page_alloc` fails with a slot to
spare.  In `task_live` the stacks do not adjoin: a task that is overwritten can only panic, which
both of its properties exempt anyway.  `MaxSleep` bounds the length of a sleep, which matters
only as zero, about to end, and longer.  A low word of four values wraps inside every
read, sleep and interval, twice in twelve counts.  Three mails put two of others
before an answer.  Three blocks are a file, its data and the block it grows into, or
a directory, a file in it and another, or a chain one level deeper than paths are
climbed; a block that is freed is soon used again,
which is what the run is after.  Three bytes with a smallest capacity of two make a
file grow and move once, with its last byte at, before and beyond the end.  In both
runs of `Vfs` blocks are symmetric: nothing but equality is asked of an address.  Five
characters are two words with blanks before, between or after them, or two arguments of
which the second is two words, or one key more than there is room for; a history of
three shifts twice, and has a line that moves and one that is lost.  The screens have a
word of others on each side; the second has rows of three words for two pixels, and a
line of three rows, so that scrolling copies rows over rows still to be copied; places
are inside, in the last column and outside, and texts run over both edges.  Three calls
are `fb_init` and two that paint over one another.  The proofs remove the bounds for most of the safety
properties.

Fairness.  `Heap`: a call that has begun keeps running (no loop waits for anything).
`Task`: the timer interrupt keeps coming (`AlwaysArmed` says that a match is always
pending or ahead; nothing masks IRQs for good) and the counter keeps counting.
`Power`: the CPU polls, and the VideoCore answers what it is sent, some time, while
others may send without end.
`Shell`: a loop that has begun goes on, and a command returns or faults: none has a
loop without an end but in the mailbox, whose calls return (`CallsReturn`).  Which of the two
`peek` does is not for fairness to say; nobody has to type anything.  In `Task` no task is
assumed to make progress: all may loop for ever.

## Proofs

* **PageAllocProofs.**  The invariant adds to the types and to `BitmapMatchesCallers`
  where the scan is: `found` pages have been seen from `first` on, they were free
  when seen and, as interrupts only free, still are; no run that was free at the call
  begins before the part still to be looked at.  Then `TypeCorrect`, `BitmapAgrees`,
  `MissesNoRun`, and `Refinement`: `ReturnRun` implements `SpecAlloc`, `PageFree`
  implements `SpecFree`, all else stutters.
* **HeapProofs.**  The invariant is that the list tiles the heap (`Tiled`), that
  everything behind a walk did not fit, and that everything behind a merge has no two
  free neighbours; hence no two free neighbours at all when idle, which
  `FailsOnlyWhenFull` and `RestoresHeap` follow from.  `Refinement` adds alignment.
* **TaskProofs.**  Three independent parts above the types: who owns which stack
  (`Slotwise`, `Creating`, `StackOwnership`), how long a task has waited against how
  far the round robin is from it (`Waiting`: `waited + Distance <= N`, which every
  pass keeps because it moves `current_task` closer to every task it passes over), and
  what a sleeper's timer says (`Sleeping`).  What tasks store in each other's stacks touches
none of them (`SharingPreserves`).  One lemma per group of actions; a pass is
  `PassPreserves`, whatever it interrupts.
* **TimerProofs.**  The invariant has one part for the handler (while it runs no more
  than an interval has passed since its read, and afterwards C1 is still ahead of the
  count by what is left of the interval, or M1 is set) and one for the reader: at each
  of its reads, what it has so far is from after the call; if the high words agree the
  low word was read under that high word, and if they do not, lo has just wrapped and
  cannot again before the call returns.  `SleepIsLong` follows from `TicksAreTrue`
  and the target's own reading.

* **PowerProofs.**  The invariant follows one request through the mailbox: while the
  CPU waits, either the VideoCore still has the mail, and the buffer with it, or
  exactly one answer is in the queue, among any number of others' mails (`Handing`);
  which call is waiting and which remain of the operation (`Pending`); and how far the
  clocks of a profile are set that did not fail to be (`Setting`).
  `BufferIsHandedOver` and `ProfileIsShown` follow for queues of any length and every clock
  range, those included where three times the maximum wraps.
* **ShellProofs.**  `TypeCorrect` says that no store leaves `cmd`, `argv` or `history`.
  What it takes: the characters before `pos` are typed ones and no NULs, so that after
  `cmd[pos] = '\0'` the string that `strcpy` copies ends at `pos`, which is less than
  the length of a history entry, and `parse_args` meets the NUL inside `cmd`.
  `Implements` is the refinement of `ShellSpec`.  Its invariant (`Parsed`) says how far
  `parse_args` has cut the line that the history has whole: in front of `i` the blanks are
  NULs and the rest is unchanged; as many words begin there as `argv` has pointers, the
  n-th of them with n - 1 words before it; and if `argv` is full, `i` has just passed the last
  one.  Each string at `argv` then ends where its word does, at the NUL the loop stored or
  the line's own, and the last argument there is room for is the rest of the line
  (`WordsFound`).  For the log, a shift in progress stands for the shifted history
  (`ShiftView`), which every iteration leaves as it is.
* **VfsProofs.**  `MemoryOwned` is inductive together with the shape of the tables and
  two facts of a node: its size is at most its capacity, and a node without a block has
  capacity 0.  `Contents` (every byte written is below the size and in the block) needs
  `MemoryOwned`, since a write to one file must not touch another's block.  Hence
  `BlocksAreOwned`, `BytesAreKept` and, as an action property, `FailuresLeaveNothing`.
  This part takes nothing from path resolution but that it finds a live node, which
  the model guards (`Dangles`).
  The second part is the tree (`TInv`).  `Tree`: the parent of every node but the root is a
  live directory that has it among its children once; every nonempty set of such nodes has
  one whose parent is not in it, so every way up ends at the root (`Acyclic`); no directory
  has two children of one name, unless the name was cut short.  `Pointing` types `cwd`
  and the descriptors' pointers, which may be to where a node was, and
  `OnlyRemovalDangles`, itself a conjunct of `TInv`, says that they are so only once a node
  has been removed while it was pointed at.
  `AlwaysATree`, `NothingElseDangles` and `TypeCorrect` follow.  `PathsLeadBack` is an
  induction up the tree: `GetPath` and `Walk` are recursive functions, and that they
  satisfy their equations is proved first (`RecursionWorks`: a solution exists, by induction
  over its domain; `RecursionIsUnique`), so that a path's last component is looked for in the
  directory its other components lead to.  `ClimbsToParents` and `StopsInTime` say what
  the climb of at most `MAX_DEPTH` levels leaves in `parts`, whatever the tree's depth.
* **ConsoleProofs.**  `Inv` says that the frame buffer is one that was granted and that
  a word that is not the initial one lies in it.  Every function of `fb.c` keeps it, for all
  coordinates, sums that wrap included (`Confined`).  `ScreenImplemented` is the
  refinement of `Screen`, assuming `DrawingFits`: what the loops over a glyph, a text
  and a copy leave in memory is found by induction over their iterations (`CharPaints`,
  `TextPaints`, `MemcpyCopies`, the last for a copy to a lower address, forward), and that
  pixels and addresses correspond one to one (`Apart`) turns it into pixels.

Assumptions, all named in the modules: at least one page may exist or none; request
lengths are natural numbers; a heap of at least one header; at least two slots and
stacks of at least one page; an interval shorter than a round of the low word, and
sleeps shorter than that (71 minutes); a clock range whose maximum fits in 32 bits; a line of at least one character and a history of at least
one entry; reads and writes of at least one byte.  The code's own assumptions that the
models share: one caller at a time in `page_alloc` and in the heap, sizes far from
`SIZE_MAX`, callers free what they hold and once.

Also: VideoCore grants of at least one pixel, in rows at least as long as the screen is
wide, inside physical memory; the device tree and the paths of names that exist, the
devices' own names short enough not to be cut; and, as the hypothesis of
`ScreenImplemented` only, `DrawingFits`.

Only model-checked:

* liveness (`CallsReturn` of `Heap` and of `Power`, `EveryTaskRuns`, `DeadStacksFreed`,
  `PromptReturns`): TLAPS does not reason about fairness and ENABLED here.

Every other property of a passing run is the subject of a theorem.  The two findings
(`PowersaveIsSlower`, `NeighbourKept`) are counterexamples and need none.  Induction is over
numbers, by the least counterexample (`LeastExists`, `UpTo`): the prover takes no
induction scheme, and no lemma here has an operator as a parameter.

## Not modelled

* **Number conversions and formatting** (`utoa`, `itoa`, `strtol`, `printf`'s directives):
  no decision depends on their text, except the addresses and lengths of `peek`, which
  reads whatever it is told to and may fault (`Fault` of `Shell`).  The string functions are modelled where the callers use
  them (`Enter` and `Shift` of `Shell`, `Memcpy` and `Memset` of `Console`) and, for
  `strncpy`, alone.
* **UART and GPIO**: sequences of register writes, and polls of one flag.  `uart_getc` is
  the user's key in `Shell`.
* **Boot and `kernel_main`**: one straight line of initialisations.  What it leaves
  (cleared `.bss`, the reads of clock ranges, the frame buffer) is in the `Init` of the
  modules and in `FbInit`.
* **Interrupt enabling**: `irq_init`, `irq_enable` and `irq_disable` are register writes,
  made once for the timer; entry to and return from the exceptions are in `Task`.  The
  handlers of unexpected exceptions print and loop: `Fault` of `Shell`, `panicked` of `Task`.
* **In the VFS**, times and permissions, which decide nothing, and the text of `/proc`.
* **Depths other than 32 bits**, and `fb_scroll_up` by more lines than the screen has.
* **Wrapping at 2^32 or 2^64 bytes or ids** (`ALIGN` near `SIZE_MAX`, `kcalloc`'s product,
  `next_id`, files of 4 GB): nothing in the tree comes near.  Where the code may
  come near, the models wrap: `Timer`'s registers, `Power`'s rates, `Console`'s sums.

## Plan

1. `Vfs`: kmalloc as an instance of `HeapSpec`; an abstract file system that
   it implements as long as nothing dangles.
2. `Irq`: the enable registers, and which interrupts reach which handler.
3. Proofs: that `Task`'s use of `PageSpec` is what `PageAlloc` implements end to end, and of
   the abstract file system of step 1.
