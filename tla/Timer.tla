------------------------------- MODULE Timer --------------------------------
(***************************************************************************)
(* drivers/timer.c: a 64-bit count that can only be read 32 bits at a      *)
(* time, and a compare register that the handler re-arms.                  *)
(*                                                                         *)
(* One action is one access to the timer's registers, or what the code     *)
(* does between two.  A reader (timer_get_ticks, on its own or from        *)
(* timer_sleep) can be interrupted anywhere, for as long as the handler    *)
(* and the tasks it may dispatch take.  The count is the pair <<hi, lo>>.  *)
(***************************************************************************)
EXTENDS Integers

CONSTANTS
  WRAP,            \* 2^32: lo counts modulo this
  TICK_INTERVAL,   \* how far ahead the handler sets the compare register
  Delays,          \* the values of ms * 1000 callers of timer_sleep pass
  MaxHi            \* bound: hi stops here

ASSUME TimerAssumption ==
  /\ WRAP \in Nat
  /\ TICK_INTERVAL \in Nat /\ 0 < TICK_INTERVAL /\ TICK_INTERVAL < WRAP
  /\ Delays \subseteq 0 .. (WRAP - 1)
  /\ MaxHi \in Nat

VARIABLES
  chi, clo,        \* TIMER_CHI, TIMER_CLO
  c1, m1,          \* TIMER_C1; TIMER_CS_M1, the pending match
  system_ticks,
  irq, cur,        \* where timer_handle_irq is: off, arm, ack; its local
  pc,              \* where timer_get_ticks is: idle, hi, lo, check, hi2, lo2, ret
  hi, lo,          \* its locals
  caller,          \* who called it: plain, or timer_sleep for its target or in its loop
  target, ms,      \* timer_sleep's local and argument
  call, sleep0,    \* history: the count when timer_get_ticks, timer_sleep was called
  age              \* history: counts since TIMER_CLO was last read to set
                   \* TIMER_C1, as far as TICK_INTERVAL

device == <<chi, clo>>
handler == <<c1, m1, system_ticks, irq, cur, age>>
reader == <<pc, hi, lo, caller, target, ms, call, sleep0>>
vars == <<device, handler, reader>>

\* 64-bit numbers as pairs, and d \in 0 .. WRAP.
Leq(a, b) == a[1] < b[1] \/ (a[1] = b[1] /\ a[2] <= b[2])
Plus(a, d) == IF a[2] + d < WRAP THEN <<a[1], a[2] + d>> ELSE <<a[1] + 1, a[2] + d - WRAP>>

Now == <<chi, clo>>
Value == <<hi, lo>>

\* 32-bit sums and differences.
Later(a, d) == IF a + d < WRAP THEN a + d ELSE a + d - WRAP
Ahead(a, b) == IF a >= b THEN a - b ELSE a - b + WRAP
-----------------------------------------------------------------------------
\* After timer_init: the match is set one interval ahead, and M1, which
\* timer_init leaves alone, may be pending from before.
Init ==
  /\ chi = 0 /\ clo \in 0 .. (WRAP - 1)
  /\ c1 = Later(clo, TICK_INTERVAL)
  /\ m1 \in BOOLEAN
  /\ system_ticks = 0
  /\ irq = "off" /\ cur = 0 /\ age = 0
  /\ pc = "idle" /\ hi = 0 /\ lo = 0 /\ caller = "plain"
  /\ target = <<0, 0>> /\ ms = 0 /\ call = <<0, 0>> /\ sleep0 = <<0, 0>>

Tomorrow == Plus(Now, 1)

(***************************************************************************)
(* The device counts, and M1 is set when lo meets C1.  Two bounds are the  *)
(* program's timing assumptions: timer_handle_irq takes less than an       *)
(* interval (10 ms), and timer_get_ticks returns, whatever interrupts it,  *)
(* before lo comes round again (71 minutes).                               *)
(***************************************************************************)
Count ==
  /\ chi < MaxHi \/ clo < WRAP - 1
  /\ irq # "off" => age + 1 < TICK_INTERVAL
  /\ pc # "idle" => ~ Leq(Plus(call, WRAP), Tomorrow)
  /\ chi' = Tomorrow[1] /\ clo' = Tomorrow[2]
  /\ m1' = (m1 \/ clo' = c1)
  /\ age' = IF age < TICK_INTERVAL THEN age + 1 ELSE age
  /\ UNCHANGED <<c1, system_ticks, irq, cur, reader>>
-----------------------------------------------------------------------------
\* The interrupt is taken: timer_handle_irq counts it and reads TIMER_CLO.
HandleIrq ==
  /\ irq = "off" /\ m1
  /\ system_ticks' = system_ticks + 1
  /\ cur' = clo /\ age' = 0
  /\ irq' = "arm"
  /\ UNCHANGED <<device, c1, m1, reader>>

\* TIMER_C1 is 32 bits wide.  NoWrap: as if it were not; FromCompare: set
\* relative to the last match, as drivers that want no drift do.
ArmNoWrap ==
  /\ irq = "arm"
  /\ c1' = cur + TICK_INTERVAL
  /\ irq' = "ack"
  /\ UNCHANGED <<device, m1, system_ticks, cur, age, reader>>

ArmFromCompare ==
  /\ irq = "arm"
  /\ c1' = Later(c1, TICK_INTERVAL)
  /\ irq' = "ack"
  /\ UNCHANGED <<device, m1, system_ticks, cur, age, reader>>

Arm ==
  /\ irq = "arm"
  /\ c1' = Later(cur, TICK_INTERVAL)
  /\ irq' = "ack"
  /\ UNCHANGED <<device, m1, system_ticks, cur, age, reader>>

\* Returns with the match still pending.
AckForgotten ==
  /\ irq = "ack"
  /\ irq' = "off"
  /\ UNCHANGED <<device, c1, m1, system_ticks, cur, age, reader>>

Ack ==
  /\ irq = "ack"
  /\ m1' = FALSE
  /\ irq' = "off"
  /\ UNCHANGED <<device, c1, system_ticks, cur, age, reader>>
-----------------------------------------------------------------------------
\* The reader runs when the handler does not.
At(l) == irq = "off" /\ pc = l

Begin(who) ==
  /\ pc' = "hi" /\ caller' = who
  /\ call' = Now

GetTicks ==
  /\ At("idle")
  /\ Begin("plain")
  /\ UNCHANGED <<device, handler, hi, lo, target, ms, sleep0>>

ReadHi ==
  /\ At("hi")
  /\ hi' = chi
  /\ pc' = "lo"
  /\ UNCHANGED <<device, handler, lo, caller, target, ms, call, sleep0>>

ReadLo ==
  /\ At("lo")
  /\ lo' = clo
  /\ pc' = "check"
  /\ UNCHANGED <<device, handler, hi, caller, target, ms, call, sleep0>>

\* Without the test that hi has not changed.
CheckNothing ==
  /\ At("check")
  /\ pc' = "ret"
  /\ UNCHANGED <<device, handler, hi, lo, caller, target, ms, call, sleep0>>

Check ==
  /\ At("check")
  /\ pc' = IF hi # chi THEN "hi2" ELSE "ret"
  /\ UNCHANGED <<device, handler, hi, lo, caller, target, ms, call, sleep0>>

RereadHi ==
  /\ At("hi2")
  /\ hi' = chi
  /\ pc' = "lo2"
  /\ UNCHANGED <<device, handler, lo, caller, target, ms, call, sleep0>>

RereadLo ==
  /\ At("lo2")
  /\ lo' = clo
  /\ pc' = "ret"
  /\ UNCHANGED <<device, handler, hi, caller, target, ms, call, sleep0>>

\* timer_get_ticks returns to a caller that only wanted to know.
ReturnTicks ==
  /\ At("ret") /\ caller = "plain"
  /\ pc' = "idle"
  /\ UNCHANGED <<device, handler, hi, lo, caller, target, ms, call, sleep0>>
-----------------------------------------------------------------------------
SleepCall(d) ==
  /\ At("idle")
  /\ Begin("target")
  /\ ms' = d /\ sleep0' = Now
  /\ UNCHANGED <<device, handler, hi, lo, target>>

SleepTarget ==
  /\ At("ret") /\ caller = "target"
  /\ target' = Plus(Value, ms)
  /\ Begin("loop")
  /\ UNCHANGED <<device, handler, hi, lo, ms, sleep0>>

\* Has the loop's reading reached the target?  LowWord: in 32 bits.
ReachedLowWord == lo >= target[2]
Reached == Leq(target, Value)

SleepAgain ==
  /\ At("ret") /\ caller = "loop" /\ ~ Reached
  /\ Begin("loop")
  /\ UNCHANGED <<device, handler, hi, lo, target, ms, sleep0>>

\* timer_sleep is about to return.
SleepOver == pc = "ret" /\ caller = "loop" /\ Reached

SleepReturn ==
  /\ At("ret") /\ SleepOver
  /\ pc' = "idle"
  /\ UNCHANGED <<device, handler, hi, lo, caller, target, ms, call, sleep0>>

Handler == HandleIrq \/ Arm \/ Ack
Read == GetTicks \/ ReadHi \/ ReadLo \/ Check \/ RereadHi \/ RereadLo \/ ReturnTicks
Sleep == (\E d \in Delays : SleepCall(d)) \/ SleepTarget \/ SleepAgain \/ SleepReturn

Next == Count \/ Handler \/ Read \/ Sleep

Spec == Init /\ [][Next]_vars
-----------------------------------------------------------------------------
Word == 0 .. (WRAP - 1)
TypeOK ==
  /\ chi \in Nat /\ clo \in Word
  /\ c1 \in Word /\ m1 \in BOOLEAN
  /\ system_ticks \in Nat
  /\ irq \in {"off", "arm", "ack"} /\ cur \in Word
  /\ age \in 0 .. TICK_INTERVAL
  /\ pc \in {"idle", "hi", "lo", "check", "hi2", "lo2", "ret"}
  /\ hi \in Nat /\ lo \in Word
  /\ caller \in {"plain", "target", "loop"}
  /\ target \in Nat \X Word /\ ms \in Word
  /\ call \in Nat \X Word /\ sleep0 \in Nat \X Word

(***************************************************************************)
(* What timer_get_ticks returns is what the count was at some moment       *)
(* between its call and its return, though lo wraps, and interrupts come,  *)
(* between any two of its reads (timer.c:13-21).                           *)
(***************************************************************************)
ReadsTrue == pc = "ret" => Leq(call, Value) /\ Leq(Value, Now)

\* timer_sleep never returns early (timer.c:23-28).
SleepLasts == SleepOver => Leq(Plus(sleep0, ms), Now)

(***************************************************************************)
(* Between two interrupts a match always lies ahead, by an interval at     *)
(* most: however late an interrupt is taken, the next one is never lost to *)
(* a compare register that the count has already passed (timer.c:30-35).   *)
(***************************************************************************)
AlwaysArmed == irq = "off" /\ ~ m1 => Ahead(c1, clo) \in 1 .. TICK_INTERVAL

(***************************************************************************)
(* No tick comes less than an interval after the one before, so the uptime *)
(* never runs fast; the first may be one left over from before timer_init. *)
(***************************************************************************)
NoEarlyTick ==
  [][system_ticks' # system_ticks /\ system_ticks > 0 => age = TICK_INTERVAL]_vars
=============================================================================
