----------------------------- MODULE TimerProofs -----------------------------
(***************************************************************************)
(* Timer's properties for every width of the counter, tick interval and    *)
(* delay.  The inductive invariant follows a reader from register to       *)
(* register (Reading), a sleeper from reading to reading (Sleeping), and   *)
(* the match from one interrupt to the next (Matching).                    *)
(***************************************************************************)
EXTENDS Timer, TLAPS

\* The count was read truly, between the call and now.
TrueValue == Leq(call, Value) /\ Leq(Value, Now)

\* A call began in the past, less than one wrap of lo ago; what it has read
\* of hi is not from before the call; once hi has been seen to change, it
\* does not change again before the call returns.
Reading ==
  pc # "idle" =>
    /\ Leq(call, Now) /\ ~ Leq(Plus(call, WRAP), Now)
    /\ pc \in {"lo", "check"} => call[1] <= hi /\ hi <= chi
    /\ pc = "check" /\ hi = chi => TrueValue
    /\ pc = "hi2" => chi = call[1] + 1
    /\ pc = "lo2" => hi = call[1] + 1 /\ chi = hi
    /\ pc = "ret" => TrueValue

\* timer_sleep's readings come after its call, and its target lies a full
\* delay after it.
Sleeping ==
  pc # "idle" =>
    /\ caller # "plain" => Leq(sleep0, call)
    /\ caller = "loop" => Leq(Plus(sleep0, ms), target)

\* The distance to the match shrinks as age grows, and they sum up to the
\* interval, from the handler's write of C1 to the match.
Matching ==
  /\ irq # "off" => Ahead(clo, cur) = age /\ age < TICK_INTERVAL /\ system_ticks > 0
  /\ irq = "ack" => c1 = Later(cur, TICK_INTERVAL)
  /\ irq = "off" /\ ~ m1 => Ahead(c1, clo) = TICK_INTERVAL - age /\ age < TICK_INTERVAL
  /\ irq = "off" /\ m1 /\ system_ticks > 0 => age = TICK_INTERVAL

IInv == TypeOK /\ Reading /\ Sleeping /\ Matching

-----------------------------------------------------------------------------
LEMMA LeqTransitive ==
  ASSUME NEW a \in Nat \X Word, NEW b \in Nat \X Word, NEW c \in Nat \X Word,
         Leq(a, b), Leq(b, c)
  PROVE  Leq(a, c)
BY DEF Leq, Word

LEMMA PlusType ==
  ASSUME NEW a \in Nat \X Word, NEW d \in 0 .. WRAP
  PROVE  Plus(a, d) \in Nat \X Word
BY TimerAssumption DEF Plus, Word

LEMMA PlusMonotone ==
  ASSUME NEW a \in Nat \X Word, NEW b \in Nat \X Word, NEW d \in 0 .. WRAP, Leq(a, b)
  PROVE  Leq(Plus(a, d), Plus(b, d))
BY TimerAssumption DEF Plus, Leq, Word

\* The count after one step of the device.
LEMMA TomorrowIs ==
  ASSUME chi \in Nat, clo \in Word
  PROVE  /\ Tomorrow[1] \in Nat /\ Tomorrow[2] \in Word
         /\ Tomorrow = IF clo + 1 < WRAP THEN <<chi, clo + 1>> ELSE <<chi + 1, 0>>
         /\ Leq(Now, Tomorrow)
BY TimerAssumption DEF Tomorrow, Now, Plus, Leq, Word

\* The state after timer_init satisfies the inductive invariant.
THEOREM InitEstablishes == Init => IInv
<1> SUFFICES ASSUME Init PROVE IInv
  OBVIOUS
<1>1. TypeOK
  BY TimerAssumption DEF Init, TypeOK, Word, Later
<1>2. Reading /\ Sleeping
  BY DEF Init, Reading, Sleeping
<1>3. Matching
  BY TimerAssumption DEF Init, Matching, Later, Ahead
<1> QED
  BY <1>1, <1>2, <1>3 DEF IInv

-----------------------------------------------------------------------------
\* The device counts.
LEMMA CountPreserves ==
  ASSUME IInv, Count
  PROVE  IInv'
<1> USE DEF IInv
<1>1. /\ chi \in Nat /\ clo \in Word /\ Tomorrow[1] \in Nat /\ Tomorrow[2] \in Word
      /\ Tomorrow = IF clo + 1 < WRAP THEN <<chi, clo + 1>> ELSE <<chi + 1, 0>>
      /\ Leq(Now, Tomorrow)
  BY TomorrowIs DEF TypeOK
<1>2. /\ chi' = Tomorrow[1] /\ clo' = Tomorrow[2]
      /\ m1' = (m1 \/ clo' = c1)
      /\ age' = IF age < TICK_INTERVAL THEN age + 1 ELSE age
      /\ UNCHANGED <<c1, system_ticks, irq, cur, pc, hi, lo, caller, target, ms, call, sleep0>>
      /\ irq # "off" => age + 1 < TICK_INTERVAL
      /\ pc # "idle" => ~ Leq(Plus(call, WRAP), Tomorrow)
  BY DEF Count, reader
<1>3. Now' = Tomorrow
  BY <1>1, <1>2 DEF Now
<1>4. TypeOK'
  BY <1>1, <1>2, TimerAssumption DEF TypeOK
<1>5. Reading'
  <2> SUFFICES ASSUME pc # "idle" PROVE Reading'
    BY <1>2 DEF Reading
  <2>1. call \in Nat \X Word /\ Now \in Nat \X Word /\ Tomorrow \in Nat \X Word
        /\ hi \in Nat /\ lo \in Word
    BY <1>1 DEF TypeOK, Now
  <2>2. Leq(call, Now) /\ Leq(call, Tomorrow)
    BY <1>1, <2>1, LeqTransitive DEF Reading
  <2>3. TrueValue => TrueValue'
    <3>1. Value \in Nat \X Word /\ Value' = Value /\ call' = call
      BY <1>2, <2>1 DEF Value
    <3> QED
      BY <1>1, <1>3, <2>1, <3>1, LeqTransitive DEF TrueValue
  <2>4. chi' >= chi
    BY <1>1, <1>2
  <2>5. pc = "check" /\ hi = chi' => TrueValue'
    <3>1. pc = "check" /\ hi = chi' => hi = chi
      BY <1>1, <1>2, <2>1, <2>4 DEF Reading
    <3> QED
      BY <2>3, <3>1 DEF Reading
  <2>6. chi = call[1] + 1 => chi' = chi
    <3>1. ~ Leq(Plus(call, WRAP), Tomorrow)
      BY <1>2
    <3>2. Plus(call, WRAP) = <<call[1] + 1, call[2]>>
      BY <2>1, TimerAssumption DEF Plus, Word
    <3> QED
      BY <1>1, <1>2, <2>1, <3>1, <3>2, TimerAssumption DEF Leq, Word
  <2>7. pc \in {"lo", "check"} => call[1] <= hi /\ hi <= chi'
    BY <1>1, <1>2, <2>1, <2>4 DEF Reading
  <2>8. pc \in {"hi2", "lo2"} => chi' = chi
    BY <2>6 DEF Reading
  <2> QED
    BY <1>2, <1>3, <2>2, <2>3, <2>5, <2>7, <2>8 DEF Reading
<1>6. Sleeping'
  BY <1>2 DEF Sleeping
<1>7. Matching'
  <2>1. irq # "off" => Ahead(clo', cur) = age'
    BY <1>1, <1>2, TimerAssumption DEF Matching, TypeOK, Ahead, Word
  <2>2. ASSUME irq = "off", ~ m1'
        PROVE  Ahead(c1, clo') = TICK_INTERVAL - age' /\ age' < TICK_INTERVAL
    <3>1. ~ m1 /\ clo' # c1
      BY <1>2, <2>2
    <3>2. Ahead(c1, clo) = TICK_INTERVAL - age /\ age < TICK_INTERVAL
      BY <2>2, <3>1 DEF Matching
    <3>3. Ahead(c1, clo') = Ahead(c1, clo) - 1 /\ Ahead(c1, clo) > 1
      BY <1>1, <1>2, <3>1, <3>2, TimerAssumption DEF TypeOK, Ahead, Word
    <3>4. age' = age + 1
      BY <1>2, <3>2
    <3> QED
      BY <3>2, <3>3, <3>4, TimerAssumption DEF TypeOK
  <2>3. irq = "off" /\ m1' /\ system_ticks > 0 => age' = TICK_INTERVAL
    BY <1>1, <1>2, TimerAssumption DEF Matching, TypeOK, Ahead, Word
  <2>4. irq # "off" => age' < TICK_INTERVAL
    BY <1>2, TimerAssumption DEF TypeOK
  <2> QED
    BY <1>2, <2>1, <2>2, <2>3, <2>4 DEF Matching
<1> QED
  BY <1>4, <1>5, <1>6, <1>7

\* timer_handle_irq.
LEMMA HandlerPreserves ==
  ASSUME IInv, Handler
  PROVE  IInv'
<1> USE TimerAssumption DEF IInv
<1>1. UNCHANGED <<chi, clo, pc, hi, lo, caller, target, ms, call, sleep0>>
  BY DEF Handler, HandleIrq, Arm, Ack, device, reader
<1>2. Reading' /\ Sleeping'
  BY <1>1 DEF Reading, Sleeping, TrueValue, Now, Value
<1>3. CASE HandleIrq
  <2>1. TypeOK'
    BY <1>1, <1>3 DEF HandleIrq, TypeOK
  <2>2. Matching'
    BY <1>1, <1>3 DEF HandleIrq, TypeOK, Matching, Ahead, Word
  <2> QED
    BY <1>2, <2>1, <2>2
<1>4. CASE Arm
  <2>1. TypeOK'
    BY <1>1, <1>4 DEF Arm, TypeOK, Later, Word
  <2>2. Matching'
    BY <1>1, <1>4 DEF Arm, Matching
  <2> QED
    BY <1>2, <2>1, <2>2
<1>5. CASE Ack
  <2>1. TypeOK'
    BY <1>1, <1>5 DEF Ack, TypeOK
  <2>2. Matching'
    BY <1>1, <1>5 DEF Ack, TypeOK, Matching, Ahead, Later, Word
  <2> QED
    BY <1>2, <2>1, <2>2
<1> QED
  BY <1>3, <1>4, <1>5 DEF Handler

\* timer_get_ticks, from its call to its return.
LEMMA ReadPreserves ==
  ASSUME IInv, Read
  PROVE  IInv'
<1> USE TimerAssumption DEF IInv
<1>1. UNCHANGED <<chi, clo, c1, m1, system_ticks, irq, cur, age, target, ms, sleep0>>
  BY DEF Read, GetTicks, ReadHi, ReadLo, Check, RereadHi, RereadLo, ReturnTicks, device, handler
<1>2. Matching'
  BY <1>1 DEF Matching
<1>3. TypeOK'
  BY <1>1 DEF Read, GetTicks, Begin, ReadHi, ReadLo, Check, RereadHi, RereadLo, ReturnTicks,
     TypeOK, Now
<1>4. Now' = Now
  BY <1>1 DEF Now
<1>5. Leq(Now, Now)
  BY DEF Leq, Now, TypeOK, Word
<1>6. Sleeping'
  BY <1>1 DEF Sleeping, Read, GetTicks, Begin, ReadHi, ReadLo, Check, RereadHi, RereadLo,
     ReturnTicks, At
<1>7. Reading'
  <2>1. CASE GetTicks
    BY <1>1, <1>4, <2>1 DEF GetTicks, Begin, Reading, TypeOK, Leq, Plus, Now, Word
  <2>2. CASE ReadHi
    BY <1>1, <1>4, <2>2 DEF ReadHi, At, Reading, TypeOK, Leq, Now
  <2>3. CASE ReadLo
    <3>1. /\ pc = "lo" /\ pc' = "check" /\ hi' = hi /\ lo' = clo /\ call' = call /\ chi' = chi
      BY <1>1, <2>3 DEF ReadLo, At
    <3>2. Leq(call, Now) /\ call[1] <= hi /\ hi <= chi /\ ~ Leq(Plus(call, WRAP), Now)
      BY <3>1 DEF Reading
    <3>3. hi = chi => Value' = Now
      BY <3>1 DEF Value, Now
    <3>4. hi = chi => TrueValue'
      BY <1>4, <1>5, <3>1, <3>2, <3>3 DEF TrueValue
    <3> QED
      BY <1>4, <3>1, <3>2, <3>4 DEF Reading
  <2>4. CASE Check
    <3>1. pc = "check" /\ UNCHANGED <<hi, lo, call, chi>> /\ Value' = Value
      BY <1>1, <2>4 DEF Check, At, Value
    <3>2. CASE hi = chi
      BY <1>4, <2>4, <3>1, <3>2 DEF Check, Reading, TrueValue
    <3>3. CASE hi # chi
      <4>1. chi = call[1] + 1
        BY <3>1, <3>3 DEF Reading, TypeOK, Leq, Plus, Now, Word
      <4> QED
        BY <1>4, <2>4, <3>1, <3>3, <4>1 DEF Check, Reading
    <3> QED
      BY <3>2, <3>3
  <2>5. CASE RereadHi
    BY <1>1, <1>4, <2>5 DEF RereadHi, At, Reading
  <2>6. CASE RereadLo
    <3>1. /\ pc = "lo2" /\ pc' = "ret" /\ hi' = hi /\ lo' = clo /\ call' = call /\ chi' = chi
      BY <1>1, <2>6 DEF RereadLo, At
    <3>2. Leq(call, Now) /\ ~ Leq(Plus(call, WRAP), Now) /\ chi = hi
      BY <3>1 DEF Reading
    <3>3. Value' = Now
      BY <3>1, <3>2 DEF Value, Now
    <3>4. TrueValue'
      BY <1>4, <1>5, <3>1, <3>2, <3>3 DEF TrueValue
    <3> QED
      BY <1>4, <3>1, <3>2, <3>4 DEF Reading
  <2>7. CASE ReturnTicks
    BY <2>7 DEF ReturnTicks, Reading
  <2> QED
    BY <2>1, <2>2, <2>3, <2>4, <2>5, <2>6, <2>7 DEF Read
<1> QED
  BY <1>2, <1>3, <1>6, <1>7

\* timer_sleep: each reading begins anew, after the one before.
LEMMA SleepPreserves ==
  ASSUME IInv, Sleep
  PROVE  IInv'
<1> USE TimerAssumption DEF IInv
<1>1. UNCHANGED <<chi, clo, c1, m1, system_ticks, irq, cur, age, hi, lo>>
  BY DEF Sleep, SleepCall, SleepTarget, SleepAgain, SleepReturn, device, handler
<1>2. Matching'
  BY <1>1 DEF Matching
<1>3. Now' = Now /\ Now \in Nat \X Word /\ Value \in Nat \X Word
  BY <1>1 DEF Now, Value, TypeOK
<1>4. TypeOK'
  <2>1. CASE SleepTarget
    <3>1. target' \in Nat \X Word
      BY <1>3, <2>1, PlusType DEF SleepTarget, TypeOK, Word
    <3> QED
      BY <1>1, <1>3, <2>1, <3>1 DEF SleepTarget, Begin, TypeOK
  <2>2. CASE ~ SleepTarget
    BY <1>1, <1>3, <2>2 DEF Sleep, SleepCall, SleepAgain, SleepReturn, Begin, TypeOK, Word
  <2> QED
    BY <2>1, <2>2
<1>5. Reading'
  <2>1. CASE SleepReturn
    BY <2>1 DEF SleepReturn, Reading
  <2>2. CASE ~ SleepReturn
    <3>1. pc' = "hi" /\ call' = Now
      BY <2>2 DEF Sleep, SleepCall, SleepTarget, SleepAgain, Begin
    <3> QED
      BY <1>3, <3>1 DEF Reading, Leq, Plus, Word
  <2> QED
    BY <2>1, <2>2
<1>6. Sleeping'
  <2>1. CASE SleepReturn
    BY <2>1 DEF SleepReturn, Sleeping
  <2>2. CASE \E d \in Delays : SleepCall(d)
    BY <1>3, <2>2 DEF SleepCall, Begin, Sleeping, Leq, Word
  <2>3. CASE SleepTarget \/ SleepAgain
    <3>1. /\ pc = "ret" /\ caller # "plain" /\ call' = Now /\ sleep0' = sleep0 /\ ms' = ms
          /\ pc' = "hi" /\ caller' = "loop"
      BY <2>3 DEF SleepTarget, SleepAgain, At, Begin
    <3>2. Leq(sleep0, call) /\ Leq(call, Value) /\ Leq(Value, Now)
      BY <3>1 DEF Sleeping, Reading, TrueValue
    <3>3. call \in Nat \X Word /\ sleep0 \in Nat \X Word /\ ms \in 0 .. WRAP
      BY DEF TypeOK, Word
    <3>4. Leq(sleep0, Value) /\ Leq(sleep0, Now)
      <4>1. Leq(sleep0, Value)
        BY <1>3, <3>2, <3>3, LeqTransitive
      <4> QED
        BY <1>3, <3>2, <3>3, <4>1, LeqTransitive
    <3>5. Leq(Plus(sleep0, ms), target')
      <4>1. CASE SleepTarget
        BY <1>3, <3>3, <3>4, <4>1, PlusMonotone DEF SleepTarget
      <4>2. CASE SleepAgain
        BY <4>2 DEF SleepAgain, At, Sleeping
      <4> QED
        BY <2>3, <4>1, <4>2
    <3> QED
      BY <3>1, <3>4, <3>5 DEF Sleeping
  <2> QED
    BY <2>1, <2>2, <2>3 DEF Sleep
<1> QED
  BY <1>2, <1>4, <1>5, <1>6

\* Every step of the counter, the handler, a reader or a sleeper keeps the invariant.
THEOREM StepPreserves == IInv /\ [Next]_vars => IInv'
<1> SUFFICES ASSUME IInv, [Next]_vars PROVE IInv'
  OBVIOUS
<1>1. CASE UNCHANGED vars
  BY <1>1 DEF vars, device, handler, reader, IInv, TypeOK, Reading, Sleeping, Matching,
     TrueValue, Now, Value
<1> QED
  BY <1>1, CountPreserves, HandlerPreserves, ReadPreserves, SleepPreserves DEF Next

\* The inductive invariant holds in every state of timer.c.
THEOREM Invariance == Spec => []IInv
BY InitEstablishes, StepPreserves, PTL DEF Spec

\* The registers and variables keep their 32-bit ranges.
THEOREM TypeCorrect == Spec => []TypeOK
<1>1. IInv => TypeOK
  BY DEF IInv
<1> QED
  BY <1>1, Invariance, PTL

\* timer_get_ticks returns a value the count had during the call, for every
\* width of the counter.
THEOREM TicksAreTrue == Spec => []ReadsTrue
<1>1. IInv => ReadsTrue
  BY DEF IInv, Reading, TrueValue, ReadsTrue
<1> QED
  BY <1>1, Invariance, PTL

\* timer_sleep sleeps at least as long as asked.
THEOREM SleepIsLong == Spec => []SleepLasts
<1>1. IInv => SleepLasts
  <2> SUFFICES ASSUME IInv, SleepOver PROVE Leq(Plus(sleep0, ms), Now)
    BY DEF SleepLasts
  <2>1. /\ Leq(Plus(sleep0, ms), target) /\ Leq(target, Value) /\ Leq(Value, Now)
    BY DEF IInv, SleepOver, Reached, Sleeping, Reading, TrueValue
  <2>2. /\ sleep0 \in Nat \X Word /\ ms \in 0 .. WRAP /\ target \in Nat \X Word
        /\ Value \in Nat \X Word /\ Now \in Nat \X Word
    BY TimerAssumption DEF IInv, TypeOK, Word, Value, Now
  <2>3. Plus(sleep0, ms) \in Nat \X Word
    BY <2>2, PlusType
  <2>4. Leq(target, Now)
    BY <2>1, <2>2, LeqTransitive
  <2> QED
    BY <2>1, <2>2, <2>3, <2>4, LeqTransitive
<1> QED
  BY <1>1, Invariance, PTL

\* A match always lies ahead of the count between two interrupts.
THEOREM MatchAhead == Spec => []AlwaysArmed
<1>1. IInv => AlwaysArmed
  BY TimerAssumption DEF IInv, TypeOK, Matching, AlwaysArmed
<1> QED
  BY <1>1, Invariance, PTL

\* Ticks are at least an interval apart.
THEOREM TicksApart == Spec => NoEarlyTick
<1>1. IInv /\ [Next]_vars =>
        [system_ticks' # system_ticks /\ system_ticks > 0 => age = TICK_INTERVAL]_vars
  BY DEF IInv, Matching, Next, Count, Handler, HandleIrq, Arm, Ack, Read, GetTicks, ReadHi,
     ReadLo, Check, RereadHi, RereadLo, ReturnTicks, Sleep, SleepCall, SleepTarget, SleepAgain,
     SleepReturn, handler
<1> QED
  BY <1>1, Invariance, PTL DEF Spec, NoEarlyTick
=============================================================================
