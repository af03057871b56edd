------------------------------- MODULE Power --------------------------------
(***************************************************************************)
(* drivers/mailbox.c and kernel/power.c: requests to the VideoCore, which  *)
(* owns the clocks, through one shared buffer and a queue of mails each    *)
(* way; and the performance profiles, two clock settings each.             *)
(*                                                                         *)
(* A mail is only the address of the buffer with a channel number: the     *)
(* request and its answer are in the buffer.  The queue to the ARM may     *)
(* hold mails of other channels, which mailbox_call reads and drops.       *)
(* Every operation is a list of calls; a call is Send, the VideoCore's     *)
(* answer whenever it likes, and a Poll per mail until the right one.      *)
(***************************************************************************)
EXTENDS Integers, Sequences

CONSTANTS
  MAX_ARM, MIN_ARM,    \* the ARM clock's range, as the VideoCore keeps it
  Rates,               \* what callers of power_set_arm_clock ask for
  WRAP,                \* 2^32, in the unit of the rates
  FIFO                 \* bound: the mails waiting for the ARM

ASSUME PowerAssumption ==
  /\ {MAX_ARM, MIN_ARM, WRAP, FIFO} \subseteq Nat
  /\ MIN_ARM <= MAX_ARM /\ MAX_ARM < WRAP /\ 500 < WRAP
  /\ Rates \subseteq 0 .. (WRAP - 1)

VARIABLES
  mbox,                \* the buffer: response code, tag, clock id, value
  toVC, fromVC,        \* the mails under way
  todo,                \* the calls still to make; the first one is under way
  waiting,             \* mailbox_call waits for its answer
  op,                  \* off before power_init, then idle, status, arm or a profile
  sys_power,           \* the fields anything depends on
  rate,                \* the VideoCore's clocks
  failed               \* history: the clocks whose last setting failed

mail == <<toVC, fromVC>>
cpu == <<todo, waiting, op, sys_power>>
vars == <<mbox, mail, cpu, rate, failed>>

Profiles == {"MAX", "BALANCED", "POWERSAVE"}
Clocks == {"ARM", "CORE"}

\* A call, the field of sys_power its answer goes to, if it is one, and what
\* SET asks for: the number arg, or what the profile being set says.
Call(tag, id, field, arg) == [tag |-> tag, id |-> id, field |-> field, arg |-> arg]
Info == Call("INFO", "ARM", "none", 0)

\* power_set_profile: the two rates, in MHz, from what power_init has read.
\* Three times the Raspberry Pi 4's 1500 MHz do not fit in 32 bits.
ProfileRate(s, p, id) ==
  IF id = "ARM"
    THEN [MAX |-> s.arm_max_clock,
          BALANCED |-> ((s.arm_max_clock * 3) % WRAP) \div 4,
          POWERSAVE |-> s.arm_min_clock][p]
    ELSE [MAX |-> 500, BALANCED |-> 400, POWERSAVE |-> 250][p]

\* Same: the ARM clock twice.
ProfileCallsSame == <<Call("SET", "ARM", "profile", 0), Call("SET", "ARM", "profile", 0)>>
ProfileCalls == <<Call("SET", "ARM", "profile", 0), Call("SET", "CORE", "profile", 0)>>
-----------------------------------------------------------------------------
\* The clocks run at some rate before anybody sets them.
Init ==
  /\ mbox = [code |-> "REQUEST", tag |-> "INFO", id |-> "ARM", val |-> 0]
  /\ toVC = <<>> /\ fromVC = <<>>
  /\ todo = <<>> /\ waiting = FALSE
  /\ op = "off"
  /\ sys_power = [arm_clock |-> 0, core_clock |-> 0, arm_max_clock |-> 0,
                  arm_min_clock |-> 0, current_profile |-> "MAX"]
  /\ rate \in [ARM : {MIN_ARM, MAX_ARM}, CORE : {400}]
  /\ failed = {}

Start(name, calls) ==
  /\ op' = name /\ todo' = calls
  /\ UNCHANGED <<mbox, mail, waiting, sys_power, rate, failed>>

\* The first Info stands for the board's revision, serial, memory and maximum
\* temperature.  Both clocks are asked for with GETMAXCLOCK.
PowerInit ==
  /\ op = "off"
  /\ Start("BALANCED",
           <<Info, Call("GETMAX", "ARM", "arm_max_clock", 0),
             Call("GETMAX", "ARM", "arm_min_clock", 0)>> \o ProfileCalls)

PowerSetProfile(p) == op = "idle" /\ Start(p, ProfileCalls)

PowerGetStatus ==
  /\ op = "idle"
  /\ Start("status", <<Info, Call("GET", "ARM", "arm_clock", 0),
                       Call("GET", "CORE", "core_clock", 0)>>)

PowerSetArmClock(r) == op = "idle" /\ Start("arm", <<Call("SET", "ARM", "none", r)>>)
-----------------------------------------------------------------------------
\* The mailbox functions' first half: fill the buffer and send its address.
\* Again: also while the answer is still to come, as an impatient retry does.
SendAgain ==
  /\ todo # <<>>
  /\ LET c == Head(todo) IN
       mbox' = [code |-> "REQUEST", tag |-> c.tag, id |-> c.id,
                val |-> IF c.field = "profile" THEN ProfileRate(sys_power, op, c.id) ELSE c.arg]
  /\ toVC' = Append(toVC, "PROP")
  /\ waiting' = TRUE
  /\ UNCHANGED <<fromVC, todo, op, sys_power, rate, failed>>

Send ==
  /\ todo # <<>> /\ ~ waiting
  /\ LET c == Head(todo) IN
       mbox' = [code |-> "REQUEST", tag |-> c.tag, id |-> c.id,
                val |-> IF c.field = "profile" THEN ProfileRate(sys_power, op, c.id) ELSE c.arg]
  /\ toVC' = Append(toVC, "PROP")
  /\ waiting' = TRUE
  /\ UNCHANGED <<fromVC, todo, op, sys_power, rate, failed>>

\* The call returns ok or not, with the buffer's value or with 0; after the
\* last one power_set_profile notes the profile, whatever has failed.
Returned(ok) ==
  LET c == Head(todo)
      s == IF c.field \in DOMAIN sys_power
             THEN [sys_power EXCEPT ![c.field] = IF ok THEN mbox.val ELSE 0]
             ELSE sys_power IN
  /\ todo' = Tail(todo) /\ waiting' = FALSE
  /\ op' = IF Tail(todo) = <<>> THEN "idle" ELSE op
  /\ sys_power' = IF Tail(todo) = <<>> /\ op \in Profiles
                    THEN [s EXCEPT !.current_profile = op] ELSE s
  /\ failed' = CASE c.tag # "SET" -> failed
                 [] c.tag = "SET" /\ ok -> failed \ {c.id}
                 [] c.tag = "SET" /\ ~ ok -> failed \cup {c.id}

\* Reads a mail: the answer ends the call, any other is dropped.  Any: takes
\* the first mail for the answer.  OnlyOthers: drops that too.
PollAny ==
  /\ waiting /\ fromVC # <<>>
  /\ fromVC' = Tail(fromVC)
  /\ Returned(mbox.code = "RESPONSE")
  /\ UNCHANGED <<mbox, toVC, rate>>

PollOnlyOthers ==
  /\ waiting /\ fromVC # <<>>
  /\ fromVC' = Tail(fromVC)
  /\ UNCHANGED <<mbox, toVC, cpu, rate, failed>>

Poll ==
  /\ waiting /\ fromVC # <<>>
  /\ fromVC' = Tail(fromVC)
  /\ IF Head(fromVC) = "PROP"
       THEN Returned(mbox.code = "RESPONSE")
       ELSE UNCHANGED <<cpu, failed>>
  /\ UNCHANGED <<mbox, toVC, rate>>
-----------------------------------------------------------------------------
\* The firmware keeps the ARM clock in its range.
Clamped(id, r) ==
  CASE id = "ARM" /\ r > MAX_ARM -> MAX_ARM
    [] id = "ARM" /\ r < MIN_ARM -> MIN_ARM
    [] OTHER -> r

\* The VideoCore does what the buffer says and answers in it...
Answer ==
  /\ toVC # <<>> /\ Len(fromVC) < FIFO
  /\ LET r == IF mbox.tag = "SET" THEN Clamped(mbox.id, mbox.val) ELSE rate[mbox.id] IN
       /\ rate' = [rate EXCEPT ![mbox.id] = r]
       /\ mbox' = [mbox EXCEPT !.code = "RESPONSE",
                               !.val = CASE mbox.tag = "INFO" -> 1
                                         [] mbox.tag = "GETMAX" -> MAX_ARM
                                         [] OTHER -> r]
  /\ toVC' = Tail(toVC) /\ fromVC' = Append(fromVC, Head(toVC))
  /\ UNCHANGED <<cpu, failed>>

\* ... or refuses it ...
AnswerError ==
  /\ toVC # <<>> /\ Len(fromVC) < FIFO
  /\ mbox' = [mbox EXCEPT !.code = "ERROR"]
  /\ toVC' = Tail(toVC) /\ fromVC' = Append(fromVC, Head(toVC))
  /\ UNCHANGED <<cpu, rate, failed>>

\* ... and sends mails of other channels, while there is room for the answer.
OtherMail ==
  /\ Len(fromVC) < FIFO - 1
  /\ fromVC' = Append(fromVC, "other")
  /\ UNCHANGED <<mbox, toVC, cpu, rate, failed>>

VideoCore == Answer \/ AnswerError
Operation ==
  \/ PowerInit \/ PowerGetStatus
  \/ \E p \in Profiles : PowerSetProfile(p)
  \/ \E r \in Rates : PowerSetArmClock(r)

Next == Operation \/ Send \/ Poll \/ VideoCore \/ OtherMail

Spec == Init /\ [][Next]_vars

\* The code polls for ever, and the VideoCore answers what it is sent.
FairSpec == Spec /\ WF_vars(Send) /\ WF_vars(Poll) /\ WF_vars(VideoCore)
-----------------------------------------------------------------------------
Mails == {"PROP", "other"}
TypeOK ==
  /\ mbox.code \in {"REQUEST", "RESPONSE", "ERROR"} /\ mbox.val \in 0 .. (WRAP - 1)
  /\ toVC \in Seq({"PROP"}) /\ Len(toVC) <= 1
  /\ fromVC \in Seq(Mails) /\ Len(fromVC) <= FIFO
  /\ Len(todo) <= 5 /\ waiting \in BOOLEAN
  /\ op \in {"off", "idle", "status", "arm"} \cup Profiles
  /\ (op \in {"off", "idle"}) <=> (todo = <<>>)
  /\ sys_power.arm_max_clock \in {0, MAX_ARM} /\ sys_power.current_profile \in Profiles
  /\ rate.ARM \in MIN_ARM .. MAX_ARM
  /\ failed \subseteq Clocks

(***************************************************************************)
(* From the mail to the VideoCore until its answer the buffer is not       *)
(* written, and the answer a call reads is the answer to its own request,  *)
(* whatever else is in the queue (mailbox.c:11-16): the buffer is one, and *)
(* the mails of two requests look the same.                                *)
(***************************************************************************)
BufferHandedOver ==
  /\ toVC # <<>> => waiting /\ mbox.code = "REQUEST"
  /\ waiting => /\ mbox.tag = Head(todo).tag /\ mbox.id = Head(todo).id
                /\ mbox.code = "REQUEST" <=> toVC # <<>>
                /\ (\E k \in DOMAIN fromVC : fromVC[k] = "PROP") <=> toVC = <<>>

(***************************************************************************)
(* Every call to the mailbox returns (mailbox.c:11-16), though the wait    *)
(* has no bound and other mails keep coming.                               *)
(***************************************************************************)
CallsReturn == waiting ~> ~ waiting

(***************************************************************************)
(* When power_set_profile returns, the profile it notes is the one asked   *)
(* for, and each clock whose setting the VideoCore did not refuse runs at  *)
(* what the noted profile asks for, as near as the clock's range allows,   *)
(* whatever the other call came to and whatever the clocks were before     *)
(* (power.c:20-38).  What BALANCED asks for may have wrapped (power.c:28): *)
(* on a Raspberry Pi 4 that is 51 MHz, and the clock stays at MIN_ARM.     *)
(***************************************************************************)
ClocksShow(p) ==
  \A id \in Clocks \ failed : rate[id] = Clamped(id, ProfileRate(sys_power, p, id))
ProfileSet(p) == sys_power.current_profile = p /\ ClocksShow(p)
ProfileShown ==
  [][\A p \in Profiles : op = p /\ todo' = <<>> => ProfileSet(p)']_vars

(***************************************************************************)
(* The profile "powersave" (README.md:15), once it has set the ARM clock,  *)
(* runs it slower than "balanced" would, if power_init has read the two    *)
(* limits.                                                                 *)
(***************************************************************************)
PowersaveIsSlower ==
  /\ op = "POWERSAVE" /\ Len(todo) = 1 /\ failed = {}
  /\ sys_power.arm_max_clock # 0 /\ sys_power.arm_min_clock # 0
  => rate.ARM < ProfileRate(sys_power, "BALANCED", "ARM")
=============================================================================
