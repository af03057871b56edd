---------------------------- MODULE PowerProofs -----------------------------
(***************************************************************************)
(* Power's safety properties for every clock range, every rate asked for   *)
(* and any number of mails.  The inductive invariant says which calls an   *)
(* operation has left (Pending), whose turn with the buffer it is and that *)
(* at most one mail in the queue is an answer (Handing), and how far the   *)
(* clocks are that did not fail to be set (Setting).                       *)
(***************************************************************************)
EXTENDS Power, SequenceTheorems, TLAPS

GetMax(field) == Call("GETMAX", "ARM", field, 0)
Get(id, field) == Call("GET", id, field, 0)
SetTo(id) == Call("SET", id, "profile", 0)

\* The calls an operation may have left while it runs.
InitLeft ==
  {<<Info, GetMax("arm_max_clock"), GetMax("arm_min_clock"), SetTo("ARM"), SetTo("CORE")>>,
   <<GetMax("arm_max_clock"), GetMax("arm_min_clock"), SetTo("ARM"), SetTo("CORE")>>,
   <<GetMax("arm_min_clock"), SetTo("ARM"), SetTo("CORE")>>}
ProfileLeft == {<<SetTo("ARM"), SetTo("CORE")>>, <<SetTo("CORE")>>}
StatusLeft ==
  {<<Info, Get("ARM", "arm_clock"), Get("CORE", "core_clock")>>,
   <<Get("ARM", "arm_clock"), Get("CORE", "core_clock")>>,
   <<Get("CORE", "core_clock")>>}
ArmLeft == {<<Call("SET", "ARM", "none", r)>> : r \in Rates}

PendingIs(o, s) ==
  \/ o \in {"off", "idle"} /\ s = <<>>
  \/ o \in Profiles /\ s \in ProfileLeft
  \/ o = "BALANCED" /\ s \in InitLeft
  \/ o = "status" /\ s \in StatusLeft
  \/ o = "arm" /\ s \in ArmLeft
Pending == PendingIs(op, todo)

Value == 0 .. (WRAP - 1)
Types ==
  /\ mbox \in [code : {"REQUEST", "RESPONSE", "ERROR"}, tag : {"INFO", "GETMAX", "GET", "SET"},
               id : Clocks, val : Value]
  /\ mbox.code = "RESPONSE" /\ mbox.tag = "GETMAX" => mbox.val = MAX_ARM
  /\ toVC \in {<<>>, <<"PROP">>}
  /\ fromVC \in Seq(Mails) /\ Len(fromVC) <= FIFO
  /\ waiting \in BOOLEAN /\ failed \subseteq Clocks
  /\ sys_power \in [arm_clock : Value, core_clock : Value, arm_max_clock : {0, MAX_ARM},
                    arm_min_clock : {0, MAX_ARM}, current_profile : Profiles]
  /\ rate \in [Clocks -> Value] /\ rate.ARM \in MIN_ARM .. MAX_ARM

\* The mails that are answers.
Answers == {k \in DOMAIN fromVC : fromVC[k] = "PROP"}

Handing ==
  /\ waiting => /\ todo # <<>>
                /\ mbox.tag = Head(todo).tag /\ mbox.id = Head(todo).id
                /\ mbox.code = "REQUEST" <=> toVC # <<>>
                /\ Answers # {} <=> toVC = <<>>
  /\ ~ waiting => toVC = <<>> /\ Answers = {}
  /\ \A k, l \in Answers : k = l

\* What a profile asks a clock for, and what the clock makes of it.
Asked(id) == ProfileRate(sys_power, op, id)
Shown(id) == Clamped(id, Asked(id))
Setting ==
  /\ waiting /\ todo \in ProfileLeft =>
       /\ mbox.code = "REQUEST" => mbox.val = Asked(mbox.id)
       /\ mbox.code = "RESPONSE" => rate[mbox.id] = Shown(mbox.id)
  /\ op \in Profiles /\ todo = <<SetTo("CORE")>> /\ "ARM" \notin failed => rate["ARM"] = Shown("ARM")

IInv == Pending /\ Types /\ Handing /\ Setting

-----------------------------------------------------------------------------
Calls == [tag : {"INFO", "GETMAX", "GET", "SET"}, id : Clocks,
          field : {"none", "profile", "arm_clock", "core_clock", "arm_max_clock", "arm_min_clock"},
          arg : Value]

LEMMA CallsTyped ==
  /\ Info \in Calls
  /\ \A f \in {"arm_max_clock", "arm_min_clock"} : GetMax(f) \in Calls
  /\ Get("ARM", "arm_clock") \in Calls /\ Get("CORE", "core_clock") \in Calls
  /\ SetTo("ARM") \in Calls /\ SetTo("CORE") \in Calls
  /\ \A r \in Rates : Call("SET", "ARM", "none", r) \in Calls
BY PowerAssumption DEF Calls, Info, GetMax, Get, SetTo, Call, Clocks, Value

\* Heads and tails of the lists.
LEMMA InitLists ==
  ASSUME NEW s \in InitLeft
  PROVE  Head(s) \in Calls /\ s # <<>> /\ Tail(s) \in InitLeft \cup ProfileLeft
<1>1. CASE s = <<Info, GetMax("arm_max_clock"), GetMax("arm_min_clock"), SetTo("ARM"), SetTo("CORE")>>
  BY <1>1, CallsTyped DEF InitLeft
<1>2. CASE s = <<GetMax("arm_max_clock"), GetMax("arm_min_clock"), SetTo("ARM"), SetTo("CORE")>>
  BY <1>2, CallsTyped DEF InitLeft
<1>3. CASE s = <<GetMax("arm_min_clock"), SetTo("ARM"), SetTo("CORE")>>
  BY <1>3, CallsTyped DEF ProfileLeft
<1>. QED
  BY <1>1, <1>2, <1>3 DEF InitLeft

LEMMA ProfileLists ==
  ASSUME NEW s \in ProfileLeft
  PROVE  /\ Head(s) \in Calls /\ s # <<>>
         /\ Tail(s) = <<>> \/ Tail(s) = <<SetTo("CORE")>>
         /\ s = <<SetTo("ARM"), SetTo("CORE")>> => Tail(s) = <<SetTo("CORE")>>
<1>1. CASE s = <<SetTo("ARM"), SetTo("CORE")>>
  BY <1>1, CallsTyped
<1>2. CASE s = <<SetTo("CORE")>>
  BY <1>2, CallsTyped
<1>. QED
  BY <1>1, <1>2 DEF ProfileLeft

LEMMA StatusLists ==
  ASSUME NEW s \in StatusLeft
  PROVE  Head(s) \in Calls /\ s # <<>> /\ (Tail(s) = <<>> \/ Tail(s) \in StatusLeft)
<1>1. CASE s = <<Info, Get("ARM", "arm_clock"), Get("CORE", "core_clock")>>
  BY <1>1, CallsTyped DEF StatusLeft
<1>2. CASE s = <<Get("ARM", "arm_clock"), Get("CORE", "core_clock")>>
  BY <1>2, CallsTyped DEF StatusLeft
<1>3. CASE s = <<Get("CORE", "core_clock")>>
  BY <1>3, CallsTyped
<1>. QED
  BY <1>1, <1>2, <1>3 DEF StatusLeft

LEMMA ArmLists ==
  ASSUME NEW s \in ArmLeft
  PROVE  Head(s) \in Calls /\ s # <<>> /\ Tail(s) = <<>>
<1>1. PICK r \in Rates : s = <<Call("SET", "ARM", "none", r)>>
  BY DEF ArmLeft
<1>. QED
  BY <1>1, CallsTyped

\* What the head of a list is, and what is left after it.
LEMMA CallsKnown ==
  ASSUME NEW o, NEW s, PendingIs(o, s), s # <<>>
  PROVE  /\ o \notin {"off", "idle"}
         /\ Head(s) \in Calls
         /\ Tail(s) # <<>> => PendingIs(o, Tail(s))
<1>1. CASE o \in Profiles /\ s \in ProfileLeft
  BY <1>1, ProfileLists DEF PendingIs, Profiles, ProfileLeft
<1>2. CASE o = "BALANCED" /\ s \in InitLeft
  BY <1>2, InitLists DEF PendingIs, Profiles
<1>3. CASE o = "status" /\ s \in StatusLeft
  BY <1>3, StatusLists DEF PendingIs
<1>4. CASE o = "arm" /\ s \in ArmLeft
  BY <1>4, ArmLists DEF PendingIs
<1>. QED
  BY <1>1, <1>2, <1>3, <1>4 DEF PendingIs

\* InitLeft's lists are other lists.
LEMMA ListsDiffer ==
  /\ <<>> \notin InitLeft /\ <<>> \notin ProfileLeft
  /\ \A s \in ProfileLeft \cup StatusLeft \cup ArmLeft :
       s \notin InitLeft
  /\ \A s \in StatusLeft \cup ArmLeft : s \notin ProfileLeft
<1>1. \A s \in InitLeft : Len(s) \in {3, 4, 5} /\ (Len(s) = 3 => s[2].field = "profile")
  BY DEF InitLeft, SetTo, Call
<1>2. \A s \in ProfileLeft : Len(s) \in {1, 2} /\ s[Len(s)].field = "profile"
  BY DEF ProfileLeft, SetTo, Call
<1>3. ASSUME NEW s \in StatusLeft
      PROVE  Len(s) \in {1, 2, 3} /\ s[Len(s)].field = "core_clock" /\ (Len(s) = 3 => s[2].field = "arm_clock")
  <2>1. CASE s = <<Info, Get("ARM", "arm_clock"), Get("CORE", "core_clock")>>
    BY <2>1 DEF Get, Call
  <2>2. CASE s = <<Get("ARM", "arm_clock"), Get("CORE", "core_clock")>>
    BY <2>2 DEF Get, Call
  <2>3. CASE s = <<Get("CORE", "core_clock")>>
    BY <2>3 DEF Get, Call
  <2>. QED
    BY <2>1, <2>2, <2>3 DEF StatusLeft
<1>4. \A s \in ArmLeft : Len(s) = 1 /\ s[1].field = "none"
  BY DEF ArmLeft, Call
<1>5. <<>> \notin InitLeft /\ <<>> \notin ProfileLeft
  BY <1>1, <1>2
<1>6. ASSUME NEW s \in ProfileLeft \cup StatusLeft \cup ArmLeft, s \in InitLeft
      PROVE  FALSE
  <2>0. Len(s) \in {3, 4, 5} /\ (Len(s) = 3 => s[2].field = "profile")
    BY <1>6, <1>1
  <2>1. CASE s \in ProfileLeft
    <3>1. Len(s) \in {1, 2}
      BY <2>1, <1>2
    <3>. QED
      BY <3>1, <2>0
  <2>2. CASE s \in StatusLeft
    <3>1. Len(s) \in {1, 2, 3} /\ (Len(s) = 3 => s[2].field = "arm_clock")
      BY <2>2, <1>3
    <3>. QED
      BY <3>1, <2>0
  <2>3. CASE s \in ArmLeft
    BY <2>3, <1>6, <1>1, <1>4
  <2>. QED
    BY <2>1, <2>2, <2>3
<1>7. \A s \in StatusLeft \cup ArmLeft : s \notin ProfileLeft
  BY <1>2, <1>3, <1>4
<1>. QED
  BY <1>5, <1>6, <1>7

\* The state at boot satisfies the inductive invariant.
THEOREM InitEstablishes == Init => IInv
<1>. SUFFICES ASSUME Init PROVE IInv
  OBVIOUS
<1>1. Pending
  BY DEF Init, Pending, PendingIs
<1>2. Types
  <2>1. rate \in [Clocks -> Value] /\ rate.ARM \in MIN_ARM .. MAX_ARM
    BY PowerAssumption DEF Init, Clocks, Value
  <2>2. fromVC \in Seq(Mails) /\ Len(fromVC) <= FIFO
    BY PowerAssumption DEF Init
  <2>3. mbox \in [code : {"REQUEST", "RESPONSE", "ERROR"}, tag : {"INFO", "GETMAX", "GET", "SET"},
                  id : Clocks, val : Value]
        /\ mbox.code # "RESPONSE"
    BY PowerAssumption DEF Init, Clocks, Value
  <2>4. sys_power \in [arm_clock : Value, core_clock : Value, arm_max_clock : {0, MAX_ARM},
                       arm_min_clock : {0, MAX_ARM}, current_profile : Profiles]
    BY PowerAssumption DEF Init, Value, Profiles
  <2>. QED
    BY <2>1, <2>2, <2>3, <2>4 DEF Init, Types
<1>3. Handing
  BY DEF Init, Handing, Answers
<1>4. Setting
  BY DEF Init, Setting, Profiles
<1>. QED
  BY <1>1, <1>2, <1>3, <1>4 DEF IInv

LEMMA Concatenated ==
  ASSUME NEW a, NEW b, NEW c, NEW d, NEW e
  PROVE  <<a, b, c>> \o <<d, e>> = <<a, b, c, d, e>>
<1>. DEFINE S == {a, b, c, d, e}
            s == <<a, b, c>>
            t == <<d, e>>
            u == <<a, b, c, d, e>>
<1>1. s \in Seq(S) /\ Len(s) = 3 /\ t \in Seq(S) /\ Len(t) = 2 /\ u \in Seq(S) /\ Len(u) = 5
  OBVIOUS
<1>2. /\ s \o t \in Seq(S) /\ Len(s \o t) = 5
      /\ \A i \in 1 .. 5 : (s \o t)[i] = IF i <= 3 THEN s[i] ELSE t[i - 3]
  BY <1>1, ConcatProperties
<1>3. \A i \in 1 .. 5 : (s \o t)[i] = u[i]
  BY <1>2
<1>. QED
  BY <1>1, <1>2, <1>3, SeqEqual

LEMMA OperationPreserves ==
  ASSUME IInv, Operation
  PROVE  IInv'
<1>. USE DEF IInv
<1>0. /\ op \in {"off", "idle"} /\ todo = <<>> /\ ~ waiting
      /\ UNCHANGED <<mbox, mail, waiting, sys_power, rate, failed>>
  BY ListsDiffer, CallsKnown DEF Operation, PowerInit, PowerGetStatus, PowerSetProfile, PowerSetArmClock, Start,
      Pending, PendingIs, Handing
<1>. DEFINE Begun == /\ PendingIs(op', todo')
                     /\ todo' # <<>>
                     /\ op' # "off"
                     /\ todo' # <<SetTo("CORE")>>
<1>1. Begun
  <2>1. CASE PowerInit
    <3>1. todo' = <<Info, GetMax("arm_max_clock"), GetMax("arm_min_clock"), SetTo("ARM"), SetTo("CORE")>>
          /\ op' = "BALANCED"
      BY <2>1, Concatenated DEF PowerInit, Start, ProfileCalls, GetMax, SetTo
    <3>. QED
      BY <3>1 DEF PendingIs, InitLeft
  <2>2. ASSUME NEW p \in Profiles, PowerSetProfile(p) PROVE Begun
    <3>1. todo' = <<SetTo("ARM"), SetTo("CORE")>> /\ op' = p /\ op = "idle"
      BY <2>2 DEF PowerSetProfile, Start, ProfileCalls, SetTo
    <3>. QED
      BY <3>1 DEF PendingIs, ProfileLeft, Profiles
  <2>3. CASE PowerGetStatus
    <3>1. todo' = <<Info, Get("ARM", "arm_clock"), Get("CORE", "core_clock")>> /\ op' = "status" /\ op = "idle"
      BY <2>3 DEF PowerGetStatus, Start, Get
    <3>. QED
      BY <3>1 DEF PendingIs, StatusLeft, Info, GetMax, Call
  <2>4. ASSUME NEW r \in Rates, PowerSetArmClock(r) PROVE Begun
    <3>1. todo' = <<Call("SET", "ARM", "none", r)>> /\ op' = "arm" /\ op = "idle"
      BY <2>4 DEF PowerSetArmClock, Start
    <3>. QED
      BY <3>1 DEF PendingIs, ArmLeft, SetTo, Call
  <2>. QED
    BY <2>1, <2>2, <2>3, <2>4 DEF Operation
<1>2. Types'
  BY <1>0 DEF Types, mail
<1>3. Handing'
  BY <1>0, <1>1 DEF Handing, Answers, mail
<1>4. Setting'
  BY <1>0, <1>1 DEF Setting, mail
<1>. QED
  BY <1>1, <1>2, <1>3, <1>4 DEF Pending

LEMMA ProfileRates ==
  ASSUME Types, NEW p \in Profiles, NEW id \in Clocks
  PROVE  ProfileRate(sys_power, p, id) \in Value
<1>1. sys_power.arm_max_clock \in {0, MAX_ARM} /\ sys_power.arm_min_clock \in {0, MAX_ARM}
  BY DEF Types
<1>2. CASE id = "CORE"
  BY <1>2, PowerAssumption DEF ProfileRate, Profiles, Value
<1>3. CASE id = "ARM"
  <2>. DEFINE w == (sys_power.arm_max_clock * 3) % WRAP
  <2>1. w \in 0 .. (WRAP - 1)
    BY <1>1, PowerAssumption
  <2>2. w \div 4 \in Value
    <3>. HIDE DEF w
    <3>. QED
      BY <2>1, PowerAssumption DEF Value
  <2>3. sys_power.arm_max_clock \in Value /\ sys_power.arm_min_clock \in Value
    BY <1>1, PowerAssumption DEF Value
  <2>4. CASE p = "BALANCED"
    BY <1>3, <2>2, <2>4 DEF ProfileRate
  <2>5. CASE p # "BALANCED"
    BY <1>3, <2>3, <2>5 DEF ProfileRate, Profiles
  <2>. QED
    BY <2>4, <2>5
<1>. QED
  BY <1>2, <1>3 DEF Clocks

\* Which calls ask for a profile's rates.
LEMMA ProfileFields ==
  ASSUME Pending, todo # <<>>
  PROVE  /\ Head(todo).field = "profile" <=> todo \in ProfileLeft
         /\ todo \in ProfileLeft => op \in Profiles /\ Head(todo).tag = "SET"
<1>1. CASE op \in Profiles /\ todo \in ProfileLeft
  BY <1>1 DEF ProfileLeft, SetTo, Call
<1>2. CASE op = "BALANCED" /\ todo \in InitLeft
  <2>1. Head(todo).field # "profile"
    BY <1>2 DEF InitLeft, Info, GetMax, Call
  <2>. QED
    BY <2>1, <1>2, ListsDiffer
<1>3. CASE op = "status" /\ todo \in StatusLeft
  <2>1. Head(todo).field # "profile"
    BY <1>3 DEF StatusLeft, Info, Get, Call
  <2>. QED
    BY <2>1, <1>3, ListsDiffer
<1>4. CASE op = "arm" /\ todo \in ArmLeft
  <2>1. Head(todo).field # "profile"
    BY <1>4 DEF ArmLeft, Call
  <2>. QED
    BY <2>1, <1>4, ListsDiffer
<1>. QED
  BY <1>1, <1>2, <1>3, <1>4 DEF Pending, PendingIs

LEMMA SendPreserves ==
  ASSUME IInv, Send
  PROVE  IInv'
<1>. USE DEF IInv
<1>. DEFINE c == Head(todo)
            val == IF c.field = "profile" THEN ProfileRate(sys_power, op, c.id) ELSE c.arg
<1>1. /\ todo # <<>> /\ ~ waiting /\ waiting' = TRUE
      /\ mbox' = [code |-> "REQUEST", tag |-> c.tag, id |-> c.id, val |-> val]
      /\ toVC = <<>> /\ toVC' = <<"PROP">> /\ Answers = {}
      /\ UNCHANGED <<fromVC, todo, op, sys_power, rate, failed>>
  BY DEF Send, Handing
<1>2. c \in Calls
  BY <1>1, CallsKnown DEF Pending
<1>3. val \in Value
  BY <1>1, <1>2, ProfileRates, ProfileFields DEF Calls
<1>4. Pending'
  BY <1>1 DEF Pending
<1>5. Types'
  <2>1. mbox' \in [code : {"REQUEST", "RESPONSE", "ERROR"}, tag : {"INFO", "GETMAX", "GET", "SET"},
                   id : Clocks, val : Value] /\ mbox'.code # "RESPONSE"
    BY <1>1, <1>2, <1>3 DEF Calls
  <2>. QED
    BY <2>1, <1>1 DEF Types
<1>6. Handing'
  BY <1>1 DEF Handing, Answers
<1>7. Setting'
  <2>1. todo \in ProfileLeft => mbox'.val = ProfileRate(sys_power, op, mbox'.id)
    BY <1>1, ProfileFields
  <2>. QED
    BY <1>1, <2>1 DEF Setting, Asked, Shown
<1>. QED
  BY <1>4, <1>5, <1>6, <1>7

\* The VideoCore reads the request, and what it answers with.
LEMMA AnswerPreserves ==
  ASSUME IInv, VideoCore
  PROVE  IInv'
<1>. USE DEF IInv
<1>1. /\ toVC = <<"PROP">> /\ toVC' = <<>> /\ Head(toVC) = "PROP" /\ Len(fromVC) < FIFO
      /\ fromVC' = Append(fromVC, "PROP")
      /\ waiting /\ todo # <<>> /\ mbox.code = "REQUEST" /\ Answers = {}
      /\ mbox.tag = Head(todo).tag /\ mbox.id = Head(todo).id
      /\ UNCHANGED <<todo, waiting, op, sys_power, failed>>
  <2>1. toVC # <<>> /\ Len(fromVC) < FIFO /\ toVC' = Tail(toVC)
        /\ fromVC' = Append(fromVC, Head(toVC)) /\ UNCHANGED <<todo, waiting, op, sys_power, failed>>
    BY DEF VideoCore, Answer, AnswerError, cpu
  <2>2. toVC = <<"PROP">>
    BY <2>1 DEF Types
  <2>3. Head(toVC) = "PROP" /\ Tail(toVC) = <<>>
    BY <2>2
  <2>. QED
    BY <2>1, <2>2, <2>3 DEF Handing
<1>2. Pending'
  BY <1>1 DEF Pending
<1>3. /\ mbox'.code \in {"RESPONSE", "ERROR"} /\ mbox'.tag = mbox.tag /\ mbox'.id = mbox.id
      /\ mbox' \in [code : {"REQUEST", "RESPONSE", "ERROR"}, tag : {"INFO", "GETMAX", "GET", "SET"},
                    id : Clocks, val : Value]
      /\ mbox'.code = "RESPONSE" /\ mbox'.tag = "GETMAX" => mbox'.val = MAX_ARM
      /\ rate' \in [Clocks -> Value] /\ rate'["ARM"] \in MIN_ARM .. MAX_ARM
      /\ mbox'.code = "RESPONSE" /\ mbox.tag = "SET" => rate' = [rate EXCEPT ![mbox.id] = Clamped(mbox.id, mbox.val)]
      /\ mbox'.code = "RESPONSE" /\ mbox.tag # "SET" => rate' = rate
      /\ mbox'.code = "ERROR" => rate' = rate
  <2>1. CASE AnswerError
    BY <2>1 DEF AnswerError, Types
  <2>2. CASE Answer
    <3>. DEFINE r == IF mbox.tag = "SET" THEN Clamped(mbox.id, mbox.val) ELSE rate[mbox.id]
    <3>1. r \in Value /\ (mbox.id = "ARM" => r \in MIN_ARM .. MAX_ARM)
      BY PowerAssumption DEF Types, Clamped, Value
    <3>2. /\ rate' = [rate EXCEPT ![mbox.id] = r]
          /\ mbox' = [mbox EXCEPT !.code = "RESPONSE",
                                  !.val = CASE mbox.tag = "INFO" -> 1
                                            [] mbox.tag = "GETMAX" -> MAX_ARM
                                            [] OTHER -> r]
      BY <2>2 DEF Answer
    <3>3. rate' \in [Clocks -> Value] /\ rate'["ARM"] \in MIN_ARM .. MAX_ARM
      BY <3>1, <3>2 DEF Types, Clocks
    <3>4. 1 \in Value /\ MAX_ARM \in Value
      BY PowerAssumption DEF Value
    <3>5. /\ mbox'.code = "RESPONSE" /\ mbox'.tag = mbox.tag /\ mbox'.id = mbox.id
          /\ mbox'.val \in Value
          /\ mbox.tag = "GETMAX" => mbox'.val = MAX_ARM
      BY <3>1, <3>2, <3>4 DEF Types
    <3>6. mbox' \in [code : {"REQUEST", "RESPONSE", "ERROR"}, tag : {"INFO", "GETMAX", "GET", "SET"},
                     id : Clocks, val : Value]
      BY <3>2, <3>5 DEF Types
    <3>7. mbox.tag # "SET" => rate' = rate
      BY <3>2 DEF Types
    <3>. QED
      BY <3>2, <3>3, <3>5, <3>6, <3>7
  <2>. QED
    BY <2>1, <2>2 DEF VideoCore
<1>4. Types'
  <2>1. fromVC' \in Seq(Mails) /\ Len(fromVC') <= FIFO
    BY <1>1, PowerAssumption DEF Types, Mails
  <2>. QED
    BY <1>1, <1>3, <2>1 DEF Types
<1>5. Answers' = {Len(fromVC) + 1}
  BY <1>1 DEF Answers, Types, Mails
<1>6. Handing'
  BY <1>1, <1>3, <1>5 DEF Handing
<1>7. Setting'
  <2>1. ASSUME todo \in ProfileLeft
        PROVE  mbox.tag = "SET" /\ mbox.val = Asked(mbox.id) /\ mbox.id \in Clocks
    BY <1>1, <2>1, ProfileFields DEF Setting, Types
  <2>2. ASSUME todo \in ProfileLeft, mbox'.code = "RESPONSE"
        PROVE  rate'[mbox.id] = Shown(mbox.id)
    BY <1>3, <2>1, <2>2 DEF Types, Shown
  <2>3. ASSUME op \in Profiles, todo = <<SetTo("CORE")>>
        PROVE  rate'["ARM"] = rate["ARM"]
    <3>1. mbox.id = "CORE" /\ todo \in ProfileLeft
      BY <1>1, <2>3 DEF SetTo, Call, ProfileLeft
    <3>. QED
      BY <3>1, <1>3, <2>1 DEF Types, Clocks
  <2>. QED
    BY <1>1, <1>3, <2>2, <2>3 DEF Setting, Asked, Shown
<1>. QED
  BY <1>2, <1>4, <1>6, <1>7

LEMMA OtherMailPreserves ==
  ASSUME IInv, OtherMail
  PROVE  IInv'
<1>. USE DEF IInv
<1>1. /\ fromVC' = Append(fromVC, "other") /\ Len(fromVC) < FIFO - 1
      /\ UNCHANGED <<mbox, toVC, todo, waiting, op, sys_power, rate, failed>>
  BY DEF OtherMail, cpu
<1>2. Types'
  BY <1>1, PowerAssumption DEF Types, Mails
<1>3. Answers' = Answers
  BY <1>1 DEF Answers, Types, Mails
<1>4. Pending' /\ Handing' /\ Setting'
  BY <1>1, <1>3 DEF Pending, Handing, Setting, Asked, Shown
<1>. QED
  BY <1>2, <1>4

LEMMA Lengths ==
  /\ \A a : Len(<<a>>) = 1 /\ <<a>> # <<>>
  /\ \A a, b : Len(<<a, b>>) = 2 /\ <<a, b>> # <<>>
  /\ \A a, b, c : Len(<<a, b, c>>) = 3
  /\ \A a, b, c, d : Len(<<a, b, c, d>>) = 4
OBVIOUS

\* What is left of power_init after one of its first three calls.
LEMMA InitSteps ==
  ASSUME todo \in InitLeft
  PROVE  Tail(todo) \in InitLeft \/ Tail(todo) = <<SetTo("ARM"), SetTo("CORE")>>
<1>1. CASE todo = <<Info, GetMax("arm_max_clock"), GetMax("arm_min_clock"), SetTo("ARM"), SetTo("CORE")>>
  BY <1>1 DEF InitLeft
<1>2. CASE todo = <<GetMax("arm_max_clock"), GetMax("arm_min_clock"), SetTo("ARM"), SetTo("CORE")>>
  BY <1>2 DEF InitLeft
<1>3. CASE todo = <<GetMax("arm_min_clock"), SetTo("ARM"), SetTo("CORE")>>
  BY <1>3
<1>. QED
  BY <1>1, <1>2, <1>3 DEF InitLeft

\* Only power_init's calls write the two limits, and with the maximum.
LEMMA LimitFields ==
  ASSUME Pending, todo # <<>>, Head(todo).field \in {"arm_max_clock", "arm_min_clock"}
  PROVE  Head(todo).tag = "GETMAX" /\ todo \in InitLeft
<1>1. CASE todo \in ProfileLeft
  BY <1>1 DEF ProfileLeft, SetTo, Call
<1>2. CASE todo \in InitLeft
  BY <1>2 DEF InitLeft, Info, GetMax, Call
<1>3. CASE todo \in StatusLeft
  BY <1>3 DEF StatusLeft, Info, Get, Call
<1>4. CASE todo \in ArmLeft
  BY <1>4 DEF ArmLeft, Call
<1>. QED
  BY <1>1, <1>2, <1>3, <1>4 DEF Pending, PendingIs

\* mailbox_call returns and its caller goes on.
LEMMA ReturnPreserves ==
  ASSUME IInv, Poll, Head(fromVC) = "PROP"
  PROVE  /\ IInv'
         /\ \A p \in Profiles : op = p /\ todo' = <<>> => ProfileSet(p)'
<1>. USE DEF IInv
<1>. DEFINE c == Head(todo)
            ok == mbox.code = "RESPONSE"
            s == IF c.field \in DOMAIN sys_power
                   THEN [sys_power EXCEPT ![c.field] = IF ok THEN mbox.val ELSE 0]
                   ELSE sys_power
<1>1. /\ waiting /\ ~ waiting' /\ fromVC # <<>> /\ fromVC' = Tail(fromVC)
      /\ todo' = Tail(todo) /\ op' = (IF Tail(todo) = <<>> THEN "idle" ELSE op)
      /\ sys_power' = (IF Tail(todo) = <<>> /\ op \in Profiles
                         THEN [s EXCEPT !.current_profile = op] ELSE s)
      /\ waiting' = FALSE
      /\ UNCHANGED <<mbox, toVC, rate>>
  BY DEF Poll, Returned
<1>2. /\ 1 \in Answers /\ toVC = <<>> /\ todo # <<>>
      /\ mbox.code # "REQUEST" /\ mbox.tag = c.tag /\ mbox.id = c.id
  BY <1>1 DEF Handing, Answers, Types
<1>3. Answers' = {}
  <2>1. ASSUME NEW k \in Answers' PROVE FALSE
    <3>1. k + 1 \in DOMAIN fromVC /\ fromVC[k + 1] = "PROP" /\ k \in Nat \ {0}
      BY <1>1, <2>1 DEF Answers, Types
    <3>. QED
      BY <3>1, <1>2 DEF Handing, Answers
  <2>. QED
    BY <2>1
<1>4. Handing'
  BY <1>1, <1>2, <1>3 DEF Handing
<1>5. c \in Calls /\ op \notin {"off", "idle"} /\ (Tail(todo) # <<>> => PendingIs(op, Tail(todo)))
  BY <1>2, CallsKnown DEF Pending
<1>6. Pending'
  BY <1>1, <1>5 DEF Pending, PendingIs
<1>7. /\ s \in [arm_clock : Value, core_clock : Value, arm_max_clock : {0, MAX_ARM},
                arm_min_clock : {0, MAX_ARM}, current_profile : Profiles]
      /\ c.field \notin {"arm_clock", "core_clock", "arm_max_clock", "arm_min_clock"} => s = sys_power
      /\ c.field # "arm_max_clock" => s.arm_max_clock = sys_power.arm_max_clock
      /\ c.field # "arm_min_clock" => s.arm_min_clock = sys_power.arm_min_clock
  <2>1. mbox.val \in Value /\ 0 \in Value
    BY PowerAssumption DEF Types, Value
  <2>2. ok /\ c.field \in {"arm_max_clock", "arm_min_clock"} => mbox.val = MAX_ARM
    BY <1>2, LimitFields DEF Types
  <2>3. DOMAIN sys_power = {"arm_clock", "core_clock", "arm_max_clock", "arm_min_clock", "current_profile"}
    BY DEF Types
  <2>4. CASE c.field \in {"none", "profile"}
    BY <2>3, <2>4 DEF Types
  <2>5. CASE c.field = "arm_clock"
    BY <2>1, <2>3, <2>5 DEF Types
  <2>6. CASE c.field = "core_clock"
    BY <2>1, <2>3, <2>6 DEF Types
  <2>7. CASE c.field = "arm_max_clock"
    BY <2>2, <2>3, <2>7 DEF Types
  <2>8. CASE c.field = "arm_min_clock"
    BY <2>2, <2>3, <2>8 DEF Types
  <2>. QED
    BY <2>4, <2>5, <2>6, <2>7, <2>8, <1>5 DEF Calls
<1>8. /\ sys_power' \in [arm_clock : Value, core_clock : Value, arm_max_clock : {0, MAX_ARM},
                         arm_min_clock : {0, MAX_ARM}, current_profile : Profiles]
      /\ sys_power'.arm_max_clock = s.arm_max_clock /\ sys_power'.arm_min_clock = s.arm_min_clock
      /\ Tail(todo) # <<>> => sys_power' = s
      /\ Tail(todo) = <<>> /\ op \in Profiles => sys_power'.current_profile = op
  BY <1>1, <1>7
<1>9. /\ failed' \subseteq Clocks
      /\ c.tag = "SET" /\ c.id \notin failed' => ok
      /\ c.tag = "SET" => failed \ {c.id} \subseteq failed'
  BY <1>5 DEF Poll, Returned, Types, Calls
<1>10. Types'
  <2>1. fromVC' \in Seq(Mails) /\ Len(fromVC') <= FIFO
    BY <1>1, PowerAssumption DEF Types, Mails
  <2>2. failed' \subseteq Clocks /\ waiting' = FALSE /\ UNCHANGED <<mbox, toVC, rate>>
    BY <1>1, <1>9, Zenon
  <2>3. sys_power' \in [arm_clock : Value, core_clock : Value, arm_max_clock : {0, MAX_ARM},
                        arm_min_clock : {0, MAX_ARM}, current_profile : Profiles]
    BY <1>8
  <2>4. Types
    OBVIOUS
  <2>. QED
    BY ONLY <2>1, <2>2, <2>3, <2>4 DEF Types
<1>11. ASSUME todo \in ProfileLeft
       PROVE  /\ s = sys_power /\ c.tag = "SET"
              /\ c.id \notin failed' => rate[c.id] = Shown(c.id)
  <2>1. Pending /\ Setting /\ waiting /\ mbox.id = c.id
    BY <1>1, <1>2
  <2>2. c.field = "profile" /\ c.tag = "SET"
    BY <1>2, <1>11, <2>1, ProfileFields
  <2>3. s = sys_power
    BY <1>7, <2>2
  <2>4. mbox.code = "RESPONSE" => rate[c.id] = Shown(c.id)
    BY <1>11, <2>1 DEF Setting
  <2>5. c.id \notin failed' => mbox.code = "RESPONSE"
    BY <1>9, <2>2, Zenon
  <2>. QED
    BY <2>2, <2>3, <2>4, <2>5, Zenon
<1>12. Setting'
  <2>1. ASSUME op' \in Profiles, todo' = <<SetTo("CORE")>>, "ARM" \notin failed'
        PROVE  rate'["ARM"] = Clamped("ARM", ProfileRate(sys_power', op', "ARM"))
    <3>1. Tail(todo) = <<SetTo("CORE")>> /\ op = op' /\ Tail(todo) # <<>>
      <4>1. Tail(todo) = <<SetTo("CORE")>>
        BY <1>1, <2>1
      <4>2. Tail(todo) # <<>>
        BY <4>1, Lengths
      <4>. QED
        BY <1>1, <4>1, <4>2
    <3>2. todo \notin InitLeft
      <4>1. <<SetTo("CORE")>> \notin InitLeft
        BY ListsDiffer DEF ProfileLeft
      <4>2. <<SetTo("CORE")>> # <<SetTo("ARM"), SetTo("CORE")>>
        <5>. DEFINE t == <<SetTo("CORE")>>
                    u == <<SetTo("ARM"), SetTo("CORE")>>
        <5>1. Len(t) = 1 /\ Len(u) = 2
          BY Lengths
        <5>. QED
          BY <5>1
      <4>. QED
        BY <3>1, <4>1, <4>2, InitSteps
    <3>3. todo = <<SetTo("ARM"), SetTo("CORE")>>
      <4>1. todo \in ProfileLeft
        BY <3>1, <3>2, <2>1 DEF Pending, PendingIs, Profiles
      <4>2. todo # <<SetTo("CORE")>>
        <5>1. Tail(<<SetTo("CORE")>>) = <<>>
          OBVIOUS
        <5>. QED
          BY <3>1, <5>1
      <4>. QED
        BY <4>1, <4>2 DEF ProfileLeft
    <3>4. c.id = "ARM" /\ todo \in ProfileLeft
      BY <3>3 DEF SetTo, Call, ProfileLeft
    <3>. QED
      BY <2>1, <3>1, <3>4, <1>1, <1>8, <1>11 DEF Asked, Shown
  <2>. QED
    BY <1>1, <2>1 DEF Setting, Asked, Shown
<1>13. ASSUME NEW p \in Profiles, op = p, todo' = <<>>
       PROVE  ProfileSet(p)'
  <2>1. todo = <<SetTo("CORE")>> /\ todo \in ProfileLeft
    <3>1. todo \notin InitLeft
      <4>1. <<GetMax("arm_min_clock"), SetTo("ARM"), SetTo("CORE")>> \in InitLeft
            /\ <<SetTo("ARM"), SetTo("CORE")>> \in ProfileLeft
        BY DEF InitLeft, ProfileLeft
      <4>2. Tail(todo) = <<>>
        BY <1>1, <1>13
      <4>. QED
        BY <4>1, <4>2, InitSteps, ListsDiffer
    <3>2. todo \in ProfileLeft
      BY <1>2, <1>13, <3>1 DEF Pending, PendingIs, Profiles
    <3>. QED
      BY <1>1, <1>13, <3>2, ProfileLists DEF ProfileLeft
  <2>2. c.id = "CORE" /\ c.tag = "SET"
    BY <2>1 DEF SetTo, Call
  <2>3. ASSUME NEW id \in Clocks \ failed' PROVE rate[id] = Shown(id)
    <3>1. CASE id = "CORE"
      BY <1>11, <2>1, <2>2, <2>3, <3>1
    <3>2. CASE id = "ARM"
      <4>1. "ARM" \notin failed
        <5>1. failed \ {c.id} \subseteq failed'
          BY <1>9, <2>2, Zenon
        <5>2. c.id # "ARM" /\ "ARM" \notin failed'
          BY <2>2, <2>3, <3>2
        <5>. QED
          BY <5>1, <5>2, Zenon
      <4>. QED
        BY <1>13, <2>1, <3>2, <4>1 DEF Setting
    <3>. QED
      BY <2>3, <3>1, <3>2 DEF Clocks
  <2>4. sys_power'.arm_max_clock = sys_power.arm_max_clock /\ sys_power'.arm_min_clock = sys_power.arm_min_clock
        /\ sys_power'.current_profile = p
    BY <1>1, <1>8, <1>11, <1>13, <2>1
  <2>5. \A id \in Clocks : ProfileRate(sys_power', p, id) = ProfileRate(sys_power, p, id)
    BY ONLY <2>4 DEF ProfileRate
  <2>. QED
    BY <1>1, <1>13, <2>3, <2>4, <2>5 DEF ProfileSet, ClocksShow, Shown, Asked
<1>. QED
  BY <1>4, <1>6, <1>10, <1>12, <1>13

LEMMA StepPreserves ==
  ASSUME IInv, [Next]_vars
  PROVE  /\ IInv'
         /\ \A p \in Profiles : op = p /\ todo' = <<>> => ProfileSet(p)'
<1>1. todo = <<>> => op \notin Profiles
  BY ListsDiffer DEF IInv, Pending, PendingIs, Profiles
<1>2. CASE UNCHANGED vars
  <2>1. IInv'
    BY <1>2 DEF IInv, Pending, Types, Handing, Answers, Setting, Asked, Shown, vars, mail, cpu
  <2>. QED
    BY <1>1, <1>2, <2>1 DEF vars, cpu
<1>3. CASE Operation
  BY <1>3, <1>1, OperationPreserves DEF Operation, PowerInit, PowerGetStatus, PowerSetProfile,
     PowerSetArmClock, Profiles
<1>4. CASE Send
  BY <1>4, SendPreserves DEF Send
<1>5. CASE Poll
  <2>1. CASE Head(fromVC) = "PROP"
    BY <1>5, <2>1, ReturnPreserves
  <2>2. CASE Head(fromVC) # "PROP"
    <3>1. /\ waiting /\ fromVC # <<>> /\ fromVC' = Tail(fromVC)
          /\ UNCHANGED <<mbox, toVC, todo, waiting, op, sys_power, rate, failed>>
      BY <1>5, <2>2 DEF Poll, cpu
    <3>2. fromVC' \in Seq(Mails) /\ Len(fromVC') = Len(fromVC) - 1
          /\ \A k \in 1 .. Len(fromVC') : fromVC'[k] = fromVC[k + 1]
      BY <3>1 DEF IInv, Types
    <3>3. Types'
      BY <3>1, <3>2, PowerAssumption DEF IInv, Types
    <3>4. \A k \in Answers' : k + 1 \in Answers
      BY <3>2 DEF Answers, IInv, Types
    <3>5. ASSUME NEW k \in Answers PROVE k - 1 \in Answers'
      <4>1. k \in 1 .. Len(fromVC) /\ fromVC[k] = "PROP" /\ Len(fromVC) \in Nat
        BY DEF Answers, IInv, Types
      <4>2. k # 1
        BY <2>2, <3>1, <4>1 DEF IInv, Types
      <4>3. fromVC'[k - 1] = "PROP"
        BY <3>2, <4>1, <4>2
      <4>4. k - 1 \in DOMAIN fromVC'
        BY <3>2, <4>1, <4>2
      <4>. QED
        BY <4>3, <4>4, Zenon DEF Answers
    <3>6. Handing'
      <4>1. ASSUME NEW k \in Answers', NEW l \in Answers'
            PROVE  k \in Nat /\ l \in Nat /\ k + 1 = l + 1
        <5>1. k + 1 \in Answers /\ l + 1 \in Answers
          BY <3>4
        <5>2. k + 1 = l + 1
          BY <5>1, Zenon DEF IInv, Handing
        <5>. QED
          BY <3>2, <5>2 DEF Answers
      <4>2. \A k, l \in Answers' : k = l
        BY <4>1
      <4>3. Answers' # {} <=> Answers # {}
        BY <3>4, <3>5
      <4>. QED
        BY <3>1, <4>2, <4>3 DEF Handing, IInv
    <3>7. Pending' /\ Setting'
      BY <3>1 DEF IInv, Pending, Setting, Asked, Shown
    <3>. QED
      BY <1>1, <3>1, <3>3, <3>6, <3>7 DEF IInv
  <2>. QED
    BY <2>1, <2>2
<1>6. CASE VideoCore
  BY <1>6, <1>1, AnswerPreserves DEF VideoCore, Answer, AnswerError, cpu
<1>7. CASE OtherMail
  BY <1>7, <1>1, OtherMailPreserves DEF OtherMail, cpu
<1>. QED
  BY <1>2, <1>3, <1>4, <1>5, <1>6, <1>7 DEF Next

\* The inductive invariant holds in every state of power.c and mailbox.c.
THEOREM Invariance == Spec => []IInv
<1>1. IInv /\ [Next]_vars => IInv'
  BY StepPreserves
<1>. QED
  BY InitEstablishes, <1>1, PTL DEF Spec

\* The lists of calls are no longer than TypeOK says.
LEMMA ListLengths ==
  ASSUME Pending
  PROVE  /\ Len(todo) <= 5
         /\ (op \in {"off", "idle"}) <=> (todo = <<>>)
         /\ op \in {"off", "idle", "status", "arm"} \cup Profiles
<1>1. CASE todo \in ProfileLeft \cup InitLeft \cup ArmLeft \cup StatusLeft
  <2>1. todo # <<>> /\ op \notin {"off", "idle"}
    BY <1>1, CallsKnown, ProfileLists, InitLists, ArmLists, StatusLists DEF Pending
  <2>2. Len(todo) \in {1, 2, 3, 4, 5}
    BY <1>1 DEF ProfileLeft, InitLeft, ArmLeft, StatusLeft
  <2>3. op \in {"off", "idle", "status", "arm"} \cup Profiles
    BY DEF Pending, PendingIs, Profiles
  <2>4. Len(todo) <= 5
    <3>1. \A n \in {1, 2, 3, 4, 5} : n <= 5
      OBVIOUS
    <3>. QED
      BY <2>2, <3>1, Zenon
  <2>. QED
    BY <2>1, <2>3, <2>4
<1>2. CASE op \in {"off", "idle"} /\ todo = <<>>
  BY <1>2
<1>. QED
  BY <1>1, <1>2 DEF Pending, PendingIs

(***************************************************************************)
(* The types are right: every call answered is the one that was made, and  *)
(* no clock leaves its range.                                              *)
(***************************************************************************)
THEOREM TypeCorrect == Spec => []TypeOK
<1>1. ASSUME IInv PROVE TypeOK
  <2>1. toVC \in Seq({"PROP"}) /\ Len(toVC) <= 1
    <3>1. CASE toVC = <<>>
      BY <3>1
    <3>2. CASE toVC = <<"PROP">>
      BY <3>2
    <3>. QED
      BY <1>1, <3>1, <3>2 DEF IInv, Types
  <2>. QED
    BY <1>1, <2>1, ListLengths DEF IInv, Types, TypeOK, Value
<1>. QED
  BY Invariance, <1>1, PTL

(***************************************************************************)
(* Whatever is in the queue, however long it is: from a mail to its answer *)
(* the buffer is the VideoCore's, and the answer read is the call's own    *)
(* (mailbox.c:7-18).                                                       *)
(***************************************************************************)
THEOREM BufferIsHandedOver == Spec => []BufferHandedOver
<1>1. IInv => BufferHandedOver
  BY DEF IInv, Handing, Types, Answers, BufferHandedOver
<1>. QED
  BY Invariance, <1>1, PTL

(***************************************************************************)
(* For every clock range, also one whose maximum wraps when it is taken    *)
(* three times: the profile noted is the one asked for, and every clock    *)
(* whose setting was not refused runs at what it asks for, as near as the  *)
(* range allows (power.c:20-38).                                           *)
(***************************************************************************)
THEOREM ProfileIsShown == Spec => ProfileShown
<1>1. IInv /\ [Next]_vars =>
        [\A p \in Profiles : op = p /\ todo' = <<>> => ProfileSet(p)']_vars
  BY StepPreserves
<1>. QED
  BY Invariance, <1>1, PTL DEF Spec, ProfileShown
=============================================================================
