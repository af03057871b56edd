---------------------------- MODULE ShellProofs -----------------------------
(***************************************************************************)
(* The shell stays in its arrays and does what ShellSpec says, for every   *)
(* length of a line, of the history and of argv, and whatever is typed.    *)
(* IInv adds to TypeOK that the characters in front of pos have been typed *)
(* (Edited), so that the string strcpy copies ends at pos.  RInv adds how  *)
(* far parse_args has come with the line, which is the last in the history *)
(* and whole there: which cells of cmd are NUL by now, and how many of the *)
(* words begin in front of i (Parsed).                                     *)
(***************************************************************************)
EXTENDS Shell, TLAPS, FiniteSetTheorems, SequenceTheorems,
        WellFoundedInduction

Edited ==
  /\ pc \in {"read", "shift"} => \A c \in 0 .. (pos - 1) : cmd[c] \in Keys
  /\ pc = "shift" => i \in 1 .. HISTORY

IInv == TypeOK /\ Edited

\* The line entered is the last in the history.  Of its words, those that begin
\* at its c-th character or before it.
Entered == history[history_count - 1]
Began(s, c) == {k \in Abstract!Starts(s) : k <= c}

\* While cmd is cut: its cells in front of i are NUL where the line has a blank,
\* and argv is where the words in front of i begin.
CutTo(s, b, c) ==
  \A k \in 0 .. (Len(s) - 1) :
    b[k] = IF k < c /\ s[k + 1] = BLANK THEN NUL ELSE s[k + 1]
Found(s, a, c) ==
  /\ Cardinality(Began(s, c)) = Len(a)
  /\ \A n \in 1 .. Len(a) :
       /\ a[n] + 1 \in Abstract!Starts(s) /\ a[n] < c
       /\ Cardinality(Began(s, a[n])) = n - 1
  /\ \A m, n \in 1 .. Len(a) : m < n => a[m] < a[n]
  /\ Len(a) = MAX_ARGS => c = a[MAX_ARGS] + 1
Parsed ==
  /\ history_count > 0 /\ Len(Entered) = pos
  /\ CutTo(Entered, cmd, i) /\ Found(Entered, argv, i)
  /\ in_arg <=> i > 0 /\ Entered[i] # BLANK

RInv ==
  /\ IInv
  /\ pc = "shift" => history_count = HISTORY
  /\ pc \in {"read", "shift"} => argv = <<>> /\ ~ in_arg
  /\ pc = "parse" => Parsed

-----------------------------------------------------------------------------
\* A string ends at its first NUL.
LEMMA StringEnds ==
  ASSUME NEW b, NEW k \in Nat, NEW p \in Cells, k <= p, b[p] = NUL,
         \A c \in k .. (p - 1) : b[c] # NUL
  PROVE  StringAt(b, k) = [n \in 1 .. (p - k) |-> b[k + n - 1]]
<1>. DEFINE Ends(e) == /\ e < MAX_LEN => b[e] = NUL
                       /\ \A j \in k .. (e - 1) : b[j] # NUL
<1>. p \in Nat /\ p < MAX_LEN /\ MAX_LEN \in Nat
  BY ShellAssumption DEF Cells
<1>1. Ends(p) /\ p \in k .. MAX_LEN
  OBVIOUS
<1>2. \A e \in k .. MAX_LEN : Ends(e) => e = p
  OBVIOUS
<1>. HIDE DEF Ends
<1>3. (CHOOSE e \in k .. MAX_LEN : Ends(e)) = p
  BY <1>1, <1>2
<1>. QED
  BY <1>3 DEF StringAt, Ends

\* A line that has been typed, with a NUL after it, is a string of keys.
LEMMA LineIsString ==
  ASSUME NEW b, NEW p \in Cells, b[p] = NUL, \A c \in 0 .. (p - 1) : b[c] \in Keys
  PROVE  /\ StringAt(b, 0) \in Seq(Keys) /\ Len(StringAt(b, 0)) = p
         /\ StringAt(b, 0) = [n \in 1 .. p |-> b[n - 1]]
<1>. p \in Nat /\ NUL \notin Keys
  BY ShellAssumption DEF Cells
<1>1. StringAt(b, 0) = [n \in 1 .. p |-> b[n - 1]]
  BY StringEnds
<1>2. \A n \in 1 .. p : b[n - 1] \in Keys
  OBVIOUS
<1>. QED
  BY <1>1, <1>2

\* The arrays as they are at the prompt.
LEMMA EmptyArrays ==
  /\ <<>> \in Seq(Cells) /\ Len(<<>>) <= MAX_ARGS
  /\ <<>> \in Seq(Keys) /\ Len(<<>>) < MAX_LEN
  /\ 0 \in Cells
BY ShellAssumption DEF Cells

\* It holds at the first prompt.
THEOREM InitEstablishes == Init => IInv
<1>. SUFFICES ASSUME Init PROVE IInv
  OBVIOUS
<1>1. /\ cmd \in [Cells -> Keys \cup {NUL, JUNK}] /\ pos = 0 /\ i = 0
      /\ DOMAIN history = Slots /\ \A h \in Slots : history[h] = <<>>
      /\ history_count = 0 /\ argv = <<>> /\ in_arg = FALSE /\ pc = "read"
  BY DEF Init
<1>2. history_count \in 0 .. HISTORY /\ i \in Nat
  BY <1>1, ShellAssumption
<1>3. \A h \in Slots : history[h] \in Seq(Keys) /\ Len(history[h]) < MAX_LEN
  BY <1>1, EmptyArrays
<1>4. argv \in Seq(Cells) /\ Len(argv) <= MAX_ARGS /\ pos \in Cells
  BY <1>1, EmptyArrays
<1>5. TypeOK
  BY <1>1, <1>2, <1>3, <1>4 DEF TypeOK
<1>6. Edited
  BY <1>1 DEF Edited
<1>. QED
  BY <1>5, <1>6 DEF IInv

\* While the line is edited.
LEMMA KeyboardPreserves ==
  ASSUME IInv, Keyboard
  PROVE  IInv'
<1>. USE ShellAssumption DEF IInv
<1>1. ASSUME NEW c \in Keys, Type(c) PROVE IInv'
  BY <1>1 DEF Type, TypeOK, Edited, Cells, log, args
<1>2. CASE Backspace
  BY <1>2 DEF Backspace, TypeOK, Edited, Cells, log, args
<1>3. CASE CtrlC \/ EnterEmpty
  <2>1. /\ pc = "read" /\ pc' = "read" /\ pos' = 0 /\ cmd' = [cmd EXCEPT ![0] = NUL]
        /\ UNCHANGED <<history, history_count, argv, in_arg, i>>
    BY <1>3 DEF CtrlC, EnterEmpty, NoLine, log, args
  <2>2. cmd' \in [Cells -> Keys \cup {NUL, JUNK}] /\ 0 \in Cells
    BY <2>1 DEF TypeOK, Cells
  <2>. QED
    BY <2>1, <2>2 DEF TypeOK, Edited
<1>4. CASE Enter
  <2>1. /\ cmd' = [cmd EXCEPT ![pos] = NUL] /\ pos' = pos /\ pos \in Cells
        /\ cmd' \in [Cells -> Keys \cup {NUL, JUNK}]
        /\ cmd'[pos] = NUL /\ \A c \in 0 .. (pos - 1) : cmd'[c] \in Keys
        /\ UNCHANGED args
    BY <1>4 DEF Enter, TypeOK, Edited, Cells
  <2>2. StringAt(cmd', 0) \in Seq(Keys) /\ Len(StringAt(cmd', 0)) < MAX_LEN
    <3>1. Len(StringAt(cmd', 0)) = pos /\ StringAt(cmd', 0) \in Seq(Keys)
      BY <2>1, LineIsString
    <3>. QED
      BY <3>1 DEF TypeOK, Cells
  <2>3. CASE history_count < HISTORY
    <3>1. /\ history' = [history EXCEPT ![history_count] = StringAt(cmd', 0)]
          /\ history_count' = history_count + 1 /\ i' = 0 /\ pc' = "parse"
      BY <1>4, <2>3 DEF Enter, StartParse
    <3>. HIDE DEF IInv
    <3>2. /\ DOMAIN history' = Slots /\ history_count' \in 0 .. HISTORY
          /\ \A h \in Slots : history'[h] \in Seq(Keys) /\ Len(history'[h]) < MAX_LEN
      BY <2>2, <2>3, <3>1 DEF TypeOK, Slots, IInv
    <3>3. argv' \in Seq(Cells) /\ Len(argv') <= MAX_ARGS /\ in_arg' \in BOOLEAN
      BY <2>1 DEF IInv, TypeOK, args
    <3>4. i' \in Nat /\ i' <= pos' /\ pos' \in Cells
      BY <2>1, <3>1 DEF Cells
    <3>. QED
      BY <2>1, <3>1, <3>2, <3>3, <3>4 DEF IInv, TypeOK, Edited
  <2>4. CASE ~ (history_count < HISTORY)
    BY <1>4, <2>1, <2>4 DEF Enter, TypeOK, Edited, Cells, log, args
  <2>. QED
    BY <2>3, <2>4
<1>. QED
  BY <1>1, <1>2, <1>3, <1>4 DEF Keyboard

\* While a full history makes room.
LEMMA ShiftingPreserves ==
  ASSUME IInv, Shifting
  PROVE  IInv'
<1>. USE ShellAssumption DEF IInv
<1>1. CASE Shift
  <2>1. i \in 1 .. HISTORY /\ i < HISTORY
    BY <1>1 DEF Shift, Edited
  <2>2. \A h \in Slots : history'[h] \in Seq(Keys) /\ Len(history'[h]) < MAX_LEN
    BY <1>1, <2>1 DEF Shift, TypeOK, Slots
  <2>. QED
    BY <1>1, <2>1, <2>2 DEF Shift, TypeOK, Edited, Slots, edit, args
<1>2. CASE ShiftDone
  <2>1. StringAt(cmd, 0) \in Seq(Keys) /\ Len(StringAt(cmd, 0)) < MAX_LEN
    <3>1. Len(StringAt(cmd, 0)) = pos /\ StringAt(cmd, 0) \in Seq(Keys)
      BY <1>2, LineIsString DEF ShiftDone, TypeOK, Edited
    <3>. QED
      BY <3>1 DEF TypeOK, Cells
  <2>2. \A h \in Slots : history'[h] \in Seq(Keys) /\ Len(history'[h]) < MAX_LEN
    BY <1>2, <2>1 DEF ShiftDone, TypeOK, Slots
  <2>. QED
    BY <1>2, <2>2 DEF ShiftDone, StartParse, TypeOK, Edited, Slots, Cells, edit, args
<1>. QED
  BY <1>1, <1>2 DEF Shifting

\* While the line is cut into arguments: never past its NUL.
LEMMA ParsePreserves ==
  ASSUME IInv, Parse
  PROVE  IInv'
<1>. USE ShellAssumption DEF IInv
<1>1. pc = "parse" /\ i <= pos /\ cmd[pos] = NUL /\ cmd[i] # NUL /\ pos \in Cells /\ i \in Nat
      /\ Len(argv) < MAX_ARGS
  BY DEF Parse, ParseBlank, ParseChar, Parsing, TypeOK
<1>2. i < pos /\ i \in Cells
  BY <1>1 DEF Cells
<1>3. CASE ParseBlank
  <2>1. cmd' = [cmd EXCEPT ![i] = NUL] /\ in_arg' = FALSE /\ i' = i + 1
        /\ UNCHANGED <<pos, log, argv, pc>>
    BY <1>3 DEF ParseBlank
  <2>2. cmd' \in [Cells -> Keys \cup {NUL, JUNK}] /\ cmd'[pos] = NUL
    BY <1>1, <1>2, <2>1 DEF TypeOK
  <2>3. i' \in Nat /\ i' <= pos
    BY <1>1, <1>2, <2>1 DEF Cells
  <2>. QED
    BY <1>1, <2>1, <2>2, <2>3 DEF TypeOK, Edited, log
<1>4. CASE ParseChar
  <2>1. argv' \in Seq(Cells) /\ Len(argv') <= MAX_ARGS
    BY <1>1, <1>2, <1>4 DEF ParseChar, TypeOK
  <2>. QED
    BY <1>1, <1>2, <1>4, <2>1 DEF ParseChar, TypeOK, Edited, Cells, edit, log
<1>. QED
  BY <1>3, <1>4 DEF Parse

\* Running a command and its return keep the invariant.
LEMMA CommandPreserves ==
  ASSUME IInv, Dispatch \/ Command
  PROVE  IInv'
<1>. USE ShellAssumption DEF IInv
<1>1. CASE Prompt /\ cmd' = cmd /\ DOMAIN history' = Slots /\ history_count' \in 0 .. HISTORY
           /\ (history' = history \/ \A h \in Slots : history'[h] = <<>>)
  <2>1. \A h \in Slots : history'[h] \in Seq(Keys) /\ Len(history'[h]) < MAX_LEN
    BY <1>1, EmptyArrays DEF TypeOK
  <2>2. pc' = "read" /\ pos' = 0 /\ argv' = <<>> /\ in_arg' = FALSE /\ i' = 0
    BY <1>1 DEF Prompt, Leave
  <2>3. pos' \in Cells /\ argv' \in Seq(Cells) /\ Len(argv') <= MAX_ARGS /\ i' \in Nat
    BY <2>2, EmptyArrays
  <2>4. TypeOK'
    BY <1>1, <2>1, <2>2, <2>3 DEF TypeOK
  <2>5. Edited'
    BY <2>2 DEF Edited
  <2>. QED
    BY <2>4, <2>5
<1>2. CASE Dispatch
  <2>1. CASE pc' = "run"
    <3>1. pc = "parse" /\ UNCHANGED <<cmd, pos, history, history_count, argv, in_arg, i>>
      BY <1>2, <2>1 DEF Dispatch, Prompt, Leave, log, args
    <3>. QED
      BY <2>1, <3>1 DEF TypeOK, Edited
  <2>2. CASE pc' # "run"
    <3>1. Prompt /\ cmd' = cmd /\ history' = history /\ history_count' = history_count
      BY <1>2, <2>2 DEF Dispatch, log
    <3>2. DOMAIN history = Slots /\ history_count \in 0 .. HISTORY
      BY DEF TypeOK
    <3>. QED
      BY <1>1, <3>1, <3>2
  <2>. QED
    BY <2>1, <2>2
<1>3. CASE Return
  <2>1. CASE Args[1] = SHUTDOWN
    <3>1. /\ pc' = "off" /\ pos' = 0 /\ argv' = <<>> /\ in_arg' = FALSE /\ i' = 0
          /\ UNCHANGED <<cmd, history, history_count>>
      BY <1>3, <2>1 DEF Return, Leave, log
    <3>. QED
      BY <3>1, EmptyArrays DEF TypeOK, Edited
  <2>2. CASE Args[1] # SHUTDOWN
    <3>1. /\ Prompt /\ cmd' = cmd
          /\ \/ history' = [h \in Slots |-> <<>>] /\ history_count' = 0
             \/ UNCHANGED log
      BY <1>3, <2>2 DEF Return
    <3>2. DOMAIN history' = Slots /\ history_count' \in 0 .. HISTORY
      BY <3>1 DEF TypeOK, log
    <3>3. history' = history \/ \A h \in Slots : history'[h] = <<>>
      BY <3>1 DEF log
    <3>. QED
      BY <1>1, <3>1, <3>2, <3>3
  <2>. QED
    BY <2>1, <2>2
<1>4. CASE Fault
  <2>1. /\ pc' = "panic" /\ pos' = 0 /\ argv' = <<>> /\ in_arg' = FALSE /\ i' = 0
        /\ UNCHANGED <<cmd, history, history_count>>
    BY <1>4 DEF Fault, Leave, log
  <2>. QED
    BY <2>1, EmptyArrays DEF TypeOK, Edited
<1>. QED
  BY <1>2, <1>3, <1>4 DEF Command

-----------------------------------------------------------------------------
\* A nonempty set of natural numbers has a least one.
LEMMA LeastExists ==
  ASSUME NEW S \in SUBSET Nat, S # {}
  PROVE  \E k \in S : \A j \in S : k <= j
<1>. DEFINE R == OpToRel(<, Nat)
<1>1. \A x, y \in Nat : <<y, x>> \in R <=> y < x
  BY DEF OpToRel
<1>2. IsWellFoundedOn(R, Nat)
  BY NatLessThanWellFounded
<1>. HIDE DEF R
<1>3. PICK k \in S : \A j \in S : ~ (<<j, k>> \in R)
  BY <1>2, WFMin
<1>4. \A j \in S : j \in Nat /\ k \in Nat /\ ~ (j < k)
  BY <1>1, <1>3
<1>. QED
  BY <1>4

\* The abstract specification's cardinality is the one the library's theorems are about.
LEMMA Counted ==
  ASSUME NEW S
  PROVE  Abstract!Cardinality(S) = Cardinality(S)
BY Zenon DEF Abstract!Cardinality, Cardinality

\* The words of a line are of its characters.
LEMMA StartsOf ==
  ASSUME NEW s \in Seq(Keys), NEW k
  PROVE  k \in Abstract!Starts(s)
           <=> k \in 1 .. Len(s) /\ s[k] # BLANK /\ (k > 1 => s[k - 1] = BLANK)
<1>1. DOMAIN s = 1 .. Len(s)
  OBVIOUS
<1>2. Abstract!BLANK = BLANK
  BY DEF Abstract!BLANK, BLANK
<1>. QED
  BY ONLY <1>1, <1>2 DEF Abstract!Starts

\* The words of a line can be counted, and no more of them begin up to a place than in all.
LEMMA FewStarts ==
  ASSUME NEW s \in Seq(Keys), NEW c \in Nat
  PROVE  /\ IsFiniteSet(Abstract!Starts(s)) /\ IsFiniteSet(Began(s, c))
         /\ Cardinality(Abstract!Starts(s)) \in Nat /\ Cardinality(Began(s, c)) \in Nat
         /\ Cardinality(Began(s, c)) <= Cardinality(Abstract!Starts(s))
<1>1. IsFiniteSet(1 .. Len(s))
  BY FS_Interval
<1>2. Abstract!Starts(s) \subseteq 1 .. Len(s)
  BY StartsOf
<1>3. IsFiniteSet(Abstract!Starts(s))
  BY <1>1, <1>2, FS_Subset
<1>4. Began(s, c) \subseteq Abstract!Starts(s)
  BY DEF Began
<1>. QED
  BY <1>3, <1>4, FS_Subset, FS_CardinalityType

\* Words are told apart by how many begin before them.
LEMMA StartsApart ==
  ASSUME NEW s \in Seq(Keys), NEW j \in Abstract!Starts(s), NEW k \in Abstract!Starts(s), j < k
  PROVE  Cardinality(Began(s, j - 1)) # Cardinality(Began(s, k - 1))
<1>. DEFINE before == Began(s, j - 1)
            later == Began(s, k - 1)
<1>1. j \in 1 .. Len(s) /\ k \in 1 .. Len(s) /\ j - 1 \in Nat /\ k - 1 \in Nat
  BY StartsOf
<1>2. IsFiniteSet(before) /\ IsFiniteSet(later) /\ Cardinality(before) \in Nat
  BY <1>1, FewStarts
<1>3. j \notin before /\ before \cup {j} \subseteq later
  <2>. DEFINE S == Abstract!Starts(s)
  <2>1. (\A l \in S : l \in Nat) /\ j \in S /\ k \in S
    BY StartsOf
  <2>. HIDE DEF S
  <2>2. before = {l \in S : l <= j - 1} /\ later = {l \in S : l <= k - 1}
    BY DEF Began, S
  <2>. HIDE DEF before, later
  <2>3. j \notin before /\ j \in later
    BY <1>1, <2>1, <2>2
  <2>4. ASSUME NEW l \in before PROVE l \in later
    <3>1. l \in S /\ l \in Nat /\ l <= j - 1 /\ j \in Nat /\ k \in Nat
      BY <1>1, <2>1, <2>2
    <3>. QED
      BY <2>2, <3>1
  <2>. QED
    BY <2>3, <2>4
<1>. HIDE DEF before, later
<1>4. Cardinality(before \cup {j}) = Cardinality(before) + 1
  BY <1>2, <1>3, FS_AddElement
<1>5. Cardinality(before \cup {j}) <= Cardinality(later)
  BY <1>2, <1>3, FS_Subset
<1>6. Cardinality(later) \in Nat
  BY <1>2, FS_CardinalityType
<1>. QED
  BY <1>2, <1>4, <1>5, <1>6 DEF before, later

\* The n-th word begins where n - 1 words have begun before it.
LEMMA BeginIs ==
  ASSUME NEW s \in Seq(Keys), NEW a \in Nat, a + 1 \in Abstract!Starts(s),
         NEW n, Cardinality(Began(s, a)) = n - 1
  PROVE  Abstract!Begin(s, n) = a + 1
<1>1. ASSUME NEW k \in Abstract!Starts(s)
      PROVE  Abstract!Cardinality({j \in Abstract!Starts(s) : j < k}) = Cardinality(Began(s, k - 1))
  <2>1. k \in Nat /\ \A j \in Abstract!Starts(s) : j \in Nat
    BY StartsOf
  <2>2. {j \in Abstract!Starts(s) : j < k} = Began(s, k - 1)
    <3>. DEFINE S == Abstract!Starts(s)
    <3>1. \A j \in S : j \in Nat
      BY <2>1
    <3>. HIDE DEF S
    <3>2. {j \in S : j < k} = {j \in S : j <= k - 1}
      BY <2>1, <3>1
    <3>. QED
      BY <3>2 DEF S, Began
  <2>. QED
    BY <2>2, Counted
<1>2. (a + 1) - 1 = a
  OBVIOUS
<1>3. ASSUME NEW k \in Abstract!Starts(s), Cardinality(Began(s, k - 1)) = n - 1
      PROVE  k = a + 1
  <2>1. k \in Nat
    BY StartsOf
  <2>2. ~ (k < a + 1) /\ ~ (a + 1 < k)
    BY <1>2, <1>3, StartsApart
  <2>. QED
    BY <2>1, <2>2
<1>. DEFINE Is(k) == Abstract!Cardinality({j \in Abstract!Starts(s) : j < k}) = n - 1
<1>4. Is(a + 1) /\ \A k \in Abstract!Starts(s) : Is(k) => k = a + 1
  BY <1>1, <1>2, <1>3
<1>. HIDE DEF Is
<1>5. (CHOOSE k \in Abstract!Starts(s) : Is(k)) = a + 1
  BY <1>4
<1>. QED
  BY <1>5 DEF Abstract!Begin, Is

\* A word goes on to the character in front of a blank, or to the line's last.
LEMMA EndIs ==
  ASSUME NEW s \in Seq(Keys), NEW k \in Abstract!Starts(s)
  PROVE  /\ Abstract!End(s, k) \in k .. Len(s)
         /\ \A j \in k .. Abstract!End(s, k) : s[j] # BLANK
         /\ Abstract!End(s, k) < Len(s) => s[Abstract!End(s, k) + 1] = BLANK
<1>. DEFINE Ends(e) == /\ \A j \in k .. e : s[j] # BLANK
                       /\ e < Len(s) => s[e + 1] = BLANK
            B == {e \in k .. Len(s) : e = Len(s) \/ s[e + 1] = BLANK}
<1>1. k \in 1 .. Len(s) /\ s[k] # BLANK
  BY StartsOf
<1>2. B \in SUBSET Nat /\ B # {}
  BY <1>1
<1>3. PICK e \in B : \A j \in B : e <= j
  BY <1>2, LeastExists
<1>4. e \in k .. Len(s) /\ Ends(e)
  <2>1. ASSUME NEW j \in k .. e PROVE s[j] # BLANK
    <3>1. CASE j = k
      BY <1>1, <3>1
    <3>2. CASE j # k
      <4>1. j - 1 \in k .. Len(s) /\ j - 1 < e /\ j - 1 \notin B
        BY <1>1, <1>3, <3>2
      <4>. QED
        BY <1>1, <4>1
    <3>. QED
      BY <3>1, <3>2
  <2>. QED
    BY <1>3, <2>1
<1>5. Abstract!End(s, k) = CHOOSE f \in k .. Len(s) : Ends(f)
  BY DEF Abstract!End, Abstract!BLANK, BLANK
<1>. HIDE DEF Ends
<1>6. Abstract!End(s, k) \in k .. Len(s) /\ Ends(Abstract!End(s, k))
  BY <1>4, <1>5
<1>. QED
  BY <1>6 DEF Ends

-----------------------------------------------------------------------------
\* What is known of an argument found.
LEMMA FoundOne ==
  ASSUME NEW s, NEW a \in Seq(Cells), NEW c, Found(s, a, c), NEW n \in 1 .. Len(a)
  PROVE  /\ a[n] \in Nat /\ a[n] < c /\ a[n] + 1 \in Abstract!Starts(s)
         /\ Cardinality(Began(s, a[n])) = n - 1
         /\ Len(a) = MAX_ARGS => c = a[MAX_ARGS] + 1
         /\ \A m \in 1 .. Len(a) : n < m => a[n] < a[m]
<1>1. a[n] \in Cells
  OBVIOUS
<1>2. a[n] \in Nat
  BY <1>1, ShellAssumption DEF Cells
<1>. QED
  BY <1>2 DEF Found

\* The characters of a line from cell x on to the e-th, of which a string is left.
Spans(s, c, x, e) ==
  /\ e \in (x + 1) .. Len(s) /\ \A j \in (x + 1) .. e : j - 1 < c => s[j] # BLANK
  /\ e < Len(s) => e < c /\ s[e + 1] = BLANK

LEMMA WordCut ==
  ASSUME NEW s \in Seq(Keys), NEW p \in Cells, Len(s) = p, NEW b, b[p] = NUL,
         NEW c \in Nat, CutTo(s, b, c), NEW x \in Nat, NEW e, Spans(s, c, x, e)
  PROVE  SubSeq(s, x + 1, e) = StringAt(b, x)
<1>. /\ p \in Nat /\ NUL \notin Keys /\ e \in Nat
     /\ e \in (x + 1) .. Len(s) /\ \A j \in (x + 1) .. e : j - 1 < c => s[j] # BLANK
     /\ e < Len(s) => e < c /\ s[e + 1] = BLANK
  BY ShellAssumption DEF Cells, Spans
<1>1. \A k \in 0 .. (p - 1) : b[k] = IF k < c /\ s[k + 1] = BLANK THEN NUL ELSE s[k + 1]
  BY DEF CutTo
<1>2. ASSUME NEW j \in x .. (e - 1) PROVE b[j] = s[j + 1] /\ s[j + 1] \in Keys
  <2>1. j \in 0 .. (p - 1) /\ j + 1 \in (x + 1) .. e /\ j + 1 \in 1 .. Len(s) /\ (j + 1) - 1 = j
    OBVIOUS
  <2>2. b[j] = s[j + 1]
    BY <1>1, <2>1
  <2>. QED
    BY <2>1, <2>2
<1>3. b[e] = NUL
  <2>1. CASE e = p
    BY <2>1
  <2>2. CASE e # p
    <3>1. e \in 0 .. (p - 1) /\ e < c /\ s[e + 1] = BLANK
      BY <2>2
    <3>. QED
      BY <1>1, <3>1
  <2>. QED
    BY <2>1, <2>2
<1>4. e \in Cells /\ x <= e
  BY ShellAssumption DEF Cells
<1>5. \A j \in x .. (e - 1) : b[j] # NUL
  BY <1>2
<1>6. StringAt(b, x) = [m \in 1 .. (e - x) |-> b[x + m - 1]]
  BY <1>3, <1>4, <1>5, StringEnds
<1>7. SubSeq(s, x + 1, e) = [m \in 1 .. (e - x) |-> s[x + m]]
  <2>1. x + 1 \in 1 .. Len(s) /\ e \in 1 .. Len(s)
    OBVIOUS
  <2>2. SubSeq(s, x + 1, e) = [m \in 1 .. (e - (x + 1) + 1) |-> s[(x + 1) + m - 1]]
    OBVIOUS
  <2>3. e - (x + 1) + 1 = e - x /\ \A m \in 1 .. (e - x) : (x + 1) + m - 1 = x + m
    OBVIOUS
  <2>. QED
    BY <2>2, <2>3
<1>8. ASSUME NEW m \in 1 .. (e - x) PROVE b[x + m - 1] = s[x + m]
  <2>1. x + m - 1 \in x .. (e - 1) /\ (x + m - 1) + 1 = x + m
    BY <1>4
  <2>. QED
    BY <1>2, <2>1
<1>. QED
  BY <1>6, <1>7, <1>8

\* Where parse_args stops, the strings at argv are the line's words.
LEMMA WordsFound ==
  ASSUME NEW s \in Seq(Keys), NEW p \in Cells, Len(s) = p, NEW b, b[p] = NUL,
         NEW c \in 0 .. p, CutTo(s, b, c),
         NEW a \in Seq(Cells), Len(a) <= MAX_ARGS, Found(s, a, c),
         c = p \/ Len(a) = MAX_ARGS
  PROVE  Abstract!Words(s) = [n \in 1 .. Len(a) |-> StringAt(b, a[n])]
<1>. p \in Nat /\ c \in Nat /\ MAX_ARGS \in Nat \ {0} /\ Len(a) \in Nat
  BY ShellAssumption DEF Cells
<1>. DEFINE count == Abstract!Cardinality(Abstract!Starts(s))
            most == IF count < MAX_ARGS THEN count ELSE MAX_ARGS
<1>1. most = Len(a)
  <2>1. count = Cardinality(Abstract!Starts(s))
    BY Counted
  <2>2. count \in Nat /\ Len(a) <= count
    BY <2>1, FewStarts DEF Found
  <2>3. CASE c = p
    <3>1. Abstract!Starts(s) = Began(s, c)
      <4>1. \A k \in Abstract!Starts(s) : k <= c
        BY <2>3, StartsOf
      <4>. QED
        BY <4>1 DEF Began
    <3>2. count = Len(a)
      BY <2>1, <3>1 DEF Found
    <3>. QED
      BY <2>2, <3>2
  <2>4. CASE Len(a) = MAX_ARGS
    BY <2>2, <2>4
  <2>. QED
    BY <2>3, <2>4
<1>. HIDE DEF most
<1>4. \A x \in Nat : \A e : Spans(s, c, x, e) => SubSeq(s, x + 1, e) = StringAt(b, x)
  BY WordCut
<1>2. ASSUME NEW n \in 1 .. Len(a)
      PROVE  SubSeq(s, Abstract!Begin(s, n),
                    IF n = MAX_ARGS THEN Len(s) ELSE Abstract!End(s, Abstract!Begin(s, n)))
               = StringAt(b, a[n])
  <2>. DEFINE x == a[n]
  <2>1. /\ x \in Nat /\ x < c /\ x + 1 \in Abstract!Starts(s)
        /\ Cardinality(Began(s, x)) = n - 1
        /\ Len(a) = MAX_ARGS => c = a[MAX_ARGS] + 1
        /\ \A m \in 1 .. Len(a) : n < m => x < a[m]
    BY FoundOne
  <2>. HIDE DEF x
  <2>2. Abstract!Begin(s, n) = x + 1
    BY <2>1, BeginIs
  <2>3. x + 1 \in 1 .. Len(s) /\ s[x + 1] # BLANK
    BY <2>1, StartsOf
  <2>4. CASE n = MAX_ARGS
    <3>1. c = x + 1
      BY <2>1, <2>4 DEF x
    <3>2. Spans(s, c, x, Len(s))
      BY <2>1, <2>3, <3>1 DEF Spans
    <3>3. SubSeq(s, x + 1, Len(s)) = StringAt(b, x)
      BY ONLY <1>4, <2>1, <3>2
    <3>. QED
      BY <2>2, <2>4, <3>3 DEF x
  <2>5. CASE n # MAX_ARGS
    <3>. DEFINE e == Abstract!End(s, x + 1)
    <3>1. /\ e \in (x + 1) .. Len(s) /\ (\A j \in (x + 1) .. e : s[j] # BLANK)
          /\ e < Len(s) => s[e + 1] = BLANK
      BY <2>1, EndIs
    <3>. HIDE DEF e
    <3>2. e < Len(s) => e < c
      <4>1. CASE c = p
        BY <4>1
      <4>2. CASE Len(a) = MAX_ARGS
        <5>1. MAX_ARGS \in 1 .. Len(a) /\ n < MAX_ARGS
          BY <2>5, <4>2
        <5>2. c \in Abstract!Starts(s) /\ x + 1 < c
          <6>. DEFINE l == a[MAX_ARGS]
          <6>1. l \in Nat /\ l + 1 \in Abstract!Starts(s) /\ c = l + 1 /\ x < l
            BY <2>1, <4>2, <5>1, FoundOne
          <6>. HIDE DEF l
          <6>. QED
            BY <2>1, <6>1
        <5>3. s[c - 1] = BLANK
          BY <2>1, <5>2, StartsOf
        <5>4. ~ (c - 1 \in (x + 1) .. e)
          BY <3>1, <5>3
        <5>. QED
          BY <2>1, <3>1, <5>2, <5>4
      <4>. QED
        BY <4>1, <4>2
    <3>3. Spans(s, c, x, e)
      BY <3>1, <3>2 DEF Spans
    <3>4. SubSeq(s, x + 1, e) = StringAt(b, x)
      BY ONLY <1>4, <2>1, <3>3
    <3>. QED
      BY <2>2, <2>5, <3>4 DEF x, e
  <2>. QED
    BY <2>4, <2>5
<1>3. Abstract!Words(s)
        = [n \in 1 .. most |->
             SubSeq(s, Abstract!Begin(s, n),
                    IF n = MAX_ARGS THEN Len(s) ELSE Abstract!End(s, Abstract!Begin(s, n)))]
  BY DEF Abstract!Words, most
<1>. QED
  BY <1>1, <1>2, <1>3

-----------------------------------------------------------------------------
\* parse_args' loop: before it, and each of the things it does to a character.
LEMMA NothingParsed ==
  ASSUME NEW s \in Seq(Keys), NEW b, \A k \in 0 .. (Len(s) - 1) : b[k] = s[k + 1]
  PROVE  CutTo(s, b, 0) /\ Found(s, <<>>, 0)
<1>1. CutTo(s, b, 0)
  BY DEF CutTo
<1>2. Began(s, 0) = {}
  BY StartsOf DEF Began
<1>3. Len(<<>>) = 0 /\ Len(<<>>) # MAX_ARGS
  BY ShellAssumption
<1>4. Cardinality(Began(s, 0)) = Len(<<>>) /\ 1 .. Len(<<>>) = {}
  <2>1. Cardinality({}) = 0
    BY FS_EmptySet
  <2>2. Cardinality(Began(s, 0)) = Len(<<>>)
    BY ONLY <1>2, <1>3, <2>1
  <2>. QED
    BY <1>3, <2>2
<1>5. Found(s, <<>>, 0)
  BY ONLY <1>3, <1>4 DEF Found
<1>. QED
  BY <1>1, <1>5

LEMMA BlankCut ==
  ASSUME NEW s \in Seq(Keys), NEW b \in [Cells -> Keys \cup {NUL, JUNK}], Len(s) < MAX_LEN,
         NEW c \in 0 .. (Len(s) - 1), CutTo(s, b, c)
  PROVE  /\ b[c] = s[c + 1]
         /\ s[c + 1] = BLANK => CutTo(s, [b EXCEPT ![c] = NUL], c + 1)
         /\ s[c + 1] # BLANK => CutTo(s, b, c + 1)
<1>. \A k \in 0 .. (Len(s) - 1) : k \in Cells
  BY ShellAssumption DEF Cells
<1>1. \A k \in 0 .. (Len(s) - 1) : b[k] = IF k < c /\ s[k + 1] = BLANK THEN NUL ELSE s[k + 1]
  BY DEF CutTo
<1>2. b[c] = s[c + 1]
  BY <1>1
<1>3. ASSUME s[c + 1] = BLANK PROVE CutTo(s, [b EXCEPT ![c] = NUL], c + 1)
  <2>. DEFINE d == [b EXCEPT ![c] = NUL]
  <2>1. ASSUME NEW k \in 0 .. (Len(s) - 1)
        PROVE  d[k] = IF k < c + 1 /\ s[k + 1] = BLANK THEN NUL ELSE s[k + 1]
    <3>1. CASE k = c
      BY <1>3, <3>1
    <3>2. CASE k # c
      <4>1. d[k] = b[k] /\ (k < c + 1 <=> k < c)
        BY <3>2
      <4>. QED
        BY <1>1, <4>1
    <3>. QED
      BY <3>1, <3>2
  <2>. QED
    BY <2>1 DEF CutTo
<1>4. ASSUME s[c + 1] # BLANK PROVE CutTo(s, b, c + 1)
  <2>1. ASSUME NEW k \in 0 .. (Len(s) - 1)
        PROVE  b[k] = IF k < c + 1 /\ s[k + 1] = BLANK THEN NUL ELSE s[k + 1]
    <3>1. CASE k = c
      BY <1>2, <1>4, <3>1
    <3>2. CASE k # c
      <4>1. k < c + 1 <=> k < c
        BY <3>2
      <4>. QED
        BY <1>1, <4>1
    <3>. QED
      BY <3>1, <3>2
  <2>. QED
    BY <2>1 DEF CutTo
<1>. QED
  BY <1>2, <1>3, <1>4

LEMMA NoWordHere ==
  ASSUME NEW s \in Seq(Keys), NEW c \in Nat, NEW a \in Seq(Cells), Len(a) < MAX_ARGS,
         Found(s, a, c), c + 1 \notin Abstract!Starts(s)
  PROVE  Found(s, a, c + 1)
<1>1. Began(s, c + 1) = Began(s, c)
  <2>. DEFINE S == Abstract!Starts(s)
  <2>1. \A k \in S : k \in Nat
    BY StartsOf
  <2>2. c + 1 \notin S
    OBVIOUS
  <2>. HIDE DEF S
  <2>3. {k \in S : k <= c + 1} = {k \in S : k <= c}
    BY <2>1, <2>2
  <2>. QED
    BY <2>3 DEF S, Began
<1>2. ASSUME NEW n \in 1 .. Len(a)
      PROVE  /\ a[n] + 1 \in Abstract!Starts(s) /\ a[n] < c + 1
             /\ Cardinality(Began(s, a[n])) = n - 1
  <2>1. a[n] \in Nat /\ a[n] < c
    BY FoundOne
  <2>. QED
    BY <2>1, FoundOne
<1>3. Len(a) # MAX_ARGS
  BY ShellAssumption
<1>. QED
  BY <1>1, <1>2, <1>3 DEF Found

LEMMA WordHere ==
  ASSUME NEW s \in Seq(Keys), NEW c \in Cells, NEW a \in Seq(Cells), Len(a) < MAX_ARGS,
         Found(s, a, c), c + 1 \in Abstract!Starts(s)
  PROVE  Found(s, Append(a, c), c + 1)
<1>. DEFINE v == Append(a, c)
<1>0. c \in Nat /\ Len(a) \in Nat /\ MAX_ARGS \in Nat
  BY ShellAssumption DEF Cells
<1>1. /\ v \in Seq(Cells) /\ Len(v) = Len(a) + 1 /\ v[Len(a) + 1] = c
      /\ \A n \in 1 .. Len(a) : v[n] = a[n]
  OBVIOUS
<1>. HIDE DEF v
<1>2. Cardinality(Began(s, c + 1)) = Cardinality(Began(s, c)) + 1
  <2>. DEFINE S == Abstract!Starts(s)
  <2>1. (\A k \in S : k \in Nat) /\ c + 1 \in S
    BY StartsOf
  <2>. HIDE DEF S
  <2>2. {k \in S : k <= c + 1} = {k \in S : k <= c} \cup {c + 1} /\ c + 1 \notin {k \in S : k <= c}
    BY <1>0, <2>1
  <2>3. Began(s, c + 1) = Began(s, c) \cup {c + 1} /\ c + 1 \notin Began(s, c)
    BY <2>2 DEF S, Began
  <2>4. IsFiniteSet(Began(s, c))
    BY <1>0, FewStarts
  <2>. QED
    BY <2>3, <2>4, FS_AddElement
<1>3. ASSUME NEW n \in 1 .. Len(v)
      PROVE  /\ v[n] + 1 \in Abstract!Starts(s) /\ v[n] < c + 1
             /\ Cardinality(Began(s, v[n])) = n - 1
  <2>1. CASE n \in 1 .. Len(a)
    <3>1. v[n] = a[n] /\ a[n] \in Nat /\ a[n] < c
      BY <1>1, <2>1, FoundOne
    <3>. QED
      BY <1>0, <2>1, <3>1, FoundOne
  <2>2. CASE n \notin 1 .. Len(a)
    <3>1. n = Len(a) + 1 /\ n - 1 = Len(a)
      BY <1>0, <1>1, <2>2
    <3>2. v[n] = c /\ c < c + 1 /\ Cardinality(Began(s, c)) = Len(a)
      BY <1>0, <1>1, <3>1 DEF Found
    <3>. QED
      BY <3>1, <3>2
  <2>. QED
    BY <2>1, <2>2
<1>4. ASSUME NEW m \in 1 .. Len(v), NEW n \in 1 .. Len(v), m < n PROVE v[m] < v[n]
  <2>1. m \in 1 .. Len(a) /\ v[m] = a[m] /\ a[m] < c
    <3>1. m \in 1 .. Len(a)
      BY <1>0, <1>1, <1>4
    <3>. QED
      BY <1>1, <3>1, FoundOne
  <2>2. CASE n \in 1 .. Len(a)
    BY <1>1, <1>4, <2>1, <2>2, FoundOne
  <2>3. CASE n \notin 1 .. Len(a)
    <3>1. n = Len(a) + 1
      BY <1>0, <1>1, <2>3
    <3>. QED
      BY <1>1, <2>1, <3>1
  <2>. QED
    BY <2>2, <2>3
<1>5. Len(v) = MAX_ARGS => c + 1 = v[MAX_ARGS] + 1
  BY <1>1
<1>6. Cardinality(Began(s, c + 1)) = Len(v)
  BY <1>1, <1>2 DEF Found
<1>. QED
  BY <1>3, <1>4, <1>5, <1>6 DEF Found, v

-----------------------------------------------------------------------------
\* While parse_args runs, in the terms of the line it cuts.
LEMMA ParseAt ==
  ASSUME RInv, pc = "parse"
  PROVE  /\ history_count \in 1 .. HISTORY /\ history_count - 1 \in Slots
         /\ Entered \in Seq(Keys) /\ Len(Entered) = pos /\ pos \in Nat /\ pos < MAX_LEN
         /\ i \in 0 .. pos /\ cmd \in [Cells -> Keys \cup {NUL, JUNK}] /\ cmd[pos] = NUL
         /\ argv \in Seq(Cells) /\ Len(argv) <= MAX_ARGS
<1>1. history_count \in 0 .. HISTORY /\ history_count > 0 /\ HISTORY \in Nat
  BY ShellAssumption DEF RInv, IInv, TypeOK, Parsed
<1>2. history_count - 1 \in Slots
  BY <1>1 DEF Slots
<1>3. Entered \in Seq(Keys)
  BY <1>2 DEF RInv, IInv, TypeOK, Entered
<1>4. Len(Entered) = pos /\ pos \in Cells /\ i \in Nat /\ i <= pos
  BY DEF RInv, IInv, TypeOK, Parsed
<1>5. pos \in Nat /\ pos < MAX_LEN
  BY <1>4, ShellAssumption DEF Cells
<1>. QED
  BY <1>1, <1>2, <1>3, <1>4, <1>5 DEF RInv, IInv, TypeOK

LEMMA ParseStep ==
  ASSUME RInv, Parse
  PROVE  Parsed' /\ pc' = "parse"
<1>. DEFINE s == Entered
<1>1. pc = "parse" /\ Parsing /\ UNCHANGED <<pos, history, history_count, pc>> /\ i' = i + 1
  BY DEF Parse, ParseBlank, ParseChar, edit, log
<1>2. /\ history_count > 0 /\ s \in Seq(Keys) /\ Len(s) = pos /\ pos \in Nat /\ pos < MAX_LEN
      /\ i \in 0 .. pos /\ cmd \in [Cells -> Keys \cup {NUL, JUNK}] /\ cmd[pos] = NUL
      /\ argv \in Seq(Cells) /\ Len(argv) < MAX_ARGS /\ cmd[i] # NUL
      /\ CutTo(s, cmd, i) /\ Found(s, argv, i) /\ (in_arg <=> i > 0 /\ s[i] # BLANK)
  BY <1>1, ParseAt DEF RInv, Parsed, Parsing
<1>3. i \in 0 .. (Len(s) - 1) /\ i \in Cells /\ i \in Nat
  BY <1>2, ShellAssumption DEF Cells
<1>4. s' = s
  BY <1>1 DEF Entered
<1>. HIDE DEF s
<1>5. /\ cmd[i] = s[i + 1]
      /\ s[i + 1] = BLANK => CutTo(s, [cmd EXCEPT ![i] = NUL], i + 1)
      /\ s[i + 1] # BLANK => CutTo(s, cmd, i + 1)
  BY <1>2, <1>3, BlankCut
<1>6. i + 1 \in Abstract!Starts(s) <=> s[i + 1] # BLANK /\ ~ in_arg
  <2>1. i + 1 \in 1 .. Len(s) /\ (i + 1) - 1 = i /\ (i + 1 > 1 <=> i > 0)
    BY <1>2, <1>3
  <2>. QED
    BY <1>2, <2>1, StartsOf
<1>7. /\ CutTo(s, cmd', i + 1) /\ Found(s, argv', i + 1)
      /\ in_arg' <=> i + 1 > 0 /\ s[i + 1] # BLANK
  <2>1. CASE ParseBlank
    <3>1. /\ s[i + 1] = BLANK /\ cmd' = [cmd EXCEPT ![i] = NUL] /\ argv' = argv
          /\ in_arg' = FALSE
      BY <1>5, <2>1 DEF ParseBlank
    <3>2. Found(s, argv, i + 1)
      BY <1>2, <1>3, <1>6, <3>1, NoWordHere
    <3>. QED
      BY <1>5, <3>1, <3>2
  <2>2. CASE ParseChar
    <3>1. /\ s[i + 1] # BLANK /\ cmd' = cmd /\ in_arg' = TRUE /\ i + 1 > 0
          /\ argv' = IF in_arg THEN argv ELSE Append(argv, i)
      BY <1>3, <1>5, <2>2 DEF ParseChar, edit
    <3>2. Found(s, argv', i + 1)
      <4>1. CASE in_arg
        BY <1>2, <1>3, <1>6, <3>1, <4>1, NoWordHere
      <4>2. CASE ~ in_arg
        BY <1>2, <1>3, <1>6, <3>1, <4>2, WordHere
      <4>. QED
        BY <4>1, <4>2
    <3>. QED
      BY <1>5, <3>1, <3>2
  <2>. QED
    BY <2>1, <2>2 DEF Parse
<1>8. i' = i + 1 /\ history_count' > 0 /\ Len(s) = pos'
  BY <1>1, <1>2
<1>. QED
  BY <1>1, <1>4, <1>7, <1>8 DEF Parsed, s

\* The line entered, as it goes to the history and to parse_args.
LEMMA ParseStarts ==
  ASSUME NEW b, NEW p \in Cells, b[p] = NUL, \A c \in 0 .. (p - 1) : b[c] \in Keys
  PROVE  CutTo(StringAt(b, 0), b, 0) /\ Found(StringAt(b, 0), <<>>, 0)
<1>. DEFINE s == StringAt(b, 0)
<1>. p \in Nat
  BY ShellAssumption DEF Cells
<1>1. s \in Seq(Keys) /\ Len(s) = p /\ s = [n \in 1 .. p |-> b[n - 1]]
  BY LineIsString
<1>. HIDE DEF s
<1>2. ASSUME NEW k \in 0 .. (Len(s) - 1) PROVE b[k] = s[k + 1]
  <2>1. k + 1 \in 1 .. p /\ (k + 1) - 1 = k
    BY <1>1
  <2>. QED
    BY <1>1, <2>1
<1>3. CutTo(s, b, 0) /\ Found(s, <<>>, 0)
  BY <1>1, <1>2, NothingParsed
<1>. QED
  BY <1>3 DEF s

LEMMA EnterStep ==
  ASSUME RInv, Enter
  PROVE  /\ pc' = "shift" => history_count' = HISTORY
         /\ pc' = "parse" => Parsed'
         /\ pc' \in {"shift", "parse"} /\ argv' = <<>> /\ ~ in_arg'
<1>1. /\ pc = "read" /\ cmd' = [cmd EXCEPT ![pos] = NUL] /\ pos' = pos /\ pos \in Cells
      /\ argv' = <<>> /\ in_arg' = FALSE /\ history_count \in 0 .. HISTORY
      /\ cmd'[pos] = NUL /\ \A c \in 0 .. (pos - 1) : cmd'[c] \in Keys
      /\ in_arg' \in BOOLEAN
  BY DEF RInv, IInv, TypeOK, Edited, Enter, args, Cells
<1>. DEFINE s == StringAt(cmd', 0)
<1>2. /\ s \in Seq(Keys) /\ Len(s) = pos /\ CutTo(s, cmd', 0) /\ Found(s, <<>>, 0)
  BY <1>1, LineIsString, ParseStarts
<1>. HIDE DEF s
<1>3. CASE history_count < HISTORY
  <2>1. /\ history' = [history EXCEPT ![history_count] = s]
        /\ history_count' = history_count + 1 /\ i' = 0 /\ pc' = "parse"
    BY <1>3 DEF Enter, StartParse, s
  <2>2. history_count \in DOMAIN history /\ (history_count + 1) - 1 = history_count
    <3>1. DOMAIN history = Slots /\ HISTORY \in Nat
      BY ShellAssumption DEF RInv, IInv, TypeOK
    <3>. QED
      BY <1>1, <1>3, <3>1 DEF Slots
  <2>3. Entered' = s
    BY <2>1, <2>2 DEF Entered
  <2>4. history_count' > 0 /\ ~ (0 > 0)
    BY <1>1, <2>1
  <2>. QED
    BY <1>1, <1>2, <2>1, <2>3, <2>4 DEF Parsed
<1>4. CASE ~ (history_count < HISTORY)
  <2>1. pc' = "shift" /\ history_count' = history_count /\ history_count = HISTORY
    BY <1>1, <1>4, ShellAssumption DEF Enter, log
  <2>. QED
    BY <1>1, <2>1
<1>. QED
  BY <1>3, <1>4

LEMMA ShiftDoneStep ==
  ASSUME RInv, ShiftDone
  PROVE  Parsed' /\ pc' = "parse"
<1>1. /\ pc = "shift" /\ cmd' = cmd /\ pos' = pos /\ pos \in Cells
      /\ argv' = <<>> /\ ~ in_arg' /\ history_count' = HISTORY
      /\ cmd[pos] = NUL /\ \A c \in 0 .. (pos - 1) : cmd[c] \in Keys
      /\ i' = 0 /\ pc' = "parse"
  BY DEF RInv, IInv, TypeOK, Edited, ShiftDone, StartParse, args, edit
<1>. DEFINE s == StringAt(cmd, 0)
<1>2. /\ s \in Seq(Keys) /\ Len(s) = pos /\ CutTo(s, cmd, 0) /\ Found(s, <<>>, 0)
  BY <1>1, LineIsString, ParseStarts
<1>3. /\ history' = [history EXCEPT ![HISTORY - 1] = s]
      /\ HISTORY - 1 \in DOMAIN history /\ HISTORY > 0
  BY ShellAssumption DEF RInv, IInv, TypeOK, ShiftDone, Slots
<1>. HIDE DEF s
<1>4. Entered' = s
  BY <1>1, <1>3 DEF Entered
<1>. QED
  BY <1>1, <1>2, <1>3, <1>4 DEF Parsed

\* Whatever the step.
LEMMA StepPreserves ==
  ASSUME IInv, [Next]_vars
  PROVE  IInv'
<1>1. CASE UNCHANGED vars
  BY <1>1 DEF IInv, TypeOK, Edited, vars, edit, log, args
<1>. QED
  BY <1>1, KeyboardPreserves, ShiftingPreserves, ParsePreserves, CommandPreserves DEF Next

\* Whatever is typed, parse_args has cut what the history has whole.
THEOREM Invariance == Spec => []RInv
<1>1. Init => RInv
  <2>. SUFFICES ASSUME Init PROVE RInv
    OBVIOUS
  <2>1. pc = "read" /\ argv = <<>> /\ ~ in_arg
    BY DEF Init
  <2>. QED
    BY <2>1, InitEstablishes DEF RInv
<1>2. RInv /\ [Next]_vars => RInv'
  <2>. SUFFICES ASSUME RInv, [Next]_vars PROVE RInv'
    OBVIOUS
  <2>1. IInv'
    BY StepPreserves DEF RInv
  <2>2. CASE UNCHANGED vars
    <3>1. UNCHANGED <<cmd, pos, history, history_count, argv, in_arg, i, pc>>
      BY <2>2 DEF vars, edit, log, args
    <3>. QED
      BY <2>1, <3>1 DEF RInv, Parsed, Entered, CutTo, Found, Began
  <2>3. CASE Keyboard
    <3>1. CASE Enter
      BY <2>1, <3>1, EnterStep DEF RInv
    <3>2. CASE ~ Enter
      <4>1. pc = "read" /\ pc' = "read" /\ argv' = argv /\ in_arg' = in_arg
        BY <2>3, <3>2 DEF Keyboard, Type, Backspace, CtrlC, EnterEmpty, NoLine, args
      <4>. QED
        BY <2>1, <4>1 DEF RInv
    <3>. QED
      BY <3>1, <3>2
  <2>4. CASE Shift
    <3>1. /\ pc = "shift" /\ pc' = "shift" /\ argv' = argv /\ in_arg' = in_arg
          /\ history_count' = history_count
      BY <2>4 DEF Shift, args
    <3>. QED
      BY <2>1, <3>1 DEF RInv
  <2>5. CASE ShiftDone
    BY <2>1, <2>5, ShiftDoneStep DEF RInv
  <2>6. CASE Parse
    BY <2>1, <2>6, ParseStep DEF RInv
  <2>7. CASE Dispatch \/ Command
    <3>1. pc' \in {"run", "off", "panic"} \/ (pc' = "read" /\ argv' = <<>> /\ in_arg' = FALSE)
      BY <2>7 DEF Dispatch, Command, Return, Fault, Prompt, Leave
    <3>. QED
      BY <2>1, <3>1 DEF RInv
  <2>. QED
    BY <2>2, <2>3, <2>4, <2>5, <2>6, <2>7 DEF Next, Shifting
<1>. QED
  BY <1>1, <1>2, PTL DEF Spec

(***************************************************************************)
(* Nothing is stored outside cmd, argv and the history, every string       *)
(* copied to the history fits, and parse_args meets the line's NUL         *)
(* (shell.c:47-62, 127-143), for every size of these arrays.               *)
(***************************************************************************)
THEOREM TypeCorrect == Spec => []TypeOK
BY Invariance, PTL DEF RInv, IInv

-----------------------------------------------------------------------------
\* The log, as ShellSpec has it: what the history holds, and while it is being
\* shifted, what it is going to hold.
HistoryOf(h, n) == [k \in 1 .. n |-> h[k - 1]]
Shifted(h, c, s) ==
  [k \in 1 .. HISTORY |-> IF k < c THEN h[k - 1] ELSE IF k < HISTORY THEN h[k] ELSE s]

LEMMA ShiftView ==
  ASSUME NEW h, NEW c \in 1 .. HISTORY, NEW s
  PROVE  LET H == HistoryOf(h, HISTORY) IN
           SubSeq(H, 1, c - 1) \o SubSeq(H, c + 1, HISTORY) \o <<s>> = Shifted(h, c, s)
<1>. DEFINE H == HistoryOf(h, HISTORY)
            V == {h[k - 1] : k \in 1 .. HISTORY} \cup {s}
<1>1. HISTORY \in Nat /\ c \in Nat /\ 1 <= c /\ c <= HISTORY
  BY ShellAssumption
<1>2. H \in Seq(V) /\ Len(H) = HISTORY /\ \A k \in 1 .. HISTORY : H[k] = h[k - 1]
  <2>1. \A k \in 1 .. HISTORY : h[k - 1] \in V
    OBVIOUS
  <2>. HIDE DEF V
  <2>. QED
    BY <1>1, <2>1 DEF HistoryOf
<1>. HIDE DEF H, V
<1>. DEFINE A == SubSeq(H, 1, c - 1)
            B == SubSeq(H, c + 1, HISTORY)
<1>3. A \in Seq(V) /\ Len(A) = c - 1 /\ \A k \in 1 .. (c - 1) : A[k] = h[k - 1]
  BY <1>1, <1>2
<1>4. /\ B \in Seq(V) /\ Len(B) = HISTORY - c
      /\ \A k \in 1 .. (HISTORY - c) : B[k] = h[c + k - 1]
  BY <1>1, <1>2
<1>. HIDE DEF A, B
<1>. DEFINE C == A \o B \o <<s>>
<1>5. s \in V
  BY DEF V
<1>. DEFINE AB == A \o B
<1>6. /\ AB \in Seq(V) /\ Len(AB) = HISTORY - 1
      /\ \A k \in 1 .. (HISTORY - 1) : AB[k] = IF k < c THEN h[k - 1] ELSE h[k]
  <2>1. /\ AB \in Seq(V) /\ Len(AB) = Len(A) + Len(B)
        /\ \A k \in 1 .. (Len(A) + Len(B)) :
             AB[k] = IF k <= Len(A) THEN A[k] ELSE B[k - Len(A)]
    BY <1>3, <1>4, ConcatProperties
  <2>2. Len(A) + Len(B) = HISTORY - 1
    BY <1>1, <1>3, <1>4
  <2>. HIDE DEF AB
  <2>3. ASSUME NEW k \in 1 .. (HISTORY - 1)
        PROVE  AB[k] = IF k < c THEN h[k - 1] ELSE h[k]
    <3>1. CASE k < c
      <4>1. k \in 1 .. (c - 1) /\ k <= Len(A)
        BY <1>1, <1>3, <3>1
      <4>2. AB[k] = A[k] /\ A[k] = h[k - 1]
        BY <1>3, <2>1, <2>2, <4>1
      <4>. QED
        BY <3>1, <4>2
    <3>2. CASE ~ (k < c)
      <4>1. /\ ~ (k <= Len(A)) /\ k - Len(A) \in 1 .. (HISTORY - c)
            /\ c + (k - Len(A)) - 1 = k
        BY <1>1, <1>3, <3>2
      <4>. QED
        BY <1>4, <2>1, <2>2, <3>2, <4>1
    <3>. QED
      BY <3>1, <3>2
  <2>. QED
    BY <2>1, <2>2, <2>3
<1>. HIDE DEF AB
<1>7. /\ C \in Seq(V) /\ Len(C) = HISTORY
      /\ \A k \in 1 .. HISTORY : C[k] = IF k < HISTORY THEN AB[k] ELSE s
  <2>1. C = Append(AB, s)
    BY <1>5, <1>6 DEF AB
  <2>. HIDE DEF C
  <2>2. C \in Seq(V) /\ Len(C) = HISTORY
    BY <1>1, <1>5, <1>6, <2>1
  <2>3. ASSUME NEW k \in 1 .. HISTORY PROVE C[k] = IF k < HISTORY THEN AB[k] ELSE s
    <3>1. CASE k < HISTORY
      BY <1>1, <1>5, <1>6, <2>1, <3>1
    <3>2. CASE k = HISTORY
      BY <1>1, <1>5, <1>6, <2>1, <3>2
    <3>. QED
      BY <1>1, <3>1, <3>2
  <2>. QED
    BY <2>2, <2>3
<1>. HIDE DEF C
<1>8. C = Shifted(h, c, s)
  <2>1. ASSUME NEW k \in 1 .. HISTORY
        PROVE  C[k] = IF k < c THEN h[k - 1] ELSE IF k < HISTORY THEN h[k] ELSE s
    BY <1>1, <1>6, <1>7
  <2>. QED
    BY <1>1, <1>7, <2>1 DEF Shifted
<1>. QED
  BY <1>8 DEF A, B, C, AB, H

LEMMA LogIs ==
  ASSUME RInv
  PROVE  LogView = IF pc = "shift" THEN Shifted(history, i, StringAt(cmd, 0))
                                   ELSE HistoryOf(history, history_count)
<1>1. CASE pc = "shift"
  <2>1. history_count = HISTORY /\ i \in 1 .. HISTORY
    BY <1>1 DEF RInv, IInv, Edited
  <2>. QED
    BY <1>1, <2>1, ShiftView DEF LogView, HistoryOf
<1>2. CASE pc # "shift"
  BY <1>2 DEF LogView, HistoryOf
<1>. QED
  BY <1>1, <1>2

-----------------------------------------------------------------------------
\* What ShellSpec sees.
Line == IF pc = "read" THEN Typed ELSE <<>>
Phase == IF pc \in {"shift", "parse"} THEN "entered" ELSE pc
ArgsView == IF pc = "run" THEN Args ELSE <<>>
Views == <<Line, LogView, Phase, ArgsView>>

\* The line in cmd, as it is typed.
LEMMA LineTyped ==
  ASSUME RInv, pc = "read"
  PROVE  Typed \in Seq(Keys) /\ Len(Typed) = pos /\ \A n \in 1 .. pos : Typed[n] = cmd[n - 1]
<1>1. pos \in Nat /\ \A c \in 0 .. (pos - 1) : cmd[c] \in Keys
  BY ShellAssumption DEF RInv, IInv, TypeOK, Edited, Cells
<1>2. \A n \in 1 .. pos : cmd[n - 1] \in Keys
  BY <1>1
<1>. QED
  BY <1>1, <1>2 DEF Typed

\* A step that only edits the line.
LEMMA Edits ==
  ASSUME pc = "read", pc' = "read", UNCHANGED log, NEW l, Typed' = l
  PROVE  Abstract!Edit(l)
<1>1. Line' = l /\ Phase = "read" /\ Phase' = Phase /\ ArgsView = <<>> /\ ArgsView' = <<>>
  BY DEF Line, Phase, ArgsView
<1>2. LogView' = LogView
  BY DEF LogView, log
<1>. QED
  BY <1>1, <1>2 DEF Abstract!Edit, Line, Phase, ArgsView

LEMMA TypeShown ==
  ASSUME RInv, NEW c \in Keys, Type(c)
  PROVE  Abstract!SpecType(c)
<1>1. /\ pc = "read" /\ pc' = "read" /\ pos < MAX_LEN - 1 /\ UNCHANGED log
      /\ cmd' = [cmd EXCEPT ![pos] = c] /\ pos' = pos + 1
      /\ pos \in Nat /\ pos \in DOMAIN cmd
  BY ShellAssumption DEF Type, RInv, IInv, TypeOK, Cells
<1>2. Typed \in Seq(Keys) /\ Len(Typed) = pos /\ \A n \in 1 .. pos : Typed[n] = cmd[n - 1]
  BY <1>1, LineTyped
<1>3. Typed' = Append(Typed, c)
  <2>1. Typed' = [n \in 1 .. (pos + 1) |-> IF n - 1 = pos THEN c ELSE cmd[n - 1]]
    <3>1. \A n \in 1 .. (pos + 1) : cmd'[n - 1] = IF n - 1 = pos THEN c ELSE cmd[n - 1]
      <4>. SUFFICES ASSUME NEW n \in 1 .. (pos + 1)
                    PROVE  cmd'[n - 1] = IF n - 1 = pos THEN c ELSE cmd[n - 1]
        OBVIOUS
      <4>1. n - 1 \in Cells /\ DOMAIN cmd = Cells
        BY <1>1, ShellAssumption DEF Cells, RInv, IInv, TypeOK
      <4>. QED
        BY <1>1, <4>1
    <3>. QED
      BY <1>1, <3>1 DEF Typed
  <2>2. \A n \in 1 .. (pos + 1) :
          Append(Typed, c)[n] = IF n - 1 = pos THEN c ELSE cmd[n - 1]
    BY <1>1, <1>2
  <2>3. Append(Typed, c) \in Seq(Keys) /\ Len(Append(Typed, c)) = pos + 1
    BY <1>1, <1>2
  <2>4. Append(Typed, c) = [n \in 1 .. (pos + 1) |-> Append(Typed, c)[n]]
    <3>. DEFINE q == Append(Typed, c)
    <3>. HIDE DEF q
    <3>1. q \in Seq(Keys) /\ Len(q) = pos + 1
      BY <2>3 DEF q
    <3>2. q = [n \in 1 .. (pos + 1) |-> q[n]]
      BY <3>1
    <3>. QED
      BY <3>2 DEF q
  <2>. QED
    BY <2>1, <2>2, <2>4
<1>4. Abstract!Edit(Append(Typed, c))
  BY <1>1, <1>3, Edits
<1>. QED
  BY <1>1, <1>2, <1>4 DEF Abstract!SpecType

LEMMA BackspaceShown ==
  ASSUME RInv, Backspace
  PROVE  Abstract!SpecErase
<1>1. /\ pc = "read" /\ pc' = "read" /\ UNCHANGED log
      /\ cmd' = cmd /\ pos' = pos - 1 /\ pos \in Nat /\ pos > 0
  BY ShellAssumption DEF Backspace, RInv, IInv, TypeOK, Cells
<1>2. Typed \in Seq(Keys) /\ Len(Typed) = pos /\ \A n \in 1 .. pos : Typed[n] = cmd[n - 1]
  BY <1>1, LineTyped
<1>3. Typed' = Abstract!Front(Typed)
  <2>1. Abstract!Front(Typed) = SubSeq(Typed, 1, pos - 1)
    BY <1>2 DEF Abstract!Front
  <2>2. Typed' = [n \in 1 .. (pos - 1) |-> cmd[n - 1]]
    BY <1>1 DEF Typed
  <2>3. SubSeq(Typed, 1, pos - 1) = [n \in 1 .. (pos - 1) |-> Typed[n]]
    BY <1>1, <1>2
  <2>. QED
    BY <1>1, <1>2, <2>1, <2>2, <2>3
<1>4. Abstract!Edit(Abstract!Front(Typed))
  BY <1>1, <1>3, Edits
<1>5. Typed # <<>>
  BY <1>1, <1>2
<1>. QED
  BY <1>1, <1>4, <1>5 DEF Abstract!SpecErase

LEMMA NoLineShown ==
  ASSUME RInv, CtrlC \/ EnterEmpty
  PROVE  Abstract!SpecCancel
<1>1. /\ pc = "read" /\ pc' = "read" /\ UNCHANGED log /\ pos' = 0
  BY DEF CtrlC, EnterEmpty, NoLine
<1>2. Typed' = <<>>
  BY <1>1 DEF Typed
<1>. QED
  BY <1>1, <1>2, Edits DEF Abstract!SpecCancel

\* A line is added to the log: if it has HISTORY lines, it loses the first.
LEMMA LogAppended ==
  ASSUME NEW h, NEW n \in 0 .. HISTORY, NEW s
  PROVE  Abstract!LastOf(Append(HistoryOf(h, n), s), HISTORY)
           = IF n < HISTORY THEN [k \in 1 .. (n + 1) |-> IF k <= n THEN h[k - 1] ELSE s]
                            ELSE Shifted(h, 1, s)
<1>. DEFINE V == {h[k - 1] : k \in 1 .. n} \cup {s}
            H == HistoryOf(h, n)
            X == Append(H, s)
<1>1. HISTORY \in Nat \ {0} /\ n \in Nat /\ n <= HISTORY
  BY ShellAssumption
<1>2. H \in Seq(V) /\ Len(H) = n /\ (\A k \in 1 .. n : H[k] = h[k - 1]) /\ s \in V
  <2>1. (\A k \in 1 .. n : h[k - 1] \in V) /\ s \in V
    OBVIOUS
  <2>. HIDE DEF V
  <2>. QED
    BY <1>1, <2>1 DEF HistoryOf
<1>. HIDE DEF H, V
<1>3. X \in Seq(V) /\ Len(X) = n + 1 /\ X[n + 1] = s /\ \A k \in 1 .. n : X[k] = h[k - 1]
  BY <1>1, <1>2
<1>. HIDE DEF X
<1>4. Abstract!LastOf(X, HISTORY)
        = SubSeq(X, IF Len(X) > HISTORY THEN Len(X) - HISTORY + 1 ELSE 1, Len(X))
  BY DEF Abstract!LastOf
<1>5. CASE n < HISTORY
  <2>1. Abstract!LastOf(X, HISTORY) = SubSeq(X, 1, n + 1)
    BY <1>1, <1>3, <1>4, <1>5
  <2>2. SubSeq(X, 1, n + 1) = [k \in 1 .. (n + 1) |-> X[k]]
    BY <1>1, <1>3
  <2>3. ASSUME NEW k \in 1 .. (n + 1) PROVE X[k] = IF k <= n THEN h[k - 1] ELSE s
    BY <1>1, <1>3
  <2>. QED
    BY <1>5, <2>1, <2>2, <2>3 DEF X, H
<1>6. CASE n = HISTORY
  <2>1. Abstract!LastOf(X, HISTORY) = SubSeq(X, 2, HISTORY + 1)
    <3>1. Len(X) > HISTORY /\ Len(X) - HISTORY + 1 = 2 /\ Len(X) = HISTORY + 1
      BY <1>1, <1>3, <1>6
    <3>. QED
      BY <1>4, <3>1
  <2>2. SubSeq(X, 2, HISTORY + 1) = [k \in 1 .. HISTORY |-> X[k + 1]]
    BY <1>1, <1>3, <1>6
  <2>3. ASSUME NEW k \in 1 .. HISTORY
        PROVE  X[k + 1] = IF k < 1 THEN h[k - 1] ELSE IF k < HISTORY THEN h[k] ELSE s
    <3>1. CASE k < HISTORY
      <4>1. k + 1 \in 1 .. n /\ (k + 1) - 1 = k /\ ~ (k < 1)
        BY <1>1, <1>6, <3>1
      <4>. QED
        BY <1>3, <3>1, <4>1
    <3>2. CASE k = HISTORY
      BY <1>1, <1>3, <1>6, <3>2
    <3>. QED
      BY <1>1, <3>1, <3>2
  <2>4. [k \in 1 .. HISTORY |-> X[k + 1]] = Shifted(h, 1, s)
    BY <2>3 DEF Shifted
  <2>5. ~ (n < HISTORY)
    BY <1>1, <1>6
  <2>6. Abstract!LastOf(X, HISTORY) = Shifted(h, 1, s)
    BY ONLY <2>1, <2>2, <2>4
  <2>. QED
    BY ONLY <2>5, <2>6 DEF X, H
<1>. QED
  BY <1>1, <1>5, <1>6

LEMMA EnterShown ==
  ASSUME RInv, RInv', Enter
  PROVE  Abstract!SpecEnter
<1>1. /\ pc = "read" /\ pc' \in {"shift", "parse"} /\ pos \in Nat /\ pos > 0
      /\ cmd' = [cmd EXCEPT ![pos] = NUL] /\ cmd \in [Cells -> Keys \cup {NUL, JUNK}]
      /\ pos \in Cells /\ history_count \in 0 .. HISTORY /\ HISTORY \in Nat
  BY SMTT(30), EnterStep, ShellAssumption DEF Enter, RInv, IInv, TypeOK, Cells
<1>2. Typed \in Seq(Keys) /\ Len(Typed) = pos /\ \A n \in 1 .. pos : Typed[n] = cmd[n - 1]
  BY <1>1, LineTyped
<1>3. \A c \in 0 .. (pos - 1) : cmd'[c] = cmd[c] /\ cmd[c] \in Keys
  BY <1>1, ShellAssumption DEF Cells, RInv, IInv, Edited
<1>4. StringAt(cmd', 0) = Typed
  <2>1. StringAt(cmd', 0) = [n \in 1 .. pos |-> cmd'[n - 1]]
    <3>1. cmd'[pos] = NUL /\ \A c \in 0 .. (pos - 1) : cmd'[c] \in Keys
      BY <1>1, <1>3
    <3>2. \A b : b[pos] = NUL /\ (\A c \in 0 .. (pos - 1) : b[c] \in Keys)
                 => StringAt(b, 0) = [n \in 1 .. pos |-> b[n - 1]]
      <4>1. pos \in Cells
        BY <1>1
      <4>. QED
        BY ONLY <4>1, LineIsString
    <3>. QED
      BY <3>1, <3>2
  <2>2. \A n \in 1 .. pos : cmd'[n - 1] = cmd[n - 1]
    BY <1>1, <1>3
  <2>. QED
    BY <2>1, <2>2 DEF Typed
<1>5. LogView = HistoryOf(history, history_count)
  BY <1>1, LogIs
<1>9. Abstract!LastOf(Append(HistoryOf(history, history_count), Typed), HISTORY)
        = IF history_count < HISTORY
            THEN [k \in 1 .. (history_count + 1) |->
                    IF k <= history_count THEN history[k - 1] ELSE Typed]
            ELSE Shifted(history, 1, Typed)
  <2>1. history_count \in 0 .. HISTORY
    BY <1>1
  <2>. QED
    BY ONLY <2>1, LogAppended
<1>6. LogView' = Abstract!LastOf(Append(HistoryOf(history, history_count), Typed), HISTORY)
  <2>1. CASE history_count < HISTORY
    <3>1. /\ pc' = "parse" /\ history' = [history EXCEPT ![history_count] = Typed]
          /\ history_count' = history_count + 1
      BY <1>4, <2>1 DEF Enter, StartParse
    <3>2. LogView' = HistoryOf(history', history_count + 1)
      BY <3>1 DEF LogView, HistoryOf
    <3>3. ASSUME NEW k \in 1 .. (history_count + 1)
          PROVE  history'[k - 1] = IF k <= history_count THEN history[k - 1] ELSE Typed
      <4>1. k - 1 \in DOMAIN history /\ (k <= history_count <=> k - 1 # history_count)
        BY <1>1, <2>1 DEF RInv, IInv, TypeOK, Slots
      <4>. QED
        BY <3>1, <4>1
    <3>4. HistoryOf(history', history_count + 1)
            = [k \in 1 .. (history_count + 1) |->
                 IF k <= history_count THEN history[k - 1] ELSE Typed]
      BY <3>3 DEF HistoryOf
    <3>. QED
      BY ONLY <2>1, <3>2, <3>4, <1>9
  <2>2. CASE ~ (history_count < HISTORY)
    <3>1. pc' = "shift" /\ i' = 1 /\ history' = history
      BY <2>2 DEF Enter, log
    <3>2. LogView' = Shifted(history', i', StringAt(cmd', 0))
      <4>1. history_count' = HISTORY /\ i' \in 1 .. HISTORY
        BY <3>1 DEF RInv, IInv, Edited
      <4>. QED
        BY <3>1, <4>1, ShiftView DEF LogView, HistoryOf
    <3>. QED
      BY ONLY <1>4, <2>2, <3>1, <3>2, <1>9
  <2>. QED
    BY <2>1, <2>2
<1>7. /\ Phase = "read" /\ Phase' = "entered" /\ Line = Typed /\ Line' = <<>>
      /\ ArgsView' = ArgsView /\ Typed # <<>>
  BY <1>1, <1>2 DEF Phase, Line, ArgsView
<1>. QED
  BY <1>5, <1>6, <1>7 DEF Abstract!SpecEnter, Phase, Line, ArgsView

LEMMA ShiftingHidden ==
  ASSUME RInv, Shifting
  PROVE  UNCHANGED Views
<1>1. /\ pc = "shift" /\ history_count = HISTORY /\ i \in 1 .. HISTORY
      /\ HISTORY \in Nat /\ DOMAIN history = Slots
      /\ cmd' = cmd /\ history_count' = history_count /\ pc' \in {"shift", "parse"}
  BY ShellAssumption DEF Shifting, Shift, ShiftDone, StartParse, edit, RInv, IInv, TypeOK, Edited
<1>. DEFINE s == StringAt(cmd, 0)
<1>2. LogView = Shifted(history, i, s)
  BY <1>1, LogIs
<1>3. CASE Shift
  <2>1. /\ pc' = "shift" /\ i < HISTORY /\ i' = i + 1
        /\ history' = [history EXCEPT ![i - 1] = history[i]]
    BY <1>3 DEF Shift
  <2>2. LogView' = Shifted(history', i + 1, s)
    <3>1. LogView' = SubSeq(HistoryOf(history', HISTORY), 1, (i + 1) - 1)
                       \o SubSeq(HistoryOf(history', HISTORY), (i + 1) + 1, HISTORY) \o <<s>>
      BY <1>1, <2>1 DEF LogView, HistoryOf
    <3>2. i + 1 \in 1 .. HISTORY
      BY <1>1, <2>1
    <3>. QED
      BY <3>1, <3>2, ShiftView
  <2>3. ASSUME NEW k \in 1 .. HISTORY
        PROVE  (IF k < i + 1 THEN history'[k - 1] ELSE IF k < HISTORY THEN history'[k] ELSE s)
                 = IF k < i THEN history[k - 1] ELSE IF k < HISTORY THEN history[k] ELSE s
    <3>1. k - 1 \in DOMAIN history /\ (k < HISTORY => k \in DOMAIN history)
      BY <1>1 DEF Slots
    <3>2. CASE k < i
      <4>1. k - 1 # i - 1 /\ k < i + 1
        BY <1>1, <3>2
      <4>. QED
        BY <2>1, <3>1, <3>2, <4>1
    <3>3. CASE k = i
      <4>1. k < i + 1 /\ ~ (k < i)
        BY <1>1, <3>3
      <4>. QED
        BY <2>1, <3>1, <3>3, <4>1
    <3>4. CASE i < k
      <4>1. k # i - 1 /\ ~ (k < i + 1) /\ ~ (k < i)
        BY <1>1, <3>4
      <4>. QED
        BY <2>1, <3>1, <4>1
    <3>. QED
      BY <1>1, <3>2, <3>3, <3>4
  <2>4. LogView' = LogView
    BY <1>2, <2>2, <2>3 DEF Shifted
  <2>. QED
    BY <1>1, <2>1, <2>4 DEF Views, Line, Phase, ArgsView
<1>4. CASE ShiftDone
  <2>1. /\ pc' = "parse" /\ i = HISTORY /\ history' = [history EXCEPT ![HISTORY - 1] = s]
    BY <1>1, <1>4 DEF ShiftDone, StartParse
  <2>2. LogView' = HistoryOf(history', HISTORY)
    BY <1>1, <2>1 DEF LogView, HistoryOf
  <2>3. ASSUME NEW k \in 1 .. HISTORY
        PROVE  history'[k - 1] = IF k < i THEN history[k - 1]
                                 ELSE IF k < HISTORY THEN history[k] ELSE s
    <3>1. k - 1 \in DOMAIN history
      BY <1>1 DEF Slots
    <3>2. CASE k < HISTORY
      <4>1. k - 1 # HISTORY - 1
        BY <1>1, <3>2
      <4>. QED
        BY <2>1, <3>1, <3>2, <4>1
    <3>3. CASE k = HISTORY
      BY <1>1, <2>1, <3>1, <3>3
    <3>. QED
      BY <1>1, <3>2, <3>3
  <2>4. LogView' = LogView
    BY <1>2, <2>2, <2>3 DEF Shifted, HistoryOf
  <2>. QED
    BY <1>1, <2>1, <2>4 DEF Views, Line, Phase, ArgsView
<1>. QED
  BY <1>3, <1>4 DEF Shifting

LEMMA ParseHidden ==
  ASSUME RInv, Parse
  PROVE  UNCHANGED Views
<1>1. pc = "parse" /\ pc' = "parse" /\ UNCHANGED <<history, history_count>>
  BY DEF Parse, ParseBlank, ParseChar, log
<1>. QED
  BY <1>1 DEF Views, Line, Phase, ArgsView, LogView

\* Where parse_args stops, its arguments are the words of the line in the log.
LEMMA ArgsAreWords ==
  ASSUME RInv, pc = "parse", ~ Parsing
  PROVE  Abstract!Words(Abstract!Last(LogView)) = Args
<1>1. /\ history_count \in 1 .. HISTORY /\ history_count - 1 \in Slots
      /\ Entered \in Seq(Keys) /\ Len(Entered) = pos /\ pos \in Nat /\ pos < MAX_LEN
      /\ i \in 0 .. pos /\ cmd \in [Cells -> Keys \cup {NUL, JUNK}] /\ cmd[pos] = NUL
      /\ argv \in Seq(Cells) /\ Len(argv) <= MAX_ARGS
  BY ParseAt
<1>2. CutTo(Entered, cmd, i) /\ Found(Entered, argv, i)
  BY DEF RInv, Parsed
<1>3. Abstract!Last(LogView) = Entered
  <2>1. LogView = HistoryOf(history, history_count)
    BY LogIs
  <2>2. Len(HistoryOf(history, history_count)) = history_count
    BY <1>1 DEF HistoryOf
  <2>. QED
    BY <1>1, <2>1, <2>2 DEF Abstract!Last, HistoryOf, Entered
<1>4. i = pos \/ Len(argv) = MAX_ARGS
  <2>1. CASE Len(argv) < MAX_ARGS
    <3>1. cmd[i] = NUL
      BY <2>1 DEF Parsing
    <3>2. ASSUME i # pos PROVE FALSE
      <4>1. i \in 0 .. (Len(Entered) - 1) /\ i + 1 \in 1 .. Len(Entered)
        BY <1>1, <3>2
      <4>2. cmd[i] = Entered[i + 1] /\ Entered[i + 1] \in Keys
        BY <1>1, <1>2, <4>1 DEF CutTo
      <4>. QED
        BY <3>1, <4>2, ShellAssumption
    <3>. QED
      BY <3>2
  <2>2. CASE ~ (Len(argv) < MAX_ARGS)
    BY <1>1, <2>2, ShellAssumption
  <2>. QED
    BY <2>1, <2>2
<1>5. pos \in Cells
  BY DEF RInv, IInv, TypeOK
<1>6. Abstract!Words(Entered) = [n \in 1 .. Len(argv) |-> StringAt(cmd, argv[n])]
  BY <1>1, <1>2, <1>4, <1>5, WordsFound
<1>7. DOMAIN argv = 1 .. Len(argv)
  BY <1>1
<1>. QED
  BY <1>3, <1>6, <1>7 DEF Args

LEMMA DispatchShown ==
  ASSUME RInv, Dispatch
  PROVE  Abstract!SpecDispatch
<1>. DEFINE w == Abstract!Words(Abstract!Last(LogView))
<1>1. pc = "parse" /\ ~ Parsing /\ UNCHANGED <<cmd, history, history_count>>
  BY DEF Dispatch, log
<1>2. w = Args
  BY <1>1, ArgsAreWords
<1>3. argv # <<>> <=> Args # <<>>
  <2>1. argv \in Seq(Cells)
    BY <1>1, ParseAt
  <2>. QED
    BY <2>1 DEF Args
<1>4. Phase = "entered" /\ Line = <<>> /\ ArgsView = <<>>
  BY <1>1 DEF Phase, Line, ArgsView
<1>. HIDE DEF w
<1>5. CASE argv # <<>> /\ Args[1] \in Names
  <2>1. pc' = "run" /\ UNCHANGED argv
    BY <1>5 DEF Dispatch, args
  <2>2. Phase' = "run" /\ Line' = <<>> /\ ArgsView' = Args /\ LogView' = LogView
    BY <1>1, <2>1 DEF Phase, Line, ArgsView, Args, LogView
  <2>. QED
    BY <1>2, <1>3, <1>4, <1>5, <2>2 DEF Abstract!SpecDispatch, Phase, Line, ArgsView, w
<1>6. CASE ~ (argv # <<>> /\ Args[1] \in Names)
  <2>1. pc' = "read" /\ pos' = 0
    BY <1>6 DEF Dispatch, Prompt, Leave
  <2>2. Phase' = "read" /\ Line' = <<>> /\ ArgsView' = <<>> /\ LogView' = LogView
    BY <1>1, <2>1 DEF Phase, Line, ArgsView, LogView, Typed
  <2>. QED
    BY <1>2, <1>3, <1>4, <1>6, <2>2 DEF Abstract!SpecDispatch, Phase, Line, ArgsView, w
<1>. QED
  BY <1>5, <1>6

LEMMA ReturnShown ==
  ASSUME RInv, Return
  PROVE  Abstract!SpecReturn
<1>1. pc = "run" /\ pos' = 0 /\ REBOOT # SHUTDOWN
  BY ShellAssumption DEF Return, Prompt, Leave
<1>2. Phase = "run" /\ Line = <<>> /\ ArgsView = Args
  BY <1>1 DEF Phase, Line, ArgsView
<1>3. CASE Args[1] = SHUTDOWN
  <2>1. pc' = "off" /\ UNCHANGED <<history, history_count>>
    BY <1>3 DEF Return, Leave, log
  <2>2. Phase' = "off" /\ Line' = <<>> /\ ArgsView' = <<>> /\ LogView' = LogView
    BY <1>1, <2>1 DEF Phase, Line, ArgsView, LogView
  <2>. QED
    BY <1>1, <1>2, <1>3, <2>2 DEF Abstract!SpecReturn, Phase, Line, ArgsView
<1>4. CASE Args[1] # SHUTDOWN
  <2>1. pc' = "read"
    BY <1>4 DEF Return, Prompt, Leave
  <2>2. Phase' = "read" /\ Line' = <<>> /\ ArgsView' = <<>>
    BY <1>1, <2>1 DEF Phase, Line, ArgsView, Typed
  <2>3. LogView' = IF Args[1] = REBOOT THEN <<>> ELSE LogView
    <3>1. CASE Args[1] = REBOOT
      <4>1. history_count' = 0
        BY <1>4, <3>1 DEF Return
      <4>2. LogView' = [n \in 1 .. 0 |-> history'[n - 1]]
        BY <2>1, <4>1 DEF LogView
      <4>3. [n \in 1 .. 0 |-> history'[n - 1]] = <<>>
        OBVIOUS
      <4>. QED
        BY <3>1, <4>2, <4>3
    <3>2. CASE Args[1] # REBOOT
      <4>1. UNCHANGED <<history, history_count>>
        BY <1>4, <3>2 DEF Return, log
      <4>2. LogView' = LogView
        BY <1>1, <2>1, <4>1 DEF LogView
      <4>. QED
        BY <3>2, <4>2
    <3>. QED
      BY <3>1, <3>2
  <2>. QED
    BY <1>1, <1>2, <1>4, <2>2, <2>3 DEF Abstract!SpecReturn, Phase, Line, ArgsView
<1>. QED
  BY <1>3, <1>4

LEMMA FaultShown ==
  ASSUME RInv, Fault
  PROVE  Abstract!SpecFault
<1>1. /\ pc = "run" /\ pc' = "panic" /\ Args[1] = PEEK /\ Len(argv) > 1
      /\ UNCHANGED <<history, history_count>>
  BY DEF Fault, Leave, log
<1>2. Len(Args) = Len(argv)
  BY DEF Args, RInv, IInv, TypeOK
<1>3. Phase = "run" /\ Line = <<>> /\ ArgsView = Args
  BY <1>1 DEF Phase, Line, ArgsView
<1>4. Phase' = "panic" /\ Line' = <<>> /\ ArgsView' = <<>> /\ LogView' = LogView
  BY <1>1 DEF Phase, Line, ArgsView, LogView
<1>. QED
  BY <1>1, <1>2, <1>3, <1>4 DEF Abstract!SpecFault, Phase, Line, ArgsView

(***************************************************************************)
(* The shell does what ShellSpec says (shell.c:47-62, 101-163): what is    *)
(* typed is the line that is logged, the oldest line goes when the log is  *)
(* full, and the command runs with the line's words, whatever earlier      *)
(* lines have left in cmd; for every length of a line and of the history,  *)
(* and every number of arguments.                                          *)
(***************************************************************************)
THEOREM Implements == Spec => ImplementsShellSpec
<1>1. Init => Abstract!SpecInit
  <2>. SUFFICES ASSUME Init PROVE Abstract!SpecInit
    OBVIOUS
  <2>1. pc = "read" /\ pos = 0 /\ history_count = 0
    BY DEF Init
  <2>2. Line = <<>> /\ LogView = <<>> /\ Phase = "read" /\ ArgsView = <<>>
    BY <2>1 DEF Line, LogView, Phase, ArgsView, Typed
  <2>. QED
    BY <2>2 DEF Abstract!SpecInit, Line, Phase, ArgsView
<1>2. RInv /\ RInv' /\ [Next]_vars => [Abstract!SpecNext]_Views
  <2>. SUFFICES ASSUME RInv, RInv', [Next]_vars
                PROVE  Abstract!SpecNext \/ UNCHANGED Views
    OBVIOUS
  <2>1. CASE Keyboard
    BY <2>1, TypeShown, BackspaceShown, NoLineShown, EnterShown DEF Keyboard, Abstract!SpecNext
  <2>2. CASE Shifting
    BY <2>2, ShiftingHidden
  <2>3. CASE Parse
    BY <2>3, ParseHidden
  <2>4. CASE Dispatch
    BY <2>4, DispatchShown DEF Abstract!SpecNext
  <2>5. CASE Command
    BY <2>5, ReturnShown, FaultShown DEF Command, Abstract!SpecNext
  <2>6. CASE UNCHANGED vars
    <3>1. UNCHANGED <<cmd, pos, history, history_count, argv, in_arg, i, pc>>
      BY <2>6 DEF vars, edit, log, args
    <3>. QED
      BY <3>1 DEF Views, Line, LogView, Phase, ArgsView, Args, Typed
  <2>. QED
    BY <2>1, <2>2, <2>3, <2>4, <2>5, <2>6 DEF Next
<1>. QED
  BY <1>1, <1>2, Invariance, PTL
     DEF Spec, ImplementsShellSpec, Abstract!ShellSpecification, Views, Line, Phase, ArgsView
=============================================================================
