-------------------------------- MODULE Shell -------------------------------
(***************************************************************************)
(* kernel/shell.c: shell_run and parse_args, with the arrays they share.   *)
(* The line is edited, copied to the history, cut into arguments by NULs   *)
(* and handed to a command, all in one array cmd that is never cleared:    *)
(* what earlier lines left lies behind the line that is there now.         *)
(*                                                                         *)
(* One action is a character read, or an iteration of one of the loops.    *)
(* Strings in the history are what strcpy copied; cmd is kept character by *)
(* character.  What the shell and its commands print is left out.          *)
(***************************************************************************)
EXTENDS Integers, Sequences

CONSTANTS
  Keys,               \* the printable characters, BLANK among them
  MAX_LEN,            \* SHELL_MAX_CMD_LEN
  MAX_ARGS,           \* SHELL_MAX_ARGS
  HISTORY,            \* SHELL_HISTORY_SIZE
  Names,              \* the names shell_init registers, all different
  REBOOT, SHUTDOWN,   \* the two of them that do not return
  PEEK,               \* the one that may fault
  Lines               \* bound: what somebody may be typing

BLANK == " "
NUL == "NUL"
JUNK == "JUNK"        \* cmd before anything was stored there

ASSUME ShellAssumption ==
  /\ {MAX_LEN, MAX_ARGS, HISTORY} \subseteq Nat \ {0} /\ MAX_LEN > 1
  /\ BLANK \in Keys /\ NUL \notin Keys /\ JUNK \notin Keys
  /\ Names \subseteq Seq(Keys) /\ {REBOOT, SHUTDOWN, PEEK} \subseteq Names
  /\ REBOOT # SHUTDOWN /\ PEEK \notin {REBOOT, SHUTDOWN}
  /\ Lines \subseteq Seq(Keys)

VARIABLES
  cmd, pos,                  \* the line's array, and where the next key goes
  history, history_count,
  argv, in_arg,              \* parse_args: where the arguments begin; argc is Len(argv)
  i,                         \* the index of the loop shell_run is in
  pc                         \* read, shift, parse, run, off, panic

edit == <<cmd, pos>>
log == <<history, history_count>>
args == <<argv, in_arg>>
vars == <<edit, log, args, i, pc>>

Cells == 0 .. (MAX_LEN - 1)
Slots == 0 .. (HISTORY - 1)

\* The C string that begins at cell k.
StringAt(b, k) ==
  LET end == CHOOSE e \in k .. MAX_LEN :
               /\ e < MAX_LEN => b[e] = NUL
               /\ \A j \in k .. (e - 1) : b[j] # NUL
  IN [n \in 1 .. (end - k) |-> b[k + n - 1]]

Typed == [n \in 1 .. pos |-> cmd[n - 1]]
Args == [n \in DOMAIN argv |-> StringAt(cmd, argv[n])]
-----------------------------------------------------------------------------
Init ==
  /\ cmd = [c \in Cells |-> JUNK] /\ pos = 0
  /\ history = [h \in Slots |-> <<>>] /\ history_count = 0
  /\ argv = <<>> /\ in_arg = FALSE
  /\ i = 0
  /\ pc = "read"

\* Somebody types a line of Lines, or more than there is room for.
Typing(c) ==
  pos < MAX_LEN - 1 =>
    \E l \in Lines : pos < Len(l) /\ SubSeq(l, 1, pos + 1) = Append(Typed, c)

\* Room for the key but not for a NUL after it.
TypeNoRoom(c) ==
  /\ pc = "read" /\ Typing(c)
  /\ pos < MAX_LEN
  /\ cmd' = [cmd EXCEPT ![pos] = c] /\ pos' = pos + 1
  /\ UNCHANGED <<log, args, i, pc>>

Type(c) ==
  /\ pc = "read" /\ Typing(c)
  /\ pos < MAX_LEN - 1
  /\ cmd' = [cmd EXCEPT ![pos] = c] /\ pos' = pos + 1
  /\ UNCHANGED <<log, args, i, pc>>

Backspace ==
  /\ pc = "read" /\ pos > 0
  /\ pos' = pos - 1
  /\ UNCHANGED <<cmd, log, args, i, pc>>

\* Enter with nothing typed, and ^C: back to the prompt with a NUL stored.
NoLine(p) ==
  /\ pc = "read"
  /\ p = 0
  /\ cmd' = [cmd EXCEPT ![p] = NUL] /\ pos' = p
  /\ UNCHANGED <<log, args, i, pc>>
CtrlC == NoLine(0)
EnterEmpty == NoLine(pos)

StartParse == i' = 0 /\ pc' = "parse"

\* Enter: the line ends here, and is copied to the history if that has room.
Enter ==
  /\ pc = "read" /\ pos > 0
  /\ cmd' = [cmd EXCEPT ![pos] = NUL]
  /\ IF history_count < HISTORY
       THEN /\ history' = [history EXCEPT ![history_count] = StringAt(cmd', 0)]
            /\ history_count' = history_count + 1
            /\ StartParse
       ELSE i' = 1 /\ pc' = "shift" /\ UNCHANGED log
  /\ UNCHANGED <<pos, args>>

\* Moves the history the other way.
ShiftUp ==
  /\ pc = "shift" /\ i < HISTORY
  /\ history' = [history EXCEPT ![i] = history[i - 1]]
  /\ i' = i + 1
  /\ UNCHANGED <<edit, history_count, args, pc>>

\* The loop that makes room in a full history, and the copy after it.
Shift ==
  /\ pc = "shift" /\ i < HISTORY
  /\ history' = [history EXCEPT ![i - 1] = history[i]]
  /\ i' = i + 1
  /\ UNCHANGED <<edit, history_count, args, pc>>

ShiftDone ==
  /\ pc = "shift" /\ i >= HISTORY
  /\ history' = [history EXCEPT ![HISTORY - 1] = StringAt(cmd, 0)]
  /\ StartParse
  /\ UNCHANGED <<edit, history_count, args>>
-----------------------------------------------------------------------------
\* parse_args' loop stops at the line's NUL, or when argv is full.
Parsing == cmd[i] # NUL /\ Len(argv) < MAX_ARGS

ParseBlank ==
  /\ pc = "parse" /\ Parsing /\ cmd[i] = BLANK
  /\ cmd' = [cmd EXCEPT ![i] = NUL]
  /\ in_arg' = FALSE
  /\ i' = i + 1
  /\ UNCHANGED <<pos, log, argv, pc>>

\* Does not step over what is already part of an argument.
ParseCharStuck ==
  /\ pc = "parse" /\ Parsing /\ cmd[i] # BLANK
  /\ argv' = IF in_arg THEN argv ELSE Append(argv, i)
  /\ in_arg' = TRUE
  /\ i' = IF in_arg THEN i ELSE i + 1
  /\ UNCHANGED <<edit, log, pc>>

ParseChar ==
  /\ pc = "parse" /\ Parsing /\ cmd[i] # BLANK
  /\ argv' = IF in_arg THEN argv ELSE Append(argv, i)
  /\ in_arg' = TRUE
  /\ i' = i + 1
  /\ UNCHANGED <<edit, log, pc>>

\* Back to the prompt, or to nowhere; parse_args' and shell_run's locals are gone.
Leave(p) == pc' = p /\ pos' = 0 /\ argv' = <<>> /\ in_arg' = FALSE /\ i' = 0
Prompt == Leave("read")

\* strcmp with every registered name, and the call of the one that matches.
Dispatch ==
  /\ pc = "parse" /\ ~ Parsing
  /\ IF argv # <<>> /\ Args[1] \in Names
       THEN pc' = "run" /\ UNCHANGED <<pos, args, i>>
       ELSE Prompt
  /\ UNCHANGED <<cmd, log>>

\* The command returns, or resets or stops the board.  After a reset boot.S
\* has cleared .bss, where the history is, and shell_init has run again; the
\* stack, where cmd is, has not been cleared.
Return ==
  /\ pc = "run"
  /\ IF Args[1] = SHUTDOWN
       THEN Leave("off") /\ UNCHANGED log
       ELSE /\ Prompt
            /\ IF Args[1] = REBOOT
                 THEN history' = [h \in Slots |-> <<>>] /\ history_count' = 0
                 ELSE UNCHANGED log
  /\ UNCHANGED cmd

\* peek reads whatever address it is given.  Where nothing is mapped there, or
\* the address is not a word's, the exception ends in handle_sync_svc's loop.
Fault ==
  /\ pc = "run"
  /\ Args[1] = PEEK /\ Len(argv) > 1
  /\ Leave("panic")
  /\ UNCHANGED <<cmd, log>>

Command == Return \/ Fault
Shifting == Shift \/ ShiftDone
Parse == ParseBlank \/ ParseChar
Keyboard == \/ \E c \in Keys : Type(c)
            \/ Backspace \/ CtrlC \/ EnterEmpty \/ Enter

Next == Keyboard \/ Shifting \/ Parse \/ Dispatch \/ Command

Spec == Init /\ [][Next]_vars

\* The CPU goes on with a loop it is in, and a command returns or faults: none
\* has a loop without an end but in the mailbox, whose calls return (Power).
FairSpec ==
  Spec /\ WF_vars(Shifting) /\ WF_vars(Parse) /\ WF_vars(Dispatch) /\ WF_vars(Command)
-----------------------------------------------------------------------------
(***************************************************************************)
(* Types; and that nothing is stored outside cmd and argv, and from where  *)
(* the line has ended there is a NUL in front of every reader.             *)
(***************************************************************************)
TypeOK ==
  /\ cmd \in [Cells -> Keys \cup {NUL, JUNK}] /\ pos \in Cells
  /\ DOMAIN history = Slots /\ history_count \in 0 .. HISTORY
  /\ \A h \in Slots : history[h] \in Seq(Keys) /\ Len(history[h]) < MAX_LEN
  /\ argv \in Seq(Cells) /\ Len(argv) <= MAX_ARGS /\ in_arg \in BOOLEAN
  /\ i \in Nat
  /\ pc \in {"read", "shift", "parse", "run", "off", "panic"}
  /\ pc \in {"shift", "parse", "run"} => cmd[pos] = NUL /\ (pc # "shift" => i <= pos)

(***************************************************************************)
(* The shell does what ShellSpec says: while the history is being shifted  *)
(* (shell.c:139-142) the log is what it is going to be; the words are the  *)
(* entered line's, whatever earlier lines and their NULs have left in cmd  *)
(* (shell.c:47-62), and the history keeps the line that parsing destroys.  *)
(***************************************************************************)
LogView ==
  LET h == [n \in 1 .. history_count |-> history[n - 1]] IN
    IF pc = "shift"
      THEN SubSeq(h, 1, i - 1) \o SubSeq(h, i + 1, HISTORY) \o <<StringAt(cmd, 0)>>
      ELSE h

Abstract == INSTANCE ShellSpec WITH
  LIMIT <- MAX_LEN - 1,
  line <- IF pc = "read" THEN Typed ELSE <<>>,
  log <- LogView,
  phase <- IF pc \in {"shift", "parse"} THEN "entered" ELSE pc,
  args <- IF pc = "run" THEN Args ELSE <<>>
ImplementsShellSpec == Abstract!ShellSpecification

(***************************************************************************)
(* Every line entered is done with (shell.c:101-163): each loop over cmd   *)
(* and the history ends.  And the prompt comes back, unless the line just  *)
(* logged was to switch the board off, or to peek at an address            *)
(* (shell.c:469), whatever else has been typed before it.                  *)
(***************************************************************************)
Busy == pc \in {"shift", "parse", "run"}
MayHalt ==
  LET w == Abstract!Words(Abstract!Last(LogView)) IN
    w # <<>> /\ (w[1] = SHUTDOWN \/ (w[1] = PEEK /\ Len(w) > 1))
PromptReturns == (Busy ~> ~ Busy) /\ (Busy /\ ~ MayHalt ~> pc = "read")
=============================================================================
