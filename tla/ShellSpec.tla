----------------------------- MODULE ShellSpec ------------------------------
(***************************************************************************)
(* What the shell of kernel/shell.c promises the person typing, without    *)
(* its buffers and loops: a line that can be corrected and given up, a log *)
(* of the last lines entered, and the command the line names run with the  *)
(* line's words.                                                           *)
(***************************************************************************)
EXTENDS Integers, Sequences, FiniteSets, SequencesExt

CONSTANTS
  Keys,               \* the printable characters, BLANK among them
  LIMIT,              \* the longest line
  MAX_ARGS,           \* the most words
  HISTORY,            \* the lines the log keeps
  Names,              \* the commands
  REBOOT, SHUTDOWN,   \* the two of them that do not return
  PEEK                \* the one that may fault

VARIABLES
  line,     \* what has been typed
  log,      \* the last lines entered, oldest first
  phase,    \* read, entered, run, off or panic
  args      \* the words, while their command runs

BLANK == " "

\* Where words begin, where the n-th does (n - 1 begin before it), and where
\* one that begins at k ends.
Starts(s) == {k \in DOMAIN s : s[k] # BLANK /\ (k > 1 => s[k - 1] = BLANK)}
Begin(s, n) == CHOOSE k \in Starts(s) : Cardinality({j \in Starts(s) : j < k}) = n - 1
End(s, k) ==
  CHOOSE e \in k .. Len(s) :
    /\ \A j \in k .. e : s[j] # BLANK
    /\ e < Len(s) => s[e + 1] = BLANK

\* The words of a line; the last one there is room for is the rest of it.
Words(s) ==
  LET count == Cardinality(Starts(s)) IN
    [n \in 1 .. (IF count < MAX_ARGS THEN count ELSE MAX_ARGS) |->
       SubSeq(s, Begin(s, n), IF n = MAX_ARGS THEN Len(s) ELSE End(s, Begin(s, n)))]

LastOf(s, n) == SubSeq(s, IF Len(s) > n THEN Len(s) - n + 1 ELSE 1, Len(s))
-----------------------------------------------------------------------------
SpecInit == line = <<>> /\ log = <<>> /\ phase = "read" /\ args = <<>>

Edit(l) == phase = "read" /\ line' = l /\ UNCHANGED <<log, phase, args>>

SpecType(c) == Len(line) < LIMIT /\ Edit(Append(line, c))
SpecErase == line # <<>> /\ Edit(Front(line))
SpecCancel == Edit(<<>>)

SpecEnter ==
  /\ phase = "read" /\ line # <<>>
  /\ log' = LastOf(Append(log, line), HISTORY)
  /\ line' = <<>> /\ phase' = "entered"
  /\ UNCHANGED args

\* A line without words, or whose first is no command, runs nothing.
SpecDispatch ==
  /\ phase = "entered"
  /\ LET w == Words(Last(log)) IN
       IF w # <<>> /\ w[1] \in Names
         THEN phase' = "run" /\ args' = w
         ELSE phase' = "read" /\ UNCHANGED args
  /\ UNCHANGED <<line, log>>

SpecReturn ==
  /\ phase = "run"
  /\ phase' = IF args[1] = SHUTDOWN THEN "off" ELSE "read"
  /\ log' = IF args[1] = REBOOT THEN <<>> ELSE log
  /\ args' = <<>>
  /\ UNCHANGED line

SpecFault ==
  /\ phase = "run"
  /\ args[1] = PEEK /\ Len(args) > 1
  /\ phase' = "panic" /\ args' = <<>>
  /\ UNCHANGED <<line, log>>

SpecNext ==
  \/ \E c \in Keys : SpecType(c)
  \/ SpecErase \/ SpecCancel \/ SpecEnter \/ SpecDispatch \/ SpecReturn \/ SpecFault

ShellSpecification == SpecInit /\ [][SpecNext]_<<line, log, phase, args>>
=============================================================================
