------------------------------ MODULE Console -------------------------------
(***************************************************************************)
(* drivers/fb.c: the frame buffer the VideoCore grants, and the functions  *)
(* that draw in it.  Memory is words of one pixel: the depth is the 32     *)
(* bits kernel.c asks for, and the pitch, the length of a row in memory,   *)
(* is in words too.  A row may be longer than the screen is wide.          *)
(*                                                                         *)
(* One action is one call; between calls nothing but memory remains.       *)
(* There is no cursor: fb_puts starts where it is told, and never scrolls. *)
(***************************************************************************)
EXTENDS Integers, Sequences

CONSTANTS
  Coords, Sizes, Colors, Percents,   \* what callers pass
  Scrolls,            \* and to fb_scroll_up: see FbScrollUp
  Texts,              \* the strings drawn, of character codes
  Font,               \* font8x8: the cells <<col, row>> that are set, from code 0 on
  GLYPH, LEAD,        \* 8 and 10
  Memory,             \* addresses of the physical memory around the frame buffer
  Grants,             \* the VideoCore's answers: width, height, pitch, buffer, size
  BUS,                \* 2^30: above it, a bus address says how to cache
  WRAP,               \* 2^32
  MaxCalls            \* bound: the calls made

ASSUME ConsoleAssumption ==
  /\ Coords \cup Sizes \cup Percents \cup Scrolls \cup {MaxCalls} \subseteq Nat
  /\ {GLYPH, LEAD, BUS, WRAP} \subseteq Nat \ {0}
  /\ Texts \subseteq Seq(Nat) /\ 0 \in DOMAIN Font
  /\ Grants \subseteq [width : Nat, height : Nat, pitch : Nat, buffer : Nat, size : Nat]
  /\ \A g \in Grants :
       /\ g.width \in 1 .. (WRAP - 1) /\ g.height \in 1 .. (WRAP - 1) /\ g.width <= g.pitch
       /\ g.size = g.pitch * g.height
       /\ \A a \in 0 .. (g.size - 1) : (g.buffer % BUS) + a \in Memory

\* What is drawn is where no sum of 32 bits wraps, no bar is more than done, and
\* lines of text do not overlap: what Screen promises takes this.
DrawingFits ==
  /\ GLYPH <= LEAD
  /\ \A x \in Coords, w \in Sizes : x + w < WRAP
  /\ \A w \in Sizes, percent \in Percents : percent <= 100 /\ w * percent < WRAP
  /\ \A x \in Coords, s \in Texts : x + (Len(s) + 1) * LEAD < WRAP

VARIABLES
  fb,       \* the framebuffer_t: width, height, pitch, buffer, size, initialized
  mem,      \* Memory's words
  call,     \* history: the last call
  calls     \* how many there were

vars == <<fb, mem, call, calls>>

NEWLINE == 10
-----------------------------------------------------------------------------
Init ==
  /\ fb = [width |-> 0, height |-> 0, pitch |-> 0, buffer |-> 0, size |-> 0,
           initialized |-> FALSE]
  /\ mem = [a \in Memory |-> -1]
  /\ call = <<>> /\ calls = 0

Called(c) == calls < MaxCalls /\ calls' = calls + 1 /\ call' = c

\* fb_init: the VideoCore refuses, or gives no buffer, or grants one.  The
\* kernel calls it once.
FbInitFails ==
  /\ ~ fb.initialized
  /\ Called(<<"fb_init">>)
  /\ UNCHANGED <<fb, mem>>

\* Takes the buffer's bus address for its address.
FbInitBus(g) ==
  /\ ~ fb.initialized
  /\ Called(<<"fb_init">>)
  /\ fb' = [width |-> g.width, height |-> g.height, pitch |-> g.pitch,
            buffer |-> g.buffer, size |-> g.size, initialized |-> TRUE]
  /\ UNCHANGED mem

FbInit(g) ==
  /\ ~ fb.initialized
  /\ Called(<<"fb_init">>)
  /\ fb' = [width |-> g.width, height |-> g.height, pitch |-> g.pitch,
            buffer |-> g.buffer % BUS, size |-> g.size, initialized |-> TRUE]
  /\ UNCHANGED mem

Offset(x, y) == y * fb.pitch + x

\* *((uint32_t*)(fb.buffer + offset)) = color
Store(m, x, y, c) == [m EXCEPT ![fb.buffer + Offset(x, y)] = c]

\* The last column and row are taken to be on the screen twice.
PixelLoose(m, x, y, c) ==
  IF ~ fb.initialized \/ x > fb.width \/ y > fb.height THEN m ELSE Store(m, x, y, c)

\* fb_putpixel, in memory m.
Pixel(m, x, y, c) ==
  IF ~ fb.initialized \/ x >= fb.width \/ y >= fb.height THEN m ELSE Store(m, x, y, c)

\* fb_fillrect's loops: j < y + h && j < fb.height, and so for i.
Loop(from, count, limit) == {j \in from .. (limit - 1) : j < (from + count) % WRAP}
Rect(m, x, y, w, h, c) ==
  LET painted == {fb.buffer + Offset(i, j) : i \in Loop(x, w, fb.width), j \in Loop(y, h, fb.height)}
  IN [a \in DOMAIN m |-> IF a \in painted THEN c ELSE m[a]]

\* fb_putchar's loops over the glyph's rows and, in each, its columns.
Char(m, x, y, c, fg, bg) ==
  LET glyph == Font[IF c \in DOMAIN Font THEN c ELSE 0]
      draw[n \in 0 .. (GLYPH * GLYPH)] ==
        IF n = 0 THEN m
        ELSE LET row == (n - 1) \div GLYPH
                 col == (n - 1) % GLYPH IN
               Pixel(draw[n - 1], (x + col) % WRAP, (y + row) % WRAP,
                     IF <<col, row>> \in glyph THEN fg ELSE bg)
  IN IF fb.initialized THEN draw[GLYPH * GLYPH] ELSE m

\* fb_puts' loop: memory, cx and y after k characters.
Text(m, x, y, s, fg, bg) ==
  LET draw[k \in 0 .. Len(s)] ==
        IF k = 0 THEN [m |-> m, cx |-> x, y |-> y]
        ELSE LET d == draw[k - 1] IN
          IF s[k] = NEWLINE
            THEN [d EXCEPT !.cx = x, !.y = (@ + LEAD) % WRAP]
            ELSE [d EXCEPT !.m = Char(@, d.cx, d.y, s[k], fg, bg), !.cx = (@ + GLYPH) % WRAP]
  IN draw[Len(s)].m

\* Backward, as would be right for a copy to a higher address.
MemcpyBackward(m, dst, src, n) ==
  LET copy[k \in 0 .. n] ==
        IF k = 0 THEN m
        ELSE LET c == copy[k - 1] IN [c EXCEPT ![dst + n - k] = c[src + n - k]]
  IN copy[n]

\* memcpy of lib/string.c: forward, a word at a time, from dst's own memory.
Memcpy(m, dst, src, n) ==
  LET copy[k \in 0 .. n] ==
        IF k = 0 THEN m
        ELSE LET c == copy[k - 1] IN [c EXCEPT ![dst + k - 1] = c[src + k - 1]]
  IN copy[n]

Memset(m, dst, c, n) == [a \in DOMAIN m |-> IF a \in dst .. (dst + n - 1) THEN c ELSE m[a]]
-----------------------------------------------------------------------------
FbPutPixel(x, y, c) ==
  /\ Called(<<"putpixel", x, y, c>>)
  /\ mem' = Pixel(mem, x, y, c) /\ UNCHANGED fb

FbFillRect(x, y, w, h, c) ==
  /\ Called(<<"fillrect", x, y, w, h, c>>)
  /\ mem' = Rect(mem, x, y, w, h, c) /\ UNCHANGED fb

FbClear(c) ==
  /\ Called(<<"clear", c>>)
  /\ mem' = (IF fb.initialized THEN Rect(mem, 0, 0, fb.width, fb.height, c) ELSE mem)
  /\ UNCHANGED fb

FbPuts(x, y, s, fg, bg) ==
  /\ Called(<<"puts", x, y, s, fg, bg>>)
  /\ mem' = Text(mem, x, y, s, fg, bg) /\ UNCHANGED fb

FbDrawProgressBar(x, y, w, h, percent, fg, bg) ==
  /\ Called(<<"progress", x, y, w, h, percent, fg, bg>>)
  /\ mem' = Rect(Rect(mem, x, y, w, h, bg), x, y, ((w * percent) % WRAP) \div 100, h, fg)
  /\ UNCHANGED fb

\* Nothing calls it.  By more lines than the screen has, move_size would be
\* negative and taken for nearly 2^32.
FbScrollUp(lines) ==
  /\ fb.initialized => lines * LEAD <= fb.height
  /\ Called(<<"scroll", lines>>)
  /\ LET gone == lines * LEAD * fb.pitch
         move_size == (fb.height - lines * LEAD) * fb.pitch IN
       mem' = IF fb.initialized
                THEN Memset(Memcpy(mem, fb.buffer, fb.buffer + gone, move_size),
                            fb.buffer + move_size, 0, gone)
                ELSE mem
  /\ UNCHANGED fb

Next ==
  \/ FbInitFails \/ \E g \in Grants : FbInit(g)
  \/ \E x, y \in Coords, c \in Colors : FbPutPixel(x, y, c)
  \/ \E x, y \in Coords, w, h \in Sizes, c \in Colors : FbFillRect(x, y, w, h, c)
  \/ \E c \in Colors : FbClear(c)
  \/ \E x, y \in Coords, s \in Texts, fg, bg \in Colors : FbPuts(x, y, s, fg, bg)
  \/ \E x, y \in Coords, w, h \in Sizes, percent \in Percents, fg, bg \in Colors :
       FbDrawProgressBar(x, y, w, h, percent, fg, bg)
  \/ \E lines \in Scrolls : FbScrollUp(lines)

Spec == Init /\ [][Next]_vars
-----------------------------------------------------------------------------
TypeOK ==
  /\ fb \in [width : Nat, height : Nat, pitch : Nat, buffer : Nat, size : Nat,
             initialized : BOOLEAN]
  /\ fb.buffer .. (fb.buffer + fb.size - 1) \subseteq Memory
  /\ mem \in [Memory -> Colors \cup {-1, 0}]
  /\ calls \in 0 .. MaxCalls

(***************************************************************************)
(* Only memory the VideoCore has granted is ever written, and none before  *)
(* it has granted any (fb.c:176, 192, 198, 251): whatever the coordinates, *)
(* and with rows that are longer than the screen is wide.                  *)
(***************************************************************************)
OnlyFrameBufferWritten ==
  \A a \in Memory : mem[a] # -1 =>
    fb.initialized /\ a \in fb.buffer .. (fb.buffer + fb.size - 1)

(***************************************************************************)
(* Each call paints on the screen what Screen says it does, clipped at the *)
(* edges: text a row at a time, the bar's part, and the copy of the screen *)
(* over itself that scrolling makes (fb.c:191-253).                        *)
(***************************************************************************)
Shown == INSTANCE Screen WITH
  width <- fb.width, height <- fb.height,
  pixels <- [p \in (0 .. (fb.width - 1)) \X (0 .. (fb.height - 1)) |->
               mem[fb.buffer + p[2] * fb.pitch + p[1]]]
ImplementsScreen == Shown!ScreenSpecification
=============================================================================
