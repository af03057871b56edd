------------------------------- MODULE Screen -------------------------------
(***************************************************************************)
(* What the drawing functions of drivers/fb.c promise: a rectangle of      *)
(* pixels, on which each of them paints what of its figure is on the       *)
(* screen.  Coordinates are plain numbers and there is no memory.          *)
(***************************************************************************)
EXTENDS Integers, Sequences, FiniteSets

CONSTANTS
  Coords, Sizes,      \* what callers pass for places and for lengths,
  Colors,             \* for colors,
  Percents, Scrolls,  \* how much is done, and by how many lines to scroll
  Texts,              \* the strings drawn, of characters of Font and others
  Font,               \* the cells that are set in each character's glyph
  GLYPH, LEAD         \* the side of a glyph, and from one line to the next

VARIABLES
  width, height,      \* 0 while there is no screen
  pixels,             \* <<x, y>> |-> color
  call                \* the last call, which the step to this state carried out

\* Call c paints the pixels that satisfy In, each in a color that may depend
\* on what there was.
Paint(c, In(_), Color(_, _)) ==
  /\ call' = c
  /\ LET was == pixels IN
       pixels' = [p \in DOMAIN was |-> IF In(p) THEN Color(was, p) ELSE was[p]]
  /\ UNCHANGED <<width, height>>

InRect(p, x, y, w, h) == p[1] \in x .. (x + w - 1) /\ p[2] \in y .. (y + h - 1)

\* The glyph of a character, the first one's for a character without.
Glyph(c) == IF c \in DOMAIN Font THEN Font[c] ELSE Font[0]
NEWLINE == 10

\* The corner of the k-th character of text s drawn at x, y.
LineOf(s, k) == Cardinality({j \in 1 .. (k - 1) : s[j] = NEWLINE})
PlaceOf(s, k) == Cardinality({j \in 1 .. (k - 1) : s[j] # NEWLINE /\ LineOf(s, j) = LineOf(s, k)})
CharAt(s, x, y, p) ==
  {k \in DOMAIN s : s[k] # NEWLINE /\ InRect(p, x + GLYPH * PlaceOf(s, k), y + LEAD * LineOf(s, k),
                                             GLYPH, GLYPH)}
-----------------------------------------------------------------------------
\* The screen comes on with whatever its memory holds, or does not.
SpecOn ==
  /\ call' = <<"fb_init">>
  /\ IF height' = 0
       THEN UNCHANGED <<width, height, pixels>>
       ELSE /\ height = 0 /\ width' > 0
            /\ DOMAIN pixels' = (0 .. (width' - 1)) \X (0 .. (height' - 1))

PutPixel(x, y, c) ==
  Paint(<<"putpixel", x, y, c>>, LAMBDA p : p = <<x, y>>, LAMBDA was, p : c)

FillRect(x, y, w, h, c) ==
  Paint(<<"fillrect", x, y, w, h, c>>, LAMBDA p : InRect(p, x, y, w, h), LAMBDA was, p : c)

Clear(c) == Paint(<<"clear", c>>, LAMBDA p : TRUE, LAMBDA was, p : c)

PutText(x, y, s, fg, bg) ==
  Paint(<<"puts", x, y, s, fg, bg>>,
        LAMBDA p : CharAt(s, x, y, p) # {},
        LAMBDA was, p :
          LET k == CHOOSE k \in CharAt(s, x, y, p) : TRUE
              cell == <<p[1] - x - GLYPH * PlaceOf(s, k), p[2] - y - LEAD * LineOf(s, k)>>
          IN IF cell \in Glyph(s[k]) THEN fg ELSE bg)

\* A bar of which percent of 100 is done.
ProgressBar(x, y, w, h, percent, fg, bg) ==
  Paint(<<"progress", x, y, w, h, percent, fg, bg>>,
        LAMBDA p : InRect(p, x, y, w, h),
        LAMBDA was, p : IF (p[1] - x + 1) * 100 <= w * percent THEN fg ELSE bg)

\* Rows move up, and black ones come in below.
ScrollUp(lines) ==
  Paint(<<"scroll", lines>>,
        LAMBDA p : TRUE,
        LAMBDA was, p :
          LET from == p[2] + lines * LEAD IN IF from < height THEN was[<<p[1], from>>] ELSE 0)

SpecInit == width = 0 /\ height = 0 /\ pixels = [p \in {} |-> 0] /\ call = <<>>

SpecNext ==
  \/ SpecOn
  \/ \E x, y \in Coords, c \in Colors : PutPixel(x, y, c)
  \/ \E x, y \in Coords, w, h \in Sizes, c \in Colors : FillRect(x, y, w, h, c)
  \/ \E c \in Colors : Clear(c)
  \/ \E x, y \in Coords, s \in Texts, fg, bg \in Colors : PutText(x, y, s, fg, bg)
  \/ \E x, y \in Coords, w, h \in Sizes, percent \in Percents, fg, bg \in Colors :
       ProgressBar(x, y, w, h, percent, fg, bg)
  \/ \E lines \in Scrolls : ScrollUp(lines)

ScreenSpecification == SpecInit /\ [][SpecNext]_<<width, height, pixels, call>>
=============================================================================
